-------------------------------- MODULE Engine --------------------------------
(***************************************************************************)
(* The threads of SocketLink under the orchestrator of ThreadSupervision.  *)
(* A controller only steps while its std::thread runs; a reader that has   *)
(* given up its connection reports 1 and its thread ends; the orchestrator *)
(* joins it, resets the status and creates a new thread, which begins at   *)
(* the top of the controller's loop.  The creation of a thread may fail.   *)
(***************************************************************************)
EXTENDS SocketLink

CONSTANTS
  NccAt,        \* place of each connection controller in the container pool
  ReaderAt      \* place of each reader controller

VARIABLES statusCode, thread, mode, pc, cur, process

PoolSize == Cardinality(Interfaces) + Cardinality(Readers)

\* Every controller has a container of its own.
ASSUME PlacesAssumption ==
  /\ Writers = {}
  /\ IsFiniteSet(Interfaces)
  /\ NccAt \in [Interfaces -> 1 .. PoolSize]
  /\ ReaderAt \in [Readers -> 1 .. PoolSize]
  /\ \A i, j \in Readers : ReaderAt[i] = ReaderAt[j] => i = j
  /\ \A i, j \in Interfaces : NccAt[i] = NccAt[j] => i = j
  /\ \A i \in Interfaces, j \in Readers : NccAt[i] # ReaderAt[j]

\* Auto-Restart is a setting of each kind of controller; for the connection
\* controllers it only matters when their thread could not be created.
RestartSet == IF AutoRestart THEN 1 .. PoolSize ELSE {NccAt[i] : i \in Interfaces}

Threads == INSTANCE ThreadSupervision
             WITH N <- PoolSize, AutoRestart <- RestartSet, ForeignThrowers <- {}

pool == <<statusCode, thread, mode, pc, cur, process>>
engineVars == <<vars, pool>>

EngineInit == Init /\ Threads!Init

\* Of the steps of SocketLink only ReaderRestart is not a controller's own.
NccRuns(i) == thread[NccAt[i]] = "running" /\ Ncc(i) /\ UNCHANGED pool
ReaderRuns(i) ==
  thread[ReaderAt[i]] = "running" /\ ~AtReader(i, "failed") /\ Reader(i) /\ UNCHANGED pool

\* Mutant of ReaderFails: readData throws before it has closed the connection.
ReaderFails_BeforeClose(i) ==
  /\ readerPc[i] \in {"closeStatus", "failed"}
  /\ Threads!Fail(ReaderAt[i])
  /\ UNCHANGED vars

\* The reader's startThread returns 1, and threadRuntime stores it.
ReaderFails(i) ==
  /\ AtReader(i, "failed")
  /\ Threads!Fail(ReaderAt[i])
  /\ UNCHANGED vars

ThreadEnds(c) == Threads!Exit(c) /\ UNCHANGED vars

\* A new reader thread begins its loop; a member like connectionStatus stays.
Begins(c) ==
  /\ readerPc' = [i \in Readers |-> IF ReaderAt[i] = c THEN "poll" ELSE readerPc[i]]
  /\ UNCHANGED <<hostPort, link, ncc, readerSock, writer, kernel>>

Created(c) == Threads!Create /\ cur = c /\ thread'[c] = "running" /\ Begins(c)
Orchestrates ==
  \/ \E c \in Threads!Pool : Created(c)
  \/ Threads!Create /\ thread' = thread /\ UNCHANGED vars
  \/ (Threads!Join \/ Threads!Reset \/ Threads!Inspect \/ Threads!Mark) /\ UNCHANGED vars

EngineNext ==
  \/ \E i \in Interfaces : NccRuns(i)
  \/ \E i \in Readers : ReaderRuns(i) \/ ReaderFails(i)
  \/ \E c \in Threads!Pool : ThreadEnds(c)
  \/ Orchestrates
  \/ \E s \in Socks : Peer(s) /\ UNCHANGED pool

\* Every thread is scheduled; that the system does not refuse new threads for
\* ever is an assumption about the environment.
EngineFairness ==
  /\ WF_engineVars(Orchestrates)
  /\ \A c \in Threads!Pool : WF_engineVars(ThreadEnds(c)) /\ SF_engineVars(Created(c))
  /\ \A i \in Interfaces : WF_engineVars(NccRuns(i))
  /\ \A i \in Readers : WF_engineVars(ReaderRuns(i)) /\ WF_engineVars(ReaderFails(i))

EngineSpec == EngineInit /\ [][EngineNext]_engineVars /\ EngineFairness

-----------------------------------------------------------------------------
(* Properties.                                                              *)

\* Supervision and links together refine the links alone: to join the reader,
\* reset its status, create a thread and perhaps fail and repeat all of it is,
\* seen from the socket, the single step ReaderRestart.
LinkSpec == Spec

\* A reader that has given up a connection reads again, however often threads
\* fail and whatever the connection controllers do meanwhile.
ReaderRecovers ==
  \A i \in Readers : AtReader(i, "failed") ~> AtReader(i, "poll")
=============================================================================
