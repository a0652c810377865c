---------------------------- MODULE EngineProofs ----------------------------
(***************************************************************************)
(* Proofs about Engine, for any number of interfaces and any choice of     *)
(* readers: the controllers change nothing in what the orchestrator does   *)
(* with its pool, so that what is proved of ThreadSupervision holds in the *)
(* engine, and the orchestrator changes nothing in what the links do.      *)
(***************************************************************************)
EXTENDS Engine, SocketLinkProofs, FiniteSetTheorems

(* The orchestrator of the engine, with the theorems about it. *)
Proved == INSTANCE ThreadSupervisionProofs
            WITH N <- PoolSize, AutoRestart <- RestartSet, ForeignThrowers <- {}

(* A controller whose thread does not run is at the beginning of its loop, or *)
(* has given up; before the orchestrator has come to it it has no thread.     *)
Coupled ==
  /\ process = "alive"
  /\ readerPc \in [Readers -> ReaderPcs]
  /\ \A c \in Threads!Pool : Threads!NotYetStarted(c) => thread[c] = "none"
  /\ \A i \in Readers :
       /\ Threads!NotYetStarted(ReaderAt[i]) => readerPc[i] = "poll"
       /\ thread[ReaderAt[i]] # "running" => readerPc[i] \in {"poll", "failed"}

EngineInv == Proved!IInv /\ Coupled

-----------------------------------------------------------------------------
(* The pool is one the theorems of ThreadSupervision speak of.              *)

LEMMA PoolIsFit == PoolSize \in Nat \ {0} /\ Proved!PoolAssumption
<1>1. IsFiniteSet(Readers)
  BY FS_Subset, LinkAssumption, PlacesAssumption
<1>2. Cardinality(Interfaces) \in Nat \ {0} /\ Cardinality(Readers) \in Nat
  BY <1>1, FS_CardinalityType, FS_EmptySet, LinkAssumption, PlacesAssumption
<1>3. PoolSize \in Nat \ {0}
  BY <1>2 DEF PoolSize
<1>4. RestartSet \subseteq 1 .. PoolSize
  BY PlacesAssumption DEF RestartSet
<1> QED  BY <1>3, <1>4 DEF Proved!PoolAssumption, Proved!Pool

LEMMA SamePool == Threads!Pool = 1 .. PoolSize /\ Proved!Pool = 1 .. PoolSize
BY DEF Threads!Pool, Proved!Pool

(* The two instances say the same. *)
LEMMA SameActions ==
  /\ Threads!Init => Proved!Init
  /\ Threads!Join => Proved!Join
  /\ Threads!Reset => Proved!Reset
  /\ Threads!Create => Proved!Create
  /\ Threads!Inspect => Proved!Inspect
  /\ Threads!Mark => Proved!Mark
  /\ \A c : Threads!Fail(c) => Proved!Fail(c)
  /\ \A c : Threads!Exit(c) => Proved!Exit(c)
BY SamePool
   DEF Threads!Init, Threads!Join, Threads!Reset, Threads!Create, Threads!Inspect,
       Threads!Mark, Threads!Fail, Threads!Exit, Threads!NextContainer,
       Proved!Init, Proved!Join, Proved!Reset, Proved!Create, Proved!Inspect,
       Proved!Mark, Proved!Fail, Proved!Exit, Proved!NextContainer

(* Each step of the engine is a step of the pool, or none.                    *)
LEMMA PoolStep ==
  ASSUME process = "alive", [EngineNext]_engineVars
  PROVE  [Proved!Next]_(Proved!vars)
<1>1. CASE UNCHANGED pool
  BY <1>1 DEF pool, Proved!vars
<1>2. CASE Orchestrates
  BY <1>2, SameActions DEF Orchestrates, Created, Proved!Next, Proved!Orchestrate
<1>3. ASSUME NEW i \in Readers, ReaderFails(i) PROVE Proved!Next
  BY <1>3, SameActions, SamePool, PlacesAssumption DEF ReaderFails, Proved!Next
<1>4. ASSUME NEW c \in Threads!Pool, ThreadEnds(c) PROVE Proved!Next
  BY <1>4, SameActions, SamePool DEF ThreadEnds, Proved!Next
<1> QED
  BY <1>1, <1>2, <1>3, <1>4 DEF EngineNext, NccRuns, ReaderRuns, engineVars

-----------------------------------------------------------------------------
(* The coupling of threads and controllers.                                 *)

LEMMA EngineInitInv == EngineInit => EngineInv
<1> SUFFICES ASSUME EngineInit PROVE EngineInv
  OBVIOUS
<1>1. Proved!IInv
  BY PoolIsFit, SameActions, Proved!InitEstablishes DEF EngineInit
<1>2. Coupled
  BY SamePool, PlacesAssumption
     DEF EngineInit, Init, Threads!Init, Coupled, ReaderPcs
<1> QED  BY <1>1, <1>2 DEF EngineInv

(* What the orchestrator is about to do at the end of startThread. *)
LEMMA AtCreate ==
  ASSUME EngineInv, pc = "create", NEW i \in Readers, ReaderAt[i] = cur
  PROVE  /\ thread[cur] = "none"
         /\ mode = "boot" => readerPc[i] = "poll"
         /\ readerPc[i] = "poll" \/ (readerPc[i] = "failed" /\ AutoRestart)
<1>1. thread[cur] = "none"
  BY DEF EngineInv, Proved!IInv, Proved!Control
<1>2. mode = "boot" => readerPc[i] = "poll"
  BY DEF EngineInv, Coupled, Threads!NotYetStarted
<1>3. readerPc[i] \in {"poll", "failed"}
  BY <1>1 DEF EngineInv, Coupled
<1>4. mode = "sweep" => cur \in RestartSet
  BY DEF EngineInv, Proved!IInv, Proved!Control
<1>5. mode \in {"boot", "sweep"}
  BY DEF EngineInv, Proved!IInv, Proved!TypeOK
<1>6. cur \in RestartSet => AutoRestart
  BY PlacesAssumption DEF RestartSet
<1> QED  BY <1>1, <1>2, <1>3, <1>4, <1>5, <1>6

(* A step of the pool: a container that becomes, or stays, unstarted was      *)
(* unstarted before.                                                          *)
LEMMA StillUnstarted ==
  ASSUME Proved!IInv, Threads!Create \/ Threads!Join \/ Threads!Reset \/ Threads!Inspect \/ Threads!Mark,
         NEW c \in Threads!Pool, Threads!NotYetStarted(c)'
  PROVE  /\ Threads!NotYetStarted(c)
         /\ pc = "create" => c # cur
<1> USE PoolIsFit, SamePool
    DEF Proved!IInv, Proved!TypeOK, Proved!Control, Threads!NotYetStarted
<1>1. CASE Threads!Create
  BY <1>1 DEF Threads!Create, Threads!NextContainer
<1>2. CASE Threads!Join \/ Threads!Reset
  BY <1>2 DEF Threads!Join, Threads!Reset
<1>3. CASE Threads!Inspect \/ Threads!Mark
  BY <1>3 DEF Threads!Inspect, Threads!Mark, Threads!NextContainer
<1> QED  BY <1>1, <1>2, <1>3

LEMMA LinkUnchanged ==
  ASSUME UNCHANGED vars
  PROVE  UNCHANGED <<readerPc, readerSock, hostPort, link, ncc, writer, kernel>>
BY DEF vars, reader

(* The link's part of a controller and its thread stay in step.               *)
LEMMA CoupledStep ==
  ASSUME EngineInv, [EngineNext]_engineVars
  PROVE  Coupled'
<1> USE DEF EngineInv
<1>0. /\ process = "alive" /\ readerPc \in [Readers -> ReaderPcs]
      /\ thread \in [Threads!Pool -> Proved!ThreadStates] /\ cur \in Threads!Pool
      /\ \A i \in Readers : ReaderAt[i] \in Threads!Pool
  BY SamePool, PlacesAssumption DEF Coupled, Proved!IInv, Proved!TypeOK
<1>1. CASE UNCHANGED pool /\ UNCHANGED readerPc
  BY <1>1 DEF pool, Coupled, Threads!NotYetStarted
<1>2. ASSUME NEW i \in Interfaces, NccRuns(i) PROVE Coupled'
  <2>1. UNCHANGED readerPc
    BY <1>2 DEF NccRuns, Ncc, NccSocket, NccBind, NccListen, NccAccept, NccAcceptFails,
                NccAcceptRefused, NccSwapClose, NccSwap, NccConnected, NccCheck, NccPing,
                NccSend, NccCloseStatus, NccCloseFd, NccRebuild, vars, reader
  <2> QED  BY <1>1, <1>2, <2>1 DEF NccRuns
<1>3. ASSUME NEW i \in Readers, ReaderRuns(i) PROVE Coupled'
  <2>1. PICK p \in ReaderPcs : readerPc' = [readerPc EXCEPT ![i] = p]
    BY <1>3 DEF ReaderRuns, Reader, ReaderPoll, ReaderReadData, ReaderRecv,
                ReaderRecvReturns, ReaderCloseStatus, ReaderCloseFd, ReaderRestart,
                ReaderTo, ReaderPcs
  <2>2. thread[ReaderAt[i]] = "running" /\ UNCHANGED pool
    BY <1>3 DEF ReaderRuns
  <2>3. ~Threads!NotYetStarted(ReaderAt[i])
    BY <1>0, <2>2 DEF Coupled
  <2> QED  BY <1>0, <2>1, <2>2, <2>3 DEF pool, Coupled, Threads!NotYetStarted
<1>4. ASSUME NEW i \in Readers, ReaderFails(i) PROVE Coupled'
  <2>1. UNCHANGED readerPc
    BY <1>4, LinkUnchanged DEF ReaderFails
  <2>2. readerPc[i] = "failed"
    BY <1>4 DEF ReaderFails, AtReader
  <2>3. \A j \in Readers : ReaderAt[j] = ReaderAt[i] => j = i
    BY PlacesAssumption
  <2>4. /\ thread' = [thread EXCEPT ![ReaderAt[i]] = "returning"]
        /\ thread[ReaderAt[i]] = "running"
        /\ UNCHANGED <<mode, pc, cur, process>>
    BY <1>4 DEF ReaderFails, Threads!Fail
  <2> QED  BY <1>0, <2>1, <2>2, <2>3, <2>4 DEF Coupled, Threads!NotYetStarted
<1>5. ASSUME NEW c \in Threads!Pool, ThreadEnds(c) PROVE Coupled'
  <2>1. UNCHANGED readerPc
    BY <1>5, LinkUnchanged DEF ThreadEnds
  <2>2. /\ thread' = [thread EXCEPT ![c] = "exited"] /\ thread[c] = "returning"
        /\ UNCHANGED <<mode, pc, cur, process>>
    BY <1>5 DEF ThreadEnds, Threads!Exit
  <2> QED  BY <1>0, <2>1, <2>2 DEF Coupled, Threads!NotYetStarted
<1>6. CASE Orchestrates
  <2>0. Threads!Create \/ Threads!Join \/ Threads!Reset \/ Threads!Inspect \/ Threads!Mark
    BY <1>6 DEF Orchestrates, Created
  <2>1. process' = "alive"
    BY <1>0, <2>0 DEF Threads!Create, Threads!Join, Threads!Reset, Threads!Inspect, Threads!Mark
  <2>2. \A c \in Threads!Pool : thread'[c] # thread[c] =>
          \/ thread'[c] = "none"
          \/ c = cur /\ pc = "create" /\ thread'[c] = "running"
    BY <1>0, <2>0 DEF Threads!Create, Threads!Join, Threads!Reset, Threads!Inspect, Threads!Mark
  <2>3. \A i \in Readers : readerPc'[i] # readerPc[i] =>
          pc = "create" /\ ReaderAt[i] = cur /\ readerPc'[i] = "poll"
    <3>1. ASSUME NEW c \in Threads!Pool, Created(c), NEW i \in Readers, readerPc'[i] # readerPc[i]
          PROVE  pc = "create" /\ ReaderAt[i] = cur /\ readerPc'[i] = "poll"
      BY <3>1 DEF Created, Begins, Threads!Create
    <3>2. CASE ~\E c \in Threads!Pool : Created(c)
      BY <1>6, <3>2, LinkUnchanged DEF Orchestrates
    <3> QED  BY <3>1, <3>2
  <2>4. readerPc' \in [Readers -> ReaderPcs]
    <3>1. ASSUME NEW c \in Threads!Pool, Created(c) PROVE readerPc' \in [Readers -> ReaderPcs]
      BY <1>0, <3>1 DEF Created, Begins, ReaderPcs
    <3>2. CASE ~\E c \in Threads!Pool : Created(c)
      BY <1>0, <1>6, <3>2, LinkUnchanged DEF Orchestrates
    <3> QED  BY <3>1, <3>2
  <2>5. \A c \in Threads!Pool : Threads!NotYetStarted(c)' => thread'[c] = "none"
    BY <2>0, <2>2, StillUnstarted DEF Coupled
  <2>6. ASSUME NEW i \in Readers
        PROVE  /\ Threads!NotYetStarted(ReaderAt[i])' => readerPc'[i] = "poll"
               /\ thread'[ReaderAt[i]] # "running" => readerPc'[i] \in {"poll", "failed"}
    <3>1. ReaderAt[i] \in Threads!Pool
      BY <1>0
    <3>2. Threads!NotYetStarted(ReaderAt[i])' => readerPc'[i] = "poll"
      BY <2>0, <2>3, <3>1, StillUnstarted DEF Coupled
    <3>3. ASSUME thread'[ReaderAt[i]] # "running", readerPc'[i] = readerPc[i]
          PROVE  readerPc'[i] \in {"poll", "failed"}
      <4>1. CASE thread[ReaderAt[i]] # "running"
        BY <3>3, <4>1 DEF Coupled
      <4>2. CASE thread[ReaderAt[i]] = "running"
        <5>1. Threads!Join /\ ReaderAt[i] = cur
          BY <1>0, <2>0, <3>1, <3>3, <4>2
             DEF Threads!Create, Threads!Join, Threads!Reset, Threads!Inspect, Threads!Mark
        <5> QED  BY <4>2, <5>1 DEF Threads!Join
      <4> QED  BY <4>1, <4>2
    <3> QED  BY <2>3, <3>2, <3>3
  <2> QED  BY <2>1, <2>4, <2>5, <2>6 DEF Coupled
<1>7. ASSUME NEW s \in Socks, Peer(s), UNCHANGED pool PROVE Coupled'
  <2>1. UNCHANGED readerPc
    BY <1>7 DEF Peer, PeerConnect, PeerSend, PeerClose, PeerReset, threads, reader
  <2> QED  BY <1>1, <1>7, <2>1
<1>8. CASE UNCHANGED engineVars
  BY <1>1, <1>8, LinkUnchanged DEF engineVars
<1> QED  BY <1>2, <1>3, <1>4, <1>5, <1>6, <1>7, <1>8 DEF EngineNext

LEMMA EngineInductive == EngineInit /\ [][EngineNext]_engineVars => []EngineInv
<1>1. EngineInv /\ [EngineNext]_engineVars => EngineInv'
  <2> SUFFICES ASSUME EngineInv, [EngineNext]_engineVars PROVE EngineInv'
    OBVIOUS
  <2>1. [Proved!Next]_(Proved!vars)
    BY PoolStep DEF EngineInv, Coupled
  <2>2. Proved!IInv'
    BY <2>1, PoolIsFit, Proved!StepPreserves DEF EngineInv
  <2> QED  BY <2>2, CoupledStep DEF EngineInv
<1> QED  BY EngineInitInv, <1>1, PTL

-----------------------------------------------------------------------------
(* The links.                                                               *)

(* Each step of the engine is a step of the links, or none.                   *)
LEMMA LinkStep ==
  ASSUME EngineInv, [EngineNext]_engineVars
  PROVE  [Next]_vars
<1>1. CASE UNCHANGED vars
  BY <1>1
<1>2. ASSUME NEW i \in Interfaces, NccRuns(i) PROVE Next
  BY <1>2 DEF NccRuns, Next
<1>3. ASSUME NEW i \in Readers, ReaderRuns(i) PROVE Next
  BY <1>3 DEF ReaderRuns, Next
<1>4. ASSUME NEW c \in Threads!Pool, Created(c) PROVE [Next]_vars
  <2>1. pc = "create" /\ cur = c /\ Begins(c)
    BY <1>4 DEF Created, Threads!Create
  <2>2. readerPc \in [Readers -> ReaderPcs]
    BY DEF EngineInv, Coupled
  <2>3. CASE \E i \in Readers : ReaderAt[i] = c /\ readerPc[i] # "poll"
    <3>1. PICK i \in Readers : ReaderAt[i] = c /\ readerPc[i] # "poll"
      BY <2>3
    <3>2. readerPc[i] = "failed" /\ AutoRestart
      BY <2>1, <3>1, AtCreate
    <3>3. readerPc' = [readerPc EXCEPT ![i] = "poll"]
      BY <2>1, <2>2, <3>1, PlacesAssumption DEF Begins
    <3>4. Reader(i)
      BY <2>1, <3>2, <3>3 DEF Begins, Reader, ReaderRestart, AtReader, ReaderTo
    <3> QED  BY <3>4 DEF Next
  <2>4. CASE \A i \in Readers : ReaderAt[i] = c => readerPc[i] = "poll"
    <3>1. readerPc' = readerPc
      BY <2>1, <2>2, <2>4 DEF Begins
    <3> QED  BY <2>1, <3>1 DEF Begins, vars, reader
  <2> QED  BY <2>3, <2>4
<1>5. ASSUME NEW s \in Socks, Peer(s) PROVE Next
  BY <1>5 DEF Next
<1> QED
  BY <1>1, <1>2, <1>3, <1>4, <1>5
  DEF EngineNext, Orchestrates, ReaderFails, ThreadEnds, engineVars

-----------------------------------------------------------------------------
(* The results.                                                             *)

(* Under the orchestrator the links do what they do alone: joining a reader,  *)
(* resetting its status and creating its thread is the one step ReaderRestart *)
(* of the link, or none.                                                      *)
THEOREM LinksUnderSupervision == EngineSpec => LinkSpec
<1>1. EngineInit => Init
  BY DEF EngineInit
<1>2. EngineInv /\ [EngineNext]_engineVars => [Next]_vars
  BY LinkStep
<1> QED  BY <1>1, <1>2, EngineInductive, PTL DEF EngineSpec, LinkSpec, Spec

(* So what is proved of the links holds in the engine: nothing the            *)
(* orchestrator does closes standard input, leaves a connection controller    *)
(* waiting to build for ever, or takes a variable out of its type.            *)
THEOREM LinksStaySafe == EngineSpec => []StdinNeverClosed /\ []NoBuildSpin /\ []TypeOK
BY LinksUnderSupervision, StandardInputSafe, BuildNeverSpins, TypeCorrect, PTL DEF LinkSpec

(* A reader under the orchestrator, which may start it again at any moment of *)
(* a reconnection, is not stranded in a recv either.                          *)
THEOREM SupervisedRecvNotStranded ==
  ASSUME NEW x, Interfaces = {x}
  PROVE  EngineSpec => []ReaderNotStranded
<1>1. Spec => []ReaderNotStranded
  BY RecvNotStranded, PlacesAssumption
<1> QED  BY <1>1, LinksUnderSupervision, PTL DEF LinkSpec

(* With real controllers in its containers the orchestrator still does what   *)
(* module ThreadSupervision says, and so keeps the promise of Supervisor.     *)
THEOREM SupervisionOfTheEngine == EngineSpec => Proved!Spec /\ Proved!SupervisorSpec
<1>1. EngineInit => Proved!Init
  BY SameActions DEF EngineInit
<1>2. EngineInv /\ [EngineNext]_engineVars => [Proved!Next]_(Proved!vars)
  BY PoolStep DEF EngineInv, Coupled
<1>3. EngineSpec => Proved!Spec
  BY <1>1, <1>2, EngineInductive, PTL DEF EngineSpec, Proved!Spec
<1> QED  BY <1>3, PoolIsFit, Proved!Refinement
=============================================================================
