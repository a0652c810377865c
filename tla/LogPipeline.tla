----------------------------- MODULE LogPipeline -----------------------------
(***************************************************************************)
(* The way of a log record: any thread pushes it to LogQueue, a logging    *)
(* controller pops it and routes it by its type; screen and file are plain *)
(* output, the network sink makes it a message for the writer controller.  *)
(* Building and sending that message logs records in its turn, so the      *)
(* pipeline feeds itself; whether it ever comes to rest is the question.   *)
(*                                                                         *)
(* A record is its type.  The queue is a bag: no property here depends on  *)
(* the order of records (module MessageQueue is about order).  The link is *)
(* one flag, see module SocketLink.                                        *)
(***************************************************************************)
EXTENDS Integers, FiniteSets

CONSTANTS
  Loggers,        \* logging controllers (Thread-Count)
  NetworkFlags,   \* types whose Toggle-Logging-Flags.Network is true
  MaxLogs,        \* bound: records of the other threads of the engine
  MaxCuts,        \* bound: throughput reports
  MaxFailures     \* bound: failing sends

Types == {"Info", "System", "Debug", "Warning", "Error"}

ASSUME PipelineAssumption ==
  /\ IsFiniteSet(Loggers)
  /\ NetworkFlags \subseteq Types
  /\ MaxLogs \in Nat /\ MaxCuts \in Nat /\ MaxFailures \in Nat

VARIABLES
  mQueue,        \* LogQueue: how many records of each type
  loggerPc,      \* each logging controller: place in its loop
  holder,        \* each logging controller: the record it has popped
  writeBuffer,   \* messages in the writeBuffer of interface "Logs"
  writerPc,      \* the writer controller of that interface
  connected,     \* its connectionStatus
  logs, cuts, failures   \* counters of the bounds

vars == <<mQueue, loggerPc, holder, writeBuffer, writerPc, connected,
          logs, cuts, failures>>

TypeOK ==
  /\ mQueue \in [Types -> Nat]
  /\ loggerPc \in [Loggers -> {"empty", "pop", "route", "undefined"}]
  /\ holder \in [Loggers -> Types]
  /\ writeBuffer \in Nat
  /\ writerPc \in {"poll", "send"}
  /\ connected \in BOOLEAN
  /\ logs \in 0 .. MaxLogs /\ cuts \in 0 .. MaxCuts /\ failures \in 0 .. MaxFailures

Init ==
  /\ mQueue = [t \in Types |-> 0]
  /\ loggerPc = [l \in Loggers |-> "empty"]
  /\ holder = [l \in Loggers |-> "System"]
  /\ writeBuffer = 0
  /\ writerPc = "poll"
  /\ connected = FALSE
  /\ logs = 0 /\ cuts = 0 /\ failures = 0

\* INFO, SYSTEM, DEBUG, WARNING, ERROR: n records of type t are pushed.
Pushed(q, t, n) == [q EXCEPT ![t] = @ + n]
QueueEmpty == \A t \in Types : mQueue[t] = 0

\* Any other thread of the engine logs something.
Log(t) ==
  /\ logs < MaxLogs
  /\ logs' = logs + 1
  /\ mQueue' = Pushed(mQueue, t, 1)
  /\ UNCHANGED <<loggerPc, holder, writeBuffer, writerPc, connected, cuts, failures>>

-----------------------------------------------------------------------------
(* The logging controller.                                                  *)

LoggerTo(l, p) == loggerPc' = [loggerPc EXCEPT ![l] = p]

\* mLogger.empty(), under popLock, which is released before pop() takes it.
SeesRecord(l) ==
  /\ loggerPc[l] = "empty" /\ ~QueueEmpty
  /\ LoggerTo(l, "pop")
  /\ UNCHANGED <<mQueue, holder, writeBuffer, writerPc, connected, logs, cuts, failures>>

\* mLogger.pop(): front() of an empty std::queue is undefined.
PopRecord(l) ==
  /\ loggerPc[l] = "pop"
  /\ \/ \E t \in Types :
          /\ mQueue[t] > 0
          /\ mQueue' = [mQueue EXCEPT ![t] = @ - 1]
          /\ holder' = [holder EXCEPT ![l] = t]
          /\ LoggerTo(l, "route")
     \/ QueueEmpty /\ LoggerTo(l, "undefined") /\ UNCHANGED <<mQueue, holder>>
  /\ UNCHANGED <<writeBuffer, writerPc, connected, logs, cuts, failures>>

\* Mutant of ToNetwork: logSystem asks network.info.
ToNetwork_SystemAsksInfo(t) ==
  IF t = "System" THEN "Info" \in NetworkFlags ELSE t \in NetworkFlags

\* Is a record of type t sent over the network?
ToNetwork(t) == t \in NetworkFlags

\* networkLog: Buffer::Allocate and BufferCursor::wrapBuffer each log a SYSTEM
\* record while the message is built.
RecordsPerMessage == 2

\* logInfo .. logError, then the queue is looked at again.
Route(l) ==
  /\ loggerPc[l] = "route"
  /\ IF ToNetwork(holder[l])
       THEN /\ mQueue' = Pushed(mQueue, "System", RecordsPerMessage)
            /\ writeBuffer' = writeBuffer + 1
       ELSE UNCHANGED <<mQueue, writeBuffer>>
  /\ holder' = [holder EXCEPT ![l] = "System"]
  /\ LoggerTo(l, "empty")
  /\ UNCHANGED <<writerPc, connected, logs, cuts, failures>>

\* The throughput report of a minute: cutBatchEntry.
ReportRecords == 8
Cut(l) ==
  /\ loggerPc[l] = "empty" /\ cuts < MaxCuts
  /\ cuts' = cuts + 1
  /\ mQueue' = Pushed(mQueue, "Info", ReportRecords)
  /\ UNCHANGED <<loggerPc, holder, writeBuffer, writerPc, connected, logs, failures>>

Logger(l) == SeesRecord(l) \/ PopRecord(l) \/ Route(l)

-----------------------------------------------------------------------------
(* The writer controller and its link.                                      *)

\* Mutant of WriterPops: size() > 1.
WriterPops_KeepsLast ==
  /\ writerPc = "poll" /\ connected /\ writeBuffer > 1
  /\ writeBuffer' = writeBuffer - 1
  /\ writerPc' = "send"
  /\ UNCHANGED <<mQueue, loggerPc, holder, connected, logs, cuts, failures>>

WriterPops ==
  /\ writerPc = "poll" /\ connected /\ writeBuffer > 0
  /\ writeBuffer' = writeBuffer - 1
  /\ writerPc' = "send"
  /\ UNCHANGED <<mQueue, loggerPc, holder, connected, logs, cuts, failures>>

\* sendData(message) succeeds: one SYSTEM record.
SendSucceeds ==
  /\ writerPc = "send" /\ connected
  /\ writerPc' = "poll"
  /\ mQueue' = Pushed(mQueue, "System", 1)
  /\ UNCHANGED <<loggerPc, holder, writeBuffer, connected, logs, cuts, failures>>

\* A send returns -1: ERROR, and closeSocket logs SYSTEM, or ERROR again when
\* another thread has closed the descriptor before.
SendFails ==
  /\ writerPc = "send" /\ connected
  /\ failures < MaxFailures /\ failures' = failures + 1
  /\ connected' = FALSE
  /\ writerPc' = "poll"
  /\ \E t \in {"System", "Error"} : mQueue' = Pushed(Pushed(mQueue, "Error", 1), t, 1)
  /\ UNCHANGED <<loggerPc, holder, writeBuffer, logs, cuts>>

\* Mutant of SendRefused: the message is put back to be sent again.
SendRefused_PutsBack ==
  /\ writerPc = "send" /\ ~connected
  /\ writerPc' = "poll"
  /\ mQueue' = Pushed(mQueue, "Error", 1)
  /\ writeBuffer' = writeBuffer + 1
  /\ UNCHANGED <<loggerPc, holder, connected, logs, cuts, failures>>

\* The link went down after the writer had looked: ERROR, and the message is gone.
SendRefused ==
  /\ writerPc = "send" /\ ~connected
  /\ writerPc' = "poll"
  /\ mQueue' = Pushed(mQueue, "Error", 1)
  /\ UNCHANGED <<loggerPc, holder, writeBuffer, connected, logs, cuts, failures>>

Send == SendSucceeds \/ SendFails \/ SendRefused

\* The connection controller accepts a client: if one comes, and if no late close
\* has left the controller with a dead listening socket (module SocketLink).
Connect ==
  /\ ~connected
  /\ connected' = TRUE
  /\ UNCHANGED <<mQueue, loggerPc, holder, writeBuffer, writerPc, logs, cuts, failures>>

\* The reader or the connection controller finds the link broken; what it logs
\* then is one of the records of Log.
Disconnect ==
  /\ connected
  /\ failures < MaxFailures /\ failures' = failures + 1
  /\ connected' = FALSE
  /\ UNCHANGED <<mQueue, loggerPc, holder, writeBuffer, writerPc, logs, cuts>>

\* A thread that finds nothing to do sleeps and looks again.
Idle ==
  /\ QueueEmpty \/ writeBuffer = 0 \/ ~connected
  /\ UNCHANGED vars

Next ==
  \/ \E t \in Types : Log(t)
  \/ \E l \in Loggers : Logger(l) \/ Cut(l)
  \/ WriterPops \/ Send \/ Connect \/ Disconnect
  \/ Idle

Spec == Init /\ [][Next]_vars

\* Every thread is scheduled, and a send returns.  Nothing says that the link ever
\* comes up.
Fairness ==
  /\ \A l \in Loggers : WF_vars(Logger(l))
  /\ WF_vars(WriterPops \/ Send)

FairSpec == Spec /\ Fairness

-----------------------------------------------------------------------------
\* The work a record of type t can still cause: itself, the message it becomes,
\* the records of building it and the one of sending it.
Weight(t) == IF t = "System" THEN 1 ELSE 2 + RecordsPerMessage

Held(t) == Cardinality({l \in Loggers : loggerPc[l] = "route" /\ holder[l] = t})
Work ==
  LET of(t) == Weight(t) * (mQueue[t] + Held(t))
  IN of("Info") + of("System") + of("Debug") + of("Warning") + of("Error")
       + writeBuffer + (IF writerPc = "send" THEN 1 ELSE 0)

\* When Network.System is off, the pipeline does not amplify: all the work it
\* still has was paid for by a record of the engine, a report or a failure of
\* the link (a message that fails becomes up to two ERROR records), however
\* the threads interleave.
NoAmplification ==
  Work <= 4 * logs + 4 * ReportRecords * cuts + 7 * failures

\* How many steps the pipeline can still take by itself: a record is popped and
\* routed, for which its controller looks at the queue and pops; a message is taken
\* and sent (6) after the two SYSTEM records of building it (4 each).  A message under
\* way when the link has gone down becomes an ERROR record.
At(p) == {l \in Loggers : loggerPc[l] = p}
Left ==
  18 * (mQueue["Info"] + mQueue["Debug"] + mQueue["Warning"] + mQueue["Error"])
    + 17 * (Held("Info") + Held("Debug") + Held("Warning") + Held("Error"))
    + 4 * mQueue["System"] + 3 * Held("System")
    + 2 * Cardinality(At("empty")) + Cardinality(At("pop"))
    + 6 * writeBuffer
    + (IF writerPc = "send" THEN (IF connected THEN 5 ELSE 19) ELSE 0)

\* The pipeline at work, and what gives it new work.
Works == (\E l \in Loggers : Logger(l)) \/ WriterPops \/ SendSucceeds \/ SendRefused
Event ==
  \/ \E t \in Types : Log(t)
  \/ \E l \in Loggers : Cut(l)
  \/ SendFails \/ Disconnect

\* When Network.System is off, logging runs down: every step of the logging and
\* writer controllers leaves less for them to do, whatever they interleave with, and
\* only a record of the engine, a report or a failure of the link leaves more.
RunsDown == [][(Works => Left' < Left) /\ (~Event => Left' <= Left)]_vars

\* Once the rest of the engine is silent, all records are routed, and the writer has
\* taken all messages, sent or lost with a failing or refused send; if the link stays
\* down the messages wait, and nobody logs about that.
Quiesces ==
  <>[](QueueEmpty /\ writerPc = "poll" /\ (connected => writeBuffer = 0))
=============================================================================
