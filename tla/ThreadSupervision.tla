-------------------------- MODULE ThreadSupervision --------------------------
(***************************************************************************)
(* ThreadOrchestrator and its ThreadContainers.  The orchestrator thread   *)
(* starts every container of its pool in order, then sweeps the pool       *)
(* forever: it reads each container's statusCode and restarts, or marks    *)
(* dead, the ones whose controller thread has failed.  The controller      *)
(* threads run beside it and write the same statusCode without a lock, so  *)
(* every access to it is a step of its own.                                *)
(***************************************************************************)
EXTENDS Integers

CONSTANTS
  N,               \* number of containers in threadContainerPool
  AutoRestart,     \* containers whose controller has Auto-Restart set
  ForeignThrowers  \* controllers that can throw something other than a
                   \* std::exception (Buffer::Allocate throws a char const*)

Pool == 1 .. N

ASSUME PoolAssumption ==
  /\ N \in Nat \ {0}
  /\ AutoRestart \subseteq Pool
  /\ ForeignThrowers \subseteq Pool

VARIABLES
  statusCode,   \* statusCode of each container
  thread,       \* what the container's std::thread stands for
  mode,         \* orchestrator: first loop ("boot") or the endless one
  pc,           \* orchestrator: the statement it is about to execute
  cur,          \* orchestrator: the loop index i, counted from 1
  process       \* "alive" until std::terminate

vars == <<statusCode, thread, mode, pc, cur, process>>

\* "none" is a std::thread that is not joinable; "returning" has stored its
\* status code but has not ended; "exited" has ended and waits for join().
ThreadStates == {"none", "running", "returning", "exited"}

TypeOK ==
  /\ statusCode \in [Pool -> {-1, 0, 1}]
  /\ thread \in [Pool -> ThreadStates]
  /\ mode \in {"boot", "sweep"}
  /\ pc \in {"join", "reset", "create", "inspect", "mark"}
  /\ cur \in Pool
  /\ process \in {"alive", "terminated"}

Init ==
  /\ statusCode = [c \in Pool |-> 0]
  /\ thread = [c \in Pool |-> "none"]
  /\ mode = "boot"
  /\ pc = "join"
  /\ cur = 1
  /\ process = "alive"

-----------------------------------------------------------------------------
(* The orchestrator.                                                        *)

\* Mutant of NextContainer: the loop runs to i <= size().
NextContainer_OffByOne ==
  /\ cur' = IF cur <= N THEN cur + 1 ELSE 1
  /\ mode' = IF cur <= N THEN mode ELSE "sweep"
  /\ pc' = IF mode = "boot" /\ cur <= N THEN "join" ELSE "inspect"

\* The next iteration of the loop the orchestrator is in; the endless loop
\* follows the first one, and each of its sweeps begins at the first container.
NextContainer ==
  /\ cur' = IF cur < N THEN cur + 1 ELSE 1
  /\ mode' = IF cur < N THEN mode ELSE "sweep"
  /\ pc' = IF mode = "boot" /\ cur < N THEN "join" ELSE "inspect"

\* Mutant of Join: the old thread is not joined.
Join_Skipped ==
  /\ pc = "join" /\ pc' = "reset"
  /\ UNCHANGED <<statusCode, thread, mode, cur, process>>

\* startThread: if (controllerThread.joinable()) controllerThread.join();
Join ==
  /\ pc = "join"
  /\ thread[cur] \in {"none", "exited"}
  /\ thread' = [thread EXCEPT ![cur] = "none"]
  /\ pc' = "reset"
  /\ UNCHANGED <<statusCode, mode, cur, process>>

\* Mutant of Reset: statusCode keeps the failure.
Reset_Dropped ==
  /\ pc = "reset" /\ pc' = "create"
  /\ UNCHANGED <<statusCode, thread, mode, cur, process>>

\* startThread: statusCode = 0, before the new thread can write it.
Reset ==
  /\ pc = "reset"
  /\ statusCode' = [statusCode EXCEPT ![cur] = 0]
  /\ pc' = "create"
  /\ UNCHANGED <<thread, mode, cur, process>>

\* Mutant of Create: a restart begins the sweep again.
Create_RestartsSweep ==
  /\ pc = "create"
  /\ thread' = [thread EXCEPT ![cur] = "running"]
  /\ IF mode = "boot" THEN NextContainer
       ELSE cur' = 1 /\ pc' = "inspect" /\ UNCHANGED mode
  /\ UNCHANGED <<statusCode, process>>

\* startThread: the std::thread constructor starts the controller, or throws
\* and the handler stores 1.
Create ==
  /\ pc = "create"
  /\ \/ /\ thread' = [thread EXCEPT ![cur] = "running"]
        /\ UNCHANGED statusCode
     \/ /\ statusCode' = [statusCode EXCEPT ![cur] = 1]
        /\ UNCHANGED thread
  /\ NextContainer
  /\ UNCHANGED process

\* Mutant of Inspect: the Auto-Restart flag is not read.
Inspect_IgnoresFlag ==
  /\ pc = "inspect"
  /\ IF statusCode[cur] > 0
       THEN pc' = "join" /\ UNCHANGED <<mode, cur>>
       ELSE NextContainer
  /\ UNCHANGED <<statusCode, thread, process>>

\* The body of the sweep: only a positive status code is acted on.
Inspect ==
  /\ pc = "inspect"
  /\ IF statusCode[cur] > 0
       THEN /\ pc' = IF cur \in AutoRestart THEN "join" ELSE "mark"
            /\ UNCHANGED <<mode, cur>>
       ELSE NextContainer
  /\ UNCHANGED <<statusCode, thread, process>>

\* setDeadThreadStatusCode
Mark ==
  /\ pc = "mark"
  /\ statusCode' = [statusCode EXCEPT ![cur] = -1]
  /\ NextContainer
  /\ UNCHANGED <<thread, process>>

Orchestrate == process = "alive" /\ (Join \/ Reset \/ Create \/ Inspect \/ Mark)

-----------------------------------------------------------------------------
(* The controller threads.                                                  *)

\* Mutant of Fail: the handler returns 0.
Fail_ReturnsZero(c) ==
  /\ process = "alive"
  /\ thread[c] = "running"
  /\ thread' = [thread EXCEPT ![c] = "returning"]
  /\ UNCHANGED <<statusCode, mode, pc, cur, process>>

\* The controller caught a std::exception and returned 1, or threadRuntime
\* caught it: either way the thread stores 1.
Fail(c) ==
  /\ process = "alive"
  /\ thread[c] = "running"
  /\ statusCode' = [statusCode EXCEPT ![c] = 1]
  /\ thread' = [thread EXCEPT ![c] = "returning"]
  /\ UNCHANGED <<mode, pc, cur, process>>

Exit(c) ==
  /\ process = "alive"
  /\ thread[c] = "returning"
  /\ thread' = [thread EXCEPT ![c] = "exited"]
  /\ UNCHANGED <<statusCode, mode, pc, cur, process>>

\* Anything that is not a std::exception leaves threadRuntime uncaught.
ForeignThrow(c) ==
  /\ process = "alive"
  /\ c \in ForeignThrowers
  /\ thread[c] = "running"
  /\ process' = "terminated"
  /\ UNCHANGED <<statusCode, thread, mode, pc, cur>>

Next ==
  \/ Orchestrate
  \/ \E c \in Pool : Fail(c) \/ Exit(c) \/ ForeignThrow(c)

Spec == Init /\ [][Next]_vars

\* Both kinds of threads are scheduled by the operating system; nothing
\* forces a controller to fail, and a thread that has stored its status ends.
Fairness == WF_vars(Orchestrate) /\ \A c \in Pool : WF_vars(Exit(c))

FairSpec == Spec /\ Fairness

-----------------------------------------------------------------------------
(* Properties.                                                              *)

\* The orchestrator has not yet called std::thread's constructor for c.
NotYetStarted(c) ==
  mode = "boot" /\ (c > cur \/ (c = cur /\ pc \in {"join", "reset", "create"}))

\* The orchestrator is inside startThread(c), between join and the constructor.
BeingStarted(c) == c = cur /\ pc \in {"reset", "create"}

\* Assigning to a joinable std::thread calls std::terminate: startThread never
\* reaches the assignment while the old thread has not been joined.
AssignsUnjoinedNever == pc = "create" => thread[cur] = "none"

\* No failure is ever overwritten: a container whose thread is not running has
\* a non-zero status code, unless the orchestrator is about to start it.  This
\* is what makes a sweep over status codes a sound failure detector.
NoLostFailure ==
  \A c \in Pool :
    thread[c] # "running" =>
      statusCode[c] # 0 \/ NotYetStarted(c) \/ BeingStarted(c)

\* A running controller is never taken for a failed one: its status code is 0,
\* so no sweep can join it (and block on it) or mark it dead.
RunningLooksAlive ==
  \A c \in Pool : thread[c] = "running" => statusCode[c] = 0

\* After the first loop only containers with Auto-Restart are started again.
RestartsOnlyConfigured ==
  [][\A c \in Pool :
       thread[c] # "running" /\ thread'[c] = "running" =>
         mode = "boot" \/ c \in AutoRestart]_vars

\* Every failure, of a controller or of thread creation, is dealt with in the
\* end: the status code is reset for a new start or becomes -1, however often
\* the other containers fail meanwhile.
FailureHandled ==
  \A c \in Pool :
    statusCode[c] = 1 ~>
      \/ statusCode[c] = (IF c \in AutoRestart THEN 0 ELSE -1)
      \/ process = "terminated"

\* The promise of the orchestrator: see module Supervisor.
PhaseOf(c) ==
  IF NotYetStarted(c) THEN "idle"
  ELSE IF statusCode[c] = -1 THEN "abandoned"
  ELSE IF thread[c] = "running" THEN "up"
  ELSE "failed"

S == INSTANCE Supervisor WITH phase <- [c \in Pool |-> PhaseOf(c)]

\* The orchestrator and its containers implement the abstract supervisor.
SupervisorSpec == S!Spec
=============================================================================
