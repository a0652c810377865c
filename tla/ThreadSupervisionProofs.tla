---------------------- MODULE ThreadSupervisionProofs ----------------------
(***************************************************************************)
(* Proofs about ThreadSupervision for every pool size and every setting of *)
(* the Auto-Restart flags: the inductive invariant, the safety properties  *)
(* it implies, and that the orchestrator implements Supervisor.            *)
(***************************************************************************)
EXTENDS ThreadSupervision, TLAPS

\* Where the orchestrator is determines what it may assume of the container
\* it is handling; this is what makes the properties inductive.
Control ==
  /\ mode = "boot" => pc \in {"join", "reset", "create"}
  /\ pc \in {"reset", "create"} => thread[cur] = "none"
  /\ pc = "create" => statusCode[cur] = 0
  /\ mode = "sweep" /\ pc \in {"join", "reset"} => statusCode[cur] = 1
  /\ mode = "sweep" /\ pc \in {"join", "reset", "create"} => cur \in AutoRestart
  /\ pc = "mark" => statusCode[cur] = 1 /\ cur \notin AutoRestart

IInv == TypeOK /\ Control /\ NoLostFailure /\ RunningLooksAlive

LEMMA InitEstablishes == Init => IInv
BY PoolAssumption DEF Init, IInv, TypeOK, ThreadStates, Control, NoLostFailure,
                      RunningLooksAlive, NotYetStarted, BeingStarted, Pool

LEMMA StepPreserves == IInv /\ [Next]_vars => IInv'
<1> SUFFICES ASSUME IInv, [Next]_vars
             PROVE  IInv'
  OBVIOUS
<1> USE PoolAssumption DEF IInv, TypeOK, ThreadStates, Control, NoLostFailure,
                           RunningLooksAlive, NotYetStarted, BeingStarted, Pool
<1>1. CASE process = "alive" /\ Join
  BY <1>1 DEF Join
<1>2. CASE process = "alive" /\ Reset
  BY <1>2 DEF Reset
<1>3. CASE process = "alive" /\ Create
  <2>1. CASE cur < N
    BY <1>3, <2>1 DEF Create, NextContainer
  <2>2. CASE ~(cur < N)
    BY <1>3, <2>2 DEF Create, NextContainer
  <2> QED BY <2>1, <2>2
<1>4. CASE process = "alive" /\ Inspect
  BY <1>4 DEF Inspect, NextContainer
<1>5. CASE process = "alive" /\ Mark
  BY <1>5 DEF Mark, NextContainer
<1>6. ASSUME NEW c \in Pool, Fail(c)
      PROVE  IInv'
  BY <1>6 DEF Fail
<1>7. ASSUME NEW c \in Pool, Exit(c)
      PROVE  IInv'
  BY <1>7 DEF Exit
<1>8. ASSUME NEW c \in Pool, ForeignThrow(c)
      PROVE  IInv'
  BY <1>8 DEF ForeignThrow
<1>9. CASE UNCHANGED vars
  BY <1>9 DEF vars
<1> QED
  BY <1>1, <1>2, <1>3, <1>4, <1>5, <1>6, <1>7, <1>8, <1>9 DEF Next, Orchestrate

\* The inductive invariant holds in every behaviour.
THEOREM Inductive == Spec => []IInv
BY InitEstablishes, StepPreserves, PTL DEF Spec

\* Every variable keeps its type, for any pool.
THEOREM TypeCorrect == Spec => []TypeOK
<1>1. IInv => TypeOK
  BY DEF IInv
<1> QED BY <1>1, Inductive, PTL

\* startThread never assigns to a joinable std::thread.
THEOREM AssignmentSafe == Spec => []AssignsUnjoinedNever
<1>1. IInv => AssignsUnjoinedNever
  BY DEF IInv, Control, AssignsUnjoinedNever
<1> QED BY <1>1, Inductive, PTL

\* A status code never hides a failed container from the sweep.
THEOREM FailuresVisible == Spec => []NoLostFailure
<1>1. IInv => NoLostFailure
  BY DEF IInv
<1> QED BY <1>1, Inductive, PTL

\* A status code never reports a running container as failed.
THEOREM NoFalseAlarm == Spec => []RunningLooksAlive
<1>1. IInv => RunningLooksAlive
  BY DEF IInv
<1> QED BY <1>1, Inductive, PTL

\* Only containers with Auto-Restart are started after the first loop.
THEOREM OnlyConfiguredRestarts == Spec => RestartsOnlyConfigured
<1>1. IInv /\ [Next]_vars =>
        [\A c \in Pool : thread[c] # "running" /\ thread'[c] = "running" =>
            mode = "boot" \/ c \in AutoRestart]_vars
  <2> SUFFICES ASSUME IInv, Next, NEW c \in Pool,
                      thread[c] # "running", thread'[c] = "running"
               PROVE  mode = "boot" \/ c \in AutoRestart
    OBVIOUS
  <2> USE DEF IInv, TypeOK, ThreadStates, Control, Pool
  <2>1. process = "alive" /\ Create
    BY DEF Next, Orchestrate, Join, Reset, Inspect, Mark, Fail, Exit,
           ForeignThrow
  <2> QED BY <2>1 DEF Create
<1> QED BY <1>1, Inductive, PTL DEF Spec, RestartsOnlyConfigured

-----------------------------------------------------------------------------
(* The refinement.                                                          *)

PhaseMap == [c \in Pool |-> PhaseOf(c)]

\* A step that changes the phase of one container, and nothing else, is the
\* EXCEPT update the abstract actions are written with.
LEMMA OnePhaseChanges ==
  ASSUME NEW c \in Pool, NEW p, PhaseOf(c)' = p,
         \A d \in Pool \ {c} : PhaseOf(d)' = PhaseOf(d)
  PROVE  PhaseMap' = [PhaseMap EXCEPT ![c] = p]
BY DEF PhaseMap, Pool

\* A step that changes no phase is a stuttering step of the supervisor.
LEMMA NoPhaseChanges ==
  ASSUME \A d \in Pool : PhaseOf(d)' = PhaseOf(d)
  PROVE  PhaseMap' = PhaseMap
BY DEF PhaseMap, Pool

LEMMA StepRefines == IInv /\ [Next]_vars => [S!Next]_PhaseMap
<1> SUFFICES ASSUME IInv, [Next]_vars
             PROVE  [S!Next]_PhaseMap
  OBVIOUS
<1> USE PoolAssumption DEF IInv, TypeOK, ThreadStates, Control,
                           RunningLooksAlive, Pool
<1>1. CASE process = "alive" /\ Join
  <2>1. \A d \in Pool : PhaseOf(d)' = PhaseOf(d)
    BY <1>1 DEF Join, PhaseOf, NotYetStarted
  <2> QED BY <2>1, NoPhaseChanges
<1>2. CASE process = "alive" /\ Reset
  <2>1. \A d \in Pool : PhaseOf(d)' = PhaseOf(d)
    BY <1>2 DEF Reset, PhaseOf, NotYetStarted
  <2> QED BY <2>1, NoPhaseChanges
<1>3. CASE process = "alive" /\ Create
  <2> PICK k \in Pool : k = cur
    OBVIOUS
  <2>1. \A d \in Pool \ {k} : PhaseOf(d)' = PhaseOf(d)
    BY <1>3 DEF Create, NextContainer, PhaseOf, NotYetStarted
  <2>2. PhaseOf(k)' = IF thread'[k] = "running" THEN "up" ELSE "failed"
    BY <1>3 DEF Create, NextContainer, PhaseOf, NotYetStarted
  <2>3. PhaseMap' = [PhaseMap EXCEPT ![k] = PhaseOf(k)']
    BY <2>1, OnePhaseChanges
  <2>4. CASE mode = "boot"
    <3>1. PhaseMap[k] = "idle"
      BY <1>3, <2>4 DEF Create, PhaseMap, PhaseOf, NotYetStarted
    <3>2. S!Start(k)
      BY <2>2, <2>3, <3>1 DEF S!Start, PhaseMap
    <3> QED BY <3>2 DEF S!Next
  <2>5. CASE mode = "sweep"
    <3>1. PhaseMap[k] = "failed" /\ k \in AutoRestart
      BY <1>3, <2>5 DEF Create, PhaseMap, PhaseOf, NotYetStarted
    <3>2. CASE thread'[k] = "running"
      <4>1. S!Restart(k)
        BY <2>2, <2>3, <3>1, <3>2 DEF S!Restart, PhaseMap
      <4> QED BY <4>1 DEF S!Next
    <3>3. CASE thread'[k] # "running"
      <4>1. PhaseOf(k)' = PhaseOf(k)
        BY <2>2, <3>1, <3>3 DEF PhaseMap
      <4> QED BY <2>1, <4>1, NoPhaseChanges
    <3> QED BY <3>2, <3>3
  <2> QED BY <2>4, <2>5
<1>4. CASE process = "alive" /\ Inspect
  <2>1. \A d \in Pool : PhaseOf(d)' = PhaseOf(d)
    BY <1>4 DEF Inspect, NextContainer, PhaseOf, NotYetStarted
  <2> QED BY <2>1, NoPhaseChanges
<1>5. CASE process = "alive" /\ Mark
  <2> PICK k \in Pool : k = cur
    OBVIOUS
  <2>1. \A d \in Pool \ {k} : PhaseOf(d)' = PhaseOf(d)
    BY <1>5 DEF Mark, NextContainer, PhaseOf, NotYetStarted
  <2>2. PhaseMap[k] = "failed" /\ k \notin AutoRestart
    BY <1>5 DEF Mark, PhaseMap, PhaseOf, NotYetStarted
  <2>3. PhaseOf(k)' = "abandoned"
    BY <1>5 DEF Mark, NextContainer, PhaseOf, NotYetStarted
  <2>4. PhaseMap' = [PhaseMap EXCEPT ![k] = "abandoned"]
    BY <2>1, <2>3, OnePhaseChanges
  <2>5. S!Abandon(k)
    BY <2>2, <2>4 DEF S!Abandon, PhaseMap
  <2> QED BY <2>5 DEF S!Next
<1>6. ASSUME NEW c \in Pool, Fail(c)
      PROVE  [S!Next]_PhaseMap
  <2>1. \A d \in Pool \ {c} : PhaseOf(d)' = PhaseOf(d)
    BY <1>6 DEF Fail, PhaseOf, NotYetStarted
  <2>2. CASE NotYetStarted(c)
    <3>1. PhaseOf(c)' = PhaseOf(c)
      BY <1>6, <2>2 DEF Fail, PhaseOf, NotYetStarted
    <3> QED BY <2>1, <3>1, NoPhaseChanges
  <2>3. CASE ~NotYetStarted(c)
    <3>1. PhaseMap[c] = "up" /\ PhaseOf(c)' = "failed"
      BY <1>6, <2>3 DEF Fail, PhaseMap, PhaseOf, NotYetStarted
    <3>2. S!Crash(c)
      BY <2>1, <3>1, OnePhaseChanges DEF S!Crash, PhaseMap
    <3> QED BY <3>2 DEF S!Next
  <2> QED BY <2>2, <2>3
<1>7. ASSUME NEW c \in Pool, Exit(c)
      PROVE  [S!Next]_PhaseMap
  <2>1. \A d \in Pool : PhaseOf(d)' = PhaseOf(d)
    BY <1>7 DEF Exit, PhaseOf, NotYetStarted
  <2> QED BY <2>1, NoPhaseChanges
<1>8. ASSUME NEW c \in Pool, ForeignThrow(c)
      PROVE  [S!Next]_PhaseMap
  <2>1. \A d \in Pool : PhaseOf(d)' = PhaseOf(d)
    BY <1>8 DEF ForeignThrow, PhaseOf, NotYetStarted
  <2> QED BY <2>1, NoPhaseChanges
<1>9. CASE UNCHANGED vars
  <2>1. \A d \in Pool : PhaseOf(d)' = PhaseOf(d)
    BY <1>9 DEF vars, PhaseOf, NotYetStarted
  <2> QED BY <2>1, NoPhaseChanges
<1> QED
  BY <1>1, <1>2, <1>3, <1>4, <1>5, <1>6, <1>7, <1>8, <1>9 DEF Next, Orchestrate

\* The orchestrator implements the abstract supervisor: each of its steps is
\* a Start, Crash, Restart or Abandon of one controller, or changes no phase.
THEOREM Refinement == Spec => SupervisorSpec
<1>1. Init => S!Init
  BY PoolAssumption DEF Init, S!Init, PhaseOf, NotYetStarted, Pool
<1>2. IInv /\ [Next]_vars => [S!Next]_[c \in Pool |-> PhaseOf(c)]
  BY StepRefines DEF PhaseMap
<1> QED BY <1>1, <1>2, Inductive, PTL DEF Spec, SupervisorSpec, S!Spec
=============================================================================
