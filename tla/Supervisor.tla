----------------------------- MODULE Supervisor -----------------------------
(***************************************************************************)
(* What the thread orchestrator promises for the pool of controllers,      *)
(* without saying how: every controller is started once; one that has      *)
(* failed is started again when its Auto-Restart flag is set, and is       *)
(* abandoned for good when it is not.                                      *)
(***************************************************************************)
CONSTANTS
  Pool,          \* the controllers handed to pushControllerPool
  AutoRestart    \* those whose Auto-Restart setting is true

VARIABLE phase

Phases == {"idle", "up", "failed", "abandoned"}

Init == phase = [c \in Pool |-> "idle"]

\* The first start may fail: no thread could be created.
Start(c) ==
  /\ phase[c] = "idle"
  /\ \E p \in {"up", "failed"} : phase' = [phase EXCEPT ![c] = p]

Crash(c) ==
  /\ phase[c] = "up"
  /\ phase' = [phase EXCEPT ![c] = "failed"]

Restart(c) ==
  /\ phase[c] = "failed"
  /\ c \in AutoRestart
  /\ phase' = [phase EXCEPT ![c] = "up"]

Abandon(c) ==
  /\ phase[c] = "failed"
  /\ c \notin AutoRestart
  /\ phase' = [phase EXCEPT ![c] = "abandoned"]

Next == \E c \in Pool : Start(c) \/ Crash(c) \/ Restart(c) \/ Abandon(c)

Spec == Init /\ [][Next]_phase
=============================================================================
