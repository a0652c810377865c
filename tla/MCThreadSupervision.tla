------------------------ MODULE MCThreadSupervision ------------------------
(* Instances of ThreadSupervision for TLC. *)
EXTENDS ThreadSupervision

MCAutoRestart == {1, 3}
MCForeignThrowers == {3}
=============================================================================
