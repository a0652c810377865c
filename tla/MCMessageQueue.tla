--------------------------- MODULE MCMessageQueue ---------------------------
(* An instance of MessageQueue for TLC. *)
EXTENDS MessageQueue

MCProducers == {"logger1", "logger2"}
=============================================================================
