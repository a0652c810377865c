---------------------------- MODULE MCLoggerLoop ----------------------------
(* Instances of LoggerLoop for TLC. *)
EXTENDS LoggerLoop

TwoTypes == {"Info", "Error"}
\* Out of range on both sides, its ends, one percent as shipped, and two others.
Usages == {-1, 0, 1, 30, 50, 100, 101}
=============================================================================
