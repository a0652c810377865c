------------------------------ MODULE MCEngine ------------------------------
(* Instances of Engine for TLC. *)
EXTENDS Engine

OneInterface == {1}
ShippedPort == {7225}
ThreeSocks == 1 .. 3
NccFirst == <<1>>
ReaderSecond == <<2>>
=============================================================================
