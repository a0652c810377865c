---------------------------- MODULE MCSocketLink ----------------------------
(* Instances of SocketLink for TLC. *)
EXTENDS SocketLink

OneInterface == {1}
TwoInterfaces == {1, 2}
\* Settings/ControlEngine.json has port 7225; 8080 = 31 * 256 + 144.
ShippedPort == {7225}
BothSigns == {7225, 8080}
ThreeSocks == 1 .. 3
FourSocks == 1 .. 4
=============================================================================
