------------------------- MODULE MCDeviceOperations -------------------------
(* Instances of DeviceOperations for TLC.                                  *)
EXTENDS DeviceOperations, TLC

CONSTANTS p1, p2, b1, b2, f1

TwoParams == {p1, p2}
TwoBoards == {b1, b2}
NoBoards == {}
OneFile == {f1}

\* Boards differ in nothing but their slots, and all properties are safety.
BoardSymmetry == Permutations(TwoBoards)

=============================================================================
