-------------------------- MODULE MCAsyncTcpChannel --------------------------
(* Instances of AsyncTcpChannel for TLC. *)
EXTENDS AsyncTcpChannel

Answered   == [needResponse |-> TRUE, toBoard |-> FALSE]
Unreplied  == [needResponse |-> FALSE, toBoard |-> FALSE]
BoardReset == [needResponse |-> FALSE, toBoard |-> TRUE]

AnyRequest    == {Answered, Unreplied}
OnlyAnswered  == {Answered, BoardReset}
===============================================================================
