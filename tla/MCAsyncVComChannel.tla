-------------------------- MODULE MCAsyncVComChannel --------------------------
(* Instances of AsyncVComChannel for TLC. *)
EXTENDS AsyncVComChannel

AnyRequest   == {[needResponse |-> TRUE, toBoard |-> FALSE],
                 [needResponse |-> FALSE, toBoard |-> FALSE]}
OnlyAnswered == {[needResponse |-> TRUE, toBoard |-> FALSE]}
===============================================================================
