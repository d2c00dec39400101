-------------------------- MODULE MCLogicCompiler --------------------------
(* Instances of LogicCompiler for TLC.                                     *)
EXTENDS LogicCompiler, TLC

CONSTANTS bi, bo, e1, e2

OneInNode == <<bi>>
OneOutNode == {bo}
TwoElements == {e1, e2}

\* Nothing tells elements apart, and both properties are safety.
CompilerSymmetry == Permutations(TwoElements)

=============================================================================
