--------------------------- MODULE MCLogicEditor ---------------------------
(* Instances of LogicEditor for TLC.                                       *)
EXTENDS LogicEditor, TLC

CONSTANTS o1, i1, a1, f1, p1, p2, x1, v1, v2, n1, n2

OneOut == {o1}
OneIn == {i1}
OneAlgOut == {a1}
OneFunc == {f1}
TwoPins == {p1, p2}
OneInput == {x1}
TwoVirtual == {v1, v2}
TwoNodes == {n1, n2}

NoParams == [e \in Elements |-> None]

\* Parameters another program left: an algorithm and the pins of the logic,
\* or an algorithm and a function, claim one virtual input, which has a target.
SomeParams ==
  {[NoParams EXCEPT ![a1] = v, ![o1] = v, ![p1] = v, ![p2] = v] : v \in Virtual}
  \union
  {[e \in Elements |-> IF e \in Pins THEN x1 ELSE v] : v \in Virtual}

NoGraph == [n \in Nodes |-> None]

\* No algorithm; an input and an output; an output whose pin is not known.
SomeGraphs ==
  {NoGraph}
  \union
  {g \in Graphs : \E n \in Nodes, p \in Pins : \A m \in Nodes :
     IF m = n THEN g[m] = [kind |-> "BI", pin |-> p]
     ELSE g[m] # None /\ g[m].kind = "BO" /\ g[m].pin \in Pins \ {p}}
  \union
  {[NoGraph EXCEPT ![n] = [kind |-> "BO", pin |-> None]] : n \in Nodes}

\* Nothing tells virtual inputs, pins or nodes apart, and all properties are
\* safety.
EditorSymmetry ==
  Permutations(TwoVirtual) \union Permutations(TwoPins) \union Permutations(TwoNodes)

=============================================================================
