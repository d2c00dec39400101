------------------------ MODULE LogicCompilerProofs ------------------------
(***************************************************************************)
(* What LogicCompiler keeps for any nodes, any number of inputs and edits:  *)
(* the code that is listed as compiled is that of the graph file, a saved   *)
(* graph without a link from a node to itself stays readable, and only such *)
(* a link or a pointer to a deleted one ends the program.                   *)
(***************************************************************************)
EXTENDS LogicCompiler, SequenceTheorems, FiniteSetTheorems,
        WellFoundedInduction, TLAPS

-----------------------------------------------------------------------------
(* Lists of nodes.                                                         *)

\* The nodes of a list that grows are those it had and the new one.
LEMMA NodesAppend ==
  ASSUME NEW s \in Seq(Nodes), NEW n \in Nodes, n \notin ToSet(s), IsInjective(s)
  PROVE  /\ Append(s, n) \in Seq(Nodes) /\ IsInjective(Append(s, n))
         /\ ToSet(Append(s, n)) = ToSet(s) \union {n}
<1> DEFINE t == Append(s, n)
<1>1. /\ t \in Seq(Nodes) /\ Len(s) \in Nat /\ Len(t) = Len(s) + 1 /\ t[Len(s) + 1] = n
      /\ \A i \in 1 .. Len(s) : t[i] = s[i]
      /\ DOMAIN s = 1 .. Len(s) /\ DOMAIN t = 1 .. (Len(s) + 1)
  BY AppendProperties, LenProperties
<1> HIDE DEF t
<1>2. ToSet(t) = ToSet(s) \union {n}
  BY <1>1 DEF ToSet
<1>3. ASSUME NEW i \in DOMAIN t, NEW j \in DOMAIN t, t[i] = t[j]
      PROVE  i = j
  <2>1. \A k \in DOMAIN s : s[k] # n
    BY DEF ToSet
  <2>2. CASE i = Len(s) + 1
    BY <1>1, <1>3, <2>1, <2>2
  <2>3. CASE j = Len(s) + 1
    BY <1>1, <1>3, <2>1, <2>3
  <2>4. CASE i \in 1 .. Len(s) /\ j \in 1 .. Len(s)
    BY <1>1, <1>3, <2>4 DEF IsInjective
  <2> QED
    BY <1>1, <2>2, <2>3, <2>4
<1> QED
  BY <1>1, <1>2, <1>3 DEF IsInjective, t

\* A list read from its end has the same nodes, each once.
LEMMA NodesReverse ==
  ASSUME NEW s \in Seq(Nodes), IsInjective(s)
  PROVE  /\ Reverse(s) \in Seq(Nodes) /\ IsInjective(Reverse(s))
         /\ ToSet(Reverse(s)) = ToSet(s)
<1> DEFINE t == Reverse(s)
<1>1. Len(s) \in Nat /\ DOMAIN s = 1 .. Len(s) /\ \A i \in 1 .. Len(s) : s[i] \in Nodes
  BY LenProperties, ElementOfSeq
<1>2. DOMAIN t = 1 .. Len(s) /\ \A i \in 1 .. Len(s) : t[i] = s[(Len(s) - i) + 1]
  BY DEF Reverse
<1>3. \A i \in 1 .. Len(s) : (Len(s) - i) + 1 \in 1 .. Len(s)
  BY <1>1
<1>4. t \in Seq(Nodes)
  BY <1>1, <1>3 DEF Reverse
<1> HIDE DEF t
<1>5. IsInjective(t)
  <2> SUFFICES ASSUME NEW i \in 1 .. Len(s), NEW j \in 1 .. Len(s), t[i] = t[j]
               PROVE  i = j
    BY <1>2 DEF IsInjective
  <2>1. (Len(s) - i) + 1 = (Len(s) - j) + 1
    BY <1>1, <1>2, <1>3 DEF IsInjective
  <2> QED
    BY <1>1, <2>1
<1>6. ToSet(t) \subseteq ToSet(s)
  BY <1>1, <1>2, <1>3 DEF ToSet
<1>7. ASSUME NEW i \in 1 .. Len(s) PROVE s[i] \in ToSet(t)
  <2>1. t[(Len(s) - i) + 1] = s[(Len(s) - ((Len(s) - i) + 1)) + 1]
    BY <1>2, <1>3
  <2>2. (Len(s) - ((Len(s) - i) + 1)) + 1 = i
    BY <1>1
  <2> QED
    BY <1>2, <1>3, <2>1, <2>2 DEF ToSet
<1>8. ToSet(s) \subseteq ToSet(t)
  BY <1>1, <1>7 DEF ToSet
<1> QED
  BY <1>4, <1>5, <1>6, <1>8 DEF t

\* A node has its place in a list it is in.
LEMMA PositionIn ==
  ASSUME NEW s, NEW n \in ToSet(s)
  PROVE  Position(s, n) \in DOMAIN s /\ s[Position(s, n)] = n
BY DEF ToSet, Position

\* A node taken out of the list leaves the others, each once.
LEMMA NodesRemove ==
  ASSUME NEW s \in Seq(Nodes), NEW n \in ToSet(s), IsInjective(s)
  PROVE  LET t == RemoveAt(s, Position(s, n))
         IN  /\ t \in Seq(Nodes) /\ IsInjective(t)
             /\ ToSet(t) = ToSet(s) \ {n}
<1> DEFINE p == Position(s, n)
           head == SubSeq(s, 1, p - 1)
           tail == SubSeq(s, p + 1, Len(s))
           t == RemoveAt(s, p)
<1>1. /\ Len(s) \in Nat /\ DOMAIN s = 1 .. Len(s) /\ p \in 1 .. Len(s) /\ s[p] = n
      /\ \A i \in 1 .. Len(s) : s[i] \in Nodes
  BY LenProperties, PositionIn, ElementOfSeq
<1> HIDE DEF p
<1>2. /\ head \in Seq(Nodes) /\ Len(head) = p - 1
      /\ \A i \in 1 .. (p - 1) : head[i] = s[i]
  <2>1. p - 1 \in Int /\ \A i \in 1 .. (p - 1) : s[i] \in Nodes
    BY <1>1
  <2>2. /\ head \in Seq(Nodes) /\ Len(head) = IF 1 <= p - 1 THEN p - 1 - 1 + 1 ELSE 0
        /\ \A i \in 1 .. (p - 1 - 1 + 1) : head[i] = s[1 + i - 1]
    BY <2>1, SubSeqProperties
  <2> QED
    BY <1>1, <2>2
<1>3. /\ tail \in Seq(Nodes) /\ Len(tail) = Len(s) - p
      /\ \A i \in 1 .. (Len(s) - p) : tail[i] = s[p + i]
  <2>1. p + 1 \in Int /\ Len(s) \in Int /\ \A i \in p + 1 .. Len(s) : s[i] \in Nodes
    BY <1>1
  <2>2. /\ tail \in Seq(Nodes)
        /\ Len(tail) = IF p + 1 <= Len(s) THEN Len(s) - (p + 1) + 1 ELSE 0
        /\ \A i \in 1 .. (Len(s) - (p + 1) + 1) : tail[i] = s[(p + 1) + i - 1]
    BY <2>1, SubSeqProperties
  <2> HIDE DEF tail
  <2>3. (IF p + 1 <= Len(s) THEN Len(s) - (p + 1) + 1 ELSE 0) = Len(s) - p
    <3>1. p \in Int /\ Len(s) \in Int /\ p <= Len(s)
      BY <1>1
    <3> QED
      BY <3>1
  <2>4. ASSUME NEW i \in 1 .. (Len(s) - p)
        PROVE  tail[i] = s[p + i]
    <3>1. i \in 1 .. (Len(s) - (p + 1) + 1) /\ (p + 1) + i - 1 = p + i
      BY <1>1
    <3> QED
      BY <2>2, <3>1
  <2> QED
    BY <2>2, <2>3, <2>4
<1>4. t = head \o tail
  BY DEF RemoveAt
<1> HIDE DEF head, tail, t
<1>5. /\ t \in Seq(Nodes) /\ Len(t) = Len(s) - 1 /\ DOMAIN t = 1 .. (Len(s) - 1)
      /\ \A i \in 1 .. (Len(s) - 1) : t[i] = IF i < p THEN s[i] ELSE s[i + 1]
  <2>1. /\ t \in Seq(Nodes) /\ Len(t) = Len(head) + Len(tail) /\ DOMAIN t = 1 .. Len(t)
        /\ \A i \in 1 .. Len(head) + Len(tail) :
             t[i] = IF i <= Len(head) THEN head[i] ELSE tail[i - Len(head)]
    BY <1>2, <1>3, <1>4, ConcatProperties, LenProperties
  <2>2. Len(head) + Len(tail) = Len(s) - 1
    BY <1>1, <1>2, <1>3
  <2>3. ASSUME NEW i \in 1 .. (Len(s) - 1)
        PROVE  t[i] = IF i < p THEN s[i] ELSE s[i + 1]
    <3>1. CASE i < p
      <4>1. i <= Len(head) /\ i \in 1 .. (p - 1)
        BY <1>1, <1>2, <3>1
      <4> QED
        BY <1>2, <2>1, <2>2, <3>1, <4>1
    <3>2. CASE ~(i < p)
      <4>1. ~(i <= Len(head)) /\ i - Len(head) \in 1 .. (Len(s) - p) /\ p + (i - Len(head)) = i + 1
        BY <1>1, <1>2, <3>2
      <4> QED
        BY <1>3, <2>1, <2>2, <3>2, <4>1
    <3> QED
      BY <3>1, <3>2
  <2> QED
    BY <2>1, <2>2, <2>3
<1>6. ASSUME NEW i \in DOMAIN t, NEW j \in DOMAIN t, t[i] = t[j]
      PROVE  i = j
  <2> DEFINE from(k) == IF k < p THEN k ELSE k + 1
  <2>1. from(i) \in DOMAIN s /\ from(j) \in DOMAIN s /\ s[from(i)] = s[from(j)]
    BY <1>1, <1>5, <1>6
  <2>2. from(i) = from(j)
    BY <2>1 DEF IsInjective
  <2> QED
    BY <1>1, <1>5, <2>2
<1>7. ToSet(t) \subseteq ToSet(s) \ {n}
  <2> SUFFICES ASSUME NEW i \in DOMAIN t PROVE t[i] \in ToSet(s) \ {n}
    BY DEF ToSet
  <2> DEFINE k == IF i < p THEN i ELSE i + 1
  <2>1. k \in DOMAIN s /\ k # p /\ t[i] = s[k]
    BY <1>1, <1>5
  <2> QED
    BY <1>1, <2>1 DEF IsInjective, ToSet
<1>8. ToSet(s) \ {n} \subseteq ToSet(t)
  <2> SUFFICES ASSUME NEW i \in DOMAIN s, i # p PROVE s[i] \in ToSet(t)
    BY <1>1 DEF ToSet
  <2> DEFINE k == IF i < p THEN i ELSE i - 1
  <2>1. k \in DOMAIN t /\ t[k] = s[i]
    BY <1>1, <1>5
  <2> QED
    BY <2>1 DEF ToSet
<1> QED
  BY <1>5, <1>6, <1>7, <1>8 DEF t, p, IsInjective

-----------------------------------------------------------------------------
(* Numbers of outputs.                                                     *)

\* The outputs of a graph are of nodes BI or of elements, and finitely many.
LEMMA OutputsOf ==
  ASSUME NEW g \in Graphs
  PROVE  /\ Outputs(g) \subseteq ToSet(InNodes) \union Elements
         /\ ToSet(InNodes) \cap Elements = {}
         /\ IsFiniteSet(Outputs(g))
<1>1. g.order \in Seq(Nodes)
  BY DEF Graphs
<1>2. Len(g.order) \in Nat /\ g.order \in [1 .. Len(g.order) -> Nodes]
  BY <1>1, LenProperties
<1>3. ToSet(g.order) \subseteq Nodes
  BY <1>2 DEF ToSet
<1>4. g.order \in Surjection(1 .. Len(g.order), ToSet(g.order))
  BY <1>2 DEF ToSet, Surjection
<1>5. IsFiniteSet(ToSet(g.order))
  BY <1>2, <1>4, FS_NatSurjection DEF ExistsSurjection
<1>6. IsFiniteSet(Outputs(g))
  BY <1>5, FS_Subset DEF Outputs
<1> QED
  BY <1>3, <1>6, CompilerAssumption DEF Outputs, Nodes

\* The places of nodes in a list are numbers, those of two nodes differ.
LEMMA Positions ==
  ASSUME NEW s \in Seq(Nodes), NEW m \in ToSet(s), NEW n \in ToSet(s)
  PROVE  /\ Position(s, m) \in Int /\ Position(s, n) \in Int
         /\ Position(s, m) = Position(s, n) => m = n
<1>1. DOMAIN s = 1 .. Len(s)
  BY LenProperties
<1> QED
  BY <1>1, PositionIn

\* The compiler's list puts the outputs of a graph in a strict order.
LEMMA BeforeOrders ==
  ASSUME NEW g \in Graphs,
         NEW k \in Outputs(g), NEW m \in Outputs(g), NEW n \in Outputs(g)
  PROVE  /\ ~Before(m, m, g)
         /\ Before(k, m, g) /\ Before(m, n, g) => Before(k, n, g)
         /\ m # n => Before(m, n, g) \/ Before(n, m, g)
<1> DEFINE bi == ToSet(InNodes)
<1>1. {k, m, n} \subseteq bi \union Elements /\ bi \cap Elements = {}
  BY OutputsOf
<1>2. /\ InNodes \in Seq(Nodes) /\ g.order \in Seq(Nodes)
      /\ {k, m, n} \subseteq ToSet(g.order)
  BY CompilerAssumption DEF Graphs, Outputs
<1>3. \A a, b \in {k, m, n} :
        /\ Position(g.order, a) \in Int /\ Position(g.order, b) \in Int
        /\ Position(g.order, a) = Position(g.order, b) => a = b
  BY <1>2, Positions
<1>4. \A a, b \in {k, m, n} \cap bi :
        /\ Position(InNodes, a) \in Int /\ Position(InNodes, b) \in Int
        /\ Position(InNodes, a) = Position(InNodes, b) => a = b
  BY <1>2, Positions
<1> HIDE DEF bi
<1>5. \A a, b \in {k, m, n} :
        Before(a, b, g) <=>
          \/ a \in bi /\ b \in Elements
          \/ a \in bi /\ b \in bi /\ Position(InNodes, a) < Position(InNodes, b)
          \/ a \in Elements /\ b \in Elements /\ Position(g.order, a) < Position(g.order, b)
  BY DEF Before, bi
<1>6. ~Before(m, m, g)
  BY <1>1, <1>3, <1>4, <1>5
<1>7. Before(k, m, g) /\ Before(m, n, g) => Before(k, n, g)
  BY <1>1, <1>3, <1>4, <1>5
<1>8. m # n => Before(m, n, g) \/ Before(n, m, g)
  BY <1>1, <1>3, <1>4, <1>5
<1> QED
  BY <1>6, <1>7, <1>8

\* Of two outputs the earlier one has the lower number.
LEMMA NumbersRise ==
  ASSUME NEW g \in Graphs, NEW m \in Outputs(g), NEW n \in Outputs(g),
         Before(m, n, g)
  PROVE  Number(g)[m] \in Nat /\ Number(g)[n] \in Nat /\ Number(g)[m] < Number(g)[n]
<1> DEFINE S == {k \in Outputs(g) : Before(k, m, g)}
           T == {k \in Outputs(g) : Before(k, n, g)}
<1>1. Number(g)[m] = Cardinality(S) /\ Number(g)[n] = Cardinality(T)
  BY DEF Number
<1>2. S \subseteq T /\ m \in T /\ m \notin S
  BY BeforeOrders
<1>3. IsFiniteSet(T)
  BY OutputsOf, FS_Subset
<1> HIDE DEF S, T
<1>4. /\ IsFiniteSet(S) /\ Cardinality(S) <= Cardinality(T)
      /\ Cardinality(T) # Cardinality(S)
  BY <1>2, <1>3, FS_Subset
<1>5. Cardinality(S) \in Nat /\ Cardinality(T) \in Nat
  BY <1>3, <1>4, FS_CardinalityType
<1> QED
  BY <1>1, <1>4, <1>5

\* Every output of a graph has a number of its own, in the range of their count.
LEMMA NumbersOwn ==
  ASSUME NEW g \in Graphs
  PROVE  /\ DOMAIN Number(g) = Outputs(g) /\ IsInjective(Number(g))
         /\ Cardinality(Outputs(g)) \in Nat
         /\ \A n \in Outputs(g) : Number(g)[n] \in 0 .. Cardinality(Outputs(g))
<1>1. DOMAIN Number(g) = Outputs(g)
  BY DEF Number
<1>2. IsFiniteSet(Outputs(g)) /\ Cardinality(Outputs(g)) \in Nat
  BY OutputsOf, FS_CardinalityType
<1>3. ASSUME NEW n \in Outputs(g)
      PROVE  Number(g)[n] \in 0 .. Cardinality(Outputs(g))
  <2> DEFINE S == {k \in Outputs(g) : Before(k, n, g)}
  <2>1. Number(g)[n] = Cardinality(S)
    BY DEF Number
  <2>2. S \subseteq Outputs(g)
    OBVIOUS
  <2> HIDE DEF S
  <2>3. IsFiniteSet(S) /\ Cardinality(S) <= Cardinality(Outputs(g))
    BY <1>2, <2>2, FS_Subset
  <2>4. Cardinality(S) \in Nat
    BY <2>3, FS_CardinalityType
  <2> QED
    BY <1>2, <2>1, <2>3, <2>4
<1>4. ASSUME NEW m \in Outputs(g), NEW n \in Outputs(g), Number(g)[m] = Number(g)[n]
      PROVE  m = n
  <2>1. ~Before(m, n, g)
    BY <1>4, NumbersRise
  <2>2. ~Before(n, m, g)
    BY <1>4, NumbersRise
  <2> QED
    BY <2>1, <2>2, BeforeOrders
<1> QED
  BY <1>1, <1>2, <1>3, <1>4 DEF IsInjective

-----------------------------------------------------------------------------
(* Numbers at inputs.                                                      *)

\* A finite set of numbers has a largest one.
LEMMA MaxOf ==
  ASSUME NEW S, S \subseteq Int, S # {}, IsFiniteSet(S)
  PROVE  Max(S) \in S /\ \A y \in S : Max(S) >= y
<1> DEFINE Above(x) == {y \in S : y > x}
           T == {Above(x) : x \in S}
<1>1. T \subseteq FiniteSubsetsOf(S) /\ T # {}
  <2>1. T \subseteq SUBSET S /\ T # {}
    OBVIOUS
  <2>2. FiniteSubsetsOf(S) = SUBSET S
    BY FS_FiniteSubsetsOfFinite
  <2> QED
    BY <2>1, <2>2
<1>2. IsWellFoundedOn(StrictSubsetOrdering(S), FiniteSubsetsOf(S))
  BY FS_StrictSubsetOrderingWellFounded
<1>3. PICK U \in T : \A V \in T : <<V, U>> \notin StrictSubsetOrdering(S)
  BY <1>1, <1>2, WFMin
<1>4. PICK x \in S : U = Above(x)
  BY <1>3
<1>5. ASSUME NEW y \in S, ~(x >= y)
      PROVE  FALSE
  <2>1. x \in Int /\ y \in Int /\ y > x /\ ~(y > y)
    BY <1>5
  <2>2. Above(y) \subseteq Above(x) /\ y \in Above(x) /\ y \notin Above(y)
    <3>1. ASSUME NEW z \in S, z > y
          PROVE  z > x
      <4>1. z \in Int
        OBVIOUS
      <4> QED
        BY <2>1, <3>1, <4>1
    <3> QED
      BY <2>1, <3>1
  <2>3. <<Above(y), Above(x)>> \in StrictSubsetOrdering(S)
    BY <2>2 DEF StrictSubsetOrdering
  <2> QED
    BY <1>3, <1>4, <2>3
<1>6. \E z \in S : \A y \in S : z >= y
  BY <1>5
<1> QED
  BY <1>6 DEF Max

\* An input has the number of an output that is linked to it, or none.
LEMMA FeedIsLinked ==
  ASSUME NEW g \in Graphs, NEW s \in Inputs(g)
  PROVE  LET feeding == {m \in DOMAIN Number(g) : [from |-> m, to |-> s] \in g.links}
         IN  IF feeding = {} THEN Feed(g)[s] = -1
             ELSE \E source \in feeding : Feed(g)[s] = Number(g)[source]
<1> DEFINE feeding == {m \in DOMAIN Number(g) : [from |-> m, to |-> s] \in g.links}
           numbers == {-1} \union {Number(g)[n] : n \in feeding}
           top == Cardinality(Outputs(g))
<1>1. Feed(g)[s] = Max(numbers)
  BY DEF Feed
<1>2. top \in Nat /\ \A n \in feeding : Number(g)[n] \in 0 .. top
  BY NumbersOwn
<1>3. ASSUME NEW x \in numbers
      PROVE  x \in (-1) .. top
  <2>1. CASE x = -1
    BY <1>2, <2>1
  <2>2. CASE \E n \in feeding : x = Number(g)[n]
    BY <1>2, <2>2
  <2> QED
    BY <2>1, <2>2
<1>4. IsFiniteSet((-1) .. top)
  BY <1>2, FS_Interval
<1>5. -1 \in numbers
  OBVIOUS
<1>6. /\ numbers \subseteq Int
      /\ Max(numbers) \in numbers /\ \A y \in numbers : Max(numbers) >= y
  <2> HIDE DEF numbers, top
  <2>1. numbers \in SUBSET ((-1) .. top)
    BY <1>3
  <2>2. IsFiniteSet(numbers)
    BY <1>4, <2>1, FS_Subset
  <2>3. numbers \subseteq Int /\ numbers # {}
    BY <1>5, <2>1
  <2> QED
    BY <2>2, <2>3, MaxOf
<1>7. CASE feeding = {}
  BY <1>1, <1>6, <1>7
<1>8. CASE feeding # {}
  <2>1. PICK n \in feeding : TRUE
    BY <1>8
  <2>2. Number(g)[n] \in numbers /\ Number(g)[n] \in Nat
    BY <1>2, <2>1
  <2>3. Max(numbers) # -1
    <3>1. Max(numbers) >= Number(g)[n]
      BY <1>6, <2>2
    <3> HIDE DEF numbers
    <3> QED
      BY <2>2, <3>1
  <2>4. \E source \in feeding : Max(numbers) = Number(g)[source]
    BY <1>6, <2>3
  <2> QED
    BY <1>1, <1>8, <2>4
<1> QED
  BY <1>7, <1>8

-----------------------------------------------------------------------------
(* The invariant.                                                          *)

Scenes ==
  [order: Seq(Nodes), links: SUBSET Links, loose: SUBSET Links,
   dangling: SUBSET (Nodes \X (0 .. Arity)), failed: BOOLEAN, closing: BOOLEAN]

TypeInv ==
  /\ file \in Graphs \union {None, Broken}
  /\ alg \in [listed: BOOLEAN, compiled: BOOLEAN, enabled: BOOLEAN]
  /\ scene \in Scenes \union {None}
  /\ alive \in BOOLEAN /\ diskOk \in BOOLEAN /\ edits \in 0 .. MaxEdits

\* A graph has each node once, and its links join nodes that it has.
Sound(g) ==
  /\ IsInjective(g.order)
  /\ \A link \in g.links : {link.from, link.to[1]} \subseteq ToSet(g.order)
FileInv == IsGraph(file) => Sound(file)

\* A link of the scene lacks a socket only if it joins a node to itself and the
\* file, as long as it can be read, has it so too: the file it was loaded from.
SelfLinks(g) == {link \in g.links : link.from = link.to[1]}
SceneInv ==
  scene # None =>
    /\ Sound(scene) /\ scene.loose \subseteq SelfLinks(scene)
    /\ IsGraph(file) => scene.loose \subseteq SelfLinks(file)

\* Code that is listed as compiled was compiled from the file as it is.
Compiled(g) == [number |-> Number(g), feed |-> Feed(g)]
CodeInv == alg.compiled /\ code # None => IsGraph(file) /\ code = Compiled(file)

Inv == TypeInv /\ FileInv /\ SceneInv /\ CodeInv

\* Neither mark of a file is a graph.
LEMMA GraphsAre ==
  ASSUME NEW g \in Graphs
  PROVE  IsGraph(g)
BY CompilerAssumption DEF IsGraph

LEMMA FileIsGraph ==
  ASSUME TypeInv, IsGraph(file)
  PROVE  file \in Graphs
BY DEF TypeInv, IsGraph

LEMMA EmptyIsSound == EmptyGraph \in Graphs /\ Sound(EmptyGraph)
BY EmptySeq DEF EmptyGraph, Graphs, Sound, IsInjective

\* In a sound graph the links without both sockets join a node to itself.
LEMMA LooseAreSelf ==
  ASSUME NEW g, Sound(g)
  PROVE  Loose(g) \subseteq SelfLinks(g)
BY DEF Loose, Whole, Sound, SelfLinks

\* The scene that shows a sound graph is sound.
LEMMA SceneOfSound ==
  ASSUME NEW g \in Graphs, Sound(g)
  PROVE  /\ SceneOf(g) \in Scenes /\ Sound(SceneOf(g))
         /\ SceneOf(g).loose = Loose(g) /\ SelfLinks(SceneOf(g)) = SelfLinks(g)
<1>1. Loose(g) \subseteq g.links
  BY DEF Loose
<1> QED
  BY <1>1 DEF SceneOf, Scenes, Graphs, Sound, SelfLinks

\* What a save leaves of a graph: all of it, or nothing that can be read, and
\* nothing of a graph of which a link lacks a socket.
LEMMA SaveLeaves ==
  ASSUME NEW g, NEW loose, SaveFile(g, loose)
  PROVE  /\ code' = None /\ file' \in {None, Broken, g}
         /\ IsGraph(file') => file' = g /\ loose = {}
         /\ diskOk /\ loose = {} => file' = g
BY DEF SaveFile, IsGraph

-----------------------------------------------------------------------------
(* Every action keeps the invariant.                                       *)

\* What compiling lists as compiled is the code of the file.
LEMMA CompileIsOfFile ==
  ASSUME TypeInv, NEW on \in BOOLEAN, CompileFile(on), UNCHANGED file
  PROVE  /\ alg' \in [listed: BOOLEAN, compiled: BOOLEAN, enabled: BOOLEAN]
         /\ alive' \in BOOLEAN /\ CodeInv'
<1>1. CASE IsGraph(file) /\ CompileDies(file)
  <2>1. code' = None /\ alive' = FALSE /\ UNCHANGED alg
    BY <1>1 DEF CompileFile
  <2> QED
    BY <2>1 DEF TypeInv, CodeInv
<1>2. CASE IsGraph(file) /\ ~CompileDies(file) /\ diskOk
  <2>1. /\ code' = Compiled(file) /\ UNCHANGED alive
        /\ alg' = [alg EXCEPT !.compiled = TRUE, !.enabled = @ \/ on]
    BY <1>2 DEF CompileFile, Compiled
  <2>2. alg' \in [listed: BOOLEAN, compiled: BOOLEAN, enabled: BOOLEAN]
    BY <2>1 DEF TypeInv
  <2>3. CodeInv'
    <3>1. file' = file /\ IsGraph(file')
      BY <1>2
    <3>2. code' = Compiled(file')
      BY <2>1, <3>1
    <3> QED
      BY <3>1, <3>2 DEF CodeInv
  <2> QED
    BY <2>1, <2>2, <2>3 DEF TypeInv
<1>3. CASE ~IsGraph(file) \/ (~CompileDies(file) /\ ~diskOk)
  <2>1. NotCompiled
    BY <1>3 DEF CompileFile
  <2> QED
    BY <2>1 DEF NotCompiled, TypeInv, CodeInv
<1> QED
  BY <1>1, <1>2, <1>3

LEMMA AddAlgorithmKeeps ==
  ASSUME Inv, AddAlgorithm
  PROVE  Inv'
<1>1. /\ alg' \in [listed: BOOLEAN, compiled: BOOLEAN, enabled: BOOLEAN]
      /\ alg'.compiled = FALSE /\ UNCHANGED <<alive, diskOk, edits>>
  BY DEF Inv, TypeInv, AddAlgorithm
<1>2. CodeInv'
  BY <1>1 DEF CodeInv
<1>3. CASE diskOk
  <2>1. file' = EmptyGraph /\ scene' = SceneOf(EmptyGraph)
    BY <1>3 DEF AddAlgorithm
  <2>2. /\ EmptyGraph \in Graphs /\ Sound(EmptyGraph)
        /\ Loose(EmptyGraph) \subseteq SelfLinks(EmptyGraph)
    BY EmptyIsSound, LooseAreSelf
  <2>3. /\ scene' \in Scenes /\ Sound(scene')
        /\ scene'.loose = Loose(EmptyGraph) /\ SelfLinks(scene') = SelfLinks(EmptyGraph)
    BY <2>1, <2>2, SceneOfSound
  <2>4. TypeInv'
    BY <1>1, <2>1, <2>2, <2>3 DEF Inv, TypeInv
  <2>5. FileInv' /\ SceneInv'
    BY <2>1, <2>2, <2>3 DEF FileInv, SceneInv
  <2> QED
    BY <1>2, <2>4, <2>5 DEF Inv
<1>4. CASE ~diskOk
  <2>1. file' = Broken /\ UNCHANGED scene /\ scene = None
    BY <1>4 DEF AddAlgorithm
  <2>2. TypeInv'
    BY <1>1, <2>1 DEF Inv, TypeInv
  <2>3. FileInv' /\ SceneInv'
    BY <2>1 DEF FileInv, SceneInv, IsGraph
  <2> QED
    BY <1>2, <2>2, <2>3 DEF Inv
<1> QED
  BY <1>3, <1>4

LEMMA OpenEditorKeeps ==
  ASSUME Inv, OpenEditor
  PROVE  Inv'
<1>1. /\ IsGraph(file) /\ scene' = SceneOf(file)
      /\ UNCHANGED <<file, code, alg, alive, diskOk, edits>>
  BY DEF OpenEditor
<1>2. file \in Graphs /\ Sound(file) /\ Loose(file) \subseteq SelfLinks(file)
  BY <1>1, FileIsGraph, LooseAreSelf DEF Inv, FileInv
<1>3. /\ scene' \in Scenes /\ Sound(scene')
      /\ scene'.loose = Loose(file) /\ SelfLinks(scene') = SelfLinks(file)
  BY <1>1, <1>2, SceneOfSound
<1>4. TypeInv'
  BY <1>1, <1>3 DEF Inv, TypeInv
<1>5. FileInv' /\ SceneInv'
  BY <1>1, <1>2, <1>3 DEF Inv, FileInv, SceneInv
<1>6. CodeInv'
  BY <1>1 DEF Inv, CodeInv
<1> QED
  BY <1>4, <1>5, <1>6 DEF Inv

LEMMA CompileButtonKeeps ==
  ASSUME Inv, CompileButton
  PROVE  Inv'
<1>1. CompileFile(FALSE) /\ UNCHANGED <<file, scene, diskOk, edits>>
  BY DEF CompileButton
<1>2. /\ alg' \in [listed: BOOLEAN, compiled: BOOLEAN, enabled: BOOLEAN]
      /\ alive' \in BOOLEAN /\ CodeInv'
  BY <1>1, CompileIsOfFile DEF Inv
<1>3. TypeInv' /\ FileInv' /\ SceneInv'
  BY <1>1, <1>2 DEF Inv, TypeInv, FileInv, SceneInv
<1> QED
  BY <1>2, <1>3 DEF Inv

LEMMA EditorClosedKeeps ==
  ASSUME Inv, EditorClosed
  PROVE  Inv'
<1>1. /\ scene' = None /\ UNCHANGED <<file, diskOk, edits>>
      /\ NotCompiled \/ CompileFile(TRUE)
  BY DEF EditorClosed
<1>2. /\ alg' \in [listed: BOOLEAN, compiled: BOOLEAN, enabled: BOOLEAN]
      /\ alive' \in BOOLEAN /\ CodeInv'
  <2>1. CASE NotCompiled
    BY <2>1 DEF NotCompiled, Inv, TypeInv, CodeInv
  <2>2. CASE CompileFile(TRUE)
    BY <1>1, <2>2, CompileIsOfFile DEF Inv
  <2> QED
    BY <1>1, <2>1, <2>2
<1>3. TypeInv' /\ FileInv' /\ SceneInv'
  BY <1>1, <1>2 DEF Inv, TypeInv, FileInv, SceneInv
<1> QED
  BY <1>2, <1>3 DEF Inv

LEMMA SetEnabledKeeps ==
  ASSUME Inv, NEW on \in BOOLEAN, SetEnabled(on)
  PROVE  Inv'
<1>1. /\ alg' = [alg EXCEPT !.enabled = on]
      /\ UNCHANGED <<file, code, scene, alive, diskOk, edits>>
  BY DEF SetEnabled
<1>2. /\ alg' \in [listed: BOOLEAN, compiled: BOOLEAN, enabled: BOOLEAN]
      /\ alg'.compiled = alg.compiled
  BY <1>1 DEF Inv, TypeInv
<1> QED
  BY <1>1, <1>2 DEF Inv, TypeInv, FileInv, SceneInv, CodeInv

LEMMA RemoveAlgorithmKeeps ==
  ASSUME Inv, RemoveAlgorithm
  PROVE  Inv'
<1>1. /\ alg' = [alg EXCEPT !.listed = FALSE, !.enabled = FALSE]
      /\ file' = None /\ code' = None /\ scene = None
      /\ UNCHANGED <<scene, alive, diskOk, edits>>
  BY DEF RemoveAlgorithm, Idle
<1> QED
  BY <1>1 DEF Inv, TypeInv, FileInv, SceneInv, CodeInv, IsGraph

LEMMA OpenProjectKeeps ==
  ASSUME Inv, OpenProject
  PROVE  Inv'
<1>1. /\ scene = None /\ UNCHANGED <<alg, scene, diskOk, edits>>
      /\ alive' \in BOOLEAN
  BY DEF OpenProject
<1>2. \/ UNCHANGED <<file, code>>
      \/ IsGraph(file) /\ SaveFile(file, Loose(file))
  BY DEF OpenProject
<1>3. CASE UNCHANGED <<file, code>>
  BY <1>1, <1>3 DEF Inv, TypeInv, FileInv, SceneInv, CodeInv
<1>4. CASE IsGraph(file) /\ SaveFile(file, Loose(file))
  <2>1. file \in Graphs /\ Sound(file)
    BY <1>4, FileIsGraph DEF Inv, FileInv
  <2>2. /\ code' = None /\ file' \in {None, Broken, file}
        /\ IsGraph(file') => file' = file
    BY <1>4, SaveLeaves
  <2>3. TypeInv'
    BY <1>1, <2>1, <2>2 DEF Inv, TypeInv
  <2>4. FileInv' /\ SceneInv' /\ CodeInv'
    BY <1>1, <2>1, <2>2 DEF FileInv, SceneInv, CodeInv
  <2> QED
    BY <2>3, <2>4 DEF Inv
<1> QED
  BY <1>2, <1>3, <1>4

LEMMA DiskKeeps ==
  ASSUME Inv, Disk
  PROVE  Inv'
BY DEF Disk, Inv, TypeInv, FileInv, SceneInv, CodeInv

-----------------------------------------------------------------------------
(* The editor keeps the invariant.                                         *)

\* An edit leaves the file and its code; what it owes is a sound scene in which
\* no more links lack a socket.
LEMMA EditKeeps ==
  ASSUME Inv, Edit, UNCHANGED <<file, code, alg, alive, diskOk>>,
         scene' \in Scenes, Sound(scene'),
         scene'.loose \subseteq scene.loose \cap scene'.links
  PROVE  Inv'
<1>1. scene # None /\ edits < MaxEdits /\ edits' = edits + 1
  BY DEF Edit, Editing
<1>2. TypeInv'
  BY <1>1, CompilerAssumption DEF Inv, TypeInv
<1>3. FileInv' /\ CodeInv'
  BY DEF Inv, FileInv, CodeInv
<1>4. SceneInv'
  <2>1. scene'.loose \subseteq SelfLinks(scene')
    BY <1>1 DEF Inv, SceneInv, SelfLinks
  <2> QED
    BY <1>1, <2>1 DEF Inv, SceneInv
<1> QED
  BY <1>2, <1>3, <1>4 DEF Inv

\* A scene that is edited is a sound scene.
LEMMA SceneEdited ==
  ASSUME Inv, Editing
  PROVE  /\ scene \in Scenes /\ Sound(scene) /\ scene.loose \subseteq scene.links
         /\ scene.order \in Seq(Nodes)
BY DEF Editing, Inv, TypeInv, SceneInv, Scenes, SelfLinks

LEMMA AddNodeKeeps ==
  ASSUME Inv, NEW n \in Nodes, AddNode(n)
  PROVE  Inv'
<1>1. /\ Edit /\ n \notin ToSet(scene.order)
      /\ scene' = [scene EXCEPT !.order = Append(@, n)]
      /\ UNCHANGED <<file, code, alg, alive, diskOk>>
  BY DEF AddNode, InScene
<1>2. /\ scene \in Scenes /\ Sound(scene) /\ scene.loose \subseteq scene.links
      /\ scene.order \in Seq(Nodes)
  BY <1>1, SceneEdited DEF Edit
<1>3. /\ Append(scene.order, n) \in Seq(Nodes) /\ IsInjective(Append(scene.order, n))
      /\ ToSet(Append(scene.order, n)) = ToSet(scene.order) \union {n}
  BY <1>1, <1>2, NodesAppend DEF Sound
<1>4. /\ scene' \in Scenes /\ scene'.order = Append(scene.order, n)
      /\ scene'.links = scene.links /\ scene'.loose = scene.loose
  BY <1>1, <1>2, <1>3 DEF Scenes
<1>5. Sound(scene')
  BY <1>2, <1>3, <1>4 DEF Sound
<1> QED
  BY <1>1, <1>2, <1>4, <1>5, EditKeeps

LEMMA DrawLinkKeeps ==
  ASSUME Inv, NEW link \in Links, NEW begun, DrawLink(link, begun)
  PROVE  Inv'
<1>1. /\ Edit /\ link.from \in ToSet(scene.order) /\ link.to[1] \in ToSet(scene.order)
      /\ scene' = [scene EXCEPT !.links = @ \union {link}]
      /\ UNCHANGED <<file, code, alg, alive, diskOk>>
  BY DEF DrawLink, InScene
<1>2. scene \in Scenes /\ Sound(scene) /\ scene.loose \subseteq scene.links
  BY <1>1, SceneEdited DEF Edit
<1>3. /\ scene' \in Scenes /\ scene'.order = scene.order
      /\ scene'.links = scene.links \union {link} /\ scene'.loose = scene.loose
  BY <1>1, <1>2 DEF Scenes
<1>4. Sound(scene')
  BY <1>1, <1>2, <1>3 DEF Sound
<1> QED
  BY <1>1, <1>2, <1>3, <1>4, EditKeeps

LEMMA RemoveLinkKeeps ==
  ASSUME Inv, NEW link \in Links, RemoveLink(link)
  PROVE  Inv'
<1>1. /\ Edit
      /\ scene' = [scene EXCEPT !.links = @ \ {link}, !.loose = @ \ {link}]
      /\ UNCHANGED <<file, code, alg, alive, diskOk>>
  BY DEF RemoveLink
<1>2. scene \in Scenes /\ Sound(scene) /\ scene.loose \subseteq scene.links
  BY <1>1, SceneEdited DEF Edit
<1>3. /\ scene' \in Scenes /\ scene'.order = scene.order
      /\ scene'.links = scene.links \ {link} /\ scene'.loose = scene.loose \ {link}
  BY <1>1, <1>2 DEF Scenes
<1>4. Sound(scene')
  BY <1>2, <1>3 DEF Sound
<1> QED
  BY <1>1, <1>2, <1>3, <1>4, EditKeeps

\* The sockets of a link are outputs and inputs of nodes.
LEMMA SocketsOf ==
  ASSUME NEW link \in Links
  PROVE  Sockets(link) \subseteq Nodes \X (0 .. Arity)
BY CompilerAssumption DEF Links, Sockets, Nodes

LEMMA RemoveNodeKeeps ==
  ASSUME Inv, NEW n \in Nodes, RemoveNode(n)
  PROVE  Inv'
<1> DEFINE order == RemoveAt(scene.order, Position(scene.order, n))
           gone == LinksOf(n)
           dangling == {s \in scene.dangling \union UNION {Sockets(link) : link \in gone} :
                          s[1] # n}
<1>1. /\ Edit /\ n \in ToSet(scene.order)
      /\ UNCHANGED <<file, code, alg, alive, diskOk>>
  BY DEF RemoveNode, InScene
<1>2. scene' = [scene EXCEPT !.order = order, !.links = @ \ gone, !.loose = @ \ gone,
                             !.dangling = dangling]
  BY DEF RemoveNode
<1>3. /\ scene \in Scenes /\ Sound(scene) /\ scene.loose \subseteq scene.links
      /\ scene.order \in Seq(Nodes)
  BY <1>1, SceneEdited DEF Edit
<1>4. /\ order \in Seq(Nodes) /\ IsInjective(order)
      /\ ToSet(order) = ToSet(scene.order) \ {n}
  BY <1>1, <1>3, NodesRemove DEF Sound
<1>5. dangling \in SUBSET (Nodes \X (0 .. Arity))
  <2>1. gone \subseteq Links /\ scene.dangling \subseteq Nodes \X (0 .. Arity)
    BY <1>3 DEF LinksOf, Scenes
  <2>2. UNION {Sockets(link) : link \in gone} \subseteq Nodes \X (0 .. Arity)
    BY <2>1, SocketsOf
  <2> QED
    BY <2>1, <2>2
<1>6. \A link \in scene.links \ gone : link.from # n /\ link.to[1] # n
  BY DEF LinksOf
<1> HIDE DEF order, gone, dangling
<1>7. /\ scene' \in Scenes /\ scene'.order = order
      /\ scene'.links = scene.links \ gone /\ scene'.loose = scene.loose \ gone
  BY <1>2, <1>3, <1>4, <1>5 DEF Scenes
<1>8. Sound(scene')
  BY <1>3, <1>4, <1>6, <1>7 DEF Sound
<1> QED
  BY <1>1, <1>3, <1>7, <1>8, EditKeeps

LEMMA UseBadPointerKeeps ==
  ASSUME Inv, NEW n \in Nodes, UseBadPointer(n)
  PROVE  Inv'
<1>1. /\ alive' = FALSE /\ scene' = None
      /\ UNCHANGED <<file, code, alg, diskOk, edits>>
  BY DEF UseBadPointer, ProgramDies
<1> QED
  BY <1>1 DEF Inv, TypeInv, FileInv, SceneInv, CodeInv

\* The graph of a sound scene, as it is saved.
LEMMA SceneGraphSound ==
  ASSUME Inv, Editing
  PROVE  SceneGraph \in Graphs /\ Sound(SceneGraph)
<1>1. scene \in Scenes /\ Sound(scene) /\ scene.order \in Seq(Nodes)
  BY SceneEdited
<1>2. /\ Reverse(scene.order) \in Seq(Nodes) /\ IsInjective(Reverse(scene.order))
      /\ ToSet(Reverse(scene.order)) = ToSet(scene.order)
  BY <1>1, NodesReverse DEF Sound
<1> QED
  BY <1>1, <1>2 DEF SceneGraph, Graphs, Sound, Scenes

LEMMA SaveKeeps ==
  ASSUME Inv, NEW closing \in BOOLEAN, Save(closing)
  PROVE  Inv'
<1>1. Editing /\ SaveFile(SceneGraph, scene.loose) /\ UNCHANGED <<alg, diskOk, edits>>
  BY DEF Save
<1>2. /\ scene \in Scenes /\ Sound(scene) /\ scene # None
      /\ scene.loose \subseteq SelfLinks(scene)
  BY <1>1, SceneEdited DEF Inv, SceneInv, Editing
<1>3. SceneGraph \in Graphs /\ Sound(SceneGraph)
  BY <1>1, SceneGraphSound
<1>4. /\ code' = None /\ file' \in {None, Broken, SceneGraph}
      /\ IsGraph(file') => file' = SceneGraph /\ scene.loose = {}
  BY <1>1, SaveLeaves
<1>5. /\ alive' \in BOOLEAN
      /\ \/ scene' = None
         \/ /\ scene' \in Scenes /\ scene'.order = scene.order
            /\ scene'.links = scene.links /\ scene'.loose = scene.loose
  <2>1. CASE SaveDies(scene.loose)
    BY <2>1 DEF Save
  <2>2. CASE ~SaveDies(scene.loose)
    <3>1. alive' = TRUE
      BY <2>2 DEF Save
    <3>2. PICK noticed \in BOOLEAN :
            scene' = [scene EXCEPT !.failed = @ \/ noticed, !.closing = closing]
      BY <2>2 DEF Save
    <3> QED
      BY <1>2, <3>1, <3>2 DEF Scenes
  <2> QED
    BY <2>1, <2>2
<1>6. TypeInv'
  BY <1>1, <1>3, <1>4, <1>5 DEF Inv, TypeInv
<1>7. FileInv' /\ CodeInv'
  BY <1>3, <1>4 DEF FileInv, CodeInv
<1>8. SceneInv'
  BY <1>2, <1>4, <1>5 DEF SceneInv, Sound, SelfLinks
<1> QED
  BY <1>6, <1>7, <1>8 DEF Inv

-----------------------------------------------------------------------------
(* The theorems.                                                           *)

LEMMA InitInv == Init => Inv
BY CompilerAssumption DEF Init, Inv, TypeInv, FileInv, SceneInv, CodeInv, IsGraph

LEMMA NextKeeps ==
  ASSUME Inv, [Next]_vars
  PROVE  Inv'
<1>1. CASE UNCHANGED vars
  BY <1>1 DEF vars, Inv, TypeInv, FileInv, SceneInv, CodeInv
<1>2. CASE Next
  BY <1>2, AddAlgorithmKeeps, OpenEditorKeeps, CompileButtonKeeps, RemoveAlgorithmKeeps,
     SetEnabledKeeps, OpenProjectKeeps, DiskKeeps, AddNodeKeeps, RemoveNodeKeeps,
     UseBadPointerKeeps, DrawLinkKeeps, RemoveLinkKeeps, SaveKeeps, EditorClosedKeeps
     DEF Next
<1> QED
  BY <1>1, <1>2

\* Types; the graph file and the scene have each node once and no link without
\* its nodes; a link lacks a socket only if it joins a node to itself; compiled
\* code was compiled from the file as it is.
THEOREM Invariant == Spec => []Inv
<1>1. Init => Inv
  BY InitInv
<1>2. Inv /\ [Next]_vars => Inv'
  BY NextKeeps
<1> QED
  BY <1>1, <1>2, PTL DEF Spec

\* What CfcCompiler wrote and the list still shows as compiled numbers every
\* output of the graph on the disk once and gives every input the number of an
\* output linked to it, or none: through every edit, save, crash and full disk.
THEOREM CodeFollows == Spec => []CodeIsGraph
<1>1. Inv => CodeIsGraph
  <2> SUFFICES ASSUME Inv, alg.compiled, code # None
               PROVE  /\ IsGraph(file)
                      /\ DOMAIN code.number = ToSet(file.order) \ OutNodes
                      /\ IsInjective(code.number)
                      /\ \A n \in ToSet(file.order), i \in 1 .. Arity :
                           LET feeding == {m \in DOMAIN code.number :
                                             [from |-> m, to |-> <<n, i>>] \in file.links}
                           IN  <<n, i>> \in DOMAIN code.feed =>
                                 IF feeding = {} THEN code.feed[<<n, i>>] = -1
                                 ELSE \E source \in feeding :
                                        code.feed[<<n, i>>] = code.number[source]
    BY DEF CodeIsGraph
  <2>1. IsGraph(file) /\ code.number = Number(file) /\ code.feed = Feed(file)
    BY DEF Inv, CodeInv, Compiled
  <2>2. file \in Graphs
    BY <2>1, FileIsGraph DEF Inv
  <2>3. DOMAIN code.number = ToSet(file.order) \ OutNodes /\ IsInjective(code.number)
    BY <2>1, <2>2, NumbersOwn DEF Outputs
  <2>4. DOMAIN code.feed = Inputs(file)
    BY <2>1 DEF Feed
  <2>5. \A s \in DOMAIN code.feed :
          LET feeding == {m \in DOMAIN code.number : [from |-> m, to |-> s] \in file.links}
          IN  IF feeding = {} THEN code.feed[s] = -1
              ELSE \E source \in feeding : code.feed[s] = code.number[source]
    BY <2>1, <2>2, <2>4, FeedIsLinked
  <2> QED
    BY <2>1, <2>3, <2>5
<1> QED
  BY <1>1, Invariant, PTL

\* While the disk can be written, no step but the removal of its algorithm makes
\* a graph unreadable that links no node to itself: saving, loading and a program
\* that dies included.
THEOREM KeptReadable == Spec => GraphKept
<1> DEFINE Lost == /\ IsGraph(file) /\ ~IsGraph(file') /\ diskOk
                   /\ \A link \in file.links : link.from # link.to[1]
           Removed == alg.listed /\ ~alg'.listed
<1>1. ASSUME Inv, Next, Lost
      PROVE  Removed
  <2>1. file \in Graphs /\ Sound(file) /\ file' # file /\ SelfLinks(file) = {}
    BY <1>1, FileIsGraph DEF Inv, FileInv, SelfLinks
  <2>2. CASE RemoveAlgorithm
    BY <2>2 DEF RemoveAlgorithm, Idle, Inv, TypeInv
  <2>3. CASE AddAlgorithm
    <3>1. file' = EmptyGraph
      BY <1>1, <2>3 DEF AddAlgorithm
    <3> QED
      BY <1>1, <3>1, EmptyIsSound, GraphsAre
  <2>4. CASE OpenProject
    <3>1. SaveFile(file, Loose(file)) /\ Loose(file) = {}
      BY <1>1, <2>1, <2>4, LooseAreSelf DEF OpenProject
    <3> QED
      BY <1>1, <2>1, <3>1, SaveLeaves
  <2>5. CASE \E closing \in BOOLEAN : Save(closing)
    <3>1. Editing /\ SaveFile(SceneGraph, scene.loose)
      BY <2>5 DEF Save
    <3>2. scene.loose = {}
      BY <1>1, <2>1, <3>1 DEF Inv, SceneInv, Editing
    <3>3. file' = SceneGraph
      BY <1>1, <3>1, <3>2, SaveLeaves
    <3> QED
      BY <1>1, <3>1, <3>3, SceneGraphSound, GraphsAre
  <2>6. CASE UNCHANGED file
    BY <2>1, <2>6
  <2>7. \/ RemoveAlgorithm \/ AddAlgorithm \/ OpenProject
        \/ \E closing \in BOOLEAN : Save(closing)
        \/ UNCHANGED file
    BY <1>1 DEF Next, OpenEditor, CompileButton, SetEnabled, Disk, AddNode, RemoveNode,
       UseBadPointer, ProgramDies, DrawLink, RemoveLink, EditorClosed
  <2> QED
    BY <2>2, <2>3, <2>4, <2>5, <2>6, <2>7
<1>2. Inv /\ [Next]_vars => [Lost => Removed]_vars
  BY <1>1
<1> QED
  BY <1>2, Invariant, PTL DEF Spec, GraphKept

\* What an algorithm can end the program with: a link that joins a node to
\* itself, on the disk or in the scene, or a pointer to a deleted link.
Fatal ==
  \/ IsGraph(file) /\ SelfLinks(file) # {}
  \/ scene # None /\ (SelfLinks(scene) # {} \/ scene.dangling # {})

\* Compiling, loading, saving and editing end the program only in such a state:
\* an algorithm without links of a node to itself, from whose scene no linked
\* node was deleted, never does, whatever is edited and whatever the disk does.
THEOREM DiesOnlyOfFatal == Spec => [][alive /\ ~alive' => Fatal]_vars
<1>1. ASSUME Inv, Next, alive, ~alive'
      PROVE  Fatal
  <2>1. ASSUME NEW enabling, CompileFile(enabling) PROVE Fatal
    <3>1. IsGraph(file) /\ Loose(file) # {}
      BY <1>1, <2>1 DEF CompileFile, NotCompiled, CompileDies
    <3> QED
      BY <1>1, <3>1, LooseAreSelf DEF Inv, FileInv, Fatal
  <2>2. CASE CompileButton \/ EditorClosed
    BY <1>1, <2>1, <2>2 DEF CompileButton, EditorClosed, NotCompiled
  <2>3. CASE OpenProject
    <3>1. IsGraph(file) /\ Loose(file) # {}
      BY <1>1, <2>3 DEF OpenProject, SaveDies
    <3> QED
      BY <1>1, <3>1, LooseAreSelf DEF Inv, FileInv, Fatal
  <2>4. CASE \E closing \in BOOLEAN : Save(closing)
    <3>1. scene # None /\ scene.loose # {}
      BY <1>1, <2>4 DEF Save, Editing, SaveDies
    <3> QED
      BY <1>1, <3>1 DEF Inv, SceneInv, Fatal
  <2>5. CASE \E n \in Nodes : UseBadPointer(n)
    <3>1. PICK n \in Nodes : UseBadPointer(n)
      BY <2>5
    <3>2. scene # None
      BY <3>1 DEF UseBadPointer, Editing
    <3>3. CASE Dangling(n)
      BY <3>2, <3>3 DEF Dangling, Fatal
    <3>4. CASE \E link \in LinksOf(n) : link.from = link.to[1] \/ link \in scene.loose
      BY <1>1, <3>2, <3>4 DEF LinksOf, SelfLinks, Inv, SceneInv, Fatal
    <3> QED
      BY <3>1, <3>3, <3>4 DEF UseBadPointer
  <2>6. \/ CompileButton \/ EditorClosed \/ OpenProject
        \/ \E closing \in BOOLEAN : Save(closing)
        \/ \E n \in Nodes : UseBadPointer(n)
        \/ UNCHANGED alive
    BY <1>1 DEF Next, AddAlgorithm, OpenEditor, SetEnabled, RemoveAlgorithm, Disk, AddNode, RemoveNode,
       DrawLink, RemoveLink
  <2> QED
    BY <1>1, <2>2, <2>3, <2>4, <2>5, <2>6
<1>2. Inv /\ [Next]_vars => [alive /\ ~alive' => Fatal]_vars
  BY <1>1
<1> QED
  BY <1>2, Invariant, PTL DEF Spec

=============================================================================
