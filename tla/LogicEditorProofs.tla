-------------------------- MODULE LogicEditorProofs --------------------------
(***************************************************************************)
(* Proofs about the bindings and the logic editor: types, the agreement of *)
(* both ends of every binding, parameters that follow their links, targets *)
(* without a driver, pins that are bound without a node or that two nodes  *)
(* have, and the bindings a project has after it was closed and opened.    *)
(***************************************************************************)
EXTENDS LogicEditor, TLAPS

\* Both ends of every binding of b agree.
Agree(b) ==
  /\ \A t \in Targets, i \in Inputs : t \in b.targets[i] <=> b.source[t] = i
  /\ \A d \in Drivers, v \in Virtual : b.driver[v] = d <=> b.target[d] = v

Good(b) == b \in Bindings /\ Agree(b)

\* The parameter of every element whose link or parameter differs in c names
\* c's link.
Follows(b, c) ==
  \A e \in Elements : \/ c.param[e] = Link(c, e)
                      \/ Link(c, e) = Link(b, e) /\ c.param[e] = b.param[e]

\* Only a pin that is an input in k has a source, only an output a target.
OneWay(b, k) ==
  \A p \in Pins : /\ b.source[p] # None => k[p] = "BI"
                  /\ b.target[p] # None => k[p] = "BO"

-----------------------------------------------------------------------------
(* The setters.                                                            *)

\* No element has two parts in one list.
LEMMA Distinct ==
  /\ None \notin Inputs /\ None \notin Elements
  /\ Targets \subseteq Elements /\ Drivers \subseteq Elements
  /\ Pins \subseteq Targets /\ Pins \subseteq Drivers
  /\ Targets \cap Drivers = Pins
  /\ Virtual \subseteq Inputs
BY BindingsAssumption DEF Inputs, Elements, Targets, Drivers

\* c is b with t bound to i at both ends.
Sourced(b, c, t, i) ==
  /\ c \in Bindings
  /\ c.target = b.target /\ c.driver = b.driver
  /\ c.source[t] = i
  /\ \A u \in Targets \ {t} : c.source[u] = b.source[u]
  /\ \A j \in Inputs : t \in c.targets[j] <=> j = i
  /\ \A j \in Inputs, u \in Targets \ {t} : u \in c.targets[j] <=> u \in b.targets[j]
  /\ \A e \in Elements \ {t} : c.param[e] = b.param[e]
  /\ b.source[t] # i => c.param[t] = i

\* setSource enters the new source at both ends and in the parameter, and
\* changes nothing else.
LEMMA SetSourceFields ==
  ASSUME NEW b, Good(b), NEW t \in Targets, NEW i \in Inputs \union {None},
         NEW c, c = SetSource(b, t, i)
  PROVE  Sourced(b, c, t, i)
<1>1. CASE b.source[t] = i
  BY <1>1, Distinct DEF Sourced, SetSource, Good, Agree
<1>2. CASE b.source[t] # i
  <2>1. c = [b EXCEPT !.source[t] = i, !.param[t] = i,
                      !.targets = [j \in Inputs |->
                                     IF j = i THEN @[j] \union {t}
                                     ELSE IF j = b.source[t] THEN @[j] \ {t}
                                     ELSE @[j]]]
    BY <1>2 DEF SetSource
  <2>2. /\ c = [source |-> c.source, targets |-> c.targets, target |-> b.target,
                driver |-> b.driver, param |-> c.param]
        /\ c.source = [b.source EXCEPT ![t] = i]
        /\ c.param = [b.param EXCEPT ![t] = i]
        /\ c.targets = [j \in Inputs |-> IF j = i THEN b.targets[j] \union {t}
                                         ELSE IF j = b.source[t] THEN b.targets[j] \ {t}
                                         ELSE b.targets[j]]
    BY <2>1 DEF Good, Bindings
  <2>3. c \in Bindings
    BY <2>2, Distinct DEF Good, Bindings
  <2>4. \A j \in Inputs : t \in c.targets[j] <=> j = i
    BY <2>2, <1>2 DEF Good, Agree
  <2>5. \A j \in Inputs, u \in Targets \ {t} : u \in c.targets[j] <=> u \in b.targets[j]
    BY <2>2
  <2>6. /\ c.source[t] = i /\ c.param[t] = i
        /\ \A u \in Targets \ {t} : c.source[u] = b.source[u]
        /\ \A e \in Elements \ {t} : c.param[e] = b.param[e]
    BY <2>2, Distinct DEF Good, Bindings
  <2>7. c.target = b.target /\ c.driver = b.driver
    BY <2>2
  <2> QED BY <2>3, <2>4, <2>5, <2>6, <2>7 DEF Sourced
<1> QED BY <1>1, <1>2

\* Both ends still agree, the parameter of t follows, and pins keep their way.
LEMMA SetSourceKeeps ==
  ASSUME NEW b, Good(b), NEW k, OneWay(b, k),
         NEW t \in Targets, NEW i \in Inputs \union {None},
         NEW c, c = SetSource(b, t, i)
  PROVE  /\ Good(c)
         /\ Follows(b, c)
         /\ (t \in Pins /\ i # None => k[t] = "BI") => OneWay(c, k)
<1>1. Sourced(b, c, t, i)
  BY SetSourceFields
<1>2. Good(c)
  BY <1>1, Distinct DEF Sourced, Good, Agree
<1>3. Follows(b, c)
  <2> SUFFICES ASSUME NEW e \in Elements,
                      ~(Link(c, e) = Link(b, e) /\ c.param[e] = b.param[e])
               PROVE  c.param[e] = Link(c, e)
    BY DEF Follows
  <2>1. CASE e # t
    BY <2>1, <1>1 DEF Sourced, Link
  <2>2. CASE e = t
    <3>1. b.source[t] # i
      BY DEF SetSource
    <3>2. c.param[t] = i /\ c.source[t] = i /\ c.target = b.target
      BY <3>1, <1>1 DEF Sourced
    <3>3. i = None /\ t \in Drivers => b.target[t] = None
      BY <3>1, Distinct DEF OneWay
    <3> QED BY <2>2, <3>2, <3>3 DEF Link
  <2> QED BY <2>1, <2>2
<1>4. (t \in Pins /\ i # None => k[t] = "BI") => OneWay(c, k)
  BY <1>1, Distinct DEF Sourced, OneWay
<1> QED BY <1>2, <1>3, <1>4

\* c is b with d driving v at both ends, and nobody else driving it.
Targeted(b, c, d, v) ==
  /\ c \in Bindings
  /\ c.source = b.source /\ c.targets = b.targets
  /\ c.target[d] = v
  /\ \A e \in Drivers \ {d} :
       c.target[e] = IF v # None /\ b.target[e] = v THEN None ELSE b.target[e]
  /\ \A w \in Virtual : c.driver[w] = IF w = v THEN d
                                      ELSE IF b.target[d] = w THEN None
                                      ELSE b.driver[w]
  /\ \A e \in Elements \ {d} : e \notin Drivers \/ c.target[e] = b.target[e]
                                 => c.param[e] = b.param[e]
  /\ \A e \in Drivers \ {d} : c.target[e] # b.target[e] => c.param[e] = None
  /\ b.target[d] # v => c.param[d] = v

\* setTarget enters the new input at both ends and in the parameter, takes it
\* from the driver it had, and changes nothing else.
LEMMA SetTargetFields ==
  ASSUME NEW b, Good(b), NEW d \in Drivers, NEW v \in Virtual \union {None},
         NEW c, c = SetTarget(b, d, v)
  PROVE  Targeted(b, c, d, v)
<1>1. CASE b.target[d] = v
  BY <1>1, Distinct DEF Targeted, SetTarget, Good, Agree, Bindings
<1>2. CASE b.target[d] # v
  <2> DEFINE Left == {w \in Virtual : b.target[d] = w /\ b.driver[w] = d}
             Rob == {e \in Drivers \ {d} : v # None /\ b.target[e] = v}
  <2>1. Left = {w \in Virtual : b.target[d] = w}
    BY DEF Good, Agree
  <2>2. Robbed(b, d, v) = Rob
    BY Distinct DEF Robbed, Good, Agree, Bindings
  <2>3. /\ c = [source |-> b.source, targets |-> b.targets, target |-> c.target,
                driver |-> c.driver, param |-> c.param]
        /\ c.target = [e \in Drivers |-> IF e = d THEN v
                                         ELSE IF e \in Robbed(b, d, v) THEN None
                                         ELSE b.target[e]]
        /\ c.driver = [w \in Virtual |-> IF w = v THEN d
                                         ELSE IF w \in Left THEN None
                                         ELSE b.driver[w]]
        /\ c.param = [e \in Elements |-> IF e = d THEN v
                                         ELSE IF e \in Robbed(b, d, v) THEN None
                                         ELSE b.param[e]]
    BY <1>2 DEF SetTarget, Good, Bindings
  <2>4. c \in Bindings
    BY <2>3, Distinct DEF Good, Bindings
  <2>5. \A e \in Elements : e \in Robbed(b, d, v) <=> e \in Rob
    BY <2>2
  <2> HIDE DEF Left
  <2>6. /\ c.target[d] = v
        /\ \A e \in Drivers \ {d} :
             c.target[e] = IF v # None /\ b.target[e] = v THEN None ELSE b.target[e]
    BY <2>2, <2>3
  <2>7. \A w \in Virtual : c.driver[w] = IF w = v THEN d
                                         ELSE IF b.target[d] = w THEN None
                                         ELSE b.driver[w]
    BY <2>1, <2>3
  <2>8. c.param[d] = v /\ \A e \in Drivers \ {d} : c.target[e] # b.target[e] => c.param[e] = None
    BY <2>2, <2>3, Distinct
  <2>9. \A e \in Elements \ {d} : e \notin Drivers \/ c.target[e] = b.target[e]
                                    => c.param[e] = b.param[e]
    BY <2>2, <2>3, <2>6, Distinct
  <2> QED BY <2>3, <2>4, <2>6, <2>7, <2>8, <2>9 DEF Targeted
<1> QED BY <1>1, <1>2

\* Both ends still agree, the parameters follow, and pins keep their way.
LEMMA SetTargetKeeps ==
  ASSUME NEW b, Good(b), NEW k, OneWay(b, k),
         NEW d \in Drivers, NEW v \in Virtual \union {None},
         NEW c, c = SetTarget(b, d, v)
  PROVE  /\ Good(c)
         /\ (d \in Pins /\ v # None => k[d] = "BO") => OneWay(c, k) /\ Follows(b, c)
<1>1. Targeted(b, c, d, v)
  BY SetTargetFields
<1>2. Good(c)
  <2>1. \A t \in Targets, i \in Inputs : t \in c.targets[i] <=> c.source[t] = i
    BY <1>1 DEF Targeted, Good, Agree
  <2>2. ASSUME NEW e \in Drivers, NEW w \in Virtual
        PROVE  c.driver[w] = e <=> c.target[e] = w
    <3>1. b.driver[w] = e <=> b.target[e] = w
      BY DEF Good, Agree
    <3>2. b.driver[w] = d <=> b.target[d] = w
      BY DEF Good, Agree
    <3>3. CASE e = d
      BY <1>1, <3>1, <3>2, <3>3, Distinct DEF Targeted
    <3>4. CASE e # d
      BY <1>1, <3>1, <3>2, <3>4, Distinct DEF Targeted
    <3> QED BY <3>3, <3>4
  <2> QED BY <1>1, <2>1, <2>2 DEF Targeted, Good, Agree
<1>3. ASSUME d \in Pins /\ v # None => k[d] = "BO"
      PROVE  Follows(b, c)
  <2> SUFFICES ASSUME NEW e \in Elements,
                      ~(Link(c, e) = Link(b, e) /\ c.param[e] = b.param[e])
               PROVE  c.param[e] = Link(c, e)
    BY DEF Follows
  <2>0. b.target[d] # v
    BY DEF SetTarget
  <2>1. CASE e = d
    <3>1. c.param[d] = v /\ c.target[d] = v /\ c.source = b.source
      BY <1>1, <2>0 DEF Targeted
    <3>2. d \in Targets => b.source[d] = None
      BY <1>3, <2>0, Distinct DEF OneWay
    <3> QED BY <2>1, <3>1, <3>2 DEF Link
  <2>2. CASE e # d
    <3>1. e \in Drivers /\ c.target[e] # b.target[e]
      BY <1>1, <2>2 DEF Targeted, Link
    <3>2. c.target[e] = None /\ b.target[e] # None /\ c.param[e] = None /\ c.source = b.source
      BY <1>1, <2>2, <3>1 DEF Targeted
    <3>3. e \in Targets => b.source[e] = None
      BY <3>1, <3>2, Distinct DEF OneWay
    <3> QED BY <3>1, <3>2, <3>3 DEF Link
  <2> QED BY <2>1, <2>2
<1>4. (d \in Pins /\ v # None => k[d] = "BO") => OneWay(c, k)
  BY <1>1, Distinct DEF Targeted, OneWay
<1> QED BY <1>2, <1>3, <1>4

\* Unbinding what is bound to an input that no flexible logic uses.
LEMMA UnbindTargetsKeeps ==
  ASSUME NEW b, Good(b), NEW k, OneWay(b, k),
         NEW v \in Virtual, ~Locked(b, v),
         NEW c, c = UnbindTargets(b, v)
  PROVE  /\ Good(c) /\ OneWay(c, k) /\ Follows(b, c)
         /\ c.target = b.target
<1>1. /\ c = [source |-> c.source, targets |-> c.targets, target |-> b.target,
              driver |-> b.driver, param |-> c.param]
      /\ c.source = [t \in Targets |-> IF t \in b.targets[v] THEN None ELSE b.source[t]]
      /\ c.param = [e \in Elements |-> IF e \in b.targets[v] THEN None ELSE b.param[e]]
      /\ c.targets = [b.targets EXCEPT ![v] = {}]
  BY DEF UnbindTargets, Good, Bindings
<1>2. c \in Bindings
  BY <1>1 DEF Good, Bindings
<1>3. \A t \in Targets, i \in Inputs : t \in c.targets[i] <=> c.source[t] = i
  <2> SUFFICES ASSUME NEW t \in Targets, NEW i \in Inputs
               PROVE  t \in c.targets[i] <=> c.source[t] = i
    OBVIOUS
  <2>1. /\ t \in b.targets[i] <=> b.source[t] = i
        /\ t \in b.targets[v] <=> b.source[t] = v
    BY Distinct DEF Good, Agree
  <2>2. c.targets[i] = IF i = v THEN {} ELSE b.targets[i]
    BY <1>1 DEF Good, Bindings
  <2> QED BY <1>1, <2>1, <2>2, Distinct
<1>4. Good(c)
  BY <1>1, <1>2, <1>3 DEF Good, Agree
<1>5. OneWay(c, k)
  BY <1>1, Distinct DEF OneWay
<1>6. Follows(b, c)
  <2> SUFFICES ASSUME NEW e \in Elements
               PROVE  \/ c.param[e] = Link(c, e)
                      \/ Link(c, e) = Link(b, e) /\ c.param[e] = b.param[e]
    BY DEF Follows
  <2>1. CASE e \in b.targets[v]
    BY <1>1, <2>1, Distinct DEF Link, Locked, Good, Bindings
  <2>2. CASE e \notin b.targets[v]
    BY <1>1, <2>2, Distinct DEF Link
  <2> QED BY <2>1, <2>2
<1> QED BY <1>1, <1>4, <1>5, <1>6

\* Unbinding an output of an algorithm, as the form does it.
LEMMA UnbindOutputKeeps ==
  ASSUME NEW b, Good(b), NEW k, OneWay(b, k),
         NEW d \in AlgOuts, b.target[d] # None, ~Locked(b, b.target[d]),
         NEW c, c = SetTarget(UnbindTargets(b, b.target[d]), d, None)
  PROVE  Good(c) /\ OneWay(c, k) /\ Follows(b, c)
<1> DEFINE u == UnbindTargets(b, b.target[d])
<1>1. d \in Drivers /\ d \notin Targets /\ b.target[d] \in Virtual
  BY BindingsAssumption DEF Drivers, Targets, Good, Bindings
<1>2. Good(u) /\ OneWay(u, k) /\ Follows(b, u) /\ u.target = b.target
  BY <1>1, UnbindTargetsKeeps
<1> HIDE DEF u
<1>3. c = SetTarget(u, d, None)
  BY DEF u
<1>4. Targeted(u, c, d, None)
  BY <1>1, <1>2, <1>3, SetTargetFields
<1>5. Good(c) /\ OneWay(c, k)
  BY <1>1, <1>2, <1>3, SetTargetKeeps
<1>6. Follows(b, c)
  <2> SUFFICES ASSUME NEW e \in Elements
               PROVE  \/ c.param[e] = Link(c, e)
                      \/ Link(c, e) = Link(b, e) /\ c.param[e] = b.param[e]
    BY DEF Follows
  <2>0. u.target[d] # None
    BY <1>2
  <2>1. CASE e = d
    BY <1>1, <1>4, <2>0, <2>1 DEF Targeted, Link
  <2>2. CASE e # d
    <3>1. /\ c.source = u.source /\ c.param[e] = u.param[e]
          /\ e \in Drivers => c.target[e] = u.target[e]
      BY <1>4, <2>2 DEF Targeted
    <3>2. Link(c, e) = Link(u, e)
      BY <3>1 DEF Link
    <3>3. u.param[e] = Link(u, e) \/ (Link(u, e) = Link(b, e) /\ u.param[e] = b.param[e])
      BY <1>2 DEF Follows
    <3> QED BY <3>1, <3>2, <3>3
  <2> QED BY <2>1, <2>2
<1> QED BY <1>5, <1>6

\* Changing parameters alone.
LEMMA ParamsKeep ==
  ASSUME NEW b, Good(b), NEW k, OneWay(b, k),
         NEW f \in [Elements -> Inputs \union {None}],
         NEW c, c = [b EXCEPT !.param = f]
  PROVE  /\ Good(c) /\ OneWay(c, k) /\ Links(c) = Links(b)
         /\ c.param = f
<1>1. c = [source |-> b.source, targets |-> b.targets, target |-> b.target,
           driver |-> b.driver, param |-> f]
  BY DEF Good, Bindings
<1>2. Good(c)
  BY <1>1 DEF Good, Agree, Bindings
<1> QED BY <1>1, <1>2 DEF OneWay, Links, Link

\* Without any link.
LEMMA ClearedKeeps ==
  ASSUME NEW b, b \in Bindings, NEW c, c = Cleared(b)
  PROVE  /\ Good(c) /\ c.param = b.param
         /\ \A k : OneWay(c, k)
<1>1. c = [source |-> [t \in Targets |-> None], targets |-> [i \in Inputs |-> {}],
           target |-> [d \in Drivers |-> None], driver |-> [v \in Virtual |-> None],
           param |-> b.param]
  BY DEF Cleared, Bindings
<1>2. Good(c)
  BY <1>1, Distinct DEF Good, Agree, Bindings
<1> QED BY <1>1, <1>2, Distinct DEF OneWay

-----------------------------------------------------------------------------
(* The inductive invariant.  Its second half says which pins may be bound  *)
(* and how: without it a pin that was given away while it was still bound  *)
(* could get a source beside its target, and its parameter could not       *)
(* follow both.                                                            *)

OddThings == {"unpainted", "foreign", "exhausted", "removed"}

NodeType == [place: {"none", "file", "scene", "buffer"}, kind: Kinds,
             io: Pins \union {None}, pin: Pins \union {None}]

\* TypeOK without the count of edits.
CoreType ==
  /\ bind \in Bindings /\ table \in Tables
  /\ pin \in [Pins -> Kinds \union {"free"}]
  /\ node \in [Nodes -> NodeType]
  /\ graph \in Graphs
  /\ loading \subseteq (Elements \ Pins) \union Nodes
  /\ open \in BOOLEAN /\ old \in BOOLEAN /\ alive \in BOOLEAN
  /\ kept \in [Elements -> Inputs \union {None}] \union {None}
  /\ odd \subseteq OddThings

\* What a node holds is of its kind.
NodePins == \A n \in Nodes : node[n].io # None => pin[node[n].io] = node[n].kind

CoreInv == CoreType /\ Agree(bind) /\ OneWay(bind, pin) /\ NodePins

IInv == CoreInv /\ edits \in 0 .. MaxEdits

\* A step that changes no link, and parameters only where the code takes them
\* from elsewhere.
Replaced ==
  /\ loading = {} /\ ~open' /\ Links(bind') = Links(bind)
  /\ \A e \in Elements : bind'.param[e] = bind.param[e] \/ FromElsewhere(e)

\* Whether a step lets the parameters follow: what ParamFollowsLink says of it.
StepFollows ==
  alive /\ alive' /\ (loading = {} => loading' = {}) =>
    Follows(bind, bind') \/ Replaced

LEMMA IInvType == IInv => TypeOK /\ LinksAgree
BY DEF IInv, CoreInv, CoreType, TypeOK, NodeType, OddThings, Agree, LinksAgree

\* A node that goes or was not there holds nothing.
LEMMA NoNodeType == NoNode \in NodeType /\ NoNode.io = None
BY DEF NoNode, NodeType, Kinds

LEMMA LinkType ==
  ASSUME NEW b \in Bindings
  PROVE  Links(b) \in [Elements -> Inputs \union {None}]
BY Distinct DEF Links, Link, Bindings, Elements

LEMMA InitInv == Init => IInv
<1> SUFFICES ASSUME Init PROVE IInv
  OBVIOUS
<1>1. PICK params \in DeviceParams :
        /\ bind = [source |-> NoLinks.source, targets |-> NoLinks.targets,
                   target |-> NoLinks.target, driver |-> NoLinks.driver,
                   param |-> params]
        /\ table = TablesOf(params, TRUE)
  BY DEF Init
<1>2. params \in [Elements -> Inputs \union {None}]
  BY EditorAssumption
<1>3. bind \in Bindings
  BY <1>1, <1>2 DEF Bindings, NoLinks
<1>4. Agree(bind) /\ OneWay(bind, pin)
  BY <1>1, Distinct DEF Agree, OneWay, NoLinks
<1>5. table \in Tables
  BY <1>1, <1>2 DEF TablesOf, Tables
<1>6. node \in [Nodes -> NodeType] /\ NodePins
  BY NoNodeType DEF Init, NodePins
<1>7. graph \in Graphs /\ pin \in [Pins -> Kinds \union {"free"}]
  BY EditorAssumption DEF Init
<1>8. /\ open \in BOOLEAN /\ old \in BOOLEAN /\ alive \in BOOLEAN /\ loading = {}
      /\ kept = None /\ odd = {} /\ edits = 0
  BY DEF Init
<1> QED
  BY <1>3, <1>4, <1>5, <1>6, <1>7, <1>8, EditorAssumption
  DEF IInv, CoreInv, CoreType

-----------------------------------------------------------------------------
(* Loading.                                                                *)

\* After the program has died everything is unbound.
LEMMA DieKeeps ==
  ASSUME CoreInv, Die, odd' \subseteq OddThings
  PROVE  CoreInv' /\ StepFollows
<1>1. Good(bind') /\ OneWay(bind', pin')
  BY ClearedKeeps DEF Die, CoreInv, CoreType
<1>2. node' \in [Nodes -> NodeType] /\ NodePins'
  BY NoNodeType DEF Die, NodePins
<1>3. pin' \in [Pins -> Kinds \union {"free"}]
  BY DEF Die
<1> QED
  BY <1>1, <1>2, <1>3 DEF Die, CoreInv, CoreType, Good, StepFollows

LEMMA OpenProjectKeeps ==
  ASSUME CoreInv, OpenProject
  PROVE  CoreInv' /\ StepFollows
<1>1. OldParams \in Bindings
  <2> DEFINE f == [e \in Elements |-> IF e \in Outs \union AlgIns \union AlgOuts
                                      THEN table[e] ELSE bind.param[e]]
             Saved == {p \in Pins : \E n \in Nodes : graph[n] # None /\ graph[n].pin = p}
             g == [e \in Elements |-> IF e \notin Pins THEN f[e]
                                      ELSE IF e \in Saved THEN table[e] ELSE None]
  <2>1. /\ Outs \subseteq Elements \ Funcs /\ AlgIns \subseteq Elements \ Funcs
        /\ AlgOuts \subseteq Elements \ Funcs /\ Pins \subseteq Elements \ Funcs
    BY BindingsAssumption DEF Elements, Targets, Drivers
  <2>2. table \in [Elements \ Funcs -> Inputs \union {None}] /\ bind \in Bindings
    BY DEF CoreInv, CoreType, Tables
  <2>3. f \in [Elements -> Inputs \union {None}]
    BY <2>1, <2>2 DEF Bindings
  <2>4. g \in [Elements -> Inputs \union {None}]
    BY <2>1, <2>2, <2>3
  <2>5. TablesToParams(bind) = [bind EXCEPT !.param = f]
    BY <2>2 DEF TablesToParams, Bindings
  <2>6. OldParams = [[bind EXCEPT !.param = f] EXCEPT !.param = g]
    BY <2>2, <2>5 DEF OldParams, Bindings
  <2> QED BY <2>2, <2>3, <2>4, <2>6 DEF Bindings
<1>2. Good(bind') /\ OneWay(bind', pin')
  BY <1>1, ClearedKeeps DEF OpenProject, CoreInv, CoreType
<1>3. node' \in [Nodes -> NodeType] /\ NodePins'
  <2>1. ASSUME NEW n \in Nodes PROVE node'[n] \in NodeType /\ node'[n].io = None
    <3>1. CASE graph[n] = None
      BY <3>1, NoNodeType DEF OpenProject
    <3>2. CASE graph[n] # None
      <4>1. graph[n] \in Entries
        BY <3>2 DEF CoreInv, CoreType, Graphs
      <4> QED BY <3>2, <4>1 DEF OpenProject, NoNode, NodeType, Entries
    <3> QED BY <3>1, <3>2
  <2> QED BY <2>1 DEF OpenProject, NodePins
<1>4. pin' \in [Pins -> Kinds \union {"free"}]
  BY DEF OpenProject
<1>5. loading' \subseteq (Elements \ Pins) \union Nodes /\ loading = {} /\ loading' # {}
  BY Distinct, LoadAssumption DEF OpenProject
<1>6. kept' \in [Elements -> Inputs \union {None}] \union {None}
  BY LinkType DEF OpenProject, CoreInv, CoreType
<1> QED
  BY <1>2, <1>3, <1>4, <1>5, <1>6
  DEF OpenProject, CoreInv, CoreType, Good, StepFollows

\* What Loaded does to the state.
LEMMA LoadedType ==
  ASSUME CoreInv, NEW x, Loaded(x)
  PROVE  /\ x \in loading /\ loading # {}
         /\ loading' \subseteq (Elements \ Pins) \union Nodes
         /\ old' \in BOOLEAN /\ odd' \subseteq OddThings
         /\ kept' \in [Elements -> Inputs \union {None}] \union {None}
         /\ table' \in Tables /\ open' \in BOOLEAN
BY DEF Loaded, Turn, CoreInv, CoreType

LEMMA LoadElementKeeps ==
  ASSUME CoreInv, NEW e \in Elements \ Pins, LoadElement(e)
  PROVE  CoreInv' /\ StepFollows
<1>1. Good(bind) /\ OneWay(bind, pin)
  BY DEF CoreInv, CoreType, Good
<1>2. Good(bind') /\ OneWay(bind', pin) /\ Follows(bind, bind')
  <2>0. CASE bind' = bind
    BY <1>1, <2>0 DEF Follows
  <2>1. CASE /\ e \in Drivers /\ bind.param[e] \in Virtual
             /\ bind' = SetTarget(bind, e, bind.param[e])
    BY <1>1, <2>1, SetTargetKeeps
  <2>2. CASE /\ e \notin Drivers /\ bind.param[e] \in Inputs
             /\ bind' = SetSource(bind, e, bind.param[e])
    BY <1>1, <2>2, SetSourceKeeps DEF Elements
  <2> QED
    BY <2>0, <2>1, <2>2 DEF LoadElement, LoadFunction, LoadDriver, LoadTarget, Drivers
<1> QED
  BY <1>2, LoadedType
  DEF LoadElement, CoreInv, CoreType, Good, StepFollows, NodePins

\* A free pin that is given away was bound to nothing and held by no node.
LEMMA PinTaken ==
  ASSUME CoreInv, NEW p \in FreePins, NEW kind \in Kinds,
         pin' = [pin EXCEPT ![p] = kind]
  PROVE  /\ p \in Pins /\ pin' \in [Pins -> Kinds \union {"free"}] /\ pin'[p] = kind
         /\ OneWay(bind, pin')
         /\ \A n \in Nodes : node[n].io # None => /\ node[n].io \in Pins \ {p}
                                                  /\ pin'[node[n].io] = node[n].kind
<1>1. p \in Pins /\ pin[p] = "free" /\ pin \in [Pins -> Kinds \union {"free"}]
  BY DEF FreePins, CoreInv, CoreType
<1>2. OneWay(bind, pin')
  BY <1>1 DEF CoreInv, OneWay, Kinds
<1>3. ASSUME NEW n \in Nodes, node[n].io # None
      PROVE  node[n].io \in Pins \ {p} /\ pin'[node[n].io] = node[n].kind
  <2>1. node[n].io \in Pins /\ node[n].kind \in Kinds /\ pin[node[n].io] = node[n].kind
    BY <1>3 DEF CoreInv, CoreType, NodePins, NodeType
  <2>2. node[n].io # p
    BY <1>1, <2>1 DEF Kinds
  <2> QED BY <1>1, <2>1, <2>2
<1> QED BY <1>1, <1>2, <1>3

\* The file that is loaded next keeps its nodes' types, and they hold nothing new.
LEMMA FileLoadedType ==
  ASSUME CoreInv, NEW n \in Nodes, NEW p \in Pins, FileLoaded(n, p)
  PROVE  /\ node' \in [Nodes -> NodeType] /\ graph' \in Graphs
         /\ \A m \in Nodes : node'[m].io # None =>
              node'[m].io = node[m].io /\ node'[m].kind = node[m].kind
<1>1. CASE loading \cap Nodes # {n}
  <2>1. node' = [node EXCEPT ![n] = [node[n] EXCEPT !.pin = p]] /\ graph' = graph
    BY <1>1 DEF FileLoaded
  <2>2. [node[n] EXCEPT !.pin = p] \in NodeType
    BY DEF CoreInv, CoreType, NodeType
  <2> QED BY <2>1, <2>2 DEF CoreInv, CoreType, NodeType
<1>2. CASE loading \cap Nodes = {n}
  <2>1. /\ graph' = [m \in Nodes |->
                       IF node[m].place = "none" THEN None
                       ELSE [kind |-> node[m].kind,
                             pin |-> IF m = n THEN p ELSE node[m].pin]]
        /\ node' = [m \in Nodes |-> NoNode]
    BY <1>2 DEF FileLoaded
  <2>2. \A m \in Nodes : node[m].kind \in Kinds /\ node[m].pin \in Pins \union {None}
    BY DEF CoreInv, CoreType, NodeType
  <2> QED BY <2>1, <2>2, NoNodeType DEF Graphs, Entries
<1> QED BY <1>1, <1>2

LEMMA LoadNodeKeeps ==
  ASSUME CoreInv, NEW n \in Nodes, LoadNode(n)
  PROVE  CoreInv' /\ StepFollows
<1>1. PICK p \in IF node[n].pin # None THEN {node[n].pin} ELSE FreePins :
        IF p \in FreePins
        THEN /\ pin' = [pin EXCEPT ![p] = node[n].kind]
             /\ bind' = IF node[n].kind = "BI" THEN LoadTarget(bind, p)
                        ELSE LoadDriver(bind, p)
             /\ Loaded(n) /\ FileLoaded(n, p) /\ UNCHANGED alive
        ELSE /\ bind.param[p] \notin Inputs
             /\ Loaded(n) /\ FileLoaded(n, p) /\ UNCHANGED <<bind, pin, alive>>
  BY DEF LoadNode
<1>2. node[n].kind \in Kinds /\ node[n].pin \in Pins \union {None}
  BY DEF CoreInv, CoreType, NodeType
<1>3. p \in Pins
  BY <1>2 DEF FreePins
<1>4. Loaded(n) /\ FileLoaded(n, p) /\ alive' = alive
  BY <1>1
<1>5. Good(bind) /\ OneWay(bind, pin) /\ NodePins
  BY DEF CoreInv, CoreType, Good
<1>6. /\ pin' \in [Pins -> Kinds \union {"free"}]
      /\ Good(bind') /\ OneWay(bind', pin') /\ Follows(bind, bind')
      /\ \A m \in Nodes : node[m].io # None => pin'[node[m].io] = node[m].kind
  <2>1. CASE p \notin FreePins
    BY <1>1, <1>5, <2>1 DEF CoreInv, CoreType, Follows, NodePins
  <2>2. CASE p \in FreePins
    <3>1. /\ pin' = [pin EXCEPT ![p] = node[n].kind]
          /\ bind' = IF node[n].kind = "BI" THEN LoadTarget(bind, p)
                     ELSE LoadDriver(bind, p)
      BY <1>1, <2>2
    <3>2. /\ pin' \in [Pins -> Kinds \union {"free"}] /\ pin'[p] = node[n].kind
          /\ OneWay(bind, pin')
          /\ \A m \in Nodes : node[m].io # None => pin'[node[m].io] = node[m].kind
      BY <1>2, <2>2, <3>1, PinTaken
    <3>3. CASE bind' = bind
      BY <1>5, <3>2, <3>3 DEF Follows
    <3>4. CASE /\ node[n].kind = "BI" /\ bind.param[p] \in Inputs
               /\ bind' = SetSource(bind, p, bind.param[p])
      BY <1>3, <1>5, <3>2, <3>4, SetSourceKeeps, Distinct
    <3>5. CASE /\ node[n].kind = "BO" /\ bind.param[p] \in Virtual
               /\ bind' = SetTarget(bind, p, bind.param[p])
      BY <1>3, <1>5, <3>2, <3>5, SetTargetKeeps, Distinct
    <3> QED BY <1>2, <3>1, <3>2, <3>3, <3>4, <3>5 DEF LoadTarget, LoadDriver, Kinds
  <2> QED BY <2>1, <2>2
<1>7. /\ node' \in [Nodes -> NodeType] /\ graph' \in Graphs
      /\ \A m \in Nodes : node'[m].io # None =>
           node'[m].io = node[m].io /\ node'[m].kind = node[m].kind
  BY <1>3, <1>4, FileLoadedType
<1>8. NodePins'
  BY <1>6, <1>7 DEF NodePins
<1> QED
  BY <1>4, <1>6, <1>7, <1>8, LoadedType DEF CoreInv, CoreType, Good, StepFollows

LEMMA LoadNodeDiesKeeps ==
  ASSUME CoreInv, NEW n \in Nodes, LoadNodeDies(n)
  PROVE  CoreInv' /\ StepFollows
<1>1. odd' \subseteq OddThings
  BY DEF LoadNodeDies, Odd, OddThings, CoreInv, CoreType
<1>2. Die
  BY DEF LoadNodeDies
<1> QED BY <1>1, <1>2, DieKeeps

-----------------------------------------------------------------------------
(* The editor.                                                             *)

\* What an action of the editor leaves alone.
LEMMA StoreType ==
  ASSUME CoreInv, UnchangedStore
  PROVE  /\ table' \in Tables /\ graph' \in Graphs /\ open' \in BOOLEAN
         /\ loading' \subseteq (Elements \ Pins) \union Nodes /\ old' \in BOOLEAN
         /\ kept' \in [Elements -> Inputs \union {None}] \union {None}
BY DEF UnchangedStore, CoreInv, CoreType

LEMMA OpenEditorKeeps ==
  ASSUME CoreInv, OpenEditor
  PROVE  CoreInv' /\ StepFollows
<1>1. ASSUME NEW n \in Nodes
      PROVE  /\ node'[n] \in NodeType
             /\ node'[n].io # None => pin[node'[n].io] = node'[n].kind
  <2>1. CASE graph[n] = None
    BY <2>1, NoNodeType DEF OpenEditor
  <2>2. CASE graph[n] # None
    <3>1. graph[n].kind \in Kinds /\ graph[n].pin \in Pins \union {None}
      BY <2>2 DEF CoreInv, CoreType, Graphs, Entries
    <3>2. node'[n] = [place |-> "scene", kind |-> graph[n].kind,
                      io |-> ServiceAt(graph[n].pin, graph[n].kind),
                      pin |-> graph[n].pin]
      BY <2>2 DEF OpenEditor
    <3> QED BY <3>1, <3>2 DEF ServiceAt, NodeType
  <2> QED BY <2>1, <2>2
<1>2. node' \in [Nodes -> NodeType] /\ NodePins'
  BY <1>1 DEF OpenEditor, NodePins
<1> QED
  BY <1>2 DEF OpenEditor, CoreInv, CoreType, OneWay, StepFollows, Follows

\* A node that is given a free pin leaves the others theirs.
LEMMA NewNode ==
  ASSUME CoreInv, NEW m \in Nodes, NEW x \in NodeType, x.io \in FreePins,
         pin' = [pin EXCEPT ![x.io] = x.kind],
         node' = [node EXCEPT ![m] = x]
  PROVE  /\ node' \in [Nodes -> NodeType] /\ NodePins'
         /\ pin' \in [Pins -> Kinds \union {"free"}] /\ OneWay(bind, pin')
<1>0. x.kind \in Kinds
  BY DEF NodeType
<1>1. /\ pin' \in [Pins -> Kinds \union {"free"}] /\ pin'[x.io] = x.kind
      /\ OneWay(bind, pin')
      /\ \A n \in Nodes : node[n].io # None => pin'[node[n].io] = node[n].kind
  BY <1>0, PinTaken
<1>2. node \in [Nodes -> NodeType]
  BY DEF CoreInv, CoreType
<1>3. node' \in [Nodes -> NodeType]
  BY <1>2
<1>4. ASSUME NEW n \in Nodes, node'[n].io # None
      PROVE  pin'[node'[n].io] = node'[n].kind
  BY <1>1, <1>2, <1>4
<1> QED BY <1>1, <1>3, <1>4 DEF NodePins

LEMMA AddNodeKeeps ==
  ASSUME CoreInv, NEW m \in Nodes, AddNode(m)
  PROVE  CoreInv' /\ StepFollows
<1>1. CASE FreePins = {} /\ Odd("exhausted") /\ Die
  BY <1>1, DieKeeps DEF Odd, OddThings
<1>2. CASE \E kind \in Kinds, p \in FreePins :
             /\ pin' = [pin EXCEPT ![p] = kind]
             /\ node' = [node EXCEPT ![m] = [place |-> "scene", kind |-> kind,
                                             io |-> p, pin |-> p]]
             /\ UnchangedStore /\ UNCHANGED <<bind, alive, odd>>
  <2>1. PICK kind \in Kinds, p \in FreePins :
          /\ pin' = [pin EXCEPT ![p] = kind]
          /\ node' = [node EXCEPT ![m] = [place |-> "scene", kind |-> kind,
                                          io |-> p, pin |-> p]]
          /\ UnchangedStore /\ UNCHANGED <<bind, alive, odd>>
    BY <1>2
  <2> DEFINE x == [place |-> "scene", kind |-> kind, io |-> p, pin |-> p]
  <2>2. x \in NodeType /\ x.io \in FreePins
    BY DEF NodeType, FreePins
  <2>3. node' = [node EXCEPT ![m] = x] /\ pin' = [pin EXCEPT ![x.io] = x.kind]
    BY <2>1
  <2> HIDE DEF x
  <2>4. /\ node' \in [Nodes -> NodeType] /\ NodePins'
        /\ pin' \in [Pins -> Kinds \union {"free"}] /\ OneWay(bind, pin')
    BY <2>2, <2>3, NewNode
  <2> QED
    BY <2>1, <2>4, StoreType DEF CoreInv, CoreType, StepFollows, Follows
<1> QED BY <1>1, <1>2 DEF AddNode

LEMMA CopyNodeKeeps ==
  ASSUME CoreInv, NEW n \in Nodes, NEW m \in Nodes, CopyNode(n, m)
  PROVE  CoreInv' /\ StepFollows
<1> DEFINE copy(p) == [node[n] EXCEPT !.place = "buffer", !.io = p]
<1>1. /\ node[n] \in NodeType /\ node[n].kind \in Kinds
      /\ \A p \in Pins \union {None} : /\ copy(p) \in NodeType /\ copy(p).io = p
                                       /\ copy(p).kind = node[n].kind
  BY DEF CoreInv, CoreType, NodeType
<1>2. UnchangedStore /\ UNCHANGED <<bind, alive>>
  BY DEF CopyNode
<1>3. CASE /\ FreePins = {} /\ Odd("exhausted")
           /\ node' = [node EXCEPT ![m] = copy(None)]
           /\ UNCHANGED pin
  <2>1. node' \in [Nodes -> NodeType]
    BY <1>1, <1>3 DEF CoreInv, CoreType
  <2>2. NodePins'
    BY <1>1, <1>3 DEF CoreInv, CoreType, NodePins
  <2>3. odd' \subseteq OddThings
    BY <1>3 DEF Odd, OddThings
  <2> QED
    BY <1>2, <1>3, <2>1, <2>2, <2>3, StoreType
    DEF CoreInv, CoreType, StepFollows, Follows
<1>4. CASE \E p \in FreePins :
             /\ pin' = [pin EXCEPT ![p] = node[n].kind]
             /\ node' = [node EXCEPT ![m] = copy(p)]
             /\ UNCHANGED odd
  <2>1. PICK p \in FreePins : /\ pin' = [pin EXCEPT ![p] = node[n].kind]
                              /\ node' = [node EXCEPT ![m] = copy(p)]
                              /\ UNCHANGED odd
    BY <1>4
  <2>2. /\ copy(p) \in NodeType /\ copy(p).io \in FreePins
        /\ pin' = [pin EXCEPT ![copy(p).io] = copy(p).kind]
    BY <1>1, <2>1 DEF FreePins
  <2> HIDE DEF copy
  <2>3. /\ node' \in [Nodes -> NodeType] /\ NodePins'
        /\ pin' \in [Pins -> Kinds \union {"free"}] /\ OneWay(bind, pin')
    BY <2>1, <2>2, NewNode
  <2> QED
    BY <1>2, <2>1, <2>3, StoreType DEF CoreInv, CoreType, StepFollows, Follows
<1> QED BY <1>3, <1>4 DEF CopyNode

LEMMA PasteKeeps ==
  ASSUME CoreInv, Paste
  PROVE  CoreInv' /\ StepFollows
<1>1. \A n \in Nodes : [node[n] EXCEPT !.place = "scene"] \in NodeType
  BY DEF CoreInv, CoreType, NodeType
<1>2. node' \in [Nodes -> NodeType]
  BY <1>1 DEF Paste, CoreInv, CoreType
<1>3. NodePins'
  BY DEF Paste, CoreInv, CoreType, NodePins, NodeType
<1> QED
  BY <1>2, <1>3, StoreType DEF Paste, CoreInv, CoreType, StepFollows, Follows

LEMMA PaintKeeps ==
  ASSUME CoreInv, NEW n \in Nodes, Paint(n)
  PROVE  CoreInv' /\ StepFollows
<1>1. odd' \subseteq OddThings
  BY DEF Paint, CoreInv, CoreType
<1>2. CASE node[n].io = None /\ Die
  BY <1>1, <1>2, DieKeeps
<1>3. CASE /\ node[n].io \notin {None, node[n].pin}
           /\ node' = [node EXCEPT ![n].pin = node[n].io]
           /\ UnchangedStore /\ UNCHANGED <<bind, pin, alive>>
  <2>1. node' = [node EXCEPT ![n] = [node[n] EXCEPT !.pin = node[n].io]]
    BY <1>3
  <2>2. [node[n] EXCEPT !.pin = node[n].io] \in NodeType
    BY DEF CoreInv, CoreType, NodeType
  <2>3. node' \in [Nodes -> NodeType]
    BY <2>1, <2>2 DEF CoreInv, CoreType
  <2>4. NodePins'
    BY <1>3, <2>1 DEF CoreInv, CoreType, NodePins, NodeType
  <2> QED
    BY <1>1, <1>3, <2>3, <2>4, StoreType DEF CoreInv, CoreType, StepFollows, Follows
<1> QED BY <1>2, <1>3 DEF Paint

LEMMA BindNodeKeeps ==
  ASSUME CoreInv, NEW n \in Nodes, BindNode(n)
  PROVE  CoreInv' /\ StepFollows
<1>1. /\ node[n].io \in Pins /\ node[n].kind \in Kinds
      /\ pin[node[n].io] = node[n].kind
  BY DEF BindNode, Seen, CoreInv, CoreType, NodePins, NodeType
<1>2. Good(bind) /\ OneWay(bind, pin)
  BY DEF CoreInv, CoreType, Good
<1>3. Good(bind') /\ OneWay(bind', pin) /\ Follows(bind, bind')
  <2>1. CASE node[n].kind = "BI"
    <3>1. PICK i \in InputChoices : bind' = SetSource(bind, node[n].io, i)
      BY <2>1 DEF BindNode
    <3>2. i \in Inputs
      BY DEF InputChoices, Busy, Inputs
    <3> QED BY <1>1, <1>2, <2>1, <3>1, <3>2, SetSourceKeeps, Distinct
  <2>2. CASE node[n].kind = "BO"
    <3>1. PICK v \in OutputChoices : bind' = SetTarget(bind, node[n].io, v)
      BY <2>2 DEF BindNode
    <3>2. v \in Virtual
      BY DEF OutputChoices
    <3> QED BY <1>1, <1>2, <2>2, <3>1, <3>2, SetTargetKeeps, Distinct
  <2> QED BY <1>1, <2>1, <2>2 DEF Kinds
<1> QED
  BY <1>3, StoreType DEF BindNode, CoreInv, CoreType, Good, StepFollows, NodePins

\* A node unbound, and what it held not bound at all afterwards.
LEMMA UnboundKeeps ==
  ASSUME CoreInv, NEW n \in Nodes, node[n].io # None,
         NEW c, c = Unbound(bind, n)
  PROVE  /\ Good(c) /\ OneWay(c, pin) /\ Follows(bind, c)
         /\ c.source[node[n].io] = None /\ c.target[node[n].io] = None
<1>1. /\ node[n].io \in Pins /\ node[n].kind \in Kinds
      /\ pin[node[n].io] = node[n].kind
  BY DEF CoreInv, CoreType, NodePins, NodeType
<1>2. Good(bind) /\ OneWay(bind, pin) /\ node[n].io \in Targets /\ node[n].io \in Drivers
  BY <1>1, Distinct DEF CoreInv, CoreType, Good
<1>3. CASE node[n].kind = "BI"
  <2>1. c = SetSource(bind, node[n].io, None)
    BY <1>3 DEF Unbound
  <2>2. Sourced(bind, c, node[n].io, None)
    BY <1>2, <2>1, SetSourceFields
  <2>3. Good(c) /\ OneWay(c, pin) /\ Follows(bind, c)
    BY <1>2, <2>1, SetSourceKeeps
  <2> QED BY <1>1, <1>3, <2>2, <2>3 DEF Sourced, OneWay
<1>4. CASE node[n].kind = "BO"
  <2>1. c = SetTarget(bind, node[n].io, None)
    BY <1>4 DEF Unbound
  <2>2. Targeted(bind, c, node[n].io, None)
    BY <1>2, <2>1, SetTargetFields
  <2>3. Good(c) /\ OneWay(c, pin) /\ Follows(bind, c)
    BY <1>2, <2>1, SetTargetKeeps
  <2> QED BY <1>1, <1>4, <2>2, <2>3 DEF Targeted, OneWay
<1> QED BY <1>1, <1>3, <1>4 DEF Kinds

LEMMA RemoveLinkKeeps ==
  ASSUME CoreInv, NEW n \in Nodes, RemoveLink(n)
  PROVE  CoreInv' /\ StepFollows
<1>1. Good(bind') /\ OneWay(bind', pin) /\ Follows(bind, bind')
  BY UnboundKeeps DEF RemoveLink, Seen
<1> QED
  BY <1>1, StoreType DEF RemoveLink, CoreInv, CoreType, Good, StepFollows, NodePins

LEMMA RemoveNodeKeeps ==
  ASSUME CoreInv, NEW n \in Nodes, RemoveNode(n)
  PROVE  CoreInv' /\ StepFollows
<1>1. odd' \subseteq OddThings
  BY DEF RemoveNode, CoreInv, CoreType
<1>2. CASE Shared(n) /\ Die
  BY <1>1, <1>2, DieKeeps
<1>3. CASE /\ ~Shared(n)
           /\ IF node[n].io = None THEN UNCHANGED <<bind, pin>>
              ELSE /\ bind' = Unbound(bind, n)
                   /\ pin' = [pin EXCEPT ![node[n].io] = "free"]
           /\ node' = [node EXCEPT ![n] = NoNode]
           /\ UnchangedStore /\ UNCHANGED alive
  <2>1. node' \in [Nodes -> NodeType]
    BY <1>3, NoNodeType DEF CoreInv, CoreType
  <2>2. CASE node[n].io = None
    <3>1. NodePins'
      BY <1>3, <2>2, NoNodeType DEF CoreInv, CoreType, NodePins
    <3> QED
      BY <1>1, <1>3, <2>1, <2>2, <3>1, StoreType
      DEF CoreInv, CoreType, StepFollows, Follows
  <2>3. CASE node[n].io # None
    <3>1. /\ bind' = Unbound(bind, n) /\ pin' = [pin EXCEPT ![node[n].io] = "free"]
      BY <1>3, <2>3
    <3>2. /\ Good(bind') /\ OneWay(bind', pin) /\ Follows(bind, bind')
          /\ bind'.source[node[n].io] = None /\ bind'.target[node[n].io] = None
      BY <2>3, <3>1, UnboundKeeps
    <3>3. /\ node[n].io \in Pins
          /\ \A m \in Nodes : node[m].io \in Pins \union {None}
      BY <2>3 DEF CoreInv, CoreType, NodeType
    <3>4. pin' \in [Pins -> Kinds \union {"free"}] /\ OneWay(bind', pin')
      BY <3>1, <3>2, <3>3 DEF CoreInv, CoreType, OneWay
    <3>5. NodePins'
      <4> SUFFICES ASSUME NEW m \in Nodes, node'[m].io # None
                   PROVE  pin'[node'[m].io] = node'[m].kind
        BY DEF NodePins
      <4>1. m # n /\ node'[m] = node[m]
        BY <1>3, NoNodeType DEF CoreInv, CoreType
      <4>2. node[m].io # node[n].io
        BY <1>3, <2>3, <4>1 DEF Shared
      <4> QED BY <3>1, <3>3, <4>1, <4>2 DEF CoreInv, CoreType, NodePins
    <3> QED
      BY <1>1, <1>3, <2>1, <3>2, <3>4, <3>5, StoreType
      DEF CoreInv, CoreType, Good, StepFollows
  <2> QED BY <2>2, <2>3
<1> QED BY <1>2, <1>3 DEF RemoveNode

\* The parameters of pins are taken from the table or set to none.
LEMMA PinParams ==
  ASSUME CoreInv, NEW compiled \in BOOLEAN
  PROVE  \E f \in [Elements -> Inputs \union {None}] :
           /\ PinsFromTable(bind, compiled) = [bind EXCEPT !.param = f]
           /\ \A e \in Elements : \/ f[e] = bind.param[e]
                                  \/ e \in Pins /\ f[e] = None
                                  \/ e \in Pins /\ compiled /\ f[e] = table[e]
<1> DEFINE f == [e \in Elements |-> IF e \notin Pins THEN bind.param[e]
                                    ELSE IF compiled THEN table[e] ELSE None]
<1>1. Pins \subseteq Elements \ Funcs
  BY BindingsAssumption DEF Elements, Targets, Drivers
<1>2. table \in [Elements \ Funcs -> Inputs \union {None}] /\ bind \in Bindings
  BY DEF CoreInv, CoreType, Tables
<1>3. f \in [Elements -> Inputs \union {None}]
  BY <1>1, <1>2 DEF Bindings
<1>4. PinsFromTable(bind, compiled) = [bind EXCEPT !.param = f]
  BY <1>2 DEF PinsFromTable, Bindings
<1>5. ASSUME NEW e \in Elements
      PROVE  \/ f[e] = bind.param[e]
             \/ e \in Pins /\ f[e] = None
             \/ e \in Pins /\ compiled /\ f[e] = table[e]
  <2>1. f[e] = IF e \notin Pins THEN bind.param[e] ELSE IF compiled THEN table[e] ELSE None
    OBVIOUS
  <2> HIDE DEF f
  <2>2. CASE compiled
    BY <2>1, <2>2
  <2>3. CASE ~compiled
    BY <2>1, <2>3
  <2> QED BY <2>2, <2>3
<1> HIDE DEF f
<1> QED BY <1>3, <1>4, <1>5

\* Those of the other elements, but for functions, from the table.
LEMMA TableParams ==
  ASSUME CoreInv
  PROVE  \E g \in [Elements -> Inputs \union {None}] :
           /\ TablesToParams(bind) = [bind EXCEPT !.param = g]
           /\ \A e \in Elements : \/ g[e] = bind.param[e]
                                  \/ e \notin Funcs /\ g[e] = table[e]
<1> DEFINE g == [e \in Elements |-> IF e \in Outs \union AlgIns \union AlgOuts
                                    THEN table[e] ELSE bind.param[e]]
<1>1. Outs \union AlgIns \union AlgOuts \subseteq Elements \ Funcs
  BY BindingsAssumption DEF Elements, Targets, Drivers
<1>2. table \in [Elements \ Funcs -> Inputs \union {None}] /\ bind \in Bindings
  BY DEF CoreInv, CoreType, Tables
<1>3. g \in [Elements -> Inputs \union {None}]
  BY <1>1, <1>2 DEF Bindings
<1>4. TablesToParams(bind) = [bind EXCEPT !.param = g]
  BY <1>2 DEF TablesToParams, Bindings
<1>5. \A e \in Elements : g[e] = bind.param[e] \/ (e \notin Funcs /\ g[e] = table[e])
  BY <1>1
<1> HIDE DEF g
<1> QED BY <1>3, <1>4, <1>5

LEMMA CloseEditorKeeps ==
  ASSUME CoreInv, CloseEditor
  PROVE  CoreInv' /\ StepFollows
<1>1. PICK compiled \in BOOLEAN : bind' = PinsFromTable(bind, compiled)
  BY DEF CloseEditor
<1>2. PICK f \in [Elements -> Inputs \union {None}] :
        /\ bind' = [bind EXCEPT !.param = f]
        /\ \A e \in Elements : \/ f[e] = bind.param[e]
                               \/ e \in Pins /\ f[e] = None
                               \/ e \in Pins /\ compiled /\ f[e] = table[e]
  BY <1>1, PinParams
<1>3. Good(bind') /\ OneWay(bind', pin) /\ Links(bind') = Links(bind) /\ bind'.param = f
  BY <1>2, ParamsKeep DEF CoreInv, CoreType, Good
<1>7. Replaced
  BY <1>2, <1>3, BindingsAssumption DEF CloseEditor, Editing, Idle, Replaced, FromElsewhere
<1>4. graph' \in Graphs
  BY DEF CloseEditor, CoreInv, CoreType, NodeType, Graphs, Entries
<1>5. node' \in [Nodes -> NodeType] /\ NodePins'
  BY NoNodeType DEF CloseEditor, NodePins
<1>6. odd' \subseteq OddThings
  BY DEF CloseEditor, Odd, OddThings, CoreInv, CoreType
<1> QED
  BY <1>3, <1>4, <1>5, <1>6, <1>7
  DEF CloseEditor, CoreInv, CoreType, Good, StepFollows

LEMMA RemoveAlgorithmKeeps ==
  ASSUME CoreInv, RemoveAlgorithm
  PROVE  CoreInv' /\ StepFollows
<1>1. bind' = PinsFromTable(bind, FALSE)
  BY DEF RemoveAlgorithm
<1>2. PICK f \in [Elements -> Inputs \union {None}] :
        /\ bind' = [bind EXCEPT !.param = f]
        /\ \A e \in Elements : \/ f[e] = bind.param[e]
                               \/ e \in Pins /\ f[e] = None
                               \/ e \in Pins /\ FALSE /\ f[e] = table[e]
  BY <1>1, PinParams
<1>3. Good(bind') /\ OneWay(bind', pin) /\ Links(bind') = Links(bind) /\ bind'.param = f
  BY <1>2, ParamsKeep DEF CoreInv, CoreType, Good
<1>6. Replaced
  BY <1>2, <1>3 DEF RemoveAlgorithm, Forms, Idle, Replaced, FromElsewhere
<1>4. graph' \in Graphs /\ table' \in Tables
  BY DEF RemoveAlgorithm, CoreInv, CoreType, Graphs, Tables
<1>5. odd' \subseteq OddThings
  BY DEF RemoveAlgorithm, Odd, OddThings
<1> QED
  BY <1>3, <1>4, <1>5, <1>6
  DEF RemoveAlgorithm, CoreInv, CoreType, Good, StepFollows, NodePins

-----------------------------------------------------------------------------
(* The forms, and the operations on the device.                            *)

LEMMA EditFormsKeeps ==
  ASSUME CoreInv, EditForms
  PROVE  CoreInv' /\ StepFollows
<1>1. Good(bind) /\ OneWay(bind, pin) /\ table \in Tables
  BY DEF CoreInv, CoreType, Good
<1>2. Outs \union AlgIns \subseteq Targets \ Pins /\ AlgOuts \subseteq Drivers \ Pins
  BY BindingsAssumption DEF Targets, Drivers
<1> DEFINE Kept == /\ Good(bind') /\ OneWay(bind', pin) /\ table' \in Tables
                   /\ Follows(bind, bind') \/ Replaced
<1>0. loading = {} /\ ~open'
  BY DEF EditForms, Forms, Idle
<1>3. ASSUME NEW t \in Outs \union AlgIns, BindInput(t) PROVE Kept
  <2>1. PICK i \in InputChoices : bind' = SetSource(bind, t, i)
    BY <1>3 DEF BindInput
  <2>2. i \in Inputs
    BY DEF InputChoices, Busy, Inputs
  <2> QED BY <1>1, <1>2, <1>3, <2>1, <2>2, SetSourceKeeps DEF BindInput
<1>4. ASSUME NEW t \in Outs \union AlgIns, UnbindInput(t) PROVE Kept
  BY <1>1, <1>2, <1>4, SetSourceKeeps DEF UnbindInput
<1>5. ASSUME NEW d \in AlgOuts, BindOutput(d) PROVE Kept
  <2>1. PICK v \in OutputChoices : bind' = SetTarget(bind, d, v)
    BY <1>5 DEF BindOutput
  <2>2. v \in Virtual
    BY DEF OutputChoices
  <2> QED BY <1>1, <1>2, <1>5, <2>1, <2>2, SetTargetKeeps DEF BindOutput
<1>6. ASSUME NEW d \in AlgOuts, UnbindOutput(d) PROVE Kept
  BY <1>1, <1>6, UnbindOutputKeeps DEF UnbindOutput
<1>7. ASSUME NEW f \in Funcs, EditFunction(f) PROVE Kept
  <2>1. PICK v \in Virtual \cap FunctionChoices : bind' = [bind EXCEPT !.param[f] = v]
    BY <1>7 DEF EditFunction
  <2> DEFINE g == [bind.param EXCEPT ![f] = v]
  <2>2. g \in [Elements -> Inputs \union {None}]
    BY <1>1, Distinct DEF Good, Bindings
  <2>3. bind' = [bind EXCEPT !.param = g]
    BY <1>1, <2>1 DEF Good, Bindings
  <2>4. ASSUME NEW e \in Elements
        PROVE  g[e] = bind.param[e] \/ (e \in Funcs /\ g[e] \in FunctionChoices)
    <3>1. e = f => g[e] = v
      BY <1>1 DEF Good, Bindings
    <3>2. e # f => g[e] = bind.param[e]
      BY <1>1 DEF Good, Bindings
    <3> QED BY <2>1, <3>1, <3>2
  <2> HIDE DEF g
  <2>5. /\ Good(bind') /\ OneWay(bind', pin) /\ Links(bind') = Links(bind)
        /\ bind'.param = g
    BY <1>1, <2>2, <2>3, ParamsKeep
  <2>6. Replaced
    BY <1>0, <2>4, <2>5 DEF Replaced, FromElsewhere
  <2> QED BY <1>1, <1>7, <2>5, <2>6 DEF EditFunction
<1>8. ASSUME CompileTables PROVE Kept
  <2>1. PICK g \in [Elements -> Inputs \union {None}] :
          /\ bind' = [bind EXCEPT !.param = g]
          /\ \A e \in Elements : g[e] = bind.param[e] \/ (e \notin Funcs /\ g[e] = table[e])
    BY <1>8, TableParams DEF CompileTables
  <2>2. /\ Good(bind') /\ OneWay(bind', pin) /\ Links(bind') = Links(bind)
        /\ bind'.param = g
    BY <1>1, <2>1, ParamsKeep
  <2>3. Replaced
    BY <1>0, <2>1, <2>2 DEF Replaced, FromElsewhere
  <2> QED BY <1>1, <1>8, <2>2, <2>3 DEF CompileTables
<1>9. Kept
  BY <1>3, <1>4, <1>5, <1>6, <1>7, <1>8 DEF EditForms
<1> QED
  BY <1>9 DEF EditForms, CoreInv, CoreType, Good, StepFollows, NodePins

LEMMA ReadConfigKeeps ==
  ASSUME CoreInv, ReadConfig
  PROVE  CoreInv' /\ StepFollows
<1>1. PICK params \in DeviceParams, archived \in BOOLEAN :
        /\ bind' = [bind EXCEPT !.param = params]
        /\ table' = TablesOf(params, archived)
  BY DEF ReadConfig
<1>2. params \in [Elements -> Inputs \union {None}]
  BY EditorAssumption
<1>3. /\ Good(bind') /\ OneWay(bind', pin) /\ Links(bind') = Links(bind)
      /\ bind'.param = params
  BY <1>1, <1>2, ParamsKeep DEF CoreInv, CoreType, Good
<1>6. Replaced
  BY <1>1, <1>3 DEF ReadConfig, Forms, Idle, Odd, Replaced, FromElsewhere
<1>4. table' \in Tables
  BY <1>1, <1>2 DEF TablesOf, Tables
<1>5. graph' \in Graphs /\ odd' \subseteq OddThings
  BY EditorAssumption DEF ReadConfig, Odd, OddThings
<1> QED
  BY <1>3, <1>4, <1>5, <1>6 DEF ReadConfig, CoreInv, CoreType, Good, StepFollows, NodePins

-----------------------------------------------------------------------------
(* The theorems.                                                           *)

LEMMA StutterKeeps ==
  ASSUME IInv, UNCHANGED vars
  PROVE  IInv' /\ StepFollows
BY DEF vars, IInv, CoreInv, CoreType, OneWay, NodePins, StepFollows, Follows

LEMMA NextKeeps ==
  ASSUME IInv, [Next]_vars
  PROVE  IInv' /\ StepFollows
<1>1. CASE UNCHANGED vars
  BY <1>1, StutterKeeps
<1>2. CASE Next
  <2>0. CoreInv
    BY DEF IInv
  <2>1. CoreInv' /\ StepFollows
    <3>1. CASE OpenProject
      BY <2>0, <3>1, OpenProjectKeeps
    <3>2. CASE CloseEditor
      BY <2>0, <3>2, CloseEditorKeeps
    <3>3. CASE \E e \in Elements \ Pins : LoadElement(e)
      BY <2>0, <3>3, LoadElementKeeps
    <3>4. CASE \E n \in Nodes : LoadNode(n) \/ LoadNodeDies(n) \/ Paint(n)
      BY <2>0, <3>4, LoadNodeKeeps, LoadNodeDiesKeeps, PaintKeeps
    <3>5. CASE EditForms \/ ReadConfig
      BY <2>0, <3>5, EditFormsKeeps, ReadConfigKeeps
    <3>6. CASE OpenEditor \/ Paste \/ RemoveAlgorithm
      BY <2>0, <3>6, OpenEditorKeeps, PasteKeeps, RemoveAlgorithmKeeps
    <3>7. CASE \E n \in Nodes : AddNode(n) \/ BindNode(n) \/ RemoveLink(n) \/ RemoveNode(n)
      BY <2>0, <3>7, AddNodeKeeps, BindNodeKeeps, RemoveLinkKeeps, RemoveNodeKeeps
    <3>8. CASE \E n, m \in Nodes : CopyNode(n, m)
      BY <2>0, <3>8, CopyNodeKeeps
    <3> QED
      BY <1>2, <3>1, <3>2, <3>3, <3>4, <3>5, <3>6, <3>7, <3>8 DEF Next, Edit
  <2>2. edits' \in 0 .. MaxEdits
    BY <1>2, EditorAssumption DEF IInv, Next
  <2> QED BY <2>1, <2>2 DEF IInv
<1> QED BY <1>1, <1>2

\* Whatever the editor, the forms, the device and the loading of projects do,
\* every variable keeps its type; a virtual input is never driven by a signal of
\* another kind.
THEOREM TypeCorrect == Spec => []TypeOK
<1>1. Init => IInv
  BY InitInv
<1>2. IInv /\ [Next]_vars => IInv'
  BY NextKeeps
<1>3. IInv => TypeOK
  BY IInvType
<1> QED BY <1>1, <1>2, <1>3, PTL DEF Spec

\* The two ends of every binding agree for any device and any number of edits.
THEOREM BothEnds == Spec => []LinksAgree
<1>1. Init => IInv
  BY InitInv
<1>2. IInv /\ [Next]_vars => IInv'
  BY NextKeeps
<1>3. IInv => LinksAgree
  BY IInvType
<1> QED BY <1>1, <1>2, <1>3, PTL DEF Spec

\* Every edit and every step of loading leaves each parameter at its element's
\* link or as it was; parameters are replaced by tables, by the form of functions
\* and by what a device holds, in steps that change no link.
THEOREM ParamsFollow == Spec => ParamFollowsLink
<1>1. Init => IInv
  BY InitInv
<1>2. IInv /\ [Next]_vars => IInv'
  BY NextKeeps
<1>3. IInv /\ [Next]_vars =>
        [alive /\ alive' /\ (loading = {} => loading' = {}) =>
           \A e \in Elements :
             \/ bind'.param[e] = Link(bind', e)
             \/ Link(bind', e) = Link(bind, e) /\ bind'.param[e] = bind.param[e]
             \/ /\ Links(bind') = Links(bind) /\ FromElsewhere(e)
                /\ loading = {} /\ ~open']_vars
  <2> SUFFICES ASSUME IInv, [Next]_vars,
                      alive, alive', loading = {} => loading' = {},
                      NEW e \in Elements
               PROVE  \/ bind'.param[e] = Link(bind', e)
                      \/ Link(bind', e) = Link(bind, e) /\ bind'.param[e] = bind.param[e]
                      \/ /\ Links(bind') = Links(bind) /\ FromElsewhere(e)
                         /\ loading = {} /\ ~open'
    OBVIOUS
  <2>1. Follows(bind, bind') \/ Replaced
    BY NextKeeps DEF StepFollows
  <2>2. CASE Follows(bind, bind')
    BY <2>2 DEF Follows
  <2>3. CASE Replaced
    <3>1. Links(bind')[e] = Link(bind', e) /\ Links(bind)[e] = Link(bind, e)
      BY DEF Links
    <3> QED BY <2>3, <3>1 DEF Replaced
  <2> QED BY <2>1, <2>2, <2>3
<1> QED BY <1>1, <1>2, <1>3, PTL DEF Spec, ParamFollowsLink

-----------------------------------------------------------------------------
(* What the steps leave behind.  A pin that is not the one bound has a link *)
(* after a setter only if it had one before, and a target is left with a    *)
(* virtual input without a driver only when its driver was a pin.           *)

\* No pin but x has a link in c that it had not in b.
Fewer(b, c, x) ==
  \A p \in Pins \ {x} : Link(c, p) # None => Link(b, p) # None

\* The setter of a source changes the links of no other pin, and leaves nobody
\* without a driver when the source has one, is a physical input or none.
LEMMA SetSourceLeaves ==
  ASSUME NEW b, Good(b), NEW t \in Targets, NEW i \in Inputs \union {None},
         NEW c, c = SetSource(b, t, i)
  PROVE  /\ Fewer(b, c, t)
         /\ (i \in Virtual => b.driver[i] # None)
              => Orphans(c) \subseteq Orphans(b)
<1>1. Sourced(b, c, t, i)
  BY SetSourceFields
<1>2. Fewer(b, c, t)
  BY <1>1, Distinct DEF Fewer, Sourced, Link
<1>3. ASSUME i \in Virtual => b.driver[i] # None
      PROVE  Orphans(c) \subseteq Orphans(b)
  BY <1>1, <1>3 DEF Orphans, Sourced
<1> QED BY <1>2, <1>3

\* The setter of a target takes an input from whoever drives it and gives it
\* away, so only what the driver itself drove is left.
LEMMA SetTargetLeaves ==
  ASSUME NEW b, Good(b), NEW d \in Drivers, NEW v \in Virtual \union {None},
         NEW c, c = SetTarget(b, d, v)
  PROVE  /\ Fewer(b, c, d)
         /\ \A t \in Orphans(c) \ Orphans(b) :
              b.driver[c.source[t]] = d /\ b.target[d] # None
<1>1. Targeted(b, c, d, v)
  BY SetTargetFields
<1>2. Fewer(b, c, d)
  BY <1>1, Distinct DEF Fewer, Targeted, Link
<1>3. ASSUME NEW t \in Orphans(c) \ Orphans(b)
      PROVE  b.driver[c.source[t]] = d /\ b.target[d] # None
  <2>1. /\ t \in Targets /\ c.source[t] \in Virtual /\ c.driver[c.source[t]] = None
        /\ c.source = b.source /\ b.driver[c.source[t]] # None
    BY <1>1, <1>3 DEF Orphans, Targeted
  <2>2. b.target[d] = c.source[t]
    BY <1>1, <2>1, Distinct DEF Targeted
  <2>3. b.driver[c.source[t]] = d
    BY <2>1, <2>2 DEF Good, Agree
  <2> QED BY <2>1, <2>2, <2>3, Distinct
<1> QED BY <1>2, <1>3

\* Changing parameters alone changes no link.
LEMMA ParamsLeave ==
  ASSUME NEW b, b \in Bindings, NEW f, NEW c, c = [b EXCEPT !.param = f]
  PROVE  /\ Orphans(c) = Orphans(b) /\ Fewer(b, c, None)
BY DEF Bindings, Orphans, Fewer, Link

\* The form takes an input from an output of an algorithm after it has unbound
\* everything that was bound to the input.
LEMMA UnbindOutputLeaves ==
  ASSUME NEW b, Good(b), NEW k, OneWay(b, k),
         NEW d \in AlgOuts, b.target[d] # None, ~Locked(b, b.target[d]),
         NEW c, c = SetTarget(UnbindTargets(b, b.target[d]), d, None)
  PROVE  /\ Fewer(b, c, None)
         /\ Orphans(c) \subseteq Orphans(b)
<1> DEFINE v == b.target[d]
           u == UnbindTargets(b, v)
<1>1. d \in Drivers /\ d \notin Targets /\ d \notin Pins /\ v \in Virtual
  BY BindingsAssumption DEF Drivers, Targets, Good, Bindings
<1>2. /\ u.source = [t \in Targets |-> IF t \in b.targets[v] THEN None ELSE b.source[t]]
      /\ u.target = b.target /\ u.driver = b.driver
  BY DEF UnbindTargets, Good, Bindings
<1>3. \A t \in Targets : t \in b.targets[v] <=> b.source[t] = v
  BY <1>1, Distinct DEF Good, Agree
<1>4. Good(u)
  BY <1>1, UnbindTargetsKeeps
<1> HIDE DEF u, v
<1>5. c = SetTarget(u, d, None)
  BY DEF u, v
<1>6. Targeted(u, c, d, None)
  BY <1>1, <1>4, <1>5, SetTargetFields
<1>7. /\ \A t \in Targets : c.source[t] = IF b.source[t] = v THEN None ELSE b.source[t]
      /\ \A e \in Drivers \ {d} : c.target[e] = b.target[e]
      /\ c.target[d] = None
      /\ \A w \in Virtual : c.driver[w] = IF w = v THEN None ELSE b.driver[w]
  <2>1. b.target[d] = v
    BY DEF v
  <2> QED BY <1>1, <1>2, <1>3, <1>6, <2>1, Distinct DEF Targeted
<1>8. Fewer(b, c, None)
  BY <1>1, <1>7, Distinct DEF Fewer, Link
<1>9. Orphans(c) \subseteq Orphans(b)
  BY <1>1, <1>7, Distinct DEF Orphans
<1> QED BY <1>8, <1>9

-----------------------------------------------------------------------------
(* What the forms do.                                                      *)

\* An edit in the forms gives no pin a link and leaves no target without a
\* driver.
LEMMA EditFormsLeaves ==
  ASSUME CoreInv, EditForms
  PROVE  Fewer(bind, bind', None) /\ Orphans(bind') \subseteq Orphans(bind)
<1>1. Good(bind) /\ OneWay(bind, pin) /\ bind \in Bindings
  BY DEF CoreInv, CoreType, Good
<1>2. Outs \union AlgIns \subseteq Targets \ Pins /\ AlgOuts \subseteq Drivers \ Pins
  BY BindingsAssumption DEF Targets, Drivers
<1> DEFINE Kept == Fewer(bind, bind', None) /\ Orphans(bind') \subseteq Orphans(bind)
<1>3. ASSUME NEW x, x \notin Pins, Fewer(bind, bind', x) PROVE Fewer(bind, bind', None)
  BY <1>3 DEF Fewer
<1>4. ASSUME NEW t \in Outs \union AlgIns, BindInput(t) PROVE Kept
  <2>1. PICK i \in InputChoices : bind' = SetSource(bind, t, i)
    BY <1>4 DEF BindInput
  <2>2. i \in Inputs /\ (i \in Virtual => bind.driver[i] # None)
    BY BindingsAssumption DEF InputChoices, Busy, Inputs
  <2>3. Fewer(bind, bind', t) /\ Orphans(bind') \subseteq Orphans(bind)
    BY <1>1, <1>2, <2>1, <2>2, SetSourceLeaves
  <2> QED BY <1>2, <1>3, <2>3
<1>5. ASSUME NEW t \in Outs \union AlgIns, UnbindInput(t) PROVE Kept
  <2>1. bind' = SetSource(bind, t, None)
    BY <1>5 DEF UnbindInput
  <2>2. Fewer(bind, bind', t) /\ Orphans(bind') \subseteq Orphans(bind)
    BY <1>1, <1>2, <2>1, SetSourceLeaves, Distinct
  <2> QED BY <1>2, <1>3, <2>2
<1>6. ASSUME NEW d \in AlgOuts, BindOutput(d) PROVE Kept
  <2>1. PICK v \in OutputChoices : bind' = SetTarget(bind, d, v)
    BY <1>6 DEF BindOutput
  <2>2. v \in Virtual /\ bind.target[d] = None
    BY <1>6 DEF OutputChoices, BindOutput
  <2>3. Fewer(bind, bind', d) /\ Orphans(bind') \subseteq Orphans(bind)
    BY <1>1, <1>2, <2>1, <2>2, SetTargetLeaves
  <2> QED BY <1>2, <1>3, <2>3
<1>7. ASSUME NEW d \in AlgOuts, UnbindOutput(d) PROVE Kept
  BY <1>1, <1>7, UnbindOutputLeaves DEF UnbindOutput
<1>8. ASSUME NEW f \in Funcs, EditFunction(f) PROVE Kept
  <2>1. PICK v \in Virtual : bind' = [bind EXCEPT !.param[f] = v]
    BY <1>8 DEF EditFunction
  <2>2. bind' = [bind EXCEPT !.param = [bind.param EXCEPT ![f] = v]]
    BY <1>1, <2>1 DEF Bindings
  <2> QED BY <1>1, <2>2, ParamsLeave
<1>9. ASSUME CompileTables PROVE Kept
  <2>1. PICK g \in [Elements -> Inputs \union {None}] : bind' = [bind EXCEPT !.param = g]
    BY <1>9, TableParams DEF CompileTables
  <2> QED BY <1>1, <2>1, ParamsLeave
<1> QED BY <1>4, <1>5, <1>6, <1>7, <1>8, <1>9 DEF EditForms

\* A node that is bound stands for the pin, and a new link of a target has a
\* driver.
LEMMA BindNodeLeaves ==
  ASSUME CoreInv, NEW n \in Nodes, BindNode(n)
  PROVE  /\ Fewer(bind, bind', node[n].io)
         /\ \A t \in Orphans(bind') \ Orphans(bind) :
              bind.driver[bind'.source[t]] = node[n].io
<1>1. /\ node[n].io \in Pins /\ node[n].kind \in Kinds
  BY DEF BindNode, Seen, CoreInv, CoreType, NodeType
<1>2. Good(bind) /\ node[n].io \in Targets /\ node[n].io \in Drivers
  BY <1>1, Distinct DEF CoreInv, CoreType, Good
<1>3. CASE node[n].kind = "BI"
  <2>1. PICK i \in InputChoices : bind' = SetSource(bind, node[n].io, i)
    BY <1>3 DEF BindNode
  <2>2. i \in Inputs /\ (i \in Virtual => bind.driver[i] # None)
    BY BindingsAssumption DEF InputChoices, Busy, Inputs
  <2> QED BY <1>2, <2>1, <2>2, SetSourceLeaves
<1>4. CASE node[n].kind = "BO"
  <2>1. PICK v \in OutputChoices : bind' = SetTarget(bind, node[n].io, v)
    BY <1>4 DEF BindNode
  <2>2. v \in Virtual
    BY DEF OutputChoices
  <2> QED BY <1>2, <2>1, <2>2, SetTargetLeaves
<1> QED BY <1>1, <1>3, <1>4 DEF Kinds

\* Unbinding a node leaves nobody without a driver but what the node drove.
LEMMA UnboundLeaves ==
  ASSUME CoreInv, NEW n \in Nodes, node[n].io # None,
         NEW c, c = Unbound(bind, n)
  PROVE  /\ Fewer(bind, c, node[n].io) /\ Link(c, node[n].io) = None
         /\ \A t \in Orphans(c) \ Orphans(bind) :
              bind.driver[c.source[t]] = node[n].io
<1>1. /\ node[n].io \in Pins /\ node[n].kind \in Kinds
  BY DEF CoreInv, CoreType, NodeType
<1>2. Good(bind) /\ node[n].io \in Targets /\ node[n].io \in Drivers
  BY <1>1, Distinct DEF CoreInv, CoreType, Good
<1>3. Link(c, node[n].io) = None
  BY UnboundKeeps DEF Link
<1>4. CASE node[n].kind = "BI"
  <2>1. c = SetSource(bind, node[n].io, None)
    BY <1>4 DEF Unbound
  <2> QED BY <1>2, <1>3, <2>1, SetSourceLeaves, Distinct
<1>5. CASE node[n].kind = "BO"
  <2>1. c = SetTarget(bind, node[n].io, None)
    BY <1>5 DEF Unbound
  <2> QED BY <1>2, <1>3, <2>1, SetTargetLeaves
<1> QED BY <1>1, <1>4, <1>5 DEF Kinds

\* Closing the editor, removing the algorithm and reading a device change
\* parameters alone.
LEMMA StoredLeaves ==
  ASSUME CoreInv, CloseEditor \/ RemoveAlgorithm \/ ReadConfig
  PROVE  Fewer(bind, bind', None) /\ Orphans(bind') = Orphans(bind)
<1>1. bind \in Bindings
  BY DEF CoreInv, CoreType
<1>2. \E f : bind' = [bind EXCEPT !.param = f]
  <2>1. ASSUME NEW compiled \in BOOLEAN, bind' = PinsFromTable(bind, compiled)
        PROVE  \E f : bind' = [bind EXCEPT !.param = f]
    BY <2>1, PinParams
  <2> QED BY <2>1 DEF CloseEditor, RemoveAlgorithm, ReadConfig
<1> QED BY <1>1, <1>2, ParamsLeave

-----------------------------------------------------------------------------
(* Targets without a driver.                                               *)

LEMMA OrphansStep ==
  ASSUME CoreInv, Next, Idle, alive', loading' = {}
  PROVE  \A t \in Orphans(bind') \ Orphans(bind) :
           open /\ bind.driver[bind'.source[t]] \in Pins
<1> DEFINE Kept == \A t \in Orphans(bind') \ Orphans(bind) :
                     open /\ bind.driver[bind'.source[t]] \in Pins
<1>1. \A n \in Nodes : node[n].io \in Pins \union {None}
  BY DEF CoreInv, CoreType, NodeType
<1>2. ~OpenProject
  <2>1. ASSUME OpenProject PROVE FALSE
    BY <2>1, Distinct, LoadAssumption DEF OpenProject
  <2> QED BY <2>1
<1>3. /\ \A e \in Elements \ Pins : ~LoadElement(e)
      /\ \A n \in Nodes : ~LoadNode(n) /\ ~LoadNodeDies(n)
  BY DEF LoadElement, LoadNode, LoadNodeDies, Loaded, Turn, Idle
<1>4. ASSUME bind' = bind PROVE Kept
  BY <1>4
<1>5. \A n \in Nodes : Paint(n) \/ AddNode(n) => bind' = bind
  BY DEF Paint, AddNode, Die
<1>6. CASE CloseEditor \/ RemoveAlgorithm \/ ReadConfig
  BY <1>6, StoredLeaves
<1>7. CASE EditForms
  BY <1>7, EditFormsLeaves
<1>8. CASE OpenEditor \/ Paste \/ \E n, m \in Nodes : CopyNode(n, m)
  BY <1>4, <1>8 DEF OpenEditor, Paste, CopyNode
<1>9. ASSUME NEW n \in Nodes, BindNode(n) PROVE Kept
  BY <1>9, BindNodeLeaves DEF BindNode, Editing, Seen, CoreInv, CoreType, NodeType
<1>10. ASSUME NEW n \in Nodes, RemoveLink(n) PROVE Kept
  BY <1>1, <1>10, UnboundLeaves DEF RemoveLink, Editing, Seen
<1>11. ASSUME NEW n \in Nodes, RemoveNode(n) PROVE Kept
  <2>1. CASE bind' = bind
    BY <1>4, <2>1
  <2>2. CASE node[n].io # None /\ bind' = Unbound(bind, n) /\ open
    BY <1>1, <2>2, UnboundLeaves
  <2> QED BY <1>11, <2>1, <2>2 DEF RemoveNode, Die, Editing
<1> QED
  BY <1>2, <1>3, <1>4, <1>5, <1>6, <1>7, <1>8, <1>9, <1>10, <1>11 DEF Next, Edit

\* A target is left with a virtual input that nothing drives only when the pin
\* of flexible logic that drove it is unbound in the editor.
THEOREM Orphaned == Spec => OrphansOnlyFromLogic
<1>1. Init => IInv
  BY InitInv
<1>2. IInv /\ [Next]_vars => IInv'
  BY NextKeeps
<1>3. IInv /\ [Next]_vars =>
        [Idle /\ alive' /\ loading' = {} =>
           \A t \in Orphans(bind') \ Orphans(bind) :
             open /\ bind.driver[bind'.source[t]] \in Pins]_vars
  BY OrphansStep DEF IInv
<1> QED BY <1>1, <1>2, <1>3, PTL DEF Spec, OrphansOnlyFromLogic

-----------------------------------------------------------------------------
(* Pins that are bound without a node.                                     *)

\* Where nodes are: the editor is open only when nothing loads, and then every
\* node is in it; what still loads is in a file.
Places ==
  /\ loading # {} => ~open
  /\ ~open => Scene \union Buffer = {}
  /\ \A n \in Nodes \cap loading : node[n].place # "none"

\* The node that stands for pin p: in the scene, in the graph file, or loaded
\* from a file that is not saved yet.
Stands(p) ==
  \E n \in Nodes :
    IF open THEN n \in Scene /\ node[n].io = p
    ELSE IF loading \cap Nodes = {} THEN graph[n] = [kind |-> pin[p], pin |-> p]
    ELSE /\ n \notin loading /\ node[n].place # "none"
         /\ node[n].pin = p /\ node[n].kind = pin[p]

GhostInv ==
  alive /\ odd \subseteq {"exhausted"} =>
    \A p \in Pins : Link(bind, p) # None => Stands(p)

LEMMA DiePlaces ==
  ASSUME CoreInv, Die
  PROVE  Places' /\ GhostInv'
BY DEF Die, Places, GhostInv, Scene, Buffer, NoNode

LEMMA PlacesStep ==
  ASSUME CoreInv, Places, Next
  PROVE  Places'
<1>0. NoNode.place = "none"
  BY DEF NoNode
<1>1. ASSUME Die PROVE Places'
  BY <1>1, DiePlaces
<1>2. CASE OpenProject
  <2>1. /\ open' = FALSE
        /\ \A n \in Nodes : IF graph[n] = None THEN node'[n].place = "none" /\ n \notin loading'
                            ELSE node'[n].place = "file"
    BY <1>2, EditorAssumption DEF OpenProject, NoNode
  <2> QED BY <2>1 DEF Places, Scene, Buffer
<1>3. CASE CloseEditor
  BY <1>0, <1>3 DEF CloseEditor, Places, Scene, Buffer, Editing, Idle
<1>4. ASSUME NEW e \in Elements \ Pins, LoadElement(e) PROVE Places'
  BY <1>4 DEF LoadElement, Loaded, Turn, Places, Scene, Buffer
<1>5. ASSUME NEW n \in Nodes, LoadNode(n) PROVE Places'
  <2>1. /\ n \in loading /\ loading' = loading \ {n} /\ open' = open
    BY <1>5 DEF LoadNode, Loaded, Turn
  <2>2. PICK p \in Pins : FileLoaded(n, p)
    BY <1>5 DEF LoadNode, FreePins, CoreInv, CoreType, NodeType
  <2>3. CASE loading \cap Nodes # {n}
    <3>1. \A m \in Nodes : node'[m].place = node[m].place
      BY <2>2, <2>3 DEF FileLoaded, CoreInv, CoreType, NodeType
    <3> QED BY <2>1, <3>1 DEF Places, Scene, Buffer
  <2>4. CASE loading \cap Nodes = {n}
    BY <1>0, <2>1, <2>2, <2>4 DEF FileLoaded, Places, Scene, Buffer
  <2> QED BY <2>3, <2>4
<1>6. ASSUME NEW n \in Nodes, LoadNodeDies(n) PROVE Places'
  BY <1>1, <1>6 DEF LoadNodeDies
<1>7. ASSUME Editing, open' = open, loading' = loading PROVE Places'
  BY <1>7 DEF Editing, Idle, Places
<1>8. ASSUME NEW n \in Nodes, Paint(n) PROVE Places'
  BY <1>1, <1>7, <1>8 DEF Paint, UnchangedStore
<1>9. CASE EditForms \/ ReadConfig \/ RemoveAlgorithm
  BY <1>9 DEF EditForms, ReadConfig, RemoveAlgorithm, Places, Scene, Buffer, Forms, Idle
<1>10. CASE OpenEditor
  BY <1>10 DEF OpenEditor, Places, Forms, Idle
<1>11. CASE Paste
  BY <1>7, <1>11 DEF Paste, UnchangedStore
<1>12. ASSUME NEW n \in Nodes, AddNode(n) \/ BindNode(n) \/ RemoveLink(n) \/ RemoveNode(n)
       PROVE  Places'
  BY <1>1, <1>7, <1>12 DEF AddNode, BindNode, RemoveLink, RemoveNode, UnchangedStore
<1>13. ASSUME NEW n \in Nodes, NEW m \in Nodes, CopyNode(n, m) PROVE Places'
  BY <1>7, <1>13 DEF CopyNode, UnchangedStore
<1> QED
  BY <1>2, <1>3, <1>4, <1>5, <1>6, <1>8, <1>9, <1>10, <1>11, <1>12, <1>13 DEF Next, Edit

\* As long as every node stays where it is and keeps its pin, and no pin but
\* one that has a node gets a link.
LEMMA GhostKept ==
  ASSUME CoreInv, GhostInv, Editing, open' = open,
         odd' \subseteq {"exhausted"} => odd \subseteq {"exhausted"},
         NEW x, Fewer(bind, bind', x),
         x \in Pins /\ Link(bind', x) # None => \E n \in Nodes : n \in Scene' /\ node'[n].io = x,
         \A n \in Scene : node[n].io # None /\ node[n].io # x =>
           n \in Scene' /\ node'[n].io = node[n].io
  PROVE  GhostInv'
<1> SUFFICES ASSUME alive, odd \subseteq {"exhausted"}, NEW p \in Pins, Link(bind', p) # None
             PROVE  Stands(p)'
  BY DEF GhostInv, Editing, Idle
<1>1. CASE p = x
  BY <1>1 DEF Stands, Editing
<1>2. CASE p # x
  <2>1. Link(bind, p) # None
    BY <1>2 DEF Fewer
  <2>2. PICK n \in Nodes : n \in Scene /\ node[n].io = p
    BY <2>1 DEF GhostInv, Stands, Editing
  <2>3. n \in Scene' /\ node'[n].io = p
    BY <1>2, <2>2, Distinct
  <2> QED BY <2>3 DEF Stands, Editing
<1> QED BY <1>1, <1>2

\* Nor does a step outside the editor that changes neither graph nor pins.
LEMMA GhostAside ==
  ASSUME CoreInv, Places, GhostInv, Fewer(bind, bind', None),
         UNCHANGED <<graph, pin, node, open, odd, alive>>,
         loading' \cap Nodes = loading \cap Nodes
  PROVE  GhostInv'
<1> SUFFICES ASSUME alive, odd \subseteq {"exhausted"}, NEW p \in Pins, Link(bind', p) # None
             PROVE  Stands(p)'
  BY DEF GhostInv
<1>1. Link(bind, p) # None
  BY Distinct DEF Fewer, Elements
<1>2. Stands(p)
  BY <1>1 DEF GhostInv
<1>3. \A n \in Nodes : n \notin loading' <=> n \notin loading
  OBVIOUS
<1> QED BY <1>2, <1>3 DEF Stands, Scene

\* A node that is loaded stands for its pin, and those that were loaded before
\* for theirs.
LEMMA LoadNodeGhost ==
  ASSUME CoreInv, Places, GhostInv, NEW n \in Nodes, LoadNode(n)
  PROVE  GhostInv'
<1>0. /\ n \in loading /\ loading' = loading \ {n} /\ open' = open /\ odd' = odd
      /\ alive' = alive /\ ~open /\ loading \cap Nodes # {} /\ node[n].place # "none"
  BY DEF LoadNode, Loaded, Turn, Places
<1>1. PICK p \in IF node[n].pin # None THEN {node[n].pin} ELSE FreePins :
        IF p \in FreePins
        THEN /\ pin' = [pin EXCEPT ![p] = node[n].kind]
             /\ bind' = IF node[n].kind = "BI" THEN LoadTarget(bind, p)
                        ELSE LoadDriver(bind, p)
             /\ Loaded(n) /\ FileLoaded(n, p) /\ UNCHANGED alive
        ELSE /\ bind.param[p] \notin Inputs
             /\ Loaded(n) /\ FileLoaded(n, p) /\ UNCHANGED <<bind, pin, alive>>
  BY DEF LoadNode
<1>2. node[n].kind \in Kinds /\ node[n].pin \in Pins \union {None} /\ node[n] \in NodeType
  BY DEF CoreInv, CoreType, NodeType
<1>3. p \in Pins /\ p \in Targets /\ p \in Drivers
  BY <1>2, Distinct DEF FreePins
<1>4. FileLoaded(n, p)
  BY <1>1
<1>5. /\ \A q \in Pins \ {p} : pin'[q] = pin[q]
      /\ p \in FreePins => pin'[p] = node[n].kind
      /\ p \notin FreePins => bind' = bind /\ pin' = pin
  BY <1>1, <1>3 DEF CoreInv, CoreType
<1>6. Fewer(bind, bind', p)
  <2>1. Good(bind)
    BY DEF CoreInv, CoreType, Good
  <2>2. CASE bind' = bind
    BY <2>2 DEF Fewer
  <2>3. CASE bind.param[p] \in Inputs /\ bind' = SetSource(bind, p, bind.param[p])
    BY <1>3, <2>1, <2>3, SetSourceLeaves
  <2>4. CASE bind.param[p] \in Virtual /\ bind' = SetTarget(bind, p, bind.param[p])
    BY <1>3, <2>1, <2>4, SetTargetLeaves
  <2> QED BY <1>1, <2>2, <2>3, <2>4 DEF LoadTarget, LoadDriver
<1> SUFFICES ASSUME alive, odd \subseteq {"exhausted"}, NEW q \in Pins, Link(bind', q) # None
             PROVE  Stands(q)'
  BY <1>0 DEF GhostInv
<1> DEFINE On(m) == node[m].place # "none" /\ node[m].kind = pin'[q] /\ (m = n \/ m \notin loading)
                    /\ q = IF m = n THEN p ELSE node[m].pin
<1>7. PICK m \in Nodes : On(m)
  <2>1. CASE q = p /\ p \in FreePins
    BY <1>0, <1>5, <2>1
  <2>2. CASE q # p \/ p \notin FreePins
    <3>1. Link(bind, q) # None
      BY <1>5, <1>6, <2>2 DEF Fewer
    <3>2. PICK m \in Nodes : /\ m \notin loading /\ node[m].place # "none"
                             /\ node[m].pin = q /\ node[m].kind = pin[q]
      BY <1>0, <3>1 DEF GhostInv, Stands
    <3>3. pin'[q] = pin[q] /\ m # n
      BY <1>0, <1>5, <2>2, <3>2
    <3> QED BY <3>2, <3>3
  <2> QED BY <2>1, <2>2
<1>8. CASE loading \cap Nodes # {n}
  <2>1. node' = [node EXCEPT ![n] = [node[n] EXCEPT !.pin = p]] /\ loading' \cap Nodes # {}
    BY <1>0, <1>4, <1>8 DEF FileLoaded
  <2>2. /\ node'[m].place = node[m].place /\ node'[m].kind = node[m].kind
        /\ node'[m].pin = IF m = n THEN p ELSE node[m].pin
    BY <1>2, <2>1 DEF CoreInv, CoreType, NodeType
  <2>3. m \notin loading'
    BY <1>0, <1>7
  <2> QED BY <1>0, <1>7, <2>1, <2>2, <2>3 DEF Stands
<1>9. CASE loading \cap Nodes = {n}
  <2>1. graph'[m] = [kind |-> pin'[q], pin |-> q]
    BY <1>4, <1>7, <1>9 DEF FileLoaded
  <2>2. loading' \cap Nodes = {}
    BY <1>0, <1>9
  <2> QED BY <1>0, <2>1, <2>2 DEF Stands
<1> QED BY <1>8, <1>9

LEMMA GhostStep ==
  ASSUME CoreInv, Places, GhostInv, Next
  PROVE  GhostInv'
<1>0. /\ \A n \in Nodes : node[n] \in NodeType /\ node[n].io \in Pins \union {None}
      /\ node \in [Nodes -> NodeType] /\ None \notin Pins /\ bind \in Bindings
  BY Distinct DEF CoreInv, CoreType, NodeType, Elements
<1>1. ASSUME Die PROVE GhostInv'
  BY <1>1, DiePlaces
<1>2. CASE OpenProject
  <2>1. \A p \in Pins : Link(bind', p) = None
    BY <1>2, Distinct DEF OpenProject, Cleared, Link, OldParams, TablesToParams, CoreInv, CoreType, Bindings
  <2> QED BY <2>1 DEF GhostInv
<1>3. CASE CloseEditor
  <2>1. Fewer(bind, bind', None) /\ Editing
    BY <1>3, StoredLeaves DEF CloseEditor
  <2> SUFFICES ASSUME odd' \subseteq {"exhausted"}, NEW p \in Pins, Link(bind', p) # None
               PROVE  Stands(p)'
    BY DEF GhostInv
  <2>2. odd' = odd /\ \A n \in Scene : Seen(n)
    BY <1>3 DEF CloseEditor, Odd
  <2>3. Link(bind, p) # None
    BY <1>0, <2>1 DEF Fewer
  <2>4. PICK n \in Nodes : n \in Scene /\ node[n].io = p
    BY <2>1, <2>2, <2>3 DEF GhostInv, Stands, Editing, Idle
  <2>5. node[n].pin = p /\ pin[p] = node[n].kind
    BY <1>0, <2>2, <2>4 DEF Seen, CoreInv, NodePins
  <2>6. graph'[n] = [kind |-> pin[p], pin |-> p]
    BY <1>3, <2>4, <2>5 DEF CloseEditor
  <2> QED BY <1>3, <2>1, <2>6 DEF CloseEditor, Stands, Editing, Idle
<1>4. ASSUME NEW e \in Elements \ Pins, LoadElement(e) PROVE GhostInv'
  <2>1. Good(bind) /\ e \notin Nodes /\ (e \notin Drivers => e \in Targets)
    BY EditorAssumption DEF CoreInv, CoreType, Good, Elements
  <2>2. Fewer(bind, bind', e)
    <3>1. CASE bind' = bind
      BY <3>1 DEF Fewer
    <3>2. CASE /\ e \in Drivers /\ bind.param[e] \in Virtual
               /\ bind' = SetTarget(bind, e, bind.param[e])
      BY <2>1, <3>2, SetTargetLeaves
    <3>3. CASE /\ e \notin Drivers /\ bind.param[e] \in Inputs
               /\ bind' = SetSource(bind, e, bind.param[e])
      BY <2>1, <3>3, SetSourceLeaves
    <3> QED
      BY <1>4, <3>1, <3>2, <3>3 DEF LoadElement, LoadFunction, LoadDriver, LoadTarget, Drivers
  <2>3. Fewer(bind, bind', None)
    BY <2>2 DEF Fewer
  <2>4. /\ UNCHANGED <<graph, pin, node, open, odd, alive>>
        /\ loading' \cap Nodes = loading \cap Nodes
    BY <1>4, <2>1 DEF LoadElement, Loaded
  <2> QED BY <2>3, <2>4, GhostAside
<1>5. ASSUME NEW n \in Nodes, LoadNode(n) PROVE GhostInv'
  BY <1>5, LoadNodeGhost
<1>6. ASSUME NEW n \in Nodes, LoadNodeDies(n) PROVE GhostInv'
  BY <1>1, <1>6 DEF LoadNodeDies
<1>7. ASSUME NEW n \in Nodes, Paint(n) PROVE GhostInv'
  <2>1. CASE Die
    BY <1>1, <2>1
  <2>2. CASE /\ node' = [node EXCEPT ![n].pin = node[n].io] /\ Editing /\ UNCHANGED odd
             /\ UnchangedStore /\ UNCHANGED <<bind, pin, alive>>
    <3>1. \A m \in Scene : m \in Scene' /\ node'[m].io = node[m].io
      BY <1>0, <2>2 DEF Scene, NodeType
    <3>2. Fewer(bind, bind', None)
      BY <2>2 DEF Fewer
    <3> QED BY <1>0, <2>2, <3>1, <3>2, GhostKept DEF UnchangedStore
  <2> QED BY <1>7, <2>1, <2>2 DEF Paint
<1>8. CASE EditForms
  BY <1>8, EditFormsLeaves, GhostAside DEF EditForms
<1>9. CASE ReadConfig \/ RemoveAlgorithm
  BY <1>9 DEF ReadConfig, RemoveAlgorithm, GhostInv, Odd
<1>10. CASE OpenEditor
  <2> SUFFICES ASSUME alive, odd \subseteq {"exhausted"}, NEW p \in Pins, Link(bind', p) # None
               PROVE  Stands(p)'
    BY <1>10 DEF GhostInv, OpenEditor
  <2>1. PICK n \in Nodes : graph[n] = [kind |-> pin[p], pin |-> p]
    BY <1>10 DEF OpenEditor, GhostInv, Stands, Forms, Idle
  <2>2. pin[p] \in Kinds
    BY <1>10 DEF OpenEditor, CoreInv, OneWay, Link, Kinds
  <2>3. graph[n] # None
    BY <2>1, <2>2, EditorAssumption DEF Entries
  <2> QED BY <1>10, <2>1, <2>3 DEF OpenEditor, Stands, ServiceAt, Scene
<1>11. CASE Paste
  <2>1. /\ \A n \in Scene : n \in Scene' /\ node'[n].io = node[n].io
        /\ Editing /\ open' = open /\ odd' = odd /\ Fewer(bind, bind', None)
    BY <1>0, <1>11 DEF Paste, Scene, Buffer, NodeType, UnchangedStore, Fewer
  <2> QED BY <1>0, <2>1, GhostKept
<1>12. ASSUME NEW m \in Nodes, AddNode(m) PROVE GhostInv'
  <2>1. CASE Die
    BY <1>1, <2>1
  <2>2. CASE /\ \E x : node' = [node EXCEPT ![m] = x]
             /\ UnchangedStore /\ UNCHANGED <<bind, alive, odd>>
    <3>1. m \notin Scene /\ Editing
      BY <1>12 DEF AddNode, Scene, Unused
    <3>2. \A n \in Scene : n \in Scene' /\ node'[n].io = node[n].io
      BY <1>0, <2>2, <3>1 DEF Scene
    <3>3. Fewer(bind, bind', None)
      BY <2>2 DEF Fewer
    <3> QED BY <1>0, <2>2, <3>1, <3>2, <3>3, GhostKept DEF UnchangedStore
  <2> QED BY <1>12, <2>1, <2>2 DEF AddNode
<1>13. ASSUME NEW n \in Nodes, NEW m \in Nodes, CopyNode(n, m) PROVE GhostInv'
  <2>1. m \notin Scene /\ Editing /\ UnchangedStore /\ UNCHANGED bind
    BY <1>13 DEF CopyNode, Scene, Unused
  <2>2. /\ \E x : node' = [node EXCEPT ![m] = x]
        /\ odd' \subseteq {"exhausted"} => odd \subseteq {"exhausted"}
    BY <1>13 DEF CopyNode, Odd
  <2>3. \A k \in Scene : k \in Scene' /\ node'[k].io = node[k].io
    BY <1>0, <2>1, <2>2 DEF Scene
  <2>4. Fewer(bind, bind', None)
    BY <2>1 DEF Fewer
  <2> QED BY <1>0, <2>1, <2>2, <2>3, <2>4, GhostKept DEF UnchangedStore
<1>14. ASSUME NEW n \in Nodes, BindNode(n) PROVE GhostInv'
  <2>1. /\ Fewer(bind, bind', node[n].io) /\ n \in Scene /\ Editing /\ open' = open
        /\ node' = node /\ odd' = odd
    BY <1>14, BindNodeLeaves DEF BindNode, Seen, UnchangedStore
  <2> QED BY <2>1, GhostKept DEF Scene
<1>15. ASSUME NEW n \in Nodes, RemoveLink(n) PROVE GhostInv'
  <2>1. /\ Fewer(bind, bind', node[n].io) /\ n \in Scene /\ Editing /\ open' = open
        /\ node' = node /\ odd' = odd
    BY <1>15, UnboundLeaves DEF RemoveLink, Seen, UnchangedStore
  <2> QED BY <2>1, GhostKept DEF Scene
<1>16. ASSUME NEW n \in Nodes, RemoveNode(n) PROVE GhostInv'
  <2>1. CASE Die
    BY <1>1, <2>1
  <2>2. CASE /\ ~Shared(n)
             /\ IF node[n].io = None THEN UNCHANGED <<bind, pin>>
                ELSE /\ bind' = Unbound(bind, n)
                     /\ pin' = [pin EXCEPT ![node[n].io] = "free"]
             /\ node' = [node EXCEPT ![n] = NoNode]
             /\ UnchangedStore /\ UNCHANGED alive
    <3>1. Editing /\ open' = open /\ odd' = odd
      BY <1>16, <2>2 DEF RemoveNode, UnchangedStore
    <3>2. Fewer(bind, bind', node[n].io) /\ (node[n].io \in Pins => Link(bind', node[n].io) = None)
      <4>1. CASE node[n].io = None
        BY <1>0, <2>2, <4>1 DEF Fewer
      <4>2. CASE node[n].io # None
        BY <2>2, <4>2, UnboundLeaves
      <4> QED BY <4>1, <4>2
    <3>3. ASSUME NEW k \in Scene, node[k].io # None, node[k].io # node[n].io
          PROVE  k \in Scene' /\ node'[k].io = node[k].io
      BY <1>0, <2>2, <3>3 DEF Scene
    <3> QED BY <3>1, <3>2, <3>3, GhostKept
  <2> QED BY <1>16, <2>1, <2>2 DEF RemoveNode
<1> QED
  BY <1>2, <1>3, <1>4, <1>5, <1>6, <1>7, <1>8, <1>9, <1>10, <1>11, <1>12, <1>13,
     <1>14, <1>15, <1>16 DEF Next, Edit

\* A pin is bound only as long as a node stands for it, in the editor or in the
\* graph file, unless another configuration was read, an unpainted copy saved,
\* or the algorithm removed.
THEOREM NoGhosts == Spec => []NoGhostBindings
<1> DEFINE GInv == IInv /\ Places /\ GhostInv
<1>1. Init => GInv
  <2>1. Init => Places /\ GhostInv
    BY DEF Init, Places, GhostInv, Scene, Buffer, NoNode
  <2> QED BY <2>1, InitInv
<1>2. GInv /\ [Next]_vars => GInv'
  <2>1. GInv /\ Next => GInv'
    BY NextKeeps, PlacesStep, GhostStep DEF IInv
  <2>2. GInv /\ UNCHANGED vars => GInv'
    <3> SUFFICES ASSUME GInv, UNCHANGED vars PROVE GInv'
      OBVIOUS
    <3>1. IInv'
      BY NextKeeps
    <3>2. Places' /\ GhostInv'
      BY DEF vars, Places, GhostInv, Scene, Buffer, Stands
    <3> QED BY <3>1, <3>2
  <2> QED BY <2>1, <2>2
<1>3. GInv => NoGhostBindings
  BY DEF GhostInv, Stands, NoGhostBindings, Idle
<1> QED BY <1>1, <1>2, <1>3, PTL DEF Spec

-----------------------------------------------------------------------------
(* Pins of their own.                                                      *)

\* No two nodes of a file have one pin, and all of them know theirs or, as an
\* earlier version saved them, none does.
OwnGraph(g) ==
  /\ \A m, n \in Nodes : m # n /\ g[m] # None /\ g[n] # None =>
       g[m].pin # g[n].pin \/ g[m].pin = None
  /\ \/ \A n \in Nodes : g[n] # None => g[n].pin # None
     \/ \A n \in Nodes : g[n] # None => g[n].pin = None

\* While nodes load, those that are loaded have their pins, and the pins of the
\* others are still free, when they are known.
FileInv ==
  /\ \A n \in Nodes \ loading : node[n].place # "none" =>
       node[n].pin # None /\ pin[node[n].pin] = node[n].kind
  /\ \A m, n \in Nodes : m # n /\ node[m].place # "none" /\ node[n].place # "none" =>
       node[m].pin # node[n].pin \/ node[m].pin = None
  /\ \/ \A n \in Nodes \cap loading : node[n].pin \in FreePins
     \/ \A n \in Nodes \cap loading : node[n].pin = None

\* The service has what the graph file names.
Served ==
  \A n \in Nodes : graph[n] # None =>
    graph[n].pin # None /\ pin[graph[n].pin] = graph[n].kind

OwnInv ==
  /\ "unpainted" \notin odd =>
       /\ OwnGraph(graph)
       /\ \A n \in Nodes : ~Shared(n)
       /\ loading \cap Nodes # {} => FileInv
  /\ odd \subseteq {"removed"} =>
       /\ \A n \in Scene \union Buffer : node[n].io # None
       /\ alive /\ ~open /\ loading \cap Nodes = {} => Served

\* Devices hold graphs that were saved like this one's.
GraphsOwn == \A g \in DeviceGraphs : OwnGraph(g)

LEMMA DieOwn ==
  ASSUME CoreInv, OwnInv, Die, odd' = odd \/ Odd("exhausted")
  PROVE  OwnInv'
<1>1. \A n \in Nodes : node'[n].place = "none" /\ node'[n].io = None
  BY DEF Die, NoNode
<1>2. Scene' \union Buffer' = {} /\ \A n \in Nodes : ~Shared(n)'
  BY <1>1 DEF Scene, Buffer, Shared
<1>3. "unpainted" \notin odd' => "unpainted" \notin odd
  BY DEF Odd
<1> QED BY <1>2, <1>3 DEF Die, OwnInv, OwnGraph

\* Nodes and pins are left alone.
LEMMA AsideOwn ==
  ASSUME CoreInv, OwnInv, UNCHANGED <<graph, pin, node, open, odd, alive>>,
         loading' \cap Nodes = loading \cap Nodes
  PROVE  OwnInv'
<1>1. /\ \A n \in Nodes : n \in loading' <=> n \in loading
      /\ Nodes \ loading' = Nodes \ loading /\ Nodes \cap loading' = Nodes \cap loading
  OBVIOUS
<1> QED
  BY <1>1 DEF OwnInv, OwnGraph, Shared, FileInv, Served, Scene, Buffer, FreePins

\* In the editor, as long as no two nodes are given one pin, and each is given one.
LEMMA EditorOwn ==
  ASSUME CoreInv, OwnInv, Editing, UnchangedStore,
         odd' = odd \/ Odd("exhausted"),
         (\A n \in Nodes : ~Shared(n)) => \A n \in Nodes : ~Shared(n)',
         odd' = odd /\ (\A n \in Scene \union Buffer : node[n].io # None)
           => \A n \in Scene' \union Buffer' : node'[n].io # None
  PROVE  OwnInv'
<1>1. "unpainted" \notin odd' => "unpainted" \notin odd
  BY DEF Odd
<1>2. odd' \subseteq {"removed"} => odd' = odd
  BY DEF Odd
<1>3. graph' = graph /\ open' /\ loading' \cap Nodes = {}
  BY DEF Editing, Idle, UnchangedStore
<1> QED BY <1>1, <1>2, <1>3 DEF OwnInv, OwnGraph

LEMMA OpenProjectOwn ==
  ASSUME CoreInv, OwnInv, OpenProject
  PROVE  OwnInv'
<1>1. /\ graph' = graph /\ open' = FALSE
      /\ "unpainted" \notin odd' => "unpainted" \notin odd
      /\ \A n \in Nodes : IF graph[n] = None
                          THEN /\ node'[n].place = "none" /\ node'[n].io = None
                               /\ n \notin loading'
                          ELSE /\ node'[n].place = "file" /\ node'[n].io = None
                               /\ node'[n].pin = graph[n].pin /\ n \in loading'
      /\ FreePins' = Pins
  BY EditorAssumption DEF OpenProject, NoNode, FreePins
<1>2. Scene' \union Buffer' = {} /\ \A n \in Nodes : ~Shared(n)'
  BY <1>1 DEF Scene, Buffer, Shared
<1>3. ASSUME OwnGraph(graph) PROVE FileInv'
  <2>1. \A n \in Nodes \ loading' : node'[n].place = "none"
    BY <1>1
  <2>2. \A m, n \in Nodes : m # n /\ node'[m].place # "none" /\ node'[n].place # "none" =>
          node'[m].pin # node'[n].pin \/ node'[m].pin = None
    BY <1>1, <1>3 DEF OwnGraph
  <2>3. \A n \in Nodes \cap loading' : graph[n] # None /\ node'[n].pin = graph[n].pin
                                       /\ graph[n].pin \in Pins \union {None}
    BY <1>1 DEF CoreInv, CoreType, Graphs, Entries
  <2>4. \/ \A n \in Nodes \cap loading' : node'[n].pin \in FreePins'
        \/ \A n \in Nodes \cap loading' : node'[n].pin = None
    BY <1>1, <1>3, <2>3 DEF OwnGraph
  <2> QED BY <2>1, <2>2, <2>4 DEF FileInv
<1>4. loading' \cap Nodes = {} => Served'
  BY <1>1 DEF Served
<1> QED BY <1>1, <1>2, <1>3, <1>4 DEF OwnInv, OwnGraph

\* A node that is loaded gets a pin no other node of the file has.
LEMMA LoadNodeOwn ==
  ASSUME CoreInv, Places, OwnInv, NEW n \in Nodes, LoadNode(n)
  PROVE  OwnInv'
<1>0. /\ n \in loading /\ loading' = loading \ {n} /\ open' = open /\ odd' = odd
      /\ alive' = alive /\ ~open /\ loading \cap Nodes # {} /\ node[n].place # "none"
      /\ Scene \union Buffer = {}
  BY DEF LoadNode, Loaded, Turn, Places
<1>1. PICK p \in IF node[n].pin # None THEN {node[n].pin} ELSE FreePins :
        IF p \in FreePins
        THEN /\ pin' = [pin EXCEPT ![p] = node[n].kind]
             /\ bind' = IF node[n].kind = "BI" THEN LoadTarget(bind, p)
                        ELSE LoadDriver(bind, p)
             /\ Loaded(n) /\ FileLoaded(n, p) /\ UNCHANGED alive
        ELSE /\ bind.param[p] \notin Inputs
             /\ Loaded(n) /\ FileLoaded(n, p) /\ UNCHANGED <<bind, pin, alive>>
  BY DEF LoadNode
<1>2. node[n].kind \in Kinds /\ node[n].pin \in Pins \union {None} /\ node \in [Nodes -> NodeType]
  BY DEF CoreInv, CoreType, NodeType
<1>3. p \in Pins /\ p # None /\ FileLoaded(n, p)
  BY <1>1, <1>2, Distinct DEF FreePins, Elements
<1>4. \A m \in Nodes : node'[m].io # None =>
        node'[m].io = node[m].io /\ m \in Nodes
  BY <1>3, FileLoadedType
<1>5. (\A m \in Nodes : ~Shared(m)) => \A m \in Nodes : ~Shared(m)'
  BY <1>4 DEF Shared
<1>6. Scene' \union Buffer' = {}
  <2>1. CASE loading \cap Nodes # {n}
    BY <1>0, <1>2, <1>3, <2>1 DEF FileLoaded, Scene, Buffer, NodeType
  <2>2. CASE loading \cap Nodes = {n}
    BY <1>3, <2>2 DEF FileLoaded, Scene, Buffer, NoNode
  <2> QED BY <2>1, <2>2
<1> SUFFICES ASSUME "unpainted" \notin odd
             PROVE  /\ OwnGraph(graph')
                    /\ loading' \cap Nodes # {} => FileInv'
                    /\ loading' \cap Nodes = {} => Served'
  BY <1>0, <1>5, <1>6 DEF OwnInv, OwnGraph
<1>7. FileInv /\ OwnGraph(graph)
  BY <1>0 DEF OwnInv
<1>8. p \in FreePins
  BY <1>0, <1>1, <1>7, Distinct DEF FileInv
<1>9. /\ pin' = [pin EXCEPT ![p] = node[n].kind] /\ pin'[p] = node[n].kind
      /\ pin[p] = "free" /\ FreePins' = FreePins \ {p}
      /\ \A q \in Pins \ {p} : pin'[q] = pin[q]
  BY <1>1, <1>2, <1>3, <1>8 DEF FreePins, CoreInv, CoreType, Kinds
\* What the node would name once it has its pin.
<1> DEFINE Name(m) == IF m = n THEN p ELSE node[m].pin
<1>10. ASSUME NEW m \in Nodes \ {n}, m \notin loading, node[m].place # "none"
       PROVE  node[m].pin \in Pins \ {p} /\ pin'[node[m].pin] = node[m].kind
  <2>1. node[m].pin # None /\ pin[node[m].pin] = node[m].kind
    BY <1>7, <1>10 DEF FileInv
  <2>2. node[m].pin \in Pins /\ node[m].kind # "free"
    BY <2>1 DEF CoreInv, CoreType, NodeType, Kinds
  <2> QED BY <1>9, <2>1, <2>2
<1>11. ASSUME NEW m \in Nodes \ {n}, m \in loading
       PROVE  node[m].pin # p
  <2>1. CASE node[m].pin = None
    BY <1>3, <2>1
  <2>2. CASE node[m].pin # None
    <3>1. node[n].pin # None
      BY <1>0, <1>3, <1>11, <1>7, <2>2, Distinct DEF FileInv, FreePins, Elements
    <3>2. p = node[n].pin
      BY <1>1, <3>1
    <3>3. node[m].place # "none"
      BY <1>11 DEF Places
    <3> QED BY <1>0, <1>7, <2>2, <3>2, <3>3 DEF FileInv
  <2> QED BY <2>1, <2>2
<1>12. \A m \in Nodes \ {n} : node[m].place # "none" => node[m].pin # p
  BY <1>10, <1>11
<1>13. \A l, m \in Nodes : l # m /\ node[l].place # "none" /\ node[m].place # "none" =>
         Name(l) # Name(m) \/ Name(l) = None
  <2> SUFFICES ASSUME NEW l \in Nodes, NEW m \in Nodes, l # m,
                      node[l].place # "none", node[m].place # "none"
               PROVE  Name(l) # Name(m) \/ Name(l) = None
    OBVIOUS
  <2>1. CASE l = n
    BY <1>12, <2>1
  <2>2. CASE m = n
    BY <1>12, <2>2
  <2>3. CASE l # n /\ m # n
    BY <1>7, <2>3 DEF FileInv
  <2> QED BY <2>1, <2>2, <2>3
<1> HIDE DEF Name
<1>14. CASE loading \cap Nodes # {n}
  <2>1. /\ graph' = graph /\ loading' \cap Nodes # {}
        /\ node' = [node EXCEPT ![n] = [node[n] EXCEPT !.pin = p]]
    BY <1>0, <1>3, <1>14 DEF FileLoaded
  <2>2. \A m \in Nodes : /\ node'[m].place = node[m].place /\ node'[m].kind = node[m].kind
                         /\ node'[m].pin = Name(m)
    BY <1>2, <2>1 DEF NodeType, Name
  <2>3. \A m \in Nodes \ loading' : node'[m].place # "none" =>
          node'[m].pin # None /\ pin'[node'[m].pin] = node'[m].kind
    BY <1>0, <1>3, <1>9, <1>10, <2>2, Distinct DEF Name, Elements
  <2>4. \A l, m \in Nodes : l # m /\ node'[l].place # "none" /\ node'[m].place # "none" =>
          node'[l].pin # node'[m].pin \/ node'[l].pin = None
    BY <1>13, <2>2
  <2>5. \/ \A m \in Nodes \cap loading' : node'[m].pin \in FreePins'
        \/ \A m \in Nodes \cap loading' : node'[m].pin = None
    BY <1>0, <1>7, <1>9, <1>11, <2>2 DEF FileInv, Name
  <2> QED BY <1>7, <2>1, <2>3, <2>4, <2>5 DEF FileInv
<1>15. CASE loading \cap Nodes = {n}
  <2>1. /\ loading' \cap Nodes = {}
        /\ graph' = [m \in Nodes |-> IF node[m].place = "none" THEN None
                                     ELSE [kind |-> node[m].kind, pin |-> Name(m)]]
    BY <1>0, <1>3, <1>15 DEF FileLoaded, Name
  <2>2. \A m \in Nodes : graph'[m] # None =>
          /\ node[m].place # "none" /\ graph'[m].pin = Name(m)
          /\ graph'[m].kind = node[m].kind
          /\ Name(m) # None /\ pin'[Name(m)] = node[m].kind
    BY <1>3, <1>9, <1>10, <1>15, <2>1, Distinct DEF Name, Elements
  <2>3. OwnGraph(graph')
    BY <1>13, <2>2 DEF OwnGraph
  <2>4. Served'
    BY <2>2 DEF Served
  <2> QED BY <2>1, <2>3, <2>4
<1> QED BY <1>14, <1>15

LEMMA OpenEditorOwn ==
  ASSUME CoreInv, OwnInv, OpenEditor
  PROVE  OwnInv'
<1>1. \A n \in Nodes : /\ node'[n].io # None => /\ graph[n] # None
                                                /\ node'[n].io = graph[n].pin
                       /\ graph[n] = None => node'[n].place = "none"
                       /\ graph[n] # None => node'[n].io = ServiceAt(graph[n].pin, graph[n].kind)
  BY DEF OpenEditor, NoNode, ServiceAt
<1>2. /\ graph' = graph /\ odd' = odd /\ open' /\ alive /\ ~open /\ loading = {} /\ loading' = {}
  BY DEF OpenEditor, Forms, Idle
<1>3. OwnGraph(graph) => \A n \in Nodes : ~Shared(n)'
  BY <1>1 DEF OwnGraph, Shared
<1>4. Served => \A n \in Scene' \union Buffer' : node'[n].io # None
  BY <1>1 DEF Served, ServiceAt, Scene, Buffer
<1> QED BY <1>2, <1>3, <1>4 DEF OwnInv, OwnGraph

\* Closing saves the pins that nodes hold, when all were painted.
LEMMA CloseEditorOwn ==
  ASSUME CoreInv, OwnInv, CloseEditor
  PROVE  OwnInv'
<1>1. \A n \in Nodes : node'[n].place = "none" /\ node'[n].io = None
  BY DEF CloseEditor, NoNode
<1>2. Scene' \union Buffer' = {} /\ \A n \in Nodes : ~Shared(n)'
  BY <1>1 DEF Scene, Buffer, Shared
<1>3. CASE \A n \in Scene : Seen(n)
  <2>1. \A n \in Nodes : graph'[n] # None =>
          /\ graph'[n].pin = node[n].io /\ node[n].io # None
          /\ graph'[n].kind = node[n].kind /\ pin[node[n].io] = node[n].kind
    BY <1>3 DEF CloseEditor, Seen, CoreInv, NodePins
  <2>2. Served'
    BY <2>1 DEF Served, CloseEditor
  <2>3. (\A n \in Nodes : ~Shared(n)) => OwnGraph(graph')
    BY <2>1 DEF Shared, OwnGraph
  <2>4. odd' = odd /\ loading' = {}
    BY <1>3 DEF CloseEditor, Editing, Idle
  <2> QED BY <1>2, <2>2, <2>3, <2>4 DEF OwnInv, OwnGraph
<1>4. CASE ~ \A n \in Scene : Seen(n)
  BY <1>4 DEF CloseEditor, Odd, OwnInv
<1> QED BY <1>3, <1>4

LEMMA RemoveAlgorithmOwn ==
  ASSUME CoreInv, Places, OwnInv, RemoveAlgorithm
  PROVE  OwnInv'
<1>1. /\ \A n \in Nodes : graph'[n] = None
      /\ Scene \union Buffer = {} /\ node' = node /\ odd \subseteq {"removed"} /\ loading' = {}
  BY DEF RemoveAlgorithm, Forms, Idle, Places, Odd
<1> QED BY <1>1 DEF OwnInv, OwnGraph, Served, Shared, Scene, Buffer

LEMMA ReadConfigOwn ==
  ASSUME GraphsOwn, CoreInv, OwnInv, ReadConfig
  PROVE  OwnInv'
<1>1. OwnGraph(graph') /\ odd \subseteq {"foreign"} /\ odd' = {"foreign"}
      /\ node' = node /\ loading' = {}
  BY DEF ReadConfig, GraphsOwn, Odd, Forms, Idle
<1> QED BY <1>1 DEF OwnInv, OwnGraph, Shared

LEMMA OwnStep ==
  ASSUME GraphsOwn, CoreInv, Places, OwnInv, Next
  PROVE  OwnInv'
<1>0. /\ node \in [Nodes -> NodeType] /\ None \notin Pins /\ NoNode.io = None
      /\ NoNode.place = "none"
  BY Distinct DEF CoreInv, CoreType, Elements, NoNode
<1>1. CASE OpenProject
  BY <1>1, OpenProjectOwn
<1>2. CASE CloseEditor
  BY <1>2, CloseEditorOwn
<1>3. ASSUME NEW e \in Elements \ Pins, LoadElement(e) PROVE OwnInv'
  BY <1>3, AsideOwn, EditorAssumption DEF LoadElement, Loaded
<1>4. ASSUME NEW n \in Nodes, LoadNode(n) PROVE OwnInv'
  BY <1>4, LoadNodeOwn
<1>5. ASSUME NEW n \in Nodes, LoadNodeDies(n) PROVE OwnInv'
  BY <1>5, DieOwn DEF LoadNodeDies
<1>6. ASSUME NEW n \in Nodes, Paint(n) PROVE OwnInv'
  <2>1. CASE Die
    BY <1>6, <2>1, DieOwn DEF Paint
  <2>2. CASE node' = [node EXCEPT ![n].pin = node[n].io] /\ UnchangedStore
    <3>1. \A m \in Nodes : node'[m].io = node[m].io /\ node'[m].place = node[m].place
      BY <1>0, <2>2 DEF NodeType
    <3> QED BY <1>6, <2>2, <3>1, EditorOwn DEF Paint, Shared, Scene, Buffer
  <2> QED BY <1>6, <2>1, <2>2 DEF Paint
<1>7. CASE EditForms
  BY <1>7, AsideOwn DEF EditForms
<1>8. CASE ReadConfig
  BY <1>8, ReadConfigOwn
<1>9. CASE OpenEditor
  BY <1>9, OpenEditorOwn
<1>10. CASE Paste
  <2>1. \A m \in Nodes : /\ node'[m].io = node[m].io
                         /\ m \in Scene' \union Buffer' => m \in Scene \union Buffer
    BY <1>0, <1>10 DEF Paste, NodeType, Scene, Buffer
  <2>2. (\A n \in Nodes : ~Shared(n)) => \A n \in Nodes : ~Shared(n)'
    BY <2>1 DEF Shared
  <2>3. (\A n \in Scene \union Buffer : node[n].io # None)
          => \A n \in Scene' \union Buffer' : node'[n].io # None
    BY <2>1 DEF Scene, Buffer
  <2> QED BY <1>10, <2>2, <2>3, EditorOwn DEF Paste
<1>11. CASE RemoveAlgorithm
  BY <1>11, RemoveAlgorithmOwn
<1>12. ASSUME NEW m \in Nodes, NEW p \in FreePins, NEW x, x.io = p,
              node' = [node EXCEPT ![m] = x], Editing, UnchangedStore, odd' = odd
       PROVE  OwnInv'
  <2>1. \A n \in Nodes : node[n].io # p
    <3>1. pin[p] \notin Kinds /\ p \in Pins
      BY DEF FreePins, Kinds
    <3> QED BY <1>0, <3>1 DEF CoreInv, CoreType, NodePins, NodeType
  <2>2. \A n \in Nodes : node'[n] = IF n = m THEN x ELSE node[n]
    BY <1>0, <1>12
  <2>3. (\A n \in Nodes : ~Shared(n)) => \A n \in Nodes : ~Shared(n)'
    BY <1>12, <2>1, <2>2 DEF Shared
  <2>4. (\A n \in Scene \union Buffer : node[n].io # None)
          => \A n \in Scene' \union Buffer' : node'[n].io # None
    BY <1>0, <1>12, <2>2 DEF Scene, Buffer, FreePins
  <2> QED BY <1>12, <2>3, <2>4, EditorOwn
<1>13. ASSUME NEW m \in Nodes, AddNode(m) PROVE OwnInv'
  <2>1. CASE FreePins = {} /\ Odd("exhausted") /\ Die
    BY <2>1, DieOwn
  <2>2. CASE \E kind \in Kinds, p \in FreePins :
               /\ pin' = [pin EXCEPT ![p] = kind]
               /\ node' = [node EXCEPT ![m] = [place |-> "scene", kind |-> kind,
                                               io |-> p, pin |-> p]]
               /\ UnchangedStore /\ UNCHANGED <<bind, alive, odd>>
    BY <1>12, <1>13, <2>2 DEF AddNode
  <2> QED BY <1>13, <2>1, <2>2 DEF AddNode
<1>14. ASSUME NEW n \in Nodes, NEW m \in Nodes, CopyNode(n, m) PROVE OwnInv'
  <2>1. \A p : [node[n] EXCEPT !.place = "buffer", !.io = p].io = p
    BY <1>0 DEF NodeType
  <2>2. CASE \E p \in FreePins :
               /\ node' = [node EXCEPT ![m] = [node[n] EXCEPT !.place = "buffer", !.io = p]]
               /\ UNCHANGED odd
    <3>1. PICK p \in FreePins :
            /\ node' = [node EXCEPT ![m] = [node[n] EXCEPT !.place = "buffer", !.io = p]]
            /\ UNCHANGED odd
      BY <2>2
    <3>2. Editing /\ UnchangedStore
      BY <1>14 DEF CopyNode
    <3> QED BY <1>12, <2>1, <3>1, <3>2
  <2>3. CASE /\ Odd("exhausted")
             /\ node' = [node EXCEPT ![m] = [node[n] EXCEPT !.place = "buffer", !.io = None]]
    <3>1. \A k \in Nodes : node'[k].io # None => node'[k].io = node[k].io
      BY <1>0, <2>1, <2>3
    <3>2. (\A k \in Nodes : ~Shared(k)) => \A k \in Nodes : ~Shared(k)'
      BY <3>1 DEF Shared
    <3>3. odd' \subseteq {"removed"} => FALSE
      BY <2>3 DEF Odd
    <3>4. "unpainted" \notin odd
      BY <2>3 DEF Odd
    <3>5. Editing /\ UnchangedStore
      BY <1>14 DEF CopyNode
    <3> QED
      BY <3>2, <3>3, <3>4, <3>5 DEF OwnInv, OwnGraph, UnchangedStore, Editing, Idle
  <2> QED BY <1>14, <2>2, <2>3 DEF CopyNode
<1>15. ASSUME NEW n \in Nodes, BindNode(n) \/ RemoveLink(n) PROVE OwnInv'
  BY <1>15, EditorOwn DEF BindNode, RemoveLink, Shared, Scene, Buffer
<1>16. ASSUME NEW n \in Nodes, RemoveNode(n) PROVE OwnInv'
  <2>1. CASE Die
    BY <1>16, <2>1, DieOwn DEF RemoveNode
  <2>2. CASE node' = [node EXCEPT ![n] = NoNode] /\ UnchangedStore
    <3>1. \A m \in Nodes : node'[m] = IF m = n THEN NoNode ELSE node[m]
      BY <1>0, <2>2
    <3>2. (\A m \in Nodes : ~Shared(m)) => \A m \in Nodes : ~Shared(m)'
      BY <1>0, <3>1 DEF Shared
    <3>3. (\A m \in Scene \union Buffer : node[m].io # None)
            => \A m \in Scene' \union Buffer' : node'[m].io # None
      BY <1>0, <3>1 DEF Scene, Buffer
    <3> QED BY <1>16, <2>2, <3>2, <3>3, EditorOwn DEF RemoveNode
  <2> QED BY <1>16, <2>1, <2>2 DEF RemoveNode
<1> QED
  BY <1>1, <1>2, <1>3, <1>4, <1>5, <1>6, <1>7, <1>8, <1>9, <1>10, <1>11, <1>13,
     <1>14, <1>15, <1>16 DEF Next, Edit

\* Every node of the editor has a pin of its own, and no two nodes of the graph
\* file have one, whatever is added, copied, removed, saved and loaded again,
\* if the graphs devices hold have it so.
THEOREM PinsOwned ==
  ASSUME GraphsOwn
  PROVE  Spec => []OwnPins
<1> DEFINE PInv == IInv /\ Places /\ OwnInv
<1>1. Init => PInv
  <2>1. Init => Places /\ OwnInv
    BY DEF Init, Places, OwnInv, GraphsOwn, OwnGraph, Shared, Scene, Buffer, NoNode
  <2> QED BY <2>1, InitInv
<1>2. PInv /\ [Next]_vars => PInv'
  <2>1. PInv /\ Next => PInv'
    BY NextKeeps, PlacesStep, OwnStep DEF IInv
  <2>2. PInv /\ UNCHANGED vars => PInv'
    <3> SUFFICES ASSUME PInv, UNCHANGED vars PROVE PInv'
      OBVIOUS
    <3>1. IInv'
      BY NextKeeps
    <3>2. Places'
      BY DEF vars, Places, Scene, Buffer
    <3>3. OwnInv'
      BY AsideOwn DEF vars, IInv
    <3> QED BY <3>1, <3>2, <3>3
  <2> QED BY <2>1, <2>2
<1>3. PInv => OwnPins
  BY DEF OwnInv, OwnGraph, OwnPins, IInv, CoreInv, NodePins, Scene, Buffer
<1> QED BY <1>1, <1>2, <1>3, PTL DEF Spec

-----------------------------------------------------------------------------
(* Bindings that survive closing and opening.                              *)

InGraph == {n \in Nodes : graph[n] # None}
Names(n) == graph[n].pin

\* What may drive a virtual input, and what its driver is when all is loaded.
Sources == AlgOuts \union Funcs \union {Names(n) : n \in {m \in InGraph : graph[m].kind = "BO"}}

\* The links k can be made again from what is stored: the parameters and the
\* graph name them, each virtual input has one driver, and the file that loads
\* is the graph.
Stored(k) ==
  /\ alive /\ ~open
  /\ \A e \in Elements \ Pins : bind.param[e] = k[e]
  /\ \A n \in InGraph : Names(n) \in Pins /\ bind.param[Names(n)] = k[Names(n)]
  /\ \A m, n \in InGraph : m # n => Names(m) # Names(n)
  /\ \A p \in Pins : k[p] # None => \E n \in InGraph : Names(n) = p
  /\ \A d \in Sources : k[d] \in Virtual \union {None}
  /\ \A d, e \in Sources : d # e /\ k[d] # None => k[d] # k[e]
  /\ loading \cap Nodes \subseteq InGraph
  /\ loading \cap Nodes # {} => \A n \in Nodes :
       IF graph[n] = None THEN node[n].place = "none"
       ELSE node[n].place # "none" /\ node[n].kind = graph[n].kind /\ node[n].pin = graph[n].pin

\* What has been loaded is bound as in k, and nothing else is bound.
Remade(k) ==
  /\ \A e \in Elements \ Pins : Link(bind, e) = IF e \in loading THEN None ELSE k[e]
  /\ \A p \in Pins : Link(bind, p) = IF \E n \in InGraph \ loading : Names(n) = p
                                     THEN k[p] ELSE None
  /\ \A n \in loading \cap Nodes : pin[Names(n)] = "free"
  /\ \A n \in InGraph \ loading : pin[Names(n)] = graph[n].kind

Keeping(k) == Stored(k) /\ Remade(k)

KeptInv == loading # {} /\ kept # None => Keeping(kept)

\* What has no link has neither end of one.
LEMMA NoLink ==
  ASSUME CoreInv, NEW e \in Elements, Link(bind, e) = None
  PROVE  /\ e \in Targets => bind.source[e] = None
         /\ e \in Drivers => bind.target[e] = None
BY DEF Link

\* What drives nothing but what it may: every target of a driver is one of k,
\* and of a driver in Sources.
LEMMA TargetsOf ==
  ASSUME CoreInv, NEW k, Keeping(k), NEW d \in Drivers, bind.target[d] # None
  PROVE  d \in Sources /\ bind.target[d] = k[d] /\ d \notin loading
<1>1. d \in Elements /\ Drivers = AlgOuts \union Funcs \union Pins
  BY DEF Elements, Drivers
<1>2. d \in AlgOuts \union Funcs => d \notin Targets /\ d \notin Pins
  BY BindingsAssumption DEF Targets, Drivers
<1>3. CASE d \in AlgOuts \union Funcs
  <2>1. Link(bind, d) = bind.target[d]
    BY <1>2, <1>3 DEF Link
  <2> QED BY <1>1, <1>2, <1>3, <2>1 DEF Keeping, Remade, Sources
<1>4. CASE d \in Pins
  <2>1. bind.source[d] = None /\ pin[d] = "BO"
    BY <1>4 DEF CoreInv, OneWay
  <2>2. Link(bind, d) = bind.target[d]
    BY <2>1 DEF Link
  <2>3. PICK n \in InGraph \ loading : Names(n) = d
    BY <1>4, <2>2 DEF Keeping, Remade
  <2>4. graph[n].kind = "BO" /\ bind.target[d] = k[d]
    BY <1>4, <2>1, <2>2, <2>3 DEF Keeping, Remade
  <2>5. d \notin loading
    BY <1>4, EditorAssumption DEF CoreInv, CoreType, Elements, Targets
  <2> QED BY <2>3, <2>4, <2>5 DEF Sources
<1> QED BY <1>1, <1>3, <1>4

\* A driver that is loaded takes its input from nobody.
LEMMA DriverLoaded ==
  ASSUME CoreInv, NEW k, Keeping(k), NEW d \in Drivers, d \in Sources,
         Link(bind, d) = None, k[d] \in Virtual,
         NEW c, c = SetTarget(bind, d, k[d])
  PROVE  /\ bind.driver[k[d]] = None
         /\ c.param = [bind.param EXCEPT ![d] = k[d]]
         /\ Link(c, d) = k[d]
         /\ \A e \in Elements \ {d} : Link(c, e) = Link(bind, e)
<1>0. Good(bind) /\ bind \in Bindings /\ d \in Elements /\ None \notin Virtual
  BY Distinct DEF CoreInv, CoreType, Good, Elements
<1>1. Targeted(bind, c, d, k[d])
  BY <1>0, SetTargetFields
<1>2. bind.target[d] = None /\ (d \in Targets => bind.source[d] = None)
  BY <1>0, NoLink
<1>3. \A e \in Drivers \ {d} : bind.target[e] # k[d]
  BY <1>0, TargetsOf DEF Keeping, Stored
<1>4. bind.driver[k[d]] = None
  BY <1>0, <1>2, <1>3 DEF Good, Agree, Bindings
<1>5. /\ c.source = bind.source /\ c.target[d] = k[d]
      /\ \A e \in Drivers \ {d} : c.target[e] = bind.target[e]
  BY <1>1, <1>3 DEF Targeted
<1>6. Link(c, d) = k[d] /\ \A e \in Elements \ {d} : Link(c, e) = Link(bind, e)
  BY <1>2, <1>5 DEF Link
<1>7. c.param = [bind.param EXCEPT ![d] = k[d]]
  <2>1. c.param \in [Elements -> Inputs \union {None}] /\ bind.param \in [Elements -> Inputs \union {None}]
    BY <1>0, <1>1 DEF Targeted, Bindings
  <2>2. c.param[d] = k[d] /\ \A e \in Elements \ {d} : c.param[e] = bind.param[e]
    BY <1>0, <1>1, <1>2, <1>5 DEF Targeted
  <2> QED BY <2>1, <2>2
<1> QED BY <1>4, <1>6, <1>7

\* So a driver, or a function, ends with its link of k, and so does a target.
LEMMA ElementLoaded ==
  ASSUME CoreInv, NEW k, Keeping(k), NEW e \in Elements, Link(bind, e) = None,
         bind.param[e] = k[e],
         NEW c,
         \/ e \in Sources /\ e \in Drivers /\ c \in {LoadDriver(bind, e), LoadFunction(bind, e)}
         \/ e \in Targets /\ e \notin Sources /\ c = LoadTarget(bind, e)
  PROVE  /\ c.param = bind.param
         /\ Link(c, e) = k[e]
         /\ \A x \in Elements \ {e} : Link(c, x) = Link(bind, x)
<1>0. Good(bind) /\ bind \in Bindings /\ bind.param \in [Elements -> Inputs \union {None}]
  BY DEF CoreInv, CoreType, Good, Bindings
<1>1. CASE e \in Sources /\ e \in Drivers /\ c \in {LoadDriver(bind, e), LoadFunction(bind, e)}
  <2>1. k[e] \in Virtual \union {None}
    BY <1>1 DEF Keeping, Stored
  <2>2. CASE k[e] \in Virtual
    <3>1. bind.driver[k[e]] = None
      BY <1>1, <2>2, DriverLoaded
    <3>2. c = SetTarget(bind, e, k[e])
      BY <1>1, <2>2, <3>1 DEF LoadDriver, LoadFunction
    <3>3. /\ c.param = [bind.param EXCEPT ![e] = k[e]] /\ Link(c, e) = k[e]
          /\ \A x \in Elements \ {e} : Link(c, x) = Link(bind, x)
      BY <1>1, <2>2, <3>2, DriverLoaded
    <3> QED BY <1>0, <3>3
  <2>3. CASE k[e] = None
    <3>1. c = bind
      BY <1>1, <2>3, Distinct DEF LoadDriver, LoadFunction
    <3> QED BY <2>3, <3>1
  <2> QED BY <2>1, <2>2, <2>3
<1>2. CASE e \in Targets /\ e \notin Sources /\ c = LoadTarget(bind, e)
  <2>1. CASE bind.param[e] \in Inputs
    <3>1. c = SetSource(bind, e, k[e]) /\ k[e] \in Inputs /\ k[e] # None
      BY <1>2, <2>1, Distinct DEF LoadTarget
    <3>2. Sourced(bind, c, e, k[e])
      BY <1>0, <1>2, <3>1, SetSourceFields
    <3>3. Link(c, e) = k[e] /\ \A x \in Elements \ {e} : Link(c, x) = Link(bind, x)
      BY <1>2, <3>1, <3>2 DEF Sourced, Link
    <3>4. bind.source[e] = None
      BY <1>2, NoLink
    <3>5. c.param \in [Elements -> Inputs \union {None}] /\ c.param[e] = bind.param[e]
          /\ \A x \in Elements \ {e} : c.param[x] = bind.param[x]
      BY <3>1, <3>2, <3>4 DEF Sourced, Bindings
    <3> QED BY <1>0, <3>3, <3>5
  <2>2. CASE bind.param[e] \notin Inputs
    <3>1. k[e] = None /\ c = bind
      BY <1>0, <1>2, <2>2 DEF LoadTarget
    <3> QED BY <3>1
  <2> QED BY <2>1, <2>2
<1> QED BY <1>1, <1>2

LEMMA LoadElementKeeping ==
  ASSUME CoreInv, NEW k, Keeping(k), NEW e \in Elements \ Pins, LoadElement(e)
  PROVE  Keeping(k)'
<1>0. /\ e \in loading /\ loading' = loading \ {e} /\ e \notin Nodes
      /\ UNCHANGED <<graph, pin, node, open, alive>>
  BY EditorAssumption DEF LoadElement, Loaded, Turn
<1>1. Link(bind, e) = None /\ bind.param[e] = k[e]
  BY <1>0 DEF Keeping, Stored, Remade
<1>2. Sources \subseteq AlgOuts \union Funcs \union Pins
  BY DEF Sources, Keeping, Stored
<1>3. /\ e \in Drivers => e \in AlgOuts \union Funcs
      /\ e \notin Drivers => e \in Targets /\ e \notin Sources
      /\ e \in AlgOuts \union Funcs => e \in Sources
      /\ e \in Funcs => e \in Drivers
  BY <1>2 DEF Drivers, Elements, Sources
<1>4. \/ e \in Sources /\ e \in Drivers /\ bind' \in {LoadDriver(bind, e), LoadFunction(bind, e)}
      \/ e \in Targets /\ e \notin Sources /\ bind' = LoadTarget(bind, e)
  BY <1>3 DEF LoadElement
<1>5. /\ bind'.param = bind.param
      /\ Link(bind', e) = k[e]
      /\ \A x \in Elements \ {e} : Link(bind', x) = Link(bind, x)
  BY <1>1, <1>4, ElementLoaded
<1>6. InGraph' = InGraph /\ (\A n \in Nodes : Names(n)' = Names(n)) /\ Sources' = Sources
  BY <1>0 DEF InGraph, Names, Sources
<1>7. \A n \in Nodes : n \in loading' <=> n \in loading
  BY <1>0
<1>8. Stored(k)'
  <2>1. loading' \cap Nodes = loading \cap Nodes
    BY <1>7
  <2> QED BY <1>0, <1>5, <1>6, <2>1 DEF Keeping, Stored, InGraph
<1>9. Remade(k)'
  <2>1. \A x \in Elements \ Pins : Link(bind', x) = IF x \in loading' THEN None ELSE k[x]
    BY <1>0, <1>5 DEF Keeping, Remade
  <2>2. ASSUME NEW p \in Pins
        PROVE  Link(bind', p) = IF \E n \in InGraph' \ loading' : Names(n)' = p
                                THEN k[p] ELSE None
    <3>1. Link(bind', p) = Link(bind, p)
      BY <1>5, Distinct DEF Elements
    <3>2. (\E n \in InGraph' \ loading' : Names(n)' = p) <=> \E n \in InGraph \ loading : Names(n) = p
      BY <1>6, <1>7 DEF InGraph
    <3> QED BY <3>1, <3>2 DEF Keeping, Remade
  <2>3. /\ \A n \in loading' \cap Nodes : pin'[Names(n)'] = "free"
        /\ \A n \in InGraph' \ loading' : pin'[Names(n)'] = graph'[n].kind
    BY <1>0, <1>6, <1>7 DEF Keeping, Remade, InGraph
  <2> QED BY <2>1, <2>2, <2>3 DEF Remade
<1> QED BY <1>8, <1>9 DEF Keeping

\* A node finds the pin of its number free, and the graph file is saved as it was.
LEMMA LoadNodeKeeping ==
  ASSUME CoreInv, NEW k, Keeping(k), NEW n \in Nodes, LoadNode(n)
  PROVE  Keeping(k)'
<1> DEFINE p == Names(n)
<1>0. /\ n \in loading /\ loading' = loading \ {n} /\ n \notin Elements
      /\ UNCHANGED <<open, alive>>
  BY EditorAssumption DEF LoadNode, Loaded, Turn
<1>1. /\ n \in InGraph /\ p \in Pins /\ pin[p] = "free" /\ p \in FreePins
      /\ node[n].pin = p /\ node[n].kind = graph[n].kind /\ node[n].kind \in Kinds
  BY <1>0 DEF Keeping, Stored, Remade, InGraph, Names, FreePins, CoreInv, CoreType, NodeType
<1> HIDE DEF p
<1>2. p # None
  BY <1>1, Distinct DEF Elements
<1>3. /\ pin' = [pin EXCEPT ![p] = node[n].kind]
      /\ bind' = IF node[n].kind = "BI" THEN LoadTarget(bind, p) ELSE LoadDriver(bind, p)
      /\ FileLoaded(n, p)
  BY <1>1, <1>2 DEF LoadNode
<1>4. \A m \in Nodes : IF graph[m] = None THEN node[m].place = "none"
                       ELSE /\ node[m].place # "none" /\ node[m].kind = graph[m].kind
                            /\ node[m].pin = graph[m].pin
                            /\ graph[m] = [kind |-> graph[m].kind, pin |-> graph[m].pin]
  BY <1>0 DEF Keeping, Stored, CoreInv, CoreType, Graphs, Entries
<1>5. /\ graph' = graph
      /\ loading' \cap Nodes # {} => node' = node
  <2>1. CASE loading \cap Nodes # {n}
    <3>1. graph' = graph /\ node' = [node EXCEPT ![n].pin = p]
      BY <1>3, <2>1 DEF FileLoaded
    <3>2. node' = node
      BY <1>1, <3>1 DEF CoreInv, CoreType, NodeType
    <3> QED BY <3>1, <3>2
  <2>2. CASE loading \cap Nodes = {n}
    <3>1. graph' = [m \in Nodes |-> IF node[m].place = "none" THEN None
                                    ELSE [kind |-> node[m].kind,
                                          pin |-> IF m = n THEN p ELSE node[m].pin]]
      BY <1>3, <2>2 DEF FileLoaded
    <3>2. \A m \in Nodes : graph'[m] = graph[m]
      BY <1>1, <1>4, <3>1
    <3>3. graph' = graph
      BY <3>1, <3>2 DEF CoreInv, CoreType, Graphs
    <3> QED BY <1>0, <2>2, <3>3
  <2> QED BY <2>1, <2>2
<1>6. InGraph' = InGraph /\ (\A m \in Nodes : Names(m)' = Names(m)) /\ Sources' = Sources
  BY <1>5 DEF InGraph, Names, Sources
<1>7. \A m \in InGraph \ {n} : Names(m) # p
  BY <1>1 DEF Keeping, Stored, p
<1>8. ~ \E m \in InGraph \ loading : Names(m) = p
  BY <1>0, <1>7
<1>9. Link(bind, p) = None /\ bind.param[p] = k[p]
  BY <1>1, <1>8 DEF Keeping, Stored, Remade, p
<1>10. p \in Elements /\ p \in Targets /\ p \in Drivers /\ p \notin AlgOuts \union Funcs
  BY <1>1, Distinct, BindingsAssumption
<1>11. node[n].kind = "BO" => p \in Sources
  BY <1>1 DEF Sources, p
<1>12. node[n].kind = "BI" => p \notin Sources
  <2>1. ASSUME node[n].kind = "BI", p \in Sources PROVE FALSE
    <3>1. PICK m \in InGraph : graph[m].kind = "BO" /\ Names(m) = p
      BY <1>10, <2>1 DEF Sources
    <3> QED BY <1>1, <1>7, <2>1, <3>1
  <2> QED BY <2>1
<1>13. /\ bind'.param = bind.param
       /\ Link(bind', p) = k[p]
       /\ \A x \in Elements \ {p} : Link(bind', x) = Link(bind, x)
  <2>1. \/ p \in Sources /\ p \in Drivers /\ bind' \in {LoadDriver(bind, p), LoadFunction(bind, p)}
        \/ p \in Targets /\ p \notin Sources /\ bind' = LoadTarget(bind, p)
    BY <1>1, <1>3, <1>10, <1>11, <1>12 DEF Kinds
  <2> QED BY <1>9, <1>10, <2>1, ElementLoaded
<1>14. Stored(k)'
  <2>1. loading' \cap Nodes \subseteq InGraph'
    BY <1>0, <1>6 DEF Keeping, Stored
  <2>2. loading' \cap Nodes # {} => \A m \in Nodes :
          IF graph'[m] = None THEN node'[m].place = "none"
          ELSE node'[m].place # "none" /\ node'[m].kind = graph'[m].kind
               /\ node'[m].pin = graph'[m].pin
    BY <1>4, <1>5
  <2>3. /\ \A m \in InGraph' : Names(m)' \in Pins /\ bind'.param[Names(m)'] = k[Names(m)']
        /\ \A l, m \in InGraph' : l # m => Names(l)' # Names(m)'
        /\ \A q \in Pins : k[q] # None => \E m \in InGraph' : Names(m)' = q
    BY <1>6, <1>13 DEF Keeping, Stored, InGraph
  <2> QED BY <1>0, <1>6, <1>13, <2>1, <2>2, <2>3 DEF Keeping, Stored
<1>15. Remade(k)'
  <2>1. ASSUME NEW x \in Elements \ Pins
        PROVE  Link(bind', x) = IF x \in loading' THEN None ELSE k[x]
    BY <1>0, <1>1, <1>13 DEF Keeping, Remade
  <2>2. ASSUME NEW q \in Pins
        PROVE  Link(bind', q) = IF \E m \in InGraph' \ loading' : Names(m)' = q
                                THEN k[q] ELSE None
    <3>1. CASE q = p
      <4>1. Names(n)' = p /\ n \in InGraph' \ loading'
        BY <1>0, <1>1, <1>6 DEF p
      <4> QED BY <1>13, <3>1, <4>1
    <3>2. CASE q # p
      <4>1. (\E m \in InGraph' \ loading' : Names(m)' = q) <=> \E m \in InGraph \ loading : Names(m) = q
        <5>1. Names(n) # q
          BY <3>2 DEF p
        <5> QED BY <1>0, <1>6, <5>1 DEF InGraph
      <4>2. Link(bind', q) = Link(bind, q)
        BY <1>13, <3>2, Distinct DEF Elements
      <4> QED BY <4>1, <4>2 DEF Keeping, Remade
    <3> QED BY <3>1, <3>2
  <2>3. \A q \in Pins \ {p} : pin'[q] = pin[q]
    BY <1>3
  <2>4. pin'[p] = node[n].kind
    BY <1>1, <1>3 DEF CoreInv, CoreType
  <2>5. \A m \in InGraph : Names(m) \in Pins
    BY DEF Keeping, Stored
  <2>6. \A m \in loading' \cap Nodes : pin'[Names(m)'] = "free"
    <3> SUFFICES ASSUME NEW m \in loading' \cap Nodes PROVE pin'[Names(m)'] = "free"
      OBVIOUS
    <3>1. m \in InGraph \ {n} /\ m \in loading
      BY <1>0 DEF Keeping, Stored
    <3> QED BY <1>6, <1>7, <2>3, <2>5, <3>1 DEF Keeping, Remade
  <2>7. \A m \in InGraph' \ loading' : pin'[Names(m)'] = graph'[m].kind
    <3> SUFFICES ASSUME NEW m \in InGraph' \ loading' PROVE pin'[Names(m)'] = graph'[m].kind
      OBVIOUS
    <3>1. m \in InGraph /\ m \in Nodes /\ Names(m)' = Names(m) /\ graph'[m] = graph[m]
      BY <1>5, <1>6 DEF InGraph
    <3>2. CASE m = n
      BY <1>1, <2>4, <3>1, <3>2 DEF p
    <3>3. CASE m # n
      <4>1. m \in InGraph \ loading /\ Names(m) # p /\ Names(m) \in Pins
        BY <1>0, <1>7, <2>5, <3>1, <3>3
      <4> QED BY <2>3, <3>1, <4>1 DEF Keeping, Remade
    <3> QED BY <3>2, <3>3
  <2> QED BY <2>1, <2>2, <2>6, <2>7 DEF Remade
<1> QED BY <1>14, <1>15 DEF Keeping

\* A project that is opened after all was stored.
LEMMA OpenProjectKeeping ==
  ASSUME CoreInv, OpenProject, StoredInFull, NEW k, k = Links(bind)
  PROVE  Keeping(k)'
<1>0. Good(bind) /\ bind \in Bindings /\ ~old /\ pin \in [Pins -> Kinds \union {"free"}]
  BY DEF CoreInv, CoreType, Good, StoredInFull
<1>1. \A e \in Elements : k[e] = Link(bind, e)
  BY DEF Links
<1>2. /\ \A e \in Elements \ FreePins : bind.param[e] = k[e]
      /\ \A p \in Pins : k[p] # None => \E n \in Nodes : graph[n] = [kind |-> pin[p], pin |-> p]
      /\ \A m, n \in InGraph : m # n => Names(m) # Names(n)
      /\ \A n \in InGraph : Names(n) # None /\ pin[Names(n)] = graph[n].kind
  BY <1>1, Distinct DEF StoredInFull, InGraph, Names, FreePins, Elements
<1>3. \A n \in InGraph : /\ n \in Nodes /\ Names(n) \in Pins /\ graph[n].kind \in Kinds
                         /\ Names(n) \notin FreePins
  BY <1>2 DEF InGraph, Names, CoreInv, CoreType, Graphs, Entries, FreePins, Kinds
<1>4. /\ bind' = Cleared(bind) /\ pin' = [p \in Pins |-> "free"] /\ graph' = graph
      /\ alive' /\ ~open'
      /\ loading' = (Elements \ Pins) \union InGraph
      /\ InGraph' = InGraph /\ (\A n \in Nodes : Names(n)' = Names(n)) /\ Sources' = Sources
  BY <1>0 DEF OpenProject, InGraph, Names, Sources
<1>5. \A n \in Nodes : IF graph[n] = None THEN node'[n].place = "none"
                       ELSE node'[n].place # "none" /\ node'[n].kind = graph[n].kind
                            /\ node'[n].pin = graph[n].pin
  BY DEF OpenProject, NoNode
<1>6. Good(bind') /\ bind'.param = bind.param /\ \A e \in Elements : Link(bind', e) = None
  <2>1. /\ bind'.source = [t \in Targets |-> None] /\ bind'.target = [d \in Drivers |-> None]
    BY <1>0, <1>4 DEF Cleared, Bindings
  <2>2. \A e \in Elements : Link(bind', e) = None
    BY <2>1 DEF Link
  <2> QED BY <1>0, <1>4, <2>2, ClearedKeeps
<1>7. \A p \in Pins : k[p] # None => \E n \in InGraph : Names(n) = p
  <2> SUFFICES ASSUME NEW p \in Pins, k[p] # None
               PROVE  \E n \in InGraph : Names(n) = p
    OBVIOUS
  <2>1. PICK n \in Nodes : graph[n] = [kind |-> pin[p], pin |-> p]
    BY <1>2
  <2>2. Link(bind, p) # None
    BY <1>1, Distinct DEF Elements
  <2>3. pin[p] \in Kinds
    BY <2>2 DEF CoreInv, OneWay, Link, Kinds
  <2>4. graph[n] # None
    BY <2>1, <2>3, EditorAssumption DEF Entries
  <2> QED BY <2>1, <2>4 DEF InGraph, Names
<1>8. \A d \in Sources : d \in Drivers /\ k[d] = bind.target[d]
  <2> SUFFICES ASSUME NEW d \in Sources PROVE d \in Drivers /\ k[d] = bind.target[d]
    OBVIOUS
  <2>1. CASE d \in AlgOuts \union Funcs
    <3>1. d \in Drivers /\ d \notin Targets /\ d \in Elements
      BY <2>1, BindingsAssumption DEF Drivers, Targets, Elements
    <3> QED BY <1>1, <3>1 DEF Link
  <2>2. CASE d \notin AlgOuts \union Funcs
    <3>1. PICK n \in InGraph : graph[n].kind = "BO" /\ Names(n) = d
      BY <2>2 DEF Sources
    <3>2. d \in Pins /\ pin[d] = "BO"
      BY <1>2, <1>3, <3>1
    <3>3. d \in Drivers /\ d \in Elements /\ bind.source[d] = None
      BY <3>2, Distinct DEF CoreInv, OneWay, Elements
    <3> QED BY <1>1, <3>3 DEF Link
  <2> QED BY <2>1, <2>2
<1>9. /\ \A d \in Sources : k[d] \in Virtual \union {None}
      /\ \A d, e \in Sources : d # e /\ k[d] # None => k[d] # k[e]
  BY <1>0, <1>8, Distinct DEF Good, Agree, Bindings
<1>10. Nodes \cap Elements = {} /\ InGraph \subseteq Nodes
  BY EditorAssumption DEF InGraph
<1>11. /\ loading' \cap Nodes = InGraph /\ InGraph \ loading' = {}
       /\ \A e \in Elements \ Pins : e \in loading'
  BY <1>4, <1>10
<1>12. /\ alive' /\ ~open'
       /\ \A e \in Elements \ Pins : bind'.param[e] = k[e]
       /\ \A n \in InGraph' : Names(n)' \in Pins /\ bind'.param[Names(n)'] = k[Names(n)']
  BY <1>2, <1>3, <1>4, <1>6, Distinct DEF FreePins, Elements
<1>13. /\ \A m, n \in InGraph' : m # n => Names(m)' # Names(n)'
       /\ \A p \in Pins : k[p] # None => \E n \in InGraph' : Names(n)' = p
  BY <1>2, <1>4, <1>7, <1>10
<1>14. /\ \A d \in Sources' : k[d] \in Virtual \union {None}
       /\ \A d, e \in Sources' : d # e /\ k[d] # None => k[d] # k[e]
  BY <1>4, <1>9
<1>15. /\ loading' \cap Nodes \subseteq InGraph'
       /\ loading' \cap Nodes # {} => \A n \in Nodes :
            IF graph'[n] = None THEN node'[n].place = "none"
            ELSE node'[n].place # "none" /\ node'[n].kind = graph'[n].kind
                 /\ node'[n].pin = graph'[n].pin
  BY <1>4, <1>5, <1>11
<1>16. Stored(k)'
  BY <1>12, <1>13, <1>14, <1>15 DEF Stored
<1>17. Remade(k)'
  <2>1. /\ \A e \in Elements \ Pins : Link(bind', e) = IF e \in loading' THEN None ELSE k[e]
        /\ \A p \in Pins : Link(bind', p) = IF \E n \in InGraph' \ loading' : Names(n)' = p
                                            THEN k[p] ELSE None
    BY <1>4, <1>6, <1>11, Distinct DEF Elements
  <2>2. /\ \A n \in loading' \cap Nodes : pin'[Names(n)'] = "free"
        /\ \A n \in InGraph' \ loading' : pin'[Names(n)'] = graph'[n].kind
    BY <1>3, <1>4, <1>11
  <2> QED BY <2>1, <2>2 DEF Remade
<1> QED BY <1>16, <1>17 DEF Keeping

LEMMA KeptStep ==
  ASSUME CoreInv, Places, KeptInv, Next
  PROVE  /\ KeptInv'
         /\ loading # {} /\ loading' = {} /\ alive' /\ kept # None => Links(bind') = kept
<1>1. CASE OpenProject
  <2>1. loading = {}
    BY <1>1 DEF OpenProject
  <2>2. PICK k : k = Links(bind)
    OBVIOUS
  <2>3. kept' # None => StoredInFull /\ kept' = k
    BY <1>1, <2>2 DEF OpenProject
  <2>4. kept' # None => Keeping(k)'
    BY <1>1, <2>2, <2>3, OpenProjectKeeping
  <2>5. ASSUME kept' = k, Keeping(k)' PROVE Keeping(kept)'
    BY <2>5 DEF Keeping, Stored, Remade
  <2> QED BY <2>1, <2>3, <2>4, <2>5 DEF KeptInv
<1>2. ASSUME loading' = {}, loading = {} \/ ~alive' PROVE
        /\ KeptInv'
        /\ loading # {} /\ loading' = {} /\ alive' /\ kept # None => Links(bind') = kept
  BY <1>2 DEF KeptInv
<1>3. CASE \/ \E e \in Elements \ Pins : LoadElement(e)
           \/ \E n \in Nodes : LoadNode(n)
  <2>1. PICK k : k = kept
    OBVIOUS
  <2>2. /\ loading # {} /\ kept' = IF loading' = {} THEN None ELSE kept
    BY <1>3 DEF LoadElement, LoadNode, Loaded, Turn
  <2>3. kept # None => Keeping(k)
    BY <2>1, <2>2 DEF KeptInv
  <2>4. kept # None => Keeping(k)'
    BY <1>3, <2>3, LoadElementKeeping, LoadNodeKeeping
  <2>5. KeptInv'
    <3>1. kept' # None => kept' = k /\ kept # None
      BY <2>1, <2>2
    <3>2. ASSUME kept' = k, Keeping(k)' PROVE Keeping(kept)'
      BY <3>2 DEF Keeping, Stored, Remade
    <3> QED BY <2>4, <3>1, <3>2 DEF KeptInv
  <2>6. ASSUME loading' = {}, kept # None PROVE Links(bind') = kept
    <3>1. Stored(k)' /\ Remade(k)'
      BY <2>4, <2>6 DEF Keeping
    <3>2. \A e \in Elements \ Pins : Link(bind', e) = k[e]
      BY <2>6, <3>1 DEF Remade
    <3>3. \A p \in Pins : Link(bind', p) = k[p]
      <4>1. \A p \in Pins : k[p] # None => \E n \in InGraph' : Names(n)' = p
        BY <3>1 DEF Stored
      <4>2. \A p \in Pins : Link(bind', p) = IF \E n \in InGraph' : Names(n)' = p THEN k[p] ELSE None
        BY <2>6, <3>1 DEF Remade
      <4> QED BY <4>1, <4>2
    <3>4. \A e \in Elements : Link(bind', e) = k[e]
      BY <3>2, <3>3
    <3>5. k \in [Elements -> Inputs \union {None}]
      BY <2>1, <2>6 DEF CoreInv, CoreType
    <3> QED BY <2>1, <3>4, <3>5 DEF Links
  <2> QED BY <2>5, <2>6
<1>4. CASE \E n \in Nodes : LoadNodeDies(n)
  BY <1>2, <1>4 DEF LoadNodeDies, Die
<1>5. CASE CloseEditor \/ (\E n \in Nodes : Paint(n)) \/ Edit
  <2>1. loading = {}
    BY <1>5 DEF CloseEditor, Paint, Edit, EditForms, ReadConfig, OpenEditor, Paste,
                RemoveAlgorithm, AddNode, BindNode, RemoveLink, RemoveNode, CopyNode,
                Editing, Forms, Idle
  <2>2. loading' = {}
    BY <1>5, <2>1
    DEF CloseEditor, Paint, Edit, EditForms, ReadConfig, OpenEditor, Paste,
        RemoveAlgorithm, AddNode, BindNode, RemoveLink, RemoveNode, CopyNode,
        UnchangedStore, Die
  <2> QED BY <1>2, <2>1, <2>2
<1> QED BY <1>1, <1>3, <1>4, <1>5 DEF Next

\* A project that was stored in full when it was closed has the same bindings
\* once it is loaded, for any number of signals, algorithms and nodes.
THEOREM BindingsKept == Spec => KeepsBindings
<1> DEFINE KInv == IInv /\ Places /\ KeptInv
<1>1. Init => KInv
  <2>1. Init => Places /\ KeptInv
    BY DEF Init, Places, KeptInv, Scene, Buffer, NoNode
  <2> QED BY <2>1, InitInv
<1>2. KInv /\ Next => KInv'
  BY NextKeeps, PlacesStep, KeptStep DEF IInv
<1>3. KInv /\ UNCHANGED vars => KInv'
  <2> SUFFICES ASSUME KInv, UNCHANGED vars PROVE KInv'
    OBVIOUS
  <2>1. IInv'
    BY NextKeeps
  <2>2. Places'
    BY DEF vars, Places, Scene, Buffer
  <2>3. KeptInv'
    BY DEF vars, KeptInv, Keeping, Stored, Remade, InGraph, Names, Sources
  <2> QED BY <2>1, <2>2, <2>3
<1>4. KInv /\ [Next]_vars => KInv'
  BY <1>2, <1>3
<1>5. KInv /\ [Next]_vars =>
        [loading # {} /\ loading' = {} /\ alive' /\ kept # None => Links(bind') = kept]_vars
  BY KeptStep DEF IInv
<1> QED BY <1>1, <1>4, <1>5, PTL DEF Spec, KeepsBindings

=============================================================================
