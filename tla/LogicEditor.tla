---------------------------- MODULE LogicEditor ----------------------------
(***************************************************************************)
(* The editor of a flexible logic algorithm (CfcScene, flexEditorForm,     *)
(* DcCustomAlgorithmsForm) on top of the bindings of SignalBindings, with  *)
(* CfcAlgService, which owns the algorithm's pins, the loading of a        *)
(* project, and the reading and writing of a device as far as they touch   *)
(* the bindings.                                                           *)
(*                                                                         *)
(* Only the nodes BI and BO are kept, an input and an output of the        *)
(* algorithm: each holds an input or output of the service at some pin, and *)
(* carries the pin's number as a parameter, which is what the graph file   *)
(* saves.  The two may differ: a copy takes the number of the original with *)
(* it and is put right only when it is painted.  Links between nodes and   *)
(* the other kinds of node are left out.                                   *)
(*                                                                         *)
(* Parameters and tables are stored at once, the graph when the editor     *)
(* closes.  A null pointer that is used ends the program.                  *)
(***************************************************************************)
EXTENDS SignalBindings

CONSTANTS
  Nodes,        \* nodes BI and BO there may be at a time
  DeviceParams, \* the parameters a device may hold
  DeviceGraphs, \* the graphs a device may hold
  MaxEdits      \* bound: actions of the user in all
Kinds == {"BI", "BO"}
Entries == [kind: Kinds, pin: Pins \union {None}]

Graphs == [Nodes -> Entries \union {None}]

ASSUME EditorAssumption ==
  /\ None \notin Nodes \union Entries /\ Nodes \cap Elements = {}
  /\ DeviceParams \subseteq [Elements -> Inputs \union {None}]
  /\ DeviceGraphs \subseteq Graphs
  /\ MaxEdits \in Nat

\* A device has more to load than flexible logic.
ASSUME LoadAssumption == Elements # Pins

VARIABLES
  pin,      \* CfcAlgService::m_ios, what the service has at each pin
  node,     \* the nodes of the scene, of the copy buffer or of a file that loads
  graph,    \* the graph file
  open,     \* whether the editor is open; it is modal
  loading,  \* what ServiceManager::init still has to load
  old,      \* service_version is 0: parameters are taken from the tables
  alive,    \* the program runs
  kept,     \* the bindings a project had when it was closed, if stored in full
  odd,      \* what has happened that the code does not provide for
  edits     \* actions the user has taken, but for closing

vars == <<bind, table, pin, node, graph, open, loading, old, alive, kept, odd, edits>>

NoNode == [place |-> "none", kind |-> "BI", io |-> None, pin |-> None]

Scene == {n \in Nodes : node[n].place = "scene"}
Buffer == {n \in Nodes : node[n].place = "buffer"}
Unused == {n \in Nodes : node[n].place = "none"}
FreePins == {p \in Pins : pin[p] = "free"}

TypeOK ==
  /\ bind \in Bindings /\ table \in Tables
  /\ pin \in [Pins -> Kinds \union {"free"}]
  /\ node \in [Nodes -> [place: {"none", "file", "scene", "buffer"}, kind: Kinds,
                         io: Pins \union {None}, pin: Pins \union {None}]]
  /\ graph \in Graphs
  /\ loading \subseteq (Elements \ Pins) \union Nodes
  /\ {open, old, alive} \subseteq BOOLEAN
  /\ kept \in [Elements -> Inputs \union {None}] \union {None}
  /\ edits \in 0..MaxEdits
  /\ odd \subseteq {"unpainted", "foreign", "exhausted", "removed"}

\* Bound: one kind of odd thing happens between two openings.
Odd(what) == odd \subseteq {what} /\ odd' = {what}

Links(b) == [e \in Elements |-> Link(b, e)]

NoLinks ==
  [source |-> [t \in Targets |-> None], targets |-> [i \in Inputs |-> {}],
   target |-> [d \in Drivers |-> None], driver |-> [v \in Virtual |-> None]]

\* The entries a device's parameters make in the tables (configureMatrixAlgs,
\* configureMatrixSignals); those of the pins come from the archive, when the
\* device has one.
TablesOf(params, archived) ==
  [e \in Elements \ Funcs |-> IF e \in Pins /\ ~archived THEN None ELSE params[e]]

\* A project that was never opened by this version, or was.
Init ==
  /\ \E params \in DeviceParams :
       /\ bind = [source |-> NoLinks.source, targets |-> NoLinks.targets,
                  target |-> NoLinks.target, driver |-> NoLinks.driver,
                  param |-> params]
       /\ table = TablesOf(params, TRUE)
  /\ graph \in DeviceGraphs /\ old \in BOOLEAN
  /\ pin = [p \in Pins |-> "free"]
  /\ node = [n \in Nodes |-> NoNode]
  /\ open = FALSE /\ loading = {} /\ alive = FALSE
  /\ kept = None /\ odd = {} /\ edits = 0

-----------------------------------------------------------------------------
(* ServiceManager::load.                                                   *)

\* cfcAlgsToParams(): in an old project the graph names the same signals as
\* the tables.
OldParams ==
  LET saved == {p \in Pins : \E n \in Nodes : graph[n] # None /\ graph[n].pin = p}
      b == TablesToParams(bind)
  IN [b EXCEPT !.param = [e \in Elements |-> IF e \notin Pins THEN @[e]
                                             ELSE IF e \in saved THEN table[e]
                                             ELSE None]]

\* All that is bound is stored: every parameter names the link, and the graph
\* has a node for every pin that has one.
StoredInFull ==
  /\ alive /\ ~old
  /\ \A e \in Elements \ FreePins : bind.param[e] = Link(bind, e)
  /\ \A p \in Pins : Link(bind, p) # None =>
       \E n \in Nodes : graph[n] = [kind |-> pin[p], pin |-> p]
  /\ \A m, n \in Nodes : m # n /\ graph[m] # None /\ graph[n] # None =>
       graph[m].pin # graph[n].pin
  /\ \A n \in Nodes : graph[n] # None =>
       graph[n].pin # None /\ pin[graph[n].pin] = graph[n].kind

\* The project is opened, at the start or after the program died, or again.
OpenProject ==
  /\ loading = {} /\ (alive => ~open)
  /\ kept' = IF StoredInFull THEN Links(bind) ELSE None
  /\ bind' = Cleared(IF old THEN OldParams ELSE bind)
  /\ pin' = [p \in Pins |-> "free"]
  /\ node' = [n \in Nodes |->
                IF graph[n] = None THEN NoNode
                ELSE [NoNode EXCEPT !.place = "file", !.kind = graph[n].kind,
                                    !.pin = graph[n].pin]]
  /\ loading' = (Elements \ Pins) \union {n \in Nodes : graph[n] # None}
  /\ alive' = TRUE /\ open' = FALSE
  /\ odd' = odd \ {"foreign", "exhausted", "removed"}
  /\ UNCHANGED <<table, graph, old>>

\* What is loaded next: signals first, then the algorithms (their inputs, which
\* do not meet with the outputs, before these), flexible logic, functions.
Turn ==
  IF loading \cap Outs # {} THEN loading \cap Outs
  ELSE IF loading \cap AlgIns # {} THEN loading \cap AlgIns
  ELSE IF loading \cap AlgOuts # {} THEN loading \cap AlgOuts
  ELSE IF loading \cap Nodes # {} THEN loading \cap Nodes
  ELSE loading

Loaded(x) ==
  /\ x \in Turn /\ loading' = loading \ {x}
  /\ old' = (old /\ loading' # {})
  /\ kept' = IF loading' = {} THEN None ELSE kept
  /\ UNCHANGED <<table, open, odd>>

LoadElement(e) ==
  /\ e \in Elements \ Pins /\ alive
  /\ bind' = IF e \in Funcs THEN LoadFunction(bind, e)
             ELSE IF e \in Drivers THEN LoadDriver(bind, e) ELSE LoadTarget(bind, e)
  /\ Loaded(e)
  /\ UNCHANGED <<pin, node, graph, alive>>

\* The program is gone, and with it all that is not stored.
Die ==
  /\ alive' = FALSE /\ open' = FALSE /\ loading' = {}
  /\ bind' = Cleared(bind)
  /\ pin' = [p \in Pins |-> "free"]
  /\ node' = [n \in Nodes |-> NoNode]
  /\ UNCHANGED <<table, graph, old, kept>>

\* After the last node of a file it is saved, with the pins it was given.
FileLoaded(n, p) ==
  IF loading \cap Nodes # {n}
  THEN node' = [node EXCEPT ![n].pin = p] /\ UNCHANGED graph
  ELSE /\ graph' = [m \in Nodes |-> IF node[m].place = "none" THEN None
                                    ELSE [kind |-> node[m].kind,
                                          pin |-> IF m = n THEN p ELSE node[m].pin]]
       /\ node' = [m \in Nodes |-> NoNode]

\* Faulty variant: the number of the pin in the file is not used.
LoadNodeAnywhere(n) ==
  /\ n \in Nodes /\ alive
  /\ \E p \in FreePins :
       /\ pin' = [pin EXCEPT ![p] = node[n].kind]
       /\ bind' = IF node[n].kind = "BI" THEN LoadTarget(bind, p)
                  ELSE LoadDriver(bind, p)
       /\ Loaded(n) /\ FileLoaded(n, p)
  /\ UNCHANGED alive

\* A node gets the pin of its number, or the first free one.
LoadNode(n) ==
  /\ n \in Nodes /\ alive
  /\ \E p \in IF node[n].pin # None THEN {node[n].pin} ELSE FreePins :
       IF p \in FreePins
       THEN /\ pin' = [pin EXCEPT ![p] = node[n].kind]
            /\ bind' = IF node[n].kind = "BI" THEN LoadTarget(bind, p)
                       ELSE LoadDriver(bind, p)
            /\ Loaded(n) /\ FileLoaded(n, p) /\ UNCHANGED alive
       ELSE \* makeInput() gives nothing, which is used when there is a signal
            /\ bind.param[p] \notin Inputs
            /\ Loaded(n) /\ FileLoaded(n, p) /\ UNCHANGED <<bind, pin, alive>>

\* bindParam(), or makeInput(), gives nothing and it is used.
LoadNodeDies(n) ==
  /\ alive /\ n \in Turn \cap Nodes
  /\ IF node[n].pin = None THEN FreePins = {}
     ELSE node[n].pin \notin FreePins /\ bind.param[node[n].pin] \in Inputs
  /\ Die
  /\ IF node[n].pin = None THEN Odd("exhausted") ELSE UNCHANGED odd

-----------------------------------------------------------------------------
(* The editor.                                                             *)

Idle == alive /\ loading = {}
Editing == Idle /\ open
Forms == Idle /\ ~open

UnchangedStore == UNCHANGED <<table, graph, open, loading, old, kept>>

\* What the service has at pin p, if it is of that kind.
ServiceAt(p, kind) == IF p # None /\ pin[p] = kind THEN p ELSE None

OpenEditor ==
  /\ Forms
  /\ open' = TRUE
  /\ node' = [n \in Nodes |->
                IF graph[n] = None THEN NoNode
                ELSE [place |-> "scene", kind |-> graph[n].kind,
                      io |-> ServiceAt(graph[n].pin, graph[n].kind),
                      pin |-> graph[n].pin]]
  /\ UNCHANGED <<bind, table, pin, graph, loading, old, alive, kept, odd>>

\* A new node at the first free pin, in the middle of the view and so painted;
\* without a pin it holds nothing, which painting uses.
AddNode(m) ==
  /\ Editing /\ m \in Unused
  /\ \/ \E kind \in Kinds, p \in FreePins :
          /\ pin' = [pin EXCEPT ![p] = kind]
          /\ node' = [node EXCEPT ![m] = [place |-> "scene", kind |-> kind,
                                          io |-> p, pin |-> p]]
          /\ UnchangedStore /\ UNCHANGED <<bind, alive, odd>>
     \/ FreePins = {} /\ Odd("exhausted") /\ Die

\* Faulty variant: the copy holds what the original holds.
CopyNodeShallow(n, m) ==
  /\ Editing /\ n \in Scene /\ m \in Unused
  /\ node' = [node EXCEPT ![m] = [node[n] EXCEPT !.place = "buffer"]]
  /\ UnchangedStore /\ UNCHANGED <<bind, pin, alive, odd>>

\* copyNode(): a new node at the first free pin, over whose parameters, the
\* number of the pin among them, those of the original are copied.
CopyNode(n, m) ==
  LET copy(p) == [node[n] EXCEPT !.place = "buffer", !.io = p]
  IN /\ Editing /\ n \in Scene /\ m \in Unused
     /\ \/ \E p \in FreePins :
             /\ pin' = [pin EXCEPT ![p] = node[n].kind]
             /\ node' = [node EXCEPT ![m] = copy(p)]
             /\ UNCHANGED odd
        \/ /\ FreePins = {} /\ Odd("exhausted")
           /\ node' = [node EXCEPT ![m] = copy(None)]
           /\ UNCHANGED pin
     /\ UnchangedStore /\ UNCHANGED <<bind, alive>>

Paste ==
  /\ Editing /\ Buffer # {}
  /\ node' = [n \in Nodes |-> IF n \in Buffer THEN [node[n] EXCEPT !.place = "scene"]
                              ELSE node[n]]
  /\ UnchangedStore /\ UNCHANGED <<bind, pin, alive, odd>>

\* paintElement() with inputReset(): the number is put right; a node that holds
\* nothing is used all the same.
Paint(n) ==
  /\ Editing /\ n \in Scene
  /\ \/ /\ node[n].io \notin {None, node[n].pin}
        /\ node' = [node EXCEPT ![n].pin = node[n].io]
        /\ UnchangedStore /\ UNCHANGED <<bind, pin, alive>>
     \/ node[n].io = None /\ Die
  /\ UNCHANGED odd

Seen(n) == n \in Scene /\ node[n].io # None /\ node[n].pin = node[n].io

BindNode(n) ==
  /\ Editing /\ Seen(n)
  /\ IF node[n].kind = "BI"
     THEN \E i \in InputChoices : bind' = SetSource(bind, node[n].io, i)
     ELSE \E v \in OutputChoices : bind' = SetTarget(bind, node[n].io, v)
  /\ UnchangedStore /\ UNCHANGED <<pin, node, alive, odd>>

Unbound(b, n) ==
  IF node[n].kind = "BI" THEN SetSource(b, node[n].io, None)
  ELSE SetTarget(b, node[n].io, None)

\* removeLink() unbinds the BI at its one end and the BO at its other.
RemoveLink(n) ==
  /\ Editing /\ Seen(n)
  /\ bind' = Unbound(bind, n)
  /\ UnchangedStore /\ UNCHANGED <<pin, node, alive, odd>>

\* Faulty variant: the node goes without being unbound.
RemoveNodeOnly(n) ==
  /\ Editing /\ n \in Scene /\ node[n].io # None
  /\ pin' = [pin EXCEPT ![node[n].io] = "free"]
  /\ node' = [node EXCEPT ![n] = NoNode]
  /\ UnchangedStore /\ UNCHANGED <<bind, alive, odd>>

\* Of two nodes that hold the same input the other one is left with freed
\* memory, which it is painted from.
Shared(n) == \E m \in Nodes \ {n} : node[n].io # None /\ node[m].io = node[n].io

RemoveNode(n) ==
  /\ Editing /\ n \in Scene
  /\ \/ /\ ~Shared(n)
        /\ IF node[n].io = None THEN UNCHANGED <<bind, pin>>
           ELSE /\ bind' = Unbound(bind, n)
                /\ pin' = [pin EXCEPT ![node[n].io] = "free"]
        /\ node' = [node EXCEPT ![n] = NoNode]
        /\ UnchangedStore /\ UNCHANGED alive
     \/ Shared(n) /\ Die
  /\ UNCHANGED odd

\* Closing saves the graph, compiles it and fills the pins' parameters from the
\* tables; the buffer is lost with the scene, its pins stay taken.
CloseEditor ==
  /\ Editing
  /\ graph' = [n \in Nodes |-> IF n \in Scene
                               THEN [kind |-> node[n].kind, pin |-> node[n].pin]
                               ELSE None]
  /\ node' = [n \in Nodes |-> NoNode]
  /\ open' = FALSE
  /\ \E compiled \in BOOLEAN : bind' = PinsFromTable(bind, compiled)
  /\ IF \A n \in Scene : Seen(n) THEN UNCHANGED odd ELSE Odd("unpainted")
  /\ UNCHANGED <<table, pin, loading, old, alive, kept>>

\* removeAlgorithm(): the tables forget the algorithm and what its outputs
\* drove, the services do not.
RemoveAlgorithm ==
  /\ Forms /\ graph # [n \in Nodes |-> None]
  /\ LET driven == {table[p] : p \in {q \in Pins : \E n \in Nodes :
                       graph[n] = [kind |-> "BO", pin |-> q]}} \ {None}
     IN table' = [e \in Elements \ Funcs |->
                    IF e \in Pins \/ table[e] \in driven THEN None ELSE table[e]]
  /\ bind' = PinsFromTable(bind, FALSE)
  /\ graph' = [n \in Nodes |-> None]
  /\ Odd("removed")
  /\ UNCHANGED <<pin, node, open, loading, old, alive, kept>>

-----------------------------------------------------------------------------
(* The forms, and the operations on the device.                            *)

EditForms ==
  /\ Forms
  /\ \/ \E t \in Outs \union AlgIns : BindInput(t) \/ UnbindInput(t)
     \/ \E d \in AlgOuts : BindOutput(d) \/ UnbindOutput(d)
     \/ \E f \in Funcs : EditFunction(f)
     \/ CompileTables
  /\ UNCHANGED <<pin, node, graph, open, loading, old, alive, kept, odd>>

\* DcReadConfigOperation: parameters and graph are the device's, the tables are
\* made from them, and the services stay as they were.
ReadConfig ==
  /\ Forms
  /\ \E params \in DeviceParams, archived \in BOOLEAN :
       /\ bind' = [bind EXCEPT !.param = params]
       /\ table' = TablesOf(params, archived)
  /\ graph' \in DeviceGraphs
  /\ Odd("foreign")
  /\ UNCHANGED <<pin, node, open, loading, old, alive, kept>>

Edit ==
  \/ EditForms
  \/ ReadConfig
  \/ OpenEditor \/ Paste \/ RemoveAlgorithm
  \/ \E n \in Nodes : AddNode(n) \/ BindNode(n) \/ RemoveLink(n) \/ RemoveNode(n)
  \/ \E n, m \in Nodes : CopyNode(n, m)

Next ==
  \/ /\ \/ OpenProject \/ CloseEditor
        \/ \E e \in Elements \ Pins : LoadElement(e)
        \/ \E n \in Nodes : LoadNode(n) \/ LoadNodeDies(n) \/ Paint(n)
     /\ UNCHANGED edits
  \/ edits < MaxEdits /\ Edit /\ edits' = edits + 1

Spec == Init /\ [][Next]_vars

-----------------------------------------------------------------------------
(* What must hold.                                                         *)

\* The two ends of every binding agree, whatever calls the setters make of each
\* other: an element is among the targets of its source and of no other signal,
\* and a virtual input and its driver name each other.
LinksAgree ==
  /\ \A t \in Targets, i \in Inputs : t \in bind.targets[i] <=> bind.source[t] = i
  /\ \A d \in Drivers, v \in Virtual : bind.driver[v] = d <=> bind.target[d] = v

\* Every node of the editor has a pin of its own, of its kind, through copies,
\* removals, reopening and reloading, and the graph file never gives a pin to
\* two nodes -- unless a copy was saved before it was painted, the pins ran out,
\* or another configuration was read from the device.
OwnPins ==
  odd \subseteq {"removed"} =>
    /\ \A n \in Scene \union Buffer :
         /\ node[n].io # None /\ pin[node[n].io] = node[n].kind
         /\ ~Shared(n)
    /\ \A m, n \in Nodes : m # n /\ graph[m] # None /\ graph[n] # None =>
         graph[m].pin # graph[n].pin \/ graph[m].pin = None

\* A pin is bound only as long as a node stands for it, in the editor or in the
\* graph file: what is removed in the editor leaves no binding behind that
\* would hold an input no one can free.
NoGhostBindings ==
  Idle /\ odd \subseteq {"exhausted"} =>
    \A p \in Pins : Link(bind, p) # None =>
      \E n \in Nodes : IF open THEN n \in Scene /\ node[n].io = p
                       ELSE graph[n] = [kind |-> pin[p], pin |-> p]

\* A value for the parameter of e that is not the link's: the entry of a table,
\* none for a pin of an algorithm that is not enabled, a choice of the form of
\* virtual functions, or what a device holds.
FromElsewhere(e) ==
  \/ e \notin Funcs /\ bind'.param[e] = table[e]
  \/ e \in Pins /\ bind'.param[e] = None
  \/ e \in Funcs /\ bind'.param[e] \in FunctionChoices
  \/ odd' = {"foreign"} /\ bind'.param \in DeviceParams

\* Whatever is bound, unbound, robbed of its input or loaded has its parameter
\* changed to the new link in the same step, and no other parameter is touched.
\* Parameter and link part only in a step that changes no link and does not end
\* in the editor or in loading: where the parameter is written from a table, by
\* the form of functions or from a device.  That happens: no form writes the
\* tables, so closing the editor or writing the device puts their entries in
\* place of what the forms show.
ParamFollowsLink ==
  [][alive /\ alive' /\ (loading = {} => loading' = {}) =>
       \A e \in Elements :
         \/ bind'.param[e] = Link(bind', e)
         \/ Link(bind', e) = Link(bind, e) /\ bind'.param[e] = bind.param[e]
         \/ /\ Links(bind') = Links(bind) /\ FromElsewhere(e)
            /\ loading = {} /\ ~open']_vars

Orphans(b) ==
  {t \in Targets : b.source[t] \in Virtual /\ b.driver[b.source[t]] = None}

\* An element is left with a virtual input that nothing drives only by taking
\* an output out of the flexible logic; the form of bindings never leaves one.
OrphansOnlyFromLogic ==
  [][Idle /\ alive' /\ loading' = {} =>
       \A t \in Orphans(bind') \ Orphans(bind) :
         open /\ bind.driver[bind'.source[t]] \in Pins]_vars

\* A project that was stored in full when it was closed has the same bindings
\* after it was opened, though they are made anew from the parameters in another
\* order than the user made them in.
KeepsBindings ==
  [][loading # {} /\ loading' = {} /\ alive' /\ kept # None =>
       Links(bind') = kept]_vars

=============================================================================
