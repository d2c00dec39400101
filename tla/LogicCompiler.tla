---------------------------- MODULE LogicCompiler ----------------------------
(***************************************************************************)
(* The graph of one flexible logic algorithm on its way from the editor's  *)
(* scene (CfcBasicScene, CfcScene) to its file (CfcParser) and to the code  *)
(* for the device (CfcCompiler), and the form that keeps track of what is  *)
(* compiled and enabled (DcCustomAlgorithmsForm).                          *)
(*                                                                         *)
(* A node BI has one output, a node BO one input, any other element one    *)
(* output and Arity inputs.  Signals bound to BI and BO are LogicEditor's.  *)
(* Parallel links between the same two sockets count as one; copying, and  *)
(* elements that gain and lose inputs, are left out.                       *)
(*                                                                         *)
(* Deleting a node leaves pointers to its links with the sockets at their  *)
(* other ends.  Using such a pointer is undefined: it may end the program, *)
(* and so does using a null pointer.                                       *)
(***************************************************************************)
EXTENDS Integers, Sequences, FiniteSets, SequencesExt, FiniteSetsExt, Functions

CONSTANTS
  InNodes,   \* the nodes BI in the order of their pins
  OutNodes,  \* the nodes BO
  Elements,  \* the other nodes
  Arity,     \* inputs of an element
  None, Broken,
  MaxEdits   \* bound: changes of the scene in all

Nodes == ToSet(InNodes) \union OutNodes \union Elements
Links ==
  [from: ToSet(InNodes) \union Elements,
   to: (OutNodes \X {1}) \union (Elements \X (1 .. Arity))]

\* A graph is its nodes in the order of the file and its links.
Graphs == [order: Seq(Nodes), links: SUBSET Links]

ASSUME CompilerAssumption ==
  /\ InNodes \in Seq(Nodes) /\ IsInjective(InNodes)
  /\ OutNodes \cap Elements = {} /\ ToSet(InNodes) \cap (OutNodes \union Elements) = {}
  /\ Arity \in Nat \ {0} /\ MaxEdits \in Nat
  /\ {None, Broken} \cap Graphs = {}

VARIABLES
  file,     \* the graph file: None, Broken (cannot be read) or a graph
  code,     \* the file of the compiled code: None or the code
  alg,      \* the algorithm in the list: listed, compiled, enabled
  scene,    \* the editor's scene, None when it is closed
  alive,    \* the program runs, with the project open
  diskOk,   \* files can be created and written
  edits     \* changes of the scene so far

vars == <<file, code, alg, scene, alive, diskOk, edits>>

EmptyGraph == [order |-> <<>>, links |-> {}]
IsGraph(f) == f # None /\ f # Broken

\* Where a node is in a list that has it once.
Position(list, n) == CHOOSE i \in DOMAIN list : list[i] = n

\* A link of a file gets both its sockets unless it joins a node to itself:
\* linksProcessing does not try a node that is the source as the target.
Whole(link, g) ==
  /\ link.from # link.to[1]
  /\ link.from \in ToSet(g.order) /\ link.to[1] \in ToSet(g.order)
Loose(g) == {link \in g.links : ~Whole(link, g)}

Init ==
  /\ file = None /\ code = None
  /\ alg = [listed |-> FALSE, compiled |-> FALSE, enabled |-> FALSE]
  /\ scene = None /\ alive = TRUE /\ diskOk = TRUE /\ edits = 0

-----------------------------------------------------------------------------
(* Compiling.                                                              *)

\* Outputs that come earlier in the compiler's list: those of all nodes BI, by
\* pin, as one element, then the other elements as they are in the file.
Outputs(g) == ToSet(g.order) \ OutNodes
Before(m, n, g) ==
  \/ m \in ToSet(InNodes) /\ n \in Elements
  \/ {m, n} \subseteq ToSet(InNodes) /\ Position(InNodes, m) < Position(InNodes, n)
  \/ {m, n} \subseteq Elements /\ Position(g.order, m) < Position(g.order, n)

\* Outputs are counted from 0 along that list.
Number(g) ==
  [n \in Outputs(g) |-> Cardinality({m \in Outputs(g) : Before(m, n, g)})]

\* Every output gives its number to the inputs it is linked to, in the order of
\* the list: the last one stays.
Inputs(g) ==
  ((ToSet(g.order) \cap OutNodes) \X {1})
    \union ((ToSet(g.order) \cap Elements) \X (1 .. Arity))
Feed(g) ==
  [s \in Inputs(g) |->
     Max({-1} \union {Number(g)[n] : n \in
                       {m \in DOMAIN Number(g) : [from |-> m, to |-> s] \in g.links}})]

\* The target of an output's link is used without a look at it.
CompileDies(g) == \E link \in Loose(g) : link.from \in ToSet(g.order)

\* setCompiled(false).
NotCompiled ==
  /\ code' = None /\ alg' = [alg EXCEPT !.compiled = FALSE, !.enabled = FALSE]
  /\ UNCHANGED alive

\* compileAlgorithm: the old code goes first, and what is left of code that could
\* not be written goes with setCompiled, which disables the algorithm too.
CompileFile(enabling) ==
  CASE IsGraph(file) /\ CompileDies(file) ->
         /\ code' = None /\ alive' = FALSE /\ UNCHANGED alg
    [] IsGraph(file) /\ ~CompileDies(file) /\ diskOk ->
         /\ code' = [number |-> Number(file), feed |-> Feed(file)]
         /\ alg' = [alg EXCEPT !.compiled = TRUE, !.enabled = @ \/ enabling]
         /\ UNCHANGED alive
    [] OTHER -> NotCompiled

-----------------------------------------------------------------------------
(* Saving.                                                                 *)

\* Faulty variant: the code stays until the graph is compiled again.
SaveFileOnly(g, loose) ==
  /\ UNCHANGED code
  /\ \/ ~diskOk /\ file' = None
     \/ loose # {} /\ file' = Broken
     \/ loose = {} /\ file' = IF diskOk THEN g ELSE Broken

\* saveData of a graph, of which the links in loose lack a socket: code and graph
\* are removed, the graph is created, and only then is it put together.
SaveFile(g, loose) ==
  /\ code' = None
  /\ \/ ~diskOk /\ file' = None
     \/ loose # {} /\ file' = Broken
     \/ loose = {} /\ file' = IF diskOk THEN g ELSE Broken

SaveDies(loose) == loose # {} /\ file' = Broken

-----------------------------------------------------------------------------
(* The form and the project.                                               *)

Idle == alive /\ scene = None /\ alg.listed

\* The scene as the editor shows a file, with no pointer that dangles.
SceneOf(g) ==
  [order |-> g.order, links |-> g.links, loose |-> Loose(g), dangling |-> {},
   failed |-> FALSE, closing |-> FALSE]

\* The file of a new algorithm is created, and shown in the editor.  Whether it
\* could be written is not asked.
AddAlgorithm ==
  /\ alive /\ scene = None /\ ~alg.listed
  /\ IF diskOk THEN file' = EmptyGraph /\ scene' = SceneOf(EmptyGraph)
               ELSE file' = Broken /\ UNCHANGED scene
  /\ alg' = [alg EXCEPT !.listed = TRUE, !.compiled = FALSE]
  /\ UNCHANGED <<code, alive, diskOk, edits>>

OpenEditor ==
  /\ Idle /\ IsGraph(file)
  /\ scene' = SceneOf(file)
  /\ UNCHANGED <<file, code, alg, alive, diskOk, edits>>

CompileButton ==
  /\ Idle
  /\ CompileFile(FALSE)
  /\ UNCHANGED <<file, scene, diskOk, edits>>

\* The form lets an algorithm be enabled that is compiled and has its code.
SetEnabled(on) ==
  /\ Idle /\ alg.compiled /\ code # None
  /\ alg' = [alg EXCEPT !.enabled = on]
  /\ UNCHANGED <<file, code, scene, alive, diskOk, edits>>

RemoveAlgorithm ==
  /\ Idle
  /\ alg' = [alg EXCEPT !.listed = FALSE, !.enabled = FALSE]
  /\ file' = None /\ code' = None
  /\ UNCHANGED <<scene, alive, diskOk, edits>>

\* A project is opened, also after the program ended: each graph that can be read
\* is saved again, with the pins its nodes got.
OpenProject ==
  /\ scene = None
  /\ IF IsGraph(file)
       THEN SaveFile(file, Loose(file)) /\ alive' = ~SaveDies(Loose(file))
       ELSE alive' = TRUE /\ UNCHANGED <<file, code>>
  /\ UNCHANGED <<alg, scene, diskOk, edits>>

\* The disk fills up, and is cleared.
Disk ==
  /\ diskOk' = ~diskOk
  /\ UNCHANGED <<file, code, alg, scene, alive, edits>>

-----------------------------------------------------------------------------
(* The editor.                                                             *)

Editing == alive /\ scene # None /\ ~scene.closing
Edit == Editing /\ edits < MaxEdits /\ edits' = edits + 1

InScene(n) == n \in ToSet(scene.order)

AddNode(n) ==
  /\ Edit /\ ~InScene(n)
  /\ scene' = [scene EXCEPT !.order = Append(@, n)]
  /\ UNCHANGED <<file, code, alg, alive, diskOk>>

\* An input that has a link, or still the pointer to one, cannot be where a new
\* link is begun; where it ends is not asked.
DrawLink(link, begun) ==
  /\ Edit /\ link \notin scene.links
  /\ InScene(link.from) /\ InScene(link.to[1])
  /\ begun = "input" =>
       /\ \A l \in scene.links : l.to # link.to
       /\ link.to \notin scene.dangling
  /\ scene' = [scene EXCEPT !.links = @ \union {link}]
  /\ UNCHANGED <<file, code, alg, alive, diskOk>>

RemoveLink(link) ==
  /\ Edit /\ link \in scene.links
  /\ scene' = [scene EXCEPT !.links = @ \ {link}, !.loose = @ \ {link}]
  /\ UNCHANGED <<file, code, alg, alive, diskOk>>

\* Sockets, <<n, 0>> for the output of n.
Sockets(link) == {<<link.from, 0>>, link.to}
LinksOf(n) == {link \in scene.links : n \in {link.from, link.to[1]}}
Dangling(n) == \E s \in scene.dangling : s[1] = n

ProgramDies ==
  /\ alive' = FALSE /\ scene' = None
  /\ UNCHANGED <<file, code, alg, diskOk, edits>>

\* Faulty variant: the links of the node stay in the scene.
RemoveNodeOnly(n) ==
  /\ Edit /\ InScene(n)
  /\ scene' = [scene EXCEPT !.order = RemoveAt(@, Position(@, n))]
  /\ UNCHANGED <<file, code, alg, alive, diskOk>>

\* The node goes with its links, those that its sockets know of.
RemoveNode(n) ==
  /\ Edit /\ InScene(n)
  /\ scene' =
       [scene EXCEPT
          !.order = RemoveAt(@, Position(@, n)), !.links = @ \ LinksOf(n), !.loose = @ \ LinksOf(n),
          !.dangling = {s \in @ \union UNION {Sockets(link) : link \in LinksOf(n)} :
                          s[1] # n}]
  /\ UNCHANGED <<file, code, alg, alive, diskOk>>

\* A node is deleted or moved that keeps a pointer to a deleted link; deleted
\* though a link joins it to itself, which deletes the link twice; or moved with a
\* link that lacks its target.
UseBadPointer(n) ==
  /\ Editing /\ InScene(n)
  /\ \/ Dangling(n)
     \/ \E link \in LinksOf(n) : link.from = link.to[1] \/ link \in scene.loose
  /\ ProgramDies

\* The items of a scene are listed from the last one added.
SceneGraph == [order |-> Reverse(scene.order), links |-> scene.links]

\* onSaveAction, also when the editor closes; a write that fails may go unnoticed.
Save(closing) ==
  /\ Editing
  /\ SaveFile(SceneGraph, scene.loose)
  /\ IF SaveDies(scene.loose)
       THEN alive' = FALSE /\ scene' = None
       ELSE /\ alive' = TRUE
            /\ \E noticed \in BOOLEAN :
                 /\ diskOk => ~noticed
                 /\ file' = None => noticed
                 /\ scene' = [scene EXCEPT !.failed = @ \/ noticed,
                                           !.closing = closing]
  /\ UNCHANGED <<alg, diskOk, edits>>

\* onEditorAboutToClose: compiled code is enabled at once.
EditorClosed ==
  /\ alive /\ scene # None /\ scene.closing
  /\ scene' = None
  /\ IF scene.failed THEN NotCompiled ELSE CompileFile(TRUE)
  /\ UNCHANGED <<file, diskOk, edits>>

Next ==
  \/ AddAlgorithm \/ OpenEditor \/ CompileButton \/ RemoveAlgorithm
  \/ \E on \in BOOLEAN : SetEnabled(on)
  \/ OpenProject \/ Disk
  \/ \E n \in Nodes : AddNode(n) \/ RemoveNode(n) \/ UseBadPointer(n)
  \/ \E link \in Links, begun \in {"output", "input"} : DrawLink(link, begun)
  \/ \E link \in Links : RemoveLink(link)
  \/ \E closing \in BOOLEAN : Save(closing)
  \/ EditorClosed

Spec == Init /\ [][Next]_vars

-----------------------------------------------------------------------------
(* Properties.                                                             *)

\* What the list shows as compiled is the code of the graph on the disk, whatever
\* was edited, saved, lost or loaded since: every output has a number of its own,
\* every input that is linked has the number of an output it is linked to, and no
\* other input has one.
CodeIsGraph ==
  alg.compiled /\ code # None =>
    /\ IsGraph(file)
    /\ DOMAIN code.number = ToSet(file.order) \ OutNodes
    /\ IsInjective(code.number)
    /\ \A n \in ToSet(file.order), i \in 1 .. Arity :
         LET feeding == {m \in DOMAIN code.number :
                           [from |-> m, to |-> <<n, i>>] \in file.links}
         IN  <<n, i>> \in DOMAIN code.feed =>
               IF feeding = {} THEN code.feed[<<n, i>>] = -1
               ELSE \E source \in feeding : code.feed[<<n, i>>] = code.number[source]

\* With a disk that works, a saved graph that links no element to itself stays
\* readable through every edit, opening and end of the program, until the
\* algorithm is removed.
GraphKept ==
  [][ IsGraph(file) /\ ~IsGraph(file') /\ diskOk
        /\ (\A link \in file.links : link.from # link.to[1])
      => alg.listed /\ ~alg'.listed ]_vars

=============================================================================
