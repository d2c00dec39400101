--------------------------- MODULE SignalBindings ---------------------------
(***************************************************************************)
(* The bindings of a controller's signals (class ServiceManager with its   *)
(* signals and services, BindingForm, BindingsUpdate and the functions     *)
(* that fill parameters from tables).                                      *)
(*                                                                         *)
(* A binding exists four times: an element's own link (a source or a       *)
(* target), the link of the signal it is bound to (its targets or its      *)
(* driver), the element's parameter, which is what the device gets, and,   *)
(* from earlier versions, an entry of the tables matrix_*.  The setters of *)
(* both ends call each other; here a setter is the function of all links   *)
(* and parameters that these calls amount to.                              *)
(*                                                                         *)
(* A parameter holds the number of a signal, or none (0xFFFF, for a        *)
(* function 0xFF); a function's holds the place of a virtual input among   *)
(* the virtual inputs, which is taken for the input.  Analogue signals and *)
(* the names shown are left out.                                           *)
(***************************************************************************)
EXTENDS Naturals, FiniteSets

CONSTANTS
  Outs,      \* discrete outputs
  AlgIns,    \* inputs of built-in algorithms
  AlgOuts,   \* outputs of built-in algorithms
  Funcs,     \* virtual outputs whose function acts on a virtual input
  Pins,      \* pins of one flexible logic algorithm, inputs or outputs of it
  Physical,  \* physical, logical and remote inputs
  Virtual,   \* virtual inputs
  None

Inputs == Physical \union Virtual
Targets == Outs \union AlgIns \union Pins    \* class TargetElement
Drivers == AlgOuts \union Funcs \union Pins  \* class ServiceOutput
Elements == Targets \union Drivers

ASSUME BindingsAssumption ==
  /\ None \notin Elements \union Inputs
  /\ Physical \cap Virtual = {}
  /\ Outs \cap AlgIns = {} /\ (Outs \union AlgIns) \cap Drivers = {}
  /\ AlgOuts \cap Funcs = {} /\ Pins \cap (AlgOuts \union Funcs) = {}
  /\ Pins \cap (Outs \union AlgIns) = {}

VARIABLES
  bind,    \* both ends of every link, and the parameters
  table    \* matrix_signals, matrix_alg and matrix_cfc

Bindings ==
  [source: [Targets -> Inputs \union {None}],   \* TargetElement::m_source
   targets: [Inputs -> SUBSET Targets],         \* InputSignal::m_targets
   target: [Drivers -> Virtual \union {None}],  \* ServiceOutput::m_target
   driver: [Virtual -> Drivers \union {None}],  \* VirtualInputSignal::m_source
   param: [Elements -> Inputs \union {None}]]

Tables == [Elements \ Funcs -> Inputs \union {None}]

\* What an element is bound to.
Link(b, e) ==
  IF e \in Targets /\ b.source[e] # None THEN b.source[e]
  ELSE IF e \in Drivers THEN b.target[e] ELSE None

-----------------------------------------------------------------------------
(* The setters.                                                            *)

\* Faulty variant: the previous signal keeps the element among its targets.
SetSourceOnly(b, t, i) ==
  [b EXCEPT !.source[t] = i, !.param[t] = i,
            !.targets = [j \in Inputs |->
                           IF j = i THEN @[j] \union {t} ELSE @[j]]]

\* TargetElement::setSource: the previous signal forgets the element, the new
\* one learns of it, and the parameter follows.
SetSource(b, t, i) ==
  IF b.source[t] = i THEN b
  ELSE [b EXCEPT !.source[t] = i, !.param[t] = i,
                 !.targets = [j \in Inputs |->
                                IF j = i THEN @[j] \union {t}
                                ELSE IF j = b.source[t] THEN @[j] \ {t}
                                ELSE @[j]]]

\* The driver that loses v when another one takes it.
Robbed(b, d, v) ==
  {e \in Drivers \ {d} : v # None /\ b.driver[v] = e /\ b.target[e] = v}

\* Faulty variant: the parameter of the output that lost v keeps it.
SetTargetOnly(b, d, v) ==
  LET left == {w \in Virtual : b.target[d] = w /\ b.driver[w] = d}
  IN [b EXCEPT
        !.target = [e \in Drivers |-> IF e = d THEN v
                                      ELSE IF e \in Robbed(b, d, v) THEN None
                                      ELSE @[e]],
        !.driver = [w \in Virtual |-> IF w = v THEN d
                                      ELSE IF w \in left THEN None ELSE @[w]],
        !.param = [@ EXCEPT ![d] = v]]

\* ServiceOutput::setTarget with the calls of VirtualInputSignal::setSource
\* it makes: the previous input forgets the output, the new one takes leave of
\* its previous driver, and both parameters follow.
SetTarget(b, d, v) ==
  IF b.target[d] = v THEN b
  ELSE LET left == {w \in Virtual : b.target[d] = w /\ b.driver[w] = d}
       IN [b EXCEPT
             !.target = [e \in Drivers |-> IF e = d THEN v
                                           ELSE IF e \in Robbed(b, d, v) THEN None
                                           ELSE @[e]],
             !.driver = [w \in Virtual |-> IF w = v THEN d
                                           ELSE IF w \in left THEN None
                                           ELSE @[w]],
             !.param = [e \in Elements |-> IF e = d THEN v
                                           ELSE IF e \in Robbed(b, d, v) THEN None
                                           ELSE @[e]]]

\* Every element bound to v is unbound.
UnbindTargets(b, v) ==
  [b EXCEPT !.source = [t \in Targets |-> IF t \in b.targets[v] THEN None ELSE @[t]],
            !.param = [e \in Elements |-> IF e \in b.targets[v] THEN None ELSE @[e]],
            !.targets[v] = {}]

-----------------------------------------------------------------------------
(* ServiceManager::init, element after element.                            *)

\* clear(): the signals and services are made anew.
Cleared(b) ==
  [b EXCEPT !.source = [t \in Targets |-> None],
            !.targets = [i \in Inputs |-> {}],
            !.target = [d \in Drivers |-> None],
            !.driver = [v \in Virtual |-> None]]

\* An output or an input finds the signal its parameter names.
LoadTarget(b, t) ==
  IF b.param[t] \in Inputs THEN SetSource(b, t, b.param[t]) ELSE b

\* Faulty variant: the kind of the input is not looked at.
LoadDriverUncast(b, d) ==
  IF b.param[d] \in Virtual THEN SetTarget(b, d, b.param[d])
  ELSE [b EXCEPT !.target[d] = b.param[d]]

\* An output of an algorithm takes the virtual input its parameter names,
\* whoever has it; a name of another kind of input comes out as no target.
LoadDriver(b, d) ==
  IF b.param[d] \in Virtual THEN SetTarget(b, d, b.param[d]) ELSE b

\* A function takes it only when nobody has it.
LoadFunction(b, f) ==
  IF b.param[f] \in Virtual /\ b.driver[b.param[f]] = None
  THEN SetTarget(b, f, b.param[f]) ELSE b

-----------------------------------------------------------------------------
(* Parameters from tables and tables from parameters.                      *)

\* compileBindindgs(), outputsToParams() and algsToParams().
TablesToParams(b) ==
  [b EXCEPT !.param = [e \in Elements |-> IF e \in Outs \union AlgIns \union AlgOuts
                                          THEN table[e] ELSE @[e]]]

\* setAlgorithmEnabled().
PinsFromTable(b, enabled) ==
  [b EXCEPT !.param = [e \in Elements |-> IF e \notin Pins THEN @[e]
                                          ELSE IF enabled THEN table[e] ELSE None]]

-----------------------------------------------------------------------------
(* The form of bindings and the other users of parameters.                 *)

\* Whether an input of flexible logic uses the signal.
Locked(b, i) == b.targets[i] \cap Pins # {}

Busy == {v \in Virtual : bind.driver[v] # None}

\* What the dialog offers for an input or an output of the device, and for an
\* output of an algorithm.
InputChoices == Physical \union Busy
OutputChoices == Virtual \ Busy

BindInput(t) ==
  /\ t \in Outs \union AlgIns /\ bind.source[t] = None
  /\ \E i \in InputChoices : bind' = SetSource(bind, t, i)
  /\ UNCHANGED table

UnbindInput(t) ==
  /\ t \in Outs \union AlgIns /\ bind.source[t] # None
  /\ t \in Outs => ~Locked(bind, bind.source[t])
  /\ bind' = SetSource(bind, t, None)
  /\ UNCHANGED table

BindOutput(d) ==
  /\ d \in AlgOuts /\ bind.target[d] = None
  /\ \E v \in OutputChoices : bind' = SetTarget(bind, d, v)
  /\ UNCHANGED table

\* Faulty variant: the elements bound to the input are left as they are.
UnbindOutputOnly(d) ==
  /\ d \in AlgOuts /\ bind.target[d] # None
  /\ ~Locked(bind, bind.target[d])
  /\ bind' = SetTarget(bind, d, None)
  /\ UNCHANGED table

UnbindOutput(d) ==
  /\ d \in AlgOuts /\ bind.target[d] # None
  /\ ~Locked(bind, bind.target[d])
  /\ bind' = SetTarget(UnbindTargets(bind, bind.target[d]), d, None)
  /\ UNCHANGED table

\* The form of virtual functions writes the parameter alone, and looks for free
\* inputs among the parameters of functions and in the tables.
FunctionChoices ==
  {bind.param[f] : f \in Funcs} \union
  (Virtual \ {table[e] : e \in Elements \ Funcs})

EditFunction(f) ==
  /\ \E v \in Virtual \cap FunctionChoices : bind' = [bind EXCEPT !.param[f] = v]
  /\ UNCHANGED table

\* DcWriteConfigOperation::before().
CompileTables ==
  /\ bind' = TablesToParams(bind)
  /\ UNCHANGED table

=============================================================================
