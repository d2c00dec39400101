---------------------- MODULE AsyncChannelManagerProofs ----------------------
(***************************************************************************)
(* What AsyncChannelManager keeps for any number of requests of any kinds: *)
(* the types of what its queues and functions hold, the shape of the call  *)
(* stack, and over TCP its knowledge of the connection; then, by counting  *)
(* where an item waits, is carried, is about to start or to end, that a    *)
(* request of the file system is in one place at a time, and what follows. *)
(***************************************************************************)
EXTENDS AsyncChannelManagerInvariants, SequenceTheorems, FiniteSetTheorems, TLAPS

-----------------------------------------------------------------------------
(* Types.                                                                  *)

LEMMA Parts ==
  ASSUME NEW S, NEW q \in Seq(S), q # <<>>
  PROVE  Head(q) \in S /\ Tail(q) \in Seq(S)
OBVIOUS

LEMMA ItemTypes ==
  /\ \A r \in Requests, step \in {"run", "open", "attr", "data", "close"} :
       /\ Item(r, step) \in Objects
       /\ Item(r, step).req = r /\ Item(r, step).step = step
  /\ \A step \in OwnSteps :
       Own(step) \in Objects /\ Own(step).req = Manager /\ Own(step).step = step
  /\ Nothing = Own("quit") /\ Nothing \in Objects
BY DEF Item, Own, Objects, Items, OwnSteps, Manager, Nothing

LEMMA ObjectIs ==
  ASSUME NEW i \in Objects
  PROVE  /\ i \in Items /\ i \in Exchanges /\ i.part = "command" /\ Base(i) = i
         /\ i = Item(i.req, i.step)
         /\ \/ i.req \in Requests /\ i.step \in {"run", "open", "attr", "data", "close"}
            \/ i.req = Manager /\ i.step \in OwnSteps
BY DEF Objects, Items, Exchanges, Base, Item

LEMMA ExchangeIs ==
  ASSUME NEW i \in Exchanges
  PROVE  /\ i \in Items /\ Base(i) \in Objects
         /\ Base(i).req = i.req /\ Base(i).step = i.step
         /\ ReadsResponse(i) => i \in Commands /\ Base(i) = i
         /\ ReadsResponse(i) => [i EXCEPT !.part = "response"] \in Exchanges
         /\ Base([i EXCEPT !.part = "response"]) = Base(i)
BY DEF Exchanges, Items, Base, Objects, ReadsResponse, IsCommand, IsUser, OwnSteps, Commands

LEMMA FrameTypes ==
  /\ \A op \in Ops, i \in Objects :
       Call(op, i) \in Suspended /\ Call(op, i).op = op /\ Call(op, i).item = i /\ ~Call(op, i).ok
  /\ \A op \in Ops : Do(op) \in Suspended /\ Do(op).op = op /\ Do(op).item = Nothing /\ ~Do(op).ok
  /\ \A i \in Exchanges, ok \in BOOLEAN :
       /\ End(i, ok) \in Suspended
       /\ End(i, ok).op = "finished" /\ End(i, ok).item = Base(i) /\ End(i, ok).ok = ok
<1>1. "finished" \in Ops
  BY DEF Ops
<1> QED BY <1>1, ItemTypes, ExchangeIs DEF Call, Do, End, Suspended, Base

LEMMA PushTypes ==
  ASSUME NEW f \in Suspended, NEW s \in Seq(Suspended)
  PROVE  /\ Push(f, s) \in Seq(Suspended) /\ Push(f, s) # <<>>
         /\ Head(Push(f, s)) = f /\ Tail(Push(f, s)) = s
BY DEF Push

\* A sequence that begins with f and continues as t does.
LEMMA Joined ==
  ASSUME NEW S, NEW f \in S, NEW t \in Seq(S), NEW u \in Seq(S), Len(u) = Len(t) + 1, u[1] = f,
         \A n \in 1 .. Len(t) : u[n + 1] = t[n]
  PROVE  <<f>> \o t = u
<1>1. <<f>> \in Seq(S) /\ Len(<<f>>) = 1 /\ <<f>>[1] = f /\ Len(t) \in Nat
  OBVIOUS
<1>2. /\ <<f>> \o t \in Seq(S) /\ Len(<<f>> \o t) = 1 + Len(t)
      /\ \A n \in 1 .. 1 + Len(t) : (<<f>> \o t)[n] = IF n <= 1 THEN <<f>>[n] ELSE t[n - 1]
  BY <1>1, ConcatProperties
<1>3. \A n \in 1 .. Len(u) : (<<f>> \o t)[n] = u[n]
  <2> TAKE n \in 1 .. Len(u)
  <2>1. CASE n = 1
    BY <1>1, <1>2, <2>1
  <2>2. CASE n # 1
    <3>1. n - 1 \in 1 .. Len(t) /\ (n - 1) + 1 = n /\ ~(n <= 1)
      BY <1>1, <2>2
    <3> QED BY <1>1, <1>2, <3>1
  <2> QED BY <2>1, <2>2
<1> QED BY <1>1, <1>2, <1>3, SeqEqual

LEMMA PushTwo ==
  ASSUME NEW f \in Suspended, NEW g \in Suspended, NEW s \in Seq(Suspended)
  PROVE  <<f, g>> \o s = Push(f, Push(g, s)) /\ <<f>> \o <<g>> = <<f, g>>
<1>1. <<f>> \in Seq(Suspended) /\ <<g>> \in Seq(Suspended) /\ <<f, g>> \in Seq(Suspended)
  OBVIOUS
<1>2. <<f>> \o <<g>> = <<f, g>>
  <2>1. Len(<<f, g>>) = Len(<<g>>) + 1 /\ <<f, g>>[1] = f
    OBVIOUS
  <2>2. \A n \in 1 .. Len(<<g>>) : <<f, g>>[n + 1] = <<g>>[n]
    <3>1. \A n \in 1 .. Len(<<g>>) : n = 1
      OBVIOUS
    <3> QED BY <3>1
  <2> QED BY <1>1, <2>1, <2>2, Joined
<1>3. (<<f>> \o <<g>>) \o s = <<f>> \o (<<g>> \o s)
  BY <1>1, ConcatAssociative
<1> QED BY <1>2, <1>3 DEF Push

LEMMA PushThree ==
  ASSUME NEW f \in Suspended, NEW g \in Suspended, NEW h \in Suspended, NEW s \in Seq(Suspended)
  PROVE  <<f, g, h>> \o s = Push(f, Push(g, Push(h, s)))
<1>1. <<f>> \in Seq(Suspended) /\ <<g, h>> \in Seq(Suspended) /\ <<f, g, h>> \in Seq(Suspended)
  OBVIOUS
<1>2. <<f>> \o <<g, h>> = <<f, g, h>>
  <2>1. Len(<<f, g, h>>) = Len(<<g, h>>) + 1 /\ <<f, g, h>>[1] = f
    OBVIOUS
  <2>2. \A n \in 1 .. Len(<<g, h>>) : <<f, g, h>>[n + 1] = <<g, h>>[n]
    <3>1. \A n \in 1 .. Len(<<g, h>>) : n = 1 \/ n = 2
      OBVIOUS
    <3> QED BY <3>1
  <2> QED BY <1>1, <2>1, <2>2, Joined
<1>3. (<<f>> \o <<g, h>>) \o s = <<f>> \o (<<g, h>> \o s)
  BY <1>1, ConcatAssociative
<1>4. <<g, h>> \o s = Push(g, Push(h, s))
  BY PushTwo
<1> QED BY <1>2, <1>3, <1>4 DEF Push

LEMMA PushNone ==
  ASSUME NEW s \in Seq(Suspended), NEW f \in Suspended
  PROVE  <<>> \o s = s /\ <<f>> = Push(f, <<>>) /\ <<f>> \o s = Push(f, s)
BY ConcatEmptySeq DEF Push

LEMMA PushAlone ==
  /\ \A f \in Suspended : <<f>> = Push(f, <<>>) /\ <<f>> \in Seq(Suspended)
  /\ <<>> \in Seq(Suspended)
<1>1. <<>> \in Seq(Suspended)
  OBVIOUS
<1>2. \A f \in Suspended : <<f>> = Push(f, <<>>)
  BY <1>1, PushNone
<1>3. \A f \in Suspended : <<f>> \in Seq(Suspended)
  OBVIOUS
<1> QED BY <1>1, <1>2, <1>3

\* The function that runs, and what it holds.
LEMMA AtTypes ==
  ASSUME stack \in Seq(Suspended), NEW op, At(op)
  PROVE  /\ stack # <<>> /\ Rest \in Seq(Suspended) /\ Head(stack) \in Suspended
         /\ This \in Objects /\ Head(stack).op = op /\ Head(stack).ok \in BOOLEAN
         /\ stack = Push(Head(stack), Rest)
<1>1. stack # <<>> /\ Head(stack).op = op
  BY DEF At
<1>2. Rest \in Seq(Suspended) /\ Head(stack) \in Suspended /\ stack = Push(Head(stack), Rest)
  BY <1>1 DEF Rest, Push
<1> QED BY <1>1, <1>2 DEF This, Suspended

LEMMA ErrorTypes ==
  ASSUME NEW rest \in Seq(Suspended), ChannelError(rest)
  PROVE  /\ stack' = Push(Do("onError"), Push(Do("errorFinish"), Push(Do("errorClose"), rest)))
         /\ stack' \in Seq(Suspended)
<1>1. /\ Do("onError") \in Suspended /\ Do("errorFinish") \in Suspended
      /\ Do("errorClose") \in Suspended
  BY FrameTypes DEF Ops
<1>2. <<Do("onError"), Do("errorFinish"), Do("errorClose")>> \o rest
        = Push(Do("onError"), Push(Do("errorFinish"), Push(Do("errorClose"), rest)))
  BY <1>1, PushThree
<1>3. Push(Do("errorClose"), rest) \in Seq(Suspended)
  BY <1>1, PushTypes
<1>4. Push(Do("errorFinish"), Push(Do("errorClose"), rest)) \in Seq(Suspended)
  BY <1>1, <1>3, PushTypes
<1> QED BY <1>1, <1>2, <1>4, PushTypes DEF ChannelError

LEMMA ConnectTypes ==
  ASSUME TypeInv, NEW rest \in Seq(Suspended), ChannelConnect(rest)
  PROVE  stack' \in Seq(Suspended) /\ link' \in {"down", "connecting", "up", "closing"}
<1>1. Do("onConnected") \in Suspended
  BY FrameTypes DEF Ops
<1> QED BY <1>1, PushTypes, ErrorTypes DEF ChannelConnect, TypeInv

LEMMA DisconnectTypes ==
  ASSUME TypeInv, NEW rest \in Seq(Suspended), DoDisconnect(rest)
  PROVE  /\ stack' \in Seq(Suspended) /\ link' \in {"down", "connecting", "up", "closing"}
         /\ pendingClose' \in BOOLEAN
<1>1. Do("drain") \in Suspended /\ Do("closed") \in Suspended
  BY FrameTypes DEF Ops
<1>2. Push(Do("drain"), rest) \in Seq(Suspended) /\ Push(Do("closed"), rest) \in Seq(Suspended)
  BY <1>1, PushTypes
<1>3. <<Do("drain"), Do("closed")>> \o rest = Push(Do("drain"), Push(Do("closed"), rest))
  BY <1>1, PushTwo
<1>4. Push(Do("drain"), Push(Do("closed"), rest)) \in Seq(Suspended)
  BY <1>1, <1>2, PushTypes
<1> QED BY <1>2, <1>3, <1>4 DEF DoDisconnect, TypeInv, linkVars

LEMMA FinishTypes ==
  ASSUME TypeInv, NEW rest \in Seq(Suspended), NEW ok \in BOOLEAN, ChannelFinish(ok, rest)
  PROVE  stack' \in Seq(Suspended) /\ chan' \in Seq(Exchanges)
<1>1. CASE chan = <<>>
  BY <1>1 DEF ChannelFinish, TypeInv
<1>2. CASE chan # <<>>
  <2>1. Head(chan) \in Exchanges /\ Tail(chan) \in Seq(Exchanges)
    BY <1>2 DEF TypeInv
  <2>2. ReadsResponse(Head(chan)) => [Head(chan) EXCEPT !.part = "response"] \in Exchanges
    BY <2>1, ExchangeIs
  <2>3. End(Head(chan), ok) \in Suspended
    BY <2>1, FrameTypes
  <2>4. Push(End(Head(chan), ok), rest) \in Seq(Suspended)
    BY <2>3, PushTypes
  <2>5. CASE ok /\ ReadsResponse(Head(chan))
    <3>1. chan' = Append(Tail(chan), [Head(chan) EXCEPT !.part = "response"]) /\ stack' = rest
      BY <1>2, <2>5 DEF ChannelFinish
    <3> QED BY <2>1, <2>2, <2>5, <3>1
  <2>6. CASE ~(ok /\ ReadsResponse(Head(chan)))
    BY <1>2, <2>1, <2>4, <2>6 DEF ChannelFinish
  <2> QED BY <2>5, <2>6
<1> QED BY <1>1, <1>2

LEMMA ConnectToTypes ==
  ASSUME TypeInv, NEW rest \in Seq(Suspended), ConnectToDevice(rest)
  PROVE  /\ stack' \in Seq(Suspended) /\ link' \in {"down", "connecting", "up", "closing"}
         /\ isConnecting' \in BOOLEAN
BY ConnectTypes DEF ConnectToDevice, TypeInv

LEMMA AddTypes ==
  ASSUME TypeInv, NEW rest \in Seq(Suspended)
  PROVE  /\ \A i \in Commands : AddCtrl(i, rest) => stack' \in Seq(Suspended) /\ fsCtrl' \in Seq(Commands)
         /\ \A i \in Transfers : AddData(i, rest) => stack' \in Seq(Suspended) /\ fsData' \in Seq(Transfers)
<1>1. Do("execCtrl") \in Suspended /\ Do("execData") \in Suspended
  BY FrameTypes DEF Ops
<1>2. Push(Do("execCtrl"), rest) \in Seq(Suspended) /\ Push(Do("execData"), rest) \in Seq(Suspended)
  BY <1>1, PushTypes
<1>3. /\ \A i \in Commands : Append(fsCtrl, i) \in Seq(Commands)
      /\ \A i \in Transfers : Append(fsData, i) \in Seq(Transfers)
  BY DEF TypeInv
<1> QED BY <1>2, <1>3 DEF AddCtrl, AddData

\* finish(): the application's slots run first, then the manager's.
LEMMA FinishOf ==
  ASSUME TypeInv, NEW r \in Requests, NEW started \in BOOLEAN, NEW rest \in Seq(Suspended),
         Finish(r, started, rest)
  PROVE  /\ stack' = Push(Do("slot"),
              IF started /\ Item(r, "run") \in Commands THEN Push(Call("ctrlDone", Item(r, "run")), rest)
              ELSE IF started /\ Item(r, "run") \in Transfers THEN Push(Call("dataDone", Item(r, "run")), rest)
              ELSE rest)
         /\ stack' \in Seq(Suspended)
         /\ status' = [status EXCEPT ![r] = "finished"]
         /\ status' \in [Requests -> {"new", "waiting", "finished"}]
<1>1. /\ Item(r, "run") \in Objects /\ Item(r, "run").req = r /\ Item(r, "run").step = "run"
      /\ Item(r, "run") \in Commands <=> Kind[r] = "ctrl"
      /\ Item(r, "run") \in Transfers <=> Kind[r] \in {"download", "upload"}
  BY ItemTypes DEF Commands, Transfers, IsCommand, IsTransfer, IsUser
<1>2. /\ Do("slot") \in Suspended /\ Call("ctrlDone", Item(r, "run")) \in Suspended
      /\ Call("dataDone", Item(r, "run")) \in Suspended
  BY <1>1, FrameTypes DEF Ops
<1>3. stack' = Push(Do("slot"),
              IF started /\ Item(r, "run") \in Commands THEN Push(Call("ctrlDone", Item(r, "run")), rest)
              ELSE IF started /\ Item(r, "run") \in Transfers THEN Push(Call("dataDone", Item(r, "run")), rest)
              ELSE rest)
  BY <1>1 DEF Finish
<1> QED BY <1>2, <1>3, PushTypes DEF Finish, TypeInv

\* The commands of a file transfer.
LEMMA StepTypes ==
  ASSUME NEW r \in Requests
  PROVE  /\ \A step \in {"open", "attr", "close"} : Item(r, step) \in Commands
         /\ Kind[r] = "ctrl" <=> Item(r, "run") \in Commands
         /\ Kind[r] \in {"download", "upload"} <=> Item(r, "run") \in Transfers
BY ItemTypes DEF Commands, Transfers, IsCommand, IsTransfer, IsUser

LEMMA TypeInit == Init => TypeInv
<1>1. Nothing \in Items
  BY ItemTypes DEF Objects
<1>2. 0 \in 0 .. MaxCalls
  BY ManagerAssumption DEF ManagerAssumption
<1>3. <<>> \in Seq(Objects) /\ <<>> \in Seq(Exchanges) /\ <<>> \in Seq(Commands) /\ <<>> \in Seq(Transfers)
      /\ <<>> \in Seq(Suspended)
  OBVIOUS
<1> QED BY <1>1, <1>2, <1>3 DEF Init, TypeInv

LEMMA TypeApp ==
  ASSUME TypeInv, App
  PROVE  TypeInv'
<1>0. stack \in Seq(Suspended) /\ MaxCalls \in Nat /\ calls \in 0 .. MaxCalls
  BY ManagerAssumption DEF TypeInv, ManagerAssumption
<1>1. ASSUME NEW r \in Requests, AppExec(r) PROVE TypeInv'
  <2> DEFINE i == Item(r, "run")
  <2>1. i \in Objects
    BY ItemTypes
  <2>2. CASE Kind[r] = "ctrl" /\ AddCtrl(i, stack) /\ UNCHANGED fsData
    <3>1. i \in Commands
      BY <2>2, StepTypes
    <3>2. stack' \in Seq(Suspended) /\ fsCtrl' \in Seq(Commands)
      BY <1>0, <2>2, <3>1, AddTypes
    <3> QED BY <1>1, <2>2, <3>2 DEF AppExec, TypeInv, connVars, gotVars, linkVars, deviceVars
  <2>3. CASE Kind[r] \in {"download", "upload"} /\ AddData(i, stack) /\ UNCHANGED fsCtrl
    <3>1. i \in Transfers
      BY <2>3, StepTypes
    <3>2. stack' \in Seq(Suspended) /\ fsData' \in Seq(Transfers)
      BY <1>0, <2>3, <3>1, AddTypes
    <3> QED BY <1>1, <2>3, <3>2 DEF AppExec, TypeInv, connVars, gotVars, linkVars, deviceVars
  <2>4. CASE stack' = Push(Call("start", i), stack) /\ UNCHANGED <<fsCtrl, fsData>>
    <3>1. Call("start", i) \in Suspended
      BY <2>1, FrameTypes DEF Ops
    <3>2. stack' \in Seq(Suspended)
      BY <1>0, <2>4, <3>1, PushTypes
    <3> QED BY <1>1, <2>4, <3>2 DEF AppExec, TypeInv, connVars, gotVars, linkVars, deviceVars
  <2> QED BY <1>1, <2>2, <2>3, <2>4 DEF AppExec
<1>2. CASE AppConnect
  <2>1. /\ stack' \in Seq(Suspended) /\ link' \in {"down", "connecting", "up", "closing"}
        /\ isConnecting' \in BOOLEAN
    BY <1>0, <1>2, ConnectToTypes DEF AppConnect
  <2> QED BY <1>0, <1>2, <2>1 DEF AppConnect, TypeInv, fsVars, gotVars, deviceVars
<1>3. CASE AppDisconnect
  <2>1. /\ stack' \in Seq(Suspended) /\ link' \in {"down", "connecting", "up", "closing"}
        /\ pendingClose' \in BOOLEAN
    BY <1>0, <1>3, DisconnectTypes DEF AppDisconnect
  <2> QED
    BY <1>0, <1>3, <2>1 DEF AppDisconnect, TypeInv, managerVars, connVars, fsVars, gotVars, deviceVars
<1>4. CASE SetChannel
  <2>1. Do("slot") \in Suspended
    BY FrameTypes DEF Ops
  <2>2. stack' \in Seq(Suspended) /\ chan' \in Seq(Exchanges)
    BY <1>4, <2>1 DEF SetChannel
  <2>3. calls' \in 0 .. MaxCalls
    BY <1>0, <1>4 DEF SetChannel
  <2>4. session' \in BOOLEAN /\ command' \in Items /\ file' \in Requests \union {Manager}
    <3>1. Nothing \in Items
      BY ItemTypes DEF Objects
    <3>2. UNCHANGED deviceVars \/ (session' = FALSE /\ command' = Nothing /\ file' = Manager)
      BY <1>4 DEF SetChannel
    <3> QED BY <3>1, <3>2 DEF TypeInv, deviceVars
  <2> QED BY <1>4, <2>2, <2>3, <2>4 DEF SetChannel, TypeInv, fsVars
<1> QED BY <1>1, <1>2, <1>3, <1>4 DEF App

LEMMA ServesTypes ==
  ASSUME TypeInv, NEW i \in Exchanges, DeviceServes(i)
  PROVE  session' \in BOOLEAN /\ command' \in Items /\ file' \in Requests \union {Manager}
<1>1. i \in Items /\ (i.step = "open" => i.req \in Requests)
  BY ExchangeIs DEF Items, OwnSteps
<1> QED BY <1>1 DEF DeviceServes, TypeInv

LEMMA TypeLoop ==
  ASSUME TypeInv, Loop
  PROVE  TypeInv'
<1>0. <<>> \in Seq(Suspended) /\ (chan # <<>> => Head(chan) \in Exchanges)
  BY DEF TypeInv
<1>1. CASE Answer
  <2>1. stack' \in Seq(Suspended) /\ chan' \in Seq(Exchanges)
    BY <1>0, <1>1, FinishTypes DEF Answer
  <2>2. session' \in BOOLEAN /\ command' \in Items /\ file' \in Requests \union {Manager}
    BY <1>0, <1>1, ServesTypes DEF Answer, deviceVars, TypeInv
  <2> QED BY <1>1, <2>1, <2>2 DEF Answer, TypeInv, managerVars, connVars, fsVars, gotVars, linkVars
<1>2. CASE NotConnected
  <2>1. stack' \in Seq(Suspended) /\ chan' \in Seq(Exchanges)
    BY <1>0, <1>2, FinishTypes DEF NotConnected
  <2> QED
    BY <1>2, <2>1 DEF NotConnected, TypeInv, managerVars, connVars, fsVars, gotVars, linkVars, deviceVars
<1>3. CASE Timeout
  <2>1. stack' \in Seq(Suspended)
    BY <1>0, <1>3, ErrorTypes DEF Timeout
  <2>2. session' \in BOOLEAN /\ command' \in Items /\ file' \in Requests \union {Manager}
    BY <1>0, <1>3, ServesTypes DEF Timeout, deviceVars, TypeInv
  <2> QED BY <1>3, <2>1, <2>2 DEF Timeout, TypeInv, managerVars, connVars, fsVars, gotVars, linkVars
<1>4. CASE LinkBreaks
  <2>1. Do("socketAbort") \in Suspended
    BY FrameTypes DEF Ops
  <2>2. (IF Transport = "tcp" THEN <<Do("socketAbort")>> ELSE <<>>) \in Seq(Suspended)
    BY <1>0, <2>1
  <2>3. stack' \in Seq(Suspended)
    BY <1>4, <2>2, ErrorTypes DEF LinkBreaks
  <2> QED
    BY <1>4, <2>3 DEF LinkBreaks, TypeInv, managerVars, connVars, fsVars, gotVars, linkVars, deviceVars
<1>5. CASE Noise
  <2>1. Do("onError") \in Suspended /\ Do("errorFinish") \in Suspended
    BY FrameTypes DEF Ops
  <2>2. stack' \in Seq(Suspended)
    BY <1>5, <2>1 DEF Noise
  <2> QED
    BY <1>5, <2>2 DEF Noise, TypeInv, managerVars, connVars, fsVars, gotVars, linkVars, deviceVars
<1>6. CASE Connected
  <2>1. Do("onConnected") \in Suspended /\ Do("hangUp") \in Suspended
    BY FrameTypes DEF Ops
  <2>2. stack' \in Seq(Suspended)
    BY <1>6, <2>1 DEF Connected
  <2> QED BY <1>6, <2>2 DEF Connected, TypeInv, managerVars, connVars, fsVars, gotVars, deviceVars
<1>7. CASE ConnectFails
  <2>1. stack' \in Seq(Suspended)
    BY <1>0, <1>7, ErrorTypes DEF ConnectFails
  <2> QED
    BY <1>7, <2>1 DEF ConnectFails, TypeInv, managerVars, connVars, fsVars, gotVars, deviceVars
<1>8. CASE CloseEnds
  <2>1. Do("drain") \in Suspended
    BY FrameTypes DEF Ops
  <2>2. stack' \in Seq(Suspended)
    BY <1>8, <2>1 DEF CloseEnds
  <2> QED BY <1>8, <2>2 DEF CloseEnds, TypeInv, managerVars, connVars, fsVars, gotVars, deviceVars
<1> QED BY <1>1, <1>2, <1>3, <1>4, <1>5, <1>6, <1>7, <1>8 DEF Loop

LEMMA TypeStart ==
  ASSUME TypeInv, Start
  PROVE  TypeInv'
<1>0. stack \in Seq(Suspended) /\ Rest \in Seq(Suspended) /\ This \in Objects
  BY AtTypes DEF Start, TypeInv
<1>1. CASE ~isConnected
  <2>1. /\ stack' \in Seq(Suspended) /\ link' \in {"down", "connecting", "up", "closing"}
        /\ isConnecting' \in BOOLEAN
    BY <1>0, <1>1, ConnectToTypes DEF Start
  <2>2. pending' \in Seq(Objects)
    <3>1. pending' = Append(pending, This) /\ pending \in Seq(Objects)
      BY <1>1 DEF Start, TypeInv
    <3> QED BY <1>0, <3>1
  <2> QED BY <1>1, <2>1, <2>2 DEF Start, TypeInv, gotVars, deviceVars
<1>2. CASE isConnected
  <2>1. stack' \in Seq(Suspended) /\ fsCtrl' \in Seq(Commands) /\ chan' \in Seq(Exchanges)
    <3>1. CASE chan' = Append(chan, This) /\ stack' = Rest /\ UNCHANGED fsCtrl
      <4>1. This \in Exchanges
        BY <1>0, ObjectIs
      <4> QED BY <1>0, <3>1, <4>1 DEF TypeInv
    <3>2. CASE IsTransfer(This) /\ AddCtrl(Item(This.req, "open"), Rest) /\ UNCHANGED chan
      <4>1. This.req \in Requests
        BY <1>0, <3>2, ObjectIs DEF IsTransfer, IsUser, OwnSteps
      <4>2. Item(This.req, "open") \in Commands
        BY <4>1, StepTypes
      <4> QED BY <1>0, <3>2, <4>2, AddTypes DEF TypeInv
    <3>3. CASE /\ stack' = Push(End(This, Kind[This.req] = "empty"), Rest)
               /\ UNCHANGED <<fsCtrl, chan>>
      <4>1. End(This, Kind[This.req] = "empty") \in Suspended
        BY <1>0, ObjectIs, FrameTypes
      <4> QED BY <1>0, <3>3, <4>1, PushTypes DEF TypeInv
    <3> QED BY <1>2, <3>1, <3>2, <3>3 DEF Start
  <2> QED BY <1>2, <2>1 DEF Start, TypeInv, connVars, gotVars, deviceVars
<1> QED BY <1>1, <1>2 DEF TypeInv

\* What execNextFSRequest leaves on the stack.
LEMMA ExecLeaves ==
  ASSUME TypeInv, NEW type \in {{"ctrl"}, {"data"}, {"ctrl", "data"}}, ExecFS(type),
         Rest \in Seq(Suspended)
  PROVE  \/ /\ fsCtrl = <<>> /\ fsData = <<>> /\ login' = "NotLoggedIn"
            /\ stack' = Push(Call("start", Own("quit")), Rest)
         \/ /\ fsCtrl # <<>> \/ fsData # <<>>
            /\ \/ login = "LoggingIn" /\ login' = login /\ stack' = Rest
               \/ /\ login = "NotLoggedIn" /\ login' = "LoggingIn"
                  /\ stack' = Push(Call("start", Own("login")), Rest)
               \/ /\ login = "LoggedIn" /\ login' = login
                  /\ \/ /\ "ctrl" \in type /\ fsCtrl # <<>> /\ "data" \notin type
                        /\ stack' = Push(Call("start", Head(fsCtrl)), Rest)
                     \/ /\ "ctrl" \in type /\ fsCtrl # <<>> /\ "data" \in type
                        /\ stack' = Push(Call("start", Head(fsCtrl)), Push(Do("startData"), Rest))
                     \/ /\ ("ctrl" \notin type \/ fsCtrl = <<>>) /\ "data" \in type
                        /\ stack' = Push(Do("startData"), Rest)
                     \/ /\ "data" \notin type /\ fsCtrl = <<>>
                        /\ stack' = Rest
<1>1. Do("startData") \in Suspended
  BY FrameTypes DEF Ops
<1>2. CASE fsCtrl = <<>> /\ fsData = <<>>
  BY <1>2 DEF ExecFS, Quit
<1>3. CASE (fsCtrl # <<>> \/ fsData # <<>>) /\ login # "LoggedIn"
  BY <1>3 DEF ExecFS
<1>4. CASE (fsCtrl # <<>> \/ fsData # <<>>) /\ login = "LoggedIn"
  <2>1. /\ login' = login
        /\ stack' = (IF "ctrl" \in type /\ fsCtrl # <<>>
                             THEN <<Call("start", Head(fsCtrl))>> ELSE <<>>)
                          \o (IF "data" \in type THEN <<Do("startData")>> ELSE <<>>) \o Rest
    BY <1>4 DEF ExecFS
  <2>2. CASE "ctrl" \in type /\ fsCtrl # <<>>
    <3>1. Call("start", Head(fsCtrl)) \in Suspended
      <4>1. Head(fsCtrl) \in Commands
        BY <2>2, Parts DEF TypeInv
      <4> QED BY <4>1, FrameTypes DEF Commands, Ops
    <3> DEFINE f == Call("start", Head(fsCtrl))
               g == Do("startData")
    <3>2. CASE "data" \in type
      <4>1. stack' = (<<f>> \o <<g>>) \o Rest
        BY <2>1, <2>2, <3>2
      <4>2. <<f>> \o <<g>> = <<f, g>> /\ <<f, g>> \o Rest = Push(f, Push(g, Rest))
        BY <1>1, <3>1, PushTwo
      <4> QED BY <1>4, <2>1, <2>2, <3>2, <4>1, <4>2
    <3>3. CASE "data" \notin type
      <4>1. stack' = (<<f>> \o <<>>) \o Rest
        BY <2>1, <2>2, <3>3
      <4>2. <<f>> \in Seq(Suspended)
        BY <3>1
      <4>3. <<f>> \o <<>> = <<f>>
        BY <4>2, ConcatEmptySeq
      <4> QED BY <1>4, <2>1, <2>2, <3>3, <4>1, <4>3 DEF Push
    <3> QED BY <3>2, <3>3
  <2>3. CASE "ctrl" \notin type \/ fsCtrl = <<>>
    <3>1. <<Do("startData")>> \in Seq(Suspended) /\ <<>> \in Seq(Suspended)
      BY <1>1
    <3>2. /\ <<>> \o <<Do("startData")>> = <<Do("startData")>> /\ <<>> \o <<>> = <<>>
          /\ <<>> \o Rest = Rest
      BY <3>1, ConcatEmptySeq
    <3>3. CASE "data" \in type
      <4>1. stack' = (<<>> \o <<Do("startData")>>) \o Rest
        BY <2>1, <2>3, <3>3
      <4> QED BY <1>4, <2>1, <2>3, <3>2, <3>3, <4>1 DEF Push
    <3>4. CASE "data" \notin type
      <4>1. stack' = (<<>> \o <<>>) \o Rest
        BY <2>1, <2>3, <3>4
      <4> QED BY <1>4, <2>1, <2>3, <3>2, <3>4, <4>1
    <3> QED BY <3>3, <3>4
  <2> QED BY <2>2, <2>3
<1> QED BY <1>2, <1>3, <1>4 DEF TypeInv

\* What onChannelConnected leaves on the stack.
LEMMA ConnectedLeaves ==
  ASSUME TypeInv, OnChannelConnected, Rest \in Seq(Suspended)
  PROVE  \/ stack' = Push(Do("startPending"), Rest)
         \/ \E step \in {"master", "dimension"} :
              stack' = Push(Call("start", Own(step)), Push(Do("startPending"), Rest))
         \/ stack' = Push(Call("start", Own("master")),
                       Push(Call("start", Own("dimension")), Push(Do("startPending"), Rest)))
<1> DEFINE f == Call("start", Own("master"))
           g == Call("start", Own("dimension"))
           top == Push(Do("startPending"), Rest)
<1>1. f \in Suspended /\ g \in Suspended /\ Do("startPending") \in Suspended
  BY FrameTypes, ItemTypes DEF Ops, OwnSteps
<1>2. top \in Seq(Suspended)
  BY <1>1, PushTypes
<1>3. stack' = ((IF gotRW THEN <<>> ELSE <<f>>) \o (IF gotFile THEN <<>> ELSE <<g>>)) \o top
  BY DEF OnChannelConnected
<1> HIDE DEF f, g, top
<1>4. /\ <<f>> \in Seq(Suspended) /\ <<g>> \in Seq(Suspended) /\ <<>> \in Seq(Suspended)
  BY <1>1
<1>5. /\ <<>> \o <<>> = <<>> /\ <<f>> \o <<>> = <<f>> /\ <<>> \o <<g>> = <<g>>
      /\ <<>> \o top = top
  BY <1>2, <1>4, ConcatEmptySeq
<1>6. <<f>> \o <<g>> = <<f, g>> /\ <<f, g>> \o top = Push(f, Push(g, top))
  BY <1>1, <1>2, PushTwo
<1>7. CASE gotRW /\ gotFile
  BY <1>3, <1>5, <1>7 DEF top
<1>8. CASE gotRW /\ ~gotFile
  <2>1. stack' = Push(g, top)
    BY <1>3, <1>5, <1>8 DEF Push
  <2> QED BY <2>1 DEF g, top
<1>9. CASE ~gotRW /\ gotFile
  <2>1. stack' = Push(f, top)
    BY <1>3, <1>5, <1>9 DEF Push
  <2> QED BY <2>1 DEF f, top
<1>10. CASE ~gotRW /\ ~gotFile
  <2>1. stack' = (<<f>> \o <<g>>) \o top
    BY <1>3, <1>10
  <2> QED BY <1>6, <2>1 DEF f, g, top
<1> QED BY <1>7, <1>8, <1>9, <1>10

LEMMA TypeQueues ==
  ASSUME TypeInv,
         ExecNextFSRequest \/ StartData \/ CtrlDone \/ DataDone \/ FailFS
           \/ OnChannelConnected \/ StartPending \/ FailPending
  PROVE  TypeInv'
<1>0. /\ stack \in Seq(Suspended) /\ stack # <<>> /\ Rest \in Seq(Suspended)
      /\ This \in Objects
  BY AtTypes DEF ExecNextFSRequest, StartData, CtrlDone, DataDone, FailFS,
     OnChannelConnected, StartPending, FailPending, TypeInv, At
<1>a. /\ \A i \in Objects, op \in Ops : Call(op, i) \in Suspended /\ Do(op) \in Suspended
      /\ \A i \in Objects, ok \in BOOLEAN : End(i, ok) \in Suspended
      /\ \A op \in Ops : Do(op) \in Suspended
  BY FrameTypes, ObjectIs
<1>b. \A f \in Suspended, s \in Seq(Suspended) : Push(f, s) \in Seq(Suspended)
  BY PushTypes
<1>c. /\ fsCtrl # <<>> => Head(fsCtrl) \in Objects /\ Tail(fsCtrl) \in Seq(Commands)
      /\ fsData # <<>> => Head(fsData) \in Objects /\ Tail(fsData) \in Seq(Transfers)
      /\ pending # <<>> => Head(pending) \in Objects /\ Tail(pending) \in Seq(Objects)
  BY Parts DEF TypeInv, Commands, Transfers
<1>d. /\ {"start", "startData", "execCtrl", "execData", "rejected", "startPending", "slot"} \subseteq Ops
      /\ {Own("quit"), Own("login"), Own("master"), Own("dimension")} \subseteq Objects
  BY ItemTypes DEF Ops, OwnSteps
<1>1. CASE ExecNextFSRequest
  <2>1. PICK type \in {{"ctrl"}, {"data"}, {"ctrl", "data"}} : ExecFS(type)
    BY <1>1 DEF ExecNextFSRequest
  <2>2. stack' \in Seq(Suspended) /\ login' \in {"NotLoggedIn", "LoggingIn", "LoggedIn"}
    <3>1. /\ Push(Call("start", Own("quit")), Rest) \in Seq(Suspended)
          /\ Push(Call("start", Own("login")), Rest) \in Seq(Suspended)
          /\ Push(Do("startData"), Rest) \in Seq(Suspended)
      BY <1>0, <1>a, <1>b, <1>d
    <3>2. fsCtrl # <<>> =>
            /\ Push(Call("start", Head(fsCtrl)), Rest) \in Seq(Suspended)
            /\ Push(Call("start", Head(fsCtrl)), Push(Do("startData"), Rest)) \in Seq(Suspended)
      BY <1>0, <1>a, <1>b, <1>c, <1>d, <3>1
    <3>3. login \in {"NotLoggedIn", "LoggingIn", "LoggedIn"}
      BY DEF TypeInv
    <3> HIDE DEF TypeInv
    <3> QED BY <1>0, <2>1, <3>1, <3>2, <3>3, ExecLeaves
  <2> QED BY <2>1, <2>2 DEF ExecFS, TypeInv, connVars, gotVars, linkVars, deviceVars
<1>2. CASE StartData
  <2>1. stack' \in Seq(Suspended)
    BY <1>0, <1>2, <1>a, <1>b, <1>c, <1>d DEF StartData
  <2> QED
    BY <1>2, <2>1 DEF StartData, TypeInv, managerVars, connVars, fsVars, gotVars, linkVars, deviceVars
<1>3. CASE CtrlDone
  <2>1. stack' \in Seq(Suspended) /\ fsCtrl' \in Seq(Commands)
    BY <1>0, <1>3, <1>a, <1>b, <1>c, <1>d DEF CtrlDone
  <2> QED BY <1>3, <2>1 DEF CtrlDone, TypeInv, connVars, gotVars, linkVars, deviceVars
<1>4. CASE DataDone
  <2>1. stack' \in Seq(Suspended) /\ fsData' \in Seq(Transfers)
    BY <1>0, <1>4, <1>a, <1>b, <1>c, <1>d DEF DataDone
  <2> QED BY <1>4, <2>1 DEF DataDone, TypeInv, connVars, gotVars, linkVars, deviceVars
<1>5. CASE FailFS
  <2>1. stack' \in Seq(Suspended) /\ fsCtrl' \in Seq(Commands) /\ fsData' \in Seq(Transfers)
    <3>1. fsCtrl \in Seq(Commands) /\ fsData \in Seq(Transfers)
      BY DEF TypeInv
    <3> QED BY <1>0, <1>5, <1>a, <1>b, <1>c, <1>d, <3>1 DEF FailFS
  <2> QED BY <1>5, <2>1 DEF FailFS, TypeInv, connVars, gotVars, linkVars, deviceVars
<1>6. CASE OnChannelConnected
  <2>1. Push(Do("startPending"), Rest) \in Seq(Suspended)
    BY <1>0, <1>a, <1>b, <1>d
  <2>2. stack' \in Seq(Suspended)
    BY <1>0, <1>6, <1>a, <1>b, <1>d, <2>1, ConnectedLeaves
  <2> QED
    BY <1>6, <2>2 DEF OnChannelConnected, Established, TypeInv, fsVars, gotVars, linkVars, deviceVars
<1>7. CASE StartPending
  <2>1. stack' \in Seq(Suspended) /\ pending' \in Seq(Objects)
    <3>1. pending \in Seq(Objects)
      BY DEF TypeInv
    <3> QED BY <1>0, <1>7, <1>a, <1>b, <1>c, <1>d, <3>1 DEF StartPending
  <2> QED BY <1>7, <2>1 DEF StartPending, TypeInv, connVars, fsVars, gotVars, linkVars, deviceVars
<1>8. CASE FailPending
  <2>1. stack' \in Seq(Suspended) /\ pending' \in Seq(Objects)
    <3>1. pending \in Seq(Objects)
      BY DEF TypeInv
    <3> QED BY <1>0, <1>8, <1>a, <1>b, <1>c, <1>d, <3>1 DEF FailPending
  <2> QED BY <1>8, <2>1 DEF FailPending, TypeInv, connVars, fsVars, gotVars, linkVars, deviceVars
<1> QED BY <1>1, <1>2, <1>3, <1>4, <1>5, <1>6, <1>7, <1>8

LEMMA TypeEnds ==
  ASSUME TypeInv, Finished \/ Rejected
  PROVE  TypeInv'
<1>0. /\ stack \in Seq(Suspended) /\ Rest \in Seq(Suspended)
      /\ This \in Objects /\ Head(stack).ok \in BOOLEAN
  BY AtTypes DEF Finished, Rejected, TypeInv
<1>1. ASSUME NEW started \in BOOLEAN, FinishUser(started) PROVE TypeInv'
  <2>1. This.req \in Requests
    BY <1>0, <1>1, ObjectIs DEF FinishUser, IsUser, OwnSteps
  <2>2. stack' \in Seq(Suspended) /\ status' \in [Requests -> {"new", "waiting", "finished"}]
    BY <1>0, <1>1, <2>1, FinishOf DEF FinishUser
  <2> QED
    BY <1>1, <2>2 DEF FinishUser, TypeInv, managerVars, connVars, fsVars, gotVars, linkVars, deviceVars
<1>2. ASSUME NEW started \in BOOLEAN, FinishStep(started) PROVE TypeInv'
  <2> DEFINE rest == IF started /\ IsCommand(This) THEN Push(Call("ctrlDone", This), Rest) ELSE Rest
  <2>1. This.req \in Requests
    BY <1>2 DEF FinishStep
  <2>2. rest \in Seq(Suspended)
    <3>1. Call("ctrlDone", This) \in Suspended
      BY <1>0, FrameTypes DEF Ops
    <3> QED BY <1>0, <3>1, PushTypes
  <2>3. \/ Finish(This.req, TRUE, rest) /\ UNCHANGED fsCtrl
        \/ AddCtrl(Item(This.req, "close"), rest) /\ UNCHANGED status
        \/ AddCtrl(Item(This.req, "attr"), rest) /\ UNCHANGED status
        \/ stack' = Push(Call("start", Item(This.req, "data")), rest) /\ UNCHANGED <<fsCtrl, status>>
    BY <1>2 DEF FinishStep
  <2> HIDE DEF rest
  <2>4. /\ stack' \in Seq(Suspended) /\ fsCtrl' \in Seq(Commands)
        /\ status' \in [Requests -> {"new", "waiting", "finished"}]
    <3>0. /\ fsCtrl \in Seq(Commands)
          /\ status \in [Requests -> {"new", "waiting", "finished"}]
      BY DEF TypeInv
    <3>1. CASE Finish(This.req, TRUE, rest) /\ UNCHANGED fsCtrl
      BY <2>1, <2>2, <3>0, <3>1, FinishOf
    <3>2. CASE \E step \in {"attr", "close"} : AddCtrl(Item(This.req, step), rest) /\ UNCHANGED status
      BY <2>1, <2>2, <3>0, <3>2, AddTypes, StepTypes
    <3>3. CASE stack' = Push(Call("start", Item(This.req, "data")), rest) /\ UNCHANGED <<fsCtrl, status>>
      <4>1. Call("start", Item(This.req, "data")) \in Suspended
        BY <2>1, ItemTypes, FrameTypes DEF Ops
      <4> QED BY <2>2, <3>0, <3>3, <4>1, PushTypes
    <3> QED BY <2>3, <3>1, <3>2, <3>3
  <2> QED BY <1>2, <2>4 DEF FinishStep, TypeInv, connVars, gotVars, linkVars, deviceVars
<1>3. CASE FinishOwn
  <2>1. \A op \in Ops : Do(op) \in Suspended /\ Push(Do(op), Rest) \in Seq(Suspended)
    BY <1>0, FrameTypes, PushTypes
  <2>2. Push(Call("start", Own("slave")), Rest) \in Seq(Suspended)
    BY <1>0, ItemTypes, FrameTypes, PushTypes DEF Ops, OwnSteps
  <2>3. stack' \in {Push(Do("execAny"), Rest), Push(Do("failFS"), Rest),
                    Push(Call("start", Own("slave")), Rest), Rest}
    BY <1>3 DEF FinishOwn
  <2>4. stack' \in Seq(Suspended)
    BY <1>0, <2>1, <2>2, <2>3 DEF Ops
  <2>5. /\ login' \in {login, "LoggedIn", "NotLoggedIn"}
        /\ gotRW' \in BOOLEAN /\ gotFile' \in BOOLEAN
    BY <1>3 DEF FinishOwn
  <2> QED BY <1>3, <2>4, <2>5 DEF FinishOwn, TypeInv, connVars, linkVars, deviceVars
<1> QED BY <1>1, <1>2, <1>3 DEF Finished, Rejected

LEMMA TypeSlots ==
  ASSUME TypeInv,
         OnChannelDisconnected \/ OnChannelError \/ ErrorFinish \/ ErrorClose \/ Drain
           \/ SocketAbort \/ Closed \/ SlotReturns
  PROVE  TypeInv'
<1>0. stack \in Seq(Suspended) /\ Rest \in Seq(Suspended)
  BY AtTypes DEF OnChannelDisconnected, OnChannelError, ErrorFinish, ErrorClose, Drain, SocketAbort,
     Closed, SlotReturns, TypeInv
<1>1. \A op \in Ops : Push(Do(op), Rest) \in Seq(Suspended)
  BY <1>0, FrameTypes, PushTypes
<1>2. CASE OnChannelDisconnected \/ OnChannelError \/ Closed \/ SlotReturns
  <2>1. stack' \in Seq(Suspended)
    BY <1>0, <1>1, <1>2 DEF OnChannelDisconnected, OnChannelError, Closed, SlotReturns, Ops
  <2> QED
    BY ZenonT(30), <1>2, <2>1 DEF OnChannelDisconnected, OnChannelError, Closed, SlotReturns, TypeInv,
       managerVars, connVars, fsVars, gotVars, linkVars, deviceVars
<1>3. CASE ErrorFinish
  <2>1. stack' \in Seq(Suspended) /\ chan' \in Seq(Exchanges)
    BY <1>0, <1>3, FinishTypes DEF ErrorFinish
  <2> QED
    BY <1>3, <2>1 DEF ErrorFinish, TypeInv, managerVars, connVars, fsVars, gotVars, linkVars, deviceVars
<1>4. CASE ErrorClose
  <2>1. /\ stack' \in Seq(Suspended) /\ link' \in {"down", "connecting", "up", "closing"}
        /\ pendingClose' \in BOOLEAN
    BY <1>0, <1>4, DisconnectTypes DEF ErrorClose
  <2> QED BY <1>4, <2>1 DEF ErrorClose, TypeInv, managerVars, connVars, fsVars, gotVars, deviceVars
<1>5. CASE Drain
  <2>1. stack' \in Seq(Suspended) /\ chan' \in Seq(Exchanges)
    <3>1. CASE ChannelFinish(FALSE, stack)
      BY <1>0, <3>1, FinishTypes
    <3>2. CASE stack' = Push(Do("onDisconnected"), Rest) /\ UNCHANGED chan
      BY <1>1, <3>2 DEF TypeInv, Ops
    <3> QED BY <1>5, <3>1, <3>2 DEF Drain
  <2> QED
    BY <1>5, <2>1 DEF Drain, TypeInv, managerVars, connVars, fsVars, gotVars, linkVars, deviceVars
<1>6. CASE SocketAbort
  <2>1. /\ stack' \in Seq(Suspended) /\ link' \in {"down", "connecting", "up", "closing"}
        /\ pendingClose' \in BOOLEAN
    BY <1>0, <1>1, <1>6 DEF SocketAbort, TypeInv, Ops
  <2> QED BY <1>6, <2>1 DEF SocketAbort, TypeInv, managerVars, connVars, fsVars, gotVars, deviceVars
<1> QED BY <1>2, <1>3, <1>4, <1>5, <1>6

\* Every step keeps the types.
LEMMA TypeNext ==
  ASSUME TypeInv, [Next]_vars
  PROVE  TypeInv'
<1>1. CASE Resume
  BY <1>1, TypeStart, TypeQueues, TypeEnds, TypeSlots DEF Resume
<1>2. CASE UNCHANGED vars
  BY <1>2 DEF vars, managerVars, connVars, fsVars, gotVars, linkVars, deviceVars, TypeInv
<1> QED BY <1>1, <1>2, TypeApp, TypeLoop DEF Next

LEMMA TypeAlways == Spec => []TypeInv
BY TypeInit, TypeNext, PTL DEF Spec

\* Requests are queued, started and ended as the kinds of requests they are.
THEOREM TypeCorrect == Spec => []TypeOK
<1>1. ASSUME TypeInv PROVE TypeOK
  <2>1. /\ Objects \subseteq Items /\ Exchanges \subseteq Items
        /\ Commands \subseteq {i \in Items : IsCommand(i)}
        /\ Transfers \subseteq {i \in Items : IsTransfer(i)}
        /\ Suspended \subseteq Frames
    BY DEF Objects, Exchanges, Commands, Transfers, Suspended, Frames
  <2>2. /\ pending \in Seq(Items) /\ chan \in Seq(Items) /\ stack \in Seq(Frames)
        /\ fsCtrl \in Seq({i \in Items : IsCommand(i)})
        /\ fsData \in Seq({i \in Items : IsTransfer(i)})
    BY <1>1, <2>1, SeqMonotonic DEF TypeInv
  <2> QED BY <1>1, <2>2 DEF TypeInv, TypeOK
<1> QED BY <1>1, TypeAlways, PTL

-----------------------------------------------------------------------------
(* The call stack.                                                         *)

LEMMA HoldsPush ==
  ASSUME NEW f \in Suspended, NEW s \in Seq(Suspended)
  PROVE  \A ops : Holds(Push(f, s), ops) <=> f.op \in ops \/ Holds(s, ops)
<1> DEFINE longer == <<f>> \o s
<1>1. /\ Len(longer) = Len(s) + 1 /\ longer[1] = f /\ Len(s) \in Nat
      /\ \A n \in 1 .. Len(s) : longer[n + 1] = s[n]
  OBVIOUS
<1> HIDE DEF longer
<1> SUFFICES ASSUME NEW ops PROVE Holds(longer, ops) <=> f.op \in ops \/ Holds(s, ops)
  BY DEF Push, longer
<1>2. ASSUME NEW n \in 1 .. Len(longer), longer[n].op \in ops PROVE f.op \in ops \/ Holds(s, ops)
  <2>1. CASE n = 1
    BY <1>1, <1>2, <2>1
  <2>2. CASE n # 1
    <3>1. n - 1 \in 1 .. Len(s) /\ (n - 1) + 1 = n
      BY <1>1, <2>2
    <3>2. s[n - 1].op \in ops
      BY <1>1, <1>2, <3>1
    <3> QED BY <3>1, <3>2 DEF Holds
  <2> QED BY <2>1, <2>2
<1>3. f.op \in ops => Holds(longer, ops)
  BY <1>1 DEF Holds
<1>4. ASSUME NEW n \in 1 .. Len(s), s[n].op \in ops PROVE Holds(longer, ops)
  <2>1. n + 1 \in 1 .. Len(longer) /\ longer[n + 1].op \in ops
    BY <1>1, <1>4
  <2> QED BY <2>1 DEF Holds
<1> QED BY <1>2, <1>3, <1>4 DEF Holds

LEMMA HoldsNone == \A ops : ~Holds(<<>>, ops)
BY DEF Holds

LEMMA CalmPush ==
  ASSUME NEW f \in Suspended, NEW s, Calm(s)
  PROVE  /\ Push(f, s) \in Seq(Suspended) /\ Push(f, s) # <<>>
         /\ Head(Push(f, s)) = f /\ Tail(Push(f, s)) = s
         /\ f.op \notin AtOnce => Calm(Push(f, s))
BY PushTypes, HoldsPush DEF Calm

\* What is under the function that runs, and the whole stack when it is none of those.
LEMMA CalmIs ==
  ASSUME stack \in Seq(Suspended), Top
  PROVE  /\ \A op : At(op) => Calm(Rest)
         /\ \A op : At(op) /\ op \notin AtOnce => Calm(stack)
         /\ AppTurn => Calm(stack)
         /\ Calm(<<>>)
         /\ \A op \in AtOnce : Calm(stack) => ~At(op)
<1>1. Calm(<<>>)
  BY HoldsNone DEF Calm
<1>2. ASSUME NEW op, At(op) PROVE Calm(Rest) /\ (op \notin AtOnce => Calm(stack))
  <2>1. Head(stack).op = op /\ stack # <<>>
    BY <1>2 DEF At
  <2>2. Head(stack) \in Suspended /\ Rest \in Seq(Suspended) /\ stack = Push(Head(stack), Rest)
    BY <1>2, AtTypes
  <2>3. Calm(Rest)
    BY <2>1, <2>2 DEF Top, Calm, Rest
  <2>4. op \notin AtOnce => Calm(Push(Head(stack), Rest))
    BY <2>1, <2>2, <2>3, CalmPush
  <2> QED BY <2>2, <2>3, <2>4
<1>3. AppTurn => Calm(stack)
  BY <1>1, <1>2 DEF AppTurn, AtOnce
<1>4. ASSUME NEW op \in AtOnce, Calm(stack), At(op) PROVE FALSE
  <2>1. Head(stack) \in Suspended /\ Rest \in Seq(Suspended) /\ stack = Push(Head(stack), Rest)
         /\ Head(stack).op = op
    BY <1>4, AtTypes
  <2>2. Holds(Push(Head(stack), Rest), AtOnce)
    BY <2>1, HoldsPush
  <2> QED BY <1>4, <2>1, <2>2 DEF Calm
<1> QED BY <1>1, <1>2, <1>3, <1>4

LEMMA CalmAfter ==
  ASSUME NEW s, Calm(s)
  PROVE  /\ stack' = s => Common' /\ \A op \in AtOnce : ~At(op)'
         /\ \A f \in Suspended : stack' = Push(f, s) =>
              /\ Top' /\ (~Rare(f) => Common')
              /\ \A op : At(op)' <=> op = f.op
              /\ \A ops : Holds(stack', ops) <=> f.op \in ops \/ Holds(s, ops)
<1>1. ASSUME stack' = s PROVE Common' /\ \A op \in AtOnce : ~At(op)'
  <2>1. CASE s = <<>>
    BY <1>1, <2>1 DEF Common, Top, RareTurn, At
  <2>2. CASE s # <<>>
    <3>1. Head(s) \in Suspended /\ Tail(s) \in Seq(Suspended) /\ s = Push(Head(s), Tail(s))
      BY <2>2 DEF Push, Calm
    <3>2. \A ops : Holds(s, ops) <=> Head(s).op \in ops \/ Holds(Tail(s), ops)
      BY <3>1, HoldsPush
    <3>3. ~Rare(Head(s))
      BY <3>2 DEF Rare, Calm, AtOnce
    <3>4. Top' /\ \A op \in AtOnce : ~At(op)'
      BY <1>1, <2>2, <3>2 DEF Top, At, Calm
    <3>5. ~RareTurn'
      BY <1>1, <3>3 DEF RareTurn
    <3> QED BY <3>4, <3>5 DEF Common
  <2> QED BY <2>1, <2>2
<1>2. ASSUME NEW f \in Suspended, stack' = Push(f, s)
      PROVE  /\ Top' /\ (~Rare(f) => Common')
             /\ \A op : At(op)' <=> op = f.op
             /\ \A ops : Holds(stack', ops) <=> f.op \in ops \/ Holds(s, ops)
  <2>1. Push(f, s) # <<>> /\ Head(Push(f, s)) = f /\ Tail(Push(f, s)) = s
    BY CalmPush
  <2>2. s \in Seq(Suspended) /\ ~Holds(s, AtOnce)
    BY DEF Calm
  <2>3. /\ Top'
        /\ \A op : At(op)' <=> op = f.op
        /\ \A ops : Holds(stack', ops) <=> f.op \in ops \/ Holds(s, ops)
    BY <1>2, <2>1, <2>2, HoldsPush DEF Top, At
  <2>4. RareTurn' <=> Rare(f)
    BY <1>2, <2>1 DEF RareTurn
  <2> QED BY <2>3, <2>4 DEF Common
<1> QED BY <1>1, <1>2

\* What a call of the channel leaves on the stack.
LEMMA ConnectLeaves ==
  ASSUME NEW rest \in Seq(Suspended), ChannelConnect(rest)
  PROVE  stack' \in {rest, Push(Do("onConnected"), rest),
                     Push(Do("onError"), Push(Do("errorFinish"), Push(Do("errorClose"), rest)))}
BY ErrorTypes DEF ChannelConnect

LEMMA DisconnectLeaves ==
  ASSUME NEW rest \in Seq(Suspended), DoDisconnect(rest)
  PROVE  stack' \in {rest, Push(Do("drain"), rest), Push(Do("drain"), Push(Do("closed"), rest))}
<1>1. Do("drain") \in Suspended /\ Do("closed") \in Suspended
  BY FrameTypes DEF Ops
<1> QED BY <1>1, PushTwo DEF DoDisconnect

LEMMA FinishLeaves ==
  ASSUME TypeInv, NEW rest, NEW ok \in BOOLEAN, ChannelFinish(ok, rest)
  PROVE  \/ stack' = rest
         \/ \E f \in Suspended : f.op = "finished" /\ f.ok = ok /\ stack' = Push(f, rest)
<1>1. CASE chan = <<>>
  BY <1>1 DEF ChannelFinish
<1>2. CASE chan # <<>>
  <2>1. End(Head(chan), ok) \in Suspended /\ End(Head(chan), ok).op = "finished" /\ End(Head(chan), ok).ok = ok
    BY <1>2, Parts, FrameTypes DEF TypeInv, End
  <2> QED BY <1>2, <2>1 DEF ChannelFinish
<1> QED BY <1>1, <1>2

\* Frames by what they do.
LEMMA DoTypes == \A op \in Ops : Do(op) \in Suspended /\ Do(op).op = op
BY FrameTypes

LEMMA ErrorCalm ==
  ASSUME NEW rest, Calm(rest)
  PROVE  /\ Calm(Push(Do("errorFinish"), Push(Do("errorClose"), rest)))
         /\ Calm(Push(Do("errorClose"), rest))
         /\ Calm(Push(Do("closed"), rest)) /\ Calm(Push(Do("drain"), Push(Do("closed"), rest)))
         /\ Calm(Push(Do("drain"), rest)) /\ Calm(Push(Do("startPending"), rest))
         /\ Calm(Push(Do("slot"), rest)) /\ Calm(Push(Do("startData"), rest))
<1>1. \A op \in Ops \ AtOnce : Do(op) \in Suspended /\ Do(op).op \notin AtOnce
  BY DoTypes
<1>2. \A op \in Ops \ AtOnce : \A s : Calm(s) => Calm(Push(Do(op), s))
  BY <1>1, CalmPush
<1>3. {"errorFinish", "errorClose", "closed", "drain", "startPending", "slot", "startData"}
         \subseteq Ops \ AtOnce
  BY DEF Ops, AtOnce
<1> QED BY <1>2, <1>3

\* A call of the channel made while no function of AtOnce runs.
LEMMA TopCalls ==
  ASSUME NEW rest, Calm(rest)
  PROVE  /\ ChannelError(rest) => Common' /\ (\A op : At(op)' <=> op = "onError")
         /\ ChannelConnect(rest) => Common'
         /\ DoDisconnect(rest) => Common' /\ \A op \in AtOnce : ~At(op)'
<1>0. rest \in Seq(Suspended)
  BY DEF Calm
<1>1. /\ Do("onError") \in Suspended /\ Do("onConnected") \in Suspended
      /\ Do("drain") \in Suspended
      /\ Do("onError").op = "onError" /\ Do("drain").op = "drain" /\ "drain" \notin AtOnce
      /\ ~Rare(Do("onError")) /\ ~Rare(Do("onConnected")) /\ ~Rare(Do("drain"))
  BY DoTypes DEF Ops, AtOnce, Rare
<1>2. Calm(Push(Do("errorFinish"), Push(Do("errorClose"), rest))) /\ Calm(Push(Do("closed"), rest))
  BY ErrorCalm
<1>3. ChannelError(rest) => Common' /\ (\A op : At(op)' <=> op = "onError")
  BY <1>0, <1>1, <1>2, ErrorTypes, CalmAfter
<1>4. ChannelConnect(rest) => Common'
  BY <1>0, <1>1, <1>2, ConnectLeaves, CalmAfter
<1>5. DoDisconnect(rest) => Common' /\ \A op \in AtOnce : ~At(op)'
  <2>1. ASSUME stack' = rest PROVE Common' /\ \A op \in AtOnce : ~At(op)'
    BY <2>1, CalmAfter
  <2>2. ASSUME stack' = Push(Do("drain"), rest) PROVE Common' /\ \A op \in AtOnce : ~At(op)'
    BY <1>1, <2>2, CalmAfter
  <2>3. ASSUME stack' = Push(Do("drain"), Push(Do("closed"), rest))
        PROVE  Common' /\ \A op \in AtOnce : ~At(op)'
    BY <1>1, <1>2, <2>3, CalmAfter
  <2> QED BY <1>0, <2>1, <2>2, <2>3, DisconnectLeaves
<1> QED BY <1>3, <1>4, <1>5

LEMMA TopFinish ==
  ASSUME TypeInv, NEW rest, Calm(rest), NEW ok \in BOOLEAN, ChannelFinish(ok, rest)
  PROVE  Top' /\ (~ok => Common')
<1>1. \A f : f.ok = FALSE /\ f.op = "finished" => ~Rare(f)
  BY DEF Rare
<1> QED BY <1>1, FinishLeaves, CalmAfter DEF Common

\* The functions that a loop turn leaves.
LEMMA DoAlone ==
  /\ \A op \in Ops : <<Do(op)>> = Push(Do(op), <<>>)
  /\ \A op, op2 \in Ops : <<Do(op), Do(op2)>> = Push(Do(op), <<Do(op2)>>)
<1>1. \A op \in Ops : Do(op) \in Suspended /\ <<>> \in Seq(Suspended)
  BY FrameTypes
<1>2. ASSUME NEW op \in Ops, NEW op2 \in Ops
      PROVE  <<Do(op), Do(op2)>> = Push(Do(op), <<Do(op2)>>)
  <2>1. <<Do(op), Do(op2)>> \o <<>> = Push(Do(op), Push(Do(op2), <<>>))
    BY <1>1, PushTwo
  <2>2. <<Do(op), Do(op2)>> \in Seq(Suspended)
    BY <1>1
  <2> QED BY <1>1, <2>1, <2>2, PushNone, ConcatEmptySeq
<1> QED BY <1>1, <1>2, PushNone

\* Functions that do all their work at once are never left suspended.
LEMMA TopNext ==
  ASSUME TypeInv, Top, [Next]_vars
  PROVE  Top' /\ (RareTurn' => Answer \/ (At("finished") /\ FinishOwn) \/ Drain \/ UNCHANGED vars)
<1>0. /\ stack \in Seq(Suspended) /\ Calm(<<>>)
      /\ AppTurn => Calm(stack) 
      /\ Idling => Calm(stack) /\ stack = <<>>
      /\ \A op : At(op) => Calm(Rest) /\ This \in Objects
      /\ \A op : At(op) /\ op \notin AtOnce => Calm(stack)
      /\ fsCtrl # <<>> => Head(fsCtrl) \in Objects
      /\ fsData # <<>> => Head(fsData) \in Objects
      /\ pending # <<>> => Head(pending) \in Objects
  BY CalmIs, AtTypes, Parts DEF TypeInv, Idling, Commands, Transfers
<1>1. /\ \A op \in Ops : Do(op) \in Suspended /\ Do(op).op = op
      /\ \A op \in Ops, i \in Objects : Call(op, i) \in Suspended /\ Call(op, i).op = op
      /\ \A i \in Objects, ok \in BOOLEAN : End(i, ok) \in Suspended /\ End(i, ok).op = "finished"
  BY FrameTypes, ObjectIs
<1>e. /\ \A op \in Ops : op \notin {"execAny", "onDisconnected"} => ~Rare(Do(op))
      /\ \A op \in Ops, i \in Objects : op \notin {"execAny", "onDisconnected"} => ~Rare(Call(op, i))
      /\ \A i \in Objects, ok \in BOOLEAN : ~ok \/ IsUser(i) => ~Rare(End(i, ok))
  <2>1. \A i \in Objects : IsUser(i) => i.req # Manager
    BY ObjectIs, ManagerAssumption DEF ManagerAssumption, Manager, IsUser, OwnSteps
  <2>2. \A i \in Objects, ok \in BOOLEAN : End(i, ok).ok = ok /\ End(i, ok).item = i /\ End(i, ok).op = "finished"
    BY FrameTypes, ObjectIs DEF End
  <2>3. \A i \in Objects, ok \in BOOLEAN : ~ok \/ IsUser(i) => ~Rare(End(i, ok))
    BY <2>1, <2>2 DEF Rare
  <2>4. \A i, op : op \notin {"execAny", "onDisconnected"} => ~Rare(Call(op, i))
    BY DEF Rare, Call
  <2> QED BY <2>3, <2>4 DEF Do
<1>p. /\ \A op \in Ops : <<Do(op)>> = Push(Do(op), <<>>)
      /\ \A op, op2 \in Ops : <<Do(op), Do(op2)>> = Push(Do(op), Push(Do(op2), <<>>))
  BY DoAlone
<1>2. /\ \A f \in Suspended : \A s : Calm(s) /\ stack' = Push(f, s) => Top' /\ (~Rare(f) => Common')
      /\ \A s : Calm(s) /\ stack' = s => Common'
  BY CalmAfter
<1>3. \A f \in Suspended : \A s : Calm(s) /\ f.op \notin AtOnce => Calm(Push(f, s))
  BY CalmPush
<1>4. /\ \A step \in OwnSteps : Own(step) \in Objects
      /\ \A r \in Requests, step \in {"run", "open", "attr", "data", "close"} : Item(r, step) \in Objects
  BY ItemTypes
<1>5. ASSUME App PROVE Common'
  <2>1. ASSUME NEW r \in Requests, AppExec(r) PROVE Common'
    BY <1>0, <1>1, <1>e, <1>2, <1>4, <2>1 DEF AppExec, AddCtrl, AddData, Ops
  <2>2. CASE AppConnect
    BY <1>0, <1>2, <2>2, TopCalls DEF AppConnect, ConnectToDevice
  <2>3. CASE AppDisconnect
    BY <1>0, <2>3, TopCalls DEF AppDisconnect
  <2>4. CASE SetChannel
    <3>1. stack' = Push(Do("slot"), <<>>)
      BY <1>p, <2>4 DEF SetChannel, Ops
    <3> QED BY <1>0, <1>1, <1>e, <1>2, <3>1 DEF Ops
  <2> QED BY <1>5, <2>1, <2>2, <2>3, <2>4 DEF App
<1>6. ASSUME Start PROVE Common'
  <2>1. CASE ConnectToDevice(Rest)
    BY <1>0, <1>2, <1>6, <2>1, TopCalls DEF Start, ConnectToDevice
  <2>a. Calm(Rest) /\ This \in Objects
    BY <1>0, <1>6 DEF Start
  <2>2. CASE \/ stack' = Rest
             \/ stack' = Push(Do("execCtrl"), Rest)
             \/ IsUser(This) /\ stack' = Push(End(This, Kind[This.req] = "empty"), Rest)
    <3>1. /\ Do("execCtrl") \in Suspended /\ End(This, Kind[This.req] = "empty") \in Suspended
          /\ ~Rare(Do("execCtrl")) /\ (IsUser(This) => ~Rare(End(This, Kind[This.req] = "empty")))
      BY <1>1, <1>e, <2>a DEF Ops
    <3> QED BY <1>2, <2>a, <2>2, <3>1
  <2> QED BY <1>6, <2>1, <2>2 DEF Start, AddCtrl
<1>7. ASSUME ExecNextFSRequest PROVE Common'
  <2>1. PICK type \in {{"ctrl"}, {"data"}, {"ctrl", "data"}} : ExecFS(type)
    BY <1>7 DEF ExecNextFSRequest
  <2>2. Calm(Rest) /\ Rest \in Seq(Suspended)
    BY <1>0, <1>7 DEF ExecNextFSRequest, Calm
  <2>3. {"start", "startData"} \subseteq Ops \ AtOnce /\ {"quit", "login"} \subseteq OwnSteps
    BY DEF Ops, AtOnce, OwnSteps
  <2>4. Calm(Push(Do("startData"), Rest))
    BY <2>2, ErrorCalm
  <2>5. /\ Call("start", Own("quit")) \in Suspended /\ Call("start", Own("login")) \in Suspended
        /\ fsCtrl # <<>> => Call("start", Head(fsCtrl)) \in Suspended
        /\ Do("startData") \in Suspended
    BY <1>0, <1>1, <1>4, <2>3
  <2>6. /\ ~Rare(Call("start", Own("quit"))) /\ ~Rare(Call("start", Own("login")))
        /\ fsCtrl # <<>> => ~Rare(Call("start", Head(fsCtrl)))
        /\ ~Rare(Do("startData"))
    BY <1>0, <1>4, <1>e, <2>3
  <2> QED BY <1>2, <2>1, <2>2, <2>4, <2>5, <2>6, ExecLeaves
<1>8. ASSUME StartData \/ CtrlDone \/ DataDone PROVE Common'
  BY <1>0, <1>1, <1>e, <1>2, <1>8 DEF StartData, CtrlDone, DataDone, Ops
<1>9. ASSUME Finished \/ Rejected PROVE Common' \/ (Top' /\ At("finished") /\ FinishOwn)
  <2>1. Calm(Rest) /\ This \in Objects
    BY <1>0, <1>9 DEF Finished, Rejected
  <2>2. /\ \A i \in Objects : Call("ctrlDone", i) \in Suspended /\ Calm(Push(Call("ctrlDone", i), Rest))
        /\ \A i \in Objects : Calm(Push(Call("dataDone", i), Rest))
    <3>1. {"ctrlDone", "dataDone"} \subseteq Ops \ AtOnce
      BY DEF Ops, AtOnce
    <3> QED BY <1>1, <1>3, <2>1, <3>1
  <2>3. ASSUME NEW r \in Requests, NEW started \in BOOLEAN, NEW rest, Calm(rest),
               Finish(r, started, rest)
        PROVE  Common'
    <3>1. /\ Item(r, "run") \in Objects /\ Do("slot") \in Suspended /\ ~Rare(Do("slot"))
          /\ Call("ctrlDone", Item(r, "run")) \in Suspended
          /\ Call("dataDone", Item(r, "run")) \in Suspended
          /\ Call("ctrlDone", Item(r, "run")).op = "ctrlDone"
          /\ Call("dataDone", Item(r, "run")).op = "dataDone"
      BY <1>1, <1>4, <1>e DEF Ops
    <3>2. /\ Calm(Push(Call("ctrlDone", Item(r, "run")), rest))
          /\ Calm(Push(Call("dataDone", Item(r, "run")), rest))
      BY <1>3, <2>3, <3>1 DEF AtOnce
    <3> QED BY <1>2, <2>3, <3>1, <3>2 DEF Finish
  <2>4. ASSUME NEW started \in BOOLEAN, FinishUser(started) PROVE Common'
    <3>1. This.req \in Requests
      BY <2>1, <2>4, ObjectIs DEF FinishUser, IsUser, OwnSteps
    <3> QED BY <2>1, <2>3, <2>4, <3>1 DEF FinishUser
  <2>5. ASSUME NEW started \in BOOLEAN, FinishStep(started) PROVE Common'
    <3> DEFINE rest == IF started /\ IsCommand(This) THEN Push(Call("ctrlDone", This), Rest) ELSE Rest
    <3>1. This.req \in Requests /\ Calm(rest)
      BY <2>1, <2>2, <2>5 DEF FinishStep
    <3>2. \/ Finish(This.req, TRUE, rest)
          \/ AddCtrl(Item(This.req, "close"), rest)
          \/ AddCtrl(Item(This.req, "attr"), rest)
          \/ stack' = Push(Call("start", Item(This.req, "data")), rest)
      BY <2>5 DEF FinishStep
    <3> HIDE DEF rest
    <3>3. ASSUME NEW i, AddCtrl(i, rest) PROVE Common'
      BY <1>1, <1>e, <1>2, <3>1, <3>3 DEF AddCtrl, Ops
    <3>4. Call("start", Item(This.req, "data")) \in Suspended /\ ~Rare(Call("start", Item(This.req, "data")))
      BY <1>1, <1>4, <1>e, <3>1 DEF Ops
    <3> QED BY <1>2, <2>3, <3>1, <3>2, <3>3, <3>4
  <2>6. ASSUME FinishOwn PROVE Top'
    <3>1. /\ Call("start", Own("slave")) \in Suspended
          /\ Do("execAny") \in Suspended /\ Do("failFS") \in Suspended
      BY <1>1, <1>4 DEF Ops, OwnSteps
    <3>2. stack' \in {Push(Do("execAny"), Rest), Push(Do("failFS"), Rest),
                      Push(Call("start", Own("slave")), Rest), Rest}
      BY <2>6 DEF FinishOwn
    <3> QED BY <1>2, <2>1, <3>1, <3>2 DEF Common
  <2> QED BY <1>9, <2>4, <2>5, <2>6 DEF Finished, Rejected
<1>10. ASSUME FailFS \/ StartPending \/ FailPending PROVE Common'
  <2>1. Calm(stack) /\ Calm(Rest)
    BY <1>0, <1>10 DEF FailFS, StartPending, FailPending, AtOnce
  <2>2. {"rejected", "start", "slot"} \subseteq Ops
    BY DEF Ops
  <2>3. CASE FailFS
    BY <1>0, <1>1, <1>e, <1>2, <2>1, <2>2, <2>3 DEF FailFS
  <2>4. CASE StartPending
    BY <1>0, <1>1, <1>e, <1>2, <2>1, <2>2, <2>4 DEF StartPending
  <2>5. CASE FailPending
    BY <1>0, <1>1, <1>e, <1>2, <2>1, <2>2, <2>5 DEF FailPending
  <2> QED BY <1>10, <2>3, <2>4, <2>5
<1>11. ASSUME OnChannelConnected PROVE Common'
  <2>1. Calm(Rest) /\ Rest \in Seq(Suspended) /\ Calm(Push(Do("startPending"), Rest))
    BY <1>0, <1>11, ErrorCalm DEF OnChannelConnected, Calm
  <2>2. \A step \in {"master", "dimension"} :
           /\ Call("start", Own(step)) \in Suspended /\ Call("start", Own(step)).op \notin AtOnce
           /\ ~Rare(Call("start", Own(step)))
    BY <1>1, <1>4, <1>e DEF Ops, OwnSteps, AtOnce
  <2>3. Calm(Push(Call("start", Own("dimension")), Push(Do("startPending"), Rest)))
    BY <1>3, <2>1, <2>2
  <2>4. Do("startPending") \in Suspended /\ ~Rare(Do("startPending"))
    BY <1>1, <1>e DEF Ops
  <2> QED BY <1>2, <1>11, <2>1, <2>2, <2>3, <2>4, ConnectedLeaves
<1>12. ASSUME OnChannelDisconnected \/ OnChannelError \/ Closed \/ SlotReturns PROVE Common'
  BY <1>0, <1>1, <1>e, <1>2, <1>12 DEF OnChannelDisconnected, OnChannelError, Closed, SlotReturns, Ops
<1>13. ASSUME ErrorFinish \/ ErrorClose \/ Drain \/ SocketAbort PROVE Common' \/ (Top' /\ Drain)
  <2>1. Calm(Rest)
    BY <1>0, <1>13 DEF ErrorFinish, ErrorClose, Drain, SocketAbort
  <2>2. CASE ErrorFinish
    BY <2>1, <2>2, TopFinish DEF ErrorFinish
  <2>3. CASE ErrorClose
    BY <2>1, <2>3, TopCalls DEF ErrorClose
  <2>4. CASE Drain
    BY ZenonT(30), <1>0, <1>1, <1>e, <1>2, <2>1, <2>4, TopFinish DEF Drain, AtOnce, Ops
  <2>5. CASE SocketAbort
    BY <1>1, <1>e, <1>2, <2>1, <2>5 DEF SocketAbort, Ops
  <2> QED BY <1>13, <2>2, <2>3, <2>4, <2>5
<1>14. ASSUME Loop PROVE Common' \/ (Top' /\ Answer)
  <2>0. CASE Answer
    BY <1>0, <2>0, TopFinish DEF Answer
  <2>1. CASE NotConnected
    BY <1>0, <2>1, TopFinish DEF NotConnected
  <2>2. CASE Timeout \/ ConnectFails
    BY <1>0, <2>2, TopCalls DEF Timeout, ConnectFails
  <2>3. CASE LinkBreaks
    <3>1. Calm(Push(Do("socketAbort"), <<>>))
      BY <1>0, <1>1, <1>3 DEF Ops, AtOnce
    <3>2. Push(Do("socketAbort"), <<>>) = <<Do("socketAbort")>>
      BY <1>p DEF Ops
    <3> QED BY <1>0, <2>3, <3>1, <3>2, TopCalls DEF LinkBreaks
  <2>4. CASE Noise \/ Connected \/ CloseEnds
    <3>1. {"onError", "errorFinish", "onConnected", "hangUp", "drain"} \subseteq Ops
      BY DEF Ops
    <3>2. \/ stack' = Push(Do("onError"), Push(Do("errorFinish"), <<>>))
          \/ stack' = Push(Do("onConnected"), Push(Do("hangUp"), <<>>))
          \/ stack' = Push(Do("onConnected"), <<>>)
          \/ stack' = Push(Do("drain"), <<>>)
      BY <1>p, <2>4, <3>1 DEF Noise, Connected, CloseEnds
    <3>3. Calm(Push(Do("errorFinish"), <<>>)) /\ Calm(Push(Do("hangUp"), <<>>))
      BY <1>0, <1>1, <1>3 DEF Ops, AtOnce
    <3> QED BY <1>0, <1>1, <1>e, <1>2, <3>1, <3>2, <3>3
  <2> QED BY <1>14, <2>0, <2>1, <2>2, <2>3, <2>4 DEF Loop
<1>15. ASSUME UNCHANGED vars PROVE Top'
  BY <1>15 DEF vars, Top
<1> QED
  BY <1>5, <1>6, <1>7, <1>8, <1>9, <1>10, <1>11, <1>12, <1>13, <1>14, <1>15 DEF Next, Resume, Common

\* The functions that are suspended, split into the one that runs and the rest.
LEMMA HoldsAt ==
  ASSUME stack \in Seq(Suspended), NEW op, At(op)
  PROVE  \A ops : Holds(stack, ops) <=> op \in ops \/ Holds(Rest, ops)
<1>1. /\ Head(stack) \in Suspended /\ Rest \in Seq(Suspended) /\ Head(stack).op = op
      /\ stack = Push(Head(stack), Rest)
  BY AtTypes
<1> QED BY <1>1, HoldsPush

-----------------------------------------------------------------------------
(* Counting in a sequence.                                                 *)

\* Counting in any sequence gives a number.
LEMMA SpotsFinite ==
  ASSUME NEW T, NEW q \in Seq(T), NEW S
  PROVE  IsFiniteSet(Spots(q, S)) /\ Count(q, S) \in Nat
<1>1. IsFiniteSet(1 .. Len(q)) /\ Spots(q, S) \in SUBSET (1 .. Len(q))
  BY FS_Interval DEF Spots
<1> QED BY <1>1, FS_Subset, FS_CardinalityType DEF Count

LEMMA CountNone == \A S : Count(<<>>, S) = 0
BY FS_EmptySet DEF Count, Spots

\* What is counted is there.
LEMMA CountSome ==
  ASSUME NEW T, NEW q \in Seq(T), NEW S
  PROVE  Count(q, S) > 0 <=> \E n \in 1 .. Len(q) : q[n] \in S
<1>1. Count(q, S) = 0 <=> Spots(q, S) = {}
  BY SpotsFinite, FS_EmptySet DEF Count
<1>2. Count(q, S) \in Nat
  BY SpotsFinite
<1> QED BY <1>1, <1>2 DEF Spots

LEMMA CountBoth ==
  ASSUME NEW T, NEW q \in Seq(T), NEW S, NEW R, S \cap R = {}
  PROVE  Count(q, S \union R) = Count(q, S) + Count(q, R)
<1>1. /\ IsFiniteSet(Spots(q, S)) /\ IsFiniteSet(Spots(q, R))
      /\ Spots(q, S \union R) = Spots(q, S) \union Spots(q, R)
      /\ Spots(q, S) \cap Spots(q, R) = {}
  BY SpotsFinite DEF Spots
<1>2. Cardinality({}) = 0 /\ Count(q, S) \in Nat /\ Count(q, R) \in Nat
  BY FS_EmptySet, SpotsFinite
<1>3. Cardinality(Spots(q, S) \union Spots(q, R))
        = Cardinality(Spots(q, S)) + Cardinality(Spots(q, R)) - Cardinality({})
  BY <1>1, FS_Union
<1>4. Count(q, S \union R) = Count(q, S) + Count(q, R) - Cardinality({})
  BY <1>1, <1>3 DEF Count
<1> QED BY <1>2, <1>4

LEMMA CountAppend ==
  ASSUME NEW T, NEW q \in Seq(T), NEW x \in T, NEW S
  PROVE  Count(Append(q, x), S) = Count(q, S) + (IF x \in S THEN 1 ELSE 0)
<1>1. /\ Len(Append(q, x)) = Len(q) + 1 /\ Append(q, x)[Len(q) + 1] = x
      /\ \A n \in 1 .. Len(q) : Append(q, x)[n] = q[n]
      /\ Len(q) \in Nat
  OBVIOUS
<1>2. IsFiniteSet(Spots(q, S)) /\ Len(q) + 1 \notin Spots(q, S) /\ Count(q, S) \in Nat
  BY <1>1, SpotsFinite DEF Spots
<1>3. CASE x \in S
  <2>1. Spots(Append(q, x), S) = Spots(q, S) \union {Len(q) + 1}
    BY <1>1, <1>3 DEF Spots
  <2> QED BY <1>2, <1>3, <2>1, FS_AddElement DEF Count
<1>4. CASE x \notin S
  <2>1. Spots(Append(q, x), S) = Spots(q, S)
    BY <1>1, <1>4 DEF Spots
  <2> QED BY <1>2, <1>4, <2>1 DEF Count
<1> QED BY <1>3, <1>4

LEMMA CountPush ==
  ASSUME NEW T, NEW q \in Seq(T), NEW x \in T, NEW S
  PROVE  Count(<<x>> \o q, S) = Count(q, S) + (IF x \in S THEN 1 ELSE 0)
<1> DEFINE longer == <<x>> \o q
           moved == {n \in 2 .. Len(q) + 1 : longer[n] \in S}
           shift == [n \in Spots(q, S) |-> n + 1]
<1>1. /\ Len(longer) = Len(q) + 1 /\ longer[1] = x /\ Len(q) \in Nat
      /\ \A n \in 1 .. Len(q) : longer[n + 1] = q[n]
  OBVIOUS
<1> HIDE DEF longer
<1>2. IsFiniteSet(Spots(q, S)) /\ Count(q, S) \in Nat
  BY SpotsFinite
<1>3. IsFiniteSet(moved) /\ Cardinality(moved) = Count(q, S)
  <2>1. shift \in Bijection(Spots(q, S), moved)
    <3>1. shift \in [Spots(q, S) -> moved]
      BY <1>1 DEF Spots
    <3>2. \A m, n \in Spots(q, S) : shift[m] = shift[n] => m = n
      BY <1>1 DEF Spots
    <3>3. \A k \in moved : \E n \in Spots(q, S) : shift[n] = k
      <4> TAKE k \in moved
      <4>1. k - 1 \in 1 .. Len(q) /\ (k - 1) + 1 = k
        BY <1>1
      <4>2. k - 1 \in Spots(q, S)
        BY <1>1, <4>1 DEF Spots
      <4> QED BY <4>1, <4>2
    <3> HIDE DEF shift
    <3> QED BY <3>1, <3>2, <3>3 DEF Bijection, Injection, Surjection, IsInjective
  <2> QED BY <1>2, <2>1, FS_Bijection DEF ExistsBijection, Count
<1>4. CASE x \in S
  <2>1. Spots(longer, S) = moved \union {1} /\ 1 \notin moved
    BY <1>1, <1>4 DEF Spots
  <2> QED BY <1>2, <1>3, <1>4, <2>1, FS_AddElement DEF Count, longer
<1>5. CASE x \notin S
  <2>1. Spots(longer, S) = moved
    BY <1>1, <1>5 DEF Spots
  <2>2. Count(longer, S) = Count(q, S)
    BY <1>3, <2>1 DEF Count
  <2> QED BY <1>2, <1>5, <2>2 DEF longer
<1> QED BY <1>4, <1>5

LEMMA CountTail ==
  ASSUME NEW T, NEW q \in Seq(T), NEW S, q # <<>>
  PROVE  Count(q, S) = Count(Tail(q), S) + (IF Head(q) \in S THEN 1 ELSE 0)
<1>1. Tail(q) \in Seq(T) /\ Head(q) \in T /\ q = <<Head(q)>> \o Tail(q)
  OBVIOUS
<1>2. Count(<<Head(q)>> \o Tail(q), S) = Count(Tail(q), S) + (IF Head(q) \in S THEN 1 ELSE 0)
  BY <1>1, CountPush
<1> QED BY <1>1, <1>2

-----------------------------------------------------------------------------
(* The ledger.                                                             *)

LEMMA OfPush ==
  ASSUME NEW s \in Seq(Suspended), NEW f \in Suspended
  PROVE  /\ \A ops, S : Of(s, ops, S) \in Nat
         /\ \A ops, S : f.op \in ops => Of(Push(f, s), ops, S) = Of(s, ops, S) + Is(f.item, S)
         /\ \A ops, S : f.op \notin ops => Of(Push(f, s), ops, S) = Of(s, ops, S)
<1>1. ASSUME NEW ops, NEW S
      PROVE  /\ Of(s, ops, S) \in Nat
             /\ Of(Push(f, s), ops, S) = Of(s, ops, S) + (IF f \in Holding(ops, S) THEN 1 ELSE 0)
  BY SpotsFinite, CountPush DEF Of, Push
<1>2. \A ops, S : f \in Holding(ops, S) <=> f.op \in ops /\ f.item \in S
  BY DEF Holding
<1>3. ASSUME NEW ops, NEW S, f.op \in ops
      PROVE  Of(Push(f, s), ops, S) = Of(s, ops, S) + Is(f.item, S)
  BY <1>1, <1>2, <1>3 DEF Is
<1>4. ASSUME NEW ops, NEW S, f.op \notin ops
      PROVE  Of(Push(f, s), ops, S) = Of(s, ops, S)
  BY <1>1, <1>2, <1>4
<1> QED BY <1>1, <1>3, <1>4

LEMMA OfNone == \A ops, S : Of(<<>>, ops, S) = 0
BY CountNone DEF Of

LEMMA LedgerTypes ==
  ASSUME TypeInv
  PROVE  /\ \A S : Count(pending, S) \in Nat /\ Count(chan, S) \in Nat
                   /\ Count(fsCtrl, S) \in Nat /\ Count(fsData, S) \in Nat
         /\ \A ops, S : Of(stack, ops, S) \in Nat
         /\ \A S : Fly(S) \in Nat /\ Cd(S) \in Nat /\ Dd(S) \in Nat /\ Rj(S) \in Nat
<1>1. /\ pending \in Seq(Objects) /\ chan \in Seq(Exchanges) /\ fsCtrl \in Seq(Commands)
      /\ fsData \in Seq(Transfers) /\ stack \in Seq(Suspended)
  BY DEF TypeInv
<1>2. /\ \A S : Count(pending, S) \in Nat
      /\ \A S : Count(chan, S) \in Nat
      /\ \A S : Count(fsCtrl, S) \in Nat
      /\ \A S : Count(fsData, S) \in Nat
      /\ \A S : Count(stack, S) \in Nat
  BY <1>1, SpotsFinite
<1> QED BY <1>2 DEF Of, Fly, Cd, Dd, Rj

\* What is in a smaller set is counted in the larger one, and two sets apart add up.
LEMMA OfBoth ==
  ASSUME NEW s \in Seq(Suspended), NEW ops, NEW S, NEW R, S \cap R = {}
  PROVE  Of(s, ops, S \union R) = Of(s, ops, S) + Of(s, ops, R)
<1>1. /\ Holding(ops, S \union R) = Holding(ops, S) \union Holding(ops, R)
      /\ Holding(ops, S) \cap Holding(ops, R) = {}
  BY DEF Holding
<1>2. Count(s, Holding(ops, S) \union Holding(ops, R)) = Count(s, Holding(ops, S)) + Count(s, Holding(ops, R))
  BY <1>1, CountBoth
<1> QED BY <1>1, <1>2 DEF Of

LEMMA FlyBoth ==
  ASSUME TypeInv, NEW S, NEW R, S \cap R = {}
  PROVE  /\ Fly(S \union R) = Fly(S) + Fly(R)
         /\ Cd(S \union R) = Cd(S) + Cd(R)
         /\ Dd(S \union R) = Dd(S) + Dd(R)
         /\ Rj(S \union R) = Rj(S) + Rj(R)
         /\ Count(fsCtrl, S \union R) = Count(fsCtrl, S) + Count(fsCtrl, R)
         /\ Count(fsData, S \union R) = Count(fsData, S) + Count(fsData, R)
<1>1. /\ pending \in Seq(Objects) /\ chan \in Seq(Exchanges) /\ fsCtrl \in Seq(Commands)
      /\ fsData \in Seq(Transfers) /\ stack \in Seq(Suspended)
  BY DEF TypeInv
<1>2. /\ Carrying(S \union R) = Carrying(S) \union Carrying(R)
      /\ Carrying(S) \cap Carrying(R) = {}
  BY DEF Carrying
<1>3. /\ Count(pending, S \union R) = Count(pending, S) + Count(pending, R)
      /\ Count(fsCtrl, S \union R) = Count(fsCtrl, S) + Count(fsCtrl, R)
      /\ Count(fsData, S \union R) = Count(fsData, S) + Count(fsData, R)
      /\ Count(chan, Carrying(S) \union Carrying(R)) = Count(chan, Carrying(S)) + Count(chan, Carrying(R))
  BY <1>1, <1>2, CountBoth
<1>4. /\ Of(stack, InFlight, S \union R) = Of(stack, InFlight, S) + Of(stack, InFlight, R)
      /\ Of(stack, {"ctrlDone"}, S \union R) = Of(stack, {"ctrlDone"}, S) + Of(stack, {"ctrlDone"}, R)
      /\ Of(stack, {"dataDone"}, S \union R) = Of(stack, {"dataDone"}, S) + Of(stack, {"dataDone"}, R)
      /\ Of(stack, {"rejected"}, S \union R) = Of(stack, {"rejected"}, S) + Of(stack, {"rejected"}, R)
  BY <1>1, OfBoth
<1>5. /\ Fly(S) = Count(pending, S) + Count(chan, Carrying(S)) + Of(stack, InFlight, S)
      /\ Fly(R) = Count(pending, R) + Count(chan, Carrying(R)) + Of(stack, InFlight, R)
      /\ Fly(S \union R) = (Count(pending, S) + Count(pending, R))
                             + (Count(chan, Carrying(S)) + Count(chan, Carrying(R)))
                             + (Of(stack, InFlight, S) + Of(stack, InFlight, R))
  BY <1>2, <1>3, <1>4 DEF Fly
<1>6. Fly(S \union R) = Fly(S) + Fly(R)
  BY <1>5, LedgerTypes
<1> QED BY <1>3, <1>4, <1>6 DEF Cd, Dd, Rj

LEMMA FlyMore ==
  ASSUME TypeInv, NEW S, NEW R, S \subseteq R
  PROVE  Fly(S) <= Fly(R) /\ Cd(S) <= Cd(R) /\ Dd(S) <= Dd(R) /\ Rj(S) <= Rj(R)
         /\ Count(fsCtrl, S) <= Count(fsCtrl, R) /\ Count(fsData, S) <= Count(fsData, R)
<1>1. S \union (R \ S) = R /\ S \cap (R \ S) = {}
  OBVIOUS
<1>2. /\ Fly(R) = Fly(S) + Fly(R \ S) /\ Cd(R) = Cd(S) + Cd(R \ S)
      /\ Dd(R) = Dd(S) + Dd(R \ S) /\ Rj(R) = Rj(S) + Rj(R \ S)
      /\ Count(fsCtrl, R) = Count(fsCtrl, S) + Count(fsCtrl, R \ S)
      /\ Count(fsData, R) = Count(fsData, S) + Count(fsData, R \ S)
  BY <1>1, FlyBoth
<1> QED BY <1>2, LedgerTypes

-----------------------------------------------------------------------------
(* Quiet steps: what happens to the channel moves requests from one place   *)
(* of the ledger to another, and only the buffer sizes that the manager     *)
(* asks for come and go.                                                    *)

LEMMA MutePush ==
  ASSUME NEW s \in Seq(Suspended), NEW f \in Suspended, f.op \in Mute
  PROVE  /\ Mutes(s, s) /\ Mutes(Push(f, s), s) /\ Mutes(s, Push(f, s))
         /\ \A t : Mutes(s, t) => Mutes(Push(f, s), t)
<1>1. \A ops : ops \cap Mute = {} => f.op \notin ops
  OBVIOUS
<1>2. \A ops : ops \cap Mute = {} => (Holds(Push(f, s), ops) <=> Holds(s, ops))
  BY <1>1, HoldsPush
<1>3. \A ops, S : ops \cap Mute = {} => Of(Push(f, s), ops, S) = Of(s, ops, S)
  BY <1>1, OfPush
<1>4. Push(f, s) \in Seq(Suspended)
  BY PushTypes
<1> QED BY <1>2, <1>3, <1>4 DEF Mutes

LEMMA MuteRest ==
  ASSUME TypeInv, NEW op \in Mute, At(op)
  PROVE  Mutes(stack, Rest) /\ Rest \in Seq(Suspended)
<1>1. /\ Head(stack) \in Suspended /\ Rest \in Seq(Suspended)
      /\ Head(stack).op = op /\ stack = Push(Head(stack), Rest)
  BY AtTypes DEF TypeInv
<1>2. Mutes(Push(Head(stack), Rest), Rest)
  BY <1>1, MutePush
<1> QED BY <1>1, <1>2

LEMMA InFlightIs == InFlight \cap Mute = {} /\ \A ops \in SUBSET Control : ops \cap Mute = {}
BY DEF Mute

LEMMA QuietMute ==
  ASSUME TypeInv, NEW s, Mutes(stack, s), Mutes(stack', s),
         UNCHANGED <<pending, chan, fsCtrl, fsData, login, status>>
  PROVE  Quiet
<1>1. /\ \A ops \in SUBSET Control : Holds(stack', ops) <=> Holds(stack, ops)
      /\ \A ops \in SUBSET Control : \A S : Of(stack', ops, S) = Of(stack, ops, S)
      /\ \A S : Of(stack', InFlight, S) = Of(stack, InFlight, S)
  BY InFlightIs DEF Mutes
<1> QED BY <1>1 DEF Quiet, Fly

\* A function in flight over what only mute functions tell from the stack.
LEMMA QuietFlight ==
  ASSUME TypeInv, NEW s \in Seq(Suspended), Mutes(stack, s), NEW f \in Suspended, f.op \in InFlight,
         stack' = Push(f, s)
  PROVE  /\ \A ops \in SUBSET Control : Holds(stack', ops) <=> Holds(stack, ops)
         /\ \A ops \in SUBSET Control : \A S : Of(stack', ops, S) = Of(stack, ops, S)
         /\ \A S : Of(stack', InFlight, S) = Of(stack, InFlight, S) + Is(f.item, S)
<1>1. \A ops \in SUBSET Control : ops \cap Mute = {} /\ f.op \notin ops
  BY DEF Mute, InFlight, Control
<1>2. /\ \A ops \in SUBSET Control : Holds(stack, ops) <=> Holds(s, ops)
      /\ \A ops \in SUBSET Control : \A S : Of(stack, ops, S) = Of(s, ops, S)
      /\ \A S : Of(stack, InFlight, S) = Of(s, InFlight, S)
  BY <1>1, InFlightIs DEF Mutes
<1> QED BY <1>1, <1>2, OfPush, HoldsPush

\* Serving the oldest exchange of the channel.
LEMMA CarryTail ==
  ASSUME TypeInv, chan # <<>>
  PROVE  /\ \A S : Count(chan, Carrying(S)) = Count(Tail(chan), Carrying(S)) + Is(Base(Head(chan)), S)
         /\ \A S : Count(Tail(chan), Carrying(S)) \in Nat
         /\ \A i \in Exchanges : \A S : Count(Append(Tail(chan), i), Carrying(S))
                                      = Count(Tail(chan), Carrying(S)) + Is(Base(i), S)
<1>1. chan \in Seq(Exchanges) /\ Head(chan) \in Exchanges /\ Tail(chan) \in Seq(Exchanges)
  BY Parts DEF TypeInv
<1>2. \A i \in Exchanges : \A S : i \in Carrying(S) <=> Base(i) \in S
  BY DEF Carrying
<1>3. ASSUME NEW S
      PROVE  /\ Count(chan, Carrying(S)) = Count(Tail(chan), Carrying(S)) + Is(Base(Head(chan)), S)
             /\ Count(Tail(chan), Carrying(S)) \in Nat
  BY <1>1, <1>2, CountTail, SpotsFinite DEF Is
<1>4. ASSUME NEW i \in Exchanges, NEW S
      PROVE  Count(Append(Tail(chan), i), Carrying(S)) = Count(Tail(chan), Carrying(S)) + Is(Base(i), S)
  <2>1. Count(Append(Tail(chan), i), Carrying(S))
          = Count(Tail(chan), Carrying(S)) + (IF i \in Carrying(S) THEN 1 ELSE 0)
    BY <1>1, CountAppend
  <2> QED BY <1>2, <2>1 DEF Is
<1> QED BY <1>3, <1>4

LEMMA QuietFinish ==
  ASSUME TypeInv, NEW rest \in Seq(Suspended), NEW ok \in BOOLEAN, ChannelFinish(ok, rest),
         Mutes(stack, rest), UNCHANGED <<pending, fsCtrl, fsData, login, status>>
  PROVE  Quiet
<1>0. Mutes(rest, rest)
  BY DEF Mutes
<1>1. CASE chan = <<>>
  BY <1>0, <1>1, QuietMute DEF ChannelFinish
<1>2. CASE chan # <<>>
  <2>0. Head(chan) \in Exchanges /\ Tail(chan) \in Seq(Exchanges)
    BY <1>2, Parts DEF TypeInv
  <2>1. CASE ok /\ ReadsResponse(Head(chan))
    <3> DEFINE h == [Head(chan) EXCEPT !.part = "response"]
    <3>1. chan' = Append(Tail(chan), h) /\ stack' = rest
      BY <1>2, <2>1 DEF ChannelFinish
    <3>2. h \in Exchanges /\ Base(h) = Base(Head(chan))
      BY <2>0, <2>1, ExchangeIs
    <3> HIDE DEF h
    <3>3. \A S : Count(chan', Carrying(S)) = Count(chan, Carrying(S))
      BY <1>2, <3>1, <3>2, CarryTail
    <3>4. /\ \A ops \in SUBSET Control : Holds(stack', ops) <=> Holds(stack, ops)
          /\ \A ops \in SUBSET Control : \A S : Of(stack', ops, S) = Of(stack, ops, S)
          /\ \A S : Of(stack', InFlight, S) = Of(stack, InFlight, S)
      BY <3>1, InFlightIs DEF Mutes
    <3> QED BY <3>3, <3>4 DEF Quiet, Fly
  <2>2. CASE ~(ok /\ ReadsResponse(Head(chan)))
    <3> DEFINE f == End(Head(chan), ok)
    <3>1. chan' = Tail(chan) /\ stack' = Push(f, rest)
      BY <1>2, <2>2 DEF ChannelFinish
    <3>2. f \in Suspended /\ f.op \in InFlight /\ f.item = Base(Head(chan))
      BY <2>0, FrameTypes DEF InFlight
    <3> HIDE DEF f
    <3>3. \A S : Count(chan, Carrying(S)) = Count(chan', Carrying(S)) + Is(f.item, S)
      BY <1>2, <3>1, <3>2, CarryTail
    <3>4. /\ \A ops \in SUBSET Control : Holds(stack', ops) <=> Holds(stack, ops)
          /\ \A ops \in SUBSET Control : \A S : Of(stack', ops, S) = Of(stack, ops, S)
          /\ \A S : Of(stack', InFlight, S) = Of(stack, InFlight, S) + Is(f.item, S)
      BY <3>1, <3>2, QuietFlight
    <3>5. \A S : /\ Count(chan', Carrying(S)) \in Nat /\ Of(stack, InFlight, S) \in Nat
                 /\ Count(pending, S) \in Nat /\ Is(f.item, S) \in Nat
      BY <1>2, <3>1, CarryTail, LedgerTypes DEF Is
    <3>6. \A S : Fly(S)' = Fly(S)
      <4> TAKE S
      <4>1. Fly(S)' = Count(pending, S) + Count(chan', Carrying(S)) + Of(stack', InFlight, S)
        BY DEF Fly
      <4>2. Fly(S) = Count(pending, S) + Count(chan, Carrying(S)) + Of(stack, InFlight, S)
        BY DEF Fly
      <4> QED BY <3>3, <3>4, <3>5, <4>1, <4>2
    <3> QED BY <3>4, <3>6 DEF Quiet
  <2> QED BY <2>1, <2>2
<1> QED BY <1>1, <1>2

LEMMA MuteDo ==
  \A op \in Mute, u \in Seq(Suspended) :
     /\ Do(op) \in Suspended /\ Push(Do(op), u) \in Seq(Suspended)
     /\ Mutes(Push(Do(op), u), u)
     /\ \A t : Mutes(u, t) => Mutes(Push(Do(op), u), t)
<1>1. \A op \in Mute : Do(op) \in Suspended /\ Do(op).op = op
  BY DoTypes DEF Mute
<1> QED BY <1>1, MutePush, PushTypes

\* Functions of the channel, called over s.
LEMMA MuteCalls ==
  ASSUME NEW s \in Seq(Suspended)
  PROVE  /\ ChannelError(s) => Mutes(stack', s)
         /\ ChannelConnect(s) => Mutes(stack', s)
         /\ DoDisconnect(s) => Mutes(stack', s)
         /\ \A op \in {"slot", "failPending", "drain", "onDisconnected"} : Mutes(Push(Do(op), s), s)
         /\ Mutes(s, s)
<1>3. {"slot", "failPending", "drain", "onDisconnected", "closed", "onError", "errorFinish", "errorClose",
       "onConnected"} \subseteq Mute
  BY DEF Mute, Ops, Control, InFlight
<1>4. Mutes(s, s)
  BY DEF Mutes
<1>5. /\ Push(Do("errorClose"), s) \in Seq(Suspended) /\ Mutes(Push(Do("errorClose"), s), s)
      /\ Push(Do("closed"), s) \in Seq(Suspended) /\ Mutes(Push(Do("closed"), s), s)
      /\ Mutes(Push(Do("drain"), s), s) /\ Mutes(Push(Do("onConnected"), s), s)
  BY MuteDo, <1>3
<1>6. /\ Push(Do("errorFinish"), Push(Do("errorClose"), s)) \in Seq(Suspended)
      /\ Mutes(Push(Do("errorFinish"), Push(Do("errorClose"), s)), s)
      /\ Mutes(Push(Do("drain"), Push(Do("closed"), s)), s)
  BY MuteDo, <1>3, <1>5
<1>7. Mutes(Push(Do("onError"), Push(Do("errorFinish"), Push(Do("errorClose"), s))), s)
  BY MuteDo, <1>3, <1>6
<1>8. ChannelError(s) => Mutes(stack', s)
  BY <1>7, ErrorTypes
<1>9. ChannelConnect(s) => Mutes(stack', s)
  BY <1>4, <1>5, <1>7, ConnectLeaves
<1>10. DoDisconnect(s) => Mutes(stack', s)
  BY <1>4, <1>5, <1>6, DisconnectLeaves
<1> QED BY MuteDo, <1>3, <1>4, <1>8, <1>9, <1>10

LEMMA MuteTrans ==
  ASSUME NEW t, NEW u, NEW s, Mutes(t, u), Mutes(u, s)
  PROVE  Mutes(t, s)
BY DEF Mutes

\* start of anything but a file transfer.
LEMMA QuietStart ==
  ASSUME TypeInv, Start, UNCHANGED fsCtrl
  PROVE  Quiet
<1>0. /\ stack \in Seq(Suspended) /\ Rest \in Seq(Suspended) /\ This \in Objects
      /\ Head(stack) \in Suspended
      /\ Head(stack).op = "start" /\ stack = Push(Head(stack), Rest) /\ Head(stack).item = This
  BY AtTypes DEF Start, TypeInv, This
<1>1. Mutes(Rest, Rest)
  BY <1>0, MuteCalls
<1>2. /\ \A ops \in SUBSET Control : Holds(stack, ops) <=> Holds(Rest, ops)
      /\ \A ops \in SUBSET Control : \A S : Of(stack, ops, S) = Of(Rest, ops, S)
      /\ \A S : Of(stack, InFlight, S) = Of(Rest, InFlight, S) + Is(This, S)
      /\ \A S : Of(Rest, InFlight, S) \in Nat
  <2>1. "start" \in InFlight /\ \A ops \in SUBSET Control : "start" \notin ops
    BY DEF InFlight, Control
  <2> QED BY <1>0, <2>1, OfPush, HoldsPush
<1>3. UNCHANGED <<fsCtrl, fsData, login, status>>
  BY DEF Start
<1>4. \A S : Is(This, S) \in Nat /\ Count(pending, S) \in Nat /\ Count(chan, S) \in Nat
  BY LedgerTypes DEF Is
<1>a. ASSUME NEW S PROVE Fly(S) = Count(pending, S) + Count(chan, Carrying(S)) + Of(Rest, InFlight, S) + Is(This, S)
  BY <1>2, <1>4 DEF Fly
<1>5. CASE ~isConnected
  <2>1. pending' = Append(pending, This) /\ chan' = chan /\ ConnectToDevice(Rest)
    BY <1>5 DEF Start
  <2>2. Mutes(stack', Rest)
    BY <1>0, <1>1, <2>1, MuteCalls DEF ConnectToDevice
  <2>3. /\ \A ops \in SUBSET Control : Holds(stack', ops) <=> Holds(Rest, ops)
        /\ \A ops \in SUBSET Control : \A S : Of(stack', ops, S) = Of(Rest, ops, S)
        /\ \A S : Of(stack', InFlight, S) = Of(Rest, InFlight, S)
    BY <2>2, InFlightIs DEF Mutes
  <2>4. \A S : Count(pending', S) = Count(pending, S) + Is(This, S)
    <3>1. pending \in Seq(Objects)
      BY DEF TypeInv
    <3> QED BY <1>0, <2>1, <3>1, CountAppend DEF Is
  <2>5. \A S : Fly(S)' = Fly(S)
    <3> TAKE S
    <3>1. Fly(S)' = Count(pending, S) + Is(This, S) + Count(chan, Carrying(S)) + Of(Rest, InFlight, S)
      BY <2>1, <2>3, <2>4 DEF Fly
    <3> QED BY <1>2, <1>4, <1>a, <3>1
  <2> QED BY <1>2, <1>3, <2>3, <2>5 DEF Quiet
<1>6. CASE isConnected /\ chan' = Append(chan, This) /\ stack' = Rest
  <2>1. pending' = pending
    BY <1>6 DEF Start
  <2>2. \A S : Count(chan', Carrying(S)) = Count(chan, Carrying(S)) + Is(This, S)
    <3>1. chan \in Seq(Exchanges) /\ This \in Exchanges /\ Base(This) = This
      BY <1>0, ObjectIs DEF TypeInv
    <3>2. \A S : This \in Carrying(S) <=> This \in S
      BY <3>1 DEF Carrying
    <3> TAKE S
    <3>3. Count(Append(chan, This), Carrying(S)) = Count(chan, Carrying(S)) + (IF This \in Carrying(S) THEN 1 ELSE 0)
      BY <3>1, CountAppend
    <3> QED BY <1>6, <3>2, <3>3 DEF Is
  <2>3. \A S : Fly(S)' = Fly(S)
    <3> TAKE S
    <3>1. Fly(S)' = Count(pending, S) + (Count(chan, Carrying(S)) + Is(This, S)) + Of(Rest, InFlight, S)
      BY <1>6, <2>1, <2>2 DEF Fly
    <3> QED BY <1>2, <1>4, <1>a, <3>1
  <2> QED BY <1>2, <1>3, <1>6, <2>3 DEF Quiet
<1>7. CASE isConnected /\ stack' = Push(End(This, Kind[This.req] = "empty"), Rest) /\ UNCHANGED chan
  <2> DEFINE f == End(This, Kind[This.req] = "empty")
  <2>1. pending' = pending
    BY <1>7 DEF Start
  <2>2. f \in Suspended /\ f.op = "finished" /\ f.item = This
    BY <1>0, ObjectIs, FrameTypes
  <2>3. stack' = Push(f, Rest)
    BY <1>7
  <2> HIDE DEF f
  <2>4. "finished" \in InFlight /\ \A ops \in SUBSET Control : "finished" \notin ops
    BY DEF InFlight, Control
  <2>5. /\ \A ops \in SUBSET Control : Holds(stack', ops) <=> Holds(Rest, ops)
        /\ \A ops \in SUBSET Control : \A S : Of(stack', ops, S) = Of(Rest, ops, S)
        /\ \A S : Of(stack', InFlight, S) = Of(Rest, InFlight, S) + Is(This, S)
    BY <1>0, <2>2, <2>3, <2>4, OfPush, HoldsPush
  <2>6. \A S : Fly(S)' = Fly(S)
    BY <1>2, <1>7, <2>1, <2>5 DEF Fly
  <2> QED BY <1>2, <1>3, <2>5, <2>6 DEF Quiet
<1>8. ASSUME isConnected, IsTransfer(This), AddCtrl(Item(This.req, "open"), Rest) PROVE FALSE
  <2>1. fsCtrl' = Append(fsCtrl, Item(This.req, "open")) /\ fsCtrl \in Seq(Commands)
    BY <1>8 DEF AddCtrl, TypeInv
  <2>2. Len(fsCtrl') = Len(fsCtrl) + 1 /\ Len(fsCtrl) \in Nat
    BY <2>1
  <2> QED BY <2>2
<1> QED BY <1>5, <1>6, <1>7, <1>8 DEF Start

LEMMA QuietPending ==
  ASSUME TypeInv, StartPending \/ FailPending
  PROVE  Quiet
<1>0. /\ stack \in Seq(Suspended) /\ Rest \in Seq(Suspended) /\ Mutes(stack, stack)
      /\ Mutes(stack, Rest) /\ Mutes(Rest, Rest)
  <2>1. "startPending" \in Mute /\ "failPending" \in Mute
    BY DEF Mute, Ops, Control, InFlight
  <2>2. stack \in Seq(Suspended)
    BY DEF TypeInv
  <2> QED BY <2>1, <2>2, MuteRest, MuteCalls DEF StartPending, FailPending
<1>1. UNCHANGED <<chan, fsCtrl, fsData, login, status>>
  BY DEF StartPending, FailPending, fsVars
<1>2. CASE pending = <<>>
  BY <1>0, <1>1, <1>2, MuteCalls, QuietMute DEF StartPending, FailPending
<1>3. CASE pending # <<>>
  <2>1. Head(pending) \in Objects /\ pending \in Seq(Objects)
    BY <1>3, Parts DEF TypeInv
  <2>2. PICK f \in Suspended : f.op \in InFlight /\ f.item = Head(pending) /\ stack' = Push(f, stack)
    <3>1. /\ Call("start", Head(pending)) \in Suspended /\ Call("start", Head(pending)).op \in InFlight
          /\ Call("start", Head(pending)).item = Head(pending)
          /\ End(Head(pending), FALSE) \in Suspended /\ End(Head(pending), FALSE).op \in InFlight
          /\ End(Head(pending), FALSE).item = Head(pending)
      <4>1. Head(pending) \in Exchanges /\ Base(Head(pending)) = Head(pending)
        BY <2>1, ObjectIs
      <4>2. "start" \in Ops /\ "start" \in InFlight /\ "finished" \in InFlight
        BY DEF Ops, InFlight
      <4> QED BY <2>1, <4>1, <4>2, FrameTypes
    <3> QED BY <1>3, <3>1 DEF StartPending, FailPending
  <2>3. pending' = Tail(pending)
    BY <1>3 DEF StartPending, FailPending
  <2>4. /\ \A ops \in SUBSET Control : Holds(stack', ops) <=> Holds(stack, ops)
        /\ \A ops \in SUBSET Control : \A S : Of(stack', ops, S) = Of(stack, ops, S)
        /\ \A S : Of(stack', InFlight, S) = Of(stack, InFlight, S) + Is(f.item, S)
    BY <1>0, <2>2, QuietFlight
  <2>5. \A S : /\ Count(pending, S) = Count(pending', S) + Is(f.item, S)
               /\ Count(pending', S) \in Nat
    <3> TAKE S
    <3>1. Count(pending, S) = Count(Tail(pending), S) + (IF Head(pending) \in S THEN 1 ELSE 0)
      BY <1>3, <2>1, CountTail
    <3>2. Count(Tail(pending), S) \in Nat
      BY <1>3, <2>1, Parts, SpotsFinite
    <3> QED BY <2>2, <2>3, <3>1, <3>2 DEF Is
  <2>6. \A S : /\ Of(stack, InFlight, S) \in Nat /\ Is(f.item, S) \in Nat
               /\ Count(chan, Carrying(S)) \in Nat
    BY LedgerTypes DEF Is
  <2>7. \A S : Fly(S)' = Fly(S)
    <3> TAKE S
    <3>1. Fly(S)' = Count(pending', S) + Count(chan, Carrying(S)) + Of(stack', InFlight, S)
      BY <1>1 DEF Fly
    <3>2. Fly(S) = Count(pending, S) + Count(chan, Carrying(S)) + Of(stack, InFlight, S)
      BY DEF Fly
    <3> QED BY <2>4, <2>5, <2>6, <3>1, <3>2
  <2> QED BY <1>1, <2>4, <2>7 DEF Quiet
<1> QED BY <1>2, <1>3

\* The manager's own requests for the buffer sizes are not in the ledger.
LEMMA QuietBuffers ==
  ASSUME TypeInv, OnChannelConnected \/ (Finished /\ This \in Buffers)
  PROVE  Quiet
<1>0. \A i \in Buffers, S \in SUBSET Known : Is(i, S) = 0
  BY DEF Is, Known
<1>1. \A i \in Buffers : Call("start", i) \in Suspended /\ Call("start", i).item = i
                         /\ Call("start", i).op = "start"
  BY ItemTypes, FrameTypes DEF Buffers, OwnSteps, Ops
<1>2. "start" \in InFlight /\ "finished" \in InFlight
      /\ \A ops \in SUBSET Control : "start" \notin ops /\ "finished" \notin ops
  BY DEF InFlight, Control
<1>3. ASSUME NEW u \in Seq(Suspended), NEW f \in Suspended, f.item \in Buffers, f.op \in InFlight
      PROVE  /\ \A ops \in SUBSET Control : Holds(Push(f, u), ops) <=> Holds(u, ops)
             /\ \A ops \in SUBSET Control : \A S : Of(Push(f, u), ops, S) = Of(u, ops, S)
             /\ \A S \in SUBSET Known : Of(Push(f, u), InFlight, S) = Of(u, InFlight, S)
             /\ Push(f, u) \in Seq(Suspended)
  <2>1. \A ops \in SUBSET Control : f.op \notin ops
    BY <1>2, <1>3 DEF InFlight
  <2>2. \A S \in SUBSET Known : Of(u, InFlight, S) \in Nat
    BY OfPush, <1>3
  <2>3. \A ops \in SUBSET Control : Holds(Push(f, u), ops) <=> Holds(u, ops)
    BY <1>3, <2>1, HoldsPush
  <2>4. \A ops \in SUBSET Control : \A S : Of(Push(f, u), ops, S) = Of(u, ops, S)
    BY <1>3, <2>1, OfPush
  <2>5. \A S \in SUBSET Known : Of(Push(f, u), InFlight, S) = Of(u, InFlight, S)
    <3> TAKE S \in SUBSET Known
    <3>1. Of(Push(f, u), InFlight, S) = Of(u, InFlight, S) + Is(f.item, S)
      BY <1>3, OfPush
    <3> QED BY <1>0, <1>3, <2>2, <3>1
  <2> QED BY <1>3, <2>3, <2>4, <2>5, PushTypes
<1>4. CASE OnChannelConnected
  <2> DEFINE top == Push(Do("startPending"), Rest)
             f == Call("start", Own("master"))
             g == Call("start", Own("dimension"))
  <2>1. Mutes(stack, Rest) /\ Rest \in Seq(Suspended) /\ Mutes(top, Rest) /\ top \in Seq(Suspended)
    <3>1. "onConnected" \in Mute /\ "startPending" \in Mute /\ "startPending" \in Ops
      BY DEF Mute, Ops, Control, InFlight
    <3>2. Mutes(stack, Rest) /\ Rest \in Seq(Suspended)
      BY <1>4, <3>1, MuteRest DEF OnChannelConnected
    <3>3. Do("startPending") \in Suspended /\ Do("startPending").op \in Mute
      BY <3>1, DoTypes
    <3> QED BY <3>2, <3>3, MutePush, PushTypes
  <2>2. stack' \in {top, Push(f, top), Push(g, top), Push(f, Push(g, top))}
    BY <1>4, <2>1, ConnectedLeaves
  <2>3. /\ f \in Suspended /\ f.item \in Buffers /\ f.op \in InFlight
        /\ g \in Suspended /\ g.item \in Buffers /\ g.op \in InFlight
    BY <1>1, <1>2 DEF Buffers
  <2> HIDE DEF top, f, g
  <2>4. Push(g, top) \in Seq(Suspended)
    BY <2>1, <2>3, PushTypes
  <2>5. /\ \A ops \in SUBSET Control : Holds(stack', ops) <=> Holds(top, ops)
        /\ \A ops \in SUBSET Control : \A S : Of(stack', ops, S) = Of(top, ops, S)
        /\ \A S \in SUBSET Known : Of(stack', InFlight, S) = Of(top, InFlight, S)
    <3>1. CASE stack' = top
      BY <3>1
    <3>2. CASE stack' = Push(f, top)
      <4>1. /\ \A ops \in SUBSET Control : Holds(Push(f, top), ops) <=> Holds(top, ops)
            /\ \A ops \in SUBSET Control : \A S : Of(Push(f, top), ops, S) = Of(top, ops, S)
            /\ \A S \in SUBSET Known : Of(Push(f, top), InFlight, S) = Of(top, InFlight, S)
        BY <1>3, <2>1, <2>3
      <4> QED BY <3>2, <4>1
    <3>3. CASE stack' = Push(g, top)
      <4>1. /\ \A ops \in SUBSET Control : Holds(Push(g, top), ops) <=> Holds(top, ops)
            /\ \A ops \in SUBSET Control : \A S : Of(Push(g, top), ops, S) = Of(top, ops, S)
            /\ \A S \in SUBSET Known : Of(Push(g, top), InFlight, S) = Of(top, InFlight, S)
        BY <1>3, <2>1, <2>3
      <4> QED BY <3>3, <4>1
    <3>4. CASE stack' = Push(f, Push(g, top))
      <4>1. /\ \A ops \in SUBSET Control : Holds(Push(g, top), ops) <=> Holds(top, ops)
            /\ \A ops \in SUBSET Control : \A S : Of(Push(g, top), ops, S) = Of(top, ops, S)
            /\ \A S \in SUBSET Known : Of(Push(g, top), InFlight, S) = Of(top, InFlight, S)
        BY <1>3, <2>1, <2>3
      <4> DEFINE u == Push(g, top)
      <4>2. /\ \A ops \in SUBSET Control : Holds(Push(f, u), ops) <=> Holds(u, ops)
            /\ \A ops \in SUBSET Control : \A S : Of(Push(f, u), ops, S) = Of(u, ops, S)
            /\ \A S \in SUBSET Known : Of(Push(f, u), InFlight, S) = Of(u, InFlight, S)
        <5> HIDE DEF u
        <5>1. u \in Seq(Suspended)
          BY <2>4 DEF u
        <5> QED BY <1>3, <2>3, <5>1
      <4> QED BY <3>4, <4>1, <4>2
    <3> QED BY <2>2, <3>1, <3>2, <3>3, <3>4
  <2>6. /\ \A ops \in SUBSET Control : Holds(stack, ops) <=> Holds(top, ops)
        /\ \A ops \in SUBSET Control : \A S : Of(stack, ops, S) = Of(top, ops, S)
        /\ \A S : Of(stack, InFlight, S) = Of(top, InFlight, S)
    BY <2>1, InFlightIs DEF Mutes
  <2> QED BY <1>4, <2>5, <2>6 DEF OnChannelConnected, fsVars, Quiet, Fly
<1>5. CASE Finished /\ This \in Buffers
  <2>1. This.req = Manager /\ This.step \in {"master", "slave", "dimension"}
    BY <1>5, ItemTypes DEF Buffers, OwnSteps
  <2>2. FinishOwn
    BY <1>5, <2>1, ManagerAssumption DEF Finished, FinishUser, FinishStep, IsUser, ManagerAssumption, Manager
  <2>3. /\ Head(stack) \in Suspended /\ Rest \in Seq(Suspended) /\ Head(stack).op = "finished"
        /\ Head(stack).item \in Buffers /\ stack = Push(Head(stack), Rest)
    BY <1>5, AtTypes DEF Finished, TypeInv, This
  <2>4. stack' \in {Push(Call("start", Own("slave")), Rest), Rest}
    BY <2>1, <2>2 DEF FinishOwn
  <2>5. /\ \A ops \in SUBSET Control : Holds(stack, ops) <=> Holds(Rest, ops)
        /\ \A ops \in SUBSET Control : \A S : Of(stack, ops, S) = Of(Rest, ops, S)
        /\ \A S \in SUBSET Known : Of(stack, InFlight, S) = Of(Rest, InFlight, S)
    BY <1>2, <1>3, <2>3
  <2>6. /\ \A ops \in SUBSET Control : Holds(stack', ops) <=> Holds(Rest, ops)
        /\ \A ops \in SUBSET Control : \A S : Of(stack', ops, S) = Of(Rest, ops, S)
        /\ \A S \in SUBSET Known : Of(stack', InFlight, S) = Of(Rest, InFlight, S)
    <3>1. Call("start", Own("slave")) \in Suspended /\ Call("start", Own("slave")).item \in Buffers
          /\ Call("start", Own("slave")).op \in InFlight
      BY <1>1, <1>2 DEF Buffers
    <3> QED BY <1>3, <2>3, <2>4, <3>1
  <2>7. UNCHANGED <<pending, chan, fsCtrl, fsData, login, status>>
    BY <2>1, <2>2 DEF FinishOwn
  <2> QED BY <2>5, <2>6, <2>7 DEF Quiet, Fly
<1> QED BY <1>4, <1>5

LEMMA QuietSteps ==
  ASSUME TypeInv,
         \/ AppConnect \/ AppDisconnect
         \/ OnChannelDisconnected \/ OnChannelError \/ ErrorFinish \/ ErrorClose \/ Drain \/ SocketAbort
         \/ Closed \/ SlotReturns
         \/ Loop \/ UNCHANGED vars
  PROVE  Quiet
<1>0. stack \in Seq(Suspended) /\ Mutes(stack, stack) /\ <<>> \in Seq(Suspended) /\ Mutes(<<>>, <<>>)
  BY PushAlone, MuteCalls DEF TypeInv
<1>1. {"onDisconnected", "onError", "errorFinish", "errorClose", "hangUp", "drain", "socketAbort", "closed",
       "slot", "onConnected"} \subseteq Mute
  BY DEF Mute, Ops, Control, InFlight
<1>2. \A op \in Mute : At(op) => Mutes(stack, Rest) /\ Rest \in Seq(Suspended) /\ Mutes(Rest, Rest)
  BY MuteRest, MuteCalls
<1>3. CASE AppConnect \/ AppDisconnect
  <2>1. Mutes(stack', stack)
    BY <1>0, <1>3, MuteCalls DEF AppConnect, AppDisconnect, ConnectToDevice
  <2>2. UNCHANGED <<pending, chan, fsCtrl, fsData, login, status>>
    BY <1>3 DEF AppConnect, AppDisconnect, managerVars, fsVars
  <2> QED BY <1>0, <2>1, <2>2, QuietMute
<1>4. CASE OnChannelDisconnected \/ OnChannelError \/ ErrorClose \/ SocketAbort \/ Closed \/ SlotReturns
  <2>1. Mutes(stack, Rest) /\ Rest \in Seq(Suspended) /\ Mutes(Rest, Rest)
    BY <1>1, <1>2, <1>4 DEF OnChannelDisconnected, OnChannelError, ErrorClose, SocketAbort, Closed, SlotReturns
  <2>2. Mutes(stack', Rest)
    BY <1>4, <2>1, MuteCalls DEF OnChannelDisconnected, OnChannelError, ErrorClose, SocketAbort, Closed, SlotReturns
  <2>3. UNCHANGED <<pending, chan, fsCtrl, fsData, login, status>>
    BY <1>4 DEF OnChannelDisconnected, OnChannelError, ErrorClose, SocketAbort, Closed, SlotReturns,
       managerVars, fsVars
  <2> QED BY <2>1, <2>2, <2>3, QuietMute
<1>5. CASE ErrorFinish \/ Drain
  <2>1. Mutes(stack, Rest) /\ Rest \in Seq(Suspended) /\ Mutes(Rest, Rest)
    BY <1>1, <1>2, <1>5 DEF ErrorFinish, Drain
  <2>2. UNCHANGED <<pending, fsCtrl, fsData, login, status>>
    BY <1>5 DEF ErrorFinish, Drain, managerVars, fsVars
  <2>3. CASE ErrorFinish
    BY <2>1, <2>2, <2>3, QuietFinish DEF ErrorFinish
  <2>4. CASE Drain /\ ChannelFinish(FALSE, stack)
    BY <1>0, <2>2, <2>4, QuietFinish
  <2>5. CASE Drain /\ chan' = chan /\ stack' = Push(Do("onDisconnected"), Rest)
    BY <2>1, <2>2, <2>5, MuteCalls, QuietMute
  <2> QED BY <1>5, <2>3, <2>4, <2>5 DEF Drain
<1>6. CASE Loop
  <2>1. stack = <<>>
    BY <1>6 DEF Loop, Answer, NotConnected, Timeout, LinkBreaks, Noise, Connected, ConnectFails, CloseEnds, Idling
  <2>2. UNCHANGED <<pending, fsCtrl, fsData, login, status>>
    BY <1>6 DEF Loop, Answer, NotConnected, Timeout, LinkBreaks, Noise, Connected, ConnectFails, CloseEnds,
       managerVars, fsVars
  <2>3. CASE Answer \/ NotConnected
    BY <1>0, <2>1, <2>2, <2>3, QuietFinish DEF Answer, NotConnected
  <2>a. ASSUME NEW op \in Mute PROVE Mutes(<<Do(op)>>, <<>>) /\ <<Do(op)>> \in Seq(Suspended)
    <3>1. <<Do(op)>> = Push(Do(op), <<>>)
      BY DoAlone DEF Mute
    <3>2. Mutes(Push(Do(op), <<>>), <<>>) /\ Push(Do(op), <<>>) \in Seq(Suspended)
      BY <1>0, MuteDo
    <3> QED BY <3>1, <3>2
  <2>b. ASSUME NEW op \in Mute, NEW op2 \in Mute PROVE Mutes(<<Do(op), Do(op2)>>, <<>>)
    <3>1. <<Do(op), Do(op2)>> = Push(Do(op), <<Do(op2)>>)
      BY DoAlone DEF Mute
    <3>2. Mutes(Push(Do(op), <<Do(op2)>>), <<>>)
      BY <2>a, MuteDo
    <3> QED BY <3>1, <3>2
  <2>4. CASE Timeout \/ LinkBreaks \/ ConnectFails
    <3>1. PICK s \in {<<>>, <<Do("socketAbort")>>} : ChannelError(s)
      BY <2>4 DEF Timeout, LinkBreaks, ConnectFails
    <3>2. s \in Seq(Suspended) /\ Mutes(s, <<>>)
      BY <1>0, <1>1, <2>a, <3>1
    <3>3. Mutes(stack', <<>>)
      BY <3>1, <3>2, MuteCalls, MuteTrans
    <3>4. chan' = chan
      BY <2>4 DEF Timeout, LinkBreaks, ConnectFails
    <3> QED BY <1>0, <2>1, <2>2, <3>3, <3>4, QuietMute
  <2>5. CASE Noise \/ Connected \/ CloseEnds
    <3>1. Mutes(stack', <<>>)
      BY <1>1, <2>5, <2>a, <2>b DEF Noise, Connected, CloseEnds
    <3>2. chan' = chan
      BY <2>5 DEF Noise, Connected, CloseEnds
    <3> QED BY <1>0, <2>1, <2>2, <3>1, <3>2, QuietMute
  <2> QED BY <1>6, <2>3, <2>4, <2>5 DEF Loop
<1>7. CASE UNCHANGED vars
  BY <1>7 DEF vars, managerVars, fsVars, Quiet, Fly
<1> QED BY <1>3, <1>4, <1>5, <1>6, <1>7

-----------------------------------------------------------------------------
(* One login, one command and one file transfer.                           *)

\* The sets that are counted hold none of the manager's requests for buffer sizes.
LEMMA KnownSets ==
  /\ Commands \subseteq Known /\ Transfers \subseteq Known /\ Logins \subseteq Known
  /\ \A T \in SUBSET Requests : Steps(T) \subseteq Known /\ Moving(T) \subseteq Known
                                /\ Steps(T) \subseteq Commands
  /\ \A r \in Requests, step \in {"run", "open", "attr", "data", "close"} : Item(r, step) \in Known
<1>1. \A i \in Buffers : i.req = Manager /\ i.step \in {"master", "slave", "dimension"}
  BY ItemTypes DEF Buffers, OwnSteps
<1>2. Manager \notin Requests
  BY ManagerAssumption DEF ManagerAssumption, Manager
<1>3. Logins \subseteq Known
  BY <1>1, ItemTypes DEF Logins, Known, OwnSteps
<1>4. Commands \subseteq Known /\ Transfers \subseteq Known
  BY <1>1 DEF Commands, Transfers, Known, IsCommand, IsTransfer, IsUser
<1>5. \A T \in SUBSET Requests : Steps(T) \subseteq Known /\ Moving(T) \subseteq Known
                                 /\ Steps(T) \subseteq Commands
  BY <1>1, <1>2 DEF Steps, Moving, Known, Commands, IsCommand
<1>6. \A r \in Requests, step \in {"run", "open", "attr", "data", "close"} : Item(r, step) \in Known
  BY <1>1, ItemTypes DEF Known
<1> QED BY <1>3, <1>4, <1>5, <1>6

\* Which sets the requests of a client are in.
LEMMA Membership ==
  ASSUME NEW r \in Requests
  PROVE  /\ \A step \in {"open", "attr", "close"} :
              /\ Item(r, step) \in Commands /\ Item(r, step) \notin Transfers /\ Item(r, step) \notin Queued
              /\ \A T : Item(r, step) \in Steps(T) <=> r \in T
              /\ \A T : Item(r, step) \notin Moving(T)
         /\ Item(r, "data") \notin Commands /\ Item(r, "data") \notin Transfers /\ Item(r, "data") \notin Queued
         /\ \A T : (Item(r, "data") \in Moving(T) <=> r \in T) /\ Item(r, "data") \notin Steps(T)
         /\ Item(r, "run") \in Commands <=> Kind[r] = "ctrl"
         /\ Item(r, "run") \in Transfers <=> Kind[r] \in {"download", "upload"}
         /\ Item(r, "run") \in Queued <=> Kind[r] \in {"ctrl", "download", "upload"}
         /\ \A T : Item(r, "run") \notin Steps(T)
         /\ \A T : Item(r, "run") \in Moving(T) <=> r \in T /\ Kind[r] \in {"download", "upload"}
         /\ Kind[r] \in Kinds
         /\ \A step \in {"run", "open", "attr", "data", "close"} :
              /\ Item(r, step) \in Objects /\ Item(r, step) \notin Logins
              /\ \A q \in Requests : Item(q, "run") = Item(r, step) <=> q = r /\ step = "run"
<1>1. \A q \in Requests, step \in {"run", "open", "attr", "data", "close"} :
        /\ Item(q, step) \in Objects /\ Item(q, step).req = q /\ Item(q, step).step = step
  BY ItemTypes
<1>2. \A step \in {"run", "open", "attr", "data", "close"} : Item(r, step) \notin Logins
  BY <1>1, ItemTypes DEF Logins, OwnSteps
<1>3. Kind[r] \in Kinds
  BY ManagerAssumption DEF ManagerAssumption
<1>4. /\ Item(r, "run") \in Commands <=> Kind[r] = "ctrl"
      /\ Item(r, "run") \in Transfers <=> Kind[r] \in {"download", "upload"}
      /\ Item(r, "run") \in Queued <=> Kind[r] \in {"ctrl", "download", "upload"}
  BY <1>1 DEF Commands, Transfers, Queued, IsCommand, IsTransfer, IsUser
<1>5. /\ \A T : Item(r, "run") \notin Steps(T)
      /\ \A T : Item(r, "run") \in Moving(T) <=> r \in T /\ Kind[r] \in {"download", "upload"}
  BY <1>1 DEF Steps, Moving, IsTransfer, IsUser
<1>6. /\ Item(r, "data") \notin Commands /\ Item(r, "data") \notin Transfers /\ Item(r, "data") \notin Queued
      /\ \A T : (Item(r, "data") \in Moving(T) <=> r \in T) /\ Item(r, "data") \notin Steps(T)
  BY <1>1 DEF Commands, Transfers, Queued, Moving, Steps, IsCommand, IsTransfer, IsUser
<1>7. \A step \in {"open", "attr", "close"} :
              /\ Item(r, step) \in Commands /\ Item(r, step) \notin Transfers /\ Item(r, step) \notin Queued
              /\ \A T : Item(r, step) \in Steps(T) <=> r \in T
              /\ \A T : Item(r, step) \notin Moving(T)
  BY <1>1 DEF Commands, Transfers, Queued, Moving, Steps, IsCommand, IsTransfer, IsUser
<1>8. \A q \in Requests, step \in {"run", "open", "attr", "data", "close"} :
         Item(q, "run") = Item(r, step) <=> q = r /\ step = "run"
  BY <1>1
<1> QED BY <1>1, <1>2, <1>3, <1>4, <1>5, <1>6, <1>7, <1>8

LEMMA IsOne == \A i, S : Is(i, S) \in {0, 1} /\ (i \in S => Is(i, S) = 1) /\ (i \notin S => Is(i, S) = 0)
BY DEF Is

\* The function that runs is counted.
LEMMA OfAt ==
  ASSUME TypeInv, NEW op, At(op)
  PROVE  /\ stack \in Seq(Suspended) /\ Rest \in Seq(Suspended) /\ This \in Objects
         /\ \A ops, S : op \in ops => Of(stack, ops, S) = Of(Rest, ops, S) + Is(This, S)
         /\ \A ops, S : op \notin ops => Of(stack, ops, S) = Of(Rest, ops, S)
         /\ \A ops, S : Of(Rest, ops, S) \in Nat
         /\ \A ops : Holds(stack, ops) <=> op \in ops \/ Holds(Rest, ops)
<1>1. /\ stack \in Seq(Suspended) /\ Rest \in Seq(Suspended) /\ This \in Objects
      /\ Head(stack) \in Suspended /\ Head(stack).op = op /\ Head(stack).item = This
      /\ stack = Push(Head(stack), Rest)
  BY AtTypes DEF TypeInv, This
<1> QED BY <1>1, OfPush, HoldsPush

\* A command in flight or at its end is the head of the queue, and the only one.
LEMMA CtrlHead ==
  ASSUME TypeInv, CtrlInv, NEW i \in Commands, Busy({i}) > 0
  PROVE  /\ fsCtrl # <<>> /\ i = Head(fsCtrl) /\ login = "LoggedIn"
         /\ ~Holds(stack, {"execCtrl", "execAny"})
         /\ Busy({i}) = 1 /\ Busy(Commands) = 1
         /\ Cd({i}) = Cd(Commands) /\ Fly({i}) = Fly(Commands)
         /\ \A S : i \in S => Count(fsCtrl, S) > 0
<1>1. /\ Fly({i}) <= Fly(Commands) /\ Cd({i}) <= Cd(Commands)
      /\ Fly({i}) \in Nat /\ Cd({i}) \in Nat /\ Fly(Commands) \in Nat /\ Cd(Commands) \in Nat
  BY FlyMore, LedgerTypes
<1>2. Busy(Commands) = Fly(Commands) + Cd(Commands) /\ Busy({i}) = Fly({i}) + Cd({i}) /\ Busy(Commands) <= 1
  BY DEF Busy, CtrlInv
<1>3. Busy(Commands) = 1 /\ Busy({i}) = 1 /\ Cd({i}) = Cd(Commands) /\ Fly({i}) = Fly(Commands)
  BY <1>1, <1>2
<1>4. fsCtrl # <<>> /\ login = "LoggedIn" /\ ~Holds(stack, {"execCtrl", "execAny"})
  BY <1>3 DEF CtrlInv
<1>5. i = Head(fsCtrl)
  BY <1>3, <1>4 DEF CtrlInv
<1>6. \A S : i \in S => Count(fsCtrl, S) > 0
  <2>1. fsCtrl \in Seq(Commands) /\ Tail(fsCtrl) \in Seq(Commands)
    BY <1>4 DEF TypeInv
  <2> TAKE S
  <2>2. Count(fsCtrl, S) = Count(Tail(fsCtrl), S) + (IF Head(fsCtrl) \in S THEN 1 ELSE 0)
    BY <1>4, <2>1, CountTail
  <2>3. Count(Tail(fsCtrl), S) \in Nat
    BY <2>1, SpotsFinite
  <2> QED BY <1>5, <2>2, <2>3
<1> QED BY <1>3, <1>4, <1>5, <1>6

\* What ends is still in its queue.
LEMMA CtrlLeft ==
  ASSUME TypeInv, CtrlInv, NEW S \in SUBSET Commands
  PROVE  Cd(S) <= Count(fsCtrl, S) /\ Cd(S) <= 1 /\ Cd(S) \in Nat /\ Count(fsCtrl, S) \in Nat
<1>1. Cd(S) \in Nat /\ Cd(S) <= Cd(Commands) /\ Count(fsCtrl, S) \in Nat
      /\ Cd(Commands) \in Nat /\ Fly(Commands) \in Nat
  BY FlyMore, LedgerTypes
<1>2. Cd(S) <= 1
  BY <1>1 DEF CtrlInv, Busy
<1>3. ASSUME Cd(S) > 0 PROVE Count(fsCtrl, S) > 0
  <2>1. stack \in Seq(Suspended)
    BY DEF TypeInv
  <2>2. Count(stack, Holding({"ctrlDone"}, S)) > 0
    BY <1>3 DEF Cd, Of
  <2>3. PICK n \in 1 .. Len(stack) : stack[n] \in Holding({"ctrlDone"}, S)
    BY <2>1, <2>2, CountSome
  <2> DEFINE i == stack[n].item
  <2>4. i \in S /\ stack[n] \in Holding({"ctrlDone"}, {i})
    BY <2>3 DEF Holding
  <2>5. Count(stack, Holding({"ctrlDone"}, {i})) > 0
    BY <2>1, <2>4, CountSome
  <2> HIDE DEF i
  <2>6. PICK j \in S : Cd({j}) > 0
    BY <2>4, <2>5 DEF Cd, Of
  <2>7. Fly({j}) \in Nat /\ Cd({j}) \in Nat
    BY LedgerTypes
  <2>8. Busy({j}) > 0
    BY <2>6, <2>7 DEF Busy
  <2> QED BY <2>6, <2>8, CtrlHead
<1> QED BY <1>1, <1>2, <1>3

LEMMA ActNat ==
  ASSUME TypeInv, CtrlInv, NEW T \in SUBSET Requests
  PROVE  /\ Act(T) \in Nat
         /\ Fly(Moving(T)) <= Act(T) /\ Dd(Moving(T)) <= Act(T)
         /\ Count(fsCtrl, Steps(T)) - Cd(Steps(T)) <= Act(T)
         /\ Fly(Moving(T)) \in Nat /\ Dd(Moving(T)) \in Nat
         /\ Cd(Steps(T)) \in Nat /\ Count(fsCtrl, Steps(T)) \in Nat
<1>1. Steps(T) \in SUBSET Commands
  BY KnownSets
<1>2. /\ Cd(Steps(T)) <= Count(fsCtrl, Steps(T)) /\ Cd(Steps(T)) \in Nat
      /\ Count(fsCtrl, Steps(T)) \in Nat
  BY <1>1, CtrlLeft
<1>3. Fly(Moving(T)) \in Nat /\ Dd(Moving(T)) \in Nat
  BY LedgerTypes
<1> QED BY <1>2, <1>3 DEF Act

LEMMA ActMore ==
  ASSUME TypeInv, CtrlInv, NEW r \in Requests
  PROVE  Act({r}) <= Act(Requests) /\ Act({r}) \in Nat /\ Act(Requests) \in Nat
<1> DEFINE O == Requests \ {r}
<1>0. O \in SUBSET Requests /\ {r} \in SUBSET Requests /\ Requests \in SUBSET Requests
  OBVIOUS
<1>1. /\ Moving(Requests) = Moving({r}) \union Moving(O) /\ Moving({r}) \cap Moving(O) = {}
      /\ Steps(Requests) = Steps({r}) \union Steps(O) /\ Steps({r}) \cap Steps(O) = {}
  BY DEF Moving, Steps
<1> HIDE DEF O
<1>2. /\ Fly(Moving(Requests)) = Fly(Moving({r})) + Fly(Moving(O))
      /\ Dd(Moving(Requests)) = Dd(Moving({r})) + Dd(Moving(O))
  BY <1>1, FlyBoth
<1>3. /\ Cd(Steps(Requests)) = Cd(Steps({r})) + Cd(Steps(O))
      /\ Count(fsCtrl, Steps(Requests)) = Count(fsCtrl, Steps({r})) + Count(fsCtrl, Steps(O))
  BY <1>1, FlyBoth
<1>4. /\ Act(O) \in Nat /\ Act({r}) \in Nat /\ Act(Requests) \in Nat
      /\ Fly(Moving({r})) \in Nat /\ Dd(Moving({r})) \in Nat
      /\ Cd(Steps({r})) \in Nat /\ Count(fsCtrl, Steps({r})) \in Nat
      /\ Fly(Moving(O)) \in Nat /\ Dd(Moving(O)) \in Nat
      /\ Cd(Steps(O)) \in Nat /\ Count(fsCtrl, Steps(O)) \in Nat
  BY <1>0, ActNat
<1>5. Act(Requests) = Act({r}) + Act(O)
  BY <1>2, <1>3, <1>4 DEF Act
<1> QED BY <1>4, <1>5

\* A file transfer under way is the head of the queue, and the only one.
LEMMA DataHead ==
  ASSUME TypeInv, CtrlInv, DataInv, NEW r \in Requests, Act({r}) > 0
  PROVE  /\ fsData # <<>> /\ Head(fsData) = Item(r, "run") /\ login = "LoggedIn"
         /\ Item(r, "run") \in Transfers
         /\ ~Holds(stack, {"startData", "execData", "execAny"})
         /\ Act({r}) = 1 /\ Act(Requests) = 1
<1>1. Act({r}) <= Act(Requests) /\ Act({r}) \in Nat /\ Act(Requests) \in Nat
  BY ActMore
<1>2. Act({r}) = 1 /\ Act(Requests) = 1
  BY <1>1 DEF DataInv
<1>3. fsData # <<>> /\ login = "LoggedIn" /\ ~Holds(stack, {"startData", "execData", "execAny"})
  BY <1>2 DEF DataInv
<1>4. r = Head(fsData).req
  BY <1>2, <1>3 DEF DataInv
<1>5. Head(fsData) \in Transfers
  BY <1>3, Parts DEF TypeInv
<1>6. Head(fsData) = Item(r, "run")
  BY <1>4, <1>5, ObjectIs DEF Transfers, IsTransfer, IsUser
<1> QED BY <1>2, <1>3, <1>5, <1>6

-----------------------------------------------------------------------------
(* What a step does to the ledger when neither the channel's queue nor the  *)
(* pending requests change: only the stack counts.                          *)

\* Its entries when one more function is called.
LEMMA Pushed ==
  ASSUME TypeInv, NEW s \in Seq(Suspended), NEW f \in Suspended
  PROVE  /\ \A S : FlyIn(s, S) \in Nat /\ FlyIn(Push(f, s), S) = FlyIn(s, S) + Adds(f, InFlight, S)
         /\ \A op, S : Of(s, {op}, S) \in Nat /\ Of(Push(f, s), {op}, S) = Of(s, {op}, S) + Adds(f, {op}, S)
         /\ \A ops : Holds(Push(f, s), ops) <=> f.op \in ops \/ Holds(s, ops)
         /\ Push(f, s) \in Seq(Suspended)
<1>1. \A ops, S : Of(s, ops, S) \in Nat /\ Of(Push(f, s), ops, S) = Of(s, ops, S) + Adds(f, ops, S)
  BY OfPush DEF Adds
<1>2. \A S : Count(pending, S) \in Nat /\ Count(chan, S) \in Nat /\ Adds(f, InFlight, S) \in Nat
  BY LedgerTypes DEF Adds, Is
<1>3. ASSUME NEW S PROVE FlyIn(s, S) \in Nat /\ FlyIn(Push(f, s), S) = FlyIn(s, S) + Adds(f, InFlight, S)
  <2>1. /\ Of(s, InFlight, S) \in Nat
        /\ Of(Push(f, s), InFlight, S) = Of(s, InFlight, S) + Adds(f, InFlight, S)
    BY <1>1
  <2>2. Count(pending, S) \in Nat /\ Count(chan, Carrying(S)) \in Nat /\ Adds(f, InFlight, S) \in Nat
    BY <1>2
  <2> QED BY <2>1, <2>2 DEF FlyIn
<1> QED BY <1>1, <1>3, HoldsPush, PushTypes

\* The function that runs, and what is left of the ledger without it.
LEMMA Popped ==
  ASSUME TypeInv, NEW op, At(op)
  PROVE  /\ Rest \in Seq(Suspended) /\ This \in Objects /\ Head(stack).ok \in BOOLEAN
         /\ \A S : /\ Fly(S) = FlyIn(Rest, S) + (IF op \in InFlight THEN Is(This, S) ELSE 0)
                   /\ Cd(S) = Of(Rest, {"ctrlDone"}, S) + (IF op = "ctrlDone" THEN Is(This, S) ELSE 0)
                   /\ Dd(S) = Of(Rest, {"dataDone"}, S) + (IF op = "dataDone" THEN Is(This, S) ELSE 0)
                   /\ Rj(S) = Of(Rest, {"rejected"}, S) + (IF op = "rejected" THEN Is(This, S) ELSE 0)
         /\ \A S : /\ FlyIn(Rest, S) \in Nat /\ Of(Rest, {"ctrlDone"}, S) \in Nat
                   /\ Of(Rest, {"dataDone"}, S) \in Nat /\ Of(Rest, {"rejected"}, S) \in Nat
         /\ \A ops : Holds(stack, ops) <=> op \in ops \/ Holds(Rest, ops)
<1>1. /\ stack \in Seq(Suspended) /\ Rest \in Seq(Suspended) /\ This \in Objects
      /\ Head(stack) \in Suspended /\ Head(stack).op = op /\ Head(stack).item = This
      /\ stack = Push(Head(stack), Rest) /\ Head(stack).ok \in BOOLEAN
  BY AtTypes DEF TypeInv, This
<1>2. \A ops, S : Adds(Head(stack), ops, S) = IF op \in ops THEN Is(This, S) ELSE 0
  BY <1>1 DEF Adds
<1>3. /\ \A S : FlyIn(stack, S) = FlyIn(Rest, S) + Adds(Head(stack), InFlight, S)
      /\ \A o, S : Of(stack, {o}, S) = Of(Rest, {o}, S) + Adds(Head(stack), {o}, S)
      /\ \A S : FlyIn(Rest, S) \in Nat
      /\ \A o, S : Of(Rest, {o}, S) \in Nat
      /\ \A ops : Holds(stack, ops) <=> op \in ops \/ Holds(Rest, ops)
  <2>1. PICK s \in Seq(Suspended), f \in Suspended : s = Rest /\ f = Head(stack)
    BY <1>1
  <2>2. /\ \A S : FlyIn(s, S) \in Nat /\ FlyIn(Push(f, s), S) = FlyIn(s, S) + Adds(f, InFlight, S)
        /\ \A o, S : Of(s, {o}, S) \in Nat /\ Of(Push(f, s), {o}, S) = Of(s, {o}, S) + Adds(f, {o}, S)
        /\ \A ops : Holds(Push(f, s), ops) <=> f.op \in ops \/ Holds(s, ops)
    BY <2>1, Pushed
  <2>3. Push(f, s) = stack /\ f.op = op
    BY <1>1, <2>1
  <2> QED BY <2>1, <2>2, <2>3
<1>4. \A S : Fly(S) = FlyIn(stack, S)
  BY DEF Fly, FlyIn
<1>5. \A S : Fly(S) = FlyIn(Rest, S) + (IF op \in InFlight THEN Is(This, S) ELSE 0)
  BY <1>2, <1>3, <1>4
<1>6. \A o, S : Of(stack, {o}, S) = Of(Rest, {o}, S) + (IF op = o THEN Is(This, S) ELSE 0)
  <2>1. \A o, S : Adds(Head(stack), {o}, S) = IF op = o THEN Is(This, S) ELSE 0
    BY <1>1 DEF Adds
  <2> TAKE o, S
  <2>2. Of(stack, {o}, S) = Of(Rest, {o}, S) + Adds(Head(stack), {o}, S)
    BY <1>3
  <2>3. Adds(Head(stack), {o}, S) = IF op = o THEN Is(This, S) ELSE 0
    BY <2>1
  <2> QED BY <2>2, <2>3
<1>7. \A S : /\ Cd(S) = Of(Rest, {"ctrlDone"}, S) + (IF op = "ctrlDone" THEN Is(This, S) ELSE 0)
             /\ Dd(S) = Of(Rest, {"dataDone"}, S) + (IF op = "dataDone" THEN Is(This, S) ELSE 0)
             /\ Rj(S) = Of(Rest, {"rejected"}, S) + (IF op = "rejected" THEN Is(This, S) ELSE 0)
  BY <1>6 DEF Cd, Dd, Rj
<1> QED BY <1>1, <1>3, <1>5, <1>7

LEMMA Now ==
  ASSUME UNCHANGED <<pending, chan>>, NEW s, stack' = s
  PROVE  \A S : /\ Fly(S)' = FlyIn(s, S) /\ Cd(S)' = Of(s, {"ctrlDone"}, S)
                /\ Dd(S)' = Of(s, {"dataDone"}, S) /\ Rj(S)' = Of(s, {"rejected"}, S)
BY DEF Fly, FlyIn, Cd, Dd, Rj

LEMMA Called ==
  ASSUME TypeInv, NEW s \in Seq(Suspended), NEW f \in Suspended
  PROVE  /\ f.op \in InFlight => \A S : FlyIn(Push(f, s), S) = FlyIn(s, S) + Is(f.item, S)
         /\ f.op \notin InFlight => \A S : FlyIn(Push(f, s), S) = FlyIn(s, S)
         /\ \A op, S : f.op = op => Of(Push(f, s), {op}, S) = Of(s, {op}, S) + Is(f.item, S)
         /\ \A op, S : f.op # op => Of(Push(f, s), {op}, S) = Of(s, {op}, S)
         /\ \A S : FlyIn(s, S) \in Nat
         /\ \A ops, S : Of(s, ops, S) \in Nat
         /\ \A ops : Holds(Push(f, s), ops) <=> f.op \in ops \/ Holds(s, ops)
         /\ Push(f, s) \in Seq(Suspended)
<1>1. /\ \A ops, S : Of(s, ops, S) \in Nat
      /\ \A ops, S : f.op \in ops => Of(Push(f, s), ops, S) = Of(s, ops, S) + Is(f.item, S)
      /\ \A ops, S : f.op \notin ops => Of(Push(f, s), ops, S) = Of(s, ops, S)
  BY OfPush
<1>2. \A S : Count(pending, S) \in Nat /\ Count(chan, S) \in Nat /\ Is(f.item, S) \in Nat
  BY LedgerTypes DEF Is
<1>3. ASSUME NEW S PROVE FlyIn(s, S) \in Nat
  BY <1>1, <1>2 DEF FlyIn
<1>4. ASSUME f.op \in InFlight, NEW S PROVE FlyIn(Push(f, s), S) = FlyIn(s, S) + Is(f.item, S)
  <2>1. Of(s, InFlight, S) \in Nat /\ Of(Push(f, s), InFlight, S) = Of(s, InFlight, S) + Is(f.item, S)
    BY <1>1, <1>4
  <2>2. Count(pending, S) \in Nat /\ Count(chan, Carrying(S)) \in Nat /\ Is(f.item, S) \in Nat
    BY <1>2
  <2> QED BY <2>1, <2>2 DEF FlyIn
<1>5. ASSUME f.op \notin InFlight, NEW S PROVE FlyIn(Push(f, s), S) = FlyIn(s, S)
  BY <1>1, <1>5 DEF FlyIn
<1>6. ASSUME NEW op, NEW S
      PROVE  /\ f.op = op => Of(Push(f, s), {op}, S) = Of(s, {op}, S) + Is(f.item, S)
             /\ f.op # op => Of(Push(f, s), {op}, S) = Of(s, {op}, S)
  <2>1. f.op = op <=> f.op \in {op}
    OBVIOUS
  <2> QED BY <1>1, <2>1
<1> QED BY <1>1, <1>3, <1>4, <1>5, <1>6, HoldsPush, PushTypes

\* What a step does when it calls f over s.
LEMMA After ==
  ASSUME TypeInv, UNCHANGED <<pending, chan>>, NEW s \in Seq(Suspended), NEW f \in Suspended,
         stack' = Push(f, s)
  PROVE  /\ f.op \in InFlight => \A S : Fly(S)' = FlyIn(s, S) + Is(f.item, S)
         /\ f.op \notin InFlight => \A S : Fly(S)' = FlyIn(s, S)
         /\ f.op = "ctrlDone" => \A S : Cd(S)' = Of(s, {"ctrlDone"}, S) + Is(f.item, S)
         /\ f.op # "ctrlDone" => \A S : Cd(S)' = Of(s, {"ctrlDone"}, S)
         /\ f.op = "dataDone" => \A S : Dd(S)' = Of(s, {"dataDone"}, S) + Is(f.item, S)
         /\ f.op # "dataDone" => \A S : Dd(S)' = Of(s, {"dataDone"}, S)
         /\ f.op = "rejected" => \A S : Rj(S)' = Of(s, {"rejected"}, S) + Is(f.item, S)
         /\ f.op # "rejected" => \A S : Rj(S)' = Of(s, {"rejected"}, S)
         /\ \A S : FlyIn(s, S) \in Nat
         /\ \A ops, S : Of(s, ops, S) \in Nat
         /\ \A ops : Holds(stack', ops) <=> f.op \in ops \/ Holds(s, ops)
<1>a. (f.op \in InFlight => \A S : FlyIn(Push(f, s), S) = FlyIn(s, S) + Is(f.item, S))
  BY Called
<1>b. f.op \notin InFlight => \A S : FlyIn(Push(f, s), S) = FlyIn(s, S)
  BY Called
<1>c. \A op, S : f.op = op => Of(Push(f, s), {op}, S) = Of(s, {op}, S) + Is(f.item, S)
  BY Called
<1>d. \A op, S : f.op # op => Of(Push(f, s), {op}, S) = Of(s, {op}, S)
  BY Called
<1>e. \A S : FlyIn(s, S) \in Nat
  BY Called
<1>f. \A ops, S : Of(s, ops, S) \in Nat
  BY Called
<1>g. \A ops : Holds(Push(f, s), ops) <=> f.op \in ops \/ Holds(s, ops)
  BY Called
<1>2. PICK t : t = Push(f, s)
  OBVIOUS
<1>3. \A S : /\ Fly(S)' = FlyIn(t, S) /\ Cd(S)' = Of(t, {"ctrlDone"}, S)
             /\ Dd(S)' = Of(t, {"dataDone"}, S) /\ Rj(S)' = Of(t, {"rejected"}, S)
  BY <1>2, Now
<1>4. \A ops : Holds(stack', ops) <=> f.op \in ops \/ Holds(s, ops)
  BY <1>g
<1> QED BY <1>a, <1>b, <1>c, <1>d, <1>e, <1>f, <1>2, <1>3, <1>4

LEMMA BooksCtrlDone ==
  ASSUME TypeInv, Books, CtrlDone
  PROVE  Books'
<1>1. PICK i \in Objects, s \in Seq(Suspended) : i = This /\ s = Rest /\ \A ops, S : Of(s, ops, S) \in Nat
  BY OfAt DEF CtrlDone
<1>2. /\ \A S : /\ Fly(S) = FlyIn(s, S) /\ Cd(S) = Of(s, {"ctrlDone"}, S) + Is(i, S)
                /\ Dd(S) = Of(s, {"dataDone"}, S) /\ Rj(S) = Of(s, {"rejected"}, S)
      /\ \A ops : Holds(stack, ops) <=> "ctrlDone" \in ops \/ Holds(s, ops)
  BY <1>1, Popped DEF CtrlDone, InFlight
<1>3. /\ stack' = Push(Do("execCtrl"), s) /\ fsCtrl' = Tail(fsCtrl) /\ fsCtrl # <<>>
      /\ UNCHANGED <<pending, chan, fsData, login, status>>
  BY <1>1 DEF CtrlDone
<1>4. /\ \A S : /\ Fly(S)' = FlyIn(s, S) /\ Cd(S)' = Of(s, {"ctrlDone"}, S)
                /\ Dd(S)' = Of(s, {"dataDone"}, S) /\ Rj(S)' = Of(s, {"rejected"}, S)
      /\ \A ops : Holds(stack', ops) <=> "execCtrl" \in ops \/ Holds(s, ops)
  <2> DEFINE f == Do("execCtrl")
  <2>1. f \in Suspended /\ f.op = "execCtrl" /\ f.op \notin InFlight
    BY DoTypes DEF Ops, InFlight
  <2>2. stack' = Push(f, s)
    BY <1>3
  <2> HIDE DEF f
  <2> QED BY <1>3, <2>1, <2>2, After
<1>5. /\ \A S : Fly(S)' = Fly(S) /\ Cd(S)' = Cd(S) - Is(i, S) /\ Dd(S)' = Dd(S) /\ Rj(S)' = Rj(S)
      /\ \A S : Cd(S) \in Nat /\ Cd(S)' \in Nat /\ Cd(S) = Cd(S)' + Is(i, S)
  <2>1. \A S : Of(s, {"ctrlDone"}, S) \in Nat /\ Is(i, S) \in Nat
    BY <1>1, IsOne
  <2> QED BY <1>2, <1>4, <2>1
<1>6. i \in Commands
  <2>1. Cd(Objects \ Commands) = 0
    BY DEF Books, KindsInv
  <2>2. Is(i, Objects \ Commands) = 0
    BY <1>5, <2>1, IsOne
  <2> QED BY <2>2, IsOne
<1>7. /\ i = Head(fsCtrl) /\ login = "LoggedIn" /\ Busy({i}) = 1 /\ Busy(Commands) = 1
      /\ ~Holds(stack, {"execCtrl", "execAny"})
  <2>1. Cd({i}) > 0 /\ Fly({i}) \in Nat
    BY <1>5, IsOne, LedgerTypes
  <2>2. Busy({i}) > 0
    BY <1>5, <2>1 DEF Busy
  <2> QED BY <1>6, <2>2, CtrlHead DEF Books
<1>8. /\ \A S : Count(fsCtrl, S) = Count(fsCtrl', S) + Is(i, S)
      /\ \A S : Count(fsCtrl', S) \in Nat /\ Count(fsCtrl, S) \in Nat
  <2>1. fsCtrl \in Seq(Commands) /\ Tail(fsCtrl) \in Seq(Commands)
    BY <1>3, Parts DEF TypeInv
  <2>2. \A S : Count(fsCtrl, S) = Count(Tail(fsCtrl), S) + (IF Head(fsCtrl) \in S THEN 1 ELSE 0)
    BY <1>3, <2>1, CountTail
  <2>3. \A S : Count(Tail(fsCtrl), S) \in Nat
    BY <2>1, SpotsFinite
  <2> QED BY <1>3, <1>7, <2>2, <2>3 DEF Is
<1>9. \A S : Busy(S)' = Busy(S) - Is(i, S)
  <2> TAKE S
  <2>1. Fly(S) \in Nat /\ Cd(S) \in Nat /\ Is(i, S) \in Nat /\ Fly(S)' = Fly(S) /\ Cd(S)' = Cd(S) - Is(i, S)
    BY <1>5, LedgerTypes, IsOne
  <2> QED BY <2>1 DEF Busy
<1>10. \A T : Act(T)' = Act(T)
  BY <1>5, <1>8, IsOne DEF Act
<1>11. \A r : Live(r)' = Live(r)
  <2> TAKE r
  <2> DEFINE R == {Item(r, "run")}
  <2> HIDE DEF R
  <2>1. /\ Fly(R)' = Fly(R) /\ Cd(R) = Cd(R)' + Is(i, R) /\ Rj(R)' = Rj(R) /\ Dd(R)' = Dd(R)
        /\ Count(fsCtrl, R) = Count(fsCtrl', R) + Is(i, R) /\ Count(fsData', R) = Count(fsData, R)
        /\ Cd(R)' \in Nat /\ Count(fsCtrl', R) \in Nat /\ Is(i, R) \in Nat
    BY <1>3, <1>5, <1>8, IsOne
  <2>2. Count(fsCtrl', R) - Cd(R)' = Count(fsCtrl, R) - Cd(R)
    BY <2>1
  <2> QED BY <2>1, <2>2 DEF Live, R
<1>12. KindsInv'
  <2>1. Cd(Objects \ Commands) = Cd(Objects \ Commands)' + Is(i, Objects \ Commands)
        /\ Cd(Objects \ Commands)' \in Nat /\ Is(i, Objects \ Commands) = 0
    BY <1>5, <1>6, IsOne
  <2>2. Dd(Objects \ Transfers)' = Dd(Objects \ Transfers) /\ Rj(Objects \ Queued)' = Rj(Objects \ Queued)
    BY <1>5
  <2> QED BY <2>1, <2>2 DEF Books, KindsInv
<1>13. LoginInv'
  BY <1>2, <1>3, <1>4, <1>5, <1>7 DEF Books, LoginInv
<1>14. CtrlInv'
  <2>1. Busy(Commands)' = 0
    BY <1>6, <1>7, <1>9, IsOne
  <2>2. \A j \in Commands : Busy({j})' = 0
    <3> TAKE j \in Commands
    <3>1. Busy({j})' = Busy({j}) - Is(i, {j})
      BY <1>9
    <3>2. CASE j = i
      BY <1>7, <3>1, <3>2, IsOne
    <3>3. CASE j # i
      <4>1. Busy({j}) = 0
        BY <1>3, <1>7, <3>3 DEF Books, CtrlInv
      <4> QED BY <3>1, <3>3, <4>1, IsOne
    <3> QED BY <3>2, <3>3
  <2> QED BY <1>3, <1>4, <1>7, <2>1, <2>2 DEF CtrlInv
<1>15. DataInv'
  BY <1>2, <1>3, <1>4, <1>10 DEF Books, DataInv
<1>16. EndInv'
  BY <1>3, <1>11 DEF Books, EndInv
<1> QED BY <1>12, <1>13, <1>14, <1>15, <1>16 DEF Books

\* A file transfer ends: it is the head of its queue, and the next one may start.
LEMMA BooksDataDone ==
  ASSUME TypeInv, Books, DataDone
  PROVE  Books'
<1>1. PICK i \in Objects, s \in Seq(Suspended) : i = This /\ s = Rest /\ \A ops, S : Of(s, ops, S) \in Nat
  BY OfAt DEF DataDone
<1>2. /\ \A S : /\ Fly(S) = FlyIn(s, S) /\ Cd(S) = Of(s, {"ctrlDone"}, S)
                /\ Dd(S) = Of(s, {"dataDone"}, S) + Is(i, S) /\ Rj(S) = Of(s, {"rejected"}, S)
      /\ \A ops : Holds(stack, ops) <=> "dataDone" \in ops \/ Holds(s, ops)
  BY <1>1, Popped DEF DataDone, InFlight
<1>3. /\ stack' = Push(Do("execData"), s) /\ fsData' = Tail(fsData) /\ fsData # <<>>
      /\ UNCHANGED <<pending, chan, fsCtrl, login, status>>
  BY <1>1 DEF DataDone
<1>4. /\ \A S : /\ Fly(S)' = FlyIn(s, S) /\ Cd(S)' = Of(s, {"ctrlDone"}, S)
                /\ Dd(S)' = Of(s, {"dataDone"}, S) /\ Rj(S)' = Of(s, {"rejected"}, S)
      /\ \A ops : Holds(stack', ops) <=> "execData" \in ops \/ Holds(s, ops)
  <2> DEFINE f == Do("execData")
  <2>1. f \in Suspended /\ f.op = "execData" /\ f.op \notin InFlight
    BY DoTypes DEF Ops, InFlight
  <2>2. stack' = Push(f, s)
    BY <1>3
  <2> HIDE DEF f
  <2> QED BY <1>3, <2>1, <2>2, After
<1>5. /\ \A S : Fly(S)' = Fly(S) /\ Cd(S)' = Cd(S) /\ Dd(S)' = Dd(S) - Is(i, S) /\ Rj(S)' = Rj(S)
      /\ \A S : Dd(S) \in Nat /\ Dd(S)' \in Nat /\ Dd(S) = Dd(S)' + Is(i, S)
  <2>1. \A S : Of(s, {"dataDone"}, S) \in Nat /\ Is(i, S) \in Nat
    BY <1>1, IsOne
  <2> QED BY <1>2, <1>4, <2>1
<1>6. i \in Transfers
  <2>1. Dd(Objects \ Transfers) = 0
    BY DEF Books, KindsInv
  <2>2. Is(i, Objects \ Transfers) = 0
    BY <1>5, <2>1, IsOne
  <2> QED BY <2>2, IsOne
<1> DEFINE r == i.req
<1>7. r \in Requests /\ i = Item(r, "run") /\ \A T : i \in Moving(T) <=> r \in T
  <2>1. r \in Requests /\ i = Item(r, "run")
    BY <1>6, ManagerAssumption, ObjectIs DEF Transfers, IsTransfer, IsUser, OwnSteps
  <2> QED BY <1>6, <2>1 DEF Moving, Transfers
<1> HIDE DEF r
<1>8. /\ i = Head(fsData) /\ login = "LoggedIn" /\ Act({r}) = 1 /\ Act(Requests) = 1
      /\ ~Holds(stack, {"startData", "execData", "execAny"})
  <2>1. Dd(Moving({r})) > 0
    BY <1>5, <1>7, IsOne
  <2>2. Dd(Moving({r})) <= Act({r}) /\ Act({r}) \in Nat /\ Dd(Moving({r})) \in Nat
    BY <1>7, ActNat DEF Books
  <2>3. Act({r}) > 0
    BY <2>1, <2>2
  <2> QED BY <1>7, <2>3, DataHead DEF Books
<1>9. /\ \A S : Count(fsData, S) = Count(fsData', S) + Is(i, S)
      /\ \A S : Count(fsData', S) \in Nat /\ Count(fsData, S) \in Nat
  <2>1. fsData \in Seq(Transfers) /\ Tail(fsData) \in Seq(Transfers)
    BY <1>3, Parts DEF TypeInv
  <2>2. \A S : Count(fsData, S) = Count(Tail(fsData), S) + (IF Head(fsData) \in S THEN 1 ELSE 0)
    BY <1>3, <2>1, CountTail
  <2>3. \A S : Count(Tail(fsData), S) \in Nat
    BY <2>1, SpotsFinite
  <2> QED BY <1>3, <1>8, <2>2, <2>3 DEF Is
<1>10. \A S : Busy(S)' = Busy(S)
  BY <1>5 DEF Busy
<1>11. \A T \in SUBSET Requests : Act(T)' = Act(T) - Is(i, Moving(T))
  <2> TAKE T \in SUBSET Requests
  <2>1. /\ Fly(Moving(T))' = Fly(Moving(T)) /\ Dd(Moving(T))' = Dd(Moving(T)) - Is(i, Moving(T))
        /\ Cd(Steps(T))' = Cd(Steps(T)) /\ Count(fsCtrl', Steps(T)) = Count(fsCtrl, Steps(T))
        /\ Fly(Moving(T)) \in Nat /\ Dd(Moving(T)) \in Nat /\ Is(i, Moving(T)) \in Nat
        /\ Cd(Steps(T)) \in Nat /\ Count(fsCtrl, Steps(T)) \in Nat
    BY <1>3, <1>5, IsOne, LedgerTypes
  <2> QED BY <2>1 DEF Act
<1>12. \A q : Live(q)' = Live(q)
  <2> TAKE q
  <2> DEFINE R == {Item(q, "run")}
  <2> HIDE DEF R
  <2>1. /\ Fly(R)' = Fly(R) /\ Dd(R) = Dd(R)' + Is(i, R) /\ Rj(R)' = Rj(R) /\ Cd(R)' = Cd(R)
        /\ Count(fsData, R) = Count(fsData', R) + Is(i, R) /\ Count(fsCtrl', R) = Count(fsCtrl, R)
        /\ Dd(R)' \in Nat /\ Count(fsData', R) \in Nat /\ Is(i, R) \in Nat
    BY <1>3, <1>5, <1>9, IsOne
  <2>2. Count(fsData', R) - Dd(R)' = Count(fsData, R) - Dd(R)
    BY <2>1
  <2> QED BY <2>1, <2>2 DEF Live, R
<1>13. KindsInv'
  <2>1. Dd(Objects \ Transfers) = Dd(Objects \ Transfers)' + Is(i, Objects \ Transfers)
        /\ Dd(Objects \ Transfers)' \in Nat /\ Is(i, Objects \ Transfers) = 0
    BY <1>5, <1>6, IsOne
  <2>2. Cd(Objects \ Commands)' = Cd(Objects \ Commands) /\ Rj(Objects \ Queued)' = Rj(Objects \ Queued)
    BY <1>5
  <2> QED BY <2>1, <2>2 DEF Books, KindsInv
<1>14. LoginInv'
  BY <1>2, <1>3, <1>4, <1>5, <1>8 DEF Books, LoginInv
<1>15. CtrlInv'
  BY <1>2, <1>3, <1>4, <1>8, <1>10 DEF Books, CtrlInv
<1>16. DataInv'
  <2>1. Act(Requests)' = 0
    BY <1>7, <1>8, <1>11, IsOne
  <2>2. \A q \in Requests : Act({q})' = 0
    <3> TAKE q \in Requests
    <3>1. Act({q})' = Act({q}) - Is(i, Moving({q}))
      BY <1>11
    <3>2. CASE q = r
      BY <1>7, <1>8, <3>1, <3>2, IsOne
    <3>3. CASE q # r
      <4>1. Act({q}) = 0
        BY <1>3, <1>8, <3>3 DEF Books, DataInv, r
      <4> QED BY <1>7, <3>1, <3>3, <4>1, IsOne
    <3> QED BY <3>2, <3>3
  <2> QED BY <1>4, <2>1, <2>2 DEF DataInv
<1>17. EndInv'
  BY <1>3, <1>12 DEF Books, EndInv
<1> QED BY <1>13, <1>14, <1>15, <1>16, <1>17 DEF Books

LEMMA TransferIs ==
  ASSUME NEW h \in Transfers
  PROVE  /\ h.req \in Requests /\ h = Item(h.req, "run") /\ Kind[h.req] \in {"download", "upload"}
         /\ \A T : (h \in Moving(T) <=> h.req \in T) /\ h \notin Steps(T)
         /\ h \notin Commands /\ h \notin Logins /\ h \in Queued /\ h \in Objects
<1>1. h.req \in Requests /\ h.step = "run"
  BY ManagerAssumption, ObjectIs DEF Transfers, IsTransfer, IsUser, OwnSteps
<1>2. h = Item(h.req, "run") /\ h \in Objects
  BY <1>1, ObjectIs DEF Transfers
<1>3. Kind[h.req] \in {"download", "upload"}
  BY DEF Transfers, IsTransfer
<1> QED BY <1>1, <1>2, <1>3, Membership

LEMMA CommandIs ==
  ASSUME NEW h \in Commands
  PROVE  /\ h.req \in Requests /\ h = Item(h.req, h.step)
         /\ \A T : h \notin Moving(T)
         /\ h \notin Transfers /\ h \notin Logins /\ h \in Objects
         /\ \/ h.step \in {"open", "attr", "close"} /\ h \notin Queued /\ \A T : h \in Steps(T) <=> h.req \in T
            \/ h.step = "run" /\ Kind[h.req] = "ctrl" /\ h \in Queued /\ \A T : h \notin Steps(T)
<1>1. h.req \in Requests /\ h.step \in {"run", "open", "attr", "close"} /\ (h.step = "run" => Kind[h.req] = "ctrl")
  BY ManagerAssumption, ObjectIs DEF Commands, IsCommand, IsUser, OwnSteps
<1>2. h = Item(h.req, h.step) /\ h \in Objects
  BY <1>1, ObjectIs DEF Commands
<1>3. CASE h.step = "run"
  BY <1>1, <1>2, <1>3, Membership
<1>4. CASE h.step \in {"open", "attr", "close"}
  BY <1>1, <1>2, <1>4, Membership
<1> QED BY <1>1, <1>3, <1>4

\* A quiet step is not noticed.
LEMMA BooksQuiet ==
  ASSUME Quiet, Books
  PROVE  Books'
<1>1. /\ UNCHANGED <<fsCtrl, fsData, login, status>>
      /\ \A S \in SUBSET Known : Fly(S)' = Fly(S)
  BY DEF Quiet
<1>2. \A S : Cd(S)' = Cd(S) /\ Dd(S)' = Dd(S) /\ Rj(S)' = Rj(S)
  <2>1. {"ctrlDone"} \in SUBSET Control /\ {"dataDone"} \in SUBSET Control /\ {"rejected"} \in SUBSET Control
    BY DEF Control
  <2>2. \A ops \in SUBSET Control : \A S : Of(stack', ops, S) = Of(stack, ops, S)
    BY DEF Quiet
  <2> QED BY <2>1, <2>2 DEF Cd, Dd, Rj
<1>3. /\ Holds(stack', {"failFS", "rejected"}) <=> Holds(stack, {"failFS", "rejected"})
      /\ Holds(stack', {"execAny"}) <=> Holds(stack, {"execAny"})
      /\ Holds(stack', {"execCtrl", "execData"}) <=> Holds(stack, {"execCtrl", "execData"})
      /\ Holds(stack', {"execCtrl", "execAny"}) <=> Holds(stack, {"execCtrl", "execAny"})
      /\ Holds(stack', {"failFS", "execCtrl"}) <=> Holds(stack, {"failFS", "execCtrl"})
      /\ Holds(stack', {"startData", "execData", "execAny"}) <=> Holds(stack, {"startData", "execData", "execAny"})
      /\ Holds(stack', {"failFS", "execData"}) <=> Holds(stack, {"failFS", "execData"})
  <2>1. /\ {"failFS", "rejected"} \in SUBSET Control /\ {"execAny"} \in SUBSET Control
        /\ {"execCtrl", "execData"} \in SUBSET Control /\ {"execCtrl", "execAny"} \in SUBSET Control
        /\ {"failFS", "execCtrl"} \in SUBSET Control /\ {"startData", "execData", "execAny"} \in SUBSET Control
        /\ {"failFS", "execData"} \in SUBSET Control
    BY DEF Control
  <2>2. \A ops \in SUBSET Control : Holds(stack', ops) <=> Holds(stack, ops)
    BY DEF Quiet
  <2> QED BY <2>1, <2>2
<1>4. Fly(Logins)' = Fly(Logins) /\ Fly(Commands)' = Fly(Commands)
  BY <1>1, KnownSets
<1>5. \A i \in Commands : Fly({i})' = Fly({i})
  BY <1>1, KnownSets
<1>6. Busy(Commands)' = Busy(Commands) /\ \A i \in Commands : Busy({i})' = Busy({i})
  BY <1>2, <1>4, <1>5 DEF Busy
<1>7. \A T \in SUBSET Requests : Act(T)' = Act(T)
  <2> TAKE T \in SUBSET Requests
  <2>1. Fly(Moving(T))' = Fly(Moving(T))
    BY <1>1, KnownSets
  <2> QED BY <1>1, <1>2, <2>1 DEF Act
<1>8. \A r \in Requests : Live(r)' = Live(r)
  <2> TAKE r \in Requests
  <2>1. Fly({Item(r, "run")})' = Fly({Item(r, "run")})
    BY <1>1, KnownSets
  <2> QED BY <1>1, <1>2, <2>1 DEF Live
<1>9. KindsInv'
  BY <1>2 DEF Books, KindsInv
<1>10. LoginInv'
  BY <1>1, <1>3, <1>4 DEF Books, LoginInv
<1>11. CtrlInv'
  BY <1>1, <1>3, <1>6 DEF Books, CtrlInv
<1>12. DataInv'
  BY <1>1, <1>3, <1>7 DEF Books, DataInv
<1>13. EndInv'
  BY <1>1, <1>8 DEF Books, EndInv
<1> QED BY <1>9, <1>10, <1>11, <1>12, <1>13 DEF Books

LEMMA LedgerKept ==
  ASSUME UNCHANGED <<fsCtrl, fsData>>,
         \A S : Fly(S)' = Fly(S) /\ Cd(S)' = Cd(S) /\ Dd(S)' = Dd(S) /\ Rj(S)' = Rj(S)
  PROVE  /\ \A S : Busy(S)' = Busy(S)
         /\ \A T : Act(T)' = Act(T)
         /\ \A r : Live(r)' = Live(r)
BY DEF Busy, Act, Live

\* A function of the manager that returns.
LEMMA Returned ==
  ASSUME TypeInv, NEW op, At(op), op \notin InFlight, op \notin {"ctrlDone", "dataDone", "rejected"},
         UNCHANGED <<pending, chan, fsCtrl, fsData>>, stack' = Rest
  PROVE  /\ \A S : Fly(S)' = Fly(S) /\ Cd(S)' = Cd(S) /\ Dd(S)' = Dd(S) /\ Rj(S)' = Rj(S)
         /\ \A S : Busy(S)' = Busy(S)
         /\ \A T : Act(T)' = Act(T)
         /\ \A r : Live(r)' = Live(r)
         /\ \A ops : Holds(stack, ops) <=> op \in ops \/ Holds(stack', ops)
<1>1. PICK s \in Seq(Suspended) : s = Rest
  BY OfAt
<1>2. /\ \A S : /\ Fly(S) = FlyIn(s, S) /\ Cd(S) = Of(s, {"ctrlDone"}, S)
                /\ Dd(S) = Of(s, {"dataDone"}, S) /\ Rj(S) = Of(s, {"rejected"}, S)
                /\ FlyIn(s, S) \in Nat /\ Of(s, {"ctrlDone"}, S) \in Nat
                /\ Of(s, {"dataDone"}, S) \in Nat /\ Of(s, {"rejected"}, S) \in Nat
      /\ \A ops : Holds(stack, ops) <=> op \in ops \/ Holds(s, ops)
  BY <1>1, Popped
<1>3. \A S : /\ Fly(S)' = FlyIn(s, S) /\ Cd(S)' = Of(s, {"ctrlDone"}, S)
             /\ Dd(S)' = Of(s, {"dataDone"}, S) /\ Rj(S)' = Of(s, {"rejected"}, S)
  BY <1>1, Now
<1>4. \A S : Fly(S)' = Fly(S) /\ Cd(S)' = Cd(S) /\ Dd(S)' = Dd(S) /\ Rj(S)' = Rj(S)
  BY <1>2, <1>3
<1>5. \A ops : Holds(stack, ops) <=> op \in ops \/ Holds(stack', ops)
  BY <1>1, <1>2
<1> QED BY <1>4, <1>5, LedgerKept

\* The other half of execNextFSRequest starts a file transfer when none is under way.
LEMMA BooksStartData ==
  ASSUME TypeInv, Top, Books, StartDataInv, StartData
  PROVE  Books'
<1>1. PICK s \in Seq(Suspended) : s = Rest /\ \A ops, S : Of(s, ops, S) \in Nat
  BY OfAt DEF StartData
<1>2. /\ \A S : /\ Fly(S) = FlyIn(s, S) /\ Cd(S) = Of(s, {"ctrlDone"}, S)
                /\ Dd(S) = Of(s, {"dataDone"}, S) /\ Rj(S) = Of(s, {"rejected"}, S)
                /\ FlyIn(s, S) \in Nat
      /\ \A ops : Holds(stack, ops) <=> "startData" \in ops \/ Holds(s, ops)
  BY <1>1, Popped DEF StartData, InFlight
<1>3. /\ login = "LoggedIn" /\ ~Holds(s, {"startData", "execData", "execAny"})
      /\ Act(Requests) = 0 /\ \A q \in Requests : Act({q}) = 0
  <2>1. Holds(stack, {"startData"}) /\ Holds(stack, {"startData", "execData", "execAny"})
    BY <1>2
  <2>2. login = "LoggedIn" /\ ~Holds(s, {"startData"})
    BY <1>1, <2>1 DEF StartDataInv, StartData, At
  <2>3. ~Holds(s, {"execData", "execAny"})
    BY <1>1 DEF Top, StartData, At, Rest, Holds, AtOnce
  <2>4. ~Holds(s, {"startData", "execData", "execAny"})
    BY <2>2, <2>3 DEF Holds
  <2>5. Act(Requests) = 0
    BY <2>1 DEF Books, DataInv
  <2>6. \A q \in Requests : Act({q}) = 0
    BY <2>5, ActMore DEF Books
  <2> QED BY <2>2, <2>4, <2>5, <2>6
<1>4. UNCHANGED <<pending, chan, fsCtrl, fsData, login, status>>
  BY DEF StartData, managerVars, fsVars
<1>5. CASE fsData = <<>>
  <2>1. At("startData") /\ stack' = Rest
    BY <1>5 DEF StartData
  <2>2. /\ \A S : Fly(S)' = Fly(S) /\ Cd(S)' = Cd(S) /\ Dd(S)' = Dd(S) /\ Rj(S)' = Rj(S)
        /\ \A S : Busy(S)' = Busy(S)
        /\ \A T : Act(T)' = Act(T)
        /\ \A r : Live(r)' = Live(r)
        /\ \A ops : Holds(stack, ops) <=> "startData" \in ops \/ Holds(stack', ops)
    BY <1>4, <2>1, Returned DEF InFlight
  <2>3. KindsInv'
    BY <2>2 DEF Books, KindsInv
  <2>4. LoginInv'
    BY <1>3, <1>4, <2>2 DEF Books, LoginInv
  <2>5. CtrlInv'
    BY <1>4, <2>2 DEF Books, CtrlInv
  <2>6. DataInv'
    BY <1>3, <1>4, <1>5, <2>2 DEF Books, DataInv
  <2>7. EndInv'
    BY <1>4, <2>2 DEF Books, EndInv
  <2> QED BY <2>3, <2>4, <2>5, <2>6, <2>7 DEF Books
<1>6. CASE fsData # <<>>
  <2> DEFINE h == Head(fsData)
  <2>1. h \in Transfers
    BY <1>6, Parts DEF TypeInv
  <2>2. PICK i \in Transfers : i = h
    BY <2>1
  <2>3. /\ i.req \in Requests /\ i = Item(i.req, "run") /\ Kind[i.req] \in {"download", "upload"}
        /\ \A T : (i \in Moving(T) <=> i.req \in T) /\ i \notin Steps(T)
        /\ i \notin Commands /\ i \notin Logins /\ i \in Objects
    BY TransferIs
  <2>4. /\ \A S : /\ Fly(S)' = Fly(S) + Is(i, S) /\ Cd(S)' = Cd(S)
                  /\ Dd(S)' = Dd(S) /\ Rj(S)' = Rj(S)
        /\ \A ops : Holds(stack', ops) <=> "start" \in ops \/ Holds(s, ops)
    <3> DEFINE f == Call("start", i)
    <3>1. f \in Suspended /\ f.op = "start" /\ f.item = i /\ "start" \in InFlight
      BY <2>3, FrameTypes DEF Ops, InFlight
    <3>2. stack' = Push(f, s)
      BY <1>1, <1>6, <2>2 DEF StartData
    <3> HIDE DEF f
    <3> QED BY <1>2, <1>4, <3>1, <3>2, After
  <2>5. \A S : i \notin S => Fly(S)' = Fly(S)
    BY <1>2, <2>4, IsOne
  <2>6. Busy(Commands)' = Busy(Commands) /\ \A j \in Commands : Busy({j})' = Busy({j})
    BY <2>3, <2>4, <2>5 DEF Busy
  <2>7. \A T \in SUBSET Requests : Act(T)' = Act(T) + Is(i, Moving(T))
    <3> TAKE T \in SUBSET Requests
    <3>1. /\ Fly(Moving(T))' = Fly(Moving(T)) + Is(i, Moving(T)) /\ Dd(Moving(T))' = Dd(Moving(T))
          /\ Cd(Steps(T))' = Cd(Steps(T)) /\ Count(fsCtrl', Steps(T)) = Count(fsCtrl, Steps(T))
          /\ Fly(Moving(T)) \in Nat /\ Dd(Moving(T)) \in Nat /\ Is(i, Moving(T)) \in Nat
          /\ Cd(Steps(T)) \in Nat /\ Count(fsCtrl, Steps(T)) \in Nat
      BY <1>4, <2>4, IsOne, LedgerTypes
    <3> QED BY <3>1 DEF Act
  <2>8. \A q \in Requests : Live(q)' = Live(q)
    <3> TAKE q \in Requests
    <3>1. Kind[q] \in {"plain", "empty"} => i # Item(q, "run")
      BY <2>3, Membership
    <3> QED BY <1>4, <2>4, <2>5, <3>1 DEF Live
  <2>9. KindsInv'
    BY <2>4 DEF Books, KindsInv
  <2>10. LoginInv'
    BY <1>2, <1>3, <1>4, <2>3, <2>4, <2>5 DEF Books, LoginInv
  <2>11. CtrlInv'
    BY <1>2, <1>3, <1>4, <2>4, <2>6 DEF Books, CtrlInv
  <2>12. DataInv'
    <3>1. Act(Requests)' = 1
      BY <1>3, <2>3, <2>7, IsOne
    <3>2. \A q \in Requests : q # i.req => Act({q})' = 0
      BY <1>3, <2>3, <2>7, IsOne
    <3> QED BY <1>3, <1>4, <1>6, <2>2, <2>4, <3>1, <3>2 DEF DataInv
  <2>13. EndInv'
    BY <1>4, <2>8 DEF Books, EndInv
  <2> QED BY <2>9, <2>10, <2>11, <2>12, <2>13 DEF Books
<1> QED BY <1>5, <1>6

\* A function of the manager that ends with the start of i, and startData under it or not.
LEMMA Starts ==
  ASSUME TypeInv, NEW op, At(op), op \notin InFlight, op \notin {"ctrlDone", "dataDone", "rejected"},
         UNCHANGED <<pending, chan>>, NEW i \in Objects, NEW t \in {Rest, Push(Do("startData"), Rest)},
         stack' = Push(Call("start", i), t)
  PROVE  /\ \A S : /\ Fly(S)' = Fly(S) + Is(i, S) /\ Cd(S)' = Cd(S) /\ Dd(S)' = Dd(S) /\ Rj(S)' = Rj(S)
                   /\ Fly(S) \in Nat
         /\ t \in Seq(Suspended)
         /\ \A ops : Holds(stack', ops) <=> "start" \in ops \/ Holds(t, ops)
         /\ \A ops : t = Push(Do("startData"), Rest) => (Holds(t, ops) <=> "startData" \in ops \/ Holds(Rest, ops))
<1>1. PICK s \in Seq(Suspended) : s = Rest
  BY OfAt
<1>2. \A S : /\ Fly(S) = FlyIn(s, S) /\ Cd(S) = Of(s, {"ctrlDone"}, S)
             /\ Dd(S) = Of(s, {"dataDone"}, S) /\ Rj(S) = Of(s, {"rejected"}, S)
             /\ FlyIn(s, S) \in Nat
  BY <1>1, Popped
<1>3. Do("startData") \in Suspended /\ Do("startData").op = "startData" /\ "startData" \notin InFlight
  BY DoTypes DEF Ops, InFlight
<1> DEFINE u == Push(Do("startData"), s)
<1>4. /\ u \in Seq(Suspended)
      /\ \A S : /\ FlyIn(u, S) = FlyIn(s, S) /\ Of(u, {"ctrlDone"}, S) = Of(s, {"ctrlDone"}, S)
                /\ Of(u, {"dataDone"}, S) = Of(s, {"dataDone"}, S)
                /\ Of(u, {"rejected"}, S) = Of(s, {"rejected"}, S)
      /\ \A ops : Holds(u, ops) <=> "startData" \in ops \/ Holds(s, ops)
  <2> DEFINE f == Do("startData")
  <2>1. f \in Suspended /\ f.op = "startData" /\ f.op \notin InFlight
    BY <1>3
  <2> HIDE DEF f
  <2>2. /\ Push(f, s) \in Seq(Suspended)
        /\ \A S : FlyIn(Push(f, s), S) = FlyIn(s, S)
        /\ \A op1, S : f.op # op1 => Of(Push(f, s), {op1}, S) = Of(s, {op1}, S)
        /\ \A ops : Holds(Push(f, s), ops) <=> f.op \in ops \/ Holds(s, ops)
    BY <2>1, Called
  <2> QED BY <2>1, <2>2 DEF f
<1> HIDE DEF u
<1>5. t \in {s, u}
  BY <1>1 DEF u
<1>6. /\ t \in Seq(Suspended)
      /\ \A S : /\ Fly(S) = FlyIn(t, S) /\ Cd(S) = Of(t, {"ctrlDone"}, S)
                /\ Dd(S) = Of(t, {"dataDone"}, S) /\ Rj(S) = Of(t, {"rejected"}, S)
                /\ FlyIn(t, S) \in Nat
  BY <1>2, <1>4, <1>5
<1>7. /\ \A S : /\ Fly(S)' = FlyIn(t, S) + Is(i, S) /\ Cd(S)' = Of(t, {"ctrlDone"}, S)
                /\ Dd(S)' = Of(t, {"dataDone"}, S) /\ Rj(S)' = Of(t, {"rejected"}, S)
      /\ \A ops : Holds(stack', ops) <=> "start" \in ops \/ Holds(t, ops)
  <2> DEFINE f == Call("start", i)
  <2>1. f \in Suspended /\ f.op = "start" /\ f.item = i /\ "start" \in InFlight
    BY FrameTypes DEF Ops, InFlight
  <2>2. stack' = Push(f, t)
    OBVIOUS
  <2> HIDE DEF f
  <2> QED BY <1>6, <2>1, <2>2, After
<1> QED BY <1>1, <1>4, <1>6, <1>7 DEF u

\* The manager's own requests.
LEMMA OwnIs ==
  ASSUME NEW i \in Objects, i.req = Manager
  PROVE  /\ i \notin Commands /\ i \notin Transfers
         /\ \A T \in SUBSET Requests : i \notin Moving(T) /\ i \notin Steps(T)
         /\ \A r \in Requests : i # Item(r, "run")
         /\ i \in Logins <=> i.step = "login"
<1>1. Manager \notin Requests /\ i.step \in OwnSteps /\ i = Own(i.step)
  BY ManagerAssumption, ObjectIs DEF ManagerAssumption, Manager, Own, Item
<1>2. i \notin Commands /\ i \notin Transfers
  BY <1>1 DEF Commands, Transfers, IsCommand, IsTransfer, IsUser, OwnSteps
<1>3. \A T \in SUBSET Requests : i \notin Moving(T) /\ i \notin Steps(T)
  BY <1>1 DEF Moving, Steps
<1>4. \A r \in Requests : i # Item(r, "run")
  <2>1. \A r \in Requests : Item(r, "run").req = r
    BY ItemTypes
  <2> QED BY <1>1, <2>1
<1>5. i \in Logins <=> i.step = "login"
  BY <1>1, ItemTypes DEF Logins, OwnSteps
<1> QED BY <1>2, <1>3, <1>4, <1>5

\* A step that counts only one of them.
LEMMA OwnMoves ==
  ASSUME NEW i \in Objects, i.req = Manager, UNCHANGED <<fsCtrl, fsData>>,
         \A S : /\ i \notin S => Fly(S)' = Fly(S)
                /\ Cd(S)' = Cd(S) /\ Dd(S)' = Dd(S) /\ Rj(S)' = Rj(S)
  PROVE  /\ Busy(Commands)' = Busy(Commands)
         /\ \A j \in Commands : Busy({j})' = Busy({j})
         /\ \A T \in SUBSET Requests : Act(T)' = Act(T)
         /\ \A r \in Requests : Live(r)' = Live(r)
         /\ i.step # "login" => Fly(Logins)' = Fly(Logins)
<1>1. /\ i \notin Commands /\ \A j \in Commands : i \notin {j}
      /\ \A T \in SUBSET Requests : i \notin Moving(T)
      /\ \A r \in Requests : i \notin {Item(r, "run")}
      /\ i.step # "login" => i \notin Logins
  BY OwnIs
<1>2. Busy(Commands)' = Busy(Commands)
  BY <1>1 DEF Busy
<1>3. \A j \in Commands : Busy({j})' = Busy({j})
  BY <1>1 DEF Busy
<1>4. \A T \in SUBSET Requests : Act(T)' = Act(T)
  BY <1>1 DEF Act
<1>5. \A r \in Requests : Live(r)' = Live(r)
  BY <1>1 DEF Live
<1> QED BY <1>1, <1>2, <1>3, <1>4, <1>5

\* execNextFSRequest.
LEMMA BooksExec ==
  ASSUME TypeInv, Top, Books, ExecNextFSRequest
  PROVE  Books'
<1>1. PICK op \in {"execCtrl", "execData", "execAny"}, type \in {{"ctrl"}, {"data"}, {"ctrl", "data"}} :
        /\ At(op) /\ ExecFS(type)
        /\ "ctrl" \in type <=> op \in {"execCtrl", "execAny"}
        /\ "data" \in type <=> op \in {"execData", "execAny"}
  BY DEF ExecNextFSRequest
<1>2. op \notin InFlight /\ op \notin {"ctrlDone", "dataDone", "rejected"} /\ op \in AtOnce
  BY DEF InFlight, AtOnce
<1>3. /\ Rest \in Seq(Suspended)
      /\ \A ops : Holds(stack, ops) <=> op \in ops \/ Holds(Rest, ops)
      /\ \A ops \in SUBSET AtOnce : ~Holds(Rest, ops)
  <2>1. ~Holds(Rest, AtOnce)
    BY <1>1 DEF Top, At, Rest
  <2>2. \A ops \in SUBSET AtOnce : ~Holds(Rest, ops)
    BY <2>1 DEF Holds
  <2> QED BY <1>1, <2>2, OfAt
<1>4. /\ ~Holds(Rest, {"execAny"}) /\ ~Holds(Rest, {"execCtrl", "execData"}) /\ ~Holds(Rest, {"execCtrl", "execAny"})
      /\ ~Holds(Rest, {"execCtrl", "execData", "execAny"})
  BY <1>3 DEF AtOnce
<1>5. UNCHANGED <<pending, chan, fsCtrl, fsData, status>>
  BY <1>1 DEF ExecFS
<1>6. CASE fsCtrl = <<>> /\ fsData = <<>>
  <2>1. PICK i \in Objects : i = Own("quit") /\ i.req = Manager /\ i.step = "quit"
    BY ItemTypes DEF OwnSteps
  <2>2. /\ login' = "NotLoggedIn" /\ stack' = Push(Call("start", i), Rest)
    BY <1>1, <1>3, <1>6, <2>1, ExecLeaves
  <2>3. /\ \A S : /\ Fly(S)' = Fly(S) + Is(i, S) /\ Cd(S)' = Cd(S) /\ Dd(S)' = Dd(S) /\ Rj(S)' = Rj(S)
                  /\ Fly(S) \in Nat
        /\ \A ops : Holds(stack', ops) <=> "start" \in ops \/ Holds(Rest, ops)
    BY <1>1, <1>2, <1>5, <2>2, Starts
  <2>4. \A S : i \notin S => Fly(S)' = Fly(S)
    BY <2>3, IsOne
  <2>5. /\ Busy(Commands)' = Busy(Commands)
        /\ \A j \in Commands : Busy({j})' = Busy({j})
        /\ \A T \in SUBSET Requests : Act(T)' = Act(T)
        /\ \A r \in Requests : Live(r)' = Live(r)
        /\ i.step # "login" => Fly(Logins)' = Fly(Logins)
    BY <1>5, <2>1, <2>3, <2>4, OwnMoves
  <2>6. login = "LoggedIn" /\ Fly(Logins) = 0 /\ Busy(Commands) = 0 /\ Act(Requests) = 0
    <3>1. Holds(stack, {"execCtrl", "execData"}) \/ Holds(stack, {"execAny"})
      BY <1>3
    <3> QED BY <1>6, <3>1 DEF Books, LoginInv, CtrlInv, DataInv
  <2>8. KindsInv'
    BY <2>3 DEF Books, KindsInv
  <2>9. LoginInv'
    BY <1>3, <1>4, <2>1, <2>2, <2>3, <2>5, <2>6 DEF Books, LoginInv
  <2>10. CtrlInv'
    BY <1>3, <1>4, <1>5, <1>6, <2>2, <2>3, <2>5, <2>6 DEF Books, CtrlInv
  <2>11. DataInv'
    BY <1>3, <1>4, <1>5, <1>6, <2>2, <2>3, <2>5, <2>6 DEF Books, DataInv
  <2>12. EndInv'
    BY <1>5, <2>5 DEF Books, EndInv
  <2> QED BY <2>8, <2>9, <2>10, <2>11, <2>12 DEF Books
<1>7. CASE (fsCtrl # <<>> \/ fsData # <<>>) /\ login = "LoggingIn"
  <2>1. stack' = Rest /\ login' = login
    BY <1>1, <1>3, <1>7, ExecLeaves
  <2>2. /\ \A S : Fly(S)' = Fly(S) /\ Cd(S)' = Cd(S) /\ Dd(S)' = Dd(S) /\ Rj(S)' = Rj(S)
        /\ \A S : Busy(S)' = Busy(S)
        /\ \A T : Act(T)' = Act(T)
        /\ \A r : Live(r)' = Live(r)
    BY <1>1, <1>2, <1>5, <2>1, Returned
  <2>3. KindsInv'
    BY <2>2 DEF Books, KindsInv
  <2>4. LoginInv'
    BY <1>3, <1>4, <1>5, <1>7, <2>1, <2>2 DEF Books, LoginInv
  <2>5. CtrlInv'
    BY <1>3, <1>4, <1>5, <1>7, <2>1, <2>2 DEF Books, CtrlInv
  <2>6. DataInv'
    BY <1>3, <1>4, <1>5, <1>7, <2>1, <2>2 DEF Books, DataInv
  <2>7. EndInv'
    BY <1>5, <2>2 DEF Books, EndInv
  <2> QED BY <2>3, <2>4, <2>5, <2>6, <2>7 DEF Books
<1>8. CASE (fsCtrl # <<>> \/ fsData # <<>>) /\ login = "NotLoggedIn"
  <2>1. PICK i \in Objects : i = Own("login") /\ i.req = Manager /\ i.step = "login"
    BY ItemTypes DEF OwnSteps
  <2>2. /\ login' = "LoggingIn" /\ stack' = Push(Call("start", i), Rest)
    BY <1>1, <1>3, <1>8, <2>1, ExecLeaves
  <2>3. /\ \A S : /\ Fly(S)' = Fly(S) + Is(i, S) /\ Cd(S)' = Cd(S) /\ Dd(S)' = Dd(S) /\ Rj(S)' = Rj(S)
                  /\ Fly(S) \in Nat
        /\ \A ops : Holds(stack', ops) <=> "start" \in ops \/ Holds(Rest, ops)
    BY <1>1, <1>2, <1>5, <2>2, Starts
  <2>4. \A S : i \notin S => Fly(S)' = Fly(S)
    BY <2>3, IsOne
  <2>5. /\ Busy(Commands)' = Busy(Commands)
        /\ \A j \in Commands : Busy({j})' = Busy({j})
        /\ \A T \in SUBSET Requests : Act(T)' = Act(T)
        /\ \A r \in Requests : Live(r)' = Live(r)
        /\ i.step # "login" => Fly(Logins)' = Fly(Logins)
    BY <1>5, <2>1, <2>3, <2>4, OwnMoves
  <2>6. /\ Fly(Logins) = 0 /\ Busy(Commands) = 0 /\ Act(Requests) = 0 /\ Fly(Logins)' = 1
    <3>1. i \in Logins
      BY <2>1, OwnIs
    <3> QED BY <1>8, <2>3, <3>1, IsOne DEF Books, LoginInv, CtrlInv, DataInv
  <2>8. KindsInv'
    BY <2>3 DEF Books, KindsInv
  <2>9. LoginInv'
    BY <1>3, <1>4, <2>1, <2>2, <2>3, <2>5, <2>6 DEF Books, LoginInv
  <2>10. CtrlInv'
    BY <1>3, <1>4, <1>5, <2>2, <2>3, <2>5, <2>6 DEF Books, CtrlInv
  <2>11. DataInv'
    BY <1>3, <1>4, <1>5, <2>2, <2>3, <2>5, <2>6 DEF Books, DataInv
  <2>12. EndInv'
    BY <1>5, <2>5 DEF Books, EndInv
  <2> QED BY <2>8, <2>9, <2>10, <2>11, <2>12 DEF Books
<1>9. CASE (fsCtrl # <<>> \/ fsData # <<>>) /\ login = "LoggedIn"
  <2> DEFINE c == "ctrl" \in type /\ fsCtrl # <<>>
             d == "data" \in type
  <2>1. /\ login' = login
        /\ \/ c /\ ~d /\ stack' = Push(Call("start", Head(fsCtrl)), Rest)
           \/ c /\ d /\ stack' = Push(Call("start", Head(fsCtrl)), Push(Do("startData"), Rest))
           \/ ~c /\ d /\ stack' = Push(Do("startData"), Rest)
           \/ ~c /\ ~d /\ stack' = Rest
    BY <1>1, <1>3, <1>9, ExecLeaves
  <2>2. /\ c => Busy(Commands) = 0 /\ \A j \in Commands : Busy({j}) = 0
        /\ d => Act(Requests) = 0
        /\ ~MayReplace /\ ~c /\ fsCtrl # <<>> => Busy(Commands) = 1
    <3>1. op \in {"execCtrl", "execAny"} <=> Holds(stack, {"execCtrl", "execAny"})
      BY <1>3, <1>4
    <3>2. op \in {"execData", "execAny"} => Holds(stack, {"startData", "execData", "execAny"})
      BY <1>3
    <3>3. c => Busy(Commands) = 0
      BY <1>1, <3>1 DEF Books, CtrlInv
    <3>4. c => \A j \in Commands : Busy({j}) = 0
      <4> SUFFICES ASSUME c, NEW j \in Commands PROVE Busy({j}) = 0
        OBVIOUS
      <4>1. Fly({j}) \in Nat /\ Cd({j}) \in Nat
        BY LedgerTypes
      <4>2. Busy({j}) \in Nat
        BY <4>1 DEF Busy
      <4>3. Holds(stack, {"execCtrl", "execAny"})
        BY <1>1, <3>1
      <4>4. ~(Busy({j}) > 0)
        BY <4>3, CtrlHead DEF Books
      <4> QED BY <4>2, <4>4
    <3>5. d => Act(Requests) = 0
      BY <1>1, <3>2 DEF Books, DataInv
    <3>6. ~MayReplace /\ ~c /\ fsCtrl # <<>> => Busy(Commands) = 1
      BY <1>1, <1>9, <3>1 DEF Books, CtrlInv
    <3> QED BY <3>3, <3>4, <3>5, <3>6
  <2>3. CASE c
    <3>1. Head(fsCtrl) \in Commands
      BY <2>3, Parts DEF TypeInv
    <3>2. PICK i \in Commands, t \in {Rest, Push(Do("startData"), Rest)} :
            /\ i = Head(fsCtrl) /\ stack' = Push(Call("start", i), t)
            /\ t = IF d THEN Push(Do("startData"), Rest) ELSE Rest
      BY <2>1, <2>3, <3>1
    <3>3. i \in Objects /\ i \notin Logins /\ (\A T : i \notin Moving(T))
          /\ \A q \in Requests : Kind[q] \in {"plain", "empty"} => i # Item(q, "run")
      <4>1. \A q \in Requests : Kind[q] \in {"plain", "empty"} => i # Item(q, "run")
        BY Membership
      <4> QED BY <4>1, CommandIs
    <3>4. /\ \A S : /\ Fly(S)' = Fly(S) + Is(i, S) /\ Cd(S)' = Cd(S) /\ Dd(S)' = Dd(S) /\ Rj(S)' = Rj(S)
                    /\ Fly(S) \in Nat
          /\ \A ops : Holds(stack', ops) <=> "start" \in ops \/ Holds(t, ops)
      BY <1>1, <1>2, <1>5, <3>2, <3>3, Starts
    <3>5. \A ops : Holds(t, ops) <=> Holds(Rest, ops) \/ (d /\ "startData" \in ops)
      <4>1. \A ops : t = Push(Do("startData"), Rest) => (Holds(t, ops) <=> "startData" \in ops \/ Holds(Rest, ops))
        BY <1>1, <1>2, <1>5, <3>2, <3>3, Starts
      <4> QED BY <3>2, <4>1
    <3>6. \A S : i \notin S => Fly(S)' = Fly(S)
      BY <3>4, IsOne
    <3>7. \A S : Busy(S)' = Busy(S) + Is(i, S)
      <4> TAKE S
      <4>1. Fly(S)' = Fly(S) + Is(i, S) /\ Cd(S)' = Cd(S) /\ Fly(S) \in Nat /\ Cd(S) \in Nat /\ Is(i, S) \in Nat
        BY <3>4, LedgerTypes, IsOne
      <4> QED BY <4>1 DEF Busy
    <3>8. \A T : Act(T)' = Act(T)
      BY <1>5, <3>3, <3>4, <3>6 DEF Act
    <3>9. \A q \in Requests : Live(q)' = Live(q)
      BY <1>5, <3>3, <3>4, <3>6 DEF Live
    <3>10. KindsInv'
      BY <3>4 DEF Books, KindsInv
    <3>11. LoginInv'
      BY <1>3, <1>4, <1>9, <2>1, <3>3, <3>4, <3>5, <3>6 DEF Books, LoginInv
    <3>12. CtrlInv'
      <4>1. Busy(Commands)' = 1
        BY <2>2, <2>3, <3>7, IsOne
      <4>2. \A j \in Commands : j # i => Busy({j})' = 0
        BY <2>2, <2>3, <3>7, IsOne
      <4>3. ~Holds(stack', {"execCtrl", "execAny"})
        BY <1>4, <3>4, <3>5
      <4> QED BY <1>5, <1>9, <2>1, <2>3, <3>2, <4>1, <4>2, <4>3 DEF CtrlInv
    <3>13. DataInv'
      <4>1. Holds(stack', {"startData", "execData", "execAny"}) =>
              Holds(stack, {"startData", "execData", "execAny"}) \/ d
        BY <1>3, <3>4, <3>5
      <4>2. Holds(stack, {"startData", "execData", "execAny"}) \/ d => Holds(stack', {"startData", "execData", "execAny"})
        BY <1>1, <1>3, <3>4, <3>5
      <4> QED BY <1>5, <1>9, <2>1, <2>2, <3>8, <4>1, <4>2 DEF Books, DataInv
    <3>14. EndInv'
      BY <1>5, <3>9 DEF Books, EndInv
    <3> QED BY <3>10, <3>11, <3>12, <3>13, <3>14 DEF Books
  <2>4. CASE ~c /\ d
    <3>1. PICK s \in Seq(Suspended) : s = Rest
      BY <1>3
    <3>2. /\ \A S : /\ Fly(S) = FlyIn(s, S) /\ Cd(S) = Of(s, {"ctrlDone"}, S)
                    /\ Dd(S) = Of(s, {"dataDone"}, S) /\ Rj(S) = Of(s, {"rejected"}, S)
      BY <1>1, <1>2, <3>1, Popped
    <3>3. /\ \A S : Fly(S)' = Fly(S) /\ Cd(S)' = Cd(S) /\ Dd(S)' = Dd(S) /\ Rj(S)' = Rj(S)
          /\ \A ops : Holds(stack', ops) <=> "startData" \in ops \/ Holds(s, ops)
      <4> DEFINE f == Do("startData")
      <4>1. f \in Suspended /\ f.op = "startData" /\ f.op \notin InFlight
        BY DoTypes DEF Ops, InFlight
      <4>2. stack' = Push(f, s)
        BY <2>1, <2>4, <3>1
      <4> HIDE DEF f
      <4> QED BY <1>5, <3>2, <4>1, <4>2, After
    <3>4. /\ \A S : Busy(S)' = Busy(S)
          /\ \A T : Act(T)' = Act(T)
          /\ \A r : Live(r)' = Live(r)
      BY <1>5, <3>3, LedgerKept
    <3>5. KindsInv'
      BY <3>3 DEF Books, KindsInv
    <3>6. LoginInv'
      BY <1>3, <1>4, <1>9, <2>1, <3>1, <3>3 DEF Books, LoginInv
    <3>7. CtrlInv'
      BY <1>3, <1>4, <1>5, <1>9, <2>1, <2>2, <2>4, <3>1, <3>3, <3>4 DEF Books, CtrlInv
    <3>8. DataInv'
      BY <1>5, <1>9, <2>1, <2>2, <2>4, <3>3, <3>4 DEF Books, DataInv
    <3>9. EndInv'
      BY <1>5, <3>4 DEF Books, EndInv
    <3> QED BY <3>5, <3>6, <3>7, <3>8, <3>9 DEF Books
  <2>5. CASE ~c /\ ~d
    <3>1. stack' = Rest
      BY <2>1, <2>5
    <3>2. /\ \A S : Fly(S)' = Fly(S) /\ Cd(S)' = Cd(S) /\ Dd(S)' = Dd(S) /\ Rj(S)' = Rj(S)
          /\ \A S : Busy(S)' = Busy(S)
          /\ \A T : Act(T)' = Act(T)
          /\ \A r : Live(r)' = Live(r)
      BY <1>1, <1>2, <1>5, <3>1, Returned
    <3>3. KindsInv'
      BY <3>2 DEF Books, KindsInv
    <3>4. LoginInv'
      BY <1>3, <1>4, <1>9, <2>1, <3>1, <3>2 DEF Books, LoginInv
    <3>5. CtrlInv'
      BY <1>3, <1>4, <1>5, <1>9, <2>1, <2>2, <2>5, <3>1, <3>2 DEF Books, CtrlInv
    <3>6. DataInv'
      BY <1>1, <1>3, <1>5, <1>9, <2>1, <2>5, <3>1, <3>2 DEF Books, DataInv
    <3>7. EndInv'
      BY <1>5, <3>2 DEF Books, EndInv
    <3> QED BY <3>3, <3>4, <3>5, <3>6, <3>7 DEF Books
  <2> QED BY <2>3, <2>4, <2>5
<1> QED BY <1>6, <1>7, <1>8, <1>9 DEF TypeInv

-----------------------------------------------------------------------------
LEMMA Appended ==
  ASSUME NEW T, NEW q \in Seq(T), NEW x \in T
  PROVE  /\ Append(q, x) # <<>> /\ Append(q, x) \in Seq(T)
         /\ q = <<>> => Head(Append(q, x)) = x
         /\ q # <<>> => Head(Append(q, x)) = Head(q)
         /\ \A S : Count(Append(q, x), S) = Count(q, S) + Is(x, S)
         /\ \A S : Count(q, S) \in Nat
<1>1. /\ Append(q, x) # <<>> /\ Append(q, x) \in Seq(T)
      /\ q = <<>> => Head(Append(q, x)) = x
      /\ q # <<>> => Head(Append(q, x)) = Head(q)
  OBVIOUS
<1>2. \A S : Count(Append(q, x), S) = Count(q, S) + (IF x \in S THEN 1 ELSE 0)
  BY CountAppend
<1>3. \A S : Count(q, S) \in Nat
  BY SpotsFinite
<1> QED BY <1>1, <1>2, <1>3 DEF Is

\* The queue of commands, one longer.
LEMMA CtrlGrows ==
  ASSUME TypeInv, NEW k \in Commands, fsCtrl' = Append(fsCtrl, k)
  PROVE  /\ fsCtrl' # <<>> /\ (fsCtrl = <<>> => Head(fsCtrl') = k)
         /\ fsCtrl # <<>> => Head(fsCtrl') = Head(fsCtrl)
         /\ \A S : Count(fsCtrl', S) = Count(fsCtrl, S) + Is(k, S)
         /\ \A S : Count(fsCtrl, S) \in Nat
<1>1. PICK q \in Seq(Commands) : q = fsCtrl
  BY DEF TypeInv
<1> QED BY <1>1, Appended

\* addFSCtrlRequest and addFSDataRequest, called over s.
LEMMA Adding ==
  ASSUME TypeInv, UNCHANGED <<pending, chan>>, NEW s \in Seq(Suspended), NEW op \in {"execCtrl", "execData"},
         NEW empty \in BOOLEAN, stack' = IF empty THEN Push(Do(op), s) ELSE s
  PROVE  /\ \A S : /\ Fly(S)' = FlyIn(s, S) /\ Cd(S)' = Of(s, {"ctrlDone"}, S)
                   /\ Dd(S)' = Of(s, {"dataDone"}, S) /\ Rj(S)' = Of(s, {"rejected"}, S)
         /\ \A ops : Holds(stack', ops) <=> (empty /\ op \in ops) \/ Holds(s, ops)
<1>1. CASE empty
  <2> DEFINE f == Do(op)
  <2>1. f \in Suspended /\ f.op = op /\ op \notin InFlight /\ op \notin {"ctrlDone", "dataDone", "rejected"}
    BY DoTypes DEF Ops, InFlight
  <2>2. stack' = Push(f, s)
    BY <1>1
  <2> HIDE DEF f
  <2> QED BY <1>1, <2>1, <2>2, After
<1>2. CASE ~empty
  <2>1. stack' = s
    BY <1>2
  <2> QED BY <1>2, <2>1, Now
<1> QED BY <1>1, <1>2

LEMMA AllHere ==
  \A S : /\ Fly(S) = FlyIn(stack, S) /\ Cd(S) = Of(stack, {"ctrlDone"}, S)
         /\ Dd(S) = Of(stack, {"dataDone"}, S) /\ Rj(S) = Of(stack, {"rejected"}, S)
BY DEF Fly, FlyIn, Cd, Dd, Rj

\* Without a queue nothing of it is under way.
LEMMA NoHead ==
  ASSUME TypeInv, CtrlInv
  PROVE  /\ \A j \in Commands : Busy({j}) \in Nat /\ Busy({j}) <= Busy(Commands)
         /\ Busy(Commands) = 0 => \A j \in Commands : Busy({j}) = 0
<1>1. ASSUME NEW j \in Commands
      PROVE Busy({j}) \in Nat /\ Busy({j}) <= Busy(Commands) /\ Busy(Commands) \in Nat
  <2>1. /\ Fly({j}) \in Nat /\ Cd({j}) \in Nat /\ Fly(Commands) \in Nat /\ Cd(Commands) \in Nat
        /\ Fly({j}) <= Fly(Commands) /\ Cd({j}) <= Cd(Commands)
    BY FlyMore, LedgerTypes
  <2> QED BY <2>1 DEF Busy
<1> QED BY <1>1

\* exec of a command.
LEMMA BooksExecCtrl ==
  ASSUME TypeInv, Books, NEW r \in Requests, AppExec(r), Kind[r] = "ctrl"
  PROVE  Books'
<1> DEFINE i == Item(r, "run")
<1>1. /\ i \in Objects /\ i \in Commands /\ i \notin Transfers
      /\ \A T : i \notin Steps(T)
      /\ \A q \in Requests : Item(q, "run") = i <=> q = r
  BY Membership
<1>2. /\ AddCtrl(i, stack) /\ UNCHANGED <<pending, chan, fsData, login>>
      /\ status' = [status EXCEPT ![r] = "waiting"] /\ status[r] = "new"
  BY DEF AppExec
<1> HIDE DEF i
<1>3. PICK s \in Seq(Suspended), empty \in BOOLEAN : s = stack /\ empty = (fsCtrl = <<>>)
  BY DEF TypeInv
<1>4. stack' = IF empty THEN Push(Do("execCtrl"), s) ELSE s
  BY <1>2, <1>3 DEF AddCtrl
<1>5. /\ \A S : Fly(S)' = Fly(S) /\ Cd(S)' = Cd(S) /\ Dd(S)' = Dd(S) /\ Rj(S)' = Rj(S)
      /\ \A ops : Holds(stack', ops) <=> (empty /\ "execCtrl" \in ops) \/ Holds(s, ops)
  <2>1. /\ \A S : /\ Fly(S)' = FlyIn(s, S) /\ Cd(S)' = Of(s, {"ctrlDone"}, S)
                  /\ Dd(S)' = Of(s, {"dataDone"}, S) /\ Rj(S)' = Of(s, {"rejected"}, S)
        /\ \A ops : Holds(stack', ops) <=> (empty /\ "execCtrl" \in ops) \/ Holds(s, ops)
    BY <1>2, <1>4, Adding
  <2> QED BY <1>3, <2>1, AllHere
<1>6. /\ fsCtrl' # <<>> /\ (empty => Head(fsCtrl') = i) /\ (~empty => fsCtrl # <<>> /\ Head(fsCtrl') = Head(fsCtrl))
      /\ \A S : Count(fsCtrl', S) = Count(fsCtrl, S) + Is(i, S)
      /\ \A S : Count(fsCtrl, S) \in Nat
  BY <1>1, <1>2, <1>3, CtrlGrows DEF AddCtrl
<1>7. \A S : Busy(S)' = Busy(S)
  BY <1>5 DEF Busy
<1>8. \A T : Act(T)' = Act(T)
  <2> TAKE T
  <2>1. Count(fsCtrl', Steps(T)) = Count(fsCtrl, Steps(T))
    BY <1>1, <1>6, IsOne
  <2> QED BY <1>5, <2>1 DEF Act
<1>9. \A q \in Requests : q # r => Live(q)' = Live(q)
  <2> TAKE q \in Requests
  <2>1. q # r => Count(fsCtrl', {Item(q, "run")}) = Count(fsCtrl, {Item(q, "run")})
    BY <1>1, <1>6, IsOne
  <2> QED BY <1>2, <1>5, <2>1 DEF Live
<1>10. Live(r)' = Live(r) + 1 /\ Live(r) \in Int
  <2>1. Count(fsCtrl', {i}) = Count(fsCtrl, {i}) + 1 /\ Count(fsCtrl, {i}) \in Nat
    BY <1>6, IsOne
  <2>2. Live(r)' = (Count(fsCtrl', {i}) - Cd({i})) + Rj({i}) /\ Live(r) = (Count(fsCtrl, {i}) - Cd({i})) + Rj({i})
    BY <1>5 DEF Live, i
  <2> QED BY <2>1, <2>2, LedgerTypes
<1>11. KindsInv'
  BY <1>5 DEF Books, KindsInv
<1>12. LoginInv'
  BY <1>2, <1>3, <1>5, <1>6 DEF Books, LoginInv
<1>13. CtrlInv'
  <2>1. empty => Busy(Commands) = 0
    BY <1>3 DEF Books, CtrlInv
  <2>2. empty => \A j \in Commands : Busy({j}) = 0
    BY <2>1, NoHead DEF Books
  <2> QED BY <1>2, <1>3, <1>5, <1>6, <1>7, <2>1, <2>2 DEF Books, CtrlInv
<1>14. DataInv'
  BY <1>2, <1>3, <1>5, <1>8 DEF Books, DataInv
<1>15. EndInv'
  <2>1. status'[r] = "waiting" /\ \A q \in Requests : q # r => status'[q] = status[q]
    BY <1>2 DEF TypeInv
  <2>2. Live(r) <= 0
    BY <1>2 DEF Books, EndInv
  <2>3. Live(r)' <= 1
    BY <1>10, <2>2
  <2> QED BY <1>9, <2>1, <2>3 DEF Books, EndInv
<1> QED BY <1>11, <1>12, <1>13, <1>14, <1>15 DEF Books

\* exec of a file transfer.
LEMMA BooksExecData ==
  ASSUME TypeInv, Books, NEW r \in Requests, AppExec(r), Kind[r] \in {"download", "upload"}
  PROVE  Books'
<1> DEFINE i == Item(r, "run")
<1>1. /\ i \in Objects /\ i \notin Commands /\ i \in Transfers
      /\ \A q \in Requests : Item(q, "run") = i <=> q = r
  BY Membership
<1>2. /\ AddData(i, stack) /\ UNCHANGED <<pending, chan, fsCtrl, login>>
      /\ status' = [status EXCEPT ![r] = "waiting"] /\ status[r] = "new"
  BY DEF AppExec
<1> HIDE DEF i
<1>3. PICK s \in Seq(Suspended), empty \in BOOLEAN : s = stack /\ empty = (fsData = <<>>)
  BY DEF TypeInv
<1>4. stack' = IF empty THEN Push(Do("execData"), s) ELSE s
  BY <1>2, <1>3 DEF AddData
<1>5. /\ \A S : Fly(S)' = Fly(S) /\ Cd(S)' = Cd(S) /\ Dd(S)' = Dd(S) /\ Rj(S)' = Rj(S)
      /\ \A ops : Holds(stack', ops) <=> (empty /\ "execData" \in ops) \/ Holds(s, ops)
  <2>1. /\ \A S : /\ Fly(S)' = FlyIn(s, S) /\ Cd(S)' = Of(s, {"ctrlDone"}, S)
                  /\ Dd(S)' = Of(s, {"dataDone"}, S) /\ Rj(S)' = Of(s, {"rejected"}, S)
        /\ \A ops : Holds(stack', ops) <=> (empty /\ "execData" \in ops) \/ Holds(s, ops)
    BY <1>2, <1>4, Adding
  <2> QED BY <1>3, <2>1, AllHere
<1>6. /\ fsData' # <<>> /\ (empty => Head(fsData') = i) /\ (~empty => fsData # <<>> /\ Head(fsData') = Head(fsData))
      /\ \A S : Count(fsData', S) = Count(fsData, S) + Is(i, S)
      /\ \A S : Count(fsData, S) \in Nat
  <2>1. PICK q \in Seq(Transfers) : q = fsData /\ fsData' = Append(q, i)
    BY <1>2 DEF AddData, TypeInv
  <2>2. /\ Append(q, i) # <<>> /\ (q = <<>> => Head(Append(q, i)) = i)
        /\ (q # <<>> => Head(Append(q, i)) = Head(q))
        /\ \A S : Count(Append(q, i), S) = Count(q, S) + Is(i, S)
        /\ \A S : Count(q, S) \in Nat
    BY <1>1, Appended
  <2> QED BY <1>3, <2>1, <2>2
<1>7. \A S : Busy(S)' = Busy(S)
  BY <1>5 DEF Busy
<1>8. \A T : Act(T)' = Act(T)
  BY <1>2, <1>5 DEF Act
<1>9. \A q \in Requests : q # r => Live(q)' = Live(q)
  <2> TAKE q \in Requests
  <2>1. q # r => Count(fsData', {Item(q, "run")}) = Count(fsData, {Item(q, "run")})
    BY <1>1, <1>6, IsOne
  <2> QED BY <1>2, <1>5, <2>1 DEF Live
<1>10. Live(r)' = Live(r) + 1 /\ Live(r) \in Int
  <2>1. Count(fsData', {i}) = Count(fsData, {i}) + 1 /\ Count(fsData, {i}) \in Nat
    BY <1>6, IsOne
  <2>2. Live(r)' = (Count(fsData', {i}) - Dd({i})) + Rj({i}) /\ Live(r) = (Count(fsData, {i}) - Dd({i})) + Rj({i})
    BY <1>5 DEF Live, i
  <2> QED BY <2>1, <2>2, LedgerTypes
<1>11. KindsInv'
  BY <1>5 DEF Books, KindsInv
<1>12. LoginInv'
  BY <1>2, <1>3, <1>5, <1>6 DEF Books, LoginInv
<1>13. CtrlInv'
  BY <1>2, <1>3, <1>5, <1>7 DEF Books, CtrlInv
<1>14. DataInv'
  <2>1. empty => Act(Requests) = 0
    BY <1>3 DEF Books, DataInv
  <2>2. empty => \A q \in Requests : Act({q}) = 0
    BY <2>1, ActMore DEF Books
  <2> QED BY <1>2, <1>3, <1>5, <1>6, <1>8, <2>1, <2>2 DEF Books, DataInv
<1>15. EndInv'
  <2>1. status'[r] = "waiting" /\ \A q \in Requests : q # r => status'[q] = status[q]
    BY <1>2 DEF TypeInv
  <2>2. Live(r) <= 0
    BY <1>2 DEF Books, EndInv
  <2>3. Live(r)' <= 1
    BY <1>10, <2>2
  <2> QED BY <1>9, <2>1, <2>3 DEF Books, EndInv
<1> QED BY <1>11, <1>12, <1>13, <1>14, <1>15 DEF Books

\* exec of what is no request to the file system.
LEMMA BooksExecPlain ==
  ASSUME TypeInv, Books, NEW r \in Requests, AppExec(r), Kind[r] \in {"plain", "empty"}
  PROVE  Books'
<1> DEFINE i == Item(r, "run")
<1>1. /\ i \in Objects /\ i \notin Commands /\ i \notin Logins
      /\ \A T : i \notin Moving(T)
      /\ \A q \in Requests : Item(q, "run") = i <=> q = r
  BY Membership
<1>2. /\ stack' = Push(Call("start", i), stack) /\ UNCHANGED <<pending, chan, fsCtrl, fsData, login>>
      /\ status' = [status EXCEPT ![r] = "waiting"] /\ status[r] = "new"
  BY DEF AppExec
<1> HIDE DEF i
<1>3. PICK s \in Seq(Suspended) : s = stack
  BY DEF TypeInv
<1>4. /\ \A S : Fly(S)' = Fly(S) + Is(i, S) /\ Cd(S)' = Cd(S) /\ Dd(S)' = Dd(S) /\ Rj(S)' = Rj(S)
      /\ \A ops : Holds(stack', ops) <=> "start" \in ops \/ Holds(stack, ops)
      /\ \A S : Fly(S) \in Nat
  <2> DEFINE f == Call("start", i)
  <2>1. f \in Suspended /\ f.op = "start" /\ f.item = i /\ "start" \in InFlight
    BY <1>1, FrameTypes DEF Ops, InFlight
  <2>2. stack' = Push(f, s)
    BY <1>2, <1>3
  <2> HIDE DEF f
  <2>3. /\ \A S : Fly(S)' = FlyIn(s, S) + Is(i, S) /\ Cd(S)' = Of(s, {"ctrlDone"}, S)
                  /\ Dd(S)' = Of(s, {"dataDone"}, S) /\ Rj(S)' = Of(s, {"rejected"}, S)
                  /\ FlyIn(s, S) \in Nat
        /\ \A ops : Holds(stack', ops) <=> "start" \in ops \/ Holds(s, ops)
    BY <1>2, <2>1, <2>2, After
  <2> QED BY <1>3, <2>3, AllHere
<1>5. \A S : i \notin S => Fly(S)' = Fly(S)
  BY <1>4, IsOne
<1>6. Busy(Commands)' = Busy(Commands) /\ \A j \in Commands : Busy({j})' = Busy({j})
  BY <1>1, <1>4, <1>5 DEF Busy
<1>7. \A T : Act(T)' = Act(T)
  BY <1>1, <1>2, <1>4, <1>5 DEF Act
<1>8. \A q \in Requests : q # r => Live(q)' = Live(q)
  BY <1>1, <1>2, <1>4, <1>5 DEF Live
<1>9. Live(r)' = Live(r) + 1 /\ Live(r) \in Int
  <2>1. Fly({i})' = Fly({i}) + 1 /\ Fly({i}) \in Nat
    BY <1>4, IsOne
  <2>2. Live(r)' = Fly({i})' /\ Live(r) = Fly({i})
    BY DEF Live, i
  <2> QED BY <2>1, <2>2
<1>10. KindsInv'
  BY <1>4 DEF Books, KindsInv
<1>11. LoginInv'
  BY <1>1, <1>2, <1>4, <1>5 DEF Books, LoginInv
<1>12. CtrlInv'
  BY <1>2, <1>4, <1>6 DEF Books, CtrlInv
<1>13. DataInv'
  BY <1>2, <1>4, <1>7 DEF Books, DataInv
<1>14. EndInv'
  <2>1. status'[r] = "waiting" /\ \A q \in Requests : q # r => status'[q] = status[q]
    BY <1>2 DEF TypeInv
  <2>2. Live(r) <= 0
    BY <1>2 DEF Books, EndInv
  <2>3. Live(r)' <= 1
    BY <1>9, <2>2
  <2> QED BY <1>8, <2>1, <2>3 DEF Books, EndInv
<1> QED BY <1>10, <1>11, <1>12, <1>13, <1>14 DEF Books

\* start of a file transfer: the command that opens the file takes its place.
LEMMA BooksOpen ==
  ASSUME TypeInv, Books, Start, IsTransfer(This), AddCtrl(Item(This.req, "open"), Rest),
         UNCHANGED <<pending, chan>>
  PROVE  Books'
<1>0. UNCHANGED <<fsData, login, status>>
  BY DEF Start
<1>1. PICK i \in Objects, s \in Seq(Suspended), empty \in BOOLEAN :
        i = This /\ s = Rest /\ empty = (fsCtrl = <<>>) /\ \A ops, S : Of(s, ops, S) \in Nat
  BY OfAt DEF Start
<1>2. /\ \A S : /\ Fly(S) = FlyIn(s, S) + Is(i, S) /\ Cd(S) = Of(s, {"ctrlDone"}, S)
                /\ Dd(S) = Of(s, {"dataDone"}, S) /\ Rj(S) = Of(s, {"rejected"}, S)
                /\ FlyIn(s, S) \in Nat
      /\ \A ops : Holds(stack, ops) <=> "start" \in ops \/ Holds(s, ops)
  BY <1>1, Popped DEF Start, InFlight
<1> DEFINE r == i.req
           o == Item(r, "open")
<1>3. /\ i \in Transfers /\ i \notin Commands /\ i \notin Logins /\ r \in Requests
      /\ \A T : i \in Moving(T) <=> r \in T
      /\ \A q \in Requests : Kind[q] \in {"plain", "empty"} => i # Item(q, "run")
  <2>1. i \in Transfers
    BY <1>1 DEF Transfers
  <2>2. \A q \in Requests : Kind[q] \in {"plain", "empty"} => i # Item(q, "run")
    BY <2>1, Membership
  <2> QED BY <2>1, <2>2, TransferIs
<1>4. /\ o \in Commands /\ \A T : o \in Steps(T) <=> r \in T
      /\ \A q \in Requests : o # Item(q, "run")
  BY <1>3, Membership
<1>5. AddCtrl(o, Rest)
  BY <1>1
<1> HIDE DEF r, o
<1>6. stack' = IF empty THEN Push(Do("execCtrl"), s) ELSE s
  BY <1>1, <1>5 DEF AddCtrl
<1>7. /\ \A S : /\ Fly(S)' = FlyIn(s, S) /\ Cd(S)' = Of(s, {"ctrlDone"}, S)
                /\ Dd(S)' = Of(s, {"dataDone"}, S) /\ Rj(S)' = Of(s, {"rejected"}, S)
      /\ \A ops : Holds(stack', ops) <=> (empty /\ "execCtrl" \in ops) \/ Holds(s, ops)
  BY <1>1, <1>6, Adding
<1>8. /\ \A S : Fly(S) = Fly(S)' + Is(i, S) /\ Cd(S)' = Cd(S) /\ Dd(S)' = Dd(S) /\ Rj(S)' = Rj(S)
      /\ \A S : Fly(S)' \in Nat
      /\ \A S : i \notin S => Fly(S)' = Fly(S)
  BY <1>2, <1>7, IsOne
<1>9. /\ fsCtrl' # <<>> /\ (empty => Head(fsCtrl') = o) /\ (~empty => fsCtrl # <<>> /\ Head(fsCtrl') = Head(fsCtrl))
      /\ \A S : Count(fsCtrl', S) = Count(fsCtrl, S) + Is(o, S)
      /\ \A S : Count(fsCtrl, S) \in Nat
  BY <1>1, <1>4, <1>5, CtrlGrows DEF AddCtrl
<1>10. login = "LoggedIn"
  <2>1. Fly(Moving({r})) > 0
    BY <1>3, <1>8, IsOne
  <2>2. Fly(Moving({r})) <= Act({r}) /\ Act({r}) \in Nat /\ Fly(Moving({r})) \in Nat
    BY <1>3, ActNat DEF Books
  <2>3. Act({r}) > 0
    BY <2>1, <2>2
  <2> QED BY <1>3, <2>3, DataHead DEF Books
<1>11. Busy(Commands)' = Busy(Commands) /\ \A j \in Commands : Busy({j})' = Busy({j})
  BY <1>3, <1>8 DEF Busy
<1>12. \A T \in SUBSET Requests : Act(T)' = Act(T)
  <2> TAKE T \in SUBSET Requests
  <2>1. /\ Fly(Moving(T)) = Fly(Moving(T))' + Is(i, Moving(T)) /\ Dd(Moving(T))' = Dd(Moving(T))
        /\ Cd(Steps(T))' = Cd(Steps(T)) /\ Count(fsCtrl', Steps(T)) = Count(fsCtrl, Steps(T)) + Is(o, Steps(T))
    BY <1>8, <1>9
  <2>2. Is(i, Moving(T)) = Is(o, Steps(T))
    BY <1>3, <1>4, IsOne
  <2>3. /\ Fly(Moving(T))' \in Nat /\ Dd(Moving(T)) \in Nat /\ Is(i, Moving(T)) \in Nat
        /\ Cd(Steps(T)) \in Nat /\ Count(fsCtrl, Steps(T)) \in Nat
    BY <1>8, <1>9, IsOne, LedgerTypes
  <2> QED BY <2>1, <2>2, <2>3 DEF Act
<1>13. \A q \in Requests : Live(q)' = Live(q)
  <2> TAKE q \in Requests
  <2>1. Count(fsCtrl', {Item(q, "run")}) = Count(fsCtrl, {Item(q, "run")})
    BY <1>4, <1>9, IsOne
  <2> QED BY <1>0, <1>3, <1>8, <2>1 DEF Live
<1>14. KindsInv'
  BY <1>8 DEF Books, KindsInv
<1>15. LoginInv'
  BY <1>0, <1>2, <1>3, <1>7, <1>8, <1>10 DEF Books, LoginInv
<1>16. CtrlInv'
  <2>1. empty => Busy(Commands) = 0
    BY <1>1 DEF Books, CtrlInv
  <2>2. empty => \A j \in Commands : Busy({j}) = 0
    BY <2>1, NoHead DEF Books
  <2> QED BY <1>0, <1>1, <1>2, <1>7, <1>9, <1>10, <1>11, <2>1, <2>2 DEF Books, CtrlInv
<1>17. DataInv'
  BY <1>0, <1>2, <1>7, <1>12 DEF Books, DataInv
<1>18. EndInv'
  BY <1>0, <1>13 DEF Books, EndInv
<1> QED BY <1>14, <1>15, <1>16, <1>17, <1>18 DEF Books

\* finish() of a request of the application.
LEMMA FinishLedger ==
  ASSUME TypeInv, UNCHANGED <<pending, chan>>, NEW r \in Requests, NEW started \in BOOLEAN,
         NEW rest \in Seq(Suspended), Finish(r, started, rest)
  PROVE  /\ \A S : /\ Fly(S)' = FlyIn(rest, S) /\ Rj(S)' = Of(rest, {"rejected"}, S)
                   /\ started /\ Kind[r] = "ctrl" => Cd(S)' = Of(rest, {"ctrlDone"}, S) + Is(Item(r, "run"), S)
                   /\ ~(started /\ Kind[r] = "ctrl") => Cd(S)' = Of(rest, {"ctrlDone"}, S)
                   /\ started /\ Kind[r] \in {"download", "upload"} =>
                        Dd(S)' = Of(rest, {"dataDone"}, S) + Is(Item(r, "run"), S)
                   /\ ~(started /\ Kind[r] \in {"download", "upload"}) => Dd(S)' = Of(rest, {"dataDone"}, S)
         /\ \A ops : ops \cap {"slot", "ctrlDone", "dataDone"} = {} => (Holds(stack', ops) <=> Holds(rest, ops))
         /\ status' = [status EXCEPT ![r] = "finished"]
<1> DEFINE i == Item(r, "run")
           C == started /\ Kind[r] = "ctrl"
           D == started /\ Kind[r] \in {"download", "upload"}
<1>1. i \in Objects /\ ~(C /\ D)
  BY Membership
<1>2. PICK u : /\ stack' = Push(Do("slot"), u)
               /\ C => u = Push(Call("ctrlDone", i), rest)
               /\ D => u = Push(Call("dataDone", i), rest)
               /\ ~C /\ ~D => u = rest
  BY DEF Finish
<1>3. /\ u \in Seq(Suspended)
      /\ \A S : /\ FlyIn(u, S) = FlyIn(rest, S) /\ Of(u, {"rejected"}, S) = Of(rest, {"rejected"}, S)
                /\ C => Of(u, {"ctrlDone"}, S) = Of(rest, {"ctrlDone"}, S) + Is(i, S)
                /\ ~C => Of(u, {"ctrlDone"}, S) = Of(rest, {"ctrlDone"}, S)
                /\ D => Of(u, {"dataDone"}, S) = Of(rest, {"dataDone"}, S) + Is(i, S)
                /\ ~D => Of(u, {"dataDone"}, S) = Of(rest, {"dataDone"}, S)
      /\ \A ops : ops \cap {"slot", "ctrlDone", "dataDone"} = {} => (Holds(u, ops) <=> Holds(rest, ops))
  <2> DEFINE f == Call("ctrlDone", i)
             g == Call("dataDone", i)
  <2>1. /\ f \in Suspended /\ f.op = "ctrlDone" /\ f.item = i
        /\ g \in Suspended /\ g.op = "dataDone" /\ g.item = i
        /\ "ctrlDone" \notin InFlight /\ "dataDone" \notin InFlight
    BY <1>1, FrameTypes DEF Ops, InFlight
  <2>2. /\ C => u = Push(f, rest)
        /\ D => u = Push(g, rest)
    BY <1>2
  <2> HIDE DEF f, g, i
  <2>3. CASE C
    <3>0. /\ Push(f, rest) \in Seq(Suspended)
          /\ f.op \notin InFlight => \A S : FlyIn(Push(f, rest), S) = FlyIn(rest, S)
          /\ \A op, S : f.op = op => Of(Push(f, rest), {op}, S) = Of(rest, {op}, S) + Is(f.item, S)
          /\ \A op, S : f.op # op => Of(Push(f, rest), {op}, S) = Of(rest, {op}, S)
          /\ \A ops : Holds(Push(f, rest), ops) <=> f.op \in ops \/ Holds(rest, ops)
      BY <2>1, Called
    <3>1. /\ Push(f, rest) \in Seq(Suspended)
          /\ \A S : FlyIn(Push(f, rest), S) = FlyIn(rest, S)
          /\ \A S : Of(Push(f, rest), {"ctrlDone"}, S) = Of(rest, {"ctrlDone"}, S) + Is(i, S)
          /\ \A S : Of(Push(f, rest), {"dataDone"}, S) = Of(rest, {"dataDone"}, S)
          /\ \A S : Of(Push(f, rest), {"rejected"}, S) = Of(rest, {"rejected"}, S)
          /\ \A ops : Holds(Push(f, rest), ops) <=> "ctrlDone" \in ops \/ Holds(rest, ops)
      BY <2>1, <3>0
    <3>2. \A ops : ops \cap {"slot", "ctrlDone", "dataDone"} = {} => "ctrlDone" \notin ops
      OBVIOUS
    <3>3. ~D /\ u = Push(f, rest)
      BY <1>1, <2>2, <2>3
    <3> QED BY <2>3, <3>1, <3>2, <3>3
  <2>4. CASE D
    <3>0. /\ Push(g, rest) \in Seq(Suspended)
          /\ g.op \notin InFlight => \A S : FlyIn(Push(g, rest), S) = FlyIn(rest, S)
          /\ \A op, S : g.op = op => Of(Push(g, rest), {op}, S) = Of(rest, {op}, S) + Is(g.item, S)
          /\ \A op, S : g.op # op => Of(Push(g, rest), {op}, S) = Of(rest, {op}, S)
          /\ \A ops : Holds(Push(g, rest), ops) <=> g.op \in ops \/ Holds(rest, ops)
      BY <2>1, Called
    <3>1. /\ Push(g, rest) \in Seq(Suspended)
          /\ \A S : FlyIn(Push(g, rest), S) = FlyIn(rest, S)
          /\ \A S : Of(Push(g, rest), {"dataDone"}, S) = Of(rest, {"dataDone"}, S) + Is(i, S)
          /\ \A S : Of(Push(g, rest), {"ctrlDone"}, S) = Of(rest, {"ctrlDone"}, S)
          /\ \A S : Of(Push(g, rest), {"rejected"}, S) = Of(rest, {"rejected"}, S)
          /\ \A ops : Holds(Push(g, rest), ops) <=> "dataDone" \in ops \/ Holds(rest, ops)
      BY <2>1, <3>0
    <3>2. \A ops : ops \cap {"slot", "ctrlDone", "dataDone"} = {} => "dataDone" \notin ops
      OBVIOUS
    <3>3. ~C /\ u = Push(g, rest)
      BY <1>1, <2>2, <2>4
    <3> QED BY <2>4, <3>1, <3>2, <3>3
  <2>5. CASE ~C /\ ~D
    BY <1>2, <2>5
  <2> HIDE DEF C, D
  <2> QED BY <2>3, <2>4, <2>5
<1>4. /\ \A S : /\ Fly(S)' = FlyIn(u, S) /\ Rj(S)' = Of(u, {"rejected"}, S)
                /\ Cd(S)' = Of(u, {"ctrlDone"}, S) /\ Dd(S)' = Of(u, {"dataDone"}, S)
      /\ \A ops : Holds(stack', ops) <=> "slot" \in ops \/ Holds(u, ops)
  <2> DEFINE f == Do("slot")
  <2>1. f \in Suspended /\ f.op = "slot" /\ f.op \notin InFlight
    BY DoTypes DEF Ops, InFlight
  <2>2. stack' = Push(f, u)
    BY <1>2
  <2> HIDE DEF f
  <2> QED BY <1>3, <2>1, <2>2, After
<1> HIDE DEF i, C, D
<1>5. \A S : /\ Fly(S)' = FlyIn(rest, S) /\ Rj(S)' = Of(rest, {"rejected"}, S)
             /\ C => Cd(S)' = Of(rest, {"ctrlDone"}, S) + Is(i, S)
             /\ ~C => Cd(S)' = Of(rest, {"ctrlDone"}, S)
             /\ D => Dd(S)' = Of(rest, {"dataDone"}, S) + Is(i, S)
             /\ ~D => Dd(S)' = Of(rest, {"dataDone"}, S)
  BY <1>3, <1>4
<1>6. \A ops : ops \cap {"slot", "ctrlDone", "dataDone"} = {} => (Holds(stack', ops) <=> Holds(rest, ops))
  BY <1>3, <1>4
<1>7. status' = [status EXCEPT ![r] = "finished"]
  BY DEF Finish
<1> QED BY <1>5, <1>6, <1>7 DEF i, C, D

\* A request that was started ends; its queue still has it.
LEMMA BooksFinish ==
  ASSUME TypeInv, Books, At("finished"), FinishUser(TRUE)
  PROVE  Books'
<1>1. PICK i \in Objects, s \in Seq(Suspended) : i = This /\ s = Rest /\ \A ops, S : Of(s, ops, S) \in Nat
  BY OfAt
<1>2. /\ \A S : /\ Fly(S) = FlyIn(s, S) + Is(i, S) /\ Cd(S) = Of(s, {"ctrlDone"}, S)
                /\ Dd(S) = Of(s, {"dataDone"}, S) /\ Rj(S) = Of(s, {"rejected"}, S)
                /\ FlyIn(s, S) \in Nat
      /\ \A ops : Holds(stack, ops) <=> "finished" \in ops \/ Holds(s, ops)
  BY <1>1, Popped DEF InFlight
<1>3. UNCHANGED <<pending, chan, fsCtrl, fsData, login>>
  BY DEF FinishUser, managerVars, fsVars
<1> DEFINE r == i.req
<1>4. r \in Requests /\ i = Item(r, "run")
  BY <1>1, ObjectIs, ManagerAssumption DEF FinishUser, IsUser, OwnSteps
<1>5. Finish(r, TRUE, s)
  BY <1>1 DEF FinishUser
<1> HIDE DEF r
<1>6. /\ \A S : /\ Fly(S)' = FlyIn(s, S) /\ Rj(S)' = Of(s, {"rejected"}, S)
                /\ Kind[r] = "ctrl" => Cd(S)' = Of(s, {"ctrlDone"}, S) + Is(i, S)
                /\ Kind[r] # "ctrl" => Cd(S)' = Of(s, {"ctrlDone"}, S)
                /\ Kind[r] \in {"download", "upload"} => Dd(S)' = Of(s, {"dataDone"}, S) + Is(i, S)
                /\ Kind[r] \notin {"download", "upload"} => Dd(S)' = Of(s, {"dataDone"}, S)
      /\ \A ops : ops \cap {"slot", "ctrlDone", "dataDone"} = {} => (Holds(stack', ops) <=> Holds(s, ops))
      /\ status' = [status EXCEPT ![r] = "finished"]
  BY ZenonT(30), <1>3, <1>4, <1>5, FinishLedger
<1>7. /\ \A S : Fly(S) = Fly(S)' + Is(i, S) /\ Rj(S)' = Rj(S)
      /\ \A S : Fly(S)' \in Nat /\ Cd(S) \in Nat /\ Dd(S) \in Nat
      /\ Kind[r] = "ctrl" => \A S : Cd(S)' = Cd(S) + Is(i, S)
      /\ Kind[r] # "ctrl" => \A S : Cd(S)' = Cd(S)
      /\ Kind[r] \in {"download", "upload"} => \A S : Dd(S)' = Dd(S) + Is(i, S)
      /\ Kind[r] \notin {"download", "upload"} => \A S : Dd(S)' = Dd(S)
  BY <1>1, <1>2, <1>6
<1>8. /\ Holds(stack', {"failFS", "rejected"}) <=> Holds(stack, {"failFS", "rejected"})
      /\ Holds(stack', {"execAny"}) <=> Holds(stack, {"execAny"})
      /\ Holds(stack', {"execCtrl", "execData"}) <=> Holds(stack, {"execCtrl", "execData"})
      /\ Holds(stack', {"execCtrl", "execAny"}) <=> Holds(stack, {"execCtrl", "execAny"})
      /\ Holds(stack', {"failFS", "execCtrl"}) <=> Holds(stack, {"failFS", "execCtrl"})
      /\ Holds(stack', {"startData", "execData", "execAny"}) <=> Holds(stack, {"startData", "execData", "execAny"})
      /\ Holds(stack', {"failFS", "execData"}) <=> Holds(stack, {"failFS", "execData"})
  BY <1>2, <1>6
<1>9. /\ i \in Commands <=> Kind[r] = "ctrl"
      /\ i \in Transfers <=> Kind[r] \in {"download", "upload"}
      /\ \A T : i \notin Steps(T)
      /\ \A T : i \in Moving(T) <=> r \in T /\ Kind[r] \in {"download", "upload"}
      /\ Kind[r] \in Kinds /\ i \notin Logins
      /\ \A q \in Requests : Item(q, "run") = i <=> q = r
  BY <1>4, Membership
<1>10. \A S \in SUBSET Commands : Busy(S)' = Busy(S)
  <2> TAKE S \in SUBSET Commands
  <2>1. Is(i, S) \in Nat /\ Fly(S) = Fly(S)' + Is(i, S) /\ Fly(S)' \in Nat /\ Cd(S) \in Nat
    BY <1>7, IsOne
  <2>2. Cd(S)' = Cd(S) + Is(i, S)
    <3>1. CASE Kind[r] = "ctrl"
      BY <1>7, <3>1
    <3>2. CASE Kind[r] # "ctrl"
      <4>1. Is(i, S) = 0 /\ Cd(S)' = Cd(S)
        BY <1>7, <1>9, <3>2, IsOne
      <4> QED BY <2>1, <4>1
    <3> QED BY <3>1, <3>2
  <2> QED BY <2>1, <2>2 DEF Busy
<1>11. Busy(Commands)' = Busy(Commands) /\ \A j \in Commands : Busy({j})' = Busy({j})
  BY <1>10
<1>12. \A T \in SUBSET Requests : Act(T)' = Act(T)
  <2> TAKE T \in SUBSET Requests
  <2> DEFINE M == Moving(T)
             P == Steps(T)
  <2>1. /\ Fly(M) = Fly(M)' + Is(i, M) /\ Fly(M)' \in Nat /\ Dd(M) \in Nat /\ Is(i, M) \in Nat
    BY <1>7, IsOne
  <2>2. Dd(M)' = Dd(M) + Is(i, M)
    <3>1. CASE Kind[r] \in {"download", "upload"}
      BY <1>7, <3>1
    <3>2. CASE Kind[r] \notin {"download", "upload"}
      <4>1. Is(i, M) = 0 /\ Dd(M)' = Dd(M)
        BY <1>7, <1>9, <3>2, IsOne
      <4> QED BY <2>1, <4>1
    <3> QED BY <3>1, <3>2
  <2>3. Cd(P)' = Cd(P) /\ Count(fsCtrl', P) = Count(fsCtrl, P)
    <3>1. Is(i, P) = 0 /\ Cd(P) \in Nat
      BY <1>7, <1>9, IsOne
    <3>2. Cd(P)' = Cd(P)
      BY <1>7, <3>1
    <3> QED BY <1>3, <3>2
  <2>4. Cd(P) \in Nat /\ Count(fsCtrl, P) \in Nat
    BY LedgerTypes
  <2> QED BY <2>1, <2>2, <2>3, <2>4 DEF Act
<1>13. \A q \in Requests : q # r => Live(q)' = Live(q)
  <2> SUFFICES ASSUME NEW q \in Requests, q # r PROVE Live(q)' = Live(q)
    OBVIOUS
  <2> DEFINE R == {Item(q, "run")}
  <2>1. Is(i, R) = 0
    BY <1>9, IsOne
  <2>2. Fly(R)' = Fly(R) /\ Cd(R)' = Cd(R) /\ Dd(R)' = Dd(R) /\ Rj(R)' = Rj(R)
    BY <1>7, <2>1
  <2> QED BY <1>3, <2>2 DEF Live
<1>14. Live(r)' = Live(r) - 1 /\ Live(r) \in Int
  <2> DEFINE R == {Item(r, "run")}
  <2>1. Is(i, R) = 1
    BY <1>4, IsOne
  <2>2. Count(fsCtrl, R) \in Nat /\ Count(fsData, R) \in Nat /\ Rj(R) \in Nat
    BY LedgerTypes
  <2>3. CASE Kind[r] \in {"plain", "empty"}
    <3>1. Live(r) = Fly(R) /\ Live(r)' = Fly(R)'
      BY <2>3 DEF Live
    <3> QED BY <1>7, <2>1, <3>1
  <2>4. CASE Kind[r] = "ctrl"
    <3>1. Live(r) = (Count(fsCtrl, R) - Cd(R)) + Rj(R) /\ Live(r)' = (Count(fsCtrl, R) - Cd(R)') + Rj(R)
      BY <1>3, <1>7, <2>4 DEF Live
    <3>2. Cd(R)' = Cd(R) + 1 /\ Cd(R) \in Nat
      BY <1>7, <2>1, <2>4
    <3> QED BY <2>2, <3>1, <3>2
  <2>5. CASE Kind[r] \in {"download", "upload"}
    <3>1. Live(r) = (Count(fsData, R) - Dd(R)) + Rj(R) /\ Live(r)' = (Count(fsData, R) - Dd(R)') + Rj(R)
      BY <1>3, <1>7, <2>5 DEF Live
    <3>2. Dd(R)' = Dd(R) + 1 /\ Dd(R) \in Nat
      BY <1>7, <2>1, <2>5
    <3> QED BY <2>2, <3>1, <3>2
  <2> QED BY <1>9, <2>3, <2>4, <2>5 DEF Kinds
<1>15. KindsInv'
  <2>1. Kind[r] = "ctrl" => Is(i, Objects \ Commands) = 0
    BY <1>9, IsOne
  <2>2. Kind[r] \in {"download", "upload"} => Is(i, Objects \ Transfers) = 0
    BY <1>9, IsOne
  <2>3. Cd(Objects \ Commands)' = Cd(Objects \ Commands)  BY <1>7, <2>1
  <2>4. Dd(Objects \ Transfers)' = Dd(Objects \ Transfers)  BY <1>7, <2>2
  <2> QED BY <1>7, <2>3, <2>4 DEF Books, KindsInv
<1>16. LoginInv'
  <2>1. Fly(Logins)' = Fly(Logins)
    BY <1>7, <1>9, IsOne
  <2> QED BY <1>3, <1>8, <2>1 DEF Books, LoginInv
<1>17. CtrlInv'
  BY <1>3, <1>8, <1>11 DEF Books, CtrlInv
<1>18. DataInv'
  BY <1>3, <1>8, <1>12 DEF Books, DataInv
<1>19. EndInv'
  <2>1. status'[r] = "finished" /\ \A q \in Requests : q # r => status'[q] = status[q]
    BY <1>4, <1>6 DEF TypeInv
  <2>2. Live(r) <= 1
    <3>1. Live(r) <= IF status[r] = "waiting" THEN 1 ELSE 0
      BY <1>4 DEF Books, EndInv
    <3> QED BY <1>14, <3>1
  <2>3. Live(r)' <= 0
    BY <1>14, <2>2
  <2> QED BY <1>13, <2>1, <2>3 DEF Books, EndInv
<1> QED BY <1>15, <1>16, <1>17, <1>18, <1>19 DEF Books

\* A request that failed to log in ends; no queue has it any more.
LEMMA BooksReject ==
  ASSUME TypeInv, Books, Rejected
  PROVE  Books'
<1>0. At("rejected") /\ (FinishUser(FALSE) \/ FinishStep(FALSE))
  BY DEF Rejected
<1>1. PICK i \in Objects, s \in Seq(Suspended) : i = This /\ s = Rest /\ \A ops, S : Of(s, ops, S) \in Nat
  BY <1>0, OfAt
<1>2. /\ \A S : /\ Fly(S) = FlyIn(s, S) /\ Cd(S) = Of(s, {"ctrlDone"}, S)
                /\ Dd(S) = Of(s, {"dataDone"}, S) /\ Rj(S) = Of(s, {"rejected"}, S) + Is(i, S)
      /\ \A ops : Holds(stack, ops) <=> "rejected" \in ops \/ Holds(s, ops)
  BY <1>0, <1>1, Popped DEF InFlight
<1> DEFINE r == i.req
<1>3. i \in Queued /\ r \in Requests /\ i = Item(r, "run") /\ Kind[r] \in {"ctrl", "download", "upload"}
  <2>1. Rj(Objects \ Queued) = 0
    BY DEF Books, KindsInv
  <2>2. Is(i, Objects \ Queued) = 0
    BY <1>1, <1>2, <2>1, IsOne
  <2>3. i \in Queued
    BY <2>2, IsOne
  <2>4. r \in Requests /\ i = Item(r, "run")
    BY <2>3, ObjectIs, ManagerAssumption DEF Queued, IsUser, OwnSteps
  <2> QED BY <2>3, <2>4, Membership
<1>4. UNCHANGED <<pending, chan, fsCtrl, fsData, login>> /\ Finish(r, FALSE, s)
  <2>1. IsUser(i)
    BY <1>3 DEF Queued
  <2> QED BY <1>0, <1>1, <2>1 DEF FinishUser, FinishStep, managerVars, fsVars
<1> HIDE DEF r
<1>5. /\ \A S : /\ Fly(S)' = FlyIn(s, S) /\ Rj(S)' = Of(s, {"rejected"}, S)
                /\ Cd(S)' = Of(s, {"ctrlDone"}, S) /\ Dd(S)' = Of(s, {"dataDone"}, S)
      /\ \A ops : ops \cap {"slot", "ctrlDone", "dataDone"} = {} => (Holds(stack', ops) <=> Holds(s, ops))
      /\ status' = [status EXCEPT ![r] = "finished"]
  BY <1>3, <1>4, FinishLedger
<1>6. /\ \A S : Fly(S)' = Fly(S) /\ Cd(S)' = Cd(S) /\ Dd(S)' = Dd(S) /\ Rj(S) = Rj(S)' + Is(i, S)
      /\ \A S : Rj(S)' \in Nat
  BY <1>1, <1>2, <1>5
<1>7. /\ Holds(stack', {"failFS", "rejected"}) => Holds(stack, {"failFS", "rejected"})
      /\ Holds(stack', {"execAny"}) <=> Holds(stack, {"execAny"})
      /\ Holds(stack', {"execCtrl", "execData"}) <=> Holds(stack, {"execCtrl", "execData"})
      /\ Holds(stack', {"execCtrl", "execAny"}) <=> Holds(stack, {"execCtrl", "execAny"})
      /\ Holds(stack', {"failFS", "execCtrl"}) <=> Holds(stack, {"failFS", "execCtrl"})
      /\ Holds(stack', {"startData", "execData", "execAny"}) <=> Holds(stack, {"startData", "execData", "execAny"})
      /\ Holds(stack', {"failFS", "execData"}) <=> Holds(stack, {"failFS", "execData"})
      /\ Holds(stack, {"failFS", "rejected"})
  BY <1>2, <1>5
<1>8. \A S : Busy(S)' = Busy(S)
  BY <1>6 DEF Busy
<1>9. \A T : Act(T)' = Act(T)
  BY <1>4, <1>6 DEF Act
<1>10. \A q \in Requests : q # r => Live(q)' = Live(q)
  <2> SUFFICES ASSUME NEW q \in Requests, q # r PROVE Live(q)' = Live(q)
    OBVIOUS
  <2> DEFINE R == {Item(q, "run")}
  <2>1. Is(i, R) = 0
    BY <1>3, Membership, IsOne
  <2>2. Fly(R)' = Fly(R) /\ Cd(R)' = Cd(R) /\ Dd(R)' = Dd(R) /\ Rj(R)' = Rj(R)
    BY <1>6, <2>1
  <2> QED BY <1>4, <2>2 DEF Live
<1>11. Live(r)' = Live(r) - 1 /\ Live(r) \in Int
  <2> DEFINE R == {Item(r, "run")}
  <2>1. Rj(R) = Rj(R)' + 1 /\ Rj(R)' \in Nat /\ Rj(R) \in Nat
    BY <1>3, <1>6, IsOne
  <2>2. Count(fsCtrl, R) \in Nat /\ Count(fsData, R) \in Nat /\ Cd(R) \in Nat /\ Dd(R) \in Nat
    BY LedgerTypes
  <2>3. CASE Kind[r] = "ctrl"
    <3>1. Live(r) = (Count(fsCtrl, R) - Cd(R)) + Rj(R) /\ Live(r)' = (Count(fsCtrl, R) - Cd(R)) + Rj(R)'
      BY <1>4, <1>6, <2>3 DEF Live
    <3> QED BY <2>1, <2>2, <3>1
  <2>4. CASE Kind[r] \in {"download", "upload"}
    <3>1. Live(r) = (Count(fsData, R) - Dd(R)) + Rj(R) /\ Live(r)' = (Count(fsData, R) - Dd(R)) + Rj(R)'
      BY <1>4, <1>6, <2>4 DEF Live
    <3> QED BY <2>1, <2>2, <3>1
  <2> QED BY <1>3, <2>3, <2>4
<1>12. KindsInv'
  <2>1. Rj(Objects \ Queued)' = 0
    BY <1>6, IsOne DEF Books, KindsInv
  <2> QED BY <1>6, <2>1 DEF Books, KindsInv
<1>13. LoginInv'
  BY <1>4, <1>6, <1>7 DEF Books, LoginInv
<1>14. CtrlInv'
  BY <1>4, <1>7, <1>8 DEF Books, CtrlInv
<1>15. DataInv'
  BY <1>4, <1>7, <1>9 DEF Books, DataInv
<1>16. EndInv'
  <2>1. status'[r] = "finished" /\ \A q \in Requests : q # r => status'[q] = status[q]
    BY <1>3, <1>5 DEF TypeInv
  <2>2. Live(r) <= IF status[r] = "waiting" THEN 1 ELSE 0
    BY <1>3 DEF Books, EndInv
  <2>3. Live(r)' <= 0
    BY <1>11, <2>2
  <2> QED BY <1>10, <2>1, <2>3 DEF Books, EndInv
<1> QED BY <1>12, <1>13, <1>14, <1>15, <1>16 DEF Books

LEMMA Removed ==
  ASSUME NEW T, NEW q \in Seq(T), q # <<>>
  PROVE  /\ Head(q) \in T /\ Tail(q) \in Seq(T)
         /\ \A S : Count(q, S) = Count(Tail(q), S) + Is(Head(q), S)
         /\ \A S : Count(Tail(q), S) \in Nat
<1>1. Head(q) \in T /\ Tail(q) \in Seq(T)
  BY Parts
<1>2. \A S : Count(q, S) = Count(Tail(q), S) + (IF Head(q) \in S THEN 1 ELSE 0)
  BY CountTail
<1>3. \A S : Count(Tail(q), S) \in Nat
  BY <1>1, SpotsFinite
<1> QED BY <1>1, <1>2, <1>3 DEF Is

\* The login failed: what is queued is not started, so nothing of it is under way.
LEMMA BooksFailFS ==
  ASSUME TypeInv, Top, Books, FailFS
  PROVE  Books'
<1>0. At("failFS") /\ UNCHANGED <<pending, chan, login, status>>
  BY DEF FailFS
<1>1. /\ login # "LoggedIn" /\ Busy(Commands) = 0 /\ Act(Requests) = 0
      /\ ~Holds(stack, {"execAny"}) /\ ~Holds(stack, {"execCtrl", "execData"})
      /\ ~Holds(stack, {"execCtrl", "execAny"})
      /\ Rest \in Seq(Suspended)
  <2>1. \A ops : Holds(stack, ops) <=> "failFS" \in ops \/ Holds(Rest, ops)
    BY <1>0, OfAt
  <2>2. ~Holds(Rest, AtOnce) /\ Rest \in Seq(Suspended)
    BY <1>0, OfAt DEF Top, At, Rest
  <2>3. ~Holds(Rest, {"execAny"}) /\ ~Holds(Rest, {"execCtrl", "execData"}) /\ ~Holds(Rest, {"execCtrl", "execAny"})
    BY <2>2 DEF Holds, AtOnce
  <2>4. login # "LoggedIn"
    BY <2>1 DEF Books, LoginInv
  <2> QED BY <2>1, <2>2, <2>3, <2>4 DEF Books, CtrlInv, DataInv
<1>2. (\A j \in Commands : Busy({j}) = 0) /\ \A q \in Requests : Act({q}) = 0
  BY <1>1, NoHead, ActMore DEF Books
<1>3. ASSUME NEW h \in Objects, stack' = Push(Call("rejected", h), stack)
      PROVE  /\ \A S : Fly(S)' = Fly(S) /\ Cd(S)' = Cd(S) /\ Dd(S)' = Dd(S) /\ Rj(S)' = Rj(S) + Is(h, S)
             /\ \A ops : Holds(stack', ops) <=> "rejected" \in ops \/ Holds(stack, ops)
  <2>1. PICK s \in Seq(Suspended) : s = stack
    BY DEF TypeInv
  <2> DEFINE f == Call("rejected", h)
  <2>2. f \in Suspended /\ f.op = "rejected" /\ f.item = h /\ f.op \notin InFlight
    BY FrameTypes DEF Ops, InFlight
  <2>3. stack' = Push(f, s)
    BY <1>3, <2>1
  <2> HIDE DEF f
  <2>4. /\ \A S : /\ Fly(S)' = FlyIn(s, S) /\ Cd(S)' = Of(s, {"ctrlDone"}, S)
                  /\ Dd(S)' = Of(s, {"dataDone"}, S) /\ Rj(S)' = Of(s, {"rejected"}, S) + Is(h, S)
        /\ \A ops : Holds(stack', ops) <=> "rejected" \in ops \/ Holds(s, ops)
    BY <1>0, <2>2, <2>3, After
  <2> QED BY <2>1, <2>4, AllHere
<1>4. CASE fsCtrl # <<>>
  <2>1. PICK w \in Seq(Commands), h \in Commands : w = fsCtrl /\ h = Head(w) /\ w # <<>>
    BY <1>4, Parts DEF TypeInv
  <2>2. /\ fsCtrl' = Tail(w) /\ stack' = Push(Call("rejected", h), stack) /\ fsData' = fsData
        /\ h \in Objects
        /\ \A S : Count(fsCtrl, S) = Count(fsCtrl', S) + Is(h, S)
        /\ \A S : Count(fsCtrl', S) \in Nat
    <3>1. /\ \A S : Count(w, S) = Count(Tail(w), S) + Is(Head(w), S)
          /\ \A S : Count(Tail(w), S) \in Nat
      BY <2>1, Removed
    <3> QED BY <1>4, <2>1, <3>1, CommandIs DEF FailFS
  <2>3. /\ \A S : Fly(S)' = Fly(S) /\ Cd(S)' = Cd(S) /\ Dd(S)' = Dd(S) /\ Rj(S)' = Rj(S) + Is(h, S)
        /\ \A ops : Holds(stack', ops) <=> "rejected" \in ops \/ Holds(stack, ops)
    BY <1>3, <2>2
  <2>11. \A T \in SUBSET Requests : h \notin Steps(T)
    <3> SUFFICES ASSUME NEW T \in SUBSET Requests, h \in Steps(T) PROVE FALSE
      OBVIOUS
    <3>1. h.req \in Requests /\ h \in Steps(Requests)
      BY DEF Steps
    <3>2. Count(fsCtrl, Steps(Requests)) - Cd(Steps(Requests)) <= Act(Requests)
          /\ Cd(Steps(Requests)) \in Nat /\ Count(fsCtrl, Steps(Requests)) \in Nat
      BY ActNat DEF Books
    <3>3. Count(fsCtrl, Steps(Requests)) > 0
      BY <2>2, <3>1, IsOne
    <3>4. Cd(Steps(Requests)) <= Cd(Commands) /\ Cd(Commands) \in Nat /\ Fly(Commands) \in Nat
      BY FlyMore, LedgerTypes, KnownSets
    <3>5. Cd(Commands) = 0
      BY <1>1, <3>4 DEF Busy
    <3> QED BY <1>1, <3>2, <3>3, <3>4, <3>5
  <2>4. \A T \in SUBSET Requests : Act(T)' = Act(T)
    <3> TAKE T \in SUBSET Requests
    <3>1. Count(fsCtrl', Steps(T)) = Count(fsCtrl, Steps(T))
      BY <2>2, <2>11, IsOne
    <3> QED BY <2>3, <3>1 DEF Act
  <2>5. \A q \in Requests : Live(q)' = Live(q)
    <3> TAKE q \in Requests
    <3> DEFINE R == {Item(q, "run")}
    <3>1. /\ Count(fsCtrl, R) = Count(fsCtrl', R) + Is(h, R) /\ Rj(R)' = Rj(R) + Is(h, R)
          /\ Fly(R)' = Fly(R) /\ Cd(R)' = Cd(R) /\ Dd(R)' = Dd(R)
      BY <2>2, <2>3
    <3>2. Count(fsCtrl', R) \in Nat /\ Is(h, R) \in Nat /\ Rj(R) \in Nat /\ Cd(R) \in Nat
      BY SMTT(30), <2>2, IsOne, LedgerTypes
    <3>3. Kind[q] # "ctrl" => Is(h, R) = 0
      BY IsOne, Membership
    <3>4. (Count(fsCtrl', R) - Cd(R)) + Rj(R)' = (Count(fsCtrl, R) - Cd(R)) + Rj(R)
      BY <3>1, <3>2
    <3>5. CASE Kind[q] = "ctrl"
      BY <3>1, <3>4, <3>5 DEF Live
    <3>6. CASE Kind[q] # "ctrl"
      <4>1. Rj(R)' = Rj(R)
        BY <3>1, <3>2, <3>3, <3>6
      <4> QED BY <2>2, <3>1, <3>6, <4>1 DEF Live
    <3> QED BY <3>5, <3>6
  <2>6. KindsInv'
    <3>1. h \in Queued
      <4>1. h.req \in Requests /\ h \notin Steps({h.req})
        BY <2>11, CommandIs
      <4> QED BY <4>1, CommandIs
    <3>2. Is(h, Objects \ Queued) = 0
      BY <3>1, IsOne
    <3> QED BY <2>3, <3>2, LedgerTypes DEF Books, KindsInv
  <2>7. LoginInv'
    BY <1>0, <1>1, <2>3 DEF Books, LoginInv
  <2>8. CtrlInv'
    <3>1. Busy(Commands)' = 0 /\ \A j \in Commands : Busy({j})' = 0
      BY <1>1, <1>2, <2>3 DEF Busy
    <3>2. Holds(stack', {"failFS", "execCtrl"})
      <4>1. Holds(stack, {"failFS", "execCtrl"})
        BY <1>0, OfAt
      <4> QED BY <2>3, <4>1
    <3> QED BY <1>0, <1>1, <3>1, <3>2 DEF CtrlInv
  <2>9. DataInv'
    <3>1. Act(Requests)' = 0 /\ \A q \in Requests : Act({q})' = 0
      BY <1>1, <1>2, <2>4
    <3>2. Holds(stack, {"failFS", "execData"})
      BY <1>0, OfAt
    <3> QED BY <1>0, <1>1, <2>3, <3>1, <3>2 DEF DataInv
  <2>10. EndInv'
    BY <1>0, <2>5 DEF Books, EndInv
  <2> QED BY <2>6, <2>7, <2>8, <2>9, <2>10 DEF Books
<1>5. CASE fsCtrl = <<>> /\ fsData # <<>>
  <2>1. PICK w \in Seq(Transfers), h \in Transfers : w = fsData /\ h = Head(w) /\ w # <<>>
    BY <1>5, Parts DEF TypeInv
  <2>2. /\ fsData' = Tail(w) /\ stack' = Push(Call("rejected", h), stack) /\ fsCtrl' = fsCtrl
        /\ h \in Objects
        /\ \A S : Count(fsData, S) = Count(fsData', S) + Is(h, S)
        /\ \A S : Count(fsData', S) \in Nat
    <3>1. /\ \A S : Count(w, S) = Count(Tail(w), S) + Is(Head(w), S)
          /\ \A S : Count(Tail(w), S) \in Nat
      BY <2>1, Removed
    <3> QED BY <1>5, <2>1, <3>1, TransferIs DEF FailFS
  <2>3. /\ \A S : Fly(S)' = Fly(S) /\ Cd(S)' = Cd(S) /\ Dd(S)' = Dd(S) /\ Rj(S)' = Rj(S) + Is(h, S)
        /\ \A ops : Holds(stack', ops) <=> "rejected" \in ops \/ Holds(stack, ops)
    BY <1>3, <2>2
  <2>4. \A T \in SUBSET Requests : Act(T)' = Act(T)
    BY <2>2, <2>3 DEF Act
  <2>5. \A q \in Requests : Live(q)' = Live(q)
    <3> TAKE q \in Requests
    <3> DEFINE R == {Item(q, "run")}
    <3>1. /\ Count(fsData, R) = Count(fsData', R) + Is(h, R) /\ Rj(R)' = Rj(R) + Is(h, R)
          /\ Fly(R)' = Fly(R) /\ Cd(R)' = Cd(R) /\ Dd(R)' = Dd(R)
      BY <2>2, <2>3
    <3>2. Count(fsData', R) \in Nat /\ Is(h, R) \in Nat /\ Rj(R) \in Nat /\ Dd(R) \in Nat
      BY SMTT(30), <2>2, IsOne, LedgerTypes
    <3>3. Kind[q] \notin {"download", "upload"} => Is(h, R) = 0
      BY IsOne, Membership
    <3>4. (Count(fsData', R) - Dd(R)) + Rj(R)' = (Count(fsData, R) - Dd(R)) + Rj(R)
      BY <3>1, <3>2
    <3>5. CASE Kind[q] \in {"download", "upload"}
      BY <3>1, <3>4, <3>5 DEF Live
    <3>6. CASE Kind[q] \notin {"download", "upload"}
      <4>1. Rj(R)' = Rj(R)
        BY <3>1, <3>2, <3>3, <3>6
      <4>2. Kind[q] \in Kinds
        BY Membership
      <4> QED BY <2>2, <3>1, <3>6, <4>1, <4>2 DEF Live, Kinds
    <3> QED BY <3>5, <3>6
  <2>6. KindsInv'
    <3>1. Is(h, Objects \ Queued) = 0
      BY IsOne, TransferIs
    <3> QED BY <2>3, <3>1, LedgerTypes DEF Books, KindsInv
  <2>7. LoginInv'
    BY <1>0, <1>1, <2>3 DEF Books, LoginInv
  <2>8. CtrlInv'
    <3>1. Busy(Commands)' = 0 /\ \A j \in Commands : Busy({j})' = 0
      BY <1>1, <1>2, <2>3 DEF Busy
    <3>2. Holds(stack', {"failFS", "execCtrl"})
      <4>1. Holds(stack, {"failFS", "execCtrl"})
        BY <1>0, OfAt
      <4> QED BY <2>3, <4>1
    <3> QED BY <1>0, <1>1, <3>1, <3>2 DEF CtrlInv
  <2>9. DataInv'
    <3>1. Act(Requests)' = 0 /\ \A q \in Requests : Act({q})' = 0
      BY <1>1, <1>2, <2>4
    <3>2. Holds(stack, {"failFS", "execData"})
      BY <1>0, OfAt
    <3> QED BY <1>0, <1>1, <2>3, <3>1, <3>2 DEF DataInv
  <2>10. EndInv'
    BY <1>0, <2>5 DEF Books, EndInv
  <2> QED BY <2>6, <2>7, <2>8, <2>9, <2>10 DEF Books
<1>6. CASE fsCtrl = <<>> /\ fsData = <<>>
  <2>1. stack' = Rest /\ UNCHANGED <<fsCtrl, fsData>>
    BY <1>6 DEF FailFS
  <2>2. /\ \A S : Fly(S)' = Fly(S) /\ Cd(S)' = Cd(S) /\ Dd(S)' = Dd(S) /\ Rj(S)' = Rj(S)
        /\ \A S : Busy(S)' = Busy(S)
        /\ \A T : Act(T)' = Act(T)
        /\ \A r : Live(r)' = Live(r)
        /\ \A ops : Holds(stack, ops) <=> "failFS" \in ops \/ Holds(stack', ops)
    BY <1>0, <2>1, Returned DEF InFlight
  <2>3. KindsInv'
    BY <2>2 DEF Books, KindsInv
  <2>4. LoginInv'
    BY <1>0, <1>1, <2>2 DEF Books, LoginInv
  <2>5. CtrlInv'
    BY <1>0, <1>1, <1>6, <2>1, <2>2 DEF Books, CtrlInv
  <2>6. DataInv'
    BY <1>0, <1>1, <1>6, <2>1, <2>2 DEF Books, DataInv
  <2>7. EndInv'
    BY <1>0, <2>2 DEF Books, EndInv
  <2> QED BY <2>3, <2>4, <2>5, <2>6, <2>7 DEF Books
<1> QED BY <1>4, <1>5, <1>6

\* The login or QUIT was answered, or failed.
LEMMA BooksOwn ==
  ASSUME TypeInv, Top, OwnInv, Books, At("finished"), FinishOwn, This \notin Buffers
  PROVE  Books'
<1>1. PICK i \in Objects, s \in Seq(Suspended) :
        i = This /\ s = Rest /\ i.req = Manager /\ \A ops, S : Of(s, ops, S) \in Nat
  BY OfAt DEF FinishOwn
<1>2. /\ \A S : /\ Fly(S) = FlyIn(s, S) + Is(i, S) /\ Cd(S) = Of(s, {"ctrlDone"}, S)
                /\ Dd(S) = Of(s, {"dataDone"}, S) /\ Rj(S) = Of(s, {"rejected"}, S)
                /\ FlyIn(s, S) \in Nat
      /\ \A ops : Holds(stack, ops) <=> "finished" \in ops \/ Holds(s, ops)
  BY <1>1, Popped DEF InFlight
<1>3. i.step \in {"login", "quit"} /\ UNCHANGED <<pending, chan, fsCtrl, fsData, status>>
  <2>1. i.step \in OwnSteps /\ i = Own(i.step)
    BY <1>1, ObjectIs, ManagerAssumption DEF ManagerAssumption, Manager, Own, Item
  <2> QED BY <1>1, <2>1 DEF FinishOwn, Buffers, OwnSteps
<1>4. ~Holds(s, {"execAny"}) /\ ~Holds(s, {"execCtrl", "execData"}) /\ ~Holds(s, {"execCtrl", "execAny"})
  <2>1. ~Holds(s, AtOnce)
    BY <1>1 DEF Top, At, Rest
  <2> QED BY <2>1 DEF Holds, AtOnce
<1>5. ASSUME \A S : /\ Fly(S)' = FlyIn(s, S) /\ Cd(S)' = Of(s, {"ctrlDone"}, S)
                    /\ Dd(S)' = Of(s, {"dataDone"}, S) /\ Rj(S)' = Of(s, {"rejected"}, S)
      PROVE  /\ \A S : Fly(S) = Fly(S)' + Is(i, S) /\ Cd(S)' = Cd(S) /\ Dd(S)' = Dd(S) /\ Rj(S)' = Rj(S)
             /\ \A S : Fly(S)' \in Nat
             /\ Busy(Commands)' = Busy(Commands)
             /\ \A j \in Commands : Busy({j})' = Busy({j})
             /\ \A T \in SUBSET Requests : Act(T)' = Act(T)
             /\ \A r \in Requests : Live(r)' = Live(r)
             /\ i.step # "login" => Fly(Logins)' = Fly(Logins)
  <2>1. /\ \A S : Fly(S) = Fly(S)' + Is(i, S) /\ Cd(S)' = Cd(S) /\ Dd(S)' = Dd(S) /\ Rj(S)' = Rj(S)
        /\ \A S : Fly(S)' \in Nat
    BY <1>2, <1>5
  <2>2. \A S : i \notin S => Fly(S)' = Fly(S)
    BY <2>1, IsOne
  <2> QED BY <1>1, <1>3, <2>1, <2>2, OwnMoves
<1>6. CASE i.step = "quit"
  <2>1. stack' = s /\ login' = login
    BY <1>1, <1>6 DEF FinishOwn
  <2>2. \A S : /\ Fly(S)' = FlyIn(s, S) /\ Cd(S)' = Of(s, {"ctrlDone"}, S)
               /\ Dd(S)' = Of(s, {"dataDone"}, S) /\ Rj(S)' = Of(s, {"rejected"}, S)
    BY <1>3, <2>1, Now
  <2>3. /\ \A S : Cd(S)' = Cd(S) /\ Dd(S)' = Dd(S) /\ Rj(S)' = Rj(S)
        /\ Busy(Commands)' = Busy(Commands)
        /\ \A j \in Commands : Busy({j})' = Busy({j})
        /\ \A T \in SUBSET Requests : Act(T)' = Act(T)
        /\ \A r \in Requests : Live(r)' = Live(r)
        /\ Fly(Logins)' = Fly(Logins)
    BY <1>5, <1>6, <2>2
  <2>4. \A ops : "finished" \notin ops => (Holds(stack', ops) <=> Holds(stack, ops))
    BY <1>2, <2>1
  <2>5. KindsInv'
    BY <2>3 DEF Books, KindsInv
  <2>6. LoginInv'
    BY <1>3, <2>1, <2>3, <2>4 DEF Books, LoginInv
  <2>7. CtrlInv'
    BY <1>3, <2>1, <2>3, <2>4 DEF Books, CtrlInv
  <2>8. DataInv'
    BY <1>3, <2>1, <2>3, <2>4 DEF Books, DataInv
  <2>9. EndInv'
    BY <1>3, <2>3 DEF Books, EndInv
  <2> QED BY <2>5, <2>6, <2>7, <2>8, <2>9 DEF Books
<1>7. CASE i.step = "login"
  <2> DEFINE ok == Head(stack).ok
  <2>1. PICK op \in {"execAny", "failFS"} :
          /\ stack' = Push(Do(op), s)
          /\ op = "execAny" => ok /\ login' = "LoggedIn"
          /\ op = "failFS" => login' = "NotLoggedIn"
    BY <1>1, <1>7 DEF FinishOwn
  <2>2. op = "execAny" => s = <<>>
    BY <1>1, <2>1 DEF OwnInv
  <2> HIDE DEF ok
  <2>3. /\ \A S : /\ Fly(S)' = FlyIn(s, S) /\ Cd(S)' = Of(s, {"ctrlDone"}, S)
                  /\ Dd(S)' = Of(s, {"dataDone"}, S) /\ Rj(S)' = Of(s, {"rejected"}, S)
        /\ \A ops : Holds(stack', ops) <=> op \in ops \/ Holds(s, ops)
    <3> DEFINE f == Do(op)
    <3>1. f \in Suspended /\ f.op = op /\ f.op \notin InFlight
          /\ f.op # "ctrlDone" /\ f.op # "dataDone" /\ f.op # "rejected"
      BY DoTypes DEF Ops, InFlight
    <3>2. stack' = Push(f, s)
      BY <2>1
    <3> HIDE DEF f
    <3> QED BY <1>3, <3>1, <3>2, After
  <2>4. /\ \A S : Cd(S)' = Cd(S) /\ Dd(S)' = Dd(S) /\ Rj(S)' = Rj(S)
        /\ Fly(Logins) = Fly(Logins)' + Is(i, Logins) /\ Fly(Logins)' \in Nat
        /\ Busy(Commands)' = Busy(Commands)
        /\ \A j \in Commands : Busy({j})' = Busy({j})
        /\ \A T \in SUBSET Requests : Act(T)' = Act(T)
        /\ \A r \in Requests : Live(r)' = Live(r)
    BY <1>5, <2>3
  <2>5. Fly(Logins)' = 0 /\ login = "LoggingIn"
    <3>1. Is(i, Logins) = 1
      BY <1>1, <1>7, OwnIs, IsOne
    <3>2. Fly(Logins) <= 1 /\ (login # "LoggingIn" => Fly(Logins) = 0)
      BY DEF Books, LoginInv
    <3> QED BY <2>4, <3>1, <3>2
  <2>6. /\ Busy(Commands)' = 0 /\ Act(Requests)' = 0
        /\ (\A j \in Commands : Busy({j})' = 0) /\ \A q \in Requests : Act({q})' = 0
    <3>1. Busy(Commands) = 0 /\ Act(Requests) = 0
      BY <2>5 DEF Books, CtrlInv, DataInv
    <3>2. (\A j \in Commands : Busy({j}) = 0) /\ \A q \in Requests : Act({q}) = 0
      BY <3>1, NoHead, ActMore DEF Books
    <3> QED BY <2>4, <3>1, <3>2
  <2>7. KindsInv'
    BY <2>4 DEF Books, KindsInv
  <2>8. LoginInv'
    <3>1. op = "execAny" => ~Holds(stack', {"failFS", "rejected"})
      BY <2>2, <2>3, HoldsNone
    <3>2. op = "failFS" => ~Holds(stack', {"execAny"}) /\ ~Holds(stack', {"execCtrl", "execData"})
      BY <1>4, <2>3
    <3> QED BY <2>1, <2>5, <3>1, <3>2 DEF LoginInv
  <2>9. CtrlInv'
    <3>1. op = "execAny" => Holds(stack', {"execCtrl", "execAny"})
      BY <2>3
    <3>2. op = "failFS" => Holds(stack', {"failFS", "execCtrl"})
      BY <2>3
    <3> QED BY <2>1, <2>6, <3>1, <3>2 DEF CtrlInv
  <2>10. DataInv'
    <3>1. op = "execAny" => Holds(stack', {"startData", "execData", "execAny"})
      BY <2>3
    <3>2. op = "failFS" => Holds(stack', {"failFS", "execData"})
      BY <2>3
    <3> QED BY <2>1, <2>6, <3>1, <3>2 DEF DataInv
  <2>11. EndInv'
    BY <1>3, <2>4 DEF Books, EndInv
  <2> QED BY <2>7, <2>8, <2>9, <2>10, <2>11 DEF Books
<1> QED BY <1>3, <1>6, <1>7

-----------------------------------------------------------------------------
(* The end of a request of a file transfer, and what follows it.            *)

\* What is enough for the invariant when one thing under way follows another.
LEMMA BooksFollow ==
  ASSUME TypeInv, Books, UNCHANGED <<fsData, login>>, login = "LoggedIn", NEW empty \in BOOLEAN,
         empty => fsCtrl = <<>>,
         \A ops : ops \cap {"start", "finished", "ctrlDone", "dataDone", "slot"} = {} =>
                    (Holds(stack', ops) <=> (empty /\ "execCtrl" \in ops) \/ Holds(stack, ops)),
         \/ UNCHANGED fsCtrl
         \/ fsCtrl' # <<>> /\ (~empty => fsCtrl # <<>> /\ Head(fsCtrl') = Head(fsCtrl)),
         \A S \in SUBSET Commands : Busy(S)' = Busy(S),
         \A T \in SUBSET Requests : Act(T)' = Act(T),
         KindsInv', EndInv', Fly(Logins)' = Fly(Logins)
  PROVE  Books'
<1>1. /\ Holds(stack', {"failFS", "rejected"}) <=> Holds(stack, {"failFS", "rejected"})
      /\ Holds(stack', {"execAny"}) <=> Holds(stack, {"execAny"})
      /\ Holds(stack', {"execCtrl", "execAny"}) <=> empty \/ Holds(stack, {"execCtrl", "execAny"})
      /\ Holds(stack', {"startData", "execData", "execAny"}) <=> Holds(stack, {"startData", "execData", "execAny"})
  OBVIOUS
<1>2. Busy(Commands)' = Busy(Commands) /\ \A j \in Commands : Busy({j})' = Busy({j})
  OBVIOUS
<1>3. LoginInv'
  BY <1>1 DEF Books, LoginInv
<1>4. CtrlInv'
  <2>1. empty => Busy(Commands) = 0
    BY DEF Books, CtrlInv
  <2>2. empty => \A j \in Commands : Busy({j}) = 0
    BY <2>1, NoHead DEF Books
  <2> QED BY <1>1, <1>2, <2>1, <2>2 DEF Books, CtrlInv
<1>5. DataInv'
  BY <1>1 DEF Books, DataInv
<1> QED BY <1>3, <1>4, <1>5 DEF Books

\* The function that ends a request of a file transfer, and what is left when
\* the manager has been told of a command.
LEMMA StepEnds ==
  ASSUME TypeInv, Books, At("finished"), This.req \in Requests, ~IsUser(This), NEW t,
         t = IF IsCommand(This) THEN Push(Call("ctrlDone", This), Rest) ELSE Rest
  PROVE  /\ t \in Seq(Suspended) /\ This \in Objects
         /\ This = Item(This.req, This.step) /\ This.step \in {"open", "attr", "data", "close"}
         /\ \A S : /\ Fly(S) = FlyIn(t, S) + Is(This, S) /\ FlyIn(t, S) \in Nat
                   /\ Dd(S) = Of(t, {"dataDone"}, S) /\ Rj(S) = Of(t, {"rejected"}, S)
                   /\ This.step # "data" => Of(t, {"ctrlDone"}, S) = Cd(S) + Is(This, S)
                   /\ This.step = "data" => Of(t, {"ctrlDone"}, S) = Cd(S)
         /\ \A ops : ops \cap {"finished", "ctrlDone"} = {} => (Holds(t, ops) <=> Holds(stack, ops))
<1>1. PICK i \in Objects, s \in Seq(Suspended) : i = This /\ s = Rest /\ \A ops, S : Of(s, ops, S) \in Nat
  BY OfAt
<1>2. /\ \A S : /\ Fly(S) = FlyIn(s, S) + Is(i, S) /\ Cd(S) = Of(s, {"ctrlDone"}, S)
                /\ Dd(S) = Of(s, {"dataDone"}, S) /\ Rj(S) = Of(s, {"rejected"}, S)
                /\ FlyIn(s, S) \in Nat
      /\ \A ops : Holds(stack, ops) <=> "finished" \in ops \/ Holds(s, ops)
  BY <1>1, Popped DEF InFlight
<1>3. /\ i = Item(i.req, i.step) /\ i.step \in {"open", "attr", "data", "close"}
      /\ IsCommand(i) <=> i.step # "data"
  <2>1. i.req \in Requests /\ i.step # "run"
    BY <1>1 DEF IsUser
  <2>2. i.step \in {"open", "attr", "data", "close"} /\ i = Item(i.req, i.step)
    BY <2>1, ObjectIs, ManagerAssumption DEF ManagerAssumption, Manager
  <2> QED BY <2>2 DEF IsUser, IsCommand
<1>4. CASE i.step = "data"
  <2>1. t = s
    BY <1>1, <1>3, <1>4
  <2> QED BY <1>1, <1>2, <1>3, <1>4, <2>1
<1>5. CASE i.step # "data"
  <2> DEFINE f == Call("ctrlDone", i)
  <2>1. f \in Suspended /\ f.op = "ctrlDone" /\ f.item = i /\ "ctrlDone" \notin InFlight
    BY <1>1, FrameTypes DEF Ops, InFlight
  <2>2. t = Push(f, s)
    BY <1>1, <1>3, <1>5
  <2> HIDE DEF f
  <2>3. /\ f.op \notin InFlight => \A S : FlyIn(Push(f, s), S) = FlyIn(s, S)
        /\ \A op, S : f.op = op => Of(Push(f, s), {op}, S) = Of(s, {op}, S) + Is(f.item, S)
        /\ \A op, S : f.op # op => Of(Push(f, s), {op}, S) = Of(s, {op}, S)
        /\ \A ops : Holds(Push(f, s), ops) <=> f.op \in ops \/ Holds(s, ops)
        /\ Push(f, s) \in Seq(Suspended)
    BY <2>1, Called
  <2>4. \A S : /\ FlyIn(t, S) = FlyIn(s, S)
               /\ Of(t, {"ctrlDone"}, S) = Of(s, {"ctrlDone"}, S) + Is(i, S)
               /\ Of(t, {"dataDone"}, S) = Of(s, {"dataDone"}, S)
               /\ Of(t, {"rejected"}, S) = Of(s, {"rejected"}, S)
    BY <2>1, <2>2, <2>3
  <2>5. \A ops : Holds(t, ops) <=> "ctrlDone" \in ops \/ Holds(s, ops)
    BY <2>1, <2>2, <2>3
  <2>6. \A ops : ops \cap {"finished", "ctrlDone"} = {} => "finished" \notin ops /\ "ctrlDone" \notin ops
    OBVIOUS
  <2>7. \A ops : ops \cap {"finished", "ctrlDone"} = {} => (Holds(t, ops) <=> Holds(stack, ops))
    BY <1>2, <2>5, <2>6
  <2> QED BY <1>1, <1>2, <1>3, <1>5, <2>2, <2>3, <2>4, <2>7
<1> QED BY <1>4, <1>5

\* A command of a file transfer ends: user, queues and transfer are its own.
LEMMA StepCommand ==
  ASSUME TypeInv, Books, At("finished"), This.req \in Requests, This.step \in {"open", "attr", "close"}
  PROVE  /\ This \in Commands /\ This = Item(This.req, This.step)
         /\ fsCtrl # <<>> /\ login = "LoggedIn" /\ Kind[This.req] \in {"download", "upload"}
         /\ ~Holds(stack, {"startData", "execData", "execAny"})
<1>1. PICK i \in Objects, s \in Seq(Suspended) : i = This /\ s = Rest /\ \A ops, S : Of(s, ops, S) \in Nat
  BY OfAt
<1> DEFINE r == i.req
<1>2. /\ i \in Commands /\ r \in Requests /\ i = Item(r, i.step) /\ i.step \in {"open", "attr", "close"}
      /\ \A T : i \in Steps(T) <=> r \in T
  BY <1>1, ObjectIs DEF Commands, IsCommand, Steps
<1> HIDE DEF r
<1>3. \A S : Fly(S) = FlyIn(s, S) + Is(i, S) /\ FlyIn(s, S) \in Nat
  BY <1>1, Popped DEF InFlight
<1>4. Fly({i}) > 0 /\ Fly({i}) \in Nat /\ Cd({i}) \in Nat
  BY <1>3, IsOne, LedgerTypes
<1>5. Busy({i}) > 0
  BY <1>4 DEF Busy
<1>6. /\ fsCtrl # <<>> /\ login = "LoggedIn" /\ Busy(Commands) = 1 /\ Fly({i}) = Fly(Commands)
      /\ Count(fsCtrl, Steps({r})) > 0
  BY <1>2, <1>5, CtrlHead DEF Books
<1>7. Act({r}) > 0
  <2>1. Cd(Commands) = 0
    BY <1>4, <1>6, LedgerTypes DEF Busy
  <2>2. Cd(Steps({r})) <= Cd(Commands)
    BY <1>2, KnownSets, FlyMore
  <2>3. Count(fsCtrl, Steps({r})) - Cd(Steps({r})) <= Act({r}) /\ Act({r}) \in Nat
        /\ Cd(Steps({r})) \in Nat /\ Count(fsCtrl, Steps({r})) \in Nat
    BY <1>2, ActNat DEF Books
  <2> QED BY <1>6, <2>1, <2>2, <2>3
<1>8. Item(r, "run") \in Transfers /\ ~Holds(stack, {"startData", "execData", "execAny"})
  BY <1>2, <1>7, DataHead DEF Books
<1> QED BY <1>1, <1>2, <1>6, <1>8, Membership DEF r

\* The last command of a file transfer ends, and the transfer with it.
LEMMA BooksStepLast ==
  ASSUME TypeInv, Books, At("finished"), This.req \in Requests, This.step \in {"open", "close"},
         NEW t, t = Push(Call("ctrlDone", This), Rest), Finish(This.req, TRUE, t),
         UNCHANGED <<pending, chan, fsCtrl, fsData, login>>
  PROVE  Books'
<1>1. PICK i \in Objects : i = This
  BY OfAt
<1> DEFINE r == i.req
           k == Item(r, "run")
<1>2. /\ r \in Requests /\ i \in Commands /\ i = Item(r, i.step) /\ i.step \in {"open", "close"}
      /\ fsCtrl # <<>> /\ login = "LoggedIn" /\ Kind[r] \in {"download", "upload"}
  BY <1>1, StepCommand
<1>3. /\ t \in Seq(Suspended)
      /\ \A S : /\ Fly(S) = FlyIn(t, S) + Is(i, S) /\ FlyIn(t, S) \in Nat
                /\ Dd(S) = Of(t, {"dataDone"}, S) /\ Rj(S) = Of(t, {"rejected"}, S)
                /\ Of(t, {"ctrlDone"}, S) = Cd(S) + Is(i, S)
      /\ \A ops : ops \cap {"finished", "ctrlDone"} = {} => (Holds(t, ops) <=> Holds(stack, ops))
  <2>1. IsCommand(This) /\ ~IsUser(This)
    BY DEF IsCommand, IsUser
  <2> QED BY <1>1, <1>2, <2>1, StepEnds
<1>4. /\ i \notin Transfers /\ i \notin Logins /\ \A T : (i \in Steps(T) <=> r \in T) /\ i \notin Moving(T)
      /\ k \in Transfers /\ k \notin Commands
      /\ \A T : (k \in Moving(T) <=> r \in T) /\ k \notin Steps(T)
      /\ \A q \in Requests : i # Item(q, "run")
      /\ \A q \in Requests : k = Item(q, "run") <=> q = r
  BY SMTT(30), <1>2, Membership
<1>5. Finish(r, TRUE, t)
  BY <1>1
<1> HIDE DEF r, k
<1>6. /\ \A S : /\ Fly(S)' = FlyIn(t, S) /\ Rj(S)' = Of(t, {"rejected"}, S)
                /\ Cd(S)' = Of(t, {"ctrlDone"}, S)
                /\ Dd(S)' = Of(t, {"dataDone"}, S) + Is(k, S)
      /\ \A ops : ops \cap {"slot", "ctrlDone", "dataDone"} = {} => (Holds(stack', ops) <=> Holds(t, ops))
      /\ status' = [status EXCEPT ![r] = "finished"]
  <2>1. Kind[r] # "ctrl" /\ Kind[r] \in {"download", "upload"}
    BY <1>2
  <2>2. PICK q \in Requests, b \in BOOLEAN, u \in Seq(Suspended) : q = r /\ b = TRUE /\ u = t
    BY <1>2, <1>3
  <2>3. Finish(q, b, u) /\ b /\ Kind[q] # "ctrl" /\ Kind[q] \in {"download", "upload"} /\ k = Item(q, "run")
    BY <1>5, <2>1, <2>2 DEF k
  <2>4. /\ \A S : /\ Fly(S)' = FlyIn(u, S) /\ Rj(S)' = Of(u, {"rejected"}, S)
                  /\ b /\ Kind[q] = "ctrl" => Cd(S)' = Of(u, {"ctrlDone"}, S) + Is(Item(q, "run"), S)
                  /\ ~(b /\ Kind[q] = "ctrl") => Cd(S)' = Of(u, {"ctrlDone"}, S)
                  /\ b /\ Kind[q] \in {"download", "upload"} =>
                       Dd(S)' = Of(u, {"dataDone"}, S) + Is(Item(q, "run"), S)
                  /\ ~(b /\ Kind[q] \in {"download", "upload"}) => Dd(S)' = Of(u, {"dataDone"}, S)
        /\ \A ops : ops \cap {"slot", "ctrlDone", "dataDone"} = {} => (Holds(stack', ops) <=> Holds(u, ops))
        /\ status' = [status EXCEPT ![q] = "finished"]
    BY <2>3, FinishLedger
  <2>5. \A S : /\ Fly(S)' = FlyIn(u, S) /\ Rj(S)' = Of(u, {"rejected"}, S)
               /\ Cd(S)' = Of(u, {"ctrlDone"}, S) /\ Dd(S)' = Of(u, {"dataDone"}, S) + Is(k, S)
    BY <2>3, <2>4
  <2>6. status' = [status EXCEPT ![r] = "finished"]
    BY <2>2, <2>4
  <2>7. \A ops : ops \cap {"slot", "ctrlDone", "dataDone"} = {} => (Holds(stack', ops) <=> Holds(t, ops))
    BY <2>2, <2>4
  <2> QED BY <2>2, <2>5, <2>6, <2>7
<1>7. \A S : /\ Fly(S) = Fly(S)' + Is(i, S) /\ Cd(S)' = Cd(S) + Is(i, S)
             /\ Dd(S)' = Dd(S) + Is(k, S) /\ Rj(S)' = Rj(S)
             /\ Fly(S)' \in Nat /\ Cd(S) \in Nat /\ Dd(S) \in Nat /\ Rj(S) \in Nat
             /\ Is(i, S) \in Nat /\ Is(k, S) \in Nat
  BY <1>3, <1>6, IsOne, LedgerTypes
<1>8. \A S : Busy(S)' = Busy(S)
  BY <1>7 DEF Busy
<1>9. \A T \in SUBSET Requests : Act(T)' = Act(T)
  <2> TAKE T \in SUBSET Requests
  <2> DEFINE M == Moving(T)
             P == Steps(T)
  <2>1. Is(i, M) = 0 /\ Is(k, M) = Is(i, P)
    BY <1>4, IsOne
  <2>2. /\ Fly(M) = Fly(M)' + Is(i, M) /\ Fly(M)' \in Nat
        /\ Dd(M)' = Dd(M) + Is(k, M) /\ Dd(M) \in Nat /\ Is(k, M) \in Nat
        /\ Cd(P)' = Cd(P) + Is(i, P) /\ Cd(P) \in Nat /\ Count(fsCtrl, P) \in Nat
    BY <1>7, LedgerTypes
  <2>3. Fly(M)' = Fly(M)
    BY <2>1, <2>2
  <2> QED BY <2>1, <2>2, <2>3 DEF Act
<1>10. KindsInv'
  <2>1. i \notin Objects \ Commands /\ k \notin Objects \ Transfers
    BY <1>2, <1>4
  <2>2. Cd(Objects \ Commands)' = Cd(Objects \ Commands) /\ Dd(Objects \ Transfers)' = Dd(Objects \ Transfers)
    BY <1>7, <2>1, IsOne
  <2> QED BY <1>7, <2>2 DEF Books, KindsInv
<1>11. Fly(Logins)' = Fly(Logins)
  BY <1>4, <1>7, IsOne
<1>12. EndInv'
  <2>1. status'[r] = "finished" /\ \A q \in Requests : q # r => status'[q] = status[q]
    BY <1>2, <1>6 DEF TypeInv
  <2>2. ASSUME NEW q \in Requests, q # r PROVE Live(q)' = Live(q)
    <3> DEFINE R == {Item(q, "run")}
    <3>1. Is(i, R) = 0 /\ Is(k, R) = 0
      BY <1>4, <2>2, IsOne
    <3>2. Fly(R)' = Fly(R) /\ Cd(R)' = Cd(R) /\ Dd(R)' = Dd(R) /\ Rj(R)' = Rj(R)
      BY <1>7, <3>1
    <3> QED BY <3>2 DEF Live
  <2>3. Live(r)' <= 0
    <3> DEFINE R == {Item(r, "run")}
    <3>1. Is(k, R) = 1
      BY IsOne DEF k
    <3>2. Dd(R)' = Dd(R) + 1 /\ Rj(R)' = Rj(R) /\ Dd(R) \in Nat /\ Rj(R) \in Nat /\ Count(fsData, R) \in Nat
      BY <1>7, <3>1, LedgerTypes
    <3>3. /\ Live(r) = (Count(fsData, R) - Dd(R)) + Rj(R)
          /\ Live(r)' = (Count(fsData, R) - Dd(R)') + Rj(R)'
      BY <1>2 DEF Live
    <3>4. Live(r) <= 1
      <4>1. Live(r) <= IF status[r] = "waiting" THEN 1 ELSE 0
        BY <1>2 DEF Books, EndInv
      <4>2. Live(r) \in Int
        BY <3>2, <3>3
      <4> QED BY <4>1, <4>2
    <3> QED BY <3>2, <3>3, <3>4
  <2> QED BY <2>1, <2>2, <2>3 DEF Books, EndInv
<1>13. \A ops : ops \cap {"start", "finished", "ctrlDone", "dataDone", "slot"} = {} =>
                  (Holds(stack', ops) <=> (FALSE /\ "execCtrl" \in ops) \/ Holds(stack, ops))
  BY <1>3, <1>6
<1>14. \A S \in SUBSET Commands : Busy(S)' = Busy(S)
  BY <1>8
<1> QED BY <1>2, <1>9, <1>10, <1>11, <1>12, <1>13, <1>14, BooksFollow

\* Another command follows the one that ended.
LEMMA BooksStepNext ==
  ASSUME TypeInv, Books, At("finished"), This.req \in Requests, This.step \in {"open", "attr"},
         NEW t, t = Push(Call("ctrlDone", This), Rest),
         NEW next \in {"attr", "close"}, AddCtrl(Item(This.req, next), t),
         UNCHANGED <<pending, chan, fsData, login, status>>
  PROVE  Books'
<1>1. PICK i \in Objects : i = This
  BY OfAt
<1> DEFINE r == i.req
           k == Item(r, next)
<1>2. /\ r \in Requests /\ i \in Commands /\ i = Item(r, i.step) /\ i.step \in {"open", "attr"}
      /\ fsCtrl # <<>> /\ login = "LoggedIn"
  BY <1>1, StepCommand
<1>3. /\ t \in Seq(Suspended)
      /\ \A S : /\ Fly(S) = FlyIn(t, S) + Is(i, S) /\ FlyIn(t, S) \in Nat
                /\ Dd(S) = Of(t, {"dataDone"}, S) /\ Rj(S) = Of(t, {"rejected"}, S)
                /\ Of(t, {"ctrlDone"}, S) = Cd(S) + Is(i, S)
      /\ \A ops : ops \cap {"finished", "ctrlDone"} = {} => (Holds(t, ops) <=> Holds(stack, ops))
  <2>1. IsCommand(This) /\ ~IsUser(This)
    BY DEF IsCommand, IsUser
  <2> QED BY <1>1, <1>2, <2>1, StepEnds
<1>4. /\ i \notin Logins /\ \A T : (i \in Steps(T) <=> r \in T) /\ i \notin Moving(T)
      /\ k \in Commands /\ \A T : k \in Steps(T) <=> r \in T
      /\ \A q \in Requests : i # Item(q, "run") /\ k # Item(q, "run")
  BY SMTT(30), <1>2, Membership
<1>5. fsCtrl' = Append(fsCtrl, k) /\ stack' = t
  BY <1>1, <1>2 DEF AddCtrl
<1> HIDE DEF r, k
<1>6. \A S : /\ Fly(S)' = FlyIn(t, S) /\ Rj(S)' = Of(t, {"rejected"}, S)
             /\ Cd(S)' = Of(t, {"ctrlDone"}, S) /\ Dd(S)' = Of(t, {"dataDone"}, S)
  BY <1>5, Now
<1>7. \A S : /\ Fly(S) = Fly(S)' + Is(i, S) /\ Cd(S)' = Cd(S) + Is(i, S)
             /\ Dd(S)' = Dd(S) /\ Rj(S)' = Rj(S)
             /\ Fly(S)' \in Nat /\ Cd(S) \in Nat /\ Dd(S) \in Nat /\ Is(i, S) \in Nat /\ Is(k, S) \in Nat
  <2>1. \A S : Is(i, S) \in Nat /\ Is(k, S) \in Nat /\ Cd(S) \in Nat /\ Dd(S) \in Nat
    BY IsOne, LedgerTypes
  <2> QED BY <1>3, <1>6, <2>1
<1>8. /\ fsCtrl' # <<>> /\ Head(fsCtrl') = Head(fsCtrl)
      /\ \A S : Count(fsCtrl', S) = Count(fsCtrl, S) + Is(k, S) /\ Count(fsCtrl, S) \in Nat
  BY <1>2, <1>4, <1>5, CtrlGrows
<1>9. \A S : Busy(S)' = Busy(S)
  BY <1>7 DEF Busy
<1>10. \A T \in SUBSET Requests : Act(T)' = Act(T)
  <2> TAKE T \in SUBSET Requests
  <2> DEFINE M == Moving(T)
             P == Steps(T)
  <2>1. Is(i, M) = 0 /\ Is(k, P) = Is(i, P)
    BY <1>4, IsOne
  <2>2. /\ Fly(M) = Fly(M)' + Is(i, M) /\ Fly(M)' \in Nat /\ Dd(M)' = Dd(M) /\ Dd(M) \in Nat
        /\ Cd(P)' = Cd(P) + Is(i, P) /\ Cd(P) \in Nat /\ Is(i, P) \in Nat
        /\ Count(fsCtrl', P) = Count(fsCtrl, P) + Is(k, P) /\ Count(fsCtrl, P) \in Nat
    BY <1>7, <1>8
  <2>3. Fly(M)' = Fly(M)
    BY <2>1, <2>2
  <2> QED BY <2>1, <2>2, <2>3 DEF Act
<1>11. KindsInv'
  <2>1. i \notin Objects \ Commands
    BY <1>2
  <2>2. Cd(Objects \ Commands)' = Cd(Objects \ Commands)
    BY <1>7, <2>1, IsOne
  <2> QED BY <1>7, <2>2 DEF Books, KindsInv
<1>12. Fly(Logins)' = Fly(Logins)
  BY <1>4, <1>7, IsOne
<1>13. EndInv'
  <2>1. ASSUME NEW q \in Requests PROVE Live(q)' = Live(q)
    <3> DEFINE R == {Item(q, "run")}
    <3>1. Is(i, R) = 0 /\ Is(k, R) = 0
      BY <1>4, IsOne
    <3>2. Fly(R)' = Fly(R) /\ Cd(R)' = Cd(R) /\ Dd(R)' = Dd(R) /\ Rj(R)' = Rj(R)
          /\ Count(fsCtrl', R) = Count(fsCtrl, R)
      BY <1>7, <1>8, <3>1
    <3> QED BY <3>2 DEF Live
  <2> QED BY <2>1 DEF Books, EndInv
<1>14. \A ops : ops \cap {"start", "finished", "ctrlDone", "dataDone", "slot"} = {} =>
                  (Holds(stack', ops) <=> (FALSE /\ "execCtrl" \in ops) \/ Holds(stack, ops))
  BY <1>3, <1>5
<1>15. \A S \in SUBSET Commands : Busy(S)' = Busy(S)
  BY <1>9
<1> QED BY <1>2, <1>8, <1>10, <1>11, <1>12, <1>13, <1>14, <1>15, BooksFollow

\* The file is open: its contents follow.
LEMMA BooksStepMove ==
  ASSUME TypeInv, Books, At("finished"), This.req \in Requests, This.step \in {"open", "attr"},
         NEW t, t = Push(Call("ctrlDone", This), Rest),
         stack' = Push(Call("start", Item(This.req, "data")), t),
         UNCHANGED <<pending, chan, fsCtrl, fsData, login, status>>
  PROVE  Books'
<1>1. PICK i \in Objects : i = This
  BY OfAt
<1> DEFINE r == i.req
           k == Item(r, "data")
<1>2. /\ r \in Requests /\ i \in Commands /\ i = Item(r, i.step) /\ i.step \in {"open", "attr"}
      /\ fsCtrl # <<>> /\ login = "LoggedIn"
  BY <1>1, StepCommand
<1>3. /\ t \in Seq(Suspended)
      /\ \A S : /\ Fly(S) = FlyIn(t, S) + Is(i, S) /\ FlyIn(t, S) \in Nat
                /\ Dd(S) = Of(t, {"dataDone"}, S) /\ Rj(S) = Of(t, {"rejected"}, S)
                /\ Of(t, {"ctrlDone"}, S) = Cd(S) + Is(i, S)
      /\ \A ops : ops \cap {"finished", "ctrlDone"} = {} => (Holds(t, ops) <=> Holds(stack, ops))
  <2>1. IsCommand(This) /\ ~IsUser(This)
    BY DEF IsCommand, IsUser
  <2> QED BY <1>1, <1>2, <2>1, StepEnds
<1>4. /\ i \notin Logins /\ \A T : (i \in Steps(T) <=> r \in T) /\ i \notin Moving(T)
      /\ k \notin Commands /\ k \notin Logins /\ k \in Objects
      /\ \A T : (k \in Moving(T) <=> r \in T) /\ k \notin Steps(T)
      /\ \A q \in Requests : i # Item(q, "run") /\ k # Item(q, "run")
  BY SMTT(30), <1>2, Membership
<1>5. stack' = Push(Call("start", k), t)
  BY <1>1
<1> HIDE DEF r, k
<1>6. /\ \A S : /\ Fly(S)' = FlyIn(t, S) + Is(k, S) /\ Rj(S)' = Of(t, {"rejected"}, S)
                /\ Cd(S)' = Of(t, {"ctrlDone"}, S) /\ Dd(S)' = Of(t, {"dataDone"}, S)
      /\ \A ops : Holds(stack', ops) <=> "start" \in ops \/ Holds(t, ops)
  <2> DEFINE f == Call("start", k)
  <2>1. f \in Suspended /\ f.op = "start" /\ f.item = k /\ "start" \in InFlight
    BY <1>4, FrameTypes DEF Ops, InFlight
  <2>2. stack' = Push(f, t)
    BY <1>5
  <2> HIDE DEF f
  <2> QED BY <1>3, <2>1, <2>2, After
<1>7. \A S : /\ Fly(S)' + Is(i, S) = Fly(S) + Is(k, S) /\ Cd(S)' = Cd(S) + Is(i, S)
             /\ Dd(S)' = Dd(S) /\ Rj(S)' = Rj(S)
             /\ Fly(S)' \in Nat /\ Fly(S) \in Nat /\ Cd(S) \in Nat /\ Dd(S) \in Nat
             /\ Is(i, S) \in Nat /\ Is(k, S) \in Nat
  <2>1. \A S : Is(i, S) \in Nat /\ Is(k, S) \in Nat /\ Cd(S) \in Nat /\ Dd(S) \in Nat
    BY IsOne, LedgerTypes
  <2> QED BY <1>3, <1>6, <2>1
<1>8. \A S \in SUBSET Commands : Busy(S)' = Busy(S)
  <2> TAKE S \in SUBSET Commands
  <2>1. Is(k, S) = 0
    BY <1>4, IsOne
  <2> QED BY <1>7, <2>1 DEF Busy
<1>9. \A T \in SUBSET Requests : Act(T)' = Act(T)
  <2> TAKE T \in SUBSET Requests
  <2> DEFINE M == Moving(T)
             P == Steps(T)
  <2>1. Is(i, M) = 0 /\ Is(k, M) = Is(i, P)
    BY <1>4, IsOne
  <2>2. /\ Fly(M)' + Is(i, M) = Fly(M) + Is(k, M) /\ Fly(M)' \in Nat /\ Fly(M) \in Nat /\ Is(k, M) \in Nat
        /\ Dd(M)' = Dd(M) /\ Dd(M) \in Nat
        /\ Cd(P)' = Cd(P) + Is(i, P) /\ Cd(P) \in Nat /\ Count(fsCtrl, P) \in Nat
    BY <1>7, LedgerTypes
  <2>3. Fly(M)' = Fly(M) + Is(k, M)
    BY <2>1, <2>2
  <2> QED BY <2>1, <2>2, <2>3 DEF Act
<1>10. KindsInv'
  <2>1. i \notin Objects \ Commands
    BY <1>2
  <2>2. Cd(Objects \ Commands)' = Cd(Objects \ Commands)
    BY <1>7, <2>1, IsOne
  <2> QED BY <1>7, <2>2 DEF Books, KindsInv
<1>11. Fly(Logins)' = Fly(Logins)
  <2>1. Is(i, Logins) = 0 /\ Is(k, Logins) = 0
    BY <1>4, IsOne
  <2> QED BY <1>7, <2>1
<1>12. EndInv'
  <2>1. ASSUME NEW q \in Requests PROVE Live(q)' = Live(q)
    <3> DEFINE R == {Item(q, "run")}
    <3>1. Is(i, R) = 0 /\ Is(k, R) = 0
      BY <1>4, IsOne
    <3>2. Fly(R)' = Fly(R) /\ Cd(R)' = Cd(R) /\ Dd(R)' = Dd(R) /\ Rj(R)' = Rj(R)
      BY <1>7, <3>1
    <3> QED BY <3>2 DEF Live
  <2> QED BY <2>1 DEF Books, EndInv
<1>13. \A ops : ops \cap {"start", "finished", "ctrlDone", "dataDone", "slot"} = {} =>
                  (Holds(stack', ops) <=> (FALSE /\ "execCtrl" \in ops) \/ Holds(stack, ops))
  BY <1>3, <1>6
<1> QED BY <1>2, <1>8, <1>9, <1>10, <1>11, <1>12, <1>13, BooksFollow

\* The contents are there, or not: the file is to be closed.
LEMMA BooksStepClose ==
  ASSUME TypeInv, Books, At("finished"), This.req \in Requests, This.step = "data",
         AddCtrl(Item(This.req, "close"), Rest),
         UNCHANGED <<pending, chan, fsData, login, status>>
  PROVE  Books'
<1>1. PICK i \in Objects, empty \in BOOLEAN, t \in Seq(Suspended) :
        i = This /\ t = Rest /\ empty = (fsCtrl = <<>>)
  BY OfAt
<1> DEFINE r == i.req
           k == Item(r, "close")
<1>2. /\ r \in Requests /\ i = Item(r, "data")
      /\ \A S : /\ Fly(S) = FlyIn(t, S) + Is(i, S) /\ FlyIn(t, S) \in Nat
                /\ Dd(S) = Of(t, {"dataDone"}, S) /\ Rj(S) = Of(t, {"rejected"}, S)
                /\ Of(t, {"ctrlDone"}, S) = Cd(S)
      /\ \A ops : ops \cap {"finished", "ctrlDone"} = {} => (Holds(t, ops) <=> Holds(stack, ops))
  <2>1. ~IsUser(This) /\ ~IsCommand(This)
    BY DEF IsCommand, IsUser
  <2>2. t = IF IsCommand(This) THEN Push(Call("ctrlDone", This), Rest) ELSE Rest
    BY <1>1, <2>1
  <2> QED BY <1>1, <2>1, <2>2, StepEnds
<1>3. /\ i \notin Logins /\ i \notin Commands /\ \A T : (i \in Moving(T) <=> r \in T)
      /\ k \in Commands /\ \A T : k \in Steps(T) <=> r \in T
      /\ \A q \in Requests : i # Item(q, "run") /\ k # Item(q, "run")
  BY <1>2, Membership
<1>4. AddCtrl(k, Rest)
  BY <1>1
<1> HIDE DEF r, k
<1>5. stack' = (IF empty THEN Push(Do("execCtrl"), t) ELSE t) /\ fsCtrl' = Append(fsCtrl, k)
  BY <1>1, <1>4 DEF AddCtrl
<1>6. /\ \A S : /\ Fly(S)' = FlyIn(t, S) /\ Cd(S)' = Of(t, {"ctrlDone"}, S)
                /\ Dd(S)' = Of(t, {"dataDone"}, S) /\ Rj(S)' = Of(t, {"rejected"}, S)
      /\ \A ops : Holds(stack', ops) <=> (empty /\ "execCtrl" \in ops) \/ Holds(t, ops)
  BY <1>5, Adding
<1>7. \A S : /\ Fly(S) = Fly(S)' + Is(i, S) /\ Cd(S)' = Cd(S) /\ Dd(S)' = Dd(S) /\ Rj(S)' = Rj(S)
             /\ Fly(S)' \in Nat /\ Cd(S) \in Nat /\ Dd(S) \in Nat /\ Is(i, S) \in Nat /\ Is(k, S) \in Nat
  BY <1>2, <1>6, IsOne, LedgerTypes
<1>8. /\ fsCtrl' # <<>> /\ (~empty => fsCtrl # <<>> /\ Head(fsCtrl') = Head(fsCtrl)) /\ (empty => fsCtrl = <<>>)
      /\ \A S : Count(fsCtrl', S) = Count(fsCtrl, S) + Is(k, S) /\ Count(fsCtrl, S) \in Nat
  BY <1>1, <1>3, <1>5, CtrlGrows
<1>9. login = "LoggedIn"
  <2>0. Is(i, Moving({r})) = 1
    BY <1>3, IsOne
  <2>1. Fly(Moving({r})) > 0
    BY <1>7, <2>0
  <2>2. Fly(Moving({r})) <= Act({r}) /\ Act({r}) \in Nat /\ Fly(Moving({r})) \in Nat
    BY <1>2, ActNat DEF Books
  <2>3. Act({r}) > 0
    BY <2>1, <2>2
  <2> QED BY <1>2, <2>3, DataHead DEF Books
<1>10. \A S \in SUBSET Commands : Busy(S)' = Busy(S)
  <2> TAKE S \in SUBSET Commands
  <2>1. Is(i, S) = 0
    BY <1>3, IsOne
  <2>2. Fly(S)' = Fly(S)
    BY <1>7, <2>1
  <2> QED BY <1>7, <2>2 DEF Busy
<1>11. \A T \in SUBSET Requests : Act(T)' = Act(T)
  <2> TAKE T \in SUBSET Requests
  <2> DEFINE M == Moving(T)
             P == Steps(T)
  <2>1. Is(k, P) = Is(i, M)
    BY <1>3, IsOne
  <2>2. /\ Fly(M) = Fly(M)' + Is(i, M) /\ Fly(M)' \in Nat /\ Is(i, M) \in Nat
        /\ Dd(M)' = Dd(M) /\ Dd(M) \in Nat
        /\ Cd(P)' = Cd(P) /\ Cd(P) \in Nat
        /\ Count(fsCtrl', P) = Count(fsCtrl, P) + Is(k, P) /\ Count(fsCtrl, P) \in Nat
    BY <1>7, <1>8
  <2> QED BY <2>1, <2>2 DEF Act
<1>12. KindsInv'
  BY <1>7 DEF Books, KindsInv
<1>13. Fly(Logins)' = Fly(Logins)
  BY <1>3, <1>7, IsOne
<1>14. EndInv'
  <2>1. ASSUME NEW q \in Requests PROVE Live(q)' = Live(q)
    <3> DEFINE R == {Item(q, "run")}
    <3>1. Is(i, R) = 0 /\ Is(k, R) = 0
      BY <1>3, IsOne
    <3>2. Fly(R)' = Fly(R) /\ Cd(R)' = Cd(R) /\ Dd(R)' = Dd(R) /\ Rj(R)' = Rj(R)
          /\ Count(fsCtrl', R) = Count(fsCtrl, R)
      BY <1>7, <1>8, <3>1
    <3> QED BY <3>2 DEF Live
  <2> QED BY <2>1 DEF Books, EndInv
<1>15. \A ops : ops \cap {"start", "finished", "ctrlDone", "dataDone", "slot"} = {} =>
                  (Holds(stack', ops) <=> (empty /\ "execCtrl" \in ops) \/ Holds(stack, ops))
  BY <1>2, <1>6
<1> QED BY <1>8, <1>9, <1>10, <1>11, <1>12, <1>13, <1>14, <1>15, BooksFollow

\* The books balance after every step whose callers are known.
LEMMA BooksStep ==
  ASSUME TypeInv, Books, At("finished"), FinishStep(TRUE)
  PROVE  Books'
<1> DEFINE t == IF TRUE /\ IsCommand(This) THEN Push(Call("ctrlDone", This), Rest) ELSE Rest
<1>1. UNCHANGED <<pending, chan, fsData, login>> /\ This.req \in Requests /\ ~IsUser(This)
  BY DEF FinishStep
<1>2. \/ (This.step = "close" \/ This.step = "open") /\ Finish(This.req, TRUE, t) /\ UNCHANGED fsCtrl
      \/ This.step \in {"data", "attr"} /\ AddCtrl(Item(This.req, "close"), t) /\ UNCHANGED status
      \/ This.step = "open" /\ AddCtrl(Item(This.req, "attr"), t) /\ UNCHANGED status
      \/ /\ This.step \in {"attr", "open"} /\ stack' = Push(Call("start", Item(This.req, "data")), t)
         /\ UNCHANGED <<fsCtrl, status>>
  BY DEF FinishStep
<1>3. /\ This.step # "data" => t = Push(Call("ctrlDone", This), Rest)
      /\ This.step = "data" => t = Rest
  <2>1. This.step \in {"open", "attr", "data", "close"}
    <3>1. This \in Objects
      BY OfAt
    <3> QED BY <1>1, <3>1, ObjectIs, ManagerAssumption DEF IsUser, ManagerAssumption, Manager
  <2>2. IsCommand(This) <=> This.step # "data"
    BY <1>1, <2>1 DEF IsCommand, IsUser
  <2> QED BY <2>2
<1> HIDE DEF t
<1>4. CASE (This.step = "close" \/ This.step = "open") /\ Finish(This.req, TRUE, t) /\ UNCHANGED fsCtrl
  BY <1>1, <1>3, <1>4, BooksStepLast
<1>5. CASE This.step \in {"data", "attr"} /\ AddCtrl(Item(This.req, "close"), t) /\ UNCHANGED status
  <2>1. CASE This.step = "data"
    BY <1>1, <1>3, <1>5, <2>1, BooksStepClose
  <2>2. CASE This.step = "attr"
    BY <1>1, <1>3, <1>5, <2>2, BooksStepNext
  <2> QED BY <1>5, <2>1, <2>2
<1>6. CASE This.step = "open" /\ AddCtrl(Item(This.req, "attr"), t) /\ UNCHANGED status
  BY <1>1, <1>3, <1>6, BooksStepNext
<1>7. CASE /\ This.step \in {"attr", "open"} /\ stack' = Push(Call("start", Item(This.req, "data")), t)
           /\ UNCHANGED <<fsCtrl, status>>
  BY <1>1, <1>3, <1>7, BooksStepMove
<1> QED BY <1>2, <1>4, <1>5, <1>6, <1>7

\* A new channel: what the old one carried is gone.
LEMMA BooksReplace ==
  ASSUME TypeInv, Books, SetChannel
  PROVE  Books'
<1>0. UNCHANGED <<pending, fsCtrl, fsData, login, status>> /\ MayReplace
      /\ stack = <<>> /\ stack' = <<Do("slot")>> /\ chan' = <<>>
  BY DEF SetChannel, fsVars, Idling
<1>1. /\ \A ops : ~Holds(stack, ops)
      /\ \A ops : Holds(stack', ops) => "slot" \in ops
      /\ \A ops, S : Of(stack, ops, S) = 0
      /\ \A ops, S : "slot" \notin ops => Of(stack', ops, S) = 0
  <2> DEFINE f == Do("slot")
  <2>1. f \in Suspended /\ f.op = "slot" /\ <<>> \in Seq(Suspended)
    BY DoTypes DEF Ops
  <2>2. stack' = Push(f, <<>>)
    BY <1>0, PushAlone DEF Push
  <2> HIDE DEF f
  <2>3. /\ \A ops, S : f.op \notin ops => Of(Push(f, <<>>), ops, S) = Of(<<>>, ops, S)
        /\ \A ops : Holds(Push(f, <<>>), ops) <=> f.op \in ops \/ Holds(<<>>, ops)
    BY <2>1, OfPush, HoldsPush
  <2> QED BY <1>0, <2>1, <2>2, <2>3, OfNone, HoldsNone
<1>2. \A S : /\ Cd(S) = 0 /\ Dd(S) = 0 /\ Rj(S) = 0 /\ Cd(S)' = 0 /\ Dd(S)' = 0 /\ Rj(S)' = 0
             /\ Of(stack, InFlight, S) = 0 /\ Of(stack', InFlight, S) = 0
  BY <1>1 DEF Cd, Dd, Rj, InFlight
<1>3. \A S : Fly(S)' <= Fly(S) /\ Fly(S)' \in Nat /\ Fly(S) \in Nat
  <2> TAKE S
  <2>1. Count(pending, S) \in Nat /\ Count(chan, Carrying(S)) \in Nat /\ Fly(S) \in Nat
    BY LedgerTypes
  <2>2. Fly(S)' = Count(pending, S) + 0 + 0
    BY <1>0, <1>2, CountNone DEF Fly
  <2>3. Fly(S) = Count(pending, S) + Count(chan, Carrying(S)) + 0
    BY <1>2 DEF Fly
  <2> QED BY <2>1, <2>2, <2>3
<1>4. \A S : Busy(S)' <= Busy(S) /\ Busy(S)' \in Nat /\ Busy(S) \in Nat
  <2> TAKE S
  <2>1. Busy(S)' = Fly(S)' + 0 /\ Busy(S) = Fly(S) + 0
    BY <1>2 DEF Busy
  <2> QED BY <1>3, <2>1
<1>5. \A T : Act(T)' <= Act(T) /\ Act(T)' \in Nat /\ Act(T) \in Nat
  <2> TAKE T
  <2>1. /\ Act(T) = Fly(Moving(T)) + 0 + (Count(fsCtrl, Steps(T)) - 0)
        /\ Act(T)' = Fly(Moving(T))' + 0 + (Count(fsCtrl, Steps(T)) - 0)
    BY <1>0, <1>2 DEF Act
  <2>2. Count(fsCtrl, Steps(T)) \in Nat
    BY LedgerTypes
  <2> QED BY <1>3, <2>1, <2>2
<1>6. \A q \in Requests : Live(q)' <= Live(q) /\ Live(q)' \in Int /\ Live(q) \in Int
  <2> TAKE q \in Requests
  <2> DEFINE R == {Item(q, "run")}
  <2>1. Count(fsCtrl, R) \in Nat /\ Count(fsData, R) \in Nat
    BY LedgerTypes
  <2>2. CASE Kind[q] \in {"plain", "empty"}
    <3>1. Live(q) = Fly(R) /\ Live(q)' = Fly(R)'
      BY <2>2 DEF Live
    <3> QED BY <1>3, <3>1
  <2>3. CASE Kind[q] \notin {"plain", "empty"}
    <3>1. Live(q)' = Live(q)
      BY <1>0, <1>2, <2>3 DEF Live
    <3>2. Live(q) = (Count(fsCtrl, R) - 0) + 0 \/ Live(q) = (Count(fsData, R) - 0) + 0
      BY <1>2, <2>3 DEF Live
    <3> QED BY <2>1, <3>1, <3>2
  <2> QED BY <2>2, <2>3
<1>7. KindsInv'
  BY <1>2 DEF KindsInv
<1>8. /\ ~Holds(stack', {"failFS", "rejected"}) /\ ~Holds(stack', {"execAny"})
      /\ ~Holds(stack', {"execCtrl", "execData"}) /\ ~Holds(stack', {"execCtrl", "execAny"})
      /\ ~Holds(stack', {"failFS", "execCtrl"}) /\ ~Holds(stack', {"startData", "execData", "execAny"})
  BY <1>1
<1>9. LoginInv'
  BY <1>0, <1>3, <1>8 DEF Books, LoginInv
<1>10. CtrlInv'
  BY <1>0, <1>1, <1>4, <1>8 DEF Books, CtrlInv
<1>11. DataInv'
  <2>1. Act(Requests)' <= 1
    BY <1>5 DEF Books, DataInv
  <2>2. login # "LoggedIn" \/ fsData = <<>> => Act(Requests)' = 0
    BY <1>5 DEF Books, DataInv
  <2>3. \A r \in Requests : fsData # <<>> /\ r # Head(fsData).req => Act({r})' = 0
    BY <1>5 DEF Books, DataInv
  <2>4. ~(login = "NotLoggedIn" /\ fsData # <<>>)
    BY <1>1 DEF Books, DataInv
  <2> QED BY <1>0, <1>8, <2>1, <2>2, <2>3, <2>4 DEF DataInv
<1>12. EndInv'
  BY <1>0, <1>6 DEF Books, EndInv
<1> QED BY <1>7, <1>9, <1>10, <1>11, <1>12 DEF Books

\* Every step keeps the books.
LEMMA BooksNext ==
  ASSUME TypeInv, Top, OwnInv, StartDataInv, Books, [Next]_vars
  PROVE  Books'
<1>1. CASE App
  <2>1. ASSUME NEW r \in Requests, AppExec(r) PROVE Books'
    <3>1. Kind[r] \in Kinds
      BY Membership
    <3> QED BY <2>1, <3>1, BooksExecCtrl, BooksExecData, BooksExecPlain DEF Kinds
  <2>2. CASE AppConnect \/ AppDisconnect
    BY <2>2, QuietSteps, BooksQuiet
  <2>3. CASE SetChannel
    BY <2>3, BooksReplace
  <2> QED BY <1>1, <2>1, <2>2, <2>3 DEF App
<1>2. CASE Loop \/ UNCHANGED vars
  BY <1>2, QuietSteps, BooksQuiet
<1>3. CASE Start
  <2>1. CASE UNCHANGED fsCtrl
    BY <1>3, <2>1, QuietStart, BooksQuiet
  <2>2. CASE IsTransfer(This) /\ AddCtrl(Item(This.req, "open"), Rest) /\ UNCHANGED <<pending, chan>>
    BY <1>3, <2>2, BooksOpen
  <2>3. UNCHANGED fsCtrl \/ (IsTransfer(This) /\ AddCtrl(Item(This.req, "open"), Rest) /\ UNCHANGED <<pending, chan>>)
    BY <1>3 DEF Start
  <2> QED BY <2>1, <2>2, <2>3
<1>4. CASE Finished
  <2>1. At("finished") /\ (FinishUser(TRUE) \/ FinishStep(TRUE) \/ FinishOwn)
    BY <1>4 DEF Finished
  <2>2. CASE This \in Buffers
    BY <1>4, <2>2, QuietBuffers, BooksQuiet
  <2>3. CASE This \notin Buffers
    BY <2>1, <2>3, BooksFinish, BooksStep, BooksOwn
  <2> QED BY <2>2, <2>3
<1>5. CASE ExecNextFSRequest \/ StartData \/ CtrlDone \/ DataDone \/ Rejected \/ FailFS
  BY <1>5, BooksExec, BooksStartData, BooksCtrlDone, BooksDataDone, BooksReject, BooksFailFS
<1>6. CASE OnChannelConnected \/ StartPending \/ FailPending
  BY <1>6, QuietBuffers, QuietPending, BooksQuiet
<1>7. CASE \/ OnChannelDisconnected \/ OnChannelError \/ ErrorFinish \/ ErrorClose \/ Drain \/ SocketAbort
           \/ Closed \/ SlotReturns
  BY <1>7, QuietSteps, BooksQuiet
<1> QED BY <1>1, <1>2, <1>3, <1>4, <1>5, <1>6, <1>7 DEF Next, Resume

\* At the start there is nothing to book.
LEMMA BooksInit == Init => Books /\ Top /\ ChanInv /\ OwnInv /\ StartDataInv
<1> SUFFICES ASSUME Init PROVE Books /\ Top /\ ChanInv /\ OwnInv /\ StartDataInv
  OBVIOUS
<1>1. /\ stack = <<>> /\ chan = <<>> /\ pending = <<>> /\ fsCtrl = <<>> /\ fsData = <<>>
      /\ login = "NotLoggedIn" /\ status = [r \in Requests |-> "new"]
  BY DEF Init
<1>2. /\ \A S : Count(pending, S) = 0 /\ Count(chan, S) = 0 /\ Count(fsCtrl, S) = 0 /\ Count(fsData, S) = 0
      /\ \A ops, S : Of(stack, ops, S) = 0
      /\ \A ops : ~Holds(stack, ops)
      /\ \A op : ~At(op)
  BY <1>1, CountNone, OfNone, HoldsNone DEF At
<1>3. \A S : Fly(S) = 0 /\ Cd(S) = 0 /\ Dd(S) = 0 /\ Rj(S) = 0
  <2>1. \A S : Fly(S) = 0 + 0 + 0
    BY <1>2 DEF Fly
  <2> QED BY <1>2, <2>1 DEF Cd, Dd, Rj
<1>4. \A S : Busy(S) = 0 /\ Act(S) = 0
  <2> TAKE S
  <2>1. Fly(S) = 0 /\ Cd(S) = 0
    BY <1>3
  <2>2. Fly(Moving(S)) = 0 /\ Dd(Moving(S)) = 0 /\ Count(fsCtrl, Steps(S)) = 0 /\ Cd(Steps(S)) = 0
    BY <1>2, <1>3
  <2> QED BY <2>1, <2>2 DEF Busy, Act
<1>5. \A r \in Requests : Live(r) = 0
  <2> TAKE r \in Requests
  <2> DEFINE R == {Item(r, "run")}
  <2>1. Fly(R) = 0 /\ Cd(R) = 0 /\ Dd(R) = 0 /\ Rj(R) = 0 /\ Count(fsCtrl, R) = 0 /\ Count(fsData, R) = 0
    BY <1>2, <1>3
  <2> QED BY <2>1 DEF Live
<1>6. Books
  BY <1>1, <1>2, <1>3, <1>4, <1>5 DEF Books, KindsInv, LoginInv, CtrlInv, DataInv, EndInv
<1>7. Top /\ ChanInv /\ OwnInv /\ StartDataInv
  BY <1>1, <1>2 DEF Top, ChanInv, OwnInv, StartDataInv
<1> QED BY <1>6, <1>7

-----------------------------------------------------------------------------
(* The invariants that say where the manager is when its login has ended.   *)

\* The channel holds nothing while the manager is not connected.
LEMMA ChanNext ==
  ASSUME TypeInv, Top, Top', ChanInv, TypeInv', [Next]_vars
  PROVE  ChanInv'
<1>1. ASSUME NEW rest, NEW ok \in BOOLEAN, ChannelFinish(ok, rest) PROVE chan = <<>> => chan' = <<>>
  BY <1>1 DEF ChannelFinish
<1>2. Start => Top /\ At("start")
  BY DEF Start
<1>3. At("start") => ~Holds(stack, {"onDisconnected"})
  <2>1. SUFFICES ASSUME At("start") PROVE ~Holds(stack, {"onDisconnected"})
    OBVIOUS
  <2>2. Calm(stack)
    BY <2>1, CalmIs DEF TypeInv, AtOnce
  <2> QED BY <2>2 DEF Calm, Holds, AtOnce
<1>4. isConnected' = isConnected \/ isConnected' \/ At("onDisconnected") \/ chan' = <<>>
  BY DEF Next, App, AppExec, AppConnect, AppDisconnect, SetChannel, Resume, Start, ExecNextFSRequest, ExecFS,
         StartData, CtrlDone, DataDone, Finished, FinishUser, FinishStep, FinishOwn, Rejected, FailFS,
         OnChannelConnected, Established, StartPending, OnChannelDisconnected, OnChannelError, FailPending,
         ErrorFinish, ErrorClose, Drain, SocketAbort, Closed, SlotReturns,
         Loop, Answer, NotConnected, Timeout, LinkBreaks, Noise, Connected, ConnectFails, CloseEnds,
         vars, managerVars, connVars
<1>5. chan = <<>> => chan' = <<>> \/ (Start /\ isConnected /\ isConnected' = isConnected)
  BY <1>1 DEF Next, App, AppExec, AppConnect, AppDisconnect, SetChannel, Resume, Start, ExecNextFSRequest, ExecFS,
         StartData, CtrlDone, DataDone, Finished, FinishUser, FinishStep, FinishOwn, Rejected, FailFS,
         OnChannelConnected, StartPending, OnChannelDisconnected, OnChannelError, FailPending,
         ErrorFinish, ErrorClose, Drain, SocketAbort, Closed, SlotReturns,
         Loop, Answer, NotConnected, Timeout, LinkBreaks, Noise, Connected, ConnectFails, CloseEnds,
         vars, connVars
<1>6. At("onDisconnected") => Holds(stack, {"onDisconnected"})
  BY HoldsAt DEF TypeInv
<1>7. ~isConnected' => chan' = <<>>
  BY <1>4, <1>5, <1>6 DEF ChanInv
<1>8. Holds(stack', {"onDisconnected"}) => chan' = <<>>
  <2> SUFFICES ASSUME Holds(stack', {"onDisconnected"}) PROVE chan' = <<>>
    OBVIOUS
  <2>1. stack' # <<>> /\ Head(stack').op = "onDisconnected"
    <3>1. stack' # <<>> /\ stack' \in Seq(Suspended)
      BY HoldsNone DEF TypeInv
    <3>2. Head(stack') \in Suspended /\ Tail(stack') \in Seq(Suspended) /\ stack' = Push(Head(stack'), Tail(stack'))
      BY <3>1 DEF Push
    <3>3. Head(stack').op = "onDisconnected" \/ Holds(Tail(stack'), {"onDisconnected"})
      BY <3>2, HoldsPush
    <3>4. ~Holds(Tail(stack'), AtOnce)
      BY <3>1 DEF Top
    <3> QED BY <3>1, <3>3, <3>4 DEF Holds, AtOnce
  <2>2. RareTurn'
    BY <2>1 DEF RareTurn, Rare
  <2>3. CASE Answer
    <3>1. PICK ok \in BOOLEAN : ChannelFinish(ok, <<>>)
      BY <2>3 DEF Answer
    <3>2. stack' = <<>> \/ \E f \in Suspended : f.op = "finished" /\ stack' = Push(f, <<>>)
      BY <3>1, FinishLeaves
    <3> QED BY <2>1, <3>2 DEF Push
  <2>4. CASE At("finished") /\ FinishOwn
    <3>1. Calm(Rest)
      BY <2>4, CalmIs DEF TypeInv
    <3>2. /\ Call("start", Own("slave")) \in Suspended /\ Do("execAny") \in Suspended /\ Do("failFS") \in Suspended
          /\ Call("start", Own("slave")).op = "start" /\ Do("execAny").op = "execAny" /\ Do("failFS").op = "failFS"
      BY FrameTypes, ItemTypes DEF Ops, OwnSteps
    <3>3. stack' \in {Push(Do("execAny"), Rest), Push(Do("failFS"), Rest), Push(Call("start", Own("slave")), Rest), Rest}
      BY <2>4 DEF FinishOwn
    <3>4. ~At("onDisconnected")'
      BY <3>1, <3>2, <3>3, CalmAfter DEF AtOnce
    <3> QED BY <2>1, <3>4 DEF At
  <2>5. CASE Drain
    <3>1. CASE chan = <<>>
      BY <1>1, <2>5, <3>1 DEF Drain
    <3>2. CASE chan # <<>>
      <4>1. Calm(stack) /\ ChannelFinish(FALSE, stack)
        BY <2>5, <3>2, CalmIs DEF TypeInv, Drain, AtOnce
      <4>2. stack' = stack \/ \E f \in Suspended : f.op = "finished" /\ stack' = Push(f, stack)
        BY <4>1, FinishLeaves
      <4>3. ~At("onDisconnected")'
        BY <4>1, <4>2, CalmAfter DEF AtOnce
      <4> QED BY <2>1, <4>3 DEF At
    <3> QED BY <3>1, <3>2
  <2>6. CASE UNCHANGED vars
    BY <2>6 DEF vars, ChanInv
  <2> QED BY <2>2, <2>3, <2>4, <2>5, <2>6, TopNext
<1> QED BY <1>7, <1>8 DEF ChanInv

\* The manager's own exchanges end well only from the event loop.
LEMMA OwnNext ==
  ASSUME TypeInv, TypeInv', Top, Top', ChanInv, OwnInv, [Next]_vars
  PROVE  OwnInv'
<1> SUFFICES ASSUME \/ At("finished")' /\ Head(stack').ok /\ Head(stack').item.req = Manager
                    \/ Holds(stack', {"execAny"})
             PROVE  Tail(stack') = <<>> /\ isConnected'
  BY DEF OwnInv, This, Rest
<1>1. /\ stack' # <<>>
      /\ \/ Head(stack').op = "execAny"
         \/ Head(stack').op = "finished" /\ Head(stack').ok /\ Head(stack').item.req = Manager
  <2>1. stack' # <<>> /\ stack' \in Seq(Suspended)
    BY HoldsNone DEF TypeInv, At
  <2>2. Head(stack') \in Suspended /\ Tail(stack') \in Seq(Suspended) /\ stack' = Push(Head(stack'), Tail(stack'))
    BY <2>1 DEF Push
  <2>3. Head(stack').op = "execAny" \/ Holds(Tail(stack'), {"execAny"}) \/ ~Holds(stack', {"execAny"})
    BY <2>2, HoldsPush
  <2>4. ~Holds(Tail(stack'), AtOnce)
    BY <2>1 DEF Top
  <2>5. ~Holds(Tail(stack'), {"execAny"})
    BY <2>4 DEF Holds, AtOnce
  <2> QED BY <2>1, <2>3, <2>5 DEF At
<1>2. RareTurn'
  <2>1. Head(stack') \in Suspended
    BY <1>1 DEF TypeInv
  <2>2. Head(stack').item \in Objects
    BY <2>1 DEF Suspended
  <2>3. Head(stack').item.req = Manager => ~IsUser(Head(stack').item)
    BY <2>2, ObjectIs, ManagerAssumption DEF IsUser, OwnSteps, ManagerAssumption, Manager
  <2> QED BY <1>1, <2>3 DEF RareTurn, Rare
<1>3. CASE Answer
  <2>1. PICK ok \in BOOLEAN : ChannelFinish(ok, <<>>)
    BY <1>3 DEF Answer
  <2>2. stack' = <<>> \/ \E f \in Suspended : stack' = Push(f, <<>>)
    BY <2>1, FinishLeaves
  <2>3. Tail(stack') = <<>>
    BY <1>1, <2>2, CalmPush, CalmIs DEF TypeInv
  <2>4. isConnected /\ isConnected' = isConnected
    BY <1>3 DEF Answer, ChanInv, managerVars, connVars
  <2> QED BY <2>3, <2>4
<1>4. CASE At("finished") /\ FinishOwn
  <2>1. Calm(Rest) /\ isConnected' = isConnected
    BY <1>4, CalmIs DEF TypeInv, FinishOwn, connVars
  <2>2. /\ Call("start", Own("slave")) \in Suspended /\ Do("execAny") \in Suspended /\ Do("failFS") \in Suspended
        /\ Call("start", Own("slave")).op = "start" /\ Do("execAny").op = "execAny" /\ Do("failFS").op = "failFS"
    BY FrameTypes, ItemTypes DEF Ops, OwnSteps
  <2>3. \/ stack' = Push(Do("execAny"), Rest) /\ Head(stack).ok
        \/ stack' \in {Push(Do("failFS"), Rest), Push(Call("start", Own("slave")), Rest), Rest}
    BY <1>4 DEF FinishOwn
  <2>4. ASSUME stack' \in {Push(Do("failFS"), Rest), Push(Call("start", Own("slave")), Rest), Rest}
        PROVE  ~At("execAny")' /\ ~At("finished")'
    BY <2>1, <2>2, <2>4, CalmAfter DEF AtOnce
  <2>5. stack' = Push(Do("execAny"), Rest) /\ Head(stack).ok
    BY <1>1, <2>3, <2>4 DEF At
  <2>6. Rest = <<>> /\ isConnected
    BY <1>4, <2>5 DEF OwnInv, FinishOwn
  <2> QED BY <2>1, <2>2, <2>5, <2>6, CalmPush
<1>5. CASE Drain
  <2>1. /\ Calm(stack) /\ Calm(Rest) /\ Do("onDisconnected") \in Suspended
        /\ Do("onDisconnected").op = "onDisconnected"
    BY <1>5, CalmIs, DoTypes DEF TypeInv, Drain, AtOnce, Ops
  <2>2. \/ stack' = stack
        \/ \E f \in Suspended : f.op = "finished" /\ f.ok = FALSE /\ stack' = Push(f, stack)
        \/ stack' = Push(Do("onDisconnected"), Rest)
    BY <1>5, FinishLeaves DEF Drain
  <2>3. ~(At("execAny")' \/ (At("finished")' /\ Head(stack').ok))
    <3>1. CASE stack' = stack
      BY <2>1, <3>1, CalmAfter DEF AtOnce
    <3>2. CASE stack' = Push(Do("onDisconnected"), Rest)
      BY <2>1, <3>2, CalmAfter DEF AtOnce
    <3>3. ASSUME NEW f \in Suspended, f.op = "finished", f.ok = FALSE, stack' = Push(f, stack)
          PROVE  ~(At("execAny")' \/ (At("finished")' /\ Head(stack').ok))
      BY <2>1, <3>3, CalmPush DEF At
    <3> QED BY <2>2, <3>1, <3>2, <3>3
  <2> QED BY <1>1, <2>3 DEF At
<1>6. CASE UNCHANGED vars
  BY <1>6 DEF vars, managerVars, connVars, OwnInv, At, This, Rest
<1> QED BY <1>2, <1>3, <1>4, <1>5, <1>6, TopNext

\* A function that is neither pushed nor on the stack.
LEMMA Spared ==
  ASSUME NEW s, NEW op, s \in Seq(Suspended) /\ ~Holds(s, {op})
  PROVE  /\ \A f \in Suspended : f.op # op => Push(f, s) \in Seq(Suspended) /\ ~Holds(Push(f, s), {op})
         /\ s # <<>> => Tail(s) \in Seq(Suspended) /\ ~Holds(Tail(s), {op})
<1>1. ASSUME NEW f \in Suspended, f.op # op PROVE Push(f, s) \in Seq(Suspended) /\ ~Holds(Push(f, s), {op})
  BY <1>1, PushTypes, HoldsPush
<1>2. ASSUME s # <<>> PROVE Tail(s) \in Seq(Suspended) /\ ~Holds(Tail(s), {op})
  <2>1. Head(s) \in Suspended /\ Tail(s) \in Seq(Suspended) /\ s = Push(Head(s), Tail(s))
    BY <1>2 DEF Push
  <2> QED BY <2>1, HoldsPush
<1> QED BY <1>1, <1>2

\* Only execNextFSRequest leaves its other half for later.
LEMMA NoStartData ==
  ASSUME TypeInv, ~Holds(stack, {"startData"}),
         \/ \E r \in Requests : AppExec(r)
         \/ SetChannel
         \/ Start /\ IsTransfer(This) /\ AddCtrl(Item(This.req, "open"), Rest)
         \/ CtrlDone \/ DataDone \/ Finished \/ Rejected \/ FailFS \/ StartData
  PROVE  ~Holds(stack', {"startData"})
<1> DEFINE Free(s) == s \in Seq(Suspended) /\ ~Holds(s, {"startData"})
<1>0. /\ Free(stack) /\ Free(<<>>)
      /\ fsCtrl # <<>> => Head(fsCtrl) \in Objects
      /\ fsData # <<>> => Head(fsData) \in Objects
  BY HoldsNone, Parts DEF TypeInv, Commands, Transfers
<1>1. \A s : Free(s) => /\ \A f \in Suspended : f.op # "startData" => Free(Push(f, s))
                        /\ s # <<>> => Free(Tail(s))
  BY Spared
<1>2. /\ \A op \in Ops : Do(op) \in Suspended /\ Do(op).op = op
      /\ \A op \in Ops, i \in Objects : Call(op, i) \in Suspended /\ Call(op, i).op = op
  BY FrameTypes
<1>3. \A op : At(op) => Free(Rest) /\ This \in Objects
  <2>1. \A op : At(op) => stack # <<>> /\ This \in Objects
    BY AtTypes DEF TypeInv
  <2> QED BY <1>0, <1>1, <2>1 DEF Rest
<1>4. /\ \A step \in OwnSteps : Own(step) \in Objects
      /\ \A r \in Requests, step \in {"run", "open", "attr", "data", "close"} : Item(r, step) \in Objects
  BY ItemTypes
<1> HIDE DEF Free
<1>5. \A s : Free(s) => /\ \A op \in Ops : op # "startData" => Free(Push(Do(op), s))
                        /\ \A op \in Ops, i \in Objects : op # "startData" => Free(Push(Call(op, i), s))
  BY <1>1, <1>2
<1>6. {"slot", "execCtrl", "execData", "execAny", "failFS", "start", "ctrlDone", "dataDone", "rejected"}
        \subseteq Ops \ {"startData"}
  BY DEF Ops
<1>7. ASSUME NEW s, Free(s), NEW i, AddCtrl(i, s) \/ AddData(i, s) PROVE Free(stack')
  BY <1>5, <1>6, <1>7 DEF AddCtrl, AddData
<1>8. ASSUME NEW r \in Requests, AppExec(r) PROVE Free(stack')
  BY <1>0, <1>4, <1>5, <1>6, <1>7, <1>8 DEF AppExec
<1>9. ASSUME SetChannel PROVE Free(stack')
  <2>1. stack' = Push(Do("slot"), <<>>)
    BY <1>0, <1>2, <1>6, <1>9, PushAlone DEF SetChannel
  <2> QED BY <1>0, <1>5, <1>6, <2>1
<1>10. ASSUME Start /\ IsTransfer(This) /\ AddCtrl(Item(This.req, "open"), Rest) PROVE Free(stack')
  BY <1>3, <1>7, <1>10 DEF Start
<1>11. ASSUME CtrlDone \/ DataDone \/ StartData PROVE Free(stack')
  BY <1>0, <1>3, <1>5, <1>6, <1>11 DEF CtrlDone, DataDone, StartData
<1>12. ASSUME FailFS PROVE Free(stack')
  BY <1>0, <1>3, <1>5, <1>6, <1>12 DEF FailFS
<1>13. ASSUME Finished \/ Rejected PROVE Free(stack')
  <2>1. Free(Rest) /\ This \in Objects
    BY <1>3, <1>13 DEF Finished, Rejected
  <2>2. ASSUME NEW r \in Requests, NEW started \in BOOLEAN, NEW rest, Free(rest), Finish(r, started, rest)
        PROVE  Free(stack')
    <3>1. Item(r, "run") \in Objects
      BY <1>4
    <3>2. /\ Free(Push(Call("ctrlDone", Item(r, "run")), rest))
          /\ Free(Push(Call("dataDone", Item(r, "run")), rest))
      BY <1>5, <1>6, <2>2, <3>1
    <3> QED BY <1>5, <1>6, <2>2, <3>2 DEF Finish
  <2>3. ASSUME NEW started \in BOOLEAN, FinishUser(started) PROVE Free(stack')
    <3>1. This.req \in Requests
      BY <2>1, <2>3, ObjectIs DEF FinishUser, IsUser, OwnSteps
    <3> QED BY <2>1, <2>2, <2>3, <3>1 DEF FinishUser
  <2>4. ASSUME NEW started \in BOOLEAN, FinishStep(started) PROVE Free(stack')
    <3> DEFINE rest == IF started /\ IsCommand(This) THEN Push(Call("ctrlDone", This), Rest) ELSE Rest
    <3>1. This.req \in Requests
      BY <2>4 DEF FinishStep
    <3>2. Free(rest)
      BY <1>5, <1>6, <2>1
    <3>3. \/ Finish(This.req, TRUE, rest)
          \/ AddCtrl(Item(This.req, "close"), rest)
          \/ AddCtrl(Item(This.req, "attr"), rest)
          \/ stack' = Push(Call("start", Item(This.req, "data")), rest)
      BY <2>4 DEF FinishStep
    <3> HIDE DEF rest
    <3>4. Item(This.req, "data") \in Objects
      BY <1>4, <3>1
    <3> QED BY <1>5, <1>6, <1>7, <2>2, <3>1, <3>2, <3>3, <3>4
  <2>5. ASSUME FinishOwn PROVE Free(stack')
    <3>1. Own("slave") \in Objects
      BY <1>4 DEF OwnSteps
    <3>2. stack' \in {Push(Do("execAny"), Rest), Push(Do("failFS"), Rest), Push(Call("start", Own("slave")), Rest), Rest}
      BY <2>5 DEF FinishOwn
    <3> QED BY <1>5, <1>6, <2>1, <3>1, <3>2
  <2> QED BY <1>13, <2>3, <2>4, <2>5 DEF Finished, Rejected
<1>14. Free(stack')
  BY <1>8, <1>9, <1>10, <1>11, <1>12, <1>13
<1> QED BY <1>14 DEF Free

\* The other half runs next, or after the start of a command, which calls nothing.
LEMMA StartDataNext ==
  ASSUME TypeInv, Top, OwnInv, StartDataInv, [Next]_vars
  PROVE  StartDataInv'
<1>0. /\ \A op : At(op) => \A o : o # op => ~At(o)
      /\ \A op : At(op) => stack # <<>> /\ ~Idling
  BY DEF At, Idling
<1>1. CASE UNCHANGED vars
  BY <1>1 DEF vars, managerVars, connVars, fsVars, StartDataInv, At, This, Rest
<1>2. ASSUME At("startData"), ~Holds(Rest, {"startData"}), Next PROVE StartDataInv'
  <2>1. StartData
    BY <1>0, <1>2 DEF Next, App, AppTurn, AppExec, AppConnect, AppDisconnect, SetChannel, Resume, Start,
         ExecNextFSRequest, CtrlDone, DataDone, Finished, Rejected, FailFS, OnChannelConnected, StartPending,
         OnChannelDisconnected, OnChannelError, FailPending, ErrorFinish, ErrorClose, Drain, SocketAbort,
         Closed, SlotReturns, Loop, Answer, NotConnected, Timeout, LinkBreaks, Noise, Connected,
         ConnectFails, CloseEnds, Idling
  <2>2. Rest \in Seq(Suspended)
    BY <1>2, AtTypes DEF TypeInv
  <2>3. fsData # <<>> => Call("start", Head(fsData)) \in Suspended /\ Call("start", Head(fsData)).op = "start"
    BY Parts, FrameTypes DEF TypeInv, Transfers, Ops
  <2>4. ~Holds(stack', {"startData"})
    BY <1>2, <2>1, <2>2, <2>3, Spared DEF StartData
  <2> QED BY <2>4 DEF StartDataInv
<1>3. ASSUME At("start"), isConnected, This \in Commands, login = "LoggedIn", Rest # <<>>,
             Head(Rest).op = "startData", ~Holds(Tail(Rest), {"startData"}), Next
      PROVE  StartDataInv'
  <2>1. Start
    BY <1>0, <1>3 DEF Next, App, AppTurn, AppExec, AppConnect, AppDisconnect, SetChannel, Resume, StartData,
         ExecNextFSRequest, CtrlDone, DataDone, Finished, Rejected, FailFS, OnChannelConnected, StartPending,
         OnChannelDisconnected, OnChannelError, FailPending, ErrorFinish, ErrorClose, Drain, SocketAbort,
         Closed, SlotReturns, Loop, Answer, NotConnected, Timeout, LinkBreaks, Noise, Connected,
         ConnectFails, CloseEnds, Idling
  <2>2. ~IsTransfer(This) /\ ~(IsUser(This) /\ Kind[This.req] \in {"empty", "upload"})
    BY <1>3 DEF Commands, IsCommand, IsTransfer, IsUser
  <2>3. stack' = Rest /\ login' = login
    BY <1>3, <2>1, <2>2 DEF Start
  <2>4. At("startData")' /\ ~Holds(Tail(stack'), {"startData"})
    BY <1>3, <2>3 DEF At
  <2> QED BY <1>3, <2>3, <2>4 DEF StartDataInv, Rest
<1>4. ASSUME ~Holds(stack, {"startData"}), Next PROVE StartDataInv'
  <2>1. ASSUME Quiet PROVE StartDataInv'
    <3>1. {"startData"} \in SUBSET Control
      BY DEF Control
    <3> QED BY <1>4, <2>1, <3>1 DEF Quiet, StartDataInv
  <2>2. CASE ExecNextFSRequest
    <3>1. PICK type \in {{"ctrl"}, {"data"}, {"ctrl", "data"}} :
                 ExecFS(type) /\ ("ctrl" \in type /\ "data" \in type => At("execAny"))
      BY <2>2 DEF ExecNextFSRequest
    <3>2. /\ Rest \in Seq(Suspended) /\ ~Holds(Rest, {"startData"})
      BY <1>4, <2>2, AtTypes, HoldsAt DEF TypeInv, ExecNextFSRequest
    <3>3. /\ Call("start", Own("quit")) \in Suspended /\ Call("start", Own("login")) \in Suspended
          /\ Call("start", Own("quit")).op = "start" /\ Call("start", Own("login")).op = "start"
          /\ fsCtrl # <<>> => /\ Call("start", Head(fsCtrl)) \in Suspended /\ Call("start", Head(fsCtrl)).op = "start"
                              /\ Call("start", Head(fsCtrl)).item = Head(fsCtrl) /\ Head(fsCtrl) \in Commands
          /\ Do("startData") \in Suspended /\ Do("startData").op = "startData"
      BY Parts, FrameTypes, ItemTypes DEF TypeInv, Commands, Ops, OwnSteps
    <3> DEFINE t == Push(Do("startData"), Rest)
    <3>4. t \in Seq(Suspended) /\ t # <<>> /\ Head(t) = Do("startData") /\ Tail(t) = Rest
      BY <3>2, <3>3, PushTypes
    <3>5. ASSUME stack' \in {Rest, Push(Call("start", Own("quit")), Rest), Push(Call("start", Own("login")), Rest)}
                 \/ (fsCtrl # <<>> /\ stack' = Push(Call("start", Head(fsCtrl)), Rest))
          PROVE  StartDataInv'
      <4>1. \A f \in Suspended : f.op # "startData" => ~Holds(Push(f, Rest), {"startData"})
        BY <3>2, Spared
      <4>2. ~Holds(stack', {"startData"})
        BY <3>2, <3>3, <3>5, <4>1
      <4> QED BY <4>2 DEF StartDataInv
    <3>6. ASSUME stack' = t, login' = "LoggedIn" PROVE StartDataInv'
      <4>1. At("startData")' /\ ~Holds(Tail(stack'), {"startData"})
        BY <3>2, <3>3, <3>4, <3>6 DEF At
      <4> QED BY <3>6, <4>1 DEF StartDataInv, Rest
    <3>7. ASSUME fsCtrl # <<>>, stack' = Push(Call("start", Head(fsCtrl)), t), login' = "LoggedIn", isConnected'
          PROVE  StartDataInv'
      <4>1. /\ Push(Call("start", Head(fsCtrl)), t) # <<>>
            /\ Head(Push(Call("start", Head(fsCtrl)), t)) = Call("start", Head(fsCtrl))
            /\ Tail(Push(Call("start", Head(fsCtrl)), t)) = t
        BY <3>3, <3>4, <3>7, PushTypes
      <4>2. /\ At("start")' /\ Head(stack').item \in Commands
            /\ Tail(stack') # <<>> /\ Head(Tail(stack')).op = "startData"
            /\ ~Holds(Tail(Tail(stack')), {"startData"})
        BY <3>2, <3>3, <3>4, <3>7, <4>1 DEF At
      <4> QED BY <3>7, <4>2 DEF StartDataInv, This, Rest
    <3>8. "ctrl" \in type /\ "data" \in type => isConnected'
      <4>1. At("execAny") => Holds(stack, {"execAny"})
        BY HoldsAt DEF TypeInv
      <4>2. isConnected' = isConnected
        BY <3>1 DEF ExecFS, connVars
      <4> QED BY <3>1, <4>1, <4>2 DEF OwnInv
    <3> HIDE DEF t
    <3>9. \/ stack' \in {Rest, Push(Call("start", Own("quit")), Rest), Push(Call("start", Own("login")), Rest)}
          \/ fsCtrl # <<>> /\ stack' = Push(Call("start", Head(fsCtrl)), Rest)
          \/ stack' = t /\ login' = "LoggedIn"
          \/ /\ fsCtrl # <<>> /\ stack' = Push(Call("start", Head(fsCtrl)), t) /\ login' = "LoggedIn"
             /\ "ctrl" \in type /\ "data" \in type
      BY <3>1, <3>2, ExecLeaves DEF t
    <3> QED BY <3>5, <3>6, <3>7, <3>8, <3>9
  <2>3. CASE \/ AppConnect \/ AppDisconnect
             \/ OnChannelDisconnected \/ OnChannelError \/ ErrorFinish \/ ErrorClose \/ Drain \/ SocketAbort
             \/ Closed \/ SlotReturns
             \/ Loop
    BY <2>1, <2>3, QuietSteps
  <2>4. CASE StartPending \/ FailPending \/ OnChannelConnected \/ (Start /\ UNCHANGED fsCtrl)
    BY <2>1, <2>4, QuietPending, QuietBuffers, QuietStart
  <2>5. CASE \/ \E r \in Requests : AppExec(r)
             \/ SetChannel
             \/ Start /\ IsTransfer(This) /\ AddCtrl(Item(This.req, "open"), Rest)
             \/ CtrlDone \/ DataDone \/ Finished \/ Rejected \/ FailFS \/ StartData
    <3>1. ~Holds(stack', {"startData"})
      BY <1>4, <2>5, NoStartData
    <3> QED BY <3>1 DEF StartDataInv
  <2>6. Start => UNCHANGED fsCtrl \/ (IsTransfer(This) /\ AddCtrl(Item(This.req, "open"), Rest))
    BY DEF Start
  <2> QED BY <1>4, <2>2, <2>3, <2>4, <2>5, <2>6 DEF Next, App, Resume
<1> QED BY <1>1, <1>2, <1>3, <1>4 DEF StartDataInv

-----------------------------------------------------------------------------
(* Together.                                                                *)

\* Every step keeps the books.
LEMMA ManagerNext ==
  ASSUME ManagerInv, [Next]_vars
  PROVE  ManagerInv'
<1>1. TypeInv'
  BY TypeNext DEF ManagerInv
<1>2. Top'
  BY TopNext DEF ManagerInv
<1>3. ChanInv'
  BY <1>1, <1>2, ChanNext DEF ManagerInv
<1>4. OwnInv'
  BY <1>1, <1>2, OwnNext DEF ManagerInv
<1>5. StartDataInv'
  BY StartDataNext DEF ManagerInv
<1>6. Books'
  BY BooksNext DEF ManagerInv
<1> QED BY <1>1, <1>2, <1>3, <1>4, <1>5, <1>6 DEF ManagerInv

LEMMA ManagerAlways == Spec => []ManagerInv
<1>1. Init => ManagerInv
  BY TypeInit, BooksInit DEF ManagerInv
<1> QED BY <1>1, ManagerNext, PTL DEF Spec

\* A transfer that ends is still in its queue.
LEMMA DataLeft ==
  ASSUME TypeInv, KindsInv, CtrlInv, DataInv, NEW r \in Requests
  PROVE  /\ Dd({Item(r, "run")}) \in Nat /\ Count(fsData, {Item(r, "run")}) \in Nat
         /\ Dd({Item(r, "run")}) <= Count(fsData, {Item(r, "run")})
         /\ Fly(Moving({r})) > 0 /\ Kind[r] \in {"download", "upload"} =>
              Dd({Item(r, "run")}) = 0 /\ Count(fsData, {Item(r, "run")}) > 0
<1> DEFINE i == Item(r, "run")
           M == Moving({r})
           P == Steps({r})
<1>1. /\ Dd({i}) \in Nat /\ Count(fsData, {i}) \in Nat /\ Rj({i}) \in Nat
      /\ Fly(M) \in Nat /\ Dd(M) \in Nat
  BY LedgerTypes
<1>2. /\ Act({r}) = Fly(M) + Dd(M) + (Count(fsCtrl, P) - Cd(P))
      /\ Cd(P) <= Count(fsCtrl, P) /\ Cd(P) \in Nat /\ Count(fsCtrl, P) \in Nat
  <2>1. P \in SUBSET Commands
    BY KnownSets
  <2> QED BY <2>1, CtrlLeft DEF Act
<1>3. Act({r}) > 0 => fsData # <<>> /\ Head(fsData) = i /\ Act({r}) = 1
  BY DataHead
<1>4. Kind[r] \in {"download", "upload"} => Dd({i}) <= Dd(M)
  <2>1. Kind[r] \in {"download", "upload"} => {i} \subseteq M
    BY Membership
  <2> QED BY <2>1, FlyMore
<1>5. fsData # <<>> /\ Head(fsData) = i => Count(fsData, {i}) > 0
  <2>1. fsData \in Seq(Transfers)
    BY DEF TypeInv
  <2>2. fsData # <<>> => /\ Count(fsData, {i}) = Count(Tail(fsData), {i}) + Is(Head(fsData), {i})
                         /\ Count(Tail(fsData), {i}) \in Nat
    BY <2>1, Removed
  <2>3. Is(i, {i}) = 1
    BY IsOne
  <2> QED BY <2>2, <2>3
<1>6. Kind[r] \notin {"download", "upload"} => Dd({i}) = 0
  <2>1. i \notin Transfers => {i} \subseteq Objects \ Transfers
    BY ItemTypes
  <2>2. i \notin Transfers => Dd({i}) <= Dd(Objects \ Transfers)
    BY <2>1, FlyMore
  <2> QED BY <1>1, <2>2, Membership DEF KindsInv
<1> HIDE DEF i, M, P
<1>7. Dd({i}) <= Count(fsData, {i})
  BY <1>1, <1>2, <1>3, <1>4, <1>5, <1>6
<1>8. Fly(M) > 0 /\ Kind[r] \in {"download", "upload"} => Dd({i}) = 0 /\ Count(fsData, {i}) > 0
  BY <1>1, <1>2, <1>3, <1>4, <1>5
<1> QED BY <1>1, <1>7, <1>8 DEF i, M

\* A request at its end is yet to end.
LEMMA EndIsLive ==
  ASSUME TypeInv, Books, NEW op \in {"finished", "rejected"}, At(op), IsUser(This)
  PROVE  This.req \in Requests /\ Live(This.req) >= 1
<1> DEFINE r == This.req
           i == Item(r, "run")
<1>1. /\ r \in Requests /\ This = i /\ i \in Objects
  <2>1. This \in Objects
    BY AtTypes DEF TypeInv
  <2> QED BY <2>1, ObjectIs DEF IsUser, OwnSteps
<1>2. Kind[r] \in Kinds
  BY <1>1, ManagerAssumption DEF ManagerAssumption
<1>3. KindsInv /\ CtrlInv /\ DataInv
  BY DEF Books
<1>4. \A S : Fly(S) \in Nat /\ Cd(S) \in Nat /\ Dd(S) \in Nat /\ Rj(S) \in Nat /\ Count(fsCtrl, S) \in Nat
  BY LedgerTypes
<1>5. \A S : This \in S => Is(This, S) = 1
  BY IsOne
<1>6. /\ Kind[r] \in {"plain", "empty"} => Live(r) = Fly({i})
      /\ Kind[r] = "ctrl" => Live(r) = (Count(fsCtrl, {i}) - Cd({i})) + Rj({i})
      /\ Kind[r] \in {"download", "upload"} => Live(r) = (Count(fsData, {i}) - Dd({i})) + Rj({i})
  BY DEF Live
<1>7. /\ Dd({i}) \in Nat /\ Count(fsData, {i}) \in Nat /\ Dd({i}) <= Count(fsData, {i})
      /\ Fly(Moving({r})) > 0 /\ Kind[r] \in {"download", "upload"} => Dd({i}) = 0 /\ Count(fsData, {i}) > 0
  BY <1>1, <1>3, DataLeft
<1>8. ASSUME op = "finished" PROVE Live(r) >= 1
  <2>1. \A S : This \in S => Fly(S) >= 1
    <3> TAKE S
    <3>1. /\ Of(stack, InFlight, S) = Of(Rest, InFlight, S) + Is(This, S)
          /\ Of(Rest, InFlight, S) \in Nat /\ Count(pending, S) \in Nat /\ Count(chan, Carrying(S)) \in Nat
      BY <1>8, OfAt, LedgerTypes DEF InFlight
    <3> QED BY <1>5, <3>1 DEF Fly
  <2>2. CASE Kind[r] \in {"plain", "empty"}
    BY <1>1, <1>6, <2>1, <2>2
  <2>3. CASE Kind[r] = "ctrl"
    <3>1. i \in Commands
      BY <1>1, <2>3, Membership
    <3>2. Fly({i}) >= 1 /\ Busy({i}) > 0
      BY <1>1, <1>4, <2>1 DEF Busy
    <3>3. Busy({i}) = 1 /\ Count(fsCtrl, {i}) > 0
      BY <1>3, <3>1, <3>2, CtrlHead
    <3> QED BY <1>4, <1>6, <2>3, <3>2, <3>3 DEF Busy
  <2>4. CASE Kind[r] \in {"download", "upload"}
    <3>1. i \in Moving({r})
      BY <1>1, <2>4, Membership
    <3>2. Fly(Moving({r})) > 0
      BY <1>1, <1>4, <2>1, <3>1
    <3> QED BY <1>4, <1>6, <1>7, <2>4, <3>2
  <2> QED BY <1>2, <2>2, <2>3, <2>4 DEF Kinds
<1>9. ASSUME op = "rejected" PROVE Live(r) >= 1
  <2>1. \A S : This \in S => Rj(S) >= 1
    <3> TAKE S
    <3>1. /\ Of(stack, {"rejected"}, S) = Of(Rest, {"rejected"}, S) + Is(This, S)
          /\ Of(Rest, {"rejected"}, S) \in Nat
      BY <1>9, OfAt
    <3> QED BY <1>5, <3>1 DEF Rj
  <2>2. This \in Queued
    BY <1>1, <1>3, <2>1 DEF KindsInv
  <2>3. Kind[r] \in {"ctrl", "download", "upload"} /\ Rj({i}) >= 1
    BY <1>1, <2>1, <2>2, Membership
  <2>4. CASE Kind[r] = "ctrl"
    <3>1. {i} \in SUBSET Commands
      BY <1>1, <2>4, Membership
    <3>2. Cd({i}) <= Count(fsCtrl, {i})
      BY <1>3, <3>1, CtrlLeft
    <3> QED BY <1>4, <1>6, <2>3, <2>4, <3>2
  <2>5. CASE Kind[r] \in {"download", "upload"}
    BY <1>4, <1>6, <1>7, <2>3, <2>5
  <2> QED BY <2>3, <2>4, <2>5
<1> QED BY <1>1, <1>8, <1>9

\* What the books say of the function that is about to end a request.
LEMMA EndsAtOnce ==
  ASSUME TypeInv, Books
  PROVE  EndsOnce
<1>0. KindsInv /\ CtrlInv /\ DataInv /\ EndInv
  BY DEF Books
<1>1. ASSUME NEW op \in {"finished", "rejected"}, At(op), IsUser(This)
      PROVE  status[This.req] = "waiting"
  <2>1. This.req \in Requests /\ Live(This.req) >= 1
    BY <1>1, EndIsLive
  <2>2. Live(This.req) <= IF status[This.req] = "waiting" THEN 1 ELSE 0
    BY <1>0, <2>1 DEF EndInv
  <2>3. CASE status[This.req] # "waiting"
    <3>1. Live(This.req) <= 0 /\ ~(1 <= 0)
      BY <2>2, <2>3
    <3>2. Live(This.req) \in Int
      <4>1. \A S : Fly(S) \in Nat /\ Cd(S) \in Nat /\ Dd(S) \in Nat /\ Rj(S) \in Nat
                   /\ Count(fsCtrl, S) \in Nat /\ Count(fsData, S) \in Nat
        BY LedgerTypes
      <4> QED BY <4>1 DEF Live
    <3> QED BY <2>1, <3>1, <3>2
  <2> QED BY <2>3
<1>2. ASSUME At("ctrlDone") PROVE fsCtrl # <<>> /\ Head(fsCtrl) = This
  <2>1. \A S : This \in S => Cd(S) >= 1
    <3> TAKE S
    <3>1. /\ Of(stack, {"ctrlDone"}, S) = Of(Rest, {"ctrlDone"}, S) + Is(This, S)
          /\ Of(Rest, {"ctrlDone"}, S) \in Nat
      BY <1>2, OfAt
    <3> QED BY <3>1, IsOne DEF Cd
  <2>2. This \in Objects
    BY <1>2, AtTypes DEF TypeInv
  <2>3. This \in Commands
    BY <1>0, <2>1, <2>2 DEF KindsInv
  <2>4. Busy({This}) > 0
    <3>1. Cd({This}) >= 1 /\ Cd({This}) \in Nat /\ Fly({This}) \in Nat
      BY <2>1, LedgerTypes
    <3> QED BY <3>1 DEF Busy
  <2> QED BY <1>0, <2>3, <2>4, CtrlHead
<1>3. ASSUME At("dataDone") PROVE fsData # <<>> /\ Head(fsData) = This
  <2>1. \A S : This \in S => Dd(S) >= 1
    <3> TAKE S
    <3>1. /\ Of(stack, {"dataDone"}, S) = Of(Rest, {"dataDone"}, S) + Is(This, S)
          /\ Of(Rest, {"dataDone"}, S) \in Nat
      BY <1>3, OfAt
    <3> QED BY <3>1, IsOne DEF Dd
  <2>2. This \in Objects
    BY <1>3, AtTypes DEF TypeInv
  <2>3. This \in Transfers
    BY <1>0, <2>1, <2>2 DEF KindsInv
  <2> DEFINE r == This.req
  <2>4. r \in Requests /\ This = Item(r, "run") /\ This \in Moving({r})
    BY <2>3, TransferIs
  <2>5. Act({r}) > 0
    <3>1. Dd(Moving({r})) >= 1 /\ Dd(Moving({r})) <= Act({r}) /\ Dd(Moving({r})) \in Nat /\ Act({r}) \in Nat
      BY <1>0, <2>1, <2>4, ActNat
    <3> QED BY <3>1
  <2> QED BY <1>0, <2>4, <2>5, DataHead
<1> QED BY <1>1, <1>2, <1>3 DEF EndsOnce, At

\* No request of the application ends twice, by its exchange, by the failing of
\* the login or by the end of its connection; and what onFSCtrlRequestFinished
\* and onFSDataRequestFinished take from a queue is what has ended.
THEOREM EndsOnceAlways == Spec => []EndsOnce
<1>1. ManagerInv => EndsOnce
  BY EndsAtOnce DEF ManagerInv
<1> QED BY <1>1, ManagerAlways, PTL

\* Between events what is in flight is pending or carried by the channel.
LEMMA Underway ==
  ASSUME TypeInv, stack = <<>>, NEW S \in SUBSET Objects, Fly(S) > 0
  PROVE  \E i \in S : Fly({i}) > 0 /\ OnItsWay(i)
<1>0. /\ pending \in Seq(Objects) /\ chan \in Seq(Exchanges)
      /\ \A R : Count(pending, R) \in Nat /\ Count(chan, R) \in Nat
      /\ \A R : Of(stack, InFlight, R) = 0
  BY LedgerTypes, OfNone DEF TypeInv
<1>1. \A R : Fly(R) = Count(pending, R) + Count(chan, Carrying(R))
  BY <1>0 DEF Fly
<1>2. CASE Count(pending, S) > 0
  <2>1. PICK n \in 1 .. Len(pending) : pending[n] \in S
    BY <1>0, <1>2, CountSome
  <2> DEFINE i == pending[n]
  <2>2. Waits(pending, i) # {}
    BY <2>1 DEF Waits
  <2>3. Count(pending, {i}) > 0
    BY <1>0, CountSome
  <2> HIDE DEF i
  <2>4. Fly({i}) > 0
    BY <1>0, <1>1, <2>3
  <2> QED BY <2>1, <2>2, <2>4 DEF i, OnItsWay
<1>3. CASE Count(chan, Carrying(S)) > 0
  <2>1. PICK n \in 1 .. Len(chan) : chan[n] \in Carrying(S)
    BY <1>0, <1>3, CountSome
  <2> DEFINE x == chan[n]
             i == Base(x)
  <2>2. x \in Exchanges /\ i \in S /\ x \in Carrying({i})
    BY <2>1 DEF Carrying
  <2>3. x = i \/ x = [i EXCEPT !.part = "response"]
    BY <2>2 DEF Base, Exchanges, Items
  <2>4. Carried(i) # {}
    BY <2>3 DEF Carried, Waits
  <2>5. Count(chan, Carrying({i})) > 0
    BY <1>0, <2>2, CountSome
  <2> HIDE DEF i, x
  <2>6. Fly({i}) > 0
    BY <1>0, <1>1, <2>5
  <2> QED BY <2>2, <2>4, <2>6 DEF OnItsWay
<1>4. Count(pending, S) > 0 \/ Count(chan, Carrying(S)) > 0
  BY <1>0, <1>1
<1> QED BY <1>2, <1>3, <1>4

\* What the books say of a queue that is not empty between events.
LEMMA NoneIsLost ==
  ASSUME TypeInv, Books, ~MayReplace
  PROVE  NoLostFSRequest
<1> SUFFICES ASSUME stack = <<>>
             PROVE  /\ login = "LoggingIn" => OnItsWay(Own("login"))
                    /\ fsCtrl # <<>> => OnItsWay(Own("login")) \/ OnItsWay(Head(fsCtrl))
                    /\ fsData # <<>> => OnItsWay(Own("login")) \/ Proceeds(Head(fsData).req)
  BY DEF NoLostFSRequest, Idling
<1>0. /\ LoginInv /\ CtrlInv /\ DataInv
      /\ \A ops : ~Holds(stack, ops)
      /\ Cd(Commands) = 0
  BY HoldsNone, OfNone DEF Books, Cd
<1>1. ASSUME login = "LoggingIn" PROVE OnItsWay(Own("login"))
  <2>1. Fly(Logins) > 0 /\ Logins \in SUBSET Objects
    BY <1>0, <1>1, KnownSets DEF LoginInv, Known
  <2>2. PICK i \in Logins : OnItsWay(i)
    BY <2>1, Underway
  <2> QED BY <2>2 DEF Logins
<1>2. ASSUME fsCtrl # <<>>, login = "LoggedIn" PROVE OnItsWay(Head(fsCtrl))
  <2>1. Busy(Commands) = 1 /\ Fly(Commands) \in Nat
    BY <1>0, <1>2, LedgerTypes DEF CtrlInv
  <2>2. Fly(Commands) > 0 /\ Commands \in SUBSET Objects
    BY <1>0, <2>1 DEF Busy, Commands
  <2>3. PICK i \in Commands : Fly({i}) > 0 /\ OnItsWay(i)
    BY <2>2, Underway
  <2>4. Fly({i}) \in Nat /\ Cd({i}) \in Nat
    BY LedgerTypes
  <2>5. Busy({i}) > 0
    BY <2>3, <2>4 DEF Busy
  <2> QED BY <1>0, <2>3, <2>5, CtrlHead
<1>3. fsCtrl # <<>> \/ fsData # <<>> => login # "NotLoggedIn"
  BY <1>0 DEF CtrlInv, DataInv
<1>4. ASSUME fsData # <<>>, login = "LoggedIn" PROVE Proceeds(Head(fsData).req)
  <2> DEFINE M == Moving(Requests)
             S == Steps(Requests)
  <2>1. /\ Act(Requests) = 1 /\ M \in SUBSET Objects
        /\ Fly(M) \in Nat /\ Cd(S) \in Nat /\ Count(fsCtrl, S) \in Nat /\ Dd(M) = 0
    BY <1>0, <1>4, LedgerTypes, OfNone DEF DataInv, Moving, Dd
  <2> HIDE DEF M, S
  <2>2. Fly(M) > 0 \/ Count(fsCtrl, S) > 0
    BY <2>1 DEF Act, M, S
  <2>3. CASE Fly(M) > 0
    <3>1. PICK i \in M : Fly({i}) > 0 /\ OnItsWay(i)
      BY <2>1, <2>3, Underway
    <3> DEFINE r == i.req
    <3>2. r \in Requests /\ i \in Objects /\ i.step \in {"run", "data"} /\ {i} \subseteq Moving({r})
      BY <3>1 DEF M, Moving, IsTransfer, IsUser
    <3>3. i = Item(r, i.step)
      BY <3>2, ObjectIs
    <3> HIDE DEF r
    <3>4. Fly({i}) <= Fly(Moving({r})) /\ Fly({i}) \in Nat
      BY <3>2, FlyMore, LedgerTypes
    <3>5. Act({r}) > 0
      BY <1>0, <3>1, <3>2, <3>4, ActNat
    <3>6. Head(fsData).req = r
      BY <1>0, <3>2, <3>5, DataHead, ItemTypes
    <3> QED BY <3>1, <3>2, <3>3, <3>6 DEF Proceeds
  <2>4. CASE Count(fsCtrl, S) > 0
    <3>1. PICK n \in 1 .. Len(fsCtrl) : fsCtrl[n] \in S
      BY <2>4, CountSome DEF TypeInv
    <3> DEFINE r == fsCtrl[n].req
    <3>2. r \in Requests /\ fsCtrl[n] \in Steps({r}) /\ Steps({r}) \in SUBSET Commands
      BY <3>1, KnownSets DEF S, Steps
    <3> HIDE DEF r
    <3>3. Count(fsCtrl, Steps({r})) > 0
      BY <3>1, <3>2, CountSome DEF TypeInv
    <3>4. Cd(Steps({r})) = 0
      BY OfNone DEF Cd
    <3>5. Act({r}) > 0
      BY <1>0, <3>2, <3>3, <3>4, ActNat
    <3>6. Head(fsData).req = r
      BY <1>0, <3>2, <3>5, DataHead, ItemTypes
    <3> QED BY <3>1, <3>6 DEF Proceeds, r
  <2> QED BY <2>2, <2>3, <2>4
<1> QED BY <1>1, <1>2, <1>3, <1>4 DEF TypeInv

\* While the application keeps its channel, no event leaves a queue of file system
\* requests waiting for a function that nobody is going to call: the login, or the
\* request at its head or a part of it, is on its way.
THEOREM NoneLostAlways ==
  ASSUME ~MayReplace
  PROVE  Spec => []NoLostFSRequest
<1>1. ManagerInv => NoLostFSRequest
  BY NoneIsLost DEF ManagerInv
<1> QED BY <1>1, ManagerAlways, PTL

-----------------------------------------------------------------------------
(* The file a transfer has open.                                            *)

\* What needs the file and what opens or closes it exclude each other.
LEMMA AwayIs ==
  ASSUME TypeInv, CtrlInv, NEW r \in Requests
  PROVE  /\ Away(r) \in Nat /\ Away(r) <= Act({r})
         /\ \A step \in {"open", "close"} :
              /\ Cd({Item(r, step)}) \in Nat /\ Count(fsCtrl, {Item(r, step)}) \in Nat
              /\ Cd({Item(r, step)}) <= Count(fsCtrl, {Item(r, step)})
              /\ Away(r) + (Count(fsCtrl, {Item(r, step)}) - Cd({Item(r, step)})) <= Act({r})
<1> DEFINE D == {Item(r, "data")}
           A == {Item(r, "attr")}
           M == Moving({r})
           P == Steps({r})
<1>1. D \subseteq M /\ A \in SUBSET Commands /\ A \subseteq P /\ P \in SUBSET Commands
  BY Membership, KnownSets
<1>2. /\ Fly(D) <= Fly(M) /\ Fly(D) \in Nat /\ Fly(M) \in Nat /\ Dd(M) \in Nat
      /\ Cd(A) <= Count(fsCtrl, A) /\ Cd(A) \in Nat /\ Count(fsCtrl, A) \in Nat
  BY <1>1, FlyMore, LedgerTypes, CtrlLeft
<1>3. Away(r) = Fly(D) + (Count(fsCtrl, A) - Cd(A))
  BY DEF Away
<1>4. Act({r}) = Fly(M) + Dd(M) + (Count(fsCtrl, P) - Cd(P))
  BY DEF Act
<1>5. ASSUME NEW step \in {"open", "close"}
      PROVE  /\ Cd({Item(r, step)}) \in Nat /\ Count(fsCtrl, {Item(r, step)}) \in Nat
             /\ Cd({Item(r, step)}) <= Count(fsCtrl, {Item(r, step)})
             /\ Away(r) + (Count(fsCtrl, {Item(r, step)}) - Cd({Item(r, step)})) <= Act({r})
             /\ Away(r) <= Act({r})
  <2> DEFINE X == {Item(r, step)}
             R == P \ (A \union X)
  <2>1. /\ X \in SUBSET Commands /\ R \in SUBSET Commands
        /\ A \cap X = {} /\ (A \union X) \cap R = {} /\ P = (A \union X) \union R
    <3>1. Item(r, step) \in Commands /\ Item(r, step) \in P /\ Item(r, step) # Item(r, "attr")
      BY Membership, ItemTypes
    <3> QED BY <1>1, <3>1
  <2>2. /\ Cd(X) <= Count(fsCtrl, X) /\ Cd(X) \in Nat /\ Count(fsCtrl, X) \in Nat
        /\ Cd(R) <= Count(fsCtrl, R) /\ Cd(R) \in Nat /\ Count(fsCtrl, R) \in Nat
    BY <2>1, CtrlLeft
  <2> HIDE DEF X, R, P, A
  <2>3. /\ Cd((A \union X) \union R) = Cd(A \union X) + Cd(R)
        /\ Count(fsCtrl, (A \union X) \union R) = Count(fsCtrl, A \union X) + Count(fsCtrl, R)
    BY <2>1, FlyBoth
  <2>4. Cd(A \union X) = Cd(A) + Cd(X) /\ Count(fsCtrl, A \union X) = Count(fsCtrl, A) + Count(fsCtrl, X)
    BY <2>1, FlyBoth
  <2>5. Cd(P) = Cd(A) + Cd(X) + Cd(R) /\ Count(fsCtrl, P) = Count(fsCtrl, A) + Count(fsCtrl, X) + Count(fsCtrl, R)
    BY <2>1, <2>3, <2>4
  <2> HIDE DEF D, M
  <2>6. /\ Away(r) + (Count(fsCtrl, X) - Cd(X)) <= Act({r})
        /\ Away(r) <= Act({r})
    BY <1>2, <1>3, <1>4, <2>2, <2>5
  <2> QED BY <2>2, <2>6 DEF X
<1>6. Away(r) \in Nat
  BY <1>2, <1>3
<1> QED BY <1>5, <1>6

\* A request that is not the application's ends well only when it is answered.
LEMMA EndsWell ==
  ASSUME TypeInv, TypeInv', Top, Top', [Next]_vars,
         At("finished")', Head(stack').ok, ~IsUser(Head(stack').item)
  PROVE  Answer \/ UNCHANGED vars
<1>1. RareTurn'
  BY DEF RareTurn, Rare, At
<1>2. ASSUME At("finished"), FinishOwn PROVE FALSE
  <2>1. Calm(Rest)
    BY <1>2, CalmIs DEF TypeInv
  <2>2. /\ Call("start", Own("slave")) \in Suspended /\ Do("execAny") \in Suspended /\ Do("failFS") \in Suspended
        /\ Call("start", Own("slave")).op = "start" /\ Do("execAny").op = "execAny" /\ Do("failFS").op = "failFS"
    BY FrameTypes, ItemTypes DEF Ops, OwnSteps
  <2>3. stack' \in {Push(Do("execAny"), Rest), Push(Do("failFS"), Rest), Push(Call("start", Own("slave")), Rest), Rest}
    BY <1>2 DEF FinishOwn
  <2>4. ~At("finished")'
    BY <2>1, <2>2, <2>3, CalmAfter DEF AtOnce
  <2> QED BY <2>4
<1>3. ASSUME Drain PROVE FALSE
  <2>1. /\ Calm(stack) /\ Calm(Rest) /\ Do("onDisconnected") \in Suspended
        /\ Do("onDisconnected").op = "onDisconnected"
    BY <1>3, CalmIs, DoTypes DEF TypeInv, Drain, AtOnce, Ops
  <2>2. \/ stack' = stack
        \/ \E f \in Suspended : f.op = "finished" /\ f.ok = FALSE /\ stack' = Push(f, stack)
        \/ stack' = Push(Do("onDisconnected"), Rest)
    BY <1>3, FinishLeaves DEF Drain
  <2>3. CASE stack' = stack \/ stack' = Push(Do("onDisconnected"), Rest)
    BY <2>1, <2>3, CalmAfter DEF AtOnce
  <2>4. ASSUME NEW f \in Suspended, f.ok = FALSE, stack' = Push(f, stack) PROVE FALSE
    BY <2>1, <2>4, CalmPush
  <2> QED BY <2>2, <2>3, <2>4
<1> QED BY <1>1, <1>2, <1>3, TopNext

\* The device opens or closes a file only for the transfer under way, which
\* then needs none.
LEMMA ServedAlone ==
  ASSUME TypeInv, Books, chan # <<>>, Head(chan).step \in {"open", "close"}
  PROVE  \A q \in Requests : Away(q) = 0
<1>1. PICK x \in Exchanges : x = Head(chan)
  BY Parts DEF TypeInv
<1> DEFINE i == Base(x)
           r == x.req
<1>2. i \in Objects /\ i.req = r /\ i.step = x.step
  BY <1>1, ExchangeIs
<1>3. r \in Requests /\ i = Item(r, x.step) /\ x.step \in {"open", "close"}
  BY <1>1, <1>2, ObjectIs DEF OwnSteps
<1>4. i \in Commands /\ i \in Steps({r})
  BY <1>3, Membership
<1>5. KindsInv /\ CtrlInv /\ DataInv
  BY DEF Books
<1> HIDE DEF i, r
<1>6. Fly({i}) > 0
  <2>1. Count(chan, Carrying({i})) = Count(Tail(chan), Carrying({i})) + Is(i, {i})
        /\ Count(Tail(chan), Carrying({i})) \in Nat
    BY <1>1, CarryTail DEF i
  <2>2. Is(i, {i}) = 1
    BY IsOne
  <2>3. Count(pending, {i}) \in Nat /\ Of(stack, InFlight, {i}) \in Nat
    BY LedgerTypes
  <2> QED BY <2>1, <2>2, <2>3 DEF Fly
<1>7. Busy({i}) = 1 /\ Count(fsCtrl, {i}) > 0
  <2>1. Fly({i}) \in Nat /\ Cd({i}) \in Nat
    BY LedgerTypes
  <2>2. Busy({i}) > 0
    BY <1>6, <2>1 DEF Busy
  <2> QED BY <1>4, <1>5, <2>2, CtrlHead
<1>8. /\ Cd({i}) \in Nat /\ Count(fsCtrl, {i}) \in Nat
      /\ Away(r) + (Count(fsCtrl, {i}) - Cd({i})) <= Act({r})
      /\ Away(r) \in Nat
  BY <1>3, <1>5, AwayIs
<1>9. Cd({i}) = 0
  <2>1. Fly({i}) \in Nat
    BY LedgerTypes
  <2> QED BY <1>6, <1>7, <1>8, <2>1 DEF Busy
<1>10. Act({r}) \in Nat /\ Act({r}) > 0
  BY <1>3, <1>5, <1>7, <1>8, <1>9, ActMore
<1>11. Act({r}) = 1 /\ fsData # <<>> /\ Head(fsData) = Item(r, "run")
  BY <1>3, <1>5, <1>10, DataHead
<1>12. Away(r) = 0
  BY <1>7, <1>8, <1>9, <1>11
<1>13. ASSUME NEW q \in Requests, q # r PROVE Away(q) = 0
  <2>1. Head(fsData).req = r
    BY <1>3, <1>11, ItemTypes
  <2>2. Act({q}) = 0
    BY <1>5, <1>11, <1>13, <2>1 DEF DataInv
  <2>3. Away(q) \in Nat /\ Away(q) <= Act({q})
    BY <1>5, AwayIs
  <2> QED BY <2>2, <2>3
<1> QED BY <1>12, <1>13

LEMMA LedgerAfter ==
  ASSUME TypeInv'
  PROVE  \A S : Fly(S)' \in Nat /\ Cd(S)' \in Nat /\ Count(fsCtrl', S) \in Nat
<1>1. /\ pending' \in Seq(Objects) /\ chan' \in Seq(Exchanges) /\ fsCtrl' \in Seq(Commands)
      /\ stack' \in Seq(Suspended)
  BY DEF TypeInv
<1>2. \A S : /\ Count(pending', S) \in Nat /\ Count(chan', S) \in Nat /\ Count(fsCtrl', S) \in Nat
             /\ Count(stack', S) \in Nat
  BY <1>1, SpotsFinite
<1> QED BY <1>2 DEF Fly, Cd, Of

\* A request needs its file from the answer to its opening or to the reading of
\* the attributes on.
LEMMA AwayNext ==
  ASSUME TypeInv, TypeInv', Books, NEW q \in Requests, [Next]_vars
  PROVE  \/ Away(q)' <= Away(q)
         \/ /\ At("finished") /\ Head(stack).ok
            /\ This.req = q /\ This.step \in {"open", "attr"}
<1> DEFINE D == {Item(q, "data")}
           A == {Item(q, "attr")}
           Below(s) == /\ s \in Seq(Suspended)
                       /\ FlyIn(s, D) <= Fly(D) /\ FlyIn(s, D) \in Nat
                       /\ Of(s, {"ctrlDone"}, A) >= Cd(A) /\ Of(s, {"ctrlDone"}, A) \in Nat
<1>1. /\ Fly(D) \in Nat /\ Cd(A) \in Nat /\ Count(fsCtrl, A) \in Nat
      /\ Fly(D)' \in Nat /\ Cd(A)' \in Nat /\ Count(fsCtrl', A) \in Nat
  BY LedgerTypes, LedgerAfter
<1>2. Fly(D)' <= Fly(D) /\ Count(fsCtrl', A) <= Count(fsCtrl, A) /\ Cd(A)' >= Cd(A) => Away(q)' <= Away(q)
  BY <1>1 DEF Away
<1>3. ASSUME Below(stack'), UNCHANGED <<pending, chan>> PROVE Fly(D)' <= Fly(D) /\ Cd(A)' >= Cd(A)
  <2>1. Fly(D)' = FlyIn(stack', D) /\ Cd(A)' = Of(stack', {"ctrlDone"}, A)
    BY <1>3, Now
  <2> QED BY <1>3, <2>1
<1>4. ASSUME NEW s, Below(s), NEW f \in Suspended, f.op \notin InFlight \/ f.item \notin D
      PROVE  Below(Push(f, s))
  <2>1. /\ f.op \in InFlight => FlyIn(Push(f, s), D) = FlyIn(s, D) + Is(f.item, D)
        /\ f.op \notin InFlight => FlyIn(Push(f, s), D) = FlyIn(s, D)
        /\ f.op = "ctrlDone" => Of(Push(f, s), {"ctrlDone"}, A) = Of(s, {"ctrlDone"}, A) + Is(f.item, A)
        /\ f.op # "ctrlDone" => Of(Push(f, s), {"ctrlDone"}, A) = Of(s, {"ctrlDone"}, A)
        /\ Push(f, s) \in Seq(Suspended)
    <3>1. s \in Seq(Suspended)
      BY <1>4
    <3>2. /\ f.op \in InFlight => \A S : FlyIn(Push(f, s), S) = FlyIn(s, S) + Is(f.item, S)
          /\ f.op \notin InFlight => \A S : FlyIn(Push(f, s), S) = FlyIn(s, S)
          /\ \A op, S : f.op = op => Of(Push(f, s), {op}, S) = Of(s, {op}, S) + Is(f.item, S)
          /\ \A op, S : f.op # op => Of(Push(f, s), {op}, S) = Of(s, {op}, S)
          /\ Push(f, s) \in Seq(Suspended)
      BY <3>1, Called
    <3> QED BY <3>2
  <2>2. /\ f.item \notin D => Is(f.item, D) = 0
        /\ Is(f.item, A) \in Nat
    BY IsOne
  <2>3. FlyIn(Push(f, s), D) = FlyIn(s, D)
    BY <1>4, <2>1, <2>2
  <2>4. Of(Push(f, s), {"ctrlDone"}, A) >= Of(s, {"ctrlDone"}, A) /\ Of(Push(f, s), {"ctrlDone"}, A) \in Nat
    BY <1>4, <2>1, <2>2
  <2> QED BY <1>1, <1>4, <2>1, <2>3, <2>4
<1>5. Below(stack)
  <2>1. Fly(D) = FlyIn(stack, D) /\ Cd(A) = Of(stack, {"ctrlDone"}, A)
    BY AllHere
  <2> QED BY <1>1, <2>1 DEF TypeInv
<1>6. ASSUME NEW op, At(op), op # "ctrlDone" PROVE Below(Rest) /\ This \in Objects
  <2>1. /\ Rest \in Seq(Suspended) /\ This \in Objects
        /\ Fly(D) = FlyIn(Rest, D) + (IF op \in InFlight THEN Is(This, D) ELSE 0)
        /\ Cd(A) = Of(Rest, {"ctrlDone"}, A) + (IF op = "ctrlDone" THEN Is(This, A) ELSE 0)
        /\ FlyIn(Rest, D) \in Nat /\ Of(Rest, {"ctrlDone"}, A) \in Nat
    BY <1>6, Popped
  <2>2. Is(This, D) \in Nat
    BY IsOne
  <2> QED BY <1>6, <2>1, <2>2
<1> HIDE DEF Below
<1>7. /\ \A op \in Ops : Do(op) \in Suspended /\ Do(op).op = op /\ Do(op).item \notin D
      /\ \A op \in Ops, i \in Objects : Call(op, i) \in Suspended /\ Call(op, i).op = op /\ Call(op, i).item = i
  <2>1. Nothing \notin D
    BY ItemTypes DEF OwnSteps
  <2> QED BY <2>1, FrameTypes
<1>8. \A s : Below(s) => /\ \A op \in Ops : Below(Push(Do(op), s))
                         /\ \A op \in Ops, i \in Objects : op \notin InFlight \/ i \notin D =>
                               Below(Push(Call(op, i), s))
  BY <1>4, <1>7
<1>9. {"slot", "execCtrl", "execData", "execAny", "failFS", "start", "startData", "ctrlDone", "dataDone", "rejected"}
        \subseteq Ops
  BY DEF Ops
<1>10. /\ \A i \in Objects : i.step # "data" => i \notin D
       /\ \A i \in Commands \union Transfers : i \in Objects /\ i \notin D
       /\ \A step \in OwnSteps : Own(step) \in Objects /\ Own(step) \notin D
       /\ \A r \in Requests, step \in {"run", "open", "attr", "close"} : Item(r, step) \in Objects /\ Item(r, step) \notin D
       /\ \A r \in Requests : Item(r, "data") \in Objects /\ (Item(r, "data") \in D <=> r = q)
       /\ \A r \in Requests, step \in {"run", "open", "close"} : Item(r, step) \notin A
       /\ \A r \in Requests : Item(r, "attr") \in A <=> r = q
       /\ \A step \in OwnSteps : Own(step) \notin A
  <2>1. /\ Item(q, "data").step = "data" /\ Item(q, "data").req = q /\ Item(q, "attr").step = "attr" /\ Item(q, "attr").req = q
        /\ \A i \in Commands \union Transfers : i \in Objects /\ i.step # "data"
    BY ItemTypes DEF Commands, Transfers, IsCommand, IsTransfer, IsUser
  <2>2. /\ \A r \in Requests, step \in {"run", "open", "attr", "data", "close"} :
             Item(r, step) \in Objects /\ Item(r, step).req = r /\ Item(r, step).step = step
        /\ \A step \in OwnSteps : Own(step) \in Objects /\ Own(step).step = step /\ step \notin {"data", "attr"}
    BY ItemTypes DEF OwnSteps
  <2> QED BY <2>1, <2>2
<1> HIDE DEF D, A
<1>11. \A i \in Commands : fsCtrl' = Append(fsCtrl, i) => Count(fsCtrl', A) = Count(fsCtrl, A) + Is(i, A)
  <2> SUFFICES ASSUME NEW i \in Commands, fsCtrl' = Append(fsCtrl, i)
               PROVE  Count(fsCtrl', A) = Count(fsCtrl, A) + Is(i, A)
    OBVIOUS
  <2>1. fsCtrl \in Seq(Commands)
    BY DEF TypeInv
  <2>2. Count(Append(fsCtrl, i), A) = Count(fsCtrl, A) + Is(i, A)
    BY <2>1, Appended
  <2> QED BY <2>2
<1>12. fsCtrl # <<>> /\ fsCtrl' = Tail(fsCtrl) =>
         /\ Count(fsCtrl, A) = Count(fsCtrl', A) + Is(Head(fsCtrl), A)
         /\ Is(Head(fsCtrl), A) \in Nat
  <2>1. fsCtrl \in Seq(Commands)
    BY DEF TypeInv
  <2>2. fsCtrl # <<>> => Count(fsCtrl, A) = Count(Tail(fsCtrl), A) + Is(Head(fsCtrl), A)
    BY <2>1, Removed
  <2> QED BY <2>2, IsOne
<1>13. ASSUME NEW s, Below(s), NEW i \in Commands, i \notin A, AddCtrl(i, s), UNCHANGED <<pending, chan>>
       PROVE  Away(q)' <= Away(q)
  <2>1. Below(stack')
    BY <1>8, <1>9, <1>13 DEF AddCtrl
  <2>2. Count(fsCtrl', A) = Count(fsCtrl, A)
    <3>1. Is(i, A) = 0 /\ fsCtrl' = Append(fsCtrl, i)
      BY <1>13, IsOne DEF AddCtrl
    <3> QED BY <1>1, <1>11, <3>1
  <2> QED BY <1>1, <1>2, <1>3, <1>13, <2>1, <2>2
<1>14. ASSUME Below(stack'), UNCHANGED <<pending, chan, fsCtrl>> PROVE Away(q)' <= Away(q)
  BY <1>1, <1>2, <1>3, <1>14
<1>15. ASSUME Quiet PROVE Away(q)' <= Away(q)
  <2>1. D \in SUBSET Known
    BY KnownSets DEF D
  <2>2. Fly(D)' = Fly(D)
    BY <1>15, <2>1 DEF Quiet
  <2>3. Cd(A)' = Cd(A)
    BY <1>15 DEF Quiet, Cd, Control
  <2> QED BY <1>1, <1>2, <1>15, <2>2, <2>3 DEF Quiet
<1>16. ASSUME NEW r \in Requests, AppExec(r) PROVE Away(q)' <= Away(q)
  <2>1. UNCHANGED <<pending, chan>>
    BY <1>16 DEF AppExec
  <2>2. CASE Kind[r] = "ctrl" /\ AddCtrl(Item(r, "run"), stack)
    <3>1. Item(r, "run") \in Commands
      BY <2>2, StepTypes
    <3> QED BY <1>5, <1>10, <1>13, <2>1, <2>2, <3>1
  <2>3. CASE AddData(Item(r, "run"), stack) /\ UNCHANGED fsCtrl
    <3>1. Below(stack')
      BY <1>5, <1>8, <1>9, <2>3 DEF AddData
    <3> QED BY <1>14, <2>1, <2>3, <3>1
  <2>4. CASE stack' = Push(Call("start", Item(r, "run")), stack) /\ UNCHANGED <<fsCtrl, fsData>>
    <3>1. Below(stack')
      BY <1>5, <1>8, <1>9, <1>10, <2>4
    <3> QED BY <1>14, <2>1, <2>4, <3>1
  <2> QED BY <1>16, <2>2, <2>3, <2>4 DEF AppExec
<1>17. ASSUME SetChannel PROVE Away(q)' <= Away(q)
  <2>1. /\ UNCHANGED <<pending, fsCtrl>> /\ stack = <<>> /\ stack' = <<Do("slot")>> /\ chan' = <<>>
    BY <1>17 DEF SetChannel, fsVars, Idling
  <2>2. /\ Do("slot") \in Suspended /\ Do("slot").op = "slot" /\ <<>> \in Seq(Suspended)
        /\ stack' = Push(Do("slot"), <<>>)
    BY <1>7, <1>9, <2>1, PushAlone
  <2>3. \A ops, S : "slot" \notin ops => Of(stack', ops, S) = 0
    <3>1. \A ops, S : Do("slot").op \notin ops => Of(Push(Do("slot"), <<>>), ops, S) = Of(<<>>, ops, S)
      BY <2>2, OfPush
    <3> QED BY <2>2, <3>1, OfNone
  <2>4. /\ Of(stack', InFlight, D) = 0 /\ Cd(A)' = 0 /\ Cd(A) = 0
        /\ Count(chan', Carrying(D)) = 0
    BY <2>1, <2>3, OfNone, CountNone DEF InFlight, Cd
  <2>5. Count(pending, D) \in Nat /\ Count(chan, Carrying(D)) \in Nat /\ Of(stack, InFlight, D) \in Nat
    BY LedgerTypes
  <2>6. Fly(D)' = Count(pending, D) + 0 + 0
    BY <2>1, <2>4 DEF Fly
  <2>7. Fly(D)' <= Fly(D)
    BY <2>5, <2>6 DEF Fly
  <2> QED BY <1>1, <1>2, <2>1, <2>4, <2>7
<1>18. ASSUME Start PROVE Away(q)' <= Away(q)
  <2>1. CASE UNCHANGED fsCtrl
    BY <1>15, <1>18, <2>1, QuietStart
  <2>2. CASE IsTransfer(This) /\ AddCtrl(Item(This.req, "open"), Rest) /\ UNCHANGED <<pending, chan>>
    <3>1. Below(Rest) /\ This \in Objects
      BY <1>6, <1>18 DEF Start
    <3>2. This.req \in Requests
      BY <2>2, <3>1, ObjectIs DEF IsTransfer, IsUser, OwnSteps
    <3>3. Item(This.req, "open") \in Commands
      BY <3>2, StepTypes
    <3> QED BY <1>10, <1>13, <2>2, <3>1, <3>2, <3>3
  <2> QED BY <1>18, <2>1, <2>2 DEF Start
<1>19. ASSUME ExecNextFSRequest PROVE Away(q)' <= Away(q)
  <2>1. PICK type \in {{"ctrl"}, {"data"}, {"ctrl", "data"}}, op \in {"execCtrl", "execData", "execAny"} :
               ExecFS(type) /\ At(op)
    BY <1>19 DEF ExecNextFSRequest
  <2>2. Below(Rest) /\ Rest \in Seq(Suspended) /\ UNCHANGED <<pending, chan, fsCtrl>>
    BY <1>6, <2>1 DEF ExecFS, Below
  <2>3. /\ fsCtrl # <<>> => Head(fsCtrl) \in Objects /\ Head(fsCtrl) \notin D
        /\ Own("quit") \in Objects /\ Own("quit") \notin D /\ Own("login") \in Objects /\ Own("login") \notin D
    BY <1>10, Parts DEF TypeInv, OwnSteps
  <2>4. \/ stack' = Rest \/ stack' = Push(Call("start", Own("quit")), Rest)
        \/ stack' = Push(Call("start", Own("login")), Rest)
        \/ stack' = Push(Do("startData"), Rest)
        \/ fsCtrl # <<>> /\ stack' = Push(Call("start", Head(fsCtrl)), Rest)
        \/ fsCtrl # <<>> /\ stack' = Push(Call("start", Head(fsCtrl)), Push(Do("startData"), Rest))
    BY <2>1, <2>2, ExecLeaves
  <2>5. Below(Push(Do("startData"), Rest))
    BY <1>8, <1>9, <2>2
  <2>6. \A i \in Objects : i \notin D =>
          /\ Below(Push(Call("start", i), Rest))
          /\ Below(Push(Call("start", i), Push(Do("startData"), Rest)))
    BY <1>8, <1>9, <2>2, <2>5
  <2>7. Below(stack')
    BY <2>2, <2>3, <2>4, <2>5, <2>6
  <2> QED BY <1>14, <2>2, <2>7
<1>20. ASSUME StartData PROVE Away(q)' <= Away(q)
  <2>1. Below(Rest)
    BY <1>6, <1>20 DEF StartData
  <2>2. fsData # <<>> => Head(fsData) \in Objects /\ Head(fsData) \notin D
    BY <1>10, Parts DEF TypeInv
  <2>3. Below(stack')
    BY <1>8, <1>9, <1>20, <2>1, <2>2 DEF StartData
  <2> QED BY <1>14, <1>20, <2>3 DEF StartData, managerVars, fsVars
<1>21. ASSUME DataDone PROVE Away(q)' <= Away(q)
  <2>1. Below(Rest)
    BY <1>6, <1>21 DEF DataDone
  <2>2. Below(stack')
    BY <1>8, <1>9, <1>21, <2>1 DEF DataDone
  <2> QED BY <1>14, <1>21, <2>2 DEF DataDone
<1>22. ASSUME CtrlDone PROVE Away(q)' <= Away(q)
  <2>1. fsCtrl # <<>> /\ Head(fsCtrl) = This
    BY <1>22, EndsAtOnce DEF CtrlDone, EndsOnce, At
  <2>2. fsCtrl' = Tail(fsCtrl) /\ stack' = Push(Do("execCtrl"), Rest) /\ UNCHANGED <<pending, chan>> /\ At("ctrlDone")
    BY <1>22 DEF CtrlDone
  <2>3. /\ Rest \in Seq(Suspended)
        /\ Fly(D) = FlyIn(Rest, D) + (IF "ctrlDone" \in InFlight THEN Is(This, D) ELSE 0)
        /\ Cd(A) = Of(Rest, {"ctrlDone"}, A) + (IF "ctrlDone" = "ctrlDone" THEN Is(This, A) ELSE 0)
        /\ FlyIn(Rest, D) \in Nat /\ Of(Rest, {"ctrlDone"}, A) \in Nat
    BY <2>2, Popped
  <2>4. Do("execCtrl") \in Suspended /\ Do("execCtrl").op \notin InFlight /\ Do("execCtrl").op # "ctrlDone"
    BY <1>7, <1>9 DEF InFlight
  <2>5. (\A S : Fly(S)' = FlyIn(Rest, S)) /\ (\A S : Cd(S)' = Of(Rest, {"ctrlDone"}, S))
    BY <2>2, <2>3, <2>4, After
  <2>6. Fly(D)' = Fly(D) /\ Cd(A) = Cd(A)' + Is(This, A)
    BY <2>3, <2>5 DEF InFlight
  <2>7. Count(fsCtrl, A) = Count(fsCtrl', A) + Is(This, A) /\ Is(This, A) \in Nat
    BY <1>12, <2>1, <2>2
  <2> QED BY <1>1, <2>6, <2>7 DEF Away, D, A
<1>23. ASSUME FailFS PROVE Away(q)' <= Away(q)
  <2>1. Below(Rest) /\ UNCHANGED <<pending, chan>>
    BY <1>6, <1>23 DEF FailFS
  <2>2. /\ fsCtrl # <<>> => Head(fsCtrl) \in Objects
        /\ fsData # <<>> => Head(fsData) \in Objects
    BY <1>10, Parts DEF TypeInv
  <2>3. \A i \in Objects : Below(Push(Call("rejected", i), stack))
    BY <1>5, <1>8, <1>9 DEF InFlight
  <2>4. Below(stack') /\ (UNCHANGED fsCtrl \/ (fsCtrl # <<>> /\ fsCtrl' = Tail(fsCtrl)))
    BY <1>23, <2>1, <2>2, <2>3 DEF FailFS
  <2>5. Count(fsCtrl', A) <= Count(fsCtrl, A)
    BY <1>1, <1>12, <2>4
  <2> QED BY <1>1, <1>2, <1>3, <2>1, <2>4, <2>5
<1>24. ASSUME NEW r \in Requests, NEW started \in BOOLEAN, NEW rest, Below(rest), Finish(r, started, rest),
              UNCHANGED <<pending, chan, fsCtrl>>
       PROVE  Away(q)' <= Away(q)
  <2>1. Item(r, "run") \in Objects /\ Item(r, "run") \notin D
    BY <1>10
  <2>2. /\ Below(Push(Call("ctrlDone", Item(r, "run")), rest))
        /\ Below(Push(Call("dataDone", Item(r, "run")), rest))
    BY <1>8, <1>9, <1>24, <2>1
  <2>3. Below(stack')
    BY <1>8, <1>9, <1>24, <2>2 DEF Finish
  <2> QED BY <1>14, <1>24, <2>3
<1>25. ASSUME NEW op \in {"finished", "rejected"}, At(op), NEW started \in BOOLEAN, FinishUser(started)
       PROVE  Away(q)' <= Away(q)
  <2>1. Below(Rest) /\ This \in Objects
    BY <1>6, <1>25
  <2>2. This.req \in Requests
    BY <1>25, <2>1, ObjectIs DEF FinishUser, IsUser, OwnSteps
  <2>3. Finish(This.req, started, Rest) /\ UNCHANGED <<pending, chan, fsCtrl>>
    BY <1>25 DEF FinishUser, managerVars, fsVars
  <2> QED BY <1>24, <2>1, <2>2, <2>3
<1>26. ASSUME At("finished"), FinishStep(TRUE)
       PROVE  Away(q)' <= Away(q) \/ (Head(stack).ok /\ This.req = q /\ This.step \in {"open", "attr"})
  <2> DEFINE r == This.req
             t == IF IsCommand(This) THEN Push(Call("ctrlDone", This), Rest) ELSE Rest
  <2>1. Below(Rest) /\ This \in Objects
    BY <1>6, <1>26
  <2>2. Below(t)
    BY <1>8, <1>9, <2>1 DEF InFlight
  <2>3. r \in Requests /\ UNCHANGED <<pending, chan>>
    BY <1>26 DEF FinishStep
  <2>4. \/ Finish(r, TRUE, t) /\ UNCHANGED fsCtrl
        \/ AddCtrl(Item(r, "close"), t)
        \/ Head(stack).ok /\ This.step = "open" /\ AddCtrl(Item(r, "attr"), t)
        \/ /\ Head(stack).ok /\ This.step \in {"open", "attr"}
           /\ stack' = Push(Call("start", Item(r, "data")), t) /\ UNCHANGED fsCtrl
    BY <1>26 DEF FinishStep
  <2> HIDE DEF r, t
  <2>5. CASE Finish(r, TRUE, t) /\ UNCHANGED fsCtrl
    BY <1>24, <2>2, <2>3, <2>5
  <2>6. CASE AddCtrl(Item(r, "close"), t)
    <3>1. Item(r, "close") \in Commands /\ Item(r, "close") \notin A
      BY <1>10, <2>3, StepTypes
    <3> QED BY <1>13, <2>2, <2>3, <2>6, <3>1
  <2>7. ASSUME AddCtrl(Item(r, "attr"), t), r # q PROVE Away(q)' <= Away(q)
    <3>1. Item(r, "attr") \in Commands /\ Item(r, "attr") \notin A
      BY <1>10, <2>3, <2>7, StepTypes
    <3> QED BY <1>13, <2>2, <2>3, <2>7, <3>1
  <2>8. ASSUME stack' = Push(Call("start", Item(r, "data")), t), UNCHANGED fsCtrl, r # q PROVE Away(q)' <= Away(q)
    <3>1. Item(r, "data") \in Objects /\ Item(r, "data") \notin D
      BY <1>10, <2>3, <2>8
    <3>2. Below(stack')
      BY <1>8, <1>9, <2>2, <2>8, <3>1
    <3> QED BY <1>14, <2>3, <2>8, <3>2
  <2> QED BY <2>4, <2>5, <2>6, <2>7, <2>8 DEF r
<1>27. ASSUME At("finished"), FinishOwn PROVE Away(q)' <= Away(q)
  <2>1. Below(Rest) /\ UNCHANGED <<pending, chan, fsCtrl>>
    BY <1>6, <1>27 DEF FinishOwn
  <2>2. stack' \in {Push(Do("execAny"), Rest), Push(Do("failFS"), Rest), Push(Call("start", Own("slave")), Rest), Rest}
    BY <1>27 DEF FinishOwn
  <2>3. Own("slave") \in Objects /\ Own("slave") \notin D
    BY <1>10 DEF OwnSteps
  <2>4. Below(Push(Call("start", Own("slave")), Rest))
    BY <1>8, <1>9, <2>1, <2>3
  <2>5. Below(stack')
    BY <1>8, <1>9, <2>1, <2>2, <2>4
  <2> QED BY <1>14, <2>1, <2>5
<1>28. ASSUME Rejected PROVE Away(q)' <= Away(q)
  <2>1. At("rejected") /\ (FinishUser(FALSE) \/ FinishStep(FALSE))
    BY <1>28 DEF Rejected
  <2>2. This \in Objects
    BY <1>6, <2>1
  <2>3. IsUser(This)
    <3>1. \A S : Of(stack, {"rejected"}, S) = Of(Rest, {"rejected"}, S) + Is(This, S)
      BY <2>1, OfAt
    <3>2. \A S : Of(Rest, {"rejected"}, S) \in Nat
      BY <2>1, OfAt
    <3>3. Of(stack, {"rejected"}, Objects \ Queued) = 0
      BY DEF Books, KindsInv, Rj
    <3>4. Is(This, Objects \ Queued) # 1
      BY <3>1, <3>2, <3>3
    <3>5. This \in Queued
      BY <2>2, <3>4, IsOne
    <3> QED BY <3>5 DEF Queued
  <2>4. FinishUser(FALSE)
    BY <2>1, <2>3 DEF FinishStep
  <2> QED BY <1>25, <2>1, <2>4
<1> HIDE DEF Below
<1>29. CASE \/ AppConnect \/ AppDisconnect
            \/ OnChannelDisconnected \/ OnChannelError \/ ErrorFinish \/ ErrorClose \/ Drain \/ SocketAbort
            \/ Closed \/ SlotReturns
            \/ Loop \/ UNCHANGED vars
  BY <1>15, <1>29, QuietSteps
<1>30. CASE OnChannelConnected \/ StartPending \/ FailPending
  BY <1>15, <1>30, QuietBuffers, QuietPending
<1>31. CASE Finished
  BY <1>25, <1>26, <1>27, <1>31 DEF Finished
<1> QED
  BY <1>16, <1>17, <1>18, <1>19, <1>20, <1>21, <1>22, <1>23, <1>28, <1>29, <1>30, <1>31 DEF Next, App, Resume

\* The file the device has open is the one that is needed.
LEMMA FileNext ==
  ASSUME TypeInv, TypeInv', Top, Top', Books, FileInv, [Next]_vars
  PROVE  FileInv'
<1> SUFFICES ASSUME ~MayReplace, NEW q \in Requests, Away(q)' > 0 \/ Opened(q)' PROVE file' = q
  BY DEF FileInv
<1>0. /\ KindsInv /\ CtrlInv /\ DataInv
      /\ Item(q, "open") \in Objects /\ Item(q, "open").req = q /\ Item(q, "open").step = "open"
  BY ItemTypes DEF Books
<1>1. ASSUME Away(q)' > 0
      PROVE  file = q /\ (Idling => Away(q) > 0)
  <2>1. Away(q) \in Nat
    BY <1>0, AwayIs
  <2>10. /\ Fly({Item(q, "data")})' \in Nat /\ Cd({Item(q, "attr")})' \in Nat
         /\ Count(fsCtrl, {Item(q, "attr")})' \in Nat
    BY LedgerAfter
  <2>11. Away(q)' \in Int
    BY <2>10 DEF Away
  <2>2. CASE Away(q)' <= Away(q)
    BY <1>1, <2>1, <2>11, <2>2 DEF FileInv
  <2>3. ASSUME At("finished"), Head(stack).ok, This.req = q, This.step = "open" PROVE file = q
    <3>1. This \in Objects
      BY <2>3, AtTypes DEF TypeInv
    <3> QED BY <2>3, <3>1, ObjectIs DEF Opened, FileInv
  <2>4. ASSUME At("finished"), This.req = q, This.step = "attr" PROVE file = q
    <3>1. This \in Objects
      BY <2>4, AtTypes DEF TypeInv
    <3>2. This = Item(q, "attr") /\ This \in Commands
      BY <2>4, <3>1, ObjectIs, StepTypes
    <3>3. /\ Of(stack, InFlight, {This}) = Of(Rest, InFlight, {This}) + Is(This, {This})
          /\ Of(Rest, InFlight, {This}) \in Nat /\ Is(This, {This}) = 1
          /\ Count(pending, {This}) \in Nat /\ Count(chan, Carrying({This})) \in Nat
          /\ Cd({This}) \in Nat /\ Fly({This}) \in Nat /\ Count(fsCtrl, {This}) \in Nat
          /\ Fly({Item(q, "data")}) \in Nat
      BY <2>4, OfAt, IsOne, LedgerTypes DEF InFlight
    <3>4. Fly({This}) > 0 /\ Busy({This}) > 0
      BY <3>3 DEF Fly, Busy
    <3>5. Busy({This}) = 1 /\ Count(fsCtrl, {This}) > 0
      BY <1>0, <3>2, <3>4, CtrlHead
    <3>6. Cd({This}) = 0
      BY <3>3, <3>4, <3>5 DEF Busy
    <3>7. Away(q) > 0
      BY <3>2, <3>3, <3>5, <3>6 DEF Away
    <3> QED BY <3>7 DEF FileInv
  <2>5. Idling => ~At("finished")
    BY DEF Idling, At
  <2> QED BY <1>1, <2>1, <2>11, <2>2, <2>3, <2>4, <2>5, AwayNext
<1>2. CASE Answer
  <2>1. PICK ok \in BOOLEAN : /\ ChannelFinish(ok, <<>>) /\ Idling /\ chan # <<>>
                              /\ ok => DeviceServes(Head(chan))
                              /\ ~ok => file' = file
    BY <1>2 DEF Answer, deviceVars
  <2>2. ASSUME Away(q)' > 0 PROVE file' = q
    <3>1. file = q /\ Head(chan).step \notin {"open", "close"}
      BY <1>1, <2>1, <2>2, ServedAlone
    <3> QED BY <2>1, <3>1 DEF DeviceServes
  <2>3. ASSUME Opened(q)' PROVE file' = q
    <3>1. Head(chan) \in Exchanges
      BY <2>1, Parts DEF TypeInv
    <3>10. PICK x \in Exchanges : x = Head(chan)
      BY <3>1
    <3>11. Base(x) \in Objects /\ Base(x).req = x.req /\ Base(x).step = x.step
      BY ExchangeIs
    <3>12. /\ End(x, ok) \in Suspended /\ End(x, ok).item = Base(x) /\ End(x, ok).ok = ok
      BY <2>1, <3>11, FrameTypes
    <3>2. /\ End(Head(chan), ok) \in Suspended /\ End(Head(chan), ok).item = Base(Head(chan))
          /\ End(Head(chan), ok).ok = ok /\ <<>> \in Seq(Suspended)
          /\ Base(Head(chan)).req = Head(chan).req /\ Base(Head(chan)).step = Head(chan).step
      BY <3>10, <3>11, <3>12
    <3>3. stack' = Push(End(Head(chan), ok), <<>>)
      BY <2>1, <2>3 DEF ChannelFinish, Opened, At
    <3>4. Head(stack') = End(Head(chan), ok)
      BY <3>2, <3>3, PushTypes
    <3>5. ok /\ Head(chan).req = q /\ Head(chan).step = "open"
      BY <1>0, <2>3, <3>2, <3>4 DEF Opened, This
    <3> QED BY <2>1, <3>5 DEF DeviceServes
  <2> QED BY <2>2, <2>3
<1>3. ASSUME Opened(q)', ~Answer PROVE file' = q
  <2>1. At("finished")' /\ Head(stack').ok /\ Head(stack').item = Item(q, "open")
    BY <1>3 DEF Opened, This
  <2>2. ~IsUser(Head(stack').item)
    BY <1>0, <2>1 DEF IsUser
  <2>3. UNCHANGED vars
    BY <1>3, <2>1, <2>2, EndsWell
  <2>4. Opened(q) /\ file' = file
    BY <1>3, <2>3 DEF vars, deviceVars, Opened, At, This
  <2> QED BY <2>4 DEF FileInv
<1>4. ASSUME Timeout, Away(q)' > 0 PROVE file' = q
  <2>1. file = q /\ Head(chan).step \notin {"open", "close"}
    BY <1>1, <1>4, ServedAlone DEF Timeout
  <2> QED BY <1>4, <2>1 DEF Timeout, DeviceServes, deviceVars
<1>5. ~Answer /\ ~Timeout => file' = file
  <2>1. App => file' = file
    BY DEF App, AppExec, AppConnect, AppDisconnect, SetChannel, deviceVars
  <2>2. Loop /\ ~Answer /\ ~Timeout => file' = file
    BY DEF Loop, NotConnected, LinkBreaks, Noise, Connected, ConnectFails, CloseEnds, deviceVars
  <2>3. Start \/ ExecNextFSRequest \/ StartData \/ CtrlDone \/ DataDone \/ FailFS => file' = file
    BY DEF Start, ExecNextFSRequest, ExecFS, StartData, CtrlDone, DataDone, FailFS, deviceVars
  <2>4. Finished \/ Rejected => file' = file
    BY DEF Finished, Rejected, FinishUser, FinishStep, FinishOwn, deviceVars
  <2>5. \/ OnChannelConnected \/ StartPending \/ OnChannelDisconnected \/ OnChannelError \/ FailPending
        \/ ErrorFinish \/ ErrorClose \/ Drain \/ SocketAbort \/ Closed \/ SlotReturns
        => file' = file
    BY DEF OnChannelConnected, StartPending, OnChannelDisconnected, OnChannelError, FailPending, ErrorFinish,
           ErrorClose, Drain, SocketAbort, Closed, SlotReturns, deviceVars
  <2> QED BY <2>1, <2>2, <2>3, <2>4, <2>5 DEF Next, Resume, vars, deviceVars
<1> QED BY <1>1, <1>2, <1>3, <1>4, <1>5

\* The transfer that moves contents needs its file.
LEMMA OwnFileNow ==
  ASSUME TypeInv, Books, FileInv, ~MayReplace
  PROVE  OwnFile
<1> SUFFICES ASSUME chan # <<>>, Head(chan).step = "data" PROVE file = Head(chan).req
  BY DEF OwnFile
<1>1. PICK x \in Exchanges : x = Head(chan)
  BY Parts DEF TypeInv
<1> DEFINE i == Base(x)
           q == x.req
<1>2. i \in Objects /\ i.req = q /\ i.step = "data"
  BY <1>1, ExchangeIs
<1>3. q \in Requests /\ i = Item(q, "data")
  BY <1>2, ObjectIs DEF OwnSteps
<1> HIDE DEF i, q
<1>4. Fly({i}) > 0 /\ Fly({i}) \in Nat
  <2>1. Count(chan, Carrying({i})) = Count(Tail(chan), Carrying({i})) + Is(i, {i})
        /\ Count(Tail(chan), Carrying({i})) \in Nat
    BY <1>1, CarryTail DEF i
  <2>2. Is(i, {i}) = 1
    BY IsOne
  <2>3. Count(pending, {i}) \in Nat /\ Of(stack, InFlight, {i}) \in Nat /\ Fly({i}) \in Nat
    BY LedgerTypes
  <2> QED BY <2>1, <2>2, <2>3 DEF Fly
<1>5. {Item(q, "attr")} \in SUBSET Commands
  BY <1>3, StepTypes
<1>6. /\ Cd({Item(q, "attr")}) <= Count(fsCtrl, {Item(q, "attr")})
      /\ Cd({Item(q, "attr")}) \in Nat /\ Count(fsCtrl, {Item(q, "attr")}) \in Nat
  BY <1>5, CtrlLeft DEF Books
<1>7. Away(q) > 0
  BY <1>3, <1>4, <1>6 DEF Away
<1> QED BY <1>1, <1>3, <1>7 DEF FileInv, q

-----------------------------------------------------------------------------
(* What a step leaves of the stack, and what it starts.                    *)

LEMMA AbovePush ==
  ASSUME NEW s \in Seq(Suspended), NEW f \in Suspended, Sound(f)
  PROVE  /\ Above(s, s) /\ Above(Push(f, s), s) /\ Push(f, s) \in Seq(Suspended)
         /\ \A t : Above(s, t) => Above(Push(f, s), t)
<1>1. Clean(s) => Clean(Push(f, s))
  BY OfPush, IsOne DEF Clean, Sound
<1>2. /\ Push(f, s) \in Seq(Suspended)
      /\ Holds(s, {"startPending"}) => Holds(Push(f, s), {"startPending"})
  BY PushTypes, HoldsPush
<1> QED BY <1>1, <1>2 DEF Above

LEMMA GuardedPush ==
  ASSUME NEW s \in Seq(Suspended), NEW f \in Suspended
  PROVE  /\ f.op # "startPending" /\ Guarded(s) => Guarded(Push(f, s))
         /\ f.op = "failPending" => Guarded(Push(f, s))
         /\ f.op # "failPending" /\ Guarded(Push(f, s)) => Guarded(s) /\ f.op # "startPending"
<1> DEFINE longer == <<f>> \o s
<1>1. /\ Len(longer) = Len(s) + 1 /\ longer[1] = f /\ Len(s) \in Nat
      /\ \A n \in 1 .. Len(s) : longer[n + 1] = s[n]
      /\ longer = Push(f, s)
  BY DEF Push
<1> HIDE DEF longer
<1>2. ASSUME f.op # "startPending", Guarded(s) PROVE Guarded(longer)
  <2> SUFFICES ASSUME NEW n \in 1 .. Len(longer), longer[n].op = "startPending"
               PROVE  \E m \in 1 .. n - 1 : longer[m].op = "failPending"
    BY DEF Guarded
  <2>1. n - 1 \in 1 .. Len(s) /\ longer[n] = s[n - 1]
    <3>1. n # 1
      BY <1>1, <1>2
    <3>2. n - 1 \in 1 .. Len(s) /\ (n - 1) + 1 = n
      BY <1>1, <3>1
    <3> QED BY <1>1, <3>2
  <2>2. PICK m \in 1 .. (n - 1) - 1 : s[m].op = "failPending"
    BY <1>2, <2>1 DEF Guarded
  <2>3. m + 1 \in 1 .. n - 1 /\ m \in 1 .. Len(s)
    BY <1>1, <2>1, <2>2
  <2> QED BY <1>1, <2>2, <2>3
<1>3. ASSUME f.op = "failPending" PROVE Guarded(longer)
  <2> SUFFICES ASSUME NEW n \in 1 .. Len(longer), longer[n].op = "startPending"
               PROVE  1 \in 1 .. n - 1
    BY <1>1, <1>3 DEF Guarded
  <2>1. n # 1
    BY <1>1, <1>3
  <2> QED BY <1>1, <2>1
<1>4. ASSUME f.op # "failPending", Guarded(longer) PROVE Guarded(s) /\ f.op # "startPending"
  <2>1. f.op # "startPending"
    <3>1. 1 \in 1 .. Len(longer) /\ ~ \E m \in 1 .. 1 - 1 : TRUE
      BY <1>1
    <3> QED BY <1>1, <1>4, <3>1 DEF Guarded
  <2>2. ASSUME NEW n \in 1 .. Len(s), s[n].op = "startPending"
        PROVE  \E m \in 1 .. n - 1 : s[m].op = "failPending"
    <3>1. n + 1 \in 1 .. Len(longer) /\ longer[n + 1].op = "startPending"
      BY <1>1, <2>2
    <3>2. PICK m \in 1 .. (n + 1) - 1 : longer[m].op = "failPending"
      BY <1>4, <3>1 DEF Guarded
    <3>3. m # 1
      BY <1>1, <1>4, <3>2
    <3>4. m - 1 \in 1 .. n - 1 /\ m - 1 \in 1 .. Len(s) /\ (m - 1) + 1 = m
      BY <1>1, <3>2, <3>3
    <3>5. s[m - 1].op = "failPending"
      BY <1>1, <3>2, <3>4
    <3> QED BY <3>4, <3>5
  <2> QED BY <2>1, <2>2 DEF Guarded
<1> QED BY <1>1, <1>2, <1>3, <1>4

LEMMA RisesPush ==
  ASSUME NEW s \in Seq(Suspended), NEW f \in Suspended, Light(f)
  PROVE  /\ Rises(s, s) /\ Rises(Push(f, s), s) /\ Push(f, s) \in Seq(Suspended)
         /\ \A t : Rises(s, t) => Rises(Push(f, s), t)
<1>1. Still(s) => Still(Push(f, s))
  <2>1. CASE f.op = "start"
    <3>1. Is(f.item, Sessions) = 0 /\ f.op \in {"start"}
      BY <2>1, IsOne DEF Light
    <3> QED BY <3>1, OfPush DEF Still
  <2>2. CASE f.op # "start"
    BY <2>2, OfPush DEF Still
  <2> QED BY <2>1, <2>2
<1>2. Push(f, s) \in Seq(Suspended) /\ (Guarded(s) => Guarded(Push(f, s)))
  BY PushTypes, GuardedPush DEF Light
<1> QED BY <1>1, <1>2 DEF Rises

LEMMA AboveRest ==
  ASSUME TypeInv, NEW op, At(op)
  PROVE  /\ Rest \in Seq(Suspended) /\ This \in Objects /\ Above(Rest, Rest)
         /\ Clean(stack) => Clean(Rest) /\ (op = "start" => This # Own("quit"))
         /\ op # "startPending" /\ Holds(stack, {"startPending"}) => Holds(Rest, {"startPending"})
<1>1. /\ Rest \in Seq(Suspended) /\ This \in Objects
      /\ Of(Rest, {"start"}, {Own("quit")}) \in Nat
      /\ op = "start" => Of(stack, {"start"}, {Own("quit")})
                           = Of(Rest, {"start"}, {Own("quit")}) + Is(This, {Own("quit")})
      /\ op # "start" => Of(stack, {"start"}, {Own("quit")}) = Of(Rest, {"start"}, {Own("quit")})
      /\ Holds(stack, {"startPending"}) <=> op \in {"startPending"} \/ Holds(Rest, {"startPending"})
  BY OfAt
<1>2. Clean(stack) => Clean(Rest) /\ (op = "start" => This # Own("quit"))
  BY <1>1, IsOne DEF Clean
<1> QED BY <1>1, <1>2 DEF Above

LEMMA RisesRest ==
  ASSUME TypeInv, NEW op, At(op)
  PROVE  /\ Rest \in Seq(Suspended) /\ This \in Objects /\ Rises(Rest, Rest)
         /\ op # "start" => (Still(stack) <=> Still(Rest))
         /\ op = "start" /\ Still(stack) => This \notin Sessions
         /\ op # "failPending" /\ Guarded(stack) => Guarded(Rest) /\ op # "startPending"
<1>1. /\ Rest \in Seq(Suspended) /\ This \in Objects
      /\ Of(Rest, {"start"}, Sessions) \in Nat
      /\ op = "start" => Of(stack, {"start"}, Sessions) = Of(Rest, {"start"}, Sessions) + Is(This, Sessions)
      /\ op # "start" => Of(stack, {"start"}, Sessions) = Of(Rest, {"start"}, Sessions)
  BY OfAt
<1>2. /\ op # "start" => (Still(stack) <=> Still(Rest))
      /\ op = "start" /\ Still(stack) => This \notin Sessions
  BY <1>1, IsOne DEF Still
<1>3. op # "failPending" /\ Guarded(stack) => Guarded(Rest) /\ op # "startPending"
  <2>1. stack = Push(Head(stack), Rest) /\ Head(stack) \in Suspended /\ Head(stack).op = op
    BY AtTypes DEF TypeInv
  <2> QED BY <1>1, <2>1, GuardedPush
<1> QED BY <1>1, <1>2, <1>3 DEF Rises

\* Frames by what they do.
LEMMA LightFrames ==
  /\ \A op \in Ops \ {"start", "startPending"} : Do(op) \in Suspended /\ Light(Do(op))
  /\ \A op \in Ops \ {"start", "startPending"}, i \in Objects : Call(op, i) \in Suspended /\ Light(Call(op, i))
  /\ \A i \in Objects : i \notin Sessions => Call("start", i) \in Suspended /\ Light(Call("start", i))
  /\ \A i \in Exchanges, ok \in BOOLEAN : End(i, ok) \in Suspended /\ Light(End(i, ok))
<1>1. "start" \in Ops
  BY DEF Ops
<1> QED BY <1>1, FrameTypes DEF Light

LEMMA OverPush ==
  ASSUME NEW s \in Seq(Suspended), NEW f \in Suspended, f.op \in Plain
  PROVE  /\ Over(s, s) /\ Over(Push(f, s), s)
         /\ \A t : Over(s, t) => Over(Push(f, s), t)
BY PushTypes, HoldsPush DEF Over

LEMMA OnPush ==
  ASSUME NEW plain \in BOOLEAN, NEW s \in Seq(Suspended)
  PROVE  /\ On(plain, s, s)
         /\ \A f \in Suspended : Mild(plain, f) =>
              /\ On(plain, Push(f, s), s) /\ Push(f, s) \in Seq(Suspended)
              /\ \A t : On(plain, s, t) => On(plain, Push(f, s), t)
<1>1. On(plain, s, s)
  BY DEF On, Above, Rises, Over
<1>2. \A f : Light(f) => Sound(f)
  BY DEF Light, Sound, Sessions
<1> QED BY <1>1, <1>2, AbovePush, RisesPush, OverPush DEF On, Mild

\* What the calls of the channel leave.
LEMMA OnCalls ==
  ASSUME TypeInv, NEW plain \in BOOLEAN, NEW s \in Seq(Suspended)
  PROVE  /\ On(plain, s, s)
         /\ ChannelError(s) => On(plain, stack', s)
         /\ ~plain /\ ChannelConnect(s) => On(plain, stack', s)
         /\ ~plain /\ DoDisconnect(s) => On(plain, stack', s)
         /\ \A ok \in BOOLEAN : ChannelFinish(ok, s) => On(plain, stack', s)
         /\ \A i : AddCtrl(i, s) \/ AddData(i, s) => On(plain, stack', s)
<1>0. /\ {"onError", "errorFinish", "errorClose", "execCtrl", "execData"} \subseteq (Ops \ {"start", "startPending"}) \cap Plain
      /\ {"onConnected", "drain", "closed"} \subseteq Ops \ {"start", "startPending"}
  BY DEF Ops, Plain, Ends, Emptiers
<1> DEFINE ops == {"onError", "errorFinish", "errorClose", "execCtrl", "execData"}
                    \union (IF plain THEN {} ELSE {"onConnected", "drain", "closed"})
<1>1. \A op \in ops : Do(op) \in Suspended /\ Mild(plain, Do(op))
  BY <1>0, LightFrames, FrameTypes DEF Mild
<1>2. On(plain, s, s)
  BY OnPush
<1>3. \A op \in ops : \A t \in Seq(Suspended) :
        On(plain, t, s) => On(plain, Push(Do(op), t), s) /\ Push(Do(op), t) \in Seq(Suspended)
  BY <1>1, OnPush
<1>4. /\ On(plain, Push(Do("errorClose"), s), s) /\ Push(Do("errorClose"), s) \in Seq(Suspended)
      /\ On(plain, Push(Do("execCtrl"), s), s) /\ On(plain, Push(Do("execData"), s), s)
      /\ ~plain => /\ On(plain, Push(Do("closed"), s), s) /\ Push(Do("closed"), s) \in Seq(Suspended)
                   /\ On(plain, Push(Do("onConnected"), s), s) /\ On(plain, Push(Do("drain"), s), s)
  BY <1>2, <1>3
<1>5. /\ On(plain, Push(Do("errorFinish"), Push(Do("errorClose"), s)), s)
      /\ Push(Do("errorFinish"), Push(Do("errorClose"), s)) \in Seq(Suspended)
      /\ ~plain => On(plain, Push(Do("drain"), Push(Do("closed"), s)), s)
  BY <1>3, <1>4
<1>6. On(plain, Push(Do("onError"), Push(Do("errorFinish"), Push(Do("errorClose"), s))), s)
  BY <1>3, <1>5
<1>7. ChannelError(s) => On(plain, stack', s)
  BY <1>6, ErrorTypes
<1>8. ~plain /\ ChannelConnect(s) => On(plain, stack', s)
  BY <1>2, <1>4, <1>6, ConnectLeaves
<1>9. ~plain /\ DoDisconnect(s) => On(plain, stack', s)
  BY <1>2, <1>4, <1>5, DisconnectLeaves
<1>10. ASSUME NEW ok \in BOOLEAN, ChannelFinish(ok, s) PROVE On(plain, stack', s)
  <2>1. ASSUME NEW f \in Suspended, f.op = "finished", stack' = Push(f, s) PROVE On(plain, stack', s)
    <3>1. Mild(plain, f)
      BY <2>1 DEF Mild, Light, Plain, Ops, Ends, Emptiers
    <3> QED BY <2>1, <3>1, OnPush
  <2> QED BY <1>2, <1>10, <2>1, FinishLeaves
<1>11. ASSUME NEW i, AddCtrl(i, s) \/ AddData(i, s) PROVE On(plain, stack', s)
  BY <1>2, <1>4, <1>11 DEF AddCtrl, AddData
<1> QED BY <1>2, <1>7, <1>8, <1>9, <1>10, <1>11

\* A step starts a login or a QUIT only where the manager asks for one or
\* starts what is pending.
LEMMA Shape ==
  ASSUME TypeInv, NEW plain \in BOOLEAN, IF plain THEN PlainStep ELSE [Next]_vars
  PROVE  \/ Calling(plain) \/ Returning(plain) \/ Quits \/ LogsIn
         \/ ~plain /\ (Begins \/ OnChannelConnected \/ UNCHANGED vars)
<1> DEFINE Fine == \/ Calling(plain) \/ Returning(plain) \/ Quits \/ LogsIn
                   \/ ~plain /\ (Begins \/ OnChannelConnected \/ UNCHANGED vars)
<1> SUFFICES Fine
  OBVIOUS
<1>0. /\ stack \in Seq(Suspended) /\ <<>> \in Seq(Suspended)
      /\ Idling => stack = <<>>
      /\ fsCtrl # <<>> => Head(fsCtrl) \in Objects /\ Head(fsCtrl) \notin Sessions
      /\ fsData # <<>> => Head(fsData) \in Objects /\ Head(fsData) \notin Sessions
      /\ pending # <<>> => Head(pending) \in Objects
  <2>1. \A i \in Commands \union Transfers : i \in Objects /\ i \notin Sessions
    BY ItemTypes, CommandIs, TransferIs DEF Own, Manager, OwnSteps, Item, Sessions
  <2>2. fsCtrl # <<>> => Head(fsCtrl) \in Commands
    BY Parts DEF TypeInv
  <2>3. fsData # <<>> => Head(fsData) \in Transfers
    BY Parts DEF TypeInv
  <2>4. pending # <<>> => Head(pending) \in Objects
    BY Parts DEF TypeInv
  <2> QED BY <2>1, <2>2, <2>3, <2>4, PushAlone DEF Idling, TypeInv
<1>1. /\ On(plain, stack, stack)
      /\ \A op : At(op) => Rest \in Seq(Suspended) /\ This \in Objects /\ On(plain, Rest, Rest)
  BY <1>0, OnPush, RisesRest
<1> DEFINE ops == {"slot", "execCtrl", "execData", "execAny", "startData", "failFS", "onError", "errorFinish",
                   "socketAbort", "hangUp", "ctrlDone", "dataDone", "rejected"}
                  \union (IF plain THEN {} ELSE {"onDisconnected", "failPending", "drain", "onConnected"})
<1>2. ops \subseteq Ops \ {"start", "startPending"} /\ (plain => ops \subseteq Plain) /\ {"start", "finished"} \subseteq Plain
  BY DEF Ops, Plain, Ends, Emptiers
<1>3. /\ \A op \in ops : Do(op) \in Suspended /\ Mild(plain, Do(op))
      /\ \A op \in {"ctrlDone", "dataDone", "rejected"}, i \in Objects : Call(op, i) \in Suspended /\ Mild(plain, Call(op, i))
      /\ \A i \in Objects : i \notin Sessions => Call("start", i) \in Suspended /\ Mild(plain, Call("start", i))
      /\ \A i \in Exchanges, ok \in BOOLEAN : End(i, ok) \in Suspended /\ Mild(plain, End(i, ok))
  BY <1>2, LightFrames, FrameTypes DEF Mild, Plain
<1>4. /\ \A step \in OwnSteps \ {"login", "quit"} : Own(step) \in Objects /\ Own(step) \notin Sessions
      /\ \A r \in Requests, step \in {"run", "open", "attr", "data", "close"} :
           Item(r, step) \in Objects /\ Item(r, step) \notin Sessions
  BY ItemTypes DEF OwnSteps, Own, Item, Sessions
<1>p. \A s \in Seq(Suspended) :
        /\ On(plain, s, s)
        /\ \A t \in Seq(Suspended) : \A f \in Suspended :
             Mild(plain, f) /\ On(plain, t, s) => On(plain, Push(f, t), s) /\ Push(f, t) \in Seq(Suspended)
  BY OnPush
<1>5. ASSUME On(plain, stack', stack), stack = <<>> \/ \E op : At(op) /\ op # "start" PROVE Fine
  BY <1>5 DEF Calling
<1>6. ASSUME NEW op, At(op), op \notin {"startPending", "failPending"}, On(plain, stack', Rest)
      PROVE  Fine
  BY <1>6 DEF Returning
<1>a. AppTurn => stack = <<>> \/ \E op : At(op) /\ op # "start"
  BY DEF AppTurn
<1>7. \A s \in Seq(Suspended) :
         /\ ChannelError(s) => On(plain, stack', s)
         /\ ~plain /\ ChannelConnect(s) => On(plain, stack', s)
         /\ ~plain /\ DoDisconnect(s) => On(plain, stack', s)
         /\ \A ok \in BOOLEAN : ChannelFinish(ok, s) => On(plain, stack', s)
         /\ \A i : AddCtrl(i, s) \/ AddData(i, s) => On(plain, stack', s)
  BY OnCalls
<1>8. \A s \in Seq(Suspended) : ~plain /\ ConnectToDevice(s) => On(plain, stack', s)
  BY <1>7, <1>p DEF ConnectToDevice
<1> HIDE DEF Fine
<1>11. ASSUME NEW r \in Requests, AppExec(r) PROVE Fine
  <2>1. Call("start", Item(r, "run")) \in Suspended /\ Mild(plain, Call("start", Item(r, "run")))
    BY <1>3, <1>4
  <2>2. On(plain, Push(Call("start", Item(r, "run")), stack), stack)
    BY <1>0, <1>1, <1>p, <2>1
  <2> QED BY <1>0, <1>a, <1>5, <1>7, <1>11, <2>2 DEF AppExec
<1>12. ASSUME AppConnect \/ AppDisconnect, ~plain PROVE Fine
  BY <1>0, <1>a, <1>5, <1>7, <1>8, <1>12 DEF AppConnect, AppDisconnect
<1>13. ASSUME SetChannel PROVE Fine
  <2>1. stack = <<>> /\ <<Do("slot")>> = Push(Do("slot"), <<>>)
    BY <1>0, <1>3, <1>13, PushAlone DEF SetChannel
  <2>2. On(plain, stack', stack)
    BY <1>0, <1>3, <1>p, <1>13, <2>1 DEF SetChannel
  <2> QED BY <1>5, <2>1, <2>2
<1>14. ASSUME Start, plain => isConnected PROVE Fine
  <2>1. Rest \in Seq(Suspended) /\ On(plain, Rest, Rest) /\ This \in Objects /\ At("start")
    BY <1>1, <1>14 DEF Start
  <2>2. End(This, Kind[This.req] = "empty") \in Suspended /\ Mild(plain, End(This, Kind[This.req] = "empty"))
    BY <1>3, <2>1, ObjectIs
  <2>3. On(plain, Push(End(This, Kind[This.req] = "empty"), Rest), Rest)
    BY <1>p, <2>1, <2>2
  <2>4. On(plain, stack', Rest)
    BY <1>7, <1>8, <1>14, <2>1, <2>3 DEF Start
  <2> QED BY <1>6, <2>1, <2>4
<1>15. CASE ExecNextFSRequest
  <2>0. PICK op \in {"execCtrl", "execData", "execAny"} : At(op)
    BY <1>15 DEF ExecNextFSRequest
  <2>1. PICK type \in {{"ctrl"}, {"data"}, {"ctrl", "data"}} : ExecFS(type)
    BY <1>15 DEF ExecNextFSRequest
  <2>2. Rest \in Seq(Suspended) /\ On(plain, Rest, Rest)
    BY <1>1, <2>0
  <2>3. /\ fsCtrl # <<>> => Call("start", Head(fsCtrl)) \in Suspended /\ Mild(plain, Call("start", Head(fsCtrl)))
        /\ Do("startData") \in Suspended /\ Mild(plain, Do("startData"))
    BY <1>0, <1>3
  <2>4. Push(Do("startData"), Rest) \in Seq(Suspended) /\ On(plain, Push(Do("startData"), Rest), Rest)
    BY <1>p, <2>2, <2>3
  <2>5. /\ fsCtrl # <<>> => /\ On(plain, Push(Call("start", Head(fsCtrl)), Rest), Rest)
                            /\ On(plain, Push(Call("start", Head(fsCtrl)), Push(Do("startData"), Rest)), Rest)
    BY <1>p, <2>2, <2>3, <2>4
  <2>6. CASE \/ fsCtrl = <<>> /\ fsData = <<>> /\ stack' = Push(Call("start", Own("quit")), Rest)
             \/ login = "NotLoggedIn" /\ stack' = Push(Call("start", Own("login")), Rest)
    BY <1>15, <2>6 DEF Fine, Quits, LogsIn
  <2>7. On(plain, stack', Rest) \/
        \/ fsCtrl = <<>> /\ fsData = <<>> /\ stack' = Push(Call("start", Own("quit")), Rest)
        \/ login = "NotLoggedIn" /\ stack' = Push(Call("start", Own("login")), Rest)
    BY <2>1, <2>2, <2>4, <2>5, ExecLeaves
  <2> QED BY <1>6, <2>0, <2>6, <2>7
<1>16. CASE StartData \/ CtrlDone \/ DataDone
  <2>0. PICK op \in {"startData", "ctrlDone", "dataDone"} : At(op)
    BY <1>16 DEF StartData, CtrlDone, DataDone
  <2>1. Rest \in Seq(Suspended) /\ On(plain, Rest, Rest)
    BY <1>1, <2>0
  <2>2. fsData # <<>> => Call("start", Head(fsData)) \in Suspended /\ Mild(plain, Call("start", Head(fsData)))
    BY <1>0, <1>3
  <2>3. /\ fsData # <<>> => On(plain, Push(Call("start", Head(fsData)), Rest), Rest)
        /\ On(plain, Push(Do("execCtrl"), Rest), Rest) /\ On(plain, Push(Do("execData"), Rest), Rest)
    BY <1>3, <1>p, <2>1, <2>2
  <2>4. On(plain, stack', Rest)
    BY <1>16, <2>1, <2>3 DEF StartData, CtrlDone, DataDone
  <2> QED BY <1>6, <2>0, <2>4
<1>17. CASE Finished \/ Rejected
  <2>0. PICK op \in {"finished", "rejected"} : At(op)
    BY <1>17 DEF Finished, Rejected
  <2>1. Rest \in Seq(Suspended) /\ On(plain, Rest, Rest) /\ This \in Objects
    BY <1>1, <2>0
  <2>2. ASSUME NEW r \in Requests, NEW started \in BOOLEAN, NEW rest \in Seq(Suspended),
               Finish(r, started, rest)
        PROVE  On(plain, stack', rest)
    <3>1. /\ Item(r, "run") \in Objects /\ Do("slot") \in Suspended /\ Mild(plain, Do("slot"))
          /\ Call("ctrlDone", Item(r, "run")) \in Suspended /\ Mild(plain, Call("ctrlDone", Item(r, "run")))
          /\ Call("dataDone", Item(r, "run")) \in Suspended /\ Mild(plain, Call("dataDone", Item(r, "run")))
      BY <1>3, <1>4
    <3>2. /\ On(plain, Push(Call("ctrlDone", Item(r, "run")), rest), rest)
          /\ Push(Call("ctrlDone", Item(r, "run")), rest) \in Seq(Suspended)
          /\ On(plain, Push(Call("dataDone", Item(r, "run")), rest), rest)
          /\ Push(Call("dataDone", Item(r, "run")), rest) \in Seq(Suspended)
          /\ On(plain, rest, rest)
      BY <1>p, <3>1
    <3> QED BY <1>p, <2>2, <3>1, <3>2 DEF Finish
  <2>3. ASSUME NEW started \in BOOLEAN, FinishUser(started) PROVE On(plain, stack', Rest)
    <3>1. This.req \in Requests
      BY <2>1, <2>3, ObjectIs DEF FinishUser, IsUser, OwnSteps
    <3> QED BY <2>1, <2>2, <2>3, <3>1 DEF FinishUser
  <2>4. ASSUME NEW started \in BOOLEAN, FinishStep(started) PROVE On(plain, stack', Rest)
    <3> DEFINE rest == IF started /\ IsCommand(This) THEN Push(Call("ctrlDone", This), Rest) ELSE Rest
    <3>1. This.req \in Requests
      BY <2>4 DEF FinishStep
    <3>2. Call("ctrlDone", This) \in Suspended /\ Mild(plain, Call("ctrlDone", This))
      BY <1>3, <2>1
    <3>3. rest \in Seq(Suspended) /\ On(plain, rest, Rest)
      BY <1>p, <2>1, <3>2
    <3>4. \/ Finish(This.req, TRUE, rest)
          \/ AddCtrl(Item(This.req, "close"), rest)
          \/ AddCtrl(Item(This.req, "attr"), rest)
          \/ stack' = Push(Call("start", Item(This.req, "data")), rest)
      BY <2>4 DEF FinishStep
    <3> HIDE DEF rest
    <3>5. Call("start", Item(This.req, "data")) \in Suspended /\ Mild(plain, Call("start", Item(This.req, "data")))
      BY <1>3, <1>4, <3>1
    <3>6. On(plain, Push(Call("start", Item(This.req, "data")), rest), rest)
      BY <1>p, <3>3, <3>5
    <3>7. On(plain, stack', rest)
      BY <1>7, <2>2, <3>1, <3>3, <3>4, <3>6
    <3> QED BY <3>3, <3>7 DEF On, Above, Rises, Over
  <2>5. ASSUME FinishOwn PROVE On(plain, stack', Rest)
    <3>1. /\ Call("start", Own("slave")) \in Suspended /\ Mild(plain, Call("start", Own("slave")))
          /\ Do("execAny") \in Suspended /\ Mild(plain, Do("execAny"))
          /\ Do("failFS") \in Suspended /\ Mild(plain, Do("failFS"))
      BY <1>3, <1>4 DEF OwnSteps
    <3>2. stack' \in {Push(Do("execAny"), Rest), Push(Do("failFS"), Rest),
                      Push(Call("start", Own("slave")), Rest), Rest}
      BY <2>5 DEF FinishOwn
    <3> QED BY <1>p, <2>1, <3>1, <3>2
  <2>6. On(plain, stack', Rest)
    BY <1>17, <2>3, <2>4, <2>5 DEF Finished, Rejected
  <2> QED BY <1>6, <2>0, <2>6
<1>18. CASE FailFS
  <2>1. At("failFS") /\ Rest \in Seq(Suspended) /\ On(plain, Rest, Rest)
    BY <1>1, <1>18 DEF FailFS
  <2>2. /\ fsCtrl # <<>> => Call("rejected", Head(fsCtrl)) \in Suspended /\ Mild(plain, Call("rejected", Head(fsCtrl)))
        /\ fsData # <<>> => Call("rejected", Head(fsData)) \in Suspended /\ Mild(plain, Call("rejected", Head(fsData)))
    BY <1>0, <1>3
  <2>3. /\ fsCtrl # <<>> => On(plain, Push(Call("rejected", Head(fsCtrl)), stack), stack)
        /\ fsData # <<>> => On(plain, Push(Call("rejected", Head(fsData)), stack), stack)
    BY <1>0, <1>1, <1>p, <2>2
  <2>4. On(plain, stack', stack) \/ On(plain, stack', Rest)
    BY <1>18, <2>1, <2>3 DEF FailFS
  <2> QED BY <1>5, <1>6, <2>1, <2>4
<1>19. ASSUME OnChannelConnected \/ UNCHANGED vars, ~plain PROVE Fine
  BY <1>19 DEF Fine
<1>20. ASSUME StartPending, ~plain PROVE Fine
  <2>1. At("startPending") /\ Rest \in Seq(Suspended) /\ On(plain, Rest, Rest)
    BY <1>1, <1>20 DEF StartPending
  <2>2. CASE pending = <<>>
    <3>1. stack' = Push(Do("slot"), Rest)
      BY <1>20, <2>2 DEF StartPending
    <3>2. On(plain, stack', Rest)
      BY <1>3, <1>p, <2>1, <3>1
    <3> QED BY <2>1, <2>2, <3>2 DEF Fine, Returning
  <2>3. CASE pending # <<>>
    BY <1>20, <2>3 DEF Fine, Begins
  <2> QED BY <2>2, <2>3
<1>21. ASSUME OnChannelDisconnected \/ OnChannelError \/ Drain, ~plain PROVE Fine
  <2>0. PICK op \in {"onDisconnected", "onError", "drain"} : At(op)
    BY <1>21 DEF OnChannelDisconnected, OnChannelError, Drain
  <2>1. Rest \in Seq(Suspended) /\ On(plain, Rest, Rest)
    BY <1>1, <2>0
  <2>2. /\ On(plain, Push(Do("slot"), Rest), Rest) /\ On(plain, Push(Do("failPending"), Rest), Rest)
        /\ On(plain, Push(Do("onDisconnected"), Rest), Rest)
    BY <1>3, <1>p, <1>21, <2>1
  <2>3. On(plain, stack', stack) \/ On(plain, stack', Rest)
    BY <1>0, <1>7, <1>21, <2>1, <2>2 DEF OnChannelDisconnected, OnChannelError, Drain
  <2> QED BY <1>5, <1>6, <2>0, <2>3
<1>22. ASSUME FailPending, ~plain PROVE Fine
  <2>1. At("failPending") /\ Rest \in Seq(Suspended) /\ On(plain, Rest, Rest)
    BY <1>1, <1>22 DEF FailPending
  <2>2. pending # <<>> => End(Head(pending), FALSE) \in Suspended /\ Mild(plain, End(Head(pending), FALSE))
    BY <1>0, <1>3, ObjectIs
  <2>3. pending # <<>> => On(plain, Push(End(Head(pending), FALSE), stack), stack)
    BY <1>0, <1>1, <1>p, <2>2
  <2>4. CASE pending # <<>>
    <3>1. On(plain, stack', stack)
      BY <1>22, <2>3, <2>4 DEF FailPending
    <3> QED BY <1>5, <2>1, <3>1
  <2>5. CASE pending = <<>>
    <3>1. stack' = Rest /\ pending' = <<>>
      BY <1>22, <2>5 DEF FailPending
    <3> QED BY <2>1, <3>1 DEF Fine, Returning
  <2> QED BY <2>4, <2>5
<1>23. ASSUME \/ ErrorFinish \/ SlotReturns
              \/ ~plain /\ (ErrorClose \/ SocketAbort \/ Closed)
       PROVE  Fine
  <2>0. PICK op \in {"errorFinish", "errorClose", "hangUp", "socketAbort", "closed", "slot"} : At(op)
    BY <1>23 DEF ErrorFinish, ErrorClose, SocketAbort, Closed, SlotReturns
  <2>1. Rest \in Seq(Suspended) /\ On(plain, Rest, Rest)
    BY <1>1, <2>0
  <2>2. ~plain => On(plain, Push(Do("drain"), Rest), Rest)
    BY <1>3, <1>p, <2>1
  <2>3. On(plain, stack', Rest)
    BY <1>7, <1>23, <2>1, <2>2 DEF ErrorFinish, ErrorClose, SocketAbort, Closed, SlotReturns
  <2> QED BY <1>6, <2>0, <2>3
<1>24. ASSUME \/ Answer \/ NotConnected \/ Timeout \/ LinkBreaks \/ Noise
              \/ ~plain /\ (Connected \/ ConnectFails \/ CloseEnds)
       PROVE  Fine
  <2>0. stack = <<>> /\ <<>> \in Seq(Suspended) /\ On(plain, <<>>, <<>>)
    BY <1>0, <1>p, <1>24 DEF Answer, NotConnected, Timeout, LinkBreaks, Noise, Connected, ConnectFails, CloseEnds
  <2>1. ASSUME NEW op \in ops PROVE On(plain, <<Do(op)>>, <<>>) /\ <<Do(op)>> \in Seq(Suspended)
    <3>1. <<Do(op)>> = Push(Do(op), <<>>) /\ Do(op) \in Suspended /\ Mild(plain, Do(op))
      BY <1>2, <1>3, DoAlone
    <3> QED BY <1>p, <2>0, <3>1
  <2>2. ASSUME NEW op \in ops, NEW op2 \in ops PROVE On(plain, <<Do(op), Do(op2)>>, <<>>)
    <3>1. <<Do(op), Do(op2)>> = Push(Do(op), <<Do(op2)>>) /\ Do(op) \in Suspended /\ Mild(plain, Do(op))
      BY <1>2, <1>3, DoAlone
    <3> QED BY <1>p, <2>0, <2>1, <3>1
  <2>5. CASE Answer \/ NotConnected \/ Timeout \/ (~plain /\ ConnectFails)
    BY <1>5, <1>7, <2>0, <2>5 DEF Answer, NotConnected, Timeout, ConnectFails
  <2>6. CASE LinkBreaks
    <3>1. PICK s \in {<<Do("socketAbort")>>, <<>>} : On(plain, stack', s)
      BY <1>7, <2>0, <2>1, <2>6 DEF LinkBreaks
    <3>2. On(plain, s, <<>>)
      BY <2>0, <2>1
    <3> QED BY <1>5, <2>0, <3>1, <3>2 DEF On, Above, Rises, Over
  <2>7. CASE Noise \/ (~plain /\ (Connected \/ CloseEnds))
    BY <1>5, <2>0, <2>1, <2>2, <2>7 DEF Noise, Connected, CloseEnds
  <2> QED BY <1>24, <2>5, <2>6, <2>7
<1>25. CASE plain
  BY <1>11, <1>14, <1>15, <1>16, <1>17, <1>18, <1>23, <1>24, <1>25 DEF PlainStep
<1>26. CASE ~plain
  BY <1>11, <1>12, <1>13, <1>14, <1>15, <1>16, <1>17, <1>18, <1>19, <1>20, <1>21, <1>22, <1>23, <1>24, <1>26
     DEF Next, App, Resume, Loop
<1> QED BY <1>25, <1>26

-----------------------------------------------------------------------------
(* The connection over TCP.                                                *)

LEMMA OverRest ==
  ASSUME TypeInv, Top, NEW op \in Plain, At(op)
  PROVE  Over(stack, Rest) /\ Calm(Rest) /\ Over(Rest, Rest)
         /\ \A o : o # op => ~At(o)
<1>1. /\ stack \in Seq(Suspended) /\ Calm(Rest) /\ Rest \in Seq(Suspended)
      /\ Head(stack) \in Suspended
      /\ Head(stack).op = op /\ stack = Push(Head(stack), Rest)
  BY AtTypes, CalmIs DEF TypeInv
<1> QED BY <1>1, OverPush DEF At

LEMMA TcpQuiet ==
  ASSUME TypeInv, TypeInv', TcpInv, NEW rest, Calm(rest), Over(stack, rest), Over(stack', rest),
         ~At("onConnected"), ~At("onError"),
         UNCHANGED <<isConnected, isConnecting, link, pending>>
  PROVE  TcpInv'
<1>1. /\ Ends \cap Plain = {} /\ Emptiers \cap Plain = {} /\ {"closed"} \cap Plain = {}
      /\ {"onConnected"} \cap Plain = {}
  BY DEF Plain
<1>2. \A ops \in {Ends, Emptiers, {"closed"}} : Holds(stack, ops) <=> Holds(stack', ops)
  BY <1>1 DEF Over
<1>3. ~Holds(rest, {"onConnected"})
  BY DEF Calm, Holds, AtOnce
<1>4. ~Holds(stack', {"onConnected"})
  BY <1>1, <1>3 DEF Over
<1>5. ~At("onConnected")'
  <2>1. CASE stack' = <<>>
    BY <2>1 DEF At
  <2>2. CASE stack' # <<>>
    <3>1. stack' \in Seq(Suspended)
      BY DEF TypeInv
    <3>2. 1 \in 1 .. Len(stack') /\ stack'[1] = Head(stack')
      BY <2>2, <3>1
    <3> QED BY <1>4, <3>2 DEF At, Holds
  <2> QED BY <2>1, <2>2
<1> QED BY <1>2, <1>5 DEF TcpInv

\* The steps that leave what the manager knows of the connection alone.
LEMMA TcpPlain ==
  ASSUME TypeInv, TypeInv', Top, TcpInv, PlainStep
  PROVE  TcpInv'
<1>1. /\ UNCHANGED <<isConnected, isConnecting, link, pending>>
      /\ stack = <<>> \/ \E op \in {"start", "execCtrl", "execData", "execAny", "startData", "ctrlDone", "dataDone",
                                  "finished", "rejected", "failFS", "slot", "errorFinish"} : At(op)
  BY DEF PlainStep, AppExec, AppTurn, Start, ExecNextFSRequest, ExecFS, StartData, CtrlDone, DataDone, Finished,
     FinishUser, FinishStep, FinishOwn, Rejected, FailFS, SlotReturns, ErrorFinish, Answer, NotConnected, Timeout,
     LinkBreaks, Noise, Idling, managerVars, connVars, linkVars
<1>2. {"start", "execCtrl", "execData", "execAny", "startData", "ctrlDone", "dataDone", "finished", "rejected",
       "failFS", "slot", "errorFinish"} \subseteq Plain \ {"onError"}
  BY DEF Plain, Ops, Ends, Emptiers
<1>3. Calling(TRUE) \/ Returning(TRUE) \/ Quits \/ LogsIn
  BY Shape
<1>4. CASE stack = <<>>
  <2>1. Over(stack', stack) /\ Over(stack, stack)
    BY <1>3, <1>4 DEF Calling, Returning, Quits, LogsIn, ExecNextFSRequest, At, On, Over, TypeInv
  <2> QED BY <1>1, <1>4, <2>1, CalmIs, TcpQuiet DEF At
<1>5. ASSUME NEW op \in Plain \ {"onError"}, At(op) PROVE TcpInv'
  <2>1. /\ Over(stack, Rest) /\ Calm(Rest) /\ Over(Rest, Rest) /\ ~At("onConnected") /\ ~At("onError")
        /\ Rest \in Seq(Suspended) /\ \A o : At(o) => o = op
    BY <1>5, OverRest DEF Plain, Over
  <2>2. \A step \in {"login", "quit"} : Over(Push(Call("start", Own(step)), Rest), Rest)
    <3>1. \A step \in {"login", "quit"} :
            Call("start", Own(step)) \in Suspended /\ Call("start", Own(step)).op \in Plain
      BY <1>2, FrameTypes, ItemTypes DEF OwnSteps, Plain
    <3> QED BY <2>1, <3>1, OverPush
  <2>3. Over(stack', Rest)
    BY <1>3, <1>5, <2>1, <2>2 DEF Calling, Returning, Quits, LogsIn, On, Over, Plain, Emptiers
  <2> QED BY <1>1, <2>1, <2>3, TcpQuiet
<1> QED BY <1>1, <1>2, <1>4, <1>5

\* The calls of connectToDevice() by a request and by the application.
LEMMA TcpConnect ==
  ASSUME TypeInv, TcpInv, Transport = "tcp", NEW rest, Calm(rest), ConnectToDevice(rest),
         \A ops \in {Ends, Emptiers, {"closed"}} : Holds(rest, ops) <=> Holds(stack, ops),
         \A op \in AtOnce : ~At(op),
         UNCHANGED isConnected,
         pending' = pending \/ ~isConnected
  PROVE  TcpInv'
<1>1. stack' = rest
  BY DEF ConnectToDevice, ChannelConnect, TcpInv, AtOnce
<1>2. \A op \in AtOnce : ~At(op)'
  BY <1>1, CalmAfter
<1>3. \/ isConnecting' = isConnecting /\ link' = link
      \/ ~isConnected /\ isConnecting' /\ link' = "connecting"
  BY DEF ConnectToDevice, ChannelConnect, TcpInv, AtOnce
<1>4. \A ops \in {Ends, Emptiers, {"closed"}} : Holds(stack', ops) <=> Holds(stack, ops)
  BY <1>1
<1>5. isConnecting' \/ isConnected
  BY DEF ConnectToDevice, TypeInv
<1> QED BY <1>2, <1>3, <1>4, <1>5 DEF TcpInv, AtOnce

\* The calls of disconnectFromDevice() and close().
LEMMA TcpDisconnect ==
  ASSUME TypeInv, TcpInv, Transport = "tcp", NEW rest, Calm(rest), DoDisconnect(rest),
         \A ops \in {Ends, Emptiers, {"closed"}} : Holds(rest, ops) <=> Holds(stack, ops),
         \A op \in AtOnce : ~At(op),
         UNCHANGED <<isConnected, isConnecting, pending>>
  PROVE  TcpInv'
<1>1. \A op \in AtOnce : ~At(op)'
  BY TopCalls
<1>2. \/ stack' = rest /\ link' \in {link, "closing"} /\ (link' # link => link = "up")
      \/ stack' = Push(Do("drain"), rest) /\ link' = "down"
  BY DEF DoDisconnect, linkVars
<1>3. Do("drain") \in Suspended /\ Do("drain").op = "drain" /\ rest \in Seq(Suspended)
  BY DoTypes DEF Ops, Calm
<1>4. /\ Holds(stack', Emptiers) <=> Holds(stack, Emptiers)
      /\ Holds(stack', {"closed"}) <=> Holds(stack, {"closed"})
      /\ Holds(stack', Ends) => Holds(stack, Ends) \/ link' = "down"
  BY <1>2, <1>3, HoldsPush DEF Ends, Emptiers
<1>5. link = "up" => isConnected /\ ~isConnecting
  BY DEF TcpInv, AtOnce
<1>6. link' = "down" \/ link' = "closing" \/ link' = link
  BY <1>2
<1>7. link' = "down" => link' = link \/ link = "up"
  BY DEF DoDisconnect, linkVars
<1> QED BY <1>1, <1>2, <1>4, <1>5, <1>6, <1>7 DEF TcpInv, AtOnce

\* Over TCP no step lets the manager and the socket disagree.
LEMMA TcpNext ==
  ASSUME TypeInv, TypeInv', Top, TcpInv, Transport = "tcp", ~MayReplace, [Next]_vars
  PROVE  TcpInv'
<1>0. /\ stack \in Seq(Suspended) /\ Calm(<<>>) /\ Transport # "vcom"
      /\ AppTurn => Calm(stack) 
      /\ Idling => Calm(stack) /\ stack = <<>>
      /\ \A op \in AtOnce : Calm(stack) => ~At(op)
      /\ \A op : At(op) => Calm(Rest) /\ Rest \in Seq(Suspended) /\ This \in Objects
      /\ \A op : At(op) => \A ops : Holds(stack, ops) <=> op \in ops \/ Holds(Rest, ops)
      /\ \A op : At(op) => \A o : o # op => ~At(o)
      /\ pending # <<>> => Head(pending) \in Objects
  BY CalmIs, AtTypes, HoldsAt, Parts DEF TypeInv, Idling, At
<1>1. \A op \in Ops : Do(op) \in Suspended /\ Do(op).op = op
  BY DoTypes
<1>2. \A s : Calm(s) => /\ s \in Seq(Suspended)
                        /\ stack' = s => \A op \in AtOnce : ~At(op)'
                        /\ \A f \in Suspended : stack' = Push(f, s) =>
                             /\ \A op : At(op)' <=> op = f.op
                             /\ \A ops : Holds(stack', ops) <=> f.op \in ops \/ Holds(s, ops)
  BY CalmAfter DEF Calm
<1>3. CASE Start /\ ~isConnected
  BY <1>0, <1>3, TcpConnect DEF Start, AtOnce, Ends, Emptiers
<1>4. CASE AppConnect
  BY <1>0, <1>4, TcpConnect DEF AppConnect, AtOnce
<1>5. CASE AppDisconnect
  BY <1>0, <1>5, TcpDisconnect DEF AppDisconnect, managerVars, connVars
<1>6. CASE ErrorClose
  BY <1>0, <1>6, TcpDisconnect DEF ErrorClose, managerVars, connVars, AtOnce, Ends, Emptiers
<1>7. CASE OnChannelConnected
  <2>1. Calm(Rest) /\ Rest \in Seq(Suspended)
        /\ \A ops : Holds(stack, ops) <=> "onConnected" \in ops \/ Holds(Rest, ops)
    BY <1>0, <1>7 DEF OnChannelConnected
  <2> DEFINE top == Push(Do("startPending"), Rest)
             f == Call("start", Own("master"))
             g == Call("start", Own("dimension"))
  <2>2. /\ f \in Suspended /\ g \in Suspended /\ f.op = "start" /\ g.op = "start"
        /\ Do("startPending") \in Suspended /\ Do("startPending").op = "startPending"
    BY FrameTypes, ItemTypes DEF Ops, OwnSteps
  <2>3. Calm(top) /\ \A ops : Holds(top, ops) <=> "startPending" \in ops \/ Holds(Rest, ops)
    BY <2>1, <2>2, CalmPush, HoldsPush DEF AtOnce
  <2>4. stack' \in {top, Push(f, top), Push(g, top), Push(f, Push(g, top))}
    BY <1>7, <2>1, ConnectedLeaves
  <2> HIDE DEF top, f, g
  <2>5. /\ Calm(Push(g, top)) /\ \A ops : "start" \notin ops => (Holds(Push(g, top), ops) <=> Holds(top, ops))
    <3>1. "start" \notin AtOnce /\ top \in Seq(Suspended)
      BY <2>3 DEF AtOnce, Calm
    <3>2. Calm(Push(g, top))
      BY <2>2, <2>3, <3>1, CalmPush
    <3> QED BY <2>2, <3>1, <3>2, HoldsPush
  <2>6. /\ \A op \in AtOnce : ~At(op)'
        /\ \A ops : "start" \notin ops => (Holds(stack', ops) <=> Holds(top, ops))
    BY <1>2, <2>2, <2>3, <2>4, <2>5 DEF AtOnce
  <2>7. /\ Holds(stack', Emptiers) /\ (Holds(stack', Ends) => Holds(stack, Ends))
        /\ ~Holds(stack', {"closed"})
    BY <2>1, <2>3, <2>6 DEF Emptiers, Ends, TcpInv
  <2>8. link = "up" /\ link' = "up" /\ isConnected' /\ ~isConnecting' /\ pending' = pending
    BY <1>7 DEF OnChannelConnected, Established, linkVars, TcpInv
  <2> QED BY <2>6, <2>7, <2>8 DEF TcpInv, AtOnce
<1>8. CASE StartPending \/ FailPending
  <2>1. /\ Calm(Rest) /\ Calm(stack)
        /\ \A ops : ops \in {Ends, {"closed"}} => (Holds(stack, ops) <=> Holds(Rest, ops))
        /\ Holds(stack, Emptiers) /\ ~At("onConnected") /\ ~At("onError")
    BY <1>0, <1>8, CalmIs DEF StartPending, FailPending, AtOnce, Ends, Emptiers
  <2>2. /\ pending # <<>> => Call("start", Head(pending)) \in Suspended /\ End(Head(pending), FALSE) \in Suspended
        /\ Call("start", Head(pending)).op = "start" /\ End(Head(pending), FALSE).op = "finished"
    BY <1>0, FrameTypes, ObjectIs DEF Ops, Call, End
  <2>3. Do("slot") \in Suspended /\ Do("slot").op = "slot"
    BY <1>1 DEF Ops
  <2>4. UNCHANGED <<isConnected, isConnecting, link>>
    BY <1>8 DEF StartPending, FailPending, connVars, linkVars
  <2>5. CASE pending # <<>>
    <3>1. /\ stack' \in {Push(Call("start", Head(pending)), stack), Push(End(Head(pending), FALSE), stack)}
      BY <1>8, <2>5 DEF StartPending, FailPending
    <3>2. /\ ~At("onConnected")' /\ Holds(stack', Emptiers)
          /\ \A ops \in {Ends, {"closed"}} : Holds(stack', ops) <=> Holds(stack, ops)
      <4>1. PICK f \in Suspended : stack' = Push(f, stack) /\ f.op \in {"start", "finished"}
        BY <2>2, <2>5, <3>1
      <4> QED BY <1>2, <2>1, <4>1 DEF Emptiers, Ends
    <3> QED BY <2>1, <2>4, <3>2 DEF TcpInv
  <2>6. CASE pending = <<>>
    <3>1. stack' \in {Push(Do("slot"), Rest), Rest} /\ pending' = pending
      BY <1>8, <2>6 DEF StartPending, FailPending
    <3>2. /\ ~At("onConnected")'
          /\ \A ops \in {Ends, {"closed"}} : Holds(stack', ops) <=> Holds(stack, ops)
      BY <1>2, <2>1, <2>3, <3>1 DEF Ends, AtOnce
    <3> QED BY <2>1, <2>4, <2>6, <3>1, <3>2 DEF TcpInv
  <2> QED BY <2>5, <2>6
<1>9. CASE OnChannelDisconnected
  <2>1. /\ stack' = Push(Do("slot"), Rest) /\ ~isConnected' /\ UNCHANGED <<isConnecting, link, pending>>
        /\ Calm(Rest) /\ Do("slot") \in Suspended /\ Do("slot").op = "slot"
        /\ ~At("onConnected") /\ ~At("onError")
        /\ \A ops : Holds(stack, ops) <=> "onDisconnected" \in ops \/ Holds(Rest, ops)
    BY <1>0, <1>1, <1>9 DEF OnChannelDisconnected, linkVars, Ops
  <2>2. /\ ~At("onConnected")' /\ link \in {"down", "connecting"}
        /\ \A ops \in {Emptiers, {"closed"}} : Holds(stack', ops) <=> Holds(stack, ops)
    BY <1>2, <2>1 DEF Emptiers, Ends, TcpInv
  <2> QED BY <2>1, <2>2 DEF TcpInv
<1>10. CASE OnChannelError
  <2>1. /\ stack' = IF isConnecting THEN Push(Do("failPending"), Rest) ELSE Rest
        /\ ~isConnecting' /\ UNCHANGED <<isConnected, link, pending>>
        /\ Calm(Rest) /\ Do("failPending") \in Suspended /\ Do("failPending").op = "failPending"
        /\ ~At("onConnected")
        /\ \A ops : Holds(stack, ops) <=> "onError" \in ops \/ Holds(Rest, ops)
    BY <1>0, <1>1, <1>10 DEF OnChannelError, linkVars, Ops
  <2>2. /\ ~At("onConnected")' /\ (isConnecting => Holds(stack', Emptiers))
        /\ \A ops \in {Ends, {"closed"}} : Holds(stack', ops) <=> Holds(stack, ops)
        /\ Holds(stack, Emptiers) => Holds(stack', Emptiers)
    BY <1>2, <2>1 DEF Emptiers, Ends, AtOnce
  <2> QED BY <2>1, <2>2 DEF TcpInv
<1>11. CASE Drain
  <2>1. /\ Calm(Rest) /\ Calm(stack) /\ ~At("onConnected") /\ ~At("onError")
        /\ \A ops : Holds(stack, ops) <=> "drain" \in ops \/ Holds(Rest, ops)
        /\ UNCHANGED <<isConnected, isConnecting, link, pending>>
    BY <1>0, <1>11, CalmIs DEF Drain, AtOnce, managerVars, connVars, linkVars
  <2>2. Do("onDisconnected") \in Suspended /\ Do("onDisconnected").op = "onDisconnected"
    BY <1>1 DEF Ops
  <2>3. \/ stack' = stack
        \/ \E f \in Suspended : f.op = "finished" /\ stack' = Push(f, stack)
        \/ stack' = Push(Do("onDisconnected"), Rest)
    BY <1>11, FinishLeaves DEF Drain
  <2>4. /\ ~At("onConnected")'
        /\ \A ops \in {Emptiers, {"closed"}} : Holds(stack', ops) <=> Holds(stack, ops)
        /\ Holds(stack, Ends)
    BY <1>2, <2>1, <2>2, <2>3 DEF Emptiers, Ends, AtOnce
  <2> QED BY <2>1, <2>4 DEF TcpInv
<1>12. CASE SocketAbort
  <2>1. /\ Calm(Rest) /\ ~At("onConnected") /\ ~At("onError")
        /\ \A ops : Holds(stack, ops) <=> "socketAbort" \in ops \/ Holds(Rest, ops)
        /\ UNCHANGED <<isConnected, isConnecting, pending>>
        /\ Do("drain") \in Suspended /\ Do("drain").op = "drain"
        /\ \/ link \in {"up", "closing"} /\ link' = "down" /\ stack' = Push(Do("drain"), Rest)
           \/ link' = link /\ stack' = Rest
    BY <1>0, <1>1, <1>12 DEF SocketAbort, managerVars, connVars, Ops
  <2>2. /\ ~At("onConnected")'
        /\ \A ops \in {Emptiers, {"closed"}} : Holds(stack', ops) <=> Holds(stack, ops)
        /\ Holds(stack', Ends) => Holds(stack, Ends) \/ link' = "down"
    BY <1>2, <2>1 DEF Emptiers, Ends, AtOnce
  <2> QED BY <2>1, <2>2 DEF TcpInv
<1>13. CASE Closed
  BY <1>0, <1>13 DEF Closed, TcpInv
<1>14. CASE Connected \/ ConnectFails \/ CloseEnds
  <2>0. stack = <<>> /\ Calm(stack) /\ \A op : ~At(op)
    BY <1>0, <1>14 DEF Connected, ConnectFails, CloseEnds, At
  <2>1. CASE Connected
    <3>1. Do("hangUp") \in Suspended /\ Do("onConnected") \in Suspended
          /\ Do("hangUp").op = "hangUp" /\ Do("onConnected").op = "onConnected"
          /\ <<>> \in Seq(Suspended)
      BY <1>1 DEF Ops
    <3>2. /\ <<Do("onConnected")>> = Push(Do("onConnected"), <<>>)
          /\ <<Do("onConnected"), Do("hangUp")>> = Push(Do("onConnected"), Push(Do("hangUp"), <<>>))
      BY DoAlone DEF Ops
    <3>3. Calm(Push(Do("hangUp"), <<>>)) /\ \A ops : Holds(Push(Do("hangUp"), <<>>), ops) <=> "hangUp" \in ops
      <4>1. "hangUp" \notin AtOnce
        BY DEF AtOnce
      <4>2. Calm(Push(Do("hangUp"), <<>>))
        BY <1>0, <3>1, <4>1, CalmPush
      <4>3. \A ops : Holds(Push(Do("hangUp"), <<>>), ops) <=> Do("hangUp").op \in ops \/ Holds(<<>>, ops)
        BY <3>1, HoldsPush
      <4> QED BY <3>1, <4>2, <4>3, HoldsNone
    <3>4. /\ At("onConnected")' /\ ~Holds(stack', Ends) /\ ~Holds(stack', {"closed"})
      BY <1>0, <1>2, <2>1, <3>1, <3>2, <3>3, HoldsNone DEF Connected, Ends
    <3>5. /\ link' = "up" /\ UNCHANGED <<isConnected, isConnecting, pending>> /\ link = "connecting"
          /\ ~Holds(stack, Emptiers)
      BY <2>0, <2>1, HoldsNone DEF Connected, managerVars, connVars
    <3> QED BY <2>0, <3>4, <3>5 DEF TcpInv
  <2>2. CASE ConnectFails
    <3>1. ChannelError(stack) /\ link' = "down" /\ UNCHANGED <<isConnected, isConnecting, pending>>
          /\ link = "connecting"
      BY <2>0, <2>2 DEF ConnectFails, managerVars, connVars
    <3>2. At("onError")' /\ ~At("onConnected")'
      BY <2>0, <3>1, TopCalls
    <3>3. ~Holds(stack', {"closed"}) /\ ~Holds(stack, Emptiers)
      <4>1. {Do("onError"), Do("errorFinish"), Do("errorClose")} \subseteq Suspended
            /\ Do("onError").op = "onError" /\ Do("errorFinish").op = "errorFinish"
            /\ Do("errorClose").op = "errorClose" /\ stack \in Seq(Suspended)
        BY <1>0, <1>1 DEF Ops
      <4>2. stack' = Push(Do("onError"), Push(Do("errorFinish"), Push(Do("errorClose"), stack)))
        BY <3>1, <4>1, ErrorTypes
      <4>3. /\ Push(Do("errorClose"), stack) \in Seq(Suspended)
            /\ Push(Do("errorFinish"), Push(Do("errorClose"), stack)) \in Seq(Suspended)
        BY <4>1, PushTypes
      <4>4. ~Holds(stack, {"closed"}) /\ ~Holds(stack, Emptiers)
        BY <2>0, HoldsNone
      <4> QED BY <4>1, <4>2, <4>3, <4>4, HoldsPush
    <3> QED BY <2>0, <3>1, <3>2, <3>3 DEF TcpInv
  <2>3. CASE CloseEnds
    <3>1. Do("drain") \in Suspended /\ Do("drain").op = "drain"
      BY <1>1 DEF Ops
    <3>2. stack' = Push(Do("drain"), stack)
      BY <2>0, <2>3, <3>1, PushAlone DEF CloseEnds
    <3>3. /\ ~At("onConnected")' /\ ~Holds(stack', {"closed"}) /\ ~Holds(stack, Emptiers)
      BY <1>2, <2>0, <3>1, <3>2, HoldsNone
    <3>4. /\ link = "closing" /\ link' = "down" /\ UNCHANGED <<isConnected, isConnecting, pending>>
      BY <2>3 DEF CloseEnds, managerVars, connVars
    <3> QED BY <2>0, <3>3, <3>4 DEF TcpInv
  <2> QED BY <1>14, <2>1, <2>2, <2>3
<1>15. CASE UNCHANGED vars
  BY <1>15 DEF vars, managerVars, connVars, linkVars, TcpInv, At
<1>16. ~SetChannel
  BY DEF SetChannel
<1>17. CASE App
  BY <1>4, <1>5, <1>16, <1>17, TcpPlain DEF App, PlainStep
<1>18. CASE Loop
  BY <1>14, <1>18, TcpPlain DEF Loop, PlainStep
<1>19. CASE Resume
  BY <1>3, <1>6, <1>7, <1>8, <1>9, <1>10, <1>11, <1>12, <1>13, <1>19, TcpPlain DEF Resume, PlainStep
<1> QED BY <1>15, <1>17, <1>18, <1>19 DEF Next

\* Over TCP, with one channel for good: between events the manager thinks it is
\* connecting only while the channel is, and requests are pending only then.
THEOREM ConnectingCorrect ==
  ASSUME Transport = "tcp", ~MayReplace
  PROVE  Spec => []ConnectingIsReal
<1>1. Init => Top /\ TcpInv
  BY HoldsNone DEF Init, Top, TcpInv, At
<1>2. TypeInv /\ TypeInv' /\ Top /\ TcpInv /\ [Next]_vars => Top' /\ TcpInv'
  BY TopNext, TcpNext
<1>3. TypeInv /\ TcpInv => ConnectingIsReal
  BY HoldsNone DEF TcpInv, ConnectingIsReal, Idling, At
<1> QED BY <1>1, <1>2, <1>3, TypeAlways, PTL DEF Spec

-----------------------------------------------------------------------------
(* The answers to commands.                                                 *)

\* What a step starts.
LEMMA AboveNext ==
  ASSUME TypeInv, [Next]_vars
  PROVE  /\ Holds(stack, {"startPending"}) =>
              Holds(stack', {"startPending"}) \/ (At("startPending") /\ pending = <<>>)
         /\ Clean(stack) /\ Count(pending, {Own("quit")}) = 0 /\ login' = "LoggedIn" => Clean(stack')
<1> DEFINE Fine == /\ Holds(stack, {"startPending"}) =>
                        Holds(stack', {"startPending"}) \/ (At("startPending") /\ pending = <<>>)
                   /\ Clean(stack) /\ Count(pending, {Own("quit")}) = 0 /\ login' = "LoggedIn" => Clean(stack')
<1> SUFFICES Fine
  OBVIOUS
<1>1. \A op : At(op) => /\ Rest \in Seq(Suspended) /\ Above(Rest, Rest)
                        /\ Clean(stack) => Clean(Rest)
                        /\ op # "startPending" /\ Holds(stack, {"startPending"}) => Holds(Rest, {"startPending"})
  BY AboveRest
<1>2. \A f \in Suspended, s \in Seq(Suspended) :
        /\ Push(f, s) \in Seq(Suspended)
        /\ Holds(s, {"startPending"}) => Holds(Push(f, s), {"startPending"})
        /\ Sound(f) => \A t : Above(s, t) => Above(Push(f, s), t)
  BY AbovePush, PushTypes, HoldsPush
<1>3. \A i \in Objects : Call("start", i) \in Suspended /\ (i # Own("quit") => Sound(Call("start", i)))
  BY FrameTypes DEF Sound, Ops, Call
<1>4. \A step \in OwnSteps : Own(step) \in Objects /\ (Own(step) = Own("quit") => step = "quit")
  BY ItemTypes DEF Own, Item
<1>5. CASE Calling(FALSE)
  BY <1>5 DEF Calling, On, Above
<1>6. CASE Returning(FALSE)
  BY <1>1, <1>6 DEF Returning, On, Above
<1>7. CASE Quits
  <2>1. PICK op \in {"execCtrl", "execData", "execAny"} : At(op)
    BY <1>7 DEF Quits, ExecNextFSRequest
  <2>2. login' # "LoggedIn" /\ stack' = Push(Call("start", Own("quit")), Rest)
    BY <1>7 DEF Quits, ExecNextFSRequest, ExecFS, Quit
  <2> QED BY <1>1, <1>2, <1>3, <1>4, <2>1, <2>2 DEF OwnSteps
<1>8. CASE LogsIn
  <2>1. PICK op \in {"execCtrl", "execData", "execAny"} : At(op)
    BY <1>8 DEF LogsIn, ExecNextFSRequest
  <2>2. Above(stack', Rest)
    BY <1>1, <1>2, <1>3, <1>4, <1>8, <2>1 DEF LogsIn, OwnSteps
  <2> QED BY <1>1, <2>1, <2>2 DEF Above
<1>9. CASE OnChannelConnected
  <2>1. At("onConnected") /\ Rest \in Seq(Suspended) /\ Above(Rest, Rest)
    BY <1>1, <1>9 DEF OnChannelConnected
  <2>2. /\ Do("startPending") \in Suspended /\ Sound(Do("startPending"))
        /\ \A step \in {"master", "dimension"} :
             Call("start", Own(step)) \in Suspended /\ Sound(Call("start", Own(step)))
    BY <1>3, <1>4, FrameTypes DEF OwnSteps, Ops, Sound, Do
  <2>3. Above(Push(Do("startPending"), Rest), Rest) /\ Push(Do("startPending"), Rest) \in Seq(Suspended)
    BY <1>2, <2>1, <2>2
  <2>4. \A step \in {"master", "dimension"} :
          /\ Above(Push(Call("start", Own(step)), Push(Do("startPending"), Rest)), Rest)
          /\ Push(Call("start", Own(step)), Push(Do("startPending"), Rest)) \in Seq(Suspended)
    BY <1>2, <2>2, <2>3
  <2>5. Above(Push(Call("start", Own("master")), Push(Call("start", Own("dimension")), Push(Do("startPending"), Rest))), Rest)
    BY <1>2, <2>2, <2>4
  <2>6. Above(stack', Rest)
    BY <1>9, <2>1, <2>3, <2>4, <2>5, ConnectedLeaves
  <2> QED BY <1>1, <2>1, <2>6 DEF Above
<1>10. CASE Begins
  <2>1. /\ stack' = Push(Call("start", Head(pending)), stack) /\ pending # <<>>
        /\ stack \in Seq(Suspended) /\ Head(pending) \in Objects
    BY <1>10, Parts DEF Begins, StartPending, TypeInv
  <2>2. Count(pending, {Own("quit")}) = 0 => Head(pending) # Own("quit")
    <3>1. /\ Count(pending, {Own("quit")}) = Count(Tail(pending), {Own("quit")}) + (IF Head(pending) \in {Own("quit")} THEN 1 ELSE 0)
          /\ Tail(pending) \in Seq(Objects)
      BY <2>1, CountTail DEF TypeInv
    <3>2. Count(Tail(pending), {Own("quit")}) \in Nat
      BY <3>1, SpotsFinite
    <3> QED BY <3>1, <3>2
  <2>3. Above(stack, stack)
    BY <2>1 DEF Above
  <2> QED BY <1>2, <1>3, <2>1, <2>2, <2>3 DEF Above
<1>11. CASE UNCHANGED vars
  BY <1>11 DEF vars, Clean
<1> HIDE DEF Fine
<1>12. Fine
  BY <1>5, <1>6, <1>7, <1>8, <1>9, <1>10, <1>11, Shape
<1> QED BY <1>12

\* What a step does to the exchanges of the channel.
LEMMA ChanSteps ==
  ASSUME TypeInv, [Next]_vars
  PROVE  /\ \/ chan' = chan \/ chan' = <<>>
            \/ chan # <<>> /\ chan' = Tail(chan)
            \/ At("start") /\ isConnected /\ This \in Objects /\ chan' = Append(chan, This)
            \/ /\ chan # <<>> /\ ReadsResponse(Head(chan)) /\ command' = Head(chan)
               /\ chan' = Append(Tail(chan), [Head(chan) EXCEPT !.part = "response"])
         /\ command' = command \/ (chan # <<>> /\ DeviceServes(Head(chan))) \/ chan' = <<>>
<1> DEFINE Moves ==
      \/ chan' = chan \/ chan' = <<>>
      \/ chan # <<>> /\ chan' = Tail(chan)
      \/ At("start") /\ isConnected /\ This \in Objects /\ chan' = Append(chan, This)
      \/ /\ chan # <<>> /\ ReadsResponse(Head(chan)) /\ command' = Head(chan)
         /\ chan' = Append(Tail(chan), [Head(chan) EXCEPT !.part = "response"])
<1> DEFINE Tells == command' = command \/ (chan # <<>> /\ DeviceServes(Head(chan))) \/ chan' = <<>>
<1> SUFFICES Moves /\ Tells
  OBVIOUS
<1>1. ASSUME NEW rest, ChannelFinish(FALSE, rest) PROVE Moves
  BY <1>1 DEF ChannelFinish
<1>2. CASE Start
  <2>1. This \in Objects
    BY <1>2, AtTypes DEF Start, TypeInv
  <2>2. Moves
    BY <1>2, <2>1 DEF Start, AddCtrl
  <2> QED BY <1>2, <2>2 DEF Start, deviceVars
<1>3. CASE Answer
  <2>1. CASE ChannelFinish(TRUE, <<>>) /\ DeviceServes(Head(chan))
    <3>1. chan # <<>>
      BY <1>3 DEF Answer
    <3>2. ASSUME ReadsResponse(Head(chan)),
                 chan' = Append(Tail(chan), [Head(chan) EXCEPT !.part = "response"])
          PROVE  Moves
      <4>1. command' = Head(chan)
        BY <2>1, <3>2 DEF DeviceServes, ReadsResponse
      <4> QED BY <3>1, <3>2, <4>1
    <3>3. Moves
      BY <2>1, <3>1, <3>2 DEF ChannelFinish
    <3> QED BY <2>1, <3>1, <3>3
  <2>2. CASE ChannelFinish(FALSE, <<>>) /\ UNCHANGED deviceVars
    BY <1>1, <2>2 DEF deviceVars
  <2> QED BY <1>3, <2>1, <2>2 DEF Answer
<1>4. CASE NotConnected \/ ErrorFinish \/ Drain
  <2>1. Moves
    BY <1>1, <1>4 DEF NotConnected, ErrorFinish, Drain
  <2> QED BY <1>4, <2>1 DEF NotConnected, ErrorFinish, Drain, deviceVars
<1>5. CASE Timeout
  BY <1>5 DEF Timeout, deviceVars
<1>6. CASE App
  BY <1>6 DEF App, AppExec, AppConnect, AppDisconnect, SetChannel, deviceVars
<1>7. CASE LinkBreaks \/ Noise \/ Connected \/ ConnectFails \/ CloseEnds \/ UNCHANGED vars
  BY <1>7 DEF LinkBreaks, Noise, Connected, ConnectFails, CloseEnds, deviceVars, vars
<1>8. CASE ExecNextFSRequest \/ StartData \/ CtrlDone \/ DataDone \/ FailFS
  BY <1>8 DEF ExecNextFSRequest, ExecFS, StartData, CtrlDone, DataDone, FailFS, deviceVars
<1>9. CASE Finished \/ Rejected
  BY <1>9 DEF Finished, Rejected, FinishUser, FinishStep, FinishOwn, deviceVars
<1>10. CASE OnChannelConnected \/ StartPending \/ OnChannelDisconnected \/ OnChannelError \/ FailPending
  BY <1>10 DEF OnChannelConnected, StartPending, OnChannelDisconnected, OnChannelError, FailPending, deviceVars
<1>11. CASE ErrorClose \/ SocketAbort \/ Closed \/ SlotReturns
  BY <1>11 DEF ErrorClose, SocketAbort, Closed, SlotReturns, deviceVars
<1> HIDE DEF Moves, Tells
<1> QED BY <1>2, <1>3, <1>4, <1>5, <1>6, <1>7, <1>8, <1>9, <1>10, <1>11 DEF Next, Resume, Loop

\* What a step does to the connection, to what is pending and to the login.
LEMMA PendSteps ==
  ASSUME TypeInv, [Next]_vars
  PROVE  /\ \/ pending' = pending
            \/ pending # <<>> /\ pending' = Tail(pending)
            \/ At("start") /\ ~isConnected' /\ This \in Objects /\ pending' = Append(pending, This)
         /\ isConnected' => isConnected \/ OnChannelConnected
         /\ At("startPending") /\ pending = <<>> => pending' = <<>>
         /\ \/ login' = login \/ login' # "LoggedIn"
            \/ At("finished") /\ FinishOwn /\ Head(stack).ok /\ This.step = "login"
<1> DEFINE Pends == \/ pending' = pending
                    \/ pending # <<>> /\ pending' = Tail(pending)
                    \/ At("start") /\ ~isConnected' /\ This \in Objects /\ pending' = Append(pending, This)
           Links == isConnected' => isConnected \/ OnChannelConnected
           Ready == At("startPending") /\ pending = <<>> => pending' = <<>>
           Enters == \/ login' = login \/ login' # "LoggedIn"
                     \/ At("finished") /\ FinishOwn /\ Head(stack).ok /\ This.step = "login"
<1> SUFFICES Pends /\ Links /\ Ready /\ Enters
  OBVIOUS
<1> HIDE DEF Pends, Links, Ready, Enters
<1>1. ASSUME UNCHANGED <<isConnected, pending, login>> PROVE Pends /\ Links /\ Ready /\ Enters
  BY <1>1 DEF Pends, Links, Ready, Enters
<1>2. CASE Start
  <2>1. This \in Objects
    BY <1>2, AtTypes DEF Start, TypeInv
  <2> QED BY <1>2, <2>1 DEF Start, connVars, At, Pends, Links, Ready, Enters
<1>3. CASE StartPending
  BY <1>3 DEF StartPending, connVars, fsVars, Pends, Links, Ready, Enters
<1>4. CASE FailPending
  BY <1>4 DEF FailPending, connVars, fsVars, Pends, Links, Ready, Enters
<1>5. CASE OnChannelConnected \/ OnChannelDisconnected \/ OnChannelError
  BY <1>5 DEF OnChannelConnected, OnChannelDisconnected, OnChannelError, fsVars, Pends, Links, Ready, Enters
<1>6. CASE ErrorFinish \/ Drain \/ ErrorClose \/ SocketAbort \/ Closed \/ SlotReturns
  BY <1>1, <1>6 DEF ErrorFinish, Drain, ErrorClose, SocketAbort, Closed, SlotReturns, managerVars, connVars, fsVars
<1>7. CASE Loop \/ UNCHANGED vars
  BY <1>1, <1>7 DEF Loop, Answer, NotConnected, Timeout, LinkBreaks, Noise, Connected, ConnectFails, CloseEnds,
     vars, managerVars, connVars, fsVars
<1>8. CASE (\E r \in Requests : AppExec(r)) \/ AppConnect \/ AppDisconnect
  BY <1>1, <1>8 DEF AppExec, AppConnect, AppDisconnect, managerVars, connVars, fsVars
<1>9. CASE SetChannel
  BY <1>9 DEF SetChannel, fsVars, Pends, Links, Ready, Enters
<1>10. CASE ExecNextFSRequest \/ StartData \/ CtrlDone \/ DataDone \/ FailFS
  <2>1. UNCHANGED <<isConnected, pending>> /\ (login' = login \/ login' # "LoggedIn")
    BY <1>10 DEF ExecNextFSRequest, ExecFS, Quit, StartData, CtrlDone, DataDone, FailFS, managerVars, connVars, fsVars
  <2> QED BY <2>1 DEF Pends, Links, Ready, Enters
<1>11. CASE At("finished") /\ FinishOwn
  <2>1. UNCHANGED <<isConnected, pending>>
    BY <1>11 DEF FinishOwn, connVars
  <2>2. Enters
    BY <1>11 DEF FinishOwn, Enters
  <2> QED BY <2>1, <2>2 DEF Pends, Links, Ready
<1>12. ASSUME NEW started \in BOOLEAN, FinishUser(started) \/ FinishStep(started)
       PROVE  Pends /\ Links /\ Ready /\ Enters
  BY <1>1, <1>12 DEF FinishUser, FinishStep, managerVars, connVars, fsVars
<1> QED
  BY <1>2, <1>3, <1>4, <1>5, <1>6, <1>7, <1>8, <1>9, <1>10, <1>11, <1>12
     DEF Next, App, Resume, Finished, Rejected

\* What is pending is started with the connection.
LEMMA PendNext ==
  ASSUME TypeInv, PendInv, [Next]_vars
  PROVE  PendInv'
<1> SUFFICES ASSUME isConnected', pending' # <<>> PROVE Holds(stack', {"startPending"})
  BY DEF PendInv
<1>1. CASE OnChannelConnected
  <2>1. Rest \in Seq(Suspended)
    BY <1>1, AtTypes DEF OnChannelConnected, TypeInv
  <2>2. /\ Do("startPending") \in Suspended /\ Do("startPending").op = "startPending"
        /\ \A step \in {"master", "dimension"} : Call("start", Own(step)) \in Suspended
    BY ItemTypes, FrameTypes DEF Ops, OwnSteps
  <2>3. /\ Holds(Push(Do("startPending"), Rest), {"startPending"})
        /\ Push(Do("startPending"), Rest) \in Seq(Suspended)
    BY <2>1, <2>2, HoldsPush, PushTypes
  <2>4. \A step \in {"master", "dimension"} :
          /\ Holds(Push(Call("start", Own(step)), Push(Do("startPending"), Rest)), {"startPending"})
          /\ Push(Call("start", Own(step)), Push(Do("startPending"), Rest)) \in Seq(Suspended)
    BY <2>2, <2>3, HoldsPush, PushTypes
  <2>5. Holds(Push(Call("start", Own("master")), Push(Call("start", Own("dimension")), Push(Do("startPending"), Rest))),
              {"startPending"})
    BY <2>2, <2>4, HoldsPush
  <2> QED BY <1>1, <2>1, <2>3, <2>4, <2>5, ConnectedLeaves
<1>2. CASE ~OnChannelConnected
  <2>1. isConnected /\ pending # <<>>
    BY <1>2, PendSteps
  <2>2. Holds(stack, {"startPending"})
    BY <2>1 DEF PendInv
  <2> QED BY <2>1, <2>2, AboveNext
<1> QED BY <1>1, <1>2

\* The channel carries one command at a time, and only while the login lasts.
LEMMA CarriedOne ==
  ASSUME TypeInv, LoginInv, CtrlInv, NEW n \in 1 .. Len(chan)
  PROVE  /\ chan[n] \in Exchanges
         /\ Base(chan[n]) \in Commands => login = "LoggedIn"
         /\ Base(chan[n]) \in Commands =>
              \A m \in 1 .. Len(chan) : Base(chan[m]) \in Commands => m = n
         /\ chan[n].part = "response" => Base(chan[n]) \in Commands
         /\ Base(chan[n]) \in Logins => login = "LoggingIn"
<1>1. chan \in Seq(Exchanges) /\ chan[n] \in Exchanges
  BY DEF TypeInv
<1>2. \A S : /\ Count(chan, Carrying(S)) \in Nat /\ Count(pending, S) \in Nat /\ Of(stack, InFlight, S) \in Nat
             /\ Fly(S) \in Nat /\ Cd(S) \in Nat
  BY LedgerTypes
<1>3. \A S : Count(chan, Carrying(S)) <= Fly(S) /\ Fly(S) <= Busy(S)
  <2> TAKE S
  <2>1. Fly(S) = Count(pending, S) + Count(chan, Carrying(S)) + Of(stack, InFlight, S) /\ Busy(S) = Fly(S) + Cd(S)
    BY DEF Fly, Busy
  <2> QED BY <1>2, <2>1
<1>4. \A S : Base(chan[n]) \in S => Count(chan, Carrying(S)) > 0
  <2> SUFFICES ASSUME NEW S, Base(chan[n]) \in S PROVE Count(chan, Carrying(S)) > 0
    OBVIOUS
  <2>1. chan[n] \in Carrying(S)
    BY <1>1 DEF Carrying
  <2> QED BY <1>1, <2>1, CountSome
<1>5. Base(chan[n]) \in Commands => login = "LoggedIn"
  <2>1. login # "LoggedIn" => Busy(Commands) = 0
    BY DEF CtrlInv
  <2>2. Busy(Commands) \in Nat /\ Count(chan, Carrying(Commands)) <= Busy(Commands)
    BY <1>2, <1>3 DEF Busy
  <2> QED BY <1>2, <1>4, <2>1, <2>2
<1>6. Base(chan[n]) \in Logins => login = "LoggingIn"
  <2>1. login # "LoggingIn" => Fly(Logins) = 0
    BY DEF LoginInv
  <2> QED BY <1>2, <1>3, <1>4, <2>1
<1>7. chan[n].part = "response" => Base(chan[n]) \in Commands
  BY <1>1, ExchangeIs DEF Exchanges, ReadsResponse, Commands
<1>8. ASSUME Base(chan[n]) \in Commands, NEW m \in 1 .. Len(chan), Base(chan[m]) \in Commands
      PROVE  m = n
  <2> DEFINE A == Spots(chan, Carrying(Commands))
  <2>1. m \in A /\ n \in A
    BY <1>1, <1>8 DEF Spots, Carrying, TypeInv
  <2>2. IsFiniteSet(A) /\ Cardinality(A) \in Nat /\ Cardinality(A) <= 1
    <3>1. IsFiniteSet(A) /\ Count(chan, Carrying(Commands)) = Cardinality(A)
      BY <1>1, SpotsFinite DEF Count
    <3>2. Busy(Commands) <= 1 /\ Busy(Commands) \in Nat
      BY <1>2 DEF CtrlInv, Busy
    <3> QED BY <1>2, <1>3, <3>1, <3>2
  <2>3. Cardinality(A) # 0
    BY <2>1, <2>2, FS_EmptySet
  <2>4. Cardinality(A) = 1
    BY <2>2, <2>3
  <2> HIDE DEF A
  <2>5. PICK x : A = {x}
    BY <2>2, <2>4, FS_Singleton
  <2> QED BY <2>1, <2>5
<1> QED BY <1>1, <1>5, <1>6, <1>7, <1>8

\* What the device serves before an answer is read is not another command.
LEMMA ServedKeeps ==
  ASSUME TypeInv, LoginInv, CtrlInv, QuitInv, NEW n \in 1 .. Len(chan), chan[n].part = "response",
         DeviceServes(Head(chan))
  PROVE  command' = command
<1>1. Base(chan[n]) \in Commands /\ login = "LoggedIn"
  BY CarriedOne
<1>2. chan # <<>> /\ Head(chan) = chan[1] /\ 1 \in 1 .. Len(chan) /\ chan[1] \in Exchanges
  BY DEF TypeInv
<1>3. Base(chan[1]) \notin Logins
  BY <1>1, <1>2, CarriedOne
<1>4. chan[1] # Own("quit")
  BY <1>1, <1>2 DEF QuitInv
<1>5. chan[1].step \notin {"login", "quit"}
  <2>1. chan[1].step \in {"login", "quit"} => chan[1] \in {Own("login"), Own("quit")} /\ Base(chan[1]) = chan[1]
    BY <1>2 DEF Exchanges, Items, Own, Item, OwnSteps, Base
  <2> QED BY <1>3, <1>4, <2>1 DEF Logins
<1>6. ~(IsCommand(chan[1]) /\ chan[1].part = "command")
  <2> SUFFICES ASSUME IsCommand(chan[1]), chan[1].part = "command" PROVE FALSE
    OBVIOUS
  <2>1. Base(chan[1]) \in Commands
    BY <1>2, ExchangeIs DEF Commands, IsCommand, IsUser
  <2>2. n = 1
    BY <1>1, <1>2, <2>1, CarriedOne
  <2> QED BY <2>2
<1> QED BY <1>2, <1>5, <1>6 DEF DeviceServes

\* Until its answer is read, a command is the last one the device was given.
LEMMA RespNext ==
  ASSUME TypeInv, LoginInv, CtrlInv, QuitInv, RespInv, [Next]_vars
  PROVE  RespInv'
<1> SUFFICES ASSUME NEW n \in 1 .. Len(chan'), chan'[n].part = "response" PROVE command' = Base(chan'[n])
  BY DEF RespInv
<1>0. chan \in Seq(Exchanges) /\ chan' # <<>>
  BY DEF TypeInv
<1>1. ASSUME NEW m \in 1 .. Len(chan), chan[m].part = "response"
      PROVE  command' = Base(chan[m])
  <2>1. command = Base(chan[m])
    BY <1>1 DEF RespInv
  <2>2. command' = command
    BY <1>0, <1>1, ChanSteps, ServedKeeps
  <2> QED BY <2>1, <2>2
<1>2. CASE chan' = chan
  BY <1>1, <1>2
<1>3. CASE chan' = <<>>
  BY <1>3
<1>4. CASE chan # <<>> /\ chan' = Tail(chan)
  <2>1. n + 1 \in 1 .. Len(chan) /\ chan'[n] = chan[n + 1]
    BY <1>0, <1>4
  <2> QED BY <1>1, <2>1
<1>5. CASE This \in Objects /\ chan' = Append(chan, This)
  <2>1. Len(chan') = Len(chan) + 1 /\ chan'[Len(chan) + 1] = This /\ \A m \in 1 .. Len(chan) : chan'[m] = chan[m]
    BY <1>0, <1>5
  <2>2. This.part = "command"
    BY <1>5 DEF Objects
  <2>3. n \in 1 .. Len(chan)
    BY <1>0, <2>1, <2>2
  <2> QED BY <1>1, <2>1, <2>3
<1>6. CASE /\ chan # <<>> /\ ReadsResponse(Head(chan)) /\ command' = Head(chan)
           /\ chan' = Append(Tail(chan), [Head(chan) EXCEPT !.part = "response"])
  <2>1. chan[1] = Head(chan) /\ 1 \in 1 .. Len(chan) /\ Head(chan) \in Exchanges /\ Tail(chan) \in Seq(Exchanges)
        /\ Len(Tail(chan)) = Len(chan) - 1
        /\ \A m \in 1 .. Len(Tail(chan)) : Tail(chan)[m] = chan[m + 1]
    BY <1>0, <1>6
  <2>2. Head(chan) \in Commands /\ Base(Head(chan)) = Head(chan)
        /\ Base([Head(chan) EXCEPT !.part = "response"]) = Head(chan)
    BY <1>6, <2>1, ExchangeIs
  <2>3. CASE n = Len(chan)
    <3>1. chan'[n] = [Head(chan) EXCEPT !.part = "response"]
      BY <1>6, <2>1, <2>3
    <3> QED BY <1>6, <2>2, <3>1
  <2>4. CASE n # Len(chan)
    <3> DEFINE y == [Head(chan) EXCEPT !.part = "response"]
               t == Tail(chan)
    <3>4. y \in Exchanges /\ t \in Seq(Exchanges) /\ chan' = Append(t, y)
      BY <1>6, <2>1, ExchangeIs
    <3>5. Len(t) = Len(chan) - 1 /\ \A m \in 1 .. Len(t) : t[m] = chan[m + 1]
      BY <2>1
    <3> HIDE DEF y, t
    <3>6. Len(chan') = Len(t) + 1 /\ \A m \in 1 .. Len(t) : chan'[m] = t[m]
      BY <3>4
    <3>7. Len(chan) \in Nat /\ Len(t) \in Nat
      BY <1>0, <3>4
    <3>8. n \in 1 .. Len(t) /\ n + 1 \in 1 .. Len(chan) /\ n + 1 # 1
      BY <2>4, <3>5, <3>6, <3>7
    <3>1. n + 1 \in 1 .. Len(chan) /\ n + 1 # 1 /\ chan'[n] = chan[n + 1]
      BY <3>5, <3>6, <3>8
    <3>2. Base(chan[n + 1]) \in Commands
      BY <3>1, CarriedOne
    <3> QED BY <2>1, <2>2, <3>1, <3>2, CarriedOne
  <2> QED BY <2>3, <2>4
<1> QED BY <1>2, <1>3, <1>4, <1>5, <1>6, ChanSteps

\* The login succeeds only after everything pending, a QUIT with it, was started.
LEMMA QuitNext ==
  ASSUME TypeInv, LoginInv, CtrlInv, OwnInv, PendInv, QuitInv, [Next]_vars
  PROVE  QuitInv'
<1> SUFFICES ASSUME login' = "LoggedIn"
             PROVE  /\ Clean(stack') /\ Count(pending', {Own("quit")}) = 0
                    /\ \A m, n \in 1 .. Len(chan') : chan'[m] = Own("quit") =>
                         (Base(chan'[n]) \in Commands => m < n) /\ chan'[n].part # "response"
  BY DEF QuitInv, Clean, Of
<1>0. chan \in Seq(Exchanges) /\ pending \in Seq(Objects)
  BY DEF TypeInv
<1>1. CASE login # "LoggedIn"
  <2>1. At("finished") /\ FinishOwn /\ Head(stack).ok /\ This.step = "login" /\ This.req = Manager
    BY <1>1, PendSteps DEF FinishOwn
  <2>2. Rest = <<>> /\ isConnected
    BY <2>1 DEF OwnInv
  <2>3. ~Holds(stack, {"startPending"})
    BY <2>1, <2>2, OfAt, HoldsNone
  <2>4. pending' = <<>>
    BY <2>1, <2>2, <2>3 DEF PendInv, FinishOwn
  <2>5. Clean(stack')
    <3>1. stack' = Push(Do("execAny"), <<>>)
      BY <2>1, <2>2 DEF FinishOwn
    <3>2. Do("execAny") \in Suspended /\ Sound(Do("execAny")) /\ <<>> \in Seq(Suspended)
      BY FrameTypes DEF Ops, Sound
    <3>3. Clean(<<>>)
      BY OfNone DEF Clean
    <3> QED BY <3>1, <3>2, <3>3, AbovePush DEF Above
  <2>6. chan' = chan
    BY <2>1 DEF FinishOwn
  <2>7. \A n \in 1 .. Len(chan) : Base(chan[n]) \notin Commands /\ chan[n].part # "response"
    BY <1>1, CarriedOne
  <2> QED BY <2>4, <2>5, <2>6, <2>7, CountNone
<1>2. CASE login = "LoggedIn"
  <2>1. /\ Clean(stack) /\ Count(pending, {Own("quit")}) = 0
        /\ \A m, n \in 1 .. Len(chan) : chan[m] = Own("quit") =>
             (Base(chan[n]) \in Commands => m < n) /\ chan[n].part # "response"
    BY <1>2 DEF QuitInv
  <2>2. Clean(stack')
    BY <2>1, AboveNext
  <2>3. At("start") => This # Own("quit")
    BY <2>1, AboveRest
  <2>4. Count(pending', {Own("quit")}) = 0
    <3>1. CASE pending' = pending
      BY <2>1, <3>1
    <3>2. CASE pending # <<>> /\ pending' = Tail(pending)
      <4>1. Count(pending, {Own("quit")}) = Count(Tail(pending), {Own("quit")}) + (IF Head(pending) \in {Own("quit")} THEN 1 ELSE 0)
        BY <1>0, <3>2, CountTail
      <4>2. Tail(pending) \in Seq(Objects)
        BY <1>0, <3>2
      <4>3. Count(Tail(pending), {Own("quit")}) \in Nat
        BY <4>2, SpotsFinite
      <4> QED BY <2>1, <3>2, <4>1, <4>3
    <3>3. CASE At("start") /\ This \in Objects /\ pending' = Append(pending, This)
      <4>1. Count(Append(pending, This), {Own("quit")}) = Count(pending, {Own("quit")}) + (IF This \in {Own("quit")} THEN 1 ELSE 0)
        BY <1>0, <3>3, CountAppend
      <4> QED BY <2>1, <2>3, <3>3, <4>1
    <3> QED BY <3>1, <3>2, <3>3, PendSteps
  <2>5. ASSUME NEW m \in 1 .. Len(chan'), NEW n \in 1 .. Len(chan'), chan'[m] = Own("quit")
        PROVE  (Base(chan'[n]) \in Commands => m < n) /\ chan'[n].part # "response"
    <3>1. CASE chan' = chan
      BY <2>1, <2>5, <3>1
    <3>2. CASE chan' = <<>>
      BY <3>2
    <3>3. CASE chan # <<>> /\ chan' = Tail(chan)
      <4>1. /\ m + 1 \in 1 .. Len(chan) /\ chan'[m] = chan[m + 1]
            /\ n + 1 \in 1 .. Len(chan) /\ chan'[n] = chan[n + 1]
            /\ m \in Nat /\ n \in Nat
        BY <1>0, <3>3
      <4>2. (Base(chan[n + 1]) \in Commands => m + 1 < n + 1) /\ chan[n + 1].part # "response"
        BY <2>1, <2>5, <4>1
      <4> QED BY <4>1, <4>2
    <3>4. CASE At("start") /\ This \in Objects /\ chan' = Append(chan, This)
      <4>1. /\ Len(chan') = Len(chan) + 1 /\ chan'[Len(chan) + 1] = This /\ Len(chan) \in Nat
            /\ \A k \in 1 .. Len(chan) : chan'[k] = chan[k]
        BY <1>0, <3>4
      <4>2. m \in 1 .. Len(chan) /\ chan[m] = Own("quit")
        BY <2>3, <2>5, <3>4, <4>1
      <4>3. CASE n \in 1 .. Len(chan)
        BY <2>1, <4>1, <4>2, <4>3
      <4>4. CASE n = Len(chan) + 1
        <5>1. This.part = "command"
          BY <3>4 DEF Objects
        <5> QED BY <4>1, <4>2, <4>4, <5>1
      <4> QED BY <4>1, <4>3, <4>4
    <3>5. CASE /\ chan # <<>> /\ ReadsResponse(Head(chan)) /\ command' = Head(chan)
               /\ chan' = Append(Tail(chan), [Head(chan) EXCEPT !.part = "response"])
      <4> DEFINE y == [Head(chan) EXCEPT !.part = "response"]
                 t == Tail(chan)
      <4>1. Head(chan) \in Exchanges /\ t \in Seq(Exchanges) /\ chan[1] = Head(chan) /\ 1 \in 1 .. Len(chan)
            /\ Len(t) = Len(chan) - 1 /\ \A k \in 1 .. Len(t) : t[k] = chan[k + 1]
        BY <1>0, <3>5
      <4>2. y \in Exchanges /\ chan' = Append(t, y) /\ Base(chan[1]) \in Commands
        BY <3>5, <4>1, ExchangeIs
      <4>3. y.part = "response" /\ Own("quit").part = "command"
        <5>1. DOMAIN Head(chan) = {"req", "step", "part"}
          BY <4>1 DEF Exchanges, Items
        <5> QED BY <5>1 DEF Own, Item
      <4> HIDE DEF y, t
      <4>4. Len(chan') = Len(t) + 1 /\ chan'[Len(t) + 1] = y /\ \A k \in 1 .. Len(t) : chan'[k] = t[k]
        BY <4>1, <4>2
      <4>5. Len(chan) \in Nat /\ Len(t) \in Nat
        BY <1>0, <4>1
      <4>6. m \in 1 .. Len(t)
        BY <2>5, <4>3, <4>4, <4>5
      <4>7. m + 1 \in 1 .. Len(chan) /\ chan[m + 1] = Own("quit") /\ ~(m + 1 < 1)
        BY <2>5, <4>1, <4>4, <4>5, <4>6
      <4> QED BY <2>1, <4>1, <4>2, <4>7
    <3> QED BY <3>1, <3>2, <3>3, <3>4, <3>5, ChanSteps
  <2> QED BY <2>2, <2>4, <2>5
<1> QED BY <1>1, <1>2

-----------------------------------------------------------------------------
(* The device as the manager sees it, in every behaviour.                   *)

LEMMA DeviceInit == Init => FileInv /\ PendInv /\ QuitInv /\ RespInv
<1> SUFFICES ASSUME Init PROVE FileInv /\ PendInv /\ QuitInv /\ RespInv
  OBVIOUS
<1>1. /\ stack = <<>> /\ chan = <<>> /\ pending = <<>> /\ fsCtrl = <<>> /\ ~isConnected
      /\ login = "NotLoggedIn"
  BY DEF Init
<1>2. /\ \A S : Count(pending, S) = 0 /\ Count(chan, S) = 0 /\ Count(fsCtrl, S) = 0
      /\ \A ops, S : Of(stack, ops, S) = 0
      /\ ~At("finished")
  BY <1>1, CountNone, OfNone DEF At
<1>3. \A S : Fly(S) = 0 /\ Cd(S) = 0
  BY <1>2 DEF Fly, Cd
<1>4. \A r \in Requests : Away(r) = 0 /\ ~Opened(r)
  BY <1>2, <1>3 DEF Away, Opened
<1> QED BY <1>1, <1>4 DEF FileInv, PendInv, QuitInv, RespInv

LEMMA DeviceAlways == Spec => []DeviceInv
<1>1. Init => DeviceInv
  BY TypeInit, BooksInit, DeviceInit DEF DeviceInv, ManagerInv
<1>2. DeviceInv /\ [Next]_vars => DeviceInv'
  <2> SUFFICES ASSUME DeviceInv, [Next]_vars PROVE DeviceInv'
    OBVIOUS
  <2>1. ManagerInv /\ FileInv /\ PendInv /\ QuitInv /\ RespInv
    BY DEF DeviceInv
  <2>2. TypeInv /\ Top /\ OwnInv /\ Books /\ LoginInv /\ CtrlInv
    BY <2>1 DEF ManagerInv, Books
  <2>3. ManagerInv'
    BY <2>1, ManagerNext
  <2>4. TypeInv' /\ Top'
    BY <2>3 DEF ManagerInv
  <2>5. FileInv'
    BY <2>1, <2>2, <2>4, FileNext
  <2>6. PendInv' /\ QuitInv' /\ RespInv'
    BY <2>1, <2>2, PendNext, QuitNext, RespNext
  <2> QED BY <2>3, <2>5, <2>6 DEF DeviceInv
<1> QED BY <1>1, <1>2, PTL DEF Spec

\* On one channel the contents a transfer moves are those of the file it opened: whatever
\* ends, is rejected or is lost on the way, no other request of
\* addFSCtrlRequest has the device open or close a file in between.
THEOREM OwnFileAlways ==
  ASSUME ~MayReplace
  PROVE  Spec => []OwnFile
<1>1. DeviceInv => OwnFile
  BY OwnFileNow DEF DeviceInv, ManagerInv
<1> QED BY <1>1, DeviceAlways, PTL

\* The second exchange of ReadParamRequest reads the answer to the command that
\* the first one wrote, though other commands, logins and QUITs wait for the
\* same channel.
THEOREM OwnResponseAlways == Spec => []OwnResponse
<1>1. DeviceInv => OwnResponse
  <2> SUFFICES ASSUME DeviceInv, chan # <<>>, Head(chan).part = "response"
               PROVE  command = [Head(chan) EXCEPT !.part = "command"]
    BY DEF OwnResponse
  <2>1. 1 \in 1 .. Len(chan) /\ chan[1] = Head(chan)
    BY DEF DeviceInv, ManagerInv, TypeInv
  <2> QED BY <2>1 DEF DeviceInv, RespInv, Base
<1> QED BY <1>1, DeviceAlways, PTL

-----------------------------------------------------------------------------
(* Sessions of the device's file system.                                   *)

LEMMA RisesNext ==
  ASSUME TypeInv, stack # <<>> => Still(Rest), [Next]_vars
  PROVE  Gentle \/ Quits \/ LogsIn \/ Begins \/ OnChannelConnected \/ UNCHANGED vars
<1>1. \A op : At(op) => /\ Rest \in Seq(Suspended) /\ Still(Rest)
                        /\ op # "start" => Still(stack)
                        /\ op # "failPending" /\ Guarded(stack) => Guarded(Rest)
  BY RisesRest DEF At
<1>2. ASSUME Calling(FALSE) PROVE Gentle
  <2>1. Still(stack)
    BY <1>1, <1>2, OfNone DEF Still, Calling
  <2> QED BY <1>2, <2>1 DEF Calling, On, Rises, Gentle
<1>3. ASSUME Returning(FALSE) PROVE Gentle
  BY <1>1, <1>3 DEF Returning, On, Rises, Gentle
<1> QED BY <1>2, <1>3, Shape

\* No other function runs while one of these does.
LEMMA OnlyStart ==
  ASSUME [Next]_vars
  PROVE  /\ At("start") => Start \/ UNCHANGED vars
         /\ At("startPending") => StartPending \/ UNCHANGED vars
<1>1. ASSUME NEW op \in {"start", "startPending"}, At(op) PROVE Start \/ StartPending \/ UNCHANGED vars
  BY <1>1 DEF Next, App, AppExec, AppConnect, AppDisconnect, SetChannel, AppTurn, Idling, At, Resume,
         ExecNextFSRequest, StartData, CtrlDone, DataDone, Finished, Rejected, FailFS,
         OnChannelConnected, OnChannelDisconnected, OnChannelError, FailPending,
         ErrorFinish, ErrorClose, Drain, SocketAbort, Closed, SlotReturns,
         Loop, Answer, NotConnected, Timeout, LinkBreaks, Noise, Connected, ConnectFails, CloseEnds
<1> QED BY <1>1 DEF Start, StartPending, At

\* Nothing ends the loop: start() keeps what the loop gives it.
LEMMA StuckNext ==
  ASSUME TypeInv, Stuck, [Next]_vars
  PROVE  Stuck'
<1>1. CASE UNCHANGED vars
  BY <1>1 DEF vars, managerVars, connVars, Stuck, At, Rest, Starting
<1>2. CASE At("startPending") /\ pending # <<>> /\ StartPending
  <2>1. /\ stack' = Push(Call("start", Head(pending)), stack)
        /\ isConnected' = isConnected /\ isConnecting' = isConnecting
    BY <1>2 DEF StartPending, connVars
  <2>2. Call("start", Head(pending)) \in Suspended /\ Call("start", Head(pending)).op = "start"
    BY <1>2, Parts, FrameTypes DEF TypeInv, Ops
  <2>3. stack' # <<>> /\ Head(stack').op = "start" /\ Tail(stack') = stack
    BY <2>1, <2>2, PushTypes DEF TypeInv
  <2> QED BY <1>2, <2>1, <2>3 DEF Stuck, At, Rest, Starting
<1>3. CASE At("start") /\ Starting(Rest) /\ Start
  <2>1. stack' = Rest /\ pending' = Append(pending, This) /\ isConnected' = isConnected /\ isConnecting' = isConnecting
    BY <1>3 DEF Stuck, Start, ConnectToDevice, connVars
  <2>2. pending' # <<>>
    <3>1. pending \in Seq(Objects) /\ This \in Objects
      BY <1>3, AtTypes DEF TypeInv
    <3>2. Len(Append(pending, This)) = Len(pending) + 1 /\ Len(pending) \in Nat
      BY <3>1
    <3> QED BY <2>1, <3>2
  <2> QED BY <1>3, <2>1, <2>2 DEF Stuck, At, Starting
<1> QED BY <1>1, <1>2, <1>3, OnlyStart DEF Stuck, Starting, At

\* What a step does to what the manager knows of the connection.
LEMMA LinkSteps ==
  ASSUME [Next]_vars
  PROVE  /\ isConnected' = isConnected \/ OnChannelConnected \/ OnChannelDisconnected \/ SetChannel
         /\ isConnecting' = isConnecting \/ isConnecting' = TRUE
              \/ OnChannelConnected \/ OnChannelError \/ SetChannel
<1>1. isConnected' = isConnected \/ OnChannelConnected \/ OnChannelDisconnected \/ SetChannel
  BY DEF Next, App, AppExec, AppConnect, AppDisconnect, Resume, Start, ExecNextFSRequest, ExecFS,
         StartData, CtrlDone, DataDone, Finished, FinishUser, FinishStep, FinishOwn, Rejected, FailFS,
         StartPending, OnChannelError, FailPending,
         ErrorFinish, ErrorClose, Drain, SocketAbort, Closed, SlotReturns,
         Loop, Answer, NotConnected, Timeout, LinkBreaks, Noise, Connected, ConnectFails, CloseEnds,
         vars, managerVars, connVars
<1>2. isConnecting' = isConnecting \/ isConnecting' = TRUE
        \/ OnChannelConnected \/ OnChannelError \/ SetChannel
  BY DEF Next, App, AppExec, AppConnect, AppDisconnect, Resume, Start, ConnectToDevice, ExecNextFSRequest, ExecFS,
         StartData, CtrlDone, DataDone, Finished, FinishUser, FinishStep, FinishOwn, Rejected, FailFS,
         StartPending, OnChannelDisconnected, FailPending,
         ErrorFinish, ErrorClose, Drain, SocketAbort, Closed, SlotReturns,
         Loop, Answer, NotConnected, Timeout, LinkBreaks, Noise, Connected, ConnectFails, CloseEnds,
         vars, managerVars, connVars
<1> QED BY <1>1, <1>2

\* Only the device's answer to the oldest exchange changes who is logged in.
LEMMA SessionSteps ==
  ASSUME ~MayReplace, [Next]_vars
  PROVE  session' = session \/ (chan # <<>> /\ DeviceServes(Head(chan)))
BY DEF Next, App, AppExec, AppConnect, AppDisconnect, SetChannel, Resume, Start, ExecNextFSRequest, ExecFS,
       StartData, CtrlDone, DataDone, Finished, FinishUser, FinishStep, FinishOwn, Rejected, FailFS,
       OnChannelConnected, StartPending, OnChannelDisconnected, OnChannelError, FailPending,
       ErrorFinish, ErrorClose, Drain, SocketAbort, Closed, SlotReturns,
       Loop, Answer, NotConnected, Timeout, LinkBreaks, Noise, Connected, ConnectFails, CloseEnds,
       vars, deviceVars

LEMMA SessionItems ==
  /\ Own("login") \in Objects /\ Own("quit") \in Objects /\ Own("login") # Own("quit")
  /\ Own("login") \in Sessions /\ Own("quit") \in Sessions
  /\ \A step \in {"master", "dimension"} : Own(step) \notin Sessions
  /\ \A S : S \subseteq {Own("login")} \/ S \subseteq {Own("quit")} => S \subseteq Sessions
<1>1. /\ Own("login").step = "login" /\ Own("quit").step = "quit"
      /\ \A step \in {"master", "dimension"} : Own(step).step = step
  BY DEF Own, Item
<1> QED BY <1>1, ItemTypes DEF OwnSteps, Sessions

\* What waits in a queue that gives up its head or gets one more.
LEMMA WaitingAfter ==
  ASSUME NEW T, NEW q \in Seq(T), NEW S
  PROVE  /\ ~Waiting(<<>>, S)
         /\ q # <<>> /\ Waiting(Tail(q), S) => Waiting(q, S)
         /\ q # <<>> /\ Head(q) \in S => Waiting(q, S)
         /\ \A x \in T : Waiting(Append(q, x), S) <=> Waiting(q, S) \/ x \in S
<1>1. ~Waiting(<<>>, S)
  BY DEF Waiting
<1>2. ASSUME q # <<>>, Waiting(Tail(q), S) PROVE Waiting(q, S)
  <2>1. PICK n \in 1 .. Len(Tail(q)) : Tail(q)[n] \in S
    BY <1>2 DEF Waiting
  <2>2. n + 1 \in 1 .. Len(q) /\ q[n + 1] = Tail(q)[n]
    BY <1>2, <2>1
  <2> QED BY <2>1, <2>2 DEF Waiting
<1>3. ASSUME q # <<>>, Head(q) \in S PROVE Waiting(q, S)
  <2>1. 1 \in 1 .. Len(q) /\ q[1] = Head(q)
    BY <1>3
  <2> QED BY <1>3, <2>1 DEF Waiting
<1>4. ASSUME NEW x \in T PROVE Waiting(Append(q, x), S) <=> Waiting(q, S) \/ x \in S
  <2> DEFINE longer == Append(q, x)
  <2>1. /\ Len(longer) = Len(q) + 1 /\ longer[Len(q) + 1] = x /\ Len(q) \in Nat
        /\ \A n \in 1 .. Len(q) : longer[n] = q[n]
    OBVIOUS
  <2> HIDE DEF longer
  <2>2. ASSUME Waiting(longer, S) PROVE Waiting(q, S) \/ x \in S
    <3>1. PICK n \in 1 .. Len(longer) : longer[n] \in S
      BY <2>2 DEF Waiting
    <3>2. n \in 1 .. Len(q) \/ n = Len(q) + 1
      BY <2>1
    <3> QED BY <2>1, <3>1, <3>2 DEF Waiting
  <2>3. ASSUME Waiting(q, S) PROVE Waiting(longer, S)
    <3>1. PICK n \in 1 .. Len(q) : q[n] \in S
      BY <2>3 DEF Waiting
    <3>2. n \in 1 .. Len(longer)
      BY <2>1
    <3> QED BY <2>1, <3>1, <3>2 DEF Waiting
  <2>4. ASSUME x \in S PROVE Waiting(longer, S)
    <3>1. Len(q) + 1 \in 1 .. Len(longer)
      BY <2>1
    <3> QED BY <2>1, <2>4, <3>1 DEF Waiting
  <2> QED BY <2>2, <2>3, <2>4 DEF longer
<1> QED BY <1>1, <1>2, <1>3, <1>4

\* The order of a login and the QUIT before it, likewise.
LEMMA BehindAfter ==
  ASSUME NEW T, NEW q \in Seq(T)
  PROVE  /\ Behind(<<>>)
         /\ q # <<>> /\ Behind(q) => Behind(Tail(q))
         /\ q # <<>> /\ Behind(q) /\ Head(q) = Own("login") => ~Waiting(q, {Own("quit")})
         /\ \A x \in T : Behind(q) /\ (x = Own("quit") => ~Waiting(q, {Own("login")})) => Behind(Append(q, x))
<1>1. Behind(<<>>)
  BY DEF Behind
<1>2. ASSUME q # <<>>, Behind(q) PROVE Behind(Tail(q))
  <2> SUFFICES ASSUME NEW m \in 1 .. Len(Tail(q)), NEW n \in 1 .. Len(Tail(q)),
                      Tail(q)[m] = Own("login"), Tail(q)[n] = Own("quit")
               PROVE  n < m
    BY DEF Behind
  <2>1. /\ m + 1 \in 1 .. Len(q) /\ q[m + 1] = Tail(q)[m] /\ m \in Nat
        /\ n + 1 \in 1 .. Len(q) /\ q[n + 1] = Tail(q)[n] /\ n \in Nat
    BY <1>2
  <2>2. n + 1 < m + 1
    BY <1>2, <2>1 DEF Behind
  <2> QED BY <2>1, <2>2
<1>3. ASSUME q # <<>>, Behind(q), Head(q) = Own("login") PROVE ~Waiting(q, {Own("quit")})
  <2>1. 1 \in 1 .. Len(q) /\ q[1] = Head(q)
    BY <1>3
  <2>2. \A n \in 1 .. Len(q) : ~(n < 1)
    OBVIOUS
  <2> QED BY <1>3, <2>1, <2>2 DEF Waiting, Behind
<1>4. ASSUME NEW x \in T, Behind(q), x = Own("quit") => ~Waiting(q, {Own("login")})
      PROVE  Behind(Append(q, x))
  <2> DEFINE longer == Append(q, x)
  <2>1. /\ Len(longer) = Len(q) + 1 /\ longer[Len(q) + 1] = x /\ Len(q) \in Nat
        /\ \A n \in 1 .. Len(q) : longer[n] = q[n]
    OBVIOUS
  <2> HIDE DEF longer
  <2>2. ASSUME NEW m \in 1 .. Len(longer), NEW n \in 1 .. Len(longer),
               longer[m] = Own("login"), longer[n] = Own("quit")
        PROVE  n < m
    <3>1. (m \in 1 .. Len(q) \/ m = Len(q) + 1) /\ (n \in 1 .. Len(q) \/ n = Len(q) + 1)
      BY <2>1
    <3>2. CASE n = Len(q) + 1
      <4>1. m \in 1 .. Len(q) /\ q[m] = Own("login")
        BY <2>1, <2>2, <3>1, <3>2, SessionItems
      <4> QED BY <1>4, <2>1, <2>2, <3>2, <4>1 DEF Waiting
    <3>3. CASE n \in 1 .. Len(q) /\ m = Len(q) + 1
      BY <2>1, <3>3
    <3>4. CASE n \in 1 .. Len(q) /\ m \in 1 .. Len(q)
      BY <1>4, <2>1, <2>2, <3>4 DEF Behind
    <3> QED BY <3>1, <3>2, <3>3, <3>4
  <2> QED BY <2>2 DEF Behind, longer
<1> QED BY <1>1, <1>2, <1>3, <1>4

\* While no login is in flight, none waits.
LEMMA NoLogin ==
  ASSUME TypeInv, Fly(Logins) = 0
  PROVE  ~Waiting(pending, Logins) /\ ~Waiting(chan, Logins)
<1>1. /\ Count(pending, Logins) \in Nat /\ Count(chan, Carrying(Logins)) \in Nat
      /\ Of(stack, InFlight, Logins) \in Nat
  BY LedgerTypes DEF Fly
<1>2. Count(pending, Logins) = 0 /\ Count(chan, Carrying(Logins)) = 0
  BY <1>1 DEF Fly
<1>3. Logins \subseteq Carrying(Logins)
  BY SessionItems, ObjectIs DEF Logins, Carrying
<1>4. ~(Count(pending, Logins) > 0) /\ ~(Count(chan, Carrying(Logins)) > 0)
  BY <1>2
<1>5. (\A n \in 1 .. Len(pending) : pending[n] \notin Logins)
      /\ \A n \in 1 .. Len(chan) : chan[n] \notin Carrying(Logins)
  BY <1>4, CountSome DEF TypeInv
<1> QED BY <1>3, <1>5 DEF Waiting

\* A function that waits for a login or a QUIT to return starts none.
LEMMA StillTail ==
  ASSUME NEW s \in Seq(Suspended), s # <<>>, Still(s)
  PROVE  Still(Tail(s)) /\ (Head(s).op = "start" => Head(s).item \notin Sessions)
<1> DEFINE f == Head(s)
           t == Tail(s)
<1>1. f \in Suspended /\ t \in Seq(Suspended) /\ s = Push(f, t)
  BY DEF Push
<1> HIDE DEF f, t
<1>2. Of(t, {"start"}, Sessions) \in Nat /\ Is(f.item, Sessions) \in {0, 1}
  BY <1>1, OfPush, IsOne
<1>3. CASE f.op = "start"
  <2>1. f.op \in {"start"}
    BY <1>3
  <2>2. Of(s, {"start"}, Sessions) = Of(t, {"start"}, Sessions) + Is(f.item, Sessions)
    BY <1>1, <2>1, OfPush
  <2>3. Is(f.item, Sessions) = 0 /\ Of(t, {"start"}, Sessions) = 0
    BY <1>2, <2>2 DEF Still
  <2>4. f.item \notin Sessions
    BY <2>3, IsOne
  <2> QED BY <2>3, <2>4 DEF Still, f, t
<1>4. CASE f.op # "start"
  <2>1. f.op \notin {"start"}
    BY <1>4
  <2>2. Of(s, {"start"}, Sessions) = Of(t, {"start"}, Sessions)
    BY <1>1, <2>1, OfPush
  <2> QED BY <1>4, <2>2 DEF Still, f, t
<1> QED BY <1>3, <1>4

\* What onChannelConnected leaves on the stack.
LEMMA AfterConnected ==
  ASSUME TypeInv, OnChannelConnected, stack # <<>> => Still(Rest)
  PROVE  /\ Emptying' /\ stack' # <<>> /\ Still(Tail(stack'))
         /\ At("start")' => Head(stack').item \notin Sessions
<1> DEFINE loop == Push(Do("startPending"), Rest)
           rest == Push(Call("start", Own("dimension")), loop)
<1>1. At("onConnected") /\ Rest \in Seq(Suspended) /\ Still(Rest)
  BY AtTypes DEF OnChannelConnected, At, TypeInv
<1>2. /\ Do("startPending") \in Suspended /\ Do("startPending").op = "startPending"
      /\ \A step \in {"master", "dimension"} :
           /\ Call("start", Own(step)) \in Suspended /\ Call("start", Own(step)).op = "start"
           /\ Call("start", Own(step)).item = Own(step) /\ Own(step) \notin Sessions
  BY FrameTypes, ItemTypes, SessionItems DEF Ops, OwnSteps
<1>3. \A step \in {"master", "dimension"} : Light(Call("start", Own(step)))
  BY <1>2 DEF Light
<1>4. loop \in Seq(Suspended) /\ loop # <<>> /\ Head(loop) = Do("startPending") /\ Tail(loop) = Rest
  BY <1>1, <1>2, PushTypes
<1>5. Still(loop)
  BY <1>1, <1>2, OfPush DEF Still
<1> HIDE DEF loop
<1>6. /\ rest \in Seq(Suspended) /\ rest # <<>> /\ Head(rest) = Call("start", Own("dimension")) /\ Tail(rest) = loop
      /\ Still(rest)
  <2>1. Rises(Push(Call("start", Own("dimension")), loop), loop)
    BY <1>2, <1>3, <1>4, RisesPush
  <2> QED BY <1>2, <1>4, <1>5, <2>1, PushTypes DEF Rises
<1> HIDE DEF rest
<1>7. CASE stack' = loop
  BY <1>1, <1>2, <1>4, <1>7 DEF Emptying, At
<1>8. ASSUME NEW step \in {"master", "dimension"}, stack' = Push(Call("start", Own(step)), loop)
      PROVE  /\ Emptying' /\ stack' # <<>> /\ Still(Tail(stack'))
             /\ At("start")' => Head(stack').item \notin Sessions
  <2>1. stack' # <<>> /\ Head(stack') = Call("start", Own(step)) /\ Tail(stack') = loop
    BY <1>2, <1>4, <1>8, PushTypes
  <2> QED BY <1>2, <1>4, <1>5, <2>1 DEF Emptying, At, Rest, Starting
<1>9. CASE stack' = Push(Call("start", Own("master")), rest)
  <2>1. stack' # <<>> /\ Head(stack') = Call("start", Own("master")) /\ Tail(stack') = rest
    BY <1>2, <1>6, <1>9, PushTypes
  <2> QED BY <1>2, <1>4, <1>6, <2>1 DEF Emptying, At, Rest, Starting
<1>10. \/ stack' = loop
       \/ \E step \in {"master", "dimension"} : stack' = Push(Call("start", Own(step)), loop)
       \/ stack' = Push(Call("start", Own("master")), rest)
  BY <1>1, ConnectedLeaves DEF loop, rest
<1> QED BY <1>7, <1>8, <1>9, <1>10

\* No function but the one that runs is about to start a login or a QUIT.
LEMMA RestStill ==
  ASSUME TypeInv, TypeInv', stack # <<>> => Still(Rest), [Next]_vars
  PROVE  stack' # <<>> => Still(Rest')
<1> SUFFICES ASSUME stack' # <<>> PROVE Still(Tail(stack'))
  BY DEF Rest, Still, Of
<1>1. CASE Gentle
  BY <1>1, StillTail DEF Gentle, TypeInv
<1>2. CASE Quits \/ LogsIn
  <2>1. PICK op \in {"execCtrl", "execData", "execAny"} : At(op)
    BY <1>2 DEF Quits, LogsIn, ExecNextFSRequest
  <2>2. PICK i \in Sessions : stack' = Push(Call("start", i), Rest)
    BY <1>2, SessionItems DEF Quits, LogsIn
  <2>3. Call("start", i) \in Suspended /\ Rest \in Seq(Suspended)
    BY <2>1, <2>2, RisesRest, SessionItems, FrameTypes DEF Sessions, Ops
  <2> QED BY <2>1, <2>2, <2>3, PushTypes DEF At
<1>3. CASE Begins
  <2>1. At("startPending") /\ stack' = Push(Call("start", Head(pending)), stack)
    BY <1>3 DEF Begins, StartPending
  <2>2. Call("start", Head(pending)) \in Suspended /\ Still(stack)
    BY <1>3, <2>1, Parts, FrameTypes, RisesRest DEF TypeInv, Begins, At, Ops
  <2> QED BY <2>1, <2>2, PushTypes DEF TypeInv
<1>4. CASE OnChannelConnected
  BY <1>4, AfterConnected
<1>5. CASE UNCHANGED vars
  BY <1>5 DEF vars, Rest
<1> QED BY <1>1, <1>2, <1>3, <1>4, <1>5, RisesNext

\* Where each of the starts of a login or a QUIT leaves the queues.
LEMMA StartsLeave ==
  ASSUME TypeInv, Quits \/ LogsIn \/ Begins
  PROVE  /\ UNCHANGED <<isConnected, isConnecting, chan>>
         /\ stack' # <<>> /\ Head(stack').op = "start"
         /\ Quits \/ LogsIn =>
              /\ pending' = pending /\ Head(stack').item = Own(IF Quits THEN "quit" ELSE "login")
              /\ ~At("start") /\ ~At("startPending") /\ Holds(stack, {"execCtrl", "execData", "execAny"})
              /\ Guarded(stack) => Guarded(stack')
         /\ Begins => At("startPending") /\ pending # <<>> /\ pending' = Tail(pending) /\ Head(stack').item = Head(pending)
<1>1. CASE Quits \/ LogsIn
  <2>1. PICK op \in {"execCtrl", "execData", "execAny"} : At(op)
    BY <1>1 DEF Quits, LogsIn, ExecNextFSRequest
  <2>2. UNCHANGED <<isConnected, isConnecting, chan, pending>>
    BY <1>1 DEF Quits, LogsIn, ExecNextFSRequest, ExecFS, connVars
  <2>3. \A step \in {"quit", "login"} :
          /\ Call("start", Own(step)) \in Suspended /\ Call("start", Own(step)).op = "start"
          /\ Call("start", Own(step)).item = Own(step)
    BY FrameTypes, SessionItems DEF Ops
  <2>4. Rest \in Seq(Suspended) /\ (Guarded(stack) => Guarded(Rest))
    BY <2>1, RisesRest
  <2>5. Holds(stack, {"execCtrl", "execData", "execAny"})
    BY <2>1, HoldsAt DEF TypeInv
  <2>6. PICK step \in {"quit", "login"} :
          stack' = Push(Call("start", Own(step)), Rest) /\ (step = "quit" <=> Quits)
    <3>1. Push(Call("start", Own("quit")), Rest) # Push(Call("start", Own("login")), Rest)
      <4>1. /\ Head(Push(Call("start", Own("quit")), Rest)) = Call("start", Own("quit"))
            /\ Head(Push(Call("start", Own("login")), Rest)) = Call("start", Own("login"))
        BY <2>3, <2>4, PushTypes
      <4>2. Call("start", Own("quit")) # Call("start", Own("login"))
        BY <2>3, SessionItems
      <4> QED BY <4>1, <4>2
    <3> QED BY <1>1, <3>1 DEF Quits, LogsIn
  <2>7. stack' # <<>> /\ Head(stack') = Call("start", Own(step)) /\ (Guarded(stack) => Guarded(stack'))
    BY <2>3, <2>4, <2>6, PushTypes, GuardedPush
  <2>8. ~Begins /\ ~At("start") /\ ~At("startPending")
    BY <2>1 DEF Begins, StartPending, At
  <2> QED BY <2>2, <2>3, <2>5, <2>6, <2>7, <2>8
<1>2. CASE Begins
  <2>1. /\ At("startPending") /\ pending # <<>> /\ pending' = Tail(pending)
        /\ stack' = Push(Call("start", Head(pending)), stack)
        /\ UNCHANGED <<isConnected, isConnecting, chan>>
    BY <1>2 DEF Begins, StartPending, connVars
  <2>2. /\ Call("start", Head(pending)) \in Suspended /\ Call("start", Head(pending)).op = "start"
        /\ Call("start", Head(pending)).item = Head(pending)
    BY <2>1, Parts, FrameTypes DEF TypeInv, Ops
  <2>3. ~Quits /\ ~LogsIn
    BY <2>1 DEF Quits, LogsIn, ExecNextFSRequest, At
  <2> QED BY <2>1, <2>2, <2>3, PushTypes DEF TypeInv
<1> QED BY <1>1, <1>2

\* What becomes of what is pending.
LEMMA PendLeaves ==
  ASSUME TypeInv, [Next]_vars, NEW S
  PROVE  /\ Waiting(pending', S) =>
              \/ Waiting(pending, S)
              \/ Start /\ ~isConnected /\ ~isConnected' /\ This \in S /\ pending' = Append(pending, This)
         /\ Waiting(pending', S) => pending' # <<>>
<1>1. Waiting(pending', S) => pending' # <<>>
  BY WaitingAfter DEF Waiting
<1>2. CASE pending' = pending
  BY <1>1, <1>2
<1>3. CASE pending # <<>> /\ pending' = Tail(pending)
  <2>1. Waiting(Tail(pending), S) => Waiting(pending, S)
    BY <1>3, WaitingAfter DEF TypeInv
  <2> QED BY <1>1, <1>3, <2>1
<1>4. CASE At("start") /\ ~isConnected' /\ This \in Objects /\ pending' = Append(pending, This) /\ pending' # pending
  <2>1. Waiting(Append(pending, This), S) <=> Waiting(pending, S) \/ This \in S
    BY <1>4, WaitingAfter DEF TypeInv
  <2>2. Start
    BY <1>4, OnlyStart DEF vars, managerVars
  <2>3. isConnected' = isConnected
    BY <2>2 DEF Start, connVars
  <2> QED BY <1>1, <1>4, <2>1, <2>2, <2>3
<1> QED BY <1>2, <1>3, <1>4, PendSteps

\* While the device is connected, nothing but the loop has a login or a QUIT before it.
LEMMA EmptyingNext ==
  ASSUME TypeInv, Books, QuitInv, LoopInv, \A r \in Requests : Kind[r] # "empty", [Next]_vars,
         isConnected', Waiting(pending', Sessions)
  PROVE  Emptying'
<1>1. CASE OnChannelConnected
  BY <1>1, AfterConnected DEF LoopInv
<1>2. CASE UNCHANGED vars /\ ~OnChannelConnected
  <2>1. Emptying
    BY <1>2 DEF LoopInv, vars, managerVars, connVars
  <2> QED BY <1>2, <2>1 DEF Emptying, vars, At, Rest, Starting
<1>3. CASE ~OnChannelConnected /\ ~UNCHANGED vars
  <2>1. isConnected /\ Waiting(pending, Sessions)
    BY <1>3, PendSteps, PendLeaves
  <2>2. Emptying
    BY <2>1 DEF LoopInv
  <2>3. CASE At("startPending")
    <3>1. StartPending /\ pending # <<>>
      BY <1>3, <2>1, <2>3, OnlyStart DEF Waiting
    <3>2. /\ stack' = Push(Call("start", Head(pending)), stack)
          /\ Call("start", Head(pending)) \in Suspended /\ Call("start", Head(pending)).op = "start"
      BY <3>1, Parts, FrameTypes DEF TypeInv, Ops, StartPending
    <3>3. stack' # <<>> /\ Head(stack').op = "start" /\ Tail(stack') = stack
      BY <3>2, PushTypes DEF TypeInv
    <3> QED BY <2>3, <3>3 DEF Emptying, At, Rest, Starting
  <2>4. CASE At("start")
    <3>1. Start /\ This \in Objects
      BY <1>3, <2>4, OnlyStart, AtTypes DEF TypeInv
    <3>2. ~IsTransfer(This)
      <4> SUFFICES ASSUME IsTransfer(This) PROVE FALSE
        OBVIOUS
      <4>1. This.req \in Requests
        BY <3>1, ObjectIs DEF IsTransfer, IsUser, OwnSteps
      <4>2. This \in Moving(Requests)
        BY <3>1, <4>1 DEF Moving
      <4>3. Of(stack, InFlight, Moving(Requests)) >= 1
        <5>1. /\ Of(stack, InFlight, Moving(Requests)) = Of(Rest, InFlight, Moving(Requests)) + Is(This, Moving(Requests))
              /\ Of(Rest, InFlight, Moving(Requests)) \in Nat
          BY <2>4, OfAt DEF InFlight
        <5> QED BY <4>2, <5>1, IsOne
      <4>4. Fly(Moving(Requests)) > 0
        BY <4>3, LedgerTypes DEF Fly
      <4>5. login = "LoggedIn"
        <5>1. Act(Requests) > 0
          BY <4>4, ActNat DEF Books
        <5> QED BY <5>1 DEF Books, DataInv
      <4>6. Fly(Logins) = 0 /\ Count(pending, {Own("quit")}) = 0
        BY <4>5 DEF Books, LoginInv, QuitInv
      <4>7. ~Waiting(pending, Logins) /\ ~Waiting(pending, {Own("quit")})
        <5>1. ~(Count(pending, {Own("quit")}) > 0)
          BY <4>6
        <5> QED BY <4>6, <5>1, NoLogin, CountSome DEF Waiting, TypeInv
      <4> QED BY <2>1, <4>7 DEF Waiting, Sessions, Logins
    <3>3. ~(IsUser(This) /\ Kind[This.req] \in {"empty", "upload"})
      <4>1. IsUser(This) => This.req \in Requests
        BY <3>1, ObjectIs DEF IsUser, OwnSteps
      <4> QED BY <3>2, <4>1 DEF IsTransfer
    <3>4. stack' = Rest
      BY <2>1, <3>1, <3>2, <3>3 DEF Start
    <3> QED BY <2>2, <2>4, <3>4 DEF Emptying, At, Rest, Starting
  <2> QED BY <2>2, <2>3, <2>4 DEF Emptying
<1> QED BY <1>1, <1>2, <1>3

\* Without a connection, or an attempt at one, what is pending ends before any
\* loop comes to it.
LEMMA GuardedNext ==
  ASSUME TypeInv, TypeInv', LoopInv, [Next]_vars,
         ~isConnected', ~isConnecting', Waiting(pending', Sessions)
  PROVE  Guarded(stack')
<1>1. pending' # <<>> /\ (Waiting(pending, Sessions) \/ (Start /\ ~isConnected))
  BY PendLeaves
<1>2. CASE ~isConnected /\ ~isConnecting
  <2>1. Waiting(pending, Sessions)
    <3>1. ~(Start /\ ~isConnected)
      BY <1>2 DEF Start, ConnectToDevice
    <3> QED BY <1>1, <3>1
  <2>2. Guarded(stack)
    BY <1>2, <2>1 DEF LoopInv
  <2>3. CASE Gentle
    BY <1>1, <2>2, <2>3 DEF Gentle
  <2>4. CASE Quits \/ LogsIn
    BY <2>2, <2>4, StartsLeave
  <2>5. CASE Begins
    BY <2>2, <2>5, StartsLeave, RisesRest
  <2>6. CASE OnChannelConnected
    BY <2>6 DEF OnChannelConnected, Established
  <2>7. CASE UNCHANGED vars
    BY <2>2, <2>7 DEF vars
  <2> QED BY <2>3, <2>4, <2>5, <2>6, <2>7, RisesNext DEF LoopInv
<1>3. CASE isConnected \/ isConnecting
  <2>1. OnChannelDisconnected \/ OnChannelError \/ SetChannel \/ OnChannelConnected
    BY <1>3, LinkSteps DEF TypeInv
  <2>2. ~OnChannelConnected
    BY DEF OnChannelConnected, Established
  <2>3. CASE SetChannel
    <3>1. stack' = <<Do("slot")>> /\ Do("slot").op = "slot"
      BY <2>3, FrameTypes DEF SetChannel, Ops
    <3>2. Len(stack') = 1 /\ stack'[1].op = "slot"
      BY <3>1
    <3> QED BY <3>2 DEF Guarded
  <2>4. CASE OnChannelError
    <3>1. At("onError") /\ Rest \in Seq(Suspended) /\ Do("failPending") \in Suspended
          /\ Do("failPending").op = "failPending"
      BY <2>4, AtTypes, FrameTypes DEF OnChannelError, TypeInv, Ops
    <3>2. CASE isConnecting
      <4>1. stack' = Push(Do("failPending"), Rest)
        BY <2>4, <3>2 DEF OnChannelError
      <4> QED BY <3>1, <4>1, GuardedPush
    <3>3. CASE ~isConnecting
      BY <1>3, <2>4, <3>3 DEF OnChannelError
    <3> QED BY <3>2, <3>3
  <2>5. CASE OnChannelDisconnected
    <3>1. At("onDisconnected") /\ isConnecting' = isConnecting /\ pending' = pending
      BY <2>5 DEF OnChannelDisconnected
    <3>2. isConnected /\ Waiting(pending, Sessions)
      BY <1>3, <3>1
    <3>3. At("start") \/ At("startPending")
      BY <3>2 DEF LoopInv, Emptying
    <3> QED BY <3>1, <3>3 DEF At
  <2> QED BY <2>1, <2>2, <2>3, <2>4, <2>5
<1> QED BY <1>2, <1>3

LEMMA LoopNext ==
  ASSUME TypeInv, TypeInv', Books, QuitInv, LoopInv, \A r \in Requests : Kind[r] # "empty", [Next]_vars
  PROVE  LoopInv'
<1>1. stack' # <<>> => Still(Rest')
  BY RestStill DEF LoopInv
<1>2. Waiting(pending, Sessions)' <=> Waiting(pending', Sessions)
  BY DEF Waiting, Sessions
<1>3. Guarded(stack') => Guarded(stack)'
  BY DEF Guarded
<1>4. Still(Rest') => Still(Rest)'
  BY DEF Still, Of, Sessions, Count, Spots, Rest
<1> QED BY <1>1, <1>2, <1>3, <1>4, EmptyingNext, GuardedNext DEF LoopInv

\* What a step does to who waits in the channel's queue.
LEMMA ChanLeaves ==
  ASSUME TypeInv, [Next]_vars
  PROVE  /\ \A S \in SUBSET Sessions : Waiting(chan', S) =>
              \/ Waiting(chan, S)
              \/ Start /\ isConnected /\ UNCHANGED <<isConnected, pending>> /\ This \in S
         /\ Behind(chan) /\ (At("start") /\ This = Own("quit") => ~Waiting(chan, {Own("login")})) => Behind(chan')
<1> DEFINE Fine(q) ==
      /\ \A S \in SUBSET Sessions : Waiting(q, S) =>
           \/ Waiting(chan, S)
           \/ Start /\ isConnected /\ UNCHANGED <<isConnected, pending>> /\ This \in S
      /\ Behind(chan) /\ (At("start") /\ This = Own("quit") => ~Waiting(chan, {Own("login")})) => Behind(q)
<1>0. chan \in Seq(Exchanges)
  BY DEF TypeInv
<1>1. Fine(chan)
  OBVIOUS
<1>2. Fine(<<>>)
  BY <1>0, WaitingAfter, BehindAfter
<1>3. ASSUME chan # <<>> PROVE Fine(Tail(chan))
  BY <1>0, <1>3, WaitingAfter, BehindAfter
<1>4. ASSUME At("start"), isConnected, This \in Objects, chan' = Append(chan, This), chan' # chan
      PROVE  Fine(chan')
  <2>1. Start /\ This \in Exchanges
    BY <1>4, OnlyStart, ObjectIs DEF vars
  <2>2. UNCHANGED <<isConnected, pending>>
    BY <1>4, <2>1 DEF Start, connVars
  <2>3. \A S : Waiting(Append(chan, This), S) <=> Waiting(chan, S) \/ This \in S
    BY <1>0, <2>1, WaitingAfter
  <2>4. Behind(chan) /\ (This = Own("quit") => ~Waiting(chan, {Own("login")})) => Behind(Append(chan, This))
    BY <1>0, <2>1, BehindAfter
  <2> QED BY <1>4, <2>1, <2>2, <2>3, <2>4
<1>5. ASSUME chan # <<>>, ReadsResponse(Head(chan)),
             chan' = Append(Tail(chan), [Head(chan) EXCEPT !.part = "response"])
      PROVE  Fine(chan')
  <2> DEFINE y == [Head(chan) EXCEPT !.part = "response"]
             t == Tail(chan)
  <2>1. Head(chan) \in Exchanges /\ t \in Seq(Exchanges)
    BY <1>0, <1>5
  <2>2. y \in Exchanges /\ y.part = "response"
    <3>1. y \in Exchanges
      BY <1>5, <2>1, ExchangeIs
    <3>2. DOMAIN Head(chan) = {"req", "step", "part"}
      BY <2>1 DEF Exchanges, Items
    <3> QED BY <3>1, <3>2
  <2>3. Own("quit").part = "command" /\ Own("login").part = "command"
    BY DEF Own, Item
  <2> HIDE DEF y
  <2>4. y \notin Sessions
    BY <2>2, <2>3 DEF Sessions
  <2>5. Fine(t)
    BY <1>3, <1>5
  <2> HIDE DEF t
  <2>6. \A S : Waiting(Append(t, y), S) <=> Waiting(t, S) \/ y \in S
    BY <2>1, <2>2, WaitingAfter
  <2>7. Behind(t) => Behind(Append(t, y))
    BY <2>1, <2>2, <2>4, BehindAfter, SessionItems
  <2> QED BY <1>5, <2>4, <2>5, <2>6, <2>7 DEF y, t
<1> HIDE DEF Fine
<1>6. Fine(chan')
  BY <1>1, <1>2, <1>3, <1>4, <1>5, ChanSteps
<1> QED BY <1>6 DEF Fine

\* When a login or a QUIT is about to be started.
LEMMA SessionStarts ==
  ASSUME TypeInv, TypeInv', LoopInv, [Next]_vars, stack' # <<>>, Head(stack').op = "start",
         Head(stack').item \in Sessions
  PROVE  Quits \/ LogsIn \/ Begins \/ UNCHANGED vars
<1>1. CASE Gentle
  BY <1>1, StillTail DEF Gentle, TypeInv
<1>2. CASE OnChannelConnected
  BY <1>2, AfterConnected DEF LoopInv, At
<1> QED BY <1>1, <1>2, RisesNext DEF LoopInv

\* The order of logins and QUITs in both queues.
LEMMA OrderNext ==
  ASSUME TypeInv, TypeInv', Books, ChanInv, ChanInv', LoopInv, OrderInv, ~Stuck, [Next]_vars
  PROVE  OrderInv'
<1>0. /\ {Own("quit")} \in SUBSET Sessions /\ {Own("login")} \in SUBSET Sessions
      /\ Own("login") # Own("quit") /\ pending \in Seq(Objects)
  BY SessionItems DEF TypeInv
<1>1. Behind(chan')
  BY ChanLeaves DEF OrderInv
<1>2. Behind(pending')
  <2>1. CASE pending' = pending
    BY <2>1 DEF OrderInv
  <2>2. CASE pending # <<>> /\ pending' = Tail(pending)
    BY <1>0, <2>2, BehindAfter DEF OrderInv
  <2>3. CASE At("start") /\ ~isConnected' /\ This \in Objects /\ pending' = Append(pending, This) /\ pending' # pending
    <3>1. Start
      BY <2>3, OnlyStart DEF vars, managerVars
    <3>2. ~isConnected
      BY <2>3, <3>1 DEF Start, connVars
    <3>3. This = Own("quit") => ~Waiting(pending, {Own("login")})
      BY <2>3, <3>2 DEF OrderInv
    <3> QED BY <1>0, <2>3, <3>3, BehindAfter DEF OrderInv
  <2> QED BY <2>1, <2>2, <2>3, PendSteps
<1>3. Waiting(pending', {Own("quit")}) => ~Waiting(chan', {Own("login")})
  <2> SUFFICES ASSUME Waiting(pending', {Own("quit")}), Waiting(chan', {Own("login")}) PROVE FALSE
    OBVIOUS
  <2>1. isConnected'
    BY <1>0, WaitingAfter DEF ChanInv
  <2>2. Waiting(pending, {Own("quit")})
    BY <2>1, PendLeaves
  <2>3. Start /\ isConnected /\ This = Own("login")
    BY <1>0, <2>2, ChanLeaves DEF OrderInv
  <2> QED BY <2>2, <2>3 DEF OrderInv, Start
<1>4. ASSUME stack' # <<>>, Head(stack').op = "start", Head(stack').item = Own("quit")
      PROVE  /\ ~Waiting(chan', {Own("login")})
             /\ ~isConnected' => ~Waiting(pending', {Own("login")})
  <2>1. CASE UNCHANGED vars
    <3>1. At("start") /\ This = Own("quit")
      BY <1>4, <2>1 DEF vars, At, This
    <3> QED BY <2>1, <3>1 DEF OrderInv, vars, managerVars, connVars
  <2>2. CASE Quits
    <3>1. login = "LoggedIn"
      <4>1. fsCtrl = <<>> /\ fsData = <<>>
        BY <2>2 DEF Quits
      <4>2. PICK op \in {"execCtrl", "execData", "execAny"} : At(op)
        BY <2>2 DEF Quits, ExecNextFSRequest
      <4>3. Holds(stack, {"execAny"}) \/ Holds(stack, {"execCtrl", "execData"})
        BY <4>2, HoldsAt DEF TypeInv
      <4> QED BY <4>1, <4>3 DEF Books, LoginInv
    <3>2. Fly(Logins) = 0
      BY <3>1 DEF Books, LoginInv
    <3>3. UNCHANGED <<chan, pending>>
      BY <2>2, StartsLeave
    <3> QED BY <3>2, <3>3, NoLogin DEF Logins
  <2>3. CASE LogsIn /\ ~Quits
    BY <1>0, <1>4, <2>3, StartsLeave
  <2>4. CASE Begins
    <3>1. /\ At("startPending") /\ pending # <<>> /\ Head(pending) = Own("quit")
          /\ UNCHANGED <<isConnected, chan>>
      BY <1>4, <2>4, StartsLeave
    <3>2. Waiting(pending, {Own("quit")}) /\ Waiting(pending, Sessions)
      BY <1>0, <3>1, WaitingAfter
    <3>3. isConnected
      <4> SUFFICES ASSUME ~isConnected PROVE FALSE
        BY DEF TypeInv
      <4>1. ~isConnecting
        BY <3>1 DEF Stuck
      <4>2. Guarded(stack)
        BY <3>2, <4>1 DEF LoopInv
      <4> QED BY <3>1, <4>2, RisesRest
    <3> QED BY <3>1, <3>2, <3>3 DEF OrderInv
  <2> QED BY <1>0, <1>4, <2>1, <2>2, <2>3, <2>4, SessionStarts
<1>5. ASSUME stack' # <<>>, Head(stack').op = "start", Head(stack').item = Own("login"), isConnected'
      PROVE  ~Waiting(pending', {Own("quit")})
  <2>1. CASE UNCHANGED vars
    <3>1. At("start") /\ This = Own("login")
      BY <1>5, <2>1 DEF vars, At, This
    <3> QED BY <1>5, <2>1, <3>1 DEF OrderInv, vars, managerVars, connVars
  <2>2. CASE Quits
    BY <1>0, <1>5, <2>2, StartsLeave
  <2>3. CASE LogsIn
    <3>1. pending' = pending /\ isConnected /\ ~At("start") /\ ~At("startPending")
      BY <1>5, <2>3, StartsLeave
    <3>2. Waiting(pending, {Own("quit")}) => Waiting(pending, Sessions)
      BY <1>0 DEF Waiting
    <3> QED BY <3>1, <3>2 DEF LoopInv, Emptying
  <2>4. CASE Begins
    <3>1. pending # <<>> /\ Head(pending) = Own("login") /\ pending' = Tail(pending)
      BY <1>5, <2>4, StartsLeave
    <3>2. Behind(pending)
      BY DEF OrderInv
    <3>3. ~Waiting(pending, {Own("quit")})
      BY <1>0, <3>1, <3>2, BehindAfter
    <3>4. ~Waiting(Tail(pending), {Own("quit")})
      BY <1>0, <3>1, <3>3, WaitingAfter
    <3> QED BY <3>1, <3>4
  <2> QED BY <1>0, <1>5, <2>1, <2>2, <2>3, <2>4, SessionStarts
<1> QED BY <1>1, <1>2, <1>3, <1>4, <1>5 DEF OrderInv, Behind, Waiting, At, This

\* While somebody is logged in, the device knows it, and no QUIT is on its way.
LEMMA OpenNext ==
  ASSUME TypeInv, TypeInv', Top, Top', QuitInv, OrderInv, OpenInv, ~MayReplace, [Next]_vars
  PROVE  OpenInv'
<1> SUFFICES ASSUME login' = "LoggedIn" \/ (stack' # <<>> /\ Head(stack').op = "finished" /\ Head(stack').ok
                                              /\ Head(stack').item = Own("login"))
             PROVE  session' /\ ~Waiting(chan', {Own("quit")})
  BY DEF OpenInv, Welcome, At, This, Waiting
<1>0. /\ {Own("quit")} \in SUBSET Sessions /\ chan \in Seq(Exchanges)
      /\ Own("quit").step = "quit" /\ Own("login").step = "login"
      /\ ~IsUser(Own("login")) /\ Own("login").req = Manager
  BY SessionItems DEF TypeInv, IsUser, Own, Item
<1>1. CASE login = "LoggedIn" \/ Welcome
  <2>1. session /\ ~Waiting(chan, {Own("quit")})
    BY <1>1 DEF OpenInv
  <2>2. At("start") => This # Own("quit")
    <3>1. Welcome => ~At("start")
      BY DEF Welcome, At
    <3>2. login = "LoggedIn" /\ At("start") => This # Own("quit")
      BY AboveRest DEF QuitInv
    <3> QED BY <1>1, <3>1, <3>2
  <2>3. ~Waiting(chan', {Own("quit")})
    BY <1>0, <2>1, <2>2, ChanLeaves DEF Start
  <2>4. session'
    <3>1. CASE session' = session
      BY <2>1, <3>1
    <3>2. CASE chan # <<>> /\ DeviceServes(Head(chan))
      <4>1. Head(chan) # Own("quit")
        BY <1>0, <2>1, <3>2, WaitingAfter
      <4>2. Head(chan).step # "quit"
        <5>1. Head(chan) \in Items
          BY <1>0, <3>2 DEF Exchanges
        <5> QED BY <4>1, <5>1 DEF Items, Own, Item
      <4> QED BY <2>1, <3>2, <4>2 DEF DeviceServes
    <3> QED BY <3>1, <3>2, SessionSteps
  <2> QED BY <2>3, <2>4
<1>2. CASE login # "LoggedIn" /\ ~Welcome
  <2>1. login' # "LoggedIn"
    <3>1. At("finished") /\ FinishOwn /\ Head(stack).ok /\ This.step = "login" => Welcome
      <4> SUFFICES ASSUME At("finished"), FinishOwn, This.step = "login" PROVE This = Own("login")
        BY DEF Welcome
      <4>1. This \in Objects /\ This.req = Manager
        BY AtTypes DEF TypeInv, FinishOwn
      <4> QED BY <4>1, ObjectIs DEF Own
    <3> QED BY <1>2, <3>1, PendSteps
  <2>2. stack' # <<>> /\ Head(stack').op = "finished" /\ Head(stack').ok /\ Head(stack').item = Own("login")
    BY <2>1
  <2>3. ~UNCHANGED vars
    BY <1>2, <2>2 DEF Welcome, At, This, vars
  <2>4. Answer
    BY <1>0, <2>2, <2>3, EndsWell DEF At
  <2>5. PICK ok \in BOOLEAN : ChannelFinish(ok, <<>>) /\ (ok => DeviceServes(Head(chan))) /\ chan # <<>>
    BY <2>4 DEF Answer
  <2>6. stack' = Push(End(Head(chan), ok), <<>>) /\ chan' = Tail(chan)
    BY <2>2, <2>5 DEF ChannelFinish
  <2>7. Head(chan) \in Exchanges
    BY <1>0, <2>5
  <2>8. ok /\ Base(Head(chan)) = Own("login")
    <3>1. /\ End(Head(chan), ok) \in Suspended
          /\ End(Head(chan), ok).item = Base(Head(chan)) /\ End(Head(chan), ok).ok = ok
      BY <2>7, FrameTypes
    <3>2. Head(stack') = End(Head(chan), ok)
      BY <2>6, <3>1, PushTypes, PushAlone
    <3> QED BY <2>2, <3>1, <3>2
  <2>9. Head(chan) = Own("login")
    <3>1. Head(chan).req = Manager /\ Head(chan) \in Items
      BY <1>0, <2>7, <2>8, ExchangeIs
    <3>2. Head(chan).part = "command"
      BY <3>1, ManagerAssumption DEF Items, ManagerAssumption, Manager
    <3>3. Head(chan) \in Objects
      BY <3>1, <3>2 DEF Objects
    <3> QED BY <2>8, <3>3, ObjectIs
  <2>10. ~Waiting(chan, {Own("quit")})
    BY <1>0, <2>5, <2>9, BehindAfter DEF OrderInv
  <2>11. ~Waiting(chan', {Own("quit")})
    BY <1>0, <2>5, <2>6, <2>10, WaitingAfter
  <2>12. session'
    BY <1>0, <2>5, <2>8, <2>9 DEF DeviceServes
  <2> QED BY <2>11, <2>12
<1> QED BY <1>1, <1>2

LEMMA SessionNext ==
  ASSUME DeviceInv, DeviceInv', SessionInv, \A r \in Requests : Kind[r] # "empty", ~MayReplace, [Next]_vars
  PROVE  SessionInv'
<1>1. CASE Stuck
  BY <1>1, StuckNext DEF SessionInv, DeviceInv, ManagerInv
<1>2. CASE ~Stuck
  <2>1. /\ TypeInv /\ TypeInv' /\ Top /\ Top' /\ ChanInv /\ ChanInv' /\ Books /\ QuitInv
        /\ OpenInv /\ OrderInv /\ LoopInv
    BY <1>2 DEF SessionInv, DeviceInv, ManagerInv
  <2> QED BY <1>2, <2>1, OpenNext, OrderNext, LoopNext DEF SessionInv
<1> QED BY <1>1, <1>2

LEMMA SessionInit == Init => SessionInv
<1> SUFFICES ASSUME Init PROVE OpenInv /\ OrderInv /\ LoopInv
  BY DEF SessionInv
<1>1. chan = <<>> /\ pending = <<>> /\ stack = <<>> /\ login = "NotLoggedIn"
  BY DEF Init
<1>2. \A S : ~Waiting(<<>>, S)
  BY WaitingAfter, PushAlone
<1>3. Behind(<<>>)
  BY BehindAfter, PushAlone
<1> QED BY <1>1, <1>2, <1>3 DEF OpenInv, OrderInv, LoopInv, Welcome, At

LEMMA SessionAlways ==
  ASSUME \A r \in Requests : Kind[r] # "empty", ~MayReplace
  PROVE  Spec => []SessionInv
<1>1. DeviceInv /\ DeviceInv' /\ SessionInv /\ [Next]_vars => SessionInv'
  BY SessionNext
<1>2. Spec => []DeviceInv
  BY DeviceAlways
<1> QED BY <1>1, <1>2, SessionInit, PTL DEF Spec

\* A command needs the login, and the login the session.
LEMMA InSession ==
  ASSUME DeviceInv, SessionInv
  PROVE  CommandsInSession
<1> SUFFICES ASSUME chan # <<>>, IsCommand(Head(chan)) \/ Head(chan).step = "data" PROVE session
  BY DEF CommandsInSession
<1>0. /\ TypeInv /\ Books /\ ChanInv /\ chan \in Seq(Exchanges)
  BY DEF DeviceInv, ManagerInv, TypeInv
<1>1. ~Stuck
  BY <1>0 DEF Stuck, ChanInv
<1>2. /\ 1 \in 1 .. Len(chan) /\ chan[1] = Head(chan) /\ Head(chan) \in Exchanges
  BY <1>0
<1>3. login = "LoggedIn"
  <2>1. CASE IsCommand(Head(chan))
    <3>1. Base(Head(chan)) \in Commands
      <4>1. Base(Head(chan)) \in Objects /\ Base(Head(chan)).req = Head(chan).req /\ Base(Head(chan)).step = Head(chan).step
        BY <1>2, ExchangeIs
      <4> QED BY <2>1, <4>1 DEF Commands, IsCommand, IsUser
    <3> QED BY <1>0, <1>2, <3>1, CarriedOne DEF Books
  <2>2. CASE Head(chan).step = "data"
    <3>1. Base(Head(chan)) \in Objects /\ Base(Head(chan)).step = "data"
      BY <1>2, <2>2, ExchangeIs
    <3>2. Base(Head(chan)) \in Moving(Requests)
      BY <3>1, ObjectIs DEF Moving, OwnSteps
    <3>3. Count(chan, Carrying(Moving(Requests))) > 0
      <4>1. chan[1] \in Carrying(Moving(Requests))
        BY <1>2, <3>2 DEF Carrying
      <4> QED BY <1>0, <1>2, <4>1, CountSome
    <3>4. Fly(Moving(Requests)) > 0
      <4>1. Count(pending, Moving(Requests)) \in Nat /\ Of(stack, InFlight, Moving(Requests)) \in Nat
            /\ Count(chan, Carrying(Moving(Requests))) \in Nat
        BY <1>0, LedgerTypes
      <4> QED BY <3>3, <4>1 DEF Fly
    <3>5. Act(Requests) > 0
      BY <1>0, <3>4, ActNat DEF Books
    <3> QED BY <1>0, <3>5 DEF Books, DataInv
  <2> QED BY <2>1, <2>2
<1> QED BY <1>1, <1>3 DEF SessionInv, OpenInv

\* The device is given commands and contents only by a user who is logged in:
\* a QUIT that waits, with the channel or for a connection, never comes between
\* the answer to the next login and the commands that rely on it. setChannel
\* keeps m_fsLoginState, so this is said of one channel only.
THEOREM CommandsInSessionAlways ==
  ASSUME \A r \in Requests : Kind[r] # "empty", ~MayReplace
  PROVE  Spec => []CommandsInSession
<1>1. DeviceInv /\ SessionInv => CommandsInSession
  BY InSession
<1>2. Spec => []DeviceInv
  BY DeviceAlways
<1>3. Spec => []SessionInv
  BY SessionAlways
<1> QED BY <1>1, <1>2, <1>3, PTL

=============================================================================
