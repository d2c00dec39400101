-------------------- MODULE AsyncChannelManagerInvariants --------------------
(***************************************************************************)
(* What AsyncChannelManager keeps, in the form in which every step keeps   *)
(* it: the parts of the inductive invariants that                          *)
(* AsyncChannelManagerProofs proves.  Most of them count: where an item    *)
(* waits, whether a function is about to start it or to end it, and how    *)
(* often.  At the end, what those proofs say of a step.                    *)
(***************************************************************************)
EXTENDS AsyncChannelManager, FiniteSets

-----------------------------------------------------------------------------
(* Types.                                                                  *)

\* What is queued and what functions hold are requests; only the channel has
\* exchanges that read the answer to a command.
Base(i)   == [i EXCEPT !.part = "command"]
Objects   == {i \in Items : i.part = "command"}
Exchanges == {i \in Items : i.part = "response" => ReadsResponse(Base(i))}
Commands  == {i \in Objects : IsCommand(i)}
Transfers == {i \in Objects : IsTransfer(i)}
Suspended == [op : Ops, item : Objects, ok : BOOLEAN]

TypeInv ==
  /\ isConnected \in BOOLEAN /\ isConnecting \in BOOLEAN
  /\ pending \in Seq(Objects) /\ chan \in Seq(Exchanges)
  /\ fsCtrl \in Seq(Commands) /\ fsData \in Seq(Transfers)
  /\ login \in {"NotLoggedIn", "LoggingIn", "LoggedIn"}
  /\ gotRW \in BOOLEAN /\ gotFile \in BOOLEAN
  /\ link \in {"down", "connecting", "up", "closing"} /\ pendingClose \in BOOLEAN
  /\ session \in BOOLEAN /\ command \in Items /\ file \in Requests \union {Manager}
  /\ status \in [Requests -> {"new", "waiting", "finished"}]
  /\ calls \in 0 .. MaxCalls
  /\ stack \in Seq(Suspended)

-----------------------------------------------------------------------------
(* The call stack. A function that is called and does all its work at      *)
(* once is only ever the one that runs.                                    *)

Holds(s, ops) == \E n \in 1 .. Len(s) : s[n].op \in ops

AtOnce == {"execCtrl", "execData", "execAny", "onConnected", "onDisconnected", "onError",
           "finished", "rejected"}

Calm(s) == s \in Seq(Suspended) /\ ~Holds(s, AtOnce)
Top == stack # <<>> => ~Holds(Tail(stack), AtOnce)

\* Functions that few steps call: a request that is not the application's ends
\* well, the login has just done so, or the manager is told that the connection is gone.
Rare(f) == f.op \in {"execAny", "onDisconnected"} \/ (f.op = "finished" /\ f.ok /\ ~IsUser(f.item))

RareTurn == stack # <<>> /\ Rare(Head(stack))
Common == Top /\ ~RareTurn

-----------------------------------------------------------------------------
(* The connection over TCP. A socket closes later than it is told to, and  *)
(* the manager hears of it later still: what it thinks is compared with    *)
(* the link together with the functions that have yet to run.              *)

Ends     == {"drain", "onDisconnected"}
Emptiers == {"startPending", "failPending"}

\* The functions that do not matter to what the manager thinks of the connection.
Plain == Ops \ ({"onConnected", "closed"} \union Ends \union Emptiers)

TcpInv ==
  /\ At("onConnected") => link = "up"
  /\ ~(isConnected /\ isConnecting)
  /\ isConnecting => link = "connecting" \/ At("onConnected") \/ At("onError")
  /\ isConnected => link # "connecting"
  /\ ~isConnected => link \in {"down", "connecting"} \/ At("onConnected")
  /\ Holds(stack, Ends) => link \in {"down", "connecting"}
  /\ ~Holds(stack, {"closed"})
  /\ pending # <<>> => isConnecting \/ Holds(stack, Emptiers)

-----------------------------------------------------------------------------
(* The ledger: how many functions and queues hold an item. A request that  *)
(* was started is in flight: it is pending, the channel carries it, or a   *)
(* function is about to start or to end it.                                *)

Spots(q, S) == {n \in 1 .. Len(q) : q[n] \in S}
Count(q, S) == Cardinality(Spots(q, S))

Is(i, S) == IF i \in S THEN 1 ELSE 0
Holding(ops, S) == {f \in Suspended : f.op \in ops /\ f.item \in S}
Of(s, ops, S)   == Count(s, Holding(ops, S))
Carrying(S)     == {i \in Exchanges : Base(i) \in S}
InFlight        == {"start", "finished"}
Fly(S) == Count(pending, S) + Count(chan, Carrying(S)) + Of(stack, InFlight, S)
Cd(S)  == Of(stack, {"ctrlDone"}, S)
Dd(S)  == Of(stack, {"dataDone"}, S)
Rj(S)  == Of(stack, {"rejected"}, S)

\* The functions that decide what is executed next, the requests that the manager
\* makes for buffer sizes, and the functions that hold no request that counts.
Control == {"execCtrl", "execData", "execAny", "failFS", "rejected", "startData", "ctrlDone", "dataDone"}
Buffers == {Own("master"), Own("slave"), Own("dimension")}
Known   == Objects \ Buffers
Mute    == Ops \ (Control \union InFlight)

-----------------------------------------------------------------------------
(* One user logs in at a time, and for him one command and one file        *)
(* transfer are under way: the heads of the two queues.                    *)

Logins    == {Own("login")}
Queued    == {i \in Commands \union Transfers : IsUser(i)}
Steps(T)  == {i \in Objects : i.step \in {"open", "attr", "close"} /\ i.req \in T}
Moving(T) == {i \in Objects : (i.step = "data" \/ IsTransfer(i)) /\ i.req \in T}

\* A command from its start to the end of its part in the queue.
Busy(S) == Fly(S) + Cd(S)

\* A file transfer from its start to its end: it is in flight, its contents or
\* one of its commands are, or it ends.
Act(T) == Fly(Moving(T)) + Dd(Moving(T)) + (Count(fsCtrl, Steps(T)) - Cd(Steps(T)))

\* How often request r is yet to end.
Live(r) ==
  CASE Kind[r] \in {"plain", "empty"} -> Fly({Item(r, "run")})
    [] Kind[r] = "ctrl" -> (Count(fsCtrl, {Item(r, "run")}) - Cd({Item(r, "run")})) + Rj({Item(r, "run")})
    [] OTHER -> (Count(fsData, {Item(r, "run")}) - Dd({Item(r, "run")})) + Rj({Item(r, "run")})

KindsInv ==
  /\ Cd(Objects \ Commands) = 0
  /\ Dd(Objects \ Transfers) = 0
  /\ Rj(Objects \ Queued) = 0

LoginInv ==
  /\ Fly(Logins) <= 1
  /\ login # "LoggingIn" => Fly(Logins) = 0
  /\ ~MayReplace /\ login = "LoggingIn" => Fly(Logins) = 1
  /\ login = "LoggedIn" => ~Holds(stack, {"failFS", "rejected"})
  /\ Holds(stack, {"execAny"}) => login = "LoggedIn"
  /\ Holds(stack, {"execCtrl", "execData"}) => login = "LoggedIn" \/ fsCtrl # <<>> \/ fsData # <<>>

CtrlInv ==
  /\ Busy(Commands) <= 1
  /\ login # "LoggedIn" \/ fsCtrl = <<>> \/ Holds(stack, {"execCtrl", "execAny"}) => Busy(Commands) = 0
  /\ \A i \in Commands : fsCtrl # <<>> /\ i # Head(fsCtrl) => Busy({i}) = 0
  /\ ~MayReplace /\ login = "LoggedIn" /\ fsCtrl # <<>> =>
       Busy(Commands) = 1 \/ Holds(stack, {"execCtrl", "execAny"})
  /\ login = "NotLoggedIn" /\ fsCtrl # <<>> => Holds(stack, {"failFS", "execCtrl"})

DataInv ==
  /\ Act(Requests) <= 1
  /\ login # "LoggedIn" \/ fsData = <<>> \/ Holds(stack, {"startData", "execData", "execAny"}) =>
       Act(Requests) = 0
  /\ \A r \in Requests : fsData # <<>> /\ r # Head(fsData).req => Act({r}) = 0
  /\ ~MayReplace /\ login = "LoggedIn" /\ fsData # <<>> =>
       Act(Requests) = 1 \/ Holds(stack, {"startData", "execData", "execAny"})
  /\ login = "NotLoggedIn" /\ fsData # <<>> => Holds(stack, {"failFS", "execData"})

EndInv == \A r \in Requests : Live(r) <= IF status[r] = "waiting" THEN 1 ELSE 0

\* The other half of execNextFSRequest is never far from the top.
StartDataInv ==
  Holds(stack, {"startData"}) =>
    /\ login = "LoggedIn"
    /\ \/ At("startData") /\ ~Holds(Rest, {"startData"})
       \/ /\ At("start") /\ isConnected /\ This \in Commands
          /\ Rest # <<>> /\ Head(Rest).op = "startData" /\ ~Holds(Tail(Rest), {"startData"})

ChanInv == ~isConnected \/ Holds(stack, {"onDisconnected"}) => chan = <<>>

OwnInv ==
  \/ At("finished") /\ Head(stack).ok /\ This.req = Manager
  \/ Holds(stack, {"execAny"})
  => Rest = <<>> /\ isConnected

Books == KindsInv /\ LoginInv /\ CtrlInv /\ DataInv /\ EndInv

ManagerInv == TypeInv /\ Top /\ ChanInv /\ OwnInv /\ StartDataInv /\ Books

-----------------------------------------------------------------------------
(* The file a transfer has open, on the channel on which it opened it.     *)

\* The part of a file transfer that needs its file open: the reading of its
\* attributes, queued or under way, and the contents.
Away(r) == Fly({Item(r, "data")}) + (Count(fsCtrl, {Item(r, "attr")}) - Cd({Item(r, "attr")}))

Opened(r) == At("finished") /\ Head(stack).ok /\ This = Item(r, "open")
FileInv == ~MayReplace => \A r \in Requests : Away(r) > 0 \/ Opened(r) => file = r

-----------------------------------------------------------------------------
(* The answers to commands.                                                *)

\* No QUIT is about to be started.
Clean(s) == Of(s, {"start"}, {Own("quit")}) = 0

\* What is pending is being started once the device is connected.
PendInv == isConnected /\ pending # <<>> => Holds(stack, {"startPending"})

\* Once the login has succeeded, a QUIT can only be ahead of the commands.
QuitInv ==
  login = "LoggedIn" =>
    /\ Clean(stack) /\ Count(pending, {Own("quit")}) = 0
    /\ \A m, n \in 1 .. Len(chan) : chan[m] = Own("quit") =>
         (Base(chan[n]) \in Commands => m < n) /\ chan[n].part # "response"

RespInv == \A n \in 1 .. Len(chan) : chan[n].part = "response" => command = Base(chan[n])

DeviceInv == ManagerInv /\ FileInv /\ PendInv /\ QuitInv /\ RespInv

-----------------------------------------------------------------------------
(* Sessions of the device's file system: a login and the QUIT of the       *)
(* session before it reach the device in the order in which they were      *)
(* started.                                                                *)

Sessions == {Own("login"), Own("quit")}

\* No login and no QUIT is about to be started.
Still(s) == Of(s, {"start"}, Sessions) = 0

\* What is pending will have ended before a loop goes on to start it.
Guarded(s) ==
  \A n \in 1 .. Len(s) : s[n].op = "startPending" => \E m \in 1 .. n - 1 : s[m].op = "failPending"

Waiting(q, S) == \E n \in 1 .. Len(q) : q[n] \in S
Behind(q) == \A m, n \in 1 .. Len(q) : q[m] = Own("login") /\ q[n] = Own("quit") => n < m

Starting(s) == s # <<>> /\ Head(s).op = "startPending"

\* onChannelConnected has come to its loop, or has two requests to start before it.
Emptying ==
  \/ At("startPending")
  \/ At("start") /\ Starting(Rest)
  \/ At("start") /\ Rest # <<>> /\ Head(Rest).op = "start" /\ Starting(Tail(Rest))

Welcome == At("finished") /\ Head(stack).ok /\ This = Own("login")

OpenInv == login = "LoggedIn" \/ Welcome => session /\ ~Waiting(chan, {Own("quit")})

OrderInv ==
  /\ Behind(chan) /\ Behind(pending)
  /\ Waiting(pending, {Own("quit")}) => ~Waiting(chan, {Own("login")})
  /\ At("start") /\ This = Own("quit") =>
       /\ ~Waiting(chan, {Own("login")})
       /\ ~isConnected => ~Waiting(pending, {Own("login")})
  /\ At("start") /\ This = Own("login") /\ isConnected => ~Waiting(pending, {Own("quit")})

LoopInv ==
  /\ stack # <<>> => Still(Rest)
  /\ isConnected /\ Waiting(pending, Sessions) => Emptying
  /\ ~isConnected /\ ~isConnecting /\ Waiting(pending, Sessions) => Guarded(stack)

SessionInv == Stuck \/ (OpenInv /\ OrderInv /\ LoopInv)

-----------------------------------------------------------------------------
(* The ledger of stack s, and what function f adds to it when it is called. *)

FlyIn(s, S) == Count(pending, S) + Count(chan, Carrying(S)) + Of(s, InFlight, S)
Adds(f, ops, S) == IF f.op \in ops THEN Is(f.item, S) ELSE 0

\* Stacks t and s differ by functions that move no request.
Mutes(t, s) ==
  /\ t \in Seq(Suspended)
  /\ \A ops : ops \cap Mute = {} => (Holds(t, ops) <=> Holds(s, ops))
  /\ \A ops, S : ops \cap Mute = {} => Of(t, ops, S) = Of(s, ops, S)

\* A step that moves none.
Quiet ==
  /\ UNCHANGED <<fsCtrl, fsData, login, status>>
  /\ \A ops \in SUBSET Control : Holds(stack', ops) <=> Holds(stack, ops)
  /\ \A ops \in SUBSET Control : \A S : Of(stack', ops, S) = Of(stack, ops, S)
  /\ \A S \in SUBSET Known : Fly(S)' = Fly(S)

-----------------------------------------------------------------------------
(* What a step leaves of the stack, and what it starts.                     *)

\* What functions on top of others leave as it was.
Above(t, s) ==
  /\ t \in Seq(Suspended)
  /\ Clean(s) => Clean(t)
  /\ Holds(s, {"startPending"}) => Holds(t, {"startPending"})

Sound(f) == f.op = "start" => f.item # Own("quit")

Rises(t, s) == t \in Seq(Suspended) /\ (Still(s) => Still(t)) /\ (Guarded(s) => Guarded(t))

Light(f) == f.op # "startPending" /\ (f.op = "start" => f.item \notin Sessions)

\* Functions on top of others that leave the connection alone.
Over(t, s) ==
  /\ t \in Seq(Suspended)
  /\ \A ops : ops \cap Plain = {} => (Holds(t, ops) <=> Holds(s, ops))

\* Functions on top of others that start neither a login, nor a QUIT, nor what
\* is pending; the plain ones leave the connection alone too.
On(plain, t, s) == Above(t, s) /\ Rises(t, s) /\ (plain => Over(t, s))
Mild(plain, f)  == Light(f) /\ (plain => f.op \in Plain)

\* The stack while the function that runs calls others, and as it returns.
Calling(plain) == On(plain, stack', stack) /\ (stack = <<>> \/ \E op : At(op) /\ op # "start")
Returning(plain) ==
  \E op : /\ At(op)
          /\ op = "failPending" => stack' = Rest /\ pending' = <<>>
          /\ op # "failPending" => On(plain, stack', Rest)
          /\ op = "startPending" => pending = <<>>

\* The steps that start something else than that.
Quits   == ExecNextFSRequest /\ fsCtrl = <<>> /\ fsData = <<>> /\ stack' = Push(Call("start", Own("quit")), Rest)
LogsIn  == ExecNextFSRequest /\ login = "NotLoggedIn" /\ stack' = Push(Call("start", Own("login")), Rest)
Begins  == StartPending /\ pending # <<>>

\* The steps that leave what the manager thinks of the connection as it is, and
\* leave the functions suspended that would change it.
PlainStep ==
  \/ \E r \in Requests : AppExec(r)
  \/ Start /\ isConnected
  \/ ExecNextFSRequest \/ StartData \/ CtrlDone \/ DataDone
  \/ Finished \/ Rejected \/ FailFS \/ SlotReturns \/ ErrorFinish
  \/ Answer \/ NotConnected \/ Timeout \/ LinkBreaks \/ Noise

\* What a step starts of sessions.
Gentle  == Still(stack') /\ (Guarded(stack) /\ pending' # <<>> => Guarded(stack'))

=============================================================================
