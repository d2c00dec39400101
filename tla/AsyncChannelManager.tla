------------------------- MODULE AsyncChannelManager -------------------------
(***************************************************************************)
(* The manager of an asynchronous channel (class AsyncChannelManager):     *)
(* requests that wait for the connection, the two queues of file system    *)
(* requests, the login that goes before them and the QUIT that follows.    *)
(*                                                                         *)
(* Under it is the channel, seen from above: a queue of exchanges, each of *)
(* which ends once (RequestService), and the calls it makes into the       *)
(* manager in the middle of its own functions.  As in AsyncChannel, a      *)
(* signal is a call and `stack` is the call stack: the function whose      *)
(* frame is the head runs next, "slot" is application code, and the event  *)
(* loop runs when the stack is empty.                                      *)
(*                                                                         *)
(* An exchange is the whole sequence of packets of one ReadParamRequest or *)
(* WriteParamRequest, and one exchange with SP_FILE_DATA stands for all    *)
(* the exchanges that move the contents of a file.                         *)
(***************************************************************************)
EXTENDS Naturals, Sequences

CONSTANTS
  Requests,    \* the requests of the application, each executed at most once
  Kind,        \* the class of each, see Kinds
  Transport,   \* "tcp" or "vcom"
  MaxCalls,    \* bound: calls of connectToDevice(), disconnectFromDevice()
               \* and setChannel() by the application
  MayReplace   \* whether the application calls setChannel() again

\* A parameter request; a MultipleRequest of no requests; a command to the
\* file system with an answer to read; the two kinds of file transfer.
Kinds == {"plain", "empty", "ctrl", "download", "upload"}

ASSUME ManagerAssumption ==
  /\ Kind \in [Requests -> Kinds]
  /\ Transport \in {"tcp", "vcom"}
  /\ MaxCalls \in Nat
  /\ MayReplace \in BOOLEAN
  /\ "manager" \notin Requests

VARIABLES
  isConnected,   \* m_isConnected
  isConnecting,  \* m_isConnecting
  pending,       \* m_pendingRequestQueue
  fsCtrl,        \* m_fsCtrlQueue
  fsData,        \* m_fsDataQueue
  login,         \* m_fsLoginState
  gotRW,         \* m_gotRWBuffersSize
  gotFile,       \* m_gotFileDataBuffersSize
  link,          \* the channel's connection
  pendingClose,  \* the connection being made is to be closed at once
  chan,          \* the exchanges the channel has not ended yet
  session,       \* the device has a user logged in to its file system
  command,       \* the last command the device's file system was given
  file,          \* whose file the device has open
  status,        \* what became of each request
  calls,         \* calls counted by MaxCalls
  stack          \* the call stack

connVars    == <<isConnected, isConnecting>>
fsVars      == <<fsCtrl, fsData, login>>
gotVars     == <<gotRW, gotFile>>
managerVars == <<connVars, pending, fsVars, gotVars>>
linkVars    == <<link, pendingClose>>
deviceVars  == <<session, command, file>>
vars == <<managerVars, linkVars, chan, deviceVars, status, calls, stack>>

(***************************************************************************)
(* An item is one IRequest object: a request of the application ("run"),   *)
(* one that a file transfer makes on the way, or one of the manager's own. *)
(* As an exchange it also says which part of it the channel carries.       *)
(***************************************************************************)
Manager == "manager"
OwnSteps == {"login", "quit", "master", "slave", "dimension"}
Items == [req : Requests, step : {"run", "open", "attr", "data", "close"},
          part : {"command", "response"}]
         \cup [req : {Manager}, step : OwnSteps, part : {"command"}]

Item(r, step) == [req |-> r, step |-> step, part |-> "command"]
Own(step)     == Item(Manager, step)
Nothing       == Own("quit")

IsUser(i)     == i.step = "run"
IsTransfer(i) == IsUser(i) /\ Kind[i.req] \in {"download", "upload"}
IsCommand(i)  == i.step \in {"open", "attr", "close"} \/ (IsUser(i) /\ Kind[i.req] = "ctrl")

\* A file system command whose answer is read with a second exchange.
ReadsResponse(i) == i.part = "command" /\ IsCommand(i) /\ i.step \in {"run", "attr"}

Ops == {"slot", "start", "finished", "rejected", "execCtrl", "execData", "execAny",
        "startData", "ctrlDone", "dataDone", "failFS", "onConnected", "startPending",
        "onDisconnected", "onError", "failPending", "errorFinish", "errorClose",
        "drain", "socketAbort", "hangUp", "closed"}
Frames == [op : Ops, item : Items, ok : BOOLEAN]
Call(op, i) == [op |-> op, item |-> i, ok |-> FALSE]
Do(op)      == Call(op, Nothing)
End(i, ok)  == [op |-> "finished", item |-> [i EXCEPT !.part = "command"], ok |-> ok]
Push(frame, rest) == <<frame>> \o rest

At(op)  == stack # <<>> /\ Head(stack).op = op
Rest    == Tail(stack)
This    == Head(stack).item
AppTurn == stack = <<>> \/ At("slot")
Idling  == stack = <<>>

Init ==
  /\ isConnected = FALSE /\ isConnecting = FALSE
  /\ pending = <<>> /\ fsCtrl = <<>> /\ fsData = <<>>
  /\ login = "NotLoggedIn"
  /\ gotRW = FALSE /\ gotFile = FALSE
  /\ link = "down" /\ pendingClose = FALSE /\ chan = <<>>
  /\ session = FALSE /\ command = Nothing /\ file = Manager
  /\ status = [r \in Requests |-> "new"]
  /\ calls = 0
  /\ stack = <<>>

-----------------------------------------------------------------------------
(***************************************************************************)
(* The channel.  `rest` is what is left of the stack when it returns.      *)
(***************************************************************************)

\* setError: error() goes to the manager, then the oldest exchange ends, and
\* a transport error closes the connection.
ChannelError(rest) ==
  stack' = <<Do("onError"), Do("errorFinish"), Do("errorClose")>> \o rest

\* The channel's connectToDevice: asynchronous over TCP, where a closing
\* socket refuses; done when it returns over a serial port.
ChannelConnect(rest) ==
  \/ /\ link \in {"up", "connecting"}
     /\ stack' = rest
     /\ UNCHANGED link
  \/ Transport = "tcp" /\ link = "down" /\ link' = "connecting" /\ stack' = rest
  \/ Transport = "tcp" /\ link = "closing" /\ ChannelError(rest) /\ UNCHANGED link
  \/ Transport = "vcom" /\ link = "down" /\ link' = "up" /\ stack' = Push(Do("onConnected"), rest)
  \/ Transport = "vcom" /\ link = "down" /\ ChannelError(rest) /\ UNCHANGED link

\* doDisconnectFromDevice: a socket closes at once or when its data is
\* written, one still connecting later; a serial port is up until close()
\* has reported the end.
DoDisconnect(rest) ==
  \/ /\ Transport = "tcp" /\ link = "up"
     /\ \/ link' = "down" /\ stack' = Push(Do("drain"), rest)
        \/ link' = "closing" /\ stack' = rest
     /\ UNCHANGED pendingClose
  \/ /\ Transport = "vcom" /\ link = "up"
     /\ stack' = <<Do("drain"), Do("closed")>> \o rest
     /\ UNCHANGED linkVars
  \/ /\ link # "up"
     /\ pendingClose' = (pendingClose \/ link = "connecting")
     /\ stack' = rest
     /\ UNCHANGED link

\* finishNext and the slot of the request: a command that went well is
\* followed by the reading of its answer, anything else ends.
ChannelFinish(ok, rest) ==
  \/ chan = <<>> /\ stack' = rest /\ UNCHANGED chan
  \/ /\ chan # <<>> /\ ok /\ ReadsResponse(Head(chan))
     /\ chan' = Append(Tail(chan), [Head(chan) EXCEPT !.part = "response"])
     /\ stack' = rest
  \/ /\ chan # <<>> /\ ~(ok /\ ReadsResponse(Head(chan)))
     /\ chan' = Tail(chan)
     /\ stack' = Push(End(Head(chan), ok), rest)

\* What the device does with an exchange it accepts.
DeviceServes(i) ==
  /\ session' = IF i.step \in {"login", "quit"} THEN i.step = "login" ELSE session
  /\ command' = IF (IsCommand(i) /\ i.part = "command") \/ i.step \in {"login", "quit"} THEN i ELSE command
  /\ file' = CASE i.step = "open"  -> i.req
               [] i.step = "close" -> Manager
               [] OTHER            -> file

-----------------------------------------------------------------------------
(***************************************************************************)
(* The functions of the manager and of its requests.                       *)
(***************************************************************************)

\* connectToDevice.
ConnectToDevice(rest) ==
  \/ (isConnected \/ isConnecting) /\ stack' = rest /\ UNCHANGED <<isConnecting, link>>
  \/ ~isConnected /\ ~isConnecting /\ isConnecting' = TRUE /\ ChannelConnect(rest)

\* Faulty variants: a request starts at once when somebody is logged in.
AddCtrlAtOnce(i, rest) ==
  /\ fsCtrl' = Append(fsCtrl, i)
  /\ stack' = CASE login = "LoggedIn" -> Push(Call("start", i), rest)
                [] fsCtrl = <<>>      -> Push(Do("execCtrl"), rest)
                [] OTHER              -> rest

AddDataAtOnce(i, rest) ==
  /\ fsData' = Append(fsData, i)
  /\ stack' = CASE login = "LoggedIn" -> Push(Call("start", i), rest)
                [] fsData = <<>>      -> Push(Do("execData"), rest)
                [] OTHER              -> rest

\* addFSCtrlRequest and addFSDataRequest: only the first one in its queue
\* starts now.
AddCtrl(i, rest) ==
  /\ fsCtrl' = Append(fsCtrl, i)
  /\ stack' = IF fsCtrl = <<>> THEN Push(Do("execCtrl"), rest) ELSE rest

AddData(i, rest) ==
  /\ fsData' = Append(fsData, i)
  /\ stack' = IF fsData = <<>> THEN Push(Do("execData"), rest) ELSE rest

\* start: run the request, or keep it until the device is connected.  A file
\* transfer begins with the command that opens the file, or ends at once when
\* its local file cannot be opened.
Start ==
  /\ At("start")
  /\ \/ /\ ~isConnected
        /\ pending' = Append(pending, This)
        /\ ConnectToDevice(Rest)
        /\ UNCHANGED <<isConnected, fsCtrl, chan>>
     \/ /\ isConnected
        /\ \/ /\ ~IsTransfer(This) /\ ~(IsUser(This) /\ Kind[This.req] = "empty")
              /\ chan' = Append(chan, This)
              /\ stack' = Rest
              /\ UNCHANGED fsCtrl
           \/ IsTransfer(This) /\ AddCtrl(Item(This.req, "open"), Rest) /\ UNCHANGED chan
           \/ /\ IsUser(This) /\ Kind[This.req] \in {"empty", "upload"}
              /\ stack' = Push(End(This, Kind[This.req] = "empty"), Rest)
              /\ UNCHANGED <<fsCtrl, chan>>
        /\ UNCHANGED <<connVars, pending, link>>
  /\ UNCHANGED <<fsData, login, gotVars, pendingClose, deviceVars, status, calls>>

\* Faulty variant: the login is taken to last until QUIT is answered.
QuitLater ==
  /\ UNCHANGED login
  /\ stack' = Push(Call("start", Own("quit")), Rest)

\* Nobody needs the file system any more: whatever becomes of QUIT, the next
\* request has to log in again.
Quit ==
  /\ login' = "NotLoggedIn"
  /\ stack' = Push(Call("start", Own("quit")), Rest)

\* execNextFSRequest: QUIT when both queues are empty, else the login first,
\* else the heads of the queues of this type.
ExecFS(type) ==
  /\ \/ fsCtrl = <<>> /\ fsData = <<>> /\ Quit
     \/ /\ fsCtrl # <<>> \/ fsData # <<>>
        /\ \/ login = "LoggingIn" /\ stack' = Rest /\ UNCHANGED login
           \/ /\ login = "NotLoggedIn" /\ login' = "LoggingIn"
              /\ stack' = Push(Call("start", Own("login")), Rest)
           \/ /\ login = "LoggedIn"
              /\ stack' = (IF "ctrl" \in type /\ fsCtrl # <<>>
                             THEN <<Call("start", Head(fsCtrl))>> ELSE <<>>)
                          \o (IF "data" \in type THEN <<Do("startData")>> ELSE <<>>) \o Rest
              /\ UNCHANGED login
  /\ UNCHANGED <<connVars, pending, fsCtrl, fsData, gotVars, linkVars, chan, deviceVars,
                 status, calls>>

ExecNextFSRequest ==
  \/ At("execCtrl") /\ ExecFS({"ctrl"})
  \/ At("execData") /\ ExecFS({"data"})
  \/ At("execAny")  /\ ExecFS({"ctrl", "data"})

\* Faulty variant: one request at a time, the control request first.
StartDataElse ==
  /\ At("startData")
  /\ stack' = IF fsData = <<>> \/ fsCtrl # <<>> THEN Rest
              ELSE Push(Call("start", Head(fsData)), Rest)
  /\ UNCHANGED <<managerVars, linkVars, chan, deviceVars, status, calls>>

\* The end of execNextFSRequest, after a control request was started.
StartData ==
  /\ At("startData")
  /\ stack' = IF fsData = <<>> THEN Rest ELSE Push(Call("start", Head(fsData)), Rest)
  /\ UNCHANGED <<managerVars, linkVars, chan, deviceVars, status, calls>>

\* Faulty variant: the next control request is left to the next exec().
CtrlDoneOnly ==
  /\ At("ctrlDone") /\ fsCtrl # <<>>
  /\ fsCtrl' = Tail(fsCtrl)
  /\ stack' = Rest
  /\ UNCHANGED <<connVars, pending, fsData, login, gotVars, linkVars, chan, deviceVars,
                 status, calls>>

\* onFSCtrlRequestFinished and onFSDataRequestFinished.
CtrlDone ==
  /\ At("ctrlDone") /\ fsCtrl # <<>>
  /\ fsCtrl' = Tail(fsCtrl)
  /\ stack' = Push(Do("execCtrl"), Rest)
  /\ UNCHANGED <<connVars, pending, fsData, login, gotVars, linkVars, chan, deviceVars,
                 status, calls>>

DataDone ==
  /\ At("dataDone") /\ fsData # <<>>
  /\ fsData' = Tail(fsData)
  /\ stack' = Push(Do("execData"), Rest)
  /\ UNCHANGED <<connVars, pending, fsCtrl, login, gotVars, linkVars, chan, deviceVars,
                 status, calls>>

\* finish() of a request of the application: its slots, then the manager's,
\* which was connected when the request was started.
Finish(r, started, rest) ==
  /\ status' = [status EXCEPT ![r] = "finished"]
  /\ stack' = Push(Do("slot"),
       CASE started /\ Kind[r] = "ctrl"                    -> Push(Call("ctrlDone", Item(r, "run")), rest)
         [] started /\ Kind[r] \in {"download", "upload"} -> Push(Call("dataDone", Item(r, "run")), rest)
         [] OTHER                                          -> rest)

FinishUser(started) ==
  /\ IsUser(This)
  /\ Finish(This.req, started, Rest)
  /\ UNCHANGED <<managerVars, linkVars, chan, deviceVars, calls>>

\* The callbacks of a file transfer: what follows each of its requests, before
\* the manager hears of it.  Without an open file there is nothing to close.
FinishStep(started) ==
  /\ This.req \in Requests /\ ~IsUser(This)
  /\ LET r    == This.req
         ok   == Head(stack).ok
         rest == IF started /\ IsCommand(This) THEN Push(Call("ctrlDone", This), Rest) ELSE Rest
     IN  \/ /\ This.step = "close" \/ (This.step = "open" /\ ~ok)
            /\ Finish(r, TRUE, rest)
            /\ UNCHANGED fsCtrl
         \/ /\ This.step = "data" \/ (This.step = "attr" /\ ~ok)
            /\ AddCtrl(Item(r, "close"), rest)
            /\ UNCHANGED status
         \/ /\ ok /\ This.step = "open" /\ Kind[r] = "download"
            /\ AddCtrl(Item(r, "attr"), rest)
            /\ UNCHANGED status
         \/ /\ ok /\ (This.step = "attr" \/ (This.step = "open" /\ Kind[r] = "upload"))
            /\ stack' = Push(Call("start", Item(r, "data")), rest)
            /\ UNCHANGED <<fsCtrl, status>>
  /\ UNCHANGED <<connVars, pending, fsData, login, gotVars, linkVars, chan, deviceVars, calls>>

\* The functors the manager gives to its own requests.
FinishOwn ==
  /\ This.req = Manager
  /\ LET ok == Head(stack).ok
     IN  /\ login' = IF This.step = "login"
                       THEN IF ok THEN "LoggedIn" ELSE "NotLoggedIn" ELSE login
         /\ gotRW' = (gotRW \/ (This.step = "slave" /\ ok))
         /\ gotFile' = (gotFile \/ (This.step = "dimension" /\ ok))
         /\ stack' = CASE This.step = "login" /\ ok  -> Push(Do("execAny"), Rest)
                       [] This.step = "login" /\ ~ok -> Push(Do("failFS"), Rest)
                       [] This.step = "master" /\ ok -> Push(Call("start", Own("slave")), Rest)
                       [] OTHER                      -> Rest
  /\ UNCHANGED <<connVars, pending, fsCtrl, fsData, linkVars, chan, deviceVars, status, calls>>

Finished == At("finished") /\ (FinishUser(TRUE) \/ FinishStep(TRUE) \/ FinishOwn)

\* Faulty variant: the manager hears of requests it never started.
RejectedAsStarted == At("rejected") /\ (FinishUser(TRUE) \/ FinishStep(TRUE))

Rejected == At("rejected") /\ (FinishUser(FALSE) \/ FinishStep(FALSE))

\* The login failed: every queued file system request ends, the control
\* requests first.
FailFS ==
  /\ At("failFS")
  /\ \/ /\ fsCtrl # <<>>
        /\ fsCtrl' = Tail(fsCtrl)
        /\ stack' = Push(Call("rejected", Head(fsCtrl)), stack)
        /\ UNCHANGED fsData
     \/ /\ fsCtrl = <<>> /\ fsData # <<>>
        /\ fsData' = Tail(fsData)
        /\ stack' = Push(Call("rejected", Head(fsData)), stack)
        /\ UNCHANGED fsCtrl
     \/ /\ fsCtrl = <<>> /\ fsData = <<>>
        /\ stack' = Rest
        /\ UNCHANGED <<fsCtrl, fsData>>
  /\ UNCHANGED <<connVars, pending, login, gotVars, linkVars, chan, deviceVars, status, calls>>
-----------------------------------------------------------------------------
(* The manager's slots for the channel's signals. *)

\* Faulty variant: the attempt is not noted as over.
EstablishedOnly == isConnected' = TRUE /\ UNCHANGED isConnecting

Established == isConnected' = TRUE /\ isConnecting' = FALSE

\* onChannelConnected: ask for the buffer sizes that are not known yet, start
\* what is pending, emit connectedToDevice().
OnChannelConnected ==
  /\ At("onConnected")
  /\ Established
  /\ stack' = (IF gotRW THEN <<>> ELSE <<Call("start", Own("master"))>>)
              \o (IF gotFile THEN <<>> ELSE <<Call("start", Own("dimension"))>>)
              \o Push(Do("startPending"), Rest)
  /\ UNCHANGED <<pending, fsVars, gotVars, linkVars, chan, deviceVars, status, calls>>

StartPending ==
  /\ At("startPending")
  /\ \/ /\ pending # <<>>
        /\ pending' = Tail(pending)
        /\ stack' = Push(Call("start", Head(pending)), stack)
     \/ /\ pending = <<>>
        /\ stack' = Push(Do("slot"), Rest)
        /\ UNCHANGED pending
  /\ UNCHANGED <<connVars, fsVars, gotVars, linkVars, chan, deviceVars, status, calls>>

OnChannelDisconnected ==
  /\ At("onDisconnected")
  /\ isConnected' = FALSE
  /\ stack' = Push(Do("slot"), Rest)
  /\ UNCHANGED <<isConnecting, pending, fsVars, gotVars, linkVars, chan, deviceVars, status, calls>>

\* Faulty variant: what is pending outlives the failed connection.
OnChannelErrorKeeps ==
  /\ At("onError")
  /\ isConnecting' = FALSE
  /\ stack' = Rest
  /\ UNCHANGED <<isConnected, pending, fsVars, gotVars, linkVars, chan, deviceVars, status, calls>>

\* onChannelError: only an error while connecting concerns the manager; it
\* ends whatever is pending.
OnChannelError ==
  /\ At("onError")
  /\ isConnecting' = FALSE
  /\ stack' = IF isConnecting THEN Push(Do("failPending"), Rest) ELSE Rest
  /\ UNCHANGED <<isConnected, pending, fsVars, gotVars, linkVars, chan, deviceVars, status, calls>>

FailPending ==
  /\ At("failPending")
  /\ \/ /\ pending # <<>>
        /\ pending' = Tail(pending)
        /\ stack' = Push(End(Head(pending), FALSE), stack)
     \/ /\ pending = <<>>
        /\ stack' = Rest
        /\ UNCHANGED pending
  /\ UNCHANGED <<connVars, fsVars, gotVars, linkVars, chan, deviceVars, status, calls>>

-----------------------------------------------------------------------------
(* The rest of a function of the channel whose call has returned. *)

ErrorFinish ==
  /\ At("errorFinish") /\ ChannelFinish(FALSE, Rest)
  /\ UNCHANGED <<managerVars, linkVars, deviceVars, status, calls>>

ErrorClose ==
  /\ At("errorClose") \/ At("hangUp")
  /\ DoDisconnect(Rest)
  /\ UNCHANGED <<managerVars, chan, deviceVars, status, calls>>

\* onDisconnectedFromDevice: every exchange ends, then the manager is told.
Drain ==
  /\ At("drain")
  /\ \/ chan # <<>> /\ ChannelFinish(FALSE, stack)
     \/ chan = <<>> /\ stack' = Push(Do("onDisconnected"), Rest) /\ UNCHANGED chan
  /\ UNCHANGED <<managerVars, linkVars, deviceVars, status, calls>>

\* A socket closes itself after an error of the peer; a connection that was
\* begun in between is not wanted any more.
SocketAbort ==
  /\ At("socketAbort")
  /\ \/ /\ link \in {"up", "closing"}
        /\ link' = "down"
        /\ stack' = Push(Do("drain"), Rest)
        /\ UNCHANGED pendingClose
     \/ /\ link \in {"connecting", "down"}
        /\ pendingClose' = (pendingClose \/ link = "connecting")
        /\ stack' = Rest
        /\ UNCHANGED link
  /\ UNCHANGED <<managerVars, chan, deviceVars, status, calls>>

Closed ==
  /\ At("closed")
  /\ link' = "down"
  /\ stack' = Rest
  /\ UNCHANGED <<managerVars, pendingClose, chan, deviceVars, status, calls>>

SlotReturns ==
  /\ At("slot")
  /\ stack' = Rest
  /\ UNCHANGED <<managerVars, linkVars, chan, deviceVars, status, calls>>

Resume ==
  \/ Start \/ ExecNextFSRequest \/ StartData \/ CtrlDone \/ DataDone
  \/ Finished \/ Rejected \/ FailFS
  \/ OnChannelConnected \/ StartPending \/ OnChannelDisconnected \/ OnChannelError \/ FailPending
  \/ ErrorFinish \/ ErrorClose \/ Drain \/ SocketAbort \/ Closed \/ SlotReturns

-----------------------------------------------------------------------------
(* Calls of the application. *)

\* Faulty variant: a file transfer is taken for a control request.
AppExecUnsorted(r) ==
  /\ AppTurn /\ status[r] = "new"
  /\ status' = [status EXCEPT ![r] = "waiting"]
  /\ AddCtrl(Item(r, "run"), stack)
  /\ UNCHANGED <<connVars, pending, fsData, login, gotVars, linkVars, chan, deviceVars, calls>>

\* exec; the application has connected its slots to the request before.
AppExec(r) ==
  /\ AppTurn /\ status[r] = "new"
  /\ status' = [status EXCEPT ![r] = "waiting"]
  /\ LET i == Item(r, "run")
     IN  \/ Kind[r] = "ctrl" /\ AddCtrl(i, stack) /\ UNCHANGED fsData
         \/ Kind[r] \in {"download", "upload"} /\ AddData(i, stack) /\ UNCHANGED fsCtrl
         \/ /\ Kind[r] \in {"plain", "empty"}
            /\ stack' = Push(Call("start", i), stack)
            /\ UNCHANGED <<fsCtrl, fsData>>
  /\ UNCHANGED <<connVars, pending, login, gotVars, linkVars, chan, deviceVars, calls>>

AppConnect ==
  /\ AppTurn /\ calls < MaxCalls
  /\ calls' = calls + 1
  /\ ConnectToDevice(stack)
  /\ UNCHANGED <<isConnected, pending, fsVars, gotVars, pendingClose, chan, deviceVars, status>>

AppDisconnect ==
  /\ AppTurn /\ calls < MaxCalls /\ link = "up"
  /\ calls' = calls + 1
  /\ DoDisconnect(stack)
  /\ UNCHANGED <<managerVars, chan, deviceVars, status>>

\* setChannel, called between events, with the old channel destroyed: what it
\* had queued is gone with it.  The new one leads to the same device or to one
\* where nobody is logged in; the manager's login state stays as it was.
SetChannel ==
  /\ MayReplace /\ Idling /\ calls < MaxCalls
  /\ calls' = calls + 1
  /\ isConnected' = FALSE /\ isConnecting' = FALSE
  /\ gotRW' = FALSE /\ gotFile' = FALSE
  /\ link' = "down" /\ pendingClose' = FALSE /\ chan' = <<>>
  /\ \/ UNCHANGED deviceVars
     \/ session' = FALSE /\ command' = Nothing /\ file' = Manager
  /\ stack' = <<Do("slot")>>
  /\ UNCHANGED <<pending, fsVars, status>>

App == (\E r \in Requests : AppExec(r)) \/ AppConnect \/ AppDisconnect \/ SetChannel

-----------------------------------------------------------------------------
(* The event loop: what the channel reports. *)

\* The device answers, with its consent or with an error code.
Answer ==
  /\ Idling /\ link \in {"up", "closing"} /\ chan # <<>>
  /\ \/ ChannelFinish(TRUE, <<>>) /\ DeviceServes(Head(chan))
     \/ ChannelFinish(FALSE, <<>>) /\ UNCHANGED deviceVars
  /\ UNCHANGED <<managerVars, linkVars, status, calls>>

\* The channel takes up an exchange without a connection.
NotConnected ==
  /\ Idling /\ link # "up" /\ chan # <<>>
  /\ ChannelFinish(FALSE, <<>>)
  /\ UNCHANGED <<managerVars, linkVars, deviceVars, status, calls>>

\* No answer came in time: the device may have done the exchange or not.
Timeout ==
  /\ Idling /\ link \in {"up", "closing"} /\ chan # <<>>
  /\ ChannelError(<<>>)
  /\ DeviceServes(Head(chan)) \/ UNCHANGED deviceVars
  /\ UNCHANGED <<managerVars, linkVars, chan, status, calls>>

\* The peer closes the connection or the port reports an error.
LinkBreaks ==
  /\ Idling /\ link \in {"up", "closing"}
  /\ ChannelError(IF Transport = "tcp" THEN <<Do("socketAbort")>> ELSE <<>>)
  /\ UNCHANGED <<managerVars, linkVars, chan, deviceVars, status, calls>>

\* Noise on the serial line is an error that closes nothing.
Noise ==
  /\ Idling /\ Transport = "vcom" /\ link = "up"
  /\ stack' = <<Do("onError"), Do("errorFinish")>>
  /\ UNCHANGED <<managerVars, linkVars, chan, deviceVars, status, calls>>

Connected ==
  /\ Idling /\ link = "connecting"
  /\ link' = "up" /\ pendingClose' = FALSE
  /\ stack' = IF pendingClose THEN <<Do("onConnected"), Do("hangUp")>> ELSE <<Do("onConnected")>>
  /\ UNCHANGED <<managerVars, chan, deviceVars, status, calls>>

ConnectFails ==
  /\ Idling /\ link = "connecting"
  /\ link' = "down" /\ pendingClose' = FALSE
  /\ ChannelError(<<>>)
  /\ UNCHANGED <<managerVars, chan, deviceVars, status, calls>>

CloseEnds ==
  /\ Idling /\ link = "closing"
  /\ link' = "down"
  /\ stack' = <<Do("drain")>>
  /\ UNCHANGED <<managerVars, pendingClose, chan, deviceVars, status, calls>>

Loop == Answer \/ NotConnected \/ Timeout \/ LinkBreaks \/ Noise \/ Connected \/ ConnectFails \/ CloseEnds

Next == App \/ Resume \/ Loop

\* Code that can run runs; the channel ends every exchange, as RequestService
\* promises, and a connection attempt ends.
Fairness ==
  /\ WF_vars(Resume)
  /\ WF_vars(Answer \/ NotConnected \/ Timeout)
  /\ WF_vars(Connected \/ ConnectFails)

Spec == Init /\ [][Next]_vars /\ Fairness

-----------------------------------------------------------------------------
(* Properties. *)

\* Every variable has its type; the queues of file system requests hold only
\* requests of their kind.
TypeOK ==
  /\ isConnected \in BOOLEAN /\ isConnecting \in BOOLEAN
  /\ pending \in Seq(Items) /\ chan \in Seq(Items)
  /\ fsCtrl \in Seq({i \in Items : IsCommand(i)})
  /\ fsData \in Seq({i \in Items : IsTransfer(i)})
  /\ login \in {"NotLoggedIn", "LoggingIn", "LoggedIn"}
  /\ gotRW \in BOOLEAN /\ gotFile \in BOOLEAN
  /\ link \in {"down", "connecting", "up", "closing"} /\ pendingClose \in BOOLEAN
  /\ session \in BOOLEAN /\ command \in Items /\ file \in Requests \cup {Manager}
  /\ status \in [Requests -> {"new", "waiting", "finished"}]
  /\ calls \in 0..MaxCalls
  /\ stack \in Seq(Frames)

\* How many functions are about to start or end item i.
Waits(q, i) == {n \in 1..Len(q) : q[n] = i}
Hops(i) ==
  {n \in 1..Len(stack) : stack[n].op \in {"start", "finished", "rejected"} /\ stack[n].item = i}
Carried(i) == Waits(chan, i) \cup Waits(chan, [i EXCEPT !.part = "response"])

OnItsWay(i) == Carried(i) # {} \/ Waits(pending, i) # {} \/ Hops(i) # {}

\* The file transfer r is between two of its requests' ends: its contents are on
\* their way, or a command of it waits in the control queue.
Proceeds(r) ==
  \/ \E step \in {"run", "data"} : OnItsWay(Item(r, step))
  \/ \E n \in 1..Len(fsCtrl) : fsCtrl[n].req = r

\* Between events nobody waits for a thing that nobody does: a login that is
\* waited for is on its way; without one, so is the head of each queue of file
\* system requests, as itself or, a transfer, as one of the requests it is made
\* of.  What is behind a head waits for its end (CtrlDone, DataDone).
NoLostFSRequest ==
  Idling =>
    /\ login = "LoggingIn" => OnItsWay(Own("login"))
    /\ fsCtrl # <<>> => OnItsWay(Own("login")) \/ OnItsWay(Head(fsCtrl))
    /\ fsData # <<>> => OnItsWay(Own("login")) \/ Proceeds(Head(fsData).req)

\* No request finishes twice: a function that ends it finds it waiting, and
\* the manager takes from a queue of file system requests the one that ended.
EndsOnce ==
  stack # <<>> =>
    /\ Head(stack).op \in {"finished", "rejected"} /\ IsUser(This) => status[This.req] = "waiting"
    /\ At("ctrlDone") => fsCtrl # <<>> /\ Head(fsCtrl) = This
    /\ At("dataDone") => fsData # <<>> /\ Head(fsData) = This

\* The device gets a file system command only from a user who is logged in,
\* although QUIT and the next login overlap with requests of other clients, as
\* long as the application keeps its channel (setChannel forgets no login).
CommandsInSession ==
  chan # <<>> /\ (IsCommand(Head(chan)) \/ Head(chan).step = "data") => session

\* The answer that is read is the answer to one's own command.
OwnResponse ==
  chan # <<>> /\ Head(chan).part = "response" =>
    command = [Head(chan) EXCEPT !.part = "command"]

\* The contents a transfer moves are those of the file it opened, on the channel
\* on which it opened it.
OwnFile == chan # <<>> /\ Head(chan).step = "data" => file = Head(chan).req

\* Between events the manager thinks it is connecting only while the channel
\* is, and requests are pending only then.
ConnectingIsReal ==
  Idling => /\ isConnecting => link = "connecting"
            /\ pending # <<>> => isConnecting

\* The loop of onChannelConnected without a connection, closed by a slot:
\* start() puts back what the loop takes from the queue, and nothing ends it.
Stuck ==
  /\ ~isConnected /\ isConnecting
  /\ \/ At("startPending") /\ pending # <<>>
     \/ At("start") /\ Rest # <<>> /\ Head(Rest).op = "startPending"

\* Over TCP, while the application keeps its channel, every request that was
\* executed finishes, unless the manager comes to loop as above.
EveryRequestFinishes ==
  Transport = "tcp" /\ ~MayReplace =>
    \A r \in Requests : (status[r] = "waiting") ~> (status[r] = "finished" \/ Stuck)
===============================================================================
