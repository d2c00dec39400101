--------------------------- MODULE AsyncTcpChannel ---------------------------
(***************************************************************************)
(* The asynchronous channel over TCP (class AsyncTcpChannel): the socket,  *)
(* the response timer, and the device at the other end.  The socket is     *)
(* Qt's: what it does when the code calls it, and when it emits connected, *)
(* errorOccurred, disconnected and readyRead, is modelled from how the     *)
(* code uses it.                                                           *)
(***************************************************************************)
EXTENDS AsyncChannel

CONSTANTS
  MaxConnects,   \* bound: calls of connectToHost() in one behaviour
  Faults         \* what may go wrong: a "writeFails" write(), a
                 \* "flushFails" flush(), a "split" answer

ASSUME TcpAssumption == MaxConnects \in Nat /\ Faults \subseteq {"writeFails", "flushFails", "split"}

VARIABLES
  socket,        \* m_socket->state(); "Connecting" covers the host lookup
  pendingClose,  \* disconnectFromHost() was called while connecting
  unflushed,     \* bytes wait in the socket's write buffer
  timer,         \* m_timer is running
  connects,      \* calls of connectToHost() so far
  atDevice,      \* requests the device is to answer on this connection
  inbox          \* pieces of answers on their way to the socket

tcpVars == <<socket, pendingClose, unflushed, timer, connects, atDevice, inbox>>
vars == <<channelVars, tcpVars>>

IsConnected == socket = "Connected"

Init ==
  /\ ChannelInit
  /\ socket = "Unconnected" /\ pendingClose = FALSE /\ unflushed = FALSE
  /\ timer = FALSE /\ connects = 0
  /\ atDevice = <<>> /\ inbox = <<>>

-----------------------------------------------------------------------------
\* abort: stop the timer, report a transport error.
Abort(rest) == timer' = FALSE /\ SetError("TransportError", rest)

\* Faulty variant: disconnected() comes before the socket is closed.
SocketClosedEarly(rest) ==
  /\ unflushed' = FALSE /\ atDevice' = <<>> /\ inbox' = <<>>
  /\ timer' = FALSE
  /\ OnDisconnected(rest)
  /\ UNCHANGED <<socket, pendingClose, connects>>

\* The socket is closed and emits disconnected(): onSocketDisconnected.
SocketClosed(rest) ==
  /\ socket' = "Unconnected" /\ unflushed' = FALSE
  /\ atDevice' = <<>> /\ inbox' = <<>>
  /\ timer' = FALSE
  /\ OnDisconnected(rest)
  /\ UNCHANGED <<pendingClose, connects>>

\* doDisconnectFromDevice: disconnectFromHost() closes at once when nothing is
\* left to write, waits for the write buffer when something is, and while
\* connecting only notes that the connection is not wanted any more.
DoDisconnect(rest) ==
  \/ socket = "Connected" /\ ~unflushed /\ SocketClosed(rest)
  \/ /\ ~(socket = "Connected" /\ ~unflushed)
     /\ socket' = IF socket = "Connected" THEN "Closing" ELSE socket
     /\ pendingClose' = (pendingClose \/ socket = "Connecting")
     /\ stack' = rest
     /\ UNCHANGED <<queueVars,
                    unflushed, timer, connects, atDevice, inbox>>

-----------------------------------------------------------------------------
(* Calls of the application. *)

AppExec == (\E kind \in RequestKinds : Exec(kind)) /\ UNCHANGED tcpVars

\* connectToDevice and doConnectToDevice; nothing happens when the socket is
\* connected or connecting.  A socket that is closing refuses with an error.
AppConnect ==
  /\ AppTurn /\ connects < MaxConnects
  /\ connects' = connects + 1
  /\ \/ /\ socket = "Unconnected"
        /\ socket' = "Connecting"
        /\ UNCHANGED <<channelVars, timer>>
     \/ /\ socket = "Closing"
        /\ Abort(stack)
        /\ UNCHANGED socket
  /\ UNCHANGED <<pendingClose, unflushed, atDevice, inbox>>

AppDisconnect == AppTurn /\ IsConnected /\ DoDisconnect(stack)

AppReturns == SlotReturns /\ UNCHANGED tcpVars

-----------------------------------------------------------------------------
(* The event loop: execNext, the timer and the socket's signals. *)

ExecNext ==
  \/ ExecNothing /\ UNCHANGED tcpVars
  \/ ~IsConnected /\ ExecNotConnected /\ UNCHANGED tcpVars

\* Faulty variant: the response timer is not started.
SendDataUntimed ==
  /\ IsConnected
  /\ ExecSend(<<>>)
  /\ unflushed' \in BOOLEAN
  /\ atDevice' = IF NeedsResponse(Head(queue)) THEN Append(atDevice, Head(queue)) ELSE atDevice
  /\ UNCHANGED <<socket, pendingClose, timer, connects, inbox>>

\* doSendData when write() and flush() succeed; some bytes may stay in the
\* write buffer.
SendData ==
  /\ IsConnected
  /\ ExecSend(<<>>)
  /\ timer' = TRUE
  /\ unflushed' \in BOOLEAN
  /\ atDevice' = IF NeedsResponse(Head(queue)) THEN Append(atDevice, Head(queue)) ELSE atDevice
  /\ UNCHANGED <<socket, pendingClose, connects, inbox>>

\* doSendData when write() refuses the data: abort and return.
WriteFails ==
  /\ "writeFails" \in Faults
  /\ IsConnected
  /\ ExecSend(<<Slot, [op |-> "errorFinish", err |-> "TransportError"]>>)
  /\ timer' = FALSE
  /\ UNCHANGED <<socket, pendingClose, unflushed, connects, atDevice, inbox>>

\* doSendData when flush() finds the connection broken: it emits
\* errorOccurred(), which is abort(), aborts the socket, and returns to
\* doSendData, which starts the timer all the same.
FlushFails ==
  /\ "flushFails" \in Faults
  /\ IsConnected
  /\ ExecSend(<<Slot, [op |-> "errorFinish", err |-> "TransportError"],
                Frame("socketAbort"), Frame("startTimer")>>)
  /\ timer' = FALSE
  /\ unflushed' = TRUE
  /\ UNCHANGED <<socket, pendingClose, connects, atDevice, inbox>>

\* Faulty variant: a timeout is ignored while the socket closes.
TimeoutWhenConnected ==
  /\ Idling /\ timer /\ IsConnected /\ Abort(stack)
  /\ UNCHANGED <<socket, pendingClose, unflushed, connects, atDevice, inbox>>

\* onTimeout.
Timeout ==
  /\ Idling /\ timer /\ Abort(stack)
  /\ UNCHANGED <<socket, pendingClose, unflushed, connects, atDevice, inbox>>

SocketConnected ==
  /\ Idling /\ socket = "Connecting"
  /\ socket' = "Connected"
  /\ OnConnected(IF pendingClose THEN <<Frame("hangUp")>> ELSE <<>>)
  /\ pendingClose' = FALSE
  /\ UNCHANGED <<unflushed, timer, connects, atDevice, inbox>>

ConnectFails ==
  /\ Idling /\ socket = "Connecting"
  /\ socket' = "Unconnected"
  /\ pendingClose' = FALSE
  /\ Abort(stack)
  /\ UNCHANGED <<unflushed, connects, atDevice, inbox>>

\* The peer closes or resets the connection: errorOccurred() first, then the
\* socket disconnects itself.
PeerCloses ==
  /\ Idling /\ socket \in {"Connected", "Closing"}
  /\ Abort(<<Frame("socketAbort")>>)
  /\ UNCHANGED <<socket, pendingClose, unflushed, connects, atDevice, inbox>>

\* The write buffer drains; a closing socket closes then.
Flushed ==
  /\ Idling /\ unflushed
  /\ \/ socket = "Closing" /\ SocketClosed(stack)
     \/ /\ socket = "Connected"
        /\ unflushed' = FALSE
        /\ UNCHANGED <<channelVars, socket, pendingClose, timer, connects, atDevice, inbox>>

DeviceAnswers ==
  /\ Idling /\ atDevice # <<>> /\ ~unflushed
  /\ atDevice' = Tail(atDevice)
  /\ \/ inbox' = inbox \o Whole(Head(atDevice))
     \/ "split" \in Faults /\ inbox' = inbox \o Split(Head(atDevice))
  /\ UNCHANGED <<channelVars, socket, pendingClose, unflushed, timer, connects>>

\* Faulty variant: the answer does not stop the response timer.
ReadyReadTimed ==
  /\ Idling
  /\ \E k \in 1..Len(inbox) :
       /\ OnReceivedData(SubSeq(inbox, 1, k))
       /\ inbox' = SubSeq(inbox, k + 1, Len(inbox))
  /\ UNCHANGED <<socket, pendingClose, unflushed, timer, connects, atDevice>>

\* onSocketReadyRead: everything that is there is one answer.  The socket emits
\* readyRead only when there is data, so the abort on none is not taken.
ReadyRead ==
  /\ Idling
  /\ \E k \in 1..Len(inbox) :
       /\ OnReceivedData(SubSeq(inbox, 1, k))
       /\ inbox' = SubSeq(inbox, k + 1, Len(inbox))
  /\ timer' = FALSE
  /\ UNCHANGED <<socket, pendingClose, unflushed, connects, atDevice>>

-----------------------------------------------------------------------------
(* The rest of a function whose call has returned. *)

ErrorClose == At("errorClose") /\ DoDisconnect(Tail(stack))

\* The socket closes itself after errorOccurred(): abort() in flush(),
\* disconnectFromHost() when the peer is gone.  A connection the slots began
\* in between is marked unwanted.
SocketAbort ==
  /\ At("socketAbort")
  /\ \/ socket \in {"Connected", "Closing"} /\ SocketClosed(Tail(stack))
     \/ /\ socket \in {"Connecting", "Unconnected"}
        /\ pendingClose' = (pendingClose \/ socket = "Connecting")
        /\ Return
        /\ UNCHANGED <<queueVars,
                       socket, unflushed, timer, connects, atDevice, inbox>>

\* A connection nobody wants any more is closed once connected() has been
\* handled.
HangUp == At("hangUp") /\ DoDisconnect(Tail(stack))

StartTimer ==
  /\ At("startTimer") /\ Return
  /\ timer' = TRUE
  /\ UNCHANGED <<queueVars,
                 socket, pendingClose, unflushed, connects, atDevice, inbox>>

Resume ==
  \/ (ErrorFinish \/ Drain \/ Unanswered) /\ UNCHANGED tcpVars
  \/ ErrorClose \/ SocketAbort \/ HangUp \/ StartTimer

App  == AppExec \/ AppConnect \/ AppDisconnect
Loop == ExecNext \/ SendData \/ WriteFails \/ FlushFails \/ Timeout
Net  == SocketConnected \/ ConnectFails \/ PeerCloses \/ Flushed \/ DeviceAnswers \/ ReadyRead

Next == App \/ AppReturns \/ Loop \/ Net \/ Resume

\* Code that can run runs, slots return, and the timer and a connection
\* attempt end; the application, the device and the peer owe nothing.
Fairness ==
  /\ WF_vars(AppReturns) /\ WF_vars(Resume)
  /\ WF_vars(ExecNext \/ SendData \/ WriteFails \/ FlushFails)
  /\ WF_vars(Timeout)

Spec == Init /\ [][Next]_vars /\ Fairness

-----------------------------------------------------------------------------
(* Properties. *)

\* Every variable has its type; the call stack holds known frames.
TypeOK ==
  /\ ChannelTypeOK
  /\ socket \in {"Unconnected", "Connecting", "Connected", "Closing"}
  /\ pendingClose \in BOOLEAN /\ unflushed \in BOOLEAN /\ timer \in BOOLEAN
  /\ connects \in 0..MaxConnects
  /\ atDevice \in Seq(Ids) /\ inbox \in Seq(Pieces)

\* A running request always has something that will end it: the response
\* timer, or a suspended function that finishes it or starts the timer.
RunningIsGuarded ==
  queue # <<>> /\ reply[Head(queue)].state = "Running" =>
    /\ timer \/ OnStack("errorFinish") \/ OnStack("drain") \/ OnStack("startTimer")
    /\ NeedsResponse(Head(queue)) \/ OnStack("unanswered")

\* A request that ends without error carries its own answer, all of it and
\* nothing else.
OwnAnswer ==
  \A r \in Ids :
    reply[r].state = "Finished" /\ reply[r].error = "NoError" /\ NeedsResponse(r) =>
      reply[r].data \in {Whole(r), Split(r)}

\* Only a request that was sent ends without error.
SuccessMeansSent ==
  [][\A r \in Ids : reply[r].state = "Pending" /\ reply'[r].state = "Finished" =>
       reply'[r].error # "NoError"]_vars

\* Between events, the response timer runs only while a request waits for
\* its response.
TimerOnlyWhileWaiting ==
  Idling /\ timer => /\ queue # <<>>
                     /\ reply[Head(queue)].state = "Running"
                     /\ NeedsResponse(Head(queue))

\* disconnectedFromDevice() is emitted when the connection is down.
DisconnectedWhenDown ==
  [][At("drain") /\ queue = <<>> => ~IsConnected']_vars

\* The channel keeps its promise: first in, first out, one at a time, one end
\* for each request; and every request does end, although the device may never
\* answer and the peer may neither close nor accept the connection.
ImplementsService == Service!Spec
===============================================================================
