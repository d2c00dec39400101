--------------------------- MODULE AsyncVComChannel ---------------------------
(***************************************************************************)
(* The asynchronous channel over a serial port (class AsyncVComChannel):   *)
(* the port, the response timer, the bytes received so far, and a device   *)
(* that does not notice when the port is closed.  QSerialPort is modelled  *)
(* from how the code uses it: close() emits aboutToClose() while isOpen()  *)
(* still holds, a failing open() and a failing flush() emit                *)
(* errorOccurred() before they return.                                     *)
(***************************************************************************)
EXTENDS AsyncChannel

CONSTANTS
  MaxCalls,   \* bound: calls of connectToDevice() and disconnectFromDevice()
  Faults      \* what may go wrong: "writeFails", "flushFails", "split"
              \* answers, "noise" on the line

ASSUME VComAssumption ==
  /\ MaxCalls \in Nat
  /\ Faults \subseteq {"writeFails", "flushFails", "split", "noise"}

VARIABLES
  open,       \* m_serial->isOpen()
  timer,      \* m_timer is running
  received,   \* m_read_data
  calls,      \* calls of connectToDevice() and disconnectFromDevice() so far
  atDevice,   \* requests the device is still to answer
  line        \* pieces of answers on their way to the port

vcomVars == <<open, timer, received, calls, atDevice, line>>
vars == <<channelVars, vcomVars>>

Init ==
  /\ ChannelInit
  /\ open = FALSE /\ timer = FALSE /\ received = <<>> /\ calls = 0
  /\ atDevice = <<>> /\ line = <<>>

-----------------------------------------------------------------------------
\* abort: stop the timer, report the error.
Abort(err, rest) == timer' = FALSE /\ SetError(err, rest)

\* doDisconnectFromDevice: close() emits aboutToClose() and marks the port
\* closed afterwards; onSerialAboutToClose fails the queue in between.
DoDisconnect(rest) ==
  \/ /\ open
     /\ timer' = FALSE
     /\ OnDisconnected(Push(Frame("closed"), rest))
     /\ UNCHANGED <<open, received, calls, atDevice, line>>
  \/ /\ ~open
     /\ stack' = rest
     /\ UNCHANGED <<queueVars, vcomVars>>

-----------------------------------------------------------------------------
(* Calls of the application. *)

AppExec == (\E kind \in RequestKinds : Exec(kind)) /\ UNCHANGED vcomVars

\* connectToDevice and doConnectToDevice; an open port is left alone.
AppConnect ==
  /\ AppTurn /\ ~open /\ calls < MaxCalls
  /\ calls' = calls + 1
  /\ \/ open' = TRUE /\ OnConnected(stack) /\ UNCHANGED timer
     \/ Abort("TransportError", stack) /\ UNCHANGED open
  /\ UNCHANGED <<received, atDevice, line>>

AppDisconnect ==
  /\ AppTurn /\ open /\ calls < MaxCalls
  /\ calls' = calls + 1
  /\ timer' = FALSE
  /\ OnDisconnected(Push(Frame("closed"), stack))
  /\ UNCHANGED <<open, received, atDevice, line>>

AppReturns == SlotReturns /\ UNCHANGED vcomVars

-----------------------------------------------------------------------------
(* The event loop: execNext, the timer and the port's signals. *)

ExecNext ==
  \/ ExecNothing /\ UNCHANGED vcomVars
  \/ ~open /\ ExecNotConnected /\ UNCHANGED vcomVars

\* doSendData forgets what was received, then writes and flushes.
SendData ==
  /\ open
  /\ ExecSend(<<>>)
  /\ timer' = TRUE
  /\ received' = <<>>
  /\ atDevice' = IF NeedsResponse(Head(queue)) THEN Append(atDevice, Head(queue)) ELSE atDevice
  /\ UNCHANGED <<open, calls, line>>

Failure == <<Slot, [op |-> "errorFinish", err |-> "TransportError"]>>

\* write() refuses the data and doSendData returns, or flush() emits
\* errorOccurred() and doSendData goes on to start the timer.
SendFails ==
  /\ open
  /\ \/ "writeFails" \in Faults /\ ExecSend(Failure)
     \/ "flushFails" \in Faults /\ ExecSend(Append(Failure, Frame("startTimer")))
  /\ timer' = FALSE
  /\ received' = <<>>
  /\ UNCHANGED <<open, calls, atDevice, line>>

\* Faulty variant: half an answer is waited for without end.
TimeoutBeforeAnswer ==
  /\ Idling /\ timer /\ received = <<>> /\ Abort("TransportError", stack)
  /\ UNCHANGED <<open, received, calls, atDevice, line>>

\* onTimeout.
Timeout ==
  /\ Idling /\ timer /\ Abort("TransportError", stack)
  /\ UNCHANGED <<open, received, calls, atDevice, line>>

\* The port reports an error of its own, as when the cable is pulled.
PortError ==
  /\ Idling /\ open /\ Abort("TransportError", stack)
  /\ UNCHANGED <<open, received, calls, atDevice, line>>

\* The device answers the oldest request it has, to a closed port in vain.
DeviceAnswers ==
  /\ Idling /\ atDevice # <<>>
  /\ atDevice' = Tail(atDevice)
  /\ \/ ~open /\ UNCHANGED line
     \/ open /\ line' = line \o Whole(Head(atDevice))
     \/ open /\ "split" \in Faults /\ line' = line \o Split(Head(atDevice))
  /\ UNCHANGED <<channelVars, open, timer, received, calls>>

\* serialDaraRazbor: the CRC accepts exactly one whole answer that the line
\* did not spoil.  A packet has at least the two bytes of the CRC: what the code
\* reads of a shorter one is undefined, and left out.
IsAnswer(pieces) == \E r \in Ids : pieces \in {Whole(r), Split(r)}

\* Faulty variant: the CRC is not compared.
DecodeUnchecked(pieces) == OnReceivedData(pieces)

Decode(pieces) ==
  \/ IsAnswer(pieces) /\ OnReceivedData(pieces)
  \/ /\ ~IsAnswer(pieces) \/ "noise" \in Faults
     /\ \E err \in {"InvalidCRC", "InvalidASCII"} : SetError(err, stack)

\* Faulty variant: half an answer stops the timer for good.
ReadyReadOnce ==
  /\ Idling /\ open
  /\ \/ \E k \in 1..Len(line) :
          /\ received' = received \o SubSeq(line, 1, k)
          /\ line' = SubSeq(line, k + 1, Len(line))
          /\ timer' = FALSE
          /\ \/ line[k].part = "first" /\ UNCHANGED channelVars
             \/ line[k].part # "first" /\ Decode(received')
     \/ /\ "noise" \in Faults
        /\ Abort("TransportError", stack)
        /\ UNCHANGED <<received, line>>
  /\ UNCHANGED <<open, calls, atDevice>>

\* onSerialReadyRead: without the end of a packet the timer starts again;
\* with it everything received since the last request is decoded, and kept.
\* A readyRead() without data is an error of the port.
ReadyRead ==
  /\ Idling /\ open
  /\ \/ \E k \in 1..Len(line) :
          /\ received' = received \o SubSeq(line, 1, k)
          /\ line' = SubSeq(line, k + 1, Len(line))
          /\ \/ /\ line[k].part = "first"
                /\ timer' = TRUE
                /\ UNCHANGED channelVars
             \/ /\ line[k].part # "first"
                /\ timer' = FALSE
                /\ Decode(received')
     \/ /\ "noise" \in Faults
        /\ Abort("TransportError", stack)
        /\ UNCHANGED <<received, line>>
  /\ UNCHANGED <<open, calls, atDevice>>

-----------------------------------------------------------------------------
(* The rest of a function whose call has returned. *)

\* The end of setError: only a transport error closes the port.
ErrorClose ==
  /\ At("errorClose")
  /\ \/ Head(stack).err = "TransportError" /\ DoDisconnect(Tail(stack))
     \/ /\ Head(stack).err # "TransportError"
        /\ Return
        /\ UNCHANGED <<queueVars, vcomVars>>

\* close() returns: the port is closed, what it had not delivered is gone.
Closed ==
  /\ At("closed") /\ Return
  /\ open' = FALSE
  /\ line' = <<>>
  /\ UNCHANGED <<queueVars, timer, received, calls, atDevice>>

StartTimer ==
  /\ At("startTimer") /\ Return
  /\ timer' = TRUE
  /\ UNCHANGED <<queueVars, open, received, calls, atDevice, line>>

Resume ==
  \/ (ErrorFinish \/ Drain \/ Unanswered) /\ UNCHANGED vcomVars
  \/ ErrorClose \/ Closed \/ StartTimer

Next ==
  \/ AppExec \/ AppConnect \/ AppDisconnect \/ AppReturns
  \/ ExecNext \/ SendData \/ SendFails \/ Timeout
  \/ PortError \/ DeviceAnswers \/ ReadyRead
  \/ Resume

\* Posted calls are made, slots return and the timer ends; the application,
\* the device and the port owe nothing.
Fairness ==
  /\ WF_vars(AppReturns) /\ WF_vars(Resume)
  /\ WF_vars(ExecNext \/ SendData \/ SendFails)
  /\ WF_vars(Timeout)

Spec == Init /\ [][Next]_vars /\ Fairness

-----------------------------------------------------------------------------
(* Properties. *)

\* Every variable has its type; the call stack holds known frames.
TypeOK ==
  /\ ChannelTypeOK
  /\ open \in BOOLEAN /\ timer \in BOOLEAN /\ calls \in 0..MaxCalls
  /\ received \in Seq(Pieces) /\ line \in Seq(Pieces) /\ atDevice \in Seq(Ids)

\* A running request always has something that will end it: the response
\* timer, which half an answer starts again, or a suspended function.
RunningIsGuarded ==
  queue # <<>> /\ reply[Head(queue)].state = "Running" =>
    \/ timer
    \/ OnStack("errorFinish") \/ OnStack("drain") \/ OnStack("startTimer")

\* An answer is taken for good only whole: the data of a request without
\* error is exactly one answer, though it may be the late answer to an earlier
\* request.
IntactAnswer ==
  \A r \in Ids :
    reply[r].error = "NoError" /\ reply[r].data # <<>> =>
      \E q \in 1..r : reply[r].data \in {Whole(q), Split(q)}

\* A request that ends without error carries its own answer.
OwnAnswer ==
  \A r \in Ids :
    reply[r].state = "Finished" /\ reply[r].error = "NoError" /\ NeedsResponse(r) =>
      reply[r].data \in {Whole(r), Split(r)}

\* The channel keeps its promise: first in, first out, one at a time, one end
\* for each request, and an end for every request.
ImplementsService == Service!Spec
===============================================================================
