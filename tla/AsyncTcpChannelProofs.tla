------------------------ MODULE AsyncTcpChannelProofs ------------------------
(***************************************************************************)
(* Safety of the TCP channel for every number of requests and connection   *)
(* attempts, every choice of requests and every set of faults: the types,  *)
(* the order of the queue, the wakeup of execNext, and that a running      *)
(* request is always guarded by the response timer or by a suspended       *)
(* function.                                                               *)
(***************************************************************************)
EXTENDS AsyncTcpChannel, AsyncChannelProofs

TcpTypeOK ==
  /\ socket \in {"Unconnected", "Connecting", "Connected", "Closing"}
  /\ pendingClose \in BOOLEAN /\ unflushed \in BOOLEAN /\ timer \in BOOLEAN
  /\ connects \in 0..MaxConnects
  /\ atDevice \in Seq(Ids) /\ inbox \in Seq(Pieces)

\* The inductive invariant.
Guarded ==
  queue # <<>> /\ reply[Head(queue)].state = "Running" =>
    /\ timer \/ Has(stack, "errorFinish") \/ Has(stack, "drain") \/ Has(stack, "startTimer")
    /\ NeedsResponse(Head(queue)) \/ Has(stack, "unanswered")

IInv == ChannelInv /\ TcpTypeOK /\ Guarded

LEMMA InitIInv ==
  ASSUME ChannelAssumption, TcpAssumption, Init
  PROVE  IInv
<1>1. ChannelInv /\ queue = <<>>
  BY InitChannelInv DEF Init, ChannelInit
<1>2. TcpTypeOK /\ Guarded
  <2>1. /\ socket = "Unconnected" /\ pendingClose = FALSE /\ unflushed = FALSE
        /\ timer = FALSE /\ connects = 0 /\ atDevice = <<>> /\ inbox = <<>>
    BY DEF Init
  <2>2. atDevice \in Seq(Ids) /\ inbox \in Seq(Pieces) /\ connects \in 0..MaxConnects
    BY <2>1 DEF TcpAssumption
  <2> QED
    BY <1>1, <2>1, <2>2 DEF TcpTypeOK, Guarded
<1> QED
  BY <1>1, <1>2 DEF IInv

-----------------------------------------------------------------------------
(* Steps that end or leave the running request alone. *)

\* Nothing changed for the oldest request, and what guards it is still there.
LEMMA StillGuarded ==
  ASSUME IInv, UNCHANGED queueVars,
         timer => timer',
         \A op \in {"errorFinish", "drain", "startTimer"} :
           Has(stack, op) => Has(stack', op) \/ timer',
         Has(stack, "unanswered") => Has(stack', "unanswered")
  PROVE  Guarded'
BY DEF IInv, Guarded, queueVars, NeedsResponse

LEMMA NoneRunning ==
  ASSUME queue' # <<>> => reply'[Head(queue')].state # "Running"
  PROVE  Guarded'
BY DEF Guarded

\* A request execNext starts either needs an answer or is ended by what
\* execNext still has to do.
LEMMA ExecSendWaits ==
  ASSUME IInv, NEW sent \in Seq(Frames), ExecSend(sent)
  PROVE  NeedsResponse(Head(queue))' \/ Has(stack', "unanswered")
<1>1. /\ queue' = queue /\ Head(queue) \in Ids /\ reply \in [Ids -> Replies]
      /\ reply' = [reply EXCEPT ![Head(queue)].state = "Running"]
  BY DEF ExecSend, CanExecNext, IInv, ChannelInv, ChannelTypeOK
<1>2. reply'[Head(queue')].kind = reply[Head(queue)].kind
  BY <1>1 DEF Replies
<1>3. CASE NeedsResponse(Head(queue))
  BY <1>2, <1>3 DEF NeedsResponse
<1>4. CASE ~NeedsResponse(Head(queue))
  <2>1. stack' = sent \o <<Frame("unanswered")>>
    BY <1>4 DEF ExecSend
  <2>2. <<Frame("unanswered")>> \in Seq(Frames) /\ Has(<<Frame("unanswered")>>, "unanswered")
    BY FrameType DEF Ops, Has, Frame
  <2> QED
    BY <2>1, <2>2, HasConcat
<1> QED
  BY <1>3, <1>4

LEMMA AbortStep ==
  ASSUME IInv, NEW rest \in Seq(Frames), Abort(rest),
         Has(stack, "unanswered") => Has(rest, "unanswered")
  PROVE  ChannelInv' /\ Guarded' /\ timer' = FALSE
<1>1. "TransportError" \in Errors /\ ChannelInv /\ "unanswered" \in Ops
  BY DEF Errors, IInv, Ops
<1>2. /\ ChannelInv' /\ UNCHANGED queueVars /\ Has(stack', "errorFinish")
      /\ Has(rest, "unanswered") => Has(stack', "unanswered")
  BY <1>1, SetErrorStep DEF Abort
<1> QED
  BY <1>2 DEF Abort, IInv, Guarded, queueVars, NeedsResponse

LEMMA SocketClosedStep ==
  ASSUME IInv, NEW rest \in Seq(Frames), SocketClosed(rest),
         Has(stack, "unanswered") => Has(rest, "unanswered")
  PROVE  IInv'
<1>1. ChannelInv /\ OnDisconnected(rest)
  BY DEF SocketClosed, IInv
<1>3. /\ ChannelInv' /\ UNCHANGED queueVars /\ Has(stack', "drain")
      /\ Has(stack, "unanswered") => Has(stack', "unanswered")
  BY <1>1, OnDisconnectedStep DEF Ops
<1>4. /\ socket' = "Unconnected" /\ unflushed' = FALSE /\ timer' = FALSE
      /\ atDevice' = <<>> /\ inbox' = <<>> /\ pendingClose' = pendingClose
      /\ connects' = connects
  BY DEF SocketClosed
<1>5. atDevice' \in Seq(Ids) /\ inbox' \in Seq(Pieces)
  BY <1>4
<1>2. TcpTypeOK'
  BY <1>4, <1>5 DEF IInv, TcpTypeOK
<1> QED
  BY <1>2, <1>3 DEF IInv, Guarded, queueVars, NeedsResponse

\* Closing the connection from a function that returns to `rest`.
LEMMA DoDisconnectStep ==
  ASSUME IInv, NEW rest \in Seq(Frames), DoDisconnect(rest),
         \A op \in {"errorFinish", "drain", "startTimer", "unanswered"} : Has(stack, op) => Has(rest, op)
  PROVE  IInv'
<1>1. CASE SocketClosed(rest)
  BY <1>1, SocketClosedStep
<1>2. CASE ~SocketClosed(rest)
  <2>1. /\ stack' = rest /\ UNCHANGED queueVars /\ timer' = timer
        /\ socket' = IF socket = "Connected" THEN "Closing" ELSE socket
        /\ pendingClose' = (pendingClose \/ socket = "Connecting")
        /\ UNCHANGED <<unflushed, connects, atDevice, inbox>>
    BY <1>2 DEF DoDisconnect
  <2>2. ChannelInv'
    BY <2>1, StackStep DEF IInv
  <2>3. Guarded'
    BY <2>1, StillGuarded
  <2>4. TcpTypeOK'
    BY <2>1 DEF IInv, TcpTypeOK
  <2> QED
    BY <2>2, <2>3, <2>4 DEF IInv
<1> QED
  BY <1>1, <1>2

-----------------------------------------------------------------------------
(* The actions. *)

LEMMA AppStep ==
  ASSUME IInv, ChannelAssumption, TcpAssumption, App \/ AppReturns
  PROVE  IInv'
<1>0. ChannelInv /\ stack \in Seq(Frames)
  BY DEF IInv, ChannelInv, ChannelTypeOK
<1>1. CASE AppExec
  <2>1. PICK kind \in RequestKinds : Exec(kind)
    BY <1>1 DEF AppExec
  <2>2. ChannelInv'
    BY <1>0, <2>1, ExecStep
  <2>3. TcpTypeOK' /\ timer' = timer /\ stack' = stack
    BY <1>1, <2>1 DEF AppExec, Exec, tcpVars, IInv, TcpTypeOK
  <2>4. queue' # <<>> /\ reply'[Head(queue')].state = "Running"
          => /\ queue # <<>> /\ reply[Head(queue)].state = "Running"
             /\ Head(queue') = Head(queue) /\ reply'[Head(queue)] = reply[Head(queue)]
    BY <1>0, <2>1, ExecHead
  <2>5. Guarded'
    BY <2>3, <2>4 DEF IInv, Guarded, NeedsResponse
  <2> QED
    BY <2>2, <2>3, <2>5 DEF IInv
<1>2. CASE AppConnect
  <2>1. TcpTypeOK'
    <3>1. connects \in 0..MaxConnects /\ MaxConnects \in Nat /\ connects' \in 0..MaxConnects
      BY <1>2 DEF AppConnect, TcpAssumption, IInv, TcpTypeOK
    <3>2. /\ socket' \in {socket, "Connecting"} /\ timer' \in {timer, FALSE}
          /\ UNCHANGED <<pendingClose, unflushed, atDevice, inbox>>
      BY <1>2 DEF AppConnect, Abort
    <3> QED
      BY <3>1, <3>2 DEF IInv, TcpTypeOK
  <2>2. CASE Abort(stack)
    BY <1>0, <2>1, <2>2, AbortStep DEF IInv
  <2>3. CASE ~Abort(stack)
    <3>1. UNCHANGED <<channelVars, timer>>
      BY <1>2, <2>3 DEF AppConnect
    <3>2. ChannelInv'
      BY <3>1, <1>0, StackStep DEF channelVars
    <3>3. Guarded'
      BY <3>1, StillGuarded DEF channelVars
    <3> QED
      BY <2>1, <3>2, <3>3 DEF IInv
  <2> QED
    BY <2>2, <2>3
<1>3. CASE AppDisconnect
  BY <1>0, <1>3, DoDisconnectStep DEF AppDisconnect
<1>4. CASE AppReturns
  <2>1. /\ stack # <<>> /\ Head(stack).op = "slot" /\ Return /\ UNCHANGED queueVars
        /\ UNCHANGED tcpVars
    BY <1>4 DEF AppReturns, SlotReturns, At
  <2>2. ChannelInv' /\ \A op \in Ops : Has(stack, op) => Head(stack).op = op \/ Has(stack', op)
    BY <1>0, <2>1, ReturnStep
  <2>3. Guarded'
    BY <2>1, <2>2, StillGuarded DEF Ops, tcpVars
  <2>4. TcpTypeOK'
    BY <2>1 DEF tcpVars, IInv, TcpTypeOK
  <2> QED
    BY <2>2, <2>3, <2>4 DEF IInv
<1> QED
  BY <1>1, <1>2, <1>3, <1>4 DEF App

LEMMA LoopStep ==
  ASSUME IInv, ChannelAssumption, TcpAssumption, Loop
  PROVE  IInv'
<1>0. ChannelInv /\ stack \in Seq(Frames)
  BY DEF IInv, ChannelInv, ChannelTypeOK
<1>1. CASE ExecNext
  <2>1. TcpTypeOK' /\ timer' = timer
    BY <1>1 DEF ExecNext, tcpVars, IInv, TcpTypeOK
  <2>2. CASE ExecNothing
    BY <1>0, <2>1, <2>2, ExecNothingStep DEF ExecNothing, IInv, Guarded, NeedsResponse
  <2>3. CASE ExecNotConnected
    BY <1>0, <2>1, <2>3, EndingStep, NoneRunning DEF IInv
  <2> QED
    BY <1>1, <2>2, <2>3 DEF ExecNext
<1>2. CASE SendData
  <2>1. <<>> \in Seq(Frames) /\ ExecSend(<<>>) /\ timer' = TRUE
    BY <1>2 DEF SendData
  <2>2. ChannelInv' /\ Guarded'
    BY <1>0, <2>1, ExecSendStep, ExecSendWaits DEF Guarded, IInv
  <2>3. TcpTypeOK'
    <3>1. Head(queue) \in Ids
      BY <2>1, <1>0 DEF ExecSend, CanExecNext, ChannelInv, ChannelTypeOK, IInv
    <3>2. atDevice' \in {atDevice, Append(atDevice, Head(queue))}
      BY <1>2 DEF SendData
    <3>3. atDevice' \in Seq(Ids)
      BY <3>1, <3>2 DEF IInv, TcpTypeOK
    <3>4. UNCHANGED <<socket, pendingClose, connects, inbox>> /\ unflushed' \in BOOLEAN
      BY <1>2 DEF SendData
    <3> QED
      BY <2>1, <3>3, <3>4 DEF IInv, TcpTypeOK
  <2> QED
    BY <2>2, <2>3 DEF IInv
<1>3. ASSUME NEW sent \in Seq(Frames), Has(sent, "errorFinish"), ExecSend(sent),
             timer' = FALSE, unflushed' \in BOOLEAN,
             UNCHANGED <<socket, pendingClose, connects, atDevice, inbox>>
      PROVE  IInv'
  <2>1. ChannelInv'
    BY <1>0, <1>3, ExecSendStep DEF IInv
  <2>2. Has(stack', "errorFinish")
    <3>1. <<>> \in Seq(Frames) /\ <<Frame("unanswered")>> \in Seq(Frames)
      BY FrameType DEF Ops
    <3> QED
      BY <1>3, <3>1, HasConcat DEF ExecSend
  <2>3. TcpTypeOK'
    BY <1>3 DEF IInv, TcpTypeOK
  <2> QED
    BY <1>3, <2>1, <2>2, <2>3, ExecSendWaits DEF IInv, Guarded
<1> DEFINE fail == [op |-> "errorFinish", err |-> "TransportError"]
<1>4. fail \in Frames /\ fail.op = "errorFinish" /\ Slot \in Frames
  BY FrameType DEF Errors
<1>5. CASE WriteFails
  <2> DEFINE sent == <<Slot, fail>>
  <2>1. sent \in Seq(Frames) /\ Len(sent) = 2 /\ sent[2] = fail
    BY <1>4
  <2>2. Has(sent, "errorFinish")
    BY <1>4, <2>1 DEF Has
  <2>3. /\ ExecSend(sent) /\ timer' = FALSE /\ unflushed' = unflushed
        /\ UNCHANGED <<socket, pendingClose, connects, atDevice, inbox>>
    BY <1>5 DEF WriteFails
  <2>4. unflushed' \in BOOLEAN
    BY <2>3 DEF IInv, TcpTypeOK
  <2> HIDE DEF sent
  <2> QED
    BY <1>3, <2>1, <2>2, <2>3, <2>4
<1>6. CASE FlushFails
  <2> DEFINE sent == <<Slot, fail, Frame("socketAbort"), Frame("startTimer")>>
  <2>1. sent \in Seq(Frames) /\ Len(sent) = 4 /\ sent[2] = fail
    BY <1>4, FrameType DEF Ops
  <2>2. Has(sent, "errorFinish")
    BY <1>4, <2>1 DEF Has
  <2>3. /\ ExecSend(sent) /\ timer' = FALSE /\ unflushed' = TRUE
        /\ UNCHANGED <<socket, pendingClose, connects, atDevice, inbox>>
    BY <1>6 DEF FlushFails
  <2> HIDE DEF sent
  <2> QED
    BY <1>3, <2>1, <2>2, <2>3
<1>7. CASE Timeout
  <2>1. Abort(stack) /\ UNCHANGED <<socket, pendingClose, unflushed, connects, atDevice, inbox>>
    BY <1>7 DEF Timeout
  <2>2. ChannelInv' /\ Guarded' /\ timer' = FALSE
    BY <1>0, <2>1, AbortStep DEF IInv, ChannelInv, ChannelTypeOK
  <2>3. TcpTypeOK'
    BY <2>1, <2>2 DEF IInv, TcpTypeOK
  <2> QED
    BY <2>2, <2>3 DEF IInv
<1> QED
  BY <1>1, <1>2, <1>5, <1>6, <1>7 DEF Loop

LEMMA NetStep ==
  ASSUME IInv, ChannelAssumption, TcpAssumption, Net
  PROVE  IInv'
<1>0. ChannelInv /\ stack \in Seq(Frames) /\ <<>> \in Seq(Frames)
  BY DEF IInv, ChannelInv, ChannelTypeOK
<1>1. CASE SocketConnected
  <2> DEFINE rest == IF pendingClose THEN <<Frame("hangUp")>> ELSE <<>>
  <2>1. /\ stack = <<>> /\ OnConnected(rest) /\ timer' = timer
        /\ socket' = "Connected" /\ pendingClose' = FALSE
        /\ UNCHANGED <<unflushed, connects, atDevice, inbox>>
    BY <1>1 DEF SocketConnected, Idling
  <2>2. rest \in Seq(Frames)
    BY FrameType DEF Ops
  <2>3. \A op \in Ops : ~Has(stack, op)
    BY <2>1 DEF Has
  <2> HIDE DEF rest
  <2>4. ChannelInv' /\ UNCHANGED queueVars
    BY <1>0, <2>1, <2>2, OnConnectedStep
  <2>5. Guarded'
    BY <2>1, <2>3, <2>4, StillGuarded DEF Ops
  <2>6. TcpTypeOK'
    BY <2>1 DEF IInv, TcpTypeOK
  <2> QED
    BY <2>4, <2>5, <2>6 DEF IInv
<1>2. CASE ConnectFails
  <2>1. /\ Abort(stack) /\ socket' = "Unconnected" /\ pendingClose' = FALSE
        /\ UNCHANGED <<unflushed, connects, atDevice, inbox>>
    BY <1>2 DEF ConnectFails
  <2>2. ChannelInv' /\ Guarded' /\ timer' = FALSE
    BY <1>0, <2>1, AbortStep
  <2>3. TcpTypeOK'
    BY <2>1, <2>2 DEF IInv, TcpTypeOK
  <2> QED
    BY <2>2, <2>3 DEF IInv
<1>3. CASE PeerCloses
  <2> DEFINE rest == <<Frame("socketAbort")>>
  <2>1. Abort(rest) /\ UNCHANGED <<socket, pendingClose, unflushed, connects, atDevice, inbox>>
    BY <1>3 DEF PeerCloses
  <2>2. rest \in Seq(Frames) /\ ~Has(stack, "unanswered")
    BY <1>3, FrameType DEF Ops, PeerCloses, Idling, Has
  <2> HIDE DEF rest
  <2>3. ChannelInv' /\ Guarded' /\ timer' = FALSE
    BY <2>1, <2>2, AbortStep
  <2>4. TcpTypeOK'
    BY <2>1, <2>3 DEF IInv, TcpTypeOK
  <2> QED
    BY <2>3, <2>4 DEF IInv
<1>4. CASE Flushed
  <2>1. CASE SocketClosed(stack)
    BY <1>0, <2>1, SocketClosedStep
  <2>2. CASE ~SocketClosed(stack)
    <3>1. /\ UNCHANGED <<channelVars, socket, pendingClose, timer, connects, atDevice, inbox>>
          /\ unflushed' = FALSE
      BY <1>4, <2>2 DEF Flushed
    <3>2. UNCHANGED queueVars /\ stack' = stack /\ timer' = timer
      BY <3>1 DEF channelVars
    <3>3. ChannelInv' /\ Guarded'
      BY <1>0, <3>2, StackStep, StillGuarded
    <3>4. TcpTypeOK'
      BY <3>1 DEF IInv, TcpTypeOK
    <3> QED
      BY <3>3, <3>4 DEF IInv
  <2> QED
    BY <2>1, <2>2
<1>5. CASE DeviceAnswers
  <2>1. /\ atDevice # <<>> /\ atDevice' = Tail(atDevice)
        /\ inbox' \in {inbox \o Whole(Head(atDevice)), inbox \o Split(Head(atDevice))}
        /\ UNCHANGED <<channelVars, socket, pendingClose, unflushed, timer, connects>>
    BY <1>5 DEF DeviceAnswers
  <2>2. Head(atDevice) \in Ids /\ atDevice' \in Seq(Ids) /\ inbox \in Seq(Pieces)
    BY <2>1 DEF IInv, TcpTypeOK
  <2>3. Whole(Head(atDevice)) \in Seq(Pieces) /\ Split(Head(atDevice)) \in Seq(Pieces)
    BY <2>2 DEF Whole, Split, Pieces
  <2>4. inbox' \in Seq(Pieces)
    <3>1. \A s, t \in Seq(Pieces) : s \o t \in Seq(Pieces)
      BY ConcatProperties
    <3>2. \A t \in Seq(Pieces) : inbox \o t \in Seq(Pieces)
      BY <2>2, <3>1, Zenon
    <3> QED
      BY <2>1, <2>3, <3>2, Zenon
  <2>5. UNCHANGED queueVars /\ stack' = stack /\ timer' = timer
    BY <2>1 DEF channelVars
  <2>6. ChannelInv' /\ Guarded'
    BY <1>0, <2>5, StackStep, StillGuarded
  <2>7. TcpTypeOK'
    BY <2>1, <2>2, <2>4 DEF IInv, TcpTypeOK
  <2> QED
    BY <2>6, <2>7 DEF IInv
<1>6. CASE ReadyRead
  <2>1. inbox \in Seq(Pieces)
    BY DEF IInv, TcpTypeOK
  <2>2. PICK k \in 1..Len(inbox) :
          /\ OnReceivedData(SubSeq(inbox, 1, k))
          /\ inbox' = SubSeq(inbox, k + 1, Len(inbox))
    BY <1>6 DEF ReadyRead
  <2>3. SubSeq(inbox, 1, k) \in Seq(Pieces) /\ inbox' \in Seq(Pieces)
    BY <2>1, <2>2, SubSeqProperties
  <2>4. ChannelInv' /\ Guarded'
    BY <1>0, <2>2, <2>3, OnReceivedDataStep, NoneRunning
  <2>5. timer' = FALSE /\ UNCHANGED <<socket, pendingClose, unflushed, connects, atDevice>>
    BY <1>6 DEF ReadyRead
  <2>6. TcpTypeOK'
    BY <2>3, <2>5 DEF IInv, TcpTypeOK
  <2> QED
    BY <2>4, <2>6 DEF IInv
<1> QED
  BY <1>1, <1>2, <1>3, <1>4, <1>5, <1>6 DEF Net

LEMMA ResumeStep ==
  ASSUME IInv, ChannelAssumption, TcpAssumption, Resume
  PROVE  IInv'
<1>0. ChannelInv /\ stack \in Seq(Frames)
  BY DEF IInv, ChannelInv, ChannelTypeOK
<1>a. ASSUME NEW op \in {"errorClose", "socketAbort", "hangUp"}, At(op)
      PROVE  /\ Tail(stack) \in Seq(Frames) /\ stack # <<>>
             /\ \A g \in {"errorFinish", "drain", "startTimer", "unanswered"} :
                  Has(stack, g) => Has(Tail(stack), g)
  BY <1>0, <1>a, TailType, HasTail DEF At
<1>1. CASE (ErrorFinish \/ Drain \/ Unanswered) /\ UNCHANGED tcpVars
  <2>1. ChannelInv' /\ Guarded'
    BY <1>0, <1>1, EndingStep, DrainedStep DEF Guarded
  <2>2. TcpTypeOK'
    BY <1>1 DEF tcpVars, IInv, TcpTypeOK
  <2> QED
    BY <2>1, <2>2 DEF IInv
<1>2. CASE ErrorClose
  BY <1>2, <1>a, DoDisconnectStep DEF ErrorClose
<1>3. CASE HangUp
  BY <1>3, <1>a, DoDisconnectStep DEF HangUp
<1>4. CASE SocketAbort
  <2>0. At("socketAbort")
    BY <1>4 DEF SocketAbort
  <2>1. CASE SocketClosed(Tail(stack))
    BY <2>0, <2>1, <1>a, SocketClosedStep
  <2>2. CASE ~SocketClosed(Tail(stack))
    <3>1. /\ Return /\ pendingClose' = (pendingClose \/ socket = "Connecting")
          /\ UNCHANGED <<queueVars, socket, unflushed, timer, connects, atDevice, inbox>>
      BY <1>4, <2>2 DEF SocketAbort
    <3>2. ChannelInv'
      BY <1>0, <2>0, <3>1, <1>a, ReturnStep
    <3>3. Guarded'
      BY <2>0, <3>1, <1>a, StillGuarded DEF Return
    <3>4. TcpTypeOK'
      BY <3>1 DEF IInv, TcpTypeOK
    <3> QED
      BY <3>2, <3>3, <3>4 DEF IInv
  <2> QED
    BY <2>1, <2>2
<1>5. CASE StartTimer
  <2>1. /\ stack # <<>> /\ Return /\ timer' = TRUE /\ UNCHANGED queueVars
        /\ UNCHANGED <<socket, pendingClose, unflushed, connects, atDevice, inbox>>
    BY <1>5 DEF StartTimer, At
  <2>2. ChannelInv' /\ (Has(stack, "unanswered") => Has(stack', "unanswered"))
    BY <1>0, <1>5, <2>1, ReturnStep DEF StartTimer, At, Ops
  <2>4. Guarded'
    BY <2>1, <2>2 DEF Guarded, IInv, queueVars, NeedsResponse
  <2>3. TcpTypeOK'
    BY <2>1 DEF IInv, TcpTypeOK
  <2> QED
    BY <2>2, <2>3, <2>4 DEF IInv
<1> QED
  BY <1>1, <1>2, <1>3, <1>4, <1>5 DEF Resume

LEMMA NextIInv ==
  ASSUME IInv, ChannelAssumption, TcpAssumption, [Next]_vars
  PROVE  IInv'
<1>1. CASE UNCHANGED vars
  <2>1. UNCHANGED queueVars /\ UNCHANGED tcpVars /\ stack' = stack
    BY <1>1 DEF vars, channelVars
  <2>2. ChannelInv' /\ Guarded'
    BY <2>1, StackStep, StillGuarded DEF IInv, ChannelInv, ChannelTypeOK, tcpVars
  <2>3. TcpTypeOK'
    BY <2>1 DEF tcpVars, IInv, TcpTypeOK
  <2> QED
    BY <2>2, <2>3 DEF IInv
<1> QED
  BY <1>1, AppStep, LoopStep, NetStep, ResumeStep DEF Next

\* The inductive invariant holds in every behaviour.
THEOREM Invariance == Spec => []IInv
<1>1. Init => IInv
  BY InitIInv, ChannelAssumption, TcpAssumption
<1>2. IInv /\ [Next]_vars => IInv'
  BY NextIInv, ChannelAssumption, TcpAssumption
<1> QED
  BY <1>1, <1>2, PTL DEF Spec

\* Type correctness of AsyncTcpChannel.
THEOREM TypeCorrect == Spec => []TypeOK
<1>1. IInv => TypeOK
  BY DEF IInv, ChannelInv, TcpTypeOK, TypeOK
<1> QED
  BY <1>1, Invariance, PTL

\* finishNext ends the requests in the order exec() accepted them.
THEOREM Fifo == Spec => []FifoOrder
<1>1. IInv => FifoOrder
  BY DEF IInv, ChannelInv
<1> QED
  BY <1>1, Invariance, PTL

\* Whatever the slots and the network do, a running request has something
\* that will end it.
THEOREM Watched == Spec => []RunningIsGuarded
<1>1. IInv => RunningIsGuarded
  BY DEF IInv, Guarded, RunningIsGuarded, Has, OnStack
<1> QED
  BY <1>1, Invariance, PTL

\* No interleaving of slots and events loses the wakeup of execNext.
THEOREM Wakeup == Spec => []NoLostWakeup
<1>1. IInv => NoLostWakeup
  BY DEF IInv, ChannelInv
<1> QED
  BY <1>1, Invariance, PTL

-----------------------------------------------------------------------------
LEMMA NextServes ==
  ASSUME IInv, IInv', ChannelAssumption, [Next]_vars
  PROVE  ServiceStep
<1>0. ChannelInv /\ ChannelInv'
  BY DEF IInv
<1>1. CASE reply' = reply
  BY <1>1, SilentServes
<1>2. CASE reply' # reply
  <2>1. ASSUME NEW posted, NEW err, NEW data, NEW rest, FinishNext(posted, err, data, rest)
        PROVE  ServiceStep
    BY <1>0, <2>1, FinishNextServes
  <2>2. ASSUME NEW kind \in RequestKinds, Exec(kind)
        PROVE  ServiceStep
    BY <1>0, <2>2, ExecServes
  <2>3. ASSUME NEW sent, ExecSend(sent)
        PROVE  ServiceStep
    BY <1>0, <2>3, ExecSendServes
  <2>4. CASE App \/ AppReturns
    <3>1. PICK kind \in RequestKinds : Exec(kind)
      BY <1>2, <2>4 DEF App, AppExec, AppConnect, AppDisconnect, AppReturns, SlotReturns,
           DoDisconnect, SocketClosed, OnDisconnected, Abort, SetError, queueVars, channelVars
    <3> QED
      BY <2>2, <3>1
  <2>5. CASE Loop
    <3>1. \/ ExecNotConnected
          \/ \E sent : ExecSend(sent)
      BY <1>2, <2>5 DEF Loop, ExecNext, ExecNothing, SendData, WriteFails, FlushFails,
           Timeout, Abort, SetError, queueVars
    <3> QED
      BY <2>1, <2>3, <3>1 DEF ExecNotConnected
  <2>6. CASE Net
    <3>1. ReadyRead
      BY <1>2, <2>6 DEF Net, SocketConnected, OnConnected, ConnectFails, PeerCloses, Flushed,
           DeviceAnswers, SocketClosed, OnDisconnected, Abort, SetError, queueVars, channelVars
    <3> QED
      BY <2>1, <3>1 DEF ReadyRead, OnReceivedData
  <2>7. CASE Resume
    <3>1. ErrorFinish \/ Drain \/ Unanswered
      BY <1>2, <2>7 DEF Resume, ErrorClose, SocketAbort, HangUp, StartTimer, DoDisconnect,
           SocketClosed, OnDisconnected, queueVars
    <3> QED
      BY <1>2, <2>1, <3>1 DEF ErrorFinish, Drain, Unanswered, queueVars
  <2>8. ~UNCHANGED vars
    BY <1>2 DEF vars, channelVars, queueVars
  <2> QED
    BY <2>4, <2>5, <2>6, <2>7, <2>8 DEF Next
<1> QED
  BY <1>1, <1>2

\* The channel over TCP carries out what RequestService promises: it takes
\* requests in order, one at a time, and ends each once.  (That each does end
\* is liveness, which TLC checks as part of ImplementsService.)
THEOREM Serves == Spec => Service!Safety
<1>1. Init => Service!Init
  BY InitServes DEF Init
<1>2. IInv /\ IInv' /\ [Next]_vars => ServiceStep
  BY NextServes, ChannelAssumption
<1> QED
  BY <1>1, <1>2, Invariance, PTL DEF Spec, Service!Safety, ServiceStep

-----------------------------------------------------------------------------
(***************************************************************************)
(* The call stack between two events: which functions a step suspends, and *)
(* what that says of the socket, the timer and the answers on their way.   *)
(***************************************************************************)

\* The connection is down for as long as the queue is being failed.
Down == Has(stack, "drain") => ~IsConnected

\* The connection will be closed before the next event, or when the write
\* buffer has drained.
WillClose == Has(stack, "errorFinish") \/ Has(stack, "errorClose") \/ socket = "Closing"

\* One request is out, or its answer is.
Outstanding(r) ==
  \/ atDevice = <<r>> /\ inbox = <<>>
  \/ atDevice = <<>> /\ inbox = Whole(r)

Answering ==
  /\ ~Has(stack, "unanswered")
  /\ socket = "Closing" => unflushed
  /\ inbox # <<>> => ~unflushed
  /\ atDevice # <<>> \/ inbox # <<>> =>
       /\ socket \in {"Connected", "Closing"}
       /\ \E r \in Ids :
            /\ Outstanding(r)
            /\ \/ WillClose
               \/ /\ stack = <<>> /\ queue # <<>>
                  /\ r = Head(queue) /\ reply[r].state = "Running"

\* While the timer runs, a request waits for its response and no function is
\* suspended.
Timing ==
  /\ ~Has(stack, "startTimer") /\ ~Has(stack, "unanswered")
  /\ timer => /\ stack = <<>> /\ socket \in {"Connected", "Closing"}
              /\ queue # <<>> /\ reply[Head(queue)].state = "Running"

\* What each function of the channel leaves on the stack.
LEMMA LeftOnStack ==
  ASSUME NEW rest \in Seq(Frames), NEW op
  PROVE  /\ SetError("TransportError", rest) =>
              (Has(stack', op) <=> op \in {"slot", "errorFinish"} \/ Has(rest, op))
         /\ OnConnected(rest) => (Has(stack', op) <=> op = "slot" \/ Has(rest, op))
         /\ OnDisconnected(rest) => (Has(stack', op) <=> op = "drain" \/ Has(rest, op))
         /\ \A posted, err, data :
              FinishNext(posted, err, data, rest) =>
                /\ Has(rest, op) => Has(stack', op)
                /\ Has(stack', op) => op = "slot" \/ Has(rest, op)
<1> DEFINE fail == [op |-> "errorFinish", err |-> "TransportError"]
<1>1. /\ Slot \in Frames /\ Slot.op = "slot" /\ Frame("drain") \in Frames
      /\ Frame("drain").op = "drain" /\ fail \in Frames /\ fail.op = "errorFinish"
  BY FrameType DEF Slot, Frame, Ops, Errors
<1>2. SetError("TransportError", rest) => stack' = Push(Slot, Push(fail, rest))
  BY DEF SetError
<1> HIDE DEF fail
<1>3. Push(fail, rest) \in Seq(Frames)
  BY <1>1, PushProperties
<1>4. /\ Has(Push(fail, rest), op) <=> op = "errorFinish" \/ Has(rest, op)
      /\ Has(Push(Frame("drain"), rest), op) <=> op = "drain" \/ Has(rest, op)
      /\ Has(Push(Slot, rest), op) <=> op = "slot" \/ Has(rest, op)
      /\ Has(Push(Slot, Push(fail, rest)), op) <=> op = "slot" \/ Has(Push(fail, rest), op)
  BY <1>1, <1>3, HasPush
<1> QED
  BY <1>2, <1>4 DEF OnConnected, OnDisconnected, FinishNext

\* The functions a step suspends, and what it means for the socket.
Suspends(op) == Has(stack', op) /\ ~Has(stack, op)

Closes == socket' = "Unconnected" /\ timer' = FALSE /\ atDevice' = <<>> /\ inbox' = <<>>

FramesStep ==
  /\ Suspends("drain") => Closes
  /\ Suspends("unanswered") => CanExecNext /\ ~NeedsResponse(Head(queue))
  /\ Suspends("startTimer") => "flushFails" \in Faults
  /\ Has(stack, "errorFinish") \/ Has(stack, "errorClose") =>
       Has(stack', "errorFinish") \/ Has(stack', "errorClose") \/ ErrorClose

\* A step that suspends nothing but the slot of a signal.
LEMMA SlotFrames ==
  ASSUME \A op \in Ops \ {"slot", "errorFinish"} : ~Suspends(op),
         Has(stack, "errorFinish") \/ Has(stack, "errorClose") =>
           Has(stack', "errorFinish") \/ Has(stack', "errorClose")
  PROVE  FramesStep
BY DEF FramesStep, Ops

\* A step of the closing of the connection.
LEMMA DisconnectFrames ==
  ASSUME NEW rest \in Seq(Frames), DoDisconnect(rest) \/ SocketClosed(rest),
         \A op \in Ops \ {"slot"} : Has(rest, op) => Has(stack, op),
         \/ ErrorClose
         \/ /\ Has(stack, "errorFinish") => Has(rest, "errorFinish")
            /\ Has(stack, "errorClose") => Has(rest, "errorClose")
  PROVE  FramesStep
<1>1. CASE SocketClosed(rest)
  BY <1>1, LeftOnStack DEF SocketClosed, FramesStep, Suspends, Closes, Ops
<1>2. CASE stack' = rest
  BY <1>2 DEF FramesStep, Suspends, Ops
<1> QED
  BY <1>1, <1>2 DEF DoDisconnect

LEMMA AbortFrames ==
  ASSUME NEW rest \in Seq(Frames), Abort(rest),
         \A op \in Ops \ {"slot", "socketAbort"} : Has(rest, op) => Has(stack, op)
  PROVE  FramesStep
BY LeftOnStack DEF Abort, FramesStep, Suspends, Ops

LEMMA NextFrames ==
  ASSUME IInv, ChannelAssumption, Next
  PROVE  FramesStep
<1>0. /\ stack \in Seq(Frames) /\ <<>> \in Seq(Frames) /\ \A op : ~Has(<<>>, op)
      /\ queue \in Seq(Ids)
  BY DEF IInv, ChannelInv, ChannelTypeOK, Has
<1>a. ASSUME stack # <<>>
      PROVE  /\ Tail(stack) \in Seq(Frames) /\ Head(stack) \in Frames
             /\ \A op : Has(stack, op) <=> Head(stack).op = op \/ Has(Tail(stack), op)
  BY <1>0, <1>a, TailType, HasTail
<1>1. CASE stack' = stack
  BY <1>1 DEF FramesStep, Suspends
<1>2. CASE AppDisconnect
  BY <1>0, <1>2, DisconnectFrames DEF AppDisconnect
<1>3. CASE Abort(stack)
  BY <1>0, <1>3, AbortFrames
<1>4. CASE PeerCloses
  <2>1. <<Frame("socketAbort")>> \in Seq(Frames) /\ Abort(<<Frame("socketAbort")>>)
    BY <1>4, FrameType DEF PeerCloses, Ops
  <2>2. \A op \in Ops \ {"slot", "socketAbort"} : ~Has(<<Frame("socketAbort")>>, op)
    BY DEF Has, Frame
  <2> QED
    BY <2>1, <2>2, AbortFrames
<1>5. CASE SocketConnected
  <2> DEFINE rest == IF pendingClose THEN <<Frame("hangUp")>> ELSE <<>>
  <2>1. stack = <<>> /\ OnConnected(rest) /\ rest \in Seq(Frames)
    BY <1>5, FrameType DEF SocketConnected, Idling, Ops
  <2>2. \A op \in Ops \ {"hangUp"} : ~Has(rest, op)
    BY DEF Has, Frame
  <2> HIDE DEF rest
  <2> QED
    BY <1>0, <2>1, <2>2, LeftOnStack DEF FramesStep, Suspends, Ops
<1>6. CASE \E posted, err, data : stack = <<>> /\ FinishNext(posted, err, data, stack)
  BY <1>0, <1>6, LeftOnStack DEF FramesStep, Suspends, Ops
<1>7. ASSUME NEW sent \in Seq(Frames), ExecSend(sent), ~Has(sent, "drain"),
             ~Has(sent, "unanswered"), Has(sent, "startTimer") => "flushFails" \in Faults
      PROVE  FramesStep
  <2> DEFINE rest == IF NeedsResponse(Head(queue)) THEN <<>> ELSE <<Frame("unanswered")>>
  <2>1. /\ stack = <<>> /\ CanExecNext /\ stack' = sent \o rest /\ rest \in Seq(Frames)
    BY <1>7, FrameType DEF ExecSend, CanExecNext, Idling, Ops
  <2>2. \A op : Has(rest, op) => op = "unanswered" /\ ~NeedsResponse(Head(queue))
    BY DEF Has, Frame
  <2> HIDE DEF rest
  <2> QED
    BY <1>0, <1>7, <2>1, <2>2, HasEither DEF FramesStep, Suspends
<1> DEFINE fail == [op |-> "errorFinish", err |-> "TransportError"]
<1>c. /\ fail \in Frames /\ fail.op = "errorFinish" /\ Slot \in Frames /\ Slot.op = "slot"
      /\ Frame("socketAbort") \in Frames /\ Frame("startTimer") \in Frames
      /\ Frame("socketAbort").op = "socketAbort" /\ Frame("startTimer").op = "startTimer"
  BY FrameType DEF Errors, Ops, Slot, Frame
<1>14. CASE SendData
  BY <1>0, <1>7, <1>14 DEF SendData
<1>15. CASE WriteFails
  <2> DEFINE sent == <<Slot, fail>>
  <2>1. ExecSend(sent)
    BY <1>15 DEF WriteFails
  <2>2. sent \in Seq(Frames) /\ \A op : Has(sent, op) => op \in {"slot", "errorFinish"}
    <3> HIDE DEF fail
    <3> QED
      BY <1>c DEF Has
  <2> HIDE DEF sent
  <2> QED
    BY <1>7, <2>1, <2>2
<1>16. CASE FlushFails
  <2> DEFINE sent == <<Slot, fail, Frame("socketAbort"), Frame("startTimer")>>
  <2>1. ExecSend(sent) /\ "flushFails" \in Faults
    BY <1>16 DEF FlushFails
  <2>2. /\ sent \in Seq(Frames)
        /\ \A op : Has(sent, op) => op \in {"slot", "errorFinish", "socketAbort", "startTimer"}
    <3> HIDE DEF fail
    <3>1. sent \in Seq(Frames) /\ Len(sent) = 4
      BY <1>c
    <3> QED
      BY <1>c, <3>1 DEF Has
  <2> HIDE DEF sent
  <2> QED
    BY <1>7, <2>1, <2>2
<1>8. CASE AppReturns \/ StartTimer
  BY <1>8, <1>a DEF AppReturns, SlotReturns, StartTimer, At, Return, FramesStep, Suspends
<1>9. CASE ErrorFinish
  <2> DEFINE close == [op |-> "errorClose", err |-> Head(stack).err]
             rest == Push(close, Tail(stack))
  <2>1. At("errorFinish") /\ FinishNext(scheduled, Head(stack).err, <<>>, rest)
    BY <1>9 DEF ErrorFinish
  <2>2. close \in Frames /\ close.op = "errorClose"
    BY <1>a, <2>1, FrameType DEF At, Frames
  <2> HIDE DEF close
  <2>3. rest \in Seq(Frames) /\ \A op : Has(rest, op) <=> op = "errorClose" \/ Has(Tail(stack), op)
    BY <1>a, <2>1, <2>2, PushProperties, HasPush DEF At
  <2> HIDE DEF rest
  <2> QED
    BY <1>a, <2>1, <2>3, LeftOnStack DEF At, FramesStep, Suspends
<1>10. CASE Drain \/ Unanswered
  <2>1. CASE \E rest \in {stack, Tail(stack)} : \E err : FinishNext(scheduled, err, <<>>, rest)
    <3>1. PICK rest \in {stack, Tail(stack)} : \E err : FinishNext(scheduled, err, <<>>, rest)
      BY <2>1
    <3>2. rest \in Seq(Frames) /\ stack # <<>> /\ Head(stack).op \in {"drain", "unanswered"}
      BY <1>0, <1>a, <1>10, <3>1 DEF Drain, Unanswered, At
    <3> QED
      BY <1>a, <3>1, <3>2, LeftOnStack DEF FramesStep, Suspends
  <2>2. CASE At("drain") /\ stack' = Push(Slot, Tail(stack))
    BY <1>a, <1>c, <2>2, HasPush DEF At, FramesStep, Suspends
  <2> QED
    BY <1>10, <2>1, <2>2 DEF Drain, Unanswered
<1>11. CASE ErrorClose \/ HangUp
  BY <1>11, <1>a, DisconnectFrames DEF ErrorClose, HangUp, At
<1>12. CASE SocketAbort
  <2>1. At("socketAbort") /\ (SocketClosed(Tail(stack)) \/ stack' = Tail(stack))
    BY <1>12 DEF SocketAbort, Return
  <2>2. CASE stack' = Tail(stack)
    BY <2>1, <2>2, <1>a DEF At, FramesStep, Suspends
  <2>3. CASE SocketClosed(Tail(stack))
    BY <2>1, <2>3, <1>a, DisconnectFrames DEF At
  <2> QED
    BY <2>1, <2>2, <2>3
<1>13. CASE ExecNext \/ ReadyRead
  BY <1>13, <1>1, <1>6 DEF ExecNext, ExecNothing, ExecNotConnected, CanExecNext, Idling,
     ReadyRead, OnReceivedData
<1>17. CASE Flushed
  <2>1. CASE SocketClosed(stack)
    BY <1>0, <2>1, DisconnectFrames
  <2> QED
    BY <1>17, <1>1, <2>1 DEF Flushed, channelVars
<1>18. CASE AppExec \/ AppConnect \/ DeviceAnswers \/ ConnectFails \/ Timeout
  BY <1>18, <1>1, <1>3 DEF AppExec, Exec, AppConnect, DeviceAnswers, ConnectFails, Timeout, channelVars
<1> QED
  BY <1>2, <1>4, <1>5, <1>8, <1>9, <1>10, <1>11, <1>12, <1>13, <1>14, <1>15, <1>16, <1>17, <1>18
     DEF Next, App, Loop, Net, Resume

-----------------------------------------------------------------------------
(* disconnectedFromDevice() is emitted when the connection is down.        *)

LEMMA NextDown ==
  ASSUME IInv, ChannelAssumption, Down, [Next]_vars
  PROVE  Down'
<1>1. CASE UNCHANGED vars
  BY <1>1 DEF vars, channelVars, tcpVars, Down, IsConnected
<1>2. CASE Next
  <2>1. Suspends("drain") => Closes
    BY <1>2, NextFrames DEF FramesStep
  <2>2. ASSUME Has(stack, "drain") PROVE ~IsConnected'
    <3>1. stack # <<>> /\ socket # "Connected"
      BY <2>2 DEF Has, Down, IsConnected
    <3>2. socket' = "Connected" => socket = "Connected" \/ stack = <<>>
      BY <1>2 DEF Next, App, Loop, Net, Resume, AppExec, AppConnect, AppDisconnect, AppReturns,
         ExecNext, SendData, WriteFails, FlushFails, Timeout, SocketConnected, ConnectFails,
         PeerCloses, Flushed, DeviceAnswers, ReadyRead, ErrorClose, SocketAbort, HangUp,
         StartTimer, DoDisconnect, SocketClosed, IsConnected, Idling, tcpVars
    <3> QED
      BY <3>1, <3>2 DEF IsConnected
  <2>3. Closes => ~IsConnected'
    BY DEF Closes, IsConnected
  <2> QED
    BY <2>1, <2>2, <2>3 DEF Down, Suspends
<1> QED
  BY <1>1, <1>2

\* When disconnectedFromDevice() is emitted the connection is down, whatever
\* the slots that ran while the queue was failed have called.
THEOREM DownWhenTold == Spec => DisconnectedWhenDown
<1>1. Init => Down
  BY DEF Init, ChannelInit, Down, Has
<1>2. IInv /\ Down /\ [Next]_vars => Down'
  BY NextDown, ChannelAssumption
<1>3. IInv /\ Down /\ [Next]_vars => [At("drain") /\ queue = <<>> => ~IsConnected']_vars
  <2>1. ASSUME IInv, Down, Next, At("drain") PROVE ~IsConnected'
    <3>1. stack # <<>> /\ Head(stack).op = "drain" /\ Has(stack, "drain")
      BY <2>1, TailType, HasTail DEF At, IInv, ChannelInv, ChannelTypeOK
    <3>2. socket' = socket
      BY <2>1, <3>1 DEF Next, App, Loop, Net, Resume, AppExec, AppConnect, AppDisconnect,
         AppReturns, SlotReturns, ExecNext, ExecNothing, ExecNotConnected, CanExecNext, ExecSend,
         SendData, WriteFails, FlushFails, Timeout, SocketConnected, ConnectFails, PeerCloses,
         Flushed, DeviceAnswers, ReadyRead, ErrorClose, SocketAbort, HangUp, StartTimer,
         Exec, AppTurn, At, Idling, tcpVars
    <3> QED
      BY <2>1, <3>1, <3>2 DEF Down, IsConnected
  <2> QED
    BY <2>1
<1> QED
  BY <1>1, <1>2, <1>3, Invariance, PTL DEF Spec, DisconnectedWhenDown

-----------------------------------------------------------------------------
(* The response timer.                                                     *)

AllAnswered == \A kind \in RequestKinds : kind.needResponse \/ kind.toBoard \/ AlwaysResponse

LEMMA AnswerNeeded ==
  ASSUME IInv, AllAnswered, NEW r \in Ids
  PROVE  NeedsResponse(r)
BY DEF IInv, ChannelInv, ChannelTypeOK, Replies, AllAnswered, NeedsResponse

LEMMA NextTiming ==
  ASSUME IInv, IInv', ChannelAssumption, AllAnswered, "flushFails" \notin Faults, Timing, Next
  PROVE  Timing'
<1>0. ChannelInv /\ stack \in Seq(Frames) /\ queue \in Seq(Ids)
  BY DEF IInv, ChannelInv, ChannelTypeOK
<1>1. FramesStep
  BY NextFrames
<1>2. ~Has(stack', "startTimer") /\ ~Has(stack', "unanswered")
  <2>1. queue # <<>> => Head(queue) \in Ids
    BY <1>0
  <2> QED
    BY <1>1, <2>1, AnswerNeeded DEF FramesStep, Suspends, Timing, CanExecNext
<1>3. SUFFICES ASSUME timer'
      PROVE  /\ stack' = <<>> /\ socket' \in {"Connected", "Closing"}
             /\ queue' # <<>> /\ reply'[Head(queue')].state = "Running"
  BY <1>2 DEF Timing
<1>4. CASE SendData
  <2>1. /\ queue' = queue /\ queue # <<>> /\ reply' = [reply EXCEPT ![Head(queue)].state = "Running"]
        /\ socket' = "Connected" /\ stack' = <<>> \o <<>>
    BY <1>0, <1>4, AnswerNeeded DEF SendData, ExecSend, CanExecNext, IsConnected
  <2>2. Head(queue) \in Ids /\ reply \in [Ids -> Replies]
    BY <1>0, <2>1 DEF ChannelInv, ChannelTypeOK
  <2> QED
    BY <2>1, <2>2 DEF Replies
<1>5. CASE ~SendData
  <2>1. ~At("startTimer")
    BY <1>0, TailType DEF At, Timing, Has
  <2>2. timer
    BY <1>3, <1>5, <2>1 DEF Next, App, Loop, Net, Resume, AppExec, AppConnect, AppDisconnect,
       AppReturns, ExecNext, WriteFails, FlushFails, Timeout, SocketConnected, ConnectFails,
       PeerCloses, Flushed, DeviceAnswers, ReadyRead, ErrorClose, SocketAbort, HangUp,
       StartTimer, DoDisconnect, SocketClosed, Abort, tcpVars
  <2>3. /\ stack = <<>> /\ socket \in {"Connected", "Closing"}
        /\ queue # <<>> /\ reply[Head(queue)].state = "Running"
    BY <2>2 DEF Timing
  <2>4. CASE AppExec
    <3>1. PICK kind \in RequestKinds : Exec(kind)
      BY <2>4 DEF AppExec
    <3>2. stack' = stack /\ socket' = socket
      BY <2>4, <3>1 DEF AppExec, Exec, tcpVars
    <3>3. /\ queue' = Append(queue, issued + 1) /\ issued + 1 \in Ids /\ Head(queue) \in Ids
          /\ reply' = [reply EXCEPT ![issued + 1] = [@ EXCEPT !.state = "Pending", !.kind = kind]]
          /\ reply[issued + 1].state = "Idle" /\ reply \in [Ids -> Replies]
      BY <1>0, <2>3, <3>1, ChannelAssumption, NextIsIdle DEF Exec, ChannelInv, ChannelTypeOK
    <3>4. Head(queue') = Head(queue) /\ queue' # <<>>
      BY <1>0, <2>3, <3>3
    <3> QED
      BY <2>3, <3>2, <3>3, <3>4
  <2>5. CASE AppConnect \/ AppDisconnect
    <3>1. /\ stack' = stack /\ UNCHANGED queueVars /\ socket' = "Closing"
      BY <1>3, <2>3, <2>5 DEF AppConnect, AppDisconnect, IsConnected, DoDisconnect, SocketClosed, Abort
    <3> QED
      BY <2>3, <3>1 DEF queueVars
  <2>6. CASE ExecNext
    BY <2>3, <2>6 DEF ExecNext, ExecNothing, ExecNotConnected, CanExecNext, tcpVars
  <2>7. CASE Flushed \/ DeviceAnswers
    BY <1>3, <2>3, <2>7 DEF Flushed, DeviceAnswers, SocketClosed, channelVars, queueVars
  <2>8. CASE WriteFails \/ FlushFails \/ Timeout \/ (Net /\ ~Flushed /\ ~DeviceAnswers)
    BY <1>3, <2>3, <2>8 DEF WriteFails, FlushFails, Timeout, Net, SocketConnected, ConnectFails,
       PeerCloses, ReadyRead, Abort
  <2>9. CASE AppReturns \/ Resume
    BY <2>3, <2>9 DEF AppReturns, SlotReturns, Resume, ErrorFinish, Drain, Unanswered, ErrorClose,
       SocketAbort, HangUp, StartTimer, At
  <2> QED
    BY <1>5, <2>4, <2>5, <2>6, <2>7, <2>8, <2>9 DEF Next, App, Loop
<1> QED
  BY <1>4, <1>5

\* Between events the response timer runs only while a request waits for its
\* response, when every request waits for one and flush() never finds the
\* connection broken (after which doSendData starts the timer for nothing).
THEOREM TimerWaits ==
  ASSUME AllAnswered, "flushFails" \notin Faults
  PROVE  Spec => []TimerOnlyWhileWaiting
<1>1. Init => Timing
  BY DEF Init, ChannelInit, Timing, Has
<1>2. IInv /\ IInv' /\ Timing /\ [Next]_vars => Timing'
  <2>1. ASSUME UNCHANGED vars, Timing PROVE Timing'
    BY <2>1 DEF vars, channelVars, tcpVars, queueVars, Timing
  <2> QED
    BY <2>1, NextTiming, ChannelAssumption
<1>3. IInv /\ Timing => TimerOnlyWhileWaiting
  <2>1. IInv /\ queue # <<>> => Head(queue) \in Ids
    BY DEF IInv, ChannelInv, ChannelTypeOK
  <2> QED
    BY <2>1, AnswerNeeded DEF Timing, TimerOnlyWhileWaiting
<1> QED
  BY <1>1, <1>2, <1>3, Invariance, PTL DEF Spec

-----------------------------------------------------------------------------
(***************************************************************************)
(* Answers in their turn, when every request is answered and no answer     *)
(* arrives in pieces.                                                      *)
(***************************************************************************)

\* The frames of the TCP channel report no other error.
TcpFrames == {f \in Frames : f.op \in {"errorFinish", "errorClose"} => f.err = "TransportError"}

LEMMA TcpFrameType ==
  /\ Slot \in TcpFrames
  /\ \A op \in Ops \ {"errorFinish", "errorClose"} : Frame(op) \in TcpFrames
  /\ \A op \in Ops : [op |-> op, err |-> "TransportError"] \in TcpFrames
BY DEF TcpFrames, Frames, Slot, Frame, Ops, Errors

\* What the functions of the channel leave on the stack.
LEMMA LeftTcpFrames ==
  ASSUME NEW rest \in Seq(TcpFrames),
         \/ SetError("TransportError", rest) \/ OnConnected(rest) \/ OnDisconnected(rest)
         \/ \E posted, err, data : FinishNext(posted, err, data, rest)
  PROVE  stack' \in Seq(TcpFrames)
<1> DEFINE fail == [op |-> "errorFinish", err |-> "TransportError"]
<1>1. Slot \in TcpFrames /\ fail \in TcpFrames /\ Frame("drain") \in TcpFrames
  BY TcpFrameType DEF Ops
<1>2. SetError("TransportError", rest) => stack' = Push(Slot, Push(fail, rest))
  BY DEF SetError
<1> HIDE DEF fail
<1>3. ASSUME NEW f \in TcpFrames, NEW s \in Seq(TcpFrames) PROVE Push(f, s) \in Seq(TcpFrames)
  <2>1. <<f>> \in Seq(TcpFrames)
    OBVIOUS
  <2> QED
    BY <2>1, ConcatProperties DEF Push
<1> QED
  BY <1>1, <1>2, <1>3 DEF OnConnected, OnDisconnected, FinishNext

LEMMA NextTcpFrames ==
  ASSUME ChannelAssumption, stack \in Seq(TcpFrames), Next
  PROVE  stack' \in Seq(TcpFrames)
<1>0. stack # <<>> => Tail(stack) \in Seq(TcpFrames) /\ Head(stack) \in TcpFrames
  OBVIOUS
<1>1. ASSUME NEW sent \in Seq(TcpFrames), ExecSend(sent) PROVE stack' \in Seq(TcpFrames)
  <2>1. <<>> \in Seq(TcpFrames) /\ <<Frame("unanswered")>> \in Seq(TcpFrames)
    BY TcpFrameType DEF Ops
  <2> QED
    BY <1>1, <2>1, ConcatProperties DEF ExecSend
<1>2. CASE App \/ AppReturns
  BY <1>0, <1>2, LeftTcpFrames DEF App, AppExec, Exec, AppConnect, AppDisconnect, AppReturns,
     SlotReturns, DoDisconnect, SocketClosed, Abort, At, Return, channelVars
<1>3. CASE ExecNext \/ Timeout
  BY <1>3, LeftTcpFrames DEF ExecNext, ExecNothing, ExecNotConnected, CanExecNext, Idling, Timeout, Abort
<1>4. CASE SendData
  <2>1. <<>> \in Seq(TcpFrames)
    OBVIOUS
  <2> QED
    BY <1>1, <1>4, <2>1 DEF SendData
<1>5. CASE WriteFails \/ FlushFails
  <2> DEFINE fail == [op |-> "errorFinish", err |-> "TransportError"]
             write == <<Slot, fail>>
             flush == <<Slot, fail, Frame("socketAbort"), Frame("startTimer")>>
  <2>1. ExecSend(write) \/ ExecSend(flush)
    BY <1>5 DEF WriteFails, FlushFails
  <2>2. /\ Slot \in TcpFrames /\ fail \in TcpFrames
        /\ Frame("socketAbort") \in TcpFrames /\ Frame("startTimer") \in TcpFrames
    BY TcpFrameType DEF Ops
  <2> HIDE DEF fail
  <2>3. write \in Seq(TcpFrames) /\ flush \in Seq(TcpFrames)
    BY <2>2
  <2> HIDE DEF write, flush
  <2> QED
    BY <1>1, <2>1, <2>3
<1>6. CASE Net
  <2>1. /\ <<Frame("socketAbort")>> \in Seq(TcpFrames) /\ <<Frame("hangUp")>> \in Seq(TcpFrames)
        /\ <<>> \in Seq(TcpFrames)
    BY TcpFrameType DEF Ops
  <2>2. CASE SocketConnected \/ ConnectFails \/ PeerCloses
    BY <2>1, <2>2, LeftTcpFrames DEF SocketConnected, ConnectFails, PeerCloses, Abort
  <2>3. CASE Flushed \/ DeviceAnswers \/ ReadyRead
    BY <2>3, LeftTcpFrames DEF Flushed, DeviceAnswers, ReadyRead, SocketClosed, OnReceivedData, channelVars
  <2> QED
    BY <1>6, <2>2, <2>3 DEF Net
<1>7. CASE ErrorFinish
  <2> DEFINE close == [op |-> "errorClose", err |-> Head(stack).err]
  <2>1. close \in TcpFrames /\ Tail(stack) \in Seq(TcpFrames)
    BY <1>0, <1>7 DEF ErrorFinish, At, TcpFrames, Frames, Ops, Errors
  <2>2. FinishNext(scheduled, Head(stack).err, <<>>, Push(close, Tail(stack)))
    BY <1>7 DEF ErrorFinish
  <2> HIDE DEF close
  <2>3. <<close>> \in Seq(TcpFrames)
    BY <2>1
  <2>4. Push(close, Tail(stack)) \in Seq(TcpFrames)
    BY <2>1, <2>3, ConcatProperties DEF Push
  <2> QED
    BY <2>2, <2>4, LeftTcpFrames
<1>8. CASE Drain \/ Unanswered
  <2>1. ASSUME stack # <<>> PROVE Push(Slot, Tail(stack)) \in Seq(TcpFrames)
    <3>1. <<Slot>> \in Seq(TcpFrames)
      BY TcpFrameType
    <3> QED
      BY <1>0, <2>1, <3>1, ConcatProperties DEF Push
  <2> QED
    BY <1>0, <1>8, <2>1, LeftTcpFrames DEF Drain, Unanswered, At
<1>9. CASE ErrorClose \/ SocketAbort \/ HangUp \/ StartTimer
  BY <1>0, <1>9, LeftTcpFrames DEF ErrorClose, SocketAbort, HangUp, StartTimer, DoDisconnect,
     SocketClosed, At, Return
<1> QED
  BY <1>2, <1>3, <1>4, <1>5, <1>6, <1>7, <1>8, <1>9 DEF Next, Loop, Resume

\* Nothing is on its way any more.
LEMMA NothingOut ==
  ASSUME atDevice' = <<>>, inbox' = <<>>, ~Has(stack', "unanswered"),
         socket' = "Closing" => unflushed'
  PROVE  Answering'
BY DEF Answering

\* What is on its way stays there, and so does what waits for it or ends it.
LEMMA StillOut ==
  ASSUME Answering, UNCHANGED <<atDevice, inbox>>, ~Has(stack', "unanswered"),
         socket' = "Closing" => unflushed',
         inbox # <<>> => ~unflushed',
         atDevice # <<>> \/ inbox # <<>> => socket' \in {"Connected", "Closing"},
         WillClose => WillClose',
         stack = <<>> /\ queue # <<>> /\ reply[Head(queue)].state = "Running" =>
           \/ WillClose'
           \/ /\ stack' = <<>> /\ queue' # <<>> /\ Head(queue') = Head(queue)
              /\ reply'[Head(queue)].state = "Running"
  PROVE  Answering'
BY DEF Answering, Outstanding

\* The answer that arrives is the answer to the oldest request.
LEMMA AnswerInTurn ==
  ASSUME IInv, Answering, ReadyRead
  PROVE  /\ queue # <<>> /\ reply[Head(queue)].state = "Running" /\ Head(queue) \in Ids
         /\ OnReceivedData(Whole(Head(queue)))
         /\ inbox' = <<>> /\ atDevice = <<>>
<1>1. PICK k \in 1..Len(inbox) :
        OnReceivedData(SubSeq(inbox, 1, k)) /\ inbox' = SubSeq(inbox, k + 1, Len(inbox))
  BY DEF ReadyRead
<1>2. inbox # <<>> /\ stack = <<>> /\ inbox \in Seq(Pieces)
  BY <1>1 DEF ReadyRead, Idling, IInv, TcpTypeOK
<1>3. ~WillClose
  BY <1>2 DEF Answering, WillClose, Has
<1>4. PICK r \in Ids : /\ Outstanding(r) /\ queue # <<>> /\ r = Head(queue)
                       /\ reply[r].state = "Running"
  BY <1>2, <1>3 DEF Answering
<1>5. inbox = Whole(r) /\ Len(inbox) = 1 /\ atDevice = <<>>
  BY <1>2, <1>4 DEF Outstanding, Whole
<1>6. k = 1 /\ SubSeq(inbox, 1, k) = inbox /\ SubSeq(inbox, k + 1, Len(inbox)) = <<>>
  BY <1>1, <1>2, <1>5
<1>7. OnReceivedData(Whole(Head(queue)))
  BY <1>1, <1>4, <1>5, <1>6, Zenon
<1> QED
  BY <1>1, <1>4, <1>5, <1>6, <1>7, Zenon

LEMMA NextAnswering ==
  ASSUME IInv, IInv', ChannelAssumption, AllAnswered, "split" \notin Faults,
         Answering, Down, Next
  PROVE  Answering'
<1>0. /\ ChannelInv /\ stack \in Seq(Frames) /\ queue \in Seq(Ids) /\ reply \in [Ids -> Replies]
      /\ queue # <<>> => Head(queue) \in Ids
  BY DEF IInv, ChannelInv, ChannelTypeOK
<1>1. FramesStep
  BY NextFrames
<1>2. ~Has(stack', "unanswered")
  BY <1>0, <1>1, AnswerNeeded DEF FramesStep, Suspends, Answering, CanExecNext
<1>3. ASSUME ~ErrorClose, socket = "Closing" => socket' = "Closing"
      PROVE  WillClose => WillClose'
  BY <1>1, <1>3 DEF FramesStep, WillClose
<1>4. CASE AppExec
  <2>1. PICK kind \in RequestKinds : Exec(kind)
    BY <1>4 DEF AppExec
  <2>2. stack' = stack /\ UNCHANGED <<socket, unflushed, atDevice, inbox>>
    BY <1>4, <2>1 DEF AppExec, Exec, tcpVars
  <2>3. /\ queue' = Append(queue, issued + 1) /\ issued + 1 \in Ids
        /\ reply' = [reply EXCEPT ![issued + 1] = [@ EXCEPT !.state = "Pending", !.kind = kind]]
        /\ reply[issued + 1].state = "Idle"
    BY <1>0, <2>1, ChannelAssumption, NextIsIdle DEF Exec
  <2>4. queue # <<>> => Head(queue') = Head(queue) /\ queue' # <<>>
    BY <1>0, <2>3
  <2>5. queue # <<>> /\ reply[Head(queue)].state = "Running" => reply'[Head(queue)].state = "Running"
    BY <1>0, <2>3
  <2>6. WillClose => WillClose'
    BY <2>2 DEF WillClose
  <2> QED
    BY <1>2, <2>2, <2>4, <2>5, <2>6, StillOut DEF Answering
<1>5. CASE AppConnect
  <2>1. CASE socket = "Unconnected" /\ socket' = "Connecting"
    BY <1>2, <1>5, <2>1, NothingOut DEF AppConnect, Answering
  <2>2. CASE socket = "Closing" /\ socket' = "Closing"
    BY <1>2, <1>5, <2>2, StillOut DEF AppConnect, Answering, WillClose
  <2> QED
    BY <1>5, <2>1, <2>2 DEF AppConnect
<1>6. CASE AppDisconnect
  <2>1. DoDisconnect(stack) /\ socket = "Connected"
    BY <1>6 DEF AppDisconnect, IsConnected
  <2>2. CASE SocketClosed(stack)
    BY <1>2, <2>2, NothingOut DEF SocketClosed
  <2>3. CASE stack' = stack /\ socket' = "Closing" /\ unflushed /\ UNCHANGED <<unflushed, atDevice, inbox>>
    BY <1>2, <2>1, <2>3, StillOut DEF Answering, WillClose
  <2> QED
    BY <2>1, <2>2, <2>3 DEF DoDisconnect
<1>7. ASSUME UNCHANGED <<socket, unflushed, atDevice, inbox>>, stack # <<>>, ~ErrorClose
      PROVE  Answering'
  BY <1>2, <1>3, <1>7, StillOut DEF Answering
<1>8. CASE AppReturns \/ StartTimer
  BY <1>7, <1>8 DEF AppReturns, SlotReturns, StartTimer, ErrorClose, At, tcpVars
<1>9. CASE ExecNext
  <2>1. CASE ExecNothing /\ UNCHANGED tcpVars
    BY <1>2, <2>1, StillOut DEF ExecNothing, Answering, WillClose, tcpVars
  <2>2. CASE ~IsConnected /\ ExecNotConnected /\ UNCHANGED tcpVars
    BY <1>2, <2>2, StillOut DEF IsConnected, Answering, WillClose, tcpVars
  <2> QED
    BY <1>9, <2>1, <2>2 DEF ExecNext
<1>10. ASSUME CanExecNext, IsConnected
       PROVE  atDevice = <<>> /\ inbox = <<>>
  BY <1>10 DEF CanExecNext, IsConnected, Idling, Answering, WillClose, Has
<1>11. CASE SendData
  <2>1. /\ queue' = queue /\ queue # <<>> /\ reply' = [reply EXCEPT ![Head(queue)].state = "Running"]
        /\ socket = "Connected" /\ socket' = socket /\ stack' = <<>> \o <<>>
        /\ inbox' = <<>> /\ atDevice' = <<Head(queue)>>
    <3>1. IsConnected /\ CanExecNext /\ queue # <<>> /\ NeedsResponse(Head(queue))
      BY <1>0, <1>11, AnswerNeeded DEF SendData, ExecSend, CanExecNext
    <3>2. atDevice = <<>> /\ inbox = <<>>
      BY <1>10, <3>1
    <3>3. Append(<<>>, Head(queue)) = <<Head(queue)>>
      OBVIOUS
    <3> QED
      BY <1>11, <3>1, <3>2, <3>3 DEF SendData, ExecSend, IsConnected
  <2>2. reply'[Head(queue)].state = "Running"
    BY <1>0, <2>1 DEF Replies
  <2> QED
    BY <1>0, <1>2, <2>1, <2>2 DEF Answering, Outstanding
<1>12. CASE WriteFails \/ FlushFails
  BY <1>2, <1>10, <1>12, NothingOut DEF WriteFails, FlushFails, ExecSend, IsConnected
<1>13. ASSUME Has(stack', "errorFinish"), UNCHANGED <<socket, unflushed, atDevice, inbox>>
       PROVE  Answering'
  BY <1>2, <1>13, StillOut DEF Answering, WillClose
<1>14. CASE Timeout
  BY <1>0, <1>13, <1>14, LeftOnStack DEF Timeout, Abort
<1>15. CASE PeerCloses
  <2>1. <<Frame("socketAbort")>> \in Seq(Frames)
    BY FrameType DEF Ops
  <2> QED
    BY <1>13, <1>15, <2>1, LeftOnStack DEF PeerCloses, Abort
<1>16. CASE SocketConnected \/ ConnectFails
  BY <1>2, <1>16, NothingOut DEF SocketConnected, ConnectFails, Answering
<1>17. CASE Flushed
  <2>1. CASE SocketClosed(stack)
    BY <1>2, <2>1, NothingOut DEF SocketClosed
  <2>2. CASE socket = "Connected" /\ unflushed' = FALSE
             /\ UNCHANGED <<channelVars, socket, atDevice, inbox>>
    BY <1>2, <2>2, StillOut DEF channelVars, queueVars, Answering, WillClose
  <2> QED
    BY <1>17, <2>1, <2>2 DEF Flushed
<1>18. CASE DeviceAnswers
  <2>1. /\ stack = <<>> /\ atDevice # <<>> /\ ~unflushed /\ atDevice' = Tail(atDevice)
        /\ inbox' = inbox \o Whole(Head(atDevice))
        /\ UNCHANGED <<channelVars, socket, unflushed>>
    BY <1>18 DEF DeviceAnswers, Idling
  <2>2. ~WillClose
    BY <2>1 DEF Answering, WillClose, Has
  <2>3. PICK r \in Ids : /\ Outstanding(r) /\ queue # <<>> /\ r = Head(queue)
                         /\ reply[r].state = "Running"
    BY <2>1, <2>2 DEF Answering
  <2>4. atDevice = <<r>> /\ inbox = <<>>
    BY <2>1, <2>3 DEF Outstanding
  <2>5. atDevice' = <<>> /\ inbox' = Whole(r)
    BY <2>1, <2>4 DEF Whole
  <2> QED
    BY <1>2, <2>1, <2>2, <2>3, <2>5 DEF Answering, Outstanding, channelVars, queueVars
<1>19. CASE ReadyRead
  BY <1>2, <1>19, AnswerInTurn, NothingOut DEF ReadyRead, Answering
<1>20. CASE (ErrorFinish \/ Drain \/ Unanswered) /\ UNCHANGED tcpVars
  BY <1>7, <1>20 DEF ErrorFinish, Drain, Unanswered, ErrorClose, At, tcpVars
<1>21. CASE ErrorClose \/ HangUp
  <2>1. DoDisconnect(Tail(stack)) /\ stack # <<>>
    BY <1>21 DEF ErrorClose, HangUp, At
  <2>2. CASE SocketClosed(Tail(stack))
    BY <1>2, <2>2, NothingOut DEF SocketClosed
  <2>3. CASE ~SocketClosed(Tail(stack))
    <3>1. /\ UNCHANGED <<unflushed, atDevice, inbox>>
          /\ socket' = IF socket = "Connected" THEN "Closing" ELSE socket
          /\ socket = "Connected" => unflushed
      BY <2>1, <2>3 DEF DoDisconnect
    <3>2. CASE socket \in {"Connected", "Closing"}
      BY <1>2, <2>1, <3>1, <3>2, StillOut DEF Answering, WillClose
    <3>3. CASE socket \notin {"Connected", "Closing"}
      BY <1>2, <3>1, <3>3, NothingOut DEF Answering
    <3> QED
      BY <3>2, <3>3
  <2> QED
    BY <2>2, <2>3
<1>22. CASE SocketAbort
  <2>1. CASE SocketClosed(Tail(stack))
    BY <1>2, <2>1, NothingOut DEF SocketClosed
  <2>2. CASE socket \notin {"Connected", "Closing"} /\ UNCHANGED <<socket, unflushed, atDevice, inbox>>
    BY <1>2, <2>2, NothingOut DEF Answering
  <2> QED
    BY <1>22, <2>1, <2>2 DEF SocketAbort, IInv, TcpTypeOK
<1> QED
  BY <1>4, <1>5, <1>6, <1>8, <1>9, <1>11, <1>12, <1>14, <1>15, <1>16, <1>17, <1>18, <1>19,
     <1>20, <1>21, <1>22 DEF Next, App, Loop, Net, Resume

\* A reply changes when its request is accepted, begun, ended with an error,
\* or ended by its own answer while it runs.
LEMMA RepliesStep ==
  ASSUME IInv, ChannelAssumption, AllAnswered, Answering, stack \in Seq(TcpFrames), Next,
         NEW r \in Ids
  PROVE  \/ reply'[r] = reply[r]
         \/ reply'[r].state \in {"Pending", "Running"}
         \/ reply'[r].error # "NoError"
         \/ reply[r].state = "Running" /\ reply'[r].data = Whole(r)
<1>0. /\ stack \in Seq(Frames) /\ queue \in Seq(Ids) /\ reply \in [Ids -> Replies]
      /\ queue # <<>> => Head(queue) \in Ids
      /\ stack # <<>> => Head(stack) \in TcpFrames
  BY DEF IInv, ChannelInv, ChannelTypeOK
<1>1. ASSUME NEW posted, NEW err, NEW data, NEW rest, FinishNext(posted, err, data, rest)
      PROVE  \/ reply'[r] = reply[r]
             \/ reply'[r].error = err /\ reply'[r].data = data /\ r = Head(queue)
  BY <1>0, <1>1 DEF FinishNext, Replies
<1>2. CASE AppExec
  <2>1. PICK kind \in RequestKinds : Exec(kind)
    BY <1>2 DEF AppExec
  <2>2. reply' = [reply EXCEPT ![issued + 1] = [@ EXCEPT !.state = "Pending", !.kind = kind]]
    BY <2>1 DEF Exec
  <2> QED
    BY <1>0, <2>2 DEF Replies
<1>3. CASE SendData \/ WriteFails \/ FlushFails
  <2>1. reply' = [reply EXCEPT ![Head(queue)].state = "Running"]
    BY <1>3 DEF SendData, WriteFails, FlushFails, ExecSend
  <2> QED
    BY <1>0, <2>1 DEF Replies
<1>4. CASE ExecNext
  BY ZenonT(60), <1>1, <1>4 DEF ExecNext, ExecNothing, ExecNotConnected
<1>5. CASE ReadyRead
  <2>1. /\ reply[Head(queue)].state = "Running" /\ OnReceivedData(Whole(Head(queue)))
    BY <1>5, AnswerInTurn
  <2>2. PICK err \in {"NoError", "UnexpectedParamType", "InvalidResponseMsgType"},
             data \in {Whole(Head(queue)), <<>>} :
          /\ FinishNext(scheduled, err, data, stack)
          /\ err = "NoError" => data = Whole(Head(queue))
    BY <2>1 DEF OnReceivedData
  <2> QED
    BY <1>1, <2>1, <2>2
<1>6. CASE ErrorFinish
  <2>1. FinishNext(scheduled, Head(stack).err, <<>>,
          Push([op |-> "errorClose", err |-> Head(stack).err], Tail(stack)))
        /\ Head(stack).err = "TransportError"
    BY <1>0, <1>6 DEF ErrorFinish, At, TcpFrames
  <2> QED
    BY <1>1, <2>1
<1>7. CASE Drain
  BY <1>1, <1>7 DEF Drain, queueVars
<1>8. ~Unanswered
  BY <1>0, TailType DEF Unanswered, At, Answering, Has
<1>9. CASE UNCHANGED reply
  BY <1>9
<1>10. CASE AppConnect \/ AppDisconnect \/ AppReturns \/ Timeout \/ SocketConnected \/ ConnectFails
            \/ PeerCloses \/ Flushed \/ DeviceAnswers \/ ErrorClose \/ SocketAbort \/ HangUp \/ StartTimer
  BY <1>9, <1>10 DEF AppConnect, AppDisconnect, AppReturns, SlotReturns, Timeout, SocketConnected,
     ConnectFails, PeerCloses, Flushed, DeviceAnswers, ErrorClose, SocketAbort, HangUp, StartTimer,
     DoDisconnect, SocketClosed, OnConnected, OnDisconnected, Abort, SetError, queueVars, channelVars
<1> QED
  BY <1>2, <1>3, <1>4, <1>5, <1>6, <1>7, <1>8, <1>10 DEF Next, App, Loop, Net, Resume

\* The invariant of the answers.
AnswerInv == Answering /\ Down /\ stack \in Seq(TcpFrames) /\ OwnAnswer

LEMMA AnswersKept ==
  ASSUME ChannelAssumption, AllAnswered, "split" \notin Faults
  PROVE  /\ Init => AnswerInv
         /\ IInv /\ IInv' /\ AnswerInv /\ [Next]_vars => AnswerInv'
<1>1. ASSUME Init PROVE AnswerInv
  <2>1. \A r \in Ids : reply[r].state = "Idle"
    BY <1>1 DEF Init, ChannelInit
  <2>2. stack = <<>> /\ socket = "Unconnected" /\ atDevice = <<>> /\ inbox = <<>>
    BY <1>1 DEF Init, ChannelInit
  <2> QED
    BY <2>1, <2>2 DEF AnswerInv, Answering, Down, OwnAnswer, Has
<1>2. ASSUME IInv, IInv', AnswerInv, Next PROVE AnswerInv'
  <2>1. Answering' /\ Down' /\ stack' \in Seq(TcpFrames)
    BY <1>2, NextAnswering, NextDown, NextTcpFrames DEF AnswerInv
  <2>2. ASSUME NEW r \in Ids, reply'[r].state = "Finished", reply'[r].error = "NoError"
        PROVE  reply'[r].data \in {Whole(r), Split(r)}
    BY <1>2, <2>2, RepliesStep, AnswerNeeded DEF AnswerInv, OwnAnswer
  <2> QED
    BY <2>1, <2>2 DEF AnswerInv, OwnAnswer
<1>3. ASSUME AnswerInv, UNCHANGED vars PROVE AnswerInv'
  BY <1>3 DEF vars, channelVars, queueVars, tcpVars, AnswerInv, Answering, Down, OwnAnswer,
     Outstanding, WillClose, IsConnected, NeedsResponse
<1> QED
  BY <1>1, <1>2, <1>3

\* When every request is answered, and no answer arrives in pieces, a request
\* that ends without an error carries its own answer: whatever broke before,
\* no answer to an earlier request is taken for it.
THEOREM OwnAnswers ==
  ASSUME AllAnswered, "split" \notin Faults
  PROVE  Spec => []OwnAnswer
<1>1. AnswerInv => OwnAnswer
  BY DEF AnswerInv
<1> QED
  BY <1>1, AnswersKept, ChannelAssumption, Invariance, PTL DEF Spec

\* Under the same conditions a request that was never sent does not end as a
\* success.
THEOREM NoUnsentSuccess ==
  ASSUME AllAnswered, "split" \notin Faults
  PROVE  Spec => SuccessMeansSent
<1>1. IInv /\ IInv' /\ AnswerInv /\ [Next]_vars
        => [\A r \in Ids : reply[r].state = "Pending" /\ reply'[r].state = "Finished" =>
              reply'[r].error # "NoError"]_vars
  BY RepliesStep, ChannelAssumption DEF AnswerInv
<1> QED
  BY <1>1, AnswersKept, ChannelAssumption, Invariance, PTL DEF Spec, SuccessMeansSent
===============================================================================
