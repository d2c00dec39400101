------------------------ MODULE AsyncVComChannelProofs ------------------------
(***************************************************************************)
(* Safety of the serial channel for every number of requests and calls,    *)
(* every choice of requests and every set of faults: the types, the order  *)
(* of the queue, the wakeup of execNext, that a running request is always  *)
(* guarded, that data without an error is one whole answer, and that the   *)
(* channel implements the service.                                         *)
(***************************************************************************)
EXTENDS AsyncVComChannel, AsyncChannelProofs

VComTypeOK ==
  /\ open \in BOOLEAN /\ timer \in BOOLEAN /\ calls \in 0..MaxCalls
  /\ received \in Seq(Pieces) /\ line \in Seq(Pieces) /\ atDevice \in Seq(Ids)

Guarded ==
  queue # <<>> /\ reply[Head(queue)].state = "Running" =>
    timer \/ Has(stack, "errorFinish") \/ Has(stack, "drain") \/ Has(stack, "startTimer")

\* The inductive invariant for everything but the data of the answers.
IInv == ChannelInv /\ VComTypeOK /\ Guarded

\* The functions a running request may be waiting for.
Guards == {"errorFinish", "drain", "startTimer"}

LEMMA InitIInv ==
  ASSUME ChannelAssumption, VComAssumption, Init
  PROVE  IInv
<1>1. ChannelInv /\ queue = <<>>
  BY InitChannelInv DEF Init, ChannelInit
<1>2. /\ open = FALSE /\ timer = FALSE /\ received = <<>> /\ calls = 0
      /\ atDevice = <<>> /\ line = <<>>
  BY DEF Init
<1>3. received \in Seq(Pieces) /\ line \in Seq(Pieces) /\ atDevice \in Seq(Ids)
      /\ calls \in 0..MaxCalls
  BY <1>2 DEF VComAssumption
<1> QED
  BY <1>1, <1>2, <1>3 DEF IInv, Guarded, VComTypeOK

-----------------------------------------------------------------------------
(* Steps that end or leave the running request alone. *)

LEMMA StillGuarded ==
  ASSUME IInv, UNCHANGED queueVars,
         timer => timer' \/ (\E g \in Guards : Has(stack', g)),
         \A g \in Guards : Has(stack, g) => Has(stack', g) \/ timer'
  PROVE  Guarded'
BY DEF IInv, Guarded, Guards, queueVars

LEMMA NoneRunning ==
  ASSUME queue' # <<>> => reply'[Head(queue')].state # "Running"
  PROVE  Guarded'
BY DEF Guarded

LEMMA AbortStep ==
  ASSUME IInv, NEW err \in Errors, NEW rest \in Seq(Frames), SetError(err, rest)
  PROVE  ChannelInv' /\ Guarded' /\ UNCHANGED queueVars
<1>1. ChannelInv' /\ UNCHANGED queueVars /\ Has(stack', "errorFinish")
  BY SetErrorStep DEF IInv
<1> QED
  BY <1>1 DEF Guarded

\* The port begins to close: the queue is failed before isOpen() is false.
LEMMA ClosingStep ==
  ASSUME IInv, NEW rest \in Seq(Frames), timer' = FALSE,
         OnDisconnected(Push(Frame("closed"), rest)),
         calls' \in 0..MaxCalls, UNCHANGED <<open, received, atDevice, line>>
  PROVE  IInv'
<1>1. Push(Frame("closed"), rest) \in Seq(Frames)
  BY FrameType, PushProperties DEF Ops
<1>2. ChannelInv' /\ Has(stack', "drain")
  BY <1>1, OnDisconnectedStep DEF IInv
<1>3. VComTypeOK'
  BY DEF IInv, VComTypeOK
<1> QED
  BY <1>2, <1>3 DEF IInv, Guarded

-----------------------------------------------------------------------------
(* The actions. *)

LEMMA AppStep ==
  ASSUME IInv, ChannelAssumption, VComAssumption,
         AppExec \/ AppConnect \/ AppDisconnect \/ AppReturns
  PROVE  IInv'
<1>0. ChannelInv /\ stack \in Seq(Frames) /\ "TransportError" \in Errors
  BY DEF IInv, ChannelInv, ChannelTypeOK, Errors
<1>1. CASE AppExec
  <2>1. PICK kind \in RequestKinds : Exec(kind)
    BY <1>1 DEF AppExec
  <2>2. ChannelInv'
    BY <1>0, <2>1, ExecStep
  <2>3. VComTypeOK' /\ timer' = timer /\ stack' = stack
    BY <1>1, <2>1 DEF AppExec, Exec, vcomVars, IInv, VComTypeOK
  <2>4. queue' # <<>> /\ reply'[Head(queue')].state = "Running"
          => queue # <<>> /\ reply[Head(queue)].state = "Running"
    BY <1>0, <2>1, ExecHead
  <2> QED
    BY <2>2, <2>3, <2>4 DEF IInv, Guarded
<1>a. ASSUME calls < MaxCalls, calls' = calls + 1 PROVE calls' \in 0..MaxCalls
  BY <1>a DEF VComAssumption, IInv, VComTypeOK
<1>2. CASE AppConnect
  <2>0. calls' \in 0..MaxCalls /\ UNCHANGED <<received, atDevice, line>>
    BY <1>2, <1>a DEF AppConnect
  <2>1. CASE open' = TRUE /\ OnConnected(stack) /\ UNCHANGED timer
    <3>1. ChannelInv' /\ UNCHANGED queueVars /\ \A op \in Ops : Has(stack, op) => Has(stack', op)
      BY <1>0, <2>1, OnConnectedStep
    <3>2. Guarded'
      BY <2>1, <3>1, StillGuarded DEF Ops, Guards
    <3> QED
      BY <2>0, <2>1, <3>1, <3>2 DEF IInv, VComTypeOK
  <2>2. CASE Abort("TransportError", stack) /\ UNCHANGED open
    <3>1. ChannelInv' /\ Guarded' /\ timer' = FALSE
      BY <1>0, <2>2, AbortStep DEF Abort
    <3> QED
      BY <2>0, <2>2, <3>1 DEF IInv, VComTypeOK
  <2> QED
    BY <1>2, <2>1, <2>2 DEF AppConnect
<1>3. CASE AppDisconnect
  BY <1>0, <1>3, <1>a, ClosingStep DEF AppDisconnect
<1>4. CASE AppReturns
  <2>1. /\ stack # <<>> /\ Head(stack).op = "slot" /\ Return /\ UNCHANGED queueVars
        /\ UNCHANGED vcomVars
    BY <1>4 DEF AppReturns, SlotReturns, At
  <2>2. ChannelInv' /\ \A op \in Ops : Has(stack, op) => Head(stack).op = op \/ Has(stack', op)
    BY <1>0, <2>1, ReturnStep
  <2>3. Guarded'
    BY <2>1, <2>2, StillGuarded DEF Ops, Guards, vcomVars
  <2> QED
    BY <2>1, <2>2, <2>3 DEF vcomVars, IInv, VComTypeOK
<1> QED
  BY <1>1, <1>2, <1>3, <1>4

\* What a failing send leaves on the stack ends the request.
LEMMA FailureType ==
  /\ Failure \in Seq(Frames) /\ Has(Failure, "errorFinish")
  /\ Append(Failure, Frame("startTimer")) \in Seq(Frames)
  /\ Has(Append(Failure, Frame("startTimer")), "errorFinish")
<1> DEFINE fail == [op |-> "errorFinish", err |-> "TransportError"]
<1>1. /\ fail \in Frames /\ fail.op = "errorFinish" /\ Slot \in Frames
      /\ Frame("startTimer") \in Frames /\ Failure = <<Slot, fail>>
  BY FrameType DEF Errors, Ops, Failure
<1> HIDE DEF fail
<1>2. /\ Failure \in Seq(Frames) /\ Len(Failure) = 2 /\ Failure[2] = fail
      /\ Append(Failure, Frame("startTimer")) \in Seq(Frames)
      /\ Len(Append(Failure, Frame("startTimer"))) = 3
      /\ Append(Failure, Frame("startTimer"))[2] = fail
  BY <1>1
<1> QED
  BY <1>1, <1>2 DEF Has

LEMMA SendStep ==
  ASSUME IInv, ChannelAssumption, VComAssumption, SendData \/ SendFails
  PROVE  IInv'
<1>0. ChannelInv /\ stack \in Seq(Frames) /\ <<>> \in Seq(Frames) /\ <<>> \in Seq(Pieces)
  BY DEF IInv, ChannelInv, ChannelTypeOK
<1>1. CASE SendData
  <2>1. ExecSend(<<>>) /\ timer' = TRUE
    BY <1>1 DEF SendData
  <2>2. ChannelInv'
    BY <1>0, <2>1, ExecSendStep
  <2>3. Head(queue) \in Ids
    BY <2>1, <1>0 DEF ExecSend, CanExecNext, ChannelInv, ChannelTypeOK
  <2>4. atDevice' \in {atDevice, Append(atDevice, Head(queue))}
    BY <1>1 DEF SendData
  <2>5. atDevice' \in Seq(Ids)
    BY SMTT(30), <2>3, <2>4 DEF IInv, VComTypeOK
  <2>6. received' = <<>> /\ UNCHANGED <<open, calls, line>>
    BY <1>1 DEF SendData
  <2>7. VComTypeOK'
    BY <1>0, <2>1, <2>5, <2>6 DEF IInv, VComTypeOK
  <2> QED
    BY <2>1, <2>2, <2>7 DEF IInv, Guarded
<1>2. CASE SendFails
  <2>1. /\ ExecSend(Failure) \/ ExecSend(Append(Failure, Frame("startTimer")))
        /\ timer' = FALSE /\ received' = <<>> /\ UNCHANGED <<open, calls, atDevice, line>>
    BY <1>2 DEF SendFails
  <2>2. /\ Failure \in Seq(Frames) /\ Has(Failure, "errorFinish")
        /\ Append(Failure, Frame("startTimer")) \in Seq(Frames)
        /\ Has(Append(Failure, Frame("startTimer")), "errorFinish")
    BY FailureType
  <2>3. PICK sent \in Seq(Frames) : ExecSend(sent) /\ Has(sent, "errorFinish")
    BY <2>1, <2>2
  <2>4. ChannelInv'
    BY <1>0, <2>3, ExecSendStep
  <2>5. Has(stack', "errorFinish")
    <3>1. <<Frame("unanswered")>> \in Seq(Frames)
      BY FrameType DEF Ops
    <3> QED
      BY <1>0, <2>3, <3>1, HasConcat DEF ExecSend
  <2>6. VComTypeOK'
    BY <1>0, <2>1 DEF IInv, VComTypeOK
  <2> QED
    BY <2>4, <2>5, <2>6 DEF IInv, Guarded
<1> QED
  BY <1>1, <1>2

LEMMA LoopStep ==
  ASSUME IInv, ChannelAssumption, VComAssumption, ExecNext \/ Timeout \/ PortError
  PROVE  IInv'
<1>0. ChannelInv /\ stack \in Seq(Frames) /\ "TransportError" \in Errors
  BY DEF IInv, ChannelInv, ChannelTypeOK, Errors
<1>1. CASE ExecNext
  <2>1. VComTypeOK' /\ timer' = timer
    BY <1>1 DEF ExecNext, vcomVars, IInv, VComTypeOK
  <2>2. CASE ExecNothing
    BY <1>0, <2>1, <2>2, ExecNothingStep DEF ExecNothing, IInv, Guarded
  <2>3. CASE ExecNotConnected
    BY <1>0, <2>1, <2>3, EndingStep, NoneRunning DEF IInv
  <2> QED
    BY <1>1, <2>2, <2>3 DEF ExecNext
<1>2. CASE Timeout \/ PortError
  <2>1. /\ Abort("TransportError", stack)
        /\ UNCHANGED <<open, received, calls, atDevice, line>>
    BY <1>2 DEF Timeout, PortError
  <2>2. ChannelInv' /\ Guarded' /\ timer' = FALSE
    BY <1>0, <2>1, AbortStep DEF Abort
  <2> QED
    BY <2>1, <2>2 DEF IInv, VComTypeOK
<1> QED
  BY <1>1, <1>2

\* The pieces of an answer are pieces.
LEMMA AnswerType ==
  ASSUME NEW r \in Ids
  PROVE  Whole(r) \in Seq(Pieces) /\ Split(r) \in Seq(Pieces)
BY DEF Whole, Split, Pieces

LEMMA ReadStep ==
  ASSUME IInv, ChannelAssumption, VComAssumption, DeviceAnswers \/ ReadyRead
  PROVE  IInv'
<1>0. ChannelInv /\ stack \in Seq(Frames) /\ received \in Seq(Pieces) /\ line \in Seq(Pieces)
  BY DEF IInv, ChannelInv, ChannelTypeOK, VComTypeOK
<1>1. CASE DeviceAnswers
  <2>1. /\ atDevice # <<>> /\ atDevice' = Tail(atDevice)
        /\ line' \in {line, line \o Whole(Head(atDevice)), line \o Split(Head(atDevice))}
        /\ UNCHANGED <<channelVars, open, timer, received, calls>>
    BY <1>1 DEF DeviceAnswers
  <2>2. Head(atDevice) \in Ids /\ atDevice' \in Seq(Ids)
    BY <2>1 DEF IInv, VComTypeOK
  <2>3. Whole(Head(atDevice)) \in Seq(Pieces) /\ Split(Head(atDevice)) \in Seq(Pieces)
    BY <2>2, AnswerType
  <2>4. line' \in Seq(Pieces)
    <3>1. \A t \in Seq(Pieces) : line \o t \in Seq(Pieces)
      BY <1>0, ConcatProperties
    <3> QED
      BY <1>0, <2>1, <2>3, <3>1, Zenon
  <2>5. UNCHANGED queueVars /\ stack' = stack /\ timer' = timer
    BY <2>1 DEF channelVars
  <2>6. ChannelInv' /\ Guarded'
    BY <1>0, <2>5, StackStep, StillGuarded
  <2> QED
    BY <2>1, <2>2, <2>4, <2>6 DEF IInv, VComTypeOK
<1>2. CASE ReadyRead
  <2>0. UNCHANGED <<open, calls, atDevice>>
    BY <1>2 DEF ReadyRead
  <2>1. ASSUME NEW k \in 1..Len(line),
               received' = received \o SubSeq(line, 1, k),
               line' = SubSeq(line, k + 1, Len(line)),
               \/ timer' = TRUE /\ UNCHANGED channelVars
               \/ timer' = FALSE /\ Decode(received')
        PROVE  IInv'
    <3>1. SubSeq(line, 1, k) \in Seq(Pieces) /\ line' \in Seq(Pieces)
      BY <1>0, <2>1, SubSeqProperties
    <3>2. received' \in Seq(Pieces) /\ VComTypeOK'
      <4>1. received' \in Seq(Pieces)
        BY <1>0, <2>1, <3>1, ConcatProperties
      <4> QED
        BY <2>0, <2>1, <3>1, <4>1 DEF IInv, VComTypeOK
    <3>3. CASE timer' = TRUE /\ UNCHANGED channelVars
      <4>1. UNCHANGED queueVars /\ stack' = stack
        BY <3>3 DEF channelVars
      <4> QED
        BY <1>0, <3>2, <3>3, <4>1, StackStep DEF IInv, Guarded
    <3>4. CASE Decode(received')
      <4>1. CASE OnReceivedData(received')
        BY <1>0, <3>2, <4>1, OnReceivedDataStep, NoneRunning DEF IInv
      <4>2. CASE \E err \in {"InvalidCRC", "InvalidASCII"} : SetError(err, stack)
        BY <1>0, <3>2, <4>2, AbortStep DEF Errors, IInv
      <4> QED
        BY <3>4, <4>1, <4>2 DEF Decode
    <3> QED
      BY <2>1, <3>3, <3>4
  <2>2. CASE Abort("TransportError", stack) /\ UNCHANGED <<received, line>>
    <3>1. ChannelInv' /\ Guarded' /\ timer' = FALSE
      BY <1>0, <2>2, AbortStep DEF Abort, Errors
    <3> QED
      BY <2>0, <2>2, <3>1 DEF IInv, VComTypeOK
  <2> QED
    BY <1>2, <2>1, <2>2 DEF ReadyRead
<1> QED
  BY <1>1, <1>2

LEMMA ResumeStep ==
  ASSUME IInv, ChannelAssumption, VComAssumption, Resume
  PROVE  IInv'
<1>0. ChannelInv /\ stack \in Seq(Frames)
  BY DEF IInv, ChannelInv, ChannelTypeOK
<1>a. ASSUME NEW op \in {"errorClose", "closed"}, At(op)
      PROVE  /\ Tail(stack) \in Seq(Frames) /\ stack # <<>>
             /\ \A g \in Guards : Has(stack, g) => Has(Tail(stack), g)
  BY <1>0, <1>a, TailType, HasTail DEF At, Guards
<1>b. ASSUME stack' = Tail(stack), UNCHANGED queueVars, timer' = timer,
             Tail(stack) \in Seq(Frames),
             \A g \in Guards : Has(stack, g) => Has(Tail(stack), g)
      PROVE  ChannelInv' /\ Guarded'
  BY <1>0, <1>b, StackStep, StillGuarded
<1>1. CASE (ErrorFinish \/ Drain \/ Unanswered) /\ UNCHANGED vcomVars
  <2>1. ChannelInv' /\ Guarded'
    BY <1>0, <1>1, EndingStep, DrainedStep DEF Guarded
  <2> QED
    BY <1>1, <2>1 DEF vcomVars, IInv, VComTypeOK
<1>2. CASE ErrorClose
  <2>1. CASE open /\ Head(stack).err = "TransportError"
    <3>1. /\ timer' = FALSE /\ OnDisconnected(Push(Frame("closed"), Tail(stack)))
          /\ UNCHANGED <<open, received, calls, atDevice, line>>
      BY <1>2, <2>1 DEF ErrorClose, DoDisconnect
    <3>2. calls' \in 0..MaxCalls
      BY <3>1 DEF IInv, VComTypeOK
    <3> QED
      BY <1>2, <1>a, <3>1, <3>2, ClosingStep DEF ErrorClose
  <2>2. CASE ~(open /\ Head(stack).err = "TransportError")
    <3>1. stack' = Tail(stack) /\ UNCHANGED queueVars /\ UNCHANGED vcomVars
      BY <1>2, <2>2 DEF ErrorClose, DoDisconnect, Return
    <3>2. At("errorClose")
      BY <1>2 DEF ErrorClose
    <3> QED
      BY <1>a, <1>b, <3>1, <3>2 DEF vcomVars, IInv, VComTypeOK
  <2> QED
    BY <2>1, <2>2
<1>3. CASE Closed
  <2>1. /\ stack' = Tail(stack) /\ open' = FALSE /\ line' = <<>> /\ At("closed")
        /\ UNCHANGED <<queueVars, timer, received, calls, atDevice>>
    BY <1>3 DEF Closed, Return
  <2>2. line' \in Seq(Pieces)
    BY <2>1
  <2> QED
    BY <1>a, <1>b, <2>1, <2>2 DEF IInv, VComTypeOK
<1>4. CASE StartTimer
  <2>1. /\ stack # <<>> /\ Return /\ timer' = TRUE /\ UNCHANGED queueVars
        /\ UNCHANGED <<open, received, calls, atDevice, line>>
    BY <1>4 DEF StartTimer, At
  <2>2. ChannelInv'
    BY <1>0, <2>1, ReturnStep
  <2> QED
    BY <2>1, <2>2 DEF Guarded, IInv, VComTypeOK
<1> QED
  BY <1>1, <1>2, <1>3, <1>4 DEF Resume

LEMMA NextIInv ==
  ASSUME IInv, ChannelAssumption, VComAssumption, [Next]_vars
  PROVE  IInv'
<1>1. CASE UNCHANGED vars
  <2>1. UNCHANGED queueVars /\ UNCHANGED vcomVars /\ stack' = stack
    BY <1>1 DEF vars, channelVars
  <2>2. ChannelInv' /\ Guarded'
    BY <2>1, StackStep, StillGuarded DEF IInv, ChannelInv, ChannelTypeOK, vcomVars
  <2> QED
    BY <2>1, <2>2 DEF vcomVars, IInv, VComTypeOK
<1> QED
  BY <1>1, AppStep, SendStep, LoopStep, ReadStep, ResumeStep DEF Next

\* The inductive invariant holds in every behaviour.
THEOREM Invariance == Spec => []IInv
<1>1. Init => IInv
  BY InitIInv, ChannelAssumption, VComAssumption
<1>2. IInv /\ [Next]_vars => IInv'
  BY NextIInv, ChannelAssumption, VComAssumption
<1> QED
  BY <1>1, <1>2, PTL DEF Spec
\* Type correctness of AsyncVComChannel.
THEOREM TypeCorrect == Spec => []TypeOK
<1>1. IInv => TypeOK
  BY DEF IInv, ChannelInv, VComTypeOK, TypeOK
<1> QED
  BY <1>1, Invariance, PTL

\* Whatever the slots, the line and the port do, a running request has
\* something that will end it.
THEOREM Watched == Spec => []RunningIsGuarded
<1>1. IInv => RunningIsGuarded
  BY DEF IInv, Guarded, RunningIsGuarded, Has, OnStack
<1> QED
  BY <1>1, Invariance, PTL

\* finishNext ends the requests in the order exec() accepted them, and no
\* interleaving of slots and events loses the wakeup of execNext.
THEOREM FifoAndWakeup == Spec => [](FifoOrder /\ NoLostWakeup)
<1>1. IInv => FifoOrder /\ NoLostWakeup
  BY DEF IInv, ChannelInv
<1> QED
  BY <1>1, Invariance, PTL

-----------------------------------------------------------------------------
LEMMA NextServes ==
  ASSUME IInv, IInv', ChannelAssumption, [Next]_vars
  PROVE  ServiceStep
<1>0. ChannelInv /\ ChannelInv'
  BY DEF IInv
<1>1. CASE reply' = reply
  BY <1>1, SilentServes
<1>2. CASE reply' # reply
  <2>1. ASSUME NEW posted, NEW err, NEW data, NEW rest, FinishNext(posted, err, data, rest)
        PROVE  ServiceStep
    BY <1>0, <2>1, FinishNextServes
  <2>2. ASSUME NEW kind \in RequestKinds, Exec(kind)
        PROVE  ServiceStep
    BY <1>0, <2>2, ExecServes
  <2>3. ASSUME NEW sent, ExecSend(sent)
        PROVE  ServiceStep
    BY <1>0, <2>3, ExecSendServes
  <2>4. CASE AppExec \/ AppConnect \/ AppDisconnect \/ AppReturns
    <3>1. PICK kind \in RequestKinds : Exec(kind)
      BY <1>2, <2>4 DEF AppExec, AppConnect, AppDisconnect, AppReturns, SlotReturns,
           OnConnected, OnDisconnected, Abort, SetError, queueVars
    <3> QED
      BY <2>2, <3>1
  <2>5. CASE ExecNext \/ SendData \/ SendFails \/ Timeout \/ PortError
    <3>1. \/ ExecNotConnected
          \/ \E sent : ExecSend(sent)
      BY <1>2, <2>5 DEF ExecNext, ExecNothing, SendData, SendFails, Timeout, PortError,
           Abort, SetError, queueVars
    <3> QED
      BY <2>1, <2>3, <3>1 DEF ExecNotConnected
  <2>6. CASE DeviceAnswers \/ ReadyRead
    <3>1. ReadyRead
      BY <1>2, <2>6 DEF DeviceAnswers, channelVars, queueVars
    <3>2. OnReceivedData(received')
      BY <1>2, <3>1 DEF ReadyRead, Decode, Abort, SetError, channelVars, queueVars
    <3> QED
      BY <2>1, <3>2 DEF OnReceivedData
  <2>7. CASE Resume
    <3>1. ErrorFinish \/ Drain \/ Unanswered
      BY <1>2, <2>7 DEF Resume, ErrorClose, Closed, StartTimer, DoDisconnect,
           OnDisconnected, queueVars
    <3> QED
      BY <1>2, <2>1, <3>1 DEF ErrorFinish, Drain, Unanswered, queueVars
  <2>8. ~UNCHANGED vars
    BY <1>2 DEF vars, channelVars, queueVars
  <2> QED
    BY <2>4, <2>5, <2>6, <2>7, <2>8 DEF Next
<1> QED
  BY <1>1, <1>2

\* The channel over a serial port carries out what RequestService promises.
\* (That each request does end is liveness, which TLC checks.)
THEOREM Serves == Spec => Service!Safety
<1>1. Init => Service!Init
  BY InitServes DEF Init
<1>2. IInv /\ IInv' /\ [Next]_vars => ServiceStep
  BY NextServes, ChannelAssumption
<1> QED
  BY <1>1, <1>2, Invariance, PTL DEF Spec, Service!Safety, ServiceStep
-----------------------------------------------------------------------------
(***************************************************************************)
(* The data of the answers.  Every piece on the way belongs to a request   *)
(* the channel has sent, and such a request is not younger than the oldest *)
(* one in the queue.                                                       *)
(***************************************************************************)

Begun == {r \in Ids : reply[r].state \in {"Running", "Finished"}}
PiecesOf(requests) == [of : requests, part : {"whole", "first", "last"}]

Sent ==
  /\ atDevice \in Seq(Begun)
  /\ line \in Seq(PiecesOf(Begun)) /\ received \in Seq(PiecesOf(Begun))

\* What has begun stays begun.
LEMMA BegunGrows ==
  ASSUME IInv, IInv', ServiceStep
  PROVE  Begun \subseteq Begun'
<1> DEFINE status == [r \in Ids |-> reply[r].state]
<1>1. ASSUME NEW r \in Ids, NEW s \in {"Pending", "Running", "Finished"},
             status' = [status EXCEPT ![r] = s],
             s = "Pending" => status[r] = "Idle"
      PROVE  Begun \subseteq Begun'
  <2>1. /\ \A q \in Ids : status[q] = reply[q].state /\ status'[q] = reply'[q].state
        /\ \A q \in Ids \ {r} : status'[q] = status[q]
        /\ status'[r] = s
    BY <1>1 DEF Ids
  <2> HIDE DEF status
  <2> QED
    BY <1>1, <2>1 DEF Begun
<1>2. CASE status' = status
  <2>1. \A q \in Ids : reply[q].state = status[q] /\ reply'[q].state = status'[q]
    BY DEF Ids
  <2> QED
    BY <1>2, <2>1 DEF Begun
<1>3. CASE Service!Next
  <2>1. PICK r \in Ids : Service!Accept(r) \/ Service!Begin(r) \/ Service!End(r)
    BY <1>3 DEF Service!Next, Ids
  <2> QED
    BY <1>1, <2>1 DEF Service!Accept, Service!Begin, Service!End
<1> QED
  BY <1>2, <1>3 DEF ServiceStep

LEMMA SeqGrows ==
  ASSUME NEW S, NEW T, S \subseteq T, NEW s \in Seq(S)
  PROVE  s \in Seq(T)
OBVIOUS

\* What is on its way stays what it was.
LEMMA SentGrows ==
  ASSUME Sent, Begun \subseteq Begun'
  PROVE  /\ atDevice \in Seq(Begun')
         /\ line \in Seq(PiecesOf(Begun')) /\ received \in Seq(PiecesOf(Begun'))
<1>1. PiecesOf(Begun) \subseteq PiecesOf(Begun')
  BY DEF PiecesOf
<1> QED
  BY <1>1, SeqGrows DEF Sent

LEMMA NextSent ==
  ASSUME IInv, IInv', ChannelAssumption, Sent, Next
  PROVE  Sent'
<1> DEFINE P == PiecesOf(Begun')
<1>0. Begun \subseteq Begun'
  BY NextServes, BegunGrows
<1>1. atDevice \in Seq(Begun') /\ line \in Seq(P) /\ received \in Seq(P)
      /\ <<>> \in Seq(P) /\ <<>> \in Seq(Begun')
  BY <1>0, SentGrows
<1>2. ASSUME atDevice' \in Seq(Begun'), line' \in Seq(P), received' \in Seq(P)
      PROVE  Sent'
  BY <1>2 DEF Sent, PiecesOf
<1> HIDE DEF P
<1>3. CASE SendData
  <2>1. /\ received' = <<>> /\ line' = line /\ ExecSend(<<>>)
        /\ atDevice' \in {atDevice, Append(atDevice, Head(queue))}
    BY <1>3 DEF SendData
  <2>2. Head(queue) \in Begun'
    BY <2>1 DEF ExecSend, CanExecNext, IInv, ChannelInv, ChannelTypeOK, Replies, Begun
  <2> QED
    BY SMTT(30), <1>1, <1>2, <2>1, <2>2
<1>4. CASE DeviceAnswers
  <2>1. /\ atDevice # <<>> /\ atDevice' = Tail(atDevice) /\ received' = received
        /\ line' \in {line, line \o Whole(Head(atDevice)), line \o Split(Head(atDevice))}
    BY <1>4 DEF DeviceAnswers
  <2>2. Head(atDevice) \in Begun' /\ atDevice' \in Seq(Begun')
    BY <1>1, <2>1
  <2>3. Whole(Head(atDevice)) \in Seq(P) /\ Split(Head(atDevice)) \in Seq(P)
    BY <2>2 DEF P, PiecesOf, Whole, Split
  <2>4. \A t \in Seq(P) : line \o t \in Seq(P)
    BY <1>1, ConcatProperties
  <2>5. line' \in Seq(P)
    BY <1>1, <2>1, <2>3, <2>4, Zenon
  <2> QED
    BY <1>1, <1>2, <2>1, <2>2, <2>5
<1>5. CASE ReadyRead
  <2>1. atDevice' = atDevice
    BY <1>5 DEF ReadyRead
  <2>2. CASE UNCHANGED <<received, line>>
    BY <1>1, <1>2, <2>1, <2>2
  <2>3. CASE ~UNCHANGED <<received, line>>
    <3>1. PICK k \in 1..Len(line) :
            received' = received \o SubSeq(line, 1, k) /\ line' = SubSeq(line, k + 1, Len(line))
      BY <1>5, <2>3 DEF ReadyRead
    <3>2. SubSeq(line, 1, k) \in Seq(P) /\ line' \in Seq(P)
      BY <1>1, <3>1, SubSeqProperties
    <3>3. received' \in Seq(P)
      BY <1>1, <3>1, <3>2, ConcatProperties
    <3> QED
      BY <1>1, <1>2, <2>1, <3>2, <3>3
  <2> QED
    BY <2>2, <2>3
<1>6. CASE ~(SendData \/ DeviceAnswers \/ ReadyRead)
  <2>1. /\ atDevice' = atDevice /\ received' \in {received, <<>>} /\ line' \in {line, <<>>}
    BY <1>6 DEF Next, AppExec, AppConnect, AppDisconnect, AppReturns, ExecNext, SendFails,
       Timeout, PortError, Resume, ErrorClose, Closed, StartTimer, DoDisconnect, vcomVars
  <2> QED
    BY <1>1, <1>2, <2>1
<1> QED
  BY <1>3, <1>4, <1>5, <1>6

\* What has begun is not younger than the oldest request in the queue.
LEMMA BegunBeforeHead ==
  ASSUME IInv, ChannelAssumption, NEW q \in Begun, queue # <<>>
  PROVE  q \in 1..Head(queue)
<1>1. q \in Ids /\ q \in Nat /\ q >= 1 /\ reply[q].state \in {"Running", "Finished"}
  BY DEF Begun, Ids
<1>2. /\ Len(queue) \in Nat \ {0} /\ issued \in Nat /\ Head(queue) = Ended + 1
      /\ Ended \in Nat
  BY DEF ChannelAssumption, IInv, ChannelInv, ChannelTypeOK, FifoOrder, Ended
<1>3. ~(q > Ended + 1)
  BY <1>1, <1>2 DEF IInv, ChannelInv, FifoOrder
<1> QED
  BY <1>1, <1>2, <1>3

\* What the port has received came from requests that had begun.
LEMMA ReadPieces ==
  ASSUME Sent, ReadyRead
  PROVE  received' \in Seq(PiecesOf(Begun))
<1> DEFINE P == PiecesOf(Begun)
<1>1. line \in Seq(P) /\ received \in Seq(P)
  BY DEF Sent
<1> HIDE DEF P
<1>2. CASE received' = received
  BY <1>1, <1>2 DEF P
<1>3. ASSUME NEW k \in 1..Len(line), received' = received \o SubSeq(line, 1, k)
      PROVE  received' \in Seq(P)
  <2>1. SubSeq(line, 1, k) \in Seq(P)
    BY <1>1, SubSeqProperties
  <2> QED
    BY <1>1, <1>3, <2>1, ConcatProperties
<1> QED
  BY <1>2, <1>3 DEF P, ReadyRead

LEMMA NextIntact ==
  ASSUME IInv, IInv', ChannelAssumption, Sent, Sent', IntactAnswer, Next
  PROVE  IntactAnswer'
<1>0. reply \in [Ids -> Replies]
  BY DEF IInv, ChannelInv, ChannelTypeOK
<1>1. CASE reply' = reply
  BY <1>1 DEF IntactAnswer
<1>2. ASSUME NEW n \in Ids, \A r \in Ids \ {n} : reply'[r] = reply[r],
             \/ reply'[n].data = <<>>
             \/ reply'[n].data = reply[n].data /\ reply'[n].error = reply[n].error
             \/ \E q \in 1..n : reply'[n].data \in {Whole(q), Split(q)}
      PROVE  IntactAnswer'
  BY <1>2 DEF IntactAnswer
<1>3. ASSUME NEW posted, NEW err, NEW data, NEW rest, FinishNext(posted, err, data, rest),
             data = <<>> \/ \E q \in Begun : data \in {Whole(q), Split(q)}
      PROVE  IntactAnswer'
  <2>1. CASE queue = <<>>
    BY <1>1, <1>3, <2>1 DEF FinishNext
  <2>2. CASE queue # <<>>
    <3>1. Head(queue) \in Ids
      BY <2>2 DEF IInv, ChannelInv, ChannelTypeOK
    <3>2. reply'[Head(queue)].data = data /\ \A r \in Ids \ {Head(queue)} : reply'[r] = reply[r]
      BY <1>0, <1>3, <2>2, <3>1 DEF FinishNext, Replies
    <3>3. data = <<>> \/ \E q \in 1..Head(queue) : data \in {Whole(q), Split(q)}
      BY <1>3, <2>2, BegunBeforeHead
    <3> QED
      BY <1>2, <3>1, <3>2, <3>3
  <2> QED
    BY <2>1, <2>2
<1>4. CASE AppExec
  <2>1. PICK kind \in RequestKinds : Exec(kind)
    BY <1>4 DEF AppExec
  <2>2. /\ issued + 1 \in Ids
        /\ reply' = [reply EXCEPT ![issued + 1] = [@ EXCEPT !.state = "Pending", !.kind = kind]]
    BY <2>1, ChannelAssumption DEF Exec, IInv, ChannelInv, ChannelTypeOK, Ids
  <2>3. /\ reply'[issued + 1].data = reply[issued + 1].data
        /\ reply'[issued + 1].error = reply[issued + 1].error
        /\ \A r \in Ids \ {issued + 1} : reply'[r] = reply[r]
    BY <1>0, <2>2 DEF Replies
  <2> QED
    BY <1>2, <2>2, <2>3
<1>5. CASE SendData \/ SendFails
  <2>1. /\ queue # <<>> /\ reply' = [reply EXCEPT ![Head(queue)].state = "Running"]
    BY <1>5 DEF SendData, SendFails, ExecSend, CanExecNext
  <2>2. Head(queue) \in Ids
    BY <2>1 DEF IInv, ChannelInv, ChannelTypeOK
  <2>3. /\ reply'[Head(queue)].data = reply[Head(queue)].data
        /\ reply'[Head(queue)].error = reply[Head(queue)].error
        /\ \A r \in Ids \ {Head(queue)} : reply'[r] = reply[r]
    BY <1>0, <2>1, <2>2 DEF Replies
  <2> QED
    BY <1>2, <2>2, <2>3
<1>6. CASE ExecNext \/ Resume
  <2>1. CASE \E posted, err, rest : FinishNext(posted, err, <<>>, rest)
    BY <1>3, <2>1
  <2>2. CASE reply' = reply
    BY <1>1, <2>2
  <2> QED
    BY <1>6, <2>1, <2>2 DEF ExecNext, ExecNothing, ExecNotConnected, Resume, ErrorFinish, Drain,
       Unanswered, ErrorClose, Closed, StartTimer, DoDisconnect, OnDisconnected, queueVars
<1>7. CASE ReadyRead
  <2>1. CASE Decode(received') /\ IsAnswer(received') /\ OnReceivedData(received')
    <3>1. PICK q \in Ids : received' \in {Whole(q), Split(q)}
      BY <2>1 DEF IsAnswer
    <3>2. received'[1].of = q /\ Len(received') >= 1
      BY <3>1 DEF Whole, Split
    <3>3. received'[1] \in PiecesOf(Begun)
      BY <1>7, <3>2, ReadPieces
    <3>4. q \in Begun
      BY <3>2, <3>3 DEF PiecesOf
    <3> QED
      BY <1>3, <2>1, <3>1, <3>4 DEF OnReceivedData
  <2>2. CASE reply' = reply
    BY <1>1, <2>2
  <2> QED
    BY <1>7, <2>1, <2>2 DEF ReadyRead, Decode, Abort, SetError, channelVars, queueVars
<1>8. CASE AppConnect \/ AppDisconnect \/ AppReturns \/ Timeout \/ PortError \/ DeviceAnswers
  <2>1. reply' = reply
    BY <1>8 DEF AppConnect, AppDisconnect, AppReturns, SlotReturns, Timeout, PortError,
       DeviceAnswers, OnConnected, OnDisconnected, Abort, SetError, queueVars, channelVars
  <2> QED
    BY <1>1, <2>1
<1> QED
  BY <1>4, <1>5, <1>6, <1>7, <1>8 DEF Next

\* An answer is taken for good only whole, for whatever the line spoils and
\* however late it is: a request without an error has exactly one answer, and
\* it is not the answer to a younger request.
THEOREM Intact == Spec => []IntactAnswer
<1> DEFINE Inv == Sent /\ IntactAnswer
<1>1. Init => Inv
  <2>1. ASSUME Init PROVE Inv
    <3>1. \A r \in Ids : reply[r].data = <<>>
      BY <2>1 DEF Init, ChannelInit
    <3>2. Sent
      BY <2>1 DEF Init, Sent
    <3> QED
      BY <3>1, <3>2 DEF IntactAnswer
  <2> QED
    BY <2>1
<1>2. IInv /\ IInv' /\ Inv /\ [Next]_vars => Inv'
  <2>1. ASSUME IInv, IInv', Inv, Next PROVE Inv'
    BY <2>1, NextSent, NextIntact, ChannelAssumption
  <2>2. ASSUME Inv, UNCHANGED vars PROVE Inv'
    BY <2>2 DEF vars, vcomVars, channelVars, queueVars, Sent, Begun, PiecesOf, IntactAnswer
  <2> QED
    BY <2>1, <2>2
<1> QED
  BY <1>1, <1>2, Invariance, PTL DEF Spec
===============================================================================
