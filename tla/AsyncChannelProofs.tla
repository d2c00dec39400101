-------------------------- MODULE AsyncChannelProofs --------------------------
(***************************************************************************)
(* What every function of AsyncChannel preserves, for any transport: the   *)
(* types, the order of the queue and the wakeup of execNext.               *)
(***************************************************************************)
EXTENDS AsyncChannel, SequenceTheorems, TLAPS

ChannelInv == ChannelTypeOK /\ FifoOrder /\ NoLostWakeup

-----------------------------------------------------------------------------
(* Lemmas about the call stack. *)

\* Pushing a frame gives a stack with that frame on top.
LEMMA PushProperties ==
  ASSUME NEW f \in Frames, NEW s \in Seq(Frames)
  PROVE  /\ Push(f, s) \in Seq(Frames)
         /\ Push(f, s) # <<>>
         /\ Head(Push(f, s)) = f
         /\ Len(Push(f, s)) = Len(s) + 1
         /\ Push(f, s)[1] = f
         /\ \A i \in 1..Len(s) : Push(f, s)[i + 1] = s[i]
<1>1. <<f>> \in Seq(Frames) /\ Len(<<f>>) = 1 /\ <<f>>[1] = f
  OBVIOUS
<1>2. /\ Push(f, s) \in Seq(Frames)
      /\ Len(Push(f, s)) = 1 + Len(s)
      /\ \A i \in 1..(1 + Len(s)) : Push(f, s)[i] = IF i <= 1 THEN <<f>>[i] ELSE s[i - 1]
  BY <1>1, ConcatProperties DEF Push
<1>3. Len(s) \in Nat
  OBVIOUS
<1> QED
  BY <1>1, <1>2, <1>3

\* Every frame a function of the channel suspends is a frame.
LEMMA FrameType ==
  /\ \A op \in Ops : Frame(op) \in Frames
  /\ Slot \in Frames
  /\ \A err \in Errors : /\ [op |-> "errorFinish", err |-> err] \in Frames
                         /\ [op |-> "errorClose", err |-> err] \in Frames
BY DEF Frame, Slot, Frames, Ops, Errors

\* Returning from a function leaves a stack.
LEMMA TailType ==
  ASSUME NEW s \in Seq(Frames), s # <<>>
  PROVE  /\ Tail(s) \in Seq(Frames)
         /\ Head(s) \in Frames
         /\ Len(Tail(s)) = Len(s) - 1
         /\ \A i \in 1..Len(Tail(s)) : Tail(s)[i] = s[i + 1]
         /\ Head(s) = s[1]
OBVIOUS

\* The functions suspended on a stack.
Has(s, op) == \E i \in 1..Len(s) : s[i].op = op

LEMMA HasPush ==
  ASSUME NEW f \in Frames, NEW s \in Seq(Frames), NEW op
  PROVE  Has(Push(f, s), op) <=> f.op = op \/ Has(s, op)
<1>1. /\ Len(Push(f, s)) = Len(s) + 1 /\ Push(f, s)[1] = f
      /\ \A i \in 1..Len(s) : Push(f, s)[i + 1] = s[i]
      /\ Len(s) \in Nat
  BY SMTT(30), PushProperties
<1>2. ASSUME Has(Push(f, s), op) PROVE f.op = op \/ Has(s, op)
  <2>1. PICK i \in 1..(Len(s) + 1) : Push(f, s)[i].op = op
    BY <1>1, <1>2 DEF Has
  <2>2. CASE i = 1
    BY <1>1, <2>1, <2>2
  <2>3. CASE i # 1
    <3>1. i - 1 \in 1..Len(s) /\ (i - 1) + 1 = i
      BY <1>1, <2>3
    <3> QED
      BY <1>1, <2>1, <3>1 DEF Has
  <2> QED
    BY <2>2, <2>3
<1>3. ASSUME f.op = op PROVE Has(Push(f, s), op)
  BY <1>1, <1>3 DEF Has
<1>4. ASSUME Has(s, op) PROVE Has(Push(f, s), op)
  <2>1. PICK i \in 1..Len(s) : s[i].op = op
    BY <1>4 DEF Has
  <2>2. i + 1 \in 1..Len(Push(f, s)) /\ Push(f, s)[i + 1].op = op
    BY <1>1, <2>1
  <2> QED
    BY <2>2 DEF Has
<1> QED
  BY <1>2, <1>3, <1>4

LEMMA HasTail ==
  ASSUME NEW s \in Seq(Frames), s # <<>>, NEW op
  PROVE  Has(s, op) <=> Head(s).op = op \/ Has(Tail(s), op)
<1>1. /\ Len(Tail(s)) = Len(s) - 1 /\ Head(s) = s[1] /\ Len(s) \in Nat \ {0}
      /\ \A i \in 1..Len(Tail(s)) : Tail(s)[i] = s[i + 1]
  BY TailType
<1>2. ASSUME Has(s, op) PROVE Head(s).op = op \/ Has(Tail(s), op)
  <2>1. PICK i \in 1..Len(s) : s[i].op = op
    BY <1>2 DEF Has
  <2>2. CASE i = 1
    BY <1>1, <2>1, <2>2
  <2>3. CASE i # 1
    <3>1. i - 1 \in 1..Len(Tail(s)) /\ (i - 1) + 1 = i
      BY <1>1, <2>3
    <3> QED
      BY <1>1, <2>1, <3>1 DEF Has
  <2> QED
    BY <2>2, <2>3
<1>3. ASSUME Head(s).op = op PROVE Has(s, op)
  BY <1>1, <1>3 DEF Has
<1>4. ASSUME Has(Tail(s), op) PROVE Has(s, op)
  <2>1. PICK i \in 1..Len(Tail(s)) : Tail(s)[i].op = op
    BY <1>4 DEF Has
  <2>2. i + 1 \in 1..Len(s) /\ s[i + 1].op = op
    BY <1>1, <2>1
  <2> QED
    BY <2>2 DEF Has
<1> QED
  BY <1>2, <1>3, <1>4

LEMMA HasConcat ==
  ASSUME NEW s \in Seq(Frames), NEW t \in Seq(Frames), NEW op, Has(s, op) \/ Has(t, op)
  PROVE  Has(s \o t, op)
<1>1. /\ Len(s \o t) = Len(s) + Len(t)
      /\ \A i \in 1..(Len(s) + Len(t)) : (s \o t)[i] = IF i <= Len(s) THEN s[i] ELSE t[i - Len(s)]
  BY ConcatProperties
<1>2. CASE Has(s, op)
  <2>1. PICK i \in 1..Len(s) : s[i].op = op
    BY <1>2 DEF Has
  <2>2. i \in 1..Len(s \o t) /\ (s \o t)[i].op = op
    BY <1>1, <2>1
  <2> QED
    BY <2>2 DEF Has
<1>3. CASE Has(t, op)
  <2>1. PICK i \in 1..Len(t) : t[i].op = op
    BY <1>3 DEF Has
  <2>2. Len(s) + i \in 1..Len(s \o t) /\ (s \o t)[Len(s) + i] = t[i]
    BY <1>1, <2>1
  <2> QED
    BY <2>1, <2>2 DEF Has
<1> QED
  BY <1>2, <1>3

LEMMA HasEither ==
  ASSUME NEW s \in Seq(Frames), NEW t \in Seq(Frames), NEW op, Has(s \o t, op)
  PROVE  Has(s, op) \/ Has(t, op)
<1>1. /\ Len(s \o t) = Len(s) + Len(t) /\ Len(s) \in Nat /\ Len(t) \in Nat
      /\ \A i \in 1..(Len(s) + Len(t)) : (s \o t)[i] = IF i <= Len(s) THEN s[i] ELSE t[i - Len(s)]
  BY ConcatProperties
<1>2. PICK i \in 1..(Len(s) + Len(t)) : (s \o t)[i].op = op
  BY <1>1 DEF Has
<1>3. CASE i <= Len(s)
  BY <1>1, <1>2, <1>3 DEF Has
<1>4. CASE ~(i <= Len(s))
  <2>1. i - Len(s) \in 1..Len(t) /\ t[i - Len(s)].op = op
    BY <1>1, <1>2, <1>4
  <2> QED
    BY <2>1 DEF Has
<1> QED
  BY <1>3, <1>4

-----------------------------------------------------------------------------
(* Each function of the channel preserves the invariant. *)

\* Nothing is queued in the beginning.
LEMMA InitChannelInv ==
  ASSUME ChannelAssumption, ChannelInit
  PROVE  ChannelInv
<1>1. (CHOOSE k \in RequestKinds : TRUE) \in RequestKinds
  BY DEF ChannelAssumption
<1> DEFINE kind == CHOOSE k \in RequestKinds : TRUE
<1>2. /\ queue = <<>> /\ Len(queue) = 0 /\ issued = 0 /\ scheduled = FALSE /\ stack = <<>>
      /\ reply = [r \in Ids |-> [state |-> "Idle", error |-> "NoError",
                                 kind |-> kind, data |-> <<>>]]
  BY DEF ChannelInit
<1>3. ChannelTypeOK
  <2>1. kind \in RequestKinds
    BY <1>1
  <2> HIDE DEF kind
  <2>2. \A r \in Ids : reply[r] \in Replies
    BY <1>2, <2>1 DEF Replies, States, Errors
  <2>3. reply \in [Ids -> Replies]
    BY <1>2, <2>2
  <2>4. queue \in Seq(Ids) /\ stack \in Seq(Frames) /\ issued \in 0..MaxRequests
    BY <1>2 DEF ChannelAssumption
  <2> QED
    BY <1>2, <2>3, <2>4 DEF ChannelTypeOK
<1>4. FifoOrder /\ NoLostWakeup
  <2>1. \A r \in Ids : reply[r].state = "Idle" /\ r \in Nat /\ r > 0
    BY <1>2 DEF Ids, ChannelAssumption
  <2>2. Len(queue) = 0 /\ issued = 0
    BY <1>2
  <2>3. Ended = 0 /\ \A i \in 1..Len(queue) : FALSE
    BY <2>2 DEF Ended
  <2> QED
    BY <1>2, <2>1, <2>2, <2>3 DEF FifoOrder, NoLostWakeup
<1> QED
  BY <1>3, <1>4 DEF ChannelInv

\* A step that touches only the call stack.
LEMMA StackStep ==
  ASSUME ChannelInv, UNCHANGED queueVars, stack' \in Seq(Frames)
  PROVE  ChannelInv'
BY DEF ChannelInv, queueVars, ChannelTypeOK, FifoOrder, Ended, NoLostWakeup

\* finishNext, whatever the value of m_isScheduledNext before it.
LEMMA FinishNextStep ==
  ASSUME ChannelInv, ChannelAssumption,
         NEW posted \in BOOLEAN, NEW err \in Errors,
         NEW data \in Seq(Pieces), NEW rest \in Seq(Frames),
         FinishNext(posted, err, data, rest)
  PROVE  ChannelInv'
<1> USE DEF ChannelInv
<1>1. CASE queue = <<>>
  BY <1>1 DEF FinishNext, ChannelTypeOK, FifoOrder, Ended, NoLostWakeup
<1>2. CASE queue # <<>>
  <2>1. /\ queue' = Tail(queue) /\ issued' = issued
        /\ scheduled' = (posted \/ Tail(queue) # <<>>)
        /\ reply' = [reply EXCEPT ![Head(queue)] =
                       [@ EXCEPT !.state = "Finished", !.error = err, !.data = data]]
        /\ stack' = Push(Slot, rest)
    BY <1>2 DEF FinishNext
  <2>2. /\ Head(queue) = queue[1] /\ Head(queue) \in Ids
        /\ Len(queue) \in Nat \ {0} /\ Len(queue') = Len(queue) - 1
        /\ queue' \in Seq(Ids)
        /\ \A i \in 1..Len(queue') : queue'[i] = queue[i + 1]
    BY <1>2, <2>1 DEF ChannelTypeOK
  <2>3. stack' \in Seq(Frames)
    BY <2>1, FrameType, PushProperties
  <2>4. reply' \in [Ids -> Replies]
    BY <2>1, <2>2 DEF ChannelTypeOK, Replies, States
  <2>5. ChannelTypeOK'
    BY <2>1, <2>2, <2>3, <2>4 DEF ChannelTypeOK
  <2>6. issued \in Nat /\ Head(queue) = Ended + 1 /\ Ended' = Ended + 1 /\ Ended \in Nat
    BY SMTT(30), <2>1, <2>2, ChannelAssumption DEF ChannelTypeOK, FifoOrder, Ended
  <2>7. \A r \in Ids : reply'[r].state =
           IF r = Head(queue) THEN "Finished" ELSE reply[r].state
    BY <2>1, <2>2 DEF ChannelTypeOK, Replies
  <2>8. FifoOrder'
    <3>0. Len(queue') <= issued'
      BY <2>1, <2>2, <2>6 DEF FifoOrder
    <3>1. ASSUME NEW i \in 1..Len(queue') PROVE queue'[i] = Ended' + i
      <4>1. i + 1 \in 1..Len(queue) /\ queue'[i] = queue[i + 1]
        BY <2>2
      <4>2. queue[i + 1] = Ended + (i + 1)
        BY <4>1 DEF FifoOrder
      <4> QED
        BY <4>1, <4>2, <2>6
    <3>2. ASSUME NEW r \in Ids
          PROVE  /\ r <= Ended'                     => reply'[r].state = "Finished"
                 /\ r = Ended' + 1 /\ r <= issued'  => reply'[r].state \in {"Pending", "Running"}
                 /\ r > Ended' + 1 /\ r <= issued'  => reply'[r].state = "Pending"
                 /\ r > issued'                     => reply'[r].state = "Idle"
      <4>1. r \in Nat
        BY DEF Ids
      <4>2. /\ r <= Ended                    => reply[r].state = "Finished"
            /\ r > Ended + 1 /\ r <= issued  => reply[r].state = "Pending"
            /\ r > issued                    => reply[r].state = "Idle"
        BY DEF FifoOrder
      <4>3. Ended + 1 <= issued
        BY <2>2, <2>6 DEF FifoOrder, Ended
      <4>4. reply'[r].state = IF r = Ended + 1 THEN "Finished" ELSE reply[r].state
        BY <2>6, <2>7
      <4> HIDE DEF Ended
      <4> QED
        BY <2>1, <2>6, <4>1, <4>2, <4>3, <4>4
    <3> QED
      BY <3>0, <3>1, <3>2 DEF FifoOrder
  <2>9. NoLostWakeup'
    BY <2>1 DEF NoLostWakeup
  <2> QED
    BY <2>5, <2>8, <2>9
<1> QED
  BY <1>1, <1>2

\* exec accepts a request.
LEMMA ExecStep ==
  ASSUME ChannelInv, ChannelAssumption, NEW kind \in RequestKinds, Exec(kind)
  PROVE  ChannelInv'
<1> USE DEF ChannelInv
<1>1. /\ queue' = Append(queue, issued + 1) /\ issued' = issued + 1
      /\ scheduled' = TRUE /\ stack' = stack
      /\ reply' = [reply EXCEPT ![issued + 1] = [@ EXCEPT !.state = "Pending", !.kind = kind]]
      /\ issued \in Nat /\ issued + 1 \in Ids /\ Len(queue) \in Nat
  BY ChannelAssumption DEF Exec, ChannelTypeOK, Ids
<1>2. reply' \in [Ids -> Replies]
  BY <1>1 DEF ChannelTypeOK, Replies, States
<1>3. ChannelTypeOK'
  BY <1>1, <1>2, ChannelAssumption DEF ChannelTypeOK, Ids
<1>4. \A r \in Ids : reply'[r].state = IF r = issued + 1 THEN "Pending" ELSE reply[r].state
  BY <1>1 DEF ChannelTypeOK, Replies
<1>5. Ended' = Ended /\ Ended \in Nat /\ Ended <= issued
  BY <1>1 DEF ChannelTypeOK, FifoOrder, Ended
<1>6. Len(queue') = Len(queue) + 1
      /\ \A i \in 1..Len(queue') : queue'[i] = IF i = Len(queue) + 1 THEN issued + 1 ELSE queue[i]
  BY <1>1 DEF ChannelTypeOK
<1>7. Len(queue') <= issued' /\ \A i \in 1..Len(queue') : queue'[i] = Ended' + i
  BY SMTT(30), <1>1, <1>5, <1>6 DEF FifoOrder, Ended
<1>8. \A r \in Ids :
        /\ r <= Ended'                     => reply'[r].state = "Finished"
        /\ r = Ended' + 1 /\ r <= issued'  => reply'[r].state \in {"Pending", "Running"}
        /\ r > Ended' + 1 /\ r <= issued'  => reply'[r].state = "Pending"
        /\ r > issued'                     => reply'[r].state = "Idle"
  BY <1>1, <1>4, <1>5 DEF FifoOrder, Ids
<1>9. FifoOrder' /\ NoLostWakeup'
  BY <1>1, <1>7, <1>8 DEF FifoOrder, NoLostWakeup
<1> QED
  BY <1>3, <1>9

\* The request exec appends is not running, and the oldest stays the oldest.
LEMMA ExecHead ==
  ASSUME ChannelInv, ChannelAssumption, NEW kind \in RequestKinds, Exec(kind),
         queue' # <<>>, reply'[Head(queue')].state = "Running"
  PROVE  /\ queue # <<>> /\ reply[Head(queue)].state = "Running"
         /\ Head(queue') = Head(queue) /\ reply'[Head(queue)] = reply[Head(queue)]
<1>1. /\ queue' = Append(queue, issued + 1) /\ issued + 1 \in Ids /\ issued \in Nat
      /\ reply' = [reply EXCEPT ![issued + 1] = [@ EXCEPT !.state = "Pending", !.kind = kind]]
  BY ChannelAssumption DEF Exec, ChannelInv, ChannelTypeOK, Ids
<1>2. CASE queue = <<>>
  <2>1. Head(queue') = issued + 1
    BY <1>1, <1>2
  <2> QED
    BY <1>1, <2>1 DEF ChannelInv, ChannelTypeOK, Replies
<1>3. CASE queue # <<>>
  <2>1. Head(queue') = Head(queue) /\ Head(queue) \in Ids
    BY <1>1, <1>3 DEF ChannelInv, ChannelTypeOK
  <2>2. \/ reply'[Head(queue)] = reply[Head(queue)]
        \/ reply'[Head(queue)].state = "Pending"
    BY <1>1, <2>1 DEF ChannelInv, ChannelTypeOK, Replies
  <2> QED
    BY <1>3, <2>1, <2>2
<1> QED
  BY <1>2, <1>3

\* The request exec is about to accept has not been accepted before.
LEMMA NextIsIdle ==
  ASSUME ChannelInv, ChannelAssumption, issued < MaxRequests
  PROVE  issued + 1 \in Ids /\ reply[issued + 1].state = "Idle"
<1>1. issued \in Nat /\ issued + 1 \in Ids /\ issued + 1 > issued
  BY DEF ChannelInv, ChannelTypeOK, ChannelAssumption, Ids
<1> QED
  BY <1>1 DEF ChannelInv, FifoOrder

\* execNext finds nothing to do.
LEMMA ExecNothingStep ==
  ASSUME ChannelInv, ExecNothing
  PROVE  ChannelInv'
BY DEF ChannelInv, ExecNothing, ChannelTypeOK, FifoOrder, Ended, NoLostWakeup

\* execNext starts the oldest request.
LEMMA ExecSendStep ==
  ASSUME ChannelInv, ChannelAssumption, NEW sent \in Seq(Frames), ExecSend(sent)
  PROVE  ChannelInv'
<1> USE DEF ChannelInv
<1>1. /\ queue # <<>> /\ queue' = queue /\ issued' = issued /\ scheduled' = FALSE
      /\ reply' = [reply EXCEPT ![Head(queue)].state = "Running"]
      /\ Head(queue) = queue[1] /\ Head(queue) \in Ids /\ Len(queue) \in Nat \ {0}
  BY DEF ExecSend, CanExecNext, ChannelTypeOK
<1>2. stack' \in Seq(Frames)
  <2>1. <<Frame("unanswered")>> \in Seq(Frames) /\ <<>> \in Seq(Frames)
    BY FrameType DEF Ops
  <2> QED
    BY <2>1, ConcatProperties DEF ExecSend
<1>3. reply' \in [Ids -> Replies]
  BY <1>1 DEF ChannelTypeOK, Replies, States
<1>4. \A r \in Ids : reply'[r].state = IF r = Head(queue) THEN "Running" ELSE reply[r].state
  BY <1>1 DEF ChannelTypeOK, Replies
<1>5. Head(queue) = Ended + 1 /\ Ended \in Nat /\ issued \in Nat /\ Ended' = Ended
  BY SMTT(30), <1>1, ChannelAssumption DEF ChannelTypeOK, FifoOrder, Ended
<1>6. FifoOrder'
  BY <1>1, <1>4, <1>5 DEF FifoOrder, Ended, Ids
<1>7. NoLostWakeup'
  BY <1>1, <1>4 DEF NoLostWakeup
<1> QED
  BY <1>1, <1>2, <1>3, <1>6, <1>7 DEF ChannelTypeOK

\* After finishNext the oldest request, if there is one, has not been started.
LEMMA FinishNextHead ==
  ASSUME ChannelInv, ChannelAssumption,
         NEW posted, NEW err, NEW data, NEW rest,
         FinishNext(posted, err, data, rest), queue' # <<>>
  PROVE  reply'[Head(queue')].state # "Running"
<1> USE DEF ChannelInv
<1>1. /\ queue # <<>> /\ queue' = Tail(queue)
      /\ reply' = [reply EXCEPT ![Head(queue)] =
                     [@ EXCEPT !.state = "Finished", !.error = err, !.data = data]]
  BY DEF FinishNext
<1>2. /\ Len(queue) \in Nat /\ Len(queue) >= 2
      /\ Head(queue) = queue[1] /\ Head(queue') = queue[2] /\ queue[2] \in Ids
  BY <1>1 DEF ChannelTypeOK
<1>3. Ended \in Nat /\ issued \in Nat /\ queue[1] = Ended + 1 /\ queue[2] = Ended + 2
      /\ Ended + 2 <= issued
  BY <1>2, ChannelAssumption DEF ChannelTypeOK, FifoOrder, Ended
<1>4. reply[queue[2]].state = "Pending"
  BY <1>2, <1>3 DEF FifoOrder
<1>5. reply'[queue[2]] = reply[queue[2]]
  BY <1>1, <1>2, <1>3 DEF ChannelTypeOK
<1> QED
  BY <1>2, <1>4, <1>5

-----------------------------------------------------------------------------
(* The functions that emit signals, and the rest of a suspended function. *)

LEMMA SetErrorStep ==
  ASSUME ChannelInv, NEW err \in Errors, NEW rest \in Seq(Frames), SetError(err, rest)
  PROVE  /\ ChannelInv' /\ UNCHANGED queueVars /\ Has(stack', "errorFinish")
         /\ \A op \in Ops : Has(rest, op) => Has(stack', op)
<1> DEFINE f == [op |-> "errorFinish", err |-> err]
<1>1. /\ stack' = Push(Slot, Push(f, rest)) /\ UNCHANGED queueVars
      /\ f \in Frames /\ Slot \in Frames /\ f.op = "errorFinish"
  BY FrameType DEF SetError
<1>2. Push(f, rest) \in Seq(Frames) /\ stack' \in Seq(Frames)
  BY <1>1, PushProperties
<1> HIDE DEF f
<1>3. Has(stack', "errorFinish") /\ \A op \in Ops : Has(rest, op) => Has(stack', op)
  BY <1>1, <1>2, HasPush
<1>4. ChannelInv'
  BY <1>1, <1>2, StackStep
<1> QED
  BY <1>1, <1>3, <1>4

LEMMA OnConnectedStep ==
  ASSUME ChannelInv, NEW rest \in Seq(Frames), OnConnected(rest)
  PROVE  /\ ChannelInv' /\ UNCHANGED queueVars
         /\ \A op \in Ops : Has(rest, op) => Has(stack', op)
BY FrameType, PushProperties, HasPush, StackStep DEF OnConnected

LEMMA OnDisconnectedStep ==
  ASSUME ChannelInv, NEW rest \in Seq(Frames), OnDisconnected(rest)
  PROVE  /\ ChannelInv' /\ UNCHANGED queueVars /\ Has(stack', "drain")
         /\ \A op \in Ops : Has(rest, op) => Has(stack', op)
<1>1. /\ stack' = Push(Frame("drain"), rest) /\ UNCHANGED queueVars
      /\ Frame("drain") \in Frames /\ Frame("drain").op = "drain"
  BY FrameType DEF OnDisconnected, Ops, Frame
<1>2. stack' \in Seq(Frames) /\ Has(stack', "drain")
      /\ \A op \in Ops : Has(rest, op) => Has(stack', op)
  BY <1>1, PushProperties, HasPush
<1> QED
  BY <1>1, <1>2, StackStep

LEMMA OnReceivedDataStep ==
  ASSUME ChannelInv, ChannelAssumption, NEW data \in Seq(Pieces), OnReceivedData(data)
  PROVE  ChannelInv' /\ (queue' # <<>> => reply'[Head(queue')].state # "Running")
<1>0. <<>> \in Seq(Pieces)
  OBVIOUS
<1>1. PICK err \in {"NoError", "UnexpectedParamType", "InvalidResponseMsgType"},
           kept \in {data, <<>>} :
        FinishNext(scheduled, err, kept, stack)
  BY DEF OnReceivedData
<1>2. /\ err \in Errors /\ scheduled \in BOOLEAN /\ stack \in Seq(Frames)
      /\ kept \in Seq(Pieces)
  BY <1>0 DEF Errors, ChannelInv, ChannelTypeOK
<1> QED
  BY <1>1, <1>2, FinishNextStep, FinishNextHead

\* Returning to the function below: the functions suspended there stay.
LEMMA ReturnStep ==
  ASSUME ChannelInv, stack # <<>>, Return, UNCHANGED queueVars
  PROVE  /\ ChannelInv'
         /\ \A op \in Ops : Has(stack, op) => Head(stack).op = op \/ Has(stack', op)
<1>1. stack \in Seq(Frames) /\ stack' = Tail(stack)
  BY DEF ChannelInv, ChannelTypeOK, Return
<1> QED
  BY <1>1, TailType, HasTail, StackStep

\* The steps that end the oldest request leave no running one behind.
LEMMA EndingStep ==
  ASSUME ChannelInv, ChannelAssumption,
         ErrorFinish \/ Unanswered \/ ExecNotConnected \/ (Drain /\ queue # <<>>)
  PROVE  ChannelInv' /\ (queue' # <<>> => reply'[Head(queue')].state # "Running")
<1>1. /\ stack \in Seq(Frames) /\ scheduled \in BOOLEAN
      /\ <<>> \in Seq(Pieces)
      /\ stack # <<>> => Tail(stack) \in Seq(Frames) /\ Head(stack) \in Frames
  BY TailType DEF ChannelInv, ChannelTypeOK
<1>2. {"NoError", "NotConnected"} \subseteq Errors
  BY DEF Errors
<1>3. CASE ErrorFinish
  <2> DEFINE err == Head(stack).err
             rest == Push([op |-> "errorClose", err |-> err], Tail(stack))
  <2>1. stack # <<>> /\ FinishNext(scheduled, err, <<>>, rest)
    BY <1>3 DEF ErrorFinish, At
  <2>2. err \in Errors
    BY <1>1, <2>1 DEF Frames
  <2>3. rest \in Seq(Frames)
    BY <1>1, <2>1, <2>2, FrameType, PushProperties
  <2> HIDE DEF err, rest
  <2> QED
    BY <1>1, <2>1, <2>2, <2>3, FinishNextStep, FinishNextHead
<1>4. CASE Unanswered
  BY <1>1, <1>2, <1>4, FinishNextStep, FinishNextHead DEF Unanswered, At
<1>5. CASE ExecNotConnected
  BY <1>1, <1>2, <1>5, FinishNextStep, FinishNextHead DEF ExecNotConnected
<1>6. CASE Drain /\ queue # <<>>
  BY <1>1, <1>2, <1>6, FinishNextStep, FinishNextHead DEF Drain, At
<1> QED
  BY <1>3, <1>4, <1>5, <1>6

\* The loop of onDisconnectedFromDevice is over.
LEMMA DrainedStep ==
  ASSUME ChannelInv, Drain, queue = <<>>
  PROVE  ChannelInv' /\ queue' = <<>>
<1>1. stack # <<>> /\ stack' = Push(Slot, Tail(stack)) /\ UNCHANGED queueVars
  BY DEF Drain, At, FinishNext
<1>2. stack' \in Seq(Frames)
  BY <1>1, TailType, FrameType, PushProperties DEF ChannelInv, ChannelTypeOK
<1> QED
  BY <1>1, <1>2, StackStep DEF queueVars

-----------------------------------------------------------------------------
(***************************************************************************)
(* Every function of the channel is a step of the service: nothing, or one *)
(* reply accepted, begun or ended in its turn.                             *)
(***************************************************************************)

ServiceStep == [Service!Next]_[r \in Ids |-> reply[r].state]

\* A change of one reply is a change of one status.
LEMMA StatusChange ==
  ASSUME ChannelTypeOK, NEW n \in Ids, NEW s,
         reply' \in [Ids -> Replies], reply'[n].state = s,
         \A r \in Ids : r # n => reply'[r] = reply[r]
  PROVE  [r \in Ids |-> reply[r].state]' = [[r \in Ids |-> reply[r].state] EXCEPT ![n] = s]
OBVIOUS

\* The order of the queue puts every earlier request behind its end.
LEMMA HeadOfQueue ==
  ASSUME ChannelInv, ChannelAssumption, queue # <<>>
  PROVE  /\ Head(queue) \in Ids
         /\ reply[Head(queue)].state \in {"Pending", "Running"}
         /\ \A q \in 1..(Head(queue) - 1) : q \in Ids /\ reply[q].state = "Finished"
<1>1. /\ Len(queue) \in Nat \ {0} /\ issued \in 0..MaxRequests /\ MaxRequests \in Nat
      /\ Head(queue) = queue[1] /\ Len(queue) <= issued
  BY DEF ChannelInv, ChannelTypeOK, FifoOrder, ChannelAssumption
<1>2. Head(queue) = Ended + 1 /\ Ended \in Nat /\ Ended + 1 <= issued
  BY <1>1 DEF ChannelInv, FifoOrder, Ended
<1>3. Head(queue) \in Ids
  BY <1>1, <1>2 DEF Ids
<1>4. reply[Head(queue)].state \in {"Pending", "Running"}
  BY <1>2, <1>3 DEF ChannelInv, FifoOrder
<1>5. ASSUME NEW q \in 1..(Head(queue) - 1)
      PROVE  q \in Ids /\ reply[q].state = "Finished"
  <2>1. q \in Nat /\ q <= Ended /\ q \in Ids
    BY <1>1, <1>2 DEF Ids
  <2> QED
    BY <2>1 DEF ChannelInv, FifoOrder
<1> QED
  BY <1>3, <1>4, <1>5

LEMMA FinishNextServes ==
  ASSUME ChannelInv, ChannelInv', ChannelAssumption,
         NEW posted, NEW err, NEW data, NEW rest, FinishNext(posted, err, data, rest)
  PROVE  ServiceStep
<1> DEFINE status == [r \in Ids |-> reply[r].state]
<1>1. CASE queue = <<>>
  BY <1>1 DEF FinishNext, ServiceStep
<1>2. CASE queue # <<>>
  <2>1. /\ reply' = [reply EXCEPT ![Head(queue)] =
                      [@ EXCEPT !.state = "Finished", !.error = err, !.data = data]]
        /\ reply \in [Ids -> Replies] /\ reply' \in [Ids -> Replies]
    BY <1>2 DEF FinishNext, ChannelInv, ChannelTypeOK
  <2>2. /\ reply'[Head(queue)].state = "Finished" /\ Head(queue) \in Ids
        /\ \A r \in Ids : r # Head(queue) => reply'[r] = reply[r]
    BY <1>2, <2>1, HeadOfQueue DEF Replies
  <2>3. status' = [status EXCEPT ![Head(queue)] = "Finished"]
    BY <2>1, <2>2, StatusChange DEF ChannelInv
  <2>4. Service!End(Head(queue))
    BY <1>2, <2>2, <2>3, HeadOfQueue DEF Service!End, Service!Before
  <2>5. \E r \in 1..MaxRequests : Service!End(r)
    BY <2>2, <2>4 DEF Ids, Service!End
  <2> QED
    BY <2>5, Zenon DEF ServiceStep, Service!Next, Service!Accept, Service!Begin, Service!End
<1> QED
  BY <1>1, <1>2

LEMMA ExecServes ==
  ASSUME ChannelInv, ChannelInv', ChannelAssumption, NEW kind \in RequestKinds, Exec(kind)
  PROVE  ServiceStep
<1> DEFINE status == [r \in Ids |-> reply[r].state]
           n == issued + 1
<1>1. /\ issued \in Nat /\ n \in Ids /\ Len(queue) \in Nat /\ Len(queue) <= issued
      /\ reply' = [reply EXCEPT ![n] = [@ EXCEPT !.state = "Pending", !.kind = kind]]
      /\ reply \in [Ids -> Replies] /\ reply' \in [Ids -> Replies]
  BY DEF Exec, ChannelInv, ChannelTypeOK, FifoOrder, ChannelAssumption, Ids
<1>2. /\ reply'[n].state = "Pending"
      /\ \A r \in Ids : r # n => reply'[r] = reply[r]
  BY <1>1 DEF Replies
<1>3. reply[n].state = "Idle"
  BY <1>1 DEF ChannelInv, FifoOrder, Ended
<1>4. ASSUME NEW q \in 1..(n - 1)
      PROVE  q \in Ids /\ reply[q].state # "Idle"
  <2>1. q \in Nat /\ q <= issued /\ q \in Ids /\ Ended \in Nat
    BY <1>1 DEF Ids, Ended
  <2>2. q <= Ended \/ q = Ended + 1 \/ q > Ended + 1
    BY <2>1
  <2> QED
    BY <2>1, <2>2 DEF ChannelInv, FifoOrder
<1> HIDE DEF n
<1>5. status' = [status EXCEPT ![n] = "Pending"]
  BY <1>1, <1>2, StatusChange DEF ChannelInv
<1>6. Service!Accept(n)
  BY <1>1, <1>3, <1>4, <1>5 DEF Service!Accept, Service!Before
<1>7. \E r \in 1..MaxRequests : Service!Accept(r)
  BY <1>1, <1>6 DEF Ids, Service!Accept
<1> QED
  BY <1>7, Zenon DEF ServiceStep, Service!Next, Service!Accept, Service!Begin, Service!End

LEMMA ExecSendServes ==
  ASSUME ChannelInv, ChannelInv', ChannelAssumption, NEW sent, ExecSend(sent)
  PROVE  ServiceStep
<1> DEFINE status == [r \in Ids |-> reply[r].state]
<1>1. /\ queue # <<>> /\ reply[Head(queue)].state # "Running"
      /\ reply' = [reply EXCEPT ![Head(queue)].state = "Running"]
      /\ reply \in [Ids -> Replies] /\ reply' \in [Ids -> Replies]
  BY DEF ExecSend, CanExecNext, ChannelInv, ChannelTypeOK
<1>2. /\ Head(queue) \in Ids /\ reply[Head(queue)].state = "Pending"
      /\ \A q \in 1..(Head(queue) - 1) : q \in Ids /\ reply[q].state = "Finished"
  BY <1>1, HeadOfQueue
<1>3. /\ reply'[Head(queue)].state = "Running"
      /\ \A r \in Ids : r # Head(queue) => reply'[r] = reply[r]
  BY <1>1, <1>2 DEF Replies
<1>4. status' = [status EXCEPT ![Head(queue)] = "Running"]
  BY <1>1, <1>2, <1>3, StatusChange DEF ChannelInv
<1>5. Service!Begin(Head(queue))
  BY <1>2, <1>4 DEF Service!Begin, Service!Before
<1>6. \E r \in 1..MaxRequests : Service!Begin(r)
  BY <1>2, <1>5 DEF Ids, Service!Begin
<1> QED
  BY <1>6, Zenon DEF ServiceStep, Service!Next, Service!Accept, Service!Begin, Service!End

LEMMA SilentServes ==
  ASSUME reply' = reply
  PROVE  ServiceStep
BY DEF ServiceStep

LEMMA InitServes ==
  ASSUME ChannelInit
  PROVE  Service!Init
<1> DEFINE kind == CHOOSE k \in RequestKinds : TRUE
<1>1. reply = [r \in Ids |-> [state |-> "Idle", error |-> "NoError",
                              kind |-> kind, data |-> <<>>]]
  BY DEF ChannelInit
<1> HIDE DEF kind
<1> QED
  BY <1>1 DEF Service!Init, Ids
===============================================================================
