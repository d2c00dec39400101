----------------------------- MODULE AsyncChannel -----------------------------
(***************************************************************************)
(* The part of the asynchronous Sybus channel every transport shares       *)
(* (class AsyncChannel): the queue of replies, the scheduled execNext, and *)
(* what happens when a request ends.  The transports, AsyncTcpChannel and  *)
(* AsyncVComChannel, extend this module and define what is virtual in it.  *)
(*                                                                         *)
(* Everything runs in one thread, but a Qt signal is a call: finished(),   *)
(* error(), connectedToDevice() and disconnectedFromDevice() run the slots *)
(* of the application in the middle of the function that emits them, and a *)
(* slot may call exec(), connectToDevice() and disconnectFromDevice()      *)
(* again.  `stack` is that call stack: its head runs next, a "slot" frame  *)
(* is application code, any other frame is the rest of a channel function  *)
(* that waits for the call above it to return.  The event loop delivers    *)
(* its next event when the stack is empty.                                 *)
(***************************************************************************)
EXTENDS Naturals, Sequences

CONSTANTS
  MaxRequests,       \* bound: calls of exec() in one behaviour
  RequestKinds,      \* the requests: needResponse and board > -1 of each
  AlwaysResponse     \* isAlwaysResponseNecessary(): TRUE over an RS485 gate

ASSUME ChannelAssumption ==
  /\ MaxRequests \in Nat
  /\ RequestKinds \in (SUBSET [needResponse : BOOLEAN, toBoard : BOOLEAN]) \ {{}}
  /\ AlwaysResponse \in BOOLEAN

VARIABLES
  queue,       \* m_queue, the numbers of the replies, oldest first
  scheduled,   \* m_isScheduledNext: a call of execNext is posted
  reply,       \* the ChannelReply of each request
  issued,      \* how many requests exec() has accepted so far
  stack        \* the call stack

queueVars   == <<queue, scheduled, reply, issued>>
channelVars == <<queueVars, stack>>

Ids    == 1..MaxRequests
States == {"Idle", "Pending", "Running", "Finished"}
Errors == {"NoError", "NotConnected", "TransportError", "InvalidCRC",
           "InvalidASCII", "InvalidResponseMsgType", "UnexpectedParamType"}

\* A piece of the device's answer to request `of`, as it comes off the wire.
Pieces == [of : Ids, part : {"whole", "first", "last"}]
Whole(r) == <<[of |-> r, part |-> "whole"]>>
Split(r) == <<[of |-> r, part |-> "first"], [of |-> r, part |-> "last"]>>

Replies == [state : States, error : Errors, kind : RequestKinds, data : Seq(Pieces)]

Ops == {"slot", "errorFinish", "errorClose", "drain", "unanswered",
        "startTimer", "socketAbort", "hangUp", "closed"}
Frames == [op : Ops, err : Errors]
Frame(op) == [op |-> op, err |-> "NoError"]
Slot == Frame("slot")
Push(frame, rest) == <<frame>> \o rest

At(op)  == stack # <<>> /\ Head(stack).op = op
Return  == stack' = Tail(stack)
AppTurn == stack = <<>> \/ At("slot")     \* application code runs
Idling  == stack = <<>>                   \* the event loop runs

\* Whether the reply of r waits for an answer of the device, whatever the
\* request says: always over a gate and for an extension board.
NeedsResponse(r) ==
  \/ reply[r].kind.needResponse
  \/ reply[r].kind.toBoard
  \/ AlwaysResponse

ChannelInit ==
  /\ queue = <<>>
  /\ scheduled = FALSE
  /\ reply = [r \in Ids |-> [state |-> "Idle", error |-> "NoError",
                             kind |-> CHOOSE k \in RequestKinds : TRUE, data |-> <<>>]]
  /\ issued = 0
  /\ stack = <<>>

-----------------------------------------------------------------------------
(***************************************************************************)
(* The functions of the class.  `rest` is what is left of the stack when   *)
(* the function returns.                                                   *)
(***************************************************************************)

\* Faulty variants, for the properties to catch: the newest reply is popped,
\* or execNext is not posted again.
FinishNewest(posted, err, data, rest) ==
  \/ /\ queue = <<>>
     /\ scheduled' = posted
     /\ stack' = rest
     /\ UNCHANGED <<queue, reply, issued>>
  \/ /\ queue # <<>>
     /\ queue' = SubSeq(queue, 1, Len(queue) - 1)
     /\ scheduled' = (posted \/ queue' # <<>>)
     /\ reply' = [reply EXCEPT ![queue[Len(queue)]] =
                    [@ EXCEPT !.state = "Finished", !.error = err, !.data = data]]
     /\ stack' = Push(Slot, rest)
     /\ UNCHANGED issued

FinishOnly(posted, err, data, rest) ==
  \/ /\ queue = <<>>
     /\ stack' = rest
     /\ UNCHANGED <<queue, reply, issued>>
     /\ scheduled' = posted
  \/ /\ queue # <<>>
     /\ queue' = Tail(queue)
     /\ scheduled' = posted
     /\ reply' = [reply EXCEPT ![Head(queue)] =
                    [@ EXCEPT !.state = "Finished", !.error = err, !.data = data]]
     /\ stack' = Push(Slot, rest)
     /\ UNCHANGED issued

\* finishNext: pop the oldest reply, post execNext when others are left,
\* and only then tell the reply, whose finished() runs the slots.
FinishNext(posted, err, data, rest) ==
  \/ /\ queue = <<>>
     /\ scheduled' = posted
     /\ stack' = rest
     /\ UNCHANGED <<queue, reply, issued>>
  \/ /\ queue # <<>>
     /\ queue' = Tail(queue)
     /\ scheduled' = (posted \/ Tail(queue) # <<>>)
     /\ reply' = [reply EXCEPT ![Head(queue)] =
                    [@ EXCEPT !.state = "Finished", !.error = err, !.data = data]]
     /\ stack' = Push(Slot, rest)
     /\ UNCHANGED issued

\* setError: error() is emitted first; the oldest reply and the connection
\* follow when its slots have returned.
SetError(err, rest) ==
  /\ stack' = Push(Slot, Push([op |-> "errorFinish", err |-> err], rest))
  /\ UNCHANGED queueVars

\* onConnectedToDevice only emits connectedToDevice().
OnConnected(rest) ==
  /\ stack' = Push(Slot, rest)
  /\ UNCHANGED queueVars

\* onDisconnectedFromDevice: the loop that fails all replies comes next.
OnDisconnected(rest) ==
  /\ stack' = Push(Frame("drain"), rest)
  /\ UNCHANGED queueVars

\* onReceivedData: whatever arrived is decoded as the answer to the oldest
\* reply, running or not; nothing happens when the queue is empty.  The data
\* is kept unless the message is not an answer at all.
OnReceivedData(data) ==
  \/ \E err \in {"NoError", "UnexpectedParamType"} : FinishNext(scheduled, err, data, stack)
  \/ FinishNext(scheduled, "InvalidResponseMsgType", <<>>, stack)

\* Faulty variant: the reply is queued under the number of the one before it.
ExecStale(kind) ==
  /\ AppTurn
  /\ issued < MaxRequests
  /\ issued' = issued + 1
  /\ queue' = Append(queue, issued)
  /\ scheduled' = TRUE
  /\ reply' = [reply EXCEPT ![issued + 1] = [@ EXCEPT !.state = "Pending", !.kind = kind]]
  /\ UNCHANGED stack

\* exec and addToQueue.
Exec(kind) ==
  /\ AppTurn
  /\ issued < MaxRequests
  /\ issued' = issued + 1
  /\ queue' = Append(queue, issued + 1)
  /\ scheduled' = TRUE
  /\ reply' = [reply EXCEPT ![issued + 1] = [@ EXCEPT !.state = "Pending", !.kind = kind]]
  /\ UNCHANGED stack

SlotReturns == At("slot") /\ Return /\ UNCHANGED queueVars

\* Faulty variant: a transport error leaves the connection open.
ErrorFinishOnly ==
  At("errorFinish") /\ FinishNext(scheduled, Head(stack).err, <<>>, Tail(stack))

\* The rest of setError.
ErrorFinish ==
  /\ At("errorFinish")
  /\ FinishNext(scheduled, Head(stack).err, <<>>,
       Push([op |-> "errorClose", err |-> Head(stack).err], Tail(stack)))

\* The loop of onDisconnectedFromDevice, then disconnectedFromDevice().
Drain ==
  /\ At("drain")
  /\ \/ queue # <<>> /\ FinishNext(scheduled, "NotConnected", <<>>, stack)
     \/ /\ queue = <<>>
        /\ stack' = Push(Slot, Tail(stack))
        /\ UNCHANGED queueVars

\* The last lines of execNext, for a request that waits for no answer.
Unanswered ==
  At("unanswered") /\ FinishNext(scheduled, "NoError", <<>>, Tail(stack))

\* execNext when there is nothing to do: no reply, or one already running.
ExecNothing ==
  /\ Idling /\ scheduled
  /\ queue # <<>> => reply[Head(queue)].state = "Running"
  /\ scheduled' = FALSE
  /\ UNCHANGED <<queue, reply, issued, stack>>

CanExecNext ==
  /\ Idling /\ scheduled
  /\ queue # <<>> /\ reply[Head(queue)].state # "Running"

\* Faulty variant: finishNext() is called without the error.
ExecNotConnectedQuietly ==
  CanExecNext /\ FinishNext(FALSE, "NoError", <<>>, stack)

ExecNotConnected ==
  CanExecNext /\ FinishNext(FALSE, "NotConnected", <<>>, stack)

\* execNext up to and including doSendData, which leaves `sent` to be run.
ExecSend(sent) ==
  /\ CanExecNext
  /\ scheduled' = FALSE
  /\ reply' = [reply EXCEPT ![Head(queue)].state = "Running"]
  /\ stack' = sent \o (IF NeedsResponse(Head(queue)) THEN <<>> ELSE <<Frame("unanswered")>>)
  /\ UNCHANGED <<queue, issued>>

-----------------------------------------------------------------------------
(* Properties every transport has. *)

\* The shared variables have their types; the call stack holds known frames.
ChannelTypeOK ==
  /\ queue \in Seq(Ids)
  /\ scheduled \in BOOLEAN
  /\ issued \in 0..MaxRequests
  /\ reply \in [Ids -> Replies]
  /\ stack \in Seq(Frames)

\* finishNext takes the replies in the order exec() accepted them and loses
\* none: the queue is exactly the requests without an end, in order, only its
\* head may be running, and every earlier request is finished.
Ended == issued - Len(queue)

FifoOrder ==
  /\ Len(queue) <= issued
  /\ \A i \in 1..Len(queue) : queue[i] = Ended + i
  /\ \A r \in Ids :
       /\ r <= Ended                    => reply[r].state = "Finished"
       /\ r = Ended + 1 /\ r <= issued  => reply[r].state \in {"Pending", "Running"}
       /\ r > Ended + 1 /\ r <= issued  => reply[r].state = "Pending"
       /\ r > issued                    => reply[r].state = "Idle"

\* A waiting request is never forgotten: while replies are queued, either
\* execNext is posted or the oldest one is running, whatever the slots did
\* in the middle of finishNext, setError or onDisconnectedFromDevice.
NoLostWakeup == queue # <<>> => scheduled \/ reply[Head(queue)].state = "Running"

\* Some suspended function is to go on with `op`.
OnStack(op) == \E i \in 1..Len(stack) : stack[i].op = op

\* What the channel promises, seen through the states of its replies.
Service == INSTANCE RequestService WITH
             Requests <- MaxRequests, status <- [r \in Ids |-> reply[r].state]
===============================================================================
