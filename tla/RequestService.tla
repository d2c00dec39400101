---------------------------- MODULE RequestService ----------------------------
(***************************************************************************)
(* What the asynchronous channel promises to its users: requests are       *)
(* accepted one after the other, carried out one at a time in that order,  *)
(* and each ends exactly once.  A request may end without having been      *)
(* carried out, because the connection is down.                            *)
(***************************************************************************)
EXTENDS Naturals

CONSTANT Requests   \* the number of requests
VARIABLE status     \* of each request: Idle, Pending, Running or Finished

Init == status = [r \in 1..Requests |-> "Idle"]

Before(r) == 1..(r - 1)

Accept(r) ==
  /\ status[r] = "Idle"
  /\ \A q \in Before(r) : status[q] # "Idle"
  /\ status' = [status EXCEPT ![r] = "Pending"]

Begin(r) ==
  /\ status[r] = "Pending"
  /\ \A q \in Before(r) : status[q] = "Finished"
  /\ status' = [status EXCEPT ![r] = "Running"]

End(r) ==
  /\ status[r] \in {"Pending", "Running"}
  /\ \A q \in Before(r) : status[q] = "Finished"
  /\ status' = [status EXCEPT ![r] = "Finished"]

Next == \E r \in 1..Requests : Accept(r) \/ Begin(r) \/ End(r)

Safety == Init /\ [][Next]_status
Spec   == Safety /\ \A r \in 1..Requests : WF_status(End(r))
===============================================================================
