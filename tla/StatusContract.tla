--------------------------- MODULE StatusContract ---------------------------
(***************************************************************************)
(* What the gateway promises about the status of an outbound message: it   *)
(* moves one way, pending, sent, delivered, read, with failed as the other *)
(* end of an undelivered message.  Two things void the promise, and each   *)
(* voids only a part of it: a message that the queue delivers a second     *)
(* time may be marked failed whatever it was, and after two concurrent     *)
(* updates of the row anything that was reported may be the last to stay.  *)
(***************************************************************************)

VARIABLES
  status,      \* messages.status
  redelivered, \* the queue has handed the message out again
  raced        \* two updates of the row have overlapped

vars == <<status, redelivered, raced>>

Status == {"pending", "sent", "delivered", "read", "failed"}

Order == {<<"pending", "sent">>, <<"sent", "delivered">>, <<"delivered", "read">>,
          <<"pending", "failed">>, <<"sent", "failed">>}

Init == status = "pending" /\ redelivered = FALSE /\ raced = FALSE

Advance == /\ \E s \in Status : <<status, s>> \in Order /\ status' = s
           /\ UNCHANGED <<redelivered, raced>>

Redeliver == redelivered' = TRUE /\ UNCHANGED <<status, raced>>

Race == raced' = TRUE /\ UNCHANGED <<status, redelivered>>

FailAgain == /\ redelivered
             /\ status' = "failed"
             /\ raced' \in {raced, TRUE}
             /\ UNCHANGED redelivered

Overwrite == /\ raced
             /\ status' \in Status \ {"pending"}
             /\ UNCHANGED <<redelivered, raced>>

Next == Advance \/ Redeliver \/ Race \/ FailAgain \/ Overwrite

Spec == Init /\ [][Next]_vars

=============================================================================
