--------------------------- MODULE DeliveryQueue ---------------------------
(***************************************************************************)
(* What the outbound pipeline relies on: a queue that keeps a message      *)
(* until it is acknowledged, and never delivers it to a consumer while     *)
(* another has it in hand.  (That it is delivered is liveness: QueueDrains *)
(* of OutboundPipeline.)                                                   *)
(* Only a lost link or the end of the consumers makes it deliver again;    *)
(* an acknowledgement is final and comes from the one consumer that has    *)
(* the message; and no new link opens while a consumer still has a message *)
(* it got over the old one.                                                *)
(***************************************************************************)
CONSTANTS Message, Consumer

VARIABLES
  linked,  \* the consumers are connected to the queue
  copy,    \* copy[m]: "none", "ready", "unacked" or "acked"
  holders  \* holders[m]: the consumers that have m in hand

vars == <<linked, copy, holders>>

Init == /\ linked = TRUE
        /\ copy = [m \in Message |-> "none"]
        /\ holders = [m \in Message |-> {}]

Publish(m) == /\ linked /\ copy[m] = "none"
              /\ copy' = [copy EXCEPT ![m] = "ready"]
              /\ UNCHANGED <<linked, holders>>

Deliver(m, c) == /\ linked /\ copy[m] = "ready" /\ holders[m] = {}
                 /\ copy' = [copy EXCEPT ![m] = "unacked"]
                 /\ holders' = [holders EXCEPT ![m] = {c}]
                 /\ UNCHANGED linked

Acknowledge(m, c) == /\ linked /\ copy[m] = "unacked" /\ holders[m] = {c}
                     /\ copy' = [copy EXCEPT ![m] = "acked"]
                     /\ holders' = [holders EXCEPT ![m] = {}]
                     /\ UNCHANGED linked

(* Without a link a consumer is done with m and the queue does not hear it.  *)
LetGo(m, c) == /\ ~linked /\ holders[m] = {c}
               /\ holders' = [holders EXCEPT ![m] = {}]
               /\ UNCHANGED <<linked, copy>>

(* Unacknowledged messages become deliverable again.  Of the consumers that  *)
(* have one in hand some may go on with it, but nobody else starts.          *)
Unlink == /\ linked' = FALSE
          /\ copy' = [m \in Message |-> IF copy[m] = "unacked" THEN "ready"
                                                               ELSE copy[m]]
          /\ holders' \in [Message -> SUBSET Consumer]
          /\ \A m \in Message : holders'[m] \subseteq holders[m]

Relink == /\ ~linked /\ \A m \in Message : holders[m] = {}
          /\ linked' = TRUE
          /\ UNCHANGED <<copy, holders>>

Next == \/ \E m \in Message : Publish(m)
        \/ \E m \in Message, c \in Consumer :
             Deliver(m, c) \/ Acknowledge(m, c) \/ LetGo(m, c)
        \/ Unlink \/ Relink

Spec == Init /\ [][Next]_vars

=============================================================================
