------------------------ MODULE ConversationContract ------------------------
(***************************************************************************)
(* What the gateway promises about a conversation row: however many        *)
(* statements it takes, a delivery of a message adds at most one to the    *)
(* unread counter and changes the preview, a reply changes the preview     *)
(* only, mark-as-read empties the counter, renaming changes the name, and  *)
(* none of them undoes what another did to another column.  A message that *)
(* is delivered twice may count twice.  The promise is void once two       *)
(* operations on the row have overlapped.                                  *)
(***************************************************************************)
EXTENDS Naturals

CONSTANTS Delivery, Text, None

VARIABLES
  open,                   \* the row exists
  unread, preview, name,  \* its columns
  counted,                \* the deliveries that the counter has gone up for
  overlapped              \* an operation wrote while another held a copy

vars == <<open, unread, preview, name, counted, overlapped>>

Init == /\ open = FALSE
        /\ unread = 0 /\ preview = None /\ name = None
        /\ counted = {}
        /\ overlapped = FALSE

(* The counter goes up for c: once.                                          *)
Count(c) == /\ c \notin counted /\ counted' = counted \cup {c}
            /\ unread' = unread + 1

Open(c) == /\ ~open /\ open' = TRUE
           /\ Count(c) /\ preview' \in Text
           /\ UNCHANGED name

(* One of the statements about a delivery.                                   *)
Receive(c) == /\ open
              /\ Count(c) \/ (c \in counted /\ UNCHANGED <<unread, counted>>)
              /\ preview' \in Text
              /\ UNCHANGED <<open, name>>

Reply == open /\ preview' \in Text /\ UNCHANGED <<open, unread, name, counted>>

MarkRead == open /\ unread' = 0 /\ UNCHANGED <<open, preview, name, counted>>

Rename == open /\ name' \in Text /\ UNCHANGED <<open, unread, preview, counted>>

Overwrite == /\ open /\ overlapped
             /\ unread' \in Nat /\ preview' \in Text /\ name' \in Text
             /\ counted' \in SUBSET Delivery
             /\ UNCHANGED open

Next == /\ \/ \E c \in Delivery : Open(c) \/ Receive(c)
           \/ Reply \/ MarkRead \/ Rename \/ Overwrite
        /\ overlapped' \in {overlapped, TRUE}

Spec == Init /\ [][Next]_vars

=============================================================================
