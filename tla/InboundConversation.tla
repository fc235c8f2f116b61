------------------------ MODULE InboundConversation ------------------------
(***************************************************************************)
(* The messages of one customer on their way in: webhook calls of Meta,    *)
(* each handled by processMessage in a goroutine of its own                *)
(* (internal/api/webhook/whatsapp.go), and the browsers' requests that     *)
(* write the same conversation row: mark as read, rename                   *)
(* (internal/api/handlers/conversation.go) and the preview of an outbound  *)
(* message (internal/api/handlers/outbound.go).                            *)
(*                                                                         *)
(* ConversationRepository.Update writes every column from a copy that the  *)
(* operation read earlier.  Meta delivers a message again unless it was    *)
(* answered, and sometimes although it was; it is answered 200 even if the *)
(* message could not be stored.                                            *)
(***************************************************************************)
EXTENDS Naturals, FiniteSets

CONSTANTS
  Msg,     \* the customer's messages, by Meta's message id
  Call,    \* the webhook calls that deliver them
  Desk,    \* the browser requests; a request's text is named by the request
  None,    \* no text, no message
  MaxFaults, MaxAborts  \* bounds

ASSUME ActorAssumption == Call \cap Desk = {}

ASSUME NoneAssumption == None \notin Msg

ASSUME BoundAssumption == MaxFaults \in Nat /\ MaxAborts \in Nat

Actor == Call \cup Desk
Text == Msg \cup Desk \cup {None}
Row == [unread : Nat, preview : Text, name : Text]
EmptyRow == [unread |-> 0, preview |-> None, name |-> None]

VARIABLES
  open,                   \* the conversation exists
  unread, preview, name,  \* its columns
  counted,                \* history: the calls whose message the counter has
                          \* gone up for
  stored,                 \* the ids in table messages
  pc,                     \* the next step of a call or request
  msg,                    \* msg[c]: the message that call c delivers
  copy,                   \* copy[x]: the row in x's memory, with x's changes
  shown,                  \* shown[m]: how often m was broadcast (ReceiveMessage)
  badge,                  \* the last UpdateConversation broadcast
  answered,               \* history: messages of calls that were answered
  since,                  \* history: messages stored since the last mark-as-read
  beaten,                 \* history: two calls were about to create the row
  raced,                  \* history: the row was written under a held copy
  crossed,                \* history: the row was written between another's
                          \* reading it and its broadcast
  early,                  \* history: marked as read between a message's being
                          \* counted and its being stored
  faults, aborts

row == <<open, unread, preview, name, counted>>
memory == <<pc, msg, copy>>
browsers == <<shown, badge>>
overlaps == <<beaten, raced, crossed, early>>
vars == <<open, unread, preview, name, counted, stored, pc, msg, copy, shown, badge,
          answered, since, beaten, raced, crossed, early, faults, aborts>>

TypeOK ==
  /\ open \in BOOLEAN
  /\ unread \in Nat
  /\ preview \in Text
  /\ name \in Text
  /\ counted \in SUBSET Call
  /\ stored \in SUBSET Msg
  /\ pc \in [Actor -> {"idle", "create", "count", "update", "dedup", "store",
                       "show", "reply", "rename", "badge", "done"}]
  /\ msg \in [Call -> Msg \cup {None}]
  /\ copy \in [Actor -> Row]
  /\ shown \in [Msg -> Nat]
  /\ badge \in Row
  /\ answered \in SUBSET Msg
  /\ since \in SUBSET stored
  /\ beaten \in BOOLEAN
  /\ raced \in BOOLEAN
  /\ crossed \in BOOLEAN
  /\ early \in BOOLEAN
  /\ faults \in 0 .. MaxFaults
  /\ aborts \in 0 .. MaxAborts

Init ==
  /\ open = FALSE
  /\ unread = 0 /\ preview = None /\ name = None
  /\ counted = {} /\ stored = {}
  /\ pc = [x \in Actor |-> "idle"]
  /\ msg = [c \in Call |-> None]
  /\ copy = [x \in Actor |-> EmptyRow]
  /\ shown = [m \in Msg |-> 0]
  /\ badge = EmptyRow
  /\ answered = {} /\ since = {}
  /\ beaten = FALSE /\ raced = FALSE /\ crossed = FALSE /\ early = FALSE
  /\ faults = 0 /\ aborts = 0

(* A database call fails unexpectedly. *)
Fault == faults < MaxFaults /\ faults' = faults + 1

At(S) == {x \in Actor : pc[x] \in S}
Holders == At({"count", "update", "reply", "rename"})
Busy == At({"count", "update", "dedup", "store", "show", "reply", "rename", "badge"})

Goto(x, step) == pc' = [pc EXCEPT ![x] = step]

(* x is done and forgets its copy; a webhook call is answered 200. *)
Finish(x) == Goto(x, "done") /\ copy' = [copy EXCEPT ![x] = EmptyRow]
Answer(c, m) == Finish(c) /\ answered' = answered \cup {m}

(* x writes the row: which others' copies or broadcasts does that overtake?  *)
Overtakes(x) == /\ raced' = (raced \/ Holders \ {x} # {})
                /\ crossed' = (crossed \/ Busy \ {x} # {})

(* ConversationRepository.Update: all columns, by primary key.  That of a    *)
(* call carries the count of its message.                                    *)
Update(x) == /\ unread' = copy[x].unread
             /\ preview' = copy[x].preview
             /\ name' = copy[x].name
             /\ counted' = counted \cup ({x} \cap Call)
             /\ UNCHANGED open
             /\ Overtakes(x)

-----------------------------------------------------------------------------
(* WhatsAppHandler.processMessage *)

(* The contact cannot be stored: the message is dropped.                     *)
ContactFails(c, m) ==
  /\ pc[c] = "idle"
  /\ Fault
  /\ msg' = [msg EXCEPT ![c] = m]
  /\ Answer(c, m)
  /\ UNCHANGED <<row, stored, browsers, since, overlaps, aborts>>

(* Mutant of CounterStep: the count in memory is not raised.                 *)
CounterStepForgotten == 0

(* Mutant of CounterStep: the row is read only after IncrementUnread.        *)
CounterStepLate == 2

(* conv.UnreadCount++ *)
CounterStep == 1

(* GetByPhoneNumberAndContact.  The changes to the row in memory are made    *)
(* here, since nobody sees them before the row is written.  An error, of     *)
(* whatever kind, is taken for a missing row.                                *)
FindConversation(c, m) ==
  /\ pc[c] = "idle"
  /\ msg' = [msg EXCEPT ![c] = m]
  /\ \/ /\ open /\ UNCHANGED faults
        /\ Goto(c, "count")
        /\ copy' = [copy EXCEPT ![c] = [unread |-> unread + CounterStep,
                                        preview |-> m, name |-> name]]
     \/ /\ (~open /\ UNCHANGED faults) \/ (open /\ Fault)
        /\ Goto(c, "create")
        /\ copy' = [copy EXCEPT ![c] = [unread |-> 1, preview |-> m, name |-> None]]
  /\ UNCHANGED <<row, stored, browsers, answered, since, overlaps, aborts>>

(* Create of a conversation: contact_id and phone_number are unique.  Who    *)
(* comes second drops its message.                                           *)
CreateConversation(c) ==
  /\ pc[c] = "create"
  /\ beaten' = (beaten \/ At({"create"}) # {c})
  /\ \/ /\ ~open /\ open' = TRUE
        /\ unread' = 1 /\ preview' = msg[c] /\ UNCHANGED name
        /\ counted' = counted \cup {c}
        /\ Goto(c, "dedup")
        /\ Overtakes(c)
        /\ UNCHANGED <<copy, answered, faults>>
     \/ /\ (open /\ UNCHANGED faults) \/ Fault
        /\ Answer(c, msg[c])
        /\ UNCHANGED <<row, raced, crossed>>
  /\ UNCHANGED <<stored, msg, browsers, since, early, aborts>>

(* IncrementUnread; a failure is only logged.                                *)
IncrementUnread(c) ==
  /\ pc[c] = "count" /\ Goto(c, "update")
  /\ \/ /\ unread' = unread + 1
        /\ counted' = counted \cup {c}
        /\ Overtakes(c)
        /\ UNCHANGED faults
     \/ Fault /\ UNCHANGED <<unread, counted, raced, crossed>>
  /\ UNCHANGED <<open, preview, name, stored, msg, copy, browsers, answered, since,
                 beaten, early, aborts>>

(* Update after IncrementUnread; a failure is only logged.                   *)
UpdateConversation(c) ==
  /\ pc[c] = "update" /\ Goto(c, "dedup")
  /\ \/ Update(c) /\ UNCHANGED faults
     \/ Fault /\ UNCHANGED <<row, raced, crossed>>
  /\ UNCHANGED <<stored, msg, copy, browsers, answered, since, beaten, early, aborts>>

(* Mutant of IsDuplicate: the look-up is by conversation.                    *)
IsDuplicateByConversation(m) == stored # {}

IsDuplicate(m) == m \in stored

(* GetByMessageID; a failed query is taken for "not a duplicate".            *)
CheckDuplicate(c) ==
  /\ pc[c] = "dedup"
  /\ \/ /\ IsDuplicate(msg[c])
        /\ Answer(c, msg[c])
        /\ UNCHANGED faults
     \/ /\ (~IsDuplicate(msg[c]) /\ UNCHANGED faults) \/ Fault
        /\ Goto(c, "store")
        /\ UNCHANGED <<copy, answered>>
  /\ UNCHANGED <<row, stored, msg, browsers, since, overlaps, aborts>>

(* Mutant of Insertable: message_id is not unique.                           *)
InsertableAlways(m) == TRUE

Insertable(m) == m \notin stored

(* MessageRepository.Create, and PublishInbound to a queue nobody reads.     *)
StoreMessage(c) ==
  /\ pc[c] = "store"
  /\ \/ /\ Insertable(msg[c]) /\ UNCHANGED faults
        /\ stored' = stored \cup {msg[c]}
        /\ since' = since \cup {msg[c]}
        /\ Goto(c, "show")
        /\ UNCHANGED <<copy, answered>>
     \/ /\ (~Insertable(msg[c]) /\ UNCHANGED faults) \/ Fault
        /\ Answer(c, msg[c])
        /\ UNCHANGED <<stored, since>>
  /\ UNCHANGED <<row, msg, browsers, overlaps, aborts>>

(* The broadcast ReceiveMessage. *)
ShowMessage(c) ==
  /\ pc[c] = "show" /\ Goto(c, "badge")
  /\ shown' = [shown EXCEPT ![msg[c]] = @ + 1]
  /\ UNCHANGED <<row, stored, msg, copy, badge, answered, since, overlaps, faults, aborts>>

(* Mutant of ShownRow: the broadcast shows the row as stored before the call. *)
ShownRowBefore(x) ==
  [copy[x] EXCEPT !.unread = IF x \in Call /\ @ > 0 THEN @ - 1 ELSE @]

ShownRow(x) == copy[x]

(* The broadcast UpdateConversation, and 200. *)
ShowConversation(c) ==
  /\ pc[c] = "badge"
  /\ badge' = ShownRow(c)
  /\ Answer(c, msg[c])
  /\ UNCHANGED <<row, stored, msg, shown, since, overlaps, faults, aborts>>

-----------------------------------------------------------------------------
(* Requests of the browsers, which know the conversation exists *)

(* ConversationHandler.markAsRead: ResetUnread, one statement, no broadcast. *)
MarkAsRead(d) ==
  /\ open /\ pc[d] = "idle"
  /\ Finish(d)
  /\ unread' = 0
  /\ since' = {}
  /\ early' = (early \/ At({"update", "dedup", "store"}) # {})
  /\ Overtakes(d)
  /\ UNCHANGED <<open, preview, name, counted, stored, msg, browsers, answered, beaten,
                 faults, aborts>>

(* ConversationHandler.renameConversation: GetByID ...                       *)
ReadToRename(d) ==
  /\ open /\ pc[d] = "idle" /\ Goto(d, "rename")
  /\ copy' = [copy EXCEPT ![d] = [unread |-> unread, preview |-> preview, name |-> d]]
  /\ UNCHANGED <<row, stored, msg, browsers, answered, since, overlaps, faults, aborts>>

(* ... and Update, no broadcast.                                             *)
Rename(d) ==
  /\ pc[d] = "rename" /\ Finish(d)
  /\ \/ Update(d) /\ UNCHANGED faults
     \/ Fault /\ UNCHANGED <<row, raced, crossed>>
  /\ UNCHANGED <<stored, msg, browsers, answered, since, beaten, early, aborts>>

(* Mutant of CountAfterReply: who replies has read everything.               *)
CountAfterReplyNone == 0

CountAfterReply == unread

(* OutboundHandler.SendMessage, once the message is stored: GetByID ...      *)
ReadToReply(d) ==
  /\ open /\ pc[d] = "idle" /\ Goto(d, "reply")
  /\ copy' = [copy EXCEPT ![d] = [unread |-> CountAfterReply, preview |-> d,
                                  name |-> name]]
  /\ UNCHANGED <<row, stored, msg, browsers, answered, since, overlaps, faults, aborts>>

(* ... Update, whose failure is only logged ...                              *)
Reply(d) ==
  /\ pc[d] = "reply" /\ Goto(d, "badge")
  /\ \/ Update(d) /\ UNCHANGED faults
     \/ Fault /\ UNCHANGED <<row, raced, crossed>>
  /\ UNCHANGED <<stored, msg, copy, browsers, answered, since, beaten, early, aborts>>

(* ... and the broadcast UpdateConversation.                                 *)
ShowReply(d) ==
  /\ pc[d] = "badge" /\ Finish(d)
  /\ badge' = ShownRow(d)
  /\ UNCHANGED <<row, stored, msg, shown, answered, since, overlaps, faults, aborts>>

-----------------------------------------------------------------------------
(* The rest of a call or request does not happen and it is not answered: its *)
(* client closed the connection, which cancels its context.  A kill of the   *)
(* process does this to all of them at once.                                 *)
Abandon(x) ==
  /\ aborts < MaxAborts /\ aborts' = aborts + 1
  /\ pc[x] \notin {"idle", "done"}
  /\ Finish(x)
  /\ UNCHANGED <<row, stored, msg, browsers, answered, since, overlaps, faults>>

CallStep(c) == \/ \E m \in Msg : ContactFails(c, m) \/ FindConversation(c, m)
               \/ CreateConversation(c) \/ IncrementUnread(c) \/ UpdateConversation(c)
               \/ CheckDuplicate(c) \/ StoreMessage(c) \/ ShowMessage(c)
               \/ ShowConversation(c)

DeskStep(d) == \/ MarkAsRead(d) \/ ReadToRename(d) \/ Rename(d)
               \/ ReadToReply(d) \/ Reply(d) \/ ShowReply(d)

Next == \/ \E c \in Call : CallStep(c)
        \/ \E d \in Desk : DeskStep(d)
        \/ \E x \in Actor : Abandon(x)

Spec == Init /\ [][Next]_vars

-----------------------------------------------------------------------------
(* Properties *)

(* A message was delivered in two calls. *)
Repeated == \E c, d \in Call : c # d /\ msg[c] = msg[d] /\ msg[c] # None


(* An answered message is in table messages, unless the database failed or   *)
(* two first messages of the customer were about to create the conversation: *)
(* repeats, retries and overlapping calls alone lose none.                   *)
AnsweredIsStored == faults = 0 /\ ~beaten => answered \subseteq stored

(* Browsers are told of a message at most once, however often it is          *)
(* delivered, and only once it is stored.                                    *)
ShownOnce == \A m \in Msg : shown[m] <= 1 /\ (shown[m] = 1 => m \in stored)

(* The row keeps ConversationContract: without overlap no operation undoes   *)
(* what another did, and in particular IncrementUnread and the full write of *)
(* processMessage add one between them, also when either fails.              *)
Contract == INSTANCE ConversationContract WITH Delivery <- Call, overlapped <- raced

NoLostUpdate == Contract!Spec

(* No unread message is hidden: the counter is at least the number of        *)
(* messages stored since the last mark-as-read, unless operations overlapped *)
(* or the database failed.  Repeats and abandoned calls do not break it,     *)
(* since a message is counted before it is stored.                           *)
UnreadCovers == ~raced /\ ~early /\ faults = 0 => Cardinality(since) <= unread

(* If moreover no message was delivered twice and no call abandoned, the     *)
(* counter is the number of those messages and the ones on their way to the  *)
(* table.                                                                    *)
UnreadExact ==
  ~raced /\ ~early /\ faults = 0 /\ aborts = 0 /\ ~Repeated =>
    unread = Cardinality(since)
             + Cardinality({c \in Call : pc[c] \in {"update", "dedup", "store"}})

(* When nothing is under way and nothing overlapped, failed, was repeated or *)
(* abandoned, the last UpdateConversation broadcast shows the stored row,    *)
(* except for a mark-as-read that followed it, which no browser is told of.  *)
BadgeIsRow ==
  /\ open /\ Busy = {}
  /\ ~crossed /\ faults = 0 /\ aborts = 0 /\ ~Repeated
  => /\ badge.preview = preview
     /\ badge.unread = unread \/ (unread = 0 /\ since = {})
=============================================================================
