------------------------------ MODULE Listing ------------------------------
(***************************************************************************)
(* A browser walks through the pages of a list: of conversations, with a   *)
(* cursor (listConversations, internal/api/handlers/conversation.go and    *)
(* ListWithCursor, ListByPhoneNumberIDWithCursor,                          *)
(* internal/repository/conversation.go), or of the messages of one         *)
(* conversation, with an offset (getConversationMessages and               *)
(* GetByConversationID, internal/repository/message.go).  Every page is a  *)
(* query of its own; rows are written between them by the webhook, the     *)
(* workers and other browsers.                                             *)
(*                                                                         *)
(* The database keeps the time of a conversation's last write to the       *)
(* moment, the cursor names it cut to the second.  Messages of one second  *)
(* come in any order, and not always in the same.                          *)
(***************************************************************************)
EXTENDS Naturals, FiniteSets

CONSTANTS
  Conv,      \* the conversations of the list, by id; ids are compared
  Msg,       \* the messages of the conversation that is opened
  Limit,     \* rows of a page
  Moments,   \* moments of a second
  Lag,       \* moments between taking updated_at and the commit, at most
  MaxTime,   \* bound of the clock
  MaxSecond  \* bound of the seconds messages are sorted by

ASSUME ConvAssumption == Conv \subseteq Nat /\ IsFiniteSet(Conv)
ASSUME MsgAssumption == Msg \cap Nat = {} /\ IsFiniteSet(Msg)
ASSUME LimitAssumption == Limit \in Nat \ {0} /\ Moments \in Nat \ {0}
ASSUME TimeAssumption == Lag \in Nat /\ MaxTime \in Nat /\ MaxSecond \in Nat

Filters == {"all", "unread", "read"}

VARIABLES
  now,
  updated,       \* updated[c]: column updated_at; 0: there is no such row
  unread,        \* the conversations with unread_count > 0
  stamp,         \* stamp[m]: the second a message is sorted by; 0: not stored
  list, filter,  \* what the browser lists
  at, id,        \* the cursor: cursor_updated_at (0: none) and cursor_id
  offset,        \* the other list's cursor: rows shown so far
  walk,          \* "idle", "asking" for pages or "ended"
  listed,        \* how often a row was shown in this walk
  begun,         \* history: the rows the list had when the walk began
  touched,       \* history: the conversations written since
  lasts          \* history: the last row of each page but the last, with its
                 \* time

cursor == <<at, id, offset>>
conversations == <<updated, unread>>
history == <<begun, touched, lasts>>
vars == <<now, conversations, stamp, list, filter, cursor, walk, listed, history>>

TypeOK ==
  /\ now \in Nat
  /\ updated \in [Conv -> Nat]
  /\ unread \in SUBSET Conv
  /\ stamp \in [Msg -> Nat]
  /\ list \in {"conversations", "messages"}
  /\ filter \in Filters
  /\ at \in Nat /\ id \in Nat /\ offset \in Nat
  /\ walk \in {"idle", "asking", "ended"}
  /\ listed \in [Conv \cup Msg -> Nat]
  /\ begun \in SUBSET (Conv \cup Msg)
  /\ touched \in SUBSET Conv
  /\ lasts \in SUBSET ((Conv \cup Msg) \X Nat)

Init ==
  /\ now = Moments + Lag
  /\ updated = [c \in Conv |-> 0] /\ unread = {}
  /\ stamp = [m \in Msg |-> 0]
  /\ list = "conversations" /\ filter = "all"
  /\ at = 0 /\ id = 0 /\ offset = 0
  /\ walk = "idle"
  /\ listed = [x \in Conv \cup Msg |-> 0]
  /\ begun = {} /\ touched = {} /\ lasts = {}

-----------------------------------------------------------------------------
(* What others write. *)

(* Create, Update, AssignAgent, IncrementUnread, ResetUnread: each takes the *)
(* time before its statement, so that of two writers the later one may       *)
(* store the earlier time.                                                   *)
Write(c) ==
  /\ \E t \in (now - Lag) .. now : updated' = [updated EXCEPT ![c] = t]
  /\ unread' \in {unread \cup {c}, unread \ {c}}
  /\ touched' = IF walk = "idle" THEN {} ELSE touched \cup {c}
  /\ UNCHANGED <<now, stamp, list, filter, cursor, walk, listed, begun, lasts>>

(* A message is stored: with Meta's second if it has one, else with the      *)
(* second of its creation.  A message delivered late is not the newest.      *)
Store(m) ==
  /\ stamp[m] = 0
  /\ \E s \in 1 .. MaxSecond : stamp' = [stamp EXCEPT ![m] = s]
  /\ UNCHANGED <<now, conversations, list, filter, cursor, walk, listed, history>>

Tick == /\ now < MaxTime
        /\ now' = now + 1
        /\ UNCHANGED <<conversations, stamp, list, filter, cursor, walk, listed, history>>

-----------------------------------------------------------------------------
(* The list of conversations. *)

(* The filter of a query.                                                    *)
Matches(c, f) == /\ updated[c] # 0
                 /\ f = "unread" => c \in unread
                 /\ f = "read" => c \notin unread

(* ORDER BY updated_at DESC, id DESC                                         *)
Before(c, d) == \/ updated[c] > updated[d]
                \/ updated[c] = updated[d] /\ c > d

(* (c.updated_at, c.id) < (cursor): the condition is left out without one.   *)
After(c) == \/ at = 0
            \/ updated[c] < at
            \/ updated[c] = at /\ c < id

(* Mutant of Cut: up to the next second.                                     *)
CutUp(t) == t + Moments - (t % Moments)

(* UpdatedAt.Format(time.RFC3339), which the next request hands back.        *)
Cut(t) == t - (t % Moments)

(* Mutant of HasMore: a full page is taken for the last.                     *)
HasMoreNot(n) == n > Limit

(* hasMore := len(...) >= limit *)
HasMore(n) == n >= Limit

(* The first page is asked for without a cursor.                             *)
OpenConversations(f) ==
  /\ walk # "asking"
  /\ list' = "conversations" /\ filter' = f
  /\ at' = 0 /\ id' = 0 /\ offset' = 0
  /\ walk' = "asking"
  /\ listed' = [x \in Conv \cup Msg |-> 0]
  /\ begun' = {c \in Conv : Matches(c, f)}
  /\ touched' = {} /\ lasts' = {}
  /\ UNCHANGED <<now, conversations, stamp>>

(* LIMIT: S is a page of the rows R.                                         *)
Limited(S, R) == /\ S \subseteq R
                 /\ S = R \/ Cardinality(S) = Limit
                 /\ Cardinality(S) <= Limit

Shown(S) ==
  listed' = [x \in Conv \cup Msg |-> IF x \in S THEN listed[x] + 1 ELSE listed[x]]

(* The rows behind the cursor.                                               *)
Rest == {c \in Conv : Matches(c, filter) /\ After(c)}

(* listConversations: the answer names the cursor of the next page, unless   *)
(* there is none.                                                            *)
ConversationPage ==
  /\ walk = "asking" /\ list = "conversations"
  /\ \E S \in SUBSET Rest :
       /\ Limited(S, Rest) /\ \A c \in S, d \in Rest \ S : Before(c, d)
       /\ Shown(S)
       /\ IF HasMore(Cardinality(S))
            THEN \E last \in S :
                   /\ \A c \in S : c = last \/ Before(c, last)
                   /\ at' = Cut(updated[last]) /\ id' = last
                   /\ lasts' = lasts \cup {<<last, updated[last]>>}
                   /\ UNCHANGED walk
            ELSE walk' = "ended" /\ UNCHANGED <<at, id, lasts>>
  /\ UNCHANGED <<now, conversations, stamp, list, filter, offset, begun, touched>>

-----------------------------------------------------------------------------
(* The list of a conversation's messages. *)

Stored == {m \in Msg : stamp[m] # 0}

OpenMessages ==
  /\ walk # "asking"
  /\ list' = "messages"
  /\ at' = 0 /\ id' = 0 /\ offset' = 0
  /\ walk' = "asking"
  /\ listed' = [x \in Conv \cup Msg |-> 0]
  /\ begun' = Stored /\ touched' = {} /\ lasts' = {}
  /\ UNCHANGED <<now, conversations, stamp, filter>>

(* ORDER BY the second, DESC *)
NoEarlier(m, n) == stamp[m] >= stamp[n]

(* Mutant of Skips: an offset that counts from one.                          *)
SkipsOneMore(S) == Cardinality(S) = offset + 1

(* Mutant of Skips: an offset short by one.                                  *)
SkipsOneLess(S) == Cardinality(S) + 1 = offset \/ (offset = 0 /\ S = {})

(* OFFSET: as many rows as were shown before.                                *)
Skips(S) == Cardinality(S) = offset

(* LIMIT and OFFSET, where rows of one second come in any order; an offset   *)
(* behind the last row leaves nothing.                                       *)
Window(S) ==
  \/ \E P \in SUBSET Stored :
       /\ Skips(P)
       /\ \A m \in P, n \in Stored \ P : NoEarlier(m, n)
       /\ Limited(S, Stored \ P)
       /\ \A m \in S, n \in (Stored \ P) \ S : NoEarlier(m, n)
  \/ Cardinality(Stored) < offset /\ S = {}

MessagePage ==
  /\ walk = "asking" /\ list = "messages"
  /\ \E S \in SUBSET Stored :
       /\ Window(S)
       /\ Shown(S)
       /\ offset' = offset + Cardinality(S)
       /\ IF HasMore(Cardinality(S))
            THEN \E last \in S :
                   /\ \A m \in S : NoEarlier(m, last)
                   /\ lasts' = lasts \cup {<<last, stamp[last]>>}
                   /\ UNCHANGED walk
            ELSE walk' = "ended" /\ UNCHANGED lasts
  /\ UNCHANGED <<now, conversations, stamp, list, filter, at, id, begun, touched>>

-----------------------------------------------------------------------------
Page == ConversationPage \/ MessagePage

Next ==
  \/ \E c \in Conv : Write(c)
  \/ \E m \in Msg : Store(m)
  \/ Tick
  \/ \E f \in Filters : OpenConversations(f)
  \/ OpenMessages
  \/ Page

Spec == Init /\ [][Next]_vars

-----------------------------------------------------------------------------
(* Properties. *)

(* A conversation nobody wrote since the walk began is shown at most once,   *)
(* although the cursor's time is not the time of the row it names.           *)
ListedOnce ==
  list = "conversations" =>
    \A c \in Conv \ touched : listed[c] <= 1

(* After the last page, a conversation that was in the list from the         *)
(* beginning and was not written since has been shown, unless it was written *)
(* in the same second as the last row of a page (not before that second) and *)
(* sorts after it: those rows are lost between the pages.                    *)
SkippedShareASecond ==
  (list = "conversations" /\ walk = "ended") =>
    \A c \in begun \ touched :
      \/ listed[c] > 0
      \/ \E l \in lasts : /\ Cut(l[2]) <= updated[c]
                          /\ updated[c] < l[2] \/ (updated[c] = l[2] /\ c < l[1])

(* After the last page of messages, however many were stored meanwhile and   *)
(* wherever they sort, a message that was there from the beginning has been  *)
(* shown, unless another one of its second was the last row of a page.       *)
MessagesReached ==
  (list = "messages" /\ walk = "ended") =>
    \A m \in begun :
      \/ listed[m] > 0
      \/ \E l \in lasts : l[1] # m /\ l[2] = stamp[m]

(* While no two messages are of one second, no more rows are shown again     *)
(* than messages were stored since the walk began.                           *)
RepeatsAreArrivals ==
  (list = "messages" /\ \A m, n \in Stored : m = n \/ stamp[m] # stamp[n]) =>
    offset <= Cardinality({m \in Stored : listed[m] > 0})
                + Cardinality(Stored \ begun)
=============================================================================
