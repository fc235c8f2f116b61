--------------------- MODULE InboundConversationProofs ---------------------
(***************************************************************************)
(* Proofs about module InboundConversation, for any number of webhook      *)
(* calls, browser requests, messages and faults: its types, that a message *)
(* reaches the browsers once, that an acknowledged message is stored, that *)
(* the unread counter hides no message, and that the row keeps the promise *)
(* of module ConversationContract.                                         *)
(***************************************************************************)
EXTENDS InboundConversation, FiniteSetTheorems, TLAPS

(* Which steps belong to a webhook call and which to a browser's request; a  *)
(* call counts its message at step "create", "count" or "update".            *)
Roles ==
  /\ \A c \in Call : /\ pc[c] # "idle" => msg[c] \in Msg
                     /\ pc[c] \notin {"reply", "rename"}
                     /\ pc[c] \in {"idle", "create", "count"} => c \notin counted
  /\ \A d \in Desk : pc[d] \in {"idle", "reply", "rename", "badge", "done"}

(* Whoever is past finding the conversation has found it: rows are never     *)
(* deleted.                                                                  *)
RowExists ==
  /\ \A x \in Actor : pc[x] \notin {"idle", "create", "done"} => open
  /\ ~open => unread = 0

(* The copy of the row that x is about to write back agrees with the columns *)
(* x does not mean to change.                                                *)
Fresh(x) ==
  /\ pc[x] = "count" => copy[x].unread = unread + 1 /\ copy[x].name = name
  /\ pc[x] = "update" => /\ copy[x].unread = IF x \in counted THEN unread ELSE unread + 1
                         /\ copy[x].name = name
  /\ pc[x] = "reply" => copy[x].unread = unread /\ copy[x].name = name
  /\ pc[x] = "rename" => copy[x].unread = unread /\ copy[x].preview = preview

(* Until two operations overlap, every copy is fresh: the reason why whole-  *)
(* row updates lose nothing when they run one at a time.                     *)
FreshCopies == ~raced => \A x \in Actor : Fresh(x)

(* A message is shown by the one call that stored it: the insert admits one  *)
(* call, and no other gets as far as showing.                                *)
Telling ==
  /\ ShownOnce
  /\ \A c \in Call : pc[c] \in {"show", "badge"} => msg[c] \in stored
  /\ \A c \in Call : pc[c] = "show" => shown[msg[c]] = 0
  /\ \A c, d \in Call : pc[c] = "show" /\ pc[d] = "show" /\ msg[c] = msg[d] => c = d

(* Without a failing query or a beaten insert, a message that was answered   *)
(* is stored, and no call waits to create a row that exists.                 *)
Keeping ==
  faults = 0 /\ ~beaten => /\ answered \subseteq stored
                          /\ \A c \in Call : pc[c] = "create" => ~open

(* The inductive invariant of the theorems below.                            *)
ConvInv == TypeOK /\ Roles /\ RowExists /\ FreshCopies /\ Telling /\ Keeping

(* What a write does to the two overlap flags.                               *)
LEMMA OvertakesTypes ==
  ASSUME TypeOK, NEW x, Overtakes(x) PROVE raced' \in BOOLEAN /\ crossed' \in BOOLEAN
BY DEF Overtakes

(* A write of a whole copy leaves the row well typed.                        *)
LEMMA UpdateTypes ==
  ASSUME TypeOK, NEW x \in Actor, Update(x)
  PROVE  /\ unread' \in Nat /\ preview' \in Text /\ name' \in Text /\ open' \in BOOLEAN
         /\ counted' \in SUBSET Call
BY DEF TypeOK, Update, Row

(* Every action keeps the types.                                             *)
LEMMA TypeOKStep == ConvInv /\ [Next]_vars => TypeOK'
<1> SUFFICES ASSUME ConvInv, [Next]_vars PROVE TypeOK' OBVIOUS
<1>0. TypeOK /\ Roles BY DEF ConvInv
<1>1. ASSUME NEW c \in Call, NEW m \in Msg, ContactFails(c, m) PROVE TypeOK'
  BY <1>1, <1>0, BoundAssumption
     DEF TypeOK, Row, EmptyRow, Text, Actor, ContactFails, row, browsers, overlaps,
         Fault, Answer, Finish, Goto
<1>2. ASSUME NEW c \in Call, NEW m \in Msg, FindConversation(c, m) PROVE TypeOK'
  BY <1>2, <1>0, BoundAssumption
     DEF TypeOK, Row, Text, FindConversation, row, browsers, overlaps, Fault, Goto,
         CounterStep
<1>3. ASSUME NEW c \in Call, CreateConversation(c) PROVE TypeOK'
  <2>1. open' \in BOOLEAN /\ beaten' \in BOOLEAN /\ raced' \in BOOLEAN /\ crossed' \in BOOLEAN
    BY <1>3, <1>0 DEF TypeOK, CreateConversation, row, Overtakes
  <2>2. faults' \in 0 .. MaxFaults
    BY <1>3, <1>0, BoundAssumption DEF TypeOK, CreateConversation, Fault
  <2>3. msg[c] \in Msg BY <1>3, <1>0 DEF Roles, CreateConversation
  <2>4. unread' \in Nat /\ preview' \in Text /\ name' \in Text /\ counted' \in SUBSET Call
    BY <1>3, <1>0, <2>3 DEF TypeOK, CreateConversation, row, Text
  <2>5. /\ pc' \in [Actor -> {"idle", "create", "count", "update", "dedup", "store",
                           "show", "reply", "rename", "badge", "done"}]
        /\ copy' \in [Actor -> Row] /\ answered' \in SUBSET Msg
    BY <1>3, <1>0, <2>3
       DEF TypeOK, CreateConversation, Answer, Finish, Goto, Row, EmptyRow, Text
  <2> QED BY <1>3, <1>0, <2>1, <2>2, <2>4, <2>5
             DEF TypeOK, CreateConversation, browsers
<1>4. ASSUME NEW c \in Call, IncrementUnread(c) PROVE TypeOK'
  <2>1. raced' \in BOOLEAN /\ crossed' \in BOOLEAN
    BY <1>4, <1>0, OvertakesTypes DEF TypeOK, IncrementUnread
  <2>2. unread' \in Nat /\ preview' \in Text /\ name' \in Text /\ open' \in BOOLEAN
        /\ counted' \in SUBSET Call
    BY <1>4, <1>0 DEF TypeOK, IncrementUnread
  <2>3. faults' \in 0 .. MaxFaults
    BY <1>4, <1>0, BoundAssumption DEF TypeOK, IncrementUnread, Fault
  <2> QED BY <1>4, <1>0, <2>1, <2>2, <2>3
             DEF TypeOK, IncrementUnread, Goto, browsers
<1>5. ASSUME NEW c \in Call, UpdateConversation(c) PROVE TypeOK'
  <2>1. raced' \in BOOLEAN /\ crossed' \in BOOLEAN
    BY <1>5, <1>0, OvertakesTypes DEF TypeOK, UpdateConversation, Update
  <2>2. unread' \in Nat /\ preview' \in Text /\ name' \in Text /\ open' \in BOOLEAN
        /\ counted' \in SUBSET Call
    BY <1>5, <1>0, UpdateTypes DEF TypeOK, Actor, UpdateConversation, row
  <2>3. faults' \in 0 .. MaxFaults
    BY <1>5, <1>0, BoundAssumption DEF TypeOK, UpdateConversation, Fault
  <2> QED BY <1>5, <1>0, <2>1, <2>2, <2>3
             DEF TypeOK, UpdateConversation, Goto, browsers
<1>6. ASSUME NEW c \in Call, CheckDuplicate(c) PROVE TypeOK'
  BY <1>6, <1>0, BoundAssumption
     DEF TypeOK, Roles, Row, EmptyRow, Text, Actor, CheckDuplicate, row, browsers,
         overlaps, IsDuplicate, Fault, Answer, Finish, Goto
<1>7. ASSUME NEW c \in Call, StoreMessage(c) PROVE TypeOK'
  <2>1. msg[c] \in Msg BY <1>7, <1>0 DEF Roles, StoreMessage
  <2>4. copy' \in [Actor -> Row]
    BY <1>7, <1>0 DEF TypeOK, StoreMessage, Answer, Finish, Row, EmptyRow, Text
  <2>2. /\ stored' \in SUBSET Msg /\ since' \in SUBSET stored' /\ answered' \in SUBSET Msg
        /\ pc' \in [Actor -> {"idle", "create", "count", "update", "dedup", "store",
                           "show", "reply", "rename", "badge", "done"}]
    BY <1>7, <1>0, <2>1 DEF TypeOK, StoreMessage, Answer, Finish, Goto
  <2>3. faults' \in 0 .. MaxFaults
    BY <1>7, <1>0, BoundAssumption DEF TypeOK, StoreMessage, Fault
  <2> QED BY <1>7, <1>0, <2>2, <2>3, <2>4
             DEF TypeOK, StoreMessage, row, browsers, overlaps
<1>8. ASSUME NEW c \in Call, ShowMessage(c) PROVE TypeOK'
  BY <1>8, <1>0 DEF TypeOK, Roles, Actor, ShowMessage, row, browsers, overlaps, Goto
<1>9. ASSUME NEW c \in Call, ShowConversation(c) PROVE TypeOK'
  BY <1>9, <1>0
     DEF TypeOK, Roles, Row, EmptyRow, Text, Actor, ShowConversation, row, browsers,
         overlaps, ShownRow, Answer, Finish, Goto
<1>10. ASSUME NEW d \in Desk, MarkAsRead(d) PROVE TypeOK'
  BY <1>10, <1>0
     DEF TypeOK, Row, EmptyRow, Text, Actor, MarkAsRead, row, browsers, overlaps,
         At, Finish, Goto, Overtakes, Holders, Busy
<1>11. ASSUME NEW d \in Desk, ReadToRename(d) PROVE TypeOK'
  BY <1>11, <1>0
     DEF TypeOK, Row, Text, Actor, ReadToRename, row, browsers, overlaps, Goto
<1>12. ASSUME NEW d \in Desk, Rename(d) PROVE TypeOK'
  <2>1. raced' \in BOOLEAN /\ crossed' \in BOOLEAN
    BY <1>12, <1>0, OvertakesTypes DEF TypeOK, Rename, Update
  <2>2. unread' \in Nat /\ preview' \in Text /\ name' \in Text /\ open' \in BOOLEAN
        /\ counted' \in SUBSET Call
    BY <1>12, <1>0, UpdateTypes DEF TypeOK, Actor, Rename, row
  <2>3. faults' \in 0 .. MaxFaults
    BY <1>12, <1>0, BoundAssumption DEF TypeOK, Rename, Fault
  <2> QED BY <1>12, <1>0, <2>1, <2>2, <2>3
             DEF TypeOK, Rename, Goto, browsers, Finish, EmptyRow, Row, Text
<1>13. ASSUME NEW d \in Desk, ReadToReply(d) PROVE TypeOK'
  BY <1>13, <1>0
     DEF TypeOK, Row, Text, Actor, ReadToReply, row, browsers, overlaps,
         CountAfterReply, Goto
<1>14. ASSUME NEW d \in Desk, Reply(d) PROVE TypeOK'
  <2>1. raced' \in BOOLEAN /\ crossed' \in BOOLEAN
    BY <1>14, <1>0, OvertakesTypes DEF TypeOK, Reply, Update
  <2>2. unread' \in Nat /\ preview' \in Text /\ name' \in Text /\ open' \in BOOLEAN
        /\ counted' \in SUBSET Call
    BY <1>14, <1>0, UpdateTypes DEF TypeOK, Actor, Reply, row
  <2>3. faults' \in 0 .. MaxFaults
    BY <1>14, <1>0, BoundAssumption DEF TypeOK, Reply, Fault
  <2> QED BY <1>14, <1>0, <2>1, <2>2, <2>3 DEF TypeOK, Reply, Goto, browsers
<1>15. ASSUME NEW d \in Desk, ShowReply(d) PROVE TypeOK'
  BY <1>15, <1>0
     DEF TypeOK, Row, EmptyRow, Text, Actor, ShowReply, row, browsers, overlaps,
         ShownRow, Finish, Goto
<1>16. ASSUME NEW x \in Actor, Abandon(x) PROVE TypeOK'
  BY <1>16, <1>0, BoundAssumption
     DEF TypeOK, Row, EmptyRow, Text, Abandon, row, browsers, overlaps, Finish, Goto
<1>17. CASE UNCHANGED vars BY <1>17, <1>0 DEF TypeOK, vars
<1> QED BY <1>1, <1>2, <1>3, <1>4, <1>5, <1>6, <1>7, <1>8, <1>9, <1>10, <1>11, <1>12,
           <1>13, <1>14, <1>15, <1>16, <1>17
           DEF Next, CallStep, DeskStep

(* Every action keeps the roles.                                             *)
LEMMA RolesStep == ConvInv /\ [Next]_vars => Roles'
<1> SUFFICES ASSUME ConvInv, [Next]_vars PROVE Roles' OBVIOUS
<1>0. TypeOK /\ Roles BY DEF ConvInv
<1>1. ASSUME NEW c \in Call, NEW m \in Msg, ContactFails(c, m) PROVE Roles'
  BY <1>1, <1>0 DEF TypeOK, Roles, ContactFails, row, Answer, Finish, Goto
<1>2. ASSUME NEW c \in Call, NEW m \in Msg, FindConversation(c, m) PROVE Roles'
  BY <1>2, <1>0, ActorAssumption
     DEF TypeOK, Roles, Actor, FindConversation, row, Goto
<1>3. ASSUME NEW c \in Call, CreateConversation(c) PROVE Roles'
  BY <1>3, <1>0
     DEF TypeOK, Roles, Actor, CreateConversation, row, Answer, Finish, Goto
<1>4. ASSUME NEW c \in Call, IncrementUnread(c) PROVE Roles'
  BY <1>4, <1>0 DEF TypeOK, Roles, Actor, IncrementUnread, row, Goto
<1>5. ASSUME NEW c \in Call, UpdateConversation(c) PROVE Roles'
  BY <1>5, <1>0 DEF TypeOK, Roles, Actor, UpdateConversation, row, Goto, Update
<1>6. ASSUME NEW c \in Call, CheckDuplicate(c) PROVE Roles'
  BY <1>6, <1>0 DEF TypeOK, Roles, Actor, CheckDuplicate, row, Answer, Finish, Goto
<1>7. ASSUME NEW c \in Call, StoreMessage(c) PROVE Roles'
  BY <1>7, <1>0 DEF TypeOK, Roles, Actor, StoreMessage, row, Answer, Finish, Goto
<1>8. ASSUME NEW c \in Call, ShowMessage(c) PROVE Roles'
  BY <1>8, <1>0 DEF Roles, ShowMessage, row, Goto
<1>9. ASSUME NEW c \in Call, ShowConversation(c) PROVE Roles'
  BY <1>9, <1>0 DEF Roles, ShowConversation, row, Answer, Finish, Goto
<1>10. ASSUME NEW d \in Desk, MarkAsRead(d) PROVE Roles'
  BY <1>10, <1>0, ActorAssumption DEF Roles, MarkAsRead, row, Finish, Goto
<1>11. ASSUME NEW d \in Desk, ReadToRename(d) PROVE Roles'
  BY <1>11, <1>0, ActorAssumption DEF Roles, ReadToRename, row, Goto
<1>12. ASSUME NEW d \in Desk, Rename(d) PROVE Roles'
  BY <1>12, <1>0, ActorAssumption DEF Roles, Rename, row, Finish, Goto, Update
<1>13. ASSUME NEW d \in Desk, ReadToReply(d) PROVE Roles'
  BY <1>13, <1>0, ActorAssumption DEF Roles, ReadToReply, row, Goto
<1>14. ASSUME NEW d \in Desk, Reply(d) PROVE Roles'
  BY <1>14, <1>0, ActorAssumption DEF Roles, Reply, row, Goto, Update
<1>15. ASSUME NEW d \in Desk, ShowReply(d) PROVE Roles'
  BY <1>15, <1>0 DEF Roles, ShowReply, row, Finish, Goto
<1>16. ASSUME NEW x \in Actor, Abandon(x) PROVE Roles'
  BY <1>16, <1>0 DEF Roles, Abandon, row, Finish, Goto
<1>17. CASE UNCHANGED vars BY <1>17, <1>0 DEF Roles, vars
<1> QED BY <1>1, <1>2, <1>3, <1>4, <1>5, <1>6, <1>7, <1>8, <1>9, <1>10, <1>11, <1>12,
           <1>13, <1>14, <1>15, <1>16, <1>17
           DEF Next, CallStep, DeskStep

(* Every action keeps the row in place.                                      *)
LEMMA RowExistsStep == ConvInv /\ [Next]_vars => RowExists'
<1> SUFFICES ASSUME ConvInv, [Next]_vars PROVE RowExists' OBVIOUS
<1>0. TypeOK /\ Roles /\ RowExists BY DEF ConvInv
<1>1. ASSUME NEW c \in Call, NEW m \in Msg, ContactFails(c, m) PROVE RowExists'
  BY <1>1, <1>0 DEF RowExists, ContactFails, row, Answer, Finish, Goto
<1>2. ASSUME NEW c \in Call, NEW m \in Msg, FindConversation(c, m) PROVE RowExists'
  BY <1>2, <1>0 DEF TypeOK, RowExists, FindConversation, row, Goto
<1>3. ASSUME NEW c \in Call, CreateConversation(c) PROVE RowExists'
  BY <1>3, <1>0 DEF TypeOK, RowExists, CreateConversation, row, Answer, Finish, Goto
<1>4. ASSUME NEW c \in Call, IncrementUnread(c) PROVE RowExists'
  BY <1>4, <1>0 DEF RowExists, Actor, IncrementUnread, row, Goto
<1>5. ASSUME NEW c \in Call, UpdateConversation(c) PROVE RowExists'
  BY <1>5, <1>0 DEF RowExists, Actor, UpdateConversation, row, Goto, Update
<1>6. ASSUME NEW c \in Call, CheckDuplicate(c) PROVE RowExists'
  BY <1>6, <1>0 DEF RowExists, Actor, CheckDuplicate, row, Answer, Finish, Goto
<1>7. ASSUME NEW c \in Call, StoreMessage(c) PROVE RowExists'
  BY <1>7, <1>0 DEF RowExists, Actor, StoreMessage, row, Answer, Finish, Goto
<1>8. ASSUME NEW c \in Call, ShowMessage(c) PROVE RowExists'
  BY <1>8, <1>0 DEF RowExists, ShowMessage, row, Goto
<1>9. ASSUME NEW c \in Call, ShowConversation(c) PROVE RowExists'
  BY <1>9, <1>0 DEF RowExists, ShowConversation, row, Answer, Finish, Goto
<1>10. ASSUME NEW d \in Desk, MarkAsRead(d) PROVE RowExists'
  BY <1>10 DEF RowExists, MarkAsRead, row, Finish, Goto
<1>11. ASSUME NEW d \in Desk, ReadToRename(d) PROVE RowExists'
  BY <1>11 DEF RowExists, ReadToRename, row, Goto
<1>12. ASSUME NEW d \in Desk, Rename(d) PROVE RowExists'
  BY <1>12, <1>0 DEF RowExists, Actor, Rename, row, Finish, Goto, Update
<1>13. ASSUME NEW d \in Desk, ReadToReply(d) PROVE RowExists'
  BY <1>13 DEF RowExists, ReadToReply, row, Goto
<1>14. ASSUME NEW d \in Desk, Reply(d) PROVE RowExists'
  BY <1>14, <1>0 DEF RowExists, Actor, Reply, row, Goto, Update
<1>15. ASSUME NEW d \in Desk, ShowReply(d) PROVE RowExists'
  BY <1>15, <1>0 DEF RowExists, ShowReply, row, Finish, Goto
<1>16. ASSUME NEW x \in Actor, Abandon(x) PROVE RowExists'
  BY <1>16, <1>0 DEF RowExists, Abandon, row, Finish, Goto
<1>17. CASE UNCHANGED vars BY <1>17, <1>0 DEF RowExists, vars
<1> QED BY <1>1, <1>2, <1>3, <1>4, <1>5, <1>6, <1>7, <1>8, <1>9, <1>10, <1>11, <1>12,
           <1>13, <1>14, <1>15, <1>16, <1>17
           DEF Next, CallStep, DeskStep

(* A write that makes another's copy stale raises the flag; any other action *)
(* leaves the copies fresh.                                                  *)
LEMMA FreshCopiesStep == ConvInv /\ [Next]_vars => FreshCopies'
<1> SUFFICES ASSUME ConvInv, [Next]_vars PROVE FreshCopies' OBVIOUS
<1>0. TypeOK /\ Roles /\ RowExists /\ FreshCopies BY DEF ConvInv
<1>1. ASSUME NEW c \in Call, NEW m \in Msg, ContactFails(c, m) PROVE FreshCopies'
  BY <1>1, <1>0
     DEF FreshCopies, Fresh, ContactFails, row, overlaps, Answer, Finish, Goto
<1>2. ASSUME NEW c \in Call, NEW m \in Msg, FindConversation(c, m) PROVE FreshCopies'
  BY <1>2, <1>0
     DEF TypeOK, FreshCopies, Fresh, FindConversation, row, overlaps, Goto,
         CounterStep
<1>3. ASSUME NEW c \in Call, CreateConversation(c) PROVE FreshCopies'
  BY <1>3, <1>0
     DEF TypeOK, RowExists, FreshCopies, Fresh, CreateConversation, row, overlaps,
         At, Answer, Finish, Goto, Overtakes, Holders
<1>4. ASSUME NEW c \in Call, IncrementUnread(c) PROVE FreshCopies'
  <2>1. pc[c] = "count" /\ pc' = [pc EXCEPT ![c] = "update"] /\ UNCHANGED <<copy, name, preview>>
    BY <1>4 DEF IncrementUnread, Goto
  <2>2. CASE UNCHANGED <<unread, counted, raced, crossed>>
    BY <1>0, <2>1, <2>2 DEF TypeOK, Roles, FreshCopies, Fresh
  <2>3. CASE unread' = unread + 1 /\ counted' = counted \cup {c} /\ Overtakes(c)
    <3>1. SUFFICES ASSUME ~raced', NEW x \in Actor PROVE Fresh(x)' BY DEF FreshCopies
    <3>2. Holders \ {c} = {} /\ ~raced BY <2>3, <3>1 DEF Overtakes
    <3>3. x # c => pc'[x] \notin {"count", "update", "reply", "rename"}
      BY <1>0, <2>1, <3>2 DEF Holders, At
    <3>4. c \in Actor /\ pc'[c] = "update" BY <1>0, <2>1 DEF TypeOK, Actor
    <3>5. copy[c].unread = unread + 1 /\ copy[c].name = name
      BY <1>0, <2>1, <3>2, <3>4 DEF FreshCopies, Fresh
    <3>6. Fresh(c)' BY <2>1, <2>3, <3>4, <3>5 DEF Fresh
    <3> QED BY <3>3, <3>6 DEF Fresh
  <2> QED BY <1>4, <2>2, <2>3 DEF IncrementUnread
<1>5. ASSUME NEW c \in Call, UpdateConversation(c) PROVE FreshCopies'
  BY <1>5, <1>0
     DEF TypeOK, FreshCopies, Fresh, UpdateConversation, row, overlaps, At, Goto,
         Overtakes, Holders, Update
<1>6. ASSUME NEW c \in Call, CheckDuplicate(c) PROVE FreshCopies'
  BY <1>6, <1>0
     DEF TypeOK, FreshCopies, Fresh, CheckDuplicate, row, overlaps, Answer, Finish,
         Goto
<1>7. ASSUME NEW c \in Call, StoreMessage(c) PROVE FreshCopies'
  BY <1>7, <1>0
     DEF TypeOK, FreshCopies, Fresh, StoreMessage, row, overlaps, Answer, Finish,
         Goto
<1>8. ASSUME NEW c \in Call, ShowMessage(c) PROVE FreshCopies'
  BY <1>8, <1>0 DEF FreshCopies, Fresh, ShowMessage, row, overlaps, Goto
<1>9. ASSUME NEW c \in Call, ShowConversation(c) PROVE FreshCopies'
  BY <1>9, <1>0
     DEF FreshCopies, Fresh, ShowConversation, row, overlaps, Answer, Finish, Goto
<1>10. ASSUME NEW d \in Desk, MarkAsRead(d) PROVE FreshCopies'
  <2>1. SUFFICES ASSUME ~raced' PROVE \A x \in Actor : Fresh(x)' BY DEF FreshCopies
  <2>2. Holders \ {d} = {} /\ ~raced BY <1>10, <2>1 DEF MarkAsRead, Overtakes
  <2>3. \A x \in Actor : pc'[x] \notin {"count", "update", "reply", "rename"}
    BY <1>10, <2>2 DEF MarkAsRead, Finish, Goto, Holders, At
  <2> QED BY <2>3 DEF Fresh
<1>11. ASSUME NEW d \in Desk, ReadToRename(d) PROVE FreshCopies'
  BY <1>11, <1>0 DEF TypeOK, FreshCopies, Fresh, ReadToRename, row, overlaps, Goto
<1>12. ASSUME NEW d \in Desk, Rename(d) PROVE FreshCopies'
  BY <1>12, <1>0
     DEF TypeOK, RowExists, FreshCopies, Fresh, Rename, row, overlaps, At, Finish,
         Goto, Overtakes, Holders, Update
<1>13. ASSUME NEW d \in Desk, ReadToReply(d) PROVE FreshCopies'
  BY <1>13, <1>0
     DEF TypeOK, FreshCopies, Fresh, ReadToReply, row, overlaps, CountAfterReply,
         Goto
<1>14. ASSUME NEW d \in Desk, Reply(d) PROVE FreshCopies'
  BY <1>14, <1>0
     DEF TypeOK, RowExists, FreshCopies, Fresh, Reply, row, overlaps, At, Goto,
         Overtakes, Holders, Update
<1>15. ASSUME NEW d \in Desk, ShowReply(d) PROVE FreshCopies'
  BY <1>15, <1>0 DEF FreshCopies, Fresh, ShowReply, row, overlaps, Finish, Goto
<1>16. ASSUME NEW x \in Actor, Abandon(x) PROVE FreshCopies'
  BY <1>16, <1>0
     DEF TypeOK, FreshCopies, Fresh, Abandon, row, overlaps, Finish, Goto
<1>17. CASE UNCHANGED vars BY <1>17, <1>0 DEF FreshCopies, Fresh, vars
<1> QED BY <1>1, <1>2, <1>3, <1>4, <1>5, <1>6, <1>7, <1>8, <1>9, <1>10, <1>11, <1>12,
           <1>13, <1>14, <1>15, <1>16, <1>17
           DEF Next, CallStep, DeskStep

(* A second call with the same message passes neither the duplicate check    *)
(* nor the insert once the first has stored it.                              *)
LEMMA TellingStep == ConvInv /\ [Next]_vars => Telling'
<1> SUFFICES ASSUME ConvInv, [Next]_vars PROVE Telling' OBVIOUS
<1>0. TypeOK /\ Roles /\ Telling BY DEF ConvInv
<1>1. ASSUME NEW c \in Call, NEW m \in Msg, ContactFails(c, m) PROVE Telling'
  BY <1>1, <1>0 DEF Telling, ShownOnce, ContactFails, browsers, Answer, Finish, Goto
<1>2. ASSUME NEW c \in Call, NEW m \in Msg, FindConversation(c, m) PROVE Telling'
  BY <1>2, <1>0
     DEF TypeOK, Telling, ShownOnce, Actor, FindConversation, browsers, Goto
<1>3. ASSUME NEW c \in Call, CreateConversation(c) PROVE Telling'
  BY <1>3, <1>0
     DEF TypeOK, Telling, ShownOnce, Actor, CreateConversation, browsers, Answer,
         Finish, Goto
<1>4. ASSUME NEW c \in Call, IncrementUnread(c) PROVE Telling'
  BY <1>4, <1>0 DEF Telling, ShownOnce, IncrementUnread, browsers, Goto
<1>5. ASSUME NEW c \in Call, UpdateConversation(c) PROVE Telling'
  BY <1>5, <1>0 DEF Telling, ShownOnce, UpdateConversation, browsers, Goto
<1>6. ASSUME NEW c \in Call, CheckDuplicate(c) PROVE Telling'
  BY <1>6, <1>0
     DEF TypeOK, Telling, ShownOnce, Actor, CheckDuplicate, browsers, Answer,
         Finish, Goto
<1>7. ASSUME NEW c \in Call, StoreMessage(c) PROVE Telling'
  BY <1>7, <1>0
     DEF TypeOK, Roles, Telling, ShownOnce, Actor, StoreMessage, browsers,
         Insertable, Answer, Finish, Goto
<1>8. ASSUME NEW c \in Call, ShowMessage(c) PROVE Telling'
  BY <1>8, <1>0 DEF TypeOK, Telling, ShownOnce, Actor, ShowMessage, browsers, Goto
<1>9. ASSUME NEW c \in Call, ShowConversation(c) PROVE Telling'
  BY <1>9, <1>0
     DEF Telling, ShownOnce, ShowConversation, browsers, Answer, Finish, Goto
<1>10. ASSUME NEW d \in Desk, MarkAsRead(d) PROVE Telling'
  BY <1>10, <1>0 DEF Telling, ShownOnce, MarkAsRead, browsers, Finish, Goto
<1>11. ASSUME NEW d \in Desk, ReadToRename(d) PROVE Telling'
  BY <1>11, <1>0 DEF Telling, ShownOnce, ReadToRename, browsers, Goto
<1>12. ASSUME NEW d \in Desk, Rename(d) PROVE Telling'
  BY <1>12, <1>0 DEF Telling, ShownOnce, Rename, browsers, Finish, Goto
<1>13. ASSUME NEW d \in Desk, ReadToReply(d) PROVE Telling'
  BY <1>13, <1>0 DEF Telling, ShownOnce, ReadToReply, browsers, Goto
<1>14. ASSUME NEW d \in Desk, Reply(d) PROVE Telling'
  BY <1>14, <1>0 DEF Roles, Telling, ShownOnce, Reply, browsers, Goto
<1>15. ASSUME NEW d \in Desk, ShowReply(d) PROVE Telling'
  BY <1>15, <1>0 DEF Telling, ShownOnce, ShowReply, browsers, Finish, Goto
<1>16. ASSUME NEW x \in Actor, Abandon(x) PROVE Telling'
  BY <1>16, <1>0 DEF Telling, ShownOnce, Abandon, browsers, Finish, Goto
<1>17. CASE UNCHANGED vars BY <1>17, <1>0 DEF Telling, ShownOnce, vars
<1> QED BY <1>1, <1>2, <1>3, <1>4, <1>5, <1>6, <1>7, <1>8, <1>9, <1>10, <1>11, <1>12,
           <1>13, <1>14, <1>15, <1>16, <1>17
           DEF Next, CallStep, DeskStep

(* A message is answered only when it is stored or a query failed.           *)
LEMMA KeepingStep == ConvInv /\ [Next]_vars => Keeping'
<1> SUFFICES ASSUME ConvInv, [Next]_vars PROVE Keeping' OBVIOUS
<1>0. TypeOK /\ Roles /\ Telling /\ Keeping BY DEF ConvInv
<1>1. ASSUME NEW c \in Call, NEW m \in Msg, ContactFails(c, m) PROVE Keeping'
  BY <1>1, <1>0
     DEF TypeOK, Keeping, ContactFails, row, overlaps, Fault, Answer, Finish, Goto
<1>2. ASSUME NEW c \in Call, NEW m \in Msg, FindConversation(c, m) PROVE Keeping'
  BY <1>2, <1>0
     DEF TypeOK, Keeping, Actor, FindConversation, row, overlaps, Fault, Goto
<1>3. ASSUME NEW c \in Call, CreateConversation(c) PROVE Keeping'
  <2>1. SUFFICES ASSUME faults' = 0, ~beaten'
                 PROVE  /\ answered' \subseteq stored'
                        /\ \A d \in Call : pc'[d] = "create" => ~open'
    BY DEF Keeping
  <2>2. faults = 0 /\ UNCHANGED faults
    BY <1>3, <1>0, <2>1 DEF TypeOK, CreateConversation, Fault
  <2>3. ~beaten /\ At({"create"}) = {c} BY <1>3, <2>1 DEF CreateConversation
  <2>4. ~open BY <1>3, <1>0, <2>2, <2>3 DEF Keeping, CreateConversation
  <2>5. pc' = [pc EXCEPT ![c] = "dedup"] /\ UNCHANGED <<answered, stored>>
    BY <1>3, <2>2, <2>4 DEF CreateConversation, Fault, Goto
  <2>6. \A d \in Call : pc'[d] # "create"
    BY <1>0, <2>3, <2>5 DEF At, Actor, TypeOK
  <2> QED BY <1>0, <2>2, <2>3, <2>5, <2>6 DEF Keeping
<1>4. ASSUME NEW c \in Call, IncrementUnread(c) PROVE Keeping'
  BY <1>4, <1>0 DEF TypeOK, Keeping, IncrementUnread, row, overlaps, Fault, Goto
<1>5. ASSUME NEW c \in Call, UpdateConversation(c) PROVE Keeping'
  BY <1>5, <1>0
     DEF TypeOK, Keeping, UpdateConversation, row, overlaps, Fault, Goto, Update
<1>6. ASSUME NEW c \in Call, CheckDuplicate(c) PROVE Keeping'
  BY <1>6, <1>0
     DEF TypeOK, Keeping, Actor, CheckDuplicate, row, overlaps, IsDuplicate, Fault,
         Answer, Finish, Goto
<1>7. ASSUME NEW c \in Call, StoreMessage(c) PROVE Keeping'
  BY <1>7, <1>0
     DEF TypeOK, Keeping, Actor, StoreMessage, row, overlaps, Insertable, Fault,
         Answer, Finish, Goto
<1>8. ASSUME NEW c \in Call, ShowMessage(c) PROVE Keeping'
  BY <1>8, <1>0 DEF Keeping, ShowMessage, row, overlaps, Goto
<1>9. ASSUME NEW c \in Call, ShowConversation(c) PROVE Keeping'
  BY <1>9, <1>0
     DEF Telling, Keeping, ShowConversation, row, overlaps, Answer, Finish, Goto
<1>10. ASSUME NEW d \in Desk, MarkAsRead(d) PROVE Keeping'
  BY <1>10, <1>0 DEF Keeping, MarkAsRead, row, overlaps, Finish, Goto
<1>11. ASSUME NEW d \in Desk, ReadToRename(d) PROVE Keeping'
  BY <1>11, <1>0 DEF Keeping, ReadToRename, row, overlaps, Goto
<1>12. ASSUME NEW d \in Desk, Rename(d) PROVE Keeping'
  BY <1>12, <1>0
     DEF TypeOK, Keeping, Rename, row, overlaps, Fault, Finish, Goto, Update
<1>13. ASSUME NEW d \in Desk, ReadToReply(d) PROVE Keeping'
  BY <1>13, <1>0 DEF Keeping, ReadToReply, row, overlaps, Goto
<1>14. ASSUME NEW d \in Desk, Reply(d) PROVE Keeping'
  BY <1>14, <1>0 DEF TypeOK, Keeping, Reply, row, overlaps, Fault, Goto, Update
<1>15. ASSUME NEW d \in Desk, ShowReply(d) PROVE Keeping'
  BY <1>15, <1>0 DEF Keeping, ShowReply, row, overlaps, Finish, Goto
<1>16. ASSUME NEW x \in Actor, Abandon(x) PROVE Keeping'
  BY <1>16, <1>0 DEF Keeping, Abandon, row, overlaps, Finish, Goto
<1>17. CASE UNCHANGED vars BY <1>17, <1>0 DEF Keeping, vars
<1> QED BY <1>1, <1>2, <1>3, <1>4, <1>5, <1>6, <1>7, <1>8, <1>9, <1>10, <1>11, <1>12,
           <1>13, <1>14, <1>15, <1>16, <1>17
           DEF Next, CallStep, DeskStep

LEMMA InvInit == Init => ConvInv
<1> SUFFICES ASSUME Init PROVE ConvInv OBVIOUS
<1>0. EmptyRow \in Row BY DEF EmptyRow, Row, Text
<1>1. TypeOK
  <2>1. open \in BOOLEAN /\ beaten \in BOOLEAN /\ raced \in BOOLEAN /\ crossed \in BOOLEAN
        /\ early \in BOOLEAN
    BY DEF Init
  <2>2. faults \in 0 .. MaxFaults /\ aborts \in 0 .. MaxAborts
    BY BoundAssumption DEF Init
  <2> QED BY <1>0, <2>1, <2>2 DEF Init, TypeOK, Text
<1>2. Roles /\ RowExists /\ FreshCopies
  BY DEF Init, Roles, RowExists, FreshCopies, Fresh, Actor
<1>3. Telling BY DEF Init, Telling, ShownOnce, Actor
<1>4. Keeping BY DEF Init, Keeping
<1> QED BY <1>1, <1>2, <1>3, <1>4 DEF ConvInv

(* The invariant holds in every reachable state.                             *)
LEMMA InvHolds == Spec => []ConvInv
<1>1. ConvInv /\ [Next]_vars => ConvInv'
  BY TypeOKStep, RolesStep, RowExistsStep, FreshCopiesStep, TellingStep, KeepingStep
     DEF ConvInv
<1> QED BY InvInit, <1>1, PTL DEF Spec

(* The variables keep their types. *)
THEOREM TypeCorrect == Spec => []TypeOK
<1>1. ConvInv => TypeOK BY DEF ConvInv
<1> QED BY InvHolds, <1>1, PTL

(* However often a message is delivered, browsers are told of it at most     *)
(* once.                                                                     *)
THEOREM ToldAtMostOnce == Spec => []ShownOnce
<1>1. ConvInv => ShownOnce BY DEF ConvInv, Telling
<1> QED BY InvHolds, <1>1, PTL

(* Without database errors and a race for the first conversation, whatever   *)
(* was answered is stored.                                                   *)
THEOREM NoneLost == Spec => []AnsweredIsStored
<1>1. ConvInv => AnsweredIsStored BY DEF ConvInv, Keeping, AnsweredIsStored
<1> QED BY InvHolds, <1>1, PTL

-----------------------------------------------------------------------------
(* The counter *)

(* Calls that have counted their message and not yet stored it.              *)
Underway == {c \in Call : pc[c] \in {"update", "dedup", "store"}}

(* Every message stored since the last mark-as-read, and every counted one,  *)
(* has its own unit of the counter.                                          *)
Covering ==
  /\ IsFiniteSet(since) /\ IsFiniteSet(Underway)
  /\ ~open => since = {} /\ Underway = {}
  /\ ~raced /\ ~early /\ faults = 0 => Cardinality(since) + Cardinality(Underway) <= unread

(* Adding an element adds at most one. *)
LEMMA AddOne ==
  ASSUME NEW S, IsFiniteSet(S), NEW e
  PROVE  /\ IsFiniteSet(S \cup {e})
         /\ Cardinality(S \cup {e}) \in Nat
         /\ Cardinality(S \cup {e}) <= Cardinality(S) + 1
         /\ Cardinality(S) \in Nat
<1>1. Cardinality(S) \in Nat BY FS_CardinalityType
<1>2. /\ IsFiniteSet(S \cup {e})
      /\ Cardinality(S \cup {e}) \in {Cardinality(S), Cardinality(S) + 1}
  BY FS_AddElement
<1> QED BY <1>1, <1>2

(* Nothing is lost from the cover when calls only leave Underway and the      *)
(* counter stays.                                                            *)
LEMMA CoverShrinks ==
  ASSUME TypeOK, Covering, Underway' \subseteq Underway,
         UNCHANGED <<open, since, early>>, raced' \/ ~raced, faults' >= faults, faults' \in Nat,
         ~raced' /\ ~early => unread' \in Nat /\ unread' >= unread
  PROVE  Covering'
<1>1. IsFiniteSet(Underway') /\ Cardinality(Underway') <= Cardinality(Underway)
  BY FS_Subset DEF Covering
<1>2. /\ Cardinality(Underway') \in Nat /\ Cardinality(Underway) \in Nat
      /\ Cardinality(since) \in Nat
  BY <1>1, FS_CardinalityType DEF Covering
<1>3. ~open' => since' = {} /\ Underway' = {} BY DEF Covering
<1>4. ASSUME ~raced', ~early', faults' = 0
      PROVE  Cardinality(since') + Cardinality(Underway') <= unread'
  BY <1>1, <1>2, <1>4 DEF Covering, TypeOK
<1> QED BY <1>1, <1>3, <1>4 DEF Covering

(* Nothing is counted or stored at the start.                                *)
LEMMA CoveringInit == Init => Covering
<1> SUFFICES ASSUME Init PROVE Covering OBVIOUS
<1>1. since = {} /\ Underway = {} /\ unread = 0 BY DEF Init, Underway, Actor
<1> QED BY <1>1, FS_EmptySet DEF Covering

(* The steps that only move pc, or write back the counter unchanged.         *)
LEMMA CoveringQuiet ==
  ASSUME ConvInv, Covering,
         \/ \E c \in Call, m \in Msg : ContactFails(c, m) \/ FindConversation(c, m)
         \/ \E c \in Call : \/ UpdateConversation(c) \/ CheckDuplicate(c)
                            \/ ShowMessage(c) \/ ShowConversation(c)
         \/ \E d \in Desk : \/ ReadToRename(d) \/ Rename(d) \/ ReadToReply(d)
                            \/ Reply(d) \/ ShowReply(d)
         \/ \E x \in Actor : Abandon(x)
         \/ UNCHANGED vars
  PROVE  Covering'
<1>0. TypeOK /\ FreshCopies BY DEF ConvInv
<1> USE DEF Underway
<1>1. ASSUME NEW c \in Call, NEW m \in Msg, ContactFails(c, m) \/ FindConversation(c, m)
      PROVE Covering'
  <2>1. Underway' \subseteq Underway
    BY <1>1, <1>0
       DEF TypeOK, Actor, ContactFails, FindConversation, Answer, Finish, Goto
  <2>2. faults' >= faults /\ faults' \in Nat
    BY <1>1, <1>0 DEF TypeOK, ContactFails, FindConversation, Fault
  <2> QED BY <1>1, <1>0, <2>1, <2>2, CoverShrinks
             DEF TypeOK, ContactFails, FindConversation, row, overlaps
<1>2. ASSUME NEW c \in Call, UpdateConversation(c) PROVE Covering'
  <2>1. Underway' \subseteq Underway
    BY <1>2 DEF UpdateConversation, Goto
  <2>2. faults' >= faults /\ faults' \in Nat
    BY <1>2, <1>0 DEF TypeOK, UpdateConversation, Fault
  <2>3. ASSUME ~raced' PROVE unread' \in Nat /\ unread' >= unread
    BY <1>2, <1>0, <2>3
       DEF TypeOK, Actor, FreshCopies, Fresh, UpdateConversation, Update, Overtakes,
           row
  <2>4. raced' \/ ~raced
    BY <1>2 DEF UpdateConversation, Update, Overtakes
  <2> QED BY <1>2, <1>0, <2>1, <2>2, <2>3, <2>4, CoverShrinks
             DEF UpdateConversation, Update, row
<1>3. ASSUME NEW c \in Call, CheckDuplicate(c) \/ ShowMessage(c) \/ ShowConversation(c)
      PROVE Covering'
  <2>1. Underway' \subseteq Underway
    BY <1>3, <1>0
       DEF TypeOK, Actor, CheckDuplicate, ShowMessage, ShowConversation, Answer,
           Finish, Goto
  <2>2. faults' >= faults /\ faults' \in Nat
    BY <1>3, <1>0 DEF TypeOK, CheckDuplicate, ShowMessage, ShowConversation, Fault
  <2> QED BY <1>3, <1>0, <2>1, <2>2, CoverShrinks
             DEF TypeOK, CheckDuplicate, ShowMessage, ShowConversation, row,
                 overlaps
<1>4. ASSUME NEW d \in Desk, Rename(d) \/ Reply(d) PROVE Covering'
  <2>1. Underway' \subseteq Underway
    BY <1>4, <1>0 DEF TypeOK, Actor, Rename, Reply, Finish, Goto
  <2>2. faults' >= faults /\ faults' \in Nat
    BY <1>4, <1>0 DEF TypeOK, Rename, Reply, Fault
  <2>3. ASSUME ~raced' PROVE unread' \in Nat /\ unread' >= unread
    BY <1>4, <1>0, <2>3
       DEF TypeOK, Actor, FreshCopies, Fresh, Rename, Reply, Update, Overtakes, row
  <2>4. raced' \/ ~raced BY <1>4 DEF Rename, Reply, Update, Overtakes
  <2> QED BY <1>4, <1>0, <2>1, <2>2, <2>3, <2>4, CoverShrinks
             DEF Rename, Reply, Update, row
<1>5. ASSUME NEW d \in Desk, ReadToRename(d) \/ ReadToReply(d) \/ ShowReply(d)
      PROVE Covering'
  <2>1. Underway' \subseteq Underway
    BY <1>5, <1>0
       DEF TypeOK, Actor, ReadToRename, ReadToReply, ShowReply, Finish, Goto
  <2>2. faults' >= faults /\ faults' \in Nat
    BY <1>5, <1>0 DEF TypeOK, ReadToRename, ReadToReply, ShowReply
  <2> QED BY <1>5, <1>0, <2>1, <2>2, CoverShrinks
             DEF TypeOK, ReadToRename, ReadToReply, ShowReply, row, overlaps
<1>6. ASSUME NEW x \in Actor, Abandon(x) PROVE Covering'
  <2>1. Underway' \subseteq Underway
    BY <1>6 DEF Abandon, Finish, Goto
  <2>2. faults' >= faults /\ faults' \in Nat
    BY <1>6, <1>0 DEF TypeOK, Abandon
  <2> QED BY <1>6, <1>0, <2>1, <2>2, CoverShrinks DEF TypeOK, Abandon, row, overlaps
<1>7. CASE UNCHANGED vars
  BY <1>7 DEF Covering, vars
<1> QED BY <1>1, <1>2, <1>3, <1>4, <1>5, <1>6, <1>7

(* With the steps that write the counter: it grows by one when a call enters *)
(* Underway, and storing moves one unit from Underway to since.                *)
LEMMA CoveringStep ==
  ASSUME ConvInv, Covering, [Next]_vars
  PROVE  Covering'
<1>0. TypeOK /\ RowExists BY DEF ConvInv
<1>1. ASSUME NEW c \in Call, CreateConversation(c) PROVE Covering'
  <2>1. CASE open
    <3>1. Underway' \subseteq Underway
      BY <1>1, <1>0, <2>1
         DEF Underway, TypeOK, Actor, CreateConversation, Answer, Finish, Goto
    <3>2. faults' >= faults /\ faults' \in Nat
      BY <1>1, <1>0 DEF TypeOK, CreateConversation, Fault
    <3> QED BY <1>1, <1>0, <2>1, <3>1, <3>2, CoverShrinks
               DEF TypeOK, CreateConversation, row
  <2>2. CASE ~open /\ open'
    <3>1. since' = {} /\ unread' = 1
      BY <1>1, <2>2 DEF Covering, CreateConversation, row
    <3>2. pc' = [pc EXCEPT ![c] = "dedup"]
      BY <1>1, <2>2 DEF CreateConversation, row, Goto
    <3>3. Underway' = Underway \cup {c}
      BY <1>0, <3>2 DEF Underway, TypeOK, Actor
    <3>4. Underway = {} BY <2>2 DEF Covering
    <3>5. Underway' = {c} BY <3>3, <3>4
    <3>6. IsFiniteSet(Underway') /\ Cardinality(Underway') <= 1 /\ Cardinality(Underway') \in Nat
      BY <3>5, FS_Singleton
    <3> QED BY <2>2, <3>1, <3>6, FS_EmptySet DEF Covering
  <2>3. CASE ~open /\ ~open'
    <3>1. Underway' \subseteq Underway
      BY <1>1, <1>0, <2>3
         DEF Underway, TypeOK, Actor, CreateConversation, Answer, Finish, Goto
    <3>2. faults' >= faults /\ faults' \in Nat
      BY <1>1, <1>0 DEF TypeOK, CreateConversation, Fault
    <3> QED BY <1>1, <1>0, <2>3, <3>1, <3>2, CoverShrinks
               DEF TypeOK, CreateConversation, row
  <2> QED BY <2>1, <2>2, <2>3
<1>2. ASSUME NEW c \in Call, IncrementUnread(c) PROVE Covering'
  <2>1. Underway' = Underway \cup {c}
    BY <1>2, <1>0 DEF Underway, TypeOK, Actor, IncrementUnread, Goto
  <2>2. open /\ open' BY <1>2, <1>0 DEF RowExists, Actor, IncrementUnread
  <2>3. /\ IsFiniteSet(Underway') /\ Cardinality(Underway') \in Nat
        /\ Cardinality(Underway') <= Cardinality(Underway) + 1
        /\ Cardinality(Underway) \in Nat
    BY <2>1, AddOne DEF Covering
  <2>4. Cardinality(since) \in Nat BY FS_CardinalityType DEF Covering
  <2>5. ASSUME ~raced', ~early', faults' = 0
        PROVE  Cardinality(since') + Cardinality(Underway') <= unread'
    <3>1. faults = 0 /\ unread' = unread + 1
      BY <1>2, <1>0, <2>5 DEF TypeOK, IncrementUnread, Fault
    <3>2. ~raced /\ ~early
      BY <1>2, <1>0, <2>5, <3>1 DEF IncrementUnread, Overtakes, TypeOK
    <3> QED BY <1>2, <1>0, <2>3, <2>4, <3>1, <3>2
               DEF Covering, TypeOK, IncrementUnread
  <2> QED BY <1>2, <2>2, <2>3, <2>5 DEF Covering, IncrementUnread
<1>3. ASSUME NEW c \in Call, StoreMessage(c) PROVE Covering'
  <2>1. pc'[c] \notin {"update", "dedup", "store"}
        /\ \A d \in Call : d # c => pc'[d] = pc[d]
    BY <1>3, <1>0 DEF TypeOK, Actor, StoreMessage, Answer, Finish, Goto
  <2>2. Underway' = Underway \ {c} /\ c \in Underway
    BY <1>3, <2>1 DEF Underway, StoreMessage
  <2>3. /\ IsFiniteSet(Underway') /\ Cardinality(Underway') = Cardinality(Underway) - 1
        /\ Cardinality(Underway) \in Nat
    BY <2>2, FS_RemoveElement, FS_CardinalityType DEF Covering
  <2>4. since' = since \/ since' = since \cup {msg[c]} BY <1>3 DEF StoreMessage
  <2>5. /\ IsFiniteSet(since') /\ Cardinality(since') \in Nat
        /\ Cardinality(since') <= Cardinality(since) + 1
        /\ Cardinality(since) \in Nat
    <3>1. IsFiniteSet(since) BY DEF Covering
    <3>2. CASE since' = since BY <3>1, <3>2, FS_CardinalityType
    <3>3. CASE since' = since \cup {msg[c]} BY <3>1, <3>3, AddOne
    <3> QED BY <2>4, <3>2, <3>3
  <2>6. open' BY <1>3, <1>0 DEF RowExists, Actor, StoreMessage, row
  <2>7. UNCHANGED <<unread, raced, early>> /\ (faults' = 0 => faults = 0)
    BY <1>3, <1>0 DEF TypeOK, StoreMessage, row, overlaps, Fault
  <2> QED BY <1>0, <2>3, <2>5, <2>6, <2>7 DEF Covering, TypeOK
<1>4. ASSUME NEW d \in Desk, MarkAsRead(d) PROVE Covering'
  <2>1. Underway' \subseteq Underway
    BY <1>4 DEF Underway, MarkAsRead, Finish, Goto
  <2>2. IsFiniteSet(Underway') BY <2>1, FS_Subset DEF Covering
  <2>3. since' = {} /\ unread' = 0 /\ open'
    BY <1>4 DEF MarkAsRead
  <2>4. ASSUME ~early' PROVE Underway' = {}
    BY <1>4, <2>1, <2>4 DEF Underway, MarkAsRead, At, Actor
  <2> QED BY <2>2, <2>3, <2>4, FS_EmptySet DEF Covering
<1>5. \/ \E c \in Call : CreateConversation(c) \/ IncrementUnread(c) \/ StoreMessage(c)
      \/ \E d \in Desk : MarkAsRead(d)
      => Covering'
  BY <1>1, <1>2, <1>3, <1>4
<1> QED BY <1>5, CoveringQuiet DEF Next, CallStep, DeskStep

(* Without overlap and database errors the counter never hides a message,    *)
(* for any number of calls, repeats, requests and abandoned calls.           *)
THEOREM NeverHidden == Spec => []UnreadCovers
<1>1. Spec => []Covering
  <2>1. ConvInv /\ Covering /\ [Next]_vars => Covering' BY CoveringStep
  <2> QED BY CoveringInit, InvHolds, <2>1, PTL DEF Spec
<1>2. ConvInv /\ Covering => UnreadCovers
  <2> SUFFICES ASSUME ConvInv, Covering, ~raced, ~early, faults = 0
               PROVE  Cardinality(since) <= unread
    BY DEF UnreadCovers
  <2>1. unread \in Nat BY DEF ConvInv, TypeOK
  <2>2. Cardinality(since) \in Nat /\ Cardinality(Underway) \in Nat
    BY FS_CardinalityType DEF Covering
  <2> QED BY <2>1, <2>2 DEF Covering
<1> QED BY InvHolds, <1>1, <1>2, PTL

-----------------------------------------------------------------------------
(* InboundConversation implements ConversationContract *)

LEMMA ContractInit == Init => Contract!Init
BY DEF Init, Contract!Init

LEMMA ContractStep == ConvInv /\ [Next]_vars => [Contract!Next]_Contract!vars
<1> SUFFICES ASSUME ConvInv, [Next]_vars PROVE [Contract!Next]_Contract!vars OBVIOUS
<1> USE DEF Contract!vars
<1>0. TypeOK /\ Roles /\ RowExists /\ FreshCopies BY DEF ConvInv
<1>1. ASSUME NEW x \in Actor, Update(x), pc[x] \in {"update", "reply", "rename"}
      PROVE [Contract!Next]_Contract!vars
  <2>1. open = TRUE /\ open' = TRUE BY <1>0, <1>1 DEF RowExists, Update
  <2>2. raced' = raced \/ raced' = TRUE BY <1>0, <1>1 DEF Update, Overtakes, TypeOK
  <2>3. unread' \in Nat /\ preview' \in Text /\ name' \in Text /\ counted' \in SUBSET Call
    BY <1>0, <1>1, UpdateTypes
  <2>4. CASE raced
    BY <1>0, <2>1, <2>2, <2>3, <2>4 DEF Contract!Next, Contract!Overwrite
  <2>5. CASE ~raced
    <3>1. Fresh(x) BY <1>0, <2>5 DEF FreshCopies
    <3>2. CASE pc[x] = "rename"
      <4>1. unread' = unread /\ preview' = preview /\ counted' = counted
        BY <1>0, <1>1, <3>1, <3>2 DEF Fresh, Update, Roles
      <4> QED BY <2>1, <2>2, <2>3, <4>1 DEF Contract!Next, Contract!Rename
    <3>3. CASE pc[x] = "reply"
      <4>1. unread' = unread /\ name' = name /\ counted' = counted
        BY <1>0, <1>1, <3>1, <3>3 DEF Fresh, Update, Roles
      <4> QED BY <2>1, <2>2, <2>3, <4>1 DEF Contract!Next, Contract!Reply
    <3>4. CASE pc[x] = "update"
      <4>1. x \in Call BY <1>0, <3>4 DEF Roles, Actor
      <4>2. /\ unread' = IF x \in counted THEN unread ELSE unread + 1
            /\ name' = name /\ counted' = counted \cup {x}
        BY <1>1, <3>1, <3>4, <4>1 DEF Fresh, Update
      <4>3. Contract!Receive(x)
        BY <2>1, <2>3, <4>2 DEF Contract!Receive, Contract!Count
      <4> QED BY <2>2, <4>1, <4>3 DEF Contract!Next
    <3> QED BY <1>1, <3>2, <3>3, <3>4
  <2> QED BY <2>4, <2>5
<1>2. ASSUME NEW c \in Call, CreateConversation(c) PROVE [Contract!Next]_Contract!vars
  <2>1. CASE UNCHANGED <<row, raced>> BY <2>1 DEF row
  <2>2. CASE /\ ~open /\ open' = TRUE
             /\ unread' = 1 /\ preview' = msg[c] /\ name' = name
             /\ counted' = counted \cup {c}
             /\ Overtakes(c)
    <3>1. raced' = raced \/ raced' = TRUE BY <1>0, <2>2 DEF Overtakes, TypeOK
    <3>2. preview' \in Text BY <1>0, <1>2, <2>2 DEF Roles, CreateConversation, Text
    <3>3. c \notin counted BY <1>0, <1>2 DEF Roles, CreateConversation
    <3>4. unread' = unread + 1 BY <1>0, <2>2 DEF RowExists
    <3>5. Contract!Open(c) BY <2>2, <3>2, <3>3, <3>4 DEF Contract!Open, Contract!Count
    <3> QED BY <3>1, <3>5 DEF Contract!Next
  <2> QED BY <1>2, <2>1, <2>2 DEF CreateConversation
<1>3. ASSUME NEW c \in Call, IncrementUnread(c) PROVE [Contract!Next]_Contract!vars
  <2>1. CASE UNCHANGED <<unread, counted, raced>> BY <1>3, <2>1 DEF IncrementUnread
  <2>2. CASE unread' = unread + 1 /\ counted' = counted \cup {c} /\ Overtakes(c)
    <3>1. raced' = raced \/ raced' = TRUE BY <1>0, <2>2 DEF Overtakes, TypeOK
    <3>2. open = TRUE BY <1>0, <1>3 DEF RowExists, Actor, IncrementUnread
    <3>3. preview' \in Text /\ UNCHANGED <<open, name>>
      BY <1>0, <1>3 DEF TypeOK, IncrementUnread
    <3>4. c \notin counted BY <1>0, <1>3 DEF Roles, IncrementUnread
    <3>5. Contract!Receive(c)
      BY <2>2, <3>2, <3>3, <3>4 DEF Contract!Receive, Contract!Count
    <3> QED BY <3>1, <3>5 DEF Contract!Next
  <2> QED BY <1>3, <2>1, <2>2 DEF IncrementUnread
<1>4. ASSUME NEW d \in Desk, MarkAsRead(d) PROVE [Contract!Next]_Contract!vars
  <2>1. raced' = raced \/ raced' = TRUE
    BY <1>0, <1>4 DEF MarkAsRead, Overtakes, TypeOK
  <2> QED BY <1>4, <2>1 DEF MarkAsRead, Contract!Next, Contract!MarkRead
<1>5. ASSUME NEW c \in Call, UpdateConversation(c) PROVE [Contract!Next]_Contract!vars
  <2>1. CASE Update(c) BY <1>1, <1>5, <2>1 DEF UpdateConversation, Actor
  <2>2. CASE UNCHANGED <<row, raced>> BY <2>2 DEF row
  <2> QED BY <1>5, <2>1, <2>2 DEF UpdateConversation
<1>6. ASSUME NEW d \in Desk, Rename(d) \/ Reply(d) PROVE [Contract!Next]_Contract!vars
  <2>1. CASE Update(d) BY <1>1, <1>6, <2>1 DEF Rename, Reply, Actor
  <2>2. CASE UNCHANGED <<row, raced>> BY <2>2 DEF row
  <2> QED BY <1>6, <2>1, <2>2 DEF Rename, Reply
<1>7. ASSUME NEW c \in Call, NEW m \in Msg, ContactFails(c, m) \/ FindConversation(c, m)
      PROVE [Contract!Next]_Contract!vars
  BY <1>7 DEF ContactFails, FindConversation, row, overlaps
<1>8. ASSUME NEW c \in Call, \/ CheckDuplicate(c) \/ StoreMessage(c)
                             \/ ShowMessage(c) \/ ShowConversation(c)
      PROVE [Contract!Next]_Contract!vars
  BY <1>8
     DEF CheckDuplicate, StoreMessage, ShowMessage, ShowConversation, row, overlaps
<1>9. ASSUME NEW d \in Desk, ReadToRename(d) \/ ReadToReply(d) \/ ShowReply(d)
      PROVE [Contract!Next]_Contract!vars
  BY <1>9 DEF ReadToRename, ReadToReply, ShowReply, row, overlaps
<1>10. ASSUME NEW x \in Actor, Abandon(x) PROVE [Contract!Next]_Contract!vars
  BY <1>10 DEF Abandon, row, overlaps
<1>11. CASE UNCHANGED vars BY <1>11 DEF vars
<1> QED BY <1>2, <1>3, <1>4, <1>5, <1>6, <1>7, <1>8, <1>9, <1>10, <1>11
           DEF Next, CallStep, DeskStep

(* Any number of webhook calls and browser requests keep the promise of      *)
(* ConversationContract.                                                     *)
THEOREM ImplementsContract == Spec => NoLostUpdate
<1>1. Init => Contract!Init BY ContractInit
<1>2. ConvInv /\ [Next]_vars => [Contract!Next]_Contract!vars BY ContractStep
<1> QED BY <1>1, <1>2, InvHolds, PTL DEF Spec, NoLostUpdate, Contract!Spec

-----------------------------------------------------------------------------
(* Undisturbed runs *)

(* What is stored was delivered by a call that got past storing it, and a    *)
(* call has one message.                                                     *)
Delivered ==
  /\ \A m \in stored : \E c \in Call : msg[c] = m /\ pc[c] \in {"show", "badge", "done"}
  /\ \A c \in Call : pc[c] = "idle" => msg[c] = None

LEMMA DeliveredStep ==
  ASSUME ConvInv, Delivered, [Next]_vars
  PROVE  Delivered' /\ (Repeated => Repeated')
<1>0. TypeOK /\ Roles
  BY DEF ConvInv
<1>1. ASSUME UNCHANGED <<stored, msg>>,
             \A c \in Call : /\ pc[c] \in {"show", "badge", "done"} =>
                                  pc'[c] \in {"show", "badge", "done"}
                             /\ pc'[c] = "idle" => pc[c] = "idle"
      PROVE  Delivered' /\ (Repeated => Repeated')
  BY <1>1 DEF Delivered, Repeated
<1>2. ASSUME NEW c \in Call, NEW m \in Msg, ContactFails(c, m) \/ FindConversation(c, m)
      PROVE  Delivered' /\ (Repeated => Repeated')
  <2>1. /\ stored' = stored /\ msg' = [msg EXCEPT ![c] = m] /\ pc[c] = "idle"
        /\ pc'[c] # "idle" /\ \A d \in Call : d # c => pc'[d] = pc[d]
    BY <1>0, <1>2 DEF ContactFails, FindConversation, Answer, Finish, Goto, TypeOK, Actor
  <2>2. msg[c] = None /\ \A d \in Call : d # c => msg'[d] = msg[d]
    BY <1>0, <2>1 DEF Delivered, TypeOK
  <2>3. Delivered'
    BY <1>0, <2>1, <2>2 DEF Delivered
  <2>4. Repeated => Repeated'
    BY <2>2 DEF Repeated
  <2> QED BY <2>3, <2>4
<1>3. ASSUME NEW c \in Call, StoreMessage(c) PROVE Delivered' /\ (Repeated => Repeated')
  <2>1. /\ stored' = stored \/ (stored' = stored \cup {msg[c]})
        /\ msg' = msg /\ pc[c] = "store" /\ pc'[c] \in {"show", "done"}
        /\ \A d \in Call : d # c => pc'[d] = pc[d]
    BY <1>0, <1>3 DEF StoreMessage, Answer, Finish, Goto, TypeOK, Actor
  <2>2. Delivered'
    BY <2>1 DEF Delivered
  <2> QED BY <2>1, <2>2 DEF Repeated
<1>4. ASSUME NEW c \in Call,
             \/ CreateConversation(c) \/ IncrementUnread(c) \/ UpdateConversation(c)
             \/ CheckDuplicate(c) \/ ShowMessage(c) \/ ShowConversation(c)
      PROVE  Delivered' /\ (Repeated => Repeated')
  <2>1. /\ UNCHANGED <<stored, msg>> /\ pc[c] # "idle" /\ pc'[c] # "idle"
        /\ pc[c] \in {"show", "badge", "done"} => pc'[c] \in {"show", "badge", "done"}
    BY <1>0, <1>4 DEF CreateConversation, IncrementUnread, UpdateConversation, CheckDuplicate,
                      ShowMessage, ShowConversation, Answer, Finish, Goto, TypeOK, Actor
  <2>2. \A d \in Call : d # c => pc'[d] = pc[d]
    BY <1>0, <1>4 DEF CreateConversation, IncrementUnread, UpdateConversation, CheckDuplicate,
                      ShowMessage, ShowConversation, Answer, Finish, Goto, TypeOK, Actor
  <2> QED BY <1>1, <2>1, <2>2
<1>5. ASSUME NEW d \in Desk, DeskStep(d) PROVE Delivered' /\ (Repeated => Repeated')
  <2>1. UNCHANGED <<stored, msg>> /\ \A x \in Actor : x # d => pc'[x] = pc[x]
    BY <1>0, <1>5 DEF DeskStep, MarkAsRead, ReadToRename, Rename, ReadToReply, Reply, ShowReply,
                      Finish, Goto, TypeOK
  <2>2. \A c \in Call : pc'[c] = pc[c]
    BY <2>1, ActorAssumption DEF Actor
  <2> QED BY <1>1, <2>1, <2>2
<1>6. ASSUME NEW x \in Actor, Abandon(x) PROVE Delivered' /\ (Repeated => Repeated')
  <2>1. UNCHANGED <<stored, msg>> /\ pc' = [pc EXCEPT ![x] = "done"]
    BY <1>6 DEF Abandon, Finish, Goto
  <2>2. \A c \in Call : pc'[c] = pc[c] \/ pc'[c] = "done"
    BY <1>0, <2>1 DEF TypeOK, Actor
  <2> QED BY <1>1, <2>1, <2>2
<1>7. ASSUME UNCHANGED vars PROVE Delivered' /\ (Repeated => Repeated')
  BY <1>1, <1>7 DEF vars
<1> QED BY <1>2, <1>3, <1>4, <1>5, <1>6, <1>7 DEF Next, CallStep

(* Delivered in one call, a message is not stored before that call stores it. *)
LEMMA FirstTime ==
  ASSUME ConvInv, Delivered, ~Repeated, NEW c \in Call, pc[c] \in {"dedup", "store"}
  PROVE  msg[c] \notin stored
<1>1. msg[c] \in Msg /\ msg[c] # None
  BY NoneAssumption DEF ConvInv, Roles
<1> QED BY <1>1 DEF Delivered, Repeated

(* A disturbance stays on record.                                            *)
LEMMA DisturbancesStay ==
  ASSUME TypeOK, [Next]_vars
  PROVE  /\ faults' = 0 => faults = 0 /\ ~Fault
         /\ aborts' = 0 => aborts = 0 /\ \A x \in Actor : ~Abandon(x)
         /\ raced => raced'
         /\ early => early'
         /\ crossed => crossed'
<1> USE DEF Next, CallStep, DeskStep, ContactFails, FindConversation, CreateConversation,
            IncrementUnread, UpdateConversation, CheckDuplicate, StoreMessage, ShowMessage,
            ShowConversation, MarkAsRead, ReadToRename, Rename, ReadToReply, Reply, ShowReply,
            Abandon, vars, overlaps
<1>1. faults \in Nat /\ aborts \in Nat
  BY BoundAssumption DEF TypeOK
<1>2. faults' = faults \/ Fault
  BY DEF Fault
<1>3. faults' = 0 => faults = 0 /\ ~Fault
  BY <1>1, <1>2 DEF Fault
<1>4. aborts' = aborts \/ \E x \in Actor : Abandon(x)
  OBVIOUS
<1>5. aborts' = 0 => aborts = 0 /\ \A x \in Actor : ~Abandon(x)
  BY <1>1, <1>4
<1>6. raced => raced'
  BY DEF Update, Overtakes
<1>7. early => early'
  OBVIOUS
<1>8. crossed => crossed'
  BY DEF Update, Overtakes
<1> QED BY <1>3, <1>5, <1>6, <1>7, <1>8

-----------------------------------------------------------------------------
(* The exact counter *)

(* A call that has counted its message will write back the counter it made.  *)
Recounted == ~raced /\ faults = 0 => \A c \in Call : pc[c] = "update" => copy[c].unread = unread

Exact == UnreadExact /\ Recounted

ExactInv == ConvInv /\ Covering /\ Delivered /\ Exact

LEMMA RecountedStep ==
  ASSUME ConvInv, Recounted, [Next]_vars
  PROVE  Recounted'
<1> SUFFICES ASSUME ~raced', faults' = 0, NEW c \in Call, pc'[c] = "update"
             PROVE  copy'[c].unread = unread'
  BY DEF Recounted
<1>0. TypeOK /\ FreshCopies /\ Roles /\ RowExists
  BY DEF ConvInv
<1>1. ~raced /\ faults = 0 /\ ~Fault
  BY <1>0, DisturbancesStay
<1>2. ASSUME NEW d \in Call, IncrementUnread(d) PROVE copy'[c].unread = unread'
  <2>1. /\ unread' = unread + 1 /\ copy' = copy /\ Holders \ {d} = {}
        /\ pc[d] = "count" /\ pc' = [pc EXCEPT ![d] = "update"]
    BY <1>1, <1>2 DEF IncrementUnread, Overtakes, Goto
  <2>2. c = d
    <3>1. c # d => c \in Holders
      BY <1>0, <2>1 DEF Holders, At, Actor, TypeOK
    <3> QED BY <2>1, <3>1
  <2> QED BY <1>0, <1>1, <2>1, <2>2 DEF FreshCopies, Fresh, Actor
<1>3. ASSUME ~\E d \in Call : IncrementUnread(d) PROVE pc[c] = "update" /\ copy'[c] = copy[c]
  <2>1. ASSUME NEW d \in Call, CallStep(d) PROVE pc[c] = "update" /\ copy'[c] = copy[c]
    BY <1>0, <1>3, <2>1 DEF CallStep, ContactFails, FindConversation, CreateConversation,
         UpdateConversation, CheckDuplicate, StoreMessage, ShowMessage, ShowConversation,
         Answer, Finish, Goto, TypeOK, Actor
  <2>2. ASSUME NEW d \in Desk, DeskStep(d) PROVE pc[c] = "update" /\ copy'[c] = copy[c]
    <3>1. \A x \in Actor : x # d => pc'[x] = pc[x] /\ copy'[x] = copy[x]
      BY <1>0, <2>2 DEF DeskStep, MarkAsRead, ReadToRename, Rename, ReadToReply, Reply, ShowReply,
                        Finish, Goto, TypeOK
    <3> QED BY <3>1, ActorAssumption DEF Actor
  <2>3. ASSUME NEW x \in Actor, Abandon(x) PROVE pc[c] = "update" /\ copy'[c] = copy[c]
    BY <1>0, <2>3 DEF Abandon, Finish, Goto, TypeOK, Actor
  <2> QED BY <2>1, <2>2, <2>3 DEF Next, vars
<1>4. ASSUME ~\E d \in Call : IncrementUnread(d) PROVE unread' = unread
  <2>1. pc[c] = "update" /\ c \in Holders /\ open
    BY <1>0, <1>3, <1>4 DEF Holders, At, Actor, RowExists
  <2>2. ASSUME NEW x \in Actor, x # c, Overtakes(x) PROVE FALSE
    BY <2>1, <2>2 DEF Overtakes
  <2>3. ASSUME NEW d \in Call, CallStep(d) PROVE unread' = unread
    <3>1. CASE CreateConversation(d)
      BY <2>1, <3>1 DEF CreateConversation, row
    <3>2. CASE UpdateConversation(d)
      <4>1. pc'[d] = "dedup"
        BY <1>0, <3>2 DEF UpdateConversation, Goto, TypeOK, Actor
      <4>2. Overtakes(d) \/ unread' = unread
        BY <3>2 DEF UpdateConversation, Update, row
      <4> QED BY <2>2, <4>1, <4>2 DEF Actor
    <3>3. CASE ~CreateConversation(d) /\ ~UpdateConversation(d)
      BY <1>4, <2>3, <3>3 DEF CallStep, ContactFails, FindConversation, CheckDuplicate,
           StoreMessage, ShowMessage, ShowConversation, row
    <3> QED BY <3>1, <3>2, <3>3
  <2>4. ASSUME NEW d \in Desk, DeskStep(d) PROVE unread' = unread
    <3>1. Overtakes(d) \/ unread' = unread
      BY <2>4 DEF DeskStep, MarkAsRead, ReadToRename, Rename, ReadToReply, Reply, ShowReply,
                  Update, row
    <3>2. d # c
      BY ActorAssumption
    <3> QED BY <2>2, <3>1, <3>2 DEF Actor
  <2> QED BY <2>3, <2>4 DEF Next, Abandon, vars, row
<1> QED BY <1>0, <1>1, <1>2, <1>3, <1>4 DEF Recounted

(* A step that neither counts nor stores nor empties the counter.            *)
LEMMA ExactSame ==
  ASSUME ConvInv, Exact, ~raced, ~early, faults = 0, aborts = 0, ~Repeated,
         UNCHANGED since, unread' = unread, Underway' = Underway
  PROVE  UnreadExact'
<1>1. unread = Cardinality(since) + Cardinality(Underway)
  BY DEF Exact, UnreadExact, Underway
<1> QED BY <1>1 DEF UnreadExact, Underway

LEMMA ExactStep ==
  ASSUME ExactInv, [Next]_vars
  PROVE  UnreadExact'
<1> SUFFICES ASSUME ~raced', ~early', faults' = 0, aborts' = 0, ~Repeated'
             PROVE  UnreadExact'
  BY DEF UnreadExact
<1>0. ConvInv /\ TypeOK /\ Roles /\ RowExists /\ FreshCopies /\ Covering /\ Delivered /\ Exact
  BY DEF ExactInv, ConvInv
<1>1. ~raced /\ ~early /\ faults = 0 /\ aborts = 0 /\ ~Repeated /\ ~Fault
      /\ \A x \in Actor : ~Abandon(x)
  BY <1>0, DisturbancesStay, DeliveredStep
<1>2. unread = Cardinality(since) + Cardinality(Underway)
  BY <1>0, <1>1 DEF Exact, UnreadExact, Underway
<1>3. /\ IsFiniteSet(since) /\ Cardinality(since) \in Nat
      /\ IsFiniteSet(Underway) /\ Cardinality(Underway) \in Nat
  BY <1>0, FS_CardinalityType DEF Covering
<1>4. ASSUME unread' = Cardinality(since') + Cardinality(Underway') PROVE UnreadExact'
  BY <1>4 DEF UnreadExact, Underway
<1>5. ASSUME NEW c \in Call, NEW m \in Msg, FindConversation(c, m) PROVE UnreadExact'
  <2>1. UNCHANGED <<since, unread>> /\ Underway' = Underway
    BY <1>0, <1>5 DEF FindConversation, row, Goto, Underway, TypeOK, Actor
  <2> QED BY <1>0, <1>1, <2>1, ExactSame
<1>6. ASSUME NEW c \in Call, CreateConversation(c) PROVE UnreadExact'
  <2>1. CASE open
    <3>1. UNCHANGED <<since, unread>> /\ Underway' = Underway
      BY <1>0, <1>1, <1>6, <2>1 DEF CreateConversation, row, Answer, Finish, Goto, Underway,
                                    TypeOK, Actor
    <3> QED BY <1>0, <1>1, <3>1, ExactSame
  <2>2. CASE ~open
    <3>1. unread' = 1 /\ since' = since /\ pc' = [pc EXCEPT ![c] = "dedup"]
      BY <1>1, <1>6, <2>2 DEF CreateConversation, Goto
    <3>2. since' = {} /\ Underway = {}
      BY <1>0, <2>2, <3>1 DEF Covering
    <3>3. Underway' = {c}
      BY <1>0, <3>1, <3>2 DEF Underway, TypeOK, Actor
    <3>4. Cardinality(since') = 0 /\ Cardinality(Underway') = 1
      BY <3>2, <3>3, FS_EmptySet, FS_Singleton
    <3> QED BY <1>4, <3>1, <3>4
  <2> QED BY <2>1, <2>2
<1>7. ASSUME NEW c \in Call, IncrementUnread(c) PROVE UnreadExact'
  <2>1. unread' = unread + 1 /\ since' = since /\ pc[c] = "count"
        /\ pc' = [pc EXCEPT ![c] = "update"]
    BY <1>1, <1>7 DEF IncrementUnread, Goto
  <2>2. c \notin Underway /\ Underway' = Underway \cup {c}
    BY <1>0, <2>1 DEF Underway, TypeOK, Actor
  <2>3. Cardinality(Underway') = Cardinality(Underway) + 1
    BY <1>3, <2>2, FS_AddElement
  <2> QED BY <1>2, <1>3, <1>4, <2>1, <2>3
<1>8. ASSUME NEW c \in Call, UpdateConversation(c) PROVE UnreadExact'
  <2>1. unread' = copy[c].unread /\ since' = since /\ pc[c] = "update"
        /\ pc' = [pc EXCEPT ![c] = "dedup"]
    BY <1>1, <1>8 DEF UpdateConversation, Update, Goto
  <2>2. unread' = unread
    BY <1>0, <1>1, <2>1 DEF Exact, Recounted
  <2>3. Underway' = Underway
    BY <1>0, <2>1 DEF Underway, TypeOK, Actor
  <2> QED BY <1>0, <1>1, <2>1, <2>2, <2>3, ExactSame
<1>9. ASSUME NEW c \in Call, CheckDuplicate(c) PROVE UnreadExact'
  <2>1. msg[c] \notin stored
    BY <1>0, <1>1, <1>9, FirstTime DEF CheckDuplicate
  <2>2. UNCHANGED <<since, unread>> /\ pc[c] = "dedup" /\ pc' = [pc EXCEPT ![c] = "store"]
    BY <1>1, <1>9, <2>1 DEF CheckDuplicate, IsDuplicate, row, Goto
  <2>3. Underway' = Underway
    BY <1>0, <2>2 DEF Underway, TypeOK, Actor
  <2> QED BY <1>0, <1>1, <2>2, <2>3, ExactSame
<1>10. ASSUME NEW c \in Call, StoreMessage(c) PROVE UnreadExact'
  <2>1. msg[c] \notin stored
    BY <1>0, <1>1, <1>10, FirstTime DEF StoreMessage
  <2>2. /\ unread' = unread /\ since' = since \cup {msg[c]} /\ pc[c] = "store"
        /\ pc' = [pc EXCEPT ![c] = "show"]
    BY <1>1, <1>10, <2>1 DEF StoreMessage, Insertable, row, Goto
  <2>3. msg[c] \notin since
    BY <1>0, <2>1 DEF TypeOK
  <2>4. c \in Underway /\ Underway' = Underway \ {c}
    BY <1>0, <2>2 DEF Underway, TypeOK, Actor
  <2>5. Cardinality(since') = Cardinality(since) + 1
    BY <1>3, <2>2, <2>3, FS_AddElement
  <2>6. Cardinality(Underway') = Cardinality(Underway) - 1
    BY <1>3, <2>4, FS_RemoveElement
  <2> QED BY <1>2, <1>3, <1>4, <2>2, <2>5, <2>6
<1>11. ASSUME NEW c \in Call, ShowMessage(c) \/ ShowConversation(c) PROVE UnreadExact'
  <2>1. UNCHANGED <<since, unread>> /\ Underway' = Underway
    BY <1>0, <1>11 DEF ShowMessage, ShowConversation, row, Answer, Finish, Goto, Underway,
                       TypeOK, Actor
  <2> QED BY <1>0, <1>1, <2>1, ExactSame
<1>12. ASSUME NEW d \in Desk, MarkAsRead(d) PROVE UnreadExact'
  <2>1. since' = {} /\ unread' = 0 /\ At({"update", "dedup", "store"}) = {}
        /\ pc' = [pc EXCEPT ![d] = "done"]
    BY <1>12 DEF MarkAsRead, Finish, Goto
  <2>2. Underway' = {}
    BY <1>0, <2>1 DEF Underway, At, TypeOK, Actor
  <2>3. Cardinality(since') = 0 /\ Cardinality(Underway') = 0
    BY <2>1, <2>2, FS_EmptySet
  <2> QED BY <1>4, <2>1, <2>3
<1>13. ASSUME NEW d \in Desk, DeskStep(d), ~MarkAsRead(d) PROVE UnreadExact'
  <2>1. \A x \in Actor : x # d => pc'[x] = pc[x]
    BY <1>0, <1>13 DEF DeskStep, ReadToRename, Rename, ReadToReply, Reply, ShowReply,
                       Finish, Goto, TypeOK
  <2>2. Underway' = Underway
    BY <2>1, ActorAssumption DEF Underway, Actor
  <2>3. since' = since /\ unread' = unread
    BY <1>0, <1>1, <1>13 DEF DeskStep, ReadToRename, Rename, ReadToReply, Reply, ShowReply,
                             Update, FreshCopies, Fresh, row, Actor
  <2> QED BY <1>0, <1>1, <2>2, <2>3, ExactSame
<1>14. ASSUME UNCHANGED vars PROVE UnreadExact'
  BY <1>0, <1>1, <1>14, ExactSame DEF vars, Underway
<1> QED
  BY <1>1, <1>5, <1>6, <1>7, <1>8, <1>9, <1>10, <1>11, <1>12, <1>13, <1>14
  DEF Next, CallStep, ContactFails

LEMMA ExactHolds == Spec => []ExactInv
<1>1. Init => ExactInv
  <2> SUFFICES ASSUME Init PROVE ExactInv
    OBVIOUS
  <2>1. since = {} /\ Underway = {} /\ unread = 0
    BY DEF Init, Underway, Actor
  <2>2. UnreadExact
    BY <2>1, FS_EmptySet DEF UnreadExact, Underway
  <2>3. Recounted /\ Delivered
    BY DEF Init, Recounted, Delivered, Actor
  <2> QED BY <2>2, <2>3, InvInit, CoveringInit DEF ExactInv, Exact
<1>2. ExactInv /\ [Next]_vars => ExactInv'
  <2> SUFFICES ASSUME ExactInv, [Next]_vars PROVE ExactInv'
    OBVIOUS
  <2>1. ConvInv /\ Covering /\ Delivered /\ Recounted
    BY DEF ExactInv, Exact
  <2>2. ConvInv'
    BY <2>1, TypeOKStep, RolesStep, RowExistsStep, FreshCopiesStep, TellingStep, KeepingStep
    DEF ConvInv
  <2> QED BY <2>1, <2>2, CoveringStep, DeliveredStep, RecountedStep, ExactStep
          DEF ExactInv, Exact
<1> QED BY <1>1, <1>2, PTL DEF Spec

(* Undisturbed, the counter is the number of messages stored since the last  *)
(* mark-as-read and of those counted but not yet stored.                     *)
THEOREM CounterExact == Spec => []UnreadExact
<1>1. ExactInv => UnreadExact
  BY DEF ExactInv, Exact
<1> QED BY <1>1, ExactHolds, PTL


-----------------------------------------------------------------------------
(* The last broadcast *)

Undisturbed == ~crossed /\ faults = 0 /\ aborts = 0 /\ ~Repeated

(* Who has written the row and is on its way to its broadcast. *)
Sending == At({"dedup", "store", "show", "badge"})

InSync(x) == copy[x].unread = unread /\ copy[x].preview = preview

(* What the browsers were told last is what the row says. *)
Announced == /\ badge.preview = preview
             /\ badge.unread = unread \/ (unread = 0 /\ since = {})

(* Undisturbed, whoever has written the row still holds it as it is and will *)
(* broadcast it; unless somebody is about to, it was broadcast.              *)
Announcing ==
  /\ \A c \in Call : pc[c] = "create" => copy[c].unread = 1 /\ copy[c].preview = msg[c]
  /\ raced => crossed
  /\ Undisturbed =>
       /\ \A x \in Sending : InSync(x)
       /\ open => Sending # {} \/ At({"update"}) # {} \/ Announced

(* A copy made to create the row says what the row will say. *)
LEMMA CreatorsStep ==
  ASSUME ConvInv, Announcing, [Next]_vars
  PROVE  \A c \in Call : pc'[c] = "create" => /\ copy'[c].unread = 1
                                              /\ copy'[c].preview = msg'[c]
<1>0. TypeOK /\ Roles BY DEF ConvInv
<1> SUFFICES ASSUME NEW c \in Call, pc'[c] = "create"
             PROVE  copy'[c].unread = 1 /\ copy'[c].preview = msg'[c]
  OBVIOUS
<1>1. ASSUME pc[c] = "create", copy'[c] = copy[c], msg'[c] = msg[c]
      PROVE  copy'[c].unread = 1 /\ copy'[c].preview = msg'[c]
  BY <1>1 DEF Announcing
<1>2. ASSUME NEW d \in Call, NEW m \in Msg, FindConversation(d, m)
      PROVE  copy'[c].unread = 1 /\ copy'[c].preview = msg'[c]
  <2>1. CASE c = d
    BY <1>0, <1>2, <2>1 DEF FindConversation, Goto, TypeOK, Actor
  <2>2. CASE c # d
    BY <1>0, <1>1, <1>2, <2>2 DEF FindConversation, Goto, TypeOK, Actor
  <2> QED BY <2>1, <2>2
<1>3. ASSUME NEW d \in Call,
             \/ \E m \in Msg : ContactFails(d, m)
             \/ CreateConversation(d) \/ IncrementUnread(d) \/ UpdateConversation(d)
             \/ CheckDuplicate(d) \/ StoreMessage(d) \/ ShowMessage(d) \/ ShowConversation(d)
      PROVE  copy'[c].unread = 1 /\ copy'[c].preview = msg'[c]
  <2>1. c # d /\ pc'[c] = pc[c] /\ copy'[c] = copy[c] /\ msg'[c] = msg[c]
    BY <1>0, <1>3 DEF ContactFails, CreateConversation, IncrementUnread, UpdateConversation,
         CheckDuplicate, StoreMessage, ShowMessage, ShowConversation,
         Answer, Finish, Goto, TypeOK, Actor
  <2> QED BY <1>1, <2>1
<1>4. ASSUME NEW d \in Desk, DeskStep(d)
      PROVE  copy'[c].unread = 1 /\ copy'[c].preview = msg'[c]
  <2>1. msg' = msg /\ \A x \in Actor : x # d => pc'[x] = pc[x] /\ copy'[x] = copy[x]
    BY <1>0, <1>4 DEF DeskStep, MarkAsRead, ReadToRename, Rename, ReadToReply, Reply, ShowReply,
                      Finish, Goto, TypeOK
  <2> QED BY <1>1, <2>1, ActorAssumption DEF Actor
<1>5. ASSUME NEW x \in Actor, Abandon(x)
      PROVE  copy'[c].unread = 1 /\ copy'[c].preview = msg'[c]
  BY <1>0, <1>1, <1>5 DEF Abandon, Finish, Goto, TypeOK, Actor
<1>6. CASE UNCHANGED vars BY <1>1, <1>6 DEF vars
<1> QED BY <1>2, <1>3, <1>4, <1>5, <1>6 DEF Next, CallStep

(* Who writes under a held copy also crosses another's broadcast. *)
LEMMA RacedIsCrossed ==
  ASSUME raced => crossed, [Next]_vars
  PROVE  raced' => crossed'
<1>1. ASSUME NEW x, Overtakes(x) PROVE raced' => crossed'
  BY <1>1 DEF Overtakes, Holders, Busy, At
<1>2. \/ \E x \in Actor : Overtakes(x)
      \/ UNCHANGED <<raced, crossed>>
  BY DEF Next, CallStep, DeskStep, ContactFails, FindConversation, CreateConversation,
         IncrementUnread, UpdateConversation, CheckDuplicate, StoreMessage, ShowMessage,
         ShowConversation, MarkAsRead, ReadToRename, Rename, ReadToReply, Reply, ShowReply,
         Abandon, Update, vars, overlaps, Actor
<1> QED BY <1>1, <1>2

LEMMA AnnouncingStep ==
  ASSUME ExactInv, Announcing, [Next]_vars
  PROVE  Announcing'
<1>0. ConvInv /\ TypeOK /\ Roles /\ FreshCopies /\ Delivered
  BY DEF ExactInv, ConvInv
<1>t. /\ pc \in [Actor -> {"idle", "create", "count", "update", "dedup", "store",
                           "show", "reply", "rename", "badge", "done"}]
      /\ copy \in [Actor -> Row] /\ Call \subseteq Actor /\ Desk \subseteq Actor
  BY <1>0 DEF TypeOK, Actor
<1>i. (raced => crossed) /\ (raced' => crossed')
  BY RacedIsCrossed DEF Announcing
<1> SUFFICES ASSUME Undisturbed'
             PROVE  (/\ \A x \in Sending : InSync(x)
                     /\ open => Sending # {} \/ At({"update"}) # {} \/ Announced)'
  BY <1>0, <1>i, CreatorsStep DEF Announcing
<1>1. /\ Undisturbed /\ ~raced /\ ~crossed' /\ ~Repeated /\ ~Fault
      /\ \A x \in Actor : ~Abandon(x)
  BY <1>0, <1>i, DisturbancesStay, DeliveredStep DEF Undisturbed
<1>2. /\ \A x \in Sending : InSync(x)
      /\ open => Sending # {} \/ At({"update"}) # {} \/ Announced
  BY <1>1 DEF Announcing
<1>w. ASSUME NEW x, Overtakes(x) PROVE Busy \ {x} = {}
  BY <1>1, <1>w DEF Overtakes
(* A step of x alone which does not change the row ... *)
<1>k. ASSUME NEW x \in Actor, \A y \in Actor \ {x} : pc'[y] = pc[y] /\ copy'[y] = copy[y],
             UNCHANGED <<unread, preview>>, x \in Sending' => InSync(x)'
      PROVE  \A y \in Sending' : InSync(y)'
  BY <1>2, <1>k DEF Sending, At, InSync
(* ... or changes it while nobody else is busy. *)
<1>l. ASSUME NEW x \in Actor, \A y \in Actor \ {x} : pc'[y] = pc[y] /\ copy'[y] = copy[y],
             Busy \ {x} = {}, x \in Sending' => InSync(x)'
      PROVE  \A y \in Sending' : InSync(y)'
  BY <1>l DEF Sending, At, Busy
<1>b. ASSUME NEW x \in Actor, \A y \in Actor \ {x} : pc'[y] = pc[y],
             UNCHANGED <<open, unread, preview, since, badge>>,
             x \in Sending => x \in Sending', x \notin At({"update"})
      PROVE  open' => Sending' # {} \/ At({"update"})' # {} \/ Announced'
  <2>1. ASSUME NEW y \in Sending PROVE y \in Sending'
    BY <1>b, <2>1 DEF Sending, At
  <2>2. ASSUME NEW y \in At({"update"}) PROVE y \in At({"update"})'
    BY <1>b, <2>2 DEF At
  <2>3. Announced => Announced' BY <1>b DEF Announced
  <2> QED BY <1>b, <1>2, <2>1, <2>2, <2>3
<1>s. ASSUME NEW x \in Actor, pc'[x] \in {"update", "dedup", "store", "show", "badge"}
      PROVE  Sending' # {} \/ At({"update"})' # {}
  BY <1>s DEF Sending, At
<1>3. ASSUME NEW c \in Call, NEW m \in Msg, FindConversation(c, m)
      PROVE  /\ \A x \in Sending' : InSync(x)'
             /\ open' => Sending' # {} \/ At({"update"})' # {} \/ Announced'
  <2>1. /\ \A y \in Actor \ {c} : pc'[y] = pc[y] /\ copy'[y] = copy[y]
        /\ UNCHANGED <<open, unread, preview, since, badge>>
        /\ pc[c] = "idle" /\ pc'[c] \in {"count", "create"}
    BY <1>t, <1>3 DEF FindConversation, Goto, row, browsers
  <2>2. c \notin Sending /\ c \notin Sending' /\ c \notin At({"update"})
    BY <2>1 DEF Sending, At
  <2> QED BY <1>t, <1>k, <1>b, <2>1, <2>2
<1>4. ASSUME NEW c \in Call, CreateConversation(c)
      PROVE  /\ \A x \in Sending' : InSync(x)'
             /\ open' => Sending' # {} \/ At({"update"})' # {} \/ Announced'
  <2>0. \A y \in Actor \ {c} : pc'[y] = pc[y] /\ copy'[y] = copy[y]
    BY <1>t, <1>4 DEF CreateConversation, Answer, Finish, Goto
  <2>1. CASE open
    <3>1. /\ UNCHANGED <<open, unread, preview, since, badge>>
          /\ pc[c] = "create" /\ pc'[c] = "done"
      BY <1>t, <1>4, <2>1 DEF CreateConversation, Answer, Finish, Goto, row, browsers
    <3>2. c \notin Sending /\ c \notin Sending' /\ c \notin At({"update"})
      BY <3>1 DEF Sending, At
    <3> QED BY <1>t, <1>k, <1>b, <2>0, <3>1, <3>2
  <2>2. CASE ~open
    <3>1. /\ Overtakes(c) /\ pc[c] = "create" /\ pc'[c] = "dedup"
          /\ unread' = 1 /\ preview' = msg[c] /\ copy' = copy
      BY <1>t, <1>1, <1>4, <2>2 DEF CreateConversation, Goto
    <3>2. copy'[c].unread = unread' /\ copy'[c].preview = preview'
      BY <3>1 DEF Announcing
    <3> QED BY <1>t, <1>l, <1>w, <1>s, <2>0, <3>1, <3>2 DEF InSync
  <2> QED BY <2>1, <2>2
<1>5. ASSUME NEW c \in Call, IncrementUnread(c)
      PROVE  /\ \A x \in Sending' : InSync(x)'
             /\ open' => Sending' # {} \/ At({"update"})' # {} \/ Announced'
  <2>1. /\ Overtakes(c) /\ pc'[c] = "update"
        /\ \A y \in Actor \ {c} : pc'[y] = pc[y] /\ copy'[y] = copy[y]
    BY <1>t, <1>1, <1>5 DEF IncrementUnread, Goto
  <2>2. c \notin Sending' BY <2>1 DEF Sending, At
  <2> QED BY <1>t, <1>l, <1>w, <1>s, <2>1, <2>2
<1>6. ASSUME NEW x \in Actor, pc'[x] \in {"dedup", "badge"}, Update(x), copy' = copy,
             \A y \in Actor \ {x} : pc'[y] = pc[y]
      PROVE  /\ \A y \in Sending' : InSync(y)'
             /\ open' => Sending' # {} \/ At({"update"})' # {} \/ Announced'
  <2>1. Overtakes(x) /\ copy'[x].unread = unread' /\ copy'[x].preview = preview'
    BY <1>6 DEF Update
  <2> QED BY <1>l, <1>w, <1>s, <1>6, <2>1 DEF InSync
<1>7. ASSUME NEW c \in Call, UpdateConversation(c)
      PROVE  /\ \A x \in Sending' : InSync(x)'
             /\ open' => Sending' # {} \/ At({"update"})' # {} \/ Announced'
  <2>1. /\ Update(c) /\ copy' = copy /\ pc'[c] = "dedup"
        /\ \A y \in Actor \ {c} : pc'[y] = pc[y]
    BY <1>t, <1>1, <1>7 DEF UpdateConversation, Goto
  <2> QED BY <1>t, <1>6, <2>1
<1>8. ASSUME NEW c \in Call, CheckDuplicate(c) \/ StoreMessage(c) \/ ShowMessage(c)
      PROVE  /\ \A x \in Sending' : InSync(x)'
             /\ open' => Sending' # {} \/ At({"update"})' # {} \/ Announced'
  <2>1. pc[c] \in {"dedup", "store"} => msg[c] \notin stored
    BY <1>0, <1>1, FirstTime
  <2>2. /\ pc[c] \in {"dedup", "store", "show"} /\ pc'[c] \in {"store", "show", "badge"}
        /\ UNCHANGED <<unread, preview, copy>>
        /\ \A y \in Actor \ {c} : pc'[y] = pc[y]
    BY <1>t, <1>1, <1>8, <2>1
       DEF CheckDuplicate, StoreMessage, ShowMessage, IsDuplicate, Insertable, Goto, row
  <2>3. InSync(c)' BY <1>t, <1>2, <2>2 DEF Sending, At, InSync
  <2> QED BY <1>t, <1>k, <1>s, <2>2, <2>3
<1>9. ASSUME NEW x \in Actor, pc[x] = "badge", pc'[x] = "done", badge' = copy[x],
             UNCHANGED <<unread, preview>>,
             \A y \in Actor \ {x} : pc'[y] = pc[y] /\ copy'[y] = copy[y]
      PROVE  /\ \A y \in Sending' : InSync(y)'
             /\ open' => Sending' # {} \/ At({"update"})' # {} \/ Announced'
  <2>1. InSync(x) BY <1>2, <1>9 DEF Sending, At
  <2>2. Announced' BY <1>9, <2>1 DEF Announced, InSync
  <2>3. x \notin Sending' BY <1>9 DEF Sending, At
  <2> QED BY <1>k, <1>9, <2>2, <2>3
<1>10. ASSUME NEW c \in Call, ShowConversation(c)
       PROVE  /\ \A x \in Sending' : InSync(x)'
              /\ open' => Sending' # {} \/ At({"update"})' # {} \/ Announced'
  <2>1. /\ pc[c] = "badge" /\ pc'[c] = "done" /\ badge' = copy[c]
        /\ UNCHANGED <<unread, preview>>
        /\ \A y \in Actor \ {c} : pc'[y] = pc[y] /\ copy'[y] = copy[y]
    BY <1>t, <1>10 DEF ShowConversation, ShownRow, Answer, Finish, Goto, row
  <2> QED BY <1>t, <1>9, <2>1
<1>11. ASSUME NEW d \in Desk, ShowReply(d)
       PROVE  /\ \A x \in Sending' : InSync(x)'
              /\ open' => Sending' # {} \/ At({"update"})' # {} \/ Announced'
  <2>1. /\ pc[d] = "badge" /\ pc'[d] = "done" /\ badge' = copy[d]
        /\ UNCHANGED <<unread, preview>>
        /\ \A y \in Actor \ {d} : pc'[y] = pc[y] /\ copy'[y] = copy[y]
    BY <1>t, <1>11 DEF ShowReply, ShownRow, Finish, Goto, row
  <2> QED BY <1>t, <1>9, <2>1
<1>12. ASSUME NEW d \in Desk, MarkAsRead(d)
       PROVE  /\ \A x \in Sending' : InSync(x)'
              /\ open' => Sending' # {} \/ At({"update"})' # {} \/ Announced'
  <2>1. /\ Overtakes(d) /\ open /\ pc[d] = "idle" /\ pc'[d] = "done"
        /\ unread' = 0 /\ since' = {} /\ UNCHANGED <<preview, badge>>
        /\ \A y \in Actor \ {d} : pc'[y] = pc[y] /\ copy'[y] = copy[y]
    BY <1>t, <1>12 DEF MarkAsRead, Finish, Goto, browsers
  <2>2. Busy \ {d} = {} BY <1>w, <2>1
  <2>3. Sending = {} /\ At({"update"}) = {} BY <2>1, <2>2 DEF Sending, At, Busy
  <2>4. Announced' BY <1>2, <2>1, <2>3 DEF Announced
  <2>5. d \notin Sending' BY <2>1 DEF Sending, At
  <2> QED BY <1>t, <1>l, <2>1, <2>2, <2>4, <2>5
<1>13. ASSUME NEW d \in Desk, ReadToRename(d) \/ ReadToReply(d) \/ Rename(d)
       PROVE  /\ \A x \in Sending' : InSync(x)'
              /\ open' => Sending' # {} \/ At({"update"})' # {} \/ Announced'
  <2>1. /\ pc[d] \in {"idle", "rename"} /\ pc'[d] \in {"rename", "reply", "done"}
        /\ \A y \in Actor \ {d} : pc'[y] = pc[y] /\ copy'[y] = copy[y]
        /\ UNCHANGED <<open, since, badge>>
    BY <1>t, <1>13 DEF ReadToRename, ReadToReply, Rename, Update, Finish, Goto, row, browsers
  <2>2. pc[d] = "rename" => copy[d].unread = unread /\ copy[d].preview = preview
    BY <1>t, <1>0, <1>1 DEF FreshCopies, Fresh
  <2>3. UNCHANGED <<unread, preview>>
    BY <1>1, <1>13, <2>2 DEF ReadToRename, ReadToReply, Rename, Update, row
  <2>4. d \notin Sending /\ d \notin Sending' /\ d \notin At({"update"})
    BY <2>1 DEF Sending, At
  <2> QED BY <1>t, <1>k, <1>b, <2>1, <2>3, <2>4
<1>14. ASSUME NEW d \in Desk, Reply(d)
       PROVE  /\ \A x \in Sending' : InSync(x)'
              /\ open' => Sending' # {} \/ At({"update"})' # {} \/ Announced'
  <2>1. /\ Update(d) /\ copy' = copy /\ pc'[d] = "badge"
        /\ \A y \in Actor \ {d} : pc'[y] = pc[y]
    BY <1>t, <1>1, <1>14 DEF Reply, Goto
  <2> QED BY <1>t, <1>6, <2>1
<1>15. ASSUME UNCHANGED vars
       PROVE  /\ \A x \in Sending' : InSync(x)'
              /\ open' => Sending' # {} \/ At({"update"})' # {} \/ Announced'
  BY <1>2, <1>15 DEF vars, Sending, At, InSync, Announced
<1>16. /\ \A x \in Sending' : InSync(x)'
       /\ open' => Sending' # {} \/ At({"update"})' # {} \/ Announced'
  <2>1. CASE \E c \in Call : CallStep(c)
    BY <1>1, <1>3, <1>4, <1>5, <1>7, <1>8, <1>10, <2>1 DEF CallStep, ContactFails
  <2>2. CASE \E d \in Desk : DeskStep(d)
    BY <1>11, <1>12, <1>13, <1>14, <2>2 DEF DeskStep
  <2> QED BY <1>1, <1>15, <2>1, <2>2 DEF Next
<1> QED BY <1>16

(* At rest and undisturbed, the browsers' last UpdateConversation shows the  *)
(* row, except for a mark-as-read that followed it.                          *)
THEOREM BadgeShowsRow == Spec => []BadgeIsRow
<1>1. Init => Announcing
  BY DEF Init, Announcing, Undisturbed, Sending, At, Actor
<1>2. ExactInv /\ Announcing /\ [Next]_vars => Announcing' BY AnnouncingStep
<1>3. Spec => []Announcing BY <1>1, <1>2, ExactHolds, PTL DEF Spec
<1>4. Announcing => BadgeIsRow
  <2>1. Busy = {} => Sending = {} /\ At({"update"}) = {} BY DEF Busy, Sending, At
  <2> QED BY <2>1 DEF Announcing, BadgeIsRow, Undisturbed, Announced
<1> QED BY <1>3, <1>4, PTL
=============================================================================
