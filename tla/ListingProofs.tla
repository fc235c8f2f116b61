--------------------------- MODULE ListingProofs ---------------------------
(***************************************************************************)
(* Proofs about what browsers are shown: about module Listing, for any     *)
(* rows, page length and length of a second, and any writes between the    *)
(* pages; and, from "Whom a conversation belongs to" on, about module      *)
(* Routing, for any numbers, companies, customers, deliveries, workers and *)
(* quota.  The two modules share no variable.                              *)
(***************************************************************************)
EXTENDS Listing, Routing, FiniteSetTheorems, TLAPS

(* What cutting a time to its second does.                                   *)
LEMMA CutBounds ==
  ASSUME NEW t \in Nat
  PROVE  /\ Cut(t) \in Nat /\ Cut(t) <= t
         /\ t >= Moments => Cut(t) > 0
<1>1. Moments \in Nat \ {0} BY LimitAssumption
<1>2. t % Moments \in 0 .. (Moments - 1) BY <1>1
<1>3. t % Moments <= t
  <2>1. CASE t >= Moments BY <1>1, <1>2, <2>1
  <2>2. CASE t < Moments
    <3>1. t % Moments = t BY <1>1, <2>2
    <3> QED BY <3>1
  <2> QED BY <1>1, <2>1, <2>2
<1> QED BY <1>1, <1>2, <1>3 DEF Cut

LEMMA Finite == IsFiniteSet(Conv) /\ IsFiniteSet(Msg)
BY ConvAssumption, MsgAssumption

(* A set of rows is finite, and so counted by a number.                      *)
LEMMA Counted ==
  ASSUME NEW S, S \subseteq Conv \/ S \subseteq Msg
  PROVE  IsFiniteSet(S) /\ Cardinality(S) \in Nat
BY Finite, FS_Subset, FS_CardinalityType

-----------------------------------------------------------------------------
(* Types, and that no time lies in the first second *)

Clock == /\ now >= Moments + Lag
         /\ \A c \in Conv : updated[c] = 0 \/ updated[c] >= Moments

(* What the histories are about.                                             *)
Kinds == /\ list = "conversations" => begun \subseteq Conv
         /\ list = "messages" =>
              /\ begun \subseteq Stored
              /\ \A l \in lasts : l[1] \in Stored /\ l[2] = stamp[l[1]]

TypeInv == TypeOK /\ Clock /\ Kinds

LEMMA TypeInit == Init => TypeInv
<1> SUFFICES ASSUME Init PROVE TypeInv OBVIOUS
<1>1. TypeOK BY LimitAssumption, TimeAssumption DEF Init, TypeOK, Filters
<1>2. Clock BY LimitAssumption, TimeAssumption DEF Init, Clock
<1>3. Kinds BY DEF Init, Kinds
<1> QED BY <1>1, <1>2, <1>3 DEF TypeInv

LEMMA TypeWrite ==
  ASSUME TypeInv, NEW c \in Conv, Write(c)
  PROVE  TypeInv'
<1>0. TypeOK /\ Clock /\ Kinds BY DEF TypeInv
<1>1. PICK t \in (now - Lag) .. now : updated' = [updated EXCEPT ![c] = t]
  BY DEF Write
<1>2. t \in Nat /\ t >= Moments
  BY <1>0, <1>1, LimitAssumption, TimeAssumption DEF TypeOK, Clock
<1>3. updated' \in [Conv -> Nat] BY <1>0, <1>1, <1>2 DEF TypeOK
<1>4. unread' \in SUBSET Conv /\ touched' \in SUBSET Conv BY <1>0 DEF Write, TypeOK
<1>5. TypeOK' BY <1>0, <1>3, <1>4 DEF TypeOK, Write, cursor
<1>6. Clock' BY <1>0, <1>1, <1>2 DEF Clock, Write, TypeOK
<1>7. Kinds' BY <1>0 DEF Kinds, Write, Stored
<1> QED BY <1>5, <1>6, <1>7 DEF TypeInv

LEMMA TypeStore ==
  ASSUME TypeInv, NEW m \in Msg, Store(m)
  PROVE  TypeInv' /\ \A n \in Stored : n \in Stored' /\ stamp'[n] = stamp[n]
<1>0. TypeOK /\ Clock /\ Kinds BY DEF TypeInv
<1>1. PICK s \in 1 .. MaxSecond : stamp' = [stamp EXCEPT ![m] = s] BY DEF Store
<1>2. s \in Nat BY TimeAssumption
<1>3. stamp' \in [Msg -> Nat] BY <1>0, <1>1, <1>2 DEF TypeOK
<1>4. TypeOK' BY <1>0, <1>3 DEF TypeOK, Store, conversations, cursor, history
<1>5. Clock' BY <1>0 DEF Clock, Store, conversations
<1>6. \A n \in Stored : n \in Stored' /\ stamp'[n] = stamp[n]
  BY <1>0, <1>1 DEF Store, Stored, TypeOK
<1>7. Kinds' BY <1>0, <1>6 DEF Kinds, Store, history
<1> QED BY <1>4, <1>5, <1>6, <1>7 DEF TypeInv

LEMMA TypeTick ==
  ASSUME TypeInv, Tick
  PROVE  TypeInv'
<1>0. TypeOK /\ Clock /\ Kinds BY DEF TypeInv
<1>1. TypeOK' BY <1>0 DEF TypeOK, Tick, conversations, cursor, history
<1>2. Clock' BY <1>0, LimitAssumption, TimeAssumption DEF Clock, Tick, conversations, TypeOK
<1>3. Kinds' BY <1>0 DEF Kinds, Tick, history, Stored
<1> QED BY <1>1, <1>2, <1>3 DEF TypeInv

LEMMA TypeOpen ==
  ASSUME TypeInv, (\E f \in Filters : OpenConversations(f)) \/ OpenMessages
  PROVE  TypeInv'
<1>0. TypeOK /\ Clock /\ Kinds BY DEF TypeInv
<1>1. UNCHANGED <<now, updated, unread, stamp>>
      /\ list' \in {"conversations", "messages"} /\ filter' \in Filters
      /\ at' = 0 /\ id' = 0 /\ offset' = 0 /\ walk' = "asking"
      /\ listed' = [x \in Conv \cup Msg |-> 0]
      /\ touched' = {} /\ lasts' = {}
  BY <1>0 DEF OpenConversations, OpenMessages, conversations, TypeOK
<1>2. /\ begun' \subseteq Conv \/ begun' \subseteq Msg
      /\ Kinds'
  BY <1>1 DEF OpenConversations, OpenMessages, Kinds, Stored
<1>3. TypeOK' BY <1>0, <1>1, <1>2 DEF TypeOK
<1>4. Clock' BY <1>0, <1>1 DEF Clock
<1> QED BY <1>2, <1>3, <1>4 DEF TypeInv

LEMMA ShownTyped ==
  ASSUME TypeOK, NEW S, Shown(S)
  PROVE  listed' \in [Conv \cup Msg -> Nat]
<1>1. \A x \in Conv \cup Msg : listed[x] \in Nat /\ listed[x] + 1 \in Nat BY DEF TypeOK
<1> QED BY <1>1 DEF Shown

LEMMA TypeConversationPage ==
  ASSUME TypeInv, ConversationPage
  PROVE  TypeInv'
<1>0. TypeOK /\ Clock /\ Kinds BY DEF TypeInv
<1>1. PICK S \in SUBSET Rest :
        /\ Shown(S)
        /\ \/ \E last \in S : /\ at' = Cut(updated[last]) /\ id' = last
                              /\ lasts' = lasts \cup {<<last, updated[last]>>}
                              /\ UNCHANGED walk
           \/ walk' = "ended" /\ UNCHANGED <<at, id, lasts>>
  BY DEF ConversationPage, Rest
<1>2. listed' \in [Conv \cup Msg -> Nat] BY <1>0, <1>1, ShownTyped
<1>3. /\ at' \in Nat /\ id' \in Nat /\ walk' \in {"idle", "asking", "ended"}
      /\ lasts' \in SUBSET ((Conv \cup Msg) \X Nat)
  <2>1. ASSUME NEW last \in S, at' = Cut(updated[last]), id' = last,
               lasts' = lasts \cup {<<last, updated[last]>>}, UNCHANGED walk
        PROVE  /\ at' \in Nat /\ id' \in Nat /\ walk' \in {"idle", "asking", "ended"}
               /\ lasts' \in SUBSET ((Conv \cup Msg) \X Nat)
    <3>1. last \in Conv /\ last \in Nat BY ConvAssumption DEF Rest
    <3>2. updated[last] \in Nat BY <1>0, <3>1 DEF TypeOK
    <3>3. <<last, updated[last]>> \in (Conv \cup Msg) \X Nat BY <3>1, <3>2
    <3> QED BY <1>0, <2>1, <3>1, <3>2, <3>3, CutBounds DEF TypeOK
  <2> QED BY <1>0, <1>1, <2>1 DEF TypeOK
<1>4. UNCHANGED <<now, updated, unread, stamp, list, filter, offset, begun, touched>>
      /\ list = "conversations"
  BY DEF ConversationPage, conversations
<1>5. TypeOK' BY <1>0, <1>2, <1>3, <1>4 DEF TypeOK
<1>6. Clock' BY <1>0, <1>4 DEF Clock
<1>7. Kinds' BY <1>0, <1>4 DEF Kinds
<1> QED BY <1>5, <1>6, <1>7 DEF TypeInv

LEMMA TypeMessagePage ==
  ASSUME TypeInv, MessagePage
  PROVE  TypeInv'
<1>0. TypeOK /\ Clock /\ Kinds BY DEF TypeInv
<1>1. PICK S \in SUBSET Stored :
        /\ Shown(S)
        /\ offset' = offset + Cardinality(S)
        /\ \/ \E last \in S : lasts' = lasts \cup {<<last, stamp[last]>>} /\ UNCHANGED walk
           \/ walk' = "ended" /\ UNCHANGED lasts
  BY DEF MessagePage
<1>2. listed' \in [Conv \cup Msg -> Nat] BY <1>0, <1>1, ShownTyped
<1>3. offset' \in Nat BY <1>0, <1>1, Counted DEF TypeOK, Stored
<1>4. UNCHANGED <<now, updated, unread, stamp, list, filter, at, id, begun, touched>>
      /\ list = "messages"
  BY DEF MessagePage, conversations
<1>5. /\ walk' \in {"idle", "asking", "ended"}
      /\ lasts' \in SUBSET ((Conv \cup Msg) \X Nat)
      /\ \A l \in lasts' : l[1] \in Stored /\ l[2] = stamp[l[1]]
  <2>1. ASSUME NEW last \in S, lasts' = lasts \cup {<<last, stamp[last]>>}, UNCHANGED walk
        PROVE  /\ walk' \in {"idle", "asking", "ended"}
               /\ lasts' \in SUBSET ((Conv \cup Msg) \X Nat)
               /\ \A l \in lasts' : l[1] \in Stored /\ l[2] = stamp[l[1]]
    <3>1. last \in Msg /\ last \in Stored /\ stamp[last] \in Nat
      BY <1>0 DEF TypeOK, Stored
    <3>2. <<last, stamp[last]>> \in (Conv \cup Msg) \X Nat BY <3>1
    <3> QED BY <1>0, <1>4, <2>1, <3>1, <3>2 DEF TypeOK, Kinds
  <2> QED BY <1>0, <1>1, <1>4, <2>1 DEF TypeOK, Kinds
<1>6. TypeOK' BY <1>0, <1>2, <1>3, <1>4, <1>5 DEF TypeOK
<1>7. Clock' BY <1>0, <1>4 DEF Clock
<1>8. Kinds' BY <1>0, <1>4, <1>5 DEF Kinds, Stored
<1> QED BY <1>6, <1>7, <1>8 DEF TypeInv

LEMMA TypeStep == TypeInv /\ [Next]_vars => TypeInv'
<1> SUFFICES ASSUME TypeInv, [Next]_vars PROVE TypeInv' OBVIOUS
<1>1. CASE UNCHANGED vars
  BY <1>1 DEF vars, conversations, cursor, history, TypeInv, TypeOK, Clock, Kinds, Stored
<1>2. CASE Next
  BY <1>2, TypeWrite, TypeStore, TypeTick, TypeOpen, TypeConversationPage,
     TypeMessagePage DEF Next, Page
<1> QED BY <1>1, <1>2

(* The variables have their types.                                           *)
THEOREM TypeCorrect == Spec => []TypeOK
<1>1. TypeInv => TypeOK BY DEF TypeInv
<1> QED BY <1>1, TypeInit, TypeStep, PTL DEF Spec

-----------------------------------------------------------------------------
(* Conversations *)

(* An untouched conversation that was shown is not behind the cursor.        *)
Behind ==
  list = "conversations" =>
    \A c \in Conv \ touched :
      /\ listed[c] <= 1
      /\ walk = "asking" /\ listed[c] > 0 => ~ After(c)

(* It was the last row of a page's second, at which the cursor points, that  *)
(* made the walk pass c.                                                     *)
Passed(c) ==
  \E l \in lasts : /\ Cut(l[2]) <= updated[c]
                   /\ updated[c] < l[2] \/ (updated[c] = l[2] /\ c < l[1])

(* An untouched conversation of the list was shown, is still to come, or was *)
(* passed.                                                                   *)
Ahead ==
  list = "conversations" =>
    \A c \in begun \ touched :
      /\ Matches(c, filter)
      /\ listed[c] > 0 \/ (walk = "asking" /\ After(c)) \/ Passed(c)

(* Before the first walk there is nothing to tell.                           *)
NoWalk == walk = "idle" => begun = {} /\ \A x \in Conv \cup Msg : listed[x] = 0

WalkInv == TypeInv /\ NoWalk /\ Behind /\ Ahead

LEMMA WalkInit == Init => WalkInv
<1> SUFFICES ASSUME Init PROVE WalkInv OBVIOUS
<1>1. TypeInv BY TypeInit
<1>2. Behind BY DEF Init, Behind
<1>3. Ahead BY DEF Init, Ahead
<1>4. NoWalk BY DEF Init, NoWalk
<1> QED BY <1>1, <1>2, <1>3, <1>4 DEF WalkInv

LEMMA IdleStep ==
  ASSUME WalkInv, [Next]_vars
  PROVE  NoWalk'
<1>0. TypeOK /\ NoWalk BY DEF WalkInv, TypeInv
<1>1. CASE walk' # "idle" BY <1>1 DEF NoWalk
<1>2. CASE walk' = "idle"
  <2>1. walk = "idle" /\ UNCHANGED <<begun, listed>>
    BY <1>2 DEF Next, vars, Write, Store, Tick, OpenConversations, OpenMessages, Page,
                ConversationPage, MessagePage, history, cursor
  <2> QED BY <1>0, <2>1 DEF NoWalk
<1> QED BY <1>1, <1>2

(* Steps that leave the list and its walk alone.                             *)
LEMMA WalkWrite ==
  ASSUME WalkInv, NEW c \in Conv, Write(c)
  PROVE  Behind' /\ Ahead'
<1>0. TypeOK /\ NoWalk /\ Behind /\ Ahead BY DEF WalkInv, TypeInv
<1>1. UNCHANGED <<list, filter, at, id, walk, listed, begun, lasts>>
  BY DEF Write, cursor
<1>2. \A d \in Conv : d # c => updated'[d] = updated[d] /\ (d \in unread' <=> d \in unread)
  BY <1>0 DEF Write, TypeOK
<1>3. CASE walk = "idle"
  BY <1>0, <1>1, <1>3 DEF NoWalk, Behind, Ahead
<1>4. CASE walk # "idle"
  <2>1. touched' = touched \cup {c} BY <1>4 DEF Write
  <2>2. \A d \in Conv \ touched' : After(d)' <=> After(d)
    BY <1>1, <1>2, <2>1 DEF After
  <2>3. Behind' BY <1>0, <1>1, <2>1, <2>2 DEF Behind
  <2>4. ASSUME list = "conversations", NEW d \in begun \ touched'
        PROVE  /\ Matches(d, filter)'
               /\ listed'[d] > 0 \/ (walk' = "asking" /\ After(d)') \/ Passed(d)'
    <3>1. d \in Conv /\ d # c /\ d \in begun \ touched
      BY <2>1, <2>4 DEF WalkInv, TypeInv, Kinds
    <3>2. Matches(d, filter)' BY <1>0, <1>1, <1>2, <2>4, <3>1 DEF Ahead, Matches
    <3>3. Passed(d) => Passed(d)' BY <1>1, <1>2, <3>1 DEF Passed, Cut
    <3> QED BY <1>0, <1>1, <2>1, <2>2, <2>4, <3>1, <3>2, <3>3 DEF Ahead
  <2>5. Ahead' BY <1>1, <2>4 DEF Ahead
  <2> QED BY <2>3, <2>5
<1> QED BY <1>3, <1>4

LEMMA WalkElse ==
  ASSUME WalkInv,
         UNCHANGED <<updated, unread, list, filter, at, id, walk, listed, begun,
                     touched, lasts>>
  PROVE  Behind' /\ Ahead'
<1>0. Behind /\ Ahead BY DEF WalkInv
<1>1. Behind' BY <1>0 DEF Behind, After
<1>2. Ahead' BY <1>0 DEF Ahead, After, Passed, Matches, Cut
<1> QED BY <1>1, <1>2

LEMMA WalkOpen ==
  ASSUME WalkInv, NEW f \in Filters, OpenConversations(f)
  PROVE  Behind' /\ Ahead'
<1>1. /\ walk' = "asking" /\ at' = 0 /\ filter' = f
      /\ listed' = [x \in Conv \cup Msg |-> 0]
      /\ begun' = {c \in Conv : Matches(c, f)}
      /\ UNCHANGED <<updated, unread>>
  BY DEF OpenConversations, conversations
<1>2. Behind' BY <1>1 DEF Behind
<1>3. \A c \in Conv : After(c)' BY <1>1 DEF After
<1>4. Ahead' BY <1>1, <1>3 DEF Ahead, Matches
<1> QED BY <1>2, <1>4

(* A page that is not the last moves the cursor down to the second of its    *)
(* last row; what it shows is not behind the new cursor, and what was not    *)
(* behind the old one is not behind the new one.                             *)
LEMMA CursorMoves ==
  ASSUME WalkInv, NEW last \in Rest, NEW c \in Conv,
         at' = Cut(updated[last]), id' = last, UNCHANGED updated
  PROVE  /\ c = last \/ Before(c, last) => ~ After(c)'
         /\ ~ After(c) => ~ After(c)'
         /\ Before(last, c) =>
              \/ After(c)'
              \/ /\ Cut(updated[last]) <= updated[c]
                 /\ updated[c] < updated[last] \/ (updated[c] = updated[last] /\ c < last)
<1>0. TypeOK /\ Clock BY DEF WalkInv, TypeInv
<1>1. /\ last \in Conv /\ last \in Nat /\ c \in Nat /\ updated[last] \in Nat
      /\ updated[c] \in Nat /\ at \in Nat /\ id \in Nat
  BY <1>0, ConvAssumption DEF Rest, TypeOK
<1>2. updated[last] # 0 /\ After(last) BY DEF Rest, Matches
<1>3. updated[last] >= Moments BY <1>0, <1>1, <1>2 DEF Clock
<1>4. /\ Cut(updated[last]) \in Nat /\ Cut(updated[last]) <= updated[last]
      /\ Cut(updated[last]) > 0
  BY <1>1, <1>3, CutBounds
<1> DEFINE second == Cut(updated[last])
<1>5. second \in Nat /\ second <= updated[last] /\ second > 0 BY <1>4
<1>7. After(c)' <=> updated[c] < second \/ (updated[c] = second /\ c < last)
  BY <1>5 DEF After
<1> HIDE DEF second
<1>8. c = last \/ Before(c, last) => ~ After(c)'
  BY <1>1, <1>5, <1>7 DEF Before
<1>9. ~ After(c) => ~ After(c)'
  <2>1. ~ After(c) => /\ at # 0 /\ updated[c] >= at
                      /\ updated[c] = at => c >= id
    BY <1>1 DEF After
  <2>2. at # 0 => updated[last] < at \/ (updated[last] = at /\ last < id)
    BY <1>2 DEF After
  <2> QED BY <1>1, <1>5, <1>7, <2>1, <2>2
<1>10. Before(last, c) =>
         \/ After(c)'
         \/ /\ second <= updated[c]
            /\ updated[c] < updated[last] \/ (updated[c] = updated[last] /\ c < last)
  BY <1>1, <1>5, <1>7 DEF Before
<1> QED BY <1>8, <1>9, <1>10 DEF second

LEMMA WalkConversationPage ==
  ASSUME WalkInv, ConversationPage
  PROVE  Behind' /\ Ahead'
<1>0. TypeOK /\ Behind /\ Ahead BY DEF WalkInv, TypeInv
<1>1. /\ walk = "asking" /\ list = "conversations"
      /\ UNCHANGED <<updated, unread, list, filter, begun, touched>>
  BY DEF ConversationPage, conversations
<1>2. PICK S \in SUBSET Rest :
        /\ Limited(S, Rest) /\ \A c \in S, d \in Rest \ S : Before(c, d)
        /\ Shown(S)
        /\ IF HasMore(Cardinality(S))
             THEN \E last \in S :
                    /\ \A c \in S : c = last \/ Before(c, last)
                    /\ at' = Cut(updated[last]) /\ id' = last
                    /\ lasts' = lasts \cup {<<last, updated[last]>>}
                    /\ UNCHANGED walk
             ELSE walk' = "ended" /\ UNCHANGED <<at, id, lasts>>
  BY DEF ConversationPage
<1>3. S \subseteq Conv BY DEF Rest
<1>4. \A c \in Conv : /\ listed[c] \in Nat
                      /\ listed'[c] = IF c \in S THEN listed[c] + 1 ELSE listed[c]
  BY <1>0, <1>2 DEF Shown, TypeOK
(* What the page shows was not shown before. *)
<1>5. \A c \in Conv \ touched : c \in S => listed[c] = 0
  BY <1>0, <1>1, <1>2, <1>4 DEF Behind, Rest
<1>6. \A c \in Conv \ touched : listed'[c] <= 1 BY <1>0, <1>1, <1>4, <1>5 DEF Behind
<1>7. CASE ~ HasMore(Cardinality(S))
  <2>1. walk' = "ended" /\ UNCHANGED <<at, id, lasts>> BY <1>2, <1>7
  <2>2. S = Rest
    <3>1. Cardinality(S) # Limit
      BY <1>3, <1>7, Counted, LimitAssumption DEF HasMore
    <3> QED BY <1>2, <3>1 DEF Limited
  <2>3. Behind' BY <1>1, <1>6, <2>1 DEF Behind
  <2>4. ASSUME NEW c \in begun \ touched
        PROVE  Matches(c, filter)' /\ (listed'[c] > 0 \/ Passed(c)')
    <3>1. c \in Conv BY <1>1 DEF WalkInv, TypeInv, Kinds
    <3>2. Matches(c, filter) /\ (listed[c] > 0 \/ After(c) \/ Passed(c))
      BY <1>0, <1>1 DEF Ahead
    <3>3. Matches(c, filter)' BY <1>1, <3>2 DEF Matches
    <3>4. Passed(c) => Passed(c)' BY <1>1, <2>1 DEF Passed, Cut
    <3>5. After(c) => listed'[c] > 0 BY <1>4, <2>2, <3>1, <3>2 DEF Rest
    <3>6. listed[c] > 0 => listed'[c] > 0 BY <1>4, <3>1
    <3> QED BY <3>2, <3>3, <3>4, <3>5, <3>6
  <2>5. Ahead' BY <1>1, <2>4 DEF Ahead
  <2> QED BY <2>3, <2>5
<1>8. CASE HasMore(Cardinality(S))
  <2>1. PICK last \in S :
          /\ \A c \in S : c = last \/ Before(c, last)
          /\ at' = Cut(updated[last]) /\ id' = last
          /\ lasts' = lasts \cup {<<last, updated[last]>>}
          /\ UNCHANGED walk
    BY <1>2, <1>8
  <2>2. \A c \in Conv :
          /\ c \in S => ~ After(c)'
          /\ ~ After(c) => ~ After(c)'
          /\ Before(last, c) =>
               \/ After(c)'
               \/ /\ Cut(updated[last]) <= updated[c]
                  /\ updated[c] < updated[last] \/ (updated[c] = updated[last] /\ c < last)
    BY <1>1, <1>2, <2>1, CursorMoves
  <2>3. Behind' BY <1>0, <1>1, <1>4, <1>6, <2>1, <2>2 DEF Behind
  <2>4. ASSUME NEW c \in begun \ touched
        PROVE  Matches(c, filter)' /\ (listed'[c] > 0 \/ After(c)' \/ Passed(c)')
    <3>1. c \in Conv BY <1>1 DEF WalkInv, TypeInv, Kinds
    <3>2. Matches(c, filter) /\ (listed[c] > 0 \/ After(c) \/ Passed(c))
      BY <1>0, <1>1 DEF Ahead
    <3>3. Matches(c, filter)' BY <1>1, <3>2 DEF Matches
    <3>4. Passed(c) => Passed(c)' BY <1>1, <2>1 DEF Passed, Cut
    <3>5. listed[c] > 0 \/ c \in S => listed'[c] > 0 BY <1>4, <3>1
    <3>6. ASSUME After(c), c \notin S PROVE After(c)' \/ Passed(c)'
      <4>1. Before(last, c) BY <1>2, <2>1, <3>1, <3>2, <3>6 DEF Rest
      <4>2. <<last, updated[last]>> \in lasts' BY <2>1
      <4>3. \/ After(c)'
            \/ /\ Cut(updated[last]) <= updated[c]
               /\ updated[c] < updated[last] \/ (updated[c] = updated[last] /\ c < last)
        BY <2>2, <3>1, <4>1
      <4> QED BY <1>1, <4>2, <4>3 DEF Passed, Cut
    <3> QED BY <3>2, <3>3, <3>4, <3>5, <3>6
  <2>5. Ahead' BY <1>1, <2>1, <2>4 DEF Ahead
  <2> QED BY <2>3, <2>5
<1> QED BY <1>7, <1>8

LEMMA WalkStep == WalkInv /\ [Next]_vars => WalkInv'
<1> SUFFICES ASSUME WalkInv, [Next]_vars PROVE WalkInv' OBVIOUS
<1>1. TypeInv' BY TypeStep DEF WalkInv
<1>2. NoWalk' BY IdleStep
<1>3. ASSUME UNCHANGED vars PROVE Behind' /\ Ahead'
  BY <1>3, WalkElse DEF vars, conversations, cursor, history
<1>4. ASSUME Next PROVE Behind' /\ Ahead'
  <2>1. ASSUME NEW m \in Msg, Store(m) PROVE Behind' /\ Ahead'
    BY <2>1, WalkElse DEF Store, conversations, cursor, history
  <2>2. ASSUME Tick PROVE Behind' /\ Ahead'
    BY <2>2, WalkElse DEF Tick, conversations, cursor, history
  <2>3. ASSUME OpenMessages \/ MessagePage PROVE Behind' /\ Ahead'
    BY <2>3 DEF OpenMessages, MessagePage, Behind, Ahead
  <2> QED BY <1>4, <2>1, <2>2, <2>3, WalkWrite, WalkOpen, WalkConversationPage
          DEF Next, Page
<1> QED BY <1>1, <1>2, <1>3, <1>4 DEF WalkInv

(* However others write between the pages, a conversation that nobody wrote  *)
(* is shown at most once.                                                    *)
THEOREM NoneTwice == Spec => []ListedOnce
<1>1. WalkInv => ListedOnce BY DEF WalkInv, Behind, ListedOnce
<1> QED BY <1>1, WalkInit, WalkStep, PTL DEF Spec

(* ... and is left out of a finished walk only if it shares the second of a  *)
(* page's last row.                                                          *)
THEOREM SkipsAccounted == Spec => []SkippedShareASecond
<1>1. WalkInv => SkippedShareASecond
  BY DEF WalkInv, Ahead, Passed, SkippedShareASecond
<1> QED BY <1>1, WalkInit, WalkStep, PTL DEF Spec

-----------------------------------------------------------------------------
(* Messages *)

Newer(m) == {n \in Stored : stamp[n] > stamp[m]}

(* Another message of m's second was the last row of a page.                 *)
Tied(m) == \E l \in lasts : l[1] # m /\ l[2] = stamp[m]

(* A message that is still to come has as many newer ones as the offset      *)
(* skips: messages stored meanwhile only push it further down.               *)
ToCome ==
  list = "messages" =>
    \A m \in begun :
      listed[m] > 0 \/ Tied(m) \/ (walk = "asking" /\ Cardinality(Newer(m)) >= offset)

NoTies == \A m, n \in Stored : m = n \/ stamp[m] # stamp[n]

Seen == {m \in Stored : listed[m] > 0}

Repeats ==
  list = "messages" /\ NoTies => offset <= Cardinality(Seen) + Cardinality(Stored \ begun)

MessageInv == TypeInv /\ ToCome /\ Repeats

LEMMA MessageInit == Init => MessageInv
<1> SUFFICES ASSUME Init PROVE MessageInv OBVIOUS
<1>1. TypeInv BY TypeInit
<1>2. ToCome /\ Repeats BY DEF Init, ToCome, Repeats
<1> QED BY <1>1, <1>2 DEF MessageInv

(* A larger set of rows has no fewer of them.                                *)
LEMMA Larger ==
  ASSUME NEW S, NEW T, S \subseteq T, T \subseteq Msg
  PROVE  /\ Cardinality(S) \in Nat /\ Cardinality(T) \in Nat
         /\ Cardinality(S) <= Cardinality(T)
BY Counted, FS_Subset

LEMMA MessageStore ==
  ASSUME MessageInv, NEW m \in Msg, Store(m)
  PROVE  ToCome' /\ Repeats'
<1>0. TypeOK /\ Kinds /\ ToCome /\ Repeats BY DEF MessageInv, TypeInv
<1>1. \A n \in Stored : n \in Stored' /\ stamp'[n] = stamp[n]
  BY TypeStore DEF MessageInv
<1>2. UNCHANGED <<list, offset, walk, listed, begun, lasts>>
  BY DEF Store, cursor, history
<1>3. Stored' \subseteq Msg BY DEF Stored
<1>4. ASSUME list = "messages", NEW n \in begun
      PROVE  listed[n] > 0 \/ Tied(n)' \/ (walk = "asking" /\ Cardinality(Newer(n)') >= offset)
  <2>1. n \in Stored BY <1>0, <1>4 DEF Kinds
  <2>2. Newer(n) \subseteq Newer(n)' BY <1>1, <2>1 DEF Newer
  <2>3. /\ Cardinality(Newer(n)) \in Nat /\ Cardinality(Newer(n)') \in Nat
        /\ Cardinality(Newer(n)) <= Cardinality(Newer(n)')
    <3>1. Newer(n)' \subseteq Msg BY <1>3 DEF Newer
    <3> QED BY <2>2, <3>1, Larger
  <2>4. Tied(n) => Tied(n)' BY <1>1, <1>2, <2>1 DEF Tied
  <2>5. listed[n] > 0 \/ Tied(n) \/ (walk = "asking" /\ Cardinality(Newer(n)) >= offset)
    BY <1>0, <1>4 DEF ToCome
  <2>6. offset \in Nat BY <1>0 DEF TypeOK
  <2> QED BY <2>3, <2>4, <2>5, <2>6
<1>5. ToCome' BY <1>2, <1>4 DEF ToCome
<1>6. ASSUME list = "messages", NoTies'
      PROVE  offset <= Cardinality(Seen') + Cardinality(Stored' \ begun)
  <2>1. NoTies BY <1>1, <1>6 DEF NoTies
  <2>2. offset <= Cardinality(Seen) + Cardinality(Stored \ begun)
    BY <1>0, <1>6, <2>1 DEF Repeats
  <2>3. Seen \subseteq Seen' /\ Seen' \subseteq Msg BY <1>1, <1>2, <1>3 DEF Seen
  <2>4. Stored \ begun \subseteq Stored' \ begun /\ Stored' \ begun \subseteq Msg
    BY <1>1, <1>3
  <2>5. /\ Cardinality(Seen) \in Nat /\ Cardinality(Seen') \in Nat
        /\ Cardinality(Seen) <= Cardinality(Seen')
    BY <2>3, Larger
  <2>6. /\ Cardinality(Stored \ begun) \in Nat /\ Cardinality(Stored' \ begun) \in Nat
        /\ Cardinality(Stored \ begun) <= Cardinality(Stored' \ begun)
    BY <2>4, Larger
  <2>7. offset \in Nat BY <1>0 DEF TypeOK
  <2> QED BY <2>2, <2>5, <2>6, <2>7
<1>7. Repeats' BY <1>2, <1>6 DEF Repeats
<1> QED BY <1>5, <1>7

LEMMA MessageElse ==
  ASSUME MessageInv,
         UNCHANGED <<stamp, list, offset, walk, listed, begun, lasts>>
  PROVE  ToCome' /\ Repeats'
<1>0. ToCome /\ Repeats BY DEF MessageInv
<1>1. Stored' = Stored BY DEF Stored
<1>2. ToCome' BY <1>0, <1>1 DEF ToCome, Newer, Tied
<1>3. Repeats' BY <1>0, <1>1 DEF Repeats, NoTies, Seen
<1> QED BY <1>2, <1>3

LEMMA MessageOpen ==
  ASSUME MessageInv, OpenMessages
  PROVE  ToCome' /\ Repeats'
<1>1. walk' = "asking" /\ offset' = 0 /\ UNCHANGED stamp /\ begun' = Stored
  BY DEF OpenMessages
<1>2. Stored' = Stored /\ Stored \subseteq Msg BY <1>1 DEF Stored
<1>3. \A m \in begun' : Cardinality(Newer(m)') >= offset'
  <2>1. \A m \in begun' : Newer(m)' \subseteq Msg BY <1>2 DEF Newer
  <2>2. \A m \in begun' : Cardinality(Newer(m)') \in Nat BY <2>1, Larger
  <2> QED BY <1>1, <2>2
<1>4. Cardinality(Seen') \in Nat /\ Cardinality(Stored' \ begun') \in Nat
  <2>1. Seen' \subseteq Msg /\ Stored' \ begun' \subseteq Msg BY <1>2 DEF Seen
  <2> QED BY <2>1, Larger
<1>5. ToCome' BY <1>1, <1>3 DEF ToCome
<1>6. Repeats' BY <1>1, <1>4 DEF Repeats
<1> QED BY <1>5, <1>6

(* The rows an offset skips are the newest: a message with that many newer   *)
(* ones is not among them.                                                   *)
LEMMA NotSkipped ==
  ASSUME TypeOK, NEW P \in SUBSET Stored, Skips(P),
         \A p \in P, n \in Stored \ P : NoEarlier(p, n),
         NEW m \in Stored, Cardinality(Newer(m)) >= offset
  PROVE  m \notin P
<1> SUFFICES ASSUME m \in P PROVE FALSE OBVIOUS
<1>1. Stored \subseteq Msg /\ \A n \in Stored : stamp[n] \in Nat BY DEF Stored, TypeOK
<1>2. Newer(m) \subseteq P
  BY <1>1 DEF Newer, NoEarlier
<1>3. m \notin Newer(m) BY <1>1 DEF Newer
<1>4. IsFiniteSet(Newer(m)) /\ Cardinality(Newer(m)) \in Nat
  <2>1. Newer(m) \subseteq Msg BY <1>1 DEF Newer
  <2> QED BY <2>1, Counted
<1>5. Cardinality(Newer(m) \cup {m}) = Cardinality(Newer(m)) + 1
  BY <1>3, <1>4, FS_AddElement
<1>6. Cardinality(Newer(m) \cup {m}) <= Cardinality(P)
  <2>1. Newer(m) \cup {m} \subseteq P /\ P \subseteq Msg BY <1>1, <1>2
  <2> QED BY <2>1, Larger
<1>7. Cardinality(P) = offset /\ offset \in Nat BY DEF Skips, TypeOK
<1> QED BY <1>4, <1>5, <1>6, <1>7

(* A page of messages: what is still to come was shown, is now, or stays to  *)
(* come.                                                                     *)
LEMMA MessagePageToCome ==
  ASSUME MessageInv, MessagePage
  PROVE  ToCome'
<1>0. TypeOK /\ Kinds /\ ToCome BY DEF MessageInv, TypeInv
<1>1. /\ walk = "asking" /\ list = "messages"
      /\ UNCHANGED <<stamp, list, begun>>
  BY DEF MessagePage
<1>2. PICK S \in SUBSET Stored :
        /\ Window(S)
        /\ Shown(S)
        /\ offset' = offset + Cardinality(S)
        /\ IF HasMore(Cardinality(S))
             THEN \E last \in S :
                    /\ \A m \in S : NoEarlier(m, last)
                    /\ lasts' = lasts \cup {<<last, stamp[last]>>}
                    /\ UNCHANGED walk
             ELSE walk' = "ended" /\ UNCHANGED lasts
  BY DEF MessagePage
<1>3. Stored \subseteq Msg /\ \A m \in Stored : stamp[m] \in Nat
  BY <1>0 DEF Stored, TypeOK
<1>4. \A m \in Msg : /\ listed[m] \in Nat
                     /\ listed'[m] = IF m \in S THEN listed[m] + 1 ELSE listed[m]
  BY <1>0, <1>2 DEF Shown, TypeOK
<1>5. ASSUME NEW m \in begun
      PROVE  \/ listed'[m] > 0 \/ Tied(m)'
             \/ walk' = "asking" /\ Cardinality(Newer(m)') >= offset'
  <2>1. m \in Stored /\ m \in Msg BY <1>0, <1>1, <1>3 DEF Kinds
  <2>2. lasts \subseteq lasts' BY <1>2
  <2>3. Tied(m) => Tied(m)' BY <1>1, <2>2 DEF Tied
  <2>4. listed[m] > 0 \/ m \in S => listed'[m] > 0 BY <1>4, <2>1
  <2>5. ASSUME Cardinality(Newer(m)) >= offset, m \notin S
        PROVE  Tied(m)' \/ (walk' = "asking" /\ Cardinality(Newer(m)') >= offset')
    <3>1. Cardinality(Newer(m)) <= Cardinality(Stored)
          /\ Cardinality(Newer(m)) \in Nat /\ Cardinality(Stored) \in Nat
      <4>1. Newer(m) \subseteq Stored BY DEF Newer
      <4> QED BY <1>3, <4>1, Larger
    <3>2. offset \in Nat BY <1>0 DEF TypeOK
    <3>3. ~ (Cardinality(Stored) < offset) BY <2>5, <3>1, <3>2
    <3>4. PICK P \in SUBSET Stored :
            /\ Skips(P)
            /\ \A p \in P, n \in Stored \ P : NoEarlier(p, n)
            /\ Limited(S, Stored \ P)
            /\ \A s \in S, n \in (Stored \ P) \ S : NoEarlier(s, n)
      BY <1>2, <3>3 DEF Window
    <3>5. m \in (Stored \ P) \ S BY <1>0, <2>1, <2>5, <3>4, NotSkipped
    <3>6. HasMore(Cardinality(S))
      <4>1. Cardinality(S) = Limit BY <3>4, <3>5 DEF Limited
      <4> QED BY <4>1, LimitAssumption DEF HasMore
    <3>7. PICK last \in S : /\ \A s \in S : NoEarlier(s, last)
                            /\ lasts' = lasts \cup {<<last, stamp[last]>>}
                            /\ UNCHANGED walk
      BY <1>2, <3>6
    <3>8. stamp[last] >= stamp[m] /\ stamp[last] \in Nat /\ stamp[m] \in Nat
          /\ last # m /\ last \in Stored \ P
      BY <1>3, <2>1, <3>4, <3>5, <3>7 DEF NoEarlier, Limited
    <3>9. CASE stamp[last] = stamp[m]
      <4>1. <<last, stamp[last]>> \in lasts' BY <3>7
      <4> QED BY <1>1, <3>8, <3>9, <4>1 DEF Tied
    <3>10. CASE stamp[last] > stamp[m]
      <4>1. P \cup S \subseteq Newer(m)
        BY <1>3, <3>4, <3>7, <3>8, <3>10 DEF Newer, NoEarlier, Limited
      <4>2. Cardinality(P \cup S) = Cardinality(P) + Cardinality(S)
        <5>1. P \cap S = {} BY <3>4 DEF Limited
        <5>2. IsFiniteSet(P) /\ IsFiniteSet(S) /\ P \subseteq Msg /\ S \subseteq Msg
          BY <1>3, Counted
        <5>3. Cardinality(P \cap S) = 0 BY <5>1, FS_EmptySet
        <5>4. Cardinality(P) \in Nat /\ Cardinality(S) \in Nat BY <5>2, Counted
        <5>5. Cardinality(P \cup S)
                = Cardinality(P) + Cardinality(S) - Cardinality(P \cap S)
          BY <5>2, FS_Union
        <5> QED BY <5>3, <5>4, <5>5
      <4>3. Cardinality(P \cup S) <= Cardinality(Newer(m))
        <5>1. Newer(m) \subseteq Msg BY <1>3 DEF Newer
        <5> QED BY <4>1, <5>1, Larger
      <4>4. offset' = Cardinality(P \cup S) BY <1>2, <3>4, <4>2 DEF Skips
      <4>5. Newer(m)' = Newer(m) BY <1>1 DEF Newer, Stored
      <4> QED BY <1>1, <3>7, <4>3, <4>4, <4>5
    <3> QED BY <3>8, <3>9, <3>10
  <2>6. listed[m] > 0 \/ Tied(m) \/ Cardinality(Newer(m)) >= offset
    BY <1>0, <1>1 DEF ToCome
  <2> QED BY <2>3, <2>4, <2>5, <2>6
<1> QED BY <1>1, <1>5 DEF ToCome

(* ... and what the page and the skipped rows hold was shown or came since.  *)
LEMMA MessagePageRepeats ==
  ASSUME MessageInv, MessagePage
  PROVE  Repeats'
<1>0. TypeOK /\ Kinds /\ ToCome /\ Repeats BY DEF MessageInv, TypeInv
<1>1. /\ walk = "asking" /\ list = "messages"
      /\ UNCHANGED <<stamp, list, begun>>
  BY DEF MessagePage
<1>2. PICK S \in SUBSET Stored :
        Window(S) /\ Shown(S) /\ offset' = offset + Cardinality(S)
  BY DEF MessagePage
<1>3. Stored \subseteq Msg /\ Stored' = Stored /\ NoTies' = NoTies
  BY <1>1 DEF Stored, NoTies
<1>4. \A m \in Msg : /\ listed[m] \in Nat
                     /\ listed'[m] = IF m \in S THEN listed[m] + 1 ELSE listed[m]
  BY <1>0, <1>2 DEF Shown, TypeOK
<1>5. ASSUME NoTies
      PROVE  offset' <= Cardinality(Seen') + Cardinality(Stored \ begun)
  <2>1. Seen \subseteq Seen' /\ Seen' \subseteq Msg BY <1>3, <1>4 DEF Seen
  <2>2. Cardinality(Seen) <= Cardinality(Seen')
        /\ Cardinality(Seen) \in Nat /\ Cardinality(Seen') \in Nat
    BY <2>1, Larger
  <2>3. Stored \ begun \subseteq Msg /\ Cardinality(Stored \ begun) \in Nat
    BY <1>3, Counted
  <2>4. offset \in Nat BY <1>0 DEF TypeOK
  <2>5. CASE S = {}
    <3>1. offset' = offset BY <1>2, <2>4, <2>5, FS_EmptySet
    <3>2. offset <= Cardinality(Seen) + Cardinality(Stored \ begun)
      BY <1>0, <1>1, <1>5 DEF Repeats
    <3> QED BY <2>2, <2>3, <2>4, <3>1, <3>2
  <2>6. CASE S # {}
    <3>1. PICK P \in SUBSET Stored :
            /\ Skips(P)
            /\ \A p \in P, n \in Stored \ P : NoEarlier(p, n)
            /\ Limited(S, Stored \ P)
      BY <1>2, <2>6 DEF Window
    <3>2. ASSUME NEW p \in P \cap begun PROVE p \in Seen
      <4>1. p \in Stored BY <3>1
      <4>2. ~ Tied(p) BY <1>0, <1>1, <1>5, <4>1 DEF Tied, Kinds, NoTies
      <4>3. ~ (Cardinality(Newer(p)) >= offset)
        BY <1>0, <3>1, <3>2, <4>1, NotSkipped
      <4>4. listed[p] > 0 BY <1>0, <1>1, <3>2, <4>2, <4>3 DEF ToCome
      <4> QED BY <4>1, <4>4 DEF Seen
    <3>3. S \subseteq Seen' BY <1>3, <1>4 DEF Seen
    <3>4. P \cup S \subseteq Seen' \cup (Stored \ begun) BY <2>1, <3>1, <3>2, <3>3
    <3>5. IsFiniteSet(P) /\ IsFiniteSet(S) /\ Cardinality(P) \in Nat /\ Cardinality(S) \in Nat
      <4>1. P \subseteq Msg /\ S \subseteq Msg BY <1>3
      <4> QED BY <4>1, Counted
    <3>6. Cardinality(P \cup S) = offset'
      <4>1. P \cap S = {} BY <3>1 DEF Limited
      <4>2. Cardinality(P \cap S) = 0 BY <4>1, FS_EmptySet
      <4>3. Cardinality(P \cup S) = Cardinality(P) + Cardinality(S) - Cardinality(P \cap S)
        BY <3>5, FS_Union
      <4>4. Cardinality(P) = offset BY <3>1 DEF Skips
      <4> QED BY <1>2, <2>4, <3>5, <4>2, <4>3, <4>4
    <3>7. Cardinality(P \cup S) <= Cardinality(Seen' \cup (Stored \ begun))
      <4>1. Seen' \cup (Stored \ begun) \subseteq Msg BY <2>1, <2>3
      <4> QED BY <3>4, <4>1, Larger
    <3>8. Cardinality(Seen' \cup (Stored \ begun))
            <= Cardinality(Seen') + Cardinality(Stored \ begun)
      <4>1. IsFiniteSet(Seen') /\ IsFiniteSet(Stored \ begun) BY <2>1, <2>3, Counted
      <4>2. Cardinality(Seen' \cup (Stored \ begun))
              = Cardinality(Seen') + Cardinality(Stored \ begun)
                  - Cardinality(Seen' \cap (Stored \ begun))
        BY <4>1, FS_Union
      <4>3. Cardinality(Seen' \cap (Stored \ begun)) \in Nat
        <5>1. Seen' \cap (Stored \ begun) \subseteq Msg BY <2>1
        <5> QED BY <5>1, Counted
      <4> QED BY <2>2, <2>3, <4>2, <4>3
    <3>9. Cardinality(Seen' \cup (Stored \ begun)) \in Nat
      <4>1. Seen' \cup (Stored \ begun) \subseteq Msg BY <2>1, <2>3
      <4> QED BY <4>1, Counted
    <3>10. offset' \in Nat BY <1>2, <2>4, <3>5
    <3> QED BY <2>2, <2>3, <3>6, <3>7, <3>8, <3>9, <3>10
  <2> QED BY <2>5, <2>6
<1> QED BY <1>1, <1>3, <1>5 DEF Repeats

LEMMA MessageStep == MessageInv /\ [Next]_vars => MessageInv'
<1> SUFFICES ASSUME MessageInv, [Next]_vars PROVE MessageInv' OBVIOUS
<1>1. TypeInv' BY TypeStep DEF MessageInv
<1>2. ASSUME UNCHANGED vars PROVE ToCome' /\ Repeats'
  BY <1>2, MessageElse DEF vars, cursor, history
<1>3. ASSUME Next PROVE ToCome' /\ Repeats'
  <2>1. ASSUME NEW c \in Conv, Write(c) PROVE ToCome' /\ Repeats'
    BY <2>1, MessageElse DEF Write, cursor
  <2>2. ASSUME Tick PROVE ToCome' /\ Repeats'
    BY <2>2, MessageElse DEF Tick, cursor, history
  <2>3. ASSUME \/ \E f \in Filters : OpenConversations(f)
               \/ ConversationPage
        PROVE  ToCome' /\ Repeats'
    BY <2>3 DEF OpenConversations, ConversationPage, ToCome, Repeats
  <2>4. ASSUME MessagePage PROVE ToCome' /\ Repeats'
    BY <2>4, MessagePageToCome, MessagePageRepeats
  <2> QED BY <1>3, <2>1, <2>2, <2>3, <2>4, MessageStore, MessageOpen DEF Next, Page
<1> QED BY <1>1, <1>2, <1>3 DEF MessageInv

(* However many messages are stored meanwhile, a finished walk has shown     *)
(* every message that was there from the beginning, unless one of its second *)
(* ended a page.                                                             *)
THEOREM MessagesFound == Spec => []MessagesReached
<1>1. MessageInv => MessagesReached
  BY DEF MessageInv, ToCome, Tied, MessagesReached
<1> QED BY <1>1, MessageInit, MessageStep, PTL DEF Spec

(* Messages are shown again no more often than new ones came in.             *)
THEOREM RepeatsBounded == Spec => []RepeatsAreArrivals
<1>1. MessageInv => RepeatsAreArrivals
  BY DEF MessageInv, Repeats, NoTies, Seen, RepeatsAreArrivals
<1> QED BY <1>1, MessageInit, MessageStep, PTL DEF Spec
-----------------------------------------------------------------------------
(* Whom a conversation belongs to: the inductive invariant                   *)

(* The companies that may be told of k's conversation.                       *)
May(k) == owners[k] \cup (IF faults > 0 THEN {Default} ELSE {})

(* Why a conversation of k may be without a number.                          *)
Excused(k) == k \in early \/ faults > 0

(* A number that k wrote to and that is synchronised, or none with a reason. *)
Answerable(k, n) == IF n = None THEN Excused(k) ELSE n \in wrote[k] \cap known

(* Numbers not synchronised have no company; whoever wrote to a number       *)
(* belongs to the company it resolves to.                                    *)
NumbersOK == /\ \A n \in Number \ known : company[n] = None
             /\ \A k \in Customer : \A n \in wrote[k] : ResolveCompanyID(n) \in owners[k]

RowOK(k) == conv[k] # None => /\ conv[k].company \in May(k)
                              /\ Answerable(k, conv[k].number)

HookOK(h) ==
  LET x == hook[h] IN
  /\ x.at # "idle" => x.from \in Customer
  /\ x.at \in {"resolve", "number"} => x.to \in wrote[x.from]
                                       /\ (x.to \in known \/ x.from \in early)
  /\ x.at \in {"number", "find", "create", "tell"} => x.company \in May(x.from)
  /\ x.at \in {"find", "create"} => Answerable(x.from, x.number)

JobOK(w) ==
  LET x == job[w] IN
  /\ x.at # "idle" => /\ x.for \in Customer /\ conv[x.for] # None
                      /\ x.company \in owners[x.for] \cup {None}
  /\ x.at \in {"charge", "send", "refund"} => x.number \in Number

RepliesOK == \A k \in Customer : k \in queued \/ via[k] # {} => conv[k] # None

RoutingInv ==
  /\ RoutingTypeOK /\ NumbersOK /\ RepliesOK
  /\ \A k \in Customer : RowOK(k)
  /\ \A h \in Hook : HookOK(h)
  /\ \A w \in Worker : JobOK(w)
  /\ OwnersAreTold /\ ChargesAreSettled

(* What a step leaves or adds to.                                            *)
Grows ==
  /\ known \subseteq known' /\ early \subseteq early'
  /\ faults' \in 0 .. MaxFaults /\ faults <= faults'
  /\ \A k \in Customer : /\ wrote[k] \subseteq wrote'[k] /\ wrote'[k] \subseteq Number
                         /\ owners[k] \subseteq owners'[k] /\ owners'[k] \subseteq Company
                         /\ conv[k] # None => conv'[k] = conv[k]

LEMMA RoutingInitial == RoutingInit => RoutingInv
<1> SUFFICES ASSUME RoutingInit PROVE RoutingInv OBVIOUS
<1>1. Idle \in Delivery /\ AtRest \in Job BY DEF Idle, Delivery, AtRest, Job
<1>2. RoutingTypeOK
  BY <1>1, RoutingAssumption DEF RoutingInit, RoutingTypeOK
<1>3. NumbersOK /\ RepliesOK BY DEF RoutingInit, NumbersOK, RepliesOK
<1>4. \A k \in Customer : RowOK(k) BY DEF RoutingInit, RowOK
<1>5. \A h \in Hook : HookOK(h) BY DEF RoutingInit, HookOK, Idle
<1>6. \A w \in Worker : JobOK(w) BY DEF RoutingInit, JobOK, AtRest
<1>7. OwnersAreTold BY DEF RoutingInit, OwnersAreTold
<1>8. ChargesAreSettled
  <2> SUFFICES ASSUME NEW c \in Company PROVE used[c] = paid[c] + Cardinality(Charged(c))
    BY DEF ChargesAreSettled
  <2>1. Charged(c) = {} BY DEF RoutingInit, Charged, AtRest
  <2>2. Cardinality(Charged(c)) = 0 BY <2>1, FS_EmptySet
  <2> QED BY <2>2 DEF RoutingInit
<1> QED BY <1>2, <1>3, <1>4, <1>5, <1>6, <1>7, <1>8 DEF RoutingInv

-----------------------------------------------------------------------------
(* Types, one column at a time *)

LEMMA HookTyped ==
  ASSUME RoutingTypeOK, RoutingNext
  PROVE  hook' \in [Hook -> Delivery]
<1>1. hook \in [Hook -> Delivery] /\ conv \in [Customer -> {None} \cup Row]
  BY DEF RoutingTypeOK
<1>2. Idle \in Delivery BY DEF Idle, Delivery
<1>3. CASE hook' = hook BY <1>1, <1>3
<1>4. ASSUME NEW h \in Hook, HookStep(h) PROVE hook' \in [Hook -> Delivery]
  <2>1. hook[h] \in Delivery BY <1>1
  <2>2. ASSUME NEW x \in Delivery, hook' = [hook EXCEPT ![h] = x]
        PROVE  hook' \in [Hook -> Delivery]
    BY <1>1, <2>2
  <2>3. ASSUME NEW k \in Customer, NEW n \in Number, Receive(h, k, n)
        PROVE  hook' \in [Hook -> Delivery]
    <3>1. [Idle EXCEPT !.at = "resolve", !.from = k, !.to = n] \in Delivery
      BY <1>2 DEF Delivery
    <3> QED BY <2>2, <2>3, <3>1 DEF Receive
  <2>4. CASE Resolve(h)
    <3>1. PICK c \in Company : hook' = [hook EXCEPT ![h].at = "number", ![h].company = c]
      BY <2>4 DEF Resolve
    <3>2. [hook[h] EXCEPT !.at = "number", !.company = c] \in Delivery
      BY <2>1 DEF Delivery
    <3> QED BY <1>1, <2>2, <3>1, <3>2
  <2>5. CASE FindNumber(h)
    <3>1. PICK n \in Number \cup {None} :
            hook' = [hook EXCEPT ![h].at = "find", ![h].to = None, ![h].number = n]
      BY <2>5 DEF FindNumber
    <3>2. [hook[h] EXCEPT !.at = "find", !.to = None, !.number = n] \in Delivery
      BY <2>1, <3>1 DEF Delivery
    <3> QED BY <1>1, <2>2, <3>1, <3>2
  <2>6. CASE FindConversation(h)
    <3>1. PICK next \in {"tell", "create"} :
            hook' = [hook EXCEPT ![h].at = next,
                                 ![h].number = IF next = "tell" THEN None ELSE @]
      BY <2>6 DEF FindConversation
    <3>2. [hook[h] EXCEPT !.at = next, !.number = IF next = "tell" THEN None ELSE @]
            \in Delivery
      BY <2>1, <3>1 DEF Delivery
    <3> QED BY <1>1, <2>2, <3>1, <3>2
  <2>7. CASE CreateConversation(h)
    <3>1. CASE hook' = [hook EXCEPT ![h] = Idle] BY <1>2, <2>2, <3>1
    <3>2. CASE hook' = [hook EXCEPT ![h].at = "tell", ![h].number = None]
      <4>1. [hook[h] EXCEPT !.at = "tell", !.number = None] \in Delivery
        BY <2>1 DEF Delivery
      <4> QED BY <1>1, <2>2, <3>2, <4>1
    <3> QED BY <2>7, <3>1, <3>2 DEF CreateConversation
  <2>8. CASE Show(h) BY <1>2, <2>2, <2>8 DEF Show
  <2> QED BY <1>4, <2>3, <2>4, <2>5, <2>6, <2>7, <2>8 DEF HookStep
<1>5. ASSUME NEW w \in Worker, WorkerStep(w) PROVE hook' = hook
  BY <1>5 DEF WorkerStep, LookUp, Charge, Send, Refund, ShowSent
<1>6. ASSUME NEW k \in Customer, SendMessage(k) \/ SendTyping(k) \/ ProcessStatus(k)
      PROVE  hook' = hook
  BY <1>6 DEF SendMessage, SendTyping, ProcessStatus
<1>7. ASSUME NEW n \in Number, NEW c, Upsert(n, c) \/ AssignCompany(n, c)
      PROVE  hook' = hook
  BY <1>7 DEF Upsert, AssignCompany
<1> QED BY <1>3, <1>4, <1>5, <1>6, <1>7 DEF RoutingNext
(* Only workers touch their jobs and the charges.                            *)
LEMMA OthersLeaveJobs ==
  ASSUME RoutingNext, ~ \E w \in Worker : WorkerStep(w)
  PROVE  UNCHANGED <<job, via, paid, used>>
<1>1. ASSUME NEW h \in Hook, HookStep(h) PROVE UNCHANGED <<job, via, paid, used>>
  <2>1. ASSUME NEW k \in Customer, NEW n \in Number, Receive(h, k, n) PROVE UNCHANGED <<job, via, paid, used>>
    BY <2>1 DEF Receive
  <2>2. CASE Resolve(h) BY <2>2 DEF Resolve
  <2>3. CASE FindNumber(h) BY <2>3 DEF FindNumber
  <2>4. CASE FindConversation(h) BY <2>4 DEF FindConversation
  <2>5. CASE CreateConversation(h) BY <2>5 DEF CreateConversation
  <2>6. CASE Show(h) BY <2>6 DEF Show
  <2> QED BY <1>1, <2>1, <2>2, <2>3, <2>4, <2>5, <2>6 DEF HookStep
<1>2. ASSUME NEW k \in Customer, SendMessage(k) \/ SendTyping(k) \/ ProcessStatus(k)
      PROVE  UNCHANGED <<job, via, paid, used>>
  BY <1>2 DEF SendMessage, SendTyping, ProcessStatus
<1>3. ASSUME NEW n \in Number, NEW c, Upsert(n, c) \/ AssignCompany(n, c)
      PROVE  UNCHANGED <<job, via, paid, used>>
  BY <1>3 DEF Upsert, AssignCompany
<1> QED BY <1>1, <1>2, <1>3 DEF RoutingNext

LEMMA JobTyped ==
  ASSUME RoutingTypeOK, RepliesOK, RoutingNext
  PROVE  job' \in [Worker -> Job]
<1>1. /\ job \in [Worker -> Job] /\ company \in [Number -> Company \cup {None}]
      /\ conv \in [Customer -> {None} \cup Row]
  BY DEF RoutingTypeOK
<1>2. AtRest \in Job BY DEF AtRest, Job
<1>3. CASE job' = job BY <1>1, <1>3
<1>4. ASSUME NEW w \in Worker, WorkerStep(w) PROVE job' \in [Worker -> Job]
  <2>1. job[w] \in Job BY <1>1
  <2>2. ASSUME NEW x \in Job, job' = [job EXCEPT ![w] = x]
        PROVE  job' \in [Worker -> Job]
    BY <1>1, <2>2
  <2>3. \A a \in {"send", "refund"} : [job[w] EXCEPT !.at = a] \in Job
    BY <2>1 DEF Job
  <2>4. [job[w] EXCEPT !.at = "tell", !.number = None] \in Job BY <2>1 DEF Job
  <2>5. ASSUME NEW k \in Customer, LookUp(w, k) PROVE job' \in [Worker -> Job]
    <3>1. CASE job' = job BY <1>3, <3>1
    <3>2. ASSUME NEW n \in NumberOf(k),
                 job' = [job EXCEPT ![w] = [at |-> "charge", for |-> k,
                                            company |-> company[n], number |-> n]]
          PROVE  job' \in [Worker -> Job]
      <4>1. conv[k] \in Row BY <1>1, <2>5 DEF RepliesOK, LookUp
      <4>2. n \in Number BY <3>2, <4>1 DEF NumberOf, Row
      <4>3. [at |-> "charge", for |-> k, company |-> company[n], number |-> n] \in Job
        BY <1>1, <4>2 DEF Job
      <4> QED BY <2>2, <3>2, <4>3
    <3> QED BY <2>5, <3>1, <3>2 DEF LookUp
  <2>6. CASE Charge(w)
    <3>1. \/ job' = [job EXCEPT ![w].at = "send"] \/ job' = [job EXCEPT ![w] = AtRest]
      BY <2>6 DEF Charge
    <3> QED BY <1>1, <1>2, <2>2, <2>3, <3>1
  <2>7. CASE Send(w)
    <3>1. \/ job' = [job EXCEPT ![w].at = "tell", ![w].number = None]
          \/ job' = [job EXCEPT ![w].at = "refund"]
      BY <2>7 DEF Send
    <3> QED BY <1>1, <2>2, <2>3, <2>4, <3>1
  <2>8. CASE Refund(w) BY <1>2, <2>2, <2>8 DEF Refund
  <2>9. CASE ShowSent(w) BY <1>2, <2>2, <2>9 DEF ShowSent
  <2> QED BY <1>4, <2>5, <2>6, <2>7, <2>8, <2>9 DEF WorkerStep
<1> QED BY <1>3, <1>4, OthersLeaveJobs DEF RoutingNext

(* The steps of replies and receipts that leave both tables alone.           *)
ReplyStep ==
  \/ \E w \in Worker : WorkerStep(w)
  \/ \E k \in Customer : SendMessage(k) \/ SendTyping(k) \/ ProcessStatus(k)

LEMMA ReplyFrame ==
  ASSUME ReplyStep
  PROVE  UNCHANGED <<known, company, conv, hook, wrote, early, owners>>
<1>1. ASSUME NEW w \in Worker, WorkerStep(w)
      PROVE  UNCHANGED <<known, company, conv, hook, wrote, early, owners>>
  <2>1. ASSUME NEW k \in Customer, LookUp(w, k)
        PROVE  UNCHANGED <<known, company, conv, hook, wrote, early, owners>>
    BY <2>1 DEF LookUp, table, letters
  <2>2. CASE Charge(w) BY <2>2 DEF Charge, table, letters
  <2>3. CASE Send(w) BY <2>3 DEF Send, table, letters
  <2>4. CASE Refund(w) BY <2>4 DEF Refund, table, letters
  <2>5. CASE ShowSent(w) BY <2>5 DEF ShowSent, table, letters
  <2> QED BY <1>1, <2>1, <2>2, <2>3, <2>4, <2>5 DEF WorkerStep
<1>2. ASSUME NEW k \in Customer, SendMessage(k) \/ SendTyping(k) \/ ProcessStatus(k)
      PROVE  UNCHANGED <<known, company, conv, hook, wrote, early, owners>>
  BY <1>2 DEF SendMessage, SendTyping, ProcessStatus, table, letters
<1> QED BY <1>1, <1>2 DEF ReplyStep

(* Everything grows with every step.                                         *)
LEMMA AllGrow ==
  ASSUME RoutingTypeOK, \A h \in Hook : HookOK(h), RoutingNext
  PROVE  /\ Grows
         /\ known' \in SUBSET Number /\ company' \in [Number -> Company \cup {None}]
         /\ conv' \in [Customer -> {None} \cup Row]
         /\ wrote' \in [Customer -> SUBSET Number] /\ early' \in SUBSET Customer
         /\ owners' \in [Customer -> SUBSET Company]
<1> DEFINE Types ==
         /\ known' \in SUBSET Number /\ company' \in [Number -> Company \cup {None}]
         /\ conv' \in [Customer -> {None} \cup Row]
         /\ wrote' \in [Customer -> SUBSET Number] /\ early' \in SUBSET Customer
         /\ owners' \in [Customer -> SUBSET Company]
<1>1. /\ known \in SUBSET Number /\ company \in [Number -> Company \cup {None}]
      /\ conv \in [Customer -> {None} \cup Row]
      /\ wrote \in [Customer -> SUBSET Number] /\ early \in SUBSET Customer
      /\ owners \in [Customer -> SUBSET Company] /\ faults \in 0 .. MaxFaults
      /\ hook \in [Hook -> Delivery] /\ MaxFaults \in Nat /\ Default \in Company
  BY RoutingAssumption DEF RoutingTypeOK
<1>2. Fault \/ UNCHANGED faults => faults' \in 0 .. MaxFaults /\ faults <= faults'
  BY <1>1 DEF Fault
<1>3. ASSUME UNCHANGED <<known, company, conv, wrote, early, owners>>,
             Fault \/ UNCHANGED faults
      PROVE  Grows /\ Types
  <2>1. Grows BY <1>1, <1>2, <1>3 DEF Grows
  <2>2. Types BY <1>1, <1>3
  <2> QED BY <2>1, <2>2
<1>4. CASE ReplyStep
  <2>1. Fault \/ UNCHANGED faults
    BY <1>4 DEF ReplyStep, WorkerStep, LookUp, Charge, Send, Refund, ShowSent,
                SendMessage, SendTyping, ProcessStatus
  <2> QED BY <1>3, <1>4, <2>1, ReplyFrame
<1>5. ASSUME NEW h \in Hook, HookStep(h) PROVE Grows /\ Types
  <2>0. hook[h] \in Delivery BY <1>1
  <2>1. ASSUME NEW k \in Customer, NEW n \in Number, Receive(h, k, n)
        PROVE  Grows /\ Types
    <3>1. (IF company[n] = None THEN Default ELSE company[n]) \in Company BY <1>1
    <3>2. wrote' \in [Customer -> SUBSET Number] /\ early' \in SUBSET Customer
      BY <1>1, <2>1 DEF Receive
    <3>3. owners' \in [Customer -> SUBSET Company] BY <1>1, <2>1, <3>1 DEF Receive
    <3>4. Types BY <1>1, <2>1, <3>2, <3>3 DEF Receive, table
    <3>5. \A l \in Customer : wrote[l] \subseteq wrote'[l]
      BY <1>1, <2>1 DEF Receive
    <3>6. \A l \in Customer : owners[l] \subseteq owners'[l]
      BY <1>1, <2>1 DEF Receive
    <3>7. early \subseteq early' BY <2>1 DEF Receive
    <3>8. Grows BY <1>1, <1>2, <2>1, <3>2, <3>3, <3>5, <3>6, <3>7 DEF Grows, Receive, table
    <3> QED BY <3>4, <3>8
  <2>2. CASE Resolve(h) BY <1>3, <2>2 DEF Resolve, table, letters
  <2>3. CASE FindNumber(h) BY <1>3, <2>3 DEF FindNumber, table, letters
  <2>4. CASE FindConversation(h) BY <1>3, <2>4 DEF FindConversation, table, letters
  <2>5. CASE CreateConversation(h)
    <3>1. UNCHANGED <<known, company, wrote, early, owners>>
      BY <2>5 DEF CreateConversation, table, letters
    <3>2. Fault \/ UNCHANGED faults BY <2>5 DEF CreateConversation
    <3>3. CASE conv' = conv BY <1>3, <3>1, <3>2, <3>3
    <3>4. CASE conv[hook[h].from] = None
               /\ conv' = [conv EXCEPT ![hook[h].from] = NewRow(h)]
      <4>1. hook[h].at = "create" BY <2>5 DEF CreateConversation
      <4>2. hook[h].from \in Customer /\ hook[h].company \in May(hook[h].from)
        BY <4>1 DEF HookOK
      <4>3. hook[h].company \in Company BY <1>1, <4>2 DEF May
      <4>4. NewRow(h) \in Row BY <2>0, <4>3 DEF NewRow, Row, Delivery
      <4>5. conv' \in [Customer -> {None} \cup Row] BY <1>1, <3>4, <4>4
      <4>6. \A k \in Customer : conv[k] # None => conv'[k] = conv[k] BY <1>1, <3>4
      <4>7. Grows BY <1>1, <1>2, <3>1, <3>2, <4>6 DEF Grows
      <4> QED BY <1>1, <3>1, <4>5, <4>7
    <3> QED BY <2>5, <3>3, <3>4 DEF CreateConversation
  <2>6. CASE Show(h) BY <1>3, <2>6 DEF Show, table, letters
  <2> QED BY <1>5, <2>1, <2>2, <2>3, <2>4, <2>5, <2>6 DEF HookStep
<1>6. ASSUME NEW n \in Number, NEW c \in Company \cup {None}, Upsert(n, c)
      PROVE  Grows /\ Types
  <2>1. known' = known \cup {n} /\ company' \in [Number -> Company \cup {None}]
    BY <1>1, <1>6 DEF Upsert
  <2>2. owners' \in [Customer -> SUBSET Company]
        /\ \A k \in Customer : owners[k] \subseteq owners'[k]
    BY <1>1, <1>6 DEF Upsert, Passes
  <2>3. Types BY <1>1, <1>6, <2>1, <2>2 DEF Upsert, letters
  <2>4. Grows BY <1>1, <1>2, <1>6, <2>1, <2>2 DEF Grows, Upsert, letters
  <2> QED BY <2>3, <2>4
<1>7. ASSUME NEW n \in Number, NEW c \in Company, AssignCompany(n, c)
      PROVE  Grows /\ Types
  <2>1. company' \in [Number -> Company \cup {None}]
    BY <1>1, <1>7 DEF AssignCompany
  <2>2. owners' \in [Customer -> SUBSET Company]
        /\ \A k \in Customer : owners[k] \subseteq owners'[k]
    BY <1>1, <1>7 DEF AssignCompany, Passes
  <2>3. Types BY <1>1, <1>7, <2>1, <2>2 DEF AssignCompany, letters
  <2>4. Grows BY <1>1, <1>2, <1>7, <2>2 DEF Grows, AssignCompany, letters
  <2> QED BY <2>3, <2>4
<1> QED BY <1>4, <1>5, <1>6, <1>7 DEF RoutingNext, ReplyStep

LEMMA MayGrow ==
  ASSUME Grows, RoutingTypeOK, NEW k \in Customer
  PROVE  /\ May(k) \subseteq May(k)'
         /\ \A n \in Number \cup {None} : Answerable(k, n) => Answerable(k, n)'
<1>1. faults \in 0 .. MaxFaults /\ MaxFaults \in Nat
  BY RoutingAssumption DEF RoutingTypeOK
<1>2. faults > 0 => faults' > 0 BY <1>1 DEF Grows
<1>3. May(k) \subseteq May(k)' BY <1>2 DEF May, Grows
<1>4. Excused(k) => Excused(k)' BY <1>2 DEF Excused, Grows
<1> QED BY <1>3, <1>4 DEF Answerable, Grows

-----------------------------------------------------------------------------
(* Numbers, rows and deliveries *)

LEMMA NumbersStep ==
  ASSUME RoutingInv, RoutingNext
  PROVE  NumbersOK'
<1>1. /\ known \in SUBSET Number /\ company \in [Number -> Company \cup {None}]
      /\ wrote \in [Customer -> SUBSET Number] /\ owners \in [Customer -> SUBSET Company]
      /\ NumbersOK /\ None \notin Company
  BY RoutingAssumption DEF RoutingInv, RoutingTypeOK
<1>2. ASSUME UNCHANGED <<known, company, wrote, owners>> PROVE NumbersOK'
  BY <1>1, <1>2 DEF NumbersOK, ResolveCompanyID
<1>3. CASE ReplyStep BY <1>2, <1>3, ReplyFrame
<1>4. ASSUME NEW h \in Hook, HookStep(h) PROVE NumbersOK'
  <2>1. ASSUME NEW k \in Customer, NEW n \in Number, Receive(h, k, n) PROVE NumbersOK'
    <3>1. UNCHANGED <<known, company>> BY <2>1 DEF Receive, table
    <3>2. \A m \in Number : ResolveCompanyID(m)' = ResolveCompanyID(m)
      BY <3>1 DEF ResolveCompanyID
    <3>3. ResolveCompanyID(n) = IF company[n] = None THEN Default ELSE company[n]
      BY <1>1 DEF ResolveCompanyID, NumbersOK
    <3>4. ASSUME NEW l \in Customer, NEW m \in wrote'[l]
          PROVE  ResolveCompanyID(m) \in owners'[l]
      <4>1. CASE l = k /\ m = n BY <1>1, <2>1, <3>3, <4>1 DEF Receive
      <4>2. CASE ~(l = k /\ m = n)
        <5>1. m \in wrote[l] BY <1>1, <2>1, <4>2 DEF Receive
        <5>2. owners[l] \subseteq owners'[l] BY <1>1, <2>1 DEF Receive
        <5> QED BY <1>1, <5>1, <5>2 DEF NumbersOK
      <4> QED BY <4>1, <4>2
    <3>5. \A l \in Customer : wrote'[l] \subseteq Number BY <1>1, <2>1 DEF Receive
    <3> QED BY <1>1, <3>1, <3>2, <3>4, <3>5 DEF NumbersOK
  <2>2. CASE Resolve(h) BY <1>2, <2>2 DEF Resolve, table, letters
  <2>3. CASE FindNumber(h) BY <1>2, <2>3 DEF FindNumber, table, letters
  <2>4. CASE FindConversation(h) BY <1>2, <2>4 DEF FindConversation, table, letters
  <2>5. CASE CreateConversation(h) BY <1>2, <2>5 DEF CreateConversation, table, letters
  <2>6. CASE Show(h) BY <1>2, <2>6 DEF Show, table, letters
  <2> QED BY <1>4, <2>1, <2>2, <2>3, <2>4, <2>5, <2>6 DEF HookStep
(* A number is given to company c, or stays with its own.                    *)
<1>5. ASSUME NEW n \in Number, NEW c \in Company, UNCHANGED wrote,
             known' \in {known, known \cup {n}}, n \in known',
             company' = [company EXCEPT ![n] = c], Passes(n, c)
      PROVE  NumbersOK'
  <2>1. \A m \in Number \ known' : company'[m] = None BY <1>1, <1>5 DEF NumbersOK
  <2>2. ASSUME NEW k \in Customer, NEW m \in wrote[k]
        PROVE  ResolveCompanyID(m)' \in owners'[k]
    <3>1. CASE m = n
      <4>1. ResolveCompanyID(m)' = c BY <1>1, <1>5, <3>1 DEF ResolveCompanyID
      <4> QED BY <1>5, <3>1, <4>1 DEF Passes
    <3>2. CASE m # n
      <4>0. m \in Number BY <1>1
      <4>1. ResolveCompanyID(m)' = ResolveCompanyID(m)
        BY <1>1, <1>5, <3>2, <4>0 DEF ResolveCompanyID
      <4>2. owners[k] \subseteq owners'[k] BY <1>5 DEF Passes
      <4> QED BY <1>1, <4>1, <4>2 DEF NumbersOK
    <3> QED BY <3>1, <3>2
  <2> QED BY <1>5, <2>1, <2>2 DEF NumbersOK
<1>6. ASSUME NEW n \in Number, NEW c \in Company \cup {None}, Upsert(n, c)
      PROVE  NumbersOK'
  <2>1. CASE c # None BY <1>5, <1>6, <2>1 DEF Upsert, letters
  <2>2. CASE c = None
    <3>1. company' = company /\ owners' = owners /\ wrote' = wrote
          /\ known' = known \cup {n}
      BY <1>1, <1>6, <2>2 DEF Upsert, letters
    <3>2. \A m \in Number : ResolveCompanyID(m)' = ResolveCompanyID(m)
      BY <1>1, <3>1 DEF ResolveCompanyID, NumbersOK
    <3> QED BY <1>1, <3>1, <3>2 DEF NumbersOK
  <2> QED BY <2>1, <2>2
<1>7. ASSUME NEW n \in Number, NEW c \in Company, AssignCompany(n, c) PROVE NumbersOK'
  BY <1>5, <1>7 DEF AssignCompany, letters
<1> QED BY <1>3, <1>4, <1>6, <1>7 DEF RoutingNext, ReplyStep

LEMMA RowsStep ==
  ASSUME RoutingInv, RoutingNext, NEW k \in Customer
  PROVE  RowOK(k)'
<1>1. /\ RoutingTypeOK /\ RowOK(k) /\ Grows /\ conv \in [Customer -> {None} \cup Row]
      /\ \A h \in Hook : HookOK(h)
  BY AllGrow DEF RoutingInv, RoutingTypeOK
<1>2. CASE conv'[k] = conv[k]
  <2>1. conv[k] # None => conv[k].number \in Number \cup {None} BY <1>1 DEF Row
  <2> QED BY <1>1, <1>2, <2>1, MayGrow DEF RowOK
<1>3. CASE conv'[k] # conv[k]
  <2>1. PICK h \in Hook : CreateConversation(h)
    <3>1. CASE ReplyStep BY <1>3, <3>1, ReplyFrame
    <3>2. ASSUME NEW h \in Hook, HookStep(h) PROVE CreateConversation(h)
      <4>1. ~Show(h) BY <1>3 DEF Show
      <4>2. ~Resolve(h) /\ ~FindNumber(h) /\ ~FindConversation(h)
        BY <1>3 DEF Resolve, FindNumber, FindConversation
      <4>3. \A l \in Customer, n \in Number : ~Receive(h, l, n) BY <1>3 DEF Receive
      <4> QED BY <3>2, <4>1, <4>2, <4>3 DEF HookStep
    <3>3. ASSUME NEW n \in Number, NEW c, Upsert(n, c) \/ AssignCompany(n, c)
          PROVE  FALSE
      BY <1>3, <3>3 DEF Upsert, AssignCompany
    <3> QED BY <3>1, <3>2, <3>3 DEF RoutingNext, ReplyStep
  <2>2. hook[h].from = k /\ conv'[k] = NewRow(h) /\ hook[h].at = "create"
    BY <1>1, <1>3, <2>1 DEF CreateConversation
  <2>3. hook[h] \in Delivery BY <1>1 DEF RoutingTypeOK
  <2>4. hook[h].company \in May(k) /\ Answerable(k, hook[h].number)
    BY <1>1, <2>2 DEF HookOK
  <2>5. hook[h].number \in Number \cup {None} BY <2>3 DEF Delivery
  <2>6. conv'[k].company \in May(k)' BY <1>1, <2>2, <2>4, MayGrow DEF NewRow
  <2>7. conv'[k].number = hook[h].number BY <2>2 DEF NewRow
  <2>8. Answerable(k, conv[k].number)'
    BY <1>1, <2>4, <2>5, <2>7, MayGrow DEF Answerable
  <2> QED BY <2>6, <2>8 DEF RowOK
<1> QED BY <1>2, <1>3

(* A delivery that did not move is still as it should be.                    *)
LEMMA HookRests ==
  ASSUME RoutingInv, Grows, NEW h \in Hook, hook'[h] = hook[h]
  PROVE  HookOK(h)'
<1>1. RoutingTypeOK /\ HookOK(h) BY DEF RoutingInv
<1>2. hook[h] \in Delivery BY <1>1 DEF RoutingTypeOK
<1> DEFINE x == hook[h]
<1>3. x.at # "idle" => x.from \in Customer BY <1>1 DEF HookOK
<1>4. x.at \in {"resolve", "number"} =>
        x.to \in wrote'[x.from] /\ (x.to \in known' \/ x.from \in early')
  BY <1>1, <1>3 DEF HookOK, Grows
<1>5. x.at \in {"number", "find", "create", "tell"} => x.company \in May(x.from)'
  <2> SUFFICES ASSUME x.at \in {"number", "find", "create", "tell"}
               PROVE  x.company \in May(x.from)'
    OBVIOUS
  <2>1. x.from \in Customer /\ x.company \in May(x.from) BY <1>1 DEF HookOK
  <2>2. May(x.from) \subseteq (owners'[x.from] \cup IF faults' > 0 THEN {Default} ELSE {})
    BY <1>1, <2>1, MayGrow DEF May
  <2>3. x.company \in owners'[x.from] \cup IF faults' > 0 THEN {Default} ELSE {}
    BY <2>1, <2>2
  <2> QED BY <2>3 DEF May
<1>6. x.at \in {"find", "create"} => Answerable(x.from, x.number)'
  <2> SUFFICES ASSUME x.at \in {"find", "create"} PROVE Answerable(x.from, x.number)'
    OBVIOUS
  <2>1. x.from \in Customer /\ Answerable(x.from, x.number) BY <1>1 DEF HookOK
  <2>2. x.number \in Number \cup {None} BY <1>2 DEF Delivery
  <2> QED BY <1>1, <2>1, <2>2, MayGrow
<1> QED BY <1>3, <1>4, <1>5, <1>6 DEF HookOK

LEMMA HooksStep ==
  ASSUME RoutingInv, RoutingNext, NEW h \in Hook
  PROVE  HookOK(h)'
<1>1. /\ RoutingTypeOK /\ NumbersOK /\ \A g \in Hook : HookOK(g)
      /\ \A k \in Customer : RowOK(k)
  BY DEF RoutingInv
<1>2. /\ Grows /\ hook \in [Hook -> Delivery] /\ hook[h] \in Delivery
      /\ wrote \in [Customer -> SUBSET Number] /\ owners \in [Customer -> SUBSET Company]
      /\ wrote' \in [Customer -> SUBSET Number]
      /\ faults \in 0 .. MaxFaults /\ MaxFaults \in Nat
  BY <1>1, AllGrow, RoutingAssumption DEF RoutingTypeOK
<1>3. CASE hook'[h] = hook[h] BY <1>2, <1>3, HookRests
<1>4. CASE hook'[h] = Idle BY <1>4 DEF HookOK, Idle
<1>5. ASSUME NEW k \in Customer, NEW n \in Number, Receive(h, k, n) PROVE HookOK(h)'
  <2>1. /\ hook'[h].at = "resolve" /\ hook'[h].from = k /\ hook'[h].to = n
    BY <1>2, <1>5 DEF Receive, Idle
  <2>2. n \in wrote'[k] BY <1>2, <1>5 DEF Receive
  <2>3. n \in known' \/ k \in early' BY <1>5 DEF Receive, table
  <2> QED BY <2>1, <2>2, <2>3 DEF HookOK
<1>6. CASE Resolve(h)
  <2>1. PICK c \in Company :
          /\ \/ c = ResolveCompanyID(hook[h].to) /\ UNCHANGED faults
             \/ c = Default /\ Fault
          /\ hook' = [hook EXCEPT ![h].at = "number", ![h].company = c]
    BY <1>6 DEF Resolve
  <2>2. /\ hook'[h].at = "number" /\ hook'[h].company = c
        /\ hook'[h].from = hook[h].from /\ hook'[h].to = hook[h].to
    BY <1>2, <2>1 DEF Delivery
  <2>3. /\ hook[h].from \in Customer /\ hook[h].to \in wrote[hook[h].from]
        /\ hook[h].to \in known \/ hook[h].from \in early
    BY <1>1, <1>6 DEF HookOK, Resolve
  <2>4. UNCHANGED <<known, wrote, early, owners>> BY <1>6 DEF Resolve, table, letters
  <2>5. c \in owners[hook[h].from] \/ (c = Default /\ faults' > 0)
    BY <1>1, <1>2, <2>1, <2>3 DEF NumbersOK, Fault
  <2>6. (hook[h].company \in May(hook[h].from))' BY <2>2, <2>4, <2>5 DEF May
  <2> QED BY <2>2, <2>3, <2>4, <2>6 DEF HookOK
<1>7. CASE FindNumber(h)
  <2>1. PICK n \in Number \cup {None} :
          /\ \/ n = LocalNumber(hook[h].to) /\ UNCHANGED faults
             \/ n = None /\ Fault
          /\ hook' = [hook EXCEPT ![h].at = "find", ![h].to = None, ![h].number = n]
    BY <1>7 DEF FindNumber
  <2>2. /\ hook'[h].at = "find" /\ hook'[h].number = n
        /\ hook'[h].from = hook[h].from /\ hook'[h].company = hook[h].company
    BY <1>2, <2>1 DEF Delivery
  <2>3. /\ hook[h].from \in Customer /\ hook[h].to \in wrote[hook[h].from]
        /\ hook[h].to \in known \/ hook[h].from \in early
        /\ hook[h].company \in May(hook[h].from)
    BY <1>1, <1>7 DEF HookOK, FindNumber
  <2>4. UNCHANGED <<known, wrote, early, owners>> BY <1>7 DEF FindNumber, table, letters
  <2>5. Answerable(hook[h].from, hook[h].number)'
    <3>1. CASE n = None
      <4>1. hook[h].from \in early \/ faults' > 0
        <5>0. hook[h].to \in Number /\ None \notin Number
          BY <1>2, <2>3, RoutingAssumption
        <5>1. CASE Fault BY <1>2, <5>1 DEF Fault
        <5>2. CASE n = LocalNumber(hook[h].to)
          BY <2>3, <3>1, <5>0, <5>2 DEF LocalNumber
        <5> QED BY <2>1, <5>1, <5>2
      <4>2. hook'[h].from \in early' \/ faults' > 0 BY <2>2, <2>4, <4>1
      <4> QED BY <2>2, <3>1, <4>2 DEF Answerable, Excused
    <3>2. CASE n # None
      <4>1. n = hook[h].to /\ n \in known BY <2>1, <3>2 DEF LocalNumber
      <4> QED BY <2>2, <2>3, <2>4, <3>2, <4>1 DEF Answerable
    <3> QED BY <3>1, <3>2
  <2>6. (hook[h].company \in May(hook[h].from))'
    BY <1>1, <1>2, <2>2, <2>3, MayGrow DEF May
  <2> QED BY <2>2, <2>3, <2>5, <2>6 DEF HookOK
<1>8. CASE FindConversation(h)
  <2>1. PICK next \in {"tell", "create"} :
          hook' = [hook EXCEPT ![h].at = next,
                               ![h].number = IF next = "tell" THEN None ELSE @]
    BY <1>8 DEF FindConversation
  <2>2. /\ hook'[h].at = next
        /\ next = "create" => hook'[h].number = hook[h].number
        /\ hook'[h].from = hook[h].from /\ hook'[h].company = hook[h].company
        /\ hook[h].number \in Number \cup {None}
    BY <1>2, <2>1 DEF Delivery
  <2>3. /\ hook[h].from \in Customer /\ hook[h].company \in May(hook[h].from)
        /\ Answerable(hook[h].from, hook[h].number)
    BY <1>1, <1>8 DEF HookOK, FindConversation
  <2>4. (hook[h].company \in May(hook[h].from))'
    BY <1>1, <1>2, <2>2, <2>3, MayGrow DEF May
  <2>5. CASE next = "tell" BY <2>2, <2>3, <2>4, <2>5 DEF HookOK
  <2>6. CASE next = "create"
    <3>1. PICK k \in Customer, n \in Number \cup {None} :
            k = hook[h].from /\ n = hook[h].number /\ Answerable(k, n)
      BY <2>2, <2>3
    <3>2. Answerable(k, n)' BY <1>1, <1>2, <3>1, MayGrow
    <3>3. hook'[h].from = k /\ hook'[h].number = n BY <2>2, <2>6, <3>1
    <3>4. Answerable(hook[h].from, hook[h].number)'
      BY <3>2, <3>3 DEF Answerable, Excused
    <3>5. hook'[h].at = "create" /\ hook'[h].from \in Customer BY <2>2, <2>6, <3>3
    <3> QED BY <2>4, <3>4, <3>5 DEF HookOK
  <2> QED BY <2>1, <2>5, <2>6
<1>9. CASE CreateConversation(h)
  <2>1. CASE hook' = [hook EXCEPT ![h].at = "tell", ![h].number = None]
    <3>1. /\ hook'[h].at = "tell" /\ hook'[h].from = hook[h].from
          /\ hook'[h].company = hook[h].company
      BY <1>2, <2>1 DEF Delivery
    <3>2. hook[h].from \in Customer /\ hook[h].company \in May(hook[h].from)
      BY <1>1, <1>9 DEF HookOK, CreateConversation
    <3>3. (hook[h].company \in May(hook[h].from))'
      BY <1>1, <1>2, <3>1, <3>2, MayGrow DEF May
    <3> QED BY <3>1, <3>2, <3>3 DEF HookOK
  <2> QED BY <1>2, <1>4, <1>9, <2>1 DEF CreateConversation
<1>10. CASE Show(h) BY <1>2, <1>4, <1>10 DEF Show
<1>11. ASSUME NEW g \in Hook, HookStep(g), g # h PROVE hook'[h] = hook[h]
  <2>1. ASSUME NEW k \in Customer, NEW n \in Number, Receive(g, k, n)
        PROVE  hook'[h] = hook[h]
    BY <1>2, <1>11, <2>1 DEF Receive
  <2>2. CASE Resolve(g) BY <1>2, <1>11, <2>2 DEF Resolve
  <2>3. CASE FindNumber(g) BY <1>2, <1>11, <2>3 DEF FindNumber
  <2>4. CASE FindConversation(g) BY <1>2, <1>11, <2>4 DEF FindConversation
  <2>5. CASE CreateConversation(g) BY <1>2, <1>11, <2>5 DEF CreateConversation
  <2>6. CASE Show(g) BY <1>2, <1>11, <2>6 DEF Show
  <2> QED BY <1>11, <2>1, <2>2, <2>3, <2>4, <2>5, <2>6 DEF HookStep
<1>12. ASSUME HookStep(h) PROVE HookOK(h)'
  BY <1>5, <1>6, <1>7, <1>8, <1>9, <1>10, <1>12 DEF HookStep
<1>13. CASE ReplyStep BY <1>3, <1>13, ReplyFrame
<1>14. ASSUME NEW n \in Number, NEW c, Upsert(n, c) \/ AssignCompany(n, c)
       PROVE  hook' = hook
  BY <1>14 DEF Upsert, AssignCompany
<1> QED BY <1>3, <1>11, <1>12, <1>13, <1>14 DEF RoutingNext, ReplyStep

-----------------------------------------------------------------------------
(* Replies, broadcasts and charges *)

LEMMA JobsStep ==
  ASSUME RoutingInv, RoutingNext, NEW w \in Worker
  PROVE  JobOK(w)'
<1>1. /\ RoutingTypeOK /\ NumbersOK /\ RepliesOK /\ JobOK(w)
      /\ \A k \in Customer : RowOK(k)
      /\ Grows /\ job \in [Worker -> Job] /\ job[w] \in Job
      /\ owners \in [Customer -> SUBSET Company] /\ conv \in [Customer -> {None} \cup Row]
      /\ None \notin Company
  BY AllGrow, RoutingAssumption DEF RoutingInv, RoutingTypeOK
(* What was looked up stays right while the tables grow.                     *)
<1>2. ASSUME job'[w].for = job[w].for, job'[w].company = job[w].company,
             job[w].at # "idle",
             job'[w].at \in {"send", "refund"} =>
               job'[w].number = job[w].number /\ job[w].at \in {"charge", "send", "refund"},
             job'[w].at # "charge"
      PROVE  JobOK(w)'
  <2>1. /\ job[w].for \in Customer /\ conv[job[w].for] # None
        /\ job[w].company \in owners[job[w].for] \cup {None}
    BY <1>1, <1>2 DEF JobOK
  <2>2. conv'[job[w].for] # None /\ job[w].company \in owners'[job[w].for] \cup {None}
    BY <1>1, <2>1 DEF Grows
  <2>3. job'[w].at \in {"send", "refund"} => job'[w].number \in Number
    BY <1>1, <1>2 DEF JobOK
  <2> QED BY <1>2, <2>1, <2>2, <2>3 DEF JobOK
<1>3. CASE job'[w] = AtRest BY <1>3 DEF JobOK, AtRest
<1>4. CASE job'[w] = job[w]
  <2>1. job[w].at # "idle" =>
          /\ job[w].for \in Customer /\ conv'[job[w].for] # None
          /\ job[w].company \in owners'[job[w].for] \cup {None}
    BY <1>1 DEF JobOK, Grows
  <2>2. job[w].at \in {"charge", "send", "refund"} => job[w].number \in Number
    BY <1>1 DEF JobOK
  <2> QED BY <1>4, <2>1, <2>2 DEF JobOK
<1>5. ASSUME NEW k \in Customer, LookUp(w, k) PROVE JobOK(w)'
  <2>1. ASSUME NEW n \in NumberOf(k),
               job' = [job EXCEPT ![w] = [at |-> "charge", for |-> k,
                                          company |-> company[n], number |-> n]]
        PROVE  JobOK(w)'
    <3>1. /\ job'[w].at = "charge" /\ job'[w].for = k
          /\ job'[w].company = company[n] /\ job'[w].number = n
      BY <1>1, <2>1
    <3>2. conv[k] # None BY <1>1, <1>5 DEF LookUp, RepliesOK
    <3>3. n = conv[k].number /\ n # None BY <2>1 DEF NumberOf
    <3>4. n \in wrote[k] /\ n \in known
      BY <1>1, <3>2, <3>3 DEF RowOK, Answerable
    <3>5. n \in Number BY <1>1, <3>4 DEF RoutingTypeOK
    <3>6. company[n] \in owners[k] \cup {None}
      BY <1>1, <3>4 DEF NumbersOK, ResolveCompanyID
    <3>7. conv'[k] # None /\ company[n] \in owners'[k] \cup {None}
      BY <1>1, <3>2, <3>6 DEF Grows
    <3> QED BY <3>1, <3>5, <3>7 DEF JobOK
  <2> QED BY <1>4, <1>5, <2>1 DEF LookUp
<1>6. CASE Charge(w)
  <2>1. job[w].at = "charge" BY <1>6 DEF Charge
  <2>2. CASE job' = [job EXCEPT ![w].at = "send"]
    <3>1. /\ job'[w].at = "send" /\ job'[w].for = job[w].for
          /\ job'[w].company = job[w].company /\ job'[w].number = job[w].number
      BY <1>1, <2>2 DEF Job
    <3> QED BY <1>2, <2>1, <3>1
  <2>3. CASE job' = [job EXCEPT ![w] = AtRest] BY <1>1, <1>3, <2>3
  <2> QED BY <1>6, <2>2, <2>3 DEF Charge
<1>7. CASE Send(w)
  <2>1. job[w].at = "send" BY <1>7 DEF Send
  <2>2. CASE job' = [job EXCEPT ![w].at = "tell", ![w].number = None]
    <3>1. /\ job'[w].at = "tell" /\ job'[w].for = job[w].for
          /\ job'[w].company = job[w].company
      BY <1>1, <2>2 DEF Job
    <3> QED BY <1>2, <2>1, <3>1
  <2>3. CASE job' = [job EXCEPT ![w].at = "refund"]
    <3>1. /\ job'[w].at = "refund" /\ job'[w].for = job[w].for
          /\ job'[w].company = job[w].company /\ job'[w].number = job[w].number
      BY <1>1, <2>3 DEF Job
    <3> QED BY <1>2, <2>1, <3>1
  <2> QED BY <1>7, <2>2, <2>3 DEF Send
<1>8. CASE Refund(w) \/ ShowSent(w) BY <1>1, <1>3, <1>8 DEF Refund, ShowSent
<1>9. ASSUME NEW v \in Worker, WorkerStep(v), v # w PROVE job'[w] = job[w]
  <2>1. ASSUME NEW k \in Customer, LookUp(v, k) PROVE job'[w] = job[w]
    BY <1>1, <1>9, <2>1 DEF LookUp
  <2>2. CASE Charge(v) BY <1>1, <1>9, <2>2 DEF Charge
  <2>3. CASE Send(v) BY <1>1, <1>9, <2>3 DEF Send
  <2>4. CASE Refund(v) BY <1>1, <1>9, <2>4 DEF Refund
  <2>5. CASE ShowSent(v) BY <1>1, <1>9, <2>5 DEF ShowSent
  <2> QED BY <1>9, <2>1, <2>2, <2>3, <2>4, <2>5 DEF WorkerStep
<1>10. ASSUME WorkerStep(w) PROVE JobOK(w)'
  BY <1>5, <1>6, <1>7, <1>8, <1>10 DEF WorkerStep
<1>11. CASE UNCHANGED job BY <1>4, <1>11
<1> QED BY <1>4, <1>9, <1>10, <1>11, OthersLeaveJobs DEF RoutingNext, ReplyStep

LEMMA RepliesStep ==
  ASSUME RoutingInv, RoutingNext
  PROVE  RepliesOK' /\ via' \in [Customer -> SUBSET Number] /\ queued' \in SUBSET Customer
<1>1. /\ RoutingTypeOK /\ RepliesOK /\ Grows /\ via \in [Customer -> SUBSET Number]
      /\ queued \in SUBSET Customer /\ \A w \in Worker : JobOK(w)
  BY AllGrow DEF RoutingInv, RoutingTypeOK
<1> DEFINE QueueOK == /\ queued' \in SUBSET Customer
                      /\ \A k \in queued' \ queued : conv[k] # None
           ViaOK == /\ via' \in [Customer -> SUBSET Number]
                    /\ \A k \in Customer : via'[k] # via[k] => conv[k] # None
<1>2. QueueOK
  <2>1. ASSUME NEW k \in Customer, SendMessage(k) PROVE QueueOK
    BY <1>1, <2>1 DEF SendMessage
  <2>2. ASSUME queued' \subseteq queued PROVE QueueOK BY <1>1, <2>2
  <2>3. ASSUME NEW h \in Hook, HookStep(h) PROVE queued' \subseteq queued
    <3>1. ASSUME NEW k \in Customer, NEW n \in Number, Receive(h, k, n)
          PROVE  queued' \subseteq queued
      BY <3>1 DEF Receive
    <3>2. CASE Resolve(h) BY <3>2 DEF Resolve
    <3>3. CASE FindNumber(h) BY <3>3 DEF FindNumber
    <3>4. CASE FindConversation(h) BY <3>4 DEF FindConversation
    <3>5. CASE CreateConversation(h) BY <3>5 DEF CreateConversation
    <3>6. CASE Show(h) BY <3>6 DEF Show
    <3> QED BY <2>3, <3>1, <3>2, <3>3, <3>4, <3>5, <3>6 DEF HookStep
  <2>4. ASSUME NEW w \in Worker, WorkerStep(w) PROVE queued' \subseteq queued
    BY <2>4 DEF WorkerStep, LookUp, Charge, Send, Refund, ShowSent
  <2>5. ASSUME NEW k \in Customer, SendTyping(k) \/ ProcessStatus(k)
        PROVE  queued' \subseteq queued
    BY <2>5 DEF SendTyping, ProcessStatus
  <2>6. ASSUME NEW n \in Number, NEW c, Upsert(n, c) \/ AssignCompany(n, c)
        PROVE  queued' \subseteq queued
    BY <2>6 DEF Upsert, AssignCompany
  <2> QED BY <2>1, <2>2, <2>3, <2>4, <2>5, <2>6 DEF RoutingNext
<1>3. ViaOK
  <2>1. CASE via' = via BY <1>1, <2>1
  <2>2. ASSUME NEW w \in Worker, Send(w),
               via' = [via EXCEPT ![job[w].for] = @ \cup {job[w].number}]
        PROVE  ViaOK
    <3>1. /\ job[w].for \in Customer /\ conv[job[w].for] # None
          /\ job[w].number \in Number
      BY <1>1, <2>2 DEF Send, JobOK
    <3> QED BY <1>1, <2>2, <3>1
  <2>3. ASSUME NEW w \in Worker, WorkerStep(w) PROVE ViaOK
    <3>1. ASSUME NEW k \in Customer, LookUp(w, k) PROVE via' = via
      BY <3>1 DEF LookUp
    <3>2. CASE Charge(w) BY <2>1, <3>2 DEF Charge
    <3>3. CASE Send(w) BY <2>1, <2>2, <3>3 DEF Send
    <3>4. CASE Refund(w) BY <2>1, <3>4 DEF Refund
    <3>5. CASE ShowSent(w) BY <2>1, <3>5 DEF ShowSent
    <3> QED BY <2>1, <2>3, <3>1, <3>2, <3>3, <3>4, <3>5 DEF WorkerStep
  <2> QED BY <2>1, <2>3, OthersLeaveJobs
<1>4. RepliesOK' BY <1>1, <1>2, <1>3 DEF RepliesOK, Grows
<1> QED BY <1>2, <1>3, <1>4

(* The four places that tell, of companies that may be told.                 *)
LEMMA TellStep ==
  ASSUME RoutingInv, RoutingNext
  PROVE  OwnersAreTold' /\ told' \in [Customer -> SUBSET Company]
<1>1. /\ RoutingTypeOK /\ RepliesOK /\ Grows /\ told \in [Customer -> SUBSET Company]
      /\ owners \in [Customer -> SUBSET Company] /\ OwnersAreTold
      /\ \A w \in Worker : JobOK(w)
      /\ \A h \in Hook : HookOK(h)
      /\ \A k \in Customer : RowOK(k)
      /\ Default \in Company /\ None \notin Company
  BY AllGrow, RoutingAssumption DEF RoutingInv, RoutingTypeOK
<1>2. \A k \in Customer : told[k] \subseteq May(k)' /\ May(k) \subseteq May(k)'
  BY <1>1, MayGrow DEF OwnersAreTold, May
<1>3. \A k \in Customer : May(k) \subseteq Company BY <1>1 DEF May
<1>4. ASSUME \A k \in Customer : told'[k] \subseteq May(k)' PROVE OwnersAreTold'
  BY <1>4 DEF OwnersAreTold, May
<1>5. CASE told' = told BY <1>1, <1>2, <1>4, <1>5
<1>6. ASSUME NEW k \in Customer, NEW c, Tell(k, c), c \in May(k) \cup {None}
      PROVE  OwnersAreTold' /\ told' \in [Customer -> SUBSET Company]
  <2>1. CASE told' = [told EXCEPT ![k] = @ \cup ({c} \ {None})]
    <3>1. {c} \ {None} \subseteq May(k) BY <1>6
    <3>2. told' \in [Customer -> SUBSET Company] BY <1>1, <1>3, <2>1, <3>1
    <3>3. \A l \in Customer : told'[l] \subseteq May(l)' BY <1>1, <1>2, <2>1, <3>1
    <3> QED BY <1>4, <3>2, <3>3
  <2> QED BY <1>5, <1>6, <2>1 DEF Tell
<1>7. ASSUME NEW h \in Hook, HookStep(h)
      PROVE  OwnersAreTold' /\ told' \in [Customer -> SUBSET Company]
  <2>1. ASSUME NEW k \in Customer, NEW n \in Number, Receive(h, k, n) PROVE told' = told
    BY <2>1 DEF Receive
  <2>2. CASE Resolve(h) BY <1>5, <2>2 DEF Resolve
  <2>3. CASE FindNumber(h) BY <1>5, <2>3 DEF FindNumber
  <2>4. CASE FindConversation(h) BY <1>5, <2>4 DEF FindConversation
  <2>5. CASE CreateConversation(h) BY <1>5, <2>5 DEF CreateConversation
  <2>6. CASE Show(h)
    <3>1. hook[h].from \in Customer /\ hook[h].company \in May(hook[h].from)
      BY <1>1, <2>6 DEF HookOK, Show
    <3> QED BY <1>6, <2>6, <3>1 DEF Show
  <2> QED BY <1>5, <1>7, <2>1, <2>2, <2>3, <2>4, <2>5, <2>6 DEF HookStep
<1>8. ASSUME NEW w \in Worker, WorkerStep(w)
      PROVE  OwnersAreTold' /\ told' \in [Customer -> SUBSET Company]
  <2>1. ASSUME NEW k \in Customer, LookUp(w, k) PROVE told' = told BY <2>1 DEF LookUp
  <2>2. CASE Charge(w) BY <1>5, <2>2 DEF Charge
  <2>3. CASE Send(w) BY <1>5, <2>3 DEF Send
  <2>4. CASE Refund(w) BY <1>5, <2>4 DEF Refund
  <2>5. CASE ShowSent(w)
    <3>1. job[w].for \in Customer /\ job[w].company \in May(job[w].for) \cup {None}
      BY <1>1, <2>5 DEF JobOK, ShowSent, May
    <3> QED BY <1>6, <2>5, <3>1 DEF ShowSent
  <2> QED BY <1>5, <1>8, <2>1, <2>2, <2>3, <2>4, <2>5 DEF WorkerStep
<1>9. ASSUME NEW k \in Customer, SendMessage(k) \/ SendTyping(k) \/ ProcessStatus(k)
      PROVE  OwnersAreTold' /\ told' \in [Customer -> SUBSET Company]
  <2>1. conv[k] # None
    BY <1>1, <1>9 DEF SendMessage, SendTyping, ProcessStatus, RepliesOK
  <2>2. conv[k].company \in May(k) BY <1>1, <2>1 DEF RowOK
  <2>3. Tell(k, conv[k].company) BY <1>9 DEF SendMessage, SendTyping, ProcessStatus
  <2> QED BY <1>6, <2>2, <2>3
<1>10. ASSUME NEW n \in Number, NEW c, Upsert(n, c) \/ AssignCompany(n, c)
       PROVE  told' = told
  BY <1>10 DEF Upsert, AssignCompany
<1> QED BY <1>5, <1>7, <1>8, <1>9, <1>10 DEF RoutingNext

(* Whether job x is one that company c is charged for.                       *)
Pays(x, c) == x.at \in {"send", "refund"} /\ x.company = c

(* What one worker's step does to the number of charges.                     *)
LEMMA ChargeCount ==
  ASSUME NEW c, NEW w \in Worker,
         \A v \in Worker \ {w} : job'[v] = job[v]
  PROVE  /\ Cardinality(Charged(c)) \in Nat
         /\ Cardinality(Charged(c)') =
              IF (Pays(job[w], c) <=> Pays(job'[w], c)) THEN Cardinality(Charged(c))
              ELSE IF Pays(job[w], c) THEN Cardinality(Charged(c)) - 1
                   ELSE Cardinality(Charged(c)) + 1
         /\ Pays(job[w], c) => Cardinality(Charged(c)) > 0
<1>1. IsFiniteSet(Charged(c))
  <2>1. Charged(c) \subseteq Worker /\ IsFiniteSet(Worker)
    BY RoutingAssumption DEF Charged
  <2> QED BY <2>1, FS_Subset
<1>2. Cardinality(Charged(c)) \in Nat BY <1>1, FS_CardinalityType
<1>3. w \in Charged(c) <=> Pays(job[w], c) BY DEF Charged, Pays
<1>4. Charged(c)' = IF Pays(job'[w], c) THEN Charged(c) \cup {w} ELSE Charged(c) \ {w}
  BY DEF Charged, Pays
<1>5. Pays(job[w], c) => Cardinality(Charged(c)) > 0
  BY <1>1, <1>2, <1>3, FS_EmptySet
<1>6. CASE Pays(job'[w], c)
  <2>1. Charged(c)' = Charged(c) \cup {w} BY <1>4, <1>6
  <2>2. Cardinality(Charged(c) \cup {w}) =
          IF w \in Charged(c) THEN Cardinality(Charged(c)) ELSE Cardinality(Charged(c)) + 1
    BY <1>1, FS_AddElement
  <2>3. CASE Pays(job[w], c) BY <1>2, <1>3, <1>5, <1>6, <2>1, <2>2, <2>3
  <2>4. CASE ~Pays(job[w], c) BY <1>2, <1>3, <1>6, <2>1, <2>2, <2>4
  <2> QED BY <2>3, <2>4
<1>7. CASE ~Pays(job'[w], c)
  <2>1. Charged(c)' = Charged(c) \ {w} BY <1>4, <1>7
  <2>2. Cardinality(Charged(c) \ {w}) =
          IF w \in Charged(c) THEN Cardinality(Charged(c)) - 1 ELSE Cardinality(Charged(c))
    BY <1>1, FS_RemoveElement
  <2>3. CASE Pays(job[w], c) BY <1>2, <1>3, <1>5, <1>7, <2>1, <2>2, <2>3
  <2>4. CASE ~Pays(job[w], c) BY <1>2, <1>3, <1>7, <2>1, <2>2, <2>4
  <2> QED BY <2>3, <2>4
<1> QED BY <1>6, <1>7

LEMMA ChargesStep ==
  ASSUME RoutingInv, RoutingNext
  PROVE  /\ ChargesAreSettled'
         /\ used' \in [Company -> 0 .. Quota] /\ paid' \in [Company -> 0 .. Quota]
<1> DEFINE Goal(c) == /\ used'[c] = paid'[c] + Cardinality(Charged(c)')
                      /\ used'[c] \in 0 .. Quota /\ paid'[c] \in 0 .. Quota
<1>1. /\ RoutingTypeOK /\ ChargesAreSettled /\ Quota \in Nat /\ None \notin Company
      /\ used \in [Company -> 0 .. Quota] /\ paid \in [Company -> 0 .. Quota]
      /\ job \in [Worker -> Job]
  BY RoutingAssumption DEF RoutingInv, RoutingTypeOK
<1>2. ASSUME NEW w \in Worker, NEW c \in Company,
             \A v \in Worker \ {w} : job'[v] = job[v],
             Pays(job[w], c) <=> Pays(job'[w], c), used'[c] = used[c], paid'[c] = paid[c]
      PROVE  Goal(c)
  <2>1. used[c] = paid[c] + Cardinality(Charged(c)) BY <1>1 DEF ChargesAreSettled
  <2>2. Cardinality(Charged(c)') = Cardinality(Charged(c)) BY <1>2, ChargeCount
  <2> QED BY <1>1, <1>2, <2>1, <2>2
<1>3. ASSUME NEW w \in Worker, WorkerStep(w), NEW c \in Company PROVE Goal(c)
  <2>0. /\ used[c] = paid[c] + Cardinality(Charged(c)) /\ job[w] \in Job
        /\ used[c] \in 0 .. Quota /\ paid[c] \in 0 .. Quota
    BY <1>1 DEF ChargesAreSettled
  <2>1. ASSUME NEW k \in Customer, LookUp(w, k) PROVE Goal(c)
    <3>1. used' = used /\ paid' = paid /\ \A v \in Worker \ {w} : job'[v] = job[v]
      BY <1>1, <2>1 DEF LookUp
    <3>2. ~Pays(job[w], c) BY <2>1 DEF LookUp, Pays, AtRest
    <3>3. ~Pays(job'[w], c)
      <4>1. CASE job' = job BY <3>2, <4>1
      <4>2. ASSUME NEW n \in NumberOf(k),
                   job' = [job EXCEPT ![w] = [at |-> "charge", for |-> k,
                                              company |-> company[n], number |-> n]]
            PROVE  ~Pays(job'[w], c)
        BY <1>1, <4>2 DEF Pays
      <4> QED BY <2>1, <4>1, <4>2 DEF LookUp
    <3>4. Pays(job[w], c) <=> Pays(job'[w], c) BY <3>2, <3>3 DEF Pays
    <3> QED BY <1>2, <3>1, <3>4
  <2>2. CASE Charge(w)
    <3>1. /\ paid' = paid /\ ~Pays(job[w], c) /\ \A v \in Worker \ {w} : job'[v] = job[v]
      BY <1>1, <2>2 DEF Charge, Pays
    <3>2. CASE job' = [job EXCEPT ![w].at = "send"] /\ job[w].company = c
      <4>1. used[c] < Quota /\ used'[c] = used[c] + 1
        <5>1. job'[w] # AtRest BY <1>1, <3>2 DEF AtRest, Job
        <5> QED BY <1>1, <2>2, <3>2, <5>1 DEF Charge
      <4>2. Pays(job'[w], c) BY <1>1, <2>0, <3>2 DEF Pays, Job
      <4>3. Cardinality(Charged(c)') = Cardinality(Charged(c)) + 1
            /\ Cardinality(Charged(c)) \in Nat
        BY <3>1, <4>2, ChargeCount
      <4> QED BY <1>1, <2>0, <3>1, <4>1, <4>3
    <3>3. CASE job' = [job EXCEPT ![w].at = "send"] /\ job[w].company # c
      <4>1. used'[c] = used[c] BY <1>1, <2>2, <3>3 DEF Charge
      <4>2. ~Pays(job'[w], c) BY <1>1, <2>0, <3>3 DEF Pays, Job
      <4>3. Pays(job[w], c) <=> Pays(job'[w], c) BY <3>1, <4>2 DEF Pays
      <4> QED BY <1>2, <3>1, <4>1, <4>3
    <3>4. CASE job' = [job EXCEPT ![w] = AtRest] /\ used' = used
      <4>1. ~Pays(job'[w], c) BY <1>1, <3>4 DEF Pays, AtRest
      <4>2. Pays(job[w], c) <=> Pays(job'[w], c) BY <3>1, <4>1 DEF Pays
      <4> QED BY <1>2, <3>1, <3>4, <4>2
    <3> QED BY <2>2, <3>2, <3>3, <3>4 DEF Charge
  <2>3. CASE Send(w)
    <3>1. /\ used' = used /\ \A v \in Worker \ {w} : job'[v] = job[v]
      BY <1>1, <2>3 DEF Send
    <3>2. CASE /\ paid' = [d \in Company |-> paid[d] + (IF d = job[w].company THEN 1 ELSE 0)]
               /\ job' = [job EXCEPT ![w].at = "tell", ![w].number = None]
      <4>1. ~Pays(job'[w], c) BY <1>1, <2>0, <3>2 DEF Pays, Job
      <4>2. Pays(job[w], c) <=> job[w].company = c BY <2>3 DEF Pays, Send
      <4>3. CASE job[w].company = c
        <5>1. Cardinality(Charged(c)') = Cardinality(Charged(c)) - 1
              /\ Cardinality(Charged(c)) \in Nat /\ Cardinality(Charged(c)) > 0
          BY <3>1, <4>1, <4>2, <4>3, ChargeCount
        <5>2. paid'[c] = paid[c] + 1 BY <3>2, <4>3
        <5> QED BY <1>1, <2>0, <3>1, <5>1, <5>2
      <4>4. CASE job[w].company # c
        <5>1. paid'[c] = paid[c] BY <2>0, <3>2, <4>4
        <5>2. Pays(job[w], c) <=> Pays(job'[w], c) BY <4>1, <4>2, <4>4 DEF Pays
        <5> QED BY <1>2, <3>1, <5>1, <5>2
      <4> QED BY <4>3, <4>4
    <3>3. CASE paid' = paid /\ job' = [job EXCEPT ![w].at = "refund"]
      <4>1. Pays(job[w], c) <=> Pays(job'[w], c)
        BY <1>1, <2>0, <2>3, <3>3 DEF Pays, Send, Job
      <4> QED BY <1>2, <3>1, <3>3, <4>1
    <3> QED BY <2>3, <3>2, <3>3 DEF Send
  <2>4. CASE Refund(w)
    <3>1. /\ paid' = paid /\ \A v \in Worker \ {w} : job'[v] = job[v]
          /\ ~Pays(job'[w], c)
      BY <1>1, <2>4 DEF Refund, Pays, AtRest
    <3>2. Pays(job[w], c) <=> job[w].company = c BY <2>4 DEF Pays, Refund
    <3>3. CASE job[w].company = c
      <4>1. Cardinality(Charged(c)') = Cardinality(Charged(c)) - 1
            /\ Cardinality(Charged(c)) \in Nat /\ Cardinality(Charged(c)) > 0
        BY <3>1, <3>2, <3>3, ChargeCount
      <4>2. used[c] > 0 BY <2>0, <4>1
      <4>3. used'[c] = used[c] - 1 BY <2>4, <3>3, <4>2 DEF Refund, Payer
      <4> QED BY <1>1, <2>0, <3>1, <4>1, <4>2, <4>3
    <3>4. CASE job[w].company # c
      <4>1. used'[c] = used[c] BY <2>4, <3>4 DEF Refund, Payer
      <4>2. Pays(job[w], c) <=> Pays(job'[w], c) BY <3>1, <3>2, <3>4 DEF Pays
      <4> QED BY <1>2, <3>1, <4>1, <4>2
    <3> QED BY <3>3, <3>4
  <2>5. CASE ShowSent(w)
    <3>1. /\ paid' = paid /\ used' = used /\ \A v \in Worker \ {w} : job'[v] = job[v]
          /\ ~Pays(job'[w], c) /\ ~Pays(job[w], c)
      BY <1>1, <2>5 DEF ShowSent, Pays, AtRest
    <3>2. Pays(job[w], c) <=> Pays(job'[w], c) BY <3>1 DEF Pays
    <3> QED BY <1>2, <3>1, <3>2
  <2> QED BY <1>3, <2>1, <2>2, <2>3, <2>4, <2>5 DEF WorkerStep
<1>4. ASSUME UNCHANGED <<job, used, paid>>, NEW c \in Company PROVE Goal(c)
  <2>1. Charged(c)' = Charged(c) BY <1>4 DEF Charged
  <2> QED BY <1>1, <1>4, <2>1 DEF ChargesAreSettled
<1>5. used' = [c \in Company |-> used'[c]] /\ paid' = [c \in Company |-> paid'[c]]
  <2>1. ASSUME NEW w \in Worker, WorkerStep(w)
        PROVE  /\ used' = [c \in Company |-> used'[c]]
               /\ paid' = [c \in Company |-> paid'[c]]
    <3>1. ASSUME NEW k \in Customer, LookUp(w, k) PROVE used' = used /\ paid' = paid
      BY <3>1 DEF LookUp
    <3>2. CASE Charge(w) BY <1>1, <3>2 DEF Charge
    <3>3. CASE Send(w) BY <1>1, <3>3 DEF Send
    <3>4. CASE Refund(w) BY <1>1, <3>4 DEF Refund
    <3>5. CASE ShowSent(w) BY <1>1, <3>5 DEF ShowSent
    <3> QED BY <1>1, <2>1, <3>1, <3>2, <3>3, <3>4, <3>5 DEF WorkerStep
  <2> QED BY <1>1, <2>1, OthersLeaveJobs
<1>6. \A c \in Company : Goal(c) BY <1>3, <1>4, OthersLeaveJobs
<1>7. ChargesAreSettled' BY <1>6 DEF ChargesAreSettled
<1>8. used' \in [Company -> 0 .. Quota] /\ paid' \in [Company -> 0 .. Quota]
  BY <1>5, <1>6
<1> QED BY <1>7, <1>8

LEMMA RoutingStep == RoutingInv /\ [RoutingNext]_routingVars => RoutingInv'
<1>1. ASSUME RoutingInv, RoutingNext PROVE RoutingInv'
  <2>1. RoutingTypeOK /\ RepliesOK /\ \A h \in Hook : HookOK(h) BY <1>1 DEF RoutingInv
  <2>2. Grows BY <1>1, <2>1, AllGrow
  <2>3. RoutingTypeOK'
    <3>1. /\ known' \in SUBSET Number /\ company' \in [Number -> Company \cup {None}]
          /\ conv' \in [Customer -> {None} \cup Row]
          /\ wrote' \in [Customer -> SUBSET Number] /\ early' \in SUBSET Customer
          /\ owners' \in [Customer -> SUBSET Company]
      BY <1>1, <2>1, AllGrow
    <3>2. faults' \in 0 .. MaxFaults BY <2>2 DEF Grows
    <3>3. hook' \in [Hook -> Delivery] BY <1>1, <2>1, HookTyped
    <3>4. job' \in [Worker -> Job] BY <1>1, <2>1, JobTyped
    <3>5. queued' \in SUBSET Customer /\ via' \in [Customer -> SUBSET Number]
      BY <1>1, RepliesStep
    <3>6. used' \in [Company -> 0 .. Quota] /\ paid' \in [Company -> 0 .. Quota]
      BY <1>1, ChargesStep
    <3>7. told' \in [Customer -> SUBSET Company] BY <1>1, TellStep
    <3> QED BY <3>1, <3>2, <3>3, <3>4, <3>5, <3>6, <3>7 DEF RoutingTypeOK
  <2>4. NumbersOK' BY <1>1, NumbersStep
  <2>5. RepliesOK' BY <1>1, RepliesStep
  <2>6. \A k \in Customer : RowOK(k)' BY <1>1, RowsStep
  <2>7. \A h \in Hook : HookOK(h)' BY <1>1, HooksStep
  <2>8. \A w \in Worker : JobOK(w)' BY <1>1, JobsStep
  <2>9. OwnersAreTold' BY <1>1, TellStep
  <2>10. ChargesAreSettled' BY <1>1, ChargesStep
  <2> QED BY <2>3, <2>4, <2>5, <2>6, <2>7, <2>8, <2>9, <2>10 DEF RoutingInv
<1>2. ASSUME RoutingInv, UNCHANGED routingVars PROVE RoutingInv'
  <2>0. UNCHANGED <<known, company, conv, hook, queued, job, used, faults, wrote, early,
                    owners, told, via, paid>>
    BY <1>2 DEF routingVars, table, letters
  <2>1. RoutingTypeOK' BY <1>2, <2>0 DEF RoutingInv, RoutingTypeOK
  <2>2. NumbersOK' BY <1>2, <2>0 DEF RoutingInv, NumbersOK, ResolveCompanyID
  <2>3. RepliesOK' BY <1>2, <2>0 DEF RoutingInv, RepliesOK
  <2>4. \A k \in Customer : RowOK(k)'
    BY <1>2, <2>0 DEF RoutingInv, RowOK, May, Answerable, Excused
  <2>5. \A h \in Hook : HookOK(h)'
    BY <1>2, <2>0 DEF RoutingInv, HookOK, May, Answerable, Excused
  <2>6. \A w \in Worker : JobOK(w)' BY <1>2, <2>0 DEF RoutingInv, JobOK
  <2>7. OwnersAreTold' BY <1>2, <2>0 DEF RoutingInv, OwnersAreTold
  <2>8. ChargesAreSettled' BY <1>2, <2>0 DEF RoutingInv, ChargesAreSettled, Charged
  <2> QED BY <2>1, <2>2, <2>3, <2>4, <2>5, <2>6, <2>7, <2>8 DEF RoutingInv
<1> QED BY <1>1, <1>2

LEMMA RoutingAlways == RoutingSpec => []RoutingInv
BY RoutingInitial, RoutingStep, PTL DEF RoutingSpec

(* Types of numbers, conversations, deliveries, replies and charges; in      *)
(* particular no company is charged for more replies than its quota.         *)
THEOREM RoutingTypes == RoutingSpec => []RoutingTypeOK
<1>1. RoutingInv => RoutingTypeOK BY DEF RoutingInv
<1> QED BY <1>1, RoutingAlways, PTL

(* Only companies that had one of the numbers a customer wrote to are told   *)
(* of his conversation, for any numbers, companies, customers, deliveries    *)
(* and workers; a failed query may add the default company.                  *)
THEOREM OwnersOnly == RoutingSpec => []OwnersAreTold
<1>1. RoutingInv => OwnersAreTold BY DEF RoutingInv
<1> QED BY <1>1, RoutingAlways, PTL

(* A conversation is without a number only if it began with a message to one *)
(* not synchronised, or with a failed query.                                 *)
THEOREM NumbersKept == RoutingSpec => []NumberIsKept
<1>1. RoutingInv => NumberIsKept
  BY DEF RoutingInv, NumberIsKept, RowOK, Answerable, Excused
<1> QED BY <1>1, RoutingAlways, PTL

(* What a company was charged is what it paid for and what is being sent,    *)
(* whoever is given its numbers meanwhile.                                   *)
THEOREM ChargesSettled == RoutingSpec => []ChargesAreSettled
<1>1. RoutingInv => ChargesAreSettled BY DEF RoutingInv
<1> QED BY <1>1, RoutingAlways, PTL
=============================================================================
