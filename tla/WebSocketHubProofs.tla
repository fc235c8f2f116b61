------------------------- MODULE WebSocketHubProofs -------------------------
(***************************************************************************)
(* Proofs about module WebSocketHub, for any number of connections and     *)
(* companies and any capacities: its types; that the hub closes no channel *)
(* twice and sends to no closed one; and that every browser receives its   *)
(* company's broadcasts in order and without a gap, that is, that the hub  *)
(* implements module CompanyFeed.                                          *)
(***************************************************************************)
EXTENDS WebSocketHub, FiniteSetTheorems, TLAPS

(* A connection that waits to be registered waits once, has never been a     *)
(* member, and its channel is open.                                          *)
Waiting ==
  \A i \in 1 .. Len(register) :
    /\ register[i] \notin members
    /\ closes[register[i]] = 0
    /\ conn[register[i]] # "none"
    /\ \A j \in 1 .. Len(register) : register[i] = register[j] => i = j

(* A connection that does not exist yet is unknown to the hub.               *)
Unborn == \A c \in Client : conn[c] = "none" => c \notin members /\ closes[c] = 0

(* What the hub hands out is a broadcast.                                    *)
HandedOut == todo # {} => current \in Broadcast

HubInv == TypeOK /\ Waiting /\ Unborn /\ HandedOut /\ ClosedOnce

LEMMA InvInit == Init => HubInv
<1> SUFFICES ASSUME Init PROVE HubInv OBVIOUS
<1>1. TypeOK BY OwnerAssumption, BoundAssumption DEF Init, TypeOK
<1>2. Waiting BY DEF Init, Waiting
<1>3. Unborn /\ HandedOut /\ ClosedOnce BY DEF Init, Unborn, HandedOut, ClosedOnce
<1> QED BY <1>1, <1>2, <1>3 DEF HubInv

(* A sequence's elements are in the set it is over.                          *)
LEMMA InRange == ASSUME NEW S, NEW q \in Seq(S), NEW i \in DOMAIN q PROVE q[i] \in S
OBVIOUS

(* The number of a new broadcast is in range.                                *)
LEMMA NumberType ==
  ASSUME TypeOK, Broadcasts + 1 <= MaxBroadcasts
  PROVE  Broadcasts + 1 \in 1 .. MaxBroadcasts
<1> DEFINE Numbers == UNION {Range(feed[k]) : k \in Company}
<1>1. Numbers \subseteq 1 .. MaxBroadcasts
  <2> SUFFICES ASSUME NEW k \in Company, NEW n \in Range(feed[k])
               PROVE  n \in 1 .. MaxBroadcasts
    OBVIOUS
  <2>1. feed[k] \in Seq(1 .. MaxBroadcasts) BY DEF TypeOK
  <2>2. PICK i \in DOMAIN feed[k] : n = feed[k][i] BY DEF Range
  <2> QED BY <2>1, <2>2, InRange
<1>2. IsFiniteSet(1 .. MaxBroadcasts) BY FS_Interval, BoundAssumption
<1>3. Cardinality(Numbers) \in Nat BY <1>1, <1>2, FS_Subset, FS_CardinalityType
<1> QED BY <1>3, BoundAssumption DEF Broadcasts

(* What remains of a channel after a receive.                                *)
LEMMA Receive ==
  ASSUME NEW S, NEW q \in Seq(S), q # <<>>
  PROVE  /\ Head(q) \in S /\ Head(q) = q[1] /\ 1 \in 1 .. Len(q)
         /\ Tail(q) \in Seq(S) /\ Len(Tail(q)) = Len(q) - 1
         /\ \A i \in 1 .. Len(Tail(q)) : Tail(q)[i] = q[i + 1] /\ i + 1 \in 1 .. Len(q)
OBVIOUS

(* What a channel holds after a send.                                        *)
LEMMA SendTo ==
  ASSUME NEW S, NEW q \in Seq(S), NEW x \in S
  PROVE  /\ Append(q, x) \in Seq(S) /\ Len(Append(q, x)) = Len(q) + 1
         /\ \A i \in 1 .. Len(q) + 1 : Append(q, x)[i] = IF i <= Len(q) THEN q[i] ELSE x
OBVIOUS

(* One client's Send changes.                                                *)
LEMMA OneSend ==
  ASSUME TypeOK, NEW c \in Client, NEW q \in Seq(1 .. MaxBroadcasts), Len(q) <= SendCap,
         send' = [send EXCEPT ![c] = q]
  PROVE  /\ send' \in [Client -> Seq(1 .. MaxBroadcasts)]
         /\ \A d \in Client : Len(send'[d]) <= SendCap
BY DEF TypeOK

LEMMA InvStep == HubInv /\ [Next]_vars => HubInv'
<1> SUFFICES ASSUME HubInv, [Next]_vars PROVE HubInv' OBVIOUS
<1>0. TypeOK /\ Waiting /\ Unborn /\ HandedOut /\ ClosedOnce BY DEF HubInv
<1>1. ASSUME NEW c \in Client, HandleWS(c) PROVE HubInv'
  <2>1. /\ register' \in Seq(Client) /\ Len(register') = Len(register) + 1
        /\ \A i \in 1 .. Len(register') :
             register'[i] = IF i <= Len(register) THEN register[i] ELSE c
    <3>1. register \in Seq(Client) /\ register' = Append(register, c)
      BY <1>1, <1>0 DEF TypeOK, HandleWS
    <3>2. Append(register, c) \in Seq(Client) /\ Len(Append(register, c)) = Len(register) + 1
      BY <3>1, SendTo
    <3>3. \A i \in 1 .. Len(register) + 1 :
            Append(register, c)[i] = IF i <= Len(register) THEN register[i] ELSE c
      BY <3>1, SendTo
    <3> QED BY <3>1, <3>2, <3>3
  <2>2. TypeOK' BY <1>1, <1>0, <2>1, BoundAssumption DEF TypeOK, HandleWS, hub
  <2>3. Waiting'
    <3> SUFFICES ASSUME NEW i \in 1 .. Len(register')
                 PROVE  /\ register'[i] \notin members' /\ closes'[register'[i]] = 0
                        /\ conn'[register'[i]] # "none"
                        /\ \A j \in 1 .. Len(register') :
                             register'[i] = register'[j] => i = j
      BY DEF Waiting
    <3>1. Len(register) \in Nat BY <1>0 DEF TypeOK
    <3>2. \A j \in 1 .. Len(register) : register[j] # c /\ register[j] \in Client
      BY <1>1, <1>0 DEF TypeOK, Waiting, HandleWS
    <3>3. CASE i <= Len(register)
      <4>1. i \in 1 .. Len(register) /\ register'[i] = register[i] BY <2>1, <3>1, <3>3
      <4>2. /\ register[i] \notin members' /\ closes'[register[i]] = 0
            /\ conn'[register[i]] = conn[register[i]] /\ conn[register[i]] # "none"
        BY <1>1, <1>0, <3>2, <4>1 DEF TypeOK, Waiting, HandleWS, hub
      <4>3. \A j \in 1 .. Len(register') : register'[i] = register'[j] => i = j
        BY <1>0, <2>1, <3>1, <3>2, <4>1 DEF Waiting
      <4> QED BY <4>1, <4>2, <4>3
    <3>4. CASE ~(i <= Len(register))
      <4>1. i = Len(register) + 1 /\ register'[i] = c BY <2>1, <3>1, <3>4
      <4>2. c \notin members' /\ closes'[c] = 0 /\ conn'[c] # "none"
        BY <1>1, <1>0 DEF TypeOK, Unborn, HandleWS, hub
      <4>3. \A j \in 1 .. Len(register') : register'[i] = register'[j] => i = j
        BY <2>1, <3>1, <3>2, <4>1
      <4> QED BY <4>1, <4>2, <4>3
    <3> QED BY <3>3, <3>4
  <2>4. (Unborn /\ HandedOut /\ ClosedOnce)'
    BY <1>1, <1>0 DEF TypeOK, Unborn, HandedOut, ClosedOnce, HandleWS, hub
  <2> QED BY <2>2, <2>3, <2>4 DEF HubInv
<1>2. ASSUME NEW k \in Company, BroadcastToCompany(k) PROVE HubInv'
  <2>1. Broadcasts + 1 \in 1 .. MaxBroadcasts
    BY <1>2, <1>0, NumberType DEF BroadcastToCompany
  <2>2. [company |-> k, number |-> Broadcasts + 1] \in Broadcast BY <2>1 DEF Broadcast
  <2>3. broadcast' \in Seq(Broadcast) /\ Len(broadcast') <= ChanCap
    BY <1>2, <1>0, <2>2, BoundAssumption DEF TypeOK, BroadcastToCompany
  <2>4. feed' \in [Company -> Seq(1 .. MaxBroadcasts)]
    BY <1>2, <1>0, <2>1 DEF TypeOK, BroadcastToCompany
  <2>5. TypeOK'
    BY <1>2, <1>0, <2>3, <2>4 DEF TypeOK, BroadcastToCompany, hub, connections
  <2> QED BY <1>2, <1>0, <2>5
          DEF HubInv, Waiting, Unborn, HandedOut, ClosedOnce, BroadcastToCompany, hub,
              connections
<1>3. ASSUME NEW c \in Client, Vanish(c) PROVE HubInv'
  <2>1. TypeOK' BY <1>3, <1>0 DEF TypeOK, Vanish, channels, hub, history
  <2>2. (Waiting /\ Unborn /\ HandedOut /\ ClosedOnce)'
    BY <1>3, <1>0
    DEF TypeOK, Waiting, Unborn, HandedOut, ClosedOnce, Vanish, channels, hub
  <2> QED BY <2>1, <2>2 DEF HubInv
<1>4. CASE TakeRegister
  <2>1. /\ Head(register) \in Client /\ Head(register) = register[1]
        /\ 1 \in 1 .. Len(register)
        /\ register' \in Seq(Client) /\ Len(register') = Len(register) - 1
        /\ \A i \in 1 .. Len(register') :
             register'[i] = register[i + 1] /\ i + 1 \in 1 .. Len(register)
    BY <1>4, <1>0, Receive DEF TypeOK, TakeRegister
  <2>2. Len(register') <= ChanCap BY <1>0, <2>1, BoundAssumption DEF TypeOK
  <2>3. start' \in [Client -> Nat \cup {NotJoined}]
    BY <1>4, <1>0, <2>1, OwnerAssumption DEF TypeOK, TakeRegister
  <2>4. TypeOK'
    BY <1>4, <1>0, <2>1, <2>2, <2>3 DEF TypeOK, TakeRegister, connections
  <2>5. Waiting'
    <3>1. \A i \in 1 .. Len(register') : register'[i] # Head(register)
      BY <1>0, <2>1 DEF Waiting
    <3> QED BY <1>4, <1>0, <2>1, <3>1 DEF Waiting, TakeRegister, connections
  <2>6. (Unborn /\ HandedOut /\ ClosedOnce)'
    BY <1>4, <1>0, <2>1
    DEF TypeOK, Waiting, Unborn, HandedOut, ClosedOnce, TakeRegister, connections
  <2> QED BY <2>4, <2>5, <2>6 DEF HubInv
<1>5. CASE TakeUnregister
  <2>1. /\ Head(unregister) \in Client
        /\ unregister' \in Seq(Client) /\ Len(unregister') <= ChanCap
    BY <1>5, <1>0, Receive, BoundAssumption DEF TypeOK, TakeUnregister
  <2>2. closes' \in [Client -> Nat] /\ members' \subseteq members
    <3>1. CASE Known(Head(unregister))
      BY <1>5, <1>0, <2>1, <3>1 DEF TypeOK, TakeUnregister
    <3>2. CASE ~Known(Head(unregister)) BY <1>5, <1>0, <3>2 DEF TypeOK, TakeUnregister
    <3> QED BY <3>1, <3>2
  <2>3. todo' = {} BY <1>5 DEF TakeUnregister, Selecting
  <2>4. overtaken' \in SUBSET Client BY <1>5, <1>0, <2>1 DEF TypeOK, TakeUnregister
  <2>5. TypeOK'
    BY <1>5, <1>0, <2>1, <2>2, <2>3, <2>4 DEF TypeOK, TakeUnregister, connections
  <2>6. \A c \in Client : c \notin members => closes'[c] = closes[c]
    BY <1>5, <1>0, <2>1 DEF TypeOK, TakeUnregister, Known
  <2>7. Waiting'
    <3>1. \A i \in 1 .. Len(register) : register[i] \in Client BY <1>0 DEF TypeOK
    <3> QED BY <1>5, <1>0, <2>2, <2>6, <3>1 DEF Waiting, TakeUnregister, connections
  <2>8. (Unborn /\ HandedOut)'
    BY <1>5, <1>0, <2>2, <2>3, <2>6 DEF Unborn, HandedOut, TakeUnregister, connections
  <2>9. ClosedOnce'
    BY <1>5, <1>0, <2>1, <2>3 DEF TypeOK, ClosedOnce, TakeUnregister, Known
  <2> QED BY <2>5, <2>7, <2>8, <2>9 DEF HubInv
<1>6. CASE TakeBroadcast
  <2>1. /\ current' \in Broadcast
        /\ broadcast' \in Seq(Broadcast) /\ Len(broadcast') <= ChanCap
    BY <1>6, <1>0, Receive, BoundAssumption DEF TypeOK, TakeBroadcast
  <2>2. todo' \subseteq members BY <1>6 DEF TakeBroadcast, Audience
  <2>3. taken' \in [Company -> Nat]
    BY <1>6, <1>0, <2>1 DEF TypeOK, TakeBroadcast, Broadcast
  <2>4. TypeOK'
    BY <1>6, <1>0, <2>1, <2>2, <2>3 DEF TypeOK, TakeBroadcast, connections
  <2>5. (Waiting /\ Unborn /\ HandedOut /\ ClosedOnce)'
    BY <1>6, <1>0, <2>1, <2>2
    DEF Waiting, Unborn, HandedOut, ClosedOnce, TakeBroadcast, connections
  <2> QED BY <2>4, <2>5 DEF HubInv
<1>7. ASSUME NEW c \in todo, Serve(c) PROVE HubInv'
  <2>1. current.number \in 1 .. MaxBroadcasts BY <1>0 DEF HandedOut, Broadcast
  <2>2. c \in Client BY <1>0 DEF TypeOK
  <2>3. send[c] \in Seq(1 .. MaxBroadcasts) /\ Len(send[c]) \in Nat
    BY <1>0, <2>2 DEF TypeOK
  <2>4. /\ Append(send[c], current.number) \in Seq(1 .. MaxBroadcasts)
        /\ Len(Append(send[c], current.number)) <= SendCap
    BY <1>7, <2>1, <2>3, BoundAssumption DEF Serve
  <2>5. /\ send' \in [Client -> Seq(1 .. MaxBroadcasts)]
        /\ \A d \in Client : Len(send'[d]) <= SendCap
    BY <1>7, <1>0, <2>2, <2>4, OneSend DEF Serve
  <2>6. TypeOK' BY <1>7, <1>0, <2>5 DEF TypeOK, Serve, channels, connections, history
  <2>7. (Waiting /\ Unborn /\ HandedOut /\ ClosedOnce)'
    BY <1>7, <1>0
    DEF TypeOK, Waiting, Unborn, HandedOut, ClosedOnce, Serve, channels, connections
  <2> QED BY <2>6, <2>7 DEF HubInv
<1>8. ASSUME NEW c \in todo, Evict(c) PROVE HubInv'
  <2>1. TypeOK' BY <1>8, <1>0 DEF TypeOK, Evict, channels, connections, history
  <2>2. Waiting' BY <1>8, <1>0 DEF TypeOK, Waiting, Evict, channels, connections
  <2>3. (Unborn /\ HandedOut /\ ClosedOnce)'
    BY <1>8, <1>0
    DEF TypeOK, Unborn, HandedOut, ClosedOnce, Evict, channels, connections
  <2> QED BY <2>1, <2>2, <2>3 DEF HubInv
<1>9. ASSUME NEW c \in Client, ReadFails(c) PROVE HubInv'
  <2>1. TypeOK' BY <1>9, <1>0 DEF TypeOK, ReadFails, channels, hub, history
  <2> QED BY <1>9, <1>0, <2>1
          DEF HubInv, Waiting, Unborn, HandedOut, ClosedOnce, ReadFails, channels, hub
<1>10. ASSUME NEW c \in Client, Leave(c) PROVE HubInv'
  <2>1. TypeOK' BY <1>10, <1>0, BoundAssumption DEF TypeOK, Leave, hub, history
  <2>2. (Waiting /\ Unborn /\ HandedOut /\ ClosedOnce)'
    BY <1>10, <1>0 DEF TypeOK, Waiting, Unborn, HandedOut, ClosedOnce, Leave, hub
  <2> QED BY <2>1, <2>2 DEF HubInv
<1>11. ASSUME NEW c \in Client, Write(c) PROVE HubInv'
  <2>0. /\ send[c] \in Seq(1 .. MaxBroadcasts) /\ send[c] # <<>>
        /\ Len(send[c]) \in Nat /\ Len(send[c]) <= SendCap
    BY <1>11, <1>0 DEF TypeOK, Write
  <2>1. /\ Head(send[c]) \in 1 .. MaxBroadcasts
        /\ Tail(send[c]) \in Seq(1 .. MaxBroadcasts) /\ Len(Tail(send[c])) <= SendCap
    <3>1. /\ Head(send[c]) \in 1 .. MaxBroadcasts
          /\ Tail(send[c]) \in Seq(1 .. MaxBroadcasts)
          /\ Len(Tail(send[c])) = Len(send[c]) - 1
      BY <2>0, Receive
    <3> QED BY <2>0, <3>1, BoundAssumption
  <2>2. /\ send' \in [Client -> Seq(1 .. MaxBroadcasts)]
        /\ \A d \in Client : Len(send'[d]) <= SendCap
    BY <1>11, <1>0, <2>1, OneSend DEF Write
  <2>3. got' \in [Client -> Seq(1 .. MaxBroadcasts)]
    BY <1>11, <1>0, <2>1 DEF TypeOK, Write
  <2>4. TypeOK'
    BY <1>11, <1>0, <2>2, <2>3 DEF TypeOK, Write, channels, hub, connections
  <2> QED BY <1>11, <1>0, <2>4
          DEF HubInv, Waiting, Unborn, HandedOut, ClosedOnce, Write, channels, hub,
              connections
<1>12. ASSUME NEW c \in Client, WriterEnds(c) PROVE HubInv'
  <2>1. /\ send' \in [Client -> Seq(1 .. MaxBroadcasts)]
        /\ \A d \in Client : Len(send'[d]) <= SendCap
    <3>1. CASE send[c] # <<>> /\ send' = [send EXCEPT ![c] = Tail(@)]
      <4>1. /\ Tail(send[c]) \in Seq(1 .. MaxBroadcasts)
            /\ Len(Tail(send[c])) <= SendCap
        BY <1>0, <3>1, Receive, BoundAssumption DEF TypeOK
      <4> QED BY <1>0, <3>1, <4>1, OneSend
    <3>2. CASE UNCHANGED send BY <1>0, <3>2 DEF TypeOK
    <3> QED BY <1>12, <3>1, <3>2 DEF WriterEnds
  <2>2. TypeOK' BY <1>12, <1>0, <2>1 DEF TypeOK, WriterEnds, channels, hub, history
  <2>3. (Waiting /\ Unborn /\ HandedOut /\ ClosedOnce)'
    BY <1>12, <1>0
    DEF TypeOK, Waiting, Unborn, HandedOut, ClosedOnce, WriterEnds, channels, hub
  <2> QED BY <2>2, <2>3 DEF HubInv
<1>13. CASE UNCHANGED vars
  BY <1>13, <1>0 DEF HubInv, TypeOK, Waiting, Unborn, HandedOut, ClosedOnce, vars
<1> QED BY <1>1, <1>2, <1>3, <1>4, <1>5, <1>6, <1>7, <1>8, <1>9, <1>10, <1>11, <1>12,
           <1>13 DEF Next, Serving

LEMMA Invariance == Spec => []HubInv
BY InvInit, InvStep, PTL DEF Spec

(* The state of the hub, its channels, the connections and their goroutines  *)
(* keep their types: in particular no channel exceeds its capacity, and the  *)
(* hub serves only members.                                                  *)
THEOREM TypeCorrect == Spec => []TypeOK
BY Invariance, PTL DEF HubInv

(* However registrations, departures, broadcasts and evictions interleave,   *)
(* Run closes a client's channel at most once and then never serves it.      *)
THEOREM ChannelsClosedOnce == Spec => []ClosedOnce
BY Invariance, PTL DEF HubInv


-----------------------------------------------------------------------------
(* The promise to browsers: what waits for the hub, and what waits in Send   *)

(* p[i] is the place in its company's feed of the i-th broadcast that waits  *)
(* for the hub: behind those taken, in the order they were made, and none    *)
(* is missing.                                                               *)
Places(p) ==
  /\ \A i \in 1 .. Len(broadcast) :
       LET k == broadcast[i].company IN
       /\ taken[k] < p[i] /\ p[i] <= Len(feed[k])
       /\ feed[k][p[i]] = broadcast[i].number
       /\ \A j \in 1 .. Len(broadcast) :
            broadcast[j].company = k /\ i < j => p[i] < p[j]
  /\ \A k \in Company, n \in Nat :
       taken[k] < n /\ n <= Len(feed[k]) =>
         \E i \in 1 .. Len(broadcast) : broadcast[i].company = k /\ p[i] = n

Pending == \E p \in [1 .. Len(broadcast) -> Nat] : Places(p)

TakenWereMade == \A k \in Company : taken[k] <= Len(feed[k])

(* What the hub hands out is the last broadcast taken of its company, and it *)
(* serves clients of that company only.                                      *)
Handing == todo # {} => LET k == current.company IN
                        /\ taken[k] > 0 /\ feed[k][taken[k]] = current.number
                        /\ \A c \in todo : Owner[c] = k

Have(c) == start[c] + Len(got[c])

(* A client that the hub has not taken has nothing; one that it has taken    *)
(* waits for no registration.                                                *)
NotYet ==
  /\ \A c \in Client : /\ start[c] = NotJoined => /\ send[c] = <<>> /\ got[c] = <<>>
                                                  /\ c \notin members
                       /\ conn[c] = "none" => start[c] = NotJoined
  /\ \A i \in 1 .. Len(register) : start[register[i]] = NotJoined

Running(c) == writer[c] = "running" /\ start[c] # NotJoined

(* What lies in the Send of a client is what its feed has next for it, and   *)
(* for a member it reaches to the last broadcast taken.                      *)
InLine(c) ==
  /\ start[c] # NotJoined => start[c] <= taken[Owner[c]]
  /\ Running(c) =>
       /\ Have(c) + Len(send[c]) <= taken[Owner[c]]
       /\ \A i \in 1 .. Len(send[c]) : send[c][i] = feed[Owner[c]][Have(c) + i]
       /\ c \in members =>
            Have(c) + Len(send[c]) + (IF c \in todo THEN 1 ELSE 0) = taken[Owner[c]]

FeedInv ==
  /\ HubInv /\ Pending /\ TakenWereMade /\ Handing /\ NotYet
  /\ \A c \in Client : InLine(c)

LEMMA FeedInit == Init => FeedInv
<1> SUFFICES ASSUME Init PROVE FeedInv OBVIOUS
<1>1. HubInv BY InvInit
<1>2. Pending
  <2> DEFINE p == [i \in 1 .. Len(broadcast) |-> 0]
  <2>1. Len(broadcast) = 0 BY DEF Init
  <2>2. \A k \in Company : taken[k] = 0 /\ Len(feed[k]) = 0 BY DEF Init
  <2>3. p \in [1 .. Len(broadcast) -> Nat] OBVIOUS
  <2>4. \A i \in 1 .. Len(broadcast) : FALSE BY <2>1
  <2>5. \A k \in Company, n \in Nat : ~(taken[k] < n /\ n <= Len(feed[k])) BY <2>2
  <2> HIDE DEF p
  <2>6. Places(p) BY <2>4, <2>5 DEF Places
  <2> QED BY <2>3, <2>6 DEF Pending
<1>3. TakenWereMade /\ Handing BY DEF Init, TakenWereMade, Handing
<1>4. NotYet BY DEF Init, NotYet
<1>5. \A c \in Client : InLine(c) BY DEF Init, InLine, Running
<1> QED BY <1>1, <1>2, <1>3, <1>4, <1>5 DEF FeedInv

(* Two steps move the feeds; all others leave them and what waits.           *)
LEMMA OthersLeaveFeeds ==
  ASSUME [Next]_vars, ~TakeBroadcast, ~ \E k \in Company : BroadcastToCompany(k)
  PROVE  UNCHANGED <<broadcast, feed, taken, current>>
<1>1. ASSUME NEW c \in Client, HandleWS(c)
      PROVE  UNCHANGED <<broadcast, feed, taken, current>>
  BY <1>1 DEF HandleWS, hub
<1>2. ASSUME NEW c \in Client, Vanish(c) \/ ReadFails(c)
      PROVE  UNCHANGED <<broadcast, feed, taken, current>>
  BY <1>2 DEF Vanish, ReadFails, channels, hub, history
<1>3. ASSUME NEW c \in Client, Leave(c)
      PROVE  UNCHANGED <<broadcast, feed, taken, current>>
  BY <1>3 DEF Leave, hub, history
<1>4. ASSUME NEW c \in Client, Write(c)
      PROVE  UNCHANGED <<broadcast, feed, taken, current>>
  BY <1>4 DEF Write, channels, hub
<1>5. ASSUME NEW c \in Client, WriterEnds(c)
      PROVE  UNCHANGED <<broadcast, feed, taken, current>>
  BY <1>5 DEF WriterEnds, channels, hub, history
<1>6. CASE TakeRegister BY <1>6 DEF TakeRegister
<1>7. CASE TakeUnregister BY <1>7 DEF TakeUnregister
<1>8. ASSUME NEW c \in todo, Serve(c) \/ Evict(c)
      PROVE  UNCHANGED <<broadcast, feed, taken, current>>
  BY <1>8 DEF Serve, Evict, channels, history
<1>9. CASE UNCHANGED vars BY <1>9 DEF vars
<1> QED BY <1>1, <1>2, <1>3, <1>4, <1>5, <1>6, <1>7, <1>8, <1>9 DEF Next, Serving

(* The types these proofs need.                                              *)
LEMMA FeedTypes ==
  ASSUME TypeOK
  PROVE  /\ \A k \in Company : /\ feed[k] \in Seq(1 .. MaxBroadcasts)
                               /\ Len(feed[k]) \in Nat /\ taken[k] \in Nat
         /\ broadcast \in Seq(Broadcast) /\ Len(broadcast) \in Nat
         /\ \A i \in 1 .. Len(broadcast) : broadcast[i].company \in Company
         /\ \A c \in Client : /\ send[c] \in Seq(1 .. MaxBroadcasts) /\ Len(send[c]) \in Nat
                              /\ got[c] \in Seq(1 .. MaxBroadcasts) /\ Len(got[c]) \in Nat
                              /\ Owner[c] \in Company
                              /\ start[c] # NotJoined => start[c] \in Nat
<1>1. \A i \in 1 .. Len(broadcast) : broadcast[i] \in Broadcast BY DEF TypeOK
<1>2. \A i \in 1 .. Len(broadcast) : broadcast[i].company \in Company
  BY <1>1 DEF Broadcast
<1> QED BY <1>2, OwnerAssumption DEF TypeOK

(* A broadcast is published: at the end of its company's feed.               *)
LEMMA Published ==
  ASSUME TypeOK, NEW k \in Company, BroadcastToCompany(k)
  PROVE  /\ Broadcasts + 1 \in 1 .. MaxBroadcasts
         /\ feed' = [feed EXCEPT ![k] = Append(@, Broadcasts + 1)]
         /\ Len(broadcast') = Len(broadcast) + 1
         /\ \A i \in 1 .. Len(broadcast') :
              broadcast'[i] = IF i <= Len(broadcast) THEN broadcast[i]
                              ELSE [company |-> k, number |-> Broadcasts + 1]
         /\ Len(feed'[k]) = Len(feed[k]) + 1
         /\ feed'[k][Len(feed[k]) + 1] = Broadcasts + 1
         /\ \A l \in Company : /\ l # k => feed'[l] = feed[l]
                               /\ \A n \in 1 .. Len(feed[l]) : feed'[l][n] = feed[l][n]
<1> DEFINE new == Broadcasts + 1
           x == [company |-> k, number |-> new]
<1>1. new \in 1 .. MaxBroadcasts BY NumberType DEF BroadcastToCompany
<1>2. x \in Broadcast BY <1>1 DEF Broadcast
<1>3. broadcast' = Append(broadcast, x) /\ feed' = [feed EXCEPT ![k] = Append(@, new)]
  BY DEF BroadcastToCompany
<1> HIDE DEF new, x
<1>4. /\ Len(Append(broadcast, x)) = Len(broadcast) + 1
      /\ \A i \in 1 .. Len(broadcast) + 1 :
           Append(broadcast, x)[i] = IF i <= Len(broadcast) THEN broadcast[i] ELSE x
  BY <1>2, FeedTypes, SendTo
<1>5. /\ Len(Append(feed[k], new)) = Len(feed[k]) + 1
      /\ \A i \in 1 .. Len(feed[k]) + 1 :
           Append(feed[k], new)[i] = IF i <= Len(feed[k]) THEN feed[k][i] ELSE new
  BY <1>1, FeedTypes, SendTo
<1>6. feed'[k] = Append(feed[k], new) /\ \A l \in Company : l # k => feed'[l] = feed[l]
  BY <1>3 DEF TypeOK
<1>7. Len(feed'[k]) = Len(feed[k]) + 1 /\ feed'[k][Len(feed[k]) + 1] = new
  BY <1>5, <1>6, FeedTypes
<1>8. ASSUME NEW l \in Company, NEW n \in 1 .. Len(feed[l])
      PROVE  feed'[l][n] = feed[l][n]
  <2>1. CASE l = k
    <3>1. n \in 1 .. Len(feed[k]) + 1 /\ n <= Len(feed[k]) BY <2>1, FeedTypes
    <3> QED BY <1>5, <1>6, <2>1, <3>1
  <2> QED BY <1>6, <2>1
<1> QED BY <1>1, <1>3, <1>4, <1>6, <1>7, <1>8 DEF new, x

LEMMA PendingPublish ==
  ASSUME TypeOK, Pending, TakenWereMade, NEW k \in Company, BroadcastToCompany(k)
  PROVE  Pending' /\ TakenWereMade'
<1>1. PICK p \in [1 .. Len(broadcast) -> Nat] : Places(p) BY DEF Pending
<1> DEFINE last == Len(feed[k]) + 1
<1>0. PICK q : q = [i \in 1 .. Len(broadcast) + 1 |->
                      IF i <= Len(broadcast) THEN p[i] ELSE last]
  OBVIOUS
<1>2. /\ Len(broadcast') = Len(broadcast) + 1 /\ taken' = taken
      /\ \A i \in 1 .. Len(broadcast') :
           broadcast'[i] = IF i <= Len(broadcast) THEN broadcast[i]
                           ELSE [company |-> k, number |-> Broadcasts + 1]
      /\ Len(feed'[k]) = last /\ feed'[k][last] = Broadcasts + 1
      /\ \A l \in Company : /\ l # k => feed'[l] = feed[l]
                            /\ \A n \in 1 .. Len(feed[l]) : feed'[l][n] = feed[l][n]
  BY Published DEF BroadcastToCompany
<1>3. /\ \A l \in Company : Len(feed[l]) \in Nat /\ taken[l] \in Nat
                            /\ Len(feed[l]) <= Len(feed'[l])
      /\ Len(broadcast) \in Nat /\ last \in Nat
      /\ \A i \in 1 .. Len(broadcast) : broadcast[i].company \in Company
  <2>1. /\ \A l \in Company : Len(feed[l]) \in Nat /\ taken[l] \in Nat
        /\ Len(broadcast) \in Nat /\ last \in Nat
        /\ \A i \in 1 .. Len(broadcast) : broadcast[i].company \in Company
    BY FeedTypes
  <2>2. Len(feed[k]) <= Len(feed'[k]) BY <1>2, <2>1
  <2>3. ASSUME NEW l \in Company, l # k PROVE Len(feed[l]) <= Len(feed'[l])
    BY <1>2, <2>1, <2>3
  <2> QED BY <2>1, <2>2, <2>3
<1>4. \A i \in 1 .. Len(broadcast) :
        /\ p[i] \in Nat /\ taken[broadcast[i].company] < p[i]
        /\ p[i] <= Len(feed[broadcast[i].company])
        /\ feed[broadcast[i].company][p[i]] = broadcast[i].number
        /\ \A j \in 1 .. Len(broadcast) :
             broadcast[j].company = broadcast[i].company /\ i < j => p[i] < p[j]
  BY <1>1 DEF Places
<1>5. \A i \in 1 .. Len(broadcast) : q[i] = p[i] /\ broadcast'[i] = broadcast[i]
  BY <1>0, <1>2, <1>3
<1>6. LET e == Len(broadcast) + 1 IN
        q[e] = last /\ broadcast'[e] = [company |-> k, number |-> Broadcasts + 1]
  BY <1>0, <1>2, <1>3
<1>7. q \in [1 .. Len(broadcast') -> Nat] BY <1>0, <1>1, <1>2, <1>3
<1> HIDE DEF last
<1>8. ASSUME NEW i \in 1 .. Len(broadcast')
      PROVE  /\ taken'[broadcast'[i].company] < q[i]
             /\ q[i] <= Len(feed'[broadcast'[i].company])
             /\ feed'[broadcast'[i].company][q[i]] = broadcast'[i].number
             /\ \A j \in 1 .. Len(broadcast') :
                  broadcast'[j].company = broadcast'[i].company /\ i < j => q[i] < q[j]
  <2>1. CASE i \in 1 .. Len(broadcast)
    <3> DEFINE l == broadcast[i].company
    <3>1. l \in Company /\ p[i] \in 1 .. Len(feed[l]) BY <1>3, <1>4, <2>1
    <3>2. /\ taken'[broadcast'[i].company] < q[i]
          /\ q[i] <= Len(feed'[broadcast'[i].company])
          /\ feed'[broadcast'[i].company][q[i]] = broadcast'[i].number
      <4>1. broadcast'[i] = broadcast[i] /\ q[i] = p[i] /\ broadcast'[i].company = l
        BY <1>5, <2>1
      <4>2. taken'[l] < p[i] BY <1>2, <1>4, <2>1
      <4>3. p[i] <= Len(feed[l]) /\ Len(feed[l]) <= Len(feed'[l]) /\ Len(feed[l]) \in Nat
            /\ p[i] \in Nat
        BY <1>3, <1>4, <2>1, <3>1
      <4>4. p[i] <= Len(feed'[l])
        <5>1. CASE l = k BY <1>2, <1>3, <4>3, <5>1
        <5>2. CASE l # k BY <1>2, <3>1, <4>3, <5>2
        <5> QED BY <5>1, <5>2
      <4>5. feed'[l][p[i]] = broadcast[i].number BY <1>2, <1>4, <2>1, <3>1
      <4> QED BY <4>1, <4>2, <4>4, <4>5
    <3>3. ASSUME NEW j \in 1 .. Len(broadcast'),
                 broadcast'[j].company = broadcast'[i].company, i < j
          PROVE  q[i] < q[j]
      <4>1. CASE j \in 1 .. Len(broadcast) BY <1>4, <1>5, <2>1, <3>3, <4>1
      <4>2. CASE j = Len(broadcast) + 1
        <5>1. l = k BY <1>5, <1>6, <2>1, <3>3, <4>2
        <5>2. p[i] < last BY <1>3, <1>4, <2>1, <5>1 DEF last
        <5> QED BY <1>5, <1>6, <2>1, <4>2, <5>2
      <4> QED BY <1>2, <1>3, <4>1, <4>2
    <3> QED BY <3>2, <3>3
  <2>2. CASE i = Len(broadcast) + 1
    <3>1. broadcast'[i].company = k /\ broadcast'[i].number = Broadcasts + 1 /\ q[i] = last
      BY <1>6, <2>2
    <3>2. taken'[k] < last BY <1>2, <1>3 DEF TakenWereMade, last
    <3>3. \A j \in 1 .. Len(broadcast') : ~(i < j) BY <1>2, <1>3, <2>2
    <3> QED BY <1>2, <1>3, <3>1, <3>2, <3>3
  <2> QED BY <1>2, <1>3, <2>1, <2>2
<1>9. ASSUME NEW l \in Company, NEW n \in Nat, taken'[l] < n, n <= Len(feed'[l])
      PROVE  \E i \in 1 .. Len(broadcast') : broadcast'[i].company = l /\ q[i] = n
  <2>1. CASE n <= Len(feed[l])
    <3>1. PICK i \in 1 .. Len(broadcast) : broadcast[i].company = l /\ p[i] = n
      BY <1>1, <1>2, <1>9, <2>1 DEF Places
    <3>2. i \in 1 .. Len(broadcast') BY <1>2, <1>3, <3>1
    <3> QED BY <1>5, <3>1, <3>2
  <2>2. CASE ~(n <= Len(feed[l]))
    <3>1. l = k /\ n = last BY <1>2, <1>3, <1>9, <2>2 DEF last
    <3>2. Len(broadcast) + 1 \in 1 .. Len(broadcast') BY <1>2, <1>3
    <3> QED BY <1>6, <3>1, <3>2
  <2> QED BY <2>1, <2>2
<1>10. Places(q)' BY <1>8, <1>9 DEF Places
<1>11. Pending' BY <1>7, <1>10 DEF Pending
<1>12. TakenWereMade' BY <1>2, <1>3 DEF TakenWereMade
<1> QED BY <1>11, <1>12

(* A broadcast that the hub takes is the next of its company's feed.         *)
LEMMA NextTaken ==
  ASSUME TypeOK, NEW p \in [1 .. Len(broadcast) -> Nat], Places(p), broadcast # <<>>
  PROVE  LET k == broadcast[1].company IN
         /\ k \in Company /\ p[1] = taken[k] + 1 /\ p[1] <= Len(feed[k])
         /\ feed[k][p[1]] = broadcast[1].number /\ Head(broadcast) = broadcast[1]
<1> DEFINE k == broadcast[1].company
<1>1. 1 \in 1 .. Len(broadcast) /\ Head(broadcast) = broadcast[1]
  BY FeedTypes, Receive
<1>2. k \in Company /\ taken[k] \in Nat /\ Len(feed[k]) \in Nat
  BY <1>1, FeedTypes
<1>3. /\ taken[k] < p[1] /\ p[1] <= Len(feed[k]) /\ feed[k][p[1]] = broadcast[1].number
      /\ \A j \in 1 .. Len(broadcast) : broadcast[j].company = k /\ 1 < j => p[1] < p[j]
  BY <1>1 DEF Places
<1>4. p[1] \in Nat BY <1>1
<1>5. PICK i \in 1 .. Len(broadcast) : broadcast[i].company = k /\ p[i] = taken[k] + 1
  <2>1. taken[k] + 1 \in Nat /\ taken[k] < taken[k] + 1 /\ taken[k] + 1 <= Len(feed[k])
    BY <1>2, <1>3, <1>4
  <2> QED BY <1>2, <2>1 DEF Places
<1>6. i = 1 BY <1>2, <1>3, <1>4, <1>5
<1> QED BY <1>1, <1>2, <1>3, <1>5, <1>6

LEMMA PendingTake ==
  ASSUME TypeOK, Pending, TakenWereMade, TakeBroadcast
  PROVE  /\ Pending' /\ TakenWereMade' /\ current' = broadcast[1]
         /\ current'.company \in Company
         /\ taken' = [taken EXCEPT ![current'.company] = @ + 1]
         /\ feed[current'.company][taken'[current'.company]] = current'.number
<1>1. PICK p \in [1 .. Len(broadcast) -> Nat] : Places(p) BY DEF Pending
<1>2. broadcast # <<>> /\ current' = Head(broadcast) /\ broadcast' = Tail(broadcast)
      /\ taken' = [taken EXCEPT ![current'.company] = @ + 1] /\ feed' = feed
  BY DEF TakeBroadcast
<1> DEFINE k == broadcast[1].company
<1>3. /\ k \in Company /\ p[1] = taken[k] + 1 /\ p[1] <= Len(feed[k])
      /\ feed[k][p[1]] = broadcast[1].number /\ current' = broadcast[1]
  BY <1>1, <1>2, NextTaken
<1>4. /\ taken'[k] = p[1] /\ \A l \in Company : l # k => taken'[l] = taken[l]
      /\ \A l \in Company : taken[l] \in Nat /\ Len(feed[l]) \in Nat
      /\ Len(broadcast) \in Nat
  BY <1>2, <1>3, FeedTypes DEF TypeOK
<1>5. /\ Len(broadcast') = Len(broadcast) - 1 /\ 1 \in 1 .. Len(broadcast)
      /\ \A i \in 1 .. Len(broadcast') :
           broadcast'[i] = broadcast[i + 1] /\ i + 1 \in 1 .. Len(broadcast)
  BY <1>2, FeedTypes, Receive
<1>6. \A i \in 1 .. Len(broadcast) :
        /\ p[i] \in Nat /\ broadcast[i].company \in Company
        /\ taken[broadcast[i].company] < p[i]
        /\ p[i] <= Len(feed[broadcast[i].company])
        /\ feed[broadcast[i].company][p[i]] = broadcast[i].number
        /\ \A j \in 1 .. Len(broadcast) :
             broadcast[j].company = broadcast[i].company /\ i < j => p[i] < p[j]
  BY <1>1, FeedTypes DEF Places
<1>7. PICK q : q = [i \in 1 .. Len(broadcast') |-> p[i + 1]] OBVIOUS
<1>8. /\ q \in [1 .. Len(broadcast') -> Nat]
      /\ \A i \in 1 .. Len(broadcast') : q[i] = p[i + 1]
  BY <1>5, <1>7
<1>9. ASSUME NEW i \in 1 .. Len(broadcast')
      PROVE  /\ taken'[broadcast'[i].company] < q[i]
             /\ q[i] <= Len(feed'[broadcast'[i].company])
             /\ feed'[broadcast'[i].company][q[i]] = broadcast'[i].number
             /\ \A j \in 1 .. Len(broadcast') :
                  broadcast'[j].company = broadcast'[i].company /\ i < j => q[i] < q[j]
  <2> DEFINE l == broadcast[i + 1].company
  <2>1. i + 1 \in 1 .. Len(broadcast) /\ broadcast'[i] = broadcast[i + 1]
        /\ q[i] = p[i + 1] /\ 1 < i + 1
    BY <1>5, <1>8
  <2>2. taken'[l] < p[i + 1]
    <3>1. CASE l = k BY <1>4, <1>5, <1>6, <2>1, <3>1
    <3>2. CASE l # k BY <1>4, <1>6, <2>1, <3>2
    <3> QED BY <3>1, <3>2
  <2>3. ASSUME NEW j \in 1 .. Len(broadcast'), broadcast'[j].company = l, i < j
        PROVE  q[i] < q[j]
    <3>1. j + 1 \in 1 .. Len(broadcast) /\ broadcast[j + 1].company = l
          /\ q[j] = p[j + 1] /\ i + 1 < j + 1
      BY <1>5, <1>8, <2>3
    <3> QED BY <1>6, <2>1, <3>1
  <2> QED BY <1>2, <1>6, <2>1, <2>2, <2>3
<1>10. ASSUME NEW l \in Company, NEW n \in Nat, taken'[l] < n, n <= Len(feed'[l])
       PROVE  \E i \in 1 .. Len(broadcast') : broadcast'[i].company = l /\ q[i] = n
  <2>1. taken[l] < n
    <3>1. CASE l = k BY <1>3, <1>4, <1>10, <3>1
    <3>2. CASE l # k BY <1>4, <1>10, <3>2
    <3> QED BY <3>1, <3>2
  <2>2. PICK i \in 1 .. Len(broadcast) : broadcast[i].company = l /\ p[i] = n
    BY <1>1, <1>2, <1>10, <2>1 DEF Places
  <2>3. i # 1 BY <1>4, <1>10, <2>2
  <2>4. i - 1 \in 1 .. Len(broadcast') /\ (i - 1) + 1 = i BY <1>4, <1>5, <2>3
  <2> QED BY <1>5, <1>8, <2>2, <2>4
<1>11. Places(q)' BY <1>9, <1>10 DEF Places
<1>12. Pending' BY <1>8, <1>11 DEF Pending
<1>13. TakenWereMade' BY <1>2, <1>3, <1>4 DEF TakenWereMade
<1> QED BY <1>2, <1>3, <1>4, <1>12, <1>13

LEMMA PendingStep ==
  ASSUME FeedInv, [Next]_vars
  PROVE  Pending' /\ TakenWereMade'
<1>1. TypeOK /\ Pending /\ TakenWereMade BY DEF FeedInv, HubInv
<1>2. CASE UNCHANGED <<broadcast, feed, taken, current>>
  <2>1. PICK p \in [1 .. Len(broadcast) -> Nat] : Places(p) BY <1>1 DEF Pending
  <2>2. Places(p)' BY <1>2, <2>1 DEF Places
  <2> QED BY <1>1, <1>2, <2>1, <2>2 DEF Pending, TakenWereMade
<1> QED BY <1>1, <1>2, PendingPublish, PendingTake, OthersLeaveFeeds

(* The feeds only grow.                                                      *)
LEMMA FeedsGrow ==
  ASSUME FeedInv, [Next]_vars, NEW k \in Company
  PROVE  /\ \A n \in 1 .. Len(feed[k]) : feed'[k][n] = feed[k][n]
         /\ ~TakeBroadcast => taken'[k] = taken[k]
<1>1. TypeOK BY DEF FeedInv, HubInv
<1>2. ASSUME NEW l \in Company, BroadcastToCompany(l)
      PROVE  /\ \A n \in 1 .. Len(feed[k]) : feed'[k][n] = feed[k][n]
             /\ taken'[k] = taken[k]
  BY <1>1, <1>2, Published DEF BroadcastToCompany
<1>3. CASE TakeBroadcast BY <1>3 DEF TakeBroadcast
<1> QED BY <1>2, <1>3, OthersLeaveFeeds

LEMMA HandingStep ==
  ASSUME FeedInv, [Next]_vars
  PROVE  Handing'
<1>1. TypeOK /\ Pending /\ TakenWereMade /\ Handing /\ HandedOut
  BY DEF FeedInv, HubInv
<1>2. CASE TakeBroadcast
  <2>1. /\ current'.company \in Company
        /\ taken' = [taken EXCEPT ![current'.company] = @ + 1]
        /\ feed[current'.company][taken'[current'.company]] = current'.number
        /\ feed' = feed /\ todo' = {c \in members : Owner[c] = current'.company}
    BY <1>1, <1>2, PendingTake DEF TakeBroadcast, Audience
  <2>2. taken'[current'.company] > 0 BY <1>1, <2>1 DEF TypeOK
  <2> QED BY <2>1, <2>2 DEF Handing
<1>3. ASSUME todo' \subseteq todo, current' = current, ~TakeBroadcast PROVE Handing'
  <2> SUFFICES ASSUME todo' # {} PROVE
        LET k == current'.company IN
        /\ taken'[k] > 0 /\ feed'[k][taken'[k]] = current'.number
        /\ \A c \in todo' : Owner[c] = k
    BY DEF Handing
  <2> DEFINE k == current.company
  <2>1. todo # {} /\ current \in Broadcast BY <1>1, <1>3 DEF HandedOut
  <2>2. k \in Company /\ taken[k] > 0 /\ feed[k][taken[k]] = current.number
        /\ \A c \in todo : Owner[c] = k
    BY <1>1, <2>1 DEF Handing, Broadcast
  <2>3. taken[k] \in 1 .. Len(feed[k]) BY <1>1, <2>2, FeedTypes DEF TakenWereMade
  <2>4. taken'[k] = taken[k] /\ feed'[k][taken[k]] = feed[k][taken[k]]
    BY <1>3, <2>2, <2>3, FeedsGrow
  <2> QED BY <1>3, <2>2, <2>4
<1>4. ASSUME ~TakeBroadcast PROVE todo' \subseteq todo /\ current' = current
  <2>1. ASSUME NEW c \in Client, HandleWS(c) PROVE UNCHANGED <<todo, current>>
    BY <2>1 DEF HandleWS, hub
  <2>2. ASSUME NEW c \in Client, Vanish(c) \/ ReadFails(c) \/ Leave(c)
        PROVE  UNCHANGED <<todo, current>>
    BY <2>2 DEF Vanish, ReadFails, Leave, hub
  <2>3. ASSUME NEW c \in Client, Write(c) \/ WriterEnds(c)
        PROVE  UNCHANGED <<todo, current>>
    BY <2>3 DEF Write, WriterEnds, hub
  <2>4. ASSUME NEW k \in Company, BroadcastToCompany(k) PROVE UNCHANGED <<todo, current>>
    BY <2>4 DEF BroadcastToCompany, hub
  <2>5. CASE TakeRegister BY <2>5 DEF TakeRegister
  <2>6. CASE TakeUnregister BY <2>6 DEF TakeUnregister
  <2>7. ASSUME NEW c \in todo, Serve(c) \/ Evict(c)
        PROVE  todo' \subseteq todo /\ current' = current
    BY <2>7 DEF Serve, Evict
  <2>8. CASE UNCHANGED vars BY <2>8 DEF vars
  <2> QED BY <1>4, <2>1, <2>2, <2>3, <2>4, <2>5, <2>6, <2>7, <2>8 DEF Next, Serving
<1> QED BY <1>2, <1>3, <1>4

(* The client whose registration is taken is new to the hub.                 *)
LEMMA NewMember ==
  ASSUME HubInv, NotYet, TakeRegister
  PROVE  LET c == Head(register) IN
         /\ c \in Client /\ c = register[1] /\ start[c] = NotJoined /\ conn[c] # "none"
         /\ \A i \in 1 .. Len(register') :
              /\ register'[i] = register[i + 1] /\ i + 1 \in 1 .. Len(register)
              /\ register'[i] # c
<1>1. TypeOK /\ Waiting BY DEF HubInv
<1>2. register \in Seq(Client) /\ register # <<>> /\ register' = Tail(register)
  BY <1>1 DEF TypeOK, TakeRegister
<1>3. /\ Head(register) \in Client /\ Head(register) = register[1]
      /\ 1 \in 1 .. Len(register)
      /\ \A i \in 1 .. Len(register') :
           register'[i] = register[i + 1] /\ i + 1 \in 1 .. Len(register)
  BY <1>2, Receive
<1>4. Len(register) \in Nat BY <1>2
<1>5. \A i \in 1 .. Len(register') : register'[i] # Head(register)
  <2> SUFFICES ASSUME NEW i \in 1 .. Len(register'), register'[i] = Head(register)
               PROVE  FALSE
    OBVIOUS
  <2>1. register[i + 1] = register[1] /\ i + 1 \in 1 .. Len(register) BY <1>3
  <2>2. i + 1 = 1 BY <1>1, <1>3, <2>1 DEF Waiting
  <2>3. i \in Nat /\ i > 0
    <3>1. Len(register') = Len(register) - 1 BY <1>2, Receive
    <3> QED BY <1>4, <3>1
  <2> QED BY <2>2, <2>3
<1> QED BY <1>1, <1>3, <1>5 DEF Waiting, NotYet

LEMMA NotYetStep ==
  ASSUME FeedInv, [Next]_vars
  PROVE  NotYet'
<1>1. TypeOK /\ NotYet /\ HubInv /\ Handing BY DEF FeedInv, HubInv
<1>2. ASSUME NEW c \in Client, HandleWS(c) PROVE NotYet'
  <2>1. /\ register \in Seq(Client) /\ Len(register) \in Nat
        /\ register' = Append(register, c)
    BY <1>1, <1>2 DEF TypeOK, HandleWS
  <2>2. /\ Len(register') = Len(register) + 1
        /\ \A i \in 1 .. Len(register') :
             register'[i] = IF i <= Len(register) THEN register[i] ELSE c
    BY <2>1, SendTo
  <2>3. start[c] = NotJoined BY <1>1, <1>2 DEF NotYet, HandleWS
  <2>4. \A i \in 1 .. Len(register') : start[register'[i]] = NotJoined
    BY <1>1, <2>1, <2>2, <2>3 DEF NotYet
  <2>5. \A d \in Client : conn'[d] = "none" => conn[d] = "none"
    BY <1>1, <1>2 DEF HandleWS, TypeOK
  <2> QED BY <1>1, <1>2, <2>4, <2>5 DEF NotYet, HandleWS, hub
<1>3. CASE TakeRegister
  <2> DEFINE c == Head(register)
  <2>1. /\ c \in Client /\ conn[c] # "none"
        /\ \A i \in 1 .. Len(register') :
             /\ register'[i] = register[i + 1] /\ i + 1 \in 1 .. Len(register)
             /\ register'[i] # c
    BY <1>1, <1>3, NewMember
  <2>2. /\ members' = members \cup {c} /\ send' = send /\ got' = got /\ conn' = conn
        /\ start' = [start EXCEPT ![c] = taken[Owner[c]]]
    BY <1>3 DEF TakeRegister, connections
  <2>3. start'[c] \in Nat /\ start'[c] # NotJoined
    <3>1. taken[Owner[c]] \in Nat BY <1>1, <2>1, FeedTypes
    <3>2. start'[c] = taken[Owner[c]] BY <1>1, <2>1, <2>2 DEF TypeOK
    <3> QED BY <3>1, <3>2, OwnerAssumption
  <2>4. \A d \in Client : d # c => start'[d] = start[d] BY <1>1, <2>2 DEF TypeOK
  <2>5. ASSUME NEW i \in 1 .. Len(register') PROVE start'[register'[i]] = NotJoined
    <3>1. register'[i] \in Client
      <4>1. register \in Seq(Client) /\ i + 1 \in DOMAIN register BY <1>1, <2>1 DEF TypeOK
      <4> QED BY <2>1, <4>1, InRange
    <3>2. start'[register'[i]] = start[register'[i]] BY <2>1, <2>4, <3>1
    <3> QED BY <1>1, <2>1, <3>2 DEF NotYet
  <2> QED BY <1>1, <2>1, <2>2, <2>3, <2>4, <2>5 DEF NotYet
(* Other steps give nothing to clients that the hub has not taken.           *)
<1>4. ASSUME UNCHANGED <<register, start>>, members' \subseteq members,
             \A c \in Client : /\ start[c] = NotJoined =>
                                    send'[c] = <<>> /\ got'[c] = <<>>
                               /\ conn'[c] = "none" => conn[c] = "none"
      PROVE  NotYet'
  BY <1>1, <1>4 DEF NotYet
<1>5. ASSUME UNCHANGED <<register, start, members, send, got, conn>> PROVE NotYet'
  BY <1>1, <1>4, <1>5 DEF NotYet
<1>6. ASSUME NEW c \in Client, Vanish(c) PROVE NotYet'
  <2>1. \A d \in Client : conn'[d] = "none" => conn[d] = "none"
    BY <1>1, <1>6 DEF Vanish, TypeOK
  <2> QED BY <1>1, <1>4, <1>6, <2>1 DEF NotYet, Vanish, channels, hub, history
<1>7. ASSUME NEW c \in Client, ReadFails(c) PROVE NotYet'
  BY <1>5, <1>7 DEF ReadFails, channels, hub, history
<1>8. ASSUME NEW c \in Client, Leave(c) PROVE NotYet'
  <2>1. \A d \in Client : conn'[d] = "none" => conn[d] = "none"
    BY <1>1, <1>8 DEF Leave, TypeOK
  <2> QED BY <1>1, <1>4, <1>8, <2>1 DEF NotYet, Leave, hub, history
<1>9. ASSUME NEW c \in Client, Write(c) PROVE NotYet'
  <2>1. start[c] # NotJoined BY <1>1, <1>9 DEF NotYet, Write
  <2>2. \A d \in Client : d # c => send'[d] = send[d] /\ got'[d] = got[d]
    BY <1>1, <1>9 DEF Write, TypeOK
  <2>3. \A d \in Client : start[d] = NotJoined => send'[d] = <<>> /\ got'[d] = <<>>
    BY <1>1, <2>1, <2>2 DEF NotYet
  <2> QED BY <1>4, <1>9, <2>3 DEF Write, channels, hub, connections
<1>10. ASSUME NEW c \in Client, WriterEnds(c) PROVE NotYet'
  <2>1. \A d \in Client : conn'[d] = "none" => conn[d] = "none"
    BY <1>1, <1>10 DEF WriterEnds, TypeOK
  <2>2. \A d \in Client : start[d] = NotJoined => send'[d] = <<>>
    <3>1. CASE send' = send BY <1>1, <3>1 DEF NotYet
    <3>2. CASE send[c] # <<>> /\ send' = [send EXCEPT ![c] = Tail(@)]
      <4>1. start[c] # NotJoined BY <1>1, <3>2 DEF NotYet
      <4> QED BY <1>1, <3>2, <4>1 DEF NotYet, TypeOK
    <3> QED BY <1>10, <3>1, <3>2 DEF WriterEnds
  <2> QED BY <1>1, <1>4, <1>10, <2>1, <2>2 DEF NotYet, WriterEnds, channels, hub, history
<1>11. ASSUME NEW k \in Company, BroadcastToCompany(k) PROVE NotYet'
  BY <1>5, <1>11 DEF BroadcastToCompany, hub, connections
<1>12. CASE TakeUnregister
  <2>1. members' \subseteq members BY <1>12 DEF TakeUnregister
  <2> QED BY <1>1, <1>4, <1>12, <2>1 DEF NotYet, TakeUnregister, connections
<1>13. CASE TakeBroadcast BY <1>5, <1>13 DEF TakeBroadcast, connections
<1>14. ASSUME NEW c \in todo, Serve(c) PROVE NotYet'
  <2>1. c \in members /\ c \in Client BY <1>1 DEF TypeOK
  <2>2. \A d \in Client : start[d] = NotJoined => send'[d] = <<>>
    BY <1>1, <1>14, <2>1 DEF NotYet, Serve, TypeOK
  <2> QED BY <1>1, <1>4, <1>14, <2>2 DEF NotYet, Serve, channels, connections, history
<1>15. ASSUME NEW c \in todo, Evict(c) PROVE NotYet'
  BY <1>1, <1>4, <1>15 DEF NotYet, Evict, channels, connections, history
<1>16. CASE UNCHANGED vars BY <1>5, <1>16 DEF vars
<1> QED BY <1>2, <1>3, <1>6, <1>7, <1>8, <1>9, <1>10, <1>11, <1>12, <1>13, <1>14, <1>15,
           <1>16 DEF Next, Serving

(* A client of which nothing changed is still in line.                       *)
LEMMA LineRests ==
  ASSUME FeedInv, [Next]_vars, ~TakeBroadcast, NEW c \in Client,
         start'[c] = start[c], got'[c] = got[c], send'[c] = send[c],
         writer'[c] = "running" => writer[c] = "running",
         c \in members' => c \in members /\ (c \in todo' <=> c \in todo)
  PROVE  InLine(c)'
<1>1. TypeOK /\ InLine(c) /\ TakenWereMade BY DEF FeedInv, HubInv
<1> DEFINE k == Owner[c]
<1>2. /\ k \in Company /\ taken[k] \in Nat /\ taken[k] <= Len(feed[k]) /\ Len(feed[k]) \in Nat
      /\ Len(send[c]) \in Nat /\ Len(got[c]) \in Nat /\ taken'[k] = taken[k]
      /\ \A n \in 1 .. Len(feed[k]) : feed'[k][n] = feed[k][n]
  BY <1>1, FeedTypes, FeedsGrow DEF TakenWereMade
<1>3. start'[c] # NotJoined => start'[c] <= taken'[k] BY <1>1, <1>2 DEF InLine
<1>4. CASE ~Running(c)' BY <1>3, <1>4 DEF InLine
<1>5. CASE Running(c)'
  <2>1. Running(c) /\ start[c] \in Nat BY <1>1, <1>5, FeedTypes DEF Running
  <2>2. /\ start[c] + Len(got[c]) + Len(send[c]) <= taken[k]
        /\ \A i \in 1 .. Len(send[c]) : send[c][i] = feed[k][start[c] + Len(got[c]) + i]
        /\ c \in members => start[c] + Len(got[c]) + Len(send[c])
                              + (IF c \in todo THEN 1 ELSE 0) = taken[k]
    BY <1>1, <2>1 DEF InLine, Have
  <2>3. Have(c)' = start[c] + Len(got[c]) BY DEF Have
  <2>4. (Have(c) + Len(send[c]) <= taken[k])' BY <1>2, <2>2, <2>3
  <2>5. ASSUME NEW i \in 1 .. Len(send[c])
        PROVE  send'[c][i] = feed'[k][start[c] + Len(got[c]) + i]
    <3>1. start[c] + Len(got[c]) + i \in 1 .. Len(feed[k]) BY <1>2, <2>1, <2>2
    <3> QED BY <1>2, <2>2, <3>1
  <2>6. (c \in members =>
          Have(c) + Len(send[c]) + (IF c \in todo THEN 1 ELSE 0) = taken[k])'
    BY <1>2, <2>2, <2>3
  <2> QED BY <1>3, <2>3, <2>4, <2>5, <2>6 DEF InLine
<1> QED BY <1>4, <1>5

(* A client that the hub has not taken, or whose goroutine is at its end.    *)
LEMMA LineEmpty ==
  ASSUME NEW c \in Client, start'[c] = NotJoined
  PROVE  InLine(c)'
BY DEF InLine, Running

LEMMA LineTakeRegister ==
  ASSUME FeedInv, TakeRegister, NEW c \in Client
  PROVE  InLine(c)'
<1>1. TypeOK /\ HubInv /\ NotYet BY DEF FeedInv, HubInv
<1>2. /\ start' = [start EXCEPT ![Head(register)] = taken[Owner[Head(register)]]]
      /\ members' = members \cup {Head(register)}
      /\ UNCHANGED <<todo, send, writer, got, taken, feed>> /\ todo = {}
  BY DEF TakeRegister, connections, Selecting
<1>3. CASE c = Head(register)
  <2>1. start[c] = NotJoined BY <1>1, <1>3, NewMember
  <2>2. send[c] = <<>> /\ got[c] = <<>> BY <1>1, <2>1 DEF NotYet
  <2>3. start'[c] = taken[Owner[c]] /\ taken[Owner[c]] \in Nat
    BY <1>1, <1>2, <1>3, FeedTypes DEF TypeOK
  <2>4. /\ Have(c)' = taken[Owner[c]] /\ Len(send'[c]) = 0 BY <1>2, <2>2, <2>3 DEF Have
  <2>5. taken'[Owner[c]] = taken[Owner[c]] /\ todo' = {} BY <1>2
  <2> QED BY <2>3, <2>4, <2>5 DEF InLine
<1>4. CASE c # Head(register)
  <2>1. start'[c] = start[c] BY <1>1, <1>2, <1>4 DEF TypeOK
  <2>2. ~TakeBroadcast \/ UNCHANGED <<feed, taken>> BY <1>2
  <2>3. TakeBroadcast => FALSE
    <3>1. TakeBroadcast => start' = start BY DEF TakeBroadcast
    <3>2. Head(register) \in Client /\ start[Head(register)] = NotJoined
      BY <1>1, NewMember
    <3>3. start'[Head(register)] \in Nat BY <1>1, <1>2, <3>2, FeedTypes DEF TypeOK
    <3> QED BY <3>1, <3>2, <3>3, OwnerAssumption
  <2> QED BY <1>2, <1>4, <2>1, <2>3, LineRests DEF Next
<1> QED BY <1>3, <1>4

LEMMA LineTakeBroadcast ==
  ASSUME FeedInv, TakeBroadcast, NEW c \in Client
  PROVE  InLine(c)'
<1>1. TypeOK /\ InLine(c) /\ Pending /\ TakenWereMade BY DEF FeedInv, HubInv
<1> DEFINE k == Owner[c]
<1>2. /\ taken' = [taken EXCEPT ![current'.company] = @ + 1]
      /\ current'.company \in Company
      /\ todo = {} /\ todo' = {d \in members : Owner[d] = current'.company}
      /\ UNCHANGED <<members, send, writer, got, start, feed>>
  BY <1>1, PendingTake DEF TakeBroadcast, connections, Selecting, Audience
<1>3. /\ k \in Company /\ taken[k] \in Nat /\ Len(send[c]) \in Nat /\ Len(got[c]) \in Nat
      /\ start[c] # NotJoined => start[c] \in Nat
  BY <1>1, FeedTypes
<1>4. taken'[k] = IF current'.company = k THEN taken[k] + 1 ELSE taken[k]
  BY <1>1, <1>2, <1>3 DEF TypeOK
<1>5. start'[c] # NotJoined => start'[c] <= taken'[k] BY <1>1, <1>2, <1>3, <1>4 DEF InLine
<1>6. CASE Running(c)
  <2>1. Have(c) \in Nat /\ Have(c)' = Have(c) BY <1>2, <1>3, <1>6 DEF Have, Running
  <2>2. /\ Have(c) + Len(send[c]) <= taken[k]
        /\ \A i \in 1 .. Len(send[c]) : send[c][i] = feed[k][Have(c) + i]
        /\ c \in members => Have(c) + Len(send[c]) = taken[k]
    BY <1>1, <1>2, <1>3, <1>6, <2>1 DEF InLine
  <2>3. (Have(c) + Len(send[c]) <= taken[k])' BY <1>2, <1>3, <1>4, <2>1, <2>2
  <2>4. \A i \in 1 .. Len(send'[c]) : send'[c][i] = feed'[k][Have(c)' + i]
    BY <1>2, <2>1, <2>2
  <2>5. c \in members => (c \in todo' <=> current'.company = k) BY <1>2
  <2>6. (c \in members =>
          Have(c) + Len(send[c]) + (IF c \in todo THEN 1 ELSE 0) = taken[k])'
    BY <1>2, <1>3, <1>4, <2>1, <2>2, <2>5
  <2> QED BY <1>5, <2>3, <2>4, <2>6 DEF InLine
<1>7. CASE ~Running(c)
  <2>1. ~Running(c)' BY <1>2, <1>7 DEF Running
  <2> QED BY <1>5, <2>1 DEF InLine
<1> QED BY <1>6, <1>7

LEMMA LineServe ==
  ASSUME FeedInv, NEW c \in todo, Serve(c)
  PROVE  InLine(c)'
<1>1. TypeOK /\ InLine(c) /\ TakenWereMade /\ Handing /\ HandedOut /\ c \in Client
      /\ c \in members
  BY DEF FeedInv, HubInv, TypeOK
<1> DEFINE k == Owner[c]
           m == current.number
<1>2. /\ k \in Company /\ taken[k] \in Nat /\ Len(send[c]) \in Nat /\ Len(got[c]) \in Nat
      /\ start[c] # NotJoined => start[c] \in Nat
      /\ send[c] \in Seq(1 .. MaxBroadcasts)
  BY <1>1, FeedTypes
<1>3. m \in 1 .. MaxBroadcasts /\ current.company = k /\ taken[k] > 0 /\ feed[k][taken[k]] = m
  BY <1>1 DEF HandedOut, Handing, Broadcast
<1>4. send'[c] = Append(send[c], m) /\ todo' = todo \ {c}
      /\ UNCHANGED <<members, writer, got, start, feed, taken>>
  BY <1>1 DEF Serve, connections, history, TypeOK
<1> HIDE DEF m
<1>5. /\ Len(send'[c]) = Len(send[c]) + 1
      /\ \A i \in 1 .. Len(send'[c]) :
           send'[c][i] = IF i <= Len(send[c]) THEN send[c][i] ELSE m
  BY <1>2, <1>3, <1>4, SendTo
<1>6. start'[c] # NotJoined => start'[c] <= taken'[k] BY <1>1, <1>4 DEF InLine
<1>7. CASE Running(c)
  <2>1. Have(c) \in Nat /\ Have(c)' = Have(c) BY <1>2, <1>4, <1>7 DEF Have, Running
  <2>2. /\ Have(c) + Len(send[c]) + 1 = taken[k]
        /\ \A i \in 1 .. Len(send[c]) : send[c][i] = feed[k][Have(c) + i]
    BY <1>1, <1>7 DEF InLine
  <2>3. Have(c)' + Len(send'[c]) = taken'[k]
    <3>1. Have(c) \in Nat /\ Len(send[c]) \in Nat BY <1>2, <2>1
    <3>2. Have(c) + Len(send[c]) + 1 = taken[k] BY <2>2
    <3>3. Have(c) + (Len(send[c]) + 1) = taken[k] BY <3>1, <3>2
    <3> QED BY <1>4, <1>5, <2>1, <3>3
  <2>4. ASSUME NEW i \in 1 .. Len(send'[c])
        PROVE  send'[c][i] = feed'[k][Have(c)' + i]
    <3>1. CASE i <= Len(send[c])
      <4>1. i \in 1 .. Len(send[c]) BY <1>2, <1>5, <3>1
      <4> QED BY <1>4, <1>5, <2>1, <2>2, <3>1, <4>1
    <3>2. CASE ~(i <= Len(send[c]))
      <4>1. i = Len(send'[c]) /\ send'[c][i] = m BY <1>2, <1>5, <3>2
      <4>2. Have(c)' + i = taken[k] BY <1>4, <2>3, <4>1
      <4> QED BY <1>3, <1>4, <4>1, <4>2
    <3> QED BY <3>1, <3>2
  <2>5. c \notin todo' BY <1>4
  <2>6. Have(c)' \in Nat /\ Len(send'[c]) \in Nat BY <1>2, <1>5, <2>1
  <2>7. (Have(c) + Len(send[c]) <= taken[k])' BY <1>2, <1>4, <2>3
  <2>8. (Have(c) + Len(send[c]) + (IF c \in todo THEN 1 ELSE 0) = taken[k])'
    BY <2>3, <2>5, <2>6
  <2> QED BY <1>6, <2>4, <2>7, <2>8 DEF InLine
<1>8. CASE ~Running(c)
  <2>1. ~Running(c)' BY <1>4, <1>8 DEF Running
  <2> QED BY <1>6, <2>1 DEF InLine
<1> QED BY <1>7, <1>8

(* What the client is written is the next of its company's feed.             *)
LEMMA NextWritten ==
  ASSUME FeedInv, NEW c \in Client, Write(c)
  PROVE  LET next == start[c] + Len(got[c]) + 1 IN
         /\ start[c] # NotJoined /\ start[c] \in Nat
         /\ next \in 1 .. Len(feed[Owner[c]]) /\ Head(send[c]) = feed[Owner[c]][next]
         /\ got' = [got EXCEPT ![c] = Append(@, feed[Owner[c]][next])]
<1>1. TypeOK /\ InLine(c) /\ TakenWereMade /\ NotYet BY DEF FeedInv, HubInv
<1>2. writer[c] = "running" /\ send[c] # <<>>
      /\ got' = [got EXCEPT ![c] = Append(@, Head(send[c]))]
  BY DEF Write
<1>3. start[c] # NotJoined BY <1>1, <1>2 DEF NotYet
<1>4. /\ start[c] \in Nat /\ Len(got[c]) \in Nat /\ Len(send[c]) \in Nat
      /\ Owner[c] \in Company /\ Len(feed[Owner[c]]) \in Nat /\ taken[Owner[c]] \in Nat
      /\ send[c] \in Seq(1 .. MaxBroadcasts)
  BY <1>1, <1>3, FeedTypes
<1>5. 1 \in 1 .. Len(send[c]) /\ Head(send[c]) = send[c][1] BY <1>2, <1>4, Receive
<1>6. Have(c) \in Nat /\ Have(c) = start[c] + Len(got[c]) BY <1>4 DEF Have
<1>7. /\ Have(c) + Len(send[c]) <= taken[Owner[c]]
      /\ send[c][1] = feed[Owner[c]][Have(c) + 1]
  BY <1>1, <1>2, <1>3, <1>5 DEF InLine, Running
<1>8. taken[Owner[c]] <= Len(feed[Owner[c]]) BY <1>1, <1>4 DEF TakenWereMade
<1>9. Have(c) + 1 \in 1 .. Len(feed[Owner[c]])
  <2>1. Have(c) + Len(send[c]) <= taken[Owner[c]] BY <1>7
  <2>2. /\ Have(c) \in Nat /\ Len(send[c]) \in Nat /\ Len(send[c]) > 0
        /\ taken[Owner[c]] \in Nat /\ Len(feed[Owner[c]]) \in Nat
    BY <1>4, <1>5, <1>6
  <2> QED BY <1>8, <2>1, <2>2
<1> QED BY <1>2, <1>3, <1>4, <1>5, <1>6, <1>7, <1>9

LEMMA LineWrite ==
  ASSUME FeedInv, NEW c \in Client, Write(c)
  PROVE  InLine(c)'
<1>1. TypeOK /\ InLine(c) BY DEF FeedInv, HubInv
<1> DEFINE k == Owner[c]
<1>2. /\ writer[c] = "running" /\ send[c] # <<>> /\ send'[c] = Tail(send[c])
      /\ got'[c] = Append(got[c], Head(send[c]))
      /\ UNCHANGED <<members, todo, writer, start, feed, taken>>
  BY <1>1 DEF Write, TypeOK, channels, hub, connections
<1>3. /\ start[c] # NotJoined /\ start[c] \in Nat BY NextWritten
<1>4. /\ Len(got[c]) \in Nat /\ Len(send[c]) \in Nat /\ taken[k] \in Nat
      /\ send[c] \in Seq(1 .. MaxBroadcasts) /\ got[c] \in Seq(1 .. MaxBroadcasts)
  BY <1>1, FeedTypes
<1>5. /\ Head(send[c]) \in 1 .. MaxBroadcasts /\ Len(Tail(send[c])) = Len(send[c]) - 1
      /\ \A i \in 1 .. Len(Tail(send[c])) :
           Tail(send[c])[i] = send[c][i + 1] /\ i + 1 \in 1 .. Len(send[c])
  BY <1>2, <1>4, Receive
<1>6. /\ Len(send'[c]) = Len(send[c]) - 1
      /\ \A i \in 1 .. Len(send'[c]) :
           send'[c][i] = send[c][i + 1] /\ i + 1 \in 1 .. Len(send[c])
  BY <1>2, <1>5
<1>7. Len(got'[c]) = Len(got[c]) + 1 BY <1>2, <1>4, <1>5, SendTo
<1>8. Have(c) \in Nat /\ Have(c)' = Have(c) + 1
  <2>1. start[c] \in Nat /\ Len(got[c]) \in Nat /\ start'[c] = start[c]
    BY <1>2, <1>3, <1>4
  <2> QED BY <1>7, <2>1 DEF Have
<1>9. /\ start[c] <= taken[k] /\ Have(c) + Len(send[c]) <= taken[k]
      /\ \A i \in 1 .. Len(send[c]) : send[c][i] = feed[k][Have(c) + i]
      /\ c \in members =>
           Have(c) + Len(send[c]) + (IF c \in todo THEN 1 ELSE 0) = taken[k]
  BY <1>1, <1>2, <1>3 DEF InLine, Running
<1>10. Have(c)' + Len(send'[c]) = Have(c) + Len(send[c])
  <2>1. Len(send[c]) \in Nat /\ Len(send'[c]) = Len(send[c]) - 1 BY <1>4, <1>6
  <2> QED BY <1>8, <2>1
<1>11. (Have(c) + Len(send[c]) <= taken[k])' BY <1>2, <1>9, <1>10
<1>12. ASSUME NEW i \in 1 .. Len(send'[c])
       PROVE  send'[c][i] = feed'[k][Have(c)' + i]
  <2>1. send'[c][i] = feed[k][Have(c) + (i + 1)] BY <1>6, <1>9
  <2>2. Len(send'[c]) \in Int BY <1>4, <1>6
  <2>3. Have(c) + (i + 1) = Have(c)' + i BY <1>8, <2>2
  <2> QED BY <1>2, <2>1, <2>3
<1>13. (c \in members =>
         Have(c) + Len(send[c]) + (IF c \in todo THEN 1 ELSE 0) = taken[k])'
  BY <1>2, <1>9, <1>10
<1>14. (start[c] # NotJoined => start[c] <= taken[k])' BY <1>2, <1>9
<1> QED BY <1>11, <1>12, <1>13, <1>14 DEF InLine


LEMMA LineStep ==
  ASSUME FeedInv, [Next]_vars, NEW c \in Client
  PROVE  InLine(c)'
<1>1. TypeOK /\ NotYet BY DEF FeedInv, HubInv
<1>2. CASE TakeBroadcast BY <1>2, LineTakeBroadcast
<1>3. CASE TakeRegister BY <1>3, LineTakeRegister
<1> SUFFICES ASSUME ~TakeBroadcast, ~TakeRegister PROVE InLine(c)'
  BY <1>2, <1>3
<1>4. ASSUME UNCHANGED <<start, got, send, todo>>, members' \subseteq members,
             writer'[c] = "running" => writer[c] = "running"
      PROVE  InLine(c)'
  <2>1. c \in members' => c \in members /\ (c \in todo' <=> c \in todo) BY <1>4
  <2> QED BY <1>4, <2>1, LineRests
<1>5. ASSUME NEW d \in Client, HandleWS(d) PROVE InLine(c)'
  <2>1. CASE d = c
    <3>1. start'[c] = NotJoined BY <1>1, <1>5, <2>1 DEF NotYet, HandleWS
    <3> QED BY <3>1, LineEmpty
  <2>2. CASE d # c
    <3>1. writer'[c] = writer[c] BY <1>1, <1>5, <2>2 DEF TypeOK, HandleWS
    <3> QED BY <1>4, <1>5, <3>1 DEF HandleWS, hub
  <2> QED BY <2>1, <2>2
<1>6. ASSUME NEW d \in Client, Vanish(d) PROVE InLine(c)'
  BY <1>4, <1>6 DEF Vanish, channels, hub, history
<1>7. ASSUME NEW d \in Client, ReadFails(d) PROVE InLine(c)'
  BY <1>4, <1>7 DEF ReadFails, channels, hub, history
<1>8. ASSUME NEW d \in Client, Leave(d) PROVE InLine(c)'
  BY <1>4, <1>8 DEF Leave, hub, history
<1>9. ASSUME NEW d \in Client, Write(d) PROVE InLine(c)'
  <2>1. CASE d = c BY <1>9, <2>1, LineWrite
  <2>2. CASE d # c
    <3>1. send'[c] = send[c] /\ got'[c] = got[c] BY <1>1, <1>9, <2>2 DEF TypeOK, Write
    <3>2. UNCHANGED <<start, writer, members, todo>>
      BY <1>9 DEF Write, hub, connections
    <3> QED BY <3>1, <3>2, LineRests
  <2> QED BY <2>1, <2>2
<1>10. ASSUME NEW d \in Client, WriterEnds(d) PROVE InLine(c)'
  <2>0. /\ UNCHANGED <<start, got, members, todo>>
        /\ writer' = [writer EXCEPT ![d] = "done"]
    BY <1>10 DEF WriterEnds, hub, history
  <2>1. CASE d = c
    <3>1. writer'[c] = "done" BY <1>1, <2>0, <2>1 DEF TypeOK
    <3>2. ~Running(c)' BY <3>1 DEF Running
    <3>3. start'[c] # NotJoined => start'[c] <= taken'[Owner[c]]
      <4>1. InLine(c) BY DEF FeedInv
      <4>2. Owner[c] \in Company BY <1>1, FeedTypes
      <4>3. taken'[Owner[c]] = taken[Owner[c]] BY <4>2, FeedsGrow
      <4> QED BY <2>0, <4>1, <4>3 DEF InLine
    <3> QED BY <3>2, <3>3 DEF InLine
  <2>2. CASE d # c
    <3>1. send'[c] = send[c]
      <4>1. CASE send' = send BY <4>1
      <4>2. CASE send' = [send EXCEPT ![d] = Tail(@)] BY <1>1, <2>2, <4>2 DEF TypeOK
      <4> QED BY <1>10, <4>1, <4>2 DEF WriterEnds
    <3>2. writer'[c] = writer[c] BY <1>1, <2>0, <2>2 DEF TypeOK
    <3> QED BY <2>0, <3>1, <3>2, LineRests
  <2> QED BY <2>1, <2>2
<1>11. ASSUME NEW k \in Company, BroadcastToCompany(k) PROVE InLine(c)'
  BY <1>4, <1>11 DEF BroadcastToCompany, hub, connections
<1>12. CASE TakeUnregister
  <2>1. members' \subseteq members BY <1>12 DEF TakeUnregister
  <2> QED BY <1>4, <1>12, <2>1 DEF TakeUnregister, connections
<1>13. ASSUME NEW d \in todo, Serve(d) PROVE InLine(c)'
  <2>1. CASE d = c BY <1>13, <2>1, LineServe
  <2>2. CASE d # c
    <3>1. send'[c] = send[c] BY <1>1, <1>13, <2>2 DEF TypeOK, Serve
    <3>2. UNCHANGED <<start, got, writer, members>> /\ todo' = todo \ {d}
      BY <1>13 DEF Serve, connections, history
    <3> QED BY <2>2, <3>1, <3>2, LineRests
  <2> QED BY <2>1, <2>2
<1>14. ASSUME NEW d \in todo, Evict(d) PROVE InLine(c)'
  <2>1. UNCHANGED <<start, got, send, writer>> /\ todo' = todo \ {d} /\ members' = members \ {d}
    BY <1>14 DEF Evict, connections, history
  <2>2. c \in members' => c \in members /\ (c \in todo' <=> c \in todo) BY <2>1
  <2> QED BY <2>1, <2>2, LineRests
<1>15. CASE UNCHANGED vars BY <1>4, <1>15 DEF vars
<1> QED BY <1>5, <1>6, <1>7, <1>8, <1>9, <1>10, <1>11, <1>12, <1>13, <1>14, <1>15
        DEF Next, Serving

LEMMA FeedInvStep == FeedInv /\ [Next]_vars => FeedInv'
<1> SUFFICES ASSUME FeedInv, [Next]_vars PROVE FeedInv' OBVIOUS
<1>1. HubInv' BY InvStep DEF FeedInv
<1>2. Pending' /\ TakenWereMade' BY PendingStep
<1>3. Handing' /\ NotYet' BY HandingStep, NotYetStep
<1>4. \A c \in Client : InLine(c)' BY LineStep
<1> QED BY <1>1, <1>2, <1>3, <1>4 DEF FeedInv

LEMMA FeedInvariance == Spec => []FeedInv
BY FeedInit, FeedInvStep, PTL DEF Spec

-----------------------------------------------------------------------------
(* The hub implements the feed *)

LEMMA ImplementsInit == Init => Feed!Init
BY DEF Init, Feed!Init

(* Each step is a step of the feed or changes nothing that browsers see.     *)
LEMMA ImplementsStep ==
  ASSUME FeedInv, [Next]_vars
  PROVE  [Feed!Next]_(Feed!vars)
<1>1. TypeOK /\ HubInv /\ NotYet /\ TakenWereMade BY DEF FeedInv, HubInv
<1>2. ASSUME UNCHANGED <<feed, start, got>> PROVE UNCHANGED Feed!vars
  BY <1>2 DEF Feed!vars
<1>3. ASSUME NEW k \in Company, BroadcastToCompany(k) PROVE Feed!Next
  <2>1. Broadcasts + 1 \in 1 .. MaxBroadcasts BY <1>1, <1>3, Published
  <2>2. Feed!Publish(k, Broadcasts + 1)
    BY <1>3 DEF Feed!Publish, BroadcastToCompany
  <2> QED BY <2>1, <2>2 DEF Feed!Next
<1>4. CASE TakeRegister
  <2> DEFINE c == Head(register)
  <2>1. c \in Client /\ start[c] = NotJoined BY <1>1, <1>4, NewMember
  <2>2. /\ start' = [start EXCEPT ![c] = taken[Owner[c]]] /\ UNCHANGED <<feed, got>>
    BY <1>4 DEF TakeRegister
  <2>3. Owner[c] \in Company /\ taken[Owner[c]] \in Nat /\ Len(feed[Owner[c]]) \in Nat
    BY <1>1, <2>1, FeedTypes
  <2>4. taken[Owner[c]] \in 0 .. Len(feed[Owner[c]])
    BY <1>1, <2>3 DEF TakenWereMade
  <2> HIDE DEF c
  <2>5. Feed!Join(c) BY <2>1, <2>2, <2>4 DEF Feed!Join
  <2> QED BY <2>1, <2>5 DEF Feed!Next
<1>5. ASSUME NEW c \in Client, Write(c) PROVE Feed!Next
  <2>1. LET next == start[c] + Len(got[c]) + 1 IN
        /\ start[c] # NotJoined
        /\ next \in 1 .. Len(feed[Owner[c]])
        /\ got' = [got EXCEPT ![c] = Append(@, feed[Owner[c]][next])]
    BY <1>5, NextWritten
  <2>2. UNCHANGED <<feed, start>> BY <1>5 DEF Write
  <2>3. Owner[c] \in Company /\ Len(feed[Owner[c]]) \in Nat BY <1>1, FeedTypes
  <2>4. Feed!Receive(c) BY <2>1, <2>2, <2>3 DEF Feed!Receive
  <2> QED BY <2>4 DEF Feed!Next
<1>6. ASSUME NEW c \in Client,
             HandleWS(c) \/ Vanish(c) \/ ReadFails(c) \/ Leave(c) \/ WriterEnds(c)
      PROVE  UNCHANGED <<feed, start, got>>
  BY <1>6 DEF HandleWS, Vanish, ReadFails, Leave, WriterEnds, history
<1>7. CASE TakeUnregister \/ TakeBroadcast
  <2>1. UNCHANGED <<feed, start, got>> BY <1>7 DEF TakeUnregister, TakeBroadcast
  <2> QED BY <1>2, <2>1
<1>8. ASSUME NEW c \in todo, Serve(c) \/ Evict(c) PROVE UNCHANGED <<feed, start, got>>
  BY <1>8 DEF Serve, Evict, history
<1>9. CASE UNCHANGED vars BY <1>2, <1>9 DEF vars
<1> QED BY <1>2, <1>3, <1>4, <1>5, <1>6, <1>7, <1>8, <1>9 DEF Next, Serving

(* However goroutines and channels interleave, every browser receives its    *)
(* own company's broadcasts in the order they were made and without a gap,   *)
(* from its registration until it is cut off: the hub implements the feed.   *)
THEOREM ImplementsFeed == Spec => InOrder
<1>1. FeedInv /\ [Next]_vars => [Feed!Next]_(Feed!vars) BY ImplementsStep
<1> QED BY <1>1, ImplementsInit, FeedInvariance, PTL DEF Spec, InOrder, Feed!Spec
=============================================================================
