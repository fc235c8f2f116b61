---------------------------- MODULE CompanyFeed ----------------------------
(***************************************************************************)
(* What the WebSocket hub promises a browser: from the moment it joins, it *)
(* receives its company's broadcasts in the order in which they were made, *)
(* without a gap, until it is cut off.                                     *)
(***************************************************************************)
EXTENDS Naturals, Sequences

CONSTANTS Client, Company, Message, Owner, NotJoined

VARIABLES
  feed,   \* feed[k]: the broadcasts of company k
  start,  \* start[c]: how many of them were before c joined
  got     \* got[c]: what c has received

vars == <<feed, start, got>>

Init == /\ feed = [k \in Company |-> <<>>]
        /\ start = [c \in Client |-> NotJoined]
        /\ got = [c \in Client |-> <<>>]

Publish(k, n) == /\ feed' = [feed EXCEPT ![k] = Append(@, n)]
                 /\ UNCHANGED <<start, got>>

Join(c) == /\ start[c] = NotJoined
           /\ \E p \in 0 .. Len(feed[Owner[c]]) : start' = [start EXCEPT ![c] = p]
           /\ UNCHANGED <<feed, got>>

Receive(c) ==
  LET next == start[c] + Len(got[c]) + 1 IN
  /\ start[c] # NotJoined
  /\ next <= Len(feed[Owner[c]])
  /\ got' = [got EXCEPT ![c] = Append(@, feed[Owner[c]][next])]
  /\ UNCHANGED <<feed, start>>

Next == \/ \E k \in Company, n \in Message : Publish(k, n)
        \/ \E c \in Client : Join(c) \/ Receive(c)

Spec == Init /\ [][Next]_vars

=============================================================================
