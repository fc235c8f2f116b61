---------------------------- MODULE WebSocketHub ----------------------------
(***************************************************************************)
(* The hub that passes broadcasts to browsers                              *)
(* (internal/api/webhook/websocket.go): one goroutine (Run) that serves    *)
(* three channels, and for each browser connection two more, readPump and  *)
(* writePump.  A client is one connection; a browser that connects again   *)
(* is another client.                                                      *)
(***************************************************************************)
EXTENDS Naturals, Sequences, FiniteSets, SequencesExt

CONSTANTS
  Client, Company,
  Owner,          \* Owner[c]: the company_id that c gave
  NotJoined,      \* the hub has not taken c's registration
  ChanCap,        \* capacity of the hub's channels (100 in the code)
  SendCap,        \* capacity of a client's Send channel (256 in the code)
  MaxBroadcasts   \* bound

ASSUME OwnerAssumption == Owner \in [Client -> Company] /\ NotJoined \notin Nat

ASSUME BoundAssumption == ChanCap \in Nat \ {0} /\ SendCap \in Nat \ {0} /\ MaxBroadcasts \in Nat

VARIABLES
  register, unregister, broadcast,  \* the channels of the hub
  members,  \* the two maps: clients, and companyMap with Owner
  current,  \* the broadcast the hub is handing out ...
  todo,     \* ... and the clients it still has to serve
  send,     \* send[c]: the channel Send
  closes,   \* closes[c]: how often Send was closed
  conn,     \* the connection: "gone" means the browser is, "closed" the server's end is
  reader, writer,  \* the goroutines readPump and writePump
  feed,     \* history: feed[k]: the broadcasts made to company k
  taken,    \* history: taken[k]: how many of them the hub has taken
  start,    \* history: taken[Owner[c]] when the hub took c's registration
  got,      \* history: got[c]: what c was sent over the connection
  overtaken \* history: clients whose departure the hub took before their registration

channels == <<register, unregister, broadcast>>
hub == <<members, current, todo>>
connections == <<conn, reader, writer>>
history == <<feed, taken, start, got, overtaken>>
vars == <<register, unregister, broadcast, members, current, todo, send, closes,
          conn, reader, writer, feed, taken, start, got, overtaken>>

Broadcast == [company : Company, number : 1 .. MaxBroadcasts]
Nothing == [company |-> CHOOSE k \in Company : TRUE, number |-> 0]

TypeOK ==
  /\ register \in Seq(Client) /\ Len(register) <= ChanCap
  /\ unregister \in Seq(Client) /\ Len(unregister) <= ChanCap
  /\ broadcast \in Seq(Broadcast) /\ Len(broadcast) <= ChanCap
  /\ members \in SUBSET Client
  /\ current \in Broadcast \cup {Nothing}
  /\ todo \in SUBSET members
  /\ send \in [Client -> Seq(1 .. MaxBroadcasts)]
  /\ \A c \in Client : Len(send[c]) <= SendCap
  /\ closes \in [Client -> Nat]
  /\ conn \in [Client -> {"none", "open", "gone", "closed"}]
  /\ reader \in [Client -> {"none", "reading", "leaving", "done"}]
  /\ writer \in [Client -> {"none", "running", "done"}]
  /\ feed \in [Company -> Seq(1 .. MaxBroadcasts)]
  /\ taken \in [Company -> Nat]
  /\ start \in [Client -> Nat \cup {NotJoined}]
  /\ got \in [Client -> Seq(1 .. MaxBroadcasts)]
  /\ overtaken \in SUBSET Client

Init ==
  /\ register = <<>> /\ unregister = <<>> /\ broadcast = <<>>
  /\ members = {} /\ current = Nothing /\ todo = {}
  /\ send = [c \in Client |-> <<>>]
  /\ closes = [c \in Client |-> 0]
  /\ conn = [c \in Client |-> "none"]
  /\ reader = [c \in Client |-> "none"]
  /\ writer = [c \in Client |-> "none"]
  /\ feed = [k \in Company |-> <<>>]
  /\ taken = [k \in Company |-> 0]
  /\ start = [c \in Client |-> NotJoined]
  /\ got = [c \in Client |-> <<>>]
  /\ overtaken = {}

Broadcasts == Cardinality(UNION {Range(feed[k]) : k \in Company})

-----------------------------------------------------------------------------
(* The callers *)

(* HandleWS: waits while register is full, then starts the two goroutines.   *)
HandleWS(c) ==
  /\ conn[c] = "none" /\ Len(register) < ChanCap
  /\ register' = Append(register, c)
  /\ conn' = [conn EXCEPT ![c] = "open"]
  /\ reader' = [reader EXCEPT ![c] = "reading"]
  /\ writer' = [writer EXCEPT ![c] = "running"]
  /\ UNCHANGED <<unregister, broadcast, hub, send, closes, feed, taken, start, got,
                 overtaken>>

(* BroadcastToCompany: waits while broadcast is full.                        *)
BroadcastToCompany(k) ==
  LET n == Broadcasts + 1 IN
  /\ n <= MaxBroadcasts /\ Len(broadcast) < ChanCap
  /\ broadcast' = Append(broadcast, [company |-> k, number |-> n])
  /\ feed' = [feed EXCEPT ![k] = Append(@, n)]
  /\ UNCHANGED <<register, unregister, hub, send, closes, connections, taken,
                 start, got, overtaken>>

(* The browser closes the connection, or no longer answers pings.            *)
Vanish(c) ==
  /\ conn[c] = "open"
  /\ conn' = [conn EXCEPT ![c] = "gone"]
  /\ UNCHANGED <<channels, hub, send, closes, reader, writer, history>>

-----------------------------------------------------------------------------
(* Run: select takes any ready channel; a broadcast is handed out before the *)
(* next select.                                                              *)

Selecting == todo = {}

TakeRegister ==
  /\ Selecting /\ register # <<>>
  /\ LET c == Head(register) IN
     /\ members' = members \cup {c}
     /\ start' = [start EXCEPT ![c] = taken[Owner[c]]]
  /\ register' = Tail(register)
  /\ UNCHANGED <<unregister, broadcast, current, todo, send, closes, connections, feed,
                 taken, got, overtaken>>

(* Mutant of Known: every client is taken for a registered one.              *)
KnownAlways(c) == TRUE

Known(c) == c \in members

TakeUnregister ==
  /\ Selecting /\ unregister # <<>>
  /\ LET c == Head(unregister) IN
     IF Known(c) THEN /\ closes' = [closes EXCEPT ![c] = @ + 1]
                      /\ members' = members \ {c}
                 ELSE UNCHANGED <<closes, members>>
  /\ unregister' = Tail(unregister)
  /\ overtaken' = overtaken \cup {c \in {Head(unregister)} : start[c] = NotJoined}
  /\ UNCHANGED <<register, broadcast, current, todo, send, connections, feed, taken,
                 start, got>>

(* Mutant of Audience: everybody.                                            *)
AudienceAll(k) == members

Audience(k) == {c \in members : Owner[c] = k}

TakeBroadcast ==
  /\ Selecting /\ broadcast # <<>>
  /\ current' = Head(broadcast)
  /\ todo' = Audience(current'.company)
  /\ taken' = [taken EXCEPT ![current'.company] = @ + 1]
  /\ broadcast' = Tail(broadcast)
  /\ UNCHANGED <<register, unregister, members, send, closes, connections, feed,
                 start, got, overtaken>>

Serve(c) ==
  /\ c \in todo /\ todo' = todo \ {c}
  /\ Len(send[c]) < SendCap
  /\ send' = [send EXCEPT ![c] = Append(@, current.number)]
  /\ UNCHANGED <<channels, members, current, closes, connections, history>>

(* Mutant of Evict: the broadcast is dropped and the client kept.            *)
EvictNot(c) ==
  /\ c \in todo /\ todo' = todo \ {c}
  /\ Len(send[c]) = SendCap
  /\ UNCHANGED <<channels, members, current, send, closes, connections, history>>

(* Send is full: the client is forgotten, then its channel closed.           *)
Evict(c) ==
  /\ c \in todo /\ todo' = todo \ {c}
  /\ Len(send[c]) = SendCap
  /\ members' = members \ {c}
  /\ closes' = [closes EXCEPT ![c] = @ + 1]
  /\ UNCHANGED <<channels, current, send, connections, history>>

-----------------------------------------------------------------------------
(* readPump and writePump *)

ReadFails(c) ==
  /\ reader[c] = "reading" /\ conn[c] \in {"gone", "closed"}
  /\ reader' = [reader EXCEPT ![c] = "leaving"]
  /\ UNCHANGED <<channels, hub, send, closes, conn, writer, history>>

(* Mutant of Leave: the connection is closed without a word to the hub.      *)
LeaveSilently(c) ==
  /\ reader[c] = "leaving"
  /\ reader' = [reader EXCEPT ![c] = "done"]
  /\ conn' = [conn EXCEPT ![c] = "closed"]
  /\ UNCHANGED <<channels, hub, send, closes, writer, history>>

(* unregisterClient, waiting while unregister is full, and closeConn.        *)
Leave(c) ==
  /\ reader[c] = "leaving" /\ Len(unregister) < ChanCap
  /\ unregister' = Append(unregister, c)
  /\ reader' = [reader EXCEPT ![c] = "done"]
  /\ conn' = [conn EXCEPT ![c] = "closed"]
  /\ UNCHANGED <<register, broadcast, hub, send, closes, writer, history>>

(* A message is written.  Written to a browser that is gone, it may still    *)
(* seem so.                                                                  *)
Write(c) ==
  /\ writer[c] = "running" /\ send[c] # <<>>
  /\ conn[c] \in {"open", "gone"}
  /\ send' = [send EXCEPT ![c] = Tail(@)]
  /\ got' = [got EXCEPT ![c] = Append(@, Head(send[c]))]
  /\ UNCHANGED <<channels, hub, closes, connections, feed, taken, start,
                 overtaken>>

Ended(c) == send[c] = <<>> /\ closes[c] > 0

(* A write fails, by the deadline of 10 seconds if for no other reason; or a *)
(* ping does; or Send is closed and empty.  The goroutine ends.              *)
WriterEnds(c) ==
  /\ writer[c] = "running"
  /\ \/ send[c] # <<>> /\ send' = [send EXCEPT ![c] = Tail(@)]
     \/ conn[c] \in {"gone", "closed"} /\ UNCHANGED send
     \/ Ended(c) /\ UNCHANGED send
  /\ writer' = [writer EXCEPT ![c] = "done"]
  /\ conn' = [conn EXCEPT ![c] = "closed"]
  /\ UNCHANGED <<channels, hub, closes, reader, history>>

Serving == \E c \in todo : Serve(c) \/ Evict(c)

Next ==
  \/ \E c \in Client : \/ HandleWS(c) \/ Vanish(c) \/ ReadFails(c) \/ Leave(c)
                       \/ Write(c) \/ WriterEnds(c)
  \/ \E k \in Company : BroadcastToCompany(k)
  \/ TakeRegister \/ TakeUnregister \/ TakeBroadcast \/ Serving

Spec == Init /\ [][Next]_vars

(* The goroutines go on; select chooses at random among the ready channels,  *)
(* so that none is passed over for ever; a write ends by its deadline.       *)
FairSpec ==
  /\ Spec
  /\ WF_vars(Serving)
  /\ SF_vars(TakeRegister) /\ SF_vars(TakeUnregister) /\ SF_vars(TakeBroadcast)
  /\ \A c \in Client : /\ WF_vars(ReadFails(c)) /\ SF_vars(Leave(c))
                       /\ WF_vars(Write(c) \/ WriterEnds(c))

-----------------------------------------------------------------------------
(* Properties *)

(* Run closes a client's channel at most once, and none that it knows or is  *)
(* serving is closed: a second close or a send would end the process.        *)
ClosedOnce ==
  \A c \in Client : closes[c] <= 1 /\ (c \in members \cup todo => closes[c] = 0)

(* A client receives a gap-free part of its own company's broadcasts, in     *)
(* their order, from its registration until it is cut off.                   *)
Feed == INSTANCE CompanyFeed WITH Message <- 1 .. MaxBroadcasts

InOrder == Feed!Spec

(* The last broadcast of its company that c has received or was too late for. *)
Reached(c) == IF start[c] = NotJoined THEN 0 ELSE start[c] + Len(got[c])

(* A registered client gets every broadcast made from then on, or its        *)
(* connection or its channel is closed: nobody is silently passed over.      *)
MembersAreTold ==
  \A c \in Client, n \in 1 .. MaxBroadcasts :
    (start[c] # NotJoined /\ n <= Len(feed[Owner[c]]))
      ~> (Reached(c) >= n \/ conn[c] # "open" \/ closes[c] > 0)

(* A client whose connection has ended is forgotten for good, unless the hub *)
(* took its departure before its registration.                               *)
DeadForgotten ==
  \A c \in Client : conn[c] = "closed" ~> [](c \notin members) \/ c \in overtaken

=============================================================================
