-------------------------- MODULE OutboundPipeline --------------------------
(***************************************************************************)
(* The path of an outbound message through the gateway: the HTTP handler   *)
(* that stores it and publishes it (internal/api/handlers/outbound.go), the *)
(* RabbitMQ queue outbound_messages (internal/queue/rabbitmq.go), and the  *)
(* pool of workers that charge the company's quota, call the WhatsApp API  *)
(* and record the outcome (internal/queue/worker.go).                      *)
(*                                                                         *)
(* Every database, broker or HTTP call is one atomic step; between two of  *)
(* them any other handler or worker may run, the process may be killed,    *)
(* told to stop, or lose its broker connection.  A message row is named by *)
(* the request that inserted it: SendMessage inserts at most one row.      *)
(* The status callbacks that move a row beyond "sent" are in module        *)
(* DeliveryStatus.                                                         *)
(***************************************************************************)
EXTENDS Naturals, FiniteSets

CONSTANTS
  Request,     \* calls of POST /api/v1/messages, a client's retries included
  Worker,      \* the goroutines of the pool
  Company,     \* rows of table companies
  NoCompany,   \* a phone number not assigned to a company (company_id NULL)
  NoKey,       \* no idempotency_key in the request
  NoJob,       \* the worker holds no delivery
  KeyOf,       \* KeyOf[r]: the idempotency key of request r, or NoKey
  CompanyOf,   \* CompanyOf[r]: the company owning r's phone number, or NoCompany
  Limits,      \* the values an administrator gives quota_limit
  MaxCrashes, MaxStops, MaxDrops, MaxFaults, MaxTimeouts  \* bounds, see below

ASSUME RequestAssumption ==
  /\ IsFiniteSet(Worker)
  /\ NoJob \notin Request
  /\ NoCompany \notin Company
  /\ CompanyOf \in [Request -> Company \cup {NoCompany}]
  /\ Limits \subseteq Nat

ASSUME BoundAssumption ==
  /\ MaxCrashes \in Nat
  /\ MaxStops \in Nat
  /\ MaxDrops \in Nat
  /\ MaxFaults \in Nat
  /\ MaxTimeouts \in Nat

VARIABLES
  phase,     \* the process: "up", "stopping" (the pool's context is cancelled), "down"
  conn,      \* the AMQP connection and its only channel are open
  req,       \* req[r]: how far the handler of r has come, and its answer
  row,       \* row[r]: status of the messages row that r inserted
  copy,      \* copy[r]: the copy of r in queue outbound_messages
  inbox,     \* inbox[w]: deliveries pushed to w's consumer and not yet taken
  job,       \* job[w]: the delivery worker w is processing
  pc,        \* pc[w]: the next call worker w makes
  used,      \* companies.quota_used
  limit,     \* companies.quota_limit
  sends,     \* history: how often the WhatsApp API accepted r
  confirmed, \* history: sends of a company's messages that returned a message id
  leaked,    \* history: reservations of quota nobody will release
  billed,    \* messages with a row in billing_logs
  crashes, stops, drops, faults, timeouts  \* the disturbances so far

quotaVars == <<used, limit, confirmed, leaked>>
brokerVars == <<conn, copy, inbox>>
workerVars == <<job, pc>>
counters == <<crashes, stops, drops, faults, timeouts>>
vars == <<phase, conn, req, row, copy, inbox, job, pc, used, limit, sends,
          confirmed, leaked, billed, crashes, stops, drops, faults, timeouts>>

-----------------------------------------------------------------------------
(* Values *)

ReqState == {"new", "checked", "inserted",               \* in progress
             "created", "existing", "rejected", "aborted"} \* answered, or cut off
RowStatus == {"none", "pending", "sent", "failed"}
CopyState == {"none", "ready", "unacked", "acked"}
WorkerState == {"idle", "lookup", "reserve", "send", "refund", "fail",
                "record", "bill", "ack", "exited"}

TypeOK ==
  /\ phase \in {"up", "stopping", "down"}
  /\ conn \in BOOLEAN
  /\ req \in [Request -> ReqState]
  /\ row \in [Request -> RowStatus]
  /\ copy \in [Request -> CopyState]
  /\ inbox \in [Worker -> SUBSET Request]
  /\ job \in [Worker -> Request \cup {NoJob}]
  /\ pc \in [Worker -> WorkerState]
  /\ used \in [Company -> Nat]
  /\ limit \in [Company -> Nat]
  /\ sends \in [Request -> Nat]
  /\ confirmed \in [Company -> Nat]
  /\ leaked \in [Company -> Nat]
  /\ billed \in SUBSET Request
  /\ crashes \in Nat
  /\ stops \in Nat
  /\ drops \in Nat
  /\ faults \in Nat
  /\ timeouts \in Nat

Init ==
  /\ phase = "up"
  /\ conn = TRUE
  /\ req = [r \in Request |-> "new"]
  /\ row = [r \in Request |-> "none"]
  /\ copy = [r \in Request |-> "none"]
  /\ inbox = [w \in Worker |-> {}]
  /\ job = [w \in Worker |-> NoJob]
  /\ pc = [w \in Worker |-> "idle"]
  /\ used = [c \in Company |-> 0]
  /\ limit \in [Company -> Limits]
  /\ sends = [r \in Request |-> 0]
  /\ confirmed = [c \in Company |-> 0]
  /\ leaked = [c \in Company |-> 0]
  /\ billed = {}
  /\ crashes = 0 /\ stops = 0 /\ drops = 0 /\ faults = 0 /\ timeouts = 0

(* An unexpected error of a database call; at most MaxFaults of them. *)
Fault == faults < MaxFaults /\ faults' = faults + 1

(* A worker's calls run under the pool's context.  While it is live a call   *)
(* succeeds or meets a fault; once Stop has cancelled it every call fails.   *)
CallOk == phase = "up" /\ UNCHANGED faults
CallErr == \/ phase = "up" /\ Fault
           \/ phase = "stopping" /\ UNCHANGED faults

-----------------------------------------------------------------------------
(* OutboundHandler.SendMessage *)

(* The unique index idx_messages_idempotency_key: r's key is in the table. *)
KeyTaken(r) == /\ KeyOf[r] # NoKey
               /\ \E q \in Request : row[q] # "none" /\ KeyOf[q] = KeyOf[r]

(* A known key is answered with the existing row and nothing is published;   *)
(* an error of the lookup is treated as "no such key".                       *)
CheckKey(r) ==
  /\ phase # "down"
  /\ req[r] = "new"
  /\ \/ KeyTaken(r) /\ req' = [req EXCEPT ![r] = "existing"] /\ UNCHANGED faults
     \/ ~KeyTaken(r) /\ req' = [req EXCEPT ![r] = "checked"] /\ UNCHANGED faults
     \/ KeyTaken(r) /\ req' = [req EXCEPT ![r] = "checked"] /\ Fault
  /\ UNCHANGED <<phase, row, brokerVars, workerVars, quotaVars, sends, billed,
                 crashes, stops, drops, timeouts>>

(* Mutant of InsertRow: the table without its unique index. *)
InsertRowUnindexed(r) ==
  /\ phase # "down" /\ req[r] = "checked"
  /\ row' = [row EXCEPT ![r] = "pending"]
  /\ req' = [req EXCEPT ![r] = "inserted"]
  /\ UNCHANGED <<phase, brokerVars, workerVars, quotaVars, sends, billed, counters>>

(* The INSERT.  It fails on a key that another request stored since, or on a *)
(* fault, whose statement may have been executed all the same.               *)
InsertRow(r) ==
  /\ phase # "down"
  /\ req[r] = "checked"
  /\ \/ /\ ~KeyTaken(r)
        /\ row' = [row EXCEPT ![r] = "pending"]
        /\ req' = [req EXCEPT ![r] = "inserted"]
        /\ UNCHANGED faults
     \/ /\ KeyTaken(r)
        /\ req' = [req EXCEPT ![r] = "rejected"]
        /\ UNCHANGED <<row, faults>>
     \/ /\ Fault
        /\ req' = [req EXCEPT ![r] = "rejected"]
        /\ \/ UNCHANGED row
           \/ ~KeyTaken(r) /\ row' = [row EXCEPT ![r] = "pending"]
  /\ UNCHANGED <<phase, brokerVars, workerVars, quotaVars, sends, billed,
                 crashes, stops, drops, timeouts>>

(* PublishOutbound.  Publishing on a dead channel fails; the handler only    *)
(* logs it and answers 201 all the same.  There are no publisher confirms,   *)
(* so a publish lost in a breaking connection is the same step.              *)
PublishOutbound(r) ==
  /\ phase # "down"
  /\ req[r] = "inserted"
  /\ req' = [req EXCEPT ![r] = "created"]
  /\ IF conn THEN copy' = [copy EXCEPT ![r] = "ready"] ELSE UNCHANGED copy
  /\ UNCHANGED <<phase, conn, inbox, row, workerVars, quotaVars, sends, billed,
                 counters>>

-----------------------------------------------------------------------------
(* The queue and its consumers: five consumers on one channel, no prefetch   *)
(* limit, manual acknowledgement.                                            *)

(* The broker pushes a ready message to any consumer, also to one whose      *)
(* worker has left its loop: nothing cancels a consumer.                     *)
Deliver(r, w) ==
  /\ phase # "down" /\ conn
  /\ copy[r] = "ready"
  /\ copy' = [copy EXCEPT ![r] = "unacked"]
  /\ inbox' = [inbox EXCEPT ![w] = @ \cup {r}]
  /\ UNCHANGED <<phase, conn, req, row, workerVars, quotaVars, sends, billed,
                 counters>>

(* The select of the worker loop picks a delivery, possibly although the     *)
(* context is already cancelled: Go chooses at random among ready cases.     *)
Take(w, r) ==
  /\ pc[w] = "idle"
  /\ r \in inbox[w]
  /\ inbox' = [inbox EXCEPT ![w] = @ \ {r}]
  /\ job' = [job EXCEPT ![w] = r]
  /\ pc' = [pc EXCEPT ![w] = "lookup"]
  /\ UNCHANGED <<phase, conn, copy, req, row, quotaVars, sends, billed, counters>>

(* The worker leaves its loop when the context is cancelled, or for good     *)
(* when the connection's end has closed the delivery channel.                *)
Exit(w) ==
  /\ pc[w] = "idle"
  /\ phase = "stopping" \/ ~conn
  /\ pc' = [pc EXCEPT ![w] = "exited"]
  /\ UNCHANGED <<phase, brokerVars, req, row, job, quotaVars, sends, billed,
                 counters>>

-----------------------------------------------------------------------------
(* WorkerPool.processMessage, one action per call *)

Goto(w, from, to) == /\ pc[w] = from
                     /\ pc' = [pc EXCEPT ![w] = to]

(* Mutant of LookUp: returns without failMessage. *)
LookUpGivesUp(w) ==
  /\ \/ CallOk /\ Goto(w, "lookup", "reserve")
     \/ (CallOk \/ CallErr) /\ Goto(w, "lookup", "ack")
  /\ UNCHANGED <<phase, brokerVars, req, row, job, quotaVars, sends, billed,
                 crashes, stops, drops, timeouts>>

(* GetPhoneByConversationID and GetByConversationID: the contact's and the   *)
(* company's phone numbers.  Either may be missing at this moment.           *)
LookUp(w) ==
  /\ \/ CallOk /\ Goto(w, "lookup", "reserve")
     \/ (CallOk \/ CallErr) /\ Goto(w, "lookup", "fail")
  /\ UNCHANGED <<phase, brokerVars, req, row, job, quotaVars, sends, billed,
                 crashes, stops, drops, timeouts>>

HasQuota(c) == used[c] + 1 <= limit[c]

(* TryIncrementQuota, skipped for a number that has no company.  An error    *)
(* may hide an increment that was executed; the message then fails without   *)
(* a refund.                                                                 *)
Reserve(w) ==
  /\ pc[w] = "reserve"
  /\ LET c == CompanyOf[job[w]] IN
     \/ /\ c = NoCompany /\ Goto(w, "reserve", "send")
        /\ UNCHANGED <<used, leaked, faults>>
     \/ /\ c # NoCompany /\ CallOk /\ HasQuota(c) /\ Goto(w, "reserve", "send")
        /\ used' = [used EXCEPT ![c] = @ + 1]
        /\ UNCHANGED leaked
     \/ /\ c # NoCompany /\ CallOk /\ ~HasQuota(c) /\ Goto(w, "reserve", "fail")
        /\ UNCHANGED <<used, leaked>>
     \/ /\ c # NoCompany /\ CallErr /\ Goto(w, "reserve", "fail")
        /\ \/ UNCHANGED <<used, leaked>>
           \/ /\ HasQuota(c)
              /\ used' = [used EXCEPT ![c] = @ + 1]
              /\ leaked' = [leaked EXCEPT ![c] = @ + 1]
  /\ UNCHANGED <<phase, brokerVars, req, row, job, limit, confirmed, sends,
                 billed, crashes, stops, drops, timeouts>>

(* The API accepts the message and the worker gets its id. *)
SendAccepted(w) ==
  /\ phase = "up"
  /\ Goto(w, "send", "record")
  /\ sends' = [sends EXCEPT ![job[w]] = @ + 1]
  /\ confirmed' = [c \in Company |-> IF c = CompanyOf[job[w]] THEN confirmed[c] + 1
                                                              ELSE confirmed[c]]
  /\ UNCHANGED <<phase, brokerVars, req, row, job, used, limit, leaked, billed,
                 counters>>

(* Mutant of SendRefused: the error of the call is not looked at. *)
SendErrorIgnored(w) ==
  /\ Goto(w, "send", "record")
  /\ UNCHANGED <<phase, brokerVars, req, row, job, quotaVars, sends, billed,
                 counters>>

(* The API refuses it, or the call fails before it reaches the API. *)
SendRefused(w) ==
  /\ Goto(w, "send", "refund")
  /\ UNCHANGED <<phase, brokerVars, req, row, job, quotaVars, sends, billed,
                 counters>>

(* The API accepts it but the answer is lost: a timeout, a body that cannot  *)
(* be read, or a context cancelled meanwhile.  The worker sees an error.     *)
SendTimedOut(w) ==
  /\ \/ phase = "up" /\ timeouts < MaxTimeouts /\ timeouts' = timeouts + 1
     \/ phase = "stopping" /\ UNCHANGED timeouts
  /\ Goto(w, "send", "refund")
  /\ sends' = [sends EXCEPT ![job[w]] = @ + 1]
  /\ UNCHANGED <<phase, brokerVars, req, row, job, quotaVars, billed, crashes,
                 stops, drops, faults>>

(* Mutant of Refund: the reservation of a failed send is forgotten. *)
RefundForgotten(w) ==
  /\ Goto(w, "refund", "fail")
  /\ UNCHANGED <<phase, brokerVars, req, row, job, quotaVars, sends, billed,
                 counters>>

(* DecrementQuota with its floor at zero; its error is only logged. *)
Refund(w) ==
  LET c == CompanyOf[job[w]]
      Decremented == [used EXCEPT ![c] = IF @ > 0 THEN @ - 1 ELSE 0] IN
  /\ Goto(w, "refund", "fail")
  /\ \/ c = NoCompany /\ UNCHANGED <<used, leaked, faults>>
     \/ c # NoCompany /\ CallOk /\ used' = Decremented /\ UNCHANGED leaked
     \/ /\ c # NoCompany /\ CallErr
        /\ \/ used' = Decremented /\ UNCHANGED leaked
           \/ UNCHANGED used /\ leaked' = [leaked EXCEPT ![c] = @ + 1]
  /\ UNCHANGED <<phase, brokerVars, req, row, job, limit, confirmed, sends,
                 billed, crashes, stops, drops, timeouts>>

(* failMessage: SetFailed whatever the row's status; its error is logged. *)
SetFailed(w) ==
  /\ Goto(w, "fail", "ack")
  /\ \/ (CallOk \/ CallErr) /\ row' = [row EXCEPT ![job[w]] = "failed"]
     \/ CallErr /\ UNCHANGED row
  /\ UNCHANGED <<phase, brokerVars, req, job, quotaVars, sends, billed, crashes,
                 stops, drops, timeouts>>

(* UpdateWAMessageID: only a pending row becomes sent.  Its error, and a row *)
(* it does not match, are only logged.                                       *)
RecordSent(w) ==
  /\ Goto(w, "record", "bill")
  /\ \/ /\ CallOk \/ CallErr
        /\ row' = [row EXCEPT ![job[w]] = IF @ = "pending" THEN "sent" ELSE @]
     \/ CallErr /\ UNCHANGED row
  /\ UNCHANGED <<phase, brokerVars, req, job, quotaVars, sends, billed, crashes,
                 stops, drops, timeouts>>

(* The worker's billing log carries no template id, which the column         *)
(* template_id UUID NOT NULL of table billing_logs does not take.            *)
WorkerLogTemplate == "empty"
BillingRowAccepted(template, c) == template # "empty" /\ c # NoCompany

(* The broadcast (module WebSocketHub) and the billing log; both only log    *)
(* their errors.                                                             *)
Bill(w) ==
  /\ Goto(w, "bill", "ack")
  /\ \/ /\ CallOk
        /\ billed' = IF BillingRowAccepted(WorkerLogTemplate, CompanyOf[job[w]])
                     THEN billed \cup {job[w]} ELSE billed
     \/ CallErr /\ UNCHANGED billed
  /\ UNCHANGED <<phase, brokerVars, req, row, job, quotaVars, sends, crashes,
                 stops, drops, timeouts>>

(* Mutant of Ack: a message that failed goes back to the queue. *)
AckRequeuesFailed(w) ==
  /\ Goto(w, "ack", "idle")
  /\ copy' = [copy EXCEPT ![job[w]] = IF row[job[w]] = "failed" THEN "ready" ELSE "acked"]
  /\ job' = [job EXCEPT ![w] = NoJob]
  /\ UNCHANGED <<phase, conn, inbox, req, row, quotaVars, sends, billed, counters>>

(* Mutant of Ack: the worker returns from its loop after a failed message. *)
AckReturnsOnFailure(w) ==
  /\ Goto(w, "ack", IF row[job[w]] = "failed" THEN "exited" ELSE "idle")
  /\ copy' = [copy EXCEPT ![job[w]] = "acked"]
  /\ job' = [job EXCEPT ![w] = NoJob]
  /\ UNCHANGED <<phase, conn, inbox, req, row, quotaVars, sends, billed, counters>>

(* The delivery is acknowledged whatever became of it.  On a dead channel    *)
(* the acknowledgement fails: the broker has requeued the message already.   *)
Ack(w) ==
  /\ Goto(w, "ack", "idle")
  /\ IF conn THEN copy' = [copy EXCEPT ![job[w]] = "acked"] ELSE UNCHANGED copy
  /\ job' = [job EXCEPT ![w] = NoJob]
  /\ UNCHANGED <<phase, conn, inbox, req, row, quotaVars, sends, billed, counters>>

-----------------------------------------------------------------------------
(* The process, its connection and the administrator *)

(* Unacknowledged deliveries go back to the queue. *)
Requeued == [r \in Request |-> IF copy[r] = "unacked" THEN "ready" ELSE copy[r]]

(* WorkerPool.Stop cancels the context, then waits for the workers. *)
Stop ==
  /\ phase = "up" /\ stops < MaxStops
  /\ phase' = "stopping"
  /\ stops' = stops + 1
  /\ UNCHANGED <<brokerVars, req, row, workerVars, quotaVars, sends, billed,
                 crashes, drops, faults, timeouts>>

(* What the end of the process does to everything it held in memory. *)
ProcessEnds ==
  /\ phase' = "down"
  /\ conn' = FALSE
  /\ copy' = Requeued
  /\ inbox' = [w \in Worker |-> {}]
  /\ job' = [w \in Worker |-> NoJob]
  /\ pc' = [w \in Worker |-> "exited"]
  /\ req' = [r \in Request |-> IF req[r] \in {"checked", "inserted"} THEN "aborted"
                                                                   ELSE req[r]]
  /\ UNCHANGED <<row, used, limit, confirmed, sends, billed>>

(* Every worker has returned, Stop returns, main closes its connections. *)
ShutDown ==
  /\ phase = "stopping"
  /\ \A w \in Worker : pc[w] = "exited"
  /\ ProcessEnds
  /\ UNCHANGED <<leaked, counters>>

(* Workers that hold a reservation of company c. *)
Reserving(c) == {w \in Worker : pc[w] \in {"send", "refund"} /\ CompanyOf[job[w]] = c}

(* The process is killed; the reservations in its memory are never undone. *)
Crash ==
  /\ phase # "down" /\ crashes < MaxCrashes
  /\ crashes' = crashes + 1
  /\ ProcessEnds
  /\ leaked' = [c \in Company |-> leaked[c] + Cardinality(Reserving(c))]
  /\ UNCHANGED <<stops, drops, faults, timeouts>>

(* The container is restarted and the pool started anew. *)
Restart ==
  /\ phase = "down"
  /\ phase' = "up"
  /\ conn' = TRUE
  /\ pc' = [w \in Worker |-> "idle"]
  /\ UNCHANGED <<copy, inbox, req, row, job, quotaVars, sends, billed, counters>>

(* Mutant of ConnLoss: a new connection opens at once and the workers consume *)
(* from it, one of them still busy with a delivery of the old one.           *)
ConnLossReconnects ==
  /\ phase # "down" /\ conn /\ drops < MaxDrops
  /\ drops' = drops + 1
  /\ copy' = Requeued
  /\ inbox' = [w \in Worker |-> {}]
  /\ UNCHANGED <<phase, conn, req, row, workerVars, quotaVars, sends, billed,
                 crashes, stops, faults, timeouts>>

(* The broker connection breaks.  No code opens another one. *)
ConnLoss ==
  /\ phase # "down" /\ conn /\ drops < MaxDrops
  /\ drops' = drops + 1
  /\ conn' = FALSE
  /\ copy' = Requeued
  /\ inbox' = [w \in Worker |-> {}]
  /\ UNCHANGED <<phase, req, row, workerVars, quotaVars, sends, billed, crashes,
                 stops, faults, timeouts>>

(* CompanyService.Update writes quota_limit and leaves quota_used alone. *)
SetLimit(c, n) ==
  /\ phase # "down"
  /\ limit' = [limit EXCEPT ![c] = n]
  /\ UNCHANGED <<phase, brokerVars, req, row, workerVars, used, confirmed, leaked,
                 sends, billed, counters>>

-----------------------------------------------------------------------------
Handler(r) == CheckKey(r) \/ InsertRow(r) \/ PublishOutbound(r)

WorkerStep(w) == \/ LookUp(w) \/ Reserve(w) \/ SendAccepted(w) \/ SendRefused(w)
                 \/ SendTimedOut(w) \/ Refund(w) \/ SetFailed(w) \/ RecordSent(w)
                 \/ Bill(w) \/ Ack(w)

Next ==
  \/ \E r \in Request : Handler(r)
  \/ \E w \in Worker : WorkerStep(w) \/ Exit(w)
  \/ \E r \in Request, w \in Worker : Deliver(r, w) \/ Take(w, r)
  \/ \E c \in Company, n \in Limits : SetLimit(c, n)
  \/ Stop \/ ShutDown \/ Crash \/ Restart \/ ConnLoss

Spec == Init /\ [][Next]_vars

(* The goroutines keep running, the broker keeps delivering, and the         *)
(* container is restarted when it ends (restart: unless-stopped).  Nothing   *)
(* is assumed of clients, administrators, signals and failures.              *)
Fairness ==
  /\ \A w \in Worker : /\ WF_vars(WorkerStep(w))
                       /\ WF_vars(Exit(w))
                       /\ WF_vars(\E r \in Request : Take(w, r))
  /\ \A r \in Request : WF_vars(\E w \in Worker : Deliver(r, w))
  /\ WF_vars(ShutDown)
  /\ WF_vars(Restart)

FairSpec == Spec /\ Fairness

-----------------------------------------------------------------------------
(* Properties *)

(* Every unit of quota_used is accounted for: it pays for a confirmed send,  *)
(* or is held by a worker between reservation and outcome, or was left       *)
(* behind by a crash or a failed refund.  Hence no interleaving of workers,  *)
(* refunds and crashes makes a confirmed send free, and the floor of         *)
(* DecrementQuota never hides an error.                                      *)
QuotaAccounting ==
  \A c \in Company :
    used[c] = confirmed[c] + leaked[c] + Cardinality(Reserving(c))

RaiseWithinLimit ==
  \A c \in Company :
    used'[c] > used[c] => used'[c] = used[c] + 1 /\ used'[c] <= limit[c]

(* quota_used grows only by one and only to a value within the quota_limit   *)
(* in force at that moment, however many workers reserve at once; a lowered  *)
(* limit stops further sends but takes nothing back.                         *)
QuotaRaisedWithinLimit == [][RaiseWithinLimit]_vars

(* Deliveries a worker has in hand or in its channel. *)
Held(w) == inbox[w] \cup ({job[w]} \ {NoJob})

(* No message is in the hands of two workers at once, also when the broker   *)
(* has requeued what a disconnected worker still processes; and while the    *)
(* connection lives the unacknowledged copies are exactly the held ones.     *)
OneHolder ==
  /\ \A v, w \in Worker : v # w => Held(v) \cap Held(w) = {}
  /\ \A w \in Worker : job[w] \notin inbox[w]
  /\ conn => \A r \in Request :
               copy[r] = "unacked" <=> \E w \in Worker : r \in Held(w)

Holders == [r \in Request |-> {w \in Worker : r \in Held(w)}]

Queue == INSTANCE DeliveryQueue
           WITH Message <- Request, Consumer <- Worker, linked <- conn, holders <- Holders

(* The outbound queue, its channels and the workers' hands implement module  *)
(* DeliveryQueue: a message is published once, delivered to a worker only    *)
(* while no worker has it, acknowledged for good and only by the worker that *)
(* has it; it is delivered again only after a lost connection or the end of  *)
(* the process, and never while a worker cut off from the broker is at it.   *)
OneDeliveryAtATime == Queue!Spec

(* The recipient gets a message at most once, plus once for every crash or   *)
(* lost connection that made the broker deliver it again; an orderly stop    *)
(* never causes a second send.                                               *)
SendsBoundedByRedelivery ==
  \A r \in Request : sends[r] <= 1 + crashes + drops

(* Requests that carry the same idempotency key, even concurrent ones, store *)
(* one row and send one message between them.                                *)
OneMessagePerKey ==
  \A q, r \in Request :
    q # r /\ KeyOf[q] = KeyOf[r] /\ KeyOf[q] # NoKey
      => /\ row[q] = "none" \/ row[r] = "none"
         /\ sends[q] = 0 \/ sends[r] = 0

(* A message still "pending" is in its handler or in the queue, unless one   *)
(* of these cut it off: the process ended before it was published; it was    *)
(* published on a dead channel; its INSERT reported an error although it was *)
(* executed; or the worker's own database calls failed, which a cancelled    *)
(* context makes them do, and it acknowledged the delivery all the same.     *)
PendingIsUnderway ==
  \A r \in Request :
    row[r] = "pending" =>
      \/ req[r] = "inserted"
      \/ copy[r] \in {"ready", "unacked"}
      \/ copy[r] = "none" /\ (req[r] = "aborted" \/ drops > 0 \/ faults > 0)
      \/ copy[r] = "acked" /\ (stops > 0 \/ faults > 0)

(* The stored outcome is true: "sent" was accepted by the API, and "failed"  *)
(* was never accepted unless its answer was lost (timeout, stop) or a        *)
(* redelivery failed after a first delivery had sent it.                     *)
OutcomeIsTrue ==
  \A r \in Request :
    /\ row[r] = "sent" => sends[r] > 0
    /\ row[r] = "failed" /\ sends[r] > 0
         => timeouts + stops + crashes + drops > 0

(* Every published message is eventually taken off the queue, through crash, *)
(* stop and lost connection; it stays there for good only if the process     *)
(* runs on with its connection lost, and nobody ever stops it.               *)
QueueDrains ==
  \A r \in Request :
    copy[r] = "ready" ~> \/ copy[r] = "acked"
                        \/ [](phase = "up" /\ ~conn)

(* The comment of type RabbitMQ (internal/queue/rabbitmq.go): it wraps       *)
(* connection and channel "with reconnection support".  The code does not:   *)
(* Dial is called once, in NewRabbitMQ.                                      *)
Reconnects == (phase = "up" /\ ~conn) ~> (conn \/ phase # "up")
=============================================================================
