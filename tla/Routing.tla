------------------------------ MODULE Routing ------------------------------
(***************************************************************************)
(* Whom a conversation belongs to.  A customer writes to one of the        *)
(* numbers, a number may belong to a company, and every part of the        *)
(* gateway finds the company in a way of its own: the webhook by the       *)
(* number that the message came to (resolveCompanyID), the worker by the   *)
(* number in the conversation's row (GetByConversationID), everything else *)
(* by the company in that row.  Both columns are written once, when the    *)
(* conversation is created; numbers are synchronised and assigned at any   *)
(* time (module PhoneSync).  Meanwhile messages, replies and receipts are  *)
(* under way, whose own course is in InboundConversation, OutboundPipeline *)
(* and DeliveryStatus.                                                     *)
(***************************************************************************)
EXTENDS Naturals, FiniteSets

CONSTANTS
  Number, Company,
  Default,   \* defaultCompanyID, the company of numbers that have none
  Customer,
  Hook,      \* webhook deliveries that may run at once
  Worker,
  None,      \* NULL
  Quota,     \* quota_limit of a company
  MaxFaults  \* bound

ASSUME RoutingAssumption ==
  /\ Default \in Company /\ None \notin Company /\ None \notin Number
  /\ None \notin Customer
  /\ IsFiniteSet(Worker) /\ Quota \in Nat /\ MaxFaults \in Nat

VARIABLES
  known, company,  \* table phone_numbers
  conv,            \* conv[k]: the row of k's conversation, None if there is none
  hook,            \* what a webhook delivery has in hand and still needs
  queued,          \* conversations with a reply in the queue
  job,             \* what a worker has in hand and still needs
  used,            \* quota_used
  faults,
  wrote,   \* history: the numbers a customer has written to,
  early,   \* the customers that wrote to one not yet synchronised,
  owners,  \* the companies that had one of wrote[k] since k wrote to it
  told,    \* companies whose browsers were told of k's conversation
  via,     \* numbers that sent k a reply
  paid     \* replies that a company has paid for

table == <<known, company>>
letters == <<wrote, early>>
routingVars == <<table, conv, hook, queued, job, used, faults, letters, owners, told, via, paid>>

Delivery == [at : {"idle", "resolve", "number", "find", "create", "tell"},
             from : Customer \cup {None}, to : Number \cup {None},
             company : Company \cup {None}, number : Number \cup {None}]

Job == [at : {"idle", "charge", "send", "refund", "tell"}, for : Customer \cup {None},
        company : Company \cup {None}, number : Number \cup {None}]

Row == [company : Company, number : Number \cup {None}]

Idle == [at |-> "idle", from |-> None, to |-> None, company |-> None, number |-> None]

RoutingTypeOK ==
  /\ known \in SUBSET Number /\ company \in [Number -> Company \cup {None}]
  /\ conv \in [Customer -> {None} \cup Row]
  /\ hook \in [Hook -> Delivery] /\ queued \in SUBSET Customer
  /\ job \in [Worker -> Job]
  /\ used \in [Company -> 0 .. Quota] /\ faults \in 0 .. MaxFaults
  /\ wrote \in [Customer -> SUBSET Number] /\ early \in SUBSET Customer
  /\ owners \in [Customer -> SUBSET Company] /\ told \in [Customer -> SUBSET Company]
  /\ via \in [Customer -> SUBSET Number] /\ paid \in [Company -> 0 .. Quota]

AtRest == [at |-> "idle", for |-> None, company |-> None, number |-> None]

RoutingInit ==
  /\ known \in SUBSET Number
  /\ company \in [Number -> Company \cup {None}]
  /\ \A n \in Number \ known : company[n] = None
  /\ conv = [k \in Customer |-> None]
  /\ hook = [h \in Hook |-> Idle]
  /\ queued = {} /\ job = [w \in Worker |-> AtRest]
  /\ used = [c \in Company |-> 0] /\ faults = 0
  /\ wrote = [k \in Customer |-> {}] /\ early = {}
  /\ owners = [k \in Customer |-> {}] /\ told = [k \in Customer |-> {}]
  /\ via = [k \in Customer |-> {}] /\ paid = [c \in Company |-> 0]

Fault == faults < MaxFaults /\ faults' = faults + 1

(* BroadcastToCompany; a company that is None has no browsers.  If a query   *)
(* before it fails, nobody is told.                                          *)
Tell(k, c) == \/ told' = [told EXCEPT ![k] = @ \cup ({c} \ {None})]
              \/ UNCHANGED told

-----------------------------------------------------------------------------
(* WhatsAppHandler.processMessage *)

(* Customer k writes to number n.                                            *)
Receive(h, k, n) ==
  /\ hook[h] = Idle
  /\ hook' = [hook EXCEPT ![h] = [Idle EXCEPT !.at = "resolve", !.from = k, !.to = n]]
  /\ wrote' = [wrote EXCEPT ![k] = @ \cup {n}]
  /\ early' = IF n \in known THEN early ELSE early \cup {k}
  /\ owners' = [owners EXCEPT
       ![k] = @ \cup {IF company[n] = None THEN Default ELSE company[n]}]
  /\ UNCHANGED <<table, conv, queued, job, used, faults, told, via, paid>>

(* resolveCompanyID: the company of the number's row, if there are both.     *)
ResolveCompanyID(n) ==
  IF n \in known /\ company[n] # None THEN company[n] ELSE Default

(* A failed query is taken for no row.                                       *)
Resolve(h) ==
  /\ hook[h].at = "resolve"
  /\ \E c \in Company :
       /\ \/ c = ResolveCompanyID(hook[h].to) /\ UNCHANGED faults
          \/ c = Default /\ Fault
       /\ hook' = [hook EXCEPT ![h].at = "number", ![h].company = c]
  /\ UNCHANGED <<table, conv, queued, job, used, letters, owners, told, via, paid>>

(* Mutant of LocalNumber: numbers without a company are passed over.         *)
LocalNumberAssigned(n) == IF n \in known /\ company[n] # None THEN n ELSE None

(* localPhoneNumberID, by a query of its own.                                *)
LocalNumber(n) == IF n \in known THEN n ELSE None

FindNumber(h) ==
  /\ hook[h].at = "number"
  /\ \E n \in Number \cup {None} :
       /\ \/ n = LocalNumber(hook[h].to) /\ UNCHANGED faults
          \/ n = None /\ Fault
       /\ hook' = [hook EXCEPT ![h].at = "find", ![h].to = None, ![h].number = n]
  /\ UNCHANGED <<table, conv, queued, job, used, letters, owners, told, via, paid>>

(* GetByPhoneNumberAndContact: a customer has one conversation, whichever    *)
(* number he writes to.                                                      *)
FindConversation(h) ==
  /\ hook[h].at = "find"
  /\ \E next \in {"tell", "create"} :
       /\ \/ next = (IF conv[hook[h].from] # None THEN "tell" ELSE "create")
             /\ UNCHANGED faults
          \/ next = "create" /\ Fault
       /\ hook' = [hook EXCEPT ![h].at = next,
                               ![h].number = IF next = "tell" THEN None ELSE @]
  /\ UNCHANGED <<table, conv, queued, job, used, letters, owners, told, via, paid>>

(* Mutant of NewRow: the company that all contacts belong to.                *)
NewRowDefault(h) == [company |-> Default, number |-> hook[h].number]

NewRow(h) == [company |-> hook[h].company, number |-> hook[h].number]

(* ConversationRepository.Create; a second row is refused (migration 016),   *)
(* and then the message is dropped.                                          *)
CreateConversation(h) ==
  /\ hook[h].at = "create"
  /\ \/ /\ conv[hook[h].from] = None
        /\ conv' = [conv EXCEPT ![hook[h].from] = NewRow(h)]
        /\ hook' = [hook EXCEPT ![h].at = "tell", ![h].number = None]
        /\ UNCHANGED faults
     \/ /\ conv[hook[h].from] # None
        /\ hook' = [hook EXCEPT ![h] = Idle]
        /\ UNCHANGED <<conv, faults>>
     \/ /\ Fault
        /\ hook' = [hook EXCEPT ![h] = Idle]
        /\ UNCHANGED conv
  /\ UNCHANGED <<table, queued, job, used, letters, owners, told, via, paid>>

(* The message is stored and shown, or was a duplicate.                      *)
Show(h) ==
  /\ hook[h].at = "tell"
  /\ Tell(hook[h].from, hook[h].company)
  /\ hook' = [hook EXCEPT ![h] = Idle]
  /\ UNCHANGED <<table, conv, queued, job, used, faults, letters, owners, via, paid>>

-----------------------------------------------------------------------------
(* Browsers, workers and receipts *)

(* SendMessage: the reply is published, the conversation's company told.     *)
SendMessage(k) ==
  /\ conv[k] # None /\ k \notin queued
  /\ queued' = queued \cup {k}
  /\ Tell(k, conv[k].company)
  /\ UNCHANGED <<table, conv, hook, job, used, faults, letters, owners, via, paid>>

(* sendTyping; a rename is not told to anyone.                               *)
SendTyping(k) ==
  /\ conv[k] # None
  /\ Tell(k, conv[k].company)
  /\ UNCHANGED <<table, conv, hook, queued, job, used, faults, letters, owners, via, paid>>

(* PhoneNumberRepository.GetByConversationID                                 *)
NumberOf(k) == {conv[k].number} \ {None}

(* The worker reads the row once; without one the reply fails for good.      *)
LookUp(w, k) ==
  /\ job[w] = AtRest /\ k \in queued
  /\ queued' = queued \ {k}
  /\ \/ /\ \E n \in NumberOf(k) :
             job' = [job EXCEPT ![w] = [at |-> "charge", for |-> k,
                                        company |-> company[n], number |-> n]]
        /\ UNCHANGED faults
     \/ NumberOf(k) = {} /\ UNCHANGED <<job, faults>>
     \/ Fault /\ UNCHANGED job
  /\ UNCHANGED <<table, conv, hook, used, letters, owners, told, via, paid>>

(* TryIncrementQuota, for a number that has a company.                       *)
Charge(w) ==
  LET c == job[w].company IN
  /\ job[w].at = "charge"
  /\ \/ c = None /\ job' = [job EXCEPT ![w].at = "send"] /\ UNCHANGED used
     \/ /\ c # None /\ used[c] < Quota
        /\ used' = [used EXCEPT ![c] = @ + 1]
        /\ job' = [job EXCEPT ![w].at = "send"]
     \/ /\ c # None /\ used[c] >= Quota
        /\ job' = [job EXCEPT ![w] = AtRest]
        /\ UNCHANGED used
  /\ UNCHANGED <<table, conv, hook, queued, faults, letters, owners, told, via, paid>>

(* SendMessageFromPhone: accepted or not.                                    *)
Send(w) ==
  LET c == job[w].company IN
  /\ job[w].at = "send"
  /\ \/ /\ via' = [via EXCEPT ![job[w].for] = @ \cup {job[w].number}]
        /\ paid' = [d \in Company |-> paid[d] + (IF d = c THEN 1 ELSE 0)]
        /\ job' = [job EXCEPT ![w].at = "tell", ![w].number = None]
     \/ /\ job' = [job EXCEPT ![w].at = "refund"]
        /\ UNCHANGED <<via, paid>>
  /\ UNCHANGED <<table, conv, hook, queued, used, faults, letters, owners, told>>

(* Mutant of Payer: the company is looked up again.                          *)
PayerNow(w) == company[job[w].number]

(* The company that was read for the reply.                                  *)
Payer(w) == job[w].company

(* DecrementQuota *)
Refund(w) ==
  /\ job[w].at = "refund"
  /\ used' = [d \in Company |-> IF d = Payer(w) /\ used[d] > 0 THEN used[d] - 1
                                                             ELSE used[d]]
  /\ job' = [job EXCEPT ![w] = AtRest]
  /\ UNCHANGED <<table, conv, hook, queued, faults, letters, owners, told, via, paid>>

(* "sent"                                                                    *)
ShowSent(w) ==
  /\ job[w].at = "tell"
  /\ Tell(job[w].for, job[w].company)
  /\ job' = [job EXCEPT ![w] = AtRest]
  /\ UNCHANGED <<table, conv, hook, queued, used, faults, letters, owners, via, paid>>

(* processStatus: a receipt for a reply; the conversation's company is told. *)
ProcessStatus(k) ==
  /\ via[k] # {}
  /\ Tell(k, conv[k].company)
  /\ UNCHANGED <<table, conv, hook, queued, job, used, faults, letters, owners, via, paid>>

-----------------------------------------------------------------------------
(* Table phone_numbers *)

(* Whoever wrote to n now belongs to c also.                                 *)
Passes(n, c) ==
  owners' = [k \in Customer |-> IF n \in wrote[k] THEN owners[k] \cup {c} ELSE owners[k]]

(* PhoneNumberRepository.Upsert by a synchronisation, which may have found a *)
(* company.                                                                  *)
Upsert(n, found) ==
  /\ known' = known \cup {n}
  /\ company' = [company EXCEPT ![n] = IF found = None THEN @ ELSE found]
  /\ IF found = None THEN UNCHANGED owners ELSE Passes(n, found)
  /\ UNCHANGED <<conv, hook, queued, job, used, faults, letters, told, via, paid>>

AssignCompany(n, c) ==
  /\ n \in known
  /\ company' = [company EXCEPT ![n] = c]
  /\ Passes(n, c)
  /\ UNCHANGED <<known, conv, hook, queued, job, used, faults, letters, told, via, paid>>

HookStep(h) ==
  \/ \E k \in Customer, n \in Number : Receive(h, k, n)
  \/ Resolve(h) \/ FindNumber(h) \/ FindConversation(h) \/ CreateConversation(h)
  \/ Show(h)

WorkerStep(w) ==
  \/ \E k \in Customer : LookUp(w, k)
  \/ Charge(w) \/ Send(w) \/ Refund(w) \/ ShowSent(w)

RoutingNext ==
  \/ \E h \in Hook : HookStep(h)
  \/ \E w \in Worker : WorkerStep(w)
  \/ \E k \in Customer : SendMessage(k) \/ SendTyping(k) \/ ProcessStatus(k)
  \/ \E n \in Number : \/ \E c \in Company \cup {None} : Upsert(n, c)
                       \/ \E c \in Company : AssignCompany(n, c)

RoutingSpec == RoutingInit /\ [][RoutingNext]_routingVars

-----------------------------------------------------------------------------
(* What becomes of a conversation *)

(* Of a customer's conversation nobody is told but companies that had one of *)
(* the numbers the customer wrote to, at some time since; though the four    *)
(* places that tell find the company by three ways, at different times, and  *)
(* numbers are assigned in between.  A query that fails may add the default  *)
(* company.                                                                  *)
OwnersAreTold ==
  \A k \in Customer :
    told[k] \subseteq owners[k] \cup (IF faults > 0 THEN {Default} ELSE {})

(* A conversation that can never be answered, since it has no number, began  *)
(* with a message to a number that was not synchronised, or with a query     *)
(* that failed.                                                              *)
NumberIsKept ==
  \A k \in Customer :
    (conv[k] # None /\ conv[k].number = None) => k \in early \/ faults > 0

(* Replies that are being sent and are charged to company c.                 *)
Charged(c) == {w \in Worker : job[w].at \in {"send", "refund"} /\ job[w].company = c}

(* A company has paid for what it was charged for, also when its number has  *)
(* been given to another company between charge and refund.                  *)
ChargesAreSettled ==
  \A c \in Company : used[c] = paid[c] + Cardinality(Charged(c))
=============================================================================
