----------------------- MODULE OutboundPipelineProofs -----------------------
(* Theorems about OutboundPipeline, for any sets of requests, workers and    *)
(* companies and any bounds.                                                 *)
EXTENDS OutboundPipeline, FiniteSetTheorems, TLAPS

-----------------------------------------------------------------------------
(* Type correctness: the variables keep their types in every reachable       *)
(* state.  No other invariant is needed for it.                              *)

LEMMA TypeOKHandler ==
  ASSUME TypeOK, NEW r \in Request, Handler(r)
  PROVE  TypeOK'
<1>1. CASE CheckKey(r)
  BY <1>1, BoundAssumption, SMT DEF CheckKey, Fault, TypeOK, ReqState, brokerVars, workerVars, quotaVars
<1>2. CASE InsertRow(r)
  BY <1>2, BoundAssumption, SMT
  DEF InsertRow, Fault, TypeOK, ReqState, RowStatus, brokerVars, workerVars, quotaVars
<1>3. CASE PublishOutbound(r)
  BY <1>3, SMT
  DEF PublishOutbound, TypeOK, ReqState, CopyState, workerVars, quotaVars, counters
<1> QED BY <1>1, <1>2, <1>3 DEF Handler

(* Counting one more send keeps the type of the counters. *)
LEMMA SentOnceMore ==
  ASSUME NEW f \in [Request -> Nat], NEW r
  PROVE  [f EXCEPT ![r] = @ + 1] \in [Request -> Nat]
<1>1. ASSUME NEW q \in Request PROVE [f EXCEPT ![r] = @ + 1][q] \in Nat
  <2>1. f[q] \in Nat /\ f[q] + 1 \in Nat
    OBVIOUS
  <2> QED BY <2>1
<1> QED BY <1>1

LEMMA TypeOKWorker ==
  ASSUME TypeOK, NEW w \in Worker, WorkerStep(w)
  PROVE  TypeOK'
<1> USE DEF Goto, CallOk, CallErr, Fault, TypeOK, WorkerState
<1>1. CASE LookUp(w)
  BY <1>1, SMT DEF LookUp, brokerVars, quotaVars
<1>2. CASE Reserve(w)
  BY <1>2, SMT DEF Reserve, brokerVars
<1>3. CASE SendAccepted(w)
  <2>1. sends' \in [Request -> Nat]
    BY <1>3, SentOnceMore DEF SendAccepted
  <2> QED BY <1>3, <2>1, SMT DEF SendAccepted, brokerVars, counters
<1>4. CASE SendRefused(w)
  BY <1>4, SMT DEF SendRefused, brokerVars, quotaVars, counters
<1>5. CASE SendTimedOut(w)
  <2>1. sends' \in [Request -> Nat]
    BY <1>5, SentOnceMore DEF SendTimedOut
  <2> QED
    BY <1>5, <2>1, BoundAssumption, SMT DEF SendTimedOut, brokerVars, quotaVars
<1>6. CASE Refund(w)
  BY <1>6, SMT DEF Refund, brokerVars
<1>7. CASE SetFailed(w)
  BY <1>7, SMT DEF SetFailed, RowStatus, brokerVars, quotaVars
<1>8. CASE RecordSent(w)
  BY <1>8, SMT DEF RecordSent, RowStatus, brokerVars, quotaVars
<1>9. CASE Bill(w)
  <2>1. billed' \subseteq Request
    BY <1>9, SMT DEF Bill, BillingRowAccepted, WorkerLogTemplate
  <2> QED BY <1>9, <2>1, SMT DEF Bill, brokerVars, quotaVars
<1>10. CASE Ack(w)
  BY <1>10, SMT DEF Ack, CopyState, quotaVars, counters
<1> QED
  BY <1>1, <1>2, <1>3, <1>4, <1>5, <1>6, <1>7, <1>8, <1>9, <1>10 DEF WorkerStep

LEMMA TypeOKQueue ==
  ASSUME TypeOK, NEW r \in Request, NEW w \in Worker,
         Deliver(r, w) \/ Take(w, r) \/ Exit(w)
  PROVE  TypeOK'
<1>1. CASE Deliver(r, w)
  BY <1>1, SMT DEF Deliver, TypeOK, CopyState, workerVars, quotaVars, counters
<1>2. CASE Take(w, r)
  BY <1>2, SMT DEF Take, TypeOK, WorkerState, quotaVars, counters
<1>3. CASE Exit(w)
  BY <1>3, SMT DEF Exit, TypeOK, WorkerState, brokerVars, quotaVars, counters
<1> QED BY <1>1, <1>2, <1>3

(* A finite number of workers hold reservations of a company. *)
LEMMA ReservingFinite ==
  ASSUME NEW c
  PROVE  /\ IsFiniteSet(Reserving(c))
         /\ Cardinality(Reserving(c)) \in Nat
<1>1. Reserving(c) \subseteq Worker
  BY DEF Reserving
<1> QED BY <1>1, RequestAssumption, FS_Subset, FS_CardinalityType

LEMMA RequeuedType ==
  ASSUME copy \in [Request -> CopyState]
  PROVE  Requeued \in [Request -> CopyState]
BY DEF Requeued, CopyState

LEMMA ProcessEndsType ==
  ASSUME TypeOK, ProcessEnds, leaked' \in [Company -> Nat],
         crashes' \in Nat, UNCHANGED <<stops, drops, faults, timeouts>>
  PROVE  TypeOK'
<1>1. copy' \in [Request -> CopyState]
  BY RequeuedType DEF ProcessEnds, TypeOK
<1>2. req' \in [Request -> ReqState]
  BY DEF ProcessEnds, TypeOK, ReqState
<1>3. pc' \in [Worker -> WorkerState] /\ inbox' \in [Worker -> SUBSET Request]
      /\ job' \in [Worker -> Request \cup {NoJob}]
  BY DEF ProcessEnds, WorkerState
<1> QED BY <1>1, <1>2, <1>3 DEF ProcessEnds, TypeOK

LEMMA TypeOKProcess ==
  ASSUME TypeOK, Stop \/ ShutDown \/ Crash \/ Restart \/ ConnLoss
  PROVE  TypeOK'
<1>1. CASE Stop
  BY <1>1, SMT DEF Stop, TypeOK, brokerVars, workerVars, quotaVars
<1>2. CASE ShutDown
  BY <1>2, ProcessEndsType DEF ShutDown, TypeOK, counters
<1>3. CASE Crash
  <2>1. ASSUME NEW c \in Company
        PROVE  leaked[c] + Cardinality(Reserving(c)) \in Nat
    <3>1. Cardinality(Reserving(c)) \in Nat
      BY ReservingFinite
    <3> QED BY <3>1 DEF TypeOK
  <2>2. leaked' \in [Company -> Nat]
    BY <1>3, <2>1, Zenon DEF Crash
  <2> QED BY <1>3, <2>2, ProcessEndsType DEF Crash, TypeOK
<1>4. CASE Restart
  BY <1>4, SMT DEF Restart, TypeOK, WorkerState, quotaVars, counters
<1>5. CASE ConnLoss
  <2>1. copy' \in [Request -> CopyState]
    BY <1>5, RequeuedType DEF ConnLoss, TypeOK
  <2>2. inbox' \in [Worker -> SUBSET Request]
    BY <1>5 DEF ConnLoss
  <2>3. conn' \in BOOLEAN /\ drops' \in Nat
    <3>1. conn' = FALSE
      BY <1>5 DEF ConnLoss
    <3>2. drops' \in Nat
      BY <1>5 DEF ConnLoss, TypeOK
    <3> QED BY <3>1, <3>2
  <2>4. UNCHANGED <<phase, req, row, job, pc, used, limit, confirmed, leaked, sends,
                    billed, crashes, stops, faults, timeouts>>
    BY <1>5 DEF ConnLoss, workerVars, quotaVars
  <2> QED BY <2>1, <2>2, <2>3, <2>4 DEF TypeOK
<1> QED BY <1>1, <1>2, <1>3, <1>4, <1>5

LEMMA TypeOKStep == TypeOK /\ [Next]_vars => TypeOK'
<1> SUFFICES ASSUME TypeOK, [Next]_vars PROVE TypeOK'
  OBVIOUS
<1>1. CASE \E r \in Request : Handler(r)
  BY <1>1, TypeOKHandler
<1>2. CASE \E w \in Worker : WorkerStep(w)
  BY <1>2, TypeOKWorker
<1>3. CASE \E w \in Worker : Exit(w)
  <2> PICK w \in Worker : Exit(w)
    BY <1>3
  <2> QED BY SMT DEF Exit, TypeOK, WorkerState, brokerVars, quotaVars, counters
<1>4. CASE \E r \in Request, w \in Worker : Deliver(r, w) \/ Take(w, r)
  BY <1>4, TypeOKQueue
<1>5. CASE \E c \in Company, n \in Limits : SetLimit(c, n)
  BY <1>5, RequestAssumption, SMT
  DEF SetLimit, TypeOK, brokerVars, workerVars, counters
<1>6. CASE Stop \/ ShutDown \/ Crash \/ Restart \/ ConnLoss
  BY <1>6, TypeOKProcess
<1>7. CASE UNCHANGED vars
  BY <1>7, SMT DEF vars, TypeOK
<1> QED BY <1>1, <1>2, <1>3, <1>4, <1>5, <1>6, <1>7 DEF Next

LEMMA InitTypeOK == Init => TypeOK
<1> SUFFICES ASSUME Init PROVE TypeOK
  OBVIOUS
<1>1. limit \in [Company -> Nat]
  BY RequestAssumption DEF Init
<1> QED
  BY <1>1 DEF Init, TypeOK, ReqState, RowStatus, CopyState, WorkerState

(* In every reachable state the variables of the pipeline have their types. *)
THEOREM TypeCorrect == Spec => []TypeOK
BY InitTypeOK, TypeOKStep, PTL DEF Spec

-----------------------------------------------------------------------------
(* Quota accounting.  With TypeOK it is inductive: a reservation adds the    *)
(* worker to Reserving(c) and one unit to used[c]; every way out of          *)
(* Reserving(c) either takes that unit back or books it as confirmed or      *)
(* leaked.                                                                   *)

(* A process that is down has no running worker: without it, Restart would   *)
(* be allowed to forget reservations.                                        *)
DownIsIdle == phase = "down" => \A w \in Worker : pc[w] = "exited"

QuotaInv == TypeOK /\ DownIsIdle /\ QuotaAccounting

LEMMA DownIsIdleStep == TypeOK /\ DownIsIdle /\ [Next]_vars => DownIsIdle'
<1> SUFFICES ASSUME TypeOK, DownIsIdle, [Next]_vars PROVE DownIsIdle'
  OBVIOUS
<1> USE DEF DownIsIdle
<1>1. CASE \E w \in Worker : WorkerStep(w)
  <2>1. PICK w \in Worker : WorkerStep(w)
    BY <1>1
  <2>2. UNCHANGED phase /\ pc[w] # "exited"
    BY <2>1 DEF WorkerStep, LookUp, Reserve, SendAccepted, SendRefused, SendTimedOut,
                Refund, SetFailed, RecordSent, Bill, Ack, Goto
  <2> QED BY <2>2
<1>2. CASE \E r \in Request : Handler(r)
  BY <1>2 DEF Handler, CheckKey, InsertRow, PublishOutbound, workerVars
<1>3. CASE \E r \in Request, w \in Worker : Deliver(r, w) \/ Take(w, r)
  <2>1. PICK r \in Request, w \in Worker : Deliver(r, w) \/ Take(w, r)
    BY <1>3
  <2>2. UNCHANGED phase /\ (UNCHANGED pc \/ pc[w] = "idle")
    BY <2>1 DEF Deliver, Take, workerVars
  <2> QED BY <2>2
<1>4. CASE \E w \in Worker : Exit(w)
  BY <1>4 DEF Exit
<1>5. CASE \E c \in Company, n \in Limits : SetLimit(c, n)
  BY <1>5 DEF SetLimit, workerVars
<1>6. CASE Stop \/ Restart \/ ConnLoss
  BY <1>6 DEF Stop, Restart, ConnLoss, workerVars
<1>7. CASE ShutDown \/ Crash
  BY <1>7 DEF ShutDown, Crash, ProcessEnds
<1>8. CASE UNCHANGED vars
  BY <1>8 DEF vars
<1> QED BY <1>1, <1>2, <1>3, <1>4, <1>5, <1>6, <1>7, <1>8 DEF Next

(* A step that books nothing and moves no worker into or out of a            *)
(* reservation.                                                              *)
LEMMA AccountingKept ==
  ASSUME QuotaAccounting, UNCHANGED <<used, confirmed, leaked>>,
         \A c \in Company : Reserving(c)' = Reserving(c)
  PROVE  QuotaAccounting'
BY DEF QuotaAccounting

(* A worker enters or leaves the reservations of a company. *)
LEMMA ReservingGrows ==
  ASSUME NEW c, NEW w, w \notin Reserving(c), Reserving(c)' = Reserving(c) \cup {w}
  PROVE  Cardinality(Reserving(c)') = Cardinality(Reserving(c)) + 1
BY ReservingFinite, FS_AddElement

LEMMA ReservingShrinks ==
  ASSUME NEW c, NEW w, w \in Reserving(c), Reserving(c)' = Reserving(c) \ {w}
  PROVE  /\ Cardinality(Reserving(c)') = Cardinality(Reserving(c)) - 1
         /\ Cardinality(Reserving(c)) >= 1
<1>1. IsFiniteSet(Reserving(c)) /\ Cardinality(Reserving(c)) \in Nat
  BY ReservingFinite
<1>2. Cardinality(Reserving(c)) # 0
  BY <1>1, FS_EmptySet
<1>3. Cardinality(Reserving(c)') = Cardinality(Reserving(c)) - 1
  BY <1>1, FS_RemoveElement
<1> QED BY <1>1, <1>2, <1>3

(* The step of one worker between two calls that hold no reservation. *)
LEMMA MoveKeepsReserving ==
  ASSUME TypeOK, NEW w \in Worker, NEW from, NEW to, Goto(w, from, to),
         \/ from \notin {"send", "refund"} /\ to \notin {"send", "refund"}
         \/ from \in {"send", "refund"} /\ to \in {"send", "refund"},
         NEW c, UNCHANGED job
  PROVE  Reserving(c)' = Reserving(c)
BY DEF Goto, Reserving, TypeOK

(* Entering a reservation touches the worker's own company only. *)
LEMMA EnterReservation ==
  ASSUME TypeOK, NEW w \in Worker, NEW from, NEW to, Goto(w, from, to),
         from \notin {"send", "refund"}, to \in {"send", "refund"},
         NEW c, UNCHANGED job
  PROVE  /\ c = CompanyOf[job[w]] => /\ w \notin Reserving(c)
                                     /\ Reserving(c)' = Reserving(c) \cup {w}
         /\ c # CompanyOf[job[w]] => Reserving(c)' = Reserving(c)
BY DEF Goto, Reserving, TypeOK

LEMMA LeaveReservation ==
  ASSUME TypeOK, NEW w \in Worker, NEW from, NEW to, Goto(w, from, to),
         from \in {"send", "refund"}, to \notin {"send", "refund"},
         NEW c, UNCHANGED job
  PROVE  /\ c = CompanyOf[job[w]] => /\ w \in Reserving(c)
                                     /\ Reserving(c)' = Reserving(c) \ {w}
         /\ c # CompanyOf[job[w]] => Reserving(c)' = Reserving(c)
BY DEF Goto, Reserving, TypeOK

LEMMA AccountingReserve ==
  ASSUME QuotaInv, NEW w \in Worker, Reserve(w)
  PROVE  QuotaAccounting'
<1> DEFINE d == CompanyOf[job[w]]
<1> USE DEF QuotaInv
<1>1. pc[w] = "reserve" /\ UNCHANGED <<job, confirmed>>
  BY DEF Reserve
<1>2. CASE d = NoCompany /\ Goto(w, "reserve", "send") /\ UNCHANGED <<used, leaked>>
  <2>1. \A c \in Company : Reserving(c)' = Reserving(c)
    BY <1>1, <1>2, EnterReservation, RequestAssumption
  <2> QED BY <1>1, <1>2, <2>1, AccountingKept
<1>3. CASE /\ d # NoCompany /\ Goto(w, "reserve", "send")
           /\ used' = [used EXCEPT ![d] = @ + 1] /\ UNCHANGED leaked
  <2> SUFFICES ASSUME NEW c \in Company
               PROVE  used'[c] = confirmed'[c] + leaked'[c] + Cardinality(Reserving(c)')
    BY DEF QuotaAccounting
  <2>1. Cardinality(Reserving(c)) \in Nat
    BY ReservingFinite
  <2>2. used[c] = confirmed[c] + leaked[c] + Cardinality(Reserving(c))
    BY DEF QuotaAccounting
  <2>3. CASE c = d
    <3>1. Cardinality(Reserving(c)') = Cardinality(Reserving(c)) + 1
      BY <1>1, <1>3, <2>3, EnterReservation, ReservingGrows
    <3> QED BY <1>1, <1>3, <2>1, <2>2, <2>3, <3>1 DEF TypeOK
  <2>4. CASE c # d
    <3>1. Reserving(c)' = Reserving(c)
      BY <1>1, <1>3, <2>4, EnterReservation
    <3> QED BY <1>1, <1>3, <2>1, <2>2, <2>4, <3>1 DEF TypeOK
  <2> QED BY <2>3, <2>4
<1>4. CASE Goto(w, "reserve", "fail") /\ UNCHANGED <<used, leaked>>
  <2>1. \A c \in Company : Reserving(c)' = Reserving(c)
    BY <1>1, <1>4, MoveKeepsReserving
  <2> QED BY <1>1, <1>4, <2>1, AccountingKept
<1>5. CASE /\ Goto(w, "reserve", "fail")
           /\ used' = [used EXCEPT ![d] = @ + 1]
           /\ leaked' = [leaked EXCEPT ![d] = @ + 1]
  <2> SUFFICES ASSUME NEW c \in Company
               PROVE  used'[c] = confirmed'[c] + leaked'[c] + Cardinality(Reserving(c)')
    BY DEF QuotaAccounting
  <2>1. Cardinality(Reserving(c)) \in Nat /\ Reserving(c)' = Reserving(c)
    BY <1>1, <1>5, ReservingFinite, MoveKeepsReserving
  <2>2. used[c] = confirmed[c] + leaked[c] + Cardinality(Reserving(c))
    BY DEF QuotaAccounting
  <2> QED BY <1>1, <1>5, <2>1, <2>2 DEF TypeOK
<1> QED BY <1>2, <1>3, <1>4, <1>5 DEF Reserve

LEMMA AccountingSend ==
  ASSUME QuotaInv, NEW w \in Worker,
         SendAccepted(w) \/ SendRefused(w) \/ SendTimedOut(w)
  PROVE  QuotaAccounting'
<1> DEFINE d == CompanyOf[job[w]]
<1> USE DEF QuotaInv
<1>1. CASE SendAccepted(w)
  <2>1. /\ Goto(w, "send", "record") /\ UNCHANGED <<job, used, leaked>>
        /\ confirmed' = [c \in Company |-> IF c = d THEN confirmed[c] + 1 ELSE confirmed[c]]
    BY <1>1 DEF SendAccepted
  <2> SUFFICES ASSUME NEW c \in Company
               PROVE  used'[c] = confirmed'[c] + leaked'[c] + Cardinality(Reserving(c)')
    BY DEF QuotaAccounting
  <2>2. Cardinality(Reserving(c)) \in Nat
    BY ReservingFinite
  <2>3. used[c] = confirmed[c] + leaked[c] + Cardinality(Reserving(c))
    BY DEF QuotaAccounting
  <2>4. CASE c = d
    <3>1. Cardinality(Reserving(c)') = Cardinality(Reserving(c)) - 1
      BY <2>1, <2>4, LeaveReservation, ReservingShrinks
    <3> QED BY <2>1, <2>2, <2>3, <2>4, <3>1 DEF TypeOK
  <2>5. CASE c # d
    <3>1. Reserving(c)' = Reserving(c)
      BY <2>1, <2>5, LeaveReservation
    <3> QED BY <2>1, <2>3, <2>5, <3>1
  <2> QED BY <2>4, <2>5
<1>2. CASE SendRefused(w) \/ SendTimedOut(w)
  <2>1. Goto(w, "send", "refund") /\ UNCHANGED <<job, used, confirmed, leaked>>
    BY <1>2 DEF SendRefused, SendTimedOut, quotaVars
  <2>2. \A c \in Company : Reserving(c)' = Reserving(c)
    BY <2>1, MoveKeepsReserving
  <2> QED BY <2>1, <2>2, AccountingKept
<1> QED BY <1>1, <1>2

LEMMA AccountingRefund ==
  ASSUME QuotaInv, NEW w \in Worker, Refund(w)
  PROVE  QuotaAccounting'
<1> DEFINE d == CompanyOf[job[w]]
           Decremented == [used EXCEPT ![d] = IF @ > 0 THEN @ - 1 ELSE 0]
<1> USE DEF QuotaInv
<1>1. Goto(w, "refund", "fail") /\ UNCHANGED <<job, confirmed>>
  BY DEF Refund
<1>2. \/ d = NoCompany /\ UNCHANGED <<used, leaked>>
      \/ d # NoCompany /\ used' = Decremented /\ UNCHANGED leaked
      \/ d # NoCompany /\ UNCHANGED used /\ leaked' = [leaked EXCEPT ![d] = @ + 1]
  BY DEF Refund
<1> SUFFICES ASSUME NEW c \in Company
             PROVE  used'[c] = confirmed'[c] + leaked'[c] + Cardinality(Reserving(c)')
  BY DEF QuotaAccounting
<1>3. Cardinality(Reserving(c)) \in Nat
  BY ReservingFinite
<1>4. used[c] = confirmed[c] + leaked[c] + Cardinality(Reserving(c))
  BY DEF QuotaAccounting
<1>5. CASE c = d
  <2>1. /\ Cardinality(Reserving(c)') = Cardinality(Reserving(c)) - 1
        /\ Cardinality(Reserving(c)) >= 1
    BY <1>1, <1>5, LeaveReservation, ReservingShrinks
  <2>2. used[c] > 0
    BY <1>3, <1>4, <2>1 DEF TypeOK
  <2>3. c # NoCompany
    BY RequestAssumption
  <2>4. CASE used' = Decremented /\ UNCHANGED leaked
    <3>1. used'[c] = used[c] - 1
      BY <1>5, <2>2, <2>4 DEF TypeOK
    <3> QED BY <1>1, <1>3, <1>4, <2>1, <2>4, <3>1 DEF TypeOK
  <2>5. CASE UNCHANGED used /\ leaked' = [leaked EXCEPT ![d] = @ + 1]
    <3>1. leaked'[c] = leaked[c] + 1
      BY <1>5, <2>5 DEF TypeOK
    <3> QED BY <1>1, <1>3, <1>4, <2>1, <2>5, <3>1 DEF TypeOK
  <2> QED BY <1>2, <1>5, <2>3, <2>4, <2>5
<1>6. CASE c # d
  <2>1. Reserving(c)' = Reserving(c)
    BY <1>1, <1>6, LeaveReservation
  <2>2. used'[c] = used[c] /\ leaked'[c] = leaked[c]
    BY <1>2, <1>6 DEF TypeOK
  <2> QED BY <1>1, <1>4, <2>1, <2>2
<1> QED BY <1>5, <1>6

LEMMA AccountingWorker ==
  ASSUME QuotaInv, NEW w \in Worker, WorkerStep(w)
  PROVE  QuotaAccounting'
<1> USE DEF QuotaInv
<1>1. CASE Reserve(w)
  BY <1>1, AccountingReserve
<1>2. CASE SendAccepted(w) \/ SendRefused(w) \/ SendTimedOut(w)
  BY <1>2, AccountingSend
<1>3. CASE Refund(w)
  BY <1>3, AccountingRefund
<1>4. CASE LookUp(w) \/ SetFailed(w) \/ RecordSent(w) \/ Bill(w)
  <2>1. /\ UNCHANGED <<job, used, confirmed, leaked>>
        /\ \/ Goto(w, "lookup", "reserve") \/ Goto(w, "lookup", "fail")
           \/ Goto(w, "fail", "ack") \/ Goto(w, "record", "bill")
           \/ Goto(w, "bill", "ack")
    BY <1>4 DEF LookUp, SetFailed, RecordSent, Bill, quotaVars
  <2>2. \A c \in Company : Reserving(c)' = Reserving(c)
    BY <2>1, MoveKeepsReserving
  <2> QED BY <2>1, <2>2, AccountingKept
<1>5. CASE Ack(w)
  <2>1. \A c \in Company : Reserving(c)' = Reserving(c)
    BY <1>5 DEF Ack, Goto, Reserving, TypeOK
  <2> QED BY <1>5, <2>1, AccountingKept DEF Ack, quotaVars
<1> QED BY <1>1, <1>2, <1>3, <1>4, <1>5 DEF WorkerStep

LEMMA AccountingStep == QuotaInv /\ [Next]_vars => QuotaAccounting'
<1> SUFFICES ASSUME QuotaInv, [Next]_vars PROVE QuotaAccounting'
  OBVIOUS
<1> USE DEF QuotaInv
<1>1. CASE \E w \in Worker : WorkerStep(w)
  BY <1>1, AccountingWorker
<1>2. CASE \E r \in Request : Handler(r)
  <2>1. UNCHANGED <<pc, job, used, confirmed, leaked>>
    BY <1>2 DEF Handler, CheckKey, InsertRow, PublishOutbound, workerVars, quotaVars
  <2> QED BY <2>1, AccountingKept DEF Reserving
<1>3. CASE \E r \in Request, w \in Worker : Deliver(r, w) \/ Take(w, r)
  <2>1. PICK r \in Request, w \in Worker : Deliver(r, w) \/ Take(w, r)
    BY <1>3
  <2>2. UNCHANGED <<used, confirmed, leaked>>
    BY <2>1 DEF Deliver, Take, quotaVars
  <2>3. \A c \in Company : Reserving(c)' = Reserving(c)
    BY <2>1 DEF Deliver, Take, Reserving, TypeOK, workerVars
  <2> QED BY <2>2, <2>3, AccountingKept
<1>4. CASE \E w \in Worker : Exit(w)
  <2>1. UNCHANGED <<used, confirmed, leaked>>
    BY <1>4 DEF Exit, quotaVars
  <2>2. \A c \in Company : Reserving(c)' = Reserving(c)
    BY <1>4 DEF Exit, Reserving, TypeOK
  <2> QED BY <2>1, <2>2, AccountingKept
<1>5. CASE \E c \in Company, n \in Limits : SetLimit(c, n)
  <2>1. UNCHANGED <<pc, job, used, confirmed, leaked>>
    BY <1>5 DEF SetLimit, workerVars
  <2> QED BY <2>1, AccountingKept DEF Reserving
<1>6. CASE Stop \/ ConnLoss
  <2>1. UNCHANGED <<pc, job, used, confirmed, leaked>>
    BY <1>6 DEF Stop, ConnLoss, workerVars, quotaVars
  <2> QED BY <2>1, AccountingKept DEF Reserving
<1>7. CASE ShutDown \/ Restart
  <2>1. UNCHANGED <<used, confirmed, leaked>>
    BY <1>7 DEF ShutDown, ProcessEnds, Restart, quotaVars
  <2>2. \A c \in Company : Reserving(c)' = {}
    BY <1>7 DEF ShutDown, ProcessEnds, Restart, Reserving
  <2>3. \A c \in Company : Reserving(c) = {}
    BY <1>7 DEF ShutDown, Restart, Reserving, DownIsIdle
  <2> QED BY <2>1, <2>2, <2>3, AccountingKept
<1>8. CASE Crash
  <2> SUFFICES ASSUME NEW c \in Company
               PROVE  used'[c] = confirmed'[c] + leaked'[c] + Cardinality(Reserving(c)')
    BY DEF QuotaAccounting
  <2>1. used' = used /\ confirmed' = confirmed
        /\ leaked'[c] = leaked[c] + Cardinality(Reserving(c))
    BY <1>8 DEF Crash, ProcessEnds
  <2>2. Reserving(c)' = {}
    BY <1>8 DEF Crash, ProcessEnds, Reserving
  <2>3. Cardinality(Reserving(c)') = 0
    BY <2>2, FS_EmptySet
  <2>4. used[c] = confirmed[c] + leaked[c] + Cardinality(Reserving(c))
    BY DEF QuotaAccounting
  <2>5. Cardinality(Reserving(c)) \in Nat
    BY ReservingFinite
  <2> QED BY <2>1, <2>3, <2>4, <2>5 DEF TypeOK
<1>9. CASE UNCHANGED vars
  <2>1. UNCHANGED <<pc, job, used, confirmed, leaked>>
    BY <1>9 DEF vars
  <2> QED BY <2>1, AccountingKept DEF Reserving
<1> QED BY <1>1, <1>2, <1>3, <1>4, <1>5, <1>6, <1>7, <1>8, <1>9 DEF Next

(* In every reachable state each unit of quota_used is a confirmed send, a   *)
(* reservation in a worker's hands, or one lost to a crash or a failed       *)
(* refund: TryIncrementQuota and DecrementQuota stay balanced under every    *)
(* interleaving of any number of workers.                                    *)
THEOREM QuotaCorrect == Spec => []QuotaAccounting
<1>1. Init => QuotaInv
  <2> SUFFICES ASSUME Init PROVE QuotaInv
    OBVIOUS
  <2>1. TypeOK
    BY InitTypeOK
  <2>2. DownIsIdle
    BY DEF Init, DownIsIdle
  <2>3. \A c \in Company : Reserving(c) = {}
    BY DEF Init, Reserving
  <2>4. QuotaAccounting
    <3>1. Cardinality({}) = 0
      BY FS_EmptySet
    <3>2. \A c \in Company : used[c] = 0 /\ confirmed[c] = 0 /\ leaked[c] = 0
      BY DEF Init
    <3> QED BY <2>3, <3>1, <3>2 DEF QuotaAccounting
  <2> QED BY <2>1, <2>2, <2>4 DEF QuotaInv
<1>2. QuotaInv /\ [Next]_vars => QuotaInv'
  BY TypeOKStep, DownIsIdleStep, AccountingStep DEF QuotaInv
<1>3. QuotaInv => QuotaAccounting
  BY DEF QuotaInv
<1> QED BY <1>1, <1>2, <1>3, PTL DEF Spec

-----------------------------------------------------------------------------
(* The limit in force.  Only TryIncrementQuota raises quota_used. *)

LEMMA RaiseStep == TypeOK /\ [Next]_vars => RaiseWithinLimit
<1> SUFFICES ASSUME TypeOK, [Next]_vars, NEW c \in Company, used'[c] > used[c]
             PROVE  used'[c] = used[c] + 1 /\ used'[c] <= limit[c]
  BY DEF RaiseWithinLimit
<1>1. used[c] \in Nat /\ limit[c] \in Nat
  BY DEF TypeOK
<1>2. used' # used
  BY <1>1
<1>3. CASE \E w \in Worker : Reserve(w)
  <2>1. PICK w \in Worker : Reserve(w)
    BY <1>3
  <2>2. /\ HasQuota(CompanyOf[job[w]])
        /\ used' = [used EXCEPT ![CompanyOf[job[w]]] = @ + 1]
    BY <1>2, <2>1 DEF Reserve
  <2>3. c = CompanyOf[job[w]]
    BY <1>1, <2>2 DEF TypeOK
  <2> QED BY <1>1, <2>2, <2>3 DEF HasQuota, TypeOK
<1>4. CASE \E w \in Worker : Refund(w)
  <2>1. PICK w \in Worker : Refund(w)
    BY <1>4
  <2>2. used' = [used EXCEPT ![CompanyOf[job[w]]] = IF @ > 0 THEN @ - 1 ELSE 0]
    BY <1>2, <2>1 DEF Refund
  <2>3. used'[c] <= used[c]
    BY <1>1, <2>2 DEF TypeOK
  <2> QED BY <1>1, <2>2, <2>3 DEF TypeOK
<1>5. ASSUME NEW w \in Worker, WorkerStep(w), ~Reserve(w), ~Refund(w)
      PROVE  used' = used
  BY <1>5 DEF WorkerStep, LookUp, SendAccepted, SendRefused, SendTimedOut, SetFailed,
              RecordSent, Bill, Ack, quotaVars
<1>6. ASSUME NEW r \in Request, Handler(r) PROVE used' = used
  BY <1>6 DEF Handler, CheckKey, InsertRow, PublishOutbound, quotaVars
<1>7. ASSUME NEW w \in Worker, NEW r \in Request, Deliver(r, w) \/ Take(w, r)
      PROVE  used' = used
  BY <1>7 DEF Deliver, Take, quotaVars
<1>8. ASSUME NEW w \in Worker, Exit(w) PROVE used' = used
  BY <1>8 DEF Exit, quotaVars
<1>9. ASSUME NEW d \in Company, NEW n \in Limits, SetLimit(d, n) PROVE used' = used
  BY <1>9 DEF SetLimit
<1>10. ASSUME Stop \/ ShutDown \/ Crash \/ Restart \/ ConnLoss PROVE used' = used
  BY <1>10 DEF Stop, ShutDown, Crash, ProcessEnds, Restart, ConnLoss, quotaVars
<1>11. ASSUME UNCHANGED vars PROVE used' = used
  BY <1>11 DEF vars
<1> QED
  BY <1>2, <1>3, <1>4, <1>5, <1>6, <1>7, <1>8, <1>9, <1>10, <1>11 DEF Next

(* No step of any handler, worker or administrator takes quota_used past the *)
(* quota_limit of that moment: the test and the increment are one UPDATE.    *)
THEOREM QuotaLimitRespected == Spec => QuotaRaisedWithinLimit
<1>1. TypeOK /\ [Next]_vars => [RaiseWithinLimit]_vars
  BY RaiseStep
<1> QED BY <1>1, TypeCorrect, PTL DEF Spec, QuotaRaisedWithinLimit

-----------------------------------------------------------------------------
(* Who holds a message *)

(* Without a connection nothing is unacknowledged or waits in a channel, and *)
(* a process that is down has none.                                          *)
Offline == /\ phase = "down" => ~conn
           /\ ~conn => /\ \A w \in Worker : inbox[w] = {}
                       /\ \A r \in Request : copy[r] # "unacked"

Busy == \A w \in Worker : pc[w] \in {"idle", "exited"} <=> job[w] = NoJob

Published == \A r \in Request : copy[r] # "none" => req[r] = "created"

(* The copy of a message in a worker's hands was not acknowledged.           *)
Taken == \A w \in Worker : \A r \in Held(w) : copy[r] \in {"ready", "unacked"}

HolderInv ==
  TypeOK /\ DownIsIdle /\ Offline /\ Busy /\ Published /\ Taken /\ OneHolder

LEMMA HolderInit == Init => HolderInv
<1> SUFFICES ASSUME Init PROVE HolderInv
  OBVIOUS
<1>1. TypeOK
  BY InitTypeOK
<1>2. DownIsIdle /\ Offline /\ Busy /\ Published
  BY DEF Init, DownIsIdle, Offline, Busy, Published
<1>3. \A w \in Worker : Held(w) = {}
  BY DEF Init, Held
<1>4. Taken /\ OneHolder
  BY <1>3, RequestAssumption DEF Init, Taken, OneHolder
<1> QED BY <1>1, <1>2, <1>4 DEF HolderInv

(* A worker's steps up to the acknowledgement stay with its delivery.        *)
LEMMA AtWork ==
  ASSUME NEW w \in Worker, WorkerStep(w), ~Ack(w)
  PROVE  /\ UNCHANGED <<phase, conn, copy, inbox, req, job>>
         /\ pc[w] \notin {"idle", "exited"}
         /\ \E to : to \notin {"idle", "exited"} /\ pc' = [pc EXCEPT ![w] = to]
BY DEF WorkerStep, LookUp, Reserve, SendAccepted, SendRefused, SendTimedOut,
       Refund, SetFailed, RecordSent, Bill, Goto, brokerVars

(* Steps that leave queue, channels and hands alone.                         *)
LEMMA HolderSame ==
  ASSUME HolderInv, UNCHANGED <<conn, copy, inbox, job>>,
         phase' = "down" => phase = "down",
         \A w \in Worker : pc'[w] \in {"idle", "exited"} <=> pc[w] \in {"idle", "exited"},
         \A r \in Request : req[r] = "created" => req'[r] = "created"
  PROVE  Offline' /\ Busy' /\ Published' /\ Taken' /\ OneHolder'
<1>0. Offline /\ Busy /\ Published /\ Taken /\ OneHolder
  BY DEF HolderInv
<1>1. \A w \in Worker : Held(w)' = Held(w)
  BY DEF Held
<1>2. Offline' /\ Busy' /\ Published'
  BY <1>0 DEF Offline, Busy, Published
<1>3. Taken'
  BY <1>0, <1>1 DEF Taken
<1>4. OneHolder'
  BY <1>0, <1>1 DEF OneHolder
<1> QED BY <1>2, <1>3, <1>4

LEMMA HolderPublish ==
  ASSUME HolderInv, NEW r \in Request, PublishOutbound(r)
  PROVE  Offline' /\ Busy' /\ Published' /\ Taken' /\ OneHolder'
<1>0. TypeOK /\ Offline /\ Busy /\ Published /\ Taken /\ OneHolder
  BY DEF HolderInv
<1>1. /\ req[r] = "inserted" /\ req' = [req EXCEPT ![r] = "created"]
      /\ copy' = IF conn THEN [copy EXCEPT ![r] = "ready"] ELSE copy
      /\ UNCHANGED <<phase, conn, inbox, job, pc>>
  BY DEF PublishOutbound, workerVars
<1>2. copy[r] = "none"
  BY <1>0, <1>1 DEF Published
<1>3. \A w \in Worker : Held(w)' = Held(w) /\ r \notin Held(w)
  BY <1>0, <1>1, <1>2 DEF Held, Taken
<1>4. Offline' /\ Busy'
  BY <1>0, <1>1 DEF Offline, Busy, TypeOK
<1>5. Published'
  BY <1>0, <1>1 DEF Published, TypeOK
<1>6. Taken'
  BY <1>0, <1>1, <1>3 DEF Taken, TypeOK
<1>7. OneHolder'
  <2>1. \A q \in Request : q # r => copy'[q] = copy[q]
    BY <1>0, <1>1 DEF TypeOK
  <2>2. copy'[r] # "unacked"
    BY <1>0, <1>1, <1>2 DEF TypeOK
  <2> QED BY <1>0, <1>1, <1>3, <2>1, <2>2 DEF OneHolder
<1> QED BY <1>4, <1>5, <1>6, <1>7

LEMMA HolderDeliver ==
  ASSUME HolderInv, NEW r \in Request, NEW w \in Worker, Deliver(r, w)
  PROVE  Offline' /\ Busy' /\ Published' /\ Taken' /\ OneHolder'
<1>0. TypeOK /\ Offline /\ Busy /\ Published /\ Taken /\ OneHolder
  BY DEF HolderInv
<1>1. /\ phase # "down" /\ conn /\ copy[r] = "ready"
      /\ copy' = [copy EXCEPT ![r] = "unacked"]
      /\ inbox' = [inbox EXCEPT ![w] = @ \cup {r}]
      /\ UNCHANGED <<phase, conn, req, job, pc>>
  BY DEF Deliver, workerVars
<1>2. \A v \in Worker : r \notin Held(v)
  BY <1>0, <1>1 DEF OneHolder
<1>3. /\ Held(w)' = Held(w) \cup {r}
      /\ \A v \in Worker : v # w => Held(v)' = Held(v)
  BY <1>0, <1>1 DEF Held, TypeOK
<1>4. Offline' /\ Busy' /\ Published'
  BY <1>0, <1>1 DEF Offline, Busy, Published, TypeOK
<1>5. Taken'
  BY <1>0, <1>1, <1>3 DEF Taken, TypeOK
<1>6. \A q \in Request : copy'[q] = IF q = r THEN "unacked" ELSE copy[q]
  BY <1>0, <1>1 DEF TypeOK
<1>7. \A v \in Worker : job[v] \notin inbox'[v]
  <2>1. \A v \in Worker : job[v] # r
    BY <1>2, RequestAssumption DEF Held
  <2> QED BY <1>0, <1>1, <2>1 DEF OneHolder, TypeOK
<1>8. \A u, v \in Worker : u # v => Held(u)' \cap Held(v)' = {}
  BY <1>0, <1>2, <1>3 DEF OneHolder
<1>9. \A q \in Request : copy'[q] = "unacked" <=> \E v \in Worker : q \in Held(v)'
  BY <1>0, <1>1, <1>3, <1>6 DEF OneHolder
<1> QED BY <1>1, <1>4, <1>5, <1>7, <1>8, <1>9 DEF OneHolder

LEMMA HolderTake ==
  ASSUME HolderInv, NEW w \in Worker, NEW r \in Request, Take(w, r)
  PROVE  Offline' /\ Busy' /\ Published' /\ Taken' /\ OneHolder'
<1>0. TypeOK /\ Offline /\ Busy /\ Published /\ Taken /\ OneHolder
  BY DEF HolderInv
<1>1. /\ pc[w] = "idle" /\ r \in inbox[w]
      /\ inbox' = [inbox EXCEPT ![w] = @ \ {r}]
      /\ job' = [job EXCEPT ![w] = r] /\ pc' = [pc EXCEPT ![w] = "lookup"]
      /\ UNCHANGED <<phase, conn, copy, req>>
  BY DEF Take
<1>2. job[w] = NoJob /\ r # NoJob
  BY <1>0, <1>1, RequestAssumption DEF Busy
<1>3. \A v \in Worker : Held(v)' = Held(v)
  BY <1>0, <1>1, <1>2 DEF Held, TypeOK
<1>4. Offline' /\ Published'
  BY <1>0, <1>1 DEF Offline, Published, TypeOK
<1>5. Busy'
  BY <1>0, <1>1, <1>2 DEF Busy, TypeOK
<1>6. Taken'
  BY <1>0, <1>1, <1>3 DEF Taken
<1>7. \A v \in Worker : job'[v] \notin inbox'[v]
  BY <1>0, <1>1 DEF OneHolder, TypeOK
<1>8. OneHolder'
  BY <1>0, <1>1, <1>3, <1>7 DEF OneHolder
<1> QED BY <1>4, <1>5, <1>6, <1>8

LEMMA HolderAck ==
  ASSUME HolderInv, NEW w \in Worker, Ack(w)
  PROVE  Offline' /\ Busy' /\ Published' /\ Taken' /\ OneHolder'
<1>0. TypeOK /\ Offline /\ Busy /\ Published /\ Taken /\ OneHolder
  BY DEF HolderInv
<1> DEFINE r == job[w]
<1>1. /\ pc[w] = "ack" /\ pc' = [pc EXCEPT ![w] = "idle"]
      /\ copy' = IF conn THEN [copy EXCEPT ![r] = "acked"] ELSE copy
      /\ job' = [job EXCEPT ![w] = NoJob]
      /\ UNCHANGED <<phase, conn, inbox, req>>
  BY DEF Ack, Goto
<1>2. r \in Request /\ r \in Held(w)
  BY <1>0, <1>1 DEF Busy, TypeOK, Held
<1>3. /\ Held(w)' = Held(w) \ {r}
      /\ \A v \in Worker : v # w => Held(v)' = Held(v) /\ r \notin Held(v)
  BY <1>0, <1>1, <1>2 DEF Held, TypeOK, OneHolder
<1>4. \A q \in Request : copy'[q] = IF conn /\ q = r THEN "acked" ELSE copy[q]
  BY <1>0, <1>1, <1>2 DEF TypeOK
<1>5. Offline'
  BY <1>0, <1>1, <1>4 DEF Offline
<1>6. Busy'
  BY <1>0, <1>1 DEF Busy, TypeOK
<1>7. Published'
  <2>1. copy[r] # "none"
    BY <1>0, <1>2 DEF Taken
  <2> QED BY <1>0, <1>1, <1>2, <1>4, <2>1 DEF Published
<1>8. \A v \in Worker : Held(v) \subseteq Request
  BY <1>0 DEF Held, TypeOK
<1>9. Taken'
  BY <1>0, <1>3, <1>4, <1>8 DEF Taken
<1>10. \A v \in Worker : job'[v] \notin inbox'[v]
  BY <1>0, <1>1, RequestAssumption DEF OneHolder, TypeOK
<1>11. OneHolder'
  BY <1>0, <1>1, <1>2, <1>3, <1>4, <1>10 DEF OneHolder
<1> QED BY <1>5, <1>6, <1>7, <1>9, <1>11

(* What the end of the process leaves behind.                                *)
LEMMA HolderEnds ==
  ASSUME HolderInv, ProcessEnds
  PROVE  /\ Offline' /\ Busy' /\ Published' /\ Taken' /\ OneHolder'
         /\ \A r \in Request :
              copy'[r] = IF copy[r] = "unacked" THEN "ready" ELSE copy[r]
<1>0. TypeOK /\ Published
  BY DEF HolderInv
<1>1. /\ phase' = "down" /\ conn' = FALSE
      /\ \A r \in Request : copy'[r] = IF copy[r] = "unacked" THEN "ready" ELSE copy[r]
      /\ inbox' = [w \in Worker |-> {}] /\ job' = [w \in Worker |-> NoJob]
      /\ pc' = [w \in Worker |-> "exited"]
      /\ \A r \in Request : req[r] = "created" => req'[r] = "created"
  BY DEF ProcessEnds, Requeued
<1>2. \A w \in Worker : Held(w)' = {}
  BY <1>1 DEF Held
<1>3. Offline' /\ Busy'
  BY <1>1 DEF Offline, Busy
<1>4. Published'
  BY <1>0, <1>1 DEF Published
<1>5. Taken' /\ OneHolder'
  BY <1>1, <1>2, RequestAssumption DEF Taken, OneHolder
<1> QED BY <1>1, <1>3, <1>4, <1>5

LEMMA HolderRestart ==
  ASSUME HolderInv, Restart
  PROVE  Offline' /\ Busy' /\ Published' /\ Taken' /\ OneHolder'
<1>0. TypeOK /\ DownIsIdle /\ Offline /\ Busy /\ Published /\ Taken /\ OneHolder
  BY DEF HolderInv
<1>1. /\ phase = "down" /\ phase' = "up" /\ conn' = TRUE
      /\ pc' = [w \in Worker |-> "idle"]
      /\ UNCHANGED <<copy, inbox, req, job>>
  BY DEF Restart
<1>2. \A w \in Worker : job[w] = NoJob /\ inbox[w] = {}
  BY <1>0, <1>1 DEF DownIsIdle, Busy, Offline
<1>3. \A w \in Worker : Held(w)' = {}
  BY <1>1, <1>2 DEF Held
<1>4. \A r \in Request : copy[r] # "unacked"
  BY <1>0, <1>1 DEF Offline
<1>5. Offline' /\ Published'
  BY <1>0, <1>1 DEF Offline, Published
<1>6. Busy'
  BY <1>1, <1>2 DEF Busy
<1>7. Taken' /\ OneHolder'
  BY <1>1, <1>2, <1>3, <1>4 DEF Taken, OneHolder
<1> QED BY <1>5, <1>6, <1>7

LEMMA HolderLoss ==
  ASSUME HolderInv, ConnLoss
  PROVE  Offline' /\ Busy' /\ Published' /\ Taken' /\ OneHolder'
<1>0. TypeOK /\ Offline /\ Busy /\ Published /\ Taken /\ OneHolder
  BY DEF HolderInv
<1>1. /\ phase # "down" /\ conn' = FALSE
      /\ \A r \in Request : copy'[r] = IF copy[r] = "unacked" THEN "ready" ELSE copy[r]
      /\ inbox' = [w \in Worker |-> {}]
      /\ UNCHANGED <<phase, req, job, pc>>
  BY DEF ConnLoss, Requeued, workerVars
<1>2. \A w \in Worker : Held(w)' \subseteq Held(w) /\ Held(w) \subseteq Request
  BY <1>0, <1>1 DEF Held, TypeOK
<1>3. Offline' /\ Busy' /\ Published'
  BY <1>0, <1>1 DEF Offline, Busy, Published
<1>4. Taken'
  BY <1>0, <1>1, <1>2 DEF Taken
<1>5. OneHolder'
  BY <1>0, <1>1, <1>2 DEF OneHolder
<1> QED BY <1>3, <1>4, <1>5

LEMMA HolderStep == HolderInv /\ [Next]_vars => HolderInv'
<1> SUFFICES ASSUME HolderInv, [Next]_vars PROVE HolderInv'
  OBVIOUS
<1>0. TypeOK' /\ DownIsIdle'
  BY TypeOKStep, DownIsIdleStep DEF HolderInv
<1> DEFINE Kept == Offline /\ Busy /\ Published /\ Taken /\ OneHolder
<1>1. ASSUME NEW w \in Worker, WorkerStep(w), ~Ack(w) PROVE Kept'
  <2>1. pc \in [Worker -> WorkerState]
    BY DEF HolderInv, TypeOK
  <2> QED BY <1>1, <2>1, AtWork, HolderSame
<1>2. ASSUME NEW r \in Request, CheckKey(r) \/ InsertRow(r) PROVE Kept'
  <2>1. /\ UNCHANGED <<phase, conn, copy, inbox, job, pc>> /\ req[r] # "created"
        /\ \A q \in Request : q # r => req'[q] = req[q]
    BY <1>2 DEF CheckKey, InsertRow, brokerVars, workerVars, HolderInv, TypeOK
  <2> QED BY <2>1, HolderSame
<1>3. ASSUME NEW w \in Worker, Exit(w) PROVE Kept'
  <2>1. UNCHANGED <<phase, conn, copy, inbox, job, req>>
        /\ pc[w] = "idle" /\ pc' = [pc EXCEPT ![w] = "exited"]
    BY <1>3 DEF Exit, brokerVars
  <2>2. pc \in [Worker -> WorkerState]
    BY DEF HolderInv, TypeOK
  <2> QED BY <2>1, <2>2, HolderSame
<1>4. ASSUME \/ \E c \in Company, n \in Limits : SetLimit(c, n)
             \/ UNCHANGED vars
      PROVE  Kept'
  <2>1. UNCHANGED <<phase, conn, copy, inbox, job, pc, req>>
    BY <1>4 DEF SetLimit, vars, brokerVars, workerVars
  <2> QED BY <2>1, HolderSame
<1>5. ASSUME Stop PROVE Kept'
  <2>1. UNCHANGED <<conn, copy, inbox, job, pc, req>> /\ phase' # "down"
    BY <1>5 DEF Stop, brokerVars, workerVars
  <2> QED BY <2>1, HolderSame
<1>6. ASSUME ShutDown \/ Crash PROVE Kept'
  BY <1>6, HolderEnds DEF ShutDown, Crash
<1>7. Kept'
  BY <1>1, <1>2, <1>3, <1>4, <1>5, <1>6, HolderPublish, HolderDeliver, HolderTake,
     HolderAck, HolderRestart, HolderLoss
  DEF Next, Handler
<1> QED BY <1>0, <1>7 DEF HolderInv

(* No message is in the hands of two workers at once.                        *)
THEOREM OneHolderEach == Spec => []OneHolder
<1>1. HolderInv => OneHolder
  BY DEF HolderInv
<1> QED BY <1>1, HolderInit, HolderStep, PTL DEF Spec

-----------------------------------------------------------------------------
(* The pipeline implements DeliveryQueue *)

LEMMA HoldersAre ==
  /\ Holders \in [Request -> SUBSET Worker]
  /\ \A r \in Request : \A w \in Worker : w \in Holders[r] <=> r \in Held(w)
BY DEF Holders

(* Steps that change neither the queue nor who has what in hand.             *)
LEMMA QueueSame ==
  ASSUME UNCHANGED <<conn, copy>>, \A w \in Worker : Held(w)' = Held(w)
  PROVE  UNCHANGED Queue!vars
<1>1. \A r \in Request : {w \in Worker : (r \in Held(w))'} = {w \in Worker : r \in Held(w)}
  OBVIOUS
<1>2. Holders' = Holders
  BY <1>1 DEF Holders
<1> QED BY <1>2 DEF Queue!vars

(* A step that changes who has message r in hand, and no other message.      *)
LEMMA HoldersChange ==
  ASSUME NEW r \in Request, NEW S \in SUBSET Worker,
         \A w \in Worker : (r \in Held(w))' <=> w \in S,
         \A q \in Request \ {r} : \A w \in Worker : (q \in Held(w))' <=> q \in Held(w)
  PROVE  Holders' = [Holders EXCEPT ![r] = S]
<1>1. \A q \in Request : {w \in Worker : (q \in Held(w))'}
                           = IF q = r THEN S ELSE {w \in Worker : q \in Held(w)}
  OBVIOUS
<1>2. Holders' = [q \in Request |-> {w \in Worker : (q \in Held(w))'}]
  BY DEF Holders
<1>3. Holders' = [q \in Request |-> IF q = r THEN S ELSE {w \in Worker : q \in Held(w)}]
  BY <1>1, <1>2
<1> QED BY <1>3 DEF Holders

LEMMA QueuePublish ==
  ASSUME HolderInv, NEW r \in Request, PublishOutbound(r)
  PROVE  Queue!Publish(r) \/ UNCHANGED Queue!vars
<1>1. /\ req[r] = "inserted"
      /\ copy' = IF conn THEN [copy EXCEPT ![r] = "ready"] ELSE copy
      /\ UNCHANGED <<conn, inbox, job>>
  BY DEF PublishOutbound, workerVars
<1>2. \A w \in Worker : Held(w)' = Held(w)
  BY <1>1 DEF Held
<1>3. CASE ~conn
  BY <1>1, <1>2, <1>3, QueueSame
<1>4. CASE conn
  <2>1. copy[r] = "none"
    BY <1>1 DEF HolderInv, Published
  <2>2. Holders' = Holders
    <3>1. \A q \in Request : {w \in Worker : (q \in Held(w))'} = {w \in Worker : q \in Held(w)}
      BY <1>2
    <3> QED BY <3>1 DEF Holders
  <2> QED BY <1>1, <1>4, <2>1, <2>2 DEF Queue!Publish
<1> QED BY <1>3, <1>4

LEMMA QueueDeliver ==
  ASSUME HolderInv, NEW r \in Request, NEW w \in Worker, Deliver(r, w)
  PROVE  Queue!Deliver(r, w)
<1>0. TypeOK /\ OneHolder
  BY DEF HolderInv
<1>1. /\ conn /\ copy[r] = "ready"
      /\ copy' = [copy EXCEPT ![r] = "unacked"]
      /\ inbox' = [inbox EXCEPT ![w] = @ \cup {r}]
      /\ UNCHANGED <<conn, job>>
  BY DEF Deliver, workerVars
<1>2. \A v \in Worker : r \notin Held(v)
  BY <1>0, <1>1 DEF OneHolder
<1>3. Holders[r] = {}
  BY <1>2 DEF Holders
<1>4. /\ Held(w)' = Held(w) \cup {r}
      /\ \A v \in Worker : v # w => Held(v)' = Held(v)
  BY <1>0, <1>1 DEF Held, TypeOK
<1>5. Holders' = [Holders EXCEPT ![r] = {w}]
  <2>1. \A v \in Worker : (r \in Held(v))' <=> v \in {w}
    BY <1>2, <1>4
  <2>2. \A q \in Request \ {r} : \A v \in Worker : (q \in Held(v))' <=> q \in Held(v)
    BY <1>4
  <2>3. {w} \in SUBSET Worker
    OBVIOUS
  <2> QED BY <2>1, <2>2, <2>3, HoldersChange
<1> QED BY <1>1, <1>3, <1>5 DEF Queue!Deliver

(* An acknowledgement is the holder's; on a dead channel it is lost.         *)
LEMMA QueueAck ==
  ASSUME HolderInv, NEW w \in Worker, Ack(w)
  PROVE  \E r \in Request : Queue!Acknowledge(r, w) \/ Queue!LetGo(r, w)
<1>0. TypeOK /\ Busy /\ OneHolder
  BY DEF HolderInv
<1>a. pc[w] = "ack"
  BY DEF Ack, Goto
<1>b. PICK r \in Request : r = job[w]
  BY <1>0, <1>a DEF Busy, TypeOK
<1>1. /\ pc[w] = "ack"
      /\ copy' = IF conn THEN [copy EXCEPT ![r] = "acked"] ELSE copy
      /\ job' = [job EXCEPT ![w] = NoJob]
      /\ UNCHANGED <<conn, inbox>>
  BY <1>b DEF Ack, Goto
<1>2. r \in Held(w)
  BY <1>0, <1>1, <1>b, RequestAssumption DEF Held
<1>3. /\ Held(w)' = Held(w) \ {r}
      /\ \A v \in Worker : v # w => Held(v)' = Held(v) /\ r \notin Held(v)
  BY <1>0, <1>1, <1>2, <1>b, RequestAssumption DEF Held, TypeOK, OneHolder
<1>4. Holders[r] = {w}
  BY <1>2, <1>3 DEF Holders
<1>5. Holders' = [Holders EXCEPT ![r] = {}]
  <2>1. \A v \in Worker : (r \in Held(v))' <=> v \in {}
    BY <1>3
  <2>2. \A q \in Request \ {r} : \A v \in Worker : (q \in Held(v))' <=> q \in Held(v)
    BY <1>3
  <2>3. {} \in SUBSET Worker
    OBVIOUS
  <2> QED BY <1>2, <2>1, <2>2, <2>3, HoldersChange
<1>6. CASE conn
  <2>1. copy[r] = "unacked"
    BY <1>0, <1>2, <1>6 DEF OneHolder
  <2> QED BY <1>1, <1>4, <1>5, <1>6, <2>1 DEF Queue!Acknowledge
<1>7. CASE ~conn
  BY <1>1, <1>4, <1>5, <1>7 DEF Queue!LetGo
<1> QED BY <1>6, <1>7

LEMMA QueueUnlink ==
  ASSUME HolderInv, ConnLoss \/ ProcessEnds
  PROVE  Queue!Unlink
<1>1. conn' = FALSE /\ copy' = Requeued /\ inbox' = [w \in Worker |-> {}]
  BY DEF ConnLoss, ProcessEnds
<1>2. job' = job \/ job' = [w \in Worker |-> NoJob]
  BY DEF ConnLoss, ProcessEnds, workerVars
<1>3. \A w \in Worker : Held(w)' \subseteq Held(w)
  BY <1>1, <1>2 DEF Held
<1>4. Holders' = [r \in Request |-> {w \in Worker : (r \in Held(w))'}]
  BY DEF Holders
<1>5. Holders' \in [Request -> SUBSET Worker]
  BY <1>4
<1>6. \A r \in Request : Holders'[r] \subseteq Holders[r]
  BY <1>3, <1>4 DEF Holders
<1> QED BY <1>1, <1>5, <1>6 DEF Queue!Unlink, Requeued

(* No worker has anything in hand when the process starts again.             *)
LEMMA QueueRelink ==
  ASSUME HolderInv, Restart
  PROVE  Queue!Relink
<1>0. DownIsIdle /\ Offline /\ Busy
  BY DEF HolderInv
<1>1. phase = "down" /\ conn' = TRUE /\ UNCHANGED <<copy, inbox, job>>
  BY DEF Restart
<1>2. ~conn
  BY <1>0, <1>1 DEF Offline
<1>3. \A w \in Worker : Held(w) = {} /\ Held(w)' = Held(w)
  BY <1>0, <1>1, <1>2 DEF DownIsIdle, Busy, Offline, Held
<1>4. \A r \in Request : Holders[r] = {}
  BY <1>3 DEF Holders
<1>5. \A r \in Request : {w \in Worker : (r \in Held(w))'} = {w \in Worker : r \in Held(w)}
  BY <1>3
<1>6. Holders' = Holders
  BY <1>5 DEF Holders
<1> QED BY <1>1, <1>2, <1>4, <1>6 DEF Queue!Relink

LEMMA QueueStep == HolderInv /\ [Next]_vars => [Queue!Next]_(Queue!vars)
<1> SUFFICES ASSUME HolderInv, [Next]_vars
             PROVE  Queue!Next \/ UNCHANGED Queue!vars
  OBVIOUS
<1>1. ASSUME UNCHANGED <<conn, copy, inbox, job>> PROVE UNCHANGED Queue!vars
  <2>1. \A w \in Worker : Held(w)' = Held(w)
    BY <1>1 DEF Held
  <2> QED BY <1>1, <2>1, QueueSame
<1>2. ASSUME NEW w \in Worker, WorkerStep(w), ~Ack(w) PROVE UNCHANGED Queue!vars
  BY <1>1, <1>2, AtWork
<1>3. ASSUME NEW w \in Worker, Ack(w) PROVE Queue!Next
  BY <1>3, QueueAck DEF Queue!Next
<1>4. ASSUME \/ \E r \in Request : CheckKey(r) \/ InsertRow(r)
             \/ \E w \in Worker : Exit(w)
             \/ \E c \in Company, n \in Limits : SetLimit(c, n)
             \/ Stop
             \/ UNCHANGED vars
      PROVE  UNCHANGED Queue!vars
  BY <1>1, <1>4 DEF CheckKey, InsertRow, Exit, SetLimit, Stop, vars, brokerVars, workerVars
<1>5. ASSUME NEW r \in Request, PublishOutbound(r) PROVE Queue!Next \/ UNCHANGED Queue!vars
  BY <1>5, QueuePublish DEF Queue!Next
<1>6. ASSUME NEW r \in Request, NEW w \in Worker, Deliver(r, w) PROVE Queue!Next
  BY <1>6, QueueDeliver DEF Queue!Next
<1>7. ASSUME NEW w \in Worker, NEW r \in Request, Take(w, r) PROVE UNCHANGED Queue!vars
  <2>1. /\ pc[w] = "idle" /\ r \in inbox[w]
        /\ inbox' = [inbox EXCEPT ![w] = @ \ {r}]
        /\ job' = [job EXCEPT ![w] = r]
        /\ UNCHANGED <<conn, copy>>
    BY <1>7 DEF Take
  <2>2. job[w] = NoJob /\ r # NoJob
    BY <2>1, RequestAssumption DEF HolderInv, Busy
  <2>3. \A v \in Worker : Held(v)' = Held(v)
    BY <2>1, <2>2 DEF Held, HolderInv, TypeOK
  <2> QED BY <2>1, <2>3, QueueSame
<1>8. ASSUME ShutDown \/ Crash \/ ConnLoss PROVE Queue!Next
  BY <1>8, QueueUnlink DEF ShutDown, Crash, Queue!Next
<1>9. ASSUME Restart PROVE Queue!Next
  BY <1>9, QueueRelink DEF Queue!Next
<1> QED
  BY <1>2, <1>3, <1>4, <1>5, <1>6, <1>7, <1>8, <1>9 DEF Next, Handler

LEMMA QueueInit == Init => Queue!Init
<1> SUFFICES ASSUME Init PROVE Queue!Init
  OBVIOUS
<1>1. \A r \in Request : {w \in Worker : r \in Held(w)} = {}
  BY RequestAssumption DEF Init, Held
<1>2. Holders = [r \in Request |-> {}]
  BY <1>1 DEF Holders
<1> QED BY <1>2 DEF Init, Queue!Init

(* The outbound queue, its channels and the workers' hands implement         *)
(* DeliveryQueue: one delivery at a time, a final acknowledgement by the     *)
(* holder, redelivery only after a lost connection or the end of the process.*)
THEOREM ImplementsQueue == Spec => OneDeliveryAtATime
<1>1. Init => HolderInv /\ Queue!Init
  BY HolderInit, QueueInit
<1>2. HolderInv /\ [Next]_vars => HolderInv' /\ [Queue!Next]_(Queue!vars)
  BY HolderStep, QueueStep
<1> QED BY <1>1, <1>2, PTL DEF Spec, OneDeliveryAtATime, Queue!Spec

-----------------------------------------------------------------------------
(* Idempotency keys *)

(* What is published has a row, and what was sent has been published.        *)
Backed ==
  \A r \in Request :
    /\ req[r] \in {"inserted", "created"} => row[r] # "none"
    /\ sends[r] > 0 => copy[r] # "none"

UniqueKeys ==
  \A q, r \in Request :
    q # r /\ KeyOf[q] = KeyOf[r] /\ KeyOf[q] # NoKey => row[q] = "none" \/ row[r] = "none"

KeyInv == HolderInv /\ Backed /\ UniqueKeys

(* What a worker processes is a published message with a row.                *)
LEMMA InHand ==
  ASSUME HolderInv, NEW w \in Worker, pc[w] \notin {"idle", "exited"}
  PROVE  /\ job[w] \in Request /\ job[w] \in Held(w)
         /\ copy[job[w]] \in {"ready", "unacked"}
         /\ req[job[w]] = "created"
         /\ \A v \in Worker : v # w => job[w] \notin Held(v)
         /\ job[w] \notin inbox[w]
<1>0. TypeOK /\ Busy /\ Published /\ Taken /\ OneHolder
  BY DEF HolderInv
<1>1. job[w] \in Request /\ job[w] \in Held(w)
  BY <1>0 DEF Busy, TypeOK, Held
<1>2. copy[job[w]] \in {"ready", "unacked"} /\ req[job[w]] = "created"
  BY <1>0, <1>1 DEF Taken, Published
<1> QED BY <1>0, <1>1, <1>2 DEF OneHolder

(* A worker writes its own message only, and never takes a row away.         *)
LEMMA WorkerWrites ==
  ASSUME KeyInv, NEW w \in Worker, WorkerStep(w)
  PROVE  /\ pc[w] \notin {"idle", "exited"} /\ req' = req
         /\ \A r \in Request : r # job[w] => row'[r] = row[r] /\ sends'[r] = sends[r]
         /\ \A r \in Request : copy[r] # "none" => copy'[r] # "none"
         /\ \A r \in Request : row'[r] = "none" <=> row[r] = "none"
<1>0. TypeOK
  BY DEF KeyInv, HolderInv
<1>1. pc[w] \notin {"idle", "exited"} /\ req' = req
  BY AtWork DEF Ack, Goto
<1>2. job[w] \in Request /\ row[job[w]] # "none"
  BY <1>1, InHand DEF KeyInv, Backed
<1>3. \A r \in Request : r # job[w] => sends'[r] = sends[r]
  BY <1>0 DEF WorkerStep, LookUp, Reserve, SendAccepted, SendRefused, SendTimedOut,
              Refund, SetFailed, RecordSent, Bill, Ack, TypeOK
<1>4. \/ row' = row
      \/ row' = [row EXCEPT ![job[w]] = "failed"]
      \/ row' = [row EXCEPT ![job[w]] = IF @ = "pending" THEN "sent" ELSE @]
  BY DEF WorkerStep, LookUp, Reserve, SendAccepted, SendRefused, SendTimedOut,
         Refund, SetFailed, RecordSent, Bill, Ack
<1>5. /\ \A r \in Request : r # job[w] => row'[r] = row[r]
      /\ \A r \in Request : row'[r] = "none" <=> row[r] = "none"
  BY <1>0, <1>2, <1>4 DEF TypeOK
<1>6. \A r \in Request : copy[r] # "none" => copy'[r] # "none"
  <2>1. CASE Ack(w)
    BY <1>0, <1>2, <2>1 DEF Ack, TypeOK
  <2>2. CASE ~Ack(w)
    BY <2>2, AtWork
  <2> QED BY <2>1, <2>2
<1> QED BY <1>1, <1>3, <1>5, <1>6

(* A message is sent by the worker that holds it.                            *)
LEMMA SentInHand ==
  ASSUME KeyInv, NEW w \in Worker, WorkerStep(w)
  PROVE  Backed' /\ UniqueKeys'
<1>0. Backed /\ UniqueKeys
  BY DEF KeyInv
<1>1. /\ req' = req /\ pc[w] \notin {"idle", "exited"}
      /\ \A r \in Request : r # job[w] => sends'[r] = sends[r]
      /\ \A r \in Request : copy[r] # "none" => copy'[r] # "none"
      /\ \A r \in Request : row'[r] = "none" <=> row[r] = "none"
  BY WorkerWrites
<1>2. copy[job[w]] # "none"
  BY <1>1, InHand DEF KeyInv
<1>3. Backed'
  BY <1>0, <1>1, <1>2 DEF Backed
<1>4. UniqueKeys'
  BY <1>0, <1>1 DEF UniqueKeys
<1> QED BY <1>3, <1>4

LEMMA KeySame ==
  ASSUME KeyInv, UNCHANGED <<row, sends>>,
         \A r \in Request : copy[r] # "none" => copy'[r] # "none",
         \A r \in Request : /\ req'[r] = "inserted" => req[r] = "inserted"
                            /\ req'[r] = "created" => req[r] \in {"inserted", "created"}
  PROVE  Backed' /\ UniqueKeys'
BY DEF KeyInv, Backed, UniqueKeys

LEMMA KeyHandler ==
  ASSUME KeyInv, NEW r \in Request, CheckKey(r) \/ InsertRow(r)
  PROVE  Backed' /\ UniqueKeys'
<1>0. TypeOK /\ Backed /\ UniqueKeys
  BY DEF KeyInv, HolderInv
<1>1. UNCHANGED <<copy, sends>>
  BY DEF CheckKey, InsertRow, brokerVars
<1>2. CASE CheckKey(r)
  <2>1. UNCHANGED row /\ \A q \in Request : q # r => req'[q] = req[q]
    BY <1>0, <1>2 DEF CheckKey, TypeOK
  <2>2. req'[r] \in {"existing", "checked"}
    BY <1>0, <1>2 DEF CheckKey, TypeOK
  <2> QED BY <1>1, <2>1, <2>2, KeySame
<1>3. CASE InsertRow(r)
  <2>1. /\ \A q \in Request : q # r => req'[q] = req[q] /\ row'[q] = row[q]
        /\ row[r] # "none" => row'[r] # "none"
        /\ req'[r] = "rejected" \/ (req'[r] = "inserted" /\ row'[r] = "pending")
        /\ row'[r] = row[r] \/ ~KeyTaken(r)
    BY <1>0, <1>3 DEF InsertRow, TypeOK
  <2>2. Backed'
    BY <1>0, <1>1, <2>1 DEF Backed
  <2>3. UniqueKeys'
    BY <1>0, <2>1 DEF UniqueKeys, KeyTaken
  <2> QED BY <2>2, <2>3
<1> QED BY <1>2, <1>3

LEMMA KeyStep == KeyInv /\ [Next]_vars => KeyInv'
<1> SUFFICES ASSUME KeyInv, [Next]_vars PROVE KeyInv'
  OBVIOUS
<1>0. TypeOK /\ HolderInv
  BY DEF KeyInv, HolderInv
<1>1. HolderInv'
  BY HolderStep DEF KeyInv
<1>2. ASSUME NEW r \in Request, PublishOutbound(r) PROVE Backed' /\ UniqueKeys'
  BY <1>0, <1>2, KeySame DEF PublishOutbound, TypeOK
<1>3. ASSUME NEW r \in Request, NEW w \in Worker, Deliver(r, w) \/ Take(w, r)
      PROVE  Backed' /\ UniqueKeys'
  BY <1>0, <1>3, KeySame DEF Deliver, Take, TypeOK
<1>4. ASSUME \/ \E w \in Worker : Exit(w)
             \/ \E c \in Company, n \in Limits : SetLimit(c, n)
             \/ Stop \/ Restart \/ UNCHANGED vars
      PROVE  Backed' /\ UniqueKeys'
  BY <1>4, KeySame DEF Exit, SetLimit, Stop, Restart, vars, brokerVars
<1>5. ASSUME ShutDown \/ Crash PROVE Backed' /\ UniqueKeys'
  <2>1. ProcessEnds
    BY <1>5 DEF ShutDown, Crash
  <2>2. /\ UNCHANGED <<row, sends>>
        /\ \A r \in Request : req'[r] = "aborted" \/ req'[r] = req[r]
    BY <2>1 DEF ProcessEnds
  <2>3. \A r \in Request : copy[r] # "none" => copy'[r] # "none"
    BY <1>0, <2>1, HolderEnds
  <2> QED BY <2>2, <2>3, KeySame
<1>6. ASSUME ConnLoss PROVE Backed' /\ UniqueKeys'
  BY <1>6, KeySame DEF ConnLoss, Requeued
<1>7. Backed' /\ UniqueKeys'
  BY <1>2, <1>3, <1>4, <1>5, <1>6, KeyHandler, SentInHand DEF Next, Handler
<1> QED BY <1>1, <1>7 DEF KeyInv

LEMMA KeyInit == Init => KeyInv
<1> SUFFICES ASSUME Init PROVE KeyInv
  OBVIOUS
<1>1. Backed /\ UniqueKeys
  BY DEF Init, Backed, UniqueKeys
<1> QED BY <1>1, HolderInit DEF KeyInv

(* Requests with one idempotency key, however they race, store one row and   *)
(* send one message.                                                         *)
THEOREM OnePerKey == Spec => []OneMessagePerKey
<1>1. KeyInv => OneMessagePerKey
  <2> SUFFICES ASSUME KeyInv, NEW q \in Request, NEW r \in Request,
                      q # r, KeyOf[q] = KeyOf[r], KeyOf[q] # NoKey
               PROVE  /\ row[q] = "none" \/ row[r] = "none"
                      /\ sends[q] = 0 \/ sends[r] = 0
    BY DEF OneMessagePerKey
  <2>1. row[q] = "none" \/ row[r] = "none"
    BY DEF KeyInv, UniqueKeys
  <2>2. \A s \in Request : sends[s] > 0 => row[s] # "none"
    BY DEF KeyInv, HolderInv, Backed, Published
  <2>3. sends[q] \in Nat /\ sends[r] \in Nat
    BY DEF KeyInv, HolderInv, TypeOK
  <2> QED BY <2>1, <2>2, <2>3
<1> QED BY <1>1, KeyInit, KeyStep, PTL DEF Spec

-----------------------------------------------------------------------------
(* How often a message is sent *)

(* The worker or its channel holds r and will still send it.                 *)
Unsent(w, r) ==
  \/ r \in inbox[w]
  \/ job[w] = r /\ pc[w] \in {"lookup", "reserve", "send"}

(* What may still be sent without another disturbance: once by the worker    *)
(* that holds it, once by whom it is delivered to.                           *)
Due(r) == (IF copy[r] \in {"none", "ready"} THEN 1 ELSE 0)
            + (IF \E w \in Worker : Unsent(w, r) THEN 1 ELSE 0)

Budget == \A r \in Request : sends[r] + Due(r) <= 1 + crashes + drops

BudgetInv == HolderInv /\ Budget

LEMMA BudgetInit == Init => BudgetInv
<1> SUFFICES ASSUME Init PROVE BudgetInv
  OBVIOUS
<1>1. \A r \in Request : \A w \in Worker : ~Unsent(w, r)
  BY RequestAssumption DEF Init, Unsent
<1>2. Budget
  BY <1>1 DEF Init, Budget, Due
<1> QED BY <1>2, HolderInit DEF BudgetInv

(* A step that sends nothing and makes no message due again.                 *)
LEMMA BudgetSame ==
  ASSUME BudgetInv, UNCHANGED <<sends, crashes, drops>>,
         \A r \in Request : copy'[r] \in {"none", "ready"} => copy[r] \in {"none", "ready"},
         \A r \in Request, w \in Worker : Unsent(w, r)' => Unsent(w, r)
  PROVE  Budget'
<1> SUFFICES ASSUME NEW r \in Request PROVE sends[r] + Due(r)' <= 1 + crashes + drops
  BY DEF Budget
<1>1. sends[r] \in Nat /\ crashes \in Nat /\ drops \in Nat
  BY DEF BudgetInv, HolderInv, TypeOK
<1>2. sends[r] + Due(r) <= 1 + crashes + drops
  BY DEF BudgetInv, Budget
<1>3. Due(r)' <= Due(r) /\ Due(r) \in Nat /\ Due(r)' \in Nat
  BY DEF Due
<1> QED BY <1>1, <1>2, <1>3

LEMMA BudgetWorker ==
  ASSUME BudgetInv, NEW w \in Worker, WorkerStep(w), ~Ack(w)
  PROVE  Budget'
<1>0. HolderInv /\ TypeOK
  BY DEF BudgetInv, HolderInv
<1>1. /\ UNCHANGED <<phase, conn, copy, inbox, req, job>>
      /\ pc[w] \notin {"idle", "exited"}
      /\ \A v \in Worker : v # w => pc'[v] = pc[v]
  BY <1>0, AtWork DEF TypeOK
<1>2. /\ job[w] \in Request /\ job[w] \notin inbox[w]
      /\ \A v \in Worker : v # w => job[w] \notin Held(v)
  BY <1>0, <1>1, InHand
<1>3. UNCHANGED <<crashes, drops>>
  BY DEF WorkerStep, LookUp, Reserve, SendAccepted, SendRefused, SendTimedOut,
         Refund, SetFailed, RecordSent, Bill, Ack, counters
<1>4. CASE SendAccepted(w) \/ SendTimedOut(w)
  <2>1. /\ pc[w] = "send" /\ pc'[w] \notin {"lookup", "reserve", "send"}
        /\ sends' = [sends EXCEPT ![job[w]] = @ + 1]
    BY <1>0, <1>4 DEF SendAccepted, SendTimedOut, Goto, TypeOK
  <2> SUFFICES ASSUME NEW r \in Request PROVE sends'[r] + Due(r)' <= 1 + crashes + drops
    BY <1>3 DEF Budget
  <2>2. sends[r] \in Nat /\ crashes \in Nat /\ drops \in Nat
        /\ sends'[r] = IF r = job[w] THEN sends[r] + 1 ELSE sends[r]
    BY <1>0, <1>2, <2>1 DEF TypeOK
  <2>3. sends[r] + Due(r) <= 1 + crashes + drops
    BY DEF BudgetInv, Budget
  <2>4. Due(r) \in Nat /\ Due(r)' \in Nat
    BY DEF Due
  <2>5. CASE r = job[w]
    <3>1. Unsent(w, r)
      BY <2>1, <2>5 DEF Unsent
    <3>2. \A v \in Worker : ~Unsent(v, r)'
      BY <1>1, <1>2, <2>1, <2>5, RequestAssumption DEF Unsent, Held
    <3>3. Due(r)' + 1 = Due(r)
      BY <1>1, <3>1, <3>2 DEF Due
    <3> QED BY <2>2, <2>3, <2>4, <2>5, <3>3
  <2>6. CASE r # job[w]
    <3>1. \A v \in Worker : Unsent(v, r)' <=> Unsent(v, r)
      BY <1>1, <2>1, <2>6 DEF Unsent
    <3>2. Due(r)' = Due(r)
      BY <1>1, <3>1 DEF Due
    <3> QED BY <2>2, <2>3, <2>4, <2>6, <3>2
  <2> QED BY <2>5, <2>6
<1>5. CASE ~SendAccepted(w) /\ ~SendTimedOut(w)
  <2>1. sends' = sends
    BY <1>5 DEF WorkerStep, LookUp, Reserve, SendRefused, Refund, SetFailed, RecordSent,
                Bill, Ack
  <2>2. pc'[w] \in {"lookup", "reserve", "send"} => pc[w] \in {"lookup", "reserve", "send"}
    BY <1>0, <1>5 DEF WorkerStep, LookUp, Reserve, SendRefused, Refund, SetFailed,
                      RecordSent, Bill, Ack, Goto, TypeOK
  <2>3. \A r \in Request, v \in Worker : Unsent(v, r)' => Unsent(v, r)
    BY <1>1, <2>2 DEF Unsent
  <2> QED BY <1>1, <1>3, <2>1, <2>3, BudgetSame
<1> QED BY <1>4, <1>5

(* The end of the process or of the connection makes what is unacknowledged  *)
(* due once more, and nothing twice.                                         *)
LEMMA BudgetGrows ==
  ASSUME BudgetInv, UNCHANGED sends,
         crashes' \in Nat /\ drops' \in Nat /\ crashes' + drops' = crashes + drops + 1,
         \A r \in Request, w \in Worker : Unsent(w, r)' => Unsent(w, r)
  PROVE  Budget'
<1> SUFFICES ASSUME NEW r \in Request PROVE sends[r] + Due(r)' <= 1 + crashes' + drops'
  BY DEF Budget
<1>1. sends[r] \in Nat /\ crashes \in Nat /\ drops \in Nat
  BY DEF BudgetInv, HolderInv, TypeOK
<1>2. sends[r] + Due(r) <= 1 + crashes + drops
  BY DEF BudgetInv, Budget
<1>3. Due(r)' <= Due(r) + 1 /\ Due(r) \in Nat /\ Due(r)' \in Nat
  BY DEF Due
<1>4. crashes' \in Nat /\ drops' \in Nat /\ crashes' + drops' = crashes + drops + 1
  OBVIOUS
<1>5. \A s, d, e, c, f, k, l \in Nat :
        s + d <= 1 + c + k /\ e <= d + 1 /\ f + l = c + k + 1 => s + e <= 1 + f + l
  OBVIOUS
<1> QED BY <1>1, <1>2, <1>3, <1>4, <1>5

LEMMA BudgetShutDown ==
  ASSUME BudgetInv, ShutDown
  PROVE  Budget'
<1>0. HolderInv /\ TypeOK /\ Busy /\ Offline /\ OneHolder
  BY DEF BudgetInv, HolderInv
<1>1. /\ \A w \in Worker : pc[w] = "exited"
      /\ UNCHANGED <<sends, crashes, drops>> /\ ProcessEnds
  BY DEF ShutDown, ProcessEnds, counters
<1>2. /\ \A r \in Request : copy'[r] = IF copy[r] = "unacked" THEN "ready" ELSE copy[r]
      /\ \A w \in Worker : inbox'[w] = {} /\ pc'[w] = "exited"
  BY <1>0, <1>1, HolderEnds DEF ProcessEnds
<1> SUFFICES ASSUME NEW r \in Request PROVE sends[r] + Due(r)' <= 1 + crashes + drops
  BY <1>1 DEF Budget
<1>3. sends[r] \in Nat /\ crashes \in Nat /\ drops \in Nat
  BY <1>0 DEF TypeOK
<1>4. sends[r] + Due(r) <= 1 + crashes + drops
  BY DEF BudgetInv, Budget
<1>5. \A w \in Worker : ~Unsent(w, r)'
  BY <1>2 DEF Unsent
<1>6. Due(r)' <= Due(r) /\ Due(r) \in Nat /\ Due(r)' \in Nat
  <2>1. CASE copy[r] = "unacked"
    <3>1. PICK w \in Worker : r \in Held(w)
      BY <1>0, <2>1 DEF Offline, OneHolder
    <3>2. r \in inbox[w]
      BY <1>0, <1>1, <3>1 DEF Busy, Held
    <3>3. Unsent(w, r)
      BY <3>2 DEF Unsent
    <3>4. Due(r) = 1
      BY <2>1, <3>3 DEF Due
    <3>5. Due(r)' = 1
      BY <1>2, <1>5, <2>1 DEF Due
    <3> QED BY <3>4, <3>5
  <2>2. CASE copy[r] # "unacked"
    BY <1>2, <1>5, <2>2 DEF Due
  <2> QED BY <2>1, <2>2
<1> QED BY <1>3, <1>4, <1>6

LEMMA BudgetDeliver ==
  ASSUME BudgetInv, NEW r \in Request, NEW w \in Worker, Deliver(r, w)
  PROVE  Budget'
<1>0. HolderInv /\ TypeOK /\ OneHolder
  BY DEF BudgetInv, HolderInv
<1>1. /\ conn /\ copy[r] = "ready" /\ UNCHANGED <<job, pc, sends, crashes, drops>>
      /\ copy' = [copy EXCEPT ![r] = "unacked"]
      /\ inbox' = [inbox EXCEPT ![w] = @ \cup {r}]
  BY DEF Deliver, workerVars, counters
<1> SUFFICES ASSUME NEW q \in Request PROVE sends[q] + Due(q)' <= 1 + crashes + drops
  BY <1>1 DEF Budget
<1>2. sends[q] + Due(q) <= 1 + crashes + drops
  BY DEF BudgetInv, Budget
<1>3. CASE q = r
  <2>1. Due(q)' = 1
    <3>1. copy'[q] = "unacked" /\ q \in inbox'[w]
      BY <1>0, <1>1, <1>3 DEF TypeOK
    <3>2. Unsent(w, q)'
      BY <3>1 DEF Unsent
    <3> QED BY <3>1, <3>2 DEF Due
  <2>2. Due(q) >= 1 /\ Due(q) \in Nat
    BY <1>1, <1>3 DEF Due
  <2>3. sends[q] \in Nat /\ crashes \in Nat /\ drops \in Nat
    BY <1>0 DEF TypeOK
  <2> QED BY <1>2, <2>1, <2>2, <2>3
<1>4. CASE q # r
  <2>1. \A v \in Worker : Unsent(v, q)' <=> Unsent(v, q)
    BY <1>0, <1>1, <1>4 DEF Unsent, TypeOK
  <2>2. copy'[q] = copy[q]
    BY <1>0, <1>1, <1>4 DEF TypeOK
  <2>3. Due(q)' = Due(q)
    BY <2>1, <2>2 DEF Due
  <2> QED BY <1>2, <2>3
<1> QED BY <1>3, <1>4

LEMMA BudgetStep == BudgetInv /\ [Next]_vars => BudgetInv'
<1> SUFFICES ASSUME BudgetInv, [Next]_vars PROVE BudgetInv'
  OBVIOUS
<1>0. HolderInv /\ TypeOK
  BY DEF BudgetInv, HolderInv
<1>1. HolderInv'
  BY <1>0, HolderStep
<1>2. ASSUME NEW r \in Request, Handler(r) PROVE Budget'
  <2>1. /\ UNCHANGED <<inbox, job, pc, sends, crashes, drops>>
        /\ \A q \in Request : copy'[q] \in {"none", "ready"} => copy[q] \in {"none", "ready"}
    <3>1. CASE CheckKey(r) \/ InsertRow(r)
      BY <3>1 DEF CheckKey, InsertRow, brokerVars, workerVars
    <3>2. CASE PublishOutbound(r)
      <4>1. req[r] = "inserted"
        BY <3>2 DEF PublishOutbound
      <4>2. copy[r] = "none"
        BY <1>0, <4>1 DEF HolderInv, Published
      <4> QED BY <1>0, <3>2, <4>2 DEF PublishOutbound, workerVars, counters, TypeOK
    <3> QED BY <1>2, <3>1, <3>2 DEF Handler
  <2> QED BY <2>1, BudgetSame DEF Unsent
<1>3. ASSUME NEW r \in Request, NEW w \in Worker, Take(w, r) PROVE Budget'
  <2>1. /\ r \in inbox[w] /\ UNCHANGED <<copy, sends, crashes, drops>>
        /\ inbox' = [inbox EXCEPT ![w] = @ \ {r}]
        /\ job' = [job EXCEPT ![w] = r] /\ pc' = [pc EXCEPT ![w] = "lookup"]
    BY <1>3 DEF Take, counters
  <2>2. \A q \in Request, v \in Worker : Unsent(v, q)' => Unsent(v, q)
    BY <1>0, <2>1 DEF Unsent, TypeOK
  <2> QED BY <2>1, <2>2, BudgetSame
<1>4. ASSUME NEW w \in Worker, Ack(w) PROVE Budget'
  <2>1. /\ UNCHANGED <<inbox, sends, crashes, drops>> /\ pc' = [pc EXCEPT ![w] = "idle"]
        /\ job' = [job EXCEPT ![w] = NoJob]
        /\ copy' = IF conn THEN [copy EXCEPT ![job[w]] = "acked"] ELSE copy
    BY <1>4 DEF Ack, Goto, counters
  <2>2. \A q \in Request, v \in Worker : Unsent(v, q)' => Unsent(v, q)
    BY <1>0, <2>1, RequestAssumption DEF Unsent, TypeOK
  <2>3. \A q \in Request : copy'[q] \in {"none", "ready"} => copy[q] \in {"none", "ready"}
    BY <1>0, <2>1 DEF TypeOK
  <2> QED BY <2>1, <2>2, <2>3, BudgetSame
<1>5. ASSUME NEW w \in Worker, Exit(w) PROVE Budget'
  <2>1. /\ UNCHANGED <<copy, inbox, job, sends, crashes, drops>>
        /\ pc' = [pc EXCEPT ![w] = "exited"]
    BY <1>5 DEF Exit, brokerVars, counters
  <2>2. \A q \in Request, v \in Worker : Unsent(v, q)' => Unsent(v, q)
    BY <1>0, <2>1 DEF Unsent, TypeOK
  <2> QED BY <2>1, <2>2, BudgetSame
<1>6. ASSUME \/ \E c \in Company, n \in Limits : SetLimit(c, n)
             \/ Stop \/ UNCHANGED vars
      PROVE  Budget'
  <2>1. UNCHANGED <<copy, inbox, job, pc, sends, crashes, drops>>
    BY <1>6 DEF SetLimit, Stop, vars, brokerVars, workerVars, counters
  <2> QED BY <2>1, BudgetSame DEF Unsent
<1>7. ASSUME Restart PROVE Budget'
  <2>1. /\ UNCHANGED <<copy, inbox, job, sends, crashes, drops>>
        /\ pc' = [w \in Worker |-> "idle"]
    BY <1>7 DEF Restart, counters
  <2>2. \A q \in Request, v \in Worker : Unsent(v, q)' => Unsent(v, q)
    BY <2>1 DEF Unsent
  <2> QED BY <2>1, <2>2, BudgetSame
<1>8. ASSUME Crash PROVE Budget'
  <2>1. /\ UNCHANGED <<sends, drops>> /\ crashes' = crashes + 1
        /\ \A w \in Worker : inbox'[w] = {} /\ pc'[w] = "exited"
    BY <1>8 DEF Crash, ProcessEnds
  <2>2. crashes' \in Nat /\ drops' \in Nat /\ crashes' + drops' = crashes + drops + 1
    BY <1>0, <2>1 DEF TypeOK
  <2> QED BY <2>1, <2>2, BudgetGrows DEF Unsent
<1>9. ASSUME ConnLoss PROVE Budget'
  <2>1. /\ UNCHANGED <<sends, crashes, job, pc>> /\ drops' = drops + 1
        /\ \A w \in Worker : inbox'[w] = {}
    BY <1>9 DEF ConnLoss, workerVars
  <2>2. crashes' \in Nat /\ drops' \in Nat /\ crashes' + drops' = crashes + drops + 1
    BY <1>0, <2>1 DEF TypeOK
  <2> QED BY <2>1, <2>2, BudgetGrows DEF Unsent
<1>10. Budget'
  BY <1>2, <1>3, <1>4, <1>5, <1>6, <1>7, <1>8, <1>9, BudgetWorker, BudgetShutDown,
     BudgetDeliver
  DEF Next
<1> QED BY <1>1, <1>10 DEF BudgetInv

(* The API accepts a message at most once, and once more for every crash or  *)
(* lost connection; an orderly stop causes no second send.                   *)
THEOREM SendsBounded == Spec => []SendsBoundedByRedelivery
<1>1. BudgetInv => SendsBoundedByRedelivery
  <2> SUFFICES ASSUME BudgetInv, NEW r \in Request PROVE sends[r] <= 1 + crashes + drops
    BY DEF SendsBoundedByRedelivery
  <2>1. sends[r] + Due(r) <= 1 + crashes + drops
    BY DEF BudgetInv, Budget
  <2>2. sends[r] \in Nat /\ crashes \in Nat /\ drops \in Nat /\ Due(r) \in Nat
    BY DEF BudgetInv, HolderInv, TypeOK, Due
  <2> QED BY <2>1, <2>2
<1> QED BY <1>1, BudgetInit, BudgetStep, PTL DEF Spec

-----------------------------------------------------------------------------
(* What became of a message *)

(* A process that is not up was stopped or killed, and one without a         *)
(* connection has lost it.                                                   *)
Signals == /\ phase = "stopping" => stops > 0
           /\ phase = "down" => stops > 0 \/ crashes > 0
           /\ phase # "down" /\ ~conn => drops > 0

(* Disturbances are only added to.                                           *)
LEMMA CountersGrow ==
  ASSUME TypeOK, [Next]_vars
  PROVE  /\ stops' \in Nat /\ stops <= stops' /\ crashes' \in Nat /\ crashes <= crashes'
         /\ drops' \in Nat /\ drops <= drops' /\ faults' \in Nat /\ faults <= faults'
         /\ timeouts' \in Nat /\ timeouts <= timeouts'
<1>1. TypeOK'
  BY TypeOKStep
<1>2. /\ stops' = stops \/ stops' = stops + 1
      /\ crashes' = crashes \/ crashes' = crashes + 1
      /\ drops' = drops \/ drops' = drops + 1
      /\ faults' = faults \/ faults' = faults + 1
      /\ timeouts' = timeouts \/ timeouts' = timeouts + 1
  <2>1. ASSUME NEW w \in Worker, WorkerStep(w)
        PROVE  /\ UNCHANGED <<stops, crashes, drops>>
               /\ faults' = faults \/ faults' = faults + 1
               /\ timeouts' = timeouts \/ timeouts' = timeouts + 1
    BY <2>1 DEF WorkerStep, LookUp, Reserve, SendAccepted, SendRefused, SendTimedOut,
                Refund, SetFailed, RecordSent, Bill, Ack, CallOk, CallErr, Fault, counters
  <2>2. ASSUME NEW r \in Request, Handler(r)
        PROVE  UNCHANGED <<stops, crashes, drops, timeouts>>
               /\ (faults' = faults \/ faults' = faults + 1)
    BY <2>2 DEF Handler, CheckKey, InsertRow, PublishOutbound, Fault, counters
  <2>3. ASSUME \/ \E r \in Request, w \in Worker : Deliver(r, w) \/ Take(w, r)
               \/ \E w \in Worker : Exit(w)
               \/ \E c \in Company, n \in Limits : SetLimit(c, n)
               \/ Restart \/ UNCHANGED vars
        PROVE  UNCHANGED <<stops, crashes, drops, faults, timeouts>>
    BY <2>3 DEF Deliver, Take, Exit, SetLimit, Restart, vars, counters
  <2>4. CASE Stop \/ ShutDown \/ Crash \/ ConnLoss
    BY <2>4 DEF Stop, ShutDown, Crash, ConnLoss, counters
  <2> QED BY <2>1, <2>2, <2>3, <2>4 DEF Next
<1>3. /\ stops \in Nat /\ crashes \in Nat /\ drops \in Nat /\ faults \in Nat
      /\ timeouts \in Nat
  BY DEF TypeOK
<1>4. /\ stops' \in Nat /\ crashes' \in Nat /\ drops' \in Nat /\ faults' \in Nat
      /\ timeouts' \in Nat
  BY <1>1 DEF TypeOK
<1> QED BY <1>2, <1>3, <1>4

LEMMA StillDisturbed ==
  ASSUME TypeOK, [Next]_vars
  PROVE  /\ stops > 0 => stops' > 0
         /\ crashes > 0 => crashes' > 0
         /\ drops > 0 => drops' > 0
         /\ faults > 0 => faults' > 0
         /\ timeouts > 0 => timeouts' > 0
<1>1. /\ stops \in Nat /\ crashes \in Nat /\ drops \in Nat /\ faults \in Nat
      /\ timeouts \in Nat
  BY DEF TypeOK
<1> QED BY <1>1, CountersGrow

LEMMA SignalsStep == TypeOK /\ Signals /\ [Next]_vars => Signals'
<1> SUFFICES ASSUME TypeOK, Signals, [Next]_vars PROVE Signals'
  OBVIOUS
<1>1. /\ stops > 0 => stops' > 0
      /\ crashes > 0 => crashes' > 0
      /\ drops > 0 => drops' > 0
  BY StillDisturbed
<1>2. ASSUME UNCHANGED <<phase, conn>> PROVE Signals'
  BY <1>1, <1>2 DEF Signals
<1>3. ASSUME Stop PROVE Signals'
  <2>1. phase = "up" /\ phase' = "stopping" /\ conn' = conn /\ stops' = stops + 1
    BY <1>3 DEF Stop, brokerVars
  <2>2. stops' > 0
    BY <2>1 DEF TypeOK
  <2> QED BY <1>1, <2>1, <2>2 DEF Signals
<1>4. ASSUME ShutDown PROVE Signals'
  <2>1. phase = "stopping" /\ phase' = "down"
    BY <1>4 DEF ShutDown, ProcessEnds
  <2> QED BY <1>1, <2>1 DEF Signals
<1>5. ASSUME Crash PROVE Signals'
  <2>1. phase' = "down" /\ crashes' = crashes + 1
    BY <1>5 DEF Crash, ProcessEnds
  <2>2. crashes' > 0
    BY <2>1 DEF TypeOK
  <2> QED BY <2>1, <2>2 DEF Signals
<1>6. ASSUME Restart PROVE Signals'
  BY <1>6 DEF Restart, Signals
<1>7. ASSUME ConnLoss PROVE Signals'
  <2>1. phase' = phase /\ drops' = drops + 1
    BY <1>7 DEF ConnLoss
  <2>2. drops' > 0
    BY <2>1 DEF TypeOK
  <2> QED BY <1>1, <2>1, <2>2 DEF Signals
<1>8. ASSUME NEW w \in Worker, WorkerStep(w) \/ Exit(w) PROVE UNCHANGED <<phase, conn>>
  BY <1>8 DEF WorkerStep, LookUp, Reserve, SendAccepted, SendRefused, SendTimedOut,
              Refund, SetFailed, RecordSent, Bill, Ack, Exit, brokerVars
<1>9. ASSUME NEW r \in Request, Handler(r) PROVE UNCHANGED <<phase, conn>>
  BY <1>9 DEF Handler, CheckKey, InsertRow, PublishOutbound, brokerVars
<1>10. ASSUME \/ \E r \in Request, w \in Worker : Deliver(r, w) \/ Take(w, r)
              \/ \E c \in Company, n \in Limits : SetLimit(c, n)
              \/ UNCHANGED vars
       PROVE  UNCHANGED <<phase, conn>>
  BY <1>10 DEF Deliver, Take, SetLimit, vars, brokerVars
<1> QED
  BY <1>2, <1>3, <1>4, <1>5, <1>6, <1>7, <1>8, <1>9, <1>10 DEF Next

(* A request that was not stored has no row.                                 *)
NoRowYet == \A r \in Request : req[r] \in {"new", "checked", "existing"} => row[r] = "none"

(* An outcome that could not be recorded is owed to a stop or a fault.       *)
Unrecorded ==
  \A w \in Worker :
    pc[w] \in {"bill", "ack"} /\ row[job[w]] = "pending" => stops > 0 \/ faults > 0

PendingInv == HolderInv /\ Signals /\ NoRowYet /\ Unrecorded /\ PendingIsUnderway

(* Steps that make no row pending and move no worker to the end of its work. *)
LEMMA PendingRows ==
  ASSUME PendingInv, [Next]_vars, UNCHANGED <<copy, req>>,
         \A r \in Request : row'[r] = row[r] \/ (req[r] = "created" /\ row'[r] # "pending")
  PROVE  NoRowYet' /\ PendingIsUnderway'
<1>0. TypeOK /\ NoRowYet /\ PendingIsUnderway
  BY DEF PendingInv, HolderInv
<1>1. /\ stops > 0 => stops' > 0
      /\ faults > 0 => faults' > 0
      /\ drops > 0 => drops' > 0
  BY <1>0, StillDisturbed
<1>2. NoRowYet'
  BY <1>0 DEF NoRowYet
<1>3. PendingIsUnderway'
  BY <1>0, <1>1 DEF PendingIsUnderway
<1> QED BY <1>2, <1>3

LEMMA UnrecordedSame ==
  ASSUME PendingInv, [Next]_vars,
         \A v \in Worker : pc'[v] \in {"bill", "ack"} =>
                             /\ pc[v] \in {"bill", "ack"} /\ job'[v] = job[v]
                             /\ row'[job[v]] = "pending" => row[job[v]] = "pending"
  PROVE  Unrecorded'
<1>1. /\ stops > 0 => stops' > 0
      /\ faults > 0 => faults' > 0
  BY StillDisturbed DEF PendingInv, HolderInv
<1> QED BY <1>1 DEF PendingInv, Unrecorded

LEMMA PendingWorker ==
  ASSUME PendingInv, NEW w \in Worker, WorkerStep(w), ~Ack(w), [Next]_vars
  PROVE  NoRowYet' /\ Unrecorded' /\ PendingIsUnderway'
<1>0. TypeOK /\ HolderInv /\ Signals /\ Unrecorded
  BY DEF PendingInv, HolderInv
<1>1. /\ UNCHANGED <<phase, copy, req, job>>
      /\ pc[w] \notin {"idle", "exited"}
      /\ \A v \in Worker : v # w => pc'[v] = pc[v]
  BY <1>0, AtWork DEF TypeOK
<1>2. job[w] \in Request /\ req[job[w]] = "created"
      /\ \A v \in Worker : v # w => job[w] \notin Held(v)
  BY <1>0, <1>1, InHand
<1>3. \/ row' = row
      \/ row' = [row EXCEPT ![job[w]] = "failed"]
      \/ row' = [row EXCEPT ![job[w]] = IF @ = "pending" THEN "sent" ELSE @]
  BY DEF WorkerStep, LookUp, Reserve, SendAccepted, SendRefused, SendTimedOut,
         Refund, SetFailed, RecordSent, Bill, Ack
<1>4. \A r \in Request : row'[r] = row[r] \/ (req[r] = "created" /\ row'[r] # "pending")
  BY <1>0, <1>2, <1>3 DEF TypeOK
<1>5. NoRowYet' /\ PendingIsUnderway'
  BY <1>1, <1>4, PendingRows
<1>6. /\ stops > 0 => stops' > 0
      /\ faults > 0 => faults' > 0
  BY <1>0, StillDisturbed
<1>7. pc'[w] \in {"bill", "ack"} /\ row'[job[w]] = "pending" => stops' > 0 \/ faults' > 0
  <2>1. CallErr => stops' > 0 \/ faults' > 0
    BY <1>0, <1>6 DEF CallErr, Fault, Signals, TypeOK
  <2>2. CASE SetFailed(w)
    BY <1>0, <1>2, <2>1, <2>2 DEF SetFailed, TypeOK
  <2>3. CASE RecordSent(w)
    BY <1>0, <1>2, <2>1, <2>3 DEF RecordSent, TypeOK
  <2>4. CASE Bill(w)
    <3>1. pc[w] = "bill" /\ row' = row
      BY <2>4 DEF Bill, Goto
    <3> QED BY <1>0, <1>6, <3>1 DEF Unrecorded
  <2>5. CASE ~SetFailed(w) /\ ~RecordSent(w) /\ ~Bill(w)
    <3>1. pc'[w] \notin {"bill", "ack"}
      BY <1>0, <2>5 DEF WorkerStep, LookUp, Reserve, SendAccepted, SendRefused,
                        SendTimedOut, Refund, Ack, Goto, TypeOK
    <3> QED BY <3>1
  <2> QED BY <2>2, <2>3, <2>4, <2>5
<1>8. ASSUME NEW v \in Worker, v # w, pc'[v] \in {"bill", "ack"}, row'[job[v]] = "pending"
      PROVE  stops' > 0 \/ faults' > 0
  <2>1. pc[v] = pc'[v]
    BY <1>1, <1>8
  <2>2. job[v] \in Request
    BY <1>0, <1>8, <2>1, InHand
  <2>3. row[job[v]] = "pending"
    BY <1>4, <1>8, <2>2
  <2> QED BY <1>0, <1>6, <1>8, <2>1, <2>3 DEF Unrecorded
<1>9. Unrecorded'
  BY <1>1, <1>7, <1>8 DEF Unrecorded
<1> QED BY <1>5, <1>9

LEMMA PendingHandler ==
  ASSUME PendingInv, NEW r \in Request, Handler(r), [Next]_vars
  PROVE  NoRowYet' /\ Unrecorded' /\ PendingIsUnderway'
<1>0. TypeOK /\ HolderInv /\ Published /\ Taken /\ Signals /\ NoRowYet /\ PendingIsUnderway
  BY DEF PendingInv, HolderInv
<1>1. /\ UNCHANGED <<phase, conn, inbox, job, pc>>
      /\ \A q \in Request : q # r => /\ req'[q] = req[q] /\ row'[q] = row[q]
                                     /\ copy'[q] = copy[q]
  BY <1>0 DEF Handler, CheckKey, InsertRow, PublishOutbound, brokerVars, workerVars, TypeOK
<1>2. /\ stops > 0 => stops' > 0
      /\ faults > 0 => faults' > 0
      /\ drops > 0 => drops' > 0
  BY <1>0, StillDisturbed
<1>3. copy[r] = "none"
  <2>1. req[r] # "created"
    BY DEF Handler, CheckKey, InsertRow, PublishOutbound
  <2> QED BY <1>0, <2>1 DEF Published
<1>4. Unrecorded'
  <2>1. ASSUME NEW v \in Worker, pc[v] \in {"bill", "ack"} PROVE row'[job[v]] = row[job[v]]
    <3>1. job[v] \in Request /\ job[v] # r
      BY <1>0, <1>3, <2>1, InHand
    <3> QED BY <1>1, <3>1
  <2> QED BY <1>1, <2>1, UnrecordedSame
<1>5. CASE CheckKey(r)
  <2>1. row' = row /\ copy' = copy /\ req[r] = "new" /\ req'[r] \in {"existing", "checked"}
    BY <1>0, <1>5 DEF CheckKey, brokerVars, TypeOK
  <2>2. NoRowYet'
    BY <1>0, <1>1, <2>1 DEF NoRowYet
  <2>3. row[r] = "none"
    BY <1>0, <2>1 DEF NoRowYet
  <2>4. PendingIsUnderway'
    BY <1>0, <1>1, <1>2, <2>1, <2>3 DEF PendingIsUnderway
  <2> QED BY <1>4, <2>2, <2>4
<1>6. CASE InsertRow(r)
  <2>1. copy' = copy /\ req'[r] \in {"inserted", "rejected"} /\ row[r] = "none"
        /\ (req'[r] = "inserted" \/ row'[r] = "none" \/ Fault)
    BY <1>0, <1>6 DEF InsertRow, brokerVars, TypeOK, NoRowYet
  <2>2. Fault => faults' > 0
    BY <1>0 DEF Fault, TypeOK
  <2>3. NoRowYet'
    BY <1>0, <1>1, <2>1 DEF NoRowYet
  <2>4. PendingIsUnderway'
    BY <1>0, <1>1, <1>2, <1>3, <2>1, <2>2 DEF PendingIsUnderway
  <2> QED BY <1>4, <2>3, <2>4
<1>7. CASE PublishOutbound(r)
  <2>1. /\ phase # "down" /\ row' = row /\ req'[r] = "created"
        /\ IF conn THEN copy'[r] = "ready" ELSE copy'[r] = copy[r]
    BY <1>0, <1>7 DEF PublishOutbound, TypeOK
  <2>2. ~conn => drops' > 0
    BY <1>0, <1>2, <2>1 DEF Signals
  <2>3. NoRowYet'
    BY <1>0, <1>1, <2>1 DEF NoRowYet
  <2>4. PendingIsUnderway'
    BY <1>0, <1>1, <1>2, <1>3, <2>1, <2>2 DEF PendingIsUnderway
  <2> QED BY <1>4, <2>3, <2>4
<1> QED BY <1>5, <1>6, <1>7 DEF Handler

(* The end of the process or of the connection returns what is               *)
(* unacknowledged to the queue.                                              *)
LEMMA PendingRequeued ==
  ASSUME PendingInv, [Next]_vars, UNCHANGED row,
         \A r \in Request : copy'[r] = IF copy[r] = "unacked" THEN "ready" ELSE copy[r],
         \/ ProcessEnds
         \/ UNCHANGED <<req, pc, job>>
  PROVE  NoRowYet' /\ Unrecorded' /\ PendingIsUnderway'
<1>0. TypeOK /\ Published /\ NoRowYet /\ PendingIsUnderway
  BY DEF PendingInv, HolderInv
<1>1. /\ stops > 0 => stops' > 0
      /\ faults > 0 => faults' > 0
      /\ drops > 0 => drops' > 0
  BY <1>0, StillDisturbed
<1>2. \A r \in Request :
        /\ req'[r] = req[r] \/ req'[r] = "aborted"
        /\ req[r] = "inserted" => req'[r] \in {"inserted", "aborted"}
        /\ req[r] = "aborted" => req'[r] = "aborted"
  BY DEF ProcessEnds
<1>3. NoRowYet'
  BY <1>0, <1>2 DEF NoRowYet
<1>4. PendingIsUnderway'
  <2> SUFFICES ASSUME NEW r \in Request, row[r] = "pending"
               PROVE  \/ req'[r] = "inserted"
                      \/ copy'[r] \in {"ready", "unacked"}
                      \/ copy'[r] = "none" /\ (req'[r] = "aborted" \/ drops' > 0 \/ faults' > 0)
                      \/ copy'[r] = "acked" /\ (stops' > 0 \/ faults' > 0)
    BY DEF PendingIsUnderway
  <2>1. CASE req[r] = "inserted"
    <3>1. copy[r] = "none"
      BY <1>0, <2>1 DEF Published
    <3> QED BY <1>2, <2>1, <3>1
  <2>2. CASE copy[r] \in {"ready", "unacked"}
    BY <2>2
  <2>3. CASE copy[r] = "none" /\ (req[r] = "aborted" \/ drops > 0 \/ faults > 0)
    BY <1>1, <1>2, <2>3
  <2>4. CASE copy[r] = "acked" /\ (stops > 0 \/ faults > 0)
    BY <1>1, <2>4
  <2> QED BY <1>0, <2>1, <2>2, <2>3, <2>4 DEF PendingIsUnderway
<1>5. \A v \in Worker : pc'[v] \in {"bill", "ack"} => pc'[v] = pc[v] /\ job'[v] = job[v]
  BY DEF ProcessEnds
<1>6. Unrecorded'
  BY <1>5, UnrecordedSame
<1> QED BY <1>3, <1>4, <1>6

LEMMA PendingQueue ==
  ASSUME PendingInv, NEW r \in Request, NEW w \in Worker, [Next]_vars,
         Deliver(r, w) \/ Take(w, r) \/ Ack(w)
  PROVE  NoRowYet' /\ Unrecorded' /\ PendingIsUnderway'
<1>0. TypeOK /\ HolderInv /\ NoRowYet /\ Unrecorded /\ PendingIsUnderway
  BY DEF PendingInv, HolderInv
<1>1. /\ stops > 0 => stops' > 0
      /\ faults > 0 => faults' > 0
      /\ drops > 0 => drops' > 0
  BY <1>0, StillDisturbed
<1>2. UNCHANGED <<row, req>>
  BY DEF Deliver, Take, Ack
<1>3. NoRowYet'
  BY <1>0, <1>2 DEF NoRowYet
<1>4. CASE Deliver(r, w)
  <2>1. copy[r] = "ready" /\ copy' = [copy EXCEPT ![r] = "unacked"] /\ UNCHANGED <<job, pc>>
    BY <1>4 DEF Deliver, workerVars
  <2>2. PendingIsUnderway'
    BY <1>0, <1>1, <1>2, <2>1 DEF PendingIsUnderway, TypeOK
  <2>3. Unrecorded'
    BY <1>2, <2>1, UnrecordedSame
  <2> QED BY <1>3, <2>2, <2>3
<1>5. CASE Take(w, r)
  <2>1. copy' = copy /\ job' = [job EXCEPT ![w] = r] /\ pc' = [pc EXCEPT ![w] = "lookup"]
    BY <1>5 DEF Take
  <2>2. PendingIsUnderway'
    BY <1>0, <1>1, <1>2, <2>1 DEF PendingIsUnderway
  <2>3. \A v \in Worker : pc'[v] \in {"bill", "ack"} => v # w /\ pc'[v] = pc[v] /\ job'[v] = job[v]
    BY <1>0, <2>1 DEF TypeOK
  <2>4. Unrecorded'
    BY <1>2, <2>3, UnrecordedSame
  <2> QED BY <1>3, <2>2, <2>4
<1>6. CASE Ack(w)
  <2>1. /\ pc[w] = "ack" /\ pc' = [pc EXCEPT ![w] = "idle"]
        /\ job' = [job EXCEPT ![w] = NoJob]
        /\ copy' = copy \/ copy' = [copy EXCEPT ![job[w]] = "acked"]
    BY <1>6 DEF Ack, Goto
  <2>2. job[w] \in Request
    BY <1>0, <2>1, InHand
  <2>3. row[job[w]] = "pending" => stops > 0 \/ faults > 0
    BY <1>0, <2>1 DEF Unrecorded
  <2>4. \A q \in Request : copy'[q] = copy[q] \/ (q = job[w] /\ copy'[q] = "acked")
    BY <1>0, <2>1, <2>2 DEF TypeOK
  <2>5. PendingIsUnderway'
    BY <1>0, <1>1, <1>2, <2>3, <2>4 DEF PendingIsUnderway
  <2>6. \A v \in Worker : pc'[v] \in {"bill", "ack"} => v # w /\ pc'[v] = pc[v] /\ job'[v] = job[v]
    BY <1>0, <2>1 DEF TypeOK
  <2>7. Unrecorded'
    BY <1>2, <2>6, UnrecordedSame
  <2> QED BY <1>3, <2>5, <2>7
<1> QED BY <1>4, <1>5, <1>6

LEMMA PendingStep == PendingInv /\ [Next]_vars => PendingInv'
<1> SUFFICES ASSUME PendingInv, [Next]_vars PROVE PendingInv'
  OBVIOUS
<1> DEFINE Kept == NoRowYet /\ Unrecorded /\ PendingIsUnderway
<1>0. TypeOK /\ HolderInv /\ Signals
  BY DEF PendingInv, HolderInv
<1>1. HolderInv' /\ Signals'
  BY <1>0, HolderStep, SignalsStep
<1>2. ASSUME NEW w \in Worker, Ack(w) PROVE Kept'
  <2>1. job[w] \in Request
    BY <1>0, <1>2, InHand DEF Ack, Goto
  <2> QED BY <1>2, <2>1, PendingQueue
<1>3. ASSUME NEW w \in Worker, Exit(w) PROVE Kept'
  <2>1. UNCHANGED <<copy, req, row, job>> /\ pc' = [pc EXCEPT ![w] = "exited"]
    BY <1>3 DEF Exit, brokerVars
  <2>2. \A v \in Worker : pc'[v] \in {"bill", "ack"} => pc'[v] = pc[v]
    BY <1>0, <2>1 DEF TypeOK
  <2> QED BY <2>1, <2>2, PendingRows, UnrecordedSame
<1>4. ASSUME \/ \E c \in Company, n \in Limits : SetLimit(c, n)
             \/ Stop \/ UNCHANGED vars
      PROVE  Kept'
  <2>1. UNCHANGED <<copy, req, row, job, pc>>
    BY <1>4 DEF SetLimit, Stop, vars, brokerVars, workerVars
  <2> QED BY <2>1, PendingRows, UnrecordedSame
<1>5. ASSUME Restart PROVE Kept'
  <2>1. UNCHANGED <<copy, req, row, job>> /\ pc' = [w \in Worker |-> "idle"]
    BY <1>5 DEF Restart
  <2>2. \A v \in Worker : pc'[v] \notin {"bill", "ack"}
    BY <2>1
  <2> QED BY <2>1, <2>2, PendingRows, UnrecordedSame
<1>6. ASSUME ShutDown \/ Crash PROVE Kept'
  <2>1. ProcessEnds
    BY <1>6 DEF ShutDown, Crash
  <2>2. /\ UNCHANGED row
        /\ \A r \in Request : copy'[r] = IF copy[r] = "unacked" THEN "ready" ELSE copy[r]
    BY <1>0, <2>1, HolderEnds DEF ProcessEnds
  <2> QED BY <2>1, <2>2, PendingRequeued
<1>7. ASSUME ConnLoss PROVE Kept'
  <2>1. /\ UNCHANGED <<row, req, pc, job>>
        /\ \A r \in Request : copy'[r] = IF copy[r] = "unacked" THEN "ready" ELSE copy[r]
    BY <1>7 DEF ConnLoss, Requeued, workerVars
  <2> QED BY <2>1, PendingRequeued
<1>8. Kept'
  BY <1>2, <1>3, <1>4, <1>5, <1>6, <1>7, PendingWorker, PendingHandler, PendingQueue
  DEF Next
<1> QED BY <1>1, <1>8 DEF PendingInv

LEMMA PendingInit == Init => PendingInv
<1> SUFFICES ASSUME Init PROVE PendingInv
  OBVIOUS
<1>1. HolderInv
  BY HolderInit
<1>2. Signals /\ NoRowYet /\ Unrecorded /\ PendingIsUnderway
  BY DEF Init, Signals, NoRowYet, Unrecorded, PendingIsUnderway
<1> QED BY <1>1, <1>2 DEF PendingInv

(* A message that stays "pending" is on its way, or one of the disturbances  *)
(* it names has cut it off.                                                  *)
THEOREM PendingExplained == Spec => []PendingIsUnderway
<1>1. PendingInv => PendingIsUnderway
  BY DEF PendingInv
<1> QED BY <1>1, PendingInit, PendingStep, PTL DEF Spec

-----------------------------------------------------------------------------
(* The stored outcome *)

Quiet == timeouts = 0 /\ stops = 0 /\ crashes = 0 /\ drops = 0

(* What is recorded as sent, or about to be, was accepted.                   *)
Accepted == /\ \A r \in Request : row[r] = "sent" => sends[r] > 0
            /\ \A w \in Worker : pc[w] = "record" => sends[job[w]] > 0

(* Nobody will process r again but to acknowledge it.                        *)
Done(r) == /\ copy[r] \in {"unacked", "acked"}
           /\ \A w \in Worker : r \notin inbox[w] /\ (job[w] = r => pc[w] = "ack")

(* Undisturbed, what fails or has failed was not accepted and is done with.  *)
Refused == Quiet =>
  /\ \A w \in Worker : pc[w] \in {"refund", "fail"} => sends[job[w]] = 0
  /\ \A r \in Request : row[r] = "failed" => sends[r] = 0 /\ Done(r)

OutcomeInv == BudgetInv /\ Signals /\ Accepted /\ Refused

LEMMA QuietBefore ==
  ASSUME TypeOK, [Next]_vars, Quiet'
  PROVE  Quiet
<1>1. /\ stops \in Nat /\ crashes \in Nat /\ drops \in Nat /\ timeouts \in Nat
  BY DEF TypeOK
<1> QED BY <1>1, StillDisturbed DEF Quiet

LEMMA AcceptedSame ==
  ASSUME OutcomeInv, UNCHANGED sends,
         \A r \in Request : row'[r] = "sent" => row[r] = "sent",
         \A v \in Worker : pc'[v] = "record" => pc[v] = "record" /\ job'[v] = job[v]
  PROVE  Accepted'
BY DEF OutcomeInv, Accepted

LEMMA RefusedSame ==
  ASSUME OutcomeInv, UNCHANGED sends, Quiet' => Quiet,
         \A r \in Request : row'[r] = "failed" => row[r] = "failed",
         \A r \in Request : row[r] = "failed" /\ Done(r) => Done(r)',
         \A v \in Worker : pc'[v] \in {"refund", "fail"} =>
                             pc[v] \in {"refund", "fail"} /\ job'[v] = job[v]
  PROVE  Refused'
BY DEF OutcomeInv, Refused

(* Undisturbed, a message that will still be sent was not sent before.       *)
LEMMA UnsentIsFirst ==
  ASSUME BudgetInv, Quiet, NEW w \in Worker, NEW r \in Request, Unsent(w, r)
  PROVE  sends[r] = 0
<1>1. sends[r] \in Nat
  BY DEF BudgetInv, HolderInv, TypeOK
<1>2. sends[r] + Due(r) <= 1
  BY DEF BudgetInv, Budget, Quiet
<1>3. Due(r) \in Nat /\ Due(r) >= 1
  BY DEF Due
<1> QED BY <1>1, <1>2, <1>3

LEMMA OutcomeWorker ==
  ASSUME OutcomeInv, NEW w \in Worker, WorkerStep(w), ~Ack(w), [Next]_vars
  PROVE  Accepted' /\ Refused'
<1> DEFINE j == job[w]
<1>0. TypeOK /\ HolderInv /\ BudgetInv /\ Signals /\ Accepted /\ Refused
  BY DEF OutcomeInv, BudgetInv, HolderInv
<1>1. /\ UNCHANGED <<phase, copy, inbox, job>>
      /\ pc[w] \notin {"idle", "exited"}
      /\ \A v \in Worker : v # w => pc'[v] = pc[v]
  BY <1>0, AtWork DEF TypeOK
<1>2. j \in Request /\ copy[j] \in {"ready", "unacked"} /\ j \notin inbox[w]
      /\ \A v \in Worker : v # w => j \notin Held(v)
  BY <1>0, <1>1, InHand
<1>3. \A v \in Worker : v # w => j \notin inbox[v] /\ job[v] # j
  BY <1>2, RequestAssumption DEF Held
<1>4. \/ row' = row
      \/ SetFailed(w) /\ row' = [row EXCEPT ![j] = "failed"]
      \/ RecordSent(w) /\ row' = [row EXCEPT ![j] = IF @ = "pending" THEN "sent" ELSE @]
  BY DEF WorkerStep, LookUp, Reserve, SendAccepted, SendRefused, SendTimedOut,
         Refund, SetFailed, RecordSent, Bill, Ack
<1>5. \/ sends' = sends /\ pc'[w] # "record"
      \/ (SendAccepted(w) \/ SendTimedOut(w)) /\ sends' = [sends EXCEPT ![j] = @ + 1]
  BY <1>0 DEF WorkerStep, LookUp, Reserve, SendAccepted, SendRefused, SendTimedOut,
              Refund, SetFailed, RecordSent, Bill, Ack, Goto, TypeOK
<1>6. \A r \in Request : r # j => row'[r] = row[r] /\ sends'[r] = sends[r]
  BY <1>0, <1>4, <1>5 DEF TypeOK
<1>7. sends[j] \in Nat /\ (sends'[j] = sends[j] \/ sends'[j] = sends[j] + 1)
  BY <1>0, <1>2, <1>5 DEF TypeOK
<1>8. pc'[w] = "record" => sends'[j] > 0
  BY <1>0, <1>2, <1>5, <1>7 DEF TypeOK
<1>9. row'[j] = "sent" => sends'[j] > 0
  <2>1. row'[j] = "sent" => row[j] = "sent" \/ pc[w] = "record"
    BY <1>0, <1>2, <1>4 DEF SetFailed, RecordSent, Goto, TypeOK
  <2>2. row'[j] = "sent" => sends[j] > 0
    BY <1>0, <1>2, <2>1 DEF Accepted
  <2> QED BY <1>7, <2>2
<1>10. Accepted'
  <2>1. ASSUME NEW r \in Request, row'[r] = "sent" PROVE sends'[r] > 0
    BY <1>0, <1>6, <1>9, <2>1 DEF Accepted
  <2>2. ASSUME NEW v \in Worker, pc'[v] = "record" PROVE sends'[job'[v]] > 0
    <3>1. CASE v = w
      BY <1>1, <1>8, <2>2, <3>1
    <3>2. CASE v # w
      <4>1. pc[v] = "record" /\ job[v] # j
        BY <1>1, <1>3, <2>2, <3>2
      <4>2. job[v] \in Request
        BY <1>0, <4>1, InHand
      <4> QED BY <1>0, <1>1, <1>6, <4>1, <4>2 DEF Accepted
    <3> QED BY <3>1, <3>2
  <2> QED BY <2>1, <2>2 DEF Accepted
<1>11. ASSUME Quiet'
       PROVE  /\ \A v \in Worker : pc'[v] \in {"refund", "fail"} => sends'[job'[v]] = 0
              /\ \A r \in Request : row'[r] = "failed" => sends'[r] = 0 /\ Done(r)'
  <2>1. Quiet
    BY <1>0, <1>11, QuietBefore
  <2>2. phase # "stopping"
    BY <1>0, <2>1 DEF Signals, Quiet
  <2>3. ~SendTimedOut(w)
    BY <1>0, <1>11, <2>1, <2>2 DEF SendTimedOut, Quiet
  <2>4. pc[w] \in {"lookup", "reserve", "send"} => sends[j] = 0
    <3>1. pc[w] \in {"lookup", "reserve", "send"} => Unsent(w, j)
      BY DEF Unsent
    <3> QED BY <1>0, <1>2, <2>1, <3>1, UnsentIsFirst
  <2>5. pc[w] \in {"refund", "fail"} => sends[j] = 0
    BY <1>0, <2>1 DEF Refused
  <2>6. pc'[w] \in {"refund", "fail"} =>
          sends' = sends /\ pc[w] \in {"lookup", "reserve", "send", "refund", "fail"}
    BY <1>0, <2>3 DEF WorkerStep, LookUp, Reserve, SendAccepted, SendRefused, Refund,
                      SetFailed, RecordSent, Bill, Ack, Goto, TypeOK
  <2>7. ASSUME NEW v \in Worker, pc'[v] \in {"refund", "fail"} PROVE sends'[job'[v]] = 0
    <3>1. CASE v = w
      BY <1>1, <2>4, <2>5, <2>6, <2>7, <3>1
    <3>2. CASE v # w
      <4>1. pc[v] \in {"refund", "fail"} /\ job[v] # j
        BY <1>1, <1>3, <2>7, <3>2
      <4>2. job[v] \in Request
        BY <1>0, <4>1, InHand
      <4> QED BY <1>0, <1>1, <1>6, <2>1, <4>1, <4>2 DEF Refused
    <3> QED BY <3>1, <3>2
  <2>8. row[j] # "failed"
    <3>1. pc[w] # "ack"
      BY DEF WorkerStep, LookUp, Reserve, SendAccepted, SendRefused, SendTimedOut,
             Refund, SetFailed, RecordSent, Bill, Goto
    <3> QED BY <1>0, <1>2, <2>1, <3>1 DEF Refused, Done
  <2>9. row'[j] = "failed" => pc'[w] = "ack" /\ sends'[j] = 0 /\ copy[j] = "unacked"
    <3>1. row'[j] = "failed" => SetFailed(w)
      BY <1>0, <1>2, <1>4, <2>8 DEF TypeOK
    <3>2. SetFailed(w) => pc[w] = "fail" /\ pc'[w] = "ack" /\ sends' = sends
      BY <1>0 DEF SetFailed, Goto, TypeOK
    <3>3. conn
      <4>1. ~(stops > 0) /\ ~(crashes > 0) /\ ~(drops > 0)
        BY <2>1 DEF Quiet
      <4> QED BY <1>0, <4>1 DEF Signals
    <3>4. copy[j] = "unacked"
      <4>1. j \in Held(w)
        BY <1>0, <1>1, InHand
      <4> QED BY <1>0, <1>2, <3>3, <4>1 DEF HolderInv, OneHolder
    <3> QED BY <2>5, <3>1, <3>2, <3>4
  <2>10. ASSUME NEW r \in Request, row'[r] = "failed" PROVE sends'[r] = 0 /\ Done(r)'
    <3>1. CASE r = j
      BY <1>1, <1>2, <1>3, <2>9, <2>10, <3>1 DEF Done
    <3>2. CASE r # j
      <4>1. sends'[r] = 0 /\ Done(r)
        BY <1>0, <1>6, <2>1, <2>10, <3>2 DEF Refused
      <4> QED BY <1>1, <3>2, <4>1 DEF Done
    <3> QED BY <3>1, <3>2
  <2> QED BY <2>7, <2>10
<1> QED BY <1>10, <1>11 DEF Refused

LEMMA OutcomeQueue ==
  ASSUME OutcomeInv, NEW r \in Request, NEW w \in Worker, [Next]_vars,
         Deliver(r, w) \/ Take(w, r) \/ Ack(w)
  PROVE  Accepted' /\ Refused'
<1>0. TypeOK /\ HolderInv /\ Taken /\ OneHolder
  BY DEF OutcomeInv, BudgetInv, HolderInv
<1>1. Quiet' => Quiet
  BY <1>0, QuietBefore
<1>2. UNCHANGED <<row, sends>>
  BY DEF Deliver, Take, Ack
<1>3. \A v \in Worker : pc'[v] \in {"record", "refund", "fail"} =>
                          pc'[v] = pc[v] /\ job'[v] = job[v]
  BY <1>0 DEF Deliver, Take, Ack, Goto, workerVars, TypeOK
<1>4. ASSUME NEW q \in Request, Done(q) PROVE Done(q)'
  <2>1. CASE Deliver(r, w)
    <3>1. /\ copy[r] = "ready" /\ copy' = [copy EXCEPT ![r] = "unacked"]
          /\ inbox' = [inbox EXCEPT ![w] = @ \cup {r}] /\ UNCHANGED <<job, pc>>
      BY <2>1 DEF Deliver, workerVars
    <3>2. q # r
      BY <1>4, <3>1 DEF Done
    <3> QED BY <1>0, <1>4, <3>1, <3>2 DEF Done, TypeOK
  <2>2. CASE Take(w, r)
    <3>1. /\ r \in inbox[w] /\ inbox' = [inbox EXCEPT ![w] = @ \ {r}]
          /\ job' = [job EXCEPT ![w] = r] /\ pc' = [pc EXCEPT ![w] = "lookup"]
          /\ copy' = copy
      BY <2>2 DEF Take
    <3>2. q # r
      BY <1>4, <3>1 DEF Done
    <3> QED BY <1>0, <1>4, <3>1, <3>2 DEF Done, TypeOK
  <2>3. CASE Ack(w)
    <3>1. /\ pc[w] = "ack" /\ inbox' = inbox
          /\ pc' = [pc EXCEPT ![w] = "idle"] /\ job' = [job EXCEPT ![w] = NoJob]
          /\ copy' = copy \/ copy' = [copy EXCEPT ![job[w]] = "acked"]
      BY <2>3 DEF Ack, Goto
    <3>2. copy'[q] \in {"unacked", "acked"}
      BY <1>0, <1>4, <3>1 DEF Done, TypeOK
    <3>3. ASSUME NEW v \in Worker, job'[v] = q PROVE pc'[v] = "ack"
      <4>1. v # w
        BY <1>0, <3>1, <3>3, RequestAssumption DEF TypeOK
      <4>2. job[v] = q /\ pc'[v] = pc[v]
        BY <1>0, <3>1, <3>3, <4>1 DEF TypeOK
      <4> QED BY <1>4, <4>2 DEF Done
    <3> QED BY <1>4, <3>1, <3>2, <3>3 DEF Done
  <2> QED BY <2>1, <2>2, <2>3
<1>5. Accepted'
  BY <1>2, <1>3, AcceptedSame
<1>6. Refused'
  BY <1>1, <1>2, <1>3, <1>4, RefusedSame
<1> QED BY <1>5, <1>6

LEMMA OutcomeHandler ==
  ASSUME OutcomeInv, NEW r \in Request, Handler(r), [Next]_vars
  PROVE  Accepted' /\ Refused'
<1>0. TypeOK /\ HolderInv /\ Published
  BY DEF OutcomeInv, BudgetInv, HolderInv
<1>1. Quiet' => Quiet
  BY <1>0, QuietBefore
<1>2. UNCHANGED <<inbox, job, pc, sends>>
  BY DEF Handler, CheckKey, InsertRow, PublishOutbound, brokerVars, workerVars
<1>3. \A q \in Request : row'[q] = row[q] \/ row'[q] = "pending"
  BY <1>0 DEF Handler, CheckKey, InsertRow, PublishOutbound, TypeOK
<1>4. copy[r] = "none"
  <2>1. req[r] # "created"
    BY DEF Handler, CheckKey, InsertRow, PublishOutbound
  <2> QED BY <1>0, <2>1 DEF Published
<1>5. \A q \in Request : copy[q] # "none" => copy'[q] = copy[q]
  BY <1>0, <1>4 DEF Handler, CheckKey, InsertRow, PublishOutbound, brokerVars, TypeOK
<1>6. ASSUME NEW q \in Request, Done(q) PROVE Done(q)'
  BY <1>2, <1>5, <1>6 DEF Done
<1>7. Accepted'
  BY <1>2, <1>3, AcceptedSame
<1>8. Refused'
  BY <1>1, <1>2, <1>3, <1>6, RefusedSame
<1> QED BY <1>7, <1>8

(* A stop, a crash, a restart or a lost connection disturbs.                 *)
LEMMA OutcomeDisturbed ==
  ASSUME OutcomeInv, [Next]_vars, Stop \/ ShutDown \/ Crash \/ Restart \/ ConnLoss
  PROVE  Accepted' /\ Refused'
<1>0. TypeOK /\ Signals
  BY DEF OutcomeInv, BudgetInv, HolderInv
<1>1. UNCHANGED <<row, sends>>
  BY DEF Stop, ShutDown, Crash, Restart, ConnLoss, ProcessEnds
<1>2. \A v \in Worker : pc'[v] = "record" => pc[v] = "record" /\ job'[v] = job[v]
  BY DEF Stop, ShutDown, Crash, Restart, ConnLoss, ProcessEnds, workerVars
<1>3. Accepted'
  BY <1>1, <1>2, AcceptedSame
<1>4. /\ stops \in Nat /\ crashes \in Nat /\ drops \in Nat
  BY <1>0 DEF TypeOK
<1>5. /\ stops > 0 => stops' > 0
      /\ crashes > 0 => crashes' > 0
  BY <1>0, StillDisturbed
<1>6. stops' > 0 \/ crashes' > 0 \/ drops' > 0
  <2>1. CASE Stop
    BY <1>4, <2>1 DEF Stop
  <2>2. CASE ShutDown \/ Restart
    BY <1>0, <1>5, <2>2 DEF ShutDown, Restart, Signals
  <2>3. CASE Crash
    BY <1>4, <2>3 DEF Crash
  <2>4. CASE ConnLoss
    BY <1>4, <2>4 DEF ConnLoss
  <2> QED BY <2>1, <2>2, <2>3, <2>4
<1>7. ~Quiet'
  BY <1>6 DEF Quiet
<1> QED BY <1>3, <1>7 DEF Refused

LEMMA OutcomeStep == OutcomeInv /\ [Next]_vars => OutcomeInv'
<1> SUFFICES ASSUME OutcomeInv, [Next]_vars PROVE OutcomeInv'
  OBVIOUS
<1>0. TypeOK /\ HolderInv /\ BudgetInv /\ Signals
  BY DEF OutcomeInv, BudgetInv, HolderInv
<1>1. BudgetInv' /\ Signals'
  BY <1>0, BudgetStep, SignalsStep
<1>2. ASSUME NEW w \in Worker, Ack(w) PROVE Accepted' /\ Refused'
  <2>1. job[w] \in Request
    BY <1>0, <1>2, InHand DEF Ack, Goto
  <2> QED BY <1>2, <2>1, OutcomeQueue
<1>3. ASSUME \/ \E w \in Worker : Exit(w)
             \/ \E c \in Company, n \in Limits : SetLimit(c, n)
             \/ UNCHANGED vars
      PROVE  Accepted' /\ Refused'
  <2>1. UNCHANGED <<row, sends, copy, inbox, job>>
    BY <1>3 DEF Exit, SetLimit, vars, brokerVars, workerVars
  <2>2. \A v \in Worker : pc'[v] = pc[v] \/ (pc[v] = "idle" /\ pc'[v] = "exited")
    BY <1>0, <1>3 DEF Exit, SetLimit, vars, workerVars, TypeOK
  <2>3. ASSUME NEW q \in Request, Done(q) PROVE Done(q)'
    <3>1. \A v \in Worker : job[v] = q => pc'[v] = "ack"
      BY <2>2, <2>3 DEF Done
    <3> QED BY <2>1, <2>3, <3>1 DEF Done
  <2>4. Quiet' => Quiet
    BY <1>0, QuietBefore
  <2>5. Accepted'
    BY <2>1, <2>2, AcceptedSame
  <2>6. Refused'
    BY <2>1, <2>2, <2>3, <2>4, RefusedSame
  <2> QED BY <2>5, <2>6
<1>4. Accepted' /\ Refused'
  BY <1>2, <1>3, OutcomeWorker, OutcomeQueue, OutcomeHandler, OutcomeDisturbed DEF Next
<1> QED BY <1>1, <1>4 DEF OutcomeInv

LEMMA OutcomeInit == Init => OutcomeInv
<1> SUFFICES ASSUME Init PROVE OutcomeInv
  OBVIOUS
<1>1. BudgetInv
  BY BudgetInit
<1>2. Signals /\ Accepted /\ Refused
  BY DEF Init, Signals, Accepted, Refused
<1> QED BY <1>1, <1>2 DEF OutcomeInv

(* The stored outcome is true: "sent" was accepted, and without a lost       *)
(* answer, a stop, a crash or a lost connection "failed" was not.            *)
THEOREM OutcomesTrue == Spec => []OutcomeIsTrue
<1>1. OutcomeInv => OutcomeIsTrue
  <2> SUFFICES ASSUME OutcomeInv, NEW r \in Request
               PROVE  /\ row[r] = "sent" => sends[r] > 0
                      /\ row[r] = "failed" /\ sends[r] > 0
                           => timeouts + stops + crashes + drops > 0
    BY DEF OutcomeIsTrue
  <2>1. /\ timeouts \in Nat /\ stops \in Nat /\ crashes \in Nat /\ drops \in Nat
        /\ sends[r] \in Nat
    BY DEF OutcomeInv, BudgetInv, HolderInv, TypeOK
  <2>2. row[r] = "sent" => sends[r] > 0
    BY DEF OutcomeInv, Accepted
  <2>3. row[r] = "failed" /\ sends[r] > 0 => ~Quiet
    BY <2>1 DEF OutcomeInv, Refused
  <2>4. ~Quiet => timeouts + stops + crashes + drops > 0
    BY <2>1 DEF Quiet
  <2> QED BY <2>2, <2>3, <2>4
<1> QED BY <1>1, OutcomeInit, OutcomeStep, PTL DEF Spec
=============================================================================
