------------------------------ MODULE MetaSync ------------------------------
(***************************************************************************)
(* The synchronisation of conversation prices with Meta                    *)
(* (internal/service/pricing.go, SyncFromMeta) on top of the table of      *)
(* phone numbers, which holds its watermark, and the goroutine of main     *)
(* that runs both synchronisations periodically (cmd/server/main.go),      *)
(* beside requests that run either of them at any time.                    *)
(*                                                                         *)
(* Meta reports one data point per day and line: its figure grows while    *)
(* the day lasts and is final afterwards.  A synchronisation asks for what *)
(* lies between the watermark and now, or for the last LookBack days while *)
(* there is no watermark, and sets the watermark to the latest end of the  *)
(* points it was given.                                                    *)
(***************************************************************************)
EXTENDS PhoneSync, FiniteSetsExt

CONSTANTS
  Line,      \* a phone number and a pricing category
  Ticker,    \* the periodic goroutine
  PerDay,    \* instants in a day
  LookBack,  \* the days that a synchronisation without a watermark asks for
  LastDay,   \* the horizon, in days
  MaxVolume, MaxCuts  \* bounds

ASSUME TickerAssumption == Ticker \in Syncer

ASSUME TimeAssumption == /\ PerDay \in Nat \ {0}
                         /\ LookBack \in Nat \ {0} /\ LastDay \in Nat \ {0}
                         /\ MaxVolume \in Nat /\ MaxCuts \in Nat

Day == 1 .. LastDay
Begin(d) == d * PerDay
End(d) == (d + 1) * PerDay
Point == [line : Line, day : Day, figure : 0 .. MaxVolume]

VARIABLES
  now,
  usage,      \* Meta's figures
  stored,     \* waba_pricing: the figure of a line's day, 0: no row
  since,      \* since[p]: the watermark that p read
  batch,      \* batch[p]: data points that p has still to store
  top,        \* top[p]: the latest end among those it was given
  gap,        \* history: points that could not be stored
  partial,    \* history: days of which a point was fetched before their end
  skipped,    \* history: days that were over when a synchronisation without a
              \* watermark no longer asked for them
  cuts

prices == <<usage, stored>>
priceMemory == <<since, batch, top>>
history == <<gap, partial, skipped>>
pricing == <<now, prices, priceMemory, history, cuts>>
phones == <<columns, meta, phoneMemory>>
vars == <<phones, mark, at, faults, pricing>>

TypeOK ==
  /\ PhoneTypeOK
  /\ mark \in [Number -> {0} \cup {End(d) : d \in Day}]
  /\ at \in [Syncer -> {"idle", "list", "number", "upsert", "fetch", "profile",
                        "mark", "ask", "store"}]
  /\ now \in Begin(1) .. End(LastDay) - 1
  /\ usage \in [Line -> [Day -> 0 .. MaxVolume]]
  /\ stored \in [Line -> [Day -> 0 .. MaxVolume]]
  /\ since \in [Syncer -> {0} \cup {End(d) : d \in Day}]
  /\ batch \in [Syncer -> SUBSET Point]
  /\ top \in [Syncer -> {0} \cup {End(d) : d \in Day}]
  /\ gap \in SUBSET (Line \X Day)
  /\ partial \in SUBSET Day
  /\ skipped \in SUBSET Day
  /\ cuts \in 0 .. MaxCuts

Init ==
  /\ PhoneInit
  /\ now = Begin(1)
  /\ usage = [l \in Line |-> [d \in Day |-> 0]]
  /\ stored = [l \in Line |-> [d \in Day |-> 0]]
  /\ since = [p \in Syncer |-> 0]
  /\ batch = [p \in Syncer |-> {}]
  /\ top = [p \in Syncer |-> 0]
  /\ gap = {}
  /\ partial = {}
  /\ skipped = {}
  /\ cuts = 0

-----------------------------------------------------------------------------
(* PricingService.SyncFromMeta *)

(* The watermark: the greatest of all rows'.                                 *)
Watermark == Max({0} \cup {mark[n] : n \in known})

ReadWatermark(p) ==
  /\ at[p] = "mark"
  /\ Goto(p, "ask")
  /\ since' = [since EXCEPT ![p] = Watermark]
  /\ UNCHANGED <<phones, mark, faults, now, prices, batch, top, history, cuts>>

(* Instant t lies in day d. *)
Within(t, d) == Begin(d) <= t /\ t < End(d)

(* Mutant of UpToDate: any watermark will do. *)
UpToDateOnce(s) == s > 0

(* "Already up to date": the watermark lies in the current day; the start    *)
(* taken without a watermark never does.                                     *)
UpToDate(s) == s > 0 /\ \E d \in Day : Within(s, d) /\ Within(now, d)

Skip(p) ==
  /\ at[p] = "ask" /\ UpToDate(since[p])
  /\ Goto(p, "idle")
  /\ since' = [since EXCEPT ![p] = 0]
  /\ UNCHANGED <<phones, mark, faults, now, prices, batch, top, history, cuts>>

(* Where the request starts: at the watermark s, LookBack days ago without.   *)
Start(s) == IF s # 0 THEN s ELSE now - LookBack * PerDay

(* Meta's answer for start .. now: a point for each day with usage that      *)
(* ended after start; the current day's may be among them.                   *)
Reported(start, running) ==
  {q \in Point : /\ q.figure = usage[q.line][q.day] /\ q.figure > 0
                 /\ start < End(q.day)
                 /\ \/ End(q.day) <= now
                    \/ running /\ Within(now, q.day)}

LatestEnd(points) == Max({0} \cup {End(q.day) : q \in points})

(* The points come in entries, which may be empty.  When the first one is,   *)
(* no new watermark is taken from the others.                                *)
NewMark(points, firstEmpty) == IF firstEmpty THEN 0 ELSE LatestEnd(points)

(* Client.GetPricingAnalytics answers; with nothing to store the             *)
(* synchronisation is over.                                                  *)
Ask(p) ==
  /\ at[p] = "ask" /\ ~ UpToDate(since[p])
  /\ \E running, firstEmpty \in BOOLEAN :
       LET points == Reported(Start(since[p]), running) IN
       /\ batch' = [batch EXCEPT ![p] = points]
       /\ top' = [top EXCEPT ![p] = NewMark(points, firstEmpty)]
       /\ Goto(p, IF points = {} THEN "idle" ELSE "store")
       /\ partial' = partial \cup {q.day : q \in {r \in points : now < End(r.day)}}
  /\ skipped' = skipped \cup {d \in Day : since[p] = 0 /\ End(d) <= Start(0)}
  /\ since' = [since EXCEPT ![p] = 0]
  /\ UNCHANGED <<phones, mark, faults, now, prices, gap, cuts>>

(* The list, the request or its answer fails. *)
AskFails(p) ==
  /\ at[p] \in {"mark", "ask"}
  /\ Fault
  /\ Goto(p, "idle")
  /\ since' = [since EXCEPT ![p] = 0]
  /\ UNCHANGED <<phones, mark, now, prices, batch, top, history, cuts>>

(* Mutant of RowDay: by the day on which it ends. *)
RowDayEnd(q) == IF q.day < LastDay THEN q.day + 1 ELSE q.day

(* The row of a data point is found by the day on which it starts.           *)
RowDay(q) == q.day

(* PricingRepository.UpsertPricing: a new row, or a new figure in it.        *)
UpsertPricing(p, q) ==
  /\ at[p] = "store" /\ q \in batch[p]
  /\ stored' = [stored EXCEPT ![q.line][RowDay(q)] = q.figure]
  /\ batch' = [batch EXCEPT ![p] = @ \ {q}]
  /\ UNCHANGED <<phones, mark, at, faults, now, usage, since, top, history, cuts>>

(* Its failure is logged and the loop goes on. *)
UpsertPricingFails(p, q) ==
  /\ at[p] = "store" /\ q \in batch[p]
  /\ Fault
  /\ batch' = [batch EXCEPT ![p] = @ \ {q}]
  /\ gap' = gap \cup {<<q.line, q.day>>}
  /\ UNCHANGED <<phones, mark, at, now, prices, since, top, partial, skipped, cuts>>

(* Mutant of Tried: the watermark is written after the answer. *)
TriedNotAll(p) == TRUE

(* All points have been tried. *)
Tried(p) == batch[p] = {}

FinishPricing(p) == /\ Goto(p, "idle")
                    /\ top' = [top EXCEPT ![p] = 0]
                    /\ batch' = [batch EXCEPT ![p] = {}]

(* PhoneNumberRepository.UpdateLastSyncPricing: every row's watermark. *)
UpdateLastSyncPricing(p) ==
  /\ at[p] = "store" /\ Tried(p) /\ top[p] # 0
  /\ mark' = [n \in Number |-> IF n \in known THEN top[p] ELSE mark[n]]
  /\ FinishPricing(p)
  /\ UNCHANGED <<phones, faults, now, prices, since, history, cuts>>

UpdateLastSyncPricingFails(p) ==
  /\ at[p] = "store" /\ Tried(p) /\ top[p] # 0
  /\ Fault
  /\ FinishPricing(p)
  /\ UNCHANGED <<phones, mark, now, prices, since, history, cuts>>

(* Without a new watermark the old one stays.                                *)
KeepLastSyncPricing(p) ==
  /\ at[p] = "store" /\ Tried(p) /\ top[p] = 0
  /\ FinishPricing(p)
  /\ UNCHANGED <<phones, mark, faults, now, prices, since, history, cuts>>

PricingStep(p) ==
  \/ ReadWatermark(p) \/ Skip(p) \/ Ask(p) \/ AskFails(p)
  \/ \E q \in batch[p] : UpsertPricing(p, q) \/ UpsertPricingFails(p, q)
  \/ UpdateLastSyncPricing(p) \/ UpdateLastSyncPricingFails(p)
  \/ KeepLastSyncPricing(p)

-----------------------------------------------------------------------------
(* Who starts them, and how they are cut short *)

(* The ticker fires: phone numbers first, then prices, whether or not the    *)
(* first failed.  A request asks for one of the two.                         *)
Tick ==
  /\ at[Ticker] = "idle"
  /\ Goto(Ticker, "list")
  /\ UNCHANGED <<phones, mark, faults, pricing>>

Request(p, step) ==
  /\ p # Ticker /\ at[p] = "idle"
  /\ Goto(p, step)
  /\ UNCHANGED <<phones, mark, faults, pricing>>

PhonesEnd(p) ==
  /\ PhonesDone(p, IF p = Ticker THEN "mark" ELSE "idle")
  /\ UNCHANGED pricing

Cut(S) == /\ cuts < MaxCuts
          /\ cuts' = cuts + 1
          /\ at' = [p \in Syncer |-> IF p \in S THEN "idle" ELSE at[p]]
          /\ todo' = [p \in Syncer |-> IF p \in S THEN {} ELSE todo[p]]
          /\ cur' = [p \in Syncer |-> IF p \in S THEN None ELSE cur[p]]
          /\ found' = [p \in Syncer |-> IF p \in S THEN None ELSE found[p]]
          /\ fresh' = [p \in Syncer |-> p \notin S /\ fresh[p]]
          /\ fetched' = [p \in Syncer |-> IF p \in S THEN 0 ELSE fetched[p]]
          /\ since' = [p \in Syncer |-> IF p \in S THEN 0 ELSE since[p]]
          /\ batch' = [p \in Syncer |-> IF p \in S THEN {} ELSE batch[p]]
          /\ top' = [p \in Syncer |-> IF p \in S THEN 0 ELSE top[p]]
          /\ UNCHANGED <<columns, mark, meta, faults, now, prices, history>>

(* The deadline or the end of a request cancels its calls: what it was doing *)
(* is left undone.  The ticker's calls have no deadline.                     *)
Abandon(p) ==
  /\ p # Ticker /\ at[p] # "idle"
  /\ Cut({p})

(* The process is killed and started again. *)
Crash == Cut(Syncer)

-----------------------------------------------------------------------------
(* Time and Meta *)

TimePasses ==
  /\ now + 1 < End(LastDay)
  /\ now' = now + 1
  /\ UNCHANGED <<phones, mark, at, faults, prices, priceMemory, history, cuts>>

(* Line l is used: the current day's figure grows. *)
Use(l) ==
  /\ \E d \in Day : /\ Within(now, d) /\ usage[l][d] < MaxVolume
                    /\ usage' = [usage EXCEPT ![l][d] = @ + 1]
  /\ UNCHANGED <<phones, mark, at, faults, now, stored, priceMemory, history, cuts>>

SyncStep(p) == (PhoneStep(p) /\ UNCHANGED pricing) \/ PhonesEnd(p) \/ PricingStep(p)

Next ==
  \/ \E p \in Syncer : SyncStep(p) \/ Abandon(p)
  \/ Crash
  \/ Tick
  \/ \E p \in Syncer, step \in {"list", "mark"} : Request(p, step)
  \/ PhoneRequest /\ UNCHANGED pricing
  \/ TimePasses
  \/ \E l \in Line : Use(l)

Spec == Init /\ [][Next]_vars

(* The goroutine's ticker fires again and again and every call it makes      *)
(* returns; nothing makes requests, administrators or time go on.            *)
Fairness == WF_vars(Tick) /\ WF_vars(SyncStep(Ticker))
FairSpec == Spec /\ Fairness

-----------------------------------------------------------------------------
(* What the prices promise *)

(* The stored figure is final, or it is known why it may never be: an upsert *)
(* failed, the day was fetched before its end, or there was no watermark     *)
(* LookBack days after it.                                                   *)
Settled(l, d) ==
  \/ d \in partial \cup skipped
  \/ <<l, d>> \in gap
  \/ End(d) <= now /\ stored[l][d] = usage[l][d]

(* Behind the watermark, from where nothing is ever fetched again, nothing   *)
(* is missing but what failed to be stored, days that were fetched before    *)
(* they were over, and days beyond the look-back when prices were            *)
(* synchronised without a watermark; whatever synchronisations overlapped,   *)
(* failed, were cut short or set the watermark back.                         *)
NothingLostBehindMark ==
  \A n \in known, l \in Line, d \in Day : End(d) <= mark[n] => Settled(l, d)

(* Synchronisations that overlap may store their answers in the wrong order; *)
(* a figure is replaced by a smaller one only if its day was fetched before  *)
(* its end, never once all answers under way were given after it.            *)
FiguresGrow ==
  [][\A l \in Line, d \in Day :
       stored'[l][d] < stored[l][d] => d \in partial]_stored

(* The periodic goroutine alone, without any request, sees to it that from   *)
(* the day after a line was used its figure gets settled.                    *)
UsageIsSettled ==
  \A l \in Line, d \in Day :
    (End(d) <= now /\ usage[l][d] > 0) ~> Settled(l, d)
=============================================================================
