------------------------ MODULE WorkerRuntimeProofs ------------------------
(***************************************************************************)
(* Proofs about module WorkerRuntime, for any number of workers and other  *)
(* clients of the bucket, any rates and any times.                         *)
(***************************************************************************)
EXTENDS WorkerRuntime, TLAPS

-----------------------------------------------------------------------------
(* The bucket *)

(* What was let through since an instant, with what the bucket holds now, is *)
(* covered by a full bucket and the refill since.                            *)
Accounted ==
  \A s \in Time :
    /\ s <= now => since[s] * PerToken + Refilled <= Full + (now - s)
    /\ s > now => since[s] = 0

(* A request that sleeps was refused one pause before its timer.             *)
Waiting ==
  \A c \in Client :
    doing[c] = "sleeping" =>
      /\ now <= wake[c]
      /\ Earned + wake[c] < PerToken + Pause + now

BucketTyped == now \in Time /\ BucketTypeOK /\ last <= now

BucketInv == BucketTyped /\ Accounted /\ Waiting

LEMMA Sizes == /\ Full \in Nat /\ PerToken \in Nat \ {0} /\ PerToken <= Full
               /\ Pause \in Nat \ {0} /\ Burst \in Nat \ {0} /\ Patience \in Nat
<1>1. Burst \in Nat \ {0} /\ PerToken \in Nat \ {0} /\ Patience \in Nat
  BY BucketAssumption
<1>2. Pause \in Nat \ {0} BY BucketAssumption
<1>3. Burst * PerToken \in Nat /\ PerToken <= Burst * PerToken
  <2>1. \A a, b \in Nat \ {0} : a * b \in Nat /\ b <= a * b OBVIOUS
  <2> QED BY <1>1, <2>1
<1> QED BY <1>1, <1>2, <1>3 DEF Full

(* What a refill yields.                                                     *)
LEMMA Refills ==
  ASSUME BucketTyped
  PROVE  Earned \in Nat /\ Refilled \in 0 .. Full /\ Refilled <= Earned /\ level <= Refilled
BY Sizes, ClockAssumption DEF BucketTyped, BucketTypeOK, Refilled, Earned, Least, Time

LEMMA BucketBegins == Init => BucketInv
<1> SUFFICES ASSUME Init PROVE BucketInv OBVIOUS
<1>1. now = 0 /\ level = Full /\ last = 0 /\ since = [s \in Time |-> 0]
      /\ doing = [c \in Client |-> "free"]
      /\ wake = [c \in Client |-> 0] /\ due = [c \in Client |-> 0]
  BY DEF Init, BucketInit
<1>2. BucketTyped
  BY <1>1, Sizes, ClockAssumption DEF BucketTyped, BucketTypeOK, Time
<1>3. Refilled = Full BY <1>1, Sizes DEF Refilled, Earned, Least
<1>4. Accounted
  <2> SUFFICES ASSUME NEW s \in Time
               PROVE  s <= now => since[s] * PerToken + Refilled <= Full + (now - s)
    BY <1>1 DEF Accounted
  <2>1. since[s] = 0 /\ s \in Nat BY <1>1, ClockAssumption DEF Time
  <2>2. since[s] * PerToken = 0 BY <2>1, Sizes
  <2> QED BY <1>1, <1>3, <2>1, <2>2, Sizes
<1>5. Waiting BY <1>1 DEF Waiting
<1> QED BY <1>2, <1>4, <1>5 DEF BucketInv

(* Asking for a token, whether it is given or not.                           *)
Asks(ok) == Allow(ok) /\ UNCHANGED now

LEMMA AllowKeeps ==
  ASSUME BucketInv, NEW ok \in BOOLEAN, Asks(ok)
  PROVE  /\ level' \in 0 .. Full /\ last' = now /\ since' \in [Time -> Nat]
         /\ Refilled' = level' /\ Earned' = level' /\ level' <= Earned
         /\ ~ ok => level' < PerToken
         /\ Accounted'
<1>0. BucketTyped /\ Accounted BY DEF BucketInv
<1>1. Refilled \in 0 .. Full /\ now \in Nat /\ last \in Nat
  BY <1>0, Refills, ClockAssumption DEF BucketTyped, BucketTypeOK, Time
<1>2. last' = now BY DEF Asks, Allow, Stamp
<1>3. level' = IF ok THEN Refilled - PerToken ELSE Refilled BY DEF Asks, Allow
<1>4. ok <=> Refilled >= PerToken BY DEF Asks, Allow
<1>5. level' \in 0 .. Full /\ level' <= Refilled /\ (~ ok => level' < PerToken)
  BY <1>1, <1>3, <1>4, Sizes
<1>6. Refilled' = level' /\ Earned' = level'
  <2>1. now' \in Nat /\ last' \in Nat /\ last' = now' BY <1>1, <1>2 DEF Asks
  <2>2. level' \in Nat /\ Full \in Nat /\ level' <= Full BY <1>5, Sizes
  <2>3. level' + (now' - last') = level'
    <3>1. \A a, b, c \in Nat : a = b => c + (a - b) = c OBVIOUS
    <3> QED BY <2>1, <2>2, <3>1
  <2> QED BY <2>2, <2>3 DEF Refilled, Earned, Least
<1>7. \A s \in Time :
        /\ since[s] \in Nat
        /\ since'[s] = IF ok /\ s <= now THEN since[s] + 1 ELSE since[s]
  BY <1>0 DEF Asks, Allow, BucketTyped, BucketTypeOK
<1>8. since' \in [Time -> Nat] BY <1>0, <1>7 DEF Asks, Allow, BucketTyped, BucketTypeOK
<1>9. ASSUME NEW s \in Time
      PROVE  /\ s <= now => since'[s] * PerToken + level' <= Full + (now - s)
             /\ s > now => since'[s] = 0
  <2>1. s \in Nat BY ClockAssumption DEF Time
  <2>2. s <= now => since[s] * PerToken + Refilled <= Full + (now - s) BY <1>0 DEF Accounted
  <2>3. (since[s] + 1) * PerToken = since[s] * PerToken + PerToken
        /\ since[s] * PerToken \in Nat
    <3>1. \A a, b \in Nat : (a + 1) * b = a * b + b /\ a * b \in Nat OBVIOUS
    <3> QED BY <1>7, <3>1, Sizes
  <2>4. CASE ok /\ s <= now
    <3>1. since'[s] * PerToken = since[s] * PerToken + PerToken BY <1>7, <2>3, <2>4
    <3> QED BY <1>1, <1>3, <2>1, <2>2, <2>3, <2>4, <3>1, Sizes
  <2>5. CASE ~ ok \/ s > now
    <3>1. since'[s] = since[s] BY <1>1, <1>7, <2>1, <2>5
    <3>2. s <= now => level' = Refilled BY <1>1, <1>3, <2>1, <2>5
    <3> QED BY <1>0, <2>2, <3>1, <3>2 DEF Accounted
  <2> QED BY <1>1, <2>1, <2>4, <2>5
<1>10. Accounted' BY <1>6, <1>9 DEF Accounted, Asks
<1>11. level' <= Earned
  <2>1. Earned \in Nat /\ Refilled <= Earned BY <1>0, Refills
  <2> QED BY <1>1, <1>5, <2>1, Sizes
<1> QED BY <1>2, <1>5, <1>6, <1>8, <1>10, <1>11

(* A step of a client.                                                       *)
Request(c, cancelled) ==
  /\ UNCHANGED now
  /\ RoundTrip(c) \/ WaitTry(c) \/ Answered(c) \/ WaitEnds(c, cancelled)

LEMMA RequestKeeps ==
  ASSUME BucketInv, NEW c \in Client, NEW cancelled, Request(c, cancelled)
  PROVE  BucketInv'
<1>0. BucketTyped /\ Accounted /\ Waiting BY DEF BucketInv
<1>1. /\ Earned \in Nat /\ now \in Nat
      /\ now + Pause \in Nat /\ now + Patience \in Nat
      /\ UNCHANGED now
  BY <1>0, Refills, Sizes, ClockAssumption DEF BucketTyped, Time, Request
<1>2. CASE Answered(c) \/ WaitEnds(c, cancelled)
  <2>1. UNCHANGED <<level, last, since>> BY <1>2 DEF Answered, WaitEnds, bucket
  <2>2. Refilled' = Refilled /\ Earned' = Earned BY <1>1, <2>1 DEF Refilled, Earned
  <2>3. BucketTyped'
    BY <1>0, <1>1, <1>2, <2>1 DEF BucketTyped, BucketTypeOK, Answered, WaitEnds
  <2>4. Accounted' BY <1>0, <1>1, <2>1, <2>2 DEF Accounted
  <2>5. Waiting'
    BY <1>0, <1>1, <1>2, <2>2 DEF Waiting, Answered, WaitEnds, BucketTyped, BucketTypeOK
  <2> QED BY <2>3, <2>4, <2>5 DEF BucketInv
<1>3. ASSUME NEW ok \in BOOLEAN, Allow(ok),
             doing' = [doing EXCEPT ![c] = IF ok THEN "sending" ELSE "refused"],
             due' = [due EXCEPT ![c] = IF ok THEN 0 ELSE now + Patience],
             UNCHANGED wake
      PROVE  BucketInv'
  <2>1. /\ level' \in 0 .. Full /\ last' = now /\ since' \in [Time -> Nat]
        /\ Earned' = level' /\ level' <= Earned /\ Accounted'
    BY <1>1, <1>3, AllowKeeps DEF Asks
  <2>2. doing' \in [Client -> {"free", "refused", "sleeping", "sending"}]
        /\ due' \in [Client -> Nat]
    BY <1>0, <1>1, <1>3 DEF BucketTyped, BucketTypeOK
  <2>3. BucketTyped' BY <1>0, <1>1, <1>3, <2>1, <2>2 DEF BucketTyped, BucketTypeOK
  <2>4. Waiting'
    <3> SUFFICES ASSUME NEW d \in Client, doing'[d] = "sleeping"
                 PROVE  now <= wake[d] /\ level' + wake[d] < PerToken + Pause + now
      BY <1>1, <1>3, <2>1 DEF Waiting
    <3>1. doing[d] = "sleeping" BY <1>0, <1>3 DEF BucketTyped, BucketTypeOK
    <3>2. wake[d] \in Nat BY <1>0 DEF BucketTyped, BucketTypeOK
    <3> QED BY <1>0, <1>1, <2>1, <3>1, <3>2, Sizes DEF Waiting
  <2> QED BY <2>1, <2>3, <2>4 DEF BucketInv
<1>4. ASSUME NEW ok \in BOOLEAN, Allow(ok),
             doing' = [doing EXCEPT ![c] = IF ok THEN "sending" ELSE "sleeping"],
             wake' = [wake EXCEPT ![c] = IF ok THEN 0 ELSE NextTry],
             due' = [due EXCEPT ![c] = IF ok THEN 0 ELSE @]
      PROVE  BucketInv'
  <2>1. /\ level' \in 0 .. Full /\ last' = now /\ since' \in [Time -> Nat]
        /\ Earned' = level' /\ level' <= Earned /\ Accounted'
        /\ ~ ok => level' < PerToken
    BY <1>1, <1>4, AllowKeeps DEF Asks
  <2>2. /\ doing' \in [Client -> {"free", "refused", "sleeping", "sending"}]
        /\ wake' \in [Client -> Nat] /\ due' \in [Client -> Nat]
    BY <1>0, <1>1, <1>4 DEF BucketTyped, BucketTypeOK, NextTry
  <2>3. BucketTyped' BY <1>0, <1>1, <2>1, <2>2 DEF BucketTyped, BucketTypeOK
  <2>4. Waiting'
    <3> SUFFICES ASSUME NEW d \in Client, doing'[d] = "sleeping"
                 PROVE  now <= wake'[d] /\ level' + wake'[d] < PerToken + Pause + now
      BY <1>1, <2>1 DEF Waiting
    <3>1. CASE d = c
      <4>1. ~ ok BY <1>0, <1>4, <3>1 DEF BucketTyped, BucketTypeOK
      <4>2. wake'[d] = now + Pause
        BY <1>0, <1>4, <3>1, <4>1 DEF BucketTyped, BucketTypeOK, NextTry
      <4>3. level' \in Nat /\ level' < PerToken BY <2>1, <4>1, Sizes
      <4>4. now \in Nat /\ wake'[d] \in Nat BY <1>1, <4>2
      <4>5. \A l, n, p, q \in Nat : l < q => n <= n + p /\ l + (n + p) < q + p + n
        OBVIOUS
      <4> QED BY <4>2, <4>3, <4>4, <4>5, Sizes
    <3>2. CASE d # c
      <4>1. doing[d] = "sleeping" /\ wake'[d] = wake[d] /\ wake[d] \in Nat
        BY <1>0, <1>4, <3>2 DEF BucketTyped, BucketTypeOK
      <4> QED BY <1>0, <1>1, <2>1, <4>1, Sizes DEF Waiting
    <3> QED BY <3>1, <3>2
  <2> QED BY <2>1, <2>3, <2>4 DEF BucketInv
<1>5. CASE RoundTrip(c) BY <1>3, <1>5 DEF RoundTrip
<1>6. CASE WaitTry(c) BY <1>4, <1>6 DEF WaitTry
<1> QED BY <1>2, <1>5, <1>6 DEF Request

LEMMA TickKeeps ==
  ASSUME BucketInv, Tick
  PROVE  BucketInv'
<1>0. BucketTyped /\ Accounted /\ Waiting BY DEF BucketInv
<1>1. now' = now + 1 /\ now < MaxTime /\ NobodyOversleeps
      /\ UNCHANGED <<level, last, since, doing, wake, due>>
  BY DEF Tick, bucket, clients
<1>2. now \in Nat /\ last \in Nat /\ level \in 0 .. Full /\ last <= now
  BY <1>0, ClockAssumption DEF BucketTyped, BucketTypeOK, Time
<1>3. BucketTyped'
  BY <1>0, <1>1, <1>2, ClockAssumption DEF BucketTyped, BucketTypeOK, Time
<1>4. /\ Earned \in Nat /\ Earned' = Earned + 1
      /\ Refilled \in Nat /\ Refilled' \in Nat /\ Refilled' <= Refilled + 1 /\ Refilled' <= Full
  <2>1. Earned \in Nat /\ Earned' = Earned + 1 BY <1>1, <1>2 DEF Earned
  <2>2. Full' = Full BY DEF Full
  <2> QED BY <2>1, <2>2, Sizes DEF Refilled, Least
<1>5. ASSUME NEW s \in Time
      PROVE  /\ s <= now' => since[s] * PerToken + Refilled' <= Full + (now' - s)
             /\ s > now' => since[s] = 0
  <2>1. s \in Nat /\ since[s] \in Nat
    BY <1>0, ClockAssumption DEF Time, BucketTyped, BucketTypeOK
  <2>2. since[s] * PerToken \in Nat
    <3>1. \A a, b \in Nat : a * b \in Nat OBVIOUS
    <3> QED BY <2>1, <3>1, Sizes
  <2>3. CASE s <= now
    <3>1. since[s] * PerToken + Refilled <= Full + (now - s) BY <1>0, <2>3 DEF Accounted
    <3> QED BY <1>1, <1>2, <1>4, <2>1, <2>2, <2>3, <3>1, Sizes
  <2>4. CASE s > now
    <3>1. since[s] = 0 BY <1>0, <2>4 DEF Accounted
    <3>2. since[s] * PerToken = 0 BY <3>1, Sizes
    <3>3. \A a, r, f, t, u \in Nat :
            a = 0 /\ r <= f => (t <= u => a + r <= f + (u - t))
      OBVIOUS
    <3>4. now' \in Nat BY <1>1, <1>2
    <3>5. s <= now' => since[s] * PerToken + Refilled' <= Full + (now' - s)
      BY <1>4, <2>1, <2>2, <3>2, <3>3, <3>4, Sizes
    <3> QED BY <3>1, <3>5
  <2>5. s <= now \/ s > now BY <1>2, <2>1
  <2> QED BY <2>3, <2>4, <2>5
<1>6. Accounted' BY <1>1, <1>5 DEF Accounted
<1>7. Waiting'
  <2> SUFFICES ASSUME NEW c \in Client, doing[c] = "sleeping"
               PROVE  now' <= wake[c] /\ Earned' + wake[c] < PerToken + Pause + now'
    BY <1>1 DEF Waiting
  <2>1. now < wake[c] BY <1>1 DEF NobodyOversleeps
  <2>2. wake[c] \in Nat BY <1>0 DEF BucketTyped, BucketTypeOK
  <2>3. Earned + wake[c] < PerToken + Pause + now BY <1>0 DEF Waiting
  <2> QED BY <1>1, <1>2, <1>4, <2>1, <2>2, <2>3, Sizes
<1> QED BY <1>3, <1>6, <1>7 DEF BucketInv

(* All other steps leave the bucket and the clock alone.                     *)
Elsewhere(w) ==
  \/ Begins(w) \/ Consumes(w) \/ Receives(w) \/ FailsEarly(w) \/ Counts(w)
  \/ Finishes(w) \/ Leaves(w) \/ Unwinds(w) \/ Beats(w) \/ StopsTracker(w)

LEMMA BucketStep == BucketInv /\ [Next]_vars => BucketInv'
<1> SUFFICES ASSUME BucketInv, [Next]_vars PROVE BucketInv' OBVIOUS
<1>1. ASSUME UNCHANGED <<now, bucket, clients>> PROVE BucketInv'
  BY <1>1 DEF bucket, clients, BucketInv, BucketTyped, BucketTypeOK, Accounted,
              Waiting, Refilled, Earned
<1>2. ASSUME NEW w \in Worker, Sends(w) \/ TriesAgain(w) \/ Returns(w) PROVE BucketInv'
  <2>1. w \in Client BY WorkerAssumption
  <2>2. UNCHANGED now BY <1>2 DEF Sends, TriesAgain, Returns
  <2>3. RoundTrip(w) \/ WaitTry(w) \/ Answered(w) \/ WaitEnds(w, Cancelled)
    BY <1>2 DEF Sends, TriesAgain, Returns
  <2> QED BY <2>1, <2>2, <2>3, RequestKeeps DEF Request
<1>3. ASSUME NEW c \in Client \ Worker, OtherRequest(c) PROVE BucketInv'
  <2>1. UNCHANGED now BY <1>3 DEF OtherRequest
  <2>2. RoundTrip(c) \/ WaitTry(c) \/ Answered(c) \/ WaitEnds(c, TRUE)
    BY <1>3 DEF OtherRequest
  <2> QED BY <2>1, <2>2, RequestKeeps DEF Request
<1>4. ASSUME NEW w \in Worker, Elsewhere(w) PROVE BucketInv'
  <2>1. UNCHANGED <<now, bucket, clients>>
    BY <1>4 DEF Elsewhere, Begins, Consumes, Receives, FailsEarly, Counts, Finishes,
                Leaves, Unwinds, Beats, StopsTracker
  <2> QED BY <1>1, <2>1
<1>5. CASE UNCHANGED vars BY <1>1, <1>5 DEF vars
<1>6. CASE Cancels \/ Stops BY <1>1, <1>6 DEF Cancels, Stops
<1>7. CASE Next
  BY <1>2, <1>3, <1>4, <1>6, <1>7, TickKeeps DEF Next, WorkerStep, Elsewhere
<1> QED BY <1>5, <1>7

(* From any instant on, no more requests go to Meta than a full bucket and   *)
(* its refill.                                                               *)
THEOREM RateIsKept == Spec => []NeverTooMany
<1>1. BucketInv => NeverTooMany
  <2> SUFFICES ASSUME BucketInv, NEW s \in Time, s <= now
               PROVE  since[s] * PerToken <= Full + (now - s)
    BY DEF NeverTooMany
  <2>1. BucketTyped /\ Accounted BY DEF BucketInv
  <2>2. Refilled \in Nat BY <2>1, Refills, Sizes
  <2>3. since[s] \in Nat /\ s \in Nat /\ now \in Nat
    BY <2>1, ClockAssumption DEF BucketTyped, BucketTypeOK, Time
  <2>4. since[s] * PerToken \in Nat
    <3>1. \A a, b \in Nat : a * b \in Nat OBVIOUS
    <3> QED BY <2>3, <3>1, Sizes
  <2>5. since[s] * PerToken + Refilled <= Full + (now - s) BY <2>1 DEF Accounted
  <2> QED BY <2>2, <2>3, <2>4, <2>5, Sizes
<1> QED BY <1>1, BucketBegins, BucketStep, PTL DEF Spec

(* While a request waits, less than a token and a pause of refill comes      *)
(* together; a bucket of two tokens or more has room for it.                 *)
THEOREM TokensAreUsed == Spec => []NoneWasted
<1>1. BucketInv => NoneWasted
  <2> SUFFICES ASSUME BucketInv, NEW c \in Client, doing[c] = "sleeping"
               PROVE  /\ Earned < PerToken + Pause
                      /\ Burst > 1 => Refilled = Earned
    BY DEF NoneWasted
  <2>1. BucketTyped /\ Waiting BY DEF BucketInv
  <2>2. Earned \in Nat BY <2>1, Refills
  <2>3. wake[c] \in Nat /\ now \in Nat
    BY <2>1, ClockAssumption DEF BucketTyped, BucketTypeOK, Time
  <2>4. now <= wake[c] /\ Earned + wake[c] < PerToken + Pause + now
    BY <2>1 DEF Waiting
  <2>5. Earned < PerToken + Pause BY <2>2, <2>3, <2>4, Sizes
  <2>6. ASSUME Burst > 1 PROVE Refilled = Earned
    <3>1. \A b, p \in Nat : b > 1 => p + p <= b * p OBVIOUS
    <3>2. PerToken + PerToken <= Full BY <2>6, <3>1, Sizes DEF Full
    <3>3. Pause <= PerToken BY BucketAssumption
    <3>4. Earned <= Full BY <2>2, <2>5, <3>2, <3>3, Sizes
    <3> QED BY <2>2, <3>4, Sizes DEF Refilled, Least
  <2> QED BY <2>5, <2>6
<1> QED BY <1>1, BucketBegins, BucketStep, PTL DEF Spec

-----------------------------------------------------------------------------
(* The trackers *)

Typed ==
  /\ now \in Time /\ TrackerTypeOK
  /\ at \in [Worker -> {"new", "consume", "get", "work", "request", "count",
                        "finish", "unwind", "gone"}]
  /\ pool \in {"up", "cancelled", "stopped"}

(* Trackers are stopped after all workers have left their loop.              *)
Ended == closed # {} => Cancelled /\ Waited

Fresh == \A w \in Worker : at[w] = "new" => w \notin beating /\ info[w].beat = Never

(* What the last heartbeat wrote, and when the next one is due.              *)
Punctual ==
  \A w \in beating \ missed :
    pool = "up" =>
      /\ now <= ring[w]
      /\ info[w].beat # Never =>
           /\ entry[w] \in Info /\ entry[w].beat = info[w].beat
           /\ expiry[w] = info[w].beat + TTL
           /\ ring[w] = info[w].beat + Interval

TrackerInv == Typed /\ Ended /\ Fresh /\ StoppedIsFinal /\ Punctual

LEMMA Times == /\ \A t \in Time : t \in Nat /\ t + TTL \in Nat /\ t + Interval \in Nat
               /\ TTL \in Nat /\ Interval \in Nat /\ Interval < TTL
               /\ 0 \in Time /\ MaxCount \in Nat /\ MaxFaults \in Nat
<1>1. TTL \in Nat \ {0, 1} /\ MaxCount \in Nat /\ MaxFaults \in Nat BY TrackerAssumption
<1>2. Interval \in Nat /\ Interval < TTL BY <1>1 DEF Interval
<1> QED BY <1>1, <1>2, ClockAssumption DEF Time

LEMMA TrackerBegins == Init => TrackerInv
<1> SUFFICES ASSUME Init PROVE TrackerInv OBVIOUS
<1>1. Typed BY Times DEF Init, TrackerInit, Typed, TrackerTypeOK, Info
<1>2. Ended BY DEF Init, TrackerInit, Ended
<1>3. Fresh BY DEF Init, TrackerInit, Fresh
<1>4. StoppedIsFinal BY DEF Init, TrackerInit, StoppedIsFinal
<1>5. Punctual BY DEF Init, TrackerInit, Punctual
<1> QED BY <1>1, <1>2, <1>3, <1>4, <1>5 DEF TrackerInv

(* What changing one field of a tracker leaves alone.                        *)
LEMMA StatusOnly ==
  ASSUME Typed, NEW w \in Worker, NEW s \in {"idle", "running", "stopped"},
         info' = [info EXCEPT ![w].status = s]
  PROVE  /\ info' \in [Worker -> Info]
         /\ info'[w].status = s
         /\ \A v \in Worker : /\ info'[v].beat = info[v].beat
                              /\ info'[v].count = info[v].count
                              /\ v # w => info'[v] = info[v]
BY DEF Typed, TrackerTypeOK, Info

LEMMA BeatOnly ==
  ASSUME Typed, NEW w \in Worker, info' = [info EXCEPT ![w].beat = now]
  PROVE  /\ info' \in [Worker -> Info]
         /\ info'[w].beat = now
         /\ \A v \in Worker : /\ info'[v].count = info[v].count
                              /\ v # w => info'[v] = info[v]
BY DEF Typed, TrackerTypeOK, Info

LEMMA CountOnly ==
  ASSUME Typed, NEW w \in Worker, Inc(w)
  PROVE  /\ info' \in [Worker -> Info]
         /\ \A v \in Worker : info'[v].beat = info[v].beat
<1>1. info[w].count + 1 \in 0 .. MaxCount
  BY Times DEF Typed, TrackerTypeOK, Info, Inc
<1> QED BY <1>1 DEF Typed, TrackerTypeOK, Info, Inc

(* A step of a worker that neither begins nor concerns Redis.                *)
Quietly ==
  /\ UNCHANGED <<now, beating, ring, closed, entry, expiry, missed, pool>>
  /\ faults' \in 0 .. MaxFaults
  /\ info' \in [Worker -> Info]
  /\ \A v \in Worker : info'[v].beat = info[v].beat
  /\ closed # {} => \A v \in Worker : info'[v].count = info[v].count
  /\ at' \in [Worker -> {"new", "consume", "get", "work", "request", "count",
                         "finish", "unwind", "gone"}]
  /\ \A v \in Worker : /\ at[v] \in {"unwind", "gone"} => at'[v] \in {"unwind", "gone"}
                       /\ at'[v] = "new" => at[v] = "new"

LEMMA QuietlyKeeps == TrackerInv /\ Quietly => TrackerInv'
<1> SUFFICES ASSUME TrackerInv, Quietly PROVE TrackerInv' OBVIOUS
<1>0. Typed /\ Ended /\ Fresh /\ StoppedIsFinal /\ Punctual BY DEF TrackerInv
<1>1. Typed' BY <1>0 DEF Typed, TrackerTypeOK, Quietly
<1>2. Ended' BY <1>0 DEF Ended, Cancelled, Waited, Quietly
<1>3. Fresh' BY <1>0 DEF Fresh, Quietly
<1>4. StoppedIsFinal'
  BY <1>0 DEF StoppedIsFinal, Quietly, Typed, TrackerTypeOK
<1>5. Punctual'
  BY <1>0 DEF Punctual, Quietly, Typed, TrackerTypeOK
<1> QED BY <1>1, <1>2, <1>3, <1>4, <1>5 DEF TrackerInv

LEMMA FaultTyped == Typed /\ Fault => faults' \in 0 .. MaxFaults
BY Times DEF Typed, TrackerTypeOK, Fault

LEMMA LoopIsQuiet ==
  ASSUME TrackerInv, NEW w \in Worker,
         \/ Consumes(w) \/ Receives(w) \/ Sends(w) \/ FailsEarly(w) \/ TriesAgain(w)
         \/ Returns(w) \/ Counts(w) \/ Finishes(w) \/ Leaves(w) \/ Unwinds(w)
  PROVE  Quietly
<1>0. Typed /\ Ended BY DEF TrackerInv
<1>1. /\ faults \in 0 .. MaxFaults /\ info \in [Worker -> Info]
      /\ at \in [Worker -> {"new", "consume", "get", "work", "request", "count",
                            "finish", "unwind", "gone"}]
  BY <1>0 DEF Typed, TrackerTypeOK
<1>2. ASSUME info' = info
      PROVE  /\ info' \in [Worker -> Info]
             /\ \A v \in Worker : info'[v].beat = info[v].beat /\ info'[v].count = info[v].count
  BY <1>1, <1>2
<1>3. CASE Consumes(w) \/ Leaves(w)
  <2>1. faults' \in 0 .. MaxFaults
    BY <1>0, <1>1, <1>3, FaultTyped DEF Consumes, Leaves
  <2>2. /\ UNCHANGED <<now, info, beating, ring, closed, entry, expiry, missed, pool>>
        /\ at[w] \in {"consume", "get"} /\ (Goto(w, "get") \/ Goto(w, "unwind"))
    BY <1>3 DEF Consumes, Leaves, tracker, redis
  <2> QED BY <1>1, <1>2, <2>1, <2>2 DEF Quietly, Goto
<1>4. CASE Sends(w) \/ FailsEarly(w) \/ Returns(w)
  <2>1. /\ UNCHANGED <<now, info, beating, ring, closed, entry, expiry, missed, pool, faults>>
        /\ at[w] \in {"work", "request"}
        /\ Goto(w, "request") \/ Goto(w, "count") \/ Goto(w, "finish")
    BY <1>4 DEF Sends, FailsEarly, Returns, tracker, redis
  <2> QED BY <1>1, <1>2, <2>1 DEF Quietly, Goto
<1>5. CASE TriesAgain(w)
  <2>1. UNCHANGED <<now, info, beating, ring, closed, entry, expiry, missed, pool, faults, at>>
    BY <1>5 DEF TriesAgain, runtime, tracker, redis
  <2> QED BY <1>1, <1>2, <2>1 DEF Quietly
<1>6. CASE Receives(w) \/ Finishes(w) \/ Unwinds(w)
  <2>1. /\ UNCHANGED <<now, beating, ring, closed, entry, expiry, missed, pool, faults>>
        /\ \/ Goto(w, "work") /\ at[w] = "get"
           \/ Goto(w, "get") /\ at[w] = "finish"
           \/ Goto(w, "gone") /\ at[w] = "unwind"
        /\ SetStatus(w, "running") \/ SetStatus(w, "idle")
    BY <1>6 DEF Receives, Finishes, Unwinds, redis
  <2>2. /\ info' \in [Worker -> Info]
        /\ \A v \in Worker : info'[v].beat = info[v].beat /\ info'[v].count = info[v].count
    BY <1>0, <2>1, StatusOnly DEF SetStatus
  <2> QED BY <1>1, <2>1, <2>2 DEF Quietly, Goto
<1>7. CASE Counts(w)
  <2>1. /\ UNCHANGED <<now, beating, ring, closed, entry, expiry, missed, pool, faults>>
        /\ Goto(w, "finish") /\ at[w] = "count" /\ Inc(w)
    BY <1>7 DEF Counts, redis
  <2>2. closed = {} BY <1>0, <2>1 DEF Ended, Waited
  <2>3. info' \in [Worker -> Info] /\ \A v \in Worker : info'[v].beat = info[v].beat
    BY <1>0, <2>1, CountOnly
  <2> QED BY <1>1, <2>1, <2>2, <2>3 DEF Quietly, Goto
<1> QED BY <1>3, <1>4, <1>5, <1>6, <1>7

LEMMA BeginsKeeps ==
  ASSUME TrackerInv, NEW w \in Worker, Begins(w)
  PROVE  TrackerInv'
<1>0. Typed /\ Ended /\ Fresh /\ StoppedIsFinal /\ Punctual BY DEF TrackerInv
<1>1. /\ at[w] = "new" /\ at' = [at EXCEPT ![w] = "consume"]
      /\ info' = [info EXCEPT ![w].status = "running"]
      /\ beating' = beating \cup {w} /\ ring' = [ring EXCEPT ![w] = now + Interval]
      /\ UNCHANGED <<now, closed, entry, expiry, missed, faults, pool>>
  BY DEF Begins, Goto, Start, redis
<1>2. /\ info' \in [Worker -> Info]
      /\ \A v \in Worker : /\ info'[v].beat = info[v].beat
                           /\ v # w => info'[v] = info[v]
  BY <1>0, <1>1, StatusOnly
<1>3. now + Interval \in Nat /\ now \in Nat /\ now <= now + Interval
  <2>1. now \in Time BY <1>0 DEF Typed
  <2> QED BY <2>1, Times
<1>4. Typed' BY <1>0, <1>1, <1>2, <1>3 DEF Typed, TrackerTypeOK
<1>5. closed = {} BY <1>0, <1>1 DEF Ended, Waited
<1>6. Ended' /\ StoppedIsFinal' BY <1>1, <1>5 DEF Ended, StoppedIsFinal
<1>7. Fresh' BY <1>0, <1>1, <1>2 DEF Fresh, Typed
<1>8. Punctual'
  <2> SUFFICES ASSUME NEW v \in beating' \ missed, pool = "up"
               PROVE  /\ now <= ring'[v]
                      /\ info'[v].beat # Never =>
                           /\ entry[v] \in Info /\ entry[v].beat = info'[v].beat
                           /\ expiry[v] = info'[v].beat + TTL
                           /\ ring'[v] = info'[v].beat + Interval
    BY <1>1 DEF Punctual
  <2>1. v \in Worker BY <1>0, <1>1 DEF Typed, TrackerTypeOK
  <2>2. CASE v = w
    <3>1. info'[v].beat = Never BY <1>0, <1>1, <1>2, <2>1, <2>2 DEF Fresh
    <3>2. ring'[v] = now + Interval BY <1>0, <1>1, <2>1, <2>2 DEF Typed, TrackerTypeOK
    <3> QED BY <1>3, <3>1, <3>2
  <2>3. CASE v # w
    <3>1. v \in beating \ missed /\ ring'[v] = ring[v] /\ info'[v] = info[v]
      BY <1>0, <1>1, <1>2, <2>1, <2>3 DEF Typed, TrackerTypeOK
    <3> QED BY <1>0, <3>1 DEF Punctual
  <2> QED BY <2>2, <2>3
<1> QED BY <1>4, <1>6, <1>7, <1>8 DEF TrackerInv

LEMMA HeartbeatKeeps ==
  ASSUME TrackerInv, NEW w \in Worker, Heartbeat(w, Cancelled),
         UNCHANGED <<at, pool, now>>
  PROVE  TrackerInv'
<1>0. Typed /\ Ended /\ Fresh /\ StoppedIsFinal /\ Punctual BY DEF TrackerInv
<1>1. /\ w \in beating
      /\ info' = [info EXCEPT ![w].beat = now]
      /\ ring' = [ring EXCEPT ![w] = now + Interval]
      /\ Save(w, info'[w], Cancelled)
      /\ UNCHANGED <<beating, closed>>
  BY DEF Heartbeat, BeatCancelled
<1>2. /\ info' \in [Worker -> Info] /\ info'[w].beat = now
      /\ \A v \in Worker : /\ info'[v].count = info[v].count
                           /\ v # w => info'[v] = info[v]
  BY <1>0, <1>1, BeatOnly
<1>3. now \in Time /\ now \in Nat /\ now + Interval \in Nat /\ now + TTL \in Nat
      /\ now <= now + Interval /\ Never # now
  <2>1. now \in Time BY <1>0 DEF Typed
  <2>2. now \in Nat BY <2>1, Times
  <2>3. Never # now BY <2>2, TrackerAssumption
  <2> QED BY <2>1, <2>2, <2>3, Times
<1>4. /\ entry' \in [Worker -> Info \cup {Never}] /\ expiry' \in [Worker -> Nat]
      /\ faults' \in 0 .. MaxFaults /\ missed' \in SUBSET Worker
  <2>1. /\ entry \in [Worker -> Info \cup {Never}] /\ expiry \in [Worker -> Nat]
        /\ faults \in 0 .. MaxFaults /\ missed \in SUBSET Worker
    BY <1>0 DEF Typed, TrackerTypeOK
  <2>2. Fault => faults' \in 0 .. MaxFaults BY <1>0, FaultTyped
  <2> QED BY <1>1, <1>2, <1>3, <2>1, <2>2 DEF Save, redis
<1>5. ring' \in [Worker -> Nat] BY <1>0, <1>1, <1>3 DEF Typed, TrackerTypeOK
<1>6. Typed' BY <1>0, <1>1, <1>2, <1>4, <1>5 DEF Typed, TrackerTypeOK
<1>7. Ended' BY <1>0, <1>1 DEF Ended, Waited, Cancelled
<1>8. Fresh' BY <1>0, <1>1, <1>2 DEF Fresh
<1>9. StoppedIsFinal'
  <2>1. CASE closed = {} BY <1>1, <2>1 DEF StoppedIsFinal
  <2>2. CASE closed # {}
    <3>1. Cancelled BY <1>0, <2>2 DEF Ended
    <3>2. UNCHANGED <<entry, missed>> BY <1>1, <3>1 DEF Save, redis
    <3>3. closed \subseteq Worker BY <1>0 DEF Typed, TrackerTypeOK
    <3> QED BY <1>0, <1>1, <1>2, <3>2, <3>3 DEF StoppedIsFinal
  <2> QED BY <2>1, <2>2
<1>10. Punctual'
  <2> SUFFICES ASSUME NEW v \in beating \ missed', pool = "up"
               PROVE  /\ now <= ring'[v]
                      /\ info'[v].beat # Never =>
                           /\ entry'[v] \in Info /\ entry'[v].beat = info'[v].beat
                           /\ expiry'[v] = info'[v].beat + TTL
                           /\ ring'[v] = info'[v].beat + Interval
    BY <1>1 DEF Punctual
  <2>1. v \in Worker BY <1>0 DEF Typed, TrackerTypeOK
  <2>2. ~ Cancelled BY DEF Cancelled
  <2>3. CASE v = w
    <3>1. /\ entry' = [entry EXCEPT ![w] = info'[w]]
          /\ expiry' = [expiry EXCEPT ![w] = now + TTL]
      BY <1>1, <2>2, <2>3 DEF Save
    <3>2. entry'[w] = info'[w] /\ expiry'[w] = now + TTL /\ ring'[w] = now + Interval
      BY <1>0, <1>1, <3>1 DEF Typed, TrackerTypeOK
    <3>3. info'[w] \in Info BY <1>2
    <3> QED BY <1>2, <1>3, <2>3, <3>2, <3>3
  <2>4. CASE v # w
    <3>1. v \in beating \ missed BY <1>1, <2>4 DEF Save, redis
    <3>2. ring'[v] = ring[v] /\ info'[v] = info[v]
      BY <1>0, <1>1, <1>2, <2>1, <2>4 DEF Typed, TrackerTypeOK
    <3>3. entry'[v] = entry[v] /\ expiry'[v] = expiry[v]
      BY <1>0, <1>1, <2>1, <2>4 DEF Typed, TrackerTypeOK, Save, redis
    <3> QED BY <1>0, <3>1, <3>2, <3>3 DEF Punctual
  <2> QED BY <2>3, <2>4
<1> QED BY <1>6, <1>7, <1>8, <1>9, <1>10 DEF TrackerInv

LEMMA LoopEndKeeps ==
  ASSUME TrackerInv, NEW w \in Worker, LoopEnds(w), UNCHANGED <<at, pool, now>>
  PROVE  TrackerInv'
<1>0. Typed /\ Ended /\ Fresh /\ StoppedIsFinal /\ Punctual BY DEF TrackerInv
<1>1. /\ w \in closed /\ beating' = beating \ {w} /\ ring' = [ring EXCEPT ![w] = 0]
      /\ UNCHANGED <<info, closed, entry, expiry, missed, faults>>
  BY DEF LoopEnds, redis
<1>2. Typed' BY <1>0, <1>1 DEF Typed, TrackerTypeOK
<1>3. Cancelled BY <1>0, <1>1 DEF Ended
<1>4. Ended' BY <1>0, <1>1 DEF Ended, Waited, Cancelled
<1>5. Fresh' BY <1>0, <1>1 DEF Fresh
<1>6. StoppedIsFinal' BY <1>0, <1>1 DEF StoppedIsFinal
<1>7. Punctual' BY <1>3 DEF Punctual, Cancelled
<1> QED BY <1>2, <1>4, <1>5, <1>6, <1>7 DEF TrackerInv

LEMMA StopTrackerKeeps ==
  ASSUME TrackerInv, NEW w \in Worker, StopsTracker(w)
  PROVE  TrackerInv'
<1>0. Typed /\ Ended /\ Fresh /\ StoppedIsFinal BY DEF TrackerInv
<1>1. /\ pool = "cancelled" /\ Waited
      /\ closed' = closed \cup {w}
      /\ info' = [info EXCEPT ![w].status = "stopped"]
      /\ Save(w, info'[w], FALSE)
      /\ UNCHANGED <<now, at, pool, beating, ring>>
  BY DEF StopsTracker, StopTracker
<1>2. /\ info' \in [Worker -> Info] /\ info'[w].status = "stopped"
      /\ \A v \in Worker : /\ info'[v].beat = info[v].beat
                           /\ info'[v].count = info[v].count
  BY <1>0, <1>1, StatusOnly
<1>3. now \in Time /\ now + TTL \in Nat
  <2>1. now \in Time BY <1>0 DEF Typed
  <2> QED BY <2>1, Times
<1>4. /\ entry \in [Worker -> Info \cup {Never}] /\ expiry \in [Worker -> Nat]
      /\ faults \in 0 .. MaxFaults /\ missed \in SUBSET Worker /\ closed \in SUBSET Worker
  BY <1>0 DEF Typed, TrackerTypeOK
<1>5. /\ entry' \in [Worker -> Info \cup {Never}] /\ expiry' \in [Worker -> Nat]
      /\ faults' \in 0 .. MaxFaults /\ missed' \in SUBSET Worker
  <2>1. Fault => faults' \in 0 .. MaxFaults BY <1>0, FaultTyped
  <2> QED BY <1>1, <1>2, <1>3, <1>4, <2>1 DEF Save, redis
<1>6. Typed' BY <1>0, <1>1, <1>2, <1>5 DEF Typed, TrackerTypeOK
<1>7. Ended' BY <1>1 DEF Ended, Waited, Cancelled
<1>8. Fresh' BY <1>0, <1>1, <1>2 DEF Fresh
<1>9. StoppedIsFinal'
  <2> SUFFICES ASSUME NEW v \in closed' \ missed'
               PROVE  entry'[v].status = "stopped" /\ entry'[v].count = info'[v].count
    BY DEF StoppedIsFinal
  <2>1. v \in Worker BY <1>1, <1>4
  <2>2. CASE v = w
    <3>1. entry' = [entry EXCEPT ![w] = info'[w]] BY <1>1, <2>2 DEF Save
    <3>2. entry'[w] = info'[w] BY <1>4, <3>1
    <3> QED BY <1>2, <2>2, <3>2
  <2>3. CASE v # w
    <3>1. v \in closed \ missed /\ entry'[v] = entry[v]
      BY <1>1, <1>4, <2>1, <2>3 DEF Save, redis
    <3> QED BY <1>0, <1>2, <2>1, <3>1 DEF StoppedIsFinal
  <2> QED BY <2>2, <2>3
<1>10. Punctual' BY <1>1 DEF Punctual
<1> QED BY <1>6, <1>7, <1>8, <1>9, <1>10 DEF TrackerInv

LEMMA PoolKeeps ==
  ASSUME TrackerInv, Cancels \/ Stops
  PROVE  TrackerInv'
<1>0. Typed /\ Ended /\ Fresh /\ StoppedIsFinal BY DEF TrackerInv
<1>1. /\ pool' \in {"cancelled", "stopped"}
      /\ Stops => Waited
      /\ Cancels => ~ Cancelled
      /\ UNCHANGED <<now, info, beating, ring, closed, entry, expiry, missed, faults, at>>
  BY DEF Cancels, Stops, tracker, redis, Cancelled
<1>2. Typed' BY <1>0, <1>1 DEF Typed, TrackerTypeOK
<1>3. Ended' BY <1>0, <1>1 DEF Ended, Waited, Cancelled
<1>4. Fresh' /\ StoppedIsFinal' BY <1>0, <1>1 DEF Fresh, StoppedIsFinal
<1>5. Punctual' BY <1>1 DEF Punctual
<1> QED BY <1>2, <1>3, <1>4, <1>5 DEF TrackerInv

LEMMA TrackerTick ==
  ASSUME TrackerInv, Tick
  PROVE  TrackerInv'
<1>0. Typed /\ Ended /\ Fresh /\ StoppedIsFinal /\ Punctual BY DEF TrackerInv
<1>1. /\ now < MaxTime /\ now' = now + 1 /\ \A w \in beating : now < ring[w]
      /\ UNCHANGED <<info, beating, ring, closed, entry, expiry, missed, faults, at, pool>>
  BY DEF Tick, runtime, tracker, redis, BeatsAreServed
<1>2. now \in Nat /\ now' \in Time
  <2>1. now \in Time BY <1>0 DEF Typed
  <2> QED BY <1>1, <2>1, ClockAssumption DEF Time
<1>3. Typed' BY <1>0, <1>1, <1>2 DEF Typed, TrackerTypeOK
<1>4. Ended' BY <1>0, <1>1 DEF Ended, Waited, Cancelled
<1>5. Fresh' /\ StoppedIsFinal' BY <1>0, <1>1 DEF Fresh, StoppedIsFinal
<1>6. \A w \in beating : now' <= ring[w]
  <2>1. \A w \in beating : ring[w] \in Nat BY <1>0 DEF Typed, TrackerTypeOK
  <2> QED BY <1>1, <1>2, <2>1
<1>7. Punctual' BY <1>0, <1>1, <1>6 DEF Punctual
<1> QED BY <1>3, <1>4, <1>5, <1>7 DEF TrackerInv

LEMMA TrackerStep == TrackerInv /\ [Next]_vars => TrackerInv'
<1> SUFFICES ASSUME TrackerInv, [Next]_vars PROVE TrackerInv' OBVIOUS
<1>1. ASSUME UNCHANGED <<now, runtime>> PROVE TrackerInv'
  <2>1. Typed BY DEF TrackerInv
  <2>2. Quietly BY <1>1, <2>1 DEF Quietly, runtime, tracker, redis, Typed, TrackerTypeOK
  <2> QED BY <2>2, QuietlyKeeps
<1>2. CASE UNCHANGED vars BY <1>1, <1>2 DEF vars, runtime
<1>3. ASSUME NEW w \in Worker, WorkerStep(w) \/ Receives(w) \/ Leaves(w)
      PROVE  TrackerInv'
  BY <1>3, BeginsKeeps, LoopIsQuiet, QuietlyKeeps DEF WorkerStep
<1>4. ASSUME NEW w \in Worker, Beats(w) PROVE TrackerInv'
  BY <1>4, HeartbeatKeeps, LoopEndKeeps DEF Beats
<1>5. ASSUME NEW c \in Client \ Worker, OtherRequest(c) PROVE TrackerInv'
  BY <1>1, <1>5 DEF OtherRequest
<1>6. CASE Next
  BY <1>3, <1>4, <1>5, <1>6, StopTrackerKeeps, PoolKeeps, TrackerTick DEF Next
<1> QED BY <1>2, <1>6

(* The variables have their types.                                           *)
THEOREM TypeCorrect == Spec => []TypeOK
<1>1. BucketInv /\ TrackerInv => TypeOK
  BY DEF BucketInv, BucketTyped, TrackerInv, Typed, TypeOK
<1> QED BY <1>1, BucketBegins, BucketStep, TrackerBegins, TrackerStep, PTL DEF Spec

(* Whatever heartbeats ring and deferred calls run after it, Stop's write is *)
(* the last that Redis sees, and it counts every message.                    *)
THEOREM LastWord == Spec => []StoppedIsFinal
<1>1. TrackerInv => StoppedIsFinal BY DEF TrackerInv
<1> QED BY <1>1, TrackerBegins, TrackerStep, PTL DEF Spec

(* Between two heartbeats the key does not expire.                           *)
THEOREM NeverForgotten == Spec => []HeartbeatsHold
<1>1. TrackerInv => HeartbeatsHold
  <2> SUFFICES ASSUME TrackerInv, NEW w \in beating \ missed,
                      pool = "up", info[w].beat # Never
               PROVE  Alive(w)
    BY DEF HeartbeatsHold
  <2>1. Typed /\ Punctual BY DEF TrackerInv
  <2>2. w \in Worker /\ info[w] \in Info BY <2>1 DEF Typed, TrackerTypeOK
  <2>3. info[w].beat \in Nat
    <3>1. info[w].beat \in Time BY <2>2 DEF Info
    <3> QED BY <3>1, Times
  <2>4. now \in Nat
    <3>1. now \in Time BY <2>1 DEF Typed
    <3> QED BY <3>1, Times
  <2>5. /\ now <= ring[w] /\ entry[w] \in Info /\ entry[w].beat = info[w].beat
        /\ expiry[w] = info[w].beat + TTL /\ ring[w] = info[w].beat + Interval
    BY <2>1 DEF Punctual
  <2>6. entry[w] # Never BY <2>5, NeverAssumption
  <2>7. now < info[w].beat + TTL BY <2>3, <2>4, <2>5, Times
  <2>8. entry[w].beat # Never /\ now < entry[w].beat + TTL BY <2>3, <2>5, <2>7
  <2> QED BY <2>5, <2>6, <2>7, <2>8 DEF Alive, Listed
<1> QED BY <1>1, TrackerBegins, TrackerStep, PTL DEF Spec
=============================================================================
