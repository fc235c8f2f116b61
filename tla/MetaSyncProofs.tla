--------------------------- MODULE MetaSyncProofs ---------------------------
(***************************************************************************)
(* Proofs about modules PhoneSync and MetaSync, for any numbers, lines and *)
(* synchronisations, any horizon and look-back and any failures.           *)
(***************************************************************************)
EXTENDS MetaSync, WellFoundedInduction, TLAPS

-----------------------------------------------------------------------------
(* Days and maxima *)

(* The ends of days are ordered as the days are, and a day begins where the  *)
(* one before it ends.                                                       *)
LEMMA DayOrder ==
  ASSUME NEW d \in Day, NEW e \in Day
  PROVE  /\ Begin(d) \in Nat /\ End(d) \in Nat
         /\ End(d) > 0 /\ Begin(d) < End(d)
         /\ d < e => End(d) <= Begin(e) /\ End(d) < End(e)
<1>1. d \in Nat /\ e \in Nat /\ PerDay \in Nat /\ PerDay > 0
  BY TimeAssumption DEF Day
<1>2. ASSUME NEW a \in Nat, NEW b \in Nat, a <= b PROVE a * PerDay <= b * PerDay
  <2>1. PICK k \in Nat : b = a + k BY <1>2
  <2>2. b * PerDay = a * PerDay + k * PerDay /\ k * PerDay \in Nat
        /\ a * PerDay \in Nat
    BY <2>1, <1>1
  <2> QED BY <2>2
<1>3. ASSUME NEW a \in Nat
      PROVE  a * PerDay \in Nat /\ (a + 1) * PerDay = a * PerDay + PerDay
  BY <1>1
<1>4. Begin(d) \in Nat /\ End(d) = Begin(d) + PerDay BY <1>1, <1>3 DEF Begin, End
<1>5. Begin(e) \in Nat /\ End(e) = Begin(e) + PerDay BY <1>1, <1>3 DEF Begin, End
<1>6. d < e => End(d) <= Begin(e)
  <2>1. d < e => d + 1 <= e /\ d + 1 \in Nat BY <1>1
  <2> QED BY <2>1, <1>1, <1>2 DEF Begin, End
<1> QED BY <1>1, <1>4, <1>5, <1>6

(* A nonempty set of naturals below a bound has a maximum, and Max is it.    *)
LEMMA MaxOfBounded ==
  ASSUME NEW S, S \subseteq Nat, S # {}, NEW k \in Nat, \A x \in S : x <= k
  PROVE  Max(S) \in S /\ \A x \in S : x <= Max(S)
<1> DEFINE T == {k - x : x \in S}
<1>1. T \subseteq Nat /\ T # {}
  <2>1. \A x \in S : x \in Nat /\ x <= k OBVIOUS
  <2>2. \A x \in S : k - x \in Nat BY <2>1
  <2> QED BY <2>2
<1> HIDE DEF T
<1>2. PICK y \in T : \A z \in T : ~ (<<z, y>> \in OpToRel(<, Nat))
  <2>1. IsWellFoundedOn(OpToRel(<, Nat), Nat) BY NatLessThanWellFounded
  <2> QED BY <2>1, <1>1, WFMin
<1>3. \A z \in T : ~ (z < y)
  BY <1>1, <1>2 DEF OpToRel
<1>4. PICK x \in S : y = k - x BY DEF T
<1>5. \A z \in S : k - z \in T BY DEF T
<1>6. \A z \in S : x >= z
  <2> SUFFICES ASSUME NEW z \in S PROVE x >= z OBVIOUS
  <2>1. k - z \in T /\ ~ (k - z < k - x) BY <1>3, <1>4, <1>5
  <2>2. z \in Nat /\ x \in Nat OBVIOUS
  <2> QED BY <2>1, <2>2
<1>7. Max(S) \in S /\ \A z \in S : Max(S) >= z BY <1>6 DEF Max
<1>8. \A z \in S : z \in Nat OBVIOUS
<1> QED BY <1>7, <1>8
-----------------------------------------------------------------------------
(* Type correctness *)

(* A synchroniser between Upsert and UpdateProfile has a number in hand.     *)
InHand == \A p \in Syncer :
            at[p] \in {"upsert", "fetch", "profile"} => cur[p] \in Number

TypeInv == TypeOK /\ InHand

Ends == {0} \cup {End(d) : d \in Day}

LEMMA EndsAreNat == Ends \subseteq Nat /\ LastDay \in Day /\ \A x \in Ends : x <= End(LastDay)
<1>1. LastDay \in Day /\ LastDay \in Nat BY TimeAssumption DEF Day
<1>2. ASSUME NEW d \in Day PROVE End(d) \in Nat /\ End(d) <= End(LastDay)
  <2>1. d \in Nat /\ (d < LastDay \/ d = LastDay) BY TimeAssumption DEF Day
  <2> QED BY <2>1, <1>1, DayOrder
<1>3. End(LastDay) \in Nat BY <1>1, <1>2
<1> QED BY <1>1, <1>2, <1>3 DEF Ends

LEMMA WatermarkIsAnEnd == TypeOK => Watermark \in Ends
<1> SUFFICES ASSUME TypeOK PROVE Watermark \in Ends OBVIOUS
<1> DEFINE S == {0} \cup {mark[n] : n \in known}
<1>1. S \subseteq Ends BY DEF TypeOK, PhoneTypeOK, Ends
<1>2. S # {} /\ S \subseteq Nat /\ \A x \in S : x <= End(LastDay)
  BY <1>1, EndsAreNat
<1>3. End(LastDay) \in Nat BY EndsAreNat, DayOrder
<1> HIDE DEF S
<1>4. Max(S) \in S BY <1>2, <1>3, MaxOfBounded
<1>5. Watermark = Max(S) BY DEF Watermark, S
<1> QED BY <1>1, <1>4, <1>5

(* The watermark is a row's, or nought.                                      *)
LEMMA WatermarkIsAMark ==
  TypeOK => Watermark = 0 \/ \E n \in Number : Watermark = mark[n]
<1> SUFFICES ASSUME TypeOK PROVE Watermark = 0 \/ \E n \in Number : Watermark = mark[n]
  OBVIOUS
<1> DEFINE S == {0} \cup {mark[n] : n \in known}
<1>1. S \subseteq Ends BY DEF TypeOK, PhoneTypeOK, Ends
<1>2. S # {} /\ S \subseteq Nat /\ \A x \in S : x <= End(LastDay)
  BY <1>1, EndsAreNat
<1>3. End(LastDay) \in Nat BY EndsAreNat, DayOrder
<1>5. \A x \in S : x = 0 \/ \E n \in Number : x = mark[n]
  BY DEF TypeOK, PhoneTypeOK
<1> HIDE DEF S
<1>4. Max(S) \in S BY <1>2, <1>3, MaxOfBounded
<1>6. Watermark = Max(S) BY DEF Watermark, S
<1> QED BY <1>4, <1>5, <1>6

(* What LatestEnd returns: the end of one of the points, and none is later.  *)
LEMMA LatestEndIsMax ==
  ASSUME NEW P \in SUBSET Point
  PROVE  /\ LatestEnd(P) \in Ends
         /\ LatestEnd(P) # 0 => \E q \in P : LatestEnd(P) = End(q.day)
<1> DEFINE S == {0} \cup {End(q.day) : q \in P}
<1>0. \A q \in P : q.day \in Day BY DEF Point
<1>1. S \subseteq Ends BY <1>0 DEF Ends
<1>2. S # {} /\ S \subseteq Nat /\ \A x \in S : x <= End(LastDay)
  BY <1>1, EndsAreNat
<1>3. End(LastDay) \in Nat BY EndsAreNat, DayOrder
<1> HIDE DEF S
<1>4. Max(S) \in S BY <1>2, <1>3, MaxOfBounded
<1>5. LatestEnd(P) = Max(S) BY DEF LatestEnd, S
<1>6. Max(S) # 0 => \E q \in P : Max(S) = End(q.day) BY <1>4 DEF S
<1> QED BY <1>1, <1>4, <1>5, <1>6

(* So does NewMark, if it returns anything.                                  *)
LEMMA NewMarkIsAnEnd ==
  ASSUME NEW P \in SUBSET Point, NEW b \in BOOLEAN
  PROVE  /\ NewMark(P, b) \in Ends
         /\ NewMark(P, b) # 0 => \E q \in P : NewMark(P, b) = End(q.day)
BY LatestEndIsMax DEF NewMark, Ends

LEMMA TypeInit == Init => TypeInv
<1> SUFFICES ASSUME Init PROVE TypeInv OBVIOUS
<1>1. PhoneTypeOK
  BY NoneAssumption, PhoneBoundAssumption DEF Init, PhoneInit, PhoneTypeOK
<1>2. now \in Begin(1) .. End(LastDay) - 1
  <2>1. 1 \in Day /\ LastDay \in Day BY TimeAssumption DEF Day
  <2>2. 1 = LastDay \/ 1 < LastDay BY TimeAssumption
  <2>3. /\ Begin(1) \in Nat /\ End(LastDay) \in Nat
        /\ Begin(1) < End(LastDay)
    BY <2>1, <2>2, DayOrder
  <2> QED BY <2>3 DEF Init
<1>3. /\ mark \in [Number -> {0} \cup {End(d) : d \in Day}]
      /\ at \in [Syncer -> {"idle", "list", "number", "upsert", "fetch", "profile",
                            "mark", "ask", "store"}]
  BY DEF Init, PhoneInit
<1>4. /\ usage \in [Line -> [Day -> 0 .. MaxVolume]]
      /\ stored \in [Line -> [Day -> 0 .. MaxVolume]]
      /\ cuts \in 0 .. MaxCuts
  BY TimeAssumption DEF Init
<1>5. /\ since \in [Syncer -> {0} \cup {End(d) : d \in Day}]
      /\ batch \in [Syncer -> SUBSET Point]
      /\ top \in [Syncer -> {0} \cup {End(d) : d \in Day}]
      /\ gap \in SUBSET (Line \X Day)
      /\ partial \in SUBSET Day /\ skipped \in SUBSET Day
  BY DEF Init
<1>6. InHand BY DEF Init, PhoneInit, InHand
<1> QED BY <1>1, <1>2, <1>3, <1>4, <1>5, <1>6 DEF TypeInv, TypeOK

Steps == {"idle", "list", "number", "upsert", "fetch", "profile",
          "mark", "ask", "store"}

(* A step of the phone numbers leaves the types of the prices alone.         *)
LEMMA PricesKeepTypes ==
  ASSUME TypeInv, UNCHANGED <<pricing, mark>>, PhoneTypeOK', InHand',
         at' \in [Syncer -> Steps]
  PROVE  TypeInv'
BY DEF TypeInv, TypeOK, pricing, prices, priceMemory, history, Steps

LEMMA PhoneStepTypes ==
  ASSUME TypeInv, UNCHANGED pricing, NEW p \in Syncer,
         PhoneStep(p) \/ \E next \in {"mark", "idle"} : PhonesDone(p, next)
  PROVE  TypeInv'
<1>0. PhoneTypeOK /\ at \in [Syncer -> Steps] /\ InHand
  BY DEF TypeInv, TypeOK, Steps
<1>f. Fault => faults' \in 0 .. MaxFaults
  BY <1>0, PhoneBoundAssumption DEF Fault, PhoneTypeOK
<1>g. Forget(p) => /\ cur' \in [Syncer -> Number \cup {None}]
                   /\ found' \in [Syncer -> Company \cup {None}]
                   /\ fresh' \in [Syncer -> BOOLEAN]
                   /\ fetched' \in [Syncer -> 0 .. MaxProfile]
                   /\ \A q \in Syncer \ {p} : cur'[q] = cur[q]
  BY <1>0, PhoneBoundAssumption DEF Forget, PhoneTypeOK
<1>1. CASE ListNumbers(p)
  <2>1. PhoneTypeOK' BY <1>0, <1>1 DEF PhoneTypeOK, ListNumbers, columns, meta
  <2>2. InHand' /\ at' \in [Syncer -> Steps]
    BY <1>0, <1>1 DEF InHand, ListNumbers, Goto, Steps
  <2> QED BY <2>1, <2>2, <1>1, PricesKeepTypes DEF ListNumbers
<1>2. ASSUME NEW n \in Number, FindCompany(p, n) PROVE TypeInv'
  <2>1. PhoneTypeOK' BY <1>0, <1>2, <1>f DEF PhoneTypeOK, FindCompany, columns, meta
  <2>2. InHand' /\ at' \in [Syncer -> Steps]
    BY <1>0, <1>2 DEF InHand, FindCompany, Goto, Steps, PhoneTypeOK
  <2> QED BY <2>1, <2>2, <1>2, PricesKeepTypes DEF FindCompany
<1>3. CASE Upsert(p)
  <2>0. cur[p] \in Number BY <1>0, <1>3 DEF InHand, Upsert
  <2>1. PhoneTypeOK'
    BY <1>0, <1>3, <2>0 DEF PhoneTypeOK, Upsert, CompanyAfter, meta
  <2>2. InHand' /\ at' \in [Syncer -> Steps]
    BY <1>0, <1>3, <2>0 DEF InHand, Upsert, Goto, Steps
  <2> QED BY <2>1, <2>2, <1>3, PricesKeepTypes DEF Upsert
<1>4. CASE UpsertFails(p) \/ FetchFails(p) \/ StoreProfileFails(p)
  <2>1. PhoneTypeOK'
    BY <1>0, <1>4, <1>f, <1>g
       DEF PhoneTypeOK, UpsertFails, FetchFails, StoreProfileFails, columns, meta
  <2>2. InHand' /\ at' \in [Syncer -> Steps]
    BY <1>0, <1>4, <1>g
       DEF InHand, UpsertFails, FetchFails, StoreProfileFails, Goto, Steps
  <2> QED BY <2>1, <2>2, <1>4, PricesKeepTypes
          DEF UpsertFails, FetchFails, StoreProfileFails
<1>5. CASE FetchProfile(p)
  <2>0. cur[p] \in Number BY <1>0, <1>5 DEF InHand, FetchProfile
  <2>1. PhoneTypeOK'
    BY <1>0, <1>5, <2>0, PhoneBoundAssumption
       DEF PhoneTypeOK, FetchProfile, columns, meta
  <2>2. InHand' /\ at' \in [Syncer -> Steps]
    BY <1>0, <1>5, <2>0 DEF InHand, FetchProfile, Goto, Steps
  <2> QED BY <2>1, <2>2, <1>5, PricesKeepTypes DEF FetchProfile
<1>6. CASE StoreProfile(p)
  <2>1. PhoneTypeOK'
    BY <1>0, <1>6, <1>g DEF PhoneTypeOK, StoreProfile, meta
  <2>2. InHand' /\ at' \in [Syncer -> Steps]
    BY <1>0, <1>6, <1>g DEF InHand, StoreProfile, Goto, Steps
  <2> QED BY <2>1, <2>2, <1>6, PricesKeepTypes DEF StoreProfile
<1>7. ASSUME NEW next \in {"mark", "idle"}, PhonesDone(p, next) PROVE TypeInv'
  <2>1. PhoneTypeOK'
    BY <1>0, <1>7, <1>f DEF PhoneTypeOK, PhonesDone, columns, meta, phoneMemory
  <2>2. InHand' /\ at' \in [Syncer -> Steps]
    BY <1>0, <1>7 DEF InHand, PhonesDone, Goto, Steps, phoneMemory
  <2> QED BY <2>1, <2>2, <1>7, PricesKeepTypes DEF PhonesDone
<1> QED BY <1>1, <1>2, <1>3, <1>4, <1>5, <1>6, <1>7 DEF PhoneStep

LEMMA PhoneRequestTypes ==
  ASSUME TypeInv, UNCHANGED pricing, PhoneRequest
  PROVE  TypeInv'
<1>0. PhoneTypeOK /\ at \in [Syncer -> Steps] /\ InHand
  BY DEF TypeInv, TypeOK, Steps
<1>1. ASSUME NEW n \in Number, NEW c \in Company, AssignCompany(n, c) \/ Hear(n, c)
      PROVE  PhoneTypeOK' /\ UNCHANGED <<mark, at, cur>>
  BY <1>0, <1>1 DEF PhoneTypeOK, AssignCompany, Hear, columns, meta, phoneMemory
<1>2. ASSUME NEW n \in Number, NEW b \in BOOLEAN, UpdateIsActive(n, b)
      PROVE  PhoneTypeOK' /\ UNCHANGED <<mark, at, cur>>
  BY <1>0, <1>2 DEF PhoneTypeOK, UpdateIsActive, meta, phoneMemory
<1>3. ASSUME NEW n \in Number, Register(n) \/ Deregister(n)
      PROVE  PhoneTypeOK' /\ UNCHANGED <<mark, at, cur>>
  BY <1>0, <1>3 DEF PhoneTypeOK, Register, Deregister, columns, phoneMemory
<1>4. ASSUME NEW n \in Number, UpdateProfile(n)
      PROVE  PhoneTypeOK' /\ UNCHANGED <<mark, at, cur>>
  BY <1>0, <1>4, PhoneBoundAssumption
     DEF PhoneTypeOK, UpdateProfile, columns, phoneMemory
<1>5. PhoneTypeOK' /\ UNCHANGED <<mark, at, cur>>
  BY <1>1, <1>2, <1>3, <1>4 DEF PhoneRequest
<1>6. InHand' /\ at' \in [Syncer -> Steps] BY <1>0, <1>5 DEF InHand
<1> QED BY <1>5, <1>6, PricesKeepTypes

LEMMA PricingStepTypes ==
  ASSUME TypeInv, NEW p \in Syncer, PricingStep(p)
  PROVE  TypeInv'
<1>0. TypeOK /\ PhoneTypeOK /\ at \in [Syncer -> Steps] /\ InHand
  BY DEF TypeInv, TypeOK, Steps
<1>f. Fault => faults' \in 0 .. MaxFaults
  BY <1>0, PhoneBoundAssumption DEF Fault, PhoneTypeOK
<1>p. ASSUME UNCHANGED phones, faults' \in 0 .. MaxFaults PROVE PhoneTypeOK'
  BY <1>0, <1>p DEF PhoneTypeOK, phones, columns, meta, phoneMemory
<1>n. faults \in 0 .. MaxFaults BY <1>0 DEF PhoneTypeOK
<1>i. ASSUME UNCHANGED phones, at' \in [Syncer -> Steps],
             NEW step \in {"idle", "ask", "store"}, Goto(p, step) \/ UNCHANGED at
      PROVE  InHand'
  BY <1>0, <1>i DEF InHand, Goto, phones, phoneMemory
<1>1. CASE ReadWatermark(p)
  <2>1. since' \in [Syncer -> Ends] BY <1>0, <1>1, WatermarkIsAnEnd
          DEF ReadWatermark, TypeOK, Ends
  <2>2. at' \in [Syncer -> Steps] BY <1>0, <1>1 DEF ReadWatermark, Goto, Steps
  <2>3. PhoneTypeOK' /\ InHand' BY <1>1, <1>p, <1>n, <1>i, <2>2 DEF ReadWatermark
  <2> QED BY <1>0, <1>1, <2>1, <2>2, <2>3
          DEF TypeInv, TypeOK, ReadWatermark, Ends, Steps, prices, history
<1>2. CASE Skip(p) \/ AskFails(p)
  <2>1. at' \in [Syncer -> Steps] BY <1>0, <1>2 DEF Skip, AskFails, Goto, Steps
  <2>2. PhoneTypeOK' /\ InHand'
    BY <1>2, <1>p, <1>n, <1>f, <1>i, <2>1 DEF Skip, AskFails
  <2> QED BY <1>0, <1>2, <2>1, <2>2
          DEF TypeInv, TypeOK, Skip, AskFails, Steps, prices, history
<1>3. CASE Ask(p)
  <2>0. PICK running \in BOOLEAN, firstEmpty \in BOOLEAN :
          LET points == Reported(Start(since[p]), running) IN
          /\ batch' = [batch EXCEPT ![p] = points]
          /\ top' = [top EXCEPT ![p] = NewMark(points, firstEmpty)]
          /\ Goto(p, IF points = {} THEN "idle" ELSE "store")
          /\ partial' = partial \cup {q.day : q \in {r \in points : now < End(r.day)}}
    BY <1>3 DEF Ask
  <2> DEFINE points == Reported(Start(since[p]), running)
  <2>1. points \in SUBSET Point BY DEF Reported
  <2> HIDE DEF points
  <2>2. NewMark(points, firstEmpty) \in Ends BY <2>1, NewMarkIsAnEnd
  <2>3. batch' \in [Syncer -> SUBSET Point] /\ top' \in [Syncer -> Ends]
    BY <1>0, <2>0, <2>1, <2>2 DEF TypeOK, Ends, points
  <2>4. partial' \in SUBSET Day
    <3>1. \A q \in points : q.day \in Day BY <2>1 DEF Point
    <3> QED BY <1>0, <2>0, <3>1 DEF TypeOK, points
  <2>8. skipped' \in SUBSET Day BY <1>0, <1>3 DEF Ask, TypeOK
  <2>5. at' \in [Syncer -> Steps] /\ \E step \in {"idle", "ask", "store"} : Goto(p, step)
    BY <1>0, <2>0 DEF Goto, Steps
  <2>6. PhoneTypeOK' /\ InHand' BY <1>3, <1>p, <1>n, <1>i, <2>5 DEF Ask
  <2>7. since' \in [Syncer -> Ends] BY <1>0, <1>3 DEF Ask, TypeOK, Ends
  <2> QED BY <1>0, <1>3, <2>3, <2>4, <2>5, <2>6, <2>7, <2>8
          DEF TypeInv, TypeOK, Ask, Ends, Steps, prices
<1>4. ASSUME NEW q \in batch[p], UpsertPricing(p, q) PROVE TypeInv'
  <2>1. q \in Point BY <1>0, <1>4 DEF TypeOK
  <2>2. stored' \in [Line -> [Day -> 0 .. MaxVolume]]
    BY <1>0, <1>4, <2>1 DEF TypeOK, UpsertPricing, Point, RowDay
  <2>3. PhoneTypeOK' /\ InHand' /\ at' \in [Syncer -> Steps]
    BY <1>0, <1>4, <1>p, <1>n, <1>i DEF UpsertPricing
  <2> QED BY <1>0, <1>4, <2>2, <2>3 DEF TypeInv, TypeOK, UpsertPricing, Steps, history
<1>5. ASSUME NEW q \in batch[p], UpsertPricingFails(p, q) PROVE TypeInv'
  <2>1. q \in Point BY <1>0, <1>5 DEF TypeOK
  <2>2. gap' \in SUBSET (Line \X Day)
    BY <1>0, <1>5, <2>1 DEF TypeOK, UpsertPricingFails, Point
  <2>3. PhoneTypeOK' /\ InHand' /\ at' \in [Syncer -> Steps]
    BY <1>0, <1>5, <1>p, <1>f, <1>i DEF UpsertPricingFails
  <2> QED BY <1>0, <1>5, <2>2, <2>3
          DEF TypeInv, TypeOK, UpsertPricingFails, Steps, prices
<1>6. CASE \/ UpdateLastSyncPricing(p) \/ UpdateLastSyncPricingFails(p)
           \/ KeepLastSyncPricing(p)
  <2>0. Goto(p, "idle") /\ UNCHANGED phones
    BY <1>6 DEF UpdateLastSyncPricing, UpdateLastSyncPricingFails,
           KeepLastSyncPricing, FinishPricing
  <2>1. at' \in [Syncer -> Steps] BY <1>0, <2>0 DEF Goto, Steps
  <2>2. faults' \in 0 .. MaxFaults
    BY <1>6, <1>n, <1>f DEF UpdateLastSyncPricing, UpdateLastSyncPricingFails,
           KeepLastSyncPricing
  <2>3. PhoneTypeOK' /\ InHand' BY <1>p, <1>i, <2>0, <2>1, <2>2
  <2>4. mark' \in [Number -> {0} \cup {End(d) : d \in Day}]
    BY <1>0, <1>6 DEF TypeOK, UpdateLastSyncPricing, UpdateLastSyncPricingFails,
           KeepLastSyncPricing
  <2>5. /\ top' \in [Syncer -> {0} \cup {End(d) : d \in Day}]
        /\ batch' \in [Syncer -> SUBSET Point]
    BY <1>0, <1>6 DEF TypeOK, UpdateLastSyncPricing, UpdateLastSyncPricingFails,
                      KeepLastSyncPricing, FinishPricing
  <2> QED BY <1>0, <1>6, <2>1, <2>3, <2>4, <2>5
          DEF TypeInv, TypeOK, UpdateLastSyncPricing, UpdateLastSyncPricingFails,
              KeepLastSyncPricing, Steps, prices, history
<1> QED BY <1>1, <1>2, <1>3, <1>4, <1>5, <1>6 DEF PricingStep

LEMMA TypeStep == TypeInv /\ [Next]_vars => TypeInv'
<1> SUFFICES ASSUME TypeInv, [Next]_vars PROVE TypeInv' OBVIOUS
<1>0. TypeOK /\ PhoneTypeOK /\ at \in [Syncer -> Steps] /\ InHand
  BY DEF TypeInv, TypeOK, Steps
<1>1. ASSUME NEW p \in Syncer, SyncStep(p) PROVE TypeInv'
  <2>1. CASE PhoneStep(p) /\ UNCHANGED pricing BY <2>1, PhoneStepTypes
  <2>2. CASE PhonesEnd(p)
    BY <2>2, PhoneStepTypes DEF PhonesEnd
  <2>3. CASE PricingStep(p) BY <2>3, PricingStepTypes
  <2> QED BY <1>1, <2>1, <2>2, <2>3 DEF SyncStep
<1>2. ASSUME NEW S \in SUBSET Syncer, Cut(S) PROVE TypeInv'
  <2>1. PhoneTypeOK'
    BY <1>0, <1>2, PhoneBoundAssumption DEF PhoneTypeOK, Cut, columns, meta
  <2>2. at' \in [Syncer -> Steps] /\ InHand'
    BY <1>0, <1>2 DEF InHand, Cut, Steps
  <2>3. /\ since' \in [Syncer -> {0} \cup {End(d) : d \in Day}]
        /\ batch' \in [Syncer -> SUBSET Point]
        /\ top' \in [Syncer -> {0} \cup {End(d) : d \in Day}]
        /\ cuts' \in 0 .. MaxCuts
    BY <1>0, <1>2, TimeAssumption DEF TypeOK, Cut
  <2> QED BY <1>0, <1>2, <2>1, <2>2, <2>3 DEF TypeInv, TypeOK, Cut, Steps, prices, history
<1>3. ASSUME NEW p \in Syncer, NEW step \in {"list", "mark"},
             Goto(p, step), UNCHANGED <<phones, mark, faults, pricing>>
      PROVE  TypeInv'
  <2>1. PhoneTypeOK' BY <1>0, <1>3 DEF PhoneTypeOK, phones, columns, meta, phoneMemory
  <2>2. InHand' /\ at' \in [Syncer -> Steps]
    BY <1>0, <1>3 DEF InHand, Goto, Steps, phones, phoneMemory
  <2> QED BY <1>3, <2>1, <2>2, PricesKeepTypes
<1>4. CASE TimePasses
  <2>1. PhoneTypeOK' /\ InHand'
    BY <1>0, <1>4 DEF PhoneTypeOK, InHand, TimePasses, phones, columns, meta, phoneMemory
  <2>2. now' \in Begin(1) .. End(LastDay) - 1
    <3>1. Begin(1) \in Nat /\ End(LastDay) \in Nat
      BY TimeAssumption, DayOrder DEF Day
    <3> QED BY <1>0, <1>4, <3>1 DEF TypeOK, TimePasses
  <2> QED BY <1>0, <1>4, <2>1, <2>2
          DEF TypeInv, TypeOK, TimePasses, prices, priceMemory, history
<1>5. ASSUME NEW l \in Line, Use(l) PROVE TypeInv'
  <2>1. PhoneTypeOK' /\ InHand'
    BY <1>0, <1>5 DEF PhoneTypeOK, InHand, Use, phones, columns, meta, phoneMemory
  <2>2. usage' \in [Line -> [Day -> 0 .. MaxVolume]]
    BY <1>0, <1>5, TimeAssumption DEF TypeOK, Use
  <2> QED BY <1>0, <1>5, <2>1, <2>2 DEF TypeInv, TypeOK, Use, priceMemory, history
<1>6. CASE UNCHANGED vars
  BY <1>6, <1>0 DEF TypeInv, TypeOK, PhoneTypeOK, InHand, vars, phones, columns, meta,
                    phoneMemory, pricing, prices, priceMemory, history
<1>7. CASE Tick BY <1>7, <1>3, TickerAssumption DEF Tick
<1>8. ASSUME NEW p \in Syncer, NEW step \in {"list", "mark"}, Request(p, step)
      PROVE  TypeInv'
  BY <1>8, <1>3 DEF Request
<1>9. ASSUME NEW p \in Syncer, Abandon(p) PROVE TypeInv' BY <1>9, <1>2 DEF Abandon
<1>10. CASE Crash BY <1>10, <1>2 DEF Crash
<1>11. CASE PhoneRequest /\ UNCHANGED pricing BY <1>11, PhoneRequestTypes
<1> QED BY <1>1, <1>4, <1>5, <1>6, <1>7, <1>8, <1>9, <1>10, <1>11 DEF Next

(* The variables keep their types, whatever overlaps or fails.               *)
THEOREM TypeCorrect == Spec => []TypeOK
<1>1. Spec => []TypeInv BY TypeInit, TypeStep, PTL DEF Spec
<1>2. TypeInv => TypeOK BY DEF TypeInv
<1> QED BY <1>1, <1>2, PTL

-----------------------------------------------------------------------------
(* Nothing is lost behind the watermark *)

(* What is settled so far, seen from a watermark: the column's, the one that *)
(* a synchronisation has read, and the one that it is going to write.  No    *)
(* figure exceeds Meta's, and those under way are final or known as partial. *)
SettledBehind ==
  /\ \A n \in Number, l \in Line, d \in Day : End(d) <= mark[n] => Settled(l, d)
  /\ \A p \in Syncer, l \in Line, d \in Day : End(d) <= since[p] => Settled(l, d)
  /\ \A p \in Syncer, l \in Line, d \in Day :
       End(d) <= top[p] => \/ Settled(l, d)
                          \/ \E q \in batch[p] : q.line = l /\ q.day = d

FiguresTrue ==
  /\ \A l \in Line, d \in Day : stored[l][d] <= usage[l][d]
  /\ \A p \in Syncer : \A q \in batch[p] :
       /\ q.figure <= usage[q.line][q.day]
       /\ \/ q.day \in partial
          \/ End(q.day) <= now /\ q.figure = usage[q.line][q.day]

PriceInv == TypeInv /\ SettledBehind /\ FiguresTrue

LEMMA PriceInit == Init => PriceInv
<1> SUFFICES ASSUME Init PROVE PriceInv OBVIOUS
<1>1. TypeInv BY TypeInit
<1>2. \A d \in Day : End(d) \in Nat /\ End(d) > 0 BY DayOrder
<1>3. SettledBehind BY <1>2 DEF Init, PhoneInit, SettledBehind
<1>4. FiguresTrue BY DEF Init, FiguresTrue
<1> QED BY <1>1, <1>3, <1>4 DEF PriceInv

(* A step that leaves figures, watermarks and histories alone.               *)
LEMMA PriceUnchanged ==
  ASSUME PriceInv, TypeInv',
         UNCHANGED <<mark, now, prices, priceMemory, history>>
  PROVE  PriceInv'
BY DEF PriceInv, SettledBehind, FiguresTrue, Settled, prices, priceMemory, history

(* What is settled stays so when time passes or lines are used; a use does   *)
(* not touch a day that is over.                                             *)
LEMMA PriceTime ==
  ASSUME PriceInv, TypeInv', TimePasses \/ \E l \in Line : Use(l)
  PROVE  PriceInv'
<1>0. TypeOK /\ TypeOK' BY DEF PriceInv, TypeInv
<1>a. \A d \in Day : End(d) \in Nat BY DayOrder
<1>b. now \in Int /\ now' \in Int BY <1>0 DEF TypeOK
<1>1. CASE TimePasses
  <2>1. now' = now + 1 /\ UNCHANGED <<mark, stored, usage, since, top, batch, gap, partial, skipped>>
    BY <1>1 DEF TimePasses, prices, priceMemory, history
  <2>2. \A d \in Day : End(d) <= now => End(d) <= now' BY <1>a, <1>b, <2>1
  <2>3. \A l \in Line, d \in Day : Settled(l, d) => Settled(l, d)'
    BY <2>1, <2>2 DEF Settled
  <2>4. SettledBehind' BY <2>1, <2>3 DEF PriceInv, SettledBehind
  <2>5. FiguresTrue'
    <3>1. \A p \in Syncer : \A q \in batch[p] : q.day \in Day
      BY <1>0 DEF TypeOK, Point
    <3> QED BY <2>1, <2>2, <3>1 DEF PriceInv, FiguresTrue
  <2> QED BY <2>4, <2>5 DEF PriceInv
<1>2. ASSUME NEW m \in Line, Use(m) PROVE PriceInv'
  <2>1. UNCHANGED <<mark, now, stored, since, top, batch, gap, partial, skipped>>
    BY <1>2 DEF Use, priceMemory, history
  <2>2. PICK e \in Day : /\ now < End(e)
                         /\ usage' = [usage EXCEPT ![m][e] = @ + 1]
    BY <1>2 DEF Use, Within
  <2>3. \A l \in Line, d \in Day :
          /\ usage[l][d] \in Nat /\ usage'[l][d] \in Nat
          /\ usage[l][d] <= usage'[l][d]
          /\ d # e => usage'[l][d] = usage[l][d]
    <3>1. \A l \in Line, d \in Day : usage[l][d] \in Nat
      BY <1>0, TimeAssumption DEF TypeOK
    <3>2. \A l \in Line, d \in Day :
            usage'[l][d] = IF l = m /\ d = e THEN usage[l][d] + 1 ELSE usage[l][d]
      BY <1>0, <2>2 DEF TypeOK
    <3> QED BY <3>1, <3>2
  <2>4. \A l \in Line, d \in Day : End(d) <= now => usage'[l][d] = usage[l][d]
    BY <2>2, <2>3, <1>a, <1>b
  <2>5. \A l \in Line, d \in Day : Settled(l, d) => Settled(l, d)'
    BY <2>1, <2>4 DEF Settled
  <2>6. SettledBehind' BY <2>1, <2>5 DEF PriceInv, SettledBehind
  <2>7. FiguresTrue'
    <3>1. \A p \in Syncer : \A q \in batch[p] :
            q.day \in Day /\ q.line \in Line /\ q.figure \in Nat
      BY <1>0, TimeAssumption DEF TypeOK, Point
    <3>2. \A l \in Line, d \in Day : stored[l][d] \in Nat
      BY <1>0, TimeAssumption DEF TypeOK
    <3>3. \A l \in Line, d \in Day : stored'[l][d] <= usage'[l][d]
      BY <2>1, <2>3, <3>2 DEF PriceInv, FiguresTrue
    <3>4. \A p \in Syncer : \A q \in batch[p] :
            /\ q.figure <= usage'[q.line][q.day]
            /\ \/ q.day \in partial
               \/ End(q.day) <= now /\ q.figure = usage'[q.line][q.day]
      BY <2>3, <2>4, <3>1 DEF PriceInv, FiguresTrue
    <3> QED BY <2>1, <3>3, <3>4 DEF FiguresTrue
  <2> QED BY <2>6, <2>7 DEF PriceInv
<1> QED BY <1>1, <1>2

(* The answer to a request that started from a settled watermark.            *)
LEMMA PriceAsk ==
  ASSUME PriceInv, TypeInv', NEW p \in Syncer, Ask(p)
  PROVE  PriceInv'
<1>0. TypeOK BY DEF PriceInv, TypeInv
<1>a. \A d \in Day : End(d) \in Nat BY DayOrder
<1>b. now \in Int BY <1>0 DEF TypeOK
<1>1. PICK running \in BOOLEAN, firstEmpty \in BOOLEAN :
        /\ batch' = [batch EXCEPT ![p] = Reported(Start(since[p]), running)]
        /\ top' = [top EXCEPT ![p] = NewMark(Reported(Start(since[p]), running), firstEmpty)]
        /\ partial' = partial \cup
             {q.day : q \in {r \in Reported(Start(since[p]), running) : now < End(r.day)}}
  BY DEF Ask
<1> DEFINE P == Reported(Start(since[p]), running)
           Top == NewMark(P, firstEmpty)
<1>2. P \in SUBSET Point BY DEF Reported
<1>3. \A q \in P : /\ q.figure = usage[q.line][q.day]
                   /\ q.line \in Line /\ q.day \in Day
                   /\ q.day \in partial' \/ End(q.day) <= now
  <2>1. \A q \in P : /\ q.figure = usage[q.line][q.day]
                     /\ q.line \in Line /\ q.day \in Day
    BY DEF Reported, Point
  <2>2. \A q \in P : now < End(q.day) => q.day \in partial' BY <1>1
  <2> QED BY <2>1, <2>2, <1>a, <1>b
<1>4. \A q \in P : End(q.day) <= now \/ Begin(q.day) <= now
  BY DEF Reported, Within
<1>5. \A l \in Line, d \in Day :
        (Start(since[p]) < End(d) /\ End(d) <= now /\ usage[l][d] > 0)
          => \E q \in P : q.line = l /\ q.day = d
  <2> SUFFICES ASSUME NEW l \in Line, NEW d \in Day, Start(since[p]) < End(d),
                      End(d) <= now, usage[l][d] > 0
               PROVE  \E q \in P : q.line = l /\ q.day = d
    OBVIOUS
  <2> DEFINE q == [line |-> l, day |-> d, figure |-> usage[l][d]]
  <2>1. q \in Point BY <1>0 DEF Point, TypeOK
  <2>2. q \in P BY <2>1 DEF Reported
  <2> QED BY <2>2
<1>6. Top # 0 => \E q \in P : Top = End(q.day) BY <1>2, NewMarkIsAnEnd
<1>7. Top \in Nat BY <1>2, NewMarkIsAnEnd, EndsAreNat
<1> HIDE DEF P, Top
<1>u. /\ UNCHANGED <<mark, now, usage, stored, gap>>
      /\ since' = [since EXCEPT ![p] = 0]
      /\ batch' = [batch EXCEPT ![p] = P]
      /\ top' = [top EXCEPT ![p] = Top]
      /\ partial \subseteq partial' /\ skipped \subseteq skipped'
      /\ \A d \in Day : since[p] = 0 /\ End(d) <= Start(0) => d \in skipped'
  BY <1>1 DEF Ask, prices, P, Top
<1>8. \A l \in Line, d \in Day : Settled(l, d) => Settled(l, d)'
  BY <1>u DEF Settled
<1>9. ASSUME NEW l \in Line, NEW d \in Day, End(d) <= Top
      PROVE  Settled(l, d)' \/ \E q \in P : q.line = l /\ q.day = d
  <2>1. PICK q \in P : Top = End(q.day)
    <3>1. End(d) > 0 BY DayOrder
    <3> QED BY <1>6, <1>7, <1>9, <1>a, <3>1
  <2>2. q.day \in Day BY <1>3
  <2>3. d = q.day \/ d < q.day
    <3>1. ASSUME q.day < d PROVE FALSE
      <4>1. End(q.day) < End(d) BY <2>2, <3>1, DayOrder
      <4> QED BY <4>1, <2>1, <1>9, <1>a, <2>2
    <3>2. d \in Int /\ q.day \in Int BY <2>2 DEF Day
    <3> QED BY <3>1, <3>2
  <2>4. d \in partial' \/ End(d) <= now
    <3>1. CASE d = q.day BY <3>1, <1>3
    <3>2. CASE d < q.day
      <4>1. End(d) <= Begin(q.day) /\ Begin(q.day) < End(q.day)
            /\ Begin(q.day) \in Nat /\ End(q.day) \in Nat /\ End(d) \in Nat
        BY <2>2, <3>2, DayOrder
      <4> QED BY <4>1, <1>4, <1>b
    <3> QED BY <2>3, <3>1, <3>2
  <2>5. Start(since[p]) \in Int
    <3>1. since[p] \in Nat BY <1>0, EndsAreNat DEF TypeOK, Ends
    <3>2. LookBack * PerDay \in Int BY TimeAssumption
    <3> QED BY <3>1, <3>2, <1>b DEF Start
  <2>6. CASE End(d) <= Start(since[p])
    <3>1. CASE since[p] = 0
      <4>1. d \in skipped' BY <2>6, <3>1, <1>u
      <4> QED BY <4>1 DEF Settled
    <3>2. CASE since[p] # 0
      <4>1. End(d) <= since[p] BY <2>6, <3>2 DEF Start
      <4> QED BY <4>1, <1>8 DEF PriceInv, SettledBehind
    <3> QED BY <3>1, <3>2
  <2>7. CASE Start(since[p]) < End(d) /\ End(d) <= now /\ usage[l][d] > 0
    BY <2>7, <1>5
  <2>8. CASE End(d) <= now /\ usage[l][d] = 0
    <3>1. stored[l][d] <= usage[l][d] /\ stored[l][d] \in Nat
      BY <1>0, TimeAssumption DEF PriceInv, FiguresTrue, TypeOK
    <3>2. stored[l][d] = usage[l][d] BY <3>1, <2>8
    <3> QED BY <2>8, <3>2, <1>u DEF Settled
  <2>9. CASE d \in partial' BY <2>9 DEF Settled
  <2>10. usage[l][d] \in Nat BY <1>0, TimeAssumption DEF TypeOK
  <2> QED BY <2>4, <2>5, <2>6, <2>7, <2>8, <2>9, <2>10, <1>a
<1>10. SettledBehind'
  <2>1. \A n \in Number, l \in Line, d \in Day :
          End(d) <= mark'[n] => Settled(l, d)'
    BY <1>u, <1>8 DEF PriceInv, SettledBehind
  <2>2. \A r \in Syncer, l \in Line, d \in Day :
          End(d) <= since'[r] => Settled(l, d)'
    <3>1. \A d \in Day : End(d) \in Nat /\ ~ (End(d) <= 0) BY DayOrder
    <3>2. \A r \in Syncer : since'[r] = 0 \/ since'[r] = since[r]
      BY <1>u, <1>0 DEF TypeOK
    <3> QED BY <3>1, <3>2, <1>8 DEF PriceInv, SettledBehind
  <2>3. ASSUME NEW r \in Syncer, NEW l \in Line, NEW d \in Day, End(d) <= top'[r]
        PROVE  Settled(l, d)' \/ \E q \in batch'[r] : q.line = l /\ q.day = d
    <3>1. CASE r = p
      <4>1. top'[r] = Top /\ batch'[r] = P BY <3>1, <1>u, <1>0 DEF TypeOK
      <4> QED BY <4>1, <2>3, <1>9
    <3>2. CASE r # p
      <4>1. top'[r] = top[r] /\ batch'[r] = batch[r] BY <3>2, <1>u, <1>0 DEF TypeOK
      <4> QED BY <4>1, <2>3, <1>8 DEF PriceInv, SettledBehind
    <3> QED BY <3>1, <3>2
  <2> QED BY <2>1, <2>2, <2>3 DEF SettledBehind
<1>11. FiguresTrue'
  <2>1. ASSUME NEW r \in Syncer, NEW q \in batch'[r]
        PROVE  /\ q.figure <= usage[q.line][q.day]
               /\ \/ q.day \in partial'
                  \/ End(q.day) <= now /\ q.figure = usage[q.line][q.day]
    <3>1. CASE r = p
      <4>1. q \in P BY <3>1, <2>1, <1>u, <1>0 DEF TypeOK
      <4>2. q.figure = usage[q.line][q.day] /\ usage[q.line][q.day] \in Nat
        BY <4>1, <1>3, <1>0, TimeAssumption DEF TypeOK
      <4> QED BY <4>1, <4>2, <1>3
    <3>2. CASE r # p
      <4>1. q \in batch[r] BY <3>2, <2>1, <1>u, <1>0 DEF TypeOK
      <4> QED BY <4>1, <1>u DEF PriceInv, FiguresTrue
    <3> QED BY <3>1, <3>2
  <2> QED BY <2>1, <1>u DEF PriceInv, FiguresTrue
<1> QED BY <1>10, <1>11 DEF PriceInv

(* A step that leaves figures and histories alone, and after which every     *)
(* synchroniser has the same answer in its hands as before, or nothing.      *)
LEMMA PriceForgets ==
  ASSUME PriceInv, TypeInv', UNCHANGED <<mark, now, prices, history>>,
         \A r \in Syncer : since'[r] = 0 \/ since'[r] = since[r],
         \A r \in Syncer : \/ top'[r] = 0 /\ batch'[r] = {}
                           \/ top'[r] = top[r] /\ batch'[r] = batch[r]
  PROVE  PriceInv'
<1>0. UNCHANGED <<mark, now, usage, stored, gap, partial, skipped>> BY DEF prices, history
<1>a. \A d \in Day : End(d) \in Nat /\ ~ (End(d) <= 0) BY DayOrder
<1>1. \A l \in Line, d \in Day : Settled(l, d)' <=> Settled(l, d)
  BY <1>0 DEF Settled
<1>2. SettledBehind'
  <2>1. \A n \in Number, l \in Line, d \in Day :
          End(d) <= mark'[n] => Settled(l, d)'
    BY <1>0, <1>1 DEF PriceInv, SettledBehind
  <2>2. \A r \in Syncer, l \in Line, d \in Day :
          End(d) <= since'[r] => Settled(l, d)'
    BY <1>a, <1>1 DEF PriceInv, SettledBehind
  <2>3. \A r \in Syncer, l \in Line, d \in Day :
          End(d) <= top'[r] =>
            Settled(l, d)' \/ \E q \in batch'[r] : q.line = l /\ q.day = d
    BY <1>a, <1>1 DEF PriceInv, SettledBehind
  <2> QED BY <2>1, <2>2, <2>3 DEF SettledBehind
<1>3. FiguresTrue'
  <2>1. \A r \in Syncer : batch'[r] \subseteq batch[r] OBVIOUS
  <2> QED BY <1>0, <2>1 DEF PriceInv, FiguresTrue
<1> QED BY <1>2, <1>3 DEF PriceInv

(* The watermark that is read is a row's.                                    *)
LEMMA PriceRead ==
  ASSUME PriceInv, TypeInv', NEW p \in Syncer, ReadWatermark(p)
  PROVE  PriceInv'
<1>0. TypeOK BY DEF PriceInv, TypeInv
<1>u. /\ UNCHANGED <<mark, now, usage, stored, top, batch, gap, partial, skipped>>
      /\ since' = [since EXCEPT ![p] = Watermark]
  BY DEF ReadWatermark, prices, history
<1>1. Watermark = 0 \/ \E n \in Number : Watermark = mark[n]
  BY <1>0, WatermarkIsAMark
<1>2. \A l \in Line, d \in Day : Settled(l, d)' <=> Settled(l, d)
  BY <1>u DEF Settled
<1>3. \A d \in Day : ~ (End(d) <= 0) BY DayOrder
<1>4. \A r \in Syncer : since'[r] = IF r = p THEN Watermark ELSE since[r]
  BY <1>0, <1>u DEF TypeOK
<1>5. \A r \in Syncer, l \in Line, d \in Day :
        End(d) <= since'[r] => Settled(l, d)'
  <2> SUFFICES ASSUME NEW r \in Syncer, NEW l \in Line, NEW d \in Day,
                      End(d) <= since'[r]
               PROVE  Settled(l, d)
    BY <1>2
  <2>1. CASE r # p BY <2>1, <1>4 DEF PriceInv, SettledBehind
  <2>2. CASE r = p
    <3>1. End(d) <= Watermark BY <2>2, <1>4
    <3>2. PICK n \in Number : Watermark = mark[n] BY <3>1, <1>1, <1>3
    <3> QED BY <3>1, <3>2 DEF PriceInv, SettledBehind
  <2> QED BY <2>1, <2>2
<1>6. SettledBehind'
  <2>1. \A n \in Number, l \in Line, d \in Day :
          End(d) <= mark'[n] => Settled(l, d)'
    BY <1>u, <1>2 DEF PriceInv, SettledBehind
  <2>2. \A r \in Syncer, l \in Line, d \in Day :
          End(d) <= top'[r] =>
            Settled(l, d)' \/ \E q \in batch'[r] : q.line = l /\ q.day = d
    BY <1>u, <1>2 DEF PriceInv, SettledBehind
  <2> QED BY <2>1, <2>2, <1>5 DEF SettledBehind
<1>7. FiguresTrue' BY <1>u DEF PriceInv, FiguresTrue
<1> QED BY <1>6, <1>7 DEF PriceInv

(* A point that is stored, or is known to have failed, is settled.           *)
LEMMA PriceUpsert ==
  ASSUME PriceInv, TypeInv', NEW p \in Syncer, NEW q \in batch[p],
         UpsertPricing(p, q) \/ UpsertPricingFails(p, q)
  PROVE  PriceInv'
<1>0. TypeOK BY DEF PriceInv, TypeInv
<1>1. q \in Point /\ q.line \in Line /\ q.day \in Day /\ q.figure \in Nat
  BY <1>0, TimeAssumption DEF TypeOK, Point
<1>u. /\ UNCHANGED <<mark, now, usage, since, top, partial, skipped>>
      /\ batch' = [batch EXCEPT ![p] = @ \ {q}]
      /\ gap \subseteq gap'
      /\ \/ stored' = [stored EXCEPT ![q.line][q.day] = q.figure]
         \/ stored' = stored /\ <<q.line, q.day>> \in gap'
  BY DEF UpsertPricing, UpsertPricingFails, prices, history, RowDay
<1>2. \A l \in Line, d \in Day :
        \/ stored'[l][d] = stored[l][d]
        \/ l = q.line /\ d = q.day /\ stored'[l][d] = q.figure
  BY <1>0, <1>1, <1>u DEF TypeOK
<1>3. Settled(q.line, q.day)'
  <2>1. CASE <<q.line, q.day>> \in gap' BY <2>1 DEF Settled
  <2>2. CASE stored' = [stored EXCEPT ![q.line][q.day] = q.figure]
    <3>1. stored'[q.line][q.day] = q.figure BY <2>2, <1>0, <1>1 DEF TypeOK
    <3>2. \/ q.day \in partial
          \/ End(q.day) <= now /\ q.figure = usage[q.line][q.day]
      BY DEF PriceInv, FiguresTrue
    <3> QED BY <3>1, <3>2, <1>u DEF Settled
  <2> QED BY <2>1, <2>2, <1>u
<1>4. \A l \in Line, d \in Day : Settled(l, d) => Settled(l, d)'
  <2> SUFFICES ASSUME NEW l \in Line, NEW d \in Day, Settled(l, d)
               PROVE  Settled(l, d)'
    OBVIOUS
  <2>1. CASE l = q.line /\ d = q.day BY <2>1, <1>3
  <2>2. CASE ~ (l = q.line /\ d = q.day)
    <3>1. stored'[l][d] = stored[l][d] BY <2>2, <1>2
    <3> QED BY <3>1, <1>u DEF Settled
  <2> QED BY <2>1, <2>2
<1>5. \A r \in Syncer : batch'[r] = IF r = p THEN batch[r] \ {q} ELSE batch[r]
  BY <1>0, <1>u DEF TypeOK
<1>6. SettledBehind'
  <2>1. \A n \in Number, l \in Line, d \in Day :
          End(d) <= mark'[n] => Settled(l, d)'
    BY <1>u, <1>4 DEF PriceInv, SettledBehind
  <2>2. \A r \in Syncer, l \in Line, d \in Day :
          End(d) <= since'[r] => Settled(l, d)'
    BY <1>u, <1>4 DEF PriceInv, SettledBehind
  <2>3. ASSUME NEW r \in Syncer, NEW l \in Line, NEW d \in Day, End(d) <= top'[r]
        PROVE  Settled(l, d)' \/ \E x \in batch'[r] : x.line = l /\ x.day = d
    <3>1. Settled(l, d) \/ \E x \in batch[r] : x.line = l /\ x.day = d
      BY <1>u, <2>3 DEF PriceInv, SettledBehind
    <3>2. CASE Settled(l, d) BY <3>2, <1>4
    <3>3. ASSUME NEW x \in batch[r], x.line = l, x.day = d
          PROVE  Settled(l, d)' \/ \E y \in batch'[r] : y.line = l /\ y.day = d
      <4>1. CASE x = q BY <4>1, <3>3, <1>3
      <4>2. CASE x # q
        <5>1. x \in batch'[r] BY <4>2, <1>5
        <5> QED BY <5>1, <3>3
      <4> QED BY <4>1, <4>2
    <3> QED BY <3>1, <3>2, <3>3
  <2> QED BY <2>1, <2>2, <2>3 DEF SettledBehind
<1>7. FiguresTrue'
  <2>1. q.figure <= usage[q.line][q.day] BY DEF PriceInv, FiguresTrue
  <2>2. \A l \in Line, d \in Day : stored'[l][d] <= usage[l][d]
    BY <1>2, <2>1 DEF PriceInv, FiguresTrue
  <2>3. \A r \in Syncer : batch'[r] \subseteq batch[r] BY <1>5
  <2> QED BY <1>u, <2>2, <2>3 DEF PriceInv, FiguresTrue
<1> QED BY <1>6, <1>7 DEF PriceInv

(* The watermark that is written has nothing unsettled behind it, since all  *)
(* points of the answer it was taken from have been tried.                   *)
LEMMA PriceWrite ==
  ASSUME PriceInv, TypeInv', NEW p \in Syncer, UpdateLastSyncPricing(p)
  PROVE  PriceInv'
<1>0. TypeOK BY DEF PriceInv, TypeInv
<1>u. /\ UNCHANGED <<now, usage, stored, since, gap, partial, skipped>>
      /\ mark' = [n \in Number |-> IF n \in known THEN top[p] ELSE mark[n]]
      /\ top' = [top EXCEPT ![p] = 0]
      /\ batch' = [batch EXCEPT ![p] = {}]
      /\ batch[p] = {}
  BY DEF UpdateLastSyncPricing, FinishPricing, Tried, prices, history
<1>1. \A l \in Line, d \in Day : Settled(l, d)' <=> Settled(l, d)
  BY <1>u DEF Settled
<1>2. \A l \in Line, d \in Day : End(d) <= top[p] => Settled(l, d)
  BY <1>u DEF PriceInv, SettledBehind
<1>3. \A n \in Number : mark'[n] = top[p] \/ mark'[n] = mark[n] BY <1>u
<1>4. \A r \in Syncer : \/ top'[r] = 0 /\ batch'[r] = {}
                        \/ top'[r] = top[r] /\ batch'[r] = batch[r]
  BY <1>0, <1>u DEF TypeOK
<1>a. \A d \in Day : ~ (End(d) <= 0) BY DayOrder
<1>5. SettledBehind'
  <2>1. \A n \in Number, l \in Line, d \in Day :
          End(d) <= mark'[n] => Settled(l, d)'
    BY <1>1, <1>2, <1>3 DEF PriceInv, SettledBehind
  <2>2. \A r \in Syncer, l \in Line, d \in Day :
          End(d) <= since'[r] => Settled(l, d)'
    BY <1>u, <1>1 DEF PriceInv, SettledBehind
  <2>3. \A r \in Syncer, l \in Line, d \in Day :
          End(d) <= top'[r] =>
            Settled(l, d)' \/ \E q \in batch'[r] : q.line = l /\ q.day = d
    BY <1>a, <1>1, <1>4 DEF PriceInv, SettledBehind
  <2> QED BY <2>1, <2>2, <2>3 DEF SettledBehind
<1>6. FiguresTrue'
  <2>1. \A r \in Syncer : batch'[r] \subseteq batch[r] BY <1>4
  <2> QED BY <1>u, <2>1 DEF PriceInv, FiguresTrue
<1> QED BY <1>5, <1>6 DEF PriceInv

LEMMA PriceStep == PriceInv /\ [Next]_vars => PriceInv'
<1> SUFFICES ASSUME PriceInv, [Next]_vars PROVE PriceInv' OBVIOUS
<1>0. TypeInv /\ TypeInv' BY TypeStep DEF PriceInv
<1>1. CASE UNCHANGED vars
  BY <1>1, <1>0, PriceUnchanged DEF vars, pricing
<1>2. CASE UNCHANGED pricing /\ UNCHANGED mark
  BY <1>2, <1>0, PriceUnchanged DEF pricing
<1>3. ASSUME NEW p \in Syncer, PhoneStep(p) \/ \E step \in {"mark", "idle"} : PhonesDone(p, step)
      PROVE  UNCHANGED mark
  BY <1>3 DEF PhoneStep, PhonesDone, ListNumbers, FindCompany, Upsert, UpsertFails,
              FetchProfile, FetchFails, StoreProfile, StoreProfileFails
<1>4. ASSUME NEW p \in Syncer, (PhoneStep(p) /\ UNCHANGED pricing) \/ PhonesEnd(p)
      PROVE  PriceInv'
  <2>1. UNCHANGED pricing /\ UNCHANGED mark BY <1>3, <1>4 DEF PhonesEnd
  <2> QED BY <2>1, <1>2
<1>5. CASE PhoneRequest /\ UNCHANGED pricing
  <2>1. UNCHANGED mark
    BY <1>5 DEF PhoneRequest, AssignCompany, UpdateIsActive, UpdateProfile,
                Register, Deregister, Hear
  <2> QED BY <2>1, <1>5, <1>2
<1>6. ASSUME NEW p \in Syncer, PricingStep(p) PROVE PriceInv'
  <2>0. TypeOK BY <1>0 DEF TypeInv
  <2>1. CASE ReadWatermark(p) BY <2>1, <1>0, PriceRead
  <2>2. CASE Ask(p) BY <2>2, <1>0, PriceAsk
  <2>3. CASE Skip(p) \/ AskFails(p)
    <3>1. /\ UNCHANGED <<mark, now, prices, history>>
          /\ \A r \in Syncer : since'[r] = 0 \/ since'[r] = since[r]
          /\ UNCHANGED <<top, batch>>
      BY <2>0, <2>3 DEF Skip, AskFails, TypeOK
    <3> QED BY <3>1, <1>0, PriceForgets
  <2>4. ASSUME NEW q \in batch[p], UpsertPricing(p, q) \/ UpsertPricingFails(p, q)
        PROVE  PriceInv'
    BY <2>4, <1>0, PriceUpsert
  <2>5. CASE UpdateLastSyncPricing(p) BY <2>5, <1>0, PriceWrite
  <2>6. CASE UpdateLastSyncPricingFails(p) \/ KeepLastSyncPricing(p)
    <3>1. /\ UNCHANGED <<mark, now, prices, since, history>>
          /\ \A r \in Syncer : \/ top'[r] = 0 /\ batch'[r] = {}
                               \/ top'[r] = top[r] /\ batch'[r] = batch[r]
      BY <2>0, <2>6 DEF UpdateLastSyncPricingFails, KeepLastSyncPricing,
                        FinishPricing, TypeOK
    <3> QED BY <3>1, <1>0, PriceForgets
  <2> QED BY <1>6, <2>1, <2>2, <2>3, <2>4, <2>5, <2>6 DEF PricingStep
<1>7. ASSUME NEW S \in SUBSET Syncer, Cut(S) PROVE PriceInv'
  <2>1. /\ UNCHANGED <<mark, now, prices, history>>
        /\ \A r \in Syncer : since'[r] = 0 \/ since'[r] = since[r]
        /\ \A r \in Syncer : \/ top'[r] = 0 /\ batch'[r] = {}
                             \/ top'[r] = top[r] /\ batch'[r] = batch[r]
    BY <1>7 DEF Cut
  <2> QED BY <2>1, <1>0, PriceForgets
<1>8. CASE \E p \in Syncer : Abandon(p)
  <2>1. PICK p \in Syncer : Cut({p}) BY <1>8 DEF Abandon
  <2> QED BY <2>1, <1>7
<1>9. CASE Crash BY <1>9, <1>7 DEF Crash
<1>10. CASE Tick BY <1>10, <1>2 DEF Tick
<1>11. CASE \E p \in Syncer, step \in {"list", "mark"} : Request(p, step)
  BY <1>11, <1>2 DEF Request
<1>12. CASE TimePasses \/ \E l \in Line : Use(l) BY <1>12, <1>0, PriceTime
<1> QED BY <1>1, <1>4, <1>5, <1>6, <1>8, <1>9, <1>10, <1>11, <1>12
        DEF Next, SyncStep

(* However synchronisations overlap, fail, are cut short or write watermarks *)
(* that others have passed: nothing behind the watermark is unaccounted for. *)
THEOREM NothingLost == Spec => []NothingLostBehindMark
<1>1. Spec => []PriceInv BY PriceInit, PriceStep, PTL DEF Spec
<1>2. PriceInv => NothingLostBehindMark
  BY DEF PriceInv, TypeInv, TypeOK, PhoneTypeOK, SettledBehind, NothingLostBehindMark
<1> QED BY <1>1, <1>2, PTL

(* A stored figure shrinks only if its day was fetched before its end.       *)
THEOREM Growth == Spec => FiguresGrow
<1> DEFINE Grows == \A l \in Line, d \in Day :
                      stored'[l][d] < stored[l][d] => d \in partial
<1>1. ASSUME PriceInv, [Next]_vars PROVE [Grows]_stored
  <2> SUFFICES ASSUME stored' # stored PROVE Grows OBVIOUS
  <2>0. TypeOK BY <1>1 DEF PriceInv, TypeInv
  <2>1. PICK p \in Syncer : \E q \in batch[p] : UpsertPricing(p, q)
    BY <1>1 DEF Next, vars, SyncStep, PricingStep, ReadWatermark, Skip, Ask, AskFails,
       UpsertPricingFails, UpdateLastSyncPricing, UpdateLastSyncPricingFails,
       KeepLastSyncPricing, PhonesEnd,
       Abandon, Crash, Cut, Tick, Request, TimePasses, Use, pricing, prices
  <2>q. PICK q \in batch[p] : UpsertPricing(p, q) BY <2>1
  <2>2. q.line \in Line /\ q.day \in Day /\ q.figure \in Nat
    BY <2>0, TimeAssumption DEF TypeOK, Point
  <2>3. \A l \in Line, d \in Day :
          \/ stored'[l][d] = stored[l][d]
          \/ l = q.line /\ d = q.day /\ stored'[l][d] = q.figure
    BY <2>0, <2>q, <2>2 DEF TypeOK, UpsertPricing, RowDay
  <2>4. q.day \in partial \/ q.figure = usage[q.line][q.day]
    BY <1>1 DEF PriceInv, FiguresTrue
  <2>5. \A l \in Line, d \in Day : /\ stored[l][d] \in Nat /\ usage[l][d] \in Nat
                                   /\ stored[l][d] <= usage[l][d]
    BY <1>1, <2>0, TimeAssumption DEF PriceInv, FiguresTrue, TypeOK
  <2> QED BY <2>2, <2>3, <2>4, <2>5
<1>2. Spec => []PriceInv BY PriceInit, PriceStep, PTL DEF Spec
<1> QED BY <1>1, <1>2, PTL DEF Spec, FiguresGrow

-----------------------------------------------------------------------------
(* The columns of phone_numbers *)

(* A company is replaced only by an administrator, or by the one that a      *)
(* synchronisation has found.                                                *)
THEOREM Assignments == Spec => AssignmentKept
<1> DEFINE Kept ==
      \A n \in Number :
        company'[n] # company[n] =>
          \/ \E c \in Company : AssignCompany(n, c)
          \/ \E p \in Syncer : /\ cur[p] = n /\ at[p] = "upsert"
                               /\ company'[n] = found[p] /\ found[p] # None
<1>1. ASSUME TypeInv, [Next]_vars PROVE [Kept]_company
  <2>0. PhoneTypeOK /\ InHand BY <1>1 DEF TypeInv, TypeOK
  <2>1. CASE UNCHANGED company BY <2>1
  <2>2. ASSUME NEW p \in Syncer, Upsert(p) PROVE Kept
    <3>1. company' = [company EXCEPT ![cur[p]] = CompanyAfter(found[p], cur[p])]
          /\ at[p] = "upsert"
      BY <2>2 DEF Upsert
    <3>2. \A n \in Number : company'[n] # company[n] =>
            n = cur[p] /\ company'[n] = CompanyAfter(found[p], cur[p])
      BY <3>1, <2>0 DEF PhoneTypeOK
    <3> QED BY <3>1, <3>2 DEF CompanyAfter
  <2>3. ASSUME NEW m \in Number, NEW c \in Company, AssignCompany(m, c) PROVE Kept
    BY <2>3, <2>0 DEF AssignCompany, PhoneTypeOK
  <2>4. \/ UNCHANGED company
        \/ \E p \in Syncer : Upsert(p)
        \/ \E m \in Number, c \in Company : AssignCompany(m, c)
    <3>1. CASE \E p \in Syncer : PhoneStep(p)
      BY <3>1 DEF PhoneStep, ListNumbers, FindCompany, UpsertFails, FetchProfile,
                  FetchFails, StoreProfile, StoreProfileFails, columns
    <3>2. CASE PhoneRequest
      BY <3>2 DEF PhoneRequest, UpdateIsActive, UpdateProfile, Register, Deregister,
                  Hear, columns
    <3>3. CASE UNCHANGED vars BY <3>3 DEF vars, phones, columns
    <3>4. CASE \E p \in Syncer : PhonesEnd(p) \/ PricingStep(p) \/ Abandon(p)
      BY <3>4 DEF PhonesEnd, PhonesDone, PricingStep, ReadWatermark, Skip, Ask, AskFails,
         UpsertPricing, UpsertPricingFails, UpdateLastSyncPricing,
         UpdateLastSyncPricingFails, KeepLastSyncPricing, Abandon, Cut, phones, columns
    <3>5. CASE Crash BY <3>5 DEF Crash, Cut, columns
    <3>6. CASE \/ Tick \/ TimePasses \/ \E l \in Line : Use(l)
               \/ \E p \in Syncer, step \in {"list", "mark"} : Request(p, step)
      BY <3>6 DEF Tick, TimePasses, Use, Request, phones, columns
    <3> QED BY <1>1, <3>1, <3>2, <3>3, <3>4, <3>5, <3>6 DEF Next, SyncStep
  <2> QED BY <2>1, <2>2, <2>3, <2>4
<1>2. Spec => []TypeInv BY TypeInit, TypeStep, PTL DEF Spec
<1> QED BY <1>1, <1>2, PTL DEF Spec, AssignmentKept

(* The id in a synchroniser's hands is a row's only if its upsert has just   *)
(* inserted the row: the row has no profile yet, and no other synchroniser   *)
(* holds its id.                                                             *)
FreshRows ==
  /\ \A n \in Number : n \notin known => profile[n] = 0
  /\ \A p \in Syncer : fresh[p] => /\ at[p] \in {"fetch", "profile"}
                                   /\ cur[p] \in known /\ profile[cur[p]] = 0
  /\ \A p, q \in Syncer : (fresh[p] /\ fresh[q] /\ cur[p] = cur[q]) => p = q

LEMMA FreshRowsStep ==
  ASSUME TypeInv, FreshRows, [Next]_vars
  PROVE  FreshRows'
<1>0. PhoneTypeOK /\ at \in [Syncer -> Steps] /\ InHand
  BY DEF TypeInv, TypeOK, Steps
<1>k. ASSUME UNCHANGED <<known, profile, cur>>,
             \A q \in Syncer : fresh'[q] => fresh[q],
             \A q \in Syncer : fresh'[q] => at'[q] \in {"fetch", "profile"}
      PROVE  FreshRows'
  BY <1>k DEF FreshRows
<1>f. ASSUME UNCHANGED <<known, profile>>, NEW p \in Syncer, NEW step \in Steps,
             Goto(p, step), ~ fresh'[p],
             \A q \in Syncer \ {p} : fresh'[q] = fresh[q] /\ cur'[q] = cur[q]
      PROVE  FreshRows'
  <2>1. \A q \in Syncer \ {p} : at'[q] = at[q] BY <1>0, <1>f DEF Goto
  <2> QED BY <1>f, <2>1 DEF FreshRows
<1>1. CASE \E p \in Syncer : PhoneStep(p)
  <2> SUFFICES ASSUME NEW p \in Syncer, PhoneStep(p) PROVE FreshRows' BY <1>1
  <2>1. CASE ListNumbers(p)
    <3>1. ~ fresh[p] BY <2>1 DEF ListNumbers, FreshRows
    <3>2. UNCHANGED <<known, profile, cur, fresh>> /\ Goto(p, "number")
      BY <2>1 DEF ListNumbers, columns
    <3> QED BY <3>1, <3>2, <1>f DEF Steps
  <2>2. ASSUME NEW n \in Number, FindCompany(p, n) PROVE FreshRows'
    <3>1. ~ fresh[p] BY <2>2 DEF FindCompany, FreshRows
    <3>2. UNCHANGED <<known, profile, fresh>> /\ Goto(p, "upsert")
      BY <2>2 DEF FindCompany, columns
    <3>3. \A q \in Syncer \ {p} : cur'[q] = cur[q]
      BY <2>2, <1>0 DEF FindCompany, PhoneTypeOK
    <3> QED BY <3>1, <3>2, <3>3, <1>f DEF Steps
  <2>3. CASE Upsert(p)
    <3>1. /\ known' = known \cup {cur[p]} /\ UNCHANGED <<profile, cur>>
          /\ cur[p] \in Number /\ ~ fresh[p]
      BY <2>3, <1>0 DEF Upsert, FreshRows, InHand
    <3>2. \A q \in Syncer : /\ at'[q] = IF q = p THEN "fetch" ELSE at[q]
                            /\ fresh'[q] = IF q = p THEN cur[p] \notin known
                                                    ELSE fresh[q]
      BY <2>3, <1>0 DEF Upsert, Goto, PhoneTypeOK
    <3>3. \A n \in Number : n \notin known' => profile'[n] = 0
      BY <3>1 DEF FreshRows
    <3>4. \A q \in Syncer : fresh'[q] => /\ at'[q] \in {"fetch", "profile"}
                                         /\ cur'[q] \in known'
                                         /\ profile'[cur'[q]] = 0
      BY <3>1, <3>2 DEF FreshRows
    <3>5. \A q, r \in Syncer : (fresh'[q] /\ fresh'[r] /\ cur'[q] = cur'[r]) => q = r
      BY <3>1, <3>2 DEF FreshRows
    <3> QED BY <3>3, <3>4, <3>5 DEF FreshRows
  <2>4. CASE UpsertFails(p) \/ FetchFails(p) \/ StoreProfileFails(p)
    <3>1. UNCHANGED <<known, profile>> /\ Goto(p, "number") /\ Forget(p)
      BY <2>4 DEF UpsertFails, FetchFails, StoreProfileFails, columns
    <3>2. /\ ~ fresh'[p]
          /\ \A q \in Syncer \ {p} : fresh'[q] = fresh[q] /\ cur'[q] = cur[q]
      BY <1>0, <3>1 DEF Forget, PhoneTypeOK
    <3> QED BY <3>1, <3>2, <1>f DEF Steps
  <2>5. CASE FetchProfile(p)
    <3>1. UNCHANGED <<known, profile, cur, fresh>> /\ Goto(p, "profile")
      BY <2>5 DEF FetchProfile, columns
    <3>2. \A q \in Syncer : at'[q] = IF q = p THEN "profile" ELSE at[q]
      BY <3>1, <1>0 DEF Goto
    <3> QED BY <3>1, <3>2, <1>k DEF FreshRows
  <2>6. CASE StoreProfile(p)
    <3>1. /\ UNCHANGED known /\ Goto(p, "number") /\ Forget(p)
          /\ profile' = IF fresh[p] THEN [profile EXCEPT ![cur[p]] = fetched[p]]
                                    ELSE profile
          /\ cur[p] \in Number
      BY <2>6, <1>0 DEF StoreProfile, IdMatches, InHand
    <3>2. /\ ~ fresh'[p]
          /\ \A q \in Syncer \ {p} : fresh'[q] = fresh[q] /\ cur'[q] = cur[q]
      BY <1>0, <3>1 DEF Forget, PhoneTypeOK
    <3>3. CASE ~ fresh[p] BY <3>1, <3>2, <3>3, <1>f DEF Steps
    <3>4. CASE fresh[p]
      <4>1. cur[p] \in known BY <3>4 DEF FreshRows
      <4>2. \A n \in Number \ {cur[p]} : profile'[n] = profile[n]
        BY <3>1, <3>4, <1>0 DEF PhoneTypeOK
      <4>3. \A q \in Syncer \ {p} :
              fresh[q] => cur[q] # cur[p] /\ cur[q] \in Number
        BY <3>4, <1>0 DEF FreshRows, PhoneTypeOK
      <4>4. \A q \in Syncer \ {p} : at'[q] = at[q] BY <1>0, <3>1 DEF Goto
      <4>5. \A n \in Number : n \notin known' => profile'[n] = 0
        BY <3>1, <4>1, <4>2 DEF FreshRows
      <4>6. \A q \in Syncer : fresh'[q] => /\ at'[q] \in {"fetch", "profile"}
                                           /\ cur'[q] \in known'
                                           /\ profile'[cur'[q]] = 0
        BY <3>1, <3>2, <4>2, <4>3, <4>4 DEF FreshRows
      <4>7. \A q, r \in Syncer : (fresh'[q] /\ fresh'[r] /\ cur'[q] = cur'[r]) => q = r
        BY <3>2 DEF FreshRows
      <4> QED BY <4>5, <4>6, <4>7 DEF FreshRows
    <3> QED BY <3>3, <3>4
  <2> QED BY <2>1, <2>2, <2>3, <2>4, <2>5, <2>6 DEF PhoneStep
<1>2. ASSUME NEW p \in Syncer, PhonesEnd(p) \/ PricingStep(p) PROVE FreshRows'
  <2>1. UNCHANGED <<known, profile, cur, fresh>>
    BY <1>2 DEF PhonesEnd, PhonesDone, PricingStep, ReadWatermark, Skip, Ask, AskFails,
       UpsertPricing, UpsertPricingFails, UpdateLastSyncPricing,
       UpdateLastSyncPricingFails, KeepLastSyncPricing, phones, columns, phoneMemory
  <2>2. UNCHANGED at \/ (~ fresh[p] /\ \E step \in Steps : Goto(p, step))
    BY <1>2 DEF PhonesEnd, PhonesDone, PricingStep, ReadWatermark, Skip, Ask, AskFails,
       UpsertPricing, UpsertPricingFails, UpdateLastSyncPricing,
       UpdateLastSyncPricingFails, KeepLastSyncPricing, FinishPricing, FreshRows, Steps
  <2> QED BY <2>1, <2>2, <1>k, <1>f DEF FreshRows
<1>3. ASSUME NEW S \in SUBSET Syncer, Cut(S) PROVE FreshRows'
  <2>1. \A q \in Syncer : fresh'[q] => fresh[q] /\ cur'[q] = cur[q] /\ at'[q] = at[q]
    BY <1>3 DEF Cut
  <2>2. UNCHANGED <<known, profile>> BY <1>3 DEF Cut, columns
  <2> QED BY <2>1, <2>2 DEF FreshRows
<1>4. CASE \E p \in Syncer : Abandon(p)
  <2>1. PICK p \in Syncer : Cut({p}) BY <1>4 DEF Abandon
  <2> QED BY <2>1, <1>3
<1>5. CASE Crash BY <1>5, <1>3 DEF Crash
<1>6. CASE PhoneRequest
  <2>1. UNCHANGED <<known, profile, cur, fresh, at>>
    BY <1>6 DEF PhoneRequest, AssignCompany, UpdateIsActive, UpdateProfile,
       Register, Deregister, Hear, columns, phoneMemory
  <2> QED BY <2>1 DEF FreshRows
<1>7. CASE Tick \/ \E p \in Syncer, step \in {"list", "mark"} : Request(p, step)
  <2>1. PICK p \in Syncer, step \in Steps : Goto(p, step) /\ at[p] = "idle"
    BY <1>7, TickerAssumption DEF Tick, Request, Steps
  <2>2. UNCHANGED <<known, profile, cur, fresh>>
    BY <1>7 DEF Tick, Request, phones, columns, phoneMemory
  <2> QED BY <2>1, <2>2, <1>f DEF FreshRows
<1>8. CASE TimePasses \/ (\E l \in Line : Use(l)) \/ UNCHANGED vars
  BY <1>8 DEF TimePasses, Use, FreshRows, phones, columns, phoneMemory, vars
<1> QED BY <1>1, <1>2, <1>4, <1>5, <1>6, <1>7, <1>8 DEF Next, SyncStep

(* A row gets a profile once and keeps it for ever.                          *)
THEOREM Profiles == Spec => ProfileWrittenOnce
<1> DEFINE Once == \A n \in Number : profile'[n] # profile[n] => profile[n] = 0
<1>1. Init => FreshRows BY DEF Init, PhoneInit, FreshRows
<1>2. ASSUME TypeInv, FreshRows, [Next]_vars PROVE [Once]_profile
  <2>0. PhoneTypeOK BY <1>2 DEF TypeInv, TypeOK
  <2>1. UNCHANGED profile \/ \E p \in Syncer : StoreProfile(p)
    <3>1. CASE \E p \in Syncer : PhoneStep(p)
      BY <3>1 DEF PhoneStep, ListNumbers, FindCompany, Upsert, UpsertFails, FetchProfile,
                  FetchFails, StoreProfileFails, columns
    <3>2. CASE PhoneRequest
      BY <3>2 DEF PhoneRequest, AssignCompany, UpdateIsActive, UpdateProfile, Register,
                  Deregister, Hear, columns
    <3>3. CASE UNCHANGED vars BY <3>3 DEF vars, phones, columns
    <3>4. CASE \E p \in Syncer : PhonesEnd(p) \/ PricingStep(p) \/ Abandon(p)
      BY <3>4 DEF PhonesEnd, PhonesDone, PricingStep, ReadWatermark, Skip, Ask, AskFails,
         UpsertPricing, UpsertPricingFails, UpdateLastSyncPricing,
         UpdateLastSyncPricingFails, KeepLastSyncPricing, Abandon, Cut, phones, columns
    <3>5. CASE Crash BY <3>5 DEF Crash, Cut, columns
    <3>6. CASE \/ Tick \/ TimePasses \/ \E l \in Line : Use(l)
               \/ \E p \in Syncer, step \in {"list", "mark"} : Request(p, step)
      BY <3>6 DEF Tick, TimePasses, Use, Request, phones, columns
    <3> QED BY <1>2, <3>1, <3>2, <3>3, <3>4, <3>5, <3>6 DEF Next, SyncStep
  <2>2. ASSUME NEW p \in Syncer, StoreProfile(p) PROVE Once
    <3>1. profile' = IF fresh[p] THEN [profile EXCEPT ![cur[p]] = fetched[p]]
                                 ELSE profile
      BY <2>2 DEF StoreProfile, IdMatches
    <3>2. fresh[p] => profile[cur[p]] = 0 BY <1>2 DEF FreshRows
    <3> QED BY <3>1, <3>2, <2>0 DEF PhoneTypeOK
  <2> QED BY <2>1, <2>2
<1>3. Spec => []TypeInv BY TypeInit, TypeStep, PTL DEF Spec
<1>4. TypeInv /\ FreshRows /\ [Next]_vars => FreshRows' BY FreshRowsStep
<1>5. Spec => []FreshRows BY <1>1, <1>3, <1>4, PTL DEF Spec
<1> QED BY <1>2, <1>3, <1>5, PTL DEF Spec, ProfileWrittenOnce
=============================================================================
