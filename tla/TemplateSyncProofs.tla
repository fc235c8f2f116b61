------------------------- MODULE TemplateSyncProofs -------------------------
(***************************************************************************)
(* Proofs about module TemplateSync, for any names, languages, rows and    *)
(* processes and any number of failures.                                   *)
(***************************************************************************)
EXTENDS TemplateSync, TLAPS

Places == {"idle", "each", "insert", "update", "check", "status",
           "deleteMeta", "remove", "removeOnly"}

(* What Take and Onward do to the memory of the processes.                   *)
LEMMA TakeFacts ==
  ASSUME TypeOK, NEW p \in Proc, NEW step \in Places, NEW i \in Id \cup {None},
         NEW r \in Row, Take(p, step, i, r)
  PROVE  /\ at' \in [Proc -> Places] /\ hand' \in [Proc -> Held]
         /\ at'[p] = step /\ hand'[p].id = i /\ hand'[p].row = r
         /\ \A q \in Proc \ {p} : at'[q] = at[q] /\ hand'[q] = hand[q]
<1>1. [id |-> i, row |-> r] \in Held BY DEF Held
<1>2. at \in [Proc -> Places] /\ hand \in [Proc -> Held] BY DEF TypeOK, Places
<1> QED BY <1>1, <1>2 DEF Take

LEMMA NoHandTyped == NoRow \in Row /\ NoHand \in Held
BY BoundAssumption DEF NoRow, NoHand, Row, Held

LEMMA OnwardFacts ==
  ASSUME TypeOK, NEW p \in Proc, Onward(p)
  PROVE  /\ at' \in [Proc -> Places] /\ hand' \in [Proc -> Held]
         /\ touched' \in SUBSET Proc
         /\ at'[p] \in {"each", "check", "idle"}
         /\ \A q \in Proc \ {p} : at'[q] = at[q] /\ hand'[q] = hand[q]
<1>1. at \in [Proc -> Places] /\ hand \in [Proc -> Held] /\ touched \in SUBSET Proc
  BY DEF TypeOK, Places
<1> QED BY <1>1, NoHandTyped DEF Onward, Places

-----------------------------------------------------------------------------
(* Type correctness *)

(* Ids in memory were made up some time; what is to be written has a key.    *)
Memory ==
  /\ \A p \in Proc :
       at[p] \in {"update", "status", "deleteMeta", "remove", "removeOnly"}
         => hand[p].id \in used
  /\ \A p \in Proc : \A h \in pending[p] : h.id \in used
  /\ \A p \in Proc : at[p] \in {"insert", "update"} => KeyOf(hand[p].row) \in Key

TypeInv == TypeOK /\ Memory

LEMMA TypeInit == Init => TypeInv
<1> SUFFICES ASSUME Init PROVE TypeInv OBVIOUS
<1>1. TypeOK BY NoHandTyped, BoundAssumption DEF Init, TypeOK
<1>2. Memory BY DEF Init, Memory
<1> QED BY <1>1, <1>2 DEF TypeInv

(* Steps of Meta. *)
AtMeta ==
  \/ \E k \in Key, w \in MetaId : MakeAtMeta(k, w)
  \/ \E n \in Name : DeleteAtMeta(n)
  \/ \E m \in live, s \in Status : Decide(m, s)

(* They leave the memory of the processes alone. *)
LEMMA TypesMeta ==
  ASSUME TypeInv, AtMeta
  PROVE  TypeInv'
<1>0. TypeOK BY DEF TypeInv
<1>m. Memory' /\ UNCHANGED <<table, at, memory, texts, faults, edited, asked, touched>>
  BY DEF AtMeta, TypeInv, Memory, MakeAtMeta, DeleteAtMeta, Decide, table, memory, marks, bounds
<1>1. ASSUME NEW k \in Key, NEW w \in MetaId, MakeAtMeta(k, w) PROVE TypeInv'
  <2>1. [key |-> k, id |-> w, status |-> "PENDING"] \in Entry BY DEF Entry, Status
  <2>2. live' \in SUBSET Entry /\ issued' \in [MetaId -> Key \cup {None}]
        /\ adrift' \in SUBSET Key
    BY <1>0, <1>1, <2>1 DEF MakeAtMeta, Make, TypeOK
  <2> QED BY <1>0, <1>1, <1>m, <2>2
          DEF TypeInv, TypeOK, MakeAtMeta, table, memory, bounds
<1>2. ASSUME NEW n \in Name, DeleteAtMeta(n) PROVE TypeInv'
  BY <1>0, <1>2, <1>m DEF TypeInv, TypeOK, DeleteAtMeta, table, memory, bounds, marks
<1>3. ASSUME NEW m \in live, NEW s \in Status, Decide(m, s) PROVE TypeInv'
  <2>1. m \in Entry BY <1>0 DEF TypeOK
  <2>2. [m EXCEPT !.status = s] \in Entry /\ m.key \in Key BY <2>1 DEF Entry
  <2>3. live' \in SUBSET Entry /\ events' \in SUBSET Entry /\ approved' \in SUBSET Key
    BY <1>0, <1>3, <2>2 DEF Decide, TypeOK
  <2>4. decisions' \in 0 .. MaxDecisions
    BY <1>0, <1>3, BoundAssumption DEF Decide, TypeOK
  <2> QED BY <1>0, <1>3, <1>m, <2>3, <2>4
          DEF TypeInv, TypeOK, Decide, table, memory, marks
<1> QED BY <1>1, <1>2, <1>3 DEF AtMeta

LEMMA TypesEdit ==
  ASSUME TypeInv, NEW i \in Id, NEW g \in Given, Edit(i, Edited(g))
  PROVE  TypeInv'
<1>0. TypeOK BY DEF TypeInv
<1>1. /\ g[1] \in Lang /\ g[2] \in Status \cup {None} /\ g[3] \in BOOLEAN
  BY GivenAssumption
<1>2. texts + 1 \in 0 .. MaxTexts BY <1>0, BoundAssumption DEF TypeOK, Edit
<1>3. Edited(g) \in Row BY <1>1, <1>2, BoundAssumption DEF Edited, Row
<1>4. rows' \in [Id -> Row] BY <1>0, <1>3 DEF Edit, TypeOK
<1>5. edited' \in SUBSET Id /\ touched' \in SUBSET Proc /\ adrift' \in SUBSET Key
  BY <1>0 DEF Edit, TypeOK
<1>6. UNCHANGED <<metaSide, ids, used, at, memory, asked, decisions, faults>>
      /\ texts' = texts + 1
  BY DEF Edit
<1>7. Memory' BY <1>6 DEF TypeInv, Memory, memory
<1> QED BY <1>0, <1>2, <1>4, <1>5, <1>6, <1>7 DEF TypeInv, TypeOK, metaSide, memory

(* Steps that take a row in hand. *)
Takes(p) ==
  \/ \E k \in Key, w \in MetaId, s \in Status : Create(p, k, w, s)
  \/ \E m \in listed[p] : LookUp(p, m)
  \/ \E e \in events : Hear(p, e)
  \/ \E i \in Id : DeleteRead(p, i)

LEMMA TypesTake ==
  ASSUME TypeInv, NEW p \in Proc, Takes(p)
  PROVE  TypeInv'
<1>0. TypeOK /\ Memory BY DEF TypeInv
<1>n. 0 \in 0 .. MaxMeta /\ 0 \in 0 .. MaxTexts BY BoundAssumption
<1>r. \A m \in Entry : /\ m.id \in 0 .. MaxMeta /\ m.key \in Key
                       /\ m.key[1] \in Name /\ m.key[2] \in Lang
                       /\ m.key = <<m.key[1], m.key[2]>>
                       /\ m.status \in Status
  BY BoundAssumption DEF Entry, MetaId, Key
<1>k. ASSUME NEW step \in {"insert", "update", "deleteMeta", "removeOnly"},
             NEW i \in used \cup {None}, NEW r \in Row, Take(p, step, i, r),
             step = "insert" \/ i \in used,
             step \in {"insert", "update"} => KeyOf(r) \in Key,
             UNCHANGED <<used, pending>>
      PROVE  Memory' /\ at' \in [Proc -> Places] /\ hand' \in [Proc -> Held]
  <2>1. step \in Places /\ i \in Id \cup {None} BY <1>0 DEF Places, TypeOK
  <2>2. /\ at' \in [Proc -> Places] /\ hand' \in [Proc -> Held]
        /\ at'[p] = step /\ hand'[p].id = i /\ hand'[p].row = r
        /\ \A q \in Proc \ {p} : at'[q] = at[q] /\ hand'[q] = hand[q]
    BY <1>0, <1>k, <2>1, TakeFacts
  <2>3. \A q \in Proc :
          at'[q] \in {"update", "status", "deleteMeta", "remove", "removeOnly"}
            => hand'[q].id \in used'
    BY <1>0, <1>k, <2>2 DEF Memory
  <2>4. \A q \in Proc :
          at'[q] \in {"insert", "update"} => KeyOf(hand'[q].row) \in Key
    BY <1>0, <1>k, <2>2 DEF Memory
  <2> QED BY <1>0, <1>k, <2>2, <2>3, <2>4 DEF Memory
<1>1. ASSUME NEW k \in Key, NEW w \in MetaId, NEW s \in Status, Create(p, k, w, s)
      PROVE  TypeInv'
  <2> DEFINE r == Created(k, w, s)
  <2>1. texts + 1 \in 0 .. MaxTexts /\ w \in 0 .. MaxMeta
    BY <1>0, <1>1, BoundAssumption DEF Create, TypeOK, MetaId
  <2>2. k[1] \in Name /\ k[2] \in Lang /\ k = <<k[1], k[2]>> BY DEF Key
  <2>3. r \in Row /\ KeyOf(r) = k BY <2>1, <2>2 DEF Created, Row, Status, KeyOf
  <2>4. [key |-> k, id |-> w, status |-> s] \in Entry BY DEF Entry
  <2>5. /\ live' \in SUBSET Entry /\ issued' \in [MetaId -> Key \cup {None}]
        /\ approved' \in SUBSET Key
    BY <1>0, <1>1, <2>4 DEF Create, Make, TypeOK
  <2>6. Take(p, "insert", None, r) BY <1>1 DEF Create
  <2> HIDE DEF r
  <2>7. Memory' /\ at' \in [Proc -> Places] /\ hand' \in [Proc -> Held]
    BY <1>1, <1>k, <2>3, <2>6 DEF Create, table
  <2> QED BY <1>0, <1>1, <2>1, <2>5, <2>7
          DEF TypeInv, TypeOK, Create, Places, table, marks
<1>2. ASSUME NEW m \in listed[p], LookUp(p, m) PROVE TypeInv'
  <2>1. m \in Entry BY <1>0 DEF TypeOK
  <2>2. Imported(m) \in Row /\ KeyOf(Imported(m)) = m.key
    BY <1>r, <1>n, <2>1 DEF Imported, Row, KeyOf
  <2>3. \A r \in Row : Refreshed(r, m) \in Row /\ KeyOf(Refreshed(r, m)) = KeyOf(r)
    BY <1>r, <2>1 DEF Refreshed, Row, KeyOf
  <2>4. Memory' /\ at' \in [Proc -> Places] /\ hand' \in [Proc -> Held]
    <3>1. ASSUME NEW i \in RowsOf(m.key), Take(p, "update", i, Refreshed(rows[i], m))
          PROVE  Memory' /\ at' \in [Proc -> Places] /\ hand' \in [Proc -> Held]
      <4>1. i \in used /\ rows[i] \in Row /\ KeyOf(rows[i]) = m.key
        BY <1>0, <3>1 DEF RowsOf, TypeOK
      <4> QED BY <1>2, <1>k, <1>r, <2>1, <2>3, <3>1, <4>1 DEF LookUp, table
    <3>2. ASSUME Take(p, "insert", None, Imported(m))
          PROVE  Memory' /\ at' \in [Proc -> Places] /\ hand' \in [Proc -> Held]
      BY <1>2, <1>k, <1>r, <2>1, <2>2, <3>2 DEF LookUp, table
    <3> QED BY <1>2, <3>1, <3>2 DEF LookUp
  <2>5. faults' \in 0 .. MaxFaults
    BY <1>0, <1>2, BoundAssumption DEF LookUp, Fault, TypeOK
  <2>6. listed' \in [Proc -> SUBSET Entry] BY <1>0, <1>2 DEF LookUp, TypeOK
  <2> QED BY <1>0, <1>2, <2>4, <2>5, <2>6
          DEF TypeInv, TypeOK, LookUp, Places, metaSide, table, marks
<1>3. ASSUME NEW e \in events, Hear(p, e) PROVE TypeInv'
  <2>1. PICK i \in RowsOf(e.key), w \in {0, e.id} :
          Take(p, "update", i, Told(rows[i], e, w))
    BY <1>3 DEF Hear
  <2>2. e \in Entry /\ i \in used /\ rows[i] \in Row /\ KeyOf(rows[i]) = e.key
    BY <1>0, <1>3 DEF RowsOf, TypeOK
  <2>3. Told(rows[i], e, w) \in Row /\ KeyOf(Told(rows[i], e, w)) = e.key
    BY <1>r, <2>2 DEF Told, Row, KeyOf
  <2>4. Memory' /\ at' \in [Proc -> Places] /\ hand' \in [Proc -> Held]
    BY <1>3, <1>k, <1>r, <2>1, <2>2, <2>3 DEF Hear, table
  <2> QED BY <1>0, <1>3, <2>4
          DEF TypeInv, TypeOK, Hear, Places, metaSide, table, marks, bounds
<1>4. ASSUME NEW i \in Id, DeleteRead(p, i) PROVE TypeInv'
  <2> DEFINE r == [NoRow EXCEPT !.name = rows[i].name, !.wa = rows[i].wa]
  <2>1. i \in used /\ rows[i] \in Row BY <1>0, <1>4 DEF DeleteRead, TypeOK
  <2>2. r \in Row BY <1>n, <2>1 DEF Row, NoRow
  <2>3. \E step \in {"removeOnly", "deleteMeta"} : Take(p, step, i, r)
    BY <1>4 DEF DeleteRead
  <2> HIDE DEF r
  <2>4. Memory' /\ at' \in [Proc -> Places] /\ hand' \in [Proc -> Held]
    BY <1>4, <1>k, <2>1, <2>2, <2>3 DEF DeleteRead, table
  <2> QED BY <1>0, <1>4, <2>4
          DEF TypeInv, TypeOK, DeleteRead, Places, metaSide, table, marks, bounds
<1> QED BY <1>1, <1>2, <1>3, <1>4 DEF Takes

(* Steps that write or give up the row in hand. *)
Writes(p) ==
  \/ \E i \in Id : Insert(p, i)
  \/ InsertRefused(p) \/ InsertFails(p)
  \/ Update(p) \/ UpdateRefused(p) \/ UpdateFails(p)
  \/ StoreStatus(p) \/ Remove(p)

LEMMA TypesWrite ==
  ASSUME TypeInv, NEW p \in Proc, Writes(p)
  PROVE  TypeInv'
<1>0. TypeOK /\ Memory BY DEF TypeInv
<1>o. Onward(p) /\ UNCHANGED <<metaSide, listed, pending, edited, texts, decisions>>
  BY DEF Writes, Insert, InsertRefused, InsertFails, Update, UpdateRefused,
         UpdateFails, StoreStatus, Remove, table, bounds
<1>h. hand[p].row \in Row /\ (hand[p].row.status \in Status \cup {None})
  BY <1>0 DEF TypeOK, Held, Row
<1>f. faults' \in 0 .. MaxFaults
  BY <1>0, BoundAssumption
     DEF Writes, Insert, InsertRefused, InsertFails, Update, UpdateRefused,
         UpdateFails, StoreStatus, Remove, bounds, Fault, TypeOK
<1>u. used \subseteq used' /\ used' \in SUBSET Id /\ ids' \in SUBSET used'
  BY <1>0 DEF Writes, Insert, InsertRefused, InsertFails, Update, UpdateRefused,
              UpdateFails, StoreStatus, Remove, table, TypeOK
<1>r. rows' \in [Id -> Row]
  <2>1. \A i \in Id : [rows EXCEPT ![i] = hand[p].row] \in [Id -> Row]
                      /\ [rows EXCEPT ![i] = NoRow] \in [Id -> Row]
    BY <1>0, <1>h, NoHandTyped DEF TypeOK
  <2>2. \A i \in Id, s \in Status \cup {None} :
          [rows EXCEPT ![i].status = s, ![i].verified = s = "APPROVED"] \in [Id -> Row]
    <3>1. ASSUME NEW i \in Id, NEW s \in Status \cup {None}
          PROVE  [rows EXCEPT ![i].status = s, ![i].verified = s = "APPROVED"]
                   \in [Id -> Row]
      <4> DEFINE v == s = "APPROVED"
      <4>1. v \in BOOLEAN OBVIOUS
      <4>2. rows[i] \in Row BY <1>0 DEF TypeOK
      <4> HIDE DEF v
      <4>3. [rows[i] EXCEPT !.status = s] \in Row BY <4>2 DEF Row
      <4>4. [[rows[i] EXCEPT !.status = s] EXCEPT !.verified = v] \in Row
        BY <4>1, <4>3 DEF Row
      <4>5. [rows EXCEPT ![i].status = s, ![i].verified = v] =
              [rows EXCEPT ![i] = [[rows[i] EXCEPT !.status = s] EXCEPT !.verified = v]]
        BY <1>0 DEF TypeOK
      <4>6. [rows EXCEPT ![i].status = s, ![i].verified = v] \in [Id -> Row]
        BY <1>0, <4>4, <4>5 DEF TypeOK
      <4> QED BY <4>6 DEF v
    <3> QED BY <3>1
  <2>3. hand[p].id \in Id \/ at[p] = "insert" BY <1>0 DEF Memory, TypeOK,
          Writes, Insert, InsertRefused, InsertFails, Update, UpdateRefused,
          UpdateFails, StoreStatus, Remove
  <2>4. CASE \E i \in Id : Insert(p, i) BY <2>1, <2>4 DEF Insert
  <2>5. CASE InsertRefused(p) \/ InsertFails(p) \/ UpdateRefused(p) \/ UpdateFails(p)
    BY <1>0, <2>5 DEF InsertRefused, InsertFails, UpdateRefused, UpdateFails, table, TypeOK
  <2>6. CASE Update(p) BY <2>1, <2>3, <2>6 DEF Update
  <2>7. CASE StoreStatus(p) BY <1>0, <1>h, <2>2, <2>3, <2>7 DEF StoreStatus, TypeOK
  <2>8. CASE Remove(p) BY <2>1, <2>3, <2>8 DEF Remove
  <2> QED BY <2>4, <2>5, <2>6, <2>7, <2>8 DEF Writes
<1>a. adrift' \in SUBSET Key /\ asked' \in SUBSET Id
  BY <1>0 DEF Writes, Insert, InsertRefused, InsertFails, Update, UpdateRefused,
              UpdateFails, StoreStatus, Remove, Settle, Memory, TypeOK, Entry
<1>2. /\ at' \in [Proc -> Places] /\ hand' \in [Proc -> Held]
      /\ touched' \in SUBSET Proc
      /\ at'[p] \in {"each", "check", "idle"}
      /\ \A q \in Proc \ {p} : at'[q] = at[q] /\ hand'[q] = hand[q]
  BY <1>0, <1>o, OnwardFacts
<1>3. Memory'
  <2>1. \A q \in Proc :
          at'[q] \in {"update", "status", "deleteMeta", "remove", "removeOnly"}
            => hand'[q].id \in used'
    BY <1>0, <1>u, <1>2 DEF Memory
  <2>2. \A q \in Proc : \A h \in pending'[q] : h.id \in used'
    BY <1>0, <1>u, <1>o DEF Memory
  <2>3. \A q \in Proc : at'[q] \in {"insert", "update"} => KeyOf(hand'[q].row) \in Key
    BY <1>0, <1>2 DEF Memory
  <2> QED BY <2>1, <2>2, <2>3 DEF Memory
<1> QED BY <1>0, <1>o, <1>f, <1>u, <1>r, <1>a, <1>2, <1>3
        DEF TypeInv, TypeOK, Places, metaSide

(* The steps that are left. *)
Others(p) ==
  \/ ListTemplates(p) \/ ListPending(p) \/ (\E h \in pending[p] : Check(p, h))
  \/ DeleteMeta(p) \/ DeleteMetaFails(p) \/ Abandon(p)

LEMMA TypesOther ==
  ASSUME TypeInv, NEW p \in Proc, Others(p)
  PROVE  TypeInv'
<1>0. TypeOK /\ Memory BY DEF TypeInv
<1>m. ASSUME NEW step \in Places \ {"insert", "update", "status"},
             at' = [at EXCEPT ![p] = step],
             step \in {"remove", "removeOnly"} => at[p] = "deleteMeta",
             step # "deleteMeta",
             UNCHANGED used, UNCHANGED hand \/ hand' = [hand EXCEPT ![p] = NoHand],
             step \in {"remove", "removeOnly"} => UNCHANGED hand,
             \A q \in Proc : \A h \in pending'[q] : h.id \in used
      PROVE  Memory' /\ at' \in [Proc -> Places] /\ hand' \in [Proc -> Held]
  <2>1. at' \in [Proc -> Places] /\ hand' \in [Proc -> Held]
    BY <1>0, <1>m, NoHandTyped DEF TypeOK, Places
  <2>2. /\ at'[p] = step
        /\ \A q \in Proc \ {p} : at'[q] = at[q] /\ hand'[q] = hand[q]
    BY <1>0, <1>m DEF TypeOK
  <2>3. \A q \in Proc :
          at'[q] \in {"update", "status", "deleteMeta", "remove", "removeOnly"}
            => hand'[q].id \in used'
    BY <1>0, <1>m, <2>2 DEF Memory
  <2>4. \A q \in Proc : at'[q] \in {"insert", "update"} => KeyOf(hand'[q].row) \in Key
    BY <1>0, <1>m, <2>2 DEF Memory
  <2> QED BY <1>m, <2>1, <2>3, <2>4 DEF Memory
<1>1. CASE ListTemplates(p)
  <2>1. Memory' /\ at' \in [Proc -> Places] /\ hand' \in [Proc -> Held]
    BY <1>0, <1>1, <1>m DEF ListTemplates, Places, table, Memory
  <2>2. listed' \in [Proc -> SUBSET Entry] BY <1>0, <1>1 DEF ListTemplates, TypeOK
  <2> QED BY <1>0, <1>1, <2>1, <2>2
          DEF TypeInv, TypeOK, ListTemplates, Places, metaSide, table, marks, bounds
<1>2. CASE ListPending(p)
  <2> DEFINE snap(i) == [id |-> i, row |-> [NoRow EXCEPT !.name = rows[i].name,
                                                         !.status = "PENDING"]]
             found == {snap(i) : i \in {j \in ids : rows[j].status = "PENDING"}}
  <2>1. \A i \in ids : snap(i) \in Held /\ snap(i).id \in used
    BY <1>0, NoHandTyped DEF TypeOK, Row, Held, Status, NoRow
  <2>2. pending' = [pending EXCEPT ![p] = found] /\ UNCHANGED <<used, hand>>
        /\ at' = [at EXCEPT ![p] = "check"]
    BY <1>2 DEF ListPending, table
  <2> HIDE DEF snap
  <2>3. found \in SUBSET Held /\ \A h \in found : h.id \in used BY <2>1
  <2> HIDE DEF found
  <2>4. pending' \in [Proc -> SUBSET Held] BY <1>0, <2>2, <2>3 DEF TypeOK
  <2>5. \A q \in Proc : \A h \in pending'[q] : h.id \in used
    BY <1>0, <2>2, <2>3 DEF Memory, TypeOK
  <2>6. Memory' /\ at' \in [Proc -> Places] /\ hand' \in [Proc -> Held]
    BY <2>2, <2>5, <1>m DEF Places
  <2> QED BY <1>0, <1>2, <2>4, <2>6
          DEF TypeInv, TypeOK, ListPending, Places, metaSide, table, marks, bounds
<1>3. ASSUME NEW h \in pending[p], Check(p, h) PROVE TypeInv'
  <2>1. /\ pending' = [pending EXCEPT ![p] = @ \ {h}] /\ UNCHANGED <<used, touched>>
        /\ UNCHANGED <<metaSide, table, listed, edited, asked, adrift, bounds>>
    BY <1>3 DEF Check, table
  <2>2. /\ pending' \in [Proc -> SUBSET Held]
        /\ \A q \in Proc : \A g \in pending'[q] : g.id \in used
    BY <1>0, <2>1 DEF Memory, TypeOK
  <2>3. h \in Held /\ h.id \in used BY <1>0 DEF Memory, TypeOK
  <2>4. Memory' /\ at' \in [Proc -> Places] /\ hand' \in [Proc -> Held]
    <3>1. ASSUME NEW m \in live, Take(p, "status", h.id, [h.row EXCEPT !.status = m.status])
          PROVE  Memory' /\ at' \in [Proc -> Places] /\ hand' \in [Proc -> Held]
      <4>1. m.status \in Status BY <1>0 DEF TypeOK, Entry
      <4>2. [h.row EXCEPT !.status = m.status] \in Row BY <2>3, <4>1 DEF Held, Row
      <4>3. h.id \in Id \cup {None} BY <1>0, <2>3 DEF TypeOK
      <4>4. /\ at' \in [Proc -> Places] /\ hand' \in [Proc -> Held]
            /\ at'[p] = "status" /\ hand'[p].id = h.id
            /\ \A q \in Proc \ {p} : at'[q] = at[q] /\ hand'[q] = hand[q]
        BY <1>0, <3>1, <4>2, <4>3, TakeFacts DEF Places
      <4> QED BY <1>0, <2>1, <2>2, <2>3, <4>4 DEF Memory
    <3>2. ASSUME at' = [at EXCEPT ![p] = IF pending[p] = {h} THEN "idle" ELSE "check"],
                 UNCHANGED hand
          PROVE  Memory' /\ at' \in [Proc -> Places] /\ hand' \in [Proc -> Held]
      BY <2>1, <2>2, <3>2, <1>m DEF Places
    <3> QED BY <1>3, <3>1, <3>2 DEF Check, Answers
  <2> QED BY <1>0, <2>1, <2>2, <2>4
          DEF TypeInv, TypeOK, Places, metaSide, table, bounds
<1>4. CASE DeleteMeta(p)
  <2>1. Memory' /\ at' \in [Proc -> Places] /\ hand' \in [Proc -> Held]
    BY <1>0, <1>4, <1>m DEF DeleteMeta, Places, table, memory, Memory
  <2>2. live' \in SUBSET Entry BY <1>0, <1>4 DEF DeleteMeta, TypeOK
  <2> QED BY <1>0, <1>4, <2>1, <2>2
          DEF TypeInv, TypeOK, DeleteMeta, Places, memory, table, marks, bounds
<1>5. CASE DeleteMetaFails(p)
  <2>1. Memory' /\ at' \in [Proc -> Places] /\ hand' \in [Proc -> Held]
    BY <1>0, <1>5, <1>m DEF DeleteMetaFails, Places, table, memory, Memory
  <2>2. faults' \in 0 .. MaxFaults
    BY <1>0, <1>5, BoundAssumption DEF DeleteMetaFails, Fault, TypeOK
  <2> QED BY <1>0, <1>5, <2>1, <2>2
          DEF TypeInv, TypeOK, DeleteMetaFails, Places, metaSide, memory, table, marks
<1>6. CASE Abandon(p)
  <2>1. \A q \in Proc : \A h \in pending'[q] : h.id \in used
    BY <1>0, <1>6 DEF Abandon, Memory, TypeOK
  <2>2. Memory' /\ at' \in [Proc -> Places] /\ hand' \in [Proc -> Held]
    BY <1>6, <2>1, <1>m DEF Abandon, Places, table
  <2>3. faults' \in 0 .. MaxFaults
    BY <1>0, <1>6, BoundAssumption DEF Abandon, Fault, TypeOK
  <2>4. listed' \in [Proc -> SUBSET Entry] /\ pending' \in [Proc -> SUBSET Held]
        /\ touched' \in SUBSET Proc
    BY <1>0, <1>6 DEF Abandon, TypeOK
  <2>5. adrift' \in SUBSET Key BY <1>0, <1>6 DEF Abandon, TypeOK, Memory
  <2> QED BY <1>0, <1>6, <2>2, <2>3, <2>4, <2>5
          DEF TypeInv, TypeOK, Abandon, Places, metaSide, table
<1> QED BY <1>1, <1>2, <1>3, <1>4, <1>5, <1>6 DEF Others

(* The kinds of steps. *)
LEMMA Kinds ==
  ASSUME [Next]_vars
  PROVE  \/ UNCHANGED vars
         \/ AtMeta
         \/ \E i \in Id, g \in Given : Edit(i, Edited(g))
         \/ \E p \in Proc : Takes(p)
         \/ \E p \in Proc : Writes(p)
         \/ \E p \in Proc : Others(p)
BY DEF Next, Step, AtMeta, Takes, Writes, Others

LEMMA TypeStep == TypeInv /\ [Next]_vars => TypeInv'
<1> SUFFICES ASSUME TypeInv, [Next]_vars PROVE TypeInv' OBVIOUS
<1>1. CASE UNCHANGED vars
  BY <1>1 DEF TypeInv, TypeOK, Memory, vars, metaSide, table, memory, marks, bounds
<1>2. CASE AtMeta BY <1>2, TypesMeta
<1>3. CASE \E i \in Id, g \in Given : Edit(i, Edited(g)) BY <1>3, TypesEdit
<1>4. CASE \E p \in Proc : Takes(p) BY <1>4, TypesTake
<1>5. CASE \E p \in Proc : Writes(p) BY <1>5, TypesWrite
<1>6. CASE \E p \in Proc : Others(p) BY <1>6, TypesOther
<1> QED BY <1>1, <1>2, <1>3, <1>4, <1>5, <1>6, Kinds

(* The variables keep their types. *)
THEOREM TypeCorrect == Spec => []TypeOK
<1>1. Spec => []TypeInv BY TypeInit, TypeStep, PTL DEF Spec
<1>2. TypeInv => TypeOK BY DEF TypeInv
<1> QED BY <1>1, <1>2, PTL

-----------------------------------------------------------------------------
(* Rows and Meta's ids *)

(* The entries that Meta has, has sent or has listed carry their own ids;    *)
(* rows, and what is about to be written to them, have the key of their id.  *)
Identity ==
  /\ \A m \in live \cup events : issued[m.id] = m.key
  /\ \A p \in Proc : \A m \in listed[p] : issued[m.id] = m.key
  /\ \A i \in ids : rows[i].wa # 0 => /\ KeyOf(rows[i]) \in Key
                                      /\ issued[rows[i].wa] = KeyOf(rows[i])
  /\ \A i \in ids : KeyOf(rows[i]) \in Key => rows[i].wa # 0
  /\ \A p \in Proc : at[p] \in {"insert", "update"} =>
       /\ hand[p].row.wa \in MetaId
       /\ issued[hand[p].row.wa] = KeyOf(hand[p].row)

LEMMA IdentityStep ==
  ASSUME TypeInv, TypeInv', Identity, [Next]_vars
  PROVE  Identity'
<1>0. TypeOK /\ Memory /\ TypeOK' /\ Memory' BY DEF TypeInv
<1>w. MetaId \subseteq Nat /\ 0 \notin MetaId BY BoundAssumption DEF MetaId
<1>e. \A m \in Entry : m.id \in MetaId /\ m.key \in Key BY DEF Entry
<1>i. ASSUME NEW k \in Key, NEW w \in MetaId, NEW s \in Status, Make(k, w, s)
      PROVE  /\ \A v \in MetaId : issued[v] \in Key => issued'[v] = issued[v]
             /\ issued'[w] = k
             /\ \A m \in live' : issued'[m.id] = m.key
  <2>1. issued[w] \notin Key BY <1>i, NoneAssumption DEF Make, Key
  <2>2. \A v \in MetaId : issued[v] \in Key => issued'[v] = issued[v]
    BY <1>0, <1>i, <2>1 DEF Make, TypeOK
  <2>3. issued'[w] = k BY <1>0, <1>i DEF Make, TypeOK
  <2>4. ASSUME NEW m \in live' PROVE issued'[m.id] = m.key
    <3>1. CASE m \in live
      <4>1. m \in Entry BY <1>0, <3>1 DEF TypeOK
      <4> QED BY <3>1, <4>1, <1>e, <2>2 DEF Identity
    <3>2. CASE m = [key |-> k, id |-> w, status |-> s] BY <3>2, <2>3
    <3> QED BY <1>i, <3>1, <3>2 DEF Make
  <2> QED BY <2>2, <2>3, <2>4
<1>k. ASSUME \A v \in MetaId : issued[v] \in Key => issued'[v] = issued[v],
             \A m \in live' \cup events' : issued'[m.id] = m.key
      PROVE  /\ \A m \in live' \cup events' : issued'[m.id] = m.key
             /\ \A p \in Proc : \A m \in listed[p] : issued'[m.id] = m.key
             /\ \A i \in ids : rows[i].wa # 0 => issued'[rows[i].wa] = KeyOf(rows[i])
             /\ \A p \in Proc : at[p] \in {"insert", "update"} =>
                  issued'[hand[p].row.wa] = KeyOf(hand[p].row)
  <2>1. \A p \in Proc : \A m \in listed[p] : m.id \in MetaId /\ m.key \in Key
    BY <1>0, <1>e DEF TypeOK
  <2>2. \A i \in ids : rows[i].wa # 0 => rows[i].wa \in MetaId
    BY <1>0 DEF TypeOK, Row, MetaId
  <2> QED BY <1>k, <1>0, <2>1, <2>2 DEF Identity, Memory
<1>1. CASE UNCHANGED vars
  BY <1>1 DEF Identity, vars, metaSide, table, memory
<1>2. CASE AtMeta
  <2>0. UNCHANGED <<table, at, memory>>
    BY <1>2 DEF AtMeta, MakeAtMeta, DeleteAtMeta, Decide
  <2>1. /\ \A v \in MetaId : issued[v] \in Key => issued'[v] = issued[v]
        /\ \A m \in live' \cup events' : issued'[m.id] = m.key
    <3>1. ASSUME NEW k \in Key, NEW w \in MetaId, MakeAtMeta(k, w)
          PROVE  /\ \A v \in MetaId : issued[v] \in Key => issued'[v] = issued[v]
                 /\ \A m \in live' \cup events' : issued'[m.id] = m.key
      <4>1. events' = events /\ \A m \in events : m.id \in MetaId /\ m.key \in Key
        BY <3>1, <1>0, <1>e DEF MakeAtMeta, TypeOK
      <4>2. "PENDING" \in Status BY DEF Status
      <4> QED BY <3>1, <4>1, <4>2, <1>i DEF MakeAtMeta, Identity
    <3>2. ASSUME NEW n \in Name, DeleteAtMeta(n)
          PROVE  /\ \A v \in MetaId : issued[v] \in Key => issued'[v] = issued[v]
                 /\ \A m \in live' \cup events' : issued'[m.id] = m.key
      BY <3>2 DEF DeleteAtMeta, Identity
    <3>3. ASSUME NEW m \in live, NEW s \in Status, Decide(m, s)
          PROVE  /\ \A v \in MetaId : issued[v] \in Key => issued'[v] = issued[v]
                 /\ \A x \in live' \cup events' : issued'[x.id] = x.key
      <4> DEFINE n == [m EXCEPT !.status = s]
      <4>1. m \in Entry BY <1>0 DEF TypeOK
      <4>2. n.id = m.id /\ n.key = m.key BY <4>1 DEF Entry
      <4>3. /\ issued' = issued
            /\ live' \subseteq live \cup {n} /\ events' = events \cup {n}
        BY <3>3 DEF Decide
      <4> HIDE DEF n
      <4>4. issued[m.id] = m.key BY DEF Identity
      <4>5. issued[n.id] = n.key BY <4>2, <4>4
      <4>6. \A x \in live \cup events : issued[x.id] = x.key BY DEF Identity
      <4> QED BY <4>3, <4>5, <4>6
    <3> QED BY <1>2, <3>1, <3>2, <3>3 DEF AtMeta
  <2> QED BY <2>0, <2>1, <1>k DEF Identity, table, memory
<1>3. ASSUME NEW i \in Id, NEW g \in Given, Edit(i, Edited(g)) PROVE Identity'
  <2>1. UNCHANGED <<live, events, issued, ids, at, listed, hand>>
    BY <1>3 DEF Edit, metaSide, memory
  <2>2. \A j \in ids : rows'[j] = IF j = i THEN Edited(g) ELSE rows[j]
    BY <1>0, <1>3 DEF Edit, TypeOK
  <2>3. Edited(g).wa = 0 BY DEF Edited
  <2>4. \A j \in ids' : rows'[j].wa # 0 => /\ KeyOf(rows'[j]) \in Key
                                           /\ issued'[rows'[j].wa] = KeyOf(rows'[j])
    BY <2>1, <2>2, <2>3 DEF Identity
  <2>5. KeyOf(Edited(g)) \notin Key BY NoneAssumption DEF Edited, KeyOf, Key
  <2>6. \A j \in ids' : KeyOf(rows'[j]) \in Key => rows'[j].wa # 0
    BY <2>1, <2>2, <2>5 DEF Identity
  <2> QED BY <2>1, <2>4, <2>6 DEF Identity
<1>4. ASSUME NEW p \in Proc, Takes(p) PROVE Identity'
  <2>h. ASSUME NEW step \in Places, NEW i \in Id \cup {None}, NEW r \in Row,
               Take(p, step, i, r),
               step \in {"insert", "update"} =>
                 r.wa \in MetaId /\ issued'[r.wa] = KeyOf(r),
               \A q \in Proc : at[q] \in {"insert", "update"} =>
                 issued'[hand[q].row.wa] = KeyOf(hand[q].row)
        PROVE  \A q \in Proc : at'[q] \in {"insert", "update"} =>
                 /\ hand'[q].row.wa \in MetaId
                 /\ issued'[hand'[q].row.wa] = KeyOf(hand'[q].row)
    <3>1. /\ at'[p] = step /\ hand'[p].row = r
          /\ \A q \in Proc \ {p} : at'[q] = at[q] /\ hand'[q] = hand[q]
      BY <1>0, <2>h, TakeFacts
    <3> QED BY <2>h, <3>1 DEF Identity
  <2>1. ASSUME NEW k \in Key, NEW w \in MetaId, NEW s \in Status, Create(p, k, w, s)
        PROVE  Identity'
    <3> DEFINE r == Created(k, w, s)
    <3>1. Take(p, "insert", None, r) /\ UNCHANGED <<table, listed, events>>
      BY <2>1 DEF Create
    <3>2. r.wa = w /\ KeyOf(r) = k BY DEF Created, KeyOf, Key
    <3>3. hand'[p].row = r BY <1>0, <3>1 DEF Take, TypeOK
    <3>4. r \in Row
      <4>1. hand'[p] \in Held BY <1>0 DEF TypeOK
      <4> QED BY <3>3, <4>1 DEF Held
    <3> HIDE DEF r
    <3>5. /\ \A v \in MetaId : issued[v] \in Key => issued'[v] = issued[v]
          /\ issued'[w] = k
          /\ \A m \in live' : issued'[m.id] = m.key
      BY <2>1, <1>i DEF Create
    <3>6. \A m \in events : m.id \in MetaId /\ m.key \in Key BY <1>0, <1>e DEF TypeOK
    <3>7. \A m \in live' \cup events' : issued'[m.id] = m.key
      BY <3>1, <3>5, <3>6 DEF Identity
    <3>8. /\ \A q \in Proc : \A m \in listed[q] : issued'[m.id] = m.key
          /\ \A i \in ids : rows[i].wa # 0 => issued'[rows[i].wa] = KeyOf(rows[i])
          /\ \A q \in Proc : at[q] \in {"insert", "update"} =>
               issued'[hand[q].row.wa] = KeyOf(hand[q].row)
      BY <3>5, <3>7, <1>k
    <3>9. \A q \in Proc : at'[q] \in {"insert", "update"} =>
                 /\ hand'[q].row.wa \in MetaId
                 /\ issued'[hand'[q].row.wa] = KeyOf(hand'[q].row)
      BY <2>h, <3>1, <3>2, <3>4, <3>5, <3>8 DEF Places
    <3> QED BY <3>1, <3>7, <3>8, <3>9 DEF Identity, table
  <2>2. ASSUME NEW m \in listed[p], LookUp(p, m) PROVE Identity'
    <3>1. UNCHANGED <<live, events, issued, ids, rows>>
          /\ listed' = [listed EXCEPT ![p] = @ \ {m}]
      BY <2>2 DEF LookUp, metaSide, table
    <3>2. \A q \in Proc : listed'[q] \subseteq listed[q] BY <1>0, <3>1 DEF TypeOK
    <3>3. m \in Entry /\ m.id \in MetaId /\ issued[m.id] = m.key
      BY <1>0, <1>e DEF TypeOK, Identity
    <3>4. Imported(m).wa = m.id /\ KeyOf(Imported(m)) = m.key
      BY <3>3 DEF Imported, KeyOf, Entry, Key
    <3>5. \A r \in Row : Refreshed(r, m).wa = m.id /\ KeyOf(Refreshed(r, m)) = KeyOf(r)
      BY DEF Refreshed, KeyOf, Row
    <3>6. hand'[p].row \in Row BY <1>0 DEF TypeOK, Held
    <3>7. \A q \in Proc : at'[q] \in {"insert", "update"} =>
                 /\ hand'[q].row.wa \in MetaId
                 /\ issued'[hand'[q].row.wa] = KeyOf(hand'[q].row)
      <4>1. ASSUME NEW i \in RowsOf(m.key), Take(p, "update", i, Refreshed(rows[i], m))
            PROVE  \A q \in Proc : at'[q] \in {"insert", "update"} =>
                     /\ hand'[q].row.wa \in MetaId
                     /\ issued'[hand'[q].row.wa] = KeyOf(hand'[q].row)
        <5>1. i \in Id /\ rows[i] \in Row /\ KeyOf(rows[i]) = m.key
          BY <1>0 DEF RowsOf, TypeOK
        <5>2. Refreshed(rows[i], m) \in Row
          BY <1>0, <4>1, <3>6 DEF Take, TypeOK
        <5> QED BY <2>h, <3>1, <3>3, <3>5, <4>1, <5>1, <5>2 DEF Identity, Places
      <4>2. ASSUME Take(p, "insert", None, Imported(m))
            PROVE  \A q \in Proc : at'[q] \in {"insert", "update"} =>
                     /\ hand'[q].row.wa \in MetaId
                     /\ issued'[hand'[q].row.wa] = KeyOf(hand'[q].row)
        <5>1. Imported(m) \in Row BY <1>0, <4>2, <3>6 DEF Take, TypeOK
        <5> QED BY <2>h, <3>1, <3>3, <3>4, <4>2, <5>1 DEF Identity, Places
      <4> QED BY <2>2, <4>1, <4>2 DEF LookUp
    <3> QED BY <3>1, <3>2, <3>7 DEF Identity
  <2>3. ASSUME NEW e \in events, Hear(p, e) PROVE Identity'
    <3>1. PICK i \in RowsOf(e.key), w \in {0, e.id} :
            Take(p, "update", i, Told(rows[i], e, w))
      BY <2>3 DEF Hear
    <3>2. UNCHANGED <<live, events, issued, ids, rows, listed>>
      BY <2>3 DEF Hear, metaSide, table
    <3>3. e \in Entry /\ e.id \in MetaId /\ issued[e.id] = e.key
      BY <1>0, <1>e DEF TypeOK, Identity
    <3>4. /\ i \in Id /\ rows[i] \in Row /\ KeyOf(rows[i]) = e.key
          /\ rows[i].wa \in MetaId /\ issued[rows[i].wa] = e.key
      <4>1. i \in ids /\ i \in Id /\ rows[i] \in Row /\ KeyOf(rows[i]) = e.key
        BY <1>0 DEF RowsOf, TypeOK
      <4>2. rows[i].wa # 0 /\ issued[rows[i].wa] = e.key
        BY <1>e, <3>3, <4>1 DEF Identity, TypeOK
      <4> QED BY <4>1, <4>2 DEF Row, MetaId
    <3>5. /\ Told(rows[i], e, w).wa \in {rows[i].wa, e.id}
          /\ KeyOf(Told(rows[i], e, w)) = e.key
      BY <3>4 DEF Told, KeyOf, Row
    <3>6. hand'[p].row \in Row BY <1>0 DEF TypeOK, Held
    <3>7. Told(rows[i], e, w) \in Row BY <1>0, <3>1, <3>6 DEF Take, TypeOK
    <3>8. \A q \in Proc : at'[q] \in {"insert", "update"} =>
                 /\ hand'[q].row.wa \in MetaId
                 /\ issued'[hand'[q].row.wa] = KeyOf(hand'[q].row)
      BY <2>h, <3>1, <3>2, <3>3, <3>4, <3>5, <3>7 DEF Identity, Places
    <3> QED BY <3>2, <3>8 DEF Identity
  <2>4. ASSUME NEW i \in Id, DeleteRead(p, i) PROVE Identity'
    <3>1. UNCHANGED <<live, events, issued, ids, rows, listed>>
      BY <2>4 DEF DeleteRead, metaSide, table
    <3>2. at'[p] \notin {"insert", "update"}
          /\ \A q \in Proc \ {p} : at'[q] = at[q] /\ hand'[q] = hand[q]
      BY <1>0, <2>4 DEF DeleteRead, Take, TypeOK
    <3> QED BY <3>1, <3>2 DEF Identity
  <2> QED BY <1>4, <2>1, <2>2, <2>3, <2>4 DEF Takes
<1>5. ASSUME NEW p \in Proc, Writes(p) PROVE Identity'
  <2>1. Onward(p) /\ UNCHANGED <<live, events, issued, listed>>
    BY <1>5 DEF Writes, Insert, InsertRefused, InsertFails, Update, UpdateRefused,
                UpdateFails, StoreStatus, Remove, metaSide
  <2>2. /\ at'[p] \notin {"insert", "update"}
        /\ \A q \in Proc \ {p} : at'[q] = at[q] /\ hand'[q] = hand[q]
    BY <1>0, <2>1, OnwardFacts
  <2>3. \A i \in ids' : /\ rows'[i].wa # 0 => /\ KeyOf(rows'[i]) \in Key
                                              /\ issued[rows'[i].wa] = KeyOf(rows'[i])
                        /\ KeyOf(rows'[i]) \in Key => rows'[i].wa # 0
    <3>1. CASE (\E i \in Id : Insert(p, i)) \/ Update(p)
      <4>1. PICK i \in Id : /\ ids' \subseteq ids \cup {i}
                            /\ rows' = [rows EXCEPT ![i] = hand[p].row]
                            /\ at[p] \in {"insert", "update"}
        BY <1>0, <3>1 DEF Insert, Update, TypeOK
      <4>2. \A j \in ids' : j \in Id /\ rows'[j] = IF j = i THEN hand[p].row ELSE rows[j]
        BY <1>0, <4>1 DEF TypeOK
      <4> QED BY <1>0, <1>w, <4>1, <4>2 DEF Identity, Memory
    <3>2. CASE InsertRefused(p) \/ InsertFails(p) \/ UpdateRefused(p) \/ UpdateFails(p)
      BY <3>2 DEF InsertRefused, InsertFails, UpdateRefused, UpdateFails, table, Identity
    <3>3. CASE StoreStatus(p)
      <4>1. ids' = ids BY <3>3 DEF StoreStatus
      <4>2. \A j \in ids : /\ rows'[j].wa = rows[j].wa
                           /\ KeyOf(rows'[j]) = KeyOf(rows[j])
        BY <1>0, <3>3 DEF StoreStatus, TypeOK, Row, KeyOf
      <4> QED BY <4>1, <4>2 DEF Identity
    <3>4. CASE Remove(p)
      <4>1. \A j \in ids' : j \in ids /\ rows'[j] = rows[j]
        BY <1>0, <3>4 DEF Remove, TypeOK
      <4> QED BY <4>1 DEF Identity
    <3> QED BY <1>5, <3>1, <3>2, <3>3, <3>4 DEF Writes
  <2> QED BY <2>1, <2>2, <2>3 DEF Identity
<1>6. ASSUME NEW p \in Proc, Others(p) PROVE Identity'
  <2>1. /\ live' \subseteq live /\ UNCHANGED <<events, issued, ids, rows>>
    BY <1>6 DEF Others, ListTemplates, ListPending, Check, DeleteMeta, DeleteMetaFails,
                Abandon, metaSide, table
  <2>2. \A q \in Proc : \A m \in listed'[q] : m \in listed[q] \/ m \in live
    <3>1. \/ \E page \in SUBSET live : listed' = [listed EXCEPT ![p] = page]
          \/ listed' = [listed EXCEPT ![p] = {}]
          \/ listed' = listed
      BY <1>6 DEF Others, ListTemplates, ListPending, Check, DeleteMeta,
                  DeleteMetaFails, Abandon, memory
    <3> QED BY <1>0, <3>1 DEF TypeOK
  <2>3. /\ at'[p] \notin {"insert", "update"}
        /\ \A q \in Proc \ {p} : at'[q] = at[q] /\ hand'[q] = hand[q]
    BY <1>0, <1>6 DEF Others, ListTemplates, ListPending, Check, DeleteMeta,
                      DeleteMetaFails, Abandon, memory, Take, TypeOK
  <2> QED BY <2>1, <2>2, <2>3 DEF Identity
<1> QED BY <1>1, <1>2, <1>3, <1>4, <1>5, <1>6, Kinds

(* A row with an id of Meta's has its template's name and language.          *)
THEOREM IdentityKept == Spec => []IdentityAgrees
<1>1. Init => Identity BY DEF Init, Identity
<1>2. Spec => []TypeInv BY TypeInit, TypeStep, PTL DEF Spec
<1>3. TypeInv /\ TypeInv' /\ Identity /\ [Next]_vars => Identity' BY IdentityStep
<1>4. Spec => []Identity BY <1>1, <1>2, <1>3, PTL DEF Spec
<1>5. Identity => IdentityAgrees BY DEF Identity, IdentityAgrees
<1> QED BY <1>4, <1>5, PTL

-----------------------------------------------------------------------------
(* Copies of a row *)

Same(r, s) == KeyOf(r) = KeyOf(s) /\ r.text = s.text

(* p is about to write over row i. *)
Writing(p, i) == at[p] = "update" /\ hand[p].id = i

(* All that are about to write over a row had read the same key and text of  *)
(* it, which it still has unless it was edited since: an edited row has no   *)
(* name, so nobody finds it until one of the old copies is written back.     *)
Copies ==
  /\ \A p, q \in Proc : \A i \in Id :
       Writing(p, i) /\ Writing(q, i) => Same(hand[p].row, hand[q].row)
  /\ \A p \in Proc : \A i \in ids :
       Writing(p, i) /\ rows[i].name # None => Same(rows[i], hand[p].row)
  /\ \A p \in Proc : \A i \in ids :
       Writing(p, i) /\ rows[i].name = None => p \in touched

LEMMA KeysHaveNames ==
  ASSUME NEW r \in Row, KeyOf(r) \in Key
  PROVE  r.name # None /\ r.name = KeyOf(r)[1]
BY NoneAssumption DEF KeyOf, Key

(* What a process that takes a row in hand then holds. *)
LEMMA TakesHold ==
  ASSUME TypeInv, NEW p \in Proc, Takes(p)
  PROVE  /\ UNCHANGED <<ids, rows, used, pending, events, touched, edited, asked, adrift>>
         /\ approved \subseteq approved'
         /\ \A q \in Proc \ {p} : at'[q] = at[q] /\ hand'[q] = hand[q]
         /\ at'[p] \in {"insert", "update", "deleteMeta", "removeOnly"}
         /\ at'[p] = "update" =>
              \E i \in ids : /\ hand'[p].id = i /\ rows[i].name # None
                             /\ Same(rows[i], hand'[p].row)
<1>0. TypeOK BY DEF TypeInv
<1>n. \A i \in ids : rows[i] \in Row BY <1>0 DEF TypeOK
<1>k. \A r \in Row : KeyOf(r) \in Key => r.name # None BY KeysHaveNames
<1>u. /\ UNCHANGED <<ids, rows, used, pending, events, touched, edited, asked, adrift>>
      /\ approved \subseteq approved'
  BY DEF Takes, Create, LookUp, Hear, DeleteRead, table, marks, metaSide
<1>t. ASSUME NEW step \in {"insert", "update", "deleteMeta", "removeOnly"},
             NEW i \in Id \cup {None}, NEW r, Take(p, step, i, r)
      PROVE  /\ \A q \in Proc \ {p} : at'[q] = at[q] /\ hand'[q] = hand[q]
             /\ at'[p] = step /\ hand'[p].id = i /\ hand'[p].row = r
  BY <1>0, <1>t DEF Take, TypeOK
<1>1. CASE \E k \in Key, w \in MetaId, s \in Status : Create(p, k, w, s)
  <2>1. PICK r : Take(p, "insert", None, r) BY <1>1 DEF Create
  <2> QED BY <1>u, <1>t, <2>1
<1>2. ASSUME NEW m \in listed[p], LookUp(p, m)
      PROVE  /\ \A q \in Proc \ {p} : at'[q] = at[q] /\ hand'[q] = hand[q]
             /\ at'[p] \in {"insert", "update", "deleteMeta", "removeOnly"}
             /\ at'[p] = "update" =>
                  \E i \in ids : /\ hand'[p].id = i /\ rows[i].name # None
                                 /\ Same(rows[i], hand'[p].row)
  <2>1. CASE \E i \in RowsOf(m.key) : Take(p, "update", i, Refreshed(rows[i], m))
    <3>1. PICK i \in RowsOf(m.key) : Take(p, "update", i, Refreshed(rows[i], m)) BY <2>1
    <3>2. i \in ids /\ i \in Id /\ KeyOf(rows[i]) = m.key /\ m.key \in Key
      BY <1>0 DEF RowsOf, TypeOK, Entry
    <3>3. Same(rows[i], Refreshed(rows[i], m))
      BY <1>n, <3>2 DEF Same, Refreshed, KeyOf, Row
    <3> QED BY <1>t, <1>n, <1>k, <3>1, <3>2, <3>3
  <2>2. CASE Take(p, "insert", None, Imported(m)) BY <1>t, <2>2
  <2> QED BY <1>2, <2>1, <2>2 DEF LookUp
<1>3. ASSUME NEW e \in events, Hear(p, e)
      PROVE  /\ \A q \in Proc \ {p} : at'[q] = at[q] /\ hand'[q] = hand[q]
             /\ at'[p] \in {"insert", "update", "deleteMeta", "removeOnly"}
             /\ at'[p] = "update" =>
                  \E i \in ids : /\ hand'[p].id = i /\ rows[i].name # None
                                 /\ Same(rows[i], hand'[p].row)
  <2>1. PICK i \in RowsOf(e.key), w \in {0, e.id} :
          Take(p, "update", i, Told(rows[i], e, w))
    BY <1>3 DEF Hear
  <2>2. i \in ids /\ i \in Id /\ KeyOf(rows[i]) = e.key /\ e.key \in Key
    BY <1>0 DEF RowsOf, TypeOK, Entry
  <2>3. Same(rows[i], Told(rows[i], e, w))
    BY <1>n, <2>2 DEF Same, Told, KeyOf, Row
  <2> QED BY <1>t, <1>n, <1>k, <2>1, <2>2, <2>3
<1>4. CASE \E i \in Id : DeleteRead(p, i)
  <2>1. PICK i \in Id : DeleteRead(p, i) BY <1>4
  <2>2. PICK r : Take(p, "removeOnly", i, r) \/ Take(p, "deleteMeta", i, r)
    BY <2>1 DEF DeleteRead
  <2>3. CASE Take(p, "removeOnly", i, r) BY <1>u, <1>t, <2>3
  <2>4. CASE Take(p, "deleteMeta", i, r) BY <1>u, <1>t, <2>4
  <2> QED BY <2>2, <2>3, <2>4
<1> QED BY <1>u, <1>1, <1>2, <1>3, <1>4 DEF Takes

(* What a process that writes leaves alone. *)
LEMMA WritesLeave ==
  ASSUME TypeInv, NEW p \in Proc, Writes(p)
  PROVE  /\ UNCHANGED <<live, events, issued, approved, listed, pending, edited>>
         /\ asked \subseteq asked'
         /\ at'[p] \in {"each", "check", "idle"}
         /\ \A q \in Proc \ {p} : at'[q] = at[q] /\ hand'[q] = hand[q]
         /\ touched' = touched \ {p}
<1>1. /\ Onward(p) /\ UNCHANGED <<live, events, issued, approved, listed, pending, edited>>
      /\ asked \subseteq asked'
  BY DEF Writes, Insert, InsertRefused, InsertFails, Update, UpdateRefused,
         UpdateFails, StoreStatus, Remove, metaSide
<1>2. touched' = touched \ {p} BY <1>1 DEF Onward
<1> QED BY <1>1, <1>2, OnwardFacts DEF TypeInv

(* What the other steps leave alone. *)
LEMMA OthersLeave ==
  ASSUME TypeInv, NEW p \in Proc, Others(p)
  PROVE  /\ UNCHANGED <<ids, rows, used, events, issued, approved, edited, asked>>
         /\ live' \subseteq live
         /\ at'[p] \notin {"insert", "update", "deleteMeta"}
         /\ \A q \in Proc \ {p} : at'[q] = at[q] /\ hand'[q] = hand[q]
         /\ \A q \in touched : q \in touched' \/ q = p
<1>0. TypeOK BY DEF TypeInv
<1>1. /\ UNCHANGED <<ids, rows, used, events, issued, approved, edited, asked>>
      /\ live' \subseteq live
  BY DEF Others, ListTemplates, ListPending, Check, DeleteMeta, DeleteMetaFails,
         Abandon, metaSide, table, marks
<1>2. /\ at'[p] \notin {"insert", "update", "deleteMeta"}
      /\ \A q \in Proc \ {p} : at'[q] = at[q] /\ hand'[q] = hand[q]
  BY <1>0 DEF Others, ListTemplates, ListPending, Check, DeleteMeta, DeleteMetaFails,
              Abandon, memory, Take, TypeOK
<1>3. \A q \in touched : q \in touched' \/ q = p
  BY DEF Others, ListTemplates, ListPending, Check, DeleteMeta, DeleteMetaFails,
         Abandon, marks
<1> QED BY <1>1, <1>2, <1>3

(* What becomes of the rows when one is written: one is new, one is written  *)
(* over by a copy, one has its status stored, one is gone, or none changes.  *)
LEMMA WritesRows ==
  ASSUME TypeInv, NEW p \in Proc, Writes(p)
  PROVE  \/ /\ at[p] = "insert"
            /\ \E i \in Id \ used : /\ ids' = ids \cup {i}
                                    /\ rows'[i] = hand[p].row
                                    /\ \A j \in ids : rows'[j] = rows[j]
         \/ /\ at[p] = "update" /\ hand[p].id \in ids /\ ids' = ids
            /\ rows'[hand[p].id] = hand[p].row
            /\ \A j \in ids \ {hand[p].id} : rows'[j] = rows[j]
         \/ /\ at[p] = "status" /\ ids' = ids
            /\ \A j \in ids : Same(rows[j], rows'[j]) /\ rows'[j].name = rows[j].name
            /\ hand[p].id \in ids =>
                 /\ rows'[hand[p].id].verified <=> hand[p].row.status = "APPROVED"
                 /\ hand[p].id \in asked'
            /\ \A j \in ids \ {hand[p].id} : rows'[j] = rows[j]
         \/ /\ at[p] \in {"remove", "removeOnly"}
            /\ ids' = ids \ {hand[p].id} /\ \A j \in ids' : rows'[j] = rows[j]
         \/ UNCHANGED <<ids, rows>>
<1>0. TypeOK BY DEF TypeInv
<1>r. rows \in [Id -> Row] /\ ids \subseteq used /\ used \subseteq Id BY <1>0 DEF TypeOK
<1>1. CASE \E i \in Id : Insert(p, i) BY <1>r, <1>1 DEF Insert
<1>2. CASE InsertRefused(p) \/ InsertFails(p) \/ UpdateRefused(p) \/ UpdateFails(p)
  BY <1>2 DEF InsertRefused, InsertFails, UpdateRefused, UpdateFails, table
<1>3. CASE Update(p) BY <1>r, <1>3 DEF Update
<1>4. CASE StoreStatus(p)
  <2> DEFINE i == hand[p].id
             s == hand[p].row.status
  <2>1. ids' = ids /\ at[p] = "status" /\ (i \in ids => i \in asked')
    BY <1>4 DEF StoreStatus
  <2>2. CASE i \notin ids
    <3>1. rows' = rows BY <1>4, <2>2 DEF StoreStatus
    <3> QED BY <2>1, <3>1
  <2>3. CASE i \in ids
    <3> DEFINE v == s = "APPROVED"
    <3>1. rows' = [rows EXCEPT ![i].status = s, ![i].verified = v]
      BY <1>4, <2>3 DEF StoreStatus
    <3>2. v \in BOOLEAN /\ i \in Id /\ rows[i] \in Row BY <1>r, <2>3
    <3> HIDE DEF v, s, i
    <3>3. /\ rows'[i].verified <=> v
          /\ rows'[i].name = rows[i].name /\ rows'[i].lang = rows[i].lang
          /\ rows'[i].text = rows[i].text
      BY <1>r, <3>1, <3>2 DEF Row
    <3>4. \A j \in ids \ {i} : rows'[j] = rows[j] BY <1>r, <3>1, <3>2
    <3>5. \A j \in ids : Same(rows[j], rows'[j]) /\ rows'[j].name = rows[j].name
      BY <3>3, <3>4 DEF Same, KeyOf
    <3> QED BY <2>1, <3>3, <3>4, <3>5 DEF i, v, s
  <2> QED BY <2>2, <2>3
<1>5. CASE Remove(p) BY <1>r, <1>5 DEF Remove
<1> QED BY <1>1, <1>2, <1>3, <1>4, <1>5 DEF Writes

LEMMA CopiesStep ==
  ASSUME TypeInv, TypeInv', Copies, [Next]_vars
  PROVE  Copies'
<1>0. TypeOK /\ Memory BY DEF TypeInv
<1>r. rows \in [Id -> Row] /\ ids \subseteq used /\ used \subseteq Id BY <1>0 DEF TypeOK
<1>1. CASE UNCHANGED vars
  BY <1>1 DEF Copies, Writing, vars, table, memory, marks
<1>2. CASE AtMeta
  <2>1. UNCHANGED <<ids, rows, at, hand, touched>>
    BY <1>2 DEF AtMeta, MakeAtMeta, DeleteAtMeta, Decide, table, memory, marks
  <2> QED BY <2>1 DEF Copies, Writing
<1>3. ASSUME NEW i \in Id, NEW g \in Given, Edit(i, Edited(g)) PROVE Copies'
  <2>1. UNCHANGED <<ids, at, hand>>
        /\ touched' = touched \cup {p \in Proc : hand[p].id = i}
    BY <1>3 DEF Edit, memory
  <2>2. \A j \in ids : rows'[j] = IF j = i THEN Edited(g) ELSE rows[j]
    BY <1>r, <1>3 DEF Edit
  <2>3. Edited(g).name = None BY DEF Edited
  <2> QED BY <2>1, <2>2, <2>3 DEF Copies, Writing
<1>4. ASSUME NEW p \in Proc, Takes(p) PROVE Copies'
  <2>1. /\ UNCHANGED <<ids, rows, touched>>
        /\ \A q \in Proc \ {p} : at'[q] = at[q] /\ hand'[q] = hand[q]
        /\ at'[p] = "update" =>
              \E i \in ids : /\ hand'[p].id = i /\ rows[i].name # None
                             /\ Same(rows[i], hand'[p].row)
    BY <1>4, TakesHold
  <2>2. \A q \in Proc : \A i \in Id : Writing(q, i)' =>
          \/ Writing(q, i) /\ hand'[q] = hand[q]
          \/ i \in ids /\ rows[i].name # None /\ Same(rows[i], hand'[q].row)
    BY <2>1 DEF Writing
  <2>3. \A q \in Proc : \A i \in ids :
          Writing(q, i) /\ rows[i].name # None => Same(rows[i], hand[q].row)
    BY DEF Copies
  <2>4. \A q, s \in Proc : \A i \in Id :
          Writing(q, i) /\ Writing(s, i) => Same(hand[q].row, hand[s].row)
    BY DEF Copies
  <2>5. \A q \in Proc : \A i \in ids :
          Writing(q, i) /\ rows[i].name = None => q \in touched
    BY DEF Copies
  <2>6. \A q, s \in Proc : \A i \in Id :
          (Writing(q, i) /\ Writing(s, i) => Same(hand[q].row, hand[s].row))'
    BY <2>2, <2>3, <2>4 DEF Same
  <2>7. \A q \in Proc : \A i \in ids :
          (Writing(q, i) /\ rows[i].name # None => Same(rows[i], hand[q].row))'
    BY <1>r, <2>1, <2>2, <2>3
  <2>8. \A q \in Proc : \A i \in ids :
          (Writing(q, i) /\ rows[i].name = None => q \in touched)'
    BY <1>r, <2>1, <2>2, <2>5
  <2> QED BY <2>1, <2>6, <2>7, <2>8 DEF Copies
<1>5. ASSUME NEW p \in Proc, Writes(p) PROVE Copies'
  <2>1. /\ at'[p] \in {"each", "check", "idle"}
        /\ \A q \in Proc \ {p} : at'[q] = at[q] /\ hand'[q] = hand[q]
        /\ touched' = touched \ {p}
    BY <1>5, WritesLeave
  <2>2. \A q \in Proc : \A i \in Id : Writing(q, i)' =>
          q # p /\ Writing(q, i) /\ hand'[q] = hand[q] /\ i \in used
    BY <1>0, <2>1 DEF Writing, Memory
  <2>3. ASSUME NEW q \in Proc, NEW i \in ids', Writing(q, i)'
        PROVE  /\ rows'[i].name # None => Same(rows'[i], hand'[q].row)
               /\ rows'[i].name = None => q \in touched'
    <3>0. i \in Id BY <1>r, <2>3 DEF TypeInv, TypeOK
    <3>1. q # p /\ Writing(q, i) /\ hand'[q] = hand[q] /\ i \in used
      BY <2>2, <2>3, <3>0
    <3>2. i \in ids BY <1>5, <3>1, WritesRows
    <3>3. /\ rows[i].name # None => Same(rows[i], hand[q].row)
          /\ rows[i].name = None => q \in touched
      BY <3>1, <3>2 DEF Copies
    <3>4. CASE /\ at[p] = "update" /\ hand[p].id = i /\ rows'[i] = hand[p].row
      <4>1. KeyOf(hand[p].row) \in Key /\ hand[p].row \in Row
        BY <1>0, <3>4 DEF Memory, TypeOK, Held
      <4>2. hand[p].row.name # None BY <4>1, KeysHaveNames
      <4>3. Same(hand[p].row, hand[q].row) BY <3>0, <3>1, <3>4 DEF Copies, Writing
      <4> QED BY <3>1, <3>4, <4>2, <4>3
    <3>5. CASE Same(rows[i], rows'[i]) /\ rows'[i].name = rows[i].name
      BY <2>1, <3>1, <3>3, <3>5 DEF Same
    <3>6. \/ /\ at[p] = "update" /\ hand[p].id = i /\ rows'[i] = hand[p].row
          \/ Same(rows[i], rows'[i]) /\ rows'[i].name = rows[i].name
      BY <1>5, <3>2, WritesRows DEF Same
    <3> QED BY <3>4, <3>5, <3>6
  <2>4. \A q, s \in Proc : \A i \in Id :
          (Writing(q, i) /\ Writing(s, i) => Same(hand[q].row, hand[s].row))'
    BY <2>2 DEF Copies
  <2> QED BY <2>3, <2>4 DEF Copies
<1>6. ASSUME NEW p \in Proc, Others(p) PROVE Copies'
  <2>1. /\ UNCHANGED <<ids, rows>>
        /\ at'[p] # "update"
        /\ \A q \in Proc \ {p} : at'[q] = at[q] /\ hand'[q] = hand[q]
        /\ \A q \in touched : q \in touched' \/ q = p
    BY <1>6, OthersLeave
  <2>2. \A q \in Proc : \A i \in Id :
          Writing(q, i)' => q # p /\ Writing(q, i) /\ hand'[q] = hand[q]
    BY <2>1 DEF Writing
  <2> QED BY <1>r, <2>1, <2>2 DEF Copies
<1> QED BY <1>1, <1>2, <1>3, <1>4, <1>5, <1>6, Kinds

LEMMA CopiesAlways == Spec => [](TypeInv /\ Identity /\ Copies)
<1>1. Init => Identity /\ Copies BY DEF Init, Identity, Copies, Writing
<1>2. TypeInv /\ TypeInv' /\ Identity /\ [Next]_vars => Identity' BY IdentityStep
<1>3. TypeInv /\ TypeInv' /\ Copies /\ [Next]_vars => Copies' BY CopiesStep
<1> QED BY <1>1, <1>2, <1>3, TypeInit, TypeStep, PTL DEF Spec

(* A step undoes an edit only if it was taken on a copy older than the edit. *)
LEMMA EditsStep ==
  ASSUME TypeInv, Copies, [Next]_vars, NEW i \in ids \cap ids',
         rows'[i].text # rows[i].text
  PROVE  \/ texts' = texts + 1
         \/ \E p \in touched : at[p] = "update" /\ hand[p].id = i
<1>1. rows' # rows OBVIOUS
<1>2. CASE UNCHANGED vars BY <1>1, <1>2 DEF vars, table
<1>3. CASE AtMeta
  BY <1>1, <1>3 DEF AtMeta, MakeAtMeta, DeleteAtMeta, Decide, table
<1>4. CASE \E j \in Id, g \in Given : Edit(j, Edited(g)) BY <1>4 DEF Edit
<1>5. CASE \E p \in Proc : Takes(p) BY <1>1, <1>5, TakesHold
<1>6. ASSUME NEW p \in Proc, Writes(p)
      PROVE  \E q \in touched : at[q] = "update" /\ hand[q].id = i
  <2>1. /\ at[p] = "update" /\ hand[p].id = i
        /\ rows'[i] = hand[p].row
    BY <1>6, WritesRows DEF Same, TypeInv, TypeOK
  <2>2. ~ Same(rows[i], hand[p].row) BY <2>1 DEF Same
  <2>3. p \in touched BY <2>1, <2>2 DEF Copies, Writing
  <2> QED BY <2>1, <2>3
<1>7. CASE \E p \in Proc : Others(p) BY <1>1, <1>7, OthersLeave
<1> QED BY <1>2, <1>3, <1>4, <1>5, <1>6, <1>7, Kinds

(* Synchronisations and events keep a row's text; an edit is undone only by  *)
(* one that had read the row before it and writes it back after it.          *)
THEOREM EditsAreKept == Spec => EditsKept
<1> DEFINE Kept == \A i \in ids \cap ids' :
                     rows'[i].text # rows[i].text =>
                       \/ texts' = texts + 1
                       \/ \E p \in touched : at[p] = "update" /\ hand[p].id = i
<1>1. TypeInv /\ Identity /\ Copies /\ [Next]_vars => [Kept]_table
  <2>1. TypeInv /\ Copies /\ [Next]_vars => Kept BY EditsStep
  <2> QED BY <2>1
<1>2. Spec => [][Kept]_table BY <1>1, CopiesAlways, PTL DEF Spec
<1> QED BY <1>2 DEF EditsKept

-----------------------------------------------------------------------------
(* Verified rows *)

ByName(n) == \E k \in approved : k[1] = n

(* What says that a template is approved comes from an approval: Meta's      *)
(* entries, wherever they are, carry its key, and what is read or held from  *)
(* them its key or, if it was asked for by the name, its name, unless the    *)
(* row has been edited by hand.                                              *)
Approvals ==
  /\ \A m \in live \cup events : m.status = "APPROVED" => m.key \in approved
  /\ \A p \in Proc : \A m \in listed[p] : m.status = "APPROVED" => m.key \in approved

Vouches(i, r) == \/ KeyOf(r) \in approved
                 \/ i \in asked /\ ByName(r.name)
                 \/ i \in edited

RowsVerified ==
  /\ \A i \in ids : rows[i].name = None => i \in edited
  /\ \A i \in ids : rows[i].verified => Vouches(i, rows[i])

HandVouched(p) ==
  /\ at[p] = "insert" /\ hand[p].row.verified => KeyOf(hand[p].row) \in approved
  /\ at[p] = "update" /\ hand[p].row.verified => Vouches(hand[p].id, hand[p].row)

Vouched(p) ==
  /\ HandVouched(p)
  /\ at[p] = "status" /\ hand[p].row.status = "APPROVED" /\ hand[p].id \in ids =>
       hand[p].id \in edited \/ ByName(rows[hand[p].id].name)
  /\ \A h \in pending[p] : h.id \in ids \ edited => h.row.name = rows[h.id].name

Vouching == \A p \in Proc : Vouched(p)

Verified == Approvals /\ RowsVerified /\ Vouching

(* Approvals, edits and questions are never forgotten. *)
LEMMA HistoryGrows ==
  ASSUME TypeInv, [Next]_vars
  PROVE  /\ approved \subseteq approved' /\ edited \subseteq edited'
         /\ asked \subseteq asked'
         /\ \A n : ByName(n) => ByName(n)'
<1>1. /\ approved \subseteq approved' /\ edited \subseteq edited'
      /\ asked \subseteq asked'
  <2>1. CASE UNCHANGED vars BY <2>1 DEF vars, metaSide, marks
  <2>2. CASE AtMeta BY <2>2 DEF AtMeta, MakeAtMeta, DeleteAtMeta, Decide, marks
  <2>3. CASE \E i \in Id, g \in Given : Edit(i, Edited(g)) BY <2>3 DEF Edit, metaSide
  <2>4. CASE \E p \in Proc : Takes(p) BY <2>4, TakesHold
  <2>5. CASE \E p \in Proc : Writes(p) BY <2>5, WritesLeave
  <2>6. CASE \E p \in Proc : Others(p) BY <2>6, OthersLeave
  <2> QED BY <2>1, <2>2, <2>3, <2>4, <2>5, <2>6, Kinds
<1> QED BY <1>1 DEF ByName

LEMMA ApprovalsStep ==
  ASSUME TypeInv, Approvals, [Next]_vars
  PROVE  Approvals'
<1>0. TypeOK BY DEF TypeInv
<1>g. approved \subseteq approved' BY HistoryGrows
<1>k. ASSUME live' \cup events' \subseteq live \cup events
               \cup {m \in Entry : m.status = "APPROVED" => m.key \in approved'},
             \A p \in Proc : listed'[p] \subseteq listed[p] \cup live
      PROVE  Approvals'
  BY <1>g, <1>k DEF Approvals
<1>m. ASSUME NEW k \in Key, NEW w \in MetaId, NEW s \in Status, Make(k, w, s),
             UNCHANGED events, s = "APPROVED" => k \in approved'
      PROVE  live' \cup events' \subseteq live \cup events
               \cup {m \in Entry : m.status = "APPROVED" => m.key \in approved'}
  <2> DEFINE n == [key |-> k, id |-> w, status |-> s]
  <2>1. n \in Entry /\ n.status = s /\ n.key = k BY DEF Entry
  <2>2. live' = live \cup {n} BY <1>m DEF Make
  <2> HIDE DEF n
  <2> QED BY <1>m, <2>1, <2>2
<1>1. CASE UNCHANGED vars BY <1>1, <1>k DEF vars, metaSide, memory
<1>2. CASE AtMeta
  <2>0. UNCHANGED listed
    BY <1>2 DEF AtMeta, MakeAtMeta, DeleteAtMeta, Decide, memory
  <2>1. CASE \E k \in Key, w \in MetaId : MakeAtMeta(k, w)
    BY <2>0, <2>1, <1>k, <1>m DEF MakeAtMeta, Status
  <2>2. CASE \E n \in Name : DeleteAtMeta(n) BY <2>0, <2>2, <1>k DEF DeleteAtMeta
  <2>3. ASSUME NEW m \in live, NEW s \in Status, Decide(m, s) PROVE Approvals'
    <3> DEFINE n == [m EXCEPT !.status = s]
    <3>1. m \in Entry BY <1>0 DEF TypeOK
    <3>2. n \in Entry /\ n.status = s /\ n.key = m.key BY <3>1 DEF Entry
    <3>3. /\ live' \subseteq live \cup {n} /\ events' = events \cup {n}
          /\ approved' = IF s = "APPROVED" THEN approved \cup {m.key} ELSE approved
      BY <2>3 DEF Decide
    <3> HIDE DEF n
    <3> QED BY <1>k, <2>0, <3>2, <3>3
  <2> QED BY <1>2, <2>1, <2>2, <2>3 DEF AtMeta
<1>3. CASE \E i \in Id, g \in Given : Edit(i, Edited(g))
  BY <1>3, <1>k DEF Edit, metaSide, memory
<1>4. ASSUME NEW p \in Proc, Takes(p) PROVE Approvals'
  <2>1. CASE \E k \in Key, w \in MetaId, s \in Status : Create(p, k, w, s)
    BY <2>1, <1>k, <1>m DEF Create
  <2>2. CASE \E m \in listed[p] : LookUp(p, m)
    BY <1>0, <2>2, <1>k DEF LookUp, metaSide, TypeOK
  <2>3. CASE (\E e \in events : Hear(p, e)) \/ (\E i \in Id : DeleteRead(p, i))
    BY <2>3, <1>k DEF Hear, DeleteRead, metaSide
  <2> QED BY <1>4, <2>1, <2>2, <2>3 DEF Takes
<1>5. CASE \E p \in Proc : Writes(p) BY <1>5, <1>k, WritesLeave
<1>6. ASSUME NEW p \in Proc, Others(p) PROVE Approvals'
  <2>1. live' \subseteq live /\ events' = events BY <1>6, OthersLeave
  <2>2. \A q \in Proc : listed'[q] \subseteq listed[q] \cup live
    BY <1>0, <1>6 DEF Others, ListTemplates, ListPending, Check, DeleteMeta,
                      DeleteMetaFails, Abandon, memory, TypeOK
  <2> QED BY <1>k, <2>1, <2>2
<1> QED BY <1>1, <1>2, <1>3, <1>4, <1>5, <1>6, Kinds

LEMMA RowsVerifiedStep ==
  ASSUME TypeInv, Copies, Verified, [Next]_vars
  PROVE  RowsVerified'
<1>0. TypeOK /\ Memory BY DEF TypeInv
<1>r. rows \in [Id -> Row] /\ ids \subseteq used /\ used \subseteq Id BY <1>0 DEF TypeOK
<1>g. /\ approved \subseteq approved' /\ edited \subseteq edited'
      /\ asked \subseteq asked' /\ \A n : ByName(n) => ByName(n)'
  BY HistoryGrows
<1>k. ASSUME NEW i \in ids, rows'[i] = rows[i]
      PROVE  /\ rows'[i].name = None => i \in edited'
             /\ (rows[i].verified => Vouches(i, rows[i]))'
  <2>1. /\ rows[i].name = None => i \in edited
        /\ rows[i].verified => Vouches(i, rows[i])
    BY DEF Verified, RowsVerified
  <2> QED BY <1>g, <1>k, <2>1 DEF Vouches, KeyOf, ByName
<1>u. ASSUME UNCHANGED <<ids, rows>> PROVE RowsVerified'
  BY <1>u, <1>k DEF RowsVerified
<1>1. CASE UNCHANGED vars BY <1>1, <1>u DEF vars, table
<1>2. CASE AtMeta BY <1>2, <1>u DEF AtMeta, MakeAtMeta, DeleteAtMeta, Decide, table
<1>3. ASSUME NEW i \in Id, NEW g \in Given, Edit(i, Edited(g)) PROVE RowsVerified'
  <2>1. ids' = ids /\ i \in edited' /\ \A j \in ids \ {i} : rows'[j] = rows[j]
    BY <1>r, <1>3 DEF Edit
  <2> QED BY <1>k, <2>1 DEF RowsVerified, Vouches
<1>4. CASE \E p \in Proc : Takes(p) BY <1>4, <1>u, TakesHold
<1>5. ASSUME NEW p \in Proc, Writes(p) PROVE RowsVerified'
  <2>h. at[p] \in {"insert", "update"} => hand[p].row.name # None
    BY <1>0, KeysHaveNames DEF Memory, TypeOK, Held
  <2>v. Vouched(p) BY DEF Verified, Vouching
  <2> SUFFICES ASSUME NEW i \in ids'
               PROVE  /\ rows'[i].name = None => i \in edited'
                      /\ (rows[i].verified => Vouches(i, rows[i]))'
    BY DEF RowsVerified
  <2>1. CASE i \notin ids
    <3>1. at[p] = "insert" /\ rows'[i] = hand[p].row BY <1>5, <2>1, WritesRows
    <3> QED BY <1>g, <2>h, <2>v, <3>1 DEF Vouched, HandVouched, Vouches, KeyOf
  <2>2. CASE i \in ids /\ at[p] = "update" /\ i = hand[p].id /\ rows'[i] = hand[p].row
    BY <1>g, <2>h, <2>v, <2>2 DEF Vouched, HandVouched, Vouches, KeyOf, ByName
  <2>3. CASE i \in ids /\ at[p] = "status" /\ i = hand[p].id /\ rows'[i].name = rows[i].name
             /\ (rows'[i].verified <=> hand[p].row.status = "APPROVED")
             /\ i \in asked'
    <3>1. rows'[i].name = None => i \in edited' BY <1>g, <2>3 DEF Verified, RowsVerified
    <3>2. hand[p].row.status = "APPROVED" => i \in edited \/ ByName(rows[i].name)
      BY <2>v, <2>3 DEF Vouched
    <3>3. rows'[i].verified => i \in edited' \/ (\E k \in approved' : k[1] = rows'[i].name)
      BY <1>g, <2>3, <3>2 DEF ByName
    <3> QED BY <2>3, <3>1, <3>3 DEF Vouches, ByName
  <2>4. CASE i \in ids /\ rows'[i] = rows[i] BY <1>k, <2>4
  <2>5. \/ i \notin ids
        \/ i \in ids /\ at[p] = "update" /\ i = hand[p].id /\ rows'[i] = hand[p].row
        \/ i \in ids /\ at[p] = "status" /\ i = hand[p].id /\ rows'[i].name = rows[i].name
             /\ (rows'[i].verified <=> hand[p].row.status = "APPROVED")
             /\ i \in asked'
        \/ i \in ids /\ rows'[i] = rows[i]
    BY <1>5, WritesRows
  <2> QED BY <2>1, <2>2, <2>3, <2>4, <2>5
<1>6. CASE \E p \in Proc : Others(p) BY <1>6, <1>u, OthersLeave
<1> QED BY <1>1, <1>2, <1>3, <1>4, <1>5, <1>6, Kinds

(* A row that nobody has edited keeps its name. *)
LEMMA NamesStay ==
  ASSUME TypeInv, Copies, RowsVerified, NEW p \in Proc, Writes(p),
         NEW i \in used, i \in ids', i \notin edited
  PROVE  i \in ids /\ rows'[i].name = rows[i].name
<1>0. TypeOK /\ Memory BY DEF TypeInv
<1>1. i \in Id /\ rows[i] \in Row BY <1>0 DEF TypeOK
<1>2. i \in ids BY WritesRows
<1>3. rows[i].name # None BY <1>2 DEF RowsVerified
<1>4. CASE at[p] = "update" /\ hand[p].id = i /\ rows'[i] = hand[p].row
  <2>1. Same(rows[i], hand[p].row) BY <1>2, <1>3, <1>4 DEF Copies, Writing
  <2> QED BY <1>2, <1>4, <2>1 DEF Same, KeyOf
<1>5. \/ at[p] = "update" /\ hand[p].id = i /\ rows'[i] = hand[p].row
      \/ rows'[i].name = rows[i].name
  BY <1>2, WritesRows
<1> QED BY <1>2, <1>4, <1>5

LEMMA VouchingStep ==
  ASSUME TypeInv, TypeInv', Copies, Verified, [Next]_vars
  PROVE  Vouching'
<1>0. TypeOK /\ Memory BY DEF TypeInv
<1>r. rows \in [Id -> Row] /\ ids \subseteq used /\ used \subseteq Id BY <1>0 DEF TypeOK
<1>v. Approvals /\ RowsVerified /\ \A p \in Proc : Vouched(p) BY DEF Verified, Vouching
<1>g. /\ approved \subseteq approved' /\ edited \subseteq edited'
      /\ asked \subseteq asked' /\ \A n : ByName(n) => ByName(n)'
  BY HistoryGrows
<1>h. ASSUME NEW q \in Proc, UNCHANGED <<at[q], hand[q]>> PROVE HandVouched(q)'
  <2>1. HandVouched(q) BY <1>v DEF Vouched
  <2> QED BY <1>g, <1>h, <2>1 DEF HandVouched, Vouches, KeyOf, ByName
<1>k. ASSUME NEW q \in Proc, UNCHANGED <<at[q], hand[q]>>, pending'[q] \subseteq pending[q],
             \A i \in used : i \in ids' /\ i \notin edited' =>
               i \in ids /\ rows'[i].name = rows[i].name
      PROVE  Vouched(q)'
  <2>1. Vouched(q) BY <1>v
  <2>2. HandVouched(q)' BY <1>h, <1>k
  <2>3. (at[q] = "status" /\ hand[q].row.status = "APPROVED" /\ hand[q].id \in ids =>
           hand[q].id \in edited \/ ByName(rows[hand[q].id].name))'
    <3>1. at[q] = "status" => hand[q].id \in used BY <1>0 DEF Memory
    <3>2. at[q] = "status" /\ hand[q].row.status = "APPROVED" /\ hand[q].id \in ids =>
           hand[q].id \in edited \/ ByName(rows[hand[q].id].name)
      BY <2>1 DEF Vouched
    <3> QED BY <1>g, <1>k, <3>1, <3>2
  <2>4. \A h \in pending'[q] : h.id \in ids' \ edited' => h.row.name = rows'[h.id].name
    <3>1. \A h \in pending'[q] : h.id \in used BY <1>0, <1>k DEF Memory
    <3> QED BY <1>g, <1>k, <2>1, <3>1 DEF Vouched
  <2> QED BY <2>2, <2>3, <2>4 DEF Vouched
<1>u. ASSUME UNCHANGED <<ids, rows, at, hand, pending>> PROVE Vouching'
  BY <1>u, <1>k DEF Vouching
<1>1. CASE UNCHANGED vars BY <1>1, <1>u DEF vars, table, memory
<1>2. CASE AtMeta
  BY <1>2, <1>u DEF AtMeta, MakeAtMeta, DeleteAtMeta, Decide, table, memory
<1>3. ASSUME NEW i \in Id, NEW g \in Given, Edit(i, Edited(g)) PROVE Vouching'
  <2>1. ids' = ids /\ i \in edited' /\ \A j \in ids \ {i} : rows'[j] = rows[j]
    BY <1>r, <1>3 DEF Edit
  <2>2. UNCHANGED <<at, hand, pending>> BY <1>3 DEF Edit, memory
  <2> QED BY <1>k, <2>1, <2>2 DEF Vouching
<1>4. ASSUME NEW p \in Proc, Takes(p) PROVE Vouching'
  <2>1. /\ UNCHANGED <<ids, rows, pending, edited>>
        /\ \A q \in Proc \ {p} : at'[q] = at[q] /\ hand'[q] = hand[q]
        /\ at'[p] \in {"insert", "update", "deleteMeta", "removeOnly"}
    BY <1>4, TakesHold
  <2>2. \A q \in Proc \ {p} : Vouched(q)' BY <1>k, <2>1
  <2>t. \A step, i, r : Take(p, step, i, r) =>
          at'[p] = step /\ hand'[p].id = i /\ hand'[p].row = r
    BY <1>0 DEF Take, TypeOK
  <2>a. \A m \in Entry : m \in events \cup listed[p] /\ m.status = "APPROVED" =>
          m.key \in approved
    BY <1>v DEF Approvals
  <2>3. HandVouched(p)'
    <3>i. ASSUME NEW r, at'[p] = "insert", hand'[p].row = r,
                 r.verified => KeyOf(r) \in approved'
          PROVE  HandVouched(p)'
      BY <3>i DEF HandVouched, KeyOf
    <3>u. ASSUME NEW r, NEW i, at'[p] = "update", hand'[p].id = i, hand'[p].row = r,
                 r.verified => Vouches(i, r)
          PROVE  HandVouched(p)'
      <4>1. r.verified => \/ KeyOf(r) \in approved'
                          \/ i \in asked' /\ ByName(r.name)'
                          \/ i \in edited'
        BY <1>g, <3>u DEF Vouches
      <4> QED BY <3>u, <4>1 DEF HandVouched, Vouches, KeyOf, ByName
    <3>1. CASE \E k \in Key, w \in MetaId, s \in Status : Create(p, k, w, s)
      <4>1. PICK k \in Key, w \in MetaId, s \in Status : Create(p, k, w, s) BY <3>1
      <4> DEFINE r == Created(k, w, s)
      <4>2. Take(p, "insert", None, r) /\ (s = "APPROVED" => k \in approved')
        BY <4>1 DEF Create
      <4>3. (r.verified => s = "APPROVED") /\ KeyOf(r) = k
        <5>1. r.verified => s = "APPROVED" BY DEF Created
        <5>2. KeyOf(r) = k BY DEF Created, KeyOf, Key
        <5> QED BY <5>1, <5>2
      <4> HIDE DEF r
      <4>4. at'[p] = "insert" /\ hand'[p].row = r BY <2>t, <4>2
      <4> QED BY <3>i, <4>2, <4>3, <4>4
    <3>2. ASSUME NEW m \in listed[p], LookUp(p, m)
          PROVE  HandVouched(p)'
      <4>1. m \in Entry BY <1>0 DEF TypeOK
      <4>2. CASE \E i \in RowsOf(m.key) : Take(p, "update", i, Refreshed(rows[i], m))
        <5>1. PICK i \in RowsOf(m.key) : Take(p, "update", i, Refreshed(rows[i], m))
          BY <4>2
        <5>2. i \in Id /\ rows[i] \in Row /\ KeyOf(rows[i]) = m.key
          BY <1>r DEF RowsOf
        <5>3. /\ Refreshed(rows[i], m).verified => m.status = "APPROVED"
              /\ KeyOf(Refreshed(rows[i], m)) = m.key
          BY <5>2 DEF Refreshed, Row, KeyOf
        <5>4. Refreshed(rows[i], m).verified => Vouches(i, Refreshed(rows[i], m))
          BY <2>a, <4>1, <5>3 DEF Vouches
        <5>5. /\ at'[p] = "update" /\ hand'[p].id = i
              /\ hand'[p].row = Refreshed(rows[i], m)
          BY <2>t, <5>1
        <5> QED BY <3>u, <5>4, <5>5
      <4>3. CASE Take(p, "insert", None, Imported(m))
        <5>1. /\ Imported(m).verified => m.status = "APPROVED"
              /\ KeyOf(Imported(m)) = m.key
          <6>1. Imported(m).verified => m.status = "APPROVED" BY DEF Imported
          <6>2. KeyOf(Imported(m)) = m.key BY <4>1 DEF Imported, KeyOf, Entry, Key
          <6> QED BY <6>1, <6>2
        <5>2. Imported(m).verified => KeyOf(Imported(m)) \in approved'
          BY <1>g, <2>a, <4>1, <5>1
        <5>3. at'[p] = "insert" /\ hand'[p].row = Imported(m) BY <2>t, <4>3
        <5> QED BY <3>i, <5>2, <5>3
      <4> QED BY <3>2, <4>2, <4>3 DEF LookUp
    <3>3. ASSUME NEW e \in events, Hear(p, e)
          PROVE  HandVouched(p)'
      <4>1. e \in Entry BY <1>0 DEF TypeOK
      <4>2. PICK i \in RowsOf(e.key), w \in {0, e.id} :
              Take(p, "update", i, Told(rows[i], e, w))
        BY <3>3 DEF Hear
      <4> DEFINE r == Told(rows[i], e, w)
      <4>3. i \in ids /\ rows[i] \in Row /\ KeyOf(rows[i]) = e.key
        BY <1>r DEF RowsOf
      <4>4. /\ r.verified => e.status = "APPROVED" \/ rows[i].verified
            /\ KeyOf(r) = e.key /\ r.name = rows[i].name
        BY <4>3 DEF Told, Row, KeyOf
      <4>5. rows[i].verified => \/ e.key \in approved
                                \/ i \in asked /\ ByName(rows[i].name)
                                \/ i \in edited
        BY <1>v, <4>3 DEF RowsVerified, Vouches
      <4>6. at'[p] = "update" /\ hand'[p].id = i /\ hand'[p].row = r BY <2>t, <4>2
      <4> HIDE DEF r
      <4>7. r.verified => Vouches(i, r) BY <2>a, <4>1, <4>4, <4>5 DEF Vouches
      <4> QED BY <3>u, <4>6, <4>7
    <3>4. CASE \E i \in Id : DeleteRead(p, i)
      <4>1. at'[p] \in {"removeOnly", "deleteMeta"} BY <2>t, <3>4 DEF DeleteRead
      <4> QED BY <4>1 DEF HandVouched
    <3> QED BY <1>4, <3>1, <3>2, <3>3, <3>4 DEF Takes
  <2>4. \A h \in pending'[p] : h.id \in ids' \ edited' => h.row.name = rows'[h.id].name
    BY <1>v, <2>1 DEF Vouched
  <2>5. Vouched(p)' BY <2>1, <2>3, <2>4 DEF Vouched
  <2> QED BY <2>2, <2>5 DEF Vouching
<1>5. ASSUME NEW p \in Proc, Writes(p) PROVE Vouching'
  <2>1. /\ UNCHANGED <<pending, edited>>
        /\ at'[p] \in {"each", "check", "idle"}
        /\ \A q \in Proc \ {p} : at'[q] = at[q] /\ hand'[q] = hand[q]
    BY <1>5, WritesLeave
  <2>2. \A i \in used : i \in ids' /\ i \notin edited' =>
          i \in ids /\ rows'[i].name = rows[i].name
    BY <1>5, <1>v, <2>1, NamesStay
  <2>3. \A q \in Proc \ {p} : Vouched(q)' BY <1>k, <2>1, <2>2
  <2>4. \A h \in pending'[p] : h.id \in ids' \ edited' => h.row.name = rows'[h.id].name
    <3>1. \A h \in pending[p] : h.id \in used BY <1>0 DEF Memory
    <3> QED BY <1>v, <2>1, <2>2, <3>1 DEF Vouched
  <2>5. Vouched(p)' BY <2>1, <2>4 DEF Vouched, HandVouched
  <2> QED BY <2>3, <2>5 DEF Vouching
<1>6. ASSUME NEW p \in Proc, Others(p) PROVE Vouching'
  <2>1. /\ UNCHANGED <<ids, rows, used, approved, edited>>
        /\ at'[p] \notin {"insert", "update", "deleteMeta"}
        /\ \A q \in Proc \ {p} : at'[q] = at[q] /\ hand'[q] = hand[q]
    BY <1>6, OthersLeave
  <2>2. \A q \in Proc \ {p} : pending'[q] = pending[q]
    BY <1>0, <1>6 DEF Others, ListTemplates, ListPending, Check, DeleteMeta,
                      DeleteMetaFails, Abandon, memory, TypeOK
  <2>3. \A q \in Proc \ {p} : Vouched(q)' BY <1>k, <2>1, <2>2
  <2>4. \A h \in pending'[p] : h.id \in ids' \ edited' => h.row.name = rows'[h.id].name
    <3>1. CASE ListPending(p)
      <4> DEFINE snap(i) == [id |-> i, row |-> [NoRow EXCEPT !.name = rows[i].name,
                                                             !.status = "PENDING"]]
      <4>1. pending'[p] = {snap(i) : i \in {j \in ids : rows[j].status = "PENDING"}}
        BY <1>0, <3>1 DEF ListPending, TypeOK
      <4>2. \A i \in ids : snap(i).id = i /\ snap(i).row.name = rows[i].name
        BY DEF NoRow
      <4> HIDE DEF snap
      <4>3. \A h \in pending'[p] : h.row.name = rows[h.id].name BY <4>1, <4>2
      <4> QED BY <2>1, <4>3
    <3>2. CASE pending'[p] \subseteq pending[p] BY <1>v, <2>1, <3>2 DEF Vouched
    <3>3. ListPending(p) \/ pending'[p] \subseteq pending[p]
      BY <1>0, <1>6 DEF Others, ListTemplates, Check, DeleteMeta,
                        DeleteMetaFails, Abandon, memory, TypeOK
    <3> QED BY <3>1, <3>2, <3>3
  <2>5. (at[p] = "status" /\ hand[p].row.status = "APPROVED" /\ hand[p].id \in ids =>
           hand[p].id \in edited \/ ByName(rows[hand[p].id].name))'
    <3>1. CASE \E h \in pending[p] : Check(p, h) /\ at'[p] = "status"
      <4>1. PICK h \in pending[p] : Check(p, h) /\ at'[p] = "status" BY <3>1
      <4>2. PICK m \in live : /\ h.row.name \in {None, m.key[1]}
                              /\ Take(p, "status", h.id, [h.row EXCEPT !.status = m.status])
        BY <1>0, <4>1 DEF Check, Answers, TypeOK
      <4>3. h.row \in Row BY <1>0 DEF TypeOK, Held
      <4>4. hand'[p].id = h.id /\ hand'[p].row.status = m.status
        BY <1>0, <4>2, <4>3 DEF Take, TypeOK, Row
      <4>5. m.status = "APPROVED" => ByName(m.key[1]) BY <1>v DEF Approvals, ByName
      <4>6. h.id \in ids \ edited => h.row.name = rows[h.id].name BY <1>v DEF Vouched
      <4>7. h.id \in ids \ edited => rows[h.id].name # None
        BY <1>v DEF RowsVerified
      <4> QED BY <1>g, <2>1, <4>2, <4>4, <4>5, <4>6, <4>7
    <3>2. CASE at'[p] # "status" BY <3>2
    <3>3. at'[p] = "status" => \E h \in pending[p] : Check(p, h)
      BY <1>0, <1>6 DEF Others, ListTemplates, ListPending, DeleteMeta,
                        DeleteMetaFails, Abandon, TypeOK
    <3> QED BY <3>1, <3>2, <3>3
  <2>6. Vouched(p)' BY <2>1, <2>4, <2>5 DEF Vouched, HandVouched
  <2> QED BY <2>3, <2>6 DEF Vouching
<1> QED BY <1>1, <1>2, <1>3, <1>4, <1>5, <1>6, Kinds

(* Meta approved the template of a verified row that nobody edited, or at    *)
(* least one of its name if the row's status was asked for by the name.      *)
THEOREM VerifiedIsApproved == Spec => []VerifiedByMeta
<1>1. Init => Verified
  BY DEF Init, Verified, Approvals, RowsVerified, Vouching, Vouched, HandVouched
<1>2. TypeInv /\ TypeInv' /\ Copies /\ Verified /\ [Next]_vars => Verified'
  BY ApprovalsStep, RowsVerifiedStep, VouchingStep DEF Verified
<1>3. Spec => []Verified BY <1>1, <1>2, CopiesAlways, PTL DEF Spec
<1>4. Verified => VerifiedByMeta
  BY DEF Verified, RowsVerified, VerifiedByMeta, Vouches, ByName
<1> QED BY <1>3, <1>4, PTL

-----------------------------------------------------------------------------
(* Rows for Meta's templates *)

(* The id in the row that a request is about to delete was made for the name *)
(* it has deleted at Meta; once that is done, no template there has the id.  *)
Deleting ==
  /\ \A p \in Proc : at[p] = "deleteMeta" /\ hand[p].row.wa # 0 =>
       \E k \in Key : issued[hand[p].row.wa] = k /\ k[1] = hand[p].row.name
  /\ \A p \in Proc : at[p] = "remove" /\ hand[p].row.wa # 0 =>
       /\ issued[hand[p].row.wa] \in Key
       /\ \A m \in live : m.id # hand[p].row.wa

(* An id keeps its key; a template that comes into being takes a new id.     *)
LEMMA IssuedStay ==
  ASSUME TypeInv, [Next]_vars
  PROVE  /\ \A v \in MetaId : issued[v] \in Key => issued'[v] = issued[v]
         /\ \A m \in live' : \/ \E n \in live : n.id = m.id /\ n.key = m.key
                             \/ issued[m.id] \notin Key
<1>0. TypeOK BY DEF TypeInv
<1>n. None \notin Key BY NoneAssumption DEF Key
<1>m. ASSUME NEW k \in Key, NEW w \in MetaId, NEW s \in Status, Make(k, w, s)
      PROVE  /\ \A v \in MetaId : issued[v] \in Key => issued'[v] = issued[v]
             /\ \A m \in live' : \/ \E n \in live : n.id = m.id /\ n.key = m.key
                                 \/ issued[m.id] \notin Key
  <2>1. issued[w] \notin Key BY <1>m, <1>n DEF Make
  <2>2. \A v \in MetaId : issued[v] \in Key => issued'[v] = issued[v]
    BY <1>0, <1>m, <2>1 DEF Make, TypeOK
  <2>3. live' = live \cup {[key |-> k, id |-> w, status |-> s]}
    BY <1>m DEF Make
  <2> QED BY <2>1, <2>2, <2>3
<1>u. ASSUME issued' = issued, live' \subseteq live
      PROVE  /\ \A v \in MetaId : issued[v] \in Key => issued'[v] = issued[v]
             /\ \A m \in live' : \/ \E n \in live : n.id = m.id /\ n.key = m.key
                                 \/ issued[m.id] \notin Key
  BY <1>u
<1>1. CASE UNCHANGED vars BY <1>1, <1>u DEF vars, metaSide
<1>2. CASE \E k \in Key, w \in MetaId : MakeAtMeta(k, w) BY <1>2, <1>m DEF MakeAtMeta, Status
<1>3. CASE \E n \in Name : DeleteAtMeta(n) BY <1>3, <1>u DEF DeleteAtMeta
<1>4. ASSUME NEW m \in live, NEW s \in Status, Decide(m, s)
      PROVE  /\ \A v \in MetaId : issued[v] \in Key => issued'[v] = issued[v]
             /\ \A x \in live' : \/ \E n \in live : n.id = x.id /\ n.key = x.key
                                 \/ issued[x.id] \notin Key
  <2> DEFINE n == [m EXCEPT !.status = s]
  <2>1. m \in Entry BY <1>0 DEF TypeOK
  <2>2. n.id = m.id /\ n.key = m.key BY <2>1 DEF Entry
  <2>3. issued' = issued /\ live' \subseteq live \cup {n} BY <1>4 DEF Decide
  <2> HIDE DEF n
  <2> QED BY <2>2, <2>3
<1>5. CASE \E i \in Id, g \in Given : Edit(i, Edited(g)) BY <1>5, <1>u DEF Edit, metaSide
<1>6. CASE \E p \in Proc : Takes(p)
  <2>1. CASE \E p \in Proc, k \in Key, w \in MetaId, s \in Status : Create(p, k, w, s)
    BY <2>1, <1>m DEF Create
  <2>2. CASE UNCHANGED metaSide BY <2>2, <1>u DEF metaSide
  <2> QED BY <1>6, <2>1, <2>2 DEF Takes, LookUp, Hear, DeleteRead
<1>7. CASE \E p \in Proc : Writes(p) BY <1>7, <1>u, WritesLeave
<1>8. CASE \E p \in Proc : Others(p) BY <1>8, <1>u, OthersLeave
<1> QED BY <1>1, <1>2, <1>3, <1>4, <1>5, <1>6, <1>7, <1>8, Kinds DEF AtMeta

LEMMA DeletingStep ==
  ASSUME TypeInv, Identity, Deleting, [Next]_vars
  PROVE  Deleting'
<1>0. TypeOK BY DEF TypeInv
<1>r. rows \in [Id -> Row] /\ ids \subseteq used /\ used \subseteq Id BY <1>0 DEF TypeOK
<1>w. \A p \in Proc : hand[p].row.wa # 0 => hand[p].row.wa \in MetaId
  BY <1>0, BoundAssumption DEF TypeOK, Held, Row, MetaId
<1>s. /\ \A v \in MetaId : issued[v] \in Key => issued'[v] = issued[v]
      /\ \A m \in live' : \/ \E n \in live : n.id = m.id /\ n.key = m.key
                          \/ issued[m.id] \notin Key
  BY IssuedStay
<1> DEFINE D(p) == /\ at[p] = "deleteMeta" /\ hand[p].row.wa # 0 =>
                        \E k \in Key : issued[hand[p].row.wa] = k /\ k[1] = hand[p].row.name
                   /\ at[p] = "remove" /\ hand[p].row.wa # 0 =>
                        /\ issued[hand[p].row.wa] \in Key
                        /\ \A m \in live : m.id # hand[p].row.wa
<1>d. \A p \in Proc : D(p) BY DEF Deleting
<1>k. ASSUME NEW p \in Proc, UNCHANGED <<at[p], hand[p]>> PROVE D(p)'
  <2>1. D(p) BY <1>d
  <2>2. (at[p] = "deleteMeta" /\ hand[p].row.wa # 0 =>
           \E k \in Key : issued[hand[p].row.wa] = k /\ k[1] = hand[p].row.name)'
    BY <1>k, <1>s, <1>w, <2>1
  <2>3. (at[p] = "remove" /\ hand[p].row.wa # 0 =>
           /\ issued[hand[p].row.wa] \in Key
           /\ \A m \in live : m.id # hand[p].row.wa)'
    BY <1>k, <1>s, <1>w, <2>1
  <2> QED BY <2>2, <2>3
<1> SUFFICES ASSUME NEW p \in Proc PROVE D(p)' BY DEF Deleting
<1>x. ASSUME at'[p] \notin {"deleteMeta", "remove"} PROVE D(p)' BY <1>x
<1>1. CASE UNCHANGED <<at, hand>> BY <1>1, <1>k
<1>2. ASSUME NEW q \in Proc, Takes(q) PROVE D(p)'
  <2>1. CASE p # q BY <1>k, <1>2, <2>1, TakesHold
  <2>2. CASE \E i \in Id : DeleteRead(p, i)
    <3>1. PICK i \in Id : DeleteRead(p, i) BY <2>2
    <3> DEFINE r == [NoRow EXCEPT !.name = rows[i].name, !.wa = rows[i].wa]
    <3>2. at'[p] # "remove" /\ hand'[p].row = r
      BY <1>0, <3>1 DEF DeleteRead, Take, TypeOK
    <3>3. r.wa = rows[i].wa /\ r.name = rows[i].name BY DEF NoRow
    <3>4. issued' = issued /\ i \in ids BY <3>1 DEF DeleteRead, metaSide
    <3>5. rows[i].wa # 0 => issued[rows[i].wa] = KeyOf(rows[i]) /\ KeyOf(rows[i]) \in Key
      BY <3>4 DEF Identity
    <3>6. KeyOf(rows[i])[1] = rows[i].name BY DEF KeyOf
    <3> HIDE DEF r
    <3> QED BY <3>2, <3>3, <3>4, <3>5, <3>6
  <2>3. CASE at'[p] \notin {"deleteMeta", "remove"} BY <1>x, <2>3
  <2>4. CASE p = q /\ ~ \E i \in Id : DeleteRead(p, i)
    <3>1. \E step \in {"insert", "update"} : \E i, r : Take(p, step, i, r)
      BY <1>2, <2>4 DEF Takes, Create, LookUp, Hear
    <3>2. at'[p] \in {"insert", "update"} BY <1>0, <3>1 DEF Take, TypeOK
    <3> QED BY <1>x, <3>2
  <2> QED BY <2>1, <2>2, <2>4
<1>3. ASSUME NEW q \in Proc, Writes(q) PROVE D(p)'
  <2>1. CASE p # q BY <1>k, <1>3, <2>1, WritesLeave
  <2>2. CASE p = q BY <1>x, <1>3, <2>2, WritesLeave
  <2> QED BY <2>1, <2>2
<1>4. ASSUME NEW q \in Proc, Others(q) PROVE D(p)'
  <2>1. CASE p # q BY <1>k, <1>4, <2>1, OthersLeave
  <2>2. CASE p = q /\ DeleteMeta(p)
    <3>1. /\ at[p] = "deleteMeta" /\ at'[p] = "remove" /\ UNCHANGED <<hand, issued>>
          /\ live' = live \ GoneWith(hand[p].row)
      BY <1>0, <2>2 DEF DeleteMeta, memory, TypeOK
    <3>2. ASSUME hand[p].row.wa # 0
          PROVE  /\ issued[hand[p].row.wa] \in Key
                 /\ \A m \in live' : m.id # hand[p].row.wa
      <4>1. PICK k \in Key : issued[hand[p].row.wa] = k /\ k[1] = hand[p].row.name
        BY <1>d, <3>1, <3>2
      <4>2. ASSUME NEW m \in live, m.id = hand[p].row.wa PROVE m \in GoneWith(hand[p].row)
        <5>1. m.key = k BY <4>1, <4>2 DEF Identity
        <5> QED BY <4>1, <5>1 DEF GoneWith
      <4> QED BY <3>1, <4>1, <4>2
    <3> QED BY <3>1, <3>2
  <2>3. CASE p = q /\ ~ DeleteMeta(p)
    <3>1. at'[p] \notin {"deleteMeta", "remove"}
      BY <1>0, <1>4, <2>3 DEF Others, ListTemplates, ListPending, Check, DeleteMetaFails,
                              Abandon, Take, TypeOK
    <3> QED BY <1>x, <3>1
  <2> QED BY <2>1, <2>2, <2>3
<1>5. CASE AtMeta
  BY <1>1, <1>5 DEF AtMeta, MakeAtMeta, DeleteAtMeta, Decide, memory
<1>6. CASE \E i \in Id, g \in Given : Edit(i, Edited(g)) BY <1>1, <1>6 DEF Edit, memory
<1>7. CASE UNCHANGED vars BY <1>1, <1>7 DEF vars, memory
<1> QED BY <1>2, <1>3, <1>4, <1>5, <1>6, <1>7, Kinds

(* There is a row of key k, or one is coming, or it is known to have none.   *)
HasRow(k) == \/ \E i \in ids : KeyOf(rows[i]) = k
             \/ Inserting(k)
             \/ k \in adrift

LEMMA HasRowStep ==
  ASSUME TypeInv, Identity, Copies, Deleting, [Next]_vars, NEW m \in live, HasRow(m.key)
  PROVE  HasRow(m.key)'
<1> DEFINE k == m.key
<1>0. TypeOK /\ Memory BY DEF TypeInv
<1>r. rows \in [Id -> Row] /\ ids \subseteq used /\ used \subseteq Id BY <1>0 DEF TypeOK
<1>m. m \in Entry /\ k \in Key /\ m.id \in MetaId BY <1>0 DEF TypeOK, Entry
<1>n. \A i \in ids : KeyOf(rows[i]) = k => rows[i].name # None
  BY <1>r, <1>m, KeysHaveNames
<1>c. \/ \E i \in ids : KeyOf(rows[i]) = k
      \/ \E p \in Proc : at[p] = "insert" /\ KeyOf(hand[p].row) = k
      \/ k \in adrift
  BY DEF HasRow, Inserting
<1> HIDE DEF k
<1> SUFFICES HasRow(k)' BY DEF k
<1>k. ASSUME adrift \subseteq adrift',
             \A i \in ids : KeyOf(rows[i]) = k => HasRow(k)',
             \A p \in Proc : at[p] = "insert" /\ KeyOf(hand[p].row) = k => HasRow(k)'
      PROVE  HasRow(k)'
  BY <1>c, <1>k DEF HasRow
<1>i. ASSUME NEW p \in Proc, UNCHANGED <<at[p], hand[p]>>,
             at[p] = "insert", KeyOf(hand[p].row) = k
      PROVE  HasRow(k)'
  <2>1. (at[p] = "insert" /\ KeyOf(hand[p].row) = k)' BY <1>i DEF KeyOf
  <2> QED BY <2>1 DEF HasRow, Inserting
<1>j. ASSUME NEW i \in ids, i \in ids', KeyOf(rows'[i]) = k PROVE HasRow(k)'
  <2>1. (i \in ids /\ KeyOf(rows[i]) = k)' BY <1>j DEF KeyOf
  <2> QED BY <2>1 DEF HasRow
<1>a. k \in adrift' => HasRow(k)' BY DEF HasRow
<1>s. ASSUME UNCHANGED <<ids, rows, at, hand>>, adrift \subseteq adrift' PROVE HasRow(k)'
  BY <1>i, <1>j, <1>k, <1>s
<1>1. CASE UNCHANGED vars BY <1>1, <1>s DEF vars, table, memory, marks
<1>2. CASE AtMeta
  BY <1>2, <1>s DEF AtMeta, MakeAtMeta, DeleteAtMeta, Decide, table, memory, marks
<1>3. ASSUME NEW i \in Id, NEW g \in Given, Edit(i, Edited(g)) PROVE HasRow(k)'
  <2>1. /\ UNCHANGED <<ids, at, hand>> /\ \A j \in ids \ {i} : rows'[j] = rows[j]
        /\ adrift' = adrift \cup ({KeyOf(rows[i])} \cap Key)
    BY <1>r, <1>3 DEF Edit, memory
  <2> QED BY <1>i, <1>j, <1>k, <1>a, <1>m, <2>1
<1>4. ASSUME NEW p \in Proc, Takes(p) PROVE HasRow(k)'
  <2>1. /\ UNCHANGED <<ids, rows, adrift>>
        /\ \A q \in Proc \ {p} : at'[q] = at[q] /\ hand'[q] = hand[q]
    BY <1>4, TakesHold
  <2>2. at[p] \in {"idle", "each"} BY <1>4 DEF Takes, Create, LookUp, Hear, DeleteRead
  <2> QED BY <1>i, <1>j, <1>k, <2>1, <2>2
<1>5. ASSUME NEW p \in Proc, Writes(p) PROVE HasRow(k)'
  <2> DEFINE K == KeyOf(hand[p].row)
  <2>1. \A q \in Proc \ {p} : at'[q] = at[q] /\ hand'[q] = hand[q]
    BY <1>5, WritesLeave
  <2>2. \A q \in Proc \ {p} : at[q] = "insert" /\ KeyOf(hand[q].row) = k => HasRow(k)'
    BY <2>1, <1>i
  <2>3. ASSUME NEW i \in Id, Insert(p, i) PROVE HasRow(k)'
    <3>1. /\ i \in ids' /\ i \notin ids /\ rows'[i] = hand[p].row
          /\ ids \subseteq ids' /\ \A j \in ids : rows'[j] = rows[j]
      BY <1>r, <2>3 DEF Insert
    <3>2. adrift' = adrift \ {K} BY <2>3 DEF Insert, Settle
    <3>3. k = K => HasRow(k)'
      <4>1. KeyOf(rows[i])' = K BY <3>1 DEF KeyOf
      <4> QED BY <3>1, <4>1 DEF HasRow
    <3> QED BY <1>c, <1>a, <1>j, <2>2, <3>1, <3>2, <3>3
  <2>4. CASE InsertRefused(p)
    <3>1. UNCHANGED <<ids, rows, adrift>> /\ at[p] = "insert"
      BY <2>4 DEF InsertRefused, table
    <3>2. PICK j \in ids : rows[j].wa = hand[p].row.wa
      BY <2>4 DEF InsertRefused, Unique
    <3>3. hand[p].row.wa \in MetaId /\ issued[hand[p].row.wa] = K
      BY <3>1 DEF Identity
    <3>4. rows[j].wa # 0 BY <3>2, <3>3, BoundAssumption DEF MetaId
    <3>5. KeyOf(rows[j]) = K BY <3>2, <3>3, <3>4 DEF Identity
    <3>6. k = K => HasRow(k)' BY <1>j, <3>1, <3>5
    <3> QED BY <1>c, <1>a, <1>j, <2>2, <3>1, <3>6
  <2>5. CASE InsertFails(p)
    <3>1. UNCHANGED <<ids, rows>> /\ adrift' = adrift \cup {K}
      BY <2>5 DEF InsertFails, table
    <3> QED BY <1>c, <1>a, <1>j, <2>2, <3>1
  <2>6. CASE Update(p)
    <3> DEFINE i == hand[p].id
    <3>1. /\ i \in ids /\ ids' = ids /\ rows'[i] = hand[p].row /\ at[p] = "update"
          /\ \A j \in ids \ {i} : rows'[j] = rows[j]
          /\ adrift' = adrift \ {K}
      BY <1>r, <2>6 DEF Update, Settle
    <3>2. KeyOf(rows[i]) = k => K = k
      BY <1>n, <3>1 DEF Copies, Writing, Same
    <3>3. k = K => HasRow(k)' BY <1>j, <3>1
    <3> HIDE DEF K
    <3> QED BY <1>c, <1>a, <1>j, <2>2, <3>1, <3>2, <3>3
  <2>7. CASE UpdateRefused(p) \/ UpdateFails(p)
    <3>1. UNCHANGED <<ids, rows, adrift>> /\ at[p] # "insert"
      BY <2>7 DEF UpdateRefused, UpdateFails, table
    <3> QED BY <1>c, <1>a, <1>j, <2>2, <3>1
  <2>8. CASE StoreStatus(p)
    <3>1. adrift' = adrift /\ at[p] = "status" BY <2>8 DEF StoreStatus
    <3>2. ids' = ids /\ \A j \in ids : KeyOf(rows'[j]) = KeyOf(rows[j])
      BY <1>5, <3>1, WritesRows DEF Same
    <3> QED BY <1>c, <1>a, <1>j, <2>2, <3>1, <3>2
  <2>9. CASE Remove(p)
    <3> DEFINE i == hand[p].id
    <3>1. /\ ids' = ids \ {i} /\ \A j \in ids' : rows'[j] = rows[j]
          /\ adrift \subseteq adrift' /\ at[p] \in {"remove", "removeOnly"}
      BY <1>r, <2>9 DEF Remove
    <3>2. ASSUME i \in ids, KeyOf(rows[i]) = k PROVE k \in adrift'
      <4>1. m.key = KeyOf(rows[i]) BY <3>2 DEF k
      <4>2. at[p] = "remove" => m.id # hand[p].row.wa
        BY <1>m, BoundAssumption DEF Deleting, MetaId
      <4>3. \A n \in live : n.key = KeyOf(rows[i])
                             /\ (at[p] = "removeOnly" \/ n.id # hand[p].row.wa)
              => n.key \in adrift'
        BY <2>9, <3>2 DEF Remove
      <4> QED BY <3>1, <4>1, <4>2, <4>3 DEF k
    <3> QED BY <1>c, <1>a, <1>j, <2>2, <3>1, <3>2
  <2> QED BY <1>5, <2>3, <2>4, <2>5, <2>6, <2>7, <2>8, <2>9 DEF Writes
<1>6. ASSUME NEW p \in Proc, Others(p) PROVE HasRow(k)'
  <2>1. /\ UNCHANGED <<ids, rows>>
        /\ \A q \in Proc \ {p} : at'[q] = at[q] /\ hand'[q] = hand[q]
    BY <1>6, OthersLeave
  <2>2. /\ adrift \subseteq adrift'
        /\ at[p] = "insert" => KeyOf(hand[p].row) \in adrift'
    BY <1>6 DEF Others, ListTemplates, ListPending, Check, DeleteMeta, DeleteMetaFails,
                Abandon, marks
  <2>3. \A q \in Proc \ {p} : at[q] = "insert" /\ KeyOf(hand[q].row) = k => HasRow(k)'
    BY <2>1, <1>i
  <2> QED BY <1>c, <1>a, <1>j, <2>1, <2>2, <2>3
<1> QED BY <1>1, <1>2, <1>3, <1>4, <1>5, <1>6, Kinds

(* A template that comes into being is about to get a row, or is adrift.     *)
LEMMA NewHasRow ==
  ASSUME TypeInv, [Next]_vars, NEW m \in live', \A n \in live : n.key # m.key
  PROVE  HasRow(m.key)'
<1>0. TypeOK BY DEF TypeInv
<1>1. ASSUME NEW k \in Key, NEW w \in MetaId, NEW s \in Status, Make(k, w, s)
      PROVE  k = m.key
  BY <1>1 DEF Make
<1>2. CASE \E k \in Key, w \in MetaId : MakeAtMeta(k, w)
  BY <1>1, <1>2 DEF MakeAtMeta, HasRow, Status
<1>3. CASE \E p \in Proc, k \in Key, w \in MetaId, s \in Status : Create(p, k, w, s)
  <2>1. PICK p \in Proc, k \in Key, w \in MetaId, s \in Status : Create(p, k, w, s)
    BY <1>3
  <2> DEFINE r == Created(k, w, s)
  <2>2. Take(p, "insert", None, r) /\ k = m.key BY <1>1, <2>1 DEF Create
  <2>3. KeyOf(r) = k BY DEF Created, KeyOf, Key
  <2> HIDE DEF r
  <2>4. at'[p] = "insert" /\ hand'[p].row = r BY <1>0, <2>2 DEF Take, TypeOK
  <2>5. (at[p] = "insert" /\ KeyOf(hand[p].row) = k)' BY <2>3, <2>4 DEF KeyOf
  <2> QED BY <2>2, <2>5 DEF HasRow, Inserting
<1>4. CASE live' \subseteq live BY <1>4
<1>5. ASSUME NEW n \in live, NEW s \in Status, Decide(n, s) PROVE FALSE
  <2>1. n \in Entry BY <1>0 DEF TypeOK
  <2>2. [n EXCEPT !.status = s].key = n.key BY <2>1 DEF Entry
  <2> QED BY <1>5, <2>2 DEF Decide
<1>6. CASE AtMeta BY <1>2, <1>4, <1>5, <1>6 DEF AtMeta, DeleteAtMeta
<1>7. CASE \E p \in Proc : Takes(p)
  BY <1>3, <1>4, <1>7 DEF Takes, LookUp, Hear, DeleteRead, metaSide
<1>8. CASE \E i \in Id, g \in Given : Edit(i, Edited(g)) BY <1>4, <1>8 DEF Edit, metaSide
<1>9. CASE \E p \in Proc : Writes(p) BY <1>4, <1>9, WritesLeave
<1>10. CASE \E p \in Proc : Others(p) BY <1>4, <1>10, OthersLeave
<1>11. CASE UNCHANGED vars BY <1>4, <1>11 DEF vars, metaSide
<1> QED BY <1>6, <1>7, <1>8, <1>9, <1>10, <1>11, Kinds

(* Meta's templates that were created here, listed or heard of have a row,   *)
(* are about to get one, or are known to have lost it.                       *)
THEOREM EveryTemplateHasRow == Spec => []Covered
<1>1. Covered <=> \A m \in live : HasRow(m.key) BY DEF Covered, HasRow
<1>2. Init => Covered /\ Deleting BY DEF Init, Covered, Deleting
<1>3. TypeInv /\ Identity /\ Copies /\ Covered /\ Deleting /\ [Next]_vars
        => Covered' /\ Deleting'
  <2> SUFFICES ASSUME TypeInv, Identity, Copies, Covered, Deleting, [Next]_vars
               PROVE  Covered' /\ Deleting'
    OBVIOUS
  <2>1. \A m \in live : HasRow(m.key)' BY <1>1, HasRowStep
  <2>2. ASSUME NEW m \in live' PROVE HasRow(m.key)'
    <3>1. CASE \E n \in live : n.key = m.key BY <2>1, <3>1
    <3>2. CASE \A n \in live : n.key # m.key BY <3>2, NewHasRow
    <3> QED BY <3>1, <3>2
  <2>3. Covered'
    <3>1. \A m \in live' : HasRow(m.key)' BY <2>2
    <3> QED BY <3>1 DEF Covered, HasRow
  <2> QED BY <2>3, DeletingStep
<1>4. Spec => []Covered BY <1>2, <1>3, CopiesAlways, PTL DEF Spec
<1> QED BY <1>4
=============================================================================
