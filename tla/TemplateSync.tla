---------------------------- MODULE TemplateSync ----------------------------
(***************************************************************************)
(* Table templates and the message templates at Meta that it mirrors       *)
(* (internal/service/template.go, internal/repository/template.go and      *)
(* processTemplateStatusUpdate of internal/api/webhook/whatsapp.go).       *)
(*                                                                         *)
(* Requests and webhook deliveries run side by side.  Each reads a row or  *)
(* Meta's list first and writes a whole row, or its status, later; Meta    *)
(* knows a template by name and language, a row finds it by the columns    *)
(* meta_name and language.                                                 *)
(***************************************************************************)
EXTENDS Naturals, FiniteSets

CONSTANTS
  Name, Lang,  \* what Meta knows a template by
  Id,          \* ids of rows
  Given,       \* what edits say: language, status, verified
  Proc,        \* requests and webhook deliveries that may run at once
  None,        \* NULL or an empty string
  MaxMeta,     \* bounds: templates ever made at Meta,
  MaxTexts,    \* texts given by users,
  MaxDecisions, MaxFaults

ASSUME NoneAssumption ==
  None \notin Name \cup Lang /\ None \notin Id /\ None \notin Name \X Lang

ASSUME BoundAssumption ==
  MaxMeta \in Nat /\ MaxTexts \in Nat /\ MaxDecisions \in Nat /\ MaxFaults \in Nat

Key == Name \X Lang

(* REJECTED stands also for DISABLED, PAUSED and FLAGGED; OTHER for events   *)
(* that the webhook has no case for.                                         *)
Status == {"PENDING", "APPROVED", "REJECTED", "OTHER"}

ASSUME GivenAssumption == Given \subseteq Lang \X (Status \cup {None}) \X BOOLEAN

MetaId == 1 .. MaxMeta

(* A row: wa is wa_template_id (unique), 0 if empty; text the number of the  *)
(* text in column content, 0 if it is empty.                                 *)
Row == [wa : 0 .. MaxMeta, name : Name \cup {None}, lang : Lang \cup {None},
        status : Status \cup {None}, verified : BOOLEAN, text : 0 .. MaxTexts]

(* What Meta says of a template, in its list or in an event. *)
Entry == [key : Key, id : MetaId, status : Status]

Held == [id : Id \cup {None}, row : Row]

VARIABLES
  live,       \* Meta: the templates it has now, as entries
  events,     \* webhooks Meta has sent; any may arrive late, again or never
  issued,     \* Meta: the key for which an id was made, None: not yet
  ids, rows,  \* the rows' ids and the rows
  used,       \* the ids made up so far; none is made up twice
  at,         \* the next call of a process
  hand,       \* the row it is about to write or delete, with its id
  listed,     \* SyncAll: entries still to do
  pending,    \* SyncPendingStatus: rows still to do
  texts, decisions, faults,
  approved,   \* history: keys that were approved at Meta some time
  edited,     \* history: ids of rows that were edited by hand
  asked,      \* history: ids of rows whose status was asked for by the name
  touched,    \* history: rows edited since touched[p] holds a copy of them
  adrift      \* history: templates at Meta which are known to have no row

metaSide == <<live, events, issued, approved>>
table == <<ids, rows, used>>
memory == <<hand, listed, pending>>
marks == <<edited, asked, touched, adrift>>
bounds == <<texts, decisions, faults>>
vars == <<metaSide, table, at, memory, marks, bounds>>

NoRow == [wa |-> 0, name |-> None, lang |-> None,
          status |-> None, verified |-> FALSE, text |-> 0]

NoHand == [id |-> None, row |-> NoRow]

TypeOK ==
  /\ live \in SUBSET Entry /\ events \in SUBSET Entry
  /\ issued \in [MetaId -> Key \cup {None}]
  /\ used \in SUBSET Id /\ ids \in SUBSET used /\ rows \in [Id -> Row]
  /\ at \in [Proc -> {"idle", "each", "insert", "update", "check", "status",
                      "deleteMeta", "remove", "removeOnly"}]
  /\ hand \in [Proc -> Held]
  /\ listed \in [Proc -> SUBSET Entry]
  /\ pending \in [Proc -> SUBSET Held]
  /\ texts \in 0 .. MaxTexts /\ decisions \in 0 .. MaxDecisions
  /\ faults \in 0 .. MaxFaults
  /\ approved \in SUBSET Key /\ adrift \in SUBSET Key
  /\ edited \in SUBSET Id /\ asked \in SUBSET Id /\ touched \in SUBSET Proc

Init ==
  /\ live = {} /\ events = {} /\ issued = [w \in MetaId |-> None]
  /\ ids = {} /\ used = {} /\ rows = [i \in Id |-> NoRow]
  /\ at = [p \in Proc |-> "idle"]
  /\ hand = [p \in Proc |-> NoHand]
  /\ listed = [p \in Proc |-> {}]
  /\ pending = [p \in Proc |-> {}]
  /\ texts = 0 /\ decisions = 0 /\ faults = 0
  /\ approved = {} /\ edited = {} /\ asked = {} /\ touched = {} /\ adrift = {}

Fault == faults < MaxFaults /\ faults' = faults + 1

KeyOf(row) == <<row.name, row.lang>>

Live(k) == \E m \in live : m.key = k

(* p turns to the step given, with row r of id i in its hands. *)
Take(p, step, i, r) ==
  /\ at' = [at EXCEPT ![p] = step]
  /\ hand' = [hand EXCEPT ![p] = [id |-> i, row |-> r]]

(* p turns to what is left of its list, or ends. *)
Onward(p) ==
  /\ at' = [at EXCEPT ![p] = IF listed[p] # {} THEN "each"
                             ELSE IF pending[p] # {} THEN "check" ELSE "idle"]
  /\ hand' = [hand EXCEPT ![p] = NoHand]
  /\ touched' = touched \ {p}

-----------------------------------------------------------------------------
(* Meta *)

(* A template of key k comes into being, with an id of its own. *)
Make(k, w, s) ==
  /\ ~ Live(k)
  /\ issued[w] = None /\ \A v \in 1 .. w - 1 : issued[v] # None
  /\ live' = live \cup {[key |-> k, id |-> w, status |-> s]}
  /\ issued' = [issued EXCEPT ![w] = k]

(* Somebody makes one in the business manager. *)
MakeAtMeta(k, w) ==
  /\ Make(k, w, "PENDING")
  /\ adrift' = adrift \cup {k}
  /\ UNCHANGED <<events, approved, table, at, memory, edited, asked, touched, bounds>>

(* A template of the name is deleted there, in all its languages.            *)
DeleteAtMeta(n) ==
  /\ \E m \in live : m.key[1] = n
  /\ live' = {m \in live : m.key[1] # n}
  /\ UNCHANGED <<events, issued, approved, table, at, memory, marks, bounds>>

(* Meta decides on a template, and says so. *)
Decide(m, s) ==
  /\ s # m.status /\ decisions < MaxDecisions
  /\ decisions' = decisions + 1
  /\ live' = (live \ {m}) \cup {[m EXCEPT !.status = s]}
  /\ events' = events \cup {[m EXCEPT !.status = s]}
  /\ approved' = IF s = "APPROVED" THEN approved \cup {m.key} ELSE approved
  /\ UNCHANGED <<issued, table, at, memory, marks, texts, faults>>

-----------------------------------------------------------------------------
(* Rows *)

(* Mutant of RowsOf: the language is not looked at. *)
RowsOfName(k) == {i \in ids : rows[i].name = k[1]}

(* TemplateRepo.GetByMetaNameAndLanguage returns one of them. *)
RowsOf(k) == {i \in ids : KeyOf(rows[i]) = k}

(* wa_template_id is unique: no row but i has the id that r brings.          *)
Unique(i, r) == \A j \in ids \ {i} : rows[j].wa # r.wa

(* What a list or an event has brought up to date is no longer adrift.       *)
Settle(p) == adrift' = adrift \ {KeyOf(hand[p].row)}

(* TemplateRepo.Create *)
Insert(p, i) ==
  /\ at[p] = "insert" /\ i \notin used /\ Unique(i, hand[p].row)
  /\ ids' = ids \cup {i}
  /\ used' = used \cup {i}
  /\ rows' = [rows EXCEPT ![i] = hand[p].row]
  /\ Settle(p)
  /\ Onward(p)
  /\ UNCHANGED <<metaSide, listed, pending, edited, asked, bounds>>

(* Another row has the id: the INSERT fails. *)
InsertRefused(p) ==
  /\ at[p] = "insert" /\ ~ Unique(None, hand[p].row)
  /\ Onward(p)
  /\ UNCHANGED <<metaSide, table, listed, pending, edited, asked, adrift, bounds>>

InsertFails(p) ==
  /\ at[p] = "insert"
  /\ Fault
  /\ Onward(p)
  /\ adrift' = adrift \cup {KeyOf(hand[p].row)}
  /\ UNCHANGED <<metaSide, table, listed, pending, edited, asked, texts, decisions>>

(* TemplateRepo.Update writes every column but who made the row and when; it *)
(* fails if the row is gone or its id is another row's.                      *)
Update(p) ==
  LET i == hand[p].id IN
  /\ at[p] = "update" /\ i \in ids /\ Unique(i, hand[p].row)
  /\ rows' = [rows EXCEPT ![i] = hand[p].row]
  /\ Settle(p)
  /\ Onward(p)
  /\ UNCHANGED <<metaSide, ids, used, listed, pending, edited, asked, bounds>>

UpdateRefused(p) ==
  /\ at[p] = "update"
  /\ hand[p].id \notin ids \/ ~ Unique(hand[p].id, hand[p].row)
  /\ Onward(p)
  /\ UNCHANGED <<metaSide, table, listed, pending, edited, asked, adrift, bounds>>

UpdateFails(p) ==
  /\ at[p] \in {"update", "status"}
  /\ Fault
  /\ Onward(p)
  /\ UNCHANGED <<metaSide, table, listed, pending, edited, asked, adrift,
                 texts, decisions>>

-----------------------------------------------------------------------------
(* The row of a template just made, with the status that Meta answers.       *)
Created(k, w, s) ==
  [wa |-> w, name |-> k[1], lang |-> k[2], status |-> s,
   verified |-> s = "APPROVED", text |-> texts + 1]

(* TemplateService.CreateAndSync: first at Meta, which refuses a key that it *)
(* has and may decide at once, then the row.                                 *)
Create(p, k, w, s) ==
  /\ at[p] = "idle" /\ texts < MaxTexts
  /\ Make(k, w, s)
  /\ approved' = IF s = "APPROVED" THEN approved \cup {k} ELSE approved
  /\ texts' = texts + 1
  /\ Take(p, "insert", None, Created(k, w, s))
  /\ UNCHANGED <<events, table, listed, pending, marks, decisions, faults>>

-----------------------------------------------------------------------------
(* TemplateService.SyncAll *)

(* Client.GetTemplates answers with the first page of Meta's list, the only  *)
(* one that is asked for.                                                    *)
ListTemplates(p) ==
  /\ at[p] = "idle"
  /\ at' = [at EXCEPT ![p] = "each"]
  /\ \E page \in (SUBSET live) \ {{}} : listed' = [listed EXCEPT ![p] = page]
  /\ UNCHANGED <<metaSide, table, hand, pending, marks, bounds>>

(* Mutant of Refreshed: a new row in the place of the one found. *)
RefreshedAnew(r, m) ==
  [r EXCEPT !.wa = m.id, !.status = m.status, !.verified = m.status = "APPROVED",
            !.text = 0]

(* The row that was found, with what Meta says of it. *)
Refreshed(r, m) ==
  [r EXCEPT !.wa = m.id, !.status = m.status, !.verified = m.status = "APPROVED"]

(* The row of a template that has none; Meta's list has no text.             *)
Imported(m) ==
  [wa |-> m.id, name |-> m.key[1], lang |-> m.key[2], status |-> m.status,
   verified |-> m.status = "APPROVED", text |-> 0]

(* The next template of the list: its row is read, or one is made up.  A     *)
(* failed query is taken for no row.                                         *)
LookUp(p, m) ==
  /\ at[p] = "each" /\ m \in listed[p]
  /\ listed' = [listed EXCEPT ![p] = @ \ {m}]
  /\ \/ /\ \E i \in RowsOf(m.key) : Take(p, "update", i, Refreshed(rows[i], m))
        /\ UNCHANGED faults
     \/ /\ RowsOf(m.key) = {} /\ UNCHANGED faults
        /\ Take(p, "insert", None, Imported(m))
     \/ /\ Fault
        /\ Take(p, "insert", None, Imported(m))
  /\ UNCHANGED <<metaSide, table, pending, marks, texts, decisions>>

-----------------------------------------------------------------------------
(* TemplateService.SyncPendingStatus *)

(* GetByMetaStatus: the rows that are PENDING, of which the name is used.    *)
ListPending(p) ==
  LET found == {[id |-> i, row |-> [NoRow EXCEPT !.name = rows[i].name,
                                                 !.status = "PENDING"]] :
                  i \in {j \in ids : rows[j].status = "PENDING"}} IN
  /\ at[p] = "idle" /\ found # {}
  /\ at' = [at EXCEPT ![p] = "check"]
  /\ pending' = [pending EXCEPT ![p] = found]
  /\ UNCHANGED <<metaSide, table, hand, listed, marks, bounds>>

(* Mutant of Answers: the name does not reach Meta. *)
AnswersAny(n) == live

(* Client.GetTemplateByName asks by the name alone; an empty name asks for   *)
(* any.                                                                      *)
Answers(n) == {m \in live : n \in {None, m.key[1]}}

(* The first template of Meta's answer counts.  If its status differs from   *)
(* that of the row as it was read, it is to be stored.                       *)
Check(p, h) ==
  /\ at[p] = "check" /\ h \in pending[p]
  /\ pending' = [pending EXCEPT ![p] = @ \ {h}]
  /\ \/ /\ \E m \in Answers(h.row.name) :
             /\ m.status # h.row.status
             /\ Take(p, "status", h.id, [h.row EXCEPT !.status = m.status])
        /\ UNCHANGED touched
     \/ /\ \/ Answers(h.row.name) = {}
           \/ \E m \in Answers(h.row.name) : m.status = h.row.status
        /\ at' = [at EXCEPT ![p] = IF pending[p] = {h} THEN "idle" ELSE "check"]
        /\ UNCHANGED <<hand, touched>>
  /\ UNCHANGED <<metaSide, table, listed, edited, asked, adrift, bounds>>

(* TemplateRepo.UpdateMetaStatus: the two columns only.                      *)
StoreStatus(p) ==
  LET i == hand[p].id  s == hand[p].row.status IN
  /\ at[p] = "status"
  /\ rows' = IF i \in ids
               THEN [rows EXCEPT ![i].status = s, ![i].verified = s = "APPROVED"]
               ELSE rows
  /\ asked' = asked \cup ({i} \cap ids)
  /\ Onward(p)
  /\ UNCHANGED <<metaSide, ids, used, listed, pending, edited, adrift, bounds>>

-----------------------------------------------------------------------------
(* WhatsAppHandler.processTemplateStatusUpdate *)

(* The row with what the event says, which brings the id w, or none: 0.      *)
(* Other events leave verified alone.                                        *)
Told(r, e, w) ==
  [r EXCEPT !.wa = IF w = 0 THEN @ ELSE w, !.status = e.status,
            !.verified = e.status = "APPROVED" \/ (e.status = "OTHER" /\ @)]

(* An event for which no row is found is dropped.                            *)
Hear(p, e) ==
  /\ at[p] = "idle" /\ e \in events
  /\ \E i \in RowsOf(e.key), w \in {0, e.id} :
       Take(p, "update", i, Told(rows[i], e, w))
  /\ UNCHANGED <<metaSide, table, listed, pending, marks, bounds>>

-----------------------------------------------------------------------------
(* PUT and DELETE /api/v1/templates/{id} *)

(* TemplateHandler.update builds a row of the request's fields, which has    *)
(* neither Meta's id nor Meta's name, and writes it over the row.            *)
Edited(g) == [wa |-> 0, name |-> None, lang |-> g[1], status |-> g[2],
              verified |-> g[3], text |-> texts + 1]

Edit(i, r) ==
  /\ i \in ids /\ texts < MaxTexts /\ Unique(i, r)
  /\ texts' = texts + 1
  /\ rows' = [rows EXCEPT ![i] = r]
  /\ edited' = edited \cup {i}
  /\ touched' = touched \cup {p \in Proc : hand[p].id = i}
  /\ adrift' = adrift \cup ({KeyOf(rows[i])} \cap Key)
  /\ UNCHANGED <<metaSide, ids, used, at, memory, asked, decisions, faults>>

(* TemplateService.Delete reads the row, and uses its name ...               *)
DeleteRead(p, i) ==
  /\ at[p] = "idle" /\ i \in ids
  /\ Take(p, IF rows[i].name = None THEN "removeOnly" ELSE "deleteMeta", i,
          [NoRow EXCEPT !.name = rows[i].name, !.wa = rows[i].wa])
  /\ UNCHANGED <<metaSide, table, listed, pending, marks, bounds>>

(* Mutant of GoneWith: Meta is not asked. *)
GoneWithout(r) == {}

(* Client.DeleteTemplate: by the name, hence in all languages.               *)
GoneWith(r) == {m \in live : m.key[1] = r.name}

(* ... has it deleted at Meta, and goes on if that fails ...                 *)
DeleteMeta(p) ==
  /\ at[p] = "deleteMeta"
  /\ at' = [at EXCEPT ![p] = "remove"]
  /\ live' = live \ GoneWith(hand[p].row)
  /\ UNCHANGED <<events, issued, approved, table, memory, marks, bounds>>

DeleteMetaFails(p) ==
  /\ at[p] = "deleteMeta"
  /\ Fault
  /\ at' = [at EXCEPT ![p] = "removeOnly"]
  /\ UNCHANGED <<metaSide, table, memory, marks, texts, decisions>>

(* ... and removes the row, though its template may live on: it was never    *)
(* asked for at Meta, or it has been made again since.                       *)
Remove(p) ==
  LET i == hand[p].id
      left == {m \in live : /\ i \in ids /\ m.key = KeyOf(rows[i])
                            /\ at[p] = "removeOnly" \/ m.id # hand[p].row.wa} IN
  /\ at[p] \in {"remove", "removeOnly"}
  /\ ids' = ids \ {i}
  /\ rows' = [rows EXCEPT ![i] = NoRow]
  /\ adrift' = adrift \cup {m.key : m \in left}
  /\ Onward(p)
  /\ UNCHANGED <<metaSide, used, listed, pending, edited, asked, bounds>>

(* A request or delivery ends before it is done: its calls fail.             *)
Abandon(p) ==
  /\ at[p] # "idle"
  /\ Fault
  /\ at' = [at EXCEPT ![p] = "idle"]
  /\ hand' = [hand EXCEPT ![p] = NoHand]
  /\ listed' = [listed EXCEPT ![p] = {}]
  /\ pending' = [pending EXCEPT ![p] = {}]
  /\ touched' = touched \ {p}
  /\ adrift' = IF at[p] = "insert" THEN adrift \cup {KeyOf(hand[p].row)} ELSE adrift
  /\ UNCHANGED <<metaSide, table, edited, asked, texts, decisions>>

Step(p) ==
  \/ \E k \in Key, w \in MetaId, s \in Status \ {"OTHER"} : Create(p, k, w, s)
  \/ \E i \in Id : Insert(p, i) \/ DeleteRead(p, i)
  \/ InsertRefused(p) \/ InsertFails(p)
  \/ Update(p) \/ UpdateRefused(p) \/ UpdateFails(p)
  \/ ListTemplates(p) \/ \E m \in listed[p] : LookUp(p, m)
  \/ ListPending(p) \/ (\E h \in pending[p] : Check(p, h)) \/ StoreStatus(p)
  \/ \E e \in events : Hear(p, e)
  \/ DeleteMeta(p) \/ DeleteMetaFails(p) \/ Remove(p)
  \/ Abandon(p)

Next ==
  \/ \E p \in Proc : Step(p)
  \/ \E i \in Id, g \in Given : Edit(i, Edited(g))
  \/ \E k \in Key, w \in MetaId : MakeAtMeta(k, w)
  \/ \E n \in Name : DeleteAtMeta(n)
  \/ \E m \in live, s \in Status : Decide(m, s)

Spec == Init /\ [][Next]_vars

-----------------------------------------------------------------------------
(* What the table promises *)

(* A row that has an id of Meta's has the name and the language of the       *)
(* template that the id was made for, however old the list, event or copy    *)
(* was that it was last written from.                                        *)
IdentityAgrees ==
  \A i \in ids : rows[i].wa # 0 => issued[rows[i].wa] = KeyOf(rows[i])

Inserting(k) == \E p \in Proc : at[p] = "insert" /\ KeyOf(hand[p].row) = k

(* A template at Meta that was created here, or that a synchronisation or an *)
(* event has counted, has a row or is about to get it, unless its row was    *)
(* edited by hand, could not be inserted, or was deleted without it.  In     *)
(* particular it has one when the row's id turns out to be taken.            *)
Covered ==
  \A m \in live : \/ \E i \in ids : KeyOf(rows[i]) = m.key
                  \/ Inserting(m.key)
                  \/ m.key \in adrift

(* Synchronisations and events keep the text of a row.  An edit is undone    *)
(* only by one that had read the row before it and writes it back after it.  *)
EditsKept ==
  [][\A i \in ids \cap ids' :
       rows'[i].text # rows[i].text =>
         \/ texts' = texts + 1
         \/ \E p \in touched : at[p] = "update" /\ hand[p].id = i]_table

(* A row is verified only if Meta approved the template of its name and      *)
(* language some time, or an administrator has said so, or its status was    *)
(* asked for by the name: then Meta approved one of that name.               *)
VerifiedByMeta ==
  \A i \in ids : rows[i].verified =>
    \/ KeyOf(rows[i]) \in approved
    \/ i \in asked /\ \E k \in approved : k[1] = rows[i].name
    \/ i \in edited
=============================================================================
