--------------------------- MODULE DeliveryStatus ---------------------------
(***************************************************************************)
(* The life of one row of table messages: the worker that sends it and     *)
(* stores the id the WhatsApp API gave it (internal/queue/worker.go), and  *)
(* the status callbacks of the API, each handled by a goroutine of its own *)
(* (processStatus in internal/api/webhook/whatsapp.go).  Both read or      *)
(* update the row and then broadcast the status to the company's browsers, *)
(* in separate steps.                                                      *)
(*                                                                         *)
(* The API may report a status several times, in any order, and before the *)
(* worker has stored the id.  The queue delivers the message again if the  *)
(* process ends before the acknowledgement; a message sent twice has two   *)
(* ids and two series of reports.                                          *)
(***************************************************************************)
EXTENDS Naturals, FiniteSets

CONSTANTS
  Hook,      \* the calls of processStatus for reports of this message
  LocalId,   \* the message_id the handler invented when it stored the row
  NoId,      \* the worker holds no id
  MaxCrashes, MaxFaults  \* bounds

ASSUME IdAssumption == LocalId \notin Nat /\ NoId \notin Nat /\ LocalId # NoId

ASSUME BoundAssumption == MaxCrashes \in Nat /\ MaxFaults \in Nat

Status == {"pending", "sent", "delivered", "read", "failed"}
Event == Status \ {"pending"}
Id == 1 .. (MaxCrashes + 1)   \* the n-th accepted send has id n

VARIABLES
  status,    \* messages.status
  mid,       \* messages.message_id
  pc,        \* the worker's next step with this message, or "done"
  got,       \* the id the send call returned to the worker
  accepted,  \* how many sends the API has accepted
  reported,  \* reported[n]: what the API has begun to report of id n
  hook,      \* hook[h]: the next step of callback h
  ev,        \* ev[h]: the status that h carries
  shown,     \* the status in the last MessageStatusUpdated broadcast
  handled,   \* history: statuses of callbacks that found the row and finished
  missed,    \* history: statuses of callbacks that did not find the row
  early,     \* history: a read receipt was handled before its delivery receipt
  raced,     \* history: two updates of the row overlapped
  crossed,   \* history: two updates overlapped, their broadcasts included
  crashes, faults

rowVars == <<status, mid>>
apiVars == <<accepted, reported>>
hookVars == <<hook, ev>>
history == <<handled, missed, early, raced, crossed>>
vars == <<status, mid, pc, got, accepted, reported, hook, ev, shown, handled,
          missed, early, raced, crossed, crashes, faults>>

TypeOK ==
  /\ status \in Status
  /\ mid \in Id \cup {LocalId}
  /\ pc \in {"send", "record", "notify", "fail", "ack", "done"}
  /\ got \in Id \cup {NoId}
  /\ accepted \in 0 .. MaxCrashes + 1
  /\ reported \in [Id -> SUBSET Event]
  /\ hook \in [Hook -> {"new", "write", "notify", "done"}]
  /\ ev \in [Hook -> Event]
  /\ shown \in Status
  /\ handled \in SUBSET Event
  /\ missed \in SUBSET Event
  /\ early \in BOOLEAN
  /\ raced \in BOOLEAN
  /\ crossed \in BOOLEAN
  /\ crashes \in 0 .. MaxCrashes
  /\ faults \in 0 .. MaxFaults

Init ==
  /\ status = "pending"
  /\ mid = LocalId
  /\ pc = "send"
  /\ got = NoId
  /\ accepted = 0
  /\ reported = [n \in Id |-> {}]
  /\ hook = [h \in Hook |-> "new"]
  /\ ev = [h \in Hook |-> "sent"]
  /\ shown = "pending"
  /\ handled = {}
  /\ missed = {}
  /\ early = FALSE
  /\ raced = FALSE
  /\ crossed = FALSE
  /\ crashes = 0
  /\ faults = 0

(* A database call fails unexpectedly. *)
Fault == faults < MaxFaults /\ faults' = faults + 1

Writing == {h \in Hook : hook[h] = "write"}
Busy == {h \in Hook : hook[h] \in {"write", "notify"}}

-----------------------------------------------------------------------------
(* WorkerPool.processMessage.  The look-ups and the quota (module            *)
(* OutboundPipeline) come before the send; that they fail is the same here   *)
(* as a refused send.                                                        *)

SendAccepted ==
  /\ pc = "send" /\ pc' = "record"
  /\ accepted' = accepted + 1
  /\ got' = accepted + 1
  /\ UNCHANGED <<rowVars, reported, hookVars, shown, history, crashes, faults>>

SendRefused ==
  /\ pc = "send" /\ pc' = "fail"
  /\ UNCHANGED <<rowVars, got, apiVars, hookVars, shown, history, crashes, faults>>

(* Accepted, but the answer is lost: the worker sees an error. *)
SendTimedOut ==
  /\ pc = "send" /\ pc' = "fail"
  /\ accepted' = accepted + 1
  /\ UNCHANGED <<rowVars, got, reported, hookVars, shown, history, crashes, faults>>

(* WHERE status = 'pending': a row that has moved on is left alone. *)
UpdateWAMessageID ==
  /\ pc = "record" /\ pc' = "notify"
  /\ \/ /\ UNCHANGED faults
        /\ IF status = "pending" THEN status' = "sent" /\ mid' = got
                                 ELSE UNCHANGED rowVars
     \/ Fault /\ UNCHANGED rowVars
  /\ crossed' = (crossed \/ Busy # {})
  /\ UNCHANGED <<got, apiVars, hookVars, shown, handled, missed, early, raced,
                 crashes>>

(* The worker broadcasts "sent" whatever the row says by now. *)
NotifySent ==
  /\ pc = "notify" /\ pc' = "ack"
  /\ \/ shown' = "sent" /\ UNCHANGED faults
     \/ UNCHANGED shown /\ Fault
  /\ UNCHANGED <<rowVars, got, apiVars, hookVars, history, crashes>>

(* failMessage: marks the row failed whatever its status, and broadcasts     *)
(* nothing.                                                                  *)
SetFailed ==
  /\ pc = "fail" /\ pc' = "ack"
  /\ \/ status' = "failed" /\ UNCHANGED faults
     \/ UNCHANGED status /\ Fault
  /\ raced' = (raced \/ Writing # {})
  /\ crossed' = (crossed \/ Busy # {})
  /\ UNCHANGED <<mid, got, apiVars, hookVars, shown, handled, missed, early,
                 crashes>>

Ack ==
  /\ pc = "ack" /\ pc' = "done"
  /\ got' = NoId
  /\ UNCHANGED <<rowVars, apiVars, hookVars, shown, history, crashes, faults>>

-----------------------------------------------------------------------------
(* The WhatsApp API *)

(* What may be reported next of a message: sent, delivered, read in this     *)
(* order, or failed instead of delivered.                                    *)
MayReport(n, e) ==
  LET before == reported[n] IN
  CASE e = "sent"      -> "failed" \notin before
    [] e = "delivered" -> "sent" \in before /\ "failed" \notin before
    [] e = "read"      -> "delivered" \in before
    [] e = "failed"    -> "delivered" \notin before

Report(n, e) ==
  /\ n <= accepted
  /\ e \notin reported[n] /\ MayReport(n, e)
  /\ reported' = [reported EXCEPT ![n] = @ \cup {e}]
  /\ UNCHANGED <<rowVars, pc, got, accepted, hookVars, shown, history, crashes,
                 faults>>

-----------------------------------------------------------------------------
(* WhatsAppHandler.processStatus *)

(* Mutant of Transitions: a read or failed message is not a case of its own. *)
TransitionsNotFinal ==
  [pending |-> {"sent", "failed"}, sent |-> {"delivered", "failed"},
   delivered |-> {"read"}, read |-> Event, failed |-> Event]

(* Mutant of Transitions: a sent message can no longer fail. *)
TransitionsSentCannotFail ==
  [pending |-> {"sent", "failed"}, sent |-> {"delivered"},
   delivered |-> {"read"}, read |-> {}, failed |-> {}]

(* isValidStatusTransition *)
Transitions ==
  [pending |-> {"sent", "failed"}, sent |-> {"delivered", "failed"},
   delivered |-> {"read"}, read |-> {}, failed |-> {}]

(* GetByMessageID: no row has this id, or the query fails.  The callback is  *)
(* dropped and the API told that all is well.                                *)
HookMisses(h, n, e) ==
  /\ hook[h] = "new" /\ e \in reported[n]
  /\ \/ mid # n /\ UNCHANGED faults
     \/ mid = n /\ Fault
  /\ hook' = [hook EXCEPT ![h] = "done"]
  /\ missed' = missed \cup {e}
  /\ UNCHANGED <<rowVars, pc, got, apiVars, ev, shown, handled, early, raced,
                 crossed, crashes>>

(* GetByMessageID finds the row; the transition is checked on the status     *)
(* read here, and the update follows in a later step.                        *)
HookReads(h, n, e) ==
  /\ hook[h] = "new" /\ e \in reported[n]
  /\ mid = n
  /\ ev' = [ev EXCEPT ![h] = e]
  /\ early' = (early \/ (e = "read" /\ "delivered" \notin handled))
  /\ IF e \in Transitions[status]
     THEN /\ hook' = [hook EXCEPT ![h] = "write"]
          /\ raced' = (raced \/ Writing # {})
          /\ crossed' = (crossed \/ Busy # {} \/ pc = "notify")
          /\ UNCHANGED handled
     ELSE /\ hook' = [hook EXCEPT ![h] = "done"]
          /\ handled' = handled \cup {e}
          /\ UNCHANGED <<raced, crossed>>
  /\ UNCHANGED <<rowVars, pc, got, apiVars, shown, missed, crashes, faults>>

(* UpdateDeliveryStatus or SetFailed, by primary key only. *)
HookWrites(h) ==
  /\ hook[h] = "write"
  /\ \/ /\ status' = ev[h]
        /\ hook' = [hook EXCEPT ![h] = "notify"]
        /\ UNCHANGED faults
     \/ /\ Fault
        /\ hook' = [hook EXCEPT ![h] = "done"]
        /\ UNCHANGED status
  /\ UNCHANGED <<mid, pc, got, apiVars, ev, shown, history, crashes>>

(* Mutant of HookNotifies: the payload was loaded before the update. *)
HookNotifiesOld(h) ==
  /\ hook[h] = "notify"
  /\ hook' = [hook EXCEPT ![h] = "done"]
  /\ handled' = handled \cup {ev[h]}
  /\ shown' = CHOOSE s \in Status : ev[h] \in Transitions[s]
  /\ UNCHANGED <<rowVars, pc, got, apiVars, ev, missed, early, raced, crossed,
                 crashes, faults>>

(* GetByID of the conversation, for its company, and the broadcast. *)
HookNotifies(h) ==
  /\ hook[h] = "notify"
  /\ hook' = [hook EXCEPT ![h] = "done"]
  /\ handled' = handled \cup {ev[h]}
  /\ \/ shown' = ev[h] /\ UNCHANGED faults
     \/ UNCHANGED shown /\ Fault
  /\ UNCHANGED <<rowVars, pc, got, apiVars, ev, missed, early, raced, crossed,
                 crashes>>

-----------------------------------------------------------------------------
(* The process is killed and restarted: callbacks under way are gone, and    *)
(* the queue delivers the message again unless it was acknowledged.          *)
Crash ==
  /\ crashes < MaxCrashes
  /\ crashes' = crashes + 1
  /\ hook' = [h \in Hook |-> IF h \in Busy THEN "done" ELSE hook[h]]
  /\ pc' = IF pc = "done" THEN "done" ELSE "send"
  /\ got' = NoId
  /\ UNCHANGED <<rowVars, apiVars, ev, shown, history, faults>>

WorkerStep == \/ SendAccepted \/ SendRefused \/ SendTimedOut \/ UpdateWAMessageID
              \/ NotifySent \/ SetFailed \/ Ack

Next ==
  \/ WorkerStep
  \/ \E n \in Id, e \in Event : Report(n, e)
  \/ \E h \in Hook, n \in Id, e \in Event : HookMisses(h, n, e) \/ HookReads(h, n, e)
  \/ \E h \in Hook : HookWrites(h) \/ HookNotifies(h)
  \/ Crash

Spec == Init /\ [][Next]_vars

-----------------------------------------------------------------------------
(* Properties *)

Contract == INSTANCE StatusContract WITH redelivered <- crashes > 0

(* The status of a message moves one way, unless the process was killed with *)
(* the message unacknowledged, after which the worker may mark it failed, or *)
(* two updates of the row overlapped.  In particular duplicated and          *)
(* reordered callbacks, and callbacks around the worker's own update, never  *)
(* move it back.                                                             *)
OneWayUnlessRaced == Contract!Spec

(* message_id is written at most once: a message the queue delivers again    *)
(* keeps the id of its first recorded send, by which callbacks find it.      *)
MidStable == [][mid # LocalId => mid' = mid]_vars

(* The furthest status handled. *)
Reached == IF "failed" \in handled THEN "failed"
           ELSE IF "read" \in handled THEN "read" ELSE "delivered"

(* If callbacks did not overlap, the read receipt did not overtake the       *)
(* delivery receipt, and nothing after "sent" came before the worker had     *)
(* stored the id, then the row shows the furthest status handled: no         *)
(* duplicate, late "sent" or worker step makes it stay behind.               *)
CatchesUp ==
  /\ handled \ {"sent"} # {} /\ Writing = {} /\ missed \subseteq {"sent"}
  /\ ~early /\ ~raced /\ crashes = 0 /\ faults = 0
  => status = Reached \/ \E h \in Busy : status = ev[h]

(* When no update or broadcast overlapped another and nothing is under way,  *)
(* the browsers were last told the stored status, or the worker has marked   *)
(* the message failed, which it tells nobody.                                *)
ShownIsStored ==
  /\ Busy = {} /\ pc # "notify" /\ ~crossed /\ crashes = 0 /\ faults = 0
  => shown = status \/ (status = "failed" /\ shown = "pending")

(* The status of a message only moves one way: pending, sent, delivered,     *)
(* read, or sent, failed.                                                    *)
OneWay == [][status' # status => <<status, status'>> \in Contract!Order]_vars

=============================================================================
