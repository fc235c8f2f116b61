------------------------ MODULE DeliveryStatusProofs ------------------------
(***************************************************************************)
(* Proofs about module DeliveryStatus, for any number of callbacks,        *)
(* crashes and faults: its types, that message_id is written once, and     *)
(* that it implements StatusContract.                                      *)
(***************************************************************************)
EXTENDS DeliveryStatus, TLAPS

(* Sends of the current process are counted: an attempt that has not been    *)
(* accepted yet still has an id left.                                        *)
SendsCounted == accepted <= crashes + (IF pc = "send" THEN 0 ELSE 1)

(* Until the first recorded send the row is untouched, and its first         *)
(* recording comes with an id.                                               *)
FirstDelivery ==
  /\ status = "pending" => mid = LocalId
  /\ crashes = 0 /\ pc \in {"send", "record", "fail"}
       => status = "pending" /\ mid = LocalId
  /\ pc = "record" => got \in Id

(* A callback that is about to write has found the id in the row; as long as *)
(* updates did not overlap it is the only one and its check still holds.     *)
OneWriter ==
  /\ \A h \in Hook : hook[h] = "write" => mid # LocalId
  /\ ~raced => /\ \A h \in Hook : hook[h] = "write" => ev[h] \in Transitions[status]
               /\ \A g, h \in Hook : hook[g] = "write" /\ hook[h] = "write" => g = h

StatusInv == TypeOK /\ SendsCounted /\ FirstDelivery /\ OneWriter

LEMMA InvInit == Init => StatusInv
<1> SUFFICES ASSUME Init PROVE StatusInv OBVIOUS
<1>1. early \in BOOLEAN /\ raced \in BOOLEAN /\ crossed \in BOOLEAN BY DEF Init
<1>2. /\ accepted \in 0 .. MaxCrashes + 1 /\ crashes \in 0 .. MaxCrashes
      /\ faults \in 0 .. MaxFaults
  BY BoundAssumption DEF Init
<1>3. TypeOK BY <1>1, <1>2 DEF Init, TypeOK, Status, Event
<1>4. SendsCounted /\ FirstDelivery BY DEF Init, SendsCounted, FirstDelivery
<1>5. OneWriter BY DEF Init, OneWriter
<1> QED BY <1>3, <1>4, <1>5 DEF StatusInv

(* An id is never the handler's own. *)
LEMMA IdIsNotLocal == ASSUME NEW n \in Id PROVE n # LocalId
BY IdAssumption, BoundAssumption DEF Id

(* Every step preserves the invariant. *)
LEMMA InvStep == StatusInv /\ [Next]_vars => StatusInv'
<1> SUFFICES ASSUME StatusInv, [Next]_vars PROVE StatusInv' OBVIOUS
<1>0. TypeOK /\ SendsCounted /\ FirstDelivery /\ OneWriter BY DEF StatusInv
<1>1. CASE SendAccepted
  <2>0. accepted + 1 \in Id /\ accepted' \in 0 .. MaxCrashes + 1
    BY <1>1, <1>0, BoundAssumption DEF TypeOK, SendsCounted, SendAccepted, Id
  <2>1. TypeOK'
    BY <1>1, <1>0, <2>0 DEF TypeOK, SendAccepted, rowVars, hookVars, history
  <2>2. SendsCounted'
    BY <1>1, <1>0 DEF TypeOK, SendsCounted, SendAccepted
  <2>3. FirstDelivery'
    BY <1>1, <1>0, <2>0 DEF FirstDelivery, SendAccepted, rowVars
  <2>4. OneWriter'
    BY <1>1, <1>0 DEF OneWriter, SendAccepted, rowVars, hookVars, history
  <2> QED BY <2>1, <2>2, <2>3, <2>4 DEF StatusInv
<1>2. CASE SendRefused
  <2>1. TypeOK'
    BY <1>2, <1>0 DEF TypeOK, SendRefused, rowVars, apiVars, hookVars, history
  <2>2. SendsCounted'
    BY <1>2, <1>0 DEF TypeOK, SendsCounted, SendRefused, apiVars
  <2>3. FirstDelivery'
    BY <1>2, <1>0 DEF FirstDelivery, SendRefused, rowVars
  <2>4. OneWriter'
    BY <1>2, <1>0 DEF OneWriter, SendRefused, rowVars, hookVars, history
  <2> QED BY <2>1, <2>2, <2>3, <2>4 DEF StatusInv
<1>3. CASE SendTimedOut
  <2>1. TypeOK'
    BY <1>3, <1>0, BoundAssumption
       DEF TypeOK, SendsCounted, SendTimedOut, rowVars, hookVars, history
  <2>2. SendsCounted'
    BY <1>3, <1>0 DEF TypeOK, SendsCounted, SendTimedOut
  <2>3. FirstDelivery'
    BY <1>3, <1>0 DEF FirstDelivery, SendTimedOut, rowVars
  <2>4. OneWriter'
    BY <1>3, <1>0 DEF OneWriter, SendTimedOut, rowVars, hookVars, history
  <2> QED BY <2>1, <2>2, <2>3, <2>4 DEF StatusInv
<1>4. CASE UpdateWAMessageID
  <2>1. TypeOK'
    BY <1>4, <1>0, BoundAssumption
       DEF TypeOK, FirstDelivery, Status, UpdateWAMessageID, rowVars, apiVars,
           hookVars, Fault
  <2>2. SendsCounted'
    BY <1>4, <1>0 DEF SendsCounted, UpdateWAMessageID, apiVars
  <2>3. FirstDelivery'
    BY <1>4, <1>0 DEF FirstDelivery, UpdateWAMessageID, rowVars
  <2>4. OneWriter'
    BY <1>4, <1>0
       DEF FirstDelivery, OneWriter, UpdateWAMessageID, rowVars, hookVars
  <2> QED BY <2>1, <2>2, <2>3, <2>4 DEF StatusInv
<1>5. CASE NotifySent
  <2>1. TypeOK'
    BY <1>5, <1>0, BoundAssumption
       DEF TypeOK, Status, NotifySent, rowVars, apiVars, hookVars, history, Fault
  <2>2. SendsCounted'
    BY <1>5, <1>0 DEF SendsCounted, NotifySent, apiVars
  <2>3. FirstDelivery'
    BY <1>5, <1>0 DEF FirstDelivery, NotifySent, rowVars
  <2>4. OneWriter'
    BY <1>5, <1>0 DEF OneWriter, NotifySent, rowVars, hookVars, history
  <2> QED BY <2>1, <2>2, <2>3, <2>4 DEF StatusInv
<1>6. CASE SetFailed
  <2>1. TypeOK'
    BY <1>6, <1>0, BoundAssumption
       DEF TypeOK, Status, SetFailed, apiVars, hookVars, Fault
  <2>2. SendsCounted'
    BY <1>6, <1>0 DEF SendsCounted, SetFailed, apiVars
  <2>3. FirstDelivery'
    BY <1>6, <1>0 DEF FirstDelivery, SetFailed
  <2>4. OneWriter'
    BY <1>6, <1>0 DEF OneWriter, SetFailed, hookVars, Writing
  <2> QED BY <2>1, <2>2, <2>3, <2>4 DEF StatusInv
<1>7. CASE Ack
  <2>1. TypeOK'
    BY <1>7, <1>0 DEF TypeOK, Ack, rowVars, apiVars, hookVars, history
  <2>2. SendsCounted'
    BY <1>7, <1>0 DEF SendsCounted, Ack, apiVars
  <2>3. FirstDelivery'
    BY <1>7, <1>0 DEF FirstDelivery, Ack, rowVars
  <2>4. OneWriter'
    BY <1>7, <1>0 DEF OneWriter, Ack, rowVars, hookVars, history
  <2> QED BY <2>1, <2>2, <2>3, <2>4 DEF StatusInv
<1>8. ASSUME NEW n \in Id, NEW e \in Event, Report(n, e) PROVE StatusInv'
  <2>1. TypeOK'
    BY <1>8, <1>0 DEF TypeOK, Report, rowVars, hookVars, history
  <2>2. SendsCounted'
    BY <1>8, <1>0 DEF SendsCounted, Report, TypeOK
  <2>3. FirstDelivery'
    BY <1>8, <1>0 DEF FirstDelivery, Report, rowVars
  <2>4. OneWriter'
    BY <1>8, <1>0 DEF OneWriter, Report, rowVars, hookVars, history
  <2> QED BY <2>1, <2>2, <2>3, <2>4 DEF StatusInv
<1>9. ASSUME NEW h \in Hook, NEW n \in Id, NEW e \in Event, HookMisses(h, n, e)
      PROVE StatusInv'
  <2>1. TypeOK'
    BY <1>9, <1>0, BoundAssumption DEF TypeOK, HookMisses, rowVars, apiVars, Fault
  <2>2. SendsCounted'
    BY <1>9, <1>0 DEF TypeOK, SendsCounted, HookMisses, apiVars
  <2>3. FirstDelivery'
    BY <1>9, <1>0 DEF FirstDelivery, HookMisses, rowVars
  <2>4. OneWriter'
    BY <1>9, <1>0 DEF TypeOK, OneWriter, HookMisses, rowVars
  <2> QED BY <2>1, <2>2, <2>3, <2>4 DEF StatusInv
<1>10. ASSUME NEW h \in Hook, NEW n \in Id, NEW e \in Event, HookReads(h, n, e)
      PROVE StatusInv'
  <2>1. TypeOK'
    <3>1. early' \in BOOLEAN BY <1>10 DEF HookReads
    <3>2. raced' \in BOOLEAN /\ crossed' \in BOOLEAN /\ handled' \in SUBSET Event
      BY <1>10, <1>0 DEF HookReads, TypeOK
    <3>3. /\ hook' \in [Hook -> {"new", "write", "notify", "done"}]
          /\ ev' \in [Hook -> Event]
      BY <1>10, <1>0 DEF HookReads, TypeOK
    <3> QED BY <1>10, <1>0, <3>1, <3>2, <3>3
            DEF TypeOK, HookReads, rowVars, apiVars
  <2>2. SendsCounted'
    BY <1>10, <1>0 DEF TypeOK, SendsCounted, HookReads, apiVars
  <2>3. FirstDelivery'
    BY <1>10, <1>0 DEF FirstDelivery, HookReads, rowVars
  <2>4. OneWriter'
    <3>1. hook \in [Hook -> {"new", "write", "notify", "done"}] /\ ev \in [Hook -> Event]
      BY <1>0 DEF TypeOK
    <3>2. mid' # LocalId /\ UNCHANGED status
      BY <1>10, IdIsNotLocal DEF HookReads, rowVars
    <3>3. CASE e \in Transitions[status]
      <4>1. ASSUME ~raced' PROVE ~raced /\ \A g \in Hook : hook'[g] = "write" => g = h
        BY <1>10, <3>1, <3>3, <4>1 DEF HookReads, Writing
      <4>2. ev'[h] = e BY <1>10, <3>1 DEF HookReads
      <4> QED BY <3>2, <3>3, <4>1, <4>2 DEF OneWriter
    <3>4. CASE e \notin Transitions[status]
      <4>1. hook'[h] = "done" /\ raced' = raced
        BY <1>10, <3>1, <3>4 DEF HookReads
      <4>2. \A g \in Hook \ {h} : hook'[g] = hook[g] /\ ev'[g] = ev[g]
        BY <1>10, <3>1, <3>4 DEF HookReads
      <4> QED BY <1>0, <3>2, <4>1, <4>2 DEF OneWriter
    <3> QED BY <3>3, <3>4
  <2> QED BY <2>1, <2>2, <2>3, <2>4 DEF StatusInv
<1>11. ASSUME NEW h \in Hook, HookWrites(h) PROVE StatusInv'
  <2>1. TypeOK'
    BY <1>11, <1>0, BoundAssumption
       DEF TypeOK, HookWrites, Status, Event, apiVars, history, Fault
  <2>2. SendsCounted'
    BY <1>11, <1>0 DEF TypeOK, SendsCounted, HookWrites, apiVars
  <2>3. FirstDelivery'
    BY <1>11, <1>0 DEF TypeOK, FirstDelivery, OneWriter, Event, HookWrites
  <2>4. OneWriter'
    BY <1>11, <1>0 DEF TypeOK, OneWriter, HookWrites, history
  <2> QED BY <2>1, <2>2, <2>3, <2>4 DEF StatusInv
<1>12. ASSUME NEW h \in Hook, HookNotifies(h) PROVE StatusInv'
  <2>1. TypeOK'
    <3>1. /\ ev[h] \in Event
          /\ shown' \in Status
      BY <1>12, <1>0 DEF HookNotifies, TypeOK, Event
    <3>2. faults' \in 0 .. MaxFaults
      BY <1>12, <1>0, BoundAssumption DEF HookNotifies, TypeOK, Fault
    <3>3. handled' \in SUBSET Event
      BY <1>12, <1>0, <3>1 DEF HookNotifies, TypeOK
    <3>4. hook' \in [Hook -> {"new", "write", "notify", "done"}]
      BY <1>12, <1>0 DEF HookNotifies, TypeOK
    <3> QED BY <1>12, <1>0, <3>1, <3>2, <3>3, <3>4
            DEF TypeOK, HookNotifies, rowVars, apiVars
  <2>2. SendsCounted'
    BY <1>12, <1>0 DEF TypeOK, SendsCounted, HookNotifies, apiVars
  <2>3. FirstDelivery'
    BY <1>12, <1>0 DEF FirstDelivery, HookNotifies, rowVars
  <2>4. OneWriter'
    BY <1>12, <1>0 DEF TypeOK, OneWriter, HookNotifies, rowVars
  <2> QED BY <2>1, <2>2, <2>3, <2>4 DEF StatusInv
<1>13. CASE Crash
  <2>1. TypeOK'
    BY <1>13, <1>0, BoundAssumption
       DEF TypeOK, Crash, rowVars, apiVars, history, Busy
  <2>2. SendsCounted'
    BY <1>13, <1>0, BoundAssumption DEF TypeOK, SendsCounted, Crash, apiVars
  <2>3. FirstDelivery'
    BY <1>13, <1>0, BoundAssumption DEF TypeOK, FirstDelivery, Crash, rowVars
  <2>4. OneWriter'
    BY <1>13, <1>0 DEF TypeOK, OneWriter, Crash, rowVars, history, Busy
  <2> QED BY <2>1, <2>2, <2>3, <2>4 DEF StatusInv
<1>14. CASE UNCHANGED vars
  BY <1>14, <1>0 DEF StatusInv, TypeOK, SendsCounted, FirstDelivery, OneWriter, vars
<1> QED
  BY <1>1, <1>2, <1>3, <1>4, <1>5, <1>6, <1>7, <1>8, <1>9, <1>10, <1>11, <1>12, <1>13, <1>14
     DEF Next, WorkerStep

THEOREM InvHolds == Spec => []StatusInv
<1>1. Init => StatusInv BY InvInit
<1>2. StatusInv /\ [Next]_vars => StatusInv' BY InvStep
<1> QED BY <1>1, <1>2, PTL DEF Spec

(* The variables of module DeliveryStatus keep their types. *)
THEOREM TypeCorrect == Spec => []TypeOK
<1>1. StatusInv => TypeOK BY DEF StatusInv
<1> QED BY <1>1, InvHolds, PTL

-----------------------------------------------------------------------------
(* The id of a message *)

LEMMA MidStep == StatusInv /\ [Next]_vars => (mid # LocalId => mid' = mid)
<1> SUFFICES ASSUME StatusInv, [Next]_vars, mid # LocalId PROVE mid' = mid OBVIOUS
<1>1. status # "pending" BY DEF StatusInv, FirstDelivery
<1>2. CASE UpdateWAMessageID BY <1>1, <1>2 DEF UpdateWAMessageID, rowVars
<1>3. CASE WorkerStep /\ ~UpdateWAMessageID
  BY <1>3 DEF WorkerStep, SendAccepted, SendRefused, SendTimedOut, NotifySent,
              SetFailed, Ack, rowVars
<1>4. ASSUME NEW n \in Id, NEW e \in Event, Report(n, e) PROVE mid' = mid
  BY <1>4 DEF Report, rowVars
<1>5. ASSUME NEW h \in Hook, NEW n \in Id, NEW e \in Event,
             HookMisses(h, n, e) \/ HookReads(h, n, e)
      PROVE mid' = mid
  BY <1>5 DEF HookMisses, HookReads, rowVars
<1>6. ASSUME NEW h \in Hook, HookWrites(h) \/ HookNotifies(h) PROVE mid' = mid
  BY <1>6 DEF HookWrites, HookNotifies, rowVars
<1>7. CASE Crash \/ UNCHANGED vars BY <1>7 DEF Crash, rowVars, vars
<1> QED BY <1>2, <1>3, <1>4, <1>5, <1>6, <1>7 DEF Next

(* Whatever the queue redelivers and the callbacks report, the row keeps the *)
(* first message id stored in it.                                            *)
THEOREM MidWrittenOnce == Spec => MidStable
<1>1. StatusInv /\ [Next]_vars => [mid # LocalId => mid' = mid]_vars BY MidStep
<1> QED BY <1>1, InvHolds, PTL DEF Spec, MidStable

-----------------------------------------------------------------------------
(* DeliveryStatus implements StatusContract *)

LEMMA ContractInit == Init => Contract!Init
BY DEF Init, Contract!Init

(* The updates of the row, each a step that the contract allows.             *)
LEMMA ContractStep == StatusInv /\ [Next]_vars => [Contract!Next]_Contract!vars
<1> SUFFICES ASSUME StatusInv, [Next]_vars PROVE [Contract!Next]_Contract!vars
  OBVIOUS
<1> USE DEF Contract!vars
<1>0. TypeOK /\ FirstDelivery /\ OneWriter BY DEF StatusInv
<1>1. CASE UpdateWAMessageID
  <2>1. (status = "pending" /\ status' = "sent") \/ UNCHANGED status
    BY <1>1 DEF UpdateWAMessageID, rowVars
  <2>2. UNCHANGED <<raced, crashes>> BY <1>1 DEF UpdateWAMessageID
  <2> QED BY <2>1, <2>2
          DEF Contract!Next, Contract!Advance, Contract!Status, Contract!Order
<1>2. CASE SetFailed
  <2>1. UNCHANGED crashes /\ raced' \in {raced, TRUE}
    BY <1>2, <1>0 DEF SetFailed, TypeOK
  <2>2. CASE UNCHANGED status /\ raced' = raced BY <2>1, <2>2
  <2>3. CASE UNCHANGED status /\ raced' = TRUE
    BY <2>1, <2>3 DEF Contract!Next, Contract!Race
  <2>4. CASE status' = "failed" /\ crashes > 0
    BY <2>1, <2>4 DEF Contract!Next, Contract!FailAgain
  <2>5. CASE status' = "failed" /\ ~(crashes > 0)
    <3>1. status = "pending" /\ mid = LocalId
      BY <1>0, <1>2, <2>5, BoundAssumption DEF TypeOK, FirstDelivery, SetFailed
    <3>2. Writing = {} BY <1>0, <3>1 DEF OneWriter, Writing
    <3>3. raced' = raced BY <1>0, <1>2, <3>2 DEF SetFailed, TypeOK
    <3> QED BY <2>1, <2>5, <3>1, <3>3
            DEF Contract!Next, Contract!Advance, Contract!Status, Contract!Order
  <2> QED BY <1>2, <2>1, <2>2, <2>3, <2>4, <2>5 DEF SetFailed
<1>3. ASSUME NEW h \in Hook, NEW n \in Id, NEW e \in Event, HookReads(h, n, e)
      PROVE [Contract!Next]_Contract!vars
  <2>1. UNCHANGED <<status, crashes>> /\ (raced' = raced \/ raced' = TRUE)
    BY <1>3, <1>0 DEF HookReads, TypeOK, rowVars
  <2> QED BY <2>1 DEF Contract!Next, Contract!Race
<1>4. ASSUME NEW h \in Hook, HookWrites(h) PROVE [Contract!Next]_Contract!vars
  <2>1. UNCHANGED <<raced, crashes>> BY <1>4 DEF HookWrites, history
  <2>2. status' = status \/ status' = ev[h] BY <1>4 DEF HookWrites
  <2>3. ev[h] \in Event /\ status \in Status BY <1>0 DEF TypeOK
  <2>4. CASE raced /\ status' = ev[h]
    BY <2>1, <2>3, <2>4
       DEF Contract!Next, Contract!Overwrite, Contract!Status, Event, Status
  <2>5. CASE ~raced /\ status' = ev[h]
    <3>1. ev[h] \in Transitions[status] BY <1>0, <1>4, <2>5 DEF OneWriter, HookWrites
    <3>2. <<status, ev[h]>> \in Contract!Order /\ ev[h] \in Contract!Status
      BY <2>3, <3>1
         DEF Transitions, Contract!Order, Contract!Status, Event, Status
    <3> QED BY <2>1, <2>5, <3>2 DEF Contract!Next, Contract!Advance
  <2> QED BY <2>1, <2>2, <2>4, <2>5
<1>5. CASE Crash
  <2>1. UNCHANGED <<status, raced>> /\ crashes' > 0
    BY <1>5, <1>0, BoundAssumption DEF Crash, TypeOK, rowVars, history
  <2> QED BY <2>1 DEF Contract!Next, Contract!Redeliver
<1>6. CASE WorkerStep /\ ~UpdateWAMessageID /\ ~SetFailed
  BY <1>6 DEF WorkerStep, SendAccepted, SendRefused, SendTimedOut, NotifySent, Ack,
              rowVars, history
<1>7. ASSUME NEW n \in Id, NEW e \in Event, Report(n, e)
      PROVE [Contract!Next]_Contract!vars
  BY <1>7 DEF Report, rowVars, history
<1>8. ASSUME NEW h \in Hook, NEW n \in Id, NEW e \in Event, HookMisses(h, n, e)
      PROVE [Contract!Next]_Contract!vars
  BY <1>8 DEF HookMisses, rowVars
<1>9. ASSUME NEW h \in Hook, HookNotifies(h) PROVE [Contract!Next]_Contract!vars
  BY <1>9 DEF HookNotifies, rowVars
<1>10. CASE UNCHANGED vars BY <1>10 DEF vars
<1> QED
  BY <1>1, <1>2, <1>3, <1>4, <1>5, <1>6, <1>7, <1>8, <1>9, <1>10 DEF Next

(* The worker and any number of concurrent, duplicated, reordered and early  *)
(* callbacks keep the promise of StatusContract.                             *)
THEOREM ImplementsContract == Spec => OneWayUnlessRaced
<1>1. Init => Contract!Init BY ContractInit
<1>2. StatusInv /\ [Next]_vars => [Contract!Next]_Contract!vars BY ContractStep
<1> QED BY <1>1, <1>2, InvHolds, PTL DEF Spec, OneWayUnlessRaced, Contract!Spec

-----------------------------------------------------------------------------
(* What the browsers were told *)

(* Nothing overlapped, no crash, no failing call.                            *)
Calm == ~crossed /\ crashes = 0 /\ faults = 0

(* Then the row is untouched until the worker records its send, no callback  *)
(* touches it until "sent" was told, and callbacks come one by one.          *)
Told == Calm =>
  /\ pc \in {"send", "record", "fail"} => status = "pending" /\ shown = "pending"
  /\ pc = "notify" => status = "sent"
  /\ pc \in {"send", "record", "fail", "notify"} => Busy = {}
  /\ \A g, h \in Busy : g = h
  /\ \A h \in Hook : hook[h] = "notify" => status = ev[h]
  /\ Busy = {} /\ pc # "notify" => shown = status \/ (status = "failed" /\ shown = "pending")

ToldInv == StatusInv /\ Told

LEMMA FaultCounts == ASSUME TypeOK, Fault PROVE faults' # 0
BY BoundAssumption DEF TypeOK, Fault

LEMMA FaultsStay ==
  ASSUME TypeOK, [Next]_vars, faults' = 0, crashes' = 0
  PROVE  /\ faults = 0 /\ UNCHANGED faults /\ ~Fault
         /\ crashes = 0 /\ ~Crash
<1>1. \/ UNCHANGED faults \/ Fault
  BY DEF Next, WorkerStep, SendAccepted, SendRefused, SendTimedOut, UpdateWAMessageID,
         NotifySent, SetFailed, Ack, Report, HookMisses, HookReads, HookWrites,
         HookNotifies, Crash, vars
<1>2. ~Fault
  BY FaultCounts
<1>3. ~Crash
  <2>1. crashes + 1 # 0
    BY BoundAssumption DEF TypeOK
  <2> QED BY <2>1 DEF Crash
<1>4. UNCHANGED crashes
  BY <1>3 DEF Next, WorkerStep, SendAccepted, SendRefused, SendTimedOut,
         UpdateWAMessageID, NotifySent, SetFailed, Ack, Report, HookMisses, HookReads,
         HookWrites, HookNotifies, vars
<1> QED BY <1>1, <1>2, <1>3, <1>4

LEMMA ToldStep == ToldInv /\ [Next]_vars => ToldInv'
<1> SUFFICES ASSUME ToldInv, [Next]_vars, Calm' PROVE Told'
  BY InvStep DEF ToldInv, Told
<1>0. StatusInv /\ TypeOK /\ FirstDelivery /\ OneWriter /\ Told
  BY DEF ToldInv, StatusInv
<1>1. faults = 0 /\ crashes = 0 /\ ~Fault /\ ~Crash
  BY <1>0, FaultsStay DEF Calm
<1>2. ~crossed
  <2>1. crossed => crossed'
    BY <1>1 DEF Next, WorkerStep, SendAccepted, SendRefused, SendTimedOut,
         UpdateWAMessageID, NotifySent, SetFailed, Ack, Report, HookMisses, HookReads,
         HookWrites, HookNotifies, vars, history
  <2> QED BY <2>1 DEF Calm
<1>3. Calm
  BY <1>1, <1>2 DEF Calm
<1>4. CASE SendAccepted \/ SendRefused \/ SendTimedOut \/ Ack
  BY <1>0, <1>3, <1>4 DEF Told, SendAccepted, SendRefused, SendTimedOut, Ack, rowVars,
                          hookVars, Busy
<1>5. CASE UpdateWAMessageID
  BY <1>0, <1>1, <1>3, <1>5 DEF Told, UpdateWAMessageID, hookVars, Busy
<1>6. CASE NotifySent
  BY <1>0, <1>1, <1>3, <1>6 DEF Told, NotifySent, rowVars, hookVars, Busy
<1>7. CASE SetFailed
  BY <1>0, <1>1, <1>3, <1>7 DEF Told, SetFailed, hookVars, Busy
<1>8. CASE \E n \in Id, e \in Event : Report(n, e)
  BY <1>0, <1>3, <1>8 DEF Told, Report, rowVars, hookVars, Busy
<1>9. ASSUME NEW h \in Hook, NEW n \in Id, NEW e \in Event, HookMisses(h, n, e)
      PROVE  Told'
  <2>1. UNCHANGED <<status, pc, shown, ev>> /\ Busy' = Busy
    BY <1>0, <1>9 DEF HookMisses, rowVars, Busy, TypeOK
  <2>2. \A g \in Hook : hook'[g] = "notify" => hook[g] = "notify"
    BY <1>0, <1>9 DEF HookMisses, TypeOK
  <2> QED BY <1>0, <1>3, <2>1, <2>2 DEF Told
<1>10. ASSUME NEW h \in Hook, NEW n \in Id, NEW e \in Event, HookReads(h, n, e)
       PROVE  Told'
  <2>1. UNCHANGED <<status, pc, shown>> /\ hook[h] = "new" /\ ev' = [ev EXCEPT ![h] = e]
    BY <1>10 DEF HookReads, rowVars
  <2>2. \A g \in Hook : hook'[g] = "notify" => hook[g] = "notify" /\ ev'[g] = ev[g]
    BY <1>0, <1>10 DEF HookReads, TypeOK
  <2>3. pc \notin {"send", "record", "fail"}
    BY <1>0, <1>1, <1>10, IdIsNotLocal DEF HookReads, FirstDelivery
  <2>4. CASE hook' = [hook EXCEPT ![h] = "done"]
    <3>1. Busy' = Busy
      BY <1>0, <2>1, <2>4 DEF Busy, TypeOK
    <3> QED BY <1>0, <1>3, <2>1, <2>2, <3>1 DEF Told
  <2>5. CASE hook' = [hook EXCEPT ![h] = "write"] /\ Busy = {} /\ pc # "notify"
    <3>1. Busy' = {h}
      BY <1>0, <2>5 DEF Busy, TypeOK
    <3> QED BY <1>0, <1>3, <2>1, <2>2, <2>3, <2>5, <3>1 DEF Told
  <2> QED BY <1>10, <2>4, <2>5 DEF HookReads, Calm
<1>11. ASSUME NEW h \in Hook, HookWrites(h) PROVE Told'
  <2>1. /\ UNCHANGED <<pc, shown, ev>> /\ hook[h] = "write"
        /\ status' = ev[h] /\ hook' = [hook EXCEPT ![h] = "notify"]
    BY <1>1, <1>11 DEF HookWrites
  <2>2. Busy' = Busy /\ h \in Busy
    BY <1>0, <2>1 DEF Busy, TypeOK
  <2>3. \A g \in Hook : hook'[g] = "notify" => g = h
    BY <1>0, <1>3, <2>1, <2>2 DEF Told, Busy, TypeOK
  <2> QED BY <1>0, <1>3, <2>1, <2>2, <2>3 DEF Told
<1>12. ASSUME NEW h \in Hook, HookNotifies(h) PROVE Told'
  <2>1. /\ UNCHANGED <<status, pc, ev>> /\ hook[h] = "notify"
        /\ shown' = ev[h] /\ hook' = [hook EXCEPT ![h] = "done"]
    BY <1>1, <1>12 DEF HookNotifies, rowVars
  <2>2. h \in Busy /\ status = ev[h] /\ Busy' \subseteq Busy
    BY <1>0, <1>3, <2>1 DEF Told, Busy, TypeOK
  <2>3. \A g \in Hook : hook'[g] = "notify" => hook[g] = "notify"
    BY <1>0, <2>1 DEF TypeOK
  <2> QED BY <1>0, <1>3, <2>1, <2>2, <2>3 DEF Told
<1>13. CASE UNCHANGED vars
  BY <1>0, <1>3, <1>13 DEF Told, vars, Busy
<1> QED
  BY <1>1, <1>4, <1>5, <1>6, <1>7, <1>8, <1>9, <1>10, <1>11, <1>12, <1>13
  DEF Next, WorkerStep

LEMMA ToldInit == Init => ToldInv
<1> SUFFICES ASSUME Init PROVE ToldInv
  OBVIOUS
<1>1. Busy = {}
  BY DEF Init, Busy
<1>2. Told
  BY <1>1 DEF Init, Told
<1> QED BY <1>2, InvInit DEF ToldInv

(* When nothing overlapped and nothing is under way the browsers show the    *)
(* stored status, but for the failure nobody broadcasts.                     *)
THEOREM ShownTrue == Spec => []ShownIsStored
<1>1. ToldInv => ShownIsStored
  BY DEF ToldInv, Told, Calm, ShownIsStored
<1> QED BY <1>1, ToldInit, ToldStep, PTL DEF Spec

-----------------------------------------------------------------------------
(* The furthest status handled *)

(* The reports of one id never hold both outcomes, and "read" follows        *)
(* "delivered".                                                              *)
Consistent ==
  \A n \in Id : /\ "failed" \notin reported[n] \/ "delivered" \notin reported[n]
                /\ "read" \in reported[n] => "delivered" \in reported[n]

(* A callback that found the row carries a report of the id stored in it.    *)
Found == /\ \A h \in Busy : mid # LocalId /\ ev[h] \in reported[mid]
         /\ handled # {} => mid # LocalId

(* What the row says of the stored id was reported, a failure unless the     *)
(* worker marked it after a crash.                                           *)
Justified ==
  mid # LocalId => /\ status \in {"delivered", "read"} => "delivered" \in reported[mid]
                   /\ status = "failed" /\ crashes = 0 => "failed" \in reported[mid]

InOrder == missed \subseteq {"sent"} /\ ~early /\ ~raced /\ crashes = 0 /\ faults = 0

(* The row shows e, or what follows it.                                      *)
Shows(e) == /\ e = "failed" => status = "failed"
            /\ e = "read" => status = "read"
            /\ e = "delivered" => status \in {"delivered", "read"}

(* In order, the row is where the callbacks handled so far have brought it,  *)
(* and only one still to be broadcast is ahead of them.                      *)
Ahead == InOrder =>
  /\ \A e \in handled : Shows(e)
  /\ \A h \in Hook : hook[h] = "notify" => Shows(ev[h])
  /\ status = "read" /\ "read" \notin handled
       => \E h \in Hook : hook[h] = "notify" /\ ev[h] = "read"

CatchInv == StatusInv /\ Consistent /\ Found /\ Justified /\ Ahead

LEMMA InOrderBefore ==
  ASSUME TypeOK, [Next]_vars, InOrder'
  PROVE  InOrder /\ UNCHANGED crashes /\ ~Fault
<1>1. faults = 0 /\ crashes = 0 /\ ~Fault /\ ~Crash /\ crashes' = 0
  BY FaultsStay DEF InOrder
<1> USE DEF Next, WorkerStep, SendAccepted, SendRefused, SendTimedOut, UpdateWAMessageID,
           NotifySent, SetFailed, Ack, Report, HookMisses, HookReads, HookWrites,
           HookNotifies, vars, history
<1>2. early => early'
  BY <1>1
<1>3. raced => raced'
  BY <1>1
<1>4. missed \subseteq missed'
  BY <1>1
<1> QED BY <1>1, <1>2, <1>3, <1>4 DEF InOrder

LEMMA CatchStep == CatchInv /\ [Next]_vars => CatchInv'
<1> SUFFICES ASSUME CatchInv, [Next]_vars PROVE CatchInv'
  OBVIOUS
<1>0. StatusInv /\ TypeOK /\ FirstDelivery /\ OneWriter
      /\ Consistent /\ Found /\ Justified /\ Ahead
  BY DEF CatchInv, StatusInv
<1>1. StatusInv'
  BY <1>0, InvStep
<1>2. (InOrder' => InOrder /\ ~Fault) /\ (mid # LocalId => mid' = mid)
  BY <1>0, InOrderBefore, MidStep
<1> DEFINE Kept == Consistent /\ Found /\ Justified /\ Ahead
<1>3. ASSUME UNCHANGED <<status, mid, reported, handled, crashes, hook, ev>>
      PROVE  Kept'
  <2>1. Busy' = Busy
    BY <1>3 DEF Busy
  <2>2. Consistent' /\ Found' /\ Justified'
    BY <1>0, <1>3, <2>1 DEF Consistent, Found, Justified
  <2>3. Ahead'
    BY <1>0, <1>2, <1>3 DEF Ahead, Shows
  <2> QED BY <2>2, <2>3
<1>4. ASSUME \/ SendAccepted \/ SendRefused \/ SendTimedOut \/ NotifySent \/ Ack
             \/ UNCHANGED vars
      PROVE  Kept'
  BY <1>3, <1>4 DEF SendAccepted, SendRefused, SendTimedOut, NotifySent, Ack, rowVars,
                    hookVars, apiVars, history, vars
<1>5. ASSUME UpdateWAMessageID PROVE Kept'
  <2>1. UNCHANGED <<reported, handled, crashes, hook, ev>>
    BY <1>5 DEF UpdateWAMessageID, apiVars, hookVars
  <2>2. CASE UNCHANGED <<status, mid>>
    BY <1>3, <2>1, <2>2
  <2>3. CASE status = "pending" /\ status' = "sent"
    <3>1. mid = LocalId /\ Busy = {} /\ handled = {}
      BY <1>0, <2>3 DEF FirstDelivery, Found
    <3>2. Busy' = {} /\ handled' = {}
      BY <2>1, <3>1 DEF Busy
    <3>3. Consistent' /\ Found' /\ Justified'
      BY <1>0, <2>1, <2>3, <3>2 DEF Consistent, Found, Justified
    <3>4. \A g \in Hook : hook'[g] # "notify"
      BY <3>2 DEF Busy
    <3>5. Ahead'
      BY <2>3, <3>2, <3>4 DEF Ahead
    <3> QED BY <3>3, <3>5
  <2> QED BY <1>5, <2>2, <2>3 DEF UpdateWAMessageID, rowVars
<1>6. ASSUME SetFailed PROVE Kept'
  <2>1. UNCHANGED <<mid, reported, handled, crashes, hook, ev>> /\ pc = "fail"
    BY <1>6 DEF SetFailed, apiVars, hookVars
  <2>2. CASE status' = status
    BY <1>3, <2>1, <2>2
  <2>3. CASE status' = "failed"
    <3>1. crashes = 0 => /\ mid = LocalId /\ handled = {}
                         /\ \A g \in Hook : hook[g] # "notify"
      BY <1>0, <2>1 DEF FirstDelivery, Found, Busy
    <3>2. Consistent' /\ Found'
      BY <1>0, <2>1 DEF Consistent, Found, Busy
    <3>3. Justified'
      BY <2>1, <2>3, <3>1 DEF Justified
    <3>4. Ahead'
      BY <2>1, <2>3, <3>1 DEF Ahead, Shows, InOrder
    <3> QED BY <3>2, <3>3, <3>4
  <2> QED BY <1>6, <2>2, <2>3 DEF SetFailed
<1>7. ASSUME NEW n \in Id, NEW e \in Event, Report(n, e) PROVE Kept'
  <2>1. /\ UNCHANGED <<status, mid, handled, crashes, hook, ev>> /\ MayReport(n, e)
        /\ reported' = [reported EXCEPT ![n] = @ \cup {e}]
    BY <1>7 DEF Report, rowVars, hookVars, history
  <2>2. \A m \in Id : reported'[m] = IF m = n THEN reported[m] \cup {e} ELSE reported[m]
    BY <1>0, <2>1 DEF TypeOK
  <2>3. Consistent'
    <3>1. e = "delivered" => "failed" \notin reported[n]
      BY <2>1 DEF MayReport
    <3>2. e = "read" => "delivered" \in reported[n]
      BY <2>1 DEF MayReport
    <3>3. e = "failed" => "delivered" \notin reported[n]
      BY <2>1 DEF MayReport
    <3>4. ASSUME NEW m \in Id
          PROVE  /\ "failed" \notin reported'[m] \/ "delivered" \notin reported'[m]
                 /\ "read" \in reported'[m] => "delivered" \in reported'[m]
      <4>1. /\ "failed" \notin reported[m] \/ "delivered" \notin reported[m]
            /\ "read" \in reported[m] => "delivered" \in reported[m]
        BY <1>0 DEF Consistent
      <4>2. CASE m = n
        <5>1. \A x : x \in reported'[m] <=> x \in reported[n] \/ x = e
          BY <2>2, <4>2
        <5> QED BY <3>1, <3>2, <3>3, <4>1, <4>2, <5>1
      <4>3. CASE m # n
        BY <2>2, <4>1, <4>3
      <4> QED BY <4>2, <4>3
    <3> QED BY <3>4 DEF Consistent
  <2>4. mid # LocalId => mid \in Id
    BY <1>0 DEF TypeOK
  <2>5. Found' /\ Justified'
    BY <1>0, <2>1, <2>2, <2>4 DEF Found, Justified, Busy
  <2>6. Ahead'
    BY <1>0, <1>2, <2>1 DEF Ahead, Shows
  <2> QED BY <2>3, <2>5, <2>6
<1>8. ASSUME NEW h \in Hook, NEW n \in Id, NEW e \in Event, HookMisses(h, n, e) PROVE Kept'
  <2>1. /\ UNCHANGED <<status, mid, reported, handled, crashes, ev>> /\ hook[h] = "new"
        /\ hook' = [hook EXCEPT ![h] = "done"]
    BY <1>8 DEF HookMisses, rowVars, apiVars
  <2>2. Busy' = Busy /\ \A g \in Hook : hook[g] = "notify" <=> hook'[g] = "notify"
    BY <1>0, <2>1 DEF Busy, TypeOK
  <2>3. Consistent' /\ Found' /\ Justified'
    BY <1>0, <2>1, <2>2 DEF Consistent, Found, Justified
  <2>4. Ahead'
    BY <1>0, <1>2, <2>1, <2>2 DEF Ahead, Shows
  <2> QED BY <2>3, <2>4
<1>9. ASSUME NEW h \in Hook, NEW n \in Id, NEW e \in Event, HookReads(h, n, e) PROVE Kept'
  <2>1. /\ UNCHANGED <<status, mid, reported, crashes>> /\ hook[h] = "new"
        /\ mid = n /\ n # LocalId /\ e \in reported[n]
        /\ ev' = [ev EXCEPT ![h] = e]
        /\ early' = (early \/ (e = "read" /\ "delivered" \notin handled))
    BY <1>9, IdIsNotLocal DEF HookReads, rowVars, apiVars
  <2>2. \A g \in Hook : g # h => hook'[g] = hook[g] /\ ev'[g] = ev[g]
    BY <1>0, <1>9 DEF HookReads, TypeOK
  <2>3. ev'[h] = e /\ Busy' \subseteq Busy \cup {h}
    BY <1>0, <2>1, <2>2 DEF Busy, TypeOK
  <2>4. Consistent' /\ Found' /\ Justified'
    BY <1>0, <2>1, <2>2, <2>3 DEF Consistent, Found, Justified, Busy
  <2>5. ASSUME InOrder' PROVE Ahead'
    <3>1. InOrder /\ (e = "read" => "delivered" \in handled)
      BY <1>2, <2>1, <2>5 DEF InOrder
    <3>2. \A g \in Hook : /\ hook[g] = "notify" => hook'[g] = "notify" /\ ev'[g] = ev[g]
                          /\ hook'[g] = "notify" => hook[g] = "notify"
      BY <1>0, <1>9, <2>1, <2>2 DEF HookReads, TypeOK
    <3>3. CASE e \in Transitions[status]
      <4>1. handled' = handled
        BY <1>9, <3>3 DEF HookReads
      <4> QED BY <1>0, <2>1, <3>1, <3>2, <4>1 DEF Ahead, Shows
    <3>4. CASE e \notin Transitions[status]
      <4>1. handled' = handled \cup {e}
        BY <1>9, <3>4 DEF HookReads
      <4>2. status \in {"sent", "delivered", "read", "failed"} /\ e \in Event
        BY <1>0, <2>1 DEF FirstDelivery, TypeOK, Status
      <4>3. /\ status = "failed" => "failed" \in reported[n]
            /\ status \in {"delivered", "read"} => "delivered" \in reported[n]
        BY <1>0, <2>1, <3>1 DEF Justified, InOrder
      <4>4. status = "sent" => e \notin {"delivered", "failed"}
        BY <3>4 DEF Transitions
      <4>5. status = "delivered" => e # "read"
        BY <3>4 DEF Transitions
      <4>6. ("failed" \notin reported[n] \/ "delivered" \notin reported[n])
            /\ ("read" \in reported[n] => "delivered" \in reported[n])
        BY <1>0 DEF Consistent
      <4>7. e = "failed" => status = "failed"
        BY <2>1, <4>2, <4>3, <4>4, <4>6
      <4>8. e = "delivered" => status \in {"delivered", "read"}
        BY <2>1, <4>2, <4>3, <4>4, <4>6
      <4>9. e = "read" => status = "read"
        BY <1>0, <3>1, <4>5 DEF Ahead, Shows
      <4> QED BY <1>0, <2>1, <3>1, <3>2, <4>1, <4>7, <4>8, <4>9 DEF Ahead, Shows
    <3> QED BY <3>3, <3>4
  <2> QED BY <2>4, <2>5 DEF Ahead, Shows
<1>10. ASSUME NEW h \in Hook, HookWrites(h) PROVE Kept'
  <2>1. /\ UNCHANGED <<mid, reported, handled, crashes, ev>> /\ hook[h] = "write" /\ h \in Busy
        /\ UNCHANGED <<raced, missed, early>>
    BY <1>10 DEF HookWrites, apiVars, history, Busy
  <2>2. mid \in Id /\ ev[h] \in reported[mid] /\ ev[h] \in Event
    BY <1>0, <2>1 DEF Found, TypeOK
  <2>3. Busy' \subseteq Busy /\ \A g \in Hook : g # h => hook'[g] = hook[g]
    BY <1>0, <1>10 DEF HookWrites, Busy, TypeOK
  <2>4. Consistent' /\ Found'
    BY <1>0, <2>1, <2>3 DEF Consistent, Found
  <2>5. CASE status' = status /\ hook' = [hook EXCEPT ![h] = "done"]
    <3>1. Justified'
      BY <1>0, <2>1, <2>5 DEF Justified
    <3>2. \A g \in Hook : hook'[g] = "notify" <=> hook[g] = "notify"
      BY <1>0, <2>1, <2>5 DEF TypeOK
    <3>3. Ahead'
      BY <1>0, <1>2, <2>1, <2>5, <3>2 DEF Ahead, Shows
    <3> QED BY <2>4, <3>1, <3>3
  <2>6. CASE status' = ev[h] /\ hook' = [hook EXCEPT ![h] = "notify"]
    <3>1. Justified'
      BY <1>0, <2>1, <2>2, <2>6 DEF Justified, Consistent
    <3>2. ASSUME InOrder' PROVE Ahead'
      <4>1. InOrder
        BY <1>2, <3>2
      <4>2. ev[h] \in Transitions[status]
        BY <1>0, <2>1, <4>1 DEF InOrder, OneWriter
      <4>3. hook'[h] = "notify" /\ ev'[h] = ev[h]
        BY <1>0, <2>1, <2>6 DEF TypeOK
      <4>4. status \notin {"failed", "read"}
        BY <4>2 DEF Transitions
      <4>5. status = "delivered" => ev[h] = "read"
        BY <4>2 DEF Transitions
      <4> QED BY <1>0, <2>1, <2>6, <4>1, <4>3, <4>4, <4>5 DEF Ahead, Shows
    <3> QED BY <2>4, <3>1, <3>2 DEF Ahead, Shows
  <2> QED BY <1>10, <2>5, <2>6 DEF HookWrites
<1>11. ASSUME NEW h \in Hook, HookNotifies(h) PROVE Kept'
  <2>1. /\ UNCHANGED <<status, mid, reported, crashes, ev, raced>> /\ hook[h] = "notify"
        /\ h \in Busy
        /\ handled' = handled \cup {ev[h]} /\ hook' = [hook EXCEPT ![h] = "done"]
    BY <1>11 DEF HookNotifies, rowVars, apiVars, Busy
  <2>2. Busy' \subseteq Busy /\ \A g \in Hook : g # h => hook'[g] = hook[g]
    BY <1>0, <2>1 DEF Busy, TypeOK
  <2>3. Consistent' /\ Found' /\ Justified'
    BY <1>0, <2>1, <2>2 DEF Consistent, Found, Justified
  <2>4. Ahead'
    BY <1>0, <1>2, <2>1, <2>2 DEF Ahead, Shows
  <2> QED BY <2>3, <2>4
<1>12. ASSUME Crash PROVE Kept'
  <2>1. UNCHANGED <<status, mid, reported, handled, ev>> /\ crashes' = crashes + 1
        /\ hook' = [h \in Hook |-> IF h \in Busy THEN "done" ELSE hook[h]]
    BY <1>12 DEF Crash, rowVars, apiVars, history
  <2>2. crashes' # 0 /\ Busy' \subseteq Busy
    BY <1>0, <2>1, BoundAssumption DEF TypeOK, Busy
  <2>3. Consistent' /\ Found' /\ Justified'
    BY <1>0, <2>1, <2>2 DEF Consistent, Found, Justified
  <2>4. Ahead'
    BY <2>2 DEF Ahead, Shows, InOrder
  <2> QED BY <2>3, <2>4
<1>13. Kept'
  BY <1>4, <1>5, <1>6, <1>7, <1>8, <1>9, <1>10, <1>11, <1>12 DEF Next, WorkerStep
<1> QED BY <1>1, <1>13 DEF CatchInv

LEMMA CatchInit == Init => CatchInv
<1> SUFFICES ASSUME Init PROVE CatchInv
  OBVIOUS
<1>1. Busy = {}
  BY DEF Init, Busy
<1>2. Consistent /\ Found /\ Justified /\ Ahead
  BY <1>1 DEF Init, Consistent, Found, Justified, Ahead
<1> QED BY <1>2, InvInit DEF CatchInv

(* Handled in order, without a crash or a failing call, the row does not     *)
(* stay behind the furthest status.                                          *)
THEOREM RowCatchesUp == Spec => []CatchesUp
<1>1. CatchInv => CatchesUp
  <2> SUFFICES ASSUME CatchInv, handled \ {"sent"} # {}, InOrder
               PROVE  status = Reached \/ \E h \in Busy : status = ev[h]
    BY DEF CatchesUp, InOrder
  <2>1. Ahead /\ handled \subseteq {"sent", "delivered", "read", "failed"}
    BY DEF CatchInv, StatusInv, TypeOK, Event, Status
  <2>2. CASE status = "read" /\ "read" \notin handled
    BY <2>1, <2>2 DEF Ahead, Shows, Busy
  <2>3. CASE ~(status = "read" /\ "read" \notin handled)
    BY <2>1, <2>3 DEF Ahead, Shows, Reached
  <2> QED BY <2>2, <2>3
<1> QED BY <1>1, CatchInit, CatchStep, PTL DEF Spec

=============================================================================
