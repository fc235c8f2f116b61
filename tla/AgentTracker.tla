---------------------------- MODULE AgentTracker ----------------------------
(***************************************************************************)
(* What Redis says of the workers (internal/agent/agent.go).  Each worker  *)
(* has a tracker: a record in memory under a mutex, which a goroutine of   *)
(* its own writes to Redis at every heartbeat, with a time to live.        *)
(***************************************************************************)
EXTENDS RuntimeClock

CONSTANTS
  Worker,
  TTL,       \* heartbeatTTL, 30 s
  Never,     \* the zero time; also an absent key
  MaxCount,  \* bounds: messages of a worker,
  MaxFaults  \* calls that fail

ASSUME TrackerAssumption ==
  TTL \in Nat \ {0, 1} /\ MaxCount \in Nat /\ MaxFaults \in Nat /\ Never \notin Nat

Info == [status : {"idle", "running", "stopped"}, beat : Time \cup {Never},
         count : 0 .. MaxCount]

ASSUME NeverAssumption == Never \notin Info

VARIABLES
  info,     \* t.info; count is MessagesSent and MessagesFailed
  beating,  \* whether the goroutine heartbeatLoop runs
  ring,     \* when its ticker fires next, 0 if there is none
  closed,   \* trackers whose stopCh is closed
  entry,    \* Redis: the key's value, Never if it was never set
  expiry,   \* Redis: when the key expires
  faults,
  missed    \* history: trackers of which a write to Redis failed by itself

tracker == <<info, beating, ring, closed>>
redis == <<entry, expiry, missed>>

TrackerTypeOK ==
  /\ info \in [Worker -> Info] /\ beating \in SUBSET Worker /\ closed \in SUBSET Worker
  /\ ring \in [Worker -> Nat]
  /\ entry \in [Worker -> Info \cup {Never}] /\ expiry \in [Worker -> Nat]
  /\ faults \in 0 .. MaxFaults /\ missed \in SUBSET Worker

(* NewTracker *)
TrackerInit ==
  /\ info = [w \in Worker |-> [status |-> "idle", beat |-> Never, count |-> 0]]
  /\ beating = {} /\ closed = {}
  /\ ring = [w \in Worker |-> 0]
  /\ entry = [w \in Worker |-> Never] /\ expiry = [w \in Worker |-> 0]
  /\ faults = 0 /\ missed = {}

Fault == faults < MaxFaults /\ faults' = faults + 1

(* Mutant of Interval: a heartbeat for each life time. *)
IntervalWhole == TTL

Interval == TTL \div 2

(* Tracker.Start: the status, and the goroutine with its ticker. *)
Start(w) ==
  /\ info' = [info EXCEPT ![w].status = "running"]
  /\ beating' = beating \cup {w}
  /\ ring' = [ring EXCEPT ![w] = now + Interval]
  /\ UNCHANGED <<closed, redis, faults>>

(* Tracker.save: SET with a time to live.  It fails if ctx is cancelled.     *)
Save(w, i, cancelled) ==
  \/ /\ ~ cancelled
     /\ entry' = [entry EXCEPT ![w] = i]
     /\ expiry' = [expiry EXCEPT ![w] = now + TTL]
     /\ UNCHANGED <<missed, faults>>
  \/ cancelled /\ UNCHANGED <<redis, faults>>
  \/ /\ ~ cancelled /\ Fault
     /\ missed' = missed \cup {w}
     /\ UNCHANGED <<entry, expiry>>

(* Mutant of BeatCancelled: heartbeats have a context of their own. *)
BeatCancelledNever(cancelled) == FALSE

(* Heartbeats are saved with the context of the worker pool. *)
BeatCancelled(cancelled) == cancelled

(* A heartbeat; the select may take one though stopCh is closed. *)
Heartbeat(w, cancelled) ==
  /\ w \in beating /\ ring[w] <= now
  /\ info' = [info EXCEPT ![w].beat = now]
  /\ ring' = [ring EXCEPT ![w] = now + Interval]
  /\ Save(w, info'[w], BeatCancelled(cancelled))
  /\ UNCHANGED <<beating, closed>>

LoopEnds(w) ==
  /\ w \in beating \cap closed
  /\ beating' = beating \ {w}
  /\ ring' = [ring EXCEPT ![w] = 0]
  /\ UNCHANGED <<info, closed, redis, faults>>

(* Tracker.Stop: close, and a last write in a context of its own.            *)
StopTracker(w) ==
  /\ closed' = closed \cup {w}
  /\ info' = [info EXCEPT ![w].status = "stopped"]
  /\ Save(w, info'[w], FALSE)
  /\ UNCHANGED <<beating, ring>>

(* SetIdle and SetRunning *)
SetStatus(w, status) == info' = [info EXCEPT ![w].status = status]

(* IncMessagesSent, IncMessagesFailed *)
Inc(w) ==
  /\ info[w].count < MaxCount
  /\ info' = [info EXCEPT ![w].count = @ + 1]

(* ListAgents: the keys that have not expired, and what it says of them.     *)
Listed(w) == entry[w] # Never /\ now < expiry[w]

Alive(w) == Listed(w) /\ entry[w].beat # Never /\ now < entry[w].beat + TTL

(* A ticker that fires is served before the clock goes on.                   *)
BeatsAreServed == \A w \in beating : now < ring[w]
=============================================================================
