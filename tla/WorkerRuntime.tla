--------------------------- MODULE WorkerRuntime ----------------------------
(***************************************************************************)
(* The life of the worker pool (Start, worker and Stop of                  *)
(* internal/queue/worker.go), composed of the trackers that show it and    *)
(* the bucket that slows it down.  What a message does to tables and       *)
(* queues is in OutboundPipeline; here it is one request to Meta.          *)
(***************************************************************************)
EXTENDS TokenBucket, AgentTracker

ASSUME WorkerAssumption == Worker \subseteq Client

VARIABLES
  at,   \* where a worker is
  pool  \* "up", "cancelled": Stop has cancelled the context, "stopped"

vars == <<now, bucket, clients, tracker, redis, faults, at, pool>>
runtime == <<tracker, redis, faults, at, pool>>

TypeOK ==
  /\ now \in Time /\ BucketTypeOK /\ TrackerTypeOK
  /\ at \in [Worker -> {"new", "consume", "get", "work", "request", "count",
                        "finish", "unwind", "gone"}]
  /\ pool \in {"up", "cancelled", "stopped"}

Init ==
  /\ now = 0 /\ BucketInit /\ TrackerInit
  /\ at = [w \in Worker |-> "new"] /\ pool = "up"

Cancelled == pool # "up"

Goto(w, step) == at' = [at EXCEPT ![w] = step]

-----------------------------------------------------------------------------
(* WorkerPool.worker *)

Begins(w) ==
  /\ at[w] = "new"
  /\ Goto(w, "consume")
  /\ Start(w)
  /\ UNCHANGED <<now, bucket, clients, pool>>

(* RabbitMQ.Consume does not look at the pool's context: a worker that comes *)
(* here only after Stop goes on to the select.                               *)
Consumes(w) ==
  /\ at[w] = "consume"
  /\ \/ Goto(w, "get") /\ UNCHANGED faults
     \/ Fault /\ Goto(w, "unwind")
  /\ UNCHANGED <<now, bucket, clients, tracker, redis, pool>>

(* A message is taken, possibly although the context is done. *)
Receives(w) ==
  /\ at[w] = "get" /\ info[w].count < MaxCount
  /\ Goto(w, "work")
  /\ SetStatus(w, "running")
  /\ UNCHANGED <<now, bucket, clients, beating, ring, closed, redis, faults, pool>>

(* processMessage sends a request, or fails before that, ...                *)
Sends(w) ==
  /\ at[w] = "work"
  /\ Goto(w, "request")
  /\ RoundTrip(w)
  /\ UNCHANGED <<now, tracker, redis, faults, pool>>

(* ... which is counted, unless the body cannot be read or the code panics.  *)
FailsEarly(w) ==
  /\ at[w] = "work"
  /\ Goto(w, "count") \/ Goto(w, "finish")
  /\ UNCHANGED <<now, bucket, clients, tracker, redis, faults, pool>>

TriesAgain(w) ==
  /\ WaitTry(w)
  /\ UNCHANGED <<now, runtime>>

Returns(w) ==
  /\ at[w] = "request"
  /\ Answered(w) \/ WaitEnds(w, Cancelled)
  /\ Goto(w, "count")
  /\ UNCHANGED <<now, tracker, redis, faults, pool>>

(* The outcome is counted ... *)
Counts(w) ==
  /\ at[w] = "count"
  /\ Goto(w, "finish")
  /\ Inc(w)
  /\ UNCHANGED <<now, bucket, clients, beating, ring, closed, redis, faults, pool>>

(* ... and the message acknowledged. *)
Finishes(w) ==
  /\ at[w] = "finish"
  /\ Goto(w, "get")
  /\ SetStatus(w, "idle")
  /\ UNCHANGED <<now, bucket, clients, beating, ring, closed, redis, faults, pool>>

(* The context is done, or the connection to the broker is lost.  Of the     *)
(* deferred calls wg.Done is the first ...                                   *)
Leaves(w) ==
  /\ at[w] = "get"
  /\ \/ Cancelled /\ UNCHANGED faults
     \/ Fault
  /\ Goto(w, "unwind")
  /\ UNCHANGED <<now, bucket, clients, tracker, redis, pool>>

(* ... and SetIdle the last. *)
Unwinds(w) ==
  /\ at[w] = "unwind"
  /\ Goto(w, "gone")
  /\ SetStatus(w, "idle")
  /\ UNCHANGED <<now, bucket, clients, beating, ring, closed, redis, faults, pool>>

-----------------------------------------------------------------------------
(* WorkerPool.Stop *)

Cancels ==
  /\ pool = "up"
  /\ pool' = "cancelled"
  /\ UNCHANGED <<now, bucket, clients, tracker, redis, faults, at>>

(* wg.Wait *)
Waited == \A w \in Worker : at[w] \in {"unwind", "gone"}

StopsTracker(w) ==
  /\ pool = "cancelled" /\ Waited /\ w \notin closed
  /\ StopTracker(w)
  /\ UNCHANGED <<now, bucket, clients, at, pool>>

Stops ==
  /\ pool = "cancelled" /\ Waited /\ closed = Worker
  /\ pool' = "stopped"
  /\ UNCHANGED <<now, bucket, clients, tracker, redis, faults, at>>

-----------------------------------------------------------------------------
(* Heartbeats, other clients of the bucket, and time *)

Beats(w) ==
  /\ Heartbeat(w, Cancelled) \/ LoopEnds(w)
  /\ UNCHANGED <<now, bucket, clients, at, pool>>

(* HTTP handlers and the periodic goroutine use the same bucket; they have   *)
(* contexts of their own, which end when the browser goes away.              *)
OtherRequest(c) ==
  /\ \/ RoundTrip(c) \/ WaitTry(c) \/ Answered(c)
     \/ WaitEnds(c, TRUE)
  /\ UNCHANGED <<now, runtime>>

Tick ==
  /\ now < MaxTime /\ NobodyOversleeps /\ BeatsAreServed
  /\ now' = now + 1
  /\ UNCHANGED <<bucket, clients, runtime>>

WorkerStep(w) ==
  \/ Begins(w) \/ Consumes(w) \/ Sends(w) \/ FailsEarly(w) \/ TriesAgain(w)
  \/ Returns(w) \/ Counts(w) \/ Finishes(w) \/ Unwinds(w)

Next ==
  \/ \E w \in Worker : WorkerStep(w) \/ Receives(w) \/ Leaves(w) \/ Beats(w)
                         \/ StopsTracker(w)
  \/ \E c \in Client \ Worker : OtherRequest(c)
  \/ Cancels \/ Stops
  \/ Tick

Spec == Init /\ [][Next]_vars

(* Calls return, goroutines go on, and a select that finds the context done  *)
(* again and again takes it in the end.  Neither messages nor time are       *)
(* relied on.                                                                *)
Fairness ==
  /\ \A w \in Worker : /\ WF_vars(WorkerStep(w)) /\ SF_vars(Leaves(w))
                       /\ WF_vars(StopsTracker(w))
  /\ WF_vars(Stops)

FairSpec == Spec /\ Fairness

-----------------------------------------------------------------------------
(* What the pool promises *)

(* What Redis says last of a worker, unless that very write failed, is that  *)
(* it has stopped, and all messages it has handled are counted; though its   *)
(* heartbeat may ring and its deferred SetIdle may run after Stop.           *)
StoppedIsFinal ==
  \A w \in closed \ missed :
    entry[w].status = "stopped" /\ entry[w].count = info[w].count

(* Until the pool is stopped, a tracker that has written once and has not    *)
(* failed to write is listed, and as alive: between two heartbeats the key   *)
(* never expires.                                                            *)
HeartbeatsHold ==
  \A w \in beating \ missed : pool = "up" /\ info[w].beat # Never => Alive(w)

(* Stop returns, also when workers wait for a token or for Meta.             *)
StopReturns == pool = "cancelled" ~> pool = "stopped"
=============================================================================
