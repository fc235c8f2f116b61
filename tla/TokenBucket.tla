---------------------------- MODULE TokenBucket -----------------------------
(***************************************************************************)
(* The bucket that all requests to Meta share                              *)
(* (internal/ratelimit/tokenbucket.go).  The transport of the WhatsApp     *)
(* client asks it before each request; workers, HTTP handlers and the      *)
(* periodic goroutine are its clients.  A token is refilled in PerToken    *)
(* ticks, so that level, the field tokens, is counted in fractions of a    *)
(* token that take one tick each.                                          *)
(***************************************************************************)
EXTENDS RuntimeClock

CONSTANTS
  Client,    \* goroutines that may be sending a request
  Burst,     \* capacity of the bucket (RATE_LIMIT_BURST)
  PerToken,  \* ticks for a token: 1 / RATE_LIMIT_RPS
  Pause,     \* time.Second / time.Duration(rate), rounded down
  Patience   \* HTTPClient.Timeout (30 s in the code)

ASSUME BucketAssumption ==
  /\ Burst \in Nat \ {0} /\ PerToken \in Nat \ {0} /\ Patience \in Nat \ {0}
  /\ Pause \in 1 .. PerToken

VARIABLES
  level, last,  \* fields tokens and lastTime
  doing,        \* where a client is in RoundTrip
  wake, due,    \* while it waits: when its timer fires, its deadline; or 0
  since         \* history: since[s]: requests let through from instant s on

bucket == <<level, last, since>>
clients == <<doing, wake, due>>

Full == Burst * PerToken

BucketTypeOK ==
  /\ level \in 0 .. Full /\ last \in Time
  /\ doing \in [Client -> {"free", "refused", "sleeping", "sending"}]
  /\ wake \in [Client -> Nat] /\ due \in [Client -> Nat]
  /\ since \in [Time -> Nat]

(* NewTokenBucket: it is full. *)
BucketInit ==
  /\ level = Full /\ last = 0
  /\ doing = [c \in Client |-> "free"]
  /\ wake = [c \in Client |-> 0] /\ due = [c \in Client |-> 0]
  /\ since = [s \in Time |-> 0]

(* What the bucket would hold if it had no capacity, and what it holds.      *)
Earned == level + (now - last)
Refilled == Least(Full, Earned)

(* Mutant of Stamp: only a request that is let through is remembered. *)
StampIfLet(ok) == IF ok THEN now ELSE last

(* lastTime is set whatever the answer. *)
Stamp(ok) == now

(* TokenBucket.Allow under its mutex; ok is its result.                      *)
Allow(ok) ==
  /\ ok = (Refilled >= PerToken)
  /\ level' = IF ok THEN Refilled - PerToken ELSE Refilled
  /\ last' = Stamp(ok)
  /\ since' = IF ok THEN [s \in Time |-> since[s] + (IF s <= now THEN 1 ELSE 0)]
                    ELSE since

(* Transport.RoundTrip: let through, or refused for the first time, which is *)
(* counted and followed by Wait.                                             *)
RoundTrip(c) ==
  /\ doing[c] = "free"
  /\ \E ok \in BOOLEAN :
       /\ Allow(ok)
       /\ doing' = [doing EXCEPT ![c] = IF ok THEN "sending" ELSE "refused"]
       /\ due' = [due EXCEPT ![c] = IF ok THEN 0 ELSE now + Patience]
  /\ UNCHANGED wake

(* Mutant of NextTry: when the whole bucket has been refilled. *)
NextTryFull == now + Full

(* time.After *)
NextTry == now + Pause

(* TokenBucket.Wait: it tries again, and sleeps if refused.                  *)
WaitTry(c) ==
  /\ \/ doing[c] = "refused"
     \/ doing[c] = "sleeping" /\ wake[c] <= now
  /\ \E ok \in BOOLEAN :
       /\ Allow(ok)
       /\ doing' = [doing EXCEPT ![c] = IF ok THEN "sending" ELSE "sleeping"]
       /\ wake' = [wake EXCEPT ![c] = IF ok THEN 0 ELSE NextTry]
       /\ due' = [due EXCEPT ![c] = IF ok THEN 0 ELSE @]

(* Mutant of ContextDone: only the deadline counts. *)
ContextDoneLate(c, cancelled) == due[c] <= now

ContextDone(c, cancelled) == due[c] <= now \/ cancelled

(* Its context is done; the select may also take the timer if both are.      *)
WaitEnds(c, cancelled) ==
  /\ doing[c] = "sleeping"
  /\ ContextDone(c, cancelled)
  /\ doing' = [doing EXCEPT ![c] = "free"]
  /\ wake' = [wake EXCEPT ![c] = 0] /\ due' = [due EXCEPT ![c] = 0]
  /\ UNCHANGED bucket

(* The request itself returns, with an answer or an error.                   *)
Answered(c) ==
  /\ doing[c] = "sending"
  /\ doing' = [doing EXCEPT ![c] = "free"]
  /\ UNCHANGED <<bucket, wake, due>>

(* A timer that fires is served before the clock goes on.                    *)
NobodyOversleeps ==
  \A c \in Client : /\ doing[c] = "sleeping" => now < wake[c] /\ now < due[c]
                    /\ doing[c] # "refused"

-----------------------------------------------------------------------------
(* From any instant on, no more requests are let through than a full bucket  *)
(* and what it is refilled with, however clients refused and retried.        *)
NeverTooMany ==
  \A s \in Time : s <= now => since[s] * PerToken <= Full + (now - s)

(* While a request waits, less than a token and one pause of refill comes    *)
(* together, so that a bucket of two tokens or more does not overflow.  One  *)
(* of a single token does: what is refilled between the token and the timer, *)
(* less than a pause, is lost.                                               *)
NoneWasted ==
  \A c \in Client :
    doing[c] = "sleeping" => /\ Earned < PerToken + Pause
                             /\ Burst > 1 => Refilled = Earned
=============================================================================
