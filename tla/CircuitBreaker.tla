--------------------------- MODULE CircuitBreaker ---------------------------
(***************************************************************************)
(* The circuit breaker of rust/trakshya-circuit-breaker: one atomic state  *)
(* per field, a tokio RwLock around each, and async callers that may be    *)
(* suspended wherever they wait for a lock.                                *)
(*                                                                         *)
(* Only `state' and `failure_count' have a lock variable here.  Every      *)
(* access to success_count is made by a caller that holds `state', and no  *)
(* caller waits for a contended lock while it holds last_failure, so those *)
(* two locks never order two steps and are folded into the steps.          *)
(***************************************************************************)
EXTENDS Naturals

CONSTANTS
  Callers,   \* the tasks that call the breaker
  NoCaller,  \* the owner of a free lock
  Configs,   \* the BreakerConfig values a breaker may be built with
  CountMod   \* failure_count and success_count are u32: they wrap at CountMod

ASSUME BreakerAssumption ==
  /\ NoCaller \notin Callers
  /\ CountMod \in Nat \ {0}
  /\ Configs \subseteq [failure_threshold : Nat,
                        half_open_max_requests : 0 .. CountMod - 1]

VARIABLES
  config,        \* the breaker's BreakerConfig, fixed when it is built
  state,         \* Closed, Open or HalfOpen
  failure_count,
  success_count,
  last_failure,  \* none; recent; elapsed: older than the recovery timeout
  state_lock,    \* the caller that holds state.write(), or NoCaller
  failure_lock,  \* the caller that holds failure_count.write(), or NoCaller
  pc,            \* where each caller is suspended
  probes         \* history: successes recorded since the breaker last probed

vars == <<config, state, failure_count, success_count, last_failure,
          state_lock, failure_lock, pc, probes>>

IncrementUnbounded(n) == n + 1

Increment(n) == (n + 1) % CountMod

(* The awaits a caller can be suspended at.  The first three are the entry *)
(* points, before any lock is held.                                        *)
Calls == {"is_request_allowed", "record_success", "record_failure"}
AwaitsFailuresToClear == {"allowed_clears", "success_closes", "success_clears"}
HoldsFailures == {"failure_stamps", "failure_opens"}
PC == {"idle"} \cup Calls \cup AwaitsFailuresToClear \cup HoldsFailures

Init ==
  /\ config \in Configs
  /\ state = "Closed"
  /\ failure_count = 0
  /\ success_count = 0
  /\ last_failure = "none"
  /\ state_lock = NoCaller
  /\ failure_lock = NoCaller
  /\ pc = [c \in Callers |-> "idle"]
  /\ probes = 0

Goto(c, from, to) == pc[c] = from /\ pc' = [pc EXCEPT ![c] = to]

(* Nothing fixes the order in which tasks call the breaker.                *)
Call(c) ==
  /\ \E op \in Calls : Goto(c, "idle", op)
  /\ UNCHANGED <<config, state, failure_count, success_count, last_failure,
                 state_lock, failure_lock, probes>>

-----------------------------------------------------------------------------
(* is_request_allowed: takes state.write() and keeps it to its end.        *)

(* Closed: allowed.  Open and not recovered: denied.  HalfOpen with the    *)
(* quorum of successes still missing: allowed.  No field changes.          *)
Answers ==
  \/ state = "Closed"
  \/ state = "Open" /\ last_failure # "elapsed"
  \/ state = "HalfOpen" /\ success_count < config.half_open_max_requests

AnswerKeepsLock(c) ==
  /\ state_lock = NoCaller
  /\ Answers
  /\ Goto(c, "is_request_allowed", "idle")
  /\ state_lock' = IF state = "Open" THEN c ELSE state_lock
  /\ UNCHANGED <<config, state, failure_count, success_count, last_failure,
                 failure_lock, probes>>

Answer(c) ==
  /\ state_lock = NoCaller
  /\ Answers
  /\ Goto(c, "is_request_allowed", "idle")
  /\ UNCHANGED <<config, state, failure_count, success_count, last_failure,
                 state_lock, failure_lock, probes>>

(* Open and recovered: HalfOpen, with the successes counted afresh.        *)
ProbeKeepsSuccesses(c) ==
  /\ state_lock = NoCaller
  /\ state = "Open" /\ last_failure = "elapsed"
  /\ Goto(c, "is_request_allowed", "idle")
  /\ state' = "HalfOpen"
  /\ probes' = 0
  /\ UNCHANGED <<config, success_count, failure_count, last_failure,
                 state_lock, failure_lock>>

ProbeIgnoresTimeout(c) ==
  /\ state_lock = NoCaller
  /\ state = "Open" /\ last_failure # "none"
  /\ Goto(c, "is_request_allowed", "idle")
  /\ state' = "HalfOpen"
  /\ success_count' = 0
  /\ probes' = 0
  /\ UNCHANGED <<config, failure_count, last_failure, state_lock, failure_lock>>

Probe(c) ==
  /\ state_lock = NoCaller
  /\ state = "Open" /\ last_failure = "elapsed"
  /\ Goto(c, "is_request_allowed", "idle")
  /\ state' = "HalfOpen"
  /\ success_count' = 0
  /\ probes' = 0
  /\ UNCHANGED <<config, failure_count, last_failure, state_lock, failure_lock>>

(* HalfOpen with the quorum already there: Closed, and on to clear the     *)
(* failures with state.write() still held.                                 *)
AllowedCloses(c) ==
  /\ state_lock = NoCaller
  /\ state = "HalfOpen" /\ success_count >= config.half_open_max_requests
  /\ Goto(c, "is_request_allowed", "allowed_clears")
  /\ state_lock' = c
  /\ state' = "Closed"
  /\ UNCHANGED <<config, failure_count, success_count, last_failure,
                 failure_lock, probes>>

-----------------------------------------------------------------------------
(* record_success: takes state.write() and keeps it to its end.            *)

QuorumOffByOne(n) == n > config.half_open_max_requests

Quorum(n) == n >= config.half_open_max_requests

SuccessInHalfOpen(c) ==
  /\ state_lock = NoCaller
  /\ state = "HalfOpen"
  /\ success_count' = Increment(success_count)
  /\ probes' = probes + 1
  /\ IF Quorum(success_count')
     THEN /\ Goto(c, "record_success", "success_closes")
          /\ state_lock' = c
          /\ state' = "Closed"
     ELSE /\ Goto(c, "record_success", "idle")
          /\ UNCHANGED <<state_lock, state>>
  /\ UNCHANGED <<config, failure_count, last_failure, failure_lock>>

(* Closed, and also Open: a late success clears the failures.              *)
SuccessElsewhere(c) ==
  /\ state_lock = NoCaller
  /\ state # "HalfOpen"
  /\ Goto(c, "record_success", "success_clears")
  /\ state_lock' = c
  /\ UNCHANGED <<config, state, failure_count, success_count, last_failure,
                 failure_lock, probes>>

(* failure_count.write() = 0 under the state lock, then the call returns.  *)
ClearFailures(c) ==
  /\ failure_lock = NoCaller
  /\ pc[c] \in AwaitsFailuresToClear
  /\ pc' = [pc EXCEPT ![c] = "idle"]
  /\ failure_count' = 0
  /\ success_count' = IF pc[c] = "success_closes" THEN 0 ELSE success_count
  /\ state_lock' = NoCaller
  /\ UNCHANGED <<config, state, last_failure, failure_lock, probes>>

-----------------------------------------------------------------------------
(* record_failure: takes failure_count.write() and keeps it to its end.    *)

CountFailureReleasesLock(c) ==
  /\ failure_lock = NoCaller
  /\ failure_count' = Increment(failure_count)
  /\ IF failure_count' >= config.failure_threshold
     THEN Goto(c, "record_failure", "failure_stamps")
     ELSE Goto(c, "record_failure", "idle")
  /\ UNCHANGED <<config, state, success_count, last_failure, state_lock,
                 failure_lock, probes>>

CountFailure(c) ==
  /\ failure_lock = NoCaller
  /\ failure_count' = Increment(failure_count)
  /\ IF failure_count' >= config.failure_threshold
     THEN Goto(c, "record_failure", "failure_stamps") /\ failure_lock' = c
     ELSE Goto(c, "record_failure", "idle") /\ UNCHANGED failure_lock
  /\ UNCHANGED <<config, state, success_count, last_failure, state_lock, probes>>

StampFailure(c) ==
  /\ Goto(c, "failure_stamps", "failure_opens")
  /\ last_failure' = "recent"
  /\ UNCHANGED <<config, state, failure_count, success_count, state_lock,
                 failure_lock, probes>>

OpenWithoutStateLock(c) ==
  /\ Goto(c, "failure_opens", "idle")
  /\ state' = "Open"
  /\ failure_lock' = NoCaller
  /\ UNCHANGED <<config, failure_count, success_count, last_failure,
                 state_lock, probes>>

Open(c) ==
  /\ state_lock = NoCaller
  /\ Goto(c, "failure_opens", "idle")
  /\ state' = "Open"
  /\ failure_lock' = NoCaller
  /\ UNCHANGED <<config, failure_count, success_count, last_failure,
                 state_lock, probes>>

-----------------------------------------------------------------------------
(* last_failure.elapsed() passes recovery_timeout_secs.                    *)
TimeoutElapses ==
  /\ last_failure = "recent"
  /\ last_failure' = "elapsed"
  /\ UNCHANGED <<config, state, failure_count, success_count, state_lock,
                 failure_lock, pc, probes>>

Step(c) ==
  \/ Answer(c) \/ Probe(c) \/ AllowedCloses(c)
  \/ SuccessInHalfOpen(c) \/ SuccessElsewhere(c) \/ ClearFailures(c)
  \/ CountFailure(c) \/ StampFailure(c) \/ Open(c)

Next == TimeoutElapses \/ \E c \in Callers : Call(c) \/ Step(c)

(* tokio's RwLock hands itself out first come, first served, so a caller   *)
(* that waits for a lock that is free again and again does get it.         *)
Fairness == \A c \in Callers : SF_vars(Step(c))

Spec == Init /\ [][Next]_vars

FairSpec == Spec /\ Fairness

-----------------------------------------------------------------------------
TypeOK ==
  /\ config \in Configs
  /\ state \in {"Closed", "Open", "HalfOpen"}
  /\ failure_count \in 0 .. CountMod - 1
  /\ success_count \in 0 .. CountMod - 1
  /\ last_failure \in {"none", "recent", "elapsed"}
  /\ state_lock \in Callers \cup {NoCaller}
  /\ failure_lock \in Callers \cup {NoCaller}
  /\ pc \in [Callers -> PC]
  /\ probes \in Nat

(* Each lock is held by exactly the caller that is past its acquisition:   *)
(* state.write() by one that goes on to clear the failures (lines 72, 86   *)
(* and 90), failure_count.write() by one that goes on to open (99, 100).   *)
(* No early return of the code leaves a lock behind.                       *)
LocksHeldByTheirUsers ==
  \A c \in Callers :
    /\ state_lock = c <=> pc[c] \in AwaitsFailuresToClear
    /\ failure_lock = c <=> pc[c] \in HoldsFailures

(* An Open breaker has a failure time, without which line 57 would deny    *)
(* every request for ever: record_failure stamps before it opens.          *)
OpenHasFailureTime ==
  /\ state = "Open" => last_failure # "none"
  /\ \A c \in Callers : pc[c] = "failure_opens" => last_failure # "none"

(* HalfOpen always misses part of its quorum, so the branch of             *)
(* is_request_allowed that closes the breaker (lines 71-73) is reachable   *)
(* only with half_open_max_requests = 0.                                   *)
HalfOpenMissesQuorum ==
  state = "HalfOpen" /\ config.half_open_max_requests > 0
    => success_count < config.half_open_max_requests

(* A caller between counting the decisive failure and opening the breaker  *)
(* still sees the count at or above the threshold: no success clears it in *)
(* between, because record_failure keeps failure_count locked throughout.  *)
DecisiveCountIsKept ==
  \A c \in Callers :
    pc[c] \in HoldsFailures => failure_count >= config.failure_threshold

(* The breaker opens only at a moment when failure_threshold failures      *)
(* stand in its count.                                                     *)
OpensAtThreshold ==
  [][state # "Open" /\ state' = "Open"
       => failure_count >= config.failure_threshold]_vars

(* The breaker closes only when half_open_max_requests successes have been *)
(* recorded since it last became HalfOpen; successes of an earlier probing *)
(* period do not count.                                                    *)
ClosesAfterQuorum ==
  [][state # "Closed" /\ state' = "Closed"
       => probes' >= config.half_open_max_requests]_vars

(* The two lock orders of the code: record_failure holds failure_count and *)
(* waits for state (line 100), another caller holds state and waits for    *)
(* failure_count (lines 72, 86, 90).                                       *)
Inversion ==
  \E c, d \in Callers :
    /\ failure_lock = c /\ pc[c] = "failure_opens"
    /\ state_lock = d /\ pc[d] \in AwaitsFailuresToClear

(* The inversion is never left: the code has no timeout on its locks, so   *)
(* once two callers meet in it the breaker answers nobody any more.        *)
InversionIsForEver == [][Inversion => Inversion']_vars

(* Every call returns, or the inversion happens.                           *)
CallsReturn ==
  \A c \in Callers : pc[c] # "idle" ~> (pc[c] = "idle" \/ Inversion)

(* The locked, counting breaker implements the abstract one.               *)
Promise == INSTANCE BreakerPromise
ImplementsPromise == Promise!Spec
=============================================================================
