--------------------------- MODULE BreakerPromise ---------------------------
(***************************************************************************)
(* What a circuit breaker promises, with no locks, counters or callers: it *)
(* opens only after a failure has been stamped, leaves Open only for       *)
(* HalfOpen and only once the recovery timeout has elapsed since the last  *)
(* stamp, and closes only from HalfOpen.  CircuitBreaker implements it.    *)
(***************************************************************************)
VARIABLES state, last_failure

vars == <<state, last_failure>>

Init == state = "Closed" /\ last_failure = "none"

StampFailure == last_failure' = "recent" /\ UNCHANGED state

TimeoutElapses ==
  /\ last_failure = "recent"
  /\ last_failure' = "elapsed"
  /\ UNCHANGED state

Open ==
  /\ last_failure # "none"
  /\ state' = "Open"
  /\ UNCHANGED last_failure

Probe ==
  /\ state = "Open"
  /\ last_failure = "elapsed"
  /\ state' = "HalfOpen"
  /\ UNCHANGED last_failure

Recover ==
  /\ state = "HalfOpen"
  /\ state' = "Closed"
  /\ UNCHANGED last_failure

Next == StampFailure \/ TimeoutElapses \/ Open \/ Probe \/ Recover

Spec == Init /\ [][Next]_vars
=============================================================================
