-------------------------- MODULE MCCircuitBreaker --------------------------
(* Three callers and small thresholds: enough for a success, a      *)
(* failure and a question to overlap in every order.                       *)
EXTENDS CircuitBreaker

CONSTANTS c1, c2, c3

MCCallers == {c1, c2, c3}

MCConfigs ==
  [failure_threshold : {1, 2}, half_open_max_requests : 0 .. 2]
=============================================================================
