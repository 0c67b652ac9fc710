----------------------- MODULE CircuitBreaker_proofs -----------------------
(***************************************************************************)
(* Proofs about the circuit breaker, for every set of callers, every set   *)
(* of configurations and every counter width.                              *)
(***************************************************************************)
EXTENDS CircuitBreaker, TLAPS

(* The inductive invariant: what the two locks protect, and the relation   *)
(* between the quorum's counter and its history.                           *)
IInv ==
  /\ TypeOK
  /\ LocksHeldByTheirUsers
  /\ OpenHasFailureTime
  /\ DecisiveCountIsKept
  /\ HalfOpenMissesQuorum
  /\ state = "HalfOpen" => success_count <= probes

(* A wrapping u32 increment stays in range and never adds more than one.   *)
LEMMA IncrementBounds ==
  ASSUME NEW n \in Nat
  PROVE  Increment(n) \in 0 .. CountMod - 1 /\ Increment(n) <= n + 1
<1>1. CountMod \in Nat /\ CountMod > 0
  BY BreakerAssumption
<1>2. Increment(n) \in 0 .. CountMod - 1
  BY <1>1 DEF Increment
<1>3. CASE n + 1 < CountMod
  BY <1>1, <1>3 DEF Increment
<1>4. CASE n + 1 >= CountMod
  BY <1>1, <1>2, <1>4
<1> QED
  BY <1>1, <1>2, <1>3, <1>4

LEMMA InitIInv == Init => IInv
<1> SUFFICES ASSUME Init PROVE IInv
  OBVIOUS
<1>1. config \in [failure_threshold : Nat,
                  half_open_max_requests : 0 .. CountMod - 1]
  BY BreakerAssumption DEF Init
<1>2. TypeOK
  BY BreakerAssumption DEF Init, TypeOK, PC
<1>3. LocksHeldByTheirUsers
  BY BreakerAssumption
     DEF Init, LocksHeldByTheirUsers, AwaitsFailuresToClear, HoldsFailures
<1> QED
  BY <1>2, <1>3 DEF Init, IInv, OpenHasFailureTime, DecisiveCountIsKept,
     HalfOpenMissesQuorum, HoldsFailures

(* The configuration's fields are numbers in every state.                  *)
LEMMA ConfigType ==
  ASSUME TypeOK
  PROVE  /\ config.failure_threshold \in Nat
         /\ config.half_open_max_requests \in 0 .. CountMod - 1
<1>1. config \in [failure_threshold : Nat,
                  half_open_max_requests : 0 .. CountMod - 1]
  BY BreakerAssumption DEF TypeOK
<1> QED
  BY <1>1

LEMMA NextIInv == IInv /\ [Next]_vars => IInv'
<1> SUFFICES ASSUME IInv, [Next]_vars PROVE IInv'
  OBVIOUS
<1> USE DEF IInv, TypeOK, LocksHeldByTheirUsers, OpenHasFailureTime,
        DecisiveCountIsKept, HalfOpenMissesQuorum, Goto, PC, Calls,
        AwaitsFailuresToClear, HoldsFailures
<1>0. /\ config.failure_threshold \in Nat
      /\ config.half_open_max_requests \in Nat
      /\ CountMod \in Nat /\ CountMod > 0
      /\ NoCaller \notin Callers
  BY ConfigType, BreakerAssumption
<1>1. CASE UNCHANGED vars
  BY <1>1 DEF vars
<1>2. CASE TimeoutElapses
  BY <1>2 DEF TimeoutElapses
<1>3. ASSUME NEW c \in Callers, Call(c) PROVE IInv'
  BY <1>3 DEF Call
<1>4. ASSUME NEW c \in Callers, Answer(c) PROVE IInv'
  BY <1>4 DEF Answer
<1>5. ASSUME NEW c \in Callers, Probe(c) PROVE IInv'
  BY <1>0, <1>5 DEF Probe
<1>6. ASSUME NEW c \in Callers, AllowedCloses(c) PROVE IInv'
  BY <1>0, <1>6 DEF AllowedCloses
<1>7. ASSUME NEW c \in Callers, SuccessInHalfOpen(c) PROVE IInv'
  <2>1. /\ success_count' \in 0 .. CountMod - 1
        /\ success_count' <= success_count + 1
    BY <1>7, IncrementBounds DEF SuccessInHalfOpen
  <2>2. CASE Quorum(success_count')
    BY <1>0, <1>7, <2>1, <2>2 DEF SuccessInHalfOpen
  <2>3. CASE ~Quorum(success_count')
    BY <1>0, <1>7, <2>1, <2>3 DEF SuccessInHalfOpen, Quorum
  <2> QED
    BY <2>2, <2>3
<1>8. ASSUME NEW c \in Callers, SuccessElsewhere(c) PROVE IInv'
  BY <1>0, <1>8 DEF SuccessElsewhere
<1>9. ASSUME NEW c \in Callers, ClearFailures(c) PROVE IInv'
  BY <1>0, <1>9 DEF ClearFailures
<1>10. ASSUME NEW c \in Callers, CountFailure(c) PROVE IInv'
  <2>1. failure_count' \in 0 .. CountMod - 1
    BY <1>10, IncrementBounds DEF CountFailure
  <2> QED
    BY <1>0, <1>10, <2>1 DEF CountFailure
<1>11. ASSUME NEW c \in Callers, StampFailure(c) PROVE IInv'
  BY <1>0, <1>11 DEF StampFailure
<1>12. ASSUME NEW c \in Callers, Open(c) PROVE IInv'
  BY <1>0, <1>12 DEF Open
<1> QED
  BY <1>1, <1>2, <1>3, <1>4, <1>5, <1>6, <1>7, <1>8, <1>9, <1>10, <1>11, <1>12
     DEF Next, Step

(* Every reachable state satisfies the inductive invariant.                *)
THEOREM Invariance == Spec => []IInv
<1> QED
  BY InitIInv, NextIInv, PTL DEF Spec

(* Type correctness of the breaker: no counter leaves its width and no     *)
(* lock is owned by anything but a caller.                                 *)
THEOREM TypeCorrect == Spec => []TypeOK
<1>1. IInv => TypeOK
  BY DEF IInv
<1> QED
  BY <1>1, Invariance, PTL

(* No reachable Open breaker lacks the failure time that line 57 needs to  *)
(* let a probe through.                                                    *)
THEOREM OpenIsRecoverable == Spec => []OpenHasFailureTime
<1>1. IInv => OpenHasFailureTime
  BY DEF IInv
<1> QED
  BY <1>1, Invariance, PTL

(* The closing branch of is_request_allowed is dead code unless            *)
(* half_open_max_requests = 0.                                             *)
THEOREM ClosingBranchIsDead == Spec => []HalfOpenMissesQuorum
<1>1. IInv => HalfOpenMissesQuorum
  BY DEF IInv
<1> QED
  BY <1>1, Invariance, PTL

(* record_failure opens the breaker only with the threshold in the count,  *)
(* whatever successes run beside it.                                       *)
THEOREM ThresholdTheorem == Spec => OpensAtThreshold
<1>1. IInv /\ [Next]_vars
        => [state # "Open" /\ state' = "Open"
              => failure_count >= config.failure_threshold]_vars
  <2> SUFFICES ASSUME IInv, Next, state # "Open", state' = "Open"
               PROVE  failure_count >= config.failure_threshold
    BY DEF vars
  <2>1. PICK c \in Callers : Open(c)
    BY DEF Next, TimeoutElapses, Call, Step, Answer, Probe, AllowedCloses,
       SuccessInHalfOpen, SuccessElsewhere, ClearFailures, CountFailure,
       StampFailure
  <2> QED
    BY <2>1 DEF Open, Goto, IInv, DecisiveCountIsKept, HoldsFailures
<1> QED
  BY <1>1, Invariance, PTL DEF Spec, OpensAtThreshold

(* The breaker closes only after a quorum of successes of the current      *)
(* probing period.                                                         *)
THEOREM QuorumTheorem == Spec => ClosesAfterQuorum
<1>1. IInv /\ [Next]_vars
        => [state # "Closed" /\ state' = "Closed"
              => probes' >= config.half_open_max_requests]_vars
  <2> SUFFICES ASSUME IInv, Next, state # "Closed", state' = "Closed"
               PROVE  probes' >= config.half_open_max_requests
    BY DEF vars
  <2>0. /\ config.half_open_max_requests \in Nat
        /\ success_count \in Nat /\ probes \in Nat
    BY ConfigType DEF IInv, TypeOK
  <2>1. PICK c \in Callers : AllowedCloses(c) \/ SuccessInHalfOpen(c)
    BY DEF Next, TimeoutElapses, Call, Step, Answer, Probe, Open,
       SuccessElsewhere, ClearFailures, CountFailure, StampFailure
  <2>2. CASE AllowedCloses(c)
    BY <2>0, <2>2 DEF AllowedCloses, IInv
  <2>3. CASE SuccessInHalfOpen(c)
    <3>1. success_count' <= success_count + 1 /\ success_count' \in Nat
      BY <2>0, <2>3, IncrementBounds, BreakerAssumption DEF SuccessInHalfOpen
    <3>2. Quorum(success_count')
      BY <2>3 DEF SuccessInHalfOpen
    <3> QED
      BY <2>0, <2>3, <3>1, <3>2 DEF SuccessInHalfOpen, Quorum, IInv
  <2> QED
    BY <2>1, <2>2, <2>3
<1> QED
  BY <1>1, Invariance, PTL DEF Spec, ClosesAfterQuorum

(* Two callers that meet in the lock inversion never leave it: no step of  *)
(* any caller, and no passage of time, frees either lock.                  *)
THEOREM InversionTheorem == Spec => InversionIsForEver
<1>1. IInv /\ [Next]_vars => [Inversion => Inversion']_vars
  <2> SUFFICES ASSUME IInv, Next, Inversion PROVE Inversion'
    BY DEF vars
  <2>1. PICK c \in Callers, d \in Callers :
          /\ failure_lock = c /\ pc[c] = "failure_opens"
          /\ state_lock = d /\ pc[d] \in AwaitsFailuresToClear
    BY DEF Inversion
  <2>2. failure_lock # NoCaller /\ state_lock # NoCaller
    BY <2>1, BreakerAssumption
  <2>3. /\ failure_lock' = failure_lock /\ state_lock' = state_lock
        /\ pc'[c] = pc[c] /\ pc'[d] = pc[d]
    BY <2>1, <2>2 DEF IInv, TypeOK, Next, Step, TimeoutElapses, Call, Answer,
       Probe, AllowedCloses, SuccessInHalfOpen, SuccessElsewhere,
       ClearFailures, CountFailure, StampFailure, Open, Goto, Calls,
       AwaitsFailuresToClear
  <2> QED
    BY <2>1, <2>3 DEF Inversion
<1> QED
  BY <1>1, Invariance, PTL DEF Spec, InversionIsForEver

(* The locked breaker implements the abstract one: each step is a step of  *)
(* BreakerPromise or leaves its two variables alone.                       *)
THEOREM Refinement == Spec => ImplementsPromise
<1>1. Init => Promise!Init
  BY DEF Init, Promise!Init
<1>2. IInv /\ [Next]_vars => [Promise!Next]_(Promise!vars)
  <2> SUFFICES ASSUME IInv, Next PROVE [Promise!Next]_(Promise!vars)
    BY DEF vars, Promise!vars
  <2> USE DEF Promise!vars, Promise!Next
  <2>1. CASE TimeoutElapses
    BY <2>1 DEF TimeoutElapses, Promise!TimeoutElapses
  <2>2. ASSUME NEW c \in Callers, Call(c) PROVE UNCHANGED Promise!vars
    BY <2>2 DEF Call
  <2>3. ASSUME NEW c \in Callers, Answer(c) PROVE UNCHANGED Promise!vars
    BY <2>3 DEF Answer
  <2>4. ASSUME NEW c \in Callers, Probe(c) PROVE Promise!Probe
    BY <2>4 DEF Probe, Promise!Probe
  <2>5. ASSUME NEW c \in Callers, AllowedCloses(c) PROVE Promise!Recover
    BY <2>5 DEF AllowedCloses, Promise!Recover
  <2>6. ASSUME NEW c \in Callers, SuccessInHalfOpen(c)
        PROVE  Promise!Recover \/ UNCHANGED Promise!vars
    BY <2>6 DEF SuccessInHalfOpen, Promise!Recover
  <2>7. ASSUME NEW c \in Callers,
               SuccessElsewhere(c) \/ ClearFailures(c) \/ CountFailure(c)
        PROVE  UNCHANGED Promise!vars
    BY <2>7 DEF SuccessElsewhere, ClearFailures, CountFailure
  <2>8. ASSUME NEW c \in Callers, StampFailure(c) PROVE Promise!StampFailure
    BY <2>8 DEF StampFailure, Promise!StampFailure
  <2>9. ASSUME NEW c \in Callers, Open(c) PROVE Promise!Open
    BY <2>9 DEF Open, Promise!Open, Goto, IInv, OpenHasFailureTime
  <2> QED
    BY <2>1, <2>2, <2>3, <2>4, <2>5, <2>6, <2>7, <2>8, <2>9 DEF Next, Step
<1> QED
  BY <1>1, <1>2, Invariance, PTL DEF Spec, ImplementsPromise, Promise!Spec
=============================================================================
