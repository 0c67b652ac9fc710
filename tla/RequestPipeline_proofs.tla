----------------------- MODULE RequestPipeline_proofs -----------------------
(***************************************************************************)
(* The rate bound of RateLimiter, the safety properties of                 *)
(* RequestPipeline, and that it implements Firewall, for every number of   *)
(* requests and clients, every limiter and every configuration.            *)
(***************************************************************************)
EXTENDS RequestPipeline, TLAPS

-----------------------------------------------------------------------------
(* The limiter on its own.  What a client has been allowed since the       *)
(* observer began is not inductive: it is paid for out of the tokens that  *)
(* are left, so the invariant counts both, at their value at the present   *)
(* time.                                                                   *)
Paid ==
  \A k \in Clients :
    Token * admitted[k] + Refilled(k) <= Full + (now - since) * PerMinute

LimiterInv == LimiterTypeOK /\ Paid

(* The rate as a number of its own: products with it are what the          *)
(* arithmetic below has to reorder.                                        *)
LEMMA RefillGrows ==
  ASSUME NEW t \in Int, NEW u \in Int, NEW rate \in Nat, t <= u
  PROVE  /\ t * rate \in Int /\ u * rate \in Int
         /\ t * rate <= u * rate
         /\ (u + 1) * rate = u * rate + rate
  OBVIOUS

Bounded == Full \in Nat /\ \A k \in Clients : Refilled(k) \in 0 .. Full

(* A bucket holds between nothing and its burst, whenever it is looked at. *)
LEMMA RefilledBounds == LimiterTypeOK => Bounded
<1> SUFFICES ASSUME LimiterTypeOK, NEW k \in Clients
             PROVE  Full \in Nat /\ Refilled(k) \in 0 .. Full
  BY LimiterAssumption DEF Bounded, Full, Token
<1>1. Full \in Nat
  BY LimiterAssumption DEF Full, Token
<1>2. CASE k \in DOMAIN buckets
  <2>1. /\ buckets[k].tokens \in 0 .. Full
        /\ now - buckets[k].last_refill \in Nat
    BY <1>2 DEF LimiterTypeOK
  <2>2. (now - buckets[k].last_refill) * PerMinute \in Nat
    BY <2>1, LimiterAssumption
  <2> QED
    BY <1>1, <1>2, <2>1, <2>2 DEF Refilled, Bucket
<1>3. CASE k \notin DOMAIN buckets
  <2>1. (now - now) * PerMinute = 0
    BY LimiterAssumption DEF LimiterTypeOK
  <2> QED
    BY <1>1, <1>3, <2>1 DEF Refilled, Bucket
<1> QED
  BY <1>2, <1>3

LEMMA LimiterStart == LimiterInit => LimiterInv
<1> SUFFICES ASSUME LimiterInit PROVE LimiterInv
  OBVIOUS
<1>1. LimiterTypeOK
  BY LimiterAssumption DEF LimiterInit, LimiterTypeOK, NoBuckets
<1>2. ASSUME NEW k \in Clients
      PROVE  Token * admitted[k] + Refilled(k) <= Full + (now - since) * PerMinute
  <2>1. Refilled(k) \in 0 .. Full /\ Full \in Nat
    BY <1>1, RefilledBounds DEF Bounded
  <2>2. (now - since) * PerMinute = 0
    BY LimiterAssumption DEF LimiterInit
  <2> QED
    BY <2>1, <2>2 DEF LimiterInit, Token
<1> QED
  BY <1>1, <1>2 DEF LimiterInv, Paid

(* A visit leaves k's bucket with the given tokens, at this very moment,   *)
(* and what the other buckets hold unchanged.                              *)
LEMMA VisitSets ==
  ASSUME LimiterTypeOK, NEW k \in Clients, NEW tokens \in 0 .. Full,
         Visit(k, tokens), now' = now, since' = since
  PROVE  /\ Refilled(k)' = tokens
         /\ \A j \in Clients \ {k} : Refilled(j)' = Refilled(j)
         /\ DOMAIN buckets' \subseteq Clients
         /\ \A j \in DOMAIN buckets' :
              /\ buckets'[j].tokens \in 0 .. Full
              /\ buckets'[j].last_refill \in 0 .. now
<1>1. /\ Full \in Nat /\ now \in Nat /\ PerMinute \in Nat
      /\ (now - now) * PerMinute = 0
  BY LimiterAssumption DEF LimiterTypeOK, Full, Token
<1>2. /\ DOMAIN buckets' = DOMAIN buckets \cup {k}
      /\ buckets'[k] = [tokens |-> tokens, last_refill |-> now]
      /\ \A j \in DOMAIN buckets \ {k} : buckets'[j] = buckets[j]
  BY DEF Visit
<1>3. Refilled(k)' = tokens
  BY <1>1, <1>2 DEF Refilled, Bucket, Full, Token
<1>4. ASSUME NEW j \in Clients \ {k}
      PROVE  Refilled(j)' = Refilled(j)
  BY <1>2 DEF Refilled, Bucket, Full, Token
<1>5. ASSUME NEW j \in DOMAIN buckets'
      PROVE  /\ buckets'[j].tokens \in 0 .. Full
             /\ buckets'[j].last_refill \in 0 .. now
  <2>1. CASE j = k
    BY <1>1, <1>2, <2>1
  <2>2. CASE j # k
    BY <1>2, <1>5, <2>2 DEF LimiterTypeOK
  <2> QED
    BY <2>1, <2>2
<1> QED
  BY <1>2, <1>3, <1>4, <1>5 DEF LimiterTypeOK

LEMMA AllowStep ==
  ASSUME LimiterInv, NEW k \in Clients, Allow(k)
  PROVE  LimiterInv'
<1> USE DEF Token
<1>1. LimiterTypeOK /\ Paid
  BY DEF LimiterInv
<1>2. Refilled(k) \in 0 .. Full /\ Full \in Nat
  BY <1>1, RefilledBounds DEF Bounded
<1>3. /\ Refilled(k) - 60 \in 0 .. Full
      /\ Visit(k, Refilled(k) - 60)
      /\ admitted' = [admitted EXCEPT ![k] = @ + 1]
      /\ now' = now /\ since' = since
  BY <1>2 DEF Allow
<1>4. /\ Refilled(k)' = Refilled(k) - 60
      /\ \A j \in Clients \ {k} : Refilled(j)' = Refilled(j)
      /\ DOMAIN buckets' \subseteq Clients
      /\ \A j \in DOMAIN buckets' :
           /\ buckets'[j].tokens \in 0 .. Full
           /\ buckets'[j].last_refill \in 0 .. now
  BY <1>1, <1>3, VisitSets
<1>5. LimiterTypeOK'
  BY <1>1, <1>3, <1>4 DEF LimiterTypeOK, Full
<1>6. ASSUME NEW j \in Clients
      PROVE  (Token * admitted[j] + Refilled(j) <= Full + (now - since) * PerMinute)'
  <2> DEFINE refilled == (now - since) * PerMinute
  <2>1. refilled \in Int /\ admitted[j] \in Nat
    BY <1>1, LimiterAssumption DEF LimiterTypeOK
  <2>2. 60 * admitted[j] + Refilled(j) <= Full + refilled
    BY <1>1 DEF Paid
  <2>3. refilled' = refilled /\ Full' = Full
    BY <1>3 DEF Full
  <2>4. CASE j = k
    <3>1. admitted'[j] = admitted[j] + 1
      BY <1>1, <1>3, <2>4 DEF LimiterTypeOK
    <3>2. Refilled(j)' = Refilled(j) - 60
      BY <1>4, <2>4
    <3> QED
      BY <1>2, <2>1, <2>2, <2>3, <2>4, <3>1, <3>2
  <2>5. CASE j # k
    <3>1. admitted'[j] = admitted[j]
      BY <1>1, <1>3, <2>5 DEF LimiterTypeOK
    <3>2. Refilled(j)' = Refilled(j)
      BY <1>4, <2>5
    <3> QED
      BY <2>2, <2>3, <3>1, <3>2
  <2> QED
    BY <2>4, <2>5
<1> QED
  BY <1>5, <1>6 DEF LimiterInv, Paid

LEMMA DenyStep ==
  ASSUME LimiterInv, NEW k \in Clients, Deny(k)
  PROVE  LimiterInv'
<1>1. LimiterTypeOK /\ Paid
  BY DEF LimiterInv
<1>2. Refilled(k) \in 0 .. Full
  BY <1>1, RefilledBounds DEF Bounded
<1>3. Visit(k, Refilled(k)) /\ UNCHANGED <<now, since, admitted>>
  BY DEF Deny
<1>4. /\ \A j \in Clients : Refilled(j)' = Refilled(j)
      /\ DOMAIN buckets' \subseteq Clients
      /\ \A j \in DOMAIN buckets' :
           /\ buckets'[j].tokens \in 0 .. Full
           /\ buckets'[j].last_refill \in 0 .. now
  BY <1>1, <1>2, <1>3, VisitSets
<1>5. LimiterTypeOK'
  BY <1>1, <1>3, <1>4 DEF LimiterTypeOK, Full, Token
<1>6. Paid'
  BY <1>1, <1>3, <1>4 DEF Paid, Full, Token
<1> QED
  BY <1>5, <1>6 DEF LimiterInv

(* When a second passes, a bucket gains at most what the bound gains.      *)
LEMMA ElapseStep ==
  ASSUME LimiterInv, Elapse
  PROVE  LimiterInv'
<1> USE DEF Token
<1>1. LimiterTypeOK /\ Paid
  BY DEF LimiterInv
<1>2. /\ now \in Nat /\ now' = now + 1 /\ now' \in 0 .. MaxTime
      /\ buckets' = buckets /\ since \in 0 .. now /\ PerMinute \in Nat
  BY <1>1, LimiterAssumption DEF Elapse, LimiterTypeOK
<1>3. LimiterTypeOK'
  BY <1>1, <1>2 DEF LimiterTypeOK, Elapse, Full
<1>4. ASSUME NEW k \in Clients
      PROVE  Refilled(k)' <= Refilled(k) + PerMinute
  <2>1. Full \in Nat /\ Full' = Full
    BY LimiterAssumption DEF Full
  <2>2. CASE k \in DOMAIN buckets
    <3> DEFINE age == now - buckets[k].last_refill
    <3>1. /\ buckets[k].tokens \in Int /\ age \in Int
          /\ (buckets[k].last_refill)' = buckets[k].last_refill
          /\ buckets[k].last_refill \in Int
      BY <1>1, <1>2, <2>2 DEF LimiterTypeOK
    <3>2. age' = age + 1
      BY <1>2, <3>1
    <3>3. age * PerMinute \in Int /\ (age + 1) * PerMinute = age * PerMinute + PerMinute
      BY <1>2, <3>1, RefillGrows
    <3>4. Bucket(k) = buckets[k] /\ Bucket(k)' = buckets[k]
      BY <1>2, <2>2 DEF Bucket
    <3> HIDE DEF age
    <3>5. /\ Refilled(k) = IF buckets[k].tokens + age * PerMinute < Full
                           THEN buckets[k].tokens + age * PerMinute ELSE Full
          /\ Refilled(k)' = IF buckets[k].tokens + age' * PerMinute < Full
                            THEN buckets[k].tokens + age' * PerMinute ELSE Full
      BY <1>2, <2>1, <3>4 DEF Refilled, age
    <3> QED
      BY <1>2, <2>1, <3>1, <3>2, <3>3, <3>5
  <2>3. CASE k \notin DOMAIN buckets
    <3>1. Bucket(k) = [tokens |-> Full, last_refill |-> now]
          /\ Bucket(k)' = [tokens |-> Full, last_refill |-> now']
      BY <1>2, <2>1, <2>3 DEF Bucket
    <3>2. (now - now) * PerMinute = 0 /\ (now' - now') * PerMinute = 0
      BY <1>2
    <3> QED
      BY <1>2, <2>1, <3>1, <3>2 DEF Refilled
  <2> QED
    BY <2>2, <2>3
<1>5. ASSUME NEW k \in Clients
      PROVE  (Token * admitted[k] + Refilled(k) <= Full + (now - since) * PerMinute)'
  <2>1. /\ Refilled(k) \in 0 .. Full /\ Full \in Nat /\ Full' = Full
        /\ Refilled(k)' \in 0 .. Full /\ admitted[k] \in Nat
    <3>1. Refilled(k) \in 0 .. Full /\ Full \in Nat /\ admitted[k] \in Nat
      BY <1>1, RefilledBounds DEF Bounded, LimiterTypeOK
    <3>2. (LimiterTypeOK => Bounded)'
      BY RefilledBounds, PTL
    <3> QED
      BY <1>3, <3>1, <3>2 DEF Bounded, Full
  <2>2. CASE since' = since /\ admitted' = admitted
    <3>1. /\ (now - since) * PerMinute \in Int
          /\ (now - since + 1) * PerMinute = (now - since) * PerMinute + PerMinute
      BY <1>2, RefillGrows
    <3>2. (now' - since) = now - since + 1
      BY <1>2
    <3>3. 60 * admitted[k] + Refilled(k) <= Full + (now - since) * PerMinute
      BY <1>1 DEF Paid
    <3> QED
      BY <1>2, <1>4, <2>1, <2>2, <3>1, <3>2, <3>3
  <2>3. CASE since' = now' /\ admitted' = [c \in Clients |-> 0]
    <3>1. (now' - since') * PerMinute = 0 /\ admitted'[k] = 0
      BY <1>2, <2>3
    <3> QED
      BY <2>1, <3>1
  <2> QED
    BY <2>2, <2>3 DEF Elapse
<1> QED
  BY <1>3, <1>5 DEF LimiterInv, Paid

LEMMA LimiterStep == LimiterInv /\ [LimiterNext]_limiterVars => LimiterInv'
<1> SUFFICES ASSUME LimiterInv, [LimiterNext]_limiterVars PROVE LimiterInv'
  OBVIOUS
<1>1. CASE Elapse
  BY <1>1, ElapseStep
<1>2. ASSUME NEW k \in Clients, Allow(k) PROVE LimiterInv'
  BY <1>2, AllowStep
<1>3. ASSUME NEW k \in Clients, Deny(k) PROVE LimiterInv'
  BY <1>3, DenyStep
<1>4. CASE UNCHANGED limiterVars
  BY <1>4 DEF LimiterInv, Paid, LimiterTypeOK, Refilled, Bucket, Full, Token, limiterVars
<1> QED
  BY <1>1, <1>2, <1>3, <1>4 DEF LimiterNext

THEOREM LimiterInvariance == LimiterSpec => []LimiterInv
<1> QED
  BY LimiterStart, LimiterStep, PTL DEF LimiterSpec

(* Every bucket stays between empty and full, and no visit is dated after  *)
(* the present.                                                            *)
THEOREM LimiterTypeCorrect == LimiterSpec => []LimiterTypeOK
<1>1. LimiterInv => LimiterTypeOK
  BY DEF LimiterInv
<1> QED
  BY <1>1, LimiterInvariance, PTL

(* In no interval is a client allowed more than a full bucket and what the *)
(* interval refills (`allow', lib.rs 27-47).                               *)
THEOREM RateTheorem == LimiterSpec => []RateBound
<1>1. LimiterInv => RateBound
  <2> SUFFICES ASSUME LimiterInv, NEW k \in Clients
               PROVE  Token * admitted[k] <= Full + (now - since) * PerMinute
    BY DEF RateBound
  <2>1. Refilled(k) \in 0 .. Full /\ admitted[k] \in Nat
    BY RefilledBounds DEF Bounded, LimiterInv, LimiterTypeOK
  <2>2. (now - since) * PerMinute \in Int /\ Full \in Nat
    BY LimiterAssumption DEF LimiterInv, LimiterTypeOK, Full, Token
  <2>3. Token * admitted[k] + Refilled(k) <= Full + (now - since) * PerMinute
    BY DEF LimiterInv, Paid
  <2> QED
    BY <2>1, <2>2, <2>3 DEF Token
<1> QED
  BY <1>1, LimiterInvariance, PTL

-----------------------------------------------------------------------------
(* The pipeline.  The limiter's part of the invariant is the limiter's     *)
(* own; the requests' part, Good, ties where a handler and its task are to *)
(* the verdict and to the calls made so far.                               *)
Passed == {"trusted", "monitored", "clean"}
Alarming == {"limited", "blocked", "monitored"}

Has(kind, r) == <<kind, r>> \in delivered \cup lost

GoodHandler(r) ==
  /\ pc[r] \in {"away", "reading"} =>
       verdict[r] = "none" /\ answer[r] = "none" /\ report[r] = "none"
  /\ pc[r] \in {"forwarding", "recording", "responding"} =>
       verdict[r] \in Passed /\ answer[r] = "none"
  /\ pc[r] \in {"recording", "responding"} => r \in upstream
  /\ pc[r] = "responding" => Has("event", r)
  /\ r \in upstream => verdict[r] \in Passed
  /\ verdict[r] = "clean" => ~request[r].attack
  /\ answer[r] = "upstream" => Has("event", r)
  /\ Has("event", r) => r \in upstream

GoodTask(r) ==
  /\ report[r] = "none" => verdict[r] \in {"none", "trusted", "refused"}
  /\ report[r] \in {"incident", "notice"} => verdict[r] \in Alarming
  /\ report[r] \in {"count", "done"} => verdict[r] \in Alarming \cup {"clean"}
  /\ Has("incident", r) => verdict[r] \in Alarming
  /\ Has("count", r) => verdict[r] \in Alarming \cup {"clean"}
  /\ Has("notice", r) =>
       verdict[r] \in Alarming /\ Has("incident", r) /\ Has("count", r)
  /\ report[r] = "count" /\ verdict[r] \in Alarming => Has("incident", r)
  /\ report[r] = "notice" => Has("incident", r) /\ Has("count", r)
  /\ report[r] = "done" =>
       /\ Has("count", r)
       /\ verdict[r] \in Alarming => Has("incident", r) /\ Has("notice", r)

Good(r) == GoodHandler(r) /\ GoodTask(r)

RequestsTypeOK ==
  /\ config \in Settings
  /\ request \in [Requests -> Kinds \cup {NoRequest}]
  /\ pc \in [Requests -> PC]
  /\ \A r \in Requests : pc[r] # "away" => request[r] \in Kinds
  /\ verdict \in [Requests -> Verdicts]
  /\ answer \in [Requests -> Answers]
  /\ report \in [Requests -> Reports]
  /\ upstream \subseteq Requests
  /\ delivered \subseteq CallKinds \X Requests
  /\ lost \subseteq CallKinds \X Requests
  /\ restarts \in 0 .. MaxRestarts

PipelineInv == LimiterInv /\ RequestsTypeOK /\ \A r \in Requests : Good(r)

-----------------------------------------------------------------------------
(* The limiter within the pipeline                                         *)

(* A restart forgets the buckets, and the observer starts anew with it.    *)
LEMMA LimiterForgets ==
  ASSUME LimiterInv, buckets' = NoBuckets, since' = now, now' = now,
         admitted' = [k \in Clients |-> 0]
  PROVE  LimiterInv'
<1>1. LimiterTypeOK /\ now \in Nat /\ PerMinute \in Nat /\ Burst \in Nat
  BY LimiterAssumption DEF LimiterInv, LimiterTypeOK
<1>2. LimiterTypeOK'
  BY <1>1 DEF LimiterTypeOK, NoBuckets
<1>3. (now - now) * PerMinute = 0 /\ Full \in Nat
  BY <1>1 DEF Full, Token
<1>4. ASSUME NEW k \in Clients
      PROVE  (Token * admitted[k] + Refilled(k) <= Full + (now - since) * PerMinute)'
  <2>1. Refilled(k)' = Full /\ admitted'[k] = 0
    BY <1>3 DEF Refilled, Bucket, NoBuckets, Full, Token
  <2> QED
    BY <1>3, <2>1 DEF Full, Token
<1> QED
  BY <1>2, <1>4 DEF LimiterInv, Paid

LEMMA LimiterRests ==
  ASSUME LimiterInv, UNCHANGED limiterVars
  PROVE  LimiterInv'
  BY DEF LimiterInv, Paid, LimiterTypeOK, Refilled, Bucket, Full, Token, limiterVars

(* Every step of a handler keeps the limiter's invariant: it visits one    *)
(* bucket, through Allow or Deny, or none.                                 *)
LEMMA HandlerKeepsLimiter ==
  ASSUME PipelineInv, NEW r \in Requests, Handle(r)
  PROVE  LimiterInv'
<1>1. LimiterInv /\ RequestsTypeOK
  BY DEF PipelineInv
<1>2. pc[r] = "reading" => request[r].client \in Clients
  BY <1>1, PipelineAssumption DEF RequestsTypeOK
<1>3. CASE Admitted(r)
  BY <1>1, <1>2, <1>3, AllowStep, LimiterRests DEF Admitted
<1>4. CASE InspectLimited(r)
  BY <1>1, <1>2, <1>4, DenyStep DEF InspectLimited, Reply
<1>5. CASE UNCHANGED limiterVars
  BY <1>1, <1>5, LimiterRests
<1> QED
  BY <1>3, <1>4, <1>5
  DEF Handle, BodyFails, Inspect, InspectTrusted, InspectRefused, InspectAttack,
      InspectClean, UpstreamReceives, UpstreamAnswers, UpstreamFails, RecordEvent,
      Respond, Hangup

-----------------------------------------------------------------------------
(* Requests                                                                *)

LEMMA InitPipeline == Init => PipelineInv
<1> SUFFICES ASSUME Init PROVE PipelineInv
  OBVIOUS
<1>1. LimiterInv
  BY LimiterStart DEF Init
<1>2. RequestsTypeOK
  BY PipelineAssumption
  DEF Init, RequestsTypeOK, PC, Verdicts, Answers, Reports, CallKinds
<1>3. \A r \in Requests : Good(r)
  BY DEF Init, Good, GoodHandler, GoodTask, Has, Passed, Alarming
<1> QED
  BY <1>1, <1>2, <1>3 DEF PipelineInv

(* A call, made or lost, adds itself to the calls made and nothing else.   *)
LEMMA AttemptAdds ==
  ASSUME NEW kind \in CallKinds, NEW r \in Requests, Attempt(kind, r),
         RequestsTypeOK
  PROVE  /\ delivered' \subseteq CallKinds \X Requests
         /\ lost' \subseteq CallKinds \X Requests
         /\ \A k \in CallKinds, t \in Requests :
              Has(k, t)' <=> Has(k, t) \/ (k = kind /\ t = r)
  BY DEF Attempt, Has, RequestsTypeOK

(* A request that a step leaves alone stays good.                          *)
LEMMA OthersKept ==
  ASSUME NEW t \in Requests, Good(t),
         pc'[t] = pc[t], verdict'[t] = verdict[t], answer'[t] = answer[t],
         report'[t] = report[t], request'[t] = request[t],
         t \in upstream' <=> t \in upstream,
         \A k \in CallKinds : Has(k, t)' <=> Has(k, t)
  PROVE  Good(t)'
  BY DEF Good, GoodHandler, GoodTask, CallKinds

(* Before its inspection a request has no verdict and no call; this one    *)
(* gets both the verdict and the task that fits it.                        *)
LEMMA InspectStep ==
  ASSUME PipelineInv, NEW r \in Requests, Inspect(r)
  PROVE  RequestsTypeOK' /\ \A t \in Requests : Good(t)'
<1> USE DEF Decide, LetPass, Reply
<1>1. RequestsTypeOK /\ \A t \in Requests : Good(t)
  BY DEF PipelineInv
<1>2. pc[r] = "reading"
  BY DEF Inspect, InspectTrusted, InspectLimited, InspectRefused, InspectAttack,
         InspectClean, Admitted
<1>3. PICK v \in Verdicts, task \in Reports, to \in PC, a \in Answers :
        /\ verdict' = [verdict EXCEPT ![r] = v]
        /\ report' = [report EXCEPT ![r] = task]
        /\ pc' = [pc EXCEPT ![r] = to]
        /\ answer' = [answer EXCEPT ![r] = a]
        /\ UNCHANGED <<config, request, upstream, calls, restarts>>
        /\ a \in {"none", "403", "429"}
        /\ to \in {"forwarding", "answered"}
        /\ to = "forwarding" <=> v \in Passed
        /\ to = "forwarding" => a = "none"
        /\ v = "clean" => ~request[r].attack
        /\ \/ v \in {"trusted", "refused"} /\ task = "none"
           \/ v \in Alarming /\ task = "incident"
           \/ v = "clean" /\ task = "count"
  <2>0. answer[r] = "none" /\ answer = [answer EXCEPT ![r] = "none"]
    BY <1>1, <1>2 DEF RequestsTypeOK, Good, GoodHandler
  <2>1. CASE InspectTrusted(r)
    BY <2>0, <2>1 DEF InspectTrusted, Verdicts, Reports, PC, Answers, Passed, Alarming
  <2>2. CASE InspectLimited(r)
    BY <2>0, <2>2 DEF InspectLimited, Verdicts, Reports, PC, Answers, Passed, Alarming
  <2>3. CASE InspectRefused(r)
    BY <2>0, <2>3 DEF InspectRefused, Verdicts, Reports, PC, Answers, Passed, Alarming
  <2>4. CASE InspectAttack(r)
    BY <2>0, <2>4 DEF InspectAttack, Verdicts, Reports, PC, Answers, Passed, Alarming
  <2>5. CASE InspectClean(r)
    BY <2>0, <2>5 DEF InspectClean, Verdicts, Reports, PC, Answers, Passed, Alarming
  <2> QED
    BY <2>1, <2>2, <2>3, <2>4, <2>5 DEF Inspect
<1>4. RequestsTypeOK'
  BY <1>1, <1>2, <1>3 DEF RequestsTypeOK, calls
<1>5. ASSUME NEW t \in Requests PROVE Good(t)'
  <2>1. \A k \in CallKinds : Has(k, t)' <=> Has(k, t)
    BY <1>3 DEF Has, calls
  <2>2. CASE t # r
    BY <1>1, <1>3, <2>1, <2>2, OthersKept DEF RequestsTypeOK
  <2>3. CASE t = r
    <3>1. /\ verdict'[r] = v /\ report'[r] = task /\ pc'[r] = to /\ answer'[r] = a
          /\ request'[r] = request[r] /\ upstream' = upstream
      BY <1>1, <1>3 DEF RequestsTypeOK
    <3>2. /\ verdict[r] = "none" /\ r \notin upstream
          /\ ~Has("event", r) /\ ~Has("incident", r) /\ ~Has("count", r)
          /\ ~Has("notice", r)
      BY <1>1, <1>2 DEF Good, GoodHandler, GoodTask, Passed, Alarming
    <3>3. /\ ~Has("event", r)' /\ ~Has("incident", r)' /\ ~Has("count", r)'
          /\ ~Has("notice", r)'
      BY <2>1, <2>3, <3>2 DEF CallKinds
    <3>4. GoodHandler(r)'
      BY <1>3, <3>1, <3>2, <3>3 DEF GoodHandler, Passed
    <3>5. GoodTask(r)'
      BY <1>3, <3>1, <3>3 DEF GoodTask, Alarming
    <3> QED
      BY <2>3, <3>4, <3>5 DEF Good
  <2> QED
    BY <2>2, <2>3
<1> QED
  BY <1>4, <1>5

(* The rest of the handler: the body, the upstream server, the event.      *)
LEMMA ForwardStep ==
  ASSUME PipelineInv, NEW r \in Requests,
         \/ Arrive(r) \/ BodyFails(r)
         \/ UpstreamReceives(r) \/ UpstreamAnswers(r) \/ UpstreamFails(r)
         \/ RecordEvent(r) \/ Respond(r) \/ Hangup(r)
  PROVE  RequestsTypeOK' /\ \A t \in Requests : Good(t)'
<1> USE DEF Reply, calls
<1>1. RequestsTypeOK /\ \A t \in Requests : Good(t)
  BY DEF PipelineInv
<1>2. CASE Arrive(r)
  <2>1. RequestsTypeOK'
    BY <1>1, <1>2 DEF Arrive, RequestsTypeOK, PC
  <2>2. ASSUME NEW t \in Requests PROVE Good(t)'
    <3>1. \A k \in CallKinds : Has(k, t)' <=> Has(k, t)
      BY <1>2 DEF Arrive, Has
    <3>2. CASE t # r
      BY <1>1, <1>2, <3>1, <3>2, OthersKept DEF Arrive, RequestsTypeOK
    <3>3. CASE t = r
      BY <1>1, <1>2, <3>1, <3>3
      DEF Arrive, RequestsTypeOK, Good, GoodHandler, GoodTask, CallKinds, Passed
    <3> QED
      BY <3>2, <3>3
  <2> QED
    BY <2>1, <2>2
<1>3. CASE \/ BodyFails(r) \/ UpstreamAnswers(r) \/ UpstreamFails(r)
           \/ Respond(r) \/ Hangup(r)
  <2>1. RequestsTypeOK'
    BY <1>1, <1>3
    DEF BodyFails, UpstreamAnswers, UpstreamFails, Respond, Hangup,
        RequestsTypeOK, PC, Answers
  <2>2. ASSUME NEW t \in Requests PROVE Good(t)'
    <3>1. \A k \in CallKinds : Has(k, t)' <=> Has(k, t)
      BY <1>3 DEF BodyFails, UpstreamAnswers, UpstreamFails, Respond, Hangup, Has
    <3>2. CASE t # r
      BY <1>1, <1>3, <3>1, <3>2, OthersKept
      DEF BodyFails, UpstreamAnswers, UpstreamFails, Respond, Hangup,
          RequestsTypeOK
    <3>3. CASE t = r
      BY <1>1, <1>3, <3>1, <3>3
      DEF BodyFails, UpstreamAnswers, UpstreamFails, Respond, Hangup,
          RequestsTypeOK, Good, GoodHandler, GoodTask, CallKinds, Passed
    <3> QED
      BY <3>2, <3>3
  <2> QED
    BY <2>1, <2>2
<1>5. CASE UpstreamReceives(r)
  <2>1. RequestsTypeOK'
    BY <1>1, <1>5 DEF UpstreamReceives, RequestsTypeOK, tasks
  <2>2. ASSUME NEW t \in Requests PROVE Good(t)'
    <3>1. \A k \in CallKinds : Has(k, t)' <=> Has(k, t)
      BY <1>5 DEF UpstreamReceives, Has
    <3>2. CASE t # r
      BY <1>1, <1>5, <3>1, <3>2, OthersKept DEF UpstreamReceives, tasks
    <3>3. CASE t = r
      BY <1>1, <1>5, <3>1, <3>3
      DEF UpstreamReceives, tasks, Good, GoodHandler, GoodTask, CallKinds
    <3> QED
      BY <3>2, <3>3
  <2> QED
    BY <2>1, <2>2
<1>4. CASE RecordEvent(r)
  <2>0. Attempt("event", r) /\ "event" \in CallKinds
    BY <1>4 DEF RecordEvent, CallKinds
  <2>1. /\ delivered' \subseteq CallKinds \X Requests
        /\ lost' \subseteq CallKinds \X Requests
        /\ \A k \in CallKinds, t \in Requests :
             Has(k, t)' <=> Has(k, t) \/ (k = "event" /\ t = r)
    BY <1>1, <2>0, AttemptAdds
  <2>2. RequestsTypeOK'
    BY <1>1, <1>4, <2>1 DEF RecordEvent, RequestsTypeOK, PC, Answers
  <2>3. ASSUME NEW t \in Requests PROVE Good(t)'
    <3>1. CASE t # r
      BY <1>1, <1>4, <2>1, <3>1, OthersKept DEF RecordEvent, RequestsTypeOK
    <3>2. CASE t = r
      BY <1>1, <1>4, <2>1, <3>2
      DEF RecordEvent, RequestsTypeOK, Good, GoodHandler, GoodTask, CallKinds, Passed
    <3> QED
      BY <3>1, <3>2
  <2> QED
    BY <2>2, <2>3
<1> QED
  BY <1>2, <1>3, <1>4, <1>5

(* The spawned task makes its calls in order.                              *)
LEMMA ReportStep ==
  ASSUME PipelineInv, NEW r \in Requests, Report(r)
  PROVE  RequestsTypeOK' /\ \A t \in Requests : Good(t)'
<1> USE DEF Advance
<1>1. RequestsTypeOK /\ \A t \in Requests : Good(t)
  BY DEF PipelineInv
<1>2. PICK kind \in {"incident", "count", "notice"}, to \in Reports :
        /\ report[r] = kind
        /\ report' = [report EXCEPT ![r] = to]
        /\ \/ kind = "incident" /\ to = "count"
           \/ kind = "count" /\ verdict[r] = "clean" /\ to = "done"
           \/ kind = "count" /\ verdict[r] # "clean" /\ to = "notice"
           \/ kind = "notice" /\ to = "done"
        /\ UNCHANGED <<config, request, pc, verdict, answer, upstream, restarts>>
        /\ delivered' \subseteq CallKinds \X Requests
        /\ lost' \subseteq CallKinds \X Requests
        /\ \A k \in CallKinds, t \in Requests :
             Has(k, t)' <=> Has(k, t) \/ (k = kind /\ t = r)
  <2>1. CASE RecordIncident(r)
    <3>1. "incident" \in CallKinds /\ Attempt("incident", r)
      BY <2>1 DEF RecordIncident, CallKinds
    <3> QED
      BY <1>1, <2>1, <3>1, AttemptAdds DEF RecordIncident, Reports
  <2>2. CASE RecordRequest(r)
    <3>1. "count" \in CallKinds /\ Attempt("count", r)
      BY <2>2 DEF RecordRequest, CallKinds
    <3> QED
      BY <1>1, <2>2, <3>1, AttemptAdds DEF RecordRequest, Reports
  <2>3. CASE Broadcast(r)
    <3>1. /\ delivered' \subseteq CallKinds \X Requests
          /\ lost' \subseteq CallKinds \X Requests
          /\ \A k \in CallKinds, t \in Requests :
               Has(k, t)' <=> Has(k, t) \/ (k = "notice" /\ t = r)
      BY <1>1, <2>3 DEF Broadcast, Has, RequestsTypeOK, CallKinds
    <3> QED
      BY <2>3, <3>1 DEF Broadcast, Reports
  <2> QED
    BY <2>1, <2>2, <2>3 DEF Report
<1>3. RequestsTypeOK'
  BY <1>1, <1>2 DEF RequestsTypeOK
<1>4. ASSUME NEW t \in Requests PROVE Good(t)'
  <2>1. CASE t # r
    BY <1>1, <1>2, <2>1, OthersKept DEF RequestsTypeOK
  <2>2. CASE t = r
    <3>1. /\ report'[r] = to /\ pc' = pc /\ verdict' = verdict
          /\ answer' = answer /\ upstream' = upstream /\ request' = request
      BY <1>1, <1>2 DEF RequestsTypeOK
    <3>2. /\ Has("event", r)' <=> Has("event", r)
          /\ Has("incident", r)' <=> Has("incident", r) \/ kind = "incident"
          /\ Has("count", r)' <=> Has("count", r) \/ kind = "count"
          /\ Has("notice", r)' <=> Has("notice", r) \/ kind = "notice"
      BY <1>2 DEF CallKinds
    <3>3. GoodHandler(r) /\ GoodTask(r)
      BY <1>1 DEF Good
    <3>4. GoodHandler(r)'
      BY <1>2, <3>1, <3>2, <3>3 DEF GoodHandler
    <3>5. GoodTask(r)'
      BY <1>2, <3>1, <3>2, <3>3 DEF GoodTask, Alarming
    <3> QED
      BY <2>2, <3>4, <3>5 DEF Good
  <2> QED
    BY <2>1, <2>2
<1> QED
  BY <1>3, <1>4

LEMMA RestartStep ==
  ASSUME PipelineInv, Restart
  PROVE  PipelineInv'
<1> USE DEF calls
<1>1. LimiterInv /\ RequestsTypeOK /\ \A t \in Requests : Good(t)
  BY DEF PipelineInv
<1>2. LimiterInv'
  BY <1>1, LimiterForgets DEF Restart
<1>3. RequestsTypeOK'
  BY <1>1, PipelineAssumption DEF Restart, RequestsTypeOK, PC, Reports
<1>4. ASSUME NEW t \in Requests PROVE Good(t)'
  <2>1. \A k \in CallKinds : Has(k, t)' <=> Has(k, t)
    BY DEF Restart, Has
  <2>2. /\ pc'[t] = pc[t] \/ pc'[t] = "cut"
        /\ report'[t] = report[t] \/ report'[t] = "cut"
        /\ pc[t] = "away" => report'[t] = report[t]
        /\ pc'[t] = "reading" => FALSE
        /\ UNCHANGED <<verdict, answer, request, upstream>>
    BY <1>1 DEF Restart, RequestsTypeOK, PC, Reports, Good, GoodHandler
  <2> QED
    BY <1>1, <2>1, <2>2 DEF Good, GoodHandler, GoodTask, CallKinds
<1> QED
  BY <1>2, <1>3, <1>4 DEF PipelineInv

LEMMA NextPipeline == PipelineInv /\ [Next]_vars => PipelineInv'
<1> SUFFICES ASSUME PipelineInv, [Next]_vars PROVE PipelineInv'
  OBVIOUS
<1>1. ASSUME NEW r \in Requests, Arrive(r) PROVE PipelineInv'
  BY <1>1, ForwardStep, LimiterRests DEF Arrive, PipelineInv
<1>2. ASSUME NEW r \in Requests, Handle(r) PROVE PipelineInv'
  <2>1. LimiterInv'
    BY <1>2, HandlerKeepsLimiter
  <2>2. RequestsTypeOK' /\ \A t \in Requests : Good(t)'
    BY <1>2, InspectStep, ForwardStep DEF Handle
  <2> QED
    BY <2>1, <2>2 DEF PipelineInv
<1>3. ASSUME NEW r \in Requests, Report(r) PROVE PipelineInv'
  <2>1. UNCHANGED limiterVars
    BY <1>3 DEF Report, RecordIncident, RecordRequest, Broadcast, Advance
  <2> QED
    BY <1>3, <2>1, ReportStep, LimiterRests DEF PipelineInv
<1>4. CASE Configure
  <2>1. RequestsTypeOK'
    BY <1>4 DEF Configure, PipelineInv, RequestsTypeOK, tasks, calls
  <2>2. \A t \in Requests : Good(t)'
    BY <1>4
    DEF Configure, PipelineInv, tasks, calls, Good, GoodHandler, GoodTask, Has
  <2> QED
    BY <1>4, <2>1, <2>2, LimiterRests DEF Configure, PipelineInv
<1>5. CASE Restart
  BY <1>5, RestartStep
<1>6. CASE Tick
  <2>1. RequestsTypeOK'
    BY <1>6 DEF Tick, PipelineInv, RequestsTypeOK, tasks, calls
  <2>2. \A t \in Requests : Good(t)'
    BY <1>6 DEF Tick, PipelineInv, tasks, calls, Good, GoodHandler, GoodTask, Has
  <2> QED
    BY <1>6, <2>1, <2>2, ElapseStep DEF Tick, PipelineInv
<1>7. CASE UNCHANGED vars
  <2>1. RequestsTypeOK'
    BY <1>7 DEF vars, PipelineInv, RequestsTypeOK, tasks, calls
  <2>2. \A t \in Requests : Good(t)'
    BY <1>7 DEF vars, PipelineInv, tasks, calls, Good, GoodHandler, GoodTask, Has
  <2> QED
    BY <1>7, <2>1, <2>2, LimiterRests DEF vars, PipelineInv
<1> QED
  BY <1>1, <1>2, <1>3, <1>4, <1>5, <1>6, <1>7 DEF Next

THEOREM PipelineInvariance == Spec => []PipelineInv
<1> QED
  BY InitPipeline, NextPipeline, PTL DEF Spec

(* Every variable of the proxy keeps its type, the limiter's included.     *)
THEOREM PipelineTypeCorrect == Spec => []TypeOK
<1>1. PipelineInv => TypeOK
  BY DEF PipelineInv, LimiterInv, RequestsTypeOK, TypeOK
<1> QED
  BY <1>1, PipelineInvariance, PTL

(* No attack of an untrusted client reaches the upstream server unless it  *)
(* was inspected under Monitor, whatever the configuration becomes later.  *)
THEOREM UpstreamTheorem == Spec => []UpstreamSeesOnlyPassed
<1>1. PipelineInv => UpstreamSeesOnlyPassed
  BY DEF PipelineInv, RequestsTypeOK, Good, GoodHandler, Passed,
         UpstreamSeesOnlyPassed
<1> QED
  BY <1>1, PipelineInvariance, PTL

(* The calls made are those the verdict asks for: none too many, and none  *)
(* missing once the task has ended, and the subscribers are told last.     *)
THEOREM RecordsTheorem == Spec => []RecordsFollowVerdicts
<1>1. PipelineInv => RecordsFollowVerdicts
  <2> SUFFICES ASSUME PipelineInv, NEW r \in Requests
               PROVE  /\ Made(r) \ {"event"} \subseteq Due(r)
                      /\ report[r] = "done" => Due(r) \subseteq Made(r)
                      /\ report[r] = "none" => Due(r) = {}
                      /\ "event" \in Made(r) => r \in upstream
                      /\ answer[r] = "upstream" => "event" \in Made(r)
                      /\ "notice" \in Made(r)
                           => {"incident", "count"} \subseteq Made(r)
    BY DEF RecordsFollowVerdicts
  <2>1. GoodHandler(r) /\ GoodTask(r)
    BY DEF PipelineInv, Good
  <2>2. \A kind \in CallKinds : kind \in Made(r) <=> Has(kind, r)
    BY DEF Made, Has
  <2>3. /\ verdict[r] \in Alarming => Due(r) = {"incident", "count", "notice"}
        /\ verdict[r] = "clean" => Due(r) = {"count"}
        /\ verdict[r] \notin Alarming \cup {"clean"} => Due(r) = {}
    BY DEF Due, Alarming
  <2>4. Made(r) \subseteq CallKinds
    BY DEF Made
  <2>5. Made(r) \ {"event"} \subseteq Due(r)
    BY <2>1, <2>2, <2>3, <2>4 DEF GoodTask, CallKinds, Alarming
  <2>6. report[r] = "done" => Due(r) \subseteq Made(r)
    BY <2>1, <2>2, <2>3 DEF GoodTask, CallKinds, Alarming
  <2>7. report[r] = "none" => Due(r) = {}
    BY <2>1, <2>3 DEF GoodTask, Alarming
  <2>8. /\ "event" \in Made(r) => r \in upstream
        /\ answer[r] = "upstream" => "event" \in Made(r)
    BY <2>1, <2>2 DEF GoodHandler, CallKinds
  <2>9. "notice" \in Made(r) => {"incident", "count"} \subseteq Made(r)
    BY <2>1, <2>2 DEF GoodTask, CallKinds
  <2> QED
    BY <2>5, <2>6, <2>7, <2>8, <2>9
<1> QED
  BY <1>1, PipelineInvariance, PTL

-----------------------------------------------------------------------------
(* The pipeline implements Firewall                                        *)

LEMMA InitPromise == Init => Promise!Init
  BY DEF Init, Promise!Init, Stage

(* A step that moves request r's handler moves r's stage and no other.     *)
LEMMA StageMoves ==
  ASSUME NEW r \in Requests, NEW to \in PC, pc \in [Requests -> PC],
         pc' = [pc EXCEPT ![r] = to]
  PROVE  [t \in Requests |-> Stage(t)]' =
           [[t \in Requests |-> Stage(t)] EXCEPT ![r] =
              CASE to = "away" -> "away"
                [] to = "reading" -> "held"
                [] to \in {"forwarding", "recording", "responding"} -> "passed"
                [] OTHER -> "closed"]
  BY DEF Stage

LEMMA NextPromise ==
  PipelineInv /\ [Next]_vars =>
    [Promise!Next]_<<[r \in Requests |-> Stage(r)], upstream>>
<1> DEFINE stage == [r \in Requests |-> Stage(r)]
<1> SUFFICES ASSUME PipelineInv, [Next]_vars
             PROVE  Promise!Next \/ UNCHANGED <<stage, upstream>>
  OBVIOUS
<1> USE DEF Reply, LetPass, Decide
<1>0. pc \in [Requests -> PC]
  BY DEF PipelineInv, RequestsTypeOK
<1>1. ASSUME NEW r \in Requests, Arrive(r) PROVE Promise!Next
  <2>1. pc' = [pc EXCEPT ![r] = "reading"] /\ stage[r] = "away"
    BY <1>1 DEF Arrive, Stage
  <2>2. stage' = [stage EXCEPT ![r] = "held"]
    BY <1>0, <2>1, StageMoves DEF PC
  <2> QED
    BY <1>1, <2>1, <2>2
    DEF Arrive, Promise!Next, Promise!Arrive, Promise!Move
<1>2. ASSUME NEW r \in Requests,
             \/ BodyFails(r) \/ InspectLimited(r) \/ InspectRefused(r)
             \/ InspectAttack(r) /\ config.posture # "Monitor"
      PROVE  Promise!Next
  <2>1. pc' = [pc EXCEPT ![r] = "answered"] /\ pc[r] = "reading"
        /\ upstream' = upstream
    BY <1>2 DEF BodyFails, InspectLimited, InspectRefused, InspectAttack
  <2>2. stage[r] = "held"
    BY <2>1 DEF Stage
  <2>3. stage' = [stage EXCEPT ![r] = "closed"]
    BY <1>0, <2>1, StageMoves DEF PC
  <2> QED
    BY <2>1, <2>2, <2>3 DEF Promise!Next, Promise!Refuse, Promise!Move
<1>3. ASSUME NEW r \in Requests,
             \/ InspectTrusted(r) \/ InspectClean(r)
             \/ InspectAttack(r) /\ config.posture = "Monitor"
      PROVE  Promise!Next
  <2>1. pc' = [pc EXCEPT ![r] = "forwarding"] /\ pc[r] = "reading"
        /\ upstream' = upstream
    BY <1>3 DEF InspectTrusted, InspectClean, InspectAttack
  <2>2. stage[r] = "held"
    BY <2>1 DEF Stage
  <2>3. stage' = [stage EXCEPT ![r] = "passed"]
    BY <1>0, <2>1, StageMoves DEF PC
  <2> QED
    BY <2>1, <2>2, <2>3 DEF Promise!Next, Promise!Pass, Promise!Move
<1>4. ASSUME NEW r \in Requests, UpstreamReceives(r) PROVE Promise!Next
  <2>1. stage[r] = "passed" /\ stage' = stage
    BY <1>4 DEF UpstreamReceives, tasks, Stage
  <2> QED
    BY <1>4, <2>1 DEF UpstreamReceives, Promise!Next, Promise!Reach
<1>5. ASSUME NEW r \in Requests, UpstreamAnswers(r) \/ RecordEvent(r)
      PROVE  UNCHANGED <<stage, upstream>>
  <2>1. PICK to \in {"recording", "responding"} :
          /\ pc' = [pc EXCEPT ![r] = to]
          /\ pc[r] \in {"forwarding", "recording"}
          /\ upstream' = upstream
    BY <1>5 DEF UpstreamAnswers, RecordEvent
  <2>2. stage[r] = "passed"
    BY <2>1 DEF Stage
  <2>3. stage' = [stage EXCEPT ![r] = "passed"]
    BY <1>0, <2>1, StageMoves DEF PC
  <2> QED
    BY <2>1, <2>2, <2>3
<1>10. ASSUME NEW r \in Requests, UpstreamFails(r) \/ Respond(r) \/ Hangup(r)
       PROVE  Promise!Next
  <2>1. PICK to \in {"answered", "cut"} :
          /\ pc' = [pc EXCEPT ![r] = to]
          /\ pc[r] \in {"reading", "forwarding", "recording", "responding"}
          /\ upstream' = upstream
    BY <1>10 DEF UpstreamFails, Respond, Hangup
  <2>2. stage[r] \in {"held", "passed"}
    BY <2>1 DEF Stage
  <2>3. stage' = [stage EXCEPT ![r] = "closed"]
    BY <1>0, <2>1, StageMoves DEF PC
  <2> QED
    BY <2>1, <2>2, <2>3
    DEF Promise!Next, Promise!Refuse, Promise!Close, Promise!Move
<1>6. CASE Restart
  <2>1. stage' = [r \in Requests |->
                    IF stage[r] = "away" THEN "away" ELSE "closed"]
    BY <1>0, <1>6 DEF Restart, Stage, PC
  <2> QED
    BY <1>6, <2>1 DEF Restart, Promise!Next, Promise!Stop
<1>7. ASSUME pc' = pc, upstream' = upstream
      PROVE  UNCHANGED <<stage, upstream>>
  BY <1>7 DEF Stage
<1>8. ASSUME NEW r \in Requests, Report(r)
      PROVE  pc' = pc /\ upstream' = upstream
  BY <1>8 DEF Report, RecordIncident, RecordRequest, Broadcast, Advance
<1>9. CASE Configure \/ Tick \/ UNCHANGED vars
  BY <1>7, <1>9 DEF Configure, Tick, vars, tasks
<1> QED
  BY <1>1, <1>2, <1>3, <1>4, <1>5, <1>6, <1>7, <1>8, <1>9, <1>10
  DEF Next, Handle, Inspect

(* The proxy implements the abstract firewall: each request is decided on  *)
(* once, and the upstream server sees it only while it is let pass.        *)
THEOREM Refinement == Spec => ImplementsFirewall
<1> QED
  BY InitPromise, NextPromise, PipelineInvariance, PTL
  DEF Spec, ImplementsFirewall, Promise!Spec
=============================================================================
