---------------------------- MODULE RateLimiter -----------------------------
(***************************************************************************)
(* The token bucket of rust/trakshya-rate-limiter.  `allow' runs under the *)
(* DashMap entry's lock, so one call is one step; buckets are created on   *)
(* first use and never evicted.                                            *)
(*                                                                         *)
(* Tokens are counted in sixtieths, so that refilling at requests_per_     *)
(* minute is exact: a second adds PerMinute sixtieths.                     *)
(***************************************************************************)
EXTENDS Integers

CONSTANTS
  Clients,   \* the keys: client addresses
  Burst,     \* burst_size
  PerMinute, \* requests_per_minute
  MaxTime    \* bound: the last second of the clock

ASSUME LimiterAssumption ==
  /\ Burst \in Nat
  /\ PerMinute \in Nat
  /\ MaxTime \in Nat

VARIABLES
  now,      \* the monotonic clock, in seconds
  buckets,  \* the DashMap: a bucket for each client seen so far
  since,    \* history: when an observer last began to count
  admitted  \* history: requests of each client allowed since then

limiterVars == <<now, buckets, since, admitted>>

Token == 60
Full == Token * Burst
NoBuckets == [k \in {} |-> 0]

LimiterInit ==
  /\ now = 0
  /\ buckets = NoBuckets
  /\ since = 0
  /\ admitted = [k \in Clients |-> 0]

Bucket(k) ==
  IF k \in DOMAIN buckets
  THEN buckets[k]
  ELSE [tokens |-> Full, last_refill |-> now]

RefilledUncapped(k) ==
  Bucket(k).tokens + (now - Bucket(k).last_refill) * PerMinute

(* The tokens of k's bucket once the time since its last visit is added.   *)
Refilled(k) ==
  LET tokens == Bucket(k).tokens + (now - Bucket(k).last_refill) * PerMinute
  IN  IF tokens < Full THEN tokens ELSE Full

Visit(k, tokens) ==
  buckets' = [j \in DOMAIN buckets \cup {k} |->
                IF j = k THEN [tokens |-> tokens, last_refill |-> now]
                         ELSE buckets[j]]

Allow(k) ==
  /\ Refilled(k) >= Token
  /\ Visit(k, Refilled(k) - Token)
  /\ admitted' = [admitted EXCEPT ![k] = @ + 1]
  /\ UNCHANGED <<now, since>>

DenyOverdraws(k) ==
  /\ Refilled(k) < Token
  /\ Visit(k, Refilled(k) - Token)
  /\ UNCHANGED <<now, since, admitted>>

Deny(k) ==
  /\ Refilled(k) < Token
  /\ Visit(k, Refilled(k))
  /\ UNCHANGED <<now, since, admitted>>

(* A second passes; the observer may start its count afresh.              *)
Elapse ==
  /\ now < MaxTime
  /\ now' = now + 1
  /\ \/ UNCHANGED <<since, admitted>>
     \/ since' = now' /\ admitted' = [k \in Clients |-> 0]
  /\ UNCHANGED buckets

LimiterNext == Elapse \/ \E k \in Clients : Allow(k) \/ Deny(k)

LimiterSpec == LimiterInit /\ [][LimiterNext]_limiterVars

-----------------------------------------------------------------------------
LimiterTypeOK ==
  /\ now \in 0 .. MaxTime
  /\ DOMAIN buckets \subseteq Clients
  /\ \A k \in DOMAIN buckets :
       /\ buckets[k].tokens \in 0 .. Full
       /\ buckets[k].last_refill \in 0 .. now
  /\ since \in 0 .. now
  /\ admitted \in [Clients -> Nat]

(* The promise of a token bucket: in no interval, whenever it begins, are  *)
(* more requests of a client let through than a full bucket and what the   *)
(* interval's length refills.                                              *)
RateBound ==
  \A k \in Clients :
    Token * admitted[k] <= Full + (now - since) * PerMinute
=============================================================================
