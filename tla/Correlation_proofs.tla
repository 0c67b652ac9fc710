------------------------- MODULE Correlation_proofs -------------------------
(***************************************************************************)
(* That the loop of Correlation overlooks no rule for longer than a period *)
(* of its ticker, for any events, thresholds and windows.  The bound is    *)
(* inductive with what has been done at each point of a pass: a rule that  *)
(* has been looked at starts from zero, no time passes between the checks  *)
(* but in a callback, and between passes a tick is always near.            *)
(* And that what it raises is true of what was sent, by the rule, the      *)
(* address and the count the incident names, as far as senders stamp it    *)
(* and name its fields as the loop expects.                                *)
(***************************************************************************)
EXTENDS Correlation, DataTheorems, FiniteSetTheorems, TLAPS

(* The rules of this pass that have been looked at.                        *)
LookedAt(i) == i < check \/ (i = check /\ incident # NoIncident)

Attentive ==
  /\ \A r \in Rules :
       /\ quiet[r] <= Period
       /\ check = 0 /\ ~due => quiet[r] <= now % Period
  /\ \A i \in 1 .. 8 : LookedAt(i) => quiet[Checks[i]] = 0

Orderly ==
  /\ IsFiniteSet(rows \cup pruned)
  /\ incident # NoIncident => check # 0

IInv == TypeOK /\ Orderly /\ Attentive

LEMMA TableOfChecks ==
  /\ Len(Checks) = 8
  /\ DOMAIN Checks = 1 .. 8
  /\ \A i \in 1 .. 8 : Checks[i] \in Rules
  /\ \A r \in Rules : \E i \in 1 .. 8 : Checks[i] = r
<1>1. Len(Checks) = 8 /\ DOMAIN Checks = 1 .. 8
  BY DEF Checks
<1> QED
  BY <1>1 DEF Rules

LEMMA InitIInv == Init => IInv
<1> SUFFICES ASSUME Init PROVE IInv
  OBVIOUS
<1>1. TypeOK
  <2>1. now \in 0 .. MaxTime /\ check \in 0 .. Len(Checks)
    BY TableOfChecks, CorrelationAssumption DEF Init
  <2>2. quiet \in [Rules -> Nat]
    BY DEF Init, Zero
  <2>3. \A x \in rows \cup pruned :
          x.message \in Messages /\ x.at \in 0 .. MaxTime + Ahead /\ x.copy \in 0 .. MaxRows
    BY DEF Init
  <2> QED
    BY <2>1, <2>2, <2>3 DEF Init, TypeOK
<1>2. Orderly
  BY FS_EmptySet DEF Init, Orderly
<1>3. Attentive
  BY CorrelationAssumption DEF Init, Attentive, LookedAt, Zero
<1> QED
  BY <1>1, <1>2, <1>3 DEF IInv

(* The table changes, and the loop does not.                               *)
LEMMA KeepsAttention ==
  ASSUME Attentive, UNCHANGED <<now, due, check, incident, quiet>>
  PROVE  Attentive'
BY DEF Attentive, LookedAt

LEMMA IngestStep ==
  ASSUME IInv, NEW m \in Messages, NEW at \in 0 .. MaxTime + Ahead, Ingest(m, at)
  PROVE  IInv'
<1> DEFINE all == rows \cup pruned
           alike == {x \in all : x.message = m /\ x.at = at}
           new == [message |-> m, at |-> at, copy |-> Cardinality(alike)]
<1>1. IsFiniteSet(all) /\ TypeOK /\ Cardinality(all) < MaxRows
  BY DEF IInv, Orderly, Ingest
<1>2. rows' = rows \cup {new} /\ pruned' = pruned
  BY DEF Ingest
<1>3. Cardinality(alike) \in 0 .. MaxRows
  <2>1. Cardinality(alike) <= Cardinality(all)
    BY <1>1, FS_Subset
  <2>2. Cardinality(all) \in Nat /\ Cardinality(alike) \in Nat
    BY <1>1, FS_Subset, FS_CardinalityType
  <2> QED
    BY <1>1, <2>1, <2>2, CorrelationAssumption
<1>4. TypeOK'
  BY <1>1, <1>2, <1>3 DEF TypeOK, Ingest
<1>5. IsFiniteSet(all')
  <2>1. all' = all \cup {new}
    BY <1>2
  <2> HIDE DEF all, new
  <2> QED
    BY <1>1, <2>1, FS_AddElement
<1>6. Orderly' /\ Attentive'
  BY <1>5, KeepsAttention DEF Ingest, IInv, Orderly
<1> QED
  BY <1>4, <1>6 DEF IInv

LEMMA PruneStep ==
  ASSUME IInv, PruneOldEvents
  PROVE  IInv'
<1>1. rows' \cup pruned' = rows \cup pruned
  BY DEF PruneOldEvents
<1>2. TypeOK'
  BY <1>1 DEF IInv, TypeOK, PruneOldEvents
<1>3. Orderly' /\ Attentive'
  BY <1>1, KeepsAttention DEF IInv, Orderly, PruneOldEvents
<1> QED
  BY <1>2, <1>3 DEF IInv

(* Counting on from one tick to the next.                                  *)
LEMMA NextTick ==
  ASSUME NEW t \in Nat, (t + 1) % Period # 0
  PROVE  (t % Period) + 1 <= (t + 1) % Period
<1> DEFINE q == t \div Period
           a == t % Period
<1>1. q \in Int /\ a \in 0 .. Period - 1 /\ t = Period * q + a
  BY CorrelationAssumption
<1> HIDE DEF q, a
<1>2. CASE a + 1 < Period
  <2>1. (Period * q + (a + 1)) % Period = a + 1
    BY <1>1, <1>2, CorrelationAssumption
  <2>2. t + 1 = Period * q + (a + 1)
    BY <1>1, CorrelationAssumption
  <2>3. (t + 1) % Period = a + 1
    BY <2>1, <2>2
  <2> QED
    BY <1>1, <2>3, CorrelationAssumption DEF a
<1>3. CASE a + 1 = Period
  <2>1. (Period * (q + 1) + 0) % Period = 0
    BY <1>1, CorrelationAssumption
  <2>2. t + 1 = Period * (q + 1) + 0
    BY <1>1, <1>3, CorrelationAssumption
  <2> QED
    BY <2>1, <2>2
<1> QED
  BY <1>1, <1>2, <1>3, CorrelationAssumption

(* Time passes between two passes, where the clock bounds the count, or in *)
(* a callback, where every count starts again.                             *)
LEMMA AdvanceStep ==
  ASSUME IInv, Advance
  PROVE  IInv'
<1>1. /\ now \in Nat /\ Period \in Nat \ {0} /\ now % Period \in 0 .. Period - 1
      /\ (now + 1) % Period \in Nat
  BY CorrelationAssumption DEF IInv, TypeOK
<1>2. /\ now' = now + 1 /\ now < MaxTime
      /\ due' = (due \/ (now + 1) % Period = 0)
      /\ UNCHANGED <<rows, pruned, check, incident>>
      /\ (check = 0 /\ ~due) \/ incident # NoIncident
  BY DEF Advance
<1>3. ASSUME NEW r \in Rules
      PROVE  /\ quiet[r] \in Nat
             /\ quiet'[r] \in {0, quiet[r] + 1}
             /\ incident # NoIncident => quiet'[r] = 0
  BY DEF Advance, IInv, TypeOK
<1>4. TypeOK'
  <2>1. quiet' \in [Rules -> Nat]
    BY <1>3 DEF Advance
  <2>2. now' \in 0 .. MaxTime /\ now <= now'
    BY <1>1, <1>2, CorrelationAssumption
  <2>3. due' \in BOOLEAN
    BY <1>2 DEF IInv, TypeOK
  <2>4. incident' # NoIncident => incident'.rule \in Rules /\ incident'.at \in 0 .. now'
    BY <1>1, <1>2, <2>2 DEF IInv, TypeOK
  <2> QED
    BY <1>2, <2>1, <2>2, <2>3, <2>4 DEF IInv, TypeOK
<1>5. Orderly'
  BY <1>2 DEF IInv, Orderly
<1>6. Attentive'
  <2>1. CASE incident # NoIncident
    BY <1>1, <1>2, <1>3, <2>1, TableOfChecks DEF Attentive
  <2>2. CASE incident = NoIncident
    <3>1. check = 0 /\ ~due /\ check' = 0
      BY <1>2, <2>2
    <3>2. ASSUME NEW r \in Rules
          PROVE  quiet'[r] <= Period /\ (~due' => quiet'[r] <= (now + 1) % Period)
      <4>1. quiet[r] <= now % Period
        BY <3>1 DEF IInv, Attentive
      <4>2. ~due' => (now % Period) + 1 <= (now + 1) % Period
        BY <1>1, <1>2, NextTick
      <4> QED
        BY <1>1, <1>3, <4>1, <4>2
    <3> QED
      BY <1>2, <2>2, <3>1, <3>2 DEF Attentive, LookedAt
  <2> QED
    BY <2>1, <2>2
<1> QED
  BY <1>4, <1>5, <1>6 DEF IInv

LEMMA WakeStep ==
  ASSUME IInv, Wake
  PROVE  IInv'
<1>1. TypeOK'
  <2>1. check' \in 0 .. Len(Checks)
    BY TableOfChecks DEF Wake
  <2> QED
    BY <2>1 DEF IInv, TypeOK, Wake
<1>2. Orderly'
  BY DEF IInv, Orderly, Wake
<1>3. Attentive'
  BY TableOfChecks DEF IInv, Orderly, Attentive, LookedAt, Wake
<1> QED
  BY <1>1, <1>2, <1>3 DEF IInv

(* Going on to the following rule, when the present one has been looked at *)
(* in this step or before it.                                              *)
LEMMA GoesOn ==
  ASSUME IInv, check # 0, check' = Following, incident' = NoIncident,
         UNCHANGED <<now, due>>,
         quiet' \in [Rules -> Nat], quiet'[Checks[check]] = 0,
         \A r \in Rules : quiet'[r] \in {0, quiet[r]}
  PROVE  Attentive' /\ check' \in 0 .. Len(Checks)
<1>1. check \in 1 .. 8 /\ now \in Nat /\ now % Period \in Nat
  BY TableOfChecks, CorrelationAssumption DEF IInv, TypeOK
<1>2. check' = IF check = 8 THEN 0 ELSE check + 1
  BY TableOfChecks DEF Following
<1>3. ASSUME NEW i \in 1 .. 8, i <= check PROVE quiet'[Checks[i]] = 0
  <2>1. Checks[i] \in Rules
    BY TableOfChecks
  <2>2. CASE i < check
    BY <2>1, <2>2 DEF IInv, Attentive, LookedAt
  <2>3. CASE i = check
    BY <2>3
  <2> QED
    BY <1>1, <1>3, <2>2, <2>3
<1>4. ASSUME NEW r \in Rules
      PROVE  quiet'[r] <= Period /\ (check' = 0 => quiet'[r] = 0)
  <2>1. quiet[r] <= Period /\ quiet'[r] \in {0, quiet[r]} /\ Period \in Nat
    BY CorrelationAssumption DEF IInv, Attentive
  <2>2. PICK i \in 1 .. 8 : Checks[i] = r
    BY TableOfChecks
  <2>3. check' = 0 => quiet'[r] = 0
    BY <1>1, <1>2, <1>3, <2>2
  <2> QED
    BY <2>1, <2>3
<1>5. ASSUME NEW i \in 1 .. 8, LookedAt(i)' PROVE quiet'[Checks[i]] = 0
  BY <1>1, <1>2, <1>3, <1>5 DEF LookedAt
<1> QED
  BY <1>1, <1>2, <1>4, <1>5, TableOfChecks DEF Attentive

LEMMA QueryStep ==
  ASSUME IInv, NEW r \in Rules, QueryFails(r) \/ NotFound(r)
  PROVE  IInv'
<1>1. /\ check # 0 /\ Checks[check] = r /\ incident' = NoIncident
      /\ check' = Following
      /\ quiet' = [quiet EXCEPT ![r] = 0]
      /\ UNCHANGED <<now, rows, pruned, due, incident>>
  BY DEF QueryFails, NotFound, AtCheck, AfterError
<1>2. /\ quiet' \in [Rules -> Nat] /\ quiet'[r] = 0
      /\ \A q \in Rules : quiet'[q] \in {0, quiet[q]}
  BY <1>1 DEF IInv, TypeOK
<1>3. Attentive' /\ check' \in 0 .. Len(Checks)
  BY <1>1, <1>2, GoesOn
<1> QED
  BY <1>1, <1>2, <1>3 DEF IInv, TypeOK, Orderly

LEMMA FoundStep ==
  ASSUME IInv, NEW r \in Rules, Found(r)
  PROVE  IInv'
<1>1. PICK g \in Largest(r) :
        incident' = [rule |-> r, ip |-> g.ip, host |-> g.host, at |-> now]
  BY DEF Found
<1>2. /\ check # 0 /\ Checks[check] = r /\ incident = NoIncident
      /\ quiet' = [quiet EXCEPT ![r] = 0]
      /\ UNCHANGED <<now, rows, pruned, due, check>>
  BY DEF Found, AtCheck
<1>3. check \in 1 .. 8 /\ now \in Nat
  BY <1>2, TableOfChecks, CorrelationAssumption DEF IInv, TypeOK
<1>4. TypeOK'
  BY <1>1, <1>2, <1>3 DEF IInv, TypeOK
<1>5. Orderly'
  BY <1>2 DEF IInv, Orderly
<1>6. \A q \in Rules : quiet'[q] = IF q = r THEN 0 ELSE quiet[q]
  BY <1>2 DEF IInv, TypeOK
<1>7. ASSUME NEW i \in 1 .. 8, LookedAt(i)' PROVE quiet'[Checks[i]] = 0
  <2>1. Checks[i] \in Rules
    BY TableOfChecks
  <2>2. CASE i < check
    BY <1>6, <2>1, <2>2 DEF IInv, Attentive, LookedAt
  <2>3. CASE i = check
    BY <1>2, <1>6, <2>1, <2>3
  <2> QED
    BY <1>2, <1>3, <1>7, <2>2, <2>3 DEF LookedAt
<1>8. Attentive'
  BY <1>2, <1>6, <1>7, CorrelationAssumption DEF IInv, Attentive
<1> QED
  BY <1>4, <1>5, <1>8 DEF IInv

LEMMA ToldStep ==
  ASSUME IInv, Told
  PROVE  IInv'
<1>1. /\ incident # NoIncident /\ incident' = NoIncident /\ check # 0
      /\ check' = Following
      /\ UNCHANGED <<now, rows, pruned, due, quiet>>
  BY DEF Told, IInv, Orderly
<1>2. check \in DOMAIN Checks /\ Checks[check] \in Rules
  BY <1>1, TableOfChecks DEF IInv, TypeOK
<1>3. quiet[Checks[check]] = 0
  BY <1>1, <1>2, TableOfChecks DEF IInv, Attentive, LookedAt
<1>4. Attentive' /\ check' \in 0 .. Len(Checks)
  BY <1>1, <1>3, GoesOn DEF IInv, TypeOK
<1> QED
  BY <1>1, <1>4 DEF IInv, TypeOK, Orderly

LEMMA NextIInv == IInv /\ [Next]_vars => IInv'
<1> SUFFICES ASSUME IInv, [Next]_vars PROVE IInv'
  OBVIOUS
<1>1. ASSUME NEW m \in Messages, NEW at \in 0 .. MaxTime + Ahead, Ingest(m, at)
      PROVE  IInv'
  BY <1>1, IngestStep
<1>2. ASSUME NEW r \in Rules, QueryFails(r) \/ NotFound(r) \/ Found(r) PROVE IInv'
  BY <1>2, QueryStep, FoundStep
<1>3. CASE UNCHANGED vars
  BY <1>3 DEF vars, IInv, TypeOK, Orderly, Attentive, LookedAt
<1> QED
  BY <1>1, <1>2, <1>3, PruneStep, AdvanceStep, WakeStep, ToldStep DEF Next

(* The invariant, from which the properties below follow.                  *)
THEOREM Invariance == Spec => []IInv
<1> QED
  BY InitIInv, NextIInv, PTL DEF Spec

(* Every variable keeps to its type.                                       *)
THEOREM TypeCorrect == Spec => []TypeOK
<1>1. IInv => TypeOK
  BY DEF IInv
<1> QED
  BY <1>1, Invariance, PTL

(* Whatever the period, the windows and the events: no pattern stays       *)
(* unreported for longer than one period.                                  *)
THEOREM NoticedWithinAPeriod == Spec => []NoticedInTime
<1>1. IInv => NoticedInTime
  BY DEF IInv, Attentive, NoticedInTime
<1> QED
  BY <1>1, Invariance, PTL

-----------------------------------------------------------------------------
(* That an alarm errs only by what senders write.  What the query of a     *)
(* rule took from one address, or for a wave, was written as Go writes it: *)
(* the alarm is true of those rows, and stays true of all that come later. *)

(* An alarm is true of the events that are not stamped too long before it. *)
TrueByStamps(i, events) == IncidentIsTrue(i, Stamped(i, events))

(* A sender that names fields in another way has had a hand in the alarm.  *)
ForeignHand(i, events) ==
  /\ i.ip = "" /\ i.rule \notin Waves
  /\ \E x \in Stamped(i, events) : x.message.names # "Go"

Explained ==
  incident # NoIncident =>
    \/ TrueByStamps(incident, rows \cup pruned)
    \/ ForeignHand(incident, rows \cup pruned)

LEMMA CardinalityMonotone ==
  ASSUME NEW B, IsFiniteSet(B), NEW A \in SUBSET B
  PROVE  Cardinality(A) \in Nat /\ Cardinality(B) \in Nat
           /\ Cardinality(A) <= Cardinality(B)
BY FS_Subset, FS_CardinalityType

(* The values of a column of a finite table.                               *)
LEMMA ColumnIsFinite ==
  ASSUME NEW A, IsFiniteSet(A), NEW f
  PROVE  IsFiniteSet({f[x] : x \in A})
<1> DEFINE column == {f[x] : x \in A}
           g == [x \in A |-> f[x]]
<1>1. g \in Surjection(A, column)
  BY DEF Surjection
<1>2. IsFiniteSet(column)
  <2> HIDE DEF g, column
  <2> QED
    BY <1>1, FS_Surjection
<1> QED
  BY <1>2

(* The figures that are not numbers of rows.                               *)
Paths(E) == {x.message.path : x \in E}
Countries(E) == {x.message.country : x \in E} \ {""}
Sent(E) == SumFunction([x \in E |-> x.message.sent])

LEMMA PathsMonotone ==
  ASSUME NEW B, IsFiniteSet(B), NEW A \in SUBSET B
  PROVE  IsFiniteSet(Paths(B)) /\ Paths(A) \in SUBSET Paths(B)
<1> DEFINE f == [x \in B |-> x.message.path]
<1>1. IsFiniteSet({f[x] : x \in B})
  <2> HIDE DEF f
  <2> QED
    BY ColumnIsFinite
<1>2. {f[x] : x \in B} = Paths(B)
  BY DEF Paths
<1> QED
  BY <1>1, <1>2 DEF Paths

LEMMA CountriesMonotone ==
  ASSUME NEW B, IsFiniteSet(B), NEW A \in SUBSET B
  PROVE  IsFiniteSet(Countries(B)) /\ Countries(A) \in SUBSET Countries(B)
<1> DEFINE f == [x \in B |-> x.message.country]
           column == {f[x] : x \in B}
<1>1. IsFiniteSet(column)
  <2> HIDE DEF f
  <2> QED
    BY ColumnIsFinite
<1>2. Countries(B) \in SUBSET column /\ Countries(A) \in SUBSET Countries(B)
  BY DEF Countries
<1> HIDE DEF column
<1> QED
  BY <1>1, <1>2, FS_Subset

(* More rows make no true alarm false.                                     *)
LEMMA MoreEvents ==
  ASSUME NEW B, IsFiniteSet(B), NEW A \in SUBSET B,
         NEW i, i.rule \in Rules, TrueByStamps(i, A)
  PROVE  TrueByStamps(i, B)
<1> DEFINE Seen(E) == Stamped(i, E)
           Its(E) == {x \in Seen(E) : x.message.ip = i.ip}
           Blocked(E) == {x \in Its(E) : x.message.blocked}
           Xss(E) == {x \in Seen(E) : x.message.attack = "xss"}
           Sqli(E) == {x \in Seen(E) : x.message.attack = "sql_injection"}
           Answered(E) == {x \in Its(E) : x.message.ok /\ ~x.message.blocked}
           Hosts(E) == {x \in Its(E) : x.message.host = i.host}
           enough == AtLeast[i.rule]
<1>1. /\ Its(A) \in SUBSET Its(B) /\ Blocked(A) \in SUBSET Blocked(B)
      /\ Xss(A) \in SUBSET Xss(B) /\ Sqli(A) \in SUBSET Sqli(B)
      /\ Answered(A) \in SUBSET Answered(B) /\ Hosts(A) \in SUBSET Hosts(B)
  BY DEF Stamped
<1>2. /\ Its(B) \in SUBSET B /\ Blocked(B) \in SUBSET B /\ Xss(B) \in SUBSET B
      /\ Sqli(B) \in SUBSET B /\ Hosts(B) \in SUBSET B
  BY DEF Stamped
<1>3. enough \in Nat
  BY CorrelationAssumption
<1>4. ASSUME NEW D, IsFiniteSet(D), NEW C \in SUBSET D
      PROVE  Cardinality(C) >= enough => Cardinality(D) >= enough
  <2> HIDE DEF enough
  <2> QED
    BY <1>3, <1>4, CardinalityMonotone
<1>5. \A D : TrueByStamps(i, D) <=>
        /\ i.rule = "brute_force" => Cardinality(Blocked(D)) >= enough
        /\ i.rule = "port_scan" => Cardinality(Paths(Its(D))) >= enough
        /\ i.rule = "xss_wave" => Cardinality(Xss(D)) >= enough
        /\ i.rule = "sqli_wave" => Cardinality(Sqli(D)) >= enough
        /\ i.rule = "rapid_scan" => Cardinality(Its(D)) >= enough
        /\ i.rule = "data_exfil" =>
             \E answered \in SUBSET Answered(D) : Sent(answered) >= enough
        /\ i.rule = "geo_anomaly" => Cardinality(Countries(Its(D))) >= enough
        /\ i.rule = "beaconing" => Cardinality(Hosts(D)) >= enough
  BY DEF TrueByStamps, IncidentIsTrue, Paths, Countries, Sent
<1> HIDE DEF Its, Blocked, Xss, Sqli, Answered, Hosts
<1>6. /\ IsFiniteSet(Its(B)) /\ IsFiniteSet(Blocked(B)) /\ IsFiniteSet(Xss(B))
      /\ IsFiniteSet(Sqli(B)) /\ IsFiniteSet(Hosts(B))
  BY <1>2, FS_Subset
<1> HIDE DEF enough
<1>7. /\ Cardinality(Its(A)) >= enough => Cardinality(Its(B)) >= enough
      /\ Cardinality(Blocked(A)) >= enough => Cardinality(Blocked(B)) >= enough
      /\ Cardinality(Xss(A)) >= enough => Cardinality(Xss(B)) >= enough
      /\ Cardinality(Sqli(A)) >= enough => Cardinality(Sqli(B)) >= enough
      /\ Cardinality(Hosts(A)) >= enough => Cardinality(Hosts(B)) >= enough
  BY <1>1, <1>4, <1>6
<1>8. Cardinality(Paths(Its(A))) >= enough => Cardinality(Paths(Its(B))) >= enough
  BY <1>1, <1>4, <1>6, PathsMonotone
<1>9. Cardinality(Countries(Its(A))) >= enough =>
        Cardinality(Countries(Its(B))) >= enough
  BY <1>1, <1>4, <1>6, CountriesMonotone
<1>10. (\E answered \in SUBSET Answered(A) : Sent(answered) >= enough) =>
         \E answered \in SUBSET Answered(B) : Sent(answered) >= enough
  BY <1>1
<1> QED
  BY <1>5, <1>7, <1>8, <1>9, <1>10

(* What is measured, of events that Go's names decode.                     *)
LEMMA MeasureOf ==
  ASSUME NEW E, \A x \in E : Decode(x.message) = x.message, NEW r \in Rules
  PROVE  /\ r = "port_scan" => Measure(r, E) = Cardinality(Paths(E))
         /\ r = "geo_anomaly" =>
              Measure(r, E) = Cardinality({x.message.country : x \in E})
         /\ r = "data_exfil" => Measure(r, E) = Sent(E)
         /\ r \notin {"port_scan", "geo_anomaly", "data_exfil"} =>
              Measure(r, E) = Cardinality(E)
<1>1. /\ {Decode(x.message).path : x \in E} = Paths(E)
      /\ {Decode(x.message).country : x \in E} = {x.message.country : x \in E}
      /\ [x \in E |-> Decode(x.message).sent] = [x \in E |-> x.message.sent]
  BY DEF Paths
<1>2. r = "port_scan" => Measure(r, E) = Cardinality({Decode(x.message).path : x \in E})
  BY DEF Measure
<1>3. r = "geo_anomaly" =>
        Measure(r, E) = Cardinality({Decode(x.message).country : x \in E})
  BY DEF Measure
<1>4. r = "data_exfil" => Measure(r, E) = BytesSent(E)
  BY DEF Measure
<1>5. r \notin {"port_scan", "geo_anomaly", "data_exfil"} =>
        Measure(r, E) = Cardinality(E)
  BY DEF Measure
<1>6. BytesSent(E) = Sent(E)
  BY <1>1 DEF BytesSent, Sent
<1> QED
  BY <1>1, <1>2, <1>3, <1>4, <1>5, <1>6

(* An alarm is true of the events its query saw, if Go's names decode all  *)
(* those it counted.                                                       *)
LEMMA TrueOfItsGroup ==
  ASSUME NEW r \in Rules, NEW g \in Matching(r),
         NEW A \in SUBSET rows, InGroup(r, g) \in SUBSET A,
         \A x \in A : Decode(x.message) = x.message,
         NEW i, i.rule = r, i.ip = g.ip, i.host = g.host, i.at = now
  PROVE  TrueByStamps(i, A)
<1> DEFINE E == InGroup(r, g)
           Seen == Stamped(i, A)
           Its == {x \in Seen : x.message.ip = i.ip}
<1>1. E = {x \in A : /\ x.at + Within[r] >= now
                     /\ Where(r, x.message) /\ Group(r, x.message) = g}
  BY DEF InGroup, Window, Recent
<1>2. Measure(r, E) >= AtLeast[r]
  BY DEF Matching
<1>3. E = {x \in Seen : Where(r, x.message) /\ Group(r, x.message) = g}
  BY <1>1 DEF Stamped
<1>4. \A x \in E : Decode(x.message) = x.message
  BY <1>1
<1>5. PICK y \in Window(r) : g = Group(r, Decode(y.message))
  BY DEF Matching, Groups
<1>6. ASSUME NEW x \in Seen
      PROVE  Group(r, x.message) = g <=>
               /\ r \notin Waves => x.message.ip = i.ip
               /\ r = "beaconing" => x.message.host = i.host
  <2> DEFINE e == Decode(y.message)
             m == x.message
  <2>1. g = Group(r, e)
    BY <1>5
  <2> HIDE DEF e, m
  <2>2. /\ i.ip = IF r \in Waves THEN "" ELSE e.ip
        /\ i.host = IF r = "beaconing" THEN e.host ELSE ""
    BY <2>1 DEF Group
  <2>3. Group(r, m) = Group(r, e) <=>
          /\ Group(r, m).ip = Group(r, e).ip
          /\ Group(r, m).host = Group(r, e).host
    BY DEF Group
  <2>4. Group(r, m) = g <=>
          /\ r \notin Waves => m.ip = i.ip
          /\ r = "beaconing" => m.host = i.host
    BY <2>1, <2>2, <2>3 DEF Group
  <2> QED
    BY <2>4 DEF m
<1> HIDE DEF E
<1>7. CASE r \in {"brute_force", "rapid_scan", "beaconing"}
  <2>1. /\ r = "brute_force" => E = {x \in Its : x.message.blocked}
        /\ r = "rapid_scan" => E = Its
        /\ r = "beaconing" => E = {x \in Its : x.message.host = i.host}
    BY <1>3, <1>6, <1>7 DEF Where, Waves
  <2>2. Cardinality(E) >= AtLeast[r]
    BY <1>2, <1>4, <1>7, MeasureOf
  <2> QED
    BY <1>7, <2>1, <2>2 DEF TrueByStamps, IncidentIsTrue
<1>8. CASE r \in Waves
  <2>1. /\ r = "xss_wave" => E = {x \in Seen : x.message.attack = "xss"}
        /\ r = "sqli_wave" => E = {x \in Seen : x.message.attack = "sql_injection"}
    BY <1>3, <1>6, <1>8 DEF Where, Waves
  <2>2. Cardinality(E) >= AtLeast[r]
    BY <1>2, <1>4, <1>8, MeasureOf DEF Waves
  <2> QED
    BY <1>8, <2>1, <2>2 DEF TrueByStamps, IncidentIsTrue, Waves
<1>9. CASE r = "port_scan"
  <2>1. E = Its
    BY <1>3, <1>6, <1>9 DEF Where, Waves
  <2>2. Cardinality(Paths(Its)) >= AtLeast[r]
    BY <1>2, <1>4, <1>9, <2>1, MeasureOf
  <2> QED
    BY <1>9, <2>2 DEF TrueByStamps, IncidentIsTrue, Paths
<1>10. CASE r = "geo_anomaly"
  <2>1. E = {x \in Its : x.message.country # ""}
    BY <1>3, <1>6, <1>10 DEF Where, Waves
  <2>2. {x.message.country : x \in E} = Countries(Its)
    BY <2>1 DEF Countries
  <2>3. Cardinality(Countries(Its)) >= AtLeast[r]
    BY <1>2, <1>4, <1>10, <2>2, MeasureOf
  <2> QED
    BY <1>10, <2>3 DEF TrueByStamps, IncidentIsTrue, Countries
<1>11. CASE r = "data_exfil"
  <2>1. E = {x \in Its : x.message.ok /\ ~x.message.blocked}
    BY <1>3, <1>6, <1>11 DEF Where, Waves
  <2>2. Sent(E) >= AtLeast[r]
    BY <1>2, <1>4, <1>11, MeasureOf
  <2> QED
    BY <1>11, <2>1, <2>2 DEF TrueByStamps, IncidentIsTrue, Sent
<1> QED
  BY <1>7, <1>8, <1>9, <1>10, <1>11, TableOfChecks DEF Rules, Checks, Waves

(* An event that another sender wrote decodes to no address and to no      *)
(* attack: it is in no group that has an address, and in no wave.          *)
LEMMA FoundIsExplained ==
  ASSUME IInv, NEW r \in Rules, NEW g \in Matching(r),
         NEW i, i.rule = r, i.ip = g.ip, i.host = g.host, i.at = now
  PROVE  TrueByStamps(i, rows) \/ ForeignHand(i, rows)
<1> DEFINE A == {x \in rows : x.message.names = "Go"}
<1>1. IsFiniteSet(rows)
  BY FS_Subset DEF IInv, Orderly
<1>2. \A x \in A : Decode(x.message) = x.message
  BY DEF Decode
<1>3. ASSUME NEW x \in InGroup(r, g), x \notin A
      PROVE  ForeignHand(i, rows)
  <2>1. /\ x \in rows /\ x.message.names # "Go"
        /\ x.at + Within[r] >= now
        /\ Where(r, Decode(x.message)) /\ Group(r, Decode(x.message)) = g
    BY <1>3 DEF InGroup, Window, Recent
  <2>2. x.message \in Messages /\ Fields \subseteq DOMAIN x.message
    BY <2>1, CorrelationAssumption DEF IInv, TypeOK
  <2>3. Decode(x.message).ip = "" /\ Decode(x.message).attack = ""
    BY <2>1, <2>2 DEF Decode, Fields
  <2>4. r \notin Waves /\ i.ip = ""
    BY <2>1, <2>3 DEF Where, Group, Waves
  <2>5. x \in Stamped(i, rows)
    BY <2>1 DEF Stamped
  <2> QED
    BY <2>1, <2>4, <2>5 DEF ForeignHand
<1>4. CASE InGroup(r, g) \in SUBSET A
  <2>1. A \in SUBSET rows
    OBVIOUS
  <2> HIDE DEF A
  <2>2. TrueByStamps(i, A)
    BY <1>2, <1>4, <2>1, TrueOfItsGroup
  <2> QED
    BY <1>1, <2>1, <2>2, MoreEvents
<1> QED
  BY <1>3, <1>4

LEMMA NextExplained ==
  ASSUME IInv, IInv', Explained, [Next]_vars
  PROVE  Explained'
<1> DEFINE all == rows \cup pruned
<1>1. IsFiniteSet(all') /\ (incident # NoIncident => incident.rule \in Rules)
  BY DEF IInv, TypeOK, Orderly
<1>2. all \in SUBSET all'
  BY DEF Next, vars, Ingest, PruneOldEvents, Advance, Wake, QueryFails, NotFound,
         Found, Told
<1>3. \/ incident' = NoIncident
      \/ incident # NoIncident /\ incident' = incident
      \/ \E r \in Rules : Found(r)
  BY DEF Next, vars, Ingest, PruneOldEvents, Advance, Wake, QueryFails, NotFound, Told,
         AtCheck
<1>4. ASSUME NEW i, i.rule \in Rules, NEW A \in SUBSET all',
             TrueByStamps(i, A) \/ ForeignHand(i, A)
      PROVE  TrueByStamps(i, all') \/ ForeignHand(i, all')
  <2> HIDE DEF all
  <2>1. CASE TrueByStamps(i, A)
    BY <1>1, <1>4, <2>1, MoreEvents
  <2>2. CASE ForeignHand(i, A)
    BY <2>2 DEF ForeignHand, Stamped
  <2> QED
    BY <1>4, <2>1, <2>2
<1>5. incident' # NoIncident =>
        TrueByStamps(incident', all') \/ ForeignHand(incident', all')
  <2>1. CASE incident # NoIncident /\ incident' = incident
    <3>1. TrueByStamps(incident, all) \/ ForeignHand(incident, all)
      BY <2>1 DEF Explained
    <3> HIDE DEF all
    <3> QED
      BY <1>1, <1>2, <1>4, <2>1, <3>1
  <2>2. ASSUME NEW r \in Rules, Found(r)
        PROVE  TrueByStamps(incident', all') \/ ForeignHand(incident', all')
    <3>1. PICK g \in Largest(r) :
            incident' = [rule |-> r, ip |-> g.ip, host |-> g.host, at |-> now]
      BY <2>2 DEF Found
    <3>2. g \in Matching(r)
      BY DEF Largest
    <3>3. TrueByStamps(incident', rows) \/ ForeignHand(incident', rows)
      BY <3>1, <3>2, FoundIsExplained
    <3>4. rows \in SUBSET all' /\ incident'.rule \in Rules
      BY <1>2, <3>1
    <3> HIDE DEF all
    <3> QED
      BY <1>4, <3>3, <3>4
  <2> QED
    BY <1>3, <2>1, <2>2
<1> QED
  BY <1>5 DEF Explained

(* Events that no one stamps ahead of an alarm are all in its window.      *)
LEMMA ExplainedErrsBySenders ==
  ASSUME IInv, Explained
  PROVE  IncidentsErrBySenders
<1> DEFINE stamped == Stamped(incident, rows \cup pruned)
<1>1. ASSUME incident # NoIncident, ~ \E x \in stamped : x.at > incident.at
      PROVE  InWindow(incident, rows \cup pruned) = stamped
  <2>1. incident.at \in Int
    BY <1>1, CorrelationAssumption DEF IInv, TypeOK
  <2>2. \A x \in stamped : x.at \in Int
    BY CorrelationAssumption DEF IInv, TypeOK, Stamped
  <2>3. ASSUME NEW x \in stamped PROVE x.at <= incident.at
    <3>1. ~ (x.at > incident.at)
      BY <1>1
    <3>2. x.at \in Int
      BY <2>2
    <3> QED
      BY <2>1, <3>1, <3>2
  <2> QED
    BY <2>3 DEF InWindow
<1> QED
  BY <1>1 DEF Explained, IncidentsErrBySenders, TrueByStamps, ForeignHand

(* Whoever sends events, however they name the fields, and whether they    *)
(* stamp them behind the clock or ahead of it: an alarm is true of what    *)
(* was sent within its window, or, if something is stamped ahead of it, of *)
(* what was sent within its window and ahead; or it names no address where *)
(* it should, and a sender that names fields in another way had a hand in  *)
(* it.                                                                     *)
THEOREM BlameTheorem == Spec => []IncidentsErrBySenders
<1>1. Init => Explained
  BY DEF Init, Explained
<1>2. IInv /\ IInv' /\ Explained /\ [Next]_vars => Explained'
  BY NextExplained
<1>3. Spec => []Explained
  BY <1>1, <1>2, Invariance, PTL DEF Spec
<1>4. IInv /\ Explained => IncidentsErrBySenders
  BY ExplainedErrsBySenders
<1> QED
  BY <1>3, <1>4, Invariance, PTL
=============================================================================
