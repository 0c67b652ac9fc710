---------------------------- MODULE Parts_proofs ----------------------------
(***************************************************************************)
(* Proofs about the parts that stand alone: the SIEM engine, the SSE hub,  *)
(* the windows compared as text, the operator's tables, the figures of the *)
(* pages and the log stream.  Each has its inductive invariant and its     *)
(* theorem about its own specification, for every value of its constants;  *)
(* the last section composes them.  The limiter's proofs are in            *)
(* RequestPipeline_proofs: the request path builds on them.                *)
(***************************************************************************)
EXTENDS MCParts, DataTheorems, FunctionTheorems, TLAPS

-----------------------------------------------------------------------------
(* The windows compared as text.                                           *)

LEMMA Dates ==
  ASSUME NEW a \in Int, NEW b \in Int
  PROVE  /\ a \div DayLength \in Int /\ b \div DayLength \in Int
         /\ a >= b => a \div DayLength >= b \div DayLength
         /\ a \div DayLength >= b \div DayLength =>
              a >= DayLength * (b \div DayLength)
<1> DEFINE p == a \div DayLength
           q == b \div DayLength
<1>1. DayLength \in Nat /\ DayLength > 0
  BY WindowAssumption
<1>2. /\ p \in Int /\ a >= DayLength * p /\ a < DayLength * p + DayLength
      /\ q \in Int /\ b >= DayLength * q /\ b < DayLength * q + DayLength
  BY <1>1
<1> HIDE DEF p, q
<1>3. ASSUME NEW m \in Int, NEW n \in Int, m <= n
      PROVE  DayLength * m <= DayLength * n
  BY <1>1, <1>3
<1>4. a >= b => p >= q
  <2> SUFFICES ASSUME a >= b, p < q PROVE FALSE
    BY <1>2
  <2>1. DayLength * (p + 1) <= DayLength * q
    BY <1>2, <1>3
  <2>2. DayLength * (p + 1) = DayLength * p + DayLength
    BY <1>1, <1>2
  <2> QED
    BY <1>1, <1>2, <2>1, <2>2
<1>5. p >= q => a >= DayLength * q
  BY <1>1, <1>2, <1>3
<1> QED
  BY <1>2, <1>4, <1>5 DEF p, q

(* On one date, a stamp with a 'T' is never before one with a space.       *)
LEMMA TextOrder ==
  ASSUME NEW a \in Int, NEW b \in Int
  PROVE  TextBefore(Text(a, Mark.T), Text(b, Mark.space))
           <=> a \div DayLength < b \div DayLength
BY Dates DEF TextBefore, Text, Mark

Pruned ==
  \A d \in deleted : /\ d.at \in Int
                     /\ d.row.stamp + d.row.zone < d.at - Retention * DayLength

WindowInv == WindowTypeOK /\ Pruned

LEMMA WindowConstants ==
  /\ DayLength \in Nat \ {0} /\ Zones \subseteq Int
  /\ {Minutes, Retention, MaxSkew, MaxTick} \subseteq Nat
  /\ Dawn \in Int /\ Retention * DayLength \in Int
BY WindowAssumption DEF Dawn

LEMMA CountedRows ==
  ASSUME WindowTypeOK, NEW r \in rows, NEW n \in Int
  PROVE  /\ r.stamp + r.zone \in Int /\ clock \in Int /\ clock - n \in Int
         /\ r \in Counted(n) <=>
              (r.stamp + r.zone) \div DayLength >= (clock - n) \div DayLength
<1>1. r.stamp \in Int /\ r.zone \in Int /\ clock \in Int
  <2>1. clock \in Int
    BY WindowConstants DEF WindowTypeOK
  <2>2. r.stamp \in Int /\ r.zone \in Zones
    BY DEF WindowTypeOK
  <2> QED
    BY <2>1, <2>2, WindowConstants
<1> DEFINE a == r.stamp + r.zone
           b == clock - n
<1>2. a \in Int /\ b \in Int /\ a \div DayLength \in Int /\ b \div DayLength \in Int
  BY <1>1, Dates
<1>3. r \in Counted(n) <=> ~TextBefore(Text(a, Mark.T), Text(b, Mark.space))
  BY DEF Counted, Stamped, Ago
<1> QED
  BY <1>1, <1>2, <1>3, TextOrder

LEMMA WindowStep == ASSUME WindowInv, [WindowNext]_windowVars PROVE WindowInv'
<1>1. CASE WriteRow
  <2>1. PICK stamp \in clock - MaxSkew .. clock + MaxSkew, zone \in Zones :
          rows' = rows \cup {[stamp |-> stamp, zone |-> zone]}
    BY <1>1 DEF WriteRow
  <2>2. stamp \in Int /\ stamp <= clock + MaxSkew
    BY <2>1, WindowConstants DEF WindowInv, WindowTypeOK
  <2> QED
    BY <1>1, <2>1, <2>2 DEF WriteRow, WindowInv, WindowTypeOK, Pruned
<1>2. CASE PruneOldEvents
  <2> DEFINE span == Retention * DayLength
  <2>1. rows' \subseteq rows /\ clock' = clock
    BY <1>2 DEF PruneOldEvents, Counted
  <2>2. ASSUME NEW d \in deleted'
        PROVE  d.row \in rows /\ d.row \notin Counted(span) /\ d.at = clock
    BY <1>2 DEF PruneOldEvents
  <2>3. WindowTypeOK'
    BY <2>1, <2>2 DEF WindowInv, WindowTypeOK
  <2>4. ASSUME NEW d \in deleted'
        PROVE  d.at \in Int /\ d.row.stamp + d.row.zone < d.at - span
    <3>1. /\ d.row.stamp + d.row.zone \in Int /\ clock \in Int /\ clock - span \in Int
          /\ ~ ((d.row.stamp + d.row.zone) \div DayLength >= (clock - span) \div DayLength)
      BY <2>2, CountedRows, WindowConstants DEF WindowInv
    <3>2. ~ (d.row.stamp + d.row.zone >= clock - span)
      BY <3>1, Dates
    <3> HIDE DEF span
    <3> QED
      BY <2>2, <3>1, <3>2
  <2> QED
    BY <2>3, <2>4 DEF WindowInv, Pruned
<1>3. CASE Tick
  BY <1>3, WindowConstants DEF Tick, WindowInv, WindowTypeOK, Pruned
<1>4. CASE UNCHANGED windowVars
  BY <1>4 DEF windowVars, WindowInv, WindowTypeOK, Pruned
<1> QED
  BY <1>1, <1>2, <1>3, <1>4 DEF WindowNext

LEMMA WindowInvariance == WindowSpec => []WindowInv
<1>1. WindowInit => WindowInv
  BY WindowConstants DEF WindowInit, WindowInv, WindowTypeOK, Pruned
<1> QED
  BY <1>1, WindowStep, PTL DEF WindowSpec

(* With any zones, retention and day length, a window compared as text     *)
(* misses nothing younger than it and a pruning deletes nothing younger    *)
(* than the retention, and what a window counts too much is of the day on  *)
(* which it begins.                                                        *)
THEOREM WindowTheorem == WindowSpec => []WindowsErrByADay
<1>1. WindowInv => WindowsErrByADay
  <2> SUFFICES ASSUME WindowInv PROVE WindowsErrByADay
    OBVIOUS
  <2>1. ASSUME NEW r \in rows
        PROVE  /\ r.stamp + r.zone >= clock - Minutes => r \in Counted(Minutes)
               /\ r \in Counted(Minutes) =>
                    r.stamp + r.zone >= DayLength * ((clock - Minutes) \div DayLength)
    <3> DEFINE a == r.stamp + r.zone
               b == clock - Minutes
    <3>1. /\ a \in Int /\ b \in Int
          /\ r \in Counted(Minutes) <=> a \div DayLength >= b \div DayLength
      BY CountedRows, WindowConstants DEF WindowInv
    <3> HIDE DEF a, b
    <3>2. /\ a >= b => r \in Counted(Minutes)
          /\ r \in Counted(Minutes) => a >= DayLength * (b \div DayLength)
      BY <3>1, Dates
    <3> QED
      BY <3>2 DEF a, b
  <2> QED
    BY <2>1 DEF WindowInv, Pruned, WindowsErrByADay
<1> QED
  BY <1>1, WindowInvariance, PTL

-----------------------------------------------------------------------------
(* The operator's tables.                                                  *)

EditsOK ==
  /\ ruleEdit \in [RuleIds -> [kind : {"none", "on", "off", "deleted"}, start : Nat]]
  /\ banEdit \in [Addresses -> Reasons \cup {NoReason}]
  /\ \A r \in RuleIds : ruleEdit[r].start <= starts
  /\ postureEdit.kind \in Postures
  /\ postureEdit.start \in Nat /\ postureEdit.start <= starts

TablesInv == TablesTypeOK /\ EditsOK /\ TablesFollowEdits

LEMMA TablesStart == TablesInit => TablesInv
<1> SUFFICES ASSUME TablesInit PROVE TablesInv
  OBVIOUS
<1> USE TablesAssumption DEF TablesInit
<1>1. TablesTypeOK
  <2>1. /\ agentRows \subseteq Agents /\ {postureRow, cfgPosture} \subseteq Postures
        /\ starts \in 1 .. MaxStarts /\ edits \in 0 .. MaxEdits
    OBVIOUS
  <2>2. DOMAIN rules \subseteq RuleIds /\ DOMAIN blacklist \subseteq Addresses
    OBVIOUS
  <2>3. Range(rules) \subseteq BOOLEAN /\ Range(blacklist) \subseteq Reasons
    BY DEF Range
  <2> HIDE DEF TablesInit
  <2> QED
    BY <2>1, <2>2, <2>3 DEF TablesTypeOK
<1>2. EditsOK
  BY DEF EditsOK
<1>3. TablesFollowEdits
  <2>1. DOMAIN rules = {r \in RuleIds : ruleEdit[r].kind \in {"on", "off"} \/ Sown(r)}
    BY DEF Sown
  <2>2. \A r \in DOMAIN rules : rules[r] <=> ruleEdit[r].kind # "off"
    OBVIOUS
  <2> QED
    BY <2>1, <2>2 DEF TablesFollowEdits
<1> QED
  BY <1>1, <1>2, <1>3 DEF TablesInv

(* What the last edit of a rule says of its row.                           *)
LEMMA RuleRow ==
  ASSUME TablesInv, NEW r \in RuleIds
  PROVE  /\ r \in DOMAIN rules <=> ruleEdit[r].kind \in {"on", "off"} \/ Sown(r)
         /\ r \in DOMAIN rules =>
              rules[r] \in BOOLEAN /\ (rules[r] <=> ruleEdit[r].kind # "off")
BY DEF TablesInv, TablesFollowEdits, TablesTypeOK, Range

(* An edit of one rule: its row, if it has one, is as the edit says, and   *)
(* the others are as they were.                                            *)
LEMMA RuleEdited ==
  ASSUME TablesInv, NEW r \in RuleIds, NEW kind \in {"on", "off", "deleted"},
         EditRule(r, kind),
         DOMAIN rules' = IF kind = "deleted" THEN DOMAIN rules \ {r}
                         ELSE DOMAIN rules \cup {r},
         kind # "deleted" => rules'[r] = (kind = "on"),
         \A s \in DOMAIN rules \ {r} : rules'[s] = rules[s]
  PROVE  TablesInv'
<1> USE TablesAssumption
<1>1. /\ ruleEdit' = [ruleEdit EXCEPT ![r] = [kind |-> kind, start |-> starts]]
      /\ edits < MaxEdits /\ edits' = edits + 1
      /\ UNCHANGED <<blacklist, agentRows, postureRow, cfgPosture, starts, banEdit,
                     postureEdit>>
  BY DEF EditRule, Counting, Edit
<1>2. DOMAIN rules \subseteq RuleIds /\ starts \in Nat
  BY DEF TablesInv, TablesTypeOK
<1>3. EditsOK'
  <2>1. starts \in Nat /\ EditsOK
    BY <1>2 DEF TablesInv
  <2> QED
    BY <1>1, <2>1 DEF EditsOK
<1>4. ASSUME NEW s \in RuleIds
      PROVE  /\ ruleEdit'[s] = IF s = r THEN [kind |-> kind, start |-> starts]
                               ELSE ruleEdit[s]
             /\ s # r => Sown(s)' = Sown(s)
             /\ s = r => ~Sown(s)'
  BY <1>1, <1>2 DEF TablesInv, EditsOK, Sown
<1>5. ASSUME NEW s \in RuleIds
      PROVE  /\ s \in DOMAIN rules' <=> ruleEdit'[s].kind \in {"on", "off"} \/ Sown(s)'
             /\ s \in DOMAIN rules' =>
                  rules'[s] \in BOOLEAN /\ (rules'[s] <=> ruleEdit'[s].kind # "off")
  <2>1. CASE s = r
    <3>1. ruleEdit'[s].kind = kind /\ ~Sown(s)'
      BY <2>1, <1>4
    <3>2. CASE kind = "deleted"
      BY <2>1, <3>1, <3>2
    <3>3. CASE kind # "deleted"
      BY <2>1, <3>1, <3>3
    <3> QED
      BY <3>2, <3>3
  <2>2. CASE s # r
    BY <2>2, <1>4, RuleRow
  <2> QED
    BY <2>1, <2>2
<1>6. DOMAIN rules' \subseteq RuleIds
  BY <1>2
<1>7. TablesTypeOK'
  <2>1. Range(rules') \subseteq BOOLEAN
    BY <1>5, <1>6 DEF Range
  <2> QED
    BY <1>1, <1>6, <2>1 DEF TablesInv, TablesTypeOK
<1>8. TablesFollowEdits'
  <2>1. DOMAIN rules' = {s \in RuleIds : ruleEdit'[s].kind \in {"on", "off"} \/ Sown(s)'}
    BY <1>5, <1>6
  <2>2. \A s \in DOMAIN rules' : rules'[s] <=> ruleEdit'[s].kind # "off"
    BY <1>5, <1>6
  <2> QED
    BY <1>1, <2>1, <2>2 DEF TablesInv, TablesFollowEdits
<1> QED
  BY <1>3, <1>7, <1>8 DEF TablesInv

LEMMA RuleSteps ==
  ASSUME TablesInv, NEW r \in RuleIds,
         CreateRule(r) \/ DeleteRule(r) \/ \E active \in BOOLEAN : ToggleRule(r, active)
  PROVE  TablesInv'
<1>1. CASE CreateRule(r)
  <2>1. /\ DOMAIN rules' = DOMAIN rules \cup {r} /\ rules'[r] = TRUE
        /\ \A s \in DOMAIN rules \ {r} : rules'[s] = rules[s]
        /\ EditRule(r, "on")
    BY <1>1 DEF CreateRule, With
  <2> QED
    BY <2>1, RuleEdited
<1>2. CASE DeleteRule(r)
  <2>1. /\ DOMAIN rules' = DOMAIN rules \ {r}
        /\ \A s \in DOMAIN rules \ {r} : rules'[s] = rules[s]
        /\ EditRule(r, "deleted")
    BY <1>2 DEF DeleteRule, Without, Restrict
  <2> QED
    BY <2>1, RuleEdited
<1>3. ASSUME NEW active \in BOOLEAN, ToggleRule(r, active)
      PROVE  TablesInv'
  <2>1. /\ DOMAIN rules' = DOMAIN rules \cup {r} /\ rules'[r] = active
        /\ \A s \in DOMAIN rules \ {r} : rules'[s] = rules[s]
        /\ EditRule(r, IF active THEN "on" ELSE "off")
    BY <1>3 DEF ToggleRule
  <2>2. CASE active = TRUE
    BY <2>1, <2>2, RuleEdited
  <2>3. CASE active = FALSE
    BY <2>1, <2>3, RuleEdited
  <2> QED
    BY <2>2, <2>3
<1> QED
  BY <1>1, <1>2, <1>3

LEMMA BanSteps ==
  ASSUME TablesInv, NEW ip \in Addresses,
         RemoveBlacklist(ip) \/ \E reason \in Reasons : AddBlacklist(ip, reason)
  PROVE  TablesInv'
<1>1. PICK reason \in Reasons \cup {NoReason} :
        /\ EditBan(ip, reason)
        /\ DOMAIN blacklist' = IF reason = NoReason THEN DOMAIN blacklist \ {ip}
                               ELSE DOMAIN blacklist \cup {ip}
        /\ reason # NoReason => blacklist'[ip] = reason
        /\ \A j \in DOMAIN blacklist \ {ip} : blacklist'[j] = blacklist[j]
  <2>1. CASE RemoveBlacklist(ip)
    BY <2>1 DEF RemoveBlacklist, Without, Restrict
  <2>2. CASE \E reason \in Reasons : AddBlacklist(ip, reason)
    BY <2>2, TablesAssumption DEF AddBlacklist, With
  <2> QED
    BY <2>1, <2>2
<1>2. /\ banEdit' = [banEdit EXCEPT ![ip] = reason]
      /\ edits < MaxEdits /\ edits' = edits + 1
      /\ UNCHANGED <<rules, agentRows, postureRow, cfgPosture, starts, ruleEdit,
                     postureEdit>>
  BY <1>1 DEF EditBan, Counting
<1>3. /\ banEdit \in [Addresses -> Reasons \cup {NoReason}]
      /\ \A j \in Addresses : j \in DOMAIN blacklist <=> banEdit[j] # NoReason
      /\ \A j \in DOMAIN blacklist : j \in Addresses /\ blacklist[j] = banEdit[j]
  BY DEF TablesInv, TablesTypeOK, TablesFollowEdits, EditsOK
<1>4. /\ banEdit' \in [Addresses -> Reasons \cup {NoReason}]
      /\ \A j \in Addresses : j \in DOMAIN blacklist' <=> banEdit'[j] # NoReason
      /\ \A j \in DOMAIN blacklist' : j \in Addresses /\ blacklist'[j] = banEdit'[j]
  BY <1>1, <1>2, <1>3
<1>5. DOMAIN blacklist' \subseteq Addresses /\ Range(blacklist') \subseteq Reasons
  BY <1>4 DEF Range
<1>6. TablesTypeOK'
  BY <1>2, <1>5, TablesAssumption DEF TablesInv, TablesTypeOK
<1>7. EditsOK'
  BY <1>2, <1>4 DEF TablesInv, EditsOK
<1>8. TablesFollowEdits'
  <2>1. DOMAIN blacklist' = {j \in Addresses : banEdit'[j] # NoReason}
    BY <1>4
  <2>2. \A r \in RuleIds : Sown(r)' = Sown(r)
    BY <1>2 DEF Sown
  <2>3. DOMAIN rules = {r \in RuleIds : ruleEdit[r].kind \in {"on", "off"} \/ Sown(r)}
    BY DEF TablesInv, TablesFollowEdits
  <2>4. DOMAIN rules' = {r \in RuleIds : ruleEdit'[r].kind \in {"on", "off"} \/ Sown(r)'}
    BY <1>2, <2>2, <2>3
  <2> QED
    BY <1>2, <1>4, <2>1, <2>4 DEF TablesInv, TablesFollowEdits
<1> QED
  BY <1>6, <1>7, <1>8 DEF TablesInv

LEMMA AgentStep ==
  ASSUME TablesInv, NEW a \in Agents, RegisterAgent(a) PROVE TablesInv'
BY TablesAssumption DEF RegisterAgent, Counting, edited, TablesInv, TablesTypeOK,
   EditsOK, TablesFollowEdits, Sown

LEMMA PostureStep ==
  ASSUME TablesInv, NEW p \in Postures, SetPosture(p) PROVE TablesInv'
BY TablesAssumption DEF SetPosture, Edit, Counting, database, TablesInv,
   TablesTypeOK, EditsOK, TablesFollowEdits, Sown

(* After a restart the seeds that nobody edited since they were last sown  *)
(* are there, and the process knows of no choice of posture.               *)
LEMMA TablesRestart == ASSUME TablesInv, Restart PROVE TablesInv'
<1> USE TablesAssumption
<1>1. /\ starts' = starts + 1 /\ cfgPosture' = FilePosture
      /\ rules' = Seeded
      /\ UNCHANGED <<blacklist, agentRows, postureRow, edits, ruleEdit, banEdit,
                     postureEdit>>
      /\ starts \in Nat /\ starts' \in 1 .. MaxStarts
  BY DEF Restart, edited, TablesInv, TablesTypeOK
<1>2. /\ DOMAIN rules' = DOMAIN rules \cup Seeds
      /\ \A r \in DOMAIN rules' : rules'[r] = (r \in DOMAIN rules => rules[r])
  BY <1>1 DEF Seeded
<1>3. ASSUME NEW r \in RuleIds
      PROVE  Sown(r)' <=> r \in Seeds /\ ruleEdit[r].kind \in {"none", "deleted"}
  BY <1>1 DEF Sown, TablesInv, EditsOK
<1>4. ASSUME NEW r \in RuleIds
      PROVE  /\ r \in DOMAIN rules' <=> ruleEdit[r].kind \in {"on", "off"} \/ Sown(r)'
             /\ r \in DOMAIN rules' =>
                  rules'[r] \in BOOLEAN /\ (rules'[r] <=> ruleEdit[r].kind # "off")
  <2>1. ruleEdit[r].kind \in {"none", "on", "off", "deleted"}
    BY DEF TablesInv, EditsOK
  <2> QED
    BY <1>2, <1>3, <2>1, RuleRow DEF Sown
<1>5. DOMAIN rules' \subseteq RuleIds
  BY <1>2 DEF TablesInv, TablesTypeOK
<1>6. TablesTypeOK'
  <2>1. Range(rules') \subseteq BOOLEAN
    BY <1>4, <1>5 DEF Range
  <2> QED
    BY <1>1, <1>5, <2>1 DEF TablesInv, TablesTypeOK
<1>7. EditsOK'
  BY <1>1 DEF TablesInv, EditsOK
<1>8. TablesFollowEdits'
  <2>1. DOMAIN rules' = {r \in RuleIds : ruleEdit'[r].kind \in {"on", "off"} \/ Sown(r)'}
    BY <1>1, <1>4, <1>5
  <2>2. \A r \in DOMAIN rules' : rules'[r] <=> ruleEdit'[r].kind # "off"
    BY <1>1, <1>4, <1>5
  <2>3. postureEdit'.start # starts'
    BY <1>1 DEF TablesInv, EditsOK
  <2> QED
    BY <1>1, <2>1, <2>2, <2>3 DEF TablesInv, TablesFollowEdits
<1> QED
  BY <1>6, <1>7, <1>8 DEF TablesInv

LEMMA TablesStep == TablesInv /\ [TablesNext]_tablesVars => TablesInv'
<1> SUFFICES ASSUME TablesInv, [TablesNext]_tablesVars PROVE TablesInv'
  OBVIOUS
<1>1. CASE TablesNext
  BY <1>1, RuleSteps, BanSteps, AgentStep, PostureStep, TablesRestart DEF TablesNext
<1>2. CASE UNCHANGED tablesVars
  BY <1>2 DEF tablesVars, database, edited, TablesInv, TablesTypeOK, EditsOK,
     TablesFollowEdits, Sown
<1> QED
  BY <1>1, <1>2

LEMMA TablesInvariance == TablesSpec => []TablesInv
BY TablesStart, TablesStep, PTL DEF TablesSpec

(* After any edits and restarts, whatever the rules, the seeds and the     *)
(* postures are, every table is as the last edits left it, but for the     *)
(* deleted seeds that a restart brings back and the posture it forgets.    *)
THEOREM TablesTheorem == TablesSpec => []TablesFollowEdits
BY TablesInvariance, PTL DEF TablesInv

-----------------------------------------------------------------------------
(* The log stream.                                                         *)

StreamOK ==
  /\ streamed \in [LogEvents -> {0, 1}]
  /\ \A e \in committed : stampOf[e] # 0
  /\ \A e \in LogEvents :
       streamed[e] = 1 => e \in committed /\ stampOf[e] <= lastTs
  /\ reader = "new" =>
       /\ lastTs = 0 /\ late = {} /\ cut = {}
       /\ \A e \in LogEvents : streamed[e] = 0

LogInv == LogTypeOK /\ StreamOK /\ LogMissesAreExplained

(* What a query leaves out has as many newer rows as the query's limit.    *)
LEMMA LeftOut ==
  ASSUME LogTypeOK, NEW limit \in Nat, NEW top \in RecentEvents(limit)
  PROVE  top \subseteq committed /\ committed \ top \subseteq Overtaken(limit)
<1>1. /\ IsFiniteSet(committed) /\ top \subseteq committed
      /\ Cardinality(top) = IF Cardinality(committed) < limit
                            THEN Cardinality(committed) ELSE limit
      /\ \A e \in top, f \in committed \ top : stampOf[e] >= stampOf[f]
  <2>1. committed \subseteq LogEvents
    BY DEF LogTypeOK
  <2>2. IsFiniteSet(committed)
    BY <2>1, LogAssumption, FS_Subset
  <2> QED
    BY <2>2 DEF RecentEvents
<1>2. ASSUME NEW e \in committed \ top PROVE Cardinality(NewerThan(e)) >= limit
  <2>1. Cardinality(top) # Cardinality(committed)
    BY <1>1, FS_Subset
  <2>2. Cardinality(top) = limit
    BY <1>1, <2>1
  <2>3. top \subseteq NewerThan(e) /\ NewerThan(e) \subseteq committed
    BY <1>1 DEF NewerThan
  <2>4. IsFiniteSet(NewerThan(e))
    BY <1>1, <2>3, FS_Subset
  <2> QED
    BY <2>2, <2>3, <2>4, FS_Subset
<1> QED
  BY <1>1, <1>2 DEF Overtaken

LEMMA NewestIs ==
  ASSUME LogTypeOK, NEW events \in SUBSET LogEvents, events # {}
  PROVE  /\ Newest(events) \in 0 .. MaxStamp
         /\ \E e \in events : Newest(events) = stampOf[e]
         /\ \A e \in events : stampOf[e] <= Newest(events)
<1>1. MaxStamp \in Nat /\ \A e \in events : stampOf[e] \in 0 .. MaxStamp
  BY LogAssumption DEF LogTypeOK
<1> DEFINE ages == {MaxStamp - stampOf[e] : e \in events}
<1>2. ages \in SUBSET Nat /\ ages # {}
  BY <1>1
<1>3. PICK age \in ages : \A other \in ages : age <= other
  <2> HIDE DEF ages
  <2> QED
    BY <1>2, LeastNatural
<1>4. PICK e \in events : age = MaxStamp - stampOf[e]
  OBVIOUS
<1>5. ASSUME NEW f \in events PROVE stampOf[f] <= stampOf[e]
  <2>1. MaxStamp - stampOf[f] \in ages
    OBVIOUS
  <2>2. MaxStamp - stampOf[e] <= MaxStamp - stampOf[f]
    BY <1>3, <1>4, <2>1
  <2> QED
    BY <1>1, <2>2
<1> DEFINE IsNewest(t) == \A f \in events : stampOf[f] <= t
           stamps == {stampOf[f] : f \in events}
<1>6. stampOf[e] \in stamps /\ IsNewest(stampOf[e])
  BY <1>5
<1>7. Newest(events) = CHOOSE t \in stamps : IsNewest(t)
  BY DEF Newest
<1>8. Newest(events) \in stamps /\ IsNewest(Newest(events))
  <2> HIDE DEF stamps, IsNewest
  <2> QED
    BY <1>6, <1>7
<1> QED
  BY <1>1, <1>8

(* A message sends rows that were not sent before, and moves the cursor to *)
(* the latest of their stamps.                                             *)
LEMMA Sent ==
  ASSUME LogInv, NEW sent \in SUBSET committed, SendAll(sent),
         \A e \in sent : streamed[e] = 0 /\ lastTs <= stampOf[e]
  PROVE  /\ streamed' \in [LogEvents -> {0, 1}]
         /\ \A e \in LogEvents :
              streamed'[e] = 1 <=> streamed[e] = 1 \/ e \in sent
         /\ lastTs' \in 0 .. MaxStamp
         /\ \A e \in LogEvents :
              streamed'[e] = 1 => e \in committed /\ stampOf[e] <= lastTs'
<1>1. sent \in SUBSET LogEvents /\ LogTypeOK /\ StreamOK
  BY DEF LogInv, LogTypeOK
<1>2. /\ streamed' = [e \in LogEvents |->
           IF e \in sent THEN streamed[e] + 1 ELSE streamed[e]]
      /\ lastTs' = IF sent = {} THEN lastTs ELSE Newest(sent)
  BY DEF SendAll
<1>3. /\ streamed' \in [LogEvents -> {0, 1}]
      /\ \A e \in LogEvents :
           streamed'[e] = 1 <=> streamed[e] = 1 \/ e \in sent
  BY <1>1, <1>2 DEF StreamOK
<1>4. /\ lastTs' \in 0 .. MaxStamp /\ lastTs <= lastTs'
      /\ \A e \in sent : stampOf[e] <= lastTs'
  <2>1. CASE sent = {}
    BY <1>1, <1>2, <2>1 DEF LogTypeOK
  <2>2. CASE sent # {}
    <3>1. /\ lastTs' \in 0 .. MaxStamp
          /\ \A e \in sent : stampOf[e] <= lastTs'
      BY <1>1, <1>2, <2>2, NewestIs
    <3>2. PICK e \in sent : lastTs' = stampOf[e]
      BY <1>1, <1>2, <2>2, NewestIs
    <3> QED
      BY <3>1, <3>2
  <2> QED
    BY <2>1, <2>2
<1>5. ASSUME NEW e \in LogEvents, streamed'[e] = 1
      PROVE  e \in committed /\ stampOf[e] <= lastTs'
  <2>1. CASE e \in sent
    BY <1>4, <2>1
  <2>2. CASE e \notin sent
    <3>1. streamed[e] = 1
      BY <1>3, <1>5, <2>2
    <3>2. e \in committed /\ stampOf[e] <= lastTs
      BY <1>1, <3>1 DEF StreamOK
    <3>3. stampOf[e] \in Nat /\ lastTs \in Nat /\ lastTs' \in Nat
      BY <1>1, <1>4, LogAssumption DEF LogTypeOK
    <3> QED
      BY <1>4, <3>2, <3>3
  <2> QED
    BY <2>1, <2>2
<1> QED
  BY <1>3, <1>4, <1>5

LEMMA RaiseStep == ASSUME LogInv, NEW e \in LogEvents, Raise(e) PROVE LogInv'
<1>1. LogTypeOK /\ StreamOK /\ LogMissesAreExplained /\ logNow \in 1 .. MaxStamp
  BY DEF LogInv, LogTypeOK
<1>2. /\ stampOf' = [stampOf EXCEPT ![e] = logNow] /\ stampOf[e] = 0
      /\ UNCHANGED <<logNow, committed, reader, lastTs, streamed, late, cut>>
  BY DEF Raise
<1>3. LogTypeOK'
  BY <1>1, <1>2, LogAssumption DEF LogTypeOK
<1>4. committed \subseteq LogEvents /\ \A f \in committed : stampOf'[f] = stampOf[f]
  BY <1>1, <1>2 DEF LogTypeOK, StreamOK
<1>5. StreamOK'
  BY <1>1, <1>2, <1>4 DEF StreamOK
<1>6. LogMissesAreExplained'
  BY <1>1, <1>2, <1>4 DEF LogMissesAreExplained
<1> QED
  BY <1>3, <1>5, <1>6 DEF LogInv

LEMMA CommitStep ==
  ASSUME LogInv, NEW batch \in SUBSET LogEvents, Commit(batch) PROVE LogInv'
<1>1. LogTypeOK /\ StreamOK /\ LogMissesAreExplained
  BY DEF LogInv
<1>2. /\ committed' = committed \cup batch
      /\ \A e \in batch : stampOf[e] # 0
      /\ late' = late \cup
           {e \in batch : reader = "streaming" /\ stampOf[e] <= lastTs}
      /\ UNCHANGED <<logNow, stampOf, reader, lastTs, streamed, cut>>
  BY DEF Commit
<1>3. LogTypeOK'
  BY <1>1, <1>2 DEF LogTypeOK
<1>4. StreamOK'
  BY <1>1, <1>2 DEF StreamOK
<1>5. LogMissesAreExplained'
  <2>1. \A e \in batch : stampOf[e] \in Nat /\ lastTs \in Nat
    BY <1>1, LogAssumption DEF LogTypeOK
  <2> QED
    BY <1>1, <1>2, <2>1 DEF LogMissesAreExplained
<1> QED
  BY <1>3, <1>4, <1>5 DEF LogInv

LEMMA OpenStep == ASSUME LogInv, Open PROVE LogInv'
<1>1. LogTypeOK /\ StreamOK /\ LogMissesAreExplained
  BY DEF LogInv
<1>2. /\ reader = "new" /\ reader' = "streaming"
      /\ UNCHANGED <<logNow, stampOf, committed, late>>
      /\ lastTs = 0 /\ late = {} /\ cut = {}
      /\ \A e \in LogEvents : streamed[e] = 0
  BY <1>1 DEF Open, StreamOK
<1>3. CASE UNCHANGED <<streamed, lastTs, cut>>
  <2>1. LogTypeOK' /\ StreamOK'
    BY <1>1, <1>2, <1>3 DEF LogTypeOK, StreamOK
  <2>2. \A e \in committed : stampOf[e] > 0
    BY <1>1, LogAssumption DEF LogTypeOK, StreamOK
  <2>3. LogMissesAreExplained'
    BY <1>1, <1>2, <1>3, <2>2 DEF LogMissesAreExplained
  <2> QED
    BY <2>1, <2>3 DEF LogInv
<1>4. ASSUME NEW top \in RecentEvents(FirstLimit), SendAll(top),
             cut' = Overtaken(FirstLimit)
      PROVE  LogInv'
  <2>1. top \subseteq committed /\ committed \ top \subseteq cut'
    BY <1>1, <1>4, LogAssumption, LeftOut
  <2>2. \A e \in top : e \in LogEvents /\ streamed[e] = 0 /\ lastTs <= stampOf[e]
    BY <1>1, <1>2, <2>1, LogAssumption DEF LogTypeOK
  <2>3. /\ streamed' \in [LogEvents -> {0, 1}]
        /\ \A e \in LogEvents :
             streamed'[e] = 1 <=> streamed[e] = 1 \/ e \in top
        /\ lastTs' \in 0 .. MaxStamp
        /\ \A e \in LogEvents :
             streamed'[e] = 1 => e \in committed /\ stampOf[e] <= lastTs'
    BY <1>4, <2>1, <2>2, Sent
  <2>4. cut' \subseteq committed
    BY <1>4 DEF Overtaken
  <2>5. LogTypeOK'
    BY <1>1, <1>2, <2>3, <2>4 DEF LogTypeOK
  <2>6. StreamOK'
    BY <1>1, <1>2, <2>3 DEF StreamOK
  <2>7. LogMissesAreExplained'
    <3>1. \A e \in LogEvents : streamed'[e] <= 1
      BY <2>3
    <3>2. \A e \in committed \ cut' : e \in LogEvents /\ streamed'[e] = 1
      BY <2>1, <2>2, <2>3
    <3> QED
      BY <1>2, <3>1, <3>2 DEF LogMissesAreExplained
  <2> QED
    BY <2>5, <2>6, <2>7 DEF LogInv
<1> QED
  BY <1>3, <1>4 DEF Open

LEMMA PollStep == ASSUME LogInv, Poll PROVE LogInv'
<1>1. LogTypeOK /\ StreamOK /\ LogMissesAreExplained
  BY DEF LogInv
<1>2. /\ reader = "streaming" /\ cut' = cut \cup Overtaken(PollLimit)
      /\ UNCHANGED <<logNow, stampOf, committed, reader, late>>
  BY DEF Poll
<1>3. PICK top \in RecentEvents(PollLimit) :
        SendAll({e \in top : stampOf[e] > lastTs})
  BY DEF Poll
<1> DEFINE sent == {e \in top : stampOf[e] > lastTs}
<1>4. top \subseteq committed /\ committed \ top \subseteq Overtaken(PollLimit)
  BY <1>1, LogAssumption, LeftOut
<1>5. sent \in SUBSET committed /\ committed \subseteq LogEvents
  BY <1>1, <1>4 DEF LogTypeOK
<1>6. ASSUME NEW e \in sent PROVE streamed[e] = 0 /\ lastTs <= stampOf[e]
  <2>1. stampOf[e] \in Nat /\ lastTs \in Nat /\ stampOf[e] > lastTs
    BY <1>1, <1>5, LogAssumption DEF LogTypeOK
  <2> QED
    BY <1>1, <1>5, <2>1 DEF StreamOK
<1>7. /\ streamed' \in [LogEvents -> {0, 1}]
      /\ \A e \in LogEvents :
           streamed'[e] = 1 <=> streamed[e] = 1 \/ e \in sent
      /\ lastTs' \in 0 .. MaxStamp
      /\ \A e \in LogEvents :
           streamed'[e] = 1 => e \in committed /\ stampOf[e] <= lastTs'
  <2>1. SendAll(sent)
    BY <1>3
  <2> HIDE DEF sent
  <2> QED
    BY <1>5, <1>6, <2>1, Sent
<1>8. cut' \subseteq LogEvents
  BY <1>1, <1>2 DEF LogTypeOK, Overtaken
<1>9. LogTypeOK'
  BY <1>1, <1>2, <1>7, <1>8 DEF LogTypeOK
<1>10. StreamOK'
  BY <1>1, <1>2, <1>7 DEF StreamOK
<1>11. ASSUME NEW e \in committed, e \notin late, e \notin cut'
       PROVE  streamed'[e] = 1
  <2>1. e \in top
    BY <1>2, <1>4, <1>11
  <2>2. CASE stampOf[e] > lastTs
    BY <1>5, <1>7, <2>1, <2>2
  <2>3. CASE ~(stampOf[e] > lastTs)
    <3>1. streamed[e] = 1
      BY <1>1, <1>2, <1>11, <2>3 DEF LogMissesAreExplained
    <3> QED
      BY <1>5, <1>7, <3>1
  <2> QED
    BY <2>2, <2>3
<1>12. LogMissesAreExplained'
  <2>1. \A e \in LogEvents : streamed'[e] <= 1
    BY <1>7
  <2> QED
    BY <1>2, <1>11, <2>1 DEF LogMissesAreExplained
<1> QED
  BY <1>9, <1>10, <1>12 DEF LogInv

LEMMA LogStep == ASSUME LogInv, [LogNext]_logVars PROVE LogInv'
<1>1. CASE LogElapse
  BY <1>1, LogAssumption DEF LogElapse, LogInv, LogTypeOK, StreamOK,
     LogMissesAreExplained
<1>2. CASE UNCHANGED logVars
  BY <1>2 DEF logVars, LogInv, LogTypeOK, StreamOK, LogMissesAreExplained
<1> QED
  BY <1>1, <1>2, RaiseStep, CommitStep, OpenStep, PollStep DEF LogNext

LEMMA LogInvariance == LogSpec => []LogInv
<1>1. LogInit => LogInv
  BY LogAssumption DEF LogInit, LogInv, LogTypeOK, StreamOK, LogMissesAreExplained
<1> QED
  BY <1>1, LogStep, PTL DEF LogSpec

(* For any events, stamps and limits, the stream sends nothing twice, and  *)
(* what it never sends was committed behind it or lost to a limit.         *)
THEOREM LogTheorem == LogSpec => []LogMissesAreExplained
BY LogInvariance, PTL DEF LogInv

-----------------------------------------------------------------------------
(* The SSE hub.                                                            *)

Gone == {"served", "removed", "closed"}
Reached(m, c) == m \in ToSet(channel[c]) \cup received[c] \cup overflowed[c]

SseShape ==
  /\ channel \in [Streams -> Seq(Events)]
  /\ received \in [Streams -> SUBSET Events]
  /\ overflowed \in [Streams -> SUBSET Events]
  /\ sending \in [Events -> SUBSET Streams]
  /\ \A m \in Events \ Begun : sending[m] = {}

HubHoldsServed == \A n \in DOMAIN hub : stream[hub[n]] = "served"
SendsToServed == \A m \in Events, c \in Streams : c \in sending[m] => stream[c] = "served"
ServedAreHeld ==
  \A c \in Streams : stream[c] = "served" /\ ~Registered(c) => Displaced(c)

(* Whom a broadcast found served it still has to visit, or has reached.    *)
AudienceServed ==
  \A m \in Begun : \A c \in audience[m] :
    /\ c \in Streams /\ stream[c] \in Gone
    /\ c \in sending[m] \/ Reached(m, c) \/ Displaced(c)

SseInv ==
  /\ SseTypeOK /\ SseShape /\ HubHoldsServed /\ SendsToServed /\ ServedAreHeld
  /\ AudienceServed

(* The connections of the hub have different ids: their number bounds the  *)
(* hub's.                                                                  *)
LEMMA HubSize ==
  ASSUME SseTypeOK PROVE Cardinality(DOMAIN hub) \in 0 .. Cardinality(Streams)
<1> DEFINE held == [n \in DOMAIN hub |-> hub[n]]
<1>1. \A n \in DOMAIN hub : hub[n] \in Streams /\ id[hub[n]] = n
  BY DEF SseTypeOK
<1>2. held \in [DOMAIN hub -> Streams]
  BY <1>1
<1>3. \A m, n \in DOMAIN hub : held[m] = held[n] => m = n
  BY <1>1
<1>4. held \in Injection(DOMAIN hub, Streams)
  BY <1>2, <1>3, Fun_IsInj
<1>5. IsFiniteSet(DOMAIN hub) /\ Cardinality(DOMAIN hub) <= Cardinality(Streams)
  <2> HIDE DEF held
  <2> QED
    BY <1>4, SseAssumption, FS_Injection
<1> QED
  BY <1>5, SseAssumption, FS_CardinalityType

(* Where a step leaves the ids of the connections that have one, and moves *)
(* none of them back, whoever was displaced still is.                      *)
LEMMA DisplacedStays ==
  ASSUME NEW c \in Streams,
         \A d \in Streams :
           stream[d] \in Gone => stream'[d] \in Gone /\ id'[d] = id[d],
         id'[c] = id[c], Displaced(c)
  PROVE  Displaced(c)'
BY DEF Displaced, Gone

LEMMA SseStart == SseInit => SseInv
<1> SUFFICES ASSUME SseInit PROVE SseInv
  OBVIOUS
<1>1. /\ DOMAIN hub = {} /\ Begun = {} /\ Cardinality(Streams) \in Nat
      /\ \A c \in Streams : ToSet(channel[c]) = {} /\ Len(channel[c]) = 0
  BY ToSetEmpty, SseAssumption, FS_CardinalityType DEF SseInit, Begun
<1>2. SseTypeOK
  BY <1>1, SseAssumption DEF SseInit, SseTypeOK
<1>3. SseShape
  BY DEF SseInit, SseShape
<1>4. HubHoldsServed /\ SendsToServed /\ ServedAreHeld /\ AudienceServed
  BY <1>1 DEF SseInit, HubHoldsServed, SendsToServed, ServedAreHeld, AudienceServed
<1> QED
  BY <1>2, <1>3, <1>4 DEF SseInv

LEMMA NameStep == ASSUME SseInv, NEW c \in Streams, Name(c) PROVE SseInv'
<1>1. /\ SseTypeOK /\ SseShape /\ HubHoldsServed /\ SendsToServed /\ ServedAreHeld
      /\ AudienceServed
  BY DEF SseInv
<1>2. /\ stream[c] = "new" /\ stream' = [stream EXCEPT ![c] = "named"]
      /\ id' = [id EXCEPT ![c] = Cardinality(DOMAIN hub)]
      /\ UNCHANGED <<hub, channel, received, sending, audience, overflowed>>
  BY DEF Name, StepTo
<1>3. \A n \in DOMAIN hub : hub[n] \in Streams \ {c}
  BY <1>1, <1>2 DEF SseTypeOK, HubHoldsServed
<1>4. SseTypeOK'
  <2>1. id' \in [Streams -> 0 .. Cardinality(Streams)]
    BY <1>1, <1>2, HubSize DEF SseTypeOK
  <2> QED
    BY <1>1, <1>2, <1>3, <2>1 DEF SseTypeOK, Begun
<1>5. SseShape'
  BY <1>1, <1>2 DEF SseShape, Begun
<1>6. HubHoldsServed' /\ SendsToServed'
  BY <1>1, <1>2, <1>3 DEF HubHoldsServed, SendsToServed, SseTypeOK
<1>7. ASSUME NEW d \in Streams \ {c}, Displaced(d) PROVE Displaced(d)'
  BY <1>1, <1>2, <1>7, DisplacedStays DEF SseTypeOK, Gone
<1>8. ServedAreHeld'
  BY <1>1, <1>2, <1>7 DEF ServedAreHeld, Registered, SseTypeOK
<1>9. AudienceServed'
  <2>1. ASSUME NEW m \in Begun, NEW d \in audience[m]
        PROVE  d \in Streams \ {c} /\ stream'[d] \in Gone
    BY <1>1, <1>2 DEF AudienceServed, Gone, SseTypeOK
  <2>2. Begun' = Begun
    BY <1>2 DEF Begun
  <2> QED
    BY <1>1, <1>2, <1>7, <2>1, <2>2 DEF AudienceServed, Reached
<1> QED
  BY <1>4, <1>5, <1>6, <1>8, <1>9 DEF SseInv

LEMMA RegisterStep == ASSUME SseInv, NEW c \in Streams, Register(c) PROVE SseInv'
<1>1. /\ SseTypeOK /\ SseShape /\ HubHoldsServed /\ SendsToServed /\ ServedAreHeld
      /\ AudienceServed
  BY DEF SseInv
<1>2. /\ stream[c] = "named" /\ stream' = [stream EXCEPT ![c] = "served"]
      /\ hub' = [n \in DOMAIN hub \cup {id[c]} |-> IF n = id[c] THEN c ELSE hub[n]]
      /\ UNCHANGED <<id, channel, received, sending, audience, overflowed>>
  BY DEF Register, StepTo
<1>3. \A n \in DOMAIN hub : hub[n] \in Streams \ {c}
  BY <1>1, <1>2 DEF SseTypeOK, HubHoldsServed
<1>4. SseTypeOK'
  BY <1>1, <1>2 DEF SseTypeOK, Begun
<1>5. SseShape'
  BY <1>1, <1>2 DEF SseShape, Begun
<1>6. HubHoldsServed' /\ SendsToServed'
  BY <1>1, <1>2, <1>3 DEF HubHoldsServed, SendsToServed, SseTypeOK
<1>7. ASSUME NEW d \in Streams, Displaced(d) PROVE Displaced(d)'
  BY <1>1, <1>2, <1>7, DisplacedStays DEF SseTypeOK, Gone
<1>8. ServedAreHeld'
  <2> SUFFICES ASSUME NEW d \in Streams, stream'[d] = "served", ~Registered(d)'
               PROVE  Displaced(d)'
    BY DEF ServedAreHeld
  <2>1. d # c
    BY <1>2 DEF Registered
  <2>2. stream[d] = "served"
    BY <1>1, <1>2, <2>1 DEF SseTypeOK
  <2>3. CASE Registered(d)
    <3>1. PICK n \in DOMAIN hub : hub[n] = d
      BY <2>3 DEF Registered
    <3>2. n = id[c] /\ n = id[d]
      BY <1>1, <1>2, <3>1 DEF Registered, SseTypeOK
    <3>3. stream'[c] = "served" /\ id'[c] = id'[d]
      BY <1>1, <1>2, <3>2 DEF SseTypeOK
    <3> QED
      BY <2>1, <3>3 DEF Displaced
  <2>4. CASE ~Registered(d)
    BY <1>1, <1>7, <2>2, <2>4 DEF ServedAreHeld
  <2> QED
    BY <2>3, <2>4
<1>9. AudienceServed'
  <2>1. ASSUME NEW m \in Begun, NEW d \in audience[m]
        PROVE  d \in Streams /\ stream'[d] \in Gone
    BY <1>1, <1>2 DEF AudienceServed, Gone, SseTypeOK
  <2>2. Begun' = Begun
    BY <1>2 DEF Begun
  <2> QED
    BY <1>1, <1>2, <1>7, <2>1, <2>2 DEF AudienceServed, Reached
<1> QED
  BY <1>4, <1>5, <1>6, <1>8, <1>9 DEF SseInv

LEMMA FlushStep == ASSUME SseInv, NEW c \in Streams, Flush(c) PROVE SseInv'
<1>1. /\ SseTypeOK /\ SseShape /\ HubHoldsServed /\ SendsToServed /\ ServedAreHeld
      /\ AudienceServed
  BY DEF SseInv
<1>2. /\ channel[c] # <<>>
      /\ received' = [received EXCEPT ![c] = @ \cup {Head(channel[c])}]
      /\ channel' = [channel EXCEPT ![c] = Tail(@)]
      /\ UNCHANGED <<hub, stream, id, sending, audience, overflowed>>
  BY DEF Flush
<1>3. /\ channel[c] \in Seq(Events)
      /\ ToSet(channel[c]) = {Head(channel[c])} \cup ToSet(Tail(channel[c]))
  BY <1>1, <1>2, ToSetHeadTail DEF SseShape
<1>4. /\ Head(channel[c]) \in Events /\ Tail(channel[c]) \in Seq(Events)
      /\ Len(Tail(channel[c])) <= Len(channel[c])
      /\ Len(channel[c]) \in Nat /\ Len(Tail(channel[c])) \in Nat
  BY <1>2, <1>3
<1>5. ASSUME NEW d \in Streams
      PROVE  /\ ToSet(channel'[d]) \cup received'[d] = ToSet(channel[d]) \cup received[d]
             /\ Len(channel[d]) <= StreamBuffer => Len(channel'[d]) <= StreamBuffer
  <2>1. CASE d = c
    <3>1. channel'[d] = Tail(channel[c]) /\ received'[d] = received[c] \cup {Head(channel[c])}
      BY <1>1, <1>2, <2>1 DEF SseShape
    <3> QED
      BY <1>3, <1>4, <2>1, <3>1, SseAssumption
  <2>2. CASE d # c
    BY <1>1, <1>2, <2>2 DEF SseShape
  <2> QED
    BY <2>1, <2>2
<1>6. SseTypeOK'
  BY <1>1, <1>2, <1>5 DEF SseTypeOK, Begun
<1>7. SseShape'
  BY <1>1, <1>2, <1>4 DEF SseShape, Begun
<1>8. HubHoldsServed' /\ SendsToServed'
  BY <1>1, <1>2 DEF HubHoldsServed, SendsToServed
<1>9. \A d \in Streams : Displaced(d)' = Displaced(d)
  BY <1>2 DEF Displaced
<1>10. ServedAreHeld'
  BY <1>1, <1>2, <1>9 DEF ServedAreHeld, Registered
<1>11. AudienceServed'
  <2>1. Begun' = Begun
    BY <1>2 DEF Begun
  <2>2. \A m \in Begun, d \in Streams : Reached(m, d) => Reached(m, d)'
    BY <1>2, <1>5 DEF Reached
  <2> QED
    BY <1>1, <1>2, <1>9, <2>1, <2>2 DEF AudienceServed
<1> QED
  BY <1>6, <1>7, <1>8, <1>10, <1>11 DEF SseInv

LEMMA LeaveStep ==
  ASSUME SseInv, NEW c \in Streams, Unregister(c) \/ CloseChannel(c) PROVE SseInv'
<1>1. /\ SseTypeOK /\ SseShape /\ HubHoldsServed /\ SendsToServed /\ ServedAreHeld
      /\ AudienceServed
  BY DEF SseInv
<1>2. /\ stream[c] \in Gone /\ stream'[c] \in Gone /\ stream'[c] # "served"
      /\ stream' = [stream EXCEPT ![c] = stream'[c]]
      /\ DOMAIN hub' = IF stream[c] = "served" THEN DOMAIN hub \ {id[c]}
                       ELSE DOMAIN hub
      /\ \A n \in DOMAIN hub' : hub'[n] = hub[n]
      /\ UNCHANGED <<id, channel, received, sending, audience, overflowed>>
  <2>1. CASE Unregister(c)
    BY <1>1, <2>1 DEF Unregister, StepTo, SseTypeOK, Gone
  <2>2. CASE CloseChannel(c)
    BY <1>1, <2>2 DEF CloseChannel, StepTo, SseTypeOK, Gone
  <2> QED
    BY <2>1, <2>2
<1>3. \A m \in Events : c \notin sending[m]
  <2>1. CASE Unregister(c)
    BY <1>1, <2>1 DEF Unregister, Unlocked, SseShape
  <2>2. CASE CloseChannel(c)
    BY <1>1, <2>2 DEF CloseChannel, StepTo, SendsToServed
  <2> QED
    BY <2>1, <2>2
<1>4. \A n \in DOMAIN hub' : hub'[n] \in Streams \ {c}
  <2>1. ASSUME NEW n \in DOMAIN hub' PROVE hub'[n] \in Streams \ {c}
    <3>1. /\ n \in DOMAIN hub /\ hub'[n] = hub[n] /\ hub[n] \in Streams
          /\ id[hub[n]] = n /\ stream[hub[n]] = "served"
      BY <1>1, <1>2 DEF SseTypeOK, HubHoldsServed
    <3>2. CASE stream[c] = "served"
      BY <1>2, <3>1, <3>2
    <3>3. CASE stream[c] # "served"
      BY <3>1, <3>3
    <3> QED
      BY <3>2, <3>3
  <2> QED
    BY <2>1
<1>5. SseTypeOK'
  <2>1. \A n \in DOMAIN hub' : hub'[n] \in Streams /\ id'[hub'[n]] = n
    <3>1. \A n \in DOMAIN hub' : n \in DOMAIN hub /\ hub'[n] = hub[n]
      BY <1>2
    <3> QED
      BY <1>1, <1>2, <3>1 DEF SseTypeOK
  <2>2. stream' \in [Streams -> {"new", "named", "served", "removed", "closed"}]
    BY <1>1, <1>2 DEF SseTypeOK, Gone
  <2> QED
    BY <1>1, <1>2, <2>1, <2>2 DEF SseTypeOK, Begun
<1>6. SseShape'
  BY <1>1, <1>2 DEF SseShape, Begun
<1>7. HubHoldsServed' /\ SendsToServed'
  <2>1. \A d \in Streams \ {c} : stream'[d] = stream[d]
    BY <1>1, <1>2 DEF SseTypeOK
  <2>2. \A n \in DOMAIN hub' : n \in DOMAIN hub /\ hub'[n] = hub[n]
    BY <1>2
  <2>3. HubHoldsServed'
    BY <1>1, <1>4, <2>1, <2>2 DEF HubHoldsServed
  <2>4. SendsToServed'
    BY <1>1, <1>2, <1>3, <2>1 DEF SendsToServed
  <2> QED
    BY <2>3, <2>4
<1>8. ASSUME NEW d \in Streams, Displaced(d) PROVE Displaced(d)'
  BY <1>1, <1>2, <1>8, DisplacedStays DEF SseTypeOK, Gone
<1>9. ServedAreHeld'
  <2> SUFFICES ASSUME NEW d \in Streams, stream'[d] = "served", ~Registered(d)'
               PROVE  Displaced(d)'
    BY DEF ServedAreHeld
  <2>1. d # c /\ stream[d] = "served"
    BY <1>1, <1>2 DEF SseTypeOK
  <2>2. CASE Registered(d)
    <3>1. PICK n \in DOMAIN hub : hub[n] = d
      BY <2>2 DEF Registered
    <3>2. n = id[d] /\ n \notin DOMAIN hub'
      BY <1>1, <1>2, <3>1 DEF Registered, SseTypeOK
    <3>3. id'[c] = id'[d] /\ stream'[c] \in Gone
      BY <1>2, <3>1, <3>2
    <3> QED
      BY <2>1, <3>3 DEF Displaced, Gone
  <2>3. CASE ~Registered(d)
    BY <1>1, <1>8, <2>1, <2>3 DEF ServedAreHeld
  <2> QED
    BY <2>2, <2>3
<1>10. AudienceServed'
  <2>1. ASSUME NEW m \in Begun, NEW d \in audience[m]
        PROVE  d \in Streams /\ stream'[d] \in Gone
    BY <1>1, <1>2 DEF AudienceServed, Gone, SseTypeOK
  <2>2. Begun' = Begun
    BY <1>2 DEF Begun
  <2> QED
    BY <1>1, <1>2, <1>8, <2>1, <2>2 DEF AudienceServed, Reached
<1> QED
  BY <1>5, <1>6, <1>7, <1>9, <1>10 DEF SseInv

LEMMA BeginStep == ASSUME SseInv, NEW m \in Events, Begin(m) PROVE SseInv'
<1>1. /\ SseTypeOK /\ SseShape /\ HubHoldsServed /\ SendsToServed /\ ServedAreHeld
      /\ AudienceServed
  BY DEF SseInv
<1>2. /\ m \notin Begun /\ Begun' = Begun \cup {m}
      /\ sending' = [sending EXCEPT ![m] = {hub[n] : n \in DOMAIN hub}]
      /\ audience'[m] = {c \in Streams : stream[c] = "served"}
      /\ \A e \in Begun : audience'[e] = audience[e]
      /\ UNCHANGED <<hub, stream, id, channel, received, overflowed>>
  BY DEF Begin, Begun
<1>3. {hub[n] : n \in DOMAIN hub} \subseteq {c \in Streams : stream[c] = "served"}
  BY <1>1 DEF SseTypeOK, HubHoldsServed
<1>4. SseTypeOK'
  BY <1>1, <1>2, <1>3 DEF SseTypeOK, SseShape
<1>5. SseShape'
  BY <1>1, <1>2, <1>3 DEF SseShape
<1>6. HubHoldsServed' /\ SendsToServed'
  BY <1>1, <1>2, <1>3 DEF HubHoldsServed, SendsToServed, SseShape
<1>7. \A d \in Streams : /\ Displaced(d) => Displaced(d)'
                         /\ Registered(d)' = Registered(d)
  BY <1>2 DEF Displaced, Registered
<1>8. ServedAreHeld'
  BY <1>1, <1>2, <1>7 DEF ServedAreHeld
<1>9. AudienceServed'
  <2>1. ASSUME NEW c \in audience'[m]
        PROVE  /\ c \in Streams /\ stream'[c] \in Gone
               /\ c \in sending'[m] \/ Displaced(c)'
    <3>1. c \in Streams /\ stream[c] = "served"
      BY <1>2, <2>1
    <3>2. CASE Registered(c)
      BY <1>1, <1>2, <3>1, <3>2 DEF Registered, SseShape, Gone
    <3>3. CASE ~Registered(c)
      BY <1>1, <1>2, <1>7, <3>1, <3>3 DEF ServedAreHeld, Gone
    <3> QED
      BY <3>2, <3>3
  <2>2. ASSUME NEW e \in Begun, NEW c \in audience'[e]
        PROVE  /\ c \in Streams /\ stream'[c] \in Gone
               /\ c \in sending'[e] \/ Reached(e, c)' \/ Displaced(c)'
    <3>1. /\ c \in Streams /\ stream'[c] \in Gone
          /\ c \in sending[e] \/ Reached(e, c) \/ Displaced(c)
      BY <1>1, <1>2, <2>2 DEF AudienceServed
    <3>2. sending'[e] = sending[e]
      BY <1>1, <1>2 DEF SseShape, SseTypeOK
    <3>3. Reached(e, c)' = Reached(e, c)
      BY <1>2 DEF Reached
    <3> QED
      BY <1>7, <3>1, <3>2, <3>3
  <2> QED
    BY <1>2, <2>1, <2>2 DEF AudienceServed
<1> QED
  BY <1>4, <1>5, <1>6, <1>8, <1>9 DEF SseInv

LEMMA SendStep ==
  ASSUME SseInv, NEW m \in Events, NEW c \in Streams, Send(m, c) PROVE SseInv'
<1>1. /\ SseTypeOK /\ SseShape /\ HubHoldsServed /\ SendsToServed /\ ServedAreHeld
      /\ AudienceServed
  BY DEF SseInv
<1>2. /\ c \in sending[m] /\ m \in Begun
      /\ sending' = [sending EXCEPT ![m] = @ \ {c}]
      /\ UNCHANGED <<hub, stream, id, received, audience>> /\ Begun' = Begun
  BY <1>1 DEF Send, Begun, SseShape
<1>3. channel[c] \in Seq(Events) /\ Len(channel[c]) \in Nat
  BY <1>1 DEF SseShape
<1>4. \/ /\ Len(channel[c]) < StreamBuffer
         /\ channel' = [channel EXCEPT ![c] = Append(@, m)]
         /\ UNCHANGED overflowed
      \/ /\ overflowed' = [overflowed EXCEPT ![c] = @ \cup {m}]
         /\ UNCHANGED channel
  BY DEF Send
<1>5. /\ channel' \in [Streams -> Seq(Events)]
      /\ overflowed' \in [Streams -> SUBSET Events]
      /\ \A d \in Streams : Len(channel'[d]) <= StreamBuffer
      /\ \A d \in Streams \ {c} :
           channel'[d] = channel[d] /\ overflowed'[d] = overflowed[d]
      /\ ToSet(channel'[c]) \cup overflowed'[c] =
           ToSet(channel[c]) \cup overflowed[c] \cup {m}
  <2>1. CASE /\ Len(channel[c]) < StreamBuffer
             /\ channel' = [channel EXCEPT ![c] = Append(@, m)]
             /\ UNCHANGED overflowed
    <3>1. /\ Append(channel[c], m) \in Seq(Events)
          /\ Len(Append(channel[c], m)) <= StreamBuffer
          /\ ToSet(Append(channel[c], m)) = ToSet(channel[c]) \cup {m}
      BY <1>3, <2>1, SseAssumption, ToSetAppend
    <3> QED
      BY <1>1, <2>1, <3>1 DEF SseShape, SseTypeOK
  <2>2. CASE /\ overflowed' = [overflowed EXCEPT ![c] = @ \cup {m}]
             /\ UNCHANGED channel
    BY <1>1, <2>2 DEF SseShape, SseTypeOK
  <2> QED
    BY <1>4, <2>1, <2>2
<1>6. SseTypeOK'
  <2>1. \A d \in Streams :
          ToSet(channel'[d]) \cup received'[d] \cup overflowed'[d] \subseteq Begun
    <3>1. \A d \in Streams :
            ToSet(channel[d]) \cup received[d] \cup overflowed[d] \subseteq Begun
      BY <1>1 DEF SseTypeOK
    <3>2. ToSet(channel'[c]) \cup received'[c] \cup overflowed'[c] \subseteq Begun
      BY <1>2, <1>5, <3>1
    <3> QED
      BY <1>2, <1>5, <3>1, <3>2
  <2>2. \A e \in Events : sending'[e] \subseteq Streams
    BY <1>1, <1>2 DEF SseTypeOK, SseShape
  <2> QED
    BY <1>1, <1>2, <1>5, <2>1, <2>2 DEF SseTypeOK
<1>7. SseShape'
  BY <1>1, <1>2, <1>5 DEF SseShape
<1>8. HubHoldsServed' /\ SendsToServed'
  BY <1>1, <1>2 DEF HubHoldsServed, SendsToServed, SseShape
<1>9. \A d \in Streams : /\ Displaced(d) => Displaced(d)'
                         /\ Registered(d)' = Registered(d)
  BY <1>2 DEF Displaced, Registered
<1>10. ServedAreHeld'
  BY <1>1, <1>2, <1>9 DEF ServedAreHeld
<1>11. AudienceServed'
  <2>1. ASSUME NEW e \in Begun, NEW d \in audience[e]
        PROVE  /\ d \in Streams /\ stream'[d] \in Gone
               /\ d \in sending'[e] \/ Reached(e, d)' \/ Displaced(d)'
    <3>1. /\ d \in Streams /\ stream'[d] \in Gone
          /\ d \in sending[e] \/ Reached(e, d) \/ Displaced(d)
      BY <1>1, <1>2, <2>1 DEF AudienceServed
    <3>2. Reached(e, d) => Reached(e, d)'
      BY <1>2, <1>5, <3>1 DEF Reached
    <3>3. d \in sending[e] => d \in sending'[e] \/ Reached(e, d)'
      BY <1>1, <1>2, <1>5, <3>1 DEF Reached, SseShape
    <3> QED
      BY <1>9, <3>1, <3>2, <3>3
  <2> QED
    BY <1>2, <2>1 DEF AudienceServed
<1> QED
  BY <1>6, <1>7, <1>8, <1>10, <1>11 DEF SseInv

LEMMA SseStep == ASSUME SseInv, [SseNext]_sseVars PROVE SseInv'
<1>1. CASE SseNext
  BY <1>1, NameStep, RegisterStep, FlushStep, LeaveStep, BeginStep, SendStep
     DEF SseNext
<1>2. CASE UNCHANGED sseVars
  BY <1>2 DEF sseVars, SseInv, SseTypeOK, SseShape, Begun, HubHoldsServed,
     SendsToServed, ServedAreHeld, AudienceServed, Reached, Registered, Displaced
<1> QED
  BY <1>1, <1>2

LEMMA SseInvariance == SseSpec => []SseInv
BY SseStart, SseStep, PTL DEF SseSpec

LEMMA SseExplained == SseInv => SseMissesAreExplained
<1> SUFFICES ASSUME SseInv PROVE SseMissesAreExplained
  OBVIOUS
<1>1. \A m \in Events, c \in Streams : c \in sending[m] => stream[c] # "closed"
  BY DEF SseInv, SendsToServed
<1>2. \A c \in Streams : stream[c] = "served" /\ ~Registered(c) => Displaced(c)
  BY DEF SseInv, ServedAreHeld
<1>3. \A m \in Begun : sending[m] = {} =>
        \A c \in audience[m] : Reached(m, c) \/ Displaced(c)
  BY DEF SseInv, AudienceServed
<1> QED
  BY <1>1, <1>2, <1>3 DEF SseMissesAreExplained, Reached

(* With any connections and buffers, a connection that a finished          *)
(* broadcast found served has the event, or its buffer was full, or a      *)
(* later connection took its id; nothing is sent to a closed channel; and  *)
(* who is served is registered unless displaced so.                        *)
THEOREM SseTheorem == SseSpec => []SseMissesAreExplained
BY SseInvariance, SseExplained, PTL

-----------------------------------------------------------------------------
(* The figures of the pages.                                               *)

Counts(table, c) == [ip \in DOMAIN table |-> table[ip][c]]

Views ==
  [kind : Readers, at : {"start", "between", "shown"}, whole : Nat, part : Nat,
   grew : Nat, blind : BOOLEAN]

FiguresOK ==
  /\ IsFiniteSet(DOMAIN requestStats) /\ IsFiniteSet(DOMAIN incidents)
  /\ \A ip \in DOMAIN requestStats :
       requestStats[ip].blocked_count <= requestStats[ip].request_count
  /\ rawEvents \in [passed : Nat, blocked : Nat]
  /\ view \in Views

(* What a reader has seen of its whole, and what was added since, is all   *)
(* there is.                                                               *)
SeesWhole ==
  view.at = "between" =>
    /\ view.part = 0
    /\ view.blind \/ Whole[view.kind] <= view.whole + view.grew

OverviewInv == OverviewTypeOK /\ FiguresOK /\ SeesWhole /\ PartWithinWhole

LEMMA ColumnIs ==
  ASSUME NEW table, NEW c
  PROVE  Column(table, c) = SumFunctionOnSet(Counts(table, c), DOMAIN table)
BY DEF Column, Counts, SumFunction, SumFunctionOnSet, FoldFunction,
   FoldFunctionOnSet

LEMMA CountsAre ==
  ASSUME OverviewTypeOK, FiguresOK
  PROVE  \A ip \in DOMAIN requestStats :
           /\ Counts(requestStats, "request_count")[ip] = requestStats[ip].request_count
           /\ Counts(requestStats, "blocked_count")[ip] = requestStats[ip].blocked_count
           /\ requestStats[ip].request_count \in Nat
           /\ requestStats[ip].blocked_count \in Nat
           /\ requestStats[ip].blocked_count <= requestStats[ip].request_count
BY DEF Counts, OverviewTypeOK, FiguresOK

(* A part is within its whole when both are read in one state.             *)
LEMMA PartsWithinWholes ==
  ASSUME OverviewTypeOK, FiguresOK, NEW kind \in Readers
  PROVE  /\ Whole[kind] \in Nat /\ Part[kind] \in Nat
         /\ Part[kind] <= Whole[kind]
<1>1. CASE kind = "dashboard"
  <2> DEFINE all == Counts(requestStats, "request_count")
             blocked == Counts(requestStats, "blocked_count")
             nothing == [ip \in {} |-> 0]
             clients == DOMAIN requestStats
  <2>1. /\ IsFiniteSet(clients)
        /\ \A ip \in clients : all[ip] \in Nat /\ blocked[ip] \in Nat
        /\ \A ip \in clients : blocked[ip] \in Nat /\ blocked[ip] <= all[ip]
        /\ \A ip \in {} : nothing[ip] \in Nat /\ nothing[ip] <= all[ip]
        /\ \A ip \in {} : nothing[ip] \in Nat /\ nothing[ip] <= blocked[ip]
    BY CountsAre DEF FiguresOK
  <2>2. /\ Whole[kind] = SumFunctionOnSet(all, clients)
        /\ Part[kind] = SumFunctionOnSet(blocked, clients)
    BY <1>1, ColumnIs DEF Whole, Part
  <2> HIDE DEF all, blocked, nothing, clients
  <2>3. /\ SumFunctionOnSet(all, clients) \in Int
        /\ SumFunctionOnSet(blocked, clients) \in Int
    BY <2>1, SumType
  <2>4. {} \in SUBSET clients /\ clients \in SUBSET clients
    OBVIOUS
  <2>5. SumFunctionOnSet(blocked, clients) <= SumFunctionOnSet(all, clients)
    BY <2>1, <2>4, SumMonotone
  <2>6. SumFunctionOnSet(nothing, {}) <= SumFunctionOnSet(blocked, clients)
    BY <2>1, <2>4, SumMonotone
  <2>7. SumFunctionOnSet(nothing, {}) = 0
    BY SumEmpty
  <2> QED
    BY <2>2, <2>3, <2>5, <2>6, <2>7
<1>2. CASE kind = "siem"
  <2> DEFINE all == DOMAIN incidents
             open == DOMAIN incidents \ Acknowledged
  <2>1. IsFiniteSet(all) /\ open \subseteq all
    BY DEF FiguresOK
  <2>2. Whole[kind] = Cardinality(all) /\ Part[kind] = Cardinality(open)
    BY <1>2 DEF Whole, Part
  <2> HIDE DEF all, open
  <2>3. IsFiniteSet(open) /\ Cardinality(open) <= Cardinality(all)
    BY <2>1, FS_Subset
  <2> QED
    BY <2>1, <2>2, <2>3, FS_CardinalityType
<1>3. CASE kind = "events"
  BY <1>3 DEF Whole, Part, FiguresOK
<1> QED
  BY <1>1, <1>2, <1>3 DEF Readers

LEMMA WholesAreNumbers ==
  OverviewTypeOK /\ FiguresOK => \A k \in Readers : Whole[k] \in Nat
BY PartsWithinWholes

(* Whatever the wholes do while nothing moves the reader but `Grow', it    *)
(* still sees them.                                                        *)
LEMMA GrowKeepsView ==
  ASSUME OverviewInv, NEW kind \in Readers, NEW n \in Nat, Grow(kind, n),
         OverviewTypeOK', FiguresOK',
         Whole'[kind] <= Whole[kind] + n,
         \A k \in Readers \ {kind} : Whole'[k] = Whole[k]
  PROVE  OverviewInv'
<1>1. OverviewTypeOK /\ FiguresOK /\ SeesWhole /\ PartWithinWhole /\ view \in Views
  BY DEF OverviewInv, FiguresOK
<1>2. view' = IF view.kind = kind /\ view.at = "between"
              THEN [view EXCEPT !.grew = @ + n] ELSE view
  BY DEF Grow
<1>3. /\ view'.kind = view.kind /\ view'.at = view.at /\ view'.whole = view.whole
      /\ view'.part = view.part /\ view'.blind = view.blind
      /\ view'.grew = IF view.kind = kind /\ view.at = "between"
                      THEN view.grew + n ELSE view.grew
  BY <1>1, <1>2 DEF Views
<1>4. view.whole \in Nat /\ view.grew \in Nat /\ view.kind \in Readers
  BY <1>1 DEF Views
<1>5. Whole[view.kind] \in Nat /\ Whole'[view.kind] \in Nat
  <2>1. Whole[view.kind] \in Nat
    BY <1>1, <1>4, PartsWithinWholes
  <2>2. (OverviewTypeOK /\ FiguresOK => \A k \in Readers : Whole[k] \in Nat)'
    BY WholesAreNumbers, PTL
  <2> QED
    BY <1>4, <2>1, <2>2
<1>6. SeesWhole'
  BY <1>1, <1>3, <1>4, <1>5 DEF SeesWhole
<1>7. PartWithinWhole'
  BY <1>1, <1>3 DEF PartWithinWhole
<1> QED
  BY <1>6, <1>7 DEF OverviewInv

LEMMA RecordStep ==
  ASSUME OverviewInv, NEW ip \in Visitors, NEW blocked \in 0 .. 1,
         RecordRequest(ip, blocked)
  PROVE  OverviewInv'
<1> DEFINE clients == DOMAIN requestStats
           all == Counts(requestStats, "request_count")
           later == Counts(requestStats, "request_count")'
           rest == clients \ {ip}
<1>1. OverviewTypeOK /\ FiguresOK /\ view \in Views /\ IsFiniteSet(clients)
  BY DEF OverviewInv, FiguresOK
<1>2. /\ DOMAIN requestStats' = clients \cup {ip}
      /\ requestStats'[ip] = Upserted(ip, blocked)
      /\ \A j \in rest : requestStats'[j] = requestStats[j]
      /\ Grow("dashboard", 1)
      /\ UNCHANGED <<incidents, rawEvents>>
  BY DEF RecordRequest
<1>3. /\ Upserted(ip, blocked).request_count =
           (IF ip \in clients THEN requestStats[ip].request_count ELSE 0) + 1
      /\ Upserted(ip, blocked).blocked_count =
           (IF ip \in clients THEN requestStats[ip].blocked_count ELSE 0) + blocked
  BY DEF Upserted, Count
<1>4. \A j \in clients : /\ requestStats[j].request_count \in Nat
                         /\ requestStats[j].blocked_count \in Nat
                         /\ requestStats[j].blocked_count <= requestStats[j].request_count
  BY <1>1, CountsAre
<1>5. /\ Upserted(ip, blocked).request_count \in Nat
      /\ Upserted(ip, blocked).blocked_count \in Nat
      /\ Upserted(ip, blocked).blocked_count <= Upserted(ip, blocked).request_count
  <2>1. CASE ip \in clients
    BY <1>3, <1>4, <2>1
  <2>2. CASE ip \notin clients
    BY <1>3, <2>2
  <2> QED
    BY <2>1, <2>2
<1>6. \A j \in DOMAIN requestStats' :
        /\ requestStats'[j].request_count \in Nat
        /\ requestStats'[j].blocked_count \in Nat
        /\ requestStats'[j].blocked_count <= requestStats'[j].request_count
  BY <1>2, <1>4, <1>5
<1>7. view' \in Views
  BY <1>1, <1>2 DEF Grow, Views
<1>8. OverviewTypeOK'
  BY <1>1, <1>2, <1>6, <1>7 DEF OverviewTypeOK, Views
<1>9. FiguresOK'
  <2>1. IsFiniteSet(clients \cup {ip})
    BY <1>1, FS_AddElement
  <2> QED
    BY <1>1, <1>2, <1>6, <1>7, <2>1 DEF FiguresOK
<1>10. /\ \A j \in clients : all[j] = requestStats[j].request_count /\ all[j] \in Nat
       /\ \A j \in clients \cup {ip} :
            later[j] = requestStats'[j].request_count /\ later[j] \in Nat
  BY <1>2, <1>4, <1>6 DEF Counts
<1>11. /\ Whole["dashboard"] = SumFunctionOnSet(all, clients)
       /\ Whole'["dashboard"] = SumFunctionOnSet(later, clients \cup {ip})
  <2>1. Column(requestStats', "request_count") =
          SumFunctionOnSet(later, DOMAIN requestStats')
    BY ColumnIs DEF Counts
  <2> QED
    BY <1>2, <2>1, ColumnIs DEF Whole
<1>12. SumFunctionOnSet(later, clients \cup {ip}) <= SumFunctionOnSet(all, clients) + 1
  <2>1. later[ip] = (IF ip \in clients THEN all[ip] ELSE 0) + 1
    BY <1>2, <1>3, <1>10
  <2>2. \A j \in rest : later[j] = all[j]
    BY <1>2, <1>10
  <2>3. /\ clients \in SUBSET clients /\ rest \in SUBSET clients
        /\ (clients \cup {ip}) \ {ip} = rest /\ ip \in clients \cup {ip}
        /\ ip \notin clients => rest = clients
    OBVIOUS
  <2> HIDE DEF clients, all, later, rest
  <2>4. /\ IsFiniteSet(clients \cup {ip}) /\ IsFiniteSet(rest)
    BY <1>1, <2>3, FS_AddElement, FS_Subset
  <2>5. SumFunctionOnSet(later, clients \cup {ip}) =
          later[ip] + SumFunctionOnSet(later, rest)
    BY <1>10, <2>3, <2>4, SumRemove
  <2>6. SumFunctionOnSet(later, rest) <= SumFunctionOnSet(all, rest)
    <3>1. /\ \A j \in rest : all[j] \in Nat
          /\ \A j \in rest : later[j] \in Nat /\ later[j] <= all[j]
          /\ rest \in SUBSET rest
      BY <1>10, <2>2, <2>3
    <3> QED
      BY <2>4, <3>1, SumMonotone
  <2>7. /\ SumFunctionOnSet(later, rest) \in Int
        /\ SumFunctionOnSet(all, rest) \in Int
        /\ SumFunctionOnSet(all, clients) \in Int
    <3>1. /\ \A j \in rest : all[j] \in Int /\ later[j] \in Int
          /\ \A j \in clients : all[j] \in Int
      BY <1>10, <2>3
    <3> QED
      BY <1>1, <2>4, <3>1, SumType
  <2>8. CASE ip \in clients
    <3>1. SumFunctionOnSet(all, clients) = all[ip] + SumFunctionOnSet(all, rest)
      BY <1>1, <1>10, <2>8, SumRemove DEF rest
    <3>2. later[ip] = all[ip] + 1 /\ all[ip] \in Nat
      BY <1>10, <2>1, <2>8
    <3> QED
      BY <2>5, <2>6, <2>7, <3>1, <3>2
  <2>9. CASE ip \notin clients
    <3>1. later[ip] = 1 /\ rest = clients
      BY <2>1, <2>3, <2>9
    <3> QED
      BY <2>5, <2>6, <2>7, <3>1
  <2> QED
    BY <2>8, <2>9
<1>13. /\ Whole'["siem"] = Whole["siem"] /\ Whole'["events"] = Whole["events"]
  BY <1>2 DEF Whole
<1>14. Whole'["dashboard"] <= Whole["dashboard"] + 1
  BY <1>11, <1>12
<1> QED
  BY <1>2, <1>8, <1>9, <1>13, <1>14, GrowKeepsView DEF Readers

LEMMA IncidentSteps ==
  ASSUME OverviewInv, NEW i \in Reports,
         CreateIncident(i) \/ AcknowledgeIncident(i) \/ AckSIEMAlert(i)
  PROVE  OverviewInv'
<1>1. /\ OverviewTypeOK /\ FiguresOK /\ view \in Views
      /\ IsFiniteSet(DOMAIN incidents)
      /\ \A j \in DOMAIN incidents : incidents[j] \in {"nobody", "api", "siem"}
  BY DEF OverviewInv, OverviewTypeOK, FiguresOK, Range
<1>2. CASE CreateIncident(i)
  <2>1. /\ i \notin DOMAIN incidents
        /\ DOMAIN incidents' = DOMAIN incidents \cup {i}
        /\ incidents'[i] = "nobody"
        /\ \A j \in DOMAIN incidents : incidents'[j] = incidents[j]
        /\ Grow("siem", 1) /\ UNCHANGED <<requestStats, rawEvents>>
    BY <1>2 DEF CreateIncident
  <2>2. view' \in Views
    BY <1>1, <2>1 DEF Grow, Views
  <2>3. Range(incidents') \subseteq {"nobody", "api", "siem"}
    BY <1>1, <2>1 DEF Range
  <2>4. OverviewTypeOK'
    BY <1>1, <2>1, <2>2, <2>3 DEF OverviewTypeOK, Views
  <2>5. /\ IsFiniteSet(DOMAIN incidents \cup {i})
        /\ Cardinality(DOMAIN incidents \cup {i}) = Cardinality(DOMAIN incidents) + 1
    BY <1>1, <2>1, FS_AddElement
  <2>6. FiguresOK'
    BY <1>1, <2>1, <2>2, <2>5 DEF FiguresOK
  <2>7. Cardinality(DOMAIN incidents) \in Nat
    BY <1>1, FS_CardinalityType
  <2>8. /\ Whole'["siem"] <= Whole["siem"] + 1
        /\ Whole'["dashboard"] = Whole["dashboard"] /\ Whole'["events"] = Whole["events"]
    BY <2>1, <2>5, <2>7 DEF Whole, Column
  <2> QED
    BY <2>1, <2>4, <2>6, <2>8, GrowKeepsView DEF Readers
<1>3. ASSUME NEW by \in {"api", "siem"}, Acknowledge(i, by)
      PROVE  OverviewInv'
  <2>1. /\ DOMAIN incidents' = DOMAIN incidents
        /\ \A j \in DOMAIN incidents :
             incidents'[j] = IF j = i THEN by ELSE incidents[j]
        /\ UNCHANGED <<requestStats, rawEvents, view>>
    BY <1>3 DEF Acknowledge
  <2>2. Range(incidents') \subseteq {"nobody", "api", "siem"}
    BY <1>1, <2>1 DEF Range
  <2>3. OverviewTypeOK' /\ FiguresOK'
    BY <1>1, <2>1, <2>2 DEF OverviewTypeOK, FiguresOK
  <2>4. Whole' = Whole
    BY <2>1 DEF Whole, Column
  <2>5. SeesWhole' /\ PartWithinWhole'
    BY <2>1, <2>4 DEF OverviewInv, SeesWhole, PartWithinWhole
  <2> QED
    BY <2>3, <2>5 DEF OverviewInv
<1> QED
  BY <1>2, <1>3 DEF AcknowledgeIncident, AckSIEMAlert

LEMMA EventSteps ==
  ASSUME OverviewInv,
         \/ \E passed, blocked \in 0 .. MaxCounted : CommitEvents(passed, blocked)
         \/ PruneEvents
  PROVE  OverviewInv'
<1>1. /\ OverviewTypeOK /\ FiguresOK /\ view \in Views /\ MaxCounted \in Nat
      /\ rawEvents \in [passed : Nat, blocked : Nat]
      /\ {rawEvents.passed, rawEvents.blocked} \subseteq 0 .. MaxCounted
  BY OverviewAssumption DEF OverviewInv, OverviewTypeOK, FiguresOK
<1>2. ASSUME NEW passed \in 0 .. MaxCounted, NEW blocked \in 0 .. MaxCounted,
             CommitEvents(passed, blocked)
      PROVE  OverviewInv'
  <2>1. /\ rawEvents.passed + rawEvents.blocked + passed + blocked <= MaxCounted
        /\ rawEvents' = [passed |-> rawEvents.passed + passed,
                         blocked |-> rawEvents.blocked + blocked]
        /\ Grow("events", passed + blocked)
        /\ UNCHANGED <<requestStats, incidents>>
    BY <1>2 DEF CommitEvents, Whole
  <2>2. view' \in Views
    BY <1>1, <2>1 DEF Grow, Views
  <2>3. /\ rawEvents' \in [passed : Nat, blocked : Nat]
        /\ {rawEvents'.passed, rawEvents'.blocked} \subseteq 0 .. MaxCounted
    BY <1>1, <2>1
  <2>4. OverviewTypeOK' /\ FiguresOK'
    BY <1>1, <2>1, <2>2, <2>3 DEF OverviewTypeOK, FiguresOK, Views
  <2>5. /\ Whole'["events"] <= Whole["events"] + (passed + blocked)
        /\ Whole'["dashboard"] = Whole["dashboard"] /\ Whole'["siem"] = Whole["siem"]
    BY <1>1, <2>1 DEF Whole, Column
  <2> QED
    BY <2>1, <2>4, <2>5, GrowKeepsView DEF Readers
<1>3. CASE PruneEvents
  <2>1. PICK passed \in 0 .. rawEvents.passed, blocked \in 0 .. rawEvents.blocked :
          rawEvents' = [passed |-> passed, blocked |-> blocked]
    BY <1>3 DEF PruneEvents
  <2>2. UNCHANGED <<requestStats, incidents, view>>
    BY <1>3 DEF PruneEvents
  <2>3. OverviewTypeOK' /\ FiguresOK'
    BY <1>1, <2>1, <2>2 DEF OverviewTypeOK, FiguresOK
  <2>4. \A k \in Readers : Whole'[k] = Whole[k] \/ (k = "events" /\ Whole'[k] <= Whole[k])
    BY <1>1, <2>1, <2>2 DEF Whole, Column, Readers
  <2>5. view.kind \in Readers /\ view.whole \in Nat /\ view.grew \in Nat
    BY <1>1 DEF Views
  <2>6. Whole[view.kind] \in Nat /\ Whole'[view.kind] \in Int
    <3>1. Whole[view.kind] \in Nat
      BY <1>1, <2>5, PartsWithinWholes
    <3>2. Whole'["events"] \in Int
      BY <1>1, <2>1 DEF Whole
    <3> QED
      BY <2>4, <2>5, <3>1, <3>2
  <2>7. SeesWhole'
    BY <2>2, <2>4, <2>5, <2>6 DEF OverviewInv, SeesWhole
  <2>8. PartWithinWhole'
    BY <2>2 DEF OverviewInv, PartWithinWhole
  <2> QED
    BY <2>3, <2>7, <2>8 DEF OverviewInv
<1> QED
  BY <1>2, <1>3

LEMMA ReaderSteps ==
  ASSUME OverviewInv,
         GetDashboardStats \/ GetSIEMStats \/ GetEventStats \/ ReadPart \/ ReadPartFails
  PROVE  OverviewInv'
<1>1. /\ OverviewTypeOK /\ FiguresOK /\ view \in Views
      /\ \A k \in Readers : Whole[k] \in Nat /\ Part[k] \in Nat /\ Part[k] <= Whole[k]
  BY PartsWithinWholes DEF OverviewInv, FiguresOK
<1>2. UNCHANGED <<requestStats, incidents, rawEvents>>
  BY DEF GetDashboardStats, GetSIEMStats, GetEventStats, ReadWhole, ReadWholeFails,
     ReadPart, ReadPartFails
<1>3. Whole' = Whole /\ Part' = Part
  BY <1>2 DEF Whole, Part, Column, Acknowledged
<1>4. SUFFICES /\ view' \in Views
               /\ SeesWhole' /\ PartWithinWhole'
  BY <1>1, <1>2 DEF OverviewInv, OverviewTypeOK, FiguresOK, Views
<1>5. ASSUME NEW kind \in Readers, ReadWhole(kind)
      PROVE  view' \in Views /\ SeesWhole' /\ PartWithinWhole'
  <2>1. view' = [kind |-> kind, at |-> "between", whole |-> Whole[kind], part |-> 0,
                 grew |-> 0, blind |-> FALSE]
    BY <1>5 DEF ReadWhole, NoView
  <2> QED
    BY <1>1, <1>3, <2>1 DEF Views, SeesWhole, PartWithinWhole
<1>6. ASSUME NEW kind \in Readers, ReadWholeFails(kind)
      PROVE  view' \in Views /\ SeesWhole' /\ PartWithinWhole'
  <2>1. view' = [kind |-> kind, at |-> "between", whole |-> 0, part |-> 0,
                 grew |-> 0, blind |-> TRUE]
    BY <1>6 DEF ReadWholeFails, NoView
  <2> QED
    BY <2>1 DEF Views, SeesWhole, PartWithinWhole
<1>7. view.kind \in Readers /\ view.whole \in Nat /\ view.grew \in Nat
  BY <1>1 DEF Views
<1>8. CASE ReadPart
  <2>1. /\ view.at = "between"
        /\ view' = [view EXCEPT !.at = "shown", !.part = Part[view.kind]]
    BY <1>8 DEF ReadPart
  <2>2. view' \in Views /\ view'.at = "shown"
        /\ view'.part = Part[view.kind] /\ view'.whole = view.whole
        /\ view'.grew = view.grew /\ view'.blind = view.blind
    BY <1>1, <1>7, <2>1 DEF Views
  <2>3. view.blind \/ Whole[view.kind] <= view.whole + view.grew
    BY <2>1 DEF OverviewInv, SeesWhole
  <2>4. /\ Whole[view.kind] \in Nat /\ Part[view.kind] \in Nat
        /\ Part[view.kind] <= Whole[view.kind]
    BY <1>1, <1>7
  <2> QED
    BY <1>7, <2>2, <2>3, <2>4 DEF SeesWhole, PartWithinWhole
<1>9. CASE ReadPartFails
  <2>1. CASE view.kind = "siem"
    BY <1>9, <2>1 DEF ReadPartFails, NoView, Views, Readers, SeesWhole, PartWithinWhole
  <2>2. CASE view.kind # "siem"
    <3>1. view.at = "between" /\ view' = [view EXCEPT !.at = "shown"]
      BY <1>9, <2>2 DEF ReadPartFails
    <3>2. view' \in Views /\ view'.at = "shown" /\ view'.part = view.part
          /\ view'.whole = view.whole /\ view'.grew = view.grew
      BY <1>1, <3>1 DEF Views
    <3>3. view.part = 0
      BY <3>1 DEF OverviewInv, SeesWhole
    <3> QED
      BY <1>7, <3>2, <3>3 DEF SeesWhole, PartWithinWhole
  <2> QED
    BY <2>1, <2>2
<1> QED
  BY <1>5, <1>6, <1>8, <1>9 DEF GetDashboardStats, GetSIEMStats, GetEventStats, Readers

LEMMA OverviewStep == ASSUME OverviewInv, [OverviewNext]_overviewVars PROVE OverviewInv'
<1>1. CASE OverviewNext
  BY <1>1, RecordStep, IncidentSteps, EventSteps, ReaderSteps DEF OverviewNext
<1>2. CASE UNCHANGED overviewVars
  <2>1. Whole' = Whole
    BY <1>2 DEF overviewVars, Whole, Column
  <2> QED
    BY <1>2, <2>1 DEF overviewVars, OverviewInv, OverviewTypeOK, FiguresOK, SeesWhole,
       PartWithinWhole
<1> QED
  BY <1>1, <1>2

LEMMA OverviewStart == OverviewInit => OverviewInv
<1> SUFFICES ASSUME OverviewInit PROVE OverviewInv
  OBVIOUS
<1>1. /\ DOMAIN requestStats = {} /\ DOMAIN incidents = {}
      /\ rawEvents = [passed |-> 0, blocked |-> 0]
      /\ view = [kind |-> "dashboard", at |-> "start", whole |-> 0, part |-> 0,
                 grew |-> 0, blind |-> FALSE]
  BY DEF OverviewInit, NoView
<1>2. Range(incidents) = {}
  BY <1>1 DEF Range
<1>3. OverviewTypeOK
  BY <1>1, <1>2, OverviewAssumption DEF OverviewTypeOK, Readers
<1>4. FiguresOK /\ SeesWhole /\ PartWithinWhole
  BY <1>1, FS_EmptySet DEF FiguresOK, SeesWhole, PartWithinWhole, Views, Readers
<1> QED
  BY <1>3, <1>4 DEF OverviewInv

LEMMA OverviewInvariance == OverviewSpec => []OverviewInv
BY OverviewStart, OverviewStep, PTL DEF OverviewSpec

(* With any visitors, incidents and counts, a part shown next to a whole   *)
(* exceeds it by no more than what was added between the two statements.   *)
THEOREM OverviewTheorem == OverviewSpec => []PartWithinWhole
BY OverviewInvariance, PTL DEF OverviewInv

-----------------------------------------------------------------------------
(* The SIEM engine.                                                        *)

(* The loop that filters a list, as a function of the steps it has made.   *)
IsUpTo(g, evs, start) ==
  g = [n \in 0 .. Len(evs) |->
         IF n = 0 THEN <<>>
         ELSE IF evs[n].stamp > start THEN Append(g[n - 1], evs[n])
         ELSE g[n - 1]]

LEMMA SinceIs ==
  ASSUME NEW evs, NEW start
  PROVE  Since(evs, start) = (CHOOSE g : IsUpTo(g, evs, start))[Len(evs)]
BY DEF Since, IsUpTo

(* The loop over one element more makes the same steps and one more.       *)
LEMMA UpToFront ==
  ASSUME NEW S, NEW s \in Seq(S), NEW e \in S, NEW start, NEW g, IsUpTo(g, s, start)
  PROVE  IsUpTo([n \in 0 .. Len(s) + 1 |->
                   IF n <= Len(s) THEN g[n]
                   ELSE IF e.stamp > start THEN Append(g[Len(s)], e)
                   ELSE g[Len(s)]], Append(s, e), start)
<1> DEFINE h == [n \in 0 .. Len(s) + 1 |->
                   IF n <= Len(s) THEN g[n]
                   ELSE IF e.stamp > start THEN Append(g[Len(s)], e)
                   ELSE g[Len(s)]]
           t == Append(s, e)
<1>1. /\ Len(t) = Len(s) + 1 /\ t[Len(s) + 1] = e
      /\ \A n \in 1 .. Len(s) : t[n] = s[n]
      /\ Len(s) \in Nat
  OBVIOUS
<1>2. \A n \in 0 .. Len(s) :
        g[n] = IF n = 0 THEN <<>>
               ELSE IF s[n].stamp > start THEN Append(g[n - 1], s[n])
               ELSE g[n - 1]
  BY DEF IsUpTo
<1> HIDE DEF t
<1>3. ASSUME NEW n \in 0 .. Len(t)
      PROVE  h[n] = IF n = 0 THEN <<>>
                    ELSE IF t[n].stamp > start THEN Append(h[n - 1], t[n])
                    ELSE h[n - 1]
  <2>1. CASE n = Len(s) + 1
    BY <1>1, <2>1
  <2>2. CASE n # Len(s) + 1
    <3>1. n \in 0 .. Len(s) /\ h[n] = g[n]
      BY <1>1, <2>2
    <3>2. n # 0 => t[n] = s[n] /\ h[n - 1] = g[n - 1]
      BY <1>1, <3>1
    <3> QED
      BY <1>2, <3>1, <3>2
  <2> QED
    BY <2>1, <2>2
<1> QED
  BY <1>1, <1>3 DEF IsUpTo, t

(* The loop has one outcome, and has one for every list.                   *)
LEMMA UpToUnique ==
  ASSUME NEW evs, Len(evs) \in Nat, NEW start, NEW g, NEW h,
         IsUpTo(g, evs, start), IsUpTo(h, evs, start)
  PROVE  g = h
<1> DEFINE Bad == {n \in 0 .. Len(evs) : g[n] # h[n]}
<1>1. Bad = {}
  <2> SUFFICES ASSUME Bad # {} PROVE FALSE
    OBVIOUS
  <2>1. PICK n \in Bad : \A m \in Bad : n <= m
    <3>1. Bad \in SUBSET Nat
      OBVIOUS
    <3> HIDE DEF Bad
    <3> QED
      BY <3>1, LeastNatural
  <2>2. n \in 0 .. Len(evs) /\ g[n] # h[n]
    OBVIOUS
  <2>3. n # 0
    BY <2>2 DEF IsUpTo
  <2>4. n - 1 \in 0 .. Len(evs) /\ n - 1 \notin Bad
    <3>1. n - 1 \in 0 .. Len(evs) /\ ~ (n <= n - 1)
      BY <2>2, <2>3
    <3> QED
      BY <2>1, <3>1
  <2>5. g[n - 1] = h[n - 1]
    BY <2>4
  <2> QED
    BY <2>2, <2>3, <2>5 DEF IsUpTo
<1> QED
  BY <1>1 DEF IsUpTo

LEMMA UpToExists ==
  ASSUME NEW S, NEW start
  PROVE  \A s \in Seq(S) : \E g : IsUpTo(g, s, start)
<1> DEFINE T == {s \in Seq(S) : \E g : IsUpTo(g, s, start)}
<1>1. <<>> \in T
  <2>1. IsUpTo([n \in 0 .. 0 |-> <<>>], <<>>, start)
    BY DEF IsUpTo
  <2> QED
    BY <2>1
<1>2. ASSUME NEW s \in Seq(S), NEW e \in S, s \in T PROVE Append(s, e) \in T
  <2>1. PICK g : IsUpTo(g, s, start)
    BY <1>2
  <2>2. \E h : IsUpTo(h, Append(s, e), start)
    BY <2>1, UpToFront
  <2> QED
    BY <2>2
<1> HIDE DEF T
<1>3. Seq(S) \subseteq T
  BY <1>1, <1>2, AllSequences
<1> QED
  BY <1>3 DEF T

(* The two steps of the loop.                                              *)
LEMMA SinceEmpty == ASSUME NEW start PROVE Since(<<>>, start) = <<>>
<1> DEFINE it == CHOOSE g : IsUpTo(g, <<>>, start)
<1>1. <<>> \in Seq({})
  OBVIOUS
<1>2. IsUpTo(it, <<>>, start)
  BY <1>1, UpToExists
<1>3. it[0] = <<>>
  BY <1>2 DEF IsUpTo
<1> QED
  BY <1>3, SinceIs

LEMMA SinceAppend ==
  ASSUME NEW S, NEW s \in Seq(S), NEW e \in S, NEW start
  PROVE  Since(Append(s, e), start) =
           IF e.stamp > start THEN Append(Since(s, start), e) ELSE Since(s, start)
<1> DEFINE g == CHOOSE g : IsUpTo(g, s, start)
           k == CHOOSE k : IsUpTo(k, Append(s, e), start)
           h == [n \in 0 .. Len(s) + 1 |->
                   IF n <= Len(s) THEN g[n]
                   ELSE IF e.stamp > start THEN Append(g[Len(s)], e)
                   ELSE g[Len(s)]]
<1>1. IsUpTo(g, s, start)
  BY UpToExists
<1>2. IsUpTo(k, Append(s, e), start)
  <2>1. Append(s, e) \in Seq(S)
    OBVIOUS
  <2> QED
    BY <2>1, UpToExists
<1>3. IsUpTo(h, Append(s, e), start)
  <2> HIDE DEF g
  <2> QED
    BY <1>1, UpToFront
<1>4. k = h
  <2>1. Len(Append(s, e)) \in Nat
    OBVIOUS
  <2> HIDE DEF k, h
  <2> QED
    BY <1>2, <1>3, <2>1, UpToUnique
<1>5. Since(Append(s, e), start) = h[Len(s) + 1]
  <2>1. Len(Append(s, e)) = Len(s) + 1
    OBVIOUS
  <2>2. Since(Append(s, e), start) = k[Len(Append(s, e))]
    BY SinceIs
  <2> HIDE DEF k, h
  <2> QED
    BY <1>4, <2>1, <2>2
<1>6. Since(s, start) = g[Len(s)]
  BY SinceIs
<1>7. h[Len(s) + 1] = IF e.stamp > start THEN Append(g[Len(s)], e) ELSE g[Len(s)]
  <2> HIDE DEF g
  <2> QED
    OBVIOUS
<1> HIDE DEF g, h
<1> QED
  BY <1>5, <1>6, <1>7

Later(S, start) == {e \in S : e.stamp > start}

(* What is picked is later than the start, and no more than there was.     *)
LEMMA SinceType ==
  ASSUME NEW S, NEW start
  PROVE  \A s \in Seq(S) : /\ Since(s, start) \in Seq(Later(S, start))
                           /\ Len(Since(s, start)) <= Len(s)
<1> DEFINE Y == Later(S, start)
           T == {s \in Seq(S) : /\ Since(s, start) \in Seq(Y)
                                /\ Len(Since(s, start)) <= Len(s)}
<1>1. <<>> \in T
  <2>1. <<>> \in Seq(S) /\ Len(<<>>) = 0
    OBVIOUS
  <2>2. <<>> \in Seq(Y)
    OBVIOUS
  <2> HIDE DEF Y
  <2>3. Since(<<>>, start) = <<>>
    BY SinceEmpty
  <2>4. Since(<<>>, start) \in Seq(Y)
    BY <2>2, <2>3
  <2>5. Len(Since(<<>>, start)) = Len(<<>>)
    BY <2>3
  <2> QED
    BY <2>1, <2>4, <2>5
<1>2. ASSUME NEW s \in Seq(S), NEW e \in S, s \in T PROVE Append(s, e) \in T
  <2>1. Since(s, start) \in Seq(Y) /\ Len(Since(s, start)) <= Len(s)
    BY <1>2
  <2>2. Append(s, e) \in Seq(S) /\ Len(Append(s, e)) = Len(s) + 1 /\ Len(s) \in Nat
    OBVIOUS
  <2>3. CASE e.stamp > start
    <3>1. Since(Append(s, e), start) = Append(Since(s, start), e) /\ e \in Y
      BY <2>3, SinceAppend DEF Later
    <3> HIDE DEF Y
    <3>2. /\ Append(Since(s, start), e) \in Seq(Y)
          /\ Len(Append(Since(s, start), e)) = Len(Since(s, start)) + 1
          /\ Len(Since(s, start)) \in Nat
      BY <2>1, <3>1
    <3> QED
      BY <2>1, <2>2, <3>1, <3>2
  <2>4. CASE ~(e.stamp > start)
    <3>1. Since(Append(s, e), start) = Since(s, start)
      BY <2>4, SinceAppend
    <3>2. Len(Since(s, start)) \in Nat
      BY <2>1
    <3> QED
      BY <2>1, <2>2, <3>1, <3>2
  <2> QED
    BY <2>3, <2>4
<1> HIDE DEF T
<1>3. Seq(S) \subseteq T
  BY <1>1, <1>2, AllSequences
<1> QED
  BY <1>3 DEF T

(* Nothing is dropped where nothing is due; dropping in two stages drops   *)
(* what the second drops.                                                  *)
LEMMA SinceAll ==
  ASSUME NEW S, NEW start
  PROVE  \A s \in Seq(Later(S, start)) : Since(s, start) = s
<1> DEFINE Y == Later(S, start)
           T == {s \in Seq(Y) : Since(s, start) = s}
<1>1. <<>> \in T
  BY SinceEmpty
<1>2. ASSUME NEW s \in Seq(Y), NEW e \in Y, s \in T PROVE Append(s, e) \in T
  <2>1. Since(s, start) = s /\ e.stamp > start
    BY <1>2 DEF Later
  <2> HIDE DEF Y
  <2>2. Append(s, e) \in Seq(Y)
    OBVIOUS
  <2>3. Since(Append(s, e), start) = Append(s, e)
    BY <2>1, SinceAppend
  <2> QED
    BY <2>2, <2>3
<1> HIDE DEF T, Y
<1>3. Seq(Y) \subseteq T
  BY <1>1, <1>2, AllSequences
<1> QED
  BY <1>3 DEF T, Y

LEMMA SinceSince ==
  ASSUME NEW S, \A e \in S : e.stamp \in Int,
         NEW start \in Int, NEW next \in Int, start <= next
  PROVE  \A s \in Seq(S) : Since(Since(s, start), next) = Since(s, next)
<1> DEFINE T == {s \in Seq(S) : Since(Since(s, start), next) = Since(s, next)}
<1>1. <<>> \in T
  BY SinceEmpty
<1>2. ASSUME NEW s \in Seq(S), NEW e \in S, s \in T PROVE Append(s, e) \in T
  <2>1. Since(Since(s, start), next) = Since(s, next) /\ Append(s, e) \in Seq(S)
    BY <1>2
  <2>2. CASE e.stamp > start
    <3>1. Since(Append(s, e), start) = Append(Since(s, start), e)
      BY <2>2, SinceAppend
    <3>2. Since(s, start) \in Seq(Later(S, start)) /\ e \in Later(S, start)
      BY <2>2, SinceType DEF Later
    <3>3. Since(Append(Since(s, start), e), next) =
            IF e.stamp > next THEN Append(Since(Since(s, start), next), e)
            ELSE Since(Since(s, start), next)
      BY <3>2, SinceAppend
    <3>4. Since(Append(s, e), next) =
            IF e.stamp > next THEN Append(Since(s, next), e) ELSE Since(s, next)
      BY SinceAppend
    <3> QED
      BY <2>1, <3>1, <3>3, <3>4
  <2>3. CASE ~(e.stamp > start)
    <3>1. ~(e.stamp > next)
      BY <2>3
    <3>2. Since(Append(s, e), start) = Since(s, start)
      BY <2>3, SinceAppend
    <3>3. Since(Append(s, e), next) = Since(s, next)
      BY <3>1, SinceAppend
    <3> QED
      BY <2>1, <3>2, <3>3
  <2> QED
    BY <2>2, <2>3
<1> HIDE DEF T
<1>3. Seq(S) \subseteq T
  BY <1>1, <1>2, AllSequences
<1> QED
  BY <1>3 DEF T

(* What is picked of an end is an end of what is picked of the list.       *)
LEMMA EndsSince ==
  ASSUME NEW S, NEW start
  PROVE  \A b \in Seq(S) : \A a \in Seq(S) :
           EndOf(a, b) => EndOf(Since(a, start), Since(b, start))
<1> DEFINE Kept(a, b) == EndOf(Since(a, start), Since(b, start))
           T == {b \in Seq(S) : \A a \in Seq(S) : EndOf(a, b) => Kept(a, b)}
<1>1. <<>> \in T
  <2>1. ASSUME NEW a \in Seq(S), EndOf(a, <<>>) PROVE a = <<>>
    BY <2>1 DEF EndOf
  <2>2. <<>> \in Seq(S)
    OBVIOUS
  <2>3. EndOf(<<>>, <<>>)
    BY <2>2, EmptyEnd
  <2> QED
    BY <2>1, <2>2, <2>3, SinceEmpty
<1>2. ASSUME NEW b \in Seq(S), NEW e \in S, b \in T PROVE Append(b, e) \in T
  <2>1. ASSUME NEW a \in Seq(S), EndOf(a, Append(b, e)) PROVE Kept(a, Append(b, e))
    <3>1. Append(b, e) \in Seq(S)
      OBVIOUS
    <3>2. CASE a = <<>>
      <4>1. Since(Append(b, e), start) \in Seq(Later(S, start))
        BY <3>1, SinceType
      <4> QED
        BY <3>2, <4>1, SinceEmpty, EmptyEnd
    <3>3. CASE a # <<>>
      <4> DEFINE front == SubSeq(a, 1, Len(a) - 1)
      <4>1. /\ Len(a) \in Nat \ {0} /\ front \in Seq(S) /\ Len(front) = Len(a) - 1
            /\ a = Append(front, a[Len(a)]) /\ a[Len(a)] \in S
            /\ \A i \in 1 .. Len(front) : front[i] = a[i]
        BY <3>3, FrontAndLast
      <4> HIDE DEF front
      <4>2. /\ Len(Append(b, e)) = Len(b) + 1 /\ Len(b) \in Nat
            /\ Append(b, e)[Len(b) + 1] = e
            /\ \A i \in 1 .. Len(b) : Append(b, e)[i] = b[i]
        OBVIOUS
      <4>3. a[Len(a)] = e
        BY <2>1, <4>1, <4>2 DEF EndOf
      <4>4. EndOf(front, b)
        <5>1. Len(front) <= Len(b)
          BY <2>1, <4>1, <4>2 DEF EndOf
        <5>2. ASSUME NEW i \in 1 .. Len(front)
              PROVE  front[i] = b[i + (Len(b) - Len(front))]
          <6>1. i \in 1 .. Len(a)
            BY <4>1
          <6>2. a[i] = Append(b, e)[i + (Len(b) + 1 - Len(a))]
            <7> DEFINE c == Append(b, e)
            <7>1. EndOf(a, c) /\ Len(c) = Len(b) + 1
              BY <2>1, <4>2
            <7> HIDE DEF c
            <7>2. a[i] = c[i + (Len(c) - Len(a))]
              BY <6>1, <7>1 DEF EndOf
            <7>3. a[i] = c[i + (Len(b) + 1 - Len(a))]
              BY <7>1, <7>2
            <7> QED
              BY <7>3 DEF c
          <6>3. /\ i + (Len(b) + 1 - Len(a)) \in 1 .. Len(b)
                /\ Len(b) + 1 - Len(a) = Len(b) - Len(front)
            BY <4>1, <4>2, <5>1
          <6> QED
            BY <4>1, <4>2, <6>2, <6>3
        <5> QED
          BY <5>1, <5>2 DEF EndOf
      <4>5. Kept(front, b)
        BY <1>2, <4>1, <4>4
      <4>6. /\ Since(front, start) \in Seq(Later(S, start))
            /\ Since(b, start) \in Seq(Later(S, start))
        BY <4>1, SinceType
      <4>10. a = Append(front, e)
        BY <4>1, <4>3
      <4>7. /\ Since(Append(b, e), start) =
                 IF e.stamp > start THEN Append(Since(b, start), e) ELSE Since(b, start)
            /\ Since(a, start) =
                 IF e.stamp > start THEN Append(Since(front, start), e)
                 ELSE Since(front, start)
        BY <4>1, <4>10, SinceAppend
      <4>8. CASE e.stamp > start
        <5>1. e \in Later(S, start)
          BY <4>8 DEF Later
        <5>2. EndOf(Append(Since(front, start), e), Append(Since(b, start), e))
          BY <4>5, <4>6, <5>1, EndsAppend
        <5> QED
          BY <4>7, <4>8, <5>2
      <4>9. CASE ~(e.stamp > start)
        BY <4>5, <4>7, <4>9
      <4> QED
        BY <4>8, <4>9
    <3> QED
      BY <3>2, <3>3
  <2>2. Append(b, e) \in Seq(S)
    OBVIOUS
  <2> HIDE DEF Kept
  <2> QED
    BY <2>1, <2>2
<1> HIDE DEF T
<1>3. Seq(S) \subseteq T
  BY <1>1, <1>2, AllSequences
<1> QED
  BY <1>3 DEF T

(* The incidents that may arrive.                                          *)
Incidents ==
  [type : {s.type : s \in Shapes}, attack : {s.attack : s \in Shapes},
   ip : {s.ip : s \in Shapes}, path : {s.path : s \in Shapes}, stamp : Int]

(* A threshold that is filled stays so over a longer list.                 *)
LEMMA FillsGrows ==
  ASSUME NEW S, NEW a \in Seq(S), NEW b \in Seq(S), EndOf(a, b),
         NEW few \in SUBSET DOMAIN a, NEW more \in SUBSET DOMAIN b,
         \A i \in few : i + (Len(b) - Len(a)) \in more,
         NEW rule \in ToSet(RuleNames), Fills(rule, few)
  PROVE  Fills(rule, more)
<1>1. Threshold[rule] \in Nat
  BY SiemAssumption
<1>2. Cardinality(few) >= Threshold[rule]
  BY DEF Fills
<1>3. /\ Cardinality(few) \in Nat /\ Cardinality(more) \in Nat
      /\ Cardinality(few) <= Cardinality(more)
  BY CountsGrow
<1> QED
  BY <1>1, <1>2, <1>3 DEF Fills

LEMMA RulesAre == /\ RuleNames[1] = "brute_force" /\ RuleNames[2] = "port_scan"
                  /\ RuleNames[3] = "xss_wave" /\ RuleNames[4] = "sqli_wave"
                  /\ RuleNames[5] = "rapid_scan" /\ RuleNames[6] = "shell_activity"
                  /\ RuleNames[7] = "data_exfiltration"
                  /\ DOMAIN RuleNames = 1 .. 7
                  /\ ToSet(RuleNames) =
                       {"brute_force", "port_scan", "xss_wave", "sqli_wave",
                        "rapid_scan", "shell_activity", "data_exfiltration"}
<1>1. /\ RuleNames[1] = "brute_force" /\ RuleNames[2] = "port_scan"
      /\ RuleNames[3] = "xss_wave" /\ RuleNames[4] = "sqli_wave"
      /\ RuleNames[5] = "rapid_scan" /\ RuleNames[6] = "shell_activity"
      /\ RuleNames[7] = "data_exfiltration"
      /\ DOMAIN RuleNames = 1 .. 7
  BY DEF RuleNames
<1> HIDE DEF RuleNames
<1>2. \A r \in 1 .. 7 : r = 1 \/ r = 2 \/ r = 3 \/ r = 4 \/ r = 5 \/ r = 6 \/ r = 7
  OBVIOUS
<1>3. 1 \in 1..7 /\ 2 \in 1..7 /\ 3 \in 1..7 /\ 4 \in 1..7 /\ 5 \in 1..7 /\ 6 \in 1..7 /\ 7 \in 1..7
  OBVIOUS
<1>4. ToSet(RuleNames) = {RuleNames[r] : r \in 1 .. 7}
  BY <1>1 DEF ToSet
<1> QED
  BY <1>1, <1>2, <1>3, <1>4

(* So do the alerts about an address, an attack, or the ports tried.       *)
LEMMA IpsGrow ==
  ASSUME NEW S, NEW a \in Seq(S), NEW b \in Seq(S), EndOf(a, b)
  PROVE  Ips(a) \subseteq Ips(b)
BY EndShift DEF Ips

LEMMA TypeCountGrows ==
  ASSUME NEW S, NEW a \in Seq(S), NEW b \in Seq(S), EndOf(a, b), NEW type, NEW ip
  PROVE  /\ OfType(a, type, ip) \in SUBSET DOMAIN a
         /\ OfType(b, type, ip) \in SUBSET DOMAIN b
         /\ \A i \in OfType(a, type, ip) :
              i + (Len(b) - Len(a)) \in OfType(b, type, ip)
BY EndShift DEF OfType, Where

LEMMA AttackCountGrows ==
  ASSUME NEW S, NEW a \in Seq(S), NEW b \in Seq(S), EndOf(a, b), NEW attack
  PROVE  /\ OfAttack(a, attack) \in SUBSET DOMAIN a
         /\ OfAttack(b, attack) \in SUBSET DOMAIN b
         /\ \A i \in OfAttack(a, attack) :
              i + (Len(b) - Len(a)) \in OfAttack(b, attack)
BY EndShift DEF OfAttack, Where

LEMMA TypedAlertGrows ==
  ASSUME NEW S, NEW a \in Seq(S), NEW b \in Seq(S), EndOf(a, b), NEW type, NEW ip,
         NEW rule \in ToSet(RuleNames)
  PROVE  AlertIf(rule, ip, OfType(a, type, ip)) \subseteq
           AlertIf(rule, ip, OfType(b, type, ip))
<1>1. Fills(rule, OfType(a, type, ip)) => Fills(rule, OfType(b, type, ip))
  BY TypeCountGrows, FillsGrows
<1> QED
  BY <1>1 DEF AlertIf

LEMMA AttackAlertGrows ==
  ASSUME NEW S, NEW a \in Seq(S), NEW b \in Seq(S), EndOf(a, b), NEW attack,
         NEW rule \in ToSet(RuleNames)
  PROVE  /\ AlertIf(rule, NoIp, OfAttack(a, attack)) \subseteq
              AlertIf(rule, NoIp, OfAttack(b, attack))
         /\ Fills(rule, OfAttack(a, attack)) => Fills(rule, OfAttack(b, attack))
<1>1. Fills(rule, OfAttack(a, attack)) => Fills(rule, OfAttack(b, attack))
  BY AttackCountGrows, FillsGrows
<1> QED
  BY <1>1 DEF AlertIf

(* Distinct paths of a longer list are at least as many.                   *)
LEMMA PortAlertGrows ==
  ASSUME NEW S, NEW a \in Seq(S), NEW b \in Seq(S), EndOf(a, b), NEW ip
  PROVE  AlertIf("port_scan", ip, {a[i].path : i \in OfType(a, "connection", ip)})
           \subseteq
         AlertIf("port_scan", ip, {b[i].path : i \in OfType(b, "connection", ip)})
<1> DEFINE few == OfType(a, "connection", ip)
           more == OfType(b, "connection", ip)
           paths == [i \in more |-> b[i].path]
           fewPaths == {a[i].path : i \in few}
           morePaths == {b[i].path : i \in more}
<1>1. /\ few \in SUBSET DOMAIN a /\ more \in SUBSET DOMAIN b
      /\ \A i \in few : i + (Len(b) - Len(a)) \in more
  BY TypeCountGrows
<1>2. \A i \in few : b[i + (Len(b) - Len(a))] = a[i]
  BY <1>1, EndShift
<1>3. IsFiniteSet(more)
  BY <1>1, CountsGrow
<1>4. paths \in Surjection(more, morePaths)
  BY DEF Surjection
<1> HIDE DEF few, more
<1>5. fewPaths \subseteq morePaths
  BY <1>1, <1>2
<1>6. IsFiniteSet(morePaths)
  <2> HIDE DEF paths, morePaths
  <2> QED
    BY <1>3, <1>4, FS_Surjection
<1> HIDE DEF fewPaths, morePaths
<1>7. /\ IsFiniteSet(fewPaths)
      /\ Cardinality(fewPaths) <= Cardinality(morePaths)
  BY <1>5, <1>6, FS_Subset
<1>8. Cardinality(fewPaths) \in Nat /\ Cardinality(morePaths) \in Nat
  BY <1>6, <1>7, FS_CardinalityType
<1>9. Threshold["port_scan"] \in Nat
  BY SiemAssumption, RulesAre
<1>10. Fills("port_scan", fewPaths) => Fills("port_scan", morePaths)
  BY <1>7, <1>8, <1>9 DEF Fills
<1>11. AlertIf("port_scan", ip, fewPaths) \subseteq AlertIf("port_scan", ip, morePaths)
  BY <1>10 DEF AlertIf
<1> QED
  BY <1>11 DEF fewPaths, morePaths, few, more

(* The last command injection is the last of the longer list too.          *)
LEMMA ShellGrows ==
  ASSUME NEW S, NEW a \in Seq(S), NEW b \in Seq(S), EndOf(a, b)
  PROVE  ShellActivity(a) \subseteq ShellActivity(b)
<1> DEFINE few == OfAttack(a, "command_injection")
           more == OfAttack(b, "command_injection")
           last(found) == CHOOSE i \in found : \A j \in found : j <= i
           d == Len(b) - Len(a)
<1> SUFFICES ASSUME Fills("shell_activity", few)
             PROVE  ShellActivity(a) \subseteq ShellActivity(b)
  BY DEF ShellActivity
<1>1. Fills("shell_activity", more)
  BY AttackAlertGrows, RulesAre
<1>2. /\ few \in SUBSET DOMAIN a /\ more \in SUBSET DOMAIN b
      /\ \A i \in few : i + d \in more
  BY AttackCountGrows
<1>3. \A j \in more : j > d => j - d \in few
  BY EndShift DEF OfAttack, Where
<1>4. few # {}
  <2>1. Threshold["shell_activity"] \in Nat \ {0}
    BY SiemAssumption, RulesAre
  <2>2. Cardinality(few) >= Threshold["shell_activity"]
    BY DEF Fills
  <2>3. Cardinality({}) = 0
    BY FS_EmptySet
  <2>4. few = {} => Cardinality(few) = 0
    BY <2>3
  <2>5. Cardinality(few) # 0
    BY <2>1, <2>2, SMT
  <2> QED
    BY <2>4, <2>5
<1>5. more # {} /\ d \in Nat /\ DOMAIN a \in SUBSET Nat /\ DOMAIN b \in SUBSET Nat
  BY <1>2, <1>4, EndShift
<1>6. last(few) \in few /\ \A j \in few : j <= last(few)
  <2>1. \E i \in few : \A j \in few : j <= i
    BY <1>2, <1>4, LastPosition
  <2> HIDE DEF few
  <2> QED
    BY <2>1
<1>7. last(more) \in more /\ \A j \in more : j <= last(more)
  <2>1. \E i \in more : \A j \in more : j <= i
    BY <1>2, <1>5, LastPosition
  <2> HIDE DEF more
  <2> QED
    BY <2>1
<1> HIDE DEF few, more, last
<1>8. last(more) = last(few) + d
  <2>1. last(few) \in Nat /\ last(few) >= 1 /\ last(more) \in Nat
    BY <1>2, <1>6, <1>7, <1>5
  <2>2. last(few) + d <= last(more)
    BY <1>2, <1>6, <1>7
  <2>3. last(more) > d
    BY <1>5, <2>1, <2>2
  <2>4. last(more) - d <= last(few)
    BY <1>3, <1>6, <1>7, <2>3
  <2> QED
    BY <1>5, <2>1, <2>2, <2>4
<1>9. b[last(more)] = a[last(few)]
  BY <1>2, <1>6, <1>8, EndShift
<1>10. /\ ShellActivity(a) = {Alert("shell_activity", a[last(few)].ip)}
       /\ ShellActivity(b) = {Alert("shell_activity", b[last(more)].ip)}
  BY <1>1 DEF ShellActivity, few, more, last
<1> QED
  BY <1>9, <1>10

LEMMA EvaluateIs ==
  ASSUME NEW evs
  PROVE  /\ DOMAIN Evaluate(evs) = 1 .. 7
         /\ Evaluate(evs)[1] = BruteForce(evs)
         /\ Evaluate(evs)[2] = PortScan(evs)
         /\ Evaluate(evs)[3] = XssWave(evs)
         /\ Evaluate(evs)[4] = SqlInjectionWave(evs)
         /\ Evaluate(evs)[5] = RapidScan(evs)
         /\ Evaluate(evs)[6] = ShellActivity(evs)
         /\ Evaluate(evs)[7] = DataExfil(evs)
BY DEF Evaluate

(* What a rule tells of a list it tells of every longer list with the same *)
(* end.                                                                    *)
LEMMA RulesGrow ==
  ASSUME NEW S, NEW a \in Seq(S), NEW b \in Seq(S), EndOf(a, b), NEW r \in 1 .. 7
  PROVE  Evaluate(a)[r] \subseteq Evaluate(b)[r]
<1>1. Ips(a) \subseteq Ips(b)
  BY IpsGrow
<1>2. BruteForce(a) \subseteq BruteForce(b)
  <2>1. \A ip : AlertIf("brute_force", ip, OfType(a, "attack_blocked", ip))
                \subseteq AlertIf("brute_force", ip, OfType(b, "attack_blocked", ip))
    BY RulesAre, TypedAlertGrows
  <2> QED
    BY <1>1, <2>1 DEF BruteForce
<1>3. PortScan(a) \subseteq PortScan(b)
  <2>1. \A ip : AlertIf("port_scan", ip,
                        {a[i].path : i \in OfType(a, "connection", ip)})
                \subseteq
                AlertIf("port_scan", ip,
                        {b[i].path : i \in OfType(b, "connection", ip)})
    BY PortAlertGrows
  <2> QED
    BY <1>1, <2>1 DEF PortScan
<1>4. XssWave(a) \subseteq XssWave(b) /\ SqlInjectionWave(a) \subseteq SqlInjectionWave(b)
  BY RulesAre, AttackAlertGrows DEF XssWave, SqlInjectionWave
<1>5. RapidScan(a) \subseteq RapidScan(b)
  <2> DEFINE few == Where(a, LAMBDA e : e.stamp > siemNow - Rapid)
             more == Where(b, LAMBDA e : e.stamp > siemNow - Rapid)
  <2>1. /\ few \in SUBSET DOMAIN a /\ more \in SUBSET DOMAIN b
        /\ \A i \in few : i + (Len(b) - Len(a)) \in more
    BY EndShift DEF Where
  <2>2. /\ RapidScan(a) = AlertIf("rapid_scan", NoIp, few)
        /\ RapidScan(b) = AlertIf("rapid_scan", NoIp, more)
    BY DEF RapidScan
  <2> HIDE DEF few, more
  <2>3. Fills("rapid_scan", few) => Fills("rapid_scan", more)
    BY <2>1, RulesAre, FillsGrows
  <2> QED
    BY <2>2, <2>3 DEF AlertIf
<1>6. ShellActivity(a) \subseteq ShellActivity(b)
  BY ShellGrows
<1>7. DataExfil(a) \subseteq DataExfil(b)
  <2>1. \A ip : AlertIf("data_exfiltration", ip, OfType(a, "request", ip))
                \subseteq AlertIf("data_exfiltration", ip, OfType(b, "request", ip))
    BY RulesAre, TypedAlertGrows
  <2> QED
    BY <1>1, <2>1 DEF DataExfil
<1> QED
  BY <1>2, <1>3, <1>4, <1>5, <1>6, <1>7, EvaluateIs

(* An alert names its rule, and an address of the list or none.            *)
LEMMA RulesName ==
  ASSUME NEW S, NEW evs \in Seq(S), NEW r \in 1 .. 7, NEW x \in Evaluate(evs)[r]
  PROVE  \E ip \in Ips(evs) \cup {NoIp} : x = Alert(RuleNames[r], ip)
<1>6. ASSUME NEW rule, NEW ip, NEW found, x \in AlertIf(rule, ip, found)
      PROVE  x = Alert(rule, ip)
  BY <1>6 DEF AlertIf
<1>1. CASE r = 1
  <2>1. \E ip \in Ips(evs) :
          x \in AlertIf("brute_force", ip, OfType(evs, "attack_blocked", ip))
    BY <1>1, EvaluateIs DEF BruteForce
  <2> QED
    BY <1>1, <1>6, <2>1, RulesAre
<1>2. CASE r = 2
  <2> DEFINE Ports(ip) == {evs[i].path : i \in OfType(evs, "connection", ip)}
  <2>1. PortScan(evs) =
          UNION {AlertIf("port_scan", ip, Ports(ip)) : ip \in Ips(evs) \ {NoIp}}
    BY DEF PortScan
  <2> HIDE DEF Ports
  <2>2. PICK ip \in Ips(evs) : x \in AlertIf("port_scan", ip, Ports(ip))
    BY <1>2, <2>1, EvaluateIs
  <2>3. x = Alert("port_scan", ip)
    BY <1>6, <2>2
  <2> QED
    BY <1>2, <2>2, <2>3, RulesAre
<1>3. CASE r \in {3, 4, 5}
  <2>1. PICK found : x \in AlertIf(RuleNames[r], NoIp, found)
    <3>1. CASE r = 3
      BY <3>1, EvaluateIs, RulesAre DEF XssWave
    <3>2. CASE r = 4
      BY <3>2, EvaluateIs, RulesAre DEF SqlInjectionWave
    <3>3. CASE r = 5
      <4> DEFINE found == Where(evs, LAMBDA e : e.stamp > siemNow - Rapid)
      <4>1. RapidScan(evs) = AlertIf("rapid_scan", NoIp, found)
        BY DEF RapidScan
      <4> HIDE DEF found
      <4> QED
        BY <3>3, <4>1, EvaluateIs, RulesAre
    <3> QED
      BY <1>3, <3>1, <3>2, <3>3
  <2> QED
    BY <1>6, <2>1
<1>4. CASE r = 6
  <2> DEFINE found == OfAttack(evs, "command_injection")
             last == CHOOSE i \in found : \A j \in found : j <= i
  <2>1. Fills("shell_activity", found) /\ x = Alert("shell_activity", evs[last].ip)
    BY <1>4, EvaluateIs DEF ShellActivity
  <2>2. found \in SUBSET DOMAIN evs
    BY DEF OfAttack, Where
  <2>3. found # {}
    <3>1. Threshold["shell_activity"] \in Nat \ {0}
      BY SiemAssumption, RulesAre
    <3>2. Cardinality(found) >= Threshold["shell_activity"]
      BY <2>1 DEF Fills
    <3>3. found = {} => Cardinality(found) = 0
      BY FS_EmptySet
    <3> HIDE DEF found
    <3>4. Cardinality(found) # 0
      BY <3>1, <3>2, SMT
    <3> QED
      BY <3>3, <3>4
  <2> HIDE DEF found
  <2>4. last \in found
    <3>1. \E i \in found : \A j \in found : j <= i
      BY <2>2, <2>3, LastPosition
    <3> QED
      BY <3>1
  <2> HIDE DEF last
  <2>5. evs[last].ip \in Ips(evs)
    BY <2>2, <2>4 DEF Ips
  <2> QED
    BY <1>4, <2>1, <2>5, RulesAre
<1>5. CASE r = 7
  BY <1>5, EvaluateIs, RulesAre DEF DataExfil, AlertIf
<1> QED
  BY <1>1, <1>2, <1>3, <1>4, <1>5

(* The engine's answer is the first rule's.                                *)
LEMMA FirstTells ==
  ASSUME NEW evs, NEW x \in Told(evs)
  PROVE  \/ x = Quiet /\ \A r \in 1 .. 7 : Evaluate(evs)[r] = {}
         \/ \E r \in 1 .. 7 : /\ x \in Evaluate(evs)[r]
                              /\ \A s \in 1 .. 7 : Evaluate(evs)[s] # {} => r <= s
<1> DEFINE alerts == Evaluate(evs)
           telling == {r \in DOMAIN alerts : alerts[r] # {}}
           first == CHOOSE r \in telling : \A s \in telling : r <= s
<1>1. DOMAIN alerts = 1 .. 7
  BY EvaluateIs
<1>2. CASE telling = {}
  BY <1>1, <1>2 DEF Told
<1>3. CASE telling # {}
  <2>1. x \in alerts[first]
    BY <1>3 DEF Told
  <2>2. telling \in SUBSET Nat /\ telling \in SUBSET (1 .. 7)
    BY <1>1
  <2> HIDE DEF telling
  <2>3. \E r \in telling : \A s \in telling : r <= s
    BY <1>3, <2>2, LeastNatural
  <2>4. first \in telling /\ \A s \in telling : first <= s
    BY <2>3
  <2> HIDE DEF first
  <2>5. \A s \in 1 .. 7 : alerts[s] # {} => first <= s
    BY <1>1, <2>4 DEF telling
  <2> QED
    BY <2>1, <2>2, <2>4, <2>5
<1> QED
  BY <1>2, <1>3

LEMMA PositionIs == ASSUME NEW r \in 1 .. 7 PROVE Position(RuleNames[r]) = r
<1>1. \A s \in 1 .. 7 : RuleNames[s] = RuleNames[r] => s = r
  BY RulesAre
<1> QED
  BY <1>1, RulesAre DEF Position

(* The last of the incidents received, as many as are kept at most.        *)
Recent(evs) ==
  LET first == IF Len(evs) > MaxEvents THEN Len(evs) - MaxEvents ELSE 0
  IN  SubSeq(evs, first + 1, Len(evs))

(* What is known when an answer has been given.                            *)
Judged ==
  /\ arrivals \in Seq(Incidents) /\ kept \in Seq(Incidents)
  /\ Young(arrivals) \in Seq(Incidents) /\ Young(Recent(arrivals)) \in Seq(Incidents)
  /\ EndOf(kept, Young(arrivals)) /\ EndOf(Young(Recent(arrivals)), kept)
  /\ alert \in Told(kept)

(* The list the rules judge lies between the recent and all the young.     *)
LEMMA JudgedInBetween == Judged => AlertIsDue
<1> SUFFICES ASSUME Judged PROVE AlertIsDue
  OBVIOUS
<1> DEFINE whole == Evaluate(Young(arrivals))
           latest == Evaluate(Young(Recent(arrivals)))
<1>1. AlertIsDue <=>
        /\ alert # Quiet => alert \in whole[Position(alert.rule)]
        /\ \A r \in DOMAIN latest :
             latest[r] # {} => alert # Quiet /\ Position(alert.rule) <= r
  BY DEF AlertIsDue, Recent
<1>2. \A r \in 1 .. 7 : /\ latest[r] \subseteq Evaluate(kept)[r]
                        /\ Evaluate(kept)[r] \subseteq whole[r]
  BY RulesGrow DEF Judged
<1>3. DOMAIN latest = 1 .. 7
  BY EvaluateIs
<1>4. CASE alert = Quiet /\ \A r \in 1 .. 7 : Evaluate(kept)[r] = {}
  <2>1. \A r \in 1 .. 7 : latest[r] = {}
    BY <1>2, <1>4
  <2> HIDE DEF whole, latest
  <2> QED
    BY <1>1, <1>3, <1>4, <2>1
<1>5. ASSUME NEW r \in 1 .. 7, alert \in Evaluate(kept)[r],
             \A s \in 1 .. 7 : Evaluate(kept)[s] # {} => r <= s
      PROVE  AlertIsDue
  <2>1. PICK ip : alert = Alert(RuleNames[r], ip)
    BY <1>5, RulesName DEF Judged
  <2>2. alert.rule = RuleNames[r] /\ alert # Quiet
    BY <2>1, RulesAre DEF Alert, Quiet
  <2>3. Position(alert.rule) = r
    BY <2>2, PositionIs
  <2>4. alert \in whole[r]
    BY <1>2, <1>5
  <2>5. \A s \in 1 .. 7 : latest[s] # {} => r <= s
    BY <1>2, <1>5
  <2> HIDE DEF whole, latest
  <2> QED
    BY <1>1, <1>3, <2>2, <2>3, <2>4, <2>5
<1> QED
  BY <1>4, <1>5, FirstTells DEF Judged

(* The same after a step.                                                  *)
LEMMA DueNext == Judged' => AlertIsDue'
BY JudgedInBetween, PTL

(* What is kept and still young ends what was received and is still young, *)
(* and holds what is young among the last MaxEvents received.              *)
SiemInv ==
  /\ SiemTypeOK
  /\ arrivals \in Seq(Incidents) /\ kept \in Seq(Incidents)
  /\ EndOf(Young(kept), Young(arrivals))
  /\ EndOf(Young(Recent(arrivals)), Young(kept))

(* What truncating and filtering leave.                                    *)
LEMMA RecentIs ==
  ASSUME NEW S, NEW s \in Seq(S)
  PROVE  /\ Recent(s) \in Seq(S) /\ EndOf(Recent(s), s)
         /\ Len(Recent(s)) = IF Len(s) > MaxEvents THEN MaxEvents ELSE Len(s)
<1> DEFINE first == IF Len(s) > MaxEvents THEN Len(s) - MaxEvents ELSE 0
<1>1. /\ first \in 0 .. Len(s) /\ Len(s) \in Nat /\ MaxEvents \in Nat
      /\ Len(s) - first = IF Len(s) > MaxEvents THEN MaxEvents ELSE Len(s)
  BY SiemAssumption
<1>2. Recent(s) = SubSeq(s, first + 1, Len(s))
  BY DEF Recent
<1> HIDE DEF first
<1> QED
  BY <1>1, <1>2, DropIsEnd

LEMMA TruncatedIs ==
  ASSUME NEW S, NEW s \in Seq(S)
  PROVE  /\ Truncated(s) \in Seq(S) /\ EndOf(Truncated(s), s)
         /\ Len(Truncated(s)) = IF Len(s) > MaxEvents THEN MaxEvents ELSE Len(s)
<1>1. Len(s) \in Nat /\ MaxEvents \in Nat
  BY SiemAssumption
<1>2. CASE Len(s) > MaxEvents
  <2> DEFINE n == Len(s) - MaxEvents
  <2>1. n \in 0 .. Len(s) /\ Len(s) - n = MaxEvents
    BY <1>1, <1>2
  <2>2. Truncated(s) = SubSeq(s, n + 1, Len(s))
    BY <1>2 DEF Truncated, LastOf
  <2> HIDE DEF n
  <2> QED
    BY <1>2, <2>1, <2>2, DropIsEnd
<1>3. CASE ~(Len(s) > MaxEvents)
  BY <1>3, EndOfItself DEF Truncated
<1> QED
  BY <1>2, <1>3

LEMMA YoungIs ==
  ASSUME NEW S, NEW s \in Seq(S), NEW start
  PROVE  /\ Since(s, start) \in Seq(S)
         /\ Since(s, start) \in Seq(Later(S, start))
         /\ Len(Since(s, start)) \in Nat /\ Len(Since(s, start)) <= Len(s)
<1>1. /\ Since(s, start) \in Seq(Later(S, start))
      /\ Len(Since(s, start)) <= Len(s)
  BY SinceType
<1>2. Later(S, start) \subseteq S
  BY DEF Later
<1> HIDE DEF Later
<1> QED
  BY <1>1, <1>2

(* What is added to two lists of which one ends the other ends both.       *)
LEMMA SinceAdds ==
  ASSUME NEW S, NEW a \in Seq(S), NEW b \in Seq(S), NEW e \in S, NEW start,
         EndOf(Since(a, start), Since(b, start))
  PROVE  EndOf(Since(Append(a, e), start), Since(Append(b, e), start))
<1>1. /\ Since(Append(a, e), start) =
           IF e.stamp > start THEN Append(Since(a, start), e) ELSE Since(a, start)
      /\ Since(Append(b, e), start) =
           IF e.stamp > start THEN Append(Since(b, start), e) ELSE Since(b, start)
  BY SinceAppend
<1>2. Since(a, start) \in Seq(S) /\ Since(b, start) \in Seq(S)
  BY YoungIs
<1>3. EndOf(Append(Since(a, start), e), Append(Since(b, start), e))
  BY <1>2, EndsAppend
<1> QED
  BY <1>1, <1>3

(* An Ingest: both lists get the incident, both are filtered, the kept one *)
(* is cut to the length that the recent ones cannot exceed.                *)
LEMMA IngestStep ==
  ASSUME SiemInv, NEW e \in Incidents, Len(arrivals) < MaxArrivals, Ingest(e)
  PROVE  SiemInv' /\ Judged'
<1> DEFINE start == siemNow - Window
           added == Append(kept, e)
           total == Append(arrivals, e)
           grown == Append(Recent(arrivals), e)
           fresh == Since(added, start)
           whole == Since(total, start)
           latest == Since(Recent(total), start)
<1>1. /\ arrivals' = total /\ kept' = Truncated(fresh)
      /\ alert' \in Told(kept') /\ siemNow' = siemNow /\ cleaner' = cleaner
  BY DEF Ingest, Young
<1>2. /\ arrivals \in Seq(Incidents) /\ kept \in Seq(Incidents)
      /\ EndOf(Since(kept, start), Since(arrivals, start))
      /\ EndOf(Since(Recent(arrivals), start), Since(kept, start))
      /\ siemNow \in 0 .. MaxSeconds /\ cleaner \in {"new", "running", "stopped"}
      /\ MaxEvents \in Nat /\ MaxArrivals \in Nat
  BY SiemAssumption DEF SiemInv, SiemTypeOK, Young
<1>3. /\ added \in Seq(Incidents) /\ total \in Seq(Incidents)
      /\ Recent(arrivals) \in Seq(Incidents) /\ grown \in Seq(Incidents)
      /\ Recent(total) \in Seq(Incidents)
      /\ Len(total) = Len(arrivals) + 1 /\ Len(arrivals) \in Nat
      /\ Len(grown) = Len(Recent(arrivals)) + 1
  <2>1. Recent(arrivals) \in Seq(Incidents)
    BY <1>2, RecentIs
  <2>2. total \in Seq(Incidents)
    BY <1>2
  <2>3. Recent(total) \in Seq(Incidents)
    BY <2>2, RecentIs
  <2> QED
    BY <1>2, <2>1, <2>2, <2>3
<1>4. EndOf(fresh, whole)
  BY <1>2, SinceAdds
<1>5. EndOf(Since(grown, start), fresh)
  BY <1>2, <1>3, SinceAdds
<1> HIDE DEF start, added, total, grown
<1>6. /\ fresh \in Seq(Incidents) /\ fresh \in Seq(Later(Incidents, start))
      /\ whole \in Seq(Incidents) /\ latest \in Seq(Incidents)
      /\ Since(grown, start) \in Seq(Incidents)
      /\ Len(latest) \in Nat /\ Len(latest) <= Len(Recent(total))
      /\ Len(fresh) \in Nat
  BY <1>3, YoungIs
<1> HIDE DEF fresh, whole, latest
<1>7. /\ kept' \in Seq(Incidents) /\ kept' \in Seq(Later(Incidents, start))
      /\ EndOf(kept', fresh)
      /\ Len(kept') = IF Len(fresh) > MaxEvents THEN MaxEvents ELSE Len(fresh)
  BY <1>1, <1>6, TruncatedIs
<1>8. EndOf(kept', whole)
  BY <1>4, <1>6, <1>7, EndOfEnd
<1>9. EndOf(Recent(total), grown)
  <2>1. EndOf(Recent(arrivals), arrivals) /\ EndOf(Recent(total), total)
    BY <1>2, <1>3, RecentIs
  <2>2. EndOf(grown, total)
    BY <1>2, <1>3, <2>1, EndsAppend DEF grown, total
  <2>3. /\ Len(Recent(arrivals)) = IF Len(arrivals) > MaxEvents THEN MaxEvents
                                   ELSE Len(arrivals)
        /\ Len(Recent(total)) = IF Len(total) > MaxEvents THEN MaxEvents
                                ELSE Len(total)
    BY <1>2, <1>3, RecentIs
  <2>4. Len(Recent(total)) <= Len(grown)
    BY <1>2, <1>3, <2>3
  <2> QED
    BY <1>3, <2>1, <2>2, <2>4, EndsCompare
<1>10. EndOf(latest, fresh)
  <2>1. EndOf(latest, Since(grown, start))
    BY <1>3, <1>9, EndsSince DEF latest
  <2> QED
    BY <1>5, <1>6, <2>1, EndOfEnd
<1>11. EndOf(latest, kept')
  <2>1. Len(latest) <= Len(fresh)
    BY <1>10 DEF EndOf
  <2>2. Len(latest) <= MaxEvents
    <3>1. Len(Recent(total)) = IF Len(total) > MaxEvents THEN MaxEvents ELSE Len(total)
      BY <1>3, RecentIs
    <3> QED
      BY <1>2, <1>3, <1>6, <3>1
  <2>3. Len(latest) <= Len(kept')
    BY <1>7, <2>1, <2>2
  <2> QED
    BY <1>6, <1>7, <1>10, <2>3, EndsCompare
<1>12. Since(kept', start) = kept'
  BY <1>7, SinceAll
<1>13. /\ Young(kept)' = kept' /\ Young(arrivals)' = whole
       /\ Young(Recent(arrivals))' = latest
  BY <1>1, <1>12 DEF Young, whole, latest, start, Recent
<1>14. Judged'
  <2>1. (alert \in Told(kept))'
    <3>1. RapidScan(kept)' = RapidScan(kept')
      BY <1>1 DEF RapidScan, Where
    <3>2. Evaluate(kept)' = Evaluate(kept')
      BY <3>1 DEF Evaluate
    <3>3. Told(kept)' = Told(kept')
      BY <3>2 DEF Told
    <3> QED
      BY <1>1, <3>3
  <2> QED
    BY <1>1, <1>3, <1>6, <1>7, <1>8, <1>11, <1>13, <2>1 DEF Judged
<1>15. SiemTypeOK'
  <2>1. Len(arrivals') <= MaxArrivals /\ Len(kept') <= MaxEvents
    BY <1>1, <1>2, <1>3, <1>6, <1>7
  <2>2. ToSet(kept') \subseteq ToSet(arrivals')
    <3> DEFINE X == ToSet(total)
    <3>1. total \in Seq(X) /\ ToSet(kept) \subseteq X /\ e \in X
      <4>1. ToSet(total) = ToSet(arrivals) \cup {e}
        BY <1>2, ToSetAppend DEF total
      <4>2. ToSet(kept) \subseteq ToSet(arrivals)
        BY DEF SiemInv, SiemTypeOK
      <4>3. total \in Seq(X)
        BY <1>3, ElementsMakeSeq
      <4> HIDE DEF X
      <4> QED
        BY <4>1, <4>2, <4>3 DEF X
    <3> HIDE DEF X
    <3>2. kept \in Seq(X)
      BY <1>2, <3>1, ElementsMakeSeq
    <3>3. added \in Seq(X)
      BY <3>1, <3>2 DEF added
    <3>4. fresh \in Seq(X)
      BY <3>3, YoungIs DEF fresh
    <3>5. kept' \in Seq(X)
      BY <1>1, <3>4, TruncatedIs
    <3> QED
      BY <1>1, <3>5 DEF ToSet, X
  <2>3. alert' \in {Quiet} \cup [rule : ToSet(RuleNames), ip : Ips(arrivals') \cup {NoIp}]
    <3>1. Ips(kept') \subseteq Ips(arrivals')
      BY <2>2 DEF Ips, ToSet
    <3>2. CASE alert' = Quiet
      BY <3>2
    <3>3. ASSUME NEW r \in 1 .. 7, alert' \in Evaluate(kept')[r]
          PROVE  alert' \in [rule : ToSet(RuleNames), ip : Ips(arrivals') \cup {NoIp}]
      <4>1. PICK ip \in Ips(kept') \cup {NoIp} : alert' = Alert(RuleNames[r], ip)
        BY <1>7, <3>3, RulesName
      <4>2. RuleNames[r] \in ToSet(RuleNames)
        BY RulesAre DEF ToSet
      <4> QED
        BY <3>1, <4>1, <4>2 DEF Alert
    <3> QED
      BY <1>1, <3>2, <3>3, FirstTells
  <2> QED
    BY <1>1, <1>2, <2>1, <2>2, <2>3 DEF SiemTypeOK
<1> QED
  BY <1>1, <1>3, <1>7, <1>8, <1>11, <1>13, <1>14, <1>15 DEF SiemInv

LEMMA ArriveStep == ASSUME SiemInv, Arrive PROVE SiemInv' /\ Judged'
<1>1. PICK shape \in Shapes, ago \in 0 .. MaxLate :
        Ingest([type |-> shape.type, attack |-> shape.attack, ip |-> shape.ip,
                path |-> shape.path, stamp |-> siemNow - ago])
  BY DEF Arrive
<1> DEFINE e == [type |-> shape.type, attack |-> shape.attack, ip |-> shape.ip,
                 path |-> shape.path, stamp |-> siemNow - ago]
<1>2. siemNow - ago \in Int
  BY SiemAssumption DEF SiemInv, SiemTypeOK
<1>3. e \in Incidents /\ Ingest(e) /\ Len(arrivals) < MaxArrivals
  BY <1>1, <1>2 DEF Incidents, Arrive
<1> HIDE DEF e
<1> QED
  BY <1>3, IngestStep

LEMMA CleanStep == ASSUME SiemInv, Clean PROVE SiemInv'
<1> DEFINE start == siemNow - Window
           young == Since(kept, start)
<1>1. /\ kept' = young /\ UNCHANGED <<siemNow, arrivals, alert, cleaner>>
      /\ kept \in Seq(Incidents) /\ arrivals \in Seq(Incidents)
  BY DEF Clean, Young, SiemInv
<1>2. /\ Young(kept)' = Since(young, start) /\ Young(kept) = young
      /\ Young(arrivals)' = Young(arrivals)
      /\ Young(Recent(arrivals))' = Young(Recent(arrivals))
  BY <1>1 DEF Young, Recent
<1>3. /\ young \in Seq(Incidents) /\ young \in Seq(Later(Incidents, start))
      /\ Len(young) <= Len(kept) /\ Len(young) \in Nat /\ Len(kept) \in Nat
  BY <1>1, YoungIs
<1>4. Since(young, start) = young
  BY <1>3, SinceAll
<1>5. ToSet(young) \subseteq ToSet(kept)
  <2> DEFINE X == ToSet(kept)
  <2>1. kept \in Seq(X)
    BY <1>1, ElementsMakeSeq
  <2> HIDE DEF X
  <2>2. young \in Seq(X)
    BY <2>1, YoungIs
  <2> QED
    BY <2>2 DEF ToSet, X
<1> HIDE DEF young
<1>6. SiemTypeOK'
  BY <1>1, <1>3, <1>5, SiemAssumption DEF SiemInv, SiemTypeOK
<1> QED
  BY <1>1, <1>2, <1>3, <1>4, <1>6 DEF SiemInv

(* When a second has passed, less is young, at the same end of both lists. *)
LEMMA ElapseStep == ASSUME SiemInv, SiemElapse PROVE SiemInv'
<1> DEFINE start == siemNow - Window
           next == siemNow' - Window
           recent == Recent(arrivals)
<1>1. /\ siemNow' = siemNow + 1 /\ siemNow' \in 0 .. MaxSeconds
      /\ UNCHANGED <<kept, arrivals, alert, cleaner>>
      /\ kept \in Seq(Incidents) /\ arrivals \in Seq(Incidents)
      /\ EndOf(Since(kept, start), Since(arrivals, start))
      /\ EndOf(Since(recent, start), Since(kept, start))
  BY SiemAssumption DEF SiemElapse, SiemInv, SiemTypeOK, Young
<1>2. start \in Int /\ next \in Int /\ start <= next
  BY <1>1, SiemAssumption DEF SiemInv, SiemTypeOK
<1>3. /\ Young(kept)' = Since(kept, next) /\ Young(arrivals)' = Since(arrivals, next)
      /\ Young(Recent(arrivals))' = Since(recent, next)
  BY <1>1 DEF Young, Recent
<1> HIDE DEF start, next
<1>4. \A e \in Incidents : e.stamp \in Int
  BY DEF Incidents
<1>5. recent \in Seq(Incidents)
  BY <1>1, RecentIs
<1> HIDE DEF recent
<1>6. \A s \in Seq(Incidents) : Since(Since(s, start), next) = Since(s, next)
  BY <1>2, <1>4, SinceSince
<1>7. /\ Since(kept, start) \in Seq(Incidents) /\ Since(arrivals, start) \in Seq(Incidents)
      /\ Since(recent, start) \in Seq(Incidents)
  BY <1>1, <1>5, YoungIs
<1>8. /\ EndOf(Since(Since(kept, start), next), Since(Since(arrivals, start), next))
      /\ EndOf(Since(Since(recent, start), next), Since(Since(kept, start), next))
  BY <1>1, <1>7, EndsSince
<1>9. /\ EndOf(Since(kept, next), Since(arrivals, next))
      /\ EndOf(Since(recent, next), Since(kept, next))
  BY <1>1, <1>5, <1>6, <1>8
<1>10. SiemTypeOK'
  BY <1>1 DEF SiemInv, SiemTypeOK, Ips
<1> QED
  BY <1>1, <1>3, <1>9, <1>10 DEF SiemInv

(* Starting and stopping the cleaner change none of this.                  *)
LEMMA SiemStill ==
  ASSUME SiemInv, UNCHANGED <<siemNow, kept, arrivals, alert>>,
         cleaner' \in {"new", "running", "stopped"}
  PROVE  SiemInv'
<1>1. /\ Young(kept)' = Young(kept) /\ Young(arrivals)' = Young(arrivals)
      /\ Young(Recent(arrivals))' = Young(Recent(arrivals))
  BY DEF Young, Recent
<1>2. SiemTypeOK'
  BY DEF SiemInv, SiemTypeOK, Ips
<1> QED
  BY <1>1, <1>2 DEF SiemInv

LEMMA SiemStep == ASSUME SiemInv, [SiemNext]_siemVars PROVE SiemInv'
<1>1. CASE Arrive
  BY <1>1, ArriveStep
<1>2. CASE SiemStart \/ SiemStop
  BY <1>2, SiemStill DEF SiemStart, SiemStop
<1>3. CASE UNCHANGED siemVars
  BY <1>3, SiemStill DEF siemVars, SiemInv, SiemTypeOK
<1> QED
  BY <1>1, <1>2, <1>3, CleanStep, ElapseStep DEF SiemNext

LEMMA SiemBegin == SiemInit => SiemInv
<1> SUFFICES ASSUME SiemInit PROVE SiemInv
  OBVIOUS
<1>1. siemNow = 0 /\ kept = <<>> /\ arrivals = <<>> /\ alert = Quiet /\ cleaner = "new"
  BY DEF SiemInit
<1>2. Recent(<<>>) = <<>>
  <2>1. <<>> \in Seq(Incidents) /\ Len(<<>>) = 0 /\ MaxEvents \in Nat
    BY SiemAssumption
  <2> DEFINE none == <<>>
  <2>2. none \in Seq(Incidents) /\ Len(none) = 0
    BY <2>1
  <2> HIDE DEF none
  <2>3. Recent(none) \in Seq(Incidents) /\ Len(Recent(none)) = 0
    <3>1. /\ Recent(none) \in Seq(Incidents)
          /\ Len(Recent(none)) = IF Len(none) > MaxEvents THEN MaxEvents ELSE Len(none)
      BY <2>2, RecentIs
    <3> QED
      BY <2>1, <2>2, <3>1
  <2>4. Recent(none) = <<>>
    BY <2>3
  <2> QED
    BY <2>4 DEF none
<1>3. /\ Young(kept) = <<>> /\ Young(arrivals) = <<>>
      /\ Young(Recent(arrivals)) = <<>>
  BY <1>1, <1>2, SinceEmpty DEF Young
<1>4. EndOf(<<>>, <<>>)
  <2>1. <<>> \in Seq(Incidents)
    OBVIOUS
  <2> QED
    BY <2>1, EmptyEnd
<1>5. SiemTypeOK
  <2>1. ToSet(kept) \subseteq ToSet(arrivals)
    BY <1>1
  <2>2. Len(kept) = 0 /\ Len(arrivals) = 0
    BY <1>1
  <2> QED
    BY <1>1, <2>1, <2>2, SiemAssumption DEF SiemTypeOK
<1>6. arrivals \in Seq(Incidents) /\ kept \in Seq(Incidents)
  BY <1>1
<1> QED
  BY <1>3, <1>4, <1>5, <1>6 DEF SiemInv

LEMMA SiemInvariance == SiemSpec => []SiemInv
BY SiemBegin, SiemStep, PTL DEF SiemSpec

LEMMA AnswerIsDue ==
  SiemInv /\ [SiemNext]_siemVars => [arrivals' # arrivals => AlertIsDue']_siemVars
<1> SUFFICES ASSUME SiemInv, SiemNext, arrivals' # arrivals PROVE AlertIsDue'
  OBVIOUS
<1>1. Arrive
  BY DEF SiemNext, SiemStart, Clean, SiemStop, SiemElapse
<1>2. Judged'
  BY <1>1, ArriveStep
<1> QED
  BY <1>2, DueNext

(* Whatever arrives in whatever order, with any thresholds, windows and    *)
(* sizes, Ingest answers what is true of everything received: an alert     *)
(* names a rule and an address whose threshold the young incidents fill,   *)
(* and no earlier rule is passed over that the young among the last        *)
(* MaxEvents would fill.                                                   *)
THEOREM SiemTheorem == SiemSpec => SiemTellsTheWindow
BY SiemInvariance, AnswerIsDue, PTL DEF SiemSpec, SiemTellsTheWindow

-----------------------------------------------------------------------------
(* The parts side by side.                                                 *)

(* A behaviour of the composition is, part by part, one of every part: the *)
(* others' steps leave its variables alone.                                *)
LEMMA PartsAreParts ==
  PartsSpec => LimiterSpec /\ SiemSpec /\ SseSpec /\ WindowSpec /\ TablesSpec
               /\ OverviewSpec /\ LogSpec
<1>1. PartsInit => /\ LimiterInit /\ SiemInit /\ SseInit /\ WindowInit /\ TablesInit
                   /\ OverviewInit /\ LogInit
  BY DEF PartsInit
<1>2. [PartsNext]_partsVars => [SiemNext]_siemVars
  BY DEF PartsNext, partsVars
<1>3. [PartsNext]_partsVars => [SseNext]_sseVars
  BY DEF PartsNext, partsVars
<1>4. [PartsNext]_partsVars => [WindowNext]_windowVars
  BY DEF PartsNext, partsVars
<1>5. [PartsNext]_partsVars => [TablesNext]_tablesVars
  BY DEF PartsNext, partsVars
<1>6. [PartsNext]_partsVars => [OverviewNext]_overviewVars
  BY DEF PartsNext, partsVars
<1>7. [PartsNext]_partsVars => [LogNext]_logVars
  BY DEF PartsNext, partsVars
<1>8. [PartsNext]_partsVars => [LimiterNext]_limiterVars
  BY DEF PartsNext, partsVars
<1> QED
  BY <1>1, <1>2, <1>3, <1>4, <1>5, <1>6, <1>7, <1>8, PTL
     DEF PartsSpec, LimiterSpec, SiemSpec, SseSpec, WindowSpec, TablesSpec,
         OverviewSpec, LogSpec

(* Every variable of every part keeps its type, side by side with the      *)
(* other parts, for every value of the constants.                          *)
THEOREM PartsTypeCorrect == PartsSpec => []PartsTypeOK
<1>1. SiemInv /\ SseInv /\ WindowInv /\ TablesInv /\ OverviewInv /\ LogInv
        => PartsTypeOK
  BY DEF SiemInv, SseInv, WindowInv, TablesInv, OverviewInv, LogInv,
     PartsTypeOK
<1> QED
  BY <1>1, PartsAreParts, SiemInvariance, SseInvariance, WindowInvariance,
     TablesInvariance, OverviewInvariance, LogInvariance, PTL
=============================================================================
