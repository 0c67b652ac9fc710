-------------------------- MODULE ScanGuard_proofs --------------------------
(***************************************************************************)
(* The safety properties of ScanGuard for any number of scans, findings    *)
(* and restarts.  They are inductive together with StatusFollowsCode: what *)
(* a row can say while its scan is at a given place of the code.  At the   *)
(* end: ScanRun implements ScanGuard, and so has these properties too.     *)
(***************************************************************************)
EXTENDS ScanRun, FiniteSetTheorems, TLAPS

BeforeRow == {"new", "rejected", "conflict", "reserved", "aborting", "failed"}

StatusFollowsCode ==
  \A s \in Scans :
    /\ pc[s] \in BeforeRow => status[s] = "none"
    /\ pc[s] = "scanning" => status[s] = "running"
    /\ pc[s] = "storing" => status[s] = "completed"

IInv ==
  /\ TypeOK
  /\ GuardMatchesScan
  /\ RunningRowsAreExplained
  /\ FindingsFollowStatus
  /\ StatusFollowsCode

(* What the invariant says of one scan, as one list of facts.              *)
Good(s) ==
  /\ activeScan = s <=> pc[s] \in Holding
  /\ status[s] = "running" =>
       pc[s] = "scanning" \/ s \in unrecorded \/ pc[s] = "killed"
  /\ Tried(s) # {} => status[s] = "completed"
  /\ status[s] = "completed" /\ Tried(s) # 1 .. found[s]
       => pc[s] \in {"storing", "killed"}
  /\ pc[s] \in BeforeRow => status[s] = "none"
  /\ pc[s] = "scanning" => status[s] = "running"
  /\ pc[s] = "storing" => status[s] = "completed"

LEMMA Parts == IInv <=> TypeOK /\ \A s \in Scans : Good(s)
  BY DEF IInv, Good, GuardMatchesScan, RunningRowsAreExplained,
         FindingsFollowStatus, StatusFollowsCode

LEMMA InitIInv == Init => IInv
<1> SUFFICES ASSUME Init PROVE IInv
  OBVIOUS
<1>1. TypeOK
  BY ScanAssumption DEF Init, TypeOK, PC
<1>2. \A s \in Scans : Good(s)
  BY ScanAssumption DEF Init, Good, Holding, BeforeRow, Tried
<1> QED
  BY <1>1, <1>2, Parts

(* A step of scan s leaves another scan t as it was, and the guard is      *)
(* neither taken from t nor given to it.                                   *)
LEMMA OthersKept ==
  ASSUME NEW s \in Scans, NEW t \in Scans \ {s}, Good(t),
         pc'[t] = pc[t], status'[t] = status[t],
         stored'[t] = stored[t], missed'[t] = missed[t], found'[t] = found[t],
         unrecorded \subseteq unrecorded',
         activeScan' = t <=> activeScan = t
  PROVE  Good(t)'
  BY DEF Good, Tried

LEMMA StartStep ==
  ASSUME IInv, NEW s \in Scans, Start(s)
  PROVE  IInv'
<1> USE DEF Goto, database
<1>1. TypeOK /\ \A t \in Scans : Good(t)
  BY Parts
<1>2. TypeOK'
  BY <1>1, ScanAssumption
  DEF TypeOK, PC, Holding, Start, Reject, Reserve, Conflict, Create, CreateFails,
      Abort
<1>3. activeScan = s <=> pc[s] \in Holding
  BY <1>1 DEF Good
<1>4. ASSUME NEW t \in Scans \ {s} PROVE Good(t)'
  <2>1. /\ pc'[t] = pc[t] /\ status'[t] = status[t]
        /\ stored'[t] = stored[t] /\ missed'[t] = missed[t]
        /\ found'[t] = found[t]
        /\ unrecorded \subseteq unrecorded'
    BY <1>1
    DEF TypeOK, Start, Reject, Reserve, Conflict, Create, CreateFails, Abort
  <2>2. activeScan' = t <=> activeScan = t
    BY <1>3, ScanAssumption
    DEF Start, Reject, Reserve, Conflict, Create, CreateFails, Abort, Holding
  <2> QED
    BY <1>1, <2>1, <2>2, OthersKept
<1>5. Good(s)'
  <2>0. Good(s)
    BY <1>1
  <2>1. CASE Reject(s)
    BY <1>1, <2>0, <2>1 DEF TypeOK, Reject, Good, Holding, BeforeRow, Tried
  <2>2. CASE Reserve(s)
    BY <1>1, <2>0, <2>2 DEF TypeOK, Reserve, Good, Holding, BeforeRow, Tried
  <2>3. CASE Conflict(s)
    BY <1>1, <2>0, <2>3 DEF TypeOK, Conflict, Good, Holding, BeforeRow, Tried
  <2>4. CASE Create(s)
    BY <1>1, <2>0, <2>4 DEF TypeOK, Create, Good, Holding, BeforeRow, Tried
  <2>5. CASE CreateFails(s)
    BY <1>1, <2>0, <2>5 DEF TypeOK, CreateFails, Good, Holding, BeforeRow, Tried
  <2>6. CASE Abort(s)
    BY <1>1, <2>0, <2>6, ScanAssumption
    DEF TypeOK, Abort, Good, Holding, BeforeRow, Tried
  <2> QED
    BY <2>1, <2>2, <2>3, <2>4, <2>5, <2>6 DEF Start
<1>6. \A t \in Scans : Good(t)'
  BY <1>4, <1>5
<1> QED
  BY <1>2, <1>6
  DEF IInv, Good, GuardMatchesScan, RunningRowsAreExplained,
      FindingsFollowStatus, StatusFollowsCode

LEMMA RunStep ==
  ASSUME IInv, NEW s \in Scans, Run(s)
  PROVE  IInv'
<1> USE DEF Goto, database
<1>1. TypeOK /\ \A t \in Scans : Good(t)
  BY Parts
<1>2. TypeOK'
  <2>1. CASE ScanFails(s)
    BY <1>1, <2>1 DEF TypeOK, PC, Holding, ScanFails, Conclude
  <2>2. ASSUME NEW n \in 0 .. Findings, ScanSucceeds(s, n) PROVE TypeOK'
    BY <1>1, <2>2 DEF TypeOK, PC, Holding, ScanSucceeds, Conclude
  <2>3. CASE StoreFinding(s)
    <3>1. 1 .. found[s] \subseteq 1 .. Findings
      BY <1>1, ScanAssumption DEF TypeOK
    <3> QED
      BY <1>1, <2>3, <3>1 DEF TypeOK, StoreFinding
  <2>4. CASE AllTried(s)
    BY <1>1, <2>4 DEF TypeOK, PC, Holding, AllTried
  <2>5. CASE Release(s)
    BY <1>1, <2>5 DEF TypeOK, PC, Holding, Release
  <2> QED
    BY <2>1, <2>2, <2>3, <2>4, <2>5 DEF Run, Finish
<1>3. activeScan = s <=> pc[s] \in Holding
  BY <1>1 DEF Good
<1>4. ASSUME NEW t \in Scans \ {s} PROVE Good(t)'
  <2>1. /\ pc'[t] = pc[t] /\ status'[t] = status[t]
        /\ unrecorded \subseteq unrecorded'
    BY <1>1
    DEF TypeOK, Run, Finish, ScanFails, ScanSucceeds, Conclude, StoreFinding,
        AllTried, Release
  <2>2. stored'[t] = stored[t] /\ missed'[t] = missed[t] /\ found'[t] = found[t]
    BY <1>1
    DEF TypeOK, Run, Finish, ScanFails, ScanSucceeds, StoreFinding, AllTried,
        Release
  <2>3. activeScan' = t <=> activeScan = t
    BY <1>3, ScanAssumption
    DEF Run, Finish, ScanFails, ScanSucceeds, StoreFinding, AllTried, Release
  <2> QED
    BY <1>1, <2>1, <2>2, <2>3, OthersKept
<1>5. Good(s)'
  <2>0. Good(s)
    BY <1>1
  <2>1. CASE ScanFails(s)
    BY <1>1, <2>0, <2>1
    DEF TypeOK, ScanFails, Conclude, Good, Holding, BeforeRow, Tried
  <2>2. ASSUME NEW n \in 0 .. Findings, ScanSucceeds(s, n) PROVE Good(s)'
    BY <1>1, <2>0, <2>2, ScanAssumption
    DEF TypeOK, ScanSucceeds, Conclude, Good, Holding, BeforeRow, Tried
  <2>3. CASE StoreFinding(s)
    BY <1>1, <2>0, <2>3
    DEF TypeOK, StoreFinding, Good, Holding, BeforeRow, Tried
  <2>4. CASE AllTried(s)
    BY <1>1, <2>0, <2>4 DEF TypeOK, AllTried, Good, Holding, BeforeRow, Tried
  <2>5. CASE Release(s)
    BY <1>1, <2>0, <2>5, ScanAssumption
    DEF TypeOK, Release, Good, Holding, BeforeRow, Tried
  <2> QED
    BY <2>1, <2>2, <2>3, <2>4, <2>5 DEF Run, Finish
<1>6. \A t \in Scans : Good(t)'
  BY <1>4, <1>5
<1> QED
  BY <1>2, <1>6
  DEF IInv, Good, GuardMatchesScan, RunningRowsAreExplained,
      FindingsFollowStatus, StatusFollowsCode

LEMMA RestartStep ==
  ASSUME IInv, Restart
  PROVE  IInv'
<1> USE DEF database
<1>1. TypeOK /\ \A t \in Scans : Good(t)
  BY Parts
<1>2. TypeOK'
  BY <1>1, ScanAssumption DEF TypeOK, PC, Holding, Restart
<1>3. ASSUME NEW s \in Scans PROVE Good(s)'
  BY <1>1, ScanAssumption
  DEF TypeOK, PC, Restart, Good, Holding, BeforeRow, Tried
<1> QED
  BY <1>2, <1>3
  DEF IInv, Good, GuardMatchesScan, RunningRowsAreExplained,
      FindingsFollowStatus, StatusFollowsCode

LEMMA NextIInv == IInv /\ [Next]_vars => IInv'
<1> SUFFICES ASSUME IInv, [Next]_vars PROVE IInv'
  OBVIOUS
<1>1. CASE Restart
  BY <1>1, RestartStep
<1>2. ASSUME NEW s \in Scans, Start(s) PROVE IInv'
  BY <1>2, StartStep
<1>3. ASSUME NEW s \in Scans, Run(s) PROVE IInv'
  BY <1>3, RunStep
<1>4. CASE UNCHANGED vars
  BY <1>4
  DEF IInv, vars, database, TypeOK, GuardMatchesScan, RunningRowsAreExplained,
      FindingsFollowStatus, StatusFollowsCode, Tried
<1> QED
  BY <1>1, <1>2, <1>3, <1>4 DEF Next

THEOREM Invariance == Spec => []IInv
<1> QED
  BY InitIInv, NextIInv, PTL DEF Spec

(* Every variable keeps its type; a scan stores only findings it has.      *)
THEOREM TypeCorrect == Spec => []TypeOK
<1>1. IInv => TypeOK
  BY DEF IInv
<1> QED
  BY <1>1, Invariance, PTL

(* The guard is held by exactly the scan under way, so that two scans are  *)
(* never under way at once and the guard is never left behind.             *)
THEOREM GuardTheorem == Spec => []GuardMatchesScan
<1>1. IInv => GuardMatchesScan
  BY DEF IInv
<1> QED
  BY <1>1, Invariance, PTL

(* A row left "running" is due to a failed update or to a restart; only    *)
(* completed scans have findings, and they have all of them unless they    *)
(* are still storing them or were killed doing so.                         *)
THEOREM RowsTheorem == Spec => []RowsTellTheScan
<1>1. IInv => RowsTellTheScan
  BY DEF IInv, RowsTellTheScan
<1> QED
  BY <1>1, Invariance, PTL

(* The last status of a scan is never written over.                        *)
THEOREM StatusTheorem == Spec => StatusIsFinal
<1>1. IInv /\ [Next]_vars =>
        [\A s \in Scans :
           status[s] \in {"failed", "completed"} => status'[s] = status[s]]_vars
  <2> SUFFICES ASSUME IInv, [Next]_vars, NEW s \in Scans,
                      status[s] \in {"failed", "completed"}
               PROVE  status'[s] = status[s]
    OBVIOUS
  <2> USE DEF Goto, database
  <2>1. TypeOK /\ Good(s)
    BY Parts
  <2>2. ASSUME NEW t \in Scans, Start(t) PROVE status'[s] = status[s]
    BY <2>1, <2>2
    DEF TypeOK, Good, BeforeRow, Start, Reject, Reserve, Conflict, Create,
        CreateFails, Abort
  <2>3. ASSUME NEW t \in Scans, Run(t) PROVE status'[s] = status[s]
    BY <2>1, <2>3
    DEF TypeOK, Good, Run, Finish, ScanFails, ScanSucceeds, Conclude,
        StoreFinding, AllTried, Release
  <2>4. Restart \/ UNCHANGED vars => status'[s] = status[s]
    BY DEF Restart, vars
  <2> QED
    BY <2>2, <2>3, <2>4 DEF Next
<1> QED
  BY <1>1, Invariance, PTL DEF Spec, StatusIsFinal
-----------------------------------------------------------------------------
(* ScanRun                                                                 *)

(* The types of what ScanRun adds to ScanGuard.                            *)
RunInv ==
  /\ kind \in {"vuln", "vapt"}
  /\ stage \in [Scans -> Stages]
  /\ hits \in [Scans -> 0 .. Findings]
  /\ listed \subseteq Scans
  /\ newest \in Scans \cup {NoScan}
  /\ view \in Views

(* A vulnerability scan that was given a list has returned with nothing,   *)
(* and has nothing to store.                                               *)
Unfound ==
  \A s \in listed :
    /\ kind = "vuln" => stage[s] = "returned" /\ hits[s] = 0
    /\ kind = "vuln" => stored[s] = {} /\ (pc[s] = "storing" => found[s] = 0)

LEMMA StepIsStep == RunInv /\ [RunNext]_runVars => [Next]_vars
<1> SUFFICES ASSUME RunInv, [RunNext]_runVars PROVE [Next]_vars
  OBVIOUS
<1>1. ASSUME NEW s \in Scans,
             \/ CommandFails(s) \/ CommandLists(s) \/ NothingParses(s)
             \/ Probe(s) \/ Handshake(s)
      PROVE  UNCHANGED vars
  BY <1>1 DEF CommandFails, CommandLists, NothingParses, Probe, Handshake
<1>2. ASSUME NEW s \in Scans,
             Handled(s) \/ Recorded(s) \/ Given(s) \/ Finished(s)
      PROVE  Next
  BY <1>2 DEF Handled, Recorded, Given, Finished, Next, Start, Run
<1>3. ASSUME NEW s \in Scans, Returned(s) PROVE Next
  <2>1. hits[s] \in 0 .. Findings /\ ScanSucceeds(s, hits[s])
    BY <1>3 DEF Returned, RunInv
  <2> QED
    BY <2>1 DEF Next, Run
<1>4. CASE Restarted
  BY <1>4 DEF Restarted, Next
<1>5. CASE ReadNewest \/ ReadNewestFails \/ CountFindings \/ CountsNothing
  BY <1>5 DEF ReadNewest, ReadNewestFails, CountFindings, CountsNothing
<1>6. CASE UNCHANGED runVars
  BY <1>6 DEF runVars
<1> QED
  BY <1>1, <1>2, <1>3, <1>4, <1>5, <1>6 DEF RunNext

LEMMA StagesAreNamed ==
  /\ Stages = {"manager", "dpkg-query", "rpm", "apk", "headers", "paths",
               "methods", "ports", "tls", "returned"}
  /\ DOMAIN Commands = 1 .. 4 /\ Len(Commands) = 4
  /\ DOMAIN Probes = 1 .. 5
  /\ \A i \in 1 .. 4 : Commands[i] \in Stages
  /\ \A i \in 1 .. 5 : Probes[i] \in Stages
<1>1. ToSet(Commands) = {"manager", "dpkg-query", "rpm", "apk"}
  BY DEF ToSet, Commands
<1>2. ToSet(Probes) = {"headers", "paths", "methods", "ports", "tls"}
  BY DEF ToSet, Probes
<1> QED
  BY <1>1, <1>2 DEF Stages, Commands, Probes

LEMMA InitRunInv == RunInit => RunInv
BY StagesAreNamed, ScanAssumption
DEF RunInit, RunInv, NoView, Views

LEMMA NextRunInv == TypeOK /\ RunInv /\ [RunNext]_runVars => RunInv'
<1> SUFFICES ASSUME TypeOK, RunInv, [RunNext]_runVars PROVE RunInv'
  OBVIOUS
<1> USE DEF RunInv
<1>1. ASSUME NEW s \in Scans, NEW n \in 0 .. Findings, Return(s, n)
      PROVE  /\ stage' \in [Scans -> Stages]
             /\ hits' \in [Scans -> 0 .. Findings]
  BY <1>1, StagesAreNamed DEF Return
<1>2. ASSUME NEW s \in Scans, CommandFails(s) PROVE RunInv'
  <2>1. PICK i \in DOMAIN Commands :
          \/ i < Len(Commands) /\ stage' = [stage EXCEPT ![s] = Commands[i + 1]]
                               /\ UNCHANGED hits
          \/ Return(s, MadeUp)
    BY <1>2 DEF CommandFails
  <2>2. /\ stage' \in [Scans -> Stages]
        /\ hits' \in [Scans -> 0 .. Findings]
    BY <1>1, <2>1, StagesAreNamed, ScanAssumption DEF MadeUp
  <2> QED
    BY <1>2, <2>2 DEF CommandFails
<1>3. ASSUME NEW s \in Scans, CommandLists(s) \/ NothingParses(s) PROVE RunInv'
  <2>1. MadeUp \in 0 .. Findings /\ 0 \in 0 .. Findings
    BY ScanAssumption DEF MadeUp
  <2> QED
    BY <1>1, <1>3, <2>1 DEF CommandLists, NothingParses
<1>4. ASSUME NEW s \in Scans, Probe(s) PROVE RunInv'
  <2>1. PICK n \in hits[s] .. Findings, i \in 1 .. 4 :
          IF i < 4 \/ s \in Https
          THEN /\ stage' = [stage EXCEPT ![s] = Probes[i + 1]]
               /\ hits' = [hits EXCEPT ![s] = n]
          ELSE Return(s, n)
    BY <1>4 DEF Probe, Answered
  <2>2. n \in 0 .. Findings
    BY ScanAssumption
  <2>3. /\ stage' \in [Scans -> Stages]
        /\ hits' \in [Scans -> 0 .. Findings]
    BY <1>1, <2>1, <2>2, StagesAreNamed
  <2> QED
    BY <1>4, <2>3 DEF Probe
<1>5. ASSUME NEW s \in Scans, Handshake(s) PROVE RunInv'
  <2>1. PICK n \in hits[s] .. Findings : Return(s, n)
    BY <1>5 DEF Handshake
  <2>2. n \in 0 .. Findings
    BY ScanAssumption
  <2> QED
    BY <1>1, <1>5, <2>1, <2>2 DEF Handshake
<1>6. ASSUME NEW s \in Scans,
             Handled(s) \/ Recorded(s) \/ Given(s) \/ Returned(s) \/ Finished(s)
      PROVE  RunInv'
  BY <1>6 DEF Handled, Recorded, Given, Returned, Finished, within
<1>7. CASE Restarted
  BY <1>7 DEF Restarted, within, NoView, Views
<1>8. CASE ReadNewest \/ ReadNewestFails
  <2> DEFINE row == IF newest = NoScan THEN "none" ELSE status[newest]
  <2>1. row \in {"none", "running", "failed", "completed"}
    BY DEF TypeOK
  <2>2. NoView \in Views
    BY DEF NoView, Views
  <2>3. ReadNewest =>
          view' = [NoView EXCEPT !.at = "row", !.scan = newest, !.status = row]
    BY DEF ReadNewest
  <2> HIDE DEF row
  <2>4. view' \in Views
    BY <1>8, <2>1, <2>2, <2>3 DEF ReadNewestFails, Views
  <2> QED
    BY <1>8, <2>4 DEF ReadNewest, ReadNewestFails, within
<1>9. CASE CountFindings \/ CountsNothing
  <2>1. ASSUME newest \in Scans PROVE Cardinality(stored[newest]) \in Nat
    <3>1. IsFiniteSet(1 .. Findings)
      BY FS_Interval, ScanAssumption
    <3> QED
      BY <2>1, <3>1, FS_Subset, FS_CardinalityType DEF TypeOK
  <2>2. CASE CountFindings
    <3>1. newest \in Scans /\ Cardinality(stored[newest]) \in Nat
      BY <2>1, <2>2 DEF CountFindings
    <3>2. (pc[newest] \in {"storing", "killed"} \/ missed[newest] # {}) \in BOOLEAN
      OBVIOUS
    <3> HIDE DEF RunInv
    <3>3. view \in Views
      BY DEF RunInv
    <3>4. view' \in Views
      BY <2>2, <3>1, <3>2, <3>3 DEF CountFindings, Views
    <3> QED
      BY <2>2, <3>4 DEF CountFindings, within, RunInv
  <2>3. CASE CountsNothing
    <3>1. view' \in Views
      BY <2>3 DEF CountsNothing, Views
    <3> QED
      BY <2>3, <3>1 DEF CountsNothing, within
  <2> QED
    BY <1>9, <2>2, <2>3
<1>10. CASE UNCHANGED runVars
  BY <1>10 DEF runVars, within
<1> QED
  BY <1>2, <1>3, <1>4, <1>5, <1>6, <1>7, <1>8, <1>9, <1>10 DEF RunNext

LEMMA RunInvariance == RunSpec => [](IInv /\ RunInv)
<1>1. RunInit => IInv /\ RunInv
  BY InitIInv, InitRunInv DEF RunInit
<1>2. IInv /\ RunInv /\ [RunNext]_runVars => (IInv /\ RunInv)'
  BY StepIsStep, NextIInv, NextRunInv DEF IInv
<1> QED
  BY <1>1, <1>2, PTL DEF RunSpec

(* ScanRun implements ScanGuard: whatever a scan does within, and whoever  *)
(* reads its figures meanwhile, its start, its rows and its guard are      *)
(* those of ScanGuard.                                                     *)
THEOREM Implementation == RunSpec => Spec
<1>1. RunInit => Init
  BY DEF RunInit
<1> QED
  BY <1>1, RunInvariance, StepIsStep, PTL DEF RunSpec, Spec

(* The type invariant of ScanRun.                                          *)
THEOREM RunTypeCorrect == RunSpec => []RunTypeOK
<1>1. IInv /\ RunInv => RunTypeOK
  BY DEF IInv, RunInv, RunTypeOK
<1> QED
  BY <1>1, RunInvariance, PTL

(* The safety properties of ScanGuard are those of ScanRun.                *)
THEOREM RunGuardTheorem == RunSpec => []GuardMatchesScan
BY Implementation, GuardTheorem, PTL

THEOREM RunRowsTheorem == RunSpec => []RowsTellTheScan
BY Implementation, RowsTheorem, PTL

LEMMA InitUnfound == RunInit => Unfound
BY DEF RunInit, Unfound

LEMMA NextUnfound ==
  IInv /\ RunInv /\ Unfound /\ [RunNext]_runVars => Unfound'
<1> SUFFICES ASSUME IInv, RunInv, Unfound, [RunNext]_runVars PROVE Unfound'
  OBVIOUS
<1> DEFINE Without(s) ==
      kind = "vuln" => /\ stage[s] = "returned" /\ hits[s] = 0
                       /\ stored[s] = {} /\ (pc[s] = "storing" => found[s] = 0)
<1>0. TypeOK /\ (\A s \in Scans : Good(s)) /\ \A s \in listed : Without(s)
  BY Parts DEF Unfound
<1>1. SUFFICES ASSUME NEW t \in listed' PROVE Without(t)'
  BY DEF Unfound
<1>2. ASSUME NEW s \in Scans, CommandFails(s) \/ NothingParses(s)
      PROVE  Without(t)'
  <2>1. t \in listed /\ t # s
    BY <1>0, <1>2 DEF CommandFails, NothingParses, At
  <2> QED
    BY <1>0, <1>2, <2>1 DEF CommandFails, NothingParses, Return, RunInv, vars, database
<1>3. ASSUME NEW s \in Scans, CommandLists(s) PROVE Without(t)'
  <2>1. pc[s] = "scanning" /\ stored[s] = {}
    BY <1>0, <1>3 DEF CommandLists, At, Good, Tried
  <2> QED
    BY <1>0, <1>3, <2>1
    DEF CommandLists, Return, RunInv, vars, database
<1>4. ASSUME NEW s \in Scans, Probe(s) \/ Handshake(s) PROVE Without(t)'
  BY <1>4 DEF Probe, Handshake, At
<1>5. ASSUME NEW s \in Scans, Handled(s) \/ Recorded(s) \/ Given(s)
      PROVE  Without(t)'
  BY <1>0, <1>5
  DEF Handled, Recorded, Given, within, Reject, Reserve, Conflict, Create,
      CreateFails, Abort, Goto, database, TypeOK, RunInv
<1>6. ASSUME NEW s \in Scans, Returned(s) PROVE Without(t)'
  BY <1>0, <1>6
  DEF Returned, within, ScanSucceeds, Conclude, Goto, TypeOK, RunInv
<1>7. ASSUME NEW s \in Scans, Finished(s) PROVE Without(t)'
  <2>1. /\ t \in Scans /\ Without(t)
        /\ kind' = kind /\ stage'[t] = stage[t] /\ hits'[t] = hits[t]
    BY <1>0, <1>7 DEF Finished, within, RunInv
  <2>2. CASE StoreFinding(s)
    <3>1. s # t \/ kind # "vuln"
      BY <2>1, <2>2 DEF StoreFinding
    <3> QED
      BY <1>0, <2>1, <2>2, <3>1 DEF StoreFinding, TypeOK
  <2>3. CASE AllTried(s) \/ Release(s)
    BY <1>0, <2>1, <2>3 DEF AllTried, Release, Goto, database, TypeOK
  <2> QED
    BY <1>7, <2>2, <2>3 DEF Finished, Finish
<1>8. CASE Restarted
  BY <1>0, <1>8 DEF Restarted, Restart, within, database, TypeOK, RunInv
<1>9. CASE \/ ReadNewest \/ ReadNewestFails \/ CountFindings \/ CountsNothing
           \/ UNCHANGED runVars
  BY <1>0, <1>9
  DEF ReadNewest, ReadNewestFails, CountFindings, CountsNothing, runVars, vars,
      within, database
<1> QED
  BY <1>2, <1>3, <1>4, <1>5, <1>6, <1>7, <1>8, <1>9 DEF RunNext

(* No scan has both findings and a package that its package manager told   *)
(* it of.                                                                  *)
THEOREM MadeUpTheorem == RunSpec => []FindingsAreMadeUp
<1>1. RunSpec => []Unfound
  BY RunInvariance, InitUnfound, NextUnfound, PTL DEF RunSpec
<1>2. Unfound => FindingsAreMadeUp
  BY DEF Unfound, FindingsAreMadeUp
<1> QED
  BY <1>1, <1>2, PTL

(* What the rows say a reader may rely on: a scan that has completed stays *)
(* so, with the findings it has; and nothing is stored that was not found. *)
FoundOnly == \A s \in Scans : Tried(s) \subseteq 1 .. found[s]

(* A reader between its two statements has counted nothing, and a scan it  *)
(* saw completed has.                                                      *)
ViewIsPast ==
  /\ view.at = "row" => view.count = 0 /\ view.excused
  /\ view.scan # NoScan /\ view.status = "completed" =>
       status[view.scan] = "completed"

StatsInv == FoundOnly /\ ViewIsPast /\ StatsTellTheScan

LEMMA RowsMove ==
  ASSUME IInv, FoundOnly, [Next]_vars
  PROVE  /\ FoundOnly'
         /\ \A s \in Scans :
              /\ status[s] = "completed" => status'[s] = "completed"
              /\ found'[s] # found[s] => status[s] = "running"
<1> USE DEF Goto, database
<1>1. TypeOK /\ \A s \in Scans : Good(s)
  BY Parts
<1>2. SUFFICES ASSUME NEW s \in Scans
               PROVE  /\ Tried(s)' \subseteq 1 .. found'[s]
                      /\ status[s] = "completed" => status'[s] = "completed"
                      /\ found'[s] # found[s] => status[s] = "running"
  BY DEF FoundOnly
<1>3. Tried(s) \subseteq 1 .. found[s] /\ Good(s)
  BY <1>1 DEF FoundOnly
<1>4. ASSUME NEW t \in Scans, Start(t)
      PROVE  /\ stored' = stored /\ missed' = missed /\ found' = found
             /\ status[s] = "completed" => status'[s] = "completed"
  BY <1>1, <1>3, <1>4
  DEF TypeOK, Good, BeforeRow, Start, Reject, Reserve, Conflict, Create,
      CreateFails, Abort
<1>5. ASSUME NEW t \in Scans, NEW n \in 0 .. Findings, ScanSucceeds(t, n)
      PROVE  /\ Tried(s)' \subseteq 1 .. found'[s]
             /\ status[s] = "completed" => status'[s] = "completed"
             /\ found'[s] # found[s] => status[s] = "running"
  <2>1. /\ stored' = stored /\ missed' = missed /\ pc[t] = "scanning"
        /\ found' = [found EXCEPT ![t] = n]
        /\ status' = status \/ status' = [status EXCEPT ![t] = "completed"]
    BY <1>5 DEF ScanSucceeds, Conclude
  <2>2. CASE s = t
    <3>1. status[s] = "running" /\ Tried(s) = {}
      BY <1>3, <2>1, <2>2 DEF Good
    <3> QED
      BY <1>1, <2>1, <2>2, <3>1 DEF TypeOK, Tried
  <2>3. CASE s # t
    BY <1>1, <1>3, <2>1, <2>3 DEF TypeOK, Tried
  <2> QED
    BY <2>2, <2>3
<1>6. ASSUME NEW t \in Scans, ScanFails(t)
      PROVE  /\ stored' = stored /\ missed' = missed /\ found' = found
             /\ status[s] = "completed" => status'[s] = "completed"
  BY <1>1, <1>3, <1>6 DEF TypeOK, Good, ScanFails, Conclude
<1>7. ASSUME NEW t \in Scans, StoreFinding(t)
      PROVE  Tried(s)' \subseteq 1 .. found[s] /\ found' = found /\ status' = status
  BY <1>1, <1>3, <1>7 DEF TypeOK, StoreFinding, Tried
<1>8. ASSUME NEW t \in Scans, AllTried(t) \/ Release(t)
      PROVE  UNCHANGED <<stored, missed, found, status>>
  BY <1>8 DEF AllTried, Release
<1>9. Restart \/ UNCHANGED vars => UNCHANGED <<stored, missed, found, status>>
  BY DEF Restart, vars
<1> QED
  BY <1>3, <1>4, <1>5, <1>6, <1>7, <1>8, <1>9 DEF Next, Run, Finish, Tried

(* What has been shown stays true while the scans go on.                   *)
LEMMA ShownStays ==
  ASSUME IInv, RunInv, StatsInv, [Next]_vars, view' = view
  PROVE  StatsInv'
<1>1. /\ FoundOnly'
      /\ \A s \in Scans :
           /\ status[s] = "completed" => status'[s] = "completed"
           /\ found'[s] # found[s] => status[s] = "running"
  BY RowsMove DEF StatsInv
<1>2. view \in Views /\ view.scan \in Scans \cup {NoScan} /\ view.count \in Nat
  BY DEF RunInv, Views
<1>3. ViewIsPast'
  BY <1>1, <1>2 DEF StatsInv, ViewIsPast
<1>4. StatsTellTheScan'
  <2> SUFFICES ASSUME view.at = "shown", view.scan \in Scans,
                      view.counted = view.scan
               PROVE  /\ view.count <= found'[view.scan]
                      /\ view.count > 0 => status'[view.scan] = "completed"
                      /\ view.status = "completed" /\ ~view.excused =>
                           view.count = found'[view.scan]
    BY <1>2 DEF StatsTellTheScan
  <2>1. /\ view.count <= found[view.scan]
        /\ view.count > 0 => status[view.scan] = "completed"
        /\ view.status = "completed" /\ ~view.excused =>
             view.count = found[view.scan]
        /\ view.status = "completed" => status[view.scan] = "completed"
    BY ScanAssumption DEF StatsInv, StatsTellTheScan, ViewIsPast
  <2>2. CASE found'[view.scan] = found[view.scan]
    BY <1>1, <2>1, <2>2
  <2>3. CASE found'[view.scan] # found[view.scan]
    <3>1. status[view.scan] = "running"
      BY <1>1, <2>3
    <3>2. view.count = 0 /\ view.status # "completed"
      BY <1>2, <2>1, <3>1
    <3>3. found'[view.scan] \in Nat
      <4>1. TypeOK'
        BY NextIInv DEF IInv
      <4> QED
        BY <4>1, ScanAssumption DEF TypeOK
    <3> QED
      BY <3>2, <3>3
  <2> QED
    BY <2>2, <2>3
<1> QED
  BY <1>1, <1>3, <1>4 DEF StatsInv

LEMMA ReadStep ==
  ASSUME IInv, RunInv, StatsInv,
         ReadNewest \/ ReadNewestFails \/ CountFindings \/ CountsNothing
  PROVE  StatsInv'
<1>1. TypeOK /\ \A s \in Scans : Good(s)
  BY Parts
<1>2. /\ UNCHANGED <<vars, newest>> /\ FoundOnly'
      /\ \A s \in Scans : found'[s] = found[s] /\ status'[s] = status[s]
  <2>1. UNCHANGED <<vars, newest>>
    BY DEF ReadNewest, ReadNewestFails, CountFindings, CountsNothing
  <2> QED
    BY <2>1 DEF StatsInv, FoundOnly, Tried, vars, database
<1>3. view \in Views /\ NoView \in Views /\ newest \in Scans \cup {NoScan}
  BY DEF RunInv, NoView, Views
<1> SUFFICES ViewIsPast' /\ StatsTellTheScan'
  BY <1>2 DEF StatsInv
<1>4. CASE ReadNewest
  <2> DEFINE row == IF newest = NoScan THEN "none" ELSE status[newest]
  <2>1. view' = [NoView EXCEPT !.at = "row", !.scan = newest, !.status = row]
    BY <1>4 DEF ReadNewest
  <2> HIDE DEF row
  <2>2. /\ view'.at = "row" /\ view'.count = 0 /\ view'.excused
        /\ view'.scan = newest /\ view'.status = row
    BY <2>1 DEF NoView
  <2> QED
    BY <1>2, <1>3, <2>2 DEF row, ViewIsPast, StatsTellTheScan
<1>5. CASE ReadNewestFails
  <2>1. /\ view'.at = "row" /\ view'.count = 0 /\ view'.excused
        /\ view'.scan = NoScan
    BY <1>5 DEF ReadNewestFails, NoView
  <2> QED
    BY <2>1 DEF ViewIsPast, StatsTellTheScan
<1>6. CASE CountsNothing
  <2>1. /\ view.at = "row" /\ view'.at = "shown"
        /\ view'.count = view.count /\ view'.excused = view.excused
        /\ view'.scan = view.scan /\ view'.status = view.status
    BY <1>3, <1>6 DEF CountsNothing, Views
  <2>2. view.count = 0 /\ view.excused
    BY <2>1 DEF StatsInv, ViewIsPast
  <2>3. view.scan # NoScan => found[view.scan] \in Nat /\ view.scan \in Scans
    BY <1>1, <1>3, ScanAssumption DEF Views, TypeOK
  <2>4. ViewIsPast'
    BY <1>2, <2>1, <2>3 DEF StatsInv, ViewIsPast
  <2>5. StatsTellTheScan'
    BY <1>2, <2>1, <2>2, <2>3 DEF StatsTellTheScan
  <2> QED
    BY <2>4, <2>5
<1>7. CASE CountFindings
  <2> DEFINE all == stored[newest]
             excuse == pc[newest] \in {"storing", "killed"} \/ missed[newest] # {}
  <2>1. /\ view.at = "row" /\ newest # NoScan
        /\ view' = [view EXCEPT !.at = "shown", !.counted = newest,
             !.count = Cardinality(all), !.excused = excuse]
    BY <1>7 DEF CountFindings
  <2>2. newest \in Scans /\ Good(newest) /\ Tried(newest) \subseteq 1 .. found[newest]
    BY <1>1, <1>3, <2>1 DEF StatsInv, FoundOnly
  <2>3. /\ found[newest] \in Nat /\ IsFiniteSet(1 .. found[newest])
        /\ Cardinality(1 .. found[newest]) = found[newest]
    BY <1>1, <2>2, FS_Interval, ScanAssumption DEF TypeOK
  <2>4. all \subseteq 1 .. found[newest]
    BY <2>2 DEF Tried
  <2>5. /\ Cardinality(all) \in Nat /\ Cardinality(all) <= found[newest]
        /\ Cardinality(all) > 0 => all # {}
    BY <2>3, <2>4, FS_Subset, FS_CardinalityType, FS_EmptySet
  <2>6. Cardinality(all) > 0 => status[newest] = "completed"
    BY <2>2, <2>5 DEF Good, Tried
  <2>7. status[newest] = "completed" /\ ~excuse => Cardinality(all) = found[newest]
    <3> SUFFICES ASSUME status[newest] = "completed", ~excuse
                 PROVE  Cardinality(all) = found[newest]
      OBVIOUS
    <3>1. Tried(newest) = 1 .. found[newest]
      BY <2>2 DEF Good
    <3>2. all = 1 .. found[newest]
      BY <3>1 DEF Tried
    <3> QED
      BY <2>3, <3>2
  <2> HIDE DEF all, excuse
  <2>8. /\ view'.at = "shown" /\ view'.counted = newest
        /\ view'.count = Cardinality(all) /\ view'.excused = excuse
        /\ view'.scan = view.scan /\ view'.status = view.status
    BY <1>3, <2>1 DEF Views
  <2>9. ViewIsPast'
    BY <1>2, <1>3, <2>8 DEF StatsInv, ViewIsPast, Views
  <2>10. StatsTellTheScan'
    <3>1. CASE view.scan # newest
      BY <2>8, <3>1 DEF StatsTellTheScan
    <3>2. CASE view.scan = newest
      <4>1. view.status = "completed" => status[newest] = "completed"
        BY <2>1, <3>2 DEF StatsInv, ViewIsPast
      <4> QED
        BY <1>2, <2>2, <2>5, <2>6, <2>7, <2>8, <3>2, <4>1 DEF StatsTellTheScan
    <3> QED
      BY <3>1, <3>2
  <2> QED
    BY <2>9, <2>10
<1> QED
  BY <1>4, <1>5, <1>6, <1>7

LEMMA NextStats == IInv /\ RunInv /\ StatsInv /\ [RunNext]_runVars => StatsInv'
<1> SUFFICES ASSUME IInv, RunInv, StatsInv, [RunNext]_runVars PROVE StatsInv'
  OBVIOUS
<1>1. [Next]_vars
  BY StepIsStep
<1>2. CASE Restarted
  <2>1. FoundOnly' /\ view' = NoView
    BY <1>1, <1>2, RowsMove DEF StatsInv, Restarted
  <2> QED
    BY <2>1 DEF StatsInv, ViewIsPast, StatsTellTheScan, NoView
<1>3. CASE ReadNewest \/ ReadNewestFails \/ CountFindings \/ CountsNothing
  BY <1>3, ReadStep
<1>4. ASSUME NEW s \in Scans,
             \/ CommandFails(s) \/ CommandLists(s) \/ NothingParses(s)
             \/ Probe(s) \/ Handshake(s)
             \/ Handled(s) \/ Recorded(s) \/ Given(s) \/ Returned(s) \/ Finished(s)
      PROVE  view' = view
  BY <1>4
  DEF CommandFails, CommandLists, NothingParses, Probe, Handshake, Handled,
      Recorded, Given, Returned, Finished
<1>5. CASE UNCHANGED runVars
  BY <1>1, <1>5, ShownStays DEF runVars
<1> QED
  BY <1>1, <1>2, <1>3, <1>4, <1>5, ShownStays DEF RunNext

(* The figures shown of a scan count its own findings and no other's, none *)
(* before it has completed, and all of them once it is shown as completed, *)
(* but for the excuses `view' notes (GetVulnStats, GetVaptStats).          *)
THEOREM StatsTheorem == RunSpec => []StatsTellTheScan
<1>1. RunInit => StatsInv
  BY DEF RunInit, Init, NoView, StatsInv, FoundOnly, Tried, ViewIsPast,
     StatsTellTheScan
<1>2. StatsInv => StatsTellTheScan
  BY DEF StatsInv
<1> QED
  BY <1>1, <1>2, RunInvariance, NextStats, PTL DEF RunSpec
=============================================================================
