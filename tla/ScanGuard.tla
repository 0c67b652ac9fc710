----------------------------- MODULE ScanGuard ------------------------------
(***************************************************************************)
(* Starting and running scans in the Go API: startVulnScan and             *)
(* runScanAsync (go/internal/api/vulns.go), and the same code once more    *)
(* for VAPT scans (vapt.go).  One package variable, guarded by a mutex,    *)
(* says which scan is active; the database holds a row for each scan and   *)
(* its findings.                                                           *)
(*                                                                         *)
(* A scan is named by the request that asks for it.  The mutex is never    *)
(* held across a call, so a critical section is one step.  (The text of a  *)
(* conflict's answer, which is read outside the mutex, changes no state    *)
(* and is left out.)                                                       *)
(***************************************************************************)
EXTENDS Naturals

CONSTANTS
  Scans,      \* the requests, and the scans they may start
  NoScan,     \* the empty activeScan
  Findings,   \* bound: the findings of a scan
  MaxRestarts \* bound: restarts of the Go API

ASSUME ScanAssumption ==
  /\ NoScan \notin Scans
  /\ Findings \in Nat
  /\ MaxRestarts \in Nat

VARIABLES
  activeScan,
  pc,         \* where the handler of each request, then its scan, is
  status,     \* each scan's status in its row, if it has one
  stored,     \* the findings of each scan in the database
  missed,     \* the findings whose insertion failed
  found,      \* how many findings each scan returned: they are 1 .. found
  unrecorded, \* history: scans whose final UpdateVulnScan failed
  restarts

database == <<status, stored, missed>>
vars == <<activeScan, pc, database, found, unrecorded, restarts>>

(* "rejected", "conflict", "failed" and "ended" are the ends of a request, *)
(* "killed" that of one the process died under.                            *)
Holding == {"reserved", "aborting", "scanning", "storing", "releasing"}
PC == Holding \cup {"new", "rejected", "conflict", "failed", "ended", "killed"}

Init ==
  /\ activeScan = NoScan
  /\ pc = [s \in Scans |-> "new"]
  /\ status = [s \in Scans |-> "none"]
  /\ stored = [s \in Scans |-> {}]
  /\ missed = [s \in Scans |-> {}]
  /\ found = [s \in Scans |-> 0]
  /\ unrecorded = {}
  /\ restarts = 0

Goto(s, from, to) == pc[s] = from /\ pc' = [pc EXCEPT ![s] = to]

-----------------------------------------------------------------------------
(* startVulnScan, startVaptScan                                            *)

(* The VAPT handler answers 400 to a body, or a target, it does not like.  *)
Reject(s) ==
  /\ Goto(s, "new", "rejected")
  /\ UNCHANGED <<activeScan, database, found, unrecorded, restarts>>

ReserveUnchecked(s) ==
  /\ Goto(s, "new", "reserved")
  /\ activeScan' = s
  /\ UNCHANGED <<database, found, unrecorded, restarts>>

Reserve(s) ==
  /\ activeScan = NoScan
  /\ Goto(s, "new", "reserved")
  /\ activeScan' = s
  /\ UNCHANGED <<database, found, unrecorded, restarts>>

Conflict(s) ==
  /\ activeScan # NoScan
  /\ Goto(s, "new", "conflict")
  /\ UNCHANGED <<activeScan, database, found, unrecorded, restarts>>

(* CreateVulnScan, after which the scan runs on its own goroutine.         *)
Create(s) ==
  /\ Goto(s, "reserved", "scanning")
  /\ status' = [status EXCEPT ![s] = "running"]
  /\ UNCHANGED <<activeScan, stored, missed, found, unrecorded, restarts>>

CreateFails(s) ==
  /\ Goto(s, "reserved", "aborting")
  /\ UNCHANGED <<activeScan, database, found, unrecorded, restarts>>

AbortKeepsGuard(s) ==
  /\ Goto(s, "aborting", "failed")
  /\ UNCHANGED <<activeScan, database, found, unrecorded, restarts>>

(* This release does not look whose scan is active.                        *)
Abort(s) ==
  /\ Goto(s, "aborting", "failed")
  /\ activeScan' = NoScan
  /\ UNCHANGED <<database, found, unrecorded, restarts>>

-----------------------------------------------------------------------------
(* runScanAsync, runVaptScanAsync                                          *)

(* The final status: written, or not, in which case a failed scan forgets  *)
(* the error and a successful one gives its findings up.                   *)
Conclude(s, final, to) ==
  \/ /\ Goto(s, "scanning", to)
     /\ status' = [status EXCEPT ![s] = final]
     /\ UNCHANGED unrecorded
  \/ /\ Goto(s, "scanning", "releasing")
     /\ unrecorded' = unrecorded \cup {s}
     /\ UNCHANGED status

ScanFails(s) ==
  /\ Conclude(s, "failed", "releasing")
  /\ UNCHANGED <<activeScan, stored, missed, found, restarts>>

ScanSucceeds(s, n) ==
  /\ Conclude(s, "completed", "storing")
  /\ found' = [found EXCEPT ![s] = n]
  /\ UNCHANGED <<activeScan, stored, missed, restarts>>

Tried(s) == stored[s] \cup missed[s]

StoreFindingPastEnd(s) ==
  /\ pc[s] = "storing"
  /\ \E f \in 1 .. found[s] + 1 :
       /\ f \notin Tried(s) /\ 1 .. f - 1 \subseteq Tried(s)
       /\ stored' = [stored EXCEPT ![s] = @ \cup {f}]
  /\ UNCHANGED <<activeScan, pc, status, missed, found, unrecorded, restarts>>

(* The findings are inserted one by one; one that fails is only logged.    *)
StoreFinding(s) ==
  /\ pc[s] = "storing"
  /\ \E f \in 1 .. found[s] :
       /\ f \notin Tried(s) /\ 1 .. f - 1 \subseteq Tried(s)
       /\ \/ /\ stored' = [stored EXCEPT ![s] = @ \cup {f}]
             /\ UNCHANGED missed
          \/ /\ missed' = [missed EXCEPT ![s] = @ \cup {f}]
             /\ UNCHANGED stored
  /\ UNCHANGED <<activeScan, pc, status, found, unrecorded, restarts>>

StopAtFirstMiss(s) ==
  /\ Goto(s, "storing", "releasing")
  /\ Tried(s) = 1 .. found[s] \/ missed[s] # {}
  /\ UNCHANGED <<activeScan, database, found, unrecorded, restarts>>

AllTried(s) ==
  /\ Goto(s, "storing", "releasing")
  /\ Tried(s) = 1 .. found[s]
  /\ UNCHANGED <<activeScan, database, found, unrecorded, restarts>>

(* The deferred function.                                                  *)
Release(s) ==
  /\ Goto(s, "releasing", "ended")
  /\ activeScan' = IF activeScan = s THEN NoScan ELSE activeScan
  /\ UNCHANGED <<database, found, unrecorded, restarts>>

-----------------------------------------------------------------------------
(* The process dies and starts again: the guard lives in memory, the rows  *)
(* do not, and nothing looks at rows left "running".                       *)
Restart ==
  /\ restarts < MaxRestarts
  /\ restarts' = restarts + 1
  /\ activeScan' = NoScan
  /\ pc' = [s \in Scans |->
              IF pc[s] \in Holding THEN "killed" ELSE pc[s]]
  /\ UNCHANGED <<database, found, unrecorded>>

Start(s) ==
  \/ Reject(s) \/ Reserve(s) \/ Conflict(s)
  \/ Create(s) \/ CreateFails(s) \/ Abort(s)

Finish(s) == StoreFinding(s) \/ AllTried(s) \/ Release(s)

Run(s) ==
  \/ ScanFails(s) \/ Finish(s)
  \/ \E n \in 0 .. Findings : ScanSucceeds(s, n)

Next == Restart \/ \E s \in Scans : Start(s) \/ Run(s)

(* Handlers and goroutines run; a call to the database returns.  Nothing   *)
(* makes a scan end: the package manager it executes has no timeout.       *)
Fairness ==
  \A s \in Scans :
    WF_vars(Create(s) \/ CreateFails(s) \/ Abort(s)) /\ WF_vars(Finish(s))

Spec == Init /\ [][Next]_vars

FairSpec == Spec /\ Fairness

-----------------------------------------------------------------------------
TypeOK ==
  /\ activeScan \in Scans \cup {NoScan}
  /\ pc \in [Scans -> PC]
  /\ status \in [Scans -> {"none", "running", "failed", "completed"}]
  /\ stored \in [Scans -> SUBSET (1 .. Findings)]
  /\ missed \in [Scans -> SUBSET (1 .. Findings)]
  /\ found \in [Scans -> 0 .. Findings]
  /\ unrecorded \subseteq Scans
  /\ restarts \in 0 .. MaxRestarts

(* The guard is held by exactly the scan that is under way, from its       *)
(* reservation to its release, and so at most one scan is under way and    *)
(* no way out of the code leaves the guard behind.                         *)
GuardMatchesScan ==
  \A s \in Scans : activeScan = s <=> pc[s] \in Holding

(* A row that says "running" without a scan under way is the mark of one   *)
(* of two accidents: its final update failed, or the process died.         *)
RunningRowsAreExplained ==
  \A s \in Scans :
    status[s] = "running" =>
      pc[s] = "scanning" \/ s \in unrecorded \/ pc[s] = "killed"

(* Findings are shown only for a scan whose row says "completed", and such *)
(* a scan has them all, but for those that failed, unless it is still      *)
(* storing them or the process died.  (It says "completed" before it has   *)
(* any: a reader in between sees fewer.)                                   *)
FindingsFollowStatus ==
  \A s \in Scans :
    /\ Tried(s) # {} => status[s] = "completed"
    /\ status[s] = "completed" /\ Tried(s) # 1 .. found[s]
         => pc[s] \in {"storing", "killed"}

(* The rows tell, at any time and after any failure, what became of the    *)
(* scans.                                                                  *)
RowsTellTheScan == RunningRowsAreExplained /\ FindingsFollowStatus

(* The last status of a scan is written once: no scan leaves "failed" or   *)
(* "completed".                                                            *)
StatusIsFinal ==
  [][\A s \in Scans :
       status[s] \in {"failed", "completed"} => status'[s] = status[s]]_vars

(* A scan that has returned gives the guard back, and so does one that     *)
(* could not be recorded.                                                  *)
GuardIsGivenBack ==
  \A s \in Scans :
    /\ pc[s] \in {"storing", "releasing", "aborting"} ~> activeScan # s
    /\ pc[s] = "reserved" ~> (activeScan # s \/ pc[s] = "scanning")
=============================================================================
