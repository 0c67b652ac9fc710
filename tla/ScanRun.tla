------------------------------ MODULE ScanRun -------------------------------
(***************************************************************************)
(* A scan from within, and the figures shown of it: what goes on while     *)
(* ScanGuard says "scanning".  A vulnerability scan asks package managers  *)
(* for their list, one command after the other                             *)
(* (go/internal/scanner/scanner.go); a VAPT scan probes its target in      *)
(* stages (go/internal/scanner/vapt.go).  GetVulnStats and GetVaptStats    *)
(* (go/internal/db/store_duckdb.go) read the newest scan's row and then,   *)
(* with a second statement, count the newest scan's findings.              *)
(*                                                                         *)
(* The two kinds of scan have each their guard and their tables, so that a *)
(* behaviour is about one kind.  Neither scanner ever returns an error:    *)
(* ScanFails is not a step here.                                           *)
(***************************************************************************)
EXTENDS ScanGuard, Sequences, SequencesExt, FiniteSets

CONSTANT Https \* the VAPT scans whose target is an https URL

ASSUME HttpsAssumption == Https \subseteq Scans

VARIABLES
  kind,   \* "vuln" or "vapt"
  stage,  \* what each scan is doing
  hits,   \* its findings so far
  listed, \* the vulnerability scans that a package manager gave packages
  newest, \* the scan whose row was made last
  view    \* a reader of the statistics

within == <<kind, stage, hits, listed>>
runVars == <<vars, within, newest, view>>

Commands == <<"manager", "dpkg-query", "rpm", "apk">>
Probes == <<"headers", "paths", "methods", "ports", "tls">>
Stages == ToSet(Commands) \cup ToSet(Probes) \cup {"returned"}

(* Commands and the TLS handshake are waited for without a timeout.        *)
Untimed == ToSet(Commands) \cup {"tls"}

NoView == [at |-> "start", scan |-> NoScan, status |-> "none",
           counted |-> NoScan, count |-> 0, excused |-> TRUE]

RunInit ==
  /\ Init
  /\ kind \in {"vuln", "vapt"}
  /\ stage = [s \in Scans |-> IF kind = "vuln" THEN "manager" ELSE "headers"]
  /\ hits = [s \in Scans |-> 0]
  /\ listed = {}
  /\ newest = NoScan
  /\ view = NoView

-----------------------------------------------------------------------------
(* The stages of a scan.                                                   *)

Return(s, n) ==
  /\ stage' = [stage EXCEPT ![s] = "returned"]
  /\ hits' = [hits EXCEPT ![s] = n]

At(s, name) == kind = name /\ pc[s] = "scanning" /\ stage[s] # "returned"

(* Without a list of packages, fallbackPackages makes some up, and all of  *)
(* them are outdated.                                                      *)
MadeUp == Findings

(* A command that fails, or a first one that prints nothing, gives way to  *)
(* the next.                                                               *)
CommandFails(s) ==
  /\ At(s, "vuln")
  /\ \E i \in DOMAIN Commands :
       /\ stage[s] = Commands[i]
       /\ \/ /\ i < Len(Commands)
             /\ stage' = [stage EXCEPT ![s] = Commands[i + 1]]
             /\ UNCHANGED hits
          \/ i = Len(Commands) /\ Return(s, MadeUp)
  /\ UNCHANGED <<vars, kind, listed, newest, view>>

ListIsOutdated(s) ==
  /\ At(s, "vuln")
  /\ Return(s, MadeUp)
  /\ listed' = listed \cup {s}
  /\ UNCHANGED <<vars, kind, newest, view>>

(* A list of packages says of none that another version is available.      *)
CommandLists(s) ==
  /\ At(s, "vuln")
  /\ Return(s, 0)
  /\ listed' = listed \cup {s}
  /\ UNCHANGED <<vars, kind, newest, view>>

(* A command that succeeds ends the search, even if no line of it parses.  *)
NothingParses(s) ==
  /\ At(s, "vuln")
  /\ Return(s, MadeUp)
  /\ UNCHANGED <<vars, kind, listed, newest, view>>

(* A probe that fails, or is refused, goes on to the next; TLS is tried    *)
(* only if the target is https.                                            *)
Answered(s) ==
  \E n \in hits[s] .. Findings, i \in 1 .. 4 :
    /\ stage[s] = Probes[i]
    /\ IF i < 4 \/ s \in Https
       THEN /\ stage' = [stage EXCEPT ![s] = Probes[i + 1]]
            /\ hits' = [hits EXCEPT ![s] = n]
       ELSE Return(s, n)

ProbeWithoutTimeout(s) ==
  /\ At(s, "vapt") /\ stage[s] # "paths"
  /\ Answered(s)
  /\ UNCHANGED <<vars, kind, listed, newest, view>>

Probe(s) ==
  /\ At(s, "vapt")
  /\ Answered(s)
  /\ UNCHANGED <<vars, kind, listed, newest, view>>

(* A handshake that fails is a finding too.                                *)
Handshake(s) ==
  /\ At(s, "vapt")
  /\ stage[s] = "tls"
  /\ \E n \in hits[s] .. Findings : Return(s, n)
  /\ UNCHANGED <<vars, kind, listed, newest, view>>

-----------------------------------------------------------------------------
(* The steps of ScanGuard.                                                 *)

Returned(s) ==
  /\ stage[s] = "returned"
  /\ ScanSucceeds(s, hits[s])
  /\ UNCHANGED <<within, newest, view>>

Recorded(s) ==
  /\ Create(s)
  /\ newest' = s
  /\ UNCHANGED <<within, view>>

Handled(s) ==
  /\ Reject(s) \/ Reserve(s) \/ Conflict(s)
  /\ UNCHANGED <<within, newest, view>>

Given(s) ==
  /\ CreateFails(s) \/ Abort(s)
  /\ UNCHANGED <<within, newest, view>>

Finished(s) ==
  /\ Finish(s)
  /\ UNCHANGED <<within, newest, view>>

Restarted ==
  /\ Restart
  /\ view' = NoView
  /\ UNCHANGED <<within, newest>>

-----------------------------------------------------------------------------
(* GetVulnStats, GetVaptStats: a statement that fails shows nothing of it. *)

ReadNewest ==
  /\ view.at # "row"
  /\ view' = [NoView EXCEPT !.at = "row", !.scan = newest,
       !.status = IF newest = NoScan THEN "none" ELSE status[newest]]
  /\ UNCHANGED <<vars, within, newest>>

ReadNewestFails ==
  /\ view.at # "row"
  /\ view' = [NoView EXCEPT !.at = "row"]
  /\ UNCHANGED <<vars, within, newest>>

CountAllFindings ==
  /\ view.at = "row"
  /\ view' = [view EXCEPT !.at = "shown", !.counted = newest,
       !.count = Cardinality({p \in Scans \X (1 .. Findings) : p[2] \in stored[p[1]]}),
       !.excused = newest = NoScan]
  /\ UNCHANGED <<vars, within, newest>>

CountFindings ==
  /\ view.at = "row"
  /\ newest # NoScan
  /\ view' = [view EXCEPT !.at = "shown", !.counted = newest,
       !.count = Cardinality(stored[newest]),
       !.excused = pc[newest] \in {"storing", "killed"} \/ missed[newest] # {}]
  /\ UNCHANGED <<vars, within, newest>>

CountsNothing ==
  /\ view.at = "row"
  /\ view' = [view EXCEPT !.at = "shown", !.counted = newest]
  /\ UNCHANGED <<vars, within, newest>>

-----------------------------------------------------------------------------
RunNext ==
  \/ \E s \in Scans :
       \/ CommandFails(s) \/ CommandLists(s) \/ NothingParses(s)
       \/ Probe(s) \/ Handshake(s)
       \/ Handled(s) \/ Recorded(s) \/ Given(s) \/ Returned(s) \/ Finished(s)
  \/ Restarted
  \/ ReadNewest \/ ReadNewestFails \/ CountFindings \/ CountsNothing

(* As in ScanGuard; and a probe, which has a timeout, ends by itself.      *)
RunFairness ==
  \A s \in Scans :
    /\ WF_runVars(Recorded(s) \/ Given(s))
    /\ WF_runVars(Finished(s))
    /\ WF_runVars(Returned(s))
    /\ WF_runVars(Probe(s))

RunSpec == RunInit /\ [][RunNext]_runVars

RunFairSpec == RunSpec /\ RunFairness

-----------------------------------------------------------------------------
Views ==
  [at : {"start", "row", "shown"}, scan : Scans \cup {NoScan},
   status : {"none", "running", "failed", "completed"},
   counted : Scans \cup {NoScan}, count : Nat, excused : BOOLEAN]

RunTypeOK ==
  /\ TypeOK
  /\ kind \in {"vuln", "vapt"}
  /\ stage \in [Scans -> Stages]
  /\ hits \in [Scans -> 0 .. Findings]
  /\ listed \subseteq Scans
  /\ newest \in Scans \cup {NoScan}
  /\ view \in Views

(* A scan that never ends waits for ever for one command of a package      *)
(* manager or for one TLS handshake: nothing else in it can hang.          *)
OnlyAnUntimedStepHangs ==
  \A s \in Scans :
    <>[](pc[s] = "scanning") => <>[](pc[s] = "scanning" /\ stage[s] \in Untimed)

(* A vulnerability scan has findings only if it could not list a single    *)
(* package, and then they are about packages it made up.                   *)
FindingsAreMadeUp ==
  kind = "vuln" => \A s \in Scans : stored[s] # {} => s \notin listed

(* The statistics shown are those of one scan, the newest, unless another  *)
(* was started between the two statements: they count no finding of any    *)
(* other scan and none of one that has not completed, and a scan shown as  *)
(* completed is shown with all its findings, but for the time in which it  *)
(* is storing them, a failed insertion or query, and a restart.            *)
StatsTellTheScan ==
  view.at = "shown" /\ view.scan # NoScan =>
    \/ view.counted # view.scan
    \/ /\ view.count <= found[view.scan]
       /\ view.count > 0 => status[view.scan] = "completed"
       /\ view.status = "completed" /\ ~view.excused =>
            view.count = found[view.scan]
=============================================================================
