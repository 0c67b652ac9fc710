------------------------------ MODULE Overview ------------------------------
(***************************************************************************)
(* The figures the Go API shows: GetDashboardStats, GetSIEMStats and       *)
(* GetEventStats (go/internal/db/store_duckdb.go) each read a whole with   *)
(* one statement and a part of it with a later one, while requests are     *)
(* counted, incidents are made and acknowledged, and events are committed  *)
(* and pruned.  No transaction holds the two together.                     *)
(*                                                                         *)
(* Readers change nothing, so one reader, of any kind, is enough.          *)
(***************************************************************************)
EXTENDS Naturals, FiniteSets, Functions

CONSTANTS
  Visitors,   \* the clients whose requests are counted
  Reports,    \* the ids of incidents
  MaxCounted  \* bound: requests counted, and events kept, and added under a reader

ASSUME OverviewAssumption == MaxCounted \in Nat

VARIABLES
  requestStats, \* ip |-> [request_count, blocked_count]
  incidents,    \* id |-> who acknowledged it
  rawEvents,    \* how many rows of raw_events are not blocked, and are
  view          \* the reader

overviewVars == <<requestStats, incidents, rawEvents, view>>

Readers == {"dashboard", "siem", "events"}

(* at: where the reader is; whole and part: what it read; grew: what was   *)
(* added to the whole meanwhile; blind: the first statement failed.        *)
NoView == [kind |-> "dashboard", at |-> "start", whole |-> 0, part |-> 0,
           grew |-> 0, blind |-> FALSE]

OverviewInit ==
  /\ requestStats = [ip \in {} |-> [request_count |-> 0, blocked_count |-> 0]]
  /\ incidents = [i \in {} |-> "nobody"]
  /\ rawEvents = [passed |-> 0, blocked |-> 0]
  /\ view = NoView

(* What is added to a whole between the two statements of its reader.      *)
Grow(kind, n) ==
  view' = IF view.kind = kind /\ view.at = "between"
          THEN [view EXCEPT !.grew = @ + n] ELSE view

-----------------------------------------------------------------------------
Column(table, c) == SumFunction([ip \in DOMAIN table |-> table[ip][c]])
Acknowledged == {i \in DOMAIN incidents : incidents[i] # "nobody"}

Whole ==
  [dashboard |-> Column(requestStats, "request_count"),
   siem |-> Cardinality(DOMAIN incidents),
   events |-> rawEvents.passed + rawEvents.blocked]

Part ==
  [dashboard |-> Column(requestStats, "blocked_count"),
   siem |-> Cardinality(DOMAIN incidents \ Acknowledged),
   events |-> rawEvents.blocked]

(* RecordRequest: an upsert.                                               *)
Count(ip) ==
  IF ip \in DOMAIN requestStats THEN requestStats[ip]
  ELSE [request_count |-> 0, blocked_count |-> 0]

UpsertedBlockedOnly(ip, blocked) ==
  IF ip \in DOMAIN requestStats
  THEN [Count(ip) EXCEPT !.blocked_count = @ + blocked]
  ELSE [request_count |-> 1, blocked_count |-> blocked]

Upserted(ip, blocked) ==
  [request_count |-> Count(ip).request_count + 1,
   blocked_count |-> Count(ip).blocked_count + blocked]

RecordRequest(ip, blocked) ==
  /\ Whole.dashboard < MaxCounted
  /\ requestStats' = [j \in DOMAIN requestStats \cup {ip} |->
       IF j = ip THEN Upserted(ip, blocked) ELSE requestStats[j]]
  /\ Grow("dashboard", 1)
  /\ UNCHANGED <<incidents, rawEvents>>

CreateIncident(i) ==
  /\ i \notin DOMAIN incidents
  /\ incidents' = [j \in DOMAIN incidents \cup {i} |->
       IF j = i THEN "nobody" ELSE incidents[j]]
  /\ Grow("siem", 1)
  /\ UNCHANGED <<requestStats, rawEvents>>

(* An incident may be acknowledged in two ways: the later one signs.       *)
Acknowledge(i, by) ==
  /\ i \in DOMAIN incidents
  /\ incidents' = [incidents EXCEPT ![i] = by]
  /\ UNCHANGED <<requestStats, rawEvents, view>>

AcknowledgeIncident(i) == Acknowledge(i, "api")
AckSIEMAlert(i) == Acknowledge(i, "siem")

CommitEvents(passed, blocked) ==
  /\ passed + blocked > 0
  /\ Whole.events + passed + blocked <= MaxCounted
  /\ view.grew + passed + blocked <= MaxCounted
  /\ rawEvents' = [passed |-> rawEvents.passed + passed,
                   blocked |-> rawEvents.blocked + blocked]
  /\ Grow("events", passed + blocked)
  /\ UNCHANGED <<requestStats, incidents>>

PruneEvents ==
  /\ \E passed \in 0 .. rawEvents.passed, blocked \in 0 .. rawEvents.blocked :
       rawEvents' = [passed |-> passed, blocked |-> blocked]
  /\ UNCHANGED <<requestStats, incidents, view>>

-----------------------------------------------------------------------------
(* The three readers.  A figure of the dashboard, or of the events, whose  *)
(* statement fails is 0; GetSIEMStats gives up.                            *)

ReadWhole(kind) ==
  /\ view.at # "between"
  /\ view' = [NoView EXCEPT !.kind = kind, !.at = "between", !.whole = Whole[kind]]
  /\ UNCHANGED <<requestStats, incidents, rawEvents>>

ReadWholeFails(kind) ==
  /\ view.at # "between"
  /\ view' = [NoView EXCEPT !.kind = kind, !.at = "between", !.blind = TRUE]
  /\ UNCHANGED <<requestStats, incidents, rawEvents>>

GetDashboardStats == ReadWhole("dashboard") \/ ReadWholeFails("dashboard")
GetSIEMStats == ReadWhole("siem")
GetEventStats == ReadWhole("events") \/ ReadWholeFails("events")

ReadPart ==
  /\ view.at = "between"
  /\ view' = [view EXCEPT !.at = "shown", !.part = Part[view.kind]]
  /\ UNCHANGED <<requestStats, incidents, rawEvents>>

ReadPartFails ==
  /\ view.at = "between"
  /\ view' = IF view.kind = "siem" THEN NoView ELSE [view EXCEPT !.at = "shown"]
  /\ UNCHANGED <<requestStats, incidents, rawEvents>>

OverviewNext ==
  \/ \E ip \in Visitors, blocked \in 0 .. 1 : RecordRequest(ip, blocked)
  \/ \E i \in Reports :
       CreateIncident(i) \/ AcknowledgeIncident(i) \/ AckSIEMAlert(i)
  \/ \E passed, blocked \in 0 .. MaxCounted : CommitEvents(passed, blocked)
  \/ PruneEvents
  \/ GetDashboardStats \/ GetSIEMStats \/ GetEventStats
  \/ ReadPart \/ ReadPartFails

OverviewSpec == OverviewInit /\ [][OverviewNext]_overviewVars

-----------------------------------------------------------------------------
OverviewTypeOK ==
  /\ DOMAIN requestStats \subseteq Visitors
  /\ \A ip \in DOMAIN requestStats :
       {requestStats[ip].request_count, requestStats[ip].blocked_count}
         \subseteq Nat
  /\ DOMAIN incidents \subseteq Reports
  /\ Range(incidents) \subseteq {"nobody", "api", "siem"}
  /\ {rawEvents.passed, rawEvents.blocked} \subseteq 0 .. MaxCounted
  /\ view.kind \in Readers /\ view.at \in {"start", "between", "shown"}
  /\ {view.whole, view.part, view.grew} \subseteq Nat

(* A part that is shown exceeds its whole by no more than what was added   *)
(* between the two statements, whatever else happened there: blocked       *)
(* requests or events against all, open incidents against all.  The        *)
(* exception is a whole whose statement failed: it is shown as 0.          *)
PartWithinWhole ==
  view.at = "shown" =>
    \/ view.part <= view.whole + view.grew
    \/ view.blind
=============================================================================
