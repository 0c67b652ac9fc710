----------------------------- MODULE Correlation -----------------------------
(***************************************************************************)
(* The correlation loop of the Go API: RunCorrelationRules                 *)
(* (go/internal/db/store_duckdb.go), run by a ticker in main, looks for    *)
(* eight patterns in a window of the table raw_events, and reports what it *)
(* finds.  The events come in through ingestEvent, which decodes them.     *)
(*                                                                         *)
(* Thresholds and windows are parameters; what each query selects, groups  *)
(* and measures is not.  Queries take no time; the callback, which tells   *)
(* the dashboards (module LiveFeed), may take long.                        *)
(***************************************************************************)
EXTENDS Naturals, Sequences, FiniteSets, Functions

(* The queries, in the order of the table checks.                          *)
Checks == <<"brute_force", "port_scan", "xss_wave", "sqli_wave", "rapid_scan",
            "data_exfil", "geo_anomaly", "beaconing">>
Rules == {Checks[i] : i \in DOMAIN Checks}

CONSTANTS
  Messages,       \* events as their senders write them
  AtLeast,        \* the threshold of each rule
  Within,         \* the length of its window
  Period,         \* of the loop's ticker (5 s)
  Lag,            \* bound: how far behind the clock a stamp may be
  Ahead,          \* bound: how far ahead of it
  Retention,      \* age at which events are deleted (30 days)
  QueriesMayFail, \* whether a query may end in an error
  MaxRows,        \* bound: events that ever reach the table
  MaxTime         \* bound: the clock stops there

Fields == {"ip", "host", "path", "country", "attack", "blocked", "ok", "sent"}

(* Events outlive every window: 30 days against an hour.                   *)
ASSUME CorrelationAssumption ==
  /\ \A m \in Messages : DOMAIN m = Fields \cup {"names"}
  /\ AtLeast \in [Rules -> Nat \ {0}]
  /\ Within \in [Rules -> Nat]
  /\ \A r \in Rules : Within[r] <= Retention
  /\ Period \in Nat \ {0} /\ Retention \in Nat
  /\ Lag \in Nat /\ Ahead \in Nat
  /\ QueriesMayFail \in BOOLEAN
  /\ MaxRows \in Nat /\ MaxTime \in Nat

VARIABLES
  now,
  rows,      \* raw_events
  pruned,    \* the rows deleted by retention
  due,       \* the ticker's channel holds a tick
  check,     \* the check the loop is at, 0 when it waits for a tick
  incident,  \* what it is telling the dashboards, or NoIncident
  quiet      \* history: how long each rule has matched without a word

vars == <<now, rows, pruned, due, check, incident, quiet>>

NoIncident == [rule |-> "none"]
Zero == [r \in Rules |-> 0]

Init ==
  /\ now = 0
  /\ rows = {} /\ pruned = {}
  /\ due = FALSE /\ check = 0 /\ incident = NoIncident
  /\ quiet = Zero

-----------------------------------------------------------------------------
(* What the queries see.                                                   *)

(* json.Decode matches names without regard to case, but RawEvent has no   *)
(* tags: a name with an underscore (source_ip, attack_type, status_code,   *)
(* bytes_sent), as the proxy writes it, matches no field.                  *)
Decode(m) ==
  IF m.names = "Go" THEN m
  ELSE [m EXCEPT !.ip = "", !.attack = "", !.ok = FALSE, !.sent = 0]

Where(r, e) ==
  /\ r = "brute_force" => e.blocked
  /\ r = "xss_wave" => e.attack = "xss"
  /\ r = "sqli_wave" => e.attack = "sql_injection"
  /\ r = "data_exfil" => ~e.blocked /\ e.ok
  /\ r = "geo_anomaly" => e.country # ""

(* GROUP BY: the two waves count all sources together.                     *)
Waves == {"xss_wave", "sqli_wave"}

Group(r, e) ==
  [ip   |-> IF r \in Waves THEN "" ELSE e.ip,
   host |-> IF r = "beaconing" THEN e.host ELSE ""]

BytesSent(events) == SumFunction([x \in events |-> Decode(x.message).sent])

MeasureNotDistinct(r, events) ==
  IF r = "data_exfil" THEN BytesSent(events)
  ELSE Cardinality(events)

Measure(r, events) ==
  CASE r = "port_scan"   -> Cardinality({Decode(x.message).path : x \in events})
    [] r = "geo_anomaly" -> Cardinality({Decode(x.message).country : x \in events})
    [] r = "data_exfil"  -> BytesSent(events)
    [] OTHER             -> Cardinality(events)

AnyAge(r, x) == TRUE

(* The windows have no upper end.                                          *)
Recent(r, x) == x.at + Within[r] >= now

Window(r) == {x \in rows : Recent(r, x) /\ Where(r, Decode(x.message))}
InGroup(r, g) == {x \in Window(r) : Group(r, Decode(x.message)) = g}
Groups(r) == {Group(r, Decode(x.message)) : x \in Window(r)}

(* HAVING, and for the waves the comparison in the scan function.          *)
Matching(r) == {g \in Groups(r) : Measure(r, InGroup(r, g)) >= AtLeast[r]}

(* ORDER BY ... DESC LIMIT 1: one of the largest.                          *)
Largest(r) ==
  {g \in Matching(r) :
     \A h \in Matching(r) : Measure(r, InGroup(r, h)) <= Measure(r, InGroup(r, g))}

-----------------------------------------------------------------------------
(* ingestEvent stamps an event that has no time of its own, and leaves any *)
(* other stamp as its sender wrote it, be it of the past or of the future; *)
(* the store's flush loop commits it a little later (module EventStore).   *)
Ingest(m, at) ==
  /\ Cardinality(rows \cup pruned) < MaxRows
  /\ at <= now + Ahead /\ now <= at + Lag
  /\ LET alike == {x \in rows \cup pruned : x.message = m /\ x.at = at}
     IN  rows' = rows \cup {[message |-> m, at |-> at, copy |-> Cardinality(alike)]}
  /\ UNCHANGED <<now, pruned, due, check, incident, quiet>>

PruneOldEvents ==
  LET old == {x \in rows : x.at + Retention < now}
  IN  /\ old # {}
      /\ rows' = rows \ old
      /\ pruned' = pruned \cup old
      /\ UNCHANGED <<now, due, check, incident, quiet>>

(* Time passes while the loop waits: for its next tick, or for the         *)
(* callback to return.  A tick that finds one in the channel is dropped.   *)
Advance ==
  /\ now < MaxTime
  /\ (check = 0 /\ ~due) \/ incident # NoIncident
  /\ now' = now + 1 /\ UNCHANGED rows
  /\ due' = (due \/ now' % Period = 0)
  /\ quiet' = [r \in Rules |->
                 IF Matching(r) # {} /\ Matching(r)' # {} /\ incident = NoIncident
                 THEN quiet[r] + 1 ELSE 0]
  /\ UNCHANGED <<pruned, check, incident>>

-----------------------------------------------------------------------------
(* RunCorrelationRules                                                     *)

Wake ==
  /\ check = 0 /\ due
  /\ due' = FALSE
  /\ check' = 1
  /\ UNCHANGED <<now, rows, pruned, incident, quiet>>

FollowingUnwrapped == check + 1

Following == IF check = Len(Checks) THEN 0 ELSE check + 1

AtCheck(r) == check # 0 /\ Checks[check] = r /\ incident = NoIncident

AfterErrorReturn == 0

AfterError == Following

QueryFails(r) ==
  /\ QueriesMayFail
  /\ AtCheck(r)
  /\ check' = AfterError
  /\ quiet' = [quiet EXCEPT ![r] = 0]
  /\ UNCHANGED <<now, rows, pruned, due, incident>>

NotFound(r) ==
  /\ AtCheck(r)
  /\ Matching(r) = {}
  /\ check' = Following
  /\ quiet' = [quiet EXCEPT ![r] = 0]
  /\ UNCHANGED <<now, rows, pruned, due, incident>>

(* CreateIncident's error is ignored: the callback is called either way.   *)
Found(r) ==
  /\ AtCheck(r)
  /\ \E g \in Largest(r) :
       incident' = [rule |-> r, ip |-> g.ip, host |-> g.host, at |-> now]
  /\ quiet' = [quiet EXCEPT ![r] = 0]
  /\ UNCHANGED <<now, rows, pruned, due, check>>

(* onIncident returns.                                                     *)
Told ==
  /\ incident # NoIncident
  /\ incident' = NoIncident
  /\ check' = Following
  /\ UNCHANGED <<now, rows, pruned, due, quiet>>

Next ==
  \/ \E m \in Messages, at \in 0 .. MaxTime + Ahead : Ingest(m, at)
  \/ PruneOldEvents
  \/ Advance
  \/ Wake
  \/ \E r \in Rules : QueryFails(r) \/ NotFound(r) \/ Found(r)
  \/ Told

Spec == Init /\ [][Next]_vars

-----------------------------------------------------------------------------
TypeOK ==
  /\ now \in 0 .. MaxTime
  /\ \A x \in rows \cup pruned :
       /\ x.message \in Messages
       /\ x.at \in 0 .. MaxTime + Ahead
       /\ x.copy \in 0 .. MaxRows
  /\ due \in BOOLEAN
  /\ check \in 0 .. Len(Checks)
  /\ incident # NoIncident => incident.rule \in Rules /\ incident.at \in 0 .. now
  /\ quiet \in [Rules -> Nat]

(* The events that count for an alarm, by their own stamps: those that are *)
(* not too old, and those of them that are not stamped ahead of it either. *)
Stamped(i, events) == {x \in events : i.at <= x.at + Within[i.rule]}
InWindow(i, events) == {x \in Stamped(i, events) : x.at <= i.at}

(* The message of an alarm is true of a set of events: "10 blocked         *)
(* requests from <address>", "15 distinct paths probed from ...", and so   *)
(* on, each counted here without the queries.                              *)
IncidentIsTrue(i, events) ==
  LET Its == {x \in events : x.message.ip = i.ip}
      Enough(S) == Cardinality(S) >= AtLeast[i.rule]
  IN  /\ i.rule = "brute_force" => Enough({x \in Its : x.message.blocked})
      /\ i.rule = "port_scan" => Enough({x.message.path : x \in Its})
      /\ i.rule = "xss_wave" => Enough({x \in events : x.message.attack = "xss"})
      /\ i.rule = "sqli_wave" =>
           Enough({x \in events : x.message.attack = "sql_injection"})
      /\ i.rule = "rapid_scan" => Enough(Its)
      /\ i.rule = "data_exfil" =>
           \E answered \in SUBSET {x \in Its : x.message.ok /\ ~x.message.blocked} :
             SumFunction([x \in answered |-> x.message.sent]) >= AtLeast[i.rule]
      /\ i.rule = "geo_anomaly" => Enough({x.message.country : x \in Its} \ {""})
      /\ i.rule = "beaconing" => Enough({x \in Its : x.message.host = i.host})

(* What the alarms' messages say ("... from <address> in 5m"), of every    *)
(* alarm: an address is not blamed for what others did, nor for what it    *)
(* did too long ago.                                                       *)
IncidentsAreTrue ==
  incident # NoIncident =>
    IncidentIsTrue(incident, InWindow(incident, rows \cup pruned))

(* How far that holds.  An alarm errs only by what senders write: it may   *)
(* have counted events stamped ahead of the clock, which no query leaves   *)
(* out, and is then true of them and of its window together; or it names   *)
(* no address where its rule goes by address, and may have added up events *)
(* of any addresses from a sender that does not name the fields as Go      *)
(* does.  No address is ever blamed for what it did not send.              *)
IncidentsErrBySenders ==
  LET all == rows \cup pruned
      stamped == Stamped(incident, all)
  IN  incident # NoIncident =>
        \/ IncidentIsTrue(incident, InWindow(incident, all))
        \/ /\ \E x \in stamped : x.at > incident.at
           /\ IncidentIsTrue(incident, stamped)
        \/ /\ incident.ip = "" /\ incident.rule \notin Waves
           /\ \E x \in stamped : x.message.names # "Go"

(* A pattern does not go unreported for more than one period of the        *)
(* ticker, whatever becomes of the queries of other rules and however late *)
(* the loop comes back from a callback.  (The time spent in callbacks, and *)
(* a failed query of the rule itself, start the count again.)              *)
NoticedInTime == \A r \in Rules : quiet[r] <= Period
=============================================================================
