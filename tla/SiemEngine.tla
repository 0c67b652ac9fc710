----------------------------- MODULE SiemEngine -----------------------------
(***************************************************************************)
(* The correlation engine of go/internal/siem/engine.go: a list of the     *)
(* incidents received lately and seven rules that count in it.  Ingest     *)
(* holds the mutex from end to end, and so does a tick of the cleaner.     *)
(*                                                                         *)
(* An incident is its type, its attack type, its client's address, its     *)
(* path and the stamp its sender gave it, which need not be the latest.    *)
(***************************************************************************)
EXTENDS Integers, Sequences, SequencesExt, FiniteSets

CONSTANTS
  Shapes,      \* the incidents without stamps: [type, attack, ip, path]
  NoIp,        \* the empty address
  Threshold,   \* how many incidents each rule asks for
  Window,      \* how long an incident is kept, in seconds
  Rapid,       \* the window of the rapid-scan rule
  MaxEvents,   \* the most incidents kept
  MaxLate,     \* bound: how old an incident may be when it arrives
  MaxArrivals, \* bound: the incidents that arrive
  MaxSeconds   \* bound: the last second

RuleNames == <<"brute_force", "port_scan", "xss_wave", "sqli_wave",
               "rapid_scan", "shell_activity", "data_exfiltration">>

ASSUME SiemAssumption ==
  /\ Threshold \in [ToSet(RuleNames) -> Nat \ {0}]
  /\ {Window, Rapid, MaxEvents, MaxLate, MaxArrivals, MaxSeconds} \subseteq Nat

VARIABLES
  siemNow,
  kept,     \* the engine's events
  arrivals, \* history: every incident received
  alert,    \* what the last Ingest returned
  cleaner   \* the cleaner: "new", "running" or "stopped"

siemVars == <<siemNow, kept, arrivals, alert, cleaner>>

Alert(rule, ip) == [rule |-> rule, ip |-> ip]
Quiet == Alert("none", NoIp)

SiemInit ==
  /\ siemNow = 0
  /\ kept = <<>>
  /\ arrivals = <<>>
  /\ alert = Quiet
  /\ cleaner = "new"

-----------------------------------------------------------------------------
(* Each rule is the set of alerts it may return for a list of incidents:   *)
(* one for every address that fills its threshold, as Go visits the        *)
(* addresses of a map in any order.                                        *)

Ips(evs) == {evs[i].ip : i \in DOMAIN evs}
Where(evs, Holds(_)) == {i \in DOMAIN evs : Holds(evs[i])}
Fills(rule, found) == Cardinality(found) >= Threshold[rule]
AlertIf(rule, ip, found) == IF Fills(rule, found) THEN {Alert(rule, ip)} ELSE {}
OfType(evs, type, ip) == Where(evs, LAMBDA e : e.type = type /\ e.ip = ip)
OfAttack(evs, attack) == Where(evs, LAMBDA e : e.attack = attack)

BruteForce(evs) ==
  UNION {AlertIf("brute_force", ip, OfType(evs, "attack_blocked", ip)) :
           ip \in Ips(evs) \ {NoIp}}

PortScan(evs) ==
  UNION {AlertIf("port_scan", ip,
                 {evs[i].path : i \in OfType(evs, "connection", ip)}) :
           ip \in Ips(evs) \ {NoIp}}

XssWave(evs) == AlertIf("xss_wave", NoIp, OfAttack(evs, "xss"))

SqlInjectionWave(evs) ==
  AlertIf("sqli_wave", NoIp, OfAttack(evs, "sql_injection"))

RapidScan(evs) ==
  AlertIf("rapid_scan", NoIp, Where(evs, LAMBDA e : e.stamp > siemNow - Rapid))

(* The address of the last command injection takes the blame for all.      *)
ShellActivity(evs) ==
  LET found == OfAttack(evs, "command_injection")
      last == CHOOSE i \in found : \A j \in found : j <= i
  IN  IF Fills("shell_activity", found)
      THEN {Alert("shell_activity", evs[last].ip)}
      ELSE {}

(* Requests are counted whatever their size, and an address may be empty.  *)
DataExfil(evs) ==
  UNION {AlertIf("data_exfiltration", ip, OfType(evs, "request", ip)) :
           ip \in Ips(evs)}

Evaluate(evs) ==
  <<BruteForce(evs), PortScan(evs), XssWave(evs), SqlInjectionWave(evs),
    RapidScan(evs), ShellActivity(evs), DataExfil(evs)>>

(* The first rule, in their order, that returns an alert.                  *)
Told(evs) ==
  LET alerts == Evaluate(evs)
      telling == {r \in DOMAIN alerts : alerts[r] # {}}
  IN  IF telling = {} THEN {Quiet}
      ELSE alerts[CHOOSE r \in telling : \A s \in telling : r <= s]

-----------------------------------------------------------------------------
(* What of evs is later than start, picked up in one pass.                 *)
Since(evs, start) ==
  LET upTo[n \in 0 .. Len(evs)] ==
        IF n = 0 THEN <<>>
        ELSE IF evs[n].stamp > start THEN Append(upTo[n - 1], evs[n])
        ELSE upTo[n - 1]
  IN  upTo[Len(evs)]

Young(evs) == Since(evs, siemNow - Window)
LastOf(evs, n) == SubSeq(evs, Len(evs) - n + 1, Len(evs))
FirstOf(evs, n) == SubSeq(evs, 1, n)

TruncatedKeepsOldest(evs) ==
  IF Len(evs) > MaxEvents THEN FirstOf(evs, MaxEvents) ELSE evs

TruncatedTooLate(evs) ==
  IF Len(evs) > MaxEvents + 1 THEN LastOf(evs, MaxEvents) ELSE evs

Truncated(evs) == IF Len(evs) > MaxEvents THEN LastOf(evs, MaxEvents) ELSE evs

Ingest(e) ==
  /\ arrivals' = Append(arrivals, e)
  /\ kept' = Truncated(Young(Append(kept, e)))
  /\ alert' \in Told(kept')
  /\ UNCHANGED <<siemNow, cleaner>>

Arrive ==
  /\ Len(arrivals) < MaxArrivals
  /\ \E shape \in Shapes, late \in 0 .. MaxLate :
       Ingest([type |-> shape.type, attack |-> shape.attack, ip |-> shape.ip,
               path |-> shape.path, stamp |-> siemNow - late])

(* Start and Stop, each called once, and a tick of the cleaner between.    *)
SiemStart ==
  /\ cleaner = "new"
  /\ cleaner' = "running"
  /\ UNCHANGED <<siemNow, kept, arrivals, alert>>

Clean ==
  /\ cleaner = "running"
  /\ kept' = Young(kept)
  /\ UNCHANGED <<siemNow, arrivals, alert, cleaner>>

SiemStop ==
  /\ cleaner = "running"
  /\ cleaner' = "stopped"
  /\ UNCHANGED <<siemNow, kept, arrivals, alert>>

SiemElapse ==
  /\ siemNow < MaxSeconds
  /\ siemNow' = siemNow + 1
  /\ UNCHANGED <<kept, arrivals, alert, cleaner>>

SiemNext == Arrive \/ SiemStart \/ Clean \/ SiemStop \/ SiemElapse

SiemSpec == SiemInit /\ [][SiemNext]_siemVars

-----------------------------------------------------------------------------
SiemTypeOK ==
  /\ siemNow \in 0 .. MaxSeconds
  /\ Len(arrivals) <= MaxArrivals /\ Len(kept) <= MaxEvents
  /\ ToSet(kept) \subseteq ToSet(arrivals)
  /\ alert \in {Quiet} \cup [rule : ToSet(RuleNames), ip : Ips(arrivals) \cup {NoIp}]
  /\ cleaner \in {"new", "running", "stopped"}

Position(rule) == CHOOSE r \in DOMAIN RuleNames : RuleNames[r] = rule

AlertIsDue ==
  LET first == IF Len(arrivals) > MaxEvents THEN Len(arrivals) - MaxEvents ELSE 0
      whole == Evaluate(Young(arrivals))
      latest == Evaluate(Young(SubSeq(arrivals, first + 1, Len(arrivals))))
  IN  /\ alert # Quiet => alert \in whole[Position(alert.rule)]
      /\ \A r \in DOMAIN latest :
           latest[r] # {} => alert # Quiet /\ Position(alert.rule) <= r

(* What Ingest answers is true of everything received, whenever and in     *)
(* whatever order: an alert names a rule, and an address, whose threshold  *)
(* the incidents inside the window fill; and nothing earlier in the rules' *)
(* order is passed over, although events are dropped by age and by number  *)
(* between two calls: only what is not among the last MaxEvents received   *)
(* can go uncounted.                                                       *)
SiemTellsTheWindow == [][arrivals' # arrivals => AlertIsDue']_siemVars
=============================================================================
