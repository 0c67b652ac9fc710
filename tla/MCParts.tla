------------------------------ MODULE MCParts -------------------------------
(* The parts of the system that stand alone, checked in one go: each       *)
(* behaviour runs one of them, so that their states add up and do not      *)
(* multiply.  They have no variable in common.                             *)
EXTENDS RateLimiter, SiemEngine, SseHub, TextWindows, Tables, Overview,
        LogStream

VARIABLE running

partsVars == <<running, limiterVars, siemVars, sseVars, windowVars, tablesVars,
               overviewVars, logVars>>

MCShapes ==
  {[type |-> "attack_blocked", attack |-> "xss", ip |-> "a", path |-> "p"],
   [type |-> "connection", attack |-> "command_injection", ip |-> "a", path |-> "p"],
   [type |-> "connection", attack |-> "sql_injection", ip |-> "a", path |-> "q"],
   [type |-> "request", attack |-> "none", ip |-> NoIp, path |-> "p"]}

MCThreshold == [rule \in ToSet(RuleNames) |-> 2]
MCZones == {-1, 0, 1}

PartsInit ==
  /\ running \in {"limiter", "siem", "sse", "windows", "tables", "overview", "log"}
  /\ LimiterInit /\ SiemInit /\ SseInit /\ WindowInit /\ TablesInit
  /\ OverviewInit /\ LogInit

PartsNext ==
  \/ /\ running = "limiter" /\ LimiterNext
     /\ UNCHANGED <<running, siemVars, sseVars, windowVars, tablesVars,
                    overviewVars, logVars>>
  \/ /\ running = "siem" /\ SiemNext
     /\ UNCHANGED <<running, limiterVars, sseVars, windowVars, tablesVars,
                    overviewVars, logVars>>
  \/ /\ running = "sse" /\ SseNext
     /\ UNCHANGED <<running, limiterVars, siemVars, windowVars, tablesVars,
                    overviewVars, logVars>>
  \/ /\ running = "windows" /\ WindowNext
     /\ UNCHANGED <<running, limiterVars, siemVars, sseVars, tablesVars,
                    overviewVars, logVars>>
  \/ /\ running = "tables" /\ TablesNext
     /\ UNCHANGED <<running, limiterVars, siemVars, sseVars, windowVars,
                    overviewVars, logVars>>
  \/ /\ running = "overview" /\ OverviewNext
     /\ UNCHANGED <<running, limiterVars, siemVars, sseVars, windowVars,
                    tablesVars, logVars>>
  \/ /\ running = "log" /\ LogNext
     /\ UNCHANGED <<running, limiterVars, siemVars, sseVars, windowVars,
                    tablesVars, overviewVars>>

PartsSpec == PartsInit /\ [][PartsNext]_partsVars

(* Every variable has its type (the limiter's have theirs in the TypeOK of *)
(* RequestPipeline).                                                       *)
PartsTypeOK ==
  /\ SiemTypeOK /\ SseTypeOK /\ WindowTypeOK /\ TablesTypeOK
  /\ OverviewTypeOK /\ LogTypeOK
=============================================================================
