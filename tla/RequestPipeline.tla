--------------------------- MODULE RequestPipeline ---------------------------
(***************************************************************************)
(* The request path of the proxy (rust/trakshya-proxy): a request is read, *)
(* inspected, forwarded or refused, and answered, while tasks spawned by   *)
(* the inspection report to the Go API and to the proxy's own subscribers, *)
(* administrators change the configuration, and the process may restart.   *)
(*                                                                         *)
(* A request is what the verdict depends on: its client, whether its       *)
(* method writes, and whether a rule matches its path, query or body.  The *)
(* configuration is read under its RwLock with no await before the guard   *)
(* is dropped, so an inspection is one step and needs no lock variable.    *)
(***************************************************************************)
EXTENDS RateLimiter

CONSTANTS
  Requests,     \* the requests that may arrive
  NoRequest,    \* what is known of a request before it arrives
  Unknown,      \* the client of every request without X-Forwarded-For
  Kinds,        \* the kinds of request that may arrive
  FileConfig,   \* the configuration the process starts with
  Settings,     \* the configurations an administrator may set
  CallsMayFail, \* whether a call to the Go API may be lost or refused
  MaxRestarts   \* bound: restarts of the proxy

Postures == {"Monitor", "Standard", "UnderAttack"}

ASSUME PipelineAssumption ==
  /\ Unknown \in Clients
  /\ Kinds \subseteq [client : Clients, writes : BOOLEAN, attack : BOOLEAN]
  /\ FileConfig \in Settings
  /\ Settings \subseteq [posture : Postures, limiting : BOOLEAN,
                         trusted : SUBSET Clients]
  /\ CallsMayFail \in BOOLEAN
  /\ MaxRestarts \in Nat

VARIABLES
  config,
  request,   \* each request, once it has arrived
  pc,        \* where its handler is suspended
  verdict,   \* what inspect decided
  answer,    \* what the client got
  report,    \* where the task spawned by its inspection is
  upstream,  \* the requests the upstream server has seen
  delivered, \* the calls <<kind, request>> that took effect
  lost,      \* the calls that did not, and are never made again
  restarts

tasks == <<request, pc, verdict, answer, report>>
calls == <<delivered, lost>>
vars == <<limiterVars, config, tasks, upstream, calls, restarts>>

(* A handler is "cut" when it is dropped before it has answered.           *)
PC == {"away", "reading", "forwarding", "recording", "responding", "answered",
       "cut"}
Verdicts == {"none", "trusted", "limited", "refused", "blocked", "monitored",
             "clean"}
Answers == {"none", "400", "403", "429", "502", "upstream"}
Reports == {"none", "incident", "count", "notice", "done", "cut"}
CallKinds == {"incident", "count", "notice", "event"}

Init ==
  /\ LimiterInit
  /\ config = FileConfig
  /\ request = [r \in Requests |-> NoRequest]
  /\ pc = [r \in Requests |-> "away"]
  /\ verdict = [r \in Requests |-> "none"]
  /\ answer = [r \in Requests |-> "none"]
  /\ report = [r \in Requests |-> "none"]
  /\ upstream = {} /\ delivered = {} /\ lost = {}
  /\ restarts = 0

Arrive(r) ==
  /\ pc[r] = "away"
  /\ pc' = [pc EXCEPT ![r] = "reading"]
  /\ \E kind \in Kinds : request' = [request EXCEPT ![r] = kind]
  /\ UNCHANGED <<limiterVars, config, verdict, answer, report, upstream, calls,
                 restarts>>

(* The handler returns a response of its own.                              *)
Reply(r, from, status) ==
  /\ pc[r] = from
  /\ pc' = [pc EXCEPT ![r] = "answered"]
  /\ answer' = [answer EXCEPT ![r] = status]

BodyFails(r) ==
  /\ Reply(r, "reading", "400")
  /\ UNCHANGED <<limiterVars, config, request, verdict, report, upstream, calls,
                 restarts>>

-----------------------------------------------------------------------------
(* inspect                                                                 *)

(* The verdict, the task it spawns (if any) and the response it gives; a   *)
(* request that gets no response goes on to the upstream server.           *)
Decide(r, v, spawned) ==
  /\ verdict' = [verdict EXCEPT ![r] = v]
  /\ report' = [report EXCEPT ![r] = spawned]
  /\ UNCHANGED <<config, request, upstream, calls, restarts>>

LetPass(r) ==
  /\ pc[r] = "reading"
  /\ pc' = [pc EXCEPT ![r] = "forwarding"]
  /\ UNCHANGED answer

Trusted(r) == request[r].client \in config.trusted

(* With the limiter switched off its bucket is not even visited.           *)
Admitted(r) ==
  /\ pc[r] = "reading"
  /\ ~Trusted(r)
  /\ IF config.limiting THEN Allow(request[r].client) ELSE UNCHANGED limiterVars

RefusedByPosture(r) == config.posture = "UnderAttack" /\ request[r].writes

InspectTrusted(r) ==
  /\ LetPass(r)
  /\ Trusted(r)
  /\ Decide(r, "trusted", "none")
  /\ UNCHANGED limiterVars

InspectLimited(r) ==
  /\ Reply(r, "reading", "429")
  /\ ~Trusted(r) /\ config.limiting /\ Deny(request[r].client)
  /\ Decide(r, "limited", "incident")

InspectRefused(r) ==
  /\ Admitted(r) /\ RefusedByPosture(r)
  /\ Reply(r, "reading", "403")
  /\ Decide(r, "refused", "none")

InspectAttackGoesOn(r) ==
  /\ Admitted(r) /\ ~RefusedByPosture(r) /\ request[r].attack
  /\ LetPass(r)
  /\ Decide(r, IF config.posture = "Monitor" THEN "monitored" ELSE "blocked",
            "incident")

InspectAttack(r) ==
  /\ Admitted(r) /\ ~RefusedByPosture(r) /\ request[r].attack
  /\ IF config.posture = "Monitor"
     THEN LetPass(r) /\ Decide(r, "monitored", "incident")
     ELSE Reply(r, "reading", "403") /\ Decide(r, "blocked", "incident")

InspectClean(r) ==
  /\ Admitted(r) /\ ~RefusedByPosture(r) /\ ~request[r].attack
  /\ LetPass(r)
  /\ Decide(r, "clean", "count")

-----------------------------------------------------------------------------
(* forward_to_upstream                                                     *)

UpstreamReceivesUninspected(r) ==
  /\ pc[r] \in {"reading", "forwarding"} /\ r \notin upstream
  /\ upstream' = upstream \cup {r}
  /\ UNCHANGED <<limiterVars, config, tasks, calls, restarts>>

UpstreamReceives(r) ==
  /\ pc[r] = "forwarding" /\ r \notin upstream
  /\ upstream' = upstream \cup {r}
  /\ UNCHANGED <<limiterVars, config, tasks, calls, restarts>>

UpstreamAnswers(r) ==
  /\ r \in upstream
  /\ pc[r] = "forwarding"
  /\ pc' = [pc EXCEPT ![r] = "recording"]
  /\ UNCHANGED <<limiterVars, config, request, verdict, answer, report, upstream,
                 calls, restarts>>

(* No answer came, whether or not the upstream server saw the request.     *)
UpstreamFails(r) ==
  /\ Reply(r, "forwarding", "502")
  /\ UNCHANGED <<limiterVars, config, request, verdict, report, upstream, calls,
                 restarts>>

(* The Go API takes a count only for something that parses as an address.  *)
Acceptable(kind, r) == kind = "count" => request[r].client # Unknown

AttemptUntilTaken(kind, r) ==
  /\ Acceptable(kind, r)
  /\ delivered' = delivered \cup {<<kind, r>>}
  /\ UNCHANGED lost

(* One HTTP call: it takes effect, or it does not (refused, timed out,     *)
(* unreachable) and is only logged; nothing retries it.                    *)
Attempt(kind, r) ==
  \/ /\ Acceptable(kind, r)
     /\ delivered' = delivered \cup {<<kind, r>>}
     /\ UNCHANGED lost
  \/ /\ CallsMayFail \/ ~Acceptable(kind, r)
     /\ lost' = lost \cup {<<kind, r>>}
     /\ UNCHANGED delivered

(* The handler awaits record_event before it answers the client.           *)
RecordEvent(r) ==
  /\ pc[r] = "recording"
  /\ pc' = [pc EXCEPT ![r] = "responding"]
  /\ Attempt("event", r)
  /\ UNCHANGED <<limiterVars, config, request, verdict, answer, report, upstream,
                 restarts>>

Respond(r) ==
  /\ Reply(r, "responding", "upstream")
  /\ UNCHANGED <<limiterVars, config, request, verdict, report, upstream, calls,
                 restarts>>

(* The client hangs up: the server drops the handler where it is suspended *)
(* and leaves the spawned task alone.                                      *)
Hangup(r) ==
  /\ pc[r] \in {"reading", "forwarding", "recording", "responding"}
  /\ pc' = [pc EXCEPT ![r] = "cut"]
  /\ UNCHANGED <<limiterVars, config, request, verdict, answer, report, upstream,
                 calls, restarts>>

-----------------------------------------------------------------------------
(* The spawned task: record_incident, record_request, broadcast.           *)

Advance(r, from, to) ==
  /\ report[r] = from
  /\ report' = [report EXCEPT ![r] = to]
  /\ UNCHANGED <<limiterVars, config, request, pc, verdict, answer, upstream,
                 restarts>>

RecordIncident(r) == Advance(r, "incident", "count") /\ Attempt("incident", r)

RecordRequestSkipsNotice(r) ==
  /\ Advance(r, "count", "done")
  /\ Attempt("count", r)

RecordRequest(r) ==
  /\ Advance(r, "count", IF verdict[r] = "clean" THEN "done" ELSE "notice")
  /\ Attempt("count", r)

(* broadcast_tx.send; that nobody is subscribed is not an error.           *)
Broadcast(r) ==
  /\ Advance(r, "notice", "done")
  /\ delivered' = delivered \cup {<<"notice", r>>}
  /\ UNCHANGED lost

-----------------------------------------------------------------------------
(* update_config and set_posture, through the proxy's management API.      *)
Configure ==
  /\ config' \in Settings
  /\ UNCHANGED <<limiterVars, tasks, upstream, calls, restarts>>

(* The process ends: handlers and tasks are gone, and so are the buckets   *)
(* and every configuration change, which lived in memory only.             *)
Restart ==
  /\ restarts < MaxRestarts
  /\ restarts' = restarts + 1
  /\ pc' = [r \in Requests |->
              IF pc[r] \in {"away", "answered"} THEN pc[r] ELSE "cut"]
  /\ report' = [r \in Requests |->
                  IF report[r] \in {"none", "done"} THEN report[r] ELSE "cut"]
  /\ config' = FileConfig
  /\ buckets' = NoBuckets
  /\ since' = now
  /\ admitted' = [k \in Clients |-> 0]
  /\ UNCHANGED <<now, request, verdict, answer, upstream, calls>>

(* The limiter's observer, who counts from any second on in RateLimiter,   *)
(* counts here from the start of the process.                              *)
Tick ==
  /\ Elapse /\ UNCHANGED <<since, admitted>>
  /\ UNCHANGED <<config, tasks, upstream, calls, restarts>>

Inspect(r) ==
  \/ InspectTrusted(r) \/ InspectLimited(r) \/ InspectRefused(r)
  \/ InspectAttack(r) \/ InspectClean(r)

Handle(r) ==
  \/ BodyFails(r) \/ Inspect(r)
  \/ UpstreamReceives(r) \/ UpstreamAnswers(r) \/ UpstreamFails(r)
  \/ RecordEvent(r) \/ Respond(r) \/ Hangup(r)

Report(r) == RecordIncident(r) \/ RecordRequest(r) \/ Broadcast(r)

Next ==
  \/ Configure \/ Restart \/ Tick
  \/ \E r \in Requests : Arrive(r) \/ Handle(r) \/ Report(r)

(* A call to the Go API ends within the 5 s of the gateway's client, so    *)
(* what waits for one goes on.  Nothing bounds the wait for a body or for  *)
(* the upstream server: forward_to_upstream builds a client of its own,    *)
(* without a timeout.                                                      *)
Fairness ==
  \A r \in Requests :
    WF_vars(RecordEvent(r) \/ Respond(r)) /\ WF_vars(Report(r))

Spec == Init /\ [][Next]_vars

FairSpec == Spec /\ Fairness

-----------------------------------------------------------------------------
TypeOK ==
  /\ LimiterTypeOK
  /\ config \in Settings
  /\ request \in [Requests -> Kinds \cup {NoRequest}]
  /\ pc \in [Requests -> PC]
  /\ \A r \in Requests : pc[r] # "away" => request[r] \in Kinds
  /\ verdict \in [Requests -> Verdicts]
  /\ answer \in [Requests -> Answers]
  /\ report \in [Requests -> Reports]
  /\ upstream \subseteq Requests
  /\ delivered \subseteq CallKinds \X Requests
  /\ lost \subseteq CallKinds \X Requests
  /\ restarts \in 0 .. MaxRestarts

(* The upstream server sees only requests whose verdict lets them through, *)
(* and an attack only if its client was trusted or the posture was Monitor *)
(* when it was inspected, however the configuration has changed since.     *)
UpstreamSeesOnlyPassed ==
  \A r \in upstream :
    /\ verdict[r] \in {"trusted", "monitored", "clean"}
    /\ request[r].attack => verdict[r] \in {"trusted", "monitored"}

(* The calls a handler and its task make for a verdict, when they get to   *)
(* their end.                                                              *)
Due(r) ==
  CASE verdict[r] \in {"limited", "blocked", "monitored"} ->
         {"incident", "count", "notice"}
    [] verdict[r] = "clean" -> {"count"}
    [] OTHER -> {}

Made(r) == {kind \in CallKinds : <<kind, r>> \in delivered \cup lost}

(* The records follow the verdict: no call is made that the verdict does   *)
(* not ask for; a task that has ended has made each one, so a record that  *)
(* is missing was lost on the way or cut off by a restart; and an event is *)
(* recorded for what the upstream server saw, before its answer is passed  *)
(* on to the client.  A subscriber hears of an incident only after both    *)
(* calls about it have been tried, though either may have been lost.       *)
RecordsFollowVerdicts ==
  \A r \in Requests :
    /\ Made(r) \ {"event"} \subseteq Due(r)
    /\ report[r] = "done" => Due(r) \subseteq Made(r)
    /\ report[r] = "none" => Due(r) = {}
    /\ "event" \in Made(r) => r \in upstream
    /\ answer[r] = "upstream" => "event" \in Made(r)
    /\ "notice" \in Made(r) => {"incident", "count"} \subseteq Made(r)

(* A dead or slow Go API delays a client and a task, but stops neither: a  *)
(* request is handled once, so there is a time from which no handler waits *)
(* for its event to be recorded and no task for one of its calls.          *)
CallsHoldNobodyUp ==
  <>[](\A r \in Requests :
         pc[r] # "recording" /\ report[r] \in {"none", "done", "cut"})

(* README.md: an attack is answered with 403 and the incident is reported  *)
(* to the Go API.                                                          *)
BlockedIsReported ==
  \A r \in Requests :
    request[r] \in Kinds /\ request[r].attack /\ answer[r] = "403"
      ~> <<"incident", r>> \in delivered

(* The request path implements the abstract firewall.                      *)
Stage(r) ==
  CASE pc[r] = "away" -> "away"
    [] pc[r] = "reading" -> "held"
    [] pc[r] \in {"forwarding", "recording", "responding"} -> "passed"
    [] OTHER -> "closed"

Promise == INSTANCE Firewall WITH stage <- [r \in Requests |-> Stage(r)]
ImplementsFirewall == Promise!Spec
=============================================================================
