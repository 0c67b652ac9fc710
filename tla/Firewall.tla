------------------------------ MODULE Firewall ------------------------------
(***************************************************************************)
(* What the proxy promises its upstream server, whatever rules, postures   *)
(* and limits decide: a request is held until it is let pass or refused,   *)
(* the decision is made once, and the upstream server sees a request only  *)
(* while it is let pass and its client still waits.                        *)
(***************************************************************************)
CONSTANT Requests

VARIABLES
  stage,   \* away, held, passed (and not yet answered) or closed
  upstream \* the requests the upstream server has seen

Init ==
  /\ stage = [r \in Requests |-> "away"]
  /\ upstream = {}

Move(r, from, to) == stage[r] = from /\ stage' = [stage EXCEPT ![r] = to]

Arrive(r) == Move(r, "away", "held") /\ UNCHANGED upstream

Pass(r) == Move(r, "held", "passed") /\ UNCHANGED upstream

(* Refused, or dropped before any decision.                                *)
Refuse(r) == Move(r, "held", "closed") /\ UNCHANGED upstream

Reach(r) ==
  /\ stage[r] = "passed"
  /\ upstream' = upstream \cup {r}
  /\ UNCHANGED stage

(* The client is answered, or has left.                                    *)
Close(r) == Move(r, "passed", "closed") /\ UNCHANGED upstream

(* The proxy stops: every request it had is closed, unanswered.            *)
Stop ==
  /\ stage' = [r \in Requests |-> IF stage[r] = "away" THEN "away" ELSE "closed"]
  /\ UNCHANGED upstream

Next ==
  \/ Stop
  \/ \E r \in Requests :
       Arrive(r) \/ Pass(r) \/ Refuse(r) \/ Reach(r) \/ Close(r)

Spec == Init /\ [][Next]_<<stage, upstream>>
=============================================================================
