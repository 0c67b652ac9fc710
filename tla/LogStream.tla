----------------------------- MODULE LogStream ------------------------------
(***************************************************************************)
(* The live log of the dashboard: streamLogs (go/internal/api/             *)
(* management.go) sends the newest events of raw_events once, and then,    *)
(* every two seconds, those of the newest whose stamp is later than the    *)
(* latest it has sent.  An event carries the stamp of its sender, or of    *)
(* its arrival, and is committed later, in a batch: not in the order of    *)
(* the stamps.                                                             *)
(***************************************************************************)
EXTENDS Naturals, FiniteSets

CONSTANTS
  LogEvents,
  FirstLimit, \* events of the first message
  PollLimit,  \* events a poll looks at
  MaxStamp    \* bound: the latest stamp

ASSUME LogAssumption ==
  /\ IsFiniteSet(LogEvents)
  /\ PollLimit \in Nat /\ FirstLimit \in 0 .. PollLimit
  /\ MaxStamp \in Nat \ {0}

VARIABLES
  logNow,    \* the clock
  stampOf,   \* the stamp of each event, 0 while there is none
  committed, \* the rows of raw_events
  reader,    \* where streamLogs is
  lastTs,    \* its cursor
  streamed,  \* how often each event was sent
  late,      \* history: events committed when the cursor had passed them
  cut        \* history: events that were not among the newest at a poll

logVars == <<logNow, stampOf, committed, reader, lastTs, streamed, late, cut>>

LogInit ==
  /\ logNow = 1
  /\ stampOf = [e \in LogEvents |-> 0]
  /\ committed = {}
  /\ reader = "new"
  /\ lastTs = 0
  /\ streamed = [e \in LogEvents |-> 0]
  /\ late = {}
  /\ cut = {}

Raise(e) ==
  /\ stampOf[e] = 0
  /\ stampOf' = [stampOf EXCEPT ![e] = logNow]
  /\ UNCHANGED <<logNow, committed, reader, lastTs, streamed, late, cut>>

(* A batch is committed.                                                   *)
Commit(batch) ==
  /\ batch # {} /\ batch \cap committed = {}
  /\ \A e \in batch : stampOf[e] # 0
  /\ committed' = committed \cup batch
  /\ late' = late \cup
       {e \in batch : reader = "streaming" /\ stampOf[e] <= lastTs}
  /\ UNCHANGED <<logNow, stampOf, reader, lastTs, streamed, cut>>

LogElapse ==
  /\ logNow < MaxStamp
  /\ logNow' = logNow + 1
  /\ UNCHANGED <<stampOf, committed, reader, lastTs, streamed, late, cut>>

-----------------------------------------------------------------------------
(* GetRecentEvents: the newest, in any order where stamps are equal.       *)
NewerThan(e) == {f \in committed \ {e} : stampOf[f] >= stampOf[e]}
Overtaken(limit) == {e \in committed : Cardinality(NewerThan(e)) >= limit}

RecentEvents(limit) ==
  {top \in SUBSET committed :
     /\ Cardinality(top) = IF Cardinality(committed) < limit
                           THEN Cardinality(committed) ELSE limit
     /\ \A e \in top, f \in committed \ top : stampOf[e] >= stampOf[f]}

Newest(events) == CHOOSE t \in {stampOf[e] : e \in events} :
                    \A e \in events : stampOf[e] <= t

SendAll(events) ==
  /\ streamed' = [e \in LogEvents |->
       IF e \in events THEN streamed[e] + 1 ELSE streamed[e]]
  /\ lastTs' = IF events = {} THEN lastTs ELSE Newest(events)

Open ==
  /\ reader = "new"
  /\ reader' = "streaming"
  /\ \/ /\ \E top \in RecentEvents(FirstLimit) : SendAll(top)
        /\ cut' = Overtaken(FirstLimit)
     \/ UNCHANGED <<streamed, lastTs, cut>>
  /\ UNCHANGED <<logNow, stampOf, committed, late>>

PollNotBefore ==
  /\ reader = "streaming"
  /\ \E top \in RecentEvents(PollLimit) :
       SendAll({e \in top : stampOf[e] >= lastTs})
  /\ cut' = cut \cup Overtaken(PollLimit)
  /\ UNCHANGED <<logNow, stampOf, committed, reader, late>>

(* A tick; one whose query fails changes nothing.                          *)
Poll ==
  /\ reader = "streaming"
  /\ \E top \in RecentEvents(PollLimit) :
       SendAll({e \in top : stampOf[e] > lastTs})
  /\ cut' = cut \cup Overtaken(PollLimit)
  /\ UNCHANGED <<logNow, stampOf, committed, reader, late>>

LogNext ==
  \/ LogElapse \/ Open \/ Poll
  \/ \E e \in LogEvents : Raise(e)
  \/ \E batch \in SUBSET LogEvents : Commit(batch)

LogSpec == LogInit /\ [][LogNext]_logVars

-----------------------------------------------------------------------------
LogTypeOK ==
  /\ logNow \in 1 .. MaxStamp
  /\ stampOf \in [LogEvents -> 0 .. MaxStamp]
  /\ committed \cup late \cup cut \subseteq LogEvents
  /\ reader \in {"new", "streaming"}
  /\ lastTs \in 0 .. MaxStamp

(* No event is sent twice; and one that was committed and not sent has an  *)
(* excuse - it was committed after the stream had passed its stamp, or     *)
(* there were more events than a message holds - or is still ahead of the  *)
(* stream, so that the next poll may send it.                              *)
LogMissesAreExplained ==
  /\ \A e \in LogEvents : streamed[e] <= 1
  /\ reader = "streaming" =>
       \A e \in committed \ (late \cup cut) :
         streamed[e] = 1 \/ stampOf[e] > lastTs
=============================================================================
