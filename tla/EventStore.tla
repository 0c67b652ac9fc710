----------------------------- MODULE EventStore -----------------------------
(***************************************************************************)
(* The buffered ingestion pipeline of the Go API's DuckDB store            *)
(* (go/internal/db/store_duckdb.go): handlers put events into a bounded    *)
(* channel, a flush loop moves them in batches into the table raw_events,  *)
(* Close drains once more, and the process may be killed and restarted.    *)
(*                                                                         *)
(* An event is its arrival number: what it carries plays no part here.     *)
(* A flusher is whoever runs drainBuffer: the flush loop, or a goroutine   *)
(* in Close.                                                               *)
(***************************************************************************)
EXTENDS Integers, Sequences, SequencesExt

CONSTANTS
  FlushLoop,     \* the goroutine of flushLoop
  Closers,       \* the goroutines that may call Close
  NoFlusher,     \* the owner of a free flushMu
  QueueCap,      \* capacity of writeCh (8192)
  FlushSize,     \* largest batch (1000)
  WritesMayFail, \* whether the database may refuse a batch
  MaxEvents,     \* bound: events ever handed to Ingest
  MaxRestarts    \* bound: times the process is killed and started again

Flushers == {FlushLoop} \cup Closers

ASSUME StoreAssumption ==
  /\ FlushLoop \notin Closers
  /\ NoFlusher \notin Flushers
  /\ QueueCap \in Nat
  /\ FlushSize \in Nat \ {0}
  /\ WritesMayFail \in BOOLEAN
  /\ MaxEvents \in Nat
  /\ MaxRestarts \in Nat

VARIABLES
  next,       \* the number of the next event to arrive
  writeCh,    \* the channel
  batch,      \* what each flusher has taken from the channel
  pc,         \* where each flusher is
  flushMu,    \* the flusher that holds flushMu, or NoFlusher
  closed,     \* the flag Close tests
  ticking,    \* flushTimer has not been stopped
  dbOpen,     \* the database handle has not been closed
  restarts,
  rows,       \* the events in raw_events
  pruned,     \* the events deleted by retention
  dropped,    \* the events Ingest found no room for
  failed,     \* the events of batches the database refused
  killed      \* the events in memory when the process was killed

volatile == <<writeCh, batch, pc, flushMu, closed, ticking, dbOpen>>
fates == <<rows, pruned, dropped, failed, killed>>
vars == <<next, restarts, volatile, fates>>

(* The last three are stages of Close, the others of drainBuffer.          *)
PC == {"idle", "lock", "drain", "write", "stop_timer", "close_db", "done"}

Idle == [f \in Flushers |-> "idle"]
NoBatch == [f \in Flushers |-> <<>>]

Init ==
  /\ next = 1
  /\ writeCh = <<>>
  /\ batch = NoBatch
  /\ pc = Idle
  /\ flushMu = NoFlusher
  /\ closed = FALSE /\ ticking = TRUE /\ dbOpen = TRUE
  /\ restarts = 0
  /\ rows = {} /\ pruned = {} /\ dropped = {} /\ failed = {} /\ killed = {}

Goto(f, from, to) == pc[f] = from /\ pc' = [pc EXCEPT ![f] = to]

Waiting == ToSet(writeCh)
Taken(f) == ToSet(batch[f])
InMemory == Waiting \cup UNION {Taken(f) : f \in Flushers}

-----------------------------------------------------------------------------
(* Ingest never waits: an event that finds the channel full is dropped.    *)
RoomOffByOne == Len(writeCh) <= QueueCap

Room == Len(writeCh) < QueueCap

Ingest ==
  /\ next <= MaxEvents
  /\ next' = next + 1
  /\ IF Room
     THEN writeCh' = Append(writeCh, next) /\ UNCHANGED dropped
     ELSE dropped' = dropped \cup {next} /\ UNCHANGED writeCh
  /\ UNCHANGED <<batch, pc, flushMu, closed, ticking, dbOpen, restarts,
                 rows, pruned, failed, killed>>

(* flushLoop: a tick of the one-second timer starts a drain.               *)
Tick ==
  /\ ticking
  /\ Goto(FlushLoop, "idle", "lock")
  /\ UNCHANGED <<next, restarts, writeCh, batch, flushMu, closed, ticking,
                 dbOpen, fates>>

-----------------------------------------------------------------------------
(* drainBuffer                                                             *)

Lock(f) ==
  /\ flushMu = NoFlusher
  /\ Goto(f, "lock", "drain")
  /\ flushMu' = f
  /\ UNCHANGED <<next, restarts, writeCh, batch, closed, ticking, dbOpen, fates>>

Receive(f) ==
  /\ pc[f] = "drain"
  /\ Len(batch[f]) < FlushSize
  /\ writeCh # <<>>
  /\ batch' = [batch EXCEPT ![f] = Append(@, Head(writeCh))]
  /\ writeCh' = Tail(writeCh)
  /\ UNCHANGED <<next, restarts, pc, flushMu, closed, ticking, dbOpen, fates>>

(* The batch is full, or the channel has nothing more for now.             *)
BatchComplete(f) ==
  /\ pc[f] = "drain"
  /\ Len(batch[f]) = FlushSize \/ writeCh = <<>>

(* drainBuffer returns: the loop waits for the next tick, Close goes on.   *)
AfterDrain(f) == IF f = FlushLoop THEN "idle" ELSE "close_db"

EmptyKeepsLock(f) ==
  /\ BatchComplete(f) /\ batch[f] = <<>>
  /\ pc' = [pc EXCEPT ![f] = AfterDrain(f)]
  /\ UNCHANGED <<next, restarts, writeCh, batch, flushMu, closed, ticking,
                 dbOpen, fates>>

Empty(f) ==
  /\ BatchComplete(f) /\ batch[f] = <<>>
  /\ pc' = [pc EXCEPT ![f] = AfterDrain(f)]
  /\ flushMu' = NoFlusher
  /\ UNCHANGED <<next, restarts, writeCh, batch, closed, ticking, dbOpen, fates>>

StartWriteUnlocked(f) ==
  /\ BatchComplete(f) /\ batch[f] # <<>>
  /\ Goto(f, "drain", "write")
  /\ flushMu' = NoFlusher
  /\ UNCHANGED <<next, restarts, writeCh, batch, closed, ticking, dbOpen, fates>>

StartWrite(f) ==
  /\ BatchComplete(f) /\ batch[f] # <<>>
  /\ Goto(f, "drain", "write")
  /\ UNCHANGED <<next, restarts, writeCh, batch, flushMu, closed, ticking,
                 dbOpen, fates>>

(* writeBatch is one transaction.  It ends drainBuffer either way: an      *)
(* error is logged and the batch is gone.                                  *)
EndWrite(f) ==
  /\ Goto(f, "write", AfterDrain(f))
  /\ batch' = [batch EXCEPT ![f] = <<>>]
  /\ flushMu' = NoFlusher
  /\ UNCHANGED <<next, restarts, writeCh, closed, ticking, dbOpen>>

Commit(f) ==
  /\ dbOpen
  /\ EndWrite(f)
  /\ rows' = rows \cup Taken(f)
  /\ UNCHANGED <<pruned, dropped, failed, killed>>

RefuseKeepsPrefix(f) ==
  /\ WritesMayFail \/ ~dbOpen
  /\ EndWrite(f)
  /\ rows' = rows \cup {Head(batch[f])}
  /\ failed' = failed \cup Taken(f)
  /\ UNCHANGED <<pruned, dropped, killed>>

Refuse(f) ==
  /\ WritesMayFail \/ ~dbOpen
  /\ EndWrite(f)
  /\ failed' = failed \cup Taken(f)
  /\ UNCHANGED <<rows, pruned, dropped, killed>>

Drain(f) ==
  \/ Lock(f) \/ Receive(f) \/ Empty(f) \/ StartWrite(f)
  \/ Commit(f) \/ Refuse(f)

-----------------------------------------------------------------------------
(* Close.  closeMu covers only the test and setting of the flag; a second  *)
(* caller returns at once, whatever the first has done by then.            *)
Close(c) ==
  /\ closed' = TRUE
  /\ Goto(c, "idle", IF closed THEN "done" ELSE "stop_timer")
  /\ UNCHANGED <<next, restarts, writeCh, batch, flushMu, ticking, dbOpen, fates>>

StopTimer(c) ==
  /\ Goto(c, "stop_timer", "lock")
  /\ ticking' = FALSE
  /\ UNCHANGED <<next, restarts, writeCh, batch, flushMu, closed, dbOpen, fates>>

CloseDB(c) ==
  /\ Goto(c, "close_db", "done")
  /\ dbOpen' = FALSE
  /\ UNCHANGED <<next, restarts, writeCh, batch, flushMu, closed, ticking, fates>>

-----------------------------------------------------------------------------
(* PruneOldEvents: rows past the retention period, by their own timestamp. *)
PruneOldEvents ==
  /\ dbOpen
  /\ \E old \in SUBSET rows :
       /\ old # {}
       /\ rows' = rows \ old
       /\ pruned' = pruned \cup old
  /\ UNCHANGED <<next, restarts, volatile, dropped, failed, killed>>

(* The process dies without running Close (main has no signal handler and  *)
(* leaves only through log.Fatalf); NewStore starts from the table alone.  *)
Restart ==
  /\ restarts < MaxRestarts
  /\ restarts' = restarts + 1
  /\ killed' = killed \cup InMemory
  /\ writeCh' = <<>> /\ batch' = NoBatch
  /\ pc' = Idle /\ flushMu' = NoFlusher
  /\ closed' = FALSE /\ ticking' = TRUE /\ dbOpen' = TRUE
  /\ UNCHANGED <<next, rows, pruned, dropped, failed>>

Next ==
  \/ Ingest \/ Tick \/ PruneOldEvents \/ Restart
  \/ \E f \in Flushers : Drain(f)
  \/ \E c \in Closers : Close(c) \/ StopTimer(c) \/ CloseDB(c)

(* The timer ticks, and no goroutine that can run is left out for ever.    *)
Fairness ==
  /\ WF_vars(Tick)
  /\ \A f \in Flushers : WF_vars(Drain(f))
  /\ \A c \in Closers : WF_vars(StopTimer(c) \/ CloseDB(c))

Spec == Init /\ [][Next]_vars

FairSpec == Spec /\ Fairness

-----------------------------------------------------------------------------
Arrived == 1 .. next - 1

TypeOK ==
  /\ next \in 1 .. MaxEvents + 1
  /\ writeCh \in Seq(Nat) /\ Len(writeCh) <= QueueCap
  /\ batch \in [Flushers -> Seq(Nat)]
  /\ \A f \in Flushers : Len(batch[f]) <= FlushSize
  /\ pc \in [Flushers -> PC]
  /\ flushMu \in Flushers \cup {NoFlusher}
  /\ closed \in BOOLEAN /\ ticking \in BOOLEAN /\ dbOpen \in BOOLEAN
  /\ restarts \in 0 .. MaxRestarts
  /\ rows \cup pruned \cup dropped \cup failed \cup killed \subseteq Nat

Settled == rows \cup pruned \cup failed \cup killed

(* No event vanishes without a trace and none is written twice: every      *)
(* event that reached Ingest is in exactly one of the channel, one         *)
(* flusher's batch, the table, or the four ways of being gone.             *)
EveryEventInOnePlace ==
  /\ Arrived = Settled \cup dropped \cup InMemory
  /\ Settled \cap dropped = {} /\ Settled \cap InMemory = {}
  /\ dropped \cap InMemory = {}
  /\ rows \cap pruned = {} /\ rows \cap failed = {} /\ rows \cap killed = {}
  /\ pruned \cap failed = {} /\ pruned \cap killed = {}
  /\ failed \cap killed = {}
  /\ \A f \in Flushers :
       /\ Taken(f) \cap Waiting = {}
       /\ \A g \in Flushers \ {f} : Taken(f) \cap Taken(g) = {}

(* Events are settled in the order they arrived: when one has been written *)
(* (or refused), no earlier one is still in the channel or in a batch.     *)
(* flushMu, held from the first receive to the end of the transaction,     *)
(* is what keeps the flush loop and Close from overtaking each other.      *)
SettledInArrivalOrder ==
  \A done \in Settled, waiting \in InMemory : done < waiting

(* The database is closed by one goroutine, after its own final drain:     *)
(* nobody is inside Close with work to do once the handle is closed.       *)
ClosedAfterFinalDrain ==
  ~dbOpen => /\ ~ticking
             /\ \A c \in Closers : pc[c] \in {"idle", "done"}

(* While the store stays open, an event in the channel is written or       *)
(* refused, even when more than one batch of others is ahead of it.        *)
QueuedIsSettled ==
  \A e \in 1 .. MaxEvents : e \in Waiting ~> (e \in Settled \/ closed)

(* Close returns to its caller (unless the process is killed first).       *)
CloseReturns ==
  \A c \in Closers : pc[c] = "stop_timer" ~> pc[c] \in {"done", "idle"}

(* KUBERNETES.md: the Go API persists everything in DuckDB.                *)
EverythingIsPersisted ==
  \A e \in 1 .. MaxEvents : e \in Arrived ~> e \in rows \cup pruned
=============================================================================
