-------------------------- MODULE EventStore_proofs --------------------------
(***************************************************************************)
(* Proofs about the ingestion pipeline, for every queue capacity, batch    *)
(* size, set of closing goroutines and number of events and restarts.      *)
(***************************************************************************)
EXTENDS EventStore, DataTheorems, TLAPS

Increasing(s) == \A i, j \in DOMAIN s : i < j => s[i] < s[j]

(* Who holds flushMu, and that only its holder has taken events.           *)
LockInv ==
  \A f \in Flushers :
    /\ flushMu = f <=> pc[f] \in {"drain", "write"}
    /\ batch[f] # <<>> => flushMu = f

(* The channel is in arrival order, and behind every batch.                *)
OrderInv ==
  /\ Increasing(writeCh)
  /\ \A f \in Flushers : \A x \in Taken(f), y \in Waiting : x < y

(* One goroutine at a time is inside Close, and what it has done so far.   *)
Closing(c) == pc[c] \notin {"idle", "done"}

CloseInv ==
  /\ pc[FlushLoop] \in {"idle", "lock", "drain", "write"}
  /\ ~dbOpen => closed /\ ~ticking
  /\ \A c \in Closers :
       /\ Closing(c) => closed /\ dbOpen
       /\ Closing(c) /\ pc[c] # "stop_timer" => ~ticking
       /\ \A d \in Closers : Closing(c) /\ Closing(d) => c = d

IInv ==
  /\ TypeOK
  /\ LockInv
  /\ OrderInv
  /\ CloseInv
  /\ EveryEventInOnePlace
  /\ SettledInArrivalOrder

-----------------------------------------------------------------------------
(* What Append and Tail do to the order of a sequence of numbers.          *)
LEMMA IncreasingAppend ==
  ASSUME NEW s \in Seq(Nat), NEW e \in Nat, Increasing(s),
         \A x \in ToSet(s) : x < e
  PROVE  Increasing(Append(s, e))
<1>1. \A i \in DOMAIN s : s[i] < e
  BY DEF ToSet
<1> QED
  BY <1>1 DEF Increasing

LEMMA IncreasingTail ==
  ASSUME NEW s \in Seq(Nat), s # <<>>, Increasing(s)
  PROVE  /\ Increasing(Tail(s))
         /\ \A y \in ToSet(Tail(s)) : Head(s) < y
<1> DEFINE t == Tail(s)
<1>1. /\ DOMAIN s = 1 .. Len(s) /\ DOMAIN t = 1 .. Len(s) - 1
      /\ Len(s) \in Nat \ {0}
      /\ \A i \in 1 .. Len(s) - 1 : t[i] = s[i + 1]
      /\ Head(s) = s[1]
  OBVIOUS
<1>2. \A i \in DOMAIN t : Head(s) < t[i]
  BY <1>1 DEF Increasing
<1>3. Increasing(t)
  BY <1>1 DEF Increasing
<1> QED
  BY <1>2, <1>3 DEF ToSet

-----------------------------------------------------------------------------
(* The steps that move no event: they keep whatever is said of the         *)
(* channel, the batches and the fates.                                     *)
LEMMA PlacesKept ==
  ASSUME IInv, UNCHANGED <<next, writeCh, batch, fates>>
  PROVE  OrderInv' /\ EveryEventInOnePlace' /\ SettledInArrivalOrder'
BY DEF IInv, OrderInv, EveryEventInOnePlace, SettledInArrivalOrder, Arrived,
   Settled, InMemory, Waiting, Taken, fates

LEMMA InitIInv == Init => IInv
<1> SUFFICES ASSUME Init PROVE IInv
  OBVIOUS
<1> USE StoreAssumption DEF Init, Idle, NoBatch, Flushers
<1>1. TypeOK
  <2>1. <<>> \in Seq(Nat) /\ Len(<<>>) = 0
    OBVIOUS
  <2>2. writeCh \in Seq(Nat) /\ Len(writeCh) <= QueueCap
    BY <2>1
  <2>3. /\ batch \in [Flushers -> Seq(Nat)]
        /\ \A f \in Flushers : Len(batch[f]) <= FlushSize
    BY <2>1
  <2>4. /\ next \in 1 .. MaxEvents + 1
        /\ restarts \in 0 .. MaxRestarts
        /\ rows \cup pruned \cup dropped \cup failed \cup killed \subseteq Nat
    OBVIOUS
  <2>5. /\ pc \in [Flushers -> PC]
        /\ flushMu \in Flushers \cup {NoFlusher}
    BY DEF PC
  <2>6. closed \in BOOLEAN /\ ticking \in BOOLEAN /\ dbOpen \in BOOLEAN
    OBVIOUS
  <2> QED
    BY <2>2, <2>3, <2>4, <2>5, <2>6 DEF TypeOK
<1>2. LockInv
  BY DEF LockInv
<1>3. Waiting = {} /\ \A f \in Flushers : Taken(f) = {}
  BY ToSetEmpty DEF Waiting, Taken
<1>4. OrderInv
  BY <1>3 DEF OrderInv, Increasing
<1>5. CloseInv
  BY DEF CloseInv, Closing
<1>6. InMemory = {}
  BY <1>3 DEF InMemory
<1>7. EveryEventInOnePlace /\ SettledInArrivalOrder
  BY <1>3, <1>6 DEF EveryEventInOnePlace, SettledInArrivalOrder, Settled, Arrived
<1> QED
  BY <1>1, <1>2, <1>4, <1>5, <1>7 DEF IInv

LEMMA IngestStep == ASSUME IInv, Ingest PROVE IInv'
<1> USE DEF IInv
<1>1. next \in Nat /\ next >= 1 /\ next' = next + 1 /\ writeCh \in Seq(Nat)
  BY StoreAssumption DEF Ingest, TypeOK
<1>2. Arrived' = Arrived \cup {next} /\ next \notin Arrived
  BY <1>1 DEF Arrived
<1>3. \A x \in Settled \cup dropped \cup InMemory : x < next
  BY <1>1 DEF EveryEventInOnePlace, Arrived
<1>4. /\ UNCHANGED <<batch, pc, flushMu, closed, ticking, dbOpen, restarts,
                     rows, pruned, failed, killed>>
      /\ \A f \in Flushers : Taken(f)' = Taken(f)
      /\ Settled' = Settled
  BY DEF Ingest, Taken, Settled
<1>5. LockInv' /\ CloseInv'
  BY <1>4 DEF LockInv, CloseInv, Closing
<1>6. CASE Room
  <2>1. writeCh' = Append(writeCh, next) /\ dropped' = dropped
    BY <1>6 DEF Ingest
  <2>2. Waiting' = Waiting \cup {next}
    BY <1>1, <2>1, ToSetAppend DEF Waiting
  <2>3. InMemory' = InMemory \cup {next}
    BY <1>4, <2>2 DEF InMemory
  <2>4. Increasing(writeCh')
    <3>1. \A x \in ToSet(writeCh) : x < next
      BY <1>3 DEF InMemory, Waiting
    <3> QED
      BY <1>1, <2>1, <3>1, IncreasingAppend DEF OrderInv
  <2>5. OrderInv'
    BY <1>3, <1>4, <2>2, <2>4 DEF OrderInv, InMemory
  <2>6. SettledInArrivalOrder'
    BY <1>3, <1>4, <2>3 DEF SettledInArrivalOrder
  <2>7. EveryEventInOnePlace'
    BY <1>1, <1>2, <1>3, <1>4, <2>1, <2>2, <2>3
       DEF EveryEventInOnePlace, InMemory, Settled
  <2>8. TypeOK'
    BY <1>1, <1>4, <1>6, <2>1, StoreAssumption DEF TypeOK, Room, Ingest
  <2> QED
    BY <1>5, <2>5, <2>6, <2>7, <2>8
<1>7. CASE ~Room
  <2>1. writeCh' = writeCh /\ dropped' = dropped \cup {next}
    BY <1>7 DEF Ingest
  <2>2. Waiting' = Waiting /\ InMemory' = InMemory
    BY <1>4, <2>1 DEF Waiting, InMemory
  <2>3. OrderInv' /\ SettledInArrivalOrder'
    BY <1>4, <2>1, <2>2 DEF OrderInv, SettledInArrivalOrder
  <2>4. EveryEventInOnePlace'
    BY <1>1, <1>2, <1>3, <1>4, <2>1, <2>2 DEF EveryEventInOnePlace
  <2>5. TypeOK'
    BY <1>1, <1>4, <2>1, StoreAssumption DEF TypeOK, Ingest
  <2> QED
    BY <1>5, <2>3, <2>4, <2>5
<1> QED
  BY <1>6, <1>7

(* Control steps of a flusher or of Close: no event moves.                 *)
LEMMA ControlStep ==
  ASSUME IInv,
         \/ Tick
         \/ \E f \in Flushers : Lock(f) \/ Empty(f) \/ StartWrite(f)
         \/ \E c \in Closers : Close(c) \/ StopTimer(c) \/ CloseDB(c)
  PROVE  IInv'
<1> USE StoreAssumption DEF IInv, TypeOK, PC, Goto, fates
<1>1. CASE Tick
  <2>1. LockInv' /\ CloseInv' /\ TypeOK'
    BY <1>1 DEF Tick, LockInv, CloseInv, Closing, Flushers
  <2> QED
    BY <1>1, <2>1, PlacesKept DEF Tick
<1>2. ASSUME NEW f \in Flushers, Lock(f) PROVE IInv'
  <2>1. LockInv' /\ CloseInv' /\ TypeOK'
    BY <1>2 DEF Lock, LockInv, CloseInv, Closing, Flushers
  <2> QED
    BY <1>2, <2>1, PlacesKept DEF Lock
<1>3. ASSUME NEW f \in Flushers, Empty(f) PROVE IInv'
  <2>1. LockInv' /\ CloseInv' /\ TypeOK'
    BY <1>3 DEF Empty, BatchComplete, AfterDrain, LockInv, CloseInv, Closing,
       Flushers
  <2> QED
    BY <1>3, <2>1, PlacesKept DEF Empty
<1>4. ASSUME NEW f \in Flushers, StartWrite(f) PROVE IInv'
  <2>1. LockInv' /\ CloseInv' /\ TypeOK'
    BY <1>4 DEF StartWrite, LockInv, CloseInv, Closing, Flushers
  <2> QED
    BY <1>4, <2>1, PlacesKept DEF StartWrite
<1>5. ASSUME NEW c \in Closers, Close(c) PROVE IInv'
  <2>1. LockInv' /\ CloseInv' /\ TypeOK'
    BY <1>5 DEF Close, LockInv, CloseInv, Closing, Flushers
  <2> QED
    BY <1>5, <2>1, PlacesKept DEF Close
<1>6. ASSUME NEW c \in Closers, StopTimer(c) PROVE IInv'
  <2>1. LockInv' /\ CloseInv' /\ TypeOK'
    BY <1>6 DEF StopTimer, LockInv, CloseInv, Closing, Flushers
  <2> QED
    BY <1>6, <2>1, PlacesKept DEF StopTimer
<1>7. ASSUME NEW c \in Closers, CloseDB(c) PROVE IInv'
  <2>1. LockInv' /\ CloseInv' /\ TypeOK'
    BY <1>7 DEF CloseDB, LockInv, CloseInv, Closing, Flushers
  <2> QED
    BY <1>7, <2>1, PlacesKept DEF CloseDB
<1> QED
  BY <1>1, <1>2, <1>3, <1>4, <1>5, <1>6, <1>7

(* The head of the channel moves to the receiver's batch: it is later than *)
(* everything in the batch and earlier than what stays in the channel.     *)
LEMMA ReceiveStep ==
  ASSUME IInv, NEW f \in Flushers, Receive(f)
  PROVE  IInv'
<1> USE DEF IInv
<1> DEFINE h == Head(writeCh)
<1>1. /\ writeCh \in Seq(Nat) /\ writeCh # <<>> /\ batch[f] \in Seq(Nat)
      /\ writeCh' = Tail(writeCh)
      /\ batch' = [batch EXCEPT ![f] = Append(@, h)]
      /\ batch \in [Flushers -> Seq(Nat)]
      /\ pc[f] = "drain"
      /\ UNCHANGED <<next, restarts, pc, flushMu, closed, ticking, dbOpen>>
      /\ UNCHANGED <<rows, pruned, dropped, failed, killed>>
  BY DEF Receive, TypeOK, fates
<1>2. h \in Nat /\ writeCh' \in Seq(Nat) /\ Len(writeCh') = Len(writeCh) - 1
  BY <1>1
<1>3. Waiting = {h} \cup Waiting' /\ h \notin Waiting'
  <2>1. ToSet(writeCh) = {h} \cup ToSet(Tail(writeCh))
    BY <1>1, ToSetHeadTail
  <2>2. \A y \in ToSet(Tail(writeCh)) : h < y
    BY <1>1, IncreasingTail DEF OrderInv
  <2> QED
    BY <1>1, <1>2, <2>1, <2>2 DEF Waiting
<1>4. /\ Taken(f)' = Taken(f) \cup {h}
      /\ \A g \in Flushers \ {f} : Taken(g)' = Taken(g)
  BY <1>1, <1>2, ToSetAppend DEF Taken
<1>5. InMemory' = InMemory
  BY <1>3, <1>4 DEF InMemory
<1>6. TypeOK'
  <2>1. batch' \in [Flushers -> Seq(Nat)]
    BY <1>1, <1>2
  <2>2. \A g \in Flushers : Len(batch'[g]) <= FlushSize
    <3>1. Len(batch'[f]) = Len(batch[f]) + 1 /\ Len(batch[f]) \in Nat
      BY <1>1, <1>2
    <3>2. Len(batch[f]) < FlushSize
      BY DEF Receive
    <3> QED
      BY <1>1, <3>1, <3>2, StoreAssumption DEF TypeOK
  <2>3. Len(writeCh') <= QueueCap
    <3>1. Len(writeCh) \in Nat /\ Len(writeCh) <= QueueCap
      BY <1>1 DEF TypeOK
    <3> QED
      BY <1>2, <3>1, StoreAssumption
  <2> QED
    BY <1>1, <1>2, <2>1, <2>2, <2>3 DEF TypeOK
<1>7. LockInv'
  BY <1>1 DEF LockInv, TypeOK
<1>8. CloseInv'
  BY <1>1 DEF CloseInv, Closing
<1>9. OrderInv'
  <2>1. Increasing(writeCh')
    BY <1>1, IncreasingTail DEF OrderInv
  <2>2. \A y \in Waiting' : h < y
    BY <1>1, IncreasingTail DEF OrderInv, Waiting
  <2>3. \A g \in Flushers : \A x \in Taken(g), y \in Waiting' : x < y
    BY <1>3 DEF OrderInv
  <2>4. \A g \in Flushers : \A x \in Taken(g)', y \in Waiting' : x < y
    BY <1>4, <2>2, <2>3
  <2> QED
    BY <2>1, <2>4 DEF OrderInv
<1>10. SettledInArrivalOrder'
  BY <1>1, <1>5 DEF SettledInArrivalOrder, Settled
<1>11. EveryEventInOnePlace'
  <2>1. \A g \in Flushers \ {f} : batch[g] = <<>>
    BY <1>1, StoreAssumption DEF LockInv
  <2>2. \A g \in Flushers \ {f} : Taken(g) = {}
    BY <2>1, ToSetEmpty DEF Taken
  <2>3. \A g \in Flushers :
          /\ Taken(g)' \cap Waiting' = {}
          /\ \A k \in Flushers \ {g} : Taken(g)' \cap Taken(k)' = {}
    BY <1>3, <1>4, <2>2 DEF EveryEventInOnePlace
  <2> QED
    BY <1>1, <1>5, <2>3 DEF EveryEventInOnePlace, Settled, Arrived
<1> QED
  BY <1>6, <1>7, <1>8, <1>9, <1>10, <1>11

(* The transaction ends: the holder's batch leaves memory as a whole, and  *)
(* everything that stays in memory is later.                               *)
LEMMA EndWriteFacts ==
  ASSUME IInv, NEW f \in Flushers, EndWrite(f)
  PROVE  /\ TypeOK => /\ writeCh' \in Seq(Nat) /\ Len(writeCh') <= QueueCap
                      /\ batch' \in [Flushers -> Seq(Nat)]
                      /\ \A g \in Flushers : Len(batch'[g]) <= FlushSize
         /\ LockInv' /\ CloseInv' /\ OrderInv'
         /\ InMemory = InMemory' \cup Taken(f)
         /\ InMemory' = Waiting
         /\ Waiting' = Waiting
         /\ \A g \in Flushers : Taken(g)' = {}
         /\ \A x \in Taken(f), y \in InMemory' : x < y
         /\ InMemory' \cap Taken(f) = {}
<1> USE DEF IInv
<1>1. /\ pc[f] = "write" /\ pc' = [pc EXCEPT ![f] = AfterDrain(f)]
      /\ batch' = [batch EXCEPT ![f] = <<>>]
      /\ batch \in [Flushers -> Seq(Nat)] /\ pc \in [Flushers -> PC]
      /\ flushMu' = NoFlusher
      /\ UNCHANGED <<next, restarts, writeCh, closed, ticking, dbOpen>>
  BY DEF EndWrite, Goto, TypeOK
<1>2. flushMu = f /\ \A g \in Flushers \ {f} : batch[g] = <<>>
  BY <1>1, StoreAssumption DEF LockInv
<1>3. \A g \in Flushers : batch'[g] = <<>>
  BY <1>1, <1>2
<1>4. /\ \A g \in Flushers : Taken(g)' = {}
      /\ \A g \in Flushers \ {f} : Taken(g) = {}
      /\ Waiting' = Waiting
  BY <1>1, <1>2, <1>3, ToSetEmpty DEF Taken, Waiting
<1>5. InMemory = InMemory' \cup Taken(f) /\ InMemory' = Waiting
  BY <1>4 DEF InMemory
<1>6. LockInv'
  BY <1>1, <1>2, <1>3, StoreAssumption DEF LockInv, AfterDrain
<1>7. CloseInv'
  BY <1>1, StoreAssumption DEF CloseInv, Closing, AfterDrain, Flushers
<1>8. OrderInv'
  BY <1>1, <1>4 DEF OrderInv
<1>9. \A x \in Taken(f), y \in InMemory' : x < y
  BY <1>5 DEF OrderInv
<1>10. InMemory' \cap Taken(f) = {}
  BY <1>5 DEF EveryEventInOnePlace
<1>11. /\ batch' \in [Flushers -> Seq(Nat)]
       /\ \A g \in Flushers : Len(batch'[g]) <= FlushSize
  <2>1. <<>> \in Seq(Nat) /\ Len(<<>>) = 0
    OBVIOUS
  <2> QED
    BY <1>1, <1>3, <2>1, StoreAssumption
<1> QED
  BY <1>1, <1>4, <1>5, <1>6, <1>7, <1>8, <1>9, <1>10, <1>11 DEF TypeOK

LEMMA WriteStep ==
  ASSUME IInv, NEW f \in Flushers, Commit(f) \/ Refuse(f)
  PROVE  IInv'
<1> USE DEF IInv
<1>1. EndWrite(f)
  BY DEF Commit, Refuse
<1>2. /\ UNCHANGED <<next, restarts, writeCh, closed, ticking, dbOpen>>
      /\ UNCHANGED <<pruned, dropped, killed>>
      /\ pc' = [pc EXCEPT ![f] = AfterDrain(f)] /\ flushMu' = NoFlusher
      /\ \/ rows' = rows \cup Taken(f) /\ failed' = failed
         \/ rows' = rows /\ failed' = failed \cup Taken(f)
  BY <1>1 DEF Commit, Refuse, EndWrite, Goto
<1>3. Taken(f) \subseteq InMemory
  BY DEF InMemory
<1>4. Settled' = Settled \cup Taken(f) /\ Arrived' = Arrived
  BY <1>2 DEF Settled, Arrived
<1>5. Taken(f) \subseteq Nat
  BY <1>3 DEF EveryEventInOnePlace, Arrived, TypeOK
<1>6. TypeOK'
  <2>1. rows' \cup pruned' \cup dropped' \cup failed' \cup killed' \subseteq Nat
    BY <1>2, <1>5 DEF TypeOK
  <2>2. AfterDrain(f) \in {"idle", "close_db"}
    BY DEF AfterDrain
  <2> QED
    BY <1>1, <1>2, <2>1, <2>2, EndWriteFacts DEF TypeOK, PC
<1>7. SettledInArrivalOrder'
  BY <1>1, <1>4, EndWriteFacts DEF SettledInArrivalOrder
<1>8. EveryEventInOnePlace'
  <2>1. Taken(f) \cap Settled = {} /\ Taken(f) \cap dropped = {}
    BY <1>3 DEF EveryEventInOnePlace
  <2>2. /\ InMemory = InMemory' \cup Taken(f)
        /\ InMemory' \cap Taken(f) = {}
        /\ \A g \in Flushers : Taken(g)' = {}
    BY <1>1, EndWriteFacts
  <2>3. /\ Arrived' = Settled' \cup dropped' \cup InMemory'
        /\ Settled' \cap dropped' = {} /\ Settled' \cap InMemory' = {}
        /\ dropped' \cap InMemory' = {}
    BY <1>2, <1>4, <2>1, <2>2 DEF EveryEventInOnePlace
  <2>4. /\ rows' \cap pruned' = {} /\ rows' \cap failed' = {}
        /\ rows' \cap killed' = {} /\ pruned' \cap failed' = {}
        /\ pruned' \cap killed' = {} /\ failed' \cap killed' = {}
    BY <1>2, <2>1 DEF EveryEventInOnePlace, Settled
  <2> QED
    BY <2>2, <2>3, <2>4 DEF EveryEventInOnePlace
<1> QED
  BY <1>1, <1>6, <1>7, <1>8, EndWriteFacts

LEMMA PruneStep == ASSUME IInv, PruneOldEvents PROVE IInv'
<1> USE DEF IInv
<1>1. PICK old \in SUBSET rows :
        rows' = rows \ old /\ pruned' = pruned \cup old
  BY DEF PruneOldEvents
<1>2. /\ UNCHANGED <<next, restarts, writeCh, batch, pc, flushMu, closed,
                     ticking, dbOpen>>
      /\ UNCHANGED <<dropped, failed, killed>>
  BY DEF PruneOldEvents, volatile
<1>3. /\ Settled' = Settled /\ Arrived' = Arrived /\ Waiting' = Waiting
      /\ \A f \in Flushers : Taken(f)' = Taken(f)
  BY <1>1, <1>2 DEF Settled, Arrived, Waiting, Taken
<1>4. InMemory' = InMemory
  BY <1>3 DEF InMemory
<1>5. TypeOK' /\ LockInv' /\ CloseInv' /\ OrderInv'
  BY <1>1, <1>2, <1>3 DEF TypeOK, LockInv, CloseInv, Closing, OrderInv
<1>6. SettledInArrivalOrder'
  BY <1>3, <1>4 DEF SettledInArrivalOrder
<1>7. EveryEventInOnePlace'
  BY <1>1, <1>2, <1>3, <1>4 DEF EveryEventInOnePlace
<1> QED
  BY <1>5, <1>6, <1>7

LEMMA RestartStep == ASSUME IInv, Restart PROVE IInv'
<1> USE DEF IInv
<1>1. /\ writeCh' = <<>> /\ batch' = NoBatch /\ pc' = Idle
      /\ flushMu' = NoFlusher /\ restarts' = restarts + 1
      /\ closed' = FALSE /\ ticking' = TRUE /\ dbOpen' = TRUE
      /\ killed' = killed \cup InMemory
      /\ restarts < MaxRestarts
      /\ UNCHANGED <<next, rows, pruned, dropped, failed>>
  BY DEF Restart
<1>2. Waiting' = {} /\ \A f \in Flushers : Taken(f)' = {}
  BY <1>1, ToSetEmpty DEF Waiting, Taken, NoBatch
<1>3. InMemory' = {} /\ Settled' = Settled \cup InMemory /\ Arrived' = Arrived
  BY <1>1, <1>2 DEF InMemory, Settled, Arrived
<1>4. InMemory \subseteq Nat
  BY DEF EveryEventInOnePlace, Arrived, TypeOK
<1>5. TypeOK'
  <2>1. <<>> \in Seq(Nat) /\ Len(<<>>) = 0
    OBVIOUS
  <2>2. /\ batch' \in [Flushers -> Seq(Nat)]
        /\ \A f \in Flushers : Len(batch'[f]) <= FlushSize
        /\ writeCh' \in Seq(Nat) /\ Len(writeCh') <= QueueCap
    BY <1>1, <2>1, StoreAssumption DEF NoBatch
  <2>3. rows' \cup pruned' \cup dropped' \cup failed' \cup killed' \subseteq Nat
    BY <1>1, <1>4 DEF TypeOK
  <2>4. restarts' \in 0 .. MaxRestarts
    BY <1>1, StoreAssumption DEF TypeOK
  <2>5. pc' \in [Flushers -> PC]
    BY <1>1 DEF Idle, PC
  <2>6. flushMu' \in Flushers \cup {NoFlusher}
    BY <1>1
  <2>7. next' \in 1 .. MaxEvents + 1
    BY <1>1 DEF TypeOK
  <2>8. closed' \in BOOLEAN /\ ticking' \in BOOLEAN /\ dbOpen' \in BOOLEAN
    BY <1>1
  <2> QED
    BY <2>2, <2>3, <2>4, <2>5, <2>6, <2>7, <2>8 DEF TypeOK
<1>6. LockInv' /\ CloseInv'
  BY <1>1, StoreAssumption DEF LockInv, CloseInv, Closing, Idle, NoBatch, Flushers
<1>7. OrderInv' /\ SettledInArrivalOrder'
  BY <1>1, <1>2, <1>3 DEF OrderInv, Increasing, SettledInArrivalOrder
<1>8. EveryEventInOnePlace'
  BY <1>1, <1>2, <1>3 DEF EveryEventInOnePlace, Settled
<1> QED
  BY <1>5, <1>6, <1>7, <1>8

LEMMA NextIInv == IInv /\ [Next]_vars => IInv'
<1> SUFFICES ASSUME IInv, [Next]_vars PROVE IInv'
  OBVIOUS
<1>1. CASE UNCHANGED vars
  <2>1. LockInv' /\ CloseInv' /\ TypeOK'
    BY <1>1 DEF IInv, vars, volatile, fates, LockInv, CloseInv, Closing, TypeOK
  <2> QED
    BY <1>1, <2>1, PlacesKept DEF IInv, vars, volatile
<1>2. CASE Next
  BY <1>2, IngestStep, ControlStep, ReceiveStep, WriteStep, PruneStep,
     RestartStep DEF Next, Drain
<1> QED
  BY <1>1, <1>2

(* Every reachable state satisfies the inductive invariant.                *)
THEOREM Invariance == Spec => []IInv
<1> QED
  BY InitIInv, NextIInv, PTL DEF Spec

(* Type correctness: the channel never exceeds its capacity and no batch   *)
(* exceeds the flush size.                                                 *)
THEOREM TypeCorrect == Spec => []TypeOK
<1>1. IInv => TypeOK
  BY DEF IInv
<1> QED
  BY <1>1, Invariance, PTL

(* Conservation: every event that reached Ingest is in exactly one place   *)
(* at any time, so none is written twice and none vanishes unaccounted.    *)
THEOREM Conservation == Spec => []EveryEventInOnePlace
<1>1. IInv => EveryEventInOnePlace
  BY DEF IInv
<1> QED
  BY <1>1, Invariance, PTL

(* First in, first settled, across the flush loop and Close.               *)
THEOREM ArrivalOrder == Spec => []SettledInArrivalOrder
<1>1. IInv => SettledInArrivalOrder
  BY DEF IInv
<1> QED
  BY <1>1, Invariance, PTL

(* The database handle is closed after the timer is stopped and the final  *)
(* drain of the one goroutine that does the closing.                       *)
THEOREM CloseIsLast == Spec => []ClosedAfterFinalDrain
<1>1. IInv => ClosedAfterFinalDrain
  BY DEF IInv, CloseInv, Closing, ClosedAfterFinalDrain
<1> QED
  BY <1>1, Invariance, PTL
=============================================================================
