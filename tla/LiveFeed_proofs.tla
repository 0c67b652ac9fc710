--------------------------- MODULE LiveFeed_proofs ---------------------------
(***************************************************************************)
(* The safety properties of LiveFeed for any number of connections and     *)
(* handlers.  They become inductive with four facts about a broadcast:     *)
(* whose writes fail, what is left of its copy, that it has written to     *)
(* nobody before it copies, and that a handler inserts before it copies.   *)
(***************************************************************************)
EXTENDS LiveFeed, TLAPS

BrokenAreGone ==
  \A b \in Reporters : \A c \in broken[b] : peer[c] = "gone"

Telling == {"copied", "write", "remove", "told"}

(* Who is in the copy is yet to be written to, or has been.                *)
CopyIsCovered ==
  \A b \in Reporters :
    /\ pc[b] \in Telling =>
         \A c \in snapshot[b] : c \in todo[b] \/ c \in reached[b] \/ peer[c] = "gone"
    /\ pc[b] \in {"remove", "told"} => todo[b] = {}

(* Before it has copied the map a broadcast has written to nobody.         *)
FreshUntilCopied ==
  \A b \in Reporters : pc[b] \notin Telling =>
    todo[b] = {} /\ broken[b] = {} /\ reached[b] = {} /\ writing[b] = NoConn

StoredFirst == \A h \in Handlers : pc[h] \in Telling \cup {"copy"} => h \in stored

IInv ==
  /\ TypeOK
  /\ HubMatchesConnections
  /\ BrokenAreGone
  /\ CopyIsCovered
  /\ FreshUntilCopied
  /\ StoredFirst

LEMMA InitIInv == Init => IInv
<1> SUFFICES ASSUME Init PROVE IInv
  OBVIOUS
<1> USE DEF Init, Upgraded, AllReading, AllIdle, NobodyWrites, NoSets
<1>1. TypeOK
  BY FeedAssumption DEF TypeOK, ConnPC, ReportPC, SetsOfConns
<1>2. HubMatchesConnections
  BY DEF HubMatchesConnections
<1>3. BrokenAreGone /\ CopyIsCovered /\ FreshUntilCopied /\ StoredFirst
  BY DEF BrokenAreGone, CopyIsCovered, FreshUntilCopied, StoredFirst, Telling, Reporters
<1> QED
  BY <1>1, <1>2, <1>3 DEF IInv

(* A browser that has gone stays away; the handler of a connection changes *)
(* nothing that a broadcast under way looks at.                            *)
LEMMA ServeStep ==
  ASSUME IInv, NEW c \in Conns, Attend(c) \/ Peer(c)
  PROVE  IInv'
<1> USE DEF IInv, Attend, Register, ReadFails, Unregister, Serve, Free, Peer, PeerActs
<1>1. TypeOK'
  BY DEF TypeOK, ConnPC, ReportPC, SetsOfConns, reportVars, toldVars
<1>2. HubMatchesConnections'
  BY DEF TypeOK, ConnPC, HubMatchesConnections
<1>3. \A d \in Conns : peer[d] = "gone" => peer'[d] = "gone"
  BY DEF TypeOK
<1>4. UNCHANGED reportVars
  OBVIOUS
<1>5. \A b \in Reporters : broken[b] \subseteq Conns /\ snapshot[b] \subseteq Conns
  BY DEF TypeOK, SetsOfConns
<1>6. BrokenAreGone'
  BY <1>3, <1>4, <1>5 DEF BrokenAreGone, reportVars, toldVars
<1>7. CopyIsCovered' /\ FreshUntilCopied' /\ StoredFirst'
  BY <1>3, <1>4, <1>5
  DEF CopyIsCovered, FreshUntilCopied, StoredFirst, reportVars, toldVars
<1> QED
  BY <1>1, <1>2, <1>6, <1>7 DEF IInv

LEMMA InsertStep ==
  ASSUME IInv, NEW b \in Reporters, Begin(b) \/ Insert(b) \/ InsertFails(b)
  PROVE  IInv'
<1> USE DEF IInv, Begin, Insert, InsertFails, AfterFailure, Goto, connVars, hubVars,
            toldVars
<1>1. TypeOK'
  BY DEF TypeOK, ReportPC, SetsOfConns
<1>2. HubMatchesConnections'
  BY DEF HubMatchesConnections
<1>3. BrokenAreGone'
  BY DEF BrokenAreGone
<1>4. CopyIsCovered'
  BY DEF TypeOK, CopyIsCovered, Telling
<1>5. StoredFirst'
  BY DEF TypeOK, StoredFirst, Telling, Reporters
<1>6. FreshUntilCopied'
  BY DEF TypeOK, FreshUntilCopied, Telling
<1> QED
  BY <1>1, <1>2, <1>3, <1>4, <1>5, <1>6 DEF IInv

LEMMA CopyStep ==
  ASSUME IInv, NEW b \in Reporters, Copy(b) \/ Unlock(b)
  PROVE  IInv'
<1> USE DEF IInv, Copy, Unlock, Goto, Free, connVars, hubVars, toldVars
<1>1. TypeOK'
  BY DEF TypeOK, ReportPC, SetsOfConns, FreshUntilCopied, Telling
<1>2. HubMatchesConnections'
  BY DEF HubMatchesConnections
<1>3. BrokenAreGone'
  BY DEF BrokenAreGone
<1>4. CopyIsCovered'
  BY DEF TypeOK, SetsOfConns, CopyIsCovered, Telling
<1>5. StoredFirst'
  BY DEF TypeOK, StoredFirst, Telling, Reporters
<1>6. FreshUntilCopied'
  BY DEF TypeOK, SetsOfConns, FreshUntilCopied, Telling
<1> QED
  BY <1>1, <1>2, <1>3, <1>4, <1>5, <1>6 DEF IInv

(* A client is crossed off only when it is reached or found to have gone.  *)
LEMMA WriteStep ==
  ASSUME IInv, NEW b \in Reporters, NEW c \in Conns,
         StartWrite(b, c) \/ Written(b, c) \/ WriteError(b, c)
  PROVE  IInv'
<1> USE DEF IInv, StartWrite, Written, WriteError, Leave, connVars, hubVars, toldVars
<1>0. c # NoConn
  BY FeedAssumption
<1>1. UNCHANGED <<alive, clients, mu, conn, peer, pc, stored, snapshot>>
  OBVIOUS
<1>2. pc[b] \in Telling
  BY <1>0 DEF FreshUntilCopied, Telling
<1>3. /\ writing' \in [Reporters -> Conns \cup {NoConn}]
      /\ {todo', broken', reached'} \subseteq SetsOfConns
      /\ clashed' \subseteq Reporters
  BY DEF TypeOK, SetsOfConns, WritersAt
<1>4. \A a \in Reporters \ {b} :
        /\ todo'[a] = todo[a] /\ broken'[a] = broken[a]
        /\ reached'[a] = reached[a] /\ writing'[a] = writing[a]
  BY DEF TypeOK, SetsOfConns
<1>5. c \in todo[b]
  BY <1>0 DEF TypeOK
<1>6. /\ todo'[b] \cup broken'[b] \cup reached'[b] \subseteq snapshot[b]
      /\ writing'[b] # NoConn => writing'[b] \in todo'[b]
  <2>1. CASE StartWrite(b, c)
    BY <1>5, <2>1 DEF TypeOK
  <2>2. CASE Written(b, c) \/ WriteError(b, c)
    BY <1>5, <2>2 DEF TypeOK, SetsOfConns
  <2> QED
    BY <2>1, <2>2
<1>7. TypeOK'
  BY <1>1, <1>3, <1>4, <1>6 DEF TypeOK
<1>8. HubMatchesConnections'
  BY DEF HubMatchesConnections
<1>9. BrokenAreGone'
  BY DEF TypeOK, SetsOfConns, BrokenAreGone
<1>10. CopyIsCovered'
  BY DEF TypeOK, SetsOfConns, CopyIsCovered
<1>11. StoredFirst'
  BY DEF StoredFirst
<1>12. FreshUntilCopied'
  BY <1>1, <1>2, <1>4 DEF FreshUntilCopied
<1> QED
  BY <1>7, <1>8, <1>9, <1>10, <1>11, <1>12 DEF IInv

LEMMA EndStep ==
  ASSUME IInv, NEW b \in Reporters,
         WritesDone(b) \/ Remove(b) \/ Return(b) \/ PanicInHandler(b)
  PROVE  IInv'
<1> USE DEF IInv, WritesDone, Remove, Return, PanicInHandler, Goto, Forget, Free,
            connVars, hubVars, toldVars
<1>1. TypeOK'
  BY DEF TypeOK, ReportPC, SetsOfConns
<1>2. HubMatchesConnections'
  BY DEF HubMatchesConnections, BrokenAreGone
<1>3. BrokenAreGone'
  BY DEF TypeOK, SetsOfConns, BrokenAreGone
<1>4. CopyIsCovered'
  BY DEF TypeOK, SetsOfConns, CopyIsCovered, Telling
<1>5. StoredFirst'
  BY DEF TypeOK, StoredFirst, Telling, Reporters
<1>6. FreshUntilCopied'
  BY DEF TypeOK, SetsOfConns, FreshUntilCopied, Telling
<1> QED
  BY <1>1, <1>2, <1>3, <1>4, <1>5, <1>6 DEF IInv

LEMMA PanicInLoopStep ==
  ASSUME IInv, PanicInLoop
  PROVE  IInv'
<1> USE DEF PanicInLoop, Upgraded, AllReading, AllIdle, NobodyWrites, NoSets
<1>1. TypeOK'
  BY DEF TypeOK, ConnPC, ReportPC, SetsOfConns
<1>2. HubMatchesConnections'
  BY DEF HubMatchesConnections
<1>3. BrokenAreGone' /\ CopyIsCovered' /\ FreshUntilCopied' /\ StoredFirst'
  BY DEF BrokenAreGone, CopyIsCovered, FreshUntilCopied, StoredFirst, Telling, Reporters
<1> QED
  BY <1>1, <1>2, <1>3 DEF IInv

LEMMA NextIInv == IInv /\ [Next]_vars => IInv'
<1> SUFFICES ASSUME IInv, [Next]_vars PROVE IInv'
  OBVIOUS
<1>1. ASSUME NEW c \in Conns, Attend(c) \/ Peer(c) PROVE IInv'
  BY <1>1, ServeStep
<1>2. ASSUME NEW b \in Reporters, Begin(b) PROVE IInv'
  BY <1>2, InsertStep
<1>3. ASSUME NEW b \in Reporters, Report(b) PROVE IInv'
  <2>1. CASE Insert(b) \/ InsertFails(b)
    BY <2>1, InsertStep
  <2>2. CASE Copy(b) \/ Unlock(b)
    BY <2>2, CopyStep
  <2>3. ASSUME NEW c \in Conns, StartWrite(b, c) \/ Written(b, c) \/ WriteError(b, c)
        PROVE  IInv'
    BY <2>3, WriteStep
  <2>4. CASE PanicInHandler(b) \/ WritesDone(b) \/ Remove(b) \/ Return(b)
    BY <2>4, EndStep
  <2> QED
    BY <1>3, <2>1, <2>2, <2>3, <2>4 DEF Report
<1>4. CASE PanicInLoop
  BY <1>4, PanicInLoopStep
<1>5. CASE Restart \/ UNCHANGED vars
  <2>1. UNCHANGED <<clients, mu, connVars, reportVars>> /\ alive' \in BOOLEAN
    BY <1>5 DEF IInv, TypeOK, Restart, vars, hubVars
  <2>2. TypeOK'
    BY <2>1 DEF IInv, TypeOK, connVars, reportVars, toldVars
  <2>3. HubMatchesConnections' /\ BrokenAreGone'
    BY <2>1
    DEF IInv, HubMatchesConnections, BrokenAreGone, connVars, reportVars, toldVars
  <2>4. CopyIsCovered' /\ FreshUntilCopied' /\ StoredFirst'
    BY <2>1
    DEF IInv, CopyIsCovered, FreshUntilCopied, StoredFirst, connVars, reportVars,
        toldVars
  <2> QED
    BY <2>2, <2>3, <2>4 DEF IInv
<1> QED
  BY <1>1, <1>2, <1>3, <1>4, <1>5 DEF Next

(* The invariant, from which the properties below follow.                  *)
THEOREM Invariance == Spec => []IInv
<1> QED
  BY InitIInv, NextIInv, PTL DEF Spec

(* Every variable keeps to its type.                                       *)
THEOREM TypeCorrect == Spec => []TypeOK
<1>1. IInv => TypeOK
  BY DEF IInv
<1> QED
  BY <1>1, Invariance, PTL

(* The hub's map holds who is being served, and no one who has left, for   *)
(* any number of broadcasts at work on old copies of it.                   *)
THEOREM HubCorrect == Spec => []HubMatchesConnections
<1>1. IInv => HubMatchesConnections
  BY DEF IInv
<1> QED
  BY <1>1, Invariance, PTL

(* A broadcast that has ended has left out no one who was connected when   *)
(* it began and still is.                                                  *)
THEOREM NoOneLeftOut == Spec => []ToldOrGone
<1>1. IInv => ToldOrGone
  BY DEF IInv, TypeOK, CopyIsCovered, Telling, ToldOrGone
<1> QED
  BY <1>1, Invariance, PTL

(* Handlers tell of nothing that the database has refused.                 *)
THEOREM StoredBeforeTold == Spec => []HandlersTellWhatIsStored
<1>1. IInv => HandlersTellWhatIsStored
  BY DEF IInv, StoredFirst, Telling, HandlersTellWhatIsStored
<1> QED
  BY <1>1, Invariance, PTL
=============================================================================
