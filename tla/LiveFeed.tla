------------------------------- MODULE LiveFeed -------------------------------
(***************************************************************************)
(* The live feed of the Go API: the WebSocket hub                          *)
(* (go/internal/api/websocket.go) and those who report incidents through   *)
(* it, the handlers createIncident and simulateAttack and the correlation  *)
(* loop with its callback.                                                 *)
(*                                                                         *)
(* BroadcastIncident copies the set of clients under the hub's mutex and   *)
(* writes to them outside it.  A connection allows one writer at a time;   *)
(* what two writers do to each other is described at StartWrite.           *)
(***************************************************************************)
EXTENDS Naturals, FiniteSets

CONSTANTS
  Conns,          \* connections whose upgrade to WebSocket has succeeded
  Handlers,       \* goroutines of createIncident and simulateAttack
  Loop,           \* the goroutine of the correlation loop
  NoConn,         \* what a reporter writes to when it writes to nothing
  Nobody,         \* the holder of a free mutex
  InsertsMayFail  \* whether the database may refuse an incident

Reporters == Handlers \cup {Loop}

ASSUME FeedAssumption ==
  /\ Loop \notin Handlers
  /\ NoConn \notin Conns
  /\ Nobody \notin Reporters
  /\ InsertsMayFail \in BOOLEAN

VARIABLES
  alive,     \* the process has not been killed by a panic
  clients,   \* hub.clients
  mu,        \* the reporter that holds hub.mu, or Nobody
  conn,      \* where the handler of each connection is
  peer,      \* what the browser at its other end does
  pc,        \* where each reporter is
  stored,    \* the handlers whose incident is in the table
  snapshot,  \* the clients each reporter has copied
  todo,      \* those of them it has still to write to
  writing,   \* the connection it is inside WriteMessage of, or NoConn
  broken,    \* the clients whose write failed
  reached,   \* the clients for which WriteMessage returned no error
  clashed    \* the reporters that have met another writer where they write

connVars == <<conn, peer>>
hubVars == <<alive, clients, mu, connVars>>
toldVars == <<stored, snapshot, todo, writing, broken, reached, clashed>>
reportVars == <<pc, toldVars>>
vars == <<hubVars, reportVars>>

NoSets == [b \in Reporters |-> {}]
Upgraded == [c \in Conns |-> "upgraded"]
AllReading == [c \in Conns |-> "reading"]
AllIdle == [b \in Reporters |-> "idle"]
NobodyWrites == [b \in Reporters |-> NoConn]

Init ==
  /\ alive = TRUE
  /\ clients = {} /\ mu = Nobody
  /\ conn = Upgraded /\ peer = AllReading
  /\ pc = AllIdle /\ stored = {}
  /\ snapshot = NoSets /\ todo = NoSets /\ writing = NobodyWrites
  /\ broken = NoSets /\ reached = NoSets /\ clashed = {}

-----------------------------------------------------------------------------
(* hub.mu.  Only Copy holds it for more than a step: the other critical    *)
(* sections do nothing but change the map.                                 *)
FreeBetweenBroadcasts == mu = Nobody /\ \A b \in Reporters : pc[b] # "write"

Free == mu = Nobody

(* handleWebSocket                                                         *)

Serve(c, from, to) ==
  /\ alive
  /\ conn[c] = from
  /\ conn' = [conn EXCEPT ![c] = to]

Register(c) ==
  /\ Serve(c, "upgraded", "serving")
  /\ Free
  /\ clients' = clients \cup {c}
  /\ UNCHANGED <<alive, mu, peer, reportVars>>

(* The read loop ends when the peer has gone.                              *)
ReadFails(c) ==
  /\ Serve(c, "serving", "leaving")
  /\ peer[c] = "gone"
  /\ UNCHANGED <<alive, clients, mu, peer, reportVars>>

(* A connection being closed fails a write before and after conn.Close     *)
(* alike, so that the deferred function is one step.                       *)
Unregister(c) ==
  /\ Serve(c, "leaving", "closed")
  /\ Free
  /\ clients' = clients \ {c}
  /\ UNCHANGED <<alive, mu, peer, reportVars>>

(* A browser stops reading (its buffers fill up), goes on, or disconnects. *)
PeerActs(c, from, to) ==
  /\ alive
  /\ peer[c] \in from
  /\ peer' = [peer EXCEPT ![c] = to]
  /\ UNCHANGED <<alive, clients, mu, conn, reportVars>>

Peer(c) ==
  \/ PeerActs(c, {"reading"}, "stalled")
  \/ PeerActs(c, {"stalled"}, "reading")
  \/ PeerActs(c, {"reading", "stalled"}, "gone")

-----------------------------------------------------------------------------
(* Reporting an incident: insert it, then broadcast it.                    *)

(* What a reporter knew of its incident ends with the report.              *)
Forget(b) ==
  /\ stored' = stored \ {b}
  /\ snapshot' = [snapshot EXCEPT ![b] = {}]
  /\ todo' = [todo EXCEPT ![b] = {}]
  /\ writing' = [writing EXCEPT ![b] = NoConn]
  /\ broken' = [broken EXCEPT ![b] = {}]
  /\ reached' = [reached EXCEPT ![b] = {}]
  /\ clashed' = clashed \ {b}

Goto(b, from, to) ==
  /\ alive
  /\ pc[b] = from
  /\ pc' = [pc EXCEPT ![b] = to]

(* A request to create or to simulate an incident; a rule that matched.    *)
Begin(b) ==
  /\ Goto(b, "idle", "insert")
  /\ UNCHANGED <<hubVars, toldVars>>

Insert(b) ==
  /\ Goto(b, "insert", "copy")
  /\ stored' = stored \cup ({b} \cap Handlers)
  /\ UNCHANGED <<hubVars, snapshot, todo, writing, broken, reached, clashed>>

(* A handler answers 500; the loop ignores the error and tells of an       *)
(* incident that is in no table.                                           *)
AfterFailure(b) == IF b \in Handlers THEN "idle" ELSE "copy"

InsertFails(b) ==
  /\ InsertsMayFail
  /\ Goto(b, "insert", AfterFailure(b))
  /\ UNCHANGED <<hubVars, toldVars>>

Copy(b) ==
  /\ Goto(b, "copy", "copied")
  /\ Free /\ mu' = b
  /\ snapshot' = [snapshot EXCEPT ![b] = clients]
  /\ todo' = [todo EXCEPT ![b] = clients]
  /\ UNCHANGED <<alive, clients, connVars, stored, writing, broken, reached, clashed>>

Unlock(b) ==
  /\ Goto(b, "copied", "write")
  /\ mu' = Nobody
  /\ UNCHANGED <<alive, clients, connVars, toldVars>>

-----------------------------------------------------------------------------
(* conn.WriteMessage.                                                      *)

WritersAt(c) == {a \in Reporters : writing[a] = c}

StartWriteToLiveMap(b, c) ==
  /\ alive
  /\ pc[b] = "write" /\ writing[b] = NoConn
  /\ c \in clients \ (reached[b] \cup broken[b])
  /\ writing' = [writing EXCEPT ![b] = c]
  /\ clashed' = IF WritersAt(c) = {} THEN clashed
                ELSE clashed \cup WritersAt(c) \cup {b}
  /\ UNCHANGED <<hubVars, pc, stored, snapshot, todo, broken, reached>>

(* The clients are taken in any order.  A writer that finds another one    *)
(* inside the connection panics (Clash) or, when the unguarded flag        *)
(* isWriting has not reached it, goes on over the same buffer.             *)
StartWrite(b, c) ==
  /\ alive
  /\ pc[b] = "write" /\ writing[b] = NoConn
  /\ c \in todo[b]
  /\ writing' = [writing EXCEPT ![b] = c]
  /\ clashed' = IF WritersAt(c) = {} THEN clashed
                ELSE clashed \cup WritersAt(c) \cup {b}
  /\ UNCHANGED <<hubVars, pc, stored, snapshot, todo, broken, reached>>

LeaveUnticked(b, c) ==
  /\ alive
  /\ writing[b] = c
  /\ writing' = [writing EXCEPT ![b] = NoConn]
  /\ clashed' = clashed \ {b}
  /\ todo' = todo

Leave(b, c) ==
  /\ alive
  /\ writing[b] = c
  /\ writing' = [writing EXCEPT ![b] = NoConn]
  /\ clashed' = clashed \ {b}
  /\ todo' = [todo EXCEPT ![b] = @ \ {c}]

(* The peer's buffers take the frame; a peer that does not read keeps the  *)
(* writer waiting, since no deadline is set.  (After a meeting it may be   *)
(* the other writer's text, or a mixture of both.)                         *)
Written(b, c) ==
  /\ Leave(b, c)
  /\ peer[c] # "stalled"
  /\ reached' = [reached EXCEPT ![b] = @ \cup {c}]
  /\ UNCHANGED <<hubVars, pc, stored, snapshot, broken>>

WriteErrorEndsLoop(b, c) ==
  /\ alive /\ writing[b] = c
  /\ peer[c] = "gone"
  /\ writing' = [writing EXCEPT ![b] = NoConn]
  /\ clashed' = clashed \ {b}
  /\ todo' = [todo EXCEPT ![b] = {}]
  /\ broken' = [broken EXCEPT ![b] = @ \cup {c}]
  /\ UNCHANGED <<alive, clients, mu, conn, peer, pc, stored, snapshot, reached>>

(* The broadcast closes the connection as well, which has gone already.    *)
WriteError(b, c) ==
  /\ Leave(b, c)
  /\ peer[c] = "gone"
  /\ broken' = [broken EXCEPT ![b] = @ \cup {c}]
  /\ UNCHANGED <<alive, clients, mu, conn, peer, pc, stored, snapshot, reached>>

(* "concurrent write to websocket connection", found on the way in or on   *)
(* the way out.  In a handler chi's Recoverer answers 500 and the          *)
(* broadcast ends there; in the loop nothing recovers.                     *)
Clash(b) ==
  \/ pc[b] = "write" /\ writing[b] = NoConn /\ \E c \in todo[b] : WritersAt(c) # {}
  \/ b \in clashed

PanicInHandler(b) ==
  /\ b \in Handlers
  /\ Clash(b)
  /\ Goto(b, "write", "idle")
  /\ Forget(b)
  /\ UNCHANGED hubVars

PanicInLoop ==
  /\ Clash(Loop)
  /\ alive /\ alive' = FALSE
  /\ clients' = {} /\ mu' = Nobody
  /\ conn' = Upgraded /\ peer' = AllReading
  /\ pc' = AllIdle /\ stored' = {}
  /\ snapshot' = NoSets /\ todo' = NoSets /\ writing' = NobodyWrites
  /\ broken' = NoSets /\ reached' = NoSets /\ clashed' = {}

WritesDone(b) ==
  /\ todo[b] = {}
  /\ Goto(b, "write", IF broken[b] = {} THEN "told" ELSE "remove")
  /\ UNCHANGED <<hubVars, toldVars>>

RemoveByRebuilding(b) ==
  /\ Goto(b, "remove", "told")
  /\ Free
  /\ clients' = snapshot[b] \ broken[b]
  /\ UNCHANGED <<alive, mu, connVars, toldVars>>

Remove(b) ==
  /\ Goto(b, "remove", "told")
  /\ Free
  /\ clients' = clients \ broken[b]
  /\ UNCHANGED <<alive, mu, connVars, toldVars>>

(* The handler answers 201 or 200; the loop goes on with its next rule.    *)
Return(b) ==
  /\ Goto(b, "told", "idle")
  /\ Forget(b)
  /\ UNCHANGED hubVars

-----------------------------------------------------------------------------
(* The process is started again after a panic.                             *)
Restart ==
  /\ ~alive /\ alive' = TRUE
  /\ UNCHANGED <<clients, mu, connVars, reportVars>>

Attend(c) == Register(c) \/ ReadFails(c) \/ Unregister(c)

Report(b) ==
  \/ Insert(b) \/ InsertFails(b) \/ Copy(b) \/ Unlock(b)
  \/ \E c \in Conns : StartWrite(b, c) \/ Written(b, c) \/ WriteError(b, c)
  \/ PanicInHandler(b) \/ WritesDone(b) \/ Remove(b) \/ Return(b)

Next ==
  \/ \E c \in Conns : Attend(c) \/ Peer(c)
  \/ \E b \in Reporters : Begin(b) \/ Report(b)
  \/ PanicInLoop
  \/ Restart

Spec == Init /\ [][Next]_vars

(* A goroutine that can run again and again does run: sync.Mutex hands     *)
(* itself to a waiter that has waited long, and a socket that has room     *)
(* wakes its writer.  Nothing is assumed of browsers.                      *)
Fairness ==
  /\ \A c \in Conns : SF_vars(Attend(c))
  /\ \A b \in Reporters : SF_vars(Report(b))

FairSpec == Spec /\ Fairness

-----------------------------------------------------------------------------
ConnPC == {"upgraded", "serving", "leaving", "closed"}
ReportPC == {"idle", "insert", "copy", "copied", "write", "remove", "told"}
SetsOfConns == [Reporters -> SUBSET Conns]

(* Every variable has its type, and a broadcast works on its own copy of   *)
(* the map: whom it writes to, has reached or is about to remove is there. *)
TypeOK ==
  /\ alive \in BOOLEAN
  /\ clients \subseteq Conns
  /\ mu \in Reporters \cup {Nobody}
  /\ conn \in [Conns -> ConnPC]
  /\ peer \in [Conns -> {"reading", "stalled", "gone"}]
  /\ pc \in [Reporters -> ReportPC]
  /\ stored \subseteq Handlers
  /\ writing \in [Reporters -> Conns \cup {NoConn}]
  /\ {snapshot, todo, broken, reached} \subseteq SetsOfConns
  /\ \A b \in Reporters :
       /\ todo[b] \cup broken[b] \cup reached[b] \subseteq snapshot[b]
       /\ writing[b] # NoConn => writing[b] \in todo[b]
  /\ clashed \subseteq Reporters

(* A connection is in the hub's map while its handler serves it, unless a  *)
(* failed write has closed it; and no connection stays there, or comes     *)
(* back, when its handler is done.  A broadcast that works on an old copy  *)
(* of the map must neither drop who has joined nor restore who has left.   *)
HubMatchesConnections ==
  \A c \in Conns :
    /\ conn[c] = "serving" /\ peer[c] # "gone" => c \in clients
    /\ c \in clients => conn[c] \in {"serving", "leaving"}

(* A broadcast that has ended has written to everyone who was connected    *)
(* when it began, except to who has gone since.  One client's failure      *)
(* costs no other client the message.                                      *)
ToldOrGone ==
  \A b \in Reporters : pc[b] \in {"remove", "told"} =>
    \A c \in snapshot[b] : c \in reached[b] \/ peer[c] = "gone"

(* A handler tells the dashboards only of an incident that is in the       *)
(* table: they will find it when they reload.  (The loop does not check.)  *)
HandlersTellWhatIsStored ==
  \A h \in Handlers : pc[h] \in {"copied", "write", "remove", "told"} => h \in stored

(* Whatever browsers do, a connection is entered in the hub and taken out  *)
(* of it: a broadcast that waits for a browser holds no lock.              *)
JoinsAndLeavesGoOn ==
  \A c \in Conns :
    conn[c] \in {"upgraded", "leaving"} ~> conn[c] \notin {"upgraded", "leaving"} \/ ~alive

(* A report ends, unless one browser that has stopped reading for good     *)
(* keeps it in WriteMessage for good.                                      *)
OnlyAStalledBrowserHoldsUp ==
  \A b \in Reporters :
    \/ []<>(pc[b] = "idle" \/ ~alive)
    \/ \E c \in Conns : <>[](writing[b] = c /\ peer[c] = "stalled")
=============================================================================
