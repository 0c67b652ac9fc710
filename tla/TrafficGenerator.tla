-------------------------- MODULE TrafficGenerator --------------------------
(***************************************************************************)
(* The Go API's traffic generator (go/internal/api/traffic.go) and the     *)
(* handlers that start and stop it (management.go).  Nothing guards its    *)
(* fields: two requests may interleave between a test and a write.         *)
(*                                                                         *)
(* A start is a number: it names the ticker made and the loop started.     *)
(***************************************************************************)
EXTENDS Naturals

CONSTANTS
  Admins,   \* the requests that may be handled at a time
  MaxStarts \* bound: times the generator is started

VARIABLES
  running,    \* the flag Start and Stop test
  stopClosed, \* stopCh is closed; nothing makes a new one
  starts,     \* starts so far; tg.ticker is the ticker of the last
  tickers,    \* the tickers that tick
  waitsOn,    \* for each live loop, the ticker its select waits on
  pc,         \* where each request is
  promised    \* history: a start has been answered, and since then neither
              \* has a batch been sent nor a stop been asked for

vars == <<running, stopClosed, starts, tickers, waitsOn, pc, promised>>

Loops == DOMAIN waitsOn

(* NewRouter starts the generator at boot.                                 *)
Init ==
  /\ running = TRUE
  /\ stopClosed = FALSE
  /\ starts = 1
  /\ tickers = {1}
  /\ waitsOn = [l \in {1} |-> 1]
  /\ pc = [a \in Admins |-> "idle"]
  /\ promised = TRUE

Goto(a, from, to) == pc[a] = from /\ pc' = [pc EXCEPT ![a] = to]

-----------------------------------------------------------------------------
(* startTraffic and Start: answered "started" either way.                  *)

AlreadyRunning(a) ==
  /\ running
  /\ Goto(a, "idle", "idle")
  /\ UNCHANGED <<running, stopClosed, starts, tickers, waitsOn, promised>>

FindIdle(a) ==
  /\ ~running
  /\ Goto(a, "idle", "start")
  /\ UNCHANGED <<running, stopClosed, starts, tickers, waitsOn, promised>>

(* The ticker that was there is forgotten, not stopped.                    *)
Start(a) ==
  /\ starts < MaxStarts
  /\ Goto(a, "start", "idle")
  /\ running' = TRUE
  /\ starts' = starts + 1
  /\ tickers' = tickers \cup {starts'}
  /\ waitsOn' = [l \in Loops \cup {starts'} |->
                   IF l = starts' THEN starts' ELSE waitsOn[l]]
  /\ promised' = TRUE
  /\ UNCHANGED stopClosed

-----------------------------------------------------------------------------
(* stopTraffic and Stop                                                    *)

NotRunning(a) ==
  /\ ~running
  /\ Goto(a, "idle", "idle")
  /\ UNCHANGED <<running, stopClosed, starts, tickers, waitsOn, promised>>

FindRunning(a) ==
  /\ running
  /\ Goto(a, "idle", "close")
  /\ promised' = FALSE
  /\ UNCHANGED <<running, stopClosed, starts, tickers, waitsOn>>

CloseChannel(a) ==
  /\ ~stopClosed
  /\ Goto(a, "close", "clear")
  /\ stopClosed' = TRUE
  /\ UNCHANGED <<running, starts, tickers, waitsOn, promised>>

(* Closing a closed channel panics.  The router's Recoverer answers 500;   *)
(* the flag stays as it is.                                                *)
Panic(a) ==
  /\ stopClosed
  /\ Goto(a, "close", "idle")
  /\ UNCHANGED <<running, stopClosed, starts, tickers, waitsOn, promised>>

ClearRunning(a) ==
  /\ Goto(a, "clear", "idle")
  /\ running' = FALSE
  /\ UNCHANGED <<stopClosed, starts, tickers, waitsOn, promised>>

-----------------------------------------------------------------------------
(* The loop.  select takes any case that is ready; a loop that comes round *)
(* again waits on whatever tg.ticker is by then.                           *)

SendBatch(l) ==
  /\ l \in Loops
  /\ waitsOn[l] \in tickers
  /\ waitsOn' = [waitsOn EXCEPT ![l] = starts]
  /\ promised' = FALSE
  /\ UNCHANGED <<running, stopClosed, starts, tickers, pc>>

(* It stops the generator's present ticker, not the one it began with.     *)
Exit(l) ==
  /\ l \in Loops
  /\ stopClosed
  /\ tickers' = tickers \ {starts}
  /\ waitsOn' = [k \in Loops \ {l} |-> waitsOn[k]]
  /\ UNCHANGED <<running, stopClosed, starts, pc, promised>>

StartRequest(a) == AlreadyRunning(a) \/ FindIdle(a) \/ Start(a)

StopRequest(a) ==
  \/ NotRunning(a) \/ FindRunning(a) \/ CloseChannel(a) \/ Panic(a)
  \/ ClearRunning(a)

Next ==
  \/ \E a \in Admins : StartRequest(a) \/ StopRequest(a)
  \/ \E l \in 1 .. MaxStarts : SendBatch(l) \/ Exit(l)

(* A handler that has begun goes on, tickers tick, and select, choosing at *)
(* random, does not avoid the stop channel for ever.                       *)
Fairness ==
  /\ \A a \in Admins :
       WF_vars(Start(a) \/ CloseChannel(a) \/ Panic(a) \/ ClearRunning(a))
  /\ \A l \in 1 .. MaxStarts : WF_vars(SendBatch(l)) /\ SF_vars(Exit(l))

Spec == Init /\ [][Next]_vars

FairSpec == Spec /\ Fairness

-----------------------------------------------------------------------------
(* traffic.go: Start begins sending real traffic through the WAF proxy.    *)
StartBeginsTraffic == promised ~> ~promised
=============================================================================
