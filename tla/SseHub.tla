------------------------------- MODULE SseHub -------------------------------
(***************************************************************************)
(* The hub of server-sent events, go/internal/ws/sse.go: a map from an id  *)
(* to the client of a connection, written under the hub's mutex, and       *)
(* broadcasts that send to every client of the map under its read lock     *)
(* without waiting for any.                                                *)
(*                                                                         *)
(* The id of a connection is the number of clients, read before the mutex  *)
(* is taken: two connections may have the same.                            *)
(***************************************************************************)
EXTENDS Naturals, Sequences, SequencesExt, FiniteSets

CONSTANTS
  Streams,     \* the connections
  Events,      \* the broadcasts
  StreamBuffer \* what a client's channel holds

ASSUME SseAssumption == IsFiniteSet(Streams) /\ StreamBuffer \in Nat

VARIABLES
  hub,       \* the map: id |-> connection
  stream,    \* where ServeHTTP of each connection is
  id,        \* the id each connection computed
  channel,   \* what is in each client's channel
  received,  \* what each browser has been sent
  sending,   \* the clients each broadcast has still to visit
  audience,  \* history: the connections served when each broadcast began
  overflowed \* history: what each connection missed with its channel full

sseVars ==
  <<hub, stream, id, channel, received, sending, audience, overflowed>>

SseInit ==
  /\ hub = [n \in {} |-> 0]
  /\ stream = [c \in Streams |-> "new"]
  /\ id = [c \in Streams |-> 0]
  /\ channel = [c \in Streams |-> <<>>]
  /\ received = [c \in Streams |-> {}]
  /\ sending = [m \in Events |-> {}]
  /\ audience = [m \in {} |-> {}]
  /\ overflowed = [c \in Streams |-> {}]

(* A broadcast holds the read lock from its first client to its last.      *)
Begun == DOMAIN audience
Unlocked == \A m \in Begun : sending[m] = {}

StepTo(c, from, to) == stream[c] = from /\ stream' = [stream EXCEPT ![c] = to]

-----------------------------------------------------------------------------
(* ServeHTTP                                                               *)

Name(c) ==
  /\ StepTo(c, "new", "named")
  /\ id' = [id EXCEPT ![c] = Cardinality(DOMAIN hub)]
  /\ UNCHANGED <<hub, channel, received, sending, audience, overflowed>>

Register(c) ==
  /\ Unlocked
  /\ StepTo(c, "named", "served")
  /\ hub' = [n \in DOMAIN hub \cup {id[c]} |-> IF n = id[c] THEN c ELSE hub[n]]
  /\ UNCHANGED <<id, channel, received, sending, audience, overflowed>>

Flush(c) ==
  /\ stream[c] = "served"
  /\ channel[c] # <<>>
  /\ received' = [received EXCEPT ![c] = @ \cup {Head(channel[c])}]
  /\ channel' = [channel EXCEPT ![c] = Tail(@)]
  /\ UNCHANGED <<hub, stream, id, sending, audience, overflowed>>

UnregisterUnlocked(c) ==
  /\ StepTo(c, "served", "removed")
  /\ hub' = [n \in DOMAIN hub \ {id[c]} |-> hub[n]]
  /\ UNCHANGED <<id, channel, received, sending, audience, overflowed>>

(* The browser is gone: whoever is under this id leaves the map.           *)
Unregister(c) ==
  /\ Unlocked
  /\ StepTo(c, "served", "removed")
  /\ hub' = [n \in DOMAIN hub \ {id[c]} |-> hub[n]]
  /\ UNCHANGED <<id, channel, received, sending, audience, overflowed>>

CloseChannel(c) ==
  /\ StepTo(c, "removed", "closed")
  /\ UNCHANGED <<hub, id, channel, received, sending, audience, overflowed>>

-----------------------------------------------------------------------------
(* Broadcast                                                               *)

Begin(m) ==
  /\ m \notin Begun
  /\ sending' = [sending EXCEPT ![m] = {hub[n] : n \in DOMAIN hub}]
  /\ audience' = [e \in Begun \cup {m} |->
       IF e = m THEN {c \in Streams : stream[c] = "served"} ELSE audience[e]]
  /\ UNCHANGED <<hub, stream, id, channel, received, overflowed>>

Send(m, c) ==
  /\ c \in sending[m]
  /\ sending' = [sending EXCEPT ![m] = @ \ {c}]
  /\ \/ /\ Len(channel[c]) < StreamBuffer
        /\ channel' = [channel EXCEPT ![c] = Append(@, m)]
        /\ UNCHANGED overflowed
     \/ /\ Len(channel[c]) >= StreamBuffer
        /\ overflowed' = [overflowed EXCEPT ![c] = @ \cup {m}]
        /\ UNCHANGED channel
  /\ UNCHANGED <<hub, stream, id, received, audience>>

SseNext ==
  \/ \E c \in Streams :
       Name(c) \/ Register(c) \/ Flush(c) \/ Unregister(c) \/ CloseChannel(c)
  \/ \E m \in Events : Begin(m) \/ \E c \in Streams : Send(m, c)

SseSpec == SseInit /\ [][SseNext]_sseVars

-----------------------------------------------------------------------------
Registered(c) == \E n \in DOMAIN hub : hub[n] = c

SseTypeOK ==
  /\ \A n \in DOMAIN hub : hub[n] \in Streams /\ id[hub[n]] = n
  /\ stream \in [Streams -> {"new", "named", "served", "removed", "closed"}]
  /\ id \in [Streams -> 0 .. Cardinality(Streams)]
  /\ \A c \in Streams :
       /\ ToSet(channel[c]) \cup received[c] \cup overflowed[c] \subseteq Begun
       /\ Len(channel[c]) <= StreamBuffer
  /\ Begun \subseteq Events
  /\ \A m \in Events : sending[m] \subseteq Streams

(* Another connection took c's id, which put it out of the map, or left    *)
(* the map under it.                                                       *)
Displaced(c) ==
  \E d \in Streams \ {c} :
    id[d] = id[c] /\ stream[d] \in {"served", "removed", "closed"}

(* No broadcast sends on a closed channel, which would panic; and a        *)
(* connection that is served when a broadcast begins gets it, unless its   *)
(* own channel was full or another connection has come by the same id,     *)
(* which is also the only way a served connection is not in the map.       *)
SseMissesAreExplained ==
  /\ \A m \in Events, c \in Streams : c \in sending[m] => stream[c] # "closed"
  /\ \A c \in Streams :
       stream[c] = "served" /\ ~Registered(c) => Displaced(c)
  /\ \A m \in Begun :
       sending[m] = {} =>
         \A c \in audience[m] :
           \/ m \in ToSet(channel[c]) \cup received[c] \cup overflowed[c]
           \/ Displaced(c)
=============================================================================
