---------------------------- MODULE MCEventStore ----------------------------
(* The store with a channel of three, batches of two and two goroutines    *)
(* that may close it: the channel overflows, a drain leaves events behind, *)
(* and two Close calls meet the flush loop.                                *)
EXTENDS EventStore

CONSTANTS k1, k2

MCClosers == {k1, k2}
=============================================================================
