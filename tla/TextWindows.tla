---------------------------- MODULE TextWindows -----------------------------
(***************************************************************************)
(* Time in the store that is built without cgo, go/internal/db/store.go.   *)
(* SQLite keeps stamps as text: an event's is written with a 'T' between   *)
(* its date and its time, in its sender's zone, and is compared as text    *)
(* with datetime('now', ...), which is in UTC and has a space there.  The  *)
(* dates decide, and on one date the 'T' is greater than any space: the    *)
(* times are never compared.                                               *)
(***************************************************************************)
EXTENDS Integers, FiniteSets

CONSTANTS
  DayLength, \* the ticks of a day
  Zones,     \* the offsets from UTC of the senders' stamps, in ticks
  Minutes,   \* the window of a rule, in ticks
  Retention, \* the days PruneOldEvents keeps
  MaxSkew,   \* bound: how far from the clock a sender's stamp may be
  MaxRows,   \* bound: the rows of the table
  MaxTick    \* bound: the last tick

ASSUME WindowAssumption ==
  /\ DayLength \in Nat \ {0}
  /\ Zones \subseteq 1 - DayLength .. DayLength - 1
  /\ {Minutes, Retention, MaxSkew, MaxRows, MaxTick} \subseteq Nat

VARIABLES
  clock,
  rows,   \* raw_events: [stamp, zone]
  deleted \* history: the rows the last pruning deleted, and when

windowVars == <<clock, rows, deleted>>

(* The clock starts after the retention period, so that nothing is         *)
(* negative.                                                               *)
Dawn == (Retention + 2) * DayLength

WindowInit == clock = Dawn /\ rows = {} /\ deleted = {}

Mark == [T |-> 84, space |-> 32]
Text(tick, mark) ==
  [date |-> tick \div DayLength, mark |-> mark, time |-> tick % DayLength]

(* e.Timestamp.Format(time.RFC3339) and datetime('now', '-... ago').       *)
Stamped(r) == Text(r.stamp + r.zone, Mark.T)
Ago(ticks) == Text(clock - ticks, Mark.space)

TextBefore(a, b) ==
  \/ a.date < b.date
  \/ /\ a.date = b.date
     /\ a.mark < b.mark \/ (a.mark = b.mark /\ a.time < b.time)

(* What the correlation rules and the statistics count.                    *)
Counted(ticks) == {r \in rows : ~TextBefore(Stamped(r), Ago(ticks))}

(* Stamps are the senders': behind the clock or ahead of it.               *)
WriteRow ==
  /\ Cardinality(rows) < MaxRows
  /\ \E stamp \in clock - MaxSkew .. clock + MaxSkew, zone \in Zones :
       rows' = rows \cup {[stamp |-> stamp, zone |-> zone]}
  /\ UNCHANGED <<clock, deleted>>

PruneInMinutes ==
  /\ rows' = Counted(Retention)
  /\ deleted' = {[row |-> r, at |-> clock] : r \in rows \ rows'}
  /\ UNCHANGED clock

PruneOldEvents ==
  /\ rows' = Counted(Retention * DayLength)
  /\ deleted' = {[row |-> r, at |-> clock] : r \in rows \ rows'}
  /\ UNCHANGED clock

Tick ==
  /\ clock < Dawn + MaxTick
  /\ clock' = clock + 1
  /\ UNCHANGED <<rows, deleted>>

WindowNext == WriteRow \/ PruneOldEvents \/ Tick

WindowSpec == WindowInit /\ [][WindowNext]_windowVars

-----------------------------------------------------------------------------
WindowTypeOK ==
  /\ clock \in Dawn .. Dawn + MaxTick
  /\ \A r \in rows \cup {d.row : d \in deleted} :
       r.stamp \in Int /\ r.stamp <= clock + MaxSkew /\ r.zone \in Zones

(* A window misses nothing younger than it, and a pruning deletes nothing  *)
(* younger than the retention, except stamps of a zone behind UTC, by as   *)
(* much as they are behind; what a window counts too much is at most of    *)
(* the day, in its sender's zone, on which the window begins.              *)
WindowsErrByADay ==
  /\ \A r \in rows :
       /\ r.stamp + r.zone >= clock - Minutes => r \in Counted(Minutes)
       /\ r \in Counted(Minutes) =>
            r.stamp + r.zone >= DayLength * ((clock - Minutes) \div DayLength)
  /\ \A d \in deleted :
       d.row.stamp + d.row.zone < d.at - Retention * DayLength

(* store.go: "%d blocked requests from %s in 5m", and the like.            *)
CountsAreOfTheWindow ==
  \A r \in Counted(Minutes) : r.stamp >= clock - Minutes
=============================================================================
