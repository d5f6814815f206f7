----------------------------- MODULE Partitions -----------------------------
(***************************************************************************)
(* Monthly partitions of the minute tables: migration 0007, the hourly     *)
(* worker of partition_maintenance.py, and the ingest cycles that need a   *)
(* partition for every row they commit.                                    *)
(*                                                                         *)
(* A tick of the worker is one transaction. Its first statement ensures    *)
(* the partitions of the first table; its second raises, because text()    *)
(* does not bind a parameter that "::" follows (":older::interval",        *)
(* partition_maintenance.py:59). So every tick rolls back, and neither     *)
(* another table nor the retention is ever reached.                        *)
(*                                                                         *)
(* Days are the clock.  DDL a tick has not rolled back locks its table.  A *)
(* cycle stamps its rows when it polls and commits them later.  The API    *)
(* may stop and start at any time; migrations run while it is down.        *)
(***************************************************************************)
EXTENDS Integers, FiniteSets, Sequences

CONSTANTS
  Tables,       \* PARTITIONED_TABLES
  First,        \* the first of them
  MonthStart,   \* the first day of every month the model knows, increasing
  Forward,      \* months_forward: 2
  Cycles,       \* the ingest loops
  Writes,       \* the tables each loop writes
  FirstDay, LastDay,    \* bounds of the clock
  MaxLate,      \* a cycle commits at most this many days after it polled
  MaxRows,      \* bound on the days a table holds when a cycle polls
  MaxStops,     \* bound on stops of the API
  None

Months == DOMAIN MonthStart
Days == MonthStart[1] .. LastDay

ASSUME PartitionsAssumption ==
  /\ First \in Tables
  /\ MonthStart \in Seq(Nat) /\ Months # {}
  /\ \A m, n \in Months : m < n => MonthStart[m] < MonthStart[n]
  /\ Writes \in [Cycles -> SUBSET Tables] /\ \A c \in Cycles : Writes[c] # {}
  /\ Forward \in Nat /\ MaxLate \in 0 .. 1 /\ FirstDay \in Days /\ None \notin Days
  /\ LastDay \in Nat

VARIABLES
  day,          \* now(), in days
  partitioned,  \* migration 0007 is applied
  part,         \* the months each table has a partition for
  rows,         \* the days each table has rows of
  up,           \* the API runs
  tick,         \* the months the open tick has made for First, or None
  polled,       \* the bucket of the rows a cycle has polled and not committed
  migrated,     \* history: the month of the last upgrade
  stops

vars == <<day, partitioned, part, rows, up, tick, polled, migrated, stops>>

-----------------------------------------------------------------------------
(* date_trunc('month', d), as the number of the month; 0 before the first. *)
MonthOf(d) == Cardinality({m \in Months : MonthStart[m] <= d})

(* Faulty variant of EnsureMonths: the loop stops one month early. *)
EnsureMonthsShort(at) == {m \in Months : MonthOf(at) - 1 <= m /\ m < MonthOf(at) + Forward}

(* The partitions ensure_monthly_partitions creates if they do not exist.  *)
EnsureMonths(at) == {m \in Months : MonthOf(at) - 1 <= m /\ m <= MonthOf(at) + Forward}

Locked(t) == t = First /\ tick \notin {None, {}}

PartitionsInit ==
  /\ day = FirstDay /\ partitioned = FALSE /\ migrated = 0
  /\ part = [t \in Tables |-> {}] /\ rows = [t \in Tables |-> {}]
  /\ up = FALSE /\ tick = None /\ polled = [c \in Cycles |-> None]
  /\ stops = 0

-----------------------------------------------------------------------------
(* Faulty variant of Upgrade: copies the rows of the current month only. *)
UpgradeCopiesMonth ==
  /\ ~up /\ ~partitioned
  /\ partitioned' = TRUE /\ migrated' = MonthOf(day)
  /\ part' = [t \in Tables |-> EnsureMonths(day)]
  /\ rows' = [t \in Tables |-> {d \in rows[t] : MonthOf(d) >= MonthOf(day)}]
  /\ UNCHANGED <<day, up, tick, polled, stops>>

(* upgrade() of migration 0007: partitions around the current month, and   *)
(* the rows since the start of the previous month copied into them.        *)
Upgrade ==
  /\ ~up /\ ~partitioned
  /\ partitioned' = TRUE /\ migrated' = MonthOf(day)
  /\ part' = [t \in Tables |-> EnsureMonths(day)]
  /\ rows' = [t \in Tables |-> {d \in rows[t] : MonthOf(d) >= MonthOf(day) - 1}]
  /\ UNCHANGED <<day, up, tick, polled, stops>>

(* downgrade(): every row goes back to a plain table.                      *)
Downgrade ==
  /\ ~up /\ partitioned
  /\ partitioned' = FALSE /\ part' = [t \in Tables |-> {}]
  /\ UNCHANGED <<day, rows, up, tick, polled, migrated, stops>>

Start ==
  /\ ~up /\ up' = TRUE
  /\ UNCHANGED <<day, partitioned, part, rows, tick, polled, migrated, stops>>

(* The process ends: its transactions roll back, what it polled is gone.   *)
Stop ==
  /\ up /\ stops < MaxStops
  /\ up' = FALSE /\ stops' = stops + 1
  /\ tick' = None /\ polled' = [c \in Cycles |-> None]
  /\ UNCHANGED <<day, partitioned, part, rows, migrated>>

(* The first statement of a tick.                                          *)
TickEnsures ==
  /\ up /\ partitioned /\ tick = None
  /\ tick' = EnsureMonths(day) \ part[First]
  /\ UNCHANGED <<day, partitioned, part, rows, up, polled, migrated, stops>>

(* The second raises, or an earlier failure comes first: the loop logs it  *)
(* and tries again in an hour.                                             *)
TickRaises ==
  /\ tick # None /\ tick' = None
  /\ UNCHANGED <<day, partitioned, part, rows, up, polled, migrated, stops>>

(* Faulty variant of Poll: rounds the bucket up. *)
PollRoundsUp(c) ==
  /\ up /\ polled[c] = None
  /\ \A t \in Writes[c] : Cardinality(rows[t]) < MaxRows
  /\ polled' = [polled EXCEPT ![c] = IF day < LastDay THEN day + 1 ELSE day]
  /\ UNCHANGED <<day, partitioned, part, rows, up, tick, migrated, stops>>

(* A cycle stamps what it polled with the current bucket.                  *)
Poll(c) ==
  /\ up /\ polled[c] = None
  /\ \A t \in Writes[c] : Cardinality(rows[t]) < MaxRows
  /\ polled' = [polled EXCEPT ![c] = day]
  /\ UNCHANGED <<day, partitioned, part, rows, up, tick, migrated, stops>>

Finds(c, t) == partitioned => MonthOf(polled[c]) \in part[t]

(* One transaction: all rows of the cycle, or none if one table has no     *)
(* partition for them.                                                     *)
Commit(c) ==
  /\ polled[c] # None /\ \A t \in Writes[c] : ~Locked(t)
  /\ rows' = IF \A t \in Writes[c] : Finds(c, t)
             THEN [t \in Tables |-> IF t \in Writes[c] THEN rows[t] \cup {polled[c]} ELSE rows[t]]
             ELSE rows
  /\ polled' = [polled EXCEPT ![c] = None]
  /\ UNCHANGED <<day, partitioned, part, up, tick, migrated, stops>>

DayPasses ==
  /\ day < LastDay /\ \A c \in Cycles : polled[c] # None => day < polled[c] + MaxLate
  /\ day' = day + 1
  /\ UNCHANGED <<partitioned, part, rows, up, tick, polled, migrated, stops>>

PartitionsNext ==
  \/ Upgrade \/ Downgrade \/ Start \/ Stop
  \/ TickEnsures \/ TickRaises
  \/ \E c \in Cycles : Poll(c) \/ Commit(c)
  \/ DayPasses

PartitionsSpec == PartitionsInit /\ [][PartitionsNext]_vars

-----------------------------------------------------------------------------
(***************************************************************************)
(* Types; only a running API holds polled rows, none stamped with a bucket *)
(* of the future.                                                          *)
(***************************************************************************)
PartTypeOK ==
  /\ day \in Days /\ partitioned \in BOOLEAN /\ up \in BOOLEAN
  /\ part \in [Tables -> SUBSET Months] /\ rows \in [Tables -> SUBSET Days]
  /\ polled \in [Cycles -> Days \cup {None}] /\ migrated \in 0 .. Cardinality(Months)
  /\ tick # None => tick \subseteq Months
  /\ \A c \in Cycles : polled[c] # None => up /\ polled[c] <= day

(***************************************************************************)
(* The month rollover.  The worker is there "so that a month rollover      *)
(* never lands in a partition that doesn't exist yet" (partition_          *)
(* maintenance.py:5-7).  As its ticks roll back, a cycle that ends has     *)
(* stored its rows, in every table it writes, exactly if their month is at *)
(* most Forward months after that of the migration: from then on every     *)
(* cycle loses all it polled.                                              *)
(***************************************************************************)
RowsLandUntilHorizon ==
  [][ \A c \in Cycles : polled[c] # None /\ polled'[c] = None /\ up' =>
        ((\A t \in Writes[c] : polled[c] \in rows'[t])
           <=> (partitioned => MonthOf(polled[c]) <= migrated + Forward)) ]_vars

(***************************************************************************)
(* What is stored stays, through every migration up and down and every     *)
(* rollback: only an upgrade deletes rows, those of months before the      *)
(* previous one (0007_data_scale.py:196-200), and no retention does.       *)
(***************************************************************************)
RowsKept ==
  [][ \A t \in Tables : \A d \in rows[t] \ rows'[t] :
        partitioned' /\ ~partitioned /\ MonthOf(d) < MonthOf(day) - 1 ]_vars
=============================================================================
