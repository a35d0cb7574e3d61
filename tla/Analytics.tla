------------------------------ MODULE Analytics ------------------------------
(***************************************************************************)
(* Analytics observations (analytics/): recorded by collectors and         *)
(* requests into a bounded queue, written by one worker thread, folded     *)
(* into daily aggregates and deleted by a daily job.  Nothing waits: what  *)
(* does not fit in the queue or cannot be written is dropped and counted.  *)
(*                                                                         *)
(* The roll-up lists the days and reads the first aggregate outside any    *)
(* transaction; its first write opens one, which locks the worker out      *)
(* until the commit.  An observation belongs to the day it was made on and *)
(* is written on that day or, through the queue, on the next: the queue is *)
(* not assumed to be further behind than that.                             *)
(***************************************************************************)
EXTENDS Integers, FiniteSets, Sequences, FiniteSetsExt

CONSTANTS Observations,  \* identities of the observations made
          QueueSize,     \* AFL_ANALYTICS_QUEUE_MAX_SIZE
          Retention,     \* AFL_ANALYTICS_RETENTION_DAYS
          LastDay,       \* bound: days
          MaxDeaths      \* bound: crashes

ASSUME RetentionAssumption == /\ Retention \in Nat /\ QueueSize \in Nat \ {0}
                              /\ LastDay \in Nat

Days == 1 .. LastDay
NoDay == 0

VARIABLES day,       \* today
          madeOn,    \* the day each observation was made, NoDay before
          queued, hand,           \* the queue and the worker's observation
          dropped,   \* dropped_observation_count()
          db,        \* committed: raw rows and the daily aggregates
          rollup,    \* the daily job: [stage, dates, counted, locked, db]
          stored, lost,           \* ever inserted; gone with a process
          deaths

analyticsVars == <<day, madeOn, queued, hand, dropped, db, rollup, stored, lost, deaths>>

NoRollup == [stage |-> "none", dates |-> {}, counted |-> 0, locked |-> FALSE,
             db |-> [raw |-> {}, total |-> [d \in Days |-> 0]]]

AnalyticsInit ==
    /\ day = 1
    /\ madeOn = [o \in Observations |-> NoDay]
    /\ queued = <<>> /\ hand = {} /\ dropped = 0
    /\ db = [raw |-> {}, total |-> [d \in Days |-> 0]]
    /\ rollup = NoRollup
    /\ stored = {} /\ lost = {} /\ deaths = 0

OfDay(rows, d) == {o \in rows : madeOn[o] = d}

----------------------------------------------------------------------------
(* record_upstream_poll, record_consumer_request.                          *)
Record(o) ==
    /\ madeOn[o] = NoDay
    /\ madeOn' = [madeOn EXCEPT ![o] = day]
    /\ IF Len(queued) < QueueSize
       THEN queued' = Append(queued, o) /\ UNCHANGED dropped
       ELSE dropped' = dropped + 1 /\ UNCHANGED queued
    /\ UNCHANGED <<day, hand, db, rollup, stored, lost, deaths>>

(* The worker: one observation at a time, in a transaction of its own.     *)
TakeObservation ==
    /\ hand = {} /\ queued # <<>>
    /\ hand' = {Head(queued)} /\ queued' = Tail(queued)
    /\ UNCHANGED <<day, madeOn, dropped, db, rollup, stored, lost, deaths>>

Insert ==
    /\ hand # {} /\ ~rollup.locked
    /\ db' = [db EXCEPT !.raw = @ \cup hand]
    /\ stored' = stored \cup hand
    /\ hand' = {}
    /\ UNCHANGED <<day, madeOn, queued, dropped, rollup, lost, deaths>>

(* The database is busy for too long, or the write fails.                  *)
InsertFails ==
    /\ hand # {}
    /\ dropped' = dropped + 1
    /\ hand' = {}
    /\ UNCHANGED <<day, madeOn, queued, db, rollup, stored, lost, deaths>>

----------------------------------------------------------------------------
(* Mutant of BeforeCutoff: the day of the cutoff is rolled up as well.     *)
UpToCutoff(d) == d <= day - Retention

BeforeCutoff(d) == d < day - Retention

BeginRollup ==
    /\ rollup.stage = "none"
    /\ LET due == {d \in Days : BeforeCutoff(d) /\ OfDay(db.raw, d) # {}} IN
       /\ due # {}
       /\ rollup' = [NoRollup EXCEPT !.stage = "listed", !.dates = due]
    /\ UNCHANGED <<day, madeOn, queued, hand, dropped, db, stored, lost, deaths>>

Seen == IF rollup.locked THEN rollup.db ELSE db
NextDate == Min(rollup.dates)

(* The aggregate of a day, and what follows from it: the row is replaced   *)
(* and the day's observations are deleted.                                 *)
ReadDay ==
    /\ rollup.stage = "listed" /\ rollup.dates # {}
    /\ rollup' = [rollup EXCEPT !.stage = "read",
                                !.counted = Cardinality(OfDay(Seen.raw, NextDate))]
    /\ UNCHANGED <<day, madeOn, queued, hand, dropped, db, stored, lost, deaths>>

RolledUp(data, d, count) ==
    [raw   |-> data.raw \ OfDay(data.raw, d),
     total |-> IF count = 0 THEN data.total ELSE [data.total EXCEPT ![d] = count]]

WriteDay ==
    /\ rollup.stage = "read"
    /\ rollup' = [rollup EXCEPT !.stage = "listed", !.locked = TRUE,
                                !.dates = @ \ {NextDate}, !.counted = 0,
                                !.db = RolledUp(Seen, NextDate, rollup.counted)]
    /\ UNCHANGED <<day, madeOn, queued, hand, dropped, db, stored, lost, deaths>>

CommitRollup ==
    /\ rollup.stage = "listed" /\ rollup.dates = {}
    /\ db' = rollup.db
    /\ rollup' = NoRollup
    /\ UNCHANGED <<day, madeOn, queued, hand, dropped, stored, lost, deaths>>

(* An error closes the connection: what was not committed is rolled back.  *)
RollupFails ==
    /\ rollup.stage # "none"
    /\ rollup' = NoRollup
    /\ UNCHANGED <<day, madeOn, queued, hand, dropped, db, stored, lost, deaths>>

(* The process dies with its queue; the count of drops starts again.       *)
Die ==
    /\ deaths < MaxDeaths
    /\ deaths' = deaths + 1
    /\ lost' = lost \cup hand \cup {queued[i] : i \in DOMAIN queued}
    /\ queued' = <<>> /\ hand' = {} /\ dropped' = 0
    /\ rollup' = NoRollup
    /\ UNCHANGED <<day, madeOn, db, stored>>

(* A day passes; the queue has been served up to yesterday by then.        *)
NewDay ==
    /\ day < LastDay
    /\ \A o \in Observations :
          madeOn[o] \in 1 .. day - 1 => o \notin hand /\ o \notin {queued[i] : i \in DOMAIN queued}
    /\ day' = day + 1
    /\ UNCHANGED <<madeOn, queued, hand, dropped, db, rollup, stored, lost, deaths>>

(* What the reports count for a day: the raw rows and the aggregate.       *)
Summary(d) == db.total[d] + Cardinality(OfDay(db.raw, d))

AnalyticsNext ==
    \/ \E o \in Observations : Record(o)
    \/ TakeObservation \/ Insert \/ InsertFails
    \/ BeginRollup \/ ReadDay \/ WriteDay \/ CommitRollup \/ RollupFails
    \/ Die \/ NewDay

AnalyticsSpec == AnalyticsInit /\ [][AnalyticsNext]_analyticsVars

----------------------------------------------------------------------------
(* Every observation that was ever stored is counted exactly once, as a    *)
(* raw row or in its day's aggregate, whatever a roll-up, its repetition   *)
(* or a crash in the middle of one did.                                    *)
CountedOnce == \A d \in Days : Summary(d) = Cardinality(OfDay(stored, d))
=============================================================================
