------------------------ MODULE Infrastructure_proofs ------------------------
(* What the infrastructure of the scheduler and the API promises, for any       *)
(* processes, threads, requests and releases.  Services takes the steps of      *)
(* these modules as they are.                                                   *)
EXTENDS Migrations, Analytics, EvidenceCapture, WriteLane, JobRegistry, TokenPool,
        Counting_proofs, FiniteSetTheorems, TLAPS

-----------------------------------------------------------------------------
(* Schema migration.                                                            *)

Schemas == [applied : SUBSET (Nat \ {0}), orphans : BOOLEAN, broken : BOOLEAN]
Starts  == [at : {"stopped", "waiting", "migrating", "failed", "migrated"},
            fkOff : BOOLEAN, draft : Schemas, starts : Nat]

MigrationTyped ==
  /\ schema \in Schemas /\ writer \in Processes \cup {NoWriter}
  /\ process \in [Processes -> Starts]

Gapless(s) == \A v \in s.applied : 1 .. v \subseteq s.applied

\* Whoever migrates holds the write transaction, which nobody commits past: its draft
\* goes on from what is committed.
DraftAhead ==
  \A p \in Processes : process[p].at = "migrating" =>
    /\ writer = p
    /\ schema.applied \subseteq process[p].draft.applied
    /\ Gapless(process[p].draft) /\ ~process[p].draft.broken
    /\ process[p].draft.orphans => process[p].fkOff

\* Enforcement is off for every rebuild that may still be ahead: others can only have
\* applied more since the decision.
RebuildsUnchecked ==
  \A p \in Processes : process[p].at \in {"waiting", "migrating"} =>
    process[p].fkOff \/ (OnDisk(p) \ schema.applied) \cap Rebuilds = {}

MigrationInv == MigrationTyped /\ SchemaSound /\ DraftAhead /\ RebuildsUnchecked

LEMMA OnDiskNumbers == \A p \in Processes : OnDisk(p) \subseteq Nat \ {0}
  BY MigrationAssumption DEF OnDisk

\* A process that ends leaves the transaction; what it leaves committed is as given.
LEMMA EndsKeeps ==
  ASSUME MigrationInv, NEW p \in Processes, NEW how \in {"failed", "migrated", "stopped"},
         schema' \in Schemas, Ends(p, how),
         schema.applied \subseteq schema'.applied, SchemaSound',
         \A q \in Processes \ {p} : process[q].at # "migrating" \/ schema' = schema
  PROVE  MigrationInv'
  <1>1. process' = [process EXCEPT ![p] = [@ EXCEPT !.at = how, !.fkOff = FALSE,
                                                    !.draft = schema']]
    BY DEF Ends, MigrationInv, MigrationTyped, Starts
  <1>2. \A q \in Processes : q # p => process'[q] = process[q]
    BY <1>1 DEF MigrationInv, MigrationTyped
  <1>3. process'[p] \in Starts /\ process'[p].at = how
    BY <1>1 DEF MigrationInv, MigrationTyped, Starts
  <1>4. MigrationTyped'
    <2>1. writer' \in Processes \cup {NoWriter}
      BY DEF Ends, MigrationInv, MigrationTyped
    <2>2. process' \in [Processes -> Starts]
      BY <1>1, <1>3 DEF MigrationInv, MigrationTyped
    <2> QED BY <2>1, <2>2 DEF MigrationTyped
  <1>5. DraftAhead'
    <2> SUFFICES ASSUME NEW q \in Processes, process'[q].at = "migrating"
                 PROVE  /\ writer' = q
                        /\ schema'.applied \subseteq process'[q].draft.applied
                        /\ Gapless(process'[q].draft) /\ ~process'[q].draft.broken
                        /\ process'[q].draft.orphans => process'[q].fkOff
      BY DEF DraftAhead, Gapless
    <2>1. q # p
      BY <1>3
    <2>2. process'[q] = process[q] /\ writer = q /\ schema' = schema
      BY <1>2, <2>1 DEF MigrationInv, DraftAhead
    <2> QED BY <2>1, <2>2 DEF Ends, MigrationInv, DraftAhead
  <1>6. RebuildsUnchecked'
    <2> SUFFICES ASSUME NEW q \in Processes, process'[q].at \in {"waiting", "migrating"}
                 PROVE  process'[q].fkOff \/ (OnDisk(q) \ schema'.applied) \cap Rebuilds = {}
      BY DEF RebuildsUnchecked, OnDisk
    <2>1. q # p
      BY <1>3
    <2>2. process'[q] = process[q]
      BY <1>2, <2>1
    <2> QED BY <2>2 DEF MigrationInv, RebuildsUnchecked
  <1> QED BY <1>4, <1>5, <1>6 DEF MigrationInv

LEMMA RollBackKeeps ==
  ASSUME MigrationInv, NEW p \in Processes, NEW how \in {"failed", "migrated", "stopped"},
         UNCHANGED schema, Ends(p, how)
  PROVE  MigrationInv'
  <1>1. schema' \in Schemas /\ SchemaSound'
    BY DEF MigrationInv, MigrationTyped, SchemaSound
  <1> QED BY <1>1, EndsKeeps

\* A draft without violations is sound, and committing it only adds migrations.
LEMMA CommitKeeps ==
  ASSUME MigrationInv, NEW p \in Processes, NEW how \in {"failed", "migrated"},
         process[p].at = "migrating", ~Violations(p), Commit(p, how)
  PROVE  MigrationInv'
  <1>1. schema' = process[p].draft /\ Ends(p, how) /\ schema' \in Schemas
    BY DEF Commit, MigrationInv, MigrationTyped, Starts
  <1>2. schema.applied \subseteq schema'.applied /\ SchemaSound'
    BY <1>1 DEF MigrationInv, DraftAhead, Gapless, Violations, SchemaSound
  <1>3. \A q \in Processes \ {p} : process[q].at # "migrating"
    BY DEF MigrationInv, DraftAhead
  <1> QED BY <1>1, <1>2, <1>3, EndsKeeps

LEMMA PreflightKeeps ==
  ASSUME MigrationInv, NEW p \in Processes, Preflight(p)
  PROVE  MigrationInv'
  <1> DEFINE off == (OnDisk(p) \ schema.applied) \cap Rebuilds # {}
  <1>1. /\ process' = [process EXCEPT ![p] = [@ EXCEPT !.at = "waiting", !.starts = process[p].starts + 1,
                                                       !.fkOff = off]]
        /\ UNCHANGED <<schema, writer>>
    BY DEF Preflight, MigrationInv, MigrationTyped, Starts
  <1>2. \A q \in Processes : q # p => process'[q] = process[q]
    BY <1>1 DEF MigrationInv, MigrationTyped
  <1> HIDE DEF off
  <1>3. process'[p] \in Starts /\ process'[p].at = "waiting" /\ process'[p].fkOff = off
    <2>1. off \in BOOLEAN
      BY DEF off
    <2>2. process[p] \in Starts /\ process[p].starts + 1 \in Nat /\ p \in DOMAIN process
      BY DEF MigrationInv, MigrationTyped, Starts
    <2>3. process'[p] = [process[p] EXCEPT !.at = "waiting", !.starts = process[p].starts + 1,
                                           !.fkOff = off]
      BY <1>1, <2>2
    <2> QED BY <2>1, <2>2, <2>3 DEF Starts
  <1>4. MigrationTyped' /\ SchemaSound'
    BY <1>1, <1>3 DEF MigrationInv, MigrationTyped, SchemaSound
  <1>5. DraftAhead'
    BY <1>1, <1>2, <1>3 DEF MigrationInv, DraftAhead, Gapless
  <1>6. RebuildsUnchecked'
    BY <1>1, <1>2, <1>3 DEF off, MigrationInv, RebuildsUnchecked, OnDisk
  <1> QED BY <1>4, <1>5, <1>6 DEF MigrationInv

LEMMA BeginMigrationKeeps ==
  ASSUME MigrationInv, NEW p \in Processes, BeginMigration(p)
  PROVE  MigrationInv'
  <1>1. CASE ~KnownOnDisk(p)
    BY <1>1, RollBackKeeps DEF BeginMigration, RollBack
  <1>2. CASE KnownOnDisk(p)
    <2>1. /\ process' = [process EXCEPT ![p] = [@ EXCEPT !.at = "migrating", !.draft = Found]]
          /\ writer = NoWriter /\ writer' = p /\ schema' = schema /\ process[p].at = "waiting"
      BY <1>2 DEF BeginMigration, MigrationInv, MigrationTyped, Starts
    <2>2. Found \in Schemas /\ schema.applied \subseteq Found.applied /\ ~Found.orphans
          /\ ~Found.broken
      BY DEF Found, Baseline, MigrationInv, MigrationTyped, SchemaSound, Schemas
    <2>3. Gapless(Found)
      <3>1. CASE schema.applied = {} /\ Legacy
        <4>1. Found.applied = {1}
          BY <3>1 DEF Found, Baseline, MigrationInv, MigrationTyped, Schemas
        <4> QED BY <4>1 DEF Gapless
      <3>2. CASE ~(schema.applied = {} /\ Legacy)
        <4>1. Found = schema
          BY <3>2 DEF Found
        <4> QED BY <4>1 DEF Gapless, MigrationInv, SchemaSound
      <3> QED BY <3>1, <3>2
    <2>4. \A q \in Processes : q # p => process'[q] = process[q]
      BY <2>1 DEF MigrationInv, MigrationTyped
    <2>5. /\ process'[p] \in Starts /\ process'[p].at = "migrating"
          /\ process'[p].draft = Found /\ process'[p].fkOff = process[p].fkOff
      BY <2>1, <2>2 DEF MigrationInv, MigrationTyped, Starts
    <2>6. MigrationTyped' /\ SchemaSound'
      BY <2>1, <2>5 DEF MigrationInv, MigrationTyped, SchemaSound
    <2>7. \A q \in Processes : process[q].at # "migrating"
      BY <2>1, NoWriterAssumption DEF MigrationInv, DraftAhead
    <2>8. DraftAhead'
      BY <2>1, <2>2, <2>3, <2>4, <2>5, <2>7 DEF DraftAhead, Gapless
    <2>9. RebuildsUnchecked'
      BY <2>1, <2>4, <2>5 DEF MigrationInv, RebuildsUnchecked, OnDisk
    <2> QED BY <2>6, <2>8, <2>9 DEF MigrationInv
  <1> QED BY <1>1, <1>2

\* The next migration in order leaves no gap, and a rebuild runs with enforcement off.
LEMMA MigrateOneKeeps ==
  ASSUME MigrationInv, NEW p \in Processes, MigrateOne(p)
  PROVE  MigrationInv'
  <1>1. PICK v \in Waiting(p), orphaned \in BOOLEAN :
          /\ IsNext(p, v)
          /\ process' = [process EXCEPT ![p].draft = Migrated(p, v, orphaned)]
    BY DEF MigrateOne
  <1> DEFINE old == process[p].draft
             new == Migrated(p, v, orphaned)
  <1>2. /\ process[p].at = "migrating" /\ writer = p /\ schema.applied \subseteq old.applied
        /\ Gapless(old) /\ ~old.broken /\ (old.orphans => process[p].fkOff)
        /\ old \in Schemas /\ process[p].fkOff \in BOOLEAN
    BY DEF MigrateOne, MigrationInv, MigrationTyped, DraftAhead, Starts
  <1>3. v \in OnDisk(p) /\ v \notin old.applied /\ v \in Nat \ {0}
    BY OnDiskNumbers DEF Waiting
  <1>4. v \in Rebuilds => process[p].fkOff
    BY <1>2, <1>3 DEF MigrationInv, RebuildsUnchecked
  <1>5. new.applied = old.applied \cup {v} /\ new \in Schemas
    BY <1>2, <1>3 DEF Migrated, Schemas
  <1>6. ~new.broken /\ (new.orphans => process[p].fkOff)
    BY <1>2, <1>4 DEF Migrated
  <1>7. Gapless(new)
    <2>1. ASSUME NEW w \in 1 .. v, w # v PROVE w \in old.applied
      <3>1. w \in OnDisk(p) /\ ~(v <= w)
        BY <1>3, <2>1, MigrationAssumption DEF OnDisk
      <3> QED BY <1>1, <3>1 DEF IsNext, Waiting
    <2>2. \A u \in old.applied : 1 .. u \subseteq old.applied
      BY <1>2 DEF Gapless
    <2>3. \A u \in old.applied \cup {v} : 1 .. u \subseteq old.applied \cup {v}
      BY <2>1, <2>2
    <2> QED BY <1>5, <2>3 DEF Gapless
  <1> HIDE DEF new, old
  <1>8. \A q \in Processes : q # p => process'[q] = process[q]
    BY <1>1 DEF MigrationInv, MigrationTyped
  <1>9. /\ process'[p] \in Starts /\ process'[p].draft = new
        /\ process'[p].at = process[p].at /\ process'[p].fkOff = process[p].fkOff
    BY <1>1, <1>5 DEF new, MigrationInv, MigrationTyped, Starts
  <1>10. UNCHANGED <<schema, writer>>
    BY DEF MigrateOne
  <1>11. MigrationTyped' /\ SchemaSound'
    BY <1>1, <1>9, <1>10 DEF MigrationInv, MigrationTyped, SchemaSound
  <1>12. DraftAhead'
    BY <1>2, <1>5, <1>6, <1>7, <1>8, <1>9, <1>10 DEF MigrationInv, DraftAhead, Gapless
  <1>13. RebuildsUnchecked'
    BY <1>8, <1>9, <1>10 DEF MigrationInv, RebuildsUnchecked, OnDisk
  <1> QED BY <1>11, <1>12, <1>13 DEF MigrationInv

\* Whatever releases start and die together, what is committed has no dangling reference,
\* no rebuild that ran with enforcement on, and no gap.
THEOREM SchemaIsSound == MigrationSpec => []SchemaSound
  <1>1. MigrationInit => MigrationInv
    <2> SUFFICES ASSUME MigrationInit PROVE MigrationInv
      OBVIOUS
    <2>1. schema \in Schemas /\ SchemaSound
      BY DEF MigrationInit, Schemas, SchemaSound
    <2>2. MigrationTyped
      BY <2>1 DEF MigrationInit, MigrationTyped, Starts
    <2> QED BY <2>1, <2>2 DEF MigrationInit, MigrationInv, DraftAhead, RebuildsUnchecked
  <1>2. MigrationInv /\ [MigrationNext]_migrationVars => MigrationInv'
    <2> SUFFICES ASSUME MigrationInv, [MigrationNext]_migrationVars PROVE MigrationInv'
      OBVIOUS
    <2>1. ASSUME NEW p \in Processes, BusyTimeout(p) PROVE MigrationInv'
      BY <2>1, RollBackKeeps DEF BusyTimeout, RollBack
    <2>2. ASSUME NEW p \in Processes, ProcessDies(p) PROVE MigrationInv'
      BY <2>2, RollBackKeeps DEF ProcessDies
    <2>3. ASSUME NEW p \in Processes, MigrationFails(p) PROVE MigrationInv'
      BY <2>3, RollBackKeeps, CommitKeeps DEF MigrationFails, MustDiscard, RollBack
    <2>4. ASSUME NEW p \in Processes, EndMigration(p) PROVE MigrationInv'
      BY <2>4, RollBackKeeps, CommitKeeps DEF EndMigration, RollBack
    <2>5. CASE UNCHANGED migrationVars
      BY <2>5 DEF migrationVars, MigrationInv, MigrationTyped, SchemaSound, DraftAhead,
                  RebuildsUnchecked, Gapless, OnDisk
    <2> QED BY <2>1, <2>2, <2>3, <2>4, <2>5, PreflightKeeps, BeginMigrationKeeps,
               MigrateOneKeeps DEF MigrationNext
  <1>3. MigrationInv => SchemaSound
    BY DEF MigrationInv
  <1> QED BY <1>1, <1>2, <1>3, PTL DEF MigrationSpec

-----------------------------------------------------------------------------
(* Analytics.                                                                   *)

MadeOn(made, rows, d) == {o \in rows : made[o] = d}
DayData == [raw : SUBSET Observations, total : [Days -> Nat]]

\* The data accounts for the observations kept, and a day with an aggregate is past the
\* cutoff and has no raw rows left.
Accounts(data, made, today, kept) ==
  /\ data \in DayData /\ data.raw \subseteq kept
  /\ \A d \in Days :
       /\ data.total[d] + Cardinality(MadeOn(made, data.raw, d)) = Cardinality(MadeOn(made, kept, d))
       /\ data.total[d] # 0 => d < today - Retention /\ MadeOn(made, data.raw, d) = {}

\* What an observation's day says of the rows: only the days of those rows matter.
LEMMA AccountsStay ==
  ASSUME NEW data, NEW made, NEW today \in Nat, NEW kept, Accounts(data, made, today, kept),
         NEW made2, NEW today2 \in Nat, today <= today2, \A o \in kept : made2[o] = made[o]
  PROVE  Accounts(data, made2, today2, kept)
  <1>1. \A d : MadeOn(made2, kept, d) = MadeOn(made, kept, d)
    BY DEF MadeOn
  <1>2. \A d : MadeOn(made2, data.raw, d) = MadeOn(made, data.raw, d)
    BY DEF MadeOn, Accounts
  <1>3. \A d \in Days : d \in Int /\ (d < today - Retention => d < today2 - Retention)
    BY RetentionAssumption DEF Days
  <1> QED BY <1>1, <1>2, <1>3 DEF Accounts

\* A new row of a day the roll-up has not come to.
LEMMA AccountsInsert ==
  ASSUME NEW data, NEW made, NEW today \in Nat, NEW kept, Accounts(data, made, today, kept),
         IsFiniteSet(kept), NEW o \in Observations, o \notin kept, made[o] \in Nat,
         made[o] + 1 >= today, Retention >= 1
  PROVE  Accounts([data EXCEPT !.raw = @ \cup {o}], made, today, kept \cup {o})
  <1> DEFINE more == [data EXCEPT !.raw = @ \cup {o}]
  <1>1. more \in DayData /\ more.raw = data.raw \cup {o} /\ more.total = data.total
    BY DEF Accounts, DayData
  <1>2. IsFiniteSet(data.raw)
    BY FS_Subset DEF Accounts
  <1> HIDE DEF more
  <1>3. ASSUME NEW d \in Days
        PROVE  /\ more.total[d] + Cardinality(MadeOn(made, more.raw, d))
                    = Cardinality(MadeOn(made, kept \cup {o}, d))
               /\ more.total[d] # 0 => d < today - Retention /\ MadeOn(made, more.raw, d) = {}
    <2>1. data.total[d] \in Nat /\ d \in Int
      BY RetentionAssumption DEF Accounts, DayData, Days
    <2>2. CASE made[o] = d
      <3>1. MadeOn(made, more.raw, d) = MadeOn(made, data.raw, d) \cup {o}
        BY <1>1, <2>2 DEF MadeOn
      <3>2. MadeOn(made, kept \cup {o}, d) = MadeOn(made, kept, d) \cup {o}
        BY <2>2 DEF MadeOn
      <3>3. o \notin MadeOn(made, data.raw, d) /\ o \notin MadeOn(made, kept, d)
        BY DEF MadeOn, Accounts
      <3>4. /\ IsFiniteSet(MadeOn(made, data.raw, d)) /\ IsFiniteSet(MadeOn(made, kept, d))
            /\ MadeOn(made, data.raw, d) \subseteq data.raw
        <4>1. MadeOn(made, data.raw, d) \subseteq data.raw /\ MadeOn(made, kept, d) \subseteq kept
          BY DEF MadeOn
        <4> QED BY <4>1, <1>2, FS_Subset
      <3>5. /\ Cardinality(MadeOn(made, data.raw, d)) \in Nat
            /\ Cardinality(MadeOn(made, kept, d)) \in Nat
        BY <3>4, FS_CardinalityType
      <3>6. Cardinality(MadeOn(made, more.raw, d)) = Cardinality(MadeOn(made, data.raw, d)) + 1
        BY <3>1, <3>3, <3>4, FS_AddElement
      <3>7. Cardinality(MadeOn(made, kept \cup {o}, d)) = Cardinality(MadeOn(made, kept, d)) + 1
        BY <3>2, <3>3, <3>4, FS_AddElement
      <3>8. ~(d < today - Retention)
        BY <2>1, <2>2, RetentionAssumption
      <3>9. data.total[d] = 0
        BY <3>8 DEF Accounts
      <3>10. data.total[d] + Cardinality(MadeOn(made, data.raw, d)) = Cardinality(MadeOn(made, kept, d))
        BY DEF Accounts
      <3> QED BY <1>1, <2>1, <3>5, <3>6, <3>7, <3>9, <3>10
    <2>3. CASE made[o] # d
      <3>1. MadeOn(made, more.raw, d) = MadeOn(made, data.raw, d)
        BY <1>1, <2>3 DEF MadeOn
      <3>2. MadeOn(made, kept \cup {o}, d) = MadeOn(made, kept, d)
        BY <2>3 DEF MadeOn
      <3> QED BY <1>1, <3>1, <3>2 DEF Accounts
    <2> QED BY <2>2, <2>3
  <1>4. more.raw \subseteq kept \cup {o}
    BY <1>1 DEF Accounts
  <1>5. Accounts(more, made, today, kept \cup {o})
    BY <1>1, <1>3, <1>4 DEF Accounts
  <1> QED BY <1>5 DEF more

\* The aggregate of a day past the cutoff replaces its raw rows.
LEMMA AccountsRollUp ==
  ASSUME NEW data, NEW made, NEW today \in Nat, NEW kept, Accounts(data, made, today, kept),
         IsFiniteSet(kept), NEW d \in Days, d < today - Retention, NEW n,
         n = Cardinality(MadeOn(made, data.raw, d))
  PROVE  Accounts([raw |-> data.raw \ MadeOn(made, data.raw, d),
                   total |-> IF n = 0 THEN data.total ELSE [data.total EXCEPT ![d] = n]],
                  made, today, kept)
  <1> DEFINE done == [raw |-> data.raw \ MadeOn(made, data.raw, d),
                      total |-> IF n = 0 THEN data.total ELSE [data.total EXCEPT ![d] = n]]
  <1>1. IsFiniteSet(MadeOn(made, data.raw, d))
    <2>1. MadeOn(made, data.raw, d) \in SUBSET kept
      BY DEF MadeOn, Accounts
    <2> QED BY <2>1, FS_Subset
  <1>2. n \in Nat /\ (n = 0 <=> MadeOn(made, data.raw, d) = {})
    BY <1>1, FS_CardinalityType, FS_EmptySet
  <1>3. data.total \in [Days -> Nat] /\ data.raw \subseteq Observations /\ data.raw \subseteq kept
    BY DEF Accounts, DayData
  <1>4. done \in DayData /\ done.raw \subseteq kept
    BY <1>2, <1>3 DEF DayData
  <1>5. ASSUME NEW e \in Days
        PROVE  /\ done.total[e] + Cardinality(MadeOn(made, done.raw, e))
                    = Cardinality(MadeOn(made, kept, e))
               /\ done.total[e] # 0 => e < today - Retention /\ MadeOn(made, done.raw, e) = {}
    <2>1. CASE e # d
      <3>1. MadeOn(made, done.raw, e) = MadeOn(made, data.raw, e)
        BY <2>1 DEF MadeOn
      <3>2. done.total[e] = data.total[e]
        BY <2>1, <1>3
      <3> QED BY <3>1, <3>2 DEF Accounts
    <2>2. CASE e = d
      <3>1. MadeOn(made, done.raw, e) = {}
        BY <2>2 DEF MadeOn
      <3>2. Cardinality(MadeOn(made, done.raw, e)) = 0
        BY <3>1, FS_EmptySet
      <3>3. data.total[d] + n = Cardinality(MadeOn(made, kept, d))
        BY DEF Accounts
      <3>4. n # 0 => data.total[d] = 0
        BY <1>2 DEF Accounts
      <3>5. data.total[d] \in Nat
        BY <1>3
      <3>6. done.total[d] = IF n = 0 THEN data.total[d] ELSE n
        BY <1>3
      <3> HIDE DEF done
      <3>7. done.total[d] + 0 = data.total[d] + n
        BY <1>2, <3>4, <3>5, <3>6
      <3> QED BY <2>2, <3>1, <3>2, <3>3, <3>7
    <2> QED BY <2>1, <2>2
  <1> HIDE DEF done
  <1>6. Accounts(done, made, today, kept)
    BY <1>4, <1>5 DEF Accounts
  <1> QED BY <1>6 DEF done

AnalyticsTyped ==
  /\ day \in Nat \ {NoDay} /\ madeOn \in [Observations -> Nat]
  /\ queued \in Seq(Observations) /\ hand \in SUBSET Observations
  /\ stored \in SUBSET Observations /\ IsFiniteSet(stored)
  /\ rollup \in [stage : {"none", "listed", "read"}, dates : SUBSET Days, counted : Nat,
                 locked : BOOLEAN, db : DayData]

\* What waits to be written: an observation made today or yesterday and not written yet.
Unwritten == {o \in Observations \ stored : madeOn[o] # NoDay /\ madeOn[o] + 1 >= day}

\* An observation is in one place only.
OnePlace ==
  /\ hand = {} \/ \E o \in Observations : hand = {o}
  /\ \A o \in hand : o \in Unwritten
  /\ \A i \in DOMAIN queued : queued[i] \in Unwritten /\ queued[i] \notin hand
  /\ \A i, j \in DOMAIN queued : queued[i] = queued[j] => i = j
  /\ \A o \in stored : madeOn[o] # NoDay

\* The days of a roll-up are past the cutoff, so nothing that waits is of one of them: what
\* it read of a day stays so until it writes.
RollupFollows ==
  /\ \A d \in rollup.dates : d < day - Retention
  /\ rollup.stage = "listed" /\ rollup.dates = {} => rollup.locked
  /\ rollup.stage = "read" =>
       /\ rollup.dates # {}
       /\ rollup.counted = Cardinality(MadeOn(madeOn, Seen.raw, NextDate))

BothAccount ==
  /\ Accounts(db, madeOn, day, stored)
  /\ Accounts(rollup.db, madeOn, day, stored) \/ ~rollup.locked

AnalyticsInv == AnalyticsTyped /\ OnePlace /\ RollupFollows /\ BothAccount

LEMMA SeenAccounts == AnalyticsInv => Accounts(Seen, madeOn, day, stored)
  BY DEF AnalyticsInv, BothAccount, Seen

\* The smallest of the days left is one of them.
LEMMA NextDateListed ==
  ASSUME AnalyticsTyped, rollup.dates # {}
  PROVE  NextDate \in rollup.dates
  <1> DEFINE left == rollup.dates
  <1>1. left \subseteq Nat /\ left # {}
    BY RetentionAssumption DEF AnalyticsTyped, Days
  <1> HIDE DEF left
  <1>2. \E x \in left : \A y \in left : x <= y
    BY <1>1, LeastOf
  <1>3. Min(left) \in left
    BY <1>2 DEF Min
  <1> QED BY <1>3 DEF NextDate, left

\* A step that leaves the rows and the roll-up alone.
LEMMA RowsStand ==
  ASSUME AnalyticsInv, day' \in Nat \ {NoDay}, day <= day', UNCHANGED <<db, rollup, stored>>,
         \A o \in stored : madeOn'[o] = madeOn[o]
  PROVE  RollupFollows' /\ BothAccount'
  <1>1. BothAccount'
    BY AccountsStay DEF AnalyticsInv, AnalyticsTyped, BothAccount
  <1>2. \A d \in rollup'.dates : d < day' - Retention
    <2>1. \A d \in rollup.dates : d < day - Retention /\ d \in Int
      BY RetentionAssumption DEF AnalyticsInv, AnalyticsTyped, RollupFollows, Days
    <2> QED BY <2>1, RetentionAssumption DEF AnalyticsInv, AnalyticsTyped
  <1>3. ASSUME rollup.stage = "read"
        PROVE  MadeOn(madeOn', Seen'.raw, NextDate') = MadeOn(madeOn, Seen.raw, NextDate)
    <2>1. Seen.raw \subseteq stored
      BY SeenAccounts DEF Accounts
    <2>2. Seen' = Seen /\ NextDate' = NextDate
      BY DEF Seen, NextDate
    <2> QED BY <2>1, <2>2 DEF MadeOn
  <1>4. RollupFollows'
    BY <1>2, <1>3 DEF AnalyticsInv, RollupFollows
  <1> QED BY <1>1, <1>4

LEMMA RecordKeeps ==
  ASSUME AnalyticsInv, NEW o \in Observations, Record(o)
  PROVE  AnalyticsInv'
  <1>1. /\ madeOn[o] = NoDay /\ madeOn' = [madeOn EXCEPT ![o] = day]
        /\ queued' = Append(queued, o) \/ queued' = queued
        /\ UNCHANGED <<day, hand, db, rollup, stored>>
    BY DEF Record
  <1> DEFINE waited == {q \in Observations : q # o}
  <1>2. /\ \A q \in waited : madeOn'[q] = madeOn[q]
        /\ madeOn' \in [Observations -> Nat] /\ madeOn'[o] = day
    BY <1>1 DEF AnalyticsInv, AnalyticsTyped
  <1>3. \A q : q \in stored => q \in waited
    BY <1>1 DEF AnalyticsInv, AnalyticsTyped, OnePlace
  <1>4. queued' \in Seq(Observations)
    <2>1. queued \in Seq(Observations)
      BY DEF AnalyticsInv, AnalyticsTyped
    <2>2. Append(queued, o) \in Seq(Observations)
      BY <2>1
    <2> QED BY <1>1, <2>1, <2>2
  <1>5. AnalyticsTyped'
    BY <1>1, <1>2, <1>4 DEF AnalyticsInv, AnalyticsTyped
  <1>6. RollupFollows' /\ BothAccount'
    BY <1>1, <1>2, <1>3, RowsStand DEF AnalyticsInv, AnalyticsTyped
  <1>7. \A q : q \in Unwritten => q \in waited /\ q \in Unwritten'
    BY <1>1, <1>2, <1>3 DEF Unwritten
  <1>8. o \in Unwritten'
    BY <1>1, <1>2, <1>3 DEF Unwritten, AnalyticsInv, AnalyticsTyped
  <1>9. OnePlace'
    <2>1. \A i \in DOMAIN queued : queued[i] \in Unwritten' /\ queued[i] # o /\ queued[i] \notin hand
      BY <1>7 DEF AnalyticsInv, OnePlace
    <2>2. \A q \in hand : q \in Unwritten' /\ q # o
      BY <1>7 DEF AnalyticsInv, OnePlace
    <2>3. \A q \in stored : madeOn'[q] # NoDay
      BY <1>2, <1>3 DEF AnalyticsInv, OnePlace
    <2>4. CASE queued' = queued
      BY <1>1, <2>1, <2>2, <2>3, <2>4 DEF AnalyticsInv, OnePlace
    <2>5. CASE queued' = Append(queued, o)
      <3>1. /\ DOMAIN queued' = 1 .. Len(queued) + 1 /\ DOMAIN queued = 1 .. Len(queued)
            /\ Len(queued) \in Nat /\ queued'[Len(queued) + 1] = o
            /\ \A i \in DOMAIN queued : queued'[i] = queued[i]
        BY <2>5 DEF AnalyticsInv, AnalyticsTyped
      <3>2. \A i \in DOMAIN queued' : i \in DOMAIN queued \/ i = Len(queued) + 1
        BY <3>1
      <3>3. \A i \in DOMAIN queued' : queued'[i] \in Unwritten' /\ queued'[i] \notin hand'
        BY <1>1, <1>8, <2>1, <2>2, <3>1, <3>2
      <3>4. \A i, j \in DOMAIN queued' : queued'[i] = queued'[j] => i = j
        BY <2>1, <3>1, <3>2 DEF AnalyticsInv, OnePlace
      <3> QED BY <1>1, <2>2, <2>3, <3>3, <3>4 DEF AnalyticsInv, OnePlace
    <2> QED BY <1>1, <2>4, <2>5
  <1> QED BY <1>5, <1>6, <1>9 DEF AnalyticsInv

LEMMA TakeKeeps ==
  ASSUME AnalyticsInv, TakeObservation
  PROVE  AnalyticsInv'
  <1>1. /\ queued # <<>> /\ hand' = {queued[1]} /\ queued' = Tail(queued)
        /\ UNCHANGED <<day, madeOn, db, rollup, stored>>
    BY DEF TakeObservation, AnalyticsInv, AnalyticsTyped
  <1>2. /\ Len(queued) \in Nat \ {0} /\ DOMAIN queued = 1 .. Len(queued)
        /\ DOMAIN queued' = 1 .. Len(queued) - 1 /\ queued' \in Seq(Observations)
        /\ \A i \in DOMAIN queued' : queued'[i] = queued[i + 1]
    BY <1>1 DEF AnalyticsInv, AnalyticsTyped
  <1>3. 1 \in DOMAIN queued /\ \A i \in DOMAIN queued' : i + 1 \in DOMAIN queued /\ i + 1 # 1
    BY <1>2
  <1>4. queued[1] \in Observations
    BY <1>2, <1>3 DEF AnalyticsInv, AnalyticsTyped
  <1>5. AnalyticsTyped'
    BY <1>1, <1>2, <1>4 DEF AnalyticsInv, AnalyticsTyped
  <1>6. RollupFollows' /\ BothAccount'
    BY <1>1, RowsStand DEF AnalyticsInv, AnalyticsTyped
  <1>7. OnePlace'
    <2>1. \A q : q \in Unwritten' <=> q \in Unwritten
      BY <1>1 DEF Unwritten
    <2>2. \A i \in DOMAIN queued' : queued'[i] \in Unwritten' /\ queued'[i] \notin hand'
      BY <1>1, <1>2, <1>3, <2>1 DEF AnalyticsInv, OnePlace
    <2>3. \A i, j \in DOMAIN queued' : queued'[i] = queued'[j] => i = j
      BY <1>2, <1>3 DEF AnalyticsInv, OnePlace
    <2>4. queued[1] \in Unwritten
      BY <1>3 DEF AnalyticsInv, OnePlace
    <2> QED BY <1>1, <1>4, <2>1, <2>2, <2>3, <2>4 DEF AnalyticsInv, OnePlace
  <1> QED BY <1>5, <1>6, <1>7 DEF AnalyticsInv

LEMMA InsertKeeps ==
  ASSUME AnalyticsInv, Insert, Retention >= 1
  PROVE  AnalyticsInv'
  <1>1. PICK o \in Observations : hand = {o}
    BY DEF Insert, AnalyticsInv, OnePlace
  <1>2. /\ ~rollup.locked /\ db' = [db EXCEPT !.raw = @ \cup {o}] /\ stored' = stored \cup {o}
        /\ hand' = {} /\ UNCHANGED <<day, madeOn, queued, rollup>>
    BY <1>1 DEF Insert
  <1>3. o \in Unwritten
    BY <1>1 DEF AnalyticsInv, OnePlace
  <1>4. AnalyticsTyped'
    <2>1. stored' \in SUBSET Observations /\ IsFiniteSet(stored')
      BY <1>2, FS_AddElement DEF AnalyticsInv, AnalyticsTyped
    <2> QED BY <1>2, <2>1 DEF AnalyticsInv, AnalyticsTyped
  <1>5. BothAccount'
    <2>1. Accounts(db', madeOn, day, stored \cup {o})
      BY <1>2, <1>3, AccountsInsert DEF AnalyticsInv, AnalyticsTyped, BothAccount, Unwritten
    <2> QED BY <1>2, <2>1 DEF BothAccount
  <1>6. RollupFollows'
    <2>1. ASSUME rollup.stage = "read"
          PROVE  MadeOn(madeOn, db'.raw, NextDate) = MadeOn(madeOn, db.raw, NextDate)
      <3>1. NextDate \in Days /\ NextDate < day - Retention
        BY <2>1, NextDateListed DEF AnalyticsInv, AnalyticsTyped, RollupFollows
      <3>2. madeOn[o] # NextDate
        BY <1>3, <3>1, RetentionAssumption DEF Unwritten, AnalyticsInv, AnalyticsTyped, Days
      <3>3. db'.raw = db.raw \cup {o}
        BY <1>2 DEF AnalyticsInv, BothAccount, Accounts, DayData
      <3> QED BY <3>2, <3>3 DEF MadeOn
    <2>2. Seen = db /\ Seen' = db' /\ NextDate' = NextDate
      BY <1>2 DEF Seen, NextDate
    <2> QED BY <1>2, <2>1, <2>2 DEF AnalyticsInv, RollupFollows
  <1>7. OnePlace'
    <2>1. \A q : q \in Unwritten /\ q # o => q \in Unwritten'
      BY <1>2 DEF Unwritten
    <2>2. \A i \in DOMAIN queued : queued[i] # o
      BY <1>1 DEF AnalyticsInv, OnePlace
    <2> QED BY <1>2, <1>3, <2>1, <2>2 DEF AnalyticsInv, OnePlace, Unwritten
  <1> QED BY <1>4, <1>5, <1>6, <1>7 DEF AnalyticsInv

\* An observation that could not be written is gone.
LEMMA DropKeeps ==
  ASSUME AnalyticsInv, InsertFails
  PROVE  AnalyticsInv'
  <1>1. hand' = {} /\ UNCHANGED <<day, madeOn, queued, db, rollup, stored>>
    BY DEF InsertFails
  <1>2. AnalyticsTyped'
    BY <1>1 DEF AnalyticsInv, AnalyticsTyped
  <1>3. RollupFollows' /\ BothAccount'
    BY <1>1, RowsStand DEF AnalyticsInv, AnalyticsTyped
  <1>4. OnePlace'
    BY <1>1 DEF AnalyticsInv, OnePlace, Unwritten
  <1> QED BY <1>2, <1>3, <1>4 DEF AnalyticsInv

LEMMA NewDayKeeps ==
  ASSUME AnalyticsInv, NewDay
  PROVE  AnalyticsInv'
  <1>1. day' = day + 1 /\ UNCHANGED <<madeOn, queued, hand, db, rollup, stored>>
    BY DEF NewDay
  <1>2. AnalyticsTyped'
    BY <1>1 DEF AnalyticsInv, AnalyticsTyped, NoDay
  <1>3. RollupFollows' /\ BothAccount'
    BY <1>1, RowsStand DEF AnalyticsInv, AnalyticsTyped, NoDay
  <1>4. \A q : q \in Unwritten /\ ~(madeOn[q] \in 1 .. day - 1) => q \in Unwritten'
    BY <1>1 DEF Unwritten, AnalyticsInv, AnalyticsTyped, NoDay
  <1>5. \A q \in hand : q \in Unwritten'
    BY <1>4 DEF NewDay, AnalyticsInv, OnePlace, Unwritten
  <1>6. \A i \in DOMAIN queued : queued[i] \in Unwritten'
    BY <1>4 DEF NewDay, AnalyticsInv, OnePlace, Unwritten
  <1>7. OnePlace'
    BY <1>1, <1>5, <1>6 DEF AnalyticsInv, OnePlace
  <1> QED BY <1>2, <1>3, <1>7 DEF AnalyticsInv

\* A step of the roll-up alone.
LEMMA OnePlaceStands ==
  ASSUME OnePlace, UNCHANGED <<day, madeOn, queued, hand, stored>>
  PROVE  OnePlace'
  BY DEF OnePlace, Unwritten

LEMMA NoRollupTyped ==
  /\ NoRollup.db \in DayData /\ ~NoRollup.locked /\ NoRollup.dates = {}
  /\ NoRollup \in [stage : {"none", "listed", "read"}, dates : SUBSET Days, counted : Nat,
                   locked : BOOLEAN, db : DayData]
  BY DEF NoRollup, DayData

LEMMA BeginKeeps ==
  ASSUME AnalyticsInv, BeginRollup
  PROVE  AnalyticsInv'
  <1> DEFINE due == {d \in Days : BeforeCutoff(d) /\ OfDay(db.raw, d) # {}}
  <1>1. /\ due # {} /\ rollup' = [NoRollup EXCEPT !.stage = "listed", !.dates = due]
        /\ UNCHANGED <<day, madeOn, queued, hand, db, stored>>
    BY DEF BeginRollup
  <1>2. due \subseteq Days /\ \A d \in due : d < day - Retention
    BY DEF BeforeCutoff
  <1> HIDE DEF due
  <1>3. /\ rollup' \in [stage : {"none", "listed", "read"}, dates : SUBSET Days, counted : Nat,
                        locked : BOOLEAN, db : DayData]
        /\ rollup'.stage = "listed" /\ rollup'.dates = due /\ ~rollup'.locked
    BY <1>1, <1>2, NoRollupTyped DEF NoRollup
  <1>4. AnalyticsTyped' /\ OnePlace'
    BY <1>1, <1>3, OnePlaceStands DEF AnalyticsInv, AnalyticsTyped
  <1>5. RollupFollows' /\ BothAccount'
    BY <1>1, <1>2, <1>3 DEF AnalyticsInv, RollupFollows, BothAccount
  <1> QED BY <1>4, <1>5 DEF AnalyticsInv

LEMMA ReadKeeps ==
  ASSUME AnalyticsInv, ReadDay
  PROVE  AnalyticsInv'
  <1> DEFINE n == Cardinality(MadeOn(madeOn, Seen.raw, NextDate))
  <1>1. /\ rollup.dates # {} /\ rollup' = [rollup EXCEPT !.stage = "read", !.counted = n]
        /\ UNCHANGED <<day, madeOn, queued, hand, db, stored>>
    BY DEF ReadDay, OfDay, MadeOn
  <1>2. n \in Nat
    <2>1. IsFiniteSet(stored) /\ Seen.raw \subseteq stored
      BY SeenAccounts DEF Accounts, AnalyticsInv, AnalyticsTyped
    <2>2. MadeOn(madeOn, Seen.raw, NextDate) \in SUBSET stored
      BY <2>1 DEF MadeOn
    <2> QED BY <2>1, <2>2, FS_Subset, FS_CardinalityType
  <1>3. /\ rollup' \in [stage : {"none", "listed", "read"}, dates : SUBSET Days, counted : Nat,
                        locked : BOOLEAN, db : DayData]
        /\ rollup'.stage = "read" /\ rollup'.counted = n
        /\ rollup'.dates = rollup.dates /\ rollup'.locked = rollup.locked /\ rollup'.db = rollup.db
    <2> HIDE DEF n
    <2> QED BY <1>1, <1>2 DEF AnalyticsInv, AnalyticsTyped
  <1>4. Seen' = Seen /\ NextDate' = NextDate
    BY <1>1, <1>3 DEF Seen, NextDate
  <1>5. AnalyticsTyped' /\ OnePlace'
    BY <1>1, <1>3, OnePlaceStands DEF AnalyticsInv, AnalyticsTyped
  <1>6. RollupFollows' /\ BothAccount'
    BY <1>1, <1>3, <1>4 DEF AnalyticsInv, RollupFollows, BothAccount
  <1> QED BY <1>5, <1>6 DEF AnalyticsInv

LEMMA WriteKeeps ==
  ASSUME AnalyticsInv, WriteDay
  PROVE  AnalyticsInv'
  <1> DEFINE next == RolledUp(Seen, NextDate, rollup.counted)
  <1>1. /\ rollup.stage = "read"
        /\ rollup' = [rollup EXCEPT !.stage = "listed", !.locked = TRUE,
                                    !.dates = rollup.dates \ {NextDate}, !.counted = 0, !.db = next]
        /\ UNCHANGED <<day, madeOn, queued, hand, db, stored>>
    BY DEF WriteDay
  <1>2. NextDate \in Days /\ NextDate < day - Retention
    BY <1>1, NextDateListed DEF AnalyticsInv, AnalyticsTyped, RollupFollows
  <1>3. Accounts(next, madeOn, day, stored)
    <2>1. /\ IsFiniteSet(stored) /\ day \in Nat
          /\ rollup.counted = Cardinality(MadeOn(madeOn, Seen.raw, NextDate))
      BY <1>1 DEF AnalyticsInv, AnalyticsTyped, RollupFollows
    <2>2. next = [raw |-> Seen.raw \ MadeOn(madeOn, Seen.raw, NextDate),
                  total |-> IF rollup.counted = 0 THEN Seen.total
                            ELSE [Seen.total EXCEPT ![NextDate] = rollup.counted]]
      BY DEF RolledUp, OfDay, MadeOn
    <2> HIDE DEF next
    <2> QED BY <1>2, <2>1, <2>2, SeenAccounts, AccountsRollUp
  <1> HIDE DEF next
  <1>4. /\ rollup' \in [stage : {"none", "listed", "read"}, dates : SUBSET Days, counted : Nat,
                        locked : BOOLEAN, db : DayData]
        /\ rollup'.stage = "listed" /\ rollup'.locked /\ rollup'.db = next
        /\ rollup'.dates \subseteq rollup.dates
    <2>1. next \in DayData
      BY <1>3 DEF Accounts
    <2> QED BY <1>1, <2>1 DEF AnalyticsInv, AnalyticsTyped
  <1>5. AnalyticsTyped' /\ OnePlace'
    BY <1>1, <1>4, OnePlaceStands DEF AnalyticsInv, AnalyticsTyped
  <1>6. RollupFollows' /\ BothAccount'
    BY <1>1, <1>3, <1>4 DEF AnalyticsInv, RollupFollows, BothAccount
  <1> QED BY <1>5, <1>6 DEF AnalyticsInv

LEMMA CommitRollupKeeps ==
  ASSUME AnalyticsInv, CommitRollup
  PROVE  AnalyticsInv'
  <1>1. /\ rollup.locked /\ db' = rollup.db /\ rollup' = NoRollup
        /\ UNCHANGED <<day, madeOn, queued, hand, stored>>
    BY DEF CommitRollup, AnalyticsInv, RollupFollows
  <1>2. AnalyticsTyped' /\ OnePlace'
    BY <1>1, OnePlaceStands, NoRollupTyped DEF AnalyticsInv, AnalyticsTyped
  <1>3. RollupFollows' /\ BothAccount'
    BY <1>1, NoRollupTyped DEF AnalyticsInv, RollupFollows, BothAccount, NoRollup
  <1> QED BY <1>2, <1>3 DEF AnalyticsInv

\* A roll-up that fails, or dies with its process, leaves what was committed.
LEMMA LeavesKeeps ==
  ASSUME AnalyticsInv, RollupFails \/ Die
  PROVE  AnalyticsInv'
  <1>1. /\ rollup' = NoRollup /\ UNCHANGED <<day, madeOn, db, stored>>
        /\ UNCHANGED <<queued, hand>> \/ (queued' = <<>> /\ hand' = {})
    BY DEF RollupFails, Die
  <1>2. AnalyticsTyped'
    <2>1. queued' \in Seq(Observations) /\ hand' \in SUBSET Observations
      <3>1. CASE UNCHANGED <<queued, hand>>
        BY <3>1 DEF AnalyticsInv, AnalyticsTyped
      <3>2. CASE queued' = <<>> /\ hand' = {}
        BY <3>2
      <3> QED BY <1>1, <3>1, <3>2
    <2> QED BY <1>1, <2>1, NoRollupTyped DEF AnalyticsInv, AnalyticsTyped
  <1>3. OnePlace'
    BY <1>1 DEF AnalyticsInv, OnePlace, Unwritten
  <1>4. RollupFollows' /\ BothAccount'
    BY <1>1, NoRollupTyped DEF AnalyticsInv, RollupFollows, BothAccount, NoRollup
  <1> QED BY <1>2, <1>3, <1>4 DEF AnalyticsInv

LEMMA AnalyticsHolds == AnalyticsInit => AnalyticsInv
  <1> SUFFICES ASSUME AnalyticsInit PROVE AnalyticsInv
    OBVIOUS
  <1>1. AnalyticsTyped /\ OnePlace
    BY NoRollupTyped, FS_EmptySet DEF AnalyticsInit, AnalyticsTyped, OnePlace, NoDay
  <1>2. db \in DayData /\ db.raw = {} /\ \A d \in Days : db.total[d] = 0
    BY DEF AnalyticsInit, DayData
  <1>3. \A d : MadeOn(madeOn, {}, d) = {}
    BY DEF MadeOn
  <1>4. Accounts(db, madeOn, day, stored)
    <2>1. db.raw = {} /\ stored = {} /\ Cardinality({}) = 0
      BY <1>2, FS_EmptySet DEF AnalyticsInit
    <2>2. \A d \in Days : db.total[d] + Cardinality(MadeOn(madeOn, db.raw, d))
                               = Cardinality(MadeOn(madeOn, stored, d))
      BY <1>2, <1>3, <2>1
    <2> QED BY <1>2, <2>1, <2>2 DEF Accounts
  <1>5. RollupFollows /\ BothAccount
    BY <1>4, NoRollupTyped DEF AnalyticsInit, RollupFollows, BothAccount, NoRollup
  <1> QED BY <1>1, <1>5 DEF AnalyticsInv

\* A collector records, the worker writes, the roll-up folds and a process dies in any
\* order: an observation that was stored is counted once, where a day is kept at least a
\* day.  With no retention the roll-up takes a day whose observations may still be waiting,
\* and a second roll-up of that day replaces the first one's aggregate.
THEOREM StoredAreCounted ==
  ASSUME Retention >= 1
  PROVE  AnalyticsSpec => []CountedOnce
  <1>1. AnalyticsInit => AnalyticsInv
    BY AnalyticsHolds
  <1>2. AnalyticsInv /\ [AnalyticsNext]_analyticsVars => AnalyticsInv'
    <2> SUFFICES ASSUME AnalyticsInv, [AnalyticsNext]_analyticsVars
                 PROVE  AnalyticsInv'
      OBVIOUS
    <2>1. ASSUME NEW o \in Observations, Record(o) PROVE AnalyticsInv'
      BY <2>1, RecordKeeps
    <2>2. CASE TakeObservation
      BY <2>2, TakeKeeps
    <2>3. CASE Insert
      BY <2>3, InsertKeeps
    <2>4. CASE InsertFails
      BY <2>4, DropKeeps
    <2>5. CASE BeginRollup
      BY <2>5, BeginKeeps
    <2>6. CASE ReadDay
      BY <2>6, ReadKeeps
    <2>7. CASE WriteDay
      BY <2>7, WriteKeeps
    <2>8. CASE CommitRollup
      BY <2>8, CommitRollupKeeps
    <2>9. CASE RollupFails \/ Die
      BY <2>9, LeavesKeeps
    <2>10. CASE NewDay
      BY <2>10, NewDayKeeps
    <2>11. CASE UNCHANGED analyticsVars
      <3>1. UNCHANGED <<day, madeOn, queued, hand, db, rollup, stored>>
        BY <2>11 DEF analyticsVars
      <3>2. AnalyticsTyped' /\ OnePlace'
        BY <3>1, OnePlaceStands DEF AnalyticsInv, AnalyticsTyped
      <3>3. RollupFollows' /\ BothAccount'
        BY <3>1, RowsStand DEF AnalyticsInv, AnalyticsTyped
      <3> QED BY <3>2, <3>3 DEF AnalyticsInv
    <2> QED BY <2>1, <2>2, <2>3, <2>4, <2>5, <2>6, <2>7, <2>8, <2>9, <2>10, <2>11
         DEF AnalyticsNext
  <1>3. AnalyticsInv => CountedOnce
    BY DEF AnalyticsInv, BothAccount, Accounts, CountedOnce, Summary, OfDay, MadeOn
  <1> QED BY <1>1, <1>2, <1>3, PTL DEF AnalyticsSpec

-----------------------------------------------------------------------------
(* Evidence capture.                                                            *)

EvidenceTyped ==
  /\ instant \in Nat /\ signal \in Int /\ signal <= instant
  /\ evidence = [polled |-> evidence.polled, newest |-> evidence.newest,
                 lastLive |-> evidence.lastLive, told |-> evidence.told]
  /\ evidence.polled \in Nat /\ evidence.lastLive \in Int

\* The signal is up to date, and no evidence of a live match is newer than it.
SignalCurrent ==
  /\ CaptureDue(match, instant) => signal = instant
  /\ evidence.lastLive <= signal

\* A cycle started in time; an answer that says LIVE was given when the match was.
CycleInTime ==
  capture = Idle \/ ( /\ capture.now \in Int /\ capture.now <= instant
                      /\ capture.now <= signal + PostLive
                      /\ capture.at = "answered" /\ capture.live => capture.now <= signal )

\* What a stored bench keeps of the answer it was parsed from.
KeptOf(bench, answer) ==
  /\ answer.on \subseteq Starters
  /\ bench.nameless = answer.nameless
  /\ \A s \in BenchSides :
       bench.side[s] = IF s \in answer.absent THEN Missing ELSE OnBench(answer, s)

ListsKept ==
  profile = "interchange" /\ ~First => KeptOf(NewestPoll.bench, NewestPoll.answer)

EvidenceInv ==
  EvidenceTyped /\ SignalCurrent /\ CycleInTime /\ OutagesShow /\ ListsKept /\ BenchMovesAreGrounded

\* Instants and matches move: the signal only grows.
LEMMA SignalGrows ==
  ASSUME EvidenceInv, NEW m, NEW t \in Nat, instant <= t
  PROVE  /\ Signal(m, t) \in Int /\ signal <= Signal(m, t) /\ Signal(m, t) <= t
         /\ CaptureDue(m, t) => Signal(m, t) = t
  BY DEF EvidenceInv, EvidenceTyped, Signal

LEMMA WorldMovesKeeps ==
  ASSUME EvidenceInv, instant' \in Nat, instant <= instant', signal' = Signal(match', instant'),
         UNCHANGED <<profile, capture, evidence>>
  PROVE  EvidenceInv'
  <1>1. /\ signal' \in Int /\ signal <= signal' /\ signal' <= instant'
        /\ CaptureDue(match', instant') => signal' = instant'
    BY SignalGrows
  <1>2. PostLive \in Nat /\ signal \in Int /\ instant \in Nat /\ evidence.lastLive \in Int
    BY CaptureAssumption DEF EvidenceInv, EvidenceTyped
  <1>3. EvidenceTyped'
    BY <1>1 DEF EvidenceInv, EvidenceTyped
  <1>4. SignalCurrent'
    BY <1>1, <1>2 DEF EvidenceInv, SignalCurrent, CaptureDue, InTolerance
  <1>5. CycleInTime'
    BY <1>1, <1>2 DEF EvidenceInv, CycleInTime
  <1>6. OutagesShow' /\ ListsKept' /\ BenchMovesAreGrounded'
    BY DEF EvidenceInv, OutagesShow, ListsKept, BenchMovesAreGrounded, Grounded, First, NewestPoll
  <1> QED BY <1>3, <1>4, <1>5, <1>6 DEF EvidenceInv

\* A cycle starts, is answered or is given up.
LEMMA CycleMovesKeeps ==
  ASSUME EvidenceInv, CycleInTime', UNCHANGED <<profile, instant, match, evidence, signal>>
  PROVE  EvidenceInv'
  BY DEF EvidenceInv, EvidenceTyped, SignalCurrent, CaptureDue, InTolerance, OutagesShow,
         ListsKept, BenchMovesAreGrounded, Grounded, First, NewestPoll

LEMMA StartKeeps ==
  ASSUME EvidenceInv, StartCycle
  PROVE  EvidenceInv'
  <1>1. capture' = [at |-> "asking", now |-> instant]
        /\ UNCHANGED <<profile, instant, match, evidence, signal>>
    BY DEF StartCycle
  <1>2. /\ PostLive \in Nat /\ signal \in Int /\ instant \in Nat /\ evidence.lastLive \in Int
        /\ evidence.lastLive <= signal
    BY CaptureAssumption DEF EvidenceInv, EvidenceTyped, SignalCurrent
  <1>3. instant <= signal + PostLive
    <2>1. CASE match.local = "LIVE" \/ InTolerance(match, instant)
      BY <1>2, <2>1 DEF EvidenceInv, SignalCurrent, CaptureDue
    <2>2. CASE RecentlyLive(instant)
      BY <1>2, <2>2 DEF RecentlyLive
    <2> QED BY <2>1, <2>2 DEF StartCycle, IsCandidate
  <1>4. CycleInTime'
    BY <1>1, <1>2, <1>3 DEF CycleInTime
  <1> QED BY <1>1, <1>4, CycleMovesKeeps

LEMMA AnswerKeeps ==
  ASSUME EvidenceInv, AnswerCycle
  PROVE  EvidenceInv'
  <1>1. PICK outcome \in Failures \cup {"success"} :
          capture' = [at |-> "answered", now |-> capture.now, outcome |-> outcome,
                      live |-> profile = "match_clock" /\ match.upstream = "LIVE"]
    BY DEF AnswerCycle
  <1>2. capture.at = "asking" /\ UNCHANGED <<profile, instant, match, evidence, signal>>
    BY DEF AnswerCycle
  <1>3. capture.now \in Int /\ capture.now <= instant /\ capture.now <= signal + PostLive
    BY <1>2 DEF EvidenceInv, CycleInTime, Idle
  <1>4. match.upstream = "LIVE" => signal = instant
    BY DEF EvidenceInv, SignalCurrent, CaptureDue
  <1>5. capture'.now = capture.now /\ (capture'.live => match.upstream = "LIVE")
    BY <1>1
  <1>6. CycleInTime'
    BY <1>2, <1>3, <1>4, <1>5 DEF CycleInTime
  <1> QED BY <1>2, <1>6, CycleMovesKeeps

\* What is stored is live only at an instant the signal has come to.
LEMMA StoreTyped ==
  ASSUME EvidenceInv, NEW poll, NEW at \in Int, NEW live, NEW told, live => at <= signal,
         Store(poll, at, live, told), UNCHANGED <<instant, match, signal>>, capture' = Idle
  PROVE  /\ EvidenceTyped' /\ SignalCurrent' /\ CycleInTime'
         /\ evidence'.newest = poll /\ evidence'.polled # 0
         /\ evidence'.told = IF told THEN poll.outcome ELSE evidence.told
  <1>1. LastLive(at, live) \in Int /\ LastLive(at, live) <= signal
    BY DEF EvidenceInv, EvidenceTyped, SignalCurrent, LastLive
  <1>2. /\ evidence'.polled = evidence.polled + 1 /\ evidence'.newest = poll
        /\ evidence'.lastLive = LastLive(at, live)
        /\ evidence'.told = IF told THEN poll.outcome ELSE evidence.told
        /\ evidence' = [polled |-> evidence'.polled, newest |-> evidence'.newest,
                        lastLive |-> evidence'.lastLive, told |-> evidence'.told]
    BY DEF Store
  <1>3. EvidenceTyped'
    BY <1>1, <1>2 DEF EvidenceInv, EvidenceTyped
  <1>4. SignalCurrent'
    BY <1>1, <1>2 DEF EvidenceInv, SignalCurrent, CaptureDue, InTolerance
  <1> QED BY <1>2, <1>3, <1>4 DEF CycleInTime, EvidenceInv, EvidenceTyped

LEMMA PersistClockKeeps ==
  ASSUME EvidenceInv, capture.at = "answered", NEW payload, PersistClock(payload),
         UNCHANGED <<profile, instant, match, signal>>, capture' = Idle
  PROVE  EvidenceInv'
  <1>1. capture.now \in Int /\ (capture.live => capture.now <= signal)
    BY DEF EvidenceInv, CycleInTime, Idle
  <1>2. PICK poll, told : Store(poll, capture.now, capture.live, told)
    BY DEF PersistClock
  <1>3. EvidenceTyped' /\ SignalCurrent' /\ CycleInTime'
    BY <1>1, <1>2, StoreTyped
  <1>4. profile' = "match_clock"
    BY DEF PersistClock
  <1> QED BY <1>3, <1>4 DEF EvidenceInv, OutagesShow, ListsKept, BenchMovesAreGrounded

\* Storing now: the match is live as matches.status says, or what is stored is not live.
LEMMA LiveNow ==
  EvidenceInv => instant \in Int /\ (match.local = "LIVE" => instant <= signal)
  BY DEF EvidenceInv, EvidenceTyped, SignalCurrent, CaptureDue

\* A side that is there in both answers is compared, and no other.
LEMMA ComparedWhenThere ==
  ASSUME NEW was, NEW is, NEW old, NEW new, KeptOf(was, old), KeptOf(is, new), NEW s \in BenchSides
  PROVE  /\ Both(was, is, s) <=> s \notin old.absent \cup new.absent
         /\ Both(was, is, s) => /\ EntriesById(was, s) = OnBench(old, s) \ old.nameless
                                /\ EntriesById(is, s) = OnBench(new, s) \ new.nameless
  <1>1. OnBench(old, s) # Missing /\ OnBench(new, s) # Missing
    BY CaptureAssumption DEF KeptOf, OnBench, Missing
  <1>2. /\ was.side[s] = IF s \in old.absent THEN Missing ELSE OnBench(old, s)
        /\ is.side[s] = IF s \in new.absent THEN Missing ELSE OnBench(new, s)
        /\ was.nameless = old.nameless /\ is.nameless = new.nameless
    BY DEF KeptOf
  <1> QED BY <1>1, <1>2 DEF Both, EntriesById

\* The flags of a side are raised for what one list names and the other does not.
LEMMA FlagsOfSide ==
  ASSUME NEW current, NEW s \in BenchSides
  PROVE  /\ First => Appeared[s] \notin BenchFlags(current) /\ Disappeared[s] \notin BenchFlags(current)
         /\ ~First => /\ Appeared[s] \in BenchFlags(current) <=>
                            /\ Both(NewestPoll.bench, current.bench, s)
                            /\ EntriesById(current.bench, s) \ EntriesById(NewestPoll.bench, s) # {}
                      /\ Disappeared[s] \in BenchFlags(current) <=>
                            /\ Both(NewestPoll.bench, current.bench, s)
                            /\ EntriesById(NewestPoll.bench, s) \ EntriesById(current.bench, s) # {}
  <1>1. \A a, b \in BenchSides :
           /\ Appeared[a] = Appeared[b] => a = b
           /\ Disappeared[a] = Disappeared[b] => a = b
           /\ Appeared[a] # Disappeared[b]
           /\ Appeared[a] \notin NoisyFlags /\ Disappeared[a] \notin NoisyFlags
           /\ Appeared[a] # "first_observation" /\ Disappeared[a] # "first_observation"
    BY DEF BenchSides, Appeared, Disappeared, NoisyFlags
  <1>2. CASE First
    BY <1>1, <1>2 DEF BenchFlags
  <1>3. CASE ~First
    <2> DEFINE was == NewestPoll.bench
               is  == current.bench
               compared == {t \in BenchSides : Both(was, is, t)}
               come == {t \in compared : EntriesById(is, t) \ EntriesById(was, t) # {}}
               gone == {t \in compared : EntriesById(was, t) \ EntriesById(is, t) # {}}
    <2>1. PICK few \in SUBSET NoisyFlags :
            BenchFlags(current) = {Appeared[t] : t \in come} \cup {Disappeared[t] : t \in gone} \cup few
      BY <1>3 DEF BenchFlags
    <2>2. come \subseteq BenchSides /\ gone \subseteq BenchSides
      OBVIOUS
    <2>3. s \in come <=> Both(was, is, s) /\ EntriesById(is, s) \ EntriesById(was, s) # {}
      OBVIOUS
    <2>4. s \in gone <=> Both(was, is, s) /\ EntriesById(was, s) \ EntriesById(is, s) # {}
      OBVIOUS
    <2> HIDE DEF come, gone
    <2>5. Appeared[s] \in BenchFlags(current) <=> s \in come
      BY <1>1, <2>1, <2>2
    <2>6. Disappeared[s] \in BenchFlags(current) <=> s \in gone
      BY <1>1, <2>1, <2>2
    <2> QED BY <1>3, <2>3, <2>4, <2>5, <2>6
  <1> QED BY <1>2, <1>3

LEMMA PersistInterchangeKeeps ==
  ASSUME EvidenceInv, NEW payload \in Payloads, PersistInterchange(payload),
         UNCHANGED <<profile, instant, match, signal>>, capture' = Idle
  PROVE  EvidenceInv'
  <1> DEFINE bench == ParseInterchange(payload)
             answer == AnswerOf(payload)
             before == IF First THEN NoAnswer ELSE NewestPoll.answer
             flags == BenchFlags([bench |-> bench])
             told  == flags \ NoisyFlags # {}
             poll  == [bench |-> bench, answer |-> answer, before |-> before,
                       outcome |-> "success", flags |-> flags, raw |-> told]
  <1>1. profile = "interchange" /\ Store(poll, instant, match.local = "LIVE", told)
    BY DEF PersistInterchange
  <1>2. /\ poll.bench = bench /\ poll.answer = answer /\ poll.before = before
        /\ poll.flags = flags
    OBVIOUS
  <1>3. KeptOf(bench, answer)
    <2>1. payload.truth \in Benches
      BY <1>1 DEF Payloads, Contents
    <2>2. payload.truth.on \subseteq Starters
      BY <2>1 DEF Benches
    <2> QED BY <2>2 DEF KeptOf, ParseInterchange, AnswerOf, FieldOf, OnBench
  <1>4. ASSUME NEW s \in BenchSides
        PROVE  /\ (Appeared[s] \in flags => News(answer, before, s) # {}
                                            /\ s \notin answer.absent \cup before.absent)
               /\ (s \notin answer.absent \cup before.absent /\ Surely(answer, before, s) # {}
                    => Appeared[s] \in flags)
               /\ (Disappeared[s] \in flags => News(before, answer, s) # {}
                                               /\ s \notin answer.absent \cup before.absent)
               /\ (s \notin answer.absent \cup before.absent /\ Surely(before, answer, s) # {}
                    => Disappeared[s] \in flags)
    <2>1. CASE First
      <3>1. s \in before.absent
        BY <2>1 DEF NoAnswer
      <3> QED BY <2>1, <3>1, FlagsOfSide
    <2>2. CASE ~First
      <3>1. before = NewestPoll.answer /\ KeptOf(NewestPoll.bench, before)
        BY <1>1, <2>2 DEF EvidenceInv, ListsKept
      <3> DEFINE was == NewestPoll.bench
      <3> HIDE DEF bench, answer, before, was
      <3>2. /\ Both(was, bench, s) <=> s \notin before.absent \cup answer.absent
            /\ Both(was, bench, s) => /\ EntriesById(was, s) = OnBench(before, s) \ before.nameless
                                      /\ EntriesById(bench, s) = OnBench(answer, s) \ answer.nameless
        BY <1>3, <3>1, ComparedWhenThere DEF was
      <3>3. /\ Appeared[s] \in flags <=>
                 Both(was, bench, s) /\ EntriesById(bench, s) \ EntriesById(was, s) # {}
            /\ Disappeared[s] \in flags <=>
                 Both(was, bench, s) /\ EntriesById(was, s) \ EntriesById(bench, s) # {}
        BY <2>2, FlagsOfSide DEF was
      <3> HIDE DEF flags
      <3>4. \A one, other : OnBench(one, s) \ OnBench(other, s) \subseteq OnBench(one, s) \ other.on
        BY DEF OnBench
      <3>5. Appeared[s] \in flags =>
              s \notin answer.absent \cup before.absent /\ News(answer, before, s) # {}
        BY <3>2, <3>3, <3>4 DEF News
      <3>6. Disappeared[s] \in flags =>
              s \notin answer.absent \cup before.absent /\ News(before, answer, s) # {}
        BY <3>2, <3>3, <3>4 DEF News
      <3>7. Surely(answer, before, s) \subseteq
              (OnBench(answer, s) \ answer.nameless) \ (OnBench(before, s) \ before.nameless)
        BY DEF Surely, OnBench
      <3>8. Surely(before, answer, s) \subseteq
              (OnBench(before, s) \ before.nameless) \ (OnBench(answer, s) \ answer.nameless)
        BY DEF Surely, OnBench
      <3> QED BY <3>2, <3>3, <3>5, <3>6, <3>7, <3>8
    <2> QED BY <2>1, <2>2
  <1> HIDE DEF bench, answer, before, flags, told, poll
  <1>5. EvidenceTyped' /\ SignalCurrent' /\ CycleInTime' /\ NewestPoll' = poll
    BY <1>1, LiveNow, StoreTyped DEF NewestPoll
  <1>6. OutagesShow'
    BY <1>1 DEF OutagesShow
  <1>7. ListsKept'
    BY <1>2, <1>3, <1>5 DEF ListsKept
  <1>8. BenchMovesAreGrounded'
    BY <1>2, <1>4, <1>5 DEF BenchMovesAreGrounded, Grounded
  <1> QED BY <1>5, <1>6, <1>7, <1>8 DEF EvidenceInv

LEMMA PersistCommentaryKeeps ==
  ASSUME EvidenceInv, capture.outcome = "success", NEW payload, PersistCommentary(payload),
         UNCHANGED <<profile, instant, match, signal>>, capture' = Idle
  PROVE  EvidenceInv'
  <1>1. PICK flags, raw : /\ First => flags # {}
                          /\ Recovered => flags # {}
                          /\ Store(Row(flags, raw), instant, match.local = "LIVE", flags # {})
    BY DEF PersistCommentary
  <1>2. Row(flags, raw).outcome = "success" /\ profile = "commentary"
    BY DEF Row, PersistCommentary
  <1>3. /\ EvidenceTyped' /\ SignalCurrent' /\ CycleInTime' /\ evidence'.newest.outcome = "success"
        /\ evidence'.told = IF flags # {} THEN "success" ELSE evidence.told
    BY <1>1, <1>2, LiveNow, StoreTyped
  <1>4. flags = {} => evidence.told = "success"
    BY <1>1, <1>2 DEF Recovered, NewestPoll, EvidenceInv, OutagesShow
  <1> QED BY <1>2, <1>3, <1>4 DEF EvidenceInv, OutagesShow, ListsKept, BenchMovesAreGrounded

LEMMA PersistFailureKeeps ==
  ASSUME EvidenceInv, PersistFailure, UNCHANGED <<profile, instant, match, signal>>,
         capture' = Idle
  PROVE  EvidenceInv'
  <1> DEFINE changed == NewestPoll.outcome # capture.outcome
             flags   == {f \in {capture.outcome} : changed}
  <1>1. CASE profile = "commentary"
    <2>1. Store(Row(flags, FALSE), instant, match.local = "LIVE", changed)
      BY <1>1 DEF PersistFailure
    <2>2. Row(flags, FALSE).outcome = capture.outcome
      BY DEF Row
    <2> HIDE DEF flags
    <2>3. /\ EvidenceTyped' /\ SignalCurrent' /\ CycleInTime'
          /\ evidence'.newest.outcome = capture.outcome
          /\ evidence'.told = IF changed THEN capture.outcome ELSE evidence.told
      BY <2>1, <2>2, LiveNow, StoreTyped
    <2>4. ~changed => evidence.told = capture.outcome
      BY <1>1 DEF NewestPoll, EvidenceInv, OutagesShow
    <2> QED BY <1>1, <2>3, <2>4 DEF EvidenceInv, OutagesShow, ListsKept, BenchMovesAreGrounded
  <1>2. CASE profile # "commentary"
    <2>1. UNCHANGED evidence
      BY <1>2 DEF PersistFailure
    <2>2. CycleInTime'
      BY DEF CycleInTime
    <2> QED BY <2>1, <2>2, CycleMovesKeeps
  <1> QED BY <1>1, <1>2

LEMMA ReparseKeeps ==
  ASSUME EvidenceInv, Reparse
  PROVE  EvidenceInv'
  <1>1. /\ profile' = "match_clock" /\ UNCHANGED <<instant, match, capture, signal>>
        /\ evidence' = [evidence EXCEPT !.newest.clock = LatestPeriod(NewestPoll.truth, parser)]
    BY DEF Reparse
  <1>2. /\ evidence'.polled = evidence.polled /\ evidence'.lastLive = evidence.lastLive
        /\ evidence' = [polled |-> evidence'.polled, newest |-> evidence'.newest,
                        lastLive |-> evidence'.lastLive, told |-> evidence'.told]
    BY <1>1 DEF EvidenceInv, EvidenceTyped
  <1>3. EvidenceTyped' /\ SignalCurrent' /\ CycleInTime'
    BY <1>1, <1>2 DEF EvidenceInv, EvidenceTyped, SignalCurrent, CaptureDue, InTolerance, CycleInTime
  <1> QED BY <1>1, <1>3 DEF EvidenceInv, OutagesShow, ListsKept, BenchMovesAreGrounded

LEMMA EvidenceHolds == EvidenceInit => EvidenceInv
  <1> SUFFICES ASSUME EvidenceInit PROVE EvidenceInv
    OBVIOUS
  <1>1. /\ instant = 0 /\ signal = -1 /\ capture = Idle
        /\ match.local = "SCHEDULED" /\ match.upstream = "SCHEDULED"
        /\ evidence = [polled |-> 0, newest |-> NoPoll, lastLive |-> -1, told |-> "none"]
    BY DEF EvidenceInit, NoInstant
  <1>2. EvidenceTyped
    BY <1>1 DEF EvidenceTyped
  <1>3. SignalCurrent /\ CycleInTime
    BY <1>1, CaptureAssumption DEF SignalCurrent, CaptureDue, InTolerance, CycleInTime, StartTime
  <1>4. OutagesShow /\ ListsKept /\ BenchMovesAreGrounded
    BY <1>1 DEF OutagesShow, ListsKept, BenchMovesAreGrounded, First, NoPoll
  <1> QED BY <1>2, <1>3, <1>4 DEF EvidenceInv

LEMMA EvidenceStep == EvidenceInv /\ [EvidenceNext]_evidenceVars => EvidenceInv'
  <1> SUFFICES ASSUME EvidenceInv, [EvidenceNext]_evidenceVars
               PROVE  EvidenceInv'
    OBVIOUS
  <1>1. CASE StartCycle
    BY <1>1, StartKeeps
  <1>2. CASE AnswerCycle
    BY <1>2, AnswerKeeps
  <1>3. CASE Persist
    <2>1. /\ capture.at = "answered" /\ capture' = Idle
          /\ UNCHANGED <<profile, instant, match, signal>>
      BY <1>3 DEF Persist
    <2>2. CASE capture.outcome # "success" /\ PersistFailure
      BY <2>1, <2>2, PersistFailureKeeps
    <2>3. ASSUME capture.outcome = "success", NEW payload \in Payloads,
                 PersistClock(payload) \/ PersistInterchange(payload) \/ PersistCommentary(payload)
          PROVE  EvidenceInv'
      BY <2>1, <2>3, PersistClockKeeps, PersistInterchangeKeeps, PersistCommentaryKeeps
    <2> QED BY <1>3, <2>2, <2>3 DEF Persist
  <1>4. CASE Reparse
    BY <1>4, ReparseKeeps
  <1>5. CASE Abort
    <2>1. CycleInTime' /\ UNCHANGED <<profile, instant, match, evidence, signal>>
      BY <1>5 DEF Abort, CycleInTime
    <2> QED BY <2>1, CycleMovesKeeps
  <1>6. CASE MatchMoves
    <2>1. /\ instant' = instant /\ signal' = Signal(match', instant')
          /\ UNCHANGED <<profile, capture, evidence>>
      BY <1>6 DEF MatchMoves
    <2> QED BY <2>1, WorldMovesKeeps DEF EvidenceInv, EvidenceTyped
  <1>7. CASE InstantPasses
    <2>1. /\ instant' = instant + 1 /\ signal' = Signal(match', instant')
          /\ UNCHANGED <<profile, capture, evidence>>
      BY <1>7 DEF InstantPasses, Signal, CaptureDue, InTolerance
    <2> QED BY <2>1, WorldMovesKeeps DEF EvidenceInv, EvidenceTyped
  <1>8. CASE UNCHANGED evidenceVars
    <2>1. CycleInTime' /\ UNCHANGED <<profile, instant, match, evidence, signal>>
      BY <1>8 DEF evidenceVars, CycleInTime, EvidenceInv
    <2> QED BY <2>1, CycleMovesKeeps
  <1> QED BY <1>1, <1>2, <1>3, <1>4, <1>5, <1>6, <1>7, <1>8 DEF EvidenceNext

\* An answer may be stored long after its cycle started, when the match has moved on: no
\* cycle starts more than the grace after the last instant that called for one.
THEOREM CapturesClose == EvidenceSpec => []CaptureCloses
  <1>1. EvidenceInv => CaptureCloses
    BY DEF EvidenceInv, CycleInTime, CaptureCloses
  <1> QED BY <1>1, EvidenceHolds, EvidenceStep, PTL DEF EvidenceSpec

\* Whatever fields are absent, whichever bench entries are nameless, and with failed polls and
\* processes that die between two polls: the reports show the outcomes as they were, every move
\* that both lists name, and none without a move or a nameless entry on that side.
THEOREM ReportsHold == EvidenceSpec => []ReportsAreGrounded
  <1>1. EvidenceInv => ReportsAreGrounded
    BY DEF EvidenceInv, ReportsAreGrounded
  <1> QED BY <1>1, EvidenceHolds, EvidenceStep, PTL DEF EvidenceSpec

-----------------------------------------------------------------------------
(* The write lane.                                                              *)

Queueing == {t \in Threads : thread[t].at \in {"queued", "claimed"}}
Writing  == {t \in Threads : thread[t].at \in {"counted", "active", "finished"}}

\* What a thread counts for, as pending and as active.
AsPending(step) == IF step \in {"queued", "claimed"} THEN 1 ELSE 0
AsActive(step)  == IF step \in {"counted", "active", "finished"} THEN 1 ELSE 0

ThreadRows == [at : Steps, guard : BOOLEAN, calls : Nat]
LaneRows   == [accepting : BOOLEAN, pending : Int, active : Int, holder : Threads \cup {NoThread}]
ShutdownRows == [phase : {"none", "draining", "drained", "timed out"}, drains : Nat]

LaneTyped ==
  /\ thread \in [Threads -> ThreadRows] /\ lane \in LaneRows
  /\ shutdown \in ShutdownRows

\* The counters never say less than there is: a call that was left counted by an exception
\* out of the handler only makes them say more.
CountedEnough ==
  /\ IsFiniteSet(Queueing) /\ IsFiniteSet(Writing)
  /\ lane.pending >= Cardinality(Queueing)
  /\ lane.active >= Cardinality(Writing)

LaneInv ==
  /\ LaneTyped /\ CountedEnough /\ DrainedIsQuiet
  /\ shutdown.phase # "none" => ~lane.accepting

\* One thread goes from step to step; the sets the counters are about follow.
LEMMA CountsFollow ==
  ASSUME LaneInv, NEW t \in Threads, NEW step \in Steps, NEW pending \in Int, NEW active \in Int,
         \A u \in Threads \ {t} : thread'[u].at = thread[u].at, thread'[t].at = step,
         pending >= lane.pending + AsPending(step) - AsPending(thread[t].at),
         active >= lane.active + AsActive(step) - AsActive(thread[t].at)
  PROVE  /\ IsFiniteSet(Queueing') /\ IsFiniteSet(Writing')
         /\ pending >= Cardinality(Queueing') /\ active >= Cardinality(Writing')
  <1>1. /\ IsFiniteSet(Queueing) /\ IsFiniteSet(Writing)
        /\ Cardinality(Queueing) \in Nat /\ Cardinality(Writing) \in Nat
        /\ lane.pending >= Cardinality(Queueing) /\ lane.active >= Cardinality(Writing)
        /\ lane.pending \in Int /\ lane.active \in Int
    BY FS_CardinalityType DEF LaneInv, CountedEnough, LaneTyped, LaneRows
  <1>2. ASSUME NEW A, NEW B, IsFiniteSet(A), NEW in \in BOOLEAN, t \in B <=> in,
               \A u : u # t => (u \in B <=> u \in A)
        PROVE  /\ IsFiniteSet(B) /\ Cardinality(B) \in Nat
               /\ Cardinality(B) = Cardinality(A) + (IF in THEN 1 ELSE 0) - (IF t \in A THEN 1 ELSE 0)
    <2>1. Cardinality(A) \in Nat
      BY <1>2, FS_CardinalityType
    <2>2. CASE in /\ t \notin A
      <3>1. B = A \cup {t}
        BY <1>2, <2>2
      <3>2. IsFiniteSet(B) /\ Cardinality(B) = Cardinality(A) + 1
        BY <1>2, <2>2, <3>1, FS_AddElement
      <3> QED BY <2>1, <2>2, <3>2
    <2>3. CASE ~in /\ t \in A
      <3>1. B = A \ {t}
        BY <1>2, <2>3
      <3>2. IsFiniteSet(B) /\ Cardinality(B) = Cardinality(A) - 1
        BY <1>2, <2>3, <3>1, FS_RemoveElement
      <3>3. Cardinality(B) \in Nat
        BY <3>2, FS_CardinalityType
      <3> QED BY <2>1, <2>3, <3>2, <3>3
    <2>4. CASE in <=> t \in A
      <3>1. \A u : u \in B <=> u \in A
        BY <1>2, <2>4
      <3>2. B = A
        BY <3>1
      <3> QED BY <1>2, <2>1, <2>4, <3>2
    <2> QED BY <1>2, <2>2, <2>3, <2>4
  <1>3. /\ \A u : u # t => (u \in Queueing' <=> u \in Queueing)
        /\ \A u : u # t => (u \in Writing' <=> u \in Writing)
        /\ t \in Queueing' <=> AsPending(step) = 1
        /\ t \in Writing' <=> AsActive(step) = 1
        /\ t \in Queueing <=> AsPending(thread[t].at) = 1
        /\ t \in Writing <=> AsActive(thread[t].at) = 1
    BY DEF Queueing, Writing, AsPending, AsActive
  <1>0. \A s : AsPending(s) \in {0, 1} /\ AsActive(s) \in {0, 1}
    BY DEF AsPending, AsActive
  <1>4. /\ IsFiniteSet(Queueing') /\ Cardinality(Queueing') \in Nat
        /\ Cardinality(Queueing') = Cardinality(Queueing) + AsPending(step) - AsPending(thread[t].at)
    <2>1. /\ IsFiniteSet(Queueing') /\ Cardinality(Queueing') \in Nat
          /\ Cardinality(Queueing') = Cardinality(Queueing) + (IF AsPending(step) = 1 THEN 1 ELSE 0)
                                       - (IF t \in Queueing THEN 1 ELSE 0)
      BY <1>1, <1>2, <1>3
    <2> QED BY <1>0, <1>1, <1>3, <2>1
  <1>5. /\ IsFiniteSet(Writing') /\ Cardinality(Writing') \in Nat
        /\ Cardinality(Writing') = Cardinality(Writing) + AsActive(step) - AsActive(thread[t].at)
    <2>1. /\ IsFiniteSet(Writing') /\ Cardinality(Writing') \in Nat
          /\ Cardinality(Writing') = Cardinality(Writing) + (IF AsActive(step) = 1 THEN 1 ELSE 0)
                                      - (IF t \in Writing THEN 1 ELSE 0)
      BY <1>1, <1>2, <1>3
    <2> QED BY <1>0, <1>1, <1>3, <2>1
  <1>6. pending >= Cardinality(Queueing')
    BY <1>0, <1>1, <1>4
  <1>7. active >= Cardinality(Writing')
    BY <1>0, <1>1, <1>5
  <1> QED BY <1>4, <1>5, <1>6, <1>7

\* A step of a thread in the lane: no thread gets back in once the lane was drained.
LEMMA ThreadMovesKeeps ==
  ASSUME LaneInv, NEW t \in Threads, NEW next \in ThreadRows,
         thread' = [thread EXCEPT ![t] = next], lane' \in LaneRows, shutdown' = shutdown,
         lane'.pending >= lane.pending + AsPending(next.at) - AsPending(thread[t].at),
         lane'.active >= lane.active + AsActive(next.at) - AsActive(thread[t].at),
         lane'.accepting = lane.accepting,
         next.at \in Outside \/ thread[t].at \notin Outside \/ lane.accepting
  PROVE  LaneInv'
  <1>1. /\ thread' \in [Threads -> ThreadRows] /\ thread'[t] = next
        /\ \A u \in Threads \ {t} : thread'[u] = thread[u]
    BY DEF LaneInv, LaneTyped
  <1>2. LaneTyped'
    BY <1>1 DEF LaneInv, LaneTyped
  <1>3. CountedEnough'
    <2>1. lane'.pending \in Int /\ lane'.active \in Int /\ next.at \in Steps
      BY DEF LaneRows, ThreadRows
    <2> QED BY <1>1, <2>1, CountsFollow DEF CountedEnough
  <1>4. DrainedIsQuiet'
    BY <1>1 DEF LaneInv, DrainedIsQuiet
  <1> QED BY <1>2, <1>3, <1>4 DEF LaneInv

LEMMA LaneTypes ==
  ASSUME LaneInv, NEW t \in Threads
  PROVE  /\ lane \in LaneRows /\ thread[t] \in ThreadRows
         /\ lane.pending \in Int /\ lane.active \in Int
  BY DEF LaneInv, LaneTyped, LaneRows

LEMMA EnterKeeps ==
  ASSUME LaneInv, NEW t \in Threads, Enter(t)
  PROVE  LaneInv'
  <1>0. /\ lane \in LaneRows /\ thread[t] \in ThreadRows
        /\ lane.pending \in Int /\ lane.active \in Int
        /\ lane.pending + 1 \in Int /\ lane.pending - 1 \in Int
        /\ lane.active + 1 \in Int /\ lane.active - 1 \in Int
        /\ thread[t].calls + 1 \in Nat
    <2>1. lane \in LaneRows /\ thread[t] \in ThreadRows
      BY LaneTypes
    <2>2. lane.pending \in Int /\ lane.active \in Int /\ thread[t].calls \in Nat
      BY <2>1 DEF LaneRows, ThreadRows
    <2> QED BY <2>1, <2>2
  <1> DEFINE next == [thread[t] EXCEPT !.at = "queued", !.calls = thread[t].calls + 1]
  <1>1. /\ thread[t].at = "idle" /\ lane.accepting /\ shutdown' = shutdown
        /\ lane' = [lane EXCEPT !.pending = lane.pending + 1]
        /\ thread' = [thread EXCEPT ![t] = next]
    BY DEF Enter, At, LaneInv, LaneTyped
  <1>2. next \in ThreadRows /\ next.at = "queued"
    BY <1>0 DEF ThreadRows, Steps
  <1>3. /\ lane' \in LaneRows /\ lane'.pending = lane.pending + 1 /\ lane'.active = lane.active
        /\ lane'.accepting = lane.accepting
    BY <1>1, <1>0 DEF LaneRows
  <1> HIDE DEF next
  <1>4. /\ lane'.pending >= lane.pending + AsPending(next.at) - AsPending(thread[t].at)
        /\ lane'.active >= lane.active + AsActive(next.at) - AsActive(thread[t].at)
    BY <1>0, <1>1, <1>2, <1>3 DEF AsPending, AsActive
  <1> QED BY <1>1, <1>2, <1>3, <1>4, ThreadMovesKeeps

LEMMA NestedKeeps ==
  ASSUME LaneInv, NEW t \in Threads, EnterNested(t)
  PROVE  LaneInv'
  <1>0. /\ lane \in LaneRows /\ thread[t] \in ThreadRows
        /\ lane.pending \in Int /\ lane.active \in Int
        /\ lane.pending + 1 \in Int /\ lane.pending - 1 \in Int
        /\ lane.active + 1 \in Int /\ lane.active - 1 \in Int
        /\ thread[t].calls + 1 \in Nat
    <2>1. lane \in LaneRows /\ thread[t] \in ThreadRows
      BY LaneTypes
    <2>2. lane.pending \in Int /\ lane.active \in Int /\ thread[t].calls \in Nat
      BY <2>1 DEF LaneRows, ThreadRows
    <2> QED BY <2>1, <2>2
  <1>1. thread[t].at = "active" /\ shutdown' = shutdown /\ "active" \notin Outside
    BY DEF EnterNested, At, Outside
  <1>2. CASE Goes(t, "finished") /\ UNCHANGED lane
    <2> DEFINE next == [thread[t] EXCEPT !.at = "finished"]
    <2>1. thread' = [thread EXCEPT ![t] = next] /\ lane' = lane
      BY <1>2 DEF Goes
    <2>2. next \in ThreadRows /\ next.at = "finished"
      BY <1>0 DEF ThreadRows, Steps
    <2> HIDE DEF next
    <2>3. /\ lane'.pending >= lane.pending + AsPending(next.at) - AsPending(thread[t].at)
          /\ lane'.active >= lane.active + AsActive(next.at) - AsActive(thread[t].at)
      BY <1>0, <1>1, <2>1, <2>2 DEF AsPending, AsActive
    <2> QED BY <1>0, <1>1, <2>1, <2>2, <2>3, ThreadMovesKeeps
  <1>3. CASE Queue(t)
    <2> DEFINE next == [thread[t] EXCEPT !.at = "queued"]
    <2>1. thread' = [thread EXCEPT ![t] = next] /\ lane' = [lane EXCEPT !.pending = lane.pending + 1]
      BY <1>3 DEF Queue, Goes
    <2>2. next \in ThreadRows /\ next.at = "queued"
      BY <1>0 DEF ThreadRows, Steps
    <2>3. /\ lane' \in LaneRows /\ lane'.pending = lane.pending + 1 /\ lane'.active = lane.active
          /\ lane'.accepting = lane.accepting
      BY <2>1, <1>0 DEF LaneRows
    <2> HIDE DEF next
    <2>4. /\ lane'.pending >= lane.pending + AsPending(next.at) - AsPending(thread[t].at)
          /\ lane'.active >= lane.active + AsActive(next.at) - AsActive(thread[t].at)
      BY <1>0, <1>1, <2>1, <2>2, <2>3 DEF AsPending, AsActive
    <2> QED BY <1>1, <2>1, <2>2, <2>3, <2>4, ThreadMovesKeeps
  <1> QED BY <1>2, <1>3 DEF EnterNested

LEMMA ClaimKeeps ==
  ASSUME LaneInv, NEW t \in Threads, Claim(t)
  PROVE  LaneInv'
  <1>0. /\ lane \in LaneRows /\ thread[t] \in ThreadRows
        /\ lane.pending \in Int /\ lane.active \in Int
        /\ lane.pending + 1 \in Int /\ lane.pending - 1 \in Int
        /\ lane.active + 1 \in Int /\ lane.active - 1 \in Int
        /\ thread[t].calls + 1 \in Nat
    <2>1. lane \in LaneRows /\ thread[t] \in ThreadRows
      BY LaneTypes
    <2>2. lane.pending \in Int /\ lane.active \in Int /\ thread[t].calls \in Nat
      BY <2>1 DEF LaneRows, ThreadRows
    <2> QED BY <2>1, <2>2
  <1> DEFINE next == [thread[t] EXCEPT !.at = "claimed"]
  <1>1. /\ thread[t].at = "queued" /\ shutdown' = shutdown
        /\ lane' = [lane EXCEPT !.holder = t]
        /\ thread' = [thread EXCEPT ![t] = next]
    BY DEF Claim, At, Goes, LaneInv, LaneTyped
  <1>2. next \in ThreadRows /\ next.at = "claimed"
    BY <1>0 DEF ThreadRows, Steps
  <1>3. /\ lane' \in LaneRows /\ lane'.pending = lane.pending /\ lane'.active = lane.active
        /\ lane'.accepting = lane.accepting
    BY <1>1, <1>0 DEF LaneRows
  <1>4. thread[t].at \notin Outside \/ next.at \in Outside
    BY <1>1, <1>2 DEF Outside
  <1> HIDE DEF next
  <1>5. /\ lane'.pending >= lane.pending + AsPending(next.at) - AsPending(thread[t].at)
        /\ lane'.active >= lane.active + AsActive(next.at) - AsActive(thread[t].at)
    BY <1>0, <1>1, <1>2, <1>3 DEF AsPending, AsActive
  <1> QED BY <1>1, <1>2, <1>3, <1>4, <1>5, ThreadMovesKeeps

LEMMA CountKeeps ==
  ASSUME LaneInv, NEW t \in Threads, Count(t)
  PROVE  LaneInv'
  <1>0. /\ lane \in LaneRows /\ thread[t] \in ThreadRows
        /\ lane.pending \in Int /\ lane.active \in Int
        /\ lane.pending + 1 \in Int /\ lane.pending - 1 \in Int
        /\ lane.active + 1 \in Int /\ lane.active - 1 \in Int
        /\ thread[t].calls + 1 \in Nat
    <2>1. lane \in LaneRows /\ thread[t] \in ThreadRows
      BY LaneTypes
    <2>2. lane.pending \in Int /\ lane.active \in Int /\ thread[t].calls \in Nat
      BY <2>1 DEF LaneRows, ThreadRows
    <2> QED BY <2>1, <2>2
  <1> DEFINE next == [thread[t] EXCEPT !.at = "counted"]
  <1>1. /\ thread[t].at = "claimed" /\ shutdown' = shutdown
        /\ lane' = [lane EXCEPT !.pending = lane.pending - 1, !.active = lane.active + 1]
        /\ thread' = [thread EXCEPT ![t] = next]
    BY DEF Count, At, Goes, LaneInv, LaneTyped
  <1>2. next \in ThreadRows /\ next.at = "counted"
    BY <1>0 DEF ThreadRows, Steps
  <1>3. /\ lane' \in LaneRows /\ lane'.pending = lane.pending - 1 /\ lane'.active = lane.active + 1
        /\ lane'.accepting = lane.accepting
    BY <1>1, <1>0 DEF LaneRows
  <1>4. thread[t].at \notin Outside \/ next.at \in Outside
    BY <1>1, <1>2 DEF Outside
  <1> HIDE DEF next
  <1>5. /\ lane'.pending >= lane.pending + AsPending(next.at) - AsPending(thread[t].at)
        /\ lane'.active >= lane.active + AsActive(next.at) - AsActive(thread[t].at)
    BY <1>0, <1>1, <1>2, <1>3 DEF AsPending, AsActive
  <1> QED BY <1>1, <1>2, <1>3, <1>4, <1>5, ThreadMovesKeeps

LEMMA ActivateKeeps ==
  ASSUME LaneInv, NEW t \in Threads, Activate(t)
  PROVE  LaneInv'
  <1>0. /\ lane \in LaneRows /\ thread[t] \in ThreadRows
        /\ lane.pending \in Int /\ lane.active \in Int
        /\ lane.pending + 1 \in Int /\ lane.pending - 1 \in Int
        /\ lane.active + 1 \in Int /\ lane.active - 1 \in Int
        /\ thread[t].calls + 1 \in Nat
    <2>1. lane \in LaneRows /\ thread[t] \in ThreadRows
      BY LaneTypes
    <2>2. lane.pending \in Int /\ lane.active \in Int /\ thread[t].calls \in Nat
      BY <2>1 DEF LaneRows, ThreadRows
    <2> QED BY <2>1, <2>2
  <1> DEFINE next == [thread[t] EXCEPT !.at = "active", !.guard = TRUE]
  <1>1. /\ thread[t].at = "counted" /\ shutdown' = shutdown
        /\ lane' = lane
        /\ thread' = [thread EXCEPT ![t] = next]
    BY DEF Activate, At, Goes, LaneInv, LaneTyped
  <1>2. next \in ThreadRows /\ next.at = "active"
    BY <1>0 DEF ThreadRows, Steps
  <1>3. /\ lane' \in LaneRows /\ lane'.pending = lane.pending /\ lane'.active = lane.active
        /\ lane'.accepting = lane.accepting
    BY <1>1, <1>0 DEF LaneRows
  <1>4. thread[t].at \notin Outside \/ next.at \in Outside
    BY <1>1, <1>2 DEF Outside
  <1> HIDE DEF next
  <1>5. /\ lane'.pending >= lane.pending + AsPending(next.at) - AsPending(thread[t].at)
        /\ lane'.active >= lane.active + AsActive(next.at) - AsActive(thread[t].at)
    BY <1>0, <1>1, <1>2, <1>3 DEF AsPending, AsActive
  <1> QED BY <1>1, <1>2, <1>3, <1>4, <1>5, ThreadMovesKeeps

LEMMA FinishKeeps ==
  ASSUME LaneInv, NEW t \in Threads, Finish(t)
  PROVE  LaneInv'
  <1>0. /\ lane \in LaneRows /\ thread[t] \in ThreadRows
        /\ lane.pending \in Int /\ lane.active \in Int
        /\ lane.pending + 1 \in Int /\ lane.pending - 1 \in Int
        /\ lane.active + 1 \in Int /\ lane.active - 1 \in Int
        /\ thread[t].calls + 1 \in Nat
    <2>1. lane \in LaneRows /\ thread[t] \in ThreadRows
      BY LaneTypes
    <2>2. lane.pending \in Int /\ lane.active \in Int /\ thread[t].calls \in Nat
      BY <2>1 DEF LaneRows, ThreadRows
    <2> QED BY <2>1, <2>2
  <1> DEFINE next == [thread[t] EXCEPT !.at = "finished"]
  <1>1. /\ thread[t].at = "active" /\ shutdown' = shutdown
        /\ lane' = lane
        /\ thread' = [thread EXCEPT ![t] = next]
    BY DEF Finish, At, Goes, LaneInv, LaneTyped
  <1>2. next \in ThreadRows /\ next.at = "finished"
    BY <1>0 DEF ThreadRows, Steps
  <1>3. /\ lane' \in LaneRows /\ lane'.pending = lane.pending /\ lane'.active = lane.active
        /\ lane'.accepting = lane.accepting
    BY <1>1, <1>0 DEF LaneRows
  <1>4. thread[t].at \notin Outside \/ next.at \in Outside
    BY <1>1, <1>2 DEF Outside
  <1> HIDE DEF next
  <1>5. /\ lane'.pending >= lane.pending + AsPending(next.at) - AsPending(thread[t].at)
        /\ lane'.active >= lane.active + AsActive(next.at) - AsActive(thread[t].at)
    BY <1>0, <1>1, <1>2, <1>3 DEF AsPending, AsActive
  <1> QED BY <1>1, <1>2, <1>3, <1>4, <1>5, ThreadMovesKeeps

LEMMA SettleKeeps ==
  ASSUME LaneInv, NEW t \in Threads, Settle(t)
  PROVE  LaneInv'
  <1>0. /\ lane \in LaneRows /\ thread[t] \in ThreadRows
        /\ lane.pending \in Int /\ lane.active \in Int
        /\ lane.pending + 1 \in Int /\ lane.pending - 1 \in Int
        /\ lane.active + 1 \in Int /\ lane.active - 1 \in Int
        /\ thread[t].calls + 1 \in Nat
    <2>1. lane \in LaneRows /\ thread[t] \in ThreadRows
      BY LaneTypes
    <2>2. lane.pending \in Int /\ lane.active \in Int /\ thread[t].calls \in Nat
      BY <2>1 DEF LaneRows, ThreadRows
    <2> QED BY <2>1, <2>2
  <1> DEFINE next == [thread[t] EXCEPT !.at = "settled", !.guard = FALSE]
  <1>1. /\ thread[t].at = "finished" /\ shutdown' = shutdown
        /\ lane' = [lane EXCEPT !.active = lane.active - 1]
        /\ thread' = [thread EXCEPT ![t] = next]
    BY DEF Settle, At, Goes, LaneInv, LaneTyped
  <1>2. next \in ThreadRows /\ next.at = "settled"
    BY <1>0 DEF ThreadRows, Steps
  <1>3. /\ lane' \in LaneRows /\ lane'.pending = lane.pending /\ lane'.active = lane.active - 1
        /\ lane'.accepting = lane.accepting
    BY <1>1, <1>0 DEF LaneRows
  <1>4. thread[t].at \notin Outside \/ next.at \in Outside
    BY <1>1, <1>2 DEF Outside
  <1> HIDE DEF next
  <1>5. /\ lane'.pending >= lane.pending + AsPending(next.at) - AsPending(thread[t].at)
        /\ lane'.active >= lane.active + AsActive(next.at) - AsActive(thread[t].at)
    BY <1>0, <1>1, <1>2, <1>3 DEF AsPending, AsActive
  <1> QED BY <1>1, <1>2, <1>3, <1>4, <1>5, ThreadMovesKeeps

LEMMA ReleaseKeeps ==
  ASSUME LaneInv, NEW t \in Threads, Release(t)
  PROVE  LaneInv'
  <1>0. /\ lane \in LaneRows /\ thread[t] \in ThreadRows
        /\ lane.pending \in Int /\ lane.active \in Int
        /\ lane.pending + 1 \in Int /\ lane.pending - 1 \in Int
        /\ lane.active + 1 \in Int /\ lane.active - 1 \in Int
        /\ thread[t].calls + 1 \in Nat
    <2>1. lane \in LaneRows /\ thread[t] \in ThreadRows
      BY LaneTypes
    <2>2. lane.pending \in Int /\ lane.active \in Int /\ thread[t].calls \in Nat
      BY <2>1 DEF LaneRows, ThreadRows
    <2> QED BY <2>1, <2>2
  <1> DEFINE next == [thread[t] EXCEPT !.at = "idle"]
  <1>1. /\ thread[t].at = "settled" /\ shutdown' = shutdown
        /\ lane' = [lane EXCEPT !.holder = NoThread]
        /\ thread' = [thread EXCEPT ![t] = next]
    BY DEF Release, At, Goes, LaneInv, LaneTyped
  <1>2. next \in ThreadRows /\ next.at = "idle"
    BY <1>0 DEF ThreadRows, Steps
  <1>3. /\ lane' \in LaneRows /\ lane'.pending = lane.pending /\ lane'.active = lane.active
        /\ lane'.accepting = lane.accepting
    BY <1>1, <1>0 DEF LaneRows
  <1>4. thread[t].at \notin Outside \/ next.at \in Outside
    BY <1>1, <1>2 DEF Outside
  <1> HIDE DEF next
  <1>5. /\ lane'.pending >= lane.pending + AsPending(next.at) - AsPending(thread[t].at)
        /\ lane'.active >= lane.active + AsActive(next.at) - AsActive(thread[t].at)
    BY <1>0, <1>1, <1>2, <1>3 DEF AsPending, AsActive
  <1> QED BY <1>1, <1>2, <1>3, <1>4, <1>5, ThreadMovesKeeps

\* What the handler leaves of the main thread's call.
LEMMA UnwindKeeps ==
  ASSUME LaneInv, Unwind,
         shutdown' \in ShutdownRows
  PROVE  /\ LaneTyped' /\ CountedEnough' /\ lane'.accepting = lane.accepting
         /\ \A t \in Threads : thread[t].at \in Outside => thread'[t].at \in Outside
  <1>1. CASE Main \notin Threads
    <2>1. UNCHANGED <<lane, thread>>
      BY <1>1 DEF Unwind
    <2> QED BY <2>1 DEF LaneInv, LaneTyped, CountedEnough, Queueing, Writing
  <1>2. CASE Main \in Threads
    <2>1. /\ thread' = [thread EXCEPT ![Main].at = "idle", ![Main].guard = FALSE]
          /\ lane' = [lane EXCEPT !.holder = IF HoldsLock(Main) THEN NoThread ELSE lane.holder,
                                  !.active = IF InTry(Main) THEN lane.active - 1 ELSE lane.active]
      BY <1>2 DEF Unwind, Unwound, LaneInv, LaneTyped
    <2>2. LaneTyped'
      <3>1. thread' \in [Threads -> ThreadRows]
        BY <2>1 DEF LaneInv, LaneTyped, ThreadRows, Steps
      <3>2. lane' \in LaneRows
        <4> DEFINE holder == IF HoldsLock(Main) THEN NoThread ELSE lane.holder
                   active == IF InTry(Main) THEN lane.active - 1 ELSE lane.active
        <4>1. lane \in LaneRows
          BY DEF LaneInv, LaneTyped
        <4>2. lane.active \in Int /\ lane.holder \in Threads \cup {NoThread}
          BY <4>1 DEF LaneRows
        <4>5. lane.active - 1 \in Int
          BY <4>2
        <4>3. holder \in Threads \cup {NoThread} /\ active \in Int
          BY <4>2, <4>5
        <4>4. lane' = [lane EXCEPT !.holder = holder, !.active = active]
          BY <2>1
        <4> HIDE DEF holder, active
        <4> QED BY <4>1, <4>3, <4>4 DEF LaneRows
      <3> QED BY <3>1, <3>2 DEF LaneTyped
    <2>3. /\ thread'[Main].at = "idle" /\ lane'.pending = lane.pending
          /\ lane'.active = IF InTry(Main) THEN lane.active - 1 ELSE lane.active
          /\ lane'.accepting = lane.accepting
          /\ \A u \in Threads \ {Main} : thread'[u].at = thread[u].at
      BY <1>2, <2>1 DEF LaneInv, LaneTyped, LaneRows, ThreadRows
    <2>5. /\ lane.pending \in Int /\ lane.active \in Int
          /\ lane'.pending \in Int /\ lane'.active \in Int /\ "idle" \in Steps
      BY <2>2 DEF LaneInv, LaneTyped, LaneRows, Steps
    <2>4. \A step : AsPending(step) \in 0 .. 1 /\ AsActive(step) \in 0 .. 1
      BY DEF AsPending, AsActive
    <2>6. lane'.pending >= lane.pending + AsPending("idle") - AsPending(thread[Main].at)
      <3>1. AsPending("idle") = 0
        BY DEF AsPending
      <3>2. PICK n \in 0 .. 1 : n = AsPending(thread[Main].at)
        BY <2>4
      <3>3. lane'.pending >= lane.pending + 0 - n
        BY <2>3, <2>5
      <3> QED BY <3>1, <3>2, <3>3
    <2>7. lane'.active >= lane.active + AsActive("idle") - AsActive(thread[Main].at)
      <3>1. AsActive("idle") = 0
        BY DEF AsActive
      <3>2. PICK n \in 0 .. 1 : n = AsActive(thread[Main].at)
        BY <2>4
      <3>3. InTry(Main) => n = 1
        BY <3>2 DEF AsActive, InTry
      <3>4. lane'.active >= lane.active + 0 - n
        BY <2>3, <2>5, <3>3
      <3> QED BY <3>1, <3>2, <3>4
    <2>8. CountedEnough'
      BY <1>2, <2>3, <2>5, <2>6, <2>7, CountsFollow DEF CountedEnough
    <2> QED BY <2>2, <2>3, <2>8 DEF Outside
  <1> QED BY <1>1, <1>2

LEMMA DrainKeeps ==
  ASSUME LaneInv, BeginDrain \/ Drained \/ TimeOut
  PROVE  LaneInv'
  <1>1. CASE BeginDrain
    <2>1. /\ thread' = thread /\ lane' = [lane EXCEPT !.accepting = FALSE]
          /\ shutdown' = [phase |-> "draining", drains |-> shutdown.drains + 1]
      BY <1>1 DEF BeginDrain
    <2>2. /\ lane' \in LaneRows /\ lane'.pending = lane.pending /\ lane'.active = lane.active
          /\ ~lane'.accepting
      <3>1. lane \in LaneRows
        BY DEF LaneInv, LaneTyped
      <3> QED BY <2>1, <3>1 DEF LaneRows
    <2>4. LaneTyped' /\ shutdown'.phase = "draining"
      <3>2. shutdown.drains \in Nat
        BY DEF LaneInv, LaneTyped, ShutdownRows
      <3>1. shutdown.drains + 1 \in Nat
        BY <3>2
      <3> QED BY <2>1, <2>2, <3>1 DEF LaneInv, LaneTyped, ShutdownRows
    <2>3. CountedEnough'
      BY <2>1, <2>2 DEF LaneInv, CountedEnough, Queueing, Writing
    <2> QED BY <2>2, <2>3, <2>4 DEF LaneInv, DrainedIsQuiet
  <1>2. CASE Drained
    <2>1. /\ shutdown.phase = "draining" /\ Quiet /\ Unwind
          /\ shutdown' = [shutdown EXCEPT !.phase = "drained"]
      BY <1>2 DEF Drained
    <2>2. shutdown' \in ShutdownRows
      BY <2>1 DEF LaneInv, LaneTyped, ShutdownRows
    <2>3. \A t \in Threads : thread[t].at \in Outside
      <3>1. Cardinality(Queueing) = 0 /\ Cardinality(Writing) = 0
        <4>1. Cardinality(Queueing) \in Nat /\ Cardinality(Writing) \in Nat
          BY FS_CardinalityType DEF LaneInv, CountedEnough
        <4> QED BY <2>1, <4>1 DEF Quiet, LaneInv, CountedEnough
      <3>2. Queueing = {} /\ Writing = {}
        BY <3>1, FS_EmptySet DEF LaneInv, CountedEnough
      <3>3. \A t \in Threads : thread[t].at \in Steps
        BY DEF LaneInv, LaneTyped, ThreadRows
      <3> QED BY <3>2, <3>3 DEF Queueing, Writing, Outside, Steps
    <2>4. /\ LaneTyped' /\ CountedEnough' /\ lane'.accepting = lane.accepting
          /\ \A t \in Threads : thread'[t].at \in Outside
      BY <2>1, <2>2, <2>3, UnwindKeeps
    <2> QED BY <2>1, <2>4 DEF LaneInv, DrainedIsQuiet
  <1>3. CASE TimeOut
    <2>1. /\ shutdown.phase = "draining" /\ Unwind
          /\ shutdown' = [shutdown EXCEPT !.phase = "timed out"]
      BY <1>3 DEF TimeOut
    <2>2. /\ shutdown' \in ShutdownRows
          /\ shutdown'.phase = "timed out"
      BY <2>1 DEF LaneInv, LaneTyped, ShutdownRows
    <2>3. LaneTyped' /\ CountedEnough' /\ lane'.accepting = lane.accepting
      BY <2>1, <2>2, UnwindKeeps
    <2> QED BY <2>1, <2>2, <2>3 DEF LaneInv, DrainedIsQuiet
  <1> QED BY <1>1, <1>2, <1>3

\* When drain() has returned TRUE no thread is inside the lane, wherever a drain that timed
\* out before, or the call the handler froze, left the counters.
THEOREM DrainedLaneIsQuiet == LaneSpec => []DrainedIsQuiet
  <1>1. LaneInit => LaneInv
    <2> SUFFICES ASSUME LaneInit PROVE LaneInv
      OBVIOUS
    <2>1. LaneTyped
      BY DEF LaneInit, LaneTyped, LaneRows, ThreadRows, ShutdownRows, Steps
    <2>2. Queueing = {} /\ Writing = {} /\ lane.pending = 0 /\ lane.active = 0
      BY DEF LaneInit, Queueing, Writing
    <2>3. CountedEnough
      BY <2>2, FS_EmptySet DEF CountedEnough
    <2>4. shutdown.phase = "none"
      BY DEF LaneInit
    <2> QED BY <2>1, <2>3, <2>4 DEF LaneInv, DrainedIsQuiet
  <1>2. LaneInv /\ [LaneNext]_laneVars => LaneInv'
    <2> SUFFICES ASSUME LaneInv, [LaneNext]_laneVars
                 PROVE  LaneInv'
      OBVIOUS
    <2>1. CASE LaneStep
      BY <2>1, ClaimKeeps, CountKeeps, ActivateKeeps, FinishKeeps, SettleKeeps, ReleaseKeeps
      DEF LaneStep
    <2>2. CASE LaneCall
      BY <2>2, EnterKeeps, NestedKeeps DEF LaneCall
    <2>3. CASE BeginDrain \/ Drained \/ TimeOut
      BY <2>3, DrainKeeps
    <2>4. CASE UNCHANGED laneVars
      BY <2>4 DEF laneVars, LaneInv, LaneTyped, CountedEnough, Queueing, Writing, DrainedIsQuiet
    <2> QED BY <2>1, <2>2, <2>3, <2>4 DEF LaneNext
  <1>3. LaneInv => DrainedIsQuiet
    BY DEF LaneInv
  <1> QED BY <1>1, <1>2, <1>3, PTL DEF LaneSpec

-----------------------------------------------------------------------------
(* The job registry.                                                            *)

JobRows   == [status : {"none", "pending", "running", "succeeded", "failed", "skipped"},
              date : Dates \cup {NoDate}]
StoreRows == [date : Dates \cup {NoDate}, byHand : BOOLEAN]
BootRows  == [stage : {"down", "fixtures", "live", "rows", "up"}, todo : SUBSET Jobs,
              adding : Jobs \cup {NoJob}, errors : SUBSET Jobs]
Plans     == [date : Dates \cup {NoDate}, status : {"UPCOMING", "LIVE", "over"}]

JobTyped ==
  /\ ticks \in 1 .. MaxTick
  /\ plan \in [Fixtures -> Plans] /\ row \in [Jobs -> JobRows] /\ store \in [Jobs -> StoreRows]
  /\ boot \in BootRows /\ fired \in [Jobs -> [Dates -> 0 .. 1]]
  /\ \A j \in Jobs : InStore(j) => store[j].date \in Dates

\* A date was fired once it had passed, and what the store holds was not.
FiredOnce ==
  /\ \A j \in Jobs, d \in Dates : fired[j][d] # 0 => d < ticks
  /\ \A j \in Jobs : InStore(j) => fired[j][store[j].date] = 0

\* What is read of a row between its upsert and the store is the row.
InHand(j) == boot.adding = j

\* Before the scheduler starts: the store was empty, so what it has for a pending row is of
\* this registration and of the row's date, but for the row in hand.
StoreOfRegistration ==
  /\ boot.stage = "down" => boot.adding = NoJob /\ \A j \in Jobs : ~InStore(j)
  /\ boot.stage \in {"fixtures", "live", "rows"} =>
       \A j \in Jobs : row[j].status = "pending" /\ InStore(j) /\ ~InHand(j)
                         => store[j].date = row[j].date

\* Reconciliation: what is not backed is still to do.
RowsToDo ==
  boot.stage = "rows" =>
    \A j \in Jobs : Backed(j) \/ j \in boot.todo \/ j \in boot.errors \/ InHand(j)

JobInv == JobTyped /\ FiredOnce /\ StoreOfRegistration /\ RowsToDo

\* Registering or reconciling a row before its job is added.
LEMMA RowStepKeeps ==
  ASSUME JobInv, NEW j \in Jobs, NEW r \in JobRows, row' = [row EXCEPT ![j] = r],
         boot' \in BootRows, boot'.stage = boot.stage, boot.stage # "down", boot.adding = NoJob,
         boot'.todo = boot.todo \ {j}, boot.errors \subseteq boot'.errors,
         boot'.adding = j \/ (boot'.adding = NoJob /\ (r.status # "pending" \/ r = row[j])),
         boot.stage = "rows" => \/ boot'.adding = j \/ j \in boot'.errors
                                \/ r.status # "pending" \/ (InStore(j) /\ r = row[j]),
         UNCHANGED <<ticks, plan, store, fired>>
  PROVE  JobInv'
  <1>1. /\ row' \in [Jobs -> JobRows] /\ row'[j] = r
        /\ \A k \in Jobs : k # j => row'[k] = row[k]
    BY DEF JobInv, JobTyped
  <1>2. \A k \in Jobs : /\ InStore(k)' <=> InStore(k)
                        /\ ~InHand(k)
    BY NoJobAssumption DEF InStore, InHand
  <1>3. JobTyped' /\ FiredOnce'
    BY <1>1, <1>2 DEF JobInv, JobTyped, FiredOnce
  <1>4. StoreOfRegistration'
    BY <1>1, <1>2 DEF JobInv, StoreOfRegistration, InHand
  <1>5. RowsToDo'
    <2> SUFFICES ASSUME boot'.stage = "rows", NEW k \in Jobs
                 PROVE  Backed(k)' \/ k \in boot'.todo \/ k \in boot'.errors \/ InHand(k)'
      BY DEF RowsToDo
    <2>1. CASE k # j
      BY <1>1, <1>2, <2>1 DEF JobInv, RowsToDo, Backed
    <2>2. CASE k = j
      <3>1. CASE boot'.adding = j \/ j \in boot'.errors
        BY <2>2, <3>1 DEF InHand
      <3>2. CASE r.status # "pending"
        BY <1>1, <2>2, <3>2 DEF Backed
      <3>3. CASE InStore(j) /\ r = row[j] /\ r.status = "pending"
        BY <1>1, <1>2, <2>2, <3>3 DEF JobInv, StoreOfRegistration, Backed
      <3> QED BY <3>1, <3>2, <3>3
    <2> QED BY <2>1, <2>2
  <1> QED BY <1>3, <1>4, <1>5 DEF JobInv

\* What the scheduler does once it serves.
LEMMA ServingKeeps ==
  ASSUME JobInv, boot.stage = "up", boot'.stage = "up", boot' \in BootRows,
         plan' = plan, ticks' = ticks,
         row' \in [Jobs -> JobRows], store' \in [Jobs -> StoreRows],
         fired' \in [Jobs -> [Dates -> 0 .. 1]],
         \A j \in Jobs : InStore(j)' => store'[j].date \in Dates, FiredOnce'
  PROVE  JobInv'
  BY DEF JobInv, JobTyped, StoreOfRegistration, RowsToDo

LEMMA JobFacts ==
  ASSUME JobInv, NEW j \in Jobs
  PROVE  /\ boot \in BootRows /\ row[j] \in JobRows /\ store[j] \in StoreRows
         /\ row \in [Jobs -> JobRows] /\ store \in [Jobs -> StoreRows]
         /\ ticks \in 1 .. MaxTick /\ ticks \in Dates /\ ticks + 1 \in Dates /\ ticks \in Nat \ {0}
  BY TickAssumption DEF JobInv, JobTyped, Dates

LEMMA UpsertTyped ==
  ASSUME NEW old \in JobRows, NEW date \in Dates
  PROVE  UpsertedRow(old, date) \in JobRows
  BY DEF UpsertedRow, JobRows

LEMMA SkipTyped ==
  ASSUME NEW old \in JobRows
  PROVE  SkippedRow(old) \in JobRows /\ SkippedRow(old).status # "pending"
  BY DEF SkippedRow, JobRows

\* The registration's record: a job taken off the list, and perhaps in hand or an error.
LEMMA BootSteps ==
  ASSUME JobInv, NEW j \in Jobs
  PROVE  /\ [boot EXCEPT !.todo = @ \ {j}] \in BootRows
         /\ [boot EXCEPT !.todo = @ \ {j}].stage = boot.stage
         /\ [boot EXCEPT !.todo = @ \ {j}].todo = boot.todo \ {j}
         /\ [boot EXCEPT !.todo = @ \ {j}].adding = boot.adding
         /\ [boot EXCEPT !.todo = @ \ {j}].errors = boot.errors
         /\ [boot EXCEPT !.todo = @ \ {j}, !.adding = j] \in BootRows
         /\ [boot EXCEPT !.todo = @ \ {j}, !.adding = j].stage = boot.stage
         /\ [boot EXCEPT !.todo = @ \ {j}, !.adding = j].todo = boot.todo \ {j}
         /\ [boot EXCEPT !.todo = @ \ {j}, !.adding = j].adding = j
         /\ [boot EXCEPT !.todo = @ \ {j}, !.adding = j].errors = boot.errors
  <1>1. boot \in BootRows
    BY DEF JobInv, JobTyped
  <1> QED BY <1>1 DEF BootRows

LEMMA RegisterKeeps ==
  ASSUME JobInv, NEW j \in Fixtures, RegisterFixture(j) \/ ResumeLive(j)
  PROVE  JobInv'
  <1>1. /\ j \in Jobs /\ boot.adding = NoJob /\ boot.stage \in {"fixtures", "up", "live"}
        /\ UNCHANGED <<ticks, plan, store, fired>> /\ plan[j] \in Plans
    BY DEF RegisterFixture, ResumeLive, Jobs, JobInv, JobTyped
  <1>2. row = [row EXCEPT ![j] = row[j]] /\ row[j] \in JobRows
    BY <1>1 DEF JobInv, JobTyped
  <1>3. CASE row' = row /\ boot' = [boot EXCEPT !.todo = @ \ {j}]
    BY <1>1, <1>2, <1>3, BootSteps, RowStepKeeps
  <1>4. CASE /\ row' = [row EXCEPT ![j] = [status |-> "failed", date |-> NoDate]]
             /\ boot' = [boot EXCEPT !.todo = @ \ {j}]
    <2>1. [status |-> "failed", date |-> NoDate] \in JobRows
      BY DEF JobRows
    <2> QED BY <1>1, <1>4, <2>1, BootSteps, RowStepKeeps
  <1>5. ASSUME NEW date \in Dates, row' = [row EXCEPT ![j] = UpsertedRow(row[j], date)],
               boot' = [boot EXCEPT !.todo = @ \ {j}, !.adding = j]
        PROVE  JobInv'
    <2>1. UpsertedRow(row[j], date) \in JobRows
      BY <1>2, UpsertTyped
    <2> QED BY <1>1, <1>5, <2>1, BootSteps, RowStepKeeps
  <1>6. CASE RegisterFixture(j)
    <2>1. CASE plan[j].status = "over"
      BY <1>3, <1>6, <2>1 DEF RegisterFixture
    <2>2. CASE plan[j].status # "over" /\ plan[j].date = NoDate
      BY <1>4, <1>6, <2>2 DEF RegisterFixture
    <2>3. CASE plan[j].status # "over" /\ plan[j].date # NoDate
      <3>1. /\ row' = [row EXCEPT ![j] = UpsertedRow(row[j], plan[j].date)]
            /\ boot' = [boot EXCEPT !.todo = @ \ {j}, !.adding = j]
        BY <1>6, <2>3 DEF RegisterFixture
      <3>2. plan[j].date \in Dates
        BY <1>1, <2>3 DEF Plans
      <3> QED BY <1>5, <3>1, <3>2
    <2> QED BY <2>1, <2>2, <2>3
  <1>7. CASE ResumeLive(j)
    <2>1. \/ row' = row /\ boot' = [boot EXCEPT !.todo = @ \ {j}]
          \/ /\ row' = [row EXCEPT ![j] = UpsertedRow(row[j], ticks + 1)]
             /\ boot' = [boot EXCEPT !.todo = @ \ {j}, !.adding = j]
      BY <1>7 DEF ResumeLive
    <2> QED BY <1>1, <1>3, <1>5, <2>1, JobFacts
  <1> QED BY <1>6, <1>7

LEMMA ReconcileKeeps ==
  ASSUME JobInv, NEW j \in Jobs, ReconcileRow(j)
  PROVE  JobInv'
  <1>1. /\ boot.adding = NoJob /\ boot.stage = "rows" /\ UNCHANGED <<ticks, plan, store, fired>>
    BY DEF ReconcileRow
  <1>2. row = [row EXCEPT ![j] = row[j]] /\ row[j] \in JobRows
    BY DEF JobInv, JobTyped
  <1>3. CASE Recoverable(j)
    <2>1. row' = row /\ boot' = [boot EXCEPT !.todo = @ \ {j}]
      BY <1>3 DEF ReconcileRow
    <2>2. InStore(j) \/ row[j].status # "pending"
      BY <1>3 DEF Recoverable
    <2> QED BY <1>1, <1>2, <2>1, <2>2, BootSteps, RowStepKeeps
  <1>4. CASE ~Recoverable(j) /\ (j \in Manuals \/ row[j].date <= ticks)
    <2>1. row' = [row EXCEPT ![j] = SkippedRow(row[j])] /\ boot' = [boot EXCEPT !.todo = @ \ {j}]
      BY <1>4 DEF ReconcileRow
    <2>2. SkippedRow(row[j]) \in JobRows /\ SkippedRow(row[j]).status # "pending"
      BY <1>2, SkipTyped
    <2> QED BY <1>1, <2>1, <2>2, BootSteps, RowStepKeeps
  <1>5. CASE ~Recoverable(j) /\ ~(j \in Manuals \/ row[j].date <= ticks)
    <2>1. /\ row' = [row EXCEPT ![j] = UpsertedRow(row[j], row[j].date)]
          /\ boot' = [boot EXCEPT !.todo = @ \ {j}, !.adding = j]
      BY <1>5 DEF ReconcileRow
    <2>2. row[j].date \in Dates
      BY <1>2, <1>5, JobFacts DEF JobRows, Dates, NoDate
    <2>3. UpsertedRow(row[j], row[j].date) \in JobRows
      BY <1>2, <2>2, UpsertTyped
    <2> QED BY <1>1, <2>1, <2>3, BootSteps, RowStepKeeps
  <1> QED BY <1>3, <1>4, <1>5

LEMMA ReconcileErrorKeeps ==
  ASSUME JobInv, NEW j \in Jobs, ReconcileError(j)
  PROVE  JobInv'
  <1>1. /\ boot.adding = NoJob /\ boot.stage = "rows" /\ UNCHANGED <<ticks, plan, row, store, fired>>
        /\ boot' = [boot EXCEPT !.todo = @ \ {j}, !.errors = @ \cup {j}]
    BY DEF ReconcileError
  <1>2. row = [row EXCEPT ![j] = row[j]] /\ row[j] \in JobRows /\ boot \in BootRows
    BY DEF JobInv, JobTyped
  <1>3. /\ boot' \in BootRows /\ boot'.stage = boot.stage /\ boot'.adding = NoJob
        /\ boot'.todo = boot.todo \ {j} /\ boot'.errors = boot.errors \cup {j}
    BY <1>1, <1>2 DEF BootRows
  <1> QED BY <1>1, <1>2, <1>3, RowStepKeeps

LEMMA AddKeeps ==
  ASSUME JobInv, AddOrSkip
  PROVE  JobInv'
  <1>1. /\ boot.adding # NoJob /\ boot' = [boot EXCEPT !.adding = NoJob] /\ UNCHANGED <<ticks, plan, fired>>
        /\ boot \in BootRows
    BY DEF AddOrSkip, JobInv, JobTyped
  <1>j. PICK j \in Jobs : j = boot.adding
    BY <1>1 DEF BootRows
  <1>2. j \in Jobs /\ boot' \in BootRows /\ boot'.stage = boot.stage /\ boot'.adding = NoJob
        /\ boot'.todo = boot.todo /\ boot'.errors = boot.errors
    BY <1>1, <1>j DEF BootRows
  <1>3. CASE Past(row[j].date)
    <2>1. row' = [row EXCEPT ![j] = SkippedRow(row[j])] /\ store' = store
      BY <1>j, <1>3 DEF AddOrSkip
    <2>2. SkippedRow(row[j]) \in JobRows /\ SkippedRow(row[j]).status # "pending"
      BY <1>j, <1>2, JobFacts, SkipTyped
    <2>3. /\ row' \in [Jobs -> JobRows] /\ row'[j].status # "pending"
          /\ \A k \in Jobs : k # j => row'[k] = row[k]
      BY <1>j, <1>2, <2>1, <2>2 DEF JobInv, JobTyped
    <2>4. \A k \in Jobs : InStore(k)' <=> InStore(k)
      BY <1>j, <2>1 DEF InStore
    <2>5. \A k \in Jobs : k # j => ~InHand(k)
      BY <1>j DEF InHand
    <2>6. JobTyped' /\ FiredOnce'
      BY <1>j, <1>1, <1>2, <2>1, <2>3, <2>4 DEF JobInv, JobTyped, FiredOnce
    <2>7. StoreOfRegistration'
      BY <1>j, <1>2, <2>1, <2>3, <2>4, <2>5 DEF JobInv, StoreOfRegistration
    <2>8. RowsToDo'
      BY <1>j, <1>2, <2>1, <2>3, <2>4, <2>5 DEF JobInv, RowsToDo, Backed
    <2> QED BY <1>j, <2>6, <2>7, <2>8 DEF JobInv
  <1>4. CASE ~Past(row[j].date)
    <2> DEFINE s == [date |-> row[j].date, byHand |-> FALSE]
    <2>1. store' = [store EXCEPT ![j] = s] /\ row' = row
      BY <1>j, <1>4 DEF AddOrSkip
    <2>2. row[j].date \in Dates /\ row[j].date >= ticks
      BY <1>j, <1>2, <1>4, JobFacts DEF Past, JobRows, Dates, NoDate
    <2>3. s \in StoreRows /\ s # NotStored /\ s.date = row[j].date
      BY <1>j, <2>2 DEF StoreRows, NotStored, Dates, NoDate
    <2> HIDE DEF s
    <2>4. /\ store' \in [Jobs -> StoreRows] /\ store'[j] = s
          /\ \A k \in Jobs : k # j => store'[k] = store[k]
      BY <1>j, <1>2, <2>1, <2>3 DEF JobInv, JobTyped
    <2>5. \A k \in Jobs : k # j => (InStore(k)' <=> InStore(k)) /\ ~InHand(k)
      BY <1>j, <2>4 DEF InStore, InHand
    <2>6. InStore(j)' /\ fired[j][row[j].date] = 0
      <3>1. ~(row[j].date < ticks)
        BY <1>j, <2>2, <1>2, JobFacts DEF Dates
      <3>2. InStore(j)'
        BY <1>j, <2>3, <2>4 DEF InStore
      <3>3. \A d \in Dates : fired[j][d] # 0 => d < ticks
        BY <1>j, <1>2, JobFacts DEF JobInv, FiredOnce
      <3> QED BY <1>j, <2>2, <3>1, <3>2, <3>3
    <2>7. JobTyped'
      BY <1>j, <1>1, <1>2, <2>1, <2>2, <2>3, <2>4, <2>5 DEF JobInv, JobTyped
    <2>8. FiredOnce'
      BY <1>j, <1>1, <2>3, <2>4, <2>5, <2>6 DEF JobInv, FiredOnce
    <2>9. StoreOfRegistration'
      <3>1. boot.stage # "down"
        BY <1>j, <1>1 DEF JobInv, StoreOfRegistration
      <3> QED BY <1>j, <1>2, <2>1, <2>3, <2>4, <2>5, <3>1 DEF JobInv, StoreOfRegistration
    <2>10. RowsToDo'
      <3>1. store'[j].date = row'[j].date
        BY <1>j, <2>1, <2>3, <2>4
      <3>2. Backed(j)'
        BY <1>j, <2>6, <3>1 DEF Backed
      <3>3. \A k \in Jobs : k # j => (Backed(k)' <=> Backed(k))
        BY <1>j, <2>1, <2>4, <2>5 DEF Backed
      <3>4. boot'.stage = boot.stage /\ boot'.todo = boot.todo /\ boot'.errors = boot.errors
        BY <1>j, <1>2
      <3> QED BY <1>j, <2>5, <3>2, <3>3, <3>4 DEF JobInv, RowsToDo
    <2> QED BY <1>j, <2>7, <2>8, <2>9, <2>10 DEF JobInv
  <1> QED BY <1>j, <1>3, <1>4

LEMMA StagesKeep ==
  ASSUME JobInv, Start \/ NextStage
  PROVE  JobInv'
  <1>1. UNCHANGED <<ticks, plan, row, store, fired>> /\ boot \in BootRows
    BY DEF Start, NextStage, JobInv, JobTyped
  <1>2. \A k \in Jobs : InStore(k)' <=> InStore(k)
    BY <1>1 DEF InStore
  <1>3. boot' \in BootRows => JobTyped' /\ FiredOnce'
    BY <1>1, <1>2 DEF JobInv, JobTyped, FiredOnce
  <1>4. CASE Start
    <2>1. /\ boot' \in BootRows /\ boot'.stage = "fixtures" /\ \A k \in Jobs : ~InStore(k)
      BY <1>4 DEF Start, Down, BootRows, Jobs, JobInv, StoreOfRegistration
    <2> QED BY <1>1, <1>2, <1>3, <2>1 DEF JobInv, StoreOfRegistration, RowsToDo
  <1>5. CASE NextStage
    <2>1. boot.todo = {} /\ boot.adding = NoJob /\ boot.stage \in {"fixtures", "live", "rows"}
      BY <1>5 DEF NextStage
    <2>2. \A k \in Jobs : ~InHand(k)
      BY <2>1, NoJobAssumption DEF InHand
    <2>3. CASE boot.stage = "fixtures"
      <3>1. boot' = [boot EXCEPT !.stage = "live", !.todo = Fixtures]
        BY <1>5, <2>3 DEF NextStage
      <3>2. boot' \in BootRows /\ boot'.stage = "live"
        BY <1>1, <3>1 DEF BootRows, Jobs
      <3> QED BY <1>1, <1>2, <1>3, <2>2, <2>3, <3>2 DEF JobInv, StoreOfRegistration, RowsToDo
    <2>4. CASE boot.stage = "live"
      <3>1. boot' = [boot EXCEPT !.stage = "rows", !.todo = {j \in Jobs : row[j] # NoJobRow}]
        BY <1>5, <2>4 DEF NextStage
      <3>2. /\ boot' \in BootRows /\ boot'.stage = "rows"
            /\ \A k \in Jobs : k \notin boot'.todo => row[k] = NoJobRow
        BY <1>1, <3>1 DEF BootRows
      <3>3. RowsToDo'
        BY <1>1, <3>2 DEF RowsToDo, Backed, NoJobRow
      <3> QED BY <1>1, <1>2, <1>3, <2>2, <2>4, <3>2, <3>3 DEF JobInv, StoreOfRegistration
    <2>5. CASE boot.stage = "rows"
      <3>1. boot' \in BootRows /\ boot'.stage = "up"
        BY <1>5, <2>5 DEF NextStage, Up, Down, BootRows
      <3> QED BY <1>1, <1>3, <3>1 DEF JobInv, StoreOfRegistration, RowsToDo
    <2> QED BY <2>1, <2>3, <2>4, <2>5
  <1> QED BY <1>4, <1>5

\* The clock, the fixture, and the end of a process.
LEMMA JobWorldKeeps ==
  ASSUME JobInv, Stop \/ JobTick \/ \E j \in Fixtures : ChangeFixture(j)
  PROVE  JobInv'
  <1>1. CASE Stop
    <2>1. /\ boot' = Down /\ store' = [j \in Jobs |-> NotStored] /\ UNCHANGED <<ticks, plan, row, fired>>
      BY <1>1 DEF Stop, Nothing
    <2>2. /\ boot' \in BootRows /\ boot'.stage = "down" /\ boot'.adding = NoJob
          /\ store' \in [Jobs -> StoreRows] /\ \A j \in Jobs : ~InStore(j)'
      BY <2>1 DEF Down, BootRows, StoreRows, NotStored, InStore
    <2> QED BY <2>1, <2>2 DEF JobInv, JobTyped, FiredOnce, StoreOfRegistration, RowsToDo
  <1>2. CASE JobTick
    <2>1. /\ ticks < MaxTick /\ ticks' = ticks + 1 /\ UNCHANGED <<plan, row, store, boot, fired>>
      BY <1>2 DEF JobTick
    <2>2. ticks' \in 1 .. MaxTick /\ \A d \in Dates : d < ticks => d < ticks'
      BY <2>1, TickAssumption DEF JobInv, JobTyped, Dates
    <2>3. JobTyped' /\ FiredOnce'
      BY <2>1, <2>2 DEF JobInv, JobTyped, FiredOnce, InStore
    <2> QED BY <2>1, <2>3
        DEF JobInv, StoreOfRegistration, RowsToDo, InStore, InHand, Backed
  <1>3. CASE \E j \in Fixtures : ChangeFixture(j)
    <2>1. PICK j \in Fixtures, date \in {NoDate} \cup Dates, status \in {"UPCOMING", "LIVE", "over"} :
            plan' = [plan EXCEPT ![j] = [date |-> date, status |-> status]]
      BY <1>3 DEF ChangeFixture
    <2>2. UNCHANGED <<ticks, row, store, boot, fired>>
      BY <1>3 DEF ChangeFixture
    <2>3. plan' \in [Fixtures -> Plans]
      BY <2>1 DEF JobInv, JobTyped, Plans
    <2> QED BY <2>2, <2>3
        DEF JobInv, JobTyped, FiredOnce, StoreOfRegistration, RowsToDo, InStore, InHand, Backed
  <1> QED BY <1>1, <1>2, <1>3

LEMMA FireKeeps ==
  ASSUME JobInv, NEW j \in Jobs, Fire(j) \/ Miss(j) \/ DeleteJob(j)
  PROVE  JobInv'
  <1>1. /\ boot.stage = "up" /\ boot' = boot /\ InStore(j)
        /\ store' = [store EXCEPT ![j] = NotStored] /\ UNCHANGED <<ticks, plan, row>>
    BY DEF Fire, Miss, DeleteJob, Due, Serving, Requested
  <1>2. /\ store[j].date \in Dates /\ fired[j][store[j].date] = 0
        /\ NotStored \in StoreRows
    BY <1>1 DEF JobInv, JobTyped, FiredOnce, NotStored, StoreRows
  <1>3. /\ store' \in [Jobs -> StoreRows] /\ ~InStore(j)'
        /\ \A k \in Jobs : k # j => store'[k] = store[k] /\ (InStore(k)' <=> InStore(k))
    BY <1>1, <1>2 DEF JobInv, JobTyped, InStore
  <1>4. CASE fired' = fired
    <2>1. FiredOnce' /\ fired' \in [Jobs -> [Dates -> 0 .. 1]]
      BY <1>1, <1>3, <1>4 DEF JobInv, JobTyped, FiredOnce
    <2> QED BY <1>1, <1>3, <2>1, ServingKeeps DEF JobInv, JobTyped
  <1>5. CASE fired' = [fired EXCEPT ![j][store[j].date] = @ + 1] /\ store[j].date < ticks
    <2>1. /\ fired' \in [Jobs -> [Dates -> 0 .. 1]]
          /\ \A k \in Jobs, d \in Dates : k # j \/ d # store[j].date => fired'[k][d] = fired[k][d]
      <3>1. fired' = [fired EXCEPT ![j] = [fired[j] EXCEPT ![store[j].date] = 1]]
        BY <1>2, <1>5 DEF JobInv, JobTyped
      <3> QED BY <1>2, <3>1 DEF JobInv, JobTyped
    <2>2. FiredOnce'
      BY <1>1, <1>2, <1>3, <1>5, <2>1 DEF JobInv, JobTyped, FiredOnce
    <2> QED BY <1>1, <1>3, <2>1, <2>2, ServingKeeps DEF JobInv, JobTyped
  <1> QED BY <1>4, <1>5 DEF Fire, Miss, DeleteJob, Due

LEMMA MarkKeeps ==
  ASSUME JobInv, NEW j \in Jobs, MarkRunning(j) \/ MarkEnded(j) \/ MarkLost(j)
  PROVE  JobInv'
  <1>1. boot.stage = "up" /\ UNCHANGED <<ticks, plan, store, boot, fired>>
    BY DEF MarkRunning, MarkEnded, MarkLost, Serving
  <1>2. row' \in [Jobs -> JobRows]
    <2>1. \A status \in {"running", "succeeded", "failed"} : [row[j] EXCEPT !.status = status] \in JobRows
      BY JobFacts DEF JobRows
    <2>2. \/ row' = row
          \/ \E status \in {"running", "succeeded", "failed"} :
               row' = [row EXCEPT ![j] = [row[j] EXCEPT !.status = status]]
      BY DEF MarkRunning, MarkEnded, MarkLost
    <2> QED BY <2>1, <2>2, JobFacts
  <1>3. FiredOnce' /\ \A k \in Jobs : InStore(k)' <=> InStore(k)
    BY <1>1 DEF JobInv, FiredOnce, InStore
  <1> QED BY <1>1, <1>2, <1>3, ServingKeeps DEF JobInv, JobTyped

LEMMA RunJobKeeps ==
  ASSUME JobInv, NEW j \in Jobs, RunJob(j)
  PROVE  JobInv'
  <1>1. /\ boot.stage = "up" /\ InStore(j) /\ UNCHANGED <<ticks, plan, row, boot, fired>>
        /\ store' = [store EXCEPT ![j] = [store[j] EXCEPT !.byHand = TRUE]]
    BY DEF RunJob, Requested, Serving
  <1>2. /\ [store[j] EXCEPT !.byHand = TRUE] \in StoreRows
        /\ [store[j] EXCEPT !.byHand = TRUE].date = store[j].date /\ store[j].date \in Dates
    BY <1>1, JobFacts DEF StoreRows, JobInv, JobTyped
  <1>3. /\ store' \in [Jobs -> StoreRows] /\ store'[j].date = store[j].date
        /\ \A k \in Jobs : k # j => store'[k] = store[k]
    BY <1>1, <1>2 DEF JobInv, JobTyped
  <1>4. \A k \in Jobs : InStore(k)' => InStore(k) /\ store'[k].date = store[k].date
    BY <1>1, <1>3 DEF InStore
  <1>5. FiredOnce' /\ \A k \in Jobs : InStore(k)' => store'[k].date \in Dates
    BY <1>1, <1>4 DEF JobInv, JobTyped, FiredOnce
  <1> QED BY <1>1, <1>3, <1>5, ServingKeeps DEF JobInv, JobTyped

LEMMA ManualKeeps ==
  ASSUME JobInv, NEW m \in Manuals, CheckManual(m) \/ EnqueueManual(m)
  PROVE  JobInv'
  <1>1. boot.stage = "up" /\ UNCHANGED <<ticks, plan, boot, fired>> /\ m \in Jobs
    BY DEF CheckManual, EnqueueManual, Serving, Jobs
  <1>2. CASE CheckManual(m)
    <2>1. UNCHANGED <<row, store>>
      BY <1>2 DEF CheckManual
    <2>2. FiredOnce' /\ \A k \in Jobs : InStore(k)' <=> InStore(k)
      BY <1>1, <2>1 DEF JobInv, FiredOnce, InStore
    <2> QED BY <1>1, <2>1, <2>2, ServingKeeps DEF JobInv, JobTyped
  <1>3. CASE EnqueueManual(m)
    <2> DEFINE s == [date |-> ticks, byHand |-> FALSE]
               r == [status |-> "pending", date |-> ticks]
    <2>1. row' = [row EXCEPT ![m] = r] /\ store' = [store EXCEPT ![m] = s]
      BY <1>3 DEF EnqueueManual
    <2>2. ticks \in Dates /\ ~(ticks < ticks)
      BY <1>1, JobFacts
    <2>3. r \in JobRows /\ s \in StoreRows /\ s.date = ticks
      BY <2>2 DEF JobRows, StoreRows
    <2> HIDE DEF s, r
    <2>4. /\ row' \in [Jobs -> JobRows] /\ store' \in [Jobs -> StoreRows] /\ store'[m] = s
          /\ \A k \in Jobs : k # m => store'[k] = store[k]
      BY <1>1, <2>1, <2>3 DEF JobInv, JobTyped
    <2>5. \A k \in Jobs : k # m => (InStore(k)' <=> InStore(k))
      BY <2>4 DEF InStore
    <2>6. fired[m][ticks] = 0
      BY <1>1, <2>2 DEF JobInv, FiredOnce
    <2>7. FiredOnce' /\ \A k \in Jobs : InStore(k)' => store'[k].date \in Dates
      BY <1>1, <2>2, <2>3, <2>4, <2>5, <2>6 DEF JobInv, JobTyped, FiredOnce
    <2> QED BY <1>1, <2>4, <2>7, ServingKeeps DEF JobInv, JobTyped
  <1> QED BY <1>2, <1>3

LEMMA RefreshKeeps ==
  ASSUME JobInv, RefreshAllJobs
  PROVE  JobInv'
  <1>1. /\ boot.stage = "up" /\ store' = [j \in Jobs |-> NotStored]
        /\ boot' = [boot EXCEPT !.todo = Fixtures] /\ UNCHANGED <<ticks, plan, row, fired>>
        /\ boot \in BootRows
    BY DEF RefreshAllJobs, Requested, Serving, JobInv, JobTyped
  <1>2. boot' \in BootRows /\ boot'.stage = "up"
    BY <1>1 DEF BootRows, Jobs
  <1>3. store' \in [Jobs -> StoreRows] /\ \A j \in Jobs : ~InStore(j)'
    BY <1>1 DEF StoreRows, NotStored, InStore
  <1>4. FiredOnce'
    BY <1>1, <1>3 DEF JobInv, FiredOnce
  <1> QED BY <1>1, <1>2, <1>3, <1>4, ServingKeeps DEF JobInv, JobTyped

LEMMA JobStep == JobInv /\ [JobNext]_jobVars => JobInv'
  <1> SUFFICES ASSUME JobInv, [JobNext]_jobVars
               PROVE  JobInv'
    OBVIOUS
  <1>1. CASE Registration
    BY <1>1, StagesKeep, AddKeeps, RegisterKeeps, ReconcileKeeps, ReconcileErrorKeeps DEF Registration
  <1>2. CASE Stop \/ JobTick \/ \E j \in Fixtures : ChangeFixture(j)
    BY <1>2, JobWorldKeeps
  <1>3. CASE RefreshAllJobs
    BY <1>3, RefreshKeeps
  <1>4. ASSUME NEW j \in Jobs, \/ Fire(j) \/ Miss(j) \/ MarkRunning(j) \/ MarkEnded(j) \/ MarkLost(j)
                               \/ RunJob(j) \/ DeleteJob(j)
        PROVE  JobInv'
    BY <1>4, FireKeeps, MarkKeeps, RunJobKeeps
  <1>5. ASSUME NEW m \in Manuals, CheckManual(m) \/ EnqueueManual(m)
        PROVE  JobInv'
    BY <1>5, ManualKeeps
  <1>6. CASE UNCHANGED jobVars
    BY <1>6 DEF jobVars, JobInv, JobTyped, FiredOnce, StoreOfRegistration, RowsToDo, InStore, InHand,
                Backed
  <1> QED BY <1>1, <1>2, <1>3, <1>4, <1>5, <1>6 DEF JobNext

LEMMA JobHolds == JobInit => JobInv
  <1> SUFFICES ASSUME JobInit PROVE JobInv
    OBVIOUS
  <1>1. /\ ticks \in 1 .. MaxTick /\ 2 \in Dates
    BY TickAssumption DEF JobInit, Dates
  <1>2. plan \in [Fixtures -> Plans] /\ row \in [Jobs -> JobRows] /\ store \in [Jobs -> StoreRows]
    BY <1>1 DEF JobInit, Plans, JobRows, NoJobRow, StoreRows, NotStored
  <1>3. boot \in BootRows /\ boot.stage = "down" /\ boot.adding = NoJob
    BY DEF JobInit, Down, BootRows
  <1>4. /\ fired \in [Jobs -> [Dates -> 0 .. 1]] /\ \A j \in Jobs : ~InStore(j)
        /\ \A j \in Jobs, d \in Dates : fired[j][d] = 0
    BY DEF JobInit, InStore
  <1> QED BY <1>1, <1>2, <1>3, <1>4 DEF JobInv, JobTyped, FiredOnce, StoreOfRegistration, RowsToDo

\* The scheduler starts when nothing is to do or in hand any more.
LEMMA StartsWhenDone ==
  ASSUME JobInv, [JobNext]_jobVars, boot.stage = "rows", boot'.stage = "up"
  PROVE  boot.todo = {} /\ boot.adding = NoJob
  <1>1. boot \in BootRows /\ boot'.stage # boot.stage
    BY DEF JobInv, JobTyped
  <1>2. CASE AddOrSkip
    BY <1>1, <1>2 DEF AddOrSkip, BootRows
  <1>3. ASSUME NEW j \in Fixtures, RegisterFixture(j) \/ ResumeLive(j) PROVE FALSE
    BY <1>3 DEF RegisterFixture, ResumeLive
  <1>4. ASSUME NEW j \in Jobs, ReconcileRow(j) \/ ReconcileError(j) PROVE FALSE
    BY <1>1, <1>4 DEF ReconcileRow, ReconcileError, BootRows
  <1>5. CASE NextStage
    BY <1>5 DEF NextStage
  <1>6. CASE Start \/ Stop \/ RefreshAllJobs
    BY <1>6 DEF Start, Stop, RefreshAllJobs, Requested, Serving, Down
  <1>7. ASSUME NEW j \in Jobs, \/ Fire(j) \/ Miss(j) \/ MarkRunning(j) \/ MarkEnded(j) \/ MarkLost(j)
                               \/ RunJob(j) \/ DeleteJob(j)
        PROVE  FALSE
    BY <1>7 DEF Fire, Miss, MarkRunning, MarkEnded, MarkLost, RunJob, DeleteJob, Requested, Due, Serving
  <1>8. ASSUME NEW m \in Manuals, CheckManual(m) \/ EnqueueManual(m) PROVE FALSE
    BY <1>8 DEF CheckManual, EnqueueManual, Serving
  <1>9. CASE JobTick \/ UNCHANGED jobVars \/ \E j \in Fixtures : ChangeFixture(j)
    BY <1>1, <1>9 DEF JobTick, jobVars, ChangeFixture
  <1> QED BY <1>2, <1>3, <1>4, <1>5, <1>6, <1>7, <1>8, <1>9 DEF JobNext, Registration

\* Registered again, refreshed, reconciled, run by hand or restarted, no date of a job is
\* fired twice by its schedule, and the scheduler starts with no pending row whose job it
\* does not have, but for those it counted as errors.
THEOREM DatesFireOnce == JobSpec => NeitherTwiceNorLost
  <1>1. JobInv /\ [JobNext]_jobVars =>
          /\ \A j \in Jobs, d \in Dates : fired'[j][d] <= 1
          /\ boot.stage = "rows" /\ boot'.stage = "up" => \A j \in Jobs \ boot.errors : Backed(j)
    <2> SUFFICES ASSUME JobInv, [JobNext]_jobVars
                 PROVE  /\ \A j \in Jobs, d \in Dates : fired'[j][d] <= 1
                        /\ boot.stage = "rows" /\ boot'.stage = "up"
                             => \A j \in Jobs \ boot.errors : Backed(j)
      OBVIOUS
    <2>1. \A j \in Jobs, d \in Dates : fired'[j][d] \in 0 .. 1
      BY JobStep DEF JobInv, JobTyped
    <2>2. \A j \in Jobs, d \in Dates : fired'[j][d] <= 1
      BY <2>1
    <2>3. ASSUME boot.stage = "rows", boot'.stage = "up"
          PROVE  \A j \in Jobs \ boot.errors : Backed(j)
      <3>1. boot.todo = {} /\ boot.adding = NoJob
        BY <2>3, StartsWhenDone
      <3> QED BY <2>3, <3>1, NoJobAssumption DEF JobInv, RowsToDo, InHand
    <2> QED BY <2>2, <2>3
  <1> QED BY <1>1, JobHolds, JobStep, PTL DEF JobSpec, NeitherTwiceNorLost

-----------------------------------------------------------------------------
(* The token provider and the client's requests.                                *)
CallerSteps == {"idle", "wanting", "acquiring", "acquired", "sending", "refused",
                "answered", "failed", "given up"}
Epochs == Nat \cup {-1}

CallerRecord == [at: CallerSteps, token: Epochs, attempt: Nat,
                 refused: Epochs, again: Epochs, denied: BOOLEAN, requests: Nat]

CallersTyped == caller \in [Callers -> CallerRecord]
ProviderTyped == provider \in [token: Epochs, holder: Callers \cup {Nobody}]
PoolTyped == CallersTyped /\ ProviderTyped /\ epoch \in Nat /\ outages \in Nat

(* The provider's lock is held by the thread that acquires.                *)
LockHeld ==
    \A x \in Callers : caller[x].at \in {"acquiring", "acquired"} <=> provider.holder = x

(* No token is of the future, and none that a request can still take after *)
(* its refusal is older than the refusal: not the one that is stored, not  *)
(* one that another thread is about to store, not the one it took.         *)
OfThePast ==
    /\ provider.token <= epoch
    /\ \A x \in Callers : caller[x].token <= epoch /\ caller[x].refused <= epoch
TakesFresh(x) ==
    caller[x].at \in {"wanting", "acquiring"} =>
        /\ provider.token = NoToken \/ caller[x].refused <= provider.token
        /\ \A y \in Callers : caller[y].at = "acquired" => caller[x].refused <= caller[y].token
HasFresh(x) ==
    caller[x].at \in {"acquired", "sending"} => caller[x].refused <= caller[x].token
NoStaleToken == OfThePast /\ \A x \in Callers : TakesFresh(x) /\ HasFresh(x)

PoolInv == PoolTyped /\ LockHeld /\ NoStaleToken /\ GivesUpForCause

(* What the arithmetic of the proofs needs of the types.                   *)
Numbers ==
    /\ epoch \in Int /\ 0 <= epoch /\ provider.token \in Int /\ -1 <= provider.token
    /\ \A x \in Callers : /\ caller[x].token \in Int /\ -1 <= caller[x].token
                          /\ caller[x].refused \in Int /\ -1 <= caller[x].refused
                          /\ caller[x].again \in Int

LEMMA StepNames ==
  {"idle", "wanting", "acquiring", "acquired", "sending", "refused",
   "answered", "failed", "given up"} \subseteq CallerSteps
  BY DEF CallerSteps

LEMMA TokenValues ==
  /\ NoToken \in Epochs /\ Never \in Epochs /\ Nat \subseteq Epochs /\ Epochs \subseteq Int
  /\ \A e \in Epochs : Never <= e /\ NoToken <= e
  BY DEF Epochs, NoToken, Never

(* A record with another step, and a new request, are records of callers.  *)
LEMMA SentTyped ==
  ASSUME CallersTyped, NEW t \in Callers, NEW s \in CallerSteps, Sent(t, s)
  PROVE  CallersTyped'
  BY DEF CallersTyped, CallerRecord, Sent

LEMMA EndTyped ==
  ASSUME CallersTyped, NEW t \in Callers, NEW how \in EndsOf(t), EndsAs(t, how)
  PROVE  CallersTyped'
<1>1. how \in CallerSteps /\ (how = "given up") \in BOOLEAN
  BY StepNames DEF EndsOf
<1> QED BY <1>1 DEF EndsAs, CallersTyped, CallerRecord

LEMMA FreshTyped ==
  ASSUME NEW s \in CallerSteps, NEW n \in Nat
  PROVE  Fresh(s, n) \in CallerRecord
  BY TokenValues DEF Fresh, CallerRecord

-----------------------------------------------------------------------------
(* The types.                                                              *)

LEMMA CallersStayTyped ==
  ASSUME PoolTyped, NEW t \in Callers,
         \/ Request(t) \/ TakeStored(t) \/ BeginAcquire(t) \/ AnswerAcquire(t)
         \/ StoreAcquired(t) \/ Accepted(t) \/ Refused(t) \/ Invalidate(t)
         \/ Unusable(t) \/ Outage(t)
  PROVE  CallersTyped'
<1> USE DEF PoolTyped
<1>1. CASE Request(t)
  <2>1. caller[t].requests + 1 \in Nat
    BY DEF CallersTyped, CallerRecord
  <2> QED BY <1>1, <2>1, FreshTyped, StepNames DEF Request, CallersTyped
<1>2. CASE TakeStored(t)
  <2>1. provider.token \in Epochs /\ "sending" \in CallerSteps
    BY StepNames DEF ProviderTyped
  <2> QED BY <1>2, <2>1 DEF TakeStored, CallersTyped, CallerRecord
<1>3. CASE BeginAcquire(t) \/ StoreAcquired(t) \/ Accepted(t) \/ Invalidate(t)
  BY <1>3, SentTyped, StepNames DEF BeginAcquire, StoreAcquired, Accepted, Invalidate
<1>4. CASE AnswerAcquire(t)
  <2>1. epoch \in Epochs /\ "acquired" \in CallerSteps
    BY TokenValues, StepNames
  <2> QED BY <1>4, <2>1 DEF AnswerAcquire, CallersTyped, CallerRecord
<1>5. CASE Refused(t)
  <2>1. epoch \in Epochs /\ {"refused", "given up"} \subseteq CallerSteps
    BY TokenValues, StepNames
  <2> QED BY <1>5, <2>1 DEF Refused, CallersTyped, CallerRecord
<1>6. ASSUME NEW how \in EndsOf(t), EndsAs(t, how)
      PROVE  CallersTyped'
  BY <1>6, EndTyped
<1>7. CASE Unusable(t)
  BY <1>6, <1>7 DEF Unusable
<1>8. CASE Outage(t)
  <2>1. caller[t].attempt + 1 \in Nat
    BY DEF CallersTyped, CallerRecord
  <2>2. CASE caller' = [caller EXCEPT ![t].attempt = @ + 1]
    BY <2>1, <2>2 DEF CallersTyped, CallerRecord
  <2> QED BY <1>6, <1>8, <2>2 DEF Outage
<1> QED BY <1>1, <1>2, <1>3, <1>4, <1>5, <1>7, <1>8

LEMMA TypesKept ==
  ASSUME PoolTyped, [TokenNext]_tokenVars
  PROVE  PoolTyped'
<1> USE DEF PoolTyped
<1>1. CASE Expire
  BY <1>1 DEF Expire, CallersTyped, ProviderTyped
<1>2. ASSUME NEW t \in Callers,
             \/ Request(t) \/ TakeStored(t) \/ BeginAcquire(t) \/ AnswerAcquire(t)
             \/ StoreAcquired(t) \/ Accepted(t) \/ Refused(t) \/ Invalidate(t)
         \/ Unusable(t) \/ Outage(t)
      PROVE  PoolTyped'
  <2>1. CASE Request(t) \/ TakeStored(t) \/ AnswerAcquire(t) \/ Accepted(t) \/ Refused(t)
    <3>1. UNCHANGED <<provider, epoch, outages>>
      BY <2>1 DEF Request, TakeStored, AnswerAcquire, Accepted, Refused
    <3> QED BY <1>2, <3>1, CallersStayTyped DEF ProviderTyped
  <2>2. CASE BeginAcquire(t)
    BY <1>2, <2>2, CallersStayTyped DEF BeginAcquire, ProviderTyped
  <2>3. CASE StoreAcquired(t)
    <3>1. caller[t].token \in Epochs
      BY DEF CallersTyped, CallerRecord
    <3> QED BY <1>2, <2>3, <3>1, CallersStayTyped DEF StoreAcquired, ProviderTyped
  <2>4. CASE Invalidate(t)
    BY <1>2, <2>4, TokenValues, CallersStayTyped DEF Invalidate, ProviderTyped
  <2>5. CASE Unusable(t) \/ Outage(t)
    <3>1. UNCHANGED provider \/ provider' = [provider EXCEPT !.holder = Nobody]
      BY <2>5 DEF Unusable, Outage, EndsAs
    <3>2. epoch' = epoch /\ outages' \in Nat
      BY <2>5 DEF Unusable, Outage
    <3> QED BY <1>2, <3>1, <3>2, CallersStayTyped DEF ProviderTyped
  <2> QED BY <1>2, <2>1, <2>2, <2>3, <2>4, <2>5
<1>3. CASE UNCHANGED tokenVars
  BY <1>3 DEF tokenVars, CallersTyped, ProviderTyped
<1> QED BY <1>1, <1>2, <1>3 DEF TokenNext

LEMMA FieldTypes ==
  ASSUME PoolTyped
  PROVE  Numbers
<1>1. \A e \in Epochs : e \in Int /\ -1 <= e
  BY DEF Epochs
<1>2. epoch \in Int /\ 0 <= epoch /\ provider.token \in Epochs
  BY DEF PoolTyped, ProviderTyped
<1>3. \A x \in Callers : /\ caller[x].token \in Epochs /\ caller[x].refused \in Epochs
                        /\ caller[x].again \in Epochs
  BY DEF PoolTyped, CallersTyped, CallerRecord
<1> QED BY <1>1, <1>2, <1>3 DEF Numbers

-----------------------------------------------------------------------------
(* What each step does to the thread that takes it, and what that leaves   *)
(* of the invariant.                                                       *)
LEMMA FreshnessKept ==
  ASSUME PoolInv, [TokenNext]_tokenVars
  PROVE  LockHeld' /\ NoStaleToken' /\ GivesUpForCause'
<1> /\ PoolTyped /\ LockHeld /\ NoStaleToken /\ GivesUpForCause
    /\ Numbers
    BY FieldTypes DEF PoolInv
<1>1. ASSUME NEW t \in Callers, Request(t)
      PROVE  LockHeld' /\ NoStaleToken' /\ GivesUpForCause'
  <2>1. /\ \A x \in Callers : x # t => caller'[x] = caller[x]
        /\ epoch' = epoch
        /\ caller[t].at \in {"idle", "answered", "failed", "given up"}
        /\ caller'[t].at = "wanting" /\ caller'[t].token = NoToken /\ caller'[t].refused = Never
        /\ provider' = provider
    BY <1>1 DEF Request, Fresh, PoolTyped, CallersTyped, ProviderTyped, CallerRecord
  <2>2. NoToken <= epoch /\ Never <= epoch /\ \A x \in Callers : Never <= caller[x].token
    BY DEF Numbers, NoToken, Never
  <2>3. NoToken \in Int /\ Never \in Int /\ (provider.token = NoToken \/ Never <= provider.token)
    BY DEF Numbers, NoToken, Never
  <2>4. LockHeld'
    BY <2>1, NobodyAssumption DEF LockHeld
  <2>5. OfThePast'
    BY <2>1, <2>2 DEF NoStaleToken, OfThePast, Numbers
  <2>6. \A x \in Callers : TakesFresh(x)'
    <3>1. TakesFresh(t)'
      <4>1. caller'[t].refused <= provider'.token \/ provider'.token = NoToken
        BY <2>1, <2>3
      <4>2. \A y \in Callers : caller'[y].at = "acquired" =>
                                caller'[t].refused <= caller'[y].token
        BY <2>1, <2>2
      <4> QED BY <4>1, <4>2 DEF TakesFresh
    <3>2. ASSUME NEW x \in Callers, x # t PROVE TakesFresh(x)'
      <4>1. caller'[x] = caller[x] /\ provider' = provider
        BY <2>1, <3>2
      <4>2. \A y \in Callers : caller'[y].at = "acquired" => caller'[y] = caller[y]
        BY <2>1
      <4> QED BY <4>1, <4>2 DEF NoStaleToken, TakesFresh
    <3> QED BY <3>1, <3>2
  <2>7. \A x \in Callers : HasFresh(x)'
    BY <2>1 DEF NoStaleToken, OfThePast, TakesFresh, HasFresh, Numbers, NoToken, Never
  <2>8. GivesUpForCause'
    BY <2>1 DEF NoStaleToken, OfThePast, Numbers, GivesUpForCause
  <2> QED BY <2>4, <2>5, <2>6, <2>7, <2>8 DEF NoStaleToken
<1>2. ASSUME NEW t \in Callers, TakeStored(t)
      PROVE  LockHeld' /\ NoStaleToken' /\ GivesUpForCause'
  <2>1. /\ \A x \in Callers : x # t => caller'[x] = caller[x]
        /\ epoch' = epoch
        /\ caller[t].at = "wanting" /\ provider.holder = Nobody /\ provider.token # NoToken
        /\ caller'[t].at = "sending" /\ caller'[t].token = provider.token
        /\ caller'[t].refused = caller[t].refused
        /\ provider' = provider
    BY <1>2 DEF TakeStored, Free, PoolTyped, CallersTyped, ProviderTyped, CallerRecord
  <2>2. LockHeld'
    BY <2>1, NobodyAssumption DEF LockHeld
  <2>3. OfThePast'
    BY <2>1 DEF NoStaleToken, OfThePast, Numbers, NoToken, Never
  <2>4. \A x \in Callers : TakesFresh(x)'
    BY <2>1, NobodyAssumption
       DEF LockHeld, NoStaleToken, OfThePast, TakesFresh, Numbers, NoToken, Never
  <2>5. \A x \in Callers : HasFresh(x)'
    BY <2>1 DEF NoStaleToken, OfThePast, TakesFresh, HasFresh, Numbers, NoToken, Never
  <2>6. GivesUpForCause'
    BY <2>1 DEF NoStaleToken, OfThePast, Numbers, GivesUpForCause
  <2> QED BY <2>2, <2>3, <2>4, <2>5, <2>6 DEF NoStaleToken
<1>3. ASSUME NEW t \in Callers, BeginAcquire(t)
      PROVE  LockHeld' /\ NoStaleToken' /\ GivesUpForCause'
  <2>1. /\ \A x \in Callers : x # t => caller'[x] = caller[x]
        /\ epoch' = epoch
        /\ caller[t].at = "wanting" /\ provider.holder = Nobody
        /\ caller'[t].at = "acquiring"
        /\ caller'[t].token = caller[t].token /\ caller'[t].refused = caller[t].refused
        /\ provider'.token = provider.token /\ provider'.holder = t
    BY <1>3 DEF BeginAcquire, Free, Sent, PoolTyped, CallersTyped, ProviderTyped, CallerRecord
  <2>2. LockHeld'
    BY <2>1, NobodyAssumption DEF LockHeld
  <2>3. OfThePast'
    BY <2>1 DEF NoStaleToken, OfThePast, Numbers, NoToken, Never
  <2>4. \A x \in Callers : TakesFresh(x)'
    BY <2>1, NobodyAssumption
       DEF LockHeld, NoStaleToken, OfThePast, TakesFresh, Numbers, NoToken, Never
  <2>5. \A x \in Callers : HasFresh(x)'
    BY <2>1 DEF NoStaleToken, OfThePast, TakesFresh, HasFresh, Numbers, NoToken, Never
  <2>6. GivesUpForCause'
    BY <2>1 DEF NoStaleToken, OfThePast, Numbers, GivesUpForCause
  <2> QED BY <2>2, <2>3, <2>4, <2>5, <2>6 DEF NoStaleToken
<1>4. ASSUME NEW t \in Callers, AnswerAcquire(t)
      PROVE  LockHeld' /\ NoStaleToken' /\ GivesUpForCause'
  <2>1. /\ \A x \in Callers : x # t => caller'[x] = caller[x]
        /\ epoch' = epoch
        /\ caller[t].at = "acquiring"
        /\ caller'[t].at = "acquired" /\ caller'[t].token = epoch
        /\ caller'[t].refused = caller[t].refused
        /\ provider' = provider
    BY <1>4 DEF AnswerAcquire, PoolTyped, CallersTyped, ProviderTyped, CallerRecord
  <2>2. LockHeld'
    BY <2>1, NobodyAssumption DEF LockHeld
  <2>3. OfThePast'
    BY <2>1 DEF NoStaleToken, OfThePast, Numbers, NoToken, Never
  <2>4. \A x \in Callers : TakesFresh(x)'
    BY <2>1, NobodyAssumption
       DEF LockHeld, NoStaleToken, OfThePast, TakesFresh, Numbers, NoToken, Never
  <2>5. \A x \in Callers : HasFresh(x)'
    BY <2>1 DEF NoStaleToken, OfThePast, TakesFresh, HasFresh, Numbers, NoToken, Never
  <2>6. GivesUpForCause'
    BY <2>1 DEF NoStaleToken, OfThePast, Numbers, GivesUpForCause
  <2> QED BY <2>2, <2>3, <2>4, <2>5, <2>6 DEF NoStaleToken
<1>5. ASSUME NEW t \in Callers, StoreAcquired(t)
      PROVE  LockHeld' /\ NoStaleToken' /\ GivesUpForCause'
  <2>1. /\ \A x \in Callers : x # t => caller'[x] = caller[x]
        /\ epoch' = epoch
        /\ caller[t].at = "acquired" /\ caller'[t].at = "sending"
        /\ caller'[t].token = caller[t].token /\ caller'[t].refused = caller[t].refused
        /\ provider'.token = caller[t].token /\ provider'.holder = Nobody
    BY <1>5 DEF StoreAcquired, Sent, PoolTyped, CallersTyped, ProviderTyped, CallerRecord
  <2>2. LockHeld'
    BY <2>1, NobodyAssumption DEF LockHeld
  <2>3. OfThePast'
    BY <2>1 DEF NoStaleToken, OfThePast, Numbers, NoToken, Never
  <2>4. \A x \in Callers : TakesFresh(x)'
    BY <2>1, NobodyAssumption
       DEF LockHeld, NoStaleToken, OfThePast, TakesFresh, Numbers, NoToken, Never
  <2>5. \A x \in Callers : HasFresh(x)'
    BY <2>1 DEF NoStaleToken, OfThePast, TakesFresh, HasFresh, Numbers, NoToken, Never
  <2>6. GivesUpForCause'
    BY <2>1 DEF NoStaleToken, OfThePast, Numbers, GivesUpForCause
  <2> QED BY <2>2, <2>3, <2>4, <2>5, <2>6 DEF NoStaleToken
<1>6. ASSUME NEW t \in Callers, Accepted(t)
      PROVE  LockHeld' /\ NoStaleToken' /\ GivesUpForCause'
  <2>1. /\ \A x \in Callers : x # t => caller'[x] = caller[x]
        /\ epoch' = epoch
        /\ caller[t].at = "sending" /\ caller'[t].at = "answered"
        /\ caller'[t].token = caller[t].token /\ caller'[t].refused = caller[t].refused
        /\ provider' = provider
    BY <1>6 DEF Accepted, Sent, PoolTyped, CallersTyped, ProviderTyped, CallerRecord
  <2>2. LockHeld'
    BY <2>1, NobodyAssumption DEF LockHeld
  <2>3. OfThePast'
    BY <2>1 DEF NoStaleToken, OfThePast, Numbers, NoToken, Never
  <2>4. \A x \in Callers : TakesFresh(x)'
    BY <2>1, NobodyAssumption
       DEF LockHeld, NoStaleToken, OfThePast, TakesFresh, Numbers, NoToken, Never
  <2>5. \A x \in Callers : HasFresh(x)'
    BY <2>1 DEF NoStaleToken, OfThePast, TakesFresh, HasFresh, Numbers, NoToken, Never
  <2>6. GivesUpForCause'
    BY <2>1 DEF NoStaleToken, OfThePast, Numbers, GivesUpForCause
  <2> QED BY <2>2, <2>3, <2>4, <2>5, <2>6 DEF NoStaleToken
<1>7. ASSUME NEW t \in Callers, Refused(t)
      PROVE  LockHeld' /\ NoStaleToken' /\ GivesUpForCause'
  <2>1. /\ \A x \in Callers : x # t => caller'[x] = caller[x]
        /\ epoch' = epoch
        /\ caller[t].at = "sending" /\ caller[t].token # epoch
        /\ provider' = provider /\ caller'[t].token = caller[t].token
        /\ \/ /\ caller[t].refused = Never /\ caller'[t].refused = epoch
              /\ caller'[t].at = "refused"
           \/ /\ caller[t].refused # Never /\ caller'[t].refused = caller[t].refused
              /\ caller'[t].at = "given up" /\ caller'[t].again = epoch
    BY <1>7 DEF Refused, PoolTyped, CallersTyped, ProviderTyped, CallerRecord
  <2>2. LockHeld'
    BY <2>1, NobodyAssumption DEF LockHeld
  <2>3. OfThePast'
    <3>1. epoch <= epoch /\ caller[t].refused <= epoch /\ caller[t].token <= epoch
      BY DEF NoStaleToken, OfThePast, Numbers
    <3>2. caller'[t].refused <= epoch /\ caller'[t].token <= epoch
      BY <2>1, <3>1
    <3> QED BY <2>1, <3>2 DEF NoStaleToken, OfThePast
  <2>4. \A x \in Callers : TakesFresh(x)'
    BY <2>1, NobodyAssumption
       DEF LockHeld, NoStaleToken, OfThePast, TakesFresh, Numbers, NoToken, Never
  <2>5. \A x \in Callers : HasFresh(x)'
    BY <2>1 DEF NoStaleToken, OfThePast, TakesFresh, HasFresh, Numbers, NoToken, Never
  <2>6. GivesUpForCause'
    <3>1. caller[t].refused <= caller[t].token /\ caller[t].token <= epoch
      BY <2>1 DEF NoStaleToken, OfThePast, HasFresh
    <3>2. caller[t].refused \in Int /\ caller[t].token \in Int /\ epoch \in Int
      BY DEF Numbers
    <3>3. caller[t].token # epoch
      BY <2>1
    <3>4. epoch > caller[t].refused
      BY <3>1, <3>2, <3>3
    <3>5. caller'[t].at = "given up"
            => caller'[t].refused # Never /\ caller'[t].again > caller'[t].refused
      BY <2>1, <3>4
    <3> QED BY <2>1, <3>5 DEF GivesUpForCause
  <2> QED BY <2>2, <2>3, <2>4, <2>5, <2>6 DEF NoStaleToken
<1>8. ASSUME NEW t \in Callers, Invalidate(t)
      PROVE  LockHeld' /\ NoStaleToken' /\ GivesUpForCause'
  <2>1. /\ \A x \in Callers : x # t => caller'[x] = caller[x]
        /\ epoch' = epoch
        /\ caller[t].at = "refused" /\ provider.holder = Nobody
        /\ caller'[t].at = "wanting"
        /\ caller'[t].token = caller[t].token /\ caller'[t].refused = caller[t].refused
        /\ provider'.token = NoToken /\ provider'.holder = provider.holder
    BY <1>8 DEF Invalidate, MayInvalidate, Free, Sent, PoolTyped, CallersTyped,
                ProviderTyped, CallerRecord
  <2>2. LockHeld'
    BY <2>1, NobodyAssumption DEF LockHeld
  <2>3. OfThePast'
    BY <2>1 DEF NoStaleToken, OfThePast, Numbers, NoToken, Never
  <2>4. \A x \in Callers : TakesFresh(x)'
    BY <2>1, NobodyAssumption
       DEF LockHeld, NoStaleToken, OfThePast, TakesFresh, Numbers, NoToken, Never
  <2>5. \A x \in Callers : HasFresh(x)'
    BY <2>1 DEF NoStaleToken, OfThePast, TakesFresh, HasFresh, Numbers, NoToken, Never
  <2>6. GivesUpForCause'
    BY <2>1 DEF NoStaleToken, OfThePast, Numbers, GivesUpForCause
  <2> QED BY <2>2, <2>3, <2>4, <2>5, <2>6 DEF NoStaleToken
<1>9. ASSUME NEW t \in Callers, Unusable(t) \/ Outage(t)
      PROVE  LockHeld' /\ NoStaleToken' /\ GivesUpForCause'
  <2>1. /\ \A x \in Callers : x # t => caller'[x] = caller[x]
        /\ epoch' = epoch
        /\ caller[t].at \in {"acquiring", "sending"}
        /\ caller'[t].token = caller[t].token /\ caller'[t].refused = caller[t].refused
        /\ provider'.token = provider.token
        /\ \/ caller'[t].at = caller[t].at /\ provider' = provider
           \/ /\ caller'[t].at = "failed" \/ (caller'[t].at = "given up" /\ caller'[t].denied)
              /\ provider'.holder = IF provider.holder = t THEN Nobody ELSE provider.holder
    <3>1. \/ caller' = [caller EXCEPT ![t].attempt = @ + 1] /\ provider' = provider
          \/ \E how \in {"failed", "given up"} : EndsAs(t, how)
      BY <1>9 DEF Unusable, Outage, EndsOf
    <3>2. epoch' = epoch /\ caller[t].at \in {"acquiring", "sending"}
      BY <1>9 DEF Unusable, Outage
    <3>3. /\ DOMAIN caller = Callers /\ provider = [token |-> provider.token, holder |-> provider.holder]
          /\ caller[t] = [at |-> caller[t].at, token |-> caller[t].token, attempt |-> caller[t].attempt,
                          refused |-> caller[t].refused, again |-> caller[t].again,
                          denied |-> caller[t].denied, requests |-> caller[t].requests]
      BY DEF PoolTyped, CallersTyped, ProviderTyped, CallerRecord
    <3>4. CASE caller' = [caller EXCEPT ![t].attempt = @ + 1] /\ provider' = provider
      BY <3>2, <3>3, <3>4
    <3>5. ASSUME NEW how \in {"failed", "given up"}, EndsAs(t, how)
          PROVE  /\ \A x \in Callers : x # t => caller'[x] = caller[x]
                 /\ caller'[t].token = caller[t].token /\ caller'[t].refused = caller[t].refused
                 /\ provider'.token = provider.token
                 /\ caller'[t].at = how /\ caller'[t].denied = (how = "given up")
                 /\ provider'.holder = IF provider.holder = t THEN Nobody ELSE provider.holder
      BY <3>3, <3>5 DEF EndsAs
    <3> QED BY <3>1, <3>2, <3>4, <3>5
  <2>2. LockHeld'
    BY <2>1, NobodyAssumption DEF LockHeld
  <2>3. OfThePast'
    BY <2>1 DEF NoStaleToken, OfThePast, Numbers, NoToken, Never
  <2>4. \A x \in Callers : TakesFresh(x)'
    <3>1. \A x \in Callers :
             /\ caller'[x].token = caller[x].token /\ caller'[x].refused = caller[x].refused
             /\ caller'[x].at \in {"wanting", "acquiring", "acquired"} => caller'[x].at = caller[x].at
      BY <2>1
    <3>2. provider'.token = provider.token
      BY <2>1
    <3> QED BY <3>1, <3>2 DEF NoStaleToken, TakesFresh
  <2>5. \A x \in Callers : HasFresh(x)'
    BY <2>1 DEF NoStaleToken, OfThePast, TakesFresh, HasFresh, Numbers, NoToken, Never
  <2>6. GivesUpForCause'
    BY <2>1 DEF NoStaleToken, OfThePast, Numbers, GivesUpForCause
  <2> QED BY <2>2, <2>3, <2>4, <2>5, <2>6 DEF NoStaleToken
<1>10. CASE Expire
  <2>1. /\ \A x \in Callers : caller'[x] = caller[x]
        /\ provider' = provider /\ epoch' = epoch + 1
    BY <1>10 DEF Expire
  <2>2. LockHeld'
    BY <2>1 DEF LockHeld
  <2>3. OfThePast'
    BY <2>1 DEF NoStaleToken, OfThePast, Numbers
  <2>4. \A x \in Callers : TakesFresh(x)' /\ HasFresh(x)'
    BY <2>1 DEF NoStaleToken, TakesFresh, HasFresh
  <2>5. GivesUpForCause'
    BY <2>1 DEF GivesUpForCause
  <2> QED BY <2>2, <2>3, <2>4, <2>5 DEF NoStaleToken
<1>11. CASE UNCHANGED tokenVars
  BY <1>11 DEF tokenVars, LockHeld, NoStaleToken, OfThePast, TakesFresh, HasFresh,
               GivesUpForCause
<1> QED
  BY <1>1, <1>2, <1>3, <1>4, <1>5, <1>6, <1>7, <1>8, <1>9, <1>10, <1>11 DEF TokenNext

LEMMA PoolStarts == TokenInit => PoolInv
<1> SUFFICES ASSUME TokenInit PROVE PoolInv
    OBVIOUS
<1>1. CallersTyped
  BY FreshTyped, StepNames DEF TokenInit, CallersTyped
<1>2. PoolTyped
  BY <1>1, TokenValues DEF TokenInit, PoolTyped, ProviderTyped
<1>3. \A x \in Callers : caller[x].at = "idle" /\ caller[x].token = -1 /\ caller[x].refused = -1
  BY DEF TokenInit, Fresh, NoToken, Never
<1>4. LockHeld
  BY <1>3, NobodyAssumption DEF TokenInit, LockHeld
<1>5. NoStaleToken /\ GivesUpForCause
  <2>1. provider.token = NoToken /\ NoToken = -1 /\ epoch = 0
    BY DEF TokenInit, NoToken
  <2>2. OfThePast
    BY <1>3, <2>1 DEF OfThePast
  <2> QED BY <1>3, <2>1, <2>2 DEF NoStaleToken, TakesFresh, HasFresh, GivesUpForCause
<1> QED BY <1>2, <1>4, <1>5 DEF PoolInv

(* A request is given up as unauthenticated only when it was denied a      *)
(* token, or refused twice with an expiry in between, although threads     *)
(* drop each other's tokens: acquire_wmc_token, get_token, invalidate and  *)
(* the second try of the client, for any number of threads and expiries.   *)
THEOREM GivesUpInTheEnd == TokenSpec => []GivesUpForCause
<1>1. PoolInv /\ [TokenNext]_tokenVars => PoolInv'
  BY TypesKept, FreshnessKept DEF PoolInv
<1>2. PoolInv => GivesUpForCause
  BY DEF PoolInv
<1> QED
  BY PoolStarts, <1>1, <1>2, PTL DEF TokenSpec
=============================================================================
