-------------------------- MODULE StatRecords_proofs --------------------------
(* What the polling protocol leaves in the database, for any matches, processes *)
(* and answers: audit rows that tell one story, statistics that only a commit   *)
(* or a one-shot collection writes, an authority that never drops, and a        *)
(* finality the poller never takes away.                                        *)
EXTENDS StatPolling_proofs, FiniteSetTheorems

USE DEF Key

-----------------------------------------------------------------------------
(* Audit rows.                                                                 *)

\* Which statuses the two rows of one attempt may have together.
Pair(r, s) ==
  /\ r = "none"        <=> s = "none"
  /\ r = "running"     <=> s = "running"
  /\ r = "succeeded"   <=> s \in {"completed", "partial"}
  /\ r = "failed"      =>  s = "failed"
  /\ r = "interrupted" =>  s \in {"failed", "interrupted"}

Agrees(row) ==
  /\ Pair(row.registry, row.scrape)
  /\ row.committed => row.registry = "succeeded"

LEMMA AgreeEach ==
  /\ AuditRowsAgree  <=> \A m \in Match, g \in Gens : Agrees(attempt[<<m, g>>])
  /\ AuditRowsAgree' <=> \A m \in Match, g \in Gens : Agrees(attempt'[<<m, g>>])
  BY DEF AuditRowsAgree, Agrees, Pair

\* Every ending of an attempt writes a pair of statuses that agree.
LEMMA ClosedAgrees ==
  ASSUME Inv, AuditRowsAgree, NEW m \in Match, NEW g \in Gens,
         NEW r, NEW s, NEW c, Pair(r, s), r = "succeeded" \/ c = FALSE,
         attempt' = Closed(m, g, r, s, c)
  PROVE  AuditRowsAgree'
  <1> SUFFICES ASSUME NEW n \in Match, NEW h \in Gens PROVE Agrees(attempt'[<<n, h>>])
    BY AgreeEach
  <1>1. attempt \in [Key -> AttemptRow] /\ Agrees(attempt[<<n, h>>])
    BY InvIsTyped, AgreeEach
  <1>2. CASE <<n, h>> = <<m, g>>
    <2> DEFINE old == attempt[<<m, g>>]
               row == attempt'[<<n, h>>]
    <2>1. row = [old EXCEPT !.registry = r, !.scrape = s, !.committed = c, !.age = 0]
      BY <1>1, <1>2 DEF Closed
    <2>2. old \in AttemptRow
      BY <1>1
    <2> HIDE DEF old, row
    <2>3. row.registry = r /\ row.scrape = s
      BY <2>1, <2>2 DEF AttemptRow
    <2>4. c = FALSE => ~row.committed
      BY <2>1, <2>2 DEF AttemptRow
    <2>5. Agrees(row)
      BY <2>3, <2>4 DEF Agrees
    <2> QED BY <2>5 DEF row
  <1>3. CASE <<n, h>> # <<m, g>>
    BY <1>1, <1>3 DEF Closed
  <1> QED BY <1>2, <1>3

LEMMA LostLeaseAgrees ==
  ASSUME Inv, AuditRowsAgree, NEW m \in Match, NEW g \in Gens, attempt' = LostLease(m, g)
  PROVE  AuditRowsAgree'
  BY ClosedAgrees DEF LostLease, Pair

LEMMA CommitAgrees ==
  ASSUME Inv, AuditRowsAgree, NEW m \in Match, NEW g \in Gens, Commit(m, g)
  PROVE  AuditRowsAgree'
  <1> DEFINE s == ScrapeOutcome(task[<<m, g>>].result.kind)
  <1>1. attempt' = Closed(m, g, "succeeded", s, TRUE)
    BY DEF Commit
  <1>2. s \in {"completed", "partial"}
    BY DEF ScrapeOutcome
  <1>3. Pair("succeeded", s)
    BY <1>2 DEF Pair
  <1> HIDE DEF s
  <1> QED BY <1>1, <1>3, ClosedAgrees

LEMMA AttemptAgrees ==
  ASSUME Inv, AuditRowsAgree, NEW m \in Match, NEW g \in Gens, AttemptStep(m, g)
  PROVE  AuditRowsAgree'
  <1>1. CASE UNCHANGED attempt
    BY <1>1 DEF AuditRowsAgree
  <1>2. CASE StartAttempt(m, g) /\ attempt' # attempt
    <2> SUFFICES ASSUME NEW n \in Match, NEW h \in Gens PROVE Agrees(attempt'[<<n, h>>])
      BY AgreeEach
    <2>1. attempt' = [attempt EXCEPT ![<<m, g>>] =
            [registry |-> "running", scrape |-> "running", committed |-> FALSE,
             proc |-> task[<<m, g>>].proc, age |-> 0]]
      BY <1>2 DEF StartAttempt
    <2>2. CASE <<n, h>> = <<m, g>>
      <3>1. /\ attempt'[<<m, g>>].registry = "running" /\ attempt'[<<m, g>>].scrape = "running"
            /\ ~attempt'[<<m, g>>].committed
        BY <2>1, InvIsTyped
      <3>2. Agrees(attempt'[<<m, g>>])
        BY <3>1 DEF Agrees, Pair
      <3> QED BY <2>2, <3>2
    <2>3. CASE <<n, h>> # <<m, g>>
      BY <2>1, <2>3, InvIsTyped, AgreeEach
    <2> QED BY <2>2, <2>3
  <1>3. CASE ReleaseDisallowed(m, g) \/ Request(m, g) \/ Respond(m, g) \/ RequestFails(m, g)
               \/ Checkpoint(m, g) \/ LaneError(m, g)
    BY <1>1, <1>3 DEF ReleaseDisallowed, Request, Respond, RequestFails, Checkpoint, LaneError
  <1>4. CASE PersistSkip(m, g) /\ attempt' # attempt
    <2>1. Pair("succeeded", "completed")
      BY DEF Pair
    <2> QED BY <1>4, <2>1, ClosedAgrees, LostLeaseAgrees DEF PersistSkip
  <1>5. CASE PersistSuccess(m, g) /\ attempt' # attempt
    BY <1>5, CommitAgrees, LostLeaseAgrees DEF PersistSuccess
  <1>6. CASE PersistFailure(m, g) /\ attempt' # attempt
    <2>1. Pair("failed", "failed")
      BY DEF Pair
    <2> QED BY <1>6, <2>1, ClosedAgrees, LostLeaseAgrees DEF PersistFailure
  <1> QED BY <1>1, <1>2, <1>3, <1>4, <1>5, <1>6 DEF AttemptStep

LEMMA RecoverAgrees ==
  ASSUME Inv, AuditRowsAgree, NEW selected, Recover(selected)
  PROVE  AuditRowsAgree'
  <1> SUFFICES ASSUME NEW n \in Match, NEW h \in Gens PROVE Agrees(attempt'[<<n, h>>])
    BY AgreeEach
  <1>1. attempt[<<n, h>>] \in AttemptRow /\ Agrees(attempt[<<n, h>>])
    BY InvIsTyped, AgreeEach
  <1>2. attempt'[<<n, h>>] \in {attempt[<<n, h>>], Interrupted(attempt[<<n, h>>])}
    BY DEF Recover
  <1>3. Agrees(Interrupted(attempt[<<n, h>>]))
    <2> DEFINE old == attempt[<<n, h>>]
               row == Interrupted(old)
    <2>1. row.committed = old.committed
      BY <1>1 DEF Interrupted, AttemptRow
    <2>2. /\ row.registry = (IF old.registry = "running" THEN "interrupted" ELSE old.registry)
         /\ row.scrape = (IF old.scrape = "running" THEN "interrupted" ELSE old.scrape)
      BY <1>1 DEF Interrupted, AttemptRow
    <2> HIDE DEF old, row
    <2>3. Agrees(old)
      BY <1>1 DEF old
    <2>4. Agrees(row)
      BY <2>1, <2>2, <2>3 DEF Agrees, Pair
    <2> QED BY <2>4 DEF row, old
  <1> QED BY <1>1, <1>2, <1>3

LEMMA TickAgrees ==
  ASSUME Inv, AuditRowsAgree, Tick
  PROVE  AuditRowsAgree'
  <1> SUFFICES ASSUME NEW n \in Match, NEW h \in Gens PROVE Agrees(attempt'[<<n, h>>])
    BY AgreeEach
  <1>1. attempt[<<n, h>>] \in AttemptRow /\ Agrees(attempt[<<n, h>>])
    BY InvIsTyped, AgreeEach
  <1>2. attempt'[<<n, h>>] = AgedAttempt(attempt[<<n, h>>])
    BY DEF Tick
  <1>3. Agrees(AgedAttempt(attempt[<<n, h>>]))
    <2> DEFINE old == attempt[<<n, h>>]
               row == AgedAttempt(old)
    <2>1. row.committed = old.committed
      BY <1>1 DEF AgedAttempt, AttemptRow
    <2>2. row.registry = old.registry /\ row.scrape = old.scrape
      BY <1>1 DEF AgedAttempt, AttemptRow
    <2> HIDE DEF old, row
    <2>3. Agrees(old)
      BY <1>1 DEF old
    <2>4. Agrees(row)
      BY <2>1, <2>2, <2>3 DEF Agrees, Pair
    <2> QED BY <2>4 DEF row, old
  <1> QED BY <1>2, <1>3

LEMMA NextAgrees == Inv /\ AuditRowsAgree /\ [Next]_vars => AuditRowsAgree'
  <1> SUFFICES ASSUME Inv, AuditRowsAgree, [Next]_vars PROVE AuditRowsAgree'
    OBVIOUS
  <1>1. CASE UNCHANGED attempt
    BY <1>1 DEF AuditRowsAgree
  <1>2. ASSUME NEW m \in Match, NEW g \in Gens, AttemptStep(m, g)
        PROVE  AuditRowsAgree'
    BY <1>2, AttemptAgrees
  <1>3. ASSUME NEW p \in Proc, ProcessStep(p)
        PROVE  AuditRowsAgree'
    <2>1. CASE StartupRecovery(p)
      BY <2>1, RecoverAgrees DEF StartupRecovery
    <2>2. CASE ~StartupRecovery(p)
      BY <1>1, <1>3, <2>2
      DEF ProcessStep, EstablishInstance, StartupReconcile, WakeUp, ClaimDue, ClaimNothing,
          BeginShutdown, WorkerClosed, SchedulerShutdown, MarkGracefulShutdown, DrainLane,
          Exit, Crash
    <2> QED BY <2>1, <2>2
  <1>4. ASSUME NEW m \in Match, WriterStep(m)
        PROVE  AuditRowsAgree'
    BY <1>1, <1>4 DEF WriterStep, CollectStatus, RefreshMetadata, OneShotCollect,
                      OneShotPersist, WindowOpens
  <1>5. CASE OperatorRecovery
    BY <1>5, RecoverAgrees DEF OperatorRecovery
  <1>6. CASE Tick
    BY <1>6, TickAgrees
  <1>7. CASE UNCHANGED vars
    BY <1>1, <1>7 DEF vars
  <1> QED BY <1>2, <1>3, <1>4, <1>5, <1>6, <1>7 DEF Next

\* The registry row and the scrape row of an attempt agree whichever of the poller, the
\* lost-lease path and recovery closed them, and only a succeeded attempt committed.
THEOREM AuditsAgree == Spec => []AuditRowsAgree
  <1>1. Init => AuditRowsAgree
    BY DEF Init, AuditRowsAgree, NoAttempt
  <1> QED BY <1>1, NextAgrees, InitInv, NextInv, PTL DEF Spec

-----------------------------------------------------------------------------
(* Who writes statistics.                                                      *)

\* The transaction that commits finds its attempt running, so not yet committed.
LEMMA CommitCommits ==
  ASSUME Inv, AuditRowsAgree, NEW m \in Match, NEW g \in Gens, Running(m, g), Commit(m, g)
  PROVE  Commits(m, g)
  <1>1. attempt \in [Key -> AttemptRow] /\ Agrees(attempt[<<m, g>>])
    BY InvIsTyped, AgreeEach
  <1>2. ~attempt[<<m, g>>].committed
    BY <1>1 DEF Running, Agrees
  <1>3. attempt'[<<m, g>>].committed
    <2> DEFINE old == attempt[<<m, g>>]
               s   == ScrapeOutcome(task[<<m, g>>].result.kind)
    <2>1. attempt'[<<m, g>>] = [old EXCEPT !.registry = "succeeded", !.scrape = s,
                                          !.committed = TRUE, !.age = 0]
      BY <1>1 DEF Commit, Closed
    <2>2. old \in AttemptRow
      BY <1>1
    <2> HIDE DEF old, s
    <2> QED BY <2>1, <2>2 DEF AttemptRow
  <1> QED BY <1>2, <1>3 DEF Commits

ByPoller(m) ==
  \E g \in Gens : Commits(m, g) /\ stats'[m] = Recorded(stats[m], task[<<m, g>>].result)

ByOneShot(m) ==
  /\ oneShot[m].fetched /\ ~oneShot'[m].fetched
  /\ stats'[m] = Upserted(stats[m], oneShot[m].result)

LEMMA AttemptStats ==
  ASSUME Inv, AuditRowsAgree, NEW n \in Match, NEW g \in Gens, AttemptStep(n, g),
         NEW m \in Match, stats'[m] # stats[m]
  PROVE  ByPoller(m)
  <1>1. PersistSuccess(n, g) /\ stats' # stats
    BY DEF AttemptStep, ReleaseDisallowed, StartAttempt, PersistSkip, Request, Respond,
           RequestFails, Checkpoint, PersistFailure, LaneError
  <1>2. Running(n, g) /\ Commit(n, g)
    BY <1>1 DEF PersistSuccess
  <1>3. stats' = [stats EXCEPT ![n] = Recorded(stats[n], task[<<n, g>>].result)]
    BY <1>2 DEF Commit
  <1>4. m = n /\ stats'[m] = Recorded(stats[m], task[<<m, g>>].result)
    BY <1>3, InvIsTyped
  <1> QED BY <1>2, <1>4, CommitCommits DEF ByPoller

LEMMA StatsWriters ==
  ASSUME Inv, AuditRowsAgree, [Next]_vars, NEW m \in Match, stats'[m] # stats[m]
  PROVE  ByPoller(m) \/ ByOneShot(m)
  <1>1. ASSUME NEW n \in Match, NEW g \in Gens, AttemptStep(n, g)
        PROVE  ByPoller(m)
    BY <1>1, AttemptStats
  <1>2. ASSUME NEW p \in Proc, ProcessStep(p)
        PROVE  FALSE
    BY <1>2 DEF ProcessStep, EstablishInstance, StartupRecovery, StartupReconcile, WakeUp,
                ClaimDue, ClaimNothing, BeginShutdown, WorkerClosed, SchedulerShutdown,
                MarkGracefulShutdown, DrainLane, Exit, Crash
  <1>3. ASSUME NEW n \in Match, WriterStep(n)
        PROVE  ByOneShot(m)
    <2>1. OneShotPersist(n)
      BY <1>3 DEF WriterStep, CollectStatus, RefreshMetadata, OneShotCollect, WindowOpens
    <2>2. m = n /\ stats'[m] = Upserted(stats[m], oneShot[m].result)
      BY <2>1, InvIsTyped DEF OneShotPersist
    <2>3. oneShot'[m] = NoOneShot
      BY <2>1, <2>2, InvIsTyped DEF OneShotPersist
    <2> QED BY <2>1, <2>2, <2>3 DEF OneShotPersist, NoOneShot, ByOneShot
  <1>4. ~OperatorRecovery /\ ~Tick /\ ~(UNCHANGED vars)
    BY DEF OperatorRecovery, Tick, vars
  <1> QED BY <1>1, <1>2, <1>3, <1>4 DEF Next

\* Statistics change only by the commit of an attempt or by a one-shot collection that
\* stores what it fetched: whoever lost its lease leaves them alone.
THEOREM OnlyCommitsWrite == Spec => StatsNeedCommit
  <1>1. Inv /\ AuditRowsAgree /\ [Next]_vars =>
          [\A m \in Match : stats'[m] # stats[m] =>
              \/ \E g \in Gens : Commits(m, g)
              \/ oneShot[m].fetched /\ ~oneShot'[m].fetched]_vars
    BY StatsWriters DEF ByPoller, ByOneShot
  <1> QED BY <1>1, InitInv, NextInv, AuditsAgree, PTL DEF Spec, StatsNeedCommit

-----------------------------------------------------------------------------
(* What a write of statistics keeps.                                           *)

LEMMA UpsertedRaises ==
  ASSUME NEW rows \in Rows, NEW result, NEW p \in Player
  PROVE  Upserted(rows, result)[p] >= rows[p]
  BY DEF Upserted, Rows, Authority, AuthorityOf

\* No writer stores a row of a player under a lower authority than the one it replaces,
\* in whatever order poller and one-shot collections answer.
THEOREM AuthorityKept == Spec => AuthorityNeverDrops
  <1>1. ASSUME Inv, AuditRowsAgree, [Next]_vars, NEW m \in Match, NEW p \in Player
        PROVE  stats'[m][p] >= stats[m][p]
    <2>1. stats[m] \in Rows
      BY <1>1, InvIsTyped
    <2>2. stats[m][p] >= stats[m][p]
      BY <2>1 DEF Rows, Authority
    <2>3. stats'[m] = stats[m] \/ \E result : stats'[m] = Upserted(stats[m], result)
      BY <1>1, StatsWriters DEF ByPoller, ByOneShot, Recorded
    <2> QED BY <2>1, <2>2, <2>3, UpsertedRaises
  <1>2. Inv /\ AuditRowsAgree /\ [Next]_vars =>
          [\A m \in Match, p \in Player : stats'[m][p] >= stats[m][p]]_vars
    BY <1>1
  <1> QED BY <1>2, InitInv, NextInv, AuditsAgree, PTL DEF Spec, AuthorityNeverDrops

\* A concluded response over final rows leaves them final: whoever it adds, it adds
\* with the authority of a final snapshot.
LEMMA ConcludedStaysFinal ==
  ASSUME NEW rows \in Rows, Finality(rows) = "authoritative_complete",
         NEW result, result.kind = "concluded"
  PROVE  Finality(Upserted(rows, result)) = "authoritative_complete"
  <1> DEFINE more == Upserted(rows, result)
  <1>1. Satisfactory(rows)
    BY DEF Finality
  <1>2. more = [p \in Player |-> IF p \in result.players /\ 2 >= rows[p] THEN 2 ELSE rows[p]]
    BY DEF Upserted, AuthorityOf
  <1>3. \A p \in Player : rows[p] \in 0 .. 2
    BY DEF Rows, Authority
  <1>4. Authoritative(more) = Stored(more) /\ Authoritative(rows) \subseteq Authoritative(more)
    BY <1>1, <1>2, <1>3 DEF Satisfactory, Authoritative, Stored, NoRow
  <1>5. Cardinality(Authoritative(more)) >= MinRows
    <2>1. IsFiniteSet(Authoritative(more))
      BY PlayerAssumption, FS_Subset DEF Authoritative
    <2>2. IsFiniteSet(Authoritative(rows))
      BY PlayerAssumption, FS_Subset DEF Authoritative
    <2>3. Cardinality(Authoritative(rows)) <= Cardinality(Authoritative(more))
      BY <1>4, <2>1, FS_Subset
    <2>4. Cardinality(Authoritative(rows)) \in Nat /\ Cardinality(Authoritative(more)) \in Nat
      BY <2>1, <2>2, FS_CardinalityType
    <2> QED BY <1>1, <2>3, <2>4, PlayerAssumption DEF Satisfactory
  <1> HIDE DEF more
  <1>6. Satisfactory(more)
    BY <1>1, <1>4, <1>5 DEF Satisfactory
  <1> QED BY <1>6 DEF Finality, more

LEMMA PollerKeeps ==
  ASSUME Inv, AuditRowsAgree, [Next]_vars, NEW m \in Match,
         Finality(stats[m]) = "authoritative_complete",
         ~(oneShot[m].fetched /\ ~oneShot'[m].fetched)
  PROVE  Finality(stats'[m]) = "authoritative_complete"
  <1>1. stats[m] \in Rows
    BY InvIsTyped
  <1>2. stats'[m] = stats[m] \/ \E result : stats'[m] = Recorded(stats[m], result)
    BY StatsWriters DEF ByPoller, ByOneShot
  <1>3. ASSUME NEW result, stats'[m] = Recorded(stats[m], result)
        PROVE  Finality(stats'[m]) = "authoritative_complete"
    BY <1>1, <1>3, ConcludedStaysFinal DEF Recorded, Kept
  <1> QED BY <1>2, <1>3

\* Poller and recovery never take a match's finality away: a final snapshot gives way
\* only to another one.
THEOREM FinalityOfPoller == Spec => PollerKeepsFinality
  <1>1. Inv /\ AuditRowsAgree /\ [Next]_vars =>
          [\A m \in Match :
             Finality(stats[m]) = "authoritative_complete"
             /\ ~(oneShot[m].fetched /\ ~oneShot'[m].fetched) =>
               Finality(stats'[m]) = "authoritative_complete"]_vars
    BY PollerKeeps
  <1> QED BY <1>1, InitInv, NextInv, AuditsAgree, PTL DEF Spec, PollerKeepsFinality

-----------------------------------------------------------------------------
(* The history of an attempt: no rows before it starts, no change after it ends.*)

\* The rows that start an attempt of process p, and the window recovery frees.
Fresh(p) == [registry |-> "running", scrape |-> "running", committed |-> FALSE,
             proc |-> p, age |-> 0]
Freed(m) == Reconciled(Unleased(window[m], "due", Unset), Fact(m, matchStatus[m]), stats[m])

\* A step leaves the rows of an attempt alone, starts them under the lease, or finds
\* them running: then it ends them with the task, repairs them or lets them age.
Moves(m, g) ==
  LET old == attempt[<<m, g>>]
      new == attempt'[<<m, g>>]
  IN  \/ new = old
      \/ /\ task[<<m, g>>].pc = "queued" /\ task'[<<m, g>>].pc = "started"
         /\ Owned(m, g) /\ window' = window
         /\ new = Fresh(task[<<m, g>>].proc)
      \/ /\ old.registry = "running" /\ new.registry # "running"
         /\ \/ task'[<<m, g>>].pc = "none"
            \/ g \in Repaired(m) /\ (Resets(m) => window'[m] = Freed(m))
      \/ Tick /\ old.registry = "running" /\ new = AgedAttempt(old)

LEMMA ClosedMoves ==
  ASSUME Inv, NEW n \in Match, NEW h \in Gens, Running(n, h), task' = Returned(n, h),
         NEW r, r # "running", NEW s, NEW c, attempt' = Closed(n, h, r, s, c),
         NEW m \in Match, NEW g \in Gens
  PROVE  Moves(m, g)
  <1>1. CASE <<m, g>> = <<n, h>>
    <2> DEFINE old == attempt[<<n, h>>]
    <2>1. old \in AttemptRow
      BY InvIsTyped
    <2>2. [old EXCEPT !.registry = r, !.scrape = s, !.committed = c, !.age = 0].registry = r
      BY <2>1 DEF AttemptRow
    <2>3. attempt'[<<n, h>>].registry # "running"
      BY <2>2, InvIsTyped DEF Closed
    <2>4. task'[<<n, h>>].pc = "none"
      BY InvIsTyped DEF Returned, NoTask
    <2> QED BY <1>1, <2>3, <2>4 DEF Running, Moves
  <1>2. CASE <<m, g>> # <<n, h>>
    BY <1>2, InvIsTyped DEF Closed, Moves
  <1> QED BY <1>1, <1>2

LEMMA StartMoves ==
  ASSUME Inv, NEW n \in Match, NEW h \in Gens, StartAttempt(n, h),
         NEW m \in Match, NEW g \in Gens
  PROVE  Moves(m, g)
  <1>1. CASE UNCHANGED attempt
    BY <1>1 DEF Moves
  <1>2. CASE ~(UNCHANGED attempt)
    <2>1. /\ attempt' = [attempt EXCEPT ![<<n, h>>] = Fresh(task[<<n, h>>].proc)]
          /\ task' = [task EXCEPT ![<<n, h>>].pc = "started"]
          /\ task[<<n, h>>].pc = "queued" /\ Owned(n, h) /\ window' = window
      BY <1>2 DEF StartAttempt, Fresh
    <2>2. CASE <<m, g>> = <<n, h>>
      <3>1. attempt'[<<n, h>>] = Fresh(task[<<n, h>>].proc)
        BY <2>1, InvIsTyped
      <3>2. task'[<<n, h>>].pc = "started"
        BY <2>1, InvIsTyped DEF Task
      <3>3. m = n /\ g = h
        BY <2>2
      <3> QED BY <2>1, <3>1, <3>2, <3>3 DEF Moves
    <2>3. CASE <<m, g>> # <<n, h>>
      BY <2>1, <2>3, InvIsTyped DEF Moves
    <2> QED BY <2>2, <2>3
  <1> QED BY <1>1, <1>2

LEMMA AttemptStepMoves ==
  ASSUME Inv, NEW n \in Match, NEW h \in Gens, AttemptStep(n, h),
         NEW m \in Match, NEW g \in Gens
  PROVE  Moves(m, g)
  <1>1. CASE UNCHANGED attempt
    BY <1>1 DEF Moves
  <1>2. CASE StartAttempt(n, h)
    BY <1>2, StartMoves
  <1>3. CASE ReleaseDisallowed(n, h) \/ Request(n, h) \/ Respond(n, h) \/ RequestFails(n, h)
               \/ Checkpoint(n, h) \/ LaneError(n, h)
    BY <1>1, <1>3 DEF ReleaseDisallowed, Request, Respond, RequestFails, Checkpoint, LaneError
  <1>4. CASE PersistSkip(n, h)
    BY <1>1, <1>4, ClosedMoves DEF PersistSkip, LostLease
  <1>5. CASE PersistSuccess(n, h)
    BY <1>1, <1>5, ClosedMoves DEF PersistSuccess, Commit, LostLease
  <1>6. CASE PersistFailure(n, h)
    BY <1>1, <1>6, ClosedMoves DEF PersistFailure, LostLease
  <1> QED BY <1>2, <1>3, <1>4, <1>5, <1>6 DEF AttemptStep

LEMMA RecoverMoves ==
  ASSUME Inv, AuditRowsAgree, NEW selected, Recover(selected), NEW m \in Match, NEW g \in Gens
  PROVE  Moves(m, g)
  <1>1. CASE m \in selected /\ g \in Repaired(m)
    <2>1. g \in OpenRows(m)
      BY <1>1 DEF Repaired
    <2>2. Agrees(attempt[<<m, g>>]) /\ attempt[<<m, g>>] \in AttemptRow
      BY AgreeEach, InvIsTyped
    <2>3. attempt[<<m, g>>].registry = "running"
      BY <2>1, <2>2 DEF OpenRows, Agrees, Pair
    <2>4. attempt'[<<m, g>>] = Interrupted(attempt[<<m, g>>])
      BY <1>1 DEF Recover
    <2>5. attempt'[<<m, g>>].registry # "running"
      BY <2>2, <2>4 DEF Interrupted, AttemptRow
    <2>6. Resets(m) => window'[m] = Freed(m)
      BY <1>1 DEF Recover, Freed
    <2> QED BY <1>1, <2>3, <2>5, <2>6 DEF Moves
  <1>2. CASE ~(m \in selected /\ g \in Repaired(m))
    BY <1>2 DEF Recover, Moves
  <1> QED BY <1>1, <1>2

LEMMA TickMoves ==
  ASSUME Inv, Tick, NEW m \in Match, NEW g \in Gens
  PROVE  Moves(m, g)
  <1>1. attempt[<<m, g>>] \in AttemptRow
    BY InvIsTyped
  <1>2. attempt'[<<m, g>>] = AgedAttempt(attempt[<<m, g>>])
    BY DEF Tick
  <1>3. attempt[<<m, g>>].registry # "running" =>
          AgedAttempt(attempt[<<m, g>>]) = attempt[<<m, g>>]
    BY <1>1 DEF AgedAttempt, AttemptRow
  <1> QED BY <1>2, <1>3 DEF Moves

LEMMA NextMoves ==
  ASSUME Inv, AuditRowsAgree, [Next]_vars, NEW m \in Match, NEW g \in Gens
  PROVE  Moves(m, g)
  <1>1. CASE UNCHANGED attempt
    BY <1>1 DEF Moves
  <1>2. ASSUME NEW n \in Match, NEW h \in Gens, AttemptStep(n, h)
        PROVE  Moves(m, g)
    BY <1>2, AttemptStepMoves
  <1>3. ASSUME NEW p \in Proc, ProcessStep(p)
        PROVE  Moves(m, g)
    <2>1. CASE StartupRecovery(p)
      BY <2>1, RecoverMoves DEF StartupRecovery
    <2>2. CASE ~StartupRecovery(p)
      BY <1>1, <1>3, <2>2
      DEF ProcessStep, EstablishInstance, StartupReconcile, WakeUp, ClaimDue, ClaimNothing,
          BeginShutdown, WorkerClosed, SchedulerShutdown, MarkGracefulShutdown, DrainLane,
          Exit, Crash
    <2> QED BY <2>1, <2>2
  <1>4. ASSUME NEW n \in Match, WriterStep(n)
        PROVE  Moves(m, g)
    BY <1>1, <1>4 DEF WriterStep, CollectStatus, RefreshMetadata, OneShotCollect,
                      OneShotPersist, WindowOpens
  <1>5. CASE OperatorRecovery
    BY <1>5, RecoverMoves DEF OperatorRecovery
  <1>6. CASE Tick
    BY <1>6, TickMoves
  <1>7. CASE UNCHANGED vars
    BY <1>1, <1>7 DEF vars
  <1> QED BY <1>2, <1>3, <1>4, <1>5, <1>6, <1>7 DEF Next

\* Every step but the claim keeps the generation of a window.
LEMMA GenKept ==
  ASSUME NEW w \in Row, NEW s, NEW d, NEW f, NEW fact, NEW rows, NEW p
  PROVE  /\ Unleased(w, s, d).gen = w.gen /\ Reconciled(w, fact, rows).gen = w.gen
         /\ AgedWindow(w).gen = w.gen /\ Released(w).gen = w.gen
         /\ [Unleased(w, s, d) EXCEPT !.finality = f].gen = w.gen
         /\ Reconciled(Unleased(w, s, d), fact, rows).gen = w.gen
         /\ Claimed(w, p).gen = w.gen + 1
  BY DEF Row, WindowRow, Unleased, Reconciled, AgedWindow, Released, Claimed

LEMMA AttemptStepGen ==
  ASSUME Inv, NEW n \in Match, NEW g \in Gens, AttemptStep(n, g), NEW m \in Match
  PROVE  window'[m].gen = window[m].gen
  <1>1. window \in [Match -> Row] /\ window[m] \in Row /\ window[n] \in Row
    BY InvIsTyped
  <1>2. CASE UNCHANGED window
    BY <1>2
  <1>3. CASE ReleaseDisallowed(n, g)
    BY <1>1, <1>3, GenKept DEF ReleaseDisallowed
  <1>4. CASE StartAttempt(n, g) \/ Request(n, g) \/ Respond(n, g) \/ RequestFails(n, g)
               \/ Checkpoint(n, g) \/ LaneError(n, g)
    BY <1>2, <1>4 DEF StartAttempt, Request, Respond, RequestFails, Checkpoint, LaneError
  <1>5. ASSUME NEW s, NEW d, window' = [window EXCEPT ![n] = Unleased(@, s, d)]
        PROVE  window'[m].gen = window[m].gen
    <2>1. Unleased(window[n], s, d).gen = window[n].gen
      BY <1>1, GenKept
    <2> QED BY <1>1, <1>5, <2>1
  <1>6. CASE PersistSkip(n, g)
    BY <1>2, <1>5, <1>6 DEF PersistSkip
  <1>7. CASE PersistFailure(n, g)
    BY <1>2, <1>5, <1>7 DEF PersistFailure
  <1>8. CASE PersistSuccess(n, g) /\ ~(UNCHANGED window)
    <2>1. Commit(n, g)
      BY <1>8 DEF PersistSuccess
    <2>2. PICK s, d, f :
            window' = [window EXCEPT ![n] = [Unleased(@, s, d) EXCEPT !.finality = f]]
      BY <2>1 DEF Commit
    <2>3. [Unleased(window[n], s, d) EXCEPT !.finality = f].gen = window[n].gen
      BY <1>1, GenKept
    <2> QED BY <1>1, <2>2, <2>3
  <1> QED BY <1>2, <1>3, <1>4, <1>6, <1>7, <1>8 DEF AttemptStep

LEMMA GenGrows ==
  ASSUME Inv, [Next]_vars, NEW m \in Match
  PROVE  window'[m].gen >= window[m].gen
  <1>1. window \in [Match -> Row] /\ window[m] \in Row /\ window[m].gen \in Nat
    BY InvIsTyped DEF Row, WindowRow
  <1>2. SUFFICES window'[m].gen = window[m].gen \/ window'[m].gen = window[m].gen + 1
    BY <1>1
  <1>3. ASSUME NEW n \in Match, NEW g \in Gens, AttemptStep(n, g)
        PROVE  window'[m].gen = window[m].gen
    BY <1>3, AttemptStepGen
  <1>4. ASSUME NEW selected, Recover(selected)
        PROVE  window'[m].gen = window[m].gen
    <2>1. \/ window'[m] = window[m]
          \/ window'[m] = Reconciled(Unleased(window[m], "due", Unset),
                                     Fact(m, matchStatus[m]), stats[m])
      BY <1>4 DEF Recover
    <2>2. Reconciled(Unleased(window[m], "due", Unset), Fact(m, matchStatus[m]), stats[m]).gen
            = window[m].gen
      BY <1>1, GenKept
    <2> QED BY <2>1, <2>2
  <1>5. ASSUME NEW p \in Proc, ProcessStep(p)
        PROVE  window'[m].gen = window[m].gen \/ window'[m].gen = window[m].gen + 1
    <2>1. CASE StartupRecovery(p)
      BY <1>4, <2>1 DEF StartupRecovery
    <2>2. CASE StartupReconcile(p)
      <3>1. window'[m] = Reconciled(window[m], Fact(m, matchStatus[m]), stats[m])
        BY <2>2 DEF StartupReconcile, Planned
      <3> QED BY <1>1, <3>1, GenKept
    <2>3. CASE ClaimDue(p)
      <3>1. window'[m] \in {window[m], Claimed(window[m], p)}
        BY <2>3 DEF ClaimDue
      <3> QED BY <1>1, <3>1, GenKept
    <2>4. CASE ~StartupRecovery(p) /\ ~StartupReconcile(p) /\ ~ClaimDue(p)
      BY <1>5, <2>4 DEF ProcessStep, EstablishInstance, WakeUp, ClaimNothing, BeginShutdown,
                        WorkerClosed, SchedulerShutdown, MarkGracefulShutdown, DrainLane,
                        Exit, Crash
    <2> QED BY <2>1, <2>2, <2>3, <2>4
  <1>6. ASSUME NEW n \in Match, WriterStep(n)
        PROVE  window'[m].gen = window[m].gen
    <2>1. ASSUME NEW d, AdvanceStatus(n, d) PROVE window'[m].gen = window[m].gen
      BY <1>1, <2>1, GenKept DEF AdvanceStatus, Planned
    <2> QED BY <1>6, <2>1 DEF WriterStep, CollectStatus, RefreshMetadata, OneShotCollect,
                              OneShotPersist, WindowOpens
  <1>7. CASE OperatorRecovery
    BY <1>4, <1>7 DEF OperatorRecovery
  <1>8. CASE Tick
    BY <1>1, <1>8, GenKept DEF Tick
  <1>9. CASE UNCHANGED vars
    BY <1>9 DEF vars
  <1> QED BY <1>3, <1>5, <1>6, <1>7, <1>8, <1>9 DEF Next

\* A step ends a task, keeps its place, moves it on within its attempt, starts it under
\* the lease, or makes it for a fresh claim; a task stays with its process.
TaskMoves(m, g) ==
  LET old == task[<<m, g>>]
      new == task'[<<m, g>>]
  IN  \/ new.pc = "none"
      \/ new.pc = old.pc /\ new.proc = old.proc
      \/ /\ old.pc \notin {"none", "refused"} /\ new.pc \notin {"none", "queued", "refused"}
         /\ new.proc = old.proc
         /\ old.pc = "queued" => /\ Owned(m, g) /\ window' = window
                                 /\ attempt'[<<m, g>>] = Fresh(old.proc)
      \/ /\ g = window[m].gen + 1 /\ g = window'[m].gen /\ g = window'[m].token
         /\ new.pc \in {"queued", "refused"} /\ new.proc = window'[m].owner
         /\ attempt' = attempt

LEMMA RaisedMoves ==
  ASSUME Inv, NEW n \in Match, NEW h \in Gens,
         task' \in {Raised(n, h), Returned(n, h)}, NEW m \in Match, NEW g \in Gens
  PROVE  TaskMoves(m, g)
  <1> DEFINE old == task[<<m, g>>]
             new == task'[<<m, g>>]
  <1>1. old \in Task
    BY InvIsTyped
  <1>2. /\ [old EXCEPT !.awaited = FALSE].pc = old.pc
        /\ [old EXCEPT !.awaited = FALSE].proc = old.proc /\ NoTask.pc = "none"
    BY <1>1 DEF Task, NoTask
  <1>3. CASE task' = Returned(n, h)
    <2>1. new = IF <<m, g>> = <<n, h>> THEN NoTask ELSE old
      BY <1>3, InvIsTyped DEF Returned
    <2> QED BY <1>2, <2>1 DEF TaskMoves
  <1>4. CASE task' = Raised(n, h) /\ task[<<n, h>>].awaited
    <2>1. new \in {NoTask, old, [old EXCEPT !.awaited = FALSE]}
      BY <1>4 DEF Raised
    <2>2. new.pc = "none" \/ (new.pc = old.pc /\ new.proc = old.proc)
      BY <1>2, <2>1
    <2> QED BY <2>2 DEF TaskMoves
  <1> QED BY <1>3, <1>4 DEF Raised

\* A task that moves on within one attempt.
LEMMA OnwardMoves ==
  ASSUME Inv, NEW n \in Match, NEW h \in Gens,
         task[<<n, h>>].pc \notin {"none", "queued", "refused"},
         NEW r, r.pc \notin {"none", "queued", "refused"}, r.proc = task[<<n, h>>].proc,
         task' = [task EXCEPT ![<<n, h>>] = r],
         NEW m \in Match, NEW g \in Gens
  PROVE  TaskMoves(m, g)
  <1>1. CASE <<m, g>> = <<n, h>>
    BY <1>1, InvIsTyped DEF TaskMoves
  <1>2. CASE <<m, g>> # <<n, h>>
    BY <1>2, InvIsTyped DEF TaskMoves
  <1> QED BY <1>1, <1>2

LEMMA PcMoves ==
  ASSUME Inv, NEW n \in Match, NEW h \in Gens,
         task[<<n, h>>].pc \notin {"none", "queued", "refused"},
         NEW pc \in {"checkpointed", "failing"},
         task' = [task EXCEPT ![<<n, h>>].pc = pc], NEW m \in Match, NEW g \in Gens
  PROVE  TaskMoves(m, g)
  <1>1. task[<<n, h>>] \in Task
    BY InvIsTyped
  <1>2. /\ [task[<<n, h>>] EXCEPT !.pc = pc].pc = pc
        /\ [task[<<n, h>>] EXCEPT !.pc = pc].proc = task[<<n, h>>].proc
    BY <1>1 DEF Task
  <1> QED BY <1>2, OnwardMoves

LEMMA StartedMoves ==
  ASSUME Inv, NEW n \in Match, NEW h \in Gens, StartAttempt(n, h),
         NEW m \in Match, NEW g \in Gens
  PROVE  TaskMoves(m, g)
  <1>1. CASE task' = Raised(n, h)
    BY <1>1, RaisedMoves
  <1>2. CASE task' # Raised(n, h)
    <2> DEFINE t == task[<<n, h>>]
    <2>1. /\ attempt' = [attempt EXCEPT ![<<n, h>>] = Fresh(t.proc)]
          /\ task' = [task EXCEPT ![<<n, h>>].pc = "started"]
          /\ t.pc = "queued" /\ Owned(n, h) /\ window' = window
      BY <1>2 DEF StartAttempt, Fresh
    <2>2. t \in Task /\ [t EXCEPT !.pc = "started"].pc = "started"
          /\ [t EXCEPT !.pc = "started"].proc = t.proc
      BY InvIsTyped DEF Task
    <2>3. CASE <<m, g>> = <<n, h>>
      <3>1. attempt'[<<n, h>>] = Fresh(t.proc) /\ task'[<<n, h>>] = [t EXCEPT !.pc = "started"]
        BY <2>1, InvIsTyped
      <3>2. m = n /\ g = h
        BY <2>3
      <3> QED BY <2>1, <2>2, <3>1, <3>2 DEF TaskMoves
    <2>4. CASE <<m, g>> # <<n, h>>
      BY <2>1, <2>4, InvIsTyped DEF TaskMoves
    <2> QED BY <2>3, <2>4
  <1> QED BY <1>1, <1>2

\* A batch of tasks forgotten by the process that held them.
LEMMA ForgottenMoves ==
  ASSUME Inv, NEW S, task' = [k \in Key |-> IF k \in S THEN NoTask ELSE task[k]],
         NEW m \in Match, NEW g \in Gens
  PROVE  TaskMoves(m, g)
  BY DEF TaskMoves, NoTask

LEMMA AttemptStepTasks ==
  ASSUME Inv, NEW n \in Match, NEW h \in Gens, AttemptStep(n, h),
         NEW m \in Match, NEW g \in Gens
  PROVE  TaskMoves(m, g)
  <1>1. CASE ReleaseDisallowed(n, h)
    BY <1>1, RaisedMoves DEF ReleaseDisallowed
  <1>2. CASE StartAttempt(n, h)
    BY <1>2, StartedMoves
  <1>3. CASE PersistSkip(n, h)
    BY <1>3, RaisedMoves DEF PersistSkip
  <1>4. CASE Request(n, h)
    <2> DEFINE r == [task[<<n, h>>] EXCEPT !.pc = "requesting",
                       !.lifecycle = Later(task[<<n, h>>].lifecycle, matchStatus[n])]
    <2>1. task[<<n, h>>] \in Task
      BY InvIsTyped
    <2>2. r.pc = "requesting" /\ r.proc = task[<<n, h>>].proc
      BY <2>1 DEF Task
    <2>3. task[<<n, h>>].pc = "started" /\ task' = [task EXCEPT ![<<n, h>>] = r]
      BY <1>4 DEF Request
    <2> HIDE DEF r
    <2> QED BY <2>2, <2>3, OnwardMoves
  <1>5. CASE Respond(n, h)
    <2> DEFINE t == task[<<n, h>>]
               r(a) == [t EXCEPT !.pc = "received", !.lifecycle = None,
                                 !.result = Collected(a, t.lifecycle)]
    <2>1. t \in Task
      BY InvIsTyped
    <2>2. \A a : r(a).pc = "received" /\ r(a).proc = t.proc
      BY <2>1 DEF Task
    <2>3. PICK a : t.pc = "requesting" /\ task' = [task EXCEPT ![<<n, h>>] = r(a)]
      BY <1>5 DEF Respond
    <2> HIDE DEF r
    <2> QED BY <2>2, <2>3, OnwardMoves
  <1>6. CASE RequestFails(n, h)
    <2> DEFINE r == [task[<<n, h>>] EXCEPT !.pc = "failing", !.lifecycle = None]
    <2>1. task[<<n, h>>] \in Task
      BY InvIsTyped
    <2>2. r.pc = "failing" /\ r.proc = task[<<n, h>>].proc
      BY <2>1 DEF Task
    <2>3. task[<<n, h>>].pc = "requesting" /\ task' = [task EXCEPT ![<<n, h>>] = r]
      BY <1>6 DEF RequestFails
    <2> HIDE DEF r
    <2> QED BY <2>2, <2>3, OnwardMoves
  <1>7. CASE Checkpoint(n, h)
    BY <1>7, PcMoves DEF Checkpoint
  <1>8. CASE PersistSuccess(n, h)
    BY <1>8, RaisedMoves, PcMoves DEF PersistSuccess
  <1>9. CASE PersistFailure(n, h)
    BY <1>9, RaisedMoves DEF PersistFailure
  <1>10. CASE LaneError(n, h)
    BY <1>10, RaisedMoves, PcMoves, ForgottenMoves DEF LaneError
  <1> QED BY <1>1, <1>2, <1>3, <1>4, <1>5, <1>6, <1>7, <1>8, <1>9, <1>10 DEF AttemptStep

LEMMA ClaimMoves ==
  ASSUME Inv, NEW p \in Proc, ClaimDue(p), NEW m \in Match, NEW g \in Gens
  PROVE  TaskMoves(m, g)
  <1>1. PICK S \in Batches(DueWindows) :
          /\ window' = [n \in Match |-> IF n \in S THEN Claimed(window[n], p) ELSE window[n]]
          /\ task' = [k \in Key |->
               IF k[1] \in S /\ k[2] = window[k[1]].gen + 1
               THEN [pc |-> IF k[1] \in Allowed THEN "queued" ELSE "refused", proc |-> p,
                     lifecycle |-> window[k[1]].lifecycle, result |-> NoResult,
                     awaited |-> TRUE, late |-> process[p].state # "up"]
               ELSE task[k]]
    BY DEF ClaimDue
  <1>2. <<m, g>> \in Key /\ <<m, g>>[1] = m /\ <<m, g>>[2] = g
    OBVIOUS
  <1>3. CASE m \in S /\ g = window[m].gen + 1
    <2>1. window'[m] = Claimed(window[m], p) /\ window[m] \in Row
      BY <1>1, <1>3, InvIsTyped
    <2>2. /\ Claimed(window[m], p).gen = g /\ Claimed(window[m], p).token = g
          /\ Claimed(window[m], p).owner = p
      BY <1>3, <2>1 DEF Row, WindowRow, Claimed
    <2>3. task'[<<m, g>>].pc \in {"queued", "refused"} /\ task'[<<m, g>>].proc = p
      BY <1>1, <1>2, <1>3
    <2> QED BY <1>3, <2>1, <2>2, <2>3 DEF ClaimDue, TaskMoves
  <1>4. CASE ~(m \in S /\ g = window[m].gen + 1)
    <2>1. task'[<<m, g>>] = task[<<m, g>>]
      BY <1>1, <1>2, <1>4
    <2> QED BY <2>1 DEF TaskMoves
  <1> QED BY <1>3, <1>4

LEMMA NextTasks ==
  ASSUME Inv, [Next]_vars, NEW m \in Match, NEW g \in Gens
  PROVE  TaskMoves(m, g)
  <1>1. CASE UNCHANGED task
    BY <1>1 DEF TaskMoves
  <1>2. ASSUME NEW n \in Match, NEW h \in Gens, AttemptStep(n, h)
        PROVE  TaskMoves(m, g)
    BY <1>2, AttemptStepTasks
  <1>3. ASSUME NEW p \in Proc, ProcessStep(p)
        PROVE  TaskMoves(m, g)
    <2>1. CASE ClaimDue(p)
      BY <2>1, ClaimMoves
    <2>2. CASE Crash(p)
      <3>1. task' = [k \in Key |-> IF k \in Tasks(p) THEN NoTask ELSE task[k]]
        BY <2>2 DEF Crash
      <3> QED BY <3>1, ForgottenMoves
    <2>3. CASE ~ClaimDue(p) /\ ~Crash(p)
      BY <1>1, <1>3, <2>3
      DEF ProcessStep, EstablishInstance, StartupRecovery, StartupReconcile, WakeUp,
          ClaimNothing, BeginShutdown, WorkerClosed, SchedulerShutdown, MarkGracefulShutdown,
          DrainLane, Exit
    <2> QED BY <2>1, <2>2, <2>3
  <1>4. ASSUME NEW n \in Match, WriterStep(n)
        PROVE  TaskMoves(m, g)
    BY <1>1, <1>4 DEF WriterStep, CollectStatus, RefreshMetadata, OneShotCollect,
                      OneShotPersist, WindowOpens
  <1>5. CASE OperatorRecovery \/ Tick \/ UNCHANGED vars
    BY <1>1, <1>5 DEF OperatorRecovery, Tick, vars
  <1> QED BY <1>2, <1>3, <1>4, <1>5 DEF Next

\* Generations that were never claimed have neither task nor rows, and a task that has
\* not started has no rows.
Unstarted ==
  \A m \in Match, g \in Gens :
    /\ g > window[m].gen => task[<<m, g>>].pc = "none" /\ attempt[<<m, g>>].registry = "none"
    /\ task[<<m, g>>].pc \in {"queued", "refused"} => attempt[<<m, g>>].registry = "none"

LEMMA NextUnstarted == Inv /\ AuditRowsAgree /\ Unstarted /\ [Next]_vars => Unstarted'
  <1> SUFFICES ASSUME Inv, AuditRowsAgree, Unstarted, [Next]_vars,
                      NEW m \in Match, NEW g \in Gens
               PROVE  /\ g > window'[m].gen =>
                           task'[<<m, g>>].pc = "none" /\ attempt'[<<m, g>>].registry = "none"
                      /\ task'[<<m, g>>].pc \in {"queued", "refused"} =>
                           attempt'[<<m, g>>].registry = "none"
    BY DEF Unstarted
  <1>1. window[m].gen \in Nat /\ window'[m].gen \in Nat /\ g \in Nat
    <2>1. window[m] \in Row /\ window'[m] \in Row
      BY InvIsTyped, InvIsTypedNext, NextInv
    <2> QED BY <2>1 DEF Row, WindowRow, Gens
  <1>2. window'[m].gen >= window[m].gen
    BY GenGrows
  <1>3. Moves(m, g) /\ TaskMoves(m, g)
    BY NextMoves, NextTasks
  <1>4. /\ g > window[m].gen => task[<<m, g>>].pc = "none" /\ attempt[<<m, g>>].registry = "none"
        /\ task[<<m, g>>].pc \in {"queued", "refused"} => attempt[<<m, g>>].registry = "none"
    BY DEF Unstarted
  <1> QED BY <1>1, <1>2, <1>3, <1>4 DEF Moves, TaskMoves

\* The rows of an attempt that ended never change again: recovery never overwrites what
\* the worker thread stored, nor the thread what recovery found.
THEOREM HistoryIsFinal == Spec => ClosedStaysClosed
  <1>1. Init => Unstarted
    BY DEF Init, Unstarted, NoTask, NoAttempt
  <1>2. ASSUME Inv, AuditRowsAgree, Unstarted, [Next]_vars, NEW k \in Key,
               attempt[k].registry \notin {"none", "running"}
        PROVE  attempt'[k] = attempt[k]
    <2>1. PICK m \in Match, g \in Gens : k = <<m, g>>
      OBVIOUS
    <2> QED BY <1>2, <2>1, NextMoves DEF Moves, Unstarted
  <1>3. Inv /\ AuditRowsAgree /\ Unstarted /\ [Next]_vars =>
          [\A k \in Key :
             attempt[k].registry \notin {"none", "running"} => attempt'[k] = attempt[k]]_vars
    BY <1>2
  <1> QED BY <1>1, <1>3, NextUnstarted, InitInv, NextInv, AuditsAgree, PTL
          DEF Spec, ClosedStaysClosed

-----------------------------------------------------------------------------
(* Completed windows.                                                          *)

\* Only matches with one-shot collections hold a fetched one.
OneShotsKnown == \A m \in Match : oneShot[m].fetched => m \in OneShotMatch

LEMMA NextOneShots == Inv /\ OneShotsKnown /\ [Next]_vars => OneShotsKnown'
  <1> SUFFICES ASSUME Inv, OneShotsKnown, [Next]_vars, NEW m \in Match, oneShot'[m].fetched
               PROVE  m \in OneShotMatch
    BY DEF OneShotsKnown
  <1>1. oneShot \in [Match -> OneShot]
    BY InvIsTyped
  <1>2. CASE oneShot'[m] = oneShot[m]
    BY <1>2 DEF OneShotsKnown
  <1>3. ASSUME NEW n \in Match, WriterStep(n)
        PROVE  m \in OneShotMatch
    <2>1. CASE OneShotCollect(n)
      <3>1. n \in OneShotMatch /\ (m # n => oneShot'[m] = oneShot[m])
        BY <1>1, <2>1 DEF OneShotCollect
      <3> QED BY <1>2, <3>1
    <2>2. CASE OneShotPersist(n)
      <3>1. oneShot'[m] = NoOneShot \/ oneShot'[m] = oneShot[m]
        BY <1>1, <2>2 DEF OneShotPersist
      <3> QED BY <1>2, <3>1 DEF NoOneShot
    <2> QED BY <1>2, <1>3, <2>1, <2>2
            DEF WriterStep, CollectStatus, RefreshMetadata, WindowOpens
  <1>4. ASSUME NEW n \in Match, NEW g \in Gens, AttemptStep(n, g)
        PROVE  m \in OneShotMatch
    BY <1>2, <1>4 DEF AttemptStep, ReleaseDisallowed, StartAttempt, PersistSkip, Request,
                      Respond, RequestFails, Checkpoint, PersistSuccess, PersistFailure,
                      LaneError
  <1>5. ASSUME NEW p \in Proc, ProcessStep(p)
        PROVE  m \in OneShotMatch
    BY <1>2, <1>5
    DEF ProcessStep, EstablishInstance, StartupRecovery, StartupReconcile, WakeUp, ClaimDue,
        ClaimNothing, BeginShutdown, WorkerClosed, SchedulerShutdown, MarkGracefulShutdown,
        DrainLane, Exit, Crash
  <1>6. CASE OperatorRecovery \/ Tick \/ UNCHANGED vars
    BY <1>2, <1>6 DEF OperatorRecovery, Tick, vars
  <1> QED BY <1>3, <1>4, <1>5, <1>6 DEF Next

\* The planner completes a window on final statistics only, and no other row operation
\* completes one.
LEMMA CompletedOnFinal ==
  ASSUME NEW w \in Row, NEW fact, NEW rows
  PROVE  /\ Reconciled(w, fact, rows).status = "complete" =>
              Finality(rows) = "authoritative_complete"
         /\ AgedWindow(w).status = w.status
         /\ \A p : Claimed(w, p).status # "complete"
  <1> DEFINE lifecycle == LifecycleOf(fact.raw)
             seen      == IF w.status # "absent" /\ w.lifecycle = lifecycle THEN w.seen ELSE 0
             observed  == [w EXCEPT !.lifecycle = lifecycle, !.seen = seen,
                                    !.finality = Finality(rows)]
             decision  == Evaluate(fact, seen, Finality(rows))
             planned   == [observed EXCEPT !.status = decision.status, !.due = decision.due]
             freed     == [planned EXCEPT !.token = NoToken, !.owner = NoOwner, !.lease = 0]
  <1>1. decision.status = "complete" => Finality(rows) = "authoritative_complete"
    BY DEF Evaluate, EvaluateLifecycle, Decision
  <1>2. Reconciled(w, fact, rows) = IF LeaseValid(w) THEN observed
                                    ELSE IF LeaseExpired(w) THEN freed ELSE planned
    BY DEF Reconciled
  <1> HIDE DEF lifecycle, seen, decision
  <1>3. /\ observed.status = w.status
        /\ planned.status = decision.status /\ freed.status = decision.status
    BY DEF Row, WindowRow
  <1> HIDE DEF observed, planned, freed
  <1>4. AgedWindow(w).status = w.status /\ \A p : Claimed(w, p).status # "complete"
    BY DEF Row, WindowRow, AgedWindow, Claimed
  <1> QED BY <1>1, <1>2, <1>3, <1>4 DEF LeaseValid

\* An attempt completes its window only on the final rows it commits.
LEMMA AttemptCompletes ==
  ASSUME Inv, NEW n \in Match, NEW g \in Gens, AttemptStep(n, g), NEW m \in Match,
         window'[m].status = "complete", window'[m].status # window[m].status
  PROVE  Finality(stats'[m]) = "authoritative_complete"
  <1>1. /\ window \in [Match -> Row] /\ window[n] \in Row /\ window[m] \in Row
        /\ stats \in [Match -> Rows]
    BY InvIsTyped
  <1>2. window' # window
    OBVIOUS
  <1>3. ASSUME NEW s, s # "complete", NEW d, window' = [window EXCEPT ![n] = Unleased(@, s, d)]
        PROVE  FALSE
    <2>1. Unleased(window[n], s, d).status = s
      BY <1>1 DEF Row, WindowRow, Unleased
    <2> QED BY <1>1, <1>3, <2>1
  <1>4. CASE Commit(n, g)
    <2> DEFINE result == task[<<n, g>>].result
               rows   == Recorded(stats[n], result)
               status == AfterSuccess(rows, result)
    <2>1. PICK d : window' = [window EXCEPT ![n] = [Unleased(@, status, d)
                                                       EXCEPT !.finality = Finality(rows)]]
      BY <1>4 DEF Commit
    <2>2. stats'[n] = rows
      BY <1>1, <1>4 DEF Commit
    <2>3. status = "complete" => Finality(rows) = "authoritative_complete"
      BY DEF AfterSuccess
    <2> HIDE DEF rows, status
    <2>4. [Unleased(window[n], status, d) EXCEPT !.finality = Finality(rows)].status = status
      BY <1>1 DEF Row, WindowRow, Unleased
    <2>5. m = n /\ status = "complete"
      BY <1>1, <2>1, <2>4
    <2> QED BY <2>2, <2>3, <2>5
  <1>5. ~(ReleaseDisallowed(n, g) \/ PersistSkip(n, g) \/ PersistFailure(n, g))
    BY <1>2, <1>3 DEF ReleaseDisallowed, Released, PersistSkip, PersistFailure
  <1> QED BY <1>2, <1>4, <1>5 DEF AttemptStep, StartAttempt, Request, Respond, RequestFails,
                                  Checkpoint, PersistSuccess, LaneError

\* A window becomes complete on statistics that are final.
LEMMA BecomesComplete ==
  ASSUME Inv, [Next]_vars, NEW m \in Match, ~(oneShot[m].fetched /\ ~oneShot'[m].fetched),
         AuditRowsAgree, window'[m].status = "complete", window'[m].status # window[m].status
  PROVE  Finality(stats'[m]) = "authoritative_complete"
  <1>1. window \in [Match -> Row] /\ window[m] \in Row
    BY InvIsTyped
  <1>2. ASSUME NEW n \in Match, NEW g \in Gens, AttemptStep(n, g)
        PROVE  Finality(stats'[m]) = "authoritative_complete"
    BY <1>2, AttemptCompletes
  <1>3. ASSUME NEW w \in Row, NEW fact, window'[m] = Reconciled(w, fact, stats[m])
        PROVE  Finality(stats'[m]) = "authoritative_complete"
    <2>1. Finality(stats[m]) = "authoritative_complete"
      BY <1>3, CompletedOnFinal
    <2> QED BY <2>1, PollerKeeps
  <1>4. ASSUME NEW selected, Recover(selected)
        PROVE  Finality(stats'[m]) = "authoritative_complete"
    <2>1. Unleased(window[m], "due", Unset) \in Row
      BY <1>1, UnleasedIsRow, DelayIsDue DEF WindowStatus
    <2>2. window'[m] = Reconciled(Unleased(window[m], "due", Unset), Fact(m, matchStatus[m]),
                                  stats[m])
      BY <1>4 DEF Recover
    <2> QED BY <1>3, <2>1, <2>2
  <1>5. ASSUME NEW p \in Proc, ProcessStep(p)
        PROVE  Finality(stats'[m]) = "authoritative_complete"
    <2>1. CASE StartupRecovery(p)
      BY <1>4, <2>1 DEF StartupRecovery
    <2>2. CASE StartupReconcile(p)
      BY <1>1, <1>3, <2>2 DEF StartupReconcile, Planned
    <2>3. ~ClaimDue(p)
      BY <1>1, CompletedOnFinal DEF ClaimDue
    <2> QED BY <1>5, <2>1, <2>2, <2>3
            DEF ProcessStep, EstablishInstance, WakeUp, ClaimNothing, BeginShutdown,
                WorkerClosed, SchedulerShutdown, MarkGracefulShutdown, DrainLane, Exit, Crash
  <1>6. ASSUME NEW n \in Match, WriterStep(n)
        PROVE  Finality(stats'[m]) = "authoritative_complete"
    <2>1. ASSUME NEW d, AdvanceStatus(n, d)
          PROVE  Finality(stats'[m]) = "authoritative_complete"
      <3>1. m = n
        BY <1>1, <2>1 DEF AdvanceStatus
      <3>2. window'[m] = Reconciled(window[m], Fact(m, d), stats[m])
        BY <1>1, <2>1, <3>1 DEF AdvanceStatus, Planned
      <3> QED BY <1>1, <1>3, <3>2
    <2> QED BY <1>6, <2>1 DEF WriterStep, CollectStatus, RefreshMetadata, OneShotCollect,
                              OneShotPersist, WindowOpens
  <1>7. CASE OperatorRecovery
    BY <1>4, <1>7 DEF OperatorRecovery
  <1>8. ~Tick
    BY <1>1, CompletedOnFinal DEF Tick
  <1>9. ~(UNCHANGED vars)
    BY DEF vars
  <1> QED BY <1>2, <1>5, <1>6, <1>7, <1>8, <1>9 DEF Next

\* Wherever only the poller writes statistics, a window is complete only while they are
\* final: whoever completes it reads them final, and the poller keeps them so.
THEOREM CompletedIsFinal == Spec => []CompleteMeansFinal
  <1>1. Init => OneShotsKnown /\ CompleteMeansFinal
    BY DEF Init, OneShotsKnown, CompleteMeansFinal, NoWindow, NoOneShot
  <1>2. Inv /\ AuditRowsAgree /\ OneShotsKnown /\ CompleteMeansFinal /\ [Next]_vars =>
          CompleteMeansFinal'
    <2> SUFFICES ASSUME Inv, AuditRowsAgree, OneShotsKnown, CompleteMeansFinal, [Next]_vars,
                        NEW m \in Match \ OneShotMatch, window'[m].status = "complete"
                 PROVE  Finality(stats'[m]) = "authoritative_complete"
      BY DEF CompleteMeansFinal
    <2>1. ~oneShot[m].fetched
      BY DEF OneShotsKnown
    <2>2. CASE window[m].status = "complete"
      BY <2>1, <2>2, PollerKeeps DEF CompleteMeansFinal
    <2>3. CASE window[m].status # "complete"
      BY <2>1, <2>3, BecomesComplete
    <2> QED BY <2>2, <2>3
  <1> QED BY <1>1, <1>2, NextOneShots, InitInv, NextInv, AuditsAgree, PTL DEF Spec
=============================================================================
