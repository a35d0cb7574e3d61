----------------------------- MODULE StatPolling -----------------------------
(* The player-statistics polling protocol: the planner's rows, the scheduler   *)
(* processes that claim them under a lease, the attempts their worker threads  *)
(* run, the recovery that repairs interrupted attempts, and the writers beside *)
(* them (status collection, metadata refresh, one-shot collection).            *)
(* scheduler/player_stat_polling.py, match_windows.py, recovery.py, runtime.py,*)
(* start.py, scheduled_tasks.py; collection/source_policy.py.                  *)
(*                                                                             *)
(* Every action that changes stored rows is one transaction of the SQLite      *)
(* write lane.  A process dies with its threads, its pause and its batch; the  *)
(* rows stay.  Time passes by Tick, which ages every stored instant.           *)
EXTENDS MatchWindows

CONSTANTS Match, Proc,
          MaxGen,          \* bound: generations a window may be claimed for
          MaxLive,         \* scheduler processes alive at once (1 is supported)
          ClaimLimit,      \* min(claim_limit, max_workers)
          MaxWorkers,      \* threads of a worker's executor
          Allowed,         \* matches the rollout allowlists admit
          Supported,       \* matches of a supported competition and season
          Delays,          \* ticks a cadence or a backoff may choose
          MaxAttempt,      \* maximum_attempt_duration
          RegistryStale,   \* registry_running_staleness
          ScrapeStale,     \* scrape_run_running_staleness
          Grace,           \* shutdown_grace_period
          StartupLimit,    \* startup_candidate_limit
          Answers,         \* responses upstream may give
          InitialStatus,   \* stored statuses a match may start from
          DirectStatus,    \* statuses the match-detail endpoint may report
          MetadataStatus,  \* statuses a metadata refresh may store
          OneShotMatch,    \* matches with one-shot collections
          LaneFaults,      \* may a write-lane transaction fail (a busy database)
          OperatorRecovers \* is the recovery command run by hand

ASSUME BoundAssumption ==
  /\ MaxGen \in Nat /\ MaxLive \in Nat /\ ClaimLimit \in Nat \ {0} /\ MaxWorkers \in Nat \ {0}
  /\ StartupLimit \in Nat \ {0} /\ Grace \in Nat
  /\ Allowed \subseteq Match /\ Supported \subseteq Match /\ OneShotMatch \subseteq Match
  /\ NoOwner \notin Proc
ASSUME DelayAssumption == Delays \subseteq 1 .. MaxDelay
ASSUME RecoveryAssumption ==
  /\ MaxAttempt \in Nat /\ RegistryStale \in Nat /\ ScrapeStale \in Nat
  /\ RegistryStale >= MaxAttempt /\ ScrapeStale >= MaxAttempt /\ MaxAttempt >= LeaseTicks
ASSUME InputAssumption ==
  /\ Answers \subseteq Responses(RawStatus \cup {None, "UNAVAILABLE"}, SUBSET Player)
  /\ InitialStatus \subseteq RawStatus /\ MetadataStatus \subseteq RawStatus
  /\ DirectStatus \subseteq Lifecycle /\ LaneFaults \in BOOLEAN /\ OperatorRecovers \in BOOLEAN

VARIABLES matchStatus, \* matches.status
          opened,      \* has the pre-match window of the match begun
          window,      \* match_stat_windows
          stats,       \* cfs_player_stats
          attempt,     \* scheduler_job_registry and scrape_runs, per claim
          task,        \* the run_claim calls in memory, per claim
          process,     \* scheduler_runtime_instances and the process behind it
          oneShot      \* one-shot collections that fetched and not yet persisted

vars == <<matchStatus, opened, window, stats, attempt, task, process, oneShot>>

Gens == 1 .. MaxGen
Key  == Match \X Gens

RegistryStatus == {"none", "running", "succeeded", "failed", "interrupted"}
ScrapeStatus   == {"none", "running", "completed", "partial", "failed", "interrupted"}
MaxAge == 1 + (IF RegistryStale > ScrapeStale THEN RegistryStale ELSE ScrapeStale)

AttemptRow == [registry : RegistryStatus, scrape : ScrapeStatus, committed : BOOLEAN,
               proc : Proc \cup {NoOwner}, age : 0 .. MaxAge]
NoAttempt  == [registry |-> "none", scrape |-> "none", committed |-> FALSE,
               proc |-> NoOwner, age |-> 0]

\* refused: claimed but outside the allowlist.  awaited: run_once waits for it.
\* late: it runs in the worker made after the shutdown of the first one began.
TaskPc == {"none", "refused", "queued", "started", "requesting", "received",
           "checkpointed", "failing"}
Task   == [pc : TaskPc, proc : Proc \cup {NoOwner}, lifecycle : RawStatus \cup {None},
           result : Results, awaited : BOOLEAN, late : BOOLEAN]
NoTask == [pc |-> "none", proc |-> NoOwner, lifecycle |-> None, result |-> NoResult,
           awaited |-> FALSE, late |-> FALSE]

ProcessState == {"new", "established", "recovered", "up", "draining", "closed", "halted",
                 "stopped", "drained", "exited", "dead"}
Process    == [state : ProcessState, awake : BOOLEAN, beat : 0 .. Grace + 1,
               pause : 0 .. MaxDelay, graceful : BOOLEAN]
NewProcess == [state |-> "new", awake |-> FALSE, beat |-> 0, pause |-> 0, graceful |-> FALSE]

OneShot   == [fetched : BOOLEAN, direct : Lifecycle \cup {None}, result : Results]
NoOneShot == [fetched |-> FALSE, direct |-> None, result |-> NoResult]

TypeOK ==
  /\ matchStatus \in [Match -> RawStatus]
  /\ opened \in [Match -> BOOLEAN]
  /\ window \in [Match -> WindowRow(Proc)]
  /\ stats \in [Match -> Rows]
  /\ attempt \in [Key -> AttemptRow]
  /\ task \in [Key -> Task]
  /\ process \in [Proc -> Process]
  /\ oneShot \in [Match -> OneShot]

Init ==
  /\ matchStatus \in [Match -> InitialStatus]
  /\ opened \in [Match -> BOOLEAN]
  /\ window = [m \in Match |-> NoWindow]
  /\ stats = [m \in Match |-> NoRows]
  /\ attempt = [k \in Key |-> NoAttempt]
  /\ task = [k \in Key |-> NoTask]
  /\ process = [p \in Proc |-> NewProcess]
  /\ oneShot = [m \in Match |-> NoOneShot]

Fact(m, raw) == [raw |-> raw, opened |-> opened[m], enabled |-> TRUE,
                 supported |-> m \in Supported, identified |-> TRUE]

Planned(m, raw) == Reconciled(window[m], Fact(m, raw), stats[m])

-----------------------------------------------------------------------------
(* Attempts: the rows and the task of one claim.                               *)

Owned(m, g)   == window[m].token = g

\* Mutant: the finalising UPDATEs do not ask for running rows.
RunningUnchecked(m, g) == task[<<m, g>>].pc # "none"

Running(m, g) == attempt[<<m, g>>].registry = "running" /\ attempt[<<m, g>>].scrape = "running"
Tasks(p)      == {k \in Key : task[k].proc = p}
Awaited(p)    == {k \in Tasks(p) : task[k].awaited}

\* A transaction of process p can commit until the lane of p is drained.
LaneOpen(p) == process[p].state # "drained"

\* The rows of an attempt after it ended with these two statuses.
Closed(m, g, registry, scrape, committed) ==
  [attempt EXCEPT ![<<m, g>>] = [@ EXCEPT !.registry = registry, !.scrape = scrape,
                                      !.committed = committed, !.age = 0]]

\* _record_lost_lease: the attempt ends without touching window or statistics.
LostLease(m, g) == Closed(m, g, "interrupted", "failed", FALSE)

\* run_claim returns.
Returned(m, g) == [task EXCEPT ![<<m, g>>] = NoTask]

\* run_claim raises: run_once, if it waits for this future, stops waiting for all.
Raised(m, g) ==
  IF task[<<m, g>>].awaited
  THEN [k \in Key |-> IF k = <<m, g>> THEN NoTask
                      ELSE IF k \in Tasks(task[<<m, g>>].proc)
                           THEN [task[k] EXCEPT !.awaited = FALSE] ELSE task[k]]
  ELSE Returned(m, g)

Playing == {"LIVE", "POSTGAME", "CONCLUDED"}

\* claim_due hands a window outside the allowlists back before any task starts.
ReleaseDisallowed(m, g) ==
  /\ task[<<m, g>>].pc = "refused" /\ LaneOpen(task[<<m, g>>].proc)
  /\ window' = IF Owned(m, g) THEN [window EXCEPT ![m] = Released(@)] ELSE window
  /\ task' = Returned(m, g)
  /\ UNCHANGED <<matchStatus, opened, stats, attempt, process, oneShot>>

\* A thread of the executor is free for the task, and claim_due has returned.
FreeWorker(m, g) ==
  LET t == task[<<m, g>>]
  IN  /\ \A k \in Awaited(t.proc) : task[k].pc # "refused"
      /\ Cardinality({k \in Tasks(t.proc) : task[k].late = t.late
                                            /\ task[k].pc \notin {"queued", "refused"}})
           < MaxWorkers

\* The executor picks the task up and start_attempt inserts both rows, or finds
\* the lease gone and raises.
StartAttempt(m, g) ==
  /\ task[<<m, g>>].pc = "queued" /\ FreeWorker(m, g) /\ LaneOpen(task[<<m, g>>].proc)
  /\ IF Owned(m, g)
     THEN /\ attempt' = [attempt EXCEPT ![<<m, g>>] =
                           [registry |-> "running", scrape |-> "running", committed |-> FALSE,
                            proc |-> task[<<m, g>>].proc, age |-> 0]]
          /\ task' = [task EXCEPT ![<<m, g>>].pc = "started"]
     ELSE /\ task' = Raised(m, g)
          /\ UNCHANGED attempt
  /\ UNCHANGED <<matchStatus, opened, window, stats, process, oneShot>>

\* _persist_skip: the lifecycle cached at the claim is not one to collect for.
PersistSkip(m, g) ==
  /\ task[<<m, g>>].pc = "started" /\ task[<<m, g>>].lifecycle \notin Playing
  /\ LaneOpen(task[<<m, g>>].proc)
  /\ IF ~Running(m, g)
     THEN task' = Raised(m, g) /\ UNCHANGED <<window, attempt>>
     ELSE /\ task' = Returned(m, g)
          /\ \/ /\ Owned(m, g)
                /\ \E d \in Delays : window' = [window EXCEPT ![m] = Unleased(@, "due", d)]
                /\ attempt' = Closed(m, g, "succeeded", "completed", FALSE)
             \/ /\ ~Owned(m, g)
                /\ attempt' = LostLease(m, g)
                /\ UNCHANGED window
  /\ UNCHANGED <<matchStatus, opened, stats, process, oneShot>>

\* The canonical status is read afresh and the request goes out.
Request(m, g) ==
  /\ task[<<m, g>>].pc = "started" /\ task[<<m, g>>].lifecycle \in Playing
  /\ task' = [task EXCEPT ![<<m, g>>] =
       [@ EXCEPT !.pc = "requesting",
                 !.lifecycle = Later(task[<<m, g>>].lifecycle, matchStatus[m])]]
  /\ UNCHANGED <<matchStatus, opened, window, stats, attempt, process, oneShot>>

Respond(m, g) ==
  /\ task[<<m, g>>].pc = "requesting"
  /\ \E a \in Answers :
       task' = [task EXCEPT ![<<m, g>>] = [@ EXCEPT !.pc = "received", !.lifecycle = None,
                                                !.result = Collected(a, task[<<m, g>>].lifecycle)]]
  /\ UNCHANGED <<matchStatus, opened, window, stats, attempt, process, oneShot>>

\* A failed request.  After an authentication failure the worker claims nothing
\* until the pause is over.
RequestFails(m, g) ==
  /\ task[<<m, g>>].pc = "requesting"
  /\ task' = [task EXCEPT ![<<m, g>>] = [@ EXCEPT !.pc = "failing", !.lifecycle = None]]
  /\ \/ UNCHANGED process
     \/ ~task[<<m, g>>].late /\ \E d \in Delays :
          process' = [process EXCEPT ![task[<<m, g>>].proc].pause = d]
  /\ UNCHANGED <<matchStatus, opened, window, stats, attempt, oneShot>>

\* The response_received_at checkpoint insists that the scrape still runs.
Checkpoint(m, g) ==
  /\ task[<<m, g>>].pc = "received" /\ LaneOpen(task[<<m, g>>].proc)
  /\ task' = [task EXCEPT ![<<m, g>>].pc =
                IF attempt[<<m, g>>].scrape = "running" THEN "checkpointed" ELSE "failing"]
  /\ UNCHANGED <<matchStatus, opened, window, stats, attempt, process, oneShot>>

\* A final snapshot is only ever replaced by a concluded response.
Kept(rows, result) ==
  Finality(rows) = "authoritative_complete" /\ result.kind # "concluded"

\* Mutant: a response is stored whatever is final already.
RecordedAlways(rows, result) == Upserted(rows, result)

Recorded(rows, result) == IF Kept(rows, result) THEN rows ELSE Upserted(rows, result)

AfterSuccess(rows, result) ==
  IF Finality(rows) = "authoritative_complete" THEN "complete"
  ELSE IF result.kind \in {"empty", "unknown"} THEN "backoff" ELSE "awaiting_final"

\* Mutant: the result status is stored as the scrape's own.
ScrapeOutcomeRaw(kind) == kind

ScrapeOutcome(kind) ==
  IF kind \in {"live_partial", "unknown", "empty"} THEN "partial" ELSE "completed"

\* _persist_success under the lease: snapshot, window, audit and registry at once.
Commit(m, g) ==
  LET result == task[<<m, g>>].result
      rows   == Recorded(stats[m], result)
      status == AfterSuccess(rows, result)
  IN  /\ stats' = [stats EXCEPT ![m] = rows]
      /\ \E d \in Delays :
           window' = [window EXCEPT ![m] =
             [Unleased(@, status, IF status = "complete" THEN Unset ELSE d)
                EXCEPT !.finality = Finality(rows)]]
      /\ attempt' = Closed(m, g, "succeeded", ScrapeOutcome(result.kind), TRUE)

\* Mutants: the lease is not compared before the commit; the snapshot is stored
\* before it is compared.
PersistUnfenced(m, g) ==
  /\ task[<<m, g>>].pc = "checkpointed" /\ LaneOpen(task[<<m, g>>].proc) /\ Running(m, g)
  /\ task' = Returned(m, g) /\ Commit(m, g)
  /\ UNCHANGED <<matchStatus, opened, process, oneShot>>

PersistSnapshotFirst(m, g) ==
  /\ task[<<m, g>>].pc = "checkpointed" /\ LaneOpen(task[<<m, g>>].proc) /\ Running(m, g)
  /\ task' = Returned(m, g)
  /\ IF Owned(m, g) THEN Commit(m, g)
     ELSE /\ attempt' = LostLease(m, g)
          /\ stats' = [stats EXCEPT ![m] = Recorded(@, task[<<m, g>>].result)]
          /\ UNCHANGED window
  /\ UNCHANGED <<matchStatus, opened, process, oneShot>>

PersistSuccess(m, g) ==
  /\ task[<<m, g>>].pc = "checkpointed" /\ LaneOpen(task[<<m, g>>].proc)
  /\ IF ~Running(m, g)
     THEN /\ task' = [task EXCEPT ![<<m, g>>].pc = "failing"]
          /\ UNCHANGED <<window, stats, attempt>>
     ELSE /\ task' = Returned(m, g)
          /\ \/ Owned(m, g) /\ Commit(m, g)
             \/ /\ ~Owned(m, g)
                /\ attempt' = LostLease(m, g)
                /\ UNCHANGED <<window, stats>>
  /\ UNCHANGED <<matchStatus, opened, process, oneShot>>

\* _persist_failure: the window backs off, or the lost lease is recorded, or both
\* rows are no longer running and the exception leaves run_claim.
PersistFailure(m, g) ==
  /\ task[<<m, g>>].pc = "failing" /\ LaneOpen(task[<<m, g>>].proc)
  /\ IF ~Running(m, g)
     THEN task' = Raised(m, g) /\ UNCHANGED <<window, attempt>>
     ELSE /\ task' = Returned(m, g)
          /\ \/ /\ Owned(m, g)
                /\ \E d \in Delays : window' = [window EXCEPT ![m] = Unleased(@, "backoff", d)]
                /\ attempt' = Closed(m, g, "failed", "failed", FALSE)
             \/ /\ ~Owned(m, g)
                /\ attempt' = LostLease(m, g)
                /\ UNCHANGED window
  /\ UNCHANGED <<matchStatus, opened, stats, process, oneShot>>

\* A write-lane transaction of the task fails and rolls back: the database stays
\* busy, or the lane is drained.  Where the exception goes depends on the step.
LaneError(m, g) ==
  LET t == task[<<m, g>>]
  IN  /\ t.pc # "none" /\ (LaneFaults \/ ~LaneOpen(t.proc))
      /\ \/ /\ t.pc = "refused"    \* claim_due raises: nothing is submitted
            /\ task' = [k \in Key |-> IF k \in Awaited(t.proc) THEN NoTask ELSE task[k]]
         \/ /\ t.pc = "queued" /\ FreeWorker(m, g)
            /\ task' = Raised(m, g)
         \/ /\ t.pc = "started" /\ t.lifecycle \notin Playing
            /\ task' = Raised(m, g)
         \/ /\ t.pc \in {"received", "checkpointed"}
            /\ task' = [task EXCEPT ![<<m, g>>].pc = "failing"]
         \/ /\ t.pc = "failing"
            /\ task' = Raised(m, g)
      /\ UNCHANGED <<matchStatus, opened, window, stats, attempt, process, oneShot>>

-----------------------------------------------------------------------------
(* The scheduler process: start, wake-ups, shutdown, crash.                    *)

Alive(p)  == process[p].state \notin {"new", "exited", "dead"}
Serves(p) == process[p].state \in {"up", "draining", "closed"}

\* runtime_ownership: a stop marker first, then the age of the heartbeat.
RuntimeState(p) ==
  IF process[p].graceful THEN "gracefully_stopped"
  ELSE IF process[p].state = "new" THEN "unknown"
  ELSE IF process[p].beat <= Grace THEN "active" ELSE "stale_unclean"

MoveTo(p, state) == process' = [process EXCEPT ![p].state = state]

EstablishInstance(p) ==
  /\ process[p].state = "new" /\ Cardinality({q \in Proc : Alive(q)}) < MaxLive
  /\ MoveTo(p, "established")
  /\ UNCHANGED <<matchStatus, opened, window, stats, attempt, task, oneShot>>

\* The planner job's wake-up: heartbeat first.  APScheduler runs one at a time,
\* and run_once returns only when it no longer waits for its batch.
WakeUp(p) ==
  /\ Serves(p) /\ ~process[p].awake /\ Awaited(p) = {}
  /\ process' = [process EXCEPT ![p].awake = TRUE, ![p].beat = 0]
  /\ UNCHANGED <<matchStatus, opened, window, stats, attempt, task, oneShot>>

\* The candidates of the claim query; MaxGen bounds the exploration.
DueWindows == {m \in Match : IsDue(window[m]) /\ window[m].gen < MaxGen}

Batches(due) ==
  {S \in SUBSET due : Cardinality(S) = (IF Cardinality(due) < ClaimLimit
                                        THEN Cardinality(due) ELSE ClaimLimit)}

\* claim_due with its claim_due_windows transaction.  The worker that serves the
\* wake-up is the first one while the process is up; once its shutdown began, the
\* accessor makes another one, with no pause of its own.
ClaimDue(p) ==
  /\ process[p].awake /\ DueWindows # {}
  /\ process[p].state = "up" => process[p].pause = 0
  /\ \E S \in Batches(DueWindows) :
       /\ window' = [m \in Match |-> IF m \in S THEN Claimed(window[m], p) ELSE window[m]]
       /\ task' = [k \in Key |->
            IF k[1] \in S /\ k[2] = window[k[1]].gen + 1
            THEN [pc |-> IF k[1] \in Allowed THEN "queued" ELSE "refused", proc |-> p,
                  lifecycle |-> window[k[1]].lifecycle, result |-> NoResult,
                  awaited |-> TRUE, late |-> process[p].state # "up"]
            ELSE task[k]]
  /\ process' = [process EXCEPT ![p].awake = FALSE]
  /\ UNCHANGED <<matchStatus, opened, stats, attempt, oneShot>>

\* Nothing to claim, a pause, or a worker that already closes.
ClaimNothing(p) ==
  /\ process[p].awake
  /\ DueWindows = {} \/ process[p].pause > 0 \/ process[p].state # "up"
  /\ process' = [process EXCEPT ![p].awake = FALSE]
  /\ UNCHANGED <<matchStatus, opened, window, stats, attempt, task, oneShot>>

\* shutdown_player_stat_polling_worker drops the worker, then waits for its tasks.
BeginShutdown(p) ==
  /\ process[p].state = "up" /\ MoveTo(p, "draining")
  /\ UNCHANGED <<matchStatus, opened, window, stats, attempt, task, oneShot>>

WorkerClosed(p) ==
  /\ process[p].state = "draining" /\ \A k \in Tasks(p) : task[k].late
  /\ MoveTo(p, "closed")
  /\ UNCHANGED <<matchStatus, opened, window, stats, attempt, task, oneShot>>

\* scheduler.shutdown(wait=True) waits for the running jobs.
SchedulerShutdown(p) ==
  /\ process[p].state = "closed" /\ ~process[p].awake /\ Awaited(p) = {}
  /\ MoveTo(p, "halted")
  /\ UNCHANGED <<matchStatus, opened, window, stats, attempt, task, oneShot>>

MarkGracefulShutdown(p) ==
  /\ process[p].state = "halted"
  /\ process' = [process EXCEPT ![p] =
                   [@ EXCEPT !.state = "stopped", !.graceful = TRUE, !.beat = 0]]
  /\ UNCHANGED <<matchStatus, opened, window, stats, attempt, task, oneShot>>

DrainLane(p) ==
  /\ process[p].state = "stopped" /\ MoveTo(p, "drained")
  /\ UNCHANGED <<matchStatus, opened, window, stats, attempt, task, oneShot>>

\* The interpreter joins the executor's threads before it ends.
Exit(p) ==
  /\ process[p].state = "drained" /\ Tasks(p) = {}
  /\ MoveTo(p, "exited")
  /\ UNCHANGED <<matchStatus, opened, window, stats, attempt, task, oneShot>>

\* The process disappears with everything it held in memory.
Crash(p) ==
  /\ Alive(p)
  /\ process' = [process EXCEPT ![p] =
                   [@ EXCEPT !.state = "dead", !.awake = FALSE, !.pause = 0]]
  /\ task' = [k \in Key |-> IF k \in Tasks(p) THEN NoTask ELSE task[k]]
  /\ UNCHANGED <<matchStatus, opened, window, stats, attempt, oneShot>>

-----------------------------------------------------------------------------
(* Recovery of interrupted attempts: at startup, before anything is claimed,   *)
(* and by the operator's command, from a process of its own at any time.       *)

OpenRows(m) == {g \in Gens : attempt[<<m, g>>].registry = "running"
                             \/ attempt[<<m, g>>].scrape = "running"}

\* A live owner keeps an attempt that is not overdue, even past its lease.
Preserved(m, g) ==
  /\ RuntimeState(attempt[<<m, g>>].proc) = "active"
  /\ Owned(m, g) \/ window[m].owner = attempt[<<m, g>>].proc
  /\ attempt[<<m, g>>].age <= MaxAttempt

Stale(m, g) ==
  \/ LeaseExpired(window[m])
  \/ attempt[<<m, g>>].age >= RegistryStale
  \/ attempt[<<m, g>>].age >= ScrapeStale
  \/ RuntimeState(attempt[<<m, g>>].proc) \in {"gracefully_stopped", "stale_unclean"}

\* Mutant: recovery takes attempts from under a valid lease.
RepairedUnderLease(m) == {g \in OpenRows(m) : ~Preserved(m, g) /\ Stale(m, g)}

\* A valid lease shelters every attempt of its window.
Repaired(m) ==
  IF LeaseValid(window[m]) THEN {}
  ELSE {g \in OpenRows(m) : ~Preserved(m, g) /\ Stale(m, g)}

\* An expired lease whose attempt never started is recovered by itself.
LeaseOnly(m) == LeaseExpired(window[m]) /\ OpenRows(m) = {}

\* Mutant: recovery also frees terminal windows.
ResetsTerminal(m) ==
  /\ Repaired(m) # {} \/ LeaseOnly(m)
  /\ ~LeaseValid(window[m]) /\ \A g \in OpenRows(m) : ~Preserved(m, g)

Resets(m) ==
  /\ window[m].status \notin Terminal
  /\ Repaired(m) # {} \/ LeaseOnly(m)
  /\ ~LeaseValid(window[m]) /\ \A g \in OpenRows(m) : ~Preserved(m, g)

\* Mutant: only the registry row is closed.
InterruptedHalf(row) ==
  [row EXCEPT !.registry = IF @ = "running" THEN "interrupted" ELSE @, !.age = 0]

Interrupted(row) ==
  [row EXCEPT !.registry = IF @ = "running" THEN "interrupted" ELSE @,
              !.scrape   = IF @ = "running" THEN "interrupted" ELSE @,
              !.age = 0]

\* One pass over the selected windows: attempts, then leases, then the planner.
Recover(selected) ==
  /\ attempt' = [k \in Key |-> IF k[1] \in selected /\ k[2] \in Repaired(k[1])
                                THEN Interrupted(attempt[k]) ELSE attempt[k]]
  /\ window' = [m \in Match |->
       IF m \in selected /\ Resets(m)
       THEN Reconciled(Unleased(window[m], "due", Unset), Fact(m, matchStatus[m]), stats[m])
       ELSE window[m]]

Candidates == {m \in Match : window[m].status = "leased" \/ OpenRows(m) # {}}

\* The oldest StartupLimit candidates; their order by updated_at is not kept.
StartupSelections ==
  {S \in SUBSET Candidates :
     Cardinality(S) = (IF Cardinality(Candidates) < StartupLimit
                       THEN Cardinality(Candidates) ELSE StartupLimit)}

StartupRecovery(p) ==
  /\ process[p].state = "established"
  /\ \E S \in StartupSelections : Recover(S)
  /\ MoveTo(p, "recovered")
  /\ UNCHANGED <<matchStatus, opened, stats, task, oneShot>>

\* The command takes an explicit scope and no limit.
OperatorRecovery ==
  /\ OperatorRecovers
  /\ \E S \in SUBSET Match : Recover(S)
  /\ UNCHANGED <<matchStatus, opened, stats, task, process, oneShot>>

\* The startup reconciliation creates missing windows and replans the others.
StartupReconcile(p) ==
  /\ process[p].state = "recovered"
  /\ window' = [m \in Match |-> Planned(m, matchStatus[m])]
  /\ MoveTo(p, "up")
  /\ UNCHANGED <<matchStatus, opened, stats, attempt, task, oneShot>>

-----------------------------------------------------------------------------
(* The writers beside the poller.                                              *)

\* Storing an advanced status replans the window in the same transaction.
AdvanceStatus(m, direct) ==
  /\ matchStatus' = [matchStatus EXCEPT ![m] = direct]
  /\ window' = [window EXCEPT ![m] = Planned(m, direct)]

\* A MATCH_STATUS collection: nothing is stored unless the status advances.
CollectStatus(m) ==
  /\ \E d \in DirectStatus : Advances(matchStatus[m], d) /\ AdvanceStatus(m, d)
  /\ UNCHANGED <<opened, stats, attempt, task, process, oneShot>>

\* The daily METADATA refresh stores what the fixture says and plans nothing.
RefreshMetadata(m) ==
  /\ \E s \in MetadataStatus : matchStatus' = [matchStatus EXCEPT ![m] = s]
  /\ UNCHANGED <<opened, window, stats, attempt, task, process, oneShot>>

\* A one-shot collection reads the stored status and upstream ...
OneShotCollect(m) ==
  /\ m \in OneShotMatch /\ ~oneShot[m].fetched
  /\ \E d \in DirectStatus \cup {None}, a \in Answers :
       LET direct    == IF Advances(matchStatus[m], d) THEN d ELSE None
           canonical == Later(matchStatus[m], direct)
       IN  oneShot' = [oneShot EXCEPT ![m] =
             [fetched |-> TRUE, direct |-> direct, result |-> Collected(a, canonical)]]
  /\ UNCHANGED <<matchStatus, opened, window, stats, attempt, task, process>>

\* ... and stores both later, whatever happened in between.
OneShotPersist(m) ==
  /\ oneShot[m].fetched
  /\ IF oneShot[m].direct # None /\ Advances(matchStatus[m], oneShot[m].direct)
     THEN AdvanceStatus(m, oneShot[m].direct)
     ELSE UNCHANGED <<matchStatus, window>>
  /\ stats' = [stats EXCEPT ![m] = Upserted(@, oneShot[m].result)]
  /\ oneShot' = [oneShot EXCEPT ![m] = NoOneShot]
  /\ UNCHANGED <<opened, attempt, task, process>>

WindowOpens(m) ==
  /\ ~opened[m] /\ opened' = [opened EXCEPT ![m] = TRUE]
  /\ UNCHANGED <<matchStatus, window, stats, attempt, task, process, oneShot>>

AgedAttempt(row) ==
  [row EXCEPT !.age = IF row.registry = "running" /\ @ < MaxAge THEN @ + 1 ELSE @]

AgedProcess(r) ==
  [r EXCEPT !.pause = Count(@),
            !.beat = IF r.state # "new" /\ ~r.graceful /\ @ <= Grace THEN @ + 1 ELSE @]

Tick ==
  /\ window' = [m \in Match |-> AgedWindow(window[m])]
  /\ attempt' = [k \in Key |-> AgedAttempt(attempt[k])]
  /\ process' = [p \in Proc |-> AgedProcess(process[p])]
  /\ UNCHANGED <<matchStatus, opened, stats, task, oneShot>>

-----------------------------------------------------------------------------
AttemptStep(m, g) ==
  \/ ReleaseDisallowed(m, g) \/ StartAttempt(m, g) \/ PersistSkip(m, g)
  \/ Request(m, g) \/ Respond(m, g) \/ RequestFails(m, g) \/ Checkpoint(m, g)
  \/ PersistSuccess(m, g) \/ PersistFailure(m, g) \/ LaneError(m, g)

ProcessStep(p) ==
  \/ EstablishInstance(p) \/ StartupRecovery(p) \/ StartupReconcile(p)
  \/ WakeUp(p) \/ ClaimDue(p) \/ ClaimNothing(p)
  \/ BeginShutdown(p) \/ WorkerClosed(p) \/ SchedulerShutdown(p)
  \/ MarkGracefulShutdown(p) \/ DrainLane(p) \/ Exit(p) \/ Crash(p)

WriterStep(m) ==
  \/ CollectStatus(m) \/ RefreshMetadata(m) \/ OneShotCollect(m) \/ OneShotPersist(m)
  \/ WindowOpens(m)

Next ==
  \/ \E m \in Match, g \in Gens : AttemptStep(m, g)
  \/ \E p \in Proc : ProcessStep(p)
  \/ \E m \in Match : WriterStep(m)
  \/ OperatorRecovery
  \/ Tick

Spec == Init /\ [][Next]_vars

-----------------------------------------------------------------------------
(* Invariants.                                                                 *)

\* A window is leased exactly while it names a token, and the token is always the
\* newest generation: planner, poller, recovery and release agree on what a lease is.
LeaseConsistent == \A m \in Match : Consistent(window[m])

\* The two audit rows of an attempt tell one story on every path: success, skip,
\* failure, lost lease, recovery.
AuditRowsAgree ==
  \A k \in Key :
    LET r == attempt[k]
    IN  /\ r.registry = "none"        <=> r.scrape = "none"
        /\ r.registry = "running"     <=> r.scrape = "running"
        /\ r.registry = "succeeded"   <=> r.scrape \in {"completed", "partial"}
        /\ r.registry = "failed"      =>  r.scrape = "failed"
        /\ r.registry = "interrupted" =>  r.scrape \in {"failed", "interrupted"}
        /\ r.committed                =>  r.registry = "succeeded"

\* While an attempt that started holds the lease, its audit rows still run: a fenced
\* final transaction never finds its own history closed and rolls back.
OwnerStillRunning ==
  \A m \in Match, g \in Gens :
    Owned(m, g) /\ task[<<m, g>>].pc \notin {"none", "queued", "refused"} => Running(m, g)

\* A completed window stands on final statistics, where only the poller writes them: a
\* late one-shot collection may take them back (FinalityKept).
CompleteMeansFinal ==
  \A m \in Match \ OneShotMatch :
    window[m].status = "complete" => Finality(stats[m]) = "authoritative_complete"

-----------------------------------------------------------------------------
(* What a step may never do.                                                   *)

Commits(m, g) == ~attempt[<<m, g>>].committed /\ attempt'[<<m, g>>].committed

\* Fencing: an attempt whose window was claimed again commits nothing, however late
\* its answer arrives.
OnlyNewestCommits ==
  [][\A m \in Match, g \in Gens : Commits(m, g) => g = window[m].gen]_vars

\* Poller statistics are only written by a commit: an attempt that lost its lease
\* leaves cfs_player_stats alone.
StatsNeedCommit ==
  [][\A m \in Match : stats'[m] # stats[m] =>
        \/ \E g \in Gens : Commits(m, g)
        \/ oneShot[m].fetched /\ ~oneShot'[m].fetched]_vars

\* A lease that has not run out leaves its window only by its own task's hand.
ValidLeaseNotStolen ==
  [][\A m \in Match :
        LeaseValid(window[m]) /\ window'[m].token # window[m].token =>
          /\ task[<<m, window[m].gen>>].pc # "none"
          /\ task'[<<m, window[m].gen>>].pc = "none"]_vars

\* A closed attempt is history: recovery's verdict is never overwritten by the late
\* thread, nor the thread's by recovery.
ClosedStaysClosed ==
  [][\A k \in Key :
        attempt[k].registry \notin {"none", "running"} => attempt'[k] = attempt[k]]_vars

\* The poller and recovery never take finality away from a match.
PollerKeepsFinality ==
  [][\A m \in Match :
        Finality(stats[m]) = "authoritative_complete"
        /\ ~(oneShot[m].fetched /\ ~oneShot'[m].fetched) =>
          Finality(stats'[m]) = "authoritative_complete"]_vars

\* No writer, however late, stores a row of a player under a lower authority.
AuthorityNeverDrops ==
  [][\A m \in Match, p \in Player : stats'[m][p] >= stats[m][p]]_vars

\* Recovery and the leases leave a terminal window alone; only the planner, on a new
\* fact about the match, may reopen it.
TerminalLeftAlone ==
  [][\A m \in Match :
        window[m].status \in Terminal /\ window'[m].status # window[m].status =>
          \/ matchStatus'[m] # matchStatus[m]
          \/ \E p \in Proc : process[p].state = "recovered" /\ process'[p].state = "up"]_vars

-----------------------------------------------------------------------------
(* What the documentation promises and the code does not keep.                 *)

\* One wake-up's batch is settled before the next one claims.
BatchSettlesFirst ==
  [][\A p \in Proc : ClaimDue(p) => Tasks(p) = {}]_vars

\* Shutdown first prevents new claims.
NoClaimInShutdown ==
  [][\A p \in Proc : process[p].state # "up" => ~ClaimDue(p)]_vars

\* Lower-authority observations never regress authoritative final data.
FinalityKept ==
  [][\A m \in Match : Finality(stats[m]) = "authoritative_complete"
                        => Finality(stats'[m]) = "authoritative_complete"]_vars
=============================================================================
