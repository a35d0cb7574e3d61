# AFL-api: a verification of its collection system

AFL-api collects fixtures, match statuses, statistics, line-ups, commentary and
injuries from the AFL's services into one SQLite database and serves them over
HTTP. On a match day a scheduler process polls the statistics of every match from
shortly before its start until they are final. That polling is where the program
is hardest to get right: a planner decides which matches are worth polling, worker
threads claim them under a lease that can expire under them, processes crash and
restart, a recovery procedure repairs what they left, and other collections write
the same rows. Around it are collectors, commands and reads, each with its own
stored state, late answers and writers beside it.

This directory models that system in TLA+, checks it with TLC and proves the core
of it with TLAPS. Source paths are relative to the repository. Every definition is
translated from the code; tests and docs were read beside it.

## Inventory

| Component | State it keeps | Hard behaviour | What makes it correct |
|---|---|---|---|
| Match-window planner, `scheduler/match_windows.py` | `match_stat_windows`: status, lifecycle, due time, finality, lease, generation | runs only at startup, after a stored status advance and after recovery; meets valid and expired leases | lease columns agree; a valid lease is not disturbed; a window worth visiting keeps a due time |
| Polling worker, `scheduler/player_stat_polling.py` | threads, singleton, pause; a registry row and a scrape row per attempt | late answers, lost leases, exceptions on every path, wake-ups during shutdown | fencing; audit rows that agree; final statistics never lost |
| Recovery, `scheduler/recovery.py` | none | runs beside living attempts, some of the candidates at a time | never touches a valid lease, never reopens a terminal window |
| Runtime, start, shutdown, `scheduler/runtime.py`, `start.py` | `scheduler_runtime_instances` | heartbeats stop during a long batch; order of the shutdown | verdicts recovery can rely on |
| Match status, `afl_json/match_status.py` | `matches.status` | fetched long before it is stored | only moves forwards; the window follows it |
| Player statistics, `afl_json/player_stats.py` | current row, change history, checkpoints | snapshots of different authority, late, repeated or garbled | authority never drops; the history replays to the row |
| Season report, summaries, StatsPro, `afl_json/season_report.py`, `home_away_summaries.py`, `statspro.py` | season summaries, reviews, league summaries | long reads and builds beside writers | a verdict or a total stands on facts that were stored |
| Current season, `afl_json/bootstrap.py`, `collectors.py` | `afl_seasons.is_current` | two collectors determine, persist in another order | the marker follows the last determination |
| Season synchronisation, `afl_json/season_sync.py`, `roster_backfill.py` | audits in `scrape_runs` | completeness told from counts; audit writes fail; crashes | complete means collected; exit code 0 is earned |
| Listing collection, `afl_json/collectors.py` | none | the listing changes between pages | nothing that was listed throughout is skipped |
| Player crosswalk, `afl_json/player_persistence.py` | `canonical_players`, provider ids, memberships | one person seen under either identifier first | identities are stable |
| Live feeds, `scheduler/match_*_production.py`, `afl_json/match_commentary.py`, `match_interchange.py`, `rosters.py` | polls, state, history, timeline, rosters | status read again after the answer; garbled answers; crashes | history and state agree; one closing poll; nobody leaves by silence |
| Evidence capture, `scheduler/match_*_capture.py`, `collection/match_*_evidence.py` | evidence rows with flags | late stores; re-parsing; failures as rows | capture ends; reports tell what was observed |
| Write lane, `scheduler/write_lane.py` | lock, counters, per-thread guard | drain by a signal handler, timeout, nested use | quiet once drained; empties in the end |
| Job registry, `scheduler/registry.py`, `manual_triggers.py`, `scheduler/api.py` | `scheduler_job_registry`, APScheduler's memory store | re-registration during a run; restarts; late fires; requests | no date fired twice, none silently lost |
| JSON client, `afl_json/client.py`, `SchedulerCfsClientPool` | one token, a session per thread | one thread drops what another stored | gives up only when tokens really expired again |
| Migrations, `db/migration_runner.py` | applied migrations | partial progress, two releases, rebuilds with foreign keys off | no gap, no dangling reference |
| Analytics, `analytics/` | queue, raw rows, daily aggregates | drops, late rows, crashes, repeated roll-ups | each stored observation counted once |
| Injuries, `scraper/injuries/` | current and past injury rows | unclear names, dates that return | the list as last seen |
| Public API, `api/routes_v1.py` | none | several SELECTs per answer without a transaction | an answer holds together |
| Administration, dashboard, command line, scrapers, merge, diagnostics, configuration | one row per form, or none | no protocol | see "Not modelled" |

Components meet in the database and, for the scheduler, in one process: the planner
job calls the worker, the worker writes through the lane, status collections call
the planner inside their transaction, startup calls recovery, which calls the
planner. `PROJECT.json` lists the components with their status, and the hazards with
the properties that cover them.

## Modules

The polling protocol:

- `MatchLifecycle`: statuses, their order and aliases, when a direct status
  advances the stored one. `AuthoritativeStats`: the rows of a match as snapshot
  authorities, the classification of a response, the upsert's guard, finality.
  `MatchWindows`: the planner's decision and the row's transitions.
- `StatPolling`: any number of matches and scheduler processes. `window`, `stats`,
  `matchStatus` and `attempt` are the database; `task` and `process` are memory;
  `oneShot` is a collection that fetched and has not stored yet. An action is one
  transaction of the write lane, one network event, or one step of a process's life.
- `PollingSeries`: one window over its whole life, without generations and audit
  rows, with upstream and a bounded number of faults; it carries liveness.
- `FencedLease`: the abstract promise of the lease columns. `StatPollingFence` maps
  `StatPolling` onto it, once per window.

`StatPolling` names its actions after the functions they stand for: `ClaimDue`
(`claim_due` and the submission in `run_once`), `ReleaseDisallowed`, `StartAttempt`,
`Request`, `Respond`, `RequestFails`, `Checkpoint`, `PersistSuccess`,
`PersistFailure`, `PersistSkip`, and `LaneError` for a transaction that rolls back. A
late answer needs no action of its own: time passes between any two steps of a task,
so a lease may lapse, be claimed again and be recovered while a thread still waits.
Instants are kept as distances from now, aged by `Tick`, so the state space is finite.

The live feeds: `MatchInterchange`, `MatchCommentary` and `MatchRosters` are the
persistence of one answer as operators; `LiveFeeds` composes them with the three
interval jobs, upstream and the matches table. A cycle is `Select`, `Ask` (or
`AskFails`), `Persist` (or `PersistFails`), and the match, the listing and the process
may change between any two of them.

The services beside them, one module each, `Services` putting them side by side:

| Module | Follows | Actions |
|---|---|---|
| `WriteLane` | `execute` and `drain` statement by statement, the signal handler on the main thread | `Queue`, `Claim`, `Count`, `Activate`, `Finish`, `Settle`, `Release`, `EnterNested`, `BeginDrain`, `Drained`, `TimeOut` |
| `JobRegistry` | a job's row and its entry in the memory store | `RegisterFixture`, `ReconcileRow`, `Fire`, `Miss`, `MarkRunning`, `MarkEnded`, `CheckManual`, `EnqueueManual`, `RunJob`, `DeleteJob`, `RefreshAllJobs`, `Stop` |
| `TokenPool` | the request of each thread and the shared token | `Request`, `TakeStored`, `BeginAcquire`, `AnswerAcquire`, `StoreAcquired`, `Accepted`, `Refused`, `Invalidate`, `Unusable`, `Outage`, `Expire` |
| `Analytics` | an observation from queue to aggregate | `Record`, `TakeObservation`, `Insert`, `InsertFails`, `BeginRollup`, `ReadDay`, `WriteDay`, `CommitRollup`, `RollupFails`, `Die`, `NewDay` |
| `Migrations` | the runner of each process | `Preflight`, `BeginMigration`, `BusyTimeout`, `MigrateOne`, `MigrationFails`, `EndMigration`, `ProcessDies` |
| `SeasonSync` | the decision about one match, against other writers | `Look`, `SkipComplete`, `SkipReviewed`, `StartAudit`, `CollectMatch`, `UpsertCollected`, `CompleteAudit`, `SyncFails`, `OneShotWrites` |
| `SeasonCommands` | a whole command with its audits and exit code | `StartSync`, `FoundationLaid`, `Decide`, `StatusFails`, `CollectAndUpsert`, `CompleteMatchAudit`, `FinishRun`, `StartBackfill`, `BackfillRound`, `CommandDies`, `RunRaises` |
| `PageWalk` | a walk over a changing listing | `StartWalk`, `TakePage`, `Probe`, `TakeSeasonPage`, `RequestFails`, `ListingChanges` |
| `PlayerIdentity` | a season's snapshot of players, entry by entry, in a transaction | `PersistSnapshot`, `LinkTeam` |
| `Injuries` | a page of clubs, dates and names | `CollectInjuries` |
| `EvidenceCapture` | one profile's cycle on one match | `StartCycle`, `AnswerCycle`, `Persist`, `Reparse`, `Abort`, `MatchMoves` |
| `Reads` | the SELECTs of a resource | `Ask`, `Select`, and the writers `StoreSeason`, `StorePlayer`, `StoreStats`, `AddLinked`, `ReplaceLinked` |
| `StatHistory` | one statistic of one player under several writers | `Fetch`, `StoreLine`, `Lose` |
| `SeasonSummaries` | building a season's summary, one SELECT at a time | `LookAtRounds`, `SelectMatches`, `LookAtFinality`, `LookAtReview`, `ReadPopulation`, `ReadFacts`, `Replace`, and the other writers |
| `SeasonReport` | the report's reads over the same tables | `ReportSelect`, and the other writers |
| `CurrentSeason` | collections that determine and persist the current season | `BeginCollection`, `SelectSeason`, `ResolveCurrentSeason`, `CollectRounds`, `PersistCollected` |
| `StatsPro` | imports of the league's editions | `FetchEdition`, `OpenSavepoint`, `PersistRow`, `RowFails`, `ReleaseSavepoint`, `Dies`, `Publish` |

`MCStatPolling`, `MCPollingSeries`, `MCLiveFeeds` and `MCServices` are the instances
TLC checks; the `_proofs` modules hold the theorems. A definition whose comment starts
with "Mutant" is a plausible bug of a definition after it; replacing the one by the
other must break the property `PROJECT.json` names.

## What is checked

| Run | Instance | Shows |
|---|---|---|
| `leases` | one match, two schedulers whose lives may overlap, two generations, failing transactions, recovery by hand | lease and audit consistency, fencing, history, no reopened terminal window, the refinement of `FencedLease` |
| `writers` | one match from SCHEDULED on, three players, one-shot collections with delayed stores | only commits write statistics, authority never drops, the poller keeps finality |
| `refresh` | two matches, one outside the rollout, metadata cancels a match, two process lives | a completed window stands on final statistics |
| `series` | one match to its end, three faults, with and without metadata refreshes | published statistics are settled, a live match is followed, leases end |
| `feeds` | one of the three collectors per behaviour, a match that is played, one fault, garbled and unpublished answers | what each table says of the match at every moment; the final feed is captured |
| `services` | the seventeen service modules, one followed per behaviour | one deep property of each, listed below |
| `finality`, `batches`, `shutdown`, `horizon`, `lifecycle_lag`, `reconciliation` | small instances | six sentences of docs and comments the code does not keep; see "Findings" |

`services` is a union and not a product. A behaviour chooses one module at the start
and the others stand still. No two modules have a variable in common, except the
season's summaries and its report, which read the same tables and move together; so
a property about the variables of one module holds in the union exactly when it holds
of that module alone. Each module carries the writers that matter to it: whoever
else changes its tables in the code has an action in it.

| Module | Property | Says |
|---|---|---|
| `WriteLane` | `ClosesInOrder` | once drained nothing writes; once closed every thread gets out (liveness) |
| `JobRegistry` | `NeitherTwiceNorLost` | no date is fired twice by its schedule; after startup a pending row has its job or was counted as an error |
| `TokenPool` | `GivesUpForCause` | a request fails as unauthenticated only if it was denied a token, or refused twice with an expiry in between |
| `Analytics` | `CountedOnce` | a stored observation is in the raw rows or in an aggregate, once |
| `Migrations` | `SchemaSound` | what is committed has no gap and no dangling reference |
| `SeasonSync` | `CompleteWasCollected` | a match is passed over only if its rows are those of the last completed collection |
| `SeasonCommands` | `SuccessIsEarned` | exit code 0 means everything selected was dealt with, stored and audited |
| `PlayerIdentity` | `IdentityStable` | identifiers never move, a resolved team is never lost |
| `PageWalk` | `NothingSkipped` | a published collection holds what was listed throughout |
| `CurrentSeason` | `MarkerFollowsEvidence` | no season is marked but the one determined last |
| `StatHistory` | `HistoryReplays` | baseline and changes lead to the stored row |
| `SeasonSummaries` | `SummaryBacked` | a summary counts stored authoritative rows on both sides |
| `SeasonReport` | `UsableIsCovered` | a report that exits with 0 is right about the facts |
| `StatsPro` | `PublishedWhole` | whole editions only |
| `Injuries` | `InjuredAsLastSeen` | the current rows are the list as last shown |
| `EvidenceCapture` | `CaptureCloses`, `ReportsAreGrounded` | the capture ends; a reported move has its ground in the two answers |
| `Reads` | `AnswersHoldTogether` | final statistics have authoritative rows; named players have names |

Bounds. Two generations are what fencing needs: one attempt that lost its lease and
one that got it. Two processes give a crash or a shutdown followed by a recovery that
sees the first life's rows. A lease of one tick, delays of one tick and ages that
saturate one past their threshold let every comparison of an instant with now come
out either way. Two or three players on two sides are the smallest rows that tell
partial from satisfactory finality. `series` uses delays and a lease of up to two
ticks, so that a lease can outlast a due time and the reverse, and three faults, so
that a crash, a failed request and a lost transaction can follow each other. One
scheduler at a time is the only supported deployment, and nothing detects a second
one; `leases` lets two overlap, because one scheduler never claims a match again
while it waits for an attempt at it and the fence would hardly be reached.

In `feeds` an arrival, a departure and another arrival fit into three rotations, and
a text can be revised twice. The grace of four ticks is longer than the faults and
the outage together: `FinalFeedCaptured` needs that, as the code does. In `services`,
two actors of each kind (callers, runs, collectors, importers, processes) are what a
race takes; three threads give the write lane a drainer, a holder and a waiter;
two expiries let a token go stale on both tries; four days give a roll-up one day
past retention and one within; five records and pages of two make three pages, so
entries can shift over a boundary twice; migrations 2 and 4 rebuild a table, so one
rebuild is known to both releases and one to the newer only. What an action only
counts against a bound (requests, changes, crashes) is named `Max...` and listed with
the constants.

`CHECK_DEADLOCK FALSE` is set because the instances stop on purpose once generations,
faults, lives or requests are used up. Symmetry is used for processes only, in
`leases` and `refresh`; neither checks a liveness property.

Fairness.

- `PollingSeries`: `Tick`, time passes; `Claim`, the planner job is an interval job;
  `Settle`, a request has a timeout and its transactions end (whether well is bounded
  by `MaxFaults`); `Restart`, the service manager; `RefreshLive`,
  `schedule_match_scrapes.py` refreshes every match stored as LIVE at an interval.
  Nothing is assumed of upstream, of metadata refreshes, or of status collections for
  matches stored otherwise: no job promises them.
- `LiveFeeds`: `Select` is an interval job, `Ask` and `Persist` end because requests
  and transactions have timeouts, `Restart` and `Tick` as above. Nothing is assumed of
  the status refreshes.
- `WriteLane`: a thread inside the lane goes on (`LaneStep`), and a drain ends, by
  success or by its timeout. Nobody is assumed to call.
- `StatPolling` and the other services assume none.

An interval job is one until somebody calls `/scheduler/refresh`
(`scheduler/api.py:170`), which removes every job and registers the line-up, statistics
and refresh jobs again, not the planner's, the live poller's or the feeds'. What `series`
and `feeds` say of progress ends there, until a restart of the scheduler.

## What is proved

Every invariant and every action property the passing runs check is a theorem, for
any number of matches, players, processes, threads, requests and records, and so is
the refinement. The proofs lie in seven modules over one of shared lemmas:

| Module | About |
|---|---|
| `FencedLease_proofs` | the abstract lease |
| `StatPolling_proofs` | transitions of a window's row, types, leases, fencing |
| `StatRecords_proofs` | audit rows, statistics, authority and finality |
| `StatPollingFence_proofs` | refinement, terminal windows, owners and their rows |
| `LiveFeeds_proofs` | the three live collectors |
| `Infrastructure_proofs` | migrations, analytics, evidence, lane, registry, tokens |
| `SeasonData_proofs` | the season's data, the commands over them, what is read |
| `Counting_proofs` | least elements, counting up, step-by-step construction |

The polling protocol:

- `TypeCorrect`, `LeasesConsistent`: the types; a window is leased exactly when it
  carries a token, the token is the newest generation, and owner and expiry go with
  it. They are one inductive invariant, `Inv`: the types alone do not survive
  `Reconciled`, which clears a lease only when it sees the status `leased`, and
  `LeaseConsistent` alone says nothing of the domain. One lemma per action
  (`...Keeps`) stands on lemmas about the row's transitions.
- `NewestCommits`: an attempt that commits is the one of the newest generation.
  `Commit` requires the window to carry the attempt's token, and `LeaseConsistent`
  says whose that is.
- `AuditsAgree`, `HistoryIsFinal`: the two rows of an attempt agree on every path,
  and once it ended nothing changes them. `Unstarted` says that generations never
  claimed have neither task nor rows and that a task that has not started has no
  rows; without it `start_attempt` might overwrite an old attempt. A step is
  classified by what it may do to an attempt's rows (`Moves`) and task (`TaskMoves`).
- `OnlyCommitsWrite`, `AuthorityKept`, `FinalityOfPoller`: statistics are written by
  commits and one-shot stores only, never under a lower authority, and the poller
  never takes finality away.
- `CompletedIsFinal`: where no one-shot collection writes, a complete window stands
  on final statistics. A one-shot collection breaks that (finding 3), so
  `CompleteMeansFinal` quantifies over the matches without one.
- `WorkerIsFenced`: `StatPolling` implements `FencedLease` for every window. Each
  step that touches a lease is a `Grant`, `Lapse`, `Revoke` or `GiveBack`; every other
  one keeps lease and commits and can only end tasks: a `Quit`, possibly of none.
  `ValidLeaseKept`: a lease that has not run out goes only with its own attempt.
- `TerminalKept`: no claim, attempt, recovery or release moves a window out of a
  terminal status. `OwnersRun`: a started attempt that still holds its lease finds
  its rows running, since recovery repairs them only together with the lease.
- `FencedInOrder` (`FencedLease`): results are stored in the order of the grants and
  once each.

The live feeds:

- `HistoryTellsState`: the moves stored for a player alternate, and the last of them is
  what the row says (`Told`, for every bench `BenchTold`).
- `DeparturesAreReal`: a departure is stored only for a player who was off the bench
  when the answer was given; a cycle remembers what it asked (`AnswerObserved`).
- `OnePollReconciles`: one poll at most is stored after the end; a stored closing poll
  is the last of the polls, with the match over here and upstream and no cycle open
  (`SettledAfter`).
- `OnlyOmissionErases`: a selected player is erased only by an answer that published
  the list without the player.
- `EditsLinkTheTimeline`: of the events of a slot none is stored twice and the edits lead
  back through all of a player's slot. Storing one event keeps `Timelines`, and a feed
  is events stored one after the other (`Iterates`, then `UpTo` over its length).

The infrastructure:

- `SchemaIsSound`: the migrator's draft goes on from what is committed
  (`DraftAhead`), and enforcement is off for every rebuild that may still be ahead
  of it (`RebuildsUnchecked`), although others migrate between preflight and lock.
- `StoredAreCounted`: `Accounts` says of one state of the tables that raw rows and
  aggregates together count each observation once; it is kept for the committed
  tables and for the roll-up's draft of them (`RollupFollows`), and an observation is
  in one place of the pipeline only (`OnePlace`). The theorem needs a retention of a
  day or more, which `config.py:316` does not enforce: with none, a second roll-up of
  a day overwrites its aggregate with the late rows alone.
- `CapturesClose`, `ReportsHold` (`EvidenceInv`): no cycle starts after the grace;
  the reports show the outcomes of the polls, every bench move between two lists that
  name the player, and none without a move or a nameless entry on that side.
  `ListsKept` says what a stored poll keeps of its answer, so that the comparison of
  two stored polls is one of two answers.
- `DrainedLaneIsQuiet`: once shutdown has seen the lane drained no writer is inside,
  waits, or has announced itself. It is the safety half of `ClosesInOrder`: the
  counters never say less than there is.
- `DatesFireOnce` (`JobInv`): no date fires twice, and at startup every pending row has
  its job unless its reconciliation was counted as an error.
- `GivesUpInTheEnd`: a request is given up as unauthenticated only when it was denied a
  token, or refused twice with an expiry in between. A worker pauses for the first
  reason as for the second, without a refusal of anything. `PoolInv` adds who holds the provider's lock,
  and that neither the stored token, nor one about to be stored, nor the one a
  refused request took is older than the refusal. It rests on `invalidate` waiting
  for the lock.

The season's data:

- `CompleteIsNoAccident`: a match passed over has exactly the rows of the completed
  collection started last. The code compares two numbers: what was collected is still
  stored (`CompletedIsStored`), and a subset of equal size is the whole.
- `SuccessesAreEarned`: exit code 0 means everything selected is dealt with, stored and
  audited; each round of a command adds to what is (`SyncGoesOn`, `BackfillGoesOn`).
- `ChangesReplay`: baseline and changes lead to the row, and nothing is kept
  of a statistic before its first row (`NothingBeforeTheRow`).
- `SummariesAreBacked` (`BuilderInv`): a summary stands on authoritative facts of both
  sides or on a review, although each SELECT sees another state.
- `UsableReportsAreCovered`: a report that exits with 0 is right about the facts of
  every concluded match it saw. What it saw still holds (`SeenHolds`), and the exit
  code was found from all that it read (`VerdictEarned`).
- `AnswersHold` (`ReadsInv`): final rows are listed with authority on each side asked
  for, and every linked player is named, because the writer that adds a link stores
  the player before and the SELECTs come in the opposite order.
- `PagesSkipNothing`: a published collection holds what was listed throughout. While
  records only join, none slips back over a boundary that was passed (`TakenSoFar`);
  the season's players, while records only leave, are published only when as many
  were taken as there were at the first answer (`TakenFrom`).
- `IdentitiesAreStable`: identifiers never move and a resolved team is never lost; each
  entry of a snapshot keeps `Persisted`, whatever the entries before it stored.
- `CurrentSeasonIsKept` (`Determination`), `EditionsAreWhole` (`OneSavepoint`,
  `PartOfEdition`), `InjuriesAreAsSeen`: the marker, the league's editions and the
  injury list follow what was determined, fetched or seen last.

The theorems about a service are stated of its own specification; `Services` takes
its steps as they are while the others stand still.

Two things about the form of the proofs. The library's induction theorems take an
operator and cannot be cited here, so `Counting_proofs` does the induction with sets:
a set of numbers that is not empty has a least member (from the library's theorem on
well-founded relations), so a set that holds 0 and with each number the next holds
all, and a function built step by step exists. Recursion in the models (a feed's
events, a snapshot's entries) is a recursive function over `0 .. n` for that reason.

Assumed are only the ASSUMEs of the modules. Delays lie within the stated maximum,
staleness thresholds are no shorter than the maximum attempt, and that is no shorter
than the lease (`RecoverySettings` refuses other values). Players, squads, fixtures
and listings are finite. No player is called "missing". Null values (`NoClub`, `NoJob`, `NoWriter`, `NoThread`,
`Nobody`) are no members of the sets they stand beside, and identifiers of the two
providers are distinct. Clocks, retention and bounds are natural numbers and a
calendar year has a day. An answer to a synchronisation lists players of the match.

Only model-checked: liveness (`series`, `FinalFeedCaptured` in `feeds`, and the second
half of `ClosesInOrder`), which is out of the proof system's reach; and that the six
sentences under "Findings" are violated, which is a matter of a trace.

## Findings

The first five are sentences of `docs/architecture/match_window_planner.md` against
the code, the sixth a comment of the module.

1. `horizon`: a match without final statistics "becomes terminal" after the post-match
   horizon only if a planner pass happens, and none is due: it is polled for ever.
2. `lifecycle_lag`: the lag of a window's lifecycle "should self-correct on the next
   match_status collection", but a metadata refresh that stored the status first
   leaves that collection nothing to store, and then it does not replan. A window that
   still says SCHEDULED skips every claim.
3. `finality`: a one-shot collection has no final-snapshot guard; a live snapshot with
   one more player takes a match's finality away.
4. `batches`: the wake-up stops waiting for its batch at the first exception.
5. `shutdown`: a wake-up between the worker's and the scheduler's shutdown makes a new
   worker that claims.
6. `reconciliation`: "LIVE -> one final POSTGAME reconciliation poll -> stop" skips the
   poll for a match whose stored status goes from LIVE straight to CONCLUDED.

Met while modelling, with no run of their own:

- `afl_json/player_stats.py:405`: an unchanged observation does not advance
  `collected_at`, so an older response of equal authority that arrives after it still
  overwrites the row, although the docstring says stale data never does.
- `afl_json/season_sync.py:571`: a failed audit write sets
  `processing_stopped_for_safety`, but the loop over the matches goes on; a run that
  does stop leaves its season row running. `recover_stale_running_runs` has no caller.
- `afl_json/rosters.py:596`: one unpublished match makes the whole round's answer
  unavailable. A roster backfill counts a round with unmatched teams as a success.
- `afl_json/orchestration.py`: `_normalised(..., status=...)` ignores the status, so a
  partial player collection is recorded as successful.
- `scheduler/manual_triggers.py:117`: duplicate check and registration are two
  transactions; two requests may both pass.
- `scheduler/registry.py`: rows of jobs APScheduler missed or that were deleted from
  its store stay pending until a restart reconciles them.
- `scheduler/write_lane.py:74`: an exception between the pending counter and the try
  block leaves the counter up, and a later drain times out.
- `afl_json/bootstrap.py`: the scheduled refresh passes no configured year and may
  clear, off-season, the marker the configured command set.
- `collection/match_interchange_evidence.py`: flags compare neighbouring polls, so a
  change that falls on a poll in which the side was missing is never flagged. An entry
  without a `playerId` is "excluded from comparison" (line 114), but the rest of its
  side is compared: a player who stays, whose entry loses its identifier for a poll,
  is flagged as disappeared and then as appeared. `match_interchange.py` guards
  against that.

## Abstractions

- In the polling protocol a player row is its snapshot authority; values, history and
  collection times are `StatHistory`'s, for one statistic of one player.
- The claim takes any batch of due windows of the right size, not the longest overdue
  first. Startup recovery takes any candidates up to its limit.
- `next_due_at` of a planned window is not kept: no claim reads it. A missing start
  time and a missing identity are one case; `Fact` never has either, as stored matches
  have both.
- Recovery's reasons and evidence labels, `response_received_at`, counters and texts
  are left out. The planner does not fail inside recovery.
- The observation age is counted only while the lifecycle is CONCLUDED: the only
  decision that reads it is the horizon of a concluded match.
- The worker made during a shutdown keeps no authentication pause of its own. One
  one-shot collection per match is in flight at a time.
- `PollingSeries` calls every claim generation 1, and its final snapshot lists every
  player; `StatPolling` covers what that leaves out.
- The feeds' payloads are what was readable of them: which side was a list, which
  entry was anonymous, which slot and text. An upstream listing keeps its order.
- Backoff, rate limits and `Retry-After` only take time and are left out of
  `TokenPool`.
- `SeasonCommands` takes any decision about a match that the stored facts admit;
  `SeasonSync` has the decision itself.
- `Analytics` assumes that the queue is never more than a day behind.
- `CurrentSeason` takes a day and what the endpoint says of a season from small sets.
- `TokenPool`: upstream refuses a token only when it has expired, and an answer that
  ends a request for another reason is one outcome, `failed`.
- `EvidenceCapture` keeps of an interchange answer which sides were lists, whom each
  shows, who lacks an identifier, and the minutes; interchange counts, bench reasons
  and team totals are left out, and with them the transitions they give.
- `Reads` has no player filters of a statistics request (`routes_v1.py:652`): they
  narrow what is listed.
- In `StatHistory` a garbled statistic of a first line is stored as NULL, as in the
  code, so the first number after it counts as a change.
- A migration is a number, and whether it rebuilds a table that others refer to.

## Not modelled

- Administration forms, API keys, the operations dashboard, the data explorer: each
  handler changes one row or only reads; no step depends on an earlier one.
- HTML scrapers, HTTP utilities, `import_to_db.py`, `merge/`: parsing and string
  similarity without state between calls.
- `afl_json/orchestration.py` and the bootstrap's files: a sequential collection into
  files; nothing runs beside it.
- The diagnostics framework's one-off observations: written, never read back. The
  period state provider of `player_stats.py` is not wired up in production.
- Player movements: one delete and insert of a page in a transaction.
- SQLite itself: serialised write transactions and atomic commits are assumed; a busy
  database is a choice of the models.
- Argument parsing, configuration, logging, rendering, and the unversioned routes.
- Two hazards of `PROJECT.json` have no property: windows outside the allowlist at the
  head of the claim order, and matches first stored by a metadata refresh. Both need
  more matches at once than the polling model keeps small.

## Plan

With the invariants proved, what is left is to state more of what the services promise
in abstract specifications and to prove the refinement, as `FencedLease` does for the
worker: the write lane as a lock that closes, the analytics pipeline as a bag that
only grows, the season's builders as one atomic read. The two hazards without a
property need a planner over several matches and an order of claims.
