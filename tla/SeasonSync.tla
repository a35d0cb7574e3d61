------------------------------ MODULE SeasonSync ------------------------------
(***************************************************************************)
(* The season synchroniser on one match (afl_json/season_sync.py): runs of *)
(* the command line decide from the stored status, rows and audits of      *)
(* earlier runs whether the match is collected again; one-shot collections *)
(* and other runs write the same rows in between.  Each step that commits  *)
(* is an action: the audit row, the rows, the audit's end, and any of them *)
(* may fail or be the last thing the process does.                         *)
(***************************************************************************)
EXTENDS AuthoritativeStats

CONSTANTS Runs,          \* runs of the synchroniser, at work or finished
          SyncAnswers,   \* responses of the statistics endpoint
          SyncStatuses,  \* what the matches table and match detail may say
          MaxPolls       \* bound: one-shot collections

ASSUME SyncAnswersAssumption == \A answer \in SyncAnswers : answer.players \subseteq Player

VARIABLES said,        \* [stored, upstream] status of the match
          statRows,    \* cfs_player_stats of the match
          reviewed,    \* an active "statistics not expected" review
          audits,      \* audits started, and the completed one started last
          sync,        \* where each run is: [at, order, result]
          polls

syncVars == <<said, statRows, reviewed, audits, sync, polls>>

NoAudit == [order |-> 0, read |-> 0, players |-> {}]
NewRun == [at |-> "new", order |-> 0, result |-> NoResult]

SyncInit ==
    /\ said = [stored |-> "LIVE", upstream |-> "LIVE"]
    /\ statRows = NoRows
    /\ reviewed = FALSE
    /\ audits = [started |-> 0, completed |-> NoAudit]
    /\ sync = [r \in Runs |-> NewRun]
    /\ polls = 0

----------------------------------------------------------------------------
(* reconcile_match_status: the direct status is asked for unless the match *)
(* is known to be over, and moves the stored one only forwards.            *)
Reconciled(direct) ==
    IF Normalise(said.stored) = "CONCLUDED" \/ ~Advances(said.stored, direct)
    THEN said ELSE [said EXCEPT !.stored = direct]

Direct == {said.upstream, None}

Ended(r, how) == sync' = [sync EXCEPT ![r] = [NewRun EXCEPT !.at = how]]

(* The status the run read with its list of matches may be old by now; the *)
(* reconciliation reads it again.                                          *)
Look(r) ==
    /\ sync[r].at = "new"
    /\ \E direct \in Direct :
          said' = IF said.stored \in {"SCHEDULED", "CONCLUDED"} THEN said ELSE Reconciled(direct)
    /\ sync' = [sync EXCEPT ![r].at = IF Normalise(said'.stored) = "CONCLUDED"
                                      THEN "concluded" ELSE "not concluded"]
    /\ UNCHANGED <<statRows, reviewed, audits, polls>>

Concluded == Cardinality(Authoritative(statRows))

AlreadyComplete == Concluded # 0 /\ audits.completed.order # 0
                                 /\ audits.completed.read = Concluded

(* --refresh-complete collects a complete match all the same.              *)
SkipComplete(r) ==
    /\ sync[r].at = "concluded" /\ AlreadyComplete
    /\ Ended(r, "already complete")
    /\ UNCHANGED <<said, statRows, reviewed, audits, polls>>

SkipReviewed(r) ==
    /\ sync[r].at = "concluded" /\ ~AlreadyComplete
    /\ Concluded = 0 /\ reviewed
    /\ Ended(r, "not expected")
    /\ UNCHANGED <<said, statRows, reviewed, audits, polls>>

(* start_scrape_run and complete_scrape_run commit on their own.  Of the   *)
(* audit rows the next decision reads one: the completed one that started  *)
(* last.                                                                   *)
StartScrapeRun == [audits EXCEPT !.started = @ + 1]

CompleteScrapeRun(order, status, players) ==
    IF status = "completed" /\ order > audits.completed.order
    THEN [audits EXCEPT !.completed = [order   |-> order,
                                       read    |-> Cardinality(players),
                                       players |-> players]]
    ELSE audits

StartAudit(r) ==
    /\ sync[r].at = "concluded" /\ ~(Concluded = 0 /\ reviewed)
    /\ audits' = StartScrapeRun
    /\ sync' = [sync EXCEPT ![r].at = "auditing", ![r].order = audits.started + 1]
    /\ UNCHANGED <<said, statRows, reviewed, polls>>

CollectMatch(r) ==
    /\ sync[r].at = "auditing"
    /\ \E direct \in Direct, answer \in SyncAnswers :
          /\ said' = Reconciled(direct)
          /\ sync' = [sync EXCEPT ![r].at = "collected",
                                  ![r].result = Collected(answer, said'.stored)]
    /\ UNCHANGED <<statRows, reviewed, audits, polls>>

UpsertCollected(r) ==
    /\ sync[r].at = "collected"
    /\ statRows' = Upserted(statRows, sync[r].result)
    /\ sync' = [sync EXCEPT ![r].at = "upserted"]
    /\ UNCHANGED <<said, reviewed, audits, polls>>

(* Mutant of AuditStatus: whatever was collected completes the audit.      *)
AuditCompleted(result) == "completed"

AuditStatus(result) == IF result.kind = "concluded" THEN "completed" ELSE "partial"

CompleteAudit(r) ==
    /\ sync[r].at = "upserted"
    /\ audits' = CompleteScrapeRun(sync[r].order, AuditStatus(sync[r].result),
                                   sync[r].result.players)
    /\ Ended(r, AuditStatus(sync[r].result))
    /\ UNCHANGED <<said, statRows, reviewed, polls>>

(* Collection or upsert fails and the audit is failed; the audit itself    *)
(* cannot be ended; the process dies.  Each leaves the rows as they are    *)
(* and no completed audit.                                                 *)
SyncFails(r) ==
    /\ sync[r].at \in {"concluded", "auditing", "collected", "upserted"}
    /\ Ended(r, "failed")
    /\ UNCHANGED <<said, statRows, reviewed, audits, polls>>

----------------------------------------------------------------------------
(* The match goes on; one-shot collections of the match store what they    *)
(* are told, at any authority; a review of it is entered or revoked.       *)
UpstreamAdvances ==
    /\ \E s \in SyncStatuses : Advances(said.upstream, s) /\ said' = [said EXCEPT !.upstream = s]
    /\ UNCHANGED <<statRows, reviewed, audits, sync, polls>>

OneShotWrites ==
    /\ polls < MaxPolls
    /\ polls' = polls + 1
    /\ \E answer \in SyncAnswers : statRows' = Upserted(statRows, Collected(answer, said.stored))
    /\ UNCHANGED <<said, reviewed, audits, sync>>

Review ==
    /\ reviewed' = ~reviewed
    /\ UNCHANGED <<said, statRows, audits, sync, polls>>

SyncNext ==
    \/ UpstreamAdvances \/ OneShotWrites \/ Review
    \/ \E r \in Runs : \/ Look(r) \/ SkipComplete(r) \/ SkipReviewed(r) \/ StartAudit(r)
                       \/ CollectMatch(r) \/ UpsertCollected(r) \/ CompleteAudit(r)
                       \/ SyncFails(r)

SyncSpec == SyncInit /\ [][SyncNext]_syncVars

----------------------------------------------------------------------------
(* A match is passed over as already complete only if its authoritative    *)
(* rows are exactly the players of the completed collection that started   *)
(* last: the two numbers that are compared never agree by accident, not    *)
(* after partial answers, corrections, failed audits or writes of others.  *)
CompleteWasCollected ==
    [][\A r \in Runs :
          sync'[r].at = "already complete" /\ sync[r].at # "already complete" =>
             Authoritative(statRows) = audits.completed.players]_syncVars

=============================================================================
