---------------------------- MODULE PollingSeries ----------------------------
(* The life of one match's window under one scheduler process, told without   *)
(* generations and audit rows so that it can go on for ever: what eventually   *)
(* happens to it.  The lease protocol itself is StatPolling's business; here a  *)
(* claim is settled in two steps (claim, then one of its endings).             *)
(* Upstream is part of the model: the match is played, and some time after it  *)
(* ended the final statistics are published.                                   *)
EXTENDS MatchWindows

CONSTANTS Delays,       \* ticks a cadence or a backoff may choose
          MaxFaults,    \* bound: crashes, failed requests and failed transactions
          Refreshes     \* may the daily METADATA refresh run: the cases to check

ASSUME SeriesAssumption ==
  Delays \subseteq 1 .. MaxDelay /\ MaxFaults \in Nat /\ Refreshes \subseteq BOOLEAN

VARIABLES upstream,   \* the match as the match-detail endpoint reports it
          published,  \* upstream publishes the final statistics
          opened,     \* has the pre-match window of the match begun
          status,     \* matches.status
          window,     \* its match_stat_windows row
          stats,      \* its cfs_player_stats rows
          poll,       \* the attempt in flight, with the lifecycle it goes by
          up,         \* does the scheduler process run
          faults,     \* faults so far
          checked,    \* has the status been collected since it was last stored
          refreshes   \* does this behaviour have metadata refreshes

world == <<upstream, published, opened, refreshes>>
vars  == <<world, status, window, stats, poll, up, faults, checked>>

Owner == "scheduler"
Idle  == [busy |-> FALSE, lifecycle |-> None]
Poll  == [busy : BOOLEAN, lifecycle : RawStatus \cup {None}]

TypeOK ==
  /\ upstream \in Lifecycle /\ status \in RawStatus
  /\ {published, refreshes} \subseteq BOOLEAN /\ opened \in BOOLEAN /\ up \in BOOLEAN /\ checked \in BOOLEAN
  /\ window \in WindowRow({Owner}) /\ window.gen = 0 /\ window.token \in {NoToken, 1}
  /\ stats \in Rows /\ poll \in Poll /\ faults \in 0 .. MaxFaults

Fact(raw) == [raw |-> raw, opened |-> opened, enabled |-> TRUE,
              supported |-> TRUE, identified |-> TRUE]

Planned(raw) == Reconciled(window, Fact(raw), stats)

Init ==
  /\ upstream = "SCHEDULED" /\ published = FALSE /\ opened \in BOOLEAN
  /\ status = "SCHEDULED" /\ stats = NoRows
  /\ window = NoWindow
  /\ poll = Idle /\ up = FALSE /\ faults = 0 /\ checked = FALSE
  /\ refreshes \in Refreshes

-----------------------------------------------------------------------------
(* Upstream and the clock.                                                     *)

WindowOpens ==
  /\ ~opened /\ opened' = TRUE
  /\ UNCHANGED <<upstream, published, refreshes, status, window, stats, poll, up, faults, checked>>

\* The match starts inside its window and is played to its end.
Play ==
  /\ opened
  /\ upstream' \in {s \in Lifecycle : Rank[s] = Rank[upstream] + 1}
  /\ UNCHANGED <<published, opened, refreshes, status, window, stats, poll, up, faults, checked>>

Publish ==
  /\ upstream = "CONCLUDED" /\ ~published /\ published' = TRUE
  /\ UNCHANGED <<upstream, opened, refreshes, status, window, stats, poll, up, faults, checked>>

Tick ==
  /\ window' = AgedWindow(window)
  /\ UNCHANGED <<world, status, stats, poll, up, faults, checked>>

-----------------------------------------------------------------------------
(* The poller.                                                                 *)

Owned == window.token # NoToken

\* The series is told without generations: every claim is named 1.
Claim ==
  /\ up /\ ~poll.busy /\ IsDue(window)
  /\ window' = [Claimed(window, Owner) EXCEPT !.gen = 0, !.token = 1]
  /\ poll' = [busy |-> TRUE, lifecycle |-> window.lifecycle]
  /\ UNCHANGED <<world, status, stats, up, faults, checked>>

\* run_claim ends with the window changed as it is told, if it still holds it.
Ends(row) ==
  /\ poll' = Idle
  /\ window' = IF Owned THEN row ELSE window

Skip ==
  /\ poll.busy /\ poll.lifecycle \notin {"LIVE", "POSTGAME", "CONCLUDED"}
  /\ \E d \in Delays : Ends(Unleased(window, "due", d))
  /\ UNCHANGED <<world, status, stats, up, faults, checked>>

\* What upstream answers: everything once it is published, until then one side's
\* live rows or nothing.
AnswersNow ==
  IF published
  THEN {[endpoint |-> "CONCLUDED", players |-> Player, damaged |-> FALSE]}
  ELSE {[endpoint |-> None, players |-> S, damaged |-> FALSE] : S \in {{}, Home}}

\* Request, response and final transaction of a poll that is answered.
Answered ==
  /\ poll.busy /\ poll.lifecycle \in {"LIVE", "POSTGAME", "CONCLUDED"}
  /\ \E a \in AnswersNow, d \in Delays :
       LET result == Collected(a, Later(poll.lifecycle, status))
           kept   == Finality(stats) = "authoritative_complete" /\ result.kind # "concluded"
           rows   == IF kept THEN stats ELSE Upserted(stats, result)
           final  == Finality(rows) = "authoritative_complete"
           next   == IF final THEN "complete"
                     ELSE IF result.kind \in {"empty", "unknown"} THEN "backoff"
                     ELSE "awaiting_final"
       IN  /\ Ends([Unleased(window, next, IF final THEN Unset ELSE d)
                      EXCEPT !.finality = Finality(rows)])
           /\ stats' = IF Owned THEN rows ELSE stats
  /\ UNCHANGED <<world, status, up, faults, checked>>

Fault == faults < MaxFaults /\ faults' = faults + 1

\* Mutant: the window backs off without a due time.
RequestFailsForGood ==
  /\ Fault /\ poll.busy /\ Ends(Unleased(window, "backoff", Unset))
  /\ UNCHANGED <<world, status, stats, up, checked>>

\* The request fails, and the window backs off.
RequestFails ==
  /\ Fault /\ poll.busy /\ poll.lifecycle \in {"LIVE", "POSTGAME", "CONCLUDED"}
  /\ \E d \in Delays : Ends(Unleased(window, "backoff", d))
  /\ UNCHANGED <<world, status, stats, up, checked>>

\* A transaction of the attempt fails: run_claim raises and the lease stays.
Abandon ==
  /\ Fault /\ poll.busy /\ poll' = Idle
  /\ UNCHANGED <<world, status, window, stats, up, checked>>

-----------------------------------------------------------------------------
(* The process and the status writers.                                         *)

Crash ==
  /\ Fault /\ up /\ up' = FALSE /\ poll' = Idle
  /\ UNCHANGED <<world, status, window, stats, checked>>

\* Recovery frees an expired lease, and the startup reconciliation replans.
Restart ==
  /\ ~up /\ up' = TRUE /\ window' = Planned(status)
  /\ UNCHANGED <<world, status, stats, poll, faults, checked>>

\* Mutant: an advanced status is stored without replanning the window.
CollectStatusOnly ==
  /\ up /\ checked' = TRUE
  /\ status' = (IF Advances(status, upstream) THEN upstream ELSE status)
  /\ UNCHANGED <<world, window, stats, poll, up, faults>>

\* A MATCH_STATUS collection of the match.
CollectStatus ==
  /\ up /\ checked' = TRUE
  /\ IF Advances(status, upstream)
     THEN status' = upstream /\ window' = Planned(upstream)
     ELSE UNCHANGED <<status, window>>
  /\ UNCHANGED <<world, stats, poll, up, faults>>

\* The five-minute job that collects the matches stored as LIVE.
RefreshLive == status = "LIVE" /\ CollectStatus

RefreshMetadata ==
  /\ refreshes /\ up /\ status' = upstream
  /\ checked' = (checked /\ status' = status)
  /\ UNCHANGED <<world, window, stats, poll, up, faults>>

-----------------------------------------------------------------------------
Settle == Skip \/ Answered

Next ==
  \/ WindowOpens \/ Play \/ Publish \/ Tick
  \/ Claim \/ Settle \/ RequestFails \/ Abandon
  \/ Crash \/ Restart \/ CollectStatus \/ RefreshMetadata

\* Time passes, the planner job wakes up, an attempt ends, the service manager
\* restarts the process, and the five-minute job runs.  Upstream owes nothing, and
\* nobody promises a status collection for a match that is not stored as LIVE.
Fairness ==
  /\ WF_vars(Tick) /\ WF_vars(Claim) /\ WF_vars(Settle)
  /\ WF_vars(Restart) /\ WF_vars(RefreshLive)

Spec == Init /\ [][Next]_vars /\ Fairness

-----------------------------------------------------------------------------
\* Once the final statistics are out and the match is stored as CONCLUDED, polling
\* comes to an end, whatever crashed and failed before.
PublishedIsSettled ==
  (~refreshes /\ published /\ status = "CONCLUDED") ~> window.status \in {"complete", "failed_terminal"}

\* No lease is held for ever, also when its attempt died or its process did.
LeaseEnds == window.status = "leased" ~> window.status # "leased"

\* A match that ended while stored as LIVE reaches the planner's row, also when the
\* status is collected under a valid lease.
LiveMatchIsFollowed ==
  (~refreshes /\ status = "LIVE" /\ upstream = "CONCLUDED") ~> window.lifecycle = "CONCLUDED"

\* The window's lifecycle never lags the stored status by more than a collection.
CorrectedByCollection ==
  checked /\ window.status # "absent" => window.lifecycle = LifecycleOf(status)

\* After the post-match horizon a window is terminal, with or without statistics.
HorizonEnds == status = "CONCLUDED" ~> window.status \in Terminal
=============================================================================
