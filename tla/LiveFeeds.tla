------------------------------ MODULE LiveFeeds ------------------------------
(***************************************************************************)
(* The production collectors that follow a match while it is played:       *)
(* interchange, commentary and rosters (scheduler/match_*_production.py).  *)
(* Each is one interval job that never overlaps itself.  A cycle selects   *)
(* its candidates from the local matches table, asks the endpoint, and     *)
(* persists the answer in one write-lane transaction that reads the local  *)
(* status again: the match may change between any two of these steps.      *)
(*                                                                         *)
(* The collectors share nothing but the matches table, which they only     *)
(* read, so a behaviour enables one of them (the AFL_*_PRODUCTION_ENABLED  *)
(* settings) and follows one match, for rosters one round of matches.      *)
(***************************************************************************)
EXTENDS MatchInterchange, MatchCommentary, MatchRosters

CONSTANTS Enabled,        \* the feeds a behaviour may enable
          Tolerance,      \* ticks after the scheduled start still polled
          Grace,          \* ticks after the last active commentary poll
          MatchLength,    \* ticks a match lasts at least
          MaxRotations, MaxRevisions, MaxCommentary, \* bounds: upstream changes
          MaxFaults,      \* bound: failed polls and transactions, crashes
          MaxDown         \* bound: the ticks a crash lasts

Feeds == {"interchange", "commentary", "roster"}
ASSUME EnabledAssumption == Enabled \subseteq Feeds
Status == {"SCHEDULED", "LIVE", "POSTGAME", "CONCLUDED"}

VARIABLES feed, up, now, real, local, due, cycle,
          bench, spoken, sheets,         \* what the endpoints hold
          known, links,                  \* matches and players resolved locally
          interchange, commentary, rosters, \* the tables of each collector
          faults, down, changes

clock == <<now, due, down>>
upstream == <<bench, spoken, sheets, changes>>
identities == <<known, links>>
tables == <<interchange, commentary, rosters>>
vars == <<feed, up, clock, real, local, cycle, upstream, identities, tables, faults>>

(* Nothing in hand; otherwise the step reached, the answer received and    *)
(* (for the properties) who really was on the bench when it was given.     *)
IdleCycle == [step |-> "idle", ok |-> FALSE, answer |-> <<>>, seated |-> {}]
NoSheet == [m \in RoundMatches |-> [positions |-> [p \in Squad |-> NotListed],
                                    ins |-> [p \in Squad |-> NotListed]]]

Init ==
    /\ feed \in Enabled
    /\ up = TRUE /\ now = 0 /\ due = TRUE /\ down = 0
    /\ real = "SCHEDULED" /\ local = "SCHEDULED"
    /\ cycle = IdleCycle
    /\ bench = [p \in {} |-> 0] /\ spoken = <<>> /\ sheets = NoSheet /\ changes = 0
    /\ known \in (IF feed = "roster" THEN SUBSET RoundMatches ELSE {{}})
    /\ links = {}
    /\ interchange = [state |-> [p \in Players |-> NoState],
                      history |-> [p \in Players |-> <<>>], polls |-> <<>>]
    /\ commentary = [rows |-> <<>>, polls |-> 0, active |-> Never]
    /\ rosters = [rows |-> [m \in RoundMatches |->
                              [c \in Collections |-> [p \in Squad |-> NoRosterRow]]],
                  changed |-> 0]
    /\ faults = 0

----------------------------------------------------------------------------
(* Candidates.  Time 1 is the scheduled start; a match that has not been   *)
(* seen to start is polled for a while after it.                           *)
WithinKickoff == local = "SCHEDULED" /\ now >= 1 /\ now <= Tolerance

(* Mutant of ReconciliationPending: forgets that one poll is enough.       *)
ReconciliationAlways == local = "POSTGAME"

ReconciliationPending ==
    /\ local = "POSTGAME"
    /\ \A i \in DOMAIN interchange.polls : interchange.polls[i] # "POSTGAME"

InterchangeCandidate == local = "LIVE" \/ WithinKickoff \/ ReconciliationPending

(* Mutant of StillActive: no grace after the match is over.                *)
NotActive == FALSE

StillActive == RecentlyActive(commentary, now, Grace)

CommentaryCandidate ==
    local \in {"LIVE", "POSTGAME"} \/ WithinKickoff \/ StillActive

(* A round is polled from a day before its first match; only a round whose *)
(* matches are all over is left alone.                                     *)
RosterCandidate == local = "LIVE" \/ (local # "CONCLUDED" /\ now <= Tolerance)

Candidate == CASE feed = "interchange" -> InterchangeCandidate
               [] feed = "commentary" -> CommentaryCandidate
               [] feed = "roster" -> RosterCandidate

Select ==
    /\ up /\ due /\ cycle.step = "idle" /\ Candidate
    /\ cycle' = [IdleCycle EXCEPT !.step = "selected"]
    /\ due' = FALSE
    /\ UNCHANGED <<feed, up, now, down, real, local, upstream, identities, tables, faults>>

(* The endpoint answers, with what it holds at that moment and in whatever *)
(* form it arrives.                                                        *)
AnswersNow == CASE feed = "interchange" -> Arrivals(bench)
                [] feed = "commentary" -> {spoken}
                [] feed = "roster" -> {a \in RosterAnswers(sheets) : a.kind # "failed"}

Ask ==
    /\ up /\ cycle.step = "selected"
    /\ \E a \in AnswersNow :
          cycle' = [step |-> "asked", ok |-> TRUE, answer |-> a, seated |-> DOMAIN bench]
    /\ UNCHANGED <<feed, up, clock, real, local, upstream, identities, tables, faults>>

(* Unpublished, refused, unreachable or unreadable: all are one outcome.   *)
AskFails ==
    /\ up /\ cycle.step = "selected" /\ faults < MaxFaults
    /\ cycle' = [IdleCycle EXCEPT !.step = "asked"]
    /\ faults' = faults + 1
    /\ UNCHANGED <<feed, up, clock, real, local, upstream, identities, tables>>

(* The transaction.  A failed poll is recorded too, except by the rosters. *)
PersistTables ==
    CASE feed = "interchange" ->
           /\ interchange' = IF cycle.ok
                             THEN PersistInterchange(interchange, cycle.answer, local)
                             ELSE Unanswered(interchange, local)
           /\ UNCHANGED <<commentary, rosters>>
      [] feed = "commentary" ->
           /\ commentary' = IF cycle.ok
                            THEN PersistFeed(commentary, cycle.answer, local, now)
                            ELSE PersistOutcome(commentary, local, now)
           /\ UNCHANGED <<interchange, rosters>>
      [] feed = "roster" ->
           /\ rosters' = IF cycle.ok /\ cycle.answer.kind = "published"
                         THEN [rows |-> RosterAfter(rosters.rows, cycle.answer, known, links),
                               changed |-> ChangeMagnitude(rosters.rows, cycle.answer, known, links)]
                         ELSE [rows |-> rosters.rows, changed |-> 0]
           /\ UNCHANGED <<interchange, commentary>>

Persist ==
    /\ up /\ cycle.step = "asked"
    /\ PersistTables
    /\ cycle' = IdleCycle
    /\ UNCHANGED <<feed, up, clock, real, local, upstream, identities, faults>>

(* The transaction fails and rolls back; the cycle swallows the error.     *)
PersistFails ==
    /\ up /\ cycle.step = "asked" /\ faults < MaxFaults
    /\ cycle' = IdleCycle
    /\ faults' = faults + 1
    /\ UNCHANGED <<feed, up, clock, real, local, upstream, identities, tables>>

Crash ==
    /\ up /\ faults < MaxFaults
    /\ up' = FALSE /\ cycle' = IdleCycle /\ due' = FALSE
    /\ faults' = faults + 1
    /\ UNCHANGED <<feed, now, down, real, local, upstream, identities, tables>>

Restart ==
    /\ ~ up
    /\ up' = TRUE /\ down' = 0
    /\ UNCHANGED <<feed, now, due, real, local, cycle, upstream, identities, tables, faults>>

(* The status refreshes of the same process copy the status upstream.      *)
RefreshStatus ==
    /\ up /\ local # real
    /\ local' = real
    /\ UNCHANGED <<feed, up, clock, real, cycle, upstream, identities, tables, faults>>

(* Players and matches become known to the canonical tables.               *)
Identify ==
    /\ feed = "roster"
    /\ \/ links # Squad /\ \E p \in Squad \ links : links' = links \cup {p} /\ UNCHANGED known
       \/ known # RoundMatches
            /\ \E m \in RoundMatches \ known : known' = known \cup {m} /\ UNCHANGED links
    /\ UNCHANGED <<feed, up, clock, real, local, cycle, upstream, tables, faults>>

----------------------------------------------------------------------------
(* Upstream, and the clock.                                                *)
KickOff ==
    /\ real = "SCHEDULED" /\ now >= 1
    /\ real' = "LIVE"
    /\ UNCHANGED <<feed, up, clock, local, cycle, upstream, identities, tables, faults>>

Siren ==
    /\ real = "LIVE" /\ now > MatchLength
    /\ real' = "POSTGAME"
    /\ UNCHANGED <<feed, up, clock, local, cycle, upstream, identities, tables, faults>>

Conclude ==
    /\ real = "POSTGAME"
    /\ real' = "CONCLUDED"
    /\ UNCHANGED <<feed, up, clock, local, cycle, upstream, identities, tables, faults>>

(* The bench moves only while the match is live.                           *)
Rotate ==
    /\ feed = "interchange" /\ real = "LIVE" /\ changes < MaxRotations
    /\ \E p \in Players :
          bench' = IF p \in DOMAIN bench
                   THEN [q \in DOMAIN bench \ {p} |-> bench[q]]
                   ELSE [q \in DOMAIN bench \cup {p} |->
                           IF q = p THEN Cardinality(DOMAIN bench) + changes ELSE bench[q]]
    /\ changes' = changes + 1
    /\ UNCHANGED <<feed, up, clock, real, local, cycle, spoken, sheets, identities, tables, faults>>

(* A new event enters the feed, newest first, or its text replaces that of *)
(* an event of the same slot.  Texts are numbers in the order of their     *)
(* first use, since nothing but their equality matters.                    *)
Commentate ==
    /\ feed = "commentary" /\ real \in {"LIVE", "POSTGAME"} /\ changes < MaxCommentary
    /\ \E e \in Event \ ToSet(spoken) :
       /\ e.text <= changes + 1
       /\ \/ spoken' = <<e>> \o spoken
          \/ \E i \in DOMAIN spoken :
                /\ spoken[i].slot = e.slot
                /\ spoken' = [spoken EXCEPT ![i] = e]
    /\ changes' = changes + 1
    /\ UNCHANGED <<feed, up, clock, real, local, cycle, bench, sheets, identities, tables, faults>>

Revise ==
    /\ feed = "roster" /\ real = "SCHEDULED" /\ changes < MaxRevisions
    /\ \E m \in RoundMatches, c \in Collections, p \in Squad, place \in Places("positions") \cup Places("ins") :
          /\ place \in Places(c) /\ sheets[m][c][p] # place
          /\ sheets' = [sheets EXCEPT ![m][c][p] = place]
    /\ changes' = changes + 1
    /\ UNCHANGED <<feed, up, clock, real, local, cycle, bench, spoken, identities, tables, faults>>

(* One poll interval.  A running process has polled in the one that ends,  *)
(* a process that is down comes back in time, and the behaviour ends when  *)
(* nothing is left to poll for.                                            *)
Tick ==
    /\ now < MatchLength + 1 + (IF real = "CONCLUDED" THEN Grace + 1 ELSE 0)
    /\ up => cycle.step = "idle" /\ ~ (due /\ Candidate)
    /\ ~ up => down < MaxDown
    /\ now' = now + 1
    /\ due' = up
    /\ down' = IF up THEN 0 ELSE down + 1
    /\ UNCHANGED <<feed, up, real, local, cycle, upstream, identities, tables, faults>>

Collect == Select \/ Ask \/ AskFails \/ Persist \/ PersistFails
Next == \/ Collect \/ Crash \/ Restart \/ RefreshStatus \/ Identify
        \/ KickOff \/ Siren \/ Conclude \/ Rotate \/ Commentate \/ Revise \/ Tick

(* The interval job runs, a request ends (the client's timeouts) and so    *)
(* does its transaction, and the service manager restarts the process.     *)
(* Nothing is assumed of the status refreshes.                             *)
Fairness == /\ WF_vars(Select) /\ WF_vars(Ask) /\ WF_vars(Persist)
            /\ WF_vars(Restart) /\ WF_vars(Tick)

Spec == Init /\ [][Next]_vars /\ Fairness

----------------------------------------------------------------------------
(* The history of a player tells the state the row shows: a player arrives *)
(* only while away, changes count or leaves only while on the bench, and   *)
(* the last move is the row's on_bench.  Both are written from a           *)
(* comparison with the stored row, over many polls, of which any may fail  *)
(* or be garbled.                                                          *)
OnBenchAfter(history, n) ==
    \E i \in 1 .. n : /\ history[i] = "appeared"
                      /\ \A j \in i + 1 .. n : history[j] # "disappeared"
HistoryMatchesState ==
    \A p \in Players :
        LET history == interchange.history[p]
        IN /\ \A i \in DOMAIN history :
                 history[i] = "appeared" <=> ~ OnBenchAfter(history, i - 1)
           /\ interchange.state[p].onBench <=> OnBenchAfter(history, Len(history))

(* A departure is recorded only for a player who was not on the bench when *)
(* the answer was given, whatever part of the answer was readable.         *)
DeparturesObserved ==
    [][\A p \in Players :
          interchange.state[p].onBench /\ ~ interchange'.state[p].onBench
          => p \notin cycle.seated]_vars

(* After the match is over one poll is stored, across crashes and restarts *)
(* and whatever its outcome.                                               *)
ReconciledOnce ==
    \A i, j \in DOMAIN interchange.polls :
        interchange.polls[i] = "POSTGAME" /\ interchange.polls[j] = "POSTGAME" => i = j

(* What the module's documentation says of a match that was followed live: *)
(* LIVE -> one final POSTGAME reconciliation poll -> stop.                 *)
FinalPollNotSkipped ==
    up /\ local = "CONCLUDED" /\ "LIVE" \in ToSet(interchange.polls)
    => "POSTGAME" \in ToSet(interchange.polls)

(* Of the events of one slot none is stored twice, and from the newest of  *)
(* a player's slot the links lead back through all of them.                *)
TimelineLinked ==
    \A i, j \in DOMAIN commentary.rows :
        i < j /\ commentary.rows[i].event.slot = commentary.rows[j].event.slot
        => /\ commentary.rows[i].event # commentary.rows[j].event
           /\ commentary.rows[i].event.slot \in PlayerSlots =>
                 \E k \in i + 1 .. j : commentary.rows[k].edit = i

(* A feed followed while the match was played is stored whole in the end,  *)
(* what was said after the siren included, although the status moves on    *)
(* under the collector: the grace outlasts the faults and the outage.      *)
FinalFeedCaptured ==
    (commentary.active # Never /\ real = "CONCLUDED")
        ~> (ToSet(spoken) \subseteq {commentary.rows[i].event : i \in DOMAIN commentary.rows})

(* A selected player is erased only by an answer that published the list   *)
(* without the player, or with a record that does not name the player,     *)
(* never by one in which the list was missing, the match was unknown or    *)
(* the round was marked unpublished.                                       *)
ErasedByOmission ==
    [][\A m \in RoundMatches, c \in Collections, p \in Squad :
          rosters.rows[m][c][p] # NoRosterRow /\ rosters'.rows[m][c][p] = NoRosterRow
          => /\ m \in known
             /\ cycle.answer.kind = "published" /\ c \in cycle.answer.listed[m]
             /\ cycle.answer.sheets[m][c][p] = NotListed]_vars
=============================================================================
