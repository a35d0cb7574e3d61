----------------------------- MODULE SeasonReport -----------------------------
(***************************************************************************)
(* The completeness report of a season (afl_json/season_report.py) beside  *)
(* the writers.  The reporter reads outside a transaction: each of its     *)
(* SELECTs sees what was committed last by then.  Its findings are a       *)
(* function of what it has seen, its verdict a function of the findings.   *)
(*                                                                         *)
(* Every match has a round of the season and a provider identity, every    *)
(* member of the season a name and a team.                                 *)
(***************************************************************************)
EXTENDS SeasonSummaries

CONSTANT MaxReportWrites  \* bound: transactions of the other writers

ASSUME SquadAssumption == IsFiniteSet(Squad) /\ MinListed \in Nat

VARIABLES drawn,    \* matches whose two participants are teams of the season
          begun,    \* matches whose published start has passed
          mapped,   \* players with a Champion Data identity
          identified,   \* by match: players whose row names their canonical player
          audited,  \* by match: the latest collection audited, [status, wrote]
          report    \* [done, seen, status]

reportVars == <<drawn, begun, mapped, identified, audited, report>>

(* The reporter's SELECTs, in order; "clock" is the time it compares the   *)
(* fixture with.                                                           *)
Selects == <<"season", "matches", "stats", "reviews", "clock", "candidates", "contexts",
             "identities", "crosswalk", "memberships", "audits">>

NoReport == [done |-> 0, seen |-> <<>>, status |-> "none"]
NoRun    == [status |-> "none", wrote |-> FALSE]

(* The last match, which is still to be concluded, is a final.             *)
ReportInit ==
    /\ drawn = ended /\ begun = ended
    /\ mapped = population
    /\ identified = [m \in Fixture |-> {}]
    /\ audited = [m \in Fixture |-> NoRun]
    /\ report = NoReport

----------------------------------------------------------------------------
(* The other writers, beside those of the summary.                         *)
Ahead(table) == table \notin DOMAIN report.seen

RowsStored ==
    /\ Ahead("memberships") /\ StoreFacts
    /\ identified' = [m \in Fixture |-> identified[m] \cup {p \in mapped : facts'[m][p] # facts[m][p]}]
    /\ audited' \in {[m \in Fixture |-> IF facts'[m] # facts[m] /\ audited[m].status = "running"
                                        THEN [audited[m] EXCEPT !.wrote = TRUE] ELSE audited[m]],
                     audited}
    /\ UNCHANGED <<drawn, begun, mapped, report>>

Written ==
    /\ otherWrites < MaxReportWrites /\ OtherWrite
    /\ UNCHANGED <<phase, ended, facts, reviews, population, everReviewed, report>>

(* The same response again: a row is identified once its player is known.      *)
RowsRelinked ==
    /\ Written /\ Ahead("memberships")
    /\ \E m \in Fixture :
          identified' = [identified EXCEPT ![m] = @ \cup {p \in mapped : facts[m][p] # 0}]
    /\ identified' # identified
    /\ UNCHANGED <<drawn, begun, mapped, audited>>

(* The participants are published, or play starts without.                 *)
FixtureMoves ==
    /\ Written /\ Ahead("clock")
    /\ \E m \in Fixture :
         \/ m \notin drawn /\ drawn' = drawn \cup {m} /\ UNCHANGED begun
         \/ m \notin begun /\ begun' = begun \cup {m} /\ UNCHANGED drawn
    /\ UNCHANGED <<mapped, identified, audited>>

PlayerMapped ==
    /\ Written /\ Ahead("crosswalk")
    /\ \E p \in Squad \ mapped : mapped' = mapped \cup {p}
    /\ UNCHANGED <<drawn, begun, identified, audited>>

(* The audit of a collection of the match: a process that dies leaves the  *)
(* run running.                                                            *)
AuditMoves ==
    /\ Written /\ Ahead("audits")
    /\ \E m \in Fixture :
         \/ audited' = [audited EXCEPT ![m] = [status |-> "running", wrote |-> FALSE]]
         \/ /\ audited[m].status = "running"
            /\ \E how \in {"completed", "partial", "failed"} :
                  audited' = [audited EXCEPT ![m].status = how]
    /\ audited' # audited
    /\ UNCHANGED <<drawn, begun, mapped, identified>>

OtherWriters ==
    \/ /\ otherWrites < MaxReportWrites
       /\ \/ RowsStored
          \/ /\ \/ Ahead("candidates") /\ Conclude
                \/ Ahead("reviews") /\ (ReviewMatch \/ Revoke)
                \/ Ahead("memberships") /\ Join
             /\ UNCHANGED reportVars
    \/ RowsRelinked \/ FixtureMoves \/ PlayerMapped \/ AuditMoves

----------------------------------------------------------------------------
(* Rows, by their match and player.                                        *)
RowsIn(players) == UNION {{<<m, p>> : p \in players[m]} : m \in Fixture}

Unmapped == RowsIn([m \in Fixture |-> {p \in Squad \ mapped : facts[m][p] # 0}])

Answer(table) ==
    CASE table = "matches"     -> [ended |-> ended, drawn |-> drawn]
      [] table = "stats"       -> facts
      [] table = "reviews"     -> reviews
      [] table = "clock"       -> begun
      [] table = "candidates"  -> {m \in ended : Stats!Authoritative(facts[m]) = {}}
      [] table = "contexts"    -> {m \in Fixture : Stats!Authoritative(facts[m]) # {}}
      [] table = "identities"  -> population \ mapped
      [] table = "crosswalk"   -> [unlinked |-> RowsIn([m \in Fixture |->
                                        {p \in Squad \ identified[m] : facts[m][p] # 0}]),
                                   unknown  |-> Unmapped]
      [] table = "memberships" -> RowsIn([m \in Fixture |->
                                     {p \in Squad \ population :
                                        facts[m][p] = 2 /\ p \in identified[m]}])
      [] table = "audits"      -> audited
      [] OTHER                 -> TRUE

(* Mutant of Partial: one side is enough for a whole snapshot.             *)
Mixed(rows) == Stats!Authoritative(rows) # Stats!Stored(rows)

Partial(rows) ==
    \/ Stats!Authoritative(rows) # Stats!Stored(rows)
    \/ Stats!Authoritative(rows) \subseteq HomeSquad
    \/ Stats!Authoritative(rows) \cap HomeSquad = {}

(* What the statistics of a concluded match are worth.                     *)
CoverageFinding(m, seen) ==
    LET rows == seen["stats"][m]
        authoritative == Stats!Authoritative(rows)
    IN IF authoritative = {}
       THEN IF m \in seen["reviews"] THEN "match.stats_not_expected"
                                     ELSE "match.final_without_authoritative_stats"
       ELSE IF Partial(rows) THEN "match.partial_authoritative_stats"
       ELSE IF Cardinality(authoritative) < MinListed THEN "stats.suspicious_player_count"
       ELSE "covered"

FixtureFindings(m, seen) ==
    (IF m \in seen["matches"].drawn THEN {}
     ELSE IF m \in seen["matches"].ended \cup seen["clock"] THEN {"match.missing_team"}
     ELSE {"match.participants_unpublished"})
    \cup (IF m \in seen["matches"].ended THEN {CoverageFinding(m, seen)}
          ELSE IF Stats!Authoritative(seen["stats"][m]) # {}
               THEN {"stats.authority_lifecycle_conflict"} ELSE {})
    \cup (IF m \in seen["candidates"] \ seen["reviews"] THEN {"match.stats_absence_candidate"} ELSE {})
    \cup (IF m \in seen["contexts"] THEN {"stats.team_provider_unavailable"} ELSE {})

IdentityFindings(seen) ==
    {code \in {"player.missing_champion_data_provider_id"} : seen["identities"] # {}}
    \cup {code \in {"stats.unresolved_canonical_player"} : seen["crosswalk"].unlinked # {}}
    \cup {code \in {"stats.provider_player_unknown"} : seen["crosswalk"].unknown # {}}
    \cup {code \in {"stats.player_missing_season_membership"} : seen["memberships"] # {}}

AuditFinding(m, seen) ==
    LET run == seen["audits"][m]
    IN CASE run.status = "none" -> "audit.no_successful_stat_run"
         [] run.status \in {"failed", "partial", "running"} -> "audit.latest_run_failed_or_partial"
         [] run.status = "completed" /\ run.wrote /\ Stats!Stored(seen["stats"][m]) = {}
                -> "audit.success_without_rows"
         [] OTHER -> "audited"

Findings(seen) ==
    (UNION {FixtureFindings(m, seen) : m \in Fixture})
    \cup IdentityFindings(seen)
    \cup {AuditFinding(m, seen) : m \in seen["matches"].ended}

Severe == {"match.missing_team", "stats.authority_lifecycle_conflict"}

IncompleteCodes == {"match.final_without_authoritative_stats", "match.partial_authoritative_stats",
                    "stats.suspicious_player_count", "stats.player_missing_season_membership"}

Warnings == IncompleteCodes \cup
            {"player.missing_champion_data_provider_id", "stats.unresolved_canonical_player",
             "stats.provider_player_unknown", "audit.latest_run_failed_or_partial",
             "audit.success_without_rows"}

CalculateStatus(findings) ==
    IF findings \cap Severe # {} THEN "invalid"
    ELSE IF findings \cap IncompleteCodes # {} THEN "incomplete"
    ELSE IF findings \cap Warnings # {} THEN "usable_with_warnings"
    ELSE "complete"

(* What the command line ends with exit code 0 for.                        *)
ExitsWithZero == {"complete", "usable_with_warnings"}

(* The next SELECT, and after the last one the verdict.  A season that is  *)
(* not stored is incomplete and nothing more is read of it.                *)
Seeing(table) ==
    [t \in DOMAIN report.seen \cup {table} |->
        IF t = table THEN Answer(table) ELSE report.seen[t]]

ReportSelect ==
    /\ report.status = "none"
    /\ LET table == Selects[report.done + 1]
           seen  == Seeing(table)
       IN \/ report' = [done   |-> report.done + 1,
                        seen   |-> seen,
                        status |-> IF table = "audits" THEN CalculateStatus(Findings(seen)) ELSE "none"]
          \/ table = "season" /\ report' = [NoReport EXCEPT !.status = "incomplete"]
    /\ UNCHANGED <<drawn, begun, mapped, identified, audited, summaryVars>>

ReportNext == OtherWriters \/ ReportSelect

ReportSpec == SummaryInit /\ ReportInit /\ [][ReportNext]_<<summaryVars, reportVars>>

----------------------------------------------------------------------------
(* A report that ends with exit code 0 is right about the facts, however   *)
(* its SELECTs fell between the other transactions: each match it took for *)
(* concluded has an authoritative snapshot of both sides of the least      *)
(* size, or was reviewed as one without statistics, and the players of the *)
(* snapshot it could name are members of the season.                       *)
UsableIsCovered ==
    report.status \in ExitsWithZero
    => \A m \in report.seen["matches"].ended :
         LET snapshot == Stats!Authoritative(facts[m])
         IN \/ m \in everReviewed
            \/ /\ snapshot \cap HomeSquad # {} /\ snapshot \ HomeSquad # {}
               /\ Cardinality(snapshot) >= MinListed
               /\ \A p \in snapshot \cap identified[m] :
                     report.seen["stats"][m][p] = 2 => p \in population
=============================================================================
