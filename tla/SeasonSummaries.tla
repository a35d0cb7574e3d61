---------------------------- MODULE SeasonSummaries ----------------------------
(***************************************************************************)
(* The Home & Away summary of a season, built from the stored statistics   *)
(* (afl_json/home_away_summaries.py) while the other writers go on.  The   *)
(* builder reads outside a transaction, one SELECT at a time, and replaces *)
(* the stored summary in one transaction at the end.                       *)
(***************************************************************************)
EXTENDS Naturals, FiniteSets

CONSTANTS Fixture,         \* the matches of the season, numbers: the order of match_id
          Squad,           \* the players a match's statistics may list
          HomeSquad,       \* those on the home side
          Latecomers,      \* those who are not in the season's population at first
          MinListed,       \* MIN_CONCLUDED_AUTHORITATIVE_PLAYER_ROWS
          MaxOtherWrites   \* bound: transactions of the other writers

ASSUME FixtureAssumption == Fixture \subseteq Nat /\ IsFiniteSet(Fixture)

Stats == INSTANCE AuthoritativeStats WITH Player <- Squad, Home <- HomeSquad, MinRows <- MinListed

VARIABLES phase,       \* competition_phase of each match's round, "unknown" before it is classified
          ended,       \* the matches whose stored status is CONCLUDED
          facts,       \* rows of cfs_player_stats, by match
          reviews,     \* matches with an active stats_not_expected review
          population,  \* competition_season_players with a canonical identity
          builder,     \* [pc, selected, left, included, members]
          summary,     \* the stored summary: [games, selected] or NoSummary
          everReviewed,\* history: matches reviewed at some time
          otherWrites

summaryVars == <<phase, ended, facts, reviews, population, builder, summary, everReviewed, otherWrites>>

seasonTables == <<phase, ended, facts, reviews, population, everReviewed, otherWrites>>

NoSummary == [games |-> [p \in {} |-> {}], selected |-> {}]
AtRest == [pc |-> "rest", selected |-> {}, concluded |-> {}, left |-> {}, included |-> {},
           members |-> {}]

(* A season near its end: one match is to be concluded.                    *)
SummaryInit ==
    /\ phase = [m \in Fixture |-> "HOME_AND_AWAY"]
    /\ ended = {m \in Fixture : \E n \in Fixture : m < n}
    /\ reviews = {} /\ everReviewed = {}
    /\ facts = [m \in Fixture |-> Stats!NoRows]
    /\ population = Squad \ Latecomers
    /\ builder = AtRest /\ summary = NoSummary /\ otherWrites = 0

----------------------------------------------------------------------------
(* The other writers.                                                      *)
OtherWrite == otherWrites < MaxOtherWrites /\ otherWrites' = otherWrites + 1
              /\ UNCHANGED <<builder, summary>>

(* A metadata refresh: a round without matches loses its phase, and finals *)
(* are known by the label of their matches.                                *)
Reclassify ==
    /\ OtherWrite
    /\ \E m \in Fixture, p \in {"unknown", "FINALS", "HOME_AND_AWAY"} :
          phase[m] # p /\ phase' = [phase EXCEPT ![m] = p]
    /\ UNCHANGED <<ended, facts, reviews, population, everReviewed>>

Conclude ==
    /\ OtherWrite
    /\ \E m \in Fixture \ ended : ended' = ended \cup {m}
    /\ UNCHANGED <<phase, facts, reviews, population, everReviewed>>

StoreFacts ==
    /\ OtherWrite
    /\ \E m \in Fixture, kind \in {"concluded", "live_partial"}, listed \in SUBSET Squad :
          facts' = [facts EXCEPT ![m] = Stats!Upserted(@, [kind |-> kind, players |-> listed])]
    /\ facts' # facts
    /\ UNCHANGED <<phase, ended, reviews, population, everReviewed>>

(* review_stats_not_expected and revoke_stats_not_expected.                *)
ReviewMatch ==
    /\ OtherWrite
    /\ \E m \in Fixture \ reviews :
          reviews' = reviews \cup {m} /\ everReviewed' = everReviewed \cup {m}
    /\ UNCHANGED <<phase, ended, facts, population>>

Revoke ==
    /\ OtherWrite
    /\ \E m \in reviews : reviews' = reviews \ {m}
    /\ UNCHANGED <<phase, ended, facts, population, everReviewed>>

Join ==
    /\ OtherWrite
    /\ \E p \in Squad \ population : population' = population \cup {p}
    /\ UNCHANGED <<phase, ended, facts, reviews, everReviewed>>

----------------------------------------------------------------------------
(* The builder.  SummaryNotReady ends it; it may be run again.             *)
NotReady == builder' = AtRest

(* Two SELECTs: whether a round is unclassified, and the matches.          *)
LookAtRounds ==
    /\ builder.pc = "rest"
    /\ \A m \in Fixture : phase[m] # "unknown"
    /\ builder' = [AtRest EXCEPT !.pc = "select"]
    /\ UNCHANGED <<seasonTables, summary>>

SelectMatches ==
    /\ builder.pc = "select"
    /\ LET chosen == {m \in Fixture : phase[m] = "HOME_AND_AWAY"}
       IN builder' = [builder EXCEPT !.pc = "finality", !.selected = chosen, !.left = chosen,
                                     !.concluded = chosen \cap ended]
    /\ UNCHANGED <<seasonTables, summary>>

NextMatch == CHOOSE m \in builder.left : \A n \in builder.left : m <= n

(* The match's finality; without it, the review is looked up next.         *)
LookAtFinality ==
    /\ builder.pc = "finality" /\ builder.left # {}
    /\ IF NextMatch \notin builder.concluded THEN NotReady
       ELSE IF Stats!Satisfactory(facts[NextMatch])
       THEN builder' = [builder EXCEPT !.included = @ \cup {NextMatch}, !.left = @ \ {NextMatch}]
       ELSE builder' = [builder EXCEPT !.pc = "review"]
    /\ UNCHANGED <<seasonTables, summary>>

LookAtReview ==
    /\ builder.pc = "review"
    /\ IF NextMatch \in reviews
       THEN builder' = [builder EXCEPT !.pc = "finality", !.left = @ \ {NextMatch}]
       ELSE NotReady
    /\ UNCHANGED <<seasonTables, summary>>

ReadPopulation ==
    /\ builder.pc = "finality" /\ builder.left = {}
    /\ builder' = [builder EXCEPT !.pc = "facts", !.members = population]
    /\ UNCHANGED <<seasonTables, summary>>

(* Mutant of Counts: the matches are final, so every row of theirs counts. *)
CountsEveryRow(m, p) == facts[m][p] # Stats!NoRow

Counts(m, p) == facts[m][p] = 2

(* The facts of the included matches; each must belong to the population.  *)
ReadFacts ==
    /\ builder.pc = "facts"
    /\ IF \E m \in builder.included, p \in Squad \ builder.members : Counts(m, p)
       THEN NotReady
       ELSE builder' = [builder EXCEPT !.pc = "replace",
              !.members = [p \in builder.members |-> {m \in builder.included : Counts(m, p)}]]
    /\ UNCHANGED <<seasonTables, summary>>

Replace ==
    /\ builder.pc = "replace"
    /\ summary' = [games |-> builder.members, selected |-> builder.selected]
    /\ builder' = AtRest
    /\ UNCHANGED seasonTables

SummaryNext ==
    \/ Reclassify \/ Conclude \/ StoreFacts \/ ReviewMatch \/ Revoke \/ Join
    \/ LookAtRounds \/ SelectMatches \/ LookAtFinality \/ LookAtReview
    \/ ReadPopulation \/ ReadFacts \/ Replace

SummarySpec == SummaryInit /\ [][SummaryNext]_summaryVars

----------------------------------------------------------------------------
(* A stored summary stands on authoritative facts, whatever was stored     *)
(* while it was built and afterwards: each game it counts has an           *)
(* authoritative row, and each match it was built from is counted on both  *)
(* sides, or was reviewed as one without statistics.                       *)
SummaryBacked ==
    LET players == DOMAIN summary.games
    IN /\ \A p \in players : \A m \in summary.games[p] : facts[m][p] = 2
       /\ \A m \in summary.selected :
             \/ m \in everReviewed
             \/ /\ \E p \in players \cap HomeSquad : m \in summary.games[p]
                /\ \E p \in players \ HomeSquad : m \in summary.games[p]
=============================================================================
