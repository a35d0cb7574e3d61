------------------------- MODULE AuthoritativeStats -------------------------
(* The rows of cfs_player_stats for one match, reduced to what finality looks *)
(* at: which players have a row, and at which snapshot authority.  Translated *)
(* from afl_json/player_stats.py (how a response is classified and upserted)  *)
(* and afl_json/season_report.py (when the stored rows are final).            *)
EXTENDS MatchLifecycle, FiniteSets

CONSTANTS Player,   \* players a response may name
          Home,     \* those on the home side; the others are away
          MinRows   \* MIN_CONCLUDED_AUTHORITATIVE_PLAYER_ROWS

ASSUME PlayerAssumption ==
  IsFiniteSet(Player) /\ Home \subseteq Player /\ MinRows \in Nat

NoRow     == 0      \* no row stored for the player
Authority == 0 .. 2 \* 1: live or unclassified, 2: concluded snapshot
Rows      == [Player -> Authority]
NoRows    == [p \in Player |-> NoRow]

ResultKind == {"concluded", "live_partial", "unknown", "empty", "unavailable"}
Results    == [kind : ResultKind, players : SUBSET Player]
NoResult   == [kind |-> "empty", players |-> {}]

\* A response: the status the endpoint states (None when it is silent), the
\* players it lists, and whether its structure was incomplete or rows rejected.
Responses(endpoints, lists) ==
  [endpoint : endpoints, players : lists, damaged : BOOLEAN]

\* _result_status: an explicit endpoint status wins; the canonical lifecycle
\* only speaks for a silent endpoint.
ResultKindOf(response, canonical) ==
  LET said == Normalise(IF response.endpoint = None THEN canonical ELSE response.endpoint)
  IN  IF response.endpoint = "UNAVAILABLE" THEN "unavailable"
      ELSE IF response.damaged             THEN "live_partial"
      ELSE IF response.players = {}        THEN "empty"
      ELSE IF said = "CONCLUDED"           THEN "concluded"
      ELSE IF said \in Lifecycle           THEN "live_partial"
      ELSE "unknown"

Collected(response, canonical) ==
  [kind |-> ResultKindOf(response, canonical), players |-> response.players]

\* Mutant: the lifecycle's rank is stored for the snapshot's authority.
AuthorityByRank(kind) == Rank[IF kind = "concluded" THEN "CONCLUDED" ELSE "LIVE"]

AuthorityOf(kind) == IF kind = "concluded" THEN 2 ELSE 1

\* Mutant: the upsert has no authority guard.
UpsertedAlways(rows, result) ==
  [p \in Player |-> IF p \in result.players THEN AuthorityOf(result.kind) ELSE rows[p]]

\* upsert_player_stats: per player, never over a row of higher authority.
Upserted(rows, result) ==
  IF result.kind \in {"unavailable", "empty"} THEN rows
  ELSE [p \in Player |-> IF p \in result.players /\ AuthorityOf(result.kind) >= rows[p]
                         THEN AuthorityOf(result.kind) ELSE rows[p]]

\* evaluate_authoritative_stats_finality over the match's rows.
Stored(rows)        == {p \in Player : rows[p] # NoRow}
Authoritative(rows) == {p \in Player : rows[p] = 2}

Satisfactory(rows) ==
  /\ Authoritative(rows) # {}
  /\ Authoritative(rows) = Stored(rows)
  /\ Authoritative(rows) \cap Home # {} /\ Authoritative(rows) \ Home # {}
  /\ Cardinality(Authoritative(rows)) >= MinRows

FinalityState == {"unconfirmed", "partial", "authoritative_complete"}

Finality(rows) ==
  IF Satisfactory(rows) THEN "authoritative_complete"
  ELSE IF Stored(rows) # {} THEN "partial" ELSE "unconfirmed"
=============================================================================
