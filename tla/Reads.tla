--------------------------------- MODULE Reads ---------------------------------
(***************************************************************************)
(* The read resources of the API (api/routes_v1.py) beside the writers.    *)
(* A handler opens a connection and reads outside a transaction: each of   *)
(* its SELECTs sees what was committed last by then, so a response may be  *)
(* pieced together from several states of the database.                    *)
(*                                                                         *)
(* Each resource is the sequence of what it selects; a table stands for    *)
(* the canonical players its rows link to, or for whether the season, with *)
(* its rounds, matches and teams, is stored at all.                        *)
(***************************************************************************)
EXTENDS AuthoritativeStats, Sequences

CONSTANT Canonical  \* canonical players

VARIABLES tables,  \* what is committed
          query    \* a request: [of, subject, sides, status, done, seen]

readVars == <<tables, query>>

(* The resources, each with its SELECTs in order.                          *)
SeasonList        == <<"seasons">>
SeasonRounds      == <<"seasons", "rounds", "teams">>
OneRound          == <<"rounds", "teams">>
RoundMatches      == <<"rounds", "matches">>
OneMatch          == <<"matches">>

(* Mutant of MatchPlayerStats: the rows are read before their finality.    *)
RowsFirst         == <<"matches", "stats", "finality">>

MatchPlayerStats  == <<"matches", "finality", "stats">>

MatchCommentary   == <<"matches", "commentary", "names", "teams">>
Interchanges      == <<"matches", "benches", "names">>
InterchangeEvents == <<"matches", "bench events", "names">>
MatchRosters      == <<"matches", "roster teams", "selections", "context", "names", "teams">>
InjuryList        == <<"injuries", "names", "teams">>
OnePlayer         == <<"players", "identifiers", "current team">>
SearchPlayers     == <<"names", "current team", "identifiers">>
PlayerSeasons     == <<"players", "memberships">>
SeasonPlayers     == <<"seasons", "memberships">>
SeasonSummaries   == <<"seasons", "summaries">>
OneSummary        == <<"summaries">>
Movements         == <<"players", "movements">>

Resources == {SeasonList, SeasonRounds, OneRound, RoundMatches, OneMatch, MatchPlayerStats,
              MatchCommentary, Interchanges, InterchangeEvents, MatchRosters, InjuryList,
              OnePlayer, SearchPlayers, PlayerSeasons, SeasonPlayers, SeasonSummaries,
              OneSummary, Movements}

(* With advanced=true they ask for a capability of the API key first.      *)
WithAdvanced == {MatchPlayerStats, SeasonSummaries, OneSummary}

(* What answers 404 when the subject of the request is not there; the      *)
(* summary of one player is its own subject.                               *)
Hierarchy == {"seasons", "rounds", "matches", "teams"}

Links == {"commentary", "benches", "bench events", "roster teams", "selections", "context",
          "injuries", "memberships", "summaries", "movements"}

NoQuery == [of |-> <<>>, subject |-> "nobody", sides |-> {}, status |-> "none", done |-> 0,
            seen |-> <<>>]

ReadsInit ==
    /\ tables = [stored |-> FALSE, current |-> FALSE, rows |-> NoRows, players |-> {},
              links |-> [t \in Links |-> {}]]
    /\ query = NoQuery

----------------------------------------------------------------------------
(* The writers, one transaction each.  What this request does not read is  *)
(* left alone.                                                             *)
Concerns(table) == \E i \in DOMAIN query.of : query.of[i] = table

Write(change) == tables' = change /\ tables' # tables /\ UNCHANGED query

(* persist_afl_metadata: the season and all that hangs from it.            *)
StoreSeason ==
    /\ \E marked \in BOOLEAN : Write([tables EXCEPT !.stored = TRUE, !.current = marked])

(* persist_player_seasons: players, identifiers and memberships; a player  *)
(* or a membership is never deleted.                                       *)
StorePlayer ==
    /\ tables.stored
    /\ \E p \in Canonical \ tables.links["memberships"] :
          Write([tables EXCEPT !.players = @ \cup {p}, !.links["memberships"] = @ \cup {p}])

(* upsert_player_stats, for whichever writer.                              *)
StoreStats ==
    /\ tables.stored /\ Concerns("stats")
    /\ \E kind \in {"concluded", "live_partial"}, listed \in SUBSET Player :
          Write([tables EXCEPT !.rows = Upserted(@, [kind |-> kind, players |-> listed])])

(* Commentary, interchange and movements are added to; identifiers that    *)
(* have a player by now are linked.                                        *)
AddLinked ==
    /\ tables.stored
    /\ \E t \in {"commentary", "benches", "bench events", "movements"}, p \in tables.players :
          Concerns(t) /\ Write([tables EXCEPT !.links[t] = @ \cup {p}])

(* Rosters, injuries and summaries are replaced.                           *)
ReplaceLinked ==
    /\ tables.stored
    /\ \/ /\ Concerns("selections")
          /\ \E chosen, context \in SUBSET tables.players :
                Write([tables EXCEPT !.links["roster teams"] = {}, !.links["selections"] = chosen,
                                 !.links["context"] = context])
       \/ \E t \in {"injuries", "summaries"}, linked \in SUBSET tables.players :
             Concerns(t) /\ Write([tables EXCEPT !.links[t] = linked])

----------------------------------------------------------------------------
(* authenticate_api_key and the handler's own check of the capability.     *)
Ask ==
    /\ query.status = "none"
    /\ \E of \in Resources, subject \in Canonical, sides \in {{"home", "away"}, {"home"}},
          advanced, known, capable \in BOOLEAN :
         /\ advanced => of \in WithAdvanced
         /\ sides # {"home", "away"} => of = MatchPlayerStats
         /\ query' = [of |-> of, subject |-> subject, sides |-> sides, done |-> 0,
                      seen |-> <<>>,
                      status |-> IF ~known THEN "unauthorized"
                                 ELSE IF advanced /\ ~capable THEN "forbidden" ELSE "reading"]
    /\ UNCHANGED tables

Content(table) ==
    CASE table \in Hierarchy -> tables.stored
      [] table \in {"stats", "finality"} -> tables.rows
      [] table \in {"players", "identifiers", "names"} -> tables.players
      [] table = "current team" -> IF tables.current THEN tables.links["memberships"] ELSE {}
      [] OTHER -> tables.links[table]

NotThere(table) ==
    \/ table \in Hierarchy /\ ~tables.stored
    \/ table = "players" /\ query.subject \notin tables.players
    \/ query.of = OneSummary /\ query.subject \notin tables.links["summaries"]

SeenWith(table) ==
    [t \in DOMAIN query.seen \cup {table} |->
        IF t = table THEN Content(table) ELSE query.seen[t]]

Select ==
    /\ query.status = "reading"
    /\ LET at == query.done + 1
           table == query.of[at]
       IN IF at = 1 /\ NotThere(table) THEN query' = [query EXCEPT !.status = "not found"]
          ELSE query' = [query EXCEPT
                 !.done = at, !.seen = SeenWith(table),
                 !.status = IF at = Len(query.of) THEN "answered" ELSE "reading"]
    /\ UNCHANGED tables

ReadsNext ==
    \/ StoreSeason \/ StorePlayer \/ StoreStats \/ AddLinked \/ ReplaceLinked
    \/ Ask \/ Select

ReadsSpec == ReadsInit /\ [][ReadsNext]_readVars

----------------------------------------------------------------------------
(* _finality_status, and the rows a request lists.                         *)
FinalityStatus(rows) ==
    IF Authoritative(rows) = {} THEN "not_available"
    ELSE IF \/ Authoritative(rows) # Stored(rows)
            \/ Authoritative(rows) \subseteq Home
            \/ Authoritative(rows) \cap Home = {} THEN "partial"
    ELSE "final"

Listed ==
    {p \in Stored(query.seen["stats"]) :
        (IF p \in Home THEN "home" ELSE "away") \in query.sides}

(* A response holds together, although its SELECTs fall between other      *)
(* transactions.  Statistics said to be final are listed with an           *)
(* authoritative row on every side asked for; and a response that names    *)
(* players by their canonical id has found the name of each.               *)
AnswersHoldTogether ==
    query.status = "answered" =>
      /\ query.of = MatchPlayerStats /\ FinalityStatus(query.seen["finality"]) = "final"
         => \A side \in query.sides :
               \E p \in Listed \cap Authoritative(query.seen["stats"]) : (p \in Home) = (side = "home")
      /\ "names" \in DOMAIN query.seen
         => \A t \in DOMAIN query.seen \cap Links : query.seen[t] \subseteq query.seen["names"]
=============================================================================
