----------------------------- MODULE MatchRosters -----------------------------
(***************************************************************************)
(* Persistence of the matchRosters endpoint (afl_json/rosters.py).  One    *)
(* answer covers every match of a round.  For each match it gives the      *)
(* selected players with their positions and the players coming in (ins;   *)
(* the other four context collections are replaced in the same way), and   *)
(* which of these collections were really lists.  A collection that was a  *)
(* list replaces what is stored, in one transaction for the whole round.   *)
(***************************************************************************)
EXTENDS Naturals, FiniteSetsExt

CONSTANTS RoundMatches, Squad, Positions

Collections == {"positions", "ins"}
NotListed == "not listed"

(* What a match publishes: each player's place in either collection.       *)
Places(c) == (IF c = "positions" THEN Positions ELSE {"in"}) \cup {NotListed}
Sheets == [positions: [Squad -> Places("positions")], ins: [Squad -> Places("ins")]]

(* RosterStatus of a parsed answer.  One match marked unpublished makes    *)
(* the whole round unavailable.  A record without a player id is skipped,  *)
(* and its list still counts as one.                                       *)
RosterAnswer(kind, sheets, listed) == [kind |-> kind, sheets |-> sheets, listed |-> listed]
RosterAnswers(sheets) ==
    { RosterAnswer("published", sheets, l) : l \in [RoundMatches -> SUBSET Collections] }
        \cup { RosterAnswer("published", [sheets EXCEPT ![m][c][p] = NotListed],
                            [n \in RoundMatches |-> Collections]) :
                  m \in RoundMatches, c \in Collections, p \in Squad }
        \cup { RosterAnswer(k, sheets, [m \in RoundMatches |-> {}]) :
                 k \in {"unavailable", "empty", "failed"} }

(* A stored row: the player's place and whether it is linked to a          *)
(* canonical player; NoRow: no row.                                        *)
NoRosterRow == [place |-> NotListed, linked |-> FALSE]

Replacement(place, links) ==
    [p \in Squad |-> IF place[p] = NotListed THEN NoRosterRow
                     ELSE [place |-> place[p], linked |-> p \in links]]

(* Mutant of Rewrites: takes an absent list for an empty one.              *)
RewritesPublished(answer, known) ==
    {mc \in known \X Collections : answer.kind = "published"}

(* The matches of the round an answer rewrites, collection by collection.  *)
Rewrites(answer, known) ==
    {mc \in known \X Collections :
        answer.kind = "published" /\ mc[2] \in answer.listed[mc[1]]}

RosterAfter(rows, answer, known, links) ==
    [m \in RoundMatches |-> [c \in Collections |->
        IF <<m, c>> \in Rewrites(answer, known)
        THEN Replacement(IF c \in answer.listed[m] THEN answer.sheets[m][c]
                         ELSE [p \in Squad |-> NotListed], links)
        ELSE rows[m][c]]]

(* change_magnitude, counted against the rows before they are replaced.    *)
ChangedPlayers(old, new) == Cardinality({p \in Squad : old[p] # new[p]})

ChangeMagnitude(rows, answer, known, links) ==
    LET changes(mc) == ChangedPlayers(rows[mc[1]][mc[2]],
                                      Replacement(answer.sheets[mc[1]][mc[2]], links))
    IN MapThenSumSet(changes, Rewrites(answer, known))

=============================================================================
