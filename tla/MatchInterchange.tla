--------------------------- MODULE MatchInterchange ---------------------------
(***************************************************************************)
(* Persistence of the matchInterchange endpoint                            *)
(* (afl_json/match_interchange.py).  An answer lists, for each side whose  *)
(* array was readable, the players on the bench with their interchange     *)
(* count; it is compared with the durable current-state rows, which are    *)
(* updated, and every meaningful transition is appended to the history.    *)
(* benchReason is kept exactly as the count is and is left out.            *)
(***************************************************************************)
EXTENDS Naturals, Sequences, FiniteSets

CONSTANTS Players, SideOf          \* SideOf[p]: the side player p belongs to

Sides == {"home", "away"}

ASSUME SideAssumption == SideOf \in [Players -> Sides]

(* A match_interchange_state row of a player who was never listed.         *)
NoState == [onBench |-> FALSE, count |-> 0]

(* A parsed answer: the identified players with their counts, the sides    *)
(* whose array was a list and, among them, those without an anonymous      *)
(* entry.                                                                  *)
Listing(listed, known, complete) ==
    [listed |-> listed, known |-> known, complete |-> complete]

(* The garbled and truncated forms in which the true bench may arrive.     *)
Arrivals(bench) ==
    { Listing([p \in {q \in DOMAIN bench : SideOf[q] \in known} \ lost |-> bench[p]],
              known, {s \in known : \A p \in lost : SideOf[p] # s}) :
        known \in SUBSET Sides, lost \in {l \in SUBSET DOMAIN bench : Cardinality(l) <= 1} }

(* Mutant of Departed: forgets the anonymous entries.                      *)
DepartedFromReadSides(state, answer) ==
    {p \in Players : /\ state[p].onBench
                     /\ p \notin DOMAIN answer.listed
                     /\ SideOf[p] \in answer.known}

(* Who is told to have left: on the bench so far, not listed now, on a     *)
(* side that was read and wholly identified.                               *)
Departed(state, answer) ==
    {p \in Players : /\ state[p].onBench
                     /\ p \notin DOMAIN answer.listed
                     /\ SideOf[p] \in answer.complete}

(* The transition an answer records for one player, as a sequence of at    *)
(* most one event.                                                         *)
Transition(state, answer, p) ==
    IF p \in DOMAIN answer.listed
    THEN IF ~ state[p].onBench THEN <<"appeared">>
         ELSE IF state[p].count # answer.listed[p] THEN <<"count_changed">> ELSE <<>>
    ELSE IF p \in Departed(state, answer) THEN <<"disappeared">> ELSE <<>>

(* Mutant of StateAfter: forgets to clear on_bench when a player leaves.   *)
StateAfterListed(state, answer) ==
    [p \in Players |->
        IF p \in DOMAIN answer.listed
        THEN [onBench |-> TRUE, count |-> answer.listed[p]]
        ELSE state[p]]

(* The current-state rows, which only ever gain players.                   *)
StateAfter(state, answer) ==
    [p \in Players |->
        IF p \in DOMAIN answer.listed
        THEN [onBench |-> TRUE, count |-> answer.listed[p]]
        ELSE [onBench |-> state[p].onBench /\ p \notin Departed(state, answer),
              count   |-> state[p].count]]

(* One poll that was answered: rows, history and poll log together.        *)
PersistInterchange(db, answer, status) ==
    [state   |-> StateAfter(db.state, answer),
     history |-> [p \in Players |-> db.history[p] \o Transition(db.state, answer, p)],
     polls   |-> Append(db.polls, status)]

(* One poll that was not, whatever the reason.                             *)
Unanswered(db, status) ==
    [state |-> db.state, history |-> db.history, polls |-> Append(db.polls, status)]

=============================================================================
