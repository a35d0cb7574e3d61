---------------------------- MODULE MCStatPolling ----------------------------
(* Small instances of StatPolling for TLC. *)
EXTENDS StatPollingFence, TLC

CONSTANTS h1, h2, a1

MCHome == {h1, h2} \cap Player

Whole(endpoint) == [endpoint |-> endpoint, players |-> Player, damaged |-> FALSE]
Part(endpoint)  == [endpoint |-> endpoint, players |-> {h1}, damaged |-> FALSE]

\* A final snapshot or an empty response; a final snapshot or a live one of one side.
FinalOrNothing == {Whole("CONCLUDED"), [Part(None) EXCEPT !.players = {}]}
FewAnswers == {Whole("CONCLUDED"), Part("LIVE")}

\* A final snapshot that misses a player, and a live one that names all of them.
LateNameAnswers == {[Whole("CONCLUDED") EXCEPT !.players = {h1, a1}], Whole("LIVE"), Part(None)}

ProcSymmetry == Permutations(Proc)
=============================================================================
