------------------------------ MODULE MCLiveFeeds ------------------------------
(* LiveFeeds with a player on each side, a slot of a player and a slot of  *)
(* nobody, and two matches of a round.                                     *)
EXTENDS LiveFeeds

CONSTANTS p1, p2

MCSideOf == (p1 :> "home") @@ (p2 :> "away")
=============================================================================
