------------------------------ MODULE MCServices ------------------------------
(* Services with an API process of an older release than the scheduler's,  *)
(* and responses of the statistics endpoint.                               *)
EXTENDS Services

CONSTANTS api, scheduler, b1, b2

MCNewest == (api :> 3) @@ (scheduler :> 4)
MCBenchSide == (b1 :> "home") @@ (b2 :> "home")
MCAnswers == Responses({"CONCLUDED", "LIVE", "none"}, SUBSET Player)
MCOffers == {[flag |-> "silent", dates |-> "rounds"], [flag |-> "yes", dates |-> "none"],
             [flag |-> "no", dates |-> "season"]}
MCListedIn == <<{1, 2}, {2, 3}>>
=============================================================================
