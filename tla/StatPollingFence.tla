--------------------------- MODULE StatPollingFence ---------------------------
(* The polling protocol keeps the promise of FencedLease, window by window.    *)
EXTENDS StatPolling

Fence(m) == INSTANCE FencedLease WITH
  issued    <- window[m].gen,
  holder    <- window[m].token,
  fresh     <- LeaseValid(window[m]),
  working   <- {g \in Gens : task[<<m, g>>].pc # "none"},
  committed <- {g \in Gens : attempt[<<m, g>>].committed}

\* Every step of planner, poller, recovery and the other writers is, for each
\* window, a step of its fenced lease or leaves it alone.
ImplementsFencedLease ==
  /\ \A m \in Match : Fence(m)!Init
  /\ [][\A m \in Match : [Fence(m)!Next]_(Fence(m)!lease)]_vars
=============================================================================
