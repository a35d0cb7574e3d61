----------------------------- MODULE FencedLease -----------------------------
(* What the lease columns of one match_stat_windows row promise.  A lease is   *)
(* issued again and again, each time under the next generation; whoever holds  *)
(* it may lose it once it lapsed, may go on working without knowing, and can   *)
(* only commit while it still holds it.  No processes, no rows, no clock.      *)
EXTENDS Integers

VARIABLES issued,    \* the last generation issued
          holder,    \* the generation that holds the lease, 0 when nobody does
          fresh,     \* the lease has not lapsed
          working,   \* generations whose attempt still runs
          committed  \* generations whose attempt stored its result

lease == <<issued, holder, fresh, working, committed>>

Init ==
  /\ issued = 0 /\ holder = 0 /\ fresh = FALSE
  /\ working = {} /\ committed = {}

\* Nobody holds a fresh lease: the next generation gets it.
Grant ==
  /\ ~fresh
  /\ issued' = issued + 1 /\ holder' = issued + 1 /\ fresh' = TRUE
  /\ working' = working \cup {issued + 1}
  /\ UNCHANGED committed

Lapse ==
  /\ fresh /\ fresh' = FALSE
  /\ UNCHANGED <<issued, holder, working, committed>>

\* A lapsed lease may be taken away without being issued again.
Revoke ==
  /\ ~fresh /\ holder' = 0
  /\ UNCHANGED <<issued, fresh, working, committed>>

\* The holder stores its result, or not, and gives the lease back.
GiveBack(g) ==
  /\ g \in working /\ g = holder
  /\ holder' = 0 /\ fresh' = FALSE /\ working' = working \ {g}
  /\ committed' \in {committed, committed \cup {g}}
  /\ UNCHANGED issued

\* Attempts end without the lease: lost, failed to record, crashed.
Quit(gone) ==
  /\ working' = working \ gone
  /\ UNCHANGED <<issued, holder, fresh, committed>>

Next ==
  \/ Grant \/ Lapse \/ Revoke
  \/ \E g \in working : GiveBack(g)
  \/ \E gone \in SUBSET working : Quit(gone)

Spec == Init /\ [][Next]_lease

\* Results are stored in the order the lease was issued, each at most once: a
\* slow attempt never overwrites what a later one stored.
CommitsInClaimOrder ==
  [][\A g \in committed' \ committed : \A h \in committed : h < g]_lease
=============================================================================
