---------------------------- MODULE MatchWindows ----------------------------
(* scheduler/match_windows.py: the planner's decision for one match, and the  *)
(* row of match_stat_windows every actor of the polling protocol updates.     *)
(* Instants are kept as distances from now: next_due_at and lease_expires_at  *)
(* count down, lifecycle_observed_at counts up and saturates past Horizon.    *)
EXTENDS AuthoritativeStats

CONSTANTS Horizon,    \* post_match_horizon, in ticks
          MaxDelay,   \* the longest cadence or backoff, in ticks
          LeaseTicks  \* lease_duration, in ticks

ASSUME WindowAssumption ==
  Horizon \in Nat /\ MaxDelay \in Nat \ {0} /\ LeaseTicks \in Nat \ {0}

WindowStatus ==
  {"planned", "due", "leased", "backoff", "awaiting_final", "planning_error", "disabled",
   "complete", "failed_terminal", "cancelled", "not_applicable"}
Terminal  == {"complete", "failed_terminal", "cancelled", "not_applicable"}
Claimable == {"due", "awaiting_final", "backoff", "leased"}

Unset   == -1   \* a NULL next_due_at
NoToken == 0    \* a NULL lease_token; a token is named by its generation
NoOwner == "nobody"

\* A match_stat_windows row; the status "absent" stands for no row at all.
WindowRow(owners) ==
  [status    : WindowStatus \cup {"absent"},
   lifecycle : RawStatus \cup {None},
   seen      : 0 .. Horizon + 1,
   due       : Unset .. MaxDelay,
   finality  : FinalityState,
   gen       : Nat,
   token     : Nat,
   owner     : owners \cup {NoOwner},
   lease     : 0 .. LeaseTicks]

NoWindow == [status |-> "absent", lifecycle |-> None, seen |-> 0, due |-> Unset,
             finality |-> "unconfirmed", gen |-> 0, token |-> NoToken,
             owner |-> NoOwner, lease |-> 0]

-----------------------------------------------------------------------------
(* The planner. "fact" is what it reads of a match: its raw status, whether    *)
(* the pre-match window has opened, and the configuration that applies to it.  *)

MatchFact == [raw : RawStatus, opened : BOOLEAN, enabled : BOOLEAN,
              supported : BOOLEAN, identified : BOOLEAN]

\* What reconcile stores as the window's lifecycle.
LifecycleOf(raw) == IF Normalise(raw) = None THEN raw ELSE Normalise(raw)

\* evaluate(): the status and next_due_at the planner wants, whatever the window
\* says now.  The start of a planned window is not kept: no claim reads it.
Decision(status, due) == [status |-> status, due |-> due]

\* Mutant: the end of the match stands for final statistics.
EvaluateByStatus(status, opened, seen, finality) ==
  IF status = "CONCLUDED" THEN Decision("complete", Unset)
  ELSE IF ~opened THEN Decision("planned", Unset)
  ELSE IF status \in {"SCHEDULED", "LIVE"} THEN Decision("due", 0)
  ELSE Decision("awaiting_final", 0)

EvaluateLifecycle(status, opened, seen, finality) ==
  IF status = "CONCLUDED" /\ finality = "authoritative_complete" THEN Decision("complete", Unset)
  ELSE IF status = "CONCLUDED" /\ seen > Horizon THEN Decision("failed_terminal", Unset)
  ELSE IF ~opened THEN Decision("planned", Unset)
  ELSE IF status \in {"SCHEDULED", "LIVE"} THEN Decision("due", 0)
  ELSE Decision("awaiting_final", 0)

Evaluate(fact, seen, finality) ==
  IF ~fact.enabled THEN Decision("disabled", Unset)
  ELSE IF ~fact.supported THEN Decision("not_applicable", Unset)
  ELSE IF fact.raw \in Suspended THEN Decision("backoff", Unset)
  ELSE IF fact.raw \in CalledOff THEN Decision("cancelled", Unset)
  ELSE IF Normalise(fact.raw) = None \/ ~fact.identified THEN Decision("planning_error", Unset)
  ELSE EvaluateLifecycle(Normalise(fact.raw), fact.opened, seen, finality)

LeaseValid(w)   == w.status = "leased" /\ w.lease > 0
LeaseExpired(w) == w.status = "leased" /\ w.lease = 0

\* Mutant: an expired lease keeps its token.
ReconciledHalf(w, fact, rows) ==
  LET decision == Evaluate(fact, w.seen, Finality(rows))
  IN  IF LeaseValid(w) THEN w
      ELSE [w EXCEPT !.lifecycle = LifecycleOf(fact.raw), !.finality = Finality(rows),
                     !.status = decision.status, !.due = decision.due]

\* reconcile() of one match: a valid lease keeps status and due time, an expired
\* one is cleared, and everything else takes the planner's fresh decision.
Reconciled(w, fact, rows) ==
  LET lifecycle == LifecycleOf(fact.raw)
      seen      == IF w.status # "absent" /\ w.lifecycle = lifecycle THEN w.seen ELSE 0
      observed  == [w EXCEPT !.lifecycle = lifecycle, !.seen = seen,
                             !.finality = Finality(rows)]
      decision  == Evaluate(fact, seen, Finality(rows))
      planned   == [observed EXCEPT !.status = decision.status, !.due = decision.due]
  IN  IF LeaseValid(w) THEN observed
      ELSE IF LeaseExpired(w)
           THEN [planned EXCEPT !.token = NoToken, !.owner = NoOwner, !.lease = 0]
           ELSE planned

-----------------------------------------------------------------------------
(* The transitions of the row under a lease.                                   *)

\* Mutants: the claim query forgets the lease; a lease that expired is not due.
IsDueLeased(w)  == w.status \in Claimable /\ w.due = 0
IsDueUnleased(w) == w.status \in Claimable \ {"leased"} /\ w.due = 0 /\ w.lease = 0

\* The claim query's condition: status, due time, and no unexpired lease.
IsDue(w) == w.status \in Claimable /\ w.due = 0 /\ w.lease = 0

\* Mutant: every claim of a window goes by the same generation.
ClaimedAgain(w, owner) ==
  [w EXCEPT !.status = "leased", !.token = w.gen + 1, !.owner = owner, !.lease = LeaseTicks]

Claimed(w, owner) ==
  [w EXCEPT !.status = "leased", !.gen = @ + 1, !.token = w.gen + 1,
            !.owner = owner, !.lease = LeaseTicks]

\* Giving the lease back with a new status and due time.
Unleased(w, status, due) ==
  [w EXCEPT !.status = status, !.due = due, !.token = NoToken,
            !.owner = NoOwner, !.lease = 0]

\* release_window(): next_due_at is not touched.
Released(w) == Unleased(w, "due", w.due)

\* What the lease columns of a row mean together.
Consistent(w) ==
  /\ w.status = "leased" <=> w.token # NoToken
  /\ w.token # NoToken => w.token = w.gen
  /\ w.token = NoToken <=> w.owner = NoOwner
  /\ w.lease > 0 => w.status = "leased"

Count(n) == IF n > 0 THEN n - 1 ELSE n

\* The row one tick later.  Only the age of a CONCLUDED observation is ever read.
AgedWindow(w) ==
  [w EXCEPT !.due = Count(@), !.lease = Count(@),
            !.seen = IF w.lifecycle = "CONCLUDED" /\ @ <= Horizon THEN @ + 1 ELSE @]
=============================================================================
