----------------------- MODULE StatPollingFence_proofs -----------------------
(* The polling protocol implements the fenced lease, for any matches, processes *)
(* and answers: every step is, window by window, a step of FencedLease or none. *)
(* Besides: terminal windows are left alone, and owners find their rows running. *)
EXTENDS StatPollingFence, StatRecords_proofs

USE DEF Key

-----------------------------------------------------------------------------
(* The steps of the fenced lease in terms of one window, its tasks and attempts. *)

FenceStep(m) == [Fence(m)!Next]_(Fence(m)!lease)

LeaseKept(m) ==
  /\ window'[m].gen = window[m].gen /\ window'[m].token = window[m].token
  /\ LeaseValid(window'[m]) = LeaseValid(window[m])

Uncommitted(m) ==
  \A g \in Gens : attempt'[<<m, g>>].committed <=> attempt[<<m, g>>].committed

SameTasks(m) ==
  \A g \in Gens : task'[<<m, g>>].pc # "none" <=> task[<<m, g>>].pc # "none"

\* No task appears: some may end.
NoNewTask(m) ==
  \A g \in Gens : task'[<<m, g>>].pc # "none" => task[<<m, g>>].pc # "none"

LEMMA QuitStep ==
  ASSUME NEW m \in Match, LeaseKept(m), Uncommitted(m), NoNewTask(m)
  PROVE  FenceStep(m)
  <1> DEFINE working == {g \in Gens : task[<<m, g>>].pc # "none"}
             gone    == {g \in Gens : task[<<m, g>>].pc # "none" /\ task'[<<m, g>>].pc = "none"}
  <1>  gone \in SUBSET working
    OBVIOUS
  <1>1. {g \in Gens : task'[<<m, g>>].pc # "none"} = working \ gone
    BY DEF NoNewTask
  <1>2. {g \in Gens : attempt'[<<m, g>>].committed} = {g \in Gens : attempt[<<m, g>>].committed}
    BY DEF Uncommitted
  <1>3. Fence(m)!Quit(gone)
    BY <1>1, <1>2 DEF Fence!Quit, LeaseKept
  <1>4. \E quitting \in SUBSET working : Fence(m)!Quit(quitting)
    BY <1>3 DEF Fence!Quit
  <1> QED BY <1>4 DEF FenceStep, Fence!Next

LEMMA LapseStep ==
  ASSUME NEW m \in Match, window'[m].gen = window[m].gen, window'[m].token = window[m].token,
         LeaseValid(window[m]), ~LeaseValid(window'[m]), Uncommitted(m), SameTasks(m)
  PROVE  FenceStep(m)
  <1>1. {g \in Gens : task'[<<m, g>>].pc # "none"} = {g \in Gens : task[<<m, g>>].pc # "none"}
    BY DEF SameTasks
  <1>2. {g \in Gens : attempt'[<<m, g>>].committed} = {g \in Gens : attempt[<<m, g>>].committed}
    BY DEF Uncommitted
  <1>3. LeaseValid(window'[m]) = FALSE
    BY DEF LeaseValid
  <1>4. Fence(m)!Lapse
    BY <1>1, <1>2, <1>3 DEF Fence!Lapse
  <1> QED BY <1>4 DEF FenceStep, Fence!Next

LEMMA RevokeStep ==
  ASSUME NEW m \in Match, window'[m].gen = window[m].gen, window'[m].token = NoToken,
         ~LeaseValid(window[m]), ~LeaseValid(window'[m]), Uncommitted(m), SameTasks(m)
  PROVE  FenceStep(m)
  <1>1. {g \in Gens : task'[<<m, g>>].pc # "none"} = {g \in Gens : task[<<m, g>>].pc # "none"}
    BY DEF SameTasks
  <1>2. {g \in Gens : attempt'[<<m, g>>].committed} = {g \in Gens : attempt[<<m, g>>].committed}
    BY DEF Uncommitted
  <1>3. LeaseValid(window[m]) = LeaseValid(window'[m])
    BY DEF LeaseValid
  <1>4. Fence(m)!Revoke
    BY <1>1, <1>2, <1>3 DEF Fence!Revoke, NoToken
  <1> QED BY <1>4 DEF FenceStep, Fence!Next

LEMMA GrantStep ==
  ASSUME NEW m \in Match, NEW n \in Gens, n = window[m].gen + 1,
         window'[m].gen = n, window'[m].token = n,
         ~LeaseValid(window[m]), LeaseValid(window'[m]), Uncommitted(m),
         task'[<<m, n>>].pc # "none",
         \A g \in Gens \ {n} : task'[<<m, g>>].pc # "none" <=> task[<<m, g>>].pc # "none"
  PROVE  FenceStep(m)
  <1>1. {g \in Gens : task'[<<m, g>>].pc # "none"}
          = {g \in Gens : task[<<m, g>>].pc # "none"} \cup {n}
    OBVIOUS
  <1>2. {g \in Gens : attempt'[<<m, g>>].committed} = {g \in Gens : attempt[<<m, g>>].committed}
    BY DEF Uncommitted
  <1>3. Fence(m)!Grant
    BY <1>1, <1>2 DEF Fence!Grant
  <1> QED BY <1>3 DEF FenceStep, Fence!Next

LEMMA GiveBackStep ==
  ASSUME NEW m \in Match, NEW h \in Gens, window'[m].gen = window[m].gen,
         window[m].token = h, window'[m].token = NoToken, ~LeaseValid(window'[m]),
         task[<<m, h>>].pc # "none", task'[<<m, h>>].pc = "none",
         \A g \in Gens \ {h} : task'[<<m, g>>].pc # "none" <=> task[<<m, g>>].pc # "none",
         \A g \in Gens \ {h} : attempt'[<<m, g>>].committed <=> attempt[<<m, g>>].committed,
         attempt[<<m, h>>].committed => attempt'[<<m, h>>].committed
  PROVE  FenceStep(m)
  <1>1. {g \in Gens : task'[<<m, g>>].pc # "none"}
          = {g \in Gens : task[<<m, g>>].pc # "none"} \ {h}
    OBVIOUS
  <1>2. {g \in Gens : attempt'[<<m, g>>].committed}
          \in {{g \in Gens : attempt[<<m, g>>].committed},
               {g \in Gens : attempt[<<m, g>>].committed} \cup {h}}
    <2>1. CASE attempt'[<<m, h>>].committed
      <3>1. {g \in Gens : attempt'[<<m, g>>].committed}
              = {g \in Gens : attempt[<<m, g>>].committed} \cup {h}
        BY <2>1
      <3> QED BY <3>1
    <2>2. CASE ~attempt'[<<m, h>>].committed
      <3>1. {g \in Gens : attempt'[<<m, g>>].committed}
              = {g \in Gens : attempt[<<m, g>>].committed}
        BY <2>2
      <3> QED BY <3>1
    <2> QED BY <2>1, <2>2
  <1>3. Fence(m)!GiveBack(h)
    BY <1>1, <1>2 DEF Fence!GiveBack, NoToken
  <1>4. h \in {g \in Gens : task[<<m, g>>].pc # "none"}
    OBVIOUS
  <1> QED BY <1>3, <1>4 DEF FenceStep, Fence!Next

-----------------------------------------------------------------------------
(* What the operations on a window row do to its lease.                         *)

LEMMA UnleasedFence ==
  ASSUME NEW w \in Row, NEW s, s # "leased", NEW d
  PROVE  Unleased(w, s, d).token = NoToken /\ ~LeaseValid(Unleased(w, s, d))
  BY DEF Row, WindowRow, Unleased, LeaseValid

\* The planner leaves a valid lease alone, clears an expired one, and gives none.
LEMMA ReconciledFence ==
  ASSUME NEW w \in Row, NEW fact, NEW rows
  PROVE  LET r == Reconciled(w, fact, rows)
         IN  \/ r.token = w.token /\ LeaseValid(r) = LeaseValid(w)
             \/ r.token = NoToken /\ ~LeaseValid(r) /\ ~LeaseValid(w)
  <1> DEFINE lifecycle == LifecycleOf(fact.raw)
             seen      == IF w.status # "absent" /\ w.lifecycle = lifecycle THEN w.seen ELSE 0
             observed  == [w EXCEPT !.lifecycle = lifecycle, !.seen = seen,
                                    !.finality = Finality(rows)]
             decision  == Evaluate(fact, seen, Finality(rows))
             planned   == [observed EXCEPT !.status = decision.status, !.due = decision.due]
             freed     == [planned EXCEPT !.token = NoToken, !.owner = NoOwner, !.lease = 0]
  <1>1. decision.status # "leased"
    BY EvaluateType
  <1>2. Reconciled(w, fact, rows) = IF LeaseValid(w) THEN observed
                                    ELSE IF LeaseExpired(w) THEN freed ELSE planned
    BY DEF Reconciled
  <1> HIDE DEF lifecycle, seen, decision
  <1>3. /\ observed.token = w.token /\ observed.status = w.status /\ observed.lease = w.lease
        /\ planned.token = w.token /\ planned.status # "leased"
        /\ freed.token = NoToken /\ freed.status # "leased"
    BY <1>1 DEF Row, WindowRow
  <1> HIDE DEF observed, planned, freed
  <1> QED BY <1>2, <1>3 DEF LeaseValid

LEMMA AgedFence ==
  ASSUME NEW w \in Row
  PROVE  /\ AgedWindow(w).token = w.token
         /\ LeaseValid(AgedWindow(w)) => LeaseValid(w)
  <1>1. /\ AgedWindow(w).token = w.token /\ AgedWindow(w).status = w.status
        /\ AgedWindow(w).lease > 0 => w.lease > 0
    BY WindowAssumption DEF Row, WindowRow, AgedWindow, Count
  <1> QED BY <1>1 DEF LeaseValid

LEMMA ClaimedFence ==
  ASSUME NEW w \in Row, IsDue(w), NEW p
  PROVE  ~LeaseValid(w) /\ LeaseValid(Claimed(w, p)) /\ Claimed(w, p).token = w.gen + 1
  BY WindowAssumption DEF Row, WindowRow, IsDue, Claimed, LeaseValid

-----------------------------------------------------------------------------
(* What a step does to commits and tasks.                                       *)

Known == Inv /\ AuditRowsAgree /\ Unstarted

\* A commit is never taken back.
LEMMA CommitKept ==
  ASSUME Known, [Next]_vars, NEW m \in Match, NEW g \in Gens, attempt[<<m, g>>].committed
  PROVE  attempt'[<<m, g>>].committed
  <1>1. Agrees(attempt[<<m, g>>]) /\ Moves(m, g)
    BY AgreeEach, NextMoves DEF Known
  <1>2. task[<<m, g>>].pc \in {"queued", "refused"} => attempt[<<m, g>>].registry = "none"
    BY DEF Known, Unstarted
  <1> QED BY <1>1, <1>2 DEF Agrees, Moves

LEMMA NothingCommitted ==
  ASSUME Known, [Next]_vars, NEW m \in Match, \A g \in Gens : ~Commits(m, g)
  PROVE  Uncommitted(m)
  BY CommitKept DEF Commits, Uncommitted

LEMMA TasksEnd ==
  ASSUME Known, [Next]_vars, NEW m \in Match, window'[m].gen = window[m].gen
  PROVE  NoNewTask(m)
  <1>1. window[m].gen \in Nat
    BY InvIsTyped DEF Known, Row, WindowRow
  <1>2. ASSUME NEW g \in Gens PROVE TaskMoves(m, g)
    BY NextTasks DEF Known
  <1> QED BY <1>1, <1>2 DEF TaskMoves, NoNewTask

-----------------------------------------------------------------------------
(* The steps of an attempt.                                                     *)

\* Attempt <<n, h>> still owned its window and gives it back.
GivesBack(n, h) ==
  /\ Owned(n, h) /\ task[<<n, h>>].pc # "none" /\ task' = Returned(n, h)
  /\ \E w : /\ window' = [window EXCEPT ![n] = w]
            /\ w.token = NoToken /\ ~LeaseValid(w)
  /\ \A m \in Match, g \in Gens :
       <<m, g>> # <<n, h>> => attempt'[<<m, g>>] = attempt[<<m, g>>]

\* It leaves every lease and every commit alone.
WorksOn == UNCHANGED window /\ \A m \in Match, g \in Gens : ~Commits(m, g)

LEMMA ClosedOnlyOwn ==
  ASSUME Inv, NEW n \in Match, NEW h \in Gens, NEW r, NEW s, NEW c,
         attempt' = Closed(n, h, r, s, c)
  PROVE  \A m \in Match, g \in Gens :
           <<m, g>> # <<n, h>> => attempt'[<<m, g>>] = attempt[<<m, g>>]
  BY InvIsTyped DEF Closed

LEMMA GivesBackWith ==
  ASSUME Inv, NEW n \in Match, NEW h \in Gens, Owned(n, h), task[<<n, h>>].pc # "none",
         task' = Returned(n, h), NEW s, s # "leased", NEW d,
         window' = [window EXCEPT ![n] = Unleased(@, s, d)],
         attempt' = attempt \/ \E r, z, c : attempt' = Closed(n, h, r, z, c)
  PROVE  GivesBack(n, h)
  <1>1. Unleased(window[n], s, d).token = NoToken /\ ~LeaseValid(Unleased(window[n], s, d))
    BY UnleasedFence, InvIsTyped
  <1>2. \A m \in Match, g \in Gens :
          <<m, g>> # <<n, h>> => attempt'[<<m, g>>] = attempt[<<m, g>>]
    BY ClosedOnlyOwn
  <1> QED BY <1>1, <1>2 DEF GivesBack

LEMMA CommitGivesBack ==
  ASSUME Inv, NEW n \in Match, NEW h \in Gens, Owned(n, h), task[<<n, h>>].pc # "none",
         task' = Returned(n, h), Commit(n, h)
  PROVE  GivesBack(n, h)
  <1> DEFINE status == AfterSuccess(Recorded(stats[n], task[<<n, h>>].result),
                                    task[<<n, h>>].result)
  <1> status # "leased"
    BY DEF AfterSuccess
  <1> HIDE DEF status
  <1>1. PICK s, d, f :
          /\ s # "leased"
          /\ window' = [window EXCEPT ![n] = [Unleased(@, s, d) EXCEPT !.finality = f]]
    BY DEF Commit, status
  <1> DEFINE w == [Unleased(window[n], s, d) EXCEPT !.finality = f]
  <1>2. window' = [window EXCEPT ![n] = w]
    BY <1>1
  <1>3. w.token = NoToken /\ ~LeaseValid(w)
    <2>1. s # "leased" /\ window[n] \in Row
      BY <1>1, InvIsTyped
    <2> QED BY <2>1 DEF Row, WindowRow, Unleased, LeaseValid
  <1>4. \A m \in Match, g \in Gens :
          <<m, g>> # <<n, h>> => attempt'[<<m, g>>] = attempt[<<m, g>>]
    BY ClosedOnlyOwn DEF Commit
  <1> HIDE DEF w
  <1> QED BY <1>2, <1>3, <1>4 DEF GivesBack

LEMMA AttemptEnds ==
  ASSUME Inv, NEW n \in Match, NEW h \in Gens, AttemptStep(n, h)
  PROVE  WorksOn \/ GivesBack(n, h)
  <1>1. CASE UNCHANGED <<window, attempt>>
    BY <1>1 DEF WorksOn, Commits
  <1>2. CASE UNCHANGED window /\ attempt' = LostLease(n, h)
    BY <1>2, ClosedUncommitted DEF LostLease, WorksOn
  <1>3. CASE ReleaseDisallowed(n, h) /\ Owned(n, h)
    <2>1. window' = [window EXCEPT ![n] = Unleased(@, "due", window[n].due)]
      BY <1>3 DEF ReleaseDisallowed, Released
    <2> QED BY <1>3, <2>1, GivesBackWith DEF ReleaseDisallowed
  <1>4. CASE StartAttempt(n, h)
    <2>1. ASSUME NEW m \in Match, NEW g \in Gens, Commits(m, g)
          PROVE  FALSE
      <3>1. Moves(m, g)
        BY <1>4, StartMoves
      <3>2. CASE <<m, g>> = <<n, h>> /\ attempt' # attempt
        <4>1. ~attempt'[<<n, h>>].committed
          BY <1>4, <3>2, InvIsTyped DEF StartAttempt
        <4> QED BY <2>1, <3>2, <4>1 DEF Commits
      <3>3. CASE <<m, g>> # <<n, h>> \/ attempt' = attempt
        <4>1. attempt'[<<m, g>>] = attempt[<<m, g>>]
          BY <1>4, <3>3, InvIsTyped DEF StartAttempt
        <4> QED BY <2>1, <4>1 DEF Commits
      <3> QED BY <3>2, <3>3
    <2> QED BY <1>4, <2>1 DEF StartAttempt, WorksOn
  <1>5. CASE \/ ReleaseDisallowed(n, h) /\ ~Owned(n, h)
             \/ Request(n, h) \/ Respond(n, h) \/ RequestFails(n, h)
             \/ Checkpoint(n, h) \/ LaneError(n, h)
    BY <1>1, <1>5 DEF ReleaseDisallowed, Request, Respond, RequestFails, Checkpoint, LaneError
  <1>6. CASE PersistSkip(n, h)
    BY <1>1, <1>2, <1>6, GivesBackWith DEF PersistSkip
  <1>7. CASE PersistFailure(n, h)
    BY <1>1, <1>2, <1>7, GivesBackWith DEF PersistFailure
  <1>8. CASE PersistSuccess(n, h)
    BY <1>1, <1>2, <1>8, CommitGivesBack DEF PersistSuccess
  <1> QED BY <1>3, <1>4, <1>5, <1>6, <1>7, <1>8 DEF AttemptStep

LEMMA AttemptFence ==
  ASSUME Known, [Next]_vars, NEW n \in Match, NEW h \in Gens, AttemptStep(n, h),
         NEW m \in Match
  PROVE  FenceStep(m)
  <1>1. Inv /\ window'[m].gen = window[m].gen
    BY AttemptStepGen DEF Known
  <1>2. NoNewTask(m)
    BY <1>1, TasksEnd
  <1>3. CASE WorksOn
    <2>1. LeaseKept(m) /\ Uncommitted(m)
      BY <1>3, NothingCommitted DEF WorksOn, LeaseKept
    <2> QED BY <1>2, <2>1, QuitStep
  <1>4. CASE GivesBack(n, h) /\ m # n
    <2>1. window'[m] = window[m]
      BY <1>1, <1>4 DEF GivesBack
    <2>2. \A g \in Gens : attempt'[<<m, g>>] = attempt[<<m, g>>]
      BY <1>4 DEF GivesBack
    <2>3. LeaseKept(m) /\ Uncommitted(m)
      BY <2>1, <2>2 DEF LeaseKept, Uncommitted
    <2> QED BY <1>2, <2>3, QuitStep
  <1>5. CASE GivesBack(n, h) /\ m = n
    <2>1. /\ window[m].token = h /\ window'[m].token = NoToken /\ ~LeaseValid(window'[m])
      BY <1>1, <1>5, InvIsTyped DEF GivesBack, Owned
    <2>2. task' = Returned(m, h) /\ task[<<m, h>>].pc # "none"
      BY <1>5 DEF GivesBack
    <2>3. \A g \in Gens : task'[<<m, g>>] = IF g = h THEN NoTask ELSE task[<<m, g>>]
      BY <1>1, <2>2, InvIsTyped DEF Returned
    <2>4. task'[<<m, h>>].pc = "none"
      BY <2>3 DEF NoTask
    <2>5. \A g \in Gens \ {h} : task'[<<m, g>>].pc # "none" <=> task[<<m, g>>].pc # "none"
      BY <2>3
    <2>6. \A g \in Gens \ {h} : attempt'[<<m, g>>] = attempt[<<m, g>>]
      BY <1>5 DEF GivesBack
    <2>7. attempt[<<m, h>>].committed => attempt'[<<m, h>>].committed
      BY CommitKept
    <2> QED BY <1>1, <2>1, <2>2, <2>4, <2>5, <2>6, <2>7, GiveBackStep
  <1> QED BY <1>1, <1>3, <1>4, <1>5, AttemptEnds

-----------------------------------------------------------------------------
(* The steps of processes and of the other writers.                             *)

\* A step that leaves attempts, tasks and the lease of window m alone.
LEMMA StillStep ==
  ASSUME NEW m \in Match, LeaseKept(m), Uncommitted(m), task' = task
  PROVE  FenceStep(m)
  BY QuitStep DEF NoNewTask

LEMMA ReplannedFence ==
  ASSUME Known, NEW m \in Match, NEW fact, NEW rows, Uncommitted(m), task' = task,
         window'[m] = Reconciled(window[m], fact, rows)
  PROVE  FenceStep(m)
  <1>1. window[m] \in Row
    BY InvIsTyped DEF Known
  <1>2. window'[m].gen = window[m].gen
    BY <1>1, GenKept
  <1>3. CASE window'[m].token = window[m].token /\ LeaseValid(window'[m]) = LeaseValid(window[m])
    BY <1>2, <1>3, StillStep DEF LeaseKept
  <1>4. CASE window'[m].token = NoToken /\ ~LeaseValid(window'[m]) /\ ~LeaseValid(window[m])
    BY <1>2, <1>4, RevokeStep DEF SameTasks
  <1> QED BY <1>1, <1>3, <1>4, ReconciledFence

LEMMA RecoverFence ==
  ASSUME Known, [Next]_vars, NEW selected, Recover(selected), task' = task, NEW m \in Match
  PROVE  FenceStep(m)
  <1>1. window[m] \in Row
    BY InvIsTyped DEF Known
  <1>2. Uncommitted(m)
    BY RecoverCommitsNothing, NothingCommitted DEF Known
  <1>3. CASE window'[m] = window[m]
    BY <1>2, <1>3, StillStep DEF LeaseKept
  <1>4. CASE m \in selected /\ Resets(m)
    <2> DEFINE u == Unleased(window[m], "due", Unset)
               r == Reconciled(u, Fact(m, matchStatus[m]), stats[m])
    <2>1. window'[m] = r /\ ~LeaseValid(window[m])
      BY <1>4 DEF Recover, Resets
    <2>2. r.gen = window[m].gen
      BY <1>1, GenKept
    <2>3. u \in Row /\ u.token = NoToken /\ ~LeaseValid(u)
      BY <1>1, UnleasedIsRow, UnleasedFence, DelayIsDue DEF WindowStatus
    <2> HIDE DEF u
    <2>4. r.token = NoToken /\ ~LeaseValid(r)
      BY <2>3, ReconciledFence
    <2> HIDE DEF r
    <2> QED BY <1>2, <2>1, <2>2, <2>4, RevokeStep DEF SameTasks
  <1> QED BY <1>3, <1>4 DEF Recover

LEMMA TickFence ==
  ASSUME Known, [Next]_vars, Tick, NEW m \in Match
  PROVE  FenceStep(m)
  <1>1. window[m] \in Row /\ window'[m] = AgedWindow(window[m])
    BY InvIsTyped DEF Known, Tick
  <1>2. Uncommitted(m) /\ task' = task
    BY TickCommitsNothing, NothingCommitted DEF Known, Tick
  <1>3. /\ window'[m].gen = window[m].gen /\ window'[m].token = window[m].token
        /\ LeaseValid(window'[m]) => LeaseValid(window[m])
    BY <1>1, GenKept, AgedFence
  <1>4. CASE LeaseValid(window[m]) /\ ~LeaseValid(window'[m])
    BY <1>2, <1>3, <1>4, LapseStep DEF SameTasks
  <1>5. CASE ~(LeaseValid(window[m]) /\ ~LeaseValid(window'[m]))
    <2>1. LeaseValid(window[m]) = LeaseValid(window'[m])
      BY <1>3, <1>5 DEF LeaseValid
    <2> QED BY <1>2, <1>3, <2>1, StillStep DEF LeaseKept
  <1> QED BY <1>4, <1>5

LEMMA ClaimFence ==
  ASSUME Known, [Next]_vars, NEW p \in Proc, ClaimDue(p), NEW m \in Match
  PROVE  FenceStep(m)
  <1>1. PICK S \in Batches(DueWindows) :
          /\ window' = [n \in Match |-> IF n \in S THEN Claimed(window[n], p) ELSE window[n]]
          /\ task' = [k \in Key |->
               IF k[1] \in S /\ k[2] = window[k[1]].gen + 1
               THEN [pc |-> IF k[1] \in Allowed THEN "queued" ELSE "refused", proc |-> p,
                     lifecycle |-> window[k[1]].lifecycle, result |-> NoResult,
                     awaited |-> TRUE, late |-> process[p].state # "up"]
               ELSE task[k]]
    BY DEF ClaimDue
  <1>2. window[m] \in Row /\ window[m].gen \in Nat
    BY InvIsTyped DEF Known, Row, WindowRow
  <1>3. Uncommitted(m)
    BY DEF ClaimDue, Uncommitted
  <1>4. CASE m \notin S
    <2>1. window'[m] = window[m]
      BY <1>1, <1>4
    <2>2. LeaseKept(m) /\ NoNewTask(m)
      BY <2>1, TasksEnd DEF LeaseKept
    <2> QED BY <1>3, <2>2, QuitStep
  <1>5. CASE m \in S
    <2> DEFINE n == window[m].gen + 1
    <2>1. IsDue(window[m]) /\ n \in Gens
      <3>1. m \in DueWindows
        BY <1>5 DEF Batches
      <3> QED BY <1>2, <3>1, BoundAssumption DEF DueWindows, Gens
    <2>2. window'[m] = Claimed(window[m], p)
      BY <1>1, <1>5
    <2>3. /\ ~LeaseValid(window[m]) /\ LeaseValid(window'[m])
          /\ window'[m].token = n /\ window'[m].gen = n
      BY <1>2, <2>1, <2>2, ClaimedFence, GenKept
    <2>4. ASSUME NEW g \in Gens
          PROVE  /\ g = n => task'[<<m, g>>].pc # "none"
                 /\ g # n => task'[<<m, g>>] = task[<<m, g>>]
      <3>1. <<m, g>> \in Key /\ <<m, g>>[1] = m /\ <<m, g>>[2] = g
        OBVIOUS
      <3> QED BY <1>1, <1>5, <3>1
    <2> HIDE DEF n
    <2>5. n = window[m].gen + 1
      BY DEF n
    <2> QED BY <1>3, <2>1, <2>3, <2>4, <2>5, GrantStep
  <1> QED BY <1>4, <1>5

LEMMA ProcessFence ==
  ASSUME Known, [Next]_vars, NEW p \in Proc, ProcessStep(p), NEW m \in Match
  PROVE  FenceStep(m)
  <1>1. CASE StartupRecovery(p)
    BY <1>1, RecoverFence DEF StartupRecovery
  <1>2. CASE StartupReconcile(p)
    <2>1. window'[m] = Reconciled(window[m], Fact(m, matchStatus[m]), stats[m])
      BY <1>2 DEF StartupReconcile, Planned
    <2>2. Uncommitted(m) /\ task' = task
      BY <1>2 DEF StartupReconcile, Uncommitted
    <2> QED BY <2>1, <2>2, ReplannedFence
  <1>3. CASE ClaimDue(p)
    BY <1>3, ClaimFence
  <1>4. CASE UNCHANGED <<window, attempt>>
    <2>1. LeaseKept(m) /\ Uncommitted(m) /\ NoNewTask(m)
      BY <1>4, TasksEnd DEF LeaseKept, Uncommitted
    <2> QED BY <2>1, QuitStep
  <1> QED BY <1>1, <1>2, <1>3, <1>4
          DEF ProcessStep, EstablishInstance, WakeUp, ClaimNothing, BeginShutdown,
              WorkerClosed, SchedulerShutdown, MarkGracefulShutdown, DrainLane, Exit, Crash

LEMMA WriterFence ==
  ASSUME Known, [Next]_vars, NEW n \in Match, WriterStep(n), NEW m \in Match
  PROVE  FenceStep(m)
  <1>1. UNCHANGED <<attempt, task>>
    BY DEF WriterStep, CollectStatus, RefreshMetadata, OneShotCollect, OneShotPersist,
           WindowOpens
  <1>2. Uncommitted(m)
    BY <1>1 DEF Uncommitted
  <1>3. CASE window'[m] = window[m]
    BY <1>1, <1>2, <1>3, StillStep DEF LeaseKept
  <1>4. ASSUME NEW d, AdvanceStatus(n, d), window'[m] # window[m]
        PROVE  FenceStep(m)
    <2>1. window'[m] = Reconciled(window[m], Fact(m, d), stats[m])
      BY <1>4, InvIsTyped DEF Known, AdvanceStatus, Planned
    <2> QED BY <1>1, <1>2, <2>1, ReplannedFence
  <1> QED BY <1>3, <1>4 DEF WriterStep, CollectStatus, RefreshMetadata, OneShotCollect,
                            OneShotPersist, WindowOpens

LEMMA NextFence ==
  ASSUME Known, [Next]_vars, NEW m \in Match
  PROVE  FenceStep(m)
  <1>1. ASSUME NEW n \in Match, NEW h \in Gens, AttemptStep(n, h)
        PROVE  FenceStep(m)
    BY <1>1, AttemptFence
  <1>2. ASSUME NEW p \in Proc, ProcessStep(p)
        PROVE  FenceStep(m)
    BY <1>2, ProcessFence
  <1>3. ASSUME NEW n \in Match, WriterStep(n)
        PROVE  FenceStep(m)
    BY <1>3, WriterFence
  <1>4. CASE OperatorRecovery
    BY <1>4, RecoverFence DEF OperatorRecovery
  <1>5. CASE Tick
    BY <1>5, TickFence
  <1>6. CASE UNCHANGED vars
    BY <1>6, StillStep DEF vars, LeaseKept, Uncommitted
  <1> QED BY <1>1, <1>2, <1>3, <1>4, <1>5, <1>6 DEF Next

\* The worker, the planner, recovery and the status writers together keep the promise of
\* the fenced lease for every window: one holder at a time under ever newer generations,
\* taken away only once it lapsed, and commits by the holder alone.
THEOREM WorkerIsFenced == Spec => ImplementsFencedLease
  <1>1. Init => \A m \in Match : Fence(m)!Init
    BY DEF Init, Fence!Init, NoWindow, NoToken, NoTask, NoAttempt, LeaseValid
  <1>2. Init => Unstarted
    BY DEF Init, Unstarted, NoTask, NoAttempt
  <1>3. Inv /\ AuditRowsAgree /\ Unstarted /\ [Next]_vars =>
          [\A m \in Match : [Fence(m)!Next]_(Fence(m)!lease)]_vars
    BY NextFence DEF Known, FenceStep
  <1> QED BY <1>1, <1>2, <1>3, NextUnstarted, InitInv, NextInv, AuditsAgree, PTL
          DEF Spec, ImplementsFencedLease

-----------------------------------------------------------------------------
(* A lease that has not run out.                                                *)

EndsOwn(m) ==
  /\ task[<<m, window[m].gen>>].pc # "none"
  /\ task'[<<m, window[m].gen>>].pc = "none"

LEMMA AttemptTakesOwn ==
  ASSUME Inv, NEW n \in Match, NEW h \in Gens, AttemptStep(n, h),
         NEW m \in Match, window'[m].token # window[m].token
  PROVE  EndsOwn(m)
  <1>1. GivesBack(n, h)
    BY AttemptEnds DEF WorksOn
  <1>2. m = n
    BY <1>1, InvIsTyped DEF GivesBack
  <1>3. h = window[m].gen
    <2>1. window[m].token = h /\ h # NoToken /\ Consistent(window[m])
      BY <1>1, <1>2 DEF GivesBack, Owned, Gens, NoToken, Inv, LeaseConsistent
    <2> QED BY <2>1 DEF Consistent
  <1>4. task'[<<m, h>>] = NoTask
    BY <1>1, <1>2, InvIsTyped DEF GivesBack, Returned
  <1> QED BY <1>1, <1>2, <1>3, <1>4 DEF GivesBack, EndsOwn, NoTask

LEMMA ValidTakenByOwn ==
  ASSUME Inv, [Next]_vars, NEW m \in Match, LeaseValid(window[m]),
         window'[m].token # window[m].token
  PROVE  EndsOwn(m)
  <1>1. window[m] \in Row
    BY InvIsTyped
  <1>2. ASSUME NEW n \in Match, NEW h \in Gens, AttemptStep(n, h)
        PROVE  EndsOwn(m)
    BY <1>2, AttemptTakesOwn
  <1>3. ASSUME NEW fact, NEW rows, window'[m] = Reconciled(window[m], fact, rows)
        PROVE  FALSE
    BY <1>1, <1>3, ReconciledFence
  <1>4. ASSUME NEW selected, Recover(selected)
        PROVE  FALSE
    BY <1>4 DEF Recover, Resets
  <1>5. ASSUME NEW p \in Proc, ProcessStep(p)
        PROVE  FALSE
    <2>1. CASE StartupRecovery(p)
      BY <1>4, <2>1 DEF StartupRecovery
    <2>2. CASE StartupReconcile(p)
      BY <1>3, <2>2 DEF StartupReconcile, Planned
    <2>3. CASE ClaimDue(p)
      <3>1. m \in DueWindows
        BY <2>3 DEF ClaimDue, Batches
      <3> QED BY <1>1, <3>1, ClaimedFence DEF DueWindows
    <2> QED BY <1>5, <2>1, <2>2, <2>3
            DEF ProcessStep, EstablishInstance, WakeUp, ClaimNothing, BeginShutdown,
                WorkerClosed, SchedulerShutdown, MarkGracefulShutdown, DrainLane, Exit, Crash
  <1>6. ASSUME NEW n \in Match, WriterStep(n)
        PROVE  FALSE
    <2>1. ASSUME NEW d, AdvanceStatus(n, d) PROVE FALSE
      BY <1>3, <2>1, InvIsTyped DEF AdvanceStatus, Planned
    <2> QED BY <1>6, <2>1 DEF WriterStep, CollectStatus, RefreshMetadata, OneShotCollect,
                              OneShotPersist, WindowOpens
  <1>7. ~OperatorRecovery
    BY <1>4 DEF OperatorRecovery
  <1>8. ~Tick
    BY <1>1, AgedFence DEF Tick
  <1>9. ~(UNCHANGED vars)
    BY DEF vars
  <1> QED BY <1>2, <1>5, <1>6, <1>7, <1>8, <1>9 DEF Next

\* As long as a lease has not run out, planner, recovery, other processes and the status
\* writers leave it where it is: only the end of its own attempt gives it back.
THEOREM ValidLeaseKept == Spec => ValidLeaseNotStolen
  <1>1. Inv /\ [Next]_vars =>
          [\A m \in Match :
             LeaseValid(window[m]) /\ window'[m].token # window[m].token =>
               /\ task[<<m, window[m].gen>>].pc # "none"
               /\ task'[<<m, window[m].gen>>].pc = "none"]_vars
    BY ValidTakenByOwn DEF EndsOwn
  <1> QED BY <1>1, InitInv, NextInv, PTL DEF Spec, ValidLeaseNotStolen

-----------------------------------------------------------------------------
(* Terminal windows.                                                            *)

\* A terminal window names no token, is not due, and time leaves it terminal.
LEMMA TerminalRow ==
  ASSUME NEW w \in Row, w.status \in Terminal
  PROVE  w.token = NoToken /\ ~IsDue(w) /\ AgedWindow(w).status = w.status
  <1>1. w.status # "leased" /\ w.status \notin Claimable
    BY DEF Terminal, Claimable
  <1>2. Consistent(w) /\ AgedWindow(w).status = w.status
    BY DEF Row, WindowRow, AgedWindow
  <1> QED BY <1>1, <1>2 DEF Consistent, IsDue

\* A new status that advances the stored one is a change of it.
LEMMA AdvanceChanges ==
  ASSUME Inv, NEW n \in Match, NEW d, Advances(matchStatus[n], d), AdvanceStatus(n, d)
  PROVE  matchStatus'[n] # matchStatus[n]
  <1>1. matchStatus'[n] = d
    BY InvIsTyped DEF AdvanceStatus
  <1>2. ~Advances(d, d)
    BY DEF Advances, Normalise, Lifecycle, Aliases
  <1> QED BY <1>1, <1>2

LEMMA TerminalMoves ==
  ASSUME Inv, [Next]_vars, NEW m \in Match, window[m].status \in Terminal,
         window'[m].status # window[m].status
  PROVE  \/ matchStatus'[m] # matchStatus[m]
         \/ \E p \in Proc : process[p].state = "recovered" /\ process'[p].state = "up"
  <1>1. /\ window \in [Match -> Row] /\ window[m] \in Row /\ process \in [Proc -> Process]
        /\ window[m].token = NoToken /\ ~IsDue(window[m])
    BY InvIsTyped, TerminalRow
  <1>2. ASSUME NEW n \in Match, NEW h \in Gens, AttemptStep(n, h)
        PROVE  FALSE
    <2>1. GivesBack(n, h)
      BY <1>2, AttemptEnds DEF WorksOn
    <2>2. m = n
      BY <1>1, <2>1 DEF GivesBack
    <2> QED BY <1>1, <2>1, <2>2 DEF GivesBack, Owned, Gens, NoToken
  <1>3. ASSUME NEW selected, Recover(selected)
        PROVE  FALSE
    BY <1>3 DEF Recover, Resets
  <1>4. ASSUME NEW p \in Proc, ProcessStep(p)
        PROVE  process[p].state = "recovered" /\ process'[p].state = "up"
    <2>1. CASE StartupReconcile(p)
      BY <1>1, <2>1 DEF StartupReconcile, MoveTo, Process
    <2>2. ~ClaimDue(p)
      BY <1>1 DEF ClaimDue, Batches, DueWindows
    <2>3. ~StartupRecovery(p)
      BY <1>3 DEF StartupRecovery
    <2> QED BY <1>4, <2>1, <2>2, <2>3
            DEF ProcessStep, EstablishInstance, WakeUp, ClaimNothing, BeginShutdown,
                WorkerClosed, SchedulerShutdown, MarkGracefulShutdown, DrainLane, Exit, Crash
  <1>5. ASSUME NEW n \in Match, WriterStep(n)
        PROVE  matchStatus'[m] # matchStatus[m]
    <2>1. PICK d : Advances(matchStatus[n], d) /\ AdvanceStatus(n, d)
      BY <1>5 DEF WriterStep, CollectStatus, RefreshMetadata, OneShotCollect,
                  OneShotPersist, WindowOpens
    <2>2. m = n
      BY <1>1, <2>1 DEF AdvanceStatus
    <2> QED BY <2>1, <2>2, AdvanceChanges
  <1>6. ~OperatorRecovery
    BY <1>3 DEF OperatorRecovery
  <1>7. ~Tick
    BY <1>1, TerminalRow DEF Tick
  <1>8. ~(UNCHANGED vars)
    BY DEF vars
  <1> QED BY <1>2, <1>4, <1>5, <1>6, <1>7, <1>8 DEF Next

\* No claim, attempt, recovery or release ever moves a window that reached a terminal
\* status: only a changed match status or the replanning of a starting process does.
THEOREM TerminalKept == Spec => TerminalLeftAlone
  <1>1. Inv /\ [Next]_vars =>
          [\A m \in Match :
             window[m].status \in Terminal /\ window'[m].status # window[m].status =>
               \/ matchStatus'[m] # matchStatus[m]
               \/ \E p \in Proc : process[p].state = "recovered" /\ process'[p].state = "up"]_vars
    BY TerminalMoves
  <1> QED BY <1>1, InitInv, NextInv, PTL DEF Spec, TerminalLeftAlone

-----------------------------------------------------------------------------
(* The attempt that holds the lease still has its rows.                         *)

\* The process whose task holds the lease is the owner the window names, and the one
\* its audit rows name.
HolderKnown ==
  \A m \in Match, g \in Gens : Owned(m, g) =>
    /\ task[<<m, g>>].pc # "none" => task[<<m, g>>].proc = window[m].owner
    /\ attempt[<<m, g>>].registry = "running" => attempt[<<m, g>>].proc = window[m].owner

\* Of two attempts at one match, both running, the one claimed first is no younger.
OlderLonger ==
  \A m \in Match, g, h \in Gens :
    h < g /\ attempt[<<m, h>>].registry = "running" /\ attempt[<<m, g>>].registry = "running"
      => attempt[<<m, h>>].age >= attempt[<<m, g>>].age

Held == Known /\ HolderKnown /\ OlderLonger /\ OwnerStillRunning

\* Recovery that repairs the attempt under an expired lease frees the window with it: an
\* older attempt cannot be preserved where a younger one of the same process is overdue.
LEMMA RepairFrees ==
  ASSUME Held, NEW m \in Match, NEW g \in Gens, Owned(m, g), g \in Repaired(m)
  PROVE  Resets(m)
  <1>1. /\ window[m] \in Row /\ window[m].token = g /\ g # NoToken /\ g \in Nat
        /\ window[m].gen = g
    <2>1. window[m] \in Row /\ Consistent(window[m])
      BY InvIsTyped DEF Held, Known, Row
    <2> QED BY <2>1 DEF Owned, Consistent, Gens, NoToken
  <1>2. window[m].status = "leased"
    BY <1>1 DEF Row, Consistent
  <1>3. /\ ~LeaseValid(window[m]) /\ g \in OpenRows(m) /\ ~Preserved(m, g) /\ Repaired(m) # {}
    BY DEF Repaired
  <1>4. \A h \in OpenRows(m) : h \in Gens /\ attempt[<<m, h>>].registry = "running"
    BY AgreeEach DEF Held, Known, Agrees, Pair, OpenRows
  <1>5. ASSUME NEW h \in OpenRows(m), Preserved(m, h)
        PROVE  FALSE
    <2>1. h # g
      BY <1>3, <1>5
    <2>2. h < g
      <3>1. ~(h > window[m].gen)
        BY <1>4, <1>5 DEF Held, Known, Unstarted
      <3>2. h \in Gens
        BY <1>4, <1>5
      <3>3. h \in Nat
        BY <3>2, BoundAssumption DEF Gens
      <3> QED BY <1>1, <2>1, <3>1, <3>3
    <2>3. window[m].owner = attempt[<<m, h>>].proc
      BY <1>1, <1>5, <2>1 DEF Preserved, Owned
    <2>4. attempt[<<m, g>>].proc = window[m].owner
      BY <1>3, <1>4 DEF Held, HolderKnown
    <2>5. ~(attempt[<<m, g>>].age <= MaxAttempt)
      BY <1>3, <1>5, <2>3, <2>4 DEF Preserved
    <2>6. attempt[<<m, h>>].age >= attempt[<<m, g>>].age
      BY <1>3, <1>4, <2>2 DEF Held, OlderLonger
    <2>7. attempt[<<m, h>>].age <= MaxAttempt
      BY <1>5 DEF Preserved
    <2>8. attempt[<<m, h>>].age \in Int /\ attempt[<<m, g>>].age \in Int /\ MaxAttempt \in Int
      <3>1. attempt[<<m, h>>] \in AttemptRow /\ attempt[<<m, g>>] \in AttemptRow
        BY <1>4, InvIsTyped DEF Held, Known
      <3> QED BY <3>1, RecoveryAssumption DEF AttemptRow
    <2> QED BY <2>5, <2>6, <2>7, <2>8
  <1> QED BY <1>2, <1>3, <1>5 DEF Resets, Terminal

LEMMA FreedFence ==
  ASSUME Inv, NEW m \in Match PROVE Freed(m).token = NoToken
  <1>1. Unleased(window[m], "due", Unset) \in Row
        /\ Unleased(window[m], "due", Unset).token = NoToken
    BY InvIsTyped, UnleasedIsRow, UnleasedFence, DelayIsDue DEF WindowStatus
  <1> QED BY <1>1, ReconciledFence DEF Freed

\* A step leaves a window with its holder, without one, or with the one it claims for.
HolderMoves(m) ==
  \/ window'[m].token = NoToken
  \/ window'[m].token = window[m].token /\ window'[m].owner = window[m].owner
  \/ window'[m].token = window[m].gen + 1

\* A row keeps owner and token, or has none.
LEMMA RowHolder ==
  ASSUME NEW w \in Row, NEW fact, NEW rows
  PROVE  /\ \/ Reconciled(w, fact, rows).token = NoToken
            \/ /\ Reconciled(w, fact, rows).token = w.token
               /\ Reconciled(w, fact, rows).owner = w.owner
         /\ AgedWindow(w).token = w.token /\ AgedWindow(w).owner = w.owner
  <1>1. AgedWindow(w).token = w.token /\ AgedWindow(w).owner = w.owner
    BY DEF Row, WindowRow, AgedWindow
  <1> DEFINE lifecycle == LifecycleOf(fact.raw)
             seen      == IF w.status # "absent" /\ w.lifecycle = lifecycle THEN w.seen ELSE 0
             observed  == [w EXCEPT !.lifecycle = lifecycle, !.seen = seen,
                                    !.finality = Finality(rows)]
             decision  == Evaluate(fact, seen, Finality(rows))
             planned   == [observed EXCEPT !.status = decision.status, !.due = decision.due]
             freed     == [planned EXCEPT !.token = NoToken, !.owner = NoOwner, !.lease = 0]
  <1>2. Reconciled(w, fact, rows) = IF LeaseValid(w) THEN observed
                                    ELSE IF LeaseExpired(w) THEN freed ELSE planned
    BY DEF Reconciled
  <1> HIDE DEF lifecycle, seen, decision
  <1>3. /\ observed.token = w.token /\ observed.owner = w.owner
        /\ planned.token = w.token /\ planned.owner = w.owner /\ freed.token = NoToken
    BY DEF Row, WindowRow
  <1> QED BY <1>1, <1>2, <1>3

LEMMA NextHolder ==
  ASSUME Inv, [Next]_vars, NEW m \in Match
  PROVE  HolderMoves(m)
  <1>1. window \in [Match -> Row] /\ window[m] \in Row
    BY InvIsTyped
  <1>2. CASE window'[m] = window[m]
    BY <1>2 DEF HolderMoves
  <1>3. ASSUME NEW n \in Match, NEW h \in Gens, AttemptStep(n, h)
        PROVE  HolderMoves(m)
    <2>1. CASE GivesBack(n, h) /\ m = n
      BY <1>1, <2>1 DEF GivesBack, HolderMoves
    <2>2. CASE GivesBack(n, h) /\ m # n
      BY <1>1, <1>2, <2>2 DEF GivesBack
    <2> QED BY <1>2, <1>3, <2>1, <2>2, AttemptEnds DEF WorksOn
  <1>4. ASSUME NEW fact, NEW rows, window'[m] = Reconciled(window[m], fact, rows)
        PROVE  HolderMoves(m)
    BY <1>1, <1>4, RowHolder DEF HolderMoves
  <1>5. ASSUME NEW selected, Recover(selected)
        PROVE  HolderMoves(m)
    <2>1. window'[m] = window[m] \/ window'[m] = Freed(m)
      BY <1>5 DEF Recover, Freed
    <2> QED BY <1>2, <2>1, FreedFence DEF HolderMoves
  <1>6. ASSUME NEW p \in Proc, ProcessStep(p)
        PROVE  HolderMoves(m)
    <2>1. CASE StartupRecovery(p)
      BY <1>5, <2>1 DEF StartupRecovery
    <2>2. CASE StartupReconcile(p)
      BY <1>4, <2>2 DEF StartupReconcile, Planned
    <2>3. CASE ClaimDue(p)
      <3>1. window'[m] \in {window[m], Claimed(window[m], p)}
        BY <2>3 DEF ClaimDue
      <3>2. Claimed(window[m], p).token = window[m].gen + 1
        BY <1>1 DEF Row, WindowRow, Claimed
      <3> QED BY <1>2, <3>1, <3>2 DEF HolderMoves
    <2> QED BY <1>2, <1>6, <2>1, <2>2, <2>3
            DEF ProcessStep, EstablishInstance, WakeUp, ClaimNothing, BeginShutdown,
                WorkerClosed, SchedulerShutdown, MarkGracefulShutdown, DrainLane, Exit, Crash
  <1>7. ASSUME NEW n \in Match, WriterStep(n)
        PROVE  HolderMoves(m)
    <2>1. ASSUME NEW d, AdvanceStatus(n, d) PROVE HolderMoves(m)
      <3>1. CASE m = n
        BY <1>1, <1>4, <2>1, <3>1 DEF AdvanceStatus, Planned
      <3>2. CASE m # n
        BY <1>1, <1>2, <2>1, <3>2 DEF AdvanceStatus
      <3> QED BY <3>1, <3>2
    <2> QED BY <1>2, <1>7, <2>1 DEF WriterStep, CollectStatus, RefreshMetadata, OneShotCollect,
                                    OneShotPersist, WindowOpens
  <1>8. CASE OperatorRecovery
    BY <1>5, <1>8 DEF OperatorRecovery
  <1>9. CASE Tick
    BY <1>1, <1>9, RowHolder DEF Tick, HolderMoves
  <1>10. CASE UNCHANGED vars
    BY <1>2, <1>10 DEF vars
  <1> QED BY <1>3, <1>6, <1>7, <1>8, <1>9, <1>10 DEF Next

\* One step for one attempt: the holder of the lease stays known, and its rows run.
LEMMA HolderKept ==
  ASSUME Held, [Next]_vars, NEW m \in Match, NEW g \in Gens, Owned(m, g)'
  PROVE  /\ task'[<<m, g>>].pc # "none" => task'[<<m, g>>].proc = window'[m].owner
         /\ attempt'[<<m, g>>].registry = "running" =>
              attempt'[<<m, g>>].proc = window'[m].owner
         /\ task'[<<m, g>>].pc \notin {"none", "queued", "refused"} => Running(m, g)'
  <1> DEFINE row  == attempt[<<m, g>>]
             next == attempt'[<<m, g>>]
             t    == task[<<m, g>>]
             u    == task'[<<m, g>>]
  <1>1. /\ window[m] \in Row /\ window[m].gen \in Nat /\ g \in Nat /\ g # NoToken
        /\ row \in AttemptRow /\ window'[m].token = g
    <2>1. window[m] \in Row /\ row \in AttemptRow
      BY InvIsTyped DEF Held, Known
    <2> QED BY <2>1 DEF Row, WindowRow, Gens, NoToken, Owned
  <1>2. HolderMoves(m) /\ Moves(m, g) /\ TaskMoves(m, g)
    BY NextHolder, NextMoves, NextTasks DEF Held, Known
  <1>3. Agrees(row) /\ Agrees(next)
    BY AgreeEach, NextAgrees DEF Held, Known
  <1>4. Running(m, g)' <=> next.registry = "running"
    BY <1>3 DEF Running, Agrees, Pair
  <1>5. Running(m, g) <=> row.registry = "running"
    BY <1>3 DEF Running, Agrees, Pair
  <1>6. CASE g = window[m].gen + 1
    <2>1. t.pc = "none" /\ row.registry = "none"
      BY <1>1, <1>6 DEF Held, Known, Unstarted
    <2>2. next = row /\ next.registry # "running"
      BY <1>2, <2>1 DEF Moves
    <2>3. \/ u.pc = "none"
          \/ u.pc \in {"queued", "refused"} /\ u.proc = window'[m].owner
      BY <1>2, <2>1 DEF TaskMoves
    <2> QED BY <2>2, <2>3
  <1>7. CASE g # window[m].gen + 1
    <2>1. Owned(m, g) /\ window'[m].owner = window[m].owner
      BY <1>1, <1>2, <1>7 DEF HolderMoves, Owned
    <2>2. /\ t.pc # "none" => t.proc = window[m].owner
          /\ row.registry = "running" => row.proc = window[m].owner
          /\ t.pc \notin {"none", "queued", "refused"} => row.registry = "running"
      BY <1>5, <2>1 DEF Held, HolderKnown, OwnerStillRunning
    <2>3. u.pc = "none" \/ (t.pc # "none" /\ u.proc = t.proc)
      BY <1>2, <1>7 DEF TaskMoves
    <2>4. \/ next = row
          \/ t.pc = "queued" /\ next = Fresh(t.proc)
          \/ row.registry = "running" /\ next.registry # "running" /\ u.pc = "none"
          \/ row.registry = "running" /\ next = AgedAttempt(row)
      <3>1. ~(g \in Repaired(m) /\ (Resets(m) => window'[m] = Freed(m)))
        BY <1>1, <2>1, RepairFrees, FreedFence DEF Held, Known
      <3> QED BY <1>2, <3>1 DEF Moves
    <2>5. AgedAttempt(row).registry = row.registry /\ AgedAttempt(row).proc = row.proc
      BY <1>1 DEF AgedAttempt, AttemptRow
    <2>6. next.registry = "running" => next.proc = window'[m].owner
      BY <2>1, <2>2, <2>4, <2>5 DEF Fresh
    <2>7. ASSUME u.pc \notin {"none", "queued", "refused"}
          PROVE  next.registry = "running"
      <3>1. CASE t.pc = "queued"
        <4>1. next = Fresh(t.proc)
          BY <1>2, <1>7, <2>7, <3>1 DEF TaskMoves
        <4> QED BY <4>1 DEF Fresh
      <3>2. CASE t.pc # "queued"
        <4>1. t.pc \notin {"none", "queued", "refused"}
          BY <1>2, <1>7, <2>7, <3>2 DEF TaskMoves
        <4> QED BY <2>2, <2>4, <2>5, <2>7, <4>1
      <3> QED BY <3>1, <3>2
    <2> QED BY <1>4, <2>1, <2>2, <2>3, <2>6, <2>7
  <1> QED BY <1>6, <1>7

\* A row that runs after a step ran before it, as it was or a tick younger, or has just
\* been started under the lease.
LEMMA RowsRun ==
  ASSUME Held, [Next]_vars, NEW m \in Match, NEW g \in Gens,
         attempt'[<<m, g>>].registry = "running"
  PROVE  \/ attempt'[<<m, g>>] = attempt[<<m, g>>]
         \/ Owned(m, g) /\ attempt'[<<m, g>>].age = 0
         \/ Tick
  <1>1. Moves(m, g)
    BY NextMoves DEF Held, Known
  <1> QED BY <1>1 DEF Moves, Fresh

LEMMA OlderKept ==
  ASSUME Held, [Next]_vars, NEW m \in Match, NEW g \in Gens, NEW h \in Gens, h < g,
         attempt'[<<m, h>>].registry = "running", attempt'[<<m, g>>].registry = "running"
  PROVE  attempt'[<<m, h>>].age >= attempt'[<<m, g>>].age
  <1> DEFINE a == attempt[<<m, h>>]
             b == attempt[<<m, g>>]
  <1>1. /\ a \in AttemptRow /\ b \in AttemptRow /\ window[m] \in Row
        /\ attempt'[<<m, h>>] \in AttemptRow
    BY InvIsTyped, InvIsTypedNext, NextInv DEF Held, Known
  <1>2. a.age \in 0 .. MaxAge /\ b.age \in 0 .. MaxAge /\ MaxAge \in Nat
        /\ attempt'[<<m, h>>].age \in 0 .. MaxAge /\ h \in Nat /\ g \in Nat
        /\ window[m].gen \in Nat
    BY <1>1, RecoveryAssumption, BoundAssumption DEF AttemptRow, MaxAge, Gens, Row, WindowRow
  <1>3. a.registry = "running" /\ b.registry = "running" => a.age >= b.age
    BY DEF Held, OlderLonger
  <1>4. ~(Owned(m, h) /\ b.registry = "running") /\ ~(Owned(m, h) /\ Owned(m, g))
    <2>1. Owned(m, h) => window[m].gen = h
      BY <1>1 DEF Owned, Row, Consistent, Gens, NoToken
    <2>2. b.registry = "running" => ~(g > window[m].gen)
      BY DEF Held, Known, Unstarted
    <2> QED BY <1>2, <2>1, <2>2 DEF Owned
  <1>5. CASE Tick
    <2>1. attempt'[<<m, h>>] = AgedAttempt(a) /\ attempt'[<<m, g>>] = AgedAttempt(b)
      BY <1>5 DEF Tick
    <2>2. ASSUME NEW r \in AttemptRow
          PROVE  /\ AgedAttempt(r).registry = r.registry
                 /\ r.registry = "running" =>
                      AgedAttempt(r).age = IF r.age < MaxAge THEN r.age + 1 ELSE r.age
      BY DEF AgedAttempt, AttemptRow
    <2>3. a.registry = "running" /\ b.registry = "running"
      BY <1>1, <2>1, <2>2
    <2>4. /\ attempt'[<<m, h>>].age = IF a.age < MaxAge THEN a.age + 1 ELSE a.age
          /\ attempt'[<<m, g>>].age = IF b.age < MaxAge THEN b.age + 1 ELSE b.age
      BY <1>1, <2>1, <2>2, <2>3
    <2> QED BY <1>2, <1>3, <2>3, <2>4
  <1>6. CASE ~Tick
    <2>1. \/ attempt'[<<m, g>>] = b
          \/ Owned(m, g) /\ attempt'[<<m, g>>].age = 0
      BY <1>6, RowsRun
    <2>2. \/ attempt'[<<m, h>>] = a
          \/ Owned(m, h) /\ attempt'[<<m, h>>].age = 0
      BY <1>6, RowsRun
    <2>3. CASE attempt'[<<m, g>>].age = 0
      BY <1>2, <2>3
    <2>4. CASE attempt'[<<m, g>>] = b
      <3>1. attempt'[<<m, h>>] = a
        BY <1>4, <2>2, <2>4
      <3> QED BY <1>3, <2>4, <3>1
    <2> QED BY <2>1, <2>3, <2>4
  <1> QED BY <1>5, <1>6

LEMMA NextHeld == Held /\ [Next]_vars => Held'
  <1> SUFFICES ASSUME Held, [Next]_vars PROVE Held'
    OBVIOUS
  <1>1. Known'
    BY NextInv, NextAgrees, NextUnstarted DEF Held, Known
  <1>2. HolderKnown' /\ OwnerStillRunning'
    BY HolderKept DEF HolderKnown, OwnerStillRunning
  <1>3. OlderLonger'
    BY OlderKept DEF OlderLonger
  <1> QED BY <1>1, <1>2, <1>3 DEF Held

LEMMA InitHeld == Init => Held
  <1> SUFFICES ASSUME Init PROVE Held
    OBVIOUS
  <1>1. Inv
    BY InitInv
  <1>2. AuditRowsAgree /\ Unstarted
    BY DEF Init, AuditRowsAgree, Unstarted, NoTask, NoAttempt
  <1>3. HolderKnown /\ OlderLonger /\ OwnerStillRunning
    BY DEF Init, HolderKnown, OlderLonger, OwnerStillRunning, NoTask, NoAttempt
  <1> QED BY <1>1, <1>2, <1>3 DEF Held, Known

\* A started attempt that still holds its lease, expired or not, finds its audit rows
\* running: recovery repairs them only together with the lease.
THEOREM OwnersRun == Spec => []OwnerStillRunning
  <1>1. Held => OwnerStillRunning
    BY DEF Held
  <1> QED BY <1>1, InitHeld, NextHeld, PTL DEF Spec
=============================================================================
