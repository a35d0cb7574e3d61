-------------------------- MODULE StatPolling_proofs --------------------------
(* The polling protocol for any matches, processes, bounds and answers: its     *)
(* variables keep their types, its leases are consistent, and an attempt whose  *)
(* window was claimed again commits nothing.                                    *)
EXTENDS StatPolling, TLAPS

-----------------------------------------------------------------------------
(* What the planner and the lease operators return, for any row.                *)

LEMMA NormaliseType ==
  ASSUME NEW raw PROVE Normalise(raw) \in Lifecycle \cup {None}
  BY DEF Normalise, Lifecycle, Aliases

LEMMA LaterType ==
  ASSUME NEW l, NEW r PROVE Later(l, r) \in Lifecycle \cup {None}
  BY NormaliseType DEF Later

LEMMA LifecycleOfType ==
  ASSUME NEW raw \in RawStatus PROVE LifecycleOf(raw) \in RawStatus
  BY NormaliseType DEF LifecycleOf, RawStatus

LEMMA FinalityType ==
  ASSUME NEW rows PROVE Finality(rows) \in FinalityState
  BY DEF Finality, FinalityState

LEMMA KindType ==
  ASSUME NEW response, NEW canonical PROVE ResultKindOf(response, canonical) \in ResultKind
  BY DEF ResultKindOf, ResultKind

LEMMA UpsertedType ==
  ASSUME NEW rows \in Rows, NEW result PROVE Upserted(rows, result) \in Rows
  <1>1. AuthorityOf(result.kind) \in Authority
    BY DEF AuthorityOf, Authority
  <1> QED BY <1>1 DEF Upserted, Rows

\* The planner leases nothing, and every time it gives is due at once or never.
LEMMA EvaluateType ==
  ASSUME NEW fact, NEW seen, NEW finality
  PROVE  /\ Evaluate(fact, seen, finality).status \in WindowStatus \ {"leased"}
         /\ Evaluate(fact, seen, finality).due \in {Unset, 0}
  BY DEF Evaluate, EvaluateLifecycle, Decision, WindowStatus

LEMMA LeaseValues ==
  /\ NoToken \in Nat /\ 0 \in 0 .. LeaseTicks /\ LeaseTicks \in 0 .. LeaseTicks
  BY WindowAssumption DEF NoToken

\* Reconciling keeps the row a row, and its lease columns consistent.
LEMMA ReconciledRow ==
  ASSUME NEW owners, NEW w \in WindowRow(owners), NEW fact, fact.raw \in RawStatus, NEW rows,
         NoOwner \notin owners
  PROVE  /\ Reconciled(w, fact, rows) \in WindowRow(owners)
         /\ Consistent(w) => Consistent(Reconciled(w, fact, rows))
  <1> DEFINE lifecycle == LifecycleOf(fact.raw)
             seen      == IF w.status # "absent" /\ w.lifecycle = lifecycle THEN w.seen ELSE 0
             observed  == [w EXCEPT !.lifecycle = lifecycle, !.seen = seen,
                                    !.finality = Finality(rows)]
             decision  == Evaluate(fact, seen, Finality(rows))
             planned   == [observed EXCEPT !.status = decision.status, !.due = decision.due]
             freed     == [planned EXCEPT !.token = NoToken, !.owner = NoOwner, !.lease = 0]
  <1>1. lifecycle \in RawStatus /\ seen \in 0 .. Horizon + 1 /\ Finality(rows) \in FinalityState
    BY LifecycleOfType, FinalityType, WindowAssumption DEF WindowRow
  <1>2. decision.status \in WindowStatus \ {"leased"} /\ decision.due \in Unset .. MaxDelay
    BY EvaluateType, WindowAssumption DEF Unset
  <1>3. Reconciled(w, fact, rows) = IF LeaseValid(w) THEN observed
                                    ELSE IF LeaseExpired(w) THEN freed ELSE planned
    BY DEF Reconciled
  <1> HIDE DEF lifecycle, seen, decision
  <1>4. CASE LeaseValid(w)
    BY <1>1, <1>3, <1>4 DEF WindowRow, Consistent
  <1>5. CASE ~LeaseValid(w) /\ LeaseExpired(w)
    <2>1. freed \in WindowRow(owners)
      BY <1>1, <1>2, LeaseValues DEF WindowRow
    <2>2. freed.status # "leased" /\ freed.token = NoToken /\ freed.owner = NoOwner
          /\ freed.lease = 0
      BY <1>2 DEF WindowRow
    <2> HIDE DEF freed
    <2>3. Consistent(freed)
      BY <2>2 DEF Consistent
    <2> QED BY <1>3, <1>5, <2>1, <2>3
  <1>6. CASE ~LeaseValid(w) /\ ~LeaseExpired(w)
    <2>1. planned \in WindowRow(owners)
      BY <1>1, <1>2 DEF WindowRow
    <2>2. /\ planned.status # "leased" /\ planned.token = w.token /\ planned.gen = w.gen
          /\ planned.owner = w.owner /\ planned.lease = w.lease
      BY <1>2 DEF WindowRow
    <2>3. w.status # "leased"
      BY <1>6 DEF LeaseValid, LeaseExpired, WindowRow
    <2> HIDE DEF planned
    <2>4. Consistent(w) => Consistent(planned)
      BY <2>2, <2>3 DEF Consistent
    <2> QED BY <1>3, <1>6, <2>1, <2>4
  <1> QED BY <1>4, <1>5, <1>6

LEMMA ClaimedRow ==
  ASSUME NEW owners, NEW w \in WindowRow(owners), NEW p \in owners, NoOwner \notin owners
  PROVE  Claimed(w, p) \in WindowRow(owners) /\ Consistent(Claimed(w, p))
  <1> DEFINE c == Claimed(w, p)
  <1>1. c \in WindowRow(owners)
    <2>1. w.gen + 1 \in Nat
      BY DEF WindowRow
    <2> QED BY <2>1, LeaseValues DEF Claimed, WindowRow, WindowStatus
  <1>2. c.status = "leased" /\ c.token = c.gen /\ c.owner = p /\ c.token # NoToken
    BY DEF Claimed, WindowRow, NoToken
  <1> HIDE DEF c
  <1>3. Consistent(c)
    BY <1>2 DEF Consistent
  <1> QED BY <1>1, <1>3 DEF c

LEMMA UnleasedRow ==
  ASSUME NEW owners, NEW w \in WindowRow(owners),
         NEW s \in WindowStatus \ {"leased"}, NEW d \in Unset .. MaxDelay
  PROVE  Unleased(w, s, d) \in WindowRow(owners) /\ Consistent(Unleased(w, s, d))
  <1> DEFINE u == Unleased(w, s, d)
  <1>1. u \in WindowRow(owners)
    BY LeaseValues DEF Unleased, WindowRow
  <1>2. u.status # "leased" /\ u.token = NoToken /\ u.owner = NoOwner /\ u.lease = 0
    BY DEF Unleased, WindowRow
  <1> HIDE DEF u
  <1>3. Consistent(u)
    BY <1>2 DEF Consistent
  <1> QED BY <1>1, <1>3 DEF u

LEMMA AgedRow ==
  ASSUME NEW owners, NEW w \in WindowRow(owners)
  PROVE  /\ AgedWindow(w) \in WindowRow(owners)
         /\ Consistent(w) => Consistent(AgedWindow(w))
  <1> DEFINE a == AgedWindow(w)
  <1>1. a \in WindowRow(owners)
    <2>1. Count(w.due) \in Unset .. MaxDelay /\ Count(w.lease) \in 0 .. LeaseTicks
      BY WindowAssumption DEF WindowRow, Count, Unset
    <2>2. w.seen <= Horizon => w.seen + 1 \in 0 .. Horizon + 1
      BY WindowAssumption DEF WindowRow
    <2> QED BY <2>1, <2>2 DEF WindowRow, AgedWindow
  <1>2. /\ a.status = w.status /\ a.token = w.token /\ a.gen = w.gen /\ a.owner = w.owner
        /\ a.lease > 0 => w.lease > 0
    BY WindowAssumption DEF AgedWindow, WindowRow, Count
  <1> HIDE DEF a
  <1>3. Consistent(w) => Consistent(a)
    BY <1>2 DEF Consistent
  <1> QED BY <1>1, <1>3 DEF a

-----------------------------------------------------------------------------
(* The polling protocol.                                                        *)

Row == {w \in WindowRow(Proc) : Consistent(w)}

Inv == TypeOK /\ LeaseConsistent

USE DEF Key

-----------------------------------------------------------------------------
(* What the operators of the model give, for any argument of their type.       *)

LEMMA InvIsTyped ==
  Inv <=> /\ window \in [Match -> Row]
          /\ matchStatus \in [Match -> RawStatus]
          /\ opened \in [Match -> BOOLEAN]
          /\ stats \in [Match -> Rows]
          /\ attempt \in [Key -> AttemptRow]
          /\ task \in [Key -> Task]
          /\ process \in [Proc -> Process]
          /\ oneShot \in [Match -> OneShot]
  <1>1. window \in [Match -> WindowRow(Proc)] /\ LeaseConsistent <=> window \in [Match -> Row]
    BY DEF Row, LeaseConsistent
  <1> QED BY <1>1 DEF Inv, TypeOK

LEMMA InvIsTypedNext ==
  Inv' <=> /\ window' \in [Match -> Row]
           /\ matchStatus' \in [Match -> RawStatus]
           /\ opened' \in [Match -> BOOLEAN]
           /\ stats' \in [Match -> Rows]
           /\ attempt' \in [Key -> AttemptRow]
           /\ task' \in [Key -> Task]
           /\ process' \in [Proc -> Process]
           /\ oneShot' \in [Match -> OneShot]
  <1>1. (window \in [Match -> WindowRow(Proc)] /\ LeaseConsistent)' <=> window' \in [Match -> Row]
    BY DEF Row, LeaseConsistent
  <1> QED BY <1>1 DEF Inv, TypeOK

LEMMA UnleasedIsRow ==
  ASSUME NEW w \in Row, NEW s \in WindowStatus \ {"leased"}, NEW d \in Unset .. MaxDelay
  PROVE  Unleased(w, s, d) \in Row
  BY UnleasedRow DEF Row

LEMMA DelayIsDue == Delays \subseteq Unset .. MaxDelay /\ Unset \in Unset .. MaxDelay
  BY DelayAssumption, WindowAssumption DEF Unset

LEMMA ClaimedIsRow ==
  ASSUME NEW w \in Row, NEW p \in Proc PROVE Claimed(w, p) \in Row
  BY ClaimedRow, BoundAssumption DEF Row

LEMMA ReconciledIsRow ==
  ASSUME NEW w \in Row, NEW m, NEW raw \in RawStatus, NEW rows
  PROVE  Reconciled(w, Fact(m, raw), rows) \in Row
  <1>1. Fact(m, raw).raw = raw
    BY DEF Fact
  <1> QED BY <1>1, ReconciledRow, BoundAssumption DEF Row

LEMMA AgedIsRow ==
  ASSUME NEW w \in Row PROVE AgedWindow(w) \in Row
  BY AgedRow DEF Row

\* A committed row keeps its type with another finality.
LEMMA ConfirmedIsRow ==
  ASSUME NEW w \in Row, NEW f \in FinalityState
  PROVE  [w EXCEPT !.finality = f] \in Row
  BY DEF Row, WindowRow, Consistent

LEMMA NoTaskType == NoTask \in Task
  BY DEF NoTask, Task, TaskPc, NoResult, Results, ResultKind

LEMMA RaisedType ==
  ASSUME task \in [Key -> Task], NEW m \in Match, NEW g \in Gens
  PROVE  Raised(m, g) \in [Key -> Task] /\ Returned(m, g) \in [Key -> Task]
  <1>1. \A t \in Task : [t EXCEPT !.awaited = FALSE] \in Task
    BY DEF Task
  <1> QED BY <1>1, NoTaskType DEF Raised, Returned

LEMMA ClosedType ==
  ASSUME attempt \in [Key -> AttemptRow], NEW m \in Match, NEW g \in Gens,
         NEW r \in RegistryStatus, NEW s \in ScrapeStatus, NEW c \in BOOLEAN
  PROVE  Closed(m, g, r, s, c) \in [Key -> AttemptRow]
  <1>1. 0 \in 0 .. MaxAge
    BY RecoveryAssumption DEF MaxAge
  <1>2. \A a \in AttemptRow :
          [a EXCEPT !.registry = r, !.scrape = s, !.committed = c, !.age = 0] \in AttemptRow
    BY <1>1 DEF AttemptRow
  <1> QED BY <1>2 DEF Closed

LEMMA LostLeaseType ==
  ASSUME attempt \in [Key -> AttemptRow], NEW m \in Match, NEW g \in Gens
  PROVE  LostLease(m, g) \in [Key -> AttemptRow]
  BY ClosedType DEF LostLease, RegistryStatus, ScrapeStatus

LEMMA MoveToType ==
  ASSUME process \in [Proc -> Process], NEW p \in Proc, NEW s \in ProcessState, MoveTo(p, s)
  PROVE  process' \in [Proc -> Process]
  BY DEF MoveTo, Process

LEMMA PcType ==
  ASSUME task \in [Key -> Task], NEW m \in Match, NEW g \in Gens, NEW pc \in TaskPc
  PROVE  [task EXCEPT ![<<m, g>>].pc = pc] \in [Key -> Task]
  BY DEF Task

\* Giving a lease back gives a row for every status but "leased" and every delay.
LEMMA GivenBack ==
  ASSUME window \in [Match -> Row], NEW m \in Match, NEW s \in WindowStatus \ {"leased"},
         NEW d \in Unset .. MaxDelay, window' = [window EXCEPT ![m] = Unleased(@, s, d)]
  PROVE  window' \in [Match -> Row]
  BY UnleasedIsRow

-----------------------------------------------------------------------------
(* The steps of an attempt.                                                    *)

LEMMA ReleaseDisallowedKeeps ==
  ASSUME Inv, NEW m \in Match, NEW g \in Gens, ReleaseDisallowed(m, g)
  PROVE  Inv'
  <1>1. window' \in [Match -> Row]
    <2>1. window[m] \in Row /\ window[m].due \in Unset .. MaxDelay
      BY InvIsTyped DEF Row, WindowRow
    <2>2. Released(window[m]) \in Row
      BY <2>1, UnleasedIsRow DEF Released, WindowStatus
    <2> QED BY <2>2, InvIsTyped DEF ReleaseDisallowed
  <1>2. task' \in [Key -> Task]
    BY RaisedType, InvIsTyped DEF ReleaseDisallowed
  <1> QED BY <1>1, <1>2, InvIsTyped, InvIsTypedNext DEF ReleaseDisallowed

LEMMA StartAttemptKeeps ==
  ASSUME Inv, NEW m \in Match, NEW g \in Gens, StartAttempt(m, g)
  PROVE  Inv'
  <1>1. attempt' \in [Key -> AttemptRow]
    <2>1. task[<<m, g>>].proc \in Proc \cup {NoOwner} /\ 0 \in 0 .. MaxAge
      BY InvIsTyped, RecoveryAssumption DEF Task, MaxAge
    <2>2. [registry |-> "running", scrape |-> "running", committed |-> FALSE,
           proc |-> task[<<m, g>>].proc, age |-> 0] \in AttemptRow
      BY <2>1 DEF AttemptRow, RegistryStatus, ScrapeStatus
    <2> QED BY <2>2, InvIsTyped DEF StartAttempt
  <1>2. task' \in [Key -> Task]
    <2>1. task \in [Key -> Task] /\ "started" \in TaskPc
      BY InvIsTyped DEF TaskPc
    <2>2. [task EXCEPT ![<<m, g>>].pc = "started"] \in [Key -> Task]
      BY <2>1, PcType
    <2>3. Raised(m, g) \in [Key -> Task]
      BY <2>1, RaisedType
    <2>4. task' = [task EXCEPT ![<<m, g>>].pc = "started"] \/ task' = Raised(m, g)
      BY DEF StartAttempt
    <2> QED BY <2>2, <2>3, <2>4
  <1> QED BY <1>1, <1>2, InvIsTyped, InvIsTypedNext DEF StartAttempt

LEMMA PersistSkipKeeps ==
  ASSUME Inv, NEW m \in Match, NEW g \in Gens, PersistSkip(m, g)
  PROVE  Inv'
  <1>1. window' \in [Match -> Row]
    <2>1. window \in [Match -> Row]
      BY InvIsTyped
    <2>2. \/ window' = window
          \/ \E d \in Delays : window' = [window EXCEPT ![m] = Unleased(@, "due", d)]
      BY DEF PersistSkip
    <2>3. "due" \in WindowStatus \ {"leased"}
      BY DEF WindowStatus
    <2> QED BY <2>1, <2>2, <2>3, GivenBack, DelayIsDue
  <1>2. attempt' \in [Key -> AttemptRow]
    <2>1. attempt \in [Key -> AttemptRow]
      BY InvIsTyped
    <2>2. attempt' \in {attempt, LostLease(m, g), Closed(m, g, "succeeded", "completed", FALSE)}
      BY DEF PersistSkip
    <2>3. {"succeeded", "failed"} \subseteq RegistryStatus
          /\ {"completed", "failed"} \subseteq ScrapeStatus
      BY DEF RegistryStatus, ScrapeStatus
    <2>4. LostLease(m, g) \in [Key -> AttemptRow]
      BY <2>1, LostLeaseType
    <2>5. Closed(m, g, "succeeded", "completed", FALSE) \in [Key -> AttemptRow]
      BY <2>1, <2>3, ClosedType
    <2> QED BY <2>1, <2>2, <2>4, <2>5
  <1>3. task' \in [Key -> Task]
    <2>1. task \in [Key -> Task]
      BY InvIsTyped
    <2>2. Raised(m, g) \in [Key -> Task] /\ Returned(m, g) \in [Key -> Task]
      BY <2>1, RaisedType
    <2>3. task' \in {Raised(m, g), Returned(m, g)}
      BY DEF PersistSkip
    <2> QED BY <2>2, <2>3
  <1> QED BY <1>1, <1>2, <1>3, InvIsTyped, InvIsTypedNext DEF PersistSkip

LEMMA RequestKeeps ==
  ASSUME Inv, NEW m \in Match, NEW g \in Gens, Request(m, g)
  PROVE  Inv'
  <1>1. task' \in [Key -> Task]
    <2>1. Later(task[<<m, g>>].lifecycle, matchStatus[m]) \in RawStatus \cup {None}
      BY LaterType DEF RawStatus
    <2> DEFINE t == task[<<m, g>>]
               r == [t EXCEPT !.pc = "requesting",
                              !.lifecycle = Later(t.lifecycle, matchStatus[m])]
    <2>2. t \in Task
      BY InvIsTyped
    <2>3. r \in Task
      BY <2>1, <2>2 DEF Task, TaskPc
    <2>4. task' = [task EXCEPT ![<<m, g>>] = r]
      BY DEF Request
    <2> QED BY <2>3, <2>4, InvIsTyped
  <1> QED BY <1>1, InvIsTyped, InvIsTypedNext DEF Request

LEMMA CollectedType ==
  ASSUME NEW a \in Answers, NEW canonical PROVE Collected(a, canonical) \in Results
  <1>1. a.players \in SUBSET Player
    BY InputAssumption DEF Responses
  <1> QED BY <1>1, KindType DEF Collected, Results

LEMMA RespondKeeps ==
  ASSUME Inv, NEW m \in Match, NEW g \in Gens, Respond(m, g)
  PROVE  Inv'
  <1>1. task' \in [Key -> Task]
    <2> DEFINE t == task[<<m, g>>]
    <2>1. PICK a \in Answers : task' = [task EXCEPT ![<<m, g>>] =
            [t EXCEPT !.pc = "received", !.lifecycle = None,
                      !.result = Collected(a, t.lifecycle)]]
      BY DEF Respond
    <2>2. t \in Task /\ Collected(a, t.lifecycle) \in Results
      BY CollectedType, InvIsTyped
    <2>3. [t EXCEPT !.pc = "received", !.lifecycle = None,
                    !.result = Collected(a, t.lifecycle)] \in Task
      BY <2>2 DEF Task, TaskPc
    <2> QED BY <2>1, <2>3, InvIsTyped
  <1> QED BY <1>1, InvIsTyped, InvIsTypedNext DEF Respond

LEMMA RequestFailsKeeps ==
  ASSUME Inv, NEW m \in Match, NEW g \in Gens, RequestFails(m, g)
  PROVE  Inv'
  <1>1. task' \in [Key -> Task]
    <2>1. task[<<m, g>>] \in Task
      BY InvIsTyped
    <2>2. [task[<<m, g>>] EXCEPT !.pc = "failing", !.lifecycle = None] \in Task
      BY <2>1 DEF Task, TaskPc
    <2> QED BY <2>2, InvIsTyped DEF RequestFails
  <1>2. process' \in [Proc -> Process]
    <2>1. Delays \subseteq 0 .. MaxDelay
      BY DelayAssumption, WindowAssumption
    <2>2. ASSUME NEW p, NEW d \in Delays, process' = [process EXCEPT ![p].pause = d]
          PROVE  process' \in [Proc -> Process]
      BY <2>1, <2>2, InvIsTyped DEF Process
    <2> QED BY <2>2, InvIsTyped DEF RequestFails
  <1> QED BY <1>1, <1>2, InvIsTyped, InvIsTypedNext DEF RequestFails

LEMMA CheckpointKeeps ==
  ASSUME Inv, NEW m \in Match, NEW g \in Gens, Checkpoint(m, g)
  PROVE  Inv'
  <1>1. task' \in [Key -> Task]
    BY PcType, InvIsTyped DEF Checkpoint, TaskPc
  <1> QED BY <1>1, InvIsTyped, InvIsTypedNext DEF Checkpoint

LEMMA CommitTypes ==
  ASSUME Inv, NEW m \in Match, NEW g \in Gens, Commit(m, g)
  PROVE  /\ window' \in [Match -> Row]
         /\ stats' \in [Match -> Rows]
         /\ attempt' \in [Key -> AttemptRow]
  <1> DEFINE rows   == Recorded(stats[m], task[<<m, g>>].result)
             status == AfterSuccess(rows, task[<<m, g>>].result)
  <1>1. rows \in Rows /\ Finality(rows) \in FinalityState
    BY UpsertedType, FinalityType, InvIsTyped DEF Recorded
  <1>2. status \in WindowStatus \ {"leased"}
    BY DEF AfterSuccess, WindowStatus
  <1>3. ScrapeOutcome(task[<<m, g>>].result.kind) \in ScrapeStatus
    BY DEF ScrapeOutcome, ScrapeStatus
  <1>4. attempt' \in [Key -> AttemptRow]
    BY <1>3, ClosedType, InvIsTyped DEF Commit, RegistryStatus
  <1>5. stats' \in [Match -> Rows]
    BY <1>1, InvIsTyped DEF Commit
  <1>6. window' \in [Match -> Row]
    <2>1. PICK d \in Delays : window' = [window EXCEPT ![m] =
            [Unleased(@, status, IF status = "complete" THEN Unset ELSE d)
               EXCEPT !.finality = Finality(rows)]]
      BY DEF Commit
    <2> DEFINE due  == IF status = "complete" THEN Unset ELSE d
               back == Unleased(window[m], status, due)
    <2>2. due \in Unset .. MaxDelay
      BY DelayIsDue
    <2> HIDE DEF status, due, rows
    <2>3. back \in Row
      BY <1>2, <2>2, UnleasedIsRow, InvIsTyped
    <2>4. [back EXCEPT !.finality = Finality(rows)] \in Row
      BY <1>1, <2>3, ConfirmedIsRow
    <2> QED BY <2>1, <2>4, InvIsTyped DEF due
  <1> QED BY <1>4, <1>5, <1>6

LEMMA PersistSuccessKeeps ==
  ASSUME Inv, NEW m \in Match, NEW g \in Gens, PersistSuccess(m, g)
  PROVE  Inv'
  <1>1. task' \in [Key -> Task]
    <2>1. task \in [Key -> Task] /\ "failing" \in TaskPc
      BY InvIsTyped DEF TaskPc
    <2>2. [task EXCEPT ![<<m, g>>].pc = "failing"] \in [Key -> Task]
      BY <2>1, PcType
    <2>3. Returned(m, g) \in [Key -> Task]
      BY <2>1, RaisedType
    <2>4. task' = [task EXCEPT ![<<m, g>>].pc = "failing"] \/ task' = Returned(m, g)
      BY DEF PersistSuccess
    <2> QED BY <2>2, <2>3, <2>4
  <1>2. /\ window' \in [Match -> Row]
        /\ stats' \in [Match -> Rows]
        /\ attempt' \in [Key -> AttemptRow]
    BY CommitTypes, LostLeaseType, InvIsTyped DEF PersistSuccess
  <1> QED BY <1>1, <1>2, InvIsTyped, InvIsTypedNext DEF PersistSuccess

LEMMA PersistFailureKeeps ==
  ASSUME Inv, NEW m \in Match, NEW g \in Gens, PersistFailure(m, g)
  PROVE  Inv'
  <1>1. window' \in [Match -> Row]
    <2>1. window \in [Match -> Row]
      BY InvIsTyped
    <2>2. \/ window' = window
          \/ \E d \in Delays : window' = [window EXCEPT ![m] = Unleased(@, "backoff", d)]
      BY DEF PersistFailure
    <2>3. "backoff" \in WindowStatus \ {"leased"}
      BY DEF WindowStatus
    <2> QED BY <2>1, <2>2, <2>3, GivenBack, DelayIsDue
  <1>2. attempt' \in [Key -> AttemptRow]
    <2>1. attempt \in [Key -> AttemptRow]
      BY InvIsTyped
    <2>2. attempt' \in {attempt, LostLease(m, g), Closed(m, g, "failed", "failed", FALSE)}
      BY DEF PersistFailure
    <2>3. {"succeeded", "failed"} \subseteq RegistryStatus
          /\ {"completed", "failed"} \subseteq ScrapeStatus
      BY DEF RegistryStatus, ScrapeStatus
    <2>4. LostLease(m, g) \in [Key -> AttemptRow]
      BY <2>1, LostLeaseType
    <2>5. Closed(m, g, "failed", "failed", FALSE) \in [Key -> AttemptRow]
      BY <2>1, <2>3, ClosedType
    <2> QED BY <2>1, <2>2, <2>4, <2>5
  <1>3. task' \in [Key -> Task]
    <2>1. task \in [Key -> Task]
      BY InvIsTyped
    <2>2. Raised(m, g) \in [Key -> Task] /\ Returned(m, g) \in [Key -> Task]
      BY <2>1, RaisedType
    <2>3. task' \in {Raised(m, g), Returned(m, g)}
      BY DEF PersistFailure
    <2> QED BY <2>2, <2>3
  <1> QED BY <1>1, <1>2, <1>3, InvIsTyped, InvIsTypedNext DEF PersistFailure

LEMMA LaneErrorKeeps ==
  ASSUME Inv, NEW m \in Match, NEW g \in Gens, LaneError(m, g)
  PROVE  Inv'
  <1>1. [k \in Key |-> IF k \in Awaited(task[<<m, g>>].proc) THEN NoTask ELSE task[k]]
          \in [Key -> Task]
    BY NoTaskType, InvIsTyped
  <1>2. task' \in [Key -> Task]
    <2>1. task \in [Key -> Task] /\ "failing" \in TaskPc
      BY InvIsTyped DEF TaskPc
    <2>2. [task EXCEPT ![<<m, g>>].pc = "failing"] \in [Key -> Task]
      BY <2>1, PcType
    <2>3. Raised(m, g) \in [Key -> Task]
      BY <2>1, RaisedType
    <2>4. \/ task' = [k \in Key |-> IF k \in Awaited(task[<<m, g>>].proc)
                                     THEN NoTask ELSE task[k]]
          \/ task' = [task EXCEPT ![<<m, g>>].pc = "failing"]
          \/ task' = Raised(m, g)
      BY DEF LaneError
    <2> QED BY <1>1, <2>2, <2>3, <2>4
  <1> QED BY <1>2, InvIsTyped, InvIsTypedNext DEF LaneError

-----------------------------------------------------------------------------
(* The steps of a scheduler process.                                           *)

\* A step that moves the process on and leaves the rows and the tasks alone.
LEMMA MovesKeep ==
  ASSUME Inv, NEW p \in Proc,
         EstablishInstance(p) \/ BeginShutdown(p) \/ WorkerClosed(p)
           \/ SchedulerShutdown(p) \/ DrainLane(p) \/ Exit(p)
  PROVE  Inv'
  <1>1. PICK s \in ProcessState : MoveTo(p, s)
    BY DEF EstablishInstance, BeginShutdown, WorkerClosed, SchedulerShutdown, DrainLane, Exit,
           ProcessState
  <1>2. process' \in [Proc -> Process]
    BY <1>1, MoveToType, InvIsTyped
  <1>3. UNCHANGED <<matchStatus, opened, window, stats, attempt, task, oneShot>>
    BY DEF EstablishInstance, BeginShutdown, WorkerClosed, SchedulerShutdown, DrainLane, Exit
  <1> QED BY <1>2, <1>3, InvIsTyped, InvIsTypedNext

LEMMA BeatTypes == 0 \in 0 .. Grace + 1 /\ 0 \in 0 .. MaxDelay
  BY BoundAssumption, WindowAssumption

\* Waking up, finding nothing to claim, and announcing a graceful stop.
LEMMA NotesKeep ==
  ASSUME Inv, NEW p \in Proc, WakeUp(p) \/ ClaimNothing(p) \/ MarkGracefulShutdown(p)
  PROVE  Inv'
  <1>1. process[p] \in Process
    BY InvIsTyped
  <1>2. process' \in [Proc -> Process]
    <2>1. CASE WakeUp(p)
      <3>1. [process[p] EXCEPT !.awake = TRUE, !.beat = 0] \in Process
        BY <1>1, BeatTypes DEF Process
      <3>2. process' = [process EXCEPT ![p] = [process[p] EXCEPT !.awake = TRUE, !.beat = 0]]
        BY <2>1 DEF WakeUp
      <3> QED BY <3>1, <3>2, InvIsTyped
    <2>2. CASE ClaimNothing(p)
      <3>1. [process[p] EXCEPT !.awake = FALSE] \in Process
        BY <1>1 DEF Process
      <3> QED BY <2>2, <3>1, InvIsTyped DEF ClaimNothing
    <2>3. CASE MarkGracefulShutdown(p)
      <3>1. [process[p] EXCEPT !.state = "stopped", !.graceful = TRUE, !.beat = 0] \in Process
        BY <1>1, BeatTypes DEF Process, ProcessState
      <3> QED BY <2>3, <3>1, InvIsTyped DEF MarkGracefulShutdown
    <2> QED BY <2>1, <2>2, <2>3
  <1>3. UNCHANGED <<matchStatus, opened, window, stats, attempt, task, oneShot>>
    BY DEF WakeUp, ClaimNothing, MarkGracefulShutdown
  <1> QED BY <1>2, <1>3, InvIsTyped, InvIsTypedNext

LEMMA ClaimDueKeeps ==
  ASSUME Inv, NEW p \in Proc, ClaimDue(p)
  PROVE  Inv'
  <1>1. PICK S \in Batches(DueWindows) :
          /\ window' = [m \in Match |-> IF m \in S THEN Claimed(window[m], p) ELSE window[m]]
          /\ task' = [k \in Key |->
               IF k[1] \in S /\ k[2] = window[k[1]].gen + 1
               THEN [pc |-> IF k[1] \in Allowed THEN "queued" ELSE "refused", proc |-> p,
                     lifecycle |-> window[k[1]].lifecycle, result |-> NoResult,
                     awaited |-> TRUE, late |-> process[p].state # "up"]
               ELSE task[k]]
    BY DEF ClaimDue
  <1>2. window' \in [Match -> Row]
    <2>1. \A m \in Match : window[m] \in Row
      BY InvIsTyped
    <2>2. \A m \in Match : Claimed(window[m], p) \in Row
      BY <2>1, ClaimedIsRow
    <2> QED BY <1>1, <2>1, <2>2
  <1>3. task' \in [Key -> Task]
    <2>1. \A k \in Key : window[k[1]].lifecycle \in RawStatus \cup {None}
      BY InvIsTyped DEF Row, WindowRow
    <2>2. NoResult \in Results
      BY DEF NoResult, Results, ResultKind
    <2>3. ASSUME NEW k \in Key
          PROVE  [pc |-> IF k[1] \in Allowed THEN "queued" ELSE "refused", proc |-> p,
                  lifecycle |-> window[k[1]].lifecycle, result |-> NoResult,
                  awaited |-> TRUE, late |-> process[p].state # "up"] \in Task
      BY <2>1, <2>2 DEF Task, TaskPc
    <2>4. \A k \in Key : task[k] \in Task
      BY InvIsTyped
    <2> QED BY <1>1, <2>3, <2>4
  <1>4. process' \in [Proc -> Process]
    <2>1. process[p] \in Process
      BY InvIsTyped
    <2>2. [process[p] EXCEPT !.awake = FALSE] \in Process
      BY <2>1 DEF Process
    <2> QED BY <2>2, InvIsTyped DEF ClaimDue
  <1> QED BY <1>2, <1>3, <1>4, InvIsTyped, InvIsTypedNext DEF ClaimDue

LEMMA CrashKeeps ==
  ASSUME Inv, NEW p \in Proc, Crash(p)
  PROVE  Inv'
  <1>1. process' \in [Proc -> Process]
    <2>1. process[p] \in Process
      BY InvIsTyped
    <2>2. [process[p] EXCEPT !.state = "dead", !.awake = FALSE, !.pause = 0] \in Process
      BY <2>1, BeatTypes DEF Process, ProcessState
    <2> QED BY <2>2, InvIsTyped DEF Crash
  <1>2. task' \in [Key -> Task]
    BY NoTaskType, InvIsTyped DEF Crash
  <1> QED BY <1>1, <1>2, InvIsTyped, InvIsTypedNext DEF Crash

-----------------------------------------------------------------------------
(* Recovery and the startup reconciliation.                                    *)

LEMMA RecoverTypes ==
  ASSUME Inv, NEW selected, Recover(selected)
  PROVE  window' \in [Match -> Row] /\ attempt' \in [Key -> AttemptRow]
  <1>1. window' \in [Match -> Row]
    <2>1. \A m \in Match : window[m] \in Row /\ matchStatus[m] \in RawStatus
      BY InvIsTyped
    <2>2. \A m \in Match : Unleased(window[m], "due", Unset) \in Row
      BY <2>1, UnleasedIsRow, DelayIsDue DEF WindowStatus
    <2>3. \A m \in Match :
            Reconciled(Unleased(window[m], "due", Unset), Fact(m, matchStatus[m]), stats[m])
              \in Row
      BY <2>1, <2>2, ReconciledIsRow
    <2> QED BY <2>1, <2>3 DEF Recover
  <1>2. attempt' \in [Key -> AttemptRow]
    <2>1. 0 \in 0 .. MaxAge
      BY RecoveryAssumption DEF MaxAge
    <2>2. ASSUME NEW row \in AttemptRow PROVE Interrupted(row) \in AttemptRow
      BY <2>1 DEF Interrupted, AttemptRow, RegistryStatus, ScrapeStatus
    <2>3. \A k \in Key : attempt[k] \in AttemptRow /\ Interrupted(attempt[k]) \in AttemptRow
      BY <2>2, InvIsTyped
    <2> QED BY <2>3 DEF Recover
  <1> QED BY <1>1, <1>2

LEMMA StartupRecoveryKeeps ==
  ASSUME Inv, NEW p \in Proc, StartupRecovery(p)
  PROVE  Inv'
  <1>1. window' \in [Match -> Row] /\ attempt' \in [Key -> AttemptRow]
    BY RecoverTypes DEF StartupRecovery
  <1>2. process' \in [Proc -> Process]
    BY MoveToType, InvIsTyped DEF StartupRecovery, ProcessState
  <1> QED BY <1>1, <1>2, InvIsTyped, InvIsTypedNext DEF StartupRecovery

LEMMA OperatorRecoveryKeeps ==
  ASSUME Inv, OperatorRecovery
  PROVE  Inv'
  <1>1. window' \in [Match -> Row] /\ attempt' \in [Key -> AttemptRow]
    BY RecoverTypes DEF OperatorRecovery
  <1> QED BY <1>1, InvIsTyped, InvIsTypedNext DEF OperatorRecovery

LEMMA PlannedIsRow ==
  ASSUME Inv, NEW m \in Match, NEW raw \in RawStatus PROVE Planned(m, raw) \in Row
  BY ReconciledIsRow, InvIsTyped DEF Planned

LEMMA StartupReconcileKeeps ==
  ASSUME Inv, NEW p \in Proc, StartupReconcile(p)
  PROVE  Inv'
  <1>1. window' \in [Match -> Row]
    <2>1. \A m \in Match : matchStatus[m] \in RawStatus
      BY InvIsTyped
    <2>2. \A m \in Match : Planned(m, matchStatus[m]) \in Row
      BY <2>1, PlannedIsRow
    <2> QED BY <2>2 DEF StartupReconcile
  <1>2. process' \in [Proc -> Process]
    BY MoveToType, InvIsTyped DEF StartupReconcile, ProcessState
  <1> QED BY <1>1, <1>2, InvIsTyped, InvIsTypedNext DEF StartupReconcile

-----------------------------------------------------------------------------
(* The writers beside the poller, and time.                                    *)

LEMMA AdvanceTypes ==
  ASSUME Inv, NEW m \in Match, NEW d \in Lifecycle, AdvanceStatus(m, d)
  PROVE  window' \in [Match -> Row] /\ matchStatus' \in [Match -> RawStatus]
  <1>1. d \in RawStatus
    BY DEF RawStatus
  <1>2. Planned(m, d) \in Row
    BY <1>1, PlannedIsRow
  <1> QED BY <1>1, <1>2, InvIsTyped DEF AdvanceStatus

LEMMA CollectStatusKeeps ==
  ASSUME Inv, NEW m \in Match, CollectStatus(m)
  PROVE  Inv'
  <1>1. PICK d \in DirectStatus : AdvanceStatus(m, d)
    BY DEF CollectStatus
  <1>2. window' \in [Match -> Row] /\ matchStatus' \in [Match -> RawStatus]
    BY <1>1, AdvanceTypes, InputAssumption
  <1> QED BY <1>2, InvIsTyped, InvIsTypedNext DEF CollectStatus

LEMMA RefreshMetadataKeeps ==
  ASSUME Inv, NEW m \in Match, RefreshMetadata(m)
  PROVE  Inv'
  <1>1. matchStatus' \in [Match -> RawStatus]
    BY InputAssumption, InvIsTyped DEF RefreshMetadata
  <1> QED BY <1>1, InvIsTyped, InvIsTypedNext DEF RefreshMetadata

LEMMA OneShotCollectKeeps ==
  ASSUME Inv, NEW m \in Match, OneShotCollect(m)
  PROVE  Inv'
  <1>1. PICK direct \in DirectStatus \cup {None}, a \in Answers, canonical \in Lifecycle \cup {None} :
          oneShot' = [oneShot EXCEPT ![m] =
            [fetched |-> TRUE, direct |-> direct, result |-> Collected(a, canonical)]]
    BY LaterType DEF OneShotCollect
  <1>2. Collected(a, canonical) \in Results
    BY CollectedType
  <1>3. direct \in Lifecycle \cup {None}
    BY InputAssumption
  <1>4. [fetched |-> TRUE, direct |-> direct, result |-> Collected(a, canonical)] \in OneShot
    BY <1>2, <1>3 DEF OneShot
  <1>5. oneShot' \in [Match -> OneShot]
    BY <1>1, <1>4, InvIsTyped
  <1> QED BY <1>5, InvIsTyped, InvIsTypedNext DEF OneShotCollect

LEMMA OneShotPersistKeeps ==
  ASSUME Inv, NEW m \in Match, OneShotPersist(m)
  PROVE  Inv'
  <1>1. oneShot[m].direct \in Lifecycle \cup {None}
    BY InvIsTyped DEF OneShot
  <1>2. window' \in [Match -> Row] /\ matchStatus' \in [Match -> RawStatus]
    <2>1. CASE oneShot[m].direct # None /\ AdvanceStatus(m, oneShot[m].direct)
      BY <1>1, <2>1, AdvanceTypes
    <2>2. CASE UNCHANGED <<matchStatus, window>>
      BY <2>2, InvIsTyped
    <2> QED BY <2>1, <2>2 DEF OneShotPersist
  <1>3. stats' \in [Match -> Rows]
    <2>1. Upserted(stats[m], oneShot[m].result) \in Rows
      BY UpsertedType, InvIsTyped
    <2> QED BY <2>1, InvIsTyped DEF OneShotPersist
  <1>4. oneShot' \in [Match -> OneShot]
    <2>1. NoOneShot \in OneShot
      BY DEF NoOneShot, OneShot, NoResult, Results, ResultKind
    <2> QED BY <2>1, InvIsTyped DEF OneShotPersist
  <1> QED BY <1>2, <1>3, <1>4, InvIsTyped, InvIsTypedNext DEF OneShotPersist

LEMMA WindowOpensKeeps ==
  ASSUME Inv, NEW m \in Match, WindowOpens(m)
  PROVE  Inv'
  <1>1. opened' \in [Match -> BOOLEAN]
    BY InvIsTyped DEF WindowOpens
  <1> QED BY <1>1, InvIsTyped, InvIsTypedNext DEF WindowOpens

LEMMA TickKeeps ==
  ASSUME Inv, Tick
  PROVE  Inv'
  <1>1. window' \in [Match -> Row]
    <2>1. \A m \in Match : AgedWindow(window[m]) \in Row
      BY AgedIsRow, InvIsTyped
    <2> QED BY <2>1 DEF Tick
  <1>2. attempt' \in [Key -> AttemptRow]
    <2>1. MaxAge \in Nat
      BY RecoveryAssumption DEF MaxAge
    <2>2. ASSUME NEW row \in AttemptRow PROVE AgedAttempt(row) \in AttemptRow
      <3>1. row.age < MaxAge => row.age + 1 \in 0 .. MaxAge
        BY <2>1 DEF AttemptRow
      <3> QED BY <3>1 DEF AgedAttempt, AttemptRow
    <2>3. \A k \in Key : AgedAttempt(attempt[k]) \in AttemptRow
      BY <2>2, InvIsTyped
    <2> QED BY <2>3 DEF Tick
  <1>3. process' \in [Proc -> Process]
    <2>1. ASSUME NEW r \in Process PROVE AgedProcess(r) \in Process
      <3>1. Count(r.pause) \in 0 .. MaxDelay
        BY WindowAssumption DEF Process, Count
      <3>2. r.beat <= Grace => r.beat + 1 \in 0 .. Grace + 1
        BY BoundAssumption DEF Process
      <3> QED BY <3>1, <3>2 DEF AgedProcess, Process
    <2>2. \A p \in Proc : AgedProcess(process[p]) \in Process
      BY <2>1, InvIsTyped
    <2> QED BY <2>2 DEF Tick
  <1> QED BY <1>1, <1>2, <1>3, InvIsTyped, InvIsTypedNext DEF Tick

-----------------------------------------------------------------------------
(* The invariant.                                                              *)

LEMMA InitInv == Init => Inv
  <1> SUFFICES ASSUME Init PROVE Inv
    OBVIOUS
  <1>1. NoWindow \in Row
    <2>1. NoWindow \in WindowRow(Proc)
      BY WindowAssumption
      DEF NoWindow, WindowRow, Unset, NoToken, FinalityState
    <2>2. Consistent(NoWindow)
      BY DEF Consistent, NoWindow, NoToken
    <2> QED BY <2>1, <2>2 DEF Row
  <1>2. NoRows \in Rows
    BY DEF NoRows, Rows, NoRow, Authority
  <1>3. NoAttempt \in AttemptRow
    BY RecoveryAssumption DEF NoAttempt, AttemptRow, RegistryStatus, ScrapeStatus, MaxAge
  <1>4. NewProcess \in Process
    BY BeatTypes DEF NewProcess, Process, ProcessState
  <1>5. NoOneShot \in OneShot
    BY DEF NoOneShot, OneShot, NoResult, Results, ResultKind
  <1>6. matchStatus \in [Match -> RawStatus] /\ opened \in [Match -> BOOLEAN]
    BY InputAssumption DEF Init
  <1> QED BY <1>1, <1>2, <1>3, <1>4, <1>5, <1>6, NoTaskType, InvIsTyped DEF Init

LEMMA NextInv == Inv /\ [Next]_vars => Inv'
  <1> SUFFICES ASSUME Inv, [Next]_vars PROVE Inv'
    OBVIOUS
  <1>1. ASSUME NEW m \in Match, NEW g \in Gens, AttemptStep(m, g)
        PROVE  Inv'
    BY <1>1, ReleaseDisallowedKeeps, StartAttemptKeeps, PersistSkipKeeps, RequestKeeps,
       RespondKeeps, RequestFailsKeeps, CheckpointKeeps, PersistSuccessKeeps,
       PersistFailureKeeps, LaneErrorKeeps DEF AttemptStep
  <1>2. ASSUME NEW p \in Proc, ProcessStep(p)
        PROVE  Inv'
    BY <1>2, MovesKeep, NotesKeep, ClaimDueKeeps, CrashKeeps, StartupRecoveryKeeps,
       StartupReconcileKeeps DEF ProcessStep
  <1>3. ASSUME NEW m \in Match, WriterStep(m)
        PROVE  Inv'
    BY <1>3, CollectStatusKeeps, RefreshMetadataKeeps, OneShotCollectKeeps,
       OneShotPersistKeeps, WindowOpensKeeps DEF WriterStep
  <1>4. CASE UNCHANGED vars
    BY <1>4, InvIsTyped, InvIsTypedNext DEF vars
  <1> QED BY <1>1, <1>2, <1>3, <1>4, OperatorRecoveryKeeps, TickKeeps DEF Next

\* Every stored row, task and process keeps its type.
THEOREM TypeCorrect == Spec => []TypeOK
  <1>1. Inv => TypeOK
    BY DEF Inv
  <1> QED BY <1>1, InitInv, NextInv, PTL DEF Spec

\* A leased window names the newest generation as its token and somebody as its owner,
\* any other window names neither, through claims, commits, recovery and replanning.
THEOREM LeasesConsistent == Spec => []LeaseConsistent
  <1>1. Inv => LeaseConsistent
    BY DEF Inv
  <1> QED BY <1>1, InitInv, NextInv, PTL DEF Spec

-----------------------------------------------------------------------------
(* Fencing.                                                                    *)

\* An attempt closed without a commit leaves every attempt's commit as it was, or
\* takes this one's away.
LEMMA ClosedUncommitted ==
  ASSUME Inv, NEW m \in Match, NEW g \in Gens, NEW r, NEW s,
         attempt' = Closed(m, g, r, s, FALSE), NEW n \in Match, NEW h \in Gens
  PROVE  ~Commits(n, h)
  <1>1. attempt \in [Key -> AttemptRow]
    BY InvIsTyped
  <1>2. CASE <<n, h>> = <<m, g>>
    <2>1. attempt'[<<n, h>>] = [attempt[<<m, g>>] EXCEPT !.registry = r, !.scrape = s,
                                                     !.committed = FALSE, !.age = 0]
      BY <1>1, <1>2 DEF Closed
    <2>2. attempt[<<m, g>>] \in AttemptRow
      BY <1>1
    <2>3. ~attempt'[<<n, h>>].committed
      BY <2>1, <2>2 DEF AttemptRow
    <2> QED BY <2>3 DEF Commits
  <1>3. CASE <<n, h>> # <<m, g>>
    BY <1>1, <1>3 DEF Closed, Commits
  <1> QED BY <1>2, <1>3

LEMMA CommitsOnlyOwn ==
  ASSUME Inv, NEW m \in Match, NEW g \in Gens, Commit(m, g),
         NEW n \in Match, NEW h \in Gens, Commits(n, h)
  PROVE  n = m /\ h = g
  <1>1. attempt' = Closed(m, g, "succeeded", ScrapeOutcome(task[<<m, g>>].result.kind), TRUE)
    BY DEF Commit
  <1>2. attempt \in [Key -> AttemptRow]
    BY InvIsTyped
  <1>3. CASE <<n, h>> # <<m, g>>
    BY <1>1, <1>2, <1>3 DEF Closed, Commits
  <1> QED BY <1>3

\* Only the final transaction of an attempt that still owns its window commits.
LEMMA AttemptCommitOwned ==
  ASSUME Inv, NEW m \in Match, NEW g \in Gens, AttemptStep(m, g),
         NEW n \in Match, NEW h \in Gens, Commits(n, h)
  PROVE  Owned(n, h)
  <1>1. CASE UNCHANGED attempt
    BY <1>1 DEF Commits
  <1>2. CASE StartAttempt(m, g) /\ attempt' # attempt
    <2>1. attempt' = [attempt EXCEPT ![<<m, g>>] =
            [registry |-> "running", scrape |-> "running", committed |-> FALSE,
             proc |-> task[<<m, g>>].proc, age |-> 0]]
      BY <1>2 DEF StartAttempt
    <2>2. CASE <<n, h>> = <<m, g>>
      <3>1. ~attempt'[<<m, g>>].committed
        BY <2>1, InvIsTyped
      <3>2. ~attempt'[<<n, h>>].committed
        BY <2>2, <3>1
      <3> QED BY <3>2 DEF Commits
    <2>3. CASE <<n, h>> # <<m, g>>
      BY <2>1, <2>3, InvIsTyped DEF Commits
    <2> QED BY <2>2, <2>3
  <1>3. CASE \E r, s : attempt' = Closed(m, g, r, s, FALSE)
    BY <1>3, ClosedUncommitted
  <1>4. CASE Owned(m, g) /\ Commit(m, g)
    BY <1>4, CommitsOnlyOwn
  <1>5. CASE ReleaseDisallowed(m, g) \/ Request(m, g) \/ Respond(m, g) \/ RequestFails(m, g)
               \/ Checkpoint(m, g) \/ LaneError(m, g)
    BY <1>1, <1>5 DEF ReleaseDisallowed, Request, Respond, RequestFails, Checkpoint, LaneError
  <1>6. CASE PersistSkip(m, g)
    BY <1>1, <1>3, <1>6 DEF PersistSkip, LostLease
  <1>7. CASE PersistSuccess(m, g)
    BY <1>1, <1>3, <1>4, <1>7 DEF PersistSuccess, LostLease
  <1>8. CASE PersistFailure(m, g)
    BY <1>1, <1>3, <1>8 DEF PersistFailure, LostLease
  <1> QED BY <1>1, <1>2, <1>5, <1>6, <1>7, <1>8 DEF AttemptStep

\* Recovery interrupts and time ages: neither commits.
LEMMA RecoverCommitsNothing ==
  ASSUME Inv, NEW selected, Recover(selected), NEW n \in Match, NEW h \in Gens
  PROVE  ~Commits(n, h)
  <1>1. attempt[<<n, h>>] \in AttemptRow
    BY InvIsTyped
  <1>2. attempt'[<<n, h>>] \in {attempt[<<n, h>>], Interrupted(attempt[<<n, h>>])}
    BY DEF Recover
  <1>3. Interrupted(attempt[<<n, h>>]).committed = attempt[<<n, h>>].committed
    BY <1>1 DEF Interrupted, AttemptRow
  <1> QED BY <1>2, <1>3 DEF Commits

LEMMA TickCommitsNothing ==
  ASSUME Inv, Tick, NEW n \in Match, NEW h \in Gens
  PROVE  ~Commits(n, h)
  <1>1. attempt[<<n, h>>] \in AttemptRow
    BY InvIsTyped
  <1>2. attempt'[<<n, h>>] = AgedAttempt(attempt[<<n, h>>])
    BY DEF Tick
  <1>3. AgedAttempt(attempt[<<n, h>>]).committed = attempt[<<n, h>>].committed
    BY <1>1 DEF AgedAttempt, AttemptRow
  <1> QED BY <1>2, <1>3 DEF Commits

LEMMA CommitOwned ==
  ASSUME Inv, [Next]_vars, NEW n \in Match, NEW h \in Gens, Commits(n, h)
  PROVE  Owned(n, h)
  <1>1. CASE UNCHANGED attempt
    BY <1>1 DEF Commits
  <1>2. ASSUME NEW m \in Match, NEW g \in Gens, AttemptStep(m, g)
        PROVE  Owned(n, h)
    BY <1>2, AttemptCommitOwned
  <1>3. ASSUME NEW p \in Proc, ProcessStep(p)
        PROVE  Owned(n, h)
    <2>1. CASE StartupRecovery(p)
      BY <2>1, RecoverCommitsNothing DEF StartupRecovery
    <2>2. CASE ~StartupRecovery(p)
      BY <1>1, <1>3, <2>2
      DEF ProcessStep, EstablishInstance, StartupReconcile, WakeUp, ClaimDue, ClaimNothing,
          BeginShutdown, WorkerClosed, SchedulerShutdown, MarkGracefulShutdown, DrainLane,
          Exit, Crash
    <2> QED BY <2>1, <2>2
  <1>4. ASSUME NEW m \in Match, WriterStep(m)
        PROVE  Owned(n, h)
    BY <1>1, <1>4 DEF WriterStep, CollectStatus, RefreshMetadata, OneShotCollect,
                      OneShotPersist, WindowOpens
  <1>5. CASE OperatorRecovery
    BY <1>5, RecoverCommitsNothing DEF OperatorRecovery
  <1>6. CASE Tick
    BY <1>6, TickCommitsNothing
  <1>7. CASE UNCHANGED vars
    BY <1>1, <1>7 DEF vars
  <1> QED BY <1>2, <1>3, <1>4, <1>5, <1>6, <1>7 DEF Next

\* However late its answer, an attempt commits only under the newest generation of its
\* window: the token it compares is the newest one whenever there is one.
THEOREM NewestCommits == Spec => OnlyNewestCommits
  <1>1. ASSUME Inv, [Next]_vars, NEW n \in Match, NEW h \in Gens, Commits(n, h)
        PROVE  h = window[n].gen
    <2>1. window[n].token = h
      BY <1>1, CommitOwned DEF Owned
    <2>2. h # NoToken
      BY DEF Gens, NoToken
    <2>3. Consistent(window[n])
      BY <1>1 DEF Inv, LeaseConsistent
    <2> QED BY <2>1, <2>2, <2>3 DEF Consistent
  <1>2. Inv /\ [Next]_vars =>
          [\A m \in Match, g \in Gens : Commits(m, g) => g = window[m].gen]_vars
    BY <1>1
  <1> QED BY <1>2, InitInv, NextInv, PTL DEF Spec, OnlyNewestCommits
=============================================================================
