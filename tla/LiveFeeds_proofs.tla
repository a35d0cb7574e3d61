--------------------------- MODULE LiveFeeds_proofs ---------------------------
(* What the live collectors store, for any players, matches, answers, status    *)
(* changes, faults and crashes.                                                 *)
EXTENDS LiveFeeds, Counting_proofs, TLAPS

-----------------------------------------------------------------------------
(* The newest row of a set of rows.                                             *)
LEMMA LatestIs ==
  ASSUME NEW N \in Nat, NEW S, S \subseteq 1 .. N, S # {}
  PROVE  Latest(S) \in S /\ \A j \in S : j <= Latest(S)
  <1> DEFINE bounded == {n \in Nat : (\A j \in S : n < j)
                                      \/ \E i \in S : \A j \in S : j <= n => j <= i}
  <1>1. 0 \in bounded
    OBVIOUS
  <1>2. ASSUME NEW n \in 1 .. N, n - 1 \in bounded PROVE n \in bounded
    <2>1. CASE n \in S
      <3>1. \A j \in S : j <= n => j <= n
        OBVIOUS
      <3> QED BY <2>1, <3>1
    <2>2. CASE n \notin S
      <3>1. \A j \in S : (j <= n <=> j <= n - 1) /\ (n < j <=> n - 1 < j)
        BY <2>2
      <3> QED BY <1>2, <3>1
    <2> QED BY <2>1, <2>2
  <1> HIDE DEF bounded
  <1>3. N \in bounded
    BY <1>1, <1>2, UpTo
  <1>4. \A j \in S : j <= N /\ ~(N < j)
    OBVIOUS
  <1>5. \E i \in S : \A j \in S : j <= i
    BY <1>3, <1>4 DEF bounded
  <1> QED BY <1>5 DEF Latest

-----------------------------------------------------------------------------
(* Interchange: the history of a player against the row.                        *)
BenchEvents == {"appeared", "count_changed", "disappeared"}

Told(history, onBench) ==
  /\ history \in Seq(BenchEvents) /\ onBench \in BOOLEAN
  /\ \A i \in 1 .. Len(history) : history[i] = "appeared" <=> ~ OnBenchAfter(history, i - 1)
  /\ onBench <=> OnBenchAfter(history, Len(history))

BenchTold ==
  /\ interchange.history \in [Players -> Seq(BenchEvents)]
  /\ \A p \in Players : Told(interchange.history[p], interchange.state[p].onBench)

LEMMA OneMore ==
  ASSUME NEW history \in Seq(BenchEvents), NEW e \in BenchEvents
  PROVE  LET longer == Append(history, e)
         IN /\ longer \in Seq(BenchEvents) /\ Len(longer) = Len(history) + 1
            /\ longer[Len(history) + 1] = e
            /\ \A i \in 1 .. Len(history) : longer[i] = history[i]
            /\ \A n \in 0 .. Len(history) : OnBenchAfter(longer, n) <=> OnBenchAfter(history, n)
            /\ OnBenchAfter(longer, Len(history) + 1)
                 <=> e = "appeared" \/ (e # "disappeared" /\ OnBenchAfter(history, Len(history)))
  <1>1. PICK longer, n : longer = Append(history, e) /\ n = Len(history)
    OBVIOUS
  <1>2. /\ longer \in Seq(BenchEvents) /\ Len(longer) = n + 1 /\ n \in Nat /\ longer[n + 1] = e
        /\ \A i \in 1 .. n : longer[i] = history[i]
    BY <1>1
  <1>3. ASSUME NEW k \in 0 .. n PROVE OnBenchAfter(longer, k) <=> OnBenchAfter(history, k)
    <2>1. \A i \in 1 .. k : i \in 1 .. n /\ longer[i] = history[i]
      BY <1>2
    <2>2. \A i \in 1 .. k : \A j \in i + 1 .. k : longer[j] = history[j]
      BY <2>1
    <2> QED BY <2>1, <2>2 DEF OnBenchAfter
  <1>4. OnBenchAfter(longer, n + 1)
          <=> e = "appeared" \/ (e # "disappeared" /\ OnBenchAfter(longer, n))
    <2>1. ASSUME OnBenchAfter(longer, n + 1), e # "appeared"
          PROVE  e # "disappeared" /\ OnBenchAfter(longer, n)
      <3>1. PICK i \in 1 .. n + 1 : /\ longer[i] = "appeared"
                                    /\ \A j \in i + 1 .. n + 1 : longer[j] # "disappeared"
        BY <2>1 DEF OnBenchAfter
      <3>2. i \in 1 .. n
        BY <1>2, <2>1, <3>1
      <3>3. n + 1 \in i + 1 .. n + 1 /\ \A j \in i + 1 .. n : j \in i + 1 .. n + 1
        BY <1>2, <3>2
      <3> QED BY <1>2, <3>1, <3>2, <3>3 DEF OnBenchAfter
    <2>2. ASSUME e = "appeared" PROVE OnBenchAfter(longer, n + 1)
      <3>1. n + 1 \in 1 .. n + 1 /\ (n + 1) + 1 .. n + 1 = {}
        BY <1>2
      <3> QED BY <1>2, <2>2, <3>1 DEF OnBenchAfter
    <2>3. ASSUME e # "disappeared", OnBenchAfter(longer, n) PROVE OnBenchAfter(longer, n + 1)
      <3>1. PICK i \in 1 .. n : /\ longer[i] = "appeared"
                                /\ \A j \in i + 1 .. n : longer[j] # "disappeared"
        BY <2>3 DEF OnBenchAfter
      <3>2. i \in 1 .. n + 1 /\ \A j \in i + 1 .. n + 1 : j = n + 1 \/ j \in i + 1 .. n
        BY <1>2
      <3> QED BY <1>2, <2>3, <3>1, <3>2 DEF OnBenchAfter
    <2> QED BY <2>1, <2>2, <2>3
  <1>5. n \in 0 .. n
    BY <1>2
  <1> QED BY <1>1, <1>2, <1>3, <1>4, <1>5

LEMMA ToldOnceMore ==
  ASSUME NEW history, NEW onBench, Told(history, onBench), NEW e \in BenchEvents,
         e = "appeared" <=> ~onBench, NEW after \in BOOLEAN, after <=> e # "disappeared"
  PROVE  Told(Append(history, e), after)
  <1>1. PICK longer, n : longer = Append(history, e) /\ n = Len(history)
    OBVIOUS
  <1>2. history \in Seq(BenchEvents) /\ onBench \in BOOLEAN /\ n \in Nat
    BY <1>1 DEF Told
  <1>3. /\ longer \in Seq(BenchEvents) /\ Len(longer) = n + 1 /\ longer[n + 1] = e
        /\ \A i \in 1 .. n : longer[i] = history[i]
        /\ \A k \in 0 .. n : OnBenchAfter(longer, k) <=> OnBenchAfter(history, k)
        /\ OnBenchAfter(longer, n + 1)
             <=> e = "appeared" \/ (e # "disappeared" /\ OnBenchAfter(history, n))
    BY <1>1, <1>2, OneMore
  <1>4. onBench <=> OnBenchAfter(history, n)
    BY <1>1 DEF Told
  <1>5. after <=> OnBenchAfter(longer, n + 1)
    BY <1>2, <1>3, <1>4 DEF BenchEvents
  <1>6. ASSUME NEW i \in 1 .. n + 1 PROVE longer[i] = "appeared" <=> ~OnBenchAfter(longer, i - 1)
    <2>1. CASE i = n + 1
      <3>1. i - 1 = n /\ n \in 0 .. n
        BY <1>2, <2>1
      <3> QED BY <1>3, <1>4, <2>1, <3>1
    <2>2. CASE i # n + 1
      <3>1. i \in 1 .. n /\ i - 1 \in 0 .. n
        BY <1>2, <2>2
      <3>2. history[i] = "appeared" <=> ~OnBenchAfter(history, i - 1)
        BY <1>1, <3>1 DEF Told
      <3> QED BY <1>3, <3>1, <3>2
    <2> QED BY <2>1, <2>2
  <1> QED BY <1>1, <1>3, <1>5, <1>6 DEF Told

LEMMA PollTold ==
  ASSUME BenchTold, NEW answer, NEW status,
         interchange' = PersistInterchange(interchange, answer, status)
  PROVE  BenchTold'
  <1>1. PICK before, after, history, longer :
          /\ before = interchange.state /\ after = StateAfter(before, answer)
          /\ history = interchange.history
          /\ longer = [p \in Players |-> history[p] \o Transition(before, answer, p)]
    OBVIOUS
  <1>2. interchange'.state = after /\ interchange'.history = longer
    BY <1>1 DEF PersistInterchange
  <1>3. ASSUME NEW p \in Players
        PROVE  longer[p] \in Seq(BenchEvents) /\ Told(longer[p], after[p].onBench)
    <2>1. /\ Told(history[p], before[p].onBench) /\ history[p] \in Seq(BenchEvents)
          /\ before[p].onBench \in BOOLEAN
      BY <1>1 DEF BenchTold, Told
    <2>2. /\ longer[p] = history[p] \o Transition(before, answer, p)
          /\ after[p] = IF p \in DOMAIN answer.listed
                        THEN [onBench |-> TRUE, count |-> answer.listed[p]]
                        ELSE [onBench |-> before[p].onBench /\ p \notin Departed(before, answer),
                              count   |-> before[p].count]
      BY <1>1 DEF StateAfter
    <2>3. CASE Transition(before, answer, p) = << >>
      <3>1. longer[p] = history[p]
        BY <2>1, <2>2, <2>3
      <3>2. CASE p \in DOMAIN answer.listed
        <4>1. before[p].onBench
          BY <2>3, <3>2 DEF Transition
        <4>2. after[p].onBench = TRUE /\ before[p].onBench = TRUE
          BY <2>1, <2>2, <3>2, <4>1
        <4> QED BY <2>1, <3>1, <4>2
      <3>3. CASE p \notin DOMAIN answer.listed
        <4>1. p \notin Departed(before, answer)
          BY <2>3, <3>3 DEF Transition
        <4>2. after[p].onBench = (before[p].onBench /\ p \notin Departed(before, answer))
          BY <2>2, <3>3
        <4>3. after[p].onBench = before[p].onBench
          BY <2>1, <4>1, <4>2
        <4> QED BY <2>1, <3>1, <4>3
      <3> QED BY <3>2, <3>3
    <2>4. ASSUME NEW e \in BenchEvents, Transition(before, answer, p) = <<e>>,
                 e = "appeared" <=> ~before[p].onBench,
                 after[p].onBench \in BOOLEAN, after[p].onBench <=> e # "disappeared"
          PROVE  Told(longer[p], after[p].onBench)
      <3>1. longer[p] = Append(history[p], e)
        BY <2>1, <2>2, <2>4
      <3> QED BY <2>1, <2>4, <3>1, ToldOnceMore
    <2>5. CASE Transition(before, answer, p) # << >>
      <3>1. CASE p \in DOMAIN answer.listed /\ ~before[p].onBench
        <4>1. Transition(before, answer, p) = <<"appeared">> /\ after[p].onBench = TRUE
          BY <2>2, <3>1 DEF Transition
        <4> QED BY <2>4, <3>1, <4>1 DEF BenchEvents, Told
      <3>2. CASE p \in DOMAIN answer.listed /\ before[p].onBench
        <4>1. Transition(before, answer, p) = <<"count_changed">> /\ after[p].onBench = TRUE
          BY <2>2, <2>5, <3>2 DEF Transition
        <4> QED BY <2>4, <3>2, <4>1 DEF BenchEvents, Told
      <3>3. CASE p \notin DOMAIN answer.listed
        <4>1. p \in Departed(before, answer) /\ Transition(before, answer, p) = <<"disappeared">>
          BY <2>5, <3>3 DEF Transition
        <4>2. after[p].onBench = (before[p].onBench /\ p \notin Departed(before, answer))
          BY <2>2, <3>3
        <4>3. before[p].onBench
          BY <4>1 DEF Departed
        <4>4. after[p].onBench = FALSE
          BY <4>1, <4>2
        <4> QED BY <2>4, <4>1, <4>3, <4>4 DEF BenchEvents, Told
      <3> QED BY <2>1, <3>1, <3>2, <3>3
    <2> QED BY <2>3, <2>5 DEF Told
  <1>4. longer \in [Players -> Seq(BenchEvents)]
    BY <1>1, <1>3
  <1> QED BY <1>2, <1>3, <1>4 DEF BenchTold

-----------------------------------------------------------------------------
(* The collectors.                                                              *)
LEMMA OnlyPersistStores == Next => Persist \/ UNCHANGED tables
  BY DEF Next, Collect, Select, Ask, AskFails, Persist, PersistFails, Crash, Restart, RefreshStatus,
         Identify, KickOff, Siren, Conclude, Rotate, Commentate, Revise, Tick

LEMMA FeedStays == Next => feed' = feed
  BY DEF Next, Collect, Select, Ask, AskFails, Persist, PersistFails, Crash, Restart, RefreshStatus,
         Identify, KickOff, Siren, Conclude, Rotate, Commentate, Revise, Tick

FeedChosen == feed \in Feeds

LEMMA PersistByFeed ==
  ASSUME FeedChosen, Persist
  PROVE  /\ cycle.step = "asked" /\ cycle' = IdleCycle /\ UNCHANGED <<feed, up, clock, real, local, upstream, identities, faults>>
         /\ \/ /\ feed = "interchange" /\ UNCHANGED <<commentary, rosters>>
               /\ \/ cycle.ok /\ interchange' = PersistInterchange(interchange, cycle.answer, local)
                  \/ ~cycle.ok /\ interchange' = Unanswered(interchange, local)
            \/ /\ feed = "commentary" /\ UNCHANGED <<interchange, rosters>>
               /\ \/ cycle.ok /\ commentary' = PersistFeed(commentary, cycle.answer, local, now)
                  \/ ~cycle.ok /\ commentary' = PersistOutcome(commentary, local, now)
            \/ /\ feed = "roster" /\ UNCHANGED <<interchange, commentary>>
               /\ \/ /\ cycle.ok /\ cycle.answer.kind = "published"
                     /\ rosters'.rows = RosterAfter(rosters.rows, cycle.answer, known, links)
                  \/ rosters'.rows = rosters.rows
  <1>1. /\ cycle.step = "asked" /\ cycle' = IdleCycle /\ PersistTables
        /\ UNCHANGED <<feed, up, clock, real, local, upstream, identities, faults>>
    BY DEF Persist
  <1>2. CASE feed = "interchange"
    BY <1>1, <1>2 DEF PersistTables
  <1>3. CASE feed = "commentary"
    BY <1>1, <1>3 DEF PersistTables
  <1>4. CASE feed = "roster"
    BY <1>1, <1>4 DEF PersistTables
  <1> QED BY <1>2, <1>3, <1>4 DEF FeedChosen, Feeds

HistoryInv == FeedChosen /\ BenchTold

LEMMA HistorySteps == HistoryInv /\ [Next]_vars => HistoryInv'
  <1> SUFFICES ASSUME HistoryInv, [Next]_vars PROVE HistoryInv'
    OBVIOUS
  <1>1. feed' = feed
    BY FeedStays DEF vars
  <1>2. CASE interchange' = interchange
    BY <1>1, <1>2 DEF HistoryInv, FeedChosen, BenchTold
  <1>3. CASE Persist /\ interchange' # interchange
    <2>1. \/ interchange' = PersistInterchange(interchange, cycle.answer, local)
          \/ interchange' = Unanswered(interchange, local)
      BY <1>3, PersistByFeed DEF HistoryInv
    <2>2. CASE interchange' = Unanswered(interchange, local)
      <3>1. interchange'.state = interchange.state /\ interchange'.history = interchange.history
        BY <2>2 DEF Unanswered
      <3> QED BY <1>1, <3>1 DEF HistoryInv, FeedChosen, BenchTold
    <2>3. CASE interchange' = PersistInterchange(interchange, cycle.answer, local)
      BY <1>1, <2>3, PollTold DEF HistoryInv, FeedChosen
    <2> QED BY <2>1, <2>2, <2>3
  <1> QED BY <1>2, <1>3, OnlyPersistStores DEF vars, tables

LEMMA HistoryStarts == Init => HistoryInv
  <1> SUFFICES ASSUME Init PROVE HistoryInv
    OBVIOUS
  <1>1. FeedChosen
    BY EnabledAssumption DEF Init, FeedChosen
  <1>2. interchange.history = [p \in Players |-> << >>] /\ interchange.state = [p \in Players |-> NoState]
    BY DEF Init
  <1>3. \A p \in Players : interchange.history[p] = << >> /\ interchange.state[p].onBench = FALSE
    BY <1>2 DEF NoState
  <1>4. << >> \in Seq(BenchEvents) /\ Len(<< >>) = 0
    OBVIOUS
  <1>5. ~ OnBenchAfter(<< >>, 0)
    BY DEF OnBenchAfter
  <1>6. Told(<< >>, FALSE)
    BY <1>4, <1>5 DEF Told
  <1>7. interchange.history \in [Players -> Seq(BenchEvents)]
    BY <1>2, <1>4
  <1> QED BY <1>1, <1>3, <1>6, <1>7 DEF HistoryInv, BenchTold

LEMMA ToldIsMatched == HistoryInv => HistoryMatchesState
  <1> SUFFICES ASSUME HistoryInv, NEW p \in Players
               PROVE  LET history == interchange.history[p]
                      IN /\ \A i \in DOMAIN history :
                              history[i] = "appeared" <=> ~ OnBenchAfter(history, i - 1)
                         /\ interchange.state[p].onBench <=> OnBenchAfter(history, Len(history))
    BY DEF HistoryMatchesState
  <1>1. Told(interchange.history[p], interchange.state[p].onBench)
    BY DEF HistoryInv, BenchTold
  <1>2. DOMAIN interchange.history[p] = 1 .. Len(interchange.history[p])
    BY <1>1 DEF Told
  <1> QED BY <1>1, <1>2 DEF Told

\* For any players and any bench: whatever polls fail or are garbled, the stored moves of
\* a player tell the state of the row (persist_match_interchange).
THEOREM HistoryTellsState == Spec => []HistoryMatchesState
  BY HistoryStarts, HistorySteps, ToldIsMatched, PTL DEF Spec

-----------------------------------------------------------------------------
(* Departures.  What was read of a side whole lists everyone on the bench.      *)
AnswerObserved ==
  feed = "interchange" /\ cycle.ok
    => \A p \in cycle.seated : SideOf[p] \in cycle.answer.complete => p \in DOMAIN cycle.answer.listed

LEMMA ArrivalsObserved ==
  ASSUME NEW a \in Arrivals(bench), NEW p \in DOMAIN bench, SideOf[p] \in a.complete
  PROVE  p \in DOMAIN a.listed
  <1>1. PICK sides \in SUBSET Sides, lost \in {l \in SUBSET DOMAIN bench : Cardinality(l) <= 1} :
          a = Listing([q \in {r \in DOMAIN bench : SideOf[r] \in sides} \ lost |-> bench[q]],
                      sides, {s \in sides : \A q \in lost : SideOf[q] # s})
    <2> DEFINE Form(sides, lost) ==
                 Listing([q \in {r \in DOMAIN bench : SideOf[r] \in sides} \ lost |-> bench[q]],
                         sides, {s \in sides : \A q \in lost : SideOf[q] # s})
    <2>1. Arrivals(bench) = {Form(sides, lost) : sides \in SUBSET Sides,
                               lost \in {l \in SUBSET DOMAIN bench : Cardinality(l) <= 1}}
      BY DEF Arrivals
    <2> HIDE DEF Form
    <2>2. \E sides \in SUBSET Sides, lost \in {l \in SUBSET DOMAIN bench : Cardinality(l) <= 1} :
            a = Form(sides, lost)
      BY <2>1
    <2> QED BY <2>2 DEF Form
  <1>2. /\ a.complete = {s \in sides : \A q \in lost : SideOf[q] # s}
        /\ DOMAIN a.listed = {r \in DOMAIN bench : SideOf[r] \in sides} \ lost
    BY <1>1 DEF Listing
  <1> QED BY <1>2

LEMMA ObservedSteps == FeedChosen /\ AnswerObserved /\ [Next]_vars => AnswerObserved'
  <1> SUFFICES ASSUME FeedChosen, AnswerObserved, [Next]_vars PROVE AnswerObserved'
    OBVIOUS
  <1>1. feed' = feed
    BY FeedStays DEF vars
  <1>2. CASE cycle' = cycle
    BY <1>1, <1>2 DEF AnswerObserved
  <1>3. CASE cycle'.ok = FALSE
    BY <1>3 DEF AnswerObserved
  <1>4. CASE Ask
    <2> SUFFICES ASSUME feed = "interchange", NEW p \in cycle'.seated,
                        SideOf[p] \in cycle'.answer.complete
                 PROVE  p \in DOMAIN cycle'.answer.listed
      BY <1>1 DEF AnswerObserved
    <2>1. PICK a \in Arrivals(bench) :
            cycle' = [step |-> "asked", ok |-> TRUE, answer |-> a, seated |-> DOMAIN bench]
      BY <1>4 DEF Ask, AnswersNow
    <2> QED BY <2>1, ArrivalsObserved
  <1>5. IdleCycle.ok = FALSE /\ \A s : [IdleCycle EXCEPT !.step = s].ok = FALSE
    BY DEF IdleCycle
  <1>6. Next => cycle' = cycle \/ cycle'.ok = FALSE \/ Ask
    BY <1>5 DEF Next, Collect, Select, AskFails, Persist, PersistFails, Crash, Restart,
                RefreshStatus, Identify, KickOff, Siren, Conclude, Rotate, Commentate, Revise, Tick
  <1> QED BY <1>2, <1>3, <1>4, <1>6 DEF vars

LEMMA DepartureStep ==
  ASSUME HistoryInv, AnswerObserved, Next, NEW p \in Players,
         interchange.state[p].onBench, ~interchange'.state[p].onBench
  PROVE  p \notin cycle.seated
  <1>1. Persist
    BY OnlyPersistStores DEF tables
  <1>2. interchange' # Unanswered(interchange, local)
    BY DEF Unanswered
  <1>3. /\ feed = "interchange" /\ cycle.ok
        /\ interchange' = PersistInterchange(interchange, cycle.answer, local)
    BY <1>1, <1>2, PersistByFeed DEF HistoryInv
  <1>4. interchange'.state[p]
          = IF p \in DOMAIN cycle.answer.listed
            THEN [onBench |-> TRUE, count |-> cycle.answer.listed[p]]
            ELSE [onBench |-> interchange.state[p].onBench
                                /\ p \notin Departed(interchange.state, cycle.answer),
                  count   |-> interchange.state[p].count]
    BY <1>3 DEF PersistInterchange, StateAfter
  <1>5. p \notin DOMAIN cycle.answer.listed
    BY <1>4
  <1>6. p \in Departed(interchange.state, cycle.answer)
    <2>1. interchange'.state[p].onBench
            = (interchange.state[p].onBench /\ p \notin Departed(interchange.state, cycle.answer))
      BY <1>4, <1>5
    <2> QED BY <2>1
  <1>7. SideOf[p] \in cycle.answer.complete
    BY <1>6 DEF Departed
  <1> QED BY <1>3, <1>5, <1>7 DEF AnswerObserved

\* For any bench and any answers: a departure is stored only for a player who was not on
\* the bench when the answer was given (persist_match_interchange).
THEOREM DeparturesAreReal == Spec => DeparturesObserved
  <1>1. Init => HistoryInv /\ AnswerObserved
    <2>1. Init => AnswerObserved
      BY DEF Init, AnswerObserved, IdleCycle
    <2> QED BY <2>1, HistoryStarts
  <1>2. HistoryInv /\ AnswerObserved /\ [Next]_vars => (HistoryInv /\ AnswerObserved)'
    BY HistorySteps, ObservedSteps DEF HistoryInv
  <1>3. HistoryInv /\ AnswerObserved /\ [Next]_vars
          => [\A p \in Players :
                interchange.state[p].onBench /\ ~ interchange'.state[p].onBench
                => p \notin cycle.seated]_vars
    BY DepartureStep
  <1> QED BY <1>1, <1>2, <1>3, PTL DEF Spec, DeparturesObserved

-----------------------------------------------------------------------------
(* The reconciliation poll.  Once a poll is stored as POSTGAME, the match is    *)
(* over for good and no cycle begins.                                           *)
Over == {"POSTGAME", "CONCLUDED"}

PollsTyped ==
  /\ FeedChosen /\ interchange.polls \in Seq(Status) /\ local \in Status /\ real \in Status
  /\ local = "POSTGAME" => real \in Over

SettledAfter ==
  /\ feed # "interchange" => interchange.polls = << >>
  /\ \A i \in 1 .. Len(interchange.polls) :
        interchange.polls[i] = "POSTGAME"
        => i = Len(interchange.polls) /\ local \in Over /\ real \in Over /\ cycle.step = "idle"

ReconciliationInv == PollsTyped /\ SettledAfter

LEMMA ReconciliationStarts == Init => ReconciliationInv
  <1> SUFFICES ASSUME Init PROVE ReconciliationInv
    OBVIOUS
  <1>1. FeedChosen
    BY EnabledAssumption DEF Init, FeedChosen
  <1>2. interchange.polls = << >> /\ local = "SCHEDULED" /\ real = "SCHEDULED"
    BY DEF Init
  <1>3. << >> \in Seq(Status) /\ Len(<< >>) = 0
    OBVIOUS
  <1> QED BY <1>1, <1>2, <1>3 DEF ReconciliationInv, PollsTyped, SettledAfter, Status

\* The status upstream only goes on, and what is stored of it follows.
LEMMA StatusMoves ==
  ASSUME PollsTyped, Next
  PROVE  /\ local' \in Status /\ real' \in Status /\ (local' = "POSTGAME" => real' \in Over)
         /\ (real \in Over => real' \in Over) /\ (local \in Over /\ real \in Over => local' \in Over)
  <1>1. CASE RefreshStatus
    BY <1>1 DEF RefreshStatus, PollsTyped, Over, Status
  <1>2. CASE KickOff \/ Siren \/ Conclude
    BY <1>2 DEF KickOff, Siren, Conclude, PollsTyped, Over, Status
  <1>3. CASE UNCHANGED <<local, real>>
    BY <1>3 DEF PollsTyped, Over, Status
  <1> QED BY <1>1, <1>2, <1>3 DEF Next, Collect, Select, Ask, AskFails, Persist, PersistFails, Crash,
             Restart, Identify, Rotate, Commentate, Revise, Tick

LEMMA IdleStays ==
  ASSUME Next, cycle.step = "idle", ~Select, ~Persist
  PROVE  cycle'.step = "idle"
  BY DEF Next, Collect, Ask, AskFails, PersistFails, Crash, Restart, RefreshStatus, IdleCycle,
         Identify, KickOff, Siren, Conclude, Rotate, Commentate, Revise, Tick

LEMMA ReconciliationSteps == ReconciliationInv /\ [Next]_vars => ReconciliationInv'
  <1>1. ASSUME ReconciliationInv, UNCHANGED vars PROVE ReconciliationInv'
    BY <1>1 DEF ReconciliationInv, PollsTyped, SettledAfter, FeedChosen, vars, tables
  <1> SUFFICES ASSUME ReconciliationInv, Next PROVE ReconciliationInv'
    BY <1>1
  <1>2. PollsTyped /\ SettledAfter /\ feed' = feed
    BY FeedStays DEF ReconciliationInv
  <1>3. /\ local' \in Status /\ real' \in Status /\ (local' = "POSTGAME" => real' \in Over)
        /\ (real \in Over => real' \in Over) /\ (local \in Over /\ real \in Over => local' \in Over)
    BY <1>2, StatusMoves
  <1>4. ASSUME NEW polls, polls = interchange'.polls, polls = interchange.polls, ~Persist
        PROVE  ReconciliationInv'
    <2>1. PollsTyped'
      BY <1>2, <1>3, <1>4 DEF PollsTyped, FeedChosen
    <2>2. ASSUME NEW i \in 1 .. Len(polls), polls[i] = "POSTGAME"
          PROVE  i = Len(polls) /\ local' \in Over /\ real' \in Over /\ cycle'.step = "idle"
      <3>1. i = Len(polls) /\ local \in Over /\ real \in Over /\ cycle.step = "idle"
        BY <1>2, <1>4, <2>2 DEF SettledAfter
      <3>2. feed = "interchange" /\ i \in DOMAIN polls
        BY <1>2, <1>4, <2>2 DEF SettledAfter, PollsTyped
      <3>3. ~Candidate
        <4>1. ~ReconciliationPending
          BY <1>4, <2>2, <3>2 DEF ReconciliationPending
        <4>2. ~InterchangeCandidate
          BY <3>1, <4>1 DEF InterchangeCandidate, WithinKickoff, Over
        <4> QED BY <3>2, <4>2 DEF Candidate
      <3>4. ~Select
        BY <3>3 DEF Select
      <3> QED BY <1>3, <1>4, <3>1, <3>4, IdleStays
    <2>3. feed # "interchange" => polls = << >>
      BY <1>2, <1>4 DEF SettledAfter
    <2> QED BY <1>2, <1>4, <2>1, <2>2, <2>3 DEF ReconciliationInv, SettledAfter
  <1>5. CASE Persist
    <2>1. /\ cycle.step = "asked" /\ cycle'.step = "idle" /\ local' = local /\ real' = real
      BY <1>2, <1>5, PersistByFeed DEF PollsTyped, IdleCycle
    <2>2. CASE interchange' = interchange
      <3>1. \A i \in 1 .. Len(interchange.polls) : interchange.polls[i] # "POSTGAME"
        BY <1>2, <2>1 DEF SettledAfter
      <3>2. PollsTyped'
        BY <1>2, <1>3, <2>2 DEF PollsTyped, FeedChosen
      <3> QED BY <1>2, <2>2, <3>1, <3>2 DEF ReconciliationInv, SettledAfter
    <2>3. CASE interchange' # interchange
      <3>1. /\ feed = "interchange" /\ interchange'.polls = Append(interchange.polls, local)
        <4>1. /\ feed = "interchange"
              /\ \/ interchange' = PersistInterchange(interchange, cycle.answer, local)
                 \/ interchange' = Unanswered(interchange, local)
          BY <1>2, <1>5, <2>3, PersistByFeed DEF PollsTyped
        <4>2. PersistInterchange(interchange, cycle.answer, local).polls
                = Append(interchange.polls, local)
          BY DEF PersistInterchange
        <4>3. Unanswered(interchange, local).polls = Append(interchange.polls, local)
          BY DEF Unanswered
        <4> QED BY <4>1, <4>2, <4>3
      <3>2. PICK polls, more, n : /\ polls = interchange.polls /\ more = interchange'.polls
                                  /\ n = Len(polls)
        OBVIOUS
      <3>3. /\ polls \in Seq(Status) /\ local \in Status /\ n \in Nat
        BY <1>2, <3>2 DEF PollsTyped
      <3>4. /\ more \in Seq(Status) /\ Len(more) = n + 1 /\ more[n + 1] = local
            /\ \A i \in 1 .. n : more[i] = polls[i]
        BY <3>1, <3>2, <3>3
      <3>5. \A i \in 1 .. n : polls[i] # "POSTGAME"
        BY <1>2, <2>1, <3>2 DEF SettledAfter
      <3>6. PollsTyped'
        BY <1>2, <1>3, <3>2, <3>4 DEF PollsTyped, FeedChosen
      <3>7. ASSUME NEW i \in 1 .. n + 1, more[i] = "POSTGAME"
            PROVE  i = n + 1 /\ local \in Over /\ real \in Over
        <4>1. i = n + 1
          BY <3>3, <3>4, <3>5, <3>7
        <4>2. local = "POSTGAME"
          BY <3>4, <3>7, <4>1
        <4> QED BY <1>2, <4>1, <4>2 DEF PollsTyped, Over
      <3> QED BY <1>2, <2>1, <3>1, <3>2, <3>4, <3>6, <3>7 DEF ReconciliationInv, SettledAfter
    <2> QED BY <2>2, <2>3
  <1>6. CASE UNCHANGED tables /\ ~Persist
    <2>1. interchange'.polls = interchange.polls
      BY <1>6 DEF tables
    <2> QED BY <1>4, <1>6, <2>1
  <1> QED BY <1>5, <1>6, OnlyPersistStores

LEMMA SettledIsOnce == ReconciliationInv => ReconciledOnce
  BY DEF ReconciliationInv, PollsTyped, SettledAfter, ReconciledOnce

\* For any faults, crashes and status changes: one poll at most is stored after the match
\* is over (_reconciliation_pending).
THEOREM OnePollReconciles == Spec => []ReconciledOnce
  BY ReconciliationStarts, ReconciliationSteps, SettledIsOnce, PTL DEF Spec

-----------------------------------------------------------------------------
(* Rosters.                                                                     *)
LEMMA ErasedStep ==
  ASSUME FeedChosen, Next, NEW m \in RoundMatches, NEW c \in Collections, NEW p \in Squad,
         rosters.rows[m][c][p] # NoRosterRow, rosters'.rows[m][c][p] = NoRosterRow
  PROVE  /\ m \in known
         /\ cycle.answer.kind = "published" /\ c \in cycle.answer.listed[m]
         /\ cycle.answer.sheets[m][c][p] = NotListed
  <1>1. Persist
    BY OnlyPersistStores DEF tables
  <1>2. /\ cycle.answer.kind = "published"
        /\ rosters'.rows = RosterAfter(rosters.rows, cycle.answer, known, links)
    BY <1>1, PersistByFeed
  <1>3. rosters'.rows[m][c]
          = IF <<m, c>> \in Rewrites(cycle.answer, known)
            THEN Replacement(IF c \in cycle.answer.listed[m] THEN cycle.answer.sheets[m][c]
                             ELSE [q \in Squad |-> NotListed], links)
            ELSE rosters.rows[m][c]
    BY <1>2 DEF RosterAfter
  <1>4. <<m, c>> \in Rewrites(cycle.answer, known)
    BY <1>3
  <1>5. m \in known /\ c \in cycle.answer.listed[m]
    BY <1>4 DEF Rewrites
  <1>6. rosters'.rows[m][c] = Replacement(cycle.answer.sheets[m][c], links)
    BY <1>3, <1>4, <1>5
  <1>7. ASSUME cycle.answer.sheets[m][c][p] # NotListed PROVE FALSE
    <2>1. rosters'.rows[m][c][p]
            = [place |-> cycle.answer.sheets[m][c][p], linked |-> p \in links]
      BY <1>6, <1>7 DEF Replacement
    <2> QED BY <1>7, <2>1 DEF NoRosterRow
  <1> QED BY <1>2, <1>5, <1>7

\* For any round, squad and answers: a selected player is erased only by an answer that
\* published the list without the player (persist_match_rosters).
THEOREM OnlyOmissionErases == Spec => ErasedByOmission
  <1>1. Init => FeedChosen
    BY HistoryStarts DEF HistoryInv
  <1>2. FeedChosen /\ [Next]_vars => FeedChosen'
    BY FeedStays DEF FeedChosen, vars
  <1>3. FeedChosen /\ [Next]_vars
          => [\A m \in RoundMatches, c \in Collections, p \in Squad :
                rosters.rows[m][c][p] # NoRosterRow /\ rosters'.rows[m][c][p] = NoRosterRow
                => /\ m \in known
                   /\ cycle.answer.kind = "published" /\ c \in cycle.answer.listed[m]
                   /\ cycle.answer.sheets[m][c][p] = NotListed]_vars
    BY ErasedStep
  <1> QED BY <1>1, <1>2, <1>3, PTL DEF Spec, ErasedByOmission

-----------------------------------------------------------------------------
(* Commentary.  The rows of a slot are different events, and the edits link     *)
(* them; StoreEvent keeps that, so a whole feed does.                           *)
StoredEvents == [event : Event, edit : Nat, seen : Nat]

Linked(rows) ==
  \A i, j \in 1 .. Len(rows) :
     i < j /\ rows[i].event.slot = rows[j].event.slot
     => /\ rows[i].event # rows[j].event
        /\ rows[i].event.slot \in PlayerSlots => \E k \in i + 1 .. j : rows[k].edit = i

Timelines == {rows \in Seq(StoredEvents) : Linked(rows)}

LEMMA SameLinks ==
  ASSUME NEW rows \in Timelines, NEW marked \in Seq(StoredEvents), Len(marked) = Len(rows),
         \A i \in 1 .. Len(rows) : marked[i].event = rows[i].event /\ marked[i].edit = rows[i].edit
  PROVE  marked \in Timelines
  <1>1. Linked(rows) /\ Len(rows) \in Nat
    BY DEF Timelines
  <1>2. ASSUME NEW i \in 1 .. Len(rows), NEW j \in 1 .. Len(rows), i < j,
               marked[i].event.slot = marked[j].event.slot
        PROVE  /\ marked[i].event # marked[j].event
               /\ marked[i].event.slot \in PlayerSlots
                    => \E k \in i + 1 .. j : marked[k].edit = i
    <2>1. /\ rows[i].event # rows[j].event
          /\ rows[i].event.slot \in PlayerSlots => \E k \in i + 1 .. j : rows[k].edit = i
      BY <1>1, <1>2 DEF Linked
    <2>2. \A k \in i + 1 .. j : k \in 1 .. Len(rows)
      BY <1>1
    <2> QED BY <2>1, <2>2
  <1> QED BY <1>2 DEF Timelines, Linked

LEMMA NewRowLinked ==
  ASSUME NEW rows \in Timelines, NEW e \in Event, NEW poll \in Nat, RowOf(rows, e) = {}
  PROVE  Append(rows, [event |-> e, edit |-> EditOf(rows, e), seen |-> poll]) \in Timelines
  <1>1. PICK n, edit, longer : /\ n = Len(rows) /\ edit = EditOf(rows, e)
                               /\ longer = Append(rows, [event |-> e, edit |-> edit, seen |-> poll])
    OBVIOUS
  <1>2. rows \in Seq(StoredEvents) /\ Linked(rows) /\ n \in Nat /\ DOMAIN rows = 1 .. n
    BY <1>1 DEF Timelines
  <1>3. \A i \in 1 .. n : rows[i].event # e
    BY <1>2 DEF RowOf
  <1>4. edit \in Nat /\ (e.slot \in PlayerSlots => \A i \in 1 .. n :
          rows[i].event.slot = e.slot
          => /\ edit \in 1 .. n /\ rows[edit].event.slot = e.slot /\ i <= edit)
    <2>1. PICK slot : slot = InSlot(rows, e.slot)
      OBVIOUS
    <2>2. slot \subseteq 1 .. n /\ \A i \in 1 .. n : i \in slot <=> rows[i].event.slot = e.slot
      BY <1>2, <2>1 DEF InSlot
    <2>3. CASE e.slot \in PlayerSlots /\ slot # {}
      <3>1. Latest(slot) \in slot /\ \A j \in slot : j <= Latest(slot)
        BY <1>2, <2>2, <2>3, LatestIs
      <3>2. edit = Latest(slot)
        BY <1>1, <2>1, <2>3 DEF EditOf
      <3>3. edit \in slot /\ \A j \in slot : j <= edit
        BY <3>1, <3>2
      <3>4. edit \in 1 .. n /\ rows[edit].event.slot = e.slot
        BY <2>2, <3>3
      <3>5. \A i \in 1 .. n : rows[i].event.slot = e.slot => i <= edit
        BY <2>2, <3>3
      <3>6. edit \in Nat
        BY <1>2, <3>4
      <3> QED BY <3>4, <3>5, <3>6
    <2>4. CASE ~(e.slot \in PlayerSlots /\ slot # {})
      <3>1. edit = 0
        BY <1>1, <2>1, <2>4 DEF EditOf, NoEdit
      <3> QED BY <2>2, <2>4, <3>1
    <2> QED BY <2>3, <2>4
  <1>5. PICK new \in StoredEvents : new = [event |-> e, edit |-> edit, seen |-> poll]
    BY <1>4 DEF StoredEvents
  <1>6. /\ longer \in Seq(StoredEvents) /\ Len(longer) = n + 1 /\ longer[n + 1] = new
        /\ \A i \in 1 .. n : longer[i] = rows[i]
    BY <1>1, <1>2, <1>5
  <1>7. longer[n + 1].event = e /\ longer[n + 1].edit = edit
    BY <1>5, <1>6
  <1>8. ASSUME NEW i \in 1 .. n + 1, NEW j \in 1 .. n + 1, i < j,
               longer[i].event.slot = longer[j].event.slot
        PROVE  /\ longer[i].event # longer[j].event
               /\ longer[i].event.slot \in PlayerSlots
                    => \E k \in i + 1 .. j : longer[k].edit = i
    <2>1. i \in 1 .. n /\ longer[i] = rows[i]
      BY <1>2, <1>6, <1>8
    <2>2. ASSUME NEW m \in 1 .. n, i < m, rows[i].event.slot = rows[m].event.slot,
                 rows[i].event.slot \in PlayerSlots
          PROVE  \E k \in i + 1 .. m : longer[k].edit = i
      <3>1. \E k \in i + 1 .. m : rows[k].edit = i
        BY <1>1, <1>2, <2>1, <2>2 DEF Linked
      <3>2. \A k \in i + 1 .. m : k \in 1 .. n
        BY <1>2, <2>1
      <3> QED BY <1>6, <3>1, <3>2
    <2>3. CASE j = n + 1
      <3>1. longer[i].event # longer[j].event /\ rows[i].event.slot = e.slot
        BY <1>3, <1>7, <1>8, <2>1, <2>3
      <3>2. ASSUME e.slot \in PlayerSlots PROVE \E k \in i + 1 .. j : longer[k].edit = i
        <4>1. edit \in 1 .. n /\ rows[edit].event.slot = e.slot /\ i <= edit
          BY <1>4, <2>1, <3>1, <3>2
        <4>2. CASE i = edit
          <5>1. n + 1 \in i + 1 .. j
            BY <1>2, <2>1, <2>3
          <5> QED BY <1>7, <4>2, <5>1
        <4>3. CASE i # edit
          <5>1. i < edit
            BY <4>1, <4>3, <2>1, <1>2
          <5>2. \E k \in i + 1 .. edit : longer[k].edit = i
            BY <2>2, <3>1, <3>2, <4>1, <5>1
          <5>3. \A k \in i + 1 .. edit : k \in i + 1 .. j
            BY <1>2, <2>1, <2>3, <4>1
          <5> QED BY <5>2, <5>3
        <4> QED BY <4>2, <4>3
      <3> QED BY <2>1, <3>1, <3>2
    <2>4. CASE j # n + 1
      <3>1. j \in 1 .. n /\ longer[j] = rows[j]
        BY <1>2, <1>6, <2>4
      <3>2. rows[i].event # rows[j].event
        BY <1>1, <1>2, <1>8, <2>1, <3>1 DEF Linked
      <3> QED BY <1>8, <2>1, <2>2, <3>1, <3>2
    <2> QED BY <2>3, <2>4
  <1>9. Linked(longer)
    BY <1>6, <1>8 DEF Linked
  <1> QED BY <1>1, <1>6, <1>9 DEF Timelines

LEMMA StoreKeepsLinks ==
  ASSUME NEW rows \in Timelines, NEW e \in Event, NEW poll \in Nat
  PROVE  StoreEvent(rows, e, poll) \in Timelines
  <1>1. CASE RowOf(rows, e) = {}
    BY <1>1, NewRowLinked DEF StoreEvent
  <1>2. CASE RowOf(rows, e) # {}
    <2>1. PICK at, marked : /\ at = Latest(RowOf(rows, e))
                            /\ marked = [rows EXCEPT ![at].seen = poll]
      OBVIOUS
    <2>2. StoreEvent(rows, e, poll) = marked
      BY <1>2, <2>1 DEF StoreEvent
    <2>3. rows \in Seq(StoredEvents) /\ Len(rows) \in Nat
      BY DEF Timelines
    <2>4. \A i \in 1 .. Len(rows) : rows[i] \in StoredEvents
      BY <2>3
    <2>5. \A i \in 1 .. Len(rows) :
             marked[i] = IF i = at THEN [rows[i] EXCEPT !.seen = poll] ELSE rows[i]
      BY <2>1, <2>3
    <2>6. ASSUME NEW row \in StoredEvents
          PROVE  /\ [row EXCEPT !.seen = poll] \in StoredEvents
                 /\ [row EXCEPT !.seen = poll].event = row.event
                 /\ [row EXCEPT !.seen = poll].edit = row.edit
      BY DEF StoredEvents
    <2>7. \A i \in 1 .. Len(rows) :
             marked[i] \in StoredEvents /\ marked[i].event = rows[i].event /\ marked[i].edit = rows[i].edit
      BY <2>4, <2>5, <2>6
    <2>8. marked \in Seq(StoredEvents) /\ Len(marked) = Len(rows)
      <3>1. rows \in [1 .. Len(rows) -> StoredEvents]
        BY <2>3
      <3>2. DOMAIN marked = 1 .. Len(rows) /\ marked = [i \in 1 .. Len(rows) |-> marked[i]]
        BY <2>1, <3>1
      <3>3. marked \in [1 .. Len(rows) -> StoredEvents]
        BY <2>7, <3>2
      <3> QED BY <2>3, <3>3
    <2>9. marked \in Timelines
      BY <2>7, <2>8, SameLinks
    <2> QED BY <2>2, <2>9
  <1> QED BY <1>1, <1>2

LEMMA FeedKeepsLinks ==
  ASSUME NEW db, db.rows \in Timelines, db.polls \in Nat, NEW said \in Seq(Event), NEW status, NEW at
  PROVE  PersistFeed(db, said, status, at).rows \in Timelines /\ PersistFeed(db, said, status, at).polls \in Nat
  <1> DEFINE poll == db.polls + 1
             Step(n, rows) == StoreEvent(rows, said[n], poll)
             Stored(f) == f = [n \in 0 .. Len(said) |-> IF n = 0 THEN db.rows ELSE Step(n, f[n - 1])]
             stored == CHOOSE f : Stored(f)
  <1>1. PICK N \in Nat, base \in Timelines : N = Len(said) /\ base = db.rows
    OBVIOUS
  <1>2. PersistFeed(db, said, status, at).rows = stored[N] /\ PersistFeed(db, said, status, at).polls = poll
    BY <1>1 DEF PersistFeed
  <1>3. poll \in Nat /\ \A n \in 1 .. N : said[n] \in Event
    BY <1>1
  <1>4. \A n \in 1 .. N, rows \in Timelines : Step(n, rows) \in Timelines
    BY <1>3, StoreKeepsLinks
  <1> HIDE DEF poll, Step, stored
  <1>5. PICK step : step = [a \in (1 .. N) \X Timelines |-> Step(a[1], a[2])]
    OBVIOUS
  <1>6. \A n \in 1 .. N, rows \in Timelines : step[<<n, rows>>] \in Timelines
    BY <1>4, <1>5
  <1>7. PICK g \in [0 .. N -> Timelines] :
          g[0] = base /\ \A n \in 1 .. N : g[n] = step[<<n, g[n - 1]>>]
    <2>1. Iterated(Timelines, N, base, step)
      BY <1>6, Iterates
    <2> QED BY <2>1 DEF Iterated
  <1>8. Stored(g)
    <2>1. ASSUME NEW n \in 0 .. N PROVE g[n] = IF n = 0 THEN base ELSE Step(n, g[n - 1])
      <3>1. CASE n = 0
        BY <1>7, <3>1
      <3>2. CASE n # 0
        <4>1. n \in 1 .. N /\ g[n - 1] \in Timelines
          BY <1>7, <3>2
        <4>2. step[<<n, g[n - 1]>>] = Step(n, g[n - 1])
          BY <1>5, <4>1
        <4> QED BY <1>7, <3>2, <4>1, <4>2
      <3> QED BY <3>1, <3>2
    <2> QED BY <1>1, <1>7, <2>1
  <1>9. Stored(stored)
    BY <1>8 DEF stored
  <1>10. PICK f : f = stored
    OBVIOUS
  <1>11. f = [n \in 0 .. N |-> IF n = 0 THEN base ELSE Step(n, f[n - 1])]
    BY <1>1, <1>9, <1>10
  <1>12. f[0] = base /\ \A n \in 1 .. N : f[n] = Step(n, f[n - 1])
    <2>1. \A n \in 0 .. N : f[n] = IF n = 0 THEN base ELSE Step(n, f[n - 1])
      BY <1>11, Zenon
    <2> QED BY <2>1
  <1>13. PICK good : good = {n \in 0 .. N : f[n] \in Timelines}
    OBVIOUS
  <1>14. 0 \in good /\ \A n \in 1 .. N : n - 1 \in good => n \in good
    BY <1>4, <1>12, <1>13
  <1>15. 0 .. N \subseteq good
    BY <1>14, UpTo
  <1>16. N \in 0 .. N
    OBVIOUS
  <1> QED BY <1>2, <1>3, <1>10, <1>13, <1>15, <1>16

TimelineInv ==
  /\ FeedChosen /\ commentary.rows \in Timelines /\ commentary.polls \in Nat
  /\ spoken \in Seq(Event)
  /\ feed = "commentary" /\ cycle.ok => cycle.answer \in Seq(Event)

LEMMA TimelineStarts == Init => TimelineInv
  <1> SUFFICES ASSUME Init PROVE TimelineInv
    OBVIOUS
  <1>1. FeedChosen /\ cycle.ok = FALSE /\ spoken = << >>
    BY HistoryStarts DEF Init, HistoryInv, IdleCycle
  <1>2. commentary.rows = << >> /\ commentary.polls = 0
    BY DEF Init
  <1>3. << >> \in Timelines
    <2>1. << >> \in Seq(StoredEvents) /\ Len(<< >>) = 0
      OBVIOUS
    <2> QED BY <2>1 DEF Timelines, Linked
  <1> QED BY <1>1, <1>2, <1>3 DEF TimelineInv

LEMMA SpokenTyped ==
  ASSUME spoken \in Seq(Event), Commentate
  PROVE  spoken' \in Seq(Event)
  <1>1. PICK e \in Event : \/ spoken' = <<e>> \o spoken
                           \/ \E i \in DOMAIN spoken : spoken' = [spoken EXCEPT ![i] = e]
    BY DEF Commentate
  <1>2. CASE spoken' = <<e>> \o spoken
    BY <1>2
  <1>3. ASSUME NEW i \in DOMAIN spoken, spoken' = [spoken EXCEPT ![i] = e]
        PROVE  spoken' \in Seq(Event)
    BY <1>3
  <1> QED BY <1>1, <1>2, <1>3

LEMMA TimelineSteps == TimelineInv /\ [Next]_vars => TimelineInv'
  <1>1. ASSUME TimelineInv, UNCHANGED vars PROVE TimelineInv'
    BY <1>1 DEF TimelineInv, FeedChosen, vars, tables, upstream
  <1> SUFFICES ASSUME TimelineInv, Next PROVE TimelineInv'
    BY <1>1
  <1>2. feed' = feed /\ FeedChosen /\ commentary.rows \in Timelines /\ commentary.polls \in Nat
    BY FeedStays DEF TimelineInv
  <1>3. spoken' \in Seq(Event)
    <2>1. spoken' = spoken \/ Commentate
      BY DEF Next, Collect, Select, Ask, AskFails, Persist, PersistFails, Crash, Restart,
             RefreshStatus, Identify, KickOff, Siren, Conclude, Rotate, Revise, Tick, upstream
    <2> QED BY <2>1, SpokenTyped DEF TimelineInv
  <1>4. feed = "commentary" /\ cycle'.ok => cycle'.answer \in Seq(Event)
    <2>1. IdleCycle.ok = FALSE /\ \A s : [IdleCycle EXCEPT !.step = s].ok = FALSE
      BY DEF IdleCycle
    <2>2. cycle' = cycle \/ cycle'.ok = FALSE \/ Ask
      BY <2>1 DEF Next, Collect, Select, AskFails, Persist, PersistFails, Crash, Restart,
             RefreshStatus, Identify, KickOff, Siren, Conclude, Rotate, Commentate, Revise, Tick
    <2>3. CASE Ask /\ feed = "commentary"
      <3>1. cycle'.answer = spoken
        BY <2>3 DEF Ask, AnswersNow
      <3> QED BY <3>1 DEF TimelineInv
    <2> QED BY <2>2, <2>3 DEF TimelineInv
  <1>5. commentary'.rows \in Timelines /\ commentary'.polls \in Nat
    <2>1. CASE commentary' = commentary
      BY <1>2, <2>1
    <2>2. CASE Persist /\ commentary' # commentary
      <3>1. \/ /\ feed = "commentary" /\ cycle.ok
               /\ commentary' = PersistFeed(commentary, cycle.answer, local, now)
            \/ commentary' = PersistOutcome(commentary, local, now)
        BY <1>2, <2>2, PersistByFeed
      <3>2. CASE commentary' = PersistOutcome(commentary, local, now)
        <4>1. commentary'.rows = commentary.rows /\ commentary'.polls = commentary.polls + 1
          BY <3>2 DEF PersistOutcome
        <4> QED BY <1>2, <4>1
      <3>3. CASE /\ feed = "commentary" /\ cycle.ok
                 /\ commentary' = PersistFeed(commentary, cycle.answer, local, now)
        <4>1. cycle.answer \in Seq(Event)
          BY <3>3 DEF TimelineInv
        <4>2. PICK next : next = PersistFeed(commentary, cycle.answer, local, now)
          OBVIOUS
        <4>3. next.rows \in Timelines /\ next.polls \in Nat
          BY <1>2, <4>1, <4>2, FeedKeepsLinks
        <4> QED BY <3>3, <4>2, <4>3
      <3> QED BY <3>1, <3>2, <3>3
    <2> QED BY <2>1, <2>2, OnlyPersistStores DEF tables
  <1> QED BY <1>2, <1>3, <1>4, <1>5 DEF TimelineInv, FeedChosen

LEMMA LinksAreTimeline == TimelineInv => TimelineLinked
  <1> SUFFICES ASSUME TimelineInv PROVE TimelineLinked
    OBVIOUS
  <1>1. Linked(commentary.rows) /\ DOMAIN commentary.rows = 1 .. Len(commentary.rows)
    BY DEF TimelineInv, Timelines
  <1> QED BY <1>1 DEF Linked, TimelineLinked

\* For any slots, texts and feeds of any length: of the events of a slot none is stored
\* twice, and the edits link all of a player's slot (persist_commentary_feed).
THEOREM EditsLinkTheTimeline == Spec => []TimelineLinked
  BY TimelineStarts, TimelineSteps, LinksAreTimeline, PTL DEF Spec
===============================================================================
