---------------------------- MODULE EvidenceCapture ----------------------------
(***************************************************************************)
(* The diagnostic captures of a live match: collection/match_*_evidence.py *)
(* and scheduler/match_*_capture.py.  Three profiles poll an endpoint each *)
(* (match_clock, interchange, commentary) and keep evidence in tables of   *)
(* their own; they share the matches table, which they only read, so a     *)
(* behaviour follows one profile on one match.                             *)
(*                                                                         *)
(* A cycle chooses its matches at one instant, asks the endpoint, and      *)
(* stores the answer in a transaction of the write lane: the match, the    *)
(* endpoint and the clock may have moved on between the three.             *)
(***************************************************************************)
EXTENDS Integers

CONSTANTS Profiles,    \* the selected diagnostic profiles
          Starters,    \* players who may be on an interchange bench
          BenchSide,   \* the side of each
          Kickoff,     \* kickoff_tolerance_seconds
          PostLive,    \* post_live_grace_seconds
          LastInstant, \* bound: the clock
          MaxPolled,   \* bound: stored polls
          MaxAborted   \* bound: processes that die

ASSUME CaptureAssumption ==
    /\ Profiles \subseteq {"match_clock", "interchange", "commentary"}
    /\ Kickoff \in Nat /\ PostLive \in Nat
    /\ "missing" \notin Starters

VARIABLES profile,    \* the one this behaviour follows
          instant,    \* the clock; the match is due to start at 1
          match,      \* [local, upstream]: matches.status, and the status upstream
          capture,    \* the cycle: [at, now, answer]
          evidence,   \* the evidence rows of the match, as they are read
          events,     \* commentary_evidence_events
          parser,     \* the release's idea of where the periods are
          signal,     \* history: the last instant at which the capture was due
          aborted

evidenceVars == <<profile, instant, match, capture, evidence, events, parser,
                  signal, aborted>>

BenchSides == {"home", "away"}
StartTime == 1
Missing == {"missing"}               \* a field that is absent or of the wrong type
NoClock == [number |-> 0, seconds |-> 0, completed |-> FALSE]
Idle == [at |-> "idle"]

(* The evidence table is known by what is read from it: how many rows, the *)
(* newest of them, the last instant of a row that says LIVE, and, for the  *)
(* reports, the outcome of the newest row marked as a transition.          *)
NoInstant == -1
NoPoll == [outcome |-> "none", flags |-> {}]

(* What each endpoint can hold: the latest period; who is on the benches   *)
(* and for how long; a comment per slot, edited by replacing its text.     *)
Clocks == {NoClock} \cup {c \in [number : 1..2, seconds : 0..1, completed : BOOLEAN] :
                            c.completed => c.seconds = 1}
CommentSlots == {"goal", "report"}   \* with a player, and without one
Benches == [on : SUBSET Starters, minutes : 0..1]
Feeds == [goal : 0..2, report : 0..1]  \* the text, 0 for none yet
Contents == CASE profile = "match_clock" -> Clocks
              [] profile = "interchange" -> Benches
              [] profile = "commentary"  -> Feeds

EvidenceInit ==
    /\ profile \in Profiles
    /\ instant = 0
    /\ match = [local |-> "SCHEDULED", upstream |-> "SCHEDULED"]
    /\ capture = Idle
    /\ evidence = [polled |-> 0, newest |-> NoPoll, lastLive |-> NoInstant,
                   told |-> "none"]
    /\ events = {}
    /\ parser \in (IF profile = "match_clock" THEN {"top level", "score"} ELSE {"score"})
    /\ signal = NoInstant
    /\ aborted = 0

----------------------------------------------------------------------------
(* Candidates.                                                             *)

InTolerance(m, t) ==
    /\ Kickoff > 0 /\ m.local = "SCHEDULED"
    /\ t - StartTime \in 0..Kickoff

RecentlyLive(t) ==
    /\ PostLive > 0
    /\ evidence.lastLive # NoInstant /\ evidence.lastLive >= t - PostLive

IsCandidate(t) == match.local = "LIVE" \/ InTolerance(match, t) \/ RecentlyLive(t)

(* The instants the capture is for: the match is live, here or upstream,   *)
(* or was due to be.                                                       *)
CaptureDue(m, t) == m.local = "LIVE" \/ m.upstream = "LIVE" \/ InTolerance(m, t)
Signal(m, t) == IF CaptureDue(m, t) THEN t ELSE signal

StartCycle ==
    /\ capture = Idle /\ evidence.polled < MaxPolled
    /\ IsCandidate(instant)
    /\ capture' = [at |-> "asking", now |-> instant]
    /\ UNCHANGED <<profile, instant, match, evidence, events, parser, signal, aborted>>

Failures == {"not_published", "malformed_payload"}

AnswerCycle ==
    /\ capture.at = "asking"
    /\ \E outcome \in Failures \cup {"success"} :
         capture' = [at |-> "answered", now |-> capture.now, outcome |-> outcome,
                     live |-> profile = "match_clock" /\ match.upstream = "LIVE"]
    /\ UNCHANGED <<profile, instant, match, evidence, events, parser, signal, aborted>>

(* The payload of a successful answer: what the endpoint held, the fields  *)
(* that are absent, and the bench entries that do not say whose they are.  *)
(* Between two polls it may have come to hold anything, so it is chosen as *)
(* the answer is read.                                                     *)
Fields == CASE profile = "interchange" -> BenchSides
            [] profile = "commentary"  -> {"commentaryEvent"}
            [] profile = "match_clock" -> {}

Nameless(truth) == IF profile = "interchange" THEN SUBSET truth.on ELSE {{}}

Payloads == UNION {[truth : {truth}, absent : SUBSET Fields, nameless : Nameless(truth)] :
                     truth \in Contents}

----------------------------------------------------------------------------
(* Parsing.                                                                *)

(* _latest_period: a release that looked for the clock at the top level of *)
(* the payload found no period.                                            *)
LatestPeriod(raw, release) == IF release = "score" THEN raw ELSE NoClock

(* Mutant of FieldOf: an absent field reads as an empty one.               *)
FieldOfEmpty(payload, field, value) == IF field \in payload.absent THEN {} ELSE value

(* parse_match_interchange, parse_match_commentary: never an empty list.   *)
FieldOf(payload, field, value) == IF field \in payload.absent THEN Missing ELSE value

OnBench(truth, side) == {p \in truth.on : BenchSide[p] = side}

(* The lists are kept as they came, the nameless entries among them.       *)
ParseInterchange(payload) ==
    [minutes |-> payload.truth.minutes, nameless |-> payload.nameless,
     side |-> [s \in BenchSides |-> FieldOf(payload, s, OnBench(payload.truth, s))]]

----------------------------------------------------------------------------
(* detect_transitions of each profile, against the newest stored poll.     *)

First == evidence.polled = 0
NewestPoll == evidence.newest

ClockFlags(current) ==
    IF First THEN {"first_observation"}
    ELSE LET was == NewestPoll.clock
             is == current.clock
             same == was.number = is.number
             delta == is.seconds - was.seconds
         IN {f \in {"new_period_appeared"} : is.number > was.number}
            \cup {f \in {"period_number_changed"} : ~same}
            \cup {f \in {"latest_period_completed"} : same /\ ~was.completed /\ is.completed}
            \cup {f \in {"period_seconds_stalled"} :
                     same /\ is # NoClock /\ delta = 0 /\ ~is.completed}
            \cup {f \in {"period_seconds_resumed"} :
                     same /\ delta > 0 /\ "period_seconds_stalled" \in NewestPoll.flags}
            \cup {f \in {"match_status_changed"} : NewestPoll.live # current.live}

Both(was, is, s) == was.side[s] # Missing /\ is.side[s] # Missing
NoisyFlags == {"player_time_on_ground_changed"}
Appeared == [home |-> "player_appeared_home_interchange",
             away |-> "player_appeared_away_interchange"]
Disappeared == [home |-> "player_disappeared_home_interchange",
                away |-> "player_disappeared_away_interchange"]

(* _entries_by_player_id: an entry without an identifier is left out, and  *)
(* the rest of its list is compared.                                       *)
EntriesById(bench, s) == bench.side[s] \ bench.nameless

(* Counters other than the minutes are left out.                           *)
BenchFlags(current) ==
    IF First THEN {"first_observation"}
    ELSE LET was == NewestPoll.bench
             is == current.bench
             compared == {s \in BenchSides : Both(was, is, s)}
         IN {Appeared[s] : s \in {t \in compared : EntriesById(is, t) \ EntriesById(was, t) # {}}}
            \cup {Disappeared[s] : s \in {t \in compared : EntriesById(was, t) \ EntriesById(is, t) # {}}}
            \cup {f \in NoisyFlags :
                     /\ was.minutes # is.minutes
                     /\ \E s \in compared : EntriesById(was, s) \cap EntriesById(is, s) # {}}

----------------------------------------------------------------------------
(* Storing an answer: one transaction of the write lane, which reads the   *)
(* newest poll and writes the next.  raw: the payload is kept with it.     *)

Row(flags, raw) == [outcome |-> capture.outcome, flags |-> flags, raw |-> raw]

(* Mutant of LastLive: any stored poll keeps the capture going.            *)
LastLiveOfAny(at, live) == IF at > evidence.lastLive THEN at ELSE evidence.lastLive

(* live: the CFS status in the answer for match_clock; for the others,     *)
(* whose payloads have none, matches.status as the poll is stored.         *)
LastLive(at, live) == IF live /\ at > evidence.lastLive THEN at ELSE evidence.lastLive

Store(row, at, live, told) ==
    evidence' = [polled |-> evidence.polled + 1, newest |-> row, lastLive |-> LastLive(at, live),
               told |-> IF told THEN row.outcome ELSE evidence.told]

(* A match_clock answer is stamped with the instant its cycle started.     *)
PersistClock(payload) ==
    LET clock == LatestPeriod(payload.truth, parser)
        flags == ClockFlags([clock |-> clock, live |-> capture.live])
    IN /\ profile = "match_clock"
       /\ Store([clock |-> clock, live |-> capture.live,
                   truth |-> IF flags # {} THEN payload.truth ELSE NoClock,
                   outcome |-> "success", flags |-> flags, raw |-> flags # {}],
                 capture.now, capture.live, flags # {})
       /\ UNCHANGED events

(* answer and before: history, the benches of this answer and of the one   *)
(* the poll before stored.                                                 *)
NoAnswer == [on |-> {}, absent |-> BenchSides, nameless |-> {}]
AnswerOf(payload) == [on |-> payload.truth.on, absent |-> payload.absent,
                      nameless |-> payload.nameless]

PersistInterchange(payload) ==
    LET bench == ParseInterchange(payload)
        flags == BenchFlags([bench |-> bench])
        told == flags \ NoisyFlags # {}
    IN /\ profile = "interchange"
       /\ Store([bench |-> bench, answer |-> AnswerOf(payload),
                  before |-> IF First THEN NoAnswer ELSE NewestPoll.answer,
                  outcome |-> "success", flags |-> flags, raw |-> told],
                 instant, match.local = "LIVE", told)
       /\ UNCHANGED events

(* Mutant of Recovered: the first success after an outage is no news.      *)
RecoveredNever == FALSE

Recovered == ~First /\ NewestPoll.outcome # "success"

(* An event is told by its fingerprint, the slot and the text together; a  *)
(* new one in the slot of a player may be an edit of the newest there.     *)
Known(slot, text) == \E e \in events : e.slot = slot /\ e.text = text
Earlier(slot) == {e \in events : e.slot = slot}
EditOf(slot) ==
    IF slot = "report" \/ Earlier(slot) = {} THEN 0
    ELSE (CHOOSE e \in Earlier(slot) : \A o \in Earlier(slot) : o.first <= e.first).text

PersistCommentary(payload) ==
    LET n == evidence.polled + 1
        absent == payload.absent # {}
        said == {s \in CommentSlots : ~absent /\ payload.truth[s] # 0}
        new == {s \in said : ~Known(s, payload.truth[s])}
        seen == {e \in events : e.slot \in said /\ payload.truth[e.slot] = e.text}
        flags == {f \in {"first_poll"} : First} \cup {f \in {"outcome_success"} : Recovered}
                 \cup {f \in {"commentary_field_missing_or_malformed"} : absent}
                 \cup {f \in {"new_events"} : new # {}}
                 \cup {f \in {"possible_event_edit"} : \E s \in new : EditOf(s) # 0}
        raw == First \/ new # {} \/ absent \/ Recovered
    IN /\ profile = "commentary"
       /\ Store(Row(flags, raw), instant, match.local = "LIVE", flags # {})
       /\ events' = (events \ seen) \cup {[e EXCEPT !.last = n] : e \in seen}
                    \cup {[slot |-> s, text |-> payload.truth[s], edits |-> EditOf(s),
                           first |-> n, last |-> n] : s \in new}

(* persist_poll_outcome: only the commentary profile keeps what failed.    *)
PersistFailure ==
    LET changed == NewestPoll.outcome # capture.outcome
        flags == {f \in {capture.outcome} : changed}
    IN /\ IF profile = "commentary" THEN Store(Row(flags, FALSE), instant, match.local = "LIVE", changed)
          ELSE UNCHANGED evidence
       /\ UNCHANGED events

Persist ==
    /\ capture.at = "answered"
    /\ \/ capture.outcome = "success" /\ \E payload \in Payloads :
             PersistClock(payload) \/ PersistInterchange(payload) \/ PersistCommentary(payload)
       \/ capture.outcome # "success" /\ PersistFailure
    /\ capture' = Idle
    /\ UNCHANGED <<profile, instant, match, parser, signal, aborted>>

----------------------------------------------------------------------------
(* reparse_stored_raw_observations: the period of a row whose payload was  *)
(* kept, read again.  The newest row is the one a later poll is compared   *)
(* with.                                                                   *)
Reparse ==
    /\ profile = "match_clock" /\ parser = "score"
    /\ ~First /\ NewestPoll.raw
    /\ NewestPoll.clock # LatestPeriod(NewestPoll.truth, parser)
    /\ evidence' = [evidence EXCEPT !.newest.clock = LatestPeriod(NewestPoll.truth, parser)]
    /\ UNCHANGED <<profile, instant, match, capture, events, parser, signal, aborted>>

(* The process dies, perhaps to start again with a later release.          *)
Abort ==
    /\ aborted < MaxAborted /\ aborted' = aborted + 1
    /\ capture' = Idle
    /\ parser' \in {parser, "score"}
    /\ UNCHANGED <<profile, instant, match, evidence, events, signal>>

(* The match starts when it is due or later and ends; the refresh of       *)
(* matches.status follows when it can.                                     *)
MatchMoves ==
    \E m \in {[match EXCEPT !.upstream = u] : u \in {"LIVE", "CONCLUDED"}}
              \cup {[match EXCEPT !.local = match.upstream]} :
       /\ m # match
       /\ m.upstream = "LIVE" => instant >= StartTime /\ match.upstream # "CONCLUDED"
       /\ m.upstream = "CONCLUDED" => match.upstream # "SCHEDULED"
       /\ match' = m
       /\ signal' = Signal(m, instant)
    /\ UNCHANGED <<profile, instant, capture, evidence, events, parser, aborted>>

InstantPasses ==
    /\ instant < LastInstant
    /\ instant' = instant + 1
    /\ signal' = Signal(match, instant')
    /\ UNCHANGED <<profile, match, capture, evidence, events, parser, aborted>>

EvidenceNext ==
    \/ StartCycle \/ AnswerCycle \/ Persist \/ Reparse \/ Abort
    \/ MatchMoves \/ InstantPasses

EvidenceSpec == EvidenceInit /\ [][EvidenceNext]_evidenceVars

----------------------------------------------------------------------------
(* The capture ends by itself: no cycle starts more than the grace after   *)
(* the last instant at which the match was live, here or upstream, or was  *)
(* within the tolerance of its start, however late answers are stored and  *)
(* whatever else is stored about the match.                                *)
CaptureCloses == capture # Idle => capture.now <= signal + PostLive

(* The rows marked as transitions give the outcome of every poll of the    *)
(* commentary endpoint: it is that of the newest of them.                  *)
OutagesShow == profile = "commentary" => evidence.told = evidence.newest.outcome

(* Whom one answer shows on a side, and by name, who the other has not.    *)
News(one, other, s) == {p \in OnBench(one, s) : p \notin other.on \/ p \in other.nameless}
Surely(one, other, s) == {p \in OnBench(one, s) \ one.nameless : p \notin other.on}

(* A flag of a side has one of two grounds, a move or a nameless entry; a  *)
(* list that is missing in either answer gives none, and between two lists *)
(* a move of a player they name is flagged.                                *)
Grounded(flag, one, other, s) ==
    /\ flag \in NewestPoll.flags => News(one, other, s) # {} /\ s \notin one.absent \cup other.absent
    /\ s \notin one.absent \cup other.absent /\ Surely(one, other, s) # {}
         => flag \in NewestPoll.flags

BenchMovesAreGrounded ==
    profile = "interchange" /\ ~First =>
       \A s \in BenchSides :
          /\ Grounded(Appeared[s], NewestPoll.answer, NewestPoll.before, s)
          /\ Grounded(Disappeared[s], NewestPoll.before, NewestPoll.answer, s)

(* What the reports of the evidence show (report_commentary_evidence.py    *)
(* and report_interchange_evidence.py, the transitions only) is grounded   *)
(* in the polls: the outcomes of the commentary endpoint exactly; a move   *)
(* on a bench in what the two answers said of that side.  A player who     *)
(* stays is reported as gone only when his entry lost its identifier.      *)
ReportsAreGrounded == OutagesShow /\ BenchMovesAreGrounded
=============================================================================
