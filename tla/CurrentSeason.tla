----------------------------- MODULE CurrentSeason -----------------------------
(***************************************************************************)
(* Which season is the current one (afl_seasons.is_current): commands of   *)
(* the operator and the scheduled metadata refresh each collect one season *)
(* (afl_json/collectors.py), decide which season is current, and persist   *)
(* the two in one transaction (afl_json/bootstrap.py).  Between the first  *)
(* request and the commit the other may persist and the season may end.    *)
(***************************************************************************)
EXTENDS Naturals, FiniteSets

CONSTANTS Years,        \* the seasons of the competition, by year
          DaysPerYear,  \* the calendar: the first days of a year are played
          PlayedDays,
          Offers,       \* what is said of a season: its flag, and whose dates there are
          Collectors,   \* collections, at work or finished
          MaxPersists   \* bound: transactions

NoYear == 0

ASSUME YearsAssumption == Years \subseteq Nat \ {NoYear} /\ IsFiniteSet(Years)
ASSUME CalendarAssumption == DaysPerYear \in Nat \ {0}

VARIABLES today,       \* a day
          setting,     \* AFL_SEASON_YEAR, or NoYear
          offered,     \* what the endpoint says of each season
          published,   \* the seasons its list holds by now
          marks,       \* is_current of each season
          work,        \* where each collection is: [at, year, asked, own, current]
          determined,  \* history: the season last determined to be current
          settled,     \* history: the configured season, marked by its own command
          persists

seasonVars == <<today, setting, offered, published, marks, work, determined, settled, persists>>

NotCollecting == [at |-> "idle", configured |-> NoYear, asked |-> NoYear,
                  own |-> NoYear, current |-> NoYear]

YearOf(day) == day \div DaysPerYear
Played(day) == day % DaysPerYear < PlayedDays

(* Before the marker was kept seasons were stored without one, or with     *)
(* whatever the endpoint said of them.                                     *)
SeasonInit ==
    /\ \E first \in Years : (\A y \in Years : first <= y) /\ today = first * DaysPerYear
    /\ setting \in Years \cup {NoYear}
    /\ offered \in [Years -> Offers]
    /\ published = {y \in Years : y <= YearOf(today)}
    /\ marks \in {[y \in Years |-> "not stored"], [y \in Years |-> "yes"]}
    /\ work = [c \in Collectors |-> NotCollecting]
    /\ determined = NoYear /\ settled = NoYear /\ persists = 0

(* One of the initial states.                                              *)
NothingSaid ==
    /\ setting = NoYear /\ \A y \in Years : marks[y] = "not stored"
    /\ \A y, z \in Years : offered[y] = offered[z] /\ offered[y].flag = "silent"

----------------------------------------------------------------------------
(* A day passes; the next season may be listed before it begins.           *)
DayPasses ==
    /\ \E y \in Years : YearOf(today) < y \/ (YearOf(today) = y /\ Played(today))
    /\ today' = today + 1
    /\ UNCHANGED <<setting, offered, published, marks, work, determined, settled, persists>>

SeasonPublished ==
    /\ \E y \in Years \ published : published' = published \cup {y}
    /\ UNCHANGED <<today, setting, offered, marks, work, determined, settled, persists>>

----------------------------------------------------------------------------
(* An operator bootstraps or synchronises the season he names; the refresh *)
(* asks for the configured season or that of the calendar, and passes no   *)
(* configured one on.                                                      *)
Command(c) ==
    \E year \in Years :
       work' = [work EXCEPT ![c] = [NotCollecting EXCEPT !.at = "list", !.asked = year,
                                                         !.configured = setting]]

Refresh(c) ==
    work' = [work EXCEPT ![c] = [NotCollecting EXCEPT !.at = "list",
                !.asked = IF setting # NoYear THEN setting ELSE YearOf(today)]]

BeginCollection(c) ==
    /\ work[c].at = "idle" /\ persists < MaxPersists
    /\ Command(c) \/ Refresh(c)
    /\ UNCHANGED <<today, setting, offered, published, marks, determined, settled, persists>>

(* select_season: one season matches the selector, or the collection       *)
(* fails; and whether the configured one can be told from the same list.   *)
SelectorMatches(all, year) == all \cap {year}

SelectSeason(c) ==
    /\ work[c].at = "list"
    /\ IF Cardinality(SelectorMatches(published, work[c].asked)) = 1
       THEN work' = [work EXCEPT ![c] =
                       [NotCollecting EXCEPT !.at = "rounds", !.own = work[c].asked,
                          !.configured = IF SelectorMatches(published, setting) # {}
                                         THEN work[c].configured ELSE NoYear]]
       ELSE work' = [work EXCEPT ![c] = NotCollecting]
    /\ UNCHANGED <<today, setting, offered, published, marks, determined, settled, persists>>

(* A season's window is its own dates, else the span of its rounds.        *)
IsCurrentSeason(y) ==
    CASE offered[y].flag = "yes" -> TRUE
      [] offered[y].flag = "no"  -> FALSE
      [] OTHER -> offered[y].dates # "none" /\ YearOf(today) = y /\ Played(today)

ResolveCurrentSeason(c) ==
    IF work[c].configured # NoYear THEN work[c].configured
    ELSE IF IsCurrentSeason(work[c].own) THEN work[c].own ELSE NoYear

(* The rounds, teams and matches; a round without a number, or with finals *)
(* and other matches in it, fails the collection.                          *)
CollectRounds(c) ==
    /\ work[c].at = "rounds"
    /\ \/ work' = [work EXCEPT ![c] = NotCollecting]
       \/ work' = [work EXCEPT ![c].at = "persist", ![c].current = ResolveCurrentSeason(c)]
    /\ UNCHANGED <<today, setting, offered, published, marks, determined, settled, persists>>

(* Mutant of Marked: a season is marked by its own flag.                   *)
MarkedAsFlagged(own, current) ==
    [y \in Years |-> IF y = own THEN IF offered[y].flag = "yes" THEN "yes" ELSE "no"
                     ELSE IF current \notin {NoYear, y} /\ marks[y] # "not stored" THEN "no"
                     ELSE marks[y]]

(* The season's own marker, and that of every other one but the current.   *)
Marked(own, current) ==
    [y \in Years |-> IF y = own THEN IF current = own THEN "yes" ELSE "no"
                     ELSE IF current \notin {NoYear, y} /\ marks[y] # "not stored" THEN "no"
                     ELSE marks[y]]

PersistCollected(c) ==
    /\ work[c].at = "persist"
    /\ \/ /\ persists < MaxPersists
          /\ LET own     == work[c].own
                 current == work[c].current
             IN /\ marks' = Marked(own, current)
                /\ determined' = IF current # NoYear THEN current ELSE determined
                /\ settled' = IF current = NoYear \/ work[c].configured # current THEN NoYear
                              ELSE IF own = current THEN own ELSE settled
          /\ persists' = persists + 1
       \/ UNCHANGED <<marks, determined, settled, persists>>
    /\ work' = [work EXCEPT ![c] = NotCollecting]
    /\ UNCHANGED <<today, setting, offered, published>>

SeasonNext ==
    \/ DayPasses \/ SeasonPublished
    \/ \E c \in Collectors :
         BeginCollection(c) \/ SelectSeason(c) \/ CollectRounds(c) \/ PersistCollected(c)

SeasonSpec == SeasonInit /\ [][SeasonNext]_seasonVars

----------------------------------------------------------------------------
(* The marker follows what was found out, whoever persists in between and  *)
(* whatever was stored before: no season is marked but the one determined  *)
(* last; and the configured season, once its own command has marked it,    *)
(* keeps its mark while commands persist other seasons.                    *)
MarkerFollowsEvidence ==
    LET marked == {y \in Years : marks[y] = "yes"}
    IN /\ determined # NoYear => marked \subseteq {determined}
       /\ settled # NoYear => marked = {settled}
=============================================================================
