-------------------------- MODULE SeasonData_proofs --------------------------
(* What the season's data promise, for any players, matches, seasons, commands  *)
(* and requests: the injury list, the league's summaries, the current season,   *)
(* the operator's commands, and what is built from the statistics or read of    *)
(* them.  Services takes the steps of these modules as they are.                *)
EXTENDS Injuries, StatsPro, CurrentSeason, StatHistory, SeasonSummaries, SeasonCommands,
        SeasonSync, Reads, PageWalk, SeasonReport, PlayerIdentity,
        Counting_proofs, FiniteSetTheorems, TLAPS

-----------------------------------------------------------------------------
(* The injury list.                                                             *)

InjuryRows == [club : Clubs \cup {NoClub}, current : BOOLEAN]
Listings   == [club : Clubs \cup {NoClub}, updated : Updates \cup {NoClub}]

InjuryInv ==
  /\ injury \in [Patients -> [Updates -> InjuryRows]]
  /\ listed \in [Patients -> Listings]
  /\ InjuredAsLastSeen

LEMMA InjuryStarts == InjuryInit => InjuryInv
  <1> SUFFICES ASSUME InjuryInit PROVE InjuryInv
    OBVIOUS
  <1>1. NoInjury \in InjuryRows /\ NotListed \in Listings /\ NoInjury.current = FALSE
    BY DEF NoInjury, NotListed, InjuryRows, Listings
  <1>2. \A u \in Updates, c \in Clubs \cup {NoClub} : NotListed # [club |-> c, updated |-> u]
    BY NoClubAssumption DEF NotListed
  <1>3. /\ injury \in [Patients -> [Updates -> InjuryRows]] /\ listed \in [Patients -> Listings]
        /\ \A p \in Patients, u \in Updates : injury[p][u] = NoInjury /\ listed[p] = NotListed
    BY <1>1 DEF InjuryInit
  <1>4. NoInjury.club \in Clubs \cup {NoClub}
    BY DEF NoInjury
  <1> QED BY <1>1, <1>2, <1>3, <1>4 DEF InjuryInv, InjuredAsLastSeen

\* One player and one date: the row stays current with what the page says.
LEMMA RowFollowsPage ==
  ASSUME InjuryInv, NEW page \in Pages, NEW p \in Patients, NEW u \in Updates
  PROVE  /\ RowAfter(page, p, u) \in InjuryRows
         /\ RowAfter(page, p, u).current
              <=> ListedAfter(page, p) = [club |-> RowAfter(page, p, u).club, updated |-> u]
  <1>1. /\ page.on[p] \in Clubs \cup {NoClub} /\ page.updated \in [Clubs -> Updates]
        /\ page.shown \subseteq Clubs
    BY DEF Pages
  <1>2. /\ injury[p][u] \in InjuryRows /\ listed[p] \in Listings
        /\ injury[p][u].current <=> listed[p] = [club |-> injury[p][u].club, updated |-> u]
    BY DEF InjuryInv, InjuredAsLastSeen
  <1>3. CASE OnPage(page, p)
    <2>1. page.on[p] \in Clubs /\ DateOf(page, p) \in Updates
      BY <1>1, <1>3 DEF OnPage, DateOf
    <2>2. ListedAfter(page, p) = [club |-> page.on[p], updated |-> DateOf(page, p)]
      BY <1>3 DEF ListedAfter
    <2>3. CASE DateOf(page, p) = u
      <3>1. RowAfter(page, p, u) = [club |-> page.on[p], current |-> TRUE]
        BY <1>3, <2>3 DEF RowAfter
      <3> QED BY <2>1, <2>2, <2>3, <3>1 DEF InjuryRows, Listings
    <2>4. CASE DateOf(page, p) # u
      <3>1. RowAfter(page, p, u) = [injury[p][u] EXCEPT !.current = FALSE]
        BY <1>3, <2>4 DEF RowAfter, Retires
      <3>2. RowAfter(page, p, u) \in InjuryRows /\ ~RowAfter(page, p, u).current
        BY <1>2, <3>1 DEF InjuryRows
      <3>3. ListedAfter(page, p).updated # u
        BY <2>2, <2>4
      <3> QED BY <3>2, <3>3
    <2> QED BY <2>3, <2>4
  <1>4. CASE ~OnPage(page, p) /\ Expires(page, p, u)
    <2>1. RowAfter(page, p, u) = [injury[p][u] EXCEPT !.current = FALSE]
      BY <1>4 DEF RowAfter
    <2>2. injury[p][u].club \in page.shown /\ ~page.unclear
      BY <1>4 DEF Expires
    <2>3. ListedAfter(page, p) = IF listed[p].club \in page.shown THEN NotListed ELSE listed[p]
      BY <1>4, <2>2 DEF ListedAfter
    <2>4. NotListed \in Listings /\ NotListed.updated # u
      BY NoClubAssumption DEF NotListed, Listings
    <2>5. RowAfter(page, p, u) \in InjuryRows /\ ~RowAfter(page, p, u).current
          /\ RowAfter(page, p, u).club = injury[p][u].club
      BY <1>2, <2>1 DEF InjuryRows
    <2>6. ListedAfter(page, p) # [club |-> injury[p][u].club, updated |-> u]
      BY <2>2, <2>3, <2>4
    <2> QED BY <1>2, <2>3, <2>4, <2>5, <2>6
  <1>5. CASE ~OnPage(page, p) /\ ~Expires(page, p, u)
    <2>1. RowAfter(page, p, u) = injury[p][u]
      BY <1>5 DEF RowAfter, Retires
    <2>2. ListedAfter(page, p) = listed[p]
          \/ (ListedAfter(page, p) = NotListed /\ listed[p].club \in page.shown /\ ~page.unclear)
      BY <1>5 DEF ListedAfter
    <2>3. NotListed \in Listings /\ NotListed.updated # u
      BY NoClubAssumption DEF NotListed, Listings
    <2>4. ~(injury[p][u].club \in page.shown /\ ~page.unclear)
      BY <1>5 DEF Expires
    <2> QED BY <1>2, <2>1, <2>2, <2>3, <2>4
  <1> QED BY <1>3, <1>4, <1>5

LEMMA InjurySteps == InjuryInv /\ [CollectInjuries]_injuryVars => InjuryInv'
  <1>1. ASSUME InjuryInv, UNCHANGED injuryVars PROVE InjuryInv'
    BY <1>1 DEF InjuryInv, InjuredAsLastSeen, injuryVars
  <1>2. ASSUME InjuryInv, CollectInjuries PROVE InjuryInv'
    <2>1. PICK page \in Pages :
             /\ injury' = [p \in Patients |-> [u \in Updates |-> RowAfter(page, p, u)]]
             /\ listed' = [p \in Patients |-> ListedAfter(page, p)]
      BY <1>2 DEF CollectInjuries
    <2>2. \A p \in Patients, u \in Updates :
             /\ RowAfter(page, p, u) \in InjuryRows
             /\ RowAfter(page, p, u).current
                  <=> ListedAfter(page, p) = [club |-> RowAfter(page, p, u).club, updated |-> u]
      BY <1>2, RowFollowsPage
    <2>3. \A p \in Patients : ListedAfter(page, p) \in Listings
      <3> SUFFICES ASSUME NEW p \in Patients PROVE ListedAfter(page, p) \in Listings
        OBVIOUS
      <3>1. page.on[p] \in Clubs \cup {NoClub} /\ page.updated \in [Clubs -> Updates]
        BY DEF Pages
      <3>2. listed[p] \in Listings /\ NotListed \in Listings
        BY <1>2 DEF InjuryInv, Listings, NotListed
      <3>3. OnPage(page, p) => [club |-> page.on[p], updated |-> DateOf(page, p)] \in Listings
        BY <3>1 DEF OnPage, DateOf, Listings
      <3> QED BY <3>2, <3>3 DEF ListedAfter
    <2>4. injury' \in [Patients -> [Updates -> InjuryRows]] /\ listed' \in [Patients -> Listings]
      BY <2>1, <2>2, <2>3
    <2>5. \A p \in Patients, u \in Updates :
             injury'[p][u] = RowAfter(page, p, u) /\ listed'[p] = ListedAfter(page, p)
      BY <2>1
    <2>6. InjuredAsLastSeen'
      BY <2>2, <2>5 DEF InjuredAsLastSeen
    <2> QED BY <2>4, <2>6 DEF InjuryInv
  <1> QED BY <1>1, <1>2

\* For any players, clubs and dates, whatever pages come: the current rows of the injury
\* list are what the pages last said of each player (InjuryResolver,
\* InjuryPersistenceAdapter.persist).
THEOREM InjuriesAreAsSeen == InjurySpec => []InjuredAsLastSeen
  <1>1. InjuryInv => InjuredAsLastSeen
    BY DEF InjuryInv
  <1> QED BY <1>1, InjuryStarts, InjurySteps, PTL DEF InjurySpec

-----------------------------------------------------------------------------
(* The summaries the league publishes.                                          *)

RowsOfContext == [ProPlayers -> Editions \cup {NoEdition}]
Commands == [at : {"idle", "fetched", "rows"}, context : Contexts \cup {"none"},
             edition : Editions \cup {NoEdition}, left : SUBSET ProPlayers, rows : RowsOfContext]
AppliedRows == [all : SUBSET Editions, last : Editions \cup {NoEdition}]

ProTyped ==
  /\ edition \in Editions /\ summaries \in [Contexts -> RowsOfContext]
  /\ importer \in [Importers -> Commands] /\ applied \in [Contexts -> AppliedRows]

\* What a command fetched it fetched for a context and of an edition.
FetchedKnown ==
  \A c \in Importers : importer[c].at # "idle"
    => importer[c].context \in Contexts /\ importer[c].edition \in Editions

\* The write lock lets one command at a time into its savepoint.
OneSavepoint ==
  \A c, d \in Importers : importer[c].at = "rows" /\ importer[d].at = "rows" => c = d

\* The rows of a savepoint: the players gone through have the row of its edition, every
\* other row is the committed one.
PartOfEdition(rows, stored, of, open) ==
  /\ open \subseteq ListedIn[of]
  /\ \A p \in ListedIn[of] \ open : rows[p] = of
  /\ \A p \in ProPlayers : (rows[p] = of /\ p \in ListedIn[of]) \/ rows[p] = stored[p]

SavepointsOfEditions ==
  \A c \in Importers : importer[c].at = "rows"
    => PartOfEdition(importer[c].rows, summaries[importer[c].context],
                     importer[c].edition, importer[c].left)

ProInv == ProTyped /\ FetchedKnown /\ OneSavepoint /\ SavepointsOfEditions /\ PublishedWhole

\* There is a next player to persist.
LEMMA NextRowIsLeft ==
  ASSUME NEW c \in Importers, importer[c].left \subseteq ProPlayers, importer[c].left # {}
  PROVE  NextRow(c) \in importer[c].left
  <1> DEFINE open == importer[c].left
  <1>1. open \subseteq Nat /\ open # {}
    BY EditionsAssumption
  <1> HIDE DEF open
  <1>2. \E p \in open : \A q \in open : p <= q
    BY <1>1, LeastOf
  <1> QED BY <1>2 DEF NextRow, open

LEMMA ProStarts == ProInit => ProInv
  <1> SUFFICES ASSUME ProInit PROVE ProInv
    OBVIOUS
  <1>1. NoSummaries \in RowsOfContext /\ \A p \in ProPlayers : NoSummaries[p] = NoEdition
    BY DEF NoSummaries, RowsOfContext
  <1>2. Unused \in Commands /\ Unused.at = "idle"
    BY <1>1 DEF Unused, Commands
  <1>3. importer \in [Importers -> Commands] /\ \A c \in Importers : importer[c] = Unused
    BY <1>2 DEF ProInit
  <1>4. applied \in [Contexts -> AppliedRows] /\ \A x \in Contexts : applied[x].last = NoEdition
    BY DEF ProInit, AppliedRows
  <1>5. summaries \in [Contexts -> RowsOfContext] /\ \A x \in Contexts : summaries[x] = NoSummaries
    BY <1>1 DEF ProInit
  <1>6. ProTyped
    BY <1>3, <1>4, <1>5 DEF ProInit, ProTyped
  <1>7. FetchedKnown /\ OneSavepoint /\ SavepointsOfEditions
    BY <1>2, <1>3 DEF FetchedKnown, OneSavepoint, SavepointsOfEditions
  <1>8. PublishedWhole
    BY <1>1, <1>4, <1>5 DEF PublishedWhole
  <1> QED BY <1>6, <1>7, <1>8 DEF ProInv

\* A command goes on without anything being committed.
LEMMA CommandStepKeeps ==
  ASSUME ProInv, NEW c \in Importers, NEW next \in Commands,
         importer' = [importer EXCEPT ![c] = next], UNCHANGED <<summaries, applied>>,
         edition' \in Editions,
         next.at # "idle" => next.context \in Contexts /\ next.edition \in Editions,
         next.at = "rows" =>
           /\ \A d \in Importers \ {c} : importer[d].at # "rows"
           /\ PartOfEdition(next.rows, summaries[next.context], next.edition, next.left)
  PROVE  ProInv'
  <1>1. /\ importer' \in [Importers -> Commands] /\ importer'[c] = next
        /\ \A d \in Importers : d # c => importer'[d] = importer[d]
    BY DEF ProInv, ProTyped
  <1>2. ProTyped'
    BY <1>1 DEF ProInv, ProTyped
  <1>3. FetchedKnown'
    BY <1>1 DEF ProInv, FetchedKnown
  <1>4. OneSavepoint'
    BY <1>1 DEF ProInv, OneSavepoint
  <1>5. SavepointsOfEditions'
    <2> SUFFICES ASSUME NEW d \in Importers, importer'[d].at = "rows"
                 PROVE  PartOfEdition(importer'[d].rows, summaries[importer'[d].context],
                                      importer'[d].edition, importer'[d].left)
      BY DEF SavepointsOfEditions, PartOfEdition
    <2>1. CASE d = c
      BY <1>1, <2>1
    <2>2. CASE d # c
      BY <1>1, <2>2 DEF ProInv, SavepointsOfEditions
    <2> QED BY <2>1, <2>2
  <1>6. PublishedWhole'
    BY DEF ProInv, PublishedWhole
  <1> QED BY <1>2, <1>3, <1>4, <1>5, <1>6 DEF ProInv

LEMMA UnusedIsCommand == Unused \in Commands /\ Unused.at = "idle"
  <1>1. NoSummaries \in RowsOfContext
    BY DEF NoSummaries, RowsOfContext
  <1> QED BY <1>1 DEF Unused, Commands

LEMMA FetchEditionKeeps ==
  ASSUME ProInv, NEW c \in Importers, FetchEdition(c)
  PROVE  ProInv'
  <1>1. PICK x \in Contexts :
          importer' = [importer EXCEPT ![c] = [Unused EXCEPT !.at = "fetched", !.context = x,
                                                             !.edition = edition]]
    BY DEF FetchEdition
  <1> DEFINE next == [Unused EXCEPT !.at = "fetched", !.context = x, !.edition = edition]
  <1>2. edition \in Editions /\ UNCHANGED <<edition, summaries, applied>>
    BY DEF ProInv, ProTyped, FetchEdition
  <1>3. next \in Commands /\ next.at = "fetched" /\ next.context = x /\ next.edition = edition
    BY <1>2, UnusedIsCommand DEF Commands
  <1>4. importer' = [importer EXCEPT ![c] = next]
    BY <1>1
  <1> HIDE DEF next
  <1> QED BY <1>2, <1>3, <1>4, CommandStepKeeps

LEMMA OpenSavepointKeeps ==
  ASSUME ProInv, NEW c \in Importers, OpenSavepoint(c)
  PROVE  ProInv'
  <1>1. importer[c].at = "fetched" /\ UNCHANGED <<edition, summaries, applied>>
    BY DEF OpenSavepoint
  <1>2. /\ importer[c] \in Commands /\ edition \in Editions /\ importer[c].context \in Contexts
        /\ importer[c].edition \in Editions
    BY <1>1 DEF ProInv, ProTyped, FetchedKnown
  <1> DEFINE next == [importer[c] EXCEPT !.at = "rows", !.left = ListedIn[importer[c].edition],
                                         !.rows = summaries[importer[c].context]]
  <1>3. CASE importer' = [importer EXCEPT ![c] = Unused]
    BY <1>1, <1>2, <1>3, UnusedIsCommand, CommandStepKeeps
  <1>4. CASE /\ \A d \in Importers : importer[d].at # "rows"
             /\ importer' = [importer EXCEPT ![c].at = "rows",
                                             ![c].left = ListedIn[importer[c].edition],
                                             ![c].rows = summaries[importer[c].context]]
    <2>1. importer' = [importer EXCEPT ![c] = next]
      BY <1>2, <1>4 DEF ProInv, ProTyped, Commands
    <2>2. /\ ListedIn[importer[c].edition] \subseteq ProPlayers
          /\ summaries[importer[c].context] \in RowsOfContext
      BY <1>2, EditionsAssumption DEF ProInv, ProTyped
    <2>3. /\ next \in Commands /\ next.context = importer[c].context
          /\ next.edition = importer[c].edition /\ next.left = ListedIn[importer[c].edition]
          /\ next.rows = summaries[importer[c].context]
      BY <1>2, <2>2 DEF Commands
    <2> HIDE DEF next
    <2>4. PartOfEdition(next.rows, summaries[next.context], next.edition, next.left)
      BY <2>3 DEF PartOfEdition
    <2>5. \A d \in Importers \ {c} : importer[d].at # "rows"
      BY <1>4
    <2>6. UNCHANGED <<summaries, applied>> /\ edition' \in Editions
      BY <1>1, <1>2
    <2> QED BY <1>2, <2>1, <2>3, <2>4, <2>5, <2>6, CommandStepKeeps
  <1> QED BY <1>3, <1>4 DEF OpenSavepoint

LEMMA PersistRowKeeps ==
  ASSUME ProInv, NEW c \in Importers, PersistRow(c)
  PROVE  ProInv'
  <1>1. /\ importer[c].at = "rows" /\ importer[c].left # {}
        /\ UNCHANGED <<edition, summaries, applied>>
    BY DEF PersistRow
  <1>2. /\ importer[c] \in Commands /\ edition \in Editions /\ importer[c].context \in Contexts
        /\ importer[c].edition \in Editions
        /\ PartOfEdition(importer[c].rows, summaries[importer[c].context],
                         importer[c].edition, importer[c].left)
        /\ \A d \in Importers \ {c} : importer[d].at # "rows"
    BY <1>1 DEF ProInv, ProTyped, FetchedKnown, OneSavepoint, SavepointsOfEditions
  <1> DEFINE p == NextRow(c)
             next == [importer[c] EXCEPT !.rows = [importer[c].rows EXCEPT ![p] = importer[c].edition],
                                         !.left = importer[c].left \ {p}]
  <1>3. p \in importer[c].left /\ p \in ProPlayers
    BY <1>1, <1>2, NextRowIsLeft DEF Commands
  <1>4. importer' = [importer EXCEPT ![c] = next]
    BY <1>2 DEF PersistRow, ProInv, ProTyped, Commands
  <1> HIDE DEF p
  <1>5. /\ next \in Commands /\ next.context = importer[c].context /\ next.at = "rows"
        /\ next.edition = importer[c].edition /\ next.left = importer[c].left \ {p}
        /\ next.rows = [importer[c].rows EXCEPT ![p] = importer[c].edition]
    BY <1>1, <1>2, <1>3 DEF Commands, RowsOfContext
  <1> HIDE DEF next
  <1>6. importer[c].rows \in RowsOfContext
    BY <1>2 DEF Commands
  <1>7. PartOfEdition(next.rows, summaries[next.context], next.edition, next.left)
    BY <1>2, <1>3, <1>5, <1>6 DEF PartOfEdition, RowsOfContext
  <1> QED BY <1>1, <1>2, <1>4, <1>5, <1>7, CommandStepKeeps

LEMMA RowFailsKeeps ==
  ASSUME ProInv, NEW c \in Importers, RowFails(c) \/ Dies(c)
  PROVE  ProInv'
  <1>1. importer[c].at = "rows" /\ importer' = [importer EXCEPT ![c] = Unused]
    BY DEF RowFails, Dies
  <1>2. summaries' = summaries /\ UNCHANGED <<edition, applied>> /\ edition \in Editions
    BY <1>1 DEF RowFails, Dies, RolledBack, ProInv, ProTyped
  <1> QED BY <1>1, <1>2, UnusedIsCommand, CommandStepKeeps

LEMMA ReleaseSavepointKeeps ==
  ASSUME ProInv, NEW c \in Importers, ReleaseSavepoint(c)
  PROVE  ProInv'
  <1>0. PICK x, e : x = importer[c].context /\ e = importer[c].edition
    OBVIOUS
  <1>1. /\ importer[c].at = "rows" /\ importer[c].left = {}
        /\ summaries' = [summaries EXCEPT ![x] = importer[c].rows]
        /\ applied' = [applied EXCEPT ![x] = [all |-> applied[x].all \cup {e}, last |-> e]]
        /\ importer' = [importer EXCEPT ![c] = Unused] /\ UNCHANGED edition
    BY <1>0 DEF ReleaseSavepoint
  <1>2. /\ importer[c] \in Commands /\ edition \in Editions /\ x \in Contexts /\ e \in Editions
        /\ PartOfEdition(importer[c].rows, summaries[x], e, {})
        /\ \A d \in Importers \ {c} : importer[d].at # "rows"
    BY <1>0, <1>1 DEF ProInv, ProTyped, FetchedKnown, OneSavepoint, SavepointsOfEditions
  <1>3. importer[c].rows \in RowsOfContext /\ applied[x] \in AppliedRows
    BY <1>2 DEF Commands, ProInv, ProTyped
  <1>4. [all |-> applied[x].all \cup {e}, last |-> e] \in AppliedRows
    BY <1>2, <1>3 DEF AppliedRows
  <1>5. /\ importer' \in [Importers -> Commands] /\ importer'[c] = Unused
        /\ \A d \in Importers : d # c => importer'[d] = importer[d]
    BY <1>1, UnusedIsCommand DEF ProInv, ProTyped
  <1>6. ProTyped'
    BY <1>1, <1>2, <1>3, <1>4, <1>5 DEF ProInv, ProTyped
  <1>7. \A d \in Importers : importer'[d].at # "rows"
    BY <1>2, <1>5, UnusedIsCommand
  <1>8. FetchedKnown' /\ OneSavepoint' /\ SavepointsOfEditions'
    <2>1. FetchedKnown'
      BY <1>5, UnusedIsCommand DEF ProInv, FetchedKnown
    <2> QED BY <1>7, <2>1 DEF OneSavepoint, SavepointsOfEditions
  <1>9. PublishedWhole'
    <2>1. /\ summaries'[x] = importer[c].rows /\ applied'[x].last = e
          /\ applied'[x].all = applied[x].all \cup {e}
          /\ \A y \in Contexts : y # x => summaries'[y] = summaries[y] /\ applied'[y] = applied[y]
      BY <1>1, <1>2 DEF ProInv, ProTyped
    <2>2. \A p \in ListedIn[e] : importer[c].rows[p] = e
      BY <1>2 DEF PartOfEdition
    <2>3. \A p \in ProPlayers : importer[c].rows[p] # NoEdition
            => importer[c].rows[p] \in applied'[x].all /\ p \in ListedIn[importer[c].rows[p]]
      BY <1>2, <2>1 DEF PartOfEdition, ProInv, PublishedWhole
    <2> QED BY <2>1, <2>2, <2>3 DEF ProInv, PublishedWhole
  <1> QED BY <1>6, <1>8, <1>9 DEF ProInv

LEMMA ProSteps == ProInv /\ [ProNext]_proVars => ProInv'
  <1>1. ASSUME ProInv, UNCHANGED proVars PROVE ProInv'
    BY <1>1 DEF ProInv, ProTyped, FetchedKnown, OneSavepoint, SavepointsOfEditions,
                PartOfEdition, PublishedWhole, proVars
  <1>2. ASSUME ProInv, Publish PROVE ProInv'
    BY <1>2 DEF ProInv, ProTyped, FetchedKnown, OneSavepoint, SavepointsOfEditions,
                PartOfEdition, PublishedWhole, Publish
  <1> QED BY <1>1, <1>2, FetchEditionKeeps, OpenSavepointKeeps, PersistRowKeeps, RowFailsKeeps,
             ReleaseSavepointKeeps DEF ProNext

\* For any editions, players and commands, however they overlap, fail and die: what is
\* stored of the league's summaries is whole editions (persist_season).
THEOREM EditionsAreWhole == ProSpec => []PublishedWhole
  <1>1. ProInv => PublishedWhole
    BY DEF ProInv
  <1> QED BY <1>1, ProStarts, ProSteps, PTL DEF ProSpec

-----------------------------------------------------------------------------
(* The current season.                                                          *)

YearsOrNone == Years \cup {NoYear}
Marks == {"not stored", "yes", "no"}
CollectionRows == [at : {"idle", "list", "rounds", "persist"}, configured : YearsOrNone,
                asked : Nat, own : YearsOrNone, current : YearsOrNone]

SeasonTyped ==
  /\ setting \in YearsOrNone /\ marks \in [Years -> Marks]
  /\ work \in [Collectors -> CollectionRows] /\ today \in Nat
  /\ published \subseteq Years
  /\ determined \in YearsOrNone /\ settled \in YearsOrNone

\* What a collection found out: of the season it selected, and never another one current
\* than that or the configured one, which is the setting's.
Determination ==
  \A c \in Collectors :
    /\ work[c].configured \in {NoYear, setting}
    /\ work[c].at \in {"rounds", "persist"} => work[c].own \in Years
    /\ work[c].at = "persist" =>
         work[c].current \in {NoYear, work[c].own, work[c].configured}

SeasonInv ==
  /\ SeasonTyped /\ Determination /\ MarkerFollowsEvidence
  /\ settled \in {NoYear, setting}

LEMMA SeasonStarts == SeasonInit => SeasonInv
  <1> SUFFICES ASSUME SeasonInit PROVE SeasonInv
    OBVIOUS
  <1>1. NoYear \in Nat /\ NotCollecting \in CollectionRows
    BY DEF NotCollecting, CollectionRows, YearsOrNone, NoYear
  <1>2. work \in [Collectors -> CollectionRows] /\ \A c \in Collectors : work[c] = NotCollecting
    BY <1>1 DEF SeasonInit
  <1>3. marks \in [Years -> Marks]
    BY DEF SeasonInit, Marks
  <1>4. today \in Nat
    <2>1. PICK first \in Years : today = first * DaysPerYear
      BY DEF SeasonInit
    <2>2. first \in Nat /\ DaysPerYear \in Nat
      BY YearsAssumption, CalendarAssumption
    <2> QED BY <2>1, <2>2
  <1>5. SeasonTyped
    BY <1>2, <1>3, <1>4 DEF SeasonInit, SeasonTyped, YearsOrNone
  <1>6. Determination
    BY <1>2 DEF Determination, NotCollecting
  <1> QED BY <1>5, <1>6 DEF SeasonInit, SeasonInv, MarkerFollowsEvidence

\* A collection goes on without anything being persisted.
LEMMA CollectionKeeps ==
  ASSUME SeasonInv, NEW c \in Collectors, NEW next \in CollectionRows,
         work' = [work EXCEPT ![c] = next], UNCHANGED <<setting, published, marks, determined, settled, today>>,
         next.configured \in {NoYear, setting},
         next.at \in {"rounds", "persist"} => next.own \in Years,
         next.at = "persist" => next.current \in {NoYear, next.own, next.configured}
  PROVE  SeasonInv'
  <1>1. /\ work' \in [Collectors -> CollectionRows] /\ work'[c] = next
        /\ \A d \in Collectors : d # c => work'[d] = work[d]
    BY DEF SeasonInv, SeasonTyped
  <1>2. SeasonTyped'
    BY <1>1 DEF SeasonInv, SeasonTyped
  <1>3. Determination'
    BY <1>1 DEF SeasonInv, Determination
  <1> QED BY <1>2, <1>3 DEF SeasonInv, MarkerFollowsEvidence

LEMMA BeginCollectionKeeps ==
  ASSUME SeasonInv, NEW c \in Collectors, BeginCollection(c)
  PROVE  SeasonInv'
  <1>1. UNCHANGED <<setting, published, marks, determined, settled, today>> /\ setting \in YearsOrNone
    BY DEF BeginCollection, SeasonInv, SeasonTyped
  <1>2. CASE Command(c)
    <2>1. PICK year \in Years :
            work' = [work EXCEPT ![c] = [NotCollecting EXCEPT !.at = "list", !.asked = year,
                                                              !.configured = setting]]
      BY <1>2 DEF Command
    <2> DEFINE next == [NotCollecting EXCEPT !.at = "list", !.asked = year, !.configured = setting]
    <2>2. next \in CollectionRows /\ next.at = "list" /\ next.configured = setting
      BY <1>1, YearsAssumption DEF NotCollecting, CollectionRows, YearsOrNone, NoYear
    <2>3. work' = [work EXCEPT ![c] = next]
      BY <2>1
    <2> HIDE DEF next
    <2> QED BY <1>1, <2>2, <2>3, CollectionKeeps
  <1>3. CASE Refresh(c)
    <2> DEFINE year == IF setting # NoYear THEN setting ELSE YearOf(today)
               next == [NotCollecting EXCEPT !.at = "list", !.asked = year]
    <2>1. YearOf(today) \in Nat
      BY CalendarAssumption DEF YearOf, SeasonInv, SeasonTyped
    <2>2. year \in Nat
      BY <1>1, <2>1, YearsAssumption DEF YearsOrNone
    <2>3. work' = [work EXCEPT ![c] = next]
      BY <1>3 DEF Refresh
    <2> HIDE DEF year
    <2>4. next \in CollectionRows /\ next.at = "list" /\ next.configured = NoYear
      BY <2>2 DEF NotCollecting, CollectionRows, YearsOrNone, NoYear
    <2> HIDE DEF next
    <2> QED BY <1>1, <2>3, <2>4, CollectionKeeps
  <1> QED BY <1>2, <1>3 DEF BeginCollection

LEMMA SelectSeasonKeeps ==
  ASSUME SeasonInv, NEW c \in Collectors, SelectSeason(c)
  PROVE  SeasonInv'
  <1>1. UNCHANGED <<setting, published, marks, determined, settled, today>> /\ work[c] \in CollectionRows
        /\ work[c].configured \in {NoYear, setting} /\ setting \in YearsOrNone
    BY DEF SelectSeason, SeasonInv, SeasonTyped, Determination
  <1>2. NotCollecting \in CollectionRows /\ NotCollecting.at = "idle" /\ NotCollecting.configured = NoYear
    BY DEF NotCollecting, CollectionRows, YearsOrNone, NoYear
  <1>3. CASE work' = [work EXCEPT ![c] = NotCollecting]
    BY <1>1, <1>2, <1>3, CollectionKeeps
  <1>4. ASSUME Cardinality(SelectorMatches(published, work[c].asked)) = 1,
               NEW configured \in {NoYear, work[c].configured},
               work' = [work EXCEPT ![c] = [NotCollecting EXCEPT !.at = "rounds",
                                              !.own = work[c].asked, !.configured = configured]]
        PROVE  SeasonInv'
    <2>1. work[c].asked \in Years
      <3>1. work[c].asked \in published
        <4>1. CASE work[c].asked \notin published
          <5>1. SelectorMatches(published, work[c].asked) = {}
            BY <4>1 DEF SelectorMatches
          <5> QED BY <1>4, <5>1, FS_EmptySet
        <4> QED BY <4>1
      <3> QED BY <3>1 DEF SeasonInv, SeasonTyped
    <2> DEFINE next == [NotCollecting EXCEPT !.at = "rounds", !.own = work[c].asked,
                                             !.configured = configured]
    <2>2. next \in CollectionRows /\ next.at = "rounds" /\ next.configured \in {NoYear, setting}
          /\ next.own \in Years
      BY <1>1, <2>1 DEF NotCollecting, CollectionRows, YearsOrNone, NoYear
    <2>3. work' = [work EXCEPT ![c] = next]
      BY <1>4
    <2> HIDE DEF next
    <2> QED BY <1>1, <2>2, <2>3, CollectionKeeps
  <1>5. CASE Cardinality(SelectorMatches(published, work[c].asked)) = 1
    <2>1. PICK configured \in {NoYear, work[c].configured} :
             configured = IF SelectorMatches(published, setting) # {}
                          THEN work[c].configured ELSE NoYear
      OBVIOUS
    <2>2. work' = [work EXCEPT ![c] = [NotCollecting EXCEPT !.at = "rounds",
                                         !.own = work[c].asked, !.configured = configured]]
      BY <1>5, <2>1 DEF SelectSeason
    <2> QED BY <1>4, <1>5, <2>2
  <1> QED BY <1>3, <1>5 DEF SelectSeason

LEMMA CollectRoundsKeeps ==
  ASSUME SeasonInv, NEW c \in Collectors, CollectRounds(c)
  PROVE  SeasonInv'
  <1>1. UNCHANGED <<setting, published, marks, determined, settled, today>> /\ work[c] \in CollectionRows
        /\ work[c].configured \in {NoYear, setting} /\ work[c].own \in Years
    BY DEF CollectRounds, SeasonInv, SeasonTyped, Determination
  <1>2. NotCollecting \in CollectionRows /\ NotCollecting.at = "idle" /\ NotCollecting.configured = NoYear
    BY DEF NotCollecting, CollectionRows, YearsOrNone, NoYear
  <1>3. CASE work' = [work EXCEPT ![c] = NotCollecting]
    BY <1>1, <1>2, <1>3, CollectionKeeps
  <1>4. CASE work' = [work EXCEPT ![c].at = "persist", ![c].current = ResolveCurrentSeason(c)]
    <2>1. ResolveCurrentSeason(c) \in {NoYear, work[c].own, work[c].configured}
      BY DEF ResolveCurrentSeason
    <2> DEFINE current == ResolveCurrentSeason(c)
               next == [work[c] EXCEPT !.at = "persist", !.current = current]
    <2>2. work' = [work EXCEPT ![c] = next]
      BY <1>1, <1>4 DEF SeasonInv, SeasonTyped, CollectionRows
    <2> HIDE DEF current
    <2>3. current \in YearsOrNone
      BY <1>1, <2>1 DEF CollectionRows, YearsOrNone, current
    <2>4. next \in CollectionRows /\ next.current = current /\ next.own = work[c].own
          /\ next.configured = work[c].configured
      BY <1>1, <2>3 DEF CollectionRows
    <2> HIDE DEF next
    <2>5. next.current \in {NoYear, next.own, next.configured}
      BY <2>1, <2>4 DEF current
    <2> QED BY <1>1, <2>2, <2>4, <2>5, CollectionKeeps
  <1> QED BY <1>3, <1>4 DEF CollectRounds

LEMMA PersistCollectedKeeps ==
  ASSUME SeasonInv, NEW c \in Collectors, PersistCollected(c)
  PROVE  SeasonInv'
  <1>1. work[c].at = "persist" /\ UNCHANGED <<today, setting, published>> /\ setting \in YearsOrNone
        /\ work' = [work EXCEPT ![c] = NotCollecting]
    BY DEF PersistCollected, SeasonInv, SeasonTyped
  <1>2. NotCollecting \in CollectionRows /\ NotCollecting.at = "idle" /\ NotCollecting.configured = NoYear
    BY DEF NotCollecting, CollectionRows, YearsOrNone, NoYear
  <1>3. CASE UNCHANGED <<marks, determined, settled>>
    BY <1>1, <1>2, <1>3, CollectionKeeps
  <1>4. CASE ~UNCHANGED <<marks, determined, settled>>
    <2>0. PICK own, current, configured :
            own = work[c].own /\ current = work[c].current /\ configured = work[c].configured
      OBVIOUS
    <2>1. /\ marks' = Marked(own, current)
          /\ determined' = IF current # NoYear THEN current ELSE determined
          /\ settled' = IF current = NoYear \/ configured # current THEN NoYear
                        ELSE IF own = current THEN own ELSE settled
      BY <1>4, <2>0 DEF PersistCollected
    <2>2. /\ own \in Years /\ current \in {NoYear, own, configured}
          /\ configured \in {NoYear, setting} /\ NoYear \notin Years
      BY <1>1, <2>0, YearsAssumption DEF SeasonInv, Determination
    <2>3. \A y \in Years :
            marks'[y] = IF y = own THEN IF current = own THEN "yes" ELSE "no"
                        ELSE IF current \notin {NoYear, y} /\ marks[y] # "not stored" THEN "no"
                        ELSE marks[y]
      BY <2>1 DEF Marked
    <2>4. marks' \in [Years -> Marks]
      BY <2>1 DEF Marked, Marks, SeasonInv, SeasonTyped
    <2>5. /\ work' \in [Collectors -> CollectionRows] /\ work'[c] = NotCollecting
          /\ \A d \in Collectors : d # c => work'[d] = work[d]
      BY <1>1, <1>2 DEF SeasonInv, SeasonTyped
    <2>6. determined' \in YearsOrNone /\ settled' \in {NoYear, setting} /\ settled' \in YearsOrNone
      BY <1>1, <2>1, <2>2 DEF SeasonInv, SeasonTyped, YearsOrNone
    <2>7. SeasonTyped'
      BY <1>1, <2>4, <2>5, <2>6 DEF SeasonInv, SeasonTyped
    <2>8. Determination'
      BY <1>1, <1>2, <2>5 DEF SeasonInv, Determination
    <2>9. determined' # NoYear => \A y \in Years : marks'[y] = "yes" => y = determined'
      BY <2>1, <2>2, <2>3 DEF SeasonInv, SeasonTyped, MarkerFollowsEvidence, Marks
    <2>10. settled' # NoYear =>
             settled' \in Years /\ \A y \in Years : marks'[y] = "yes" <=> y = settled'
      <3>1. CASE settled' = own /\ own = current
        BY <2>2, <2>3, <3>1 DEF SeasonInv, SeasonTyped, Marks
      <3>2. CASE settled' = settled /\ own # current /\ current = configured /\ current # NoYear
        <4>1. settled # NoYear => settled = current
          BY <2>2, <3>2 DEF SeasonInv
        <4>2. settled # NoYear => settled \in Years /\ \A y \in Years : marks[y] = "yes" <=> y = settled
          BY DEF SeasonInv, SeasonTyped, MarkerFollowsEvidence, YearsOrNone
        <4> QED BY <2>2, <2>3, <3>2, <4>1, <4>2
      <3> QED BY <2>1, <3>1, <3>2
    <2>11. MarkerFollowsEvidence'
      BY <2>9, <2>10 DEF MarkerFollowsEvidence
    <2> QED BY <1>1, <2>6, <2>7, <2>8, <2>11 DEF SeasonInv
  <1> QED BY <1>3, <1>4

LEMMA SeasonSteps == SeasonInv /\ [SeasonNext]_seasonVars => SeasonInv'
  <1>1. ASSUME SeasonInv, UNCHANGED seasonVars PROVE SeasonInv'
    BY <1>1 DEF SeasonInv, SeasonTyped, Determination, MarkerFollowsEvidence, seasonVars
  <1>2. ASSUME SeasonInv, DayPasses \/ SeasonPublished PROVE SeasonInv'
    <2>1. UNCHANGED <<setting, marks, work, determined, settled>> /\ today' \in Nat
         /\ published' \subseteq Years
      BY <1>2 DEF DayPasses, SeasonPublished, SeasonInv, SeasonTyped
    <2> QED BY <1>2, <2>1 DEF SeasonInv, SeasonTyped, Determination, MarkerFollowsEvidence
  <1> QED BY <1>1, <1>2, BeginCollectionKeeps, SelectSeasonKeeps, CollectRoundsKeeps,
             PersistCollectedKeeps DEF SeasonNext

\* For any seasons, calendar, answers and collections: no season is marked but the one
\* determined last, and the configured one keeps the mark its own command gave it
\* (resolve_current_season, persist_afl_metadata).
THEOREM CurrentSeasonIsKept == SeasonSpec => []MarkerFollowsEvidence
  <1>1. SeasonInv => MarkerFollowsEvidence
    BY DEF SeasonInv
  <1> QED BY <1>1, SeasonStarts, SeasonSteps, PTL DEF SeasonSpec

-----------------------------------------------------------------------------
(* The history of a statistic.                                                  *)

Values     == Numbers \cup {Null}
LineRows   == [reading : Readings, authority : 0 .. 2, at : Nat]
CheckpointRows == [value : Values, authority : 0 .. 2, at : Nat]
CarriedRows == [reading : Readings, authority : 1 .. 2, period : {"FT", "UNKNOWN"}, at : Nat]
ChangeRows == [previous : Values, new : Values]

HistoryTyped ==
  /\ line \in LineRows /\ checkpoints \in [Markers -> CheckpointRows] /\ changes \in Seq(ChangeRows)
  /\ fetches \in Nat /\ carried \in [Writers -> CarriedRows \cup {NothingCarried}]

\* Nothing is kept of a statistic before its first row.
NothingBeforeTheRow == ~Held(line) => changes = <<>> /\ ~Held(checkpoints["BASELINE"])

HistoryInv == HistoryTyped /\ NothingBeforeTheRow /\ HistoryReplays

LEMMA ValuesOfReadings == \A reading \in Readings : ValueOf(reading) \in Values
  BY DEF ValueOf, Values

LEMMA HistoryStarts == HistoryInit => HistoryInv
  <1> SUFFICES ASSUME HistoryInit PROVE HistoryInv
    OBVIOUS
  <1>1. NoLine \in LineRows /\ NoCheckpoint \in CheckpointRows
    BY DEF NoLine, NoCheckpoint, LineRows, CheckpointRows, Readings, Values
  <1>2. line \in LineRows
    BY <1>1 DEF HistoryInit, LineRows
  <1>3. /\ checkpoints \in [Markers -> CheckpointRows] /\ changes = <<>> /\ fetches = 0
        /\ \A k \in Markers : checkpoints[k] = NoCheckpoint
    BY <1>1 DEF HistoryInit
  <1>4. carried \in [Writers -> CarriedRows \cup {NothingCarried}]
    BY DEF HistoryInit
  <1>5. ~Held(checkpoints["BASELINE"])
    BY <1>3 DEF Held, NoCheckpoint, Markers
  <1>6. HistoryTyped
    BY <1>2, <1>3, <1>4 DEF HistoryTyped
  <1>7. HistoryReplays
    BY <1>3, <1>5 DEF HistoryReplays, LastRecorded
  <1> QED BY <1>3, <1>5, <1>6, <1>7 DEF HistoryInv, NothingBeforeTheRow

\* What a response leaves of the baseline: the first row writes it, no later one does.
LEMMA BaselineOnce ==
  ASSUME HistoryInv, NEW w \in Writers, StoreLine(w), carried[w] \in CarriedRows
  PROVE  /\ checkpoints' \in [Markers -> CheckpointRows]
         /\ Held(line) => checkpoints'["BASELINE"] = checkpoints["BASELINE"]
         /\ ~Held(line) => /\ Held(checkpoints'["BASELINE"])
                           /\ checkpoints'["BASELINE"].value = ValueOf(carried[w].reading)
  <1>0. PICK o \in CarriedRows : o = carried[w]
    OBVIOUS
  <1>1. /\ line \in LineRows /\ checkpoints \in [Markers -> CheckpointRows] /\ "BASELINE" \in Markers
    BY DEF HistoryInv, HistoryTyped, Markers
  <1>2. checkpoints' = IF AtLeastAsGood(o, line)
                       THEN [k \in Markers |-> IF k \in MarkersOf(o) THEN Checked(o, checkpoints[k])
                                               ELSE checkpoints[k]]
                       ELSE checkpoints
    BY <1>0 DEF StoreLine
  <1>3. \A k \in Markers : Checked(o, checkpoints[k]) \in CheckpointRows
    BY <1>1, ValuesOfReadings DEF Checked, CheckpointRows, CarriedRows
  <1>4. checkpoints' \in [Markers -> CheckpointRows]
    BY <1>1, <1>2, <1>3
  <1>5. Held(line) => checkpoints'["BASELINE"] = checkpoints["BASELINE"]
    BY <1>1, <1>2 DEF MarkersOf
  <1>6. ASSUME ~Held(line)
        PROVE  /\ Held(checkpoints'["BASELINE"])
               /\ checkpoints'["BASELINE"].value = ValueOf(o.reading)
    <2>1. checkpoints["BASELINE"] \in CheckpointRows /\ ~Held(checkpoints["BASELINE"])
      BY <1>1, <1>6 DEF HistoryInv, NothingBeforeTheRow
    <2>2. o.authority > line.authority /\ o.authority > checkpoints["BASELINE"].authority
      BY <1>1, <1>6, <2>1 DEF Held, LineRows, CheckpointRows, CarriedRows
    <2>3. AtLeastAsGood(o, line) /\ AtLeastAsGood(o, checkpoints["BASELINE"])
      BY <2>2 DEF AtLeastAsGood
    <2>4. "BASELINE" \in MarkersOf(o)
      BY <1>1, <1>6 DEF MarkersOf
    <2>5. checkpoints'["BASELINE"] = Checked(o, checkpoints["BASELINE"])
      BY <1>1, <1>2, <2>3, <2>4
    <2>6. Checked(o, checkpoints["BASELINE"])
            = [value |-> ValueOf(o.reading), authority |-> o.authority, at |-> o.at]
      BY <2>2, <2>3 DEF Checked
    <2> QED BY <2>5, <2>6 DEF Held, CarriedRows
  <1> QED BY <1>0, <1>4, <1>5, <1>6

LEMMA StoreLineKeeps ==
  ASSUME HistoryInv, NEW w \in Writers, StoreLine(w)
  PROVE  HistoryInv'
  <1>1. carried[w] \in CarriedRows /\ fetches' = fetches
        /\ carried' = [carried EXCEPT ![w] = NothingCarried]
    BY DEF StoreLine, HistoryInv, HistoryTyped
  <1>2. PICK o \in CarriedRows : o = carried[w]
    BY <1>1
  <1>3. /\ changes' = Recorded(o)
        /\ line' = IF Admitted(o) THEN [reading |-> o.reading, authority |-> o.authority, at |-> o.at]
                   ELSE line
    BY <1>2 DEF StoreLine
  <1>4. /\ line \in LineRows /\ changes \in Seq(ChangeRows) /\ o.reading \in Readings
        /\ ValueOf(o.reading) \in Values /\ o.authority \in 1 .. 2 /\ line.authority \in 0 .. 2
        /\ checkpoints["BASELINE"] \in CheckpointRows
    BY ValuesOfReadings DEF HistoryInv, HistoryTyped, CarriedRows, LineRows, Markers
  <1>5. LastRecorded \in Values
    <2>1. ValueOf(line.reading) \in Values
      BY <1>4, ValuesOfReadings DEF LineRows
    <2>2. changes # <<>> => changes[Len(changes)] \in ChangeRows
      BY <1>4
    <2> QED BY <1>4, <2>1, <2>2 DEF LastRecorded, ChangeRows, CheckpointRows
  <1>6. line' \in LineRows
    BY <1>3, <1>4 DEF LineRows, CarriedRows
  <1>7. ~Held(line) => Admitted(o)
    BY <1>4 DEF Held, Admitted, AtLeastAsGood
  <1>8. Held(line')
    BY <1>3, <1>4, <1>7 DEF Held
  <1>9. carried' \in [Writers -> CarriedRows \cup {NothingCarried}]
    BY <1>1 DEF HistoryInv, HistoryTyped
  <1>10. NothingBeforeTheRow'
    BY <1>8 DEF NothingBeforeTheRow, Held
  <1>11. /\ checkpoints' \in [Markers -> CheckpointRows]
         /\ Held(line) => checkpoints'["BASELINE"] = checkpoints["BASELINE"]
         /\ ~Held(line) => /\ Held(checkpoints'["BASELINE"])
                           /\ checkpoints'["BASELINE"].value = ValueOf(o.reading)
    BY <1>1, <1>2, BaselineOnce
  <1>12. CASE changes' = changes
    <2>1. HistoryTyped'
      BY <1>1, <1>6, <1>9, <1>11, <1>12 DEF HistoryInv, HistoryTyped
    <2>2. \A i \in 1 .. Len(changes') - 1 : changes'[i].new = changes'[i + 1].previous
      BY <1>12 DEF HistoryInv, HistoryReplays
    <2>3. Held(checkpoints'["BASELINE"]) /\ changes' # <<>>
            => changes'[1].previous = checkpoints'["BASELINE"].value
      BY <1>11, <1>12 DEF HistoryInv, HistoryReplays, NothingBeforeTheRow
    <2>4. ASSUME line'.reading # "garbled" PROVE LastRecorded' = ValueOf(line'.reading)
      <3>1. CASE ~Held(line)
        <4>1. changes' = <<>> /\ line'.reading = o.reading
          BY <1>3, <1>7, <1>12, <3>1 DEF HistoryInv, NothingBeforeTheRow
        <4> QED BY <1>11, <3>1, <4>1 DEF LastRecorded, Held
      <3>2. CASE Held(line) /\ ~Admitted(o)
        <4>1. line' = line /\ checkpoints'["BASELINE"] = checkpoints["BASELINE"]
          BY <1>3, <1>11, <3>2
        <4>2. LastRecorded = ValueOf(line.reading)
          BY <2>4, <3>2, <4>1 DEF HistoryInv, HistoryReplays
        <4> QED BY <1>12, <4>1, <4>2 DEF LastRecorded, Held, ValueOf
      <3>3. CASE Held(line) /\ Admitted(o)
        <4>1. line'.reading = o.reading /\ checkpoints'["BASELINE"] = checkpoints["BASELINE"]
          BY <1>3, <1>11, <3>3
        <4>2. LastRecorded = ValueOf(o.reading)
          <5>1. CASE LastRecorded # ValueOf(o.reading)
            <6>1. changes' = Append(changes, [previous |-> LastRecorded, new |-> ValueOf(o.reading)])
              BY <1>3, <2>4, <3>3, <4>1, <5>1 DEF Recorded
            <6>2. Len(changes') = Len(changes) + 1
              BY <1>4, <1>5, <6>1 DEF ChangeRows
            <6> QED BY <1>4, <1>12, <6>2
          <5> QED BY <5>1
        <4> QED BY <1>12, <4>1, <4>2 DEF LastRecorded, Held, ValueOf
      <3> QED BY <3>1, <3>2, <3>3
    <2>5. HistoryReplays'
      BY <2>2, <2>3, <2>4 DEF HistoryReplays, Held, ValueOf
    <2> QED BY <1>10, <2>1, <2>5 DEF HistoryInv
  <1>13. CASE changes' # changes
    <2> DEFINE change == [previous |-> LastRecorded, new |-> ValueOf(o.reading)]
    <2>1. changes' = Append(changes, change) /\ Admitted(o) /\ Held(line)
      BY <1>3, <1>13 DEF Recorded
    <2>2. change \in ChangeRows /\ change.previous = LastRecorded /\ change.new = ValueOf(o.reading)
      BY <1>4, <1>5 DEF ChangeRows
    <2> HIDE DEF change
    <2>3. /\ changes' \in Seq(ChangeRows) /\ Len(changes') = Len(changes) + 1 /\ Len(changes) \in Nat
          /\ changes'[Len(changes) + 1] = change
          /\ \A i \in 1 .. Len(changes) : changes'[i] = changes[i]
      BY <1>4, <2>1, <2>2
    <2>4. HistoryTyped'
      BY <1>1, <1>6, <1>9, <1>11, <2>3 DEF HistoryInv, HistoryTyped
    <2>5. ASSUME NEW i \in 1 .. Len(changes') - 1
          PROVE  changes'[i].new = changes'[i + 1].previous
      <3>1. CASE i < Len(changes)
        <4>1. changes[i].new = changes[i + 1].previous
          BY <2>3, <2>5, <3>1 DEF HistoryInv, HistoryReplays
        <4> QED BY <2>3, <2>5, <3>1, <4>1
      <3>2. CASE i = Len(changes)
        <4>1. changes # <<>>
          BY <1>4, <2>5, <3>2
        <4>2. change.previous = changes[i].new
          BY <2>2, <3>2, <4>1 DEF LastRecorded
        <4> QED BY <2>3, <2>5, <3>2, <4>2
      <3> QED BY <2>3, <2>5, <3>1, <3>2
    <2>6. ASSUME Held(checkpoints'["BASELINE"])
          PROVE  changes'[1].previous = checkpoints'["BASELINE"].value
      <3>1. checkpoints'["BASELINE"] = checkpoints["BASELINE"]
        BY <1>11, <2>1
      <3>2. CASE changes = <<>>
        <4>1. Len(changes) = 0
          BY <3>2
        <4>2. LastRecorded = checkpoints["BASELINE"].value
          BY <2>6, <3>1, <3>2 DEF LastRecorded
        <4> QED BY <2>2, <2>3, <3>1, <4>1, <4>2
      <3>3. CASE changes # <<>>
        <4>1. 1 \in 1 .. Len(changes)
          BY <1>4, <3>3
        <4> QED BY <2>3, <2>6, <3>1, <3>3, <4>1 DEF HistoryInv, HistoryReplays
      <3> QED BY <3>2, <3>3
    <2>7. LastRecorded' = ValueOf(line'.reading)
      <3>1. changes' # <<>> /\ line'.reading = o.reading
        BY <1>3, <2>1, <2>3
      <3> QED BY <2>2, <2>3, <3>1 DEF LastRecorded, ValueOf
    <2>8. HistoryReplays'
      BY <2>5, <2>6, <2>7 DEF HistoryReplays, Held, ValueOf
    <2> QED BY <1>10, <2>4, <2>8 DEF HistoryInv
  <1> QED BY <1>12, <1>13

LEMMA HistorySteps == HistoryInv /\ [HistoryNext]_historyVars => HistoryInv'
  <1>1. ASSUME HistoryInv, UNCHANGED <<line, changes, checkpoints>>, fetches' \in Nat,
               carried' \in [Writers -> CarriedRows \cup {NothingCarried}]
        PROVE  HistoryInv'
    <2>1. LastRecorded' = LastRecorded
      BY <1>1 DEF LastRecorded, Held, ValueOf
    <2> QED BY <1>1, <2>1 DEF HistoryInv, HistoryTyped, NothingBeforeTheRow, HistoryReplays, Held, ValueOf
  <1>2. ASSUME HistoryInv, UNCHANGED historyVars PROVE HistoryInv'
    BY <1>1, <1>2 DEF HistoryInv, HistoryTyped, historyVars
  <1>3. ASSUME HistoryInv, NEW w \in Writers, Fetch(w) PROVE HistoryInv'
    <2>1. fetches' = fetches + 1 /\ fetches \in Nat /\ UNCHANGED <<line, changes, checkpoints>>
      BY <1>3 DEF Fetch, HistoryInv, HistoryTyped
    <2>2. PICK reading \in Readings, authority \in {1, 2}, period \in {"FT", "UNKNOWN"} :
            carried' = [carried EXCEPT ![w] =
              [reading |-> reading, authority |-> authority, period |-> period, at |-> fetches + 1]]
      BY <1>3 DEF Fetch
    <2>3. [reading |-> reading, authority |-> authority, period |-> period, at |-> fetches + 1]
             \in CarriedRows
      BY <2>1 DEF CarriedRows
    <2>4. carried' \in [Writers -> CarriedRows \cup {NothingCarried}]
      BY <1>3, <2>2, <2>3 DEF HistoryInv, HistoryTyped
    <2>5. fetches' \in Nat
      BY <2>1
    <2> QED BY <1>1, <1>3, <2>1, <2>4, <2>5
  <1>4. ASSUME HistoryInv, NEW w \in Writers, Lose(w) PROVE HistoryInv'
    <2>1. carried' \in [Writers -> CarriedRows \cup {NothingCarried}] /\ fetches' \in Nat
      BY <1>4 DEF Lose, HistoryInv, HistoryTyped
    <2> QED BY <1>1, <1>4, <2>1 DEF Lose
  <1> QED BY <1>2, <1>3, <1>4, StoreLineKeeps DEF HistoryNext

\* For any writers, responses and readings, in whatever order they are stored: the history
\* of a statistic replays from its baseline to what the row says (upsert_player_stats).
THEOREM ChangesReplay == HistorySpec => []HistoryReplays
  <1>1. HistoryInv => HistoryReplays
    BY DEF HistoryInv
  <1> QED BY <1>1, HistoryStarts, HistorySteps, PTL DEF HistorySpec

-----------------------------------------------------------------------------
(* The Home & Away summary.                                                     *)

SquadRows == [Squad -> 0 .. 2]
GamesOf == UNION {[members -> SUBSET Fixture] : members \in SUBSET Squad}
BuilderRows ==
  [pc : {"rest", "select", "finality", "review", "facts", "replace"}, selected : SUBSET Fixture,
   concluded : SUBSET Fixture, left : SUBSET Fixture, included : SUBSET Fixture,
   members : (SUBSET Squad) \cup GamesOf]

SummaryTyped ==
  /\ facts \in [Fixture -> SquadRows] /\ reviews \subseteq everReviewed
  /\ population \subseteq Squad /\ builder \in BuilderRows /\ ended \subseteq Fixture

\* A match with authoritative rows of both sides, and games that count a row of both.
BothSidesStored(m) ==
  /\ \E p \in Squad \cap HomeSquad : facts[m][p] = 2
  /\ \E p \in Squad \ HomeSquad : facts[m][p] = 2

GamesBacked(games) ==
  /\ games \in GamesOf
  /\ \A p \in DOMAIN games : \A m \in games[p] : facts[m][p] = 2

CountedBothSides(games, m) ==
  /\ \E p \in DOMAIN games \cap HomeSquad : m \in games[p]
  /\ \E p \in DOMAIN games \ HomeSquad : m \in games[p]

\* What the builder has gone through was included for rows of both sides or had been
\* reviewed; nothing of that is ever taken back.
BuilderInv ==
  /\ builder.pc # "rest" => \A m \in builder.included : BothSidesStored(m)
  /\ builder.pc \in {"finality", "review", "facts", "replace"} =>
       \A m \in builder.selected : m \in builder.left \/ m \in builder.included \/ m \in everReviewed
  /\ builder.pc = "review" => builder.left # {}
  /\ builder.pc \in {"facts", "replace"} => builder.left = {}
  /\ builder.pc = "facts" => builder.members \subseteq Squad
  /\ builder.pc = "replace" =>
       /\ GamesBacked(builder.members)
       /\ \A m \in builder.included : CountedBothSides(builder.members, m)

StoredSummary ==
  /\ GamesBacked(summary.games)
  /\ \A m \in summary.selected : m \in everReviewed \/ CountedBothSides(summary.games, m)

SummaryInv == SummaryTyped /\ BuilderInv /\ StoredSummary

LEMMA SummaryStarts == SummaryInit => SummaryInv
  <1> SUFFICES ASSUME SummaryInit PROVE SummaryInv
    OBVIOUS
  <1>1. facts \in [Fixture -> SquadRows]
    BY DEF SummaryInit, SquadRows, Stats!NoRows, Stats!NoRow
  <1>2. AtRest \in BuilderRows /\ AtRest.pc = "rest"
    BY DEF AtRest, BuilderRows
  <1>3. builder \in BuilderRows /\ builder.pc = "rest"
    BY <1>2 DEF SummaryInit
  <1>4. SummaryTyped
    BY <1>1, <1>3 DEF SummaryInit, SummaryTyped
  <1>5. BuilderInv
    BY <1>3 DEF BuilderInv
  <1>6. summary.games = [p \in {} |-> {}] /\ summary.selected = {}
    BY DEF SummaryInit, NoSummary
  <1> DEFINE none == [p \in {} |-> {}]
  <1>7. none \in [{} -> SUBSET Fixture] /\ DOMAIN none = {}
    OBVIOUS
  <1>8. none \in GamesOf
    BY <1>7 DEF GamesOf
  <1> HIDE DEF none
  <1>9. StoredSummary
    BY <1>6, <1>7, <1>8 DEF StoredSummary, GamesBacked, none
  <1> QED BY <1>4, <1>5, <1>9 DEF SummaryInv

\* The other writers: a row stays authoritative, and what was reviewed was reviewed.
LEMMA WriteKeepsSummary ==
  ASSUME SummaryInv, UNCHANGED <<builder, summary>>,
         facts' \in [Fixture -> SquadRows], population' \subseteq Squad,
         reviews' \subseteq everReviewed', everReviewed \subseteq everReviewed',
         ended' \subseteq Fixture,
         \A m \in Fixture, p \in Squad : facts[m][p] = 2 => facts'[m][p] = 2
  PROVE  SummaryInv'
  <1>1. SummaryTyped'
    BY DEF SummaryInv, SummaryTyped
  <1>2. builder \in BuilderRows
    BY DEF SummaryInv, SummaryTyped
  <1>3. \A m \in Fixture : BothSidesStored(m) => BothSidesStored(m)'
    BY DEF BothSidesStored
  <1>4. \A games : GamesBacked(games) => GamesBacked(games)'
    <2> SUFFICES ASSUME NEW games, GamesBacked(games) PROVE GamesBacked(games)'
      OBVIOUS
    <2>1. PICK members \in SUBSET Squad : games \in [members -> SUBSET Fixture]
      BY DEF GamesBacked, GamesOf
    <2>2. \A p \in DOMAIN games : p \in Squad /\ games[p] \subseteq Fixture
      BY <2>1
    <2> QED BY <2>2 DEF GamesBacked
  <1>5. BuilderInv'
    <2>1. builder.included \subseteq Fixture
      BY <1>2 DEF BuilderRows
    <2>2. BuilderInv
      BY DEF SummaryInv
    <2>3. (builder.pc # "rest" => \A m \in builder.included : BothSidesStored(m))'
      BY <1>3, <2>1, <2>2 DEF BuilderInv
    <2>4. (builder.pc = "replace" =>
             /\ GamesBacked(builder.members)
             /\ \A m \in builder.included : CountedBothSides(builder.members, m))'
      BY <1>4, <2>2 DEF BuilderInv, CountedBothSides
    <2>5. (builder.pc \in {"finality", "review", "facts", "replace"} =>
             \A m \in builder.selected :
                m \in builder.left \/ m \in builder.included \/ m \in everReviewed)'
      BY <2>2 DEF BuilderInv
    <2> QED BY <2>2, <2>3, <2>4, <2>5 DEF BuilderInv
  <1>6. StoredSummary'
    BY <1>4 DEF SummaryInv, StoredSummary, CountedBothSides
  <1> QED BY <1>1, <1>5, <1>6 DEF SummaryInv

LEMMA AuthorityStays ==
  ASSUME NEW rows \in SquadRows, NEW kind \in {"concluded", "live_partial"}, NEW names \in SUBSET Squad
  PROVE  /\ Stats!Upserted(rows, [kind |-> kind, players |-> names]) \in SquadRows
         /\ \A p \in Squad : rows[p] = 2
              => Stats!Upserted(rows, [kind |-> kind, players |-> names])[p] = 2
  <1>1. Stats!AuthorityOf(kind) \in 1 .. 2
    BY DEF Stats!AuthorityOf
  <1>2. Stats!Upserted(rows, [kind |-> kind, players |-> names])
          = [p \in Squad |-> IF p \in names /\ Stats!AuthorityOf(kind) >= rows[p]
                             THEN Stats!AuthorityOf(kind) ELSE rows[p]]
    BY DEF Stats!Upserted
  <1>3. \A p \in Squad : rows[p] \in 0 .. 2
    BY DEF SquadRows
  <1> QED BY <1>1, <1>2, <1>3 DEF SquadRows

LEMMA OtherWritersKeepSummary ==
  ASSUME SummaryInv, Reclassify \/ Conclude \/ StoreFacts \/ ReviewMatch \/ Revoke \/ Join
  PROVE  SummaryInv'
  <1>1. UNCHANGED <<builder, summary>>
    BY DEF Reclassify, Conclude, StoreFacts, ReviewMatch, Revoke, Join, OtherWrite
  <1>2. /\ facts \in [Fixture -> SquadRows] /\ population \subseteq Squad
        /\ reviews \subseteq everReviewed /\ ended \subseteq Fixture
    BY DEF SummaryInv, SummaryTyped
  <1>3. CASE StoreFacts
    <2>1. PICK m \in Fixture, kind \in {"concluded", "live_partial"}, names \in SUBSET Squad :
            facts' = [facts EXCEPT ![m] = Stats!Upserted(facts[m], [kind |-> kind, players |-> names])]
      BY <1>3 DEF StoreFacts
    <2> DEFINE rows == Stats!Upserted(facts[m], [kind |-> kind, players |-> names])
    <2>2. rows \in SquadRows /\ \A p \in Squad : facts[m][p] = 2 => rows[p] = 2
      BY <1>2, AuthorityStays
    <2>3. facts' = [facts EXCEPT ![m] = rows]
      BY <2>1
    <2> HIDE DEF rows
    <2>4. /\ facts' \in [Fixture -> SquadRows]
          /\ \A n \in Fixture, p \in Squad : facts[n][p] = 2 => facts'[n][p] = 2
      BY <1>2, <2>2, <2>3
    <2> QED BY <1>1, <1>2, <1>3, <2>4, WriteKeepsSummary DEF StoreFacts
  <1>4. CASE Reclassify \/ Conclude \/ ReviewMatch \/ Revoke \/ Join
    <2>1. facts' = facts
      BY <1>4 DEF Reclassify, Conclude, ReviewMatch, Revoke, Join
    <2>2. population' \subseteq Squad /\ ended' \subseteq Fixture
      BY <1>2, <1>4 DEF Reclassify, Conclude, ReviewMatch, Revoke, Join
    <2>3. reviews' \subseteq everReviewed' /\ everReviewed \subseteq everReviewed'
      BY <1>2, <1>4 DEF Reclassify, Conclude, ReviewMatch, Revoke, Join
    <2> QED BY <1>1, <1>2, <2>1, <2>2, <2>3, WriteKeepsSummary
  <1> QED BY <1>3, <1>4

LEMMA NextMatchIsLeft ==
  ASSUME builder \in BuilderRows, builder.left # {}
  PROVE  NextMatch \in builder.left
  <1> DEFINE open == builder.left
  <1>1. open \subseteq Nat /\ open # {}
    BY FixtureAssumption DEF BuilderRows
  <1> HIDE DEF open
  <1>2. \E m \in open : \A n \in open : m <= n
    BY <1>1, LeastOf
  <1> QED BY <1>2 DEF NextMatch, open

\* The builder goes on, or starts again.
LEMMA BuilderStepKeeps ==
  ASSUME SummaryInv, UNCHANGED <<seasonTables, summary>>, builder' \in BuilderRows,
         builder' # AtRest => BuilderInv'
  PROVE  SummaryInv'
  <1>1. UNCHANGED <<facts, reviews, population, everReviewed, summary, ended>>
    BY DEF seasonTables
  <1>2. SummaryTyped'
    BY <1>1 DEF SummaryInv, SummaryTyped
  <1>3. StoredSummary'
    BY <1>1 DEF SummaryInv, StoredSummary, GamesBacked, CountedBothSides
  <1>4. builder' = AtRest => BuilderInv'
    BY DEF BuilderInv, AtRest
  <1> QED BY <1>2, <1>3, <1>4 DEF SummaryInv

LEMMA LookAtRoundsKeeps ==
  ASSUME SummaryInv, LookAtRounds
  PROVE  SummaryInv'
  <1>1. /\ builder' \in BuilderRows /\ builder'.pc = "select" /\ builder'.included = {}
        /\ UNCHANGED <<seasonTables, summary>>
    BY DEF LookAtRounds, AtRest, BuilderRows
  <1>2. BuilderInv'
    BY <1>1 DEF BuilderInv
  <1> QED BY <1>1, <1>2, BuilderStepKeeps

LEMMA SelectMatchesKeeps ==
  ASSUME SummaryInv, SelectMatches
  PROVE  SummaryInv'
  <1>0. PICK chosen : chosen = {m \in Fixture : phase[m] = "HOME_AND_AWAY"}
    OBVIOUS
  <1>1. /\ builder.pc = "select" /\ builder \in BuilderRows /\ UNCHANGED <<seasonTables, summary>>
        /\ builder' = [builder EXCEPT !.pc = "finality", !.selected = chosen, !.left = chosen,
                                      !.concluded = chosen \cap ended]
    BY <1>0 DEF SelectMatches, SummaryInv, SummaryTyped
  <1>2. /\ builder' \in BuilderRows /\ builder'.pc = "finality" /\ builder'.selected = chosen
        /\ builder'.left = chosen /\ builder'.included = builder.included
    BY <1>0, <1>1 DEF BuilderRows
  <1>3. \A m \in builder'.included : BothSidesStored(m)'
    BY <1>1, <1>2 DEF SummaryInv, BuilderInv, BothSidesStored, seasonTables
  <1>4. BuilderInv'
    BY <1>2, <1>3 DEF BuilderInv
  <1> QED BY <1>1, <1>2, <1>4, BuilderStepKeeps

LEMMA LookAtFinalityKeeps ==
  ASSUME SummaryInv, LookAtFinality
  PROVE  SummaryInv'
  <1>1. /\ builder.pc = "finality" /\ builder.left # {} /\ builder \in BuilderRows
        /\ UNCHANGED <<seasonTables, summary>> /\ UNCHANGED <<facts, everReviewed>>
    BY DEF LookAtFinality, SummaryInv, SummaryTyped, seasonTables
  <1>2. NextMatch \in builder.left /\ NextMatch \in Fixture /\ builder.left \subseteq Fixture
    BY <1>1, NextMatchIsLeft DEF BuilderRows
  <1>3. AtRest \in BuilderRows
    BY DEF AtRest, BuilderRows
  <1>4. BuilderInv
    BY DEF SummaryInv
  <1> DEFINE m == NextMatch
  <1>5. CASE builder' = AtRest
    BY <1>1, <1>3, <1>5, BuilderStepKeeps
  <1>6. CASE /\ Stats!Satisfactory(facts[m])
             /\ builder' = [builder EXCEPT !.included = builder.included \cup {m},
                                           !.left = builder.left \ {m}]
    <2>1. BothSidesStored(m)
      BY <1>6 DEF Stats!Satisfactory, Stats!Authoritative, BothSidesStored
    <2> HIDE DEF m
    <2>2. m \in Fixture
      BY <1>2 DEF m
    <2>3. /\ builder' \in BuilderRows /\ builder'.pc = "finality"
          /\ builder'.selected = builder.selected /\ builder'.left = builder.left \ {m}
          /\ builder'.included = builder.included \cup {m}
      BY <1>1, <1>6, <2>2 DEF BuilderRows
    <2>4. \A n \in builder'.included : BothSidesStored(n)'
      BY <1>1, <1>4, <2>1, <2>3 DEF BuilderInv, BothSidesStored
    <2>5. BuilderInv'
      BY <1>1, <1>4, <2>3, <2>4 DEF BuilderInv
    <2> QED BY <1>1, <2>3, <2>5, BuilderStepKeeps
  <1>7. CASE builder' = [builder EXCEPT !.pc = "review"]
    <2>1. /\ builder' \in BuilderRows /\ builder'.pc = "review"
          /\ builder'.selected = builder.selected /\ builder'.left = builder.left
          /\ builder'.included = builder.included
      BY <1>1, <1>7 DEF BuilderRows
    <2>2. \A n \in builder'.included : BothSidesStored(n)'
      BY <1>1, <1>4, <2>1 DEF BuilderInv, BothSidesStored
    <2>3. BuilderInv'
      BY <1>1, <1>4, <2>1, <2>2 DEF BuilderInv
    <2> QED BY <1>1, <2>1, <2>3, BuilderStepKeeps
  <1> QED BY <1>5, <1>6, <1>7 DEF LookAtFinality, NotReady

LEMMA LookAtReviewKeeps ==
  ASSUME SummaryInv, LookAtReview
  PROVE  SummaryInv'
  <1>1. /\ builder.pc = "review" /\ builder \in BuilderRows /\ reviews \subseteq everReviewed
        /\ UNCHANGED <<seasonTables, summary>> /\ UNCHANGED <<facts, everReviewed>>
    BY DEF LookAtReview, SummaryInv, SummaryTyped, seasonTables
  <1>2. AtRest \in BuilderRows /\ BuilderInv
    BY DEF AtRest, BuilderRows, SummaryInv
  <1> DEFINE m == NextMatch
  <1>3. CASE builder' = AtRest
    BY <1>1, <1>2, <1>3, BuilderStepKeeps
  <1>4. CASE /\ m \in reviews
             /\ builder' = [builder EXCEPT !.pc = "finality", !.left = builder.left \ {m}]
    <2> HIDE DEF m
    <2>1. /\ builder' \in BuilderRows /\ builder'.pc = "finality"
          /\ builder'.selected = builder.selected /\ builder'.left = builder.left \ {m}
          /\ builder'.included = builder.included
      BY <1>1, <1>4 DEF BuilderRows
    <2>2. \A n \in builder'.included : BothSidesStored(n)'
      BY <1>1, <1>2, <2>1 DEF BuilderInv, BothSidesStored
    <2>3. BuilderInv'
      BY <1>1, <1>2, <1>4, <2>1, <2>2 DEF BuilderInv
    <2> QED BY <1>1, <2>1, <2>3, BuilderStepKeeps
  <1> QED BY <1>3, <1>4 DEF LookAtReview, NotReady

LEMMA ReadPopulationKeeps ==
  ASSUME SummaryInv, ReadPopulation
  PROVE  SummaryInv'
  <1>1. /\ builder.pc = "finality" /\ builder.left = {} /\ builder \in BuilderRows
        /\ population \subseteq Squad /\ BuilderInv
        /\ UNCHANGED <<seasonTables, summary>> /\ UNCHANGED <<facts, everReviewed>>
        /\ builder' = [builder EXCEPT !.pc = "facts", !.members = population]
    BY DEF ReadPopulation, SummaryInv, SummaryTyped, seasonTables
  <1>2. /\ builder' \in BuilderRows /\ builder'.pc = "facts" /\ builder'.members = population
        /\ builder'.selected = builder.selected /\ builder'.left = {}
        /\ builder'.included = builder.included
    BY <1>1 DEF BuilderRows
  <1>3. \A n \in builder'.included : BothSidesStored(n)'
    BY <1>1, <1>2 DEF BuilderInv, BothSidesStored
  <1>4. BuilderInv'
    BY <1>1, <1>2, <1>3 DEF BuilderInv
  <1> QED BY <1>1, <1>2, <1>4, BuilderStepKeeps

LEMMA ReadFactsKeeps ==
  ASSUME SummaryInv, ReadFacts
  PROVE  SummaryInv'
  <1>1. /\ builder.pc = "facts" /\ builder \in BuilderRows /\ BuilderInv
        /\ UNCHANGED <<seasonTables, summary>> /\ UNCHANGED <<facts, everReviewed>>
    BY DEF ReadFacts, SummaryInv, SummaryTyped, seasonTables
  <1>2. AtRest \in BuilderRows
    BY DEF AtRest, BuilderRows
  <1> DEFINE games == [p \in builder.members |-> {m \in builder.included : Counts(m, p)}]
  <1>3. CASE builder' = AtRest
    BY <1>1, <1>2, <1>3, BuilderStepKeeps
  <1>4. CASE /\ ~\E m \in builder.included, p \in Squad \ builder.members : Counts(m, p)
             /\ builder' = [builder EXCEPT !.pc = "replace", !.members = games]
    <2>1. builder.members \subseteq Squad /\ builder.included \subseteq Fixture
      BY <1>1 DEF BuilderInv, BuilderRows
    <2>2. games \in [builder.members -> SUBSET Fixture]
      BY <2>1
    <2>3. /\ DOMAIN games = builder.members
          /\ \A p \in builder.members, m \in builder.included : m \in games[p] <=> facts[m][p] = 2
          /\ \A p \in builder.members : \A m \in games[p] : facts[m][p] = 2
      BY DEF Counts
    <2> HIDE DEF games
    <2>4. games \in GamesOf
      BY <2>1, <2>2 DEF GamesOf
    <2>5. GamesBacked(games)
      BY <2>3, <2>4 DEF GamesBacked
    <2>6. \A m \in builder.included : CountedBothSides(games, m)
      <3> SUFFICES ASSUME NEW m \in builder.included PROVE CountedBothSides(games, m)
        OBVIOUS
      <3>1. BothSidesStored(m)
        BY <1>1 DEF BuilderInv
      <3>2. \A p \in Squad : facts[m][p] = 2 => p \in builder.members
        BY <1>4 DEF Counts
      <3> QED BY <2>3, <3>1, <3>2 DEF CountedBothSides, BothSidesStored
    <2>7. /\ builder' \in BuilderRows /\ builder'.pc = "replace" /\ builder'.members = games
          /\ builder'.selected = builder.selected /\ builder'.left = builder.left
          /\ builder'.included = builder.included
      BY <1>1, <1>4, <2>4 DEF BuilderRows
    <2>8. \A n \in builder'.included : BothSidesStored(n)'
      BY <1>1, <2>7 DEF BuilderInv, BothSidesStored
    <2>9. (builder.pc = "replace" =>
             /\ GamesBacked(builder.members)
             /\ \A m \in builder.included : CountedBothSides(builder.members, m))'
      BY <1>1, <2>5, <2>6, <2>7 DEF GamesBacked, CountedBothSides
    <2>10. BuilderInv'
      BY <1>1, <2>7, <2>8, <2>9 DEF BuilderInv
    <2> QED BY <1>1, <2>7, <2>10, BuilderStepKeeps
  <1> QED BY <1>3, <1>4 DEF ReadFacts, NotReady

LEMMA ReplaceKeeps ==
  ASSUME SummaryInv, Replace
  PROVE  SummaryInv'
  <1>1. /\ builder.pc = "replace" /\ builder' = AtRest /\ BuilderInv
        /\ summary' = [games |-> builder.members, selected |-> builder.selected]
        /\ UNCHANGED <<facts, reviews, population, everReviewed, ended>>
    BY DEF Replace, SummaryInv, seasonTables
  <1>2. AtRest \in BuilderRows /\ AtRest.pc = "rest"
    BY DEF AtRest, BuilderRows
  <1>3. SummaryTyped' /\ BuilderInv'
    BY <1>1, <1>2 DEF SummaryInv, SummaryTyped, BuilderInv
  <1>4. /\ GamesBacked(builder.members)
        /\ \A m \in builder.selected : m \in everReviewed \/ CountedBothSides(builder.members, m)
    BY <1>1 DEF BuilderInv
  <1>5. StoredSummary'
    BY <1>1, <1>4 DEF StoredSummary, GamesBacked, CountedBothSides
  <1> QED BY <1>3, <1>5 DEF SummaryInv

LEMMA SummarySteps == SummaryInv /\ [SummaryNext]_summaryVars => SummaryInv'
  <1>1. ASSUME SummaryInv, UNCHANGED summaryVars PROVE SummaryInv'
    <2>1. UNCHANGED <<facts, reviews, population, everReviewed, ended, builder, summary>>
      BY <1>1 DEF summaryVars
    <2>2. facts \in [Fixture -> SquadRows] /\ population \subseteq Squad /\ reviews \subseteq everReviewed
          /\ ended \subseteq Fixture
      BY <1>1 DEF SummaryInv, SummaryTyped
    <2> QED BY <1>1, <2>1, <2>2, WriteKeepsSummary
  <1> QED BY <1>1, OtherWritersKeepSummary, LookAtRoundsKeeps, SelectMatchesKeeps, LookAtFinalityKeeps,
             LookAtReviewKeeps, ReadPopulationKeeps, ReadFactsKeeps, ReplaceKeeps DEF SummaryNext

\* For any fixture, squad and other writers: a stored summary stands on authoritative facts
\* of both sides of each match it was built from, or on its review
\* (build_home_and_away_player_summaries).
THEOREM SummariesAreBacked == SummarySpec => []SummaryBacked
  <1>1. SummaryInv => SummaryBacked
    BY DEF SummaryInv, StoredSummary, GamesBacked, CountedBothSides, SummaryBacked
  <1> QED BY <1>1, SummaryStarts, SummarySteps, PTL DEF SummarySpec

-----------------------------------------------------------------------------
(* The operator's commands.                                                     *)

Verdicts == {"waiting", "undecidable", "stats_not_expected", "already_complete", "failed",
             "collected", "unfinished", "published", "unpublished"}
ResultsOf == UNION {[S -> Verdicts] : S \in SUBSET Targets}
Stages == {"idle", "ended", "foundation", "matches", "auditing", "collected", "rounds"}
CommandRows ==
  [kind : {"none", "statistics", "rosters"}, at : Stages, asked : SUBSET (Targets \cup Unstored),
   bounded : BOOLEAN, left : SUBSET Targets, result : ResultsOf, unaudited : BOOLEAN,
   stopped : BOOLEAN, outcome : {"none", "success", "partial", "failure", "raised", "died"}]

AuditRows == [Targets -> {"none", "running", "completed", "partial", "failed"}]

CommandTyped ==
  /\ command \in CommandRows /\ targetRow \in AuditRows /\ counted \subseteq whole
  /\ command.at = "idle" <=> command.kind = "none"
  /\ command.kind = "statistics" =>
       command.at \in {"foundation", "matches", "auditing", "collected", "ended"}
  /\ command.kind = "rosters" => command.at \in {"rounds", "ended"}

\* What a season's sync has dealt with is stored when its result says so, and audited when
\* no audit has failed; the match at hand has a result from its collection on.
StoredAsSaid(c) ==
  \A m \in DOMAIN c.result : c.result[m] \in {"already_complete", "collected"} => m \in whole

AuditedAsSaid(c) ==
  ~c.unaudited =>
    \A m \in DOMAIN c.result \ c.left :
       c.result[m] \in Safe \cup {"collected"} /\ ~(c.result[m] = "waiting" /\ m \in c.asked)
         => targetRow[m] = "completed"

NothingPassedOver(c) ==
  /\ c.at = "matches" => DOMAIN c.result \cap c.left = {}
  /\ c.at = "auditing" => DOMAIN c.result \cap c.left = {} /\ c.left # {}
  /\ c.at = "collected" => c.left # {}
  /\ ~c.bounded /\ ~c.stopped =>
       (IF c.asked # {} THEN c.asked \cap Targets ELSE Targets) \subseteq c.left \cup DOMAIN c.result

\* The match being collected is the first one left.
FirstLeft(open) == CHOOSE t \in open : \A u \in open : t <= u

AtHand(c) ==
  c.at = "collected" =>
    /\ DOMAIN c.result \cap c.left = {FirstLeft(c.left)}
    /\ c.result[FirstLeft(c.left)] \in Collections

SyncGoesOn(c) ==
  /\ seasonRow = "running" /\ StoredAsSaid(c)
  /\ c.at = "foundation" => c.left = {} /\ DOMAIN c.result = {}
  /\ c.at # "foundation" => AuditedAsSaid(c) /\ NothingPassedOver(c) /\ AtHand(c)

BackfillGoesOn(c) ==
  /\ c.left \subseteq c.asked /\ c.asked \subseteq c.left \cup DOMAIN c.result
  /\ \A t \in DOMAIN c.result : c.result[t] = "published" => t \in sheets

CommandInv ==
  /\ CommandTyped /\ SuccessIsEarned
  /\ command.kind = "statistics" /\ command.at # "ended" => SyncGoesOn(command)
  /\ command.kind = "rosters" /\ command.at # "ended" => BackfillGoesOn(command)

LEMMA CurrentIsLeft ==
  ASSUME command \in CommandRows, command.left # {}
  PROVE  /\ Current \in command.left /\ Current \in Targets /\ Current = FirstLeft(command.left)
  <1> DEFINE open == command.left
  <1>1. open \subseteq Targets /\ open \subseteq Nat /\ open # {}
    BY TargetsAssumption DEF CommandRows
  <1> HIDE DEF open
  <1>2. \E t \in open : \A u \in open : t <= u
    BY <1>1, LeastOf
  <1> QED BY <1>1, <1>2 DEF Current, FirstLeft, open

LEMMA ResultsGrow ==
  ASSUME command \in CommandRows, command.left # {}, NEW verdict \in Verdicts
  PROVE  /\ WithResult(verdict) \in ResultsOf
         /\ DOMAIN WithResult(verdict) = DOMAIN command.result \cup {Current}
         /\ WithResult(verdict)[Current] = verdict
         /\ \A t \in DOMAIN command.result \ {Current} : WithResult(verdict)[t] = command.result[t]
  <1>1. command.result \in ResultsOf /\ Current \in Targets
    BY CurrentIsLeft DEF CommandRows
  <1>2. PICK S \in SUBSET Targets : command.result \in [S -> Verdicts]
    BY <1>1 DEF ResultsOf
  <1> DEFINE D == DOMAIN command.result \cup {Current}
  <1>3. WithResult(verdict) \in [D -> Verdicts] /\ D \in SUBSET Targets
    BY <1>1, <1>2 DEF WithResult
  <1>4. WithResult(verdict) \in ResultsOf
    BY <1>3 DEF ResultsOf
  <1> QED BY <1>4 DEF WithResult

LEMMA CommandsStart == CommandsInit => CommandInv
  <1> SUFFICES ASSUME CommandsInit PROVE CommandInv
    OBVIOUS
  <1> DEFINE none == [t \in {} |-> "none"]
  <1>1. none \in [{} -> Verdicts] /\ DOMAIN none = {}
    OBVIOUS
  <1>2. none \in ResultsOf
    BY <1>1 DEF ResultsOf
  <1> HIDE DEF none
  <1>3. NoCommand \in CommandRows /\ NoCommand.at = "idle" /\ NoCommand.kind = "none"
    BY <1>2 DEF NoCommand, CommandRows, Stages, none
  <1>4. CommandTyped
    <2>1. targetRow \in AuditRows
      BY DEF CommandsInit, AuditRows
    <2> QED BY <1>3, <2>1 DEF CommandsInit, CommandTyped
  <1> QED BY <1>3, <1>4 DEF CommandsInit, CommandInv, SuccessIsEarned, Succeeded

LEMMA NoCommandTyped == NoCommand \in CommandRows /\ DOMAIN NoCommand.result = {}
  <1> DEFINE none == [t \in {} |-> "none"]
  <1>1. none \in [{} -> Verdicts] /\ DOMAIN none = {}
    OBVIOUS
  <1>2. none \in ResultsOf
    BY <1>1 DEF ResultsOf
  <1> HIDE DEF none
  <1>3. NoCommand \in CommandRows /\ NoCommand.result = none
    BY <1>2 DEF NoCommand, CommandRows, Stages, none
  <1> QED BY <1>1, <1>3

LEMMA BegunKeeps ==
  ASSUME CommandInv, StartSync \/ StartBackfill
  PROVE  CommandInv'
  <1>1. CASE StartSync
    <2>1. PICK asked \in SUBSET (Targets \cup Unstored), bounded \in BOOLEAN :
            Begun([NoCommand EXCEPT !.kind = "statistics", !.at = "foundation",
                                    !.asked = asked, !.bounded = bounded], "running")
      BY <1>1 DEF StartSync
    <2> DEFINE c == [NoCommand EXCEPT !.kind = "statistics", !.at = "foundation",
                                      !.asked = asked, !.bounded = bounded]
    <2>2. Begun(c, "running")
      BY <2>1
    <2>3. /\ c \in CommandRows /\ c.kind = "statistics" /\ c.at = "foundation" /\ c.left = {}
          /\ c.result = NoCommand.result
      BY NoCommandTyped DEF CommandRows, NoCommand, Stages
    <2> HIDE DEF c
    <2>4. DOMAIN c.result = {}
      BY <2>3, NoCommandTyped
    <2>5. /\ command' = c /\ seasonRow' = "running" /\ UNCHANGED <<counted, whole, sheets>>
          /\ targetRow' \in AuditRows
      BY <2>2 DEF Begun, AuditRows
    <2>6. CommandTyped'
      BY <2>3, <2>5 DEF CommandInv, CommandTyped
    <2>7. SuccessIsEarned'
      BY <2>3, <2>5 DEF SuccessIsEarned, Succeeded
    <2>8. SyncGoesOn(c)'
      BY <2>3, <2>4, <2>5 DEF SyncGoesOn, StoredAsSaid
    <2> QED BY <2>3, <2>5, <2>6, <2>7, <2>8 DEF CommandInv
  <1>2. CASE StartBackfill
    <2>1. PICK rounds \in SUBSET Targets :
            Begun([NoCommand EXCEPT !.kind = "rosters", !.at = "rounds",
                                    !.asked = rounds, !.left = rounds], "none")
      BY <1>2 DEF StartBackfill
    <2> DEFINE c == [NoCommand EXCEPT !.kind = "rosters", !.at = "rounds",
                                      !.asked = rounds, !.left = rounds]
    <2>2. Begun(c, "none")
      BY <2>1
    <2>3. /\ c \in CommandRows /\ c.kind = "rosters" /\ c.at = "rounds" /\ c.left = rounds
          /\ c.asked = rounds /\ c.result = NoCommand.result
      BY NoCommandTyped DEF CommandRows, NoCommand, Stages
    <2> HIDE DEF c
    <2>4. DOMAIN c.result = {}
      BY <2>3, NoCommandTyped
    <2>5. command' = c /\ UNCHANGED <<counted, whole, sheets>> /\ targetRow' \in AuditRows
      BY <2>2 DEF Begun, AuditRows
    <2>6. CommandTyped'
      BY <2>3, <2>5 DEF CommandInv, CommandTyped
    <2>7. SuccessIsEarned'
      BY <2>3, <2>5 DEF SuccessIsEarned, Succeeded
    <2>8. BackfillGoesOn(c)'
      BY <2>3, <2>4, <2>5 DEF BackfillGoesOn
    <2> QED BY <2>3, <2>5, <2>6, <2>7, <2>8 DEF CommandInv
  <1> QED BY <1>1, <1>2

\* A command that ends without success.
LEMMA EndsUnearned ==
  ASSUME CommandInv, UNCHANGED <<counted, whole, targetRow>>,
         command' \in CommandRows, command'.kind = command.kind, command'.at = "ended",
         command'.outcome # "success", command.kind = "statistics" => seasonRow' # "completed",
         command.kind # "none"
  PROVE  CommandInv'
  <1>1. CommandTyped'
    BY DEF CommandInv, CommandTyped
  <1>2. SuccessIsEarned'
    BY DEF SuccessIsEarned, Succeeded
  <1> QED BY <1>1, <1>2 DEF CommandInv

LEMMA EndRow ==
  ASSUME NEW c \in CommandRows, NEW outcome \in {"success", "partial", "failure", "raised", "died"},
         End(c, outcome)
  PROVE  /\ command' \in CommandRows /\ command'.at = "ended" /\ command'.outcome = outcome
         /\ command'.kind = c.kind /\ command'.asked = c.asked /\ command'.bounded = c.bounded
         /\ command'.result = c.result
  BY DEF End, CommandRows, Stages

LEMMA BreaksKeep ==
  ASSUME CommandInv, RunRaises \/ CommandDies \/ FoundationUnavailable
  PROVE  CommandInv'
  <1>1. /\ command \in CommandRows /\ command.at \notin {"idle", "ended"} /\ command.kind # "none"
        /\ UNCHANGED <<counted, whole, targetRow>>
    <2>1. command.at \notin {"idle", "ended"}
      BY DEF RunRaises, CommandDies, FoundationUnavailable
    <2>2. command.kind # "none"
      BY <2>1 DEF CommandInv, CommandTyped
    <2> QED BY <2>1, <2>2 DEF RunRaises, CommandDies, FoundationUnavailable, StandStill, NoAuditing,
                          CommandInv, CommandTyped
  <1>2. PICK outcome \in {"failure", "raised", "died"} : End(command, outcome)
    BY DEF RunRaises, CommandDies, FoundationUnavailable
  <1>3. command.kind = "statistics" => seasonRow' # "completed"
    <2>1. command.kind = "statistics" => seasonRow = "running"
      BY <1>1 DEF CommandInv, SyncGoesOn
    <2> QED BY <2>1 DEF RunRaises, CommandDies, FoundationUnavailable, FailSeason, NoAuditing
  <1> QED BY <1>1, <1>2, <1>3, EndRow, EndsUnearned

\* What a step of a season's sync leaves alone.
SyncStep ==
  /\ command' \in CommandRows /\ command'.kind = command.kind
  /\ command'.asked = command.asked /\ command'.bounded = command.bounded
  /\ seasonRow' = seasonRow /\ targetRow' \in AuditRows
  /\ counted' \subseteq whole' /\ whole \subseteq whole'

Syncing(at) == command.kind = "statistics" /\ command.at = at

LEMMA SyncFacts ==
  ASSUME CommandInv, command.at \in {"foundation", "matches", "auditing", "collected"}
  PROVE  /\ command.kind = "statistics" /\ command \in CommandRows /\ SyncGoesOn(command)
         /\ targetRow \in AuditRows /\ counted \subseteq whole /\ command.at # "ended"
  <1>1. command.kind \in {"none", "statistics", "rosters"}
    BY DEF CommandInv, CommandTyped, CommandRows
  <1>2. command.kind = "statistics"
    BY <1>1 DEF CommandInv, CommandTyped
  <1> QED BY <1>2 DEF CommandInv, CommandTyped

\* Any step of a season's sync but its last.
LEMMA SyncStepKeeps ==
  ASSUME CommandInv, command.kind = "statistics", SyncStep,
         command'.at \in {"foundation", "matches", "auditing", "collected"}, SyncGoesOn(command)'
  PROVE  CommandInv'
  <1>1. CommandTyped'
    BY DEF SyncStep, CommandTyped
  <1>2. SuccessIsEarned'
    BY DEF SuccessIsEarned, Succeeded
  <1>3. command'.kind = "statistics"
    BY DEF SyncStep
  <1> QED BY <1>1, <1>2, <1>3 DEF CommandInv

\* A match that has been dealt with.
LEMMA DealtWithKeeps ==
  ASSUME CommandInv, command.at \in {"matches", "auditing", "collected"}, command.left # {},
         NEW verdict \in Verdicts, SyncStep, whole' = whole,
         command'.at = "matches", command'.result = WithResult(verdict),
         command'.left = command.left \ {Current}
           \/ (command'.left = {} /\ command'.unaudited /\ command'.stopped),
         command.unaudited => command'.unaudited, command.stopped => command'.stopped,
         \A t \in Targets \ {Current} : targetRow'[t] = targetRow[t],
         verdict \in {"already_complete", "collected"} => Current \in whole,
         \/ command'.unaudited
         \/ verdict \notin Safe \cup {"collected"} \/ (verdict = "waiting" /\ Current \in command.asked)
         \/ targetRow'[Current] = "completed"
  PROVE  CommandInv'
  <1>1. /\ command.kind = "statistics" /\ command \in CommandRows /\ SyncGoesOn(command)
        /\ command.at # "foundation"
    BY SyncFacts
  <1>2. /\ Current \in command.left /\ Current = FirstLeft(command.left)
        /\ DOMAIN command'.result = DOMAIN command.result \cup {Current}
        /\ command'.result[Current] = verdict
        /\ \A t \in DOMAIN command.result \ {Current} : command'.result[t] = command.result[t]
    BY <1>1, CurrentIsLeft, ResultsGrow
  <1>3. DOMAIN command.result \cap command.left \subseteq {Current}
    BY <1>1, <1>2 DEF SyncGoesOn, NothingPassedOver, AtHand
  <1>4. DOMAIN command.result \subseteq Targets
    BY <1>1 DEF CommandRows, ResultsOf
  <1>5. StoredAsSaid(command)'
    BY <1>1, <1>2 DEF SyncGoesOn, StoredAsSaid
  <1>6. PICK at : at = Current
    OBVIOUS
  <1>7. AuditedAsSaid(command)'
    <2> SUFFICES ASSUME ~command'.unaudited, NEW m \in DOMAIN command'.result \ command'.left,
                        command'.result[m] \in Safe \cup {"collected"},
                        ~(command'.result[m] = "waiting" /\ m \in command'.asked)
                 PROVE  targetRow'[m] = "completed"
      BY DEF AuditedAsSaid, Safe
    <2>1. CASE m = at
      BY <1>2, <1>6, <2>1 DEF SyncStep
    <2>2. CASE m # at
      <3>1. /\ m \in DOMAIN command.result \ command.left /\ command'.result[m] = command.result[m]
            /\ m \in Targets /\ targetRow'[m] = targetRow[m]
        BY <1>2, <1>3, <1>4, <1>6, <2>2
      <3>2. ~command.unaudited /\ AuditedAsSaid(command) /\ command'.asked = command.asked
        BY <1>1 DEF SyncGoesOn, SyncStep
      <3> QED BY <3>1, <3>2 DEF AuditedAsSaid
    <2> QED BY <2>1, <2>2
  <1>8. NothingPassedOver(command)'
    <2>1. DOMAIN command'.result \cap command'.left = {}
      BY <1>2, <1>3
    <2>2. ASSUME ~command'.bounded, ~command'.stopped
          PROVE  (IF command'.asked # {} THEN command'.asked \cap Targets ELSE Targets)
                    \subseteq command'.left \cup DOMAIN command'.result
      <3>1. (IF command.asked # {} THEN command.asked \cap Targets ELSE Targets)
                    \subseteq command.left \cup DOMAIN command.result
        BY <1>1, <2>2 DEF SyncGoesOn, NothingPassedOver, SyncStep
      <3>2. command'.asked = command.asked /\ command'.left = command.left \ {at}
            /\ DOMAIN command'.result = DOMAIN command.result \cup {at}
        BY <1>2, <1>6, <2>2 DEF SyncStep
      <3> QED BY <3>1, <3>2
    <2> QED BY <2>1, <2>2 DEF NothingPassedOver
  <1>9. SyncGoesOn(command)'
    BY <1>1, <1>5, <1>7, <1>8 DEF SyncGoesOn, AtHand, SyncStep
  <1> QED BY <1>1, <1>9, SyncStepKeeps

LEMMA FoundationLaidKeeps ==
  ASSUME CommandInv, FoundationLaid
  PROVE  CommandInv'
  <1>1. /\ command.at = "foundation" /\ UNCHANGED <<seasonRow, targetRow, counted, whole, sheets>>
    BY DEF FoundationLaid, NoAuditing, StandStill
  <1>2. /\ command.kind = "statistics" /\ command \in CommandRows /\ SyncGoesOn(command)
        /\ targetRow \in AuditRows /\ counted \subseteq whole
    BY <1>1, SyncFacts
  <1>3. Selected \subseteq Targets
    BY DEF Selected
  <1>4. PICK chosen \in SUBSET Targets, c \in {command} \cup Unaudited :
          /\ ~command.bounded => chosen = Selected
          /\ command' = [c EXCEPT !.at = "matches", !.left = chosen]
    BY <1>3 DEF FoundationLaid
  <1>5. /\ c \in CommandRows /\ c.kind = command.kind /\ c.asked = command.asked
        /\ c.bounded = command.bounded /\ c.result = command.result
    BY <1>2 DEF Unaudited, UnauditedIf, CommandRows
  <1>6. /\ command' \in CommandRows /\ command'.kind = command.kind /\ command'.asked = command.asked
        /\ command'.bounded = command.bounded /\ command'.result = command.result
        /\ command'.at = "matches" /\ command'.left = chosen
    BY <1>4, <1>5 DEF CommandRows, Stages
  <1>7. DOMAIN command.result = {} /\ seasonRow = "running"
    BY <1>1, <1>2 DEF SyncGoesOn
  <1>8. SyncStep
    BY <1>1, <1>2, <1>6 DEF SyncStep
  <1>9. NothingPassedOver(command)'
    BY <1>4, <1>6, <1>7 DEF NothingPassedOver, Selected
  <1>10. SyncGoesOn(command)'
    BY <1>1, <1>6, <1>7, <1>9 DEF SyncGoesOn, StoredAsSaid, AuditedAsSaid, AtHand
  <1> QED BY <1>2, <1>6, <1>8, <1>10, SyncStepKeeps

\* Done, and what it leaves of the command it is applied to.
LEMMA DoneRow ==
  ASSUME command \in CommandRows, command.left # {}, NEW verdict \in Verdicts,
         NEW c \in {command} \cup Unaudited
  PROVE  /\ Done(c, verdict) \in CommandRows /\ Done(c, verdict).kind = command.kind
         /\ Done(c, verdict).asked = command.asked /\ Done(c, verdict).bounded = command.bounded
         /\ Done(c, verdict).at = "matches" /\ Done(c, verdict).result = WithResult(verdict)
         /\ Done(c, verdict).left = command.left \ {Current}
         /\ Done(c, verdict).unaudited = c.unaudited /\ Done(c, verdict).stopped = c.stopped
         /\ command.unaudited => c.unaudited
         /\ command.stopped => c.stopped
         /\ c # command => c.unaudited
  <1>1. /\ c \in CommandRows /\ c.kind = command.kind /\ c.asked = command.asked
        /\ c.bounded = command.bounded /\ c.left = command.left
        /\ command.unaudited => c.unaudited
        /\ command.stopped => c.stopped
        /\ c # command => c.unaudited
    BY DEF Unaudited, UnauditedIf, CommandRows
  <1>2. WithResult(verdict) \in ResultsOf
    BY ResultsGrow
  <1> QED BY <1>1, <1>2 DEF Done, CommandRows, Stages

LEMMA DecideKeeps ==
  ASSUME CommandInv, Decide
  PROVE  CommandInv'
  <1>1. /\ command.at = "matches" /\ command.left # {}
        /\ UNCHANGED <<seasonRow, counted, whole, sheets>>
    BY DEF Decide, StandStill
  <1>2. /\ command.kind = "statistics" /\ command \in CommandRows /\ targetRow \in AuditRows
        /\ counted \subseteq whole
    BY <1>1, SyncFacts
  <1>3. Current \in Targets
    BY <1>1, <1>2, CurrentIsLeft
  <1>4. PICK reason \in Decisions(Current) :
          \/ /\ command' = Done(command, reason)
             /\ targetRow' = [targetRow EXCEPT ![Current] = DecisionRow(Current, reason)]
          \/ /\ \E c \in Unaudited : command' = Done(c, reason)
             /\ UNCHANGED targetRow
    BY DEF Decide
  <1>5. /\ reason \in {"waiting", "undecidable", "stats_not_expected", "already_complete"}
        /\ reason = "already_complete" => Current \in whole
    BY <1>2 DEF Decisions
  <1>6. reason \in Verdicts /\ reason # "collected"
    BY <1>5 DEF Verdicts
  <1>7. CASE /\ command' = Done(command, reason)
             /\ targetRow' = [targetRow EXCEPT ![Current] = DecisionRow(Current, reason)]
    <2>1. DecisionRow(Current, reason) \in {"completed", "partial"}
      BY DEF DecisionRow
    <2>2. /\ targetRow' \in AuditRows /\ targetRow'[Current] = DecisionRow(Current, reason)
          /\ \A t \in Targets \ {Current} : targetRow'[t] = targetRow[t]
      BY <1>2, <1>3, <1>7, <2>1 DEF AuditRows
    <2>3. \/ reason \notin Safe \cup {"collected"} \/ (reason = "waiting" /\ Current \in command.asked)
          \/ targetRow'[Current] = "completed"
      BY <1>6, <2>2 DEF DecisionRow
    <2>4. /\ command' \in CommandRows /\ command'.kind = command.kind /\ command'.asked = command.asked
          /\ command'.bounded = command.bounded /\ command'.at = "matches"
          /\ command'.result = WithResult(reason) /\ command'.left = command.left \ {Current}
          /\ command'.unaudited = command.unaudited /\ command'.stopped = command.stopped
      BY <1>1, <1>2, <1>6, <1>7, DoneRow
    <2>5. SyncStep
      BY <1>1, <1>2, <2>2, <2>4 DEF SyncStep
    <2> QED BY <1>1, <1>5, <1>6, <2>2, <2>3, <2>4, <2>5, DealtWithKeeps
  <1>8. CASE (\E c \in Unaudited : command' = Done(c, reason)) /\ UNCHANGED targetRow
    <2>1. PICK c \in Unaudited : command' = Done(c, reason)
      BY <1>8
    <2>2. c.unaudited
      BY <1>2 DEF Unaudited, UnauditedIf, CommandRows
    <2>3. /\ command' \in CommandRows /\ command'.kind = command.kind /\ command'.asked = command.asked
          /\ command'.bounded = command.bounded /\ command'.at = "matches"
          /\ command'.result = WithResult(reason) /\ command'.left = command.left \ {Current}
          /\ command'.unaudited /\ (command.stopped => command'.stopped)
      BY <1>1, <1>2, <1>6, <2>1, <2>2, DoneRow
    <2>4. SyncStep
      BY <1>1, <1>2, <1>8, <2>3 DEF SyncStep
    <2> QED BY <1>1, <1>5, <1>6, <1>8, <2>3, <2>4, DealtWithKeeps
  <1> QED BY <1>4, <1>7, <1>8

LEMMA StatusFailsKeeps ==
  ASSUME CommandInv, StatusFails
  PROVE  CommandInv'
  <1>1. /\ command.at = "matches" /\ command.left # {} /\ command' = Done(command, "failed")
        /\ UNCHANGED <<seasonRow, targetRow, counted, whole, sheets>>
    BY DEF StatusFails, StandStill, NoAuditing
  <1>2. /\ command.kind = "statistics" /\ command \in CommandRows /\ targetRow \in AuditRows
        /\ counted \subseteq whole /\ "failed" \in Verdicts
    BY <1>1, SyncFacts DEF Verdicts
  <1>3. /\ command' \in CommandRows /\ command'.kind = command.kind /\ command'.asked = command.asked
        /\ command'.bounded = command.bounded /\ command'.at = "matches"
        /\ command'.result = WithResult("failed") /\ command'.left = command.left \ {Current}
        /\ command'.unaudited = command.unaudited /\ command'.stopped = command.stopped
    BY <1>1, <1>2, DoneRow
  <1>4. SyncStep /\ "failed" \notin Safe \cup {"collected"}
    BY <1>1, <1>2, <1>3 DEF SyncStep, Safe
  <1> QED BY <1>1, <1>2, <1>3, <1>4, DealtWithKeeps

LEMMA StartMatchAuditKeeps ==
  ASSUME CommandInv, StartMatchAudit
  PROVE  CommandInv'
  <1>1. /\ command.at = "matches" /\ command.left # {}
        /\ command' = [command EXCEPT !.at = "auditing"]
        /\ targetRow' = [targetRow EXCEPT ![Current] = "running"]
        /\ UNCHANGED <<seasonRow, counted, whole, sheets>>
    BY DEF StartMatchAudit, StandStill
  <1>2. /\ command.kind = "statistics" /\ command \in CommandRows /\ targetRow \in AuditRows
        /\ counted \subseteq whole /\ SyncGoesOn(command)
    BY <1>1, SyncFacts
  <1>3. /\ command' \in CommandRows /\ command'.kind = command.kind /\ command'.asked = command.asked
        /\ command'.bounded = command.bounded /\ command'.at = "auditing"
        /\ command'.result = command.result /\ command'.left = command.left
        /\ command'.unaudited = command.unaudited /\ command'.stopped = command.stopped
    BY <1>1, <1>2 DEF CommandRows, Stages
  <1>4. /\ targetRow' \in AuditRows
        /\ \A t \in Targets \ command.left : targetRow'[t] = targetRow[t]
    BY <1>1, <1>2, CurrentIsLeft DEF AuditRows
  <1>5. SyncStep
    BY <1>1, <1>2, <1>3, <1>4 DEF SyncStep
  <1>6. DOMAIN command.result \subseteq Targets
    BY <1>2 DEF CommandRows, ResultsOf
  <1>7. /\ StoredAsSaid(command) /\ AuditedAsSaid(command) /\ NothingPassedOver(command)
        /\ seasonRow = "running"
    BY <1>1, <1>2 DEF SyncGoesOn
  <1>8. AuditedAsSaid(command)'
    BY <1>3, <1>4, <1>6, <1>7 DEF AuditedAsSaid
  <1>9. NothingPassedOver(command)'
    BY <1>1, <1>3, <1>7 DEF NothingPassedOver
  <1>10. StoredAsSaid(command)'
    BY <1>1, <1>3, <1>7 DEF StoredAsSaid
  <1>11. SyncGoesOn(command)'
    BY <1>1, <1>3, <1>7, <1>8, <1>9, <1>10 DEF SyncGoesOn, AtHand
  <1> QED BY <1>2, <1>3, <1>5, <1>11, SyncStepKeeps

LEMMA CollectAndUpsertKeeps ==
  ASSUME CommandInv, CollectAndUpsert
  PROVE  CommandInv'
  <1>1. command.at = "auditing" /\ UNCHANGED <<seasonRow, targetRow, counted, sheets>>
    BY DEF CollectAndUpsert, NoAuditing
  <1>2. /\ command.kind = "statistics" /\ command \in CommandRows /\ targetRow \in AuditRows
        /\ counted \subseteq whole /\ SyncGoesOn(command)
    BY <1>1, SyncFacts
  <1>3. PICK outcome \in Collections :
          /\ command' = [command EXCEPT !.at = "collected", !.result = WithResult(outcome)]
          /\ whole' = IF outcome = "collected" THEN whole \cup {Current} ELSE whole
    BY DEF CollectAndUpsert
  <1>4. /\ StoredAsSaid(command) /\ AuditedAsSaid(command) /\ NothingPassedOver(command)
        /\ seasonRow = "running" /\ command.left # {}
    BY <1>1, <1>2 DEF SyncGoesOn, NothingPassedOver
  <1>5. outcome \in Verdicts /\ outcome # "already_complete"
    BY DEF Collections, Verdicts
  <1>6. PICK at : at = Current
    OBVIOUS
  <1>7. /\ WithResult(outcome) \in ResultsOf /\ at \in command.left /\ at = FirstLeft(command.left)
        /\ DOMAIN WithResult(outcome) = DOMAIN command.result \cup {at}
        /\ WithResult(outcome)[at] = outcome
        /\ \A t \in DOMAIN command.result \ {at} : WithResult(outcome)[t] = command.result[t]
    BY <1>2, <1>4, <1>5, <1>6, CurrentIsLeft, ResultsGrow
  <1>8. /\ command' \in CommandRows /\ command'.kind = command.kind /\ command'.asked = command.asked
        /\ command'.bounded = command.bounded /\ command'.at = "collected"
        /\ command'.result = WithResult(outcome) /\ command'.left = command.left
        /\ command'.unaudited = command.unaudited /\ command'.stopped = command.stopped
    BY <1>2, <1>3, <1>7 DEF CommandRows, Stages
  <1>9. /\ whole \subseteq whole' /\ (outcome = "collected" => at \in whole')
    BY <1>3, <1>6
  <1>10. SyncStep
    BY <1>1, <1>2, <1>8, <1>9 DEF SyncStep
  <1>11. StoredAsSaid(command)'
    BY <1>4, <1>5, <1>7, <1>8, <1>9 DEF StoredAsSaid
  <1>12. AuditedAsSaid(command)'
    BY <1>1, <1>4, <1>7, <1>8 DEF AuditedAsSaid
  <1>13. NothingPassedOver(command)'
    BY <1>1, <1>4, <1>7, <1>8 DEF NothingPassedOver
  <1>14. AtHand(command)'
    <2>1. DOMAIN command.result \cap command.left = {}
      BY <1>1, <1>4 DEF NothingPassedOver
    <2>2. DOMAIN command'.result \cap command'.left = {at}
      BY <1>7, <1>8, <2>1
    <2> QED BY <1>7, <1>8, <2>2 DEF AtHand
  <1>15. SyncGoesOn(command)'
    BY <1>1, <1>4, <1>8, <1>11, <1>12, <1>13, <1>14 DEF SyncGoesOn
  <1> QED BY <1>2, <1>8, <1>10, <1>15, SyncStepKeeps

\* The connection answers after a failed audit, or the run stops.
LEMMA FailedAuditKeeps ==
  ASSUME CommandInv, command.at \in {"auditing", "collected"}, command.left # {},
         NEW verdict \in Verdicts, AfterFailedAudit(verdict),
         UNCHANGED <<seasonRow, targetRow, counted, whole, sheets>>,
         verdict \in {"already_complete", "collected"} => Current \in whole
  PROVE  CommandInv'
  <1>1. /\ command.kind = "statistics" /\ command \in CommandRows /\ targetRow \in AuditRows
        /\ counted \subseteq whole
    BY SyncFacts
  <1>2. PICK broken \in BOOLEAN :
          \/ command' = Done(UnauditedIf(broken), verdict) /\ ~broken
          \/ command' = [Done(UnauditedIf(broken), verdict) EXCEPT !.left = {}] /\ broken
    BY DEF AfterFailedAudit
  <1> DEFINE c == UnauditedIf(broken)
             done == Done(c, verdict)
  <1>3. c \in Unaudited /\ c.unaudited /\ (broken => c.stopped)
    BY <1>1 DEF Unaudited, UnauditedIf, CommandRows
  <1> HIDE DEF c
  <1>4. /\ done \in CommandRows /\ done.kind = command.kind
        /\ done.asked = command.asked /\ done.bounded = command.bounded
        /\ done.at = "matches" /\ done.result = WithResult(verdict)
        /\ done.left = command.left \ {Current}
        /\ done.unaudited /\ done.stopped = c.stopped
        /\ command.stopped => c.stopped
    BY <1>1, <1>3, DoneRow
  <1>5. \/ command' = done
        \/ command' = [done EXCEPT !.left = {}] /\ c.stopped
    BY <1>2, <1>3 DEF c
  <1> HIDE DEF done
  <1>6. /\ command' \in CommandRows /\ command'.kind = command.kind
        /\ command'.asked = command.asked /\ command'.bounded = command.bounded
        /\ command'.at = "matches" /\ command'.result = WithResult(verdict)
        /\ command'.unaudited
        /\ command.stopped => command'.stopped
    BY <1>4, <1>5 DEF CommandRows
  <1>7. command'.left = command.left \ {Current} \/ (command'.left = {} /\ command'.stopped)
    BY <1>4, <1>5 DEF CommandRows
  <1>8. SyncStep
    BY <1>1, <1>6 DEF SyncStep
  <1> QED BY <1>6, <1>7, <1>8, DealtWithKeeps

LEMMA CompleteMatchAuditKeeps ==
  ASSUME CommandInv, CompleteMatchAudit
  PROVE  CommandInv'
  <1>0. PICK outcome : outcome = command.result[Current]
    OBVIOUS
  <1>1. /\ command.at = "collected" /\ UNCHANGED <<seasonRow, whole, sheets>>
        /\ \/ /\ command' = Done(command, outcome)
              /\ targetRow' = [targetRow EXCEPT ![Current] =
                                 IF outcome = "collected" THEN "completed" ELSE "partial"]
              /\ counted' = IF outcome = "collected" THEN counted \cup {Current} ELSE counted
           \/ AfterFailedAudit(outcome) /\ UNCHANGED <<targetRow, counted>>
    BY <1>0 DEF CompleteMatchAudit
  <1>2. /\ command.kind = "statistics" /\ command \in CommandRows /\ targetRow \in AuditRows
        /\ counted \subseteq whole /\ SyncGoesOn(command)
    BY <1>1, SyncFacts
  <1>3. /\ command.left # {} /\ StoredAsSaid(command) /\ AtHand(command)
    BY <1>1, <1>2 DEF SyncGoesOn, NothingPassedOver
  <1>4. Current \in Targets /\ Current = FirstLeft(command.left)
    BY <1>2, <1>3, CurrentIsLeft
  <1>5. Current \in DOMAIN command.result /\ outcome \in Collections
    BY <1>0, <1>1, <1>3, <1>4 DEF AtHand
  <1>6. outcome \in Verdicts /\ outcome \notin {"waiting", "already_complete"}
    BY <1>5 DEF Collections, Verdicts
  <1>7. outcome = "collected" => Current \in whole
    BY <1>0, <1>3, <1>5 DEF StoredAsSaid
  <1>8. CASE AfterFailedAudit(outcome) /\ UNCHANGED <<targetRow, counted>>
    BY <1>1, <1>3, <1>6, <1>7, <1>8, FailedAuditKeeps
  <1>9. CASE /\ command' = Done(command, outcome)
             /\ targetRow' = [targetRow EXCEPT ![Current] =
                                 IF outcome = "collected" THEN "completed" ELSE "partial"]
             /\ counted' = IF outcome = "collected" THEN counted \cup {Current} ELSE counted
    <2>1. /\ targetRow' \in AuditRows
          /\ targetRow'[Current] = IF outcome = "collected" THEN "completed" ELSE "partial"
          /\ \A t \in Targets \ {Current} : targetRow'[t] = targetRow[t]
      BY <1>2, <1>4, <1>9 DEF AuditRows
    <2>2. /\ command' \in CommandRows /\ command'.kind = command.kind /\ command'.asked = command.asked
          /\ command'.bounded = command.bounded /\ command'.at = "matches"
          /\ command'.result = WithResult(outcome) /\ command'.left = command.left \ {Current}
          /\ command'.unaudited = command.unaudited /\ command'.stopped = command.stopped
      BY <1>2, <1>3, <1>6, <1>9, DoneRow
    <2>3. SyncStep
      BY <1>1, <1>2, <1>7, <1>9, <2>1, <2>2 DEF SyncStep
    <2>4. outcome \notin Safe \cup {"collected"} \/ targetRow'[Current] = "completed"
      BY <1>5, <2>1 DEF Collections, Safe
    <2> QED BY <1>1, <1>3, <1>6, <1>7, <2>1, <2>2, <2>3, <2>4, DealtWithKeeps
  <1> QED BY <1>1, <1>8, <1>9

LEMMA CollectionFailsKeeps ==
  ASSUME CommandInv, CollectionFails
  PROVE  CommandInv'
  <1>1. /\ command.at = "auditing" /\ UNCHANGED <<seasonRow, counted, whole, sheets>>
        /\ \/ /\ command' = Done(command, "failed")
              /\ targetRow' = [targetRow EXCEPT ![Current] = "failed"]
           \/ AfterFailedAudit("failed") /\ UNCHANGED targetRow
    BY DEF CollectionFails, StandStill
  <1>2. /\ command.kind = "statistics" /\ command \in CommandRows /\ targetRow \in AuditRows
        /\ counted \subseteq whole /\ SyncGoesOn(command) /\ "failed" \in Verdicts
        /\ "failed" \notin Safe \cup {"collected"}
    BY <1>1, SyncFacts DEF Verdicts, Safe
  <1>3. command.left # {}
    BY <1>1, <1>2 DEF SyncGoesOn, NothingPassedOver
  <1>4. CASE AfterFailedAudit("failed") /\ UNCHANGED targetRow
    BY <1>1, <1>2, <1>3, <1>4, FailedAuditKeeps
  <1>5. CASE /\ command' = Done(command, "failed")
             /\ targetRow' = [targetRow EXCEPT ![Current] = "failed"]
    <2>1. /\ targetRow' \in AuditRows
          /\ \A t \in Targets \ {Current} : targetRow'[t] = targetRow[t]
      BY <1>2, <1>5 DEF AuditRows
    <2>2. /\ command' \in CommandRows /\ command'.kind = command.kind /\ command'.asked = command.asked
          /\ command'.bounded = command.bounded /\ command'.at = "matches"
          /\ command'.result = WithResult("failed") /\ command'.left = command.left \ {Current}
          /\ command'.unaudited = command.unaudited /\ command'.stopped = command.stopped
      BY <1>2, <1>3, <1>5, DoneRow
    <2>3. SyncStep
      BY <1>1, <1>2, <2>1, <2>2 DEF SyncStep
    <2> QED BY <1>1, <1>2, <1>3, <2>1, <2>2, <2>3, DealtWithKeeps
  <1> QED BY <1>1, <1>4, <1>5

LEMMA FinishRunKeeps ==
  ASSUME CommandInv, FinishRun
  PROVE  CommandInv'
  <1>1. /\ command.at = "matches" /\ command.left = {}
        /\ UNCHANGED <<targetRow, counted, whole, sheets>>
    BY DEF FinishRun, StandStill
  <1>2. /\ command.kind = "statistics" /\ command \in CommandRows /\ SyncGoesOn(command)
        /\ seasonRow = "running" /\ targetRow \in AuditRows
    BY <1>1, SyncFacts DEF SyncGoesOn
  <1>3. CASE command.stopped
    <2>1. End(command, "failure") /\ seasonRow' = seasonRow
      BY <1>3 DEF FinishRun
    <2> QED BY <1>1, <1>2, <2>1, EndRow, EndsUnearned
  <1>4. CASE ~command.stopped
    <2>1. PICK c \in {command} \cup Unaudited :
            \/ /\ End(c, IF Material(c) THEN "partial" ELSE "success")
               /\ seasonRow' = IF Material(c) THEN "partial" ELSE "completed"
            \/ End([c EXCEPT !.unaudited = TRUE], "partial") /\ UNCHANGED seasonRow
      BY <1>4 DEF FinishRun
    <2>2. /\ c \in CommandRows /\ c.kind = command.kind /\ c.asked = command.asked
          /\ c.bounded = command.bounded /\ c.result = command.result
          /\ command.unaudited => c.unaudited
      BY <1>2, <2>1 DEF Unaudited, UnauditedIf, CommandRows
    <2>3. CASE End([c EXCEPT !.unaudited = TRUE], "partial") /\ UNCHANGED seasonRow
      <3>1. [c EXCEPT !.unaudited = TRUE] \in CommandRows /\ [c EXCEPT !.unaudited = TRUE].kind = c.kind
        BY <2>2 DEF CommandRows
      <3> DEFINE d == [c EXCEPT !.unaudited = TRUE]
      <3>2. End(d, "partial") /\ d \in CommandRows /\ d.kind = command.kind
        BY <2>2, <2>3, <3>1
      <3> HIDE DEF d
      <3> QED BY <1>1, <1>2, <2>3, <3>2, EndRow, EndsUnearned
    <2>4. CASE Material(c) /\ End(c, "partial") /\ seasonRow' = "partial"
      BY <1>1, <1>2, <2>2, <2>4, EndRow, EndsUnearned
    <2>5. CASE ~Material(c) /\ End(c, "success") /\ seasonRow' = "completed"
      <3>1. /\ command' \in CommandRows /\ command'.at = "ended" /\ command'.outcome = "success"
            /\ command'.kind = "statistics" /\ command'.asked = command.asked
            /\ command'.bounded = command.bounded /\ command'.result = command.result
        BY <1>2, <2>2, <2>5, EndRow
      <3>2. /\ \A m \in DOMAIN command.result : command.result[m] \in Safe \cup {"collected"}
            /\ ~command.unaudited
            /\ \A m \in command.asked : /\ m \in DOMAIN command.result
                                        /\ command.result[m] \in (Safe \ {"waiting"}) \cup {"collected"}
        BY <2>2, <2>5 DEF Material, Unsatisfied, Range
      <3>3. StoredAsSaid(command) /\ AuditedAsSaid(command) /\ NothingPassedOver(command)
        BY <1>1, <1>2 DEF SyncGoesOn
      <3>4. \A m \in DOMAIN command.result : ~(command.result[m] = "waiting" /\ m \in command.asked)
        BY <3>2
      <3>5. \A m \in DOMAIN command.result : targetRow[m] = "completed"
        BY <1>1, <3>2, <3>3, <3>4 DEF AuditedAsSaid
      <3>6. command.bounded \/ Selected \subseteq DOMAIN command.result
        BY <1>1, <1>2, <1>4, <3>3 DEF NothingPassedOver, Selected, CommandRows
      <3>7. \A m \in DOMAIN command.result :
               \/ command.result[m] = "waiting" /\ m \notin command.asked
               \/ command.result[m] = "stats_not_expected"
               \/ m \in whole
        BY <3>2, <3>3, <3>4 DEF StoredAsSaid, Safe
      <3>8. CommandTyped'
        BY <1>1, <3>1 DEF CommandInv, CommandTyped
      <3>9. SuccessIsEarned'
        BY <1>1, <2>5, <3>1, <3>2, <3>5, <3>6, <3>7 DEF SuccessIsEarned, Succeeded, Selected
      <3> QED BY <3>1, <3>8, <3>9 DEF CommandInv
    <2> QED BY <2>1, <2>3, <2>4, <2>5
  <1> QED BY <1>3, <1>4

LEMMA BackfillKeeps ==
  ASSUME CommandInv, BackfillRound
  PROVE  CommandInv'
  <1>1. command.at = "rounds" /\ command.left # {} /\ UNCHANGED <<counted, whole, seasonRow, targetRow>>
    BY DEF BackfillRound, NoAuditing
  <1>2. /\ command.kind = "rosters" /\ command \in CommandRows /\ targetRow \in AuditRows
        /\ counted \subseteq whole /\ BackfillGoesOn(command)
    <2>1. command.kind \in {"none", "statistics", "rosters"}
      BY DEF CommandInv, CommandTyped, CommandRows
    <2>2. command.kind = "rosters"
      BY <1>1, <2>1 DEF CommandInv, CommandTyped
    <2> QED BY <1>1, <2>2 DEF CommandInv, CommandTyped
  <1>3. PICK outcome \in RoundOutcomes :
          /\ command' = [command EXCEPT !.left = command.left \ {Current}, !.result = WithResult(outcome)]
          /\ sheets' = IF outcome = "published" THEN sheets \cup {Current} ELSE sheets
    BY DEF BackfillRound
  <1>4. outcome \in Verdicts
    BY DEF RoundOutcomes, Verdicts
  <1>5. PICK at : at = Current
    OBVIOUS
  <1>6. /\ WithResult(outcome) \in ResultsOf /\ at \in command.left
        /\ DOMAIN WithResult(outcome) = DOMAIN command.result \cup {at}
        /\ WithResult(outcome)[at] = outcome
        /\ \A t \in DOMAIN command.result \ {at} : WithResult(outcome)[t] = command.result[t]
    BY <1>1, <1>2, <1>4, <1>5, CurrentIsLeft, ResultsGrow
  <1>7. /\ command' \in CommandRows /\ command'.kind = "rosters" /\ command'.asked = command.asked
        /\ command'.at = "rounds"
        /\ command'.result = WithResult(outcome) /\ command'.left = command.left \ {at}
    BY <1>1, <1>2, <1>3, <1>5, <1>6 DEF CommandRows
  <1>8. sheets \subseteq sheets' /\ (outcome = "published" => at \in sheets')
    BY <1>3, <1>5
  <1>9. BackfillGoesOn(command)'
    BY <1>2, <1>6, <1>7, <1>8 DEF BackfillGoesOn
  <1>10. CommandTyped'
    BY <1>1, <1>2, <1>7 DEF CommandTyped
  <1>11. SuccessIsEarned'
    BY <1>7 DEF SuccessIsEarned, Succeeded
  <1> QED BY <1>7, <1>9, <1>10, <1>11 DEF CommandInv

LEMMA FinishBackfillKeeps ==
  ASSUME CommandInv, FinishBackfill
  PROVE  CommandInv'
  <1>1. /\ command.at = "rounds" /\ command.left = {}
        /\ UNCHANGED <<counted, whole, sheets, seasonRow, targetRow>>
    BY DEF FinishBackfill, NoAuditing, StandStill
  <1>2. /\ command.kind = "rosters" /\ command \in CommandRows /\ BackfillGoesOn(command)
    <2>1. command.kind \in {"none", "statistics", "rosters"}
      BY DEF CommandInv, CommandTyped, CommandRows
    <2>2. command.kind = "rosters"
      BY <1>1, <2>1 DEF CommandInv, CommandTyped
    <2> QED BY <1>1, <2>2 DEF CommandInv, CommandTyped
  <1>3. CASE Range(command.result) = {"published"} /\ End(command, "success")
    <2>1. /\ command' \in CommandRows /\ command'.at = "ended" /\ command'.kind = "rosters"
          /\ command'.asked = command.asked
      BY <1>2, <1>3, EndRow
    <2>2. command.asked \subseteq sheets
      BY <1>1, <1>2, <1>3 DEF BackfillGoesOn, Range
    <2>3. SuccessIsEarned'
      BY <1>1, <2>1, <2>2 DEF SuccessIsEarned, Succeeded
    <2>4. CommandTyped'
      BY <1>1, <2>1 DEF CommandInv, CommandTyped
    <2> QED BY <2>1, <2>3, <2>4 DEF CommandInv
  <1>4. CASE \E outcome \in {"partial", "failure"} : End(command, outcome)
    BY <1>1, <1>2, <1>4, EndRow, EndsUnearned
  <1> QED BY <1>3, <1>4 DEF FinishBackfill

LEMMA CommandsStep == CommandInv /\ [CommandsNext]_commandVars => CommandInv'
  <1>1. ASSUME CommandInv, UNCHANGED commandVars PROVE CommandInv'
    BY <1>1 DEF CommandInv, CommandTyped, SuccessIsEarned, Succeeded, Selected, SyncGoesOn,
                StoredAsSaid, AuditedAsSaid, NothingPassedOver, AtHand, BackfillGoesOn, commandVars
  <1> QED BY <1>1, BegunKeeps, BreaksKeep, FoundationLaidKeeps, DecideKeeps, StatusFailsKeeps,
             StartMatchAuditKeeps, CollectAndUpsertKeeps, CompleteMatchAuditKeeps,
             CollectionFailsKeeps, FinishRunKeeps, BackfillKeeps, FinishBackfillKeeps
          DEF CommandsNext

\* For any matches, rounds, requests and failures: a command ends with exit code 0 only when
\* what it was to process is dealt with, stored and audited (SeasonSynchronizer.run,
\* sync_match_rosters).
THEOREM SuccessesAreEarned == CommandsSpec => []SuccessIsEarned
  <1>1. CommandInv => SuccessIsEarned
    BY DEF CommandInv
  <1> QED BY <1>1, CommandsStart, CommandsStep, PTL DEF CommandsSpec

-----------------------------------------------------------------------------
(* The season synchroniser on one match.                                        *)

SyncRows == [at : {"new", "concluded", "not concluded", "already complete", "not expected",
                   "auditing", "collected", "upserted", "completed", "partial", "failed"},
             order : Nat, result : Results]
AuditsRows == [started : Nat, completed : [order : Nat, read : Nat, players : SUBSET Player]]

SyncTyped ==
  /\ statRows \in Rows /\ sync \in [Runs -> SyncRows] /\ audits \in AuditsRows

\* What was completed, or is about to be, is among the authoritative rows for good.
CompletedIsStored ==
  /\ audits.completed.read = Cardinality(audits.completed.players)
  /\ audits.completed.players \subseteq Authoritative(statRows)
  /\ \A r \in Runs : sync[r].at = "upserted" /\ sync[r].result.kind = "concluded"
       => sync[r].result.players \subseteq Authoritative(statRows)

SyncInv == SyncTyped /\ CompletedIsStored

LEMMA SyncStarts == SyncInit => SyncInv
  <1> SUFFICES ASSUME SyncInit PROVE SyncInv
    OBVIOUS
  <1>1. NewRun \in SyncRows /\ NewRun.at = "new"
    BY DEF NewRun, SyncRows, NoResult, Results, ResultKind
  <1>2. sync \in [Runs -> SyncRows] /\ \A r \in Runs : sync[r] = NewRun
    BY <1>1 DEF SyncInit
  <1>3. statRows \in Rows
    BY DEF SyncInit, NoRows, NoRow, Rows, Authority
  <1>4. /\ audits.completed = NoAudit /\ audits \in AuditsRows
    BY DEF SyncInit, NoAudit, AuditsRows
  <1>5. Cardinality({}) = 0
    BY FS_EmptySet
  <1>6. CompletedIsStored
    BY <1>1, <1>2, <1>4, <1>5 DEF CompletedIsStored, NoAudit
  <1> QED BY <1>2, <1>3, <1>4, <1>6 DEF SyncInv, SyncTyped

\* The upsert never takes authority away, and a concluded result has it.
LEMMA UpsertKeepsAuthority ==
  ASSUME NEW rows \in Rows, NEW result \in Results
  PROVE  /\ Upserted(rows, result) \in Rows
         /\ Authoritative(rows) \subseteq Authoritative(Upserted(rows, result))
         /\ result.kind = "concluded"
              => result.players \subseteq Authoritative(Upserted(rows, result))
  <1>1. AuthorityOf(result.kind) \in 1 .. 2 /\ (result.kind = "concluded" => AuthorityOf(result.kind) = 2)
    BY DEF AuthorityOf
  <1>2. result.players \subseteq Player
    BY DEF Results
  <1>3. CASE result.kind \in {"unavailable", "empty"}
    BY <1>3 DEF Upserted
  <1>4. CASE result.kind \notin {"unavailable", "empty"}
    <2>1. Upserted(rows, result)
            = [p \in Player |-> IF p \in result.players /\ AuthorityOf(result.kind) >= rows[p]
                                THEN AuthorityOf(result.kind) ELSE rows[p]]
      BY <1>4 DEF Upserted
    <2>2. \A p \in Player : rows[p] \in 0 .. 2
      BY DEF Rows, Authority
    <2>3. Upserted(rows, result) \in Rows
      BY <1>1, <2>1, <2>2 DEF Rows, Authority
    <2>4. \A p \in Player : rows[p] = 2 => Upserted(rows, result)[p] = 2
      BY <1>1, <2>1, <2>2
    <2>5. result.kind = "concluded" => \A p \in result.players : Upserted(rows, result)[p] = 2
      BY <1>1, <1>2, <2>1, <2>2
    <2> QED BY <1>2, <2>3, <2>4, <2>5 DEF Authoritative
  <1> QED BY <1>3, <1>4

LEMMA CollectedTyped ==
  ASSUME NEW answer \in SyncAnswers, NEW canonical
  PROVE  Collected(answer, canonical) \in Results
  <1>1. ResultKindOf(answer, canonical) \in ResultKind
    BY DEF ResultKindOf, ResultKind
  <1> QED BY <1>1, SyncAnswersAssumption DEF Collected, Results

\* A run that goes from one step to the next.
LEMMA RunKeeps ==
  ASSUME SyncInv, NEW r \in Runs, NEW next \in SyncRows, sync' = [sync EXCEPT ![r] = next],
         statRows' \in Rows, Authoritative(statRows) \subseteq Authoritative(statRows'),
         audits' \in AuditsRows, audits'.completed = audits.completed,
         next.at = "upserted" /\ next.result.kind = "concluded"
           => next.result.players \subseteq Authoritative(statRows')
  PROVE  SyncInv'
  <1>1. /\ sync' \in [Runs -> SyncRows] /\ sync'[r] = next
        /\ \A q \in Runs : q # r => sync'[q] = sync[q]
    BY DEF SyncInv, SyncTyped
  <1>2. \A q \in Runs : sync'[q].at = "upserted" /\ sync'[q].result.kind = "concluded"
          => sync'[q].result.players \subseteq Authoritative(statRows')
    BY <1>1 DEF SyncInv, CompletedIsStored
  <1>3. /\ audits'.completed.read = Cardinality(audits'.completed.players)
        /\ audits'.completed.players \subseteq Authoritative(statRows')
    BY DEF SyncInv, CompletedIsStored
  <1>4. CompletedIsStored'
    BY <1>2, <1>3 DEF CompletedIsStored, Authoritative
  <1> QED BY <1>1, <1>4 DEF SyncInv, SyncTyped

LEMMA RunStepsKeep ==
  ASSUME SyncInv, NEW r \in Runs,
         Look(r) \/ SkipComplete(r) \/ SkipReviewed(r) \/ StartAudit(r) \/ CollectMatch(r) \/ SyncFails(r)
  PROVE  SyncInv'
  <1>1. /\ statRows' = statRows /\ statRows \in Rows /\ audits \in AuditsRows /\ sync[r] \in SyncRows
        /\ audits.started \in Nat /\ audits.started + 1 \in Nat
    <2>1. statRows' = statRows
      BY DEF Look, SkipComplete, SkipReviewed, StartAudit, CollectMatch, SyncFails
    <2>2. statRows \in Rows /\ audits \in AuditsRows /\ sync[r] \in SyncRows
      BY DEF SyncInv, SyncTyped
    <2> QED BY <2>1, <2>2 DEF AuditsRows
  <1>2. CASE Look(r)
    <2>1. PICK at \in {"concluded", "not concluded"} : sync' = [sync EXCEPT ![r].at = at]
      BY <1>2 DEF Look
    <2> DEFINE next == [sync[r] EXCEPT !.at = at]
    <2>2. sync' = [sync EXCEPT ![r] = next] /\ next \in SyncRows /\ next.at = at
      BY <1>1, <2>1 DEF SyncRows, SyncInv, SyncTyped
    <2> HIDE DEF next
    <2> QED BY <1>1, <1>2, <2>2, RunKeeps DEF Look
  <1>3. CASE SkipComplete(r) \/ SkipReviewed(r) \/ SyncFails(r)
    <2>1. PICK how \in {"already complete", "not expected", "failed"} :
            sync' = [sync EXCEPT ![r] = [NewRun EXCEPT !.at = how]]
      BY <1>3 DEF SkipComplete, SkipReviewed, SyncFails, Ended
    <2> DEFINE next == [NewRun EXCEPT !.at = how]
    <2>2. sync' = [sync EXCEPT ![r] = next] /\ next \in SyncRows /\ next.at = how
      BY <2>1 DEF SyncRows, NewRun, NoResult, Results, ResultKind
    <2>3. audits' = audits
      BY <1>3 DEF SkipComplete, SkipReviewed, SyncFails
    <2> HIDE DEF next
    <2> QED BY <1>1, <2>2, <2>3, RunKeeps
  <1>4. CASE StartAudit(r)
    <2> DEFINE next == [sync[r] EXCEPT !.at = "auditing", !.order = audits.started + 1]
    <2>1. sync' = [sync EXCEPT ![r] = next] /\ next \in SyncRows /\ next.at = "auditing"
      BY <1>1, <1>4 DEF StartAudit, SyncRows, SyncInv, SyncTyped
    <2>2. audits' \in AuditsRows /\ audits'.completed = audits.completed
      BY <1>1, <1>4 DEF StartAudit, StartScrapeRun, AuditsRows
    <2> HIDE DEF next
    <2> QED BY <1>1, <2>1, <2>2, RunKeeps
  <1>5. CASE CollectMatch(r)
    <2>1. PICK result \in Results :
            sync' = [sync EXCEPT ![r].at = "collected", ![r].result = result]
      BY <1>5, CollectedTyped DEF CollectMatch
    <2> DEFINE next == [sync[r] EXCEPT !.at = "collected", !.result = result]
    <2>2. sync' = [sync EXCEPT ![r] = next] /\ next \in SyncRows /\ next.at = "collected"
      BY <1>1, <2>1 DEF SyncRows, SyncInv, SyncTyped
    <2> HIDE DEF next
    <2> QED BY <1>1, <1>5, <2>2, RunKeeps DEF CollectMatch
  <1> QED BY <1>2, <1>3, <1>4, <1>5

LEMMA UpsertCollectedKeeps ==
  ASSUME SyncInv, NEW r \in Runs, UpsertCollected(r)
  PROVE  SyncInv'
  <1>1. /\ statRows \in Rows /\ audits \in AuditsRows /\ sync[r] \in SyncRows /\ sync[r].result \in Results
    BY DEF SyncInv, SyncTyped, SyncRows
  <1>2. statRows' = Upserted(statRows, sync[r].result) /\ audits' = audits
    BY DEF UpsertCollected
  <1> DEFINE next == [sync[r] EXCEPT !.at = "upserted"]
  <1>3. sync' = [sync EXCEPT ![r] = next] /\ next \in SyncRows /\ next.result = sync[r].result
    BY <1>1 DEF UpsertCollected, SyncRows, SyncInv, SyncTyped
  <1> HIDE DEF next
  <1> QED BY <1>1, <1>2, <1>3, UpsertKeepsAuthority, RunKeeps

LEMMA CompleteAuditKeeps ==
  ASSUME SyncInv, NEW r \in Runs, CompleteAudit(r)
  PROVE  SyncInv'
  <1>0. PICK result : result = sync[r].result
    OBVIOUS
  <1>1. /\ sync[r].at = "upserted" /\ statRows' = statRows
        /\ audits' = CompleteScrapeRun(sync[r].order, AuditStatus(result), result.players)
        /\ sync' = [sync EXCEPT ![r] = [NewRun EXCEPT !.at = AuditStatus(result)]]
    BY <1>0 DEF CompleteAudit, Ended
  <1>2. /\ statRows \in Rows /\ audits \in AuditsRows /\ sync[r] \in SyncRows /\ result \in Results
        /\ sync[r].order \in Nat
    BY <1>0 DEF SyncInv, SyncTyped, SyncRows
  <1>3. AuditStatus(result) \in {"completed", "partial"}
    BY DEF AuditStatus
  <1> DEFINE next == [NewRun EXCEPT !.at = AuditStatus(result)]
  <1>4. sync' = [sync EXCEPT ![r] = next] /\ next \in SyncRows /\ next.at # "upserted"
    BY <1>1, <1>3 DEF SyncRows, NewRun, NoResult, Results, ResultKind
  <1> HIDE DEF next
  <1>5. CASE audits' = audits
    BY <1>1, <1>2, <1>4, <1>5, RunKeeps
  <1>6. CASE audits' # audits
    <2>1. /\ result.kind = "concluded"
          /\ audits' = [audits EXCEPT !.completed = [order   |-> sync[r].order,
                                                     read    |-> Cardinality(result.players),
                                                     players |-> result.players]]
      BY <1>1, <1>6 DEF CompleteScrapeRun, AuditStatus
    <2>2. result.players \subseteq Player /\ IsFiniteSet(result.players)
      BY <1>2, PlayerAssumption, FS_Subset DEF Results
    <2>3. Cardinality(result.players) \in Nat
      BY <2>2, FS_CardinalityType
    <2>4. /\ audits' \in AuditsRows /\ audits'.completed.read = Cardinality(result.players)
          /\ audits'.completed.players = result.players
      BY <1>2, <2>1, <2>2, <2>3 DEF AuditsRows
    <2>5. result.players \subseteq Authoritative(statRows)
      BY <1>0, <1>1, <2>1 DEF SyncInv, CompletedIsStored
    <2>6. /\ sync' \in [Runs -> SyncRows] /\ sync'[r] = next
          /\ \A q \in Runs : q # r => sync'[q] = sync[q]
      BY <1>4 DEF SyncInv, SyncTyped
    <2>7. CompletedIsStored'
      BY <1>1, <1>4, <2>4, <2>5, <2>6 DEF SyncInv, CompletedIsStored, Authoritative
    <2> QED BY <1>1, <1>2, <2>4, <2>6, <2>7 DEF SyncInv, SyncTyped
  <1> QED BY <1>5, <1>6

LEMMA SyncSteps == SyncInv /\ [SyncNext]_syncVars => SyncInv'
  <1>1. ASSUME SyncInv, UNCHANGED <<sync, audits>>, statRows' \in Rows,
               Authoritative(statRows) \subseteq Authoritative(statRows')
        PROVE  SyncInv'
    <2>1. SyncTyped'
      BY <1>1 DEF SyncInv, SyncTyped
    <2>2. CompletedIsStored
      BY <1>1 DEF SyncInv
    <2>3. CompletedIsStored'
      BY <1>1, <2>2 DEF CompletedIsStored, Authoritative
    <2> QED BY <2>1, <2>3 DEF SyncInv
  <1>2. ASSUME SyncInv, UNCHANGED syncVars \/ UpstreamAdvances \/ Review PROVE SyncInv'
    <2>1. UNCHANGED <<sync, audits, statRows>> /\ statRows \in Rows
      BY <1>2 DEF syncVars, UpstreamAdvances, Review, SyncInv, SyncTyped
    <2> QED BY <1>1, <1>2, <2>1
  <1>3. ASSUME SyncInv, OneShotWrites PROVE SyncInv'
    <2>1. PICK answer \in SyncAnswers : statRows' = Upserted(statRows, Collected(answer, said.stored))
      BY <1>3 DEF OneShotWrites
    <2>2. statRows \in Rows /\ UNCHANGED <<sync, audits>>
      BY <1>3 DEF OneShotWrites, SyncInv, SyncTyped
    <2>3. Collected(answer, said.stored) \in Results
      BY CollectedTyped
    <2>4. /\ statRows' \in Rows /\ Authoritative(statRows) \subseteq Authoritative(statRows')
      BY <2>1, <2>2, <2>3, UpsertKeepsAuthority
    <2> QED BY <1>1, <1>3, <2>2, <2>4
  <1> QED BY <1>2, <1>3, RunStepsKeep, UpsertCollectedKeeps, CompleteAuditKeeps DEF SyncNext

\* A match is passed over for the rows of the completed collection started last.
LEMMA PassedOverWasCollected ==
  ASSUME SyncInv, NEW r \in Runs, SkipComplete(r)
  PROVE  Authoritative(statRows) = audits.completed.players
  <1>1. audits.completed.read = Cardinality(Authoritative(statRows))
    BY DEF SkipComplete, AlreadyComplete, Concluded
  <1>2. IsFiniteSet(Authoritative(statRows))
    BY PlayerAssumption, FS_Subset DEF Authoritative
  <1>3. /\ audits.completed.players \subseteq Authoritative(statRows)
        /\ audits.completed.read = Cardinality(audits.completed.players)
    BY DEF SyncInv, CompletedIsStored
  <1> QED BY <1>1, <1>2, <1>3, FS_Subset

\* For any runs, answers and writes of others: a match passed over as complete has exactly
\* the authoritative rows of the completed collection started last, so the two numbers that
\* are compared never agree by accident (_process_match).
THEOREM CompleteIsNoAccident == SyncSpec => CompleteWasCollected
  <1>1. SyncInv /\ [SyncNext]_syncVars =>
          [\A r \in Runs :
             sync'[r].at = "already complete" /\ sync[r].at # "already complete" =>
               Authoritative(statRows) = audits.completed.players]_syncVars
    <2> SUFFICES ASSUME SyncInv, SyncNext, NEW r \in Runs,
                        sync'[r].at = "already complete", sync[r].at # "already complete"
                 PROVE  Authoritative(statRows) = audits.completed.players
      OBVIOUS
    <2>1. sync \in [Runs -> SyncRows]
      BY DEF SyncInv, SyncTyped
    <2>2. \A q \in Runs : sync'[q] = sync[q] => q # r
      OBVIOUS
    <2>3. CASE UpstreamAdvances \/ OneShotWrites \/ Review
      BY <2>2, <2>3 DEF UpstreamAdvances, OneShotWrites, Review
    <2>4. ASSUME NEW q \in Runs,
                 \/ Look(q) \/ SkipComplete(q) \/ SkipReviewed(q) \/ StartAudit(q)
                 \/ CollectMatch(q) \/ UpsertCollected(q) \/ CompleteAudit(q) \/ SyncFails(q)
          PROVE  Authoritative(statRows) = audits.completed.players
      <3>1. CASE SkipComplete(q)
        BY <3>1, PassedOverWasCollected
      <3>2. CASE Look(q) \/ StartAudit(q) \/ CollectMatch(q) \/ UpsertCollected(q)
        BY <2>1, <2>2, <3>2 DEF Look, StartAudit, CollectMatch, UpsertCollected, SyncRows
      <3>3. CASE SkipReviewed(q) \/ CompleteAudit(q) \/ SyncFails(q)
        BY <2>1, <2>2, <3>3
           DEF SkipReviewed, CompleteAudit, SyncFails, Ended, AuditStatus, NewRun, SyncRows
      <3> QED BY <2>4, <3>1, <3>2, <3>3
    <2> QED BY <2>3, <2>4 DEF SyncNext
  <1> QED BY <1>1, SyncStarts, SyncSteps, PTL DEF SyncSpec, CompleteWasCollected

----------------------------------------------------------------------------
(* The read resources beside the writers.  Links only name players there   *)
(* are, players only grow and authority is never taken away, so what was   *)
(* selected first is covered by what is selected later.                    *)
TableRows == [stored : BOOLEAN, current : BOOLEAN, rows : Rows, players : SUBSET Canonical,
              links : [Links -> SUBSET Canonical]]

LinksNamePlayers == \A t \in Links : tables.links[t] \subseteq tables.players

QueryTyped ==
  /\ DOMAIN query = {"of", "subject", "sides", "status", "done", "seen"}
  /\ query.of \in Resources \cup {<<>>}
  /\ query.sides \subseteq {"home", "away"}
  /\ query.done \in 0 .. Len(query.of)
  /\ DOMAIN query.seen = {query.of[i] : i \in 1 .. query.done}
  /\ query.status = "reading" => query.done < Len(query.of)
  /\ query.status = "answered" => query.done = Len(query.of)

SeenLinks ==
  /\ \A t \in DOMAIN query.seen \cap Links : query.seen[t] \subseteq tables.players
  /\ "names" \in DOMAIN query.seen
       => \A t \in DOMAIN query.seen \cap Links : query.seen[t] \subseteq query.seen["names"]

SeenRows ==
  /\ "finality" \in DOMAIN query.seen
       => /\ query.seen["finality"] \in Rows
          /\ Authoritative(query.seen["finality"]) \subseteq Authoritative(tables.rows)
  /\ {"finality", "stats"} \subseteq DOMAIN query.seen
       => /\ query.seen["stats"] \in Rows
          /\ Authoritative(query.seen["finality"]) \subseteq Authoritative(query.seen["stats"])

ReadsInv == tables \in TableRows /\ LinksNamePlayers /\ QueryTyped /\ SeenLinks /\ SeenRows

\* What each resource selects: the names after whatever links to players, and the rows of a
\* match after their finality.
Before(of, first, then) ==
  \A i, j \in 1 .. Len(of) : of[i] \in first /\ of[j] \in then => i < j

InOrder(of) ==
  /\ Len(of) \in Nat /\ Len(of) > 0
  /\ Before(of, Links, {"names"})
  /\ Before(of, {"finality"}, {"stats"})

LEMMA ResourceOrder == \A of \in Resources : InOrder(of)
  <1> SUFFICES ASSUME NEW of \in Resources PROVE InOrder(of)
    OBVIOUS
  <1>1. CASE of \in {SeasonList, OneMatch, OneSummary}
    <2>1. Len(of) = 1
      BY <1>1 DEF SeasonList, OneMatch, OneSummary
    <2>2. /\ of[1] \in {"seasons", "matches", "summaries"}
      BY <1>1 DEF SeasonList, OneMatch, OneSummary
    <2>3. \A i \in 1 .. Len(of) : i = 1
      BY <2>1
    <2>4. Before(of, Links, {"names"})
      BY <2>2, <2>3 DEF Before, Links
    <2>5. Before(of, {"finality"}, {"stats"})
      BY <2>2, <2>3 DEF Before
    <2> QED BY <2>1, <2>4, <2>5 DEF InOrder
  <1>2. CASE of \in {OneRound, RoundMatches, PlayerSeasons, SeasonPlayers,
                     SeasonSummaries, Movements}
    <2>1. Len(of) = 2
      BY <1>2 DEF OneRound, RoundMatches, PlayerSeasons, SeasonPlayers,
                   SeasonSummaries, Movements
    <2>2. /\ of[1] \in {"rounds", "seasons", "players"}
          /\ of[2] \in {"teams", "matches", "memberships", "summaries", "movements"}
      BY <1>2 DEF OneRound, RoundMatches, PlayerSeasons, SeasonPlayers,
                   SeasonSummaries, Movements
    <2>3. \A i \in 1 .. Len(of) : i = 1 \/ i = 2
      BY <2>1
    <2>4. Before(of, Links, {"names"})
      BY <2>2, <2>3 DEF Before, Links
    <2>5. Before(of, {"finality"}, {"stats"})
      BY <2>2, <2>3 DEF Before
    <2> QED BY <2>1, <2>4, <2>5 DEF InOrder
  <1>3. CASE of \in {SeasonRounds, MatchPlayerStats}
    <2>1. Len(of) = 3
      BY <1>3 DEF SeasonRounds, MatchPlayerStats
    <2>2. /\ of[1] \in {"seasons", "matches"} /\ of[2] \in {"rounds", "finality"}
          /\ of[3] \in {"teams", "stats"}
      BY <1>3 DEF SeasonRounds, MatchPlayerStats
    <2>3. \A i \in 1 .. Len(of) : i = 1 \/ i = 2 \/ i = 3
      BY <2>1
    <2>4. Before(of, Links, {"names"})
      BY <2>2, <2>3 DEF Before, Links
    <2>5. Before(of, {"finality"}, {"stats"})
      BY <2>2, <2>3 DEF Before
    <2> QED BY <2>1, <2>4, <2>5 DEF InOrder
  <1>9. CASE of = Interchanges
    <2>1. Len(of) = 3
      BY <1>9 DEF Interchanges
    <2>2. /\ of[1] = "matches" /\ of[2] = "benches" /\ of[3] = "names"
      BY <1>9 DEF Interchanges
    <2>3. \A i \in 1 .. Len(of) : i = 1 \/ i = 2 \/ i = 3
      BY <2>1
    <2>4. Before(of, Links, {"names"})
      <3>1. \A i \in 1 .. Len(of) : of[i] = "names" => i = 3
        BY <2>2, <2>3
      <3>2. \A i \in 1 .. Len(of) : of[i] \in Links => i \in {1, 2}
        BY <2>1, <2>2, <2>3 DEF Links
      <3> QED BY <3>1, <3>2 DEF Before
    <2>5. Before(of, {"finality"}, {"stats"})
      BY <2>2, <2>3 DEF Before
    <2> QED BY <2>1, <2>4, <2>5 DEF InOrder
  <1>10. CASE of = InterchangeEvents
    <2>1. Len(of) = 3
      BY <1>10 DEF InterchangeEvents
    <2>2. /\ of[1] = "matches" /\ of[2] = "bench events" /\ of[3] = "names"
      BY <1>10 DEF InterchangeEvents
    <2>3. \A i \in 1 .. Len(of) : i = 1 \/ i = 2 \/ i = 3
      BY <2>1
    <2>4. Before(of, Links, {"names"})
      <3>1. \A i \in 1 .. Len(of) : of[i] = "names" => i = 3
        BY <2>2, <2>3
      <3>2. \A i \in 1 .. Len(of) : of[i] \in Links => i \in {1, 2}
        BY <2>1, <2>2, <2>3 DEF Links
      <3> QED BY <3>1, <3>2 DEF Before
    <2>5. Before(of, {"finality"}, {"stats"})
      BY <2>2, <2>3 DEF Before
    <2> QED BY <2>1, <2>4, <2>5 DEF InOrder
  <1>4. CASE of = InjuryList
    <2>1. Len(of) = 3
      BY <1>4 DEF InjuryList
    <2>2. /\ of[1] = "injuries" /\ of[2] = "names" /\ of[3] = "teams"
      BY <1>4 DEF InjuryList
    <2>3. \A i \in 1 .. Len(of) : i = 1 \/ i = 2 \/ i = 3
      BY <2>1
    <2>4. Before(of, Links, {"names"})
      <3>1. \A i \in 1 .. Len(of) : of[i] = "names" => i = 2
        BY <2>2, <2>3
      <3>2. \A i \in 1 .. Len(of) : of[i] \in Links => i \in {1}
        BY <2>1, <2>2, <2>3 DEF Links
      <3> QED BY <3>1, <3>2 DEF Before
    <2>5. Before(of, {"finality"}, {"stats"})
      BY <2>2, <2>3 DEF Before
    <2> QED BY <2>1, <2>4, <2>5 DEF InOrder
  <1>5. CASE of = OnePlayer
    <2>1. Len(of) = 3
      BY <1>5 DEF OnePlayer
    <2>2. /\ of[1] = "players" /\ of[2] = "identifiers" /\ of[3] = "current team"
      BY <1>5 DEF OnePlayer
    <2>3. \A i \in 1 .. Len(of) : i = 1 \/ i = 2 \/ i = 3
      BY <2>1
    <2>4. Before(of, Links, {"names"})
      BY <2>2, <2>3 DEF Before, Links
    <2>5. Before(of, {"finality"}, {"stats"})
      BY <2>2, <2>3 DEF Before
    <2> QED BY <2>1, <2>4, <2>5 DEF InOrder
  <1>6. CASE of = SearchPlayers
    <2>1. Len(of) = 3
      BY <1>6 DEF SearchPlayers
    <2>2. /\ of[1] = "names" /\ of[2] = "current team" /\ of[3] = "identifiers"
      BY <1>6 DEF SearchPlayers
    <2>3. \A i \in 1 .. Len(of) : i = 1 \/ i = 2 \/ i = 3
      BY <2>1
    <2>4. Before(of, Links, {"names"})
      BY <2>2, <2>3 DEF Before, Links
    <2>5. Before(of, {"finality"}, {"stats"})
      BY <2>2, <2>3 DEF Before
    <2> QED BY <2>1, <2>4, <2>5 DEF InOrder
  <1>7. CASE of = MatchCommentary
    <2>1. Len(of) = 4
      BY <1>7 DEF MatchCommentary
    <2>2. /\ of[1] = "matches" /\ of[2] = "commentary" /\ of[3] = "names" /\ of[4] = "teams"
      BY <1>7 DEF MatchCommentary
    <2>3. \A i \in 1 .. Len(of) : i = 1 \/ i = 2 \/ i = 3 \/ i = 4
      BY <2>1
    <2>4. Before(of, Links, {"names"})
      <3>1. \A i \in 1 .. Len(of) : of[i] = "names" => i = 3
        BY <2>2, <2>3
      <3>2. \A i \in 1 .. Len(of) : of[i] \in Links => i \in {1, 2}
        BY <2>1, <2>2, <2>3 DEF Links
      <3> QED BY <3>1, <3>2 DEF Before
    <2>5. Before(of, {"finality"}, {"stats"})
      BY <2>2, <2>3 DEF Before
    <2> QED BY <2>1, <2>4, <2>5 DEF InOrder
  <1>8. CASE of = MatchRosters
    <2>1. Len(of) = 6
      BY <1>8 DEF MatchRosters
    <2>2. /\ of[1] = "matches" /\ of[2] = "roster teams" /\ of[3] = "selections"
          /\ of[4] = "context" /\ of[5] = "names" /\ of[6] = "teams"
      BY <1>8 DEF MatchRosters
    <2>3. \A i \in 1 .. Len(of) : i = 1 \/ i = 2 \/ i = 3 \/ i = 4 \/ i = 5 \/ i = 6
      BY <2>1
    <2>4. Before(of, Links, {"names"})
      <3>1. \A i \in 1 .. Len(of) : of[i] = "names" => i = 5
        BY <2>2, <2>3
      <3>2. \A i \in 1 .. Len(of) : of[i] \in Links => i \in {1, 2, 3, 4}
        BY <2>1, <2>2, <2>3 DEF Links
      <3> QED BY <3>1, <3>2 DEF Before
    <2>5. Before(of, {"finality"}, {"stats"})
      BY <2>2, <2>3 DEF Before
    <2> QED BY <2>1, <2>4, <2>5 DEF InOrder
  <1> QED BY <1>1, <1>2, <1>3, <1>4, <1>5, <1>6, <1>7, <1>8, <1>9, <1>10 DEF Resources

LEMMA ReadsStart == ReadsInit => ReadsInv
  <1> SUFFICES ASSUME ReadsInit PROVE ReadsInv
    OBVIOUS
  <1>1. NoRows \in Rows
    BY DEF NoRows, NoRow, Rows, Authority
  <1>2. tables \in TableRows /\ LinksNamePlayers
    BY <1>1 DEF ReadsInit, TableRows, LinksNamePlayers
  <1>3. query = NoQuery /\ DOMAIN query.seen = {} /\ Len(<<>>) = 0
    BY DEF ReadsInit, NoQuery
  <1>4. QueryTyped
    BY <1>3 DEF NoQuery, QueryTyped
  <1> QED BY <1>2, <1>3, <1>4 DEF ReadsInv, SeenLinks, SeenRows

\* A writer keeps every link within the players, the players it found and their authority.
LEMMA TablesChangeKeeps ==
  ASSUME ReadsInv, UNCHANGED query, tables' \in TableRows, LinksNamePlayers',
         tables.players \subseteq tables'.players,
         Authoritative(tables.rows) \subseteq Authoritative(tables'.rows)
  PROVE  ReadsInv'
  <1>1. QueryTyped'
    BY DEF ReadsInv, QueryTyped
  <1>2. SeenLinks'
    BY DEF ReadsInv, SeenLinks
  <1>3. SeenLinks /\ SeenRows
    BY DEF ReadsInv
  <1>4. SeenRows'
    BY <1>3 DEF SeenRows, Authoritative
  <1> QED BY <1>1, <1>2, <1>4 DEF ReadsInv

LEMMA WritersKeepReads ==
  ASSUME ReadsInv, StoreSeason \/ StorePlayer \/ StoreStats \/ AddLinked \/ ReplaceLinked
  PROVE  ReadsInv'
  <1>1. /\ tables \in TableRows /\ LinksNamePlayers
        /\ tables.players \subseteq Canonical /\ tables.rows \in Rows
        /\ tables.links \in [Links -> SUBSET Canonical]
    BY DEF ReadsInv, TableRows
  <1>2. CASE StoreSeason
    <2>1. PICK marked \in BOOLEAN :
            tables' = [tables EXCEPT !.stored = TRUE, !.current = marked] /\ UNCHANGED query
      BY <1>2 DEF StoreSeason, Write
    <2>2. /\ tables' \in TableRows /\ tables'.players = tables.players /\ tables'.rows = tables.rows
          /\ tables'.links = tables.links
      BY <1>1, <2>1 DEF TableRows
    <2>3. LinksNamePlayers'
      BY <1>1, <2>2 DEF LinksNamePlayers
    <2> QED BY <2>1, <2>2, <2>3, TablesChangeKeeps
  <1>3. CASE StorePlayer
    <2>1. PICK p \in Canonical :
            /\ tables' = [tables EXCEPT !.players = @ \cup {p}, !.links["memberships"] = @ \cup {p}]
            /\ UNCHANGED query
      BY <1>3 DEF StorePlayer, Write
    <2>2. /\ tables' \in TableRows /\ tables'.players = tables.players \cup {p}
          /\ tables'.rows = tables.rows
          /\ tables'.links = [tables.links EXCEPT !["memberships"] = @ \cup {p}]
      BY <1>1, <2>1 DEF TableRows
    <2>3. LinksNamePlayers'
      BY <1>1, <2>2 DEF LinksNamePlayers
    <2> QED BY <2>1, <2>2, <2>3, TablesChangeKeeps
  <1>4. CASE StoreStats
    <2>1. PICK kind \in {"concluded", "live_partial"}, told \in SUBSET Player :
            /\ tables' = [tables EXCEPT !.rows = Upserted(@, [kind |-> kind, players |-> told])]
            /\ UNCHANGED query
      BY <1>4 DEF StoreStats, Write
    <2>2. [kind |-> kind, players |-> told] \in Results
      BY DEF Results, ResultKind
    <2>3. PICK rows \in Rows : /\ rows = Upserted(tables.rows, [kind |-> kind, players |-> told])
                               /\ Authoritative(tables.rows) \subseteq Authoritative(rows)
      BY <1>1, <2>2, UpsertKeepsAuthority
    <2>4. tables' = [tables EXCEPT !.rows = rows]
      BY <2>1, <2>3
    <2>5. /\ tables' \in TableRows /\ tables'.players = tables.players /\ tables'.rows = rows
          /\ tables'.links = tables.links
      BY <1>1, <2>4 DEF TableRows
    <2>6. LinksNamePlayers'
      BY <1>1, <2>5 DEF LinksNamePlayers
    <2> QED BY <2>1, <2>3, <2>5, <2>6, TablesChangeKeeps
  <1>5. ASSUME NEW links \in [Links -> SUBSET Canonical], UNCHANGED query,
               tables' = [tables EXCEPT !.links = links],
               \A t \in Links : links[t] \subseteq tables.players
        PROVE  ReadsInv'
    <2>1. /\ tables' \in TableRows /\ tables'.players = tables.players /\ tables'.rows = tables.rows
          /\ tables'.links = links
      BY <1>1, <1>5 DEF TableRows
    <2>2. LinksNamePlayers'
      BY <1>5, <2>1 DEF LinksNamePlayers
    <2> QED BY <1>5, <2>1, <2>2, TablesChangeKeeps
  <1>6. CASE AddLinked
    <2>1. PICK t \in {"commentary", "benches", "bench events", "movements"}, p \in tables.players :
            tables' = [tables EXCEPT !.links[t] = @ \cup {p}] /\ UNCHANGED query
      BY <1>6 DEF AddLinked, Write
    <2>2. PICK links : links = [tables.links EXCEPT ![t] = @ \cup {p}]
      OBVIOUS
    <2>3. links \in [Links -> SUBSET Canonical] /\ tables' = [tables EXCEPT !.links = links]
      BY <1>1, <2>1, <2>2 DEF TableRows, Links
    <2>4. \A u \in Links : links[u] \subseteq tables.players
      BY <1>1, <2>2 DEF LinksNamePlayers
    <2> QED BY <1>5, <2>1, <2>3, <2>4
  <1>7. CASE ReplaceLinked
    <2>1. PICK links : /\ links \in [Links -> SUBSET Canonical] /\ UNCHANGED query
                       /\ tables' = [tables EXCEPT !.links = links]
                       /\ \A t \in Links : links[t] \subseteq tables.players
      <3>1. ASSUME NEW chosen \in SUBSET tables.players, NEW context \in SUBSET tables.players,
                   Write([tables EXCEPT !.links["roster teams"] = {},
                                        !.links["selections"] = chosen,
                                        !.links["context"] = context])
            PROVE  \E links \in [Links -> SUBSET Canonical] :
                     /\ UNCHANGED query /\ tables' = [tables EXCEPT !.links = links]
                     /\ \A t \in Links : links[t] \subseteq tables.players
        <4>1. PICK links : links = [tables.links EXCEPT !["roster teams"] = {},
                                                        !["selections"] = chosen,
                                                        !["context"] = context]
          OBVIOUS
        <4>2. links \in [Links -> SUBSET Canonical]
          BY <1>1, <4>1 DEF Links
        <4>3. tables' = [tables EXCEPT !.links = links] /\ UNCHANGED query
          BY <1>1, <3>1, <4>1 DEF Write, TableRows
        <4>4. \A t \in Links : links[t] \subseteq tables.players
          BY <1>1, <4>1 DEF LinksNamePlayers
        <4> QED BY <4>2, <4>3, <4>4
      <3>2. ASSUME NEW t \in {"injuries", "summaries"}, NEW named \in SUBSET tables.players,
                   Write([tables EXCEPT !.links[t] = named])
            PROVE  \E links \in [Links -> SUBSET Canonical] :
                     /\ UNCHANGED query /\ tables' = [tables EXCEPT !.links = links]
                     /\ \A u \in Links : links[u] \subseteq tables.players
        <4>1. PICK links : links = [tables.links EXCEPT ![t] = named]
          OBVIOUS
        <4>2. links \in [Links -> SUBSET Canonical]
          BY <1>1, <4>1 DEF Links
        <4>3. tables' = [tables EXCEPT !.links = links] /\ UNCHANGED query
          BY <1>1, <3>2, <4>1 DEF Write, TableRows
        <4>4. \A u \in Links : links[u] \subseteq tables.players
          BY <1>1, <4>1 DEF LinksNamePlayers
        <4> QED BY <4>2, <4>3, <4>4
      <3> QED BY <1>7, <3>1, <3>2 DEF ReplaceLinked
    <2> QED BY <1>5, <2>1
  <1> QED BY <1>2, <1>3, <1>4, <1>6, <1>7

LEMMA AskKeeps ==
  ASSUME ReadsInv, Ask
  PROVE  ReadsInv'
  <1>1. PICK of \in Resources, subject \in Canonical, sides \in {{"home", "away"}, {"home"}},
             status \in {"unauthorized", "forbidden", "reading"} :
          query' = [of |-> of, subject |-> subject, sides |-> sides, done |-> 0, seen |-> <<>>,
                    status |-> status]
    BY DEF Ask
  <1>2. Len(of) \in Nat /\ Len(of) > 0 /\ UNCHANGED tables /\ DOMAIN query'.seen = {}
    BY <1>1, ResourceOrder DEF Ask, InOrder
  <1>3. QueryTyped'
    BY <1>1, <1>2 DEF QueryTyped
  <1>4. SeenLinks' /\ SeenRows'
    BY <1>2 DEF SeenLinks, SeenRows
  <1>5. tables' \in TableRows /\ LinksNamePlayers'
    BY <1>2 DEF ReadsInv, LinksNamePlayers
  <1> QED BY <1>3, <1>4, <1>5 DEF ReadsInv

\* A SELECT that finds what it asks for.
LEMMA SelectKeeps ==
  ASSUME ReadsInv, Select
  PROVE  ReadsInv'
  <1>1. /\ tables \in TableRows /\ LinksNamePlayers /\ QueryTyped /\ SeenLinks /\ SeenRows
        /\ tables' = tables /\ query.status = "reading"
    BY DEF ReadsInv, Select
  <1>2. tables' \in TableRows /\ LinksNamePlayers'
    BY <1>1 DEF LinksNamePlayers
  <1>3. CASE query' = [query EXCEPT !.status = "not found"]
    <2>1. /\ query'.of = query.of /\ query'.sides = query.sides /\ query'.done = query.done
          /\ query'.seen = query.seen /\ query'.status = "not found" /\ DOMAIN query' = DOMAIN query
      BY <1>1, <1>3 DEF QueryTyped
    <2>2. QueryTyped'
      <3>1. query'.status # "reading" /\ query'.status # "answered"
        BY <2>1
      <3>2. /\ DOMAIN query' = {"of", "subject", "sides", "status", "done", "seen"}
            /\ query'.of \in Resources \cup {<<>>} /\ query'.sides \subseteq {"home", "away"}
        BY <1>1, <2>1, Zenon DEF QueryTyped
      <3>3. query.done \in 0 .. Len(query.of) => query'.done \in 0 .. Len(query'.of)
        BY <2>1, Zenon
      <3>4. DOMAIN query.seen = {query.of[i] : i \in 1 .. query.done}
              => DOMAIN query'.seen = {query'.of[i] : i \in 1 .. query'.done}
        BY <2>1, Zenon
      <3>5. /\ query.done \in 0 .. Len(query.of)
            /\ DOMAIN query.seen = {query.of[i] : i \in 1 .. query.done}
        BY <1>1 DEF QueryTyped
      <3>6. /\ query'.done \in 0 .. Len(query'.of)
            /\ DOMAIN query'.seen = {query'.of[i] : i \in 1 .. query'.done}
        BY <3>3, <3>4, <3>5, Zenon
      <3> QED BY <3>1, <3>2, <3>6 DEF QueryTyped
    <2>3. SeenLinks' /\ SeenRows'
      BY <1>1, <2>1 DEF SeenLinks, SeenRows
    <2> QED BY <1>2, <2>2, <2>3 DEF ReadsInv
  <1>4. CASE query' # [query EXCEPT !.status = "not found"]
    <2>1. PICK at, table, status :
            /\ at = query.done + 1 /\ table = query.of[at]
            /\ status \in {"answered", "reading"} /\ (status = "answered" <=> at = Len(query.of))
            /\ query' = [query EXCEPT !.done = at, !.seen = SeenWith(table), !.status = status]
      BY <1>4 DEF Select
    <2>2. /\ query.of \in Resources /\ at \in 1 .. Len(query.of) /\ Len(query.of) \in Nat
          /\ query.done = at - 1 /\ query.done \in Nat
      BY <1>1, <2>1, ResourceOrder DEF QueryTyped, InOrder
    <2>3. /\ query'.of = query.of /\ query'.sides = query.sides /\ query'.done = at
          /\ query'.seen = SeenWith(table) /\ query'.status = status /\ DOMAIN query' = DOMAIN query
      BY <1>1, <2>1 DEF QueryTyped
    <2>4. /\ DOMAIN query'.seen = DOMAIN query.seen \cup {table}
          /\ query'.seen[table] = Content(table)
          /\ \A t \in DOMAIN query.seen : t # table => query'.seen[t] = query.seen[t]
      BY <2>3 DEF SeenWith
    <2>5. 1 .. at = (1 .. query.done) \cup {at}
      BY <2>2
    <2>6. DOMAIN query'.seen = {query.of[i] : i \in 1 .. at}
      <3>1. DOMAIN query.seen = {query.of[i] : i \in 1 .. query.done}
        BY <1>1 DEF QueryTyped
      <3>2. {query.of[i] : i \in (1 .. query.done) \cup {at}}
              = {query.of[i] : i \in 1 .. query.done} \cup {query.of[at]}
        OBVIOUS
      <3> QED BY <2>1, <2>4, <2>5, <3>1, <3>2
    <2>7. QueryTyped'
      BY <1>1, <2>1, <2>2, <2>3, <2>6 DEF QueryTyped
    <2>8. /\ \A i \in 1 .. at : table \in Links /\ query.of[i] = "names" => at < i
          /\ \A i \in 1 .. at : table = "finality" /\ query.of[i] = "stats" => at < i
      <3>1. 1 .. at \subseteq 1 .. Len(query.of)
        BY <2>2
      <3>2. Before(query.of, Links, {"names"}) /\ Before(query.of, {"finality"}, {"stats"})
        BY <2>2, ResourceOrder DEF InOrder
      <3> QED BY <2>1, <2>2, <3>1, <3>2 DEF Before
    <2>9. \A t \in DOMAIN query'.seen : \E i \in 1 .. at : query.of[i] = t
      BY <2>6
    <2>10. SeenLinks'
      <3>1. /\ table \in Links => Content(table) = tables.links[table]
            /\ table = "names" => Content(table) = tables.players
        BY DEF Content, Links, Hierarchy
      <3>2. \A t \in DOMAIN query'.seen \cap Links : query'.seen[t] \subseteq tables'.players
        BY <1>1, <2>4, <3>1 DEF SeenLinks, LinksNamePlayers
      <3>3. table \in Links => "names" \notin DOMAIN query'.seen
        <4> SUFFICES ASSUME table \in Links, "names" \in DOMAIN query'.seen PROVE FALSE
          OBVIOUS
        <4>1. PICK i \in 1 .. at : query.of[i] = "names"
          BY <2>9
        <4> QED BY <2>2, <2>8, <4>1
      <3>4. "names" \notin Links
        BY DEF Links
      <3>5. ASSUME "names" \in DOMAIN query'.seen, NEW t \in DOMAIN query'.seen \cap Links
            PROVE  query'.seen[t] \subseteq query'.seen["names"]
        <4>1. table \notin Links /\ t \in DOMAIN query.seen
          BY <2>4, <3>3, <3>5
        <4>2. CASE table = "names"
          BY <1>1, <2>4, <3>1, <4>1, <4>2, <3>5 DEF SeenLinks
        <4>3. CASE table # "names"
          BY <1>1, <2>4, <4>1, <4>3, <3>5 DEF SeenLinks
        <4> QED BY <4>2, <4>3
      <3> QED BY <3>2, <3>5 DEF SeenLinks
    <2>11. SeenRows'
      <3>1. /\ tables.rows \in Rows
            /\ table \in {"finality", "stats"} => Content(table) = tables.rows
        BY <1>1 DEF Content, Hierarchy, TableRows
      <3>2. "stats" \in DOMAIN query.seen => table # "finality"
        <4> SUFFICES ASSUME "stats" \in DOMAIN query.seen, table = "finality" PROVE FALSE
          OBVIOUS
        <4>1. PICK i \in 1 .. query.done : query.of[i] = "stats"
          BY <1>1 DEF QueryTyped
        <4> QED BY <2>2, <2>8, <4>1
      <3>3. "finality" \in DOMAIN query'.seen
              => /\ query'.seen["finality"] \in Rows
                 /\ Authoritative(query'.seen["finality"]) \subseteq Authoritative(tables.rows)
        BY <1>1, <2>4, <3>1 DEF SeenRows
      <3>4. ASSUME {"finality", "stats"} \subseteq DOMAIN query'.seen
            PROVE  /\ query'.seen["stats"] \in Rows
                   /\ Authoritative(query'.seen["finality"])
                        \subseteq Authoritative(query'.seen["stats"])
        <4>1. CASE table = "stats"
          BY <2>4, <3>1, <3>3, <3>4, <4>1
        <4>2. CASE table = "finality"
          BY <2>4, <3>2, <3>4, <4>2
        <4>3. CASE table \notin {"finality", "stats"}
          BY <1>1, <2>4, <3>4, <4>3 DEF SeenRows
        <4> QED BY <4>1, <4>2, <4>3
      <3>5. Authoritative(tables.rows)' = Authoritative(tables.rows)
        BY <1>1 DEF Authoritative
      <3> QED BY <3>3, <3>4, <3>5 DEF SeenRows, Authoritative
    <2> QED BY <1>2, <2>7, <2>10, <2>11 DEF ReadsInv
  <1> QED BY <1>3, <1>4

LEMMA ReadsSteps == ReadsInv /\ [ReadsNext]_readVars => ReadsInv'
  <1>1. ASSUME ReadsInv, UNCHANGED readVars PROVE ReadsInv'
    <2>1. tables' = tables /\ query' = query
      BY <1>1 DEF readVars
    <2>2. LinksNamePlayers' /\ QueryTyped' /\ SeenLinks'
      BY <1>1, <2>1 DEF ReadsInv, LinksNamePlayers, QueryTyped, SeenLinks
    <2>3. SeenRows'
      BY <1>1, <2>1 DEF ReadsInv, SeenRows, Authoritative
    <2> QED BY <1>1, <2>1, <2>2, <2>3 DEF ReadsInv
  <1> QED BY <1>1, WritersKeepReads, AskKeeps, SelectKeeps DEF ReadsNext

\* The sides a final match is listed for have an authoritative row each.
LEMMA AnsweredHoldsTogether == ReadsInv => AnswersHoldTogether
  <1> SUFFICES ASSUME ReadsInv, query.status = "answered" PROVE AnswersHoldTogether
    BY DEF AnswersHoldTogether
  <1>1. QueryTyped /\ SeenLinks /\ SeenRows
    BY DEF ReadsInv
  <1>2. ASSUME query.of = MatchPlayerStats, FinalityStatus(query.seen["finality"]) = "final",
               NEW side \in query.sides
        PROVE  \E p \in Listed \cap Authoritative(query.seen["stats"]) :
                 (p \in Home) = (side = "home")
    <2>1. query.of \in Resources
      BY <1>2 DEF Resources
    <2>2. Len(query.of) = 3 /\ query.of[2] = "finality" /\ query.of[3] = "stats"
      BY <1>2 DEF MatchPlayerStats
    <2>3. {"finality", "stats"} \subseteq DOMAIN query.seen
      BY <1>1, <2>2 DEF QueryTyped
    <2> DEFINE final == Authoritative(query.seen["finality"])
               shown == Authoritative(query.seen["stats"])
    <2>4. final \subseteq shown
      BY <1>1, <2>3 DEF SeenRows
    <2>5. /\ final \subseteq Player /\ final # {} /\ ~(final \subseteq Home) /\ final \cap Home # {}
      BY <1>2 DEF FinalityStatus, Authoritative
    <2>6. shown \subseteq Stored(query.seen["stats"])
      BY DEF Authoritative, Stored, NoRow
    <2>7. side \in {"home", "away"}
      BY <1>1 DEF QueryTyped
    <2> HIDE DEF final, shown
    <2>8. PICK p \in final : (p \in Home) = (side = "home")
      BY <2>5, <2>7
    <2>9. p \in Listed
      BY <2>4, <2>6, <2>7, <2>8 DEF Listed
    <2> QED BY <2>4, <2>8, <2>9 DEF shown
  <1> QED BY <1>1, <1>2 DEF AnswersHoldTogether, SeenLinks

\* For any players and responses of the writers: an answer pieced together from several
\* states of the database still holds together, its finality with its rows and its links
\* with its names (get_match_player_stats and the other handlers of routes_v1).
THEOREM AnswersHold == ReadsSpec => []AnswersHoldTogether
  <1> QED BY ReadsStart, ReadsSteps, AnsweredHoldsTogether, PTL DEF ReadsSpec

----------------------------------------------------------------------------
(* The collection of a listing by pages.  While records only join, what    *)
(* lies before the page to be asked for has been taken; while they only    *)
(* leave, the listing stays within the one whose total was read.           *)
WalkRows == [by : Metadata, page : Nat, got : SUBSET Listable, total : Int, noted : BOOLEAN,
             status : {"idle", "walking", "failed", "unavailable", "empty", "partial", "published"}]

WalkTyped ==
  /\ walk \in WalkRows /\ listing \subseteq Listable /\ throughout \subseteq listing
  /\ joined \in Nat /\ left \in Nat
  /\ walk.status = "idle" => walk.got = {}

TakenSoFar(got, before) ==
  /\ got \subseteq listing
  /\ \A r \in throughout : Place(r) < before => r \in got

TakenFrom(got, total) ==
  \E full \in SUBSET Listable :
    /\ Cardinality(full) = total
    /\ got \subseteq full /\ listing \subseteq full

WalkInv ==
  /\ WalkTyped
  /\ walk.status = "walking" /\ walk.by # "season"
       => walk.page >= 1 /\ (left = 0 => TakenSoFar(walk.got, (walk.page - 1) * PageSize))
  /\ walk.status = "walking" /\ walk.by = "season" /\ walk.page > 0 /\ joined = 0
       => TakenFrom(walk.got, walk.total)
  /\ NothingSkipped

LEMMA PartsOfListable == 
  ASSUME NEW S \in SUBSET Listable
  PROVE  IsFiniteSet(S) /\ Cardinality(S) \in Nat
  BY WalkAssumption, FS_Subset, FS_CardinalityType

\* A record's place is below the size of the listing, and no record that joins lowers it.
LEMMA PlaceIsBelow ==
  ASSUME listing \subseteq Listable, NEW r \in listing
  PROVE  Place(r) \in Nat /\ Place(r) < Cardinality(listing)
  <1>1. {o \in listing : o < r} \in SUBSET Listable /\ listing \in SUBSET Listable
    OBVIOUS
  <1>2. r \in Nat /\ ~(r < r)
    BY WalkAssumption
  <1>3. {o \in listing : o < r} \subseteq listing /\ {o \in listing : o < r} # listing
    BY <1>2
  <1>4. /\ IsFiniteSet(listing) /\ Cardinality(listing) \in Nat
        /\ Cardinality({o \in listing : o < r}) \in Nat
    BY <1>1, PartsOfListable
  <1>5. /\ Cardinality({o \in listing : o < r}) <= Cardinality(listing)
        /\ Cardinality({o \in listing : o < r}) # Cardinality(listing)
    BY <1>3, <1>4, FS_Subset
  <1> QED BY <1>4, <1>5 DEF Place

LEMMA PlaceGrows ==
  ASSUME listing \subseteq Listable, listing' \subseteq Listable, listing \subseteq listing', NEW r
  PROVE  Place(r) \in Nat /\ Place(r)' \in Nat /\ Place(r) <= Place(r)'
  <1>1. /\ {o \in listing : o < r} \in SUBSET Listable
        /\ {o \in listing' : o < r} \in SUBSET Listable
        /\ {o \in listing : o < r} \subseteq {o \in listing' : o < r}
    OBVIOUS
  <1>2. /\ IsFiniteSet({o \in listing' : o < r})
        /\ Cardinality({o \in listing : o < r}) \in Nat
        /\ Cardinality({o \in listing' : o < r}) \in Nat
    BY <1>1, PartsOfListable
  <1>3. Cardinality({o \in listing : o < r}) <= Cardinality({o \in listing' : o < r})
    BY <1>1, <1>2, FS_Subset
  <1> QED BY <1>2, <1>3 DEF Place

LEMMA WalkStarts == WalkInit => WalkInv
  <1> SUFFICES ASSUME WalkInit PROVE WalkInv
    OBVIOUS
  <1>1. walk = [by |-> "none", page |-> 0, got |-> {}, total |-> Unknown, noted |-> FALSE,
                status |-> "idle"]
    BY DEF WalkInit
  <1>2. walk \in WalkRows /\ walk.status = "idle" /\ walk.got = {}
    BY <1>1 DEF WalkRows, Metadata, Unknown
  <1>3. WalkTyped
    BY <1>2 DEF WalkInit, WalkTyped
  <1> QED BY <1>2, <1>3 DEF WalkInv, NothingSkipped

LEMMA StartWalkKeeps ==
  ASSUME WalkInv, StartWalk
  PROVE  WalkInv'
  <1>1. PICK by \in Metadata :
          walk' = [walk EXCEPT !.by = by, !.status = "walking",
                               !.page = IF by = "season" THEN 0 ELSE 1]
    BY DEF StartWalk
  <1>2. /\ walk \in WalkRows /\ listing \subseteq Listable /\ walk.got = {}
        /\ listing' = listing /\ throughout' = listing /\ joined' = joined /\ left' = left
        /\ joined \in Nat /\ left \in Nat
    BY DEF StartWalk, WalkInv, WalkTyped
  <1>3. /\ walk' \in WalkRows /\ walk'.by = by /\ walk'.status = "walking" /\ walk'.got = {}
        /\ walk'.page = (IF by = "season" THEN 0 ELSE 1)
    BY <1>1, <1>2 DEF WalkRows
  <1>4. (1 - 1) * PageSize = 0
    BY WalkAssumption
  <1>5. \A r \in listing' : Place(r)' \in Nat
    BY <1>2, PlaceGrows
  <1>6. by # "season" => TakenSoFar(walk.got, (walk.page - 1) * PageSize)'
    BY <1>2, <1>3, <1>4, <1>5 DEF TakenSoFar
  <1>7. WalkTyped'
    BY <1>2, <1>3 DEF WalkTyped
  <1> QED BY <1>3, <1>6, <1>7 DEF WalkInv, NothingSkipped

LEMMA ListingChangesKeeps ==
  ASSUME WalkInv, ListingChanges
  PROVE  WalkInv'
  <1>1. PICK r \in Listable :
          /\ listing' = IF r \in listing THEN listing \ {r} ELSE listing \cup {r}
          /\ throughout' = throughout \ {r}
          /\ joined' = IF r \in listing THEN joined ELSE joined + 1
          /\ left' = IF r \in listing THEN left + 1 ELSE left
    BY DEF ListingChanges
  <1>2. /\ walk' = walk /\ walk.status = "walking" /\ walk \in WalkRows
        /\ listing \subseteq Listable /\ throughout \subseteq listing /\ joined \in Nat /\ left \in Nat
    BY DEF ListingChanges, WalkInv, WalkTyped
  <1>3. WalkTyped'
    BY <1>1, <1>2 DEF WalkTyped
  <1>4. ASSUME walk.by # "season", left' = 0
        PROVE  TakenSoFar(walk.got, (walk.page - 1) * PageSize)'
    <2>1. left = 0 /\ listing' = listing \cup {r} /\ listing \subseteq listing'
      BY <1>1, <1>2, <1>4
    <2>2. TakenSoFar(walk.got, (walk.page - 1) * PageSize)
      BY <1>2, <1>4, <2>1 DEF WalkInv
    <2>3. \A o \in throughout' : Place(o) \in Nat /\ Place(o)' \in Nat /\ Place(o) <= Place(o)'
      BY <1>2, <1>3, <2>1, PlaceGrows DEF WalkTyped
    <2>4. (walk.page - 1) * PageSize \in Int
      BY <1>2, WalkAssumption DEF WalkRows
    <2>5. throughout' \subseteq throughout
      BY <1>1
    <2> QED BY <1>2, <2>1, <2>2, <2>3, <2>4, <2>5 DEF TakenSoFar
  <1>5. ASSUME walk.by = "season", walk.page > 0, joined' = 0
        PROVE  TakenFrom(walk.got, walk.total)'
    <2>1. joined = 0 /\ listing' \subseteq listing
      BY <1>1, <1>2, <1>5
    <2>2. TakenFrom(walk.got, walk.total)
      BY <1>2, <1>5, <2>1 DEF WalkInv
    <2> QED BY <1>2, <2>1, <2>2 DEF TakenFrom
  <1>6. walk.by # "season" => walk.page >= 1
    BY <1>2 DEF WalkInv
  <1> QED BY <1>2, <1>3, <1>4, <1>5, <1>6 DEF WalkInv, NothingSkipped

\* A collection that ends otherwise than published promises nothing.
LEMMA EndedWalkKeeps ==
  ASSUME WalkInv, UNCHANGED <<listing, throughout, joined, left>>, walk' \in WalkRows,
         walk'.status \notin {"idle", "walking", "published"}
  PROVE  WalkInv'
  <1>1. WalkTyped'
    BY DEF WalkInv, WalkTyped
  <1> QED BY <1>1 DEF WalkInv, NothingSkipped

LEMMA PagesReachAll ==
  ASSUME listing \subseteq Listable, NEW page \in Nat, page >= PageCount
  PROVE  Cardinality(listing) <= page * PageSize
  <1> DEFINE n == Cardinality(listing)
  <1>1. n \in Nat
    BY PartsOfListable
  <1>2. PageSize \in Nat /\ PageSize > 0
    BY WalkAssumption
  <1> HIDE DEF n
  <1>3. PICK q \in Int : /\ q = (n + PageSize - 1) \div PageSize
                        /\ n + PageSize - 1 < PageSize * q + PageSize
    <2>1. n + PageSize - 1 \in Nat
      BY <1>1, <1>2
    <2>2. \A a, b \in Nat : b > 0 => a \div b \in Int /\ a < b * (a \div b) + b
      OBVIOUS
    <2> QED BY <1>2, <2>1, <2>2
  <1>4. n <= q * PageSize
    <2>1. q * PageSize \in Int /\ PageSize * q = q * PageSize
      BY <1>2, <1>3
    <2> QED BY <1>1, <1>2, <1>3, <2>1
  <1>5. q <= page
    BY <1>3 DEF PageCount, n
  <1>6. q * PageSize <= page * PageSize /\ q * PageSize \in Int /\ page * PageSize \in Int
    BY <1>2, <1>3, <1>5
  <1> QED BY <1>1, <1>4, <1>6 DEF n

LEMMA TakePageKeeps ==
  ASSUME WalkInv, TakePage
  PROVE  WalkInv'
  <1>1. /\ walk \in WalkRows /\ listing \subseteq Listable /\ throughout \subseteq listing
        /\ walk.status = "walking" /\ walk.by # "season" /\ walk.by \in Metadata
        /\ walk.page \in Nat /\ walk.page >= 1 /\ left \in Nat /\ joined \in Nat
        /\ left = 0 => TakenSoFar(walk.got, (walk.page - 1) * PageSize)
        /\ listing' = listing /\ throughout' = throughout /\ joined' = joined /\ left' = left
    BY DEF TakePage, WalkInv, WalkTyped, WalkRows
  <1>0. PICK answer, got, next :
          /\ answer = (IF walk.by = "none" THEN listing ELSE Page(walk.page, PageSize))
          /\ got = walk.got \cup answer /\ next = NextPage(got)
          /\ \/ Failed
             \/ next = 0 /\ FinishWalk("published", got)
             \/ next # 0 /\ walk' = [walk EXCEPT !.page = next, !.got = got]
    BY DEF TakePage
  <1>2. answer \subseteq listing /\ got \subseteq Listable
    BY <1>0, <1>1 DEF Page, WalkRows
  <1>3. /\ next = 0 \/ (next = walk.page + 1 /\ walk.by # "none")
        /\ next = 0 /\ walk.by \in {"next page", "pages"} => ~(walk.page < PageCount)
        /\ next = 0 /\ walk.by = "results" => ~(Cardinality(got) < Cardinality(listing))
    <2>0. next = NextPage(got) /\ walk.page \in Nat
      BY <1>0, <1>1
    <2>1. CASE walk.by \in {"next page", "pages"}
      <3>1. next = IF walk.page < PageCount THEN walk.page + 1 ELSE 0
        BY <2>0, <2>1 DEF NextPage, LastPage
      <3>2. walk.page + 1 # 0
        BY <2>0
      <3> QED BY <2>1, <3>1, <3>2, Zenon
    <2>2. CASE walk.by = "results"
      <3>1. next = IF Cardinality(got) < Cardinality(listing) THEN walk.page + 1 ELSE 0
        BY <2>0, <2>2 DEF NextPage
      <3> QED BY <2>0, <2>2, <3>1
    <2>3. CASE walk.by = "none"
      BY <2>0, <2>3 DEF NextPage
    <2> QED BY <1>1, <2>1, <2>2, <2>3 DEF Metadata
  <1>4. (walk.page - 1) * PageSize \in Int /\ walk.page * PageSize \in Int
        /\ (walk.page + 1 - 1) * PageSize = walk.page * PageSize
    BY <1>1, WalkAssumption
  <1>5. left = 0 => got \subseteq listing
    BY <1>0, <1>1, <1>2 DEF TakenSoFar
  <1>6. ASSUME left = 0, walk.by # "none"
        PROVE  \A r \in throughout : Place(r) < walk.page * PageSize => r \in got
    <2> SUFFICES ASSUME NEW r \in throughout, Place(r) < walk.page * PageSize, r \notin walk.got
                 PROVE  r \in answer
      BY <1>0
    <2>1. Place(r) \in Nat /\ r \in listing
      BY <1>1, PlaceIsBelow
    <2>2. ~(Place(r) < (walk.page - 1) * PageSize)
      BY <1>1, <1>6 DEF TakenSoFar
    <2>3. Place(r) \in (walk.page - 1) * PageSize .. walk.page * PageSize - 1
      BY <1>4, <2>1, <2>2
    <2> QED BY <1>0, <1>6, <2>1, <2>3 DEF Page
  <1>7. ASSUME left = 0, next = 0 PROVE throughout \subseteq got
    <2>1. CASE walk.by = "none"
      BY <1>0, <1>1, <2>1
    <2>2. CASE walk.by \in {"next page", "pages"}
      <3>1. walk.page >= PageCount
        <4>1. PageCount \in Int
          BY <1>1, PartsOfListable, WalkAssumption DEF PageCount
        <4>2. walk.page \in Nat /\ ~(walk.page < PageCount)
          BY <1>1, <1>3, <1>7, <2>2
        <4> QED BY <4>1, <4>2
      <3>2. Cardinality(listing) <= walk.page * PageSize
        BY <1>1, <3>1, PagesReachAll
      <3>3. \A r \in throughout : Place(r) \in Nat /\ Place(r) < Cardinality(listing)
        BY <1>1, PlaceIsBelow
      <3>4. Cardinality(listing) \in Nat
        BY <1>1, PartsOfListable
      <3>5. \A r \in throughout : Place(r) < walk.page * PageSize
        BY <1>4, <3>2, <3>3, <3>4
      <3> QED BY <1>6, <1>7, <2>2, <3>5
    <2>3. CASE walk.by = "results"
      <3>1. got \subseteq listing /\ IsFiniteSet(listing) /\ IsFiniteSet(got)
            /\ Cardinality(listing) \in Nat /\ Cardinality(got) \in Nat
        BY <1>1, <1>2, <1>5, <1>7, PartsOfListable
      <3>2. Cardinality(got) = Cardinality(listing)
        <4>1. Cardinality(got) <= Cardinality(listing)
          BY <3>1, FS_Subset
        <4>2. ~(Cardinality(got) < Cardinality(listing))
          BY <1>3, <1>7, <2>3
        <4> QED BY <3>1, <4>1, <4>2
      <3>3. got = listing
        BY <3>1, <3>2, FS_Subset
      <3> QED BY <1>1, <3>3
    <2> QED BY <1>1, <2>1, <2>2, <2>3 DEF Metadata
  <1>9. CASE Failed
    <2>1. walk' \in WalkRows /\ walk'.status = "failed"
      BY <1>1, <1>9 DEF Failed, WalkRows
    <2> QED BY <1>1, <2>1, EndedWalkKeeps
  <1>10. CASE next = 0 /\ FinishWalk("published", got)
    <2>1. /\ walk' \in WalkRows /\ walk'.status = "published" /\ walk'.got = got /\ walk'.by = walk.by
      BY <1>1, <1>2, <1>10 DEF FinishWalk, WalkRows
    <2>2. NothingSkipped'
      BY <1>1, <1>7, <1>10, <2>1 DEF NothingSkipped
    <2>3. WalkTyped'
      BY <1>1, <2>1 DEF WalkTyped
    <2> QED BY <2>1, <2>2, <2>3 DEF WalkInv
  <1>11. CASE next # 0 /\ walk' = [walk EXCEPT !.page = next, !.got = got]
    <2>1. next = walk.page + 1 /\ walk.by # "none"
      BY <1>3, <1>11
    <2>6. next \in Nat /\ next >= 1
      BY <1>1, <2>1
    <2>2. /\ walk' \in WalkRows /\ walk'.status = "walking" /\ walk'.got = got /\ walk'.by = walk.by
          /\ walk'.page = next
      BY <1>1, <1>2, <1>11, <2>6 DEF WalkRows
    <2>3. WalkTyped'
      BY <1>1, <2>2 DEF WalkTyped
    <2>4. \A r : Place(r)' = Place(r)
      BY <1>1 DEF Place
    <2>5. left = 0 => TakenSoFar(walk.got, (walk.page - 1) * PageSize)'
      BY <1>1, <1>4, <1>5, <1>6, <2>1, <2>2, <2>4 DEF TakenSoFar
    <2> QED BY <1>1, <2>2, <2>3, <2>5, <2>6 DEF WalkInv, NothingSkipped
  <1> QED BY <1>0, <1>9, <1>10, <1>11

LEMMA RequestFailsKeeps ==
  ASSUME WalkInv, RequestFails
  PROVE  WalkInv'
  <1>1. walk \in WalkRows /\ UNCHANGED <<listing, throughout, joined, left>>
    BY DEF RequestFails, WalkInv, WalkTyped
  <1>2. walk' \in WalkRows /\ walk'.status \in {"failed", "unavailable"}
    BY <1>1 DEF RequestFails, Failed, FinishWalk, WalkRows
  <1> QED BY <1>1, <1>2, EndedWalkKeeps

LEMMA ProbeKeeps ==
  ASSUME WalkInv, Probe
  PROVE  WalkInv'
  <1>1. /\ walk \in WalkRows /\ listing \subseteq Listable /\ throughout \subseteq listing
        /\ walk.status = "walking" /\ walk.by = "season" /\ left \in Nat /\ joined \in Nat
        /\ listing' = listing /\ throughout' = throughout /\ joined' = joined /\ left' = left
    BY DEF Probe, WalkInv, WalkTyped
  <1>2. PICK got, noted, left0 :
          /\ got \subseteq listing /\ noted \in BOOLEAN /\ left0 \in {{}, got}
          /\ \/ FinishWalk(IF got = {} THEN "empty" ELSE "partial", got)
             \/ walk' = [walk EXCEPT !.total = Cardinality(listing), !.noted = noted,
                                     !.page = 1, !.got = left0]
    <2>1. PICK unread \in {{}} \cup {{r} : r \in Page(1, ProbeSize)}, told \in BOOLEAN :
            LET got == Page(1, ProbeSize) \ unread
                noted == unread # {} \/ ~told
            IN IF ~told
               THEN FinishWalk(IF got = {} THEN "empty" ELSE "partial", got)
               ELSE walk' = [walk EXCEPT
                      !.total = Cardinality(listing), !.noted = noted,
                      !.page = 1,
                      !.got = IF Cardinality(got) < Cardinality(listing) THEN {} ELSE got]
      BY DEF Probe
    <2>2. Page(1, ProbeSize) \ unread \subseteq listing
      BY DEF Page
    <2> QED BY <2>1, <2>2
  <1>3. CASE FinishWalk(IF got = {} THEN "empty" ELSE "partial", got)
    <2>1. walk' \in WalkRows /\ walk'.status \in {"empty", "partial"}
      BY <1>1, <1>2, <1>3 DEF FinishWalk, WalkRows
    <2> QED BY <1>1, <2>1, EndedWalkKeeps
  <1>4. CASE walk' = [walk EXCEPT !.total = Cardinality(listing), !.noted = noted,
                                  !.page = 1, !.got = left0]
    <2>1. Cardinality(listing) \in Int /\ left0 \subseteq Listable
      BY <1>1, <1>2, PartsOfListable
    <2>2. /\ walk' \in WalkRows /\ walk'.status = "walking" /\ walk'.got = left0
          /\ walk'.by = "season" /\ walk'.total = Cardinality(listing)
      BY <1>1, <1>2, <1>4, <2>1 DEF WalkRows
    <2>3. TakenFrom(walk.got, walk.total)'
      BY <1>1, <1>2, <2>2 DEF TakenFrom
    <2>4. WalkTyped'
      BY <1>1, <2>2 DEF WalkTyped
    <2> QED BY <2>2, <2>3, <2>4 DEF WalkInv, NothingSkipped
  <1> QED BY <1>2, <1>3, <1>4

LEMMA PopulationKeeps ==
  ASSUME WalkInv, NEW got \in SUBSET Listable, NEW noted \in BOOLEAN, Population(got, noted),
         walk.status = "walking", walk.by = "season",
         UNCHANGED <<listing, throughout, joined, left>>,
         joined = 0 => TakenFrom(got, walk.total)
  PROVE  WalkInv'
  <1> DEFINE how == IF got = {} THEN "empty"
                    ELSE IF noted \/ ~TotalReconciled(got) THEN "partial" ELSE "published"
  <1>1. walk' = [walk EXCEPT !.status = how, !.got = got] /\ walk \in WalkRows
        /\ how \in {"empty", "partial", "published"} /\ throughout \subseteq listing
    BY DEF Population, FinishWalk, WalkInv, WalkTyped
  <1>2. /\ walk' \in WalkRows /\ walk'.status = how /\ walk'.got = got /\ walk'.by = "season"
    BY <1>1 DEF WalkRows
  <1>3. CASE how # "published"
    BY <1>1, <1>2, <1>3, EndedWalkKeeps
  <1>4. CASE how = "published"
    <2>1. Cardinality(got) = walk.total
      BY <1>4 DEF TotalReconciled
    <2>2. joined = 0 => listing \subseteq got
      <3> SUFFICES ASSUME joined = 0 PROVE listing \subseteq got
        OBVIOUS
      <3>1. PICK full \in SUBSET Listable : /\ Cardinality(full) = walk.total
                                               /\ got \subseteq full /\ listing \subseteq full
        BY DEF TakenFrom
      <3>2. got = full
        BY <2>1, <3>1, PartsOfListable, FS_Subset
      <3> QED BY <3>1, <3>2
    <2>3. NothingSkipped'
      BY <1>1, <1>2, <2>2 DEF NothingSkipped
    <2>4. WalkTyped'
      BY <1>2, <1>4 DEF WalkTyped, WalkInv
    <2> QED BY <1>2, <1>4, <2>3, <2>4 DEF WalkInv
  <1> QED BY <1>3, <1>4

LEMMA TakeSeasonPageKeeps ==
  ASSUME WalkInv, TakeSeasonPage
  PROVE  WalkInv'
  <1>1. /\ walk \in WalkRows /\ listing \subseteq Listable /\ throughout \subseteq listing
        /\ walk.status = "walking" /\ walk.by = "season" /\ walk.page > 0 /\ walk.page \in Nat
        /\ walk.got \subseteq Listable /\ walk.noted \in BOOLEAN /\ left \in Nat /\ joined \in Nat
        /\ joined = 0 => TakenFrom(walk.got, walk.total)
        /\ listing' = listing /\ throughout' = throughout /\ joined' = joined /\ left' = left
    BY DEF TakeSeasonPage, WalkInv, WalkTyped, WalkRows
  <1>2. \/ Population(walk.got, walk.noted)
        \/ Failed
        \/ \E got, noted :
             /\ got \subseteq walk.got \cup listing /\ noted \in BOOLEAN
             /\ Population(got, noted) \/ walk' = [walk EXCEPT !.page = @ + 1, !.got = got,
                                                               !.noted = noted]
    <2>1. CASE Cardinality(walk.got) >= walk.total \/ walk.page > MaxPages
      BY <2>1 DEF TakeSeasonPage
    <2>2. CASE ~(Cardinality(walk.got) >= walk.total) /\ ~(walk.page > MaxPages)
      <3>1. PICK unread \in {{}} \cup {{r} : r \in Page(walk.page, PageSize)}, told \in BOOLEAN :
              LET answer == Page(walk.page, PageSize)
                  got == walk.got \cup (answer \ unread)
                  noted == \/ walk.noted \/ unread # {}
                           \/ (answer \ unread) \cap walk.got # {}
                           \/ told /\ Cardinality(listing) # walk.total
              IN IF Cardinality(got) >= walk.total \/ answer = {}
                 THEN Population(got, noted)
                 ELSE walk' = [walk EXCEPT !.page = @ + 1, !.got = got, !.noted = noted]
        BY <2>2 DEF TakeSeasonPage
      <3>2. PICK got : got = walk.got \cup (Page(walk.page, PageSize) \ unread)
        OBVIOUS
      <3>3. PICK noted \in BOOLEAN :
              noted = (\/ walk.noted \/ unread # {}
                       \/ (Page(walk.page, PageSize) \ unread) \cap walk.got # {}
                       \/ told /\ Cardinality(listing) # walk.total)
        BY <1>1
      <3>4. got \subseteq walk.got \cup listing
        BY <3>2 DEF Page
      <3>5. Population(got, noted) \/ walk' = [walk EXCEPT !.page = @ + 1, !.got = got,
                                                           !.noted = noted]
        BY <3>1, <3>2, <3>3
      <3> QED BY <3>4, <3>5
    <2> QED BY <2>1, <2>2
  <1>3. CASE Population(walk.got, walk.noted)
    BY <1>1, <1>3, PopulationKeeps
  <1>4. CASE Failed
    <2>1. walk' \in WalkRows /\ walk'.status = "failed"
      BY <1>1, <1>4 DEF Failed, WalkRows
    <2> QED BY <1>1, <2>1, EndedWalkKeeps
  <1>5. ASSUME NEW got, NEW noted \in BOOLEAN, got \subseteq walk.got \cup listing,
               Population(got, noted) \/ walk' = [walk EXCEPT !.page = @ + 1, !.got = got,
                                                              !.noted = noted]
        PROVE  WalkInv'
    <2>1. got \in SUBSET Listable
      BY <1>1, <1>5
    <2>2. joined = 0 => TakenFrom(got, walk.total)
      BY <1>1, <1>5 DEF TakenFrom
    <2>3. CASE Population(got, noted)
      BY <1>1, <1>5, <2>1, <2>2, <2>3, PopulationKeeps
    <2>4. CASE walk' = [walk EXCEPT !.page = @ + 1, !.got = got, !.noted = noted]
      <3>0. walk.page + 1 \in Nat
        BY <1>1
      <3>1. /\ walk' \in WalkRows /\ walk'.status = "walking" /\ walk'.got = got
            /\ walk'.by = "season" /\ walk'.total = walk.total
        BY <1>1, <1>5, <2>1, <2>4, <3>0 DEF WalkRows
      <3>2. WalkTyped'
        BY <1>1, <3>1 DEF WalkTyped
      <3>3. joined = 0 => TakenFrom(walk.got, walk.total)'
        BY <1>1, <2>2, <3>1 DEF TakenFrom
      <3> QED BY <1>1, <3>1, <3>2, <3>3 DEF WalkInv, NothingSkipped
    <2> QED BY <1>5, <2>3, <2>4
  <1> QED BY <1>2, <1>3, <1>4, <1>5

LEMMA WalkSteps == WalkInv /\ [WalkNext]_walkVars => WalkInv'
  <1>1. ASSUME WalkInv, UNCHANGED walkVars PROVE WalkInv'
    <2>1. /\ listing' = listing /\ walk' = walk /\ throughout' = throughout
          /\ joined' = joined /\ left' = left
      BY <1>1 DEF walkVars
    <2>2. WalkTyped' /\ NothingSkipped'
      BY <1>1, <2>1 DEF WalkInv, WalkTyped, NothingSkipped
    <2>3. \A r : Place(r)' = Place(r)
      BY <2>1 DEF Place
    <2> QED BY <1>1, <2>1, <2>2, <2>3 DEF WalkInv, TakenSoFar, TakenFrom
  <1> QED BY <1>1, StartWalkKeeps, ListingChangesKeeps, TakePageKeeps, RequestFailsKeeps,
             ProbeKeeps, TakeSeasonPageKeeps DEF WalkNext

\* For any listing, page sizes and changes between the pages: a published collection holds
\* every record that was listed all along, when records only joined an endpoint's listing or
\* only left the season's players (collect_endpoint, season_players).
THEOREM PagesSkipNothing == WalkSpec => []NothingSkipped
  <1>1. WalkInv => NothingSkipped
    BY DEF WalkInv
  <1> QED BY <1>1, WalkStarts, WalkSteps, PTL DEF WalkSpec

----------------------------------------------------------------------------
(* The completeness report.  What it has seen of authority, reviews and    *)
(* memberships still holds when it gives its verdict.                      *)
ReportTyped ==
  /\ report.done \in 0 .. 11
  /\ DOMAIN report.seen = {Selects[i] : i \in 1 .. report.done}
  /\ report.status = "none" => report.done < 11

MembersIdentified ==
  \A m \in Fixture, p \in Squad : facts[m][p] = 2 /\ p \in identified[m] => p \in population

SeenHolds ==
  /\ "matches" \in DOMAIN report.seen => report.seen["matches"].ended \subseteq Fixture
  /\ "stats" \in DOMAIN report.seen
       => \A m \in Fixture, p \in Squad : report.seen["stats"][m][p] = 2 => facts[m][p] = 2
  /\ "reviews" \in DOMAIN report.seen => report.seen["reviews"] \subseteq everReviewed
  /\ "memberships" \in DOMAIN report.seen /\ report.seen["memberships"] = {} => MembersIdentified

Covering(seen) ==
  /\ seen["memberships"] = {}
  /\ \A m \in seen["matches"].ended : CoverageFinding(m, seen) \notin IncompleteCodes

VerdictEarned ==
  report.status \in ExitsWithZero
    => /\ {"matches", "stats", "reviews", "memberships"} \subseteq DOMAIN report.seen
       /\ Covering(report.seen)

ReportInv == SummaryInv /\ ReportTyped /\ SeenHolds /\ VerdictEarned

LEMMA ReportStarts == SummaryInit /\ ReportInit => ReportInv
  <1> SUFFICES ASSUME SummaryInit, ReportInit PROVE ReportInv
    OBVIOUS
  <1>1. report.done = 0 /\ DOMAIN report.seen = {} /\ report.status = "none"
    BY DEF ReportInit, NoReport
  <1>2. ReportTyped
    BY <1>1 DEF ReportTyped
  <1> QED BY <1>1, <1>2, SummaryStarts DEF ReportInv, SeenHolds, VerdictEarned, ExitsWithZero

LEMMA WritesKeepReport ==
  ASSUME ReportInv, SummaryInv', report' = report,
         everReviewed \subseteq everReviewed', population \subseteq population',
         \A m \in Fixture, p \in Squad : facts[m][p] = 2 => facts'[m][p] = 2,
         "memberships" \in DOMAIN report.seen => facts' = facts /\ identified' = identified
  PROVE  ReportInv'
  <1>1. ReportTyped' /\ VerdictEarned'
    BY DEF ReportInv, ReportTyped, VerdictEarned, Covering
  <1>2. SeenHolds
    BY DEF ReportInv
  <1>3. SeenHolds'
    BY <1>2 DEF SeenHolds, MembersIdentified
  <1> QED BY <1>1, <1>3 DEF ReportInv

LEMMA OtherWritersKeepReport ==
  ASSUME ReportInv, OtherWriters
  PROVE  ReportInv'
  <1>1. SummaryInv /\ reviews \subseteq everReviewed /\ population \subseteq Squad
        /\ facts \in [Fixture -> SquadRows] /\ ended \subseteq Fixture
    BY DEF ReportInv, SummaryInv, SummaryTyped
  <1>2. CASE RowsStored
    <2>1. StoreFacts /\ report' = report /\ "memberships" \notin DOMAIN report.seen
      BY <1>2 DEF RowsStored, Ahead
    <2>2. SummaryInv' /\ everReviewed' = everReviewed /\ population' = population
      BY <1>1, <2>1, OtherWritersKeepSummary DEF StoreFacts
    <2>3. PICK m \in Fixture, kind \in {"concluded", "live_partial"}, names \in SUBSET Squad :
            facts' = [facts EXCEPT ![m] = Stats!Upserted(facts[m], [kind |-> kind, players |-> names])]
      BY <2>1 DEF StoreFacts
    <2>4. PICK rows \in SquadRows :
            /\ rows = Stats!Upserted(facts[m], [kind |-> kind, players |-> names])
            /\ \A p \in Squad : facts[m][p] = 2 => rows[p] = 2
      BY <1>1, AuthorityStays
    <2>5. \A n \in Fixture, p \in Squad : facts[n][p] = 2 => facts'[n][p] = 2
      BY <1>1, <2>3, <2>4
    <2> QED BY <2>1, <2>2, <2>5, WritesKeepReport
  <1>3. CASE (Conclude \/ ReviewMatch \/ Revoke \/ Join) /\ UNCHANGED reportVars
    <2>1. SummaryInv'
      BY <1>1, <1>3, OtherWritersKeepSummary
    <2>2. /\ report' = report /\ identified' = identified /\ facts' = facts
          /\ everReviewed \subseteq everReviewed' /\ population \subseteq population'
      BY <1>3 DEF reportVars, Conclude, ReviewMatch, Revoke, Join
    <2> QED BY <2>1, <2>2, WritesKeepReport
  <1>4. CASE RowsRelinked \/ FixtureMoves \/ PlayerMapped \/ AuditMoves
    <2>1. Written
      BY <1>4 DEF RowsRelinked, FixtureMoves, PlayerMapped, AuditMoves
    <2>2. /\ UNCHANGED <<builder, summary>> /\ report' = report /\ facts' = facts
          /\ everReviewed' = everReviewed /\ population' = population /\ reviews' = reviews
          /\ ended' = ended
      BY <2>1 DEF Written, OtherWrite
    <2>3. "memberships" \in DOMAIN report.seen => identified' = identified
      BY <1>4 DEF RowsRelinked, FixtureMoves, PlayerMapped, AuditMoves, Ahead
    <2>4. SummaryInv'
      BY <1>1, <2>2, WriteKeepsSummary
    <2> QED BY <2>2, <2>3, <2>4, WritesKeepReport
  <1> QED BY <1>2, <1>3, <1>4 DEF OtherWriters

\* A report with exit code 0 has found nothing that leaves the season incomplete.
LEMMA VerdictCovers ==
  ASSUME NEW seen, seen["matches"].ended \subseteq Fixture,
         CalculateStatus(Findings(seen)) \in ExitsWithZero
  PROVE  Covering(seen)
  <1>1. Findings(seen) \cap IncompleteCodes = {}
    BY DEF CalculateStatus, ExitsWithZero
  <1>2. IdentityFindings(seen) \subseteq Findings(seen)
    BY DEF Findings
  <1>3. \A m \in Fixture : FixtureFindings(m, seen) \subseteq Findings(seen)
    BY DEF Findings
  <1>4. \A m \in seen["matches"].ended : CoverageFinding(m, seen) \in FixtureFindings(m, seen)
    BY DEF FixtureFindings
  <1>5. seen["memberships"] = {}
    <2> SUFFICES ASSUME seen["memberships"] # {} PROVE FALSE
      OBVIOUS
    <2>1. "stats.player_missing_season_membership" \in IdentityFindings(seen)
      BY DEF IdentityFindings
    <2> QED BY <1>1, <1>2, <2>1 DEF IncompleteCodes
  <1> QED BY <1>1, <1>3, <1>4, <1>5 DEF Covering

LEMMA ReportSelectKeeps ==
  ASSUME ReportInv, ReportSelect
  PROVE  ReportInv'
  <1>1. /\ SummaryInv /\ ReportTyped /\ SeenHolds /\ report.status = "none"
        /\ report.done \in 0 .. 10 /\ UNCHANGED <<identified, summaryVars>>
    BY DEF ReportInv, ReportTyped, ReportSelect
  <1>2. /\ facts' = facts /\ reviews' = reviews /\ population' = population /\ ended' = ended
        /\ everReviewed' = everReviewed /\ UNCHANGED <<builder, summary>> /\ identified' = identified
    BY <1>1 DEF summaryVars
  <1>3. SummaryInv'
    BY <1>1, <1>2, WriteKeepsSummary DEF SummaryInv, SummaryTyped
  <1>4. CASE report' = [NoReport EXCEPT !.status = "incomplete"]
    <2>1. report'.done = 0 /\ DOMAIN report'.seen = {} /\ report'.status = "incomplete"
      BY <1>4 DEF NoReport
    <2>2. ReportTyped'
      BY <2>1 DEF ReportTyped
    <2> QED BY <1>3, <2>1, <2>2 DEF ReportInv, SeenHolds, VerdictEarned, ExitsWithZero
  <1>5. CASE report' # [NoReport EXCEPT !.status = "incomplete"]
    <2>1. PICK table, seen : /\ table = Selects[report.done + 1] /\ seen = Seeing(table)
                             /\ report' = [done   |-> report.done + 1,
                                           seen   |-> seen,
                                           status |-> IF table = "audits"
                                                      THEN CalculateStatus(Findings(seen)) ELSE "none"]
      BY <1>5 DEF ReportSelect
    <2>2. /\ DOMAIN seen = DOMAIN report.seen \cup {table} /\ seen[table] = Answer(table)
          /\ \A t \in DOMAIN report.seen : t # table => seen[t] = report.seen[t]
      BY <2>1 DEF Seeing
    <2>3. report'.done = report.done + 1 /\ report'.seen = seen
      BY <2>1
    <2>4. DOMAIN seen = {Selects[i] : i \in 1 .. report.done + 1}
      <3>1. 1 .. report.done + 1 = (1 .. report.done) \cup {report.done + 1}
        BY <1>1
      <3>2. {Selects[i] : i \in (1 .. report.done) \cup {report.done + 1}}
              = {Selects[i] : i \in 1 .. report.done} \cup {Selects[report.done + 1]}
        OBVIOUS
      <3>3. DOMAIN report.seen = {Selects[i] : i \in 1 .. report.done}
        BY <1>1 DEF ReportTyped
      <3> QED BY <2>1, <2>2, <3>1, <3>2, <3>3
    <2>5. table = "audits" <=> report.done = 10
      <3>1. \A i \in 1 .. 11 : Selects[i] = "audits" <=> i = 11
        BY DEF Selects
      <3>2. report.done + 1 \in 1 .. 11 /\ (report.done + 1 = 11 <=> report.done = 10)
        BY <1>1
      <3> QED BY <2>1, <3>1, <3>2
    <2>6. ReportTyped'
      <3>1. report'.status = "none" => report.done # 10
        BY <2>1, <2>5 DEF CalculateStatus
      <3> QED BY <1>1, <2>3, <2>4, <3>1 DEF ReportTyped
    <2>7. SeenHolds'
      <3>1. "matches" \in DOMAIN seen => seen["matches"].ended \subseteq Fixture
        <4>1. Answer("matches") = [ended |-> ended, drawn |-> drawn] /\ ended \subseteq Fixture
          BY <1>1 DEF Answer, SummaryInv, SummaryTyped
        <4>2. Answer("matches").ended \subseteq Fixture
          BY <4>1
        <4> QED BY <1>1, <2>2, <4>2 DEF SeenHolds
      <3>2. "stats" \in DOMAIN seen
              => \A m \in Fixture, p \in Squad : seen["stats"][m][p] = 2 => facts[m][p] = 2
        BY <1>1, <2>2 DEF SeenHolds, Answer
      <3>3. "reviews" \in DOMAIN seen => seen["reviews"] \subseteq everReviewed
        BY <1>1, <2>2 DEF SeenHolds, Answer, SummaryInv, SummaryTyped
      <3>4. ASSUME "memberships" \in DOMAIN seen, seen["memberships"] = {}
            PROVE  MembersIdentified
        <4>1. CASE table = "memberships"
          <5> SUFFICES ASSUME NEW m \in Fixture, NEW p \in Squad, facts[m][p] = 2,
                              p \in identified[m], p \notin population
                       PROVE  FALSE
            BY DEF MembersIdentified
          <5>1. PICK missing : missing = [n \in Fixture |-> {q \in Squad \ population :
                                            facts[n][q] = 2 /\ q \in identified[n]}]
            OBVIOUS
          <5>2. Answer("memberships") = RowsIn(missing)
            BY <5>1 DEF Answer
          <5>3. p \in missing[m]
            BY <5>1
          <5>4. <<m, p>> \in RowsIn(missing)
            BY <5>3 DEF RowsIn
          <5> QED BY <2>2, <3>4, <4>1, <5>2, <5>4
        <4>2. CASE table # "memberships"
          BY <1>1, <2>2, <3>4, <4>2 DEF SeenHolds
        <4> QED BY <4>1, <4>2
      <3> QED BY <1>2, <2>3, <3>1, <3>2, <3>3, <3>4 DEF SeenHolds, MembersIdentified
    <2>8. VerdictEarned'
      <3> SUFFICES ASSUME report'.status \in ExitsWithZero PROVE VerdictEarned'
        BY DEF VerdictEarned
      <3>1. table = "audits" /\ CalculateStatus(Findings(seen)) \in ExitsWithZero
        BY <2>1 DEF ExitsWithZero
      <3>2. DOMAIN seen = {Selects[i] : i \in 1 .. 11}
        BY <2>4, <2>5, <3>1
      <3>3. {"matches", "stats", "reviews", "memberships"} \subseteq DOMAIN seen
        <4>1. /\ Selects[2] = "matches" /\ Selects[3] = "stats" /\ Selects[4] = "reviews"
              /\ Selects[10] = "memberships"
          BY DEF Selects
        <4>2. \A i \in 1 .. 11 : Selects[i] \in DOMAIN seen
          BY <3>2
        <4> QED BY <4>1, <4>2
      <3>4. seen["matches"].ended \subseteq Fixture
        BY <2>3, <2>7, <3>3 DEF SeenHolds
      <3>5. Covering(seen)
        BY <3>1, <3>4, VerdictCovers
      <3> QED BY <2>3, <3>3, <3>5 DEF VerdictEarned
    <2> QED BY <1>3, <2>6, <2>7, <2>8 DEF ReportInv
  <1> QED BY <1>4, <1>5

LEMMA ReportSteps == ReportInv /\ [ReportNext]_<<summaryVars, reportVars>> => ReportInv'
  <1>1. ASSUME ReportInv, UNCHANGED <<summaryVars, reportVars>> PROVE ReportInv'
    <2>1. SummaryInv'
      BY <1>1, SummarySteps DEF ReportInv
    <2>2. /\ report' = report /\ identified' = identified /\ facts' = facts
          /\ everReviewed' = everReviewed /\ population' = population
      BY <1>1 DEF summaryVars, reportVars
    <2> QED BY <1>1, <2>1, <2>2, WritesKeepReport
  <1> QED BY <1>1, OtherWritersKeepReport, ReportSelectKeeps DEF ReportNext

\* What was found of a match while the report was read still stands behind its verdict.
LEMMA EarnedIsCovered == ReportInv => UsableIsCovered
  <1> SUFFICES ASSUME ReportInv, report.status \in ExitsWithZero,
                      NEW m \in report.seen["matches"].ended, m \notin everReviewed
               PROVE  LET snapshot == Stats!Authoritative(facts[m])
                      IN /\ snapshot \cap HomeSquad # {} /\ snapshot \ HomeSquad # {}
                         /\ Cardinality(snapshot) >= MinListed
                         /\ \A p \in snapshot \cap identified[m] :
                               report.seen["stats"][m][p] = 2 => p \in population
    BY DEF UsableIsCovered
  <1>1. /\ SeenHolds /\ Covering(report.seen)
        /\ {"matches", "stats", "reviews", "memberships"} \subseteq DOMAIN report.seen
    BY DEF ReportInv, VerdictEarned
  <1>2. /\ m \in Fixture /\ m \notin report.seen["reviews"] /\ MembersIdentified
        /\ \A p \in Squad : report.seen["stats"][m][p] = 2 => facts[m][p] = 2
    BY <1>1 DEF SeenHolds, Covering
  <1>3. CoverageFinding(m, report.seen) \notin IncompleteCodes
    BY <1>1 DEF Covering
  <1>4. PICK snapshot, found : /\ snapshot = Stats!Authoritative(facts[m])
                               /\ found = Stats!Authoritative(report.seen["stats"][m])
    OBVIOUS
  <1>5. found \subseteq snapshot /\ snapshot \subseteq Squad
    BY <1>2, <1>4 DEF Stats!Authoritative
  <1>6. /\ found # {} /\ ~Partial(report.seen["stats"][m]) /\ ~(Cardinality(found) < MinListed)
    BY <1>2, <1>3, <1>4 DEF CoverageFinding, IncompleteCodes
  <1>7. ~(found \subseteq HomeSquad) /\ found \cap HomeSquad # {}
    BY <1>4, <1>6 DEF Partial
  <1>8. Cardinality(snapshot) >= MinListed
    <2>1. IsFiniteSet(snapshot)
      BY <1>5, SquadAssumption, FS_Subset
    <2>2. /\ Cardinality(found) <= Cardinality(snapshot)
          /\ Cardinality(found) \in Nat /\ Cardinality(snapshot) \in Nat
      BY <1>5, <2>1, FS_Subset, FS_CardinalityType
    <2> QED BY <1>6, <2>2, SquadAssumption
  <1>9. \A p \in snapshot \cap identified[m] : p \in population
    BY <1>2, <1>4 DEF Stats!Authoritative, MembersIdentified
  <1> QED BY <1>4, <1>5, <1>7, <1>8, <1>9

\* For any fixture, squad and other writers: a report that ends with exit code 0 is right
\* about the facts, however its SELECTs fell between the transactions of the others
\* (SeasonCompletenessReporter, calculate_status, exit_code).
THEOREM UsableReportsAreCovered == ReportSpec => []UsableIsCovered
  <1> QED BY ReportStarts, ReportSteps, EarnedIsCovered, PTL DEF ReportSpec

-----------------------------------------------------------------------------
(* The canonical players.                                                       *)
Memberships == Teams \cup {NoTeam, NotMember}

IdentityTyped ==
  /\ crosswalk \in [Ids -> Nat] /\ players \in Nat
  /\ member \in [PlayerIds \X Seasons -> Memberships]
  /\ linked \in [Seasons -> SUBSET Teams]

\* No provider has two identifiers for one player.
OneEach(ids) ==
  \A i, j \in Ids : ids[i] = ids[j] /\ SameProvider(i, j) /\ i # j => ids[i] = NoPlayer

IdentityInv == IdentityTyped /\ OneEach(crosswalk)

\* What a transaction holds of the database: it only adds to what was committed.
Persisted ==
  {data \in [crosswalk : [Ids -> Nat], players : Nat,
             member : [PlayerIds \X Seasons -> Memberships], ok : BOOLEAN] :
     /\ OneEach(data.crosswalk)
     /\ \A i \in Ids : crosswalk[i] # NoPlayer => data.crosswalk[i] = crosswalk[i]
     /\ \A a \in PlayerIds \X Seasons : member[a] \in Teams => data.member[a] \in Teams}

LEMMA IdentityStarts == IdentityInit => IdentityInv
  BY DEF IdentityInit, IdentityInv, IdentityTyped, OneEach, Memberships, NoPlayer

LEMMA EntryIds ==
  ASSUME NEW entry \in Entries
  PROVE  /\ IdsOf(entry) \subseteq Ids
         /\ \A i, j \in IdsOf(entry) : SameProvider(i, j) => i = j
  BY IdentityAssumption DEF Entries, IdsOf, Ids, SameProvider

LEMMA TeamIsKept ==
  ASSUME IdentityTyped, NEW entry \in Entries, NEW season \in Seasons, NEW old \in Memberships
  PROVE  /\ TeamAfter(old, entry, season) \in Memberships
         /\ old \in Teams => TeamAfter(old, entry, season) \in Teams
  BY IdentityAssumption DEF IdentityTyped, TeamAfter, Memberships

LEMMA EntryKeepsPersisted ==
  ASSUME IdentityInv, NEW data \in Persisted, NEW entry \in Entries, NEW season \in Seasons
  PROVE  PersistIdentity(data, entry, season) \in Persisted
  <1>1. /\ data.crosswalk \in [Ids -> Nat] /\ data.players \in Nat /\ data.ok \in BOOLEAN
        /\ data.member \in [PlayerIds \X Seasons -> Memberships] /\ OneEach(data.crosswalk)
        /\ \A i \in Ids : crosswalk[i] # NoPlayer => data.crosswalk[i] = crosswalk[i]
        /\ \A a \in PlayerIds \X Seasons : member[a] \in Teams => data.member[a] \in Teams
    BY DEF Persisted
  <1>2. CASE ~data.ok \/ Conflict(data, entry)
    <2>1. PICK undone : undone = [data EXCEPT !.ok = FALSE]
      OBVIOUS
    <2>2. /\ undone \in [crosswalk : [Ids -> Nat], players : Nat,
                         member : [PlayerIds \X Seasons -> Memberships], ok : BOOLEAN]
          /\ undone.crosswalk = data.crosswalk /\ undone.member = data.member
      BY <2>1 DEF Persisted
    <2>3. undone \in Persisted
      BY <1>1, <2>2 DEF Persisted
    <2> QED BY <1>2, <2>1, <2>3 DEF PersistIdentity
  <1>3. CASE data.ok /\ ~Conflict(data, entry)
    <2>1. PICK p : p = PlayerFor(data, entry)
      OBVIOUS
    <2>2. IdsOf(entry) \subseteq Ids /\ \A i, j \in IdsOf(entry) : SameProvider(i, j) => i = j
      BY EntryIds
    <2>3. p \in Nat
      <3>1. CASE ResolvedTo(data, entry) = {}
        BY <1>1, <2>1, <3>1 DEF PlayerFor
      <3>2. CASE ResolvedTo(data, entry) # {}
        <4>1. p \in ResolvedTo(data, entry)
          BY <2>1, <3>2 DEF PlayerFor
        <4> QED BY <1>1, <2>2, <4>1 DEF ResolvedTo
      <3> QED BY <3>1, <3>2
    <2>4. ASSUME NEW i \in IdsOf(entry), data.crosswalk[i] # NoPlayer PROVE data.crosswalk[i] = p
      <3>1. data.crosswalk[i] \in ResolvedTo(data, entry)
        BY <2>4 DEF ResolvedTo
      <3>2. p \in ResolvedTo(data, entry)
        BY <2>1, <3>1 DEF PlayerFor
      <3> QED BY <1>3, <3>1, <3>2 DEF Conflict
    <2>5. ASSUME NEW i \in IdsOf(entry), NEW j \in Ids, j # i, SameProvider(i, j)
          PROVE  data.crosswalk[j] # p
      BY <1>3, <2>1, <2>5 DEF Conflict, OwnsAnother
    <2>6. PICK ids, rows, next :
            /\ ids = [i \in Ids |-> IF i \in IdsOf(entry) THEN p ELSE data.crosswalk[i]]
            /\ rows = [data.member EXCEPT ![<<p, season>>] = TeamAfter(@, entry, season)]
            /\ next = [crosswalk |-> ids, players |-> IF p > data.players THEN p ELSE data.players,
                       member |-> rows, ok |-> TRUE]
      OBVIOUS
    <2>7. PersistIdentity(data, entry, season) = next
      BY <1>3, <2>1, <2>6 DEF PersistIdentity
    <2>8. ids \in [Ids -> Nat] /\ \A i \in Ids : data.crosswalk[i] # NoPlayer => ids[i] = data.crosswalk[i]
      BY <1>1, <2>3, <2>4, <2>6
    <2>9. OneEach(ids)
      <3> SUFFICES ASSUME NEW i \in Ids, NEW j \in Ids, ids[i] = ids[j], SameProvider(i, j), i # j
                   PROVE  ids[i] = NoPlayer
        BY DEF OneEach
      <3>1. SameProvider(j, i)
        BY DEF SameProvider
      <3>2. CASE i \in IdsOf(entry)
        <4>1. j \notin IdsOf(entry)
          BY <2>2, <3>2
        <4> QED BY <2>5, <2>6, <3>2, <4>1
      <3>3. CASE j \in IdsOf(entry)
        <4>1. i \notin IdsOf(entry)
          BY <2>2, <3>1, <3>3
        <4> QED BY <2>5, <2>6, <3>1, <3>3, <4>1
      <3>4. CASE i \notin IdsOf(entry) /\ j \notin IdsOf(entry)
        BY <1>1, <2>6, <3>4 DEF OneEach
      <3> QED BY <3>2, <3>3, <3>4
    <2>10. /\ rows \in [PlayerIds \X Seasons -> Memberships]
           /\ \A a \in PlayerIds \X Seasons : data.member[a] \in Teams => rows[a] \in Teams
      <3>1. \A a \in PlayerIds \X Seasons :
              rows[a] = IF a = <<p, season>> THEN TeamAfter(data.member[a], entry, season)
                        ELSE data.member[a]
        BY <1>1, <2>6
      <3>2. \A a \in PlayerIds \X Seasons : data.member[a] \in Memberships
        BY <1>1
      <3>3. \A a \in PlayerIds \X Seasons :
              /\ rows[a] \in Memberships
              /\ data.member[a] \in Teams => rows[a] \in Teams
        BY <3>1, <3>2, TeamIsKept DEF IdentityInv
      <3>4. rows = [a \in PlayerIds \X Seasons |-> rows[a]]
        BY <1>1, <2>6
      <3> QED BY <3>3, <3>4
    <2>11. /\ next.crosswalk = ids /\ next.member = rows
           /\ next \in [crosswalk : [Ids -> Nat], players : Nat,
                        member : [PlayerIds \X Seasons -> Memberships], ok : BOOLEAN]
      BY <1>1, <2>3, <2>6, <2>8, <2>10
    <2>12. next \in Persisted
      <3>1. \A i \in Ids : crosswalk[i] # NoPlayer => ids[i] = crosswalk[i]
        BY <1>1, <2>8
      <3>2. \A a \in PlayerIds \X Seasons : member[a] \in Teams => rows[a] \in Teams
        BY <1>1, <2>10
      <3> QED BY <2>9, <2>11, <3>1, <3>2 DEF Persisted
    <2> QED BY <2>7, <2>12
  <1> QED BY <1>1, <1>2, <1>3

LEMMA SeasonKeepsPersisted ==
  ASSUME IdentityInv, NEW snapshot \in Snapshots, NEW season \in Seasons
  PROVE  PersistSeason(snapshot, season) \in Persisted
  <1> DEFINE Step(n, data) == PersistIdentity(data, snapshot[n], season)
             Result(f) == f = [n \in 0 .. Len(snapshot) |-> IF n = 0 THEN Database ELSE Step(n, f[n - 1])]
             persisted == CHOOSE f : Result(f)
  <1>1. snapshot \in Seq(Entries)
    <2>1. PICK m \in 0 .. MaxEntries : snapshot \in [1 .. m -> Entries]
      <3>1. snapshot \in UNION {[1 .. m -> Entries] : m \in 0 .. MaxEntries}
        BY DEF Snapshots, BoundedSeq, SeqOf
      <3> QED BY <3>1
    <2>2. m \in Nat
      BY IdentityAssumption
    <2> QED BY <2>1, <2>2
  <1>2. Database \in Persisted
    <2>1. /\ Database.crosswalk = crosswalk /\ Database.member = member
          /\ Database \in [crosswalk : [Ids -> Nat], players : Nat,
                           member : [PlayerIds \X Seasons -> Memberships], ok : BOOLEAN]
      BY DEF Database, IdentityInv, IdentityTyped
    <2> QED BY <2>1 DEF Persisted, IdentityInv
  <1>3. PICK N \in Nat, base \in Persisted : N = Len(snapshot) /\ base = Database
    BY <1>1, <1>2
  <1>4. PersistSeason(snapshot, season) = persisted[N]
    BY <1>3 DEF PersistSeason
  <1>5. \A n \in 1 .. N, data \in Persisted : Step(n, data) \in Persisted
    BY <1>1, <1>3, EntryKeepsPersisted
  <1> HIDE DEF Step, persisted
  <1>6. PICK step : step = [a \in (1 .. N) \X Persisted |-> Step(a[1], a[2])]
    OBVIOUS
  <1>7. \A n \in 1 .. N, data \in Persisted : step[<<n, data>>] \in Persisted
    BY <1>5, <1>6
  <1>8. PICK g \in [0 .. N -> Persisted] :
          g[0] = base /\ \A n \in 1 .. N : g[n] = step[<<n, g[n - 1]>>]
    <2>1. Iterated(Persisted, N, base, step)
      BY <1>7, Iterates
    <2> QED BY <2>1 DEF Iterated
  <1>9. Result(g)
    <2>1. ASSUME NEW n \in 0 .. N PROVE g[n] = IF n = 0 THEN base ELSE Step(n, g[n - 1])
      <3>1. CASE n = 0
        BY <1>8, <3>1
      <3>2. CASE n # 0
        <4>1. n \in 1 .. N /\ g[n - 1] \in Persisted
          BY <1>8, <3>2
        <4>2. step[<<n, g[n - 1]>>] = Step(n, g[n - 1])
          BY <1>6, <4>1
        <4> QED BY <1>8, <3>2, <4>1, <4>2
      <3> QED BY <3>1, <3>2
    <2> QED BY <1>3, <1>8, <2>1
  <1>10. PICK f : f = persisted /\ Result(f)
    BY <1>9 DEF persisted
  <1>11. f = [n \in 0 .. N |-> IF n = 0 THEN base ELSE Step(n, f[n - 1])]
    BY <1>3, <1>10
  <1>12. f[0] = base /\ \A n \in 1 .. N : f[n] = Step(n, f[n - 1])
    <2>1. \A n \in 0 .. N : f[n] = IF n = 0 THEN base ELSE Step(n, f[n - 1])
      BY <1>11, Zenon
    <2> QED BY <2>1
  <1>13. PICK good : good = {n \in 0 .. N : f[n] \in Persisted}
    OBVIOUS
  <1>14. 0 \in good /\ \A n \in 1 .. N : n - 1 \in good => n \in good
    BY <1>5, <1>12, <1>13
  <1>15. 0 .. N \subseteq good
    BY <1>14, UpTo
  <1>16. N \in 0 .. N
    OBVIOUS
  <1> QED BY <1>4, <1>10, <1>13, <1>15, <1>16

LEMMA IdentityStep ==
  ASSUME IdentityInv, [IdentityNext]_identityVars
  PROVE  /\ IdentityInv'
         /\ \A i \in Ids : crosswalk[i] # NoPlayer => crosswalk'[i] = crosswalk[i]
         /\ \A p \in PlayerIds, s \in Seasons : member[p, s] \in Teams => member'[p, s] \in Teams
  <1>1. CASE UNCHANGED identityVars
    BY <1>1 DEF identityVars, IdentityInv, IdentityTyped, OneEach, SameProvider
  <1>2. ASSUME NEW season \in Seasons, LinkTeam(season)
        PROVE  IdentityInv' /\ UNCHANGED <<crosswalk, players, member>>
    <2>1. UNCHANGED <<crosswalk, players, member>>
      BY <1>2 DEF LinkTeam
    <2>2. linked' \in [Seasons -> SUBSET Teams]
      BY <1>2 DEF LinkTeam, IdentityInv, IdentityTyped
    <2> QED BY <2>1, <2>2 DEF IdentityInv, IdentityTyped, OneEach, SameProvider
  <1>3. ASSUME NEW season \in Seasons, NEW snapshot \in Snapshots, PersistSnapshot(snapshot, season)
        PROVE  /\ IdentityInv'
               /\ \A i \in Ids : crosswalk[i] # NoPlayer => crosswalk'[i] = crosswalk[i]
               /\ \A a \in PlayerIds \X Seasons : member[a] \in Teams => member'[a] \in Teams
    <2>1. PICK data \in Persisted : /\ crosswalk' = data.crosswalk /\ players' = data.players
                                    /\ member' = data.member
      BY <1>3, SeasonKeepsPersisted DEF PersistSnapshot
    <2>2. linked' = linked
      BY <1>3 DEF PersistSnapshot
    <2>3. /\ data.crosswalk \in [Ids -> Nat] /\ data.players \in Nat
          /\ data.member \in [PlayerIds \X Seasons -> Memberships] /\ OneEach(data.crosswalk)
          /\ \A i \in Ids : crosswalk[i] # NoPlayer => data.crosswalk[i] = crosswalk[i]
          /\ \A a \in PlayerIds \X Seasons : member[a] \in Teams => data.member[a] \in Teams
      BY DEF Persisted
    <2>4. IdentityTyped'
      BY <2>1, <2>2, <2>3 DEF IdentityInv, IdentityTyped
    <2>5. OneEach(crosswalk)'
      BY <2>1, <2>3 DEF OneEach, SameProvider
    <2> QED BY <2>1, <2>3, <2>4, <2>5 DEF IdentityInv
  <1>4. ASSUME \A a \in PlayerIds \X Seasons : member[a] \in Teams => member'[a] \in Teams
        PROVE  \A p \in PlayerIds, s \in Seasons : member[p, s] \in Teams => member'[p, s] \in Teams
    BY <1>4
  <1>5. UNCHANGED <<crosswalk, member>>
          => /\ \A i \in Ids : crosswalk[i] # NoPlayer => crosswalk'[i] = crosswalk[i]
             /\ \A a \in PlayerIds \X Seasons : member[a] \in Teams => member'[a] \in Teams
    OBVIOUS
  <1> QED BY <1>1, <1>2, <1>3, <1>4, <1>5 DEF IdentityNext, identityVars

\* For any snapshots of any length, in any order: an identifier never moves to another
\* player, a player never gets a second identifier of a provider, and a membership never
\* loses a team it resolved (persist_player_seasons).
THEOREM IdentitiesAreStable == IdentitySpec => IdentityStable
  <1>1. IdentityInv /\ [IdentityNext]_identityVars =>
          /\ \A i \in Ids : crosswalk[i] # NoPlayer => crosswalk'[i] = crosswalk[i]
          /\ OneIdPerProvider'
          /\ \A p \in PlayerIds, s \in Seasons : member[p, s] \in Teams => member'[p, s] \in Teams
    <2>1. IdentityInv' => OneIdPerProvider'
      BY DEF IdentityInv, OneEach, OneIdPerProvider
    <2> QED BY <2>1, IdentityStep
  <1>2. IdentityInv /\ [IdentityNext]_identityVars => IdentityInv'
    BY IdentityStep
  <1>3. IdentityInv /\ [IdentityNext]_identityVars =>
          [/\ \A i \in Ids : crosswalk[i] # NoPlayer => crosswalk'[i] = crosswalk[i]
           /\ OneIdPerProvider'
           /\ \A p \in PlayerIds, s \in Seasons : member[p, s] \in Teams => member'[p, s] \in Teams
          ]_identityVars
    BY <1>1
  <1> QED BY IdentityStarts, <1>2, <1>3, PTL DEF IdentitySpec, IdentityStable
=============================================================================
