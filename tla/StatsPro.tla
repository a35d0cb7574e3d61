------------------------------- MODULE StatsPro -------------------------------
(***************************************************************************)
(* The summaries the league publishes (afl_json/statspro.py): commands     *)
(* fetch the current edition of the season's or a round's summaries and    *)
(* persist it row by row inside a savepoint, which also is the transaction *)
(* of the command.                                                         *)
(***************************************************************************)
EXTENDS Naturals, FiniteSets

CONSTANTS Contexts,    \* SEASON_TOTAL and LEAGUE_ROUND_TOTAL
          ProPlayers,  \* players by number: the order of an answer
          Editions,    \* editions, in the order they are published, by number
          ListedIn,    \* the players each edition lists
          Importers,   \* commands
          MaxImports   \* bound: transactions begun

NoEdition == 0

ASSUME EditionsAssumption ==
    /\ Editions \subseteq Nat \ {NoEdition} /\ ProPlayers \subseteq Nat
    /\ ListedIn \in [Editions -> SUBSET ProPlayers]

VARIABLES edition,   \* the edition published now
          summaries, \* by context: the edition each player's row is of
          importer,  \* where each command is: [at, context, edition, left, rows]
          applied,   \* history: the editions committed, and the one committed last
          imports

proVars == <<edition, summaries, importer, applied, imports>>

NoSummaries == [p \in ProPlayers |-> NoEdition]

Unused == [at |-> "idle", context |-> "none", edition |-> NoEdition, left |-> {}, rows |-> NoSummaries]

ProInit ==
    /\ edition \in Editions /\ \A e \in Editions : edition <= e
    /\ summaries = [x \in Contexts |-> NoSummaries]
    /\ importer = [c \in Importers |-> Unused]
    /\ applied = [x \in Contexts |-> [all |-> {}, last |-> NoEdition]]
    /\ imports = 0

----------------------------------------------------------------------------
Publish ==
    /\ edition + 1 \in Editions
    /\ edition' = edition + 1
    /\ UNCHANGED <<summaries, importer, applied, imports>>

(* Season or round resolved, the answer is fetched and validated as a      *)
(* whole: nothing of an empty, malformed or refused one is kept.           *)
FetchEdition(c) ==
    /\ importer[c].at = "idle" /\ imports < MaxImports
    /\ ListedIn[edition] # {}
    /\ \E x \in Contexts :
          importer' = [importer EXCEPT ![c] = [Unused EXCEPT !.at = "fetched", !.context = x,
                                                             !.edition = edition]]
    /\ UNCHANGED <<edition, summaries, applied, imports>>

(* The first row takes the database's write lock; a command that waits too *)
(* long for it fails.                                                      *)
OpenSavepoint(c) ==
    /\ importer[c].at = "fetched"
    /\ \/ /\ \A d \in Importers : importer[d].at # "rows"
          /\ imports < MaxImports /\ imports' = imports + 1
          /\ importer' = [importer EXCEPT ![c].at = "rows",
                                          ![c].left = ListedIn[importer[c].edition],
                                          ![c].rows = summaries[importer[c].context]]
       \/ importer' = [importer EXCEPT ![c] = Unused] /\ UNCHANGED imports
    /\ UNCHANGED <<edition, summaries, applied>>

NextRow(c) == CHOOSE p \in importer[c].left : \A q \in importer[c].left : p <= q

(* Inserted, updated or found unchanged; a player who is not listed keeps  *)
(* the row of an earlier edition.                                          *)
PersistRow(c) ==
    /\ importer[c].at = "rows" /\ importer[c].left # {}
    /\ importer' = [importer EXCEPT ![c].rows[NextRow(c)] = importer[c].edition,
                                    ![c].left = @ \ {NextRow(c)}]
    /\ UNCHANGED <<edition, summaries, applied, imports>>

(* Mutant of RolledBack: the savepoint is released without going back.     *)
Released(c) == importer[c].rows

(* ROLLBACK TO the savepoint, then its release.                            *)
RolledBack(c) == summaries[importer[c].context]

RowFails(c) ==
    /\ importer[c].at = "rows" /\ importer[c].left # {}
    /\ summaries' = [summaries EXCEPT ![importer[c].context] = RolledBack(c)]
    /\ importer' = [importer EXCEPT ![c] = Unused]
    /\ UNCHANGED <<edition, applied, imports>>

Dies(c) ==
    /\ importer[c].at = "rows"
    /\ importer' = [importer EXCEPT ![c] = Unused]
    /\ UNCHANGED <<edition, summaries, applied, imports>>

ReleaseSavepoint(c) ==
    /\ importer[c].at = "rows" /\ importer[c].left = {}
    /\ LET x == importer[c].context
           e == importer[c].edition
       IN /\ summaries' = [summaries EXCEPT ![x] = importer[c].rows]
          /\ applied' = [applied EXCEPT ![x] = [all |-> @.all \cup {e}, last |-> e]]
    /\ importer' = [importer EXCEPT ![c] = Unused]
    /\ UNCHANGED <<edition, imports>>

ProNext ==
    \/ Publish
    \/ \E c \in Importers :
         \/ FetchEdition(c) \/ OpenSavepoint(c) \/ PersistRow(c)
         \/ RowFails(c) \/ Dies(c) \/ ReleaseSavepoint(c)

ProSpec == ProInit /\ [][ProNext]_proVars

----------------------------------------------------------------------------
(* What is stored is whole editions, whichever command failed or died half *)
(* way and however they overlapped: every player of the edition committed  *)
(* last has its row, and every other row is of an edition that was         *)
(* committed and lists the player.                                         *)
PublishedWhole ==
    \A x \in Contexts :
       /\ applied[x].last # NoEdition
          => \A p \in ListedIn[applied[x].last] : summaries[x][p] = applied[x].last
       /\ \A p \in ProPlayers : summaries[x][p] # NoEdition
          => summaries[x][p] \in applied[x].all /\ p \in ListedIn[summaries[x][p]]
=============================================================================
