------------------------------- MODULE Injuries -------------------------------
(***************************************************************************)
(* The injury list (scraper/injuries/).  A page shows the blocks of some   *)
(* clubs, each with its own date and its players, and rows whose player or *)
(* club is not recognised.  The collection writes a row per player and     *)
(* date in one transaction, retires the player's other rows, and expires   *)
(* whoever is no longer listed in a block that was shown; a page with an   *)
(* unrecognised row expires nobody.                                        *)
(***************************************************************************)
EXTENDS Integers, FiniteSets

CONSTANTS Patients,  \* players the resolver recognises
          Clubs,
          Updates    \* the dates a block may carry, the missing one included

VARIABLES injury,    \* the row of each player and date: [club, current]
          listed     \* history: what the pages last said of each player

injuryVars == <<injury, listed>>

NoClub == "none"
ASSUME NoClubAssumption == NoClub \notin Clubs \cup Updates

NoInjury == [club |-> NoClub, current |-> FALSE]
NotListed == [club |-> NoClub, updated |-> NoClub]

InjuryInit ==
    /\ injury = [p \in Patients |-> [u \in Updates |-> NoInjury]]
    /\ listed = [p \in Patients |-> NotListed]

(* parse_injuries_html and InjuryResolver.resolve: the blocks whose club   *)
(* is recognised with their dates, the recognised rows, and whether there  *)
(* were others.  A block without rows is an empty list.                    *)
Pages ==
    {page \in [shown : SUBSET Clubs, updated : [Clubs -> Updates],
               on : [Patients -> Clubs \cup {NoClub}], unclear : BOOLEAN] :
        \A p \in Patients : page.on[p] \in page.shown \cup {NoClub}}

OnPage(page, p) == page.on[p] # NoClub
DateOf(page, p) == page.updated[page.on[p]]

(* Mutant of Retires: a row with another date stays current.               *)
RetiresNone(page, p, u) == FALSE

(* The player's row of another date, once he is listed.                    *)
Retires(page, p, u) == OnPage(page, p) /\ DateOf(page, p) # u

(* A current row of a club whose block was shown without the player.       *)
Expires(page, p, u) ==
    ~OnPage(page, p) /\ injury[p][u].club \in page.shown /\ ~page.unclear

RowAfter(page, p, u) ==
    IF OnPage(page, p) /\ DateOf(page, p) = u THEN [club |-> page.on[p], current |-> TRUE]
    ELSE IF Retires(page, p, u) \/ Expires(page, p, u)
         THEN [injury[p][u] EXCEPT !.current = FALSE]
         ELSE injury[p][u]

(* What a reader of the pages would say of the player now.                 *)
ListedAfter(page, p) ==
    IF OnPage(page, p) THEN [club |-> page.on[p], updated |-> DateOf(page, p)]
    ELSE IF listed[p].club \in page.shown /\ ~page.unclear THEN NotListed
    ELSE listed[p]

CollectInjuries ==
    \E page \in Pages :
       /\ injury' = [p \in Patients |-> [u \in Updates |-> RowAfter(page, p, u)]]
       /\ listed' = [p \in Patients |-> ListedAfter(page, p)]

InjurySpec == InjuryInit /\ [][CollectInjuries]_injuryVars

----------------------------------------------------------------------------
(* The current rows are the list as the pages last told it: one row for a  *)
(* player who is on it, with the club and the date he was last shown with, *)
(* and none for one whose club was shown without him, through dates that   *)
(* come back, moves between clubs and pages that are not clear.            *)
InjuredAsLastSeen ==
    \A p \in Patients, u \in Updates :
       injury[p][u].current <=> listed[p] = [club |-> injury[p][u].club, updated |-> u]
=============================================================================
