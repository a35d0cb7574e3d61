------------------------------- MODULE PageWalk -------------------------------
(***************************************************************************)
(* The collection of a listing page by page (afl_json/collectors.py): a    *)
(* metadata endpoint, whose answers say in one of several ways whether     *)
(* there is more, and the players of a season, asked for in one answer     *)
(* first and by pages only when that was not all of them.                  *)
(*                                                                         *)
(* Each page is cut from the listing as it stands when it is asked for;    *)
(* records may join and leave it in between.  Its order is fixed.          *)
(***************************************************************************)
EXTENDS Integers, FiniteSets

CONSTANTS Listable,     \* the records there can be, a set of numbers: their order
          PageSize,     \* page_size
          ProbeSize,    \* how many records the unpaged answer holds at most
          MaxPages,     \* max_pages
          MaxListingChanges  \* bound: records that join or leave

ASSUME WalkAssumption ==
    /\ Listable \subseteq Nat /\ IsFiniteSet(Listable)
    /\ {PageSize, ProbeSize, MaxPages} \subseteq Nat \ {0}

VARIABLES listing,   \* upstream
          walk,      \* the collection: [by, page, got, total, noted, status]
          throughout, joined, left  \* history, since the first request

walkVars == <<listing, walk, throughout, joined, left>>

(* How the answers of an endpoint tell what follows; "season" is the       *)
(* season's players.                                                       *)
Metadata == {"none", "next page", "pages", "results", "season"}
Unknown == -1

Place(r) == Cardinality({o \in listing : o < r})
Page(n, size) == {r \in listing : Place(r) \in (n - 1) * size .. n * size - 1}
PageCount == (Cardinality(listing) + PageSize - 1) \div PageSize

WalkInit ==
    /\ listing \in {l \in SUBSET Listable : Cardinality(l) >= PageSize}
    /\ walk = [by |-> "none", page |-> 0, got |-> {}, total |-> Unknown,
               noted |-> FALSE, status |-> "idle"]
    /\ throughout = {} /\ joined = 0 /\ left = 0

StartWalk ==
    /\ walk.status = "idle"
    /\ \E by \in Metadata :
         walk' = [walk EXCEPT !.by = by, !.status = "walking",
                              !.page = IF by = "season" THEN 0 ELSE 1]
    /\ throughout' = listing
    /\ UNCHANGED <<listing, joined, left>>

ListingChanges ==
    /\ walk.status = "walking" /\ joined + left < MaxListingChanges
    /\ \E r \in Listable :
         /\ listing' = IF r \in listing THEN listing \ {r} ELSE listing \cup {r}
         /\ throughout' = throughout \ {r}
         /\ joined' = IF r \in listing THEN joined ELSE joined + 1
         /\ left' = IF r \in listing THEN left + 1 ELSE left
    /\ UNCHANGED walk

FinishWalk(status, got) == walk' = [walk EXCEPT !.status = status, !.got = got]
Failed == walk' = [walk EXCEPT !.status = "failed"]

----------------------------------------------------------------------------
(* collect_endpoint.                                                       *)

(* Mutant of LastPage: the page count of the first answer is believed.     *)
LastPageAtFirst == (Cardinality(throughout) + PageSize - 1) \div PageSize

LastPage == PageCount

(* _next_page: 0 when this was the last.                                   *)
NextPage(got) ==
    CASE walk.by \in {"next page", "pages"} ->
           IF walk.page < LastPage THEN walk.page + 1 ELSE 0
      [] walk.by = "results" ->
           IF Cardinality(got) < Cardinality(listing) THEN walk.page + 1 ELSE 0
      [] OTHER -> 0

(* What _next_page refuses: a total that fell below the page or below what *)
(* was collected, and an empty page with records outstanding.              *)
Contradicted(got) ==
    \/ walk.by = "pages" /\ PageCount < walk.page
    \/ walk.by = "results" /\ Cardinality(listing) < Cardinality(got)
    \/ walk.by = "results" /\ Page(walk.page, PageSize) = {}
                           /\ Cardinality(got) < Cardinality(listing)

TakePage ==
    /\ walk.status = "walking" /\ walk.by # "season"
    /\ LET answer == IF walk.by = "none" THEN listing ELSE Page(walk.page, PageSize)
           got == walk.got \cup answer
           next == NextPage(got)
       IN IF walk.page > MaxPages \/ Contradicted(got) \/ (next # 0 /\ answer \subseteq walk.got)
          THEN Failed
          ELSE IF next = 0 THEN FinishWalk("published", got)
          ELSE walk' = [walk EXCEPT !.page = next, !.got = got]
    /\ UNCHANGED <<listing, throughout, joined, left>>

(* A record that cannot be read fails an endpoint's collection; a request  *)
(* that fails, any.  season_players calls what is not there unavailable.   *)
RequestFails ==
    /\ walk.status = "walking"
    /\ \/ Failed
       \/ walk.by = "season" /\ FinishWalk("unavailable", {})
    /\ UNCHANGED <<listing, throughout, joined, left>>

----------------------------------------------------------------------------
(* season_players: the records that can be read are taken, what is odd is  *)
(* noted; collect_players publishes a population with no note.             *)

TotalReconciled(got) == Cardinality(got) = walk.total

Population(got, noted) ==
    FinishWalk(IF got = {} THEN "empty"
           ELSE IF noted \/ ~TotalReconciled(got) THEN "partial" ELSE "published", got)

(* The unpaged answer: its records are kept when they are all of them.     *)
Probe ==
    /\ walk.by = "season" /\ walk.status = "walking" /\ walk.page = 0
    /\ \E unread \in {{}} \cup {{r} : r \in Page(1, ProbeSize)}, told \in BOOLEAN :
         LET got == Page(1, ProbeSize) \ unread
             noted == unread # {} \/ ~told
         IN IF ~told
            THEN FinishWalk(IF got = {} THEN "empty" ELSE "partial", got)
            ELSE walk' = [walk EXCEPT
                   !.total = Cardinality(listing), !.noted = noted,
                   !.page = 1,
                   !.got = IF Cardinality(got) < Cardinality(listing) THEN {} ELSE got]
    /\ UNCHANGED <<listing, throughout, joined, left>>

TakeSeasonPage ==
    /\ walk.by = "season" /\ walk.status = "walking" /\ walk.page > 0
    /\ IF Cardinality(walk.got) >= walk.total THEN Population(walk.got, walk.noted)
       ELSE IF walk.page > MaxPages THEN Failed
       ELSE \E unread \in {{}} \cup {{r} : r \in Page(walk.page, PageSize)}, told \in BOOLEAN :
              LET answer == Page(walk.page, PageSize)
                  got == walk.got \cup (answer \ unread)
                  noted == \/ walk.noted \/ unread # {}
                           \/ (answer \ unread) \cap walk.got # {}
                           \/ told /\ Cardinality(listing) # walk.total
              IN IF Cardinality(got) >= walk.total \/ answer = {}
                 THEN Population(got, noted)
                 ELSE walk' = [walk EXCEPT !.page = @ + 1, !.got = got, !.noted = noted]
    /\ UNCHANGED <<listing, throughout, joined, left>>

WalkNext ==
    \/ StartWalk \/ ListingChanges \/ TakePage \/ RequestFails \/ Probe \/ TakeSeasonPage

WalkSpec == WalkInit /\ [][WalkNext]_walkVars

----------------------------------------------------------------------------
(* A collection that is published holds every record that was listed all   *)
(* along.  An endpoint's pages promise it when records only joined between *)
(* them and moved the others along, a season's players when records only   *)
(* left: a player who joins after the total was read can take the place of *)
(* another when the pages do not repeat the total.                         *)
NothingSkipped ==
    /\ walk.status = "published"
    /\ IF walk.by = "season" THEN joined = 0 ELSE left = 0
    => throughout \subseteq walk.got
=============================================================================
