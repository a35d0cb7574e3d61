---------------------------- MODULE PlayerIdentity ----------------------------
(***************************************************************************)
(* The canonical players and their provider identifiers                    *)
(* (afl_json/player_persistence.py).  A snapshot of a season's players is  *)
(* persisted in one transaction, entry by entry, each entry seeing what    *)
(* the earlier ones wrote; an entry that contradicts the crosswalk undoes  *)
(* the whole snapshot.                                                     *)
(***************************************************************************)
EXTENDS Integers, Sequences, SequencesExt

CONSTANTS ChampionIds, AflIds,  \* identifiers of the two providers
          Seasons,
          Teams,
          MaxPlayers,           \* bound: canonical players
          MaxEntries            \* bound: entries of a snapshot

VARIABLES crosswalk,  \* player_provider_ids: the player of each identifier
          players,    \* canonical_players: how many there are
          member,     \* competition_season_players: the team stored
          linked      \* the teams of each season that resolve

identityVars == <<crosswalk, players, member, linked>>

NoPlayer == 0
NoAfl == "none"
NoTeam == "no team"
NotMember == "not a member"
ASSUME IdentityAssumption ==
    /\ ChampionIds \cap AflIds = {} /\ NoAfl \notin ChampionIds \cup AflIds
    /\ {NoTeam, NotMember} \cap Teams = {} /\ MaxEntries \in Nat

Ids == ChampionIds \cup AflIds
PlayerIds == 1 .. MaxPlayers

IdentityInit ==
    /\ crosswalk = [i \in Ids |-> NoPlayer]
    /\ players = 0
    /\ member = [a \in PlayerIds \X Seasons |-> NotMember]
    /\ linked = [s \in Seasons |-> {}]

(* What PlayerCollectionResult holds: one entry per Champion Data          *)
(* identifier.                                                             *)
Entries == [champion : ChampionIds, afl : AflIds \cup {NoAfl}, team : Teams \cup {NoTeam}]
Snapshots ==
    {s \in BoundedSeq(Entries, MaxEntries) :
        \A i, j \in DOMAIN s : s[i].champion = s[j].champion => i = j}

----------------------------------------------------------------------------
(* One entry, in the database as the transaction sees it.                  *)
Database == [crosswalk |-> crosswalk, players |-> players, member |-> member, ok |-> TRUE]

IdsOf(entry) == {entry.champion, entry.afl} \ {NoAfl}
ResolvedTo(data, entry) == {data.crosswalk[i] : i \in IdsOf(entry)} \ {NoPlayer}

SameProvider(i, j) == i \in ChampionIds <=> j \in ChampionIds
OwnsAnother(data, p, i) == \E j \in Ids \ {i} : SameProvider(i, j) /\ data.crosswalk[j] = p

(* The canonical player: the one that is known, or a new one.              *)
PlayerFor(data, entry) ==
    IF ResolvedTo(data, entry) = {} THEN data.players + 1
    ELSE CHOOSE p \in ResolvedTo(data, entry) : TRUE

Conflict(data, entry) ==
    \/ \E p, q \in ResolvedTo(data, entry) : p # q
    \/ \E i \in IdsOf(entry) : OwnsAnother(data, PlayerFor(data, entry), i)

(* Mutant of TeamAfter: a team that does not resolve clears what is stored. *)
TeamAsSeen(old, entry, season) ==
    IF entry.team \in linked[season] THEN entry.team ELSE NoTeam

TeamAfter(old, entry, season) ==
    IF entry.team \in linked[season] THEN entry.team
    ELSE IF old = NotMember THEN NoTeam ELSE old

PersistIdentity(data, entry, season) ==
    IF ~data.ok \/ Conflict(data, entry) THEN [data EXCEPT !.ok = FALSE]
    ELSE LET p == PlayerFor(data, entry) IN
         [crosswalk |-> [i \in Ids |-> IF i \in IdsOf(entry) THEN p ELSE data.crosswalk[i]],
          players   |-> IF p > data.players THEN p ELSE data.players,
          member    |-> [data.member EXCEPT ![<<p, season>>] = TeamAfter(@, entry, season)],
          ok        |-> TRUE]

PersistSeason(snapshot, season) ==
    LET persisted[n \in 0 .. Len(snapshot)] ==
            IF n = 0 THEN Database ELSE PersistIdentity(persisted[n - 1], snapshot[n], season)
    IN persisted[Len(snapshot)]

(* A snapshot that conflicts, or whose transaction fails, changes nothing. *)
PersistSnapshot(snapshot, season) ==
    /\ players + Len(snapshot) <= MaxPlayers
    /\ LET data == PersistSeason(snapshot, season) IN
       /\ data.ok
       /\ crosswalk' = data.crosswalk /\ players' = data.players /\ member' = data.member
    /\ UNCHANGED linked

(* The metadata refresh links a team to the season.                        *)
LinkTeam(season) ==
    /\ \E t \in Teams \ linked[season] : linked' = [linked EXCEPT ![season] = @ \cup {t}]
    /\ UNCHANGED <<crosswalk, players, member>>

IdentityNext ==
    \E season \in Seasons :
       LinkTeam(season) \/ \E snapshot \in Snapshots : PersistSnapshot(snapshot, season)

IdentitySpec == IdentityInit /\ [][IdentityNext]_identityVars

----------------------------------------------------------------------------
OneIdPerProvider ==
    \A i, j \in Ids : crosswalk[i] = crosswalk[j] /\ SameProvider(i, j) /\ i # j
                         => crosswalk[i] = NoPlayer

(* Whatever order snapshots and links arrive in, an identifier never moves *)
(* to another player, a player never gets a second identifier of a         *)
(* provider, and a season membership never loses a team it once resolved,  *)
(* although snapshots keep coming that do not name it.                     *)
IdentityStable ==
    [][/\ \A i \in Ids : crosswalk[i] # NoPlayer => crosswalk'[i] = crosswalk[i]
       /\ OneIdPerProvider'
       /\ \A p \in PlayerIds, s \in Seasons : member[p, s] \in Teams => member'[p, s] \in Teams
      ]_identityVars
=============================================================================
