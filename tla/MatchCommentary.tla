---------------------------- MODULE MatchCommentary ----------------------------
(***************************************************************************)
(* Persistence of the commentaryFeed endpoint                              *)
(* (afl_json/match_commentary.py).  The feed is the accumulated list of    *)
(* commentary, newest first, without identifiers: an event is its slot     *)
(* (period, second, player, team, score flag) and its text, and the pair   *)
(* is the fingerprint that deduplicates it.  The upstream feed may replace *)
(* the text of a slot; the stored rows keep both, the later one linked to  *)
(* the earlier as its possible edit.                                       *)
(***************************************************************************)
EXTENDS Naturals, SequencesExt

CONSTANTS Slots, PlayerSlots, Texts    \* PlayerSlots: the slots naming a player

ASSUME SlotAssumption == PlayerSlots \subseteq Slots

Event == [slot: Slots, text: Texts]

NoEdit == 0

(* match_commentary_events, in the order of their ids.                     *)
RowOf(rows, e) == {i \in DOMAIN rows : rows[i].event = e}
InSlot(rows, s) == {i \in DOMAIN rows : rows[i].event.slot = s}

Latest(S) == CHOOSE i \in S : \A j \in S : j <= i
Earliest(S) == CHOOSE i \in S : \A j \in S : i <= j

(* Mutant of EditOf: links to the oldest row instead.                      *)
EditOfFirst(rows, e) ==
    IF e.slot \in PlayerSlots /\ InSlot(rows, e.slot) # {}
    THEN Earliest(InSlot(rows, e.slot)) ELSE NoEdit

(* The row a new event may be an edit of: the latest row of its slot, and  *)
(* only when the slot names a player.                                      *)
EditOf(rows, e) ==
    IF e.slot \in PlayerSlots /\ InSlot(rows, e.slot) # {}
    THEN Latest(InSlot(rows, e.slot)) ELSE NoEdit

(* One event of the feed: a known fingerprint is only marked as seen, a    *)
(* new one becomes a row, visible to the rest of the same feed.            *)
StoreEvent(rows, e, poll) ==
    IF RowOf(rows, e) # {}
    THEN [rows EXCEPT ![Latest(RowOf(rows, e))].seen = poll]
    ELSE Append(rows, [event |-> e, edit |-> EditOf(rows, e), seen |-> poll])


(* One poll that was answered; MAX(poll_sequence) + 1 is the next number.  *)
PersistFeed(db, feed, status, now) ==
    LET poll == db.polls + 1
        stored[n \in 0 .. Len(feed)] ==
            IF n = 0 THEN db.rows ELSE StoreEvent(stored[n - 1], feed[n], poll)
    IN [rows   |-> stored[Len(feed)],
        polls  |-> poll,
        active |-> IF status \in {"LIVE", "POSTGAME"} THEN now ELSE db.active]

(* One poll that was not, whatever the reason.                             *)
PersistOutcome(db, status, now) ==
    [rows   |-> db.rows,
     polls  |-> db.polls + 1,
     active |-> IF status \in {"LIVE", "POSTGAME"} THEN now ELSE db.active]

(* The last poll that saw the match in play is at most Grace ticks old.    *)
Never == 0
RecentlyActive(db, now, Grace) == db.active # Never /\ now - db.active <= Grace

=============================================================================
