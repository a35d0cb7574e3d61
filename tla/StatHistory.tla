------------------------------ MODULE StatHistory ------------------------------
(***************************************************************************)
(* One statistic of one player: the canonical row, the append-only history *)
(* of its changes and the sparse checkpoints, all kept by                  *)
(* upsert_player_stats (afl_json/player_stats.py) in the transaction that  *)
(* stores the row.  The poller, the season synchronisation and one-shot    *)
(* collections fetch side by side and store later, in any order.           *)
(***************************************************************************)
EXTENDS Naturals, Sequences

CONSTANTS Writers,     \* who fetches and stores statistics
          Numbers,     \* its values that are numbers
          MaxFetches   \* bound on the responses, which are numbered in time

ASSUME StatHistoryAssumption == MaxFetches \in Nat

VARIABLES fetches,      \* how many responses were fetched, the clock of collected_at
          carried,      \* carried[w]: what w fetched and has not stored yet
          line,         \* the row of cfs_player_stats
          changes,      \* cfs_player_stat_history, oldest first
          checkpoints   \* cfs_player_stat_checkpoints, by marker

historyVars == <<fetches, carried, line, changes, checkpoints>>

Null == "NULL"
Markers == {"BASELINE", "FT", "CONCLUDED"}

(* What a response says of the statistic: a number, nothing, or something  *)
(* that is no number.                                                      *)
Readings == Numbers \cup {"absent", "garbled"}

NoLine == [reading |-> "absent", authority |-> 0, at |-> 0]
NoCheckpoint == [value |-> Null, authority |-> 0, at |-> 0]
NothingCarried == [reading |-> "absent", authority |-> 0, period |-> "UNKNOWN", at |-> 0]

(* The value stored of a reading: the normaliser stores NULL for what is   *)
(* no number as for what is not there.                                     *)
ValueOf(reading) == IF reading \in Numbers THEN reading ELSE Null

(* The row may be older than the tables of the history.                    *)
HistoryInit ==
    /\ fetches = 0 /\ changes = <<>>
    /\ carried = [w \in Writers |-> NothingCarried]
    /\ line \in {NoLine} \cup [reading : Readings, authority : {1, 2}, at : {0}]
    /\ checkpoints = [k \in Markers |-> NoCheckpoint]

Held(l) == l.authority > 0

(* MatchPlayerStatsCollector.collect, and the period looked up after it.   *)
Fetch(w) ==
    /\ carried[w] = NothingCarried /\ fetches < MaxFetches
    /\ fetches' = fetches + 1
    /\ \E reading \in Readings, authority \in {1, 2}, period \in {"FT", "UNKNOWN"} :
          carried' = [carried EXCEPT ![w] =
              [reading |-> reading, authority |-> authority, period |-> period, at |-> fetches + 1]]
    /\ UNCHANGED <<line, changes, checkpoints>>

----------------------------------------------------------------------------
(* _is_at_least_as_authoritative, the guard of the upsert without the      *)
(* comparison of the columns.                                              *)
AtLeastAsGood(o, held) ==
    \/ o.authority > held.authority
    \/ o.authority = held.authority /\ o.at >= held.at

(* The reading stands for raw_player_json, the authority for the status.   *)
Admitted(o) ==
    /\ AtLeastAsGood(o, line)
    /\ o.authority > line.authority \/ o.reading # line.reading

(* Mutant of LastRecorded: the row is asked instead of the history.        *)
LastRecordedInRow == ValueOf(line.reading)

(* _last_recorded_value: the history, then the baseline, then the row.     *)
LastRecorded ==
    IF changes # <<>> THEN changes[Len(changes)].new
    ELSE IF Held(checkpoints["BASELINE"]) THEN checkpoints["BASELINE"].value
    ELSE ValueOf(line.reading)

Recorded(o) ==
    IF \/ ~Admitted(o) \/ ~Held(line) \/ o.reading = "garbled"
       \/ LastRecorded = ValueOf(o.reading)
    THEN changes
    ELSE Append(changes, [previous |-> LastRecorded, new |-> ValueOf(o.reading)])

MarkersOf(o) ==
    {k \in Markers : \/ k = "BASELINE" /\ ~Held(line)
                     \/ k = "FT" /\ o.period = "FT"
                     \/ k = "CONCLUDED" /\ o.authority = 2}

(* _upsert_checkpoint: the better snapshot, or the newer one if it differs. *)
Checked(o, held) ==
    IF AtLeastAsGood(o, held)
       /\ (o.authority > held.authority \/ ValueOf(o.reading) # held.value)
    THEN [value |-> ValueOf(o.reading), authority |-> o.authority, at |-> o.at] ELSE held

(* upsert_player_stats: a checkpoint is due also when the row is the same. *)
StoreLine(w) ==
    LET o == carried[w]
    IN /\ o # NothingCarried
       /\ changes' = Recorded(o)
       /\ checkpoints' = IF AtLeastAsGood(o, line)
                         THEN [k \in Markers |-> IF k \in MarkersOf(o) THEN Checked(o, checkpoints[k])
                                                 ELSE checkpoints[k]]
                         ELSE checkpoints
       /\ line' = IF Admitted(o) THEN [reading |-> o.reading, authority |-> o.authority, at |-> o.at]
                  ELSE line
       /\ carried' = [carried EXCEPT ![w] = NothingCarried]
       /\ UNCHANGED fetches

(* The connection fails, or the lease was lost: the transaction is rolled  *)
(* back as a whole.                                                        *)
Lose(w) ==
    /\ carried[w] # NothingCarried
    /\ carried' = [carried EXCEPT ![w] = NothingCarried]
    /\ UNCHANGED <<fetches, line, changes, checkpoints>>

HistoryNext == \E w \in Writers : Fetch(w) \/ StoreLine(w) \/ Lose(w)

HistorySpec == HistoryInit /\ [][HistoryNext]_historyVars

----------------------------------------------------------------------------
(* The history replays: from the baseline, each change starts at the value *)
(* the one before it ended with, and the last one ends with what the row   *)
(* says, unless the row's last reading was no number.  So neither a        *)
(* garbled poll nor a late response leaves a change that nobody observed.  *)
HistoryReplays ==
    /\ \A i \in 1 .. Len(changes) - 1 : changes[i].new = changes[i + 1].previous
    /\ Held(checkpoints["BASELINE"]) /\ changes # <<>>
       => changes[1].previous = checkpoints["BASELINE"].value
    /\ Held(line) /\ line.reading # "garbled" => LastRecorded = ValueOf(line.reading)
=============================================================================
