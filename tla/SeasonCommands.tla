---------------------------- MODULE SeasonCommands ----------------------------
(***************************************************************************)
(* The operator's commands over a whole season: --sync-afl-season          *)
(* (SeasonSynchronizer.run in afl_json/season_sync.py), which goes through *)
(* the matches one by one and audits itself, the season and each match in  *)
(* scrape_runs, and --sync-match-rosters (afl_json/roster_backfill.py),    *)
(* which goes through the rounds.  Each audit write commits on its own and *)
(* any of them may fail; the process may die anywhere.  What a match is    *)
(* decided from is the subject of SeasonSync; here every decision the      *)
(* stored facts admit can be taken.                                        *)
(***************************************************************************)
EXTENDS Naturals, FiniteSets, Functions

CONSTANTS Targets,     \* the matches, or the rounds, of the season: numbers, their order
          Unstored,    \* match ids an operator may ask for in vain
          MaxCommands  \* bound

ASSUME TargetsAssumption == Targets \subseteq Nat /\ Targets \cap Unstored = {}

VARIABLES command,   \* the command being run, in memory
          seasonRow, \* its row in scrape_runs
          targetRow, \* by match: the row the command wrote for it last
          counted,   \* matches with a completed collection that agrees with the rows
          whole,     \* matches stored whole
          sheets,    \* rounds whose matches all have their rosters stored
          commands

commandVars == <<command, seasonRow, targetRow, counted, whole, sheets, commands>>

(* asked: match ids named by the operator; left: still to be processed;    *)
(* result: what became of each; unaudited: an audit write has failed;      *)
(* stopped: the connection did not answer after that.                      *)
NoCommand == [kind |-> "none", at |-> "idle", asked |-> {}, bounded |-> FALSE,
         left |-> {}, result |-> [t \in {} |-> "none"],
         unaudited |-> FALSE, stopped |-> FALSE, outcome |-> "none"]

CommandsInit ==
    /\ command = NoCommand /\ seasonRow = "none"
    /\ targetRow = [t \in Targets |-> "none"]
    /\ counted = {} /\ whole = {} /\ sheets = {} /\ commands = 0

StandStill == UNCHANGED <<counted, whole, sheets, commands>>
NoAuditing == UNCHANGED <<seasonRow, targetRow>>

Selected == IF command.asked # {} THEN command.asked \cap Targets ELSE Targets
Current == CHOOSE t \in command.left : \A u \in command.left : t <= u

(* A command and its request; a season's sync starts with its own audit.   *)
Begun(c, row) ==
    /\ command.at \in {"idle", "ended"} /\ commands < MaxCommands
    /\ command' = c /\ seasonRow' = row
    /\ commands' = commands + 1
    /\ targetRow' = [t \in Targets |-> "none"]
    /\ UNCHANGED <<counted, whole, sheets>>

StartSync ==
    \E asked \in SUBSET (Targets \cup Unstored), bounded \in BOOLEAN :
       Begun([NoCommand EXCEPT !.kind = "statistics", !.at = "foundation",
                               !.asked = asked, !.bounded = bounded], "running")

(* Every round asked for must be one of the season's, or nothing is done.  *)
StartBackfill ==
    \E rounds \in SUBSET Targets \ {{}} :
       Begun([NoCommand EXCEPT !.kind = "rosters", !.at = "rounds",
                               !.asked = rounds, !.left = rounds], "none")

End(c, outcome) == command' = [c EXCEPT !.at = "ended", !.outcome = outcome]

(* The season's row is failed, if that can be written.                    *)
FailSeason == seasonRow' \in {seasonRow, "failed"}

(* An exception that no match answers for ends the run; when the rollback  *)
(* raises too, the exception leaves run itself.                            *)
RunRaises ==
    /\ command.at \in {"foundation", "auditing"} \/ (command.at = "matches" /\ command.left # {})
    /\ \/ End(command, "failure") /\ FailSeason
       \/ End(command, "raised")  /\ UNCHANGED seasonRow
    /\ UNCHANGED targetRow /\ StandStill

CommandDies ==
    /\ command.at \notin {"idle", "ended"}
    /\ End(command, "died")
    /\ NoAuditing /\ StandStill

(* An audit that may fail to be written, and then the connection with it.  *)
UnauditedIf(broken) == [command EXCEPT !.unaudited = TRUE, !.stopped = @ \/ broken]
Unaudited == {UnauditedIf(broken) : broken \in BOOLEAN}

----------------------------------------------------------------------------
(* The canonical season, and the matches chosen of it; a choice by rounds  *)
(* or by match may hold none, which is audited as a decision.              *)
FoundationLaid ==
    /\ command.at = "foundation"
    /\ \E chosen \in IF command.bounded THEN SUBSET Selected ELSE {Selected} :
         \E c \in {command} \cup IF chosen = {} THEN Unaudited ELSE {} :
            command' = [c EXCEPT !.at = "matches", !.left = chosen]
    /\ NoAuditing /\ StandStill

FoundationUnavailable ==
    /\ command.at = "foundation"
    /\ End(command, "failure") /\ FailSeason
    /\ UNCHANGED targetRow /\ StandStill

(* The matches or rounds that have a result by now, the current one too.   *)
WithResult(result) ==
    [t \in DOMAIN command.result \cup {Current} |->
        IF t = Current THEN result ELSE command.result[t]]

Done(c, result) == [c EXCEPT !.at = "matches", !.left = @ \ {Current},
                             !.result = WithResult(result)]

(* waiting: scheduled, live_or_postgame or future_placeholder; undecidable: *)
(* unknown_lifecycle or missing_provider_identity.                         *)
Safe == {"waiting", "already_complete", "stats_not_expected"}

(* The decisions the stored facts of a match admit; the status of a match  *)
(* that is not stored whole is left open.                                  *)
Decisions(m) ==
    IF m \in counted THEN {"already_complete"}
    ELSE IF m \in whole THEN {}
    ELSE {"waiting", "undecidable", "stats_not_expected"}

DecisionRow(m, reason) ==
    IF reason \in Safe /\ ~(reason = "waiting" /\ m \in command.asked)
    THEN "completed" ELSE "partial"

(* A match that is not collected.  The run goes on, also when its decision *)
(* could not be written and the connection does not answer.                *)
Decide ==
    /\ command.at = "matches" /\ command.left # {}
    /\ \E reason \in Decisions(Current) :
          \/ /\ command' = Done(command, reason)
             /\ targetRow' = [targetRow EXCEPT ![Current] = DecisionRow(Current, reason)]
          \/ /\ \E c \in Unaudited : command' = Done(c, reason)
             /\ UNCHANGED targetRow
    /\ UNCHANGED seasonRow /\ StandStill

(* The match detail that would settle the status cannot be had.            *)
StatusFails ==
    /\ command.at = "matches" /\ command.left # {} /\ Current \notin whole
    /\ command' = Done(command, "failed")
    /\ NoAuditing /\ StandStill

(* A match that is not settled, or any with --refresh-complete.            *)
StartMatchAudit ==
    /\ command.at = "matches" /\ command.left # {}
    /\ command' = [command EXCEPT !.at = "auditing"]
    /\ targetRow' = [targetRow EXCEPT ![Current] = "running"]
    /\ UNCHANGED seasonRow /\ StandStill

(* Collected and upserted in one transaction.  A final answer without a    *)
(* rejected record is collected, any other (unavailable, empty, partial,   *)
(* unknown) is unfinished.                                                 *)
Collections == {"collected", "unfinished"}

CollectAndUpsert ==
    /\ command.at = "auditing"
    /\ \E outcome \in Collections :
          /\ command' = [command EXCEPT !.at = "collected", !.result = WithResult(outcome)]
          /\ whole' = IF outcome = "collected" THEN whole \cup {Current} ELSE whole
    /\ UNCHANGED <<counted, sheets, commands>> /\ NoAuditing

(* The run goes on after an audit it could not write when the connection   *)
(* answers, and stops when it does not.                                    *)
AfterFailedAudit(result) ==
    \/ command' = Done(UnauditedIf(FALSE), result)
    \/ command' = [Done(UnauditedIf(TRUE), result) EXCEPT !.left = {}]

CompleteMatchAudit ==
    /\ command.at = "collected"
    /\ LET outcome == command.result[Current]
       IN \/ /\ command' = Done(command, outcome)
             /\ targetRow' = [targetRow EXCEPT ![Current] =
                                 IF outcome = "collected" THEN "completed" ELSE "partial"]
             /\ counted' = IF outcome = "collected" THEN counted \cup {Current} ELSE counted
          \/ AfterFailedAudit(outcome) /\ UNCHANGED <<targetRow, counted>>
    /\ UNCHANGED <<seasonRow, whole, sheets, commands>>

CollectionFails ==
    /\ command.at = "auditing"
    /\ \/ /\ command' = Done(command, "failed")
          /\ targetRow' = [targetRow EXCEPT ![Current] = "failed"]
       \/ AfterFailedAudit("failed") /\ UNCHANGED targetRow
    /\ UNCHANGED seasonRow /\ StandStill

----------------------------------------------------------------------------
(* The verdict.                                                            *)
Unsatisfied ==
    {m \in command.asked : m \notin DOMAIN command.result
                           \/ command.result[m] \notin (Safe \ {"waiting"}) \cup {"collected"}}

(* Mutant of Material: what could not be audited is not counted.           *)
MaterialResults(c) ==
    \/ Range(c.result) \ (Safe \cup {"collected"}) # {}
    \/ Unsatisfied # {}
    \/ (c.bounded \/ c.asked # {}) /\ DOMAIN c.result = {}

(* Anything but a match that waits, is settled or was collected, an audit  *)
(* that failed, a match asked for and not had, a bounded choice of none.   *)
Material(c) ==
    \/ Range(c.result) \ (Safe \cup {"collected"}) # {}
    \/ c.unaudited
    \/ Unsatisfied # {}
    \/ (c.bounded \/ c.asked # {}) /\ DOMAIN c.result = {}

(* A run stopped for safety leaves its row as it is.  Otherwise the        *)
(* matches asked for in vain are audited and the row is completed, which   *)
(* may fail: a success is then a partial one.                              *)
FinishRun ==
    /\ command.at = "matches" /\ command.left = {}
    /\ IF command.stopped THEN End(command, "failure") /\ UNCHANGED seasonRow
       ELSE \E c \in {command} \cup IF command.asked \subseteq DOMAIN command.result THEN {} ELSE Unaudited :
              \/ /\ End(c, IF Material(c) THEN "partial" ELSE "success")
                 /\ seasonRow' = IF Material(c) THEN "partial" ELSE "completed"
              \/ End([c EXCEPT !.unaudited = TRUE], "partial") /\ UNCHANGED seasonRow
    /\ UNCHANGED targetRow /\ StandStill

----------------------------------------------------------------------------
(* sync_match_rosters: each round on its own.                              *)
RoundOutcomes == {"published", "unpublished", "failed"}

(* A published round is stored in one transaction, without the teams that  *)
(* are not known here; a match that is not known, a round without identity *)
(* and a request or write that fails are failures.  One that is            *)
(* unavailable or empty leaves what is stored.                             *)
BackfillRound ==
    /\ command.at = "rounds" /\ command.left # {}
    /\ \E outcome \in RoundOutcomes :
          /\ command' = [command EXCEPT !.left = @ \ {Current},
                                        !.result = WithResult(outcome)]
          /\ sheets' = IF outcome = "published" THEN sheets \cup {Current} ELSE sheets
    /\ UNCHANGED <<counted, whole, commands>> /\ NoAuditing

FinishBackfill ==
    /\ command.at = "rounds" /\ command.left = {}
    /\ End(command, IF Range(command.result) = {"published"} THEN "success"
                    ELSE IF "published" \in Range(command.result) THEN "partial" ELSE "failure")
    /\ NoAuditing /\ StandStill

CommandsNext ==
    \/ StartSync \/ StartBackfill \/ RunRaises \/ CommandDies
    \/ FoundationLaid \/ FoundationUnavailable
    \/ Decide \/ StatusFails \/ StartMatchAudit \/ CollectAndUpsert
    \/ CompleteMatchAudit \/ CollectionFails \/ FinishRun
    \/ BackfillRound \/ FinishBackfill

CommandsSpec == CommandsInit /\ [][CommandsNext]_commandVars

----------------------------------------------------------------------------
(* What the command line ends with exit code 0 for.                        *)
Succeeded == command.at = "ended" /\ command.outcome = "success"

(* The exit code and the audits tell the same: a command ends with 0 only  *)
(* when everything it was to process was dealt with and is stored, with a  *)
(* completed audit of its own for every match, and the audit of a season's *)
(* sync is completed then and only then; writes of audits that failed,     *)
(* matches asked for in vain and empty choices never pass for a success.   *)
SuccessIsEarned ==
    /\ command.at = "ended" /\ command.kind = "statistics" => (Succeeded <=> seasonRow = "completed")
    /\ Succeeded /\ command.kind = "rosters" => command.asked \subseteq sheets
    /\ Succeeded /\ command.kind = "statistics" =>
         /\ command.asked \subseteq DOMAIN command.result
         /\ command.bounded \/ Selected \subseteq DOMAIN command.result
         /\ \A m \in DOMAIN command.result :
               /\ targetRow[m] = "completed"
               /\ \/ command.result[m] = "waiting" /\ m \notin command.asked
                  \/ command.result[m] = "stats_not_expected"
                  \/ m \in whole
=============================================================================
