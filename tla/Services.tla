------------------------------- MODULE Services -------------------------------
(***************************************************************************)
(* The services around the polling and the match feeds, side by side.      *)
(* Each module brings the other writers of its own tables along, and no    *)
(* two of them have a variable in common, but for the season's report and  *)
(* summaries, which read the same tables and move together.  Interleaving  *)
(* the modules would multiply their states and show nothing more, so a     *)
(* behaviour follows one of them, chosen at the start, and the others      *)
(* stand still.                                                            *)
(***************************************************************************)
EXTENDS WriteLane, JobRegistry, TokenPool, Analytics, Migrations, SeasonSync,
        PlayerIdentity, Injuries, EvidenceCapture, PageWalk, Reads, StatHistory,
        SeasonSummaries, SeasonReport, CurrentSeason, StatsPro, SeasonCommands

VARIABLE followed

Parts == {"lane", "jobs", "tokens", "analytics", "migrations", "sync", "identity", "injuries",
          "evidence", "pages", "reads", "history", "summaries", "report", "marker",
          "published", "commands"}

servicesVars == <<followed, laneVars, jobVars, tokenVars, analyticsVars, migrationVars,
                  syncVars, identityVars, injuryVars, evidenceVars, walkVars, readVars,
                  historyVars, summaryVars, reportVars, seasonVars, proVars, commandVars>>

ServicesInit ==
    /\ followed \in Parts
    /\ LaneInit /\ JobInit /\ TokenInit /\ AnalyticsInit /\ MigrationInit
    /\ SyncInit /\ IdentityInit /\ InjuryInit /\ EvidenceInit /\ WalkInit
    /\ ReadsInit /\ HistoryInit /\ SummaryInit /\ ReportInit /\ SeasonInit
    /\ ProInit /\ CommandsInit
    /\ followed # "evidence" => profile = "commentary"
    /\ followed # "pages"    => listing = Listable
    /\ followed # "history"  => line = NoLine
    /\ followed # "marker"   => NothingSaid

OthersStand ==
    /\ UNCHANGED followed
    /\ followed # "lane"       => UNCHANGED laneVars
    /\ followed # "jobs"       => UNCHANGED jobVars
    /\ followed # "tokens"     => UNCHANGED tokenVars
    /\ followed # "analytics"  => UNCHANGED analyticsVars
    /\ followed # "migrations" => UNCHANGED migrationVars
    /\ followed # "sync"       => UNCHANGED syncVars
    /\ followed # "identity"   => UNCHANGED identityVars
    /\ followed # "injuries"   => UNCHANGED injuryVars
    /\ followed # "evidence"   => UNCHANGED evidenceVars
    /\ followed # "pages"      => UNCHANGED walkVars
    /\ followed # "reads"      => UNCHANGED readVars
    /\ followed # "history"    => UNCHANGED historyVars
    /\ followed \notin {"summaries", "report"} => UNCHANGED summaryVars
    /\ followed # "report"    => UNCHANGED reportVars
    /\ followed # "marker"    => UNCHANGED seasonVars
    /\ followed # "published" => UNCHANGED proVars
    /\ followed # "commands"  => UNCHANGED commandVars

ServicesNext ==
    \/ followed = "lane"       /\ LaneNext        /\ OthersStand
    \/ followed = "jobs"       /\ JobNext         /\ OthersStand
    \/ followed = "tokens"     /\ TokenNext       /\ OthersStand
    \/ followed = "analytics"  /\ AnalyticsNext   /\ OthersStand
    \/ followed = "migrations" /\ MigrationNext   /\ OthersStand
    \/ followed = "sync"       /\ SyncNext        /\ OthersStand
    \/ followed = "identity"   /\ IdentityNext    /\ OthersStand
    \/ followed = "injuries"   /\ CollectInjuries /\ OthersStand
    \/ followed = "evidence"   /\ EvidenceNext    /\ OthersStand
    \/ followed = "pages"      /\ WalkNext        /\ OthersStand
    \/ followed = "reads"      /\ ReadsNext       /\ OthersStand
    \/ followed = "history"    /\ HistoryNext     /\ OthersStand
    \/ followed = "summaries"  /\ SummaryNext     /\ OthersStand
    \/ followed = "report"     /\ ReportNext      /\ OthersStand
    \/ followed = "marker"     /\ SeasonNext      /\ OthersStand
    \/ followed = "published"  /\ ProNext         /\ OthersStand
    \/ followed = "commands"   /\ CommandsNext    /\ OthersStand

ServicesSpec ==
    /\ ServicesInit /\ [][ServicesNext]_servicesVars
    /\ followed = "lane" => LaneFairness
=============================================================================
