--------------------------- MODULE MatchLifecycle ---------------------------
(* The lifecycle of a match as afl_json/match_status.py orders it.  A stored  *)
(* status is free text: only the four members of MatchLifecycle and their     *)
(* aliases are recognised, anything else normalises to None.                  *)
EXTENDS Integers

None == "none"

Lifecycle == {"SCHEDULED", "LIVE", "POSTGAME", "CONCLUDED"}

\* Statuses upstream is known to send beside the lifecycle, and one it is not.
Aliases    == {"COMPLETED", "FINAL"}
Suspended  == {"POSTPONED", "DELAYED"}
CalledOff  == {"CANCELLED", "CANCELED", "ABANDONED"}
RawStatus  == Lifecycle \cup Aliases \cup Suspended \cup CalledOff \cup {"UNRECOGNISED"}

Rank == [s \in Lifecycle |->
           CASE s = "SCHEDULED" -> 1 [] s = "LIVE" -> 2
             [] s = "POSTGAME"  -> 3 [] s = "CONCLUDED" -> 4]

Normalise(raw) ==
  IF raw \in Aliases THEN "CONCLUDED" ELSE IF raw \in Lifecycle THEN raw ELSE None

\* The later of two statuses, ignoring what is not recognised.
Later(left, right) ==
  LET l == Normalise(left)
      r == Normalise(right)
  IN  IF l = None THEN r
      ELSE IF r = None THEN l
      ELSE IF Rank[r] > Rank[l] THEN r ELSE l

\* A direct match-detail status moves the stored one only forwards.
Advances(stored, direct) == direct \in Lifecycle /\ Later(stored, direct) = direct
                                                 /\ Normalise(stored) # direct
=============================================================================
