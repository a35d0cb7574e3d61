--------------------------- MODULE MCPollingSeries ---------------------------
(* Small instances of PollingSeries for TLC. *)
EXTENDS PollingSeries

CONSTANTS h1, a1

MCHome == {h1}
=============================================================================
