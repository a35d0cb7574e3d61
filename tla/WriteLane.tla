------------------------------ MODULE WriteLane ------------------------------
(***************************************************************************)
(* The scheduler's serial write lane (scheduler/write_lane.py) and the     *)
(* shutdown that drains it (scheduler/start.py).  Jobs and requests enter  *)
(* the lane from their threads; one at a time holds the lock and runs a    *)
(* transaction.  The counters that drain() waits for are kept under a      *)
(* condition of their own, so a thread passes through moments in which it  *)
(* holds the lock but is still counted as pending, or is counted as active *)
(* but has not reached the try block whose finally takes it off again.     *)
(*                                                                         *)
(* The signal handler drains on the main thread.  During startup the main  *)
(* thread uses the lane itself: it is then frozen wherever it was, and a   *)
(* drain that times out raises through that place.                         *)
(***************************************************************************)
EXTENDS Integers, FiniteSets

CONSTANTS Threads,      \* the threads that call execute()
          Main,         \* the thread that runs the signal handler
          MaxCalls,     \* bound: calls of a thread
          MaxDrains     \* bound: drains (handler, except clause, finally)

VARIABLES lane,         \* the lane's fields, the lock included
          thread,       \* where each thread is, and its thread-local guard
          shutdown      \* [phase, drains] of the main thread's shutdown

laneVars == <<lane, thread, shutdown>>

NoThread == "none"
ASSUME NoThreadAssumption == NoThread \notin Threads

Steps == {"idle", "queued", "claimed", "counted", "active", "finished", "settled"}

LaneInit ==
    /\ lane = [accepting |-> TRUE, pending |-> 0, active |-> 0, holder |-> NoThread]
    /\ thread = [t \in Threads |-> [at |-> "idle", guard |-> FALSE, calls |-> 0]]
    /\ shutdown = [phase |-> "none", drains |-> 0]

At(t, step) == thread[t].at = step
Goes(t, step) == thread' = [thread EXCEPT ![t].at = step]

(* The main thread does nothing of its own while it drains, and never      *)
(* comes back from the handler.                                            *)
MayRun(t) == t = Main => shutdown.phase = "none"

----------------------------------------------------------------------------
(* The guard refuses a call made from inside a callback.                   *)
NestedRefused(t) == thread[t].guard

Queue(t) ==
    /\ lane' = [lane EXCEPT !.pending = @ + 1]
    /\ Goes(t, "queued")

Enter(t) ==
    /\ MayRun(t) /\ At(t, "idle") /\ lane.accepting
    /\ thread[t].calls < MaxCalls /\ ~NestedRefused(t)
    /\ lane' = [lane EXCEPT !.pending = @ + 1]
    /\ thread' = [thread EXCEPT ![t].at = "queued", ![t].calls = @ + 1]
    /\ UNCHANGED shutdown

(* A callback that calls execute() again: refused, and its own transaction *)
(* fails with the refusal; refused as well by a lane that is draining.     *)
EnterNested(t) ==
    /\ MayRun(t) /\ At(t, "active")
    /\ IF NestedRefused(t) \/ ~lane.accepting
       THEN Goes(t, "finished") /\ UNCHANGED lane
       ELSE Queue(t)
    /\ UNCHANGED shutdown

Claim(t) ==
    /\ MayRun(t) /\ At(t, "queued") /\ lane.holder = NoThread
    /\ lane' = [lane EXCEPT !.holder = t]
    /\ Goes(t, "claimed")
    /\ UNCHANGED shutdown

Count(t) ==
    /\ MayRun(t) /\ At(t, "claimed")
    /\ lane' = [lane EXCEPT !.pending = @ - 1, !.active = @ + 1]
    /\ Goes(t, "counted")
    /\ UNCHANGED shutdown

Activate(t) ==
    /\ MayRun(t) /\ At(t, "counted")
    /\ thread' = [thread EXCEPT ![t].at = "active", ![t].guard = TRUE]
    /\ UNCHANGED <<lane, shutdown>>

(* The callback returns and the transaction commits, or it raises and the  *)
(* transaction is rolled back.                                             *)
Finish(t) ==
    /\ MayRun(t) /\ At(t, "active")
    /\ Goes(t, "finished")
    /\ UNCHANGED <<lane, shutdown>>

(* The finally block, after the connection is closed.                      *)
Settle(t) ==
    /\ MayRun(t) /\ At(t, "finished")
    /\ thread' = [thread EXCEPT ![t].at = "settled", ![t].guard = FALSE]
    /\ lane' = [lane EXCEPT !.active = @ - 1]
    /\ UNCHANGED shutdown

Release(t) ==
    /\ MayRun(t) /\ At(t, "settled")
    /\ lane' = [lane EXCEPT !.holder = NoThread]
    /\ Goes(t, "idle")
    /\ UNCHANGED shutdown

----------------------------------------------------------------------------
(* Mutant of Quiet: waits for the running transaction only.                *)
QuietActive == lane.active = 0

Quiet == lane.active = 0 /\ lane.pending = 0

BeginDrain ==
    /\ shutdown.phase # "draining" /\ shutdown.drains < MaxDrains
    /\ lane' = [lane EXCEPT !.accepting = FALSE]
    /\ shutdown' = [phase |-> "draining", drains |-> shutdown.drains + 1]
    /\ UNCHANGED thread

(* What an exception out of the handler leaves of the main thread's call:  *)
(* the lock and, inside the try block, the counter are given back; a call  *)
(* that was queued, or counted outside the try block, stays counted.       *)
HoldsLock(t) == lane.holder = t
InTry(t) == thread[t].at \in {"active", "finished"}

Unwound ==
    /\ thread' = [thread EXCEPT ![Main].at = "idle", ![Main].guard = FALSE]
    /\ lane' = [lane EXCEPT !.holder = IF HoldsLock(Main) THEN NoThread ELSE @,
                            !.active = IF InTry(Main) THEN @ - 1 ELSE @]

Unwind == IF Main \in Threads THEN Unwound ELSE UNCHANGED <<lane, thread>>

(* The handler raises KeyboardInterrupt when it is done.                   *)
Drained ==
    /\ shutdown.phase = "draining" /\ Quiet
    /\ shutdown' = [shutdown EXCEPT !.phase = "drained"]
    /\ Unwind

TimeOut ==
    /\ shutdown.phase = "draining" /\ ~Quiet
    /\ shutdown' = [shutdown EXCEPT !.phase = "timed out"]
    /\ Unwind

----------------------------------------------------------------------------
LaneStep ==
    \E t \in Threads : Claim(t) \/ Count(t) \/ Activate(t) \/ Finish(t) \/ Settle(t) \/ Release(t)

LaneCall == \E t \in Threads : Enter(t) \/ EnterNested(t)

LaneNext == LaneStep \/ LaneCall \/ BeginDrain \/ Drained \/ TimeOut

(* Threads run on, and drain() has a timeout.  Nobody has to call.         *)
LaneFairness == WF_laneVars(LaneStep) /\ WF_laneVars(Drained \/ TimeOut)

LaneSpec == LaneInit /\ [][LaneNext]_laneVars /\ LaneFairness

----------------------------------------------------------------------------
Outside == {"idle", "settled"}

(* When a drain has returned TRUE no thread is inside the lane, not even   *)
(* one that has queued or taken the lock and is not yet counted as active: *)
(* nothing is written to the database after the shutdown said so.          *)
DrainedIsQuiet ==
    shutdown.phase = "drained" => \A t \in Threads : thread[t].at \in Outside

(* From the moment the lane stops accepting, every thread gets out of it:  *)
(* a callback that calls the lane again does not wait for itself, and the  *)
(* main thread is not stuck behind its own drain.                          *)
LaneEmpties == ~lane.accepting ~> \A t \in Threads : thread[t].at = "idle"

(* The lane is closed in an orderly way: empty in the end, and quiet once  *)
(* it has been declared drained.                                           *)
ClosesInOrder == [][DrainedIsQuiet']_laneVars /\ LaneEmpties
=============================================================================
