----------------------------- MODULE JobRegistry -----------------------------
(***************************************************************************)
(* The scheduler's job registry (scheduler/registry.py) beside the memory  *)
(* job store of APScheduler.  A table row says what became of a job; only  *)
(* the store makes it run, and a restart empties it.  Startup registers    *)
(* the jobs of the fixture again and reconciles the rows it finds; a run   *)
(* marks its row in the write lane; requests register manual jobs, run,    *)
(* delete and refresh jobs while others run.                               *)
(***************************************************************************)
EXTENDS Integers, FiniteSets

CONSTANTS Fixtures,   \* date jobs planned from the matches table
          Manuals,    \* identifiers of manual jobs, all of one target
          MaxTick,    \* bound: the clock
          MaxChanges, \* bound: changes of the fixture
          MaxByHand,\* bound: requests to run, delete or refresh
          MaxStops    \* bound: crashes and stops

Jobs == Fixtures \cup Manuals
Dates == 1 .. MaxTick + 1
NoDate == 0
NoJobRow == [status |-> "none", date |-> NoDate]
NotStored == [date |-> NoDate, byHand |-> FALSE]

VARIABLES ticks,      \* the clock
          plan,       \* the matches table: [date, status] per fixture job
          row,        \* scheduler_job_registry
          store,      \* APScheduler's memory job store
          run,        \* executions: "no", "submitted", "marked"
          boot,       \* [stage, todo, adding, errors] of a registration
          request,    \* manual requests: "none", "checked", "done"
          fired,      \* how often a date of a job was fired by its schedule
          spent       \* [changes, requests, stops], the bounds

jobVars == <<ticks, plan, row, store, run, boot, request, fired, spent>>

NoJob == "none"
ASSUME NoJobAssumption == NoJob \notin Jobs
ASSUME TickAssumption == MaxTick \in Nat \ {0}

Down == [stage |-> "down", todo |-> {}, adding |-> NoJob, errors |-> {}]
Up == [Down EXCEPT !.stage = "up"]
Nothing == /\ store' = [j \in Jobs |-> NotStored]
           /\ run' = [j \in Jobs |-> "no"]

JobInit ==
    /\ ticks = 1
    /\ plan = [j \in Fixtures |-> [date |-> 2, status |-> "UPCOMING"]]
    /\ row = [j \in Jobs |-> NoJobRow]
    /\ store = [j \in Jobs |-> NotStored]
    /\ run = [j \in Jobs |-> "no"]
    /\ boot = Down
    /\ request = [m \in Manuals |-> "none"]
    /\ fired = [j \in Jobs |-> [d \in Dates |-> 0]]
    /\ spent = [changes |-> 0, requests |-> 0, stops |-> 0]

Serving == boot.stage = "up"
InStore(j) == store[j] # NotStored

----------------------------------------------------------------------------
(* Registration.  The row first: what succeeded or failed keeps its status *)
(* whatever the new date is.                                               *)
UpsertedRow(old, date) ==
    [status |-> IF old.status \in {"succeeded", "failed"} THEN old.status ELSE "pending",
     date   |-> date]

SkippedRow(old) ==
    IF old.status = "succeeded" THEN old ELSE [old EXCEPT !.status = "skipped"]

Past(date) == date < ticks

(* Then the store, in a transaction of its own when there is nothing to do *)
(* any more.                                                               *)
AddOrSkip ==
    /\ boot.adding # NoJob
    /\ boot' = [boot EXCEPT !.adding = NoJob]
    /\ LET j == boot.adding IN
       IF Past(row[j].date)
       THEN /\ row' = [row EXCEPT ![j] = SkippedRow(@)]
            /\ UNCHANGED store
       ELSE /\ store' = [store EXCEPT ![j] = [date |-> row[j].date, byHand |-> FALSE]]
            /\ UNCHANGED row
    /\ UNCHANGED <<ticks, plan, run, request, fired, spent>>

(* One fixture job of the registration that is going on: planned at its    *)
(* date, or recorded as a planning failure, or over.                       *)
RegisterFixture(j) ==
    /\ boot.adding = NoJob /\ boot.stage \in {"fixtures", "up"} /\ j \in boot.todo
    /\ CASE plan[j].status = "over" ->
              boot' = [boot EXCEPT !.todo = @ \ {j}] /\ UNCHANGED row
         [] plan[j].status # "over" /\ plan[j].date = NoDate ->
              /\ row' = [row EXCEPT ![j] = [status |-> "failed", date |-> NoDate]]
              /\ boot' = [boot EXCEPT !.todo = @ \ {j}]
         [] OTHER ->
              /\ row' = [row EXCEPT ![j] = UpsertedRow(@, plan[j].date)]
              /\ boot' = [boot EXCEPT !.todo = @ \ {j}, !.adding = j]
    /\ UNCHANGED <<ticks, plan, store, run, request, fired, spent>>

(* A match that is being played is scraped at once, unless it was scraped  *)
(* a moment ago.                                                           *)
ResumeLive(j) ==
    /\ boot.adding = NoJob /\ boot.stage = "live" /\ j \in boot.todo
    /\ \/ /\ plan[j].status = "LIVE" /\ plan[j].date # NoDate
          /\ row' = [row EXCEPT ![j] = UpsertedRow(@, ticks + 1)]
          /\ boot' = [boot EXCEPT !.todo = @ \ {j}, !.adding = j]
       \/ boot' = [boot EXCEPT !.todo = @ \ {j}] /\ UNCHANGED row
    /\ UNCHANGED <<ticks, plan, store, run, request, fired, spent>>

----------------------------------------------------------------------------
(* Reconciliation of one row that was read when it started.                *)

(* Mutant of Recoverable: a row whose date has passed is let alone.        *)
RecoverableDue(j) == InStore(j) \/ row[j].status # "pending" \/ row[j].date <= ticks

(* Nothing to do for the row: its job is in the store, or it is not        *)
(* waiting for one.                                                        *)
Recoverable(j) == InStore(j) \/ row[j].status # "pending"

ReconcileRow(j) ==
    /\ boot.adding = NoJob /\ boot.stage = "rows" /\ j \in boot.todo
    /\ CASE Recoverable(j) ->
              boot' = [boot EXCEPT !.todo = @ \ {j}] /\ UNCHANGED row
         [] ~Recoverable(j) /\ (j \in Manuals \/ row[j].date <= ticks) ->
              /\ row' = [row EXCEPT ![j] = SkippedRow(@)]
              /\ boot' = [boot EXCEPT !.todo = @ \ {j}]
         [] OTHER ->
              /\ row' = [row EXCEPT ![j] = UpsertedRow(@, @.date)]
              /\ boot' = [boot EXCEPT !.todo = @ \ {j}, !.adding = j]
    /\ UNCHANGED <<ticks, plan, store, run, request, fired, spent>>

(* A row that cannot be reconciled is counted, and the others go on.       *)
ReconcileError(j) ==
    /\ boot.adding = NoJob /\ boot.stage = "rows" /\ j \in boot.todo
    /\ ~Recoverable(j)
    /\ boot' = [boot EXCEPT !.todo = @ \ {j}, !.errors = @ \cup {j}]
    /\ UNCHANGED <<ticks, plan, row, store, run, request, fired, spent>>

(* From stage to stage; the scheduler starts after the last.               *)
Start ==
    /\ boot.stage = "down"
    /\ boot' = [Down EXCEPT !.stage = "fixtures", !.todo = Fixtures]
    /\ UNCHANGED <<ticks, plan, row, store, run, request, fired, spent>>

NextStage ==
    /\ boot.todo = {} /\ boot.adding = NoJob
    /\ boot' = CASE boot.stage = "fixtures" -> [boot EXCEPT !.stage = "live", !.todo = Fixtures]
                 [] boot.stage = "live" ->
                      [boot EXCEPT !.stage = "rows", !.todo = {j \in Jobs : row[j] # NoJobRow}]
                 [] boot.stage = "rows" -> Up
                 [] OTHER -> boot
    /\ boot.stage \in {"fixtures", "live", "rows"}
    /\ UNCHANGED <<ticks, plan, row, store, run, request, fired, spent>>

----------------------------------------------------------------------------
(* The scheduler at work.  A date job leaves the store when it is fired,   *)
(* whether it is run, comes too late, or is running already: its row says  *)
(* pending until it has been marked.                                       *)
Due(j) == Serving /\ InStore(j) /\ (store[j].byHand \/ store[j].date < ticks)

Fire(j) ==
    /\ Due(j) /\ run[j] = "no"
    /\ store' = [store EXCEPT ![j] = NotStored]
    /\ run' = [run EXCEPT ![j] = "submitted"]
    /\ fired' = IF store[j].byHand THEN fired ELSE [fired EXCEPT ![j][store[j].date] = @ + 1]
    /\ UNCHANGED <<ticks, plan, row, boot, request, spent>>

Miss(j) ==
    /\ Due(j)
    /\ store' = [store EXCEPT ![j] = NotStored]
    /\ UNCHANGED <<ticks, plan, row, run, boot, request, fired, spent>>

MarkRunning(j) ==
    /\ Serving /\ run[j] = "submitted"
    /\ run' = [run EXCEPT ![j] = "marked"]
    /\ row' = [row EXCEPT ![j].status = "running"]
    /\ UNCHANGED <<ticks, plan, store, boot, request, fired, spent>>

MarkEnded(j) ==
    /\ Serving /\ run[j] = "marked"
    /\ run' = [run EXCEPT ![j] = "no"]
    /\ \E status \in {"succeeded", "failed"} : row' = [row EXCEPT ![j].status = status]
    /\ UNCHANGED <<ticks, plan, store, boot, request, fired, spent>>

(* Neither mark can be written, as when the write lane is closed.          *)
MarkLost(j) ==
    /\ Serving /\ run[j] # "no"
    /\ run' = [run EXCEPT ![j] = "no"]
    /\ UNCHANGED <<ticks, plan, row, store, boot, request, fired, spent>>

(* Requests.  The duplicate check reads the rows; the registration comes   *)
(* later and registers at once, without looking again.                     *)
Duplicate == \E m \in Manuals : row[m].status \in {"pending", "running"}

CheckManual(m) ==
    /\ Serving /\ request[m] = "none" /\ ~Duplicate
    /\ request' = [request EXCEPT ![m] = "checked"]
    /\ UNCHANGED <<ticks, plan, row, store, run, boot, fired, spent>>

EnqueueManual(m) ==
    /\ Serving /\ request[m] = "checked"
    /\ request' = [request EXCEPT ![m] = "done"]
    /\ row' = [row EXCEPT ![m] = [status |-> "pending", date |-> ticks]]
    /\ store' = [store EXCEPT ![m] = [date |-> ticks, byHand |-> FALSE]]
    /\ UNCHANGED <<ticks, plan, run, boot, fired, spent>>

Requested == Serving /\ spent.requests < MaxByHand
                     /\ spent' = [spent EXCEPT !.requests = @ + 1]

RunJob(j) ==
    /\ Requested /\ InStore(j)
    /\ store' = [store EXCEPT ![j].byHand = TRUE]
    /\ UNCHANGED <<ticks, plan, row, run, boot, request, fired>>

DeleteJob(j) ==
    /\ Requested /\ InStore(j)
    /\ store' = [store EXCEPT ![j] = NotStored]
    /\ UNCHANGED <<ticks, plan, row, run, boot, request, fired>>

RefreshAllJobs ==
    /\ Requested /\ boot.todo = {} /\ boot.adding = NoJob
    /\ store' = [j \in Jobs |-> NotStored]
    /\ boot' = [boot EXCEPT !.todo = Fixtures]
    /\ UNCHANGED <<ticks, plan, row, run, request, fired>>

----------------------------------------------------------------------------
(* The fixture changes; the process dies or is stopped, and with it the    *)
(* store, the executions and the requests in hand.                         *)
ChangeFixture(j) ==
    /\ spent.changes < MaxChanges
    /\ spent' = [spent EXCEPT !.changes = @ + 1]
    /\ \E date \in {NoDate} \cup Dates, status \in {"UPCOMING", "LIVE", "over"} :
          plan' = [plan EXCEPT ![j] = [date |-> date, status |-> status]]
    /\ UNCHANGED <<ticks, row, store, run, boot, request, fired>>

Stop ==
    /\ boot.stage # "down" /\ spent.stops < MaxStops
    /\ spent' = [spent EXCEPT !.stops = @ + 1]
    /\ boot' = Down
    /\ Nothing
    /\ request' = [m \in Manuals |-> IF request[m] = "checked" THEN "done" ELSE request[m]]
    /\ UNCHANGED <<ticks, plan, row, fired>>

JobTick ==
    /\ ticks < MaxTick
    /\ ticks' = ticks + 1
    /\ UNCHANGED <<plan, row, store, run, boot, request, fired, spent>>

Registration ==
    \/ Start \/ NextStage \/ AddOrSkip
    \/ \E j \in Fixtures : RegisterFixture(j) \/ ResumeLive(j)
    \/ \E j \in Jobs : ReconcileRow(j) \/ ReconcileError(j)

JobNext ==
    \/ Registration \/ Stop \/ JobTick \/ RefreshAllJobs
    \/ \E j \in Jobs : Fire(j) \/ Miss(j) \/ MarkRunning(j) \/ MarkEnded(j) \/ MarkLost(j)
                         \/ RunJob(j) \/ DeleteJob(j)
    \/ \E m \in Manuals : CheckManual(m) \/ EnqueueManual(m)
    \/ \E j \in Fixtures : ChangeFixture(j)

JobSpec == JobInit /\ [][JobNext]_jobVars

----------------------------------------------------------------------------
(* A pending row is a job that the store has for that date, or one counted *)
(* as an error.                                                            *)
Backed(j) == row[j].status = "pending" => InStore(j) /\ store[j].date = row[j].date

(* No date of a job, manual ones included, is fired twice by its schedule, *)
(* whatever is registered again, refreshed, reconciled or restarted; and   *)
(* when the scheduler starts, no row is left waiting for a run that cannot *)
(* come.                                                                   *)
NeitherTwiceNorLost ==
    [][/\ \A j \in Jobs, d \in Dates : fired'[j][d] <= 1
       /\ boot.stage = "rows" /\ boot'.stage = "up" => \A j \in Jobs \ boot.errors : Backed(j)]_jobVars
=============================================================================
