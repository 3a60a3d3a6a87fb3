--------------------------- MODULE Investigations ---------------------------
(* Automatic root-cause analysis of incidents: biz/alert/investigator with    *)
(* its report store and the two passes of a manager's start.                  *)
(*                                                                            *)
(* An incident has at most one report row. The evaluator asks for a report    *)
(* when it creates an incident, users ask for a fresh one at any time, and a  *)
(* manager that starts asks for the ones it finds missing. Each request       *)
(* passes the same gates (Enqueue): a guard per incident, a slot out of       *)
(* MaxConcurrent, and the unique index of the row; then a goroutine of its    *)
(* own runs the worker and writes the outcome. The guard, the slots, the      *)
(* requests and the goroutines are memory of the manager, which may stop      *)
(* between any two of their steps; incidents and rows are in the database.    *)
(*                                                                            *)
(* Incidents below the severity floor never reach the gates and are left out, *)
(* and so are failed database calls.                                          *)
EXTENDS Naturals, FiniteSets

CONSTANTS
  Incidents,       \* incidents at or above the severity floor
  Users,           \* people who press "re-analyse"
  MaxConcurrent,   \* workers at once
  Rows,            \* identifiers of report rows
  MaxForces,       \* bound: requests of users
  MaxCrashes       \* bound: stops of the manager

ASSUME IncidentsAssumption == Incidents # {}
ASSUME ConcurrencyAssumption == MaxConcurrent \in Nat \ {0}
ASSUME RowsAssumption == Rows \subseteq Nat \ {0}
ASSUME BoundsAssumption == MaxForces \in Nat /\ MaxCrashes \in Nat

VARIABLES
  incident,   \* incident[i]: "none", "active" or "resolved"
  report,     \* report[i]: the row of incident i, or NoReport
  guard,      \* incidents that Enqueue takes for being investigated
  slots,      \* slots of the semaphore that are taken
  call,       \* call[c]: the request that caller c is executing
  todo,       \* what the backfill of this start still has to look at
  run,        \* run[r]: the goroutine that works for row r
  up,         \* whether the manager runs
  forces, crashes

vars == <<incident, report, guard, slots, call, todo, run, up, forces, crashes>>

Callers == {"evaluator", "backfill"} \cup Users
InProgress == {"pending", "running"}
Final == {"ready", "failed", "skipped"}
NoReport == [row |-> 0, status |-> "none", worker |-> FALSE]
NoCall == [pc |-> "idle", of |-> CHOOSE i \in Incidents : TRUE]
NoRun == [pc |-> "none", of |-> CHOOSE i \in Incidents : TRUE, killed |-> FALSE]
\* A goroutine that may still write to its row.
Alive == {"spawn", "work", "attach", "finish"}

Init ==
  /\ incident = [i \in Incidents |-> "none"]
  /\ report = [i \in Incidents |-> NoReport]
  /\ guard = {} /\ slots = 0 /\ todo = {}
  /\ call = [c \in Callers |-> NoCall]
  /\ run = [r \in Rows |-> NoRun]
  /\ up = TRUE /\ forces = 0 /\ crashes = 0

Goto(c, pc) == call' = [call EXCEPT ![c].pc = pc]
Return(c) == call' = [call EXCEPT ![c] = NoCall]
At(c, pc) == up /\ call[c].pc = pc
Step(r, pc) == run' = [run EXCEPT ![r].pc = pc]

----------------------------------------------------------------------------
(* The database.                                                             *)

\* mutant: rows are addressed by incident.
UpdateByIncident(r, status, worker) ==
  report' = [i \in Incidents |->
    IF run[r].of = i /\ report[i] # NoReport
    THEN [row |-> report[i].row, status |-> status, worker |-> worker]
    ELSE report[i]]

\* Every update of a row names its id: a row that was deleted is not found.
Update(r, status, worker) ==
  report' = [i \in Incidents |->
    IF report[i].row = r THEN [row |-> r, status |-> status, worker |-> worker]
                         ELSE report[i]]

\* An identifier is new as long as no row and no goroutine has it; one that
\* both have given up may serve again.
New(r) ==
  LET unused == {q \in Rows : run[q] = NoRun /\ \A i \in Incidents : report[i].row # q}
  IN r \in unused /\ \A q \in unused : r <= q

\* The unique index admits one row per incident.
Insert(i, r, status) ==
  /\ report[i] = NoReport /\ New(r)
  /\ report' = [report EXCEPT ![i] = [row |-> r, status |-> status, worker |-> FALSE]]

\* mutant: only the rows whose worker was attached.
FailOrphanedRunning ==
  report' = [i \in Incidents |->
    IF report[i].status = "running"
    THEN [report[i] EXCEPT !.status = "failed"] ELSE report[i]]

\* What a new process finds in progress was left by a process that is gone.
FailOrphaned ==
  report' = [i \in Incidents |->
    IF report[i].status \in InProgress
    THEN [report[i] EXCEPT !.status = "failed"] ELSE report[i]]

----------------------------------------------------------------------------
(* Requests.                                                                 *)

\* RecordFiring creates an incident and asks for its report.
Fire(i) ==
  /\ At("evaluator", "idle") /\ incident[i] = "none"
  /\ incident' = [incident EXCEPT ![i] = "active"]
  /\ call' = [call EXCEPT !["evaluator"] = [pc |-> "enter", of |-> i]]
  /\ UNCHANGED <<report, guard, slots, todo, run, up, forces, crashes>>

Resolve(i) ==
  /\ incident[i] = "active" /\ up
  /\ incident' = [incident EXCEPT ![i] = "resolved"]
  /\ UNCHANGED <<report, guard, slots, call, todo, run, up, forces, crashes>>

\* ForceEnqueueWith reads the row and stops the worker it names.
ForceRerun(u, i) ==
  /\ At(u, "idle") /\ incident[i] # "none" /\ forces < MaxForces
  /\ forces' = forces + 1
  /\ call' = [call EXCEPT ![u] = [pc |-> "delete", of |-> i]]
  /\ run' = [r \in Rows |->
       IF r = report[i].row /\ report[i].worker /\ run[r].pc = "work"
       THEN [run[r] EXCEPT !.killed = TRUE] ELSE run[r]]
  /\ UNCHANGED <<incident, report, guard, slots, todo, up, crashes>>

ForceDelete(u) ==
  /\ At(u, "delete")
  /\ report' = [report EXCEPT ![call[u].of] = NoReport]
  /\ Goto(u, "release")
  /\ UNCHANGED <<incident, guard, slots, todo, run, up, forces, crashes>>

ForceRelease(u) ==
  /\ At(u, "release")
  /\ guard' = guard \ {call[u].of}
  /\ Goto(u, "enter")
  /\ UNCHANGED <<incident, report, slots, todo, run, up, forces, crashes>>

\* BackfillUnstartedIncidents: incidents without a row ...
BackfillList ==
  /\ At("backfill", "list")
  /\ todo' = {i \in Incidents : incident[i] # "none" /\ report[i] = NoReport}
  /\ Return("backfill")
  /\ UNCHANGED <<incident, report, guard, slots, run, up, forces, crashes>>

\* ... are enqueued one after the other, unless they are resolved by then.
BackfillNext(i) ==
  /\ At("backfill", "idle") /\ i \in todo
  /\ todo' = todo \ {i}
  /\ IF incident[i] = "resolved" THEN UNCHANGED call
     ELSE call' = [call EXCEPT !["backfill"] = [pc |-> "enter", of |-> i]]
  /\ UNCHANGED <<incident, report, guard, slots, run, up, forces, crashes>>

----------------------------------------------------------------------------
(* Enqueue.                                                                  *)

\* Gate 2: one request at a time for an incident; the others are dropped.
Enter(c) ==
  /\ At(c, "enter")
  /\ IF call[c].of \in guard
     THEN Return(c) /\ UNCHANGED guard
     ELSE Goto(c, "acquire") /\ guard' = guard \cup {call[c].of}
  /\ UNCHANGED <<incident, report, slots, todo, run, up, forces, crashes>>

\* Gate 3: a slot, or else a row that says the limit was reached.
Acquire(c) ==
  /\ At(c, "acquire")
  /\ IF slots < MaxConcurrent
     THEN slots' = slots + 1 /\ Goto(c, "create")
     ELSE UNCHANGED slots /\ Goto(c, "unguard")
  /\ UNCHANGED <<incident, report, guard, todo, run, up, forces, crashes>>

NoSlot(c) ==
  /\ At(c, "unguard")
  /\ guard' = guard \ {call[c].of}
  /\ Goto(c, "skip")
  /\ UNCHANGED <<incident, report, slots, todo, run, up, forces, crashes>>

CreateSkipped(c) ==
  /\ At(c, "skip")
  /\ \/ \E r \in Rows : Insert(call[c].of, r, "skipped")
     \/ report[call[c].of] # NoReport /\ UNCHANGED report
  /\ Return(c)
  /\ UNCHANGED <<incident, guard, slots, todo, run, up, forces, crashes>>

\* The row, and with it the goroutine.
Create(c) ==
  /\ At(c, "create")
  /\ \E r \in Rows :
       /\ Insert(call[c].of, r, "pending")
       /\ run' = [run EXCEPT ![r] =
            [pc |-> "spawn", of |-> call[c].of, killed |-> FALSE]]
  /\ Return(c)
  /\ UNCHANGED <<incident, guard, slots, todo, up, forces, crashes>>

\* mutant: the slot is not given back.
CreateConflictKeepsSlot(c) ==
  /\ At(c, "create") /\ report[call[c].of] # NoReport
  /\ Goto(c, "undo")
  /\ UNCHANGED <<incident, report, guard, slots, todo, run, up, forces, crashes>>

\* The row is there already: the slot goes back, then the guard.
CreateConflict(c) ==
  /\ At(c, "create") /\ report[call[c].of] # NoReport
  /\ slots' = slots - 1
  /\ Goto(c, "undo")
  /\ UNCHANGED <<incident, report, guard, todo, run, up, forces, crashes>>

UndoGuard(c) ==
  /\ At(c, "undo")
  /\ guard' = guard \ {call[c].of}
  /\ Return(c)
  /\ UNCHANGED <<incident, report, slots, todo, run, up, forces, crashes>>

Enqueue(c) ==
  Enter(c) \/ Acquire(c) \/ NoSlot(c) \/ CreateSkipped(c)
  \/ Create(c) \/ CreateConflict(c) \/ UndoGuard(c)

----------------------------------------------------------------------------
(* The goroutine of a row (run).                                             *)

\* SpawnWorker does not return before the worker has ended.
Spawn(r) ==
  /\ run[r].pc = "spawn" /\ Step(r, "work")
  /\ UNCHANGED <<incident, report, guard, slots, call, todo, up, forces, crashes>>

SpawnFails(r) ==
  /\ run[r].pc = "spawn" /\ Step(r, "unguard")
  /\ Update(r, "failed", FALSE)
  /\ UNCHANGED <<incident, guard, slots, call, todo, up, forces, crashes>>

WorkerEnds(r) ==
  /\ run[r].pc = "work" /\ Step(r, "attach")
  /\ UNCHANGED <<incident, report, guard, slots, call, todo, up, forces, crashes>>

Attach(r) ==
  /\ run[r].pc = "attach" /\ Step(r, "finish")
  /\ Update(r, "running", TRUE)
  /\ UNCHANGED <<incident, guard, slots, call, todo, up, forces, crashes>>

\* The worker had answered, or it had failed, been killed or run into its time
\* limit; what it found is read and summarised before the row is closed.
Finish(r, answer) ==
  /\ run[r].pc = "finish" /\ (answer => ~run[r].killed) /\ Step(r, "unguard")
  /\ Update(r, IF answer THEN "ready" ELSE "failed", TRUE)
  /\ UNCHANGED <<incident, guard, slots, call, todo, up, forces, crashes>>

Unguard(r) ==
  /\ run[r].pc = "unguard" /\ Step(r, "release")
  /\ guard' = guard \ {run[r].of}
  /\ UNCHANGED <<incident, report, slots, call, todo, up, forces, crashes>>

ReleaseSlot(r) ==
  /\ run[r].pc = "release" /\ run' = [run EXCEPT ![r] = NoRun]
  /\ slots' = IF slots > 0 THEN slots - 1 ELSE slots
  /\ UNCHANGED <<incident, report, guard, call, todo, up, forces, crashes>>

Run(r) ==
  \/ Spawn(r) \/ SpawnFails(r) \/ WorkerEnds(r) \/ Attach(r)
  \/ \E answer \in BOOLEAN : Finish(r, answer)
  \/ Unguard(r) \/ ReleaseSlot(r)

----------------------------------------------------------------------------
(* Stop and start of the manager.                                            *)

\* mutant: nothing asks for the reports that were never started.
BootNoBackfill ==
  /\ ~up /\ up' = TRUE
  /\ FailOrphaned
  /\ UNCHANGED <<incident, guard, slots, call, todo, run, forces, crashes>>

Crash ==
  /\ up /\ crashes < MaxCrashes
  /\ crashes' = crashes + 1 /\ up' = FALSE
  /\ guard' = {} /\ slots' = 0 /\ todo' = {}
  /\ call' = [c \in Callers |-> NoCall]
  /\ run' = [r \in Rows |-> NoRun]
  /\ UNCHANGED <<incident, report, forces>>

Boot ==
  /\ ~up /\ up' = TRUE
  /\ FailOrphaned
  /\ Goto("backfill", "list")
  /\ UNCHANGED <<incident, guard, slots, todo, run, forces, crashes>>

Backfill == BackfillList \/ \E i \in Incidents : BackfillNext(i)
ForceStep(u) == ForceDelete(u) \/ ForceRelease(u)

\* What goes on by itself: a manager that stopped is started again, a worker
\* has a time limit, and the rest is code that nothing blocks. It is enough
\* that some of it goes on: nothing of it can go on for ever.
Progress ==
  \/ Boot \/ Backfill
  \/ \E u \in Users : ForceStep(u)
  \/ \E c \in Callers : Enqueue(c)
  \/ \E r \in Rows : Run(r)

Next ==
  \/ \E i \in Incidents : Fire(i) \/ Resolve(i)
  \/ \E i \in Incidents, u \in Users : ForceRerun(u, i)
  \/ Progress \/ Crash

Spec == Init /\ [][Next]_vars

FairSpec == Spec /\ WF_vars(Progress)

----------------------------------------------------------------------------
Reports ==
  [row : Rows \cup {0}, status : {"none"} \cup InProgress \cup Final, worker : BOOLEAN]

Holders ==
  {r \in Rows : run[r].pc \in Alive \cup {"unguard", "release"}}

Creating == {c \in Callers : call[c].pc = "create"}

TypeOK ==
  /\ incident \in [Incidents -> {"none", "active", "resolved"}]
  /\ report \in [Incidents -> Reports]
  /\ guard \subseteq Incidents /\ todo \subseteq Incidents
  /\ slots \in 0 .. MaxConcurrent
  /\ call \in [Callers -> [of : Incidents,
       pc : {"idle", "list", "delete", "release", "enter", "acquire", "unguard",
             "skip", "create", "undo"}]]
  /\ run \in [Rows -> [of : Incidents, killed : BOOLEAN,
       pc : Alive \cup {"none", "unguard", "release"}]]
  /\ up \in BOOLEAN
  /\ forces \in 0 .. MaxForces /\ crashes \in 0 .. MaxCrashes

\* No slot leaks and none is given back twice: the slots taken are those of
\* the goroutines that still run and of the requests about to start one,
\* whichever gate a request fails at. One slot less for good with each leak,
\* and at zero every analysis is skipped until the next restart.
SlotsAreHeld ==
  slots = Cardinality(Holders) + Cardinality(Creating)

\* A report that says it is in progress has a goroutine that will close it:
\* forced re-runs that overlap, requests that lose the race for the row and
\* restarts leave no report behind that spins for ever.
ProgressHasRun ==
  up => \A i \in Incidents : report[i].status \in InProgress =>
          run[report[i].row].pc \in Alive

\* The goroutine of a report that was replaced does not write into the report
\* that replaced it, and a verdict once given stands: the status of a row
\* changes only by its own goroutine, or at a start, and never from a verdict.
OwnVerdict ==
  [][\A i \in Incidents :
       (report[i] # NoReport /\ report'[i].row = report[i].row
          /\ report'[i].status # report[i].status)
       => /\ report[i].status \in InProgress
          /\ run'[report[i].row] # run[report[i].row] \/ ~up]_vars

\* Every incident gets a verdict, or is resolved before: also when the manager
\* stops between the creation of the incident and that of its report, or
\* while a forced re-run has deleted the old one.
EveryIncidentReported ==
  \A i \in Incidents :
    incident[i] = "active" ~> (report[i].status \in Final \/ incident[i] = "resolved")

\* A forced re-run stops the worker whose report it is about to delete.
ForceStopsWorker ==
  [][\A u \in Users, r \in Rows :
       (run[r].pc = "work" /\ report[run[r].of].row = r /\ ForceRerun(u, run[r].of))
       => run'[r].killed]_vars
=============================================================================
