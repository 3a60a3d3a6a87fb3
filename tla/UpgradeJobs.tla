----------------------------- MODULE UpgradeJobs -----------------------------
(***************************************************************************)
(* The manager's rollout of a release to many edges: the persistent        *)
(* upgrade jobs and their items, the one coordinator that claims a job,    *)
(* dispatches a batch with a few workers and verifies it by the edges'     *)
(* registrations, retries asked for by users, the clean-up of old records, *)
(* and a manager that stops anywhere and recovers.                         *)
(*                                                                         *)
(* What the model simplifies:                                              *)
(*   - a time is the number of registrations of the edge so far: this is   *)
(*     all last_registered_at, the baselines and "now" are compared for;   *)
(*   - a verification deadline passes by an action of its own;             *)
(*   - the edges of a request are listed by their ids, all of one          *)
(*     supported architecture; the bundle catalogue may fail to resolve;   *)
(*   - an edge has one register_edge in progress at a time; of what it     *)
(*     does with an accepted package (UpgradeMachine) only the boots count *)
(*     that change its version: into the package, and back out of it as    *)
(*     long as the upgrade is not confirmed.                               *)
(***************************************************************************)
EXTENDS Integers, FiniteSets

CONSTANTS Edges,        \* edge ids
          Jobs,         \* job ids, in the order of their creation
          Users,        \* who asks for retries
          Old, Target,  \* the version the edges start with, the one rolled out
          None,         \* no version
          Forces,       \* the values force_reinstall may have
          BatchSize, Concurrency,
          Expirable,    \* jobs whose record may reach the end of its retention
          MayDrop,      \* edges that may be seen offline
          MaxRegs,      \* bound: registrations
          MaxRetries,   \* bound: retries asked for
          MaxStops,     \* bound: stops and crashes of the manager
          MaxFaults     \* bound: failed database calls

ASSUME EdgesAssumption == Edges \subseteq Nat /\ IsFiniteSet(Edges)
ASSUME JobsAssumption == Jobs \subseteq Nat \ {0}
ASSUME ExpirableAssumption == Expirable \subseteq Jobs
ASSUME ForcesAssumption == Forces \subseteq BOOLEAN
ASSUME VersionsAssumption == Old # None /\ Target # None
ASSUME BatchAssumption == BatchSize \in Nat \ {0} /\ Concurrency \in Nat \ {0}

VARIABLES
  job,       \* edge_upgrade_jobs
  item,      \* edge_upgrade_job_items, by job and edge
  row,       \* edges: agent_version, last_registered_at, status
  hs,        \* the version a register_edge in progress reports, None without one
  real,      \* the version the edge runs
  pkg,       \* an accepted package the edge has not booted yet, None without one
  back,      \* the version an upgrade that is not confirmed is rolled back to, or None
  heard,     \* auxiliary: the last session in which the edge reported a version
  pc,        \* where the coordinator is in Run, drain and processJob
  cj,        \* the job it has claimed, 0 without one
  batch,     \* the batch it works on
  work,      \* items of the batch no worker has taken
  todo,      \* items of this round of verification
  seen,      \* the edges as they were read for this dispatch or this round
  doomed,    \* jobs the clean-up found
  step,      \* where the worker that dispatches an edge's item is
  retry,     \* the users' retry requests
  regs, retries, stops, faults  \* counts of bounded events

records == <<job, item>>
edges == <<row, hs, real, pkg, back, heard>>
local == <<batch, work, todo, seen, doomed, step>>
bounds == <<regs, retries, stops, faults>>
vars == <<records, edges, pc, cj, local, retry, bounds>>

Versions == {Old, Target}
Finished == {"succeeded", "failed", "partial"}
Failed == {"failed", "timedOut"}
Pending == {"queued", "dispatching", "waiting"}

Item == [status : {"none", "succeeded", "skipped"} \cup Failed \cup Pending,
         batch : Nat,
         tried : BOOLEAN,    \* attempt > 0
         base : Nat,         \* baseline_registered_at
         late : BOOLEAN]     \* verification_deadline_at has passed
Summary == [succeeded : Nat, failed : Nat, skipped : Nat, pending : Nat]
Job == [status : {"none", "queued", "running", "gone"} \cup Finished,
        force : BOOLEAN, current : Nat, batches : Nat, sum : Summary]
Row == [ver : Versions, reg : Nat, online : BOOLEAN]

\* What a retry has read: the registrations of the edges that failed, -1 of others.
Retry == [pc : {"idle", "tx", "refresh"}, job : Jobs \cup {0}, snap : [Edges -> Int]]

NoItem == [status |-> "none", batch |-> 0, tried |-> FALSE, base |-> 0,
           late |-> FALSE]
NoSum == [succeeded |-> 0, failed |-> 0, skipped |-> 0, pending |-> 0]
NoJob == [status |-> "none", force |-> FALSE, current |-> 0, batches |-> 0,
          sum |-> NoSum]
NoRow == [ver |-> Old, reg |-> 0, online |-> TRUE]
NoRetry == [pc |-> "idle", job |-> 0, snap |-> [e \in Edges |-> -1]]

\* Coordinator states in which processJob runs and may return an error.
Processing == {"list", "start", "dispatch", "recheck", "verify", "judge", "refresh", "finish"}
Steps == {"none", "mark", "settle", "settled", "fetch", "baseline", "apply", "accepted", "fail"}

TypeOK ==
  /\ job \in [Jobs -> Job]
  /\ item \in [Jobs -> [Edges -> Item]]
  /\ row \in [Edges -> Row]
  /\ hs \in [Edges -> Versions \cup {None}]
  /\ real \in [Edges -> Versions] /\ pkg \in [Edges -> Versions \cup {None}]
  /\ back \in [Edges -> Versions \cup {None}]
  /\ heard \in [Edges -> [Versions -> Nat]]
  /\ pc \in {"down", "dead", "idle", "cleanup", "requeue"} \cup Processing
  /\ cj \in Jobs \cup {0} /\ batch \in Nat
  /\ work \subseteq Edges /\ todo \subseteq Edges
  /\ seen \in [Edges -> Row]
  /\ doomed \subseteq Jobs
  /\ step \in [Edges -> Steps]
  /\ retry \in [Users -> Retry]
  /\ regs \in Nat /\ retries \in Nat /\ stops \in Nat /\ faults \in Nat

Init ==
  /\ job = [j \in Jobs |-> NoJob]
  /\ item = [j \in Jobs |-> [e \in Edges |-> NoItem]]
  /\ row = [e \in Edges |-> NoRow]
  /\ hs = [e \in Edges |-> None]
  /\ real = [e \in Edges |-> Old] /\ pkg = [e \in Edges |-> None]
  /\ back = [e \in Edges |-> None]
  /\ heard = [e \in Edges |-> [v \in Versions |-> 0]]
  /\ pc = "down" /\ cj = 0 /\ batch = 0 /\ work = {} /\ todo = {} /\ doomed = {}
  /\ seen = [e \in Edges |-> NoRow] /\ step = [e \in Edges |-> "none"]
  /\ retry = [u \in Users |-> NoRetry]
  /\ regs = 0 /\ retries = 0 /\ stops = 0 /\ faults = 0

------------------------------------------------------------------------------
(* The store.                                                              *)

WithStatus(its, S) == {e \in Edges : its[e].status \in S}
Items(j, S) == WithStatus(item[j], S)
InBatch(j, S) == {e \in Items(j, S) : item[j][e].batch = batch}

Summarize(its) ==
  [succeeded |-> Cardinality(WithStatus(its, {"succeeded"})),
   failed |-> Cardinality(WithStatus(its, Failed)),
   skipped |-> Cardinality(WithStatus(its, {"skipped"})),
   pending |-> Cardinality(WithStatus(its, Pending))]

TerminalStatus(sum) ==
  IF sum.failed = 0 THEN "succeeded"
  ELSE IF sum.succeeded = 0 THEN "failed" ELSE "partial"

\* The n-th of the items that have a batch goes to batch (n - 1) / BatchSize + 1.
BatchNumberOff(S, e) ==   \* mutant: one too many in a batch
  (Cardinality({d \in S : d <= e}) - 1) \div (BatchSize + 1) + 1
BatchNumber(S, e) == (Cardinality({d \in S : d <= e}) - 1) \div BatchSize + 1
BatchCountOff(S) ==   \* mutant: not rounded up
  (Cardinality(S) - 1) \div BatchSize
BatchCount(S) == (Cardinality(S) + BatchSize - 1) \div BatchSize

\* RefreshUpgradeJob: counters and status follow the items.
RefreshedEarly(j) ==   \* mutant: over when nothing is queued
  LET sum == Summarize(item[j])
  IN  [job[j] EXCEPT !.sum = sum,
         !.status = IF Items(j, {"queued"}) = {} THEN TerminalStatus(sum)
                    ELSE IF @ = "queued" THEN "queued" ELSE "running"]
Refreshed(j) ==
  LET sum == Summarize(item[j])
  IN  [job[j] EXCEPT !.sum = sum,
         !.status = IF sum.pending = 0 THEN TerminalStatus(sum)
                    ELSE IF @ = "queued" THEN "queued" ELSE "running"]
Refresh(j) == job' = [job EXCEPT ![j] = Refreshed(j)] /\ UNCHANGED item

\* One more database call that fails.
DbFails == faults < MaxFaults /\ faults' = faults + 1 /\ UNCHANGED <<regs, retries, stops>>

\* The HTTP handlers answer while the manager runs, whatever the coordinator does.
Up == pc # "down"

------------------------------------------------------------------------------
(* Requests of users.                                                      *)

Skips(e, force) == ~row[e].online \/ (~force /\ row[e].ver = Target)
NewItems(es, force) ==
  LET queued == {e \in es : ~Skips(e, force)}
  IN  [e \in Edges |->
         IF e \notin es THEN NoItem
         ELSE [NoItem EXCEPT
                 !.status = IF e \in queued THEN "queued" ELSE "skipped",
                 !.batch = IF e \in queued THEN BatchNumber(queued, e) ELSE 0,
                 !.base = row[e].reg]]
NewJob(its, force) ==
  LET sum == Summarize(its)
  IN  [NoJob EXCEPT
         !.force = force, !.batches = BatchCount(WithStatus(its, {"queued"})), !.sum = sum,
         !.status = IF sum.pending = 0 THEN TerminalStatus(sum) ELSE "queued"]
Create(j) ==
  /\ Up /\ job[j].status = "none" /\ \A i \in Jobs : i < j => job[i].status # "none"
  /\ \E es \in SUBSET Edges \ {{}}, force \in Forces :
       /\ item' = [item EXCEPT ![j] = NewItems(es, force)]
       /\ job' = [job EXCEPT ![j] = NewJob(NewItems(es, force), force)]
  /\ UNCHANGED <<edges, pc, cj, local, retry, bounds>>

\* Retry reads the job, its items and the edges of those that failed.
RetryRead(u, j) ==
  /\ Up /\ retry[u].pc = "idle" /\ retries < MaxRetries
  /\ job[j].status \in Finished /\ Items(j, Failed) # {}
  /\ retry' = [retry EXCEPT ![u] =
       [pc |-> "tx", job |-> j,
        snap |-> [e \in Edges |-> IF e \in Items(j, Failed) THEN row[e].reg ELSE -1]]]
  /\ retries' = retries + 1
  /\ UNCHANGED <<records, edges, pc, cj, local, regs, stops, faults>>

\* The transaction of RetryUpgradeJob looks at the job and the items again.
RetryItemsUnchecked(u) ==   \* mutant: the items are not read again
  {e \in Edges : retry[u].snap[e] >= 0}
RetryItems(u) == {e \in Items(retry[u].job, Failed) : retry[u].snap[e] >= 0}
RetryConflict(u) ==
  /\ retry[u].pc = "tx"
  /\ job[retry[u].job].status \notin Finished \/ RetryItems(u) = {}
  /\ retry' = [retry EXCEPT ![u] = NoRetry]
  /\ UNCHANGED <<records, edges, pc, cj, local, bounds>>
RequeuedJobKeptOver(j, reset) ==   \* mutant: the job stays over
  [job[j] EXCEPT !.current = 0, !.batches = BatchCount(reset)]
RequeuedJob(j, reset) ==
  [job[j] EXCEPT !.status = "queued", !.current = 0, !.batches = BatchCount(reset)]
RetryReset(u) ==
  LET j == retry[u].job
      reset == RetryItems(u)
  IN  /\ retry[u].pc = "tx" /\ job[j].status \in Finished /\ reset # {}
      /\ item' = [item EXCEPT ![j] = [e \in Edges |->
           IF e \notin reset THEN @[e]
           ELSE [@[e] EXCEPT !.status = "queued", !.batch = BatchNumber(reset, e),
                   !.base = retry[u].snap[e], !.late = FALSE]]]
      /\ job' = [job EXCEPT ![j] = RequeuedJob(j, reset)]
      /\ retry' = [retry EXCEPT ![u].pc = "refresh"]
      /\ UNCHANGED <<edges, pc, cj, local, bounds>>
RetryRefresh(u) ==
  /\ retry[u].pc = "refresh" /\ retry' = [retry EXCEPT ![u] = NoRetry]
  /\ \/ job[retry[u].job].status # "gone" /\ Refresh(retry[u].job) /\ UNCHANGED bounds
     \/ job[retry[u].job].status = "gone" /\ UNCHANGED <<records, bounds>>
     \/ DbFails /\ UNCHANGED records
  /\ UNCHANGED <<edges, pc, cj, local>>

Requests ==
  \/ \E j \in Jobs : Create(j)
  \/ \E u \in Users :
       \/ \E j \in Jobs : RetryRead(u, j)
       \/ RetryConflict(u) \/ RetryReset(u) \/ RetryRefresh(u)

------------------------------------------------------------------------------
(* The edges, and what register_edge and the heartbeats write about them.  *)

\* A session is numbered by the registration it is to end in.
Reports(e) == heard' = [heard EXCEPT ![e][real[e]] = row[e].reg + 1]

\* The agent that is told of its registration writes the health marker, if it can.
Confirm(e) ==
  \/ UNCHANGED back
  \/ real[e] = hs[e] /\ back' = [back EXCEPT ![e] = None]

RegisterMarkerFirst(e) ==   \* mutant: the marker before the version
  \/ /\ Up /\ hs[e] = None /\ regs < MaxRegs /\ regs' = regs + 1
     /\ hs' = [hs EXCEPT ![e] = real[e]]
     /\ row' = [row EXCEPT ![e].reg = @ + 1, ![e].online = TRUE]
     /\ Reports(e) /\ UNCHANGED back
  \/ /\ hs[e] # None /\ regs' = regs
     /\ hs' = [hs EXCEPT ![e] = None]
     /\ row' = [row EXCEPT ![e].ver = hs[e]]
     /\ Confirm(e) /\ UNCHANGED heard

\* HandleRegister writes the version first and the registration marker last; it
\* may fail in between.
Register(e) ==
  \/ /\ Up /\ hs[e] = None /\ regs < MaxRegs /\ regs' = regs + 1
     /\ hs' = [hs EXCEPT ![e] = real[e]]
     /\ row' = [row EXCEPT ![e].ver = real[e]]
     /\ Reports(e) /\ UNCHANGED back
  \/ /\ hs[e] # None /\ regs' = regs
     /\ hs' = [hs EXCEPT ![e] = None]
     /\ row' = [row EXCEPT ![e].reg = @ + 1, ![e].online = TRUE]
     /\ Confirm(e) /\ UNCHANGED heard
  \/ hs[e] # None /\ hs' = [hs EXCEPT ![e] = None] /\ UNCHANGED <<row, back, heard, regs>>

\* MarkStaleOffline, and a heartbeat that says otherwise.
Presence(e) ==
  /\ e \in MayDrop /\ Up /\ row' = [row EXCEPT ![e].online = ~@]
  /\ UNCHANGED <<hs, back, heard, regs>>

\* The edge restarts into the package, or cannot and restarts as it was.
EdgeBoot(e) ==
  /\ pkg[e] # None /\ back[e] = None
  /\ \/ real' = [real EXCEPT ![e] = pkg[e]] /\ back' = [back EXCEPT ![e] = real[e]]
     \/ UNCHANGED <<real, back>>
  /\ pkg' = [pkg EXCEPT ![e] = None]

\* It restarts without a health marker, whatever it has registered with meanwhile,
\* and is rolled back; a package that waits for this restart is dropped.
EdgeRollback(e) ==
  /\ back[e] # None
  /\ real' = [real EXCEPT ![e] = back[e]]
  /\ back' = [back EXCEPT ![e] = None] /\ pkg' = [pkg EXCEPT ![e] = None]

EdgeStep(e) ==
  /\ \/ (Register(e) \/ Presence(e)) /\ UNCHANGED <<real, pkg>>
     \/ (EdgeBoot(e) \/ EdgeRollback(e)) /\ UNCHANGED <<row, hs, heard, regs>>
  /\ UNCHANGED <<records, pc, cj, local, retry, retries, stops, faults>>

DeadlinePasses(j, e) ==
  /\ item[j][e].status = "waiting" /\ ~item[j][e].late
  /\ item' = [item EXCEPT ![j][e].late = TRUE]
  /\ UNCHANGED <<job, edges, pc, cj, local, retry, bounds>>

------------------------------------------------------------------------------
(* A worker of dispatchQueued with one item: dispatchItem.                 *)

\* One conditional update of one item of the claimed job.
Mark(e, it) == item' = [item EXCEPT ![cj][e] = it] /\ UNCHANGED job
To(e, s) == step' = [step EXCEPT ![e] = s]
Forget(e) == seen' = [seen EXCEPT ![e] = NoRow]
Free == {e \in Edges : step[e] # "none"} = {}
Active == Cardinality({e \in Edges : step[e] # "none"})

IsNewRegistration(base, reg) == reg > base
HasConverged(it, r) == IsNewRegistration(it.base, r.reg) /\ r.ver = Target

\* A worker takes an item and reads the edge.
TakeItem(e) ==
  /\ pc = "dispatch" /\ e \in work /\ Active < Concurrency
  /\ work' = work \ {e}
  /\ \/ seen' = [seen EXCEPT ![e] = row[e]] /\ To(e, "mark") /\ UNCHANGED bounds
     \/ DbFails /\ UNCHANGED seen /\ To(e, "fail")
  /\ UNCHANGED <<records, batch, todo, doomed>>

\* Converged already: an interrupted attempt that got through, or another job's.
Settles(e) ==
  /\ HasConverged(item[cj][e], seen[e])
  /\ item[cj][e].tried \/ ~job[cj].force

MarkDispatching(e) ==
  LET it == item[cj][e]
  IN  /\ step[e] = "mark" /\ it.status = "queued"
      /\ Mark(e, [it EXCEPT !.status = "dispatching", !.tried = TRUE, !.late = FALSE,
                    !.base = IF Settles(e) THEN @ ELSE seen[e].reg])
      /\ To(e, IF Settles(e) THEN "settle" ELSE "fetch")
      /\ Forget(e)
      /\ UNCHANGED <<batch, work, todo, doomed, bounds>>

\* A call that cannot write leaves the item as it is: recheck finds it.
GiveUp(e) ==
  /\ step[e] \in {"mark", "settle", "settled", "baseline", "accepted", "fail"}
  /\ DbFails /\ To(e, "none") /\ Forget(e)
  /\ UNCHANGED <<records, batch, work, todo, doomed>>

MarkWaiting(e) ==
  /\ step[e] \in {"settle", "accepted"} /\ item[cj][e].status = "dispatching"
  /\ Mark(e, [item[cj][e] EXCEPT !.status = "waiting", !.late = FALSE])
  /\ To(e, IF step[e] = "settle" THEN "settled" ELSE "none")
  /\ UNCHANGED <<batch, work, todo, seen, doomed, bounds>>

MarkSettled(e) ==
  /\ step[e] = "settled" /\ item[cj][e].status = "waiting"
  /\ Mark(e, [item[cj][e] EXCEPT !.status = "succeeded", !.late = FALSE])
  /\ To(e, "none")
  /\ UNCHANGED <<batch, work, todo, seen, doomed, bounds>>

\* Any error but the manager's own end fails the item.
FailDispatch(e) ==
  /\ step[e] = "fail" /\ item[cj][e].status \in Pending
  /\ Mark(e, [item[cj][e] EXCEPT !.status = "failed", !.late = FALSE])
  /\ To(e, "none")
  /\ UNCHANGED <<batch, work, todo, seen, doomed, bounds>>

\* ResolveBundle and FetchPackage: the edge has the package staged, or it fails.
FetchPackage(e) ==
  /\ step[e] = "fetch" /\ \E s \in {"baseline", "fail"} : To(e, s)
  /\ UNCHANGED <<records, batch, work, todo, seen, doomed, bounds>>

\* Registrations seen while the package was fetched do not count.
RefreshBaseline(e) ==
  /\ step[e] = "baseline" /\ item[cj][e].status = "dispatching"
  /\ Mark(e, [item[cj][e] EXCEPT !.base = row[e].reg])
  /\ To(e, "apply")
  /\ UNCHANGED <<batch, work, todo, seen, doomed, bounds>>

\* The edge accepts, or accepts and the answer is lost, or does not.
ApplyPackage(e) ==
  /\ step[e] = "apply"
  /\ \/ /\ \E s \in {"accepted", "fail"} : To(e, s)
        /\ pkg' = [pkg EXCEPT ![e] = Target]
     \/ To(e, "fail") /\ UNCHANGED pkg
  /\ UNCHANGED <<records, row, hs, real, back, heard, batch, work, todo, seen, doomed, bounds>>

DispatchItem(e) ==
  /\ \/ /\ \/ TakeItem(e) \/ MarkDispatching(e) \/ GiveUp(e) \/ MarkWaiting(e)
           \/ MarkSettled(e) \/ FailDispatch(e) \/ FetchPackage(e) \/ RefreshBaseline(e)
        /\ UNCHANGED edges
     \/ ApplyPackage(e)
  /\ UNCHANGED <<pc, cj, retry>>

------------------------------------------------------------------------------
(* The coordinator: Run, drain, processJob, verifyWaiting.                 *)

RecoverItems ==   \* mutant: the interrupted job itself is left running
  /\ item' = [j \in Jobs |-> [e \in Edges |->
       IF item[j][e].status = "dispatching"
         THEN [item[j][e] EXCEPT !.status = "queued", !.late = FALSE] ELSE item[j][e]]]
  /\ UNCHANGED job

\* Run recovers first, and returns for good if it cannot.
RecoverJobs ==
  /\ item' = [j \in Jobs |-> [e \in Edges |->
       IF item[j][e].status = "dispatching"
         THEN [item[j][e] EXCEPT !.status = "queued", !.late = FALSE] ELSE item[j][e]]]
  /\ job' = [j \in Jobs |->
       IF job[j].status = "running" THEN [job[j] EXCEPT !.status = "queued"] ELSE job[j]]
Recover ==
  /\ pc = "down"
  /\ \/ RecoverJobs /\ pc' = "idle" /\ UNCHANGED bounds
     \/ DbFails /\ pc' = "dead" /\ UNCHANGED records
  /\ UNCHANGED <<cj, local>>

\* The clean-up lists the finished jobs of a certain age, then deletes them.
FindExpired ==
  /\ pc = "idle" /\ pc' = "cleanup"
  /\ doomed' \in SUBSET {j \in Expirable : job[j].status \in Finished} \ {{}}
  /\ UNCHANGED <<records, cj, batch, work, todo, seen, step, bounds>>
DeleteExpired ==
  /\ pc = "cleanup" /\ pc' = "idle" /\ doomed' = {}
  /\ \/ /\ job' = [j \in Jobs |->
             IF j \in doomed THEN [NoJob EXCEPT !.status = "gone"] ELSE job[j]]
        /\ item' = [j \in Jobs |->
             IF j \in doomed THEN [e \in Edges |-> NoItem] ELSE item[j]]
        /\ UNCHANGED bounds
     \/ DbFails /\ UNCHANGED records
  /\ UNCHANGED <<cj, batch, work, todo, seen, step>>

\* ClaimNextUpgradeJob: the queued job with the lowest id.
Claim ==
  /\ pc = "idle" /\ pc' = "list"
  /\ \E j \in Jobs :
       /\ job[j].status = "queued"
       /\ \A i \in Jobs : i < j => job[i].status # "queued"
       /\ job' = [job EXCEPT ![j].status = "running"] /\ cj' = j
  /\ UNCHANGED <<item, local, bounds>>

\* Waiting items first: they may be left over from before a restart.
Numbers(S) == {item[cj][e].batch : e \in S}
LastBatch(S) ==   \* mutant: the highest number
  {n \in Numbers(S) : \A m \in Numbers(S) : m <= n}
NextBatch(S) == {n \in Numbers(S) : \A m \in Numbers(S) : n <= m}
ListItems ==
  /\ pc = "list"
  /\ LET waiting == Items(cj, {"waiting"})
         queued == Items(cj, {"queued"})
     IN  \/ /\ waiting # {} /\ batch' \in NextBatch(waiting)
            /\ work' = {} /\ pc' = "start"
         \/ /\ waiting = {} /\ queued # {} /\ batch' \in NextBatch(queued)
            /\ work' = {e \in queued : item[cj][e].batch = batch'} /\ pc' = "start"
         \/ waiting = {} /\ queued = {} /\ pc' = "finish" /\ UNCHANGED <<batch, work>>
  /\ UNCHANGED <<records, cj, todo, seen, doomed, step, bounds>>

\* SetUpgradeJobCurrentBatch, which a job that is not running any more refuses.
StartBatch ==
  /\ pc = "start"
  /\ IF job[cj].status = "running" /\ job[cj].batches >= batch
       THEN /\ job' = [job EXCEPT ![cj].current = batch]
            /\ pc' = IF work = {} THEN "verify" ELSE "dispatch"
            /\ UNCHANGED work
       ELSE pc' = "requeue" /\ work' = {} /\ UNCHANGED job
  /\ UNCHANGED <<item, cj, batch, todo, seen, doomed, step, bounds>>

\* All workers are back.
DispatchEnds ==
  /\ pc = "dispatch" /\ work = {} /\ Free /\ pc' = "recheck"
  /\ UNCHANGED <<records, cj, local, bounds>>

Recheck ==
  /\ pc = "recheck"
  /\ pc' = IF InBatch(cj, {"queued", "dispatching"}) = {} THEN "verify" ELSE "requeue"
  /\ UNCHANGED <<records, cj, local, bounds>>

\* One round of verifyWaiting: the edges are read, the items judged, the job refreshed.
ReadEdges ==
  /\ pc = "verify"
  /\ todo' = InBatch(cj, {"waiting"})
  /\ IF todo' = {} THEN pc' = "refresh" /\ UNCHANGED seen
     ELSE pc' = "judge" /\ seen' = [e \in Edges |-> IF e \in todo' THEN row[e] ELSE NoRow]
  /\ UNCHANGED <<records, cj, batch, work, doomed, step, bounds>>

VerdictOnline(it, r) ==   \* mutant: whatever version it reports
  IF IsNewRegistration(it.base, r.reg)
    THEN IF r.online THEN "succeeded" ELSE "failed"
  ELSE IF it.late THEN "timedOut" ELSE "waiting"

Verdict(it, r) ==
  IF IsNewRegistration(it.base, r.reg)
    THEN IF r.ver = Target /\ r.online THEN "succeeded" ELSE "failed"
  ELSE IF it.late THEN "timedOut" ELSE "waiting"

Judge(e) ==
  /\ pc = "judge" /\ e \in todo /\ todo' = todo \ {e}
  /\ LET it == item[cj][e]
         verdict == Verdict(it, seen[e])
     IN  Mark(e, [it EXCEPT !.status = verdict, !.late = @ /\ verdict = "waiting"])
  /\ Forget(e)
  /\ UNCHANGED <<pc, cj, batch, work, doomed, step, bounds>>

EndRound ==
  /\ pc = "judge" /\ todo = {} /\ pc' = "verify"
  /\ Refresh(cj)
  /\ UNCHANGED <<cj, local, bounds>>

EndBatch ==
  /\ pc = "refresh" /\ pc' = "list" /\ batch' = 0
  /\ Refresh(cj)
  /\ UNCHANGED <<cj, work, todo, seen, doomed, step, bounds>>
FinishJob ==
  /\ pc = "finish" /\ pc' = "idle" /\ cj' = 0
  /\ Refresh(cj)
  /\ UNCHANGED <<local, bounds>>

\* An error of processJob: drain requeues the job.
ProcessFails ==
  /\ pc \in Processing \ {"dispatch"} /\ DbFails
  /\ pc' = "requeue" /\ work' = {} /\ todo' = {} /\ seen' = [e \in Edges |-> NoRow]
  /\ UNCHANGED <<records, cj, batch, doomed, step>>

\* RequeueUpgradeJob, rolled back as a whole when the job is not running.
Requeue ==
  /\ pc = "requeue" /\ pc' = "idle" /\ cj' = 0 /\ batch' = 0
  /\ \/ /\ job[cj].status = "running"
        /\ item' = [item EXCEPT ![cj] = [e \in Edges |->
             IF @[e].status = "dispatching"
               THEN [@[e] EXCEPT !.status = "queued", !.late = FALSE] ELSE @[e]]]
        /\ job' = [job EXCEPT ![cj].status = "queued"]
        /\ UNCHANGED bounds
     \/ job[cj].status # "running" /\ UNCHANGED <<records, bounds>>
     \/ DbFails /\ UNCHANGED records
  /\ UNCHANGED <<work, todo, seen, doomed, step>>

Coordinator ==
  /\ \/ Recover \/ FindExpired \/ DeleteExpired \/ Claim \/ ListItems \/ StartBatch
     \/ DispatchEnds \/ Recheck \/ ReadEdges \/ EndRound \/ EndBatch \/ FinishJob
     \/ ProcessFails \/ Requeue
     \/ \E e \in Edges : Judge(e)
  /\ UNCHANGED <<edges, retry>>

\* The manager is stopped or crashes: what is in memory is lost.
Stop ==
  /\ Up /\ stops < MaxStops /\ stops' = stops + 1
  /\ pc' = "down" /\ cj' = 0 /\ batch' = 0 /\ work' = {} /\ todo' = {} /\ doomed' = {}
  /\ seen' = [e \in Edges |-> NoRow] /\ step' = [e \in Edges |-> "none"]
  /\ hs' = [e \in Edges |-> None]
  /\ retry' = [u \in Users |-> NoRetry]
  /\ UNCHANGED <<records, row, real, pkg, back, heard, regs, retries, faults>>

Next ==
  \/ Requests
  \/ \E e \in Edges : EdgeStep(e) \/ DispatchItem(e) \/ \E j \in Jobs : DeadlinePasses(j, e)
  \/ Coordinator
  \/ Stop

Spec == Init /\ [][Next]_vars

\* The goroutines of the manager run, its calls return, deadlines pass, and a
\* manager that stopped is started again.
Fairness ==
  /\ WF_vars(Coordinator)
  /\ \A e \in Edges : WF_vars(DispatchItem(e))
  /\ \A e \in Edges, j \in Jobs : WF_vars(DeadlinePasses(j, e))
FairSpec == Spec /\ Fairness

------------------------------------------------------------------------------
(* Properties.                                                             *)

\* "Implementations must keep parent counters consistent with item transitions"
\* (upgrade_job_repo.go): a job that is over has nothing left to do. None of
\* its items is still pending, and its status and counters are those of its
\* items, whatever was retried, requeued or recovered in between.
TerminalMeansDone ==
  \A j \in Jobs : job[j].status \in Finished =>
    /\ Items(j, Pending) = {}
    /\ job[j].sum = Summarize(item[j])
    /\ job[j].status = TerminalStatus(Summarize(item[j]))

\* The barrier between batches: an item is dispatched or awaited only when all
\* items of the batches before its own have their result, also after a restart,
\* an error in the middle of a batch or a retry that numbers the batches anew.
BatchBarrier ==
  \A j \in Jobs : \A d, e \in Edges :
    /\ item[j][e].status \in {"dispatching", "waiting"}
    /\ item[j][d].status \in Pending
    => item[j][e].batch <= item[j][d].batch

\* No more than BatchSize edges of one job are being upgraded at a time.
BatchBounded ==
  \A j \in Jobs : Cardinality(Items(j, {"dispatching", "waiting"})) <= BatchSize

\* A succeeded item was right about its edge when it was judged: after the baseline
\* of the item the edge itself reported the target version, although the coordinator
\* only sees what register_edge wrote, in two steps, of sessions that overlap with
\* dispatches and stops. It is not taken back when the edge is rolled back later.
SuccessIsReported ==
  \A j \in Jobs, e \in Edges :
    item[j][e].status = "succeeded" => heard[e][Target] > item[j][e].base

\* An edge that is online fails verification only for a version it reported after
\* the baseline of its item: what a session before it said is not held against the
\* registration that counts.
FailedBySession ==
  [][\A j \in Jobs, e \in Edges :
       pc = "judge" /\ item[j][e].status = "waiting" /\ item'[j][e].status = "failed"
         => heard[e][Old] > item[j][e].base \/ ~seen[e].online]_vars

\* What a retry resets had failed: a result that came in between the request and
\* its transaction stands.
SucceededStays ==
  [][\A j \in Jobs, e \in Edges :
       item[j][e].status = "succeeded" => item'[j][e].status \in {"succeeded", "none"}]_vars

\* Every job that is queued ends, across stops of the manager, as long as the
\* database answers.
JobsEnd ==
  \A j \in Jobs :
    job[j].status = "queued" ~> job[j].status \in Finished \cup {"gone"}
=============================================================================
