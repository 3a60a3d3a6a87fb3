# Formal models of ongrid

TLA+ models of the parts of ongrid whose correctness depends on the order of
events, checked with TLC on small instances and, where it pays, proved with
TLAPS for every instance. Paths below are relative to the repository;
`PROJECT.json` maps every definition to the lines it models and lists the
hazards, the findings and the mutants (plausible bugs that each property
catches).

1. [The system](#1-the-system)
2. [Plan](#2-plan)
3. [The edge upgrade machine](#3-the-edge-upgrade-machine)
4. [The manager's upgrade jobs](#4-the-managers-upgrade-jobs)
5. [Packet capture](#5-packet-capture)
6. [Root-cause investigations](#6-root-cause-investigations)
7. [Alerts and their notifications](#7-alerts-and-their-notifications)
8. [Runs and bounds](#8-runs-and-bounds)
9. [Fairness](#9-fairness)
10. [What is proved](#10-what-is-proved)
11. [What the code does not guarantee](#11-what-the-code-does-not-guarantee)
12. [Not modelled](#12-not-modelled)
13. [Running it](#13-running-it)

## 1. The system

A **manager** (Go, a relational database, an HTTP API and a web front end)
looks after many **edges**. An edge is a worker process kept by a supervisor; it
opens a tunnel to the manager, registers, sends heartbeats and telemetry, and
serves calls: run a command, capture packets, fetch and apply an upgrade.

| component | state it keeps | operations | interacts with | hard behaviour | what makes it correct |
|---|---|---|---|---|---|
| edge upgrade machine (`internal/edgeagent/upgrademachine`) | binaries with `.previous`, `supervisor.exe` with `.new`/`.old`, a staged bundle, seven small IPC files | BootCheck, Apply, Rollback, SupervisorSelfSwap, HealthPoll | supervisor loop, worker | power loss between any two file operations, failed renames, a goroutine over the same files | binaries change as a set, the last good version stays reachable, the service can always start |
| edge supervisor loop (`cmd/ongrid-edge-supervisor`) | watch flag and deadline | start, watch, kill, roll back | upgrade machine, worker, the SCM | health result racing the deadline, restart of the service | a bad version does not stay; a watch ends |
| edge worker handlers (`internal/edgeagent/biz`) | `incoming/`, `pending`, health marker | agent_upgrade, fetch_package, apply_package, register | manager, upgrade machine | a call while the last upgrade is not settled | what the marker confirms is what is installed |
| edge upgrade jobs (`internal/manager/biz/edge/upgrade_job.go` and its store) | jobs, items | create, retry, claim, dispatch, verify, requeue, recover, clean up | edges (calls, registrations), users, database | one coordinator with concurrent workers, users, restarts, failed database calls | batches keep their barrier, counters agree with items, a result is what the edge reported, jobs end |
| edge registration and enrollment (`internal/manager/biz/edge/usecase.go`, `internal/edgeagent/enrollment`) | edge rows, credentials | register, heartbeat, mark offline, enroll | upgrade jobs, tunnel | concurrent sessions of one edge | a row describes one session |
| operator runs (`internal/manager/biz/operatorrun`, `internal/edgeagent/operator`) | runs and their status | start, cancel, report, time out | edges, UI | cancel racing a late result | terminal states stay, every run ends |
| packet capture (`internal/manager/biz/packetcapture`, `internal/edgeagent/packetcapture`, the AI tool, the operation coordinator) | sessions, capture rows, the edge's tasks, an operation, a chat message | create, dispatch, refresh, cancel, stop, ingest, judge, notify | edges, object store, parser, users, chat | many refreshers of one row, late answers, a stop of the manager or the agent between any two steps | one capture at a time, one parser, results that stay, the chat told once |
| approvals (`internal/manager/biz/approval`) | requests and decisions | ask, decide, consume | AI agent | decided twice, consumed twice | one decision, one use |
| alerts (`internal/manager/biz/alert`) | rules, incidents, silences, delivery rows, the alarms of the last tick | evaluate, open, reopen, resolve, notify, retry, acknowledge, silence | telemetry, users, channels, investigations | users' writes between a tick's reads and writes, two senders, a restart that forgets the last tick | no alarm out of sight, nothing that arrived is sent again, retries end |
| investigations (`internal/manager/biz/alert/investigator`) | report rows, guards, slots, a goroutine per report | enqueue, force, run, sweep at the start | alerts, AI workers, users | a forced re-run beside the goroutine it replaces, a crash between two writes | slots balance, no report spins, every incident gets its verdict |
| IM bridge, AI operations agent, flows and reports, web shell, tunnel, telemetry, devices and topology, skills and knowledge, Kubernetes edge, identity, settings, deployment, web interface, shared packages | rows, sessions, streams | mostly I/O and rows | all | listed in `PROJECT.json` with the reason each is left out | |

The hazards, each at the line where it bites, are in `PROJECT.json`.

## 2. Plan

Most important first: an upgrade replaces the programs that reach the machine,
and what goes wrong there cannot be repaired remotely; a job drives many of
them. After that the components in which several actors change the same rows.

| | module(s) | composition and abstraction | theorems | state |
|---|---|---|---|---|
| 1 | `UpgradeMachine` | `UpgradeContract` through `UpgradeRefinement` | all safety properties, the refinement | done |
| 2 | `UpgradeJobs` | sees of the machine what `UpgradeContract` promises | all safety properties | done |
| 3 | `CaptureEdge`, `PacketCapture` | the second extends the first: the manager's sessions and the edge's queue run side by side | all six properties of `captures` | done |
| 4 | `Investigations` | started by the incidents of 5 | all safety properties | done |
| 5 | `AlertPipeline` | | all safety properties | done |
| 6 | the theorems of 1 under more faults | | what a half rollback and a torn backup leave intact, beyond `SwappedHasBackup` and `OldDroppedOnlyWhenConfirmed` | open |
| 7 | `Approval`, `OperatorRun` | one-shot life cycles | finality | open |

`UpgradeMachine` and `UpgradeJobs` meet in the edge: the jobs see of it that an
accepted package leads to a boot into the new version, which is then confirmed
or rolled back at a later boot, also after the edge has registered with it. That
is what `UpgradeContract` promises (`Install`, then `Confirm` or `Revert`);
`EdgeBoot`, `Confirm` and `EdgeRollback` of `UpgradeJobs` are that promise. `AlertPipeline` and
`Investigations` meet in the incident: the first creates, reopens and resolves
it, the second starts at its creation (`Fire`) and gives up on a resolved one.

## 3. The edge upgrade machine

**Modules.** `UpgradeMachine` is the detailed model, `UpgradeContract` the
abstract one, `UpgradeRefinement` maps the first to the second,
`MCUpgradeMachine` holds the instances. The theorems are in `UpgradeMachineProofs`
(types, rollback), `UpgradeInstallProofs` (what is installed, the refinement) and
`UpgradeSelfSwapProofs` (the two programs), each extending the one before.

**State.** A file is its version, `None` or `Torn`. `bin`/`prev` are the
binaries and their `.previous`; `sup`, `supNew`, `supOld` are `supervisor.exe`
and its `.new` and `.old`; `tar` and `incoming` are the two ways a bundle is
staged; `ipc` holds the small files (`last_upgrade_ver`, `healthy_marker`,
`rollback.done`, `supervisor_upgrade.pending`, `.applied`,
`supervisor_selfswap_awaiting_health`) with the orders of their times that the
code compares. `pc` is the supervisor's next file operation and `phase` tells
BootCheck from the loop; `todo`, `cur`, `why`, `err` are the locals of the
loops; `watch` and `deadline` are those of superviseWorker; `hp`, `hpTodo`,
`confirmed` those of the HealthPoll goroutine. `good` is a history variable:
the version last confirmed.

**Actions.** One step of the supervisor touches at most one file, so a power
loss can fall between any two of them.

| code | actions |
|---|---|
| `machine.go` BootCheck steps 1 to 5 | `BootCheckHealth`, `Restore`, `BootDropOld`, `BootFinishSelfSwap`, `BootUnbrick`, `BootSelfSwap` |
| `machine.go` RollbackAndMark, `rollback.go` | `Rollback` (`RollbackFile`, `RollbackFilesDone`, `WriteRollbackDone`) |
| `apply.go`, `converge.go`, `extract_pending.go`, `manifest.go` | `Apply` (convergence, extraction, validation, swap per binary, staging of the supervisor, meta files, undo) |
| `supervisor_selfswap.go` | `SupervisorSelfSwap` (smoke test, rename aside, rename in, sentinels, undo with rollback) |
| `worker.go` superviseWorker, runWorkerOnce | `SuperviseWorker` |
| `health.go` | `HealthPoll` |
| worker handlers | `WorkerCalls` |
| clock, power | `DeadlinePasses`, `AwaitingAges`, `PowerLoss` |

**Refinement.** `UpgradeContract` knows one installed version, the last
confirmed one and whether the worker runs. While binaries are changed one by
one, the mapping `Installed` is the version of a binary still to change, so
that the abstract change happens with the last one.

**Simplifications.** The small files are written and removed without failing. Of
the operations on binaries every copy and rename may fail, and the removals of
HealthPoll; the removal of `supervisor.exe.new` (convergence, smoke test) and
BootCheck's of `.old` do not. The supervisor is installed
in BinDir, so `.new` needs no relocation. `supervisor.exe.discard` and
`last_upgrade_at` are never read and are left out. The checksum that accompanies
a bundle is taken to match; a failed copy leaves no partial file, a power loss
does. All binaries of a manifest exist from the start, and the manifest itself
is whole or missing. The guard on the stage directory's ACL passes. A HealthPoll
that outlives its worker ends before the next worker starts. Workers orphaned by
a supervisor crash, and the locks running images put on files, are not modelled.
One transfer runs at a time. The `--upgrade` command line, DetectState (it only
feeds a status display) and the heartbeat watchdog (one more way for the worker
to exit, which `WorkerExit` covers) have no actions of their own.

## 4. The manager's upgrade jobs

**Modules.** `UpgradeJobs`, `MCUpgradeJobs` (instances), `UpgradeJobsProofs` and
`UpgradeBatchesProofs`, which extends it.

**State.** `job` and `item` are the two tables (`none` before creation, `gone`
after deletion); `row` is what the edges table holds of an edge, `hs` a
register_edge in progress, `real` and `pkg` what the edge runs and has accepted,
`back` the version it is rolled back to while its upgrade is not confirmed.
`pc`, `cj`, `batch`, `work`, `todo`, `seen`, `doomed` are the coordinator's
position and locals, `step` that of each dispatch worker, `retry` the users'
requests between their reads and their transaction. `heard` is auxiliary: the
last session in which an edge reported a version, which is what success and
failure are measured by.

| code | actions |
|---|---|
| `Create`, `CreateUpgradeJob` | `Create` |
| `Retry`, `RetryUpgradeJob`, `RefreshUpgradeJob` | `RetryRead`, `RetryConflict`, `RetryReset`, `RetryRefresh` |
| `HandleRegister`, `MarkStaleOffline`, heartbeats | `Register`, `Presence`, `Reports` |
| at the edge: `apply-pending-upgrade.sh`, the agent's health marker | `EdgeBoot`, `EdgeRollback`, `Confirm` |
| `dispatchQueued`, `dispatchItem` | `DispatchItem(e)`: `TakeItem`, `MarkDispatching`, `FetchPackage`, `RefreshBaseline`, `ApplyPackage`, `MarkWaiting`, `MarkSettled`, `FailDispatch`, `GiveUp` |
| `Run`, `RecoverUpgradeJobs`, `cleanup` | `Recover`, `FindExpired`, `DeleteExpired` |
| `drain`, `processJob` | `Claim`, `ListItems`, `StartBatch`, `DispatchEnds`, `Recheck`, `EndBatch`, `FinishJob`, `ProcessFails`, `Requeue` |
| `verifyWaiting` | `ReadEdges`, `Judge`, `EndRound` |
| a stop or crash of the manager | `Stop` |

Each database statement or transaction is one action; what is read before one
and used in it is a variable (`seen`, `todo`, `doomed`, `retry[u].snap`).

**Simplifications.** A time is the number of registrations of the edge so far:
baselines, markers and "now" are compared for nothing else. (A marker's time is
thereby taken and written at once.) A verification deadline passes by an action.
`Create` and the reads of `Retry` are one step each. Edges are listed by id, all
of one supported architecture; the bundle catalogue may fail. One register_edge
per edge is in progress. Of the edge's boots those count that change its version;
a health marker may be missing for any reason, so that a rollback may come at any
time before it is written. Panics of the coordinator, clusters with the guard on
their deletion, and the listing calls are left out.

## 5. Packet capture

**Modules.** `CaptureEdge` is the service of the edge agent. `PacketCapture`
extends it with the manager's side, so that the two run side by side and meet in
the calls. `MCPacketCapture` holds the instance, `PacketCaptureProofs` the
theorems.

**State.** `task` is the edge's in-memory table: a state, whether the task's
goroutine has seen its turn, whether its context is cancelled or it is asked to
stop. In the manager, `row` is `packet_captures` (state, and whether the edge's
capture id, the raw object and the parsed artifact are recorded), `session` the
session's row, `op` the AI operation behind it, `chat` the completion messages.
`tool` is the request that creates the session, `work[w]` one refresher: the
coordinator or a user's request, with what it read and still has to do. `used`
counts bounded events.

| code | actions |
|---|---|
| `service_linux.go` Start, Cancel, Stop, Get | `StartTask`, `CancelTask`, `EdgeArrives`, `Answer` |
| `service_linux.go` run, canRunLocked; `capture_linux.go` | `EdgeStep`: `SeesTurn`, `Runs`, `GivesUp`, `Ends` |
| `session.go` CreateSession, `usecase.go` Create, the chat tool | `ToolStep`: `CreateSession`, `InsertMember`, `DispatchMember`, `DispatchFails`, `PersistMember`, `CloseSession`, `OpenOperation`, `BindOperation` |
| `session.go` ReconcileActiveSessions; HTTP refresh, cancel, stop; the operation's cancel action | `Reconcile`, `Request` |
| `usecase.go` Refresh, Cancel, Stop | `AskState`, `AskToEnd`, `AskFails`, `Discard`, `Apply` |
| `usecase.go` ingestCompletedCapture, preserveFailedIngestion | `IngestStep`: `Inspect`, `Claim`, `ReadRaw`, `ReadFails`, `Parse`, `ParseFails`, `Publish`, `Preserve` |
| `session.go` updateSessionAnalysis | `Analyze`, `Store` |
| `packet_capture_operations.go` | `Settle`, `FinishOperation`, `Tell`, `NotifyFails`, `MarkNotified` |
| a stop of the manager, a restart of the agent | `ManagerStops`, `AgentRestarts` |

A step is one database call or one call to the edge. What a worker reads in one
and uses in a later one is in `work[w]` (`seen`, `verdict`), so that late
answers and stale verdicts happen. `Moved` is the store's compare-and-set
(`Transition`), `MoveOp` that of the operation.

**Simplifications.** One session, asked for in a chat, of captures on one edge;
captures without a session, their deletion, downloads and the retention of
files are left out. Waiting for the start time is part of waiting for the turn:
a start time only orders the tasks. A capture is its outcome, a file or an
error. Failures of the database are left out.

## 6. Root-cause investigations

**Modules.** `Investigations`, `MCInvestigations`, `InvestigationsProofs`.

**State.** `incident` and `report` are the two tables, a report by the identity
of its row, its status and whether it names its worker. `guard`, `slots`,
`call`, `todo` and `run` are memory of the manager: `Usecase.inflight`, the
semaphore, each caller's place in the code, the ids of a backfill, and the
goroutine of each row. `up` says whether the manager runs.

| code | actions |
|---|---|
| `RecordFiring` of a new incident, `transition` to resolved | `Fire`, `Resolve` |
| `EnqueueWith` | `Enqueue`: `Enter`, `Acquire`, `NoSlot`, `CreateSkipped`, `Create`, `CreateConflict`, `UndoGuard` |
| `ForceEnqueueWith` | `ForceRerun`, `ForceDelete`, `ForceRelease`, then `Enqueue` |
| `run`, `SpawnWorker` | `Run`: `Spawn`, `SpawnFails`, `WorkerEnds`, `Attach`, `Finish`, `Unguard`, `ReleaseSlot` |
| start: `FailOrphaned`, `BackfillUnstartedIncidents` | `Boot`, `Backfill` |
| a stop or crash of the manager | `Crash` |

**Simplifications.** Incidents are at or above the severity floor; the backfill
sees all of them (the code looks at 100 of the last 24 hours); what a worker
finds is its verdict, an answer or none. Failures of the database are left out.

## 7. Alerts and their notifications

**Modules.** `AlertPipeline`, `MCAlertPipeline`, `AlertPipelineProofs`.

**State.** One rule of kind `metric_raw`. `cond[k]` is whether its expression
returns the label set `k`; `incident`, `silence`, `enabled`, `deleted` and `rows`
(deliveries that have not succeeded) are tables, `recent[k]` whether the
cooldown since `last_notified_at` runs; `snapshot` is the evaluator's memory of
the previous tick, `ev` and `rt` the evaluator's and the retry worker's place in
the code with what they have read, `op[k]` a silence between its two writes.

| code | actions |
|---|---|
| `evaluatePromQuery` | `Query`, `QueryFails`, `StartSweep`, `EndTick` |
| `RecordFiring` | `ReadIncident`, `WriteIncident` |
| `MaybeNotify`, `RecordDelivery`, `FinishDelivery` | `Gate`, `Record`, `Send`, `FinishDelivery`, `MarkNotified` |
| `SystemResolveIncident` | `SweepRead`, `SweepResolve` |
| `retry.go` | `ListDeliveries`, `RetryRead`, `RetrySend`, `RetryUpdate`, `EndPass` |
| `notify.go` | `Sent`, `Answers` |
| users | `Ack`, `Resolve`, `Silence`, `SilenceRow`, `Disable`, `Delete` |
| the world | `Flip`, `CooldownPasses`, `SilenceEnds`, `Crash` |

A send has two outcomes that are not the same: whether the message arrived, and
what the sender is told. One that arrives may be answered after the client's ten
seconds or not at all, and is then recorded as failed (`lost` counts these).

**Simplifications.** The default routing (every enabled channel), no dampening,
no inhibition, no rule edited meanwhile, the router enabled. A pass of the retry
worker lists all rows. Cooldowns, silences and the backoff of
a retry end at any moment. A successful delivery is not looked at again and
frees its slot. Failures of the database are left out.

## 8. Runs and bounds

| run | question | properties |
|---|---|---|
| `rollout` | three bundles, good and bad, one service restart, an edge that settles in between | `NoMixedRun`, `LastGoodRecoverable`, `ConfirmedIsInstalled`, `RolledBackTogether`, `OldNotOverwritten`, `ImplementsContract`, `BadWorkerRolledBack`, `WatchEnds`, `VersionsSettle` |
| `brick` | two bundles, one failed file operation and one restart, a supervisor that fails its smoke test, a bundle without supervisor | `Bootable`, `NoOrphanPending`, `RollbackDoneMeansRestored`, `SwapMatchesWorker` |
| `powerloss` | power lost twice anywhere, torn copies | `TypeOK`, `SwappedHasBackup`, `OldDroppedOnlyWhenConfirmed` |
| `restart` | two edges in two batches, one stop of the manager anywhere, an edge that comes and goes, rollbacks of the edges, fair | `TypeOK`, `BatchBarrier`, `BatchBounded`, `SuccessIsReported`, `FailedBySession`, `JobsEnd` |
| `retries` | two users retry one job of two edges, the record expires, one database call fails | `TerminalMeansDone`, `SucceededStays` |
| `captures` | two captures of a session and any two of: a user who refreshes or cancels, a failure, a stop of the manager, a restart of the agent | `OneCaptureAtATime`, `OneParser`, `ArtifactKept`, `ToldOnce`, `NeverRevived`, `OperationStays` |
| `capturesend` | the same session with a user who stops it or a lost call, fair | `ChatIsTold` |
| `reports` | two incidents and one slot, a forced re-run, a crash anywhere, fair | `SlotsAreHeld`, `ProgressHasRun`, `OwnVerdict`, `EveryIncidentReported` |
| `alerts` | one incident that comes and goes, two channels of which the retry worker knows one, a user, a failed or unanswered send, a crash anywhere, fair | `NoNeedlessResend`, `StaysWatched`, `ClearedIsResolved`, `LastingIsNotified`, `RetriesEnd` |

`halfrollback`, `lateclaim` and `doublerun` each show that a statement of a
comment or a test is not what the code does; see
[section 11](#11-what-the-code-does-not-guarantee).

**Why the bounds are enough.** *Upgrade machine.* Two binaries (worker and
plugin) are the smallest set that can be mixed, and v0, v1, v2 the smallest
number of versions in which a rollback can reach too far back; `rollout` sends
three bundles so that a bad one comes between two others. One restart while the
worker runs, or two power losses anywhere, exercise a recovery and a recovery
interrupted by the next; one failed operation is every undo path once.
`Patient` (the manager sends a bundle only to an edge that has settled) is
stronger than what the manager guarantees, see section 11; the theorems
`NoMixedWorker`, `LastGoodKept`, `ConfirmedInstalled` and `BackupsOfSwapped` do
without it and say which steps break the property. `CrashAt` = {"run"} is
a restart of the service, or a crash, while the worker runs; with `CrashAt`
anywhere `NoMixedRun`, `LastGoodRecoverable` and the contract are not claimed,
since `halfrollback` refutes the first. With a failed operation a half rollback
is retried with the worker running, so they are not claimed in `brick` either.

*Jobs.* Two edges with batch size one give two batches, the smallest barrier; two
registrations are what one upgraded edge (before and after) or two edges need; one
edge that may be seen offline (`MayDrop`) stands beside one that may not;
two users with one retry each are the smallest conflict between a read and a
transaction; one stop falls at every point of dispatch, verification and
recovery. A second job adds the choice of the lowest queued id and an edge that
two jobs upgrade; `restart` with `Edges = {1}` and `Jobs = {1, 2}` gives the same
results.

*Captures.* Two tasks are the smallest queue and give a partial session; the
coordinator and one user are two refreshers of one row, and after a stop a
third. Starts reach the edge in either order.
Requests, failures, stops and restarts are bounded one by one and together
(`MaxEvents`): any two in `captures`, one in `capturesend`.
*Investigations.* Two incidents compete for one slot, so that a request fails
at each gate; three rows are one report each and one that replaces another.
*Alerts.* Two changes of the condition are an alarm and its end, and with the
restart an end nobody saw; one user action beside a tick is the smallest race;
with `MaxAttempts` 2 the retry worker both retries and gives up. One label set
is enough, because no statement relates two incidents.

Runs that may use up their bounds and stop say `CHECK_DEADLOCK FALSE`.

## 9. Fairness

* Machine: weak fairness of the supervisor's loop (a goroutine that does not wait
  for anybody once the worker has gone), of HealthPoll (a ticker), of the passing
  of the deadline and of the kill that follows it (timer and `Kill`). A worker is
  never obliged to exit, to register or to answer; the manager never has to send.
  Liveness is claimed for a bounded number of bundles and restarts.
* Jobs: weak fairness of the coordinator (one goroutine with a poll timer, and a
  process manager that restarts the manager, which is `Recover` after `Stop`), of
  each dispatch worker (its RPCs have timeouts, so every call returns or fails),
  and of the passing of each verification deadline. Users, edges and the network
  owe nothing: an edge may never register again. `JobsEnd` is claimed while the
  database answers.
* Captures: weak fairness of the edge's goroutines, of the tool's request, of the
  coordinator's ticker (`Reconcile`) and of each worker's steps, which are calls
  with timeouts. Users owe nothing. `ChatIsTold` is claimed without a stop of the
  manager: a stop while a row is parsed leaves it so for good (section 11).
* Investigations: weak fairness of all that goes on by itself taken together
  (`Progress`): a manager that stopped is started again, a worker has a time
  limit, nothing waits. No goroutine is promised its turn before another.
* Alerts: weak fairness of the evaluator's and of the retry worker's ticks, and
  of the end of cooldowns and silences. Users, conditions and channels owe
  nothing.

## 10. What is proved

All theorems hold for every value of the constants under the named assumptions
of the modules, hence for any number of edges, jobs, users, captures, incidents,
channels, restarts and failures. Every safety property that a run checks,
invariant or action property, is a theorem. Those about the upgrade machine
that do not hold under all faults have the faults as a hypothesis, which is an
operator on the constants (`Patient`, `CrashAt`, `TornCopies`, `MaxFaults`, ...) of
the proof module; the table below says what each one excludes and why.

**`UpgradeMachineProofs`**

* `TypeCorrect`: `Spec => []TypeOK`. Types alone are not inductive, because actions
  read fields of the staged bundle; `BundleAtHand` says where one is at hand.
  `TypeInv == TypeOK /\ BundleAtHand`, one lemma per group of actions.
* `RollbackIsWhole`: `Spec => []RollbackDoneMeansRestored`. Inductive with
  `RollbackWalk`: during the walk every backup left is still to be visited unless
  something failed, the mark is written only with no backup left, and new backups are
  made only after convergence removed the mark. `RollbackInv` is their conjunction.

**`UpgradeInstallProofs`** and **`UpgradeSelfSwapProofs`**

| hypothesis | power may be lost | operations that may fail | theorems |
|---|---|---|---|
| `Joined` | anywhere, copies torn or not | any number | `BackupsOfSwapped` |
| `CalmFaults` and `Calm` | anywhere but inside a rollback or inside a copy | none | `NoMixedWorker`, `LastGoodKept`, `ConfirmedInstalled` |
| `LossFaults` | anywhere but at `extracted`, copies torn or not | none | `OldKept` for bundles with a VERSION |
| `ContractFaults` | anywhere but at `extracted`, inside a rollback, inside a copy, or between two binaries of an Apply | none | `MachineImplementsContract` |
| `PendingCrashes` | anywhere but at the five steps of `OrphanPcs` | any number | `NoOrphan` |
| `BootFaults` | while the worker runs | one | `ExeIsThere` |
| `PairFaults` | while the worker runs | none | `BackTogether`, `OldSafe` |
| `SwapFaults` | anywhere but at `extracted`, inside a rollback, or inside a copy | one | `SwapMatches` (up to the first restart) |

`Joined` and `Calm` are conditions on steps, `Spec /\ [][Calm]_vars`: the manager
may send anything at any time, and what is excluded are the two windows in which
the code goes wrong (section 11). `Joined` excludes the first: that Apply has
verified its bundle and turns to the binaries while the HealthPoll of the worker
before still lives. `Calm` excludes both: that an Apply begins over backups of a
version older than the confirmed one, or while a HealthPoll lives, unless it will
refuse its bundle and finds no backups. A bundle that comes over an unconfirmed
version, over another bundle, or while HealthPoll cleans up is not excluded. The
other hypotheses but `PendingCrashes` have `Patient`, by which a bundle is sent to
an edge that has settled.

None bounds the bundles or the power losses. `ExeIsThere` and `OldKept`
assume `Unversioned` = {}; `PairFaults` also that every bundle brings a supervisor
and that supervisors pass their smoke test, without which the two programs differ
by design. Each hypothesis includes the run that checks the property (TLC finds
`[][Calm]_vars` true in `rollout` and `[][Joined]_vars` in `powerloss`), but for
`OldKept`: `powerloss` loses power at `extracted` too, where with its one bundle
the property holds. The faults excluded are not matters of proof: outside them
the properties are false (section 11).

* *Backups* (`JoinInv`). From the verification of a bundle to its clearing no
  HealthPoll lives, since one is only started with a worker, and what has been replaced
  has its backup. The rules need nothing of how the machine came there, which is why
  they stand every fault.
* *Confirmed version* (`CalmInv`). The binaries and their backups take one of four
  shapes (`AllGood`, `OnTrial`, `Swapped`, `Residue`), and each place in the code knows
  which (`CalmQuiet`, `CalmRollback`, `CalmApply`). `Residue`, each binary being the
  confirmed one or having it as its backup, is what survives a power loss in the
  middle of an Apply, and what the next convergence undoes. `LastGoodKept` says that all
  four imply it, `NoMixedWorker` and `ConfirmedInstalled` that a worker meets only the
  first two. A HealthPoll deletes backups only when the confirmed version is in place
  (`CalmPoller`, `CalmHealthy`), and an Apply that begins outside the windows finds only
  backups it may roll back.
* *Staging* (`StagingInv`) and *installation* (`InstallInv`) do the same for a patient
  manager, for the refinement and the self-swap. That no Apply runs beside a HealthPoll
  then has its reason many steps earlier: the manager sent the bundle when HealthPoll was
  idle, and a whole bundle is applied before a worker, and with it a HealthPoll, is
  started again (`StagedWaits`). For this to survive a power loss in a rollback, the walk
  must not fail, so every backup it has to visit is still there (`Walking`): those of a
  confirmed version are visited only for the bundle that replaces it, and HealthPoll
  deletes only those of a confirmed version (`PollerWaits`, `HealthyRuns`). The shapes are
  those above (`QuietFiles`, `RollbackFiles`, `ApplyFiles`).
* *Refinement.* `ContractInv` adds `OneVersion`: outside an Apply and a rollback all
  binaries agree, and inside a rollback those still to be restored do. Every step is of
  one of ten kinds (`StepKind`: most leave the binaries alone; others begin, continue or end
  a swap or a rollback, confirm, start or stop the worker). One lemma per group of actions
  names the kind, and one lemma says what each kind does to `Installed`: a stutter, or one
  action of `UpgradeContract`.
* *Self-swap.* `NoOrphan`: the sentinel is written after its `.new` and dropped before or
  with it (`PendingHasFile`), which needs none of the above and stands any failed
  operation. `ExeIsThere`: `BootRules` follows `supervisor.exe` through its four renames; where it
  may be missing its `.old` is there, and something will still put it back.
  `BackTogether` and `OldSafe`: `PairRules` says of every place in the code which of worker,
  `supervisor.exe`, `.new` and `.old` is of the confirmed version. `OldKept`: what awaits a
  confirmation was recorded (`AwaitsInstalled`). `SwapMatches`: `SwapRules` says where a sentinel
  left by a failed self-swap can be (`StaleKept`) and that Apply removes it before it
  stages another.
* *After a failed operation* less is true, and what was true before decides how bad it
  is. The invariants with a failure are therefore stated in two layers: what holds until the
  first one (`faults = 0 => ...`, as in `FaultlessInv`, `QuietUntilFault`, `QuietUntil`) and what holds
  always; the step in which the operation fails uses the first to show the second.
  `SwapInv` does the same with the first restart (`crashes = 0 => ...`). `FaultsCount` and
  `CrashesCount` say that neither counter goes back.

**`UpgradeJobsProofs`**

* `TypeCorrect`: `Spec => []TypeOK`, with `JobAtHand` (the coordinator and a retry
  in flight name a job; workers run only during a dispatch).
* `OverMeansDone`: `Spec => []TerminalMeansDone`. `JobsInv` adds `NoneHasNoItems` (so that
  creation changes no result) and `JudgeWaits` (items a verification round has still
  to judge are waiting, so that their job is open and no retry or deletion can
  reach them). Each action is shown *gentle*: to each job it does one of three things,
  leave the statuses as they are, open it (or delete it), or count its items. The
  lemma `GentleSteps` then carries the invariant over once for all actions; counting is
  related to emptiness by `NoPending` with the library's theorems on finite sets.
* `SuccessStands`: `Spec => SucceededStays`, from the same lemmas: an action writes
  only items that are pending, or, in a retry, those still failed.
* `SuccessIsTrue`: `Spec => []SuccessIsReported`. `TruthInv` follows the claim back to
  the edge: the row, a registration in progress and what a round has read of an edge
  are versions it spoke in a session not older than they say (`Spoken`), and whoever
  claims success for an item (`Claims`) has heard the target after its baseline
  (`Right`). An edge is never heard of less, so a rollback takes no success back; it
  does not make one wrong either, since success says what was reported, not what runs.

**`UpgradeBatchesProofs`** (no hypotheses)

* `BatchesInOrder`: `Spec => []BatchBarrier`. `processJob` lists what is waiting before what is
  queued and takes the lowest batch, but reads, dispatches and judgements are apart, and
  a stop, a failed call, a requeue or a retry may fall between any two. `BatchesInv` says what
  is under way: one batch of the coordinator's job, or what a stop has left and `Recover`
  or `Requeue` puts back before the job can be claimed again.
* `UpgradesBounded`: `Spec => []BatchBounded`. `assignUpgradeBatches` numbers the items of a job by
  their rank; that no batch exceeds `BatchSize` is an argument about ranks (`Rank`, one
  number per item) and about the numbers that fall into one batch, with the library's
  theorems on finite sets; a retry numbers again, and only what failed.
* `FailedByOwnSession`: `Spec => FailedBySession`, from `TruthInv`. A row's version is written
  before its marker, so an edge that is failed while it is seen online reported another
  version after the baseline of its item.

**`PacketCaptureProofs`**

* One inductive invariant, `Inv`, for all but one of the properties of `captures`.
  `ToolInv` says how far the tool has come with each capture: a row that has a
  capture id, an object or a parsed artifact was dispatched, and one that was
  parsed is not gone. `WorkInv` says of each worker what it may still do
  (`Fit`): a worker about to delete a row was told "failed" by the edge, and the edge
  does not take an outcome back, so the row it deletes was never read. `OneOwner`
  says that a claim is held by one worker; `TellInv` relates the chat, the mark and
  the operation.
* `NoArtifactDeleted`, `NoDoubleParse`, `OneCompletion`: from `Inv`. `NothingRevived`
  and `OperationsStay` are action properties: every write goes through the
  compare-and-set, whose expected states exclude the final ones.
* `OneAtATime`: `Spec => []OneCaptureAtATime`, with starts in any order. `canRunLocked` runs
  under the read lock and the task starts under the write lock; `TurnInv` says what is
  true all the same: of two tasks that have their turn, running or about to run, the one
  dispatched later starts earlier, and what was dispatched before a task that is about to
  run and still waits comes after it. Captures do not overlap, therefore, but in the one
  case of section 11, and never when they arrive in the order of their starts.

**`InvestigationsProofs`**

* `NoSlotLeaks` (`SlotsAreHeld`), `NoReportSpins` (`ProgressHasRun`) and `VerdictsAreOwn`
  (`OwnVerdict`), from `Inv`: the holders of a slot are finite sets whose sizes add
  up (`SlotsInv`), nothing of them survives the process (`DownInv`), and a goroutine
  that may still write finds its row in progress or not at all (`RowsInv`).
  Cardinalities move by one with the library's theorems on finite sets.

**`AlertPipelineProofs`**

* `NoAlarmLost` (`StaysWatched`) and `NoDuplicate` (`NoNeedlessResend`), from `Inv`: a tick
  works on a key of its own result (`TickInv`); the evaluator's row is pending and the
  retry worker's has failed, so that they are different rows (`EvRowInv`, `RtRowInv`); and
  `CountInv` bounds the sends of a failed delivery by its attempts, one more for a send
  not yet recorded and one for each restart, and the messages that arrived by the answers
  that were lost, again with one for a send not yet recorded and one for each restart.

**Model-checked only.** Liveness: `BadWorkerRolledBack`, `WatchEnds`, `VersionsSettle`,
`JobsEnd`, `ChatIsTold`, `EveryIncidentReported`, `ClearedIsResolved`, `LastingIsNotified` and
`RetriesEnd`. Fairness is stated with `ENABLED`, which the prover does not reach. What a
recursive definition computes for all inputs is out of its reach too; the modules
use no recursion, so it does not arise here.

## 11. What the code does not guarantee

Shown by a run each (`PROJECT.json`, findings):

| run | what happens |
|---|---|
| `halfrollback` | power lost in the rollback after a missed deadline: BootCheck arms the watch and runs a worker beside plugins of another version |
| `lateclaim` | a refresher that saw a capture before somebody else published it claims it afterwards, finds it parsed and leaves its row parsing: the artifact is not served, no refresh looks at that state, and the session collects for ever |
| `doublerun` | a forced re-run stops no worker, because the row of a report names its worker only when it has ended; two workers run for one incident |

Read off the code while modelling, and the reason why a property is claimed only
where it is (no run of its own):

*Upgrade machine*

* Between the two renames of the self-swap there is no `supervisor.exe`; a power
  loss there cannot be repaired by a service that cannot start. `Bootable` is
  claimed for failed operations and restarts.
* A bundle applied after a confirmation but before the backups are removed undoes the
  confirmed version, and HealthPoll, which is not joined, may remove backups that
  the next Apply has just made. These are the two windows that `Calm` and `Joined` name
  (section 10).
* A worker that exits when its deadline has passed disarms the watch even if it was
  confirmed meanwhile (`worker.go:240-248`); its backups then stay while the service runs,
  and the next bundle, whenever it comes, may fall into the first of these windows.
* A worker-only bundle applied by BootCheck is not watched: a worker that never
  registers stays.
* A copy cut short passes for a backup (`apply.go`, backup before swap).
* A bundle without VERSION lets BootCheck drop `.old` while its worker is on trial.
  `OldDroppedOnlyWhenConfirmed` is claimed for bundles that carry one; the constant
  `Unversioned` models the others.
* `extract_pending.go` removes the tarball after it is unpacked (:66-71), and `ClearPending`
  (`health.go`) only `incoming/`. If power is lost between the two, BootCheck applies
  `incoming/`, and the tarball is unpacked and applied again when the worker exits. With a second
  bundle this may undo a confirmed version (`LastGoodRecoverable` fails: the convergence rolls
  back the backups HealthPoll has not yet removed) or let HealthPoll of the first installation
  delete a backup that the second has just made (`SwappedHasBackup` fails): the second
  application falls into one of the two windows above, of which no manager's patience
  keeps it out.
* A rollback cut short leaves the binaries mixed, and what is mixed can be confirmed:
  a new worker next to restored plugins registers. `NoMixedRun`, `LastGoodRecoverable` and
  `ConfirmedIsInstalled` are claimed for power lost elsewhere.
* Comments on `fetch_package` say it removes `rollback.done`; the convergence does.
* A self-swap whose rename failed keeps its pending sentinel through a rollback of
  the worker, and the next start swaps that supervisor in under the old worker:
  `SwapMatchesWorker` is claimed up to the first restart of the service (`crashes`
  = 0); in `brick` one restart is enough to break it without that condition. Without
  a restart one failed operation does not break it (`SwapMatches`), two do: the supervisor
  that could not be set aside for its restoration stays, and so does the sentinel of
  the swap that fails next.

*Upgrade jobs*

* Success is what an edge reported. An edge that registers with the target, is confirmed
  by nobody and is rolled back later keeps its `succeeded` item.
* A forced reinstallation, interrupted before anything was applied, is reported
  succeeded: the attempt counter, which a retry keeps too, lets the registration
  of another attempt pass for its result.
* The clean-up deletes a job that was retried after its id was read.
* An edge that registered with the right version but is seen offline is failed as
  `version_mismatch`; `FailedBySession` leaves such edges out.
* A job that could not be requeued stays running until the manager restarts, and
  `Run` returns for good when the recovery at the start fails (the state `dead`).

*Packet capture*

* Captures of an edge dispatched out of the order of their start times can overlap:
  one sees its turn, an earlier one arrives and sees its own, both start.
  `OneCaptureAtATime` allows this case and no other.
* A manager that stops while it parses leaves the row parsing; no refresh looks at
  that state, and the session is never told. `ChatIsTold` is claimed without stops, and
  without the refreshes of a user that `lateclaim` is about.
* A session without members yet counts as failed, so a tick of the coordinator
  between the creation of the session and of its first member tells the chat so.

*Investigations*

* A forced re-run while all slots are taken deletes a finished report and leaves
  "skipped" in its place.
* The backfill looks at 100 incidents of the last 24 hours; older ones stay
  without a report.

*Alerts*

* The alarms of the previous tick are in memory: an incident whose condition clears
  while the manager restarts stays open. A failed `SystemResolveIncident` is not
  tried again either, since the snapshot moves on.
* An acknowledgement or a silence that was read before a resolution and written
  after it opens the incident again, out of the evaluator's sight.
* The status "silenced" mutes nothing: its `silenced_until` is the moment of the
  request. The silence row mutes.
* A send that is answered after ten seconds, or whose answer is lost, is recorded failed
  and sent again: the channel gets the message once more for each (`lost`).
* A delivery to a channel that was deleted is not found by the retry worker and uses no
  attempt up: it is looked at again in every pass, for ever, which `RetriesEnd` excepts. A
  pass takes the 200 rows with the lowest ids, so 200 of these starve every later one.
* A router that is switched off drops a message and reports success.
* A retry looks the channel up by name in the notifier, which knows only channels of
  the environment: deliveries to a channel made in the UI fail at every retry.
* Resolving an incident by hand while its condition holds reopens it at the next tick
  and starts its workflow again; `usecase.go:499` says a reopen requires the
  condition to have cleared first.
* A burn-rate rule whose query fails counts as not firing, and its incidents are
  resolved (`pipeline.go`, not modelled).

## 12. Not modelled

* **Failures of the database** in captures, investigations and alerts (one is
  modelled for jobs). They are logged and passed over nearly everywhere, so that any
  statement about the rows would be about the next successful call.
* **Retention, deletion, downloads and single captures** of packet capture.
* **Dampening, inhibition, routing, templates, the workflow and the other rule
  kinds** of alerting. The other kinds share the firing path and the sweep with
  `metric_raw`; what differs is the query.
* **The AI agent, automation flows, skills and the IM bridge.** Their control is
  decided by a language model or by a user's graph, and what remains is I/O.
* **Tunnel, telemetry, the web shell, topology, Kubernetes, identity, settings,
  knowledge, the web interface**: requests on rows, proxies, byte streams or
  presentation, without a protocol of their own that a state machine would show.
* **Approvals and operator runs**: life cycles of one row, next on the plan.

## 13. Running it

    tlc -workers 2 -config rollout.cfg MCUpgradeMachine.tla
    tlc -workers 2 -config restart.cfg MCUpgradeJobs.tla
    tlc -workers 2 -config captures.cfg MCPacketCapture.tla
    tlc -workers 2 -config reports.cfg MCInvestigations.tla
    tlc -workers 2 -config alerts.cfg MCAlertPipeline.tla
    tlapm PacketCaptureProofs.tla      # and the other *Proofs.tla

Definitions commented "mutant" are plausible bugs, each a replacement for the
definition that follows; they are in no behaviour of the specifications. The cfg of
a run names its properties; a run takes seconds to a few minutes.
