--------------------------- MODULE UpgradeMachine ---------------------------
(***************************************************************************)
(* The Windows edge upgrade machine: the supervisor (a service the SCM     *)
(* restarts) that installs bundles the worker staged, watches the new      *)
(* worker until it registers, and rolls it back when it does not.          *)
(*                                                                         *)
(* Source: internal/edgeagent/upgrademachine (BootCheck, Apply,            *)
(* SupervisorSelfSwap, Rollback, HealthPoll), cmd/ongrid-edge-supervisor   *)
(* (superviseWorker, runWorkerOnce) and the worker's handlers in           *)
(* internal/edgeagent/biz.                                                 *)
(*                                                                         *)
(* Each step of the supervisor touches at most one file, so that a power   *)
(* loss can fall between any two of them: `pc` is the next file operation. *)
(* HealthPoll is a goroutine of its own (`hp`); the worker acts while      *)
(* pc = "run".  File times are kept only as the two orders the code reads  *)
(* (rbNewer, pendNewer) and as the age of one sentinel (aged).             *)
(*                                                                         *)
(* Simplified: sentinel files are written and removed without failing,     *)
(* only copies and renames of binaries may fail; supervisor.exe is         *)
(* installed in BinDir, so its .new needs no relocation; supervisor.exe    *)
(* .discard and last_upgrade_at are never read and are left out; a         *)
(* straggling HealthPoll ends before the next worker is started.           *)
(***************************************************************************)
EXTENDS Naturals

CONSTANTS
  Dests,           \* binaries a bundle swaps in place: the worker and its plugins
  Worker,          \* the one of them that is the worker
  Sup,             \* the manifest entry of supervisor.exe
  V0,              \* the version installed at first
  Versions,        \* the versions the manager can send
  WorkerOnly,      \* those whose bundle has no supervisor.exe
  Unversioned,     \* those whose bundle has no VERSION file
  BadWorkers,      \* those whose worker never registers
  BadSupervisors,  \* those whose supervisor fails `--version`
  None,            \* no file, or an empty one
  Torn,            \* a file cut short
  Patient,         \* the manager sends a bundle only to an edge that has settled
  CrashAt,         \* the values of pc at which the machine may lose power
  TornCopies,      \* power loss in a copy leaves a torn file
  MaxFetches,      \* bounds: bundles sent,
  MaxCrashes,      \*         power losses or service restarts,
  MaxFaults        \*         copies, renames and removals of binaries that fail

ASSUME WorkerAssumption == Worker \in Dests /\ Sup \notin Dests

VARIABLES
  bin, prev,             \* BinDir: each dest and its dest.previous
  sup, supNew, supOld,   \* supervisor.exe, .new, .old
  tar, incoming,         \* StageDir: pending and incoming/
  fetching,              \* the worker is filling incoming/
  ipc,                   \* StageDir: the small files, see IPC below
  pc, phase,             \* the supervisor: next operation; inside BootCheck or after it
  todo, cur, why, err,   \* loop set, current dest, caller of Rollback, an error so far
  watch, deadline,       \* superviseWorker's watchUpgrade and watchDeadline
  hp, hpTodo, confirmed, \* HealthPoll, the backups it walks, its result was received
  good,                  \* history: the last version confirmed healthy
  fetches, crashes, faults

binaries == <<bin, prev, sup, supNew, supOld>>
staged == <<tar, incoming, fetching>>
loop == <<todo, cur, why, err>>
watching == <<watch, deadline>>
poller == <<hp, hpTodo, confirmed>>
history == <<good, fetches, crashes, faults>>
vars == <<binaries, staged, ipc, pc, phase, loop, watching, poller, history>>

AllVersions == Versions \cup {V0}
File == AllVersions \cup {None, Torn}

\* A bundle tree: every file there, the last one cut short, or some missing.
Bundle == [ver : Versions, files : {"whole", "short", "missing"}]

\* No file, and one cut short, are told apart from the versions and from each other.
ASSUME NoneAssumption ==
  None \notin AllVersions \cup Bundle \cup {Torn} /\ Torn \notin AllVersions

IPC == [lastVer : AllVersions \cup {None},  \* last_upgrade_ver
        marker : AllVersions \cup {None},   \* healthy_marker
        rbDone : BOOLEAN,                   \* rollback.done
        supPend : BOOLEAN,                  \* supervisor_upgrade.pending
        applied : BOOLEAN,                  \* supervisor_upgrade.applied
        awaiting : BOOLEAN,                 \* supervisor_selfswap_awaiting_health
        rbNewer : BOOLEAN,                  \* rollback.done written after awaiting
        pendNewer : BOOLEAN,                \* pending written after applied
        aged : BOOLEAN]                     \* awaiting is older than its maximum age

BootPcs == {"boot1", "restoreAside", "restoreBack", "restoreAwaiting",
            "restoreApplied", "boot2", "boot3", "boot3applied",
            "boot3pending", "boot4", "boot5"}
RunPcs == {"start", "run", "exit", "end", "rolledBack", "applied"}
RollbackPcs == {"rollback", "mark"}
ConvergePcs == {"cleanNew", "cleanPending", "cleanRollbackDone"}
InstallPcs == {"verify", "swap", "place", "stage", "undo", "metaVer",
               "metaMarker", "clear"}
SelfSwapPcs == {"smoke", "smokeFailed", "aside", "replace", "unswap",
                "resetVer", "resetRest", "markApplied", "markAwaiting",
                "dropPending"}
ExtractPcs == {"extract", "extracting", "extracted"}
Pcs == {"off"} \cup BootPcs \cup RunPcs \cup RollbackPcs \cup ConvergePcs
         \cup InstallPcs \cup SelfSwapPcs \cup ExtractPcs

Callers == {"boot", "forced", "deadline", "brick", "converge"}

TypeOK ==
  /\ bin \in [Dests -> File] /\ prev \in [Dests -> File]
  /\ sup \in File /\ supNew \in File /\ supOld \in File
  /\ tar \in Versions \cup {None} /\ incoming \in Bundle \cup {None}
  /\ fetching \in BOOLEAN
  /\ ipc \in IPC
  /\ pc \in Pcs /\ phase \in {"boot", "run"}
  /\ todo \subseteq Dests \cup {Sup} /\ cur \in Dests
  /\ why \in Callers /\ err \in BOOLEAN
  /\ watch \in BOOLEAN /\ deadline \in {"none", "armed", "passed"}
  /\ hp \in {"idle", "poll", "clean", "old", "await"} /\ hpTodo \subseteq Dests
  /\ confirmed \in BOOLEAN
  /\ good \in AllVersions
  /\ fetches \in Nat /\ crashes \in Nat /\ faults \in Nat

Init ==
  /\ bin = [d \in Dests |-> V0] /\ prev = [d \in Dests |-> None]
  /\ sup = V0 /\ supNew = None /\ supOld = None
  /\ tar = None /\ incoming = None /\ fetching = FALSE
  /\ ipc = [lastVer |-> None, marker |-> None, rbDone |-> FALSE,
            supPend |-> FALSE, applied |-> FALSE, awaiting |-> FALSE,
            rbNewer |-> FALSE, pendNewer |-> FALSE, aged |-> FALSE]
  /\ pc = "off" /\ phase = "boot"
  /\ todo = {} /\ cur = Worker /\ why = "boot" /\ err = FALSE
  /\ watch = FALSE /\ deadline = "none"
  /\ hp = "idle" /\ hpTodo = {} /\ confirmed = FALSE
  /\ good = V0
  /\ fetches = 0 /\ crashes = 0 /\ faults = 0

-----------------------------------------------------------------------------
(* Helpers *)

HasLastUpgrade == ipc.lastVer # None
IsUpgradeHealthy == ipc.lastVer # None /\ ipc.lastVer = ipc.marker
IsPending == incoming # None
Backups == {d \in Dests : prev[d] # None}
Entries(v) == Dests \cup (IF v \in WorkerOnly THEN {} ELSE {Sup})

\* One more of the binary operations that may fail.
Fault == faults < MaxFaults /\ faults' = faults + 1
NoFault == faults' = faults
Bounded == UNCHANGED <<good, fetches, crashes>>

\* A step that only moves the control, or only writes sentinel files.
Goto(l) == pc' = l
Jump(from, to) ==
  /\ pc = from /\ Goto(to)
  /\ UNCHANGED <<binaries, staged, ipc, phase, loop, watching, poller, history>>
Write(from, to, files) ==
  /\ pc = from /\ Goto(to)
  /\ ipc' = files
  /\ UNCHANGED <<binaries, staged, phase, loop, watching, poller, history>>

\* Entering Rollback: the walk sees the backups that are there now.
CallRollbackOfWorker(caller) ==  \* mutant: the walk does not descend to the plugins
  Goto("rollback") /\ why' = caller /\ todo' = Backups \cap {Worker}
    /\ err' = FALSE /\ cur' = cur
CallRollback(caller) ==
  Goto("rollback") /\ why' = caller /\ todo' = Backups /\ err' = FALSE /\ cur' = cur

\* Where Apply and SupervisorSelfSwap return to.
ApplyFailed == IF phase = "boot" THEN "boot3" ELSE "end"
ApplyDone == IF phase = "boot" THEN "boot3" ELSE "applied"

\* superviseWorker goes on to watch after an applied bundle, also when the
\* self-swap that follows it fails; BootCheck only records the error.
WatchAnew == watch' = TRUE /\ deadline' = "none"
SelfSwapFailed ==
  /\ Goto("start")
  /\ IF phase = "run" THEN WatchAnew ELSE UNCHANGED watching

-----------------------------------------------------------------------------
(* BootCheck.  The SCM starts the service from supervisor.exe.            *)

Boot ==
  /\ pc = "off" /\ sup \notin {None, Torn}
  /\ Goto("boot1") /\ phase' = "boot"
  /\ watch' = FALSE /\ deadline' = "none"
  /\ todo' = {} /\ cur' = Worker /\ why' = "boot" /\ err' = FALSE
  /\ hp' = "idle" /\ hpTodo' = {} /\ confirmed' = FALSE
  /\ UNCHANGED <<binaries, staged, ipc, history>>

\* Step 1: an old rollback.done does not count against a newer self-swap.
BootClearStaleRollbackDone ==
  /\ ipc.rbDone /\ ipc.awaiting /\ ~ipc.rbNewer
  /\ Write("boot1", "boot1", [ipc EXCEPT !.rbDone = FALSE])

BootRestoreSupervisor ==
  /\ ipc.rbDone /\ ipc.awaiting /\ ipc.rbNewer
  /\ Jump("boot1", "restoreAside")

BootClearAgedAwaiting ==
  /\ ~ipc.rbDone /\ ipc.awaiting /\ ipc.aged /\ IsUpgradeHealthy
  /\ Write("boot1", "boot2", [ipc EXCEPT !.awaiting = FALSE])

BootForceDualRollback ==
  /\ pc = "boot1"
  /\ ~ipc.rbDone /\ ipc.awaiting /\ ipc.aged /\ ~IsUpgradeHealthy
  /\ CallRollback("forced")
  /\ UNCHANGED <<binaries, staged, ipc, phase, watching, poller, history>>

BootSkipWatch ==  \* mutant: the sentinel is seen, the watch is not armed
  ~ipc.rbDone /\ ipc.awaiting /\ ~ipc.aged /\ Jump("boot1", "boot2")
BootArmWatch ==
  /\ pc = "boot1"
  /\ ~ipc.rbDone /\ ipc.awaiting /\ ~ipc.aged
  /\ Goto("boot2") /\ watch' = TRUE
  /\ UNCHANGED <<binaries, staged, ipc, phase, loop, deadline, poller, history>>

BootRollback ==
  /\ pc = "boot1"
  /\ ~ipc.rbDone /\ ~ipc.awaiting /\ HasLastUpgrade /\ ~IsUpgradeHealthy
  /\ CallRollback("boot")
  /\ UNCHANGED <<binaries, staged, ipc, phase, watching, poller, history>>

BootNothingToUndo ==
  /\ ~ipc.awaiting /\ (ipc.rbDone \/ ~HasLastUpgrade \/ IsUpgradeHealthy)
  /\ Jump("boot1", "boot2")

BootCheckHealth ==
  \/ BootClearStaleRollbackDone \/ BootRestoreSupervisor
  \/ BootClearAgedAwaiting \/ BootForceDualRollback
  \/ BootArmWatch \/ BootRollback \/ BootNothingToUndo

\* restoreSupervisorFromOld: running exe aside, .old back, sentinels away, exit.
RestoreNothing ==
  /\ supOld = None
  /\ Write("restoreAside", "boot2", [ipc EXCEPT !.awaiting = FALSE])

RestoreAside ==
  /\ pc = "restoreAside" /\ supOld # None
  /\ \/ sup' = None /\ Goto("restoreBack") /\ NoFault
     \/ Fault /\ sup # None /\ Goto("boot2") /\ UNCHANGED sup
  /\ Bounded
  /\ UNCHANGED <<bin, prev, supNew, supOld, staged, ipc, phase, loop, watching, poller>>

RestoreBack ==
  /\ pc = "restoreBack"
  /\ \/ sup' = supOld /\ supOld' = None /\ Goto("restoreAwaiting") /\ NoFault
     \/ Fault /\ Goto("boot2") /\ UNCHANGED <<sup, supOld>>
  /\ Bounded
  /\ UNCHANGED <<bin, prev, supNew, staged, ipc, phase, loop, watching, poller>>

RestoreClear ==
  \/ Write("restoreAwaiting", "restoreApplied", [ipc EXCEPT !.awaiting = FALSE])
  \/ Write("restoreApplied", "off", [ipc EXCEPT !.applied = FALSE])

Restore == RestoreNothing \/ RestoreAside \/ RestoreBack \/ RestoreClear

\* Step 3: applied is the proof that a self-swap finished.  .old goes only when
\* nothing is left to confirm; a pending older than applied is an orphan.
BootDropOldAlways ==  \* mutant: .old goes although health is not confirmed
  /\ pc = "boot3" /\ ipc.applied
  /\ Goto("boot3applied") /\ supOld' = None
  /\ UNCHANGED <<bin, prev, sup, supNew, staged, ipc, phase, loop, watching, poller, history>>
BootDropOld ==
  /\ pc = "boot3" /\ ipc.applied
  /\ Goto("boot3applied")
  /\ supOld' = IF ~HasLastUpgrade \/ IsUpgradeHealthy THEN None ELSE supOld
  /\ UNCHANGED <<bin, prev, sup, supNew, staged, ipc, phase, loop, watching, poller, history>>

BootDropApplied ==
  LET newCyclePending == ipc.supPend /\ ipc.pendNewer IN
  Write("boot3applied", IF newCyclePending THEN "boot4" ELSE "boot3pending",
        [ipc EXCEPT !.applied = FALSE])

BootDropOrphan == Write("boot3pending", "boot4", [ipc EXCEPT !.supPend = FALSE])

BootFinishSelfSwap ==
  \/ BootDropOld \/ BootDropApplied \/ BootDropOrphan
  \/ ~ipc.applied /\ Jump("boot3", "boot4")

\* Step 4: supervisor.exe is missing and .old exists.
BootUnbrick ==
  /\ pc = "boot4" /\ Goto("boot5")
  /\ IF sup = None /\ supOld # None
       THEN \/ sup' = supOld /\ supOld' = None /\ NoFault
            \/ Fault /\ UNCHANGED <<sup, supOld>>
       ELSE NoFault /\ UNCHANGED <<sup, supOld>>
  /\ Bounded
  /\ UNCHANGED <<bin, prev, supNew, staged, ipc, phase, loop, watching, poller>>

\* Step 5, and the same test after an applied bundle in superviseWorker.
BootSelfSwap ==
  \/ ipc.supPend /\ Jump("boot5", "smoke")
  \/ ~ipc.supPend /\ Jump("boot5", "start")

-----------------------------------------------------------------------------
(* Rollback and RollbackAndMark: every dest.previous back to its dest.     *)

AfterRollback(ok) ==
  CASE why = "boot" -> "boot2"
    [] why = "forced" -> "restoreAside"
    [] why = "deadline" -> IF ok THEN "rolledBack" ELSE "start"
    [] why = "brick" -> "unswap"
    [] why = "converge" -> "cleanNew"

\* A backup that is gone when the walk reaches it is an error like any other.
RollbackFile ==
  /\ pc = "rollback"
  /\ \E d \in todo :
       /\ todo' = todo \ {d}
       /\ \/ /\ prev[d] # None
             /\ bin' = [bin EXCEPT ![d] = prev[d]]
             /\ prev' = [prev EXCEPT ![d] = None]
             /\ err' = err /\ NoFault
          \/ prev[d] = None /\ NoFault /\ err' = TRUE /\ UNCHANGED <<bin, prev>>
          \/ Fault /\ err' = TRUE /\ UNCHANGED <<bin, prev>>
  /\ Bounded
  /\ UNCHANGED <<sup, supNew, supOld, staged, ipc, pc, phase, cur, why, watching, poller>>

RollbackFilesDoneAnyway ==  \* mutant: a file that failed does not fail the rollback
  /\ pc = "rollback" /\ todo = {}
  /\ Goto(IF why = "converge" THEN "cleanNew" ELSE "mark")
  /\ UNCHANGED <<binaries, staged, ipc, phase, loop, watching, poller, history>>
RollbackFilesDone ==
  /\ pc = "rollback" /\ todo = {}
  /\ \/ ~err /\ Goto(IF why = "converge" THEN "cleanNew" ELSE "mark")
        /\ UNCHANGED watching
     \/ err /\ why = "converge" /\ Goto(ApplyFailed) /\ UNCHANGED watching
     \/ err /\ why = "brick" /\ SelfSwapFailed
     \/ err /\ why \notin {"converge", "brick"} /\ Goto(AfterRollback(FALSE))
        /\ UNCHANGED watching
  /\ UNCHANGED <<binaries, staged, ipc, phase, loop, poller, history>>

WriteRollbackDone ==
  Write("mark", AfterRollback(TRUE), [ipc EXCEPT !.rbDone = TRUE, !.rbNewer = TRUE])

Rollback == RollbackFile \/ RollbackFilesDone \/ WriteRollbackDone

-----------------------------------------------------------------------------
(* Apply, from BootCheck step 2 and from CheckPending.                     *)

\* Where BootCheck and runWorkerOnce look for a bundle.
Looking == pc \in {"boot2", "exit"}

ApplyNothing == ~IsPending /\ tar = None /\ Looking /\ Jump(pc, ApplyFailed)

\* ExtractPendingBundle: incoming/ fills up, then the tarball goes.
ExtractBegin ==
  /\ Looking /\ ~IsPending /\ tar # None
  /\ Goto("extract")
  /\ UNCHANGED <<binaries, staged, ipc, phase, loop, watching, poller, history>>

ExtractSome ==
  /\ pc = "extract"
  /\ \/ /\ \E f \in {"missing", "short"} : incoming' = [ver |-> tar, files |-> f]
        /\ \/ Goto("extracting") /\ NoFault
           \/ Fault /\ Goto(IF phase = "boot" THEN "boot2" ELSE "end")
     \/ Fault /\ Goto(ApplyFailed) /\ UNCHANGED incoming
  /\ Bounded
  /\ UNCHANGED <<binaries, tar, fetching, ipc, phase, loop, watching, poller>>

ExtractAll ==
  /\ pc = "extracting" /\ Goto("extracted")
  /\ incoming' = [ver |-> tar, files |-> "whole"]
  /\ UNCHANGED <<binaries, tar, fetching, ipc, phase, loop, watching, poller, history>>

ExtractDropTar ==
  /\ pc = "extracted" /\ CallRollback("converge")
  /\ tar' = None
  /\ UNCHANGED <<binaries, incoming, fetching, ipc, phase, watching, poller, history>>

ExtractPendingBundle == ExtractBegin \/ ExtractSome \/ ExtractAll \/ ExtractDropTar

\* ValidateAllEntries fails on a missing source before anything is touched.
ApplyInvalid ==
  /\ Looking /\ IsPending /\ incoming.files = "missing"
  /\ Jump(pc, ApplyFailed)

\* ConvergeResidualBackups starts with a rollback of whatever backups there are.
ApplyConverge ==
  /\ Looking /\ IsPending /\ incoming.files # "missing"
  /\ CallRollback("converge")
  /\ UNCHANGED <<binaries, staged, ipc, phase, watching, poller, history>>

\* cleanupSupervisorStaging, shared with recoverFailedApply (err is set there).
CleanNothing ==  \* mutant: the supervisor staged by an earlier bundle stays
  Jump("cleanNew", IF err THEN ApplyFailed ELSE "cleanRollbackDone")
CleanNew ==
  /\ pc = "cleanNew" /\ Goto("cleanPending")
  /\ supNew' = None
  /\ UNCHANGED <<bin, prev, sup, supOld, staged, ipc, phase, loop, watching, poller, history>>

CleanPending ==
  Write("cleanPending", IF err THEN ApplyFailed ELSE "cleanRollbackDone",
        [ipc EXCEPT !.supPend = FALSE])

CleanRollbackDone ==
  Write("cleanRollbackDone", "verify", [ipc EXCEPT !.rbDone = FALSE])

ConvergeResidualBackups ==
  ApplyConverge \/ CleanNew \/ CleanPending \/ CleanRollbackDone

\* VerifyAll: all the hashes before any dest is touched.
VerifyAll ==
  /\ pc = "verify"
  /\ IF incoming.files = "whole"
       THEN Goto("swap") /\ todo' = Entries(incoming.ver)
       ELSE Goto(ApplyFailed) /\ todo' = todo
  /\ UNCHANGED <<binaries, staged, ipc, phase, cur, why, err, watching, poller, history>>

\* A failed entry: put back what was backed up, then unstage the supervisor.
SwapFailed ==
  /\ Fault /\ Goto("undo") /\ err' = TRUE /\ todo' = Backups

\* applyOne, first half: dest is copied to dest.previous.
BackupDestNot ==  \* mutant: no backup is made
  /\ pc = "swap" /\ Goto("place")
  /\ \E d \in todo \cap Dests : cur' = d
  /\ UNCHANGED <<binaries, staged, ipc, phase, todo, why, err, watching, poller, history>>
BackupDest ==
  /\ pc = "swap"
  /\ \E d \in todo \cap Dests :
       /\ cur' = d
       /\ \/ /\ prev' = [prev EXCEPT ![d] = bin[d]]
             /\ Goto("place") /\ NoFault /\ UNCHANGED <<todo, err>>
          \/ SwapFailed /\ UNCHANGED prev
  /\ Bounded
  /\ UNCHANGED <<bin, sup, supNew, supOld, staged, ipc, phase, why, watching, poller>>

\* applyOne, second half: dest.new is renamed over dest.
PlaceBundle ==  \* mutant: the bundle is renamed over dest, not the entry's file
  /\ pc = "place" /\ Goto("swap")
  /\ bin' = [bin EXCEPT ![cur] = incoming] /\ todo' = todo \ {cur}
  /\ UNCHANGED <<prev, sup, supNew, supOld, staged, ipc, phase, cur, why, err>>
  /\ UNCHANGED <<watching, poller, history>>
PlaceDest ==
  /\ pc = "place"
  /\ \/ /\ bin' = [bin EXCEPT ![cur] = incoming.ver]
        /\ todo' = todo \ {cur}
        /\ Goto("swap") /\ NoFault /\ UNCHANGED err
     \/ SwapFailed /\ UNCHANGED bin
  /\ Bounded
  /\ UNCHANGED <<prev, sup, supNew, supOld, staged, ipc, phase, cur, why, watching, poller>>

\* applyOne for supervisor.exe: .new and the sentinel, no swap.
StageSupervisor ==
  /\ pc = "swap" /\ Sup \in todo
  /\ \/ supNew' = incoming.ver /\ Goto("stage") /\ NoFault /\ UNCHANGED <<todo, err>>
     \/ SwapFailed /\ UNCHANGED supNew
  /\ Bounded
  /\ UNCHANGED <<bin, prev, sup, supOld, staged, ipc, phase, cur, why, watching, poller>>

StagePending ==
  /\ pc = "stage" /\ Goto("swap")
  /\ ipc' = [ipc EXCEPT !.supPend = TRUE, !.pendNewer = TRUE]
  /\ todo' = todo \ {Sup}
  /\ UNCHANGED <<binaries, staged, phase, cur, why, err, watching, poller, history>>

\* recoverFailedApply.
RecoverFile ==
  /\ pc = "undo"
  /\ \E d \in todo :
       /\ todo' = todo \ {d}
       /\ \/ /\ prev[d] # None
             /\ bin' = [bin EXCEPT ![d] = prev[d]]
             /\ prev' = [prev EXCEPT ![d] = None]
             /\ NoFault
          \/ prev[d] = None /\ NoFault /\ UNCHANGED <<bin, prev>>
          \/ Fault /\ UNCHANGED <<bin, prev>>
  /\ Bounded
  /\ UNCHANGED <<sup, supNew, supOld, staged, ipc, pc, phase, cur, why, err, watching, poller>>

RecoverFailedApply == RecoverFile \/ (pc = "undo" /\ todo = {} /\ Jump("undo", "cleanNew"))

ApplyBundle ==
  \/ VerifyAll \/ BackupDest \/ PlaceDest \/ StageSupervisor \/ StagePending
  \/ RecoverFailedApply
  \/ todo = {} /\ Jump("swap", "metaVer")

\* WriteUpgradeMeta: first the version, then the old marker goes.
WriteUpgradeMeta ==
  \/ Write("metaVer", "metaMarker",
           [ipc EXCEPT !.lastVer =
              IF incoming.ver \in Unversioned THEN None ELSE incoming.ver])
  \/ Write("metaMarker", "clear", [ipc EXCEPT !.marker = None])

ClearPendingNot ==  \* mutant: the bundle that was applied stays staged
  pc = "clear" /\ Jump("clear", ApplyDone)
ClearPending ==
  /\ pc = "clear" /\ Goto(ApplyDone)
  /\ incoming' = None
  /\ UNCHANGED <<binaries, tar, fetching, ipc, phase, loop, watching, poller, history>>

Apply ==
  \/ ApplyNothing \/ ExtractPendingBundle \/ ApplyInvalid
  \/ ConvergeResidualBackups \/ ApplyBundle \/ WriteUpgradeMeta \/ ClearPending

-----------------------------------------------------------------------------
(* SupervisorSelfSwap: rename aside, rename in, leave the proof, restart.  *)

SmokeTest ==
  /\ pc = "smoke"
  /\ CASE supNew = None -> SelfSwapFailed /\ UNCHANGED supNew
       [] supNew \in {Torn} \cup BadSupervisors ->
            Goto("smokeFailed") /\ supNew' = None /\ UNCHANGED watching
       [] supNew \notin {None, Torn} \cup BadSupervisors ->
            Goto("aside") /\ UNCHANGED <<supNew, watching>>
  /\ UNCHANGED <<bin, prev, sup, supOld, staged, ipc, phase, loop, poller, history>>

SmokeTestFailedKeep ==  \* mutant: the sentinel stays, its .new is gone
  /\ pc = "smokeFailed" /\ SelfSwapFailed
  /\ UNCHANGED <<binaries, staged, ipc, phase, loop, poller, history>>
SmokeTestFailed ==
  /\ pc = "smokeFailed" /\ SelfSwapFailed
  /\ ipc' = [ipc EXCEPT !.supPend = FALSE]
  /\ UNCHANGED <<binaries, staged, phase, loop, poller, history>>

\* supervisor.exe -> .old fails when there is no supervisor.exe.
RenameAside ==
  /\ pc = "aside"
  /\ \/ /\ sup # None /\ sup' = None /\ supOld' = sup
        /\ Goto("replace") /\ NoFault /\ UNCHANGED watching
     \/ sup = None /\ SelfSwapFailed /\ NoFault /\ UNCHANGED <<sup, supOld>>
     \/ Fault /\ SelfSwapFailed /\ UNCHANGED <<sup, supOld>>
  /\ Bounded
  /\ UNCHANGED <<bin, prev, supNew, staged, ipc, phase, loop, poller>>

RenameIn ==
  /\ pc = "replace"
  /\ \/ /\ sup' = supNew /\ supNew' = None
        /\ Goto("markApplied") /\ NoFault /\ UNCHANGED loop
     \/ Fault /\ CallRollback("brick") /\ UNCHANGED <<sup, supNew>>
  /\ Bounded
  /\ UNCHANGED <<bin, prev, supOld, staged, ipc, phase, watching, poller>>

\* The brick fallback once the worker is rolled back.
RenameBackNot ==  \* mutant: only the worker is restored
  pc = "unswap" /\ Jump("unswap", "resetVer")
RenameBack ==
  /\ pc = "unswap"
  /\ \/ /\ sup' = supOld /\ supOld' = None
        /\ Goto("resetVer") /\ NoFault /\ UNCHANGED watching
     \/ Fault /\ SelfSwapFailed /\ UNCHANGED <<sup, supOld>>
  /\ Bounded
  /\ UNCHANGED <<bin, prev, supNew, staged, ipc, phase, loop, poller>>

\* ResetUpgradeIPC keeps supervisor_upgrade.pending.
ResetUpgradeIPC ==
  \/ Write("resetVer", "resetRest", [ipc EXCEPT !.lastVer = None])
  \/ /\ pc = "resetRest" /\ SelfSwapFailed
     /\ ipc' = [ipc EXCEPT !.marker = None, !.rbDone = FALSE, !.awaiting = FALSE]
     /\ UNCHANGED <<binaries, staged, phase, loop, poller, history>>

\* The process ends here: the SCM starts the new supervisor.
MarkSelfSwap ==
  \/ Write("markApplied", "markAwaiting",
           [ipc EXCEPT !.applied = TRUE, !.pendNewer = FALSE])
  \/ Write("markAwaiting", "dropPending",
           [ipc EXCEPT !.awaiting = TRUE, !.rbNewer = FALSE, !.aged = FALSE])

DropPending == 
  /\ pc = "dropPending" /\ Goto("off")
  /\ ipc' = [ipc EXCEPT !.supPend = FALSE]
  /\ hp' = "idle" /\ UNCHANGED <<hpTodo, confirmed>>
  /\ UNCHANGED <<binaries, staged, phase, loop, watching, history>>

SupervisorSelfSwap ==
  \/ SmokeTest \/ SmokeTestFailed \/ RenameAside \/ RenameIn \/ RenameBack
  \/ ResetUpgradeIPC \/ MarkSelfSwap \/ DropPending

-----------------------------------------------------------------------------
(* superviseWorker and runWorkerOnce.                                      *)

Disarm == watch' = FALSE /\ deadline' = "none"

\* Top of the loop: rollback.done disarms the watch, a watch without a deadline
\* gets one, and the worker is started if its binary can be.
StartWorkerNoDeadline ==  \* mutant: a watch from BootCheck gets no deadline
  LET watching1 == watch /\ ~ipc.rbDone IN
  /\ pc = "start" /\ hp = "idle" /\ Goto("run")
  /\ phase' = "run" /\ watch' = watching1 /\ confirmed' = FALSE
  /\ hp' = IF watching1 THEN "poll" ELSE "idle"
  /\ UNCHANGED <<binaries, staged, ipc, loop, deadline, hpTodo, history>>
StartWorker ==
  LET watching1 == watch /\ ~ipc.rbDone IN
  /\ pc = "start" /\ hp = "idle"
  /\ phase' = "run"
  /\ watch' = watching1
  /\ deadline' = IF ipc.rbDone THEN "none"
                 ELSE IF watching1 /\ deadline = "none" THEN "armed" ELSE deadline
  /\ confirmed' = FALSE
  /\ IF bin[Worker] \in {None, Torn}
       THEN Goto("end") /\ hp' = hp
       ELSE Goto("run") /\ hp' = IF watching1 THEN "poll" ELSE "idle"
  /\ UNCHANGED <<binaries, staged, ipc, loop, hpTodo, history>>

\* The worker crashed, lost its heartbeat and was killed, or left on request.
WorkerGone == Goto("exit") /\ fetching' = FALSE

WorkerExit ==
  /\ pc = "run" /\ WorkerGone
  /\ UNCHANGED <<binaries, tar, incoming, ipc, phase, loop, watching, poller, history>>

\* deadlineCh, which a confirmed health check took out of the select.
DeadlineKill ==
  /\ watch /\ deadline = "passed" /\ ~confirmed
  /\ WorkerExit

\* After CheckPending found nothing or failed: is the watch over?
ShouldRollbackAfterDeadline == watch /\ deadline = "passed" /\ ~IsUpgradeHealthy

EndOfWorker ==
  /\ pc = "end"
  /\ \/ ShouldRollbackAfterDeadline /\ CallRollback("deadline") /\ UNCHANGED watching
     \/ /\ watch /\ deadline = "passed" /\ IsUpgradeHealthy
        /\ Goto("start") /\ Disarm /\ UNCHANGED loop
     \/ ~(watch /\ deadline = "passed") /\ Goto("start") /\ UNCHANGED <<loop, watching>>
  /\ UNCHANGED <<binaries, staged, ipc, phase, poller, history>>

\* The worker is back; the supervisor, if it was swapped too, is for BootCheck.
RolledBackWorkerOnly ==  \* mutant: the supervisor is not restarted to be restored
  /\ pc = "rolledBack" /\ Goto("start") /\ Disarm
  /\ UNCHANGED <<binaries, staged, ipc, phase, loop, poller, history>>
RolledBack ==
  /\ pc = "rolledBack"
  /\ IF ipc.awaiting
       THEN Goto("off") /\ hp' = "idle" /\ UNCHANGED watching
       ELSE Goto("start") /\ Disarm /\ UNCHANGED hp
  /\ UNCHANGED <<binaries, staged, ipc, phase, loop, hpTodo, confirmed, history>>

\* ErrApplied: the supervisor's own swap, if the bundle had one; then watch.
Applied ==
  /\ pc = "applied"
  /\ IF ipc.supPend THEN Goto("smoke") /\ UNCHANGED watching
                    ELSE Goto("start") /\ WatchAnew
  /\ UNCHANGED <<binaries, staged, ipc, phase, loop, poller, history>>

SuperviseWorker ==
  \/ StartWorker \/ WorkerExit \/ DeadlineKill \/ EndOfWorker \/ RolledBack \/ Applied

-----------------------------------------------------------------------------
(* HealthPoll, which nobody waits for: once the worker is gone it may stop *)
(* at its next tick, or take that tick.                                    *)

PollSwapped ==  \* mutant: backups go as soon as an upgrade was installed
  /\ hp = "poll" /\ HasLastUpgrade
  /\ hp' = "clean" /\ hpTodo' = Backups
  /\ UNCHANGED <<binaries, staged, ipc, pc, phase, loop, watching, confirmed, history>>
PollHealthy ==
  /\ hp = "poll" /\ IsUpgradeHealthy
  /\ hp' = "clean" /\ hpTodo' = Backups
  /\ UNCHANGED <<binaries, staged, ipc, pc, phase, loop, watching, confirmed, history>>

PollStop ==
  /\ hp = "poll" /\ pc # "run"
  /\ hp' = "idle"
  /\ UNCHANGED <<binaries, staged, ipc, pc, phase, loop, watching, hpTodo, confirmed, history>>

CleanupPrevious ==
  /\ hp = "clean"
  /\ IF hpTodo = {}
       THEN hp' = "old" /\ hpTodo' = hpTodo /\ prev' = prev /\ NoFault
       ELSE \E d \in hpTodo :
              /\ hpTodo' = hpTodo \ {d} /\ hp' = hp
              /\ \/ prev' = [prev EXCEPT ![d] = None] /\ NoFault
                 \/ Fault /\ prev' = prev
  /\ Bounded
  /\ UNCHANGED <<bin, sup, supNew, supOld, staged, ipc, pc, phase, loop, watching, confirmed>>

CleanupSupervisorOld ==
  /\ hp = "old" /\ hp' = "await"
  /\ \/ supOld' = None /\ NoFault
     \/ Fault /\ supOld # None /\ UNCHANGED supOld
  /\ Bounded
  /\ UNCHANGED <<bin, prev, sup, supNew, staged, ipc, pc, phase, loop, watching, hpTodo, confirmed>>

PollConfirm ==
  /\ hp = "await" /\ hp' = "idle" /\ hpTodo' = hpTodo
  /\ ipc' = [ipc EXCEPT !.awaiting = FALSE]
  /\ confirmed' = (pc = "run")
  /\ UNCHANGED <<binaries, staged, pc, phase, loop, watching, history>>

HealthPoll ==
  PollHealthy \/ PollStop \/ CleanupPrevious \/ CleanupSupervisorOld \/ PollConfirm

-----------------------------------------------------------------------------
(* The worker: it registers, and serves the manager's upgrade calls.       *)

WriteInstalledMarker ==  \* mutant: it writes the installed version, not its own
  /\ pc = "run" /\ bin[Worker] \notin BadWorkers /\ ipc.marker # ipc.lastVer
  /\ ipc' = [ipc EXCEPT !.marker = ipc.lastVer]
  /\ good' = IF ipc.lastVer = bin[Worker] THEN bin[Worker] ELSE good
  /\ UNCHANGED <<binaries, staged, pc, phase, loop, watching, poller, fetches, crashes, faults>>
WriteHealthMarker ==
  /\ pc = "run" /\ bin[Worker] \notin BadWorkers /\ ipc.marker # bin[Worker]
  /\ ipc' = [ipc EXCEPT !.marker = bin[Worker]]
  /\ good' = IF ipc.lastVer = bin[Worker] THEN bin[Worker] ELSE good
  /\ UNCHANGED <<binaries, staged, pc, phase, loop, watching, poller, fetches, crashes, faults>>

\* A patient manager sends one bundle at a time.
Settled == Backups = {} /\ hp = "idle" /\ ~IsPending /\ tar = None
Sends ==
  /\ pc = "run" /\ bin[Worker] \notin BadWorkers /\ ~fetching
  /\ Patient => Settled
  /\ fetches < MaxFetches /\ fetches' = fetches + 1
  /\ UNCHANGED <<good, crashes, faults>>

\* fetch_package wipes incoming/ and extracts into it; apply_package only asks
\* for a MANIFEST there.
FetchPackage ==
  /\ Sends
  /\ fetching' = TRUE
  /\ \E v \in Versions, f \in {"missing", "short"} : incoming' = [ver |-> v, files |-> f]
  /\ UNCHANGED <<binaries, tar, ipc, pc, phase, loop, watching, poller>>

FetchPackageDone ==
  /\ pc = "run" /\ fetching /\ fetching' = FALSE
  /\ \/ incoming' = [incoming EXCEPT !.files = "whole"]
     \/ incoming' = None
  /\ UNCHANGED <<binaries, tar, ipc, pc, phase, loop, watching, poller, history>>

ApplyPackage == IsPending /\ ~fetching /\ WorkerExit

\* agent_upgrade drops an old pending, and stages the new one with an atomic
\* rename and leaves, or fails.
AgentUpgrade ==
  /\ Sends
  /\ tar' \in Versions \cup {None}
  /\ IF tar' = None THEN UNCHANGED <<pc, fetching>> ELSE WorkerGone
  /\ UNCHANGED <<binaries, incoming, ipc, phase, loop, watching, poller>>

WorkerCalls ==
  \/ WriteHealthMarker \/ FetchPackage \/ FetchPackageDone
  \/ ApplyPackage \/ AgentUpgrade

-----------------------------------------------------------------------------
(* Time and power.                                                         *)

DeadlinePasses ==
  /\ pc # "off" /\ deadline = "armed" /\ deadline' = "passed"
  /\ UNCHANGED <<binaries, staged, ipc, pc, phase, loop, watch, poller, history>>

AwaitingAges ==
  /\ ipc.awaiting /\ ~ipc.aged
  /\ ipc' = [ipc EXCEPT !.aged = TRUE]
  /\ UNCHANGED <<binaries, staged, pc, phase, loop, watching, poller, history>>

\* Power loss: processes are gone, and the operation at hand may be half done.
PowerLoss ==
  /\ pc \in CrashAt \ {"off"}
  /\ crashes < MaxCrashes /\ crashes' = crashes + 1
  /\ Goto("off") /\ hp' = "idle" /\ fetching' = FALSE
  /\ \/ UNCHANGED <<prev, supNew, incoming>>
     \/ /\ TornCopies /\ pc = "swap"
        /\ \/ /\ \E d \in todo \cap Dests : prev' = [prev EXCEPT ![d] = Torn]
              /\ UNCHANGED supNew
           \/ Sup \in todo /\ supNew' = Torn /\ UNCHANGED prev
        /\ UNCHANGED incoming
     \/ /\ pc = "clear" /\ incoming' = [incoming EXCEPT !.files = "missing"]
        /\ UNCHANGED <<prev, supNew>>
  /\ UNCHANGED <<bin, sup, supOld, tar, ipc, phase, loop, watching, hpTodo, confirmed,
                 good, fetches, faults>>

-----------------------------------------------------------------------------
Supervisor ==
  \/ Boot \/ BootCheckHealth \/ Restore \/ BootFinishSelfSwap \/ BootUnbrick
  \/ BootSelfSwap \/ Rollback \/ Apply \/ SupervisorSelfSwap

Next ==
  \/ Supervisor \/ SuperviseWorker \/ HealthPoll \/ WorkerCalls
  \/ DeadlinePasses \/ AwaitingAges \/ PowerLoss

Spec == Init /\ [][Next]_vars

Fairness ==
  /\ WF_vars(Supervisor \/ StartWorker \/ EndOfWorker \/ RolledBack \/ Applied)
  /\ WF_vars(HealthPoll) /\ WF_vars(DeadlinePasses) /\ WF_vars(DeadlineKill)

FairSpec == Spec /\ Fairness

-----------------------------------------------------------------------------
(* Properties.  Which run checks which, and under what faults, is said in  *)
(* the README.                                                             *)

\* A rollback is marked done only when every backup is back in its place:
\* a half done one stays unmarked and is tried again (RollbackAndMark).
RollbackDoneMeansRestored == ipc.rbDone => Backups = {}

\* The worker never runs next to plugins of another version.
NoMixedRun == pc = "run" => \A d \in Dests : bin[d] = bin[Worker]

\* Until a newer version is confirmed, each binary of the last confirmed one is
\* on disk, in place or as its backup: a rollback can always reach it.
LastGoodRecoverable == \A d \in Dests : good \in {bin[d], prev[d]}

\* A healthy marker speaks for all the binaries of the version it names.
ConfirmedIsInstalled ==
  pc = "run" /\ IsUpgradeHealthy => \A d \in Dests : bin[d] = ipc.lastVer

\* Each dest an Apply has replaced has its backup as long as Apply runs.
SwappedHasBackup ==
  pc \in {"swap", "place", "stage", "metaVer", "metaMarker", "clear"} =>
    \A d \in Dests \ todo : prev[d] # None

\* supervisor.exe is there whenever the SCM may have to start it.
Bootable == pc = "off" => sup # None

\* A pending self-swap that outlives BootCheck or Apply still has its .new.
NoOrphanPending == pc = "run" /\ ipc.supPend => supNew # None

\* A self-swap brings in the supervisor of the installed worker, also when an
\* operation failed on the way, as long as the service was not restarted.
SwapMatchesWorker ==
  [][pc = "replace" /\ pc' = "markApplied" /\ crashes = 0 => supNew = bin[Worker]]_vars

\* supervisor.exe.old is used up by restoring it, or dropped once nothing waits
\* for a health confirmation.
OldDroppedOnlyWhenConfirmed ==
  [][supOld # None /\ supOld' = None =>
       sup' = supOld \/ IsUpgradeHealthy \/ ~ipc.awaiting]_vars

\* While a self-swap awaits its confirmation, no other one overwrites its
\* supervisor.exe.old, the only good supervisor, with the one on trial.
OldNotOverwritten ==
  [][pc = "aside" /\ pc' = "replace" /\ ipc.awaiting /\ supOld # None => sup = good]_vars

\* Once a rollback is marked and nothing is left to restore, the worker that
\* runs and its supervisor are of one version again.
RolledBackTogether ==
  pc = "run" /\ ipc.rbDone /\ ~ipc.awaiting => sup = bin[Worker]

\* A worker that never registers does not stay.
BadWorkerRolledBack == bin[Worker] \in BadWorkers ~> bin[Worker] \notin BadWorkers

\* A watch ends: the health check confirmed this worker, or the watch is off.
WatchEnds == watch ~> confirmed \/ ~watch

\* Worker and supervisor settle on one version.
VersionsSettle == <>[](sup = bin[Worker])

=============================================================================
