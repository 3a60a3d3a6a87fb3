----------------------- MODULE UpgradeSelfSwapProofs -----------------------
(***************************************************************************)
(* Theorems about the supervisor's swap of itself, for every set of        *)
(* binaries and versions: the file before its sentinel, the old            *)
(* supervisor until the new one is confirmed, an executable whenever the   *)
(* service has to start, and the two programs of one version.  Each states *)
(* the faults under which it holds.                                        *)
(***************************************************************************)
EXTENDS UpgradeInstallProofs

-----------------------------------------------------------------------------
(* What the small files say after the last steps of a self-swap.           *)

\* The proof of a self-swap and the sentinel of its confirmation are written.
LEMMA MarksWrite ==
  ASSUME TypeInv, MarkSelfSwap
  PROVE  /\ \/ /\ pc = "markApplied" /\ pc' = "markAwaiting"
               /\ ipc'.applied /\ ~ipc'.pendNewer
               /\ ipc'.awaiting = ipc.awaiting /\ ipc'.rbNewer = ipc.rbNewer
               /\ ipc'.aged = ipc.aged
            \/ /\ pc = "markAwaiting" /\ pc' = "dropPending"
               /\ ipc'.awaiting /\ ~ipc'.rbNewer /\ ~ipc'.aged
               /\ ipc'.applied = ipc.applied /\ ipc'.pendNewer = ipc.pendNewer
         /\ ipc'.lastVer = ipc.lastVer /\ ipc'.marker = ipc.marker
         /\ ipc'.rbDone = ipc.rbDone /\ ipc'.supPend = ipc.supPend
         /\ UNCHANGED <<binaries, staged, phase, loop, watching, poller, history>>
BY DEF MarkSelfSwap, Write, Goto, TypeInv, TypeOK, IPC

\* The fallback forgets the bundle that has been rolled back.
LEMMA ResetWrites ==
  ASSUME TypeInv, ResetUpgradeIPC
  PROVE  /\ \/ /\ pc = "resetVer" /\ pc' = "resetRest"
               /\ ipc'.lastVer = None /\ ipc'.marker = ipc.marker
               /\ ipc'.rbDone = ipc.rbDone /\ ipc'.awaiting = ipc.awaiting
            \/ /\ pc = "resetRest" /\ pc' = "start"
               /\ ipc'.lastVer = ipc.lastVer /\ ipc'.marker = None
               /\ ~ipc'.rbDone /\ ~ipc'.awaiting
         /\ ipc'.applied = ipc.applied /\ ipc'.supPend = ipc.supPend
         /\ ipc'.rbNewer = ipc.rbNewer /\ ipc'.pendNewer = ipc.pendNewer
         /\ ipc'.aged = ipc.aged
         /\ UNCHANGED <<binaries, staged, phase, loop, poller, history>>
BY DEF ResetUpgradeIPC, Write, SelfSwapFailed, Goto, TypeInv, TypeOK, IPC

-----------------------------------------------------------------------------
(* BootCheck runs alone: there is no worker, and no HealthPoll.            *)

\* BootCheck has returned before a worker is started, and a HealthPoll is over
\* before the next BootCheck.
AloneAtBoot ==
  /\ pc \in BootPcs => phase = "boot"
  /\ pc \in {"rollback", "mark"} /\ why \in {"boot", "forced"} => phase = "boot"
  /\ pc \in {"run", "exit", "end", "rolledBack", "applied"} => phase = "run"
  /\ pc \in {"rollback", "mark"} /\ why = "deadline" => phase = "run"
  /\ phase = "boot" \/ pc = "off" => hp = "idle"

\* The start of the service, the brick guard and a pending self-swap leave
\* BootCheck alone.
LEMMA BootAlone ==
  ASSUME TypeInv, AloneAtBoot,
         Boot \/ BootUnbrick \/ BootSelfSwap
  PROVE  AloneAtBoot'
<1> USE DEF AloneAtBoot, BootPcs, TypeInv, TypeOK, BundleAtHand, Goto, binaries, staged,
       loop, watching, poller, history
<1>1. CASE Boot
  BY <1>1 DEF Boot
<1>2. CASE BootUnbrick
  BY <1>2 DEF BootUnbrick, Bounded, NoFault
<1>3. CASE BootSelfSwap
  BY <1>3 DEF BootSelfSwap, Jump
<1> QED
  BY <1>1, <1>2, <1>3

\* BootCheck's health check leaves BootCheck alone.
LEMMA BootCheckHealthAlone ==
  ASSUME TypeInv, AloneAtBoot,
         BootCheckHealth
  PROVE  AloneAtBoot'
<1> USE DEF AloneAtBoot, BootPcs, TypeInv, TypeOK, BundleAtHand, Goto, binaries, staged,
       loop, watching, poller, history
<1>1. CASE BootClearStaleRollbackDone
  BY <1>1 DEF BootClearStaleRollbackDone, Write
<1>2. CASE BootRestoreSupervisor
  BY <1>2 DEF BootRestoreSupervisor, Jump
<1>3. CASE BootClearAgedAwaiting
  BY <1>3 DEF BootClearAgedAwaiting, Write
<1>4. CASE BootForceDualRollback
  BY <1>4 DEF BootForceDualRollback, CallRollback
<1>5. CASE BootArmWatch
  BY <1>5 DEF BootArmWatch
<1>6. CASE BootRollback
  BY <1>6 DEF BootRollback, CallRollback
<1>7. CASE BootNothingToUndo
  BY <1>7 DEF BootNothingToUndo, Jump
<1> QED
  BY <1>1, <1>2, <1>3, <1>4, <1>5, <1>6, <1>7 DEF BootCheckHealth

\* restoreSupervisorFromOld leaves BootCheck alone.
LEMMA RestoreAlone ==
  ASSUME TypeInv, AloneAtBoot,
         Restore
  PROVE  AloneAtBoot'
<1> USE DEF AloneAtBoot, BootPcs, TypeInv, TypeOK, BundleAtHand, Goto, binaries, staged,
       loop, watching, poller, history
<1>1. CASE RestoreNothing
  BY <1>1 DEF RestoreNothing, Write
<1>2. CASE RestoreAside
  BY <1>2 DEF RestoreAside, Bounded, NoFault
<1>3. CASE RestoreBack
  BY <1>3 DEF RestoreBack, Bounded, NoFault
<1>4. CASE RestoreClear
  BY <1>4 DEF RestoreClear, Write
<1> QED
  BY <1>1, <1>2, <1>3, <1>4 DEF Restore

\* BootCheck's end leaves BootCheck alone.
LEMMA BootFinishSelfSwapAlone ==
  ASSUME TypeInv, AloneAtBoot,
         BootFinishSelfSwap
  PROVE  AloneAtBoot'
<1> USE DEF AloneAtBoot, BootPcs, TypeInv, TypeOK, BundleAtHand, Goto, binaries, staged,
       loop, watching, poller, history
<1>1. CASE BootDropOld
  BY <1>1 DEF BootDropOld
<1>2. CASE BootDropApplied
  BY <1>2 DEF BootDropApplied, Write
<1>3. CASE BootDropOrphan
  BY <1>3 DEF BootDropOrphan, Write
<1>4. CASE ~ipc.applied /\ Jump("boot3", "boot4")
  BY <1>4 DEF Jump
<1> QED
  BY <1>1, <1>2, <1>3, <1>4 DEF BootFinishSelfSwap

\* Rollback and RollbackAndMark leave BootCheck alone.
LEMMA RollbackAlone ==
  ASSUME TypeInv, AloneAtBoot,
         Rollback
  PROVE  AloneAtBoot'
<1> USE DEF AloneAtBoot, BootPcs, TypeInv, TypeOK, BundleAtHand, Goto, binaries, staged,
       loop, watching, poller, history
<1>1. CASE RollbackFile
  BY <1>1 DEF RollbackFile, Bounded, NoFault
<1>2. CASE RollbackFilesDone
  BY <1>2 DEF RollbackFilesDone, ApplyFailed, AfterRollback, Callers, SelfSwapFailed,
     WatchAnew
<1>3. CASE WriteRollbackDone
  BY <1>3 DEF WriteRollbackDone, Write, ApplyFailed, AfterRollback, Callers
<1> QED
  BY <1>1, <1>2, <1>3 DEF Rollback

\* ExtractPendingBundle leaves BootCheck alone.
LEMMA ExtractAlone ==
  ASSUME TypeInv, AloneAtBoot,
         ExtractPendingBundle
  PROVE  AloneAtBoot'
<1> USE DEF AloneAtBoot, BootPcs, TypeInv, TypeOK, BundleAtHand, Goto, binaries, staged,
       loop, watching, poller, history
<1>1. CASE ExtractBegin
  BY <1>1 DEF ExtractBegin, Looking
<1>2. CASE ExtractSome
  BY <1>2 DEF ExtractSome, Bounded, NoFault, ApplyFailed, AfterRollback, Callers
<1>3. CASE ExtractAll
  BY <1>3 DEF ExtractAll
<1>4. CASE ExtractDropTar
  BY <1>4 DEF ExtractDropTar, CallRollback
<1> QED
  BY <1>1, <1>2, <1>3, <1>4 DEF ExtractPendingBundle

\* ConvergeResidualBackups leaves BootCheck alone.
LEMMA ConvergeAlone ==
  ASSUME TypeInv, AloneAtBoot,
         ConvergeResidualBackups
  PROVE  AloneAtBoot'
<1> USE DEF AloneAtBoot, BootPcs, TypeInv, TypeOK, BundleAtHand, Goto, binaries, staged,
       loop, watching, poller, history
<1>1. CASE ApplyConverge
  BY <1>1 DEF ApplyConverge, Looking, CallRollback, IsPending
<1>2. CASE CleanNew
  BY <1>2 DEF CleanNew
<1>3. CASE CleanPending
  BY <1>3 DEF CleanPending, Write, ApplyFailed, AfterRollback, Callers
<1>4. CASE CleanRollbackDone
  BY <1>4 DEF CleanRollbackDone, Write
<1> QED
  BY <1>1, <1>2, <1>3, <1>4 DEF ConvergeResidualBackups

\* Apply, up to the last binary, leaves BootCheck alone.
LEMMA ApplyBundleAlone ==
  ASSUME TypeInv, AloneAtBoot,
         ApplyBundle
  PROVE  AloneAtBoot'
<1> USE DEF AloneAtBoot, BootPcs, TypeInv, TypeOK, BundleAtHand, Goto, binaries, staged,
       loop, watching, poller, history
<1>1. CASE VerifyAll
  BY <1>1 DEF VerifyAll, Entries, ApplyFailed
<1>2. CASE BackupDest
  BY <1>2 DEF BackupDest, Bounded, NoFault, SwapFailed
<1>3. CASE PlaceDest
  BY <1>3 DEF PlaceDest, Bounded, NoFault, SwapFailed
<1>4. CASE StageSupervisor
  BY <1>4 DEF StageSupervisor, Bounded, NoFault, SwapFailed
<1>5. CASE StagePending
  BY <1>5 DEF StagePending
<1>6. CASE RecoverFile
  BY <1>6 DEF RecoverFile, Bounded, NoFault
<1>7. CASE pc = "undo" /\ todo = {} /\ Jump("undo", "cleanNew")
  BY <1>7 DEF Jump
<1>8. CASE todo = {} /\ Jump("swap", "metaVer")
  BY <1>8 DEF Jump
<1> QED
  BY <1>1, <1>2, <1>3, <1>4, <1>5, <1>6, <1>7, <1>8 DEF ApplyBundle, RecoverFailedApply

\* WriteUpgradeMeta and ClearPending leave BootCheck alone.
LEMMA MetaAlone ==
  ASSUME TypeInv, AloneAtBoot,
         ApplyNothing \/ ApplyInvalid \/ WriteUpgradeMeta \/ ClearPending
  PROVE  AloneAtBoot'
<1> USE DEF AloneAtBoot, BootPcs, TypeInv, TypeOK, BundleAtHand, Goto, binaries, staged,
       loop, watching, poller, history
<1>1. CASE ApplyNothing
  BY <1>1 DEF ApplyNothing, Jump, Looking, ApplyFailed, AfterRollback, Callers,
     IsPending
<1>2. CASE ApplyInvalid
  BY <1>2 DEF ApplyInvalid, Jump, Looking, ApplyFailed, AfterRollback, Callers,
     IsPending
<1>3. CASE WriteUpgradeMeta
  BY <1>3 DEF WriteUpgradeMeta, Write
<1>4. CASE ClearPending
  BY <1>4 DEF ClearPending, ApplyDone
<1> QED
  BY <1>1, <1>2, <1>3, <1>4

\* SupervisorSelfSwap leaves BootCheck alone.
LEMMA SelfSwapAlone ==
  ASSUME TypeInv, AloneAtBoot,
         SupervisorSelfSwap
  PROVE  AloneAtBoot'
<1> USE DEF AloneAtBoot, BootPcs, TypeInv, TypeOK, BundleAtHand, Goto, binaries, staged,
       loop, watching, poller, history
<1>1. CASE SmokeTest
  BY <1>1 DEF SmokeTest, SelfSwapFailed, WatchAnew
<1>2. CASE SmokeTestFailed
  BY <1>2 DEF SmokeTestFailed, SelfSwapFailed, WatchAnew
<1>3. CASE RenameAside
  BY <1>3 DEF RenameAside, Bounded, NoFault, SelfSwapFailed, WatchAnew
<1>4. CASE RenameIn
  BY <1>4 DEF RenameIn, Bounded, NoFault, CallRollback
<1>5. CASE RenameBack
  BY <1>5 DEF RenameBack, Bounded, NoFault, SelfSwapFailed, WatchAnew
<1>6. CASE ResetUpgradeIPC
  BY <1>6 DEF ResetUpgradeIPC, Write, SelfSwapFailed, WatchAnew
<1>7. CASE MarkSelfSwap
  BY <1>7 DEF MarkSelfSwap, Write
<1>8. CASE DropPending
  BY <1>8 DEF DropPending
<1> QED
  BY <1>1, <1>2, <1>3, <1>4, <1>5, <1>6, <1>7, <1>8 DEF SupervisorSelfSwap

\* superviseWorker and runWorkerOnce leave BootCheck alone.
LEMMA SuperviseWorkerAlone ==
  ASSUME TypeInv, AloneAtBoot,
         SuperviseWorker
  PROVE  AloneAtBoot'
<1> USE DEF AloneAtBoot, BootPcs, TypeInv, TypeOK, BundleAtHand, Goto, binaries, staged,
       loop, watching, poller, history
<1>1. CASE StartWorker
  BY <1>1 DEF StartWorker
<1>2. CASE WorkerExit
  BY <1>2 DEF WorkerExit, WorkerGone
<1>3. CASE DeadlineKill
  BY <1>3 DEF DeadlineKill, WorkerGone, WorkerExit
<1>4. CASE EndOfWorker
  BY <1>4 DEF EndOfWorker, CallRollback, Disarm, ShouldRollbackAfterDeadline
<1>5. CASE RolledBack
  BY <1>5 DEF RolledBack, Disarm, ShouldRollbackAfterDeadline
<1>6. CASE Applied
  BY <1>6 DEF Applied, SelfSwapFailed, WatchAnew
<1> QED
  BY <1>1, <1>2, <1>3, <1>4, <1>5, <1>6 DEF SuperviseWorker

\* HealthPoll leaves BootCheck alone.
LEMMA HealthPollAlone ==
  ASSUME TypeInv, AloneAtBoot,
         HealthPoll
  PROVE  AloneAtBoot'
<1> USE DEF AloneAtBoot, BootPcs, TypeInv, TypeOK, BundleAtHand, Goto, binaries, staged,
       loop, watching, poller, history
<1>1. CASE PollHealthy
  BY <1>1 DEF PollHealthy
<1>2. CASE PollStop
  BY <1>2 DEF PollStop
<1>3. CASE CleanupPrevious
  BY <1>3 DEF CleanupPrevious, Bounded, NoFault
<1>4. CASE CleanupSupervisorOld
  BY <1>4 DEF CleanupSupervisorOld, Bounded, NoFault
<1>5. CASE PollConfirm
  BY <1>5 DEF PollConfirm
<1> QED
  BY <1>1, <1>2, <1>3, <1>4, <1>5 DEF HealthPoll

\* The worker's calls leave BootCheck alone.
LEMMA WorkerCallsAlone ==
  ASSUME TypeInv, AloneAtBoot,
         WorkerCalls
  PROVE  AloneAtBoot'
<1> USE DEF AloneAtBoot, BootPcs, TypeInv, TypeOK, BundleAtHand, Goto, binaries, staged,
       loop, watching, poller, history
<1>1. CASE WriteHealthMarker
  BY <1>1 DEF WriteHealthMarker
<1>2. CASE FetchPackage
  BY <1>2 DEF FetchPackage, Sends, Settled, IsPending
<1>3. CASE FetchPackageDone
  BY <1>3 DEF FetchPackageDone
<1>4. CASE ApplyPackage
  BY <1>4 DEF ApplyPackage, WorkerGone, WorkerExit, IsPending
<1>5. CASE AgentUpgrade
  BY <1>5 DEF AgentUpgrade, WorkerGone, Sends, Settled, IsPending
<1> QED
  BY <1>1, <1>2, <1>3, <1>4, <1>5 DEF WorkerCalls

\* Passing time and a power loss leave BootCheck alone.
LEMMA TimedAlone ==
  ASSUME TypeInv, AloneAtBoot,
         DeadlinePasses \/ AwaitingAges \/ PowerLoss
  PROVE  AloneAtBoot'
<1> USE DEF AloneAtBoot, BootPcs, TypeInv, TypeOK, BundleAtHand, Goto, binaries, staged,
       loop, watching, poller, history
<1>1. CASE DeadlinePasses
  BY <1>1 DEF DeadlinePasses
<1>2. CASE AwaitingAges
  BY <1>2 DEF AwaitingAges
<1>3. CASE PowerLoss
  BY <1>3 DEF PowerLoss
<1> QED
  BY <1>1, <1>2, <1>3

\* No step lets a HealthPoll run next to BootCheck.
LEMMA AloneStep ==
  ASSUME TypeInv, AloneAtBoot, [Next]_vars
  PROVE  AloneAtBoot'
<1>1. CASE Supervisor
  BY <1>1, BootAlone, BootCheckHealthAlone, RestoreAlone, BootFinishSelfSwapAlone,
     RollbackAlone, ExtractAlone, ConvergeAlone, ApplyBundleAlone, MetaAlone,
     SelfSwapAlone DEF Supervisor, Apply
<1>2. CASE SuperviseWorker
  BY <1>2, SuperviseWorkerAlone
<1>3. CASE HealthPoll
  BY <1>3, HealthPollAlone
<1>4. CASE WorkerCalls
  BY <1>4, WorkerCallsAlone
<1>5. CASE DeadlinePasses \/ AwaitingAges \/ PowerLoss
  BY <1>5, TimedAlone
<1>6. CASE UNCHANGED vars
  BY <1>6 DEF AloneAtBoot, vars, binaries, staged, loop, watching, poller, history
<1> QED BY <1>1, <1>2, <1>3, <1>4, <1>5, <1>6 DEF Next

\* In every state, whatever fails.
AloneInv == TypeInv /\ AloneAtBoot

\* No HealthPoll runs next to BootCheck, whatever fails.
LEMMA Alone == Spec => []AloneInv
<1>1. Init => AloneInv
  BY InitTypeInv DEF Init, AloneInv, AloneAtBoot, BootPcs
<1>2. AloneInv /\ [Next]_vars => AloneInv'
  BY TypeStep, AloneStep DEF AloneInv
<1> QED BY <1>1, <1>2, PTL DEF Spec

-----------------------------------------------------------------------------
(* A self-swap that is pending has its .new.                               *)

\* Between two steps that belong together: .new goes before the sentinel does.
OrphanPcs == {"cleanPending", "smokeFailed", "markApplied", "markAwaiting", "dropPending"}

\* Power is not lost between the two.  Any file operation may fail.
PendingCrashes == CrashAt \cap OrphanPcs = {}

\* The sentinel has its file, but for the steps that drop both.
PendingHasFile ==
  /\ ipc.supPend => supNew # None \/ pc \in OrphanPcs
  /\ pc = "stage" => supNew # None

\* The start of the service, the brick guard and a pending self-swap keep the
\* file with its sentinel.
LEMMA BootPending ==
  ASSUME PendingCrashes, TypeInv, TypeInv', PendingHasFile,
         Boot \/ BootUnbrick \/ BootSelfSwap
  PROVE  PendingHasFile'
<1> USE NoneAssumption
    DEF PendingHasFile, PendingCrashes, OrphanPcs, TypeInv, TypeOK, BundleAtHand, IPC,
        Bundle, AllVersions, File, Goto, binaries, staged, loop, watching, poller, history
<1>1. CASE Boot
  BY <1>1 DEF Boot
<1>2. CASE BootUnbrick
  BY <1>2 DEF BootUnbrick, Bounded, NoFault
<1>3. CASE BootSelfSwap
  BY <1>3 DEF BootSelfSwap, Jump
<1> QED
  BY <1>1, <1>2, <1>3

\* BootCheck's health check keeps the file with its sentinel.
LEMMA BootCheckHealthPending ==
  ASSUME PendingCrashes, TypeInv, TypeInv', PendingHasFile,
         BootCheckHealth
  PROVE  PendingHasFile'
<1> USE NoneAssumption
    DEF PendingHasFile, PendingCrashes, OrphanPcs, TypeInv, TypeOK, BundleAtHand, IPC,
        Bundle, AllVersions, File, Goto, binaries, staged, loop, watching, poller, history
<1>1. CASE BootClearStaleRollbackDone
  BY <1>1 DEF BootClearStaleRollbackDone, Write
<1>2. CASE BootRestoreSupervisor
  BY <1>2 DEF BootRestoreSupervisor, Jump
<1>3. CASE BootClearAgedAwaiting
  BY <1>3 DEF BootClearAgedAwaiting, Write
<1>4. CASE BootForceDualRollback
  BY <1>4 DEF BootForceDualRollback, CallRollback
<1>5. CASE BootArmWatch
  BY <1>5 DEF BootArmWatch
<1>6. CASE BootRollback
  BY <1>6 DEF BootRollback, CallRollback
<1>7. CASE BootNothingToUndo
  BY <1>7 DEF BootNothingToUndo, Jump
<1> QED
  BY <1>1, <1>2, <1>3, <1>4, <1>5, <1>6, <1>7 DEF BootCheckHealth

\* restoreSupervisorFromOld keeps the file with its sentinel.
LEMMA RestorePending ==
  ASSUME PendingCrashes, TypeInv, TypeInv', PendingHasFile,
         Restore
  PROVE  PendingHasFile'
<1> USE NoneAssumption
    DEF PendingHasFile, PendingCrashes, OrphanPcs, TypeInv, TypeOK, BundleAtHand, IPC,
        Bundle, AllVersions, File, Goto, binaries, staged, loop, watching, poller, history
<1>1. CASE RestoreNothing
  BY <1>1 DEF RestoreNothing, Write
<1>2. CASE RestoreAside
  BY <1>2 DEF RestoreAside, Bounded, NoFault
<1>3. CASE RestoreBack
  BY <1>3 DEF RestoreBack, Bounded, NoFault
<1>4. CASE RestoreClear
  BY <1>4 DEF RestoreClear, Write
<1> QED
  BY <1>1, <1>2, <1>3, <1>4 DEF Restore

\* BootCheck's end keeps the file with its sentinel.
LEMMA BootFinishSelfSwapPending ==
  ASSUME PendingCrashes, TypeInv, TypeInv', PendingHasFile,
         BootFinishSelfSwap
  PROVE  PendingHasFile'
<1> USE NoneAssumption
    DEF PendingHasFile, PendingCrashes, OrphanPcs, TypeInv, TypeOK, BundleAtHand, IPC,
        Bundle, AllVersions, File, Goto, binaries, staged, loop, watching, poller, history
<1>1. CASE BootDropOld
  BY <1>1 DEF BootDropOld
<1>2. CASE BootDropApplied
  BY <1>2 DEF BootDropApplied, Write
<1>3. CASE BootDropOrphan
  BY <1>3 DEF BootDropOrphan, Write
<1>4. CASE ~ipc.applied /\ Jump("boot3", "boot4")
  BY <1>4 DEF Jump
<1> QED
  BY <1>1, <1>2, <1>3, <1>4 DEF BootFinishSelfSwap

\* Rollback and RollbackAndMark keep the file with its sentinel.
LEMMA RollbackPending ==
  ASSUME PendingCrashes, TypeInv, TypeInv', PendingHasFile,
         Rollback
  PROVE  PendingHasFile'
<1> USE NoneAssumption
    DEF PendingHasFile, PendingCrashes, OrphanPcs, TypeInv, TypeOK, BundleAtHand, IPC,
        Bundle, AllVersions, File, Goto, binaries, staged, loop, watching, poller, history
<1>1. CASE RollbackFile
  BY <1>1 DEF RollbackFile, Bounded, NoFault
<1>2. CASE RollbackFilesDone
  BY <1>2 DEF RollbackFilesDone, ApplyFailed, AfterRollback, Callers, SelfSwapFailed,
     WatchAnew
<1>3. CASE WriteRollbackDone
  BY <1>3 DEF WriteRollbackDone, Write, ApplyFailed, AfterRollback, Callers
<1> QED
  BY <1>1, <1>2, <1>3 DEF Rollback

\* ExtractPendingBundle keeps the file with its sentinel.
LEMMA ExtractPending ==
  ASSUME PendingCrashes, TypeInv, TypeInv', PendingHasFile,
         ExtractPendingBundle
  PROVE  PendingHasFile'
<1> USE NoneAssumption
    DEF PendingHasFile, PendingCrashes, OrphanPcs, TypeInv, TypeOK, BundleAtHand, IPC,
        Bundle, AllVersions, File, Goto, binaries, staged, loop, watching, poller, history
<1>1. CASE ExtractBegin
  BY <1>1 DEF ExtractBegin, Looking
<1>2. CASE ExtractSome
  BY <1>2 DEF ExtractSome, Bounded, NoFault, ApplyFailed, AfterRollback, Callers
<1>3. CASE ExtractAll
  BY <1>3 DEF ExtractAll
<1>4. CASE ExtractDropTar
  BY <1>4 DEF ExtractDropTar, CallRollback
<1> QED
  BY <1>1, <1>2, <1>3, <1>4 DEF ExtractPendingBundle

\* ConvergeResidualBackups keeps the file with its sentinel.
LEMMA ConvergePending ==
  ASSUME PendingCrashes, TypeInv, TypeInv', PendingHasFile,
         ConvergeResidualBackups
  PROVE  PendingHasFile'
<1> USE NoneAssumption
    DEF PendingHasFile, PendingCrashes, OrphanPcs, TypeInv, TypeOK, BundleAtHand, IPC,
        Bundle, AllVersions, File, Goto, binaries, staged, loop, watching, poller, history
<1>1. CASE ApplyConverge
  BY <1>1 DEF ApplyConverge, Looking, CallRollback, IsPending
<1>2. CASE CleanNew
  BY <1>2 DEF CleanNew
<1>3. CASE CleanPending
  BY <1>3 DEF CleanPending, Write, ApplyFailed, AfterRollback, Callers
<1>4. CASE CleanRollbackDone
  BY <1>4 DEF CleanRollbackDone, Write
<1> QED
  BY <1>1, <1>2, <1>3, <1>4 DEF ConvergeResidualBackups

\* Apply, up to the last binary, keeps the file with its sentinel.
LEMMA ApplyBundlePending ==
  ASSUME PendingCrashes, TypeInv, TypeInv', PendingHasFile,
         ApplyBundle
  PROVE  PendingHasFile'
<1> USE NoneAssumption
    DEF PendingHasFile, PendingCrashes, OrphanPcs, TypeInv, TypeOK, BundleAtHand, IPC,
        Bundle, AllVersions, File, Goto, binaries, staged, loop, watching, poller, history
<1>1. CASE VerifyAll
  BY <1>1 DEF VerifyAll, Entries, ApplyFailed
<1>2. CASE BackupDest
  BY <1>2 DEF BackupDest, Bounded, NoFault, SwapFailed
<1>3. CASE PlaceDest
  BY <1>3 DEF PlaceDest, Bounded, NoFault, SwapFailed
<1>4. CASE StageSupervisor
  BY <1>4 DEF StageSupervisor, Bounded, NoFault, SwapFailed
<1>5. CASE StagePending
  BY <1>5 DEF StagePending
<1>6. CASE RecoverFile
  BY <1>6 DEF RecoverFile, Bounded, NoFault
<1>7. CASE pc = "undo" /\ todo = {} /\ Jump("undo", "cleanNew")
  BY <1>7 DEF Jump
<1>8. CASE todo = {} /\ Jump("swap", "metaVer")
  BY <1>8 DEF Jump
<1> QED
  BY <1>1, <1>2, <1>3, <1>4, <1>5, <1>6, <1>7, <1>8 DEF ApplyBundle, RecoverFailedApply

\* WriteUpgradeMeta and ClearPending keep the file with its sentinel.
LEMMA MetaPending ==
  ASSUME PendingCrashes, TypeInv, TypeInv', PendingHasFile,
         ApplyNothing \/ ApplyInvalid \/ WriteUpgradeMeta \/ ClearPending
  PROVE  PendingHasFile'
<1> USE NoneAssumption
    DEF PendingHasFile, PendingCrashes, OrphanPcs, TypeInv, TypeOK, BundleAtHand, IPC,
        Bundle, AllVersions, File, Goto, binaries, staged, loop, watching, poller, history
<1>1. CASE ApplyNothing
  BY <1>1 DEF ApplyNothing, Jump, Looking, ApplyFailed, AfterRollback, Callers,
     IsPending
<1>2. CASE ApplyInvalid
  BY <1>2 DEF ApplyInvalid, Jump, Looking, ApplyFailed, AfterRollback, Callers,
     IsPending
<1>3. CASE WriteUpgradeMeta
  BY <1>3 DEF WriteUpgradeMeta, Write
<1>4. CASE ClearPending
  BY <1>4 DEF ClearPending, ApplyDone
<1> QED
  BY <1>1, <1>2, <1>3, <1>4

\* SupervisorSelfSwap keeps the file with its sentinel.
LEMMA SelfSwapPending ==
  ASSUME PendingCrashes, TypeInv, TypeInv', PendingHasFile,
         SupervisorSelfSwap
  PROVE  PendingHasFile'
<1> USE NoneAssumption
    DEF PendingHasFile, PendingCrashes, OrphanPcs, TypeInv, TypeOK, BundleAtHand, IPC,
        Bundle, AllVersions, File, Goto, binaries, staged, loop, watching, poller, history
<1>1. CASE SmokeTest
  BY <1>1 DEF SmokeTest, SelfSwapFailed, WatchAnew
<1>2. CASE SmokeTestFailed
  BY <1>2 DEF SmokeTestFailed, SelfSwapFailed, WatchAnew
<1>3. CASE RenameAside
  BY <1>3 DEF RenameAside, Bounded, NoFault, SelfSwapFailed, WatchAnew
<1>4. CASE RenameIn
  BY <1>4 DEF RenameIn, Bounded, NoFault, CallRollback
<1>5. CASE RenameBack
  BY <1>5 DEF RenameBack, Bounded, NoFault, SelfSwapFailed, WatchAnew
<1>6. CASE ResetUpgradeIPC
  <2>1. CASE pc = "resetVer"
    BY <1>6, <2>1 DEF ResetUpgradeIPC, Write
  <2>2. CASE pc = "resetRest"
    <3>1. pc' = "start" /\ supNew' = supNew
      BY <1>6, <2>2 DEF ResetUpgradeIPC, Write, SelfSwapFailed
    <3>2. ipc'.supPend = ipc.supPend
      BY ONLY <1>6, <2>2, TypeInv DEF ResetUpgradeIPC, Write, TypeInv, TypeOK, IPC
    <3> QED BY <2>2, <3>1, <3>2
  <2> QED BY <1>6, <2>1, <2>2 DEF ResetUpgradeIPC, Write
<1>7. CASE MarkSelfSwap
  BY <1>7 DEF MarkSelfSwap, Write
<1>8. CASE DropPending
  BY <1>8 DEF DropPending
<1> QED
  BY <1>1, <1>2, <1>3, <1>4, <1>5, <1>6, <1>7, <1>8 DEF SupervisorSelfSwap

\* superviseWorker and runWorkerOnce keep the file with its sentinel.
LEMMA SuperviseWorkerPending ==
  ASSUME PendingCrashes, TypeInv, TypeInv', PendingHasFile,
         SuperviseWorker
  PROVE  PendingHasFile'
<1> USE NoneAssumption
    DEF PendingHasFile, PendingCrashes, OrphanPcs, TypeInv, TypeOK, BundleAtHand, IPC,
        Bundle, AllVersions, File, Goto, binaries, staged, loop, watching, poller, history
<1>1. CASE StartWorker
  BY <1>1 DEF StartWorker
<1>2. CASE WorkerExit
  BY <1>2 DEF WorkerExit, WorkerGone
<1>3. CASE DeadlineKill
  BY <1>3 DEF DeadlineKill, WorkerGone, WorkerExit
<1>4. CASE EndOfWorker
  BY <1>4 DEF EndOfWorker, CallRollback, Disarm, ShouldRollbackAfterDeadline
<1>5. CASE RolledBack
  BY <1>5 DEF RolledBack, Disarm, ShouldRollbackAfterDeadline
<1>6. CASE Applied
  BY <1>6 DEF Applied, SelfSwapFailed, WatchAnew
<1> QED
  BY <1>1, <1>2, <1>3, <1>4, <1>5, <1>6 DEF SuperviseWorker

\* HealthPoll keeps the file with its sentinel.
LEMMA HealthPollPending ==
  ASSUME PendingCrashes, TypeInv, TypeInv', PendingHasFile,
         HealthPoll
  PROVE  PendingHasFile'
<1> USE NoneAssumption
    DEF PendingHasFile, PendingCrashes, OrphanPcs, TypeInv, TypeOK, BundleAtHand, IPC,
        Bundle, AllVersions, File, Goto, binaries, staged, loop, watching, poller, history
<1>1. CASE PollHealthy
  BY <1>1 DEF PollHealthy
<1>2. CASE PollStop
  BY <1>2 DEF PollStop
<1>3. CASE CleanupPrevious
  BY <1>3 DEF CleanupPrevious, Bounded, NoFault
<1>4. CASE CleanupSupervisorOld
  BY <1>4 DEF CleanupSupervisorOld, Bounded, NoFault
<1>5. CASE PollConfirm
  BY <1>5 DEF PollConfirm
<1> QED
  BY <1>1, <1>2, <1>3, <1>4, <1>5 DEF HealthPoll

\* The worker's calls keep the file with its sentinel.
LEMMA WorkerCallsPending ==
  ASSUME PendingCrashes, TypeInv, TypeInv', PendingHasFile,
         WorkerCalls
  PROVE  PendingHasFile'
<1> USE NoneAssumption
    DEF PendingHasFile, PendingCrashes, OrphanPcs, TypeInv, TypeOK, BundleAtHand, IPC,
        Bundle, AllVersions, File, Goto, binaries, staged, loop, watching, poller, history
<1>1. CASE WriteHealthMarker
  BY <1>1 DEF WriteHealthMarker
<1>2. CASE FetchPackage
  BY <1>2 DEF FetchPackage, Sends, Settled, IsPending
<1>3. CASE FetchPackageDone
  BY <1>3 DEF FetchPackageDone
<1>4. CASE ApplyPackage
  BY <1>4 DEF ApplyPackage, WorkerGone, WorkerExit, IsPending
<1>5. CASE AgentUpgrade
  BY <1>5 DEF AgentUpgrade, WorkerGone, Sends, Settled, IsPending
<1> QED
  BY <1>1, <1>2, <1>3, <1>4, <1>5 DEF WorkerCalls

\* Passing time and a power loss keep the file with its sentinel.
LEMMA TimedPending ==
  ASSUME PendingCrashes, TypeInv, TypeInv', PendingHasFile,
         DeadlinePasses \/ AwaitingAges \/ PowerLoss
  PROVE  PendingHasFile'
<1> USE NoneAssumption
    DEF PendingHasFile, PendingCrashes, OrphanPcs, TypeInv, TypeOK, BundleAtHand, IPC,
        Bundle, AllVersions, File, Goto, binaries, staged, loop, watching, poller, history
<1>1. CASE DeadlinePasses
  BY <1>1 DEF DeadlinePasses
<1>2. CASE AwaitingAges
  BY <1>2 DEF AwaitingAges
<1>3. CASE PowerLoss
  BY <1>3 DEF PowerLoss
<1> QED
  BY <1>1, <1>2, <1>3

\* The file comes before the sentinel, and the sentinel goes with the file.
LEMMA PendingStep ==
  ASSUME PendingCrashes, TypeInv, TypeInv', PendingHasFile, [Next]_vars
  PROVE  PendingHasFile'
<1>1. CASE Supervisor
  BY <1>1, BootPending, BootCheckHealthPending, RestorePending,
     BootFinishSelfSwapPending, RollbackPending, ExtractPending, ConvergePending,
     ApplyBundlePending, MetaPending, SelfSwapPending DEF Supervisor, Apply
<1>2. CASE SuperviseWorker
  BY <1>2, SuperviseWorkerPending
<1>3. CASE HealthPoll
  BY <1>3, HealthPollPending
<1>4. CASE WorkerCalls
  BY <1>4, WorkerCallsPending
<1>5. CASE DeadlinePasses \/ AwaitingAges \/ PowerLoss
  BY <1>5, TimedPending
<1>6. CASE UNCHANGED vars
  BY <1>6
     DEF PendingHasFile, vars, binaries, staged, loop, watching, poller, history
<1> QED BY <1>1, <1>2, <1>3, <1>4, <1>5, <1>6 DEF Next

\* When a worker runs, a self-swap that is pending finds its .new: no orphan is
\* left behind by a bundle that failed, a smoke test that failed, a swap that was
\* done (StageSupervisor, cleanupSupervisorStaging, SupervisorSelfSwap), whatever
\* file operations fail.
THEOREM NoOrphan == ASSUME PendingCrashes PROVE Spec => []NoOrphanPending
<1> DEFINE Inv == TypeInv /\ PendingHasFile
<1>1. Init => Inv
  <2> SUFFICES ASSUME Init PROVE Inv
    OBVIOUS
  <2>1. PendingHasFile
    BY DEF Init, PendingHasFile, OrphanPcs
  <2> QED BY <2>1, InitTypeInv
<1>2. Inv /\ [Next]_vars => Inv'
  BY TypeStep, PendingStep
<1>3. Inv => NoOrphanPending
  BY DEF PendingHasFile, OrphanPcs, NoOrphanPending
<1> HIDE DEF Inv
<1> QED BY <1>1, <1>2, <1>3, PTL DEF Spec

-----------------------------------------------------------------------------
(* What awaits a confirmation was installed.                               *)

\* A self-swap under way, its sentinel still there.
TrialPcs == {"smoke", "aside", "replace", "markApplied", "markAwaiting", "dropPending"}

\* A supervisor that awaits a health confirmation came with a version that was
\* installed, and one that is to be swapped in with an installation that is whole.
AwaitsInstalled ==
  /\ ipc.awaiting => HasLastUpgrade
  /\ ipc.supPend /\ ~HasLastUpgrade => Whole
  /\ pc \in TrialPcs => ipc.supPend
  /\ pc \in {"metaMarker", "clear"} => HasLastUpgrade
  /\ pc \in SelfSwapPcs \cup {"applied"} => hp = "idle"

\* The start of the service, the brick guard and a pending self-swap keep what
\* awaits installed.
LEMMA BootAwaits ==
  ASSUME LossPoints, Unversioned = {}, StagingInv, StagingInv', AloneAtBoot,
         AloneAtBoot', AwaitsInstalled, faults' = 0,
         Boot \/ BootUnbrick \/ BootSelfSwap
  PROVE  AwaitsInstalled'
<1> USE NoneAssumption, BundleKept, NothingFails
    DEF AwaitsInstalled, HasLastUpgrade, AloneAtBoot, StagingInv, StagingRules, BackedUp,
        PollerWaits, StagedWaits, NoFailure, WholePcs, TrialPcs, SelfSwapPcs, ConvergePcs,
        ExtractPcs, BootPcs, Applying, Swapping, Recovering, TypeInv, TypeOK, BundleAtHand,
        IPC, AllVersions, Goto, binaries, staged, loop, watching, poller, history
<1>1. CASE Boot
  BY <1>1 DEF Boot
<1>2. CASE BootUnbrick
  BY <1>2 DEF BootUnbrick, Bounded, NoFault
<1>3. CASE BootSelfSwap
  BY <1>3 DEF BootSelfSwap, Jump
<1> QED
  BY <1>1, <1>2, <1>3

\* BootCheck's health check keeps what awaits installed.
LEMMA BootCheckHealthAwaits ==
  ASSUME LossPoints, Unversioned = {}, StagingInv, StagingInv', AloneAtBoot,
         AloneAtBoot', AwaitsInstalled, faults' = 0,
         BootCheckHealth
  PROVE  AwaitsInstalled'
<1> USE NoneAssumption, BundleKept, NothingFails
    DEF AwaitsInstalled, HasLastUpgrade, AloneAtBoot, StagingInv, StagingRules, BackedUp,
        PollerWaits, StagedWaits, NoFailure, WholePcs, TrialPcs, SelfSwapPcs, ConvergePcs,
        ExtractPcs, BootPcs, Applying, Swapping, Recovering, TypeInv, TypeOK, BundleAtHand,
        IPC, AllVersions, Goto, binaries, staged, loop, watching, poller, history
<1>1. CASE BootClearStaleRollbackDone
  BY <1>1 DEF BootClearStaleRollbackDone, Write
<1>2. CASE BootRestoreSupervisor
  BY <1>2 DEF BootRestoreSupervisor, Jump
<1>3. CASE BootClearAgedAwaiting
  BY <1>3 DEF BootClearAgedAwaiting, Write
<1>4. CASE BootForceDualRollback
  BY <1>4 DEF BootForceDualRollback, CallRollback
<1>5. CASE BootArmWatch
  BY <1>5 DEF BootArmWatch
<1>6. CASE BootRollback
  BY <1>6 DEF BootRollback, CallRollback
<1>7. CASE BootNothingToUndo
  BY <1>7 DEF BootNothingToUndo, Jump
<1> QED
  BY <1>1, <1>2, <1>3, <1>4, <1>5, <1>6, <1>7 DEF BootCheckHealth

\* restoreSupervisorFromOld keeps what awaits installed.
LEMMA RestoreAwaits ==
  ASSUME LossPoints, Unversioned = {}, StagingInv, StagingInv', AloneAtBoot,
         AloneAtBoot', AwaitsInstalled, faults' = 0,
         Restore
  PROVE  AwaitsInstalled'
<1> USE NoneAssumption, BundleKept, NothingFails
    DEF AwaitsInstalled, HasLastUpgrade, AloneAtBoot, StagingInv, StagingRules, BackedUp,
        PollerWaits, StagedWaits, NoFailure, WholePcs, TrialPcs, SelfSwapPcs, ConvergePcs,
        ExtractPcs, BootPcs, Applying, Swapping, Recovering, TypeInv, TypeOK, BundleAtHand,
        IPC, AllVersions, Goto, binaries, staged, loop, watching, poller, history
<1>1. CASE RestoreNothing
  BY <1>1 DEF RestoreNothing, Write
<1>2. CASE RestoreAside
  BY <1>2 DEF RestoreAside, Bounded, NoFault
<1>3. CASE RestoreBack
  BY <1>3 DEF RestoreBack, Bounded, NoFault
<1>4. CASE RestoreClear
  BY <1>4 DEF RestoreClear, Write
<1> QED
  BY <1>1, <1>2, <1>3, <1>4 DEF Restore

\* BootCheck's end keeps what awaits installed.
LEMMA BootFinishSelfSwapAwaits ==
  ASSUME LossPoints, Unversioned = {}, StagingInv, StagingInv', AloneAtBoot,
         AloneAtBoot', AwaitsInstalled, faults' = 0,
         BootFinishSelfSwap
  PROVE  AwaitsInstalled'
<1> USE NoneAssumption, BundleKept, NothingFails
    DEF AwaitsInstalled, HasLastUpgrade, AloneAtBoot, StagingInv, StagingRules, BackedUp,
        PollerWaits, StagedWaits, NoFailure, WholePcs, TrialPcs, SelfSwapPcs, ConvergePcs,
        ExtractPcs, BootPcs, Applying, Swapping, Recovering, TypeInv, TypeOK, BundleAtHand,
        IPC, AllVersions, Goto, binaries, staged, loop, watching, poller, history
<1>1. CASE BootDropOld
  BY <1>1 DEF BootDropOld
<1>2. CASE BootDropApplied
  BY <1>2 DEF BootDropApplied, Write
<1>3. CASE BootDropOrphan
  BY <1>3 DEF BootDropOrphan, Write
<1>4. CASE ~ipc.applied /\ Jump("boot3", "boot4")
  BY <1>4 DEF Jump
<1> QED
  BY <1>1, <1>2, <1>3, <1>4 DEF BootFinishSelfSwap

\* Rollback and RollbackAndMark keep what awaits installed.
LEMMA RollbackAwaits ==
  ASSUME LossPoints, Unversioned = {}, StagingInv, StagingInv', AloneAtBoot,
         AloneAtBoot', AwaitsInstalled, faults' = 0,
         Rollback
  PROVE  AwaitsInstalled'
<1> USE NoneAssumption, BundleKept, NothingFails
    DEF AwaitsInstalled, HasLastUpgrade, AloneAtBoot, StagingInv, StagingRules, BackedUp,
        PollerWaits, StagedWaits, NoFailure, WholePcs, TrialPcs, SelfSwapPcs, ConvergePcs,
        ExtractPcs, BootPcs, Applying, Swapping, Recovering, TypeInv, TypeOK, BundleAtHand,
        IPC, AllVersions, Goto, binaries, staged, loop, watching, poller, history
<1>1. CASE RollbackFile
  BY <1>1 DEF RollbackFile, Bounded, NoFault
<1>2. CASE RollbackFilesDone
  BY <1>2 DEF RollbackFilesDone, ApplyFailed, AfterRollback, Callers, SelfSwapFailed,
     WatchAnew
<1>3. CASE WriteRollbackDone
  BY <1>3 DEF WriteRollbackDone, Write, ApplyFailed, AfterRollback, Callers
<1> QED
  BY <1>1, <1>2, <1>3 DEF Rollback

\* ExtractPendingBundle keeps what awaits installed.
LEMMA ExtractAwaits ==
  ASSUME LossPoints, Unversioned = {}, StagingInv, StagingInv', AloneAtBoot,
         AloneAtBoot', AwaitsInstalled, faults' = 0,
         ExtractPendingBundle
  PROVE  AwaitsInstalled'
<1> USE NoneAssumption, BundleKept, NothingFails
    DEF AwaitsInstalled, HasLastUpgrade, AloneAtBoot, StagingInv, StagingRules, BackedUp,
        PollerWaits, StagedWaits, NoFailure, WholePcs, TrialPcs, SelfSwapPcs, ConvergePcs,
        ExtractPcs, BootPcs, Applying, Swapping, Recovering, TypeInv, TypeOK, BundleAtHand,
        IPC, AllVersions, Goto, binaries, staged, loop, watching, poller, history
<1>1. CASE ExtractBegin
  BY <1>1 DEF ExtractBegin, Looking
<1>2. CASE ExtractSome
  BY <1>2 DEF ExtractSome, Bounded, NoFault, ApplyFailed, AfterRollback, Callers
<1>3. CASE ExtractAll
  BY <1>3 DEF ExtractAll
<1>4. CASE ExtractDropTar
  BY <1>4 DEF ExtractDropTar, CallRollback
<1> QED
  BY <1>1, <1>2, <1>3, <1>4 DEF ExtractPendingBundle

\* ConvergeResidualBackups keeps what awaits installed.
LEMMA ConvergeAwaits ==
  ASSUME LossPoints, Unversioned = {}, StagingInv, StagingInv', AloneAtBoot,
         AloneAtBoot', AwaitsInstalled, faults' = 0,
         ConvergeResidualBackups
  PROVE  AwaitsInstalled'
<1> USE NoneAssumption, BundleKept, NothingFails
    DEF AwaitsInstalled, HasLastUpgrade, AloneAtBoot, StagingInv, StagingRules, BackedUp,
        PollerWaits, StagedWaits, NoFailure, WholePcs, TrialPcs, SelfSwapPcs, ConvergePcs,
        ExtractPcs, BootPcs, Applying, Swapping, Recovering, TypeInv, TypeOK, BundleAtHand,
        IPC, AllVersions, Goto, binaries, staged, loop, watching, poller, history
<1>1. CASE ApplyConverge
  BY <1>1 DEF ApplyConverge, Looking, CallRollback, IsPending
<1>2. CASE CleanNew
  BY <1>2 DEF CleanNew
<1>3. CASE CleanPending
  BY <1>3 DEF CleanPending, Write, ApplyFailed, AfterRollback, Callers
<1>4. CASE CleanRollbackDone
  BY <1>4 DEF CleanRollbackDone, Write
<1> QED
  BY <1>1, <1>2, <1>3, <1>4 DEF ConvergeResidualBackups

\* Apply, up to the last binary, keeps what awaits installed.
LEMMA ApplyBundleAwaits ==
  ASSUME LossPoints, Unversioned = {}, StagingInv, StagingInv', AloneAtBoot,
         AloneAtBoot', AwaitsInstalled, faults' = 0,
         ApplyBundle
  PROVE  AwaitsInstalled'
<1> USE NoneAssumption, BundleKept, NothingFails
    DEF AwaitsInstalled, HasLastUpgrade, AloneAtBoot, StagingInv, StagingRules, BackedUp,
        PollerWaits, StagedWaits, NoFailure, WholePcs, TrialPcs, SelfSwapPcs, ConvergePcs,
        ExtractPcs, BootPcs, Applying, Swapping, Recovering, TypeInv, TypeOK, BundleAtHand,
        IPC, AllVersions, Goto, binaries, staged, loop, watching, poller, history
<1>1. CASE VerifyAll
  BY <1>1 DEF VerifyAll, Entries, ApplyFailed
<1>2. CASE BackupDest
  BY <1>2 DEF BackupDest, Bounded, NoFault, SwapFailed
<1>3. CASE PlaceDest
  BY <1>3 DEF PlaceDest, Bounded, NoFault, SwapFailed
<1>4. CASE StageSupervisor
  BY <1>4 DEF StageSupervisor, Bounded, NoFault, SwapFailed
<1>5. CASE StagePending
  BY <1>5 DEF StagePending
<1>6. CASE RecoverFile
  BY <1>6 DEF RecoverFile, Bounded, NoFault
<1>7. CASE pc = "undo" /\ todo = {} /\ Jump("undo", "cleanNew")
  BY <1>7 DEF Jump
<1>8. CASE todo = {} /\ Jump("swap", "metaVer")
  BY <1>8 DEF Jump
<1> QED
  BY <1>1, <1>2, <1>3, <1>4, <1>5, <1>6, <1>7, <1>8 DEF ApplyBundle, RecoverFailedApply

\* WriteUpgradeMeta and ClearPending keep what awaits installed.
LEMMA MetaAwaits ==
  ASSUME LossPoints, Unversioned = {}, StagingInv, StagingInv', AloneAtBoot,
         AloneAtBoot', AwaitsInstalled, faults' = 0,
         ApplyNothing \/ ApplyInvalid \/ WriteUpgradeMeta \/ ClearPending
  PROVE  AwaitsInstalled'
<1> USE NoneAssumption, BundleKept, NothingFails
    DEF AwaitsInstalled, HasLastUpgrade, AloneAtBoot, StagingInv, StagingRules, BackedUp,
        PollerWaits, StagedWaits, NoFailure, WholePcs, TrialPcs, SelfSwapPcs, ConvergePcs,
        ExtractPcs, BootPcs, Applying, Swapping, Recovering, TypeInv, TypeOK, BundleAtHand,
        IPC, AllVersions, Goto, binaries, staged, loop, watching, poller, history
<1>1. CASE ApplyNothing
  BY <1>1 DEF ApplyNothing, Jump, Looking, ApplyFailed, AfterRollback, Callers,
     IsPending
<1>2. CASE ApplyInvalid
  BY <1>2 DEF ApplyInvalid, Jump, Looking, ApplyFailed, AfterRollback, Callers,
     IsPending
<1>3. CASE WriteUpgradeMeta
  <2>2. CASE pc = "metaVer"
    <3>1. incoming \in Bundle /\ incoming.ver # None
      BY <2>2, NoneAssumption DEF Bundle
    <3>2. ipc' = [ipc EXCEPT !.lastVer = incoming.ver]
      BY <1>3, <2>2 DEF WriteUpgradeMeta, Write
    <3>3. ipc'.lastVer # None /\ ipc'.awaiting = ipc.awaiting /\ ipc'.supPend = ipc.supPend
      BY <3>1, <3>2
    <3> QED
      BY <1>3, <2>2, <3>3 DEF WriteUpgradeMeta, Write
  <2>3. CASE pc = "metaMarker"
    <3>1. ipc' = [ipc EXCEPT !.marker = None]
      BY <1>3, <2>3 DEF WriteUpgradeMeta, Write
    <3>2. /\ ipc'.lastVer = ipc.lastVer /\ ipc'.awaiting = ipc.awaiting
          /\ ipc'.supPend = ipc.supPend
      BY <3>1
    <3> QED
      BY <1>3, <2>3, <3>2 DEF WriteUpgradeMeta, Write
  <2> QED
    BY <1>3, <2>2, <2>3 DEF WriteUpgradeMeta, Write
<1>4. CASE ClearPending
  BY <1>4 DEF ClearPending, ApplyDone
<1> QED
  BY <1>1, <1>2, <1>3, <1>4

\* SupervisorSelfSwap keeps what awaits installed.
LEMMA SelfSwapAwaits ==
  ASSUME LossPoints, Unversioned = {}, StagingInv, StagingInv', AloneAtBoot,
         AloneAtBoot', AwaitsInstalled, faults' = 0,
         SupervisorSelfSwap
  PROVE  AwaitsInstalled'
<1> USE NoneAssumption, BundleKept, NothingFails
    DEF AwaitsInstalled, HasLastUpgrade, AloneAtBoot, StagingInv, StagingRules, BackedUp,
        PollerWaits, StagedWaits, NoFailure, WholePcs, TrialPcs, SelfSwapPcs, ConvergePcs,
        ExtractPcs, BootPcs, Applying, Swapping, Recovering, TypeInv, TypeOK, BundleAtHand,
        IPC, AllVersions, Goto, binaries, staged, loop, watching, poller, history
<1>1. CASE SmokeTest
  BY <1>1 DEF SmokeTest, SelfSwapFailed, WatchAnew
<1>2. CASE SmokeTestFailed
  BY <1>2 DEF SmokeTestFailed, SelfSwapFailed, WatchAnew
<1>3. CASE RenameAside
  BY <1>3 DEF RenameAside, Bounded, NoFault, SelfSwapFailed, WatchAnew
<1>4. CASE RenameIn
  BY <1>4 DEF RenameIn, Bounded, NoFault, CallRollback
<1>5. CASE RenameBack
  BY <1>5 DEF RenameBack, Bounded, NoFault, SelfSwapFailed, WatchAnew
<1>6. CASE ResetUpgradeIPC
  BY <1>6 DEF ResetUpgradeIPC, Write, SelfSwapFailed, WatchAnew
<1>7. CASE MarkSelfSwap
  <2>1. /\ pc \in {"markApplied", "markAwaiting"} /\ pc' \in {"markAwaiting", "dropPending"}
        /\ UNCHANGED <<incoming, fetching, hp, phase>>
    BY <1>7 DEF MarkSelfSwap, Write
  <2>2. ipc'.lastVer = ipc.lastVer /\ ipc'.supPend = ipc.supPend
    <3>1. CASE pc = "markApplied"
      <4>1. ipc' = [ipc EXCEPT !.applied = TRUE, !.pendNewer = FALSE]
        BY <1>7, <3>1 DEF MarkSelfSwap, Write
      <4> QED BY <4>1
    <3>2. CASE pc = "markAwaiting"
      <4>1. ipc' = [ipc EXCEPT !.awaiting = TRUE, !.rbNewer = FALSE, !.aged = FALSE]
        BY <1>7, <3>2 DEF MarkSelfSwap, Write
      <4> QED BY <4>1
    <3> QED BY <2>1, <3>1, <3>2
  <2>3. ipc.supPend /\ ~Whole
    BY <2>1
  <2> QED
    BY <2>1, <2>2, <2>3
<1>8. CASE DropPending
  BY <1>8 DEF DropPending
<1> QED
  BY <1>1, <1>2, <1>3, <1>4, <1>5, <1>6, <1>7, <1>8 DEF SupervisorSelfSwap

\* superviseWorker and runWorkerOnce keep what awaits installed.
LEMMA SuperviseWorkerAwaits ==
  ASSUME LossPoints, Unversioned = {}, StagingInv, StagingInv', AloneAtBoot,
         AloneAtBoot', AwaitsInstalled, faults' = 0,
         SuperviseWorker
  PROVE  AwaitsInstalled'
<1> USE NoneAssumption, BundleKept, NothingFails
    DEF AwaitsInstalled, HasLastUpgrade, AloneAtBoot, StagingInv, StagingRules, BackedUp,
        PollerWaits, StagedWaits, NoFailure, WholePcs, TrialPcs, SelfSwapPcs, ConvergePcs,
        ExtractPcs, BootPcs, Applying, Swapping, Recovering, TypeInv, TypeOK, BundleAtHand,
        IPC, AllVersions, Goto, binaries, staged, loop, watching, poller, history
<1>1. CASE StartWorker
  BY <1>1 DEF StartWorker
<1>2. CASE WorkerExit
  BY <1>2 DEF WorkerExit, WorkerGone
<1>3. CASE DeadlineKill
  BY <1>3 DEF DeadlineKill, WorkerGone, WorkerExit
<1>4. CASE EndOfWorker
  BY <1>4 DEF EndOfWorker, CallRollback, Disarm, ShouldRollbackAfterDeadline
<1>5. CASE RolledBack
  BY <1>5 DEF RolledBack, Disarm, ShouldRollbackAfterDeadline
<1>6. CASE Applied
  BY <1>6 DEF Applied, SelfSwapFailed, WatchAnew
<1> QED
  BY <1>1, <1>2, <1>3, <1>4, <1>5, <1>6 DEF SuperviseWorker

\* HealthPoll keeps what awaits installed.
LEMMA HealthPollAwaits ==
  ASSUME LossPoints, Unversioned = {}, StagingInv, StagingInv', AloneAtBoot,
         AloneAtBoot', AwaitsInstalled, faults' = 0,
         HealthPoll
  PROVE  AwaitsInstalled'
<1> USE NoneAssumption, BundleKept, NothingFails
    DEF AwaitsInstalled, HasLastUpgrade, AloneAtBoot, StagingInv, StagingRules, BackedUp,
        PollerWaits, StagedWaits, NoFailure, WholePcs, TrialPcs, SelfSwapPcs, ConvergePcs,
        ExtractPcs, BootPcs, Applying, Swapping, Recovering, TypeInv, TypeOK, BundleAtHand,
        IPC, AllVersions, Goto, binaries, staged, loop, watching, poller, history
<1>1. CASE PollHealthy
  BY <1>1 DEF PollHealthy
<1>2. CASE PollStop
  BY <1>2 DEF PollStop
<1>3. CASE CleanupPrevious
  BY <1>3 DEF CleanupPrevious, Bounded, NoFault
<1>4. CASE CleanupSupervisorOld
  BY <1>4 DEF CleanupSupervisorOld, Bounded, NoFault
<1>5. CASE PollConfirm
  BY <1>5 DEF PollConfirm
<1> QED
  BY <1>1, <1>2, <1>3, <1>4, <1>5 DEF HealthPoll

\* The worker's calls keep what awaits installed.
LEMMA WorkerCallsAwaits ==
  ASSUME LossPoints, Unversioned = {}, StagingInv, StagingInv', AloneAtBoot,
         AloneAtBoot', AwaitsInstalled, faults' = 0,
         WorkerCalls
  PROVE  AwaitsInstalled'
<1> USE NoneAssumption, BundleKept, NothingFails
    DEF AwaitsInstalled, HasLastUpgrade, AloneAtBoot, StagingInv, StagingRules, BackedUp,
        PollerWaits, StagedWaits, NoFailure, WholePcs, TrialPcs, SelfSwapPcs, ConvergePcs,
        ExtractPcs, BootPcs, Applying, Swapping, Recovering, TypeInv, TypeOK, BundleAtHand,
        IPC, AllVersions, Goto, binaries, staged, loop, watching, poller, history
<1>1. CASE WriteHealthMarker
  BY <1>1 DEF WriteHealthMarker
<1>2. CASE FetchPackage
  <2>1. incoming = None /\ ~Whole
    BY <1>2 DEF FetchPackage, Sends, Settled, IsPending, LossPoints, Whole
  <2>2. PICK v \in Versions, f \in {"missing", "short"} :
          incoming' = [ver |-> v, files |-> f]
    BY <1>2 DEF FetchPackage
  <2>3. ~Whole'
    BY <2>2 DEF Whole
  <2>4. UNCHANGED <<pc, ipc, hp, phase>>
    BY <1>2 DEF FetchPackage
  <2> QED
    BY <2>1, <2>3, <2>4
<1>3. CASE FetchPackageDone
  BY <1>3 DEF FetchPackageDone
<1>4. CASE ApplyPackage
  BY <1>4 DEF ApplyPackage, WorkerGone, WorkerExit, IsPending
<1>5. CASE AgentUpgrade
  BY <1>5 DEF AgentUpgrade, WorkerGone, Sends, Settled, IsPending
<1> QED
  BY <1>1, <1>2, <1>3, <1>4, <1>5 DEF WorkerCalls

\* Passing time and a power loss keep what awaits installed.
LEMMA TimedAwaits ==
  ASSUME LossPoints, Unversioned = {}, StagingInv, StagingInv', AloneAtBoot,
         AloneAtBoot', AwaitsInstalled, faults' = 0,
         DeadlinePasses \/ AwaitingAges \/ PowerLoss
  PROVE  AwaitsInstalled'
<1> USE NoneAssumption, BundleKept, NothingFails
    DEF AwaitsInstalled, HasLastUpgrade, AloneAtBoot, StagingInv, StagingRules, BackedUp,
        PollerWaits, StagedWaits, NoFailure, WholePcs, TrialPcs, SelfSwapPcs, ConvergePcs,
        ExtractPcs, BootPcs, Applying, Swapping, Recovering, TypeInv, TypeOK, BundleAtHand,
        IPC, AllVersions, Goto, binaries, staged, loop, watching, poller, history
<1>1. CASE DeadlinePasses
  BY <1>1 DEF DeadlinePasses
<1>2. CASE AwaitingAges
  BY <1>2 DEF AwaitingAges
<1>3. CASE PowerLoss
  BY <1>3 DEF PowerLoss
<1> QED
  BY <1>1, <1>2, <1>3

\* Every step keeps it, as long as no operation has failed.
LEMMA AwaitsStep ==
  ASSUME LossPoints, Unversioned = {}, StagingInv, StagingInv', AloneAtBoot,
         AloneAtBoot', AwaitsInstalled, faults' = 0, [Next]_vars
  PROVE  AwaitsInstalled'
<1>1. CASE Supervisor
  BY <1>1, BootAwaits, BootCheckHealthAwaits, RestoreAwaits, BootFinishSelfSwapAwaits,
     RollbackAwaits, ExtractAwaits, ConvergeAwaits, ApplyBundleAwaits, MetaAwaits,
     SelfSwapAwaits DEF Supervisor, Apply
<1>2. CASE SuperviseWorker
  BY <1>2, SuperviseWorkerAwaits
<1>3. CASE HealthPoll
  BY <1>3, HealthPollAwaits
<1>4. CASE WorkerCalls
  BY <1>4, WorkerCallsAwaits
<1>5. CASE DeadlinePasses \/ AwaitingAges \/ PowerLoss
  BY <1>5, TimedAwaits
<1>6. CASE UNCHANGED vars
  BY <1>6
     DEF AwaitsInstalled, HasLastUpgrade, Whole, vars, binaries, staged, loop, watching,
         poller, history
<1> QED BY <1>1, <1>2, <1>3, <1>4, <1>5, <1>6 DEF Next

\* What is known until the first operation fails.
AwaitsInv ==
  /\ FaultlessInv /\ AloneAtBoot
  /\ faults = 0 => AwaitsInstalled

\* It holds in a fresh installation.
LEMMA InitAwaits ==
  ASSUME Init
  PROVE  AwaitsInv
<1>1. AloneAtBoot /\ AwaitsInstalled
  BY DEF Init, AloneAtBoot, AwaitsInstalled, TrialPcs, SelfSwapPcs, BootPcs
<1> QED
  BY <1>1, InitInstall DEF AwaitsInv, FaultlessInv, InstallInv, StagingInv

\* Every step keeps it, also the one in which an operation fails.
LEMMA AwaitsInvStep ==
  ASSUME CrashPoints, Unversioned = {}, AwaitsInv, [Next]_vars
  PROVE  AwaitsInv'
<1>1. TypeInv' /\ AloneAtBoot'
  BY TypeStep, AloneStep DEF AwaitsInv, FaultlessInv
<1>2. faults' = 0 => faults = 0
  BY FaultsCount DEF AwaitsInv, FaultlessInv, TypeInv, TypeOK
<1>3. faults' = 0 => InstallInv'
  BY <1>2, InstallStep DEF AwaitsInv, FaultlessInv
<1>4. faults' = 0 => AwaitsInstalled'
  BY <1>1, <1>2, <1>3, AwaitsStep
     DEF AwaitsInv, FaultlessInv, InstallInv, CrashPoints, LossPoints
<1> QED BY <1>1, <1>3, <1>4 DEF AwaitsInv, FaultlessInv

\* Where no operation fails, the staging is as the rules say in every state.
FaultlessStaging == StagingInv /\ faults = 0

\* supervisor.exe.old is used up by restoring it, or dropped once nothing waits
\* for a health confirmation (step 3 of BootCheck, CleanupSupervisorOld): the last
\* supervisor that is known to work is not deleted while another one is on trial.
THEOREM OldKept ==
  ASSUME LossFaults, Unversioned = {}
  PROVE  Spec => OldDroppedOnlyWhenConfirmed
<1> DEFINE Inv == FaultlessStaging /\ AloneAtBoot /\ AwaitsInstalled
<1>1. Init => Inv
  BY InitStaging, InitAwaits DEF Init, FaultlessStaging, AwaitsInv
<1>2. Inv /\ [Next]_vars => Inv'
  <2> SUFFICES ASSUME StagingInv, faults = 0, AloneAtBoot, AwaitsInstalled, [Next]_vars
               PROVE  Inv'
    BY DEF FaultlessStaging
  <2>1. faults' = 0
    BY FaultsCount DEF LossFaults, StagingInv
  <2>2. StagingInv' /\ AloneAtBoot'
    BY <2>1, StagingStep, AloneStep DEF LossFaults, StagingInv
  <2>3. AwaitsInstalled'
    BY <2>1, <2>2, AwaitsStep DEF LossFaults
  <2> QED BY <2>1, <2>2, <2>3 DEF FaultlessStaging
<1>3. Inv /\ [Next]_vars =>
        [supOld # None /\ supOld' = None =>
           sup' = supOld \/ IsUpgradeHealthy \/ ~ipc.awaiting]_vars
  <2> SUFFICES ASSUME StagingInv, AwaitsInstalled, Next, supOld # None, supOld' = None
               PROVE  sup' = supOld \/ IsUpgradeHealthy \/ ~ipc.awaiting
    BY DEF FaultlessStaging
  <2>1. /\ ipc.awaiting => HasLastUpgrade
        /\ hp = "old" => IsUpgradeHealthy
        /\ pc # "unswap"
    BY DEF AwaitsInstalled, StagingInv, StagingRules, PollerWaits, NoFailure
  <2>2. CASE Supervisor
    <3> USE DEF binaries, Write, Jump, SwapFailed
    <3>1. CASE Boot \/ BootCheckHealth \/ BootSelfSwap \/ Rollback
      BY <3>1
         DEF Boot, BootCheckHealth, BootClearStaleRollbackDone, BootRestoreSupervisor,
             BootClearAgedAwaiting, BootForceDualRollback, BootArmWatch, BootRollback,
             BootNothingToUndo, BootSelfSwap, Rollback, RollbackFile, RollbackFilesDone,
             WriteRollbackDone
    <3>2. CASE Restore \/ BootUnbrick
      BY <3>2
         DEF Restore, RestoreNothing, RestoreAside, RestoreBack, RestoreClear, BootUnbrick
    <3>3. CASE BootFinishSelfSwap
      BY <2>1, <3>3
         DEF BootFinishSelfSwap, BootDropOld, BootDropApplied, BootDropOrphan
    <3>4. CASE Apply
      BY <3>4
         DEF Apply, ApplyNothing, ExtractPendingBundle, ExtractBegin, ExtractSome,
             ExtractAll, ExtractDropTar, ApplyInvalid, ConvergeResidualBackups,
             ApplyConverge, CleanNew, CleanPending, CleanRollbackDone, ApplyBundle,
             VerifyAll, BackupDest, PlaceDest, StageSupervisor, StagePending,
             RecoverFailedApply, RecoverFile, WriteUpgradeMeta, ClearPending
    <3>5. CASE SupervisorSelfSwap
      BY <2>1, <3>5
         DEF SupervisorSelfSwap, SmokeTest, SmokeTestFailed, RenameAside, RenameIn,
             RenameBack, ResetUpgradeIPC, MarkSelfSwap, DropPending
    <3> QED BY <2>2, <3>1, <3>2, <3>3, <3>4, <3>5 DEF Supervisor
  <2>3. CASE HealthPoll
    BY <2>1, <2>3
       DEF HealthPoll, PollHealthy, PollStop, CleanupPrevious, CleanupSupervisorOld,
           PollConfirm, binaries
  <2>4. CASE SuperviseWorker \/ WorkerCalls \/ DeadlinePasses \/ AwaitingAges \/ PowerLoss
    BY <2>4
       DEF SuperviseWorker, StartWorker, WorkerExit, DeadlineKill, EndOfWorker, RolledBack,
           Applied, WorkerCalls, WriteHealthMarker, FetchPackage, FetchPackageDone,
           ApplyPackage, AgentUpgrade, DeadlinePasses, AwaitingAges, PowerLoss, binaries
  <2> QED BY <2>2, <2>3, <2>4 DEF Next
<1> HIDE DEF Inv
<1> QED BY <1>1, <1>2, <1>3, PTL DEF Spec, OldDroppedOnlyWhenConfirmed

-----------------------------------------------------------------------------
(* supervisor.exe is there when the SCM has to start it.                   *)

\* At most one file operation fails, and power is lost only while a worker runs:
\* losing it between the two renames of a self-swap leaves no supervisor.exe.
BootFaults ==
  Patient /\ CrashAt \subseteq {"run"} /\ MaxFaults \in {0, 1} /\ Unversioned = {}

\* The brick fallback: RenameIn failed, the worker is rolled back first.
Bricked == pc = "unswap" \/ (pc \in {"rollback", "mark"} /\ why = "brick")

\* From a restore that failed to the brick guard of step 4, a bundle may be
\* applied on the way.
Unrestored ==
  \/ pc \in {"boot2", "boot3", "boot3applied", "boot3pending", "boot4"}
              \cup ConvergePcs \cup InstallPcs \cup ExtractPcs
  \/ pc = "rollback" /\ why = "converge"

\* What has been installed and is not confirmed, but for the two steps of
\* WriteUpgradeMeta.
OnTrialYet == HasLastUpgrade /\ (IsUpgradeHealthy => pc \in {"metaMarker", "boot3applied"})

\* Where supervisor.exe may be missing, its .old is still there.
ExeMissing ==
  sup = None =>
    /\ \/ pc \in {"replace", "restoreBack"} \/ Bricked
       \/ phase = "boot" /\ faults > 0 /\ Unrestored /\ (ipc.applied => OnTrialYet)
    /\ supOld # None \/ (pc = "replace" /\ faults > 0)

\* What the two renames of a self-swap, and of a restore, find.
BothRenames ==
  /\ pc \in {"aside", "replace"} => supNew # None
  /\ pc = "replace" => sup = None
  /\ pc = "restoreBack" => supOld # None
  /\ Bricked =>
       /\ faults > 0 /\ hp = "idle" /\ supOld # None
       /\ pc = "rollback" => todo = Backups /\ ~err

\* Both programs are being taken back.
Restoring ==
  \/ pc \in {"restoreAside", "restoreBack"}
  \/ pc \in {"rollback", "mark"} /\ why = "forced"

\* The proof of a self-swap is read at the next start.
AppliedIsFresh ==
  /\ ipc.applied =>
       pc \in {"markAwaiting", "dropPending", "off"} \/ phase = "boot"
  /\ ipc.applied =>
       pc \notin {"boot3pending", "boot4", "boot5", "start", "run", "exit", "end",
                  "rolledBack", "applied", "smoke", "smokeFailed", "aside", "replace",
                  "unswap", "resetVer", "resetRest", "markApplied"}
  /\ ipc.applied /\ pc \in {"rollback", "mark"} => why # "brick"
  /\ ipc.applied /\ pc \in {"dropPending", "off", "boot1"} => ~ipc.rbNewer
  /\ ipc.applied /\ faults = 0 /\ Restoring => HasLastUpgrade /\ ~IsUpgradeHealthy

\* The three together are inductive.
BootRules == ExeMissing /\ BothRenames /\ AppliedIsFresh

\* What is known until the first operation fails.
QuietUntilFault ==
  faults = 0 =>
    /\ ipc.awaiting => HasLastUpgrade
    /\ pc \in SelfSwapPcs => hp = "idle"

\* One operation may fail, not two.
LEMMA OneFault ==
  ASSUME BootFaults, TypeInv, faults > 0
  PROVE  ~Fault
BY DEF BootFaults, TypeInv, TypeOK, Fault

\* The start of the service, the brick guard and a pending self-swap keep the
\* rules of the two renames.
LEMMA BootExe ==
  ASSUME BootFaults, TypeInv, TypeInv', AloneAtBoot, BootRules, QuietUntilFault,
         Boot \/ BootUnbrick \/ BootSelfSwap
  PROVE  BootRules'
<1> USE NoneAssumption, OneFault, HealthKept, FilesKept
    DEF BootRules, ExeMissing, BothRenames, AppliedIsFresh, QuietUntilFault, Unrestored,
        Bricked, Restoring, OnTrialYet, AloneAtBoot, BootFaults, HasLastUpgrade,
        SelfSwapPcs, BootPcs, ConvergePcs, ExtractPcs, InstallPcs, TypeInv, TypeOK,
        BundleAtHand, IPC, AllVersions, Goto, binaries, staged, loop, watching, poller,
        history
<1>1. CASE Boot
  BY <1>1 DEF Boot
<1>2. CASE BootUnbrick
  BY <1>2 DEF BootUnbrick, Bounded, NoFault
<1>3. CASE BootSelfSwap
  BY <1>3 DEF BootSelfSwap, Jump
<1> QED
  BY <1>1, <1>2, <1>3

\* BootCheck's health check keeps the rules of the two renames.
LEMMA BootCheckHealthExe ==
  ASSUME BootFaults, TypeInv, TypeInv', AloneAtBoot, BootRules, QuietUntilFault,
         BootCheckHealth
  PROVE  BootRules'
<1> USE NoneAssumption, OneFault, HealthKept, FilesKept
    DEF BootRules, ExeMissing, BothRenames, AppliedIsFresh, QuietUntilFault, Unrestored,
        Bricked, Restoring, OnTrialYet, AloneAtBoot, BootFaults, HasLastUpgrade,
        SelfSwapPcs, BootPcs, ConvergePcs, ExtractPcs, InstallPcs, TypeInv, TypeOK,
        BundleAtHand, IPC, AllVersions, Goto, binaries, staged, loop, watching, poller,
        history
<1>1. CASE BootClearStaleRollbackDone
  BY <1>1 DEF BootClearStaleRollbackDone, Write
<1>2. CASE BootRestoreSupervisor
  BY <1>2 DEF BootRestoreSupervisor, Jump
<1>3. CASE BootClearAgedAwaiting
  BY <1>3 DEF BootClearAgedAwaiting, Write
<1>4. CASE BootForceDualRollback
  BY <1>4 DEF BootForceDualRollback, CallRollback
<1>5. CASE BootArmWatch
  BY <1>5 DEF BootArmWatch
<1>6. CASE BootRollback
  BY <1>6 DEF BootRollback, CallRollback
<1>7. CASE BootNothingToUndo
  BY <1>7 DEF BootNothingToUndo, Jump
<1> QED
  BY <1>1, <1>2, <1>3, <1>4, <1>5, <1>6, <1>7 DEF BootCheckHealth

\* restoreSupervisorFromOld keeps the rules of the two renames.
LEMMA RestoreExe ==
  ASSUME BootFaults, TypeInv, TypeInv', AloneAtBoot, BootRules, QuietUntilFault,
         Restore
  PROVE  BootRules'
<1> USE NoneAssumption, OneFault, HealthKept, FilesKept
    DEF BootRules, ExeMissing, BothRenames, AppliedIsFresh, QuietUntilFault, Unrestored,
        Bricked, Restoring, OnTrialYet, AloneAtBoot, BootFaults, HasLastUpgrade,
        SelfSwapPcs, BootPcs, ConvergePcs, ExtractPcs, InstallPcs, TypeInv, TypeOK,
        BundleAtHand, IPC, AllVersions, Goto, binaries, staged, loop, watching, poller,
        history
<1>1. CASE RestoreNothing
  BY <1>1 DEF RestoreNothing, Write
<1>2. CASE RestoreAside
  BY <1>2 DEF RestoreAside, Bounded, NoFault
<1>3. CASE RestoreBack
  <2>1. /\ pc = "restoreBack" /\ phase = "boot" /\ supOld # None
        /\ UNCHANGED <<bin, prev, ipc, phase, todo, why, err, hp>>
    BY <1>3 DEF RestoreBack
  <2>2. CASE sup' = supOld /\ pc' = "restoreAwaiting"
    BY <2>1, <2>2
  <2>3. CASE Fault /\ pc' = "boot2" /\ UNCHANGED <<sup, supOld>>
    <3>1. faults = 0 /\ faults' > 0
      BY <2>3, OneFault DEF Fault
    <3> QED
      BY <2>1, <2>3, <3>1
  <2> QED
    BY <1>3, <2>2, <2>3 DEF RestoreBack
<1>4. CASE RestoreClear
  BY <1>4 DEF RestoreClear, Write
<1> QED
  BY <1>1, <1>2, <1>3, <1>4 DEF Restore

\* BootCheck's end keeps the rules of the two renames.
LEMMA BootFinishSelfSwapExe ==
  ASSUME BootFaults, TypeInv, TypeInv', AloneAtBoot, BootRules, QuietUntilFault,
         BootFinishSelfSwap
  PROVE  BootRules'
<1> USE NoneAssumption, OneFault, HealthKept, FilesKept
    DEF BootRules, ExeMissing, BothRenames, AppliedIsFresh, QuietUntilFault, Unrestored,
        Bricked, Restoring, OnTrialYet, AloneAtBoot, BootFaults, HasLastUpgrade,
        SelfSwapPcs, BootPcs, ConvergePcs, ExtractPcs, InstallPcs, TypeInv, TypeOK,
        BundleAtHand, IPC, AllVersions, Goto, binaries, staged, loop, watching, poller,
        history
<1>1. CASE BootDropOld
  BY <1>1 DEF BootDropOld
<1>2. CASE BootDropApplied
  BY <1>2 DEF BootDropApplied, Write
<1>3. CASE BootDropOrphan
  BY <1>3 DEF BootDropOrphan, Write
<1>4. CASE ~ipc.applied /\ Jump("boot3", "boot4")
  BY <1>4 DEF Jump
<1> QED
  BY <1>1, <1>2, <1>3, <1>4 DEF BootFinishSelfSwap

\* Rollback and RollbackAndMark keep the rules of the two renames.
LEMMA RollbackExe ==
  ASSUME BootFaults, TypeInv, TypeInv', AloneAtBoot, BootRules, QuietUntilFault,
         Rollback
  PROVE  BootRules'
<1> USE NoneAssumption, OneFault, HealthKept, FilesKept
    DEF BootRules, ExeMissing, BothRenames, AppliedIsFresh, QuietUntilFault, Unrestored,
        Bricked, Restoring, OnTrialYet, AloneAtBoot, BootFaults, HasLastUpgrade,
        SelfSwapPcs, BootPcs, ConvergePcs, ExtractPcs, InstallPcs, TypeInv, TypeOK,
        BundleAtHand, IPC, AllVersions, Goto, binaries, staged, loop, watching, poller,
        history
<1>1. CASE RollbackFile
  <2>1. PICK d \in todo :
          /\ todo' = todo \ {d}
          /\ \/ prev[d] # None /\ prev' = [prev EXCEPT ![d] = None] /\ err' = err
             \/ prev[d] = None
             \/ Fault
    BY <1>1 DEF RollbackFile
  <2>2. /\ pc = "rollback" /\ UNCHANGED <<sup, supNew, supOld, ipc, pc, phase, why, hp>>
        /\ faults \in Nat /\ (faults' = faults \/ faults' = faults + 1)
    BY <1>1 DEF RollbackFile, Bounded, NoFault, Fault
  <2>3. ASSUME Bricked PROVE todo' = Backups' /\ ~err'
    <3>1. faults > 0 /\ todo = Backups /\ ~err
      BY <2>2, <2>3
    <3>2. prev[d] # None
      BY <2>1, <3>1 DEF Backups
    <3>3. prev' = [prev EXCEPT ![d] = None] /\ ~err'
      BY <2>1, <3>1, <3>2, OneFault
    <3>4. todo' = Backups'
      BY <2>1, <3>1, <3>3 DEF Backups
    <3> QED BY <3>3, <3>4
  <2> QED
    BY <2>2, <2>3
<1>2. CASE RollbackFilesDone
  <2>1. /\ pc = "rollback"
        /\ UNCHANGED <<bin, prev, sup, supNew, supOld, good, ipc, phase>>
        /\ UNCHANGED <<todo, why, err, hp, faults>>
    BY <1>2 DEF RollbackFilesDone
  <2>2. CASE ~err
    <3>1. pc' = IF why = "converge" THEN "cleanNew" ELSE "mark"
      BY <1>2, <2>2 DEF RollbackFilesDone
    <3> QED
      BY <2>1, <2>2, <3>1
  <2>3. CASE err
    BY <1>2, <2>1, <2>3 DEF RollbackFilesDone, ApplyFailed, AfterRollback, Callers,
       SelfSwapFailed, WatchAnew
  <2> QED
    BY <2>2, <2>3
<1>3. CASE WriteRollbackDone
  <2>1. /\ pc = "mark" /\ why \in Callers /\ why # "converge"
        /\ UNCHANGED <<bin, prev, sup, supNew, supOld, phase, todo, why, err, hp, faults>>
    BY <1>3 DEF WriteRollbackDone, Write
  <2>2. /\ ipc'.lastVer = ipc.lastVer /\ ipc'.marker = ipc.marker
        /\ ipc'.applied = ipc.applied
    BY <1>3 DEF WriteRollbackDone, Write
  <2>3. pc' = AfterRollback(TRUE)
    BY <1>3 DEF WriteRollbackDone, Write
  <2>4. \/ why = "boot" /\ pc' = "boot2"
        \/ why = "forced" /\ pc' = "restoreAside"
        \/ why = "deadline" /\ pc' = "rolledBack"
        \/ why = "brick" /\ pc' = "unswap"
    BY <2>1, <2>3 DEF AfterRollback, Callers
  <2> QED
    BY <2>1, <2>2, <2>4
<1> QED
  BY <1>1, <1>2, <1>3 DEF Rollback

\* ExtractPendingBundle keeps the rules of the two renames.
LEMMA ExtractExe ==
  ASSUME BootFaults, TypeInv, TypeInv', AloneAtBoot, BootRules, QuietUntilFault,
         ExtractPendingBundle
  PROVE  BootRules'
<1> USE NoneAssumption, OneFault, HealthKept, FilesKept
    DEF BootRules, ExeMissing, BothRenames, AppliedIsFresh, QuietUntilFault, Unrestored,
        Bricked, Restoring, OnTrialYet, AloneAtBoot, BootFaults, HasLastUpgrade,
        SelfSwapPcs, BootPcs, ConvergePcs, ExtractPcs, InstallPcs, TypeInv, TypeOK,
        BundleAtHand, IPC, AllVersions, Goto, binaries, staged, loop, watching, poller,
        history
<1>1. CASE ExtractBegin
  BY <1>1 DEF ExtractBegin, Looking
<1>2. CASE ExtractSome
  BY <1>2 DEF ExtractSome, Bounded, NoFault, ApplyFailed, AfterRollback, Callers
<1>3. CASE ExtractAll
  BY <1>3 DEF ExtractAll
<1>4. CASE ExtractDropTar
  BY <1>4 DEF ExtractDropTar, CallRollback
<1> QED
  BY <1>1, <1>2, <1>3, <1>4 DEF ExtractPendingBundle

\* ConvergeResidualBackups keeps the rules of the two renames.
LEMMA ConvergeExe ==
  ASSUME BootFaults, TypeInv, TypeInv', AloneAtBoot, BootRules, QuietUntilFault,
         ConvergeResidualBackups
  PROVE  BootRules'
<1> USE NoneAssumption, OneFault, HealthKept, FilesKept
    DEF BootRules, ExeMissing, BothRenames, AppliedIsFresh, QuietUntilFault, Unrestored,
        Bricked, Restoring, OnTrialYet, AloneAtBoot, BootFaults, HasLastUpgrade,
        SelfSwapPcs, BootPcs, ConvergePcs, ExtractPcs, InstallPcs, TypeInv, TypeOK,
        BundleAtHand, IPC, AllVersions, Goto, binaries, staged, loop, watching, poller,
        history
<1>1. CASE ApplyConverge
  BY <1>1 DEF ApplyConverge, Looking, CallRollback, IsPending
<1>2. CASE CleanNew
  BY <1>2 DEF CleanNew
<1>3. CASE CleanPending
  BY <1>3 DEF CleanPending, Write, ApplyFailed, AfterRollback, Callers
<1>4. CASE CleanRollbackDone
  BY <1>4 DEF CleanRollbackDone, Write
<1> QED
  BY <1>1, <1>2, <1>3, <1>4 DEF ConvergeResidualBackups

\* Apply, up to the last binary, keeps the rules of the two renames.
LEMMA ApplyBundleExe ==
  ASSUME BootFaults, TypeInv, TypeInv', AloneAtBoot, BootRules, QuietUntilFault,
         ApplyBundle
  PROVE  BootRules'
<1> USE NoneAssumption, OneFault, HealthKept, FilesKept
    DEF BootRules, ExeMissing, BothRenames, AppliedIsFresh, QuietUntilFault, Unrestored,
        Bricked, Restoring, OnTrialYet, AloneAtBoot, BootFaults, HasLastUpgrade,
        SelfSwapPcs, BootPcs, ConvergePcs, ExtractPcs, InstallPcs, TypeInv, TypeOK,
        BundleAtHand, IPC, AllVersions, Goto, binaries, staged, loop, watching, poller,
        history
<1>1. CASE VerifyAll
  BY <1>1 DEF VerifyAll, Entries, ApplyFailed
<1>2. CASE BackupDest
  BY <1>2 DEF BackupDest, Bounded, NoFault, SwapFailed
<1>3. CASE PlaceDest
  BY <1>3 DEF PlaceDest, Bounded, NoFault, SwapFailed
<1>4. CASE StageSupervisor
  BY <1>4 DEF StageSupervisor, Bounded, NoFault, SwapFailed
<1>5. CASE StagePending
  BY <1>5 DEF StagePending
<1>6. CASE RecoverFile
  BY <1>6 DEF RecoverFile, Bounded, NoFault
<1>7. CASE pc = "undo" /\ todo = {} /\ Jump("undo", "cleanNew")
  BY <1>7 DEF Jump
<1>8. CASE todo = {} /\ Jump("swap", "metaVer")
  BY <1>8 DEF Jump
<1> QED
  BY <1>1, <1>2, <1>3, <1>4, <1>5, <1>6, <1>7, <1>8 DEF ApplyBundle, RecoverFailedApply

\* WriteUpgradeMeta and ClearPending keep the rules of the two renames.
LEMMA MetaExe ==
  ASSUME BootFaults, TypeInv, TypeInv', AloneAtBoot, BootRules, QuietUntilFault,
         ApplyNothing \/ ApplyInvalid \/ WriteUpgradeMeta \/ ClearPending
  PROVE  BootRules'
<1> USE NoneAssumption, OneFault, HealthKept, FilesKept
    DEF BootRules, ExeMissing, BothRenames, AppliedIsFresh, QuietUntilFault, Unrestored,
        Bricked, Restoring, OnTrialYet, AloneAtBoot, BootFaults, HasLastUpgrade,
        SelfSwapPcs, BootPcs, ConvergePcs, ExtractPcs, InstallPcs, TypeInv, TypeOK,
        BundleAtHand, IPC, AllVersions, Goto, binaries, staged, loop, watching, poller,
        history
<1>1. CASE ApplyNothing
  BY <1>1 DEF ApplyNothing, Jump, Looking, ApplyFailed, AfterRollback, Callers,
     IsPending
<1>2. CASE ApplyInvalid
  BY <1>2 DEF ApplyInvalid, Jump, Looking, ApplyFailed, AfterRollback, Callers,
     IsPending
<1>3. CASE WriteUpgradeMeta
  <2>1. UNCHANGED <<bin, prev, sup, supNew, supOld, phase, todo, why, err, hp, faults>>
    BY <1>3 DEF WriteUpgradeMeta, Write
  <2>2. CASE pc = "metaVer"
    <3>1. incoming \in Bundle /\ incoming.ver # None
      BY <2>2, NoneAssumption DEF Bundle
    <3>2. ipc' = [ipc EXCEPT !.lastVer = incoming.ver] /\ pc' = "metaMarker"
      BY <1>3, <2>2, <3>1 DEF WriteUpgradeMeta, Write
    <3>3. ipc'.lastVer # None /\ ipc'.applied = ipc.applied
      BY <3>1, <3>2
    <3> QED
      BY <2>1, <2>2, <3>2, <3>3
  <2>3. CASE pc = "metaMarker"
    <3>1. ipc' = [ipc EXCEPT !.marker = None] /\ pc' = "clear"
      BY <1>3, <2>3 DEF WriteUpgradeMeta, Write
    <3>2. /\ ipc'.lastVer = ipc.lastVer /\ ipc'.marker = None
          /\ ipc'.applied = ipc.applied
      BY <3>1
    <3> QED
      BY <2>1, <2>3, <3>1, <3>2 DEF IsUpgradeHealthy
  <2> QED
    BY <1>3, <2>2, <2>3 DEF WriteUpgradeMeta, Write
<1>4. CASE ClearPending
  BY <1>4 DEF ClearPending, ApplyDone
<1> QED
  BY <1>1, <1>2, <1>3, <1>4

\* SupervisorSelfSwap keeps the rules of the two renames.
LEMMA SelfSwapExe ==
  ASSUME BootFaults, TypeInv, TypeInv', AloneAtBoot, BootRules, QuietUntilFault,
         SupervisorSelfSwap
  PROVE  BootRules'
<1> USE NoneAssumption, OneFault, HealthKept, FilesKept
    DEF BootRules, ExeMissing, BothRenames, AppliedIsFresh, QuietUntilFault, Unrestored,
        Bricked, Restoring, OnTrialYet, AloneAtBoot, BootFaults, HasLastUpgrade,
        SelfSwapPcs, BootPcs, ConvergePcs, ExtractPcs, InstallPcs, TypeInv, TypeOK,
        BundleAtHand, IPC, AllVersions, Goto, binaries, staged, loop, watching, poller,
        history
<1>1. CASE SmokeTest
  BY <1>1 DEF SmokeTest, SelfSwapFailed, WatchAnew
<1>2. CASE SmokeTestFailed
  BY <1>2 DEF SmokeTestFailed, SelfSwapFailed, WatchAnew
<1>3. CASE RenameAside
  BY <1>3 DEF RenameAside, Bounded, NoFault, SelfSwapFailed, WatchAnew
<1>4. CASE RenameIn
  <2>1. /\ pc = "replace" /\ sup = None /\ supNew # None /\ ~ipc.applied
        /\ UNCHANGED <<bin, prev, supOld, good, ipc, phase, hp>>
    BY <1>4 DEF RenameIn, Bounded
  <2>2. CASE sup' = supNew /\ pc' = "markApplied"
    BY <2>1, <2>2
  <2>3. CASE Fault /\ CallRollback("brick") /\ UNCHANGED <<sup, supNew>>
    <3>1. faults = 0 /\ faults' > 0
      BY <2>3, OneFault DEF Fault
    <3>2. hp = "idle" /\ supOld # None
      BY <2>1, <3>1
    <3>3. pc' = "rollback" /\ why' = "brick" /\ todo' = Backups' /\ ~err'
      BY <2>1, <2>3 DEF CallRollback
    <3> QED
      BY <2>1, <2>3, <3>1, <3>2, <3>3
  <2> QED
    BY <1>4, <2>2, <2>3 DEF RenameIn
<1>5. CASE RenameBack
  BY <1>5 DEF RenameBack, Bounded, NoFault, SelfSwapFailed, WatchAnew
<1>6. CASE ResetUpgradeIPC
  <2>1. CASE pc = "resetVer"
    BY <1>6, <2>1, ResetWrites
  <2>2. CASE pc = "resetRest"
    BY <1>6, <2>2, ResetWrites
  <2> QED BY <1>6, <2>1, <2>2, ResetWrites
<1>7. CASE MarkSelfSwap
  <2>1. CASE pc = "markApplied"
    BY <1>7, <2>1, MarksWrite
  <2>2. CASE pc = "markAwaiting"
    BY <1>7, <2>2, MarksWrite
  <2> QED BY <1>7, <2>1, <2>2, MarksWrite
<1>8. CASE DropPending
  BY <1>8 DEF DropPending
<1> QED
  BY <1>1, <1>2, <1>3, <1>4, <1>5, <1>6, <1>7, <1>8 DEF SupervisorSelfSwap

\* superviseWorker and runWorkerOnce keep the rules of the two renames.
LEMMA SuperviseWorkerExe ==
  ASSUME BootFaults, TypeInv, TypeInv', AloneAtBoot, BootRules, QuietUntilFault,
         SuperviseWorker
  PROVE  BootRules'
<1> USE NoneAssumption, OneFault, HealthKept, FilesKept
    DEF BootRules, ExeMissing, BothRenames, AppliedIsFresh, QuietUntilFault, Unrestored,
        Bricked, Restoring, OnTrialYet, AloneAtBoot, BootFaults, HasLastUpgrade,
        SelfSwapPcs, BootPcs, ConvergePcs, ExtractPcs, InstallPcs, TypeInv, TypeOK,
        BundleAtHand, IPC, AllVersions, Goto, binaries, staged, loop, watching, poller,
        history
<1>1. CASE StartWorker
  BY <1>1 DEF StartWorker
<1>2. CASE WorkerExit
  BY <1>2 DEF WorkerExit, WorkerGone
<1>3. CASE DeadlineKill
  BY <1>3 DEF DeadlineKill, WorkerGone, WorkerExit
<1>4. CASE EndOfWorker
  BY <1>4 DEF EndOfWorker, CallRollback, Disarm, ShouldRollbackAfterDeadline
<1>5. CASE RolledBack
  BY <1>5 DEF RolledBack, Disarm, ShouldRollbackAfterDeadline
<1>6. CASE Applied
  BY <1>6 DEF Applied, SelfSwapFailed, WatchAnew
<1> QED
  BY <1>1, <1>2, <1>3, <1>4, <1>5, <1>6 DEF SuperviseWorker

\* HealthPoll keeps the rules of the two renames.
LEMMA HealthPollExe ==
  ASSUME BootFaults, TypeInv, TypeInv', AloneAtBoot, BootRules, QuietUntilFault,
         HealthPoll
  PROVE  BootRules'
<1> USE NoneAssumption, OneFault, HealthKept, FilesKept
    DEF BootRules, ExeMissing, BothRenames, AppliedIsFresh, QuietUntilFault, Unrestored,
        Bricked, Restoring, OnTrialYet, AloneAtBoot, BootFaults, HasLastUpgrade,
        SelfSwapPcs, BootPcs, ConvergePcs, ExtractPcs, InstallPcs, TypeInv, TypeOK,
        BundleAtHand, IPC, AllVersions, Goto, binaries, staged, loop, watching, poller,
        history
<1>1. CASE PollHealthy
  BY <1>1 DEF PollHealthy
<1>2. CASE PollStop
  BY <1>2 DEF PollStop
<1>3. CASE CleanupPrevious
  BY <1>3 DEF CleanupPrevious, Bounded, NoFault
<1>4. CASE CleanupSupervisorOld
  BY <1>4 DEF CleanupSupervisorOld, Bounded, NoFault
<1>5. CASE PollConfirm
  BY <1>5 DEF PollConfirm
<1> QED
  BY <1>1, <1>2, <1>3, <1>4, <1>5 DEF HealthPoll

\* The worker's calls keep the rules of the two renames.
LEMMA WorkerCallsExe ==
  ASSUME BootFaults, TypeInv, TypeInv', AloneAtBoot, BootRules, QuietUntilFault,
         WorkerCalls
  PROVE  BootRules'
<1> USE NoneAssumption, OneFault, HealthKept, FilesKept
    DEF BootRules, ExeMissing, BothRenames, AppliedIsFresh, QuietUntilFault, Unrestored,
        Bricked, Restoring, OnTrialYet, AloneAtBoot, BootFaults, HasLastUpgrade,
        SelfSwapPcs, BootPcs, ConvergePcs, ExtractPcs, InstallPcs, TypeInv, TypeOK,
        BundleAtHand, IPC, AllVersions, Goto, binaries, staged, loop, watching, poller,
        history
<1>1. CASE WriteHealthMarker
  BY <1>1 DEF WriteHealthMarker
<1>2. CASE FetchPackage
  BY <1>2 DEF FetchPackage, Sends, Settled, IsPending
<1>3. CASE FetchPackageDone
  BY <1>3 DEF FetchPackageDone
<1>4. CASE ApplyPackage
  BY <1>4 DEF ApplyPackage, WorkerGone, WorkerExit, IsPending
<1>5. CASE AgentUpgrade
  BY <1>5 DEF AgentUpgrade, WorkerGone, Sends, Settled, IsPending
<1> QED
  BY <1>1, <1>2, <1>3, <1>4, <1>5 DEF WorkerCalls

\* Passing time and a power loss keep the rules of the two renames.
LEMMA TimedExe ==
  ASSUME BootFaults, TypeInv, TypeInv', AloneAtBoot, BootRules, QuietUntilFault,
         DeadlinePasses \/ AwaitingAges \/ PowerLoss
  PROVE  BootRules'
<1> USE NoneAssumption, OneFault, HealthKept, FilesKept
    DEF BootRules, ExeMissing, BothRenames, AppliedIsFresh, QuietUntilFault, Unrestored,
        Bricked, Restoring, OnTrialYet, AloneAtBoot, BootFaults, HasLastUpgrade,
        SelfSwapPcs, BootPcs, ConvergePcs, ExtractPcs, InstallPcs, TypeInv, TypeOK,
        BundleAtHand, IPC, AllVersions, Goto, binaries, staged, loop, watching, poller,
        history
<1>1. CASE DeadlinePasses
  BY <1>1 DEF DeadlinePasses
<1>2. CASE AwaitingAges
  BY <1>2 DEF AwaitingAges
<1>3. CASE PowerLoss
  BY <1>3 DEF PowerLoss
<1> QED
  BY <1>1, <1>2, <1>3

\* Every step keeps the rules of the two renames.
LEMMA ExeStep ==
  ASSUME BootFaults, TypeInv, TypeInv', AloneAtBoot, BootRules, QuietUntilFault, [Next]_vars
  PROVE  BootRules'
<1>1. CASE Supervisor
  BY <1>1, BootExe, BootCheckHealthExe, RestoreExe, BootFinishSelfSwapExe, RollbackExe,
     ExtractExe, ConvergeExe, ApplyBundleExe, MetaExe, SelfSwapExe DEF Supervisor, Apply
<1>2. CASE SuperviseWorker
  BY <1>2, SuperviseWorkerExe
<1>3. CASE HealthPoll
  BY <1>3, HealthPollExe
<1>4. CASE WorkerCalls
  BY <1>4, WorkerCallsExe
<1>5. CASE DeadlinePasses \/ AwaitingAges \/ PowerLoss
  BY <1>5, TimedExe
<1>6. CASE UNCHANGED vars
  BY <1>6, FilesKept, HealthKept
     DEF BootRules, ExeMissing, BothRenames, AppliedIsFresh, Unrestored, Bricked, Restoring,
         OnTrialYet, HasLastUpgrade, vars, binaries, staged, loop, watching, poller, history
<1> QED BY <1>1, <1>2, <1>3, <1>4, <1>5, <1>6 DEF Next

\* Whenever the service is down there is a supervisor.exe to start it from: each
\* of the four places that rename it away (RenameAside, RestoreAside, and the
\* failures after them) puts one back, also when one file operation fails.
THEOREM ExeIsThere == ASSUME BootFaults PROVE Spec => []Bootable
<1> DEFINE Inv == AwaitsInv /\ BootRules
<1>1. Init => Inv
  <2> SUFFICES ASSUME Init PROVE Inv
    OBVIOUS
  <2>1. BothRenames /\ AppliedIsFresh
    BY DEF Init, BothRenames, AppliedIsFresh, Bricked, Restoring
  <2>2. ExeMissing
    BY NoneAssumption DEF Init, ExeMissing, AllVersions
  <2> QED BY <2>1, <2>2, InitAwaits DEF BootRules
<1>2. Inv /\ [Next]_vars => Inv'
  <2> SUFFICES ASSUME AwaitsInv, BootRules, [Next]_vars PROVE Inv'
    OBVIOUS
  <2>1. CrashPoints /\ Unversioned = {}
    BY DEF BootFaults, CrashPoints
  <2>2. AwaitsInv' /\ TypeInv' /\ TypeInv /\ AloneAtBoot
    BY <2>1, AwaitsInvStep DEF AwaitsInv, FaultlessInv
  <2>3. QuietUntilFault
    BY DEF QuietUntilFault, AwaitsInv, AwaitsInstalled
  <2> QED BY <2>2, <2>3, ExeStep
<1>3. Inv => Bootable
  BY DEF BootRules, ExeMissing, Bricked, AwaitsInv, Unrestored, ConvergePcs, InstallPcs,
     ExtractPcs, Bootable
<1> HIDE DEF Inv
<1> QED BY <1>1, <1>2, <1>3, PTL DEF Spec

-----------------------------------------------------------------------------
(* Worker and supervisor are upgraded and rolled back together.            *)

\* Every bundle has a supervisor that passes its smoke test, no file operation
\* fails, and power is lost only while a worker runs.
PairFaults ==
  /\ Patient /\ CrashAt \subseteq {"run"} /\ MaxFaults = 0
  /\ WorkerOnly = {} /\ Unversioned = {} /\ BadSupervisors = {}

\* A rollback after the self-swap: what BootCheck takes for its order to restore.
Undone == ipc.rbDone /\ ipc.rbNewer

\* No bundle is being applied and no rollback is under way.
Resting == {"off", "boot1", "boot2", "boot3", "boot3applied", "boot3pending", "boot4", "boot5",
            "start", "run", "exit", "end", "rolledBack"} \cup ExtractPcs

\* No upgrade under way: both are the confirmed ones; both are on trial; or the
\* worker is back and the supervisor is to follow.
RestingPair ==
  pc \in Resting /\ ~ipc.supPend =>
    \/ AllGood /\ sup = good /\ (ipc.awaiting => IsUpgradeHealthy /\ ~Undone)
    \/ /\ ipc.awaiting /\ ~IsUpgradeHealthy /\ ~Undone
       /\ supOld = good /\ sup = bin[Worker] /\ sup # None
    \/ /\ ipc.awaiting /\ ~IsUpgradeHealthy /\ Undone /\ AllGood
       /\ supOld = good /\ pc \in {"rolledBack", "off", "boot1"}

\* An upgrade starts from the confirmed worker and its supervisor.
ConvergePair ==
  /\ pc \in ConvergePcs \cup {"verify"} \/ (pc = "rollback" /\ why = "converge") =>
       /\ AllGood /\ sup = good /\ ~ipc.supPend
       /\ ipc.awaiting /\ ~IsUpgradeHealthy => supOld = good
  /\ pc = "verify" => ~ipc.rbDone
  /\ IsPending \/ tar # None => pc \in Applying \/ AllGood

\* The supervisor of the bundle is staged, and not yet swapped in.
ApplyPair ==
  pc \in Applying =>
    /\ sup = good /\ ~ipc.rbDone
    /\ pc = "stage" => Sup \in todo
    /\ Sup \notin todo => ipc.supPend
    /\ ipc.supPend \/ pc = "stage" => supNew = incoming.ver

\* The two renames of the self-swap.
SwapPair ==
  /\ ipc.supPend /\ pc \notin Applying =>
       /\ pc \in TrialPcs \cup {"applied", "boot3", "boot3applied", "boot4", "boot5"}
       /\ OnTrial /\ bin[Worker] \in Versions /\ ipc.marker = None
       /\ CASE pc \in {"markApplied", "markAwaiting", "dropPending"} ->
                 sup = bin[Worker] /\ supOld = good
            [] pc = "replace" -> supNew = bin[Worker] /\ supOld = good
            [] OTHER -> supNew = bin[Worker] /\ sup = good
  /\ pc = "applied" => ipc.supPend
  /\ pc = "boot3applied" => ipc.applied
  /\ pc # "smokeFailed"
  /\ ipc.supPend /\ ipc.applied /\ pc \notin {"markAwaiting", "dropPending"} => ipc.pendNewer
  /\ pc = "dropPending" => ipc.awaiting /\ ~Undone

\* A rollback finds the supervisor it belongs to, or its .old.
RollbackPair ==
  pc \in {"rollback", "mark"} /\ why # "converge" =>
    /\ ~ipc.supPend /\ ~IsUpgradeHealthy
    /\ IF ipc.awaiting THEN supOld = good ELSE sup = good
    /\ why = "boot" => ~ipc.awaiting
    /\ why = "forced" => ipc.awaiting

\* The supervisor is restored next to a confirmed worker.
RestorePair ==
  /\ pc \in {"restoreAside", "restoreBack", "restoreAwaiting", "restoreApplied"} =>
       /\ AllGood /\ ~ipc.supPend
       /\ IF pc \in {"restoreAside", "restoreBack"} THEN supOld = good ELSE sup = good
       /\ IF pc = "restoreApplied" THEN ~ipc.awaiting ELSE ~IsUpgradeHealthy

\* The six together are inductive.
PairRules ==
  /\ RestingPair /\ ConvergePair /\ ApplyPair /\ SwapPair /\ RollbackPair /\ RestorePair

\* What the installation has to say about it.
PairFacts ==
  /\ hp \in {"clean", "old", "await"} => IsUpgradeHealthy
  /\ fetching \/ pc \in ExtractPcs \cup Applying \cup SelfSwapPcs \cup {"applied"} => hp = "idle"
  /\ pc \in Applying => incoming.ver \in Versions
  /\ pc \in {"extract", "extracting"} => tar # None
  /\ pc \in {"extracted", "verify"} \/ fetching => IsPending
  /\ pc = "rollback" => Residue
  /\ (AllGood => bin[Worker] = good) /\ good # None /\ cur # Sup
  /\ pc \in {"metaVer", "metaMarker", "clear"} =>
       OnTrial /\ bin[Worker] = incoming.ver /\ todo = {}
  /\ pc = "clear" => ipc.marker = None
  /\ pc \in Applying => tar = None
  /\ pc = "mark" => AllGood
  /\ pc = "run" /\ IsUpgradeHealthy => AllGood /\ ipc.lastVer = good
  /\ pc = "run" /\ Backups = {} => AllGood
  /\ ipc.awaiting => HasLastUpgrade
  /\ pc \in TrialPcs => ipc.supPend
  /\ ~err /\ why # "brick" /\ pc \notin {"undo", "unswap", "resetVer", "resetRest"}

\* They follow from what is known of the installation.
LEMMA PairFactsHold ==
  ASSUME InstallInv, AwaitsInstalled
  PROVE  PairFacts
<1>1. pc \in Applying => hp = "idle" /\ incoming.ver \in Versions
  BY DEF InstallInv, StagingInv, StagingRules, InstallRules, ApplyFiles, PollerWaits, TypeInv,
     TypeOK, Whole, Bundle
<1>4. /\ pc \in {"extract", "extracting"} => tar # None
      /\ pc \in {"extracted", "verify"} \/ fetching => IsPending
  BY NoneAssumption DEF InstallInv, StagingInv, TypeInv, BundleAtHand, IsPending, AllVersions
<1>5. (AllGood => bin[Worker] = good) /\ good # None /\ cur # Sup
  BY WorkerAssumption, GoodIsAVersion DEF InstallInv, StagingInv, TypeInv, TypeOK, AllGood
<1>2. pc \in {"metaVer", "metaMarker", "clear"} =>
        OnTrial /\ bin[Worker] = incoming.ver /\ todo = {}
  BY Shapes, WorkerAssumption
     DEF InstallInv, StagingInv, InstallRules, ApplyFiles, Applying, Swapped
<1>3. pc = "run" /\ Backups = {} => AllGood
  BY Shapes
     DEF InstallInv, StagingInv, InstallRules, QuietFiles, Applying, Swapping, Recovering
<1> QED
  BY <1>1, <1>2, <1>3, <1>4, <1>5
     DEF PairFacts, InstallInv, StagingInv, StagingRules, InstallRules, RollbackFiles,
         ApplyFiles, HealthyIsGood, PollerWaits, NoFailure, AwaitsInstalled

\* After a step as well.
LEMMA PairFactsNext ==
  ASSUME InstallInv', AwaitsInstalled'
  PROVE  PairFacts'
BY PairFactsHold, PTL

\* What is confirmed does not depend on the backups.
LEMMA GoodKept ==
  ASSUME UNCHANGED <<bin, good>>
  PROVE  AllGood' = AllGood
BY DEF AllGood

\* The start of the service, the brick guard and a pending self-swap keep the
\* pair.
LEMMA BootKeepsPair ==
  ASSUME PairFaults, TypeInv, TypeInv', AloneAtBoot, AloneAtBoot', PairFacts, PairFacts',
         PairRules, faults' = 0,
         Boot \/ BootUnbrick \/ BootSelfSwap
  PROVE  PairRules'
<1> USE FilesKept, GoodKept, HealthKept, NothingFails
    DEF PairFacts, PairRules, RestingPair, ConvergePair, ApplyPair, SwapPair, RollbackPair,
        RestorePair, Resting, Undone, PairFaults, AloneAtBoot, IsPending, TrialPcs,
        Applying, Swapping, SelfSwapPcs, BootPcs, ConvergePcs, ExtractPcs, TypeInv,
        BundleAtHand, Goto, binaries, staged, loop, watching, poller, history
<1>1. CASE Boot
  BY <1>1 DEF Boot
<1>2. CASE BootUnbrick
  BY <1>2 DEF BootUnbrick, Bounded, NoFault
<1>3. CASE BootSelfSwap
  BY <1>3 DEF BootSelfSwap, Jump
<1> QED
  BY <1>1, <1>2, <1>3

\* BootCheck's health check keeps the pair.
LEMMA BootCheckHealthKeepsPair ==
  ASSUME PairFaults, TypeInv, TypeInv', AloneAtBoot, AloneAtBoot', PairFacts, PairFacts',
         PairRules, faults' = 0,
         BootCheckHealth
  PROVE  PairRules'
<1> USE FilesKept, GoodKept, HealthKept, NothingFails
    DEF PairFacts, PairRules, RestingPair, ConvergePair, ApplyPair, SwapPair, RollbackPair,
        RestorePair, Resting, Undone, PairFaults, AloneAtBoot, IsPending, TrialPcs,
        Applying, Swapping, SelfSwapPcs, BootPcs, ConvergePcs, ExtractPcs, TypeInv,
        BundleAtHand, Goto, binaries, staged, loop, watching, poller, history
<1>1. CASE BootClearStaleRollbackDone
  BY <1>1 DEF BootClearStaleRollbackDone, Write
<1>2. CASE BootRestoreSupervisor
  BY <1>2 DEF BootRestoreSupervisor, Jump
<1>3. CASE BootClearAgedAwaiting
  BY <1>3 DEF BootClearAgedAwaiting, Write
<1>4. CASE BootForceDualRollback
  BY <1>4 DEF BootForceDualRollback, CallRollback
<1>5. CASE BootArmWatch
  BY <1>5 DEF BootArmWatch
<1>6. CASE BootRollback
  BY <1>6 DEF BootRollback, CallRollback
<1>7. CASE BootNothingToUndo
  BY <1>7 DEF BootNothingToUndo, Jump
<1> QED
  BY <1>1, <1>2, <1>3, <1>4, <1>5, <1>6, <1>7 DEF BootCheckHealth

\* restoreSupervisorFromOld keeps the pair.
LEMMA RestoreKeepsPair ==
  ASSUME PairFaults, TypeInv, TypeInv', AloneAtBoot, AloneAtBoot', PairFacts, PairFacts',
         PairRules, faults' = 0,
         Restore
  PROVE  PairRules'
<1> USE FilesKept, GoodKept, HealthKept, NothingFails
    DEF PairFacts, PairRules, RestingPair, ConvergePair, ApplyPair, SwapPair, RollbackPair,
        RestorePair, Resting, Undone, PairFaults, AloneAtBoot, IsPending, TrialPcs,
        Applying, Swapping, SelfSwapPcs, BootPcs, ConvergePcs, ExtractPcs, TypeInv,
        BundleAtHand, Goto, binaries, staged, loop, watching, poller, history
<1>1. CASE RestoreNothing
  BY <1>1 DEF RestoreNothing, Write
<1>2. CASE RestoreAside
  BY <1>2 DEF RestoreAside, Bounded, NoFault
<1>3. CASE RestoreBack
  BY <1>3 DEF RestoreBack, Bounded, NoFault
<1>4. CASE RestoreClear
  <2>1. /\ pc \in {"restoreAwaiting", "restoreApplied"}
        /\ pc' = IF pc = "restoreAwaiting" THEN "restoreApplied" ELSE "off"
        /\ UNCHANGED <<bin, prev, sup, supNew, supOld, good, incoming, tar, todo, why, err, hp>>
    BY <1>4 DEF RestoreClear, Write
  <2>2. \/ pc = "restoreAwaiting" /\ ipc' = [ipc EXCEPT !.awaiting = FALSE]
        \/ pc = "restoreApplied" /\ ipc' = [ipc EXCEPT !.applied = FALSE]
    BY <1>4 DEF RestoreClear, Write
  <2>3. /\ ipc'.lastVer = ipc.lastVer /\ ipc'.marker = ipc.marker
        /\ ipc'.supPend = ipc.supPend /\ ~ipc'.awaiting
    BY <2>1, <2>2 DEF TypeOK, IPC
  <2> QED
    BY <2>1, <2>3
<1> QED
  BY <1>1, <1>2, <1>3, <1>4 DEF Restore

\* BootCheck's end keeps the pair.
LEMMA BootFinishSelfSwapKeepsPair ==
  ASSUME PairFaults, TypeInv, TypeInv', AloneAtBoot, AloneAtBoot', PairFacts, PairFacts',
         PairRules, faults' = 0,
         BootFinishSelfSwap
  PROVE  PairRules'
<1> USE FilesKept, GoodKept, HealthKept, NothingFails
    DEF PairFacts, PairRules, RestingPair, ConvergePair, ApplyPair, SwapPair, RollbackPair,
        RestorePair, Resting, Undone, PairFaults, AloneAtBoot, IsPending, TrialPcs,
        Applying, Swapping, SelfSwapPcs, BootPcs, ConvergePcs, ExtractPcs, TypeInv,
        BundleAtHand, Goto, binaries, staged, loop, watching, poller, history
<1>1. CASE BootDropOld
  BY <1>1 DEF BootDropOld
<1>2. CASE BootDropApplied
  <2>1. /\ pc = "boot3applied" /\ ipc' = [ipc EXCEPT !.applied = FALSE]
        /\ UNCHANGED <<bin, prev, sup, supNew, supOld, good, incoming, tar, why, err, hp>>
    BY <1>2 DEF BootDropApplied, Write
  <2>2. /\ ipc'.lastVer = ipc.lastVer /\ ipc'.marker = ipc.marker /\ ~ipc'.applied
        /\ ipc'.rbDone = ipc.rbDone /\ ipc'.rbNewer = ipc.rbNewer
        /\ ipc'.awaiting = ipc.awaiting /\ ipc'.supPend = ipc.supPend
    BY <2>1 DEF TypeOK, IPC
  <2>3. pc' = IF ipc.supPend /\ ipc.pendNewer THEN "boot4" ELSE "boot3pending"
    BY <1>2 DEF BootDropApplied, Write
  <2>4. CASE ipc.supPend
    <3>1. ~ipc.applied \/ ipc.pendNewer
      BY <2>1, <2>4
    <3>2. pc' = "boot4"
      BY <2>1, <2>2, <2>3, <2>4, <3>1
    <3> QED BY <2>1, <2>2, <2>4, <3>2
  <2>5. CASE ~ipc.supPend
    BY <2>1, <2>2, <2>3, <2>5
  <2> QED BY <2>4, <2>5
<1>3. CASE BootDropOrphan
  BY <1>3 DEF BootDropOrphan, Write
<1>4. CASE ~ipc.applied /\ Jump("boot3", "boot4")
  BY <1>4 DEF Jump
<1> QED
  BY <1>1, <1>2, <1>3, <1>4 DEF BootFinishSelfSwap

\* Rollback and RollbackAndMark keep the pair.
LEMMA RollbackKeepsPair ==
  ASSUME PairFaults, TypeInv, TypeInv', AloneAtBoot, AloneAtBoot', PairFacts, PairFacts',
         PairRules, faults' = 0,
         Rollback
  PROVE  PairRules'
<1> USE FilesKept, GoodKept, HealthKept, NothingFails
    DEF PairFacts, PairRules, RestingPair, ConvergePair, ApplyPair, SwapPair, RollbackPair,
        RestorePair, Resting, Undone, PairFaults, AloneAtBoot, IsPending, TrialPcs,
        Applying, Swapping, SelfSwapPcs, BootPcs, ConvergePcs, ExtractPcs, TypeInv,
        BundleAtHand, Goto, binaries, staged, loop, watching, poller, history
<1>1. CASE RollbackFile
  <2>1. PICK d \in todo :
          /\ todo' = todo \ {d}
          /\ \/ prev[d] # None /\ bin' = [bin EXCEPT ![d] = prev[d]]
             \/ bin' = bin
    BY <1>1 DEF RollbackFile
  <2>2. /\ pc = "rollback"
        /\ UNCHANGED <<sup, supNew, supOld, good, incoming, tar, ipc, pc, why, hp>>
    BY <1>1 DEF RollbackFile, Bounded
  <2>3. Residue /\ ~err'
    BY <2>2
  <2>4. AllGood => AllGood'
    BY <2>1, <2>2, <2>3 DEF TypeOK, AllGood, Residue
  <2>5. ~ipc.supPend
    BY <2>2
  <2> QED
    BY <2>2, <2>3, <2>4, <2>5
<1>2. CASE RollbackFilesDone
  BY <1>2 DEF RollbackFilesDone, ApplyFailed, AfterRollback, Callers, SelfSwapFailed,
     WatchAnew
<1>3. CASE WriteRollbackDone
  <2>1. /\ pc = "mark" /\ why \in Callers /\ why \notin {"converge", "brick"} /\ AllGood
        /\ UNCHANGED <<bin, prev, sup, supNew, supOld, good, incoming, tar, todo, why, err, hp>>
    BY <1>3 DEF WriteRollbackDone, Write, TypeOK
  <2>2. /\ ipc'.lastVer = ipc.lastVer /\ ipc'.marker = ipc.marker
        /\ ipc'.awaiting = ipc.awaiting /\ ipc'.supPend = ipc.supPend
        /\ ipc'.applied = ipc.applied /\ ipc'.rbDone /\ ipc'.rbNewer
    BY <1>3 DEF WriteRollbackDone, Write, TypeOK, IPC
  <2>3. pc' = AfterRollback(TRUE)
    BY <1>3 DEF WriteRollbackDone, Write
  <2>4. \/ why = "boot" /\ pc' = "boot2"
        \/ why = "forced" /\ pc' = "restoreAside"
        \/ why = "deadline" /\ pc' = "rolledBack"
    BY <2>1, <2>3 DEF AfterRollback, Callers
  <2> QED
    BY <2>1, <2>2, <2>4
<1> QED
  BY <1>1, <1>2, <1>3 DEF Rollback

\* ExtractPendingBundle keeps the pair.
LEMMA ExtractKeepsPair ==
  ASSUME PairFaults, TypeInv, TypeInv', AloneAtBoot, AloneAtBoot', PairFacts, PairFacts',
         PairRules, faults' = 0,
         ExtractPendingBundle
  PROVE  PairRules'
<1> USE FilesKept, GoodKept, HealthKept, NothingFails
    DEF PairFacts, PairRules, RestingPair, ConvergePair, ApplyPair, SwapPair, RollbackPair,
        RestorePair, Resting, Undone, PairFaults, AloneAtBoot, IsPending, TrialPcs,
        Applying, Swapping, SelfSwapPcs, BootPcs, ConvergePcs, ExtractPcs, TypeInv,
        BundleAtHand, Goto, binaries, staged, loop, watching, poller, history
<1>1. CASE ExtractBegin
  BY <1>1 DEF ExtractBegin, Looking
<1>2. CASE ExtractSome
  <2>1. /\ pc = "extract" /\ pc' = "extracting"
        /\ UNCHANGED <<bin, prev, sup, supNew, supOld, good, tar, ipc, why, err, hp>>
    BY <1>2 DEF ExtractSome, Bounded
  <2> QED
    BY <2>1
<1>3. CASE ExtractAll
  <2>1. /\ pc = "extracting" /\ pc' = "extracted"
        /\ UNCHANGED <<bin, prev, sup, supNew, supOld, good, tar, ipc, why, err, hp>>
    BY <1>3 DEF ExtractAll
  <2> QED
    BY <2>1
<1>4. CASE ExtractDropTar
  <2>1. /\ pc = "extracted" /\ pc' = "rollback" /\ why' = "converge" /\ tar' = None
        /\ UNCHANGED <<bin, prev, sup, supNew, supOld, good, incoming, ipc, hp>>
    BY <1>4 DEF ExtractDropTar, CallRollback
  <2>2. AllGood /\ ~ipc.supPend
    BY <2>1
  <2> QED
    BY <2>1, <2>2
<1> QED
  BY <1>1, <1>2, <1>3, <1>4 DEF ExtractPendingBundle

\* ConvergeResidualBackups keeps the pair.
LEMMA ConvergeKeepsPair ==
  ASSUME PairFaults, TypeInv, TypeInv', AloneAtBoot, AloneAtBoot', PairFacts, PairFacts',
         PairRules, faults' = 0,
         ConvergeResidualBackups
  PROVE  PairRules'
<1> USE FilesKept, GoodKept, HealthKept, NothingFails
    DEF PairFacts, PairRules, RestingPair, ConvergePair, ApplyPair, SwapPair, RollbackPair,
        RestorePair, Resting, Undone, PairFaults, AloneAtBoot, IsPending, TrialPcs,
        Applying, Swapping, SelfSwapPcs, BootPcs, ConvergePcs, ExtractPcs, TypeInv,
        BundleAtHand, Goto, binaries, staged, loop, watching, poller, history
<1>1. CASE ApplyConverge
  BY <1>1 DEF ApplyConverge, Looking, CallRollback, IsPending
<1>2. CASE CleanNew
  BY <1>2 DEF CleanNew
<1>3. CASE CleanPending
  BY <1>3 DEF CleanPending, Write, ApplyFailed, AfterRollback, Callers
<1>4. CASE CleanRollbackDone
  BY <1>4 DEF CleanRollbackDone, Write
<1> QED
  BY <1>1, <1>2, <1>3, <1>4 DEF ConvergeResidualBackups

\* Apply, up to the last binary, keeps the pair.
LEMMA ApplyBundleKeepsPair ==
  ASSUME PairFaults, TypeInv, TypeInv', AloneAtBoot, AloneAtBoot', PairFacts, PairFacts',
         PairRules, faults' = 0,
         ApplyBundle
  PROVE  PairRules'
<1> USE FilesKept, GoodKept, HealthKept, NothingFails
    DEF PairFacts, PairRules, RestingPair, ConvergePair, ApplyPair, SwapPair, RollbackPair,
        RestorePair, Resting, Undone, PairFaults, AloneAtBoot, IsPending, TrialPcs,
        Applying, Swapping, SelfSwapPcs, BootPcs, ConvergePcs, ExtractPcs, TypeInv,
        BundleAtHand, Goto, binaries, staged, loop, watching, poller, history
<1>1. CASE VerifyAll
  <2>1. /\ pc = "verify" /\ pc' \in {"swap", "boot3", "end"}
        /\ pc' = "swap" => todo' = Entries(incoming.ver)
        /\ UNCHANGED <<bin, prev, sup, supNew, supOld, good, incoming, tar, ipc, why, err, hp>>
    BY <1>1 DEF VerifyAll, ApplyFailed
  <2>2. pc' = "swap" => Sup \in todo'
    BY <2>1 DEF Entries
  <2> QED
    BY <2>1, <2>2
<1>2. CASE BackupDest
  BY <1>2 DEF BackupDest, Bounded, NoFault, SwapFailed
<1>3. CASE PlaceDest
  <2>1. /\ pc = "place" /\ pc' = "swap" /\ todo' = todo \ {cur}
        /\ UNCHANGED <<sup, supNew, supOld, good, incoming, tar, ipc, why, err, hp>>
    BY <1>3 DEF PlaceDest, SwapFailed, Bounded
  <2>2. Sup \in todo' <=> Sup \in todo
    BY <2>1
  <2> QED
    BY <2>1, <2>2
<1>4. CASE StageSupervisor
  BY <1>4 DEF StageSupervisor, Bounded, NoFault, SwapFailed
<1>5. CASE StagePending
  BY <1>5 DEF StagePending
<1>6. CASE RecoverFile
  BY <1>6 DEF RecoverFile, Bounded, NoFault
<1>7. CASE pc = "undo" /\ todo = {} /\ Jump("undo", "cleanNew")
  BY <1>7 DEF Jump
<1>8. CASE todo = {} /\ Jump("swap", "metaVer")
  BY <1>8 DEF Jump
<1> QED
  BY <1>1, <1>2, <1>3, <1>4, <1>5, <1>6, <1>7, <1>8 DEF ApplyBundle, RecoverFailedApply

\* WriteUpgradeMeta and ClearPending keep the pair.
LEMMA MetaKeepsPair ==
  ASSUME PairFaults, TypeInv, TypeInv', AloneAtBoot, AloneAtBoot', PairFacts, PairFacts',
         PairRules, faults' = 0,
         ApplyNothing \/ ApplyInvalid \/ WriteUpgradeMeta \/ ClearPending
  PROVE  PairRules'
<1> USE FilesKept, GoodKept, HealthKept, NothingFails
    DEF PairFacts, PairRules, RestingPair, ConvergePair, ApplyPair, SwapPair, RollbackPair,
        RestorePair, Resting, Undone, PairFaults, AloneAtBoot, IsPending, TrialPcs,
        Applying, Swapping, SelfSwapPcs, BootPcs, ConvergePcs, ExtractPcs, TypeInv,
        BundleAtHand, Goto, binaries, staged, loop, watching, poller, history
<1>1. CASE ApplyNothing
  BY <1>1 DEF ApplyNothing, Jump, Looking, ApplyFailed, AfterRollback, Callers,
     IsPending
<1>2. CASE ApplyInvalid
  BY <1>2 DEF ApplyInvalid, Jump, Looking, ApplyFailed, AfterRollback, Callers,
     IsPending
<1>3. CASE WriteUpgradeMeta
  <2>1. /\ pc \in {"metaVer", "metaMarker"} /\ pc' \in {"metaMarker", "clear"}
        /\ UNCHANGED <<bin, prev, sup, supNew, supOld, good, incoming, tar, todo, why, err, hp>>
    BY <1>3 DEF WriteUpgradeMeta, Write
  <2>2. \/ \E v \in AllVersions \cup {None} : ipc' = [ipc EXCEPT !.lastVer = v]
        \/ ipc' = [ipc EXCEPT !.marker = None]
    BY <1>3, <2>1 DEF WriteUpgradeMeta, Write, AllVersions
  <2>3. /\ ipc'.applied = ipc.applied /\ ipc'.pendNewer = ipc.pendNewer
        /\ ipc'.rbDone = ipc.rbDone /\ ipc'.supPend = ipc.supPend
    BY <2>2 DEF TypeOK, IPC
  <2> QED
    BY <2>1, <2>3
<1>4. CASE ClearPending
  <2>1. /\ pc = "clear" /\ pc' \in {"boot3", "applied"} /\ incoming' = None
        /\ UNCHANGED <<bin, prev, sup, supNew, supOld, good, tar, ipc, todo, why, err, hp>>
    BY <1>4 DEF ClearPending, ApplyDone
  <2>2. ipc.supPend /\ OnTrial /\ bin[Worker] \in Versions /\ supNew = bin[Worker] /\ sup = good
    BY <2>1
  <2>3. ~IsPending' /\ tar = None
    BY <2>1
  <2> QED
    BY <2>1, <2>2, <2>3
<1> QED
  BY <1>1, <1>2, <1>3, <1>4

\* SupervisorSelfSwap keeps the pair.
LEMMA SelfSwapKeepsPair ==
  ASSUME PairFaults, TypeInv, TypeInv', AloneAtBoot, AloneAtBoot', PairFacts, PairFacts',
         PairRules, faults' = 0,
         SupervisorSelfSwap
  PROVE  PairRules'
<1> USE FilesKept, GoodKept, HealthKept, NothingFails
    DEF PairFacts, PairRules, RestingPair, ConvergePair, ApplyPair, SwapPair, RollbackPair,
        RestorePair, Resting, Undone, PairFaults, AloneAtBoot, IsPending, TrialPcs,
        Applying, Swapping, SelfSwapPcs, BootPcs, ConvergePcs, ExtractPcs, TypeInv,
        BundleAtHand, Goto, binaries, staged, loop, watching, poller, history
<1>1. CASE SmokeTest
  <2>1. /\ pc = "smoke" /\ ipc.supPend /\ supNew = bin[Worker] /\ bin[Worker] \in Versions
        /\ UNCHANGED <<bin, prev, sup, supOld, good, incoming, tar, ipc, why, err, hp>>
    BY <1>1 DEF SmokeTest
  <2>2. supNew \notin {None, Torn} \cup BadSupervisors
    BY <2>1, NoneAssumption DEF AllVersions
  <2>3. pc' = "aside" /\ supNew' = supNew
    BY <1>1, <2>2 DEF SmokeTest
  <2> QED
    BY <2>1, <2>3
<1>2. CASE SmokeTestFailed
  BY <1>2 DEF SmokeTestFailed, SelfSwapFailed, WatchAnew
<1>3. CASE RenameAside
  <2>1. /\ pc = "aside" /\ ipc.supPend /\ sup = good
        /\ UNCHANGED <<bin, prev, supNew, good, incoming, tar, ipc, why, err, hp>>
    BY <1>3 DEF RenameAside, Bounded
  <2>2. sup' = None /\ supOld' = good /\ pc' = "replace"
    BY <1>3, <2>1 DEF RenameAside
  <2> QED
    BY <2>1, <2>2
<1>4. CASE RenameIn
  BY <1>4 DEF RenameIn, Bounded, NoFault, CallRollback
<1>5. CASE RenameBack
  BY <1>5 DEF RenameBack, Bounded, NoFault, SelfSwapFailed, WatchAnew
<1>6. CASE ResetUpgradeIPC
  BY <1>6 DEF ResetUpgradeIPC, Write, SelfSwapFailed, WatchAnew
<1>7. CASE MarkSelfSwap
  <2>1. /\ pc \in {"markApplied", "markAwaiting"} /\ ipc.supPend
        /\ pc' = IF pc = "markApplied" THEN "markAwaiting" ELSE "dropPending"
        /\ UNCHANGED <<bin, prev, sup, supNew, supOld, good, incoming, tar, why, err, hp>>
    BY <1>7 DEF MarkSelfSwap, Write
  <2>2. /\ ipc'.lastVer = ipc.lastVer /\ ipc'.marker = ipc.marker
        /\ ipc'.supPend = ipc.supPend
        /\ pc = "markAwaiting" => ipc'.awaiting /\ ~ipc'.rbNewer
    <3>1. CASE pc = "markApplied"
      <4>1. ipc' = [ipc EXCEPT !.applied = TRUE, !.pendNewer = FALSE]
        BY <1>7, <3>1 DEF MarkSelfSwap, Write
      <4> QED BY <3>1, <4>1 DEF TypeOK, IPC
    <3>2. CASE pc = "markAwaiting"
      <4>1. ipc' = [ipc EXCEPT !.awaiting = TRUE, !.rbNewer = FALSE, !.aged = FALSE]
        BY <1>7, <3>2 DEF MarkSelfSwap, Write
      <4> QED BY <4>1 DEF TypeOK, IPC
    <3> QED BY <2>1, <3>1, <3>2
  <2> QED
    BY <2>1, <2>2
<1>8. CASE DropPending
  <2>1. /\ pc = "dropPending" /\ ipc.supPend /\ pc' = "off"
        /\ UNCHANGED <<bin, prev, sup, supNew, supOld, good, incoming, tar, why, err>>
    BY <1>8 DEF DropPending
  <2>2. /\ ipc'.lastVer = ipc.lastVer /\ ipc'.marker = ipc.marker /\ ~ipc'.supPend
        /\ ipc'.rbDone = ipc.rbDone /\ ipc'.rbNewer = ipc.rbNewer
        /\ ipc'.awaiting = ipc.awaiting
    BY <1>8 DEF DropPending, TypeOK, IPC
  <2>3. ipc.marker = None /\ HasLastUpgrade /\ ~IsUpgradeHealthy
    BY <2>1 DEF HasLastUpgrade, IsUpgradeHealthy
  <2>4. sup = bin[Worker] /\ sup # None /\ supOld = good
    BY <2>1, NoneAssumption DEF AllVersions
  <2> QED
    BY <2>1, <2>2, <2>3, <2>4
<1> QED
  BY <1>1, <1>2, <1>3, <1>4, <1>5, <1>6, <1>7, <1>8 DEF SupervisorSelfSwap

\* superviseWorker and runWorkerOnce keep the pair.
LEMMA SuperviseWorkerKeepsPair ==
  ASSUME PairFaults, TypeInv, TypeInv', AloneAtBoot, AloneAtBoot', PairFacts, PairFacts',
         PairRules, faults' = 0,
         SuperviseWorker
  PROVE  PairRules'
<1> USE FilesKept, GoodKept, HealthKept, NothingFails
    DEF PairFacts, PairRules, RestingPair, ConvergePair, ApplyPair, SwapPair, RollbackPair,
        RestorePair, Resting, Undone, PairFaults, AloneAtBoot, IsPending, TrialPcs,
        Applying, Swapping, SelfSwapPcs, BootPcs, ConvergePcs, ExtractPcs, TypeInv,
        BundleAtHand, Goto, binaries, staged, loop, watching, poller, history
<1>1. CASE StartWorker
  BY <1>1 DEF StartWorker
<1>2. CASE WorkerExit
  BY <1>2 DEF WorkerExit, WorkerGone
<1>3. CASE DeadlineKill
  BY <1>3 DEF DeadlineKill, WorkerGone, WorkerExit
<1>4. CASE EndOfWorker
  BY <1>4 DEF EndOfWorker, CallRollback, Disarm, ShouldRollbackAfterDeadline
<1>5. CASE RolledBack
  BY <1>5 DEF RolledBack, Disarm, ShouldRollbackAfterDeadline
<1>6. CASE Applied
  BY <1>6 DEF Applied, SelfSwapFailed, WatchAnew
<1> QED
  BY <1>1, <1>2, <1>3, <1>4, <1>5, <1>6 DEF SuperviseWorker

\* HealthPoll keeps the pair.
LEMMA HealthPollKeepsPair ==
  ASSUME PairFaults, TypeInv, TypeInv', AloneAtBoot, AloneAtBoot', PairFacts, PairFacts',
         PairRules, faults' = 0,
         HealthPoll
  PROVE  PairRules'
<1> USE FilesKept, GoodKept, HealthKept, NothingFails
    DEF PairFacts, PairRules, RestingPair, ConvergePair, ApplyPair, SwapPair, RollbackPair,
        RestorePair, Resting, Undone, PairFaults, AloneAtBoot, IsPending, TrialPcs,
        Applying, Swapping, SelfSwapPcs, BootPcs, ConvergePcs, ExtractPcs, TypeInv,
        BundleAtHand, Goto, binaries, staged, loop, watching, poller, history
<1>1. CASE PollHealthy
  BY <1>1 DEF PollHealthy
<1>2. CASE PollStop
  BY <1>2 DEF PollStop
<1>3. CASE CleanupPrevious
  <2>1. /\ hp = "clean" /\ IsUpgradeHealthy
        /\ UNCHANGED <<bin, sup, supNew, supOld, good, incoming, tar, ipc, pc, todo, why, err>>
    BY <1>3 DEF CleanupPrevious, Bounded
  <2>2. ~ipc.supPend \/ ipc.marker # None
    BY <2>1 DEF IsUpgradeHealthy
  <2> QED
    BY <2>1, <2>2, GoodKept
<1>4. CASE CleanupSupervisorOld
  BY <1>4 DEF CleanupSupervisorOld, Bounded, NoFault
<1>5. CASE PollConfirm
  BY <1>5 DEF PollConfirm
<1> QED
  BY <1>1, <1>2, <1>3, <1>4, <1>5 DEF HealthPoll

\* The worker's calls keep the pair.
LEMMA WorkerCallsKeepsPair ==
  ASSUME PairFaults, TypeInv, TypeInv', AloneAtBoot, AloneAtBoot', PairFacts, PairFacts',
         PairRules, faults' = 0,
         WorkerCalls
  PROVE  PairRules'
<1> USE FilesKept, GoodKept, HealthKept, NothingFails
    DEF PairFacts, PairRules, RestingPair, ConvergePair, ApplyPair, SwapPair, RollbackPair,
        RestorePair, Resting, Undone, PairFaults, AloneAtBoot, IsPending, TrialPcs,
        Applying, Swapping, SelfSwapPcs, BootPcs, ConvergePcs, ExtractPcs, TypeInv,
        BundleAtHand, Goto, binaries, staged, loop, watching, poller, history
<1>1. CASE WriteHealthMarker
  <2>1. /\ pc = "run" /\ pc' = "run" /\ ~ipc.supPend
        /\ UNCHANGED <<bin, prev, sup, supNew, supOld, incoming, tar, todo, why, err, hp>>
    BY <1>1 DEF WriteHealthMarker
  <2>2. /\ ipc'.lastVer = ipc.lastVer /\ ipc'.supPend = ipc.supPend
        /\ ipc'.rbDone = ipc.rbDone /\ ipc'.rbNewer = ipc.rbNewer
        /\ ipc'.awaiting = ipc.awaiting /\ ipc'.marker = bin[Worker]
    BY <1>1 DEF WriteHealthMarker, TypeOK, IPC
  <2>3. good' = IF ipc.lastVer = bin[Worker] THEN bin[Worker] ELSE good
    BY <1>1 DEF WriteHealthMarker
  <2>4. CASE AllGood
    <3>1. good' = good /\ AllGood'
      BY <2>1, <2>3, <2>4
    <3>2. IsUpgradeHealthy => IsUpgradeHealthy'
      BY <2>1, <2>2, <2>4 DEF IsUpgradeHealthy
    <3> QED
      BY <2>1, <2>2, <2>4, <3>1, <3>2
  <2>5. CASE ~AllGood
    <3>1. /\ ipc.awaiting /\ ~Undone' /\ supOld = good /\ sup = bin[Worker] /\ sup # None
          /\ ~IsPending /\ tar = None
      BY <2>1, <2>2, <2>5
    <3>2. CASE ipc.lastVer = bin[Worker]
      <4>1. good' = bin[Worker] /\ IsUpgradeHealthy' /\ AllGood'
        BY <2>1, <2>2, <2>3, <3>1, <3>2 DEF IsUpgradeHealthy
      <4> QED
        BY <2>1, <2>2, <3>1, <4>1
    <3>3. CASE ipc.lastVer # bin[Worker]
      <4>1. good' = good /\ ~IsUpgradeHealthy'
        BY <2>1, <2>2, <2>3, <3>3 DEF IsUpgradeHealthy
      <4> QED
        BY <2>1, <2>2, <3>1, <4>1
    <3> QED BY <3>2, <3>3
  <2> QED
    BY <2>4, <2>5
<1>2. CASE FetchPackage
  BY <1>2 DEF FetchPackage, Sends, Settled, IsPending
<1>3. CASE FetchPackageDone
  <2>1. /\ pc = "run" /\ pc' = "run" /\ fetching /\ IsPending /\ ~ipc.supPend
        /\ UNCHANGED <<bin, prev, sup, supNew, supOld, good, tar, ipc, todo, why, err, hp>>
    BY <1>3 DEF FetchPackageDone
  <2> QED
    BY <2>1
<1>4. CASE ApplyPackage
  BY <1>4 DEF ApplyPackage, WorkerGone, WorkerExit, IsPending
<1>5. CASE AgentUpgrade
  BY <1>5 DEF AgentUpgrade, WorkerGone, Sends, Settled, IsPending
<1> QED
  BY <1>1, <1>2, <1>3, <1>4, <1>5 DEF WorkerCalls

\* Passing time and a power loss keep the pair.
LEMMA TimedKeepsPair ==
  ASSUME PairFaults, TypeInv, TypeInv', AloneAtBoot, AloneAtBoot', PairFacts, PairFacts',
         PairRules, faults' = 0,
         DeadlinePasses \/ AwaitingAges \/ PowerLoss
  PROVE  PairRules'
<1> USE FilesKept, GoodKept, HealthKept, NothingFails
    DEF PairFacts, PairRules, RestingPair, ConvergePair, ApplyPair, SwapPair, RollbackPair,
        RestorePair, Resting, Undone, PairFaults, AloneAtBoot, IsPending, TrialPcs,
        Applying, Swapping, SelfSwapPcs, BootPcs, ConvergePcs, ExtractPcs, TypeInv,
        BundleAtHand, Goto, binaries, staged, loop, watching, poller, history
<1>1. CASE DeadlinePasses
  BY <1>1 DEF DeadlinePasses
<1>2. CASE AwaitingAges
  BY <1>2 DEF AwaitingAges
<1>3. CASE PowerLoss
  BY <1>3 DEF PowerLoss
<1> QED
  BY <1>1, <1>2, <1>3

\* Every step keeps them together.
LEMMA PairStep ==
  ASSUME PairFaults, TypeInv, TypeInv', AloneAtBoot, AloneAtBoot', PairFacts, PairFacts',
         PairRules, faults' = 0, [Next]_vars
  PROVE  PairRules'
<1>1. CASE Supervisor
  BY <1>1, BootKeepsPair, BootCheckHealthKeepsPair, RestoreKeepsPair,
     BootFinishSelfSwapKeepsPair, RollbackKeepsPair, ExtractKeepsPair,
     ConvergeKeepsPair, ApplyBundleKeepsPair, MetaKeepsPair, SelfSwapKeepsPair DEF
     Supervisor, Apply
<1>2. CASE SuperviseWorker
  BY <1>2, SuperviseWorkerKeepsPair
<1>3. CASE HealthPoll
  BY <1>3, HealthPollKeepsPair
<1>4. CASE WorkerCalls
  BY <1>4, WorkerCallsKeepsPair
<1>5. CASE DeadlinePasses \/ AwaitingAges \/ PowerLoss
  BY <1>5, TimedKeepsPair
<1>6. CASE UNCHANGED vars
  BY <1>6, FilesKept, HealthKept
     DEF PairRules, RestingPair, ConvergePair, ApplyPair, SwapPair, RollbackPair,
         RestorePair, Undone, IsPending, vars, binaries, staged, loop, watching, poller,
         history
<1> QED BY <1>1, <1>2, <1>3, <1>4, <1>5, <1>6 DEF Next

\* In every state.
PairInv == AwaitsInv /\ faults = 0 /\ PairRules

\* The pair is of one version in every state, as long as no operation fails.
LEMMA PairsHold == ASSUME PairFaults PROVE Spec => []PairInv
<1>1. Init => PairInv
  <2> SUFFICES ASSUME Init PROVE PairInv
    OBVIOUS
  <2>1. AllGood /\ ~IsPending
    BY DEF Init, AllGood, IsPending
  <2>2. PairRules
    BY <2>1
       DEF Init, PairRules, RestingPair, ConvergePair, ApplyPair, SwapPair, RollbackPair,
           RestorePair, Applying, Swapping, ConvergePcs
  <2> QED BY <2>2, InitAwaits DEF Init, PairInv
<1>2. PairInv /\ [Next]_vars => PairInv'
  <2> SUFFICES ASSUME PairInv, [Next]_vars PROVE PairInv'
    OBVIOUS
  <2>1. CrashPoints /\ Unversioned = {} /\ MaxFaults = 0
    BY DEF PairFaults, CrashPoints
  <2>2. AwaitsInv /\ AwaitsInv' /\ PairRules
    BY <2>1, AwaitsInvStep DEF PairInv
  <2>3. faults = 0 /\ faults' = 0
    BY <2>1, FaultsCount DEF PairInv, AwaitsInv, FaultlessInv
  <2>4. /\ InstallInv /\ AwaitsInstalled /\ TypeInv /\ AloneAtBoot
        /\ InstallInv' /\ AwaitsInstalled' /\ TypeInv' /\ AloneAtBoot'
    BY <2>2, <2>3 DEF AwaitsInv, FaultlessInv
  <2>5. PairFacts /\ PairFacts'
    BY <2>4, PairFactsHold, PairFactsNext
  <2> QED BY <2>2, <2>3, <2>4, <2>5, PairStep DEF PairInv
<1> QED BY <1>1, <1>2, PTL DEF Spec

\* Once a rollback is marked and nothing is left to restore, the worker that
\* runs and its supervisor are of one version again (RollbackAndMark, then
\* restoreSupervisorFromOld at the next start).
THEOREM BackTogether == ASSUME PairFaults PROVE Spec => []RolledBackTogether
<1>1. PairInv => RolledBackTogether
  BY PairFactsHold
     DEF PairInv, AwaitsInv, FaultlessInv, PairRules, RestingPair, SwapPair, Resting,
         TrialPcs, Applying, Swapping, PairFacts, RolledBackTogether
<1> QED BY <1>1, PairsHold, PTL

\* A self-swap overwrites supervisor.exe.old with the confirmed supervisor only,
\* also when an earlier one has never been marked as confirmed (RenameAside).
THEOREM OldSafe == ASSUME PairFaults PROVE Spec => OldNotOverwritten
<1>1. PairInv /\ [Next]_vars =>
        [pc = "aside" /\ pc' = "replace" /\ ipc.awaiting /\ supOld # None => sup = good]_vars
  BY DEF PairInv, PairRules, SwapPair, AwaitsInv, AwaitsInstalled, TrialPcs, Applying,
     Swapping
<1> QED BY <1>1, PairsHold, PTL DEF Spec, OldNotOverwritten

-----------------------------------------------------------------------------
(* A self-swap brings in the supervisor of the installed worker.           *)

\* At most one file operation fails; bundles of every kind are sent.
SwapFaults == CrashPoints /\ MaxFaults \in {0, 1}

\* Apply is done, and the supervisor it staged is not yet swapped in.
FreshPcs == {"boot3", "boot3applied", "boot4", "boot5", "applied", "smoke", "aside", "replace"}

\* While a supervisor awaits its confirmation, nothing else is staged: there is
\* something to restore until HealthPoll has ended, or it is being restored, and
\* then the manager sends nothing.
AwaitsAlone ==
  ipc.awaiting =>
    /\ incoming = None /\ tar = None /\ ~fetching
    /\ pc \notin Applying \cup ConvergePcs \cup ExtractPcs \cup {"verify", "applied"}
                  \cup (SelfSwapPcs \ {"dropPending"})
    /\ ipc.supPend => pc = "dropPending"
    /\ pc \in {"rollback", "mark"} => why \in {"forced", "deadline"}
    /\ pc = "rolledBack" => Undone
    /\ \/ Backups # {} \/ hp \in {"clean", "old", "await"}
       \/ pc \in {"rollback", "mark", "rolledBack", "restoreAside", "restoreBack",
                  "restoreAwaiting"}
       \/ pc \in {"off", "boot1"} /\ Undone

\* A staged supervisor is swapped in at once, over the backups of its bundle.
StagedAlone ==
  ipc.supPend /\ pc \notin Applying =>
    /\ pc \in FreshPcs \cup TrialPcs \cup {"boot3pending", "smokeFailed"}
    /\ Backups # {} /\ ~IsUpgradeHealthy /\ incoming = None /\ tar = None

\* supervisor.exe is missing between two renames only.
BothThere ==
  /\ sup = None => pc \in {"replace", "restoreBack"}
  /\ pc = "restoreBack" => supOld # None

\* What holds until the first operation fails.
QuietSwap == AwaitsAlone /\ StagedAlone /\ BothThere
QuietUntil == faults = 0 => QuietSwap

\* A supervisor about to be swapped in is that of the installed worker.
FreshMatches ==
  /\ ipc.supPend /\ pc \in FreshPcs => supNew = bin[Worker] /\ supNew \in Versions
  /\ pc \in TrialPcs => ipc.supPend

\* Apply starts with nothing staged, and stages what it installs.
StagingMatches ==
  /\ pc \in {"cleanRollbackDone", "verify"} => ~ipc.supPend
  /\ pc \in Applying =>
       /\ Sup \in todo => ~ipc.supPend
       /\ ipc.supPend \/ pc = "stage" => supNew = incoming.ver
       /\ Worker \notin todo => bin[Worker] = incoming.ver
  /\ pc \in {"metaVer", "metaMarker", "clear"} => todo = {}

\* Where a sentinel that a failed self-swap left behind may be found.
StalePcs ==
  {"start", "run", "exit", "end", "rolledBack", "rollback", "mark", "unswap", "resetVer",
   "resetRest"} \cup ExtractPcs

\* A sentinel left behind never meets a start of the service, which would swap
\* that supervisor in: nothing awaits a confirmation any more, so that the next
\* rollback does not end the process, and the next Apply removes it.  Without a
\* supervisor.exe there is no next start.
StaleKept ==
  /\ pc \in {"boot1", "boot2", "restoreAside", "restoreBack", "restoreAwaiting",
             "restoreApplied"}
       \/ (pc \in {"rollback", "mark"} /\ why \in {"boot", "forced"}) => ~ipc.supPend
  /\ ipc.supPend /\ pc = "off" => sup = None
  /\ ipc.supPend /\ pc \in StalePcs =>
       /\ faults > 0
       /\ ~ipc.awaiting \/ (sup = None /\ ~Bricked /\ pc \notin {"resetVer", "resetRest"})
       /\ pc \in ExtractPcs \/ (pc = "rollback" /\ why = "converge") => phase = "run"

\* What holds until the first restart.
SwapRules == FreshMatches /\ StagingMatches /\ StaleKept

\* The operation that fails is the only one.
LEMMA FaultOnce ==
  ASSUME SwapFaults, TypeInv, Fault
  PROVE  faults = 0 /\ faults' = 1
BY DEF SwapFaults, TypeInv, TypeOK, Fault

\* The start of the service, the brick guard and a pending self-swap keep
\* upgrades apart until an operation fails.
LEMMA BootQuiet ==
  ASSUME CrashPoints, InstallInv, InstallInv', AloneAtBoot, SwapRules, QuietSwap,
         faults' = 0, crashes' = 0,
         Boot \/ BootUnbrick \/ BootSelfSwap
  PROVE  QuietSwap'
<1> USE NoneAssumption, FilesKept, HealthKept, NothingFails
    DEF QuietSwap, AwaitsAlone, StagedAlone, BothThere, AloneAtBoot, Undone, FreshPcs,
        TrialPcs, InstallInv, StagingInv, StagingRules, InstallRules, ApplyFiles,
        PollerWaits, NoFailure, SelfSwapPcs, ConvergePcs, ExtractPcs, BootPcs, Applying,
        Swapping, TypeInv, TypeOK, BundleAtHand, IPC, Goto, binaries, staged, loop,
        watching, poller, history
<1>1. CASE Boot
  BY <1>1 DEF Boot
<1>2. CASE BootUnbrick
  BY <1>2 DEF BootUnbrick, Bounded, NoFault
<1>3. CASE BootSelfSwap
  BY <1>3 DEF BootSelfSwap, Jump
<1> QED BY <1>1, <1>2, <1>3

\* BootCheck's health check keeps upgrades apart until an operation fails.
LEMMA BootCheckHealthQuiet ==
  ASSUME CrashPoints, InstallInv, InstallInv', AloneAtBoot, SwapRules, QuietSwap,
         faults' = 0, crashes' = 0,
         BootCheckHealth
  PROVE  QuietSwap'
<1> USE NoneAssumption, FilesKept, HealthKept, NothingFails
    DEF QuietSwap, AwaitsAlone, StagedAlone, BothThere, AloneAtBoot, Undone, FreshPcs,
        TrialPcs, InstallInv, StagingInv, StagingRules, InstallRules, ApplyFiles,
        PollerWaits, NoFailure, SelfSwapPcs, ConvergePcs, ExtractPcs, BootPcs, Applying,
        Swapping, TypeInv, TypeOK, BundleAtHand, IPC, Goto, binaries, staged, loop,
        watching, poller, history
<1>1. CASE BootClearStaleRollbackDone
  BY <1>1 DEF BootClearStaleRollbackDone, Write
<1>2. CASE BootRestoreSupervisor
  BY <1>2 DEF BootRestoreSupervisor, Jump
<1>3. CASE BootClearAgedAwaiting
  BY <1>3 DEF BootClearAgedAwaiting, Write
<1>4. CASE BootForceDualRollback
  BY <1>4 DEF BootForceDualRollback, CallRollback
<1>5. CASE BootArmWatch
  BY <1>5 DEF BootArmWatch
<1>6. CASE BootRollback
  BY <1>6 DEF BootRollback, CallRollback
<1>7. CASE BootNothingToUndo
  BY <1>7 DEF BootNothingToUndo, Jump
<1> QED BY <1>1, <1>2, <1>3, <1>4, <1>5, <1>6, <1>7 DEF BootCheckHealth

\* restoreSupervisorFromOld keeps upgrades apart until an operation fails.
LEMMA RestoreQuiet ==
  ASSUME CrashPoints, InstallInv, InstallInv', AloneAtBoot, SwapRules, QuietSwap,
         faults' = 0, crashes' = 0,
         Restore
  PROVE  QuietSwap'
<1> USE NoneAssumption, FilesKept, HealthKept, NothingFails
    DEF QuietSwap, AwaitsAlone, StagedAlone, BothThere, AloneAtBoot, Undone, FreshPcs,
        TrialPcs, InstallInv, StagingInv, StagingRules, InstallRules, ApplyFiles,
        PollerWaits, NoFailure, SelfSwapPcs, ConvergePcs, ExtractPcs, BootPcs, Applying,
        Swapping, TypeInv, TypeOK, BundleAtHand, IPC, Goto, binaries, staged, loop,
        watching, poller, history
<1>1. CASE RestoreNothing
  BY <1>1 DEF RestoreNothing, Write
<1>2. CASE RestoreAside
  BY <1>2 DEF RestoreAside, Bounded, NoFault
<1>3. CASE RestoreBack
  BY <1>3 DEF RestoreBack, Bounded, NoFault
<1>4. CASE RestoreClear
  BY <1>4 DEF RestoreClear, Write
<1> QED BY <1>1, <1>2, <1>3, <1>4 DEF Restore

\* Step 3 of BootCheck keeps upgrades apart until an operation fails.
LEMMA BootFinishSelfSwapQuiet ==
  ASSUME CrashPoints, InstallInv, InstallInv', AloneAtBoot, SwapRules, QuietSwap,
         faults' = 0, crashes' = 0,
         BootFinishSelfSwap
  PROVE  QuietSwap'
<1> USE NoneAssumption, FilesKept, HealthKept, NothingFails
    DEF QuietSwap, AwaitsAlone, StagedAlone, BothThere, AloneAtBoot, Undone, FreshPcs,
        TrialPcs, InstallInv, StagingInv, StagingRules, InstallRules, ApplyFiles,
        PollerWaits, NoFailure, SelfSwapPcs, ConvergePcs, ExtractPcs, BootPcs, Applying,
        Swapping, TypeInv, TypeOK, BundleAtHand, IPC, Goto, binaries, staged, loop,
        watching, poller, history
<1>1. CASE BootDropOld
  BY <1>1 DEF BootDropOld
<1>2. CASE BootDropApplied
  BY <1>2 DEF BootDropApplied, Write
<1>3. CASE BootDropOrphan
  BY <1>3 DEF BootDropOrphan, Write
<1>4. CASE ~ipc.applied /\ Jump("boot3", "boot4")
  BY <1>4 DEF Jump
<1> QED BY <1>1, <1>2, <1>3, <1>4 DEF BootFinishSelfSwap

\* A rollback keeps upgrades apart until an operation fails.
LEMMA RollbackQuiet ==
  ASSUME CrashPoints, InstallInv, InstallInv', AloneAtBoot, SwapRules, QuietSwap,
         faults' = 0, crashes' = 0,
         Rollback
  PROVE  QuietSwap'
<1> USE NoneAssumption, FilesKept, HealthKept, NothingFails
    DEF QuietSwap, AwaitsAlone, StagedAlone, BothThere, AloneAtBoot, Undone, FreshPcs,
        TrialPcs, InstallInv, StagingInv, StagingRules, InstallRules, ApplyFiles,
        PollerWaits, NoFailure, SelfSwapPcs, ConvergePcs, ExtractPcs, BootPcs, Applying,
        Swapping, TypeInv, TypeOK, BundleAtHand, IPC, Goto, binaries, staged, loop,
        watching, poller, history
<1>1. CASE RollbackFile
  BY <1>1 DEF RollbackFile, Bounded, NoFault
<1>2. CASE RollbackFilesDone
  BY <1>2 DEF RollbackFilesDone, ApplyFailed, AfterRollback, SelfSwapFailed, WatchAnew,
     Callers
<1>3. CASE WriteRollbackDone
  BY <1>3 DEF WriteRollbackDone, Write, AfterRollback, Callers
<1> QED BY <1>1, <1>2, <1>3 DEF Rollback

\* ExtractPendingBundle keeps upgrades apart until an operation fails.
LEMMA ExtractQuiet ==
  ASSUME CrashPoints, InstallInv, InstallInv', AloneAtBoot, SwapRules, QuietSwap,
         faults' = 0, crashes' = 0,
         ExtractPendingBundle
  PROVE  QuietSwap'
<1> USE NoneAssumption, FilesKept, HealthKept, NothingFails
    DEF QuietSwap, AwaitsAlone, StagedAlone, BothThere, AloneAtBoot, Undone, FreshPcs,
        TrialPcs, InstallInv, StagingInv, StagingRules, InstallRules, ApplyFiles,
        PollerWaits, NoFailure, SelfSwapPcs, ConvergePcs, ExtractPcs, BootPcs, Applying,
        Swapping, TypeInv, TypeOK, BundleAtHand, IPC, Goto, binaries, staged, loop,
        watching, poller, history
<1>1. CASE ExtractBegin
  BY <1>1 DEF ExtractBegin, Looking, IsPending
<1>2. CASE ExtractSome
  BY <1>2 DEF ExtractSome, Bounded, ApplyFailed
<1>3. CASE ExtractAll
  BY <1>3 DEF ExtractAll
<1>4. CASE ExtractDropTar
  BY <1>4 DEF ExtractDropTar, CallRollback
<1> QED BY <1>1, <1>2, <1>3, <1>4 DEF ExtractPendingBundle

\* ConvergeResidualBackups keeps upgrades apart until an operation fails.
LEMMA ConvergeQuiet ==
  ASSUME CrashPoints, InstallInv, InstallInv', AloneAtBoot, SwapRules, QuietSwap,
         faults' = 0, crashes' = 0,
         ConvergeResidualBackups
  PROVE  QuietSwap'
<1> USE NoneAssumption, FilesKept, HealthKept, NothingFails
    DEF QuietSwap, AwaitsAlone, StagedAlone, BothThere, AloneAtBoot, Undone, FreshPcs,
        TrialPcs, InstallInv, StagingInv, StagingRules, InstallRules, ApplyFiles,
        PollerWaits, NoFailure, SelfSwapPcs, ConvergePcs, ExtractPcs, BootPcs, Applying,
        Swapping, TypeInv, TypeOK, BundleAtHand, IPC, Goto, binaries, staged, loop,
        watching, poller, history
<1>1. CASE ApplyConverge
  BY <1>1 DEF ApplyConverge, Looking, CallRollback, IsPending
<1>2. CASE CleanNew
  BY <1>2 DEF CleanNew
<1>3. CASE CleanPending
  BY <1>3 DEF CleanPending, Write, ApplyFailed
<1>4. CASE CleanRollbackDone
  BY <1>4 DEF CleanRollbackDone, Write
<1> QED BY <1>1, <1>2, <1>3, <1>4 DEF ConvergeResidualBackups

\* The swap of a bundle's binaries, and its undo, keep upgrades apart until an
\* operation fails.
LEMMA ApplyBundleQuiet ==
  ASSUME CrashPoints, InstallInv, InstallInv', AloneAtBoot, SwapRules, QuietSwap,
         faults' = 0, crashes' = 0,
         ApplyBundle
  PROVE  QuietSwap'
<1> USE NoneAssumption, FilesKept, HealthKept, NothingFails
    DEF QuietSwap, AwaitsAlone, StagedAlone, BothThere, AloneAtBoot, Undone, FreshPcs,
        TrialPcs, InstallInv, StagingInv, StagingRules, InstallRules, ApplyFiles,
        PollerWaits, NoFailure, SelfSwapPcs, ConvergePcs, ExtractPcs, BootPcs, Applying,
        Swapping, TypeInv, TypeOK, BundleAtHand, IPC, Goto, binaries, staged, loop,
        watching, poller, history
<1>1. CASE VerifyAll
  BY <1>1 DEF VerifyAll, ApplyFailed, Entries
<1>2. CASE BackupDest
  BY <1>2 DEF BackupDest, SwapFailed, Bounded
<1>3. CASE PlaceDest
  BY <1>3 DEF PlaceDest, SwapFailed, Bounded
<1>4. CASE StageSupervisor
  BY <1>4 DEF StageSupervisor, SwapFailed, Bounded, NoFault
<1>5. CASE StagePending
  BY <1>5 DEF StagePending
<1>6. CASE RecoverFailedApply
  BY <1>6 DEF RecoverFailedApply, RecoverFile, Bounded, NoFault, Jump
<1>7. CASE todo = {} /\ Jump("swap", "metaVer")
  BY <1>7 DEF Jump
<1> QED BY <1>1, <1>2, <1>3, <1>4, <1>5, <1>6, <1>7 DEF ApplyBundle

\* An Apply with nothing to apply, and the end of one, keep upgrades apart until
\* an operation fails.
LEMMA MetaQuiet ==
  ASSUME CrashPoints, InstallInv, InstallInv', AloneAtBoot, SwapRules, QuietSwap,
         faults' = 0, crashes' = 0,
         ApplyNothing \/ ApplyInvalid \/ WriteUpgradeMeta \/ ClearPending
  PROVE  QuietSwap'
<1> USE NoneAssumption, FilesKept, HealthKept, NothingFails
    DEF QuietSwap, AwaitsAlone, StagedAlone, BothThere, AloneAtBoot, Undone, FreshPcs,
        TrialPcs, InstallInv, StagingInv, StagingRules, InstallRules, ApplyFiles,
        PollerWaits, NoFailure, SelfSwapPcs, ConvergePcs, ExtractPcs, BootPcs, Applying,
        Swapping, TypeInv, TypeOK, BundleAtHand, IPC, Goto, binaries, staged, loop,
        watching, poller, history
<1>1. CASE ApplyNothing
  BY <1>1 DEF ApplyNothing, Jump, Looking, ApplyFailed, IsPending
<1>2. CASE ApplyInvalid
  BY <1>2 DEF ApplyInvalid, Jump, Looking, ApplyFailed, IsPending
<1>3. CASE WriteUpgradeMeta
  BY <1>3 DEF WriteUpgradeMeta, Write
<1>4. CASE ClearPending
  <2>1. Backups # {} /\ tar = None /\ ipc.marker = None
    BY <1>4, Shapes DEF ClearPending
  <2> QED
    BY <1>4, <2>1 DEF ClearPending, ApplyDone, IsUpgradeHealthy
<1> QED BY <1>1, <1>2, <1>3, <1>4

\* SupervisorSelfSwap keeps upgrades apart until an operation fails.
LEMMA SelfSwapQuiet ==
  ASSUME CrashPoints, InstallInv, InstallInv', AloneAtBoot, SwapRules, QuietSwap,
         faults' = 0, crashes' = 0,
         SupervisorSelfSwap
  PROVE  QuietSwap'
<1> USE NoneAssumption, FilesKept, HealthKept, NothingFails
    DEF QuietSwap, AwaitsAlone, StagedAlone, BothThere, AloneAtBoot, Undone, FreshPcs,
        TrialPcs, InstallInv, StagingInv, StagingRules, InstallRules, ApplyFiles,
        PollerWaits, NoFailure, SelfSwapPcs, ConvergePcs, ExtractPcs, BootPcs, Applying,
        Swapping, TypeInv, TypeOK, BundleAtHand, IPC, Goto, binaries, staged, loop,
        watching, poller, history
<1>1. CASE SmokeTest
  <2>1. supNew # None
    BY <1>1 DEF SmokeTest, SwapRules, FreshMatches, TrialPcs, AllVersions
  <2>2. /\ pc = "smoke" /\ pc' \in {"smokeFailed", "aside"}
        /\ UNCHANGED <<ipc, hp, bin, prev, sup, supOld, staged, good>>
    BY <1>1, <2>1 DEF SmokeTest
  <2> QED
    BY <2>2
<1>2. CASE SmokeTestFailed
  BY <1>2 DEF SmokeTestFailed, SelfSwapFailed, WatchAnew
<1>3. CASE RenameAside
  BY <1>3 DEF RenameAside, Bounded, NoFault, SelfSwapFailed, WatchAnew
<1>4. CASE RenameIn
  <2>1. supNew # None
    BY <1>4 DEF RenameIn, SwapRules, FreshMatches, TrialPcs, AllVersions
  <2> QED
    BY <1>4, <2>1 DEF RenameIn, Bounded, NoFault
<1>5. CASE RenameBack
  BY <1>5 DEF RenameBack, Bounded, NoFault, SelfSwapFailed, WatchAnew
<1>6. CASE ResetUpgradeIPC
  BY <1>6 DEF ResetUpgradeIPC, Write, SelfSwapFailed, WatchAnew
<1>7. CASE MarkSelfSwap
  <2>1. ipc.supPend
    BY <1>7, MarksWrite DEF SwapRules, FreshMatches, TrialPcs
  <2>2. CASE pc = "markApplied"
    BY <1>7, <2>1, <2>2, MarksWrite
  <2>3. CASE pc = "markAwaiting"
    BY <1>7, <2>1, <2>3, MarksWrite
  <2> QED
    BY <1>7, <2>2, <2>3, MarksWrite
<1>8. CASE DropPending
  <2>1. ipc.supPend
    BY <1>8 DEF DropPending, SwapRules, FreshMatches, TrialPcs
  <2> QED
    BY <1>8, <2>1 DEF DropPending
<1> QED BY <1>1, <1>2, <1>3, <1>4, <1>5, <1>6, <1>7, <1>8 DEF SupervisorSelfSwap

\* superviseWorker and runWorkerOnce keep upgrades apart until an operation
\* fails.
LEMMA SuperviseWorkerQuiet ==
  ASSUME CrashPoints, InstallInv, InstallInv', AloneAtBoot, SwapRules, QuietSwap,
         faults' = 0, crashes' = 0,
         SuperviseWorker
  PROVE  QuietSwap'
<1> USE NoneAssumption, FilesKept, HealthKept, NothingFails
    DEF QuietSwap, AwaitsAlone, StagedAlone, BothThere, AloneAtBoot, Undone, FreshPcs,
        TrialPcs, InstallInv, StagingInv, StagingRules, InstallRules, ApplyFiles,
        PollerWaits, NoFailure, SelfSwapPcs, ConvergePcs, ExtractPcs, BootPcs, Applying,
        Swapping, TypeInv, TypeOK, BundleAtHand, IPC, Goto, binaries, staged, loop,
        watching, poller, history
<1>1. CASE StartWorker
  BY <1>1 DEF StartWorker
<1>2. CASE WorkerExit
  BY <1>2 DEF WorkerExit, WorkerGone
<1>3. CASE DeadlineKill
  BY <1>3 DEF DeadlineKill, WorkerGone, WorkerExit
<1>4. CASE EndOfWorker
  BY <1>4 DEF EndOfWorker, CallRollback, ShouldRollbackAfterDeadline, Disarm
<1>5. CASE RolledBack
  BY <1>5 DEF RolledBack, Disarm
<1>6. CASE Applied
  BY <1>6 DEF Applied, WatchAnew
<1> QED BY <1>1, <1>2, <1>3, <1>4, <1>5, <1>6 DEF SuperviseWorker

\* HealthPoll keeps upgrades apart until an operation fails.
LEMMA HealthPollQuiet ==
  ASSUME CrashPoints, InstallInv, InstallInv', AloneAtBoot, SwapRules, QuietSwap,
         faults' = 0, crashes' = 0,
         HealthPoll
  PROVE  QuietSwap'
<1> USE NoneAssumption, FilesKept, HealthKept, NothingFails
    DEF QuietSwap, AwaitsAlone, StagedAlone, BothThere, AloneAtBoot, Undone, FreshPcs,
        TrialPcs, InstallInv, StagingInv, StagingRules, InstallRules, ApplyFiles,
        PollerWaits, NoFailure, SelfSwapPcs, ConvergePcs, ExtractPcs, BootPcs, Applying,
        Swapping, TypeInv, TypeOK, BundleAtHand, IPC, Goto, binaries, staged, loop,
        watching, poller, history
<1>1. CASE PollHealthy
  BY <1>1 DEF PollHealthy
<1>2. CASE PollStop
  BY <1>2 DEF PollStop
<1>3. CASE CleanupPrevious
  BY <1>3 DEF CleanupPrevious, Bounded, NoFault
<1>4. CASE CleanupSupervisorOld
  BY <1>4 DEF CleanupSupervisorOld, Bounded, NoFault
<1>5. CASE PollConfirm
  BY <1>5 DEF PollConfirm
<1> QED BY <1>1, <1>2, <1>3, <1>4, <1>5 DEF HealthPoll

\* The worker's handlers keep upgrades apart until an operation fails.
LEMMA WorkerCallsQuiet ==
  ASSUME CrashPoints, InstallInv, InstallInv', AloneAtBoot, SwapRules, QuietSwap,
         faults' = 0, crashes' = 0,
         WorkerCalls
  PROVE  QuietSwap'
<1> USE NoneAssumption, FilesKept, HealthKept, NothingFails
    DEF QuietSwap, AwaitsAlone, StagedAlone, BothThere, AloneAtBoot, Undone, FreshPcs,
        TrialPcs, InstallInv, StagingInv, StagingRules, InstallRules, ApplyFiles,
        PollerWaits, NoFailure, SelfSwapPcs, ConvergePcs, ExtractPcs, BootPcs, Applying,
        Swapping, TypeInv, TypeOK, BundleAtHand, IPC, Goto, binaries, staged, loop,
        watching, poller, history
<1>1. CASE WriteHealthMarker
  <2>1. /\ ipc'.awaiting = ipc.awaiting /\ ipc'.supPend = ipc.supPend
        /\ ipc'.rbDone = ipc.rbDone /\ ipc'.rbNewer = ipc.rbNewer
    BY <1>1 DEF WriteHealthMarker
  <2>2. pc = "run" /\ Backups' = Backups
        /\ UNCHANGED <<pc, hp, why, sup, supOld, staged>>
    BY <1>1 DEF WriteHealthMarker, Backups
  <2> QED
    BY <2>1, <2>2
<1>2. CASE FetchPackage
  BY <1>2 DEF FetchPackage, Sends, Settled, IsPending, CrashPoints
<1>3. CASE FetchPackageDone
  BY <1>3 DEF FetchPackageDone
<1>4. CASE ApplyPackage
  BY <1>4 DEF ApplyPackage, WorkerGone, WorkerExit, IsPending
<1>5. CASE AgentUpgrade
  BY <1>5 DEF AgentUpgrade, WorkerGone, Sends, Settled, IsPending, CrashPoints
<1> QED BY <1>1, <1>2, <1>3, <1>4, <1>5 DEF WorkerCalls

\* Time and power keep upgrades apart until an operation fails.
LEMMA TimedQuiet ==
  ASSUME CrashPoints, InstallInv, InstallInv', AloneAtBoot, SwapRules, QuietSwap,
         faults' = 0, crashes' = 0,
         DeadlinePasses \/ AwaitingAges \/ PowerLoss
  PROVE  QuietSwap'
<1> USE NoneAssumption, FilesKept, HealthKept, NothingFails
    DEF QuietSwap, AwaitsAlone, StagedAlone, BothThere, AloneAtBoot, Undone, FreshPcs,
        TrialPcs, InstallInv, StagingInv, StagingRules, InstallRules, ApplyFiles,
        PollerWaits, NoFailure, SelfSwapPcs, ConvergePcs, ExtractPcs, BootPcs, Applying,
        Swapping, TypeInv, TypeOK, BundleAtHand, IPC, Goto, binaries, staged, loop,
        watching, poller, history
<1>1. CASE DeadlinePasses
  BY <1>1 DEF DeadlinePasses
<1>2. CASE AwaitingAges
  BY <1>2 DEF AwaitingAges
<1>3. CASE PowerLoss
  BY <1>3 DEF PowerLoss
<1> QED BY <1>1, <1>2, <1>3

\* The start of the service, the brick guard and a pending self-swap keep a
\* staged supervisor with its worker.
LEMMA BootMatches ==
  ASSUME SwapFaults, TypeInv, TypeInv', AloneAtBoot, SwapRules, QuietUntil, crashes' = 0,
         Boot \/ BootUnbrick \/ BootSelfSwap
  PROVE  SwapRules'
<1> USE NoneAssumption, WorkerAssumption, FaultOnce
    DEF SwapRules, FreshMatches, StagingMatches, StaleKept, StalePcs, Bricked, QuietUntil,
        TrialPcs, AloneAtBoot, FreshPcs, SelfSwapPcs, ConvergePcs, ExtractPcs, BootPcs,
        Applying, Swapping, TypeInv, TypeOK, BundleAtHand, IPC, AllVersions, Bundle, Goto,
        binaries, staged, loop, watching, poller, history
<1>1. CASE Boot
  BY <1>1 DEF Boot
<1>2. CASE BootUnbrick
  BY <1>2 DEF BootUnbrick, Bounded, NoFault
<1>3. CASE BootSelfSwap
  BY <1>3 DEF BootSelfSwap, Jump
<1> QED BY <1>1, <1>2, <1>3

\* BootCheck's health check keeps a staged supervisor with its worker.
LEMMA BootCheckHealthMatches ==
  ASSUME SwapFaults, TypeInv, TypeInv', AloneAtBoot, SwapRules, QuietUntil, crashes' = 0,
         BootCheckHealth
  PROVE  SwapRules'
<1> USE NoneAssumption, WorkerAssumption, FaultOnce
    DEF SwapRules, FreshMatches, StagingMatches, StaleKept, StalePcs, Bricked, QuietUntil,
        TrialPcs, AloneAtBoot, FreshPcs, SelfSwapPcs, ConvergePcs, ExtractPcs, BootPcs,
        Applying, Swapping, TypeInv, TypeOK, BundleAtHand, IPC, AllVersions, Bundle, Goto,
        binaries, staged, loop, watching, poller, history
<1>1. CASE BootClearStaleRollbackDone
  BY <1>1 DEF BootClearStaleRollbackDone, Write
<1>2. CASE BootRestoreSupervisor
  BY <1>2 DEF BootRestoreSupervisor, Jump
<1>3. CASE BootClearAgedAwaiting
  BY <1>3 DEF BootClearAgedAwaiting, Write
<1>4. CASE BootForceDualRollback
  BY <1>4 DEF BootForceDualRollback, CallRollback
<1>5. CASE BootArmWatch
  BY <1>5 DEF BootArmWatch
<1>6. CASE BootRollback
  BY <1>6 DEF BootRollback, CallRollback
<1>7. CASE BootNothingToUndo
  BY <1>7 DEF BootNothingToUndo, Jump
<1> QED BY <1>1, <1>2, <1>3, <1>4, <1>5, <1>6, <1>7 DEF BootCheckHealth

\* restoreSupervisorFromOld keeps a staged supervisor with its worker.
LEMMA RestoreMatches ==
  ASSUME SwapFaults, TypeInv, TypeInv', AloneAtBoot, SwapRules, QuietUntil, crashes' = 0,
         Restore
  PROVE  SwapRules'
<1> USE NoneAssumption, WorkerAssumption, FaultOnce
    DEF SwapRules, FreshMatches, StagingMatches, StaleKept, StalePcs, Bricked, QuietUntil,
        TrialPcs, AloneAtBoot, FreshPcs, SelfSwapPcs, ConvergePcs, ExtractPcs, BootPcs,
        Applying, Swapping, TypeInv, TypeOK, BundleAtHand, IPC, AllVersions, Bundle, Goto,
        binaries, staged, loop, watching, poller, history
<1>1. CASE RestoreNothing
  BY <1>1 DEF RestoreNothing, Write
<1>2. CASE RestoreAside
  BY <1>2 DEF RestoreAside, Bounded, NoFault
<1>3. CASE RestoreBack
  BY <1>3 DEF RestoreBack, Bounded, NoFault
<1>4. CASE RestoreClear
  BY <1>4 DEF RestoreClear, Write
<1> QED BY <1>1, <1>2, <1>3, <1>4 DEF Restore

\* Step 3 of BootCheck keeps a staged supervisor with its worker.
LEMMA BootFinishSelfSwapMatches ==
  ASSUME SwapFaults, TypeInv, TypeInv', AloneAtBoot, SwapRules, QuietUntil, crashes' = 0,
         BootFinishSelfSwap
  PROVE  SwapRules'
<1> USE NoneAssumption, WorkerAssumption, FaultOnce
    DEF SwapRules, FreshMatches, StagingMatches, StaleKept, StalePcs, Bricked, QuietUntil,
        TrialPcs, AloneAtBoot, FreshPcs, SelfSwapPcs, ConvergePcs, ExtractPcs, BootPcs,
        Applying, Swapping, TypeInv, TypeOK, BundleAtHand, IPC, AllVersions, Bundle, Goto,
        binaries, staged, loop, watching, poller, history
<1>1. CASE BootDropOld
  BY <1>1 DEF BootDropOld
<1>2. CASE BootDropApplied
  BY <1>2 DEF BootDropApplied, Write
<1>3. CASE BootDropOrphan
  BY <1>3 DEF BootDropOrphan, Write
<1>4. CASE ~ipc.applied /\ Jump("boot3", "boot4")
  BY <1>4 DEF Jump
<1> QED BY <1>1, <1>2, <1>3, <1>4 DEF BootFinishSelfSwap

\* A rollback keeps a staged supervisor with its worker.
LEMMA RollbackMatches ==
  ASSUME SwapFaults, TypeInv, TypeInv', AloneAtBoot, SwapRules, QuietUntil, crashes' = 0,
         Rollback
  PROVE  SwapRules'
<1> USE NoneAssumption, WorkerAssumption, FaultOnce
    DEF SwapRules, FreshMatches, StagingMatches, StaleKept, StalePcs, Bricked, QuietUntil,
        TrialPcs, AloneAtBoot, FreshPcs, SelfSwapPcs, ConvergePcs, ExtractPcs, BootPcs,
        Applying, Swapping, TypeInv, TypeOK, BundleAtHand, IPC, AllVersions, Bundle, Goto,
        binaries, staged, loop, watching, poller, history
<1>1. CASE RollbackFile
  BY <1>1 DEF RollbackFile, Bounded, NoFault
<1>2. CASE RollbackFilesDone
  BY <1>2 DEF RollbackFilesDone, ApplyFailed, AfterRollback, SelfSwapFailed, WatchAnew,
     Callers
<1>3. CASE WriteRollbackDone
  BY <1>3 DEF WriteRollbackDone, Write, AfterRollback, Callers
<1> QED BY <1>1, <1>2, <1>3 DEF Rollback

\* ExtractPendingBundle keeps a staged supervisor with its worker.
LEMMA ExtractMatches ==
  ASSUME SwapFaults, TypeInv, TypeInv', AloneAtBoot, SwapRules, QuietUntil, crashes' = 0,
         ExtractPendingBundle
  PROVE  SwapRules'
<1> USE NoneAssumption, WorkerAssumption, FaultOnce
    DEF SwapRules, FreshMatches, StagingMatches, StaleKept, StalePcs, Bricked, QuietUntil,
        TrialPcs, AloneAtBoot, FreshPcs, SelfSwapPcs, ConvergePcs, ExtractPcs, BootPcs,
        Applying, Swapping, TypeInv, TypeOK, BundleAtHand, IPC, AllVersions, Bundle, Goto,
        binaries, staged, loop, watching, poller, history
<1>1. CASE ExtractBegin
  BY <1>1 DEF ExtractBegin, Looking, IsPending
<1>2. CASE ExtractSome
  <2>1. /\ pc = "extract" /\ pc' \in {"extracting", "boot2", "boot3", "end"}
        /\ pc' \in {"boot2", "boot3"} => phase = "boot"
        /\ UNCHANGED <<bin, sup, supNew, ipc, phase, why>>
    BY <1>2 DEF ExtractSome, Bounded, ApplyFailed
  <2>2. faults' >= faults
    BY <1>2 DEF ExtractSome, NoFault, Fault
  <2> QED
    BY <2>1, <2>2
<1>3. CASE ExtractAll
  BY <1>3 DEF ExtractAll
<1>4. CASE ExtractDropTar
  BY <1>4 DEF ExtractDropTar, CallRollback
<1> QED BY <1>1, <1>2, <1>3, <1>4 DEF ExtractPendingBundle

\* ConvergeResidualBackups keeps a staged supervisor with its worker.
LEMMA ConvergeMatches ==
  ASSUME SwapFaults, TypeInv, TypeInv', AloneAtBoot, SwapRules, QuietUntil, crashes' = 0,
         ConvergeResidualBackups
  PROVE  SwapRules'
<1> USE NoneAssumption, WorkerAssumption, FaultOnce
    DEF SwapRules, FreshMatches, StagingMatches, StaleKept, StalePcs, Bricked, QuietUntil,
        TrialPcs, AloneAtBoot, FreshPcs, SelfSwapPcs, ConvergePcs, ExtractPcs, BootPcs,
        Applying, Swapping, TypeInv, TypeOK, BundleAtHand, IPC, AllVersions, Bundle, Goto,
        binaries, staged, loop, watching, poller, history
<1>1. CASE ApplyConverge
  BY <1>1 DEF ApplyConverge, Looking, CallRollback, IsPending
<1>2. CASE CleanNew
  BY <1>2 DEF CleanNew
<1>3. CASE CleanPending
  BY <1>3 DEF CleanPending, Write, ApplyFailed
<1>4. CASE CleanRollbackDone
  BY <1>4 DEF CleanRollbackDone, Write
<1> QED BY <1>1, <1>2, <1>3, <1>4 DEF ConvergeResidualBackups

\* The swap of a bundle's binaries, and its undo, keep a staged supervisor with
\* its worker.
LEMMA ApplyBundleMatches ==
  ASSUME SwapFaults, TypeInv, TypeInv', AloneAtBoot, SwapRules, QuietUntil, crashes' = 0,
         ApplyBundle
  PROVE  SwapRules'
<1> USE NoneAssumption, WorkerAssumption, FaultOnce
    DEF SwapRules, FreshMatches, StagingMatches, StaleKept, StalePcs, Bricked, QuietUntil,
        TrialPcs, AloneAtBoot, FreshPcs, SelfSwapPcs, ConvergePcs, ExtractPcs, BootPcs,
        Applying, Swapping, TypeInv, TypeOK, BundleAtHand, IPC, AllVersions, Bundle, Goto,
        binaries, staged, loop, watching, poller, history
<1>1. CASE VerifyAll
  BY <1>1 DEF VerifyAll, ApplyFailed, Entries
<1>2. CASE BackupDest
  BY <1>2 DEF BackupDest, SwapFailed, Bounded
<1>3. CASE PlaceDest
  BY <1>3 DEF PlaceDest, SwapFailed, Bounded
<1>4. CASE StageSupervisor
  BY <1>4 DEF StageSupervisor, SwapFailed, Bounded, NoFault
<1>5. CASE StagePending
  BY <1>5 DEF StagePending
<1>6. CASE RecoverFailedApply
  BY <1>6 DEF RecoverFailedApply, RecoverFile, Bounded, NoFault, Jump
<1>7. CASE todo = {} /\ Jump("swap", "metaVer")
  BY <1>7 DEF Jump
<1> QED BY <1>1, <1>2, <1>3, <1>4, <1>5, <1>6, <1>7 DEF ApplyBundle

\* An Apply with nothing to apply, and the end of one, keep a staged supervisor
\* with its worker.
LEMMA MetaMatches ==
  ASSUME SwapFaults, TypeInv, TypeInv', AloneAtBoot, SwapRules, QuietUntil, crashes' = 0,
         ApplyNothing \/ ApplyInvalid \/ WriteUpgradeMeta \/ ClearPending
  PROVE  SwapRules'
<1> USE NoneAssumption, WorkerAssumption, FaultOnce
    DEF SwapRules, FreshMatches, StagingMatches, StaleKept, StalePcs, Bricked, QuietUntil,
        TrialPcs, AloneAtBoot, FreshPcs, SelfSwapPcs, ConvergePcs, ExtractPcs, BootPcs,
        Applying, Swapping, TypeInv, TypeOK, BundleAtHand, IPC, AllVersions, Bundle, Goto,
        binaries, staged, loop, watching, poller, history
<1>1. CASE ApplyNothing
  BY <1>1 DEF ApplyNothing, Jump, Looking, ApplyFailed, IsPending
<1>2. CASE ApplyInvalid
  BY <1>2 DEF ApplyInvalid, Jump, Looking, ApplyFailed, IsPending
<1>3. CASE WriteUpgradeMeta
  BY <1>3 DEF WriteUpgradeMeta, Write
<1>4. CASE ClearPending
  BY <1>4 DEF ClearPending, ApplyDone
<1> QED BY <1>1, <1>2, <1>3, <1>4

\* SupervisorSelfSwap keeps a staged supervisor with its worker.
LEMMA SelfSwapMatches ==
  ASSUME SwapFaults, TypeInv, TypeInv', AloneAtBoot, SwapRules, QuietUntil, crashes' = 0,
         SupervisorSelfSwap
  PROVE  SwapRules'
<1> USE NoneAssumption, WorkerAssumption, FaultOnce
    DEF SwapRules, FreshMatches, StagingMatches, StaleKept, StalePcs, Bricked, QuietUntil,
        TrialPcs, AloneAtBoot, FreshPcs, SelfSwapPcs, ConvergePcs, ExtractPcs, BootPcs,
        Applying, Swapping, TypeInv, TypeOK, BundleAtHand, IPC, AllVersions, Bundle, Goto,
        binaries, staged, loop, watching, poller, history
<1>1. CASE SmokeTest
  BY <1>1 DEF SmokeTest, SelfSwapFailed, WatchAnew
<1>2. CASE SmokeTestFailed
  BY <1>2 DEF SmokeTestFailed, SelfSwapFailed, WatchAnew
<1>3. CASE RenameAside
  <2>1. CASE NoFault
    BY <1>3, <2>1 DEF RenameAside, Bounded, NoFault, SelfSwapFailed, WatchAnew, QuietSwap,
             BothThere
  <2>2. CASE Fault
    <3>1. faults = 0 /\ faults' = 1 /\ ~ipc.awaiting
      BY <1>3, <2>2 DEF RenameAside, QuietSwap, AwaitsAlone
    <3> QED
      BY <1>3, <2>2, <3>1 DEF RenameAside, Bounded, NoFault, SelfSwapFailed, WatchAnew, QuietSwap,
             BothThere
  <2> QED
    BY <1>3, <2>1, <2>2 DEF RenameAside
<1>4. CASE RenameIn
  <2>1. CASE NoFault
    BY <1>4, <2>1 DEF RenameIn, Bounded, NoFault, CallRollback
  <2>2. CASE Fault
    <3>1. faults = 0 /\ faults' = 1 /\ ~ipc.awaiting
      BY <1>4, <2>2 DEF RenameIn, QuietSwap, AwaitsAlone
    <3> QED
      BY <1>4, <2>2, <3>1 DEF RenameIn, Bounded, NoFault, CallRollback
  <2> QED
    BY <1>4, <2>1, <2>2 DEF RenameIn
<1>5. CASE RenameBack
  <2>1. /\ pc = "unswap" /\ pc' \in {"resetVer", "start"}
        /\ UNCHANGED <<bin, supNew, ipc>>
    BY <1>5 DEF RenameBack, Bounded, SelfSwapFailed
  <2>2. faults' >= faults /\ (pc' = "start" => faults = 0)
    BY <1>5 DEF RenameBack, NoFault
  <2> QED
    BY <2>1, <2>2
<1>6. CASE ResetUpgradeIPC
  BY <1>6, ResetWrites
<1>7. CASE MarkSelfSwap
  BY <1>7, MarksWrite
<1>8. CASE DropPending
  BY <1>8 DEF DropPending
<1> QED BY <1>1, <1>2, <1>3, <1>4, <1>5, <1>6, <1>7, <1>8 DEF SupervisorSelfSwap

\* superviseWorker and runWorkerOnce keep a staged supervisor with its worker.
LEMMA SuperviseWorkerMatches ==
  ASSUME SwapFaults, TypeInv, TypeInv', AloneAtBoot, SwapRules, QuietUntil, crashes' = 0,
         SuperviseWorker
  PROVE  SwapRules'
<1> USE NoneAssumption, WorkerAssumption, FaultOnce
    DEF SwapRules, FreshMatches, StagingMatches, StaleKept, StalePcs, Bricked, QuietUntil,
        TrialPcs, AloneAtBoot, FreshPcs, SelfSwapPcs, ConvergePcs, ExtractPcs, BootPcs,
        Applying, Swapping, TypeInv, TypeOK, BundleAtHand, IPC, AllVersions, Bundle, Goto,
        binaries, staged, loop, watching, poller, history
<1>1. CASE StartWorker
  BY <1>1 DEF StartWorker
<1>2. CASE WorkerExit
  BY <1>2 DEF WorkerExit, WorkerGone
<1>3. CASE DeadlineKill
  BY <1>3 DEF DeadlineKill, WorkerGone, WorkerExit
<1>4. CASE EndOfWorker
  BY <1>4 DEF EndOfWorker, CallRollback, ShouldRollbackAfterDeadline, Disarm
<1>5. CASE RolledBack
  BY <1>5 DEF RolledBack, Disarm
<1>6. CASE Applied
  BY <1>6 DEF Applied, WatchAnew
<1> QED BY <1>1, <1>2, <1>3, <1>4, <1>5, <1>6 DEF SuperviseWorker

\* HealthPoll keeps a staged supervisor with its worker.
LEMMA HealthPollMatches ==
  ASSUME SwapFaults, TypeInv, TypeInv', AloneAtBoot, SwapRules, QuietUntil, crashes' = 0,
         HealthPoll
  PROVE  SwapRules'
<1> USE NoneAssumption, WorkerAssumption, FaultOnce
    DEF SwapRules, FreshMatches, StagingMatches, StaleKept, StalePcs, Bricked, QuietUntil,
        TrialPcs, AloneAtBoot, FreshPcs, SelfSwapPcs, ConvergePcs, ExtractPcs, BootPcs,
        Applying, Swapping, TypeInv, TypeOK, BundleAtHand, IPC, AllVersions, Bundle, Goto,
        binaries, staged, loop, watching, poller, history
<1>1. CASE PollHealthy
  BY <1>1 DEF PollHealthy
<1>2. CASE PollStop
  BY <1>2 DEF PollStop
<1>3. CASE CleanupPrevious
  BY <1>3 DEF CleanupPrevious, Bounded, NoFault
<1>4. CASE CleanupSupervisorOld
  BY <1>4 DEF CleanupSupervisorOld, Bounded, NoFault
<1>5. CASE PollConfirm
  BY <1>5 DEF PollConfirm
<1> QED BY <1>1, <1>2, <1>3, <1>4, <1>5 DEF HealthPoll

\* The worker's handlers keep a staged supervisor with its worker.
LEMMA WorkerCallsMatches ==
  ASSUME SwapFaults, TypeInv, TypeInv', AloneAtBoot, SwapRules, QuietUntil, crashes' = 0,
         WorkerCalls
  PROVE  SwapRules'
<1> USE NoneAssumption, WorkerAssumption, FaultOnce
    DEF SwapRules, FreshMatches, StagingMatches, StaleKept, StalePcs, Bricked, QuietUntil,
        TrialPcs, AloneAtBoot, FreshPcs, SelfSwapPcs, ConvergePcs, ExtractPcs, BootPcs,
        Applying, Swapping, TypeInv, TypeOK, BundleAtHand, IPC, AllVersions, Bundle, Goto,
        binaries, staged, loop, watching, poller, history
<1>1. CASE WriteHealthMarker
  BY <1>1 DEF WriteHealthMarker
<1>2. CASE FetchPackage
  BY <1>2 DEF FetchPackage, Sends, Settled, IsPending, CrashPoints
<1>3. CASE FetchPackageDone
  BY <1>3 DEF FetchPackageDone
<1>4. CASE ApplyPackage
  BY <1>4 DEF ApplyPackage, WorkerGone, WorkerExit, IsPending
<1>5. CASE AgentUpgrade
  BY <1>5 DEF AgentUpgrade, WorkerGone, Sends, Settled, IsPending, CrashPoints
<1> QED BY <1>1, <1>2, <1>3, <1>4, <1>5 DEF WorkerCalls

\* Time and power keep a staged supervisor with its worker.
LEMMA TimedMatches ==
  ASSUME SwapFaults, TypeInv, TypeInv', AloneAtBoot, SwapRules, QuietUntil, crashes' = 0,
         DeadlinePasses \/ AwaitingAges \/ PowerLoss
  PROVE  SwapRules'
<1> USE NoneAssumption, WorkerAssumption, FaultOnce
    DEF SwapRules, FreshMatches, StagingMatches, StaleKept, StalePcs, Bricked, QuietUntil,
        TrialPcs, AloneAtBoot, FreshPcs, SelfSwapPcs, ConvergePcs, ExtractPcs, BootPcs,
        Applying, Swapping, TypeInv, TypeOK, BundleAtHand, IPC, AllVersions, Bundle, Goto,
        binaries, staged, loop, watching, poller, history
<1>1. CASE DeadlinePasses
  BY <1>1 DEF DeadlinePasses
<1>2. CASE AwaitingAges
  BY <1>2 DEF AwaitingAges
<1>3. CASE PowerLoss
  BY <1>3 DEF PowerLoss
<1> QED BY <1>1, <1>2, <1>3

\* Restarts are counted, and never forgotten.
LEMMA CrashesCount ==
  ASSUME TypeInv, [Next]_vars, crashes' = 0
  PROVE  crashes = 0
<1> USE DEF TypeInv, TypeOK, history, Bounded
<1>1. CASE Supervisor
  <2> USE DEF Write, Jump, SwapFailed
  <2>1. CASE Boot \/ BootCheckHealth \/ Restore \/ BootFinishSelfSwap \/ BootUnbrick
               \/ BootSelfSwap
    BY <2>1
       DEF Boot, BootCheckHealth, BootClearStaleRollbackDone, BootRestoreSupervisor,
           BootClearAgedAwaiting, BootForceDualRollback, BootArmWatch, BootRollback,
           BootNothingToUndo, Restore, RestoreNothing, RestoreAside, RestoreBack,
           RestoreClear, BootFinishSelfSwap, BootDropOld, BootDropApplied,
           BootDropOrphan, BootUnbrick, BootSelfSwap
  <2>2. CASE Rollback
    BY <2>2 DEF Rollback, RollbackFile, RollbackFilesDone, WriteRollbackDone
  <2>3. CASE Apply
    BY <2>3
       DEF Apply, ApplyNothing, ExtractPendingBundle, ExtractBegin, ExtractSome,
           ExtractAll, ExtractDropTar, ApplyInvalid, ConvergeResidualBackups,
           ApplyConverge, CleanNew, CleanPending, CleanRollbackDone, ApplyBundle,
           VerifyAll, BackupDest, PlaceDest, StageSupervisor, StagePending,
           RecoverFailedApply, RecoverFile, WriteUpgradeMeta, ClearPending
  <2>4. CASE SupervisorSelfSwap
    BY <2>4
       DEF SupervisorSelfSwap, SmokeTest, SmokeTestFailed, RenameAside, RenameIn,
           RenameBack, ResetUpgradeIPC, MarkSelfSwap, DropPending
  <2> QED BY <1>1, <2>1, <2>2, <2>3, <2>4 DEF Supervisor
<1>2. CASE SuperviseWorker
  BY <1>2
     DEF SuperviseWorker, StartWorker, WorkerExit, DeadlineKill, EndOfWorker, RolledBack,
         Applied
<1>3. CASE HealthPoll
  BY <1>3
     DEF HealthPoll, PollHealthy, PollStop, CleanupPrevious, CleanupSupervisorOld,
         PollConfirm
<1>4. CASE WorkerCalls
  BY <1>4
     DEF WorkerCalls, WriteHealthMarker, FetchPackage, FetchPackageDone, ApplyPackage,
         AgentUpgrade, Sends, WorkerExit
<1>5. CASE DeadlinePasses \/ AwaitingAges \/ PowerLoss
  BY <1>5 DEF DeadlinePasses, AwaitingAges, PowerLoss
<1>6. CASE UNCHANGED vars
  BY <1>6 DEF vars
<1> QED BY <1>1, <1>2, <1>3, <1>4, <1>5, <1>6 DEF Next

\* Every step in which nothing fails keeps upgrades apart.
LEMMA QuietStep ==
  ASSUME CrashPoints, InstallInv, InstallInv', AloneAtBoot, SwapRules, QuietSwap,
         faults' = 0, crashes' = 0,
         [Next]_vars
  PROVE  QuietSwap'
<1>1. CASE Supervisor
  BY <1>1, BootQuiet, BootCheckHealthQuiet, RestoreQuiet, BootFinishSelfSwapQuiet,
     RollbackQuiet, ExtractQuiet, ConvergeQuiet, ApplyBundleQuiet, MetaQuiet, SelfSwapQuiet
     DEF Supervisor, Apply
<1>2. CASE SuperviseWorker
  BY <1>2, SuperviseWorkerQuiet
<1>3. CASE HealthPoll
  BY <1>3, HealthPollQuiet
<1>4. CASE WorkerCalls
  BY <1>4, WorkerCallsQuiet
<1>5. CASE DeadlinePasses \/ AwaitingAges \/ PowerLoss
  BY <1>5, TimedQuiet
<1>6. CASE UNCHANGED vars
  BY <1>6, FilesKept, HealthKept
     DEF QuietSwap, AwaitsAlone, StagedAlone, BothThere, Undone, vars, binaries, staged,
         loop, poller, history
<1> QED BY <1>1, <1>2, <1>3, <1>4, <1>5, <1>6 DEF Next

\* Every step before a restart keeps a staged supervisor with its worker.
LEMMA MatchesStep ==
  ASSUME SwapFaults, TypeInv, TypeInv', AloneAtBoot, SwapRules, QuietUntil, crashes' = 0,
         [Next]_vars
  PROVE  SwapRules'
<1>1. CASE Supervisor
  BY <1>1, BootMatches, BootCheckHealthMatches, RestoreMatches, BootFinishSelfSwapMatches,
     RollbackMatches, ExtractMatches, ConvergeMatches, ApplyBundleMatches, MetaMatches,
     SelfSwapMatches DEF Supervisor, Apply
<1>2. CASE SuperviseWorker
  BY <1>2, SuperviseWorkerMatches
<1>3. CASE HealthPoll
  BY <1>3, HealthPollMatches
<1>4. CASE WorkerCalls
  BY <1>4, WorkerCallsMatches
<1>5. CASE DeadlinePasses \/ AwaitingAges \/ PowerLoss
  BY <1>5, TimedMatches
<1>6. CASE UNCHANGED vars
  BY <1>6
     DEF SwapRules, FreshMatches, StagingMatches, StaleKept, Bricked, vars, binaries,
         staged, loop, history
<1> QED BY <1>1, <1>2, <1>3, <1>4, <1>5, <1>6 DEF Next

\* In every state.
SwapInv ==
  /\ FaultlessInv /\ AloneAtBoot
  /\ crashes = 0 => SwapRules /\ QuietUntil

LEMMA SwapsHold == ASSUME SwapFaults PROVE Spec => []SwapInv
<1>1. Init => SwapInv
  <2> SUFFICES ASSUME Init PROVE SwapInv
    OBVIOUS
  <2>1. FaultlessInv /\ AloneAtBoot
    BY InitAwaits DEF AwaitsInv
  <2>2. SwapRules
    BY DEF Init, SwapRules, FreshMatches, StagingMatches, StaleKept, TrialPcs, FreshPcs,
       Applying, Swapping
  <2>3. QuietUntil
    BY NoneAssumption
       DEF Init, QuietUntil, QuietSwap, AwaitsAlone, StagedAlone, BothThere, AllVersions
  <2> QED BY <2>1, <2>2, <2>3 DEF SwapInv
<1>2. SwapInv /\ [Next]_vars => SwapInv'
  <2> SUFFICES ASSUME SwapInv, [Next]_vars PROVE SwapInv'
    OBVIOUS
  <2>1. TypeInv /\ TypeInv' /\ AloneAtBoot'
    BY TypeStep, AloneStep DEF SwapInv, FaultlessInv
  <2>2. faults' = 0 => faults = 0 /\ InstallInv /\ InstallInv'
    BY <2>1, FaultsCount, InstallStep DEF SwapInv, FaultlessInv, SwapFaults, TypeInv, TypeOK
  <2>3. CASE crashes' = 0
    <3>1. SwapRules /\ QuietUntil
      BY <2>1, <2>3, CrashesCount DEF SwapInv
    <3>2. SwapRules'
      BY <2>1, <2>3, <3>1, MatchesStep DEF SwapInv
    <3>3. QuietUntil'
      BY <2>2, <2>3, <3>1, QuietStep DEF SwapInv, SwapFaults, QuietUntil
    <3> QED BY <2>1, <2>2, <3>2, <3>3 DEF SwapInv, FaultlessInv
  <2> QED BY <2>1, <2>2, <2>3 DEF SwapInv, FaultlessInv
<1> QED BY <1>1, <1>2, PTL DEF Spec

\* A self-swap brings in the supervisor that came with the installed worker, also
\* when an operation has failed on the way, until the service is restarted
\* (SupervisorSelfSwap, cleanupSupervisorStaging).
THEOREM SwapMatches == ASSUME SwapFaults PROVE Spec => SwapMatchesWorker
<1>1. SwapInv /\ [Next]_vars =>
        [pc = "replace" /\ pc' = "markApplied" /\ crashes = 0 => supNew = bin[Worker]]_vars
  BY DEF SwapInv, SwapRules, FreshMatches, FreshPcs, TrialPcs
<1> QED BY <1>1, SwapsHold, PTL DEF Spec, SwapMatchesWorker

=============================================================================
