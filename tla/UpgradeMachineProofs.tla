------------------------ MODULE UpgradeMachineProofs ------------------------
(***************************************************************************)
(* Theorems about UpgradeMachine, for every set of binaries and versions,  *)
(* wherever power is lost and whatever file operation fails.               *)
(***************************************************************************)
EXTENDS UpgradeMachine, TLAPS

\* What the types of the next step rest on: where a bundle or a tarball is
\* read, it is there, and a worker that runs was started from a whole binary.
BundleAtHand ==
  /\ pc \in {"verify", "swap", "place", "stage", "metaVer", "metaMarker", "clear",
             "cleanRollbackDone", "extracted"} => incoming \in Bundle
  /\ pc \in {"cleanNew", "cleanPending"} /\ ~err => incoming \in Bundle
  /\ pc = "rollback" /\ why = "converge" => incoming \in Bundle
  /\ pc = "mark" => why # "converge"
  /\ pc = "undo" => err
  /\ fetching => pc = "run" /\ incoming \in Bundle
  /\ pc \in {"extract", "extracting"} => tar \in Versions
  /\ pc = "run" => bin[Worker] \notin {None, Torn}

TypeInv == TypeOK /\ BundleAtHand

\* Why a marked rollback is a whole one: the walk has still to visit every
\* backup unless it failed, and backups are made only once the mark is gone.
RollbackWalk ==
  /\ pc \in {"verify", "swap", "place", "stage"} => ~ipc.rbDone
  /\ pc = "rollback" /\ ~err => Backups \subseteq todo
  /\ pc = "mark" => Backups = {}

RollbackInv == TypeInv /\ RollbackWalk /\ RollbackDoneMeansRestored

-----------------------------------------------------------------------------
(* Types. *)

\* The types survive BootCheck's first steps: the service starts, the brick
\* guard, a pending self-swap.
LEMMA BootType ==
  ASSUME TypeInv, Boot \/ BootUnbrick \/ BootSelfSwap
  PROVE TypeInv'
<1> USE DEF Goto, binaries, staged, loop, watching, poller, history
<1>1. CASE Boot
  <2>1. TypeOK'
    BY <1>1, WorkerAssumption DEF TypeInv, TypeOK, Boot, Callers, Pcs, BootPcs
  <2>2. BundleAtHand'
    BY <1>1 DEF TypeInv, BundleAtHand, Boot, Callers
  <2> QED BY <2>1, <2>2 DEF TypeInv
<1>2. CASE BootUnbrick
  <2>1. TypeOK'
    BY <1>2 DEF TypeInv, TypeOK, BootUnbrick, Fault, NoFault, Bounded, File, Pcs,
       BootPcs
  <2>2. BundleAtHand'
    BY <1>2 DEF TypeInv, BundleAtHand, BootUnbrick, Fault, NoFault, Bounded, File
  <2> QED BY <2>1, <2>2 DEF TypeInv
<1>3. CASE BootSelfSwap
  <2>1. TypeOK'
    BY <1>3 DEF TypeInv, TypeOK, BootSelfSwap, Jump, Pcs, BootPcs, RunPcs,
       SelfSwapPcs
  <2>2. BundleAtHand'
    BY <1>3 DEF TypeInv, BundleAtHand, BootSelfSwap, Jump
  <2> QED BY <2>1, <2>2 DEF TypeInv
<1> QED
  BY <1>1, <1>2, <1>3

\* The types survive BootCheck's health check: stale marks, the awaiting
\* sentinel, the watch, the rollback.
LEMMA BootCheckHealthType ==
  ASSUME TypeInv, BootCheckHealth
  PROVE TypeInv'
<1> USE DEF Goto, binaries, staged, loop, watching, poller, history
<1>1. CASE BootClearStaleRollbackDone
  <2>1. ipc' \in IPC
    BY <1>1 DEF TypeInv, TypeOK, BootClearStaleRollbackDone, Write, IPC
  <2>2. TypeOK'
    BY <1>1, <2>1 DEF TypeInv, TypeOK, BootClearStaleRollbackDone, Write, Pcs,
       BootPcs
  <2>3. BundleAtHand'
    BY <1>1 DEF TypeInv, BundleAtHand, BootClearStaleRollbackDone, Write
  <2> QED BY <2>2, <2>3 DEF TypeInv
<1>2. CASE BootRestoreSupervisor
  <2>1. TypeOK'
    BY <1>2 DEF TypeInv, TypeOK, BootRestoreSupervisor, Jump, Pcs, BootPcs
  <2>2. BundleAtHand'
    BY <1>2 DEF TypeInv, BundleAtHand, BootRestoreSupervisor, Jump
  <2> QED BY <2>1, <2>2 DEF TypeInv
<1>3. CASE BootClearAgedAwaiting
  <2>1. ipc' \in IPC
    BY <1>3 DEF TypeInv, TypeOK, BootClearAgedAwaiting, Write, IPC
  <2>2. TypeOK'
    BY <1>3, <2>1 DEF TypeInv, TypeOK, BootClearAgedAwaiting, Write, Pcs, BootPcs
  <2>3. BundleAtHand'
    BY <1>3 DEF TypeInv, BundleAtHand, BootClearAgedAwaiting, Write
  <2> QED BY <2>2, <2>3 DEF TypeInv
<1>4. CASE BootForceDualRollback
  <2>1. TypeOK'
    BY ZenonT(30), <1>4 DEF TypeInv, TypeOK, BootForceDualRollback, CallRollback, Backups,
       Callers, Pcs, RollbackPcs
  <2>2. BundleAtHand'
    BY <1>4 DEF TypeInv, BundleAtHand, BootForceDualRollback, CallRollback,
       Backups, Callers
  <2> QED BY <2>1, <2>2 DEF TypeInv
<1>5. CASE BootArmWatch
  <2>1. TypeOK'
    BY <1>5 DEF TypeInv, TypeOK, BootArmWatch, Pcs, BootPcs
  <2>2. BundleAtHand'
    BY <1>5 DEF TypeInv, BundleAtHand, BootArmWatch
  <2> QED BY <2>1, <2>2 DEF TypeInv
<1>6. CASE BootRollback
  <2>1. TypeOK'
    BY ZenonT(30), <1>6 DEF TypeInv, TypeOK, BootRollback, CallRollback, Backups, Callers,
       Pcs, RollbackPcs
  <2>2. BundleAtHand'
    BY <1>6 DEF TypeInv, BundleAtHand, BootRollback, CallRollback, Backups, Callers
  <2> QED BY <2>1, <2>2 DEF TypeInv
<1>7. CASE BootNothingToUndo
  <2>1. TypeOK'
    BY <1>7 DEF TypeInv, TypeOK, BootNothingToUndo, Jump, Pcs, BootPcs
  <2>2. BundleAtHand'
    BY <1>7 DEF TypeInv, BundleAtHand, BootNothingToUndo, Jump
  <2> QED BY <2>1, <2>2 DEF TypeInv
<1> QED
  BY <1>1, <1>2, <1>3, <1>4, <1>5, <1>6, <1>7 DEF BootCheckHealth

\* The types survive restoreSupervisorFromOld: the kept supervisor comes
\* back.
LEMMA RestoreType ==
  ASSUME TypeInv, Restore
  PROVE TypeInv'
<1> USE DEF Goto, binaries, staged, loop, watching, poller, history
<1>1. CASE RestoreNothing
  <2>1. ipc' \in IPC
    BY <1>1 DEF TypeInv, TypeOK, RestoreNothing, Write, IPC
  <2>2. TypeOK'
    BY <1>1, <2>1 DEF TypeInv, TypeOK, RestoreNothing, Write, Pcs, BootPcs
  <2>3. BundleAtHand'
    BY <1>1 DEF TypeInv, BundleAtHand, RestoreNothing, Write
  <2> QED BY <2>2, <2>3 DEF TypeInv
<1>2. CASE RestoreAside
  <2>1. TypeOK'
    BY <1>2 DEF TypeInv, TypeOK, RestoreAside, Fault, NoFault, Bounded, File, Pcs,
       BootPcs
  <2>2. BundleAtHand'
    BY <1>2 DEF TypeInv, BundleAtHand, RestoreAside, Fault, NoFault, Bounded, File
  <2> QED BY <2>1, <2>2 DEF TypeInv
<1>3. CASE RestoreBack
  <2>1. TypeOK'
    BY <1>3 DEF TypeInv, TypeOK, RestoreBack, Fault, NoFault, Bounded, File, Pcs,
       BootPcs
  <2>2. BundleAtHand'
    BY <1>3 DEF TypeInv, BundleAtHand, RestoreBack, Fault, NoFault, Bounded, File
  <2> QED BY <2>1, <2>2 DEF TypeInv
<1>4. CASE RestoreClear
  <2>1. ipc' \in IPC
    BY <1>4 DEF TypeInv, TypeOK, RestoreClear, Write, IPC
  <2>2. TypeOK'
    BY <1>4, <2>1 DEF TypeInv, TypeOK, RestoreClear, Write, Pcs, BootPcs
  <2>3. BundleAtHand'
    BY <1>4 DEF TypeInv, BundleAtHand, RestoreClear, Write
  <2> QED BY <2>2, <2>3 DEF TypeInv
<1> QED
  BY <1>1, <1>2, <1>3, <1>4 DEF Restore

\* The types survive BootCheck's end: the kept supervisor and the
\* sentinels of a finished self-swap dropped.
LEMMA BootFinishSelfSwapType ==
  ASSUME TypeInv, BootFinishSelfSwap
  PROVE TypeInv'
<1> USE DEF Goto, binaries, staged, loop, watching, poller, history
<1>1. CASE BootDropOld
  <2>1. TypeOK'
    BY <1>1 DEF TypeInv, TypeOK, BootDropOld, File, Pcs, BootPcs
  <2>2. BundleAtHand'
    BY <1>1 DEF TypeInv, BundleAtHand, BootDropOld, File
  <2> QED BY <2>1, <2>2 DEF TypeInv
<1>2. CASE BootDropApplied
  <2>1. ipc' \in IPC
    BY <1>2 DEF TypeInv, TypeOK, BootDropApplied, Write, IPC
  <2>2. TypeOK'
    BY <1>2, <2>1 DEF TypeInv, TypeOK, BootDropApplied, Write, Pcs, BootPcs
  <2>3. BundleAtHand'
    BY <1>2 DEF TypeInv, BundleAtHand, BootDropApplied, Write
  <2> QED BY <2>2, <2>3 DEF TypeInv
<1>3. CASE BootDropOrphan
  <2>1. ipc' \in IPC
    BY <1>3 DEF TypeInv, TypeOK, BootDropOrphan, Write, IPC
  <2>2. TypeOK'
    BY <1>3, <2>1 DEF TypeInv, TypeOK, BootDropOrphan, Write, Pcs, BootPcs
  <2>3. BundleAtHand'
    BY <1>3 DEF TypeInv, BundleAtHand, BootDropOrphan, Write
  <2> QED BY <2>2, <2>3 DEF TypeInv
<1>4. CASE ~ipc.applied /\ Jump("boot3", "boot4")
  <2>1. TypeOK'
    BY <1>4 DEF TypeInv, TypeOK, Jump, Pcs, BootPcs
  <2>2. BundleAtHand'
    BY <1>4 DEF TypeInv, BundleAtHand, Jump
  <2> QED BY <2>1, <2>2 DEF TypeInv
<1> QED
  BY <1>1, <1>2, <1>3, <1>4 DEF BootFinishSelfSwap

\* The types survive Rollback: its walk over the backups, its outcome and
\* its mark.
LEMMA RollbackType ==
  ASSUME TypeInv, Rollback
  PROVE TypeInv'
<1> USE DEF Goto, binaries, staged, loop, watching, poller, history
<1>1. CASE RollbackFile
  <2>1. bin' \in [Dests -> File] /\ prev' \in [Dests -> File]
    BY <1>1 DEF TypeInv, TypeOK, RollbackFile, Fault, NoFault, Bounded, File
  <2>2. todo' \subseteq Dests \cup {Sup}
    BY <1>1, <2>1 DEF TypeInv, TypeOK, RollbackFile, Fault, NoFault, Bounded
  <2>3. err' \in BOOLEAN
    BY <1>1, <2>1, <2>2 DEF TypeInv, TypeOK, RollbackFile, Fault, NoFault, Bounded
  <2>4. faults' \in Nat
    BY <1>1, <2>1, <2>2, <2>3 DEF TypeInv, TypeOK, RollbackFile, Fault, NoFault,
       Bounded
  <2>5. TypeOK'
    BY <1>1, <2>1, <2>2, <2>3, <2>4 DEF TypeInv, TypeOK, RollbackFile, Bounded,
       NoFault
  <2>6. BundleAtHand'
    BY <1>1 DEF TypeInv, BundleAtHand, RollbackFile, Fault, NoFault, Bounded
  <2> QED BY <2>5, <2>6 DEF TypeInv
<1>2. CASE RollbackFilesDone
  <2>1. pc' \in Pcs
    BY <1>2 DEF TypeInv, TypeOK, RollbackFilesDone, AfterRollback, Callers,
       ApplyFailed, SelfSwapFailed, WatchAnew, Pcs, BootPcs, RunPcs, RollbackPcs,
       ConvergePcs, SelfSwapPcs
  <2>2. watch' \in BOOLEAN /\ deadline' \in {"none", "armed", "passed"}
    BY <1>2, <2>1 DEF TypeInv, TypeOK, RollbackFilesDone, AfterRollback, Callers,
       ApplyFailed, SelfSwapFailed, WatchAnew
  <2>3. TypeOK'
    BY <1>2, <2>1, <2>2 DEF TypeInv, TypeOK, RollbackFilesDone
  <2>4. BundleAtHand'
    BY <1>2 DEF TypeInv, BundleAtHand, RollbackFilesDone, AfterRollback, Callers,
       ApplyFailed, SelfSwapFailed, WatchAnew, TypeOK
  <2> QED BY <2>3, <2>4 DEF TypeInv
<1>3. CASE WriteRollbackDone
  <2>1. ipc' \in IPC
    BY <1>3 DEF TypeInv, TypeOK, WriteRollbackDone, Write, AfterRollback, Callers,
       IPC
  <2>2. TypeOK'
    BY <1>3, <2>1 DEF TypeInv, TypeOK, WriteRollbackDone, Write, AfterRollback,
       Callers, Pcs, BootPcs, RunPcs, SelfSwapPcs, ConvergePcs
  <2>3. BundleAtHand'
    BY <1>3 DEF TypeInv, BundleAtHand, WriteRollbackDone, Write, AfterRollback,
       Callers, TypeOK
  <2> QED BY <2>2, <2>3 DEF TypeInv
<1> QED
  BY <1>1, <1>2, <1>3 DEF Rollback

\* The types survive ExtractPendingBundle: the tarball unpacked into incoming.
LEMMA ExtractType ==
  ASSUME TypeInv, ExtractPendingBundle
  PROVE TypeInv'
<1> USE DEF Goto, binaries, staged, loop, watching, poller, history
<1>1. CASE ExtractBegin
  <2>1. TypeOK'
    BY <1>1 DEF TypeInv, TypeOK, ExtractBegin, Looking, Pcs, ExtractPcs
  <2>2. BundleAtHand'
    BY <1>1 DEF TypeInv, BundleAtHand, ExtractBegin, Looking, TypeOK
  <2> QED BY <2>1, <2>2 DEF TypeInv
<1>2. CASE ExtractSome
  <2>1. pc' \in Pcs
    BY <1>2 DEF TypeInv, TypeOK, ExtractSome, Fault, NoFault, Bounded,
       ApplyFailed, Bundle, Pcs, BootPcs, RunPcs, ExtractPcs
  <2>2. incoming' \in Bundle \cup {None}
    BY <1>2, <2>1 DEF TypeInv, TypeOK, ExtractSome, Fault, NoFault, Bounded,
       ApplyFailed, Bundle, BundleAtHand
  <2>3. faults' \in Nat
    BY <1>2, <2>1, <2>2 DEF TypeInv, TypeOK, ExtractSome, Fault, NoFault, Bounded,
       ApplyFailed, Bundle
  <2>4. TypeOK'
    BY <1>2, <2>1, <2>2, <2>3 DEF TypeInv, TypeOK, ExtractSome, Bounded, NoFault
  <2>5. BundleAtHand'
    BY <1>2 DEF TypeInv, BundleAtHand, ExtractSome, Fault, NoFault, Bounded,
       ApplyFailed, Bundle, TypeOK
  <2> QED BY <2>4, <2>5 DEF TypeInv
<1>3. CASE ExtractAll
  <2>1. pc' \in Pcs
    BY <1>3 DEF TypeInv, TypeOK, ExtractAll, Bundle, Pcs, ExtractPcs
  <2>2. incoming' \in Bundle \cup {None}
    BY <1>3, <2>1 DEF TypeInv, TypeOK, ExtractAll, Bundle, BundleAtHand
  <2>3. TypeOK'
    BY <1>3, <2>1, <2>2 DEF TypeInv, TypeOK, ExtractAll
  <2>4. BundleAtHand'
    BY <1>3 DEF TypeInv, BundleAtHand, ExtractAll, Bundle, TypeOK
  <2> QED BY <2>3, <2>4 DEF TypeInv
<1>4. CASE ExtractDropTar
  <2>1. TypeOK'
    BY <1>4 DEF TypeInv, TypeOK, ExtractDropTar, CallRollback, Backups, Callers,
       Pcs, RollbackPcs
  <2>2. BundleAtHand'
    BY <1>4 DEF TypeInv, BundleAtHand, ExtractDropTar, CallRollback, Backups,
       Callers
  <2> QED BY <2>1, <2>2 DEF TypeInv
<1> QED
  BY <1>1, <1>2, <1>3, <1>4 DEF ExtractPendingBundle

\* The types survive ConvergeResidualBackups: what a crashed round left
\* is rolled back and cleaned up.
LEMMA ConvergeType ==
  ASSUME TypeInv, ConvergeResidualBackups
  PROVE TypeInv'
<1> USE DEF Goto, binaries, staged, loop, watching, poller, history
<1>1. CASE ApplyConverge
  <2>1. TypeOK'
    BY <1>1 DEF TypeInv, TypeOK, ApplyConverge, Looking, CallRollback, Backups,
       Callers, IsPending, Pcs, RollbackPcs
  <2>2. BundleAtHand'
    BY <1>1 DEF TypeInv, BundleAtHand, ApplyConverge, Looking, CallRollback,
       Backups, Callers, IsPending, TypeOK
  <2> QED BY <2>1, <2>2 DEF TypeInv
<1>2. CASE CleanNew
  <2>1. TypeOK'
    BY <1>2 DEF TypeInv, TypeOK, CleanNew, File, Pcs, ConvergePcs
  <2>2. BundleAtHand'
    BY <1>2 DEF TypeInv, BundleAtHand, CleanNew, File
  <2> QED BY <2>1, <2>2 DEF TypeInv
<1>3. CASE CleanPending
  <2>1. ipc' \in IPC
    BY <1>3 DEF TypeInv, TypeOK, CleanPending, Write, ApplyFailed, IPC
  <2>2. TypeOK'
    BY <1>3, <2>1 DEF TypeInv, TypeOK, CleanPending, Write, ApplyFailed, Pcs,
       BootPcs, RunPcs, ConvergePcs
  <2>3. BundleAtHand'
    BY <1>3 DEF TypeInv, BundleAtHand, CleanPending, Write, ApplyFailed
  <2> QED BY <2>2, <2>3 DEF TypeInv
<1>4. CASE CleanRollbackDone
  <2>1. ipc' \in IPC
    BY <1>4 DEF TypeInv, TypeOK, CleanRollbackDone, Write, IPC
  <2>2. TypeOK'
    BY <1>4, <2>1 DEF TypeInv, TypeOK, CleanRollbackDone, Write, Pcs, InstallPcs
  <2>3. BundleAtHand'
    BY <1>4 DEF TypeInv, BundleAtHand, CleanRollbackDone, Write
  <2> QED BY <2>2, <2>3 DEF TypeInv
<1> QED
  BY <1>1, <1>2, <1>3, <1>4 DEF ConvergeResidualBackups

\* The types survive Apply: verification, backups, the new files placed,
\* recovery of a failed apply.
LEMMA ApplyBundleType ==
  ASSUME TypeInv, ApplyBundle
  PROVE TypeInv'
<1> USE DEF Goto, binaries, staged, loop, watching, poller, history
<1>1. CASE VerifyAll
  <2>1. TypeOK'
    BY <1>1 DEF TypeInv, TypeOK, VerifyAll, Entries, ApplyFailed, Pcs, BootPcs,
       RunPcs, InstallPcs
  <2>2. BundleAtHand'
    BY <1>1 DEF TypeInv, BundleAtHand, VerifyAll, Entries, ApplyFailed
  <2> QED BY <2>1, <2>2 DEF TypeInv
<1>2. CASE BackupDest
  <2>1. prev' \in [Dests -> File]
    BY <1>2 DEF TypeInv, TypeOK, BackupDest, SwapFailed, Backups, Fault, NoFault,
       Bounded, File
  <2>2. pc' \in Pcs
    BY <1>2 DEF TypeInv, TypeOK, BackupDest, SwapFailed, Backups, Fault, NoFault,
       Bounded, Pcs, InstallPcs
  <2>3. todo' \subseteq Dests \cup {Sup}
    BY <1>2, <2>1, <2>2 DEF TypeInv, TypeOK, BackupDest, SwapFailed, Backups,
       Fault, NoFault, Bounded
  <2>4. err' \in BOOLEAN
    BY <1>2, <2>1, <2>2, <2>3 DEF TypeInv, TypeOK, BackupDest, SwapFailed,
       Backups, Fault, NoFault, Bounded
  <2>5. faults' \in Nat
    BY <1>2, <2>1, <2>2, <2>3, <2>4 DEF TypeInv, TypeOK, BackupDest, SwapFailed,
       Backups, Fault, NoFault, Bounded
  <2>6. TypeOK'
    BY <1>2, <2>1, <2>2, <2>3, <2>4, <2>5 DEF TypeInv, TypeOK, BackupDest,
       Bounded, NoFault
  <2>7. BundleAtHand'
    BY <1>2 DEF TypeInv, BundleAtHand, BackupDest, SwapFailed, Backups, Fault,
       NoFault, Bounded
  <2> QED BY <2>6, <2>7 DEF TypeInv
<1>3. CASE PlaceDest
  <2>1. incoming.ver \in File
    BY <1>3 DEF TypeInv, BundleAtHand, Bundle, File, AllVersions, PlaceDest
  <2>2. bin' \in [Dests -> File]
    BY <1>3, <2>1 DEF TypeInv, TypeOK, PlaceDest, SwapFailed, Backups, Fault,
       NoFault, Bounded
  <2>3. pc' \in Pcs
    BY <1>3 DEF TypeInv, TypeOK, PlaceDest, SwapFailed, Backups, Fault, NoFault,
       Bounded, Pcs, InstallPcs
  <2>4. todo' \subseteq Dests \cup {Sup}
    BY <1>3, <2>1, <2>2, <2>3 DEF TypeInv, TypeOK, PlaceDest, SwapFailed, Backups,
       Fault, NoFault, Bounded
  <2>5. err' \in BOOLEAN
    BY <1>3, <2>1, <2>2, <2>3, <2>4 DEF TypeInv, TypeOK, PlaceDest, SwapFailed,
       Backups, Fault, NoFault, Bounded
  <2>6. faults' \in Nat
    BY <1>3, <2>1, <2>2, <2>3, <2>4, <2>5 DEF TypeInv, TypeOK, PlaceDest,
       SwapFailed, Backups, Fault, NoFault, Bounded
  <2>7. TypeOK'
    BY <1>3, <2>1, <2>2, <2>3, <2>4, <2>5, <2>6 DEF TypeInv, TypeOK, PlaceDest,
       Bounded, NoFault
  <2>8. BundleAtHand'
    BY <1>3 DEF TypeInv, BundleAtHand, PlaceDest, SwapFailed, Backups, Fault,
       NoFault, Bounded
  <2> QED BY <2>7, <2>8 DEF TypeInv
<1>4. CASE StageSupervisor
  <2>1. incoming.ver \in File
    BY <1>4 DEF TypeInv, BundleAtHand, Bundle, File, AllVersions, StageSupervisor
  <2>2. pc' \in Pcs
    BY <1>4 DEF TypeInv, TypeOK, StageSupervisor, SwapFailed, Backups, Fault,
       NoFault, Bounded, Pcs, InstallPcs
  <2>3. todo' \subseteq Dests \cup {Sup}
    BY <1>4, <2>1, <2>2 DEF TypeInv, TypeOK, StageSupervisor, SwapFailed, Backups,
       Fault, NoFault, Bounded
  <2>4. err' \in BOOLEAN
    BY <1>4, <2>1, <2>2, <2>3 DEF TypeInv, TypeOK, StageSupervisor, SwapFailed,
       Backups, Fault, NoFault, Bounded
  <2>5. faults' \in Nat
    BY <1>4, <2>1, <2>2, <2>3, <2>4 DEF TypeInv, TypeOK, StageSupervisor,
       SwapFailed, Backups, Fault, NoFault, Bounded
  <2>6. supNew' \in File
    BY <1>4, <2>1, <2>2, <2>3, <2>4, <2>5 DEF TypeInv, TypeOK, StageSupervisor,
       SwapFailed, Backups, Fault, NoFault, Bounded
  <2>7. TypeOK'
    BY <1>4, <2>1, <2>2, <2>3, <2>4, <2>5, <2>6 DEF TypeInv, TypeOK,
       StageSupervisor, Bounded, NoFault
  <2>8. BundleAtHand'
    BY <1>4 DEF TypeInv, BundleAtHand, StageSupervisor, SwapFailed, Backups,
       Fault, NoFault, Bounded
  <2> QED BY <2>7, <2>8 DEF TypeInv
<1>5. CASE StagePending
  <2>1. ipc' \in IPC
    BY <1>5 DEF TypeInv, TypeOK, StagePending, IPC
  <2>2. TypeOK'
    BY <1>5, <2>1 DEF TypeInv, TypeOK, StagePending, Pcs, InstallPcs
  <2>3. BundleAtHand'
    BY <1>5 DEF TypeInv, BundleAtHand, StagePending
  <2> QED BY <2>2, <2>3 DEF TypeInv
<1>6. CASE RecoverFile
  <2>1. bin' \in [Dests -> File] /\ prev' \in [Dests -> File]
    BY <1>6 DEF TypeInv, TypeOK, RecoverFile, Fault, NoFault, Bounded, File
  <2>2. TypeOK'
    BY <1>6, <2>1 DEF TypeInv, TypeOK, RecoverFile, Fault, NoFault, Bounded, Pcs
  <2>3. BundleAtHand'
    BY <1>6 DEF TypeInv, BundleAtHand, RecoverFile, Fault, NoFault, Bounded
  <2> QED BY <2>2, <2>3 DEF TypeInv
<1>7. CASE pc = "undo" /\ todo = {} /\ Jump("undo", "cleanNew")
  <2>1. TypeOK'
    BY <1>7 DEF TypeInv, TypeOK, Jump, Pcs, ConvergePcs
  <2>2. BundleAtHand'
    BY <1>7 DEF TypeInv, BundleAtHand, Jump
  <2> QED BY <2>1, <2>2 DEF TypeInv
<1>8. CASE todo = {} /\ Jump("swap", "metaVer")
  <2>1. TypeOK'
    BY <1>8 DEF TypeInv, TypeOK, Jump, Pcs, InstallPcs
  <2>2. BundleAtHand'
    BY <1>8 DEF TypeInv, BundleAtHand, Jump
  <2> QED BY <2>1, <2>2 DEF TypeInv
<1> QED
  BY <1>1, <1>2, <1>3, <1>4, <1>5, <1>6, <1>7, <1>8 DEF ApplyBundle,
     RecoverFailedApply

\* The types survive WriteUpgradeMeta and the clearing of what Apply used.
LEMMA MetaType ==
  ASSUME TypeInv, ApplyNothing \/ ApplyInvalid \/ WriteUpgradeMeta \/ ClearPending
  PROVE TypeInv'
<1> USE DEF Goto, binaries, staged, loop, watching, poller, history
<1>1. CASE ApplyNothing
  <2>1. TypeOK'
    BY <1>1 DEF TypeInv, TypeOK, ApplyNothing, Jump, Looking, ApplyFailed, Pcs,
       BootPcs, RunPcs
  <2>2. BundleAtHand'
    BY <1>1 DEF TypeInv, BundleAtHand, ApplyNothing, Jump, Looking, ApplyFailed
  <2> QED BY <2>1, <2>2 DEF TypeInv
<1>2. CASE ApplyInvalid
  <2>1. TypeOK'
    BY <1>2 DEF TypeInv, TypeOK, ApplyInvalid, Jump, Looking, ApplyFailed, Pcs,
       BootPcs, RunPcs
  <2>2. BundleAtHand'
    BY <1>2 DEF TypeInv, BundleAtHand, ApplyInvalid, Jump, Looking, ApplyFailed
  <2> QED BY <2>1, <2>2 DEF TypeInv
<1>3. CASE WriteUpgradeMeta
  <2>1. incoming.ver \in Versions
    BY <1>3 DEF TypeInv, BundleAtHand, Bundle, WriteUpgradeMeta, Write
  <2>2. ipc' \in IPC
    BY <1>3, <2>1 DEF TypeInv, TypeOK, WriteUpgradeMeta, Write, IPC, AllVersions
  <2>3. TypeOK'
    BY <1>3, <2>1, <2>2 DEF TypeInv, TypeOK, WriteUpgradeMeta, Write, Pcs,
       InstallPcs
  <2>4. BundleAtHand'
    BY <1>3 DEF TypeInv, BundleAtHand, WriteUpgradeMeta, Write
  <2> QED BY <2>3, <2>4 DEF TypeInv
<1>4. CASE ClearPending
  <2>1. TypeOK'
    BY <1>4 DEF TypeInv, TypeOK, ClearPending, ApplyDone, Pcs, BootPcs, RunPcs
  <2>2. BundleAtHand'
    BY <1>4 DEF TypeInv, BundleAtHand, ClearPending, ApplyDone
  <2> QED BY <2>1, <2>2 DEF TypeInv
<1> QED
  BY <1>1, <1>2, <1>3, <1>4

\* The types survive SupervisorSelfSwap: the smoke test, the renames, the
\* sentinels of a swap.
LEMMA SelfSwapType ==
  ASSUME TypeInv, SupervisorSelfSwap
  PROVE TypeInv'
<1> USE DEF Goto, binaries, staged, loop, watching, poller, history
<1>1. CASE SmokeTest
  <2>1. pc' \in Pcs
    BY <1>1 DEF TypeInv, TypeOK, SmokeTest, SelfSwapFailed, WatchAnew, File, Pcs,
       RunPcs, SelfSwapPcs
  <2>2. watch' \in BOOLEAN /\ deadline' \in {"none", "armed", "passed"}
    BY <1>1, <2>1 DEF TypeInv, TypeOK, SmokeTest, SelfSwapFailed, WatchAnew, File
  <2>3. sup' \in File /\ supNew' \in File /\ supOld' \in File
    BY <1>1, <2>1, <2>2 DEF TypeInv, TypeOK, SmokeTest, SelfSwapFailed, WatchAnew,
       File
  <2>4. TypeOK'
    BY <1>1, <2>1, <2>2, <2>3 DEF TypeInv, TypeOK, SmokeTest
  <2>5. BundleAtHand'
    BY <1>1 DEF TypeInv, BundleAtHand, SmokeTest, SelfSwapFailed, WatchAnew, File
  <2> QED BY <2>4, <2>5 DEF TypeInv
<1>2. CASE SmokeTestFailed
  <2>1. ipc' \in IPC
    BY <1>2 DEF TypeInv, TypeOK, SmokeTestFailed, SelfSwapFailed, WatchAnew, IPC
  <2>2. TypeOK'
    BY ZenonT(30), <1>2, <2>1 DEF TypeInv, TypeOK, SmokeTestFailed, SelfSwapFailed, WatchAnew,
       Pcs, RunPcs
  <2>3. BundleAtHand'
    BY <1>2 DEF TypeInv, BundleAtHand, SmokeTestFailed, SelfSwapFailed, WatchAnew
  <2> QED BY <2>2, <2>3 DEF TypeInv
<1>3. CASE RenameAside
  <2>1. pc' \in Pcs
    BY <1>3 DEF TypeInv, TypeOK, RenameAside, SelfSwapFailed, WatchAnew, File,
       Fault, NoFault, Bounded, Pcs, RunPcs, SelfSwapPcs
  <2>2. watch' \in BOOLEAN /\ deadline' \in {"none", "armed", "passed"}
    BY <1>3, <2>1 DEF TypeInv, TypeOK, RenameAside, SelfSwapFailed, WatchAnew,
       File, Fault, NoFault, Bounded
  <2>3. faults' \in Nat
    BY <1>3, <2>1, <2>2 DEF TypeInv, TypeOK, RenameAside, SelfSwapFailed,
       WatchAnew, File, Fault, NoFault, Bounded
  <2>4. sup' \in File /\ supNew' \in File /\ supOld' \in File
    BY <1>3, <2>1, <2>2, <2>3 DEF TypeInv, TypeOK, RenameAside, SelfSwapFailed,
       WatchAnew, File, Fault, NoFault, Bounded
  <2>5. TypeOK'
    BY <1>3, <2>1, <2>2, <2>3, <2>4 DEF TypeInv, TypeOK, RenameAside, Bounded,
       NoFault
  <2>6. BundleAtHand'
    BY <1>3 DEF TypeInv, BundleAtHand, RenameAside, SelfSwapFailed, WatchAnew,
       File, Fault, NoFault, Bounded
  <2> QED BY <2>5, <2>6 DEF TypeInv
<1>4. CASE RenameIn
  <2>1. pc' \in Pcs
    BY <1>4 DEF TypeInv, TypeOK, RenameIn, CallRollback, Backups, Callers, File,
       Fault, NoFault, Bounded, Pcs, RollbackPcs, SelfSwapPcs
  <2>2. todo' \subseteq Dests \cup {Sup} /\ cur' \in Dests
    BY <1>4, <2>1 DEF TypeInv, TypeOK, RenameIn, CallRollback, Backups, Callers,
       File, Fault, NoFault, Bounded
  <2>3. err' \in BOOLEAN
    BY <1>4, <2>1, <2>2 DEF TypeInv, TypeOK, RenameIn, CallRollback, Backups,
       Callers, File, Fault, NoFault, Bounded
  <2>4. why' \in Callers
    BY <1>4, <2>1, <2>2, <2>3 DEF TypeInv, TypeOK, RenameIn, CallRollback,
       Backups, Callers, File, Fault, NoFault, Bounded
  <2>5. faults' \in Nat
    BY <1>4, <2>1, <2>2, <2>3, <2>4 DEF TypeInv, TypeOK, RenameIn, CallRollback,
       Backups, Callers, File, Fault, NoFault, Bounded
  <2>6. sup' \in File /\ supNew' \in File /\ supOld' \in File
    BY <1>4, <2>1, <2>2, <2>3, <2>4, <2>5 DEF TypeInv, TypeOK, RenameIn,
       CallRollback, Backups, Callers, File, Fault, NoFault, Bounded
  <2>7. TypeOK'
    BY <1>4, <2>1, <2>2, <2>3, <2>4, <2>5, <2>6 DEF TypeInv, TypeOK, RenameIn,
       Bounded, NoFault
  <2>8. BundleAtHand'
    BY <1>4 DEF TypeInv, BundleAtHand, RenameIn, CallRollback, Backups, Callers,
       File, Fault, NoFault, Bounded
  <2> QED BY <2>7, <2>8 DEF TypeInv
<1>5. CASE RenameBack
  <2>1. pc' \in Pcs
    BY <1>5 DEF TypeInv, TypeOK, RenameBack, SelfSwapFailed, WatchAnew, File,
       Fault, NoFault, Bounded, Pcs, RunPcs, SelfSwapPcs
  <2>2. watch' \in BOOLEAN /\ deadline' \in {"none", "armed", "passed"}
    BY <1>5, <2>1 DEF TypeInv, TypeOK, RenameBack, SelfSwapFailed, WatchAnew,
       File, Fault, NoFault, Bounded
  <2>3. faults' \in Nat
    BY <1>5, <2>1, <2>2 DEF TypeInv, TypeOK, RenameBack, SelfSwapFailed,
       WatchAnew, File, Fault, NoFault, Bounded
  <2>4. sup' \in File /\ supNew' \in File /\ supOld' \in File
    BY <1>5, <2>1, <2>2, <2>3 DEF TypeInv, TypeOK, RenameBack, SelfSwapFailed,
       WatchAnew, File, Fault, NoFault, Bounded
  <2>5. TypeOK'
    BY <1>5, <2>1, <2>2, <2>3, <2>4 DEF TypeInv, TypeOK, RenameBack, Bounded,
       NoFault
  <2>6. BundleAtHand'
    BY <1>5 DEF TypeInv, BundleAtHand, RenameBack, SelfSwapFailed, WatchAnew,
       File, Fault, NoFault, Bounded
  <2> QED BY <2>5, <2>6 DEF TypeInv
<1>6. CASE ResetUpgradeIPC
  <2>1. ipc' \in IPC
    BY <1>6 DEF TypeInv, TypeOK, ResetUpgradeIPC, Write, SelfSwapFailed,
       WatchAnew, IPC
  <2>2. pc' \in Pcs
    BY <1>6 DEF TypeInv, TypeOK, ResetUpgradeIPC, Write, SelfSwapFailed,
       WatchAnew, Pcs, RunPcs, SelfSwapPcs
  <2>3. watch' \in BOOLEAN /\ deadline' \in {"none", "armed", "passed"}
    BY <1>6, <2>1, <2>2 DEF TypeInv, TypeOK, ResetUpgradeIPC, Write,
       SelfSwapFailed, WatchAnew
  <2>4. TypeOK'
    BY <1>6, <2>1, <2>2, <2>3 DEF TypeInv, TypeOK, ResetUpgradeIPC, Write
  <2>5. BundleAtHand'
    BY <1>6 DEF TypeInv, BundleAtHand, ResetUpgradeIPC, Write, SelfSwapFailed,
       WatchAnew
  <2> QED BY <2>4, <2>5 DEF TypeInv
<1>7. CASE MarkSelfSwap
  <2>1. ipc' \in IPC
    BY <1>7 DEF TypeInv, TypeOK, MarkSelfSwap, Write, IPC
  <2>2. TypeOK'
    BY <1>7, <2>1 DEF TypeInv, TypeOK, MarkSelfSwap, Write, Pcs, SelfSwapPcs
  <2>3. BundleAtHand'
    BY <1>7 DEF TypeInv, BundleAtHand, MarkSelfSwap, Write
  <2> QED BY <2>2, <2>3 DEF TypeInv
<1>8. CASE DropPending
  <2>1. ipc' \in IPC
    BY <1>8 DEF TypeInv, TypeOK, DropPending, IPC
  <2>2. TypeOK'
    BY <1>8, <2>1 DEF TypeInv, TypeOK, DropPending, Pcs
  <2>3. BundleAtHand'
    BY <1>8 DEF TypeInv, BundleAtHand, DropPending
  <2> QED BY <2>2, <2>3 DEF TypeInv
<1> QED
  BY <1>1, <1>2, <1>3, <1>4, <1>5, <1>6, <1>7, <1>8 DEF SupervisorSelfSwap

\* The types survive superviseWorker and runWorkerOnce: the worker started,
\* watched, stopped, rolled back.
LEMMA SuperviseWorkerType ==
  ASSUME TypeInv, SuperviseWorker
  PROVE TypeInv'
<1> USE DEF Goto, binaries, staged, loop, watching, poller, history
<1>1. CASE StartWorker
  <2>1. TypeOK'
    BY <1>1, WorkerAssumption DEF TypeInv, TypeOK, StartWorker, Pcs, RunPcs
  <2>2. BundleAtHand'
    BY <1>1 DEF TypeInv, BundleAtHand, StartWorker, TypeOK
  <2> QED BY <2>1, <2>2 DEF TypeInv
<1>2. CASE WorkerExit
  <2>1. TypeOK'
    BY ZenonT(30), <1>2 DEF TypeInv, TypeOK, WorkerExit, WorkerGone, Pcs, RunPcs
  <2>2. BundleAtHand'
    BY <1>2 DEF TypeInv, BundleAtHand, WorkerExit, WorkerGone
  <2> QED BY <2>1, <2>2 DEF TypeInv
<1>3. CASE DeadlineKill
  <2>1. TypeOK'
    BY <1>3 DEF TypeInv, TypeOK, DeadlineKill, WorkerExit, WorkerGone, Pcs, RunPcs
  <2>2. BundleAtHand'
    BY <1>3 DEF TypeInv, BundleAtHand, DeadlineKill, WorkerExit, WorkerGone
  <2> QED BY <2>1, <2>2 DEF TypeInv
<1>4. CASE EndOfWorker
  <2>1. pc' \in Pcs
    BY <1>4 DEF TypeInv, TypeOK, EndOfWorker, CallRollback, Backups, Callers,
       Disarm, Pcs, RunPcs, RollbackPcs
  <2>2. watch' \in BOOLEAN /\ deadline' \in {"none", "armed", "passed"}
    BY <1>4, <2>1 DEF TypeInv, TypeOK, EndOfWorker, CallRollback, Backups,
       Callers, Disarm
  <2>3. todo' \subseteq Dests \cup {Sup} /\ cur' \in Dests
    BY <1>4, <2>1, <2>2 DEF TypeInv, TypeOK, EndOfWorker, CallRollback, Backups,
       Callers, Disarm
  <2>4. err' \in BOOLEAN
    BY <1>4, <2>1, <2>2, <2>3 DEF TypeInv, TypeOK, EndOfWorker, CallRollback,
       Backups, Callers, Disarm
  <2>5. why' \in Callers
    BY <1>4, <2>1, <2>2, <2>3, <2>4 DEF TypeInv, TypeOK, EndOfWorker,
       CallRollback, Backups, Callers, Disarm
  <2>6. TypeOK'
    BY <1>4, <2>1, <2>2, <2>3, <2>4, <2>5 DEF TypeInv, TypeOK, EndOfWorker
  <2>7. BundleAtHand'
    BY <1>4 DEF TypeInv, BundleAtHand, EndOfWorker, CallRollback, Backups,
       Callers, Disarm
  <2> QED BY <2>6, <2>7 DEF TypeInv
<1>5. CASE RolledBack
  <2>1. TypeOK'
    BY ZenonT(60), <1>5 DEF TypeInv, TypeOK, RolledBack, Disarm, Pcs, RunPcs
  <2>2. BundleAtHand'
    BY <1>5 DEF TypeInv, BundleAtHand, RolledBack, Disarm
  <2> QED BY <2>1, <2>2 DEF TypeInv
<1>6. CASE Applied
  <2>1. pc' \in Pcs
    BY <1>6 DEF TypeInv, TypeOK, Applied, WatchAnew, Pcs, RunPcs, SelfSwapPcs
  <2>2. watch' \in BOOLEAN /\ deadline' \in {"none", "armed", "passed"}
    BY <1>6, <2>1 DEF TypeInv, TypeOK, Applied, WatchAnew
  <2>3. TypeOK'
    BY <1>6, <2>1, <2>2 DEF TypeInv, TypeOK, Applied
  <2>4. BundleAtHand'
    BY <1>6 DEF TypeInv, BundleAtHand, Applied, WatchAnew
  <2> QED BY <2>3, <2>4 DEF TypeInv
<1> QED
  BY <1>1, <1>2, <1>3, <1>4, <1>5, <1>6 DEF SuperviseWorker

\* The types survive HealthPoll: the health marker read, backups
\* deleted, the swap confirmed.
LEMMA HealthPollType ==
  ASSUME TypeInv, HealthPoll
  PROVE TypeInv'
<1> USE DEF Goto, binaries, staged, loop, watching, poller, history
<1>1. CASE PollHealthy
  <2>1. TypeOK'
    BY <1>1 DEF TypeInv, TypeOK, PollHealthy, Backups, Pcs
  <2>2. BundleAtHand'
    BY <1>1 DEF TypeInv, BundleAtHand, PollHealthy, Backups
  <2> QED BY <2>1, <2>2 DEF TypeInv
<1>2. CASE PollStop
  <2>1. TypeOK'
    BY <1>2 DEF TypeInv, TypeOK, PollStop, Pcs
  <2>2. BundleAtHand'
    BY <1>2 DEF TypeInv, BundleAtHand, PollStop
  <2> QED BY <2>1, <2>2 DEF TypeInv
<1>3. CASE CleanupPrevious
  <2>1. TypeOK'
    BY <1>3 DEF TypeInv, TypeOK, CleanupPrevious, Fault, NoFault, Bounded, File, Pcs
  <2>2. BundleAtHand'
    BY <1>3 DEF TypeInv, BundleAtHand, CleanupPrevious, Fault, NoFault, Bounded,
       File
  <2> QED BY <2>1, <2>2 DEF TypeInv
<1>4. CASE CleanupSupervisorOld
  <2>1. TypeOK'
    BY <1>4 DEF TypeInv, TypeOK, CleanupSupervisorOld, Fault, NoFault, Bounded,
       File, Pcs
  <2>2. BundleAtHand'
    BY <1>4 DEF TypeInv, BundleAtHand, CleanupSupervisorOld, Fault, NoFault,
       Bounded, File
  <2> QED BY <2>1, <2>2 DEF TypeInv
<1>5. CASE PollConfirm
  <2>1. ipc' \in IPC
    BY <1>5 DEF TypeInv, TypeOK, PollConfirm, IPC
  <2>2. TypeOK'
    BY <1>5, <2>1 DEF TypeInv, TypeOK, PollConfirm, Pcs
  <2>3. BundleAtHand'
    BY <1>5 DEF TypeInv, BundleAtHand, PollConfirm
  <2> QED BY <2>2, <2>3 DEF TypeInv
<1> QED
  BY <1>1, <1>2, <1>3, <1>4, <1>5 DEF HealthPoll

\* The types survive the worker: health marker, fetched packages, agent
\* upgrades.
LEMMA WorkerCallsType ==
  ASSUME TypeInv, WorkerCalls
  PROVE TypeInv'
<1> USE DEF Goto, binaries, staged, loop, watching, poller, history
<1>1. CASE WriteHealthMarker
  <2>1. good' \in AllVersions /\ bin[Worker] \in AllVersions
    BY <1>1, WorkerAssumption DEF TypeInv, TypeOK, BundleAtHand,
       WriteHealthMarker, File
  <2>2. ipc' \in IPC
    BY <1>1, <2>1 DEF TypeInv, TypeOK, WriteHealthMarker, File, IPC
  <2>3. TypeOK'
    BY <1>1, <2>1, <2>2 DEF TypeInv, TypeOK, WriteHealthMarker, File, Pcs
  <2>4. BundleAtHand'
    BY <1>1 DEF TypeInv, BundleAtHand, WriteHealthMarker, File, TypeOK
  <2> QED BY <2>3, <2>4 DEF TypeInv
<1>2. CASE FetchPackage
  <2>1. TypeOK'
    BY <1>2 DEF TypeInv, TypeOK, FetchPackage, Sends, Bundle, Pcs
  <2>2. BundleAtHand'
    BY <1>2 DEF TypeInv, BundleAtHand, FetchPackage, Sends, Bundle, TypeOK
  <2> QED BY <2>1, <2>2 DEF TypeInv
<1>3. CASE FetchPackageDone
  <2>1. incoming' \in Bundle \cup {None}
    BY <1>3 DEF TypeInv, TypeOK, FetchPackageDone, Bundle, BundleAtHand
  <2>2. TypeOK'
    BY <1>3, <2>1 DEF TypeInv, TypeOK, FetchPackageDone
  <2>3. BundleAtHand'
    BY <1>3 DEF TypeInv, BundleAtHand, FetchPackageDone, Bundle, TypeOK
  <2> QED BY <2>2, <2>3 DEF TypeInv
<1>4. CASE ApplyPackage
  <2>1. TypeOK'
    BY ZenonT(30), <1>4 DEF TypeInv, TypeOK, ApplyPackage, WorkerExit, WorkerGone, Pcs, RunPcs
  <2>2. BundleAtHand'
    BY <1>4 DEF TypeInv, BundleAtHand, ApplyPackage, WorkerExit, WorkerGone
  <2> QED BY <2>1, <2>2 DEF TypeInv
<1>5. CASE AgentUpgrade
  <2>1. pc' \in Pcs
    BY <1>5 DEF TypeInv, TypeOK, AgentUpgrade, Sends, WorkerGone, Pcs, RunPcs
  <2>2. tar' \in Versions \cup {None} 
    BY <1>5, <2>1 DEF TypeInv, TypeOK, AgentUpgrade, Sends, WorkerGone
  <2>3. fetching' \in BOOLEAN
    BY <1>5, <2>1, <2>2 DEF TypeInv, TypeOK, AgentUpgrade, Sends, WorkerGone
  <2>4. fetches' \in Nat
    BY <1>5, <2>1, <2>2, <2>3 DEF TypeInv, TypeOK, AgentUpgrade, Sends, WorkerGone
  <2>5. TypeOK'
    BY <1>5, <2>1, <2>2, <2>3, <2>4 DEF TypeInv, TypeOK, AgentUpgrade, Sends
  <2>6. BundleAtHand'
    BY <1>5 DEF TypeInv, BundleAtHand, AgentUpgrade, Sends, WorkerGone, TypeOK
  <2> QED BY <2>5, <2>6 DEF TypeInv
<1> QED
  BY <1>1, <1>2, <1>3, <1>4, <1>5 DEF WorkerCalls

\* The types survive time and power: the watch's deadline, the aging
\* sentinel, a power loss.
LEMMA TimedType ==
  ASSUME TypeInv, DeadlinePasses \/ AwaitingAges \/ PowerLoss
  PROVE TypeInv'
<1> USE DEF Goto, binaries, staged, loop, watching, poller, history
<1>1. CASE DeadlinePasses
  <2>1. TypeOK'
    BY <1>1 DEF TypeInv, TypeOK, DeadlinePasses, Pcs
  <2>2. BundleAtHand'
    BY <1>1 DEF TypeInv, BundleAtHand, DeadlinePasses
  <2> QED BY <2>1, <2>2 DEF TypeInv
<1>2. CASE AwaitingAges
  <2>1. ipc' \in IPC
    BY <1>2 DEF TypeInv, TypeOK, AwaitingAges, IPC
  <2>2. TypeOK'
    BY <1>2, <2>1 DEF TypeInv, TypeOK, AwaitingAges, Pcs
  <2>3. BundleAtHand'
    BY <1>2 DEF TypeInv, BundleAtHand, AwaitingAges
  <2> QED BY <2>2, <2>3 DEF TypeInv
<1>3. CASE PowerLoss
  <2>1. pc' \in Pcs
    BY <1>3 DEF TypeInv, TypeOK, PowerLoss, Bundle, File, Pcs
  <2>2. incoming' \in Bundle \cup {None}
    BY <1>3, <2>1 DEF TypeInv, TypeOK, PowerLoss, Bundle, File, BundleAtHand
  <2>3. prev' \in [Dests -> File] /\ supNew' \in File
    BY <1>3, <2>1, <2>2 DEF TypeInv, TypeOK, PowerLoss, Bundle, File
  <2>4. crashes' \in Nat
    BY <1>3, <2>1, <2>2, <2>3 DEF TypeInv, TypeOK, PowerLoss, Bundle, File
  <2>5. TypeOK'
    BY <1>3, <2>1, <2>2, <2>3, <2>4 DEF TypeInv, TypeOK, PowerLoss
  <2>6. BundleAtHand'
    BY <1>3 DEF TypeInv, BundleAtHand, PowerLoss, Bundle, File, TypeOK
  <2> QED BY <2>5, <2>6 DEF TypeInv
<1> QED
  BY <1>1, <1>2, <1>3

\* Every step of the machine keeps the types and what they rest on.
LEMMA TypeStep ==
  ASSUME TypeInv, [Next]_vars
  PROVE  TypeInv'
<1>1. CASE Supervisor
  BY <1>1, BootType, BootCheckHealthType, RestoreType, BootFinishSelfSwapType,
     RollbackType, ExtractType, ConvergeType, ApplyBundleType, MetaType,
        SelfSwapType
     DEF Supervisor, Apply
<1>2. CASE SuperviseWorker
  BY <1>2, SuperviseWorkerType
<1>3. CASE HealthPoll
  BY <1>3, HealthPollType
<1>4. CASE WorkerCalls
  BY <1>4, WorkerCallsType
<1>5. CASE DeadlinePasses \/ AwaitingAges \/ PowerLoss
  BY <1>5, TimedType
<1>6. CASE UNCHANGED vars
  BY <1>6 DEF TypeInv, TypeOK, BundleAtHand, vars, binaries, staged, loop,
     watching, poller, history
<1> QED BY <1>1, <1>2, <1>3, <1>4, <1>5, <1>6 DEF Next

\* The machine starts well typed.
LEMMA InitTypeInv ==
  ASSUME Init
  PROVE  TypeInv
<1>1. ipc \in IPC
  BY DEF Init, IPC
<1>2. TypeOK
  BY <1>1, WorkerAssumption DEF Init, TypeOK, File, AllVersions, Pcs, BootPcs,
     Callers
<1>3. BundleAtHand
  BY DEF Init, BundleAtHand
<1> QED
  BY <1>2, <1>3 DEF TypeInv

\* Types: every variable keeps its type in every reachable state.
THEOREM TypeCorrect == Spec => []TypeOK
<1>1. Init => TypeInv
  BY InitTypeInv
<1>2. TypeInv /\ [Next]_vars => TypeInv'
  BY TypeStep
<1>3. TypeInv => TypeOK
  BY DEF TypeInv
<1> QED BY <1>1, <1>2, <1>3, PTL DEF Spec

-----------------------------------------------------------------------------
(* A marked rollback is whole. *)

\* Giving up one backup, whether it was put back or deleted, leaves no others
\* and not that one: os.Rename and os.Remove of one .previous file.
LEMMA BackupsShrink ==
  ASSUME TypeOK, NEW d, prev' = [prev EXCEPT ![d] = None] \/ prev' = prev
  PROVE  /\ Backups' \subseteq Backups
         /\ prev' = [prev EXCEPT ![d] = None] => d \notin Backups'
<1>1. prev \in [Dests -> File]
  BY DEF TypeOK
<1> QED
  BY <1>1 DEF Backups

\* A marked rollback stays whole across BootCheck's first steps: the
\* service starts, the brick guard, a pending self-swap.
LEMMA BootRollback0 ==
  ASSUME RollbackInv, Boot \/ BootUnbrick \/ BootSelfSwap
  PROVE  RollbackWalk' /\ RollbackDoneMeansRestored'
<1> USE DEF RollbackInv, RollbackWalk, RollbackDoneMeansRestored, Backups,
            Goto, binaries, staged, loop, watching, poller, history
<1>1. CASE Boot
  BY <1>1 DEF Boot, Callers
<1>2. CASE BootUnbrick
  BY <1>2 DEF BootUnbrick, Fault, NoFault, Bounded
<1>3. CASE BootSelfSwap
  BY <1>3 DEF BootSelfSwap, Jump
<1> QED
  BY <1>1, <1>2, <1>3

\* A marked rollback stays whole across BootCheck's health check: stale
\* marks, the awaiting sentinel, the watch, the rollback.
LEMMA BootCheckHealthRollback ==
  ASSUME RollbackInv, BootCheckHealth
  PROVE  RollbackWalk' /\ RollbackDoneMeansRestored'
<1> USE DEF RollbackInv, RollbackWalk, RollbackDoneMeansRestored, Backups,
            Goto, binaries, staged, loop, watching, poller, history
<1>1. CASE BootClearStaleRollbackDone
  BY <1>1 DEF BootClearStaleRollbackDone, Write, TypeInv, TypeOK, IPC
<1>2. CASE BootRestoreSupervisor
  BY <1>2 DEF BootRestoreSupervisor, Jump
<1>3. CASE BootClearAgedAwaiting
  BY <1>3 DEF BootClearAgedAwaiting, Write, TypeInv, TypeOK, IPC
<1>4. CASE BootForceDualRollback
  BY <1>4 DEF BootForceDualRollback, CallRollback, Callers
<1>5. CASE BootArmWatch
  BY <1>5 DEF BootArmWatch
<1>6. CASE BootRollback
  BY <1>6 DEF BootRollback, CallRollback, Callers
<1>7. CASE BootNothingToUndo
  BY <1>7 DEF BootNothingToUndo, Jump
<1> QED
  BY <1>1, <1>2, <1>3, <1>4, <1>5, <1>6, <1>7 DEF BootCheckHealth

\* A marked rollback stays whole across restoreSupervisorFromOld: the
\* kept supervisor comes back.
LEMMA RestoreRollback ==
  ASSUME RollbackInv, Restore
  PROVE  RollbackWalk' /\ RollbackDoneMeansRestored'
<1> USE DEF RollbackInv, RollbackWalk, RollbackDoneMeansRestored, Backups,
            Goto, binaries, staged, loop, watching, poller, history
<1>1. CASE RestoreNothing
  BY <1>1 DEF RestoreNothing, Write, TypeInv, TypeOK, IPC
<1>2. CASE RestoreAside
  BY <1>2 DEF RestoreAside, Fault, NoFault, Bounded
<1>3. CASE RestoreBack
  BY <1>3 DEF RestoreBack, Fault, NoFault, Bounded
<1>4. CASE RestoreClear
  BY <1>4 DEF RestoreClear, Write, TypeInv, TypeOK, IPC
<1> QED
  BY <1>1, <1>2, <1>3, <1>4 DEF Restore

\* A marked rollback stays whole across BootCheck's end: the kept
\* supervisor and the sentinels of a finished self-swap dropped.
LEMMA BootFinishSelfSwapRollback ==
  ASSUME RollbackInv, BootFinishSelfSwap
  PROVE  RollbackWalk' /\ RollbackDoneMeansRestored'
<1> USE DEF RollbackInv, RollbackWalk, RollbackDoneMeansRestored, Backups,
            Goto, binaries, staged, loop, watching, poller, history
<1>1. CASE BootDropOld
  BY <1>1 DEF BootDropOld
<1>2. CASE BootDropApplied
  BY <1>2 DEF BootDropApplied, Write, TypeInv, TypeOK, IPC
<1>3. CASE BootDropOrphan
  BY <1>3 DEF BootDropOrphan, Write, TypeInv, TypeOK, IPC
<1>4. CASE ~ipc.applied /\ Jump("boot3", "boot4")
  BY <1>4 DEF Jump
<1> QED
  BY <1>1, <1>2, <1>3, <1>4 DEF BootFinishSelfSwap

\* A marked rollback stays whole across Rollback: its walk over the
\* backups, its outcome and its mark.
LEMMA RollbackRollback ==
  ASSUME RollbackInv, Rollback
  PROVE  RollbackWalk' /\ RollbackDoneMeansRestored'
<1> USE DEF RollbackInv, RollbackWalk, RollbackDoneMeansRestored, Backups,
            Goto, binaries, staged, loop, watching, poller, history
<1>1. CASE RollbackFile
  <2>1. PICK d \in todo :
          /\ todo' = todo \ {d}
          /\ \/ prev' = [prev EXCEPT ![d] = None] /\ err' = err
             \/ prev' = prev /\ err' = TRUE
    BY <1>1 DEF RollbackFile
  <2>2. pc = "rollback" /\ pc' = pc /\ ipc' = ipc
    BY <1>1 DEF RollbackFile
  <2>3. Backups' \subseteq Backups /\ (~err' => d \notin Backups' /\ ~err)
    BY <2>1, BackupsShrink DEF RollbackInv, TypeInv
  <2>4. ~err' => Backups' \subseteq todo'
    BY <2>1, <2>2, <2>3 DEF RollbackInv, RollbackWalk
  <2> QED
    BY <2>2, <2>3, <2>4 DEF RollbackInv, RollbackWalk, RollbackDoneMeansRestored
<1>2. CASE RollbackFilesDone
  <2>1. /\ pc = "rollback" /\ todo = {} /\ prev' = prev /\ ipc' = ipc
        /\ pc' = "mark" => ~err
        /\ pc' \notin {"verify", "swap", "place", "stage", "rollback"}
    <3>1. /\ why \in Callers
          /\ pc = "rollback" /\ todo = {} /\ prev' = prev /\ ipc' = ipc
      BY <1>2 DEF RollbackFilesDone, RollbackInv, TypeInv, TypeOK, binaries
    <3>2. /\ pc' = "mark" => ~err
          /\ pc' \notin {"verify", "swap", "place", "stage", "rollback"}
      BY <1>2, <3>1 DEF RollbackFilesDone, Callers, AfterRollback, ApplyFailed,
         SelfSwapFailed, Goto
    <3> QED BY <3>1, <3>2
  <2>2. Backups' = Backups
    BY <2>1 DEF Backups
  <2>3. pc' = "mark" => Backups = {}
    BY <2>1 DEF RollbackInv, RollbackWalk
  <2> QED
    BY <2>1, <2>2, <2>3 DEF RollbackInv, RollbackWalk, RollbackDoneMeansRestored
<1>3. CASE WriteRollbackDone
  BY <1>3 DEF WriteRollbackDone, Write, AfterRollback, Callers, TypeInv, TypeOK, IPC
<1> QED
  BY <1>1, <1>2, <1>3 DEF Rollback

\* A marked rollback stays whole across ExtractPendingBundle: the tarball
\* unpacked into incoming.
LEMMA ExtractRollback ==
  ASSUME RollbackInv, ExtractPendingBundle
  PROVE  RollbackWalk' /\ RollbackDoneMeansRestored'
<1> USE DEF RollbackInv, RollbackWalk, RollbackDoneMeansRestored, Backups,
            Goto, binaries, staged, loop, watching, poller, history
<1>1. CASE ExtractBegin
  BY <1>1 DEF ExtractBegin, Looking
<1>2. CASE ExtractSome
  BY <1>2 DEF ExtractSome, Fault, NoFault, Bounded, ApplyFailed
<1>3. CASE ExtractAll
  BY <1>3 DEF ExtractAll
<1>4. CASE ExtractDropTar
  BY <1>4 DEF ExtractDropTar, CallRollback, Callers
<1> QED
  BY <1>1, <1>2, <1>3, <1>4 DEF ExtractPendingBundle

\* A marked rollback stays whole across ConvergeResidualBackups: what a
\* crashed round left is rolled back and cleaned up.
LEMMA ConvergeRollback ==
  ASSUME RollbackInv, ConvergeResidualBackups
  PROVE  RollbackWalk' /\ RollbackDoneMeansRestored'
<1> USE DEF RollbackInv, RollbackWalk, RollbackDoneMeansRestored, Backups,
            Goto, binaries, staged, loop, watching, poller, history
<1>1. CASE ApplyConverge
  BY <1>1 DEF ApplyConverge, Looking, CallRollback, Callers, IsPending
<1>2. CASE CleanNew
  BY <1>2 DEF CleanNew
<1>3. CASE CleanPending
  BY <1>3 DEF CleanPending, Write, ApplyFailed, TypeInv, TypeOK, IPC
<1>4. CASE CleanRollbackDone
  BY <1>4 DEF CleanRollbackDone, Write, TypeInv, TypeOK, IPC
<1> QED
  BY <1>1, <1>2, <1>3, <1>4 DEF ConvergeResidualBackups

\* A marked rollback stays whole across Apply: verification, backups, the
\* new files placed, recovery of a failed apply.
LEMMA ApplyBundleRollback ==
  ASSUME RollbackInv, ApplyBundle
  PROVE  RollbackWalk' /\ RollbackDoneMeansRestored'
<1> USE DEF RollbackInv, RollbackWalk, RollbackDoneMeansRestored, Backups,
            Goto, binaries, staged, loop, watching, poller, history
<1>1. CASE VerifyAll
  BY <1>1 DEF VerifyAll, Entries, ApplyFailed
<1>2. CASE BackupDest
  BY <1>2 DEF BackupDest, SwapFailed, Fault, NoFault, Bounded
<1>3. CASE PlaceDest
  BY <1>3 DEF PlaceDest, SwapFailed, Fault, NoFault, Bounded
<1>4. CASE StageSupervisor
  BY <1>4 DEF StageSupervisor, SwapFailed, Fault, NoFault, Bounded
<1>5. CASE StagePending
  BY <1>5 DEF StagePending, TypeInv, TypeOK, IPC
<1>6. CASE RecoverFile
  <2>1. PICK d \in todo : prev' = [prev EXCEPT ![d] = None] \/ prev' = prev
    BY <1>6 DEF RecoverFile
  <2>2. pc = "undo" /\ pc' = pc /\ ipc' = ipc
    BY <1>6 DEF RecoverFile
  <2>3. Backups' \subseteq Backups
    BY <2>1, BackupsShrink DEF RollbackInv, TypeInv
  <2> QED
    BY <2>2, <2>3 DEF RollbackInv, RollbackWalk, RollbackDoneMeansRestored
<1>7. CASE pc = "undo" /\ todo = {} /\ Jump("undo", "cleanNew")
  BY <1>7 DEF Jump
<1>8. CASE todo = {} /\ Jump("swap", "metaVer")
  BY <1>8 DEF Jump
<1> QED
  BY <1>1, <1>2, <1>3, <1>4, <1>5, <1>6, <1>7, <1>8 DEF ApplyBundle,
     RecoverFailedApply

\* A marked rollback stays whole across WriteUpgradeMeta and the clearing
\* of what Apply used.
LEMMA MetaRollback ==
  ASSUME RollbackInv,
     ApplyNothing \/ ApplyInvalid \/ WriteUpgradeMeta \/ ClearPending
  PROVE  RollbackWalk' /\ RollbackDoneMeansRestored'
<1> USE DEF RollbackInv, RollbackWalk, RollbackDoneMeansRestored, Backups,
            Goto, binaries, staged, loop, watching, poller, history
<1>1. CASE ApplyNothing
  BY <1>1 DEF ApplyNothing, Jump, Looking, ApplyFailed
<1>2. CASE ApplyInvalid
  BY <1>2 DEF ApplyInvalid, Jump, Looking, ApplyFailed
<1>3. CASE WriteUpgradeMeta
  BY <1>3 DEF WriteUpgradeMeta, Write, TypeInv, TypeOK, IPC
<1>4. CASE ClearPending
  BY <1>4 DEF ClearPending, ApplyDone
<1> QED
  BY <1>1, <1>2, <1>3, <1>4

\* A marked rollback stays whole across SupervisorSelfSwap: the smoke test,
\* the renames, the sentinels of a swap.
LEMMA SelfSwapRollback ==
  ASSUME RollbackInv, SupervisorSelfSwap
  PROVE  RollbackWalk' /\ RollbackDoneMeansRestored'
<1> USE DEF RollbackInv, RollbackWalk, RollbackDoneMeansRestored, Backups,
            Goto, binaries, staged, loop, watching, poller, history
<1>1. CASE SmokeTest
  BY <1>1 DEF SmokeTest, SelfSwapFailed, WatchAnew
<1>2. CASE SmokeTestFailed
  BY <1>2 DEF SmokeTestFailed, SelfSwapFailed, WatchAnew, TypeInv, TypeOK, IPC
<1>3. CASE RenameAside
  BY <1>3 DEF RenameAside, SelfSwapFailed, WatchAnew, Fault, NoFault, Bounded
<1>4. CASE RenameIn
  BY <1>4 DEF RenameIn, CallRollback, Callers, Fault, NoFault, Bounded
<1>5. CASE RenameBack
  BY <1>5 DEF RenameBack, SelfSwapFailed, WatchAnew, Fault, NoFault, Bounded
<1>6. CASE ResetUpgradeIPC
  <2>1. ipc \in IPC
    BY DEF RollbackInv, TypeInv, TypeOK
  <2>2. ipc'.rbDone => ipc.rbDone
    BY <1>6, <2>1 DEF ResetUpgradeIPC, Write, IPC
  <2>3. prev' = prev /\ pc' \in {"resetRest", "start"}
    BY <1>6 DEF ResetUpgradeIPC, Write, SelfSwapFailed, Goto, binaries
  <2>4. Backups' = Backups
    BY <2>3 DEF Backups
  <2> QED
    BY <2>2, <2>3, <2>4 DEF RollbackInv, RollbackWalk, RollbackDoneMeansRestored
<1>7. CASE MarkSelfSwap
  <2>1. ipc \in IPC
    BY DEF RollbackInv, TypeInv, TypeOK
  <2>2. ipc'.rbDone => ipc.rbDone
    BY <1>7, <2>1 DEF MarkSelfSwap, Write, IPC
  <2>3. prev' = prev /\ pc' \in {"markAwaiting", "dropPending"}
    BY <1>7 DEF MarkSelfSwap, Write, SelfSwapFailed, Goto, binaries
  <2>4. Backups' = Backups
    BY <2>3 DEF Backups
  <2> QED
    BY <2>2, <2>3, <2>4 DEF RollbackInv, RollbackWalk, RollbackDoneMeansRestored
<1>8. CASE DropPending
  BY <1>8 DEF DropPending, TypeInv, TypeOK, IPC
<1> QED
  BY <1>1, <1>2, <1>3, <1>4, <1>5, <1>6, <1>7, <1>8 DEF SupervisorSelfSwap

\* A marked rollback stays whole across superviseWorker and runWorkerOnce:
\* the worker started, watched, stopped, rolled back.
LEMMA SuperviseWorkerRollback ==
  ASSUME RollbackInv, SuperviseWorker
  PROVE  RollbackWalk' /\ RollbackDoneMeansRestored'
<1> USE DEF RollbackInv, RollbackWalk, RollbackDoneMeansRestored, Backups,
            Goto, binaries, staged, loop, watching, poller, history
<1>1. CASE StartWorker
  BY <1>1 DEF StartWorker
<1>2. CASE WorkerExit
  BY <1>2 DEF WorkerExit, WorkerGone
<1>3. CASE DeadlineKill
  BY <1>3 DEF DeadlineKill, WorkerExit, WorkerGone
<1>4. CASE EndOfWorker
  BY <1>4 DEF EndOfWorker, CallRollback, Callers, Disarm
<1>5. CASE RolledBack
  BY <1>5 DEF RolledBack, Disarm
<1>6. CASE Applied
  BY <1>6 DEF Applied, WatchAnew
<1> QED
  BY <1>1, <1>2, <1>3, <1>4, <1>5, <1>6 DEF SuperviseWorker

\* A marked rollback stays whole across HealthPoll: the health marker
\* read, backups deleted, the swap confirmed.
LEMMA HealthPollRollback ==
  ASSUME RollbackInv, HealthPoll
  PROVE  RollbackWalk' /\ RollbackDoneMeansRestored'
<1> USE DEF RollbackInv, RollbackWalk, RollbackDoneMeansRestored, Backups,
            Goto, binaries, staged, loop, watching, poller, history
<1>1. CASE PollHealthy
  BY <1>1 DEF PollHealthy
<1>2. CASE PollStop
  BY <1>2 DEF PollStop
<1>3. CASE CleanupPrevious
  <2>1. prev' = prev \/ \E d \in hpTodo : prev' = [prev EXCEPT ![d] = None]
    BY <1>3 DEF CleanupPrevious
  <2>2. pc' = pc /\ ipc' = ipc /\ todo' = todo /\ err' = err
    BY <1>3 DEF CleanupPrevious, loop
  <2>3. Backups' \subseteq Backups
    BY <2>1, BackupsShrink DEF RollbackInv, TypeInv
  <2> QED
    BY <2>2, <2>3 DEF RollbackInv, RollbackWalk, RollbackDoneMeansRestored
<1>4. CASE CleanupSupervisorOld
  BY <1>4 DEF CleanupSupervisorOld, Fault, NoFault, Bounded
<1>5. CASE PollConfirm
  BY <1>5 DEF PollConfirm, TypeInv, TypeOK, IPC
<1> QED
  BY <1>1, <1>2, <1>3, <1>4, <1>5 DEF HealthPoll

\* A marked rollback stays whole across the worker: health marker, fetched
\* packages, agent upgrades.
LEMMA WorkerCallsRollback ==
  ASSUME RollbackInv, WorkerCalls
  PROVE  RollbackWalk' /\ RollbackDoneMeansRestored'
<1> USE DEF RollbackInv, RollbackWalk, RollbackDoneMeansRestored, Backups,
            Goto, binaries, staged, loop, watching, poller, history
<1>1. CASE WriteHealthMarker
  BY <1>1 DEF WriteHealthMarker, TypeInv, TypeOK, IPC
<1>2. CASE FetchPackage
  BY <1>2 DEF FetchPackage, Sends
<1>3. CASE FetchPackageDone
  BY <1>3 DEF FetchPackageDone
<1>4. CASE ApplyPackage
  BY <1>4 DEF ApplyPackage, WorkerExit, WorkerGone
<1>5. CASE AgentUpgrade
  BY <1>5 DEF AgentUpgrade, Sends, WorkerGone
<1> QED
  BY <1>1, <1>2, <1>3, <1>4, <1>5 DEF WorkerCalls

\* A marked rollback stays whole across time and power: the watch's
\* deadline, the aging sentinel, a power loss.
LEMMA TimedRollback ==
  ASSUME RollbackInv, DeadlinePasses \/ AwaitingAges \/ PowerLoss
  PROVE  RollbackWalk' /\ RollbackDoneMeansRestored'
<1> USE DEF RollbackInv, RollbackWalk, RollbackDoneMeansRestored, Backups,
            Goto, binaries, staged, loop, watching, poller, history
<1>1. CASE DeadlinePasses
  BY <1>1 DEF DeadlinePasses
<1>2. CASE AwaitingAges
  BY <1>2 DEF AwaitingAges, TypeInv, TypeOK, IPC
<1>3. CASE PowerLoss
  BY <1>3 DEF PowerLoss
<1> QED
  BY <1>1, <1>2, <1>3

\* Every step of the machine keeps the invariant of the rollback.
LEMMA RollbackStep ==
  ASSUME RollbackInv, [Next]_vars
  PROVE  RollbackInv'
<1>1. TypeInv'
  BY TypeStep DEF RollbackInv
<1>2. CASE Supervisor
  BY <1>1, <1>2, BootRollback0, BootCheckHealthRollback, RestoreRollback,
     BootFinishSelfSwapRollback, RollbackRollback, ExtractRollback,
     ConvergeRollback, ApplyBundleRollback, MetaRollback, SelfSwapRollback
     DEF Supervisor, Apply, RollbackInv
<1>3. CASE SuperviseWorker
  BY <1>1, <1>3, SuperviseWorkerRollback DEF RollbackInv
<1>4. CASE HealthPoll
  BY <1>1, <1>4, HealthPollRollback DEF RollbackInv
<1>5. CASE WorkerCalls
  BY <1>1, <1>5, WorkerCallsRollback DEF RollbackInv
<1>6. CASE DeadlinePasses \/ AwaitingAges \/ PowerLoss
  BY <1>1, <1>6, TimedRollback DEF RollbackInv
<1>7. CASE UNCHANGED vars
  BY <1>1, <1>7 DEF RollbackInv, RollbackWalk, RollbackDoneMeansRestored, Backups,
     vars, binaries, staged, loop, watching, poller, history
<1> QED BY <1>2, <1>3, <1>4, <1>5, <1>6, <1>7 DEF Next

\* rollback.done is never on disk while a backup is left: BootCheck and
\* superviseWorker skip the rollback when they see the mark, so a backup behind
\* it would never be restored.  It holds whatever file operation fails, wherever
\* power is lost and whatever bundle comes in.
THEOREM RollbackIsWhole == Spec => []RollbackDoneMeansRestored
<1>1. Init => RollbackInv
  <2> SUFFICES ASSUME Init PROVE RollbackInv
    OBVIOUS
  <2>1. TypeInv
    BY InitTypeInv
  <2>2. RollbackWalk /\ RollbackDoneMeansRestored
    BY DEF Init, RollbackWalk, RollbackDoneMeansRestored, Backups
  <2> QED BY <2>1, <2>2 DEF RollbackInv
<1>2. RollbackInv /\ [Next]_vars => RollbackInv'
  BY RollbackStep
<1>3. RollbackInv => RollbackDoneMeansRestored
  BY DEF RollbackInv
<1> QED BY <1>1, <1>2, <1>3, PTL DEF Spec

=============================================================================
