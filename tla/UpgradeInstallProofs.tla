------------------------ MODULE UpgradeInstallProofs ------------------------
(***************************************************************************)
(* Theorems about what is installed: the binaries on disk against the last *)
(* version confirmed healthy, for every set of binaries and versions.      *)
(*                                                                         *)
(* That a rollback can reach the last confirmed version holds whatever the *)
(* manager sends and when, as long as no Apply begins in one of two windows*)
(* (Joined, Calm below).  That the machine implements its contract is      *)
(* proved for a manager that waits for an edge to settle.  Each theorem    *)
(* names the places where power may be lost.                               *)
(***************************************************************************)
EXTENDS UpgradeRefinement, UpgradeMachineProofs

\* Where power may be lost.  A rollback cut short, and a tarball that is unpacked
\* but still there, are the two places where BootCheck takes up the work wrongly;
\* a backup cut short is taken for a whole one.
CrashPoints ==
  /\ Patient
  /\ CrashAt \cap {"rollback", "extracted"} = {}
  /\ TornCopies => "swap" \notin CrashAt

\* Backups and staged bundles stand a rollback and a backup cut short as well; only
\* of a tarball that is unpacked twice they do not.
LossPoints == Patient /\ "extracted" \notin CrashAt
LossFaults == LossPoints /\ MaxFaults = 0

\* The faults the contract allows: power loss, and no file operation that fails.
CrashFaults == CrashPoints /\ MaxFaults = 0

Swapping == {"swap", "place", "stage"}
Applying == Swapping \cup {"metaVer", "metaMarker", "clear"}

\* From the power loss to the bundle that was being applied.
Recovering == {"off", "boot1", "restoreAside", "restoreBack", "restoreAwaiting",
               "restoreApplied", "boot2"}

\* Where a whole bundle can be staged.
WholePcs == {"run", "exit", "extracted", "rollback", "mark", "verify"}
              \cup Recovering \cup ConvergePcs \cup Applying

Whole == incoming # None /\ incoming.files = "whole"
Short == incoming # None /\ incoming.files = "short"

\* HealthPoll deletes backups only of a confirmed version, and is not there when
\* a bundle is: the manager waited for it.
PollerWaits ==
  /\ hp \in {"clean", "old", "await"} => IsUpgradeHealthy
  /\ fetching \/ Whole \/ pc \in ExtractPcs => hp = "idle"
  /\ tar # None /\ incoming = None => hp = "idle"

\* A bundle is staged over a clean disk, and a whole one is applied before a
\* worker is started again.
StagedWaits ==
  /\ tar # None \/ Short \/ fetching => Backups = {}
  /\ fetching => tar = None /\ ~Whole
  /\ Whole => pc \in WholePcs
  /\ tar # None /\ incoming = None =>
       pc \in {"exit", "extract", "rollback", "mark"} \cup Recovering
  /\ (Whole \/ (tar # None /\ incoming = None)) /\ pc \in {"rollback", "mark"} =>
       why # "deadline"
  /\ tar # None /\ Whole => pc = "extracted"
  /\ pc = "extract" => incoming = None
  /\ pc = "extracting" => ~Whole /\ incoming # None
  /\ pc = "extracted" => Whole /\ tar # None

\* No operation fails, so neither recoverFailedApply nor the brick fallback of
\* the self-swap is entered.
NoFailure ==
  /\ ~err /\ why # "brick"
  /\ pc \notin {"undo", "unswap", "resetVer", "resetRest"}

\* What Apply has replaced has its backup, and every binary is there to be backed
\* up.
BackedUp ==
  /\ pc \in Applying => Whole /\ tar = None /\ \A d \in Dests \ todo : prev[d] # None
  /\ pc = "place" => prev[cur] # None
  /\ pc = "clear" => ipc.marker = None
  /\ \A d \in Dests : bin[d] # None

\* The backups a rollback has still to visit are there: those of a confirmed
\* version are visited only for the bundle that is about to replace it.
Walking ==
  pc = "rollback" => todo \subseteq Backups /\ (~Whole => todo = {} \/ ~IsUpgradeHealthy)

\* A health marker is that of the worker in place.
HealthyRuns == IsUpgradeHealthy /\ ~Whole => bin[Worker] = ipc.lastVer

StagingRules ==
  PollerWaits /\ StagedWaits /\ NoFailure /\ BackedUp /\ Walking /\ HealthyRuns

StagingInv == TypeInv /\ StagingRules

\* The shapes the binaries and their backups take: the confirmed version is in
\* place; a new one is, over whole backups; an Apply is under way, entries in
\* `todo` still to come; what an Apply or a rollback cut short leaves.
AllGood == \A d \in Dests : bin[d] = good
OnTrial == \A d \in Dests : prev[d] = good /\ bin[d] = bin[Worker]
Swapped ==
  \A d \in Dests :
    IF d \in todo THEN bin[d] = good /\ prev[d] \in {None, good}
                  ELSE bin[d] = incoming.ver /\ prev[d] = good
Residue == \A d \in Dests : prev[d] = good \/ (prev[d] = None /\ bin[d] = good)

\* Between two operations: backups of an older version are left behind only by
\* a confirmed one; a whole bundle finds the disk clean, or what is left of its
\* own Apply.
QuietFiles ==
  pc \notin Applying \cup {"rollback"} =>
    IF Whole
      THEN IF pc \in Recovering THEN Residue ELSE AllGood /\ Backups = {}
      ELSE (AllGood /\ (Backups = {} \/ IsUpgradeHealthy)) \/ OnTrial

\* A rollback finds only backups of the confirmed version.
RollbackFiles ==
  /\ pc = "rollback" =>
       /\ todo = Backups /\ Residue
       /\ ~Whole => IF why = "converge" THEN Backups = {} ELSE ~IsUpgradeHealthy
  /\ pc = "mark" => AllGood /\ Backups = {}

ApplyFiles ==
  /\ pc \in Applying => Whole /\ tar = None /\ Swapped
  /\ pc = "place" => cur \in todo /\ prev[cur] = good
  /\ pc \in {"metaVer", "metaMarker", "clear"} => todo = {}
  /\ pc = "clear" => ipc.marker = None

HealthyIsGood ==
  IsUpgradeHealthy /\ (Whole => pc \in {"run", "exit"}) => AllGood /\ ipc.lastVer = good

InstallRules == QuietFiles /\ RollbackFiles /\ ApplyFiles /\ HealthyIsGood

InstallInv == StagingInv /\ InstallRules

-----------------------------------------------------------------------------
(* What the steps have in common. *)

\* No copy, rename or removal fails in a step after which none has.
LEMMA NothingFails ==
  ASSUME TypeInv, faults' = 0
  PROVE  ~Fault
BY DEF TypeInv, TypeOK, Fault

\* The shapes depend on the binaries, their backups and the confirmed version.
LEMMA FilesKept ==
  ASSUME UNCHANGED <<bin, prev, good>>
  PROVE  /\ AllGood' = AllGood /\ OnTrial' = OnTrial
         /\ Residue' = Residue /\ Backups' = Backups
BY DEF AllGood, OnTrial, Residue, Backups

\* How far an Apply is depends on its bundle and on `todo` as well.
LEMMA SwappedKept ==
  ASSUME UNCHANGED <<bin, prev, good, incoming, todo>>
  PROVE  Swapped' = Swapped
BY DEF Swapped

\* A bundle is as whole as it was.
LEMMA BundleKept ==
  ASSUME UNCHANGED incoming
  PROVE  Whole' = Whole /\ Short' = Short
BY DEF Whole, Short

\* Health is read from two of the small files.
LEMMA HealthKept ==
  ASSUME ipc'.lastVer = ipc.lastVer, ipc'.marker = ipc.marker
  PROVE  IsUpgradeHealthy' = IsUpgradeHealthy
BY DEF IsUpgradeHealthy

\* The confirmed version is one: a backup of it is a file.
LEMMA GoodIsAVersion ==
  ASSUME TypeInv
  PROVE  good # None
BY NoneAssumption DEF TypeInv, TypeOK, AllVersions

\* How the shapes are related, in a state and in the next one.
LEMMA Shapes ==
  ASSUME TypeInv
  PROVE  /\ AllGood /\ Backups = {} => Residue
         /\ Residue /\ Backups = {} => AllGood
         /\ OnTrial => Residue /\ Backups # {}
         /\ Swapped => Residue
         /\ Swapped /\ todo = {} => OnTrial
         /\ Whole => ~Short
         /\ fetching => pc = "run"
<1>1. good # None /\ Worker \in Dests
  BY GoodIsAVersion, WorkerAssumption
<1> QED
  BY <1>1 DEF AllGood, Backups, Residue, OnTrial, Swapped, Whole, Short, TypeInv,
     BundleAtHand

LEMMA ShapesNext ==
  ASSUME TypeInv'
  PROVE  /\ AllGood' /\ Backups' = {} => Residue'
         /\ Residue' /\ Backups' = {} => AllGood'
         /\ OnTrial' => Residue' /\ Backups' # {}
         /\ Whole' => ~Short'
<1>1. good' # None /\ Worker \in Dests
  BY NoneAssumption, WorkerAssumption DEF TypeInv, TypeOK, AllVersions
<1> QED
  BY <1>1 DEF AllGood, Backups, Residue, OnTrial, Swapped, Whole, Short, TypeInv,
     BundleAtHand

-----------------------------------------------------------------------------
(* Every step keeps what is staged and backed up: one lemma for each group *)
(* of actions.                                                             *)

\* The start of the service, the brick guard and a pending self-swap change nothing
\* that is staged or backed up.
LEMMA BootStaging ==
  ASSUME LossPoints, StagingInv, TypeInv', faults' = 0,
         Boot \/ BootUnbrick \/ BootSelfSwap
  PROVE  StagingRules'
<1> USE FilesKept, BundleKept, HealthKept, Shapes, ShapesNext, NothingFails
    DEF StagingInv, StagingRules, BackedUp, Walking, HealthyRuns, PollerWaits, StagedWaits,
        NoFailure, Swapping, Applying, Recovering, WholePcs, ConvergePcs, ExtractPcs, Goto,
        binaries, staged, loop, watching, poller, history
<1>1. CASE Boot
  BY <1>1 DEF Boot
<1>2. CASE BootUnbrick
  BY <1>2 DEF BootUnbrick, Bounded, NoFault
<1>3. CASE BootSelfSwap
  BY <1>3 DEF BootSelfSwap, Jump
<1> QED
  BY <1>1, <1>2, <1>3

\* BootCheck's health check calls a rollback of an unconfirmed version only.
LEMMA BootCheckHealthStaging ==
  ASSUME LossPoints, StagingInv, TypeInv', faults' = 0,
         BootCheckHealth
  PROVE  StagingRules'
<1> USE FilesKept, BundleKept, HealthKept, Shapes, ShapesNext, NothingFails
    DEF StagingInv, StagingRules, BackedUp, Walking, HealthyRuns, PollerWaits, StagedWaits,
        NoFailure, Swapping, Applying, Recovering, WholePcs, ConvergePcs, ExtractPcs, Goto,
        binaries, staged, loop, watching, poller, history
<1>1. CASE BootClearStaleRollbackDone
  BY <1>1 DEF BootClearStaleRollbackDone, Write, TypeInv, TypeOK, IPC
<1>2. CASE BootRestoreSupervisor
  BY <1>2 DEF BootRestoreSupervisor, Jump
<1>3. CASE BootClearAgedAwaiting
  BY <1>3 DEF BootClearAgedAwaiting, Write, TypeInv, TypeOK, IPC
<1>4. CASE BootForceDualRollback
  BY <1>4 DEF BootForceDualRollback, CallRollback, Callers
<1>5. CASE BootArmWatch
  BY <1>5 DEF BootArmWatch
<1>6. CASE BootRollback
  BY <1>6 DEF BootRollback, CallRollback, Callers
<1>7. CASE BootNothingToUndo
  BY <1>7 DEF BootNothingToUndo, Jump
<1> QED
  BY <1>1, <1>2, <1>3, <1>4, <1>5, <1>6, <1>7 DEF BootCheckHealth

\* restoreSupervisorFromOld changes nothing that is staged or backed up.
LEMMA RestoreStaging ==
  ASSUME LossPoints, StagingInv, TypeInv', faults' = 0,
         Restore
  PROVE  StagingRules'
<1> USE FilesKept, BundleKept, HealthKept, Shapes, ShapesNext, NothingFails
    DEF StagingInv, StagingRules, BackedUp, Walking, HealthyRuns, PollerWaits, StagedWaits,
        NoFailure, Swapping, Applying, Recovering, WholePcs, ConvergePcs, ExtractPcs, Goto,
        binaries, staged, loop, watching, poller, history
<1>1. CASE RestoreNothing
  BY <1>1 DEF RestoreNothing, Write, TypeInv, TypeOK, IPC
<1>2. CASE RestoreAside
  BY <1>2 DEF RestoreAside, Bounded, NoFault
<1>3. CASE RestoreBack
  BY <1>3 DEF RestoreBack, Bounded, NoFault
<1>4. CASE RestoreClear
  BY <1>4 DEF RestoreClear, Write, TypeInv, TypeOK, IPC
<1> QED
  BY <1>1, <1>2, <1>3, <1>4 DEF Restore

\* Nor does the end of BootCheck.
LEMMA BootFinishSelfSwapStaging ==
  ASSUME LossPoints, StagingInv, TypeInv', faults' = 0,
         BootFinishSelfSwap
  PROVE  StagingRules'
<1> USE FilesKept, BundleKept, HealthKept, Shapes, ShapesNext, NothingFails
    DEF StagingInv, StagingRules, BackedUp, Walking, HealthyRuns, PollerWaits, StagedWaits,
        NoFailure, Swapping, Applying, Recovering, WholePcs, ConvergePcs, ExtractPcs, Goto,
        binaries, staged, loop, watching, poller, history
<1>1. CASE BootDropOld
  BY <1>1 DEF BootDropOld
<1>2. CASE BootDropApplied
  BY <1>2 DEF BootDropApplied, Write, TypeInv, TypeOK, IPC
<1>3. CASE BootDropOrphan
  BY <1>3 DEF BootDropOrphan, Write, TypeInv, TypeOK, IPC
<1>4. CASE ~ipc.applied /\ Jump("boot3", "boot4")
  BY <1>4 DEF Jump
<1> QED
  BY <1>1, <1>2, <1>3, <1>4 DEF BootFinishSelfSwap

\* A rollback uses up the backups it visits, and nobody else deletes them.
LEMMA RollbackStaging ==
  ASSUME LossPoints, StagingInv, TypeInv', faults' = 0,
         Rollback
  PROVE  StagingRules'
<1> USE FilesKept, BundleKept, HealthKept, Shapes, ShapesNext, NothingFails
    DEF StagingInv, StagingRules, BackedUp, Walking, HealthyRuns, PollerWaits, StagedWaits,
        NoFailure, Swapping, Applying, Recovering, WholePcs, ConvergePcs, ExtractPcs, Goto,
        binaries, staged, loop, watching, poller, history
<1>1. CASE RollbackFile
  <2>1. PICK d \in todo :
          /\ todo' = todo \ {d}
          /\ \/ prev[d] # None /\ bin' = [bin EXCEPT ![d] = prev[d]]
                /\ prev' = [prev EXCEPT ![d] = None] /\ err' = err
             \/ prev[d] = None
    BY <1>1 DEF RollbackFile
  <2>2. /\ pc = "rollback" /\ pc' = pc /\ good' = good /\ ipc' = ipc
        /\ UNCHANGED <<incoming, tar, fetching, cur, why, hp>>
    BY <1>1 DEF RollbackFile, Bounded
  <2>3. todo \subseteq Backups
    BY <2>2
  <2>4. prev[d] # None /\ d \in Backups /\ d \in Dests
    BY <2>1, <2>3 DEF Backups
  <2>5. /\ bin' = [bin EXCEPT ![d] = prev[d]]
        /\ prev' = [prev EXCEPT ![d] = None] /\ err' = err
    BY <2>1, <2>4
  <2>6. Backups' = Backups \ {d} /\ \A x \in Dests : bin'[x] # None
    BY <2>4, <2>5 DEF TypeInv, TypeOK, Backups
  <2>7. Whole \/ ~IsUpgradeHealthy
    BY <2>1, <2>2
  <2> QED
    BY <2>1, <2>2, <2>3, <2>4, <2>5, <2>6, <2>7
<1>2. CASE RollbackFilesDone
  <2>1. /\ pc = "rollback" /\ pc' \in {"cleanNew", "mark"}
        /\ pc' = "cleanNew" => why = "converge" /\ incoming # None
        /\ UNCHANGED <<bin, prev, good, ipc, incoming, tar, fetching, loop, hp>>
    BY <1>2, NoneAssumption DEF RollbackFilesDone, TypeInv, BundleAtHand
  <2> QED
    BY <2>1
<1>3. CASE WriteRollbackDone
  <2>1. /\ pc = "mark" /\ why \in Callers
        /\ why \notin {"converge", "brick"}
    BY <1>3 DEF WriteRollbackDone, Write, TypeInv, TypeOK, BundleAtHand
  <2>2. /\ ipc'.lastVer = ipc.lastVer /\ ipc'.marker = ipc.marker
        /\ UNCHANGED <<bin, prev, good, incoming, tar, fetching, loop, hp>>
    BY <1>3 DEF WriteRollbackDone, Write, TypeInv, TypeOK, IPC
  <2>3. pc' = AfterRollback(TRUE)
    BY <1>3 DEF WriteRollbackDone, Write
  <2>4. pc' \in {"boot2", "restoreAside", "rolledBack"} /\ (pc' = "rolledBack" => why = "deadline")
    BY <2>1, <2>3 DEF AfterRollback, Callers
  <2> QED
    BY <2>1, <2>2, <2>4
<1> QED
  BY <1>1, <1>2, <1>3 DEF Rollback

\* A tarball is unpacked while no HealthPoll is there.
LEMMA ExtractStaging ==
  ASSUME LossPoints, StagingInv, TypeInv', faults' = 0,
         ExtractPendingBundle
  PROVE  StagingRules'
<1> USE FilesKept, BundleKept, HealthKept, Shapes, ShapesNext, NothingFails
    DEF StagingInv, StagingRules, BackedUp, Walking, HealthyRuns, PollerWaits, StagedWaits,
        NoFailure, Swapping, Applying, Recovering, WholePcs, ConvergePcs, ExtractPcs, Goto,
        binaries, staged, loop, watching, poller, history
<1>1. CASE ExtractBegin
  <2>1. /\ pc \in {"boot2", "exit"} /\ incoming = None /\ tar # None /\ pc' = "extract"
        /\ UNCHANGED <<bin, prev, good, ipc, incoming, tar, fetching, loop, hp>>
    BY <1>1 DEF ExtractBegin, Looking, IsPending
  <2>2. ~Whole
    BY <2>1 DEF Whole
  <2> QED
    BY <2>1, <2>2
<1>2. CASE ExtractSome
  <2>1. /\ pc = "extract" /\ pc' = "extracting"
        /\ UNCHANGED <<bin, prev, good, ipc, tar, fetching, loop, hp>>
    BY <1>2 DEF ExtractSome, Bounded
  <2>2. tar \in Versions /\ tar # None /\ ~Whole
    BY <2>1, NoneAssumption DEF Whole, TypeInv, BundleAtHand, AllVersions
  <2>3. incoming' # None /\ ~Whole'
    <3>1. PICK f \in {"missing", "short"} : incoming' = [ver |-> tar, files |-> f]
      BY <1>2 DEF ExtractSome, Bounded
    <3> QED BY <2>2, <3>1, NoneAssumption DEF Bundle, Whole
  <2> QED
    BY <2>1, <2>2, <2>3
<1>3. CASE ExtractAll
  <2>1. /\ pc = "extracting" /\ pc' = "extracted"
        /\ UNCHANGED <<bin, prev, good, ipc, tar, fetching, loop, hp>>
    BY <1>3 DEF ExtractAll
  <2>2. tar \in Versions /\ tar # None /\ ~Whole
    BY <2>1, NoneAssumption DEF TypeInv, BundleAtHand, AllVersions
  <2>3. incoming' # None /\ Whole' /\ ~Short'
    BY <1>3, <2>2, NoneAssumption DEF ExtractAll, Bundle, Whole, Short
  <2> QED
    BY <2>1, <2>2, <2>3
<1>4. CASE ExtractDropTar
  BY <1>4 DEF ExtractDropTar, CallRollback, Callers
<1> QED
  BY <1>1, <1>2, <1>3, <1>4 DEF ExtractPendingBundle

\* What a cut short Apply has left is rolled back while the bundle waits.
LEMMA ConvergeStaging ==
  ASSUME LossPoints, StagingInv, TypeInv', faults' = 0,
         ConvergeResidualBackups
  PROVE  StagingRules'
<1> USE FilesKept, BundleKept, HealthKept, Shapes, ShapesNext, NothingFails
    DEF StagingInv, StagingRules, BackedUp, Walking, HealthyRuns, PollerWaits, StagedWaits,
        NoFailure, Swapping, Applying, Recovering, WholePcs, ConvergePcs, ExtractPcs, Goto,
        binaries, staged, loop, watching, poller, history
<1>1. CASE ApplyConverge
  <2>1. /\ pc \in {"boot2", "exit"} /\ incoming # None /\ (Whole \/ Short)
        /\ pc' = "rollback" /\ why' = "converge" /\ todo' = Backups /\ ~err'
        /\ UNCHANGED <<bin, prev, good, ipc, incoming, tar, fetching, hp, cur>>
    BY <1>1 DEF ApplyConverge, Looking, CallRollback, IsPending, TypeInv, TypeOK, Bundle,
       Whole, Short
  <2> QED
    BY <2>1
<1>2. CASE CleanNew
  BY <1>2 DEF CleanNew
<1>3. CASE CleanPending
  BY <1>3 DEF CleanPending, Write, TypeInv, TypeOK, IPC, ApplyFailed, AfterRollback,
     Callers
<1>4. CASE CleanRollbackDone
  BY <1>4 DEF CleanRollbackDone, Write, TypeInv, TypeOK, IPC
<1> QED
  BY <1>1, <1>2, <1>3, <1>4 DEF ConvergeResidualBackups

\* Apply backs each binary up before it is replaced.
LEMMA ApplyBundleStaging ==
  ASSUME LossPoints, StagingInv, TypeInv', faults' = 0,
         ApplyBundle
  PROVE  StagingRules'
<1> USE FilesKept, BundleKept, HealthKept, Shapes, ShapesNext, NothingFails
    DEF StagingInv, StagingRules, BackedUp, Walking, HealthyRuns, PollerWaits, StagedWaits,
        NoFailure, Swapping, Applying, Recovering, WholePcs, ConvergePcs, ExtractPcs, Goto,
        binaries, staged, loop, watching, poller, history
<1>1. CASE VerifyAll
  <2>1. /\ pc = "verify" /\ UNCHANGED <<bin, prev, good, ipc, incoming, tar, fetching, hp>>
        /\ UNCHANGED <<cur, why, err>>
    BY <1>1 DEF VerifyAll
  <2>2. CASE Whole
    <3>1. pc' = "swap" /\ Dests \subseteq todo'
      BY <1>1, <2>2 DEF VerifyAll, Whole, Entries
    <3> QED
      BY <2>1, <2>2, <3>1
  <2>3. CASE ~Whole
    <3>1. pc' \in {"boot3", "end"} /\ todo' = todo
      BY <1>1, <2>1, <2>3, NoneAssumption DEF VerifyAll, Whole, ApplyFailed, TypeInv,
         BundleAtHand
    <3> QED
      BY <2>1, <2>3, <3>1
  <2> QED BY <2>2, <2>3
<1>2. CASE BackupDest
  <2>1. PICK d \in todo \cap Dests : cur' = d /\ prev' = [prev EXCEPT ![d] = bin[d]]
    BY <1>2 DEF BackupDest, SwapFailed
  <2>2. /\ pc = "swap" /\ pc' = "place"
        /\ UNCHANGED <<bin, good, ipc, incoming, tar, fetching, hp, todo, why, err>>
    BY <1>2 DEF BackupDest, SwapFailed, Bounded
  <2>3. prev'[cur'] # None /\ \A x \in Dests \ todo' : prev'[x] # None
    BY <2>1, <2>2 DEF TypeInv, TypeOK
  <2>4. Whole' = Whole /\ Whole
    BY <2>2
  <2> QED
    BY <2>1, <2>2, <2>3, <2>4
<1>3. CASE PlaceDest
  <2>1. /\ pc = "place" /\ pc' = "swap" /\ bin' = [bin EXCEPT ![cur] = incoming.ver]
        /\ todo' = todo \ {cur}
        /\ UNCHANGED <<prev, good, ipc, incoming, tar, fetching, hp, cur, why, err>>
    BY <1>3 DEF PlaceDest, SwapFailed, Bounded
  <2>2. /\ \A x \in Dests : bin'[x] # None
        /\ \A x \in Dests \ todo' : prev'[x] # None
    <3>1. incoming.ver # None
      BY <2>1, NoneAssumption DEF TypeInv, BundleAtHand, Bundle, AllVersions
    <3> QED BY <2>1, <3>1 DEF TypeInv, TypeOK
  <2>3. Whole' = Whole /\ Whole
    BY <2>1
  <2> QED
    BY <2>1, <2>2, <2>3
<1>4. CASE StageSupervisor
  <2>1. /\ pc = "swap" /\ pc' = "stage"
        /\ UNCHANGED <<bin, prev, good, ipc, incoming, tar, fetching, hp, loop>>
    BY <1>4 DEF StageSupervisor, SwapFailed, Bounded
  <2> QED
    BY <2>1
<1>5. CASE StagePending
  <2>1. /\ pc = "stage" /\ pc' = "swap" /\ todo' = todo \ {Sup}
        /\ ipc'.lastVer = ipc.lastVer /\ ipc'.marker = ipc.marker
        /\ UNCHANGED <<bin, prev, good, incoming, tar, fetching, hp, cur, why, err>>
    BY <1>5 DEF StagePending, TypeInv, TypeOK, IPC
  <2>2. \A x \in Dests \ todo' : prev'[x] # None
    BY <2>1, WorkerAssumption
  <2> QED
    BY <2>1, <2>2
<1>6. CASE RecoverFile
  BY <1>6 DEF RecoverFile, Bounded, NoFault
<1>7. CASE pc = "undo" /\ todo = {} /\ Jump("undo", "cleanNew")
  BY <1>7 DEF Jump
<1>8. CASE todo = {} /\ Jump("swap", "metaVer")
  BY <1>8 DEF Jump
<1> QED
  BY <1>1, <1>2, <1>3, <1>4, <1>5, <1>6, <1>7, <1>8 DEF ApplyBundle, RecoverFailedApply

\* The bundle goes when its version is recorded and the marker removed.
LEMMA MetaStaging ==
  ASSUME LossPoints, StagingInv, TypeInv', faults' = 0,
         ApplyNothing \/ ApplyInvalid \/ WriteUpgradeMeta \/ ClearPending
  PROVE  StagingRules'
<1> USE FilesKept, BundleKept, HealthKept, Shapes, ShapesNext, NothingFails
    DEF StagingInv, StagingRules, BackedUp, Walking, HealthyRuns, PollerWaits, StagedWaits,
        NoFailure, Swapping, Applying, Recovering, WholePcs, ConvergePcs, ExtractPcs, Goto,
        binaries, staged, loop, watching, poller, history
<1>1. CASE ApplyNothing
  <2>1. /\ pc \in {"boot2", "exit"} /\ incoming = None /\ tar = None
        /\ pc' \in {"boot3", "end"}
        /\ UNCHANGED <<bin, prev, good, ipc, incoming, tar, fetching, loop, hp>>
    BY <1>1 DEF ApplyNothing, Jump, Looking, ApplyFailed, IsPending
  <2>2. ~Whole
    BY <2>1 DEF Whole
  <2> QED
    BY <2>1, <2>2
<1>2. CASE ApplyInvalid
  <2>1. /\ pc \in {"boot2", "exit"} /\ incoming # None /\ ~Whole
        /\ pc' \in {"boot3", "end"}
        /\ UNCHANGED <<bin, prev, good, ipc, incoming, tar, fetching, loop, hp>>
    BY <1>2 DEF ApplyInvalid, Jump, Looking, ApplyFailed, IsPending, Whole
  <2> QED
    BY <2>1
<1>3. CASE WriteUpgradeMeta
  <2>1. /\ pc \in {"metaVer", "metaMarker"} /\ pc' \in {"metaMarker", "clear"}
        /\ pc' = "clear" => ipc'.marker = None
        /\ UNCHANGED <<bin, prev, good, incoming, tar, fetching, loop, hp>>
    BY <1>3 DEF WriteUpgradeMeta, Write, TypeInv, TypeOK, IPC
  <2> QED
    BY <2>1
<1>4. CASE ClearPending
  <2>1. /\ pc = "clear" /\ pc' \in {"boot3", "applied"} /\ incoming' = None
        /\ UNCHANGED <<bin, prev, good, ipc, tar, fetching, loop, hp>>
    BY <1>4 DEF ClearPending, ApplyDone
  <2>2. ~Whole' /\ ~Short'
    BY <2>1 DEF Whole, Short
  <2>3. ~IsUpgradeHealthy' /\ tar = None /\ ~fetching
    BY <2>1 DEF IsUpgradeHealthy, TypeInv, BundleAtHand
  <2> QED
    BY <2>1, <2>2, <2>3
<1> QED
  BY <1>1, <1>2, <1>3, <1>4

\* The self-swap finds no bundle staged; its fallback is not entered.
LEMMA SelfSwapStaging ==
  ASSUME LossPoints, StagingInv, TypeInv', faults' = 0,
         SupervisorSelfSwap
  PROVE  StagingRules'
<1> USE FilesKept, BundleKept, HealthKept, Shapes, ShapesNext, NothingFails
    DEF StagingInv, StagingRules, BackedUp, Walking, HealthyRuns, PollerWaits, StagedWaits,
        NoFailure, Swapping, Applying, Recovering, WholePcs, ConvergePcs, ExtractPcs, Goto,
        binaries, staged, loop, watching, poller, history
<1>1. CASE SmokeTest
  <2>1. /\ pc = "smoke" /\ pc' \in {"start", "smokeFailed", "aside"}
        /\ UNCHANGED <<bin, prev, good, ipc, incoming, tar, fetching, loop, hp>>
    BY <1>1 DEF SmokeTest, SelfSwapFailed
  <2> QED
    BY <2>1
<1>2. CASE SmokeTestFailed
  BY <1>2 DEF SmokeTestFailed, SelfSwapFailed, WatchAnew, TypeInv, TypeOK, IPC
<1>3. CASE RenameAside
  BY <1>3 DEF RenameAside, Bounded, NoFault, SelfSwapFailed, WatchAnew
<1>4. CASE RenameIn
  BY <1>4 DEF RenameIn, Bounded, NoFault, CallRollback, Callers
<1>5. CASE RenameBack
  BY <1>5 DEF RenameBack, Bounded, NoFault, SelfSwapFailed, WatchAnew
<1>6. CASE ResetUpgradeIPC
  BY <1>6 DEF ResetUpgradeIPC, Write, TypeInv, TypeOK, IPC, SelfSwapFailed, WatchAnew
<1>7. CASE MarkSelfSwap
  <2>1. /\ pc \in {"markApplied", "markAwaiting"} /\ pc' \in {"markAwaiting", "dropPending"}
        /\ UNCHANGED <<bin, prev, good, incoming, tar, fetching, loop, hp>>
    BY <1>7 DEF MarkSelfSwap, Write
  <2>2. ipc'.lastVer = ipc.lastVer /\ ipc'.marker = ipc.marker
    BY ONLY <1>7, StagingInv DEF MarkSelfSwap, Write, StagingInv, TypeInv, TypeOK, IPC
  <2> QED
    BY <2>1, <2>2
<1>8. CASE DropPending
  BY <1>8 DEF DropPending, TypeInv, TypeOK, IPC
<1> QED
  BY <1>1, <1>2, <1>3, <1>4, <1>5, <1>6, <1>7, <1>8 DEF SupervisorSelfSwap

\* A worker is started, and a HealthPoll with it, with no whole bundle staged.
LEMMA SuperviseWorkerStaging ==
  ASSUME LossPoints, StagingInv, TypeInv', faults' = 0,
         SuperviseWorker
  PROVE  StagingRules'
<1> USE FilesKept, BundleKept, HealthKept, Shapes, ShapesNext, NothingFails
    DEF StagingInv, StagingRules, BackedUp, Walking, HealthyRuns, PollerWaits, StagedWaits,
        NoFailure, Swapping, Applying, Recovering, WholePcs, ConvergePcs, ExtractPcs, Goto,
        binaries, staged, loop, watching, poller, history
<1>1. CASE StartWorker
  <2>1. /\ pc = "start" /\ pc' \in {"end", "run"} /\ hp' \in {"idle", "poll"}
        /\ UNCHANGED <<bin, prev, good, ipc, incoming, tar, fetching, loop>>
    BY <1>1 DEF StartWorker
  <2>2. ~Whole /\ (tar # None => incoming # None)
    BY <2>1
  <2>3. ~fetching
    BY <2>1 DEF TypeInv, BundleAtHand
  <2> QED
    BY <2>1, <2>2, <2>3
<1>2. CASE WorkerExit
  BY <1>2 DEF WorkerExit, WorkerGone
<1>3. CASE DeadlineKill
  BY <1>3 DEF DeadlineKill, WorkerGone, WorkerExit
<1>4. CASE EndOfWorker
  BY <1>4 DEF EndOfWorker, CallRollback, Callers, Disarm, ShouldRollbackAfterDeadline
<1>5. CASE RolledBack
  BY <1>5 DEF RolledBack, Disarm, ShouldRollbackAfterDeadline
<1>6. CASE Applied
  BY <1>6 DEF Applied, SelfSwapFailed, WatchAnew
<1> QED
  BY <1>1, <1>2, <1>3, <1>4, <1>5, <1>6 DEF SuperviseWorker

\* HealthPoll deletes backups while no bundle is applied and none rolled back.
LEMMA HealthPollStaging ==
  ASSUME LossPoints, StagingInv, TypeInv', faults' = 0,
         HealthPoll
  PROVE  StagingRules'
<1> USE FilesKept, BundleKept, HealthKept, Shapes, ShapesNext, NothingFails
    DEF StagingInv, StagingRules, BackedUp, Walking, HealthyRuns, PollerWaits, StagedWaits,
        NoFailure, Swapping, Applying, Recovering, WholePcs, ConvergePcs, ExtractPcs, Goto,
        binaries, staged, loop, watching, poller, history
<1>1. CASE PollHealthy
  BY <1>1 DEF PollHealthy
<1>2. CASE PollStop
  BY <1>2 DEF PollStop
<1>3. CASE CleanupPrevious
  <2>1. /\ hp = "clean" /\ hp' \in {"clean", "old"} /\ IsUpgradeHealthy /\ ~Whole
        /\ UNCHANGED <<bin, good, ipc, pc, incoming, tar, fetching, loop>>
    BY <1>3 DEF CleanupPrevious, Bounded
  <2>2. pc \notin Applying
    BY <2>1
  <2>3. Backups' \subseteq Backups
    <3>1. prev' = prev \/ \E d \in hpTodo : prev' = [prev EXCEPT ![d] = None]
      BY <1>3 DEF CleanupPrevious
    <3> QED BY <3>1, BackupsShrink DEF TypeInv
  <2>4. pc = "rollback" => todo = {}
    BY <2>1
  <2> QED
    BY <2>1, <2>2, <2>3, <2>4
<1>4. CASE CleanupSupervisorOld
  BY <1>4 DEF CleanupSupervisorOld, Bounded, NoFault
<1>5. CASE PollConfirm
  BY <1>5 DEF PollConfirm, TypeInv, TypeOK, IPC
<1> QED
  BY <1>1, <1>2, <1>3, <1>4, <1>5 DEF HealthPoll

\* The worker marks its own version, and is sent a bundle when no HealthPoll is
\* there.
LEMMA WorkerCallsStaging ==
  ASSUME LossPoints, StagingInv, TypeInv', faults' = 0,
         WorkerCalls
  PROVE  StagingRules'
<1> USE FilesKept, BundleKept, HealthKept, Shapes, ShapesNext, NothingFails
    DEF StagingInv, StagingRules, BackedUp, Walking, HealthyRuns, PollerWaits, StagedWaits,
        NoFailure, Swapping, Applying, Recovering, WholePcs, ConvergePcs, ExtractPcs, Goto,
        binaries, staged, loop, watching, poller, history
<1>1. CASE WriteHealthMarker
  <2>1. /\ pc = "run" /\ pc' = pc /\ ipc.marker # bin[Worker]
        /\ ipc'.marker = bin[Worker] /\ ipc'.lastVer = ipc.lastVer
        /\ good' = IF ipc.lastVer = bin[Worker] THEN bin[Worker] ELSE good
        /\ UNCHANGED <<bin, prev, incoming, tar, fetching, loop, hp>>
    BY <1>1 DEF WriteHealthMarker, TypeInv, TypeOK, IPC
  <2>2. CASE Whole
    BY <2>1, <2>2
  <2>3. CASE ~Whole
    <3>1. ~IsUpgradeHealthy
      BY <2>1, <2>3 DEF IsUpgradeHealthy
    <3>2. IsUpgradeHealthy' => bin'[Worker] = ipc'.lastVer
      BY <2>1 DEF IsUpgradeHealthy
    <3>3. PollerWaits'
      <4>1. hp \notin {"clean", "old", "await"} /\ Whole' = Whole
        BY <2>1, <3>1
      <4> QED BY <2>1, <4>1
    <3>4. StagedWaits'
      <4>1. Whole' = Whole /\ Short' = Short /\ Backups' = Backups
        BY <2>1 DEF Backups
      <4> QED BY <2>1, <4>1
    <3>5. NoFailure' /\ BackedUp' /\ Walking'
      BY <2>1, <2>3, <3>1
    <3> QED BY <3>2, <3>3, <3>4, <3>5
  <2> QED BY <2>2, <2>3
<1>2. CASE FetchPackage
  <2>1. /\ pc = "run" /\ pc' = pc /\ Backups = {} /\ hp = "idle" /\ incoming = None
        /\ tar = None /\ ~fetching
        /\ UNCHANGED <<bin, prev, good, ipc, tar, loop, hp>>
    BY <1>2 DEF FetchPackage, Sends, Settled, IsPending, LossPoints
  <2>2. PICK v \in Versions, f \in {"missing", "short"} : incoming' = [ver |-> v, files |-> f]
    BY <1>2 DEF FetchPackage
  <2>3. incoming' # None /\ ~Whole' /\ ~Whole
    BY <2>1, <2>2, NoneAssumption DEF Bundle, Whole
  <2> QED
    BY <2>1, <2>3
<1>3. CASE FetchPackageDone
  <2>1. /\ pc = "run" /\ pc' = pc /\ fetching /\ ~fetching' /\ hp = "idle"
        /\ Backups = {} /\ ~Whole
        /\ UNCHANGED <<bin, prev, good, ipc, tar, loop, hp>>
    BY <1>3 DEF FetchPackageDone
  <2>2. incoming' = None \/ (incoming' # None /\ Whole')
    BY <1>3, <2>1 DEF FetchPackageDone, TypeInv, TypeOK, BundleAtHand, Whole, Bundle
  <2>3. tar = None
    BY <2>1
  <2>4. ~Short'
    BY <2>2 DEF Short, Whole
  <2> QED
    BY <2>1, <2>2, <2>3, <2>4 DEF Whole
<1>4. CASE ApplyPackage
  BY <1>4 DEF ApplyPackage, WorkerGone, WorkerExit, IsPending
<1>5. CASE AgentUpgrade
  <2>1. /\ pc = "run" /\ Backups = {} /\ hp = "idle" /\ incoming = None
        /\ tar = None /\ ~fetching
        /\ UNCHANGED <<bin, prev, good, ipc, incoming, loop, hp>>
    BY <1>5 DEF AgentUpgrade, Sends, Settled, IsPending, LossPoints
  <2>2. ~Whole
    BY <2>1 DEF Whole
  <2>3. \/ tar' = None /\ pc' = pc /\ ~fetching'
        \/ tar' # None /\ pc' = "exit" /\ ~fetching'
    BY <1>5, <2>1 DEF AgentUpgrade, WorkerGone
  <2> QED
    BY <2>1, <2>2, <2>3
<1> QED
  BY <1>1, <1>2, <1>3, <1>4, <1>5 DEF WorkerCalls

\* Time, and power lost anywhere but between the two steps of the extraction.
LEMMA TimedStaging ==
  ASSUME LossPoints, StagingInv, TypeInv', faults' = 0,
         DeadlinePasses \/ AwaitingAges \/ PowerLoss
  PROVE  StagingRules'
<1> USE FilesKept, BundleKept, HealthKept, Shapes, ShapesNext, NothingFails
    DEF StagingInv, StagingRules, BackedUp, Walking, HealthyRuns, PollerWaits, StagedWaits,
        NoFailure, Swapping, Applying, Recovering, WholePcs, ConvergePcs, ExtractPcs, Goto,
        binaries, staged, loop, watching, poller, history
<1>1. CASE DeadlinePasses
  BY <1>1 DEF DeadlinePasses
<1>2. CASE AwaitingAges
  BY <1>2 DEF AwaitingAges, TypeInv, TypeOK, IPC
<1>3. CASE PowerLoss
  <2>1. /\ pc \notin {"off", "extracted"} /\ pc' = "off" /\ hp' = "idle" /\ ~fetching'
        /\ UNCHANGED <<bin, good, ipc, tar, loop>>
    BY <1>3 DEF PowerLoss, LossPoints
  <2>2. \/ UNCHANGED <<prev, incoming>>
        \/ pc = "swap" /\ incoming' = incoming
        \/ pc = "clear" /\ incoming' = [incoming EXCEPT !.files = "missing"] /\ prev' = prev
    BY <1>3 DEF PowerLoss
  <2>3. CASE UNCHANGED <<prev, incoming>>
    BY <2>1, <2>3
  <2>4. CASE pc = "swap" /\ incoming' = incoming
    BY <2>1, <2>4
  <2>5. CASE pc = "clear" /\ incoming' = [incoming EXCEPT !.files = "missing"] /\ prev' = prev
    <3>1. ~Whole' /\ ~Short' /\ tar = None
      BY <2>5 DEF Whole, Short, TypeInv, BundleAtHand, Bundle
    <3>2. ~IsUpgradeHealthy'
      BY <2>1, <2>5 DEF IsUpgradeHealthy
    <3> QED
      BY <2>1, <2>5, <3>1, <3>2
  <2> QED BY <2>2, <2>3, <2>4, <2>5
<1> QED
  BY <1>1, <1>2, <1>3

\* Every step of the machine keeps the invariant of the staging.
LEMMA StagingStep ==
  ASSUME LossPoints, StagingInv, faults' = 0, [Next]_vars
  PROVE  StagingInv'
<1>1. TypeInv'
  BY TypeStep DEF StagingInv
<1>2. CASE Supervisor
  BY <1>1, <1>2, BootStaging, BootCheckHealthStaging, RestoreStaging,
     BootFinishSelfSwapStaging, RollbackStaging, ExtractStaging, ConvergeStaging,
     ApplyBundleStaging, MetaStaging, SelfSwapStaging DEF Supervisor, Apply, StagingInv
<1>3. CASE SuperviseWorker
  BY <1>1, <1>3, SuperviseWorkerStaging DEF StagingInv
<1>4. CASE HealthPoll
  BY <1>1, <1>4, HealthPollStaging DEF StagingInv
<1>5. CASE WorkerCalls
  BY <1>1, <1>5, WorkerCallsStaging DEF StagingInv
<1>6. CASE DeadlinePasses \/ AwaitingAges \/ PowerLoss
  BY <1>1, <1>6, TimedStaging DEF StagingInv
<1>7. CASE UNCHANGED vars
  BY <1>1, <1>7, FilesKept, BundleKept, HealthKept
     DEF StagingInv, StagingRules, BackedUp, Walking, HealthyRuns, PollerWaits, StagedWaits,
         NoFailure, vars, binaries, staged, loop, watching, poller, history
<1> QED BY <1>2, <1>3, <1>4, <1>5, <1>6, <1>7 DEF Next

\* At first nothing is staged and nothing is backed up.
LEMMA InitStaging ==
  ASSUME Init
  PROVE  StagingInv
<1>1. TypeInv
  BY InitTypeInv
<1>2. StagingRules
  BY NoneAssumption
     DEF Init, StagingRules, PollerWaits, StagedWaits, NoFailure, BackedUp, Walking,
         HealthyRuns, Whole, Short, Backups, IsUpgradeHealthy, Applying, Swapping,
         ExtractPcs, AllVersions
<1> QED BY <1>1, <1>2 DEF StagingInv

\* Operations that failed are counted, and never forgotten.
LEMMA FaultsCount ==
  ASSUME TypeInv, [Next]_vars
  PROVE  faults' = faults \/ (faults < MaxFaults /\ faults' = faults + 1)
<1> USE DEF history, Bounded, NoFault, Fault
<1>1. CASE Supervisor
  <2> USE DEF Write, Jump, SwapFailed
  <2>1. CASE Boot \/ BootCheckHealth \/ Restore \/ BootFinishSelfSwap \/ BootUnbrick
               \/ BootSelfSwap
    BY <2>1
       DEF Boot, BootCheckHealth, BootClearStaleRollbackDone, BootRestoreSupervisor,
           BootClearAgedAwaiting, BootForceDualRollback, BootArmWatch, BootRollback,
           BootNothingToUndo, Restore, RestoreNothing, RestoreAside, RestoreBack,
           RestoreClear, BootFinishSelfSwap, BootDropOld, BootDropApplied,
           BootDropOrphan, BootUnbrick, BootSelfSwap
  <2>2. CASE Rollback
    BY <2>2 DEF Rollback, RollbackFile, RollbackFilesDone, WriteRollbackDone
  <2>3. CASE Apply
    BY <2>3
       DEF Apply, ApplyNothing, ExtractPendingBundle, ExtractBegin, ExtractSome,
           ExtractAll, ExtractDropTar, ApplyInvalid, ConvergeResidualBackups,
           ApplyConverge, CleanNew, CleanPending, CleanRollbackDone, ApplyBundle,
           VerifyAll, BackupDest, PlaceDest, StageSupervisor, StagePending,
           RecoverFailedApply, RecoverFile, WriteUpgradeMeta, ClearPending
  <2>4. CASE SupervisorSelfSwap
    BY <2>4
       DEF SupervisorSelfSwap, SmokeTest, SmokeTestFailed, RenameAside, RenameIn,
           RenameBack, ResetUpgradeIPC, MarkSelfSwap, DropPending
  <2> QED BY <1>1, <2>1, <2>2, <2>3, <2>4 DEF Supervisor
<1>2. CASE SuperviseWorker
  BY <1>2
     DEF SuperviseWorker, StartWorker, WorkerExit, DeadlineKill, EndOfWorker, RolledBack,
         Applied
<1>3. CASE HealthPoll
  BY <1>3
     DEF HealthPoll, PollHealthy, PollStop, CleanupPrevious, CleanupSupervisorOld,
         PollConfirm
<1>4. CASE WorkerCalls
  BY <1>4
     DEF WorkerCalls, WriteHealthMarker, FetchPackage, FetchPackageDone, ApplyPackage,
         AgentUpgrade, Sends, WorkerExit
<1>5. CASE DeadlinePasses \/ AwaitingAges \/ PowerLoss
  BY <1>5 DEF DeadlinePasses, AwaitingAges, PowerLoss
<1>6. CASE UNCHANGED vars
  BY <1>6 DEF vars
<1> QED BY <1>1, <1>2, <1>3, <1>4, <1>5, <1>6 DEF Next

-----------------------------------------------------------------------------
(* Every step keeps the invariant of the installation.                     *)

\* The service starts, the brick guard, a pending self-swap.
LEMMA BootInstall ==
  ASSUME CrashPoints, InstallInv, TypeInv', faults' = 0,
         Boot \/ BootUnbrick \/ BootSelfSwap
  PROVE  InstallRules'
<1> USE FilesKept, BundleKept, HealthKept, Shapes, ShapesNext, NothingFails
    DEF InstallInv, StagingInv, StagingRules, InstallRules, QuietFiles, RollbackFiles,
        ApplyFiles, HealthyIsGood, PollerWaits, StagedWaits, NoFailure, Swapping, Applying,
        Recovering, WholePcs, ConvergePcs, ExtractPcs, Goto, binaries, staged, loop,
        watching, poller, history
<1>1. CASE Boot
  BY <1>1 DEF Boot
<1>2. CASE BootUnbrick
  BY <1>2 DEF BootUnbrick, Bounded, NoFault
<1>3. CASE BootSelfSwap
  BY <1>3 DEF BootSelfSwap, Jump
<1> QED
  BY <1>1, <1>2, <1>3

\* BootCheck's health check: a rollback it calls finds the backups of the
\* confirmed version only.
LEMMA BootCheckHealthInstall ==
  ASSUME CrashPoints, InstallInv, TypeInv', faults' = 0,
         BootCheckHealth
  PROVE  InstallRules'
<1> USE FilesKept, BundleKept, HealthKept, Shapes, ShapesNext, NothingFails
    DEF InstallInv, StagingInv, StagingRules, InstallRules, QuietFiles, RollbackFiles,
        ApplyFiles, HealthyIsGood, PollerWaits, StagedWaits, NoFailure, Swapping, Applying,
        Recovering, WholePcs, ConvergePcs, ExtractPcs, Goto, binaries, staged, loop,
        watching, poller, history
<1>1. CASE BootClearStaleRollbackDone
  BY <1>1 DEF BootClearStaleRollbackDone, Write, TypeInv, TypeOK, IPC
<1>2. CASE BootRestoreSupervisor
  BY <1>2 DEF BootRestoreSupervisor, Jump
<1>3. CASE BootClearAgedAwaiting
  BY <1>3 DEF BootClearAgedAwaiting, Write, TypeInv, TypeOK, IPC
<1>4. CASE BootForceDualRollback
  BY <1>4 DEF BootForceDualRollback, CallRollback, Callers
<1>5. CASE BootArmWatch
  BY <1>5 DEF BootArmWatch
<1>6. CASE BootRollback
  BY <1>6 DEF BootRollback, CallRollback, Callers
<1>7. CASE BootNothingToUndo
  BY <1>7 DEF BootNothingToUndo, Jump
<1> QED
  BY <1>1, <1>2, <1>3, <1>4, <1>5, <1>6, <1>7 DEF BootCheckHealth

\* restoreSupervisorFromOld touches none of the binaries.
LEMMA RestoreInstall ==
  ASSUME CrashPoints, InstallInv, TypeInv', faults' = 0,
         Restore
  PROVE  InstallRules'
<1> USE FilesKept, BundleKept, HealthKept, Shapes, ShapesNext, NothingFails
    DEF InstallInv, StagingInv, StagingRules, InstallRules, QuietFiles, RollbackFiles,
        ApplyFiles, HealthyIsGood, PollerWaits, StagedWaits, NoFailure, Swapping, Applying,
        Recovering, WholePcs, ConvergePcs, ExtractPcs, Goto, binaries, staged, loop,
        watching, poller, history
<1>1. CASE RestoreNothing
  BY <1>1 DEF RestoreNothing, Write, TypeInv, TypeOK, IPC
<1>2. CASE RestoreAside
  BY <1>2 DEF RestoreAside, Bounded, NoFault
<1>3. CASE RestoreBack
  BY <1>3 DEF RestoreBack, Bounded, NoFault
<1>4. CASE RestoreClear
  BY <1>4 DEF RestoreClear, Write, TypeInv, TypeOK, IPC
<1> QED
  BY <1>1, <1>2, <1>3, <1>4 DEF Restore

\* BootCheck's end touches none of the binaries.
LEMMA BootFinishSelfSwapInstall ==
  ASSUME CrashPoints, InstallInv, TypeInv', faults' = 0,
         BootFinishSelfSwap
  PROVE  InstallRules'
<1> USE FilesKept, BundleKept, HealthKept, Shapes, ShapesNext, NothingFails
    DEF InstallInv, StagingInv, StagingRules, InstallRules, QuietFiles, RollbackFiles,
        ApplyFiles, HealthyIsGood, PollerWaits, StagedWaits, NoFailure, Swapping, Applying,
        Recovering, WholePcs, ConvergePcs, ExtractPcs, Goto, binaries, staged, loop,
        watching, poller, history
<1>1. CASE BootDropOld
  BY <1>1 DEF BootDropOld
<1>2. CASE BootDropApplied
  BY <1>2 DEF BootDropApplied, Write, TypeInv, TypeOK, IPC
<1>3. CASE BootDropOrphan
  BY <1>3 DEF BootDropOrphan, Write, TypeInv, TypeOK, IPC
<1>4. CASE ~ipc.applied /\ Jump("boot3", "boot4")
  BY <1>4 DEF Jump
<1> QED
  BY <1>1, <1>2, <1>3, <1>4 DEF BootFinishSelfSwap

\* A rollback puts the confirmed version back, binary by binary.
LEMMA RollbackInstall ==
  ASSUME CrashPoints, InstallInv, TypeInv', faults' = 0,
         Rollback
  PROVE  InstallRules'
<1> USE FilesKept, BundleKept, HealthKept, Shapes, ShapesNext, NothingFails
    DEF InstallInv, StagingInv, StagingRules, InstallRules, QuietFiles, RollbackFiles,
        ApplyFiles, HealthyIsGood, PollerWaits, StagedWaits, NoFailure, Swapping, Applying,
        Recovering, WholePcs, ConvergePcs, ExtractPcs, Goto, binaries, staged, loop,
        watching, poller, history
<1>1. CASE RollbackFile
  <2>1. PICK d \in todo :
          /\ todo' = todo \ {d}
          /\ \/ prev[d] # None /\ bin' = [bin EXCEPT ![d] = prev[d]]
                /\ prev' = [prev EXCEPT ![d] = None] /\ err' = err
             \/ prev[d] = None
    BY <1>1 DEF RollbackFile
  <2>2. /\ pc = "rollback" /\ pc' = pc /\ good' = good /\ ipc' = ipc
        /\ UNCHANGED <<incoming, tar, fetching, cur, why, hp>>
    BY <1>1 DEF RollbackFile, Bounded
  <2>3. todo = Backups /\ Residue
    BY <2>2
  <2>4. prev[d] # None /\ prev[d] = good /\ d \in Dests
    BY <2>1, <2>3 DEF Backups, Residue
  <2>5. /\ bin' = [bin EXCEPT ![d] = prev[d]]
        /\ prev' = [prev EXCEPT ![d] = None] /\ err' = err
    BY <2>1, <2>4
  <2>6. Backups' = todo' /\ Residue'
    BY <2>1, <2>2, <2>3, <2>4, <2>5 DEF TypeInv, TypeOK, Backups, Residue
  <2> QED
    BY <2>1, <2>2, <2>3, <2>5, <2>6
<1>2. CASE RollbackFilesDone
  <2>1. /\ pc = "rollback" /\ Backups = {} /\ AllGood /\ pc' \in {"cleanNew", "mark"}
        /\ pc' = "cleanNew" => why = "converge" /\ incoming # None
        /\ UNCHANGED <<bin, prev, good, ipc, incoming, tar, fetching, loop, hp>>
    BY <1>2, NoneAssumption DEF RollbackFilesDone, TypeInv, BundleAtHand
  <2> QED
    BY <2>1
<1>3. CASE WriteRollbackDone
  <2>1. /\ pc = "mark" /\ AllGood /\ Backups = {} /\ why \in Callers
        /\ why \notin {"converge", "brick"}
    BY <1>3 DEF WriteRollbackDone, Write, TypeInv, TypeOK, BundleAtHand
  <2>2. /\ ipc'.lastVer = ipc.lastVer /\ ipc'.marker = ipc.marker
        /\ UNCHANGED <<bin, prev, good, incoming, tar, fetching, loop, hp>>
    BY <1>3 DEF WriteRollbackDone, Write, TypeInv, TypeOK, IPC
  <2>3. pc' = AfterRollback(TRUE)
    BY <1>3 DEF WriteRollbackDone, Write
  <2>4. pc' \in {"boot2", "restoreAside", "rolledBack"} /\ (pc' = "rolledBack" => why = "deadline")
    BY <2>1, <2>3 DEF AfterRollback, Callers
  <2> QED
    BY <2>1, <2>2, <2>4
<1> QED
  BY <1>1, <1>2, <1>3 DEF Rollback

\* A tarball is unpacked over a clean disk.
LEMMA ExtractInstall ==
  ASSUME CrashPoints, InstallInv, TypeInv', faults' = 0,
         ExtractPendingBundle
  PROVE  InstallRules'
<1> USE FilesKept, BundleKept, HealthKept, Shapes, ShapesNext, NothingFails
    DEF InstallInv, StagingInv, StagingRules, InstallRules, QuietFiles, RollbackFiles,
        ApplyFiles, HealthyIsGood, PollerWaits, StagedWaits, NoFailure, Swapping, Applying,
        Recovering, WholePcs, ConvergePcs, ExtractPcs, Goto, binaries, staged, loop,
        watching, poller, history
<1>1. CASE ExtractBegin
  <2>1. /\ pc \in {"boot2", "exit"} /\ incoming = None /\ tar # None /\ pc' = "extract"
        /\ UNCHANGED <<bin, prev, good, ipc, incoming, tar, fetching, loop, hp>>
    BY <1>1 DEF ExtractBegin, Looking, IsPending
  <2>2. ~Whole
    BY <2>1 DEF Whole
  <2> QED
    BY <2>1, <2>2
<1>2. CASE ExtractSome
  <2>1. /\ pc = "extract" /\ pc' = "extracting"
        /\ UNCHANGED <<bin, prev, good, ipc, tar, fetching, loop, hp>>
    BY <1>2 DEF ExtractSome, Bounded
  <2>2. tar \in Versions /\ tar # None /\ ~Whole
    BY <2>1, NoneAssumption DEF Whole, TypeInv, BundleAtHand, AllVersions
  <2>3. incoming' # None /\ ~Whole'
    <3>1. PICK f \in {"missing", "short"} : incoming' = [ver |-> tar, files |-> f]
      BY <1>2 DEF ExtractSome, Bounded
    <3> QED BY <2>2, <3>1, NoneAssumption DEF Bundle, Whole
  <2> QED
    BY <2>1, <2>2, <2>3
<1>3. CASE ExtractAll
  <2>1. /\ pc = "extracting" /\ pc' = "extracted"
        /\ UNCHANGED <<bin, prev, good, ipc, tar, fetching, loop, hp>>
    BY <1>3 DEF ExtractAll
  <2>2. tar \in Versions /\ tar # None /\ ~Whole
    BY <2>1, NoneAssumption DEF TypeInv, BundleAtHand, AllVersions
  <2>3. incoming' # None /\ Whole' /\ ~Short'
    BY <1>3, <2>2, NoneAssumption DEF ExtractAll, Bundle, Whole, Short
  <2> QED
    BY <2>1, <2>2, <2>3
<1>4. CASE ExtractDropTar
  BY <1>4 DEF ExtractDropTar, CallRollback, Callers
<1> QED
  BY <1>1, <1>2, <1>3, <1>4 DEF ExtractPendingBundle

\* Before a bundle is applied, what its cut short Apply left is rolled back.
LEMMA ConvergeInstall ==
  ASSUME CrashPoints, InstallInv, TypeInv', faults' = 0,
         ConvergeResidualBackups
  PROVE  InstallRules'
<1> USE FilesKept, BundleKept, HealthKept, Shapes, ShapesNext, NothingFails
    DEF InstallInv, StagingInv, StagingRules, InstallRules, QuietFiles, RollbackFiles,
        ApplyFiles, HealthyIsGood, PollerWaits, StagedWaits, NoFailure, Swapping, Applying,
        Recovering, WholePcs, ConvergePcs, ExtractPcs, Goto, binaries, staged, loop,
        watching, poller, history
<1>1. CASE ApplyConverge
  <2>1. /\ pc \in {"boot2", "exit"} /\ incoming # None /\ (Whole \/ Short)
        /\ pc' = "rollback" /\ why' = "converge" /\ todo' = Backups /\ ~err'
        /\ UNCHANGED <<bin, prev, good, ipc, incoming, tar, fetching, hp, cur>>
    BY <1>1 DEF ApplyConverge, Looking, CallRollback, IsPending, TypeInv, TypeOK, Bundle,
       Whole, Short
  <2> QED
    BY <2>1
<1>2. CASE CleanNew
  BY <1>2 DEF CleanNew
<1>3. CASE CleanPending
  BY <1>3 DEF CleanPending, Write, TypeInv, TypeOK, IPC, ApplyFailed, AfterRollback,
     Callers
<1>4. CASE CleanRollbackDone
  BY <1>4 DEF CleanRollbackDone, Write, TypeInv, TypeOK, IPC
<1> QED
  BY <1>1, <1>2, <1>3, <1>4 DEF ConvergeResidualBackups

\* Apply backs the confirmed version up before it places the new one.
LEMMA ApplyBundleInstall ==
  ASSUME CrashPoints, InstallInv, TypeInv', faults' = 0,
         ApplyBundle
  PROVE  InstallRules'
<1> USE FilesKept, BundleKept, HealthKept, Shapes, ShapesNext, NothingFails
    DEF InstallInv, StagingInv, StagingRules, InstallRules, QuietFiles, RollbackFiles,
        ApplyFiles, HealthyIsGood, PollerWaits, StagedWaits, NoFailure, Swapping, Applying,
        Recovering, WholePcs, ConvergePcs, ExtractPcs, Goto, binaries, staged, loop,
        watching, poller, history
<1>1. CASE VerifyAll
  <2>1. /\ pc = "verify" /\ UNCHANGED <<bin, prev, good, ipc, incoming, tar, fetching, hp>>
        /\ UNCHANGED <<cur, why, err>>
    BY <1>1 DEF VerifyAll
  <2>2. CASE Whole
    <3>1. pc' = "swap" /\ Dests \subseteq todo'
      BY <1>1, <2>2 DEF VerifyAll, Whole, Entries
    <3>2. Swapped'
      BY <2>1, <2>2, <3>1 DEF AllGood, Backups, Swapped
    <3> QED
      BY <2>1, <2>2, <3>1, <3>2
  <2>3. CASE ~Whole
    <3>1. pc' \in {"boot3", "end"} /\ todo' = todo
      BY <1>1, <2>1, <2>3, NoneAssumption DEF VerifyAll, Whole, ApplyFailed, TypeInv,
         BundleAtHand
    <3> QED
      BY <2>1, <2>3, <3>1
  <2> QED BY <2>2, <2>3
<1>2. CASE BackupDest
  <2>1. PICK d \in todo \cap Dests : cur' = d /\ prev' = [prev EXCEPT ![d] = bin[d]]
    BY <1>2 DEF BackupDest, SwapFailed
  <2>2. /\ pc = "swap" /\ pc' = "place"
        /\ UNCHANGED <<bin, good, ipc, incoming, tar, fetching, hp, todo, why, err>>
    BY <1>2 DEF BackupDest, SwapFailed, Bounded
  <2>3. prev'[cur'] = good /\ cur' \in todo' /\ Swapped'
    BY <2>1, <2>2 DEF TypeInv, TypeOK, Swapped
  <2>4. Whole' = Whole /\ Whole
    BY <2>2
  <2> QED
    BY <2>1, <2>2, <2>3, <2>4
<1>3. CASE PlaceDest
  <2>1. /\ pc = "place" /\ pc' = "swap" /\ bin' = [bin EXCEPT ![cur] = incoming.ver]
        /\ todo' = todo \ {cur}
        /\ UNCHANGED <<prev, good, ipc, incoming, tar, fetching, hp, cur, why, err>>
    BY <1>3 DEF PlaceDest, SwapFailed, Bounded
  <2>2. Swapped'
    BY <2>1 DEF TypeInv, TypeOK, Swapped
  <2>3. Whole' = Whole /\ Whole
    BY <2>1
  <2> QED
    BY <2>1, <2>2, <2>3
<1>4. CASE StageSupervisor
  <2>1. /\ pc = "swap" /\ pc' = "stage"
        /\ UNCHANGED <<bin, prev, good, ipc, incoming, tar, fetching, hp, loop>>
    BY <1>4 DEF StageSupervisor, SwapFailed, Bounded
  <2> QED
    BY <2>1, SwappedKept
<1>5. CASE StagePending
  <2>1. /\ pc = "stage" /\ pc' = "swap" /\ todo' = todo \ {Sup}
        /\ ipc'.lastVer = ipc.lastVer /\ ipc'.marker = ipc.marker
        /\ UNCHANGED <<bin, prev, good, incoming, tar, fetching, hp, cur, why, err>>
    BY <1>5 DEF StagePending, TypeInv, TypeOK, IPC
  <2>2. Swapped'
    BY <2>1, WorkerAssumption DEF Swapped
  <2> QED
    BY <2>1, <2>2
<1>6. CASE RecoverFile
  BY <1>6 DEF RecoverFile, Bounded, NoFault
<1>7. CASE pc = "undo" /\ todo = {} /\ Jump("undo", "cleanNew")
  BY <1>7 DEF Jump
<1>8. CASE todo = {} /\ Jump("swap", "metaVer")
  BY <1>8, SwappedKept DEF Jump
<1> QED
  BY <1>1, <1>2, <1>3, <1>4, <1>5, <1>6, <1>7, <1>8 DEF ApplyBundle, RecoverFailedApply

\* The installed version is recorded, the old health marker removed, the
\* bundle cleared.
LEMMA MetaInstall ==
  ASSUME CrashPoints, InstallInv, TypeInv', faults' = 0,
         ApplyNothing \/ ApplyInvalid \/ WriteUpgradeMeta \/ ClearPending
  PROVE  InstallRules'
<1> USE FilesKept, BundleKept, HealthKept, Shapes, ShapesNext, NothingFails
    DEF InstallInv, StagingInv, StagingRules, InstallRules, QuietFiles, RollbackFiles,
        ApplyFiles, HealthyIsGood, PollerWaits, StagedWaits, NoFailure, Swapping, Applying,
        Recovering, WholePcs, ConvergePcs, ExtractPcs, Goto, binaries, staged, loop,
        watching, poller, history
<1>1. CASE ApplyNothing
  <2>1. /\ pc \in {"boot2", "exit"} /\ incoming = None /\ tar = None
        /\ pc' \in {"boot3", "end"}
        /\ UNCHANGED <<bin, prev, good, ipc, incoming, tar, fetching, loop, hp>>
    BY <1>1 DEF ApplyNothing, Jump, Looking, ApplyFailed, IsPending
  <2>2. ~Whole
    BY <2>1 DEF Whole
  <2> QED
    BY <2>1, <2>2
<1>2. CASE ApplyInvalid
  <2>1. /\ pc \in {"boot2", "exit"} /\ incoming # None /\ ~Whole
        /\ pc' \in {"boot3", "end"}
        /\ UNCHANGED <<bin, prev, good, ipc, incoming, tar, fetching, loop, hp>>
    BY <1>2 DEF ApplyInvalid, Jump, Looking, ApplyFailed, IsPending, Whole
  <2> QED
    BY <2>1
<1>3. CASE WriteUpgradeMeta
  <2>1. /\ pc \in {"metaVer", "metaMarker"} /\ pc' \in {"metaMarker", "clear"}
        /\ pc' = "clear" => ipc'.marker = None
        /\ UNCHANGED <<bin, prev, good, incoming, tar, fetching, loop, hp>>
    BY <1>3 DEF WriteUpgradeMeta, Write, TypeInv, TypeOK, IPC
  <2> QED
    BY <2>1, SwappedKept
<1>4. CASE ClearPending
  <2>1. /\ pc = "clear" /\ pc' \in {"boot3", "applied"} /\ incoming' = None
        /\ UNCHANGED <<bin, prev, good, ipc, tar, fetching, loop, hp>>
    BY <1>4 DEF ClearPending, ApplyDone
  <2>2. ~Whole' /\ ~Short'
    BY <2>1 DEF Whole, Short
  <2>3. ~IsUpgradeHealthy' /\ tar = None /\ OnTrial' /\ ~fetching
    BY <2>1 DEF IsUpgradeHealthy, TypeInv, BundleAtHand
  <2> QED
    BY <2>1, <2>2, <2>3
<1> QED
  BY <1>1, <1>2, <1>3, <1>4

\* The self-swap touches none of the binaries; its fallback is not entered.
LEMMA SelfSwapInstall ==
  ASSUME CrashPoints, InstallInv, TypeInv', faults' = 0,
         SupervisorSelfSwap
  PROVE  InstallRules'
<1> USE FilesKept, BundleKept, HealthKept, Shapes, ShapesNext, NothingFails
    DEF InstallInv, StagingInv, StagingRules, InstallRules, QuietFiles, RollbackFiles,
        ApplyFiles, HealthyIsGood, PollerWaits, StagedWaits, NoFailure, Swapping, Applying,
        Recovering, WholePcs, ConvergePcs, ExtractPcs, Goto, binaries, staged, loop,
        watching, poller, history
<1>1. CASE SmokeTest
  <2>1. /\ pc = "smoke" /\ pc' \in {"start", "smokeFailed", "aside"}
        /\ UNCHANGED <<bin, prev, good, ipc, incoming, tar, fetching, loop, hp>>
    BY <1>1 DEF SmokeTest, SelfSwapFailed
  <2> QED
    BY <2>1
<1>2. CASE SmokeTestFailed
  BY <1>2 DEF SmokeTestFailed, SelfSwapFailed, WatchAnew, TypeInv, TypeOK, IPC
<1>3. CASE RenameAside
  BY <1>3 DEF RenameAside, Bounded, NoFault, SelfSwapFailed, WatchAnew
<1>4. CASE RenameIn
  BY <1>4 DEF RenameIn, Bounded, NoFault, CallRollback, Callers
<1>5. CASE RenameBack
  BY <1>5 DEF RenameBack, Bounded, NoFault, SelfSwapFailed, WatchAnew
<1>6. CASE ResetUpgradeIPC
  BY <1>6 DEF ResetUpgradeIPC, Write, TypeInv, TypeOK, IPC, SelfSwapFailed, WatchAnew
<1>7. CASE MarkSelfSwap
  <2>1. /\ pc \in {"markApplied", "markAwaiting"} /\ pc' \in {"markAwaiting", "dropPending"}
        /\ UNCHANGED <<bin, prev, good, incoming, tar, fetching, loop, hp>>
    BY <1>7 DEF MarkSelfSwap, Write
  <2>2. ipc'.lastVer = ipc.lastVer /\ ipc'.marker = ipc.marker
    BY ONLY <1>7, InstallInv DEF MarkSelfSwap, Write, InstallInv, TypeInv, TypeOK, IPC
  <2> QED
    BY <2>1, <2>2
<1>8. CASE DropPending
  BY <1>8 DEF DropPending, TypeInv, TypeOK, IPC
<1> QED
  BY <1>1, <1>2, <1>3, <1>4, <1>5, <1>6, <1>7, <1>8 DEF SupervisorSelfSwap

\* The worker is started, watched, stopped; a rollback only if it is not
\* healthy.
LEMMA SuperviseWorkerInstall ==
  ASSUME CrashPoints, InstallInv, TypeInv', faults' = 0,
         SuperviseWorker
  PROVE  InstallRules'
<1> USE FilesKept, BundleKept, HealthKept, Shapes, ShapesNext, NothingFails
    DEF InstallInv, StagingInv, StagingRules, InstallRules, QuietFiles, RollbackFiles,
        ApplyFiles, HealthyIsGood, PollerWaits, StagedWaits, NoFailure, Swapping, Applying,
        Recovering, WholePcs, ConvergePcs, ExtractPcs, Goto, binaries, staged, loop,
        watching, poller, history
<1>1. CASE StartWorker
  <2>1. /\ pc = "start" /\ pc' \in {"end", "run"} /\ hp' \in {"idle", "poll"}
        /\ UNCHANGED <<bin, prev, good, ipc, incoming, tar, fetching, loop>>
    BY <1>1 DEF StartWorker
  <2>2. ~Whole /\ (tar # None => incoming # None)
    BY <2>1
  <2>3. ~fetching
    BY <2>1 DEF TypeInv, BundleAtHand
  <2> QED
    BY <2>1, <2>2, <2>3
<1>2. CASE WorkerExit
  BY <1>2 DEF WorkerExit, WorkerGone
<1>3. CASE DeadlineKill
  BY <1>3 DEF DeadlineKill, WorkerGone, WorkerExit
<1>4. CASE EndOfWorker
  BY <1>4 DEF EndOfWorker, CallRollback, Callers, Disarm, ShouldRollbackAfterDeadline
<1>5. CASE RolledBack
  BY <1>5 DEF RolledBack, Disarm, ShouldRollbackAfterDeadline
<1>6. CASE Applied
  BY <1>6 DEF Applied, SelfSwapFailed, WatchAnew
<1> QED
  BY <1>1, <1>2, <1>3, <1>4, <1>5, <1>6 DEF SuperviseWorker

\* HealthPoll deletes backups of a version that is confirmed.
LEMMA HealthPollInstall ==
  ASSUME CrashPoints, InstallInv, TypeInv', faults' = 0,
         HealthPoll
  PROVE  InstallRules'
<1> USE FilesKept, BundleKept, HealthKept, Shapes, ShapesNext, NothingFails
    DEF InstallInv, StagingInv, StagingRules, InstallRules, QuietFiles, RollbackFiles,
        ApplyFiles, HealthyIsGood, PollerWaits, StagedWaits, NoFailure, Swapping, Applying,
        Recovering, WholePcs, ConvergePcs, ExtractPcs, Goto, binaries, staged, loop,
        watching, poller, history
<1>1. CASE PollHealthy
  BY <1>1 DEF PollHealthy
<1>2. CASE PollStop
  BY <1>2 DEF PollStop
<1>3. CASE CleanupPrevious
  <2>1. /\ hp = "clean" /\ hp' \in {"clean", "old"} /\ IsUpgradeHealthy /\ ~Whole
        /\ UNCHANGED <<bin, good, ipc, pc, incoming, tar, fetching, loop>>
    BY <1>3 DEF CleanupPrevious, Bounded
  <2>2. AllGood /\ AllGood' /\ pc \notin Applying
    BY <2>1 DEF AllGood
  <2>3. Backups' \subseteq Backups
    <3>1. prev' = prev \/ \E d \in hpTodo : prev' = [prev EXCEPT ![d] = None]
      BY <1>3 DEF CleanupPrevious
    <3> QED BY <3>1, BackupsShrink DEF TypeInv
  <2>4. pc = "rollback" => Backups = {} /\ todo = {}
    BY <2>1
  <2> QED
    BY <2>1, <2>2, <2>3, <2>4
<1>4. CASE CleanupSupervisorOld
  BY <1>4 DEF CleanupSupervisorOld, Bounded, NoFault
<1>5. CASE PollConfirm
  BY <1>5 DEF PollConfirm, TypeInv, TypeOK, IPC
<1> QED
  BY <1>1, <1>2, <1>3, <1>4, <1>5 DEF HealthPoll

\* The worker confirms its version, or is sent a bundle over a clean disk.
LEMMA WorkerCallsInstall ==
  ASSUME CrashPoints, InstallInv, TypeInv', faults' = 0,
         WorkerCalls
  PROVE  InstallRules'
<1> USE FilesKept, BundleKept, HealthKept, Shapes, ShapesNext, NothingFails
    DEF InstallInv, StagingInv, StagingRules, InstallRules, QuietFiles, RollbackFiles,
        ApplyFiles, HealthyIsGood, PollerWaits, StagedWaits, NoFailure, Swapping, Applying,
        Recovering, WholePcs, ConvergePcs, ExtractPcs, Goto, binaries, staged, loop,
        watching, poller, history
<1>1. CASE WriteHealthMarker
  <2>1. /\ pc = "run" /\ pc' = pc /\ ipc.marker # bin[Worker]
        /\ ipc'.marker = bin[Worker] /\ ipc'.lastVer = ipc.lastVer
        /\ good' = IF ipc.lastVer = bin[Worker] THEN bin[Worker] ELSE good
        /\ UNCHANGED <<bin, prev, incoming, tar, fetching, loop, hp>>
    BY <1>1 DEF WriteHealthMarker, TypeInv, TypeOK, IPC
  <2>2. ~IsUpgradeHealthy
    <3>1. IsUpgradeHealthy => bin[Worker] = ipc.lastVer
      BY <2>1, WorkerAssumption DEF AllGood
    <3> QED BY <2>1, <3>1 DEF IsUpgradeHealthy
  <2>3. CASE good' = good
    <3>1. IsUpgradeHealthy' => AllGood' /\ ipc'.lastVer = good'
      BY <2>1, <2>3 DEF IsUpgradeHealthy, AllGood, OnTrial
    <3> QED BY <2>1, <2>2, <2>3, <3>1
  <2>4. CASE ipc.lastVer = bin[Worker] /\ good' = bin[Worker]
    <3>1. AllGood' /\ ipc'.lastVer = good' /\ Backups' = Backups
      BY <2>1, <2>4, WorkerAssumption DEF AllGood, OnTrial, Backups
    <3>2. IsUpgradeHealthy'
      BY <2>1, <2>4, NoneAssumption DEF IsUpgradeHealthy, TypeInv, TypeOK, AllVersions
    <3> QED BY <2>1, <2>2, <2>4, <3>1, <3>2
  <2> QED BY <2>1, <2>3, <2>4
<1>2. CASE FetchPackage
  <2>1. /\ pc = "run" /\ pc' = pc /\ Backups = {} /\ hp = "idle" /\ incoming = None
        /\ tar = None /\ ~fetching
        /\ UNCHANGED <<bin, prev, good, ipc, tar, loop, hp>>
    BY <1>2 DEF FetchPackage, Sends, Settled, IsPending, CrashPoints
  <2>2. PICK v \in Versions, f \in {"missing", "short"} : incoming' = [ver |-> v, files |-> f]
    BY <1>2 DEF FetchPackage
  <2>3. incoming' # None /\ ~Whole' /\ ~Whole
    BY <2>1, <2>2, NoneAssumption DEF Bundle, Whole
  <2> QED
    BY <2>1, <2>3
<1>3. CASE FetchPackageDone
  <2>1. /\ pc = "run" /\ pc' = pc /\ fetching /\ ~fetching' /\ hp = "idle"
        /\ Backups = {} /\ AllGood
        /\ UNCHANGED <<bin, prev, good, ipc, tar, loop, hp>>
    BY <1>3 DEF FetchPackageDone
  <2>2. incoming' = None \/ (incoming' # None /\ Whole')
    BY <1>3, <2>1 DEF FetchPackageDone, TypeInv, TypeOK, BundleAtHand, Whole, Bundle
  <2>3. tar = None
    BY <2>1
  <2>4. ~Short'
    BY <2>2 DEF Short, Whole
  <2> QED
    BY <2>1, <2>2, <2>3, <2>4 DEF Whole
<1>4. CASE ApplyPackage
  BY <1>4 DEF ApplyPackage, WorkerGone, WorkerExit, IsPending
<1>5. CASE AgentUpgrade
  <2>1. /\ pc = "run" /\ Backups = {} /\ hp = "idle" /\ incoming = None
        /\ tar = None /\ ~fetching
        /\ UNCHANGED <<bin, prev, good, ipc, incoming, loop, hp>>
    BY <1>5 DEF AgentUpgrade, Sends, Settled, IsPending, CrashPoints
  <2>2. ~Whole /\ AllGood
    BY <2>1 DEF Whole
  <2>3. \/ tar' = None /\ pc' = pc /\ ~fetching'
        \/ tar' # None /\ pc' = "exit" /\ ~fetching'
    BY <1>5, <2>1 DEF AgentUpgrade, WorkerGone
  <2> QED
    BY <2>1, <2>2, <2>3
<1> QED
  BY <1>1, <1>2, <1>3, <1>4, <1>5 DEF WorkerCalls

\* Time, and power lost wherever the faults allow it.
LEMMA TimedInstall ==
  ASSUME CrashPoints, InstallInv, TypeInv', faults' = 0,
         DeadlinePasses \/ AwaitingAges \/ PowerLoss
  PROVE  InstallRules'
<1> USE FilesKept, BundleKept, HealthKept, Shapes, ShapesNext, NothingFails
    DEF InstallInv, StagingInv, StagingRules, InstallRules, QuietFiles, RollbackFiles,
        ApplyFiles, HealthyIsGood, PollerWaits, StagedWaits, NoFailure, Swapping, Applying,
        Recovering, WholePcs, ConvergePcs, ExtractPcs, Goto, binaries, staged, loop,
        watching, poller, history
<1>1. CASE DeadlinePasses
  BY <1>1, SwappedKept DEF DeadlinePasses
<1>2. CASE AwaitingAges
  BY <1>2, SwappedKept DEF AwaitingAges, TypeInv, TypeOK, IPC
<1>3. CASE PowerLoss
  <2>1. /\ pc \notin {"off", "rollback", "extracted"} /\ pc' = "off" /\ hp' = "idle" /\ ~fetching'
        /\ UNCHANGED <<bin, good, ipc, tar, loop>>
    BY <1>3 DEF PowerLoss, CrashPoints
  <2>2. /\ prev' = prev
        /\ \/ incoming' = incoming
           \/ pc = "clear" /\ incoming' = [incoming EXCEPT !.files = "missing"]
    BY <1>3 DEF PowerLoss, CrashPoints
  <2>3. CASE incoming' = incoming
    BY <2>1, <2>2, <2>3
  <2>4. CASE pc = "clear" /\ incoming' = [incoming EXCEPT !.files = "missing"]
    <3>1. ~Whole' /\ ~Short' /\ tar = None
      BY <2>4 DEF Whole, Short, TypeInv, BundleAtHand, Bundle
    <3>2. ~IsUpgradeHealthy' /\ OnTrial'
      BY <2>1, <2>2, <2>4 DEF IsUpgradeHealthy
    <3> QED
      BY <2>1, <2>4, <3>1, <3>2
  <2> QED BY <2>2, <2>3, <2>4
<1> QED
  BY <1>1, <1>2, <1>3

\* Every step of the machine keeps the invariant of the installation.
LEMMA InstallStep ==
  ASSUME CrashPoints, InstallInv, faults' = 0, [Next]_vars
  PROVE  InstallInv'
<1>1. TypeInv' /\ StagingInv'
  BY StagingStep DEF InstallInv, StagingInv, CrashPoints, LossPoints
<1>2. CASE Supervisor
  BY <1>1, <1>2, BootInstall, BootCheckHealthInstall, RestoreInstall,
     BootFinishSelfSwapInstall, RollbackInstall, ExtractInstall, ConvergeInstall,
     ApplyBundleInstall, MetaInstall, SelfSwapInstall DEF Supervisor, Apply, InstallInv
<1>3. CASE SuperviseWorker
  BY <1>1, <1>3, SuperviseWorkerInstall DEF InstallInv
<1>4. CASE HealthPoll
  BY <1>1, <1>4, HealthPollInstall DEF InstallInv
<1>5. CASE WorkerCalls
  BY <1>1, <1>5, WorkerCallsInstall DEF InstallInv
<1>6. CASE DeadlinePasses \/ AwaitingAges \/ PowerLoss
  BY <1>1, <1>6, TimedInstall DEF InstallInv
<1>7. CASE UNCHANGED vars
  BY <1>1, <1>7, FilesKept, SwappedKept, BundleKept, HealthKept
     DEF InstallInv, InstallRules, QuietFiles, RollbackFiles, ApplyFiles, HealthyIsGood,
         vars, binaries, staged, loop, watching, poller, history
<1> QED BY <1>2, <1>3, <1>4, <1>5, <1>6, <1>7 DEF Next

\* At first V0 is in place, confirmed, and nothing is staged.
LEMMA InitInstall ==
  ASSUME Init
  PROVE  InstallInv
<1>1. TypeInv
  BY InitTypeInv
<1>2. AllGood /\ Backups = {} /\ ~Whole /\ ~Short /\ ~IsUpgradeHealthy
  BY DEF Init, AllGood, Backups, Whole, Short, IsUpgradeHealthy
<1>3. InstallRules
  BY <1>2
     DEF Init, InstallRules, QuietFiles, RollbackFiles, ApplyFiles, HealthyIsGood,
         Applying, Swapping, ExtractPcs
<1> QED BY <1>3, InitStaging DEF InstallInv

\* The invariant holds up to the first operation that fails.
FaultlessInv == TypeInv /\ (faults = 0 => InstallInv)

\* Where no operation fails it holds in every state.
NothingFailedInv == InstallInv /\ faults = 0

-----------------------------------------------------------------------------
(* The backups of an Apply under way.                                      *)

\* The first window, the hazard at HealthPoll (worker.go): nobody waits for
\* the HealthPoll of a worker that is gone, so it may still delete backups when
\* the next bundle has passed its checks and Apply turns to the binaries.  Joined
\* excludes that, and nothing else.
Joined == VerifyAll /\ Whole => hp = "idle"

\* While Apply changes the binaries no HealthPoll is there, and what has been
\* replaced has its backup.
JoinRules ==
  /\ pc \in Applying => hp = "idle" /\ \A d \in Dests \ todo : prev[d] # None
  /\ pc = "place" => prev[cur] # None
  /\ \A d \in Dests : bin[d] # None

JoinInv == TypeInv /\ JoinRules

\* Outside an Apply the rules only say that the binaries are there.
LEMMA NotApplying ==
  ASSUME JoinRules, UNCHANGED bin, pc' \notin Applying
  PROVE  JoinRules'
BY DEF JoinRules, Applying, Swapping

\* A step that leaves the pollers, the binaries and where the Apply is alone.
LEMMA SameJoin ==
  ASSUME JoinRules, UNCHANGED <<bin, prev, pc, todo, cur, hp>>
  PROVE  JoinRules'
BY DEF JoinRules

\* A step of an Apply that touches no binary and no backup.
LEMMA GoesOn ==
  ASSUME JoinRules, UNCHANGED <<bin, prev, todo, hp>>, pc \in Applying, pc' # "place"
  PROVE  JoinRules'
BY DEF JoinRules, Applying, Swapping

\* BootCheck and a self-swap are outside an Apply.
LEMMA BootJoined ==
  ASSUME JoinInv,
         \/ Boot \/ BootCheckHealth \/ Restore \/ BootFinishSelfSwap \/ BootUnbrick
         \/ BootSelfSwap
  PROVE  JoinRules'
<1>1. /\ bin' = bin
      /\ pc' \in {"boot1", "restoreAside", "restoreBack", "restoreAwaiting",
                  "restoreApplied", "boot2", "boot3", "boot3applied", "boot3pending",
                  "boot4", "boot5", "rollback", "off", "smoke", "start"}
  <2> USE DEF Goto, Jump, Write, binaries, staged, loop, watching, poller, history
  <2>1. CASE Boot \/ BootUnbrick \/ BootSelfSwap
    BY <2>1 DEF Boot, BootUnbrick, BootSelfSwap
  <2>2. CASE BootCheckHealth
    BY <2>2
       DEF BootCheckHealth, BootClearStaleRollbackDone, BootRestoreSupervisor,
           BootClearAgedAwaiting, BootForceDualRollback, BootArmWatch, BootRollback,
           BootNothingToUndo, CallRollback
  <2>3. CASE Restore \/ BootFinishSelfSwap
    BY <2>3
       DEF Restore, RestoreNothing, RestoreAside, RestoreBack, RestoreClear,
           BootFinishSelfSwap, BootDropOld, BootDropApplied, BootDropOrphan
  <2> QED BY <2>1, <2>2, <2>3
<1> QED
  BY <1>1, NotApplying DEF JoinInv, Applying, Swapping

\* So are the self-swap, the worker's supervision, and a loss of power.
LEMMA SelfSwapJoined ==
  ASSUME JoinInv, SupervisorSelfSwap
  PROVE  JoinRules'
<1>1. /\ bin' = bin
      /\ pc' \in {"start", "smokeFailed", "aside", "replace", "rollback", "markApplied",
                  "resetVer", "resetRest", "markAwaiting", "dropPending", "off"}
  BY DEF SupervisorSelfSwap, SmokeTest, SmokeTestFailed, RenameAside, RenameIn, RenameBack,
         ResetUpgradeIPC, MarkSelfSwap, DropPending, SelfSwapFailed, CallRollback, Goto,
         Write, binaries, staged, loop, watching, poller, history
<1> QED
  BY <1>1, NotApplying DEF JoinInv, Applying, Swapping

LEMMA SuperviseJoined ==
  ASSUME JoinInv, SuperviseWorker \/ PowerLoss
  PROVE  JoinRules'
<1>1. /\ bin' = bin
      /\ pc' \in {"start", "run", "end", "exit", "rollback", "rolledBack", "off", "smoke"}
  BY DEF SuperviseWorker, StartWorker, WorkerExit, DeadlineKill, WorkerGone, EndOfWorker,
         RolledBack, Applied, CallRollback, Goto, PowerLoss,
         binaries, staged, loop, watching, poller, history
<1> QED
  BY <1>1, NotApplying DEF JoinInv, Applying, Swapping

\* A rollback puts files back, also those an Apply begins with.
LEMMA RollbackJoined ==
  ASSUME JoinInv, TypeInv', Rollback
  PROVE  JoinRules'
<1> USE DEF JoinInv, Goto, binaries, staged, loop, watching, poller, history
<1>1. CASE RollbackFile
  <2>1. /\ pc = "rollback" /\ pc' = pc
        /\ \/ UNCHANGED bin
           \/ \E d \in todo : prev[d] # None /\ bin' = [bin EXCEPT ![d] = prev[d]]
    BY <1>1 DEF RollbackFile
  <2>2. \A d \in Dests : bin'[d] # None
    BY <2>1 DEF JoinRules, TypeInv, TypeOK
  <2> QED
    BY <2>1, <2>2 DEF JoinRules, Applying, Swapping
<1>2. CASE RollbackFilesDone
  <2>1. bin' = bin /\ pc' \in {"cleanNew", "mark", "boot3", "end", "start", "boot2",
                               "restoreAside", "unswap"}
    BY <1>2 DEF RollbackFilesDone, AfterRollback, ApplyFailed, SelfSwapFailed, Callers,
       TypeInv, TypeOK
  <2> QED
    BY <2>1, NotApplying DEF Applying, Swapping
<1>3. CASE WriteRollbackDone
  <2>1. why # "converge" /\ why \in Callers
    BY <1>3 DEF WriteRollbackDone, Write, TypeInv, TypeOK, BundleAtHand
  <2>2. bin' = bin /\ pc' \in {"boot2", "restoreAside", "rolledBack", "unswap"}
    BY <1>3, <2>1 DEF WriteRollbackDone, Write, AfterRollback, Callers
  <2> QED
    BY <2>2, NotApplying DEF Applying, Swapping
<1> QED
  BY <1>1, <1>2, <1>3 DEF Rollback

\* An Apply that has not come to the binaries.
LEMMA BeginJoined ==
  ASSUME JoinInv,
         \/ ApplyNothing \/ ApplyInvalid \/ ExtractPendingBundle
         \/ ConvergeResidualBackups
  PROVE  JoinRules'
<1> USE DEF JoinInv, Goto, binaries, staged, loop, watching, poller, history
<1>1. /\ bin' = bin
      /\ pc' \in {"boot2", "boot3", "end", "extract", "extracting", "extracted", "rollback",
                  "cleanPending", "cleanRollbackDone", "verify"}
  BY DEF ApplyNothing, ApplyInvalid, ExtractPendingBundle, ExtractBegin, ExtractSome,
         ExtractAll, ExtractDropTar, ConvergeResidualBackups, ApplyConverge, CleanNew,
         CleanPending, CleanRollbackDone, Write, Jump, ApplyFailed, CallRollback
<1> QED
  BY <1>1, NotApplying DEF Applying, Swapping

\* Each binary is backed up before it is replaced; a failed one is put back.
LEMMA ApplyBundleJoined ==
  ASSUME JoinInv, Joined, TypeInv', ApplyBundle
  PROVE  JoinRules'
<1> USE DEF JoinInv, Goto, binaries, staged, loop, watching, poller, history
<1>0. CASE /\ SwapFailed /\ pc \in Swapping /\ UNCHANGED <<bin, hp>>
  BY <1>0 DEF SwapFailed, JoinRules, Applying, Swapping
<1>1. CASE VerifyAll
  <2>1. /\ pc = "verify" /\ UNCHANGED <<bin, prev, hp>>
        /\ IF incoming.files = "whole" THEN pc' = "swap" /\ Dests \subseteq todo'
                                       ELSE pc' \in {"boot3", "end"}
    BY <1>1 DEF VerifyAll, Entries, ApplyFailed
  <2>2. incoming # None
    BY <2>1, NoneAssumption DEF TypeInv, BundleAtHand, Bundle, AllVersions
  <2>3. incoming.files = "whole" => hp = "idle"
    BY <1>1, <2>2 DEF Joined, Whole
  <2> QED
    BY <2>1, <2>3 DEF JoinRules, Applying, Swapping
<1>2. CASE BackupDest
  <2>1. PICK d \in todo \cap Dests :
          /\ cur' = d
          /\ \/ /\ prev' = [prev EXCEPT ![d] = bin[d]] /\ pc' = "place"
                /\ todo' = todo
             \/ SwapFailed /\ UNCHANGED prev
    BY <1>2 DEF BackupDest
  <2>2. pc = "swap" /\ UNCHANGED <<bin, hp>>
    BY <1>2 DEF BackupDest
  <2>3. CASE SwapFailed
    BY <1>0, <2>2, <2>3 DEF Swapping
  <2>4. CASE prev' = [prev EXCEPT ![d] = bin[d]] /\ pc' = "place" /\ todo' = todo
    BY <2>1, <2>2, <2>4 DEF JoinRules, TypeInv, TypeOK, Applying, Swapping
  <2> QED
    BY <2>1, <2>3, <2>4
<1>3. CASE PlaceDest
  <2>1. /\ pc = "place" /\ UNCHANGED <<prev, hp>>
        /\ \/ /\ bin' = [bin EXCEPT ![cur] = incoming.ver] /\ pc' = "swap"
              /\ todo' = todo \ {cur}
           \/ SwapFailed /\ UNCHANGED bin
    BY <1>3 DEF PlaceDest
  <2>2. CASE SwapFailed /\ UNCHANGED bin
    BY <1>0, <2>1, <2>2 DEF Swapping
  <2>3. CASE bin' = [bin EXCEPT ![cur] = incoming.ver] /\ pc' = "swap" /\ todo' = todo \ {cur}
    <3>1. incoming.ver # None
      BY <2>1, NoneAssumption DEF TypeInv, BundleAtHand, Bundle, AllVersions
    <3> QED
      BY <2>1, <2>3, <3>1 DEF JoinRules, TypeInv, TypeOK, Applying, Swapping
  <2> QED
    BY <2>1, <2>2, <2>3
<1>4. CASE StageSupervisor
  <2>1. /\ pc = "swap" /\ UNCHANGED <<bin, prev, hp>>
        /\ \/ pc' = "stage" /\ todo' = todo
           \/ SwapFailed
    BY <1>4 DEF StageSupervisor
  <2> QED
    BY <1>0, <2>1 DEF JoinRules, Applying, Swapping
<1>5. CASE StagePending
  <2>1. /\ pc = "stage" /\ pc' = "swap" /\ todo' = todo \ {Sup}
        /\ UNCHANGED <<bin, prev, hp>>
    BY <1>5 DEF StagePending
  <2> QED
    BY <2>1, WorkerAssumption DEF JoinRules, Applying, Swapping
<1>6. CASE RecoverFile
  <2>1. /\ pc = "undo" /\ pc' = pc
        /\ \/ UNCHANGED bin
           \/ \E d \in todo : prev[d] # None /\ bin' = [bin EXCEPT ![d] = prev[d]]
    BY <1>6 DEF RecoverFile
  <2>2. \A d \in Dests : bin'[d] # None
    BY <2>1 DEF JoinRules, TypeInv, TypeOK
  <2> QED
    BY <2>1, <2>2 DEF JoinRules, Applying, Swapping
<1>7. CASE pc = "undo" /\ todo = {} /\ Jump("undo", "cleanNew")
  BY <1>7, NotApplying DEF Jump, Applying, Swapping
<1>8. CASE todo = {} /\ Jump("swap", "metaVer")
  BY <1>8, GoesOn DEF Jump, Applying, Swapping
<1> QED
  BY <1>1, <1>2, <1>3, <1>4, <1>5, <1>6, <1>7, <1>8 DEF ApplyBundle, RecoverFailedApply

LEMMA MetaJoined ==
  ASSUME JoinInv, WriteUpgradeMeta \/ ClearPending
  PROVE  JoinRules'
<1> USE DEF JoinInv, Goto, binaries, staged, loop, watching, poller, history
<1>1. CASE WriteUpgradeMeta
  BY <1>1, GoesOn DEF WriteUpgradeMeta, Write, Applying, Swapping
<1>2. CASE ClearPending
  BY <1>2, NotApplying
     DEF ClearPending, ApplyDone, Applying, Swapping
<1> QED
  BY <1>1, <1>2

\* A HealthPoll deletes backups, but not while Apply changes the binaries.
LEMMA HealthPollJoined ==
  ASSUME JoinInv, HealthPoll
  PROVE  JoinRules'
<1>1. hp # "idle" /\ UNCHANGED <<bin, pc>>
  BY DEF HealthPoll, PollHealthy, PollStop, CleanupPrevious, CleanupSupervisorOld,
         PollConfirm, loop, binaries
<1> QED
  BY <1>1 DEF JoinInv, JoinRules, Applying, Swapping

\* The worker's calls and the clocks leave what the rules are about alone.
LEMMA WorkerJoined ==
  ASSUME JoinInv, WorkerCalls \/ DeadlinePasses \/ AwaitingAges
  PROVE  JoinRules'
<1>1. /\ UNCHANGED <<bin, prev, todo, cur, hp>>
      /\ pc' = pc \/ pc' = "exit"
  BY DEF WorkerCalls, WriteHealthMarker, FetchPackage, FetchPackageDone, ApplyPackage,
         AgentUpgrade, WorkerExit, WorkerGone, Goto, DeadlinePasses, AwaitingAges,
         binaries, staged, loop, watching, poller, history
<1> QED
  BY <1>1, SameJoin, NotApplying DEF JoinInv, Applying, Swapping

\* Every step but those of the first window keeps the rules.
LEMMA JoinedStep ==
  ASSUME JoinInv, Joined, [Next]_vars
  PROVE  JoinInv'
<1>1. TypeInv'
  BY TypeStep DEF JoinInv
<1>2. CASE Supervisor
  BY <1>1, <1>2, BootJoined, RollbackJoined, BeginJoined, ApplyBundleJoined, MetaJoined,
     SelfSwapJoined DEF Supervisor, Apply, JoinInv
<1>3. CASE SuperviseWorker \/ HealthPoll \/ WorkerCalls \/ DeadlinePasses \/ AwaitingAges
             \/ PowerLoss
  BY <1>1, <1>3, SuperviseJoined, HealthPollJoined, WorkerJoined DEF JoinInv
<1>4. CASE UNCHANGED vars
  BY <1>1, <1>4, SameJoin DEF JoinInv, vars, binaries, loop, poller
<1> QED BY <1>2, <1>3, <1>4 DEF Next

\* Each binary an Apply has replaced keeps its backup until Apply is done, so
\* that recoverFailedApply can put it back, unless Apply came to the binaries
\* while the HealthPoll of the worker before it was still there.  It holds whatever the
\* manager sends and when, wherever power is lost, whatever that leaves of a
\* backup, and whichever file operation fails.
THEOREM BackupsOfSwapped == Spec /\ [][Joined]_vars => []SwappedHasBackup
<1>1. Init => JoinInv
  BY InitTypeInv, NoneAssumption
     DEF Init, JoinInv, JoinRules, Applying, Swapping, AllVersions
<1>2. JoinInv /\ [Next]_vars /\ [Joined]_vars => JoinInv'
  <2> SUFFICES ASSUME JoinInv, [Next]_vars, [Joined]_vars PROVE JoinInv'
    OBVIOUS
  <2>1. CASE Joined
    BY <2>1, JoinedStep
  <2>2. CASE UNCHANGED vars
    BY <2>2, TypeStep, SameJoin DEF JoinInv, vars, binaries, loop, poller
  <2> QED BY <2>1, <2>2
<1>3. JoinInv => SwappedHasBackup
  BY DEF JoinInv, JoinRules, Applying, Swapping, SwappedHasBackup
<1> QED BY <1>1, <1>2, <1>3, PTL DEF Spec

-----------------------------------------------------------------------------
(* The last confirmed version, whatever the manager sends and when.        *)

\* The second window, the hazard at ConvergeResidualBackups (converge.go):
\* the backups an Apply finds and rolls back may be those of a version older than
\* the one confirmed since.  Calm excludes the two windows, and nothing else: a
\* bundle may come while backups are there, over an unconfirmed version, over
\* another bundle, or while a HealthPoll is at work, if only it has ended and its
\* backups are gone when the Apply begins.  A bundle that will be refused may find
\* a HealthPoll at work, where it finds no backups.
Calm ==
  ApplyConverge \/ ExtractDropTar =>
    /\ \A d \in Dests : prev[d] \in {None, good}
    /\ hp = "idle" \/ (~Whole /\ Backups = {})

\* Power may be lost anywhere but within a rollback, which BootCheck does not
\* always take up again, and within a copy that leaves a torn backup.
CalmFaults ==
  /\ "rollback" \notin CrashAt
  /\ TornCopies => "swap" \notin CrashAt
  /\ MaxFaults = 0

\* A HealthPoll past its test has found a healthy version; from the service's
\* start to the end of an Apply there is none, unless the bundle will be refused.
CalmPoller ==
  /\ hp \in {"clean", "old", "await"} => IsUpgradeHealthy
  /\ pc \in Recovering \cup Applying => hp = "idle"
  /\ pc \in ConvergePcs \cup {"verify"} => hp = "idle" \/ ~Whole
  /\ pc \in {"rollback", "mark"} =>
       \/ hp = "idle" \/ why = "deadline"
       \/ pc = "rollback" /\ why = "converge" /\ ~Whole /\ Backups = {}

\* A whole bundle is applied before a worker is started again.
CalmBundle ==
  /\ Whole => pc \in WholePcs
  /\ Whole /\ pc \in {"rollback", "mark"} => why # "deadline"
  /\ pc \in {"extract", "extracting"} => ~Whole

\* Between two operations: the confirmed version is in place, or one on trial is
\* over its whole backups, or what an Apply cut short left waits for its bundle.
CalmQuiet ==
  /\ pc \notin Applying \cup {"rollback"} =>
       \/ AllGood /\ (Backups = {} \/ IsUpgradeHealthy)
       \/ OnTrial
       \/ Whole /\ pc \in Recovering /\ Residue
  /\ pc \in ConvergePcs \cup {"verify"} => AllGood /\ Backups = {}

\* A rollback finds only backups of the confirmed version.
CalmRollback ==
  /\ pc = "rollback" =>
       todo = Backups /\ Residue /\ (why = "converge" \/ ~IsUpgradeHealthy)
  /\ pc = "mark" => AllGood /\ Backups = {}

CalmApply ==
  /\ pc \in Applying => Whole /\ Swapped
  /\ pc = "place" => cur \in todo /\ prev[cur] = good
  /\ pc \in {"metaVer", "metaMarker", "clear"} => todo = {}
  /\ pc = "clear" => ipc.marker = None

\* A marker of the recorded version is that of the confirmed one, except while a
\* bundle that was cut short is still to be applied again.
CalmHealthy ==
  IsUpgradeHealthy /\ (Whole => pc \in {"run", "exit", "extracted"}) =>
    AllGood /\ ipc.lastVer = good

CalmRules ==
  /\ NoFailure /\ CalmPoller /\ CalmBundle /\ CalmQuiet
  /\ CalmRollback /\ CalmApply /\ CalmHealthy

CalmInv == TypeInv /\ CalmRules

\* The service starts, the brick guard, a pending self-swap.
LEMMA BootCalm ==
  ASSUME CalmFaults, CalmInv, TypeInv', faults' = 0,
         Boot \/ BootUnbrick \/ BootSelfSwap
  PROVE  CalmRules'
<1> USE FilesKept, BundleKept, HealthKept, Shapes, ShapesNext, NothingFails
    DEF CalmInv, CalmRules, CalmPoller, CalmBundle, CalmQuiet, CalmRollback, CalmApply,
        CalmHealthy, NoFailure, Swapping, Applying, Recovering, WholePcs, ConvergePcs,
        Goto, binaries, staged, loop, watching, poller, history
<1>1. CASE Boot
  BY <1>1 DEF Boot
<1>2. CASE BootUnbrick
  BY <1>2 DEF BootUnbrick, Bounded, NoFault
<1>3. CASE BootSelfSwap
  BY <1>3 DEF BootSelfSwap, Jump
<1> QED
  BY <1>1, <1>2, <1>3

\* BootCheck's health check: a rollback it calls finds the backups of the
\* confirmed version only.
LEMMA BootCheckHealthCalm ==
  ASSUME CalmFaults, CalmInv, TypeInv', faults' = 0,
         BootCheckHealth
  PROVE  CalmRules'
<1> USE FilesKept, BundleKept, HealthKept, Shapes, ShapesNext, NothingFails
    DEF CalmInv, CalmRules, CalmPoller, CalmBundle, CalmQuiet, CalmRollback, CalmApply,
        CalmHealthy, NoFailure, Swapping, Applying, Recovering, WholePcs, ConvergePcs,
        Goto, binaries, staged, loop, watching, poller, history
<1>1. CASE BootClearStaleRollbackDone
  BY <1>1 DEF BootClearStaleRollbackDone, Write, TypeInv, TypeOK, IPC
<1>2. CASE BootRestoreSupervisor
  BY <1>2 DEF BootRestoreSupervisor, Jump
<1>3. CASE BootClearAgedAwaiting
  BY <1>3 DEF BootClearAgedAwaiting, Write, TypeInv, TypeOK, IPC
<1>4. CASE BootForceDualRollback
  BY <1>4 DEF BootForceDualRollback, CallRollback, Callers
<1>5. CASE BootArmWatch
  BY <1>5 DEF BootArmWatch
<1>6. CASE BootRollback
  BY <1>6 DEF BootRollback, CallRollback, Callers
<1>7. CASE BootNothingToUndo
  BY <1>7 DEF BootNothingToUndo, Jump
<1> QED
  BY <1>1, <1>2, <1>3, <1>4, <1>5, <1>6, <1>7 DEF BootCheckHealth

\* restoreSupervisorFromOld touches none of the binaries.
LEMMA RestoreCalm ==
  ASSUME CalmFaults, CalmInv, TypeInv', faults' = 0,
         Restore
  PROVE  CalmRules'
<1> USE FilesKept, BundleKept, HealthKept, Shapes, ShapesNext, NothingFails
    DEF CalmInv, CalmRules, CalmPoller, CalmBundle, CalmQuiet, CalmRollback, CalmApply,
        CalmHealthy, NoFailure, Swapping, Applying, Recovering, WholePcs, ConvergePcs,
        Goto, binaries, staged, loop, watching, poller, history
<1>1. CASE RestoreNothing
  BY <1>1 DEF RestoreNothing, Write, TypeInv, TypeOK, IPC
<1>2. CASE RestoreAside
  BY <1>2 DEF RestoreAside, Bounded, NoFault
<1>3. CASE RestoreBack
  BY <1>3 DEF RestoreBack, Bounded, NoFault
<1>4. CASE RestoreClear
  BY <1>4 DEF RestoreClear, Write, TypeInv, TypeOK, IPC
<1> QED
  BY <1>1, <1>2, <1>3, <1>4 DEF Restore

\* BootCheck's end touches none of the binaries.
LEMMA BootFinishSelfSwapCalm ==
  ASSUME CalmFaults, CalmInv, TypeInv', faults' = 0,
         BootFinishSelfSwap
  PROVE  CalmRules'
<1> USE FilesKept, BundleKept, HealthKept, Shapes, ShapesNext, NothingFails
    DEF CalmInv, CalmRules, CalmPoller, CalmBundle, CalmQuiet, CalmRollback, CalmApply,
        CalmHealthy, NoFailure, Swapping, Applying, Recovering, WholePcs, ConvergePcs,
        Goto, binaries, staged, loop, watching, poller, history
<1>1. CASE BootDropOld
  BY <1>1 DEF BootDropOld
<1>2. CASE BootDropApplied
  BY <1>2 DEF BootDropApplied, Write, TypeInv, TypeOK, IPC
<1>3. CASE BootDropOrphan
  BY <1>3 DEF BootDropOrphan, Write, TypeInv, TypeOK, IPC
<1>4. CASE ~ipc.applied /\ Jump("boot3", "boot4")
  BY <1>4 DEF Jump
<1> QED
  BY <1>1, <1>2, <1>3, <1>4 DEF BootFinishSelfSwap

\* A rollback puts the confirmed version back, binary by binary.
LEMMA RollbackCalm ==
  ASSUME CalmFaults, CalmInv, TypeInv', faults' = 0,
         Rollback
  PROVE  CalmRules'
<1> USE FilesKept, BundleKept, HealthKept, Shapes, ShapesNext, NothingFails
    DEF CalmInv, CalmRules, CalmPoller, CalmBundle, CalmQuiet, CalmRollback, CalmApply,
        CalmHealthy, NoFailure, Swapping, Applying, Recovering, WholePcs, ConvergePcs,
        Goto, binaries, staged, loop, watching, poller, history
<1>1. CASE RollbackFile
  <2>1. PICK d \in todo :
          /\ todo' = todo \ {d}
          /\ \/ prev[d] # None /\ bin' = [bin EXCEPT ![d] = prev[d]]
                /\ prev' = [prev EXCEPT ![d] = None] /\ err' = err
             \/ prev[d] = None
    BY <1>1 DEF RollbackFile
  <2>2. /\ pc = "rollback" /\ pc' = pc /\ good' = good /\ ipc' = ipc
        /\ UNCHANGED <<incoming, tar, fetching, cur, why, hp>>
    BY <1>1 DEF RollbackFile, Bounded
  <2>3. todo = Backups /\ Residue
    BY <2>2
  <2>4. prev[d] # None /\ prev[d] = good /\ d \in Dests
    BY <2>1, <2>3 DEF Backups, Residue
  <2>5. /\ bin' = [bin EXCEPT ![d] = prev[d]]
        /\ prev' = [prev EXCEPT ![d] = None] /\ err' = err
    BY <2>1, <2>4
  <2>6. Backups' = todo' /\ Residue'
    BY <2>1, <2>2, <2>3, <2>4, <2>5 DEF TypeInv, TypeOK, Backups, Residue
  <2>7. AllGood => AllGood'
    BY <2>2, <2>4, <2>5 DEF TypeInv, TypeOK, AllGood
  <2>8. IsUpgradeHealthy' = IsUpgradeHealthy /\ Whole' = Whole
    BY <2>2
  <2> QED
    BY <2>1, <2>2, <2>3, <2>5, <2>6, <2>7, <2>8
<1>2. CASE RollbackFilesDone
  <2>1. /\ pc = "rollback" /\ Backups = {} /\ AllGood /\ pc' \in {"cleanNew", "mark"}
        /\ pc' = "cleanNew" => why = "converge" /\ incoming # None
        /\ pc' = "mark" => why # "converge"
        /\ UNCHANGED <<bin, prev, good, ipc, incoming, tar, fetching, loop, hp>>
    BY <1>2, NoneAssumption DEF RollbackFilesDone, TypeInv, BundleAtHand
  <2> QED
    BY <2>1
<1>3. CASE WriteRollbackDone
  <2>1. /\ pc = "mark" /\ AllGood /\ Backups = {} /\ why \in Callers
        /\ why \notin {"converge", "brick"}
    BY <1>3 DEF WriteRollbackDone, Write, TypeInv, TypeOK, BundleAtHand
  <2>2. /\ ipc'.lastVer = ipc.lastVer /\ ipc'.marker = ipc.marker
        /\ UNCHANGED <<bin, prev, good, incoming, tar, fetching, loop, hp>>
    BY <1>3 DEF WriteRollbackDone, Write, TypeInv, TypeOK, IPC
  <2>3. pc' = AfterRollback(TRUE)
    BY <1>3 DEF WriteRollbackDone, Write
  <2>4. pc' \in {"boot2", "restoreAside", "rolledBack"} /\ (pc' = "rolledBack" <=> why = "deadline")
    BY <2>1, <2>3 DEF AfterRollback, Callers
  <2> QED
    BY <2>1, <2>2, <2>4
<1> QED
  BY <1>1, <1>2, <1>3 DEF Rollback

\* A tarball is unpacked over a clean disk.
LEMMA ExtractCalm ==
  ASSUME CalmFaults, CalmInv, TypeInv', faults' = 0, Calm,
         ExtractPendingBundle
  PROVE  CalmRules'
<1> USE FilesKept, BundleKept, HealthKept, Shapes, ShapesNext, NothingFails
    DEF CalmInv, CalmRules, CalmPoller, CalmBundle, CalmQuiet, CalmRollback, CalmApply,
        CalmHealthy, NoFailure, Swapping, Applying, Recovering, WholePcs, ConvergePcs,
        Goto, binaries, staged, loop, watching, poller, history
<1>1. CASE ExtractBegin
  <2>1. /\ pc \in {"boot2", "exit"} /\ incoming = None /\ tar # None /\ pc' = "extract"
        /\ UNCHANGED <<bin, prev, good, ipc, incoming, tar, fetching, loop, hp>>
    BY <1>1 DEF ExtractBegin, Looking, IsPending
  <2>2. ~Whole
    BY <2>1 DEF Whole
  <2> QED
    BY <2>1, <2>2
<1>2. CASE ExtractSome
  <2>1. /\ pc = "extract" /\ pc' = "extracting"
        /\ UNCHANGED <<bin, prev, good, ipc, tar, fetching, loop, hp>>
    BY <1>2 DEF ExtractSome, Bounded
  <2>2. tar \in Versions /\ tar # None /\ ~Whole
    BY <2>1, NoneAssumption DEF Whole, TypeInv, BundleAtHand, AllVersions
  <2>3. incoming' # None /\ ~Whole'
    <3>1. PICK f \in {"missing", "short"} : incoming' = [ver |-> tar, files |-> f]
      BY <1>2 DEF ExtractSome, Bounded
    <3> QED BY <2>2, <3>1, NoneAssumption DEF Bundle, Whole
  <2> QED
    BY <2>1, <2>2, <2>3
<1>3. CASE ExtractAll
  <2>1. /\ pc = "extracting" /\ pc' = "extracted"
        /\ UNCHANGED <<bin, prev, good, ipc, tar, fetching, loop, hp>>
    BY <1>3 DEF ExtractAll
  <2>2. tar \in Versions /\ tar # None /\ ~Whole
    BY <2>1, NoneAssumption DEF TypeInv, BundleAtHand, AllVersions
  <2>3. incoming' # None /\ Whole' /\ ~Short'
    BY <1>3, <2>2, NoneAssumption DEF ExtractAll, Bundle, Whole, Short
  <2> QED
    BY <2>1, <2>2, <2>3
<1>4. CASE ExtractDropTar
  <2>1. /\ pc = "extracted" /\ pc' = "rollback" /\ why' = "converge" /\ todo' = Backups
        /\ ~err' /\ \A d \in Dests : prev[d] \in {None, good}
        /\ hp = "idle" \/ (~Whole /\ Backups = {})
        /\ UNCHANGED <<bin, prev, good, ipc, incoming, fetching, hp, cur>>
    BY <1>4 DEF ExtractDropTar, CallRollback, Calm
  <2>2. Residue
    BY <2>1 DEF AllGood, Residue
  <2>3. IsUpgradeHealthy /\ (Whole => pc = "extracted") => AllGood /\ ipc.lastVer = good
    BY <2>1
  <2> QED
    BY <2>1, <2>2, <2>3
<1> QED
  BY <1>1, <1>2, <1>3, <1>4 DEF ExtractPendingBundle

\* Before a bundle is applied, what its cut short Apply left is rolled back.
LEMMA ConvergeCalm ==
  ASSUME CalmFaults, CalmInv, TypeInv', faults' = 0, Calm,
         ConvergeResidualBackups
  PROVE  CalmRules'
<1> USE FilesKept, BundleKept, HealthKept, Shapes, ShapesNext, NothingFails
    DEF CalmInv, CalmRules, CalmPoller, CalmBundle, CalmQuiet, CalmRollback, CalmApply,
        CalmHealthy, NoFailure, Swapping, Applying, Recovering, WholePcs, ConvergePcs,
        Goto, binaries, staged, loop, watching, poller, history
<1>1. CASE ApplyConverge
  <2>1. /\ pc \in {"boot2", "exit"} /\ pc' = "rollback" /\ why' = "converge"
        /\ todo' = Backups /\ ~err' /\ \A d \in Dests : prev[d] \in {None, good}
        /\ hp = "idle" \/ (~Whole /\ Backups = {})
        /\ UNCHANGED <<bin, prev, good, ipc, incoming, tar, fetching, hp, cur>>
    BY <1>1 DEF ApplyConverge, Looking, CallRollback, Calm
  <2>2. Residue
    BY <2>1 DEF AllGood, Residue
  <2> QED
    BY <2>1, <2>2
<1>2. CASE CleanNew
  BY <1>2 DEF CleanNew
<1>3. CASE CleanPending
  BY <1>3 DEF CleanPending, Write, TypeInv, TypeOK, IPC, ApplyFailed, AfterRollback,
     Callers
<1>4. CASE CleanRollbackDone
  BY <1>4 DEF CleanRollbackDone, Write, TypeInv, TypeOK, IPC
<1> QED
  BY <1>1, <1>2, <1>3, <1>4 DEF ConvergeResidualBackups

\* Apply backs the confirmed version up before it places the new one.
LEMMA ApplyBundleCalm ==
  ASSUME CalmFaults, CalmInv, TypeInv', faults' = 0,
         ApplyBundle
  PROVE  CalmRules'
<1> USE FilesKept, BundleKept, HealthKept, Shapes, ShapesNext, NothingFails
    DEF CalmInv, CalmRules, CalmPoller, CalmBundle, CalmQuiet, CalmRollback, CalmApply,
        CalmHealthy, NoFailure, Swapping, Applying, Recovering, WholePcs, ConvergePcs,
        Goto, binaries, staged, loop, watching, poller, history
<1>1. CASE VerifyAll
  <2>1. /\ pc = "verify" /\ UNCHANGED <<bin, prev, good, ipc, incoming, tar, fetching, hp>>
        /\ UNCHANGED <<cur, why, err>>
    BY <1>1 DEF VerifyAll
  <2>2. CASE Whole
    <3>1. pc' = "swap" /\ Dests \subseteq todo'
      BY <1>1, <2>2 DEF VerifyAll, Whole, Entries
    <3>2. Swapped'
      BY <2>1, <2>2, <3>1 DEF AllGood, Backups, Swapped
    <3> QED
      BY <2>1, <2>2, <3>1, <3>2
  <2>3. CASE ~Whole
    <3>1. pc' \in {"boot3", "end"} /\ todo' = todo
      BY <1>1, <2>1, <2>3, NoneAssumption DEF VerifyAll, Whole, ApplyFailed, TypeInv,
         BundleAtHand
    <3> QED
      BY <2>1, <2>3, <3>1
  <2> QED BY <2>2, <2>3
<1>2. CASE BackupDest
  <2>1. PICK d \in todo \cap Dests : cur' = d /\ prev' = [prev EXCEPT ![d] = bin[d]]
    BY <1>2 DEF BackupDest, SwapFailed
  <2>2. /\ pc = "swap" /\ pc' = "place"
        /\ UNCHANGED <<bin, good, ipc, incoming, tar, fetching, hp, todo, why, err>>
    BY <1>2 DEF BackupDest, SwapFailed, Bounded
  <2>3. prev'[cur'] = good /\ cur' \in todo' /\ Swapped'
    BY <2>1, <2>2 DEF TypeInv, TypeOK, Swapped
  <2>4. Whole' = Whole /\ Whole
    BY <2>2
  <2> QED
    BY <2>1, <2>2, <2>3, <2>4
<1>3. CASE PlaceDest
  <2>1. /\ pc = "place" /\ pc' = "swap" /\ bin' = [bin EXCEPT ![cur] = incoming.ver]
        /\ todo' = todo \ {cur}
        /\ UNCHANGED <<prev, good, ipc, incoming, tar, fetching, hp, cur, why, err>>
    BY <1>3 DEF PlaceDest, SwapFailed, Bounded
  <2>2. Swapped'
    BY <2>1 DEF TypeInv, TypeOK, Swapped
  <2>3. Whole' = Whole /\ Whole
    BY <2>1
  <2> QED
    BY <2>1, <2>2, <2>3
<1>4. CASE StageSupervisor
  <2>1. /\ pc = "swap" /\ pc' = "stage"
        /\ UNCHANGED <<bin, prev, good, ipc, incoming, tar, fetching, hp, loop>>
    BY <1>4 DEF StageSupervisor, SwapFailed, Bounded
  <2> QED
    BY <2>1, SwappedKept
<1>5. CASE StagePending
  <2>1. /\ pc = "stage" /\ pc' = "swap" /\ todo' = todo \ {Sup}
        /\ ipc'.lastVer = ipc.lastVer /\ ipc'.marker = ipc.marker
        /\ UNCHANGED <<bin, prev, good, incoming, tar, fetching, hp, cur, why, err>>
    BY <1>5 DEF StagePending, TypeInv, TypeOK, IPC
  <2>2. Swapped'
    BY <2>1, WorkerAssumption DEF Swapped
  <2> QED
    BY <2>1, <2>2
<1>6. CASE RecoverFile
  BY <1>6 DEF RecoverFile, Bounded, NoFault
<1>7. CASE pc = "undo" /\ todo = {} /\ Jump("undo", "cleanNew")
  BY <1>7 DEF Jump
<1>8. CASE todo = {} /\ Jump("swap", "metaVer")
  BY <1>8, SwappedKept DEF Jump
<1> QED
  BY <1>1, <1>2, <1>3, <1>4, <1>5, <1>6, <1>7, <1>8 DEF ApplyBundle, RecoverFailedApply

\* The installed version is recorded, the old health marker removed, the
\* bundle cleared.
LEMMA MetaCalm ==
  ASSUME CalmFaults, CalmInv, TypeInv', faults' = 0,
         ApplyNothing \/ ApplyInvalid \/ WriteUpgradeMeta \/ ClearPending
  PROVE  CalmRules'
<1> USE FilesKept, BundleKept, HealthKept, Shapes, ShapesNext, NothingFails
    DEF CalmInv, CalmRules, CalmPoller, CalmBundle, CalmQuiet, CalmRollback, CalmApply,
        CalmHealthy, NoFailure, Swapping, Applying, Recovering, WholePcs, ConvergePcs,
        Goto, binaries, staged, loop, watching, poller, history
<1>1. CASE ApplyNothing
  <2>1. /\ pc \in {"boot2", "exit"} /\ incoming = None /\ tar = None
        /\ pc' \in {"boot3", "end"}
        /\ UNCHANGED <<bin, prev, good, ipc, incoming, tar, fetching, loop, hp>>
    BY <1>1 DEF ApplyNothing, Jump, Looking, ApplyFailed, IsPending
  <2>2. ~Whole
    BY <2>1 DEF Whole
  <2> QED
    BY <2>1, <2>2
<1>2. CASE ApplyInvalid
  <2>1. /\ pc \in {"boot2", "exit"} /\ incoming # None /\ ~Whole
        /\ pc' \in {"boot3", "end"}
        /\ UNCHANGED <<bin, prev, good, ipc, incoming, tar, fetching, loop, hp>>
    BY <1>2 DEF ApplyInvalid, Jump, Looking, ApplyFailed, IsPending, Whole
  <2> QED
    BY <2>1
<1>3. CASE WriteUpgradeMeta
  <2>1. /\ pc \in {"metaVer", "metaMarker"} /\ pc' \in {"metaMarker", "clear"}
        /\ pc' = "clear" => ipc'.marker = None
        /\ UNCHANGED <<bin, prev, good, incoming, tar, fetching, loop, hp>>
    BY <1>3 DEF WriteUpgradeMeta, Write, TypeInv, TypeOK, IPC
  <2> QED
    BY <2>1, SwappedKept
<1>4. CASE ClearPending
  <2>1. /\ pc = "clear" /\ pc' \in {"boot3", "applied"} /\ incoming' = None
        /\ UNCHANGED <<bin, prev, good, ipc, tar, fetching, loop, hp>>
    BY <1>4 DEF ClearPending, ApplyDone
  <2>2. ~Whole' /\ ~Short'
    BY <2>1 DEF Whole, Short
  <2>3. ~IsUpgradeHealthy' /\ OnTrial'
    BY <2>1 DEF IsUpgradeHealthy
  <2> QED
    BY <2>1, <2>2, <2>3
<1> QED
  BY <1>1, <1>2, <1>3, <1>4

\* The self-swap touches none of the binaries; its fallback is not entered.
LEMMA SelfSwapCalm ==
  ASSUME CalmFaults, CalmInv, TypeInv', faults' = 0,
         SupervisorSelfSwap
  PROVE  CalmRules'
<1> USE FilesKept, BundleKept, HealthKept, Shapes, ShapesNext, NothingFails
    DEF CalmInv, CalmRules, CalmPoller, CalmBundle, CalmQuiet, CalmRollback, CalmApply,
        CalmHealthy, NoFailure, Swapping, Applying, Recovering, WholePcs, ConvergePcs,
        Goto, binaries, staged, loop, watching, poller, history
<1>1. CASE SmokeTest
  <2>1. /\ pc = "smoke" /\ pc' \in {"start", "smokeFailed", "aside"}
        /\ UNCHANGED <<bin, prev, good, ipc, incoming, tar, fetching, loop, hp>>
    BY <1>1 DEF SmokeTest, SelfSwapFailed
  <2> QED
    BY <2>1
<1>2. CASE SmokeTestFailed
  BY <1>2 DEF SmokeTestFailed, SelfSwapFailed, WatchAnew, TypeInv, TypeOK, IPC
<1>3. CASE RenameAside
  BY <1>3 DEF RenameAside, Bounded, NoFault, SelfSwapFailed, WatchAnew
<1>4. CASE RenameIn
  BY <1>4 DEF RenameIn, Bounded, NoFault, CallRollback, Callers
<1>5. CASE RenameBack
  BY <1>5 DEF RenameBack, Bounded, NoFault, SelfSwapFailed, WatchAnew
<1>6. CASE ResetUpgradeIPC
  BY <1>6 DEF ResetUpgradeIPC, Write, TypeInv, TypeOK, IPC, SelfSwapFailed, WatchAnew
<1>7. CASE MarkSelfSwap
  <2>1. /\ pc \in {"markApplied", "markAwaiting"} /\ pc' \in {"markAwaiting", "dropPending"}
        /\ UNCHANGED <<bin, prev, good, incoming, tar, fetching, loop, hp>>
    BY <1>7 DEF MarkSelfSwap, Write
  <2>2. ipc'.lastVer = ipc.lastVer /\ ipc'.marker = ipc.marker
    BY ONLY <1>7, CalmInv DEF MarkSelfSwap, Write, CalmInv, TypeInv, TypeOK, IPC
  <2> QED
    BY <2>1, <2>2
<1>8. CASE DropPending
  BY <1>8 DEF DropPending, TypeInv, TypeOK, IPC
<1> QED
  BY <1>1, <1>2, <1>3, <1>4, <1>5, <1>6, <1>7, <1>8 DEF SupervisorSelfSwap

\* The worker is started, watched, stopped; a rollback only if it is not
\* healthy.
LEMMA SuperviseWorkerCalm ==
  ASSUME CalmFaults, CalmInv, TypeInv', faults' = 0,
         SuperviseWorker
  PROVE  CalmRules'
<1> USE FilesKept, BundleKept, HealthKept, Shapes, ShapesNext, NothingFails
    DEF CalmInv, CalmRules, CalmPoller, CalmBundle, CalmQuiet, CalmRollback, CalmApply,
        CalmHealthy, NoFailure, Swapping, Applying, Recovering, WholePcs, ConvergePcs,
        Goto, binaries, staged, loop, watching, poller, history
<1>1. CASE StartWorker
  <2>1. /\ pc = "start" /\ pc' \in {"end", "run"} /\ hp' \in {"idle", "poll"}
        /\ UNCHANGED <<bin, prev, good, ipc, incoming, tar, fetching, loop>>
    BY <1>1 DEF StartWorker
  <2>2. ~Whole
    BY <2>1
  <2> QED
    BY <2>1, <2>2
<1>2. CASE WorkerExit
  BY <1>2 DEF WorkerExit, WorkerGone
<1>3. CASE DeadlineKill
  BY <1>3 DEF DeadlineKill, WorkerGone, WorkerExit
<1>4. CASE EndOfWorker
  BY <1>4 DEF EndOfWorker, CallRollback, Callers, Disarm, ShouldRollbackAfterDeadline
<1>5. CASE RolledBack
  BY <1>5 DEF RolledBack, Disarm, ShouldRollbackAfterDeadline
<1>6. CASE Applied
  BY <1>6 DEF Applied, SelfSwapFailed, WatchAnew
<1> QED
  BY <1>1, <1>2, <1>3, <1>4, <1>5, <1>6 DEF SuperviseWorker

\* HealthPoll deletes backups of a version that is confirmed.
LEMMA HealthPollCalm ==
  ASSUME CalmFaults, CalmInv, TypeInv', faults' = 0,
         HealthPoll
  PROVE  CalmRules'
<1> USE FilesKept, BundleKept, HealthKept, Shapes, ShapesNext, NothingFails
    DEF CalmInv, CalmRules, CalmPoller, CalmBundle, CalmQuiet, CalmRollback, CalmApply,
        CalmHealthy, NoFailure, Swapping, Applying, Recovering, WholePcs, ConvergePcs,
        Goto, binaries, staged, loop, watching, poller, history
<1>1. CASE PollHealthy
  BY <1>1 DEF PollHealthy
<1>2. CASE PollStop
  BY <1>2 DEF PollStop
<1>3. CASE CleanupPrevious
  <2>1. /\ hp = "clean" /\ hp' \in {"clean", "old"}
        /\ UNCHANGED <<bin, good, ipc, pc, incoming, tar, fetching, loop>>
    BY <1>3 DEF CleanupPrevious, Bounded
  <2>2. /\ IsUpgradeHealthy /\ pc \notin Applying \cup Recovering
        /\ pc = "rollback" => ~Whole /\ Backups = {} /\ todo = {} /\ why = "converge"
        /\ Whole => pc \in {"run", "exit", "extracted"}
    BY <2>1
  <2>5. AllGood /\ AllGood' /\ IsUpgradeHealthy' /\ Whole' = Whole
    BY <2>1, <2>2 DEF AllGood
  <2>3. Backups' \subseteq Backups
    <3>1. prev' = prev \/ \E d \in hpTodo : prev' = [prev EXCEPT ![d] = None]
      BY <1>3 DEF CleanupPrevious
    <3> QED BY <3>1, BackupsShrink DEF TypeInv
  <2>4. pc \notin {"rollback", "mark", "verify"} \cup ConvergePcs \/ Backups = {}
    BY <2>1, <2>2
  <2>6. Backups = {} => Backups' = {} /\ Residue'
    BY <2>3, <2>5 DEF AllGood, Backups, Residue
  <2> QED
    BY <2>1, <2>2, <2>3, <2>4, <2>5, <2>6
<1>4. CASE CleanupSupervisorOld
  BY <1>4 DEF CleanupSupervisorOld, Bounded, NoFault
<1>5. CASE PollConfirm
  BY <1>5 DEF PollConfirm, TypeInv, TypeOK, IPC
<1> QED
  BY <1>1, <1>2, <1>3, <1>4, <1>5 DEF HealthPoll

\* The worker confirms its version, or is sent a bundle over a clean disk.
LEMMA WorkerCallsCalm ==
  ASSUME CalmFaults, CalmInv, TypeInv', faults' = 0,
         WorkerCalls
  PROVE  CalmRules'
<1> USE FilesKept, BundleKept, HealthKept, Shapes, ShapesNext, NothingFails
    DEF CalmInv, CalmRules, CalmPoller, CalmBundle, CalmQuiet, CalmRollback, CalmApply,
        CalmHealthy, NoFailure, Swapping, Applying, Recovering, WholePcs, ConvergePcs,
        Goto, binaries, staged, loop, watching, poller, history
<1>1. CASE WriteHealthMarker
  <2>1. /\ pc = "run" /\ pc' = pc /\ ipc.marker # bin[Worker]
        /\ ipc'.marker = bin[Worker] /\ ipc'.lastVer = ipc.lastVer
        /\ good' = IF ipc.lastVer = bin[Worker] THEN bin[Worker] ELSE good
        /\ UNCHANGED <<bin, prev, incoming, tar, fetching, loop, hp>>
    BY <1>1 DEF WriteHealthMarker, TypeInv, TypeOK, IPC
  <2>2. ~IsUpgradeHealthy
    <3>1. IsUpgradeHealthy => bin[Worker] = ipc.lastVer
      BY <2>1, WorkerAssumption DEF AllGood
    <3> QED BY <2>1, <3>1 DEF IsUpgradeHealthy
  <2>3. CASE good' = good
    <3>1. IsUpgradeHealthy' => AllGood' /\ ipc'.lastVer = good'
      BY <2>1, <2>3 DEF IsUpgradeHealthy, AllGood, OnTrial
    <3> QED BY <2>1, <2>2, <2>3, <3>1
  <2>4. CASE ipc.lastVer = bin[Worker] /\ good' = bin[Worker]
    <3>1. AllGood' /\ ipc'.lastVer = good' /\ Backups' = Backups
      BY <2>1, <2>4, WorkerAssumption DEF AllGood, OnTrial, Backups
    <3>2. IsUpgradeHealthy'
      BY <2>1, <2>4, NoneAssumption DEF IsUpgradeHealthy, TypeInv, TypeOK, AllVersions
    <3> QED BY <2>1, <2>2, <2>4, <3>1, <3>2
  <2> QED BY <2>1, <2>3, <2>4
<1>2. CASE FetchPackage
  <2>1. /\ pc = "run" /\ pc' = pc
        /\ UNCHANGED <<bin, prev, good, ipc, tar, loop, hp>>
    BY <1>2 DEF FetchPackage, Sends
  <2>2. PICK v \in Versions, f \in {"missing", "short"} : incoming' = [ver |-> v, files |-> f]
    BY <1>2 DEF FetchPackage
  <2>3. ~Whole'
    BY <2>2 DEF Whole
  <2> QED
    BY <2>1, <2>3
<1>3. CASE FetchPackageDone
  BY <1>3 DEF FetchPackageDone
<1>4. CASE ApplyPackage
  BY <1>4 DEF ApplyPackage, WorkerGone, WorkerExit
<1>5. CASE AgentUpgrade
  <2>1. /\ pc = "run" /\ pc' \in {"run", "exit"}
        /\ UNCHANGED <<bin, prev, good, ipc, incoming, loop, hp>>
    BY <1>5 DEF AgentUpgrade, Sends, WorkerGone
  <2> QED
    BY <2>1
<1> QED
  BY <1>1, <1>2, <1>3, <1>4, <1>5 DEF WorkerCalls

\* Time, and power lost wherever the faults allow it.
LEMMA TimedCalm ==
  ASSUME CalmFaults, CalmInv, TypeInv', faults' = 0,
         DeadlinePasses \/ AwaitingAges \/ PowerLoss
  PROVE  CalmRules'
<1> USE FilesKept, BundleKept, HealthKept, Shapes, ShapesNext, NothingFails
    DEF CalmInv, CalmRules, CalmPoller, CalmBundle, CalmQuiet, CalmRollback, CalmApply,
        CalmHealthy, NoFailure, Swapping, Applying, Recovering, WholePcs, ConvergePcs,
        Goto, binaries, staged, loop, watching, poller, history
<1>1. CASE DeadlinePasses
  BY <1>1, SwappedKept DEF DeadlinePasses
<1>2. CASE AwaitingAges
  BY <1>2, SwappedKept DEF AwaitingAges, TypeInv, TypeOK, IPC
<1>3. CASE PowerLoss
  <2>1. /\ pc \notin {"off", "rollback"} /\ pc' = "off" /\ hp' = "idle" /\ ~fetching'
        /\ UNCHANGED <<bin, good, ipc, tar, loop>>
    BY <1>3 DEF PowerLoss, CalmFaults
  <2>2. /\ prev' = prev
        /\ \/ incoming' = incoming
           \/ pc = "clear" /\ incoming' = [incoming EXCEPT !.files = "missing"]
    BY <1>3 DEF PowerLoss, CalmFaults
  <2>3. CASE incoming' = incoming
    BY <2>1, <2>2, <2>3
  <2>4. CASE pc = "clear" /\ incoming' = [incoming EXCEPT !.files = "missing"]
    <3>1. ~Whole'
      BY <2>4 DEF Whole, TypeInv, BundleAtHand, Bundle
    <3>2. ~IsUpgradeHealthy' /\ OnTrial'
      BY <2>1, <2>2, <2>4 DEF IsUpgradeHealthy
    <3> QED
      BY <2>1, <2>4, <3>1, <3>2
  <2> QED BY <2>2, <2>3, <2>4
<1> QED
  BY <1>1, <1>2, <1>3

\* Nor does a step that changes nothing break it.
LEMMA CalmStutter ==
  ASSUME CalmRules, UNCHANGED vars
  PROVE  CalmRules'
BY FilesKept, SwappedKept, BundleKept, HealthKept
   DEF CalmRules, NoFailure, CalmPoller, CalmBundle, CalmQuiet, CalmRollback, CalmApply,
       CalmHealthy, vars, binaries, staged, loop, watching, poller, history

\* Every step but those of the two windows keeps the invariant.
LEMMA CalmStep ==
  ASSUME CalmFaults, CalmInv, faults' = 0, Calm, [Next]_vars
  PROVE  CalmInv'
<1>1. TypeInv'
  BY TypeStep DEF CalmInv
<1>2. CASE Supervisor
  BY <1>1, <1>2, BootCalm, BootCheckHealthCalm, RestoreCalm, BootFinishSelfSwapCalm,
     RollbackCalm, ExtractCalm, ConvergeCalm, ApplyBundleCalm, MetaCalm, SelfSwapCalm
     DEF Supervisor, Apply, CalmInv
<1>3. CASE SuperviseWorker
  BY <1>1, <1>3, SuperviseWorkerCalm DEF CalmInv
<1>4. CASE HealthPoll
  BY <1>1, <1>4, HealthPollCalm DEF CalmInv
<1>5. CASE WorkerCalls
  BY <1>1, <1>5, WorkerCallsCalm DEF CalmInv
<1>6. CASE DeadlinePasses \/ AwaitingAges \/ PowerLoss
  BY <1>1, <1>6, TimedCalm DEF CalmInv
<1>7. CASE UNCHANGED vars
  BY <1>1, <1>7, CalmStutter DEF CalmInv
<1> QED BY <1>2, <1>3, <1>4, <1>5, <1>6, <1>7 DEF Next

\* At first V0 is in place, confirmed, and nothing is staged.
LEMMA InitCalm ==
  ASSUME Init
  PROVE  CalmInv
<1>1. TypeInv
  BY InitTypeInv
<1>2. AllGood /\ Backups = {} /\ ~Whole /\ ~IsUpgradeHealthy
  BY DEF Init, AllGood, Backups, Whole, IsUpgradeHealthy
<1>3. CalmRules
  BY <1>2
     DEF Init, CalmRules, NoFailure, CalmPoller, CalmBundle, CalmQuiet, CalmRollback,
         CalmApply, CalmHealthy, Applying, Swapping, ConvergePcs
<1> QED BY <1>1, <1>3 DEF CalmInv

\* Where no operation fails and every Apply begins outside the two windows, the
\* invariant holds in every state.
CalmAlways == CalmInv /\ faults = 0

LEMMA Calms == ASSUME CalmFaults PROVE Spec /\ [][Calm]_vars => []CalmAlways
<1>1. Init => CalmAlways
  BY InitCalm DEF Init, CalmAlways
<1>2. CalmAlways /\ [Next]_vars /\ [Calm]_vars => CalmAlways'
  <2> SUFFICES ASSUME CalmAlways, [Next]_vars, [Calm]_vars
               PROVE  CalmAlways'
    OBVIOUS
  <2>1. faults' = 0
    BY FaultsCount DEF CalmFaults, CalmInv, CalmAlways
  <2>2. CASE Calm
    BY <2>1, <2>2, CalmStep DEF CalmAlways
  <2>3. CASE UNCHANGED vars
    BY <2>1, <2>3, TypeStep, CalmStutter DEF CalmInv, CalmAlways
  <2> QED BY <2>1, <2>2, <2>3
<1> QED BY <1>1, <1>2, PTL DEF Spec

\* No worker runs next to plugins of another version, although Apply and
\* Rollback change the binaries one by one and power may be lost in between,
\* while every Apply begins outside the two windows.
THEOREM NoMixedWorker == ASSUME CalmFaults PROVE Spec /\ [][Calm]_vars => []NoMixedRun
<1>1. CalmInv /\ pc = "run" => AllGood \/ OnTrial
  BY DEF CalmInv, CalmRules, CalmQuiet, Applying, Swapping, Recovering
<1>2. AllGood => \A d \in Dests : bin[d] = bin[Worker]
  BY WorkerAssumption DEF AllGood
<1>3. OnTrial => \A d \in Dests : bin[d] = bin[Worker]
  BY DEF OnTrial
<1>4. CalmAlways => NoMixedRun
  BY <1>1, <1>2, <1>3 DEF CalmAlways, NoMixedRun
<1> QED BY <1>4, Calms, PTL

\* A rollback can reach the last confirmed version in every state: each binary
\* of it is in place or is the backup of its successor.  The manager may send
\* anything at any time; what the theorem excludes are the two windows of Calm,
\* an Apply that begins before HealthPoll has ended or over backups older than
\* the confirmed version.
THEOREM LastGoodKept == ASSUME CalmFaults PROVE Spec /\ [][Calm]_vars => []LastGoodRecoverable
<1>1. CalmInv => Residue \/ AllGood
  BY Shapes DEF CalmInv, CalmRules, CalmQuiet, CalmRollback, CalmApply
<1>2. Residue \/ AllGood => LastGoodRecoverable
  BY DEF Residue, AllGood, LastGoodRecoverable
<1>3. CalmAlways => LastGoodRecoverable
  BY <1>1, <1>2 DEF CalmAlways
<1> QED BY <1>3, Calms, PTL

\* A health marker speaks for all binaries: when a worker runs and the recorded
\* version is marked healthy, that version is what is installed, while every
\* Apply begins outside the two windows.
THEOREM ConfirmedInstalled ==
  ASSUME CalmFaults PROVE Spec /\ [][Calm]_vars => []ConfirmedIsInstalled
<1>1. CalmAlways => ConfirmedIsInstalled
  BY DEF CalmAlways, CalmInv, CalmRules, CalmHealthy, AllGood, ConfirmedIsInstalled
<1> QED BY <1>1, Calms, PTL

-----------------------------------------------------------------------------
(* The machine implements its contract, when power is not lost between two *)
(* binaries of an Apply: what is installed is then one version.            *)

ContractFaults == CrashFaults /\ CrashAt \cap Swapping = {}

\* While a set of binaries is being replaced.
Changing == Swapping \cup {"rollback"}

\* Outside an Apply and a rollback all binaries are of one version, and those a
\* rollback has still to restore are.
OneVersion ==
  /\ pc \notin Changing => \A d \in Dests : bin[d] = bin[Worker]
  /\ pc = "rollback" => \A d, e \in Backups : bin[d] = bin[e]

ContractInv == NothingFailedInv /\ OneVersion

\* What the refinement mapping reads, as long as it is one version.
ReadsOneVersion ==
  /\ pc \notin Changing => Installed = bin[Worker]
  /\ pc \in Swapping /\ Swapped =>
       Installed = IF todo \cap Dests = {} THEN incoming.ver ELSE good
  /\ pc = "rollback" /\ Backups = {} => Installed = bin[Worker]
  /\ pc = "rollback" /\ OneVersion => \A d \in Backups : Installed = bin[d]

\* The mapping's CHOOSE does not matter, in a state and in the next one.
LEMMA InstalledIs == ReadsOneVersion
<1> USE DEF ReadsOneVersion, Changing, Swapping
<1>1. CASE pc \notin Changing
  BY <1>1 DEF Installed, Unchanged
<1>2. CASE pc \in Swapping
  <2>1. Unchanged = todo \cap Dests
    BY <1>2 DEF Unchanged
  <2>2. CASE Unchanged = {}
    BY <1>2, <2>1, <2>2, WorkerAssumption DEF Installed, Swapped
  <2>3. CASE Unchanged # {}
    <3>1. (CHOOSE d \in Unchanged : TRUE) \in Unchanged
      BY <2>3
    <3> QED
      BY <1>2, <2>1, <2>3, <3>1 DEF Installed, Swapped
  <2> QED BY <2>2, <2>3
<1>3. CASE pc = "rollback"
  <2>1. Unchanged = Backups
    BY <1>3 DEF Unchanged
  <2>2. CASE Backups = {}
    BY <1>3, <2>1, <2>2 DEF Installed
  <2>3. CASE Backups # {}
    <3>1. (CHOOSE d \in Unchanged : TRUE) \in Backups
      BY <2>1, <2>3
    <3> QED
      BY <1>3, <2>1, <2>3, <3>1 DEF Installed, OneVersion
  <2> QED BY <2>2, <2>3
<1> QED BY <1>1, <1>2, <1>3

LEMMA InstalledNext == ReadsOneVersion'
BY InstalledIs, PTL

\* The kinds of step, as far as the installation goes: one aside from it, one
\* during it, a rollback called and returned from, an Apply's first binary, the
\* steps between two of them, its end, a confirmation.
Aside == UNCHANGED <<bin, good>> /\ pc \notin Changing /\ pc' \notin Changing
Meanwhile ==
  /\ UNCHANGED <<bin, good, pc, todo, incoming>> /\ pc \in Changing
  /\ Backups' = Backups
CallsRollback ==
  /\ UNCHANGED <<bin, prev, good>>
  /\ pc \notin Changing \cup {"run"} /\ pc' = "rollback"
Returns ==
  /\ UNCHANGED <<bin, prev, good>> /\ pc = "rollback" /\ todo = {}
  /\ pc' \notin Changing \cup {"run"}
BeginsSwap ==
  /\ UNCHANGED <<bin, good>> /\ pc = "verify" /\ pc' = "swap"
  /\ Whole /\ Dests \subseteq todo'
WithinSwap ==
  /\ UNCHANGED <<bin, good, incoming>> /\ pc \in Swapping /\ pc' \in Swapping
  /\ todo' \cap Dests = todo \cap Dests
EndsSwap ==
  /\ UNCHANGED <<bin, prev, good>> /\ pc = "swap" /\ todo = {} /\ pc' = "metaVer"
Confirms ==
  /\ bin' = bin /\ pc = "run" /\ pc' = "run" /\ good' = bin[Worker]

StepKind ==
  \/ Aside \/ Meanwhile \/ CallsRollback \/ RollbackFile \/ Returns
  \/ BeginsSwap \/ WithinSwap \/ PlaceDest \/ EndsSwap \/ Confirms

\* The kinds of step of the service starts, the brick guard, a pending self-swap.
LEMMA BootKind ==
  ASSUME ContractFaults, InstallInv, faults' = 0,
         Boot \/ BootUnbrick \/ BootSelfSwap
  PROVE  StepKind
<1> USE FilesKept, NothingFails
    DEF ContractFaults, CrashFaults, InstallInv, StagingInv, StepKind, Aside, Meanwhile,
        Swapping, Changing, Goto, binaries, staged, loop, watching, poller, history
<1>1. CASE Boot
  BY <1>1 DEF Boot
<1>2. CASE BootUnbrick
  BY <1>2 DEF BootUnbrick, Bounded, NoFault
<1>3. CASE BootSelfSwap
  BY <1>3 DEF BootSelfSwap, Jump
<1> QED
  BY <1>1, <1>2, <1>3

\* The kinds of step of BootCheck's health check.
LEMMA BootCheckHealthKind ==
  ASSUME ContractFaults, InstallInv, faults' = 0,
         BootCheckHealth
  PROVE  StepKind
<1> USE FilesKept, NothingFails
    DEF ContractFaults, CrashFaults, InstallInv, StagingInv, StepKind, Aside, Meanwhile,
        Swapping, Changing, Goto, binaries, staged, loop, watching, poller, history
<1>1. CASE BootClearStaleRollbackDone
  BY <1>1 DEF BootClearStaleRollbackDone, Write
<1>2. CASE BootRestoreSupervisor
  BY <1>2 DEF BootRestoreSupervisor, Jump
<1>3. CASE BootClearAgedAwaiting
  BY <1>3 DEF BootClearAgedAwaiting, Write
<1>4. CASE BootForceDualRollback
  BY <1>4 DEF BootForceDualRollback, CallRollback, CallsRollback
<1>5. CASE BootArmWatch
  BY <1>5 DEF BootArmWatch
<1>6. CASE BootRollback
  BY <1>6 DEF BootRollback, CallRollback, CallsRollback
<1>7. CASE BootNothingToUndo
  BY <1>7 DEF BootNothingToUndo, Jump
<1> QED
  BY <1>1, <1>2, <1>3, <1>4, <1>5, <1>6, <1>7 DEF BootCheckHealth

\* The kinds of step of restoreSupervisorFromOld.
LEMMA RestoreKind ==
  ASSUME ContractFaults, InstallInv, faults' = 0,
         Restore
  PROVE  StepKind
<1> USE FilesKept, NothingFails
    DEF ContractFaults, CrashFaults, InstallInv, StagingInv, StepKind, Aside, Meanwhile,
        Swapping, Changing, Goto, binaries, staged, loop, watching, poller, history
<1>1. CASE RestoreNothing
  BY <1>1 DEF RestoreNothing, Write
<1>2. CASE RestoreAside
  BY <1>2 DEF RestoreAside, Bounded, NoFault
<1>3. CASE RestoreBack
  BY <1>3 DEF RestoreBack, Bounded, NoFault
<1>4. CASE RestoreClear
  BY <1>4 DEF RestoreClear, Write
<1> QED
  BY <1>1, <1>2, <1>3, <1>4 DEF Restore

\* The kinds of step of BootCheck's end.
LEMMA BootFinishSelfSwapKind ==
  ASSUME ContractFaults, InstallInv, faults' = 0,
         BootFinishSelfSwap
  PROVE  StepKind
<1> USE FilesKept, NothingFails
    DEF ContractFaults, CrashFaults, InstallInv, StagingInv, StepKind, Aside, Meanwhile,
        Swapping, Changing, Goto, binaries, staged, loop, watching, poller, history
<1>1. CASE BootDropOld
  BY <1>1 DEF BootDropOld
<1>2. CASE BootDropApplied
  BY <1>2 DEF BootDropApplied, Write
<1>3. CASE BootDropOrphan
  BY <1>3 DEF BootDropOrphan, Write
<1>4. CASE ~ipc.applied /\ Jump("boot3", "boot4")
  BY <1>4 DEF Jump
<1> QED
  BY <1>1, <1>2, <1>3, <1>4 DEF BootFinishSelfSwap

\* The kinds of step of Rollback, restoring, and returning.
LEMMA RollbackKind ==
  ASSUME ContractFaults, InstallInv, faults' = 0,
         Rollback
  PROVE  StepKind
<1> USE FilesKept, NothingFails
    DEF ContractFaults, CrashFaults, InstallInv, StagingInv, StepKind, Aside, Meanwhile,
        Swapping, Changing, Goto, binaries, staged, loop, watching, poller, history
<1>1. CASE RollbackFile
  BY <1>1
<1>2. CASE RollbackFilesDone
  <2>1. ~err
    BY DEF StagingRules, NoFailure
  <2> QED
    BY <1>2, <2>1 DEF RollbackFilesDone, Returns
<1>3. CASE WriteRollbackDone
  <2>1. pc' \notin Changing
    BY <1>3 DEF WriteRollbackDone, Write, AfterRollback, TypeInv, TypeOK, Callers
  <2> QED
    BY <1>3, <2>1 DEF WriteRollbackDone, Write
<1> QED
  BY <1>1, <1>2, <1>3 DEF Rollback

\* The kinds of step of ExtractPendingBundle.
LEMMA ExtractKind ==
  ASSUME ContractFaults, InstallInv, faults' = 0,
         ExtractPendingBundle
  PROVE  StepKind
<1> USE FilesKept, NothingFails
    DEF ContractFaults, CrashFaults, InstallInv, StagingInv, StepKind, Aside, Meanwhile,
        Swapping, Changing, Goto, binaries, staged, loop, watching, poller, history
<1>1. CASE ExtractBegin
  BY <1>1 DEF ExtractBegin, Looking
<1>2. CASE ExtractSome
  BY <1>2 DEF ExtractSome, Bounded, NoFault, ApplyFailed
<1>3. CASE ExtractAll
  BY <1>3 DEF ExtractAll
<1>4. CASE ExtractDropTar
  BY <1>4 DEF ExtractDropTar, CallRollback, CallsRollback
<1> QED
  BY <1>1, <1>2, <1>3, <1>4 DEF ExtractPendingBundle

\* The kinds of step of ConvergeResidualBackups.
LEMMA ConvergeKind ==
  ASSUME ContractFaults, InstallInv, faults' = 0,
         ConvergeResidualBackups
  PROVE  StepKind
<1> USE FilesKept, NothingFails
    DEF ContractFaults, CrashFaults, InstallInv, StagingInv, StepKind, Aside, Meanwhile,
        Swapping, Changing, Goto, binaries, staged, loop, watching, poller, history
<1>1. CASE ApplyConverge
  BY <1>1 DEF ApplyConverge, Looking, CallRollback, CallsRollback
<1>2. CASE CleanNew
  BY <1>2 DEF CleanNew
<1>3. CASE CleanPending
  BY <1>3 DEF CleanPending, Write, ApplyFailed
<1>4. CASE CleanRollbackDone
  BY <1>4 DEF CleanRollbackDone, Write
<1> QED
  BY <1>1, <1>2, <1>3, <1>4 DEF ConvergeResidualBackups

\* The kinds of step of Apply, up to the last binary.
LEMMA ApplyBundleKind ==
  ASSUME ContractFaults, InstallInv, faults' = 0,
         ApplyBundle
  PROVE  StepKind
<1> USE FilesKept, NothingFails
    DEF ContractFaults, CrashFaults, InstallInv, StagingInv, StepKind, Aside, Meanwhile,
        Swapping, Changing, Goto, binaries, staged, loop, watching, poller, history
<1>1. CASE VerifyAll
  <2>1. CASE incoming.files = "whole"
    <3>1. incoming # None
      BY <1>1, NoneAssumption DEF VerifyAll, TypeInv, BundleAtHand
    <3> QED
      BY <1>1, <2>1, <3>1 DEF VerifyAll, Entries, Whole, BeginsSwap
  <2>2. CASE incoming.files # "whole"
    BY <1>1, <2>2 DEF VerifyAll, ApplyFailed
  <2> QED BY <2>1, <2>2
<1>2. CASE BackupDest
  BY <1>2 DEF BackupDest, SwapFailed, Bounded, WithinSwap
<1>3. CASE PlaceDest
  BY <1>3
<1>4. CASE StageSupervisor
  BY <1>4 DEF StageSupervisor, SwapFailed, Bounded, WithinSwap
<1>5. CASE StagePending
  BY <1>5, WorkerAssumption DEF StagePending, WithinSwap
<1>6. CASE RecoverFile
  BY <1>6 DEF RecoverFile, StagingRules, NoFailure
<1>7. CASE pc = "undo" /\ todo = {} /\ Jump("undo", "cleanNew")
  BY <1>7 DEF Jump
<1>8. CASE todo = {} /\ Jump("swap", "metaVer")
  BY <1>8 DEF Jump, EndsSwap
<1> QED
  BY <1>1, <1>2, <1>3, <1>4, <1>5, <1>6, <1>7, <1>8 DEF ApplyBundle, RecoverFailedApply

\* The kinds of step of WriteUpgradeMeta and ClearPending.
LEMMA MetaKind ==
  ASSUME ContractFaults, InstallInv, faults' = 0,
         ApplyNothing \/ ApplyInvalid \/ WriteUpgradeMeta \/ ClearPending
  PROVE  StepKind
<1> USE FilesKept, NothingFails
    DEF ContractFaults, CrashFaults, InstallInv, StagingInv, StepKind, Aside, Meanwhile,
        Swapping, Changing, Goto, binaries, staged, loop, watching, poller, history
<1>1. CASE ApplyNothing
  BY <1>1 DEF ApplyNothing, Jump, Looking, ApplyFailed, IsPending
<1>2. CASE ApplyInvalid
  BY <1>2 DEF ApplyInvalid, Jump, Looking, ApplyFailed, IsPending
<1>3. CASE WriteUpgradeMeta
  BY <1>3 DEF WriteUpgradeMeta, Write
<1>4. CASE ClearPending
  BY <1>4 DEF ClearPending, ApplyDone
<1> QED
  BY <1>1, <1>2, <1>3, <1>4

\* The kinds of step of SupervisorSelfSwap.
LEMMA SelfSwapKind ==
  ASSUME ContractFaults, InstallInv, faults' = 0,
         SupervisorSelfSwap
  PROVE  StepKind
<1> USE FilesKept, NothingFails
    DEF ContractFaults, CrashFaults, InstallInv, StagingInv, StepKind, Aside, Meanwhile,
        Swapping, Changing, Goto, binaries, staged, loop, watching, poller, history
<1>1. CASE SmokeTest
  BY <1>1 DEF SmokeTest, SelfSwapFailed
<1>2. CASE SmokeTestFailed
  BY <1>2 DEF SmokeTestFailed, SelfSwapFailed, WatchAnew
<1>3. CASE RenameAside
  BY <1>3 DEF RenameAside, Bounded, NoFault, SelfSwapFailed, WatchAnew
<1>4. CASE RenameIn
  BY <1>4 DEF RenameIn, CallRollback, CallsRollback, Bounded
<1>5. CASE RenameBack
  BY <1>5 DEF RenameBack, Bounded, NoFault, SelfSwapFailed, WatchAnew
<1>6. CASE ResetUpgradeIPC
  BY <1>6 DEF ResetUpgradeIPC, Write, SelfSwapFailed, WatchAnew
<1>7. CASE MarkSelfSwap
  BY <1>7 DEF MarkSelfSwap, Write
<1>8. CASE DropPending
  BY <1>8 DEF DropPending
<1> QED
  BY <1>1, <1>2, <1>3, <1>4, <1>5, <1>6, <1>7, <1>8 DEF SupervisorSelfSwap

\* The kinds of step of superviseWorker and runWorkerOnce.
LEMMA SuperviseWorkerKind ==
  ASSUME ContractFaults, InstallInv, faults' = 0,
         SuperviseWorker
  PROVE  StepKind
<1> USE FilesKept, NothingFails
    DEF ContractFaults, CrashFaults, InstallInv, StagingInv, StepKind, Aside, Meanwhile,
        Swapping, Changing, Goto, binaries, staged, loop, watching, poller, history
<1>1. CASE StartWorker
  BY <1>1 DEF StartWorker
<1>2. CASE WorkerExit
  BY <1>2 DEF WorkerExit, WorkerGone
<1>3. CASE DeadlineKill
  BY <1>3 DEF DeadlineKill, WorkerGone, WorkerExit
<1>4. CASE EndOfWorker
  BY <1>4 DEF EndOfWorker, CallRollback, CallsRollback
<1>5. CASE RolledBack
  BY <1>5 DEF RolledBack, Disarm, ShouldRollbackAfterDeadline
<1>6. CASE Applied
  BY <1>6 DEF Applied, SelfSwapFailed, WatchAnew
<1> QED
  BY <1>1, <1>2, <1>3, <1>4, <1>5, <1>6 DEF SuperviseWorker

\* The kinds of step of HealthPoll.
LEMMA HealthPollKind ==
  ASSUME ContractFaults, InstallInv, faults' = 0,
         HealthPoll
  PROVE  StepKind
<1> USE FilesKept, NothingFails
    DEF ContractFaults, CrashFaults, InstallInv, StagingInv, StepKind, Aside, Meanwhile,
        Swapping, Changing, Goto, binaries, staged, loop, watching, poller, history
<1>1. CASE PollHealthy
  BY <1>1 DEF PollHealthy
<1>2. CASE PollStop
  BY <1>2 DEF PollStop
<1>3. CASE CleanupPrevious
  <2>1. hp = "clean" /\ IsUpgradeHealthy /\ ~Whole
    BY <1>3 DEF CleanupPrevious, StagingRules, PollerWaits
  <2>2. CASE pc = "rollback"
    <3>1. Backups = {}
      BY <2>1, <2>2 DEF InstallRules, RollbackFiles
    <3>2. prev' = prev \/ \E d \in hpTodo : prev' = [prev EXCEPT ![d] = None]
      BY <1>3 DEF CleanupPrevious
    <3>3. Backups' = {}
      BY <3>1, <3>2, BackupsShrink DEF TypeInv
    <3> QED
      BY <1>3, <2>2, <3>1, <3>3 DEF CleanupPrevious, Bounded
  <2>3. CASE pc # "rollback"
    <3>1. pc \notin Swapping
      BY <2>1 DEF InstallRules, ApplyFiles, Applying
    <3> QED
      BY <1>3, <2>3, <3>1 DEF CleanupPrevious, Bounded
  <2> QED BY <2>2, <2>3
<1>4. CASE CleanupSupervisorOld
  BY <1>4 DEF CleanupSupervisorOld, Bounded, NoFault
<1>5. CASE PollConfirm
  BY <1>5 DEF PollConfirm
<1> QED
  BY <1>1, <1>2, <1>3, <1>4, <1>5 DEF HealthPoll

\* The kinds of step of the worker's calls.
LEMMA WorkerCallsKind ==
  ASSUME ContractFaults, InstallInv, faults' = 0,
         WorkerCalls
  PROVE  StepKind
<1> USE FilesKept, NothingFails
    DEF ContractFaults, CrashFaults, InstallInv, StagingInv, StepKind, Aside, Meanwhile,
        Swapping, Changing, Goto, binaries, staged, loop, watching, poller, history
<1>1. CASE WriteHealthMarker
  BY <1>1 DEF WriteHealthMarker, Confirms
<1>2. CASE FetchPackage
  BY <1>2 DEF FetchPackage, Sends, Settled, IsPending
<1>3. CASE FetchPackageDone
  BY <1>3 DEF FetchPackageDone
<1>4. CASE ApplyPackage
  BY <1>4 DEF ApplyPackage, WorkerGone, WorkerExit, IsPending
<1>5. CASE AgentUpgrade
  BY <1>5 DEF AgentUpgrade, WorkerGone, Sends, Settled, IsPending
<1> QED
  BY <1>1, <1>2, <1>3, <1>4, <1>5 DEF WorkerCalls

\* The kinds of step of time and power.
LEMMA TimedKind ==
  ASSUME ContractFaults, InstallInv, faults' = 0,
         DeadlinePasses \/ AwaitingAges \/ PowerLoss
  PROVE  StepKind
<1> USE FilesKept, NothingFails
    DEF ContractFaults, CrashFaults, InstallInv, StagingInv, StepKind, Aside, Meanwhile,
        Swapping, Changing, Goto, binaries, staged, loop, watching, poller, history
<1>1. CASE DeadlinePasses
  BY <1>1 DEF DeadlinePasses
<1>2. CASE AwaitingAges
  BY <1>2 DEF AwaitingAges
<1>3. CASE PowerLoss
  BY <1>3 DEF PowerLoss, CrashPoints
<1> QED
  BY <1>1, <1>2, <1>3

\* Every step is of one of these kinds.
LEMMA EveryKind ==
  ASSUME ContractFaults, InstallInv, faults' = 0, Next
  PROVE  StepKind
BY BootKind, BootCheckHealthKind, RestoreKind, BootFinishSelfSwapKind, RollbackKind,
   ExtractKind, ConvergeKind, ApplyBundleKind, MetaKind, SelfSwapKind,
   SuperviseWorkerKind, HealthPollKind, WorkerCallsKind, TimedKind
   DEF Next, Supervisor, Apply

\* A step of any kind is a step of the contract, and leaves one version installed.
LEMMA KindImplements ==
  ASSUME InstallInv, OneVersion, InstallInv', StepKind
  PROVE  OneVersion' /\ [Contract!Next]_Contract!vars
<1> USE InstalledIs, InstalledNext DEF ReadsOneVersion, Changing, Swapping
<1>1. CASE Aside
  <2>1. Installed' = Installed /\ OneVersion'
    BY <1>1 DEF Aside, OneVersion
  <2> QED
    BY <1>1, <2>1 DEF Aside, Contract!Next, Contract!StartOrStop, Contract!vars
<1>2. CASE Meanwhile
  <2>1. Installed' = Installed
    BY <1>2 DEF Meanwhile, Installed, Unchanged
  <2>2. OneVersion'
    BY <1>2 DEF Meanwhile, OneVersion
  <2> QED
    BY <1>2, <2>1, <2>2 DEF Meanwhile, Contract!vars
<1>3. CASE CallsRollback
  <2>1. OneVersion' /\ \A d \in Backups' : bin'[d] = bin[Worker]
    BY <1>3 DEF CallsRollback, OneVersion, Backups
  <2>2. Installed' = Installed
    BY <1>3, <2>1 DEF CallsRollback
  <2> QED
    BY <1>3, <2>1, <2>2 DEF CallsRollback, Contract!vars
<1>4. CASE RollbackFile
  <2>1. PICK d \in todo :
          /\ todo' = todo \ {d}
          /\ \/ bin' = [bin EXCEPT ![d] = prev[d]]
             \/ bin' = bin
    BY <1>4 DEF RollbackFile
  <2>2. pc = "rollback" /\ pc' = "rollback" /\ good' = good
    BY <1>4 DEF RollbackFile, Bounded
  <2>3. todo = Backups /\ todo' = Backups' /\ (Backups' = {} => AllGood')
    BY <2>2, ShapesNext DEF InstallInv, StagingInv, InstallRules, RollbackFiles
  <2>4. d \in Backups /\ Backups' = Backups \ {d} /\ d \in Dests
    BY <2>1, <2>3 DEF Backups
  <2>5. \A e \in Backups : Installed = bin[e]
    BY <2>2
  <2>6. \A e \in Backups' : bin'[e] = bin[e]
    BY <2>1, <2>4 DEF InstallInv, StagingInv, TypeInv, TypeOK, Backups
  <2>7. OneVersion' /\ (Backups' # {} => Installed' = Installed)
    BY <2>2, <2>4, <2>5, <2>6 DEF OneVersion
  <2>8. CASE Backups' # {}
    BY <2>2, <2>7, <2>8 DEF Contract!vars
  <2>9. CASE Backups' = {}
    BY <2>2, <2>3, <2>7, <2>9, WorkerAssumption
       DEF AllGood, Contract!Next, Contract!Revert
  <2> QED BY <2>7, <2>8, <2>9
<1>5. CASE Returns
  <2>1. Backups = {} /\ AllGood
    BY <1>5, Shapes DEF Returns, InstallInv, StagingInv, InstallRules, RollbackFiles
  <2>2. Installed' = Installed /\ OneVersion'
    BY <1>5, <2>1, WorkerAssumption DEF Returns, AllGood, OneVersion
  <2> QED
    BY <1>5, <2>2 DEF Returns, Contract!vars
<1>6. CASE BeginsSwap
  <2>1. AllGood /\ Swapped'
    BY <1>6 DEF BeginsSwap, InstallInv, InstallRules, QuietFiles, ApplyFiles, Applying,
       Recovering
  <2>2. Installed = good /\ Installed' = good' /\ OneVersion'
    BY <1>6, <2>1, WorkerAssumption DEF BeginsSwap, AllGood, OneVersion
  <2> QED
    BY <1>6, <2>2 DEF BeginsSwap, Contract!vars
<1>7. CASE WithinSwap
  <2>1. Swapped /\ Swapped'
    BY <1>7 DEF WithinSwap, InstallInv, InstallRules, ApplyFiles, Applying
  <2>2. Installed' = Installed /\ OneVersion'
    BY <1>7, <2>1 DEF WithinSwap, OneVersion
  <2> QED
    BY <1>7, <2>2 DEF WithinSwap, Contract!vars
<1>8. CASE PlaceDest
  <2>1. /\ pc = "place" /\ pc' \in {"swap", "undo"} /\ good' = good
        /\ incoming' = incoming
    BY <1>8 DEF PlaceDest, SwapFailed, Bounded, Goto, staged
  <2>2. pc' = "swap"
    BY <2>1 DEF InstallInv, StagingInv, StagingRules, NoFailure
  <2>3. Swapped /\ Swapped' /\ cur \in todo \cap Dests /\ incoming.ver \in Versions
    BY <2>1, <2>2 DEF InstallInv, StagingInv, InstallRules, ApplyFiles, Applying, TypeInv,
       TypeOK, BundleAtHand, Bundle
  <2>4. Installed = good /\ Installed' \in {good, incoming.ver} /\ OneVersion'
    BY <2>1, <2>2, <2>3 DEF OneVersion
  <2> QED
    BY <2>1, <2>2, <2>3, <2>4 DEF Contract!Next, Contract!Install, Contract!vars
<1>9. CASE EndsSwap
  <2>1. Swapped /\ OnTrial
    BY <1>9, Shapes DEF EndsSwap, InstallInv, StagingInv, InstallRules, ApplyFiles,
       Applying
  <2>2. Installed = incoming.ver /\ bin[Worker] = incoming.ver
    BY <1>9, <2>1, WorkerAssumption DEF EndsSwap, Swapped
  <2>3. Installed' = Installed /\ OneVersion'
    BY <1>9, <2>1, <2>2 DEF EndsSwap, OneVersion, OnTrial
  <2> QED
    BY <1>9, <2>3 DEF EndsSwap, Contract!vars
<1>10. CASE Confirms
  <2>1. Installed' = Installed /\ Installed = bin[Worker] /\ OneVersion'
    BY <1>10 DEF Confirms, OneVersion
  <2> QED
    BY <1>10, <2>1 DEF Confirms, Contract!Next, Contract!Confirm
<1> QED
  BY <1>1, <1>2, <1>3, <1>4, <1>5, <1>6, <1>7, <1>8, <1>9, <1>10 DEF StepKind

\* Every step of the machine is a step of the contract or leaves it as it is.
LEMMA ContractStep ==
  ASSUME ContractFaults, ContractInv, [Next]_vars
  PROVE  ContractInv' /\ [Contract!Next]_Contract!vars
<1>1. InstallInv' /\ faults' = 0
  BY FaultsCount, InstallStep DEF ContractFaults, CrashFaults, ContractInv, NothingFailedInv,
     InstallInv, StagingInv
<1>2. CASE Next
  BY <1>1, <1>2, EveryKind, KindImplements DEF ContractInv, NothingFailedInv
<1>3. CASE UNCHANGED vars
  <2>1. UNCHANGED <<bin, prev, pc, todo, good>>
    BY <1>3 DEF vars, binaries, loop, history
  <2>2. Backups' = Backups
    BY <2>1 DEF Backups
  <2>3. Installed' = Installed /\ OneVersion'
    BY <2>1, <2>2 DEF Installed, Unchanged, ContractInv, OneVersion
  <2> QED
    BY <1>1, <2>1, <2>3 DEF ContractInv, NothingFailedInv, Contract!vars
<1> QED BY <1>2, <1>3

\* The machine implements its contract: the binaries change as a set and only
\* while no worker runs; a bundle goes in over a confirmed version only, and an
\* unconfirmed one can only be undone (BootCheck, Apply, Rollback, HealthPoll).
THEOREM MachineImplementsContract ==
  ASSUME ContractFaults PROVE Spec => ImplementsContract
<1>1. Init => ContractInv /\ Contract!Init
  <2> SUFFICES ASSUME Init PROVE ContractInv /\ Contract!Init
    OBVIOUS
  <2>1. Installed = V0 /\ OneVersion
    BY InstalledIs, WorkerAssumption
       DEF Init, ReadsOneVersion, OneVersion, Changing, Swapping
  <2> QED
    BY <2>1, InitInstall DEF Init, ContractInv, NothingFailedInv, Contract!Init
<1>2. ContractInv /\ [Next]_vars => ContractInv' /\ [Contract!Next]_Contract!vars
  BY ContractStep
<1> QED BY <1>1, <1>2, PTL DEF Spec, ImplementsContract, Contract!Spec

=============================================================================
