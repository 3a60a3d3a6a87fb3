------------------------- MODULE UpgradeRefinement -------------------------
(***************************************************************************)
(* UpgradeMachine implements UpgradeContract.                              *)
(*                                                                         *)
(* ApplyBundle and Rollback change the binaries one by one.  The           *)
(* installed version changes with the last of them: until then it is the   *)
(* version of a binary that the operation has still to change.             *)
(***************************************************************************)
EXTENDS UpgradeMachine

\* The binaries the operation at hand has still to change.
Unchanged ==
  CASE pc \in {"swap", "place", "stage"} -> todo \cap Dests
    [] pc = "rollback" -> Backups
    [] pc \notin {"swap", "place", "stage", "rollback"} -> {}

Installed ==
  IF Unchanged = {} THEN bin[Worker] ELSE bin[CHOOSE d \in Unchanged : TRUE]

Contract == INSTANCE UpgradeContract
              WITH current <- Installed, running <- (pc = "run")

\* Every behaviour of the machine is one the contract allows: binaries change
\* only as a set and while the worker is down, a bundle goes in over a confirmed
\* version only, an unconfirmed one can only be undone.
ImplementsContract == Contract!Spec
=============================================================================
