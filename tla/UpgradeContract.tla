-------------------------- MODULE UpgradeContract --------------------------
(***************************************************************************)
(* What the upgrade machine promises of the set of binaries it installs,   *)
(* the worker and its plugins, taken as one.                               *)
(*                                                                         *)
(* An installation changes as a whole and only while the worker is down.   *)
(* A new version goes in only over the last one confirmed healthy, and     *)
(* from a version that is not confirmed the only way is back.              *)
(***************************************************************************)
CONSTANTS V0, Versions

VARIABLES
  current,  \* the version installed
  good,     \* the last version confirmed healthy
  running   \* the worker runs

vars == <<current, good, running>>

Init == current = V0 /\ good = V0 /\ running = FALSE

StartOrStop == running' = ~running /\ UNCHANGED <<current, good>>

Install ==
  /\ ~running /\ ~running'
  /\ current = good /\ current' \in Versions
  /\ UNCHANGED good

Revert ==
  /\ ~running /\ ~running'
  /\ current' = good
  /\ UNCHANGED good

Confirm == running /\ running' /\ good' = current /\ UNCHANGED current

Next == StartOrStop \/ Install \/ Revert \/ Confirm

Spec == Init /\ [][Next]_vars
=============================================================================
