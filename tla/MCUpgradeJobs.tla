---------------------------- MODULE MCUpgradeJobs ----------------------------
(* Instances of UpgradeJobs for TLC: edges and jobs are small numbers, users *)
(* and versions model values.                                                *)
EXTENDS UpgradeJobs

CONSTANTS v1, v2, none, ua, ub
=============================================================================
