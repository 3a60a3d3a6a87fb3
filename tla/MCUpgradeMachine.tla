-------------------------- MODULE MCUpgradeMachine --------------------------
EXTENDS UpgradeRefinement
\* The crash points of a run that allows a power loss anywhere.
Anywhere == Pcs
InRun == {"run"}
Nowhere == {}
=============================================================================
