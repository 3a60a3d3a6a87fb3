--------------------------- MODULE MCAlertPipeline ---------------------------
(* Instances of AlertPipeline for TLC.                                       *)
EXTENDS AlertPipeline
=============================================================================
