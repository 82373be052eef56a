--------------------------- MODULE MCNodeLifecycle ---------------------------
(* Instances for TLC.                                                        *)
EXTENDS NodeLifecycle
=============================================================================
