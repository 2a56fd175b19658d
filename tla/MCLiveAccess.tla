---------------------------- MODULE MCLiveAccess ----------------------------
(* Instances of LiveAccess for TLC.                                        *)
EXTENDS LiveAccess
=============================================================================
