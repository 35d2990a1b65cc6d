------------------------------- MODULE MCCapture -------------------------------
(* Capture for TLC.  A capture with an incomplete scan and a stopped        *)
(* recorder is checked, but not followed further: all properties except one *)
(* of the two, apart from SpikesAgree and RewindAgrees, which hold of any   *)
(* list of events in order and are met with on either.                      *)
EXTENDS Capture

Relevant == faults # {"scan", "stop"}
=============================================================================
