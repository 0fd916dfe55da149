----------------------------- MODULE MCHandles -----------------------------
(* Three threads on one open root and one that may be opened later. *)
EXTENDS Handles, TLC

CONSTANTS p1, p2, p3

MCProcs == {p1, p2, p3}
=============================================================================
