---------------------------- MODULE MCApiHandlers ----------------------------
(* The handlers need no instance beyond the value standing for "absent". *)
EXTENDS ApiHandlers, TLC
=============================================================================
