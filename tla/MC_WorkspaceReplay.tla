-------------------------- MODULE MC_WorkspaceReplay --------------------------
(***************************************************************************)
(* The arena and its observer for TLC: blocks of a few bytes in a 5-bit    *)
(* size_t, so that rounding up and padding overflow within reach.          *)
(***************************************************************************)
EXTENDS WorkspaceReplay
=============================================================================
