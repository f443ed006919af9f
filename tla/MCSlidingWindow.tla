-------------------------- MODULE MCSlidingWindow ---------------------------
(***************************************************************************)
(* Small instances of SlidingWindow.  Requests are interchangeable: they   *)
(* differ only in the UUID their members carry.                            *)
(***************************************************************************)
EXTENDS SlidingWindow, TLC

RequestSymmetry == Permutations(Requests)
=============================================================================
