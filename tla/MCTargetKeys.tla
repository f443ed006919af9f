---------------------------- MODULE MCTargetKeys ----------------------------
(***************************************************************************)
(* Small instances of TargetKeys.                                          *)
(***************************************************************************)
EXTENDS TargetKeys, TLC

CONSTANTS p1, p2, k1, k2, k3

\* Two providers of the same name: one with two keys, one with a single key.
MCKeys == p1 :> <<k1, k2>> @@ p2 :> <<k3>>
=============================================================================
