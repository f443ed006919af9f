---------------------------- MODULE MCTargetPool ----------------------------
(***************************************************************************)
(* A small instance of TargetPool: two backends and three targets.         *)
(***************************************************************************)
EXTENDS TargetPool, TLC

CONSTANTS t1, t2, t3, b1, b2

\* Nothing serves the preferred target, its pool is empty; both backends serve
\* the second, and one of them the last one too.
MCPool == t1 :> {} @@ t2 :> {b1, b2} @@ t3 :> {b2}

MCPriority == t1 :> 3 @@ t2 :> 2 @@ t3 :> 1

=============================================================================
