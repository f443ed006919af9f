---------------------------- MODULE MCMiddleware ----------------------------
(***************************************************************************)
(* A small instance of Middleware: a script that fails open in the first   *)
(* phase, and one that fails closed in the second.                         *)
(***************************************************************************)
EXTENDS Middleware

MCInitial ==
  <<[exists |-> TRUE, bound |-> TRUE, enabled |-> TRUE, priority |-> 1,
     phase |-> "request.pre_governance", failure_mode |-> "fail_open"],
    [exists |-> TRUE, bound |-> TRUE, enabled |-> TRUE, priority |-> 1,
     phase |-> "request.pre_upstream", failure_mode |-> "fail_closed"]>>

=============================================================================
