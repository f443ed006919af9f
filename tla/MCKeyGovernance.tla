-------------------------- MODULE MCKeyGovernance ---------------------------
(***************************************************************************)
(* A small instance of KeyGovernance.                                      *)
(***************************************************************************)
EXTENDS KeyGovernance

\* A budget, and one below and one above what is let through.
MCSentBudgets == {-1, 2, 4}
=============================================================================
