----------------------------- MODULE MCKeyAdmin -----------------------------
(***************************************************************************)
(* A small instance of KeyAdmin: a day of three hours, bytes that wrap at  *)
(* five, two zones, and two texts that are none.                           *)
(***************************************************************************)
EXTENDS KeyAdmin, TLC

CONSTANTS UTC, Bangkok, BadZone

MCOffset == UTC :> 0 @@ Bangkok :> 1

\* An hour, the last hour, one too many, and one that wraps to an hour.
MCSentHours == {0, 2, 5}

=============================================================================
