--------------------------- MODULE MCProxyRequest ---------------------------
(***************************************************************************)
(* A small instance of ProxyRequest: two providers, the first with a price *)
(* in the code, a price to set and one to refuse.                          *)
(***************************************************************************)
EXTENDS ProxyRequest, TLC

CONSTANTS p1, p2, n1, n2

MCNames == p1 :> n1 @@ p2 :> n2
Cheap == [cost |-> 1, markup |-> 0]
Dear == [cost |-> 2, markup |-> 50]
MCPrices == {Dear, [cost |-> -1, markup |-> 0]}
MCSeed == n1 :> Cheap @@ n2 :> Unpriced

CommandSymmetry == Permutations(Commands)
=============================================================================
