-------------------------- MODULE MCProviderState --------------------------
(***************************************************************************)
(* A small instance of ProviderState: both providers offer the model; p1   *)
(* is routed to but has no key, p2 has a key but is not routed to.         *)
(***************************************************************************)
EXTENDS ProviderState, TLC

CONSTANTS p1, p2, n1, n2, x1, blank

MCTables ==
  [provider |-> p1 :> "active" @@ p2 :> "active",
   name     |-> p1 :> n1 @@ p2 :> n1,
   key      |-> p1 :> "absent" @@ p2 :> "active",
   target   |-> <<p1, x1>> :> "active" @@ <<p2, x1>> :> "active",
   model    |-> x1 :> "active",
   route    |-> <<x1, p1, x1>> :> "active" @@ <<x1, p2, x1>> :> "absent"]

\* The list of OpenAI, with a blank name and a repetition; and one of strings.
MCUpstream ==
  LET e(kind, x) == [kind |-> kind, name |-> x]
  IN  p1 :> ("data" :> <<e("object", x1), e("object", blank), e("object", x1)>>) @@
      p2 :> ("models" :> <<e("string", x1), e("neither", blank)>>)

AdminSymmetry == Permutations(Admins)
=============================================================================
