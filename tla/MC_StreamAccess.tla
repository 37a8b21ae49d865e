-------------------------- MODULE MC_StreamAccess --------------------------
(* Two tenants with a channel each; one has an API key, the other none: the
   tenant whose key it is not shall get nothing.                             *)
EXTENDS StreamAccess, TLC

CONSTANTS acme, other, b1, b2, r1, r2, r3

MCOwner == ("a" :> acme) @@ ("o" :> other)
MCKeyTenant == "k" :> acme
Symmetry == Permutations(Backend) \cup Permutations(Request)
=============================================================================
