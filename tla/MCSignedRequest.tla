-------------------------- MODULE MCSignedRequest --------------------------
(* Two requests at a time, three in all, with one signature: the first may come before
   the second its timestamp names, and the last after it has grown too old. *)
EXTENDS SignedRequest, TLC

MCStamp == [s \in Sigs |-> 1]

Symmetry == Permutations(Callers)

=============================================================================
