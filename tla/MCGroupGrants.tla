---------------------------- MODULE MCGroupGrants ----------------------------
(* GroupGrants with a few requests over two groups. *)
EXTENDS GroupGrants, TLC

Symmetry == Permutations(Keys) \cup Permutations(Groups) \cup Permutations(Names)
              \cup Permutations(Requests)
=============================================================================
