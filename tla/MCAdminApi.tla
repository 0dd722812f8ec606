----------------------------- MODULE MCAdminApi -----------------------------
(* AdminApi with a few requests over a Master, a Daughter and an endpoint. *)
EXTENDS AdminApi, TLC

Symmetry == Permutations(Keys \ {Master}) \cup Permutations(Requests)
=============================================================================
