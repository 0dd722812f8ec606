---------------------------- MODULE MCSyncWorker ----------------------------
(* Instances of the sync worker for TLC.  Endpoints, groups and addresses are
   only ever compared for equality, so a safety run may permute them. *)
EXTENDS SyncWorker, TLC

Symmetry == Permutations(Endpoints) \cup Permutations(Groups) \cup Permutations(Addrs)

=============================================================================
