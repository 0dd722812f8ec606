--------------------------- MODULE MCVaultPaging ---------------------------
(* Pages of two rows: listings of up to nine rows have none, partly filled,
   exactly filled and too many pages, and two changes meet three boundaries. *)
EXTENDS VaultPaging

=============================================================================
