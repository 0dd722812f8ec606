------------------------------- MODULE MCBoot -------------------------------
(* An instance of Boot for TLC: two processes on one database. *)
EXTENDS Boot

=============================================================================
