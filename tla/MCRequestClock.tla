--------------------------- MODULE MCRequestClock ---------------------------
(* Three callers sign up to nine requests over three seconds, with a limit of
   three: a burst reaches the limit, and goes on after it. *)
EXTENDS RequestClock, TLC

CallerSymmetry == Permutations(Callers)

=============================================================================
