--------------------------- MODULE MCMemberships ---------------------------
(* The instance of Memberships that TLC checks. *)
EXTENDS Memberships, TLC

Symmetry == Permutations(Users \ {Owner}) \cup Permutations(Requests)

=============================================================================
