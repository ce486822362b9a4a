--------------------------- MODULE MCDiscussions ---------------------------
(* The instance of Discussions that TLC checks. *)
EXTENDS Discussions, TLC

Symmetry == Permutations(Users) \cup Permutations(Items) \cup Permutations(Requests)

=============================================================================
