--------------------------- MODULE MCInvitations ---------------------------
(* The instance of Invitations that TLC checks. *)
EXTENDS Invitations, TLC

Symmetry == Permutations(Calls) \cup Permutations(InvitationIds)

=============================================================================
