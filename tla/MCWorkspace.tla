---------------------------- MODULE MCWorkspace ----------------------------
(* The instance of Workspace that TLC checks. *)
EXTENDS Workspace, TLC

\* Of the names Acme, and Acme 2.
AcmeSlugs == {<<>>, <<2>>}

Symmetry == Permutations(Users) \cup Permutations(Requests) \cup Permutations(DeviceCalls)

=============================================================================
