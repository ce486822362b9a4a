----------------------- MODULE MCOrganizationDeletion -----------------------
(* The instance of OrganizationDeletion that TLC checks. *)
EXTENDS OrganizationDeletion, TLC

Symmetry == Permutations(Messages) \cup Permutations(Discussions) \cup
            Permutations(Calls) \cup Permutations(Deletions) \cup
            Permutations(Others)

=============================================================================
