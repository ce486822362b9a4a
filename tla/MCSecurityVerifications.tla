---------------------- MODULE MCSecurityVerifications ----------------------
(* The instances of SecurityVerifications that TLC checks. *)
EXTENDS SecurityVerifications, TLC

Symmetry == Permutations(Rows) \cup Permutations(Txs)

=============================================================================
