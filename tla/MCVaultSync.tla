----------------------------- MODULE MCVaultSync -----------------------------
(* One device and one API key, which may change the site keys.             *)
EXTENDS VaultSync, TLC

MCScope == [k \in ApiKey |-> {"repos"}]

Symmetry == Permutations(Device) \cup Permutations(Prefix)
=============================================================================
