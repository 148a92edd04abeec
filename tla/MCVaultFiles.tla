---------------------------- MODULE MCVaultFiles -----------------------------
(* VaultFiles on a small instance: two folders, a handful of versions.        *)
EXTENDS VaultFiles, TLC

PathsSymmetry == Permutations(Paths)
==============================================================================
