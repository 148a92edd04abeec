------------------------------- MODULE MCOAuth -------------------------------
(* OAuth on a small instance: more clients than the registry retains. *)
EXTENDS OAuth, TLC

Interchangeable == Permutations(Clients)
==============================================================================
