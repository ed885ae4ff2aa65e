--------------------------- MODULE MCClientSession ---------------------------
(* ClientSession for TLC: accounts, roles and calls are interchangeable. *)
EXTENDS ClientSession, TLC

Symmetry == Permutations(Account) \cup Permutations(Role) \cup Permutations(Call)
=============================================================================
