---------------------------- MODULE MCUsersPage ----------------------------
(* UsersPage for TLC: users and values of Info are interchangeable. *)
EXTENDS UsersPage, TLC

Symmetry == Permutations(User) \cup Permutations(Info)
=============================================================================
