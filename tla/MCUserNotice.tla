---------------------------- MODULE MCUserNotice ----------------------------
(***************************************************************************)
(* UserNotice for TLC: users are interchangeable.                          *)
(***************************************************************************)
EXTENDS UserNotice, TLC

Symmetry == Permutations(Users)
=============================================================================
