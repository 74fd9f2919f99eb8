---------------------------- MODULE MCAdminAuth ----------------------------
(***************************************************************************)
(* TLC instances of AdminAuth.                                             *)
(***************************************************************************)
EXTENDS AdminAuth, TLC

CONSTANTS q1, q2, q3, t1, t2, p1, p2, a1

MCSymmetry == Permutations(Caller) \cup Permutations(Token) \cup Permutations(Password)

=============================================================================
