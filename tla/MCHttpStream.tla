---------------------------- MODULE MCHttpStream ----------------------------
(***************************************************************************)
(* TLC instances of HttpStream.                                            *)
(***************************************************************************)
EXTENDS HttpStream, TLC

CONSTANTS r1, r2

MCSymmetry == Permutations(Stream)

=============================================================================
