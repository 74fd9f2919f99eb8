-------------------------- MODULE MCTunnelRegistry --------------------------
(***************************************************************************)
(* TLC instances of TunnelRegistry.                                        *)
(***************************************************************************)
EXTENDS TunnelRegistry, TLC

CONSTANTS c1, c2, c3, t1, t2, s1, s2, s3, a1

MCSymmetry == Permutations(Conn) \cup Permutations(Token) \cup Permutations(Subdomain)
TwoTunnelsEach == [t \in Token |-> 2]
NoTokenMax == [t \in Token |-> 0]

=============================================================================
