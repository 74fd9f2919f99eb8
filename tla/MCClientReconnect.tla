--------------------------- MODULE MCClientReconnect ---------------------------
(***************************************************************************)
(* TLC instances of ClientReconnect.                                       *)
(***************************************************************************)
EXTENDS ClientReconnect

CONSTANTS c1, c2, s1, s2

\* One client is started with a name, the other gets a random one.
NamedAndRandom == [c \in Client |-> IF c = c1 THEN s1 ELSE Nil]

=============================================================================
