--------------------------- MODULE SubdomainLease ---------------------------
(***************************************************************************)
(* What the registry promises about public names, whatever the goroutines  *)
(* do: a name belongs to at most one token at a time, it passes from one   *)
(* token to another only by being released in between, and a token never   *)
(* holds more names than its cap.  A token that re-registers a name of its *)
(* own keeps it: to this specification a takeover is no step at all.       *)
(***************************************************************************)
EXTENDS Integers, FiniteSets

CONSTANTS Token, Subdomain, None,
          Cap   \* names a token may hold, 0 is unlimited

VARIABLE owner  \* the token a name belongs to

Held(t) == {s \in Subdomain : owner[s] = t}

Init == owner = [s \in Subdomain |-> None]

\* A free name is given to a token that is under its cap.
Acquire(t, s) ==
  /\ owner[s] = None
  /\ Cap[t] = 0 \/ Cardinality(Held(t)) < Cap[t]
  /\ owner' = [owner EXCEPT ![s] = t]

\* Names are given back: one by a disconnect, all of a token by its
\* revocation, all there are by a restart.
Release(S) == owner' = [s \in Subdomain |-> IF s \in S THEN None ELSE owner[s]]

Next ==
  \/ \E t \in Token, s \in Subdomain : Acquire(t, s)
  \/ \E S \in SUBSET Subdomain : Release(S)

Spec == Init /\ [][Next]_owner

=============================================================================
