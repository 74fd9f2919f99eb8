------------------------- MODULE ClientReconnectProofs -------------------------
(***************************************************************************)
(* Theorems about ClientReconnect, for any number of clients and names and *)
(* any timing that keeps to the assumptions.                               *)
(*                                                                         *)
(* A client gives up only if somebody else was in its way, or if the reply *)
(* to a registration that came after a refusal was lost.  The argument is  *)
(* a race: while a client that restarted is turned away, the seconds its   *)
(* dead sessions have left and the waits it already went through never     *)
(* exceed the pong deadline together, and its whole budget of waits does.  *)
(***************************************************************************)
EXTENDS ClientReconnect, FiniteSetTheorems, WellFoundedInduction, TLAPS

-----------------------------------------------------------------------------
(***************************************************************************)
(* Recursive functions on the natural numbers: the waits.                  *)
(***************************************************************************)

\* Induction, with a set in the place of a predicate.
LEMMA SetInduction ==
  ASSUME NEW S \in SUBSET Nat, 0 \in S, \A n \in S : n + 1 \in S
  PROVE  S = Nat
<1> DEFINE Less == {p \in Nat \X Nat : p[1] < p[2]}
<1>1. SUFFICES ASSUME Nat \ S # {} PROVE FALSE
  OBVIOUS
<1>2. IsWellFoundedOn(Less, Nat)
  BY NatLessThanWellFounded DEF OpToRel
<1>3. PICK x \in Nat \ S : \A y \in Nat \ S : ~ (<<y, x>> \in Less)
  BY <1>1, <1>2, WFMin
<1>4. x # 0 /\ x - 1 \in Nat /\ x - 1 < x
  OBVIOUS
<1>5. x - 1 \in S
  BY <1>3, <1>4
<1>6. QED
  BY <1>3, <1>4, <1>5

\* There is a function that starts with a and goes on with step.
LEMMA Recursion ==
  ASSUME NEW a \in Nat, NEW step \in [Nat \X Nat -> Nat]
  PROVE  \E f \in [Nat -> Nat] : f[0] = a /\ \A n \in Nat : f[n + 1] = step[<<n, f[n]>>]
<1> DEFINE Upto(n) == {f \in [0 .. n -> Nat] :
                         f[0] = a /\ \A i \in 0 .. n - 1 : f[i + 1] = step[<<i, f[i]>>]}
<1>1. \A n \in Nat : Upto(n) # {}
  <2> DEFINE S == {n \in Nat : Upto(n) # {}}
  <2>1. 0 \in S
    <3>1. [i \in 0 .. 0 |-> a] \in Upto(0)
      OBVIOUS
    <3>2. QED
      BY <3>1
  <2>2. ASSUME NEW n \in Nat, Upto(n) # {} PROVE Upto(n + 1) # {}
    <3>1. PICK f \in Upto(n) : TRUE
      BY <2>2
    <3> DEFINE h == [i \in 0 .. n + 1 |-> IF i = n + 1 THEN step[<<n, f[n]>>] ELSE f[i]]
    <3>2. f \in [0 .. n -> Nat] /\ f[0] = a /\ \A i \in 0 .. n - 1 : f[i + 1] = step[<<i, f[i]>>]
      OBVIOUS
    <3>3. step[<<n, f[n]>>] \in Nat
      BY <3>2
    <3>4. h \in [0 .. n + 1 -> Nat] /\ h[0] = a
      BY <3>2, <3>3
    <3>5. ASSUME NEW i \in 0 .. n PROVE h[i + 1] = step[<<i, h[i]>>]
      <4>1. CASE i = n
        <5>1. i + 1 = n + 1 /\ i + 1 \in 0 .. n + 1 /\ i \in 0 .. n + 1 /\ i # n + 1
          BY <4>1
        <5>2. h[i + 1] = step[<<n, f[n]>>] /\ h[i] = f[n]
          BY <4>1, <5>1
        <5>3. QED
          BY <4>1, <5>2
      <4>2. CASE i # n
        <5>1. i \in 0 .. n - 1 /\ i + 1 \in 0 .. n /\ i + 1 # n + 1 /\ i # n + 1
          BY <4>2
        <5>2. QED
          BY <3>2, <5>1
      <4>3. QED
        BY <4>1, <4>2
    <3>6. (n + 1) - 1 = n
      OBVIOUS
    <3> HIDE DEF h
    <3>7. h \in Upto(n + 1)
      BY <3>4, <3>5, <3>6
    <3>8. QED
      BY <3>7
  <2>3. S = Nat
    <3> HIDE DEF Upto
    <3>1. S \in SUBSET Nat /\ \A n \in S : n + 1 \in S
      BY <2>2
    <3> HIDE DEF S
    <3>2. QED
      BY <2>1, <3>1, SetInduction
  <2>4. QED
    BY <2>3
<1>2. ASSUME NEW m \in Nat, NEW n \in Nat, NEW f \in Upto(m), NEW h \in Upto(n),
             NEW k \in Nat, k <= m, k <= n
      PROVE  f[k] = h[k]
  <2> DEFINE S == {i \in Nat : i <= m /\ i <= n => f[i] = h[i]}
  <2>1. 0 \in S
    OBVIOUS
  <2>2. ASSUME NEW i \in Nat, i <= m /\ i <= n => f[i] = h[i], i + 1 <= m, i + 1 <= n
        PROVE  f[i + 1] = h[i + 1]
    <3>1. i \in 0 .. m - 1 /\ i \in 0 .. n - 1 /\ f[i] = h[i]
      BY <2>2
    <3>2. QED
      BY <3>1
  <2>3. S = Nat
    <3> HIDE DEF Upto
    <3>1. S \in SUBSET Nat /\ \A i \in S : i + 1 \in S
      BY <2>2
    <3> HIDE DEF S
    <3>2. QED
      BY <2>1, <3>1, SetInduction
  <2>4. QED
    BY <1>2, <2>3
<1> DEFINE F == [n \in Nat |-> (CHOOSE f \in Upto(n) : TRUE)[n]]
<1> HIDE DEF Upto
<1>3. ASSUME NEW n \in Nat, NEW f \in Upto(n) PROVE f[n] = F[n]
  <2>1. (CHOOSE h \in Upto(n) : TRUE) \in Upto(n)
    BY <1>1
  <2>2. QED
    BY <1>2, <2>1
<1>4. ASSUME NEW n \in Nat PROVE F[n] \in Nat /\ F[n + 1] = step[<<n, F[n]>>]
  <2>1. PICK f \in Upto(n), h \in Upto(n + 1) : TRUE
    BY <1>1
  <2>2. f[n] = F[n] /\ h[n + 1] = F[n + 1] /\ f[n] = h[n]
    BY <1>2, <1>3
  <2>3. f[n] \in Nat /\ h[n + 1] = step[<<n, h[n]>>]
    BY DEF Upto
  <2>4. QED
    BY <2>2, <2>3
<1>5. F[0] = a
  <2>1. PICK f \in Upto(0) : TRUE
    BY <1>1
  <2>2. QED
    BY <1>3 DEF Upto
<1>6. F \in [Nat -> Nat]
  BY <1>4
<1>7. QED
  BY <1>4, <1>5, <1>6

\* The waits, one after the other: Wait is the function its definition describes.
LEMMA WaitDef ==
  /\ Wait[0] = FirstBackoff
  /\ \A n \in Nat :
       /\ Wait[n] \in FirstBackoff .. MaxBackoff
       /\ Wait[n + 1] = IF 2 * Wait[n] > MaxBackoff THEN MaxBackoff ELSE 2 * Wait[n]
<1> DEFINE step == [p \in Nat \X Nat |-> IF 2 * p[2] > MaxBackoff THEN MaxBackoff ELSE 2 * p[2]]
<1>1. step \in [Nat \X Nat -> Nat]
  BY ReconnectAssumption
<1>2. PICK f \in [Nat -> Nat] : f[0] = FirstBackoff /\ \A n \in Nat : f[n + 1] = step[<<n, f[n]>>]
  <2> HIDE DEF step
  <2>1. FirstBackoff \in Nat
    BY ReconnectAssumption
  <2>2. QED
    BY <1>1, <2>1, Recursion
<1>3. \A n \in Nat : f[n + 1] = IF 2 * f[n] > MaxBackoff THEN MaxBackoff ELSE 2 * f[n]
  BY <1>2
<1>4. ASSUME NEW n \in Nat
      PROVE  f[n] = IF n = 0 THEN FirstBackoff
                    ELSE IF 2 * f[n - 1] > MaxBackoff THEN MaxBackoff ELSE 2 * f[n - 1]
  <2>1. CASE n # 0
    <3>1. n - 1 \in Nat /\ n = (n - 1) + 1
      BY <2>1
    <3>2. QED
      BY <1>3, <2>1, <3>1
  <2>2. QED
    BY <1>2, <2>1
<1>5. f = [n \in Nat |-> IF n = 0 THEN FirstBackoff
                         ELSE IF 2 * f[n - 1] > MaxBackoff THEN MaxBackoff ELSE 2 * f[n - 1]]
  BY <1>4
<1>6. Wait = [n \in Nat |-> IF n = 0 THEN FirstBackoff
                            ELSE IF 2 * Wait[n - 1] > MaxBackoff THEN MaxBackoff ELSE 2 * Wait[n - 1]]
  BY <1>5 DEF Wait
<1>7. Wait[0] = FirstBackoff
  BY <1>6
<1>8. ASSUME NEW n \in Nat
      PROVE  Wait[n + 1] = IF 2 * Wait[n] > MaxBackoff THEN MaxBackoff ELSE 2 * Wait[n]
  BY <1>6
<1>9. \A n \in Nat : Wait[n] \in FirstBackoff .. MaxBackoff
  <2> DEFINE S == {n \in Nat : Wait[n] \in FirstBackoff .. MaxBackoff}
  <2>1. 0 \in S
    BY <1>7, ReconnectAssumption
  <2>2. ASSUME NEW n \in S PROVE n + 1 \in S
    BY <1>8, ReconnectAssumption
  <2>3. S = Nat
    <3>1. S \in SUBSET Nat
      OBVIOUS
    <3> HIDE DEF S
    <3>2. QED
      BY <2>1, <2>2, <3>1, SetInduction
  <2>4. QED
    BY <2>3
<1>10. QED
  BY <1>7, <1>8, <1>9

\* The waits added up.
LEMMA PatienceDef ==
  /\ Patience[0] = 0
  /\ \A n \in Nat : Patience[n] \in Nat /\ Patience[n + 1] = Patience[n] + Wait[n]
<1> DEFINE step == [p \in Nat \X Nat |-> p[2] + Wait[p[1]]]
<1>1. \A n \in Nat : Wait[n] \in Nat
  BY WaitDef, ReconnectAssumption
<1>2. step \in [Nat \X Nat -> Nat]
  BY <1>1
<1>3. PICK f \in [Nat -> Nat] : f[0] = 0 /\ \A n \in Nat : f[n + 1] = step[<<n, f[n]>>]
  <2> HIDE DEF step
  <2>1. 0 \in Nat
    OBVIOUS
  <2>2. QED
    BY <1>2, <2>1, Recursion
<1>4. \A n \in Nat : f[n + 1] = f[n] + Wait[n]
  BY <1>3
<1>5. ASSUME NEW n \in Nat
      PROVE  f[n] = IF n = 0 THEN 0 ELSE f[n - 1] + Wait[n - 1]
  <2>1. CASE n # 0
    <3>1. n - 1 \in Nat /\ n = (n - 1) + 1
      BY <2>1
    <3>2. QED
      BY <1>4, <2>1, <3>1
  <2>2. QED
    BY <1>3, <2>1
<1>6. f = [n \in Nat |-> IF n = 0 THEN 0 ELSE f[n - 1] + Wait[n - 1]]
  BY <1>5
<1>7. Patience = [n \in Nat |-> IF n = 0 THEN 0 ELSE Patience[n - 1] + Wait[n - 1]]
  BY <1>6 DEF Patience
<1>8. Patience[0] = 0
  BY <1>7
<1>9. \A n \in Nat : Patience[n + 1] = Patience[n] + Wait[n]
  BY <1>7
<1>10. \A n \in Nat : Patience[n] \in Nat
  <2> DEFINE S == {n \in Nat : Patience[n] \in Nat}
  <2>1. 0 \in S
    BY <1>8
  <2>2. ASSUME NEW n \in S PROVE n + 1 \in S
    BY <1>1, <1>9
  <2>3. S = Nat
    <3>1. S \in SUBSET Nat
      OBVIOUS
    <3> HIDE DEF S
    <3>2. QED
      BY <2>1, <2>2, <3>1, SetInduction
  <2>4. QED
    BY <2>3
<1>11. QED
  BY <1>8, <1>9, <1>10

-----------------------------------------------------------------------------
(***************************************************************************)
(* The invariant.                                                          *)
(***************************************************************************)

\* What the two ends know of each other.  A client has a connection exactly
\* while it is up, under the name it pinned; and a session the server still
\* takes for alive belongs to a client that is connected with it.
SessionsOK ==
  /\ \A c \in Client :
       /\ link[c] # "none" <=> state[c] = "up"
       /\ state[c] = "up" => c \in registered /\ want[c] \in Subdomain
  /\ \A s \in Subdomain, c \in Client : holder[s] = c =>
       /\ state[c] # "off"
       /\ reap[s] = Never => link[c] = "ok" /\ want[c] = s

\* The race.  An account of refusals grows only before the first registration;
\* then the waits so far and the seconds that a dead session of c has left are
\* no more than the pong deadline, but for the wait that is not over.  A session
\* that begins unnoticed after a refusal is out of this account.
BudgetOf(c) ==
  /\ retries[c] < MaxRegisterRetries
  /\ state[c] = "retrying" /\ c \in registered => retries[c] = 0
  /\ state[c] = "retrying" /\ c \notin registered =>
       /\ backoff[c] >= Wait[retries[c]]
       /\ c \notin unanswered => \A s \in Subdomain : holder[s] = c =>
            reap[s] + Patience[retries[c]] <= PongWait + wait[c]

BudgetOK == \A c \in Client : BudgetOf(c)

Inv == TypeOK /\ SessionsOK /\ ConnectedIsServed /\ BudgetOK /\ GiveUpJustified

\* The numbers the timers are made of.
LEMMA Times ==
  /\ FirstBackoff \in Nat /\ MaxBackoff \in Nat /\ PongWait \in Nat /\ FirstBackoff <= MaxBackoff
  /\ FirstBackoff > 0 /\ PongWait > 0
  /\ Never \in Nat /\ Never = PongWait + 1
  /\ MaxWait \in Nat /\ MaxBackoff <= MaxWait /\ PongWait <= MaxWait
  /\ MaxRegisterRetries \in Nat /\ MaxRegisterRetries > 0
BY ReconnectAssumption DEF Never, MaxWait

\* A client may be refused at least once without giving up.
LEMMA TwoRefusals == MaxRegisterRetries >= 2
<1>1. CASE MaxRegisterRetries = 1
  <2>1. MaxRegisterRetries - 1 = 0
    BY <1>1
  <2>2. Patience[0] > PongWait
    BY <2>1, PatienceAssumption
  <2>3. QED
    BY <2>2, PatienceDef, Times
<1>2. QED
  BY <1>1, Times

\* Every client is off at first and nobody holds a name.
LEMMA InvInit == ASSUME Init PROVE Inv
<1> USE Times DEF Init
<1>1. TypeOK
  BY ReconnectAssumption DEF TypeOK
<1>2. SessionsOK
  BY ReconnectAssumption DEF SessionsOK
<1>3. ConnectedIsServed /\ GiveUpJustified
  BY DEF ConnectedIsServed, GiveUpJustified
<1>4. BudgetOK
  BY DEF BudgetOK, BudgetOf
<1>5. QED
  BY <1>1, <1>2, <1>3, <1>4 DEF Inv

-----------------------------------------------------------------------------
(***************************************************************************)
(* Types.                                                                  *)
(***************************************************************************)

\* The next wait is no shorter and within the bounds.
LEMMA LongerTyped ==
  ASSUME NEW b \in FirstBackoff .. MaxBackoff
  PROVE  Longer(b) \in FirstBackoff .. MaxBackoff /\ Longer(b) >= b
BY Times DEF Longer

\* The parts of TypeOK that the head of the loop and the end of a process change.
LEMMA FailedRoundTyped ==
  ASSUME TypeOK, NEW c \in Client, NEW r \in 0 .. MaxRegisterRetries, FailedRound(c, r)
  PROVE  /\ state' \in [Client -> {"off", "retrying", "up", "kicked", "gaveUp", "refused", "quit"}]
         /\ wait' \in [Client -> 0 .. MaxWait]
         /\ backoff' \in [Client -> FirstBackoff .. MaxBackoff]
         /\ retries' \in [Client -> 0 .. MaxRegisterRetries]
<1>1. backoff[c] \in 0 .. MaxWait /\ Longer(backoff[c]) \in FirstBackoff .. MaxBackoff
  BY Times, LongerTyped DEF TypeOK
<1>2. QED
  BY <1>1, Times DEF TypeOK, FailedRound

\* What NextRound assigns has its type,
LEMMA NextRoundTyped ==
  ASSUME TypeOK, NEW c \in Client, NEW r \in 0 .. MaxRegisterRetries, NextRound(c, r)
  PROVE  /\ state' \in [Client -> {"off", "retrying", "up", "kicked", "gaveUp", "refused", "quit"}]
         /\ wait' \in [Client -> 0 .. MaxWait]
         /\ backoff' \in [Client -> FirstBackoff .. MaxBackoff]
         /\ retries' \in [Client -> 0 .. MaxRegisterRetries]
         /\ link' \in [Client -> {"none", "ok", "closing", "dead"}]
         /\ UNCHANGED <<registered, want, interrupted>>
<1>1. FailedRound(c, r) /\ link' \in [Client -> {"none", "ok", "closing", "dead"}]
  BY DEF NextRound, TypeOK
<1>2. QED
  BY <1>1, FailedRoundTyped DEF FailedRound

\* ... what Ends assigns,
LEMMA EndsTyped ==
  ASSUME TypeOK, NEW c \in Client, NEW how \in {"kicked", "gaveUp", "refused", "quit"}, Ends(c, how)
  PROVE  /\ state' \in [Client -> {"off", "retrying", "up", "kicked", "gaveUp", "refused", "quit"}]
         /\ wait' \in [Client -> 0 .. MaxWait]
         /\ link' \in [Client -> {"none", "ok", "closing", "dead"}]
BY Times DEF TypeOK, Ends

\* ... what Starts assigns,
LEMMA StartsTyped ==
  ASSUME TypeOK, NEW c \in Client, Starts(c)
  PROVE  /\ state' \in [Client -> {"off", "retrying", "up", "kicked", "gaveUp", "refused", "quit"}]
         /\ wait' \in [Client -> 0 .. MaxWait]
         /\ backoff' \in [Client -> FirstBackoff .. MaxBackoff]
         /\ retries' \in [Client -> 0 .. MaxRegisterRetries]
         /\ registered' \in SUBSET Client
         /\ want' \in [Client -> Subdomain \cup {Nil}]
         /\ interrupted' \in SUBSET Client
         /\ link' \in [Client -> {"none", "ok", "closing", "dead"}]
         /\ blamed' \in SUBSET Client /\ unanswered' \in SUBSET Client /\ forgotten' \in SUBSET Client
<1>1. Asked[c] \in Subdomain \cup {Nil}
  BY ReconnectAssumption
<1>2. /\ state' \in [Client -> {"off", "retrying", "up", "kicked", "gaveUp", "refused", "quit"}]
      /\ link' \in [Client -> {"none", "ok", "closing", "dead"}]
  BY DEF TypeOK, Starts
<1>3. /\ wait' \in [Client -> 0 .. MaxWait]
      /\ backoff' \in [Client -> FirstBackoff .. MaxBackoff]
      /\ retries' \in [Client -> 0 .. MaxRegisterRetries]
  BY Times DEF TypeOK, Starts
<1>4. blamed' \in SUBSET Client /\ unanswered' \in SUBSET Client /\ forgotten' \in SUBSET Client
  BY DEF TypeOK, Starts, Forgives
<1>5. want' \in [Client -> Subdomain \cup {Nil}]
  BY <1>1 DEF TypeOK, Starts
<1>6. registered' \in SUBSET Client /\ interrupted' \in SUBSET Client
  BY DEF TypeOK, Starts
<1>7. QED
  BY <1>2, <1>3, <1>4, <1>5, <1>6

\* ... what Orphans assigns,
LEMMA OrphansTyped ==
  ASSUME TypeOK, NEW c \in Client, Orphans(c)
  PROVE  reap' \in [Subdomain -> 0 .. Never]
BY Times DEF TypeOK, Orphans

\* ... and the count of mishaps.
LEMMA MishapTyped == ASSUME TypeOK, Mishap PROVE mishaps' \in 0 .. MaxMishaps
BY ReconnectAssumption DEF TypeOK, Mishap

\* Every step keeps the types.
LEMMA TypeStep == ASSUME TypeOK, [Next]_vars PROVE TypeOK'
<1> USE Times DEF clientVars, serverVars, noteVars, bookVars, vars
<1>1. ASSUME NEW c \in Client, Start(c) PROVE TypeOK'
  BY <1>1, StartsTyped DEF Start, TypeOK
<1>2. ASSUME NEW c \in Client, Restart(c) PROVE TypeOK'
  BY <1>2, StartsTyped, OrphansTyped, MishapTyped DEF Restart, TypeOK
<1>3. ASSUME NEW c \in Client, Quit(c) \/ Refused(c) PROVE TypeOK'
  BY <1>3, EndsTyped, MishapTyped DEF Quit, Refused, Ends, TypeOK
<1>4. ASSUME NEW c \in Client, Interrupt(c) PROVE TypeOK'
  BY <1>4, MishapTyped DEF Interrupt, TypeOK
<1>5. ASSUME NEW c \in Client, Stops(c) PROVE TypeOK'
  BY <1>5, EndsTyped, OrphansTyped DEF Stops, Ends, TypeOK
<1>6. ASSUME NEW c \in Client, DialFails(c) \/ Notices(c) PROVE TypeOK'
  <2>1. retries[c] \in 0 .. MaxRegisterRetries /\ NextRound(c, retries[c])
    BY <1>6 DEF DialFails, Notices, TypeOK
  <2>2. mishaps' \in 0 .. MaxMishaps
    BY <1>6, MishapTyped DEF DialFails, Notices, TypeOK
  <2>3. UNCHANGED <<registered, want, interrupted, holder, reap, blamed, unanswered, forgotten>>
    BY <1>6, <2>1, NextRoundTyped DEF DialFails, Notices
  <2>4. QED
    BY <2>1, <2>2, <2>3, NextRoundTyped DEF TypeOK
<1>7. ASSUME NEW c \in Client, Rejected(c) PROVE TypeOK'
  <2>1. blamed' \in SUBSET Client
    BY <1>7 DEF Rejected, TypeOK
  <2>2. UNCHANGED <<holder, reap, mishaps, unanswered, forgotten>>
    BY <1>7 DEF Rejected
  <2>3. CASE retries[c] + 1 >= MaxRegisterRetries
    BY <1>7, <2>1, <2>2, <2>3, EndsTyped DEF Rejected, Ends, TypeOK
  <2>4. CASE ~ (retries[c] + 1 >= MaxRegisterRetries)
    <3>1. retries[c] + 1 \in 0 .. MaxRegisterRetries /\ NextRound(c, retries[c] + 1)
      BY <1>7, <2>4 DEF Rejected, TypeOK
    <3>2. QED
      BY <2>1, <2>2, <3>1, NextRoundTyped DEF TypeOK
  <2>5. QED
    BY <2>3, <2>4
<1>8. ASSUME NEW c \in Client, NEW s \in Subdomain, Registered(c, s) PROVE TypeOK'
  <2>1. link' \in [Client -> {"none", "ok", "closing", "dead"}]
    BY <1>8 DEF Registered, LinksAfter, TypeOK
  <2>2. /\ state' \in [Client -> {"off", "retrying", "up", "kicked", "gaveUp", "refused", "quit"}]
        /\ want' \in [Client -> Subdomain \cup {Nil}]
    BY <1>8 DEF Registered, TypeOK
  <2>3. /\ holder' \in [Subdomain -> Client \cup {Other, Nil}]
        /\ reap' \in [Subdomain -> 0 .. Never]
    BY <1>8 DEF Registered, TypeOK
  <2>4. blamed' \in SUBSET Client /\ unanswered' \in SUBSET Client /\ forgotten' \in SUBSET Client
    BY <1>8 DEF Registered, Forgives, TypeOK
  <2>5. registered' \in SUBSET Client /\ UNCHANGED <<wait, backoff, retries, interrupted, mishaps>>
    BY <1>8 DEF Registered, TypeOK
  <2>6. QED
    BY <2>1, <2>2, <2>3, <2>4, <2>5 DEF TypeOK
<1>9. ASSUME NEW c \in Client, LinkDies(c) PROVE TypeOK'
  BY <1>9, MishapTyped, OrphansTyped DEF LinkDies, Silence, TypeOK
<1>10. ASSUME NEW c \in Client, KickArrives(c) PROVE TypeOK'
  BY <1>10, EndsTyped DEF KickArrives, Ends, TypeOK
<1>11. ASSUME NEW c \in Client, KickLost(c) PROVE TypeOK'
  BY <1>11, MishapTyped DEF KickLost, Silence, TypeOK
<1>12. ASSUME NEW s \in Subdomain, Reap(s) \/ OtherTakes(s) \/ OtherLeaves(s) PROVE TypeOK'
  BY <1>12 DEF Reap, OtherTakes, OtherLeaves, TypeOK
<1>13. CASE Tick
  <2>1. wait' \in [Client -> 0 .. MaxWait]
    BY <1>13 DEF Tick, TypeOK
  <2>2. reap' \in [Subdomain -> 0 .. Never]
    BY <1>13 DEF Tick, TypeOK
  <2>3. QED
    BY <1>13, <2>1, <2>2 DEF Tick, TypeOK
<1>14. CASE UNCHANGED vars
  BY <1>14 DEF TypeOK
<1>15. ASSUME NEW c \in Client, NEW s \in Subdomain, RegisterFails(c, s) PROVE TypeOK'
  <2>1. /\ holder' \in [Subdomain -> Client \cup {Other, Nil}]
        /\ reap' \in [Subdomain -> 0 .. Never]
    BY <1>15 DEF RegisterFails, TypeOK
  <2>2. /\ blamed' \in SUBSET Client /\ unanswered' \in SUBSET Client
        /\ forgotten' \in SUBSET Client
    BY <1>15 DEF RegisterFails, TypeOK
  <2>3. mishaps' \in 0 .. MaxMishaps
    BY <1>15, MishapTyped DEF RegisterFails
  <2>4. CASE Ends(c, "refused")
    BY <2>1, <2>2, <2>3, <2>4, EndsTyped DEF Ends, TypeOK
  <2>5. CASE NextRound(c, retries[c])
    <3>1. retries[c] \in 0 .. MaxRegisterRetries
      BY DEF TypeOK
    <3>2. QED
      BY <2>1, <2>2, <2>3, <2>5, <3>1, NextRoundTyped DEF TypeOK
  <2>6. QED
    BY <1>15, <2>4, <2>5 DEF RegisterFails
<1>16. ASSUME NEW c \in Client, NEW s \in Subdomain, ReplyLost(c, s) PROVE TypeOK'
  <2>1. /\ holder' \in [Subdomain -> Client \cup {Other, Nil}]
        /\ reap' \in [Subdomain -> 0 .. Never]
    BY <1>16 DEF ReplyLost, TypeOK
  <2>2. /\ blamed' \in SUBSET Client /\ unanswered' \in SUBSET Client
        /\ forgotten' \in SUBSET Client
    BY <1>16 DEF ReplyLost, TypeOK
  <2>3. mishaps' \in 0 .. MaxMishaps
    BY <1>16, MishapTyped DEF ReplyLost
  <2>4. link' \in [Client -> {"none", "ok", "closing", "dead"}]
    BY <1>16 DEF ReplyLost, LinksAfter, TypeOK
  <2>5. retries[c] \in 0 .. MaxRegisterRetries /\ FailedRound(c, retries[c])
    BY <1>16 DEF ReplyLost, TypeOK
  <2>6. UNCHANGED <<registered, want, interrupted>>
    BY <2>5 DEF FailedRound
  <2>7. QED
    BY <2>1, <2>2, <2>3, <2>4, <2>5, <2>6, FailedRoundTyped DEF TypeOK
<1>17. QED
  BY <1>1, <1>2, <1>3, <1>4, <1>5, <1>6, <1>7, <1>8, <1>9, <1>10, <1>11, <1>12, <1>13, <1>14,
     <1>15, <1>16 DEF Next, Registers, GoesWrong

-----------------------------------------------------------------------------
(***************************************************************************)
(* Sessions and connections.                                               *)
(***************************************************************************)

\* c loses its connection and its sessions become orphans: whoever else is
\* connected stays served.
LEMMA OrphansStep ==
  ASSUME TypeOK, SessionsOK, ConnectedIsServed, NEW c \in Client,
         Orphans(c), UNCHANGED holder,
         link'[c] # "ok", forgotten \ {c} \subseteq forgotten',
         \A d \in Client \ {c} : link'[d] = link[d] /\ want'[d] = want[d]
  PROVE  /\ ConnectedIsServed'
         /\ \A s \in Subdomain, d \in Client :
              holder[s] = d /\ reap'[s] = Never => link'[d] = "ok" /\ want'[d] = s
<1>1. ASSUME NEW d \in Client \ forgotten', link'[d] = "ok"
      PROVE  holder'[want'[d]] = d /\ reap'[want'[d]] = Never
  <2>1. d # c /\ link[d] = "ok" /\ want'[d] = want[d] /\ d \notin forgotten
    BY <1>1
  <2>2. want[d] \in Subdomain /\ holder[want[d]] = d /\ reap[want[d]] = Never
    BY <2>1 DEF SessionsOK, ConnectedIsServed
  <2>3. QED
    BY <2>1, <2>2 DEF Orphans
<1>2. ASSUME NEW s \in Subdomain, NEW d \in Client, holder[s] = d, reap'[s] = Never
      PROVE  link'[d] = "ok" /\ want'[d] = s
  <2>1. d # c /\ reap[s] = Never
    BY <1>2, Times DEF Orphans
  <2>2. QED
    BY <1>2, <2>1 DEF SessionsOK
<1>3. QED
  BY <1>1, <1>2 DEF ConnectedIsServed

\* A step of c alone that has no connection before it and none after it.
LEMMA AsideStep ==
  ASSUME TypeOK, SessionsOK, ConnectedIsServed, NEW c \in Client,
         link[c] # "ok", link'[c] = "none", state'[c] \notin {"off", "up"},
         UNCHANGED <<holder, reap, want>>,
         \A d \in Client \ {c} : link'[d] = link[d] /\ state'[d] = state[d],
         registered \ {c} \subseteq registered', forgotten \subseteq forgotten'
  PROVE  SessionsOK' /\ ConnectedIsServed'
BY DEF SessionsOK, ConnectedIsServed

\* Every step keeps the sessions of the server matched with the connections of
\* its clients.
LEMMA SessionsStep ==
  ASSUME TypeOK, SessionsOK, ConnectedIsServed, [Next]_vars
  PROVE  SessionsOK' /\ ConnectedIsServed'
<1> USE DEF clientVars, serverVars, noteVars, bookVars, vars
<1>1. ASSUME NEW c \in Client, Start(c) PROVE SessionsOK' /\ ConnectedIsServed'
  BY <1>1 DEF Start, Starts, Forgives, TypeOK, SessionsOK, ConnectedIsServed
<1>2. ASSUME NEW c \in Client, Restart(c) PROVE SessionsOK' /\ ConnectedIsServed'
  <2>1. /\ link' = [link EXCEPT ![c] = "none"] /\ state' = [state EXCEPT ![c] = "retrying"]
        /\ want' = [want EXCEPT ![c] = Asked[c]] /\ registered' = registered \ {c}
        /\ Orphans(c) /\ UNCHANGED holder /\ forgotten' = forgotten \ {c}
    BY <1>2 DEF Restart, Starts, Forgives
  <2>2. /\ link'[c] # "ok"
        /\ \A d \in Client \ {c} : link'[d] = link[d] /\ want'[d] = want[d]
    BY <2>1 DEF TypeOK
  <2>3. /\ ConnectedIsServed'
        /\ \A s \in Subdomain, d \in Client :
             holder[s] = d /\ reap'[s] = Never => link'[d] = "ok" /\ want'[d] = s
    BY <2>1, <2>2, OrphansStep
  <2>4. QED
    BY <2>1, <2>3 DEF TypeOK, SessionsOK
<1>3. ASSUME NEW c \in Client, Quit(c) \/ Refused(c) PROVE SessionsOK' /\ ConnectedIsServed'
  BY <1>3, AsideStep DEF Quit, Refused, Attempts, Ends, TypeOK, SessionsOK
<1>4. ASSUME NEW c \in Client, Interrupt(c) PROVE SessionsOK' /\ ConnectedIsServed'
  BY <1>4 DEF Interrupt, SessionsOK, ConnectedIsServed
<1>5. ASSUME NEW c \in Client, Stops(c) PROVE SessionsOK' /\ ConnectedIsServed'
  <2>1. /\ link' = [link EXCEPT ![c] = "none"] /\ state' = [state EXCEPT ![c] = "quit"]
        /\ UNCHANGED <<want, registered, holder, forgotten>> /\ Orphans(c)
    BY <1>5 DEF Stops, Ends
  <2>2. /\ ConnectedIsServed'
        /\ \A s \in Subdomain, d \in Client :
             holder[s] = d /\ reap'[s] = Never => link'[d] = "ok" /\ want'[d] = s
    BY <2>1, OrphansStep DEF TypeOK
  <2>3. QED
    BY <2>1, <2>2 DEF TypeOK, SessionsOK
<1>6. ASSUME NEW c \in Client, DialFails(c) \/ Notices(c) PROVE SessionsOK' /\ ConnectedIsServed'
  BY <1>6, AsideStep DEF DialFails, Notices, Attempts, NextRound, FailedRound, TypeOK, SessionsOK
<1>7. ASSUME NEW c \in Client, Rejected(c) PROVE SessionsOK' /\ ConnectedIsServed'
  <2>1. CASE Ends(c, "gaveUp")
    BY <1>7, <2>1, AsideStep DEF Rejected, Attempts, Ends, TypeOK, SessionsOK
  <2>2. CASE NextRound(c, retries[c] + 1)
    BY <1>7, <2>2, AsideStep DEF Rejected, Attempts, NextRound, FailedRound, TypeOK, SessionsOK
  <2>3. QED
    BY <1>7, <2>1, <2>2 DEF Rejected
<1>8. ASSUME NEW c \in Client, NEW s \in Subdomain, Registered(c, s)
      PROVE  SessionsOK' /\ ConnectedIsServed'
  <2>1. /\ holder' = [holder EXCEPT ![s] = c] /\ reap' = [reap EXCEPT ![s] = Never]
        /\ state' = [state EXCEPT ![c] = "up"] /\ want' = [want EXCEPT ![c] = s]
        /\ registered' = registered \cup {c} /\ link' = LinksAfter(c, s, "ok")
        /\ state[c] = "retrying" /\ forgotten' = forgotten \ {c}
    BY <1>8 DEF Registered, Attempts, Forgives
  <2>2. link'[c] = "ok"
    BY <2>1 DEF LinksAfter
  <2>3. \A d \in Client \ {c} :
          link'[d] = IF holder[s] = d /\ want[d] = s /\ link[d] = "ok" THEN "closing" ELSE link[d]
    BY <2>1 DEF LinksAfter
  <2>4. link[c] = "none"
    BY <2>1 DEF SessionsOK
  <2>5. \A d \in Client : link'[d] # "none" <=> state'[d] = "up"
    BY <2>1, <2>2, <2>3 DEF SessionsOK, TypeOK
  <2>6. \A d \in Client : state'[d] = "up" => d \in registered' /\ want'[d] \in Subdomain
    BY <2>1 DEF SessionsOK, TypeOK
  <2>7. \A t \in Subdomain, d \in Client : holder'[t] = d => state'[d] # "off"
    BY <2>1 DEF SessionsOK, TypeOK
  <2>8. ASSUME NEW t \in Subdomain, NEW d \in Client, holder'[t] = d, reap'[t] = Never
        PROVE  link'[d] = "ok" /\ want'[d] = t
    <3>1. CASE t = s
      BY <2>1, <2>2, <2>8, <3>1 DEF TypeOK
    <3>2. CASE t # s
      <4>1. holder[t] = d /\ reap[t] = Never
        BY <2>1, <2>8, <3>2 DEF TypeOK
      <4>2. link[d] = "ok" /\ want[d] = t
        BY <4>1 DEF SessionsOK
      <4>3. d # c
        BY <2>4, <4>2
      <4>4. QED
        BY <2>1, <2>3, <3>2, <4>2, <4>3 DEF TypeOK
    <3>3. QED
      BY <3>1, <3>2
  <2>9. ASSUME NEW d \in Client \ forgotten', link'[d] = "ok"
        PROVE  holder'[want'[d]] = d /\ reap'[want'[d]] = Never
    <3>1. CASE d = c
      BY <2>1, <3>1 DEF TypeOK
    <3>2. CASE d # c
      <4>1. link[d] = "ok" /\ ~ (holder[s] = d /\ want[d] = s) /\ want'[d] = want[d]
        BY <2>1, <2>3, <2>9, <3>2 DEF TypeOK
      <4>2. d \notin forgotten
        BY <2>1, <2>9, <3>2
      <4>3. want[d] \in Subdomain /\ holder[want[d]] = d /\ reap[want[d]] = Never
        BY <4>1, <4>2 DEF SessionsOK, ConnectedIsServed
      <4>4. QED
        BY <2>1, <4>1, <4>3 DEF TypeOK
    <3>3. QED
      BY <3>1, <3>2
  <2>10. QED
    BY <2>5, <2>6, <2>7, <2>8, <2>9 DEF SessionsOK, ConnectedIsServed
<1>9. ASSUME NEW c \in Client, LinkDies(c) PROVE SessionsOK' /\ ConnectedIsServed'
  <2>1. /\ link' = [link EXCEPT ![c] = "dead"] /\ link[c] = "ok"
        /\ UNCHANGED <<state, want, registered, holder, forgotten>> /\ Orphans(c)
    BY <1>9 DEF LinkDies
  <2>2. /\ ConnectedIsServed'
        /\ \A s \in Subdomain, d \in Client :
             holder[s] = d /\ reap'[s] = Never => link'[d] = "ok" /\ want'[d] = s
    BY <2>1, OrphansStep DEF TypeOK
  <2>3. QED
    BY <2>1, <2>2 DEF TypeOK, SessionsOK
<1>10. ASSUME NEW c \in Client, KickArrives(c) PROVE SessionsOK' /\ ConnectedIsServed'
  BY <1>10, AsideStep DEF KickArrives, Ends, TypeOK
<1>11. ASSUME NEW c \in Client, KickLost(c) PROVE SessionsOK' /\ ConnectedIsServed'
  BY <1>11 DEF KickLost, TypeOK, SessionsOK, ConnectedIsServed
<1>12. ASSUME NEW s \in Subdomain, Reap(s) \/ OtherTakes(s) \/ OtherLeaves(s)
       PROVE  SessionsOK' /\ ConnectedIsServed'
  <2>1. \A c \in Client : ~ (holder[s] = c /\ reap[s] = Never)
    BY <1>12, ReconnectAssumption DEF Reap, OtherTakes, OtherLeaves
  <2>2. /\ holder'[s] \notin Client /\ UNCHANGED <<clientVars, forgotten>>
        /\ \A t \in Subdomain \ {s} : holder'[t] = holder[t] /\ reap'[t] = reap[t]
    BY <1>12, ReconnectAssumption DEF Reap, OtherTakes, OtherLeaves, TypeOK
  <2>3. SessionsOK'
    BY <2>2 DEF SessionsOK
  <2>4. ConnectedIsServed'
    BY <2>1, <2>2 DEF SessionsOK, ConnectedIsServed
  <2>5. QED
    BY <2>3, <2>4
<1>13. CASE Tick
  <2>1. \A s \in Subdomain : reap'[s] = Never <=> reap[s] = Never
    BY <1>13, Times DEF Tick, TypeOK
  <2>2. UNCHANGED <<state, link, registered, want, holder, forgotten>>
    BY <1>13 DEF Tick
  <2>3. QED
    BY <2>1, <2>2 DEF SessionsOK, ConnectedIsServed
<1>14. CASE UNCHANGED vars
  BY <1>14 DEF SessionsOK, ConnectedIsServed
<1>15. ASSUME NEW c \in Client, NEW s \in Subdomain, RegisterFails(c, s)
       PROVE  SessionsOK' /\ ConnectedIsServed'
  <2>1. /\ holder' = [holder EXCEPT ![s] = Nil] /\ reap' = [reap EXCEPT ![s] = Never]
        /\ state[c] = "retrying"
        /\ forgotten' = IF reap[s] = Never THEN forgotten \cup ({holder[s]} \cap Client) ELSE forgotten
    BY <1>15 DEF RegisterFails, Attempts
  <2>2. /\ link' = [link EXCEPT ![c] = "none"] /\ UNCHANGED <<want, registered>>
        /\ \E how \in {"refused", "retrying"} : state' = [state EXCEPT ![c] = how]
    BY <1>15 DEF RegisterFails, Ends, NextRound, FailedRound
  <2>3. link[c] = "none"
    BY <2>1 DEF SessionsOK
  <2>4. SessionsOK'
    <3>1. \A d \in Client : (link'[d] # "none" <=> state'[d] = "up")
      BY <2>1, <2>2 DEF SessionsOK, TypeOK
    <3>2. \A d \in Client : state'[d] = "up" => d \in registered' /\ want'[d] \in Subdomain
      BY <2>1, <2>2 DEF SessionsOK, TypeOK
    <3>3. \A t \in Subdomain, d \in Client : holder'[t] = d => t # s /\ holder[t] = d /\ reap'[t] = reap[t]
      BY <2>1, ReconnectAssumption DEF TypeOK
    <3>4. QED
      BY <2>2, <2>3, <3>1, <3>2, <3>3 DEF SessionsOK, TypeOK
  <2>5. ASSUME NEW d \in Client \ forgotten', link'[d] = "ok"
        PROVE  holder'[want'[d]] = d /\ reap'[want'[d]] = Never
    <3>1. d \notin forgotten /\ link[d] = "ok" /\ want'[d] = want[d]
      BY <2>1, <2>2, <2>5 DEF TypeOK
    <3>2. want[d] \in Subdomain /\ holder[want[d]] = d /\ reap[want[d]] = Never
      BY <3>1 DEF SessionsOK, ConnectedIsServed
    <3>3. want[d] # s
      BY <2>1, <2>5, <3>2
    <3>4. QED
      BY <2>1, <3>1, <3>2, <3>3 DEF TypeOK
  <2>6. QED
    BY <2>4, <2>5 DEF ConnectedIsServed
<1>16. ASSUME NEW c \in Client, NEW s \in Subdomain, ReplyLost(c, s)
       PROVE  SessionsOK' /\ ConnectedIsServed'
  <2>1. /\ holder' = [holder EXCEPT ![s] = c] /\ reap' = [reap EXCEPT ![s] = PongWait]
        /\ state' = [state EXCEPT ![c] = "retrying"] /\ link' = LinksAfter(c, s, "none")
        /\ UNCHANGED <<want, registered, forgotten>> /\ state[c] = "retrying"
    BY <1>16 DEF ReplyLost, FailedRound, Attempts
  <2>2. link'[c] = "none" /\ link[c] = "none"
    BY <2>1 DEF LinksAfter, SessionsOK
  <2>3. \A d \in Client \ {c} :
          link'[d] = IF holder[s] = d /\ want[d] = s /\ link[d] = "ok" THEN "closing" ELSE link[d]
    BY <2>1 DEF LinksAfter
  <2>4. \A d \in Client : link'[d] # "none" <=> state'[d] = "up"
    BY <2>1, <2>2, <2>3 DEF SessionsOK, TypeOK
  <2>5. \A d \in Client : state'[d] = "up" => d \in registered' /\ want'[d] \in Subdomain
    BY <2>1 DEF SessionsOK, TypeOK
  <2>6. \A t \in Subdomain, d \in Client : holder'[t] = d => state'[d] # "off"
    BY <2>1 DEF SessionsOK, TypeOK
  <2>7. ASSUME NEW t \in Subdomain, NEW d \in Client, holder'[t] = d, reap'[t] = Never
        PROVE  link'[d] = "ok" /\ want'[d] = t
    <3>1. t # s
      BY <2>1, <2>7, Times DEF TypeOK
    <3>2. link[d] = "ok" /\ want[d] = t
      BY <2>1, <2>7, <3>1 DEF SessionsOK, TypeOK
    <3>3. QED
      BY <2>1, <2>2, <2>3, <3>1, <3>2
  <2>8. ASSUME NEW d \in Client \ forgotten', link'[d] = "ok"
        PROVE  holder'[want'[d]] = d /\ reap'[want'[d]] = Never
    <3>1. d # c /\ d \notin forgotten /\ link[d] = "ok" /\ ~ (holder[s] = d /\ want[d] = s)
      BY <2>1, <2>2, <2>3, <2>8
    <3>2. want[d] \in Subdomain /\ holder[want[d]] = d /\ reap[want[d]] = Never
      BY <3>1 DEF SessionsOK, ConnectedIsServed
    <3>3. QED
      BY <2>1, <3>1, <3>2 DEF TypeOK
  <2>9. QED
    BY <2>4, <2>5, <2>6, <2>7, <2>8 DEF SessionsOK, ConnectedIsServed
<1>17. QED
  BY <1>1, <1>2, <1>3, <1>4, <1>5, <1>6, <1>7, <1>8, <1>9, <1>10, <1>11, <1>12, <1>13, <1>14,
     <1>15, <1>16 DEF Next, Registers, GoesWrong

-----------------------------------------------------------------------------
(***************************************************************************)
(* The race between a dead session and the patience of its client.         *)
(***************************************************************************)

\* A step that does not touch d, and lets its sessions only age or go.
LEMMA BudgetKept ==
  ASSUME TypeOK, TypeOK', NEW d \in Client, BudgetOf(d),
         retries'[d] = retries[d], backoff'[d] = backoff[d], wait'[d] = wait[d],
         state'[d] = state[d], d \in registered' <=> d \in registered,
         d \in unanswered => d \in unanswered',
         \A s \in Subdomain : holder'[s] = d => holder[s] = d /\ reap'[s] <= reap[s]
  PROVE  BudgetOf(d)'
<1>1. retries[d] \in Nat
  BY Times DEF TypeOK
<1>2. Patience[retries[d]] \in Nat /\ Wait[retries[d]] \in Nat
  BY <1>1, PatienceDef, WaitDef, Times
<1>3. wait[d] \in Nat /\ PongWait \in Nat /\ \A s \in Subdomain : reap[s] \in Nat /\ reap'[s] \in Nat
  BY Times DEF TypeOK
<1>4. ASSUME state[d] = "retrying", d \notin registered, d \notin unanswered',
             NEW s \in Subdomain, holder'[s] = d
      PROVE  reap'[s] + Patience[retries[d]] <= PongWait + wait[d]
  <2>1. reap'[s] <= reap[s] /\ reap[s] + Patience[retries[d]] <= PongWait + wait[d]
    BY <1>4 DEF BudgetOf
  <2>2. QED
    BY <1>2, <1>3, <2>1
<1>5. QED
  BY <1>4 DEF BudgetOf

\* A step after which d is not retrying.
LEMMA BudgetIdle ==
  ASSUME NEW d \in Client, BudgetOf(d), state'[d] # "retrying", retries'[d] = retries[d]
  PROVE  BudgetOf(d)'
BY DEF BudgetOf

\* A client that starts: its sessions have at most the pong deadline left.
LEMMA BudgetFresh ==
  ASSUME TypeOK, NEW c \in Client, Starts(c),
         \A s \in Subdomain : holder'[s] = c => reap'[s] \in 0 .. PongWait
  PROVE  BudgetOf(c)'
<1>1. /\ state'[c] = "retrying" /\ wait'[c] = 0 /\ backoff'[c] = FirstBackoff /\ retries'[c] = 0
      /\ c \notin registered'
  BY DEF Starts, TypeOK
<1>2. Wait[0] = FirstBackoff /\ Patience[0] = 0
  BY WaitDef, PatienceDef
<1>3. QED
  BY <1>1, <1>2, Times DEF BudgetOf

\* A round that failed for another reason than a rejection: the account stays
\* as it is, and the wait only grows.  What c has left at the server ages or
\* goes, or begins before any refusal.
LEMMA BudgetFailedRound ==
  ASSUME TypeOK, SessionsOK, NEW c \in Client, BudgetOf(c), state[c] = "up" \/ Attempts(c),
         FailedRound(c, retries[c]), unanswered \subseteq unanswered',
         \A s \in Subdomain : holder'[s] = c =>
           \/ holder[s] = c /\ reap'[s] = reap[s]
           \/ reap'[s] = PongWait /\ (retries[c] = 0 \/ c \in unanswered')
  PROVE  BudgetOf(c)'
<1>1. /\ state'[c] = "retrying" /\ wait'[c] = backoff[c] /\ backoff'[c] = Longer(backoff[c])
      /\ registered' = registered
      /\ retries'[c] = IF c \in registered THEN 0 ELSE retries[c]
  BY DEF FailedRound, TypeOK
<1>2. CASE c \in registered
  BY <1>1, <1>2, Times DEF BudgetOf
<1>3. CASE c \notin registered
  <2>1. Attempts(c) /\ state[c] = "retrying" /\ wait[c] = 0
    BY <1>3 DEF SessionsOK, Attempts
  <2>2. /\ backoff[c] \in Nat /\ Longer(backoff[c]) \in Nat /\ Longer(backoff[c]) >= backoff[c]
        /\ retries[c] \in Nat
    BY LongerTyped, Times DEF TypeOK
  <2>3. Wait[retries[c]] \in Nat /\ Patience[retries[c]] \in Nat
    BY <2>2, WaitDef, PatienceDef, Times
  <2>4. Longer(backoff[c]) >= Wait[retries[c]]
    BY <1>3, <2>1, <2>2, <2>3 DEF BudgetOf
  <2>5. ASSUME NEW s \in Subdomain, holder'[s] = c, c \notin unanswered'
        PROVE  reap'[s] + Patience[retries[c]] <= PongWait + backoff[c]
    <3>1. CASE holder[s] = c /\ reap'[s] = reap[s]
      <4>1. reap[s] + Patience[retries[c]] <= PongWait + 0
        BY <1>3, <2>1, <2>5, <3>1 DEF BudgetOf
      <4>2. reap[s] \in Nat
        BY Times DEF TypeOK
      <4>3. QED
        BY <2>2, <2>3, <3>1, <4>1, <4>2, Times
    <3>2. CASE reap'[s] = PongWait /\ retries[c] = 0
      BY <2>2, <3>2, PatienceDef, Times
    <3>3. QED
      BY <2>5, <3>1, <3>2
  <2>6. QED
    BY <1>1, <1>3, <2>4, <2>5 DEF BudgetOf
<1>4. QED
  BY <1>2, <1>3

\* A rejection that the client survives: the wait that begins is at least the
\* one that its account foresees.
LEMMA BudgetRejected ==
  ASSUME TypeOK, NEW c \in Client, BudgetOf(c), Attempts(c),
         ~ (retries[c] + 1 >= MaxRegisterRetries),
         NextRound(c, retries[c] + 1), UNCHANGED <<holder, reap, unanswered>>
  PROVE  BudgetOf(c)'
<1>1. /\ state'[c] = "retrying" /\ wait'[c] = backoff[c] /\ backoff'[c] = Longer(backoff[c])
      /\ registered' = registered
      /\ retries'[c] = IF c \in registered THEN 0 ELSE retries[c] + 1
  BY DEF NextRound, FailedRound, TypeOK
<1>2. CASE c \in registered
  BY <1>1, <1>2, Times DEF BudgetOf
<1>3. CASE c \notin registered
  <2> DEFINE r == retries[c]
  <2>1. state[c] = "retrying" /\ wait[c] = 0
    BY DEF Attempts
  <2>2. backoff[c] \in FirstBackoff .. MaxBackoff /\ backoff[c] \in Nat /\ r \in Nat
    BY Times DEF TypeOK
  <2>3. /\ Wait[r] \in Nat /\ Wait[r] <= MaxBackoff /\ Patience[r] \in Nat
        /\ Patience[r + 1] = Patience[r] + Wait[r]
        /\ Wait[r + 1] = IF 2 * Wait[r] > MaxBackoff THEN MaxBackoff ELSE 2 * Wait[r]
    BY <2>2, WaitDef, PatienceDef, Times
  <2>4. backoff[c] >= Wait[r]
    BY <1>3, <2>1 DEF BudgetOf
  <2>5. Longer(backoff[c]) >= Wait[r + 1]
    BY <2>2, <2>3, <2>4, Times DEF Longer
  <2>6. ASSUME NEW s \in Subdomain, holder[s] = c, c \notin unanswered
        PROVE  reap[s] + Patience[r + 1] <= PongWait + backoff[c]
    <3>1. reap[s] + Patience[r] <= PongWait + 0
      BY <1>3, <2>1, <2>6 DEF BudgetOf
    <3>2. reap[s] \in Nat
      BY Times DEF TypeOK
    <3>3. QED
      BY <2>2, <2>3, <2>4, <3>1, <3>2, Times
  <2>7. r + 1 < MaxRegisterRetries
    BY <2>2, Times
  <2>8. QED
    BY <1>1, <1>3, <2>5, <2>6, <2>7 DEF BudgetOf
<1>4. QED
  BY <1>2, <1>3

\* A second passes for a client that waits, and for its dead sessions.
LEMMA BudgetTick ==
  ASSUME TypeOK, SessionsOK, NEW c \in Client, BudgetOf(c), Tick
  PROVE  BudgetOf(c)'
<1>1. UNCHANGED <<state, backoff, retries, registered, link, holder, unanswered>>
  BY DEF Tick, bookVars, noteVars
<1>2. ASSUME state[c] = "retrying", c \notin registered, c \notin unanswered, NEW s \in Subdomain, holder[s] = c
      PROVE  reap'[s] + Patience[retries[c]] <= PongWait + wait'[c]
  <2>1. wait[c] \in Nat /\ wait[c] # 0 /\ wait'[c] = wait[c] - 1
    BY <1>2, Times DEF Tick, Attempts, TypeOK
  <2>2. reap[s] # Never
    BY <1>2 DEF SessionsOK
  <2>3. reap[s] \in Nat /\ reap'[s] = reap[s] - 1
    BY <2>2, Times DEF Tick, TypeOK
  <2>4. Patience[retries[c]] \in Nat
    BY PatienceDef, Times DEF TypeOK
  <2>5. reap[s] + Patience[retries[c]] <= PongWait + wait[c]
    BY <1>2 DEF BudgetOf
  <2>6. QED
    BY <2>1, <2>3, <2>4, <2>5, Times
<1>3. QED
  BY <1>1, <1>2 DEF BudgetOf

\* Every step keeps the account of what a client has waited and of what it still
\* waits for.
LEMMA BudgetStep ==
  ASSUME TypeOK, TypeOK', SessionsOK, BudgetOK, [Next]_vars
  PROVE  BudgetOK'
<1> USE DEF clientVars, serverVars, noteVars, bookVars, vars
<1> SUFFICES ASSUME NEW d \in Client PROVE BudgetOf(d)'
  BY DEF BudgetOK
<1>0. BudgetOf(d) /\ \A s \in Subdomain : reap[s] <= reap[s]
  BY Times DEF BudgetOK, TypeOK
<1>1. ASSUME NEW c \in Client, Start(c) PROVE BudgetOf(d)'
  <2>1. CASE d = c
    <3>1. \A s \in Subdomain : holder'[s] # c
      BY <1>1 DEF Start, SessionsOK
    <3>2. QED
      BY <1>1, <2>1, <3>1, BudgetFresh DEF Start
  <2>2. CASE d # c
    BY <1>0, <1>1, <2>2, BudgetKept DEF Start, Starts, Forgives, TypeOK
  <2>3. QED
    BY <2>1, <2>2
<1>2. ASSUME NEW c \in Client, Restart(c) PROVE BudgetOf(d)'
  <2>1. CASE d = c
    <3>1. ASSUME NEW s \in Subdomain, holder'[s] = c PROVE reap'[s] \in 0 .. PongWait
      <4>1. holder[s] = c /\ reap'[s] = IF reap[s] = Never THEN PongWait ELSE reap[s]
        BY <1>2, <3>1 DEF Restart, Orphans
      <4>2. reap[s] \in 0 .. Never
        BY DEF TypeOK
      <4>3. QED
        BY <4>1, <4>2, Times
    <3>2. QED
      BY <1>2, <2>1, <3>1, BudgetFresh DEF Restart
  <2>2. CASE d # c
    <3>1. \A s \in Subdomain : holder'[s] = d => holder[s] = d /\ reap'[s] <= reap[s]
      BY <1>0, <1>2, <2>2 DEF Restart, Orphans
    <3>2. QED
      BY <1>0, <1>2, <2>2, <3>1, BudgetKept DEF Restart, Starts, Forgives, TypeOK
  <2>3. QED
    BY <2>1, <2>2
<1>3. ASSUME NEW c \in Client, Quit(c) \/ Refused(c) \/ KickArrives(c) PROVE BudgetOf(d)'
  <2>1. UNCHANGED <<backoff, retries, registered, holder, reap, unanswered>>
    BY <1>3 DEF Quit, Refused, KickArrives, Ends
  <2>2. CASE d = c
    BY <1>0, <1>3, <2>1, <2>2, BudgetIdle DEF Quit, Refused, KickArrives, Ends, TypeOK
  <2>3. CASE d # c
    <3>1. state'[d] = state[d] /\ wait'[d] = wait[d]
      BY <1>3, <2>3 DEF Quit, Refused, KickArrives, Ends, TypeOK
    <3>2. QED
      BY <1>0, <2>1, <3>1, BudgetKept
  <2>4. QED
    BY <2>2, <2>3
<1>4. ASSUME NEW c \in Client, Stops(c) PROVE BudgetOf(d)'
  <2>1. UNCHANGED <<backoff, retries, registered, holder, unanswered>>
    BY <1>4 DEF Stops, Ends
  <2>2. CASE d = c
    BY <1>0, <1>4, <2>1, <2>2, BudgetIdle DEF Stops, Ends, TypeOK
  <2>3. CASE d # c
    <3>1. state'[d] = state[d] /\ wait'[d] = wait[d]
      BY <1>4, <2>3 DEF Stops, Ends, TypeOK
    <3>2. \A s \in Subdomain : holder'[s] = d => holder[s] = d /\ reap'[s] <= reap[s]
      BY <1>0, <1>4, <2>1, <2>3 DEF Stops, Orphans
    <3>3. QED
      BY <1>0, <2>1, <3>1, <3>2, BudgetKept
  <2>4. QED
    BY <2>2, <2>3
<1>5. ASSUME NEW c \in Client, Interrupt(c) \/ LinkDies(c) \/ KickLost(c) PROVE BudgetOf(d)'
  <2>1. link[c] # "none" \/ state[c] = "up"
    BY <1>5 DEF Interrupt, LinkDies, KickLost
  <2>2. UNCHANGED <<state, backoff, retries, registered, holder, unanswered>>
    BY <1>5 DEF Interrupt, LinkDies, KickLost
  <2>3. CASE d = c
    <3>1. state[c] = "up"
      BY <2>1 DEF SessionsOK
    <3>2. QED
      BY <1>0, <2>2, <2>3, <3>1, BudgetIdle
  <2>4. CASE d # c
    <3>1. wait'[d] = wait[d]
      BY <1>5, <2>4 DEF Interrupt, LinkDies, KickLost, Silence, TypeOK
    <3>2. \A s \in Subdomain : holder'[s] = d => holder[s] = d /\ reap'[s] <= reap[s]
      BY <1>0, <1>5, <2>2, <2>4 DEF Interrupt, LinkDies, KickLost, Orphans
    <3>3. QED
      BY <1>0, <2>2, <3>1, <3>2, BudgetKept
  <2>5. QED
    BY <2>3, <2>4
<1>6. ASSUME NEW c \in Client, DialFails(c) \/ Notices(c) PROVE BudgetOf(d)'
  <2>1. FailedRound(c, retries[c]) /\ UNCHANGED <<holder, reap, unanswered>>
    BY <1>6 DEF DialFails, Notices, NextRound
  <2>2. CASE d = c
    <3>1. state[c] = "up" \/ Attempts(c)
      BY <1>6 DEF DialFails, Notices, SessionsOK
    <3>2. QED
      BY <1>0, <2>1, <2>2, <3>1, BudgetFailedRound
  <2>3. CASE d # c
    BY <1>0, <2>1, <2>3, BudgetKept DEF FailedRound, TypeOK
  <2>4. QED
    BY <2>2, <2>3
<1>7. ASSUME NEW c \in Client, Rejected(c) PROVE BudgetOf(d)'
  <2>1. Attempts(c) /\ UNCHANGED <<holder, reap, unanswered>>
    BY <1>7 DEF Rejected
  <2>2. CASE Ends(c, "gaveUp")
    <3>1. CASE d = c
      BY <1>0, <2>2, <3>1, BudgetIdle DEF Ends, TypeOK
    <3>2. CASE d # c
      BY <1>0, <2>1, <2>2, <3>2, BudgetKept DEF Ends, TypeOK
    <3>3. QED
      BY <3>1, <3>2
  <2>3. CASE NextRound(c, retries[c] + 1) /\ ~ (retries[c] + 1 >= MaxRegisterRetries)
    <3>1. CASE d = c
      BY <1>0, <2>1, <2>3, <3>1, BudgetRejected
    <3>2. CASE d # c
      BY <1>0, <2>1, <2>3, <3>2, BudgetKept DEF NextRound, FailedRound, TypeOK
    <3>3. QED
      BY <3>1, <3>2
  <2>4. QED
    BY <1>7, <2>2, <2>3 DEF Rejected
<1>8. ASSUME NEW c \in Client, NEW s \in Subdomain, Registered(c, s) PROVE BudgetOf(d)'
  <2>1. CASE d = c
    BY <1>0, <1>8, <2>1, BudgetIdle DEF Registered, TypeOK
  <2>2. CASE d # c
    <3>1. \A t \in Subdomain : holder'[t] = d => holder[t] = d /\ reap'[t] <= reap[t]
      BY <1>0, <1>8, <2>2 DEF Registered, TypeOK
    <3>2. QED
      BY <1>0, <1>8, <2>2, <3>1, BudgetKept DEF Registered, Forgives, TypeOK
  <2>3. QED
    BY <2>1, <2>2
<1>9. ASSUME NEW s \in Subdomain, Reap(s) \/ OtherTakes(s) \/ OtherLeaves(s) PROVE BudgetOf(d)'
  <2>1. UNCHANGED <<clientVars, unanswered>>
    BY <1>9 DEF Reap, OtherTakes, OtherLeaves
  <2>2. \A t \in Subdomain : holder'[t] = d => holder[t] = d /\ reap'[t] <= reap[t]
    BY <1>0, <1>9, ReconnectAssumption DEF Reap, OtherTakes, OtherLeaves, TypeOK
  <2>3. QED
    BY <1>0, <2>1, <2>2, BudgetKept
<1>10. CASE Tick
  BY <1>0, <1>10, BudgetTick
<1>11. CASE UNCHANGED vars
  BY <1>0, <1>11, BudgetKept
<1>12. ASSUME NEW c \in Client, NEW s \in Subdomain, RegisterFails(c, s) PROVE BudgetOf(d)'
  <2>1. \A t \in Subdomain : holder'[t] \in Client => holder'[t] = holder[t] /\ reap'[t] = reap[t]
    BY <1>12, ReconnectAssumption DEF RegisterFails, TypeOK
  <2>2. UNCHANGED <<registered, unanswered>> /\ Attempts(c)
    BY <1>12 DEF RegisterFails, Ends, NextRound, FailedRound
  <2>3. CASE d # c
    <3>1. UNCHANGED <<retries[d], backoff[d], wait[d], state[d]>>
      BY <1>12, <2>3 DEF RegisterFails, Ends, NextRound, FailedRound, TypeOK
    <3>2. QED
      BY <1>0, <2>1, <2>2, <3>1, BudgetKept
  <2>4. CASE d = c /\ Ends(c, "refused")
    BY <1>0, <2>4, BudgetIdle DEF Ends, TypeOK
  <2>5. CASE d = c /\ FailedRound(c, retries[c])
    BY <1>0, <2>1, <2>2, <2>5, BudgetFailedRound
  <2>6. QED
    BY <1>12, <2>3, <2>4, <2>5 DEF RegisterFails, NextRound
<1>13. ASSUME NEW c \in Client, NEW s \in Subdomain, ReplyLost(c, s) PROVE BudgetOf(d)'
  <2>1. /\ holder' = [holder EXCEPT ![s] = c] /\ reap' = [reap EXCEPT ![s] = PongWait]
        /\ FailedRound(c, retries[c]) /\ Attempts(c)
        /\ unanswered' = IF retries[c] > 0 THEN unanswered \cup {c} ELSE unanswered
    BY <1>13 DEF ReplyLost
  <2>2. CASE d = c
    <3>1. retries[c] = 0 \/ c \in unanswered'
      BY <2>1, Times DEF TypeOK
    <3>2. \A t \in Subdomain : holder'[t] = c =>
            \/ holder[t] = c /\ reap'[t] = reap[t]
            \/ reap'[t] = PongWait /\ (retries[c] = 0 \/ c \in unanswered')
      BY <2>1, <3>1 DEF TypeOK
    <3>3. unanswered \subseteq unanswered'
      BY <2>1
    <3>4. QED
      BY <1>0, <2>1, <2>2, <3>2, <3>3, BudgetFailedRound
  <2>3. CASE d # c
    <3>1. \A t \in Subdomain : holder'[t] = d => holder[t] = d /\ reap'[t] <= reap[t]
      BY <1>0, <2>1, <2>3 DEF TypeOK
    <3>2. /\ UNCHANGED <<retries[d], backoff[d], wait[d], state[d], registered>>
          /\ (d \in unanswered => d \in unanswered')
      BY <2>1, <2>3 DEF FailedRound, TypeOK
    <3>3. QED
      BY <1>0, <3>1, <3>2, BudgetKept
  <2>4. QED
    BY <2>2, <2>3
<1>14. QED
  BY <1>1, <1>2, <1>3, <1>4, <1>5, <1>6, <1>7, <1>8, <1>9, <1>10, <1>11, <1>12, <1>13
     DEF Next, Registers, GoesWrong

-----------------------------------------------------------------------------
(***************************************************************************)
(* Who is to blame.                                                        *)
(***************************************************************************)

\* A client that takes its last refusal with nobody in its way would find its
\* own dead session still there after all its waits; the race says it is not.
LEMMA LastRefusal ==
  ASSUME TypeOK, SessionsOK, BudgetOK, NEW c \in Client, Rejected(c),
         retries[c] + 1 >= MaxRegisterRetries
  PROVE  Rival(c) \/ c \in unanswered
<1>1. SUFFICES ASSUME ~ Rival(c), c \notin unanswered PROVE FALSE
  OBVIOUS
<1>2. state[c] = "retrying" /\ wait[c] = 0 /\ (AtLimit \/ InUse(c))
  BY DEF Rejected, Attempts
<1>3. \A s \in Subdomain : holder[s] \in {c, Nil}
  BY <1>1 DEF Rival
<1>4. ~ InUse(c)
  <2>1. want[c] # Nil => want[c] \in Subdomain
    BY DEF TypeOK
  <2>2. QED
    BY <1>3, <2>1, ReconnectAssumption DEF InUse
<1>5. PICK s \in Subdomain : holder[s] = c
  <2>1. Cap > 0 /\ Cardinality(Ours) >= Cap
    BY <1>2, <1>4 DEF AtLimit
  <2>2. Ours # {}
    BY <2>1, FS_EmptySet, ReconnectAssumption
  <2>3. QED
    BY <1>3, <2>2, ReconnectAssumption DEF Ours
<1>6. retries[c] \in Nat /\ retries[c] = MaxRegisterRetries - 1
  BY Times DEF TypeOK, BudgetOK, BudgetOf
<1>7. c \notin registered
  BY <1>2, <1>6, TwoRefusals, Times DEF BudgetOK, BudgetOf
<1>8. reap[s] + Patience[retries[c]] <= PongWait + 0
  BY <1>1, <1>2, <1>5, <1>7 DEF BudgetOK, BudgetOf
<1>9. Patience[retries[c]] > PongWait
  BY <1>6, PatienceAssumption
<1>10. reap[s] \in Nat /\ Patience[retries[c]] \in Nat
  BY <1>6, PatienceDef, Times DEF TypeOK
<1>11. QED
  BY <1>8, <1>9, <1>10, Times

\* A step that gives up has spent the budget, which outlasts a dead session.
LEMMA GiveUpStep ==
  ASSUME TypeOK, SessionsOK, BudgetOK, GiveUpJustified, [Next]_vars
  PROVE  GiveUpJustified'
<1> USE DEF clientVars, serverVars, noteVars, bookVars, vars
<1> DEFINE Excused == blamed \cup unanswered
<1> SUFFICES ASSUME NEW d \in Client, state'[d] = "gaveUp" PROVE d \in Excused'
  BY DEF GiveUpJustified
<1>1. state[d] = "gaveUp" => d \in Excused
  BY DEF GiveUpJustified
<1>2. ASSUME NEW c \in Client, Start(c) \/ Restart(c) PROVE d \in Excused'
  BY <1>1, <1>2 DEF Start, Restart, Starts, Forgives, TypeOK
<1>3. ASSUME NEW c \in Client, Quit(c) \/ Refused(c) \/ KickArrives(c) \/ Stops(c) PROVE d \in Excused'
  BY <1>1, <1>3 DEF Quit, Refused, KickArrives, Stops, Ends, TypeOK
<1>4. ASSUME NEW c \in Client, Interrupt(c) \/ LinkDies(c) \/ KickLost(c) PROVE d \in Excused'
  BY <1>1, <1>4 DEF Interrupt, LinkDies, KickLost
<1>5. ASSUME NEW c \in Client, DialFails(c) \/ Notices(c) PROVE d \in Excused'
  BY <1>1, <1>5 DEF DialFails, Notices, NextRound, FailedRound, TypeOK
<1>6. ASSUME NEW c \in Client, Rejected(c) PROVE d \in Excused'
  <2>1. Excused \subseteq Excused' /\ (Rival(c) => c \in blamed')
    BY <1>6 DEF Rejected
  <2>2. CASE d = c
    <3>1. retries[c] + 1 >= MaxRegisterRetries
      BY <1>6, <2>2 DEF Rejected, NextRound, FailedRound, TypeOK
    <3>2. QED
      BY <1>6, <2>1, <2>2, <3>1, LastRefusal
  <2>3. CASE d # c
    <3>1. state'[d] = state[d]
      BY <1>6, <2>3 DEF Rejected, Ends, NextRound, FailedRound, TypeOK
    <3>2. QED
      BY <1>1, <2>1, <3>1
  <2>4. QED
    BY <2>2, <2>3
<1>7. ASSUME NEW c \in Client, NEW s \in Subdomain, Registered(c, s) PROVE d \in Excused'
  BY <1>1, <1>7 DEF Registered, Forgives, TypeOK
<1>8. ASSUME NEW s \in Subdomain, Reap(s) \/ OtherTakes(s) \/ OtherLeaves(s) PROVE d \in Excused'
  BY <1>1, <1>8 DEF Reap, OtherTakes, OtherLeaves
<1>9. CASE Tick \/ UNCHANGED vars
  BY <1>1, <1>9 DEF Tick
<1>10. ASSUME NEW c \in Client, GoesWrong(c) PROVE d \in Excused'
  <2>1. PICK s \in Subdomain : RegisterFails(c, s) \/ ReplyLost(c, s)
    BY <1>10 DEF GoesWrong
  <2>2. state'[d] = state[d] /\ Excused \subseteq Excused'
    BY <2>1 DEF RegisterFails, ReplyLost, Ends, NextRound, FailedRound, TypeOK
  <2>3. QED
    BY <1>1, <2>2
<1>11. QED
  BY <1>2, <1>3, <1>4, <1>5, <1>6, <1>7, <1>8, <1>9, <1>10 DEF Next, Registers

-----------------------------------------------------------------------------
\* The invariant of every behaviour.
LEMMA Invariant == Spec => []Inv
<1>1. Init => Inv
  BY InvInit
<1>2. Inv /\ [Next]_vars => Inv'
  <2> SUFFICES ASSUME Inv, [Next]_vars PROVE Inv'
    OBVIOUS
  <2>1. TypeOK'
    BY TypeStep DEF Inv
  <2>2. SessionsOK' /\ ConnectedIsServed'
    BY SessionsStep DEF Inv
  <2>3. BudgetOK'
    BY <2>1, BudgetStep DEF Inv
  <2>4. GiveUpJustified'
    BY GiveUpStep DEF Inv
  <2>5. QED
    BY <2>1, <2>2, <2>3, <2>4 DEF Inv
<1>3. QED
  BY <1>1, <1>2, PTL DEF Spec

\* Every timer, account and connection stays within its range, whatever the
\* clients, the network and the other tokens do.
THEOREM TypeCorrect == Spec => []TypeOK
<1>1. Inv => TypeOK
  BY DEF Inv
<1>2. QED
  BY <1>1, Invariant, PTL

\* However many clients of a token lose, lend and take names, a client whose
\* connection works is the one its name is routed to, unless a takeover of the
\* name failed after it had removed the session: a takeover that succeeds ends
\* the link of exactly the client that was connected with the session it
\* replaced, whether the reply to it arrives or not.
THEOREM ConnectedServed == Spec => []ConnectedIsServed
<1>1. Inv => ConnectedIsServed
  BY DEF Inv
<1>2. QED
  BY <1>1, Invariant, PTL

\* With any backoff, budget and deadline of which the budget outlasts the
\* deadline, a client that gives up was turned away by somebody else at least
\* once, or was registered after a refusal and never got the reply: the sessions
\* it left behind before, by a crash or a lost reply, never exhaust
\* maxRegisterRetries alone.
THEOREM GivesUpForOthers == Spec => []GiveUpJustified
<1>1. Inv => GiveUpJustified
  BY DEF Inv
<1>2. QED
  BY <1>1, Invariant, PTL

=============================================================================
