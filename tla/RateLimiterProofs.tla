------------------------- MODULE RateLimiterProofs -------------------------
(***************************************************************************)
(* Theorems about RateLimiter, for any number of callers and keys, any     *)
(* window and any budget.                                                  *)
(***************************************************************************)
EXTENDS RateLimiter, FiniteSetTheorems, TLAPS

USE DEF limiterVars, Leaves

-----------------------------------------------------------------------------
(***************************************************************************)
(* Types.                                                                  *)
(***************************************************************************)

\* Every step keeps the types.
LEMMA TypesInductive == LimiterTypeOK /\ [LimiterNext]_limiterVars => LimiterTypeOK'
<1> SUFFICES ASSUME LimiterTypeOK, [LimiterNext]_limiterVars PROVE LimiterTypeOK'
  OBVIOUS
<1> USE LimiterAssumption DEF LimiterTypeOK, NoEntry
<1>1. ASSUME NEW c \in Caller, NEW k \in Key, Admit(c, k) PROVE LimiterTypeOK'
  BY <1>1 DEF Admit
<1>2. ASSUME NEW c \in Caller, Strike(c) PROVE LimiterTypeOK'
  BY <1>2 DEF Strike
<1>3. ASSUME NEW c \in Caller, Reset(c) PROVE LimiterTypeOK'
  BY <1>3 DEF Reset
<1>4. ASSUME NEW c \in Caller, Abandon(c) PROVE LimiterTypeOK'
  BY <1>4 DEF Abandon
<1>5. CASE Janitor
  BY <1>5 DEF Janitor
<1>6. CASE Tick
  BY <1>6 DEF Tick
<1>7. CASE UNCHANGED limiterVars
  BY <1>7
<1>8. QED
  BY <1>1, <1>2, <1>3, <1>4, <1>5, <1>6, <1>7 DEF LimiterNext

\* Every variable of the limiter keeps its type.
THEOREM LimiterTypeCorrect == LimiterSpec => []LimiterTypeOK
<1>1. LimiterInit => LimiterTypeOK
  BY LimiterAssumption DEF LimiterInit, LimiterTypeOK, NoEntry
<1>2. QED
  BY <1>1, TypesInductive, PTL DEF LimiterSpec

-----------------------------------------------------------------------------
(***************************************************************************)
(* The budget.  A caller that was let in may still strike, so that the     *)
(* failures of a window are bounded together with the callers that have    *)
(* not reported; and a window that is over starts from nothing.            *)
(***************************************************************************)

Budget == Max - 1 + Cardinality(Caller)

\* The strikes of k, with those that may still come, are within the budget.
Bounded(k) ==
  /\ counts[k].count <= Budget
  /\ Fresh(k) \/ counts[k].count + Cardinality(Trying(k)) <= Budget

BoundInv == LimiterTypeOK /\ \A k \in Key : Bounded(k)

\* The callers of a key are finitely many, and no more than there are.
LEMMA TryingFinite ==
  ASSUME NEW k \in Key
  PROVE  /\ IsFiniteSet(Trying(k)) /\ Cardinality(Trying(k)) \in Nat
         /\ Cardinality(Caller) \in Nat
         /\ Cardinality(Trying(k)) <= Cardinality(Caller)
<1>1. Trying(k) \subseteq Caller
  BY DEF Trying
<1>2. IsFiniteSet(Caller)
  BY LimiterAssumption
<1>3. QED
  BY <1>1, <1>2, FS_Subset, FS_CardinalityType

\* When a caller leaves a key, one less may still strike.
LEMMA OneLess ==
  ASSUME NEW k \in Key, NEW c \in Trying(k), Trying(k)' = Trying(k) \ {c}
  PROVE  Cardinality(Trying(k))' = Cardinality(Trying(k)) - 1
<1>1. IsFiniteSet(Trying(k))
  BY TryingFinite
<1>2. Cardinality(Trying(k) \ {c}) = Cardinality(Trying(k)) - 1
  BY <1>1, FS_RemoveElement
<1>3. QED
  BY <1>2

\* No callers are added and no strikes made: the bound of a key stays.
LEMMA KeepsBound ==
  ASSUME LimiterTypeOK, LimiterTypeOK', NEW k \in Key, Bounded(k),
         Trying(k)' \subseteq Trying(k), now' >= now, counts'[k] = counts[k]
  PROVE  Bounded(k)'
<1>1. IsFiniteSet(Trying(k)) /\ Cardinality(Trying(k)) \in Nat /\ Cardinality(Caller) \in Nat
  BY TryingFinite
<1>2. /\ Cardinality(Trying(k)') \in Nat
      /\ Cardinality(Trying(k)') <= Cardinality(Trying(k))
  BY <1>1, FS_Subset, FS_CardinalityType
<1>3. counts[k] \in [start : Nat, count : Nat] /\ now \in Nat /\ now' \in Nat
  BY LimiterAssumption DEF LimiterTypeOK
<1>4. Fresh(k) => Fresh(k)'
  BY <1>3, LimiterAssumption DEF Fresh, RolledOver
<1>5. QED
  BY <1>1, <1>2, <1>3, <1>4, LimiterAssumption DEF Bounded, Budget

\* A key without strikes is within the budget if there is a caller.
LEMMA NoStrikes ==
  ASSUME NEW k \in Key, counts'[k].count = 0, LimiterTypeOK'
  PROVE  Bounded(k)'
<1>1. Cardinality(Caller) \in Nat
  BY TryingFinite
<1>2. QED
  BY <1>1, LimiterAssumption DEF Bounded, Fresh, Budget

\* Every step keeps the failures counted, with the callers still to report, bounded.
LEMMA BoundInductive == BoundInv /\ [LimiterNext]_limiterVars => BoundInv'
<1> SUFFICES ASSUME BoundInv, [LimiterNext]_limiterVars PROVE BoundInv'
  OBVIOUS
<1>0. LimiterTypeOK /\ LimiterTypeOK' /\ \A k \in Key : Bounded(k)
  BY TypesInductive DEF BoundInv
<1> SUFFICES ASSUME NEW k \in Key PROVE Bounded(k)'
  BY <1>0 DEF BoundInv
<1>t. /\ now \in Nat /\ counts \in [Key -> [start : Nat, count : Nat]]
      /\ trying \in [Caller -> Key \cup {Nobody}] /\ Nobody \notin Key
      /\ Window \in Nat \ {0} /\ Max \in Nat \ {0} /\ Cardinality(Caller) \in Nat
  BY <1>0, LimiterAssumption, TryingFinite DEF LimiterTypeOK
<1>1. ASSUME NEW c \in Caller, NEW l \in Key, Admit(c, l) PROVE Bounded(k)'
  <2>1. now' = now /\ counts' = counts /\ trying' = [trying EXCEPT ![c] = l] /\ Allow(l)
    BY <1>1 DEF Admit
  <2>2. CASE k # l
    <3>1. Trying(k)' \subseteq Trying(k)
      BY <2>1, <2>2, <1>t DEF Trying
    <3>2. QED
      BY <3>1, <2>1, <1>0, <1>t, KeepsBound
  <2>3. CASE k = l
    <3>1. Cardinality(Trying(k)') <= Cardinality(Caller) /\ Cardinality(Trying(k)') \in Nat
      <4>1. Trying(k)' \subseteq Caller
        BY DEF Trying
      <4>2. QED
        BY <4>1, LimiterAssumption, FS_Subset, FS_CardinalityType
    <3>2. Fresh(k) => Fresh(k)'
      BY <2>1 DEF Fresh, RolledOver
    <3>3. Fresh(k) \/ counts[k].count <= Max - 1
      BY <2>1, <2>3, <1>t DEF Allow
    <3>4. counts[k].count <= Budget
      BY <1>0 DEF Bounded
    <3>5. QED
      BY <2>1, <3>1, <3>2, <3>3, <3>4, <1>t DEF Bounded, Budget
  <2>4. QED
    BY <2>2, <2>3
<1>2. ASSUME NEW c \in Caller, Strike(c) PROVE Bounded(k)'
  <2>1. trying[c] \in Key /\ now' = now /\ trying' = [trying EXCEPT ![c] = Nobody]
    BY <1>2, <1>t DEF Strike
  <2>2. CASE k # trying[c]
    <3>1. Trying(k)' \subseteq Trying(k) /\ counts'[k] = counts[k]
      BY <1>2, <2>1, <2>2, <1>t DEF Trying, Strike
    <3>2. QED
      BY <3>1, <2>1, <1>0, <1>t, KeepsBound
  <2>3. CASE k = trying[c]
    <3>1. c \in Trying(k) /\ Trying(k)' = Trying(k) \ {c}
      BY <2>1, <2>3, <1>t DEF Trying
    <3>2. Cardinality(Trying(k))' = Cardinality(Trying(k)) - 1
      BY <3>1, OneLess
    <3>3. /\ Cardinality(Trying(k)) \in Nat /\ Cardinality(Trying(k)) <= Cardinality(Caller)
          /\ Cardinality(Trying(k)) # 0
      BY <3>1, TryingFinite, FS_EmptySet
    <3>4. counts'[k] = IF Fresh(k) THEN [start |-> now, count |-> 1]
                       ELSE [counts[k] EXCEPT !.count = counts[k].count + 1]
      BY <1>2, <2>3, <1>t DEF Strike
    <3>5. CASE Fresh(k)
      BY <3>2, <3>3, <3>4, <3>5, <1>t DEF Bounded, Budget
    <3>6. CASE ~Fresh(k)
      <4>1. counts'[k].count = counts[k].count + 1
        BY <3>4, <3>6, <1>t
      <4>2. counts[k].count + Cardinality(Trying(k)) <= Budget
        BY <1>0, <3>6 DEF Bounded
      <4>3. QED
        BY <4>1, <4>2, <3>2, <3>3, <1>t DEF Bounded, Budget
    <3>7. QED
      BY <3>5, <3>6
  <2>4. QED
    BY <2>2, <2>3
<1>3. ASSUME NEW c \in Caller, Reset(c) PROVE Bounded(k)'
  <2>1. now' = now /\ Trying(k)' \subseteq Trying(k)
    BY <1>3, <1>t DEF Reset, Trying
  <2>2. counts'[k] = counts[k] \/ counts'[k] = NoEntry
    BY <1>3, <1>t DEF Reset
  <2>3. CASE counts'[k] = counts[k]
    BY <2>1, <2>3, <1>0, <1>t, KeepsBound
  <2>4. CASE counts'[k] = NoEntry
    BY <2>4, <1>0, NoStrikes DEF NoEntry
  <2>5. QED
    BY <2>2, <2>3, <2>4
<1>4. ASSUME NEW c \in Caller, Abandon(c) PROVE Bounded(k)'
  <2>1. now' = now /\ counts' = counts /\ Trying(k)' \subseteq Trying(k)
    BY <1>4, <1>t DEF Abandon, Trying
  <2>2. QED
    BY <2>1, <1>0, <1>t, KeepsBound
<1>5. CASE Janitor
  <2>1. now' = now /\ Trying(k)' \subseteq Trying(k)
    BY <1>5 DEF Janitor, Trying
  <2>2. counts'[k] = counts[k] \/ counts'[k] = NoEntry
    BY <1>5, <1>t DEF Janitor
  <2>3. CASE counts'[k] = counts[k]
    BY <2>1, <2>3, <1>0, <1>t, KeepsBound
  <2>4. CASE counts'[k] = NoEntry
    BY <2>4, <1>0, NoStrikes DEF NoEntry
  <2>5. QED
    BY <2>2, <2>3, <2>4
<1>6. CASE Tick
  <2>1. now' >= now /\ counts' = counts /\ Trying(k)' \subseteq Trying(k)
    BY <1>6, <1>t DEF Tick, Trying
  <2>2. QED
    BY <2>1, <1>0, <1>t, KeepsBound
<1>7. CASE UNCHANGED limiterVars
  <2>1. now' = now /\ counts' = counts /\ Trying(k)' \subseteq Trying(k)
    BY <1>7 DEF Trying
  <2>2. QED
    BY <2>1, <1>0, <1>t, KeepsBound
<1>8. QED
  BY <1>1, <1>2, <1>3, <1>4, <1>5, <1>6, <1>7 DEF LimiterNext

\* The failures of a window exceed the budget by at most the callers that were
\* let in together.
THEOREM StrikesAreBounded == LimiterSpec => []StrikesBounded
<1>1. LimiterInit => BoundInv
  <2> SUFFICES ASSUME LimiterInit PROVE BoundInv
    OBVIOUS
  <2>1. LimiterTypeOK
    BY LimiterAssumption DEF LimiterInit, LimiterTypeOK, NoEntry
  <2>2. \A k \in Key : Bounded(k)
    BY LimiterAssumption, TryingFinite DEF LimiterInit, NoEntry, Bounded, Budget, Fresh
  <2>3. QED
    BY <2>1, <2>2 DEF BoundInv
<1>2. BoundInv => StrikesBounded
  BY LimiterAssumption, TryingFinite
  DEF BoundInv, Bounded, Budget, StrikesBounded, LimiterTypeOK
<1>3. QED
  BY <1>1, <1>2, BoundInductive, PTL DEF LimiterSpec

-----------------------------------------------------------------------------
(***************************************************************************)
(* Refusals.                                                               *)
(***************************************************************************)

\* No window starts in the future.
StartInv == LimiterTypeOK /\ \A k \in Key : counts[k].start <= now

\* Only who has failed too often is refused, and never for longer than a window.
THEOREM RefusalsAreJustified == LimiterSpec => []RefusalJustified
<1>1. LimiterInit => StartInv
  BY LimiterAssumption DEF LimiterInit, LimiterTypeOK, NoEntry, StartInv
<1>2. StartInv /\ [LimiterNext]_limiterVars => StartInv'
  <2> SUFFICES ASSUME StartInv, [LimiterNext]_limiterVars PROVE StartInv'
    OBVIOUS
  <2>1. LimiterTypeOK' /\ LimiterTypeOK
    BY TypesInductive DEF StartInv
  <2> SUFFICES ASSUME NEW k \in Key PROVE counts'[k].start <= now'
    BY <2>1 DEF StartInv
  <2>2. /\ counts[k].start \in Nat /\ counts[k].start <= now
        /\ now \in Nat /\ counts \in [Key -> [start : Nat, count : Nat]]
    BY <2>1, LimiterAssumption DEF StartInv, LimiterTypeOK
  <2>3. now' = now \/ now' = now + 1
    BY DEF LimiterNext, Admit, Strike, Reset, Abandon, Janitor, Tick
  <2>4. counts'[k].start \in {0, now, counts[k].start}
    <3>1. ASSUME NEW c \in Caller, Strike(c) PROVE counts'[k].start \in {now, counts[k].start}
      BY <3>1, <2>2, <2>1 DEF Strike, LimiterTypeOK
    <3>2. ASSUME NEW c \in Caller, Reset(c) PROVE counts'[k].start \in {0, counts[k].start}
      BY <3>2, <2>2 DEF Reset, NoEntry
    <3>3. CASE Janitor
      BY <3>3, <2>2 DEF Janitor, NoEntry
    <3>4. CASE UNCHANGED counts
      BY <3>4
    <3>5. QED
      BY <3>1, <3>2, <3>3, <3>4 DEF LimiterNext, Admit, Abandon, Tick
  <2>5. QED
    BY <2>2, <2>3, <2>4
<1>3. StartInv => RefusalJustified
  <2> SUFFICES ASSUME StartInv, NEW k \in Key, ~Allow(k)
               PROVE counts[k].count >= Max /\ RetryAfter(k) \in 1 .. Window
    BY DEF RefusalJustified
  <2>1. /\ counts[k].start \in Nat /\ counts[k].count \in Nat /\ counts[k].start <= now
        /\ now \in Nat /\ Window \in Nat /\ Max \in Nat
    BY LimiterAssumption DEF StartInv, LimiterTypeOK
  <2>2. ~Fresh(k) /\ counts[k].count >= Max /\ now - counts[k].start < Window
    BY <2>1 DEF Allow, Fresh, RolledOver
  <2>3. QED
    BY <2>1, <2>2 DEF RetryAfter
<1>4. QED
  BY <1>1, <1>2, <1>3, PTL DEF LimiterSpec

\* The janitor changes neither who is refused nor for how long.
THEOREM JanitorIsInvisible == LimiterSpec => JanitorInvisible
<1>1. LimiterInit => LimiterTypeOK
  BY LimiterAssumption DEF LimiterInit, LimiterTypeOK, NoEntry
<1>2. LimiterTypeOK /\ Janitor =>
        \A k \in Key : Allow(k)' = Allow(k) /\ RetryAfter(k)' = RetryAfter(k)
  <2> SUFFICES ASSUME LimiterTypeOK, Janitor, NEW k \in Key
               PROVE Allow(k)' = Allow(k) /\ RetryAfter(k)' = RetryAfter(k)
    OBVIOUS
  <2>1. now' = now /\ counts'[k] = IF RolledOver(k) THEN NoEntry ELSE counts[k]
    BY DEF Janitor
  <2>2. CASE RolledOver(k)
    BY <2>1, <2>2 DEF Allow, RetryAfter, Fresh, RolledOver, NoEntry
  <2>3. CASE ~RolledOver(k)
    BY <2>1, <2>3 DEF Allow, RetryAfter, Fresh, RolledOver
  <2>4. QED
    BY <2>2, <2>3
<1>3. QED
  BY <1>1, <1>2, TypesInductive, PTL DEF LimiterSpec, JanitorInvisible

=============================================================================
