---------------------------- MODULE PartsProofs ----------------------------
(***************************************************************************)
(* Theorems about the three small parts that share no state: SelfUpdate,   *)
(* Settings and PublicName, each by its own specification, for any values  *)
(* of their constants.                                                     *)
(***************************************************************************)
EXTENDS SelfUpdate, Settings, PublicName, SequenceTheorems, WellFoundedInduction, TLAPS

-----------------------------------------------------------------------------
(***************************************************************************)
(* SelfUpdate: what is in the cache file, in a check and on the screen is   *)
(* a release that came out, or none.                                       *)
(***************************************************************************)

\* Every release named anywhere is one that exists, and the hint on the screen
\* is right.
UpdateInv ==
  /\ out \in 1..Len(Release)
  /\ running \in (1..Len(Release)) \cup {Dev}
  /\ file.latest \in 0..Len(Release)
  /\ check \in [Process -> [pc : {"idle", "asking", "writing", "truncated"}, latest : 0..Len(Release)]]
  /\ HintIsRight

\* What splitSemver makes of a release: its first three numbers.
LEMMA ReleaseParts ==
  ASSUME NEW i \in 1..Len(Release)
  PROVE  /\ splitSemver(Release[i]) # NoSemver
         /\ \A k \in 1..3 : splitSemver(Release[i])[k] = Release[i][k] /\ Release[i][k] \in Nat
<1>1. Release[i] \in Seq(Nat) /\ Len(Release[i]) >= 3 /\ Len(Release[i]) \in Nat
  <2>1. Release \in Seq(Seq(Nat)) /\ Len(Release[i]) >= 3
    BY SomeRelease
  <2>2. Release[i] \in Seq(Nat)
    BY <2>1, ElementOfSeq
  <2>3. QED
    BY <2>1, <2>2, LenProperties
<1>2. \A k \in 1..3 : Release[i][k] \in Nat
  BY <1>1
<1>3. splitSemver(Release[i]) = SubSeq(Release[i], 1, 3)
  BY <1>1, <1>2 DEF splitSemver, NoNumber
<1> DEFINE q == SubSeq(Release[i], 1, 3)
<1>4. Len(q) = 3 /\ \A k \in 1..3 : q[k] = Release[i][k]
  BY <1>1
<1> HIDE DEF q
<1>5. q # <<>>
  BY <1>4, EmptySeq
<1>6. QED
  BY <1>2, <1>3, <1>4, <1>5 DEF NoSemver, q

\* newerThan finds out the order in which releases came out.
LEMMA NewerIsLater ==
  ASSUME NEW i \in 1..Len(Release), NEW j \in 1..Len(Release)
  PROVE  newerThan(Release[i], Release[j]) <=> i > j
<1> DEFINE c == splitSemver(Release[i])
           u == splitSemver(Release[j])
<1>1. /\ c # NoSemver /\ u # NoSemver
      /\ \A k \in 1..3 : c[k] = Release[i][k] /\ u[k] = Release[j][k] /\ c[k] \in Nat /\ u[k] \in Nat
  BY ReleaseParts
<1>2. newerThan(Release[i], Release[j])
        <=> \E k \in 1..3 : c[k] > u[k] /\ \A m \in 1..(k - 1) : c[m] >= u[m]
  BY <1>1 DEF newerThan
<1> HIDE DEF c, u
<1>3. i \in Nat /\ j \in Nat
  OBVIOUS
<1>4. CASE i = j
  <2>1. \A k \in 1..3 : c[k] = u[k]
    BY <1>1, <1>4
  <2>2. ~ \E k \in 1..3 : c[k] > u[k]
    BY <1>1, <2>1
  <2>3. QED
    BY <1>2, <1>3, <1>4, <2>2
<1>5. CASE j < i
  <2>1. PICK k \in 1..3 : Release[j][k] < Release[i][k] /\ \A m \in 1..(k - 1) : Release[j][m] = Release[i][m]
    BY <1>5, ReleasesGoUp
  <2>2. c[k] > u[k] /\ \A m \in 1..(k - 1) : c[m] >= u[m]
    <3>1. c[k] > u[k]
      BY <1>1, <2>1
    <3>2. ASSUME NEW m \in 1..(k - 1) PROVE c[m] >= u[m]
      <4>1. m \in 1..3 /\ Release[j][m] = Release[i][m]
        BY <2>1
      <4>2. c[m] = u[m] /\ c[m] \in Nat
        BY <1>1, <4>1
      <4>3. QED
        BY <4>2
    <3>3. QED
      BY <3>1, <3>2
  <2>3. QED
    BY <1>2, <1>5, <2>2
<1>6. CASE i < j
  <2>1. PICK k \in 1..3 : Release[i][k] < Release[j][k] /\ \A m \in 1..(k - 1) : Release[i][m] = Release[j][m]
    BY <1>6, ReleasesGoUp
  <2>2. c[k] < u[k]
    BY <1>1, <2>1
  <2>3. ASSUME NEW l \in 1..3, c[l] > u[l], \A m \in 1..(l - 1) : c[m] >= u[m]
        PROVE  FALSE
    <3>1. c[k] \in Nat /\ u[k] \in Nat /\ c[l] \in Nat /\ u[l] \in Nat
      BY <1>1
    <3>2. CASE k < l
      <4>1. k \in 1..(l - 1)
        BY <3>2
      <4>2. c[k] >= u[k]
        BY <2>3, <4>1
      <4>3. QED
        BY <2>2, <3>1, <4>2
    <3>3. CASE k = l
      BY <2>2, <2>3, <3>1, <3>3
    <3>4. CASE l < k
      <4>1. l \in 1..(k - 1)
        BY <3>4
      <4>2. Release[i][l] = Release[j][l]
        BY <2>1, <4>1
      <4>3. c[l] = u[l]
        BY <1>1, <4>2
      <4>4. QED
        BY <2>3, <3>1, <4>3
    <3>5. QED
      BY <3>2, <3>3, <3>4
  <2>4. QED
    BY <1>2, <1>3, <1>6, <2>3
<1>7. QED
  BY <1>3, <1>4, <1>5, <1>6

\* Every step of a process, and the world around it.
LEMMA UpdateStep == ASSUME UpdateInv, [UpdateNext]_updateVars PROVE UpdateInv'
<1> USE DEF UpdateInv
<1>1. Len(Release) \in Nat /\ 1 \in 1..Len(Release)
  BY SomeRelease, LenProperties, EmptySeq
<1>2. ASSUME NEW p \in Process, Run(p) PROVE UpdateInv'
  <2>1. UNCHANGED <<out, running, file>> /\ running # Dev
    BY <1>2 DEF Run
  <2>2. check' = check \/ check' = [check EXCEPT ![p].pc = "asking"]
    BY <1>2 DEF Run
  <2>3. HintIsRight'
    <3>1. /\ shown' = [latest |-> file.latest, running |-> running,
                       hint |-> file.latest # 0 /\ newerThan(Release[file.latest], Release[running])]
      BY <1>2 DEF Run
    <3>2. file.latest # 0 => (newerThan(Release[file.latest], Release[running]) <=> file.latest > running)
      BY <2>1, NewerIsLater
    <3>3. QED
      BY <2>1, <3>1, <3>2 DEF HintIsRight
  <2>4. check' \in [Process -> [pc : {"idle", "asking", "writing", "truncated"}, latest : 0..Len(Release)]]
    BY <2>2
  <2>5. QED
    BY <2>1, <2>3, <2>4
<1>3. ASSUME NEW p \in Process, Answered(p) \/ CheckDies(p) \/ Truncate(p) \/ Write(p) PROVE UpdateInv'
  <2>1. UNCHANGED <<out, running, shown>>
    BY <1>3 DEF Answered, CheckDies, Truncate, Write
  <2>2. file'.latest \in 0..Len(Release)
    BY <1>1, <1>3 DEF Answered, CheckDies, Truncate, Write, Truncated
  <2>3. check' \in [Process -> [pc : {"idle", "asking", "writing", "truncated"}, latest : 0..Len(Release)]]
    BY <1>1, <1>3 DEF Answered, CheckDies, Truncate, Write, Idle
  <2>4. QED
    BY <2>1, <2>2, <2>3 DEF HintIsRight
<1>4. CASE runUpdate \/ ReleaseOut \/ HourPasses \/ UNCHANGED updateVars
  BY <1>1, <1>4 DEF runUpdate, ReleaseOut, HourPasses, updateVars, HintIsRight
<1>5. QED
  BY <1>2, <1>3, <1>4 DEF UpdateNext

\* An update hint is right in every behaviour, for any releases that go up and
\* any number of processes that share the cache file, crash in the middle of a
\* write and install releases.
THEOREM HintsAreRight == UpdateSpec => []HintIsRight
<1>1. UpdateInit => UpdateInv
  <2>1. Len(Release) \in Nat /\ 1 \in 1..Len(Release)
    BY SomeRelease, LenProperties, EmptySeq
  <2>2. QED
    BY <2>1 DEF UpdateInit, UpdateInv, NoFile, Idle, HintIsRight
<1>2. UpdateInv /\ [UpdateNext]_updateVars => UpdateInv'
  BY UpdateStep
<1>3. UpdateInv => HintIsRight
  BY DEF UpdateInv
<1>4. QED
  BY <1>1, <1>2, <1>3, PTL DEF UpdateSpec

-----------------------------------------------------------------------------
(***************************************************************************)
(* The largest and the smallest element of a set of places, and sequences  *)
(* that are cut there.                                                     *)
(***************************************************************************)

\* Some number of a set is the smallest.
LEMMA SmallestOf ==
  ASSUME NEW K \in SUBSET Nat, K # {}
  PROVE  \E x \in K : \A y \in K : x <= y
<1> DEFINE Less == {p \in Nat \X Nat : p[1] < p[2]}
<1>1. IsWellFoundedOn(Less, Nat)
  BY NatLessThanWellFounded DEF OpToRel
<1>2. PICK x \in K : \A y \in K : ~ (<<y, x>> \in Less)
  BY <1>1, WFMin
<1>3. ASSUME NEW y \in K PROVE x <= y
  <2>1. <<y, x>> \in Nat \X Nat /\ ~ (y < x)
    BY <1>2
  <2>2. QED
    BY <2>1
<1>4. QED
  BY <1>3

\* Min, of places in a sequence.
LEMMA MinOf ==
  ASSUME NEW n \in Nat, NEW K \in SUBSET (1..n), K # {}
  PROVE  Min(K) \in K /\ \A y \in K : Min(K) <= y
<1>1. \E x \in K : \A y \in K : x <= y
  BY SmallestOf
<1>2. QED
  BY <1>1 DEF Min

\* Max, of places in a sequence.
LEMMA MaxOf ==
  ASSUME NEW n \in Nat, NEW K \in SUBSET (1..n), K # {}
  PROVE  Max(K) \in K /\ \A y \in K : y <= Max(K)
<1> DEFINE T == {n - x : x \in K}
<1>1. T \in SUBSET Nat /\ T # {}
  <2>1. \A x \in K : n - x \in Nat
    OBVIOUS
  <2>2. QED
    BY <2>1
<1>2. PICK t \in T : \A u \in T : t <= u
  BY <1>1, SmallestOf
<1>3. PICK x \in K : t = n - x
  OBVIOUS
<1>4. \A y \in K : y <= x
  <2> TAKE y \in K
  <2>1. n - x <= n - y
    BY <1>2, <1>3
  <2>2. QED
    BY <2>1
<1>5. \E z \in K : \A y \in K : z >= y
  BY <1>4
<1>6. Max(K) \in K /\ \A y \in K : Max(K) >= y
  BY <1>5 DEF Max
<1>7. QED
  BY <1>6

\* The front of a sequence.
LEMMA FrontOf ==
  ASSUME NEW S, NEW q \in Seq(S), NEW n \in 0..Len(q)
  PROVE  /\ SubSeq(q, 1, n) \in Seq(S) /\ Len(SubSeq(q, 1, n)) = n
         /\ \A i \in 1..n : SubSeq(q, 1, n)[i] = q[i]
         /\ n = Len(q) => SubSeq(q, 1, n) = q
<1>1. Len(q) \in Nat /\ n \in Nat /\ n <= Len(q)
  BY LenProperties
<1>2. SubSeq(q, 1, n) \in Seq(S) /\ Len(SubSeq(q, 1, n)) = n
  BY <1>1, SubSeqProperties
<1>3. \A i \in 1..n : SubSeq(q, 1, n)[i] = q[i]
  BY <1>1, SubSeqProperties
<1>4. ASSUME n = Len(q) PROVE SubSeq(q, 1, n) = q
  BY <1>1, <1>2, <1>3, <1>4, SeqEqual
<1>5. QED
  BY <1>2, <1>3, <1>4

-----------------------------------------------------------------------------
(***************************************************************************)
(* Settings: what is loaded was accepted, and is repaired for good.        *)
(***************************************************************************)

\* A domain that was trimmed is not trimmed further.
LEMMA TrimmedOnce ==
  ASSUME NEW S, NEW d \in Seq(S)
  PROVE  TrimRight(TrimRight(d)) = TrimRight(d)
<1> DEFINE Kept(q) == {i \in DOMAIN q : q[i] \notin {".", "/", ":"}}
<1>1. DOMAIN d = 1..Len(d) /\ Len(d) \in Nat
  BY LenProperties
<1>2. CASE Kept(d) = {}
  <2>1. TrimRight(d) = <<>>
    BY <1>2 DEF TrimRight
  <2>2. Kept(<<>>) = {}
    OBVIOUS
  <2>3. TrimRight(<<>>) = <<>>
    BY <2>2 DEF TrimRight
  <2>4. QED
    BY <2>1, <2>3
<1>3. CASE Kept(d) # {}
  <2> DEFINE m == Max(Kept(d))
             t == SubSeq(d, 1, m)
  <2>1. TrimRight(d) = t
    BY <1>3 DEF TrimRight
  <2>2. m \in Kept(d) /\ m \in 1..Len(d) /\ d[m] \notin {".", "/", ":"}
    <3>1. Kept(d) \in SUBSET (1..Len(d))
      BY <1>1
    <3> HIDE DEF Kept
    <3>2. m \in Kept(d)
      BY <1>1, <1>3, <3>1, MaxOf
    <3>3. QED
      BY <3>1, <3>2 DEF Kept
  <2> HIDE DEF m
  <2>3. t \in Seq(S) /\ Len(t) = m /\ t[m] = d[m] /\ m \in Nat \ {0}
    BY <1>1, <2>2, FrontOf
  <2> HIDE DEF t
  <2>4. DOMAIN t = 1..m
    BY <2>3, LenProperties
  <2>5. Kept(t) \in SUBSET (1..m) /\ m \in Kept(t)
    BY <2>2, <2>3, <2>4
  <2> HIDE DEF Kept
  <2>6. Max(Kept(t)) = m
    <3>1. Max(Kept(t)) \in Kept(t) /\ \A y \in Kept(t) : y <= Max(Kept(t))
      BY <2>3, <2>5, MaxOf
    <3>2. m <= Max(Kept(t)) /\ Max(Kept(t)) \in 1..m
      BY <2>5, <3>1
    <3>3. QED
      BY <2>3, <3>2
  <2>7. TrimRight(t) = SubSeq(t, 1, m)
    BY <2>5, <2>6 DEF TrimRight, Kept
  <2>8. SubSeq(t, 1, m) = t
    BY <2>3, FrontOf
  <2>9. QED
    BY <2>1, <2>7, <2>8
<1>4. QED
  BY <1>2, <1>3

\* What Validate repairs stays as it is when it is validated again.
LEMMA RepairedOnce ==
  ASSUME NEW s \in Setting
  PROVE  /\ Repaired(Repaired(s)) = Repaired(s)
         /\ Repaired(s).minPort \in Nat /\ Repaired(s).maxPort \in Nat
         /\ Repaired(s).httpPort = s.httpPort /\ Repaired(s).email = s.email
         /\ Repaired(s).cert = s.cert /\ Repaired(s).key = s.key
<1>1. s.domain \in DomainValue /\ s.minPort \in PortValue /\ s.maxPort \in PortValue
  BY DEF Setting
<1>2. s.minPort \in Nat /\ s.maxPort \in Nat
  BY <1>1, SettingsAssumption
<1>3. TrimRight(TrimRight(s.domain)) = TrimRight(s.domain)
  <2>1. s.domain \in Seq(ToSet(s.domain))
    BY <1>1, SettingsAssumption
  <2>2. QED
    BY <2>1, TrimmedOnce
<1>4. DefaultRange[1] = 20000 /\ DefaultRange[2] = 20100
  BY DEF DefaultRange
<1> DEFINE r == Repaired(s)
<1>5. /\ TrimRight(r.domain) = r.domain
      /\ (IF r.adminBind = "unset" THEN "127.0.0.1" ELSE r.adminBind) = r.adminBind
      /\ r.logLevel = "info"
      /\ (IF r.minPort = 0 THEN DefaultRange[1] ELSE r.minPort) = r.minPort
      /\ (IF r.maxPort = 0 THEN DefaultRange[2] ELSE r.maxPort) = r.maxPort
  <2>1. TrimRight(r.domain) = r.domain
    BY <1>3 DEF Repaired
  <2>2. (IF r.adminBind = "unset" THEN "127.0.0.1" ELSE r.adminBind) = r.adminBind /\ r.logLevel = "info"
    BY DEF Repaired
  <2>3. (IF r.minPort = 0 THEN DefaultRange[1] ELSE r.minPort) = r.minPort
    BY <1>4 DEF Repaired
  <2>4. (IF r.maxPort = 0 THEN DefaultRange[2] ELSE r.maxPort) = r.maxPort
    BY <1>4 DEF Repaired
  <2>5. QED
    BY <2>1, <2>2, <2>3, <2>4
<1>6. r = [domain |-> r.domain, httpPort |-> r.httpPort, adminPort |-> r.adminPort, adminBind |-> r.adminBind,
           logLevel |-> r.logLevel, email |-> r.email, cert |-> r.cert, key |-> r.key,
           minPort |-> r.minPort, maxPort |-> r.maxPort]
  BY DEF Repaired
<1>7. /\ r.minPort \in Nat /\ r.maxPort \in Nat
      /\ r.httpPort = s.httpPort /\ r.email = s.email /\ r.cert = s.cert /\ r.key = s.key
  BY <1>2, <1>4 DEF Repaired
<1> HIDE DEF r
<1>8. Repaired(r) = r
  BY <1>5, <1>6 DEF Repaired
<1>9. QED
  BY <1>7, <1>8 DEF r

\* What was loaded had been accepted, and was repaired.
SettingsInv ==
  /\ phase = "loaded" => \E s \in Setting : Accepted(s) /\ settings = Repaired(s)
  /\ StartedAsValidated

\* The three steps of a start.
LEMMA SettingsStep == ASSUME SettingsInv, [SettingsNext]_settingsVars PROVE SettingsInv'
<1>1. CASE LoadServer
  <2>1. phase' # "serving"
    BY <1>1 DEF LoadServer
  <2>2. phase' = "loaded" => \E s \in Setting : Accepted(s) /\ settings' = Repaired(s)
    BY <1>1 DEF LoadServer
  <2>3. QED
    BY <2>1, <2>2 DEF SettingsInv, StartedAsValidated
<1>2. CASE StartFails
  BY <1>2 DEF StartFails, SettingsInv, StartedAsValidated
<1>3. CASE Start
  <2>1. PICK s \in Setting : Accepted(s) /\ settings = Repaired(s)
    BY <1>3 DEF Start, SettingsInv
  <2>2. phase' # "loaded" /\ settings' = settings
    BY <1>3 DEF Start
  <2>3. /\ 1024 <= settings.minPort /\ settings.minPort <= settings.maxPort /\ settings.maxPort <= 65535
        /\ settings.minPort \in Nat /\ settings.maxPort \in Nat /\ Repaired(settings) = settings
        /\ settings.httpPort = 443 => settings.email \/ settings.cert
    BY <2>1, RepairedOnce DEF Accepted
  <2>4. range' = <<settings.minPort, settings.maxPort>>
    BY <1>3, <2>3 DEF Start, SetTCPPortRange
  <2>5. tls' = "plain" => ~ (settings.cert /\ settings.key) /\ ~ settings.email
    BY <1>3 DEF Start, buildTLSConfig
  <2>6. range'[1] = settings.minPort /\ range'[2] = settings.maxPort
    BY <2>4
  <2>7. Repaired(settings)' = settings'
    BY <2>2, <2>3
  <2>8. Accepted(settings) \/ settings.domain = <<>>
    <3>1. Accepted(settings) <=>
            /\ settings.domain # <<>>
            /\ settings.httpPort = 443 => settings.email \/ settings.cert
            /\ settings.minPort >= 1024 /\ settings.minPort <= 65535
            /\ settings.maxPort >= 1024 /\ settings.maxPort <= 65535
            /\ settings.minPort <= settings.maxPort
      BY <2>3 DEF Accepted
    <3>2. /\ settings.minPort >= 1024 /\ settings.minPort <= 65535
          /\ settings.maxPort >= 1024 /\ settings.maxPort <= 65535
      BY <2>3
    <3>3. QED
      BY <2>3, <3>1, <3>2
  <2>9. (Accepted(settings) \/ settings.domain = <<>>)'
    BY <2>2, <2>8
  <2>10. StartedAsValidated'
    BY <2>2, <2>3, <2>4, <2>5, <2>6, <2>7, <2>9 DEF StartedAsValidated
  <2>11. QED
    BY <2>2, <2>10 DEF SettingsInv
<1>4. CASE UNCHANGED settingsVars
  BY <1>4 DEF settingsVars, SettingsInv, StartedAsValidated
<1>5. QED
  BY <1>1, <1>2, <1>3, <1>4 DEF SettingsNext

\* For any candidate values of the ports and the domain, whatever was merged into
\* the settings: a server that serves has the configured range of ports, and its
\* configuration would pass Validate again and stay as it is, unless its domain
\* was trimmed to nothing.
THEOREM StartsAsValidated == SettingsSpec => []StartedAsValidated
<1>1. SettingsInit => SettingsInv
  BY DEF SettingsInit, SettingsInv, StartedAsValidated
<1>2. SettingsInv /\ [SettingsNext]_settingsVars => SettingsInv'
  BY SettingsStep
<1>3. SettingsInv => StartedAsValidated
  BY DEF SettingsInv
<1>4. QED
  BY <1>1, <1>2, <1>3, PTL DEF SettingsSpec


-----------------------------------------------------------------------------
(***************************************************************************)
(* PublicName: what a host ends with, and where its port is cut off.       *)
(***************************************************************************)

\* Reverse, element by element.
LEMMA ReverseOf ==
  ASSUME NEW S, NEW q \in Seq(S)
  PROVE  /\ Reverse(q) \in Seq(S) /\ Len(Reverse(q)) = Len(q)
         /\ \A i \in 1..Len(q) : Reverse(q)[i] = q[Len(q) - i + 1]
<1>1. Len(q) \in Nat /\ \A i \in 1..Len(q) : q[i] \in S
  BY LenProperties, ElementOfSeq
<1>2. \A i \in 1..Len(q) : Len(q) - i + 1 \in 1..Len(q)
  BY <1>1
<1>3. Reverse(q) = [i \in 1..Len(q) |-> q[(Len(q) - i) + 1]]
  BY DEF Reverse
<1>4. Reverse(q) \in [1..Len(q) -> S]
  BY <1>1, <1>2, <1>3
<1>5. Reverse(q) \in Seq(S)
  BY <1>1, <1>4, SeqDef
<1>6. Len(Reverse(q)) = Len(q)
  <2>1. DOMAIN Reverse(q) = 1..Len(q)
    BY <1>4
  <2>2. DOMAIN Reverse(q) = 1..Len(Reverse(q)) /\ Len(Reverse(q)) \in Nat
    BY <1>5, LenProperties
  <2>3. QED
    BY <1>1, <2>1, <2>2
<1>7. QED
  BY <1>3, <1>5, <1>6

\* A suffix, element by element.
LEMMA SuffixElements ==
  ASSUME NEW S, NEW t \in Seq(S), NEW h \in Seq(S)
  PROVE  IsSuffix(t, h) <=> /\ Len(t) <= Len(h)
                            /\ \A i \in 1..Len(t) : t[i] = h[Len(h) - Len(t) + i]
<1> DEFINE a == Reverse(t)
           b == Reverse(h)
<1>1. Len(t) \in Nat /\ Len(h) \in Nat
  BY LenProperties
<1>2. /\ a \in Seq(S) /\ Len(a) = Len(t) /\ \A i \in 1..Len(t) : a[i] = t[Len(t) - i + 1]
      /\ b \in Seq(S) /\ Len(b) = Len(h) /\ \A i \in 1..Len(h) : b[i] = h[Len(h) - i + 1]
  BY ReverseOf
<1>3. IsSuffix(t, h) <=> Len(a) <= Len(b) /\ SubSeq(a, 1, Len(a)) = SubSeq(b, 1, Len(a))
  BY DEF IsSuffix, IsPrefix
<1> HIDE DEF a, b
<1>4. CASE Len(t) <= Len(h)
  <2>1. /\ SubSeq(a, 1, Len(a)) = a
        /\ SubSeq(b, 1, Len(a)) \in Seq(S) /\ Len(SubSeq(b, 1, Len(a))) = Len(a)
        /\ \A i \in 1..Len(a) : SubSeq(b, 1, Len(a))[i] = b[i]
    BY <1>1, <1>2, <1>4, FrontOf
  <2>2. SubSeq(b, 1, Len(a)) = a <=> \A i \in 1..Len(a) : a[i] = b[i]
    BY <1>2, <2>1, SeqEqual
  <2>3. (\A i \in 1..Len(a) : a[i] = b[i])
          <=> \A i \in 1..Len(t) : t[i] = h[Len(h) - Len(t) + i]
    <3>1. ASSUME \A i \in 1..Len(a) : a[i] = b[i], NEW i \in 1..Len(t)
          PROVE  t[i] = h[Len(h) - Len(t) + i]
      <4> DEFINE k == Len(t) - i + 1
      <4>1. k \in 1..Len(t) /\ k \in 1..Len(h) /\ Len(t) - k + 1 = i /\ Len(h) - k + 1 = Len(h) - Len(t) + i
        BY <1>1, <1>4
      <4> HIDE DEF k
      <4>2. a[k] = b[k] /\ a[k] = t[Len(t) - k + 1] /\ b[k] = h[Len(h) - k + 1]
        BY <1>2, <3>1, <4>1
      <4>3. QED
        BY <4>1, <4>2
    <3>2. ASSUME \A i \in 1..Len(t) : t[i] = h[Len(h) - Len(t) + i], NEW k \in 1..Len(a)
          PROVE  a[k] = b[k]
      <4> DEFINE i == Len(t) - k + 1
      <4>1. i \in 1..Len(t) /\ k \in 1..Len(t) /\ k \in 1..Len(h) /\ Len(h) - Len(t) + i = Len(h) - k + 1
        BY <1>1, <1>2, <1>4
      <4>2. a[k] = t[i] /\ b[k] = h[Len(h) - k + 1]
        BY <1>2, <4>1
      <4> HIDE DEF i
      <4>3. t[i] = h[Len(h) - Len(t) + i]
        BY <3>2, <4>1
      <4>4. QED
        BY <4>1, <4>2, <4>3
    <3>3. QED
      BY <3>1, <3>2
  <2>4. QED
    BY <1>2, <1>3, <1>4, <2>1, <2>2, <2>3
<1>5. CASE ~ (Len(t) <= Len(h))
  BY <1>2, <1>3, <1>5
<1>6. QED
  BY <1>4, <1>5

\* What is put after something is a suffix of it, and cutting it off gives that
\* something back.
LEMMA SuffixOf ==
  ASSUME NEW S, NEW u \in Seq(S), NEW t \in Seq(S)
  PROVE  /\ IsSuffix(t, u \o t)
         /\ SubSeq(u \o t, 1, Len(u \o t) - Len(t)) = u
<1>1. /\ Len(u) \in Nat /\ Len(t) \in Nat
      /\ u \o t \in Seq(S) /\ Len(u \o t) = Len(u) + Len(t)
      /\ \A i \in 1..Len(u) + Len(t) : (u \o t)[i] = IF i <= Len(u) THEN u[i] ELSE t[i - Len(u)]
  BY LenProperties, ConcatProperties
<1> DEFINE h == u \o t
<1>2. /\ h \in Seq(S) /\ Len(h) = Len(u) + Len(t)
      /\ \A i \in 1..Len(u) + Len(t) : h[i] = IF i <= Len(u) THEN u[i] ELSE t[i - Len(u)]
  BY <1>1
<1> HIDE DEF h
<1>3. \A i \in 1..Len(t) : t[i] = h[Len(h) - Len(t) + i]
  <2> TAKE i \in 1..Len(t)
  <2>1. Len(h) - Len(t) + i = Len(u) + i /\ Len(u) + i \in 1..Len(u) + Len(t) /\ ~ (Len(u) + i <= Len(u))
        /\ Len(u) + i - Len(u) = i
    BY <1>1, <1>2
  <2>2. QED
    BY <1>2, <2>1
<1>4. IsSuffix(t, h)
  <2>1. h \in Seq(S) /\ Len(t) <= Len(h)
    BY <1>1, <1>2
  <2>2. QED
    BY <1>3, <2>1, SuffixElements
<1>5. Len(h) - Len(t) = Len(u) /\ Len(u) \in 0..Len(h)
  BY <1>1, <1>2
<1>6. /\ SubSeq(h, 1, Len(u)) \in Seq(S) /\ Len(SubSeq(h, 1, Len(u))) = Len(u)
      /\ \A i \in 1..Len(u) : SubSeq(h, 1, Len(u))[i] = h[i]
  BY <1>2, <1>5, FrontOf
<1>7. \A i \in 1..Len(u) : h[i] = u[i]
  BY <1>1, <1>2
<1>8. SubSeq(h, 1, Len(u)) = u
  BY <1>6, <1>7, SeqEqual
<1>9. QED
  BY <1>4, <1>5, <1>8 DEF h

\* A sequence is what is left when a suffix is cut off, and the suffix.
LEMMA SuffixCut ==
  ASSUME NEW S, NEW t \in Seq(S), NEW h \in Seq(S), IsSuffix(t, h)
  PROVE  /\ SubSeq(h, 1, Len(h) - Len(t)) \in Seq(S)
         /\ h = SubSeq(h, 1, Len(h) - Len(t)) \o t
<1>1. Len(t) \in Nat /\ Len(h) \in Nat /\ Len(t) <= Len(h)
  BY LenProperties, SuffixElements
<1>2. \A i \in 1..Len(t) : t[i] = h[Len(h) - Len(t) + i]
  BY SuffixElements
<1> DEFINE n == Len(h) - Len(t)
           u == SubSeq(h, 1, n)
<1>3. n \in 0..Len(h) /\ n \in Nat /\ n + Len(t) = Len(h)
  BY <1>1
<1>4. u \in Seq(S) /\ Len(u) = n /\ \A i \in 1..n : u[i] = h[i]
  BY <1>3, FrontOf
<1> HIDE DEF u
<1> DEFINE g == u \o t
<1>5. /\ g \in Seq(S) /\ Len(g) = n + Len(t)
      /\ \A i \in 1..n + Len(t) : g[i] = IF i <= n THEN u[i] ELSE t[i - n]
  BY <1>4, ConcatProperties
<1> HIDE DEF g
<1>6. ASSUME NEW i \in 1..Len(h) PROVE h[i] = g[i]
  <2>1. CASE i <= n
    BY <1>3, <1>4, <1>5, <2>1
  <2>2. CASE ~ (i <= n)
    <3>1. i - n \in 1..Len(t) /\ n + (i - n) = i
      BY <1>1, <1>3, <2>2
    <3>2. t[i - n] = h[n + (i - n)]
      BY <1>2, <3>1
    <3>3. QED
      BY <1>3, <1>5, <2>2, <3>1, <3>2
  <2>3. QED
    BY <2>1, <2>2
<1>7. h = g
  BY <1>3, <1>5, <1>6, SeqEqual
<1>8. QED
  BY <1>4, <1>7 DEF u, g

\* What a host with a port is made of.
HostChar == Char \cup {":", "1"}

\* A host is cut where its port begins, at the first colon or at the last.
LEMMA CutAtPort ==
  ASSUME NEW h \in Seq(Char), NEW p \in Port
  PROVE  CutAtFirstColon(h \o p) = h /\ CutAtLastColon(h \o p) = h
<1>1. Len(h) \in Nat /\ \A i \in 1..Len(h) : h[i] \in Char
  BY LenProperties, ElementOfSeq
<1>2. ":" \notin Char
  BY NamesAssumption DEF Char
<1>3. \A i \in 1..Len(h) : h[i] # ":"
  BY <1>1, <1>2
<1>4. CASE p = <<>>
  <2>1. h \o p = h
    BY <1>4, ConcatEmptySeq
  <2>2. ~ Contains(h, ":")
    BY <1>3 DEF Contains
  <2>3. QED
    BY <2>1, <2>2 DEF CutAtFirstColon, CutAtLastColon
<1>5. CASE p = <<":", "1">>
  <2> DEFINE g == h \o p
             K == {i \in DOMAIN g : g[i] = ":"}
             n == Len(h) + 1
  <2>1. h \in Seq(HostChar) /\ p \in Seq(HostChar) /\ Len(p) = 2 /\ p[1] = ":" /\ p[2] = "1"
    <3>1. h \in Seq(HostChar)
      BY SeqMonotonic DEF HostChar
    <3>2. QED
      BY <1>5, <3>1 DEF HostChar
  <2>2. /\ g \in Seq(HostChar) /\ Len(g) = Len(h) + 2
        /\ \A i \in 1..Len(h) + 2 : g[i] = IF i <= Len(h) THEN h[i] ELSE p[i - Len(h)]
    <3>1. h \in Seq(HostChar) /\ p \in Seq(HostChar) /\ Len(p) = 2
      BY <2>1
    <3>2. /\ h \o p \in Seq(HostChar) /\ Len(h \o p) = Len(h) + Len(p)
          /\ \A i \in 1..Len(h) + Len(p) : (h \o p)[i] = IF i <= Len(h) THEN h[i] ELSE p[i - Len(h)]
      BY <3>1, ConcatProperties
    <3>3. QED
      BY <3>1, <3>2
  <2>3. DOMAIN g = 1..Len(h) + 2
    BY <2>2, LenProperties
  <2> HIDE DEF g
  <2>4. g[n] = ":" /\ g[n + 1] = "1" /\ \A i \in 1..Len(h) : g[i] = h[i]
    BY <1>1, <2>1, <2>2
  <2>5. K = {n}
    <3>1. ASSUME NEW i \in K PROVE i = n
      <4>1. i \in 1..Len(h) + 2 /\ g[i] = ":"
        BY <2>3
      <4>2. i \in 1..Len(h) \/ i = n \/ i = n + 1
        BY <1>1, <4>1
      <4>3. QED
        BY <1>3, <2>4, <4>1, <4>2
    <3>2. n \in K
      BY <1>1, <2>3, <2>4
    <3>3. QED
      BY <3>1, <3>2
  <2>6. Contains(g, ":")
    BY <1>1, <2>2, <2>4 DEF Contains
  <2>7. n \in 1..(Len(h) + 2) /\ Len(h) + 2 \in Nat
    BY <1>1
  <2> HIDE DEF n
  <2>8. Min(K) = n /\ Max(K) = n
    <3>1. {n} \in SUBSET (1..(Len(h) + 2)) /\ {n} # {}
      BY <2>7
    <3>2. Min({n}) \in {n} /\ Max({n}) \in {n}
      BY <2>7, <3>1, MinOf, MaxOf
    <3>3. QED
      BY <2>5, <3>2
  <2> HIDE DEF K
  <2>9. CutAtFirstColon(g) = SubSeq(g, 1, n - 1) /\ CutAtLastColon(g) = SubSeq(g, 1, n - 1)
    BY <2>6, <2>8 DEF CutAtFirstColon, CutAtLastColon, K
  <2>10. SubSeq(g, 1, n - 1) = h
    <3>1. n - 1 = Len(h) /\ Len(h) \in 0..Len(g)
      BY <1>1, <2>2 DEF n
    <3>2. /\ SubSeq(g, 1, Len(h)) \in Seq(HostChar) /\ Len(SubSeq(g, 1, Len(h))) = Len(h)
          /\ \A i \in 1..Len(h) : SubSeq(g, 1, Len(h))[i] = g[i]
      BY <2>2, <3>1, FrontOf
    <3>3. QED
      BY <2>1, <2>4, <3>1, <3>2, SeqEqual
  <2>11. QED
    BY <2>9, <2>10 DEF g
<1>6. QED
  BY <1>4, <1>5 DEF Port

-----------------------------------------------------------------------------
(***************************************************************************)
(* The label of a host, which names Register gives, and that it gives the   *)
(* same one again.                                                         *)
(***************************************************************************)

\* What a label is made of.
LabelChar == LowerCase \cup {"-"}

\* The classes of characters do not overlap.
LEMMA LabelChars ==
  /\ LabelChar \subseteq Char
  /\ " " \notin LabelChar /\ "." \notin LabelChar /\ "-" \notin LowerCase
  /\ LabelChar \cap UpperCase = {}
  /\ MinLen \in Nat \ {0} /\ MaxLen \in Nat
  /\ Domain \in Seq(Char) /\ OtherDomain \in Seq(Char)
  /\ "." \in Char
BY NamesAssumption DEF LabelChar, Char

\* A host under a domain.
LEMMA UnderOf ==
  ASSUME NEW n \in Seq(Char), NEW base \in Seq(Char)
  PROVE  /\ <<".">> \o base \in Seq(Char) /\ Len(<<".">> \o base) = Len(base) + 1
         /\ Under(n, base) = n \o (<<".">> \o base)
         /\ Under(n, base) \in Seq(Char)
         /\ Len(Under(n, base)) = Len(n) + Len(base) + 1
<1> DEFINE dot == <<".">>
<1>1. dot \in Seq(Char) /\ Len(dot) = 1
  <2>1. "." \in Char
    BY LabelChars
  <2>2. QED
    BY <2>1
<1>2. Len(n) \in Nat /\ Len(base) \in Nat
  BY LenProperties
<1> HIDE DEF dot
<1>3. dot \o base \in Seq(Char) /\ Len(dot \o base) = 1 + Len(base)
  BY <1>1, ConcatProperties
<1>4. (n \o dot) \o base = n \o (dot \o base)
  BY <1>1, ConcatAssociative
<1>5. n \o (dot \o base) \in Seq(Char) /\ Len(n \o (dot \o base)) = Len(n) + Len(dot \o base)
  BY <1>3, ConcatProperties
<1>6. Under(n, base) = (n \o dot) \o base
  BY DEF Under, dot
<1>7. QED
  BY <1>2, <1>3, <1>4, <1>5, <1>6 DEF dot

\* A label is read back from its host, with a port or without.
LEMMA LabelReadBack ==
  ASSUME NEW n \in Seq(Char), ~ Contains(n, "."), NEW p \in Port
  PROVE  /\ extractSubdomain(Under(n, Domain) \o p, Domain) = n
         /\ IsSuffix(<<".">> \o Domain, Under(n, Domain))
<1> DEFINE t == <<".">> \o Domain
           h == Under(n, Domain)
<1>1. t \in Seq(Char) /\ h \in Seq(Char) /\ h = n \o t
  BY LabelChars, UnderOf
<1>2. CutAtLastColon(h \o p) = h
  BY <1>1, CutAtPort
<1>3. IsSuffix(t, n \o t) /\ SubSeq(n \o t, 1, Len(n \o t) - Len(t)) = n
  BY <1>1, SuffixOf
<1>4. IsSuffix(t, h) /\ SubSeq(h, 1, Len(h) - Len(t)) = n
  BY <1>1, <1>3
<1>5. extractSubdomain(h \o p, Domain)
        = IF IsSuffix(t, h) /\ ~ Contains(SubSeq(h, 1, Len(h) - Len(t)), ".")
          THEN SubSeq(h, 1, Len(h) - Len(t)) ELSE <<>>
  BY <1>2 DEF extractSubdomain
<1>6. QED
  BY <1>4, <1>5

\* Only the host of a label gives that label.
LEMMA LabelOfHost ==
  ASSUME NEW h \in Seq(Char), NEW p \in Port, extractSubdomain(h \o p, Domain) # <<>>
  PROVE  h = Under(extractSubdomain(h \o p, Domain), Domain)
<1> DEFINE t == <<".">> \o Domain
           u == SubSeq(h, 1, Len(h) - Len(t))
<1>1. t \in Seq(Char)
  BY LabelChars, UnderOf
<1>2. CutAtLastColon(h \o p) = h
  BY CutAtPort
<1>3. extractSubdomain(h \o p, Domain) = IF IsSuffix(t, h) /\ ~ Contains(u, ".") THEN u ELSE <<>>
  BY <1>2 DEF extractSubdomain
<1>4. IsSuffix(t, h) /\ extractSubdomain(h \o p, Domain) = u
  BY <1>3
<1>5. u \in Seq(Char) /\ h = u \o t
  BY <1>1, <1>4, SuffixCut
<1>6. Under(u, Domain) = u \o t
  BY <1>5, LabelChars, UnderOf
<1>7. QED
  BY <1>4, <1>5, <1>6

\* A legal name is made of label characters, and is not empty.
LEMMA LegalIsLabel ==
  ASSUME NEW n \in Seq(Char), IsLegal(n)
  PROVE  /\ n \in Seq(LabelChar) /\ n # <<>> /\ Len(n) \in Nat \ {0}
         /\ ~ Contains(n, ".")
<1>1. Len(n) \in Nat /\ DOMAIN n = 1..Len(n) /\ n \in [1..Len(n) -> Char]
  BY LenProperties
<1>2. Len(n) >= MinLen /\ ToSet(n) \subseteq LabelChar
  BY DEF IsLegal, LabelChar
<1>3. Len(n) \in Nat \ {0}
  <2>1. MinLen \in Nat \ {0}
    BY LabelChars
  <2>2. QED
    BY <1>1, <1>2, <2>1
<1>4. \A i \in 1..Len(n) : n[i] \in LabelChar
  BY <1>1, <1>2 DEF ToSet
<1>5. n \in Seq(LabelChar)
  <2>1. n \in [1..Len(n) -> LabelChar]
    BY <1>1, <1>4
  <2>2. QED
    BY <1>1, <2>1, SeqDef
<1>6. ~ Contains(n, ".")
  BY <1>4, LabelChars DEF Contains
<1>7. QED
  BY <1>3, <1>5, <1>6, EmptySeq

\* Sanitize changes nothing in a legal name: asked for again, it is given again.
LEMMA NameGivenAgain ==
  ASSUME NEW n \in Seq(Char), IsLegal(n)
  PROVE  NamesFor(n) = {n} /\ ToLower(n) = n
<1>1. n \in Seq(LabelChar) /\ n # <<>> /\ Len(n) \in Nat \ {0}
  BY LegalIsLabel
<1>2. DOMAIN n = 1..Len(n) /\ n \in [1..Len(n) -> LabelChar]
  BY <1>1, LenProperties
<1>3. \A i \in 1..Len(n) : n[i] # " " /\ n[i] \notin UpperCase
  BY <1>2, LabelChars
<1>4. ToLower(n) = n
  <2>1. ToLower(n) = [i \in DOMAIN n |-> n[i]]
    BY <1>2, <1>3 DEF ToLower
  <2>2. QED
    BY <1>2, <2>1
<1>5. TrimSpace(n) = n
  <2> DEFINE ink == {i \in DOMAIN n : n[i] # " "}
  <2>1. ink = 1..Len(n)
    BY <1>2, <1>3
  <2>2. 1 \in 1..Len(n) /\ Len(n) \in 1..Len(n)
    BY <1>1
  <2>3. Min(1..Len(n)) = 1 /\ Max(1..Len(n)) = Len(n)
    <3> DEFINE K == 1..Len(n)
    <3>1. K \in SUBSET (1..Len(n)) /\ K # {} /\ 1 \in K /\ Len(n) \in K /\ \A i \in K : 1 <= i /\ i <= Len(n)
      BY <2>2
    <3>2. K \in SUBSET Int
      OBVIOUS
    <3> HIDE DEF K
    <3>3. /\ Min(K) \in K /\ \A y \in K : Min(K) <= y
          /\ Max(K) \in K /\ \A y \in K : y <= Max(K)
      BY <1>1, <3>1, MinOf, MaxOf
    <3>4. Min(K) <= 1 /\ Len(n) <= Max(K) /\ 1 <= Min(K) /\ Max(K) <= Len(n) /\ Min(K) \in Int /\ Max(K) \in Int
      BY <3>1, <3>2, <3>3
    <3>5. QED
      BY <1>1, <3>4 DEF K
  <2>4. TrimSpace(n) = SubSeq(n, 1, Len(n))
    BY <2>1, <2>2, <2>3 DEF TrimSpace
  <2>5. QED
    BY <1>1, <2>4, SubSeqFull
<1>6. QED
  BY <1>1, <1>4, <1>5 DEF NamesFor, Sanitize

\* A random name has the shape the validator asks for.
LEMMA RandomIsLegal ==
  ASSUME NEW n \in RandomSubdomain
  PROVE  n \in Seq(Char) /\ IsLegal(n)
<1>1. PICK a \in Adjective, m \in Noun, s \in Suffix : n = a \o <<"-">> \o m \o <<"-">> \o s
  BY DEF RandomSubdomain
<1> DEFINE hyphen == <<"-">>
           A == Len(a)
           B == Len(m)
           C == Len(s)
<1>2. /\ a \in Seq(LowerCase) /\ m \in Seq(LowerCase) /\ s \in Seq(LowerCase)
      /\ A \in Nat \ {0} /\ B \in Nat \ {0} /\ C \in Nat \ {0}
  <2>1. /\ a \in Seq(LowerCase) /\ m \in Seq(LowerCase) /\ s \in Seq(LowerCase)
        /\ a # <<>> /\ m # <<>> /\ s # <<>>
    BY NamesAssumption
  <2>2. QED
    BY <2>1, EmptySeq
<1>3. /\ \A i \in 1..A : a[i] \in LowerCase
      /\ \A i \in 1..B : m[i] \in LowerCase
      /\ \A i \in 1..C : s[i] \in LowerCase
  BY <1>2, ElementOfSeq
<1>4. LowerCase \subseteq LabelChar
  BY DEF LabelChar
<1>5. a \in Seq(LabelChar) /\ m \in Seq(LabelChar) /\ s \in Seq(LabelChar)
  BY <1>2, <1>4, SeqMonotonic
<1>6. hyphen \in Seq(LabelChar) /\ Len(hyphen) = 1 /\ hyphen[1] = "-"
  BY DEF LabelChar
<1> HIDE DEF hyphen
<1> DEFINE q1 == a \o hyphen
           q2 == q1 \o m
           q3 == q2 \o hyphen
           q4 == q3 \o s
<1>7. /\ q1 \in Seq(LabelChar) /\ Len(q1) = A + 1
      /\ \A i \in 1..A + 1 : q1[i] = IF i <= A THEN a[i] ELSE hyphen[i - A]
  <2>1. /\ q1 \in Seq(LabelChar) /\ Len(q1) = Len(a) + Len(hyphen)
        /\ \A i \in 1..Len(a) + Len(hyphen) : q1[i] = IF i <= Len(a) THEN a[i] ELSE hyphen[i - Len(a)]
    BY <1>5, <1>6, ConcatProperties
  <2>2. QED
    BY <1>6, <2>1
<1>8. \A i \in 1..A + 1 : IF i = A + 1 THEN q1[i] = "-" ELSE q1[i] \in LowerCase
  <2> TAKE i \in 1..A + 1
  <2>1. CASE i = A + 1
    BY <1>2, <1>6, <1>7, <2>1
  <2>2. CASE i # A + 1
    <3>1. i \in 1..A /\ i <= A
      BY <1>2, <2>2
    <3>2. QED
      BY <1>3, <1>7, <2>2, <3>1
  <2>3. QED
    BY <2>1, <2>2
<1> HIDE DEF q1
<1>9. /\ q2 \in Seq(LabelChar) /\ Len(q2) = A + 1 + B
      /\ \A i \in 1..A + 1 + B : q2[i] = IF i <= A + 1 THEN q1[i] ELSE m[i - (A + 1)]
  <2>1. /\ q2 \in Seq(LabelChar) /\ Len(q2) = Len(q1) + Len(m)
        /\ \A i \in 1..Len(q1) + Len(m) : q2[i] = IF i <= Len(q1) THEN q1[i] ELSE m[i - Len(q1)]
    BY <1>5, <1>7, ConcatProperties
  <2>2. QED
    BY <1>7, <2>1
<1>10. \A i \in 1..A + 1 + B : IF i = A + 1 THEN q2[i] = "-" ELSE q2[i] \in LowerCase
  <2> TAKE i \in 1..A + 1 + B
  <2>1. CASE i <= A + 1
    <3>1. i \in 1..A + 1
      BY <1>2, <2>1
    <3>2. QED
      BY <1>8, <1>9, <2>1, <3>1
  <2>2. CASE ~ (i <= A + 1)
    <3>1. i - (A + 1) \in 1..B /\ i # A + 1
      BY <1>2, <2>2
    <3>2. QED
      BY <1>3, <1>9, <2>2, <3>1
  <2>3. QED
    BY <2>1, <2>2
<1> HIDE DEF q2
<1>11. /\ q3 \in Seq(LabelChar) /\ Len(q3) = A + B + 2
       /\ \A i \in 1..A + B + 2 : q3[i] = IF i <= A + B + 1 THEN q2[i] ELSE hyphen[i - (A + B + 1)]
  <2>1. /\ q3 \in Seq(LabelChar) /\ Len(q3) = Len(q2) + Len(hyphen)
        /\ \A i \in 1..Len(q2) + Len(hyphen) : q3[i] = IF i <= Len(q2) THEN q2[i] ELSE hyphen[i - Len(q2)]
    BY <1>6, <1>9, ConcatProperties
  <2>2. Len(q2) = A + B + 1 /\ Len(q2) + Len(hyphen) = A + B + 2
    BY <1>2, <1>6, <1>9
  <2>3. QED
    BY <2>1, <2>2
<1>12. \A i \in 1..A + B + 2 : IF i \in {A + 1, A + B + 2} THEN q3[i] = "-" ELSE q3[i] \in LowerCase
  <2> TAKE i \in 1..A + B + 2
  <2>1. CASE i <= A + B + 1
    <3>1. i \in 1..A + 1 + B /\ i # A + B + 2
      BY <1>2, <2>1
    <3>2. QED
      BY <1>10, <1>11, <2>1, <3>1
  <2>2. CASE ~ (i <= A + B + 1)
    <3>1. i = A + B + 2 /\ i - (A + B + 1) = 1
      BY <1>2, <2>2
    <3>2. QED
      BY <1>6, <1>11, <2>2, <3>1
  <2>3. QED
    BY <2>1, <2>2
<1> HIDE DEF q3
<1>13. /\ q4 \in Seq(LabelChar) /\ Len(q4) = A + B + C + 2
       /\ \A i \in 1..A + B + C + 2 : q4[i] = IF i <= A + B + 2 THEN q3[i] ELSE s[i - (A + B + 2)]
  <2>1. /\ q4 \in Seq(LabelChar) /\ Len(q4) = Len(q3) + Len(s)
        /\ \A i \in 1..Len(q3) + Len(s) : q4[i] = IF i <= Len(q3) THEN q3[i] ELSE s[i - Len(q3)]
    BY <1>5, <1>11, ConcatProperties
  <2>2. Len(q3) + Len(s) = A + B + C + 2
    BY <1>2, <1>11
  <2>3. QED
    BY <1>11, <2>1, <2>2
<1>14. \A i \in 1..A + B + C + 2 : IF i \in {A + 1, A + B + 2} THEN q4[i] = "-" ELSE q4[i] \in LowerCase
  <2> TAKE i \in 1..A + B + C + 2
  <2>1. CASE i <= A + B + 2
    <3>1. i \in 1..A + B + 2
      BY <1>2, <2>1
    <3>2. QED
      BY <1>12, <1>13, <2>1, <3>1
  <2>2. CASE ~ (i <= A + B + 2)
    <3>1. i - (A + B + 2) \in 1..C /\ i \notin {A + 1, A + B + 2}
      BY <1>2, <2>2
    <3>2. QED
      BY <1>3, <1>13, <2>2, <3>1
  <2>3. QED
    BY <2>1, <2>2
<1>15. n = q4
  BY <1>1 DEF q1, q2, q3, hyphen
<1> HIDE DEF q4
<1>16. n \in Seq(LabelChar) /\ Len(n) = A + B + C + 2
  BY <1>13, <1>15
<1>17. n[1] # "-" /\ Last(n) # "-"
  <2>1. 1 \in 1..A + B + C + 2 /\ 1 \notin {A + 1, A + B + 2}
    BY <1>2
  <2>2. A + B + C + 2 \in 1..A + B + C + 2 /\ A + B + C + 2 \notin {A + 1, A + B + 2}
    BY <1>2
  <2>3. q4[1] \in LowerCase /\ q4[A + B + C + 2] \in LowerCase
    BY <1>14, <2>1, <2>2
  <2>4. QED
    BY <1>15, <1>16, <2>3, LabelChars DEF Last
<1>18. \A i \in 1..(Len(n) - 1) : ~ (n[i] = "-" /\ n[i + 1] = "-")
  <2> TAKE i \in 1..(Len(n) - 1)
  <2>1. i \in 1..A + B + C + 2 /\ i + 1 \in 1..A + B + C + 2
    BY <1>2, <1>16
  <2>2. i \notin {A + 1, A + B + 2} \/ i + 1 \notin {A + 1, A + B + 2}
    BY <1>2, <2>1
  <2>3. q4[i] \in LowerCase \/ q4[i + 1] \in LowerCase
    BY <1>14, <2>1, <2>2
  <2>4. QED
    BY <1>15, <2>3, LabelChars
<1>19. Len(n) \in MinLen..MaxLen /\ n \notin ReservedNames
  BY RandomNamesFit
<1>20. ToSet(n) \subseteq LowerCase \cup {"-"}
  <2>1. DOMAIN n = 1..Len(n) /\ \A i \in 1..Len(n) : n[i] \in LabelChar
    BY <1>16, LenProperties, ElementOfSeq
  <2>2. QED
    BY <2>1 DEF ToSet, LabelChar
<1>21. n \in Seq(Char)
  BY <1>16, LabelChars, SeqMonotonic
<1>22. Len(n) >= MinLen /\ Len(n) <= MaxLen
  <2>1. MinLen \in Nat /\ MaxLen \in Nat
    BY LabelChars
  <2>2. QED
    BY <1>19, <2>1
<1>23. QED
  BY <1>17, <1>18, <1>19, <1>20, <1>21, <1>22 DEF IsLegal

\* Whatever is asked for, a name that Register gives is legal.
LEMMA NamesAreLegal ==
  ASSUME NEW s \in Seq(Char), NEW n \in NamesFor(s)
  PROVE  n \in Seq(Char) /\ IsLegal(n)
<1>1. CASE s = <<>>
  BY <1>1, RandomIsLegal DEF NamesFor
<1>2. CASE s # <<>>
  <2>1. n = ToLower(TrimSpace(s)) /\ IsLegal(n)
    BY <1>2 DEF NamesFor, Sanitize
  <2>2. TrimSpace(s) \in Seq(Char)
    <3> DEFINE ink == {i \in DOMAIN s : s[i] # " "}
    <3>1. Len(s) \in Nat /\ DOMAIN s = 1..Len(s) /\ \A i \in 1..Len(s) : s[i] \in Char
      BY LenProperties, ElementOfSeq
    <3>2. CASE ink = {}
      BY <3>2, EmptySeq DEF TrimSpace
    <3>3. CASE ink # {}
      <4>1. ink \in SUBSET (1..Len(s))
        BY <3>1
      <4>2. TrimSpace(s) = SubSeq(s, Min(ink), Max(ink))
        BY <3>3 DEF TrimSpace
      <4> HIDE DEF ink
      <4>3. Min(ink) \in 1..Len(s) /\ Max(ink) \in 1..Len(s)
        BY <3>1, <3>3, <4>1, MinOf, MaxOf
      <4> DEFINE lo == Min(ink)
                 hi == Max(ink)
      <4>4. lo \in Int /\ hi \in Int /\ \A i \in lo..hi : s[i] \in Char
        BY <3>1, <4>3
      <4> HIDE DEF lo, hi
      <4>5. SubSeq(s, lo, hi) \in Seq(Char)
        BY <4>4, SubSeqProperties
      <4>6. QED
        BY <4>2, <4>5 DEF lo, hi
    <3>4. QED
      BY <3>2, <3>3
  <2> DEFINE t == TrimSpace(s)
  <2> HIDE DEF t
  <2>3. t \in Seq(Char)
    BY <2>2 DEF t
  <2>4. Len(t) \in Nat /\ DOMAIN t = 1..Len(t) /\ \A i \in 1..Len(t) : t[i] \in Char
    BY <2>3, LenProperties, ElementOfSeq
  <2>5. ToLower(t) \in [1..Len(t) -> Char]
    <3>1. \A i \in 1..Len(t) : (IF t[i] \in UpperCase THEN LowerOf[t[i]] ELSE t[i]) \in Char
      BY <2>4, NamesAssumption DEF Char
    <3>2. QED
      BY <2>4, <3>1 DEF ToLower
  <2>6. ToLower(t) \in Seq(Char)
    BY <2>4, <2>5, SeqDef
  <2>7. QED
    BY <2>1, <2>6 DEF t
<1>3. QED
  BY <1>1, <1>2

-----------------------------------------------------------------------------
(***************************************************************************)
(* The invariant of PublicName: the client has pinned the name its session *)
(* has, which is legal, and a visit was routed by it.                      *)
(***************************************************************************)

NamesInv ==
  /\ pinned \in Seq(Char)
  /\ published # Unpublished =>
       pinned = published /\ published \in Seq(Char) /\ IsLegal(published)
  /\ published = Unpublished => visit = NoVisit
  /\ PublishedIsReachable
  /\ OperatorNamesKept

\* The host of a published name leads to its tunnel.
LEMMA HomeIsServed ==
  ASSUME published \in Seq(Char), IsLegal(published), NEW p \in Port
  PROVE  /\ Route(Under(published, Domain) \o p, "/") = "tunnel"
         /\ extractSubdomain(Under(published, Domain) \o p, Domain) = published
         /\ HostPolicy(Under(published, Domain))
         /\ Under(published, Domain) \o p # <<>>
<1> DEFINE home == Under(published, Domain)
<1>1. published # <<>> /\ Len(published) \in Nat \ {0} /\ ~ Contains(published, ".")
  BY LegalIsLabel
<1>2. Domain \in Seq(Char) /\ Len(Domain) \in Nat
  BY LabelChars, LenProperties
<1>3. home \in Seq(Char) /\ Len(home) = Len(published) + Len(Domain) + 1
  BY <1>2, UnderOf
<1>4. /\ extractSubdomain(home \o p, Domain) = published
      /\ IsSuffix(<<".">> \o Domain, home)
  BY <1>1, LabelReadBack
<1> HIDE DEF home
<1>5. Len(home) > Len(Domain) + 1 /\ home # Domain
  BY <1>1, <1>2, <1>3
<1>6. HostPolicy(home)
  BY <1>4, <1>5 DEF HostPolicy
<1>7. CutAtFirstColon(home \o p) = home
  BY <1>3, CutAtPort
<1>8. Route(home \o p, "/") = "tunnel"
  BY <1>1, <1>4, <1>5, <1>7 DEF Route, ControlPath
<1>9. home \o p # <<>>
  <2>1. CutAtLastColon(home \o p) = home
    BY <1>3, CutAtPort
  <2>2. home \in Seq(HostChar) /\ p \in Seq(HostChar)
    <3>1. home \in Seq(HostChar)
      BY <1>3, SeqMonotonic DEF HostChar
    <3>2. p = <<>> \/ p = <<":", "1">>
      BY DEF Port
    <3>3. ":" \in HostChar /\ "1" \in HostChar
      BY DEF HostChar
    <3>4. p = <<>> => p \in Seq(HostChar)
      BY EmptySeq
    <3>5. p = <<":", "1">> => p \in Seq(HostChar)
      BY <3>3
    <3>6. QED
      BY <3>1, <3>2, <3>4, <3>5
  <2>3. home # <<>>
    <3>1. Len(home) # 0
      BY <1>1, <1>2, <1>3
    <3>2. QED
      BY <3>1, EmptySeq
  <2>4. QED
    BY <2>2, <2>3, ConcatEqualIffEmpty
<1>10. QED
  BY <1>4, <1>6, <1>8, <1>9 DEF home

\* Nothing but that host leads to a tunnel; the domain and ControlPath never do.
LEMMA OthersAreNot ==
  /\ \A h \in Seq(Char), p \in Port, path \in {"/", ControlPath} :
       Route(h \o p, path) = "tunnel" => h = Under(published, Domain)
  /\ \A p \in Port : Route(Domain \o p, "/") = "dashboard"
  /\ \A host : Route(host, ControlPath) = "control"
<1>1. ASSUME NEW h \in Seq(Char), NEW p \in Port, NEW path \in {"/", ControlPath},
             Route(h \o p, path) = "tunnel"
      PROVE  h = Under(published, Domain)
  <2>1. extractSubdomain(h \o p, Domain) # <<>> /\ extractSubdomain(h \o p, Domain) = published
    BY <1>1 DEF Route
  <2>2. QED
    BY <2>1, LabelOfHost
<1>2. ASSUME NEW p \in Port PROVE Route(Domain \o p, "/") = "dashboard"
  <2>1. CutAtFirstColon(Domain \o p) = Domain
    BY LabelChars, CutAtPort
  <2>2. QED
    BY <2>1 DEF Route, ControlPath
<1>3. \A host : Route(host, ControlPath) = "control"
  BY DEF Route
<1>4. QED
  BY <1>1, <1>2, <1>3

\* Every host visitors try is a host and perhaps a port.
LEMMA VisitedHosts ==
  ASSUME published \in Seq(Char), NEW host \in VisitedHost
  PROVE  \E h \in Seq(Char), p \in Port : host = h \o p
<1>1. Domain \in Seq(Char) /\ OtherDomain \in Seq(Char) /\ <<>> \in Seq(Char)
  BY LabelChars, EmptySeq
<1>2. published \o published \in Seq(Char)
  BY ConcatProperties
<1>3. /\ Under(published, Domain) \in Seq(Char)
      /\ Under(published, published) \in Seq(Char)
      /\ Under(<<>>, Domain) \in Seq(Char)
      /\ Under(published, OtherDomain) \in Seq(Char)
      /\ Under(published \o published, Domain) \in Seq(Char)
  BY <1>1, <1>2, UnderOf
<1>4. Under(Under(published, published), Domain) \in Seq(Char)
  BY <1>1, <1>3, UnderOf
<1> DEFINE Host == {Under(published, Domain), Under(published \o published, Domain),
                    Under(Under(published, published), Domain), Under(<<>>, Domain), Domain,
                    Under(published, OtherDomain), published}
<1>5. PICK h \in Host, p \in Port : host = h \o p
  <2>1. VisitedHost = {g \o q : g \in Host, q \in Port}
    BY DEF VisitedHost
  <2> HIDE DEF Host
  <2>2. QED
    BY <2>1
<1>6. h \in Seq(Char)
  BY <1>1, <1>3, <1>4, <1>5
<1> HIDE DEF Host
<1>7. QED
  BY <1>5, <1>6

\* A name that was given can be given again, and is none of the operator's.
LEMMA LegalIsKept ==
  ASSUME NEW n \in Seq(Char), IsLegal(n)
  PROVE  /\ NamesFor(n) = {n}
         /\ \A r \in Reserved : ToLower(r) # ToLower(n)
         /\ n # Unpublished
<1>1. NamesFor(n) = {n} /\ ToLower(n) = n /\ n # <<>>
  BY NameGivenAgain, LegalIsLabel
<1>2. n \notin ReservedNames
  BY DEF IsLegal
<1>3. QED
  BY <1>1, <1>2 DEF ReservedNames, Unpublished

\* A first registration, a reconnect and a visit.
LEMMA NamesStep == ASSUME NamesInv, [NamesNext]_nameVars PROVE NamesInv'
<1>1. ASSUME NEW s \in BoundedSeq(Char, MaxAsked), Register(s), published = Unpublished
      PROVE  NamesInv'
  <2>1. s \in Seq(Char)
    <3>1. PICK m \in 0..MaxAsked : s \in [1..m -> Char]
      BY DEF BoundedSeq, SeqOf
    <3>2. MaxAsked \in Nat
      BY NamesAssumption
    <3>3. m \in Nat
      BY <3>2
    <3>4. QED
      BY <3>1, <3>3, SeqDef
  <2>2. visit' = visit /\ visit = NoVisit
    BY <1>1 DEF Register, NamesInv
  <2>3. CASE NamesFor(s) = {}
    <3>1. pinned' = s /\ published' = Unpublished
      BY <1>1, <2>3 DEF Register
    <3>2. QED
      BY <2>1, <2>2, <3>1 DEF NamesInv, PublishedIsReachable, OperatorNamesKept
  <2>4. CASE NamesFor(s) # {}
    <3>1. published' \in NamesFor(s) /\ pinned' = published'
      BY <1>1, <2>4 DEF Register
    <3>2. published' \in Seq(Char) /\ IsLegal(published')
      <4>1. \A n \in NamesFor(s) : n \in Seq(Char) /\ IsLegal(n)
        BY <2>1, NamesAreLegal
      <4>2. QED
        BY <3>1, <4>1
    <3>3. /\ NamesFor(published') = {published'}
          /\ \A r \in Reserved : ToLower(r) # ToLower(published')
          /\ published' # Unpublished
      BY <3>2, LegalIsKept
    <3>4. HostPolicy(Under(published', Domain))
      <4>1. \A n \in Seq(Char) : IsLegal(n) => HostPolicy(Under(n, Domain))
        <5> TAKE n \in Seq(Char)
        <5> HAVE IsLegal(n)
        <5>1. Len(n) \in Nat \ {0} /\ ~ Contains(n, ".")
          BY LegalIsLabel
        <5>2. Domain \in Seq(Char) /\ Len(Domain) \in Nat /\ <<>> \in Port
          BY LabelChars, LenProperties DEF Port
        <5>3. Len(Under(n, Domain)) = Len(n) + Len(Domain) + 1
          BY <5>2, UnderOf
        <5>4. IsSuffix(<<".">> \o Domain, Under(n, Domain))
          BY <5>1, <5>2, LabelReadBack
        <5>5. QED
          BY <5>1, <5>2, <5>3, <5>4 DEF HostPolicy
      <4>2. QED
        BY <3>2, <4>1
    <3>5. PublishedIsReachable' /\ OperatorNamesKept'
      BY <2>2, <3>3, <3>4 DEF PublishedIsReachable, OperatorNamesKept
    <3>6. QED
      BY <2>2, <3>1, <3>2, <3>3, <3>5 DEF NamesInv
  <2>5. QED
    BY <2>3, <2>4
<1>2. CASE Reconnect
  <2>1. /\ published # Unpublished /\ pinned = published
        /\ published \in Seq(Char) /\ IsLegal(published)
    BY <1>2 DEF Reconnect, NamesInv
  <2>2. NamesFor(pinned) = {published}
    BY <2>1, LegalIsKept
  <2>3. published' = published /\ pinned' = published /\ visit' = NoVisit
    BY <1>2, <2>1, <2>2 DEF Reconnect
  <2>4. QED
    BY <2>1, <2>3 DEF NamesInv, PublishedIsReachable, OperatorNamesKept
<1>3. ASSUME NEW host \in VisitedHost, NEW path \in {"/", ControlPath}, NEW devMode, NEW inbound,
             published # Unpublished, Visit(host, path, inbound, devMode)
      PROVE  NamesInv'
  <2>1. published \in Seq(Char) /\ IsLegal(published) /\ pinned = published
    BY <1>3 DEF NamesInv
  <2>2. UNCHANGED <<pinned, published>>
    BY <1>3 DEF Visit
  <2>3. /\ visit'.host = host /\ visit'.path = path /\ visit'.to = Route(host, path)
        /\ Route(host, path) = "tunnel" => visit'.request = Forward(host, inbound, devMode)
    BY <1>3 DEF Visit
  <2>4. host # <<>> => Forward(host, inbound, devMode).forwarded.host = host
    BY DEF Forward, setForwardedHeaders
  <2>5. PICK h \in Seq(Char), p \in Port : host = h \o p
    BY <2>1, VisitedHosts
  <2>6. ASSUME path = "/", NEW q \in Port, host = Under(published, Domain) \o q
        PROVE  /\ visit'.to = "tunnel"
               /\ extractSubdomain(visit'.request.forwarded.host, Domain) = published
    <3>1. /\ Route(host, "/") = "tunnel" /\ host # <<>>
          /\ extractSubdomain(host, Domain) = published
      BY <2>1, <2>6, HomeIsServed
    <3>2. visit'.request.forwarded.host = host
      BY <2>3, <2>4, <2>6, <3>1
    <3>3. QED
      BY <2>3, <2>6, <3>1, <3>2
  <2>7. PublishedIsReachable'
    <3>1. NamesFor(published) = {published} /\ HostPolicy(Under(published, Domain))
      BY <1>3 DEF NamesInv, PublishedIsReachable
    <3>2. QED
      BY <2>2, <2>3, <2>6, <3>1 DEF PublishedIsReachable
  <2>8. /\ visit'.path = ControlPath => visit'.to = "control"
        /\ visit'.path = "/" /\ visit'.host \in {Domain \o q : q \in Port} => visit'.to = "dashboard"
        /\ visit'.to = "tunnel" => visit'.host \in {Under(published, Domain) \o q : q \in Port}
    BY <2>3, <2>5, OthersAreNot
  <2>9. OperatorNamesKept'
    <3>1. \A n \in Reserved : ToLower(n) # ToLower(published)
      BY <1>3 DEF NamesInv, OperatorNamesKept
    <3>2. QED
      BY <2>2, <2>8, <3>1 DEF OperatorNamesKept
  <2>10. QED
    BY <1>3, <2>1, <2>2, <2>7, <2>9 DEF NamesInv
<1>4. CASE UNCHANGED nameVars
  BY <1>4 DEF nameVars, NamesInv, PublishedIsReachable, OperatorNamesKept
<1>5. QED
  BY <1>1, <1>2, <1>3, <1>4 DEF NamesNext

\* The invariant of every behaviour of PublicName.
LEMMA NamesInvariant == NamesSpec => []NamesInv
<1>1. NamesInit => NamesInv
  BY EmptySeq DEF NamesInit, NamesInv, PublishedIsReachable, OperatorNamesKept
<1>2. NamesInv /\ [NamesNext]_nameVars => NamesInv'
  BY NamesStep
<1>3. QED
  BY <1>1, <1>2, PTL DEF NamesSpec

\* A published name works everywhere a name is read, for names of any length,
\* any alphabet and any domain: asked for again, on a certificate, in the Host
\* of a request with a port or without, and in X-Forwarded-Host.
THEOREM NamesReachable == NamesSpec => []PublishedIsReachable
<1>1. NamesInv => PublishedIsReachable
  BY DEF NamesInv
<1>2. QED
  BY <1>1, NamesInvariant, PTL

\* No tunnel has a reserved name in any case, takes the bare domain or
\* ControlPath, or is reached under another host than its own.
THEOREM OperatorKeepsNames == NamesSpec => []OperatorNamesKept
<1>1. NamesInv => OperatorNamesKept
  BY DEF NamesInv
<1>2. QED
  BY <1>1, NamesInvariant, PTL
=============================================================================
