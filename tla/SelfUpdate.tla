----------------------------- MODULE SelfUpdate -----------------------------
(***************************************************************************)
(* The client's update hint (cmd/client/update.go): the cache file shared  *)
(* by every tunnd process of a user, the background check, `tunnd update`, *)
(* and the comparison of version strings.  A release tag is a sequence of  *)
(* parts between dots, each with the number it starts with (NoNumber if    *)
(* it starts with none); releases come out in a fixed order, which the     *)
(* code does not know.                                                     *)
(***************************************************************************)
EXTENDS Integers, Sequences, TLC

CONSTANTS
  Release,   \* the tags in the order they come out
  Dev,       \* the version of a local build
  Process,   \* client processes that may check in the background
  UpdateTTL, \* updateCheckTTL
  MaxHours   \* bound: the clock

NoNumber == -1

\* There is a release; releases have clean numbers and go up ("our linear release
\* cadence", update.go:235); a local build is none of them.
ASSUME SomeRelease ==
  /\ Release \in Seq(Seq(Nat))
  /\ Release # <<>>
  /\ \A i \in 1..Len(Release) : Len(Release[i]) >= 3
  /\ Dev \notin 1..Len(Release)

ASSUME ReleasesGoUp ==
  \A i, j \in 1..Len(Release) : i < j =>
    \E k \in 1..3 : /\ Release[i][k] < Release[j][k]
                    /\ \A m \in 1..(k - 1) : Release[i][m] = Release[j][m]

VARIABLES
  hour,      \* the clock
  out,       \* how many releases are out
  running,   \* Version: an index of Release, or Dev
  file,      \* update-check.json: NoFile, Truncated, or its two fields
  check,     \* per process, its background goroutine
  shown      \* the last run of maybePrintUpdateHint: what it read and printed

updateVars == <<hour, out, running, file, check, shown>>

NoFile == [checked |-> -UpdateTTL, latest |-> 0]
\* os.WriteFile truncates before it writes: a reader in between sees no JSON.
Truncated == [checked |-> -UpdateTTL, latest |-> 0, torn |-> TRUE]
Idle == [pc |-> "idle", latest |-> 0]

-----------------------------------------------------------------------------
NoSemver == <<>>

\* The leading numbers of the first three parts; what follows a number, and
\* further parts, are ignored.
splitSemver(tag) ==
  IF Len(tag) < 3 \/ \E i \in 1..3 : tag[i] = NoNumber THEN NoSemver ELSE SubSeq(tag, 1, 3)

\* Mutant: no early return on a smaller part.
newerInAnyPart(candidate, current) ==
  LET c == splitSemver(candidate)
      u == splitSemver(current)
  IN  IF c = NoSemver \/ u = NoSemver THEN candidate # current
      ELSE \E i \in 1..3 : c[i] > u[i]

newerThan(candidate, current) ==
  LET c == splitSemver(candidate)
      u == splitSemver(current)
  IN  IF c = NoSemver \/ u = NoSemver THEN candidate # current
      ELSE \E i \in 1..3 : /\ c[i] > u[i]
                           /\ \A j \in 1..(i - 1) : c[j] >= u[j]

-----------------------------------------------------------------------------
UpdateInit ==
  /\ hour = 0
  /\ out = 1
  /\ running \in {1, Dev}
  /\ file = NoFile
  /\ check = [p \in Process |-> Idle]
  /\ shown = [latest |-> 0, running |-> running, hint |-> FALSE]

\* maybePrintUpdateHint: decide on what the file says; out of the cache, also
\* start a check.
Run(p) ==
  /\ running # Dev
  /\ check[p] = Idle
  /\ shown' = [latest |-> file.latest, running |-> running,
               hint |-> /\ file.latest # 0
                        /\ newerThan(Release[file.latest], Release[running])]
  /\ check' = IF hour - file.checked < UpdateTTL
              THEN check ELSE [check EXCEPT ![p].pc = "asking"]
  /\ UNCHANGED <<hour, out, running, file>>

\* fetchLatestVersion: the answer is what was latest when the server gave it.
Answered(p) ==
  /\ check[p].pc = "asking"
  /\ check' = [check EXCEPT ![p] = [pc |-> "writing", latest |-> out]]
  /\ UNCHANGED <<hour, out, running, file, shown>>

\* No network, an error status, the 4 s deadline; or the process ends.
CheckDies(p) ==
  /\ check[p].pc # "idle"
  /\ check' = [check EXCEPT ![p] = Idle]
  /\ UNCHANGED <<hour, out, running, file, shown>>

\* writeUpdateState, in the two steps of os.WriteFile.
Truncate(p) ==
  /\ check[p].pc = "writing"
  /\ file' = Truncated
  /\ check' = [check EXCEPT ![p].pc = "truncated"]
  /\ UNCHANGED <<hour, out, running, shown>>

Write(p) ==
  /\ check[p].pc = "truncated"
  /\ file' = [checked |-> hour, latest |-> check[p].latest]
  /\ check' = [check EXCEPT ![p] = Idle]
  /\ UNCHANGED <<hour, out, running, shown>>

\* `tunnd update` installs the latest release unless it runs already; it does not
\* touch the cache file.
runUpdate ==
  /\ running # out
  /\ running' = out
  /\ UNCHANGED <<hour, out, file, check, shown>>

ReleaseOut ==
  /\ out < Len(Release)
  /\ out' = out + 1
  /\ UNCHANGED <<hour, running, file, check, shown>>

HourPasses ==
  /\ hour < MaxHours
  /\ hour' = hour + 1
  /\ UNCHANGED <<out, running, file, check, shown>>

UpdateNext ==
  \/ \E p \in Process : Run(p) \/ Answered(p) \/ CheckDies(p) \/ Truncate(p) \/ Write(p)
  \/ runUpdate
  \/ ReleaseOut
  \/ HourPasses

UpdateSpec == UpdateInit /\ [][UpdateNext]_updateVars

-----------------------------------------------------------------------------
\* Whatever the processes that share the cache file did to it, and however stale
\* it is, a run hints exactly if the version in the file came out after the one
\* that runs: no hint to go back to an older release after `tunnd update`, none
\* from a torn file, and none missing.
HintIsRight ==
  shown.hint <=> shown.latest # 0 /\ shown.running # Dev /\ shown.latest > shown.running

=============================================================================
