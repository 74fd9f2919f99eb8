------------------------------ MODULE Settings ------------------------------
(***************************************************************************)
(* How the server comes up (internal/config/config.go, runServer and       *)
(* buildTLSConfig in cmd/server/main.go): which file is read, what         *)
(* Validate accepts and repairs, which TLS mode is chosen, and the port    *)
(* range the registry ends up with.  Flags, environment and defaults are   *)
(* merged by viper: any candidate value may come out for any key.          *)
(***************************************************************************)
EXTENDS Naturals, Sequences, SequencesExt, FiniteSetsExt

CONSTANTS
  PortValue,    \* candidates for tcp_min_port and tcp_max_port
  DomainValue   \* candidates for domain, sequences of characters

ASSUME SettingsAssumption ==
  /\ PortValue \subseteq Nat
  /\ \A d \in DomainValue : d \in Seq(ToSet(d))

VARIABLES
  phase,     \* how far runServer got
  settings,  \* the loaded configuration
  tls,       \* what buildTLSConfig returned
  range      \* the registry's port range

settingsVars == <<phase, settings, tls, range>>

Setting == [domain : DomainValue, httpPort : {443, 8080}, adminPort : {9091, 8080},
            adminBind : {"unset", "127.0.0.1"}, logLevel : {"info", "loud"},
            email : BOOLEAN, cert : BOOLEAN, key : BOOLEAN,
            minPort : PortValue, maxPort : PortValue]
NotLoaded == "not loaded"
DefaultRange == <<20000, 20100>>

-----------------------------------------------------------------------------
\* loadConfigFile: a file named by --config is used if it is there, else nothing;
\* otherwise the first that exists of three.  The result is the state of that file.
loadConfigFile(flag, searched) ==
  LET present == {i \in DOMAIN searched : searched[i] # "absent"}
  IN  IF flag # "unset" THEN flag
      ELSE IF present = {} THEN "absent" ELSE searched[Min(present)]

FileState ==
  {loadConfigFile(flag, searched) : flag \in {"unset", "absent", "bad", "good"},
                                    searched \in [1..3 -> {"absent", "bad", "good"}]}

TrimRight(d) ==
  LET kept == {i \in DOMAIN d : d[i] \notin {".", "/", ":"}}
  IN  IF kept = {} THEN <<>> ELSE SubSeq(d, 1, Max(kept))

\* What Server.Validate repairs.
Repaired(s) ==
  [domain |-> TrimRight(s.domain),
   httpPort |-> s.httpPort,
   adminPort |-> s.adminPort,
   adminBind |-> IF s.adminBind = "unset" THEN "127.0.0.1" ELSE s.adminBind,
   logLevel |-> "info",
   email |-> s.email, cert |-> s.cert, key |-> s.key,
   minPort |-> IF s.minPort = 0 THEN DefaultRange[1] ELSE s.minPort,
   maxPort |-> IF s.maxPort = 0 THEN DefaultRange[2] ELSE s.maxPort]

\* Mutant: the two ends of the range are checked one by one only.
AcceptedBackwards(s) ==
  LET r == Repaired(s)
  IN  /\ s.domain # <<>>
      /\ s.httpPort = 443 => s.email \/ s.cert
      /\ r.minPort >= 1024 /\ r.minPort <= 65535
      /\ r.maxPort >= 1024 /\ r.maxPort <= 65535

\* What it insists on; the domain before it is trimmed, the rest in any order.
Accepted(s) ==
  LET r == Repaired(s)
  IN  /\ s.domain # <<>>
      /\ s.httpPort = 443 => s.email \/ s.cert
      /\ r.minPort >= 1024 /\ r.minPort <= 65535
      /\ r.maxPort >= 1024 /\ r.maxPort <= 65535
      /\ r.minPort <= r.maxPort

buildTLSConfig(s) ==
  CASE s.cert /\ s.key -> "manual"
    [] ~ (s.cert /\ s.key) /\ s.email -> "acme"
    [] OTHER -> "plain"

\* SetTCPPortRange keeps the old range if the new one is not a range.
SetTCPPortRange(min, max) ==
  IF min < 1 \/ max < 1 \/ min > max THEN range ELSE <<min, max>>

-----------------------------------------------------------------------------
SettingsInit ==
  /\ phase = "start"
  /\ settings = NotLoaded
  /\ tls = "none"
  /\ range = DefaultRange

\* LoadServer: read, merge, validate.
LoadServer ==
  /\ phase = "start"
  /\ \E state \in FileState :
       IF state = "bad"
       THEN phase' = "refused" /\ UNCHANGED settings
       ELSE \E s \in Setting :
              /\ phase' = IF Accepted(s) THEN "loaded" ELSE "refused"
              /\ settings' = Repaired(s)
  /\ UNCHANGED <<tls, range>>

\* A directory that cannot be made, a port that is taken, the database, the
\* certificate pair.
StartFails ==
  /\ phase = "loaded"
  /\ phase' = "refused"
  /\ UNCHANGED <<settings, tls, range>>

\* runServer up to its two listeners.  With one port for both the second cannot
\* listen, and the first error ends runServer.
Start ==
  /\ phase = "loaded"
  /\ range' = SetTCPPortRange(settings.minPort, settings.maxPort)
  /\ tls' = buildTLSConfig(settings)
  /\ phase' = IF settings.httpPort = settings.adminPort THEN "stopped" ELSE "serving"
  /\ UNCHANGED settings

SettingsNext == LoadServer \/ StartFails \/ Start

SettingsSpec == SettingsInit /\ [][SettingsNext]_settingsVars

-----------------------------------------------------------------------------
\* What a server that serves was started with.  The registry's port range is the
\* configured one, all of it unprivileged and not empty (not the default, which
\* SetTCPPortRange would silently keep).  Validated again, the configuration would
\* stay as it is and be accepted, with one exception: a domain of nothing but
\* punctuation passes, is trimmed to nothing afterwards, and the server serves
\* without a domain.  Port 443 is served in plain HTTP only in the one case
\* Validate lets through, a certificate without its key.
StartedAsValidated ==
  phase = "serving" =>
    /\ range = <<settings.minPort, settings.maxPort>>
    /\ 1024 <= range[1] /\ range[1] <= range[2] /\ range[2] <= 65535
    /\ Repaired(settings) = settings
    /\ Accepted(settings) \/ settings.domain = <<>>
    /\ settings.httpPort = 443 /\ tls = "plain" => settings.cert /\ ~ settings.key

=============================================================================
