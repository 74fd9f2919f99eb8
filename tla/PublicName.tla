----------------------------- MODULE PublicName -----------------------------
(***************************************************************************)
(* The public name of a tunnel, from what a client asks for to the request *)
(* a visitor sends to it: the validator (validator.go), the random names   *)
(* and extractSubdomain (registry.go), the routing by Host (publicsrv.go), *)
(* the certificate policy (cmd/server/main.go) and the headers the local   *)
(* service gets (forward.go).  These functions live in five files and must *)
(* agree on what a name is.  Hosts and names are sequences of characters;  *)
(* "." stands for every character no label may have.                       *)
(***************************************************************************)
EXTENDS Integers, Sequences, FiniteSets, TLC, SequencesExt, FiniteSetsExt

CONSTANTS
  LowerCase,   \* a-z, 0-9
  UpperCase,   \* what strings.ToLower maps into LowerCase
  LowerOf,     \* that mapping
  Reserved,    \* reserved_subdomains as configured
  Domain,      \* the base domain
  OtherDomain, \* any other
  MinLen, MaxLen,                    \* 3 and 63
  Adjective, Noun, Suffix,           \* the parts of a random name
  MaxAsked     \* bound: length of the names clients ask for

VARIABLES
  pinned,      \* tc.subdomain: what the client asks for, then what it was given
  published,   \* the name its session has in the registry, or Unpublished
  policy,      \* the session's HostHeader and LocalPort
  visit        \* the last public request and what became of it, or NoVisit

nameVars == <<pinned, published, policy, visit>>

Unpublished == <<>>
NoVisit == [to |-> "nowhere"]
ControlPath == "/_tunnd/control"
Char == LowerCase \cup UpperCase \cup {"-", " ", "."}

ASSUME NamesAssumption ==
  /\ LowerCase \cap UpperCase = {}
  /\ (LowerCase \cup UpperCase) \cap {"-", " ", ".", ":"} = {}
  /\ LowerOf \in [UpperCase -> LowerCase]
  /\ Domain \in Seq(Char) /\ OtherDomain \in Seq(Char)
  /\ MinLen \in Nat \ {0} /\ MaxLen \in Nat /\ MaxAsked \in Nat
  /\ Adjective \cup Noun \cup Suffix \subseteq Seq(LowerCase) \ {<<>>}

-----------------------------------------------------------------------------
(* validator.go *)

ToLower(s) == [i \in DOMAIN s |-> IF s[i] \in UpperCase THEN LowerOf[s[i]] ELSE s[i]]

TrimSpace(s) ==
  LET ink == {i \in DOMAIN s : s[i] # " "}
  IN  IF ink = {} THEN <<>> ELSE SubSeq(s, Min(ink), Max(ink))

\* Mutant: a configured name is not folded.
ReservedAsWritten == Reserved

ReservedNames == {ToLower(n) : n \in Reserved}

Sanitize(s) == ToLower(TrimSpace(s))

\* The rules of ValidateAndSanitize after sanitization; the first, not empty,
\* is part of the second.
IsLegal(n) ==
  /\ Len(n) >= MinLen
  /\ Len(n) <= MaxLen
  /\ ToSet(n) \subseteq LowerCase \cup {"-"}
  /\ n[1] # "-"
  /\ Last(n) # "-"
  /\ \A i \in 1..(Len(n) - 1) : ~ (n[i] = "-" /\ n[i + 1] = "-")
  /\ n \notin ReservedNames

RandomSubdomain == {a \o <<"-">> \o n \o <<"-">> \o s : a \in Adjective, n \in Noun, s \in Suffix}

\* Register does not validate the names it makes up.
ASSUME RandomNamesFit ==
  \A n \in RandomSubdomain : Len(n) \in MinLen..MaxLen /\ n \notin ReservedNames

\* The names Register may give to a client that asks for s; none if it refuses.
NamesFor(s) ==
  IF s = <<>> THEN RandomSubdomain
              ELSE {n \in {Sanitize(s)} : IsLegal(n)}

-----------------------------------------------------------------------------
(* Where a request goes *)

\* The host without the port, cut at the first colon (publicsrv.go) or at the
\* last (registry.go).
CutAtFirstColon(h) ==
  IF Contains(h, ":") THEN SubSeq(h, 1, Min({i \in DOMAIN h : h[i] = ":"}) - 1) ELSE h
CutAtLastColon(h) ==
  IF Contains(h, ":") THEN SubSeq(h, 1, Max({i \in DOMAIN h : h[i] = ":"}) - 1) ELSE h

\* Mutant: the port stays on the host.
extractWithPort(h, base) ==
  LET suffix == <<".">> \o base
      sub == SubSeq(h, 1, Len(h) - Len(suffix))
  IN  IF IsSuffix(suffix, h) /\ ~ Contains(sub, ".") THEN sub ELSE <<>>

\* The label directly under base, or the empty name.
extractSubdomain(h, base) ==
  LET host == CutAtLastColon(h)
      suffix == <<".">> \o base
      sub == SubSeq(host, 1, Len(host) - Len(suffix))
  IN  IF IsSuffix(suffix, host) /\ ~ Contains(sub, ".") THEN sub ELSE <<>>

\* NewMux and rootHandler, then ServeHTTP up to Lookup.
Route(host, path) ==
  CASE path = ControlPath -> "control"
    [] path # ControlPath /\ CutAtFirstColon(host) = Domain -> "dashboard"
    [] OTHER -> LET sub == extractSubdomain(host, Domain)
                IN  IF sub = <<>> THEN "not found"
                    ELSE IF sub = published THEN "tunnel" ELSE "no tunnel"

\* buildTLSConfig's HostPolicy, asked with the server name of the TLS hello.
HostPolicy(host) ==
  \/ host = Domain
  \/ /\ Len(host) > Len(Domain) + 1
     /\ IsSuffix(<<".">> \o Domain, host)

-----------------------------------------------------------------------------
(* forward.go *)

Localhost == <<"localhost:port">>

applyHostHeader(host) ==
  CASE policy.hostHeader = "preserve" -> host
    [] policy.hostHeader \in {"", "rewrite"} -> IF policy.localPort <= 0 THEN host ELSE Localhost
    [] OTHER -> <<policy.hostHeader>>

setForwardedHeaders(inbound, host, originalHost, devMode) ==
  [for |-> Append(inbound.for, "peer"),
   proto |-> IF inbound.proto # "" THEN inbound.proto ELSE IF devMode THEN "http" ELSE "https",
   host |-> IF originalHost # <<>> THEN originalHost ELSE host]

\* ServeHTTP keeps the public host before it rewrites it.
Forward(host, inbound, devMode) ==
  [upstreamHost |-> applyHostHeader(host),
   forwarded |-> setForwardedHeaders(inbound, applyHostHeader(host), host, devMode)]

-----------------------------------------------------------------------------
Policy == [hostHeader : {"", "rewrite", "preserve", "literal"}, localPort : {0, 8080}]

NamesInit ==
  /\ pinned = <<>>
  /\ published = Unpublished
  /\ policy = [hostHeader |-> "", localPort |-> 0]
  /\ visit = NoVisit

\* The first register: the client pins the name it was given.
Register(s) ==
  /\ IF NamesFor(s) = {}
     THEN pinned' = s /\ UNCHANGED <<published, policy>>
     ELSE /\ published' \in NamesFor(s)
          /\ pinned' = published'
          /\ policy' \in Policy
  /\ UNCHANGED visit

\* A reconnect asks for the pinned name; refused, the session is gone.
Reconnect ==
  /\ published # Unpublished
  /\ published' \in IF NamesFor(pinned) = {} THEN {Unpublished} ELSE NamesFor(pinned)
  /\ pinned' = IF published' = Unpublished THEN pinned ELSE published'
  /\ visit' = NoVisit
  /\ UNCHANGED policy

Port == {<<>>, <<":", "1">>}
Under(label, base) == label \o <<".">> \o base

\* The hosts visitors try: the published one, another label, nested labels, the
\* bare domain, a label of another domain, the bare label.
VisitedHost ==
  {h \o p : h \in {Under(published, Domain), Under(published \o published, Domain),
                   Under(Under(published, published), Domain), Under(<<>>, Domain), Domain,
                   Under(published, OtherDomain), published},
            p \in Port}

Visit(host, path, inbound, devMode) ==
  /\ visit' = [host |-> host, path |-> path, to |-> Route(host, path),
               request |-> IF Route(host, path) = "tunnel" THEN Forward(host, inbound, devMode) ELSE <<>>]
  /\ UNCHANGED <<pinned, published, policy>>

NamesNext ==
  \/ /\ published = Unpublished /\ pinned = <<>>
     /\ \E s \in BoundedSeq(Char, MaxAsked) : Register(s)
  \/ Reconnect
  \/ /\ published # Unpublished /\ visit = NoVisit
     /\ \E host \in VisitedHost, path \in {"/", ControlPath}, devMode \in BOOLEAN,
           inbound \in [for : {<<>>, <<"proxy">>}, proto : {"", "http"}] :
             Visit(host, path, inbound, devMode)

NamesSpec == NamesInit /\ [][NamesNext]_nameVars

-----------------------------------------------------------------------------
\* A published name works everywhere a name is read: asked for again, as a
\* reconnecting client does, it is given again unchanged; a certificate may be
\* issued for its host; a request to it, with a port or without, reaches the
\* tunnel; and X-Forwarded-Host leads the local service back to the same name
\* under every Host policy.
PublishedIsReachable ==
  published # Unpublished =>
    LET home == Under(published, Domain)
    IN  /\ NamesFor(published) = {published}
        /\ HostPolicy(home)
        /\ visit # NoVisit /\ visit.path = "/" /\ visit.host \in {home \o p : p \in Port}
             => /\ visit.to = "tunnel"
                /\ extractSubdomain(visit.request.forwarded.host, Domain) = published

\* What belongs to the operator is never a tunnel's: a reserved name, in any
\* case it was configured or asked for, is not published; the bare domain is the
\* dashboard and ControlPath the control plane; and a tunnel is reached under
\* its own host only.
OperatorNamesKept ==
  /\ published # Unpublished => \A n \in Reserved : ToLower(n) # ToLower(published)
  /\ visit # NoVisit =>
       /\ visit.path = ControlPath => visit.to = "control"
       /\ visit.path = "/" /\ visit.host \in {Domain \o p : p \in Port} => visit.to = "dashboard"
       /\ visit.to = "tunnel" => visit.host \in {Under(published, Domain) \o p : p \in Port}

=============================================================================
