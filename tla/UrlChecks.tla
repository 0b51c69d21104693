------------------------------- MODULE UrlChecks -------------------------------
(***************************************************************************)
(* urlps._security.__init__ and url_checks: what is checked of a URL, on   *)
(* the text it came as and on the parts the parser made of it.  Hosts are  *)
(* texts here.  What the resolver and the phishing feed say at the moment  *)
(* of a check is a record, network: the addresses per host (none: the      *)
(* lookup fails), the hosts listed, and whether there is a feed at all.    *)
(* Backslashes, IPv6 zones and the Unicode analysis of hosts are left out  *)
(* with the texts that have them; a warning rejects nothing.               *)
(***************************************************************************)
EXTENDS SecurityPolicy, UrlReference

CONSTANTS
    DangerousPorts    \* constants.DANGEROUS_PORTS, as texts

\* find_authority_marker, counting from 1, 0 for none: a "://" ahead of which there
\* is no "/", "?" or "#".
MarkerAt(text, i) == IF i > 0 /\ Starts(From(text, i), <<":", "/", "/">>) THEN i ELSE 0
FindAuthorityMarker(text) == MarkerAt(text, Index(text, {"/", "?", "#"}) - 1)

HasSchemeAuthority(text) == FindAuthorityMarker(text) # 0 \/ Starts(text, <<"/", "/">>)

\* What follows "://", or the "//" a text begins with; None in a text with neither.
Past(text, marker) ==
    IF marker # 0 THEN From(text, marker + 3)
    ELSE IF Starts(text, <<"/", "/">>) THEN From(text, 3) ELSE None
AfterMarker(text) == Past(text, FindAuthorityMarker(text))

CutAt(text, end) == [authority |-> Upto(text, end), rest |-> IF end = 0 THEN <<>> ELSE From(text, end)]
RawAuthority(text) == CutAt(AfterMarker(text), Index(AfterMarker(text), {"/", "?", "#"}))

HostAndPath(raw) ==
    [host |-> Before(HostPart(raw.authority), {":"}),
     path |-> IF Starts(raw.rest, <<"/">>) THEN Before(raw.rest, {"?", "#"}) ELSE <<>>]
ExtractHostAndPath(text) ==
    IF HasSchemeAuthority(text) THEN HostAndPath(RawAuthority(text)) ELSE [host |-> <<>>, path |-> <<>>]

ClimbsUp(path) == \E i \in 2..Len(path) : path[i - 1] = "." /\ path[i] = "."
HasPathTraversal(path) == ClimbsUp(Unquote(path)) \/ ClimbsUp(Unquote(Unquote(path)))

IsOpenRedirectRisk(path) == Starts(Unquote(path), <<"/", "/">>)

\* _has_component_ordering_confusion(rest): "?" or "#" ahead of the first slash.
HasOrderingConfusion(rest) ==
    Holds(rest, "/") /\ HoldsAny(Before(rest, {"/"}), {"?", "#"})

Confusing(after_scheme, raw, dots) ==
    \/ /\ Holds(after_scheme, "/") /\ HoldsAny(after_scheme, dots)
       /\ Index(after_scheme, {"/"}) < Index(after_scheme, dots)
    \/ HasOrderingConfusion(raw.rest)
    \/ \E i, j \in DOMAIN raw.authority : i # j /\ raw.authority[i] = "@" /\ raw.authority[j] = "@"

HasParserConfusion(text) ==
    FindAuthorityMarker(text) # 0 /\ Confusing(AfterMarker(text), RawAuthority(text), Dotted \cup {"."})

\* urllib.parse.urlsplit, for the netloc, the path and the query.
UrlSplit(text) ==
    SplitHierarchy(IF Holds(text, ":") /\ IsValidScheme(Lower(Before(text, {":"})))
                   THEN After(text, {":"}) ELSE text)

HasCredentials(text) == Holds(UrlSplit(text).authority, "@")

IsCommonlyAbusedPort(port) == port \in DangerousPorts

HasDoubleEncoding(text) == HoldsAny(text, DoubleEscapes)

-----------------------------------------------------------------------------
(* _build_context: the spellings the checks look at, raw being what        *)
(* extract_host_and_path makes of the text.                                *)

HostSpellings(raw, parts) == {parts.host, NormalizeHost(raw.host), raw.host} \ {None, <<>>}

PathSpellings(raw, parts) == {raw.path, parts.path} \ {<<>>}

\* Mutant: the path alone.
EncodedTargetOfPath(text) == IF HasSchemeAuthority(text) THEN UrlSplit(text).path ELSE text

\* Path and query: the authority and the fragment may have escapes of their own.
EncodedTarget(text) ==
    IF HasSchemeAuthority(text) THEN UrlSplit(text).path \o <<"?">> \o OrEmpty(UrlSplit(text).query) ELSE text

-----------------------------------------------------------------------------
(* The checks that can reject *)

SchemeFinding(policy, parts) == parts.scheme # None /\ ~SchemeAllowed(policy, parts.scheme)

EncodingFinding(policy, text) == policy.heuristics /\ HasDoubleEncoding(EncodedTarget(text))

HostIdentityFinding(policy, raw, parts) == \E h \in HostSpellings(raw, parts) : HostIsRefused(policy, h)

PathFinding(policy, raw, parts) ==
    /\ policy.heuristics
    /\ \E p \in PathSpellings(raw, parts) : HasPathTraversal(p) \/ IsOpenRedirectRisk(p)

StructureFinding(policy, raw) == policy.heuristics /\ HasParserConfusion(raw)

CredentialFinding(policy, raw, parts) ==
    policy.reject_credentials /\ (HasCredentials(raw) \/ parts.userinfo # None)

PortFinding(policy, parts) == policy.block_dangerous_ports /\ IsCommonlyAbusedPort(parts.port)

\* check_host_resolution, one lookup: every address heard must be permitted.
AddressesOf(network, host) ==
    IF IsLiteral(host) THEN {ResolveHostToIp(host)}
    ELSE IF host \in DOMAIN network.addresses THEN network.addresses[host] ELSE {}

DnsFinding(policy, host, network) ==
    /\ policy.check_dns
    /\ host # None
    /\ \/ AddressesOf(network, host) = {}
       \/ \E ip \in AddressesOf(network, host) : ~PermitsAddress(policy, ip, HostIsAllowed(policy, host))

PhishingFinding(policy, host, network) ==
    /\ policy.check_phishing
    /\ host # None
    /\ IF network.feed THEN host \in network.listed ELSE policy.phishing_fail_closed

\* validate_url_security: whether a blocking finding is raised.
IsRejectedAs(text, raw, parts, policy, network) ==
    \/ SchemeFinding(policy, parts)
    \/ EncodingFinding(policy, text)
    \/ /\ HasSchemeAuthority(text) \/ parts.host # None
       /\ \/ HostIdentityFinding(policy, raw, parts)
          \/ PathFinding(policy, raw, parts)
          \/ StructureFinding(policy, text)
          \/ CredentialFinding(policy, text, parts)
          \/ PortFinding(policy, parts)
          \/ DnsFinding(policy, parts.host, network)
          \/ PhishingFinding(policy, parts.host, network)

IsRejected(text, parts, policy, network) ==
    IsRejectedAs(text, ExtractHostAndPath(text), parts, policy, network)

\* Before parsing; what the path checks will report is left to them.
LeftToPathChecks(path) == IsOpenRedirectRisk(path) \/ HasPathTraversal(path)

RejectAmbiguousUrl(text, policy) ==
    StructureFinding(policy, text) /\ ~LeftToPathChecks(ExtractHostAndPath(text).path)
=============================================================================
