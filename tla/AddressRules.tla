----------------------------- MODULE AddressRules -----------------------------
(***************************************************************************)
(* What urlps makes of an address or a host: _security/ip_utils.py and     *)
(* _security/address_rules.py.  What the ipaddress module knows of an      *)
(* address (Facts, Embeds, MappedTo) and what the spelling of a host says  *)
(* (HostInfo) are parameters; the verdicts drawn from them are the code's. *)
(***************************************************************************)
EXTENDS FiniteSets

CONSTANTS
    Addresses,     \* IPv4 and IPv6 addresses
    Facts,         \* per address: the is_* predicates, networks of constants.py
    Embeds,        \* per IPv6 address: the IPv4 addresses it carries
    MappedTo,      \* the IPv4-mapped addresses, and what they map to
    NoAddress,     \* what is not an address
    HostInfo       \* per host whose spelling says something: Info below

AddressFacts == {"global", "private", "loopback", "multicast", "reserved", "link_local",
                 "unspecified", "site_local", "non_public", "metadata"}
HostKinds == {"blocked", "mapped", "metadata", "loopback"}

ASSUME AddressAssumption ==
    /\ NoAddress \notin Addresses
    /\ Facts \in [Addresses -> SUBSET AddressFacts]
    /\ \A ip \in Addresses : "metadata" \in Facts[ip] => "non_public" \in Facts[ip]
    /\ Embeds \in [Addresses -> SUBSET Addresses]
    /\ \A ip \in Addresses : \A inner \in Embeds[ip] : Embeds[inner] = {}
    /\ DOMAIN MappedTo \subseteq Addresses
    /\ \A ip \in DOMAIN MappedTo : MappedTo[ip] \in Embeds[ip]
    /\ \A h \in DOMAIN HostInfo :
          /\ HostInfo[h].address \in Addresses \cup {NoAddress}
          /\ HostInfo[h].readings \subseteq Addresses
          /\ HostInfo[h].kinds \subseteq HostKinds
          /\ HostInfo[h].address \in Addresses => HostInfo[h].address \in HostInfo[h].readings

\* What the text of a host says: the address it is a literal of (in any inet_aton
\* spelling), every reading of it as an address that is_ssrf_risk tries, the name
\* canonical_host gives it, the domains that name is in, the lists it is on.
Info(host) ==
    IF host \in DOMAIN HostInfo THEN HostInfo[host]
    ELSE [address |-> NoAddress, readings |-> {}, name |-> host, domains |-> {host}, kinds |-> {}]

\* _resolve_host_to_ip
ResolveHostToIp(host) == Info(host).address
IsLiteral(host) == ResolveHostToIp(host) # NoAddress

WithEmbedded(ip) == {ip} \cup Embeds[ip]

-----------------------------------------------------------------------------
(* _security/ip_utils.py *)

IsMetadataAddress(ip) == \E candidate \in WithEmbedded(ip) : "metadata" \in Facts[candidate]

Routable(ip) == Facts[ip] \ {"metadata"} = {"global"}

IsIpSafe(ip) == \A candidate \in WithEmbedded(ip) : Routable(candidate)

IsBlockedHostname(host) == "blocked" \in Info(host).kinds

IsPermittedPrivateIp(ip) ==
    LET target == IF ip \in DOMAIN MappedTo THEN MappedTo[ip] ELSE ip
    IN  /\ ~IsMetadataAddress(ip)
        /\ Facts[target] \cap {"link_local", "multicast", "unspecified"} = {}
        /\ Facts[target] \cap {"loopback", "private"} # {}

IsPermittedPrivateHost(host) ==
    /\ "metadata" \notin Info(host).kinds
    /\ IF IsLiteral(host) THEN IsPermittedPrivateIp(ResolveHostToIp(host))
                          ELSE "loopback" \in Info(host).kinds

\* Mutant: addresses in another spelling are not looked at.
IsSsrfRiskNames(host, allow_private) ==
    /\ IsBlockedHostname(host) \/ "mapped" \in Info(host).kinds
    /\ ~(allow_private /\ IsPermittedPrivateHost(host))

IsSsrfRisk(host, allow_private) ==
    /\ \/ IsBlockedHostname(host)
       \/ "mapped" \in Info(host).kinds
       \/ \E ip \in Info(host).readings : ~IsIpSafe(ip)
    /\ ~(allow_private /\ IsPermittedPrivateHost(host))

-----------------------------------------------------------------------------
(* _security/address_rules.py: a rule is <<"network", set of addresses>>,  *)
(* <<"domain", name>>, <<"host", host>> or <<"invalid", text>>.            *)

NoRules == [networks |-> {}, hostnames |-> {}, domains |-> {}]
InvalidRules == "SecurityPolicyError"

\* AddressList.from_rules: a host rule that spells an address is that address.
FromRules(rules) ==
    LET hosts == {r[2] : r \in {q \in rules : q[1] = "host"}}
    IN  IF \E r \in rules : r[1] = "invalid" THEN InvalidRules
        ELSE [networks |-> {r[2] : r \in {q \in rules : q[1] = "network"}}
                           \cup {{ResolveHostToIp(h)} : h \in {g \in hosts : IsLiteral(g)}},
              hostnames |-> {Info(h).name : h \in {g \in hosts : ~IsLiteral(g)}},
              domains |-> {r[2] : r \in {q \in rules : q[1] = "domain"}}]

InNetworks(ip, networks) == \E network \in networks : ip \in network

\* Mutant: a rule about 10.0.0.0/8 does not see ::ffff:10.0.0.1.
MatchesIpPlain(list, ip) == InNetworks(ip, list.networks)

MatchesIp(list, ip) == \E candidate \in WithEmbedded(ip) : InNetworks(candidate, list.networks)

MatchesHost(list, host) ==
    IF IsLiteral(host) THEN MatchesIp(list, ResolveHostToIp(host))
    ELSE \/ Info(host).name \in list.hostnames
         \/ Info(host).domains \cap list.domains # {}
=============================================================================
