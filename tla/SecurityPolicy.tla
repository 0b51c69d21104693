---------------------------- MODULE SecurityPolicy ----------------------------
(***************************************************************************)
(* urlps._security.policy: the settings a URL is checked under, the named  *)
(* presets, what an entry point makes of its policy arguments, and the one *)
(* rule for addresses.  The heuristics (every field marked _heuristic) are *)
(* one switch here: presets and tests set them together.                   *)
(***************************************************************************)
EXTENDS AddressRules

CONSTANTS
    StandardSchemes    \* constants.STANDARD_SCHEMES

NotGiven == "not given"     \* None: an argument the caller left out

\* The fields' defaults.
Defaults == [enforce_ssrf |-> TRUE, allow_private_hosts |-> FALSE, heuristics |-> TRUE,
             reject_credentials |-> FALSE, block_dangerous_ports |-> FALSE, check_dns |-> FALSE,
             check_phishing |-> FALSE, phishing_fail_closed |-> FALSE,
             allowed_addresses |-> NoRules, denied_addresses |-> NoRules,
             allowed_schemes |-> StandardSchemes, allow_custom_scheme |-> FALSE]

Strict == Defaults
Balanced == Defaults
Internal == [Defaults EXCEPT !.heuristics = FALSE]
Local == [Internal EXCEPT !.allow_private_hosts = TRUE]

ResolveNamedPolicy(name) ==
    CASE name = "strict" -> Strict
      [] name = "balanced" -> Balanced
      [] name = "internal" -> Internal
      [] name = "local" -> Local

\* SecurityPolicy.__post_init__ on given rule sets.
WithRules(policy, allowed, denied) ==
    [policy EXCEPT !.allowed_addresses = FromRules(allowed), !.denied_addresses = FromRules(denied)]

\* _apply_overrides: allow_custom_scheme only ever widens.
ApplyOverrides(base, check_dns, check_phishing, allow_custom_scheme) ==
    [base EXCEPT !.check_dns = IF check_dns = NotGiven THEN @ ELSE check_dns = "yes",
                 !.check_phishing = IF check_phishing = NotGiven THEN @ ELSE check_phishing = "yes",
                 !.allow_custom_scheme = @ \/ allow_custom_scheme]

\* resolve_security_policy before the overrides: given is <<>> (None),
\* <<"preset", its name>> or <<"policy", the policy>>.
ResolveSecurityPolicy(given) ==
    IF given = <<>> THEN Strict
    ELSE IF given[1] = "preset" THEN ResolveNamedPolicy(given[2]) ELSE given[2]

-----------------------------------------------------------------------------
HostIsDenied(policy, host) == MatchesHost(policy.denied_addresses, host)

HostIsAllowed(policy, host) ==
    ~HostIsDenied(policy, host) /\ MatchesHost(policy.allowed_addresses, host)

HostIsSsrfRisk(policy, host) ==
    \/ HostIsDenied(policy, host)
    \/ /\ ~MatchesHost(policy.allowed_addresses, host)
       /\ IsSsrfRisk(host, policy.allow_private_hosts)

\* The two SSRF findings of a host, at parse time (_host_identity_findings) and
\* before a connection (_vetted_addrinfo).
HostIsRefused(policy, host) ==
    HostIsDenied(policy, host) \/ (policy.enforce_ssrf /\ HostIsSsrfRisk(policy, host))

\* Mutant: a host allowed by name is trusted wherever it leads.
PermitsByName(policy, ip, host_allowed_by_name) ==
    /\ ~MatchesIp(policy.denied_addresses, ip)
    /\ \/ MatchesIp(policy.allowed_addresses, ip)
       \/ ~policy.enforce_ssrf
       \/ host_allowed_by_name
       \/ policy.allow_private_hosts /\ IsPermittedPrivateIp(ip)
       \/ IsIpSafe(ip)

\* _permits, with the policy's own enforce_ssrf and allow_private_hosts.
PermitsAddress(policy, ip, host_allowed_by_name) ==
    /\ ~MatchesIp(policy.denied_addresses, ip)
    /\ \/ MatchesIp(policy.allowed_addresses, ip)
       \/ ~policy.enforce_ssrf
       \/ IF host_allowed_by_name THEN ~IsMetadataAddress(ip)
          ELSE \/ policy.allow_private_hosts /\ IsPermittedPrivateIp(ip)
               \/ IsIpSafe(ip)
=============================================================================
