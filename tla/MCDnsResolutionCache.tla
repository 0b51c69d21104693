------------------------- MODULE MCDnsResolutionCache -------------------------
(* A small instance of DnsResolutionCache; the values are in dns_cache.cfg. *)
EXTENDS DnsResolutionCache, TLC

Symmetry == Permutations(Hosts) \cup Permutations(Answers)
=============================================================================
