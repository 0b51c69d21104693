--------------------------- MODULE MCDnsRateLimiter ---------------------------
(* Small instances of DnsRateLimiter; the values are in the .cfg files. *)
EXTENDS DnsRateLimiter, TLC

Symmetry == Permutations(Hosts)
=============================================================================
