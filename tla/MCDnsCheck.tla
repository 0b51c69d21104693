------------------------------ MODULE MCDnsCheck ------------------------------
(* Small instances of DnsCheck; the values are in the .cfg files. *)
EXTENDS DnsCheck, TLC

CONSTANTS strict, lenient, public, private

MCPolicies == {strict, lenient}
MCAddresses == {public, private}
MCPermitted == [p \in MCPolicies |-> IF p = strict THEN {public} ELSE MCAddresses]
MCAnswers == {{}, {public, private}}

\* One check that retries and pays, one that does not pay, one that may not try at all.
MCCallers ==
    {[policy |-> strict,
      options |-> [timeout |-> 2, attempts |-> 2, budget |-> 1, enforce |-> TRUE]],
     [policy |-> lenient,
      options |-> [timeout |-> 1, attempts |-> 1, budget |-> 2, enforce |-> FALSE]],
     [policy |-> lenient,
      options |-> [timeout |-> 0, attempts |-> 1, budget |-> 1, enforce |-> TRUE]]}

MCOptions == {caller.options : caller \in MCCallers}

Symmetry == Permutations(Threads) \cup Permutations(Hosts)
=============================================================================
