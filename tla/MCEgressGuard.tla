----------------------------- MODULE MCEgressGuard -----------------------------
(***************************************************************************)
(* EgressGuard on ten addresses, eight hosts and five policies.  The table *)
(* of facts is what CPython 3.11's ipaddress and constants.py say of these *)
(* addresses.                                                              *)
(***************************************************************************)
EXTENDS EgressGuard, TLC

MCNoAddress == "not an address"
MCStandardSchemes == {"http", "https"}

MCFacts ==
    ("8.8.8.8" :> {"global"}) @@
    ("10.0.0.1" :> {"private", "non_public"}) @@
    ("127.0.0.1" :> {"private", "loopback", "non_public"}) @@
    ("169.254.169.254" :> {"private", "link_local", "non_public", "metadata"}) @@
    ("100.100.100.200" :> {"non_public", "metadata"}) @@
    ("fd00:ec2::254" :> {"private", "non_public", "metadata"}) @@
    ("::ffff:8.8.8.8" :> {"global", "reserved", "non_public"}) @@
    ("::ffff:10.0.0.1" :> {"private", "reserved", "non_public"}) @@
    ("::ffff:169.254.169.254" :> {"private", "reserved", "non_public"}) @@
    ("64:ff9b::a9fe:a9fe" :> {"global", "reserved", "non_public"})

MCAddresses == DOMAIN MCFacts

MCMappedTo ==
    ("::ffff:8.8.8.8" :> "8.8.8.8") @@
    ("::ffff:10.0.0.1" :> "10.0.0.1") @@
    ("::ffff:169.254.169.254" :> "169.254.169.254")

MCEmbeds == [ip \in MCAddresses |->
    IF ip \in DOMAIN MCMappedTo THEN {MCMappedTo[ip]}
    ELSE IF ip = "64:ff9b::a9fe:a9fe" THEN {"169.254.169.254"} ELSE {}]

Literal(ip, kinds) == [address |-> ip, readings |-> {ip}, name |-> ip, domains |-> {ip}, kinds |-> kinds]
Name(name, domains, kinds) == [address |-> MCNoAddress, readings |-> {}, name |-> name,
                               domains |-> {name} \cup domains, kinds |-> kinds]

MCHostInfo ==
    ("8.8.8.8" :> Literal("8.8.8.8", {})) @@
    ("0xa000001" :> Literal("10.0.0.1", {})) @@
    ("127.0.0.1" :> Literal("127.0.0.1", {"blocked", "loopback"})) @@
    ("[::ffff:8.8.8.8]" :> Literal("::ffff:8.8.8.8", {"mapped"})) @@
    ("[::ffff:169.254.169.254]" :> Literal("::ffff:169.254.169.254", {"mapped"})) @@
    ("build.corp" :> Name("build.corp", {"corp"}, {})) @@
    ("old.corp" :> Name("old.corp", {"corp"}, {})) @@
    ("metadata.google.internal" :> Name("metadata.google.internal", {"internal"}, {"blocked", "metadata"}))

MCHosts == DOMAIN MCHostInfo

\* The caller's own rules, in conflict with one another.
Ruled == WithRules(Strict,
    {<<"domain", "corp">>, <<"host", "0xa000001">>, <<"network", {"100.100.100.200"}>>},
    {<<"network", {"10.0.0.1"}>>, <<"host", "old.corp">>})
Opened == [WithRules(Strict, {<<"host", "build.corp">>}, {<<"network", {"169.254.169.254"}>>})
           EXCEPT !.enforce_ssrf = FALSE]
LocalCorp == [Local EXCEPT !.allowed_addresses = FromRules({<<"host", "build.corp">>})]

MCPolicies == {Strict, Local, LocalCorp, Ruled, Opened}
MCGiven == {<<>>, <<"preset", "internal">>, <<"preset", "local">>, <<"policy", Ruled>>,
            <<"policy", Opened>>}

MCAnswers == {<<>>} \cup {<<a>> : a \in MCAddresses \cup {MCNoAddress}}
             \cup {<<a, b>> : a \in {"8.8.8.8", "::ffff:10.0.0.1", "fd00:ec2::254"},
                              b \in MCAddresses}

MCPeers == {"8.8.8.8", "10.0.0.1", "::ffff:10.0.0.1", "64:ff9b::a9fe:a9fe", "fd00:ec2::254"}
=============================================================================
