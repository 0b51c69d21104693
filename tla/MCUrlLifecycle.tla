---------------------------- MODULE MCUrlLifecycle ----------------------------
(***************************************************************************)
(* UrlLifecycle on a handful of texts, chosen so that every delimiter,     *)
(* escape and kind of host occurs where it can change what a text means.   *)
(***************************************************************************)
EXTENDS UrlLifecycle

MCDecoded == ("%2F" :> "/") @@ ("%2f" :> "/") @@ ("%3F" :> "?") @@ ("%23" :> "#") @@ ("%40" :> "@")
             @@ ("%26" :> "&") @@ ("%3D" :> "=") @@ ("%2B" :> "+") @@ ("%20" :> " ") @@ ("%2E" :> ".")
             @@ ("%7E" :> "~") @@ ("%252F" :> "%2F") @@ ("%252E" :> "%2E")
MCLowerOf == ("HTTP" :> "http") @@ ("H.D" :> "h.d")
MCDotted == {"h.d", "H.D", "x.d", "10.0.0.1"}
MCIPv4s == {"10.0.0.1"}
MCIPv6s == ("[::1]" :> "[::1]") @@ ("[0::1]" :> "[::1]")
MCPortOf == ("80" :> <<"80">>) @@ ("080" :> <<"80">>) @@ ("443" :> <<"443">>) @@ ("22" :> <<"22">>)
            @@ ("0" :> Bad)
MCDefaultPorts == (<<"http">> :> <<"80">>) @@ (<<"https">> :> <<"443">>)
MCDangerousPorts == {<<"22">>}
MCStandardSchemes == DOMAIN MCDefaultPorts

Alphabet == <<" ", "#", "%20", "%23", "%252E", "%252F", "%26", "%2B", "%2E", "%2F", "%2f", "%3D", "%3F", "%40",
              "%7E", "&", "+", ".", "/", "0", "080", "10.0.0.1", "22", "443", "80", ":", "=", "?", "@",
              "H.D", "HTTP", "[0::1]", "[::1]", "a", "app", "b", "file", "h.d", "http", "https", "p", "u",
              "x.d", "~">>
MCRank == [token \in Range(Alphabet) |-> CHOOSE i \in DOMAIN Alphabet : Alphabet[i] = token]

MCNoAddress == "not an address"
MCFacts == ("8.8.8.8" :> {"global"}) @@ ("10.0.0.1" :> {"private", "non_public"})
           @@ ("::1" :> {"private", "loopback", "reserved", "non_public"})
MCAddresses == DOMAIN MCFacts
MCEmbeds == [ip \in MCAddresses |-> {}]
MCMappedTo == <<>>

Literal(ip, kinds) == [address |-> ip, readings |-> {ip}, name |-> ip, domains |-> {ip}, kinds |-> kinds]
Name(name) == [address |-> MCNoAddress, readings |-> {}, name |-> name, domains |-> {name}, kinds |-> {}]
MCHostInfo ==
    (<<"10.0.0.1">> :> Literal("10.0.0.1", {})) @@
    (<<"[::1]">> :> Literal("::1", {"loopback"})) @@ (<<"[0::1]">> :> Literal("::1", {"loopback"})) @@
    (<<"H.D">> :> Name(<<"h.d">>)) @@ (<<"H.D", ".">> :> Name(<<"h.d">>)) @@ (<<"x.d", ".">> :> Name(<<"x.d">>))

\* The name h.d leads inside, or is listed; the feed may be gone.
Seen(of_h, listed, feed) ==
    [addresses |-> (<<"h.d">> :> of_h) @@ (<<"x.d">> :> {"8.8.8.8"}), listed |-> listed, feed |-> feed]
Outside == Seen({"8.8.8.8"}, {}, TRUE)
MCNetworks ==
    {[given |-> Outside, default |-> Seen({"8.8.8.8", "10.0.0.1"}, {<<"x.d">>}, TRUE)],
     [given |-> Seen({"10.0.0.1"}, {}, FALSE), default |-> Outside]}

-----------------------------------------------------------------------------
http == <<"http", ":", "/", "/">>

MCTexts ==
    {<<"HTTP", ":", "/", "/", "H.D", ":", "80", "/", "a", "/", ".", ".", "/", "b", "?", "b", "=", "a", "&", "a", "=", "b">>,
     http \o <<"u", "%40", ":", "p", "@", "h.d", ":", "443", "/", "%2E", "/", "b", "?", "a", "&", "a", "=">>,
     http \o <<"10.0.0.1", ":", "22", "/", "a", "%2F", "%252E", "%252E", "#", "a", "%2f">>,
     http \o <<"x.d", ".", ":", "22", "/", "a", "/", "b", "/", "?", "b", "=", "%26", "&", "b", "=", "a">>,
     http \o <<"h.d", "/", "/", "b">>,
     <<"/", "/", "h.d", "/", "a", "?", "b", "=", "+", "&", "&", "%3D">>,
     <<"a", "/", ".", ".", "/", "b">>,
     <<"file", ":", "/", "/", "/", "a", "/", "b">>,
     <<"app", ":", "/", "/", "h.d", "/", "%2E", "%2E", "/", "/", "b">>,
     <<"https", ":", "/", "/", "h.d", "?", "a", "/", "b", "#">>}

Guarded == [Strict EXCEPT !.reject_credentials = TRUE, !.block_dangerous_ports = TRUE]
Careful == [Internal EXCEPT !.check_dns = TRUE, !.check_phishing = TRUE, !.phishing_fail_closed = TRUE,
                            !.denied_addresses = FromRules({<<"host", <<"10.0.0.1">>>>})]

Entry(constructor, given, check_dns, check_phishing, allow_custom_scheme, services) ==
    [constructor |-> constructor, given |-> given, check_dns |-> check_dns, check_phishing |-> check_phishing,
     allow_custom_scheme |-> allow_custom_scheme, services |-> services]

MCCalls ==
    {Entry(FALSE, <<>>, NotGiven, NotGiven, FALSE, "default"),
     Entry(FALSE, <<"preset", "local">>, NotGiven, NotGiven, TRUE, "default"),
     Entry(FALSE, <<"policy", Careful>>, "no", NotGiven, FALSE, "given"),
     Entry(TRUE, <<"policy", Guarded>>, "yes", "yes", FALSE, "given"),
     Entry(TRUE, <<>>, "yes", NotGiven, TRUE, "default")}

Parts(scheme, host, port, path, query) ==
    [scheme |-> scheme, userinfo |-> None, host |-> host, port |-> port, path |-> path, query |-> None,
     pairs |-> query, fragment |-> None]
MCComponents ==
    {Parts(<<"http">>, <<"H.D", ".">>, <<"443">>, <<"a", " ", "b">>, << <<<<"a">>, <<"&", "b">>>> >>),
     Parts(None, <<"h.d">>, None, <<"/">>, <<>>),
     Parts(<<"file">>, None, None, <<"/", "/", "x.d">>, <<>>),
     Parts(<<"http">>, None, None, <<"a">>, <<>>)}

MCOverrides ==
    {[host |-> <<"10.0.0.1">>], [host |-> <<"x.d", ".">>],
     [scheme |-> <<"https">>], [scheme |-> <<"app">>], [scheme |-> None],
     [port |-> <<"443">>, fragment |-> <<"a", "?">>], [port |-> <<"0">>],
     [path |-> <<"/", "a", "?", "b">>], [path |-> <<"%2E", "%2E", "/", "b", "/", ".">>],
     [path |-> <<"/", "/", "x.d">>], [path |-> <<"x.d", "/", "b">>],
     [path |-> None], [path |-> <<"a", "%252F">>], [query |-> <<"%252F">>],
     [query |-> <<"b", "=", "%26", "&", "%7E">>],
     [query_pairs |-> << <<<<"b">>, <<"#">>>>, <<<<"a", "=">>, None>> >>],
     [query_pairs |-> << <<<<>>, None>> >>],
     [userinfo |-> <<"u", "/", "p">>]}

MCNetlocs == {<<"u", "@", Space, "H.D", ":", "22", Space>>, <<"[0::1]", ":", "080">>, <<"@", "h.d">>, <<>>}
MCParams == {<<<<"a">>, <<"&", "b">>>>, <<<<"=", "+">>, None>>, <<<<"b">>, <<"%2F">>>>}

MCReferences ==
    {<<".", ".", "/", ".", ".", "/", "b">>, <<"a", "/", "/", ".", ".", "/", ".">>, <<"?", "b">>, <<"#", "a">>,
     <<"/", ".", ".", "/", "a", "?", "b">>, <<"/", "/", "x.d", "/", "a">>, <<"http", ":", "a">>,
     <<"%2E", "%2E", "/", "b">>, <<"%2E", "%2E", "/", ".", ".", "/", "b">>, <<"a", "?", "=", "b">>}

\* For the run on URLs without a host.
MCFileTexts == {<<"file", ":", "/", "/", "/", "a", "/", "b">>}
MCLocalCalls == {Entry(FALSE, <<"preset", "local">>, NotGiven, NotGiven, TRUE, "default")}
=============================================================================
