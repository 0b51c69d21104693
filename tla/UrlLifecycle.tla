----------------------------- MODULE UrlLifecycle -----------------------------
(***************************************************************************)
(* urlps.URL and the entry points: a URL is parsed under a policy, copied  *)
(* with other components, joined with references, canonicalised, pickled.  *)
(* Each step makes a URL or raises and makes none.  A URL is immutable, so *)
(* the state follows one line of descent: url is the latest of it.         *)
(***************************************************************************)
EXTENDS UrlChecks

CONSTANTS
    Texts,         \* what is parsed
    Calls,         \* the other arguments of the entry points, see ContextOf
    Components,    \* what build_secure is given
    Overrides,     \* what copy() and the with_* methods are given
    Netlocs, Params, References,    \* arguments of with_netloc, with_query_param, join
    Networks,      \* what may be out there, per kind of services
    MaxSteps       \* steps in a line of descent

\* A policy is the dataclass, with its fields; a flag is on or off.
IsPolicy(policy) ==
    /\ policy = [field \in DOMAIN Strict |-> policy[field]]
    /\ \A field \in {"check_dns", "check_phishing", "allow_custom_scheme"} : policy[field] \in BOOLEAN

Kinds == {"given", "default"}      \* the services passed in, and DEFAULT_SERVICES

ASSUME CallsAssumption ==
    \A call \in Calls : /\ IsPolicy(ResolveSecurityPolicy(call.given))
                        /\ {call.constructor, call.allow_custom_scheme} \subseteq BOOLEAN
                        /\ {call.check_dns, call.check_phishing} \subseteq {NotGiven, "yes", "no"}
                        /\ call.services \in Kinds

\* A parameter is a key and a value or None, both with an escape for every escape in
\* them: "%25" and its digits.  Of the overrides only the pairs of query_pairs are not
\* checked to be texts.
CanEscape(text) ==
    \A i \in DOMAIN text : text[i] \in DOMAIN Decoded => text[i] \in {Decoded[escape] : escape \in DOMAIN Decoded}
IsPair(pair) ==
    /\ pair = <<pair[1], pair[2]>> /\ IsText(pair[1]) /\ (pair[2] = None \/ IsText(pair[2]))
    /\ CanEscape(pair[1]) /\ CanEscape(pair[2])

ASSUME ReferencesAssumption == \A reference \in References : IsText(reference)
ASSUME ParamsAssumption ==
    /\ \A param \in Params : IsPair(param) /\ param[1] # <<>>
    /\ \A o \in Overrides : "query_pairs" \in DOMAIN o =>
          /\ o.query_pairs \in Seq(Range(o.query_pairs))
          /\ \A pair \in Range(o.query_pairs) : IsPair(pair)
    /\ MaxSteps \in Nat \ {0}

VARIABLES
    url,        \* the parts of the latest URL, or NoUrl
    ctx,        \* its context
    asked,      \* the checks the caller of parse_url, URL or join asked for
    network,    \* what the resolver and the feed say now
    steps

vars == <<url, ctx, asked, network, steps>>

NoUrl == Rejected

Flag(on) == IF on THEN "yes" ELSE "no"

-----------------------------------------------------------------------------
(* Making a URL                                                            *)

\* URL.__init__: a check that is on in the argument or in the policy is on.
Context(policy, check_dns, check_phishing, services) ==
    [policy |-> policy, check_dns |-> check_dns \/ policy.check_dns,
     check_phishing |-> check_phishing \/ policy.check_phishing, services |-> services]

\* parse_url(text, ...) resolves its arguments into a policy.
EntryContext(policy, call) == Context(policy, policy.check_dns, policy.check_phishing, call.services)
ResolvedPolicy(call) ==
    ApplyOverrides(ResolveSecurityPolicy(call.given), call.check_dns, call.check_phishing,
                   call.allow_custom_scheme)

\* URL(text, ...) takes the policy as it is, and the flags beside it.
ConstructorPolicy(call) ==
    [(IF call.given = <<>> THEN [Strict EXCEPT !.check_dns = call.check_dns = "yes"]
      ELSE ResolveSecurityPolicy(call.given))
     EXCEPT !.allow_custom_scheme = @ \/ call.allow_custom_scheme]

ContextOf(call) ==
    IF call.constructor
    THEN Context(ConstructorPolicy(call), call.check_dns = "yes", call.check_phishing = "yes", call.services)
    ELSE EntryContext(ResolvedPolicy(call), call)

\* The policy validate() checks under: the context's own, with the context's flags.
Validating(c) == ApplyOverrides(c.policy, Flag(c.check_dns), Flag(c.check_phishing), FALSE)

Validates(raw, parts, c) == ~IsRejected(raw, parts, Validating(c), network[c.services])

\* _parse_and_validate
Accepts(text, parts, c) ==
    /\ text # <<>> /\ ~Holds(text, Space)
    /\ ~RejectAmbiguousUrl(text, c.policy)
    /\ parts.ok
    /\ Validates(text, parts, c)

\* What a caller is entitled to: the policy of the call, with every check it turned on.
AskedBy(call) ==
    LET policy == ResolveSecurityPolicy(call.given)
        On(flag, otherwise) == flag = "yes" \/ (otherwise /\ ~(flag = "no" /\ ~call.constructor))
    IN  [policy EXCEPT !.check_dns = On(call.check_dns, @), !.check_phishing = On(call.check_phishing, @),
                       !.allow_custom_scheme = @ \/ call.allow_custom_scheme]

Adopt(text, parts, c) ==
    /\ Accepts(text, parts, c)
    /\ url' = parts
    /\ ctx' = c

Create(text, call) ==
    /\ Adopt(text, ParseText(text, ContextOf(call).policy), ContextOf(call))
    /\ asked' = AskedBy(call)

-----------------------------------------------------------------------------
(* _mutations: derived parts                                               *)

ValidOverrides(o) ==
    /\ \A key \in DOMAIN o \ {"port", "query_pairs"} : o[key] = None \/ IsText(o[key])
    /\ "scheme" \in DOMAIN o => o.scheme = None \/ IsValidScheme(Lower(o.scheme))
    /\ "path" \in DOMAIN o => ~Holds(o.path, Space)
    /\ "query" \in DOMAIN o => ~HoldsAny(o.query, {Space, "#"})

Destination(parts) == <<parts.scheme, parts.userinfo, parts.host, parts.port>>
SameNames(parts, again) == again.ok /\ Destination(again) = Destination(parts)

\* assert_round_trip
RoundTrips(parts, policy) ==
    /\ ~Holds(parts.query, "#")
    /\ \/ parts.scheme = None
       \/ LET text == Compose([parts EXCEPT !.path = <<"/">>, !.query = None, !.pairs = <<>>,
                                            !.fragment = None])
          IN  text # Bad /\ SameNames(parts, ParseText(text, policy))

OverriddenPort(parts, o) ==
    IF "port" \in DOMAIN o THEN IF o.port = None THEN None ELSE ParsePort(o.port)
    ELSE IF "scheme" \in DOMAIN o /\ parts.port = DefaultPort(parts.scheme) THEN None ELSE parts.port

OverriddenQuery(parts, o) ==
    IF "query" \in DOMAIN o THEN o.query
    ELSE IF "query_pairs" \notin DOMAIN o THEN parts.query
    ELSE IF SerializeQuery(o.query_pairs) = <<>> THEN None ELSE SerializeQuery(o.query_pairs)

\* A value of the overrides, or the current one.
Overridden(parts, o) ==
    [[part \in DOMAIN o \cup DOMAIN parts |-> IF part \in DOMAIN o THEN o[part] ELSE parts[part]]
     EXCEPT !.scheme = Lower(@), !.port = OverriddenPort(parts, o), !.path = OrEmpty(@),
            !.query = OverriddenQuery(parts, o)]

\* derive, up to the validation: Rejected when it raises.
Derived(parts, policy) == IF parts.ok /\ RoundTrips(parts, policy) THEN parts ELSE Rejected
FromRaw(raw) == NormalizeComponents(raw, raw.scheme \notin {None, <<"file">>})
DeriveParts(parts, o, policy) ==
    IF ~ValidOverrides(o) THEN Rejected ELSE Derived(FromRaw(Overridden(parts, o)), policy)

\* netloc_overrides
NetlocParts(netloc, scheme, h) ==
    [userinfo |-> ParseUserinfo(netloc), host |-> h.host,
     port |-> IF h.port = None /\ h.host # None THEN DefaultPort(scheme) ELSE h.port]
NetlocOverrides(netloc, scheme) == NetlocParts(netloc, scheme, ParseHost(HostPart(netloc), netloc # <<>>))

\* URL._derive: a derived URL is checked in its parent's context.
Inherit(parts) ==
    /\ parts.ok
    /\ AsString(parts) # Bad
    /\ Validates(AsString(parts), parts, ctx)
    /\ url' = parts
    /\ UNCHANGED <<ctx, asked>>

Copy(o) == Inherit(DeriveParts(url, o, ctx.policy))

-----------------------------------------------------------------------------
Init ==
    /\ url = NoUrl
    /\ ctx = Context(Strict, FALSE, FALSE, "default")
    /\ asked = Strict
    /\ network \in Networks
    /\ steps = 0

First == url = NoUrl /\ steps' = 1 /\ UNCHANGED network
Further == url # NoUrl /\ steps < MaxSteps /\ steps' = steps + 1 /\ UNCHANGED network

\* parse_url, parse_url_local, URL(...)
ParseUrl(text, call) == First /\ Create(text, call)

\* A text that a function made, unless it raised.
Send(text, call) == text # Bad /\ Create(text, call)

BuildSecure(components, call) ==
    /\ First
    /\ ~call.constructor
    /\ Send(Compose(components), call)

\* copy(), with_scheme, with_host, with_port, with_path, with_query, with_fragment, with_userinfo
Derive(o) == Further /\ Copy(o)

WithNetloc(netloc) ==
    LET o == NetlocOverrides(netloc, url.scheme)
    IN  Further /\ Bad \notin Range(o) /\ Copy(o)

WithQueryParam(param) == Further /\ Copy([query |-> AddParam(url.query, param[1], param[2])])
WithoutQueryParam(key) == Further /\ Copy([query |-> RemoveParam(url.query, key)])
WithoutQuery == Further /\ Copy([query |-> None, query_pairs |-> <<>>, fragment |-> None])
Canonicalize == Further /\ Copy(CanonicalOverrides(url))

\* join: the target is parsed under the caller's policy, whatever the base's was.
Join(reference, strict, call) ==
    /\ Further
    /\ ~call.constructor
    /\ AsString(url) # Bad
    /\ Send(ResolveReference(AsString(url), reference, strict), call)

\* Mutant: the flags beside the policy are lost.
UnpickleBare ==
    /\ Further
    /\ ctx' = Context(ctx.policy, FALSE, FALSE, "default")
    /\ UNCHANGED <<url, asked>>

\* __getstate__, then __setstate__: the services are not part of the pickle.
Unpickle ==
    /\ Further
    /\ ctx' = [ctx EXCEPT !.services = "default"]
    /\ UNCHANGED <<url, asked>>

\* The environment: a host moves, a feed goes away.
NetworkChanges ==
    /\ network' \in Networks \ {network}
    /\ UNCHANGED <<url, ctx, asked, steps>>

Next ==
    \/ \E text \in Texts, call \in Calls : ParseUrl(text, call)
    \/ \E components \in Components, call \in Calls : BuildSecure(components, call)
    \/ \E o \in Overrides : Derive(o)
    \/ \E netloc \in Netlocs : WithNetloc(netloc)
    \/ \E param \in Params : WithQueryParam(param)
    \/ \E param \in Params : WithoutQueryParam(param[1])
    \/ WithoutQuery
    \/ Canonicalize
    \/ \E reference \in References, strict \in BOOLEAN, call \in Calls : Join(reference, strict, call)
    \/ Unpickle
    \/ NetworkChanges

Spec == Init /\ [][Next]_vars

-----------------------------------------------------------------------------
(* Properties                                                              *)

\* The parts of a URL are in the form the parser leaves them in: nothing in them
\* is a delimiter where it would end the part, an authority has a rooted path, and
\* the parameters are those of the query.
TypeOK ==
    /\ steps \in 0..MaxSteps
    /\ network \in Networks
    /\ ctx.services \in Kinds
    /\ url # NoUrl =>
          /\ url.scheme = None \/ IsValidScheme(url.scheme)
          /\ url.userinfo # <<>> /\ ~HoldsAny(url.userinfo, {"/", "?", "#", "@", Space})
          /\ url.host # None => /\ ValidHost(url.host) /\ NormalizeHost(url.host) = url.host
                                /\ Starts(url.path, <<"/">>)
          /\ url.port \in {None, DefaultPort(url.scheme)} \/ url.host # None
          /\ ~HoldsAny(url.query, {"#", Space}) /\ ~HoldsAny(url.fragment, {"#", Space})
          /\ url.pairs = ParseQuery(url.query)

Absolute == url # NoUrl /\ url.scheme # None /\ url.host # None
Again == ParseText(AsString(url), ctx.policy)

\* str() of a URL with a scheme and a host parses again, under its policy, to the
\* same scheme, userinfo, host and port: what was checked is what is sent.  It is
\* assert_round_trip's promise, and has to survive every sequence of changes.
SameDestination == Absolute => SameNames(url, Again)

ReadsTheSame(parts, again) ==
    /\ again.ok
    /\ again.query = parts.query /\ again.pairs = parts.pairs
    /\ again.fragment = IF parts.fragment = <<>> THEN None ELSE parts.fragment
    /\ Unquote(again.path) = Unquote(parts.path)
    /\ AsString(again) = AsString(parts)

\* The rest of that string is read back too: query, parameters and fragment as
\* they are, the path up to escapes; and it is spelled the same a second time.
StringIsFixed == Absolute => ReadsTheSame(url, Again)

\* No URL has a "." or ".." segment in its path, however it came by the path and
\* however the dots were spelled (_resolve.normalize_dot_segments).
HasDotSegment(path) ==
    LET Dot(i) == i \in DOMAIN path /\ Unquote(path)[i] = "."
        Ends(i) == i \in {0, Len(path) + 1} \/ path[i] = "/"
    IN  \E i \in DOMAIN path : /\ Ends(i - 1) /\ Dot(i)
                               /\ Ends(i + 1) \/ (Dot(i + 1) /\ Ends(i + 2))
NoDotSegments == url # NoUrl => ~HasDotSegment(url.path)

\* with_query_param adds the one parameter it was given, whatever characters are in
\* it, and without_query_param takes out that key and nothing else.
ParamsAreExact ==
    url # NoUrl => \A param \in Params :
        /\ ParseQuery(AddParam(url.query, param[1], param[2])) = Append(url.pairs, param)
        /\ ParseQuery(RemoveParam(url.query, param[1]))
             = WithoutKey(url.pairs, param[1])

\* RFC 3986, 5.2.3 and 5.2.4, on the segments of a rooted path: the reference takes the
\* place of the last segment, ".." takes back the segment before it, if any.
Dots == {<<".">>, <<".", ".">>}
Walked(kept, segment) ==
    IF segment \notin Dots THEN Append(kept, segment)
    ELSE IF segment = <<".", ".">> /\ kept # <<>> THEN Front(kept) ELSE kept
Walk(segments) ==
    LET kept[i \in 0..Len(segments)] == IF i = 0 THEN <<>> ELSE Walked(kept[i - 1], segments[i])
    IN  kept[Len(segments)]
Resolved(segments) == Walk(segments) \o (IF Last(segments) \in Dots THEN << <<>> >> ELSE <<>>)

SegmentsOf(path) == Tail(Split(path, "/"))
PathOf(segments) == FlattenSeq(Each(segments, LAMBDA segment : <<"/">> \o segment))
MergedSegments(base, path) ==
    IF path = <<>> THEN base
    ELSE IF path[1] = "/" THEN SegmentsOf(path) ELSE Front(base) \o Split(path, "/")
\* 6.2.2: with the escapes normalised, the dot segments are removed once more.
NormalForm(path) == PathOf(Resolved(SegmentsOf(NormalizePercentEncoding(path))))

Joins(joined, base, r) ==
    /\ SameNames(base, joined)
    /\ joined.path = NormalForm(PathOf(Resolved(MergedSegments(SegmentsOf(base.path), r.path))))
    /\ joined.query = IF r.path = <<>> /\ r.query = None THEN base.query ELSE NormalizePercentEncoding(r.query)
    /\ joined.fragment = NormalizePercentEncoding(r.fragment)
JoinsOrRaises(joined, base, r) ==
    IF ValidQuery(r.query) /\ ValidFragment(r.fragment) THEN Joins(joined, base, r) ELSE ~joined.ok

JoinsEvery(text, base) ==
    \A reference \in References : IsRelativeReference(reference) =>
        JoinsOrRaises(ParseText(ResolveReference(text, reference, TRUE), ctx.policy), base,
                      SplitReference(reference))
\* Joined with a reference that names no scheme and no authority, a URL keeps its
\* destination; the path is RFC 3986's, resolved and then normalised, never above the
\* root; the query and the fragment are the reference's, or it is rejected for them.
JoinResolves == Absolute => JoinsEvery(AsString(url), Again)

Canonical(parts) == DeriveParts(parts, CanonicalOverrides(parts), ctx.policy)
Swapped(parts) == [parts EXCEPT !.pairs = Reverse(@), !.query = SerializeQuery(Reverse(parts.pairs))]
CanonicalOf(parts, canonical) ==
    /\ SameNames(parts, canonical)
    /\ Canonical(canonical) = canonical
    /\ \/ Canonical(Swapped(parts)) = canonical
       \/ \E p, q \in Range(parts.pairs) : p[1] = q[1] /\ p[2] = None /\ q[2] = <<>>

\* Canonicalising keeps the destination, changes nothing the second time, and does
\* not depend on the order the parameters were written in, unless a key occurs both
\* bare and with an empty value: the sort cannot tell these two.
CanonicalFixed == Absolute => CanonicalOf(url, Canonical(url))

Acceptable(parts, policy, now) ==
    /\ parts.scheme # None => policy.allow_custom_scheme \/ parts.scheme \in policy.allowed_schemes
    /\ parts.host # None =>
          /\ ~HostIsRefused(policy, parts.host)
          /\ policy.heuristics => ~HasPathTraversal(parts.path) /\ ~IsOpenRedirectRisk(parts.path)
          /\ policy.reject_credentials => parts.userinfo = None
          /\ policy.block_dangerous_ports => parts.port \notin DangerousPorts
          /\ policy.check_dns =>
                /\ AddressesOf(now, parts.host) # {}
                /\ \A ip \in AddressesOf(now, parts.host) :
                      PermitsAddress(policy, ip, HostIsAllowed(policy, parts.host))
          /\ policy.check_phishing =>
                IF now.feed THEN parts.host \notin now.listed ELSE ~policy.phishing_fail_closed

\* A URL never changes into one that the checks its caller asked for would refuse at
\* that moment: not by being copied, joined or pickled on the way (URL._derive,
\* __setstate__).
EveryUrlChecked == [][url' # url => Acceptable(url', asked', network'[ctx'.services])]_vars

NamesTheHost(parts, again) == again.ok /\ again.host = parts.host

\* Nor has a URL with a host a double escape in its path or its query when its caller
\* asked for the heuristics: what _build_context takes for them is cut from the text
\* by another splitter than the parser's.
NoDoubleEscapes ==
    url # NoUrl /\ url.host # None /\ asked.heuristics =>
        ~HasDoubleEncoding(url.path) /\ ~HasDoubleEncoding(url.query)

\* Of a URL without a host, assert_round_trip's docstring says as much as of one
\* with a host: the path cannot make its string name another.
StringNamesTheHost == url # NoUrl /\ url.scheme # None => NamesTheHost(url, Again)
=============================================================================
