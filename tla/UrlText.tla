------------------------------- MODULE UrlText -------------------------------
(***************************************************************************)
(* urlps._parser, _normalize, _validation, _builder and _serialization: a  *)
(* text read into parts, and parts spelled as a text.                      *)
(*                                                                         *)
(* A text is a sequence of tokens: a delimiter, an escape such as "%2F", a *)
(* word, a run of digits, or an IP literal, each one string.  What only    *)
(* the characters of a word decide (its case, whether it has a dot) is a   *)
(* parameter.  A double escape such as "%252F" is one token that stands    *)
(* for an escape.  Lengths and non-ASCII text are left out: no input has   *)
(* them.                                                                   *)
(***************************************************************************)
EXTENDS Integers, Sequences, FiniteSetsExt, SequencesExt, TLC

CONSTANTS
    Decoded,        \* per escape: the character, or the escape, it stands for
    LowerOf,        \* per word with upper-case letters: the word in lower case
    Dotted,         \* the words and literals with a dot inside
    IPv4s,          \* the dotted IPv4 literals
    IPv6s,          \* per bracketed IPv6 literal: its canonical spelling
    PortOf,         \* per run of digits: the port it is, as a text, or Bad
    Rank,           \* per token: its place in the order of the characters
    DefaultPorts    \* constants.DEFAULT_PORTS

\* "." and "~" are the characters that are never escaped, each by one escape: of the
\* escapes, only %2f is also spelled in lower case.
ASSUME UnreservedAssumption ==
    /\ Decoded["%2E"] = "." /\ Decoded["%7E"] = "~"
    /\ \A escape \in DOMAIN Decoded :
          Decoded[escape] \in {".", "~"} => escape \in {"%2E", "%7E"}
    /\ {"%2E", "%7E"} \subseteq DOMAIN Decoded
    /\ {".", "~", "/"} \cap DOMAIN Decoded = {}

None == <<"None">>      \* the absent value
Bad == <<"Error">>      \* an exception
Rejected == [ok |-> FALSE]
Token == DOMAIN Rank

\* Tokens come in the order of their characters; a text is no absent value.
ASSUME AlphabetAssumption ==
    /\ {"None", "Error"} \cap Token = {}
    /\ \A token \in Token : Rank[token] \in Nat
    /\ \A a, b \in Token : Rank[a] = Rank[b] => a = b

Space == " "
Delimiters == {"/", "?", "#", ":", "@", "&", "=", "+", "~", Space}
NotInNames == Delimiters \cup DOMAIN Decoded \cup IPv4s \cup DOMAIN IPv6s
IsHostToken(token) == token \notin NotInNames

\* What stands for a text is a text, and what has to be escaped has an escape.
ASSUME EscapesAssumption ==
    /\ Delimiters \cup {"."} \cup DOMAIN Decoded \subseteq Token
    /\ \A escape \in DOMAIN Decoded : Decoded[escape] \in Token
    /\ Delimiters \cap DOMAIN Decoded = {}
    /\ \A char \in {"/", "?", "#", "@", "&", "=", "+", Space} :
          \E escape \in DOMAIN Decoded \ {"%2f"} : Decoded[escape] = char
    /\ {"%2F", "%2f"} \subseteq DOMAIN Decoded /\ Decoded["%2F"] = "/" /\ Decoded["%2f"] = "/"

\* A word in lower case is one, with no letter to lower; a canonical spelling is one.
ASSUME NamesAssumption ==
    /\ DOMAIN LowerOf \subseteq Token \ (NotInNames \cup DOMAIN PortOf \cup {"."})
    /\ \A word \in DOMAIN LowerOf :
          LowerOf[word] \in Token \ (NotInNames \cup DOMAIN PortOf \cup DOMAIN LowerOf \cup {"."})
    /\ IPv4s \cup DOMAIN IPv6s \subseteq Token \ Delimiters
    /\ \A literal \in DOMAIN IPv6s :
          IPv6s[literal] \in DOMAIN IPv6s /\ IPv6s[IPv6s[literal]] = IPv6s[literal]

\* A port is spelled in one way.
IsPort(port) == \E digits \in DOMAIN PortOf : port = <<digits>> /\ PortOf[digits] = port
ASSUME PortsAssumption ==
    /\ DOMAIN PortOf \subseteq Token \ (Delimiters \cup DOMAIN Decoded)
    /\ \A digits \in DOMAIN PortOf : PortOf[digits] = Bad \/ IsPort(PortOf[digits])
    /\ \A scheme \in DOMAIN DefaultPorts : IsPort(DefaultPorts[scheme])

DoubleEscapes == {escape \in DOMAIN Decoded : Decoded[escape] \in DOMAIN Decoded}
EscapeOf(char) == CHOOSE escape \in DOMAIN Decoded : Decoded[escape] = char /\ escape # "%2f"

IsText(value) == value \in Seq(Token)      \* isinstance(value, str)

Holds(text, token) == \E i \in DOMAIN text : text[i] = token
HoldsAny(text, tokens) == \E i \in DOMAIN text : text[i] \in tokens
Index(text, tokens) == IF HoldsAny(text, tokens) THEN Min({i \in DOMAIN text : text[i] \in tokens}) ELSE 0
From(text, i) == SubSeq(text, i, Len(text))
Upto(text, i) == IF i = 0 THEN text ELSE SubSeq(text, 1, i - 1)
Beyond(text, i) == IF i = 0 THEN None ELSE From(text, i + 1)
Before(text, tokens) == Upto(text, Index(text, tokens))
After(text, tokens) == Beyond(text, Index(text, tokens))
Starts(text, prefix) == IsPrefix(prefix, text)

\* text.lstrip() and text.strip()
StripLeft(text) ==
    IF HoldsAny(text, Token \ {Space}) THEN From(text, Index(text, Token \ {Space})) ELSE <<>>
Strip(text) == Reverse(StripLeft(Reverse(StripLeft(text))))
Each(text, Op(_)) == [i \in DOMAIN text |-> Op(text[i])]

\* Loops are recursive functions: text.split(delimiter), and a sequence without some of
\* its elements.
Grown(chunks, token, delimiter) ==
    IF token = delimiter THEN Append(chunks, <<>>)
    ELSE [chunks EXCEPT ![Len(chunks)] = Append(@, token)]
Split(text, delimiter) ==
    LET chunks[i \in 0..Len(text)] ==
            IF i = 0 THEN << <<>> >> ELSE Grown(chunks[i - 1], text[i], delimiter)
    IN  chunks[Len(text)]

Taken(kept, element, dropped) == IF element \in dropped THEN kept ELSE Append(kept, element)
Without(seq, dropped) ==
    LET kept[i \in 0..Len(seq)] == IF i = 0 THEN <<>> ELSE Taken(kept[i - 1], seq[i], dropped)
    IN  kept[Len(seq)]

Lower(text) == Each(text, LAMBDA token : IF token \in DOMAIN LowerOf THEN LowerOf[token] ELSE token)

-----------------------------------------------------------------------------
(* Escapes                                                                 *)

Unquote(text) == Each(text, LAMBDA token : IF token \in DOMAIN Decoded THEN Decoded[token] ELSE token)
UnquotePlus(text) == Unquote(Each(text, LAMBDA token : IF token = "+" THEN Space ELSE token))

\* percent_encode_component and quote(): what is not safe is escaped, escapes stay.
Encode(text, unsafe) == Each(text, LAMBDA token : IF token \in unsafe THEN EscapeOf(token) ELSE token)

\* quote_plus() with Builder.QUERY_SAFE: of a value, an escape is plain text.
EncodeForQuery(text) ==
    Each(text, LAMBDA token : IF token = Space THEN "+"
                              ELSE IF token \in {"&", "=", "+", "#"} \cup DOMAIN Decoded THEN EscapeOf(token) ELSE token)

\* Mutant: reserved escapes are decoded too.
NormalizeEveryEscape(text) == Unquote(text)

NormalizePercentEncoding(text) ==
    Each(text, LAMBDA token : IF token = "%2f" THEN "%2F"
                              ELSE IF token \in {"%2E", "%7E"} THEN Decoded[token] ELSE token)

-----------------------------------------------------------------------------
(* Hosts and ports                                                         *)

LooksLikeIPv4(host) ==
    /\ HoldsAny(host, Dotted \cup {"."})
    /\ \A i \in DOMAIN host : host[i] \in DOMAIN PortOf \cup IPv4s \cup {"."}

ValidHost(host) ==
    /\ IsText(host)
    /\ \/ Len(host) = 1 /\ host[1] \in IPv4s \cup DOMAIN IPv6s
       \/ /\ host # <<>> /\ host[1] # "." /\ ~LooksLikeIPv4(host)
          /\ \A i \in DOMAIN host : IsHostToken(host[i])
          /\ \A i \in 2..Len(host) : ~(host[i - 1] = "." /\ host[i] = ".")

\* normalize_host, which canonical_host is for ASCII text.
NormalizeHost(host) ==
    IF Len(host) = 1 /\ host[1] \in DOMAIN IPv6s THEN <<IPv6s[host[1]]>>
    ELSE IF Len(host) > 1 /\ Last(host) = "." THEN Lower(Front(host))
    ELSE Lower(host)

NormalizeHostComponent(host) == IF ValidHost(host) THEN NormalizeHost(host) ELSE Bad

ParsePort(text) == IF Len(text) = 1 /\ text[1] \in DOMAIN PortOf THEN PortOf[text[1]] ELSE Bad

\* parse_ipv6_host and parse_regular_host: a colon follows the literal or the name,
\* whichever the host is.
HostAndPort(text) ==
    [host |-> NormalizeHostComponent(Before(text, {":"})),
     port |-> IF Holds(text, ":") THEN ParsePort(After(text, {":"})) ELSE None]

ParseHost(text, require_host) ==
    IF text = <<>> THEN [host |-> IF require_host THEN Bad ELSE None, port |-> None]
    ELSE HostAndPort(Strip(text))

DefaultPort(scheme) == IF scheme \in DOMAIN DefaultPorts THEN DefaultPorts[scheme] ELSE None

ApplyPortDefaults(scheme, port, host) ==
    IF port = None THEN DefaultPort(scheme)
    ELSE IF scheme = <<"file">> \/ host = None THEN Bad ELSE port

\* The reader's and the writer's view of a userinfo.
NormalizeUserinfo(userinfo) == NormalizePercentEncoding(Encode(userinfo, {"/", "?", "#", "@", Space}))

\* Mutant: checked, and kept as it came.
NormalizeUserinfoComponentRaw(userinfo) ==
    IF userinfo = <<>> \/ Holds(userinfo, "@") \/ userinfo[1] = ":" THEN Bad ELSE userinfo

NormalizeUserinfoComponent(userinfo) ==
    IF userinfo = <<>> \/ Holds(userinfo, "@") \/ userinfo[1] = ":" THEN Bad
    ELSE NormalizeUserinfo(userinfo)

-----------------------------------------------------------------------------
(* Paths, queries, fragments                                               *)

\* One turn of remove_dot_segments' loop: what is left of the input, and the output.
DotsTurn(buffers) ==
    LET input == buffers.input
        output == buffers.output
        Turn(left, kept) == [input |-> left, output |-> kept]
        Move(segment) == Turn(From(input, Len(segment) + 1), Append(output, segment))
        Popped == IF output = <<>> THEN <<>> ELSE Front(output)
    IN  CASE input = <<>> -> buffers
          [] Starts(input, <<".", ".", "/">>) -> Turn(From(input, 4), output)
          [] Starts(input, <<".", "/">>) -> Turn(From(input, 3), output)
          [] Starts(input, <<"/", ".", "/">>) -> Turn(From(input, 3), output)
          [] input = <<"/", ".">> -> Turn(<<"/">>, output)
          [] Starts(input, <<"/", ".", ".", "/">>) -> Turn(From(input, 4), Popped)
          [] input = <<"/", ".", ".">> -> Turn(<<"/">>, Popped)
          [] input \in {<<".">>, <<".", ".">>} -> Turn(<<>>, output)
          [] OTHER -> Move(<<input[1]>> \o Before(Tail(input), {"/"}))

\* Every turn takes something off the input: there are no more turns than tokens.
RemoveDotSegments(path) ==
    LET after[n \in 0..Len(path)] ==
            IF n = 0 THEN [input |-> path, output |-> <<>>]
            ELSE DotsTurn(after[n - 1])
    IN  FlattenSeq(after[Len(path)].output)

NormalizeDotSegments(path) ==
    IF path = <<>> THEN <<>>
    ELSE IF path[1] = "/" THEN RemoveDotSegments(path)
    ELSE Tail(RemoveDotSegments(<<"/">> \o path))

\* Mutant: dot segments are removed before escapes are decoded.
NormalizePathDotsFirst(path) == NormalizePercentEncoding(NormalizeDotSegments(path))

NormalizePath(path) == NormalizeDotSegments(NormalizePercentEncoding(path))

\* An unquoted key, and its value or None; empty chunks are skipped.
DecodeQueryPairs(query) ==
    Each(Without(Split(query, "&"), {<<>>}),
         LAMBDA chunk : <<UnquotePlus(Before(chunk, {"="})),
                          IF Holds(chunk, "=") THEN UnquotePlus(After(chunk, {"="})) ELSE None>>)

ParseQuery(query) == IF query \in {None, <<>>} THEN <<>> ELSE DecodeQueryPairs(query)

ValidQuery(query) == ~Holds(query, Space) /\ \A pair \in Range(ParseQuery(query)) : pair[1] # <<>>
ValidFragment(fragment) == ~HoldsAny(fragment, {"#", Space})

\* Mutant: "&", "=" and "+" of a key or a value are not escaped.
SerializeQueryPlain(pairs) ==
    LET Spelled(pair) == IF pair[2] = None THEN pair[1] ELSE pair[1] \o <<"=">> \o pair[2]
    IN  IF pairs = <<>> THEN <<>>
        ELSE Tail(FlattenSeq(Each(pairs, LAMBDA pair : <<"&">> \o Spelled(pair))))

SerializeQuery(pairs) ==
    SerializeQueryPlain(Each(pairs, LAMBDA pair :
        <<EncodeForQuery(pair[1]), IF pair[2] = None THEN None ELSE EncodeForQuery(pair[2])>>))

AddParam(query, key, value) == SerializeQuery(Append(ParseQuery(query), <<key, value>>))

WithoutKey(pairs, key) == Without(pairs, {pair \in Range(pairs) : pair[1] = key})
RemoveParam(query, key) == SerializeQuery(WithoutKey(ParseQuery(query), key))

-----------------------------------------------------------------------------
(* _parser: a text into parts                                              *)

\* With a host a path is empty or starts with a slash, and is never left empty.
Rooted(host, path) == IF host # None /\ path # <<>> /\ path[1] # "/" THEN <<"/">> \o path ELSE path
OrRoot(host, path) == IF host # None /\ path = <<>> THEN <<"/">> ELSE path

\* _assemble: the steps after the authority.
Assemble(scheme, userinfo, host, port, path, query, fragment) ==
    IF Bad \in {scheme, userinfo, host, port, ApplyPortDefaults(scheme, port, host)}
       \/ ~ValidQuery(query) \/ ~ValidFragment(fragment)
    THEN Rejected
    ELSE [ok |-> TRUE, scheme |-> scheme, userinfo |-> userinfo, host |-> host,
          port |-> ApplyPortDefaults(scheme, port, host),
          path |-> OrRoot(host, NormalizePath(Rooted(host, path))),
          query |-> NormalizePercentEncoding(query), pairs |-> ParseQuery(query),
          fragment |-> NormalizePercentEncoding(fragment)]

IsValidScheme(scheme) ==
    /\ scheme # <<>>
    /\ \A i \in DOMAIN scheme :
          \/ scheme[i] = "+"
          \/ IsHostToken(scheme[i]) /\ scheme[i] \notin DOMAIN LowerOf
    /\ scheme[1] \notin DOMAIN PortOf \cup {"+", "."}

\* scheme_rejection
SchemeAllowed(policy, scheme) == policy.allow_custom_scheme \/ scheme \in policy.allowed_schemes

\* What precedes the first colon is a scheme unless it cannot be one.
ReadScheme(text, candidate, rest, policy) ==
    IF \/ candidate \in {text, <<>>}
       \/ HoldsAny(candidate, {"/", "?", "#"})
       \/ rest # <<>> /\ rest[1] \notin {"/", "?", "#"} /\ ~IsValidScheme(Lower(candidate))
    THEN [scheme |-> None, rest |-> text]
    ELSE [scheme |-> IF IsValidScheme(Lower(candidate)) /\ SchemeAllowed(policy, Lower(candidate))
                     THEN Lower(candidate) ELSE Bad,
          rest |-> rest]

ParseScheme(text, policy) == ReadScheme(text, Before(text, {":"}), After(text, {":"}), policy)

\* What follows a scheme, split: by split_fragment, split_query and split_authority
\* here, by one expression in _resolve.
CutTail(authority, tail) ==
    [authority |-> authority, path |-> Before(tail, {"?", "#"}),
     query |-> After(Before(tail, {"#"}), {"?"}), fragment |-> After(tail, {"#"})]

CutAuthority(rest, end) == CutTail(Upto(rest, end), IF end = 0 THEN <<>> ELSE From(rest, end))

SplitHierarchy(rest) ==
    IF Starts(rest, <<"/", "/">>) THEN CutAuthority(From(rest, 3), Index(From(rest, 3), {"/", "?", "#"}))
    ELSE CutTail(None, rest)

\* parse_userinfo, for its two results.
ParseUserinfo(authority) ==
    IF Holds(authority, "@") THEN NormalizeUserinfoComponent(Before(authority, {"@"})) ELSE None
HostPart(authority) == IF Holds(authority, "@") THEN After(authority, {"@"}) ELSE authority

ParseParts(scheme, split, h) ==
    Assemble(scheme, ParseUserinfo(split.authority), h.host, h.port, split.path, split.query, split.fragment)

ParseHierarchy(scheme, split) ==
    ParseParts(scheme, split, IF split.authority = None THEN ParseHost(<<>>, FALSE)
                              ELSE ParseHost(HostPart(split.authority), scheme \notin {None, <<"file">>}))

ParseSplit(s) == ParseHierarchy(s.scheme, SplitHierarchy(s.rest))

\* parse_url of _parser: split, then validate and normalise what was split.
ParseText(text, policy) == IF IsText(text) THEN ParseSplit(ParseScheme(text, policy)) ELSE Rejected

\* normalize_components: the same rules, on parts already split.
NormalizeComponents(raw, require_host) ==
    Assemble(raw.scheme, IF raw.userinfo = None THEN None ELSE NormalizeUserinfoComponent(raw.userinfo),
             IF raw.host \notin {None, <<>>} THEN NormalizeHostComponent(raw.host)
             ELSE IF require_host THEN Bad ELSE None,
             raw.port, raw.path, raw.query, raw.fragment)

-----------------------------------------------------------------------------
(* _builder: parts into a text                                             *)

BuilderNormalizePath(path) == NormalizeDotSegments(NormalizePercentEncoding(Encode(path, {"?", "#", Space})))

\* build_netloc, silent being the ports that are not spelled.
Netloc(c, silent) ==
    IF c.host = None THEN IF c.port # None THEN Bad ELSE IF c.userinfo = None THEN <<>> ELSE c.userinfo
    ELSE IF ~ValidHost(NormalizeHost(c.host)) THEN Bad
    ELSE (IF c.userinfo \in {None, <<>>} THEN <<>> ELSE NormalizeUserinfo(c.userinfo) \o <<"@">>)
         \o NormalizeHost(c.host)
         \o (IF c.port \in silent THEN <<>> ELSE <<":">> \o c.port)

\* Mutant: the default port of any scheme is left out.
BuildNetlocAnyDefault(c) == Netloc(c, {None} \cup Range(DefaultPorts))

BuildNetloc(c) == Netloc(c, {None, DefaultPort(c.scheme)})

Spell(c, netloc, path) ==
    IF netloc = Bad \/ (netloc = <<>> /\ c.scheme \notin {None, <<"file">>}) THEN Bad
    ELSE (IF c.scheme = None THEN <<>> ELSE c.scheme \o <<":", "/", "/">>)
         \o netloc
         \o (IF netloc = <<>> /\ c.scheme = None /\ Starts(path, <<"/", "/">>) THEN <<"/", ".">> ELSE <<>>)
         \o path
         \o (IF c.query # None THEN <<"?">> \o c.query
             ELSE IF c.pairs # <<>> THEN <<"?">> \o SerializeQuery(c.pairs) ELSE <<>>)
         \o (IF c.fragment \in {None, <<>>} THEN <<>>
             ELSE <<"#">> \o NormalizePercentEncoding(Encode(c.fragment, {"#", Space})))

Compose(c) == Spell(c, BuildNetloc(c), OrRoot(c.host, BuilderNormalizePath(Rooted(c.host, c.path))))

\* str(url)
AsString(parts) == Compose(parts)

\* sorted(pairs, key=lambda pair: (pair[0], pair[1] or ""))
Precedes(a, b) ==
    LET differ == {i \in DOMAIN a \cap DOMAIN b : a[i] # b[i]}
        first == CHOOSE i \in differ : \A j \in differ : i <= j
    IN  IF differ = {} THEN Len(a) < Len(b) ELSE Rank[a[first]] < Rank[b[first]]

OrEmpty(value) == IF value = None THEN <<>> ELSE value

\* Mutant: sorted by key alone.
SortedByKey(pairs) == SortSeq(pairs, LAMBDA p, q : Precedes(p[1], q[1]))

\* sorted() is stable: a pair goes in front of the first that its key puts it ahead of.
Ahead(p, q) ==
    Precedes(p[1], q[1]) \/ (p[1] = q[1] /\ Precedes(OrEmpty(p[2]), OrEmpty(q[2])))
IsPlace(k, pairs, pair) ==
    /\ \A i \in 1..k : ~Ahead(pair, pairs[i])
    /\ k = Len(pairs) \/ Ahead(pair, pairs[k + 1])
Inserted(pairs, pair) ==
    InsertAt(pairs, (CHOOSE k \in 0..Len(pairs) : IsPlace(k, pairs, pair)) + 1, pair)
Sorted(pairs) ==
    LET sorted[i \in 0..Len(pairs)] == IF i = 0 THEN <<>> ELSE Inserted(sorted[i - 1], pairs[i])
    IN  sorted[Len(pairs)]

\* canonical_overrides, for copy()
CanonicalOverrides(parts) ==
    [scheme |-> Lower(parts.scheme), host |-> Lower(parts.host),
     port |-> IF parts.port = DefaultPort(parts.scheme) THEN None ELSE parts.port,
     path |-> BuilderNormalizePath(parts.path),
     query |-> IF parts.pairs = <<>> THEN None ELSE SerializeQuery(Sorted(parts.pairs))]
=============================================================================
