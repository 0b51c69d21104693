------------------------- MODULE UrlLifecycle_proofs --------------------------
(***************************************************************************)
(* Every URL, however it was made, has parts in the form the parser leaves *)
(* them in, a path without dot segments and parameters that can be added   *)
(* and removed one at a time, and has passed the checks its first caller   *)
(* asked for; its string is read back as the same URL, its canonical form  *)
(* is a fixed point, and a relative reference is joined to it as RFC 3986  *)
(* says: for every policy, text, override, reference and address book.     *)
(***************************************************************************)
EXTENDS UrlLifecycle, UrlText_proofs

-----------------------------------------------------------------------------
(***************************************************************************)
(* What the parser and the mutators make                                   *)
(***************************************************************************)

\* The pairs a caller can hand over are pairs that can be written.
LEMMA WritablePairs ==
    ASSUME NEW pair, IsPair(pair)
    PROVE  pair \in Pairs
<1>1. ASSUME NEW text \in Seq(Token), CanEscape(text) PROVE text \in Seq(Writable)
  <2>1. DOMAIN text = 1..Len(text) /\ Len(text) \in Nat /\ text = [i \in 1..Len(text) |-> text[i]]
    OBVIOUS
  <2>2. \A i \in 1..Len(text) : text[i] \in Writable
    BY <1>1, <2>1 DEF CanEscape, Writable
  <2>3. [i \in 1..Len(text) |-> text[i]] \in Seq(Writable)
    BY <2>1, <2>2
  <2> QED BY <2>1, <2>3
<1> QED BY <1>1 DEF IsPair, IsText, Pairs

\* The parts that _derive assembles: the override where there is one, or the part.
Chosen(parts, o, part) == IF part \in DOMAIN o THEN o[part] ELSE parts[part]
\* Overridden parts are those.
LEMMA OverriddenIs ==
    ASSUME NEW parts, parts = [part \in Parts |-> parts[part]], NEW o
    PROVE  LET raw == Overridden(parts, o)
           IN  /\ raw.scheme = Lower(Chosen(parts, o, "scheme"))
               /\ raw.userinfo = Chosen(parts, o, "userinfo") /\ raw.host = Chosen(parts, o, "host")
               /\ raw.port = OverriddenPort(parts, o)
               /\ raw.path = OrEmpty(Chosen(parts, o, "path"))
               /\ raw.query = OverriddenQuery(parts, o) /\ raw.fragment = Chosen(parts, o, "fragment")
<1> DEFINE D == DOMAIN o \cup DOMAIN parts
           either == [part \in D |-> Chosen(parts, o, part)]
           raw == Overridden(parts, o)
<1>1. {"scheme", "userinfo", "host", "port", "path", "query", "fragment"} \subseteq D
  BY DEF Parts
<1>2. raw = [either EXCEPT !.scheme = Lower(@), !.port = OverriddenPort(parts, o),
                           !.path = OrEmpty(@), !.query = OverriddenQuery(parts, o)]
  BY DEF Overridden, Chosen
<1> HIDE DEF D, raw
<1> QED BY <1>1, <1>2 DEF raw

\* Overrides that pass validation are texts, the scheme a valid one.
LEMMA ChosenIs ==
    ASSUME NEW parts, Formed(parts), NEW o, ValidOverrides(o)
    PROVE  /\ \A part \in {"userinfo", "host", "path", "fragment"} :
                 Chosen(parts, o, part) = None \/ Chosen(parts, o, part) \in Seq(Token)
           /\ LET scheme == Lower(Chosen(parts, o, "scheme")) IN scheme = None \/ GoodScheme(scheme)
<1>1. \A part \in {"scheme", "userinfo", "host", "path", "fragment"} \cap DOMAIN o :
          o[part] = None \/ o[part] \in Seq(Token)
  BY DEF ValidOverrides, IsText
<1>2. Seq(UserText) \subseteq Seq(Token) /\ Seq(QueryText) \subseteq Seq(Token) /\ Seq(Kept) \subseteq Seq(Token)
  BY SeqMonotonic DEF UserText, QueryText, Kept
<1>3. \A part \in {"userinfo", "host", "path", "fragment"} : parts[part] = None \/ parts[part] \in Seq(Token)
  BY <1>2 DEF Formed, GoodUserinfo, GoodHost, ValidHost, IsText
<1>4. \A part \in {"userinfo", "host", "path", "fragment"} :
          Chosen(parts, o, part) = None \/ Chosen(parts, o, part) \in Seq(Token)
  BY <1>1, <1>3 DEF Chosen
<1> DEFINE scheme == Lower(Chosen(parts, o, "scheme"))
<1>5. scheme = None \/ GoodScheme(scheme)
  <2>1. CASE "scheme" \in DOMAIN o /\ o.scheme = None
    BY <2>1, NormalNone DEF Chosen
  <2>2. CASE "scheme" \in DOMAIN o /\ o.scheme # None
    <3>1. scheme = Lower(o.scheme)
      BY <2>2 DEF Chosen
    <3>2. o.scheme \in Seq(Token) /\ IsValidScheme(Lower(o.scheme))
      BY <1>1, <2>2 DEF ValidOverrides
    <3>3. Lower(o.scheme) \in Seq(Token)
      BY <3>2, LowerIs
    <3> QED BY <3>1, <3>2, <3>3 DEF GoodScheme
  <2>3. CASE "scheme" \notin DOMAIN o
    <3>1. scheme = Lower(parts.scheme)
      BY <2>3 DEF Chosen
    <3> QED BY <3>1, NormalNone, SchemeIs DEF Formed, GoodScheme
  <2> QED BY <2>1, <2>2, <2>3
<1> QED BY <1>4, <1>5

\* So do the port and the query.
LEMMA OverriddenQueryIs ==
    ASSUME NEW parts, Formed(parts), NEW o, ValidOverrides(o),
           "query_pairs" \in DOMAIN o => o.query_pairs \in Seq(Pairs)
    PROVE  /\ OverriddenQuery(parts, o) = None \/ OverriddenQuery(parts, o) \in Seq(Token)
           /\ OverriddenPort(parts, o) \in {None, Bad} \/ IsPort(OverriddenPort(parts, o))
<1>1. OverriddenPort(parts, o) \in {None, Bad} \/ IsPort(OverriddenPort(parts, o))
  BY PortParsed DEF OverriddenPort, Formed, GoodPort
<1>2. CASE "query" \in DOMAIN o
  BY <1>1, <1>2 DEF OverriddenQuery, ValidOverrides, IsText
<1>3. CASE "query" \notin DOMAIN o
  <2>1. parts.query = None \/ parts.query \in Seq(Token)
    <3>1. Seq(QueryText) \subseteq Seq(Token)
      BY SeqMonotonic DEF QueryText, Kept
    <3> QED BY <3>1 DEF Formed
  <2>2. "query_pairs" \in DOMAIN o => SerializeQuery(o.query_pairs) \in Seq(Token)
    BY SerializedIsText
  <2> QED BY <1>1, <1>3, <2>1, <2>2 DEF OverriddenQuery
<1> QED BY <1>2, <1>3

\* What _derive makes: the parts of the form, whichever part was replaced.
LEMMA DerivedIsFormed ==
    ASSUME NEW base, Formed(base), NEW o, NEW policy,
           "query_pairs" \in DOMAIN o => o.query_pairs \in Seq(Pairs),
           NEW parts, parts = DeriveParts(base, o, policy), parts.ok
    PROVE  Formed(parts)
<1> DEFINE raw == Overridden(base, o)
           host == IF raw.host \notin {None, <<>>} THEN NormalizeHostComponent(raw.host)
                   ELSE IF raw.scheme \notin {None, <<"file">>} THEN Bad ELSE None
           userinfo == IF raw.userinfo = None THEN None ELSE NormalizeUserinfoComponent(raw.userinfo)
<1>1. ValidOverrides(o) /\ parts = FromRaw(raw) /\ ~Holds(parts.query, "#")
  <2>1. parts # Rejected
    BY DEF Rejected
  <2> QED BY <2>1 DEF DeriveParts, Derived, RoundTrips
<1>2. parts = Assemble(raw.scheme, userinfo, host, raw.port, raw.path, raw.query, raw.fragment)
  BY <1>1 DEF FromRaw, NormalizeComponents
<1>3. /\ raw.scheme = Lower(Chosen(base, o, "scheme"))
      /\ raw.userinfo = Chosen(base, o, "userinfo") /\ raw.host = Chosen(base, o, "host")
      /\ raw.port = OverriddenPort(base, o)
      /\ raw.path = OrEmpty(Chosen(base, o, "path"))
      /\ raw.query = OverriddenQuery(base, o) /\ raw.fragment = Chosen(base, o, "fragment")
  BY OverriddenIs DEF Formed
<1> HIDE DEF raw
<1>4. raw.scheme \in {None, Bad} \/ GoodScheme(raw.scheme)
  BY <1>1, <1>3, ChosenIs
<1>5. /\ raw.userinfo = None \/ raw.userinfo \in Seq(Token)
      /\ raw.host = None \/ raw.host \in Seq(Token)
      /\ raw.fragment = None \/ raw.fragment \in Seq(Token)
  BY <1>1, <1>3, ChosenIs
<1>6. raw.path \in Seq(Token)
  BY <1>1, <1>3, ChosenIs DEF OrEmpty
<1>7. /\ raw.query = None \/ raw.query \in Seq(Token)
      /\ raw.port \in {None, Bad} \/ IsPort(raw.port)
  BY <1>1, <1>3, OverriddenQueryIs
<1>8. userinfo \in {None, Bad} \/ GoodUserinfo(userinfo)
  BY <1>5, UserinfoNormalised
<1>9. host \in {None, Bad} \/ GoodHost(host)
  BY HostComponent
<1> HIDE DEF host, userinfo
<1>10. /\ MaybeScheme(raw.scheme) /\ MaybeUserinfo(userinfo) /\ MaybeHost(host) /\ MaybePort(raw.port)
       /\ MaybeText(raw.query) /\ MaybeText(raw.fragment)
  BY <1>4, <1>5, <1>7, <1>8, <1>9 DEF MaybeScheme, MaybeUserinfo, MaybeHost, MaybePort, MaybeText
<1> QED BY <1>1, <1>2, <1>6, <1>10, AssembledIsFormed

\* The inductive invariant: the parts of a URL are in form.
FormedInv == url # NoUrl => Formed(url)

\* The ways in.
LEMMA CreateMakes ==
    ASSUME NEW text, NEW call, Create(text, call)
    PROVE  Formed(url')
BY ParsedIsFormed DEF Create, Adopt, Accepts

\* The mutators.
LEMMA CopyMakes ==
    ASSUME FormedInv, url # NoUrl, NEW o, "query_pairs" \in DOMAIN o => o.query_pairs \in Seq(Pairs), Copy(o)
    PROVE  Formed(url')
BY DerivedIsFormed DEF Copy, Inherit, FormedInv

\* Every step that makes a URL makes one in form.
LEMMA FormedStep ==
    ASSUME FormedInv, [Next]_vars
    PROVE  FormedInv'
<1>1. ASSUME NEW text \in Texts, NEW call \in Calls, ParseUrl(text, call) PROVE Formed(url')
  BY <1>1, CreateMakes DEF ParseUrl
<1>2. ASSUME NEW components \in Components, NEW call \in Calls, BuildSecure(components, call) PROVE Formed(url')
  BY <1>2, CreateMakes DEF BuildSecure, Send
<1>3. ASSUME NEW o \in Overrides, Derive(o) PROVE Formed(url')
  <2>1. ASSUME "query_pairs" \in DOMAIN o PROVE o.query_pairs \in Seq(Pairs)
    <3> DEFINE R == Range(o.query_pairs)
    <3>1. o.query_pairs \in Seq(R) /\ \A pair \in R : IsPair(pair)
      BY <2>1, ParamsAssumption
    <3>2. R \subseteq Pairs
      BY <3>1, WritablePairs
    <3> HIDE DEF R
    <3> QED BY <3>1, <3>2, SeqMonotonic
  <2> QED BY <1>3, <2>1, CopyMakes DEF Derive, Further
<1>4. ASSUME NEW netloc \in Netlocs, WithNetloc(netloc) PROVE Formed(url')
  <2> DEFINE o == NetlocOverrides(netloc, url.scheme)
  <2>1. "query_pairs" \notin DOMAIN o
    BY DEF NetlocOverrides, NetlocParts
  <2>2. url # NoUrl /\ Copy(o)
    BY <1>4 DEF WithNetloc, Further
  <2> HIDE DEF o
  <2> QED BY <2>1, <2>2, CopyMakes
<1>5. ASSUME NEW query, Copy([query |-> query]), url # NoUrl PROVE Formed(url')
  <2> DEFINE o == [query |-> query]
  <2>1. "query_pairs" \notin DOMAIN o
    OBVIOUS
  <2> HIDE DEF o
  <2> QED BY <1>5, <2>1, CopyMakes DEF o
<1>6. ASSUME NEW param \in Params, WithQueryParam(param) PROVE Formed(url')
  BY <1>5, <1>6 DEF WithQueryParam, Further
<1>7. ASSUME NEW param \in Params, WithoutQueryParam(param[1]) PROVE Formed(url')
  BY <1>5, <1>7 DEF WithoutQueryParam, Further
<1>8. ASSUME WithoutQuery PROVE Formed(url')
  <2> DEFINE o == [query |-> None, query_pairs |-> <<>>, fragment |-> None]
  <2>1. o.query_pairs \in Seq(Pairs)
    OBVIOUS
  <2>2. url # NoUrl /\ Copy(o)
    BY <1>8 DEF WithoutQuery, Further
  <2> HIDE DEF o
  <2> QED BY <2>1, <2>2, CopyMakes
<1>9. ASSUME Canonicalize PROVE Formed(url')
  <2> DEFINE o == CanonicalOverrides(url)
  <2>1. "query_pairs" \notin DOMAIN o
    BY DEF CanonicalOverrides
  <2>2. url # NoUrl /\ Copy(o)
    BY <1>9 DEF Canonicalize, Further
  <2> HIDE DEF o
  <2> QED BY <2>1, <2>2, CopyMakes
<1>10. ASSUME NEW reference \in References, NEW strict \in BOOLEAN, NEW call \in Calls,
              Join(reference, strict, call)
       PROVE  Formed(url')
  BY <1>10, CreateMakes DEF Join, Send
<1>11. ASSUME Unpickle \/ NetworkChanges \/ UNCHANGED vars PROVE url' = url
  BY <1>11 DEF Unpickle, NetworkChanges, vars
<1> QED BY <1>1, <1>2, <1>3, <1>4, <1>6, <1>7, <1>8, <1>9, <1>10, <1>11 DEF Next, FormedInv

\* Every URL is made by the parser or by _derive.
LEMMA FormedHolds == Spec => []FormedInv
<1>1. Init => FormedInv
  BY DEF Init, FormedInv
<1> QED BY <1>1, FormedStep, PTL DEF Spec

\* The parts of the form are as TypeOK has them.
LEMMA FormedParts ==
    ASSUME NEW parts, Formed(parts)
    PROVE  /\ parts.scheme = None \/ IsValidScheme(parts.scheme)
           /\ parts.userinfo # <<>> /\ ~HoldsAny(parts.userinfo, {"/", "?", "#", "@", Space})
           /\ parts.host # None => /\ ValidHost(parts.host) /\ NormalizeHost(parts.host) = parts.host
                                   /\ Starts(parts.path, <<"/">>)
           /\ parts.port \in {None, DefaultPort(parts.scheme)} \/ parts.host # None
           /\ ~HoldsAny(parts.query, {"#", Space}) /\ ~HoldsAny(parts.fragment, {"#", Space})
           /\ parts.pairs = ParseQuery(parts.query)
<1>1. parts.scheme = None \/ IsValidScheme(parts.scheme)
  BY DEF Formed, GoodScheme
<1>2. {"/", "?", "#", "@", Space} \subseteq Token /\ {"#", Space} \subseteq Token /\ "/" \in Kept
  BY CharactersAreTokens DEF Kept
<1>3. parts.userinfo # <<>> /\ ~HoldsAny(parts.userinfo, {"/", "?", "#", "@", Space})
  <2>1. CASE parts.userinfo = None
    BY <1>2, <2>1, NormalNone, NoneIsNoText
  <2>2. CASE parts.userinfo # None
    <3>1. parts.userinfo \in Seq(UserText) /\ parts.userinfo # <<>>
      BY <2>2 DEF Formed, GoodUserinfo
    <3>2. UserText \cap {"/", "?", "#", "@", Space} = {}
      BY DEF UserText
    <3> QED BY <3>1, <3>2, HoldsNone
  <2> QED BY <2>1, <2>2
<1>4. ASSUME parts.host # None
      PROVE  ValidHost(parts.host) /\ NormalizeHost(parts.host) = parts.host /\ Starts(parts.path, <<"/">>)
  <2>1. parts.path \in Seq(Kept) /\ parts.path # <<>> /\ parts.path[1] = "/"
    BY <1>4 DEF Formed
  <2>2. <<"/">> \in Seq(Kept) /\ Len(<<"/">>) = 1 /\ <<"/">>[1] = "/"
    BY <1>2
  <2>3. Starts(parts.path, <<"/">>)
    <3> HIDE DEF Starts
    <3>1. Len(parts.path) >= 1 /\ 1..1 = {1}
      BY <2>1
    <3> QED BY <2>1, <2>2, <3>1, StartsIs, ZenonT(30)
  <2> QED BY <1>4, <2>3 DEF Formed, GoodHost
<1>5. parts.port \in {None, DefaultPort(parts.scheme)} \/ parts.host # None
  BY DEF Formed, GoodPort
<1>6. ASSUME NEW text, text = None \/ text \in Seq(QueryText)
      PROVE  ~HoldsAny(text, {"#", Space})
  <2>1. CASE text = None
    BY <1>2, <2>1, NormalNone
  <2>2. CASE text \in Seq(QueryText)
    <3>1. QueryText \cap {"#", Space} = {}
      BY DEF QueryText
    <3> QED BY <2>2, <3>1, HoldsNone
  <2> QED BY <1>6, <2>1, <2>2
<1>7. ~HoldsAny(parts.query, {"#", Space}) /\ ~HoldsAny(parts.fragment, {"#", Space})
  BY <1>6 DEF Formed
<1>8. parts.pairs = ParseQuery(parts.query)
  BY DEF Formed
<1> QED BY <1>1, <1>3, <1>4, <1>5, <1>7, <1>8

\* The rest of the state: the services are the given ones until a pickle is loaded.
StateInv == steps \in 0..MaxSteps /\ network \in Networks /\ "services" \in DOMAIN ctx /\ ctx.services \in Kinds

\* A way in takes its services from the call.
LEMMA CreateServices ==
    ASSUME NEW text, NEW call \in Calls, Create(text, call)
    PROVE  "services" \in DOMAIN ctx' /\ ctx'.services \in Kinds
<1>1. ctx' = ContextOf(call)
  BY DEF Create, Adopt
<1>2. \A policy, dns, phishing :
          LET c == Context(policy, dns, phishing, call.services)
          IN  "services" \in DOMAIN c /\ c.services = call.services
  BY DEF Context
<1> QED BY <1>1, <1>2, CallsAssumption DEF ContextOf, EntryContext

\* One step per kind of action.
LEMMA StateStep ==
    ASSUME StateInv, [Next]_vars
    PROVE  StateInv'
<1>1. /\ MaxSteps \in Nat \ {0} /\ steps \in 0..MaxSteps /\ network \in Networks
      /\ "services" \in DOMAIN ctx /\ ctx.services \in Kinds
  BY ParamsAssumption DEF StateInv
<1>2. First => steps' \in 0..MaxSteps /\ network' \in Networks
  BY <1>1 DEF First
<1>3. Further => steps' \in 0..MaxSteps /\ network' \in Networks
  BY <1>1 DEF Further
<1>4. ASSUME NEW text \in Texts, NEW call \in Calls, ParseUrl(text, call) PROVE StateInv'
  BY <1>2, <1>4, CreateServices DEF ParseUrl, StateInv
<1>5. ASSUME NEW components \in Components, NEW call \in Calls, BuildSecure(components, call) PROVE StateInv'
  BY <1>2, <1>5, CreateServices DEF BuildSecure, Send, StateInv
<1>6. ASSUME NEW o, Copy(o), Further PROVE StateInv'
  BY <1>1, <1>3, <1>6 DEF Copy, Inherit, StateInv
<1>7. ASSUME NEW o \in Overrides, Derive(o) PROVE StateInv'
  BY <1>6, <1>7 DEF Derive
<1>8. ASSUME NEW netloc \in Netlocs, WithNetloc(netloc) PROVE StateInv'
  BY <1>6, <1>8 DEF WithNetloc
<1>9. ASSUME NEW param \in Params, WithQueryParam(param) PROVE StateInv'
  BY <1>6, <1>9 DEF WithQueryParam
<1>10. ASSUME NEW param \in Params, WithoutQueryParam(param[1]) PROVE StateInv'
  BY <1>6, <1>10 DEF WithoutQueryParam
<1>11. ASSUME WithoutQuery PROVE StateInv'
  BY <1>6, <1>11 DEF WithoutQuery
<1>12. ASSUME Canonicalize PROVE StateInv'
  BY <1>6, <1>12 DEF Canonicalize
<1>13. ASSUME NEW reference \in References, NEW strict \in BOOLEAN, NEW call \in Calls,
              Join(reference, strict, call)
       PROVE  StateInv'
  BY <1>3, <1>13, CreateServices DEF Join, Send, StateInv
<1>14. ASSUME Unpickle PROVE StateInv'
  <2>1. ctx' = [ctx EXCEPT !.services = "default"]
    BY <1>14 DEF Unpickle
  <2>2. "services" \in DOMAIN ctx' /\ ctx'.services = "default"
    BY <1>1, <2>1
  <2> QED BY <1>3, <1>14, <2>2 DEF Unpickle, StateInv, Kinds
<1>15. ASSUME NetworkChanges PROVE StateInv'
  BY <1>1, <1>15 DEF NetworkChanges, StateInv
<1>16. ASSUME UNCHANGED vars PROVE StateInv'
  BY <1>1, <1>16 DEF vars, StateInv
<1> QED BY <1>4, <1>5, <1>7, <1>8, <1>9, <1>10, <1>11, <1>12, <1>13, <1>14, <1>15, <1>16 DEF Next

\* The parts of a URL are in the form the parser leaves them in: nothing in them
\* is a delimiter where it would end the part, an authority has a rooted path, and
\* the parameters are those of the query.
THEOREM TypeOKHolds == Spec => []TypeOK
<1>1. Init => StateInv
  BY ParamsAssumption DEF Init, StateInv, Context, Kinds
<1>2. StateInv /\ [Next]_vars => StateInv'
  BY StateStep
<1>3. StateInv /\ FormedInv => TypeOK
  <2> SUFFICES ASSUME StateInv, url # NoUrl => Formed(url) PROVE TypeOK
    BY DEF FormedInv
  <2> QED BY FormedParts DEF StateInv, TypeOK
<1> QED BY <1>1, <1>2, <1>3, FormedHolds, PTL DEF Spec

-----------------------------------------------------------------------------
(***************************************************************************)
(* Parameters                                                              *)
(***************************************************************************)

\* A parameter that is added to a query is read back from it, after those that were
\* there; one that is removed is gone, and the others are as they were.
LEMMA ParamChanges ==
    ASSUME NEW parts, Formed(parts), NEW param, IsPair(param), param[1] # <<>>
    PROVE  /\ ParseQuery(AddParam(parts.query, param[1], param[2])) = Append(parts.pairs, param)
           /\ ParseQuery(RemoveParam(parts.query, param[1])) = WithoutKey(parts.pairs, param[1])
<1> DEFINE pairs == parts.pairs
           dropped == {pair \in Range(pairs) : pair[1] = param[1]}
<1>1. param = <<param[1], param[2]>> /\ param \in Named
  BY WritablePairs DEF IsPair, Named
<1>2. pairs = ParseQuery(parts.query) /\ pairs \in Seq(Named)
  <2>1. /\ parts.query = None \/ parts.query \in Seq(QueryText)
        /\ pairs = ParseQuery(parts.query) /\ \A pair \in Range(pairs) : pair[1] # <<>>
    BY DEF Formed
  <2>2. parts.query = None \/ parts.query \in Seq(Token)
    <3>1. Seq(QueryText) \subseteq Seq(Token)
      BY SeqMonotonic DEF QueryText, Kept
    <3> QED BY <2>1, <3>1
  <2> HIDE DEF pairs
  <2> QED BY <2>1, <2>2, ParsedPairs
<1>3. /\ AddParam(parts.query, param[1], param[2]) = SerializeQuery(Append(pairs, param))
      /\ RemoveParam(parts.query, param[1]) = SerializeQuery(Without(pairs, dropped))
      /\ WithoutKey(pairs, param[1]) = Without(pairs, dropped)
  BY <1>1, <1>2 DEF AddParam, RemoveParam, WithoutKey
<1> HIDE DEF pairs, dropped
<1>4. Append(pairs, param) \in Seq(Named)
  BY <1>1, <1>2
<1>5. Without(pairs, dropped) \in Seq(Named)
  <2>1. Without(pairs, dropped) \in Seq(Named \ dropped)
    BY <1>2, WithoutIn
  <2>2. Seq(Named \ dropped) \subseteq Seq(Named)
    BY SeqMonotonic
  <2> QED BY <2>1, <2>2
<1> QED BY <1>3, <1>4, <1>5, ParamsReadBack DEF pairs

\* with_query_param adds the one parameter it was given, whatever characters are in
\* it, and without_query_param takes out that key and nothing else.
THEOREM ParamsAreExactHolds == Spec => []ParamsAreExact
<1>1. FormedInv => ParamsAreExact
  BY ParamChanges, ParamsAssumption DEF FormedInv, ParamsAreExact
<1> QED BY <1>1, FormedHolds, PTL

-----------------------------------------------------------------------------
(***************************************************************************)
(* No dot segments                                                         *)
(***************************************************************************)

\* A path whose dots are not escaped and make no segment has none once it is decoded.
LEMMA NoDotSegmentLeft ==
    ASSUME NEW path \in Seq(Kept), DotFree(path)
    PROVE  ~HasDotSegment(path)
<1> DEFINE plain == Unquote(path)
           Dot(i) == i \in DOMAIN path /\ plain[i] = "."
           Stops(i) == i \in {0, Len(path) + 1} \/ path[i] = "/"
<1>1. ASSUME NEW i \in DOMAIN path, plain[i] = "." PROVE path[i] = "."
  <2>1. plain[i] = IF path[i] \in DOMAIN Decoded THEN Decoded[path[i]] ELSE path[i]
    BY DEF Unquote, Each
  <2>2. path[i] # "%2E"
    BY DEF Kept
  <2> HIDE DEF plain
  <2> QED BY <1>1, <2>1, <2>2, UnreservedAssumption
<1>2. \A i : Dot(i) => DotAt(path, i)
  BY <1>1 DEF DotAt
<1>3. \A i : Stops(i) => Ends(path, i)
  BY DEF Ends
<1>4. HasDotSegment(path) = \E i \in DOMAIN path : /\ Stops(i - 1) /\ Dot(i)
                                                   /\ Stops(i + 1) \/ (Dot(i + 1) /\ Stops(i + 2))
  BY DEF HasDotSegment
<1>5. DOMAIN path = 1..Len(path)
  OBVIOUS
<1> HIDE DEF Dot, Stops
<1> QED BY <1>2, <1>3, <1>4, <1>5 DEF DotFree

\* No URL has a "." or ".." segment in its path, however it came by the path and
\* however the dots were spelled (_resolve.normalize_dot_segments).
THEOREM NoDotSegmentsHolds == Spec => []NoDotSegments
<1>1. FormedInv => NoDotSegments
  BY NoDotSegmentLeft DEF FormedInv, Formed, NoDotSegments
<1> QED BY <1>1, FormedHolds, PTL

-----------------------------------------------------------------------------
(***************************************************************************)
(* What a context checks                                                   *)
(***************************************************************************)

\* The two flags a context keeps beside its policy.
Checks == {"check_dns", "check_phishing"}
Same(p, q) == \A field \in DOMAIN Strict \ Checks : p[field] = q[field]

\* What a context checks, besides what its caller asked for, is only more.
Covers(c, policy) ==
    /\ {"policy", "check_dns", "check_phishing"} \subseteq DOMAIN c
    /\ IsPolicy(c.policy)
    /\ c.check_dns \in BOOLEAN /\ c.check_phishing \in BOOLEAN
    /\ Same(c.policy, policy)
    /\ policy.check_dns => c.check_dns
    /\ policy.check_phishing => c.check_phishing

\* The inductive invariant behind EveryUrlChecked, with FormedInv.
CoversInv == Covers(ctx, asked)

\* The fields of a policy.
LEMMA FieldsOfStrict ==
    DOMAIN Strict = {"enforce_ssrf", "allow_private_hosts", "heuristics", "reject_credentials",
                     "block_dangerous_ports", "check_dns", "check_phishing", "phishing_fail_closed",
                     "allowed_addresses", "denied_addresses", "allowed_schemes", "allow_custom_scheme"}
BY DEF Strict, Defaults

\* A policy with the three flags set that a call, or a context, can set.
Flagged(p, dns, phishing, custom) ==
    [field \in DOMAIN Strict |-> IF field = "check_dns" THEN dns ELSE IF field = "check_phishing" THEN phishing
                                 ELSE IF field = "allow_custom_scheme" THEN custom ELSE p[field]]

\* Setting the three flags leaves the other fields.
LEMMA ChangedFlags ==
    ASSUME NEW p, NEW dns, NEW phishing, NEW custom
    PROVE  LET q == Flagged(p, dns, phishing, custom)
           IN  /\ {dns, phishing, custom} \subseteq BOOLEAN => IsPolicy(q)
               /\ q.check_dns = dns /\ q.check_phishing = phishing /\ q.allow_custom_scheme = custom
               /\ \A field \in DOMAIN Strict \ (Checks \cup {"allow_custom_scheme"}) : q[field] = p[field]
<1> DEFINE q == Flagged(p, dns, phishing, custom)
<1>1. q = [field \in DOMAIN Strict |-> q[field]]
  BY DEF Flagged
<1>2. q.check_dns = dns /\ q.check_phishing = phishing /\ q.allow_custom_scheme = custom
  BY FieldsOfStrict DEF Flagged
<1>3. \A field \in DOMAIN Strict \ (Checks \cup {"allow_custom_scheme"}) : q[field] = p[field]
  BY DEF Flagged, Checks
<1> HIDE DEF q
<1>4. {dns, phishing, custom} \subseteq BOOLEAN => IsPolicy(q)
  BY <1>1, <1>2 DEF IsPolicy
<1> QED BY <1>2, <1>3, <1>4 DEF q

\* The same for check_dns alone,
LEMMA ChangedDns ==
    ASSUME NEW p, IsPolicy(p), NEW dns \in BOOLEAN
    PROVE  LET q == [p EXCEPT !.check_dns = dns]
           IN  /\ IsPolicy(q) /\ q.check_dns = dns
               /\ \A field \in DOMAIN Strict \ {"check_dns"} : q[field] = p[field]
<1> DEFINE q == [p EXCEPT !.check_dns = dns]
<1>1. p = [field \in DOMAIN Strict |-> p[field]] /\ p.check_phishing \in BOOLEAN /\ p.allow_custom_scheme \in BOOLEAN
  BY DEF IsPolicy
<1>2. q = [field \in DOMAIN Strict |-> IF field = "check_dns" THEN dns ELSE p[field]]
  BY <1>1, FieldsOfStrict
<1> HIDE DEF q
<1>3. q = [field \in DOMAIN Strict |-> q[field]]
  BY <1>2
<1>4. q.check_dns = dns /\ \A field \in DOMAIN Strict \ {"check_dns"} : q[field] = p[field]
  BY <1>2, FieldsOfStrict
<1>5. q.check_phishing = p.check_phishing /\ q.allow_custom_scheme = p.allow_custom_scheme
  BY <1>4, FieldsOfStrict
<1>6. IsPolicy(q)
  BY <1>1, <1>3, <1>4, <1>5 DEF IsPolicy
<1> QED BY <1>4, <1>6 DEF q

\* and for allow_custom_scheme alone.
LEMMA ChangedCustom ==
    ASSUME NEW p, IsPolicy(p), NEW custom \in BOOLEAN
    PROVE  LET q == [p EXCEPT !.allow_custom_scheme = custom]
           IN  /\ IsPolicy(q) /\ q.allow_custom_scheme = custom
               /\ \A field \in DOMAIN Strict \ {"allow_custom_scheme"} : q[field] = p[field]
<1> DEFINE q == [p EXCEPT !.allow_custom_scheme = custom]
<1>1. p = [field \in DOMAIN Strict |-> p[field]] /\ p.check_phishing \in BOOLEAN /\ p.check_dns \in BOOLEAN
  BY DEF IsPolicy
<1>2. q = [field \in DOMAIN Strict |-> IF field = "allow_custom_scheme" THEN custom ELSE p[field]]
  BY <1>1, FieldsOfStrict
<1> HIDE DEF q
<1>3. q = [field \in DOMAIN Strict |-> q[field]]
  BY <1>2
<1>4. q.allow_custom_scheme = custom /\ \A field \in DOMAIN Strict \ {"allow_custom_scheme"} : q[field] = p[field]
  BY <1>2, FieldsOfStrict
<1>5. q.check_phishing = p.check_phishing /\ q.check_dns = p.check_dns
  BY <1>4, FieldsOfStrict
<1>6. IsPolicy(q)
  BY <1>1, <1>3, <1>4, <1>5 DEF IsPolicy
<1> QED BY <1>4, <1>6 DEF q

\* The preset the module starts with.
LEMMA StrictIsPolicy == IsPolicy(Strict) /\ Strict.check_dns = FALSE /\ Strict.check_phishing = FALSE
<1>1. Strict.check_dns = FALSE /\ Strict.check_phishing = FALSE /\ Strict.allow_custom_scheme = FALSE
  BY DEF Strict, Defaults
<1>2. Strict = [field \in DOMAIN Strict |-> Strict[field]]
  BY DEF Strict, Defaults
<1> QED BY <1>1, <1>2 DEF IsPolicy

\* The context an entry point builds asks for what its caller asked for: by keyword, or
\* by a policy; at the constructor, where a flag only adds, as well.
LEMMA ContextCovers ==
    ASSUME NEW call \in Calls
    PROVE  Covers(ContextOf(call), AskedBy(call))
<1> DEFINE base == ResolveSecurityPolicy(call.given)
           policy == AskedBy(call)
           On(flag, otherwise) == flag = "yes" \/ (otherwise /\ ~(flag = "no" /\ ~call.constructor))
           custom == base.allow_custom_scheme \/ call.allow_custom_scheme
<1>1. /\ IsPolicy(base) /\ call.constructor \in BOOLEAN /\ call.allow_custom_scheme \in BOOLEAN
      /\ call.check_dns \in {NotGiven, "yes", "no"} /\ call.check_phishing \in {NotGiven, "yes", "no"}
  BY CallsAssumption
<1>2. call.given = <<>> => base = Strict
  BY DEF ResolveSecurityPolicy
<1> HIDE DEF base
<1>3. base.check_dns \in BOOLEAN /\ base.check_phishing \in BOOLEAN /\ base.allow_custom_scheme \in BOOLEAN
  BY <1>1 DEF IsPolicy
<1>4. /\ policy.check_dns = On(call.check_dns, base.check_dns)
      /\ policy.check_phishing = On(call.check_phishing, base.check_phishing)
      /\ policy.allow_custom_scheme = custom
      /\ \A field \in DOMAIN Strict \ (Checks \cup {"allow_custom_scheme"}) : policy[field] = base[field]
  <2>1. policy = [base EXCEPT !.check_dns = On(call.check_dns, base.check_dns),
                              !.check_phishing = On(call.check_phishing, base.check_phishing),
                              !.allow_custom_scheme = custom]
    BY <1>1, FieldsOfStrict DEF AskedBy, base, IsPolicy
  <2>2. On(call.check_dns, base.check_dns) \in BOOLEAN /\ On(call.check_phishing, base.check_phishing) \in BOOLEAN
        /\ custom \in BOOLEAN
    BY <1>1, <1>3
  <2>3. policy = Flagged(base, On(call.check_dns, base.check_dns), On(call.check_phishing, base.check_phishing),
                         custom)
    <3> HIDE DEF On, custom, policy
    <3> QED BY <1>1, <2>1, FieldsOfStrict DEF Flagged, IsPolicy
  <2> HIDE DEF On, custom, policy
  <2> QED BY <2>2, <2>3, ChangedFlags
<1> HIDE DEF policy
<1>5. CASE call.constructor
  <2> DEFINE dns == call.check_dns = "yes"
             plain == IF call.given = <<>> THEN [Strict EXCEPT !.check_dns = dns] ELSE base
             made == [plain EXCEPT !.allow_custom_scheme = plain.allow_custom_scheme \/ call.allow_custom_scheme]
             c == Context(made, dns, call.check_phishing = "yes", call.services)
  <2>1. /\ IsPolicy(plain) /\ (base.check_dns => plain.check_dns)
        /\ \A field \in DOMAIN Strict \ {"check_dns"} : plain[field] = base[field]
    BY <1>1, <1>2, <1>3, StrictIsPolicy, ChangedDns
  <2>2. ConstructorPolicy(call) = made
    <3>1. ConstructorPolicy(call) = [plain EXCEPT !.allow_custom_scheme = @ \/ call.allow_custom_scheme]
      BY DEF ConstructorPolicy, base
    <3> HIDE DEF plain
    <3> QED BY <3>1, <2>1, FieldsOfStrict DEF IsPolicy
  <2> HIDE DEF plain
  <2>3. plain.allow_custom_scheme \in BOOLEAN /\ plain.check_dns \in BOOLEAN /\ plain.check_phishing \in BOOLEAN
    BY <2>1 DEF IsPolicy
  <2>4. /\ IsPolicy(made) /\ made.allow_custom_scheme = (plain.allow_custom_scheme \/ call.allow_custom_scheme)
        /\ \A field \in DOMAIN Strict \ {"allow_custom_scheme"} : made[field] = plain[field]
    BY <1>1, <2>1, <2>3, ChangedCustom
  <2> HIDE DEF made
  <2>5. ContextOf(call) = c
    BY <1>5, <2>2 DEF ContextOf
  <2>6. /\ c.policy = made /\ c.check_dns = (dns \/ made.check_dns)
        /\ c.check_phishing = (call.check_phishing = "yes" \/ made.check_phishing)
        /\ {"policy", "check_dns", "check_phishing"} \subseteq DOMAIN c
    BY DEF Context
  <2> HIDE DEF c
  <2>7. Same(made, policy)
    <3>1. made.allow_custom_scheme = policy.allow_custom_scheme
      BY <1>4, <2>1, <2>4, FieldsOfStrict
    <3>2. \A field \in DOMAIN Strict \ (Checks \cup {"allow_custom_scheme"}) : made[field] = policy[field]
      BY <1>4, <2>1, <2>4 DEF Checks
    <3> QED BY <3>1, <3>2 DEF Same
  <2>8. made.check_dns = plain.check_dns /\ made.check_phishing = base.check_phishing
    BY <2>1, <2>4, FieldsOfStrict
  <2>9. c.check_dns \in BOOLEAN /\ c.check_phishing \in BOOLEAN
    BY <1>3, <2>3, <2>6, <2>8
  <2>10. (policy.check_dns => c.check_dns) /\ (policy.check_phishing => c.check_phishing)
    BY <1>4, <1>5, <2>1, <2>6, <2>8
  <2> QED BY <2>4, <2>5, <2>6, <2>7, <2>9, <2>10 DEF Covers, policy
<1>6. CASE ~call.constructor
  <2> DEFINE dns == IF call.check_dns = NotGiven THEN base.check_dns ELSE call.check_dns = "yes"
             phishing == IF call.check_phishing = NotGiven THEN base.check_phishing ELSE call.check_phishing = "yes"
             made == [base EXCEPT !.check_dns = dns, !.check_phishing = phishing, !.allow_custom_scheme = custom]
             c == Context(made, made.check_dns, made.check_phishing, call.services)
  <2>1. dns \in BOOLEAN /\ phishing \in BOOLEAN /\ custom \in BOOLEAN
    BY <1>1, <1>3
  <2>2. ResolvedPolicy(call) = made
    BY <1>1, FieldsOfStrict DEF ResolvedPolicy, ApplyOverrides, base, IsPolicy
  <2>3. (policy.check_dns => dns) /\ (policy.check_phishing => phishing)
    BY <1>1, <1>4, <1>6 DEF NotGiven
  <2> HIDE DEF dns, phishing, custom
  <2>4. /\ IsPolicy(made) /\ made.check_dns = dns /\ made.check_phishing = phishing
        /\ made.allow_custom_scheme = custom
        /\ \A field \in DOMAIN Strict \ (Checks \cup {"allow_custom_scheme"}) : made[field] = base[field]
    <3>1. made = Flagged(base, dns, phishing, custom)
      BY <1>1, FieldsOfStrict DEF Flagged, IsPolicy
    <3> HIDE DEF made
    <3> QED BY <2>1, <3>1, ChangedFlags
  <2> HIDE DEF made
  <2>5. ContextOf(call) = c
    BY <1>6, <2>2 DEF ContextOf, EntryContext
  <2>6. /\ c.policy = made /\ c.check_dns = dns /\ c.check_phishing = phishing
        /\ {"policy", "check_dns", "check_phishing"} \subseteq DOMAIN c
    BY <2>1, <2>4 DEF Context
  <2> HIDE DEF c
  <2>7. Same(made, policy)
    BY <1>4, <2>4 DEF Same
  <2> QED BY <2>1, <2>3, <2>4, <2>5, <2>6, <2>7 DEF Covers, policy
<1> QED BY <1>1, <1>5, <1>6

\* The policy _validate_context checks by asks for what the context does.
LEMMA ValidatingChecksAll ==
    ASSUME NEW c, NEW policy, Covers(c, policy)
    PROVE  LET v == Validating(c)
           IN  /\ Same(v, policy)
               /\ policy.check_dns => v.check_dns
               /\ policy.check_phishing => v.check_phishing
<1> DEFINE v == Validating(c)
<1>1. IsPolicy(c.policy) /\ c.check_dns \in BOOLEAN /\ c.check_phishing \in BOOLEAN
  BY DEF Covers
<1>2. c.policy = [field \in DOMAIN Strict |-> c.policy[field]] /\ c.policy.allow_custom_scheme \in BOOLEAN
  BY <1>1 DEF IsPolicy
<1>3. v = Flagged(c.policy, c.check_dns, c.check_phishing, c.policy.allow_custom_scheme)
  <2>1. \A on \in BOOLEAN : Flag(on) # NotGiven /\ (Flag(on) = "yes") = on
    BY DEF Flag, NotGiven
  <2>2. v = [c.policy EXCEPT !.check_dns = c.check_dns, !.check_phishing = c.check_phishing,
                             !.allow_custom_scheme = c.policy.allow_custom_scheme]
    BY <1>1, <1>2, <2>1, FieldsOfStrict DEF Validating, ApplyOverrides
  <2> QED BY <1>2, <2>2, FieldsOfStrict DEF Flagged
<1> HIDE DEF v
<1>4. /\ v.check_dns = c.check_dns /\ v.check_phishing = c.check_phishing
      /\ v.allow_custom_scheme = c.policy.allow_custom_scheme
      /\ \A field \in DOMAIN Strict \ (Checks \cup {"allow_custom_scheme"}) : v[field] = c.policy[field]
  BY <1>3, ChangedFlags
<1>5. Same(v, policy)
  BY <1>4 DEF Same, Covers
<1> QED BY <1>4, <1>5 DEF Covers, v

\* Policies that differ in the two flags alone judge alike.
LEMMA SameRules ==
    ASSUME NEW v, NEW policy, Same(v, policy)
    PROVE  /\ v.allow_custom_scheme = policy.allow_custom_scheme /\ v.allowed_schemes = policy.allowed_schemes
           /\ v.heuristics = policy.heuristics /\ v.reject_credentials = policy.reject_credentials
           /\ v.block_dangerous_ports = policy.block_dangerous_ports
           /\ v.phishing_fail_closed = policy.phishing_fail_closed
           /\ \A host : HostIsRefused(v, host) = HostIsRefused(policy, host)
           /\ \A host : HostIsAllowed(v, host) = HostIsAllowed(policy, host)
           /\ \A ip, allowed : PermitsAddress(v, ip, allowed) = PermitsAddress(policy, ip, allowed)
<1>1. /\ v.allow_custom_scheme = policy.allow_custom_scheme /\ v.allowed_schemes = policy.allowed_schemes
      /\ v.heuristics = policy.heuristics /\ v.reject_credentials = policy.reject_credentials
      /\ v.block_dangerous_ports = policy.block_dangerous_ports
      /\ v.phishing_fail_closed = policy.phishing_fail_closed
  BY FieldsOfStrict DEF Same, Checks
<1>2. /\ v.enforce_ssrf = policy.enforce_ssrf /\ v.allow_private_hosts = policy.allow_private_hosts
      /\ v.denied_addresses = policy.denied_addresses /\ v.allowed_addresses = policy.allowed_addresses
  BY FieldsOfStrict DEF Same, Checks
<1>3. \A host : HostIsRefused(v, host) = HostIsRefused(policy, host)
  BY <1>2 DEF HostIsRefused, HostIsSsrfRisk, HostIsDenied
<1>4. \A host : HostIsAllowed(v, host) = HostIsAllowed(policy, host)
  BY <1>2 DEF HostIsAllowed, HostIsDenied
<1>5. \A ip, allowed : PermitsAddress(v, ip, allowed) = PermitsAddress(policy, ip, allowed)
  BY <1>2 DEF PermitsAddress
<1> QED BY <1>1, <1>3, <1>4, <1>5

\* A URL that passed the checks is one its caller's policy accepts: the spellings the
\* checks look at include the host and the path of the parts themselves.
LEMMA CheckedIsAcceptable ==
    ASSUME NEW text, NEW parts, Formed(parts), NEW c, NEW policy, Covers(c, policy), NEW now,
           ~IsRejected(text, parts, Validating(c), now)
    PROVE  Acceptable(parts, policy, now)
<1> DEFINE v == Validating(c)
           raw == ExtractHostAndPath(text)
<1>1. Same(v, policy) /\ (policy.check_dns => v.check_dns) /\ (policy.check_phishing => v.check_phishing)
  BY ValidatingChecksAll
<1>2. ~IsRejectedAs(text, raw, parts, v, now)
  BY DEF IsRejected
<1> HIDE DEF v, raw
<1>3. parts.scheme # None => policy.allow_custom_scheme \/ parts.scheme \in policy.allowed_schemes
  BY <1>1, <1>2, SameRules DEF IsRejectedAs, SchemeFinding, SchemeAllowed
<1>4. ASSUME parts.host # None
      PROVE  /\ ~HostIsRefused(policy, parts.host)
             /\ policy.heuristics => ~HasPathTraversal(parts.path) /\ ~IsOpenRedirectRisk(parts.path)
             /\ policy.reject_credentials => parts.userinfo = None
             /\ policy.block_dangerous_ports => parts.port \notin DangerousPorts
             /\ policy.check_dns =>
                   /\ AddressesOf(now, parts.host) # {}
                   /\ \A ip \in AddressesOf(now, parts.host) :
                         PermitsAddress(policy, ip, HostIsAllowed(policy, parts.host))
             /\ policy.check_phishing =>
                   IF now.feed THEN parts.host \notin now.listed ELSE ~policy.phishing_fail_closed
  <2>1. /\ ~HostIdentityFinding(v, raw, parts) /\ ~PathFinding(v, raw, parts)
        /\ ~CredentialFinding(v, text, parts) /\ ~PortFinding(v, parts)
        /\ ~DnsFinding(v, parts.host, now) /\ ~PhishingFinding(v, parts.host, now)
    BY <1>2, <1>4 DEF IsRejectedAs
  <2>2. ~HostIsRefused(policy, parts.host)
    <3>1. parts.host \in HostSpellings(raw, parts)
      BY <1>4, HostTokens DEF HostSpellings, Formed, GoodHost
    <3> QED BY <1>1, <2>1, <3>1, SameRules DEF HostIdentityFinding
  <2>3. policy.heuristics => ~HasPathTraversal(parts.path) /\ ~IsOpenRedirectRisk(parts.path)
    <3>1. parts.path \in PathSpellings(raw, parts)
      BY <1>4 DEF PathSpellings, Formed
    <3> QED BY <1>1, <2>1, <3>1, SameRules DEF PathFinding
  <2>4. policy.reject_credentials => parts.userinfo = None
    BY <1>1, <2>1, SameRules DEF CredentialFinding
  <2>5. policy.block_dangerous_ports => parts.port \notin DangerousPorts
    BY <1>1, <2>1, SameRules DEF PortFinding, IsCommonlyAbusedPort
  <2>6. policy.check_dns =>
          /\ AddressesOf(now, parts.host) # {}
          /\ \A ip \in AddressesOf(now, parts.host) : PermitsAddress(policy, ip, HostIsAllowed(policy, parts.host))
    BY <1>1, <1>4, <2>1, SameRules DEF DnsFinding
  <2>7. policy.check_phishing => IF now.feed THEN parts.host \notin now.listed ELSE ~policy.phishing_fail_closed
    BY <1>1, <1>4, <2>1, SameRules DEF PhishingFinding
  <2> QED BY <2>2, <2>3, <2>4, <2>5, <2>6, <2>7
<1> QED BY <1>3, <1>4 DEF Acceptable

\* The ways in leave a context that covers what was asked.
LEMMA CreateCovers ==
    ASSUME NEW text, NEW call \in Calls, Create(text, call)
    PROVE  CoversInv'
BY ContextCovers DEF Create, Adopt, CoversInv

\* A URL was checked, when it was made, under its context: as the text it was parsed from,
\* or as the string its parts are spelled as.
CheckedAs(text, parts, c, now) ==
    /\ parts = ParseText(text, c.policy) \/ text = AsString(parts)
    /\ ~IsRejected(text, parts, Validating(c), now)
Vetted == Formed(url) /\ \E text : CheckedAs(text, url, ctx, network[ctx.services])

\* The ways in check the text,
LEMMA CreateChecks ==
    ASSUME NEW text, NEW call \in Calls, Create(text, call), UNCHANGED network
    PROVE  Vetted'
<1>1. /\ Formed(url') /\ url' = ParseText(text, ctx'.policy)
      /\ ~IsRejected(text, url', Validating(ctx'), network'[ctx'.services])
  BY CreateMakes DEF Create, Adopt, Accepts, Validates
<1> QED BY <1>1 DEF Vetted, CheckedAs

\* and the mutators the string, under the context of the URL they start from.
LEMMA CopyChecks ==
    ASSUME FormedInv', CoversInv, NEW o, Copy(o), UNCHANGED network
    PROVE  CoversInv' /\ Vetted'
<1>1. Formed(url')
  BY DEF Copy, Inherit, FormedInv, NoUrl, Rejected
<1>2. ctx' = ctx /\ asked' = asked /\ network' = network
  BY DEF Copy, Inherit
<1>3. CoversInv'
  BY <1>2 DEF CoversInv
<1>4. ~IsRejected(AsString(url'), url', Validating(ctx'), network'[ctx'.services])
  BY <1>2 DEF Copy, Inherit, Validates
<1> QED BY <1>1, <1>3, <1>4 DEF Vetted, CheckedAs

\* So does the context the module starts with.
LEMMA InitCovers == Init => CoversInv
<1> SUFFICES ASSUME Init PROVE CoversInv
  OBVIOUS
<1>1. ctx = Context(Strict, FALSE, FALSE, "default") /\ asked = Strict
  BY DEF Init
<1>2. /\ ctx.policy = Strict /\ ctx.check_dns = FALSE /\ ctx.check_phishing = FALSE
      /\ {"policy", "check_dns", "check_phishing"} \subseteq DOMAIN ctx
  BY <1>1, StrictIsPolicy DEF Context
<1> QED BY <1>1, <1>2, StrictIsPolicy DEF CoversInv, Covers, Same

\* One step per action: what is new was checked.
LEMMA CheckedStep ==
    ASSUME FormedInv, CoversInv, [Next]_vars
    PROVE  CoversInv' /\ (UNCHANGED <<url, asked>> \/ Vetted')
<1> FormedInv'
  BY FormedStep
<1>1. ASSUME NEW text \in Texts, NEW call \in Calls, ParseUrl(text, call)
      PROVE  CoversInv' /\ Vetted'
  BY <1>1, CreateCovers, CreateChecks DEF ParseUrl, First
<1>2. ASSUME NEW components \in Components, NEW call \in Calls, BuildSecure(components, call)
      PROVE  CoversInv' /\ Vetted'
  BY <1>2, CreateCovers, CreateChecks DEF BuildSecure, Send, First
<1>3. ASSUME NEW o \in Overrides, Derive(o)
      PROVE  CoversInv' /\ Vetted'
  BY <1>3, CopyChecks DEF Derive, Further
<1>4. ASSUME NEW netloc \in Netlocs, WithNetloc(netloc)
      PROVE  CoversInv' /\ Vetted'
  BY <1>4, CopyChecks DEF WithNetloc, Further
<1>5. ASSUME NEW param \in Params, WithQueryParam(param)
      PROVE  CoversInv' /\ Vetted'
  BY <1>5, CopyChecks DEF WithQueryParam, Further
<1>6. ASSUME NEW param \in Params, WithoutQueryParam(param[1])
      PROVE  CoversInv' /\ Vetted'
  BY <1>6, CopyChecks DEF WithoutQueryParam, Further
<1>7. ASSUME WithoutQuery
      PROVE  CoversInv' /\ Vetted'
  BY <1>7, CopyChecks DEF WithoutQuery, Further
<1>8. ASSUME Canonicalize
      PROVE  CoversInv' /\ Vetted'
  BY <1>8, CopyChecks DEF Canonicalize, Further
<1>9. ASSUME NEW reference \in References, NEW strict \in BOOLEAN, NEW call \in Calls,
             Join(reference, strict, call)
      PROVE  CoversInv' /\ Vetted'
  BY <1>9, CreateCovers, CreateChecks DEF Join, Send, Further
<1>10. ASSUME Unpickle PROVE CoversInv' /\ UNCHANGED <<url, asked>>
  <2>1. ctx' = [ctx EXCEPT !.services = "default"] /\ asked' = asked /\ url' = url
    BY <1>10 DEF Unpickle
  <2>2. {"policy", "check_dns", "check_phishing"} \subseteq DOMAIN ctx
    BY DEF CoversInv, Covers
  <2>3. /\ ctx'.policy = ctx.policy /\ ctx'.check_dns = ctx.check_dns /\ ctx'.check_phishing = ctx.check_phishing
        /\ DOMAIN ctx' = DOMAIN ctx
    BY <2>1, <2>2
  <2> QED BY <2>1, <2>3 DEF CoversInv, Covers
<1>11. ASSUME NetworkChanges PROVE CoversInv' /\ UNCHANGED <<url, asked>>
  BY <1>11 DEF NetworkChanges, CoversInv
<1>12. ASSUME UNCHANGED vars PROVE CoversInv' /\ UNCHANGED <<url, asked>>
  BY <1>12 DEF vars, CoversInv
<1> QED BY <1>1, <1>2, <1>3, <1>4, <1>5, <1>6, <1>7, <1>8, <1>9, <1>10, <1>11, <1>12 DEF Next

\* A URL never changes into one that the checks its caller asked for would refuse at
\* that moment: not by being copied, joined or pickled on the way (URL._derive,
\* __setstate__).
THEOREM EveryUrlCheckedHolds == Spec => EveryUrlChecked
<1>1. Init => CoversInv
  BY InitCovers
<1>2. FormedInv /\ CoversInv /\ [Next]_vars => CoversInv'
  BY CheckedStep
<1>3. ASSUME FormedInv, CoversInv, [Next]_vars, url' # url
      PROVE  Acceptable(url', asked', network'[ctx'.services])
  <2>1. Covers(ctx', asked') /\ Vetted'
    BY <1>3, CheckedStep DEF CoversInv
  <2>2. PICK text : ~IsRejected(text, url', Validating(ctx'), network'[ctx'.services])
    BY <2>1 DEF Vetted, CheckedAs
  <2> QED BY <2>1, <2>2, CheckedIsAcceptable DEF Vetted
<1> QED BY <1>1, <1>2, <1>3, FormedHolds, PTL DEF Spec, EveryUrlChecked

-----------------------------------------------------------------------------
(***************************************************************************)
(* The string of a URL                                                     *)
(***************************************************************************)

\* The scheme of a URL is one that its policy lets the parser read back.
AllowedInv == url # NoUrl /\ url.scheme # None => SchemeAllowed(asked, url.scheme)

\* A policy that came with the URL, or with the context, allows it.
LEMMA AllowedHolds == Spec => [](FormedInv /\ CoversInv /\ AllowedInv)
<1>1. Init => CoversInv /\ AllowedInv
  BY InitCovers DEF Init, AllowedInv
<1>2. FormedInv /\ CoversInv /\ [Next]_vars => CoversInv'
  BY CheckedStep
<1>3. ASSUME FormedInv, CoversInv, AllowedInv, [Next]_vars PROVE AllowedInv'
  <2>1. CASE UNCHANGED <<url, asked>>
    BY <1>3, <2>1 DEF AllowedInv
  <2>2. CASE Vetted'
    <3>1. PICK text : ~IsRejected(text, url', Validating(ctx'), network'[ctx'.services])
      BY <2>2 DEF Vetted, CheckedAs
    <3>2. Covers(ctx', asked')
      BY <1>3, CheckedStep DEF CoversInv
    <3>3. Acceptable(url', asked', network'[ctx'.services])
      BY <2>2, <3>1, <3>2, CheckedIsAcceptable DEF Vetted
    <3> QED BY <3>3 DEF AllowedInv, Acceptable, SchemeAllowed
  <2> QED BY <1>3, <2>1, <2>2, CheckedStep
<1> QED BY <1>1, <1>2, <1>3, FormedHolds, PTL DEF Spec

\* str() of a URL with a scheme and a host parses again, under its policy, to the
\* same scheme, userinfo, host and port: what was checked is what is sent
\* (assert_round_trip), after every sequence of changes.
THEOREM SameDestinationHolds == Spec => []SameDestination
<1>1. ASSUME FormedInv, CoversInv, AllowedInv PROVE SameDestination
  <2> SUFFICES ASSUME Absolute PROVE SameNames(url, Again)
    BY DEF SameDestination
  <2>1. Formed(url) /\ url.scheme # None /\ url.host # None
    BY <1>1 DEF Absolute, FormedInv
  <2>2. SchemeAllowed(ctx.policy, url.scheme)
    BY <1>1, <2>1, SameRules DEF Absolute, AllowedInv, CoversInv, Covers, SchemeAllowed
  <2> QED BY <2>1, <2>2, ReadBack DEF Again, SameNames, Destination
<1> QED BY <1>1, AllowedHolds, PTL

\* The rest of that string is read back too: query, parameters and fragment as
\* they are, the path up to escapes; and it is spelled the same a second time
\* (Builder.compose, of what _parser makes of its output).
THEOREM StringIsFixedHolds == Spec => []StringIsFixed
<1>1. ASSUME FormedInv, CoversInv, AllowedInv PROVE StringIsFixed
  <2> SUFFICES ASSUME Absolute PROVE ReadsTheSame(url, Again)
    BY DEF StringIsFixed
  <2>1. Formed(url) /\ url.scheme # None /\ url.host # None
    BY <1>1 DEF Absolute, FormedInv
  <2>2. SchemeAllowed(ctx.policy, url.scheme)
    BY <1>1, <2>1, SameRules DEF Absolute, AllowedInv, CoversInv, Covers, SchemeAllowed
  <2>3. /\ Again.ok /\ Again.query = url.query /\ Again.pairs = url.pairs
        /\ Again.fragment = IF url.fragment = <<>> THEN None ELSE url.fragment
    BY <2>1, <2>2, ReadBack DEF Again, SpelledFragment
  <2>4. Unquote(Again.path) = Unquote(url.path) /\ AsString(Again) = AsString(url)
    BY <2>1, <2>2, SpelledAgain DEF Again
  <2> QED BY <2>3, <2>4 DEF ReadsTheSame
<1> QED BY <1>1, AllowedHolds, PTL

-----------------------------------------------------------------------------
(***************************************************************************)
(* Double escapes                                                          *)
(***************************************************************************)

\* A double escape stands for an escape, and no delimiter does; no spelling of an escape
\* makes one.
LEMMA DoubleEscapesStay ==
    /\ DoubleEscapes \subseteq DOMAIN Decoded /\ DoubleEscapes \subseteq Token
    /\ DoubleEscapes \cap {"/", "?", "#", ":", "@", "&", "=", "+", ".", "~", "%2F", "%2f", "%2E", "%7E"} = {}
    /\ \A token : Normal(token) \in DoubleEscapes => token \in DoubleEscapes
<1>1. DoubleEscapes \subseteq DOMAIN Decoded /\ DoubleEscapes \subseteq Token
  BY EscapesAssumption DEF DoubleEscapes
<1>2. DoubleEscapes \cap {"/", "?", "#", ":", "@", "&", "=", "+", ".", "~"} = {}
  BY <1>1, CharactersAreTokens
<1>3. DoubleEscapes \cap {"%2F", "%2f", "%2E", "%7E"} = {}
  BY CharactersAreTokens, EscapesAssumption, UnreservedAssumption DEF DoubleEscapes
<1>4. ASSUME NEW token, Normal(token) \in DoubleEscapes PROVE token \in DoubleEscapes
  <2>1. Normal(token) \in {token, "%2F", ".", "~"}
    BY NormalToken
  <2> QED BY <1>2, <1>3, <1>4, <2>1
<1> QED BY <1>1, <1>2, <1>3, <1>4

\* The text after the scheme, as urlsplit cuts it, is the one the parser splits.
LEMMA SameSplit ==
    ASSUME NEW text \in Seq(Token), NEW policy, ParseScheme(text, policy).scheme # Bad
    PROVE  UrlSplit(text) = SplitHierarchy(ParseScheme(text, policy).rest)
<1> DEFINE candidate == Before(text, {":"})
           rest == After(text, {":"})
           s == ParseScheme(text, policy)
           cut == Holds(text, ":") /\ IsValidScheme(Lower(candidate))
<1>1. /\ candidate \in Seq(Token) /\ candidate \in Seq(Token \ {":"})
      /\ HoldsAny(text, {":"}) => rest \in Seq(Token)
      /\ ~HoldsAny(text, {":"}) => candidate = text
  BY CutIs
<1>2. s = ReadScheme(text, candidate, rest, policy)
  BY DEF ParseScheme
<1>3. UrlSplit(text) = SplitHierarchy(IF cut THEN rest ELSE text)
  BY DEF UrlSplit
<1>4. ASSUME Holds(text, ":"), candidate = text PROVE FALSE
  <2> DEFINE colon == {":"}
  <2>1. HoldsAny(text, colon)
    BY <1>4, HoldsOne
  <2>2. text \in Seq(Token \ colon)
    BY <1>1, <1>4
  <2> HIDE DEF colon, candidate
  <2> QED BY <2>1, <2>2, HoldsNone
<1>5. ASSUME HoldsAny(candidate, {"/", "?", "#"}) \/ candidate = <<>> PROVE ~IsValidScheme(Lower(candidate))
  <2> SUFFICES ASSUME IsValidScheme(Lower(candidate)) PROVE FALSE
    OBVIOUS
  <2> HIDE DEF candidate
  <2>1. Lower(candidate) \in Seq(Token) /\ Len(Lower(candidate)) = Len(candidate)
        /\ \A i \in 1..Len(candidate) : Lower(candidate)[i] = Lowered(candidate[i])
    BY <1>1, LowerIs
  <2>2. Lower(candidate) \in Seq(Token \ {"/", "?", "#", ":", "@"}) /\ Lower(candidate) # <<>>
    BY <2>1, SchemeIs
  <2>3. candidate # <<>>
    BY <2>1, <2>2
  <2>4. PICK i \in DOMAIN candidate : candidate[i] \in {"/", "?", "#"}
    BY <1>5, <2>3 DEF HoldsAny
  <2>5. i \in 1..Len(candidate) /\ Lowered(candidate[i]) = candidate[i]
    BY <1>1, <2>4, LoweredToken DEF Delimiters
  <2> HIDE DEF Lowered
  <2>6. Lower(candidate)[i] \in {"/", "?", "#"}
    BY <2>1, <2>4, <2>5
  <2> QED BY <2>1, <2>2, <2>5, <2>6
<1> HIDE DEF candidate, rest, s
<1>6. CASE \/ candidate \in {text, <<>>}
           \/ HoldsAny(candidate, {"/", "?", "#"})
           \/ rest # <<>> /\ rest[1] \notin {"/", "?", "#"} /\ ~IsValidScheme(Lower(candidate))
  <2>1. s.rest = text
    BY <1>2, <1>6 DEF ReadScheme
  <2>2. ~cut
    BY <1>4, <1>5, <1>6
  <2> QED BY <1>3, <2>1, <2>2 DEF s
<1>7. CASE ~(\/ candidate \in {text, <<>>}
             \/ HoldsAny(candidate, {"/", "?", "#"})
             \/ rest # <<>> /\ rest[1] \notin {"/", "?", "#"} /\ ~IsValidScheme(Lower(candidate)))
  <2>1. /\ s.rest = rest
        /\ s.scheme = IF IsValidScheme(Lower(candidate)) /\ SchemeAllowed(policy, Lower(candidate))
                      THEN Lower(candidate) ELSE Bad
    BY <1>2, <1>7 DEF ReadScheme
  <2>2. IsValidScheme(Lower(candidate))
    BY <2>1 DEF s
  <2>3. Holds(text, ":")
    BY <1>1, <1>7, HoldsOne
  <2> QED BY <1>3, <2>1, <2>2, <2>3 DEF s
<1> QED BY <1>6, <1>7

\* Where the target of a text has no double escape, neither has its path or its query.
LEMMA PlainTarget ==
    ASSUME NEW text \in Seq(Token), ~HasDoubleEncoding(EncodedTarget(text))
    PROVE  LET split == UrlSplit(text)
           IN  ~HasDoubleEncoding(split.path) /\ ~HasDoubleEncoding(split.query)
<1> DEFINE P == Token \ DoubleEscapes
           rest == IF Holds(text, ":") /\ IsValidScheme(Lower(Before(text, {":"}))) THEN After(text, {":"}) ELSE text
           split == SplitHierarchy(rest)
<1>1. UrlSplit(text) = split
  BY DEF UrlSplit
<1>2. "/" \in P /\ "/" \in Token /\ "?" \in Token /\ ~HasDoubleEncoding(None)
  <2>1. ~HoldsAny(None, DoubleEscapes)
    BY DoubleEscapesStay, NormalNone
  <2> QED BY <2>1, DoubleEscapesStay, CharactersAreTokens DEF Kept, HasDoubleEncoding
<1>3. CASE HasSchemeAuthority(text)
  <2> DEFINE mark == <<"?">>
             q == OrEmpty(split.query)
             p == split.path
  <2>1. EncodedTarget(text) = (p \o mark) \o q
    BY <1>1, <1>3 DEF EncodedTarget
  <2>2. rest \in Seq(Token)
    BY CutIs, HoldsOne
  <2> HIDE DEF rest
  <2>3. p \in Seq(Token) /\ (split.query = None \/ split.query \in Seq(Token \ {"#"}))
    BY <1>2, <2>2, SplitIs
  <2> HIDE DEF split
  <2>4. split.query = None \/ split.query \in Seq(Token)
    <3>1. Seq(Token \ {"#"}) \subseteq Seq(Token)
      BY SeqMonotonic
    <3> QED BY <2>3, <3>1
  <2>5. q \in Seq(Token) /\ mark \in Seq(Token)
    BY <1>2, <2>4 DEF OrEmpty
  <2> HIDE DEF p, q, mark
  <2>6. p \o mark \in Seq(Token)
    BY <2>3, <2>5, ConcatIs DEF p
  <2>7. p \in Seq(Token)
    BY <2>3
  <2>8. ~HoldsAny(p, DoubleEscapes) /\ ~HoldsAny(q, DoubleEscapes)
    <3> DEFINE pm == p \o mark
               whole == pm \o q
    <3>1. ~HoldsAny(whole, DoubleEscapes)
      BY <2>1 DEF HasDoubleEncoding
    <3>2. HoldsAny(whole, DoubleEscapes) <=> HoldsAny(pm, DoubleEscapes) \/ HoldsAny(q, DoubleEscapes)
      <4> HIDE DEF pm
      <4> QED BY <2>5, <2>6, HoldsEither DEF pm
    <3>3. HoldsAny(pm, DoubleEscapes) <=> HoldsAny(p, DoubleEscapes) \/ HoldsAny(mark, DoubleEscapes)
      BY <2>5, <2>7, HoldsEither
    <3> HIDE DEF pm, whole
    <3> QED BY <3>1, <3>2, <3>3
  <2>9. ~HasDoubleEncoding(split.query)
    BY <1>2, <2>8 DEF q, OrEmpty, HasDoubleEncoding
  <2> QED BY <1>1, <2>8, <2>9 DEF p, HasDoubleEncoding
<1>4. CASE ~HasSchemeAuthority(text)
  <2>1. text \in Seq(P)
    <3>1. ~HoldsAny(text, DoubleEscapes)
      BY <1>4 DEF EncodedTarget, HasDoubleEncoding
    <3> QED BY <3>1, HoldsNone
  <2>2. P \cap DoubleEscapes = {}
    OBVIOUS
  <2> HIDE DEF P
  <2>3. rest \in Seq(P)
    BY <2>1, CutIs, HoldsOne
  <2> HIDE DEF rest
  <2>4. split.path \in Seq(P) /\ (split.query = None \/ split.query \in Seq(P \ {"#"}))
    BY <1>2, <2>3, SplitIs
  <2> HIDE DEF split
  <2>5. ~HasDoubleEncoding(split.path)
    BY <2>2, <2>4, HoldsNone DEF HasDoubleEncoding
  <2>6. ~HasDoubleEncoding(split.query)
    <3>1. CASE split.query = None
      BY <1>2, <3>1
    <3>2. CASE split.query # None
      <4> DEFINE H == P \ {"#"}
      <4>1. split.query \in Seq(H) /\ H \cap DoubleEscapes = {}
        BY <2>2, <2>4, <3>2
      <4> HIDE DEF H
      <4> QED BY <4>1, HoldsNone DEF HasDoubleEncoding
    <3> QED BY <3>1, <3>2
  <2> QED BY <1>1, <2>5, <2>6
<1> QED BY <1>3, <1>4

\* What the parser makes of such a text has none either.
LEMMA ParsedIsPlain ==
    ASSUME NEW text, NEW policy, NEW parts, parts = ParseText(text, policy), parts.ok,
           ~HasDoubleEncoding(EncodedTarget(text))
    PROVE  ~HasDoubleEncoding(parts.path) /\ ~HasDoubleEncoding(parts.query)
<1> DEFINE s == ParseScheme(text, policy)
           split == SplitHierarchy(s.rest)
           h == IF split.authority = None THEN ParseHost(<<>>, FALSE)
                ELSE ParseHost(HostPart(split.authority), s.scheme \notin {None, <<"file">>})
           K == Kept \ DoubleEscapes
<1>1. text \in Seq(Token)
  BY DEF ParseText, Rejected, IsText
<1>2. parts = Assemble(s.scheme, ParseUserinfo(split.authority), h.host, h.port, split.path, split.query, split.fragment)
  BY <1>1 DEF ParseText, ParseSplit, ParseHierarchy, ParseParts, IsText
<1> HIDE DEF h
<1>3. /\ s.scheme # Bad
      /\ parts.path = OrRoot(h.host, NormalizePath(Rooted(h.host, split.path)))
      /\ parts.query = NormalizePercentEncoding(split.query)
  BY <1>2 DEF Assemble, Rejected
<1>4. UrlSplit(text) = split
  BY <1>1, <1>3, SameSplit
<1>5. ~HasDoubleEncoding(split.path) /\ ~HasDoubleEncoding(split.query)
  BY <1>1, <1>4, PlainTarget
<1>6. split.path \in Seq(Token) /\ (split.query = None \/ split.query \in Seq(Token \ {"#"}))
  <2>1. s.rest \in Seq(Token)
    BY <1>1, SchemeParsed
  <2>2. "/" \in Token
    BY CharactersAreTokens DEF Kept
  <2> HIDE DEF s
  <2> QED BY <2>1, <2>2, SplitIs
<1> HIDE DEF split, s
<1>7. ASSUME NEW x \in Seq(Token), ~HasDoubleEncoding(x) PROVE NormalizePercentEncoding(x) \in Seq(K)
  <2> DEFINE n == NormalizePercentEncoding(x)
  <2>1. n \in Seq(Kept) /\ Len(n) = Len(x) /\ \A i \in 1..Len(x) : n[i] = Normal(x[i])
    BY EscapesNormalised
  <2> HIDE DEF n
  <2>2. ASSUME HoldsAny(n, DoubleEscapes) PROVE FALSE
    <3>1. PICK i \in DOMAIN n : n[i] \in DoubleEscapes
      BY <2>2 DEF HoldsAny
    <3>2. i \in DOMAIN x /\ n[i] = Normal(x[i])
      BY <2>1
    <3>3. x[i] \in DoubleEscapes
      BY <3>1, <3>2, DoubleEscapesStay
    <3> QED BY <1>7, <3>2, <3>3 DEF HasDoubleEncoding, HoldsAny
  <2>3. n \in Seq(K)
    BY <2>1, <2>2, HoldsNone
  <2> QED BY <2>3 DEF n
<1>8. "/" \in K /\ "." \in K /\ K \cap DoubleEscapes = {}
  BY CharactersAreTokens, DoubleEscapesStay
<1> HIDE DEF K
<1>9. parts.path \in Seq(K)
  BY <1>3, <1>5, <1>6, <1>7, <1>8, PathNormalised
<1>10. ~HasDoubleEncoding(parts.path)
  BY <1>8, <1>9, HoldsNone DEF HasDoubleEncoding
<1>11. ~HasDoubleEncoding(parts.query)
  <2>1. CASE split.query = None
    BY <1>3, <1>5, <2>1, NormalNone
  <2>2. CASE split.query # None
    <3>1. split.query \in Seq(Token)
      BY <1>6, <2>2, SeqMonotonic
    <3>2. parts.query \in Seq(K)
      BY <1>3, <1>5, <1>7, <3>1
    <3> QED BY <1>8, <3>2, HoldsNone DEF HasDoubleEncoding
  <2> QED BY <2>1, <2>2
<1> QED BY <1>10, <1>11

\* A string that spells no scheme has no authority to urlsplit and the checks either.
LEMMA BareHasNoAuthority ==
    ASSUME NEW parts, Formed(parts), parts.scheme = None, parts.host # None,
           NEW t \in Seq(Token), t # <<>>, t[1] = "/"
    PROVE  ~HasSchemeAuthority(SpelledNetloc(parts) \o t)
<1> DEFINE ends == {"/", "?", "#"}
           n == SpelledNetloc(parts)
           text == n \o t
           k == Len(n)
<1>1. /\ n \in Seq(Token \ ends) /\ n # <<>> /\ n[k] # ":"
  <2>1. parts.userinfo = None \/ GoodUserinfo(parts.userinfo)
    BY DEF Formed
  <2>2. GoodHost(parts.host)
    BY DEF Formed
  <2>3. n \in Seq(Token \ ends) /\ n \notin {Bad, <<>>} /\ (SpelledPort(parts) = None \/ IsPort(SpelledPort(parts)))
    BY NetlocSpelled
  <2>4. n = NetlocOf(parts.userinfo, parts.host, SpelledPort(parts))
    BY DEF SpelledNetloc
  <2>5. n[Len(n)] # ":"
    <3> HIDE DEF n
    <3> QED BY <2>1, <2>2, <2>3, <2>4, NetlocEnds
  <2> QED BY <2>3, <2>5
<1>2. n \in Seq(Token) /\ ~HoldsAny(n, ends) /\ n[1] # "/" /\ k \in Nat /\ k # 0
  <2> DEFINE S == Token \ ends
  <2>1. S \cap ends = {} /\ S \subseteq Token /\ "/" \notin S /\ n \in Seq(S)
    BY <1>1
  <2> HIDE DEF S, ends, n
  <2> QED BY <1>1, <2>1, SeqMonotonic, HoldsNone
<1> HIDE DEF n
<1>3. /\ text \in Seq(Token) /\ Len(text) = Len(n) + Len(t) /\ Len(t) \in Nat /\ Len(t) # 0
      /\ \A i \in 1..(Len(n) + Len(t)) : text[i] = IF i <= Len(n) THEN n[i] ELSE t[i - Len(n)]
  BY <1>2, ConcatProperties
<1>4. Index(text, ends) = k + 1
  <2>1. t[1] \in ends
    OBVIOUS
  <2> HIDE DEF ends
  <2> QED BY <1>2, <2>1, CutFirst
<1> HIDE DEF text
<1>5. text[k] = n[k] /\ text[1] = n[1] /\ k \in 1..Len(text) /\ k <= Len(text)
  BY <1>2, <1>3
<1>6. "/" \in Token /\ ":" \in Token
  BY CharactersAreTokens DEF Kept
<1>7. ~Starts(From(text, k), <<":", "/", "/">>)
  <2>0. k \in 1..(Len(text) + 1) /\ text \in Seq(Token)
    BY <1>3, <1>5
  <2>1. From(text, k) \in Seq(Token) /\ Len(From(text, k)) = Len(text) + 1 - k
        /\ \A j \in 1..(Len(text) + 1 - k) : From(text, k)[j] = text[j + k - 1]
    BY <2>0, FromIs
  <2>2. 1 \in 1..(Len(text) + 1 - k) /\ 1 + k - 1 = k
    BY <1>2, <1>5
  <2>3. From(text, k)[1] # ":"
    BY <1>1, <1>5, <2>1, <2>2
  <2> QED BY <1>6, <2>1, <2>3, StartsThree
<1>8. FindAuthorityMarker(text) = 0
  <2>1. (k + 1) - 1 = k
    BY <1>2
  <2> QED BY <1>4, <1>7, <2>1 DEF FindAuthorityMarker, MarkerAt
<1>9. ~Starts(text, <<"/", "/">>)
  BY <1>2, <1>3, <1>5, <1>6, StartsTwo
<1>10. ~HasSchemeAuthority(text)
  BY <1>8, <1>9 DEF HasSchemeAuthority
<1> QED BY <1>10 DEF text, n

\* A URL whose string has no double escape in its target has none in its path and query.
LEMMA SpelledIsPlain ==
    ASSUME NEW parts, Formed(parts), parts.host # None, ~HasDoubleEncoding(EncodedTarget(AsString(parts)))
    PROVE  ~HasDoubleEncoding(parts.path) /\ ~HasDoubleEncoding(parts.query)
<1> DEFINE p == BuilderNormalizePath(parts.path)
<1>1. parts.path \in Clean(Kept)
  BY DEF Formed, Clean
<1>2. /\ p \in Clean(Kept) /\ NormalizePath(p) = p
      /\ \A tokens : tokens \subseteq DOMAIN Decoded /\ HoldsAny(parts.path, tokens) => HoldsAny(p, tokens)
  BY <1>1, BuilderKeeps
<1>3. ~HasDoubleEncoding(p) => ~HasDoubleEncoding(parts.path)
  BY <1>2, DoubleEscapesStay DEF HasDoubleEncoding
<1> HIDE DEF p
<1>4. CASE parts.scheme # None
  <2> DEFINE policy == [allow_custom_scheme |-> TRUE]
             again == ParseText(AsString(parts), policy)
  <2>1. SchemeAllowed(policy, parts.scheme)
    BY DEF SchemeAllowed
  <2> HIDE DEF policy
  <2>2. /\ again.ok /\ again.query = parts.query
        /\ again.path = OrRoot(parts.host, NormalizePath(Rooted(parts.host, p)))
    BY <1>4, <2>1, ReadBack DEF p
  <2>3. again.path = p
    <3>1. p # <<>> /\ p[1] = "/"
      BY <1>2 DEF Clean
    <3> QED BY <1>2, <2>2, <3>1 DEF Rooted, OrRoot
  <2>4. ~HasDoubleEncoding(again.path) /\ ~HasDoubleEncoding(again.query)
    BY <2>2, ParsedIsPlain
  <2> QED BY <1>3, <2>2, <2>3, <2>4
<1>5. CASE parts.scheme = None
  <2> DEFINE n == SpelledNetloc(parts)
             q == Lead("?", parts.query)
             f == Lead("#", SpelledFragment(parts))
             qf == q \o f
             t == p \o qf
             text == AsString(parts)
  <2>1. /\ n \in Seq(Token) /\ p \in Seq(Token) /\ p # <<>> /\ q \in Seq(Token) /\ f \in Seq(Token)
        /\ text = ((((<<>> \o n) \o <<>>) \o p) \o q) \o f
    BY <1>5, PiecesSpelled DEF p
  <2> HIDE DEF n, q, f, text
  <2>2. (<<>> \o n) \o <<>> = n
    BY <2>1, ConcatIs
  <2>3. qf \in Seq(Token)
    BY <2>1, ConcatIs
  <2>4. ((n \o p) \o q) \o f = n \o t
    <3> DEFINE np == n \o p
    <3>1. np \in Seq(Token)
      BY <2>1, ConcatIs
    <3> HIDE DEF np, qf
    <3>2. (np \o q) \o f = np \o qf
      <4>1. Associates(np, q, f)
        BY <2>1, <3>1, Regrouping
      <4> QED BY <4>1 DEF Associates, qf
    <3>3. np \o qf = n \o (p \o qf)
      <4>1. Associates(n, p, qf)
        BY <2>1, <2>3, Regrouping
      <4> QED BY <4>1 DEF Associates, np
    <3> QED BY <3>2, <3>3 DEF np
  <2> HIDE DEF qf
  <2>5. t \in Seq(Token) /\ t # <<>> /\ t[1] = "/"
    <3>1. p[1] = "/"
      BY <1>2 DEF Clean
    <3> QED BY <2>1, <2>3, <3>1, ConcatIs
  <2> HIDE DEF t
  <2>6. text = n \o t
    BY <2>1, <2>2, <2>4
  <2>7. ~HasSchemeAuthority(n \o t)
    BY <1>5, <2>5, BareHasNoAuthority DEF n
  <2>8. ~HoldsAny(n \o t, DoubleEscapes)
    BY <2>6, <2>7 DEF EncodedTarget, HasDoubleEncoding, text
  <2>9. ~HoldsAny(t, DoubleEscapes)
    BY <2>1, <2>5, <2>8, HoldsEither
  <2>10. ~HoldsAny(p, DoubleEscapes) /\ ~HoldsAny(qf, DoubleEscapes)
    BY <2>1, <2>3, <2>9, HoldsEither DEF t
  <2>11. ~HoldsAny(q, DoubleEscapes)
    BY <2>1, <2>10, HoldsEither DEF qf
  <2>12. ~HasDoubleEncoding(parts.query)
    <3>1. CASE parts.query = None
      BY <3>1, DoubleEscapesStay, NormalNone DEF HasDoubleEncoding
    <3>2. CASE parts.query # None
      <4> DEFINE mark == <<"?">>
      <4>1. parts.query \in Seq(Token) /\ mark \in Seq(Token)
        <5>1. parts.query \in Seq(QueryText)
          BY <3>2 DEF Formed
        <5>2. QueryText \subseteq Token /\ "?" \in Token
          BY CharactersAreTokens DEF QueryText, Kept
        <5> QED BY <5>1, <5>2, SeqMonotonic
      <4>2. q = mark \o parts.query
        BY <3>2 DEF q, Lead
      <4> HIDE DEF mark
      <4> QED BY <2>11, <4>1, <4>2, HoldsEither DEF HasDoubleEncoding
    <3> QED BY <3>1, <3>2
  <2> QED BY <1>3, <2>10, <2>12 DEF HasDoubleEncoding
<1> QED BY <1>4, <1>5

\* One of its two texts shows that a checked URL has none where they are looked for.
LEMMA VettedIsPlain ==
    ASSUME NEW text, NEW parts, Formed(parts), parts.host # None, NEW c, NEW policy, Covers(c, policy),
           policy.heuristics, NEW now, CheckedAs(text, parts, c, now)
    PROVE  ~HasDoubleEncoding(parts.path) /\ ~HasDoubleEncoding(parts.query)
<1> DEFINE v == Validating(c)
<1>1. v.heuristics
  BY ValidatingChecksAll, SameRules
<1>2. ~EncodingFinding(v, text)
  BY DEF CheckedAs, IsRejected, IsRejectedAs
<1>3. ~HasDoubleEncoding(EncodedTarget(text))
  <2> HIDE DEF v
  <2> QED BY <1>1, <1>2 DEF EncodingFinding
<1>4. parts.ok
  BY DEF Formed
<1>5. parts = ParseText(text, c.policy) \/ text = AsString(parts)
  BY DEF CheckedAs
<1>6. CASE parts = ParseText(text, c.policy)
  BY <1>3, <1>4, <1>6, ParsedIsPlain
<1>7. CASE text = AsString(parts)
  BY <1>3, <1>7, SpelledIsPlain
<1> QED BY <1>5, <1>6, <1>7

\* A URL with a host has no double escape in its path or its query when its caller
\* asked for the heuristics: what _build_context takes for them is cut from the text
\* by another splitter than the parser's.
THEOREM NoDoubleEscapesHolds == Spec => []NoDoubleEscapes
<1>1. Init => NoDoubleEscapes
  BY DEF Init, NoDoubleEscapes
<1>2. ASSUME FormedInv, CoversInv, NoDoubleEscapes, [Next]_vars PROVE NoDoubleEscapes'
  <2>1. CASE UNCHANGED <<url, asked>>
    BY <1>2, <2>1 DEF NoDoubleEscapes
  <2>2. CASE Vetted'
    <3> SUFFICES ASSUME url'.host # None, asked'.heuristics
                 PROVE  ~HasDoubleEncoding(url'.path) /\ ~HasDoubleEncoding(url'.query)
      BY DEF NoDoubleEscapes
    <3>1. PICK text : CheckedAs(text, url', ctx', network'[ctx'.services])
      BY <2>2 DEF Vetted
    <3>2. Covers(ctx', asked')
      BY <1>2, CheckedStep DEF CoversInv
    <3> QED BY <2>2, <3>1, <3>2, VettedIsPlain DEF Vetted
  <2> QED BY <1>2, <2>1, <2>2, CheckedStep
<1> QED BY <1>1, <1>2, AllowedHolds, PTL DEF Spec

-----------------------------------------------------------------------------
(***************************************************************************)
(* The loop of remove_dot_segments, and the segments of the path           *)
(***************************************************************************)

\* The function that Walk defines exists,
Walking(g, segments, k) ==
    g = [i \in 0..k |-> IF i = 0 THEN <<>> ELSE Walked(g[i - 1], segments[i])]
\* The function by which Walk is defined exists.
LEMMA WalkingDefined ==
    ASSUME NEW segments, NEW k \in Nat
    PROVE  \E g : Walking(g, segments, k)
<1> DEFINE S == {m \in Nat : \E g : Walking(g, segments, m)}
<1>1. 0 \in S
  <2>1. Walking([i \in 0..0 |-> <<>>], segments, 0)
    BY DEF Walking
  <2> QED BY <2>1
<1>2. ASSUME NEW m \in Nat, m \in S PROVE m + 1 \in S
  <2>1. PICK g : Walking(g, segments, m)
    BY <1>2
  <2> DEFINE next == Walked(g[m], segments[m + 1])
             h == [i \in 0..(m + 1) |-> IF i <= m THEN g[i] ELSE next]
  <2> HIDE DEF next
  <2>2. \A i \in 0..m : h[i] = g[i]
    OBVIOUS
  <2>3. h[m + 1] = next
    OBVIOUS
  <2> HIDE DEF h
  <2>4. ASSUME NEW i \in 0..(m + 1)
        PROVE  h[i] = IF i = 0 THEN <<>> ELSE Walked(h[i - 1], segments[i])
    <3>1. CASE i \in 0..m
      <4>1. g[i] = IF i = 0 THEN <<>> ELSE Walked(g[i - 1], segments[i])
        BY <2>1, <3>1 DEF Walking
      <4>2. h[i] = g[i] /\ (i # 0 => h[i - 1] = g[i - 1])
        BY <2>2, <3>1
      <4> QED BY <4>1, <4>2
    <3>2. CASE i = m + 1
      <4>1. i # 0 /\ h[i - 1] = g[m] /\ h[i] = next
        BY <2>2, <2>3, <3>2
      <4> QED BY <3>2, <4>1, Zenon DEF next
    <3>3. i \in 0..m \/ i = m + 1
      OBVIOUS
    <3> QED BY <3>1, <3>2, <3>3
  <2>5. h = [i \in 0..(m + 1) |-> h[i]]
    BY DEF h
  <2>6. Walking(h, segments, m + 1)
    BY <2>4, <2>5 DEF Walking
  <2>7. m + 1 \in Nat
    OBVIOUS
  <2> QED BY <2>6, <2>7, Zenon
<1> HIDE DEF S
<1>3. k \in S
  BY <1>1, <1>2, SetInduction
<1> QED BY <1>3 DEF S

\* Walk is what it ends with,
LEMMA WalkEnds ==
    ASSUME NEW T, NEW segments \in Seq(T)
    PROVE  \E g : Walking(g, segments, Len(segments)) /\ Walk(segments) = g[Len(segments)]
<1> DEFINE after == CHOOSE g : Walking(g, segments, Len(segments))
<1>0. Len(segments) \in Nat
  OBVIOUS
<1>1. \E g : Walking(g, segments, Len(segments))
  BY <1>0, WalkingDefined, Zenon
<1>2. Walking(after, segments, Len(segments))
  BY <1>1, Zenon
<1>3. Walk(segments) = after[Len(segments)]
  BY DEF Walk, Walking
<1> QED BY <1>2, <1>3, Zenon

\* and where two sequences of segments agree, so do they.
LEMMA WalkingAgree ==
    ASSUME NEW x, NEW y, NEW k \in Nat, NEW m \in Nat, k <= m,
           \A i \in 1..k : x[i] = y[i],
           NEW g, Walking(g, x, k), NEW h, Walking(h, y, m)
    PROVE  g[k] = h[k]
<1> DEFINE S == {n \in Nat : n <= k => g[n] = h[n]}
<1>1. 0 \in S
  BY DEF Walking
<1>2. ASSUME NEW n \in Nat, n \in S PROVE n + 1 \in S
  <2> SUFFICES ASSUME n + 1 <= k PROVE g[n + 1] = h[n + 1]
    OBVIOUS
  <2>0. PICK j \in Nat : j = n + 1
    OBVIOUS
  <2>1. j \in 0..k /\ j \in 0..m /\ j # 0 /\ j - 1 = n /\ j \in 1..k
    BY <2>0
  <2>2. g[j] = Walked(g[n], x[j])
    BY <2>1 DEF Walking
  <2>3. h[j] = Walked(h[n], y[j])
    BY <2>1 DEF Walking
  <2>4. g[n] = h[n]
    BY <1>2
  <2>5. x[j] = y[j]
    BY <2>1
  <2>6. g[j] = h[j]
    BY <2>2, <2>3, <2>4, <2>5, Zenon
  <2> QED BY <2>0, <2>6
<1> HIDE DEF S
<1>3. k \in S
  BY <1>1, <1>2, SetInduction
<1> QED BY <1>3 DEF S

\* Walk, one segment at a time.
LEMMA WalkGrows ==
    ASSUME NEW T
    PROVE  /\ Walk(<<>>) = <<>>
           /\ \A x \in Seq(T), t \in T : Walk(Append(x, t)) = Walked(Walk(x), t)
<1>1. Walk(<<>>) = <<>>
  <2>1. <<>> \in Seq(T) /\ Len(<<>>) = 0
    OBVIOUS
  <2>2. PICK g : Walking(g, <<>>, 0) /\ Walk(<<>>) = g[0]
    BY <2>1, WalkEnds
  <2> QED BY <2>2 DEF Walking
<1>2. ASSUME NEW x \in Seq(T), NEW t \in T
      PROVE  Walk(Append(x, t)) = Walked(Walk(x), t)
  <2> DEFINE y == Append(x, t)
             k == Len(x)
  <2>1. y \in Seq(T) /\ Len(y) = k + 1 /\ y[k + 1] = t /\ k \in Nat /\ \A i \in 1..k : x[i] = y[i]
    OBVIOUS
  <2> HIDE DEF y
  <2>2. PICK g : Walking(g, x, k) /\ Walk(x) = g[k]
    BY WalkEnds
  <2>3. PICK h : Walking(h, y, k + 1) /\ Walk(y) = h[k + 1]
    BY <2>1, WalkEnds
  <2> HIDE DEF k
  <2>4. k + 1 \in Nat /\ k <= k + 1
    BY <2>1
  <2>5. g[k] = h[k]
    BY <2>1, <2>2, <2>3, <2>4, WalkingAgree, SMTT(30)
  <2>6. h[k + 1] = Walked(h[k], y[k + 1])
    <3>1. PICK j \in Nat : j = k + 1
      BY <2>1
    <3>2. j \in 0..(k + 1) /\ j # 0 /\ j - 1 = k
      BY <2>1, <3>1
    <3>3. h[j] = Walked(h[j - 1], y[j])
      BY <2>3, <3>2 DEF Walking
    <3> QED BY <3>1, <3>2, <3>3
  <2> QED BY <2>1, <2>2, <2>3, <2>5, <2>6 DEF y
<1> QED BY <1>1, <1>2

\* It keeps segments that it was given.
LEMMA WalkIn ==
    ASSUME NEW T, NEW segments \in Seq(Seq(T))
    PROVE  Walk(segments) \in Seq(Seq(T))
<1> DEFINE G == {x \in Seq(Seq(T)) : Walk(x) \in Seq(Seq(T))}
<1>1. <<>> \in G
  <2>1. Walk(<<>>) = <<>> /\ <<>> \in Seq(Seq(T))
    BY WalkGrows
  <2> QED BY <2>1
<1>2. ASSUME NEW x \in Seq(Seq(T)), NEW t \in Seq(T), x \in G PROVE Append(x, t) \in G
  <2> DEFINE w == Walk(x)
  <2>1. Walk(Append(x, t)) = Walked(w, t) /\ w \in Seq(Seq(T))
    BY <1>2, WalkGrows
  <2> HIDE DEF w
  <2>2. Append(w, t) \in Seq(Seq(T)) /\ (w # <<>> => Front(w) \in Seq(Seq(T))) /\ Append(x, t) \in Seq(Seq(T))
    BY <2>1 DEF Front
  <2>3. Walked(w, t) \in Seq(Seq(T))
    BY <2>1, <2>2 DEF Walked
  <2> QED BY <2>1, <2>2, <2>3
<1> HIDE DEF G
<1>3. Seq(Seq(T)) \subseteq G
  BY <1>1, <1>2, AppendInduction
<1> QED BY <1>3 DEF G

\* Two texts side by side.
LEMMA PairIs ==
    ASSUME NEW T, NEW a \in T, NEW b \in T
    PROVE  Append(<<a>>, b) = <<a, b>> /\ <<a, b>> \in Seq(T) /\ <<a, b>> # <<>> /\ Tail(<<a, b>>) = <<b>>
<1>1. Append(<<a>>, b) = <<a, b>>
  <2> DEFINE c == Append(<<a>>, b)
             d == <<a, b>>
  <2>1. c \in Seq(T) /\ Len(c) = 2 /\ c[1] = a /\ c[2] = b
    OBVIOUS
  <2>2. d \in Seq(T) /\ Len(d) = 2 /\ d[1] = a /\ d[2] = b
    OBVIOUS
  <2> HIDE DEF c, d
  <2>3. c = d
    BY <2>1, <2>2, SeqEqual
  <2> QED BY <2>3 DEF c, d
<1>2. <<a, b>> \in Seq(T) /\ <<a, b>> # <<>>
  OBVIOUS
<1>3. Tail(<<a, b>>) = <<b>>
  OBVIOUS
<1> QED BY <1>1, <1>2, <1>3

\* The segments of a rooted path: the first, and those of the rest.
Leads(x, s, rest) == SegmentsOf(x) = <<s>> \o SegmentsOf(rest)
\* The first segment leads.
LEMMA SegmentsHead ==
    ASSUME NEW T, "/" \in T, NEW s \in Seq(T \ {"/"}), NEW rest \in Seq(T), rest = <<>> \/ rest[1] = "/",
           NEW x, Begins(x, s, rest)
    PROVE  Leads(x, s, rest) /\ SegmentsOf(rest) \in Seq(Seq(T))
           /\ SegmentsOf(<<>>) = <<>>
<1> DEFINE f == <<"/">> \o s
           two == << <<>>, s >>
<1>1. f \in Seq(T) /\ Split(f, "/") = two /\ Split(<<>>, "/") = << <<>> >> /\ s \in Seq(T)
  <2>1. Split(<<>>, "/") = << <<>> >>
    BY SplitGrows
  <2>2. <<>> \in Seq(T) /\ <<>> \o <<"/">> = <<"/">> /\ s \in Seq(T)
    BY SeqMonotonic
  <2>3. Split((<<>> \o <<"/">>) \o s, "/") = Append(Split(<<>>, "/"), s)
    BY <2>2, SplitJoins, ZenonT(30)
  <2>4. Append(<< <<>> >>, s) = two
    BY <2>2, PairIs
  <2>5. Split(f, "/") = two
    BY <2>1, <2>2, <2>3, <2>4
  <2>6. f \in Seq(T)
    BY <2>2, LeadIs
  <2> QED BY <2>1, <2>2, <2>5, <2>6
<1>2. two \in Seq(Seq(T)) /\ two # <<>> /\ Tail(two) = <<s>> /\ <<s>> \in Seq(Seq(T))
  BY <1>1
<1>3. SegmentsOf(<<>>) = <<>>
  <2>1. Tail(<< <<>> >>) = <<>>
    OBVIOUS
  <2> QED BY <1>1, <2>1 DEF SegmentsOf
<1> HIDE DEF f, two
<1>4. CASE rest = <<>>
  <2>1. f \o rest = f /\ <<s>> \o <<>> = <<s>>
    BY <1>1, <1>2, <1>4, ConcatEmptySeq
  <2>2. SegmentsOf(x) = <<s>>
    <3>1. x = f \o rest
      BY DEF Begins, f
    <3> QED BY <1>1, <1>2, <2>1, <3>1 DEF SegmentsOf
  <2>3. <<>> \in Seq(Seq(T))
    OBVIOUS
  <2>4. Leads(x, s, rest)
    BY <1>3, <1>4, <2>1, <2>2 DEF Leads
  <2> QED BY <1>3, <1>4, <2>3, <2>4
<1>5. CASE rest # <<>>
  <2> DEFINE r == Tail(rest)
             sr == Split(r, "/")
  <2>1. r \in Seq(T) /\ rest = <<"/">> \o r
    BY <1>5
  <2> HIDE DEF r
  <2>2. sr \in Seq(Seq(T)) /\ sr # <<>>
    BY <2>1, SplitIn
  <2>3. Split(rest, "/") = << <<>> >> \o sr
    <3>1. <<>> \in Seq(T) /\ <<>> \o <<"/">> = <<"/">>
      OBVIOUS
    <3>2. Split((<<>> \o <<"/">>) \o r, "/") = Split(<<>>, "/") \o Split(r, "/")
      BY <2>1, <3>1, SplitConcat
    <3> QED BY <1>1, <2>1, <3>1, <3>2
  <2> HIDE DEF sr
  <2>4. SegmentsOf(rest) = sr
    <3>1. Tail(<< <<>> >> \o sr) = sr
      <4>1. <<>> \in Seq(T)
        OBVIOUS
      <4> QED BY <2>2, <4>1, LeadIs, SMTT(30)
    <3> QED BY <2>3, <3>1 DEF SegmentsOf
  <2>5. x = (f \o <<"/">>) \o r
    <3>1. <<"/">> \in Seq(T)
      OBVIOUS
    <3>2. Associates(f, <<"/">>, r)
      BY <1>1, <2>1, <3>1, Regrouping
    <3>3. f \o rest = (f \o <<"/">>) \o r
      BY <2>1, <3>2 DEF Associates
    <3>4. x = f \o rest
      BY DEF Begins, f
    <3> QED BY <3>3, <3>4
  <2>6. Split(x, "/") = two \o sr
    <3>1. Split((f \o <<"/">>) \o r, "/") = Split(f, "/") \o Split(r, "/")
      BY <1>1, <2>1, SplitConcat
    <3> QED BY <1>1, <2>5, <3>1 DEF sr
  <2>7. Tail(two \o sr) = <<s>> \o sr
    <3>1. Tail(two \o sr) = Tail(two) \o sr
      BY <1>2, <2>2, TailOfConcat, ZenonT(30)
    <3> QED BY <1>2, <3>1
  <2>8. SegmentsOf(x) = <<s>> \o sr
    BY <2>6, <2>7 DEF SegmentsOf
  <2> QED BY <1>3, <2>2, <2>4, <2>8 DEF Leads
<1> QED BY <1>4, <1>5

\* Segments with their slashes, as the loop puts them out.
Slashed(segments) == [i \in 1..Len(segments) |-> <<"/">> \o segments[i]]
\* They join into the path, and grow and shrink with the segments.
LEMMA SlashedIs ==
    ASSUME NEW T, "/" \in T, NEW segments \in Seq(Seq(T))
    PROVE  /\ Slashed(segments) \in Seq(Seq(T)) /\ Len(Slashed(segments)) = Len(segments)
           /\ Slashed(segments) = <<>> <=> segments = <<>>
           /\ PathOf(segments) = FlattenSeq(Slashed(segments))
           /\ \A s \in Seq(T) : Slashed(Append(segments, s)) = Append(Slashed(segments), <<"/">> \o s)
           /\ PoppedFrom(Slashed(segments)) = Slashed(IF segments = <<>> THEN <<>> ELSE Front(segments))
<1> DEFINE w == Slashed(segments)
           n == Len(segments)
<1>1. \A s \in Seq(T) : <<"/">> \o s \in Seq(T)
  OBVIOUS
<1>2. \A i \in 1..n : segments[i] \in Seq(T)
  OBVIOUS
<1>3. n \in Nat /\ (n = 0 <=> segments = <<>>)
  OBVIOUS
<1>4. w = [i \in 1..n |-> <<"/">> \o segments[i]]
  BY DEF Slashed
<1> HIDE DEF n
<1>5. w \in Seq(Seq(T)) /\ Len(w) = n
  <2>1. \A i \in 1..n : <<"/">> \o segments[i] \in Seq(T)
    BY <1>1, <1>2
  <2> QED BY <1>3, <1>4, <2>1
<1>6. \A i \in 1..n : w[i] = <<"/">> \o segments[i]
  BY <1>4
<1> HIDE DEF w
<1>7. w = <<>> <=> segments = <<>>
  BY <1>3, <1>5
<1>8. PathOf(segments) = FlattenSeq(w)
  <2>1. DOMAIN segments = 1..Len(segments)
    OBVIOUS
  <2>2. Each(segments, LAMBDA segment : <<"/">> \o segment) = Slashed(segments)
    BY <2>1 DEF Each, Slashed
  <2> QED BY <2>2 DEF PathOf, w
<1>9. ASSUME NEW s \in Seq(T) PROVE Slashed(Append(segments, s)) = Append(w, <<"/">> \o s)
  <2> DEFINE more == Append(segments, s)
             slash == <<"/">> \o s
             a == Slashed(more)
             b == Append(w, slash)
  <2>1. more \in Seq(Seq(T)) /\ Len(more) = n + 1 /\ more[n + 1] = s /\ \A i \in 1..n : more[i] = segments[i]
    BY AppendIs DEF n
  <2>2. slash \in Seq(T)
    BY <1>1
  <2> HIDE DEF slash
  <2>3. b \in Seq(Seq(T)) /\ Len(b) = n + 1 /\ b[n + 1] = slash /\ \A i \in 1..n : b[i] = w[i]
    BY <1>5, <2>2, AppendIs
  <2> HIDE DEF more, b
  <2>4. a = [i \in 1..(n + 1) |-> <<"/">> \o more[i]]
    BY <2>1 DEF Slashed
  <2>5. ASSUME NEW i \in 1..(n + 1) PROVE a[i] = b[i]
    <3>0. a[i] = <<"/">> \o more[i]
      BY <2>4
    <3>1. CASE i = n + 1
      BY <2>1, <2>3, <3>0, <3>1 DEF slash
    <3>2. CASE i \in 1..n
      BY <1>6, <2>1, <2>3, <3>0, <3>2
    <3> QED BY <1>3, <3>1, <3>2
  <2>6. a \in Seq(Seq(T)) /\ Len(a) = n + 1
    <3>2. a = [i \in 1..(n + 1) |-> a[i]]
      BY <2>4
    <3>3. PICK m \in Nat : m = n + 1
      BY <1>3
    <3> HIDE DEF a
    <3>4. a = [i \in 1..m |-> b[i]]
      BY <2>5, <3>2, <3>3
    <3>5. b \in Seq(Seq(T)) /\ Len(b) = m
      BY <2>3, <3>3
    <3>6. a \in Seq(Seq(T)) /\ Len(a) = m
      BY <3>4, <3>5
    <3> QED BY <3>3, <3>6
  <2> HIDE DEF a
  <2>7. a = b
    BY <2>3, <2>5, <2>6, SeqEqual
  <2> QED BY <2>7 DEF a, b, more, slash
<1>10. PoppedFrom(w) = Slashed(IF segments = <<>> THEN <<>> ELSE Front(segments))
  <2>1. CASE segments = <<>>
    <3>1. Slashed(<<>>) = <<>>
      BY DEF Slashed
    <3> QED BY <1>7, <2>1, <3>1 DEF PoppedFrom
  <2>2. CASE segments # <<>>
    <3> DEFINE fewer == Front(segments)
               a == Slashed(fewer)
               b == Front(w)
    <3>1. n >= 1 /\ n - 1 \in Nat
      BY <1>3, <2>2
    <3>2. fewer \in Seq(Seq(T)) /\ Len(fewer) = n - 1 /\ \A i \in 1..(n - 1) : fewer[i] = segments[i]
      <4>1. Len(segments) = n
        BY DEF n
      <4> QED BY <3>1, <4>1 DEF Front
    <3>3. b \in Seq(Seq(T)) /\ Len(b) = n - 1 /\ \A i \in 1..(n - 1) : b[i] = w[i]
      BY <1>5, <3>1 DEF Front
    <3> HIDE DEF fewer, b
    <3>4. a = [i \in 1..(n - 1) |-> <<"/">> \o fewer[i]]
      BY <3>2 DEF Slashed
    <3>5. ASSUME NEW i \in 1..(n - 1) PROVE a[i] = b[i]
      <4>1. i \in 1..n
        BY <1>3
      <4>2. a[i] = <<"/">> \o fewer[i]
        BY <3>4
      <4>3. fewer[i] = segments[i] /\ b[i] = w[i]
        BY <3>2, <3>3
      <4> QED BY <1>6, <4>1, <4>2, <4>3
    <3>6. a \in Seq(Seq(T)) /\ Len(a) = n - 1
      <4>1. \A i \in 1..(n - 1) : a[i] \in Seq(T)
        BY <3>3, <3>5
      <4>2. a = [i \in 1..(n - 1) |-> a[i]]
        BY <3>4
      <4> HIDE DEF a
      <4> QED BY <3>1, <4>1, <4>2
    <3> HIDE DEF a
    <3>7. a = b
      BY <3>3, <3>5, <3>6, SeqEqual
    <3> QED BY <1>7, <2>2, <3>7 DEF PoppedFrom, a, b, fewer
  <2> QED BY <2>1, <2>2
<1> QED BY <1>3, <1>5, <1>7, <1>8, <1>9, <1>10 DEF w, n

\* Between two turns: a slash is left to move after a last dot segment, or nothing is
\* left, or the output is the walk over the segments that are no longer in the input.
AtSegment(K, path, x, y) ==
    /\ x \in Seq(K) /\ x # <<>> /\ x[1] = "/"
    /\ \E done \in Seq(Seq(K)) : SegmentsOf(path) = done \o SegmentsOf(x) /\ y = Slashed(Walk(done))
AtSlash(path, x, y) ==
    x = <<"/">> /\ y = Slashed(Walk(SegmentsOf(path))) /\ Last(SegmentsOf(path)) \in Dots
AtEnd(path, x, y) == x = <<>> /\ y = Slashed(Resolved(SegmentsOf(path)))
WalkedSoFar(K, path, x, y, left) ==
    Len(x) <= left /\ (AtSegment(K, path, x, y) \/ AtSlash(path, x, y) \/ AtEnd(path, x, y))

\* The loop walks over the segments.
LEMMA TurnWalks ==
    ASSUME NEW K, "/" \in K, "." \in K, NEW path, SegmentsOf(path) \in Seq(Seq(K)), NEW n \in Nat, NEW x, NEW y,
           WalkedSoFar(K, path, x, y, n + 1), NEW turned, turned = DotsTurn([input |-> x, output |-> y])
    PROVE  turned = [input |-> turned.input, output |-> turned.output]
           /\ WalkedSoFar(K, path, turned.input, turned.output, n)
<1> DEFINE segments == SegmentsOf(path)
<1>0. segments \in Seq(Seq(K))
  OBVIOUS
<1> HIDE DEF segments
<1>1. CASE AtEnd(path, x, y)
  <2>1. x = <<>>
    BY <1>1 DEF AtEnd
  <2>2. x \notin {<<"/", ".">>, <<"/", ".", ".">>, <<".">>, <<".", ".">>} /\ Len(x) = 0 /\ x \in Seq(K)
    BY <2>1
  <2>3. ~(Len(x) >= 2) /\ ~(Len(x) >= 3) /\ ~(Len(x) >= 4)
    BY <2>2
  <2>4. /\ ~Starts(x, <<".", ".", "/">>) /\ ~Starts(x, <<".", "/">>)
        /\ ~Starts(x, <<"/", ".", "/">>) /\ ~Starts(x, <<"/", ".", ".", "/">>)
    BY <2>2, <2>3, StartsTwo, StartsThree, StartsFour
  <2> DEFINE buffers == [input |-> x, output |-> y]
  <2>5. buffers.input = x /\ buffers.output = y
    OBVIOUS
  <2>6. DotsTurn(buffers) = buffers
    <3> HIDE DEF buffers
    <3> QED BY <2>1, <2>2, <2>4, <2>5 DEF DotsTurn
  <2>7. Len(x) <= n
    BY <2>2
  <2> QED BY <1>1, <2>5, <2>6, <2>7 DEF WalkedSoFar
<1>2. CASE AtSlash(path, x, y)
  <2> DEFINE w == Walk(segments)
  <2>1. x = <<"/">> /\ y = Slashed(w) /\ Last(segments) \in Dots /\ w \in Seq(Seq(K))
    BY <1>0, <1>2, WalkIn DEF AtSlash, segments
  <2>2. x \in Seq(K) /\ x # <<>> /\ x[1] = "/" /\ Len(x) = 1
    BY <2>1
  <2>3. PICK s \in Seq(K \ {"/"}), rest \in Seq(K) :
              Begins(x, s, rest) /\ DotsTurn([input |-> x, output |-> y]) = AfterSegment(s, rest, y)
    BY <2>2, TurnOfSegment
  <2>4. rest = <<>> /\ s = <<>>
    <3>1. Len(rest) \in Nat
      OBVIOUS
    <3>2. Len(rest) < Len(x) /\ (s # <<>> => Len(rest) + 1 < Len(x))
      BY <2>3 DEF Begins
    <3>3. Len(rest) = 0 /\ s = <<>>
      BY <2>2, <3>1, <3>2
    <3> QED BY <3>3
  <2> DEFINE root == <<"/">> \o <<>>
             new == Append(y, root)
  <2>5. turned = [input |-> <<>>, output |-> new]
    <3>1. <<>> # <<".">> /\ <<>> # <<".", ".">>
      OBVIOUS
    <3>2. AfterSegment(<<>>, <<>>, y) = [input |-> <<>>, output |-> new]
      BY <3>1 DEF AfterSegment
    <3> QED BY <2>3, <2>4, <3>2
  <2> HIDE DEF w
  <2>6. new = Slashed(Append(w, <<>>)) /\ Append(w, <<>>) = w \o << <<>> >>
    <3>1. <<>> \in Seq(K)
      OBVIOUS
    <3>2. Append(w, <<>>) = w \o << <<>> >>
      BY <2>1, <3>1, AppendJoins
    <3>3. Slashed(Append(w, <<>>)) = Append(Slashed(w), root)
      BY <2>1, <3>1, SlashedIs
    <3> QED BY <2>1, <3>2, <3>3
  <2>7. Resolved(segments) = w \o << <<>> >>
    BY <2>1 DEF Resolved, w
  <2> HIDE DEF new
  <2>8. AtEnd(path, <<>>, new)
    BY <2>6, <2>7 DEF AtEnd, segments
  <2>9. Len(<<>>) = 0 /\ 0 <= n
    OBVIOUS
  <2>10. WalkedSoFar(K, path, <<>>, new, n)
    BY <2>8, <2>9 DEF WalkedSoFar
  <2> QED BY <2>5, <2>10
<1>3. CASE AtSegment(K, path, x, y)
  <2>1. PICK done \in Seq(Seq(K)) : segments = done \o SegmentsOf(x) /\ y = Slashed(Walk(done))
    BY <1>3 DEF AtSegment, segments
  <2>2. x \in Seq(K) /\ x # <<>> /\ x[1] = "/" /\ Len(x) <= n + 1 /\ Len(x) \in Nat
    BY <1>3 DEF AtSegment, WalkedSoFar
  <2>3. PICK s \in Seq(K \ {"/"}), rest \in Seq(K) :
              Begins(x, s, rest) /\ DotsTurn([input |-> x, output |-> y]) = AfterSegment(s, rest, y)
    BY <2>2, TurnOfSegment
  <2>3a. /\ Len(rest) < Len(x) /\ (rest = <<>> \/ rest[1] = "/")
         /\ s # <<>> => Len(rest) + 1 < Len(x)
    BY <2>3 DEF Begins
  <2>3b. turned = IF s = <<".">> THEN [input |-> OrSlash(rest), output |-> y]
                  ELSE IF s = <<".", ".">> THEN [input |-> OrSlash(rest), output |-> PoppedFrom(y)]
                  ELSE [input |-> rest, output |-> Append(y, <<"/">> \o s)]
    BY <2>3 DEF AfterSegment
  <2>4. s \in Seq(K) /\ Len(rest) \in Nat
    BY SeqMonotonic
  <2> DEFINE w == Walk(done)
             more == Append(done, s)
             new == IF s \in Dots THEN OrSlash(rest) ELSE rest
             out == Slashed(Walk(more))
             others == SegmentsOf(rest)
  <2>5. SegmentsOf(x) = <<s>> \o others /\ others \in Seq(Seq(K)) /\ SegmentsOf(<<>>) = <<>>
    <3>1. SegmentsOf(x) = <<s>> \o others
      <4>1. Leads(x, s, rest)
        BY <2>3, <2>3a, SegmentsHead
      <4> QED BY <4>1 DEF Leads
    <3>2. others \in Seq(Seq(K)) /\ SegmentsOf(<<>>) = <<>>
      BY <2>3, <2>3a, SegmentsHead
    <3> QED BY <3>1, <3>2
  <2> HIDE DEF others
  <2>6. more \in Seq(Seq(K)) /\ segments = more \o others
    <3> DEFINE one == <<s>>
    <3>1. one \in Seq(Seq(K)) /\ more \in Seq(Seq(K))
      BY <2>4
    <3>2. more = done \o one
      BY <2>4, AppendJoins
    <3>3. SegmentsOf(x) = one \o others
      BY <2>5
    <3> HIDE DEF one, more
    <3>4. Associates(done, one, others)
      BY <2>5, <3>1, Regrouping
    <3> QED BY <2>1, <3>1, <3>2, <3>3, <3>4 DEF Associates
  <2>7. Walk(more) = Walked(w, s) /\ w \in Seq(Seq(K))
    BY <2>4, WalkGrows, WalkIn
  <2> HIDE DEF w
  <2>8. y = Slashed(w)
    BY <2>1 DEF w
  <2>9. <<".">> # <<".", ".">> /\ Dots = {<<".">>, <<".", ".">>}
    BY DEF Dots
  <2>10. turned = [input |-> new, output |-> out]
    <3>1. CASE s = <<".">>
      <4>1. Walked(w, s) = w
        BY <2>9, <3>1 DEF Walked
      <4> QED BY <2>3b, <2>7, <2>8, <2>9, <3>1, <4>1
    <3>2. CASE s = <<".", ".">>
      <4>1. Walked(w, s) = IF w = <<>> THEN <<>> ELSE Front(w)
        BY <2>9, <3>2 DEF Walked
      <4>2. PoppedFrom(y) = Slashed(IF w = <<>> THEN <<>> ELSE Front(w))
        BY <2>7, <2>8, SlashedIs
      <4> QED BY <2>3b, <2>7, <2>9, <3>2, <4>1, <4>2
    <3>3. CASE s \notin Dots
      <4>1. Walked(w, s) = Append(w, s)
        BY <3>3 DEF Walked
      <4>2. Append(y, <<"/">> \o s) = Slashed(Append(w, s))
        BY <2>4, <2>7, <2>8, SlashedIs, ZenonT(30)
      <4> QED BY <2>3b, <2>7, <2>9, <3>3, <4>1, <4>2
    <3> QED BY <2>9, <3>1, <3>2, <3>3
  <2>11. WalkedSoFar(K, path, new, out, n)
    <3>1. CASE rest # <<>>
      <4>1. new = rest /\ rest[1] = "/" /\ Len(rest) <= n
        BY <2>2, <2>3a, <2>4, <3>1 DEF OrSlash
      <4> HIDE DEF out, new, more
      <4>2. AtSegment(K, path, rest, out)
        BY <2>6, <3>1, <4>1 DEF AtSegment, out, others, segments
      <4> QED BY <4>1, <4>2 DEF WalkedSoFar
    <3>2. CASE rest = <<>>
      <4>1. others = <<>>
        BY <2>5, <3>2 DEF others
      <4>2. segments = more
        BY <2>6, <4>1, ConcatEmptySeq
      <4>3. Last(more) = s
        <5>1. Len(more) = Len(done) + 1 /\ more[Len(done) + 1] = s
          BY <2>4, AppendIs
        <5> QED BY <5>1 DEF Last
      <4>4. CASE s \in Dots
        <5>1. s # <<>>
          <6>1. <<".">> # <<>> /\ <<".", ".">> # <<>>
            OBVIOUS
          <6> QED BY <2>9, <4>4, <6>1
        <5>2. Len(rest) = 0 /\ 1 <= n
          BY <2>2, <2>3a, <3>2, <5>1
        <5>3. new = <<"/">> /\ Len(new) = 1
          BY <3>2, <4>4 DEF OrSlash
        <5> HIDE DEF out, new, more
        <5>4. AtSlash(path, new, out)
          BY <4>2, <4>3, <4>4, <5>3 DEF AtSlash, out, segments
        <5> QED BY <5>2, <5>3, <5>4 DEF WalkedSoFar
      <4>5. CASE s \notin Dots
        <5>1. new = <<>> /\ Len(new) = 0
          BY <3>2, <4>5
        <5> HIDE DEF new, more
        <5>2. Resolved(more) = Walk(more) \o <<>>
          BY <4>3, <4>5 DEF Resolved
        <5>3. Walk(more) \in Seq(Seq(K))
          BY <2>6, WalkIn
        <5>4. Resolved(more) = Walk(more)
          BY <5>2, <5>3, ConcatEmptySeq
        <5>5. AtEnd(path, new, out)
          BY <4>2, <5>1, <5>4 DEF AtEnd, segments
        <5>6. 0 <= n
          OBVIOUS
        <5> HIDE DEF out
        <5> QED BY <5>1, <5>5, <5>6 DEF WalkedSoFar
      <4> QED BY <4>4, <4>5
    <3> QED BY <3>1, <3>2
  <2> HIDE DEF new, out
  <2> QED BY <2>10, <2>11
<1> QED BY <1>1, <1>2, <1>3 DEF WalkedSoFar

\* remove_dot_segments resolves the segments of a rooted path as RFC 3986 describes it:
\* for every such path, the loop over a text that shrinks does what the walk over the
\* segments does.
THEOREM LoopResolves ==
    ASSUME NEW K, "/" \in K, "." \in K, NEW path \in Seq(K), path # <<>>, path[1] = "/"
    PROVE  RemoveDotSegments(path) = PathOf(Resolved(SegmentsOf(path)))
<1> DEFINE k == Len(path)
           first == [input |-> path, output |-> <<>>]
           Is(g) == g = [n \in 0..k |-> IF n = 0 THEN first ELSE DotsTurn(g[n - 1])]
           after == CHOOSE g : Is(g)
           Held(b, left) == b = [input |-> b.input, output |-> b.output] /\ WalkedSoFar(K, path, b.input, b.output, left)
           S == {n \in Nat : n \in 0..k => Held(after[n], k - n)}
<1>0. SegmentsOf(path) \in Seq(Seq(K))
  <2>1. Split(path, "/") \in Seq(Seq(K)) /\ Split(path, "/") # <<>>
    BY SplitIn
  <2> QED BY <2>1 DEF SegmentsOf
<1>1. k \in Nat /\ k # 0
  OBVIOUS
<1>2. Is(after)
  <2>1. \E g : Is(g)
    BY <1>1, AfterDefined, Zenon
  <2> HIDE DEF Is
  <2> QED BY <2>1, Zenon
<1>3. RemoveDotSegments(path) = FlattenSeq(after[k].output)
  BY DEF RemoveDotSegments
<1> HIDE DEF after
<1>4. 0 \in S
  <2>1. Held(first, k)
    <3>1. <<>> \in Seq(Seq(K)) /\ Slashed(<<>>) = <<>> /\ Walk(<<>>) = <<>>
      BY WalkGrows DEF Slashed
    <3>2. <<>> \o SegmentsOf(path) = SegmentsOf(path)
      BY <1>0, ConcatEmptySeq
    <3>3. AtSegment(K, path, path, <<>>)
      BY <3>1, <3>2 DEF AtSegment
    <3>4. k <= k
      BY <1>1
    <3>5. first.input = path /\ first.output = <<>>
      OBVIOUS
    <3> QED BY <3>3, <3>4, <3>5 DEF WalkedSoFar
  <2>2. after[0] = first /\ k - 0 = k
    BY <1>1, <1>2
  <2> HIDE DEF Held, first
  <2> QED BY <2>1, <2>2
<1>5. ASSUME NEW n \in Nat, n \in S PROVE n + 1 \in S
  <2> SUFFICES ASSUME n + 1 \in 0..k PROVE Held(after[n + 1], k - (n + 1))
    OBVIOUS
  <2> DEFINE left == k - (n + 1)
             b == after[n]
             c == after[n + 1]
  <2>1. left \in Nat /\ left + 1 = k - n /\ n \in 0..k
    BY <1>1
  <2> HIDE DEF left
  <2>2. Held(b, left + 1)
    BY <1>5, <2>1
  <2>3. c = DotsTurn(b)
    <3>1. n + 1 # 0 /\ (n + 1) - 1 = n
      OBVIOUS
    <3>2. after[n + 1] = IF n + 1 = 0 THEN first ELSE DotsTurn(after[(n + 1) - 1])
      <4> HIDE DEF first
      <4> QED BY <1>2
    <3> QED BY <3>1, <3>2, Zenon
  <2> HIDE DEF b, c
  <2>4. Held(c, left)
    <3> DEFINE x == b.input
               y == b.output
    <3>1. b = [input |-> x, output |-> y] /\ WalkedSoFar(K, path, x, y, left + 1)
      BY <2>2
    <3> HIDE DEF x, y
    <3>2. c = DotsTurn([input |-> x, output |-> y])
      BY <2>3, <3>1
    <3> QED BY <1>0, <2>1, <3>1, <3>2, TurnWalks
  <2> HIDE DEF Held
  <2> QED BY <2>4 DEF left, c
<1> HIDE DEF S
<1>6. k \in S
  BY <1>1, <1>4, <1>5, SetInduction
<1> DEFINE x == after[k].input
           y == after[k].output
<1>7. WalkedSoFar(K, path, x, y, 0)
  BY <1>1, <1>6 DEF S
<1> HIDE DEF x, y
<1>8. AtEnd(path, x, y)
  <2>1. x \in Seq(K) => x = <<>> \/ Len(x) > 0
    OBVIOUS
  <2>2. Len(<<"/">>) > 0
    OBVIOUS
  <2>3. Len(x) <= 0
    BY <1>7 DEF WalkedSoFar
  <2>4. ~AtSegment(K, path, x, y)
    BY <2>1, <2>3 DEF AtSegment
  <2>5. ~AtSlash(path, x, y)
    BY <2>2, <2>3, SMTT(30) DEF AtSlash
  <2> QED BY <1>7, <2>4, <2>5 DEF WalkedSoFar
<1>9. Resolved(SegmentsOf(path)) \in Seq(Seq(K))
  <2>1. Walk(SegmentsOf(path)) \in Seq(Seq(K))
    BY <1>0, WalkIn
  <2>2. <<>> \in Seq(K) /\ << <<>> >> \in Seq(Seq(K)) /\ <<>> \in Seq(Seq(K))
    OBVIOUS
  <2> QED BY <2>1, <2>2 DEF Resolved
<1>10. FlattenSeq(y) = PathOf(Resolved(SegmentsOf(path)))
  BY <1>8, <1>9, SlashedIs DEF AtEnd
<1> QED BY <1>3, <1>10 DEF y

-----------------------------------------------------------------------------
(***************************************************************************)
(* References                                                              *)
(***************************************************************************)

\* The last slash of a rooted path, and what precedes and follows it.
LastSlash(path) == SelectLastInSeq(path, LAMBDA token : token = "/")
\* A rooted path has one.
LEMMA LastSlashIs ==
    ASSUME NEW T, NEW path \in Seq(T), path # <<>>, path[1] = "/"
    PROVE  /\ LastSlash(path) \in 1..Len(path) /\ path[LastSlash(path)] = "/"
           /\ \A i \in 1..Len(path) : path[i] = "/" => i <= LastSlash(path)
<1> DEFINE I == {i \in 1..Len(path) : path[i] = "/"}
           D == {Len(path) - i : i \in I}
<1>1. Len(path) \in Nat /\ 1 \in I
  OBVIOUS
<1>2. LastSlash(path) = Max(I)
  BY <1>1 DEF LastSlash, SelectLastInSeq
<1>3. D \subseteq Nat /\ D # {}
  BY <1>1
<1>4. PICK m \in D : \A n \in D : m <= n
  BY <1>3, LeastNatural
<1>5. PICK last \in I : m = Len(path) - last
  BY <1>4
<1>6. ASSUME NEW i \in I PROVE last >= i
  <2>1. PICK k \in Nat : k = Len(path)
    BY <1>1
  <2>2. k - i \in D /\ m = k - last
    BY <1>5, <2>1
  <2>3. i \in Nat /\ last \in Nat /\ i <= k /\ last <= k
    BY <2>1
  <2>4. k - last <= k - i
    BY <1>4, <2>2
  <2> HIDE DEF I, D
  <2> QED BY <2>1, <2>3, <2>4
<1> HIDE DEF I, D
<1>7. \E x \in I : \A y \in I : x >= y
  BY <1>5, <1>6
<1>8. Max(I) \in I /\ \A y \in I : Max(I) >= y
  <2> DEFINE Top(x) == x \in I /\ \A y \in I : x >= y
  <2>1. \E x : Top(x)
    BY <1>7
  <2>2. Max(I) = CHOOSE x \in I : \A y \in I : x >= y
    BY DEF Max
  <2> QED BY <1>7, <2>2
<1> QED BY <1>1, <1>2, <1>8 DEF I

\* merge_paths, on segments: the reference takes the place of the last one.
Beside(base, path) == SubSeq(base, 1, LastSlash(base)) \o path
LastReplaced(merged, base, path) == SegmentsOf(merged) = Front(SegmentsOf(base)) \o Split(path, "/")
\* Only the last segment is replaced.
LEMMA MergesSegments ==
    ASSUME NEW T, "/" \in T, NEW base \in Seq(T), base # <<>>, base[1] = "/",
           NEW path \in Seq(T), NEW merged, merged = Beside(base, path)
    PROVE  /\ merged \in Seq(T) /\ merged # <<>> /\ merged[1] = "/"
           /\ LastReplaced(merged, base, path)
<1> DEFINE i == LastSlash(base)
           dir == SubSeq(base, 1, i)
           a == SubSeq(base, 1, i - 1)
           b == SubSeq(base, i + 1, Len(base))
           ab == a \o <<"/">>
<1>1. i \in 1..Len(base) /\ base[i] = "/" /\ \A j \in 1..Len(base) : base[j] = "/" => j <= i
  BY LastSlashIs
<1>2. Len(base) \in Nat /\ i \in Nat /\ <<"/">> \in Seq(T)
  BY <1>1
<1> HIDE DEF i
<1>3. a \in Seq(T) /\ Len(a) = i - 1 /\ \A j \in 1..(i - 1) : a[j] = base[j]
  BY <1>1, <1>2
<1>4. b \in Seq(T) /\ Len(b) = Len(base) - i /\ \A j \in 1..(Len(base) - i) : b[j] = base[i + j]
  BY <1>1, <1>2
<1>5. dir \in Seq(T) /\ Len(dir) = i /\ \A j \in 1..i : dir[j] = base[j]
  BY <1>1, <1>2
<1> HIDE DEF a, b, dir
<1>6. ab \in Seq(T) /\ Len(ab) = i /\ \A j \in 1..i : ab[j] = base[j]
  <2>1. ab = Append(a, "/")
    BY <1>3, AppendJoins
  <2>2. /\ ab \in Seq(T) /\ Len(ab) = Len(a) + 1
        /\ ab[Len(a) + 1] = "/" /\ \A j \in 1..Len(a) : ab[j] = a[j]
    <3> DEFINE more == Append(a, "/")
    <3>1. /\ more \in Seq(T) /\ Len(more) = Len(a) + 1
          /\ more[Len(a) + 1] = "/" /\ \A j \in 1..Len(a) : more[j] = a[j]
      BY <1>3, AppendIs
    <3>2. ab = more
      BY <2>1
    <3> HIDE DEF ab, more
    <3> QED BY <3>1, <3>2
  <2> HIDE DEF ab
  <2>3. Len(a) + 1 = i /\ Len(a) = i - 1
    BY <1>2, <1>3
  <2>4. ASSUME NEW j \in 1..i PROVE ab[j] = base[j]
    <3>1. CASE j = i
      BY <1>1, <2>2, <2>3, <3>1
    <3>2. CASE j # i
      <4>1. j \in 1..(i - 1)
        BY <1>2, <3>2
      <4> QED BY <1>3, <2>2, <2>3, <4>1
    <3> QED BY <3>1, <3>2
  <2> QED BY <2>2, <2>3, <2>4
<1> HIDE DEF ab
<1>7. dir = ab
  BY <1>5, <1>6, SeqEqual
<1>8. base = ab \o b
  <2> DEFINE whole == ab \o b
  <2>1. whole \in Seq(T) /\ Len(whole) = i + (Len(base) - i)
        /\ \A j \in 1..(i + (Len(base) - i)) : whole[j] = IF j <= i THEN ab[j] ELSE b[j - i]
    <3>1. /\ whole \in Seq(T) /\ Len(whole) = Len(ab) + Len(b)
          /\ \A j \in 1..(Len(ab) + Len(b)) : whole[j] = IF j <= Len(ab) THEN ab[j] ELSE b[j - Len(ab)]
      BY <1>4, <1>6, ConcatProperties
    <3>2. Len(ab) = i /\ Len(b) = Len(base) - i
      BY <1>4, <1>6
    <3> HIDE DEF whole
    <3> QED BY <3>1, <3>2
  <2> HIDE DEF whole
  <2>2. Len(whole) = Len(base)
    BY <1>2, <2>1
  <2>3. ASSUME NEW j \in 1..Len(base) PROVE whole[j] = base[j]
    <3>1. CASE j <= i
      BY <1>2, <1>6, <2>1, <3>1
    <3>2. CASE ~(j <= i)
      <4>1. PICK k \in Nat : k = j - i
        BY <1>2, <3>2
      <4>2. k \in 1..(Len(base) - i) /\ i + k = j /\ j \in 1..(i + (Len(base) - i))
        BY <1>2, <3>2, <4>1
      <4>3. whole[j] = b[k]
        BY <2>1, <3>2, <4>1, <4>2
      <4> QED BY <1>4, <4>2, <4>3
    <3> QED BY <3>1, <3>2
  <2> QED BY <2>1, <2>2, <2>3, SeqEqual DEF whole
<1>9. b \in Seq(T \ {"/"})
  <2>1. ASSUME NEW j \in 1..Len(b) PROVE b[j] \in T \ {"/"}
    <3>1. PICK k \in Nat : k = i + j
      BY <1>2
    <3>2. j \in 1..(Len(base) - i) /\ k \in 1..Len(base) /\ ~(k <= i)
      BY <1>1, <1>2, <1>4, <3>1
    <3>3. b[j] = base[k] /\ base[k] # "/"
      BY <1>1, <1>4, <3>1, <3>2
    <3>4. b[j] \in T
      BY <1>4
    <3> QED BY <3>3, <3>4
  <2> QED BY <1>4, <2>1
<1> DEFINE sa == Split(a, "/")
           sp == Split(path, "/")
<1>10. sa \in Seq(Seq(T)) /\ sa # <<>> /\ sp \in Seq(Seq(T)) /\ sp # <<>>
  BY <1>3, SplitIn
<1>11. Split(base, "/") = Append(sa, b)
  BY <1>3, <1>8, <1>9, SplitJoins DEF ab
<1>12. Split(merged, "/") = sa \o sp
  <2>1. merged = (a \o <<"/">>) \o path
    BY <1>7 DEF Beside, dir, ab, i
  <2> QED BY <1>3, <2>1, SplitConcat, ZenonT(30)
<1> HIDE DEF sa, sp
<1>13. SegmentsOf(merged) = Tail(sa) \o sp /\ Tail(sa) \in Seq(Seq(T))
  BY <1>10, <1>12, TailOfConcat, ZenonT(30) DEF SegmentsOf
<1>14. Front(SegmentsOf(base)) = Tail(sa)
  <2>1. b \in Seq(T) /\ <<b>> \in Seq(Seq(T)) /\ Append(sa, b) = sa \o <<b>>
    <3>1. b \in Seq(T) /\ <<b>> \in Seq(Seq(T))
      BY <1>4
    <3> QED BY <1>10, <3>1, AppendJoins
  <2>2. Tail(sa \o <<b>>) = Tail(sa) \o <<b>>
    BY <1>10, <2>1, TailOfConcat
  <2> DEFINE t == Tail(sa)
  <2>3. t \in Seq(Seq(T))
    BY <1>13
  <2> HIDE DEF t
  <2>4. t \o <<b>> = Append(t, b)
    BY <2>1, <2>3, AppendJoins
  <2>5. Front(Append(t, b)) = t
    <3> DEFINE u == Append(t, b)
               v == Front(u)
    <3>1. u \in Seq(Seq(T)) /\ Len(u) = Len(t) + 1 /\ \A j \in 1..Len(t) : u[j] = t[j]
      BY <2>1, <2>3, AppendIs
    <3>2. Len(t) \in Nat
      BY <2>3
    <3> HIDE DEF u
    <3>3. v \in Seq(Seq(T)) /\ Len(v) = Len(t) /\ \A j \in 1..Len(t) : v[j] = u[j]
      BY <3>1, <3>2 DEF Front
    <3> HIDE DEF v
    <3>4. v = t
      BY <2>3, <3>1, <3>3, SeqEqual
    <3> QED BY <3>4 DEF u, v
  <2> QED BY <1>11, <2>1, <2>2, <2>4, <2>5 DEF SegmentsOf, t
<1>15. dir # <<>> /\ dir[1] = "/"
  <2>1. Len(dir) >= 1 /\ 1 \in 1..i
    BY <1>1, <1>2, <1>5
  <2> QED BY <1>5, <2>1
<1>16. merged \in Seq(T) /\ merged # <<>> /\ merged[1] = "/"
  <2> DEFINE w == dir \o path
  <2>1. merged = w
    BY DEF Beside, dir, i
  <2>2. w \in Seq(T)
    BY <1>5, ConcatIs
  <2>3. w # <<>> /\ w[1] = dir[1]
    BY <1>5, <1>15, ConcatIs
  <2> HIDE DEF w
  <2> QED BY <1>15, <2>1, <2>2, <2>3
<1>17. LastReplaced(merged, base, path)
  BY <1>13, <1>14 DEF LastReplaced, sp
<1> QED BY <1>16, <1>17

\* split_uri_reference of str(url) gives the parts that it spells.
LEMMA BaseSplit ==
    ASSUME NEW parts, Formed(parts), parts.scheme # None, parts.host # None,
           NEW policy, SchemeAllowed(policy, parts.scheme)
    PROVE  SplitReference(AsString(parts)) =
               UriParts(parts.scheme, SplitOf(SpelledNetloc(parts), BuilderNormalizePath(parts.path),
                                              parts.query, SpelledFragment(parts)))
<1> DEFINE s == parts.scheme
           n == SpelledNetloc(parts)
           p == BuilderNormalizePath(parts.path)
           q == parts.query
           f == SpelledFragment(parts)
           z == Hierarchy(n, p, q, f)
           text == AsString(parts)
           rest == <<":">> \o z
<1>0. AsString(parts) = Prefixed(s, z)
  BY SpelledTexts
<1>1. /\ text = s \o rest
      /\ p \in Seq(Token \ {"?", "#"}) /\ p # <<>> /\ p[1] = "/"
      /\ (q = None \/ q \in Seq(Token \ {"#"})) /\ MaybeText(f)
  <2>1. text = s \o rest
    BY <1>0 DEF Prefixed
  <2>2. p \in Seq(Token \ {"?", "#"}) /\ p # <<>> /\ p[1] = "/"
    BY SpelledTexts
  <2>3. (q = None \/ q \in Seq(Token \ {"#"})) /\ MaybeText(f)
    BY SpelledTexts
  <2> HIDE DEF text, rest, p, q, f
  <2> QED BY <2>1, <2>2, <2>3
<1>2. GoodScheme(s) /\ n \in Seq(Token \ {"/", "?", "#"})
  BY NetlocSpelled DEF Formed
<1>3. z \in Seq(Token) /\ SplitHierarchy(z) = SplitOf(n, p, q, f)
  <2> HIDE DEF p, q, f, n, text, rest
  <2>1. z \in Seq(Token) /\ SplitsInto(z, n, p, q, f)
    BY <1>1, <1>2, SplitReadBack
  <2> QED BY <2>1 DEF SplitsInto
<1> HIDE DEF z, n, p, q, f, text
<1>4. s \in Seq(Token) /\ s \in Seq(Token \ {"/", "?", "#", ":", "@"}) /\ s # <<>>
  BY <1>2, SchemeIs DEF GoodScheme
<1>5. ~HoldsAny(s, {":", "/", "?", "#"})
  <2>1. (Token \ {"/", "?", "#", ":", "@"}) \cap {":", "/", "?", "#"} = {}
    OBVIOUS
  <2> QED BY <1>4, <2>1, HoldsNone
<1>6. ":" \in Token
  BY CharactersAreTokens DEF Kept
<1>7. rest \in Seq(Token) /\ rest # <<>> /\ rest[1] = ":" /\ Tail(rest) = z
  BY <1>3, <1>6, LeadIs
<1> HIDE DEF rest, s
<1>8. Index(text, {":", "/", "?", "#"}) = Len(s) + 1
  BY <1>1, <1>4, <1>5, <1>7, CutFirst
<1>9. /\ text \in Seq(Token) /\ Len(text) = Len(s) + Len(rest) /\ Len(s) \in Nat /\ Len(s) # 0
      /\ Len(rest) \in Nat /\ Len(rest) # 0
      /\ \A i \in 1..(Len(s) + Len(rest)) : text[i] = IF i <= Len(s) THEN s[i] ELSE rest[i - Len(s)]
  BY <1>1, <1>4, <1>7, ConcatProperties
<1>10. text[Len(s) + 1] = ":"
  <2>1. Len(s) + 1 \in 1..(Len(s) + Len(rest)) /\ ~(Len(s) + 1 <= Len(s)) /\ (Len(s) + 1) - Len(s) = 1
    BY <1>9
  <2> QED BY <1>7, <1>9, <2>1
<1>11. SubSeq(text, 1, Len(s)) = s
  <2> DEFINE front == SubSeq(text, 1, Len(s))
  <2>1. front \in Seq(Token) /\ Len(front) = Len(s) /\ \A i \in 1..Len(s) : front[i] = text[i]
    BY <1>9
  <2> HIDE DEF front
  <2>2. \A i \in 1..Len(s) : front[i] = s[i]
    BY <1>9, <2>1
  <2>3. front = s
    BY <1>4, <2>1, <2>2, SeqEqual
  <2> QED BY <2>3 DEF front
<1>12. From(text, (Len(s) + 1) + 1) = z
  <2> DEFINE head == s \o <<":">>
  <2>1. <<":">> \in Seq(Token) /\ Len(<<":">>) = 1
    BY <1>6
  <2>2. head \in Seq(Token) /\ Len(head) = Len(s) + 1
    BY <1>4, <2>1, ConcatProperties
  <2>3. text = head \o z
    <3>1. Associates(s, <<":">>, z)
      BY <1>3, <1>4, <2>1, Regrouping
    <3> QED BY <1>1, <3>1 DEF Associates, rest
  <2> HIDE DEF head
  <2> QED BY <1>3, <2>2, <2>3, ConcatIs
<1>13. SplitReference(text) = UriParts(s, SplitHierarchy(z))
  <2> DEFINE first == Len(s) + 1
  <2>1. first > 1 /\ first - 1 = Len(s) /\ text[first] = ":" /\ From(text, first + 1) = z
        /\ SubSeq(text, 1, first - 1) = s
    BY <1>9, <1>10, <1>11, <1>12
  <2>2. SplitReference(text) = SplitAt(text, first)
    BY <1>8 DEF SplitReference
  <2> HIDE DEF first
  <2> QED BY <2>1, <2>2 DEF SplitAt
<1> QED BY <1>3, <1>13 DEF s, n, p, q, f, text

\* A reference that names no scheme and no authority is a path, a query and a fragment.
LEMMA RelativeSplit ==
    ASSUME NEW reference \in Seq(Token), IsRelativeReference(reference),
           NEW r, r = SplitReference(reference)
    PROVE  /\ r = UriParts(None, SplitOf(None, r.path, r.query, r.fragment))
           /\ r.path \in Seq(Token \ {"?", "#"})
           /\ r.query = None \/ r.query \in Seq(Token \ {"#"})
           /\ MaybeText(r.fragment)
<1> DEFINE i == Index(reference, {":", "/", "?", "#"})
           split == SplitHierarchy(reference)
           cut == CutTail(None, reference)
<1>1. r.scheme = None /\ r.authority = None
  BY DEF IsRelativeReference
<1>2. i \in 0..Len(reference) /\ Len(reference) \in Nat
  BY IndexFound
<1>3. r = UriParts(None, split)
  <2> HIDE DEF i
  <2>1. r = SplitAt(reference, i)
    BY DEF SplitReference, i
  <2>2. ASSUME i > 1 PROVE SubSeq(reference, 1, i - 1) # None
    <3>1. SubSeq(reference, 1, i - 1) \in Seq(Token)
      BY <1>2, <2>2
    <3> QED BY <3>1, NoneIsNoText
  <2> QED BY <1>1, <2>1, <2>2 DEF SplitAt, UriParts
<1>4. split = cut
  <2>1. CASE Starts(reference, <<"/", "/">>)
    <3> DEFINE after == From(reference, 3)
               end == Index(after, {"/", "?", "#"})
    <3>1. Len(reference) >= 2
      <4>1. "/" \in Token
        BY CharactersAreTokens DEF Kept
      <4> QED BY <2>1, <4>1, StartsTwo
    <3>2. after \in Seq(Token)
      BY <3>1, FromIs
    <3>3. split.authority = Before(after, {"/", "?", "#"})
      BY <2>1 DEF SplitHierarchy, CutAuthority, CutTail, Before
    <3> HIDE DEF after
    <3>4. Before(after, {"/", "?", "#"}) \in Seq(Token)
      BY <3>2, CutIs
    <3> QED BY <1>1, <1>3, <3>3, <3>4, NoneIsNoText DEF UriParts
  <2>2. CASE ~Starts(reference, <<"/", "/">>)
    BY <2>2 DEF SplitHierarchy
  <2> QED BY <2>1, <2>2
<1> DEFINE b == Before(reference, {"#"})
<1>5. /\ cut.authority = None /\ cut.path = Before(reference, {"?", "#"})
      /\ cut.query = After(b, {"?"}) /\ cut.fragment = After(reference, {"#"})
  BY DEF CutTail
<1>6. cut.path \in Seq(Token \ {"?", "#"})
  BY <1>5, CutIs
<1>7. cut.query = None \/ cut.query \in Seq(Token \ {"#"})
  <2> DEFINE T == Token \ {"#"}
  <2>1. b \in Seq(T)
    BY CutIs
  <2> HIDE DEF b, T
  <2>2. After(b, {"?"}) = None \/ After(b, {"?"}) \in Seq(T)
    BY <2>1, CutIs
  <2> QED BY <1>5, <2>2 DEF T
<1>8. MaybeText(cut.fragment)
  <2>1. HoldsAny(reference, {"#"}) => After(reference, {"#"}) \in Seq(Token)
    BY CutIs
  <2>2. ~HoldsAny(reference, {"#"}) => After(reference, {"#"}) = None
    BY CutIs
  <2> QED BY <1>5, <2>1, <2>2 DEF MaybeText
<1> HIDE DEF cut, split
<1> QED BY <1>3, <1>4, <1>5, <1>6, <1>7, <1>8 DEF UriParts, SplitOf

\* Parts with others in their place.
PartsOf(a, b, c, d, e) == [scheme |-> a, authority |-> b, path |-> c, query |-> d, fragment |-> e]
TailReplaced(base, query, fragment) == [base EXCEPT !.fragment = fragment, !.query = query]
PathReplaced(base, path, query, fragment) ==
    [base EXCEPT !.fragment = fragment, !.query = query, !.path = path]
Replaces(base, a, b, c, path, query, fragment) ==
    /\ TailReplaced(base, query, fragment) = PartsOf(a, b, c, query, fragment)
    /\ PathReplaced(base, path, query, fragment) = PartsOf(a, b, path, query, fragment)
\* The other parts stay.
LEMMA PartsReplaced ==
    ASSUME NEW a, NEW b, NEW c, NEW d, NEW e, NEW path, NEW query, NEW fragment,
           NEW base, base = PartsOf(a, b, c, d, e)
    PROVE  Replaces(base, a, b, c, path, query, fragment)
<1> DEFINE names == {"scheme", "authority", "path", "query", "fragment"}
           f == [base EXCEPT !.fragment = fragment, !.query = query]
           g == PartsOf(a, b, c, query, fragment)
           u == [base EXCEPT !.fragment = fragment, !.query = query, !.path = path]
           v == PartsOf(a, b, path, query, fragment)
<1>1. DOMAIN f = names /\ DOMAIN g = names /\ DOMAIN u = names /\ DOMAIN v = names
  BY DEF PartsOf
<1>2. \A name \in names : f[name] = g[name]
  <2>1. f["scheme"] = a /\ f["authority"] = b /\ f["path"] = c /\ f["query"] = query /\ f["fragment"] = fragment
    BY DEF PartsOf
  <2>2. g["scheme"] = a /\ g["authority"] = b /\ g["path"] = c /\ g["query"] = query /\ g["fragment"] = fragment
    BY DEF PartsOf
  <2> HIDE DEF f, g
  <2> QED BY <2>1, <2>2
<1>3. \A name \in names : u[name] = v[name]
  <2>1. u["scheme"] = a /\ u["authority"] = b /\ u["path"] = path /\ u["query"] = query /\ u["fragment"] = fragment
    BY DEF PartsOf
  <2>2. v["scheme"] = a /\ v["authority"] = b /\ v["path"] = path /\ v["query"] = query /\ v["fragment"] = fragment
    BY DEF PartsOf
  <2> HIDE DEF u, v
  <2> QED BY <2>1, <2>2
<1>4. /\ f = [name \in names |-> f[name]] /\ g = [name \in names |-> g[name]]
      /\ u = [name \in names |-> u[name]] /\ v = [name \in names |-> v[name]]
  BY <1>1 DEF PartsOf
<1> HIDE DEF f, g, u, v, names
<1>5. f = g /\ u = v
  BY <1>2, <1>3, <1>4
<1> QED BY <1>5 DEF Replaces, TailReplaced, PathReplaced, f, g, u, v

\* What transform_reference makes of such a reference, written down by recompose.
Target(base, p, r) == IF r.path = <<>> THEN p ELSE RelativePath(base, r)
SpelledAs(text, s, n, path, query, fragment) == text = Prefixed(s, Hierarchy(n, path, query, fragment))
Found(q, r) == IF r.path = <<>> /\ r.query = None THEN q ELSE r.query
\* It is spelled on the scheme and the netloc of the base.
LEMMA TargetSpelled ==
    ASSUME NEW s \in Seq(Token), NEW n \in Seq(Token), NEW p \in Seq(Token),
           NEW q, MaybeText(q), NEW f,
           NEW base, base = UriParts(s, SplitOf(n, p, q, f)),
           NEW r, r = UriParts(None, SplitOf(None, r.path, r.query, r.fragment)),
           MaybeText(r.query), MaybeText(r.fragment),
           NEW target, target = Target(base, p, r), target \in Seq(Token),
           NEW found, found = Found(q, r)
    PROVE  SpelledAs(ResolveParts(base, r, TRUE), s, n, target, found, r.fragment)
<1> DEFINE path == r.path
           query == r.query
           fragment == r.fragment
           made == UriParts(s, SplitOf(n, target, found, fragment))
           ql == Lead("?", found)
           fl == Lead("#", fragment)
           colon == <<":">>
           slashes == <<"/", "/">>
           net == slashes \o n
           t == target \o (ql \o fl)
<1>1. s # None /\ n # None
  BY NoneIsNoText
<1>2. TransformReference(base, r, TRUE) = made
  <2>1. r.scheme = None /\ r.authority = None
    BY DEF UriParts, SplitOf
  <2>2. base = PartsOf(s, n, p, q, f) /\ base.query = q
    BY DEF UriParts, SplitOf, PartsOf
  <2>3. made = PartsOf(s, n, target, found, fragment)
    BY DEF UriParts, SplitOf, PartsOf
  <2>4. CASE path = <<>>
    <3> DEFINE kept == IF query # None THEN query ELSE q
    <3>1. TransformReference(base, r, TRUE) = TailReplaced(base, kept, fragment)
      BY <2>1, <2>2, <2>4 DEF TransformReference, TailReplaced
    <3>2. TransformReference(base, r, TRUE) = PartsOf(s, n, p, kept, fragment)
      <4> HIDE DEF fragment, query, kept, made
      <4>1. Replaces(base, s, n, p, target, kept, fragment)
        BY <2>2, PartsReplaced
      <4> QED BY <3>1, <4>1 DEF Replaces
    <3>3. kept = found /\ p = target
      BY <2>4 DEF Found, Target
    <3> HIDE DEF kept, made
    <3> QED BY <2>3, <3>2, <3>3
  <2>5. CASE path # <<>>
    <3>1. TransformReference(base, r, TRUE) = PathReplaced(base, target, query, fragment)
      BY <2>1, <2>5 DEF TransformReference, PathReplaced, Target
    <3>2. TransformReference(base, r, TRUE) = PartsOf(s, n, target, query, fragment)
      <4> HIDE DEF fragment, query, made
      <4>1. Replaces(base, s, n, p, target, query, fragment)
        BY <2>2, PartsReplaced
      <4> QED BY <3>1, <4>1 DEF Replaces
    <3>3. query = found
      BY <2>5 DEF Found
    <3> HIDE DEF made
    <3> QED BY <2>3, <3>2, <3>3
  <2> QED BY <2>4, <2>5
<1>3. /\ made.scheme = s /\ made.authority = n /\ made.path = target
      /\ made.query = found /\ made.fragment = fragment /\ base.scheme = s
  BY DEF UriParts, SplitOf
<1>4. ResolveParts(base, r, TRUE) = Recompose(made)
  BY <1>1, <1>2, <1>3 DEF ResolveParts
<1>5. Recompose(made) = ((((s \o colon) \o net) \o target) \o ql) \o fl
  <2> HIDE DEF made
  <2> QED BY <1>1, <1>3 DEF Recompose, Lead
<1>6. colon \in Seq(Token) /\ slashes \in Seq(Token) /\ "?" \in Token /\ "#" \in Token
  BY CharactersAreTokens DEF Kept
<1>7. ql \in Seq(Token) /\ fl \in Seq(Token)
  <2>1. (found = None \/ found \in Seq(Token)) /\ (fragment = None \/ fragment \in Seq(Token))
    BY DEF MaybeText, Found
  <2> HIDE DEF fragment
  <2> QED BY <1>6, <2>1, LeadPart
<1> HIDE DEF ql, fl, colon, slashes, made
<1>8. net \in Seq(Token) /\ ql \o fl \in Seq(Token)
  BY <1>6, <1>7, ConcatIs
<1>9. ((((s \o colon) \o net) \o target) \o ql) \o fl = s \o (colon \o (net \o t))
  <2> HIDE DEF net
  <2>1. Regroups(s, colon, net, target, ql, fl)
    BY <1>6, <1>7, <1>8, Regrouped
  <2> QED BY <2>1 DEF Regroups, t
<1>10. t \in Seq(Token)
  BY <1>8, ConcatIs
<1> HIDE DEF t
<1>11. net \o t = slashes \o (n \o t)
  <2>1. Associates(slashes, n, t)
    BY <1>6, <1>10, Regrouping
  <2> QED BY <2>1 DEF Associates
<1>12. Hierarchy(n, target, found, fragment) = slashes \o (n \o t)
  BY DEF Hierarchy, t, ql, fl, slashes
<1>13. Prefixed(s, Hierarchy(n, target, found, fragment)) = s \o (colon \o (net \o t))
  <2> HIDE DEF net
  <2> QED BY <1>11, <1>12 DEF Prefixed, colon
<1> QED BY <1>4, <1>5, <1>9, <1>13 DEF SpelledAs

\* The target's path is the merged segments resolved, and is normalised as it is read.
MergedAndResolved(target, p, path) == target = PathOf(Resolved(MergedSegments(SegmentsOf(p), path)))
ReadAs(path, found, host) == OrRoot(host, NormalizePath(Rooted(host, path))) = found
\* And it is read back normalised.
LEMMA TargetPath ==
    ASSUME NEW s, NEW n, NEW q, NEW f, NEW p \in Clean(Kept), p \in Seq(Token \ {"?", "#"}),
           NEW base, base = UriParts(s, SplitOf(n, p, q, f)),
           NEW r, r.path \in Seq(Token \ {"?", "#"}),
           NEW target, target = Target(base, p, r), NEW host, host # None
    PROVE  /\ target \in Clean(Token \ {"?", "#"})
           /\ MergedAndResolved(target, p, r.path)
           /\ ReadAs(target, NormalForm(target), host)
<1> DEFINE K == Token \ {"?", "#"}
           path == r.path
<1>1. "/" \in K /\ "." \in K /\ "/" \in Kept /\ "." \in Kept /\ "/" \in Token /\ "." \in Token
  BY CharactersAreTokens DEF Kept
<1>2. p \in Seq(K) /\ p # <<>> /\ p[1] = "/" /\ DotFree(p)
  BY DEF Clean
<1>3. target \in Clean(K) /\ target = PathOf(Resolved(MergedSegments(SegmentsOf(p), path)))
  <2>1. CASE path = <<>>
    <3>1. RemoveDotSegments(p) = p
      BY <1>1, NothingRemoved
    <3>2. RemoveDotSegments(p) = PathOf(Resolved(SegmentsOf(p)))
      BY <1>1, <1>2, LoopResolves
    <3>3. MergedSegments(SegmentsOf(p), path) = SegmentsOf(p)
      BY <2>1 DEF MergedSegments
    <3> QED BY <1>2, <2>1, <3>1, <3>2, <3>3 DEF Clean, Target
  <2>2. CASE path # <<>>
    <3> DEFINE merged == IF path[1] = "/" THEN path ELSE Beside(p, path)
    <3>1. target = RemoveDotSegments(merged)
      <4>1. base.path = p
        BY DEF UriParts, SplitOf
      <4>2. MergePaths(base, path) = Beside(p, path)
        BY <1>2, <4>1 DEF MergePaths, Beside, LastSlash
      <4>3. target = RemoveDotSegments(IF path[1] = "/" THEN path ELSE MergePaths(base, path))
        BY <2>2 DEF RelativePath, Target
      <4> QED BY <4>2, <4>3
    <3>2. /\ merged \in Seq(K) /\ merged # <<>> /\ merged[1] = "/"
          /\ SegmentsOf(merged) = MergedSegments(SegmentsOf(p), path)
      <4>1. CASE path[1] = "/"
        BY <2>2, <4>1 DEF MergedSegments
      <4>2. CASE path[1] # "/"
        <5> DEFINE joint == Beside(p, path)
        <5> HIDE DEF K
        <5>1. /\ joint \in Seq(K) /\ joint # <<>> /\ joint[1] = "/"
              /\ LastReplaced(joint, p, path)
          <6>1. path \in Seq(K)
            BY DEF K
          <6> QED BY <1>1, <1>2, <6>1, MergesSegments
        <5>2. merged = joint
          BY <4>2
        <5> HIDE DEF joint, merged
        <5> QED BY <2>2, <4>2, <5>1, <5>2 DEF MergedSegments, LastReplaced
      <4> QED BY <4>1, <4>2
    <3> HIDE DEF merged, K
    <3> QED BY <1>1, <3>1, <3>2, LoopResolves, RemovesDotSegments
  <2> QED BY <2>1, <2>2
<1>4. target \in Seq(Token) /\ target # <<>> /\ target[1] = "/"
  <2>1. Seq(K) \subseteq Seq(Token)
    BY SeqMonotonic
  <2> QED BY <1>3, <2>1 DEF Clean
<1> DEFINE e == NormalizePercentEncoding(target)
<1>5. e \in Seq(Token) /\ e # <<>> /\ e[1] = "/"
  <2>1. e \in Seq(Kept) /\ Len(e) = Len(target) /\ \A i \in 1..Len(target) : e[i] = Normal(target[i])
    BY <1>4, EscapesNormalised
  <2>2. Seq(Kept) \subseteq Seq(Token)
    BY SeqMonotonic DEF Kept
  <2> HIDE DEF e
  <2>3. 1 \in 1..Len(target)
    BY <1>4
  <2>4. e[1] = "/"
    BY <1>1, <1>4, <2>1, <2>3, NormalToken
  <2> QED BY <2>1, <2>2, <2>3, <2>4
<1>6. RemoveDotSegments(e) = NormalForm(target) /\ RemoveDotSegments(e) # <<>>
  <2> HIDE DEF e
  <2>1. RemoveDotSegments(e) = PathOf(Resolved(SegmentsOf(e))) /\ RemoveDotSegments(e) \in Clean(Token)
    BY <1>1, <1>5, LoopResolves, RemovesDotSegments
  <2> QED BY <2>1 DEF NormalForm, Clean, e
<1>7. NormalizePath(target) = NormalForm(target) /\ NormalForm(target) # <<>>
  BY <1>5, <1>6 DEF NormalizePath, NormalizeDotSegments
<1>8. ReadAs(target, NormalForm(target), host)
  BY <1>4, <1>7 DEF ReadAs, OrRoot, Rooted
<1> QED BY <1>3, <1>8 DEF MergedAndResolved

\* Joined with a reference that names no scheme and no authority, a URL keeps its
\* destination; the path is RFC 3986's, resolved and then normalised, never above the
\* root; the query and the fragment are the reference's, or it is rejected for them
\* (_resolve.transform_reference and recompose, then the parser).
THEOREM JoinResolvesHolds == Spec => []JoinResolves
<1>1. ASSUME FormedInv, CoversInv, AllowedInv PROVE JoinResolves
  <2> SUFFICES ASSUME Absolute, NEW reference \in References, IsRelativeReference(reference)
               PROVE  JoinsOrRaises(ParseText(ResolveReference(AsString(url), reference, TRUE), ctx.policy),
                                    Again, SplitReference(reference))
    BY DEF JoinResolves, JoinsEvery
  <2> DEFINE s == url.scheme
             n == SpelledNetloc(url)
             p == BuilderNormalizePath(url.path)
             q == url.query
             f == SpelledFragment(url)
             port == SpelledPort(url)
             base == UriParts(s, SplitOf(n, p, q, f))
             r == SplitReference(reference)
             target == Target(base, p, r)
             found == Found(q, r)
             z == Hierarchy(n, target, found, r.fragment)
             text == ResolveReference(AsString(url), reference, TRUE)
             joined == ParseText(text, ctx.policy)
  <2>1. Formed(url) /\ url.scheme # None /\ url.host # None
    BY <1>1 DEF Absolute, FormedInv
  <2>2. SchemeAllowed(ctx.policy, url.scheme)
    BY <1>1, <2>1, SameRules DEF Absolute, AllowedInv, CoversInv, Covers, SchemeAllowed
  <2>3. SplitReference(AsString(url)) = base
    BY <2>1, <2>2, BaseSplit
  <2>4. /\ r = UriParts(None, SplitOf(None, r.path, r.query, r.fragment))
        /\ r.path \in Seq(Token \ {"?", "#"})
        /\ r.query = None \/ r.query \in Seq(Token \ {"#"})
        /\ MaybeText(r.fragment)
    BY ReferencesAssumption, RelativeSplit DEF IsText
  <2>5. /\ p \in Seq(Token \ {"?", "#"}) /\ p # <<>> /\ p[1] = "/"
        /\ (q = None \/ q \in Seq(Token \ {"#"})) /\ MaybeText(q) /\ MaybeText(f)
        /\ NormalizePercentEncoding(q) = q /\ ValidQuery(q)
    BY <2>1, SpelledTexts
  <2>6. p \in Clean(Kept)
    <3>1. url.path \in Clean(Kept)
      BY <2>1 DEF Formed, Clean
    <3> QED BY <3>1, BuilderKeeps
  <2>7. /\ target \in Clean(Token \ {"?", "#"})
        /\ target = PathOf(Resolved(MergedSegments(SegmentsOf(p), r.path)))
        /\ OrRoot(url.host, NormalizePath(Rooted(url.host, target))) = NormalForm(target)
    <3> HIDE DEF s, n, p, q, f, r
    <3>1. r.path \in Seq(Token \ {"?", "#"}) /\ p \in Seq(Token \ {"?", "#"})
      BY <2>4, <2>5
    <3>2. target \in Clean(Token \ {"?", "#"}) /\ MergedAndResolved(target, p, r.path)
      BY <2>1, <2>6, <3>1, TargetPath
    <3>3. ReadAs(target, NormalForm(target), url.host)
      BY <2>1, <2>6, <3>1, TargetPath
    <3> QED BY <3>2, <3>3 DEF MergedAndResolved, ReadAs
  <2>8. target \in Seq(Token \ {"?", "#"}) /\ target \in Seq(Token) /\ target # <<>> /\ target[1] = "/"
    <3>1. Seq(Token \ {"?", "#"}) \subseteq Seq(Token)
      BY SeqMonotonic
    <3> QED BY <2>7, <3>1 DEF Clean
  <2>9. /\ url.userinfo = None \/ GoodUserinfo(url.userinfo)
        /\ GoodHost(url.host) /\ GoodScheme(s) /\ s \in Seq(Token) /\ (port = None \/ IsPort(port))
        /\ n = NetlocOf(url.userinfo, url.host, port) /\ n \in Seq(Token)
    <3>1. Seq(Token \ {"/", "?", "#"}) \subseteq Seq(Token)
      BY SeqMonotonic
    <3> QED BY <2>1, <3>1, NetlocSpelled DEF Formed, SpelledNetloc, GoodScheme
  <2>10. text = Prefixed(s, z)
    <3>1. text = ResolveParts(base, r, TRUE)
      BY <2>3 DEF ResolveReference
    <3>2. p \in Seq(Token) /\ MaybeText(q) /\ MaybeText(r.query) /\ MaybeText(r.fragment)
      <4>1. Seq(Token \ {"?", "#"}) \subseteq Seq(Token) /\ Seq(Token \ {"#"}) \subseteq Seq(Token)
        BY SeqMonotonic
      <4> QED BY <2>4, <2>5, <4>1 DEF MaybeText
    <3> HIDE DEF s, n, p, q, f, r, text
    <3>3. r = UriParts(None, SplitOf(None, r.path, r.query, r.fragment))
      BY <2>4
    <3> HIDE DEF target, found
    <3>4. target = Target(base, p, r) /\ found = Found(q, r)
      BY DEF target, found
    <3>5. s \in Seq(Token) /\ n \in Seq(Token) /\ target \in Seq(Token)
      BY <2>8, <2>9
    <3>6. base = UriParts(s, SplitOf(n, p, q, f))
      OBVIOUS
    <3> HIDE DEF base, z
    <3>7. SpelledAs(ResolveParts(base, r, TRUE), s, n, target, found, r.fragment)
      BY <3>2, <3>3, <3>4, <3>5, <3>6, TargetSpelled
    <3> QED BY <3>1, <3>7 DEF SpelledAs, z
  <2>11. joined = Assemble(s, url.userinfo, url.host, port, target, found, r.fragment)
    <3>1. found = None \/ found \in Seq(Token \ {"#"})
      BY <2>4, <2>5 DEF Found
    <3>2. SchemeAllowed(ctx.policy, s)
      BY <2>2
    <3> HIDE DEF s, n, port, target, found, text, r
    <3>3. ReadsAs(text, ctx.policy, s, url.userinfo, url.host, port, target, found, r.fragment)
      BY <2>4, <2>8, <2>9, <2>10, <3>1, <3>2, AddressRead
    <3> QED BY <3>3 DEF ReadsAs
  <2>12. /\ ApplyPortDefaults(s, port, url.host) = url.port
         /\ Bad \notin {s, url.userinfo, url.host, port, url.port}
    BY <2>1, PortPutBack
  <2>13. Again.ok /\ Destination(Again) = Destination(url) /\ Again.path = p /\ Again.query = q
    BY <2>1, <2>2, ReadBack, SpelledAgain DEF Again, Destination
  <2> HIDE DEF s, p, q, target, text, r, port
  <2>14. CASE ~(ValidQuery(r.query) /\ ValidFragment(r.fragment))
    <3>1. ~ValidQuery(found) \/ ~ValidFragment(r.fragment)
      <4>1. ValidQuery(None)
        <5>1. ~Holds(None, Space)
          <6>1. DOMAIN None = {1} /\ None[1] = "None"
            BY DEF None
          <6>2. Space # "None"
            BY Zenon DEF Space
          <6> QED BY <6>1, <6>2 DEF Holds
        <5>2. ParseQuery(None) = <<>> /\ Range(<<>>) = {}
          BY DEF ParseQuery, Range
        <5> QED BY <5>1, <5>2 DEF ValidQuery
      <4> QED BY <2>14, <4>1 DEF Found
    <3>2. joined = Rejected
      <4> HIDE DEF found, joined
      <4> QED BY <2>11, <3>1 DEF Assemble
    <3>3. ~joined.ok
      <4> HIDE DEF joined
      <4> QED BY <3>2 DEF Rejected
    <3> HIDE DEF joined
    <3>4. JoinsOrRaises(joined, Again, r)
      BY <2>14, <3>3 DEF JoinsOrRaises
    <3> QED BY <3>4 DEF joined, text, r
  <2>15. CASE ValidQuery(r.query) /\ ValidFragment(r.fragment)
    <3>1. ValidQuery(found)
      BY <2>5, <2>15 DEF Found
    <3>2. /\ joined.ok /\ joined.scheme = s /\ joined.userinfo = url.userinfo /\ joined.host = url.host
          /\ joined.port = url.port /\ joined.path = NormalForm(target)
          /\ joined.query = NormalizePercentEncoding(found)
          /\ joined.fragment = NormalizePercentEncoding(r.fragment)
      <4> HIDE DEF found, joined
      <4> QED BY <2>7, <2>11, <2>12, <2>15, <3>1 DEF Assemble
    <3>3. NormalizePercentEncoding(found)
            = IF r.path = <<>> /\ r.query = None THEN q ELSE NormalizePercentEncoding(r.query)
      BY <2>5 DEF Found
    <3>4. SameNames(Again, joined)
      BY <2>13, <3>2 DEF SameNames, Destination, s
    <3> HIDE DEF found, joined
    <3>5. Joins(joined, Again, r)
      BY <2>7, <2>13, <3>2, <3>3, <3>4 DEF Joins
    <3> QED BY <2>15, <3>5 DEF JoinsOrRaises, joined, text, r
  <2> QED BY <2>14, <2>15
<1> QED BY <1>1, AllowedHolds, PTL

-----------------------------------------------------------------------------
(***************************************************************************)
(* The canonical form                                                      *)
(***************************************************************************)

\* The parts of a URL in canonical form, with these parameters in whichever order.
CanonicalParts(parts, pairs) ==
    [ok |-> TRUE, scheme |-> parts.scheme, userinfo |-> parts.userinfo, host |-> parts.host,
     port |-> parts.port, path |-> BuilderNormalizePath(parts.path),
     query |-> IF pairs = <<>> THEN None ELSE NormalizePercentEncoding(SerializeQuery(Sorted(pairs))),
     pairs |-> Sorted(pairs), fragment |-> parts.fragment]
\* They are in form.
LEMMA CanonicalIsFormed ==
    ASSUME NEW parts, Formed(parts), parts.scheme # None, parts.host # None, NEW pairs \in Seq(Named)
    PROVE  LET canonical == CanonicalParts(parts, pairs)
               query == IF pairs = <<>> THEN None ELSE SerializeQuery(Sorted(pairs))
           IN  /\ Formed(canonical) /\ Sorted(pairs) \in Seq(Named)
               /\ query = None \/ query \in Seq(Token \ {"#", Space})
               /\ canonical.query = NormalizePercentEncoding(query) /\ canonical.pairs = ParseQuery(query)
               /\ ValidQuery(query)
<1> DEFINE sorted == Sorted(pairs)
           query == IF pairs = <<>> THEN None ELSE SerializeQuery(sorted)
           canonical == CanonicalParts(parts, pairs)
<1>1. sorted \in Seq(Named) /\ (sorted = <<>> <=> pairs = <<>>)
  <2>1. Named \subseteq Pairs
    BY DEF Named
  <2> QED BY <2>1, SortedIs DEF Sorts
<1> HIDE DEF sorted
<1>2. query = None \/ query \in Seq(Token \ {"#", Space})
  <2>1. sorted \in Seq(Pairs)
    BY <1>1, SeqMonotonic DEF Named
  <2> QED BY <2>1, SerializedTokens
<1>3. ParseQuery(query) = sorted
  <2>1. CASE pairs = <<>>
    BY <1>1, <2>1 DEF ParseQuery
  <2>2. CASE pairs # <<>>
    BY <1>1, <2>2, ParamsReadBack
  <2> QED BY <2>1, <2>2
<1>4. query = None \/ query \in Seq(Token)
  BY <1>2, SeqMonotonic
<1>5. \A pair \in Range(sorted) : pair[1] # <<>>
  BY <1>1 DEF Range, Named
<1>6. ~HoldsAny(query, {"#", Space})
  <2>1. {"#", Space} \subseteq Token
    BY CharactersAreTokens DEF Kept
  <2> QED BY <1>2, <1>4, <2>1, NormalNone, HoldsNone
<1>7. ValidQuery(query)
  <2>1. ~Holds(query, Space)
    BY <1>6 DEF Holds, HoldsAny
  <2> QED BY <1>3, <1>5, <2>1 DEF ValidQuery
<1> DEFINE new == NormalizePercentEncoding(query)
<1>8. /\ canonical = [ok |-> TRUE, scheme |-> parts.scheme, userinfo |-> parts.userinfo,
                      host |-> parts.host, port |-> parts.port, path |-> BuilderNormalizePath(parts.path),
                      query |-> new, pairs |-> sorted, fragment |-> parts.fragment]
  <2>1. new = IF pairs = <<>> THEN None ELSE NormalizePercentEncoding(SerializeQuery(sorted))
    BY NormalNone
  <2> QED BY <2>1 DEF CanonicalParts, sorted
<1>9. new = None \/ new \in Seq(QueryText)
  <2>1. CASE query = None
    BY <2>1, NormalNone
  <2>2. CASE query # None
    <3>1. query \in Seq(Token)
      BY <1>4, <2>2
    <3>2. new \in Seq(Kept)
      BY <3>1, EscapesNormalised
    <3>3. ~HoldsAny(new, {"#", Space})
      BY <1>6, <3>1, NormalHolds
    <3>4. new \in Seq(Kept \ {"#", Space})
      BY <3>2, <3>3, HoldsNone
    <3> QED BY <3>4 DEF QueryText
  <2> QED BY <2>1, <2>2
<1>10. ParseQuery(new) = sorted
  BY <1>3, <1>4, NormalParams
<1>11. BuilderNormalizePath(parts.path) \in Clean(Kept)
  <2>1. parts.path \in Clean(Kept)
    BY DEF Formed, Clean
  <2> QED BY <2>1, BuilderKeeps
<1> HIDE DEF new, query, canonical
<1>12. Formed(canonical)
  <2>1. canonical = [part \in Parts |-> canonical[part]]
    BY <1>8 DEF Parts
  <2> QED BY <1>5, <1>8, <1>9, <1>10, <1>11, <2>1 DEF Formed, Clean
<1> QED BY <1>1, <1>2, <1>3, <1>7, <1>8, <1>12 DEF canonical, query, new, sorted

\* What canonicalising makes of a URL whose string can be read back.
LEMMA CanonicalIs ==
    ASSUME NEW parts, Formed(parts), parts.scheme # None, parts.host # None,
           NEW policy, SchemeAllowed(policy, parts.scheme), NEW pairs \in Seq(Named), NEW query,
           NEW given, given = [parts EXCEPT !.pairs = pairs, !.query = query]
    PROVE  DeriveParts(given, CanonicalOverrides(given), policy) = CanonicalParts(parts, pairs)
<1> DEFINE s == parts.scheme
           o == CanonicalOverrides(given)
           port == IF parts.port = DefaultPort(s) THEN None ELSE parts.port
           written == IF pairs = <<>> THEN None ELSE SerializeQuery(Sorted(pairs))
           p == BuilderNormalizePath(parts.path)
           canonical == CanonicalParts(parts, pairs)
           raw == Overridden(given, o)
<1>1. /\ given = [part \in Parts |-> given[part]]
      /\ given.scheme = s /\ given.userinfo = parts.userinfo /\ given.host = parts.host
      /\ given.port = parts.port /\ given.path = parts.path /\ given.pairs = pairs
      /\ given.fragment = parts.fragment
  BY DEF Formed, Parts
<1>2. /\ Formed(canonical)
      /\ written = None \/ written \in Seq(Token \ {"#", Space})
      /\ canonical.query = NormalizePercentEncoding(written) /\ canonical.pairs = ParseQuery(written)
      /\ ValidQuery(written)
  BY CanonicalIsFormed
<1>3. GoodScheme(s) /\ Lower(s) = s /\ s \in Seq(Token)
  BY SchemeIs DEF Formed, GoodScheme
<1>4. GoodHost(parts.host) /\ Lower(parts.host) = parts.host /\ NormalizeHostComponent(parts.host) = parts.host
      /\ parts.host \in Seq(Token) /\ parts.host # <<>>
  BY HostLowered, HostTokens DEF Formed, GoodHost, ValidHost, IsText
<1>5. o = [scheme |-> s, host |-> parts.host, port |-> port, path |-> p, query |-> written]
  BY <1>1, <1>3, <1>4 DEF CanonicalOverrides
<1>6. p \in Seq(Token) /\ ~Holds(p, Space) /\ p # <<>> /\ p[1] = "/" /\ NormalizePath(p) = p
  <2>1. parts.path \in Clean(Kept) /\ parts.path \in Seq(Token)
    BY SeqMonotonic DEF Formed, Clean, Kept
  <2>2. p \in Clean(PathText)
    BY <2>1, BuilderPath DEF Clean
  <2>3. NormalizePath(p) = p
    BY <2>1, BuilderKeeps
  <2>4. PathText \subseteq Token /\ Space \notin PathText
    BY DEF PathText, Kept
  <2>5. p \in Seq(PathText) /\ p # <<>> /\ p[1] = "/"
    BY <2>2 DEF Clean
  <2> HIDE DEF p
  <2> QED BY <2>3, <2>4, <2>5, SeqMonotonic DEF Holds
<1>7. written = None \/ (written \in Seq(Token) /\ ~HoldsAny(written, {Space, "#"}))
  <2>1. written \in Seq(Token \ {"#", Space}) => written \in Seq(Token)
    BY SeqMonotonic
  <2>2. {"#", Space} = {Space, "#"}
    OBVIOUS
  <2> HIDE DEF written
  <2> QED BY <1>2, <2>1, <2>2, HoldsNone
<1>8. port = None \/ IsPort(port)
  BY DEF Formed, GoodPort
<1>9. ApplyPortDefaults(s, port, parts.host) = parts.port
  <2>1. port = SpelledPort(parts) \/ (port = None /\ SpelledPort(parts) = None)
    BY DEF SpelledPort
  <2> QED BY <2>1, PortPutBack
<1> HIDE DEF port, written, p
<1>10. ValidOverrides(o)
  <2>1. HoldsAny(None, {Space, "#"}) = FALSE
    BY NormalNone, CharactersAreTokens DEF Kept
  <2>2. /\ DOMAIN o = {"scheme", "host", "port", "path", "query"}
        /\ o.scheme = s /\ o.host = parts.host /\ o.path = p /\ o.query = written
    BY <1>5
  <2> HIDE DEF o, s
  <2>3. \A key \in DOMAIN o \ {"port", "query_pairs"} : o[key] = None \/ o[key] \in Seq(Token)
    BY <1>3, <1>4, <1>6, <1>7, <2>2
  <2>4. IsValidScheme(Lower(o.scheme))
    BY <1>3, <2>2 DEF GoodScheme
  <2>5. ~Holds(o.path, Space)
    BY <1>6, <2>2
  <2>6. ~HoldsAny(o.query, {Space, "#"})
    BY <1>7, <2>1, <2>2
  <2> QED BY <2>3, <2>4, <2>5, <2>6 DEF ValidOverrides, IsText
<1>11. /\ raw.scheme = s /\ raw.userinfo = parts.userinfo /\ raw.host = parts.host
       /\ raw.port = port /\ raw.path = p /\ raw.query = written /\ raw.fragment = parts.fragment
  <2>1. DOMAIN o = {"scheme", "host", "port", "path", "query"}
    BY <1>5
  <2>2. OverriddenPort(given, o) = port
    BY <1>5, <1>8, <2>1, PortParsed DEF OverriddenPort
  <2>3. OverriddenQuery(given, o) = written
    BY <1>5, <2>1 DEF OverriddenQuery
  <2>4. OrEmpty(p) = p
    BY <1>6, NoneIsNoText DEF OrEmpty
  <2>5. o.scheme = s /\ o.host = parts.host /\ o.path = p
    BY <1>5
  <2> HIDE DEF o
  <2>6. /\ Chosen(given, o, "scheme") = s /\ Chosen(given, o, "host") = parts.host
        /\ Chosen(given, o, "path") = p /\ Chosen(given, o, "userinfo") = parts.userinfo
        /\ Chosen(given, o, "fragment") = parts.fragment
    BY <1>1, <2>1, <2>5 DEF Chosen
  <2> HIDE DEF raw, s
  <2>7. /\ raw.scheme = Lower(Chosen(given, o, "scheme"))
        /\ raw.userinfo = Chosen(given, o, "userinfo") /\ raw.host = Chosen(given, o, "host")
        /\ raw.port = OverriddenPort(given, o)
        /\ raw.path = OrEmpty(Chosen(given, o, "path"))
        /\ raw.query = OverriddenQuery(given, o) /\ raw.fragment = Chosen(given, o, "fragment")
    <3>1. given = [part \in Parts |-> given[part]]
      BY <1>1
    <3> HIDE DEF canonical, port, written, p
    <3> QED BY ONLY <3>1, OverriddenIs DEF raw
  <2> QED BY <1>3, <2>2, <2>3, <2>4, <2>6, <2>7
<1> HIDE DEF o, raw
<1>12. FromRaw(raw) = canonical
  <2>1. (IF parts.userinfo = None THEN None ELSE NormalizeUserinfoComponent(parts.userinfo)) = parts.userinfo
    <3>1. Seq(UserText) \subseteq Seq(Token)
      BY SeqMonotonic DEF UserText, Kept
    <3> QED BY <3>1, UserinfoNormalised DEF Formed, GoodUserinfo
  <2>2. parts.host \notin {None, <<>>}
    BY <1>4
  <2>3. FromRaw(raw) = Assemble(s, parts.userinfo, parts.host, port, p, written, parts.fragment)
    BY <1>4, <1>11, <2>1, <2>2 DEF FromRaw, NormalizeComponents
  <2>4. Bad \notin {s, parts.userinfo, parts.host, port, parts.port}
    <3>1. Bad \notin {s, parts.userinfo, parts.host, parts.port}
      BY PortPutBack
    <3> QED BY <1>8, <3>1, PortParsed, NoneIsNoText
  <2>5. ValidFragment(parts.fragment) /\ NormalizePercentEncoding(parts.fragment) = parts.fragment
    <3>1. parts.fragment = None \/ parts.fragment \in Seq(QueryText)
      BY DEF Formed
    <3>2. {"#", Space} \subseteq Token /\ QueryText \cap {"#", Space} = {} /\ Seq(QueryText) \subseteq Seq(Kept)
      BY CharactersAreTokens, SeqMonotonic DEF Kept, QueryText
    <3> QED BY <3>1, <3>2, NormalNone, HoldsNone, EscapesNormalised DEF ValidFragment
  <2>6. OrRoot(parts.host, NormalizePath(Rooted(parts.host, p))) = p
    BY <1>6 DEF Rooted, OrRoot
  <2> DEFINE made == [ok |-> TRUE, scheme |-> s, userinfo |-> parts.userinfo, host |-> parts.host,
                      port |-> parts.port, path |-> p, query |-> NormalizePercentEncoding(written),
                      pairs |-> ParseQuery(written), fragment |-> parts.fragment]
  <2>7. FromRaw(raw) = made
    <3> HIDE DEF s
    <3> QED BY <1>2, <1>9, <2>3, <2>4, <2>5, <2>6 DEF Assemble
  <2>8. canonical = made
    <3>1. canonical.query = NormalizePercentEncoding(written) /\ canonical.pairs = ParseQuery(written)
      BY <1>2
    <3> QED BY <3>1 DEF CanonicalParts, p
  <2> QED BY <2>7, <2>8
<1>13. RoundTrips(canonical, policy)
  <2> DEFINE bare == [canonical EXCEPT !.path = <<"/">>, !.query = None, !.pairs = <<>>, !.fragment = None]
  <2>1. /\ canonical.scheme = s /\ canonical.userinfo = parts.userinfo /\ canonical.host = parts.host
        /\ canonical.port = parts.port
    BY DEF CanonicalParts
  <2>2. ~Holds(canonical.query, "#")
    <3>1. canonical.query = None \/ canonical.query \in Seq(QueryText)
      BY <1>2 DEF Formed
    <3>2. {"#"} \subseteq Token /\ QueryText \cap {"#"} = {}
      BY CharactersAreTokens DEF Kept, QueryText
    <3>3. ~HoldsAny(canonical.query, {"#"})
      BY <3>1, <3>2, NormalNone, HoldsNone
    <3> QED BY <3>3 DEF Holds, HoldsAny
  <2> HIDE DEF canonical
  <2>3. /\ bare = [part \in Parts |-> bare[part]] /\ bare.ok = canonical.ok
        /\ bare.scheme = s /\ bare.userinfo = parts.userinfo /\ bare.host = parts.host
        /\ bare.port = parts.port /\ bare.path = <<"/">> /\ bare.query = None /\ bare.pairs = <<>>
        /\ bare.fragment = None
    BY <1>2, <2>1 DEF Formed, Parts
  <2>4. <<"/">> \in Seq(Kept) /\ DotFree(<<"/">>) /\ <<"/">> # <<>> /\ <<"/">>[1] = "/"
    <3>1. "/" # "." /\ "/" \in Kept
      BY CharactersAreTokens
    <3> QED BY <3>1 DEF DotFree, DotAt
  <2>5. ParseQuery(None) = <<>> /\ Range(<<>>) = {}
    BY DEF ParseQuery, Range
  <2>6. Formed(bare)
    <3> HIDE DEF bare
    <3> QED BY <1>2, <2>1, <2>3, <2>4, <2>5 DEF Formed
  <2> HIDE DEF bare
  <2> DEFINE text == AsString(bare)
             again == ParseText(text, policy)
  <2>7. text \in Seq(Token) /\ again.ok /\ Destination(again) = Destination(canonical)
    BY <2>1, <2>3, <2>6, ReadBack DEF Destination
  <2>8. text = Compose(bare) /\ text # Bad
    BY <2>7, NoneIsNoText DEF AsString
  <2> HIDE DEF again
  <2> QED BY <2>2, <2>7, <2>8 DEF RoundTrips, SameNames, bare, again
<1>14. canonical.ok
  BY <1>2 DEF Formed
<1> QED BY <1>10, <1>12, <1>13, <1>14 DEF DeriveParts, Derived, o, raw

\* Canonicalising keeps the destination, changes nothing the second time, and does
\* not depend on the order the parameters were written in, unless a key occurs both
\* bare and with an empty value (canonical_overrides).
THEOREM CanonicalFixedHolds == Spec => []CanonicalFixed
<1>1. ASSUME FormedInv, CoversInv, AllowedInv PROVE CanonicalFixed
  <2> SUFFICES ASSUME Absolute PROVE CanonicalOf(url, Canonical(url))
    BY DEF CanonicalFixed
  <2>1. Formed(url) /\ url.scheme # None /\ url.host # None
    BY <1>1 DEF Absolute, FormedInv
  <2>2. SchemeAllowed(ctx.policy, url.scheme)
    BY <1>1, <2>1, SameRules DEF Absolute, AllowedInv, CoversInv, Covers, SchemeAllowed
  <2> DEFINE pairs == url.pairs
             canonical == CanonicalParts(url, pairs)
             Given(parts, x, query) == [parts EXCEPT !.pairs = x, !.query = query]
  <2>3. pairs \in Seq(Named)
    <3>1. url.query = None \/ url.query \in Seq(Token)
      <4>1. Seq(QueryText) \subseteq Seq(Token)
        BY SeqMonotonic DEF QueryText, Kept
      <4> QED BY <2>1, <4>1 DEF Formed
    <3> QED BY <2>1, <3>1, ParsedPairs DEF Formed
  <2>4. ASSUME NEW parts, Formed(parts), parts.scheme = url.scheme, parts.host = url.host,
               NEW x \in Seq(Named), NEW query
        PROVE  Canonical(Given(parts, x, query)) = CanonicalParts(parts, x)
    <3>1. parts.scheme # None /\ parts.host # None /\ SchemeAllowed(ctx.policy, parts.scheme)
      BY <2>1, <2>2, <2>4
    <3> QED BY <2>4, <3>1, CanonicalIs DEF Canonical
  <2>5. Canonical(url) = canonical
    <3>1. url = Given(url, pairs, url.query)
      BY <2>1 DEF Formed, Parts
    <3> HIDE DEF Given
    <3> QED BY <2>1, <2>3, <2>4, <3>1
  <2>6. /\ canonical.ok /\ canonical.scheme = url.scheme /\ canonical.userinfo = url.userinfo
        /\ canonical.host = url.host /\ canonical.port = url.port
        /\ canonical.path = BuilderNormalizePath(url.path) /\ canonical.pairs = Sorted(pairs)
        /\ canonical.fragment = url.fragment
        /\ canonical.query = IF pairs = <<>> THEN None ELSE NormalizePercentEncoding(SerializeQuery(Sorted(pairs)))
    BY DEF CanonicalParts
  <2>7. Formed(canonical) /\ Sorted(pairs) \in Seq(Named)
    BY <2>1, <2>3, CanonicalIsFormed
  <2>8. Sorted(Sorted(pairs)) = Sorted(pairs) /\ (Sorted(pairs) = <<>> <=> pairs = <<>>)
    <3>1. Named \subseteq Pairs
      BY DEF Named
    <3>2. Sorts(Named, pairs) /\ Sorts(Named, Sorted(pairs))
      BY <2>3, <2>7, <3>1, SortedIs
    <3> QED BY <3>2 DEF Sorts
  <2>9. BuilderNormalizePath(BuilderNormalizePath(url.path)) = BuilderNormalizePath(url.path)
    <3>1. url.path \in Clean(Kept)
      BY <2>1 DEF Formed, Clean
    <3> QED BY <3>1, BuilderKeeps
  <2>10. CanonicalParts(canonical, Sorted(pairs)) = canonical
    <3> HIDE DEF pairs
    <3> QED BY <2>6, <2>8, <2>9 DEF CanonicalParts
  <2> HIDE DEF canonical
  <2>11. Canonical(canonical) = canonical
    <3>1. canonical = Given(canonical, Sorted(pairs), canonical.query)
      BY <2>6, <2>7 DEF Formed, Parts
    <3> HIDE DEF Given
    <3>2. Canonical(Given(canonical, Sorted(pairs), canonical.query)) = CanonicalParts(canonical, Sorted(pairs))
      BY <2>4, <2>6, <2>7
    <3> HIDE DEF pairs
    <3> QED BY <2>10, <3>1, <3>2
  <2>12. ASSUME ~\E p, q \in Range(url.pairs) : p[1] = q[1] /\ p[2] = None /\ q[2] = <<>>
         PROVE  Canonical(Swapped(url)) = canonical
    <3> DEFINE T == Range(pairs)
               r == Reverse(pairs)
    <3>1. T \subseteq Named /\ T \subseteq Pairs /\ pairs \in Seq(T)
      <4>1. \A i \in 1..Len(pairs) : pairs[i] \in Named /\ pairs[i] \in T
        BY <2>3 DEF Range
      <4>2. T \subseteq Named
        BY <2>3 DEF Range
      <4>3. pairs = [i \in 1..Len(pairs) |-> pairs[i]] /\ Len(pairs) \in Nat
        BY <2>3
      <4>4. [i \in 1..Len(pairs) |-> pairs[i]] \in Seq(T)
        BY <4>1, <4>3
      <4> QED BY <4>2, <4>3, <4>4 DEF Named
    <3>2. Told(T)
      <4> SUFFICES ASSUME NEW p \in T, NEW q \in T PROVE p = q \/ Ahead(p, q) \/ Ahead(q, p)
      BY DEF Told
    <4>1. p \in Pairs /\ q \in Pairs
      BY <3>1
    <4>2. \/ p = q \/ Ahead(p, q) \/ Ahead(q, p)
          \/ p[1] = q[1] /\ {p[2], q[2]} = {None, <<>>}
      BY <4>1, AheadOrders
    <4>3. ASSUME p[1] = q[1], {p[2], q[2]} = {None, <<>>} PROVE FALSE
      <5>1. (p[2] = None /\ q[2] = <<>>) \/ (p[2] = <<>> /\ q[2] = None)
        BY <4>3, NoneIsNoText
      <5> QED BY <2>12, <4>3, <5>1
    <4> QED BY <4>2, <4>3
    <3>3. r \in Seq(T) /\ Sorted(r) = Sorted(pairs)
      BY <3>1, <3>2, SortedReverse
    <3>4. r \in Seq(Named) /\ (r = <<>> <=> pairs = <<>>)
      <4>1. r \in Seq(Named)
        BY <3>1, <3>3, SeqMonotonic
      <4>2. Len(r) = Len(pairs)
        BY <2>3 DEF Reverse
      <4> HIDE DEF r, pairs
      <4> QED BY <2>3, <4>1, <4>2
    <3>5. Swapped(url) = Given(url, r, SerializeQuery(r))
      BY <2>1 DEF Swapped, Formed, Parts
    <3> HIDE DEF Given
    <3>6. Canonical(Swapped(url)) = CanonicalParts(url, r)
      BY <2>1, <2>4, <3>4, <3>5
    <3>7. CanonicalParts(url, r) = CanonicalParts(url, pairs)
      BY <3>3, <3>4 DEF CanonicalParts
    <3> QED BY <3>6, <3>7 DEF canonical
  <2>13. SameNames(url, canonical)
    BY <2>6 DEF SameNames, Destination
  <2> QED BY <2>5, <2>11, <2>12, <2>13 DEF CanonicalOf
<1> QED BY <1>1, AllowedHolds, PTL
=============================================================================
