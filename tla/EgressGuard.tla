------------------------------ MODULE EgressGuard ------------------------------
(***************************************************************************)
(* urlps._egress: a URL is parsed and checked under a policy, and later a  *)
(* caller asks for its addresses (resolve_and_validate) or an HTTP client  *)
(* for a socket (create_guarded_connection).  Between the two, and within  *)
(* the second, the network does as it likes: the resolver (default or      *)
(* injected) answers anything, socket calls fail, and the peer of a socket *)
(* that connected may be any address.  A step is one call into the         *)
(* resolver or the socket module, with what the code does before the next. *)
(***************************************************************************)
EXTENDS SecurityPolicy, Integers, Sequences

CONSTANTS
    Hosts,            \* hosts, as the parser stores them
    Policies,         \* the policies URLs are parsed under
    Given,            \* the policy arguments of a later call
    Answers,          \* what a resolver may answer: sequences of addresses and NoAddress
    Peers             \* what getpeername may say

ASSUME EgressAssumption ==
    /\ Answers \subseteq Seq(Addresses \cup {NoAddress})
    /\ Peers \subseteq Addresses \cup {NoAddress}

VARIABLES
    url,       \* the URL in use: its host, its policy; or none
    call,      \* the locals of the call in progress, or of the last one
    tried,     \* entries of the answer a socket was tried for, in this call
    open,      \* sockets of this call open and not yet closed
    result     \* how the call ended, or "none"

vars == <<url, call, tried, open, result>>

Stages == {"idle", "resolve", "judge", "socket", "prepare", "connect", "peer"}
Endings == {"none", "ssrf_risk", "dns_failed", "os_error", "no_socket", "other_error",
            "addresses", "socket"}

NoUrl == [host |-> NoAddress, policy |-> Strict]
Idle == [stage |-> "idle", mode |-> "addresses", host |-> NoAddress, policy |-> Strict,
         answer |-> <<>>, i |-> 0, peer |-> NoAddress]

AllPolicies == Policies \cup {Strict} \cup {ResolveSecurityPolicy(given) : given \in Given}

Call == [stage : Stages, mode : {"addresses", "connect"}, host : Hosts \cup {NoAddress},
         policy : AllPolicies, answer : Answers \cup {<<>>}, i : Nat,
         peer : Addresses \cup {NoAddress}]

TypeOK ==
    /\ url \in [host : Hosts \cup {NoAddress}, policy : AllPolicies]
    /\ call \in Call
    /\ tried \in SUBSET Nat
    /\ open \in Nat
    /\ result \in Endings

Init == url = NoUrl /\ call = Idle /\ tried = {} /\ open = 0 /\ result = "none"

-----------------------------------------------------------------------------
Permitted(c, ip) == PermitsAddress(c.policy, ip, HostIsAllowed(c.policy, c.host))

Finish(ending) == result' = ending /\ call' = [call EXCEPT !.stage = "idle"]

\* The host checks of URL(text, policy): a URL they refuse does not exist.
ParseUrl(host, policy) ==
    /\ call.stage = "idle"
    /\ ~HostIsRefused(policy, host)
    /\ url' = [host |-> host, policy |-> policy]
    /\ call' = Idle /\ tried' = {} /\ open' = 0 /\ result' = "none"

\* resolve_and_validate under the URL's own policy or another, and
\* create_guarded_connection, called with the host alone, under its own policy
\* argument (strict unless given), up to the refusal at the top of _vetted_addrinfo.
Begin(mode, given) ==
    /\ call.stage = "idle"
    /\ url # NoUrl
    /\ tried' = {} /\ open' = 0
    /\ LET effective == IF given = <<>> /\ mode = "addresses" THEN url.policy
                        ELSE ResolveSecurityPolicy(given)
           c == [Idle EXCEPT !.mode = mode, !.host = url.host, !.policy = effective]
       IN  IF HostIsRefused(effective, url.host)
           THEN call' = c /\ result' = "ssrf_risk"
           ELSE call' = [c EXCEPT !.stage = "resolve"] /\ result' = "none"
    /\ UNCHANGED url

\* The one resolver call.
ResolverAnswers(answer) ==
    /\ call.stage = "resolve"
    /\ IF answer = <<>> THEN Finish("dns_failed")
       ELSE call' = [call EXCEPT !.stage = "judge", !.answer = answer] /\ UNCHANGED result
    /\ UNCHANGED <<url, tried, open>>

ResolverFails(ending) ==
    /\ call.stage = "resolve"
    /\ Finish(ending)
    /\ UNCHANGED <<url, tried, open>>

\* Mutant: the entries that are refused are left out instead.
VettedSome(c) == \E k \in DOMAIN c.answer : c.answer[k] \in Addresses /\ Permitted(c, c.answer[k])

\* _vetted_addrinfo's loop: one entry that cannot be read or is refused is enough.
Vetted(c) == \A k \in DOMAIN c.answer : c.answer[k] \in Addresses /\ Permitted(c, c.answer[k])

JudgeAnswer ==
    /\ call.stage = "judge"
    /\ IF ~Vetted(call) THEN Finish("ssrf_risk")
       ELSE IF call.mode = "addresses" THEN Finish("addresses")
       ELSE call' = [call EXCEPT !.stage = "socket", !.i = 1] /\ UNCHANGED result
    /\ UNCHANGED <<url, tried, open>>

-----------------------------------------------------------------------------
(* create_guarded_connection's loop over the vetted entries *)

Advance(stage) == call' = [call EXCEPT !.stage = stage] /\ UNCHANGED result

OpenSocket ==
    /\ call.stage = "socket"
    /\ open' = open + 1
    /\ tried' = tried \cup {call.i}
    /\ Advance("prepare")
    /\ UNCHANGED url

\* setsockopt, settimeout, bind
PrepareSocket ==
    /\ call.stage = "prepare"
    /\ Advance("connect")
    /\ UNCHANGED <<url, tried, open>>

Connect ==
    /\ call.stage = "connect"
    /\ Advance("peer")
    /\ UNCHANGED <<url, tried, open>>

\* Mutant: the refused socket is left open.
CheckPeerOpen(peer) ==
    /\ call.stage = "peer"
    /\ peer \in Addresses
    /\ call' = [call EXCEPT !.stage = "idle", !.peer = peer]
    /\ result' = IF Permitted(call, peer) THEN "socket" ELSE "ssrf_risk"
    /\ UNCHANGED <<url, tried, open>>

CheckPeer(peer) ==
    /\ call.stage = "peer"
    /\ peer \in Addresses
    /\ call' = [call EXCEPT !.stage = "idle", !.peer = peer]
    /\ IF Permitted(call, peer) THEN result' = "socket" /\ UNCHANGED open
       ELSE result' = "ssrf_risk" /\ open' = open - 1
    /\ UNCHANGED <<url, tried>>

\* Mutant: the first failure ends the call.
AttemptFailsOnce ==
    /\ call.stage \in {"socket", "prepare", "connect", "peer"}
    /\ tried' = tried \cup {call.i}
    /\ open' = IF call.stage = "socket" THEN open ELSE open - 1
    /\ Finish("os_error")
    /\ UNCHANGED url

\* Mutant: a socket that was never made is closed as well.
AttemptFailsTwice ==
    /\ call.stage \in {"socket", "prepare", "connect", "peer"}
    /\ tried' = tried \cup {call.i}
    /\ open' = open - 1
    /\ Finish("os_error")
    /\ UNCHANGED url

\* Any of the four calls raises OSError: the socket, if there is one, is closed,
\* and the next entry is tried; after the last one the last error is raised.
AttemptFails ==
    /\ call.stage \in {"socket", "prepare", "connect", "peer"}
    /\ tried' = tried \cup {call.i}
    /\ open' = IF call.stage = "socket" THEN open ELSE open - 1
    /\ IF call.i < Len(call.answer)
       THEN call' = [call EXCEPT !.stage = "socket", !.i = @ + 1] /\ UNCHANGED result
       ELSE Finish("os_error")
    /\ UNCHANGED url

\* socket() itself raises something else (a family or type, from a caller's own
\* resolver, that is no integer): nothing catches it, and there is no socket.
SocketRaises ==
    /\ call.stage = "socket"
    /\ tried' = tried \cup {call.i}
    /\ Finish("no_socket")
    /\ UNCHANGED <<url, open>>

\* A later call raises something else (a bad option or timeout value, a peer that
\* is not an address): nothing catches it, and nothing closes the socket.
AttemptRaises ==
    /\ call.stage \in {"prepare", "connect", "peer"}
    /\ Finish("other_error")
    /\ UNCHANGED <<url, tried, open>>

Next ==
    \/ \E h \in Hosts, p \in Policies : ParseUrl(h, p)
    \/ \E mode \in {"addresses", "connect"}, given \in Given : Begin(mode, given)
    \/ \E a \in Answers : ResolverAnswers(a)
    \/ \E e \in {"dns_failed", "os_error"} : ResolverFails(e)
    \/ JudgeAnswer
    \/ OpenSocket
    \/ PrepareSocket
    \/ Connect
    \/ \E p \in Peers : CheckPeer(p)
    \/ AttemptFails
    \/ SocketRaises
    \/ AttemptRaises

Spec == Init /\ [][Next]_vars

-----------------------------------------------------------------------------
\* Addresses this call has let through: those it returned, those it has tried to
\* connect to, and the peer of the socket it returned.
Entry(k) == call.answer[k]
LetThrough ==
    (IF result = "addresses" THEN {Entry(k) : k \in DOMAIN call.answer} ELSE {})
    \cup {Entry(k) : k \in tried}
    \cup (IF result = "socket" THEN {call.peer} ELSE {})

\* A cloud metadata endpoint, under any IPv6 address that carries it, is let
\* through only where SSRF enforcement is off or a network rule names it: a rule
\* that allows the host's name is not enough, whatever the name resolves to at
\* the time and whatever peer answers (policy.permits_address, rules 2 to 5).
MetadataNeedsNetworkRule ==
    \A ip \in LetThrough : IsMetadataAddress(ip) =>
        \/ ~call.policy.enforce_ssrf
        \/ \E network \in call.policy.allowed_addresses.networks : WithEmbedded(ip) \cap network # {}

\* An address a denied rule covers, itself or as the IPv4 address inside it, is
\* never let through, even where an allowed rule covers it or its host and where
\* enforcement is off; nor is any address for a host that a denied rule names
\* (policy.SecurityPolicy's comment on denied_addresses).
DeniedNeverLetThrough ==
    LetThrough # {} =>
        /\ ~HostIsDenied(call.policy, call.host)
        /\ \A ip \in LetThrough :
              \A network \in call.policy.denied_addresses.networks : WithEmbedded(ip) \cap network = {}

\* A name with a single inadmissible address is refused before anything is sent:
\* no socket exists, and no address is returned, while the answer has an entry
\* the policy refuses (_vetted_addrinfo fails closed on the whole answer).
WholeAnswerVetted ==
    open > 0 \/ tried # {} \/ result = "addresses" =>
        \A k \in DOMAIN call.answer : Entry(k) # NoAddress /\ Permitted(call, Entry(k))

\* A network failure is reported only when every address of the answer has been
\* tried (the fallback loop of create_guarded_connection), unless the resolver failed.
GivesUpAfterTheLast ==
    result = "os_error" => tried = DOMAIN call.answer

\* However a call ends, every socket it opened is closed, except the one it
\* returns, and the one it had when an exception that is no OSError passed.
NoSocketLeftOpen ==
    open = IF \/ call.stage \in {"prepare", "connect", "peer"}
              \/ result \in {"socket", "other_error"}
           THEN 1 ELSE 0

\* "The parse-time DNS check and the connect-time guard ask the same question and
\* get the same answer" (policy.permits_address), and the check of the host's
\* spelling (is_ssrf_risk) agrees with them: a URL whose host is a literal and
\* which its policy accepted is never refused for the address the literal names.
AcceptedLiteralIsPermitted ==
    /\ call.mode = "addresses"
    /\ call.policy = url.policy
    /\ IsLiteral(call.host)
    /\ call.answer = <<ResolveHostToIp(call.host)>>
    => result # "ssrf_risk"
=============================================================================
