--------------------------- MODULE EgressGuard_proofs ---------------------------
(***************************************************************************)
(* What create_guarded_connection and resolve_and_validate let through,    *)
(* for every table of addresses, every policy and every answer: proofs     *)
(* that EgressGuard keeps its socket count, tries every vetted address,    *)
(* and never lets through what a denied rule or the metadata rule forbids. *)
(***************************************************************************)
EXTENDS EgressGuard, TLAPS

Loop == {"socket", "prepare", "connect", "peer"}

\* Where the call is, told by what it has done so far.  Past the judgement the
\* host was not refused and every entry of the answer is permitted; the entries
\* tried are those up to the one the loop is at; the socket that was returned
\* has a permitted peer.
Progress ==
    /\ call.stage \in {"resolve", "judge"} \cup Loop => result = "none"
    /\ call.stage \in {"resolve", "judge"} => tried = {} /\ ~HostIsRefused(call.policy, call.host)
    /\ call.stage = "resolve" => call.answer = <<>>
    /\ call.stage = "judge" => call.answer # <<>>
    /\ result \in {"no_socket", "other_error"} => tried # {}
    /\ call.stage \in Loop \/ tried # {} \/ result \in {"addresses", "socket"} =>
          Vetted(call) /\ ~HostIsRefused(call.policy, call.host)
    /\ call.stage \in Loop => call.i \in DOMAIN call.answer
    /\ call.stage = "socket" => tried = 1..(call.i - 1)
    /\ call.stage \in Loop \ {"socket"} => tried = 1..call.i
    /\ tried \subseteq DOMAIN call.answer
    /\ result = "socket" => call.peer \in Addresses /\ Permitted(call, call.peer)

IInv ==
    /\ TypeOK
    /\ Progress
    /\ NoSocketLeftOpen
    /\ GivesUpAfterTheLast

-----------------------------------------------------------------------------
\* An address the policy permits carries nothing a denied rule covers.
LEMMA PermittedNotDenied ==
    ASSUME NEW policy, NEW ip, NEW byName, PermitsAddress(policy, ip, byName)
    PROVE  \A network \in policy.denied_addresses.networks : WithEmbedded(ip) \cap network = {}
BY DEF PermitsAddress, MatchesIp, InNetworks

\* An address the policy permits is a metadata endpoint only by a network rule,
\* or where enforcement is off.
LEMMA PermittedMetadata ==
    ASSUME NEW policy, NEW ip \in Addresses, NEW byName, PermitsAddress(policy, ip, byName),
           IsMetadataAddress(ip), policy.enforce_ssrf
    PROVE  \E network \in policy.allowed_addresses.networks : WithEmbedded(ip) \cap network # {}
<1>1. ~IsPermittedPrivateIp(ip)
  BY DEF IsPermittedPrivateIp
<1>2. ~IsIpSafe(ip)
  <2>1. PICK candidate \in WithEmbedded(ip) : "metadata" \in Facts[candidate]
    BY DEF IsMetadataAddress
  <2>2. candidate \in Addresses
    BY <2>1, AddressAssumption DEF AddressAssumption, WithEmbedded
  <2>3. "non_public" \in Facts[candidate]
    BY <2>1, <2>2, AddressAssumption DEF AddressAssumption
  <2>4. ~Routable(candidate)
    BY <2>3 DEF Routable
  <2> QED
    BY <2>1, <2>4 DEF IsIpSafe
<1>3. MatchesIp(policy.allowed_addresses, ip)
  BY <1>1, <1>2 DEF PermitsAddress
<1> QED
  BY <1>3 DEF MatchesIp, InNetworks

-----------------------------------------------------------------------------
LEMMA InitIInv == Init => IInv
BY DEF Init, IInv, Progress, NoSocketLeftOpen, GivesUpAfterTheLast, TypeOK, AllPolicies,
   Endings, Call, Idle, NoUrl, Stages, Loop

\* A step that only moves the stage, or the stage and one other field, keeps the
\* record's type and its other fields.
LEMMA StageOnly ==
    ASSUME NEW c \in Call, NEW s \in Stages
    PROVE  LET d == [c EXCEPT !.stage = s]
           IN  d \in Call /\ d.stage = s /\ d.mode = c.mode /\ d.host = c.host
               /\ d.policy = c.policy /\ d.answer = c.answer /\ d.i = c.i /\ d.peer = c.peer
BY DEF Call

\* The locals a call begins with.
Fresh(mode, host, policy) == [Idle EXCEPT !.mode = mode, !.host = host, !.policy = policy]

\* They are of the right type, with no answer yet.
LEMMA FreshCall ==
    ASSUME NEW mode \in {"addresses", "connect"}, NEW host \in Hosts \cup {NoAddress},
           NEW policy \in AllPolicies
    PROVE  LET c == Fresh(mode, host, policy)
           IN  c \in Call /\ c.stage = "idle" /\ c.answer = <<>> /\ c.host = host /\ c.policy = policy
BY DEF Fresh, Idle, Call, Stages

\* What is known of the entries of the answer rests on three fields.
LEMMA SameAnswer ==
    ASSUME NEW c, NEW d, d.host = c.host, d.policy = c.policy, d.answer = c.answer
    PROVE  /\ Vetted(d) <=> Vetted(c)
           /\ HostIsRefused(d.policy, d.host) <=> HostIsRefused(c.policy, c.host)
           /\ \A ip : Permitted(d, ip) <=> Permitted(c, ip)
BY DEF Vetted, Permitted

\* The steps that end a call or move it to another stage with the same entry.
LEMMA StageStep ==
    ASSUME IInv, NEW s \in Stages, call' = [call EXCEPT !.stage = s]
    PROVE  /\ call' \in Call /\ call'.stage = s
           /\ call'.answer = call.answer /\ call'.i = call.i /\ call'.peer = call.peer
           /\ Vetted(call') <=> Vetted(call)
           /\ HostIsRefused(call'.policy, call'.host) <=> HostIsRefused(call.policy, call.host)
           /\ \A ip : Permitted(call', ip) <=> Permitted(call, ip)
<1>1. call \in Call
  BY DEF IInv, TypeOK
<1>2. /\ call' \in Call /\ call'.stage = s
      /\ call'.answer = call.answer /\ call'.i = call.i /\ call'.peer = call.peer
      /\ call'.host = call.host /\ call'.policy = call.policy
  BY <1>1, StageOnly
<1> QED
  BY <1>2, SameAnswer

\* Every step keeps the invariant.
LEMMA NextIInv == IInv /\ [Next]_vars => IInv'
<1> SUFFICES ASSUME IInv, [Next]_vars PROVE IInv'
  OBVIOUS
<1> USE DEF IInv, Progress, NoSocketLeftOpen, GivesUpAfterTheLast, Loop, TypeOK, Endings, Stages
<1>c. call \in Call
  OBVIOUS
<1>0. call.answer \in Seq(Addresses \cup {NoAddress})
  <2>1. call.answer \in Answers \cup {<<>>}
    BY <1>c DEF Call
  <2>2. <<>> \in Seq(Addresses \cup {NoAddress})
    OBVIOUS
  <2> QED
    BY <2>1, <2>2, EgressAssumption DEF EgressAssumption
<1>a. call.stage \in Stages /\ call.i \in Nat
  BY <1>c DEF Call
<1>b. DOMAIN call.answer = 1..Len(call.answer) /\ Len(call.answer) \in Nat
  BY <1>0
<1>1. ASSUME NEW h \in Hosts, NEW p \in Policies, ParseUrl(h, p) PROVE IInv'
  <2>1. Idle \in Call
    BY DEF Call, Idle, AllPolicies
  <2> QED
    BY <1>1, <2>1 DEF ParseUrl, Idle, AllPolicies
<1>2. ASSUME NEW mode \in {"addresses", "connect"}, NEW given \in Given, Begin(mode, given)
      PROVE IInv'
  <2> DEFINE effective == IF given = <<>> /\ mode = "addresses" THEN url.policy
                          ELSE ResolveSecurityPolicy(given)
             c == Fresh(mode, url.host, effective)
  <2>1. effective \in AllPolicies
    BY DEF AllPolicies
  <2>a. url.host \in Hosts \cup {NoAddress}
    OBVIOUS
  <2>2. c \in Call /\ c.stage = "idle" /\ c.answer = <<>> /\ c.host = url.host
        /\ c.policy = effective
    <3> HIDE DEF effective, IInv, TypeOK
    <3> QED
      BY <2>1, <2>a, FreshCall
  <2>3. open' = 0 /\ tried' = {} /\ url' = url
    BY <1>2 DEF Begin
  <2>4. CASE HostIsRefused(effective, url.host)
    <3>1. call' = c /\ result' = "ssrf_risk"
      BY <1>2, <2>4 DEF Begin, Fresh
    <3> HIDE DEF c, effective
    <3> QED
      BY <3>1, <2>2, <2>3
  <2>5. CASE ~HostIsRefused(effective, url.host)
    <3>1. call' = [c EXCEPT !.stage = "resolve"] /\ result' = "none"
      BY <1>2, <2>5 DEF Begin, Fresh
    <3> HIDE DEF c, effective
    <3>2. call' \in Call /\ call'.stage = "resolve" /\ call'.answer = <<>>
          /\ call'.host = url.host /\ call'.policy = effective
      BY <3>1, <2>2, StageOnly
    <3> QED
      BY <3>1, <3>2, <2>3, <2>5
  <2> QED
    BY <2>4, <2>5
<1>3. ASSUME NEW a \in Answers, ResolverAnswers(a) PROVE IInv'
  <2>1. CASE a = <<>>
    <3>1. call' = [call EXCEPT !.stage = "idle"] /\ result' = "dns_failed"
      BY <1>3, <2>1 DEF ResolverAnswers, Finish
    <3> QED
      BY <3>1, <1>3, <1>a, StageStep DEF ResolverAnswers
  <2>2. CASE a # <<>>
    <3>1. call' = [call EXCEPT !.stage = "judge", !.answer = a] /\ UNCHANGED result
      BY <1>3, <2>2 DEF ResolverAnswers
    <3>2. call' \in Call /\ call'.stage = "judge" /\ call'.host = call.host
          /\ call'.policy = call.policy /\ call'.answer = a
      BY <3>1, <1>c DEF Call
    <3>3. call.stage = "resolve" /\ UNCHANGED <<url, tried, open>>
      BY <1>3 DEF ResolverAnswers
    <3>4. result' = "none" /\ tried' = {} /\ open' = 0 /\ ~HostIsRefused(call'.policy, call'.host)
      BY <3>1, <3>2, <3>3
    <3> QED
      BY <3>2, <3>3, <3>4, <2>2
  <2> QED
    BY <2>1, <2>2
<1>4. ASSUME NEW e \in {"dns_failed", "os_error"}, ResolverFails(e) PROVE IInv'
  <2>1. call' = [call EXCEPT !.stage = "idle"] /\ result' = e
    BY <1>4 DEF ResolverFails, Finish
  <2>2. DOMAIN call.answer = {}
    BY <1>4 DEF ResolverFails
  <2> QED
    BY <2>1, <2>2, <1>4, <1>a, StageStep DEF ResolverFails
<1>5. ASSUME JudgeAnswer PROVE IInv'
  <2>1. CASE ~Vetted(call)
    <3>1. call' = [call EXCEPT !.stage = "idle"] /\ result' = "ssrf_risk"
      BY <1>5, <2>1 DEF JudgeAnswer, Finish
    <3> QED
      BY <3>1, <1>5, <1>a, StageStep DEF JudgeAnswer
  <2>2. CASE Vetted(call) /\ call.mode = "addresses"
    <3>1. call' = [call EXCEPT !.stage = "idle"] /\ result' = "addresses"
      BY <1>5, <2>2 DEF JudgeAnswer, Finish
    <3> QED
      BY <3>1, <2>2, <1>5, <1>a, StageStep DEF JudgeAnswer
  <2>3. CASE Vetted(call) /\ call.mode # "addresses"
    <3>1. call' = [call EXCEPT !.stage = "socket", !.i = 1] /\ UNCHANGED result
      BY <1>5, <2>3 DEF JudgeAnswer
    <3>2. call' \in Call /\ call'.stage = "socket" /\ call'.i = 1 /\ call'.host = call.host
          /\ call'.policy = call.policy /\ call'.answer = call.answer
      BY <3>1 DEF Call
    <3>3. 1 \in DOMAIN call.answer
      BY <1>0, <1>b, <1>5 DEF JudgeAnswer
    <3>4. Vetted(call') /\ ~HostIsRefused(call'.policy, call'.host)
      BY <2>3, <3>2, <1>5, SameAnswer DEF JudgeAnswer
    <3> QED
      BY <3>1, <3>2, <3>3, <3>4, <1>5, <1>a DEF JudgeAnswer
  <2> QED
    BY <2>1, <2>2, <2>3
<1>6. ASSUME OpenSocket PROVE IInv'
  <2>1. call' = [call EXCEPT !.stage = "prepare"]
    BY <1>6 DEF OpenSocket, Advance
  <2>2. tried' = 1..call.i
    <3>1. tried' = (1..(call.i - 1)) \cup {call.i} /\ call.i \in 1..Len(call.answer)
      BY <1>6, <1>b DEF OpenSocket
    <3> QED
      BY <3>1, <1>a, <1>b
  <2> QED
    BY <2>1, <2>2, <1>6, <1>a, <1>0, StageStep DEF OpenSocket, Advance
<1>7. ASSUME PrepareSocket PROVE IInv'
  BY <1>7, <1>a, StageStep DEF PrepareSocket, Advance
<1>8. ASSUME Connect PROVE IInv'
  BY <1>8, <1>a, StageStep DEF Connect, Advance
<1>9. ASSUME NEW p \in Peers, CheckPeer(p) PROVE IInv'
  <2>1. call' = [call EXCEPT !.stage = "idle", !.peer = p] /\ p \in Addresses
    BY <1>9 DEF CheckPeer
  <2>2. call' \in Call /\ call'.stage = "idle" /\ call'.peer = p /\ call'.host = call.host
        /\ call'.policy = call.policy /\ call'.answer = call.answer
    BY <2>1 DEF Call
  <2>3. /\ Vetted(call') <=> Vetted(call)
        /\ HostIsRefused(call'.policy, call'.host) <=> HostIsRefused(call.policy, call.host)
        /\ \A ip : Permitted(call', ip) <=> Permitted(call, ip)
    BY <2>2, SameAnswer
  <2> QED
    BY <2>1, <2>2, <2>3, <1>9, <1>a DEF CheckPeer
<1>10. ASSUME AttemptFails PROVE IInv'
  <2>1. tried' = 1..call.i /\ open' = 0 /\ UNCHANGED url
    BY <1>10, <1>a DEF AttemptFails
  <2>2. CASE call.i < Len(call.answer)
    <3>1. call' = [call EXCEPT !.stage = "socket", !.i = call.i + 1] /\ UNCHANGED result
      BY <1>10, <2>2 DEF AttemptFails
    <3> DEFINE next == call.i + 1
    <3>a. next \in Nat /\ call' = [call EXCEPT !.stage = "socket", !.i = next]
      BY <3>1, <1>a
    <3> HIDE DEF next
    <3>2. call' \in Call /\ call'.stage = "socket" /\ call'.i = next
          /\ call'.host = call.host /\ call'.policy = call.policy /\ call'.answer = call.answer
      BY <3>a, <1>c DEF Call
    <3> USE DEF next
    <3>3. call.i + 1 \in DOMAIN call.answer /\ 1..call.i \subseteq DOMAIN call.answer
      BY <2>2, <1>0, <1>a
    <3>4. Vetted(call') /\ ~HostIsRefused(call'.policy, call'.host)
      BY <3>2, <1>10, SameAnswer DEF AttemptFails
    <3> QED
      BY <2>1, <3>1, <3>2, <3>3, <3>4, <1>10, <1>a DEF AttemptFails
  <2>3. CASE ~(call.i < Len(call.answer))
    <3>1. call' = [call EXCEPT !.stage = "idle"] /\ result' = "os_error"
      BY <1>10, <2>3 DEF AttemptFails, Finish
    <3>2. 1..call.i = DOMAIN call.answer
      BY <2>3, <1>0, <1>a, <1>10 DEF AttemptFails
    <3> QED
      BY <2>1, <3>1, <3>2, <1>10, <1>a, StageStep DEF AttemptFails
  <2> QED
    BY <2>2, <2>3
<1>11. ASSUME AttemptRaises PROVE IInv'
  <2>1. call.i \in tried
    BY <1>11, <1>a, <1>b DEF AttemptRaises
  <2> QED
    BY <2>1, <1>11, <1>a, StageStep DEF AttemptRaises, Finish
<1>12. ASSUME SocketRaises PROVE IInv'
  <2>1. call' = [call EXCEPT !.stage = "idle"] /\ result' = "no_socket"
    BY <1>12 DEF SocketRaises, Finish
  <2>2. tried' = 1..call.i
    <3>1. tried' = (1..(call.i - 1)) \cup {call.i} /\ call.i \in 1..Len(call.answer)
      BY <1>12, <1>b DEF SocketRaises
    <3> QED
      BY <3>1, <1>a, <1>b
  <2> QED
    BY <2>1, <2>2, <1>12, <1>a, <1>0, StageStep DEF SocketRaises
<1>13. ASSUME UNCHANGED vars PROVE IInv'
  BY <1>13 DEF vars, Vetted, Permitted
<1> QED
  BY <1>1, <1>2, <1>3, <1>4, <1>5, <1>6, <1>7, <1>8, <1>9, <1>10, <1>11, <1>12, <1>13 DEF Next

THEOREM InvariantHolds == Spec => []IInv
BY InitIInv, NextIInv, PTL DEF Spec

\* Types, as a consequence.
THEOREM TypeCorrect == Spec => []TypeOK
<1>1. IInv => TypeOK
  BY DEF IInv
<1> QED
  BY <1>1, InvariantHolds, PTL

\* What was let through was permitted under the call's own policy.
LEMMA LetThroughPermitted ==
    ASSUME IInv, NEW ip \in LetThrough
    PROVE  ip \in Addresses /\ Permitted(call, ip) /\ ~HostIsRefused(call.policy, call.host)
BY DEF IInv, Progress, LetThrough, Entry, Vetted

-----------------------------------------------------------------------------
\* No address a denied rule covers, bare or embedded, and nothing of a denied
\* host, is ever let through, whatever else the policy allows.
THEOREM DeniedNeverLetThroughHolds == Spec => []DeniedNeverLetThrough
<1>1. IInv => DeniedNeverLetThrough
  BY LetThroughPermitted, PermittedNotDenied DEF DeniedNeverLetThrough, HostIsRefused, Permitted
<1> QED
  BY <1>1, InvariantHolds, PTL

\* A metadata endpoint is let through only by a network rule or without enforcement.
THEOREM MetadataNeedsNetworkRuleHolds == Spec => []MetadataNeedsNetworkRule
<1>1. IInv => MetadataNeedsNetworkRule
  BY LetThroughPermitted, PermittedMetadata DEF MetadataNeedsNetworkRule, Permitted
<1> QED
  BY <1>1, InvariantHolds, PTL

\* One inadmissible entry of an answer keeps every socket closed.
THEOREM WholeAnswerVettedHolds == Spec => []WholeAnswerVetted
<1>1. IInv => WholeAnswerVetted
  <2> SUFFICES ASSUME IInv, open > 0 \/ tried # {} \/ result = "addresses",
                      NEW k \in DOMAIN call.answer
               PROVE  Entry(k) # NoAddress /\ Permitted(call, Entry(k))
    BY DEF WholeAnswerVetted
  <2>1. call.stage \in Loop \/ tried # {} \/ result \in {"addresses", "socket"}
    BY DEF IInv, Progress, NoSocketLeftOpen, Loop
  <2>2. Vetted(call)
    BY <2>1 DEF IInv, Progress
  <2> QED
    BY <2>2, AddressAssumption DEF Vetted, Entry, AddressAssumption
<1> QED
  BY <1>1, InvariantHolds, PTL

\* However a call ends, the sockets it opened are accounted for.
THEOREM NoSocketLeftOpenHolds == Spec => []NoSocketLeftOpen
<1>1. IInv => NoSocketLeftOpen
  BY DEF IInv
<1> QED
  BY <1>1, InvariantHolds, PTL

\* A call reports a network failure only after its last vetted address.
THEOREM GivesUpAfterTheLastHolds == Spec => []GivesUpAfterTheLast
<1>1. IInv => GivesUpAfterTheLast
  BY DEF IInv
<1> QED
  BY <1>1, InvariantHolds, PTL
-----------------------------------------------------------------------------
\* A host that spells an address and is not refused is one whose address is
\* permitted: the check of the spelling and the check of the address agree.
LEMMA LiteralPermitted ==
    ASSUME NEW policy, NEW host, ResolveHostToIp(host) \in Addresses, ~HostIsRefused(policy, host)
    PROVE  PermitsAddress(policy, ResolveHostToIp(host), HostIsAllowed(policy, host))
<1> DEFINE ip == ResolveHostToIp(host)
<1>1. IsLiteral(host) /\ ip \in Info(host).readings
  <2>1. host \in DOMAIN HostInfo
    BY AddressAssumption DEF AddressAssumption, ResolveHostToIp, Info
  <2> QED
    BY <2>1, AddressAssumption DEF AddressAssumption, ResolveHostToIp, Info, IsLiteral
<1>2. \A list : MatchesHost(list, host) <=> MatchesIp(list, ip)
  BY <1>1 DEF MatchesHost
<1>3. ~MatchesIp(policy.denied_addresses, ip)
  BY <1>2 DEF HostIsRefused, HostIsDenied
<1>4. CASE ~policy.enforce_ssrf \/ MatchesIp(policy.allowed_addresses, ip)
  BY <1>3, <1>4 DEF PermitsAddress
<1>5. CASE policy.enforce_ssrf /\ ~MatchesIp(policy.allowed_addresses, ip)
  <2>1. ~IsSsrfRisk(host, policy.allow_private_hosts)
    BY <1>2, <1>5 DEF HostIsRefused, HostIsSsrfRisk
  <2>2. \/ IsIpSafe(ip)
        \/ policy.allow_private_hosts /\ IsPermittedPrivateIp(ip)
    BY <1>1, <2>1 DEF IsSsrfRisk, IsPermittedPrivateHost
  <2>3. ~HostIsAllowed(policy, host)
    BY <1>2, <1>5 DEF HostIsAllowed
  <2> QED
    BY <1>3, <2>2, <2>3 DEF PermitsAddress
<1> QED
  BY <1>4, <1>5

\* The URL in use was not refused, and a call is about its host; sockets are made
\* in connect mode alone, so what an address call refuses, it refuses for the
\* host or for an entry of the answer.
Accepted ==
    /\ url # NoUrl => ~HostIsRefused(url.policy, url.host)
    /\ call.stage # "idle" \/ result # "none" => url # NoUrl /\ call.host = url.host
    /\ call.stage \in Loop => call.mode = "connect"
    /\ result = "ssrf_risk" /\ call.mode = "addresses" =>
          \/ HostIsRefused(call.policy, call.host)
          \/ ~Vetted(call)

\* The invariant that says so is inductive beside the types.
LEMMA NextAccepted == IInv /\ Accepted /\ [Next]_vars => Accepted'
<1> SUFFICES ASSUME IInv, Accepted, [Next]_vars PROVE Accepted'
  OBVIOUS
<1>c. call \in Call
  BY DEF IInv, TypeOK
<1>a. ASSUME NEW s \in Stages, call' = [call EXCEPT !.stage = s]
      PROVE  /\ call'.stage = s /\ call'.mode = call.mode /\ call'.host = call.host
             /\ call'.policy = call.policy /\ (Vetted(call') <=> Vetted(call))
  <2>1. call'.stage = s /\ call'.mode = call.mode /\ call'.host = call.host
        /\ call'.policy = call.policy /\ call'.answer = call.answer
    BY <1>a, <1>c, StageOnly
  <2> QED
    BY <2>1, SameAnswer
<1>1. ASSUME NEW h \in Hosts, NEW p \in Policies, ParseUrl(h, p) PROVE Accepted'
  BY <1>1 DEF ParseUrl, Accepted, Idle, Loop
<1>2. ASSUME NEW mode \in {"addresses", "connect"}, NEW given \in Given, Begin(mode, given)
      PROVE Accepted'
  <2> DEFINE effective == IF given = <<>> /\ mode = "addresses" THEN url.policy
                          ELSE ResolveSecurityPolicy(given)
             c == Fresh(mode, url.host, effective)
  <2>1. effective \in AllPolicies
    BY DEF AllPolicies, IInv, TypeOK
  <2>2. url.host \in Hosts \cup {NoAddress}
    BY DEF IInv, TypeOK
  <2>3. c \in Call /\ c.stage = "idle" /\ c.host = url.host /\ c.policy = effective
    <3> HIDE DEF effective
    <3> QED
      BY <2>1, <2>2, FreshCall
  <2>4. url' = url /\ url # NoUrl
    BY <1>2 DEF Begin
  <2>5. CASE HostIsRefused(effective, url.host)
    <3>1. call' = c /\ result' = "ssrf_risk"
      BY <1>2, <2>5 DEF Begin, Fresh
    <3> HIDE DEF c, effective
    <3> QED
      BY <3>1, <2>3, <2>4, <2>5 DEF Accepted, Loop
  <2>6. CASE ~HostIsRefused(effective, url.host)
    <3>1. call' = [c EXCEPT !.stage = "resolve"] /\ result' = "none"
      BY <1>2, <2>6 DEF Begin, Fresh
    <3> HIDE DEF c, effective
    <3>2. call'.stage = "resolve" /\ call'.host = url.host
      BY <3>1, <2>3, StageOnly DEF Stages
    <3> QED
      BY <3>1, <3>2, <2>4 DEF Accepted, Loop
  <2> QED
    BY <2>5, <2>6
<1>3. ASSUME NEW a \in Answers, ResolverAnswers(a) PROVE Accepted'
  <2>1. CASE a = <<>>
    <3>1. call' = [call EXCEPT !.stage = "idle"] /\ result' = "dns_failed" /\ url' = url
      BY <1>3, <2>1 DEF ResolverAnswers, Finish
    <3> QED
      BY <3>1, <1>3, <1>a DEF ResolverAnswers, Accepted, Loop, Stages
  <2>2. CASE a # <<>>
    <3>1. call' = [call EXCEPT !.stage = "judge", !.answer = a] /\ result' = result /\ url' = url
      BY <1>3, <2>2 DEF ResolverAnswers
    <3>2. call'.stage = "judge" /\ call'.host = call.host
      BY <3>1, <1>c DEF Call
    <3>3. result = "none"
      BY <1>3 DEF ResolverAnswers, IInv, Progress
    <3> QED
      BY <3>1, <3>2, <3>3, <1>3 DEF ResolverAnswers, Accepted, Loop
  <2> QED
    BY <2>1, <2>2
<1>4. ASSUME NEW e \in {"dns_failed", "os_error"}, ResolverFails(e) PROVE Accepted'
  <2>1. call' = [call EXCEPT !.stage = "idle"] /\ result' = e /\ url' = url
    BY <1>4 DEF ResolverFails, Finish
  <2> QED
    BY <2>1, <1>4, <1>a DEF ResolverFails, Accepted, Loop, Stages
<1>5. ASSUME JudgeAnswer PROVE Accepted'
  <2>1. CASE ~Vetted(call)
    <3>1. call' = [call EXCEPT !.stage = "idle"] /\ result' = "ssrf_risk" /\ url' = url
      BY <1>5, <2>1 DEF JudgeAnswer, Finish
    <3> QED
      BY <3>1, <2>1, <1>5, <1>a DEF JudgeAnswer, Accepted, Loop, Stages
  <2>2. CASE Vetted(call) /\ call.mode = "addresses"
    <3>1. call' = [call EXCEPT !.stage = "idle"] /\ result' = "addresses" /\ url' = url
      BY <1>5, <2>2 DEF JudgeAnswer, Finish
    <3> QED
      BY <3>1, <1>5, <1>a DEF JudgeAnswer, Accepted, Loop, Stages
  <2>3. CASE Vetted(call) /\ call.mode # "addresses"
    <3>1. call' = [call EXCEPT !.stage = "socket", !.i = 1] /\ result' = result /\ url' = url
      BY <1>5, <2>3 DEF JudgeAnswer
    <3>2. call'.stage = "socket" /\ call'.mode = call.mode /\ call'.host = call.host
      BY <3>1, <1>c DEF Call
    <3>3. call.mode = "connect"
      BY <2>3, <1>c DEF Call
    <3> QED
      BY <3>1, <3>2, <3>3, <1>5 DEF JudgeAnswer, Accepted
  <2> QED
    BY <2>1, <2>2, <2>3
<1>6. ASSUME call.stage \in Loop, url' = url, call'.mode = call.mode, call'.host = call.host
      PROVE Accepted'
  BY <1>6 DEF Accepted, Loop
<1>7. ASSUME NEW s \in Stages, call.stage \in Loop, url' = url, call' = [call EXCEPT !.stage = s]
      PROVE Accepted'
  BY <1>7, <1>a, <1>6
<1>8. CASE OpenSocket \/ PrepareSocket \/ Connect \/ SocketRaises \/ AttemptRaises
  BY <1>8, <1>7
     DEF OpenSocket, PrepareSocket, Connect, SocketRaises, AttemptRaises, Advance, Finish, Loop, Stages
<1>9. ASSUME NEW p \in Peers, CheckPeer(p) PROVE Accepted'
  <2>1. call' = [call EXCEPT !.stage = "idle", !.peer = p]
    BY <1>9 DEF CheckPeer
  <2>2. call'.mode = call.mode /\ call'.host = call.host
    BY <2>1, <1>c DEF Call
  <2> QED
    BY <2>2, <1>9, <1>6 DEF CheckPeer, Loop
<1>10. CASE AttemptFails
  <2>1. \/ call' = [call EXCEPT !.stage = "idle"]
        \/ call' = [call EXCEPT !.stage = "socket", !.i = @ + 1]
    BY <1>10 DEF AttemptFails, Finish
  <2>2. call'.mode = call.mode /\ call'.host = call.host
    BY <2>1, <1>c DEF Call
  <2> QED
    BY <2>2, <1>10, <1>6 DEF AttemptFails, Loop
<1>11. CASE UNCHANGED vars
  BY <1>11 DEF vars, Accepted, Vetted, Permitted
<1> QED
  BY <1>1, <1>2, <1>3, <1>4, <1>5, <1>8, <1>9, <1>10, <1>11 DEF Next

\* A URL whose host is a literal and which its policy accepted is not refused
\* for the address the literal names: what parsing let through, connecting does.
THEOREM AcceptedLiteralIsPermittedHolds == Spec => []AcceptedLiteralIsPermitted
<1>1. Init => Accepted
  BY DEF Init, Accepted, Idle, Loop
<1>2. IInv /\ Accepted => AcceptedLiteralIsPermitted
  <2> SUFFICES ASSUME IInv, Accepted, call.mode = "addresses", call.policy = url.policy,
                      IsLiteral(call.host), call.answer = <<ResolveHostToIp(call.host)>>,
                      result = "ssrf_risk"
               PROVE  FALSE
    BY DEF AcceptedLiteralIsPermitted
  <2>1. ~HostIsRefused(call.policy, call.host)
    BY DEF Accepted
  <2>2. ResolveHostToIp(call.host) \in Addresses
    BY AddressAssumption DEF AddressAssumption, ResolveHostToIp, IsLiteral, Info
  <2>3. Vetted(call)
    BY <2>1, <2>2, LiteralPermitted DEF Vetted, Permitted
  <2> QED
    BY <2>1, <2>3 DEF Accepted
<1> QED
  BY <1>1, <1>2, NextAccepted, InvariantHolds, PTL DEF Spec
=============================================================================
