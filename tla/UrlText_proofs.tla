---------------------------- MODULE UrlText_proofs ----------------------------
(***************************************************************************)
(* What the parser's text operators do to every text: the loop of          *)
(* remove_dot_segments leaves no dot segment, and normalize_path hands it  *)
(* paths in which no dot is escaped; a query that is serialised is parsed  *)
(* back; the string that the builder spells of a URL is split where it was *)
(* joined, and its parts are read as they were; parameters come out of     *)
(* sorting in one order, whichever they were in.  A fact about every turn  *)
(* of a loop is proved by induction on the set of the numbers it holds of. *)
(***************************************************************************)
EXTENDS UrlText, SequenceTheorems, WellFoundedInduction, TLAPS

\* A set of naturals has a least one.
LEMMA LeastNatural ==
    ASSUME NEW T, T \subseteq Nat, T # {}
    PROVE  \E m \in T : \A n \in T : m <= n
<1> DEFINE R == OpToRel(<, Nat)
<1>1. IsWellFoundedOn(R, Nat)
  BY NatLessThanWellFounded
<1>2. \A m, n \in Nat : m < n => <<m, n>> \in R
  BY DEF OpToRel
<1> HIDE DEF R
<1>3. PICK m \in T : \A n \in T : <<n, m>> \notin R
  BY <1>1, WFMin, Zenon
<1>4. \A n \in T : ~(n < m)
  BY <1>2, <1>3
<1>5. \A n \in T : m <= n
  BY <1>4
<1> QED BY <1>5

\* Induction: a set with 0 and with the successor of each of its numbers has them all.
LEMMA SetInduction ==
    ASSUME NEW S, 0 \in S, \A n \in Nat : n \in S => n + 1 \in S
    PROVE  Nat \subseteq S
<1> SUFFICES ASSUME Nat \ S # {} PROVE FALSE
  OBVIOUS
<1>1. PICK m \in Nat \ S : \A n \in Nat \ S : m <= n
  BY LeastNatural
<1>2. m # 0 /\ m - 1 \in Nat
  BY <1>1
<1>3. m - 1 \in S
  BY <1>1, <1>2
<1>4. m - 1 + 1 \in S
  BY <1>2, <1>3
<1> QED BY <1>4, <1>1

-----------------------------------------------------------------------------
(***************************************************************************)
(* Cutting and flattening                                                  *)
(***************************************************************************)

\* Index is 0 or the first place of one of the tokens.
LEMMA IndexIsFirst ==
    ASSUME NEW T, NEW text \in Seq(T), NEW tokens
    PROVE  LET i == Index(text, tokens)
           IN  /\ i \in 0..Len(text)
               /\ i # 0 => text[i] \in tokens
               /\ \A j \in 1..Len(text) : text[j] \in tokens => i # 0 /\ i <= j
<1> DEFINE P == {i \in DOMAIN text : text[i] \in tokens}
<1>1. CASE HoldsAny(text, tokens)
  <2>1. P \subseteq Nat /\ P \subseteq 1..Len(text)
    OBVIOUS
  <2>2. P # {}
    BY <1>1 DEF HoldsAny
  <2>3. Index(text, tokens) = Min(P)
    BY <1>1 DEF Index
  <2> HIDE DEF P
  <2>4. PICK m \in P : \A n \in P : m <= n
    BY <2>1, <2>2, LeastNatural
  <2>5. Min(P) \in P /\ \A n \in P : Min(P) <= n
    BY <2>4 DEF Min
  <2>6. Index(text, tokens) \in P /\ \A n \in P : Index(text, tokens) <= n
    BY <2>3, <2>5
  <2> QED BY <2>6 DEF P
<1>2. CASE ~HoldsAny(text, tokens)
  <2>1. Index(text, tokens) = 0 /\ \A j \in 1..Len(text) : text[j] \notin tokens
    BY <1>2 DEF Index, HoldsAny
  <2> QED BY <2>1
<1> QED BY <1>1, <1>2

\* From is the rest of a text, from a place on.
LEMMA FromIs ==
    ASSUME NEW T, NEW text \in Seq(T), NEW i \in 1..(Len(text) + 1)
    PROVE  /\ From(text, i) \in Seq(T) /\ Len(From(text, i)) = Len(text) + 1 - i
           /\ \A j \in 1..(Len(text) + 1 - i) : From(text, i)[j] = text[j + i - 1]
BY DEF From

\* Upto is a text up to a place, or all of it at 0.
LEMMA UptoIs ==
    ASSUME NEW T, NEW text \in Seq(T), NEW i \in 0..Len(text)
    PROVE  /\ Upto(text, i) \in Seq(T)
           /\ i = 0 => Upto(text, i) = text
           /\ i # 0 => /\ Len(Upto(text, i)) = i - 1
                       /\ \A j \in 1..(i - 1) : Upto(text, i)[j] = text[j]
<1>1. CASE i = 0
  BY <1>1 DEF Upto
<1>2. CASE i # 0
  <2>1. i - 1 \in 0..Len(text) /\ Upto(text, i) = SubSeq(text, 1, i - 1)
    BY <1>2 DEF Upto
  <2> QED BY <1>2, <2>1
<1> QED BY <1>1, <1>2

\* The function FlattenSeq chooses exists.
LEMMA FlattenDefined ==
    ASSUME NEW seqs, NEW k \in Nat
    PROVE  \E g : g = [i \in 1..k |-> IF i = 1 THEN seqs[i] ELSE g[i - 1] \o seqs[i]]
<1> DEFINE Is(g, n) == g = [i \in 1..n |-> IF i = 1 THEN seqs[i] ELSE g[i - 1] \o seqs[i]]
           S == {n \in Nat : \E g : Is(g, n)}
<1>1. 0 \in S
  <2>1. Is([i \in 1..0 |-> 0], 0)
    OBVIOUS
  <2> QED BY <2>1
<1>2. ASSUME NEW n \in Nat, n \in S PROVE n + 1 \in S
  <2>1. PICK g : Is(g, n)
    BY <1>2
  <2> DEFINE next == IF n = 0 THEN seqs[1] ELSE g[n] \o seqs[n + 1]
             h == [i \in 1..(n + 1) |-> IF i <= n THEN g[i] ELSE next]
  <2> HIDE DEF next
  <2>2. \A i \in 1..n : h[i] = g[i]
    OBVIOUS
  <2>3. h[n + 1] = next
    OBVIOUS
  <2> HIDE DEF h
  <2>4. ASSUME NEW i \in 1..(n + 1) PROVE h[i] = IF i = 1 THEN seqs[i] ELSE h[i - 1] \o seqs[i]
    <3>1. CASE i \in 1..n
      <4>1. g[i] = IF i = 1 THEN seqs[i] ELSE g[i - 1] \o seqs[i]
        BY <2>1, <3>1
      <4>2. h[i] = g[i] /\ (i # 1 => h[i - 1] = g[i - 1])
        BY <2>2, <3>1
      <4> QED BY <4>1, <4>2
    <3>2. CASE i = n + 1
      <4>1. n # 0 => h[n] = g[n]
        BY <2>2
      <4>2. n = 0 => next = seqs[1]
        BY DEF next
      <4>3. n # 0 => next = g[n] \o seqs[n + 1]
        BY DEF next
      <4>4. i - 1 = n
        BY <3>2
      <4>5. CASE n = 0
        BY <2>3, <3>2, <4>2, <4>5
      <4>6. CASE n # 0
        <5>1. h[i] = g[n] \o seqs[n + 1]
          BY <2>3, <3>2, <4>3, <4>6
        <5>2. h[i - 1] = g[n] /\ seqs[n + 1] = seqs[i] /\ i # 1
          BY <3>2, <4>1, <4>4, <4>6
        <5> QED BY <5>1, <5>2, Zenon
      <4> QED BY <4>5, <4>6
    <3>3. i \in 1..n \/ i = n + 1
      OBVIOUS
    <3> QED BY <3>1, <3>2, <3>3
  <2>5. h = [i \in 1..(n + 1) |-> h[i]]
    BY DEF h
  <2>6. Is(h, n + 1)
    BY <2>4, <2>5
  <2> HIDE DEF Is
  <2>7. n + 1 \in Nat
    OBVIOUS
  <2> QED BY <2>6, <2>7, Zenon
<1> HIDE DEF S
<1>3. k \in S
  BY <1>1, <1>2, SetInduction
<1> QED BY <1>3 DEF S

\* What holds of every segment, and of whatever it holds of with a segment appended,
\* holds of flattened segments.
LEMMA FlattenIn ==
    ASSUME NEW G, NEW Parts, NEW seqs \in Seq(Parts), seqs # <<>>, Parts \subseteq G,
           \A t \in G, s \in Parts : t \o s \in G
    PROVE  FlattenSeq(seqs) \in G
<1> DEFINE Is(g) == g = [i \in 1..Len(seqs) |-> IF i = 1 THEN seqs[i] ELSE g[i - 1] \o seqs[i]]
           flat == CHOOSE g : Is(g)
           S == {n \in Nat : n + 1 \in 1..Len(seqs) => flat[n + 1] \in G}
<1>0. Len(seqs) \in Nat
  OBVIOUS
<1>1. Is(flat)
  <2>1. \E g : Is(g)
    BY <1>0, FlattenDefined, Zenon
  <2> HIDE DEF Is
  <2> QED BY <2>1, Zenon
<1>2. FlattenSeq(seqs) = flat[Len(seqs)]
  BY DEF FlattenSeq
<1> HIDE DEF flat
<1>3. 0 \in S
  BY <1>1
<1>4. ASSUME NEW n \in Nat, n \in S PROVE n + 1 \in S
  <2> SUFFICES ASSUME n + 2 \in 1..Len(seqs) PROVE flat[n + 2] \in G
    OBVIOUS
  <2>1. flat[n + 1] \in G /\ seqs[n + 2] \in Parts
    BY <1>4
  <2> PICK m \in 1..Len(seqs) : m = n + 2
    OBVIOUS
  <2>2. flat[m] = IF m = 1 THEN seqs[m] ELSE flat[m - 1] \o seqs[m]
    BY <1>1
  <2>3. m # 1 /\ m - 1 = n + 1
    OBVIOUS
  <2>4. flat[m] = flat[m - 1] \o seqs[m]
    BY <2>2, <2>3, Zenon
  <2> QED BY <2>1, <2>3, <2>4
<1> HIDE DEF S
<1>5. Len(seqs) - 1 \in S
  BY <1>3, <1>4, SetInduction
<1> QED BY <1>2, <1>5 DEF S

-----------------------------------------------------------------------------
(***************************************************************************)
(* The loop of remove_dot_segments                                         *)
(***************************************************************************)

\* What remove_dot_segments moves to its output: a "/", then no "/", and no dot segment.
Segments(K) == {s \in Seq(K) : /\ s # <<>> /\ s[1] = "/" /\ \A j \in 2..Len(s) : s[j] # "/"
                               /\ s \notin {<<"/", ".">>, <<"/", ".", ".">>}}

\* What the loop cuts off: the leading token and what follows it up to the next "/".
LEMMA FirstSegment ==
    ASSUME NEW T, NEW x \in Seq(T), x # <<>>
    PROVE  LET s == <<x[1]>> \o Before(Tail(x), {"/"})
           IN  /\ s \in Seq(T) /\ Len(s) \in 1..Len(x)
               /\ \A j \in 1..Len(s) : s[j] = x[j]
               /\ \A j \in 2..Len(s) : s[j] # "/"
               /\ Len(s) < Len(x) => x[Len(s) + 1] = "/"
<1> DEFINE rest == Tail(x)
           body == Before(rest, {"/"})
           i == Index(rest, {"/"})
<1>1. rest \in Seq(T) /\ Len(rest) = Len(x) - 1 /\ \A j \in 1..Len(rest) : rest[j] = x[j + 1]
  OBVIOUS
<1> HIDE DEF rest
<1>2. /\ i \in 0..Len(rest)
      /\ i # 0 => rest[i] = "/"
      /\ \A j \in 1..Len(rest) : rest[j] = "/" => i # 0 /\ i <= j
  BY <1>1, IndexIsFirst
<1>3. body = Upto(rest, i)
  BY DEF Before
<1> HIDE DEF i, body
<1>4. Len(rest) \in Nat /\ Len(x) \in Nat /\ Len(rest) + 1 = Len(x)
  BY <1>1
<1>5. body \in Seq(T) /\ (i = 0 => body = rest)
      /\ (i # 0 => Len(body) = i - 1 /\ \A j \in 1..(i - 1) : body[j] = rest[j])
  BY <1>1, <1>2, <1>3, UptoIs
<1> DEFINE s == <<x[1]>> \o body
<1>6. s \in Seq(T) /\ Len(s) = Len(body) + 1 /\ s[1] = x[1] /\ \A j \in 2..Len(s) : s[j] = body[j - 1]
  BY <1>5
<1> HIDE DEF s
<1>7. Len(body) \in 0..Len(rest) /\ (i # 0 => Len(body) = i - 1) /\ \A j \in 1..Len(body) : body[j] = rest[j]
  <2>1. CASE i = 0
    BY <2>1, <1>4, <1>5
  <2>2. CASE i # 0
    BY <2>2, <1>2, <1>4, <1>5
  <2> QED BY <2>1, <2>2
<1>8. Len(s) \in 1..Len(x)
  BY <1>4, <1>6, <1>7
<1>9. ASSUME NEW j \in 2..Len(s) PROVE s[j] = x[j] /\ s[j] # "/"
  <2>1. PICK k \in 1..Len(body) : j = k + 1
    BY <1>6, <1>7
  <2>2. s[j] = rest[k] /\ k \in 1..Len(rest) /\ x[j] = rest[k]
    BY <1>1, <1>4, <1>6, <1>7, <2>1
  <2>3. rest[k] # "/"
    BY <1>2, <1>7, <2>1, <2>2
  <2> QED BY <2>2, <2>3
<1>10. ASSUME Len(s) < Len(x) PROVE x[Len(s) + 1] = "/"
  <2>1. i # 0 /\ Len(s) = i /\ i \in 1..Len(rest)
    BY <1>2, <1>4, <1>5, <1>6, <1>10
  <2> QED BY <1>1, <1>2, <2>1
<1>11. s = <<x[1]>> \o Before(Tail(x), {"/"})
  BY DEF s, body, rest
<1>12. \A j \in 1..Len(s) : s[j] = x[j]
  BY <1>6, <1>8, <1>9
<1> HIDE DEF body, rest
<1> QED BY <1>6, <1>8, <1>9, <1>10, <1>11, <1>12

\* Starts compares the first tokens; the lemmas below spell out prefixes of two to four.
LEMMA StartsIs ==
    ASSUME NEW T, NEW x \in Seq(T), NEW prefix \in Seq(T)
    PROVE  Starts(x, prefix) <=> Len(prefix) <= Len(x) /\ \A i \in 1..Len(prefix) : x[i] = prefix[i]
<1>1. CASE Len(prefix) <= Len(x)
  <2> DEFINE n == Len(prefix)
             part == SubSeq(x, 1, n)
  <2>1. n \in Nat /\ Len(x) \in Nat /\ n <= Len(x)
    BY <1>1
  <2>2. part \in Seq(T) /\ Len(part) = n /\ \A i \in 1..n : part[i] = x[i]
    BY <2>1
  <2>3. SubSeq(prefix, 1, n) = prefix
    BY SubSeqFull
  <2> HIDE DEF part
  <2>4. part = prefix <=> \A i \in 1..n : x[i] = prefix[i]
    BY <2>2, SeqEqual
  <2>5. Starts(x, prefix) <=> part = prefix
    BY <1>1, <2>3 DEF Starts, IsPrefix, part
  <2> QED BY <1>1, <2>4, <2>5
<1>2. CASE ~(Len(prefix) <= Len(x))
  BY <1>2 DEF Starts, IsPrefix
<1> QED BY <1>1, <1>2

\* A text starts with two tokens: they are its first two.
LEMMA StartsTwo ==
    ASSUME NEW T, NEW x \in Seq(T), NEW a \in T, NEW b \in T
    PROVE  Starts(x, <<a, b>>) <=> Len(x) >= 2 /\ x[1] = a /\ x[2] = b
<1> DEFINE prefix == <<a, b>>
<1>1. prefix \in Seq(T) /\ Len(prefix) = 2 /\ prefix[1] = a /\ prefix[2] = b
  OBVIOUS
<1> HIDE DEF prefix
<1>2. Starts(x, prefix) <=> Len(prefix) <= Len(x) /\ \A i \in 1..Len(prefix) : x[i] = prefix[i]
  BY <1>1, StartsIs, ZenonT(30)
<1>3. Starts(x, prefix) <=> Len(x) >= 2 /\ x[1] = a /\ x[2] = b
  BY <1>1, <1>2
<1> QED BY <1>3 DEF prefix

\* With three.
LEMMA StartsThree ==
    ASSUME NEW T, NEW x \in Seq(T), NEW a \in T, NEW b \in T, NEW c \in T
    PROVE  Starts(x, <<a, b, c>>) <=> Len(x) >= 3 /\ x[1] = a /\ x[2] = b /\ x[3] = c
<1> DEFINE prefix == <<a, b, c>>
<1>1. prefix \in Seq(T) /\ Len(prefix) = 3 /\ prefix[1] = a /\ prefix[2] = b /\ prefix[3] = c
  OBVIOUS
<1> HIDE DEF prefix
<1>2. Starts(x, prefix) <=> Len(prefix) <= Len(x) /\ \A i \in 1..Len(prefix) : x[i] = prefix[i]
  BY <1>1, StartsIs, ZenonT(30)
<1>3. Starts(x, prefix) <=> Len(x) >= 3 /\ x[1] = a /\ x[2] = b /\ x[3] = c
  BY <1>1, <1>2
<1> QED BY <1>3 DEF prefix

\* With four.
LEMMA StartsFour ==
    ASSUME NEW T, NEW x \in Seq(T), NEW a \in T, NEW b \in T, NEW c \in T, NEW d \in T
    PROVE  Starts(x, <<a, b, c, d>>) <=> Len(x) >= 4 /\ x[1] = a /\ x[2] = b /\ x[3] = c /\ x[4] = d
<1> DEFINE prefix == <<a, b, c, d>>
<1>1. prefix \in Seq(T) /\ Len(prefix) = 4 /\ prefix[1] = a /\ prefix[2] = b /\ prefix[3] = c /\ prefix[4] = d
  OBVIOUS
<1> HIDE DEF prefix
<1>2. Starts(x, prefix) <=> Len(prefix) <= Len(x) /\ \A i \in 1..Len(prefix) : x[i] = prefix[i]
  BY <1>1, StartsIs, ZenonT(30)
<1>3. Starts(x, prefix) <=> Len(x) >= 4 /\ x[1] = a /\ x[2] = b /\ x[3] = c /\ x[4] = d
  BY <1>1, <1>2
<1> QED BY <1>3 DEF prefix

\* The two buffers between two turns: at most so many tokens of the input are left, it
\* is empty or at a "/", and once it is empty something has been moved.
MovedOn(K, input, output, left) ==
    /\ input \in Seq(K) /\ Len(input) <= left
    /\ output \in Seq(Segments(K))
    /\ input = <<>> \/ input[1] = "/"
    /\ input = <<>> => output # <<>>

\* The states of the loop that may take so many more turns.
Buffers(K, left) == {b \in [input : Seq(K), output : Seq(Segments(K))] : MovedOn(K, b.input, b.output, left)}

\* A turn that removes no dot segment moves a segment that is none.
LEMMA SegmentMoves ==
    ASSUME NEW K, "/" \in K, "." \in K, NEW x \in Seq(K), x # <<>>, x[1] = "/",
           ~Starts(x, <<"/", ".", "/">>), x # <<"/", ".">>,
           ~Starts(x, <<"/", ".", ".", "/">>), x # <<"/", ".", ".">>
    PROVE  <<x[1]>> \o Before(Tail(x), {"/"}) \in Segments(K)
<1> DEFINE s == <<x[1]>> \o Before(Tail(x), {"/"})
<1>1. /\ s \in Seq(K) /\ Len(s) \in 1..Len(x)
      /\ \A j \in 1..Len(s) : s[j] = x[j]
      /\ \A j \in 2..Len(s) : s[j] # "/"
      /\ Len(s) < Len(x) => x[Len(s) + 1] = "/"
  BY FirstSegment
<1> HIDE DEF s
<1>2. s # <<>> /\ s[1] = "/"
  BY <1>1
<1>3. s # <<"/", ".">>
  <2> SUFFICES ASSUME s = <<"/", ".">> PROVE FALSE
    OBVIOUS
  <2>1. Len(s) = 2 /\ s[2] = "."
    OBVIOUS
  <2>2. x[1] = "/" /\ x[2] = "."
    BY <1>1, <2>1
  <2>3. CASE Len(x) = 2
    <3>1. x = <<x[1], x[2]>>
      BY <2>3
    <3> QED BY <2>2, <3>1
  <2>4. CASE Len(x) > 2
    <3>1. x[3] = "/"
      BY <1>1, <2>1, <2>4
    <3> QED BY <2>2, <2>4, <3>1, StartsThree
  <2> QED BY <1>1, <2>1, <2>3, <2>4
<1>4. s # <<"/", ".", ".">>
  <2> SUFFICES ASSUME s = <<"/", ".", ".">> PROVE FALSE
    OBVIOUS
  <2>1. Len(s) = 3 /\ s[2] = "." /\ s[3] = "."
    OBVIOUS
  <2>2. x[1] = "/" /\ x[2] = "." /\ x[3] = "."
    BY <1>1, <2>1
  <2>3. CASE Len(x) = 3
    <3>1. x = <<x[1], x[2], x[3]>>
      BY <2>3
    <3> QED BY <2>2, <3>1
  <2>4. CASE Len(x) > 3
    <3>1. x[4] = "/"
      BY <1>1, <2>1, <2>4
    <3> QED BY <2>2, <2>4, <3>1, StartsFour
  <2> QED BY <1>1, <2>1, <2>3, <2>4
<1>5. s \in Segments(K)
  BY <1>1, <1>2, <1>3, <1>4 DEF Segments
<1> QED BY <1>5 DEF s

\* Every turn takes a token off the input, at least, and keeps MovedOn.
LEMMA TurnMovesOn ==
    ASSUME NEW K, "/" \in K, "." \in K, NEW n \in Nat, NEW x \in Seq(K), NEW y \in Seq(Segments(K)), MovedOn(K, x, y, n + 1)
    PROVE  DotsTurn([input |-> x, output |-> y]) \in Buffers(K, n)
<1> DEFINE buffers == [input |-> x, output |-> y]
           popped == IF y = <<>> THEN <<>> ELSE Front(y)
           Turn(left, kept) == [input |-> left, output |-> kept]
           s == <<x[1]>> \o Before(Tail(x), {"/"})
           here == Starts(x, <<"/", ".", "/">>)
           up == Starts(x, <<"/", ".", ".", "/">>)
<1>1. /\ x \in Seq(K) /\ Len(x) <= n + 1 /\ y \in Seq(Segments(K))
      /\ x = <<>> \/ x[1] = "/"
      /\ x = <<>> => y # <<>>
  BY DEF MovedOn
<1>2. popped \in Seq(Segments(K))
  BY <1>1 DEF Front
<1>3. ASSUME NEW left \in Seq(K), NEW kept \in Seq(Segments(K)), Len(left) <= n,
             left = <<>> \/ left[1] = "/", left = <<>> => kept # <<>>
      PROVE  Turn(left, kept) \in Buffers(K, n)
  BY <1>3 DEF MovedOn, Buffers
<1>0. buffers.input = x /\ buffers.output = y
  OBVIOUS
<1>4. CASE x = <<>>
  <2> HIDE DEF buffers
  <2>0. x \notin {<<"/", ".">>, <<"/", ".", ".">>, <<".">>, <<".", ".">>} /\ Len(x) = 0
    BY <1>4
  <2>8. ~(Len(x) >= 2) /\ ~(Len(x) >= 3) /\ ~(Len(x) >= 4)
    BY <2>0
  <2>3. ~Starts(x, <<".", ".", "/">>) /\ ~Starts(x, <<".", "/">>)
    BY <2>8, StartsTwo, StartsThree
  <2>4. ~here
    BY <2>8, StartsThree
  <2>5. ~up
    BY <2>8, StartsFour
  <2>1. DotsTurn(buffers) = buffers
    BY <1>4, <1>0, <2>0, <2>3, <2>4, <2>5 DEF DotsTurn
  <2>6. Len(x) <= n
    BY <2>0
  <2>7. y # <<>>
    BY <1>1, <1>4
  <2>2. Turn(x, y) \in Buffers(K, n)
    <3> HIDE DEF Turn
    <3> QED BY <1>4, <1>3, <2>6, <2>7
  <2> QED BY <2>1, <2>2 DEF buffers
<1>5. CASE x # <<>>
  <2>1. /\ x[1] = "/" /\ Len(x) >= 1 /\ Len(x) \in Nat
        /\ ~Starts(x, <<".", ".", "/">>) /\ ~Starts(x, <<".", "/">>) /\ x \notin {<<".">>, <<".", ".">>}
    BY <1>1, <1>5, StartsTwo, StartsThree
  <2>2. here <=> Len(x) >= 3 /\ x[1] = "/" /\ x[2] = "." /\ x[3] = "/"
    BY <1>1, StartsThree
  <2>3. up <=> Len(x) >= 4 /\ x[1] = "/" /\ x[2] = "." /\ x[3] = "." /\ x[4] = "/"
    BY <1>1, StartsFour
  <2>4. x = <<"/", ".">> => ~here /\ ~up /\ x # <<"/", ".", ".">>
    BY <2>2, <2>3
  <2>5. x = <<"/", ".", ".">> => ~here /\ ~up
    BY <2>2, <2>3
  <2>6. here => ~up
    BY <2>2, <2>3
  <2>7. DotsTurn(buffers) = IF here THEN Turn(From(x, 3), y)
                            ELSE IF x = <<"/", ".">> THEN Turn(<<"/">>, y)
                            ELSE IF up THEN Turn(From(x, 4), popped)
                            ELSE IF x = <<"/", ".", ".">> THEN Turn(<<"/">>, popped)
                            ELSE Turn(From(x, Len(s) + 1), Append(y, s))
    <3> HIDE DEF buffers
    <3> QED BY <1>0, <1>5, <2>1, <2>4, <2>5, <2>6 DEF DotsTurn
  <2>13. /\ Len(x) >= 3 => From(x, 3) \in Seq(K) /\ Len(From(x, 3)) = Len(x) - 2 /\ From(x, 3)[1] = x[3]
         /\ Len(x) >= 4 => From(x, 4) \in Seq(K) /\ Len(From(x, 4)) = Len(x) - 3 /\ From(x, 4)[1] = x[4]
    BY <1>1, FromIs
  <2>14. ~here /\ x # <<"/", ".">> /\ ~up /\ x # <<"/", ".", ".">> => s \in Segments(K)
    BY <1>1, <1>5, <2>1, SegmentMoves
  <2>15. Len(s) \in 1..Len(x) /\ (Len(s) < Len(x) => x[Len(s) + 1] = "/")
    BY <1>1, <1>5, FirstSegment
  <2>16. <<"/">> \in Seq(K) /\ Len(<<"/">>) = 1 /\ <<"/">> # <<>> /\ <<"/">>[1] = "/"
    OBVIOUS
  <2>18. n \in Nat /\ Len(x) \in Nat
    OBVIOUS
  <2> HIDE DEF here, up, popped, s, buffers, Turn
  <2>19. x \in {<<"/", ".">>, <<"/", ".", ".">>} => Len(x) >= 2
    <3>1. Len(<<"/", ".">>) = 2 /\ Len(<<"/", ".", ".">>) = 3
      OBVIOUS
    <3>2. CASE x = <<"/", ".">>
      BY <3>1, <3>2
    <3>3. CASE x = <<"/", ".", ".">>
      BY <3>1, <3>3
    <3> QED BY <3>2, <3>3
  <2>17. x \in {<<"/", ".">>, <<"/", ".", ".">>} => 1 <= n
    BY <1>1, <2>18, <2>19
  <2>8. CASE here
    <3>1. From(x, 3) \in Seq(K) /\ Len(From(x, 3)) <= n /\ From(x, 3)[1] = "/" /\ From(x, 3) # <<>>
      BY <1>1, <2>2, <2>8, <2>13, <2>18
    <3> QED BY <1>1, <1>3, <2>7, <2>8, <3>1 DEF buffers
  <2>9. CASE x = <<"/", ".">>
    BY <1>1, <1>3, <2>4, <2>7, <2>9, <2>16, <2>17 DEF buffers
  <2>10. CASE up
    <3>1. From(x, 4) \in Seq(K) /\ Len(From(x, 4)) <= n /\ From(x, 4)[1] = "/" /\ From(x, 4) # <<>>
      BY <1>1, <2>3, <2>10, <2>13, <2>18
    <3> QED BY <1>2, <1>3, <2>4, <2>6, <2>7, <2>10, <3>1 DEF buffers
  <2>11. CASE x = <<"/", ".", ".">>
    BY <1>2, <1>3, <2>5, <2>7, <2>11, <2>16, <2>17 DEF buffers
  <2>12. CASE ~here /\ x # <<"/", ".">> /\ ~up /\ x # <<"/", ".", ".">>
    <3> DEFINE left == From(x, Len(s) + 1)
    <3>3. left \in Seq(K) /\ Len(left) = Len(x) - Len(s)
      BY <1>1, <2>15, <2>18, FromIs
    <3>4. left = <<>> \/ left[1] = "/"
      <4>1. CASE Len(s) < Len(x)
        <5>1. Len(s) + 1 \in 1..(Len(x) + 1) /\ 1 \in 1..(Len(x) + 1 - (Len(s) + 1))
          BY <4>1, <2>15, <2>18
        <5>2. left[1] = x[1 + (Len(s) + 1) - 1]
          BY <5>1, FromIs
        <5>3. 1 + (Len(s) + 1) - 1 = Len(s) + 1
          BY <2>15, <2>18
        <5> QED BY <4>1, <2>15, <5>2, <5>3
      <4>2. CASE ~(Len(s) < Len(x))
        <5>1. Len(left) = 0
          BY <4>2, <2>15, <2>18, <3>3
        <5> QED BY <3>3, <5>1
      <4> QED BY <4>1, <4>2
    <3>5. Append(y, s) \in Seq(Segments(K)) /\ Append(y, s) # <<>>
      BY <1>1, <2>12, <2>14
    <3> HIDE DEF left
    <3>6. DotsTurn(buffers) = Turn(left, Append(y, s))
      BY <2>7, <2>12 DEF left
    <3>7. Len(left) <= n
      BY <1>1, <2>15, <2>18, <3>3
    <3> QED BY <1>3, <3>3, <3>4, <3>5, <3>6, <3>7 DEF buffers
  <2> QED BY <2>8, <2>9, <2>10, <2>11, <2>12
<1> QED BY <1>4, <1>5

\* The function that RemoveDotSegments defines exists.
LEMMA AfterDefined ==
    ASSUME NEW first, NEW k \in Nat
    PROVE  \E g : g = [n \in 0..k |-> IF n = 0 THEN first ELSE DotsTurn(g[n - 1])]
<1> DEFINE Is(g, m) == g = [n \in 0..m |-> IF n = 0 THEN first ELSE DotsTurn(g[n - 1])]
           S == {m \in Nat : \E g : Is(g, m)}
<1>1. 0 \in S
  <2>1. Is([n \in 0..0 |-> first], 0)
    OBVIOUS
  <2> QED BY <2>1
<1>2. ASSUME NEW m \in Nat, m \in S PROVE m + 1 \in S
  <2>1. PICK g : Is(g, m)
    BY <1>2
  <2> DEFINE next == DotsTurn(g[m])
             h == [n \in 0..(m + 1) |-> IF n <= m THEN g[n] ELSE next]
  <2> HIDE DEF next
  <2>2. \A n \in 0..m : h[n] = g[n]
    OBVIOUS
  <2>3. h[m + 1] = next
    OBVIOUS
  <2> HIDE DEF h
  <2>4. ASSUME NEW n \in 0..(m + 1) PROVE h[n] = IF n = 0 THEN first ELSE DotsTurn(h[n - 1])
    <3>1. CASE n \in 0..m
      <4>1. g[n] = IF n = 0 THEN first ELSE DotsTurn(g[n - 1])
        BY <2>1, <3>1
      <4>2. h[n] = g[n] /\ (n # 0 => h[n - 1] = g[n - 1])
        BY <2>2, <3>1
      <4> QED BY <4>1, <4>2
    <3>2. CASE n = m + 1
      <4>1. n # 0 /\ h[n - 1] = g[m] /\ h[n] = next
        BY <2>2, <2>3, <3>2
      <4> QED BY <4>1, Zenon DEF next
    <3>3. n \in 0..m \/ n = m + 1
      OBVIOUS
    <3> QED BY <3>1, <3>2, <3>3
  <2>5. h = [n \in 0..(m + 1) |-> h[n]]
    BY DEF h
  <2>6. Is(h, m + 1)
    BY <2>4, <2>5
  <2> HIDE DEF Is
  <2>7. m + 1 \in Nat
    OBVIOUS
  <2> QED BY <2>6, <2>7, Zenon
<1> HIDE DEF S
<1>3. k \in S
  BY <1>1, <1>2, SetInduction
<1> QED BY <1>3 DEF S

\* After as many turns as the path has tokens nothing of it is left.
LEMMA TurnsMoveOn ==
    ASSUME NEW K, "/" \in K, "." \in K, NEW path \in Seq(K), path # <<>>, path[1] = "/"
    PROVE  \E output \in Seq(Segments(K)) : output # <<>> /\ RemoveDotSegments(path) = FlattenSeq(output)
<1> DEFINE k == Len(path)
           first == [input |-> path, output |-> <<>>]
           Is(g) == g = [n \in 0..k |-> IF n = 0 THEN first ELSE DotsTurn(g[n - 1])]
           after == CHOOSE g : Is(g)
           S == {n \in Nat : n \in 0..k => after[n] \in Buffers(K, k - n)}
<1>1. k \in Nat
  OBVIOUS
<1>2. Is(after)
  <2>1. \E g : Is(g)
    BY <1>1, AfterDefined, Zenon
  <2> HIDE DEF Is
  <2> QED BY <2>1, Zenon
<1>3. RemoveDotSegments(path) = FlattenSeq(after[k].output)
  BY DEF RemoveDotSegments
<1> HIDE DEF after
<1>4. 0 \in S
  <2>1. first \in Buffers(K, k)
    <3>1. MovedOn(K, path, <<>>, k)
      BY <1>1 DEF MovedOn
    <3>2. path \in Seq(K) /\ <<>> \in Seq(Segments(K))
      OBVIOUS
    <3>3. first.input = path /\ first.output = <<>> /\ first \in [input : Seq(K), output : Seq(Segments(K))]
      BY <3>2
    <3> HIDE DEF first
    <3> QED BY <3>1, <3>3 DEF Buffers
  <2>2. after[0] = first
    BY <1>1, <1>2
  <2> QED BY <1>1, <2>1, <2>2
<1>5. ASSUME NEW n \in Nat, n \in S PROVE n + 1 \in S
  <2> SUFFICES ASSUME n + 1 \in 0..k PROVE after[n + 1] \in Buffers(K, k - (n + 1))
    OBVIOUS
  <2> DEFINE x == after[n].input
             y == after[n].output
             left == k - (n + 1)
  <2>1. left \in Nat /\ left + 1 = k - n /\ n \in 0..k
    BY <1>1
  <2> HIDE DEF left
  <2>2. after[n] \in Buffers(K, left + 1)
    BY <1>5, <2>1
  <2>3. x \in Seq(K) /\ y \in Seq(Segments(K)) /\ MovedOn(K, x, y, left + 1) /\ after[n] = [input |-> x, output |-> y]
    BY <2>2 DEF Buffers
  <2>4. DotsTurn(after[n]) \in Buffers(K, left)
    <3> HIDE DEF x, y
    <3> QED BY <2>1, <2>3, TurnMovesOn
  <2>5. after[n + 1] = DotsTurn(after[n])
    <3>1. n + 1 # 0 /\ (n + 1) - 1 = n
      OBVIOUS
    <3>2. after[n + 1] = IF n + 1 = 0 THEN first ELSE DotsTurn(after[(n + 1) - 1])
      <4> HIDE DEF first
      <4> QED BY <1>2
    <3> QED BY <3>1, <3>2, Zenon
  <2> QED BY <2>4, <2>5 DEF left
<1> HIDE DEF S
<1>6. k \in S
  BY <1>1, <1>4, <1>5, SetInduction
<1>7. after[k] \in Buffers(K, 0)
  BY <1>1, <1>6 DEF S
<1>8. after[k].output \in Seq(Segments(K)) /\ after[k].output # <<>>
  <2>1. Len(after[k].input) <= 0 /\ after[k].input \in Seq(K)
    BY <1>7 DEF Buffers, MovedOn
  <2>2. after[k].input = <<>>
    <3> DEFINE input == after[k].input
    <3>1. input \in Seq(K) /\ Len(input) <= 0
      BY <2>1
    <3> HIDE DEF input
    <3>2. input = <<>>
      BY <3>1
    <3> QED BY <3>2 DEF input
  <2> QED BY <1>7, <2>2 DEF Buffers, MovedOn
<1> QED BY <1>3, <1>8

-----------------------------------------------------------------------------
(***************************************************************************)
(* What the loop returns                                                   *)
(***************************************************************************)

\* A path has a dot segment where one or two dots stand between two ends.
Ends(t, i) == i = 0 \/ i = Len(t) + 1 \/ t[i] = "/"
DotAt(t, i) == i \in 1..Len(t) /\ t[i] = "."
DotFree(t) ==
    \A i \in 1..Len(t) : Ends(t, i - 1) /\ DotAt(t, i) =>
        ~Ends(t, i + 1) /\ ~(DotAt(t, i + 1) /\ Ends(t, i + 2))
\* A rooted path with no dot segment.
Clean(K) == {t \in Seq(K) : t # <<>> /\ t[1] = "/" /\ DotFree(t)}

\* Each segment is such a path.
LEMMA SegmentIsClean ==
    ASSUME NEW K
    PROVE  Segments(K) \subseteq Clean(K)
<1> SUFFICES ASSUME NEW s \in Segments(K) PROVE s \in Clean(K)
  OBVIOUS
<1>1. /\ s \in Seq(K) /\ s # <<>> /\ s[1] = "/" /\ \A j \in 2..Len(s) : s[j] # "/"
      /\ s \notin {<<"/", ".">>, <<"/", ".", ".">>}
  BY DEF Segments
<1>2. ASSUME NEW i \in 1..Len(s), Ends(s, i - 1), DotAt(s, i)
      PROVE  ~Ends(s, i + 1) /\ ~(DotAt(s, i + 1) /\ Ends(s, i + 2))
  <2>1. i = 2 /\ s[2] = "."
    BY <1>1, <1>2 DEF Ends, DotAt
  <2>2. ASSUME Ends(s, i + 1) PROVE FALSE
    <3>3. Len(s) \in Nat /\ Len(s) >= 2
      BY <1>1, <2>1
    <3>4. Len(s) + 1 = 3 \/ s[3] = "/"
      BY <2>1, <2>2, <3>3 DEF Ends
    <3>5. Len(s) > 2 => 3 \in 2..Len(s)
      BY <3>3
    <3>6. Len(s) > 2 => s[3] # "/"
      BY <1>1, <3>5
    <3>7. ~(Len(s) > 2)
      BY <3>3, <3>4, <3>6
    <3>8. PICK n \in Nat : n = Len(s)
      BY <3>3
    <3>9. n = 2
      BY <3>3, <3>7, <3>8
    <3>1. Len(s) = 2
      BY <3>3, <3>8, <3>9
    <3>2. s = <<s[1], s[2]>>
      BY <1>1, <3>1
    <3> QED BY <1>1, <2>1, <3>2
  <2>3. ASSUME DotAt(s, i + 1), Ends(s, i + 2) PROVE FALSE
    <3>3. Len(s) \in Nat /\ Len(s) >= 3 /\ s[3] = "."
      BY <1>1, <2>1, <2>3 DEF DotAt
    <3>4. Len(s) + 1 = 4 \/ s[4] = "/"
      BY <2>1, <2>3, <3>3 DEF Ends
    <3>5. Len(s) > 3 => 4 \in 2..Len(s)
      BY <3>3
    <3>6. Len(s) > 3 => s[4] # "/"
      BY <1>1, <3>5
    <3>7. ~(Len(s) > 3)
      BY <3>3, <3>4, <3>6
    <3>8. PICK n \in Nat : n = Len(s)
      BY <3>3
    <3>9. n = 3
      BY <3>3, <3>7, <3>8
    <3>1. Len(s) = 3 /\ s[3] = "."
      BY <3>3, <3>8, <3>9
    <3>2. s = <<s[1], s[2], s[3]>>
      BY <1>1, <3>1
    <3> QED BY <1>1, <2>1, <3>1, <3>2
  <2> QED BY <2>2, <2>3
<1>3. DotFree(s)
  BY <1>2 DEF DotFree
<1> QED BY <1>1, <1>3 DEF Clean

\* A segment appended makes no dot segment: it starts with a "/".
LEMMA AppendIsClean ==
    ASSUME NEW K, "/" \in K, "." \in K, NEW t \in Clean(K), NEW s \in Segments(K)
    PROVE  t \o s \in Clean(K)
<1> DEFINE u == t \o s
           m == Len(t)
           n == Len(s)
<1>1. t \in Seq(K) /\ t # <<>> /\ t[1] = "/" /\ DotFree(t)
  BY DEF Clean
<1>2. s \in Seq(K) /\ s # <<>> /\ s[1] = "/" /\ DotFree(s) /\ \A j \in 2..n : s[j] # "/"
  BY SegmentIsClean DEF Segments, Clean
<1>3. m \in Nat /\ m >= 1 /\ n \in Nat /\ n >= 1
  BY <1>1, <1>2
<1>4. /\ u \in Seq(K) /\ Len(u) = m + n
      /\ \A j \in 1..m : u[j] = t[j]
      /\ \A j \in 1..n : u[m + j] = s[j]
  BY <1>1, <1>2
<1> HIDE DEF u, m, n
<1>5. u[m + 1] = "/" /\ u[1] = "/" /\ u # <<>>
  BY <1>1, <1>2, <1>3, <1>4
<1>6. ASSUME NEW i \in 1..Len(u), Ends(u, i - 1), DotAt(u, i),
             Ends(u, i + 1) \/ (DotAt(u, i + 1) /\ Ends(u, i + 2))
      PROVE  FALSE
  <2>1. CASE i <= m
    <3>1. i \in 1..m /\ DotAt(t, i)
      BY <1>3, <1>4, <1>6, <2>1 DEF DotAt, m
    <3>2. Ends(t, i - 1)
      BY <1>3, <1>4, <1>6, <3>1 DEF Ends
    <3>3. ASSUME Ends(u, i + 1) PROVE Ends(t, i + 1)
      BY <1>3, <1>4, <3>1, <3>3 DEF Ends, m
    <3>4. ASSUME DotAt(u, i + 1), Ends(u, i + 2) PROVE DotAt(t, i + 1) /\ Ends(t, i + 2)
      <4>1. i + 1 # m + 1
        BY <1>5, <3>4 DEF DotAt
      <4>2. i + 1 \in 1..m /\ DotAt(t, i + 1)
        BY <1>3, <1>4, <3>1, <3>4, <4>1 DEF DotAt, m
      <4>3. Ends(t, i + 2)
        BY <1>3, <1>4, <3>4, <4>2 DEF Ends, m
      <4> QED BY <4>2, <4>3
    <3> QED BY <1>1, <1>6, <3>1, <3>2, <3>3, <3>4 DEF DotFree, m
  <2>2. CASE i > m
    <3>1. PICK k \in 1..n : i = m + k
      BY <1>3, <1>4, <2>2
    <3>2. s[k] = "." /\ DotAt(s, k) /\ k # 1
      BY <1>2, <1>4, <1>6, <3>1 DEF DotAt, n
    <3>3. Ends(s, k - 1)
      <4>1. k - 1 \in 1..n /\ i - 1 = m + (k - 1)
        BY <1>3, <3>1, <3>2
      <4>2. u[m + (k - 1)] = s[k - 1]
        BY <1>4, <4>1
      <4>3. i - 1 # 0 /\ i - 1 # Len(u) + 1
        BY <1>3, <1>4, <4>1
      <4> QED BY <1>6, <4>1, <4>2, <4>3 DEF Ends
    <3>4. ASSUME NEW j \in 1..(n + 1), Ends(u, m + j) PROVE Ends(s, j)
      <4>1. CASE j = n + 1
        BY <4>1 DEF Ends, n
      <4>2. CASE j \in 1..n
        <5>1. u[m + j] = s[j] /\ m + j # 0 /\ m + j # Len(u) + 1
          BY <1>3, <1>4, <4>2
        <5> QED BY <3>4, <5>1 DEF Ends
      <4>3. j = n + 1 \/ j \in 1..n
        BY <1>3
      <4> QED BY <4>1, <4>2, <4>3
    <3>5. ASSUME Ends(u, i + 1) PROVE Ends(s, k + 1)
      <4>1. k + 1 \in 1..(n + 1) /\ i + 1 = m + (k + 1)
        BY <1>3, <3>1
      <4> QED BY <3>4, <3>5, <4>1
    <3>6. ASSUME DotAt(u, i + 1), Ends(u, i + 2) PROVE DotAt(s, k + 1) /\ Ends(s, k + 2)
      <4>1. k + 1 \in 1..n /\ i + 1 = m + (k + 1)
        BY <1>3, <1>4, <3>1, <3>6 DEF DotAt
      <4>2. k + 2 \in 1..(n + 1) /\ i + 2 = m + (k + 2)
        BY <1>3, <3>1, <4>1
      <4>3. DotAt(s, k + 1)
        BY <1>4, <3>6, <4>1 DEF DotAt, n
      <4> QED BY <3>4, <3>6, <4>2, <4>3
    <3> QED BY <1>2, <1>6, <3>1, <3>2, <3>3, <3>5, <3>6 DEF DotFree, n
  <2>3. i <= m \/ i > m
    BY <1>3, <1>4
  <2> QED BY <2>1, <2>2, <2>3
<1>7. DotFree(u)
  BY <1>6 DEF DotFree
<1>8. u \in Clean(K)
  BY <1>4, <1>5, <1>7 DEF Clean
<1> QED BY <1>8 DEF u

\* remove_dot_segments, of any rooted path whose dots are not escaped, is a rooted path
\* with no dot segment.
THEOREM RemovesDotSegments ==
    ASSUME NEW K, "/" \in K, "." \in K, NEW path \in Seq(K), path # <<>>, path[1] = "/"
    PROVE  RemoveDotSegments(path) \in Clean(K)
<1>1. PICK output \in Seq(Segments(K)) : output # <<>> /\ RemoveDotSegments(path) = FlattenSeq(output)
  BY TurnsMoveOn
<1> QED BY <1>1, FlattenIn, SegmentIsClean, AppendIsClean

\* normalize_dot_segments leaves no dot segment in a path that has no root, either: it
\* lends it one, and takes it away again.
LEMMA RootedIsClean ==
    ASSUME NEW K, "/" \in K, "." \in K, NEW path \in Seq(K)
    PROVE  LET p == NormalizeDotSegments(path)
           IN  p \in Seq(K) /\ DotFree(p)
<1> DEFINE p == NormalizeDotSegments(path)
<1>1. CASE path = <<>>
  <2>1. p = <<>> /\ <<>> \in Seq(K)
    BY <1>1 DEF NormalizeDotSegments
  <2>2. DotFree(<<>>)
    BY DEF DotFree
  <2> QED BY <2>1, <2>2
<1>2. CASE path # <<>> /\ path[1] = "/"
  <2>1. p = RemoveDotSegments(path)
    BY <1>2 DEF NormalizeDotSegments
  <2> QED BY <1>2, <2>1, RemovesDotSegments DEF Clean
<1>3. CASE path # <<>> /\ path[1] # "/"
  <2> DEFINE rooted == <<"/">> \o path
             whole == RemoveDotSegments(rooted)
  <2>1. rooted \in Seq(K) /\ rooted # <<>> /\ rooted[1] = "/"
    OBVIOUS
  <2>2. p = Tail(whole)
    BY <1>3 DEF NormalizeDotSegments
  <2> HIDE DEF rooted
  <2>3. whole \in Clean(K)
    BY <2>1, RemovesDotSegments
  <2> HIDE DEF whole, p
  <2>4. /\ whole \in Seq(K) /\ whole # <<>> /\ whole[1] = "/" /\ DotFree(whole)
        /\ Len(whole) \in Nat /\ Len(whole) >= 1
    BY <2>3 DEF Clean
  <2>5. p \in Seq(K) /\ Len(p) = Len(whole) - 1 /\ \A j \in 1..Len(p) : p[j] = whole[j + 1]
    BY <2>2, <2>4
  <2>6. ASSUME NEW j \in 0..(Len(p) + 1), Ends(p, j) PROVE Ends(whole, j + 1)
    BY <2>4, <2>5, <2>6 DEF Ends
  <2>7. ASSUME NEW j \in Nat, DotAt(p, j) PROVE DotAt(whole, j + 1)
    BY <2>4, <2>5, <2>7 DEF DotAt
  <2>8. ASSUME NEW i \in 1..Len(p), Ends(p, i - 1), DotAt(p, i),
               Ends(p, i + 1) \/ (DotAt(p, i + 1) /\ Ends(p, i + 2))
        PROVE  FALSE
    <3>1. i + 1 \in 1..Len(whole) /\ i \in Nat /\ i - 1 \in 0..(Len(p) + 1) /\ (i - 1) + 1 = (i + 1) - 1
      BY <2>4, <2>5
    <3>2. Ends(whole, (i + 1) - 1) /\ DotAt(whole, i + 1)
      BY <2>6, <2>7, <2>8, <3>1
    <3>3. ASSUME Ends(p, i + 1) PROVE Ends(whole, (i + 1) + 1)
      <4>1. i + 1 \in 0..(Len(p) + 1)
        BY <2>4, <2>5
      <4> QED BY <2>6, <3>3, <4>1
    <3>4. ASSUME DotAt(p, i + 1), Ends(p, i + 2) PROVE DotAt(whole, (i + 1) + 1) /\ Ends(whole, (i + 1) + 2)
      <4>1. i + 1 \in Nat /\ i + 2 \in 0..(Len(p) + 1) /\ (i + 2) + 1 = (i + 1) + 2
        BY <2>4, <2>5, <3>4 DEF DotAt
      <4>2. DotAt(whole, (i + 1) + 1)
        BY <2>7, <3>4, <4>1
      <4>3. Ends(whole, (i + 2) + 1)
        BY <2>6, <3>4, <4>1
      <4> QED BY <4>1, <4>2, <4>3
    <3> QED BY <2>4, <2>8, <3>1, <3>2, <3>3, <3>4 DEF DotFree
  <2>9. DotFree(p)
    BY <2>8 DEF DotFree
  <2> QED BY <2>5, <2>9 DEF p
<1> QED BY <1>1, <1>2, <1>3

-----------------------------------------------------------------------------
(***************************************************************************)
(* Escapes                                                                 *)
(***************************************************************************)

\* The tokens of a text whose escapes are normalised.
Kept == Token \ {"%2E", "%7E", "%2f"}

\* The SMT backend does not take the literal of a space: it is Space to the proofs.
LEMMA SpaceIsNoOther ==
    Space \notin {"/", "?", "#", ":", "@", "&", "=", "+", "~", ".", "%2F", "%2f", "%2E", "%7E"}
BY Zenon DEF Space

\* The characters the operators name are tokens, and no escapes.
LEMMA CharactersAreTokens ==
    /\ {"/", "?", "#", ":", "@", "&", "=", "+", "~", Space, "."} \subseteq Kept \ DOMAIN Decoded
    /\ "%2F" \in Kept
BY EscapesAssumption, UnreservedAssumption, SpaceIsNoOther DEF Kept, Delimiters

\* normalize_percent_encoding, of one token.
Normal(token) == IF token = "%2f" THEN "%2F" ELSE IF token \in {"%2E", "%7E"} THEN Decoded[token] ELSE token

\* It makes no delimiter, and a token stands for the same character as before.
LEMMA NormalToken ==
    ASSUME NEW token
    PROVE  /\ token \in Token => Normal(token) \in Kept
           /\ token \notin {"%2E", "%7E", "%2f"} => Normal(token) = token
           /\ Normal(token) \in {token, "%2F", ".", "~"}
           /\ Normal(token) = token \/ token \in {"%2E", "%7E", "%2f"}
           /\ \A char \in {"/", "?", "#", ":", "@", "&", "=", "+", Space} : Normal(token) = char <=> token = char
BY EscapesAssumption, UnreservedAssumption, CharactersAreTokens, SpaceIsNoOther DEF Normal, Kept

\* normalize_percent_encoding, token by token.
LEMMA EscapesNormalised ==
    ASSUME NEW T, NEW text \in Seq(T)
    PROVE  LET new == NormalizePercentEncoding(text)
           IN  /\ new = [i \in 1..Len(text) |-> Normal(text[i])]
               /\ Len(new) = Len(text)
               /\ \A i \in 1..Len(text) : new[i] = Normal(text[i])
               /\ text \in Seq(Token) => new \in Seq(Kept)
               /\ text \in Seq(Kept) => new = text
<1> DEFINE new == NormalizePercentEncoding(text)
<1>1. new = [i \in 1..Len(text) |-> Normal(text[i])]
  BY DEF NormalizePercentEncoding, Each, Normal
<1> HIDE DEF new
<1>2. Len(text) \in Nat
  OBVIOUS
<1>3. Len(new) = Len(text) /\ \A i \in 1..Len(text) : new[i] = Normal(text[i])
  BY <1>1, <1>2
<1>4. ASSUME text \in Seq(Token) PROVE new \in Seq(Kept)
  <2>1. \A i \in 1..Len(text) : Normal(text[i]) \in Kept
    BY <1>4, NormalToken
  <2> HIDE DEF Normal
  <2> QED BY <1>1, <1>2, <2>1
<1>5. ASSUME text \in Seq(Kept) PROVE new = text
  <2>1. \A i \in 1..Len(text) : Normal(text[i]) = text[i]
    BY <1>5, NormalToken DEF Kept
  <2> QED BY <1>1, <2>1
<1> QED BY <1>1, <1>3, <1>4, <1>5 DEF new

\* The absent value is no text, nor an exception,
LEMMA NoneIsNoText ==
    /\ None \notin Seq(Token) /\ Bad \notin Seq(Token) /\ None # Bad /\ None # <<>> /\ Bad # <<>>
<1>1. "None" \notin Token /\ "Error" \notin Token
  BY AlphabetAssumption
<1>2. None[1] = "None" /\ Len(None) = 1 /\ Bad[1] = "Error" /\ Len(Bad) = 1
  BY DEF None, Bad
<1>3. ASSUME NEW x \in Seq(Token), Len(x) = 1 PROVE x[1] \in Token
  BY <1>3
<1> HIDE DEF None, Bad
<1>4. None \notin Seq(Token) /\ Bad \notin Seq(Token)
  BY <1>1, <1>2, <1>3
<1>5. None # <<>> /\ Bad # <<>>
  BY <1>2
<1> QED BY <1>2, <1>4, <1>5

\* and has nothing to look for, to escape or to lower.
LEMMA NormalNone ==
    /\ NormalizePercentEncoding(None) = None /\ Lower(None) = None
    /\ \A tokens : tokens \subseteq Token => ~HoldsAny(None, tokens)
<1>1. DOMAIN None = 1..1 /\ None[1] = "None" /\ None = [i \in 1..1 |-> "None"] /\ None \in Seq({"None"}) /\ Len(None) = 1
  BY DEF None
<1>2. "None" \notin Token
  BY AlphabetAssumption
<1>3. "None" \notin DOMAIN LowerOf
  BY <1>2, NamesAssumption
<1> HIDE DEF None
<1>4. Lower(None) = None
  BY <1>1, <1>3 DEF Lower, Each
<1>5. NormalizePercentEncoding(None) = None
  <2>1. Normal("None") = "None"
    BY NormalToken
  <2>2. NormalizePercentEncoding(None) = [i \in 1..1 |-> Normal(None[i])]
    BY <1>1, EscapesNormalised, ZenonT(30)
  <2> HIDE DEF Normal
  <2> QED BY <1>1, <2>1, <2>2
<1>6. \A tokens : tokens \subseteq Token => ~HoldsAny(None, tokens)
  BY <1>1, <1>2 DEF HoldsAny
<1> QED BY <1>4, <1>5, <1>6

\* The escape of a character stands for it.
LEMMA EscapeStandsFor ==
    ASSUME NEW char, \E escape \in DOMAIN Decoded \ {"%2f"} : Decoded[escape] = char
    PROVE  EscapeOf(char) \in DOMAIN Decoded /\ Decoded[EscapeOf(char)] = char /\ EscapeOf(char) # "%2f"
BY Zenon DEF EscapeOf

\* percent_encode_component, token by token, of what has an escape: the characters that
\* are not safe are gone, and the escapes do not change what a text stands for.
Escaped(token, unsafe) == IF token \in unsafe THEN EscapeOf(token) ELSE token
\* quote changes single tokens, and none twice.
LEMMA EncodedIs ==
    ASSUME NEW text \in Seq(Token), NEW unsafe, unsafe \subseteq {"/", "?", "#", "@", Space}
    PROVE  LET new == Encode(text, unsafe)
           IN  /\ new \in Seq(Token) /\ Len(new) = Len(text)
               /\ \A i \in 1..Len(text) : new[i] = Escaped(text[i], unsafe)
               /\ \A i \in 1..Len(text) : new[i] = text[i] \/ (text[i] \in unsafe /\ new[i] \in DOMAIN Decoded)
               /\ ~HoldsAny(new, unsafe)
               /\ ~HoldsAny(text, unsafe) => new = text
<1> DEFINE new == Encode(text, unsafe)
<1>1. new = [i \in 1..Len(text) |-> Escaped(text[i], unsafe)]
  BY DEF Encode, Each, Escaped
<1> HIDE DEF new
<1>2. Len(text) \in Nat
  OBVIOUS
<1>3. ASSUME NEW token \in Token
      PROVE  /\ Escaped(token, unsafe) \in Token
             /\ Escaped(token, unsafe) = token \/ (token \in unsafe /\ Escaped(token, unsafe) \in DOMAIN Decoded)
             /\ Escaped(token, unsafe) \notin unsafe
  <2>1. CASE token \in unsafe
    <3>1. \E escape \in DOMAIN Decoded \ {"%2f"} : Decoded[escape] = token
      BY <2>1, EscapesAssumption
    <3>2. EscapeOf(token) \in DOMAIN Decoded
      BY <3>1, EscapeStandsFor
    <3>3. EscapeOf(token) \in Token \ {"/", "?", "#", "@", Space}
      BY <3>2, EscapesAssumption DEF Delimiters
    <3> QED BY <2>1, <3>2, <3>3 DEF Escaped
  <2>2. CASE token \notin unsafe
    BY <2>2 DEF Escaped
  <2> QED BY <2>1, <2>2
<1>4. /\ Len(new) = Len(text) /\ \A i \in 1..Len(text) : new[i] = Escaped(text[i], unsafe)
      /\ DOMAIN new = 1..Len(text)
  BY <1>1, <1>2
<1>5. \A i \in 1..Len(text) : text[i] \in Token
  OBVIOUS
<1> HIDE DEF Escaped
<1>6. new \in Seq(Token)
  BY <1>1, <1>2, <1>3, <1>5
<1>7. ~HoldsAny(new, unsafe)
  BY <1>3, <1>4, <1>5 DEF HoldsAny
<1>8. ASSUME ~HoldsAny(text, unsafe) PROVE new = text
  <2>1. \A i \in 1..Len(text) : Escaped(text[i], unsafe) = text[i]
    BY <1>8 DEF HoldsAny, Escaped
  <2> QED BY <1>1, <2>1
<1> QED BY <1>3, <1>4, <1>5, <1>6, <1>7, <1>8 DEF new

\* Delimiters that are escapes' characters or none survive normalisation where they are.
LEMMA NormalHolds ==
    ASSUME NEW T, NEW text \in Seq(T), NEW tokens,
           tokens \subseteq {"/", "?", "#", ":", "@", "&", "=", "+", Space}
    PROVE  HoldsAny(NormalizePercentEncoding(text), tokens) <=> HoldsAny(text, tokens)
<1> DEFINE new == NormalizePercentEncoding(text)
<1>1. Len(new) = Len(text) /\ \A i \in 1..Len(text) : new[i] = Normal(text[i])
  BY EscapesNormalised
<1>2. DOMAIN new = 1..Len(text) /\ DOMAIN text = 1..Len(text)
  BY EscapesNormalised
<1> HIDE DEF new
<1>3. \A i \in 1..Len(text) : Normal(text[i]) \in tokens <=> text[i] \in tokens
  BY NormalToken
<1>4. HoldsAny(new, tokens) <=> HoldsAny(text, tokens)
  BY <1>1, <1>2, <1>3 DEF HoldsAny
<1> QED BY <1>4 DEF new

-----------------------------------------------------------------------------
(***************************************************************************)
(* Loops over a sequence                                                   *)
(***************************************************************************)

\* Induction on texts: a set with the empty one, and with what each of its texts becomes
\* when a token is appended, has them all.
LEMMA AppendInduction ==
    ASSUME NEW T, NEW G, <<>> \in G, \A x \in Seq(T), t \in T : x \in G => Append(x, t) \in G
    PROVE  Seq(T) \subseteq G
<1> SUFFICES ASSUME NEW s \in Seq(T) PROVE s \in G
  OBVIOUS
<1> DEFINE S == {n \in Nat : n <= Len(s) => SubSeq(s, 1, n) \in G}
<1>0. Len(s) \in Nat
  OBVIOUS
<1>1. 0 \in S
  <2>1. SubSeq(s, 1, 0) = <<>>
    OBVIOUS
  <2> QED BY <2>1
<1>2. ASSUME NEW n \in Nat, n \in S PROVE n + 1 \in S
  <2> SUFFICES ASSUME n + 1 <= Len(s) PROVE SubSeq(s, 1, n + 1) \in G
    OBVIOUS
  <2> DEFINE x == SubSeq(s, 1, n)
             y == SubSeq(s, 1, n + 1)
             t == s[n + 1]
  <2>1. x \in Seq(T) /\ Len(x) = n /\ \A i \in 1..n : x[i] = s[i]
    BY <1>0
  <2>2. y \in Seq(T) /\ Len(y) = n + 1 /\ \A i \in 1..(n + 1) : y[i] = s[i]
    BY <1>0
  <2>3. t \in T
    BY <1>0
  <2>4. x \in G
    BY <1>0, <1>2
  <2> HIDE DEF x, y, t
  <2>5. Append(x, t) \in Seq(T) /\ Len(Append(x, t)) = n + 1 /\ Append(x, t)[n + 1] = t
        /\ \A i \in 1..n : Append(x, t)[i] = x[i]
    BY <2>1, <2>3
  <2>6. \A i \in 1..(n + 1) : Append(x, t)[i] = y[i]
    BY <2>1, <2>2, <2>5 DEF t
  <2>7. Append(x, t) = y
    BY <2>2, <2>5, <2>6, SeqEqual
  <2>8. y \in G
    BY <2>1, <2>3, <2>4, <2>7
  <2> QED BY <2>8 DEF y
<1> HIDE DEF S
<1>3. Len(s) \in S
  BY <1>0, <1>1, <1>2, SetInduction
<1>4. SubSeq(s, 1, Len(s)) \in G
  BY <1>0, <1>3 DEF S
<1>5. SubSeq(s, 1, Len(s)) = s
  BY SubSeqFull
<1> QED BY <1>4, <1>5

\* The function that Split defines exists.
Chunks(g, text, delimiter, k) ==
    g = [i \in 0..k |-> IF i = 0 THEN << <<>> >> ELSE Grown(g[i - 1], text[i], delimiter)]
\* The function by which Split is defined exists.
LEMMA ChunksDefined ==
    ASSUME NEW text, NEW delimiter, NEW k \in Nat
    PROVE  \E g : Chunks(g, text, delimiter, k)
<1> DEFINE S == {m \in Nat : \E g : Chunks(g, text, delimiter, m)}
<1>1. 0 \in S
  <2>1. Chunks([i \in 0..0 |-> << <<>> >>], text, delimiter, 0)
    BY DEF Chunks
  <2> QED BY <2>1
<1>2. ASSUME NEW m \in Nat, m \in S PROVE m + 1 \in S
  <2>1. PICK g : Chunks(g, text, delimiter, m)
    BY <1>2
  <2> DEFINE next == Grown(g[m], text[m + 1], delimiter)
             h == [i \in 0..(m + 1) |-> IF i <= m THEN g[i] ELSE next]
  <2> HIDE DEF next
  <2>2. \A i \in 0..m : h[i] = g[i]
    OBVIOUS
  <2>3. h[m + 1] = next
    OBVIOUS
  <2> HIDE DEF h
  <2>4. ASSUME NEW i \in 0..(m + 1)
        PROVE  h[i] = IF i = 0 THEN << <<>> >> ELSE Grown(h[i - 1], text[i], delimiter)
    <3>1. CASE i \in 0..m
      <4>1. g[i] = IF i = 0 THEN << <<>> >> ELSE Grown(g[i - 1], text[i], delimiter)
        BY <2>1, <3>1 DEF Chunks
      <4>2. h[i] = g[i] /\ (i # 0 => h[i - 1] = g[i - 1])
        BY <2>2, <3>1
      <4> QED BY <4>1, <4>2
    <3>2. CASE i = m + 1
      <4>1. i # 0 /\ h[i - 1] = g[m] /\ h[i] = next
        BY <2>2, <2>3, <3>2
      <4> QED BY <3>2, <4>1, Zenon DEF next
    <3>3. i \in 0..m \/ i = m + 1
      OBVIOUS
    <3> QED BY <3>1, <3>2, <3>3
  <2>5. h = [i \in 0..(m + 1) |-> h[i]]
    BY DEF h
  <2>6. Chunks(h, text, delimiter, m + 1)
    BY <2>4, <2>5 DEF Chunks
  <2>7. m + 1 \in Nat
    OBVIOUS
  <2> QED BY <2>6, <2>7, Zenon
<1> HIDE DEF S
<1>3. k \in S
  BY <1>1, <1>2, SetInduction
<1> QED BY <1>3 DEF S

\* Split is what the loop ends with.
LEMMA SplitChunks ==
    ASSUME NEW T, NEW text \in Seq(T), NEW delimiter
    PROVE  \E g : Chunks(g, text, delimiter, Len(text)) /\ Split(text, delimiter) = g[Len(text)]
<1> DEFINE after == CHOOSE g : Chunks(g, text, delimiter, Len(text))
<1>0. Len(text) \in Nat
  OBVIOUS
<1>1. \E g : Chunks(g, text, delimiter, Len(text))
  BY <1>0, ChunksDefined, Zenon
<1>2. Chunks(after, text, delimiter, Len(text))
  BY <1>1, Zenon
<1>3. Split(text, delimiter) = after[Len(text)]
  BY DEF Split, Chunks
<1> QED BY <1>2, <1>3, Zenon

\* Two loops over texts that agree up to a place agree up to it.
LEMMA ChunksAgree ==
    ASSUME NEW x, NEW y, NEW delimiter, NEW k \in Nat, NEW m \in Nat, k <= m,
           \A i \in 1..k : x[i] = y[i],
           NEW g, Chunks(g, x, delimiter, k), NEW h, Chunks(h, y, delimiter, m)
    PROVE  g[k] = h[k]
<1> DEFINE S == {n \in Nat : n <= k => g[n] = h[n]}
<1>1. 0 \in S
  BY DEF Chunks
<1>2. ASSUME NEW n \in Nat, n \in S PROVE n + 1 \in S
  <2> SUFFICES ASSUME n + 1 <= k PROVE g[n + 1] = h[n + 1]
    OBVIOUS
  <2>0. PICK j \in Nat : j = n + 1
    OBVIOUS
  <2>1. j \in 0..k /\ j \in 0..m /\ j # 0 /\ j - 1 = n /\ j \in 1..k
    BY <2>0
  <2>2. g[j] = Grown(g[n], x[j], delimiter)
    BY <2>1 DEF Chunks
  <2>3. h[j] = Grown(h[n], y[j], delimiter)
    BY <2>1 DEF Chunks
  <2>4. g[n] = h[n]
    BY <1>2
  <2>5. x[j] = y[j]
    BY <2>1
  <2>6. g[j] = h[j]
    BY <2>2, <2>3, <2>4, <2>5, Zenon
  <2> QED BY <2>0, <2>6
<1> HIDE DEF S
<1>3. k \in S
  BY <1>1, <1>2, SetInduction
<1> QED BY <1>3 DEF S

\* Split, one token at a time.
LEMMA SplitGrows ==
    ASSUME NEW T, NEW delimiter
    PROVE  /\ Split(<<>>, delimiter) = << <<>> >>
           /\ \A x \in Seq(T), t \in T :
                 Split(Append(x, t), delimiter) = Grown(Split(x, delimiter), t, delimiter)
<1>1. Split(<<>>, delimiter) = << <<>> >>
  <2>1. <<>> \in Seq(T) /\ Len(<<>>) = 0
    OBVIOUS
  <2>2. PICK g : Chunks(g, <<>>, delimiter, 0) /\ Split(<<>>, delimiter) = g[0]
    BY <2>1, SplitChunks
  <2> QED BY <2>2 DEF Chunks
<1>2. ASSUME NEW x \in Seq(T), NEW t \in T
      PROVE  Split(Append(x, t), delimiter) = Grown(Split(x, delimiter), t, delimiter)
  <2> DEFINE y == Append(x, t)
             k == Len(x)
  <2>1. y \in Seq(T) /\ Len(y) = k + 1 /\ y[k + 1] = t /\ k \in Nat /\ \A i \in 1..k : x[i] = y[i]
    OBVIOUS
  <2> HIDE DEF y
  <2>2. PICK g : Chunks(g, x, delimiter, k) /\ Split(x, delimiter) = g[k]
    BY SplitChunks
  <2>3. PICK h : Chunks(h, y, delimiter, k + 1) /\ Split(y, delimiter) = h[k + 1]
    BY <2>1, SplitChunks
  <2> HIDE DEF k
  <2>4. k + 1 \in Nat /\ k <= k + 1
    BY <2>1
  <2>5. g[k] = h[k]
    BY <2>1, <2>2, <2>3, <2>4, ChunksAgree
  <2>6. h[k + 1] = Grown(h[k], y[k + 1], delimiter)
    <3>1. PICK j \in Nat : j = k + 1
      BY <2>1
    <3>2. j \in 0..(k + 1) /\ j # 0 /\ j - 1 = k
      BY <2>1, <3>1
    <3>3. h[j] = Grown(h[j - 1], y[j], delimiter)
      BY <2>3, <3>2 DEF Chunks
    <3> QED BY <3>1, <3>2, <3>3
  <2> QED BY <2>1, <2>2, <2>3, <2>5, <2>6 DEF y
<1> QED BY <1>1, <1>2

\* The same for Without.
Keeping(g, text, dropped, k) ==
    g = [i \in 0..k |-> IF i = 0 THEN <<>> ELSE Taken(g[i - 1], text[i], dropped)]
\* The function by which Without is defined exists.
LEMMA KeepingDefined ==
    ASSUME NEW text, NEW dropped, NEW k \in Nat
    PROVE  \E g : Keeping(g, text, dropped, k)
<1> DEFINE S == {m \in Nat : \E g : Keeping(g, text, dropped, m)}
<1>1. 0 \in S
  <2>1. Keeping([i \in 0..0 |-> <<>>], text, dropped, 0)
    BY DEF Keeping
  <2> QED BY <2>1
<1>2. ASSUME NEW m \in Nat, m \in S PROVE m + 1 \in S
  <2>1. PICK g : Keeping(g, text, dropped, m)
    BY <1>2
  <2> DEFINE next == Taken(g[m], text[m + 1], dropped)
             h == [i \in 0..(m + 1) |-> IF i <= m THEN g[i] ELSE next]
  <2> HIDE DEF next
  <2>2. \A i \in 0..m : h[i] = g[i]
    OBVIOUS
  <2>3. h[m + 1] = next
    OBVIOUS
  <2> HIDE DEF h
  <2>4. ASSUME NEW i \in 0..(m + 1)
        PROVE  h[i] = IF i = 0 THEN <<>> ELSE Taken(h[i - 1], text[i], dropped)
    <3>1. CASE i \in 0..m
      <4>1. g[i] = IF i = 0 THEN <<>> ELSE Taken(g[i - 1], text[i], dropped)
        BY <2>1, <3>1 DEF Keeping
      <4>2. h[i] = g[i] /\ (i # 0 => h[i - 1] = g[i - 1])
        BY <2>2, <3>1
      <4> QED BY <4>1, <4>2
    <3>2. CASE i = m + 1
      <4>1. i # 0 /\ h[i - 1] = g[m] /\ h[i] = next
        BY <2>2, <2>3, <3>2
      <4> QED BY <3>2, <4>1, Zenon DEF next
    <3>3. i \in 0..m \/ i = m + 1
      OBVIOUS
    <3> QED BY <3>1, <3>2, <3>3
  <2>5. h = [i \in 0..(m + 1) |-> h[i]]
    BY DEF h
  <2>6. Keeping(h, text, dropped, m + 1)
    BY <2>4, <2>5 DEF Keeping
  <2>7. m + 1 \in Nat
    OBVIOUS
  <2> QED BY <2>6, <2>7, Zenon
<1> HIDE DEF S
<1>3. k \in S
  BY <1>1, <1>2, SetInduction
<1> QED BY <1>3 DEF S

\* Without is its last value.
LEMMA WithoutKeeping ==
    ASSUME NEW T, NEW text \in Seq(T), NEW dropped
    PROVE  \E g : Keeping(g, text, dropped, Len(text)) /\ Without(text, dropped) = g[Len(text)]
<1> DEFINE after == CHOOSE g : Keeping(g, text, dropped, Len(text))
<1>0. Len(text) \in Nat
  OBVIOUS
<1>1. \E g : Keeping(g, text, dropped, Len(text))
  BY <1>0, KeepingDefined, Zenon
<1>2. Keeping(after, text, dropped, Len(text))
  BY <1>1, Zenon
<1>3. Without(text, dropped) = after[Len(text)]
  BY DEF Without, Keeping
<1> QED BY <1>2, <1>3, Zenon

\* On equal beginnings of two sequences the functions agree.
LEMMA KeepingAgree ==
    ASSUME NEW x, NEW y, NEW dropped, NEW k \in Nat, NEW m \in Nat, k <= m,
           \A i \in 1..k : x[i] = y[i],
           NEW g, Keeping(g, x, dropped, k), NEW h, Keeping(h, y, dropped, m)
    PROVE  g[k] = h[k]
<1> DEFINE S == {n \in Nat : n <= k => g[n] = h[n]}
<1>1. 0 \in S
  BY DEF Keeping
<1>2. ASSUME NEW n \in Nat, n \in S PROVE n + 1 \in S
  <2> SUFFICES ASSUME n + 1 <= k PROVE g[n + 1] = h[n + 1]
    OBVIOUS
  <2>0. PICK j \in Nat : j = n + 1
    OBVIOUS
  <2>1. j \in 0..k /\ j \in 0..m /\ j # 0 /\ j - 1 = n /\ j \in 1..k
    BY <2>0
  <2>2. g[j] = Taken(g[n], x[j], dropped)
    BY <2>1 DEF Keeping
  <2>3. h[j] = Taken(h[n], y[j], dropped)
    BY <2>1 DEF Keeping
  <2>4. g[n] = h[n]
    BY <1>2
  <2>5. x[j] = y[j]
    BY <2>1
  <2>6. g[j] = h[j]
    BY <2>2, <2>3, <2>4, <2>5, Zenon
  <2> QED BY <2>0, <2>6
<1> HIDE DEF S
<1>3. k \in S
  BY <1>1, <1>2, SetInduction
<1> QED BY <1>3 DEF S

\* Without, one element at a time.
LEMMA WithoutTakes ==
    ASSUME NEW T, NEW dropped
    PROVE  /\ Without(<<>>, dropped) = <<>>
           /\ \A x \in Seq(T), t \in T :
                 Without(Append(x, t), dropped) = Taken(Without(x, dropped), t, dropped)
<1>1. Without(<<>>, dropped) = <<>>
  <2>1. <<>> \in Seq(T) /\ Len(<<>>) = 0
    OBVIOUS
  <2>2. PICK g : Keeping(g, <<>>, dropped, 0) /\ Without(<<>>, dropped) = g[0]
    BY <2>1, WithoutKeeping
  <2> QED BY <2>2 DEF Keeping
<1>2. ASSUME NEW x \in Seq(T), NEW t \in T
      PROVE  Without(Append(x, t), dropped) = Taken(Without(x, dropped), t, dropped)
  <2> DEFINE y == Append(x, t)
             k == Len(x)
  <2>1. y \in Seq(T) /\ Len(y) = k + 1 /\ y[k + 1] = t /\ k \in Nat /\ \A i \in 1..k : x[i] = y[i]
    OBVIOUS
  <2> HIDE DEF y
  <2>2. PICK g : Keeping(g, x, dropped, k) /\ Without(x, dropped) = g[k]
    BY WithoutKeeping
  <2>3. PICK h : Keeping(h, y, dropped, k + 1) /\ Without(y, dropped) = h[k + 1]
    BY <2>1, WithoutKeeping
  <2> HIDE DEF k
  <2>4. k + 1 \in Nat /\ k <= k + 1
    BY <2>1
  <2>5. g[k] = h[k]
    BY <2>1, <2>2, <2>3, <2>4, KeepingAgree
  <2>6. h[k + 1] = Taken(h[k], y[k + 1], dropped)
    <3>1. PICK j \in Nat : j = k + 1
      BY <2>1
    <3>2. j \in 0..(k + 1) /\ j # 0 /\ j - 1 = k
      BY <2>1, <3>1
    <3>3. h[j] = Taken(h[j - 1], y[j], dropped)
      BY <2>3, <3>2 DEF Keeping
    <3> QED BY <3>1, <3>2, <3>3
  <2> QED BY <2>1, <2>2, <2>3, <2>5, <2>6 DEF y
<1> QED BY <1>1, <1>2

-----------------------------------------------------------------------------
(***************************************************************************)
(* Queries                                                                 *)
(***************************************************************************)

\* Split makes texts, at least one.
LEMMA GrownIs ==
    ASSUME NEW T, NEW chunks \in Seq(Seq(T)), chunks # <<>>, NEW t \in T, NEW delimiter
    PROVE  LET new == Grown(chunks, t, delimiter)
               n == Len(chunks)
           IN  /\ new \in Seq(Seq(T)) /\ new # <<>>
               /\ t = delimiter => new = Append(chunks, <<>>)
               /\ t # delimiter => /\ Len(new) = n /\ new[n] = Append(chunks[n], t)
                                   /\ \A i \in 1..(n - 1) : new[i] = chunks[i]
<1> DEFINE new == Grown(chunks, t, delimiter)
           n == Len(chunks)
<1>1. n \in Nat /\ n >= 1 /\ n \in DOMAIN chunks /\ chunks[n] \in Seq(T)
  OBVIOUS
<1>2. CASE t = delimiter
  <2>1. new = Append(chunks, <<>>) /\ <<>> \in Seq(T)
    BY <1>2 DEF Grown
  <2> QED BY <1>2, <2>1
<1>3. CASE t # delimiter
  <2>1. new = [chunks EXCEPT ![n] = Append(chunks[n], t)]
    BY <1>3 DEF Grown
  <2>2. Append(chunks[n], t) \in Seq(T)
    BY <1>1
  <2> HIDE DEF new, n
  <2>3. new \in Seq(Seq(T)) /\ Len(new) = n /\ new[n] = Append(chunks[n], t)
        /\ \A i \in 1..(n - 1) : new[i] = chunks[i]
    BY <1>1, <2>1, <2>2 DEF n
  <2>4. new # <<>>
    BY <1>1, <2>3
  <2> QED BY <1>3, <2>3, <2>4 DEF new, n
<1> QED BY <1>2, <1>3

\* Split gives at least one chunk, of the tokens of the text.
LEMMA SplitIn ==
    ASSUME NEW T, NEW delimiter, NEW text \in Seq(T)
    PROVE  Split(text, delimiter) \in Seq(Seq(T)) /\ Split(text, delimiter) # <<>>
<1> DEFINE G == {x \in Seq(T) : Split(x, delimiter) \in Seq(Seq(T)) /\ Split(x, delimiter) # <<>>}
<1>1. <<>> \in G
  <2>1. <<>> \in Seq(T) /\ << <<>> >> \in Seq(Seq(T)) /\ << <<>> >> # <<>>
    OBVIOUS
  <2> QED BY <2>1, SplitGrows
<1>2. ASSUME NEW x \in Seq(T), NEW t \in T, x \in G PROVE Append(x, t) \in G
  <2>1. Split(Append(x, t), delimiter) = Grown(Split(x, delimiter), t, delimiter)
    BY SplitGrows
  <2>2. Append(x, t) \in Seq(T)
    OBVIOUS
  <2> QED BY <1>2, <2>1, <2>2, GrownIs
<1> HIDE DEF G
<1>3. Seq(T) \subseteq G
  BY <1>1, <1>2, AppendInduction
<1> QED BY <1>3 DEF G

\* Without keeps elements that are not dropped, and all of them when none is.
LEMMA WithoutIn ==
    ASSUME NEW T, NEW dropped, NEW elements \in Seq(T)
    PROVE  /\ Without(elements, dropped) \in Seq(T \ dropped)
           /\ T \cap dropped = {} => Without(elements, dropped) = elements
<1> DEFINE Good(x) == /\ Without(x, dropped) \in Seq(T \ dropped)
                      /\ T \cap dropped = {} => Without(x, dropped) = x
           G == {x \in Seq(T) : Good(x)}
<1>1. <<>> \in G
  <2>1. <<>> \in Seq(T) /\ <<>> \in Seq(T \ dropped)
    OBVIOUS
  <2> QED BY <2>1, WithoutTakes
<1>2. ASSUME NEW x \in Seq(T), NEW t \in T, x \in G PROVE Append(x, t) \in G
  <2>0. Without(Append(x, t), dropped) = Taken(Without(x, dropped), t, dropped)
    BY WithoutTakes
  <2>1. Without(Append(x, t), dropped) = IF t \in dropped THEN Without(x, dropped) ELSE Append(Without(x, dropped), t)
    BY <2>0 DEF Taken
  <2>2. Append(x, t) \in Seq(T)
    OBVIOUS
  <2>3. CASE t \in dropped
    BY <1>2, <2>1, <2>2, <2>3
  <2>4. CASE t \notin dropped
    <3>1. Append(Without(x, dropped), t) \in Seq(T \ dropped)
      BY <1>2, <2>4
    <3> QED BY <1>2, <2>1, <2>2, <2>4, <3>1
  <2> QED BY <2>3, <2>4
<1> HIDE DEF G
<1>3. Seq(T) \subseteq G
  BY <1>1, <1>2, AppendInduction
<1> QED BY <1>3 DEF G

\* Normalising commutes with appending, cutting,
LEMMA NormalAppend ==
    ASSUME NEW T, NEW x \in Seq(T), NEW t \in T
    PROVE  NormalizePercentEncoding(Append(x, t)) = Append(NormalizePercentEncoding(x), Normal(t))
<1> DEFINE y == Append(x, t)
           a == NormalizePercentEncoding(y)
           b == NormalizePercentEncoding(x)
           U == T \cup {Normal(u) : u \in T}
<1>1. y \in Seq(T) /\ Len(y) = Len(x) + 1 /\ y[Len(x) + 1] = t /\ \A i \in 1..Len(x) : y[i] = x[i]
  OBVIOUS
<1>2. Len(x) \in Nat
  OBVIOUS
<1> HIDE DEF y
<1>3. a = [i \in 1..Len(y) |-> Normal(y[i])] /\ b = [i \in 1..Len(x) |-> Normal(x[i])]
  BY <1>1, EscapesNormalised
<1> HIDE DEF Normal, a, b
<1>4. \A i \in 1..Len(x) : x[i] \in T
  OBVIOUS
<1>5. b \in Seq(U) /\ Len(b) = Len(x) /\ Normal(t) \in U
  BY <1>2, <1>3, <1>4
<1>6. a \in Seq(U) /\ Len(a) = Len(x) + 1
  BY <1>1, <1>2, <1>3
<1>7. ASSUME NEW i \in 1..(Len(x) + 1) PROVE a[i] = Append(b, Normal(t))[i]
  BY <1>1, <1>2, <1>3, <1>5
<1>8. Append(b, Normal(t)) \in Seq(U) /\ Len(Append(b, Normal(t))) = Len(x) + 1
  BY <1>5
<1> HIDE DEF U
<1>9. a = Append(b, Normal(t))
  BY <1>2, <1>6, <1>7, <1>8, SeqEqual
<1> QED BY <1>9 DEF a, b, y

\* Escapes are normalised before a cut as after it.
LEMMA NormalCut ==
    ASSUME NEW T, NEW x \in Seq(T), NEW tokens,
           tokens \subseteq {"/", "?", "#", ":", "@", "&", "=", "+", Space}
    PROVE  LET n == NormalizePercentEncoding(x)
           IN  /\ Index(n, tokens) = Index(x, tokens)
               /\ \A i \in 0..Len(x) : Upto(n, i) = NormalizePercentEncoding(Upto(x, i))
               /\ \A i \in 1..Len(x) : From(n, i + 1) = NormalizePercentEncoding(From(x, i + 1))
<1> DEFINE n == NormalizePercentEncoding(x)
           U == T \cup {Normal(u) : u \in T}
<1>1. n = [i \in 1..Len(x) |-> Normal(x[i])] /\ Len(n) = Len(x) /\ \A i \in 1..Len(x) : n[i] = Normal(x[i])
  BY EscapesNormalised
<1>2. Len(x) \in Nat /\ DOMAIN x = 1..Len(x) /\ DOMAIN n = 1..Len(x) /\ \A i \in 1..Len(x) : x[i] \in T
  BY <1>1
<1> HIDE DEF n
<1>3. n \in Seq(U)
  <2> HIDE DEF Normal
  <2> QED BY <1>1, <1>2
<1> HIDE DEF U
<1>7. PICK k \in Nat : k = Len(x)
  BY <1>2
<1>4. Index(n, tokens) = Index(x, tokens)
  <2>1. \A i \in 1..Len(x) : n[i] \in tokens <=> x[i] \in tokens
    BY <1>1, NormalToken
  <2>2. {i \in DOMAIN n : n[i] \in tokens} = {i \in DOMAIN x : x[i] \in tokens}
    BY <1>2, <2>1
  <2>3. HoldsAny(n, tokens) <=> HoldsAny(x, tokens)
    BY <1>2, <2>1 DEF HoldsAny
  <2> QED BY <2>2, <2>3, Zenon DEF Index
<1>5. ASSUME NEW i \in 0..Len(x) PROVE Upto(n, i) = NormalizePercentEncoding(Upto(x, i))
  <2> DEFINE u == Upto(x, i)
             v == Upto(n, i)
  <2>1. CASE i = 0
    BY <2>1 DEF Upto, n
  <2>2. CASE i # 0
    <3>1. u \in Seq(T) /\ Len(u) = i - 1 /\ \A j \in 1..(i - 1) : u[j] = x[j]
      BY <2>2, UptoIs
    <3>2. v \in Seq(U) /\ Len(v) = i - 1 /\ \A j \in 1..(i - 1) : v[j] = n[j]
      BY <1>1, <1>3, <2>2, UptoIs, ZenonT(30)
    <3> HIDE DEF u, v
    <3>3. v = [j \in 1..(i - 1) |-> v[j]]
      BY <3>2
    <3>4. ASSUME NEW j \in 1..(i - 1) PROVE v[j] = Normal(u[j])
      <4>1. j \in 1..Len(x)
        BY <1>7
      <4> HIDE DEF Normal
      <4> QED BY <1>1, <3>1, <3>2, <4>1
    <3>5. NormalizePercentEncoding(u) = [j \in 1..(i - 1) |-> Normal(u[j])]
      BY <3>1, EscapesNormalised
    <3>6. v = NormalizePercentEncoding(u)
      <4> HIDE DEF Normal
      <4> QED BY <3>3, <3>4, <3>5
    <3> QED BY <3>6 DEF u, v
  <2> QED BY <2>1, <2>2
<1>6. ASSUME NEW i \in 1..Len(x) PROVE From(n, i + 1) = NormalizePercentEncoding(From(x, i + 1))
  <2> DEFINE u == From(x, i + 1)
             v == From(n, i + 1)
             m == k - i
  <2>0. i + 1 \in 1..(Len(x) + 1) /\ m \in Nat /\ Len(x) + 1 - (i + 1) = m
    BY <1>7
  <2> HIDE DEF m
  <2>1. u \in Seq(T) /\ Len(u) = m /\ \A j \in 1..m : u[j] = x[j + (i + 1) - 1]
    BY <2>0, FromIs
  <2>7. i + 1 \in 1..(Len(n) + 1) /\ Len(n) + 1 - (i + 1) = m
    BY <1>1, <2>0
  <2>2. v \in Seq(U) /\ Len(v) = m /\ \A j \in 1..m : v[j] = n[j + (i + 1) - 1]
    BY <1>3, <2>7, FromIs
  <2> HIDE DEF u, v
  <2>3. v = [j \in 1..m |-> v[j]]
    BY <2>2
  <2>4. ASSUME NEW j \in 1..m PROVE v[j] = Normal(u[j])
    <3>1. j + (i + 1) - 1 \in 1..Len(x)
      BY <1>7 DEF m
    <3> QED BY <1>1, <2>1, <2>2, <3>1
  <2>5. NormalizePercentEncoding(u) = [j \in 1..m |-> Normal(u[j])]
    BY <2>1, EscapesNormalised
  <2>6. v = NormalizePercentEncoding(u)
    <3> HIDE DEF Normal
    <3> QED BY <2>3, <2>4, <2>5
  <2> QED BY <2>6 DEF u, v
<1> QED BY <1>4, <1>5, <1>6 DEF n

\* splitting at "&", and dropping the empty chunks.
NormalChunks(chunks) == [i \in 1..Len(chunks) |-> NormalizePercentEncoding(chunks[i])]
\* Chunk by chunk.
LEMMA NormalChunksIs ==
    ASSUME NEW chunks \in Seq(Seq(Token))
    PROVE  /\ NormalChunks(chunks) \in Seq(Seq(Kept)) /\ Len(NormalChunks(chunks)) = Len(chunks)
           /\ \A i \in 1..Len(chunks) : NormalChunks(chunks)[i] = NormalizePercentEncoding(chunks[i])
<1>1. \A i \in 1..Len(chunks) : chunks[i] \in Seq(Token)
  OBVIOUS
<1>2. \A i \in 1..Len(chunks) : NormalizePercentEncoding(chunks[i]) \in Seq(Kept)
  BY <1>1, EscapesNormalised
<1>3. Len(chunks) \in Nat
  OBVIOUS
<1> QED BY <1>2, <1>3 DEF NormalChunks

\* Append, by its elements.
LEMMA AppendIs ==
    ASSUME NEW T, NEW c \in Seq(T), NEW n \in T
    PROVE  /\ Append(c, n) \in Seq(T) /\ Len(Append(c, n)) = Len(c) + 1
           /\ Append(c, n)[Len(c) + 1] = n /\ \A i \in 1..Len(c) : Append(c, n)[i] = c[i]
OBVIOUS

\* What is appended is the last of two texts.
LEMMA AppendJoins ==
    ASSUME NEW T, NEW c \in Seq(T), NEW n \in T
    PROVE  Append(c, n) = c \o <<n>>
OBVIOUS

\* Three texts, grouped either way.
Associates(x, y, z) == (x \o y) \o z = x \o (y \o z)
\* They are the same, as of all sequences.
LEMMA Regrouping ==
    ASSUME NEW T, NEW x \in Seq(T), NEW y \in Seq(T), NEW z \in Seq(T)
    PROVE  Associates(x, y, z)
<1>1. (x \o y) \o z = x \o (y \o z)
  BY ConcatAssociative
<1> QED BY <1>1 DEF Associates

\* One more chunk is one more normalised.
LEMMA NormalChunksAppend ==
    ASSUME NEW chunks \in Seq(Seq(Token)), NEW chunk \in Seq(Token)
    PROVE  NormalChunks(Append(chunks, chunk)) = Append(NormalChunks(chunks), NormalizePercentEncoding(chunk))
<1> DEFINE new == Append(chunks, chunk)
           a == NormalChunks(new)
           c == NormalChunks(chunks)
           n == NormalizePercentEncoding(chunk)
           b == Append(c, n)
<1>1. /\ new \in Seq(Seq(Token)) /\ Len(new) = Len(chunks) + 1 /\ new[Len(chunks) + 1] = chunk
      /\ \A i \in 1..Len(chunks) : new[i] = chunks[i]
  OBVIOUS
<1>2. PICK k \in Nat : k = Len(chunks)
  OBVIOUS
<1> HIDE DEF new
<1>3. /\ a \in Seq(Seq(Kept)) /\ Len(a) = k + 1
      /\ \A i \in 1..(k + 1) : a[i] = NormalizePercentEncoding(new[i])
  BY <1>1, <1>2, NormalChunksIs
<1>4. /\ c \in Seq(Seq(Kept)) /\ Len(c) = k
      /\ \A i \in 1..k : c[i] = NormalizePercentEncoding(chunks[i])
  BY <1>2, NormalChunksIs
<1>5. n \in Seq(Kept)
  BY EscapesNormalised
<1> HIDE DEF a, c, n
<1>6. b \in Seq(Seq(Kept)) /\ Len(b) = k + 1 /\ b[k + 1] = n /\ \A i \in 1..k : b[i] = c[i]
  BY <1>4, <1>5, AppendIs
<1> HIDE DEF b
<1>7. ASSUME NEW i \in 1..(k + 1) PROVE a[i] = b[i]
  <2>1. CASE i = k + 1
    BY <1>1, <1>2, <1>3, <1>6, <2>1 DEF n
  <2>2. CASE i \in 1..k
    BY <1>1, <1>2, <1>3, <1>4, <1>6, <2>2
  <2> QED BY <1>2, <2>1, <2>2
<1>8. a = b
  BY <1>3, <1>6, <1>7, SeqEqual
<1> QED BY <1>8 DEF a, b, c, n, new

\* The same, for what is no delimiter.
LEMMA GrowsLast ==
    ASSUME NEW T, NEW chunks \in Seq(Seq(T)), chunks # <<>>, NEW t \in T, t # "&"
    PROVE  /\ Grown(chunks, t, "&") \in Seq(Seq(T))
           /\ Len(Grown(chunks, t, "&")) = Len(chunks)
           /\ Grown(chunks, t, "&")[Len(chunks)] = Append(chunks[Len(chunks)], t)
           /\ \A i \in 1..(Len(chunks) - 1) : Grown(chunks, t, "&")[i] = chunks[i]
BY GrownIs, SMTT(30)

\* A chunk grows by the normal token.
LEMMA NormalGrown ==
    ASSUME NEW chunks \in Seq(Seq(Token)), chunks # <<>>, NEW t \in Token
    PROVE  Grown(NormalChunks(chunks), Normal(t), "&") = NormalChunks(Grown(chunks, t, "&"))
<1> DEFINE N(x) == NormalizePercentEncoding(x)
           c == NormalChunks(chunks)
           m == Normal(t)
           new == Grown(chunks, t, "&")
           a == Grown(c, m, "&")
           b == NormalChunks(new)
<1>0. <<>> \in Seq(Kept) /\ <<>> \in Seq(Token)
  OBVIOUS
<1>1. PICK k \in Nat : k = Len(chunks)
  OBVIOUS
<1>2. k >= 1 /\ k - 1 \in Nat
  BY <1>1
<1>3. /\ c \in Seq(Seq(Kept)) /\ Len(c) = k
      /\ \A i \in 1..k : c[i] = N(chunks[i])
  BY <1>1, NormalChunksIs
<1>4. c # <<>>
  BY <1>2, <1>3
<1>5. m \in Kept /\ (m = "&" <=> t = "&")
  BY NormalToken
<1>6. CASE t = "&"
  <2>1. a = Append(c, <<>>) /\ new = Append(chunks, <<>>)
    BY <1>5, <1>6 DEF Grown
  <2>2. N(<<>>) = <<>>
    BY <1>0, EscapesNormalised
  <2> QED BY <1>0, <2>1, <2>2, NormalChunksAppend
<1>7. CASE t # "&"
  <2> HIDE DEF N, c, m
  <2>1. /\ new \in Seq(Seq(Token)) /\ Len(new) = k /\ new[k] = Append(chunks[k], t)
        /\ \A i \in 1..(k - 1) : new[i] = chunks[i]
    BY <1>1, <1>7, GrownIs, SMTT(30)
  <2>2. /\ a \in Seq(Seq(Kept)) /\ Len(a) = k /\ a[k] = Append(c[k], m)
        /\ \A i \in 1..(k - 1) : a[i] = c[i]
    <3>1. c \in Seq(Seq(Kept)) /\ Len(c) = k /\ m \in Kept /\ m # "&"
      BY <1>3, <1>5, <1>7
    <3>2. c # <<>>
      BY <1>4
    <3> HIDE DEF a
    <3>3. /\ a \in Seq(Seq(Kept)) /\ Len(a) = Len(c)
          /\ a[Len(c)] = Append(c[Len(c)], m)
          /\ \A i \in 1..(Len(c) - 1) : a[i] = c[i]
      BY <3>1, <3>2, GrowsLast, Zenon DEF a
    <3> QED BY <3>1, <3>3
  <2> HIDE DEF new, a
  <2>3. b \in Seq(Seq(Kept)) /\ Len(b) = k /\ \A i \in 1..k : b[i] = N(new[i])
    BY <2>1, NormalChunksIs DEF N
  <2> HIDE DEF b
  <2>4. N(Append(chunks[k], t)) = Append(N(chunks[k]), m)
    <3>1. chunks[k] \in Seq(Token)
      BY <1>1, <1>2
    <3> QED BY <3>1, NormalAppend DEF N, m
  <2>5. a[k] = b[k]
    <3>1. k \in 1..k
      BY <1>2
    <3>2. a[k] = Append(N(chunks[k]), m)
      BY <1>3, <2>2, <3>1
    <3>3. b[k] = N(Append(chunks[k], t))
      BY <2>1, <2>3, <3>1
    <3> QED BY <2>4, <3>2, <3>3
  <2>6. ASSUME NEW i \in 1..(k - 1) PROVE a[i] = b[i]
    <3>1. i \in 1..k
      BY <1>2
    <3>2. a[i] = N(chunks[i])
      BY <1>3, <2>2, <3>1
    <3>3. b[i] = N(chunks[i])
      BY <2>1, <2>3, <3>1
    <3> QED BY <3>2, <3>3
  <2>7. ASSUME NEW i \in 1..k PROVE a[i] = b[i]
    <3>1. i = k \/ i \in 1..(k - 1)
      BY <1>1, <1>2
    <3> QED BY <2>5, <2>6, <3>1
  <2>8. a = b
    BY <2>2, <2>3, <2>7, SeqEqual
  <2> QED BY <2>8 DEF a, b, c, m, new
<1> QED BY <1>6, <1>7

\* So the normalised text splits into the normalised chunks.
LEMMA NormalSplit ==
    ASSUME NEW text \in Seq(Token)
    PROVE  Split(NormalizePercentEncoding(text), "&") = NormalChunks(Split(text, "&"))
<1> DEFINE N(x) == NormalizePercentEncoding(x)
           G == {x \in Seq(Token) : Split(N(x), "&") = NormalChunks(Split(x, "&"))}
<1>1. <<>> \in G
  <2>1. N(<<>>) = <<>>
    <3>1. <<>> \in Seq(Kept)
      OBVIOUS
    <3> QED BY <3>1, EscapesNormalised
  <2>2. Split(<<>>, "&") = << <<>> >>
    BY SplitGrows
  <2> DEFINE one == << <<>> >>
             c == NormalChunks(one)
  <2>3. one \in Seq(Seq(Token)) /\ Len(one) = 1 /\ one[1] = <<>>
    OBVIOUS
  <2> HIDE DEF one
  <2>4. c \in Seq(Seq(Kept)) /\ Len(c) = 1 /\ c[1] = N(<<>>)
    BY <2>3, NormalChunksIs
  <2> HIDE DEF c, N
  <2>5. c = << c[1] >>
    BY <2>4
  <2>6. c = << <<>> >>
    BY <2>1, <2>4, <2>5
  <2> QED BY <2>1, <2>2, <2>6 DEF c, one
<1>2. ASSUME NEW x \in Seq(Token), NEW t \in Token, x \in G PROVE Append(x, t) \in G
  <2>1. N(Append(x, t)) = Append(N(x), Normal(t))
    BY NormalAppend
  <2>2. N(x) \in Seq(Kept) /\ Normal(t) \in Kept
    BY EscapesNormalised, NormalToken
  <2> HIDE DEF N
  <2>3. Split(N(Append(x, t)), "&") = Grown(Split(N(x), "&"), Normal(t), "&")
    BY <2>1, <2>2, SplitGrows
  <2>4. Split(N(x), "&") = NormalChunks(Split(x, "&"))
    BY <1>2
  <2>5. Split(x, "&") \in Seq(Seq(Token)) /\ Split(x, "&") # <<>>
    BY SplitIn
  <2>6. Grown(NormalChunks(Split(x, "&")), Normal(t), "&") = NormalChunks(Grown(Split(x, "&"), t, "&"))
    BY <2>5, NormalGrown
  <2>7. Split(Append(x, t), "&") = Grown(Split(x, "&"), t, "&")
    BY SplitGrows
  <2>8. Append(x, t) \in Seq(Token)
    OBVIOUS
  <2> QED BY <2>3, <2>4, <2>6, <2>7, <2>8
<1> HIDE DEF G
<1>3. Seq(Token) \subseteq G
  BY <1>1, <1>2, AppendInduction
<1> QED BY <1>3 DEF G

\* And the chunks without a value, normalised, are the normal ones without it.
LEMMA NormalWithout ==
    ASSUME NEW chunks \in Seq(Seq(Token))
    PROVE  Without(NormalChunks(chunks), {<<>>}) = NormalChunks(Without(chunks, {<<>>}))
<1> DEFINE C == Seq(Token)
           G == {x \in Seq(C) : Without(NormalChunks(x), {<<>>}) = NormalChunks(Without(x, {<<>>}))}
<1>1. <<>> \in G
  <2>1. <<>> \in Seq(C) /\ Len(<<>>) = 0
    OBVIOUS
  <2> DEFINE c == NormalChunks(<<>>)
  <2>2. c \in Seq(Seq(Kept)) /\ Len(c) = 0
    BY <2>1, NormalChunksIs
  <2> HIDE DEF c
  <2>3. c = <<>>
    BY <2>2
  <2>4. Without(<<>>, {<<>>}) = <<>>
    BY WithoutTakes
  <2> QED BY <2>1, <2>3, <2>4 DEF c
<1>2. ASSUME NEW x \in Seq(C), NEW e \in C, x \in G PROVE Append(x, e) \in G
  <2> DEFINE n == NormalizePercentEncoding(e)
  <2>1. NormalChunks(Append(x, e)) = Append(NormalChunks(x), n)
    BY NormalChunksAppend
  <2>2. n \in Seq(Kept) /\ Len(n) = Len(e)
    BY EscapesNormalised
  <2> HIDE DEF n
  <2>3. n = <<>> <=> e = <<>>
    BY <2>2
  <2>4. NormalChunks(x) \in Seq(Seq(Kept))
    BY NormalChunksIs
  <2>5. Without(NormalChunks(Append(x, e)), {<<>>}) = Taken(Without(NormalChunks(x), {<<>>}), n, {<<>>})
    BY <2>1, <2>2, <2>4, WithoutTakes
  <2>6. Without(Append(x, e), {<<>>}) = Taken(Without(x, {<<>>}), e, {<<>>})
    BY WithoutTakes
  <2>7. Without(x, {<<>>}) \in Seq(C)
    <3>1. Without(x, {<<>>}) \in Seq(C \ {<<>>})
      BY WithoutIn
    <3> QED BY <3>1, SeqMonotonic
  <2>8. Append(x, e) \in Seq(C)
    OBVIOUS
  <2>9. CASE e = <<>>
    BY <1>2, <2>3, <2>5, <2>6, <2>8, <2>9 DEF Taken
  <2>10. CASE e # <<>>
    <3>1. Without(NormalChunks(Append(x, e)), {<<>>}) = Append(NormalChunks(Without(x, {<<>>})), n)
      BY <1>2, <2>3, <2>5, <2>10 DEF Taken
    <3>2. Without(Append(x, e), {<<>>}) = Append(Without(x, {<<>>}), e)
      BY <2>6, <2>10 DEF Taken
    <3>3. NormalChunks(Append(Without(x, {<<>>}), e)) = Append(NormalChunks(Without(x, {<<>>})), n)
      BY <2>7, NormalChunksAppend DEF n
    <3> QED BY <2>8, <3>1, <3>2, <3>3
  <2> QED BY <2>9, <2>10
<1> HIDE DEF G
<1>3. Seq(C) \subseteq G
  BY <1>1, <1>2, AppendInduction
<1> QED BY <1>3 DEF G

-----------------------------------------------------------------------------
(***************************************************************************)
(* The parameters of a query                                               *)
(***************************************************************************)

\* unquote_plus, of one token.
Plain(token) == IF token = "+" THEN Space ELSE IF token \in DOMAIN Decoded THEN Decoded[token] ELSE token

\* It makes a token of a token, the same one however its escape is spelled.
LEMMA PlainToken ==
    ASSUME NEW token
    PROVE  /\ token \in Token => Plain(token) \in Token
           /\ Plain(Normal(token)) = Plain(token)
<1>1. token \in Token => Plain(token) \in Token
  BY EscapesAssumption, CharactersAreTokens DEF Plain, Kept
<1>2. Plain(Normal(token)) = Plain(token)
  <2>1. "+" \notin DOMAIN Decoded /\ "." \notin DOMAIN Decoded /\ "~" \notin DOMAIN Decoded
    BY CharactersAreTokens
  <2>2. CASE token = "%2f"
    BY <2>1, <2>2, EscapesAssumption DEF Plain, Normal
  <2>3. CASE token \in {"%2E", "%7E"}
    <3>1. /\ Decoded["%2E"] = "." /\ Decoded["%7E"] = "~"
          /\ "%2E" \in DOMAIN Decoded /\ "%7E" \in DOMAIN Decoded
      BY UnreservedAssumption
    <3> QED BY <2>1, <2>3, <3>1 DEF Plain, Normal
  <2>4. CASE token \notin {"%2f", "%2E", "%7E"}
    BY <2>4 DEF Normal
  <2> QED BY <2>2, <2>3, <2>4
<1> QED BY <1>1, <1>2

\* unquote_plus, by its tokens: the same of a text and of its normal form.
LEMMA UnquotePlusIs ==
    ASSUME NEW T, NEW text \in Seq(T)
    PROVE  /\ UnquotePlus(text) = [i \in 1..Len(text) |-> Plain(text[i])]
           /\ text \in Seq(Token) => UnquotePlus(text) \in Seq(Token)
           /\ UnquotePlus(NormalizePercentEncoding(text)) = UnquotePlus(text)
<1>0. Len(text) \in Nat
  OBVIOUS
<1>1. ASSUME NEW S, NEW x \in Seq(S) PROVE UnquotePlus(x) = [i \in 1..Len(x) |-> Plain(x[i])]
  <2> DEFINE y == [i \in 1..Len(x) |-> IF x[i] = "+" THEN Space ELSE x[i]]
  <2>1. UnquotePlus(x) = [i \in DOMAIN y |-> IF y[i] \in DOMAIN Decoded THEN Decoded[y[i]] ELSE y[i]]
    <3>1. DOMAIN x = 1..Len(x)
      OBVIOUS
    <3> QED BY <3>1 DEF UnquotePlus, Unquote, Each
  <2>2. ASSUME NEW i \in 1..Len(x)
        PROVE  (IF y[i] \in DOMAIN Decoded THEN Decoded[y[i]] ELSE y[i]) = Plain(x[i])
    <3>1. Space \notin DOMAIN Decoded
      BY CharactersAreTokens
    <3> QED BY <3>1 DEF Plain
  <2>3. DOMAIN y = 1..Len(x)
    OBVIOUS
  <2> HIDE DEF y
  <2> QED BY <2>1, <2>2, <2>3
<1>2. UnquotePlus(text) = [i \in 1..Len(text) |-> Plain(text[i])]
  BY <1>1
<1>3. ASSUME text \in Seq(Token) PROVE UnquotePlus(text) \in Seq(Token)
  <2>1. \A i \in 1..Len(text) : text[i] \in Token
    BY <1>3
  <2>2. \A i \in 1..Len(text) : Plain(text[i]) \in Token
    BY <2>1, PlainToken
  <2> QED BY <1>0, <1>2, <2>2
<1>4. UnquotePlus(NormalizePercentEncoding(text)) = UnquotePlus(text)
  <2> DEFINE n == NormalizePercentEncoding(text)
             U == {Normal(text[i]) : i \in 1..Len(text)}
  <2>1. n = [i \in 1..Len(text) |-> Normal(text[i])] /\ Len(n) = Len(text)
    BY EscapesNormalised
  <2> HIDE DEF n, Normal
  <2>2. n \in Seq(U) /\ \A i \in 1..Len(text) : n[i] = Normal(text[i])
    BY <1>0, <2>1
  <2> HIDE DEF U
  <2>3. UnquotePlus(n) = [i \in 1..Len(text) |-> Plain(n[i])]
    BY <1>1, <2>1, <2>2
  <2>4. \A i \in 1..Len(text) : Plain(n[i]) = Plain(text[i])
    BY <2>2, PlainToken
  <2>5. [i \in 1..Len(text) |-> Plain(n[i])] = [i \in 1..Len(text) |-> Plain(text[i])]
    <3> HIDE DEF Plain
    <3> QED BY <2>4
  <2> QED BY <1>2, <2>3, <2>5 DEF n
<1> QED BY <1>2, <1>3, <1>4

\* A chunk of a query, as a parameter.
ParamOf(chunk) ==
    <<UnquotePlus(Before(chunk, {"="})), IF Holds(chunk, "=") THEN UnquotePlus(After(chunk, {"="})) ELSE None>>

\* A token, and the set of it.
LEMMA HoldsOne ==
    ASSUME NEW text, NEW token
    PROVE  Holds(text, token) <=> HoldsAny(text, {token})
BY DEF Holds, HoldsAny

\* A place found is one.
LEMMA IndexFound ==
    ASSUME NEW T, NEW text \in Seq(T), NEW tokens
    PROVE  /\ Index(text, tokens) \in 0..Len(text)
           /\ HoldsAny(text, tokens) <=> Index(text, tokens) # 0
           /\ HoldsAny(text, tokens) => Index(text, tokens) \in 1..Len(text)
<1>1. DOMAIN text = 1..Len(text)
  OBVIOUS
<1>2. /\ Index(text, tokens) \in 0..Len(text)
      /\ \A j \in 1..Len(text) : text[j] \in tokens => Index(text, tokens) # 0
  BY IndexIsFirst
<1>3. HoldsAny(text, tokens) => Index(text, tokens) # 0
  BY <1>1, <1>2 DEF HoldsAny
<1>4. ~HoldsAny(text, tokens) => Index(text, tokens) = 0
  BY DEF Index
<1> QED BY <1>2, <1>3, <1>4

\* A parameter is the same however its escapes are spelled.
LEMMA NormalParam ==
    ASSUME NEW T, NEW chunk \in Seq(T)
    PROVE  ParamOf(NormalizePercentEncoding(chunk)) = ParamOf(chunk)
<1> DEFINE n == NormalizePercentEncoding(chunk)
           i == Index(chunk, {"="})
<1>1. /\ Index(n, {"="}) = i /\ Upto(n, i) = NormalizePercentEncoding(Upto(chunk, i))
      /\ i # 0 => From(n, i + 1) = NormalizePercentEncoding(From(chunk, i + 1))
  <2>1. i \in 0..Len(chunk)
    BY IndexFound
  <2>2. i # 0 => i \in 1..Len(chunk)
    BY IndexFound
  <2>3. {"="} \subseteq {"/", "?", "#", ":", "@", "&", "=", "+", Space}
    OBVIOUS
  <2> HIDE DEF i
  <2> QED BY <2>1, <2>2, <2>3, NormalCut DEF i
<1>2. Upto(chunk, i) \in Seq(T) /\ (i # 0 => From(chunk, i + 1) \in Seq(T))
  <2>1. i \in 0..Len(chunk)
    BY IndexFound
  <2> HIDE DEF i
  <2>2. i # 0 => i + 1 \in 1..(Len(chunk) + 1)
    BY <2>1
  <2> QED BY <2>1, <2>2, UptoIs, FromIs
<1>3. UnquotePlus(Before(n, {"="})) = UnquotePlus(Before(chunk, {"="}))
  BY <1>1, <1>2, UnquotePlusIs DEF Before
<1>4. Holds(n, "=") <=> Holds(chunk, "=")
  <2>1. HoldsAny(n, {"="}) <=> HoldsAny(chunk, {"="})
    BY NormalHolds
  <2> QED BY <2>1, HoldsOne
<1>5. ASSUME Holds(chunk, "=") PROVE UnquotePlus(After(n, {"="})) = UnquotePlus(After(chunk, {"="}))
  <2>1. i # 0
    BY <1>5, HoldsOne, IndexFound
  <2>2. After(n, {"="}) = From(n, i + 1) /\ After(chunk, {"="}) = From(chunk, i + 1)
    BY <1>1, <2>1 DEF After, Beyond
  <2> QED BY <1>1, <1>2, <2>1, <2>2, UnquotePlusIs
<1> QED BY <1>3, <1>4, <1>5 DEF ParamOf

\* The parameters are those of the chunks that are not empty.
LEMMA ParamsOfChunks ==
    ASSUME NEW query
    PROVE  LET chunks == Without(Split(query, "&"), {<<>>})
           IN  DecodeQueryPairs(query) = [i \in DOMAIN chunks |-> ParamOf(chunks[i])]
BY DEF DecodeQueryPairs, Each, ParamOf

\* Normalising a query's escapes does not change its parameters.
LEMMA NormalParams ==
    ASSUME NEW query, query = None \/ query \in Seq(Token)
    PROVE  ParseQuery(NormalizePercentEncoding(query)) = ParseQuery(query)
<1> DEFINE n == NormalizePercentEncoding(query)
<1>1. CASE query = None
  BY <1>1, NormalNone
<1>2. CASE query = <<>>
  <2>1. <<>> \in Seq(Kept)
    OBVIOUS
  <2>2. n = <<>>
    BY <1>2, <2>1, EscapesNormalised
  <2> QED BY <1>2, <2>2
<1>3. CASE query \in Seq(Token) /\ query # <<>>
  <2> DEFINE a == Without(Split(n, "&"), {<<>>})
             b == Without(Split(query, "&"), {<<>>})
  <2>1. n \in Seq(Token) /\ n # <<>>
    <3>1. n \in Seq(Kept) /\ Len(n) = Len(query)
      BY <1>3, EscapesNormalised
    <3>2. Kept \subseteq Token
      BY DEF Kept
    <3>3. Len(query) # 0
      BY <1>3
    <3> HIDE DEF n
    <3> QED BY <3>1, <3>2, <3>3, SeqMonotonic
  <2>2. Split(query, "&") \in Seq(Seq(Token))
    BY <1>3, SplitIn
  <2>3. a = NormalChunks(b)
    BY <1>3, <2>2, NormalSplit, NormalWithout
  <2>4. b \in Seq(Seq(Token))
    <3>1. b \in Seq(Seq(Token) \ {<<>>})
      BY <2>2, WithoutIn
    <3> QED BY <3>1, SeqMonotonic
  <2> HIDE DEF n, a, b
  <2>5. /\ DOMAIN a = DOMAIN b
        /\ \A i \in DOMAIN b : a[i] = NormalizePercentEncoding(b[i]) /\ b[i] \in Seq(Token)
    <3>1. DOMAIN b = 1..Len(b) /\ \A i \in 1..Len(b) : b[i] \in Seq(Token)
      BY <2>4
    <3>2. DOMAIN a = 1..Len(b) /\ \A i \in 1..Len(b) : a[i] = NormalizePercentEncoding(b[i])
      BY <2>3 DEF NormalChunks
    <3> QED BY <3>1, <3>2
  <2>6. \A i \in DOMAIN b : ParamOf(a[i]) = ParamOf(b[i])
    BY <2>5, NormalParam
  <2>7. [i \in DOMAIN a |-> ParamOf(a[i])] = [i \in DOMAIN b |-> ParamOf(b[i])]
    <3> HIDE DEF ParamOf
    <3> QED BY <2>5, <2>6
  <2>8. DecodeQueryPairs(n) = DecodeQueryPairs(query)
    BY <2>7, ParamsOfChunks DEF a, b
  <2>9. query \notin {None, <<>>} /\ n \notin {None, <<>>}
    BY <1>3, <2>1, NoneIsNoText
  <2> QED BY <2>8, <2>9 DEF ParseQuery, n
<1> QED BY <1>1, <1>2, <1>3

-----------------------------------------------------------------------------
(***************************************************************************)
(* Hosts, ports, userinfos                                                 *)
(***************************************************************************)

\* str.lower(), of one token.
Lowered(token) == IF token \in DOMAIN LowerOf THEN LowerOf[token] ELSE token

\* What a name in lower case is, and is not.
LEMMA LoweredToken ==
    ASSUME NEW token
    PROVE  /\ token \in Token => Lowered(token) \in Token
           /\ Lowered(token) \notin DOMAIN LowerOf
           /\ IsHostToken(token) => IsHostToken(Lowered(token))
           /\ Lowered(token) = "." <=> token = "."
           /\ token \notin DOMAIN PortOf \cup IPv4s \cup {"."} => Lowered(token) \notin DOMAIN PortOf \cup IPv4s \cup {"."}
           /\ token \in DOMAIN PortOf \cup IPv4s \cup DOMAIN IPv6s \cup Delimiters \cup {"."} => Lowered(token) = token
BY NamesAssumption DEF Lowered, IsHostToken, NotInNames

\* str.lower(), by its tokens.
LEMMA LowerIs ==
    ASSUME NEW T, NEW text \in Seq(T)
    PROVE  LET new == Lower(text)
           IN  /\ new = [i \in 1..Len(text) |-> Lowered(text[i])]
               /\ Len(new) = Len(text) /\ \A i \in 1..Len(text) : new[i] = Lowered(text[i])
               /\ text \in Seq(Token) => new \in Seq(Token)
               /\ Lower(new) = new
<1>1. Len(text) \in Nat
  OBVIOUS
<1>2. ASSUME NEW S, NEW x \in Seq(S) PROVE Lower(x) = [i \in 1..Len(x) |-> Lowered(x[i])]
  BY DEF Lower, Each, Lowered
<1> DEFINE new == Lower(text)
<1>3. new = [i \in 1..Len(text) |-> Lowered(text[i])]
  BY <1>2
<1> HIDE DEF new
<1>4. Len(new) = Len(text) /\ \A i \in 1..Len(text) : new[i] = Lowered(text[i])
  BY <1>1, <1>3
<1>5. ASSUME text \in Seq(Token) PROVE new \in Seq(Token)
  <2>1. \A i \in 1..Len(text) : text[i] \in Token
    BY <1>5
  <2>2. \A i \in 1..Len(text) : Lowered(text[i]) \in Token
    BY <2>1, LoweredToken
  <2> QED BY <1>1, <1>3, <2>2
<1>6. Lower(new) = new
  <2> DEFINE U == {new[i] : i \in 1..Len(text)}
  <2>1. new \in Seq(U)
    BY <1>1, <1>3, <1>4
  <2> HIDE DEF U
  <2>2. Lower(new) = [i \in 1..Len(text) |-> Lowered(new[i])]
    BY <1>2, <1>4, <2>1
  <2>3. \A i \in 1..Len(text) : Lowered(new[i]) = new[i]
    <3>1. \A i \in 1..Len(text) : new[i] \notin DOMAIN LowerOf
      BY <1>4, LoweredToken
    <3> QED BY <3>1 DEF Lowered
  <2>4. [i \in 1..Len(text) |-> Lowered(new[i])] = [i \in 1..Len(text) |-> Lowered(text[i])]
    <3> HIDE DEF Lowered
    <3> QED BY <1>4, <2>3
  <2> QED BY <1>3, <2>2, <2>4
<1> QED BY <1>3, <1>4, <1>5, <1>6 DEF new

\* A name in lower case, ready to be sent.
LEMMA LowerName ==
    ASSUME NEW host \in Seq(Token), host # <<>>, host[1] # ".",
           host[Len(host)] # "." \/ Len(host) = 1,
           \A i \in 1..Len(host) : IsHostToken(host[i]),
           \A i \in 2..Len(host) : ~(host[i - 1] = "." /\ host[i] = "."),
           ~LooksLikeIPv4(Lower(host))
    PROVE  ValidHost(Lower(host)) /\ NormalizeHost(Lower(host)) = Lower(host)
<1> DEFINE new == Lower(host)
<1>1. PICK k \in Nat : k = Len(host)
  OBVIOUS
<1>2. k >= 1
  BY <1>1
<1>3. /\ new \in Seq(Token) /\ Len(new) = k /\ \A i \in 1..k : new[i] = Lowered(host[i])
      /\ Lower(new) = new
  BY <1>1, LowerIs
<1> HIDE DEF new
<1>4. DOMAIN new = 1..k
  BY <1>3
<1>5. \A i \in 1..k : IsHostToken(new[i])
  BY <1>1, <1>3, LoweredToken
<1>6. new[1] # "."
  BY <1>2, <1>3, LoweredToken
<1>7. \A i \in 2..k : ~(new[i - 1] = "." /\ new[i] = ".")
  <2> SUFFICES ASSUME NEW i \in 2..k, new[i - 1] = ".", new[i] = "." PROVE FALSE
    OBVIOUS
  <2>1. i \in 1..k /\ i - 1 \in 1..k
    BY <1>1
  <2>2. host[i - 1] = "." /\ host[i] = "."
    BY <1>3, <2>1, LoweredToken
  <2> QED BY <1>1, <2>2
<1>8. ValidHost(new)
  <2>1. new # <<>>
    BY <1>2, <1>3
  <2> QED BY <1>3, <1>4, <1>5, <1>6, <1>7, <2>1 DEF ValidHost, IsText, new
<1>9. NormalizeHost(new) = new
  <2>1. new[1] \notin DOMAIN IPv6s
    BY <1>2, <1>5 DEF IsHostToken, NotInNames
  <2>2. Last(new) = new[k]
    BY <1>3 DEF Last
  <2>3. ASSUME k > 1 PROVE new[k] # "."
    <3>1. host[k] # "." /\ k \in 1..k
      BY <1>1, <2>3
    <3> QED BY <1>3, <3>1, LoweredToken
  <2> QED BY <1>3, <2>1, <2>2, <2>3 DEF NormalizeHost
<1> QED BY <1>8, <1>9 DEF new

\* A host that is no name is a literal.
LEMMA LiteralNormalised ==
    ASSUME NEW host \in Seq(Token), Len(host) = 1, host[1] \in IPv4s \cup DOMAIN IPv6s
    PROVE  ValidHost(NormalizeHost(host)) /\ NormalizeHost(NormalizeHost(host)) = NormalizeHost(host)
<1>1. \A x : Len(<<x>>) = 1 /\ <<x>>[1] = x /\ (x \in Token => <<x>> \in Seq(Token))
  OBVIOUS
<1>2. CASE host[1] \in DOMAIN IPv6s
  <2> DEFINE a == IPv6s[host[1]]
  <2>1. NormalizeHost(host) = <<a>>
    BY <1>2 DEF NormalizeHost
  <2>2. a \in DOMAIN IPv6s /\ IPv6s[a] = a /\ a \in Token
    BY <1>2, NamesAssumption
  <2> HIDE DEF a
  <2>3. NormalizeHost(<<a>>) = <<a>>
    BY <1>1, <2>2 DEF NormalizeHost
  <2>4. ValidHost(<<a>>)
    BY <1>1, <2>2 DEF ValidHost, IsText
  <2> QED BY <2>1, <2>3, <2>4
<1>3. CASE host[1] \notin DOMAIN IPv6s
  <2>1. Lower(host) = host
    <3>1. host[1] \notin DOMAIN LowerOf
      BY NamesAssumption DEF NotInNames
    <3>2. host = [i \in 1..1 |-> host[i]]
      OBVIOUS
    <3>3. Lower(host) = [i \in 1..1 |-> Lowered(host[i])]
      BY LowerIs
    <3> QED BY <3>1, <3>2, <3>3 DEF Lowered
  <2>2. NormalizeHost(host) = host
    BY <1>3, <2>1 DEF NormalizeHost
  <2>3. ValidHost(host)
    BY DEF ValidHost, IsText
  <2> QED BY <2>2, <2>3
<1> QED BY <1>2, <1>3

\* A name none of whose parts is a word is not changed by str.lower().
LEMMA LowerLooksTheSame ==
    ASSUME NEW host \in Seq(Token), ~LooksLikeIPv4(host), \A i \in 1..Len(host) : IsHostToken(host[i])
    PROVE  ~LooksLikeIPv4(Lower(host))
<1> DEFINE Digits == DOMAIN PortOf \cup IPv4s \cup {"."}
           new == Lower(host)
<1>1. DOMAIN host = 1..Len(host)
  OBVIOUS
<1>2. new = [i \in 1..Len(host) |-> Lowered(host[i])]
  BY LowerIs
<1> HIDE DEF new, Digits
<1>3. CASE \A i \in 1..Len(host) : host[i] \in Digits
  <2>1. \A i \in 1..Len(host) : Lowered(host[i]) = host[i]
    BY <1>3, LoweredToken DEF Digits
  <2>2. host = [i \in 1..Len(host) |-> host[i]]
    OBVIOUS
  <2>3. new = host
    <3> HIDE DEF Lowered
    <3> QED BY <1>2, <2>1, <2>2
  <2> QED BY <2>3 DEF new
<1>4. CASE \E i \in 1..Len(host) : host[i] \notin Digits
  <2>1. PICK i \in 1..Len(host) : host[i] \notin Digits
    BY <1>4
  <2>2. new[i] \notin Digits /\ i \in DOMAIN new
    BY <1>2, <2>1, LoweredToken DEF Digits
  <2> QED BY <2>2 DEF LooksLikeIPv4, Digits, new
<1> QED BY <1>3, <1>4

\* normalize_host makes a valid host of a valid host, and nothing else of that.
LEMMA HostNormalised ==
    ASSUME NEW host, ValidHost(host)
    PROVE  ValidHost(NormalizeHost(host)) /\ NormalizeHost(NormalizeHost(host)) = NormalizeHost(host)
<1>1. host \in Seq(Token) /\ DOMAIN host = 1..Len(host)
  BY DEF ValidHost, IsText
<1>2. CASE Len(host) = 1 /\ host[1] \in IPv4s \cup DOMAIN IPv6s
  BY <1>1, <1>2, LiteralNormalised
<1>3. CASE ~(Len(host) = 1 /\ host[1] \in IPv4s \cup DOMAIN IPv6s)
  <2>1. /\ host # <<>> /\ host[1] # "." /\ ~LooksLikeIPv4(host)
        /\ \A i \in 1..Len(host) : IsHostToken(host[i])
        /\ \A i \in 2..Len(host) : ~(host[i - 1] = "." /\ host[i] = ".")
    BY <1>1, <1>3 DEF ValidHost
  <2> DEFINE n == Len(host)
  <2>6. n \in Nat
    BY <1>1
  <2> HIDE DEF n
  <2>7. PICK k \in Nat : k = n
    BY <2>6
  <2>2. k = Len(host) /\ Len(host) \in Nat
    BY <2>6, <2>7 DEF n
  <2>3. k >= 1 /\ Last(host) = host[k]
    BY <1>1, <2>1, <2>2 DEF Last
  <2>4. CASE k > 1 /\ host[k] = "."
    <3> DEFINE name == Front(host)
    <3>1. name \in Seq(Token) /\ Len(name) = k - 1 /\ \A i \in 1..(k - 1) : name[i] = host[i]
      BY <1>1, <2>2, <2>3 DEF Front
    <3>2. NormalizeHost(host) = Lower(name)
      <4>1. ~(Len(host) = 1)
        BY <2>2, <2>4
      <4> QED BY <2>2, <2>3, <2>4, <4>1 DEF NormalizeHost
    <3> HIDE DEF name
    <3>3. k - 1 \in Nat /\ k - 1 >= 1 /\ Len(name) = k - 1
      BY <2>4, <3>1
    <3>4. /\ name # <<>> /\ name[1] # "."
          /\ \A i \in 1..Len(name) : IsHostToken(name[i])
          /\ \A i \in 2..Len(name) : ~(name[i - 1] = "." /\ name[i] = ".")
      <4>1. name # <<>> /\ name[1] # "."
        BY <2>1, <3>1, <3>3
      <4>2. ASSUME NEW i \in 1..Len(name) PROVE IsHostToken(name[i])
        <5>1. i \in 1..Len(host)
          BY <2>2, <3>3
        <5> QED BY <2>1, <3>1, <5>1
      <4>3. ASSUME NEW i \in 2..Len(name) PROVE ~(name[i - 1] = "." /\ name[i] = ".")
        <5>1. i \in 2..Len(host) /\ i - 1 \in 1..(k - 1) /\ i \in 1..(k - 1)
          BY <2>2, <3>3
        <5> QED BY <2>1, <3>1, <5>1
      <4> QED BY <4>1, <4>2, <4>3
    <3>5. name[Len(name)] # "."
      <4>1. k \in 2..Len(host) /\ k - 1 \in 1..(k - 1)
        BY <2>2, <2>4
      <4> QED BY <2>1, <2>4, <3>1, <4>1
    <3>6. ~LooksLikeIPv4(name)
      <4>1. HoldsAny(host, Dotted \cup {"."})
        BY <1>1, <2>2, <2>3, <2>4 DEF HoldsAny
      <4>2. PICK i \in 1..k : host[i] \notin DOMAIN PortOf \cup IPv4s \cup {"."}
        BY <1>1, <2>1, <2>2, <4>1 DEF LooksLikeIPv4
      <4>3. i \in 1..(k - 1)
        BY <2>4, <4>2
      <4>4. i \in DOMAIN name /\ name[i] \notin DOMAIN PortOf \cup IPv4s \cup {"."}
        BY <3>1, <4>2, <4>3
      <4> QED BY <4>4 DEF LooksLikeIPv4
    <3>7. ~LooksLikeIPv4(Lower(name))
      BY <3>1, <3>4, <3>6, LowerLooksTheSame
    <3> QED BY <3>1, <3>2, <3>4, <3>5, <3>7, LowerName
  <2>5. CASE ~(k > 1 /\ host[k] = ".")
    <3>1. NormalizeHost(host) = Lower(host)
      BY <1>3, <2>2, <2>3, <2>5 DEF NormalizeHost
    <3>2. ~LooksLikeIPv4(Lower(host))
      BY <1>1, <2>1, LowerLooksTheSame
    <3>3. host[Len(host)] # "." \/ Len(host) = 1
      BY <2>2, <2>3, <2>5
    <3> QED BY <1>1, <2>1, <3>1, <3>2, <3>3, LowerName
  <2> QED BY <2>4, <2>5
<1> QED BY <1>2, <1>3

-----------------------------------------------------------------------------
(***************************************************************************)
(* A query from parameters                                                 *)
(***************************************************************************)

\* What FlattenSeq makes of k sequences, one after the other.
Joined(g, seqs, k) == g = [i \in 1..k |-> IF i = 1 THEN seqs[i] ELSE g[i - 1] \o seqs[i]]
\* FlattenSeq is the last value of such a function.
LEMMA FlattenJoins ==
    ASSUME NEW T, NEW seqs \in Seq(T), seqs # <<>>
    PROVE  \E g : Joined(g, seqs, Len(seqs)) /\ FlattenSeq(seqs) = g[Len(seqs)]
<1>0. Len(seqs) \in Nat /\ Len(seqs) # 0
  OBVIOUS
<1>1. \E g : Joined(g, seqs, Len(seqs))
  BY <1>0, FlattenDefined, Zenon DEF Joined
<1>2. PICK g : Joined(g, seqs, Len(seqs)) /\ g = CHOOSE h : Joined(h, seqs, Len(seqs))
  BY <1>1, Zenon
<1>3. FlattenSeq(seqs) = g[Len(seqs)]
  BY <1>0, <1>2, Zenon DEF FlattenSeq, Joined
<1> QED BY <1>2, <1>3

\* What it made of the first of them stays.
Alike(x, y, k) == \A i \in 1..k : x[i] = y[i]
\* On equal beginnings they agree.
LEMMA JoinedAgree ==
    ASSUME NEW x, NEW y, NEW k \in Nat, NEW m \in Nat, k <= m, Alike(x, y, k),
           NEW g, Joined(g, x, k), NEW h, Joined(h, y, m)
    PROVE  k # 0 => g[k] = h[k]
<1> DEFINE S == {n \in Nat : n + 1 \in 1..k => g[n + 1] = h[n + 1]}
<1>1. 0 \in S
  BY DEF Joined, Alike
<1>2. ASSUME NEW n \in Nat, n \in S PROVE n + 1 \in S
  <2> SUFFICES ASSUME n + 2 \in 1..k PROVE g[n + 2] = h[n + 2]
    OBVIOUS
  <2>1. g[n + 1] = h[n + 1]
    BY <1>2
  <2>2. PICK j \in 1..k : j = n + 2
    OBVIOUS
  <2>3. j \in 1..m /\ j # 1 /\ j - 1 = n + 1
    BY <2>2
  <2>4. g[j] = g[j - 1] \o x[j]
    <3>1. g[j] = IF j = 1 THEN x[j] ELSE g[j - 1] \o x[j]
      BY DEF Joined
    <3> QED BY <2>3, <3>1, Zenon
  <2>5. h[j] = h[j - 1] \o y[j]
    <3>1. h[j] = IF j = 1 THEN y[j] ELSE h[j - 1] \o y[j]
      BY <2>3 DEF Joined
    <3> QED BY <2>3, <3>1, Zenon
  <2>6. x[j] = y[j]
    BY DEF Alike
  <2> QED BY <2>1, <2>2, <2>3, <2>4, <2>5, <2>6
<1>3. Nat \subseteq S
  <2> HIDE DEF S
  <2> QED BY <1>1, <1>2, SetInduction
<1> SUFFICES ASSUME k # 0 PROVE g[k] = h[k]
  OBVIOUS
<1>4. k - 1 \in Nat /\ (k - 1) + 1 = k /\ k \in 1..k
  OBVIOUS
<1> QED BY <1>3, <1>4

\* One more sequence is one more at the end.
LEMMA FlattenGrows ==
    ASSUME NEW T, NEW seqs \in Seq(T), NEW s \in T
    PROVE  FlattenSeq(Append(seqs, s)) = IF seqs = <<>> THEN s ELSE FlattenSeq(seqs) \o s
<1> DEFINE new == Append(seqs, s)
           k == Len(seqs)
<1>1. new \in Seq(T) /\ Len(new) = k + 1 /\ new[k + 1] = s /\ \A i \in 1..k : new[i] = seqs[i]
  OBVIOUS
<1>2. k \in Nat /\ (seqs = <<>> <=> k = 0)
  OBVIOUS
<1> HIDE DEF new, k
<1>3. new # <<>>
  BY <1>1, <1>2
<1>4. PICK h : Joined(h, new, k + 1) /\ FlattenSeq(new) = h[k + 1]
  BY <1>1, <1>3, FlattenJoins
<1>5. CASE k = 0
  <2>1. h[1] = new[1]
    BY <1>4, <1>5 DEF Joined
  <2> QED BY <1>1, <1>2, <1>4, <1>5, <2>1 DEF new
<1>6. CASE k # 0
  <2>1. PICK g : Joined(g, seqs, k) /\ FlattenSeq(seqs) = g[k]
    BY <1>2, <1>6, FlattenJoins DEF k
  <2>2. k \in 1..k /\ k + 1 \in Nat /\ k <= k + 1
    BY <1>2, <1>6
  <2>9. \A i \in 1..k : seqs[i] = new[i]
    BY <1>1
  <2>3. g[k] = h[k]
    <3>1. PICK m \in Nat : m = k + 1
      BY <2>2
    <3>2. Joined(h, new, m) /\ k <= m /\ k \in Nat /\ Joined(g, seqs, k)
      BY <1>2, <1>4, <2>1, <2>2, <3>1
    <3>3. Alike(seqs, new, k)
      BY <2>9 DEF Alike
    <3>4. k # 0 => g[k] = h[k]
      BY <3>2, <3>3, JoinedAgree
    <3> QED BY <1>6, <3>4
  <2>4. PICK j \in Nat : j = k + 1
    BY <2>2
  <2>5. j \in 1..(k + 1) /\ j # 1 /\ j - 1 = k
    BY <1>2, <1>6, <2>4
  <2>6. h[j] = IF j = 1 THEN new[j] ELSE h[j - 1] \o new[j]
    BY <1>4, <2>5 DEF Joined
  <2>7. h[j] = h[k] \o s
    BY <1>1, <2>4, <2>5, <2>6, Zenon
  <2>8. h[k] = FlattenSeq(seqs)
    BY <2>1, <2>2, <2>3
  <2> QED BY <1>2, <1>4, <1>6, <2>4, <2>7, <2>8, Zenon DEF new
<1> QED BY <1>5, <1>6

\* quote_plus, of one token that has an escape when it is one.
Writable == {token \in Token : token \in DOMAIN Decoded => \E escape \in DOMAIN Decoded : Decoded[escape] = token}
Written(token) ==
    IF token = Space THEN "+"
    ELSE IF token \in {"&", "=", "+", "#"} \cup DOMAIN Decoded THEN EscapeOf(token) ELSE token
Spelt == Token \ {"&", "=", "#", Space}
\* What is written of a token is one of these, and is read as the token.
LEMMA WrittenToken ==
    ASSUME NEW token \in Writable
    PROVE  Written(token) \in Spelt /\ Plain(Written(token)) = token
<1>0. token \in Token
  BY DEF Writable
<1>1. CASE token = Space
  <2>1. "+" \in Token /\ Space # "+"
    BY CharactersAreTokens, SpaceIsNoOther DEF Kept
  <2> QED BY <1>1, <2>1 DEF Written, Plain, Spelt
<1>2. CASE token # Space /\ token \in {"&", "=", "+", "#"} \cup DOMAIN Decoded
  <2>1. \E escape \in DOMAIN Decoded \ {"%2f"} : Decoded[escape] = token
    <3>1. CASE token \in DOMAIN Decoded
      <4>1. PICK escape \in DOMAIN Decoded : Decoded[escape] = token
        BY <3>1 DEF Writable
      <4>2. escape # "%2f"
        BY <3>1, <4>1, EscapesAssumption, CharactersAreTokens
      <4> QED BY <4>1, <4>2
    <3>2. CASE token \in {"&", "=", "+", "#"}
      BY <3>2, EscapesAssumption
    <3> QED BY <1>2, <3>1, <3>2
  <2>2. EscapeOf(token) \in DOMAIN Decoded /\ Decoded[EscapeOf(token)] = token
    BY <2>1, EscapeStandsFor
  <2>3. Written(token) = EscapeOf(token)
    BY <1>2 DEF Written
  <2> DEFINE e == EscapeOf(token)
  <2>4. e \in DOMAIN Decoded /\ Decoded[e] = token
    BY <2>2
  <2> HIDE DEF e
  <2>5. e \in Spelt /\ e # "+"
    BY <2>4, EscapesAssumption DEF Spelt, Delimiters
  <2>6. Plain(e) = token
    BY <2>4, <2>5 DEF Plain
  <2> QED BY <2>3, <2>5, <2>6 DEF e
<1>3. CASE token # Space /\ token \notin {"&", "=", "+", "#"} \cup DOMAIN Decoded
  BY <1>0, <1>3 DEF Written, Plain, Spelt
<1> QED BY <1>1, <1>2, <1>3

\* quote_plus escapes what ends a key, a value or a query, and unquote_plus takes it back.
LEMMA WrittenIs ==
    ASSUME NEW text \in Seq(Writable)
    PROVE  LET new == EncodeForQuery(text)
           IN  new \in Seq(Spelt) /\ Len(new) = Len(text) /\ UnquotePlus(new) = text
<1> DEFINE new == EncodeForQuery(text)
<1>1. Len(text) \in Nat /\ \A i \in 1..Len(text) : text[i] \in Writable
  OBVIOUS
<1>2. new = [i \in 1..Len(text) |-> Written(text[i])]
  <2>1. DOMAIN text = 1..Len(text)
    OBVIOUS
  <2> QED BY <2>1 DEF EncodeForQuery, Each, Written
<1> HIDE DEF new
<1>3. \A i \in 1..Len(text) : Written(text[i]) \in Spelt /\ Plain(Written(text[i])) = text[i]
  BY <1>1, WrittenToken
<1> HIDE DEF Written
<1>4. new \in Seq(Spelt) /\ Len(new) = Len(text) /\ \A i \in 1..Len(text) : new[i] = Written(text[i])
  BY <1>1, <1>2, <1>3
<1>5. UnquotePlus(new) = [i \in 1..Len(text) |-> Plain(new[i])]
  BY <1>4, UnquotePlusIs
<1>6. UnquotePlus(new) = text
  <2>1. text = [i \in 1..Len(text) |-> text[i]]
    OBVIOUS
  <2>2. \A i \in 1..Len(text) : Plain(new[i]) = text[i]
    BY <1>3, <1>4
  <2> HIDE DEF Plain
  <2> QED BY <1>5, <2>1, <2>2
<1> QED BY <1>4, <1>6 DEF new

\* The parameters that can be written, and one of them written.
Pairs == Seq(Writable) \X (Seq(Writable) \cup {None})
Chunk(pair) ==
    IF pair[2] = None THEN EncodeForQuery(pair[1])
    ELSE EncodeForQuery(pair[1]) \o <<"=">> \o EncodeForQuery(pair[2])

\* A written parameter has nothing in it that ends it.
LEMMA ChunkIs ==
    ASSUME NEW pair \in Pairs
    PROVE  Chunk(pair) \in Seq(Spelt \cup {"="}) /\ (pair[1] # <<>> => Chunk(pair) # <<>>)
<1>1. pair[1] \in Seq(Writable) /\ (pair[2] # None => pair[2] \in Seq(Writable))
  BY DEF Pairs
<1> DEFINE key == EncodeForQuery(pair[1])
           value == EncodeForQuery(pair[2])
           T == Spelt \cup {"="}
<1>2. Seq(Spelt) \subseteq Seq(T)
  BY SeqMonotonic
<1>3. key \in Seq(T) /\ (pair[1] # <<>> => key # <<>>)
  <2>1. key \in Seq(Spelt) /\ Len(key) = Len(pair[1])
    BY <1>1, WrittenIs
  <2> HIDE DEF key
  <2>2. pair[1] # <<>> => Len(pair[1]) # 0
    BY <1>1
  <2> QED BY <1>2, <2>1, <2>2
<1>4. pair[2] # None => value \in Seq(T)
  BY <1>1, <1>2, WrittenIs
<1>5. "=" \in T
  OBVIOUS
<1> HIDE DEF key, value, T
<1>6. pair[2] # None => /\ key \o <<"=">> \o value \in Seq(T)
                        /\ key \o <<"=">> \o value # <<>>
  BY <1>3, <1>4, <1>5
<1>7. Chunk(pair) = IF pair[2] = None THEN key ELSE key \o <<"=">> \o value
  BY DEF Chunk, key, value
<1> QED BY <1>3, <1>6, <1>7 DEF T

\* What is flattened.
Pieces(pairs) == [i \in 1..Len(pairs) |-> <<"&">> \o Chunk(pairs[i])]
\* The serialised query is the pieces joined, without the first ampersand.
LEMMA SerializedPieces ==
    ASSUME NEW pairs \in Seq(Pairs), pairs # <<>>
    PROVE  SerializeQuery(pairs) = Tail(FlattenSeq(Pieces(pairs)))
<1> DEFINE Enc(pair) == <<EncodeForQuery(pair[1]), IF pair[2] = None THEN None ELSE EncodeForQuery(pair[2])>>
           Spelled(pair) == IF pair[2] = None THEN pair[1] ELSE pair[1] \o <<"=">> \o pair[2]
           new == [i \in 1..Len(pairs) |-> Enc(pairs[i])]
<1>1. DOMAIN pairs = 1..Len(pairs) /\ Len(pairs) \in Nat /\ Len(pairs) # 0 /\ \A i \in 1..Len(pairs) : pairs[i] \in Pairs
  OBVIOUS
<1>2. DOMAIN new = 1..Len(pairs) /\ \A i \in 1..Len(pairs) : new[i] = Enc(pairs[i])
  OBVIOUS
<1>3. new # <<>>
  BY <1>1, <1>2
<1>4. Each(pairs, Enc) = new
  BY <1>1 DEF Each
<1>5. SerializeQuery(pairs) = SerializeQueryPlain(new)
  <2>1. SerializeQuery(pairs) = SerializeQueryPlain([i \in DOMAIN pairs |-> Enc(pairs[i])])
    BY DEF SerializeQuery, Each
  <2> QED BY <1>1, <2>1
<1> HIDE DEF new
<1>6. SerializeQueryPlain(new) = Tail(FlattenSeq([i \in 1..Len(pairs) |-> <<"&">> \o Spelled(new[i])]))
  BY <1>2, <1>3 DEF SerializeQueryPlain, Each
<1>7. ASSUME NEW i \in 1..Len(pairs) PROVE Spelled(new[i]) = Chunk(pairs[i])
  <2> DEFINE pair == pairs[i]
  <2>1. pair \in Pairs /\ new[i] = Enc(pair)
    BY <1>1, <1>2
  <2> HIDE DEF pair
  <2>2. CASE pair[2] = None
    <3>1. Enc(pair)[2] = None /\ Enc(pair)[1] = EncodeForQuery(pair[1])
      BY <2>2
    <3> QED BY <2>1, <2>2, <3>1 DEF Chunk, pair
  <2>3. CASE pair[2] # None
    <3>1. Enc(pair)[2] = EncodeForQuery(pair[2]) /\ Enc(pair)[1] = EncodeForQuery(pair[1])
      BY <2>3
    <3>2. EncodeForQuery(pair[2]) # None
      <4>1. pair[2] \in Seq(Writable)
        BY <2>1, <2>3 DEF Pairs
      <4>2. EncodeForQuery(pair[2]) \in Seq(Spelt)
        BY <4>1, WrittenIs
      <4>3. Spelt \subseteq Token
        BY DEF Spelt
      <4> QED BY <4>2, <4>3, NoneIsNoText, SeqMonotonic
    <3> HIDE DEF Enc
    <3> QED BY <2>1, <2>3, <3>1, <3>2 DEF Chunk, pair
  <2> QED BY <2>2, <2>3
<1> HIDE DEF Spelled
<1>8. [i \in 1..Len(pairs) |-> <<"&">> \o Spelled(new[i])] = Pieces(pairs)
  BY <1>7 DEF Pieces
<1> QED BY <1>5, <1>6, <1>8

\* A text cut where its second half begins: at the first of the tokens.
LEMMA CutFirst ==
    ASSUME NEW T, NEW a \in Seq(T), NEW b \in Seq(T), NEW tokens,
           ~HoldsAny(a, tokens), b = <<>> \/ b[1] \in tokens
    PROVE  /\ Before(a \o b, tokens) = a
           /\ b = <<>> => ~HoldsAny(a \o b, tokens) /\ Index(a \o b, tokens) = 0 /\ After(a \o b, tokens) = None
           /\ b # <<>> => /\ HoldsAny(a \o b, tokens) /\ Index(a \o b, tokens) = Len(a) + 1
                          /\ After(a \o b, tokens) = Tail(b)
<1> DEFINE ab == a \o b
           i == Index(ab, tokens)
<1>1. CASE b = <<>>
  <2>1. ab = a
    BY <1>1, ConcatEmptySeq
  <2>2. i = 0
    BY <2>1 DEF Index
  <2> QED BY <1>1, <2>1, <2>2 DEF Before, After, Upto, Beyond
<1>2. CASE b # <<>>
  <2>1. PICK m \in Nat : m = Len(a)
    OBVIOUS
  <2>2. PICK n \in Nat : n = Len(b)
    OBVIOUS
  <2>3. n >= 1
    BY <1>2, <2>2
  <2>4. /\ ab \in Seq(T) /\ Len(ab) = m + n
        /\ \A j \in 1..m : ab[j] = a[j]
        /\ \A j \in 1..n : ab[j + m] = b[j]
    <3>1. /\ ab \in Seq(T) /\ Len(ab) = m + n
          /\ \A j \in 1..(m + n) : ab[j] = IF j <= m THEN a[j] ELSE b[j - m]
      BY <2>1, <2>2, ConcatProperties
    <3> HIDE DEF ab
    <3>2. \A j \in 1..m : ab[j] = a[j]
      BY <3>1
    <3>3. ASSUME NEW j \in 1..n PROVE ab[j + m] = b[j]
      <4>1. j + m \in 1..(m + n) /\ ~(j + m <= m) /\ (j + m) - m = j
        OBVIOUS
      <4> QED BY <3>1, <4>1
    <3> QED BY <3>1, <3>2, <3>3
  <2> HIDE DEF ab
  <2>5. i \in 0..(m + n) /\ (i # 0 => ab[i] \in tokens)
        /\ \A j \in 1..(m + n) : ab[j] \in tokens => i # 0 /\ i <= j
    BY <2>4, IndexIsFirst
  <2> HIDE DEF i
  <2>6. ab[m + 1] \in tokens /\ m + 1 \in 1..(m + n)
    <3>1. 1 \in 1..n /\ 1 + m = m + 1
      BY <2>3
    <3>2. ab[1 + m] = b[1]
      BY <2>4, <3>1
    <3> QED BY <1>2, <2>3, <3>1, <3>2
  <2>7. \A j \in 1..m : ab[j] \notin tokens
    BY <2>1, <2>4, SMTT(30) DEF HoldsAny
  <2>8. i = m + 1
    BY <2>5, <2>6, <2>7
  <2>9. Before(ab, tokens) = a
    <3>1. Before(ab, tokens) = Upto(ab, m + 1)
      BY <2>8 DEF Before, i
    <3>2. m + 1 \in 0..Len(ab) /\ m + 1 # 0 /\ (m + 1) - 1 = m
      BY <2>3, <2>4
    <3>3. Upto(ab, m + 1) \in Seq(T) /\ Len(Upto(ab, m + 1)) = m /\ \A j \in 1..m : Upto(ab, m + 1)[j] = ab[j]
      BY <2>4, <3>2, UptoIs
    <3> DEFINE u == Upto(ab, m + 1)
    <3>4. u \in Seq(T) /\ Len(u) = Len(a) /\ \A j \in 1..Len(u) : u[j] = a[j]
      BY <2>1, <2>4, <3>3
    <3> HIDE DEF u
    <3>5. u = a
      BY <3>4, SeqEqual
    <3> QED BY <3>1, <3>5 DEF u
  <2>10. After(ab, tokens) = Tail(b)
    <3>1. After(ab, tokens) = From(ab, m + 2)
      BY <2>8 DEF After, Beyond, i
    <3>2. m + 2 \in 1..(Len(ab) + 1) /\ Len(ab) + 1 - (m + 2) = n - 1 /\ n - 1 \in Nat
      BY <2>3, <2>4
    <3> DEFINE u == From(ab, m + 2)
               v == Tail(b)
    <3>7. /\ u \in Seq(T) /\ Len(u) = Len(ab) + 1 - (m + 2)
          /\ \A j \in 1..(Len(ab) + 1 - (m + 2)) : u[j] = ab[j + (m + 2) - 1]
      BY <2>4, <3>2, FromIs
    <3>3. u \in Seq(T) /\ Len(u) = n - 1 /\ \A j \in 1..(n - 1) : u[j] = ab[j + (m + 2) - 1]
      <4> HIDE DEF u
      <4> QED BY <3>2, <3>7
    <3>4. v \in Seq(T) /\ Len(v) = n - 1 /\ \A j \in 1..(n - 1) : v[j] = b[j + 1]
      BY <1>2, <2>2, HeadTailProperties
    <3> HIDE DEF u, v
    <3>5. ASSUME NEW j \in 1..(n - 1) PROVE u[j] = v[j]
      <4>1. j + 1 \in 1..n /\ (j + 1) + m = j + (m + 2) - 1
        BY <3>2
      <4> QED BY <2>4, <3>3, <3>4, <4>1
    <3>6. u = v
      BY <3>3, <3>4, <3>5, SeqEqual
    <3> QED BY <3>1, <3>6 DEF u, v
  <2>11. HoldsAny(ab, tokens)
    BY <2>4, <2>6 DEF HoldsAny
  <2> QED BY <1>2, <2>1, <2>8, <2>9, <2>10, <2>11 DEF ab, i
<1> QED BY <1>1, <1>2

\* What is not among a text's tokens it does not hold.
LEMMA HoldsNone ==
    ASSUME NEW T, NEW text \in Seq(T), NEW tokens
    PROVE  /\ text \in Seq(T \ tokens) <=> ~HoldsAny(text, tokens)
           /\ T \cap tokens = {} => ~HoldsAny(text, tokens)
<1>1. DOMAIN text = 1..Len(text) /\ Len(text) \in Nat /\ \A i \in 1..Len(text) : text[i] \in T
  OBVIOUS
<1>2. text \in Seq(T \ tokens) => \A i \in 1..Len(text) : text[i] \in T \ tokens
  OBVIOUS
<1>3. ASSUME ~HoldsAny(text, tokens) PROVE text \in Seq(T \ tokens)
  <2>1. \A i \in 1..Len(text) : text[i] \in T \ tokens
    BY <1>1, <1>3 DEF HoldsAny
  <2>2. text = [i \in 1..Len(text) |-> text[i]]
    OBVIOUS
  <2> DEFINE U == T \ tokens
  <2> HIDE DEF U
  <2>3. [i \in 1..Len(text) |-> text[i]] \in Seq(U)
    BY <1>1, <2>1 DEF U
  <2> QED BY <2>2, <2>3 DEF U
<1> QED BY <1>1, <1>2, <1>3 DEF HoldsAny

\* What is found in a written parameter is what was written.
LEMMA ChunkReadBack ==
    ASSUME NEW pair \in Pairs
    PROVE  ParamOf(Chunk(pair)) = pair
<1> DEFINE key == EncodeForQuery(pair[1])
           value == EncodeForQuery(pair[2])
           T == Spelt \cup {"="}
<1>1. pair[1] \in Seq(Writable) /\ (pair[2] # None => pair[2] \in Seq(Writable)) /\ pair = <<pair[1], pair[2]>>
  BY DEF Pairs
<1>2. key \in Seq(Spelt) /\ UnquotePlus(key) = pair[1]
  BY <1>1, WrittenIs
<1>3. pair[2] # None => value \in Seq(Spelt) /\ UnquotePlus(value) = pair[2]
  BY <1>1, WrittenIs
<1>4. Chunk(pair) = IF pair[2] = None THEN key ELSE key \o <<"=">> \o value
  BY DEF Chunk
<1> HIDE DEF key, value
<1>5. Spelt \cap {"="} = {}
  BY DEF Spelt
<1>6. ~HoldsAny(key, {"="})
  BY <1>2, <1>5, HoldsNone
<1>7. CASE pair[2] = None
  <2>1. Index(key, {"="}) = 0
    BY <1>6 DEF Index
  <2>2. Before(key, {"="}) = key /\ ~Holds(key, "=")
    BY <1>6, <2>1, HoldsOne DEF Before, Upto
  <2>3. Chunk(pair) = key
    BY <1>4, <1>7
  <2> QED BY <1>1, <1>2, <1>7, <2>2, <2>3 DEF ParamOf
<1>8. CASE pair[2] # None
  <2> DEFINE b == <<"=">> \o value
             ab == key \o b
  <2>1. key \in Seq(T) /\ value \in Seq(T)
    BY <1>2, <1>3, <1>8, SeqMonotonic
  <2>2. <<"=">> \in Seq(T)
    OBVIOUS
  <2> HIDE DEF T
  <2>3. Chunk(pair) = ab
    BY <1>4, <1>8, <2>1, <2>2, ConcatAssociative
  <2>4. b \in Seq(T) /\ b # <<>> /\ b[1] = "=" /\ Tail(b) = value
    BY <2>1, <2>2
  <2> HIDE DEF b
  <2>8. b[1] \in {"="}
    BY <2>4
  <2>5. Before(ab, {"="}) = key /\ HoldsAny(ab, {"="}) /\ After(ab, {"="}) = value
    <3>1. key \in Seq(T) /\ b \in Seq(T) /\ ~HoldsAny(key, {"="}) /\ (b = <<>> \/ b[1] \in {"="}) /\ b # <<>>
      BY <1>6, <2>1, <2>4, <2>8
    <3>2. Before(key \o b, {"="}) = key
      BY <3>1, CutFirst
    <3>3. HoldsAny(key \o b, {"="})
      BY <3>1, CutFirst
    <3>4. After(key \o b, {"="}) = Tail(b)
      BY <3>1, CutFirst
    <3> QED BY <2>4, <3>2, <3>3, <3>4
  <2>6. Holds(ab, "=")
    BY <2>5, HoldsOne
  <2> HIDE DEF ab
  <2>7. ParamOf(ab) = <<pair[1], pair[2]>>
    BY <1>2, <1>3, <1>8, <2>5, <2>6 DEF ParamOf
  <2> QED BY <1>1, <2>3, <2>7
<1> QED BY <1>7, <1>8

\* The pieces, one more each time.
LEMMA PiecesGrow ==
    ASSUME NEW pairs \in Seq(Pairs), NEW pair \in Pairs
    PROVE  /\ Pieces(pairs) \in Seq(Seq(Token)) /\ Len(Pieces(pairs)) = Len(pairs)
           /\ <<"&">> \o Chunk(pair) \in Seq(Token)
           /\ Pieces(Append(pairs, pair)) = Append(Pieces(pairs), <<"&">> \o Chunk(pair))
<1> DEFINE P(x) == <<"&">> \o Chunk(x)
           T == Spelt \cup {"="}
           new == Append(pairs, pair)
<1>1. ASSUME NEW x \in Pairs PROVE P(x) \in Seq(Token)
  <2>1. Chunk(x) \in Seq(T)
    BY ChunkIs
  <2>2. T \subseteq Token
    BY CharactersAreTokens DEF Spelt, Kept
  <2>3. Chunk(x) \in Seq(Token) /\ "&" \in Token
    BY <2>1, <2>2, SeqMonotonic, CharactersAreTokens DEF Kept
  <2> QED BY <2>3
<1>2. \A x \in Seq(Pairs) : Pieces(x) = [i \in 1..Len(x) |-> P(x[i])]
  BY DEF Pieces
<1>3. /\ new \in Seq(Pairs) /\ Len(new) = Len(pairs) + 1 /\ new[Len(pairs) + 1] = pair
      /\ \A i \in 1..Len(pairs) : new[i] = pairs[i]
  BY AppendIs
<1>4. PICK k \in Nat : k = Len(pairs)
  OBVIOUS
<1>5. \A i \in 1..k : pairs[i] \in Pairs
  BY <1>4
<1> HIDE DEF P, new
<1> DEFINE a == Pieces(new)
           c == Pieces(pairs)
           b == Append(c, P(pair))
<1>6. a = [i \in 1..(k + 1) |-> P(new[i])] /\ c = [i \in 1..k |-> P(pairs[i])]
  BY <1>2, <1>3, <1>4
<1> HIDE DEF a, c
<1>7. c \in Seq(Seq(Token)) /\ Len(c) = k /\ \A i \in 1..k : c[i] = P(pairs[i])
  BY <1>1, <1>5, <1>6
<1>8. P(pair) \in Seq(Token)
  BY <1>1
<1>9. b \in Seq(Seq(Token)) /\ Len(b) = k + 1 /\ b[k + 1] = P(pair) /\ \A i \in 1..k : b[i] = c[i]
  BY <1>7, <1>8, AppendIs
<1> HIDE DEF b
<1>10. ASSUME NEW i \in 1..(k + 1) PROVE P(new[i]) \in Seq(Token) /\ P(new[i]) = b[i]
  <2>1. CASE i = k + 1
    BY <1>3, <1>4, <1>8, <1>9, <2>1
  <2>2. CASE i \in 1..k
    BY <1>1, <1>3, <1>4, <1>5, <1>7, <1>9, <2>2
  <2> QED BY <2>1, <2>2
<1>11. a = b
  <2>1. a = [i \in 1..(k + 1) |-> b[i]]
    BY <1>6, <1>10
  <2>2. b = [i \in 1..(k + 1) |-> b[i]]
    BY <1>9
  <2> QED BY <2>1, <2>2
<1> QED BY <1>4, <1>7, <1>8, <1>11 DEF a, b, c, P, new

\* The tail of two texts.
LEMMA TailOfConcat ==
    ASSUME NEW T, NEW a \in Seq(T), a # <<>>, NEW b \in Seq(T)
    PROVE  Tail(a \o b) = Tail(a) \o b /\ Tail(a) \in Seq(T) /\ a \o b # <<>>
<1>1. PICK x \in T, rest \in Seq(T) : a = <<x>> \o rest
  <2>1. a = <<Head(a)>> \o Tail(a) /\ Head(a) \in T /\ Tail(a) \in Seq(T)
    OBVIOUS
  <2> QED BY <2>1
<1>2. <<x>> \in Seq(T) /\ a \o b = <<x>> \o (rest \o b) /\ rest \o b \in Seq(T)
  BY <1>1, ConcatAssociative
<1>3. ASSUME NEW y \in Seq(T) PROVE Tail(<<x>> \o y) = y /\ <<x>> \o y # <<>>
  OBVIOUS
<1> QED BY <1>1, <1>2, <1>3

\* A query with one more parameter is the query, "&", and the parameter.
LEMMA SerializeGrows ==
    ASSUME NEW pairs \in Seq(Pairs), NEW pair \in Pairs
    PROVE  /\ SerializeQuery(<<>>) = <<>>
           /\ pairs # <<>> => /\ SerializeQuery(pairs) \in Seq(Token)
                              /\ SerializeQuery(Append(pairs, pair))
                                    = (SerializeQuery(pairs) \o <<"&">>) \o Chunk(pair)
           /\ SerializeQuery(<<pair>>) = Chunk(pair)
<1> DEFINE Text(x) == FlattenSeq(Pieces(x))
           P == <<"&">> \o Chunk(pair)
<1>1. SerializeQuery(<<>>) = <<>>
  BY DEF SerializeQuery, SerializeQueryPlain, Each
<1>2. P \in Seq(Token) /\ Chunk(pair) \in Seq(Token) /\ <<"&">> \in Seq(Token) /\ P # <<>> /\ Tail(P) = Chunk(pair)
  <2>1. P \in Seq(Token)
    BY PiecesGrow
  <2>2. Chunk(pair) \in Seq(Token) /\ "&" \in Token
    <3>1. Chunk(pair) \in Seq(Spelt \cup {"="})
      BY ChunkIs
    <3>2. Spelt \cup {"="} \subseteq Token /\ "&" \in Token
      BY CharactersAreTokens DEF Spelt, Kept
    <3> QED BY <3>1, <3>2, SeqMonotonic
  <2> QED BY <2>1, <2>2
<1>3. ASSUME NEW x \in Seq(Pairs)
      PROVE  Text(Append(x, pair)) = IF x = <<>> THEN P ELSE Text(x) \o P
  <2>1. Pieces(x) \in Seq(Seq(Token)) /\ Len(Pieces(x)) = Len(x) /\ Pieces(Append(x, pair)) = Append(Pieces(x), P)
    BY PiecesGrow
  <2> HIDE DEF P
  <2> DEFINE p == Pieces(x)
  <2>2. p \in Seq(Seq(Token)) /\ Len(p) = Len(x)
    BY <2>1
  <2>3. FlattenSeq(Append(p, P)) = IF p = <<>> THEN P ELSE FlattenSeq(p) \o P
    BY <1>2, <2>2, FlattenGrows
  <2>4. p = <<>> <=> x = <<>>
    <3> HIDE DEF p
    <3> QED BY <2>2
  <2> QED BY <2>1, <2>3, <2>4
<1>4. Text(<<>>) = <<>>
  BY DEF Pieces, FlattenSeq
<1>5. ASSUME NEW x \in Seq(Pairs) PROVE Text(x) \in Seq(Token) /\ (x # <<>> => Text(x) # <<>>)
  <2> DEFINE G == {y \in Seq(Pairs) : Text(y) \in Seq(Token) /\ (y # <<>> => Text(y) # <<>>)}
  <2>1. <<>> \in G
    <3>1. <<>> \in Seq(Pairs) /\ <<>> \in Seq(Token)
      OBVIOUS
    <3> HIDE DEF Text
    <3> QED BY <1>4, <3>1
  <2>2. ASSUME NEW y \in Seq(Pairs), NEW e \in Pairs, y \in G PROVE Append(y, e) \in G
    <3> DEFINE Q == <<"&">> \o Chunk(e)
               p == Pieces(y)
    <3>1. Q \in Seq(Token) /\ p \in Seq(Seq(Token)) /\ Len(p) = Len(y) /\ Pieces(Append(y, e)) = Append(p, Q)
      BY PiecesGrow
    <3>2. Q # <<>>
      <4>1. Chunk(e) \in Seq(Spelt \cup {"="})
        BY ChunkIs
      <4> QED BY <4>1
    <3> HIDE DEF Q, p
    <3>3. FlattenSeq(Append(p, Q)) = IF p = <<>> THEN Q ELSE FlattenSeq(p) \o Q
      BY <3>1, FlattenGrows
    <3>4. FlattenSeq(p) \in Seq(Token)
      BY <2>2 DEF p
    <3>5. FlattenSeq(p) \o Q \in Seq(Token) /\ FlattenSeq(p) \o Q # <<>>
      <4> DEFINE f == FlattenSeq(p)
      <4> HIDE DEF f
      <4>1. f \o Q \in Seq(Token) /\ f \o Q # <<>>
        BY <3>1, <3>2, <3>4 DEF f
      <4> QED BY <4>1 DEF f
    <3>6. Text(Append(y, e)) \in Seq(Token) /\ Text(Append(y, e)) # <<>>
      BY <3>1, <3>2, <3>3, <3>5
    <3>7. Append(y, e) \in Seq(Pairs)
      OBVIOUS
    <3> HIDE DEF Text
    <3> QED BY <3>6, <3>7
  <2> HIDE DEF G
  <2>3. Seq(Pairs) \subseteq G
    BY <2>1, <2>2, AppendInduction
  <2> QED BY <2>3 DEF G
<1>6. <<pair>> = Append(<<>>, pair) /\ <<>> \in Seq(Pairs) /\ <<pair>> \in Seq(Pairs) /\ <<pair>> # <<>>
  OBVIOUS
<1>7. Append(pairs, pair) \in Seq(Pairs) /\ Append(pairs, pair) # <<>>
  BY AppendProperties
<1>8. SerializeQuery(<<pair>>) = Chunk(pair)
  <2>1. Text(<<pair>>) = P
    BY <1>3, <1>6
  <2> QED BY <1>2, <1>6, <2>1, SerializedPieces
<1>9. ASSUME pairs # <<>>
      PROVE  /\ SerializeQuery(pairs) \in Seq(Token)
             /\ SerializeQuery(Append(pairs, pair)) = (SerializeQuery(pairs) \o <<"&">>) \o Chunk(pair)
  <2> DEFINE t == Text(pairs)
             c == Chunk(pair)
  <2>1. t \in Seq(Token) /\ t # <<>>
    BY <1>5, <1>9
  <2>2. SerializeQuery(pairs) = Tail(t)
    BY <1>9, SerializedPieces
  <2>3. SerializeQuery(Append(pairs, pair)) = Tail(t \o P)
    BY <1>3, <1>7, <1>9, SerializedPieces
  <2> HIDE DEF t, c
  <2>4. Tail(t \o P) = Tail(t) \o P /\ Tail(t) \in Seq(Token)
    BY <1>2, <2>1, TailOfConcat
  <2>5. (Tail(t) \o <<"&">>) \o c = Tail(t) \o (<<"&">> \o c)
    BY <1>2, <2>4, ConcatAssociative DEF c
  <2> QED BY <2>2, <2>3, <2>4, <2>5 DEF c
<1> QED BY <1>1, <1>8, <1>9

\* A text split at a delimiter, and another after it: one more chunk.
LEMMA SplitJoins ==
    ASSUME NEW T, NEW delimiter \in T, NEW x \in Seq(T), NEW y \in Seq(T \ {delimiter})
    PROVE  /\ Split(y, delimiter) = <<y>>
           /\ Split((x \o <<delimiter>>) \o y, delimiter) = Append(Split(x, delimiter), y)
<1> DEFINE U == T \ {delimiter}
           xd == x \o <<delimiter>>
           sx == Split(x, delimiter)
           Good(z) == Split(z, delimiter) = <<z>> /\ Split(xd \o z, delimiter) = Append(sx, z)
           G == {z \in Seq(U) : Good(z)}
<1>1. sx \in Seq(Seq(T)) /\ sx # <<>>
  BY SplitIn
<1>2. xd = Append(x, delimiter) /\ xd \in Seq(T)
  OBVIOUS
<1>3. Split(xd, delimiter) = Append(sx, <<>>)
  <2>1. Split(xd, delimiter) = Grown(sx, delimiter, delimiter)
    BY <1>2, SplitGrows
  <2> QED BY <2>1 DEF Grown
<1> HIDE DEF xd, sx
<1>4. <<>> \in G
  <2>1. xd \o <<>> = xd
    BY <1>2, ConcatEmptySeq
  <2>2. Split(<<>>, delimiter) = << <<>> >>
    BY SplitGrows
  <2>3. <<>> \in Seq(U)
    OBVIOUS
  <2> QED BY <1>3, <2>1, <2>2, <2>3
<1>5. ASSUME NEW z \in Seq(U), NEW t \in U, z \in G PROVE Append(z, t) \in G
  <2>1. z \in Seq(T) /\ t \in T /\ t # delimiter /\ Append(z, t) \in Seq(U)
    <3>1. z \in Seq(T)
      BY SeqMonotonic
    <3> QED BY <3>1
  <2>2. Split(Append(z, t), delimiter) = <<Append(z, t)>>
    <3>1. Split(Append(z, t), delimiter) = Grown(Split(z, delimiter), t, delimiter)
      BY <2>1, SplitGrows
    <3>2. Split(z, delimiter) = <<z>>
      BY <1>5
    <3>3. Grown(<<z>>, t, delimiter) = <<Append(z, t)>>
      <4> DEFINE one == <<z>>
      <4>1. one \in Seq(Seq(T)) /\ Len(one) = 1 /\ one[1] = z /\ one # <<>>
        BY <2>1
      <4> HIDE DEF one
      <4> DEFINE new == Grown(one, t, delimiter)
      <4>2. new = [one EXCEPT ![1] = Append(z, t)]
        BY <2>1, <4>1 DEF Grown
      <4> HIDE DEF new
      <4>3. Len(new) = 1 /\ new[1] = Append(z, t) /\ new \in Seq(Seq(T))
        <5>1. Append(z, t) \in Seq(T)
          BY <2>1
        <5> QED BY <4>1, <4>2, <5>1
      <4>4. new = <<Append(z, t)>>
        BY <4>3
      <4> QED BY <4>4 DEF new, one
    <3> QED BY <3>1, <3>2, <3>3
  <2>3. Split(xd \o Append(z, t), delimiter) = Append(sx, Append(z, t))
    <3> DEFINE w == xd \o z
    <3>1. xd \o Append(z, t) = Append(w, t) /\ w \in Seq(T)
      <4>1. Append(z, t) = z \o <<t>> /\ <<t>> \in Seq(T)
        BY <2>1
      <4>2. xd \o (z \o <<t>>) = (xd \o z) \o <<t>>
        BY <1>2, <2>1, <4>1, ConcatAssociative
      <4>3. w \in Seq(T)
        BY <1>2, <2>1
      <4> HIDE DEF w
      <4>4. w \o <<t>> = Append(w, t)
        BY <2>1, <4>3
      <4> QED BY <4>1, <4>2, <4>3, <4>4 DEF w
    <3>2. Split(w, delimiter) = Append(sx, z)
      BY <1>5
    <3> HIDE DEF w
    <3>3. Split(Append(w, t), delimiter) = Grown(Append(sx, z), t, delimiter)
      BY <2>1, <3>1, <3>2, SplitGrows
    <3> DEFINE sz == Append(sx, z)
               az == Append(z, t)
    <3>4. PICK k \in Nat : k = Len(sx)
      BY <1>1
    <3>5. /\ sz \in Seq(Seq(T)) /\ Len(sz) = k + 1 /\ sz[k + 1] = z /\ \A i \in 1..k : sz[i] = sx[i]
      BY <1>1, <2>1, <3>4, AppendIs
    <3>6. az \in Seq(T)
      BY <2>1
    <3> HIDE DEF sz, az
    <3> DEFINE g == Grown(sz, t, delimiter)
               h == Append(sx, az)
    <3>7. g = [sz EXCEPT ![k + 1] = az]
      BY <2>1, <3>5 DEF Grown, az
    <3>8. /\ h \in Seq(Seq(T)) /\ Len(h) = k + 1 /\ h[k + 1] = az /\ \A i \in 1..k : h[i] = sx[i]
      BY <1>1, <3>4, <3>6, AppendIs
    <3> HIDE DEF g, h
    <3>9. k + 1 \in 1..Len(sz)
      BY <3>5
    <3>10. g \in Seq(Seq(T)) /\ Len(g) = k + 1 /\ \A i \in 1..(k + 1) : g[i] = IF i = k + 1 THEN az ELSE sz[i]
      BY <3>5, <3>6, <3>7, <3>9, ExceptSeq
    <3>11. ASSUME NEW i \in 1..(k + 1) PROVE g[i] = h[i]
      <4>1. CASE i = k + 1
        BY <3>8, <3>10, <4>1
      <4>2. CASE i \in 1..k /\ i # k + 1
        BY <3>5, <3>8, <3>10, <4>2
      <4> QED BY <3>4, <4>1, <4>2
    <3>12. g = h
      BY <3>8, <3>10, <3>11, SeqEqual
    <3> QED BY <3>1, <3>3, <3>12 DEF g, h, sz, az
  <2> QED BY <2>1, <2>2, <2>3
<1> HIDE DEF G
<1>6. Seq(U) \subseteq G
  BY <1>4, <1>5, AppendInduction
<1> QED BY <1>6 DEF G, xd, sx

\* The parameters whose keys are not empty, and the chunks they are written as.
Named == {pair \in Pairs : pair[1] # <<>>}
ChunksOf(pairs) == [i \in 1..Len(pairs) |-> Chunk(pairs[i])]
\* They are texts, none of them empty, one per pair.
LEMMA ChunksOfIs ==
    ASSUME NEW pairs \in Seq(Named)
    PROVE  /\ ChunksOf(pairs) \in Seq(Seq(Token) \ {<<>>}) /\ Len(ChunksOf(pairs)) = Len(pairs)
           /\ \A i \in 1..Len(pairs) : ChunksOf(pairs)[i] = Chunk(pairs[i])
<1> DEFINE C == Seq(Token) \ {<<>>}
<1>1. Len(pairs) \in Nat /\ \A i \in 1..Len(pairs) : pairs[i] \in Named
  OBVIOUS
<1>2. ASSUME NEW pair \in Named PROVE Chunk(pair) \in C
  <2>1. Chunk(pair) \in Seq(Spelt \cup {"="}) /\ Chunk(pair) # <<>>
    BY ChunkIs DEF Named
  <2>2. Spelt \cup {"="} \subseteq Token
    BY CharactersAreTokens DEF Spelt, Kept
  <2> QED BY <2>1, <2>2, SeqMonotonic
<1>3. \A i \in 1..Len(pairs) : Chunk(pairs[i]) \in C
  BY <1>1, <1>2
<1> HIDE DEF C
<1>4. ChunksOf(pairs) \in Seq(C) /\ Len(ChunksOf(pairs)) = Len(pairs)
      /\ \A i \in 1..Len(pairs) : ChunksOf(pairs)[i] = Chunk(pairs[i])
  BY <1>1, <1>3 DEF ChunksOf
<1> QED BY <1>4 DEF C

\* Split at "&", what was written falls into these.
LEMMA SplitSerialized ==
    ASSUME NEW pairs \in Seq(Named), pairs # <<>>
    PROVE  SerializeQuery(pairs) \in Seq(Token) /\ Split(SerializeQuery(pairs), "&") = ChunksOf(pairs)
<1> DEFINE Q(x) == SerializeQuery(x)
           Good(x) == x # <<>> => Q(x) \in Seq(Token) /\ Split(Q(x), "&") = ChunksOf(x)
           G == {x \in Seq(Named) : Good(x)}
<1>1. <<>> \in G
  <2>1. <<>> \in Seq(Named)
    OBVIOUS
  <2> QED BY <2>1
<1>2. ASSUME NEW x \in Seq(Named), NEW pair \in Named, x \in G PROVE Append(x, pair) \in G
  <2> DEFINE y == Append(x, pair)
             c == Chunk(pair)
  <2>1. y \in Seq(Named) /\ Len(y) = Len(x) + 1 /\ y[Len(x) + 1] = pair /\ \A i \in 1..Len(x) : y[i] = x[i]
    BY AppendIs
  <2>2. "&" \in Token /\ Seq(Token \ {"&"}) \subseteq Seq(Token)
    BY CharactersAreTokens, SeqMonotonic DEF Kept
  <2>3. c \in Seq(Token \ {"&"}) /\ pair \in Pairs /\ x \in Seq(Pairs)
    <3>1. c \in Seq(Spelt \cup {"="}) /\ pair \in Pairs
      BY ChunkIs DEF Named
    <3>2. Spelt \cup {"="} \subseteq Token \ {"&"}
      BY CharactersAreTokens DEF Spelt, Kept
    <3>3. Named \subseteq Pairs
      BY DEF Named
    <3> QED BY <3>1, <3>2, <3>3, SeqMonotonic
  <2> HIDE DEF c, y
  <2>4. PICK k \in Nat : k = Len(x)
    OBVIOUS
  <2> DEFINE a == ChunksOf(y)
  <2>5. a \in Seq(Seq(Token) \ {<<>>}) /\ Len(a) = k + 1 /\ \A i \in 1..(k + 1) : a[i] = Chunk(y[i])
    BY <2>1, <2>4, ChunksOfIs
  <2> HIDE DEF a
  <2>6. CASE x = <<>>
    <3>1. Q(y) = c
      <4>1. y = <<pair>>
        BY <2>6 DEF y
      <4> QED BY <2>3, <4>1, SerializeGrows DEF c
    <3>2. Split(c, "&") = <<c>>
      <4>1. <<>> \in Seq(Token)
        OBVIOUS
      <4> QED BY <2>2, <2>3, <4>1, SplitJoins
    <3>3. a = <<c>>
      <4>1. Len(a) = 1 /\ a[1] = c
        BY <2>1, <2>4, <2>5, <2>6 DEF c
      <4> DEFINE C == Seq(Token) \ {<<>>}
      <4>2. a \in Seq(C)
        BY <2>5
      <4> HIDE DEF C
      <4> QED BY <4>1, <4>2
    <3>4. Q(y) \in Seq(Token)
      BY <2>2, <2>3, <3>1
    <3>5. Split(Q(y), "&") = ChunksOf(y)
      BY <3>1, <3>2, <3>3 DEF a
    <3> HIDE DEF Q
    <3> QED BY <2>1, <3>4, <3>5 DEF y
  <2>7. CASE x # <<>>
    <3>1. Q(x) \in Seq(Token) /\ Split(Q(x), "&") = ChunksOf(x)
      BY <1>2, <2>7
    <3>2. Q(y) = (Q(x) \o <<"&">>) \o c
      BY <2>3, <2>7, SerializeGrows DEF c, y
    <3> DEFINE q == Q(x)
               b == ChunksOf(x)
    <3> HIDE DEF Q
    <3>3. Split((q \o <<"&">>) \o c, "&") = Append(Split(q, "&"), c)
      BY <2>2, <2>3, <3>1, SplitJoins
    <3>4. b \in Seq(Seq(Token) \ {<<>>}) /\ Len(b) = k /\ \A i \in 1..k : b[i] = Chunk(x[i])
      BY <2>4, ChunksOfIs
    <3>5. c \in Seq(Token) /\ c # <<>>
      BY <2>2, <2>3, ChunkIs DEF Named, c
    <3> HIDE DEF b
    <3> DEFINE d == Append(b, c)
               T == Seq(Token) \ {<<>>}
    <3>6. c \in T
      BY <3>5
    <3> HIDE DEF T
    <3>7. d \in Seq(T) /\ Len(d) = k + 1 /\ d[k + 1] = c /\ \A i \in 1..k : d[i] = b[i]
      BY <3>4, <3>6, AppendIs DEF T
    <3> HIDE DEF d
    <3>8. ASSUME NEW i \in 1..(k + 1) PROVE a[i] = d[i]
      <4>1. CASE i = k + 1
        BY <2>1, <2>4, <2>5, <3>7, <4>1 DEF c
      <4>2. CASE i \in 1..k
        BY <2>1, <2>4, <2>5, <3>4, <3>7, <4>2
      <4> QED BY <4>1, <4>2
    <3>9. a = d
      BY <2>5, <3>7, <3>8, SeqEqual DEF T
    <3>10. (q \o <<"&">>) \o c \in Seq(Token)
      <4>1. <<"&">> \in Seq(Token)
        BY <2>2
      <4> HIDE DEF q
      <4> QED BY <3>1, <3>5, <4>1, ConcatProperties DEF q
    <3>11. Q(y) \in Seq(Token)
      BY <3>2, <3>10 DEF q, Q
    <3>12. Split(Q(y), "&") = ChunksOf(y)
      BY <3>1, <3>2, <3>3, <3>9 DEF a, b, d, q, Q
    <3> QED BY <2>1, <3>11, <3>12 DEF y
  <2> QED BY <2>6, <2>7 DEF y
<1> HIDE DEF G
<1>3. Seq(Named) \subseteq G
  BY <1>1, <1>2, AppendInduction
<1> QED BY <1>3 DEF G

\* Parameters are read back as they were written, whatever characters are in them.
THEOREM ParamsReadBack ==
    ASSUME NEW pairs \in Seq(Named)
    PROVE  ParseQuery(SerializeQuery(pairs)) = pairs
<1>1. CASE pairs = <<>>
  BY <1>1 DEF SerializeQuery, SerializeQueryPlain, Each, ParseQuery
<1>2. CASE pairs # <<>>
  <2> DEFINE q == SerializeQuery(pairs)
             c == ChunksOf(pairs)
             C == Seq(Token) \ {<<>>}
  <2>1. q \in Seq(Token) /\ Split(q, "&") = c
    BY <1>2, SplitSerialized
  <2>2. c \in Seq(C) /\ Len(c) = Len(pairs) /\ \A i \in 1..Len(pairs) : c[i] = Chunk(pairs[i])
    BY ChunksOfIs
  <2>3. Len(pairs) \in Nat /\ Len(pairs) # 0 /\ \A i \in 1..Len(pairs) : pairs[i] \in Named
    BY <1>2
  <2>4. C \cap {<<>>} = {}
    OBVIOUS
  <2> HIDE DEF c, C, q
  <2>5. Without(c, {<<>>}) = c
    BY <2>2, <2>4, WithoutIn
  <2>6. q # <<>>
    <3>1. CASE q = <<>>
      <4>1. c = << <<>> >>
        BY <2>1, <3>1, SplitGrows
      <4>2. c[1] = <<>> /\ 1 \in 1..Len(c)
        BY <4>1
      <4>3. c[1] \in C
        BY <2>2, <4>2
      <4> QED BY <4>2, <4>3 DEF C
    <3> QED BY <3>1
  <2>7. DecodeQueryPairs(q) = [i \in DOMAIN c |-> ParamOf(c[i])]
    BY <2>1, <2>5, ParamsOfChunks
  <2>8. ASSUME NEW i \in 1..Len(pairs) PROVE ParamOf(c[i]) = pairs[i]
    BY <2>2, <2>3, ChunkReadBack DEF Named
  <2>9. DOMAIN c = 1..Len(pairs)
    BY <2>2
  <2>10. pairs = [i \in 1..Len(pairs) |-> pairs[i]]
    OBVIOUS
  <2>11. DecodeQueryPairs(q) = pairs
    <3> HIDE DEF ParamOf
    <3> QED BY <2>7, <2>8, <2>9, <2>10
  <2>12. q \notin {None, <<>>}
    BY <2>1, <2>6, NoneIsNoText
  <2> QED BY <2>11, <2>12 DEF ParseQuery, q
<1> QED BY <1>1, <1>2

\* A written query is a text.
LEMMA SerializedIsText ==
    ASSUME NEW pairs \in Seq(Pairs)
    PROVE  SerializeQuery(pairs) \in Seq(Token)
<1>1. CASE pairs = <<>>
  BY <1>1 DEF SerializeQuery, SerializeQueryPlain, Each
<1>2. CASE pairs # <<>>
  <2>1. <<>> \in Seq(Writable)
    OBVIOUS
  <2>2. << <<>>, None>> \in Pairs
    BY <2>1 DEF Pairs
  <2> QED BY <1>2, <2>2, SerializeGrows
<1> QED BY <1>1, <1>2

\* The parameters of a text can be written, those of a valid query have names.
LEMMA ParsedPairs ==
    ASSUME NEW query, query = None \/ query \in Seq(Token)
    PROVE  /\ ParseQuery(query) \in Seq(Pairs)
           /\ (\A pair \in Range(ParseQuery(query)) : pair[1] # <<>>) => ParseQuery(query) \in Seq(Named)
<1> DEFINE p == ParseQuery(query)
<1>1. ASSUME NEW text \in Seq(Token) PROVE UnquotePlus(text) \in Seq(Writable)
  <2> DEFINE u == UnquotePlus(text)
  <2>1. u = [i \in 1..Len(text) |-> Plain(text[i])] /\ Len(text) \in Nat /\ \A i \in 1..Len(text) : text[i] \in Token
    BY UnquotePlusIs
  <2>2. ASSUME NEW token \in Token PROVE Plain(token) \in Writable
    <3>1. Plain(token) \in Token
      BY PlainToken
    <3>2. Space \notin DOMAIN Decoded
      BY CharactersAreTokens
    <3>3. Plain(token) \in DOMAIN Decoded => \E escape \in DOMAIN Decoded : Decoded[escape] = Plain(token)
      BY <3>2 DEF Plain
    <3> QED BY <3>1, <3>3 DEF Writable
  <2>3. \A i \in 1..Len(text) : Plain(text[i]) \in Writable
    BY <2>1, <2>2
  <2> HIDE DEF u, Plain
  <2>4. u \in Seq(Writable)
    BY <2>1, <2>3
  <2> QED BY <2>4 DEF u
<1>2. ASSUME NEW chunk \in Seq(Token) PROVE ParamOf(chunk) \in Pairs
  <2>1. Before(chunk, {"="}) \in Seq(Token)
    BY IndexFound, UptoIs DEF Before
  <2>2. ASSUME Holds(chunk, "=") PROVE After(chunk, {"="}) \in Seq(Token)
    <3> DEFINE i == Index(chunk, {"="})
    <3>1. i \in 1..Len(chunk)
      BY <2>2, HoldsOne, IndexFound
    <3> HIDE DEF i
    <3>2. i + 1 \in 1..(Len(chunk) + 1) /\ i # 0
      BY <3>1
    <3>3. From(chunk, i + 1) \in Seq(Token)
      BY <3>2, FromIs
    <3> QED BY <3>2, <3>3 DEF After, Beyond, i
  <2>3. UnquotePlus(Before(chunk, {"="})) \in Seq(Writable)
    BY <1>1, <2>1
  <2>4. Holds(chunk, "=") => UnquotePlus(After(chunk, {"="})) \in Seq(Writable)
    BY <1>1, <2>2
  <2> QED BY <2>3, <2>4 DEF ParamOf, Pairs
<1>3. p \in Seq(Pairs)
  <2>1. CASE query \in {None, <<>>}
    BY <2>1 DEF ParseQuery
  <2>2. CASE query \notin {None, <<>>}
    <3> DEFINE c == Without(Split(query, "&"), {<<>>})
    <3>1. Split(query, "&") \in Seq(Seq(Token))
      BY <2>2, SplitIn
    <3>2. c \in Seq(Seq(Token) \ {<<>>})
      BY <3>1, WithoutIn
    <3>3. p = [i \in DOMAIN c |-> ParamOf(c[i])]
      BY <2>2, ParamsOfChunks DEF ParseQuery
    <3> HIDE DEF c, p
    <3>4. DOMAIN c = 1..Len(c) /\ Len(c) \in Nat /\ \A i \in 1..Len(c) : c[i] \in Seq(Token)
      BY <3>2
    <3>5. \A i \in 1..Len(c) : ParamOf(c[i]) \in Pairs
      BY <1>2, <3>4
    <3> HIDE DEF ParamOf
    <3> QED BY <3>3, <3>4, <3>5
  <2> QED BY <2>1, <2>2
<1> HIDE DEF p
<1>4. ASSUME \A pair \in Range(p) : pair[1] # <<>> PROVE p \in Seq(Named)
  <2>1. Range(p) = {p[i] : i \in 1..Len(p)}
    BY <1>3, RangeEquality
  <2>2. \A i \in 1..Len(p) : p[i] \in Named
    BY <1>3, <1>4, <2>1 DEF Named
  <2>3. p = [i \in 1..Len(p) |-> p[i]] /\ Len(p) \in Nat
    BY <1>3
  <2>4. [i \in 1..Len(p) |-> p[i]] \in Seq(Named)
    BY <2>2, <2>3
  <2> QED BY <2>3, <2>4
<1> QED BY <1>3, <1>4 DEF p

-----------------------------------------------------------------------------
(***************************************************************************)
(* The parts of a URL                                                      *)
(***************************************************************************)

\* A text cut at a token: both halves are texts, the first has none of the tokens.
LEMMA CutIs ==
    ASSUME NEW T, NEW text \in Seq(T), NEW tokens
    PROVE  /\ Before(text, tokens) \in Seq(T) /\ Before(text, tokens) \in Seq(T \ tokens)
           /\ HoldsAny(text, tokens) => After(text, tokens) \in Seq(T)
           /\ ~HoldsAny(text, tokens) => After(text, tokens) = None /\ Before(text, tokens) = text
<1> DEFINE i == Index(text, tokens)
<1>1. /\ i \in 0..Len(text) /\ (HoldsAny(text, tokens) => i # 0) /\ (~HoldsAny(text, tokens) => i = 0)
  BY IndexFound
<1>2. \A j \in 1..Len(text) : text[j] \in tokens => i # 0 /\ i <= j
  BY IndexIsFirst
<1>3. Before(text, tokens) = Upto(text, i) /\ After(text, tokens) = Beyond(text, i)
  BY DEF Before, After
<1> HIDE DEF i
<1>4. i = 0 => After(text, tokens) = None /\ Before(text, tokens) = text
  BY <1>3 DEF Upto, Beyond
<1>5. i # 0 => After(text, tokens) \in Seq(T)
  <2>1. i # 0 => i + 1 \in 1..(Len(text) + 1)
    BY <1>1
  <2> QED BY <1>3, <2>1, FromIs DEF Beyond
<1> DEFINE u == Before(text, tokens)
<1>6. u \in Seq(T)
  BY <1>1, <1>3, UptoIs
<1>7. ~HoldsAny(u, tokens)
  <2>1. CASE i = 0
    BY <1>1, <1>4, <2>1
  <2>2. CASE i # 0
    <3>1. Len(u) = i - 1 /\ \A j \in 1..(i - 1) : u[j] = text[j]
      BY <1>1, <1>3, <2>2, UptoIs
    <3> HIDE DEF u
    <3>2. DOMAIN u = 1..(i - 1)
      BY <1>6, <3>1
    <3>3. \A j \in 1..(i - 1) : text[j] \notin tokens
      BY <1>1, <1>2, <2>2
    <3> QED BY <3>1, <3>2, <3>3 DEF HoldsAny
  <2> QED BY <2>1, <2>2
<1>8. u \in Seq(T \ tokens)
  <2> HIDE DEF u
  <2> QED BY <1>6, <1>7, HoldsNone
<1> QED BY <1>1, <1>4, <1>5, <1>6, <1>8

\* What parse_userinfo and normalize_userinfo_component leave.
UserText == Kept \ {"/", "?", "#", "@", Space}
GoodUserinfo(userinfo) == userinfo \in Seq(UserText) /\ userinfo # <<>> /\ userinfo[1] # ":"
\* A userinfo that is parsed is normalised, and is parsed as itself.
LEMMA UserinfoNormalised ==
    ASSUME NEW userinfo \in Seq(Token)
    PROVE  /\ NormalizeUserinfoComponent(userinfo) = Bad \/ GoodUserinfo(NormalizeUserinfoComponent(userinfo))
           /\ GoodUserinfo(userinfo) => /\ NormalizeUserinfo(userinfo) = userinfo
                                        /\ NormalizeUserinfoComponent(userinfo) = userinfo
<1> DEFINE unsafe == {"/", "?", "#", "@", Space}
           e == Encode(userinfo, unsafe)
           v == NormalizePercentEncoding(e)
<1>0. unsafe \subseteq {"/", "?", "#", "@", Space}
  OBVIOUS
<1>1. /\ e \in Seq(Token) /\ Len(e) = Len(userinfo) /\ ~HoldsAny(e, unsafe)
      /\ \A i \in 1..Len(userinfo) : e[i] = userinfo[i] \/ (userinfo[i] \in unsafe /\ e[i] \in DOMAIN Decoded)
      /\ ~HoldsAny(userinfo, unsafe) => e = userinfo
  BY EncodedIs
<1>2. unsafe \subseteq {"/", "?", "#", ":", "@", "&", "=", "+", Space}
  OBVIOUS
<1>3. NormalizeUserinfo(userinfo) = v
  BY DEF NormalizeUserinfo
<1> HIDE DEF e, unsafe
<1>4. v \in Seq(Kept) /\ Len(v) = Len(e) /\ \A i \in 1..Len(e) : v[i] = Normal(e[i])
  BY <1>1, EscapesNormalised
<1>5. ~HoldsAny(v, unsafe)
  BY <1>1, <1>2, NormalHolds
<1> HIDE DEF v
<1>6. v \in Seq(Kept \ unsafe)
  BY <1>4, <1>5, HoldsNone
<1>7. ASSUME userinfo # <<>>, userinfo[1] # ":" PROVE v # <<>> /\ v[1] # ":"
  <2>1. 1 \in 1..Len(userinfo)
    BY <1>7
  <2>2. e[1] # ":"
    BY <1>1, <1>7, <2>1, CharactersAreTokens
  <2>3. v[1] # ":"
    BY <1>1, <1>4, <2>1, <2>2, NormalToken
  <2> QED BY <1>1, <1>4, <2>1, <2>3
<1>8. NormalizeUserinfoComponent(userinfo) # Bad =>
         NormalizeUserinfoComponent(userinfo) = v /\ userinfo # <<>> /\ userinfo[1] # ":"
  BY <1>3 DEF NormalizeUserinfoComponent
<1>9. GoodUserinfo(userinfo) => NormalizeUserinfo(userinfo) = userinfo
  <2> SUFFICES ASSUME GoodUserinfo(userinfo) PROVE v = userinfo
    BY <1>3
  <2>1. userinfo \in Seq(Kept \ unsafe)
    BY DEF GoodUserinfo, UserText, unsafe
  <2>2. userinfo \in Seq(Kept) /\ ~HoldsAny(userinfo, unsafe)
    <3>1. userinfo \in Seq(Kept)
      BY <2>1, SeqMonotonic
    <3> QED BY <2>1, <3>1, HoldsNone
  <2> QED BY <1>1, <2>2, EscapesNormalised DEF v
<1>10. GoodUserinfo(userinfo) => NormalizeUserinfoComponent(userinfo) = userinfo
  <2> SUFFICES ASSUME GoodUserinfo(userinfo) PROVE NormalizeUserinfoComponent(userinfo) = userinfo
    OBVIOUS
  <2>1. ~Holds(userinfo, "@")
    <3>1. userinfo \in Seq(UserText) /\ UserText \cap {"@"} = {}
      BY DEF GoodUserinfo, UserText
    <3>2. ~HoldsAny(userinfo, {"@"})
      BY <3>1, HoldsNone
    <3> QED BY <3>2, HoldsOne
  <2> QED BY <1>9, <2>1 DEF NormalizeUserinfoComponent, GoodUserinfo
<1>11. v \in Seq(UserText)
  BY <1>6 DEF UserText, unsafe
<1> QED BY <1>7, <1>8, <1>9, <1>10, <1>11 DEF GoodUserinfo

\* A port that parse_port returns is one it reads.
LEMMA PortParsed ==
    /\ \A text : ParsePort(text) = Bad \/ IsPort(ParsePort(text))
    /\ \A port : IsPort(port) => /\ ParsePort(port) = port /\ port \notin {None, Bad}
                                 /\ port \in Seq(Token \ Delimiters) /\ port # <<>>
    /\ \A scheme : DefaultPort(scheme) = None \/ IsPort(DefaultPort(scheme))
<1>1. \A text : ParsePort(text) = Bad \/ IsPort(ParsePort(text))
  BY PortsAssumption DEF ParsePort
<1>2. ASSUME NEW port, IsPort(port)
      PROVE  /\ ParsePort(port) = port /\ port \notin {None, Bad}
             /\ port \in Seq(Token \ Delimiters) /\ port # <<>>
  <2>1. PICK digits \in DOMAIN PortOf : port = <<digits>> /\ PortOf[digits] = port
    BY <1>2 DEF IsPort
  <2>2. digits \in Token \ Delimiters
    BY PortsAssumption
  <2>3. Len(<<digits>>) = 1 /\ <<digits>>[1] = digits
    OBVIOUS
  <2>4. ParsePort(port) = port
    BY <2>1, <2>3 DEF ParsePort
  <2> DEFINE T == Token \ Delimiters
  <2>5. T \subseteq Token /\ digits \in T
    BY <2>2
  <2> HIDE DEF T
  <2>6. <<digits>> \in Seq(T) /\ <<digits>> # <<>>
    BY <2>5
  <2>7. port \in Seq(Token)
    BY <2>1, <2>5, <2>6, SeqMonotonic
  <2> QED BY <2>1, <2>4, <2>6, <2>7, NoneIsNoText DEF T
<1>3. \A scheme : DefaultPort(scheme) = None \/ IsPort(DefaultPort(scheme))
  BY PortsAssumption DEF DefaultPort
<1> QED BY <1>1, <1>2, <1>3

\* The tokens of a valid host end nothing.
LEMMA HostTokens ==
    ASSUME NEW host, ValidHost(host)
    PROVE  host \in Seq(Token \ Delimiters) /\ host # <<>>
<1>1. host \in Seq(Token) /\ DOMAIN host = 1..Len(host)
  BY DEF ValidHost, IsText
<1>2. host # <<>>
  BY DEF ValidHost
<1>3. \A i \in 1..Len(host) : host[i] \notin Delimiters
  <2>1. CASE Len(host) = 1 /\ host[1] \in IPv4s \cup DOMAIN IPv6s
    BY <2>1, NamesAssumption
  <2>2. CASE \A i \in DOMAIN host : IsHostToken(host[i])
    BY <1>1, <2>2 DEF IsHostToken, NotInNames
  <2> QED BY <2>1, <2>2 DEF ValidHost
<1>4. ~HoldsAny(host, Delimiters)
  BY <1>1, <1>3 DEF HoldsAny
<1> QED BY <1>1, <1>2, <1>4, HoldsNone

\* A scheme that is valid is in lower case, and ends at the first colon.
LEMMA SchemeIs ==
    ASSUME NEW scheme \in Seq(Token), IsValidScheme(scheme)
    PROVE  Lower(scheme) = scheme /\ scheme \in Seq(Token \ {"/", "?", "#", ":", "@"}) /\ scheme # <<>>
<1>1. DOMAIN scheme = 1..Len(scheme) /\ scheme = [i \in 1..Len(scheme) |-> scheme[i]]
  OBVIOUS
<1>2. \A i \in 1..Len(scheme) : scheme[i] = "+" \/ (IsHostToken(scheme[i]) /\ scheme[i] \notin DOMAIN LowerOf)
  BY <1>1 DEF IsValidScheme
<1>3. "+" \notin DOMAIN LowerOf
  BY NamesAssumption DEF NotInNames, Delimiters
<1>4. \A i \in 1..Len(scheme) : Lowered(scheme[i]) = scheme[i] /\ scheme[i] \notin {"/", "?", "#", ":", "@"}
  BY <1>2, <1>3 DEF Lowered, IsHostToken, NotInNames, Delimiters
<1>5. Lower(scheme) = [i \in 1..Len(scheme) |-> Lowered(scheme[i])]
  BY LowerIs
<1>6. Lower(scheme) = scheme
  <2> HIDE DEF Lowered
  <2> QED BY <1>1, <1>4, <1>5
<1>7. ~HoldsAny(scheme, {"/", "?", "#", ":", "@"})
  BY <1>1, <1>4 DEF HoldsAny
<1>8. scheme # <<>>
  BY DEF IsValidScheme
<1> QED BY <1>6, <1>7, <1>8, HoldsNone

\* The path that normalize_components returns has no dot segment, and nothing in it that
\* was not in the path it came from; with a host, it has a root.
LEMMA PathNormalised ==
    ASSUME NEW K, "/" \in K, "." \in K, NEW host, NEW path \in Seq(Token),
           NormalizePercentEncoding(path) \in Seq(K)
    PROVE  LET p == OrRoot(host, NormalizePath(Rooted(host, path)))
           IN  p \in Seq(K) /\ DotFree(p) /\ (host # None => p # <<>> /\ p[1] = "/")
<1> DEFINE rooted == Rooted(host, path)
           n == NormalizePercentEncoding(rooted)
           c == NormalizePath(rooted)
           p == OrRoot(host, c)
<1>0. "/" \in Token /\ Normal("/") = "/"
  BY CharactersAreTokens, NormalToken DEF Kept
<1>1. /\ rooted \in Seq(Token) /\ n \in Seq(K) /\ Len(n) = Len(rooted)
      /\ host # None => rooted = <<>> \/ rooted[1] = "/"
  <2> DEFINE m == NormalizePercentEncoding(path)
  <2>1. CASE host # None /\ path # <<>> /\ path[1] # "/"
    <3> DEFINE r == <<"/">> \o path
    <3>1. rooted = r
      BY <2>1 DEF Rooted
    <3>2. r \in Seq(Token) /\ r # <<>> /\ r[1] = "/" /\ Len(r) = Len(path) + 1
          /\ \A i \in 2..Len(r) : r[i] = path[i - 1]
      BY <1>0
    <3> HIDE DEF r
    <3> DEFINE v == NormalizePercentEncoding(r)
    <3>3. v = [i \in 1..Len(r) |-> Normal(r[i])] /\ Len(v) = Len(r)
      BY <3>2, EscapesNormalised
    <3>4. m \in Seq(K) /\ Len(m) = Len(path) /\ \A i \in 1..Len(path) : m[i] = Normal(path[i])
      BY EscapesNormalised
    <3> HIDE DEF v, m
    <3>5. ASSUME NEW i \in 1..Len(r) PROVE Normal(r[i]) \in K
      <4>1. CASE i = 1
        BY <1>0, <3>2, <4>1
      <4>2. CASE i # 1
        <5>1. i \in 2..Len(r) /\ i - 1 \in 1..Len(path)
          BY <3>2, <4>2
        <5>2. m[i - 1] \in K
          BY <3>4, <5>1
        <5> HIDE DEF Normal
        <5> QED BY <3>2, <3>4, <5>1, <5>2
      <4> QED BY <4>1, <4>2
    <3>6. v \in Seq(K)
      <4>1. Len(r) \in Nat
        BY <3>2
      <4> HIDE DEF Normal
      <4> QED BY <3>3, <3>5, <4>1
    <3> QED BY <3>1, <3>2, <3>3, <3>6 DEF v
  <2>2. CASE ~(host # None /\ path # <<>> /\ path[1] # "/")
    <3>1. rooted = path
      BY <2>2 DEF Rooted
    <3>2. Len(m) = Len(path)
      BY EscapesNormalised
    <3> QED BY <2>2, <3>1, <3>2
  <2> QED BY <2>1, <2>2
<1>2. c = NormalizeDotSegments(n)
  BY DEF NormalizePath
<1>3. \A i \in 1..Len(rooted) : n[i] = Normal(rooted[i])
  BY <1>1, EscapesNormalised
<1> HIDE DEF rooted, n
<1>4. c \in Seq(K) /\ DotFree(c)
  BY <1>1, <1>2, RootedIsClean
<1>5. host # None => c = <<>> \/ (c # <<>> /\ c[1] = "/")
  <2> SUFFICES ASSUME host # None, c # <<>> PROVE c[1] = "/"
    OBVIOUS
  <2>1. n # <<>>
    BY <1>2 DEF NormalizeDotSegments
  <2>2. 1 \in 1..Len(rooted)
    BY <1>1, <2>1
  <2>3. n[1] = "/"
    BY <1>0, <1>1, <1>3, <2>2
  <2>4. c = RemoveDotSegments(n)
    BY <1>2, <2>1, <2>3 DEF NormalizeDotSegments
  <2> QED BY <1>1, <2>1, <2>3, <2>4, RemovesDotSegments DEF Clean
<1> HIDE DEF c
<1>6. <<"/">> \in Seq(K) /\ DotFree(<<"/">>) /\ <<"/">> # <<>> /\ <<"/">>[1] = "/"
  <2>1. "/" # "."
    OBVIOUS
  <2> QED BY <2>1 DEF DotFree, DotAt
<1>7. p \in Seq(K) /\ DotFree(p) /\ (host # None => p # <<>> /\ p[1] = "/")
  BY <1>4, <1>5, <1>6 DEF OrRoot
<1> QED BY <1>7 DEF p, c, rooted

\* The form of each part.
GoodScheme(scheme) == scheme \in Seq(Token) /\ IsValidScheme(scheme)
GoodHost(host) == ValidHost(host) /\ NormalizeHost(host) = host
GoodPort(scheme, host, port) ==
    \/ port = None /\ DefaultPort(scheme) = None
    \/ IsPort(port) /\ (port = DefaultPort(scheme) \/ (host # None /\ scheme # <<"file">>))
QueryText == Kept \ {"#", Space}

\* The parts that normalize_components returns.
Parts == {"ok", "scheme", "userinfo", "host", "port", "path", "query", "pairs", "fragment"}
Formed(parts) ==
    /\ parts = [part \in Parts |-> parts[part]] /\ parts.ok
    /\ parts.scheme = None \/ GoodScheme(parts.scheme)
    /\ parts.userinfo = None \/ GoodUserinfo(parts.userinfo)
    /\ parts.host = None \/ GoodHost(parts.host)
    /\ GoodPort(parts.scheme, parts.host, parts.port)
    /\ parts.path \in Seq(Kept) /\ DotFree(parts.path)
    /\ parts.host # None => parts.path # <<>> /\ parts.path[1] = "/"
    /\ parts.query = None \/ parts.query \in Seq(QueryText)
    /\ parts.pairs = ParseQuery(parts.query) /\ \A pair \in Range(parts.pairs) : pair[1] # <<>>
    /\ parts.fragment = None \/ parts.fragment \in Seq(QueryText)

\* What the parser and the mutators hand to normalize_components: parts that are absent,
\* in error, or in form.
MaybeScheme(scheme) == scheme \in {None, Bad} \/ GoodScheme(scheme)
MaybeUserinfo(userinfo) == userinfo \in {None, Bad} \/ GoodUserinfo(userinfo)
MaybeHost(host) == host \in {None, Bad} \/ GoodHost(host)
MaybePort(port) == port \in {None, Bad} \/ IsPort(port)
MaybeText(text) == text = None \/ text \in Seq(Token)

\* It makes a URL of them, or nothing.
LEMMA AssembledIsFormed ==
    ASSUME NEW scheme, MaybeScheme(scheme), NEW userinfo, MaybeUserinfo(userinfo),
           NEW host, MaybeHost(host), NEW port, MaybePort(port), NEW path \in Seq(Token),
           NEW query, MaybeText(query), NEW fragment, MaybeText(fragment),
           NEW parts, parts = Assemble(scheme, userinfo, host, port, path, query, fragment),
           parts.ok, ~Holds(parts.query, "#")
    PROVE  Formed(parts) /\ parts.scheme = scheme /\ parts.userinfo = userinfo /\ parts.host = host
<1> USE DEF MaybeScheme, MaybeUserinfo, MaybeHost, MaybePort, MaybeText
<1> DEFINE p == OrRoot(host, NormalizePath(Rooted(host, path)))
           q == NormalizePercentEncoding(query)
           f == NormalizePercentEncoding(fragment)
           d == ApplyPortDefaults(scheme, port, host)
           made == [ok |-> TRUE, scheme |-> scheme, userinfo |-> userinfo, host |-> host, port |-> d,
                    path |-> p, query |-> q, pairs |-> ParseQuery(query), fragment |-> f]
<1>1. /\ parts = made /\ Bad \notin {scheme, userinfo, host, port, d}
      /\ ValidQuery(query) /\ ValidFragment(fragment)
  <2>1. parts # Rejected
    BY DEF Rejected
  <2> QED BY <2>1 DEF Assemble
<1>2. p \in Seq(Kept) /\ DotFree(p) /\ (host # None => p # <<>> /\ p[1] = "/")
  <2>1. "/" \in Kept /\ "." \in Kept
    BY CharactersAreTokens
  <2>2. NormalizePercentEncoding(path) \in Seq(Kept)
    BY EscapesNormalised
  <2> QED BY <2>1, <2>2, PathNormalised
<1>3. ASSUME NEW text, text = None \/ text \in Seq(Token), ~HoldsAny(NormalizePercentEncoding(text), {"#", Space})
      PROVE  NormalizePercentEncoding(text) = None \/ NormalizePercentEncoding(text) \in Seq(QueryText)
  <2>1. CASE text = None
    BY <2>1, NormalNone
  <2>2. CASE text \in Seq(Token)
    <3>1. NormalizePercentEncoding(text) \in Seq(Kept)
      BY <2>2, EscapesNormalised
    <3> QED BY <1>3, <3>1, HoldsNone DEF QueryText
  <2> QED BY <1>3, <2>1, <2>2
<1>4. ASSUME NEW text, text = None \/ text \in Seq(Token), NEW tokens,
             tokens \subseteq {"/", "?", "#", ":", "@", "&", "=", "+", Space}, tokens \subseteq Token
      PROVE  HoldsAny(NormalizePercentEncoding(text), tokens) <=> HoldsAny(text, tokens)
  BY <1>4, NormalHolds, NormalNone
<1>5. {"#", Space} \subseteq Token /\ {Space} \subseteq Token
  BY CharactersAreTokens DEF Kept
<1>6. f = None \/ f \in Seq(QueryText)
  <2>1. ~HoldsAny(fragment, {"#", Space})
    BY <1>1 DEF ValidFragment
  <2>2. ~HoldsAny(f, {"#", Space})
    BY <1>4, <1>5, <2>1
  <2> QED BY <1>3, <2>2
<1>7. q = None \/ q \in Seq(QueryText)
  <2>1. ~HoldsAny(query, {Space})
    BY <1>1, HoldsOne DEF ValidQuery
  <2>2. ~HoldsAny(q, {Space})
    BY <1>4, <1>5, <2>1
  <2>3. ~HoldsAny(q, {"#"})
    <3>1. parts.query = q
      BY <1>1
    <3> QED BY <3>1, HoldsOne
  <2>4. ~HoldsAny(q, {"#", Space})
    BY <2>2, <2>3 DEF HoldsAny
  <2> QED BY <1>3, <2>4
<1>8. ParseQuery(query) = ParseQuery(q) /\ \A pair \in Range(ParseQuery(query)) : pair[1] # <<>>
  BY <1>1, NormalParams DEF ValidQuery
<1>9. GoodPort(scheme, host, d)
  <2>1. CASE port = None
    <3>1. d = DefaultPort(scheme)
      BY <2>1 DEF ApplyPortDefaults
    <3> QED BY <3>1, PortParsed DEF GoodPort
  <2>2. CASE port # None
    <3>1. d = port /\ scheme # <<"file">> /\ host # None
      BY <1>1, <2>2 DEF ApplyPortDefaults
    <3> QED BY <1>1, <2>2, <3>1 DEF GoodPort
  <2> QED BY <2>1, <2>2
<1> HIDE DEF p, q, f, d
<1>10. /\ made = [part \in Parts |-> made[part]] /\ made.ok /\ made.scheme = scheme /\ made.userinfo = userinfo
       /\ made.host = host /\ made.port = d /\ made.path = p /\ made.query = q
       /\ made.pairs = ParseQuery(query) /\ made.fragment = f
  BY DEF Parts
<1> HIDE DEF made
<1> QED BY <1>1, <1>2, <1>6, <1>7, <1>8, <1>9, <1>10 DEF Formed

\* What the parser splits a text into: texts with nothing in them that was not in it.
LEMMA SplitIs ==
    ASSUME NEW S, "/" \in S, NEW rest \in Seq(S)
    PROVE  LET split == SplitHierarchy(rest)
           IN  /\ split.authority = None \/ split.authority \in Seq(S \ {"/", "?", "#"})
               /\ split.path \in Seq(S)
               /\ split.query = None \/ split.query \in Seq(S \ {"#"})
               /\ split.fragment = None \/ split.fragment \in Seq(S)
<1>1. ASSUME NEW authority, NEW tail \in Seq(S), NEW c, c = CutTail(authority, tail)
      PROVE  /\ c.authority = authority /\ c.path \in Seq(S)
             /\ c.query = None \/ c.query \in Seq(S \ {"#"})
             /\ c.fragment = None \/ c.fragment \in Seq(S)
  <2> DEFINE b == Before(tail, {"#"})
             T == S \ {"#"}
  <2>1. /\ c.authority = authority /\ c.path = Before(tail, {"?", "#"})
        /\ c.query = After(b, {"?"}) /\ c.fragment = After(tail, {"#"})
    BY <1>1 DEF CutTail
  <2>2. b \in Seq(T)
    BY CutIs
  <2> HIDE DEF b, T
  <2>3. After(b, {"?"}) = None \/ After(b, {"?"}) \in Seq(T)
    BY <2>2, CutIs
  <2>4. After(tail, {"#"}) = None \/ After(tail, {"#"}) \in Seq(S)
    BY CutIs
  <2>5. Before(tail, {"?", "#"}) \in Seq(S)
    BY CutIs
  <2> QED BY <2>1, <2>3, <2>4, <2>5 DEF T
<1>2. CASE Starts(rest, <<"/", "/">>)
  <2> DEFINE after == From(rest, 3)
             end == Index(after, {"/", "?", "#"})
             tail == IF end = 0 THEN <<>> ELSE From(after, end)
             split == CutTail(Before(after, {"/", "?", "#"}), tail)
  <2>2. Len(rest) >= 2
    BY <1>2, StartsTwo
  <2>3. after \in Seq(S)
    BY <2>2, FromIs
  <2>4. SplitHierarchy(rest) = split
    BY <1>2 DEF SplitHierarchy, CutAuthority, Before
  <2> HIDE DEF after
  <2>5. end \in 0..Len(after)
    BY <2>3, IndexFound
  <2> HIDE DEF end
  <2>6. tail \in Seq(S)
    BY <2>3, <2>5, FromIs
  <2>7. Before(after, {"/", "?", "#"}) \in Seq(S \ {"/", "?", "#"})
    BY <2>3, CutIs
  <2> HIDE DEF tail
  <2> QED BY <1>1, <2>4, <2>6, <2>7
<1>3. CASE ~Starts(rest, <<"/", "/">>)
  <2>1. SplitHierarchy(rest) = CutTail(None, rest)
    BY <1>3 DEF SplitHierarchy
  <2> QED BY <1>1, <2>1
<1> QED BY <1>2, <1>3

\* The userinfo, and the text of the host and the port.
LEMMA AuthorityCut ==
    ASSUME NEW authority \in Seq(Token)
    PROVE  /\ ParseUserinfo(authority) \in {None, Bad} \/ GoodUserinfo(ParseUserinfo(authority))
           /\ HostPart(authority) \in Seq(Token)
<1>1. CASE Holds(authority, "@")
  <2>1. Before(authority, {"@"}) \in Seq(Token) /\ After(authority, {"@"}) \in Seq(Token)
    BY <1>1, HoldsOne, CutIs
  <2> QED BY <1>1, <2>1, UserinfoNormalised DEF ParseUserinfo, HostPart
<1>2. CASE ~Holds(authority, "@")
  BY <1>2 DEF ParseUserinfo, HostPart
<1> QED BY <1>1, <1>2

\* A host comes out normalised, or not at all.
LEMMA HostComponent ==
    \A host : NormalizeHostComponent(host) = Bad \/ GoodHost(NormalizeHostComponent(host))
BY HostNormalised DEF NormalizeHostComponent, GoodHost

\* The host and the port.
LEMMA HostParsed ==
    ASSUME NEW text \in Seq(Token), NEW require_host
    PROVE  LET h == ParseHost(text, require_host)
           IN  /\ h.host \in {None, Bad} \/ GoodHost(h.host)
               /\ h.port \in {None, Bad} \/ IsPort(h.port)
<1>1. CASE text = <<>>
  BY <1>1 DEF ParseHost
<1>2. CASE text # <<>>
  BY <1>2, HostComponent, PortParsed DEF ParseHost, HostAndPort
<1> QED BY <1>1, <1>2

\* The scheme, and what follows it.
LEMMA SchemeParsed ==
    ASSUME NEW text \in Seq(Token), NEW policy
    PROVE  LET s == ParseScheme(text, policy)
           IN  /\ s.scheme \in {None, Bad} \/ GoodScheme(s.scheme)
               /\ s.rest \in Seq(Token)
<1> DEFINE candidate == Before(text, {":"})
           rest == After(text, {":"})
<1>1. candidate \in Seq(Token) /\ (candidate # text => rest \in Seq(Token))
  BY CutIs
<1>2. Lower(candidate) \in Seq(Token)
  BY <1>1, LowerIs
<1> HIDE DEF candidate, rest
<1>3. LET s == ReadScheme(text, candidate, rest, policy)
      IN  (s.scheme \in {None, Bad} \/ GoodScheme(s.scheme)) /\ s.rest \in Seq(Token)
  BY <1>1, <1>2 DEF ReadScheme, GoodScheme
<1> QED BY <1>3 DEF ParseScheme, candidate, rest

\* What the parser makes of a text it accepts.
LEMMA ParsedIsFormed ==
    ASSUME NEW text, NEW policy, NEW parts, parts = ParseText(text, policy), parts.ok
    PROVE  Formed(parts) /\ parts.scheme = ParseScheme(text, policy).scheme
<1> DEFINE s == ParseScheme(text, policy)
           split == SplitHierarchy(s.rest)
           h == IF split.authority = None THEN ParseHost(<<>>, FALSE)
                ELSE ParseHost(HostPart(split.authority), s.scheme \notin {None, <<"file">>})
           u == ParseUserinfo(split.authority)
<1>1. text \in Seq(Token)
  BY DEF ParseText, Rejected, IsText
<1>2. parts = Assemble(s.scheme, u, h.host, h.port, split.path, split.query, split.fragment)
  BY <1>1 DEF ParseText, ParseSplit, ParseHierarchy, ParseParts, IsText
<1>3. (s.scheme \in {None, Bad} \/ GoodScheme(s.scheme)) /\ s.rest \in Seq(Token)
  BY <1>1, SchemeParsed
<1> HIDE DEF s
<1>4. /\ split.authority = None \/ split.authority \in Seq(Token)
      /\ split.path \in Seq(Token)
      /\ split.query = None \/ split.query \in Seq(Token \ {"#"})
      /\ split.fragment = None \/ split.fragment \in Seq(Token)
  <2>1. Seq(Token \ {"/", "?", "#"}) \subseteq Seq(Token) /\ "/" \in Token
    BY SeqMonotonic, CharactersAreTokens DEF Kept
  <2> QED BY <1>3, <2>1, SplitIs
<1>5. split.query = None \/ (split.query \in Seq(Token) /\ ~HoldsAny(split.query, {"#"}))
  <2>1. ASSUME NEW q \in Seq(Token \ {"#"}) PROVE q \in Seq(Token) /\ ~HoldsAny(q, {"#"})
    <3>1. q \in Seq(Token)
      BY SeqMonotonic
    <3> QED BY <3>1, HoldsNone
  <2> QED BY <1>4, <2>1
<1> HIDE DEF split
<1>6. u \in {None, Bad} \/ GoodUserinfo(u)
  <2>1. CASE split.authority = None
    <3>1. ~Holds(None, "@")
      BY CharactersAreTokens, NormalNone, HoldsOne DEF Kept
    <3> QED BY <2>1, <3>1 DEF ParseUserinfo
  <2>2. CASE split.authority # None
    BY <1>4, <2>2, AuthorityCut
  <2> QED BY <2>1, <2>2
<1>7. (h.host \in {None, Bad} \/ GoodHost(h.host)) /\ (h.port \in {None, Bad} \/ IsPort(h.port))
  <2>1. CASE split.authority = None
    <3>1. <<>> \in Seq(Token)
      OBVIOUS
    <3> QED BY <2>1, <3>1, HostParsed
  <2>2. CASE split.authority # None
    BY <1>4, <2>2, AuthorityCut, HostParsed
  <2> QED BY <2>1, <2>2
<1> HIDE DEF u, h
<1>8. ~Holds(parts.query, "#")
  <2>1. parts.query = NormalizePercentEncoding(split.query)
    BY <1>2 DEF Assemble, Rejected
  <2>2. ~HoldsAny(NormalizePercentEncoding(split.query), {"#"})
    <3>1. CASE split.query = None
      BY <3>1, NormalNone, CharactersAreTokens DEF Kept
    <3>2. CASE split.query # None
      BY <1>5, <3>2, NormalHolds
    <3> QED BY <3>1, <3>2
  <2> QED BY <2>1, <2>2, HoldsOne
<1>9. /\ MaybeScheme(s.scheme) /\ MaybeUserinfo(u) /\ MaybeHost(h.host) /\ MaybePort(h.port)
      /\ MaybeText(split.query) /\ MaybeText(split.fragment)
  BY <1>3, <1>4, <1>5, <1>6, <1>7 DEF MaybeScheme, MaybeUserinfo, MaybeHost, MaybePort, MaybeText
<1>10. split.path \in Seq(Token) /\ parts.ok
  BY <1>4
<1>11. Formed(parts) /\ parts.scheme = s.scheme
  BY <1>2, <1>8, <1>9, <1>10, AssembledIsFormed
<1> QED BY <1>11 DEF s

-----------------------------------------------------------------------------
(***************************************************************************)
(* The string of a URL, read back                                          *)
(***************************************************************************)

\* Texts put together.
LEMMA ConcatIs ==
    ASSUME NEW T, NEW a \in Seq(T), NEW b \in Seq(T)
    PROVE  /\ a \o b \in Seq(T)
           /\ <<>> \o a = a /\ a \o <<>> = a
           /\ From(a \o b, Len(a) + 1) = b
           /\ a # <<>> => a \o b # <<>> /\ (a \o b)[1] = a[1]
<1>1. a \o b \in Seq(T) /\ Len(a \o b) = Len(a) + Len(b) /\ Len(a) \in Nat /\ Len(b) \in Nat
      /\ \A i \in 1..(Len(a) + Len(b)) : (a \o b)[i] = IF i <= Len(a) THEN a[i] ELSE b[i - Len(a)]
  BY ConcatProperties
<1>3. <<>> \o a = a /\ a \o <<>> = a
  BY ConcatEmptySeq
<1> DEFINE w == a \o b
           f == From(w, Len(a) + 1)
<1>4. f = b
  <2>1. w \in Seq(T) /\ Len(w) = Len(a) + Len(b) /\ Len(a) + 1 \in 1..(Len(w) + 1)
    BY <1>1
  <2>2. \A i \in 1..Len(w) : w[i] = IF i <= Len(a) THEN a[i] ELSE b[i - Len(a)]
    BY <1>1
  <2> HIDE DEF w
  <2>3. f \in Seq(T) /\ Len(f) = Len(w) + 1 - (Len(a) + 1)
        /\ \A j \in 1..(Len(w) + 1 - (Len(a) + 1)) : f[j] = w[j + (Len(a) + 1) - 1]
    BY <2>1, FromIs
  <2> HIDE DEF f
  <2>4. Len(f) = Len(b)
    BY <1>1, <2>1, <2>3
  <2>5. ASSUME NEW j \in 1..Len(b) PROVE f[j] = b[j]
    <3>1. j \in 1..(Len(w) + 1 - (Len(a) + 1)) /\ j + (Len(a) + 1) - 1 = j + Len(a) /\ j + Len(a) \in 1..Len(w)
          /\ ~(j + Len(a) <= Len(a)) /\ (j + Len(a)) - Len(a) = j
      BY <1>1, <2>1
    <3> QED BY <2>2, <2>3, <3>1
  <2> QED BY <2>3, <2>4, <2>5, SeqEqual
<1>5. a # <<>> => w # <<>> /\ w[1] = a[1]
  <2> SUFFICES ASSUME a # <<>> PROVE w # <<>> /\ w[1] = a[1]
    OBVIOUS
  <2>1. Len(a) >= 1
    BY <1>1
  <2>2. Len(w) >= 1 /\ w[1] = a[1]
    BY <1>1, <2>1
  <2> QED BY <1>1, <2>2
<1> QED BY <1>1, <1>3, <1>4, <1>5

\* A delimiter and what it leads.
LEMMA LeadIs ==
    ASSUME NEW T, NEW t \in T, NEW a \in Seq(T)
    PROVE  <<t>> \o a \in Seq(T) /\ <<t>> \o a # <<>> /\ (<<t>> \o a)[1] = t /\ Tail(<<t>> \o a) = a
<1> DEFINE w == <<t>> \o a
<1>1. <<t>> \in Seq(T) /\ Len(<<t>>) = 1 /\ <<t>>[1] = t /\ <<t>> # <<>>
  OBVIOUS
<1>2. w \in Seq(T) /\ w # <<>> /\ w[1] = t /\ From(w, 2) = a
  <2> DEFINE one == <<t>>
  <2>1. one \in Seq(T) /\ Len(one) + 1 = 2 /\ one[1] = t /\ one # <<>>
    BY <1>1
  <2> HIDE DEF one
  <2>2. From(one \o a, Len(one) + 1) = a
    BY <2>1, ConcatIs
  <2>3. one \o a \in Seq(T) /\ one \o a # <<>> /\ (one \o a)[1] = one[1]
    BY <2>1, ConcatIs
  <2> QED BY <2>1, <2>2, <2>3 DEF one
<1>3. Tail(w) = From(w, 2)
  BY <1>2 DEF From
<1> QED BY <1>2, <1>3

\* The delimiter and the part, where there is one.
Lead(delimiter, part) == IF part = None THEN <<>> ELSE <<delimiter>> \o part
\* It is empty for a part that is absent, and can be cut off again.
LEMMA LeadPart ==
    ASSUME NEW T, NEW t \in T, NEW part, part = None \/ part \in Seq(T)
    PROVE  /\ Lead(t, part) \in Seq(T) /\ (Lead(t, part) = <<>> \/ Lead(t, part)[1] = t)
           /\ Lead(t, part) = <<>> <=> part = None
           /\ part # None => Tail(Lead(t, part)) = part
<1>1. CASE part = None
  BY <1>1 DEF Lead
<1>2. CASE part # None
  <2>1. Lead(t, part) = <<t>> \o part
    BY <1>2 DEF Lead
  <2> QED BY <1>2, <2>1, LeadIs
<1> QED BY <1>1, <1>2

\* What build_netloc spells, the port being one it does not leave out.
UserPart(userinfo) == IF userinfo = None THEN <<>> ELSE userinfo \o <<"@">>
NetlocOf(userinfo, host, port) == (UserPart(userinfo) \o host) \o Lead(":", port)

\* Its tokens end no authority, and it is not empty.
LEMMA NetlocTokens ==
    ASSUME NEW userinfo, userinfo = None \/ GoodUserinfo(userinfo), NEW host, GoodHost(host),
           NEW port, port = None \/ IsPort(port)
    PROVE  /\ NetlocOf(userinfo, host, port) \in Seq(Token \ {"/", "?", "#"})
           /\ NetlocOf(userinfo, host, port) # <<>>
<1> DEFINE N == Token \ {"/", "?", "#"}
           u == UserPart(userinfo)
<1>1. UserText \subseteq N /\ (Token \ Delimiters) \subseteq N /\ "@" \in N /\ ":" \in N
  BY CharactersAreTokens DEF UserText, Kept, Delimiters
<1> HIDE DEF N
<1>2. u \in Seq(N)
  <2>1. CASE userinfo = None
    BY <2>1 DEF UserPart
  <2>2. CASE userinfo # None
    <3>1. userinfo \in Seq(N)
      BY <1>1, <2>2, SeqMonotonic DEF GoodUserinfo
    <3>2. <<"@">> \in Seq(N)
      BY <1>1
    <3>3. userinfo \o <<"@">> \in Seq(N)
      BY <3>1, <3>2
    <3> QED BY <2>2, <3>3 DEF UserPart
  <2> QED BY <2>1, <2>2
<1>3. host \in Seq(N) /\ host # <<>>
  BY <1>1, HostTokens, SeqMonotonic DEF GoodHost
<1>4. Lead(":", port) \in Seq(N)
  <2>1. port = None \/ port \in Seq(N)
    BY <1>1, PortParsed, SeqMonotonic
  <2> QED BY <1>1, <2>1, LeadPart
<1>5. u \o host \in Seq(N) /\ u \o host # <<>>
  <2>1. Len(u \o host) = Len(u) + Len(host) /\ u \o host \in Seq(N) /\ Len(host) >= 1 /\ Len(u) \in Nat
    BY <1>2, <1>3
  <2> QED BY <1>2, <1>3, <2>1
<1> HIDE DEF u
<1>6. (u \o host) \o Lead(":", port) \in Seq(N) /\ (u \o host) \o Lead(":", port) # <<>>
  BY <1>4, <1>5, ConcatIs
<1> QED BY <1>6 DEF NetlocOf, u, N

\* Where no space is, none is stripped.
LEMMA StripSpaceless ==
    ASSUME NEW text \in Seq(Token \ {Space})
    PROVE  Strip(text) = text
<1> DEFINE S == Token \ {Space}
<1>1. ASSUME NEW t \in Seq(S) PROVE StripLeft(t) = t
  <2>1. CASE t = <<>>
    <3>1. ~HoldsAny(t, S)
      BY <2>1 DEF HoldsAny
    <3> QED BY <2>1, <3>1 DEF StripLeft
  <2>2. CASE t # <<>>
    <3> HIDE DEF S
    <3>1. Len(t) \in Nat /\ 1 \in 1..Len(t) /\ t[1] \in S /\ DOMAIN t = 1..Len(t)
      BY <2>2
    <3>2. HoldsAny(t, S) /\ Index(t, S) = 1
      <4>1. /\ Index(t, S) \in 0..Len(t)
            /\ \A j \in 1..Len(t) : t[j] \in S => Index(t, S) # 0 /\ Index(t, S) <= j
        BY IndexIsFirst
      <4> QED BY <3>1, <4>1 DEF HoldsAny
    <3>3. From(t, 1) = t
      BY <3>1 DEF From
    <3> QED BY <3>2, <3>3 DEF StripLeft, S
  <2> QED BY <2>1, <2>2
<1> HIDE DEF S
<1>2. text \in Seq(S) /\ Len(text) \in Nat
  BY DEF S
<1>3. Reverse(text) \in Seq(S) /\ Reverse(Reverse(text)) = text
  <2> DEFINE r == Reverse(text)
  <2>1. r = [i \in 1..Len(text) |-> text[(Len(text) - i) + 1]]
    BY DEF Reverse
  <2>2. \A i \in 1..Len(text) : (Len(text) - i) + 1 \in 1..Len(text) /\ text[(Len(text) - i) + 1] \in S
    BY <1>2
  <2> HIDE DEF r
  <2>3. r \in Seq(S) /\ Len(r) = Len(text)
    BY <1>2, <2>1, <2>2
  <2>4. Reverse(r) = [i \in 1..Len(text) |-> r[(Len(text) - i) + 1]]
    BY <2>3 DEF Reverse
  <2>5. \A i \in 1..Len(text) : r[(Len(text) - i) + 1] = text[i]
    BY <1>2, <2>1, <2>2
  <2>6. text = [i \in 1..Len(text) |-> text[i]]
    BY <1>2
  <2> QED BY <2>3, <2>4, <2>5, <2>6 DEF r
<1> QED BY <1>1, <1>2, <1>3 DEF Strip

\* parse_userinfo and parse_host take it apart again.
LEMMA NetlocReadBack ==
    ASSUME NEW userinfo, userinfo = None \/ GoodUserinfo(userinfo), NEW host, GoodHost(host),
           NEW port, port = None \/ IsPort(port), NEW require_host,
           NEW netloc, netloc = NetlocOf(userinfo, host, port)
    PROVE  /\ ParseUserinfo(netloc) = userinfo
           /\ ParseHost(HostPart(netloc), require_host) = [host |-> host, port |-> port]
<1> DEFINE T == Token
           colon == Lead(":", port)
           hp == host \o colon
<1>1. /\ host \in Seq(Token \ Delimiters) /\ host \in Seq(T) /\ host # <<>> /\ ValidHost(host)
      /\ NormalizeHost(host) = host
  BY HostTokens, SeqMonotonic DEF GoodHost
<1>2. port = None \/ (port \in Seq(Token \ Delimiters) /\ port \in Seq(T) /\ ParsePort(port) = port)
  BY PortParsed, SeqMonotonic
<1>3. ":" \in T /\ "@" \in T /\ ":" \in Delimiters /\ "@" \in Delimiters /\ ":" # "@"
  BY CharactersAreTokens DEF Kept, Delimiters
<1>4. /\ colon \in Seq(T) /\ (colon = <<>> \/ colon[1] = ":") /\ (colon = <<>> <=> port = None)
      /\ port # None => Tail(colon) = port
  BY <1>2, <1>3, LeadPart
<1>5. hp \in Seq(T) /\ hp # <<>>
  BY <1>1, <1>4, ConcatIs
<1>s. Strip(hp) = hp
  <2>1. host \in Seq(Token \ {Space}) /\ colon \in Seq(Token \ {Space})
    <3>1. Space \in Delimiters /\ ":" # Space
      BY SpaceIsNoOther DEF Delimiters
    <3>2. Seq(Token \ Delimiters) \subseteq Seq(Token \ {Space})
      BY <3>1, SeqMonotonic
    <3> QED BY <1>1, <1>2, <1>3, <3>1, <3>2, LeadPart
  <2> HIDE DEF colon
  <2>2. hp \in Seq(Token \ {Space})
    BY <2>1, ConcatIs
  <2> HIDE DEF hp
  <2> QED BY <2>2, StripSpaceless
<1>6. ParseHost(hp, require_host) = [host |-> host, port |-> port]
  <2>1. ~HoldsAny(host, {":"})
    <3>1. (Token \ Delimiters) \cap {":"} = {}
      BY <1>3
    <3> QED BY <1>1, <3>1, HoldsNone
  <2>2. colon = <<>> \/ colon[1] \in {":"}
    BY <1>4
  <2> HIDE DEF colon
  <2>3. Before(hp, {":"}) = host
    BY <1>1, <1>4, <2>1, <2>2, CutFirst
  <2>4. NormalizeHostComponent(host) = host
    BY <1>1 DEF NormalizeHostComponent
  <2>5. CASE port = None
    <3>1. colon = <<>>
      BY <1>4, <2>5
    <3>2. ~HoldsAny(hp, {":"})
      BY <1>1, <1>4, <2>1, <3>1, CutFirst
    <3>3. ~Holds(hp, ":")
      BY <3>2, HoldsOne
    <3> HIDE DEF hp
    <3> QED BY <1>5, <1>s, <2>3, <2>4, <2>5, <3>3 DEF ParseHost, HostAndPort
  <2>6. CASE port # None
    <3>1. colon # <<>> /\ Tail(colon) = port
      BY <1>4, <2>6
    <3>2. HoldsAny(hp, {":"})
      BY <1>1, <1>4, <2>1, <2>2, <3>1, CutFirst
    <3>3. After(hp, {":"}) = Tail(colon)
      BY <1>1, <1>4, <2>1, <2>2, <3>1, CutFirst
    <3>4. Holds(hp, ":")
      BY <3>2, HoldsOne
    <3> HIDE DEF hp
    <3> QED BY <1>2, <1>5, <1>s, <2>3, <2>4, <2>6, <3>1, <3>3, <3>4 DEF ParseHost, HostAndPort
  <2> QED BY <2>5, <2>6
<1>7. CASE userinfo = None
  <2>1. netloc = (<<>> \o host) \o colon
    BY <1>7 DEF NetlocOf, UserPart
  <2> HIDE DEF colon
  <2>2. netloc = hp
    BY <1>1, <2>1, ConcatIs
  <2>3. ~HoldsAny(hp, {"@"})
    <3> DEFINE A == Token \ {"@"}
    <3>1. (Token \ Delimiters) \subseteq A /\ ":" \in A
      BY <1>3 DEF Delimiters
    <3>2. A \cap {"@"} = {}
      OBVIOUS
    <3> HIDE DEF A
    <3>3. host \in Seq(A) /\ (port = None \/ port \in Seq(A))
      BY <1>1, <1>2, <3>1, SeqMonotonic
    <3>4. colon \in Seq(A)
      BY <3>1, <3>3, LeadPart DEF colon
    <3>5. hp \in Seq(A)
      BY <3>3, <3>4
    <3> QED BY <3>2, <3>5, HoldsNone
  <2>4. ~Holds(netloc, "@")
    BY <2>2, <2>3, HoldsOne
  <2> HIDE DEF hp
  <2> QED BY <1>6, <1>7, <2>2, <2>4 DEF ParseUserinfo, HostPart
<1>8. CASE userinfo # None
  <2> DEFINE rest == <<"@">> \o hp
  <2>1. userinfo \in Seq(UserText) /\ userinfo \in Seq(T) /\ userinfo # <<>>
    <3>1. Seq(UserText) \subseteq Seq(T)
      BY SeqMonotonic DEF UserText, Kept
    <3> QED BY <1>8, <3>1 DEF GoodUserinfo
  <2>2. netloc = ((userinfo \o <<"@">>) \o host) \o colon
    BY <1>8 DEF NetlocOf, UserPart
  <2> HIDE DEF colon
  <2>3. netloc = userinfo \o rest
    <3>1. <<"@">> \in Seq(T)
      BY <1>3
    <3>2. userinfo \o <<"@">> \in Seq(T)
      BY <2>1, <3>1
    <3>3. ((userinfo \o <<"@">>) \o host) \o colon = (userinfo \o <<"@">>) \o hp
      <4> DEFINE u == userinfo \o <<"@">>
      <4>1. u \in Seq(T)
        BY <3>2
      <4> HIDE DEF u
      <4>2. (u \o host) \o colon = u \o (host \o colon)
        BY <1>1, <1>4, <4>1, ConcatAssociative
      <4> QED BY <4>2 DEF u
    <3> HIDE DEF hp
    <3>4. (userinfo \o <<"@">>) \o hp = userinfo \o rest
      BY <1>5, <2>1, <3>1, ConcatAssociative
    <3> QED BY <2>2, <3>3, <3>4 DEF hp
  <2> HIDE DEF hp
  <2>4. rest \in Seq(T) /\ rest # <<>> /\ rest[1] \in {"@"} /\ Tail(rest) = hp
    BY <1>3, <1>5, LeadIs
  <2> HIDE DEF rest
  <2>5. ~HoldsAny(userinfo, {"@"})
    <3>1. UserText \cap {"@"} = {}
      BY DEF UserText
    <3> QED BY <2>1, <3>1, HoldsNone
  <2>6. Before(userinfo \o rest, {"@"}) = userinfo
    BY <2>1, <2>4, <2>5, CutFirst
  <2>7. HoldsAny(userinfo \o rest, {"@"})
    BY <2>1, <2>4, <2>5, CutFirst
  <2>8. After(userinfo \o rest, {"@"}) = Tail(rest)
    BY <2>1, <2>4, <2>5, CutFirst
  <2>9. Holds(netloc, "@")
    BY <2>3, <2>7, HoldsOne
  <2>10. NormalizeUserinfoComponent(userinfo) = userinfo
    BY <1>8, <2>1, UserinfoNormalised
  <2> QED BY <1>6, <2>3, <2>4, <2>6, <2>8, <2>9, <2>10 DEF ParseUserinfo, HostPart
<1> QED BY <1>7, <1>8

\* A scheme and what follows it; and what follows it, of its parts.
Prefixed(scheme, rest) == scheme \o (<<":">> \o rest)
Hierarchy(netloc, path, query, fragment) ==
    <<"/", "/">> \o (netloc \o (path \o (Lead("?", query) \o Lead("#", fragment))))

\* The scheme is what precedes the first colon.
LEMMA SchemeReadBack ==
    ASSUME NEW scheme, GoodScheme(scheme), NEW policy, SchemeAllowed(policy, scheme),
           NEW z \in Seq(Token), z # <<>>, z[1] = "/",
           NEW text, text = Prefixed(scheme, z)
    PROVE  text \in Seq(Token) /\ ParseScheme(text, policy) = [scheme |-> scheme, rest |-> z]
<1> DEFINE rest == <<":">> \o z
<1>1. /\ scheme \in Seq(Token) /\ IsValidScheme(scheme) /\ Lower(scheme) = scheme /\ scheme # <<>>
      /\ scheme \in Seq(Token \ {"/", "?", "#", ":", "@"})
  BY SchemeIs DEF GoodScheme
<1>2. rest \in Seq(Token) /\ rest # <<>> /\ rest[1] \in {":"} /\ Tail(rest) = z
  BY CharactersAreTokens, LeadIs DEF Kept
<1>3. text = scheme \o rest
  BY DEF Prefixed
<1> HIDE DEF rest
<1>4. ~HoldsAny(scheme, {":"}) /\ ~HoldsAny(scheme, {"/", "?", "#"})
  <2> DEFINE S == Token \ {"/", "?", "#", ":", "@"}
  <2>1. S \cap {":"} = {} /\ S \cap {"/", "?", "#"} = {}
    OBVIOUS
  <2> HIDE DEF S
  <2> QED BY <1>1, <2>1, HoldsNone DEF S
<1>5. Before(scheme \o rest, {":"}) = scheme
  BY <1>1, <1>2, <1>4, CutFirst
<1>6. After(scheme \o rest, {":"}) = Tail(rest)
  BY <1>1, <1>2, <1>4, CutFirst
<1>7. text \in Seq(Token)
  BY <1>1, <1>2, <1>3, ConcatIs
<1>8. scheme # text
  BY <1>1, <1>2, <1>3, ConcatEqualIffEmpty
<1>9. ReadScheme(text, scheme, z, policy) = [scheme |-> scheme, rest |-> z]
  BY <1>1, <1>4, <1>8 DEF ReadScheme
<1> QED BY <1>2, <1>3, <1>5, <1>6, <1>7, <1>9 DEF ParseScheme

\* What split_authority, split_query and split_fragment return together.
SplitOf(authority, path, query, fragment) ==
    [authority |-> authority, path |-> path, query |-> query, fragment |-> fragment]

\* The path ends at the first "?" or "#", the query at the first "#".
LEMMA TailReadBack ==
    ASSUME NEW authority, NEW path \in Seq(Token \ {"?", "#"}),
           NEW query, query = None \/ query \in Seq(Token \ {"#"}),
           NEW fragment, MaybeText(fragment),
           NEW tail, tail = path \o (Lead("?", query) \o Lead("#", fragment))
    PROVE  /\ tail \in Seq(Token)
           /\ CutTail(authority, tail) = SplitOf(authority, path, query, fragment)
<1> DEFINE H == Token \ {"#"}
           q == Lead("?", query)
           f == Lead("#", fragment)
           qf == q \o f
           pq == path \o q
<1>1. "?" \in H /\ "#" \in Token /\ "?" \in Token /\ H \subseteq Token
  BY CharactersAreTokens DEF Kept
<1>2. path \in Seq(H) /\ path \in Seq(Token) /\ ~HoldsAny(path, {"?", "#"}) /\ ~HoldsAny(path, {"?"})
  <2> DEFINE S == Token \ {"?", "#"}
  <2>1. S \cap {"?", "#"} = {} /\ S \cap {"?"} = {} /\ S \subseteq H /\ S \subseteq Token /\ path \in Seq(S)
    OBVIOUS
  <2> HIDE DEF S, H
  <2> QED BY <2>1, SeqMonotonic, HoldsNone
<1>3. H \cap {"#"} = {} /\ (query = None \/ query \in Seq(H))
  OBVIOUS
<1> HIDE DEF H
<1>4. q \in Seq(H) /\ (q = <<>> \/ q[1] = "?") /\ (q = <<>> <=> query = None) /\ (query # None => Tail(q) = query)
  BY <1>1, <1>3, LeadPart
<1>5. /\ f \in Seq(Token) /\ (f = <<>> \/ f[1] = "#") /\ (f = <<>> <=> fragment = None)
      /\ fragment # None => Tail(f) = fragment
  BY <1>1, LeadPart DEF MaybeText
<1>6. q \in Seq(Token)
  BY <1>1, <1>4, SeqMonotonic
<1> HIDE DEF q, f
<1>7. qf \in Seq(Token) /\ (qf = <<>> \/ qf[1] \in {"?", "#"})
  <2>1. qf \in Seq(Token) /\ (q = <<>> => qf = f) /\ (q # <<>> => qf[1] = q[1])
    BY <1>5, <1>6, ConcatIs
  <2> HIDE DEF qf
  <2> QED BY <1>4, <1>5, <2>1
<1>8. pq \in Seq(H)
  BY <1>2, <1>4, ConcatIs
<1>9. tail = path \o qf /\ tail = pq \o f
  <2>1. (path \o q) \o f = path \o (q \o f)
    BY <1>2, <1>5, <1>6, ConcatAssociative, SMTT(30)
  <2> QED BY <2>1 DEF q, f
<1>10. tail \in Seq(Token)
  <2> HIDE DEF qf
  <2>1. path \o qf \in Seq(Token)
    BY <1>2, <1>7, ConcatIs
  <2> QED BY <1>9, <2>1
<1>11. pq \in Seq(Token) /\ ~HoldsAny(pq, {"#"})
  BY <1>1, <1>3, <1>8, SeqMonotonic, HoldsNone
<1>12. Before(tail, {"?", "#"}) = path
  <2> HIDE DEF qf
  <2>1. tail = path \o qf
    BY <1>9
  <2> QED BY <1>2, <1>7, <2>1, CutFirst
<1>13. Before(tail, {"#"}) = pq /\ After(tail, {"#"}) = fragment
  <2> HIDE DEF pq
  <2>1. tail = pq \o f /\ (f = <<>> \/ f[1] \in {"#"})
    BY <1>5, <1>9
  <2>2. Before(pq \o f, {"#"}) = pq
    BY <1>5, <1>11, <2>1, CutFirst
  <2>3. f = <<>> => After(pq \o f, {"#"}) = None
    BY <1>5, <1>11, <2>1, CutFirst
  <2>4. f # <<>> => After(pq \o f, {"#"}) = Tail(f)
    BY <1>5, <1>11, <2>1, CutFirst
  <2> QED BY <1>5, <2>1, <2>2, <2>3, <2>4
<1>14. After(pq, {"?"}) = query
  <2>1. q = <<>> \/ q[1] \in {"?"}
    BY <1>4
  <2>2. q = <<>> => After(path \o q, {"?"}) = None
    BY <1>2, <1>6, <2>1, CutFirst
  <2>3. q # <<>> => After(path \o q, {"?"}) = Tail(q)
    BY <1>2, <1>6, <2>1, CutFirst
  <2> QED BY <1>4, <2>2, <2>3
<1> HIDE DEF pq, qf
<1> QED BY <1>10, <1>12, <1>13, <1>14 DEF CutTail, SplitOf

\* Two slashes lead an authority.
LEMMA SlashesStart ==
    ASSUME NEW text \in Seq(Token), Len(text) >= 2, text[1] = "/", text[2] = "/"
    PROVE  Starts(text, <<"/", "/">>)
<1>1. "/" \in Token
  BY CharactersAreTokens DEF Kept
<1> QED BY <1>1, StartsTwo

\* The authority ends at the path.
SplitsInto(z, netloc, path, query, fragment) == SplitHierarchy(z) = SplitOf(netloc, path, query, fragment)
\* It splits into the parts it was spelled of.
LEMMA SplitReadBack ==
    ASSUME NEW netloc \in Seq(Token \ {"/", "?", "#"}),
           NEW path \in Seq(Token \ {"?", "#"}), path # <<>>, path[1] = "/",
           NEW query, query = None \/ query \in Seq(Token \ {"#"}),
           NEW fragment, MaybeText(fragment),
           NEW z, z = Hierarchy(netloc, path, query, fragment)
    PROVE  /\ z \in Seq(Token) /\ z # <<>> /\ z[1] = "/"
           /\ SplitsInto(z, netloc, path, query, fragment)
<1> DEFINE ends == {"/", "?", "#"}
           leads == Lead("?", query) \o Lead("#", fragment)
           tail == path \o leads
           after == netloc \o tail
           slashes == <<"/", "/">>
           split == SplitOf(netloc, path, query, fragment)
<1>1. tail \in Seq(Token) /\ CutTail(netloc, tail) = split
  <2>1. tail = path \o (Lead("?", query) \o Lead("#", fragment))
    OBVIOUS
  <2> HIDE DEF tail
  <2>2. tail \in Seq(Token)
    BY <2>1, TailReadBack
  <2>3. CutTail(netloc, tail) = SplitOf(netloc, path, query, fragment)
    BY <2>1, TailReadBack
  <2> QED BY <2>2, <2>3
<1>2. tail # <<>> /\ tail[1] \in ends
  <2>1. leads \in Seq(Token) /\ path \in Seq(Token)
    <3>1. query = None \/ query \in Seq(Token)
      BY SeqMonotonic
    <3>2. "?" \in Token /\ "#" \in Token
      BY CharactersAreTokens DEF Kept
    <3>3. Lead("?", query) \in Seq(Token) /\ Lead("#", fragment) \in Seq(Token)
      BY <3>1, <3>2, LeadPart DEF MaybeText
    <3>4. path \in Seq(Token)
      BY SeqMonotonic
    <3> QED BY <3>3, <3>4, ConcatIs
  <2> HIDE DEF leads
  <2> QED BY <2>1, ConcatIs
<1>3. z = slashes \o after
  BY DEF Hierarchy
<1> HIDE DEF tail, split
<1>4. netloc \in Seq(Token) /\ ~HoldsAny(netloc, ends)
  <2> DEFINE S == Token \ ends
  <2>1. S \cap ends = {} /\ netloc \in Seq(S) /\ S \subseteq Token
    OBVIOUS
  <2> HIDE DEF S, ends
  <2> QED BY <2>1, SeqMonotonic, HoldsNone
<1> HIDE DEF ends
<1>5. after \in Seq(Token)
  BY <1>1, <1>4, ConcatIs
<1>6. Before(after, ends) = netloc
  BY <1>1, <1>2, <1>4, CutFirst
<1>7. Index(after, ends) = Len(netloc) + 1
  BY <1>1, <1>2, <1>4, CutFirst
<1>8. From(after, Len(netloc) + 1) = tail
  BY <1>1, <1>4, ConcatIs
<1>9. Len(netloc) + 1 # 0
  BY <1>4
<1> HIDE DEF after
<1>10. slashes \in Seq(Token) /\ Len(slashes) = 2 /\ slashes # <<>> /\ slashes[1] = "/" /\ "/" \in Token
  BY CharactersAreTokens DEF Kept
<1>11. z \in Seq(Token) /\ z # <<>> /\ z[1] = "/" /\ From(z, 3) = after
  <2> HIDE DEF slashes
  <2>1. From(slashes \o after, Len(slashes) + 1) = after
    BY <1>5, <1>10, ConcatIs
  <2>2. Len(slashes) + 1 = 3
    BY <1>10
  <2>3. slashes \o after \in Seq(Token) /\ slashes \o after # <<>> /\ (slashes \o after)[1] = slashes[1]
    BY <1>5, <1>10, ConcatIs
  <2> QED BY <1>3, <1>10, <2>1, <2>2, <2>3
<1>12. Starts(z, <<"/", "/">>)
  <2>1. Len(z) >= 2 /\ z[1] = "/" /\ z[2] = "/"
    BY <1>3, <1>5, <1>10
  <2>2. z \in Seq(Token) /\ "/" \in Token
    BY <1>10, <1>11
  <2> QED BY <2>1, <2>2, SlashesStart
<1>13. SplitHierarchy(z) = CutAuthority(after, Index(after, ends))
  BY <1>11, <1>12 DEF SplitHierarchy, ends
<1>14. CutAuthority(after, Index(after, ends)) = CutTail(Before(after, ends), tail)
  BY <1>7, <1>8, <1>9 DEF CutAuthority, Before
<1> QED BY <1>1, <1>6, <1>11, <1>13, <1>14 DEF SplitsInto, split

\* What the builder makes of a rooted path: a rooted path in which nothing ends it.
PathText == Kept \ {"?", "#", Space}
\* What the builder makes of a path has none of the characters that end one.
LEMMA BuilderPath ==
    ASSUME NEW path \in Seq(Token), path # <<>>, path[1] = "/"
    PROVE  BuilderNormalizePath(path) \in Clean(PathText)
<1> DEFINE unsafe == {"?", "#", Space}
           e == Encode(path, unsafe)
           n == NormalizePercentEncoding(e)
<1>1. /\ e \in Seq(Token) /\ Len(e) = Len(path) /\ ~HoldsAny(e, unsafe)
      /\ \A i \in 1..Len(path) : e[i] = path[i] \/ (path[i] \in unsafe /\ e[i] \in DOMAIN Decoded)
  BY EncodedIs
<1>2. BuilderNormalizePath(path) = NormalizeDotSegments(n)
  BY DEF BuilderNormalizePath
<1>3. "/" \notin unsafe
  BY SpaceIsNoOther
<1>4. unsafe \subseteq {"/", "?", "#", ":", "@", "&", "=", "+", Space}
  OBVIOUS
<1> HIDE DEF e
<1>5. n \in Seq(Kept) /\ Len(n) = Len(e) /\ (\A i \in 1..Len(e) : n[i] = Normal(e[i])) /\ ~HoldsAny(n, unsafe)
  BY <1>1, <1>4, EscapesNormalised, NormalHolds
<1> HIDE DEF unsafe
<1>6. n \in Seq(PathText)
  BY <1>5, HoldsNone DEF PathText, unsafe
<1>7. n # <<>> /\ n[1] = "/"
  <2>1. 1 \in 1..Len(path)
    OBVIOUS
  <2>2. e[1] = "/"
    BY <1>1, <1>3, <2>1
  <2>3. n[1] = "/"
    BY <1>1, <1>5, <2>1, <2>2, NormalToken
  <2> QED BY <1>1, <1>5, <2>1, <2>3
<1>8. NormalizeDotSegments(n) = RemoveDotSegments(n)
  BY <1>7 DEF NormalizeDotSegments
<1>9. "/" \in PathText /\ "." \in PathText
  BY CharactersAreTokens, SpaceIsNoOther DEF PathText
<1> HIDE DEF n
<1> QED BY <1>2, <1>6, <1>7, <1>8, <1>9, RemovesDotSegments

\* The parts that str() spells.
SpelledPort(parts) == IF parts.port \in {None, DefaultPort(parts.scheme)} THEN None ELSE parts.port
SpelledNetloc(parts) == NetlocOf(parts.userinfo, parts.host, SpelledPort(parts))
SpelledFragment(parts) == IF parts.fragment = <<>> THEN None ELSE parts.fragment
Spelled(parts) ==
    Prefixed(parts.scheme, Hierarchy(SpelledNetloc(parts), BuilderNormalizePath(parts.path),
                                     parts.query, SpelledFragment(parts)))

\* The netloc of a URL with a host.
LEMMA NetlocSpelled ==
    ASSUME NEW parts, Formed(parts), parts.host # None
    PROVE  /\ BuildNetloc(parts) = SpelledNetloc(parts)
           /\ SpelledNetloc(parts) \in Seq(Token \ {"/", "?", "#"})
           /\ SpelledNetloc(parts) \notin {Bad, <<>>}
           /\ SpelledPort(parts) = None \/ IsPort(SpelledPort(parts))
<1> DEFINE port == SpelledPort(parts)
<1>1. /\ parts.userinfo = None \/ GoodUserinfo(parts.userinfo)
      /\ GoodHost(parts.host) /\ (parts.port = None \/ IsPort(parts.port))
  BY DEF Formed, GoodPort
<1>2. port = None \/ IsPort(port)
  BY <1>1 DEF SpelledPort
<1>3. SpelledNetloc(parts) \in Seq(Token \ {"/", "?", "#"}) /\ SpelledNetloc(parts) # <<>>
  BY <1>1, <1>2, NetlocTokens DEF SpelledNetloc
<1>4. SpelledNetloc(parts) # Bad
  <2>1. SpelledNetloc(parts) \in Seq(Token)
    BY <1>3, SeqMonotonic
  <2> QED BY <2>1, NoneIsNoText
<1>5. (IF parts.userinfo \in {None, <<>>} THEN <<>> ELSE NormalizeUserinfo(parts.userinfo) \o <<"@">>)
         = UserPart(parts.userinfo)
  <2>1. CASE parts.userinfo = None
    BY <2>1 DEF UserPart
  <2>2. CASE parts.userinfo # None
    <3>1. GoodUserinfo(parts.userinfo) /\ parts.userinfo \in Seq(Token) /\ parts.userinfo # <<>>
      <4>1. Seq(UserText) \subseteq Seq(Token)
        BY SeqMonotonic DEF UserText, Kept
      <4> QED BY <1>1, <2>2, <4>1 DEF GoodUserinfo
    <3>2. NormalizeUserinfo(parts.userinfo) = parts.userinfo
      BY <3>1, UserinfoNormalised
    <3> QED BY <2>2, <3>1, <3>2 DEF UserPart
  <2> QED BY <2>1, <2>2
<1>6. (IF parts.port \in {None, DefaultPort(parts.scheme)} THEN <<>> ELSE <<":">> \o parts.port) = Lead(":", port)
  <2>1. CASE parts.port \in {None, DefaultPort(parts.scheme)}
    BY <2>1 DEF SpelledPort, Lead
  <2>2. CASE parts.port \notin {None, DefaultPort(parts.scheme)}
    BY <2>2 DEF SpelledPort, Lead
  <2> QED BY <2>1, <2>2
<1>7. ValidHost(parts.host) /\ NormalizeHost(parts.host) = parts.host
  BY <1>1 DEF GoodHost
<1>8. BuildNetloc(parts) = (UserPart(parts.userinfo) \o parts.host) \o Lead(":", port)
  <2> HIDE DEF port
  <2> QED BY <1>5, <1>6, <1>7 DEF BuildNetloc, Netloc
<1> QED BY <1>2, <1>3, <1>4, <1>8 DEF SpelledNetloc, NetlocOf

\* Concatenation, as an operator that the backends know nothing of.
Cat(x, y) == x \o y
Concatenates(T) ==
    /\ \A x, y \in Seq(T) : Cat(x, y) \in Seq(T)
    /\ \A x, y, z \in Seq(T) : Cat(Cat(x, y), z) = Cat(x, Cat(y, z))
\* Both hold of sequences.
LEMMA CatIs == \A T : Concatenates(T)
<1>1. \A T : \A x, y \in Seq(T) : x \o y \in Seq(T)
  BY ConcatProperties
<1>2. \A T : \A x, y, z \in Seq(T) : (x \o y) \o z = x \o (y \o z)
  BY ConcatAssociative
<1> QED BY <1>1, <1>2 DEF Concatenates, Cat

\* Six texts one after another, however they are grouped.
Regroups(s, l, n, p, q, f) == ((((s \o l) \o n) \o p) \o q) \o f = s \o (l \o (n \o (p \o (q \o f))))
\* They are the same text.
LEMMA Regrouped ==
    ASSUME NEW s \in Seq(Token), NEW l \in Seq(Token), NEW n \in Seq(Token),
           NEW p \in Seq(Token), NEW q \in Seq(Token), NEW f \in Seq(Token)
    PROVE  Regroups(s, l, n, p, q, f)
<1>1. /\ \A x, y \in Seq(Token) : Cat(x, y) \in Seq(Token)
      /\ \A x, y, z \in Seq(Token) : Cat(Cat(x, y), z) = Cat(x, Cat(y, z))
  <2>1. Concatenates(Token)
    BY CatIs
  <2> QED BY <2>1 DEF Concatenates
<1> DEFINE qf == Cat(q, f)
           pqf == Cat(p, qf)
           npqf == Cat(n, pqf)
<1>2. Cat(s, l) \in Seq(Token) /\ Cat(Cat(s, l), n) \in Seq(Token) /\ Cat(Cat(Cat(s, l), n), p) \in Seq(Token)
  BY <1>1
<1>3. qf \in Seq(Token) /\ pqf \in Seq(Token) /\ npqf \in Seq(Token)
  BY <1>1
<1>4. Cat(Cat(Cat(Cat(Cat(s, l), n), p), q), f) = Cat(Cat(Cat(Cat(s, l), n), p), qf)
  BY <1>1, <1>2
<1>5. Cat(Cat(Cat(Cat(s, l), n), p), qf) = Cat(Cat(Cat(s, l), n), pqf)
  BY <1>1, <1>2, <1>3
<1>6. Cat(Cat(Cat(s, l), n), pqf) = Cat(Cat(s, l), npqf)
  BY <1>1, <1>2, <1>3
<1>7. Cat(Cat(s, l), npqf) = Cat(s, Cat(l, npqf))
  BY <1>1, <1>3
<1>8. Cat(Cat(Cat(Cat(Cat(s, l), n), p), q), f) = Cat(s, Cat(l, Cat(n, Cat(p, Cat(q, f)))))
  BY <1>4, <1>5, <1>6, <1>7
<1> QED BY <1>8 DEF Cat, Regroups

\* The pieces of str() of a URL with a host.
LEMMA PiecesSpelled ==
    ASSUME NEW parts, Formed(parts), parts.host # None
    PROVE  LET n == SpelledNetloc(parts)
               p == BuilderNormalizePath(parts.path)
               q == Lead("?", parts.query)
               f == Lead("#", SpelledFragment(parts))
           IN  /\ n \in Seq(Token) /\ p \in Seq(Token) /\ p # <<>> /\ q \in Seq(Token) /\ f \in Seq(Token)
               /\ AsString(parts) = (((((IF parts.scheme = None THEN <<>> ELSE parts.scheme \o <<":", "/", "/">>)
                                        \o n) \o <<>>) \o p) \o q) \o f
<1> DEFINE n == SpelledNetloc(parts)
           p == BuilderNormalizePath(parts.path)
           q == Lead("?", parts.query)
           f == Lead("#", SpelledFragment(parts))
<1>1. n \in Seq(Token) /\ n \notin {Bad, <<>>} /\ BuildNetloc(parts) = n
  <2>1. Seq(Token \ {"/", "?", "#"}) \subseteq Seq(Token)
    BY SeqMonotonic
  <2> QED BY <2>1, NetlocSpelled
<1>2. parts.path # <<>> /\ parts.path[1] = "/" /\ parts.path \in Seq(Token)
  <2>1. Seq(Kept) \subseteq Seq(Token)
    BY SeqMonotonic DEF Kept
  <2> QED BY <2>1 DEF Formed
<1>3. p \in Seq(Token) /\ p # <<>>
  <2>1. Seq(PathText) \subseteq Seq(Token)
    BY SeqMonotonic DEF PathText, Kept
  <2> QED BY <1>2, <2>1, BuilderPath DEF Clean
<1>4. OrRoot(parts.host, BuilderNormalizePath(Rooted(parts.host, parts.path))) = p
  BY <1>2, <1>3 DEF OrRoot, Rooted
<1>5. (IF parts.query # None THEN <<"?">> \o parts.query
       ELSE IF parts.pairs # <<>> THEN <<"?">> \o SerializeQuery(parts.pairs) ELSE <<>>) = q
  <2>1. parts.query = None => parts.pairs = <<>>
    BY DEF Formed, ParseQuery
  <2> QED BY <2>1 DEF Lead
<1>6. (IF parts.fragment \in {None, <<>>} THEN <<>>
       ELSE <<"#">> \o NormalizePercentEncoding(Encode(parts.fragment, {"#", Space}))) = f
  <2>1. CASE parts.fragment \in {None, <<>>}
    <3>1. SpelledFragment(parts) = None
      BY <2>1 DEF SpelledFragment
    <3> QED BY <2>1, <3>1 DEF Lead
  <2>2. CASE parts.fragment \notin {None, <<>>}
    <3> DEFINE g == parts.fragment
               unsafe == {"#", Space}
    <3>1. g \in Seq(QueryText)
      BY <2>2 DEF Formed
    <3>2. g \in Seq(Token) /\ g \in Seq(Kept)
      <4>1. Seq(QueryText) \subseteq Seq(Token) /\ Seq(QueryText) \subseteq Seq(Kept)
        BY SeqMonotonic DEF QueryText, Kept
      <4> QED BY <3>1, <4>1
    <3>3. ~HoldsAny(g, unsafe)
      <4>1. QueryText \cap unsafe = {}
        BY DEF QueryText
      <4> QED BY <3>1, <4>1, HoldsNone
    <3> HIDE DEF g
    <3>4. unsafe \subseteq {"/", "?", "#", "@", Space}
      OBVIOUS
    <3> HIDE DEF unsafe
    <3>5. Encode(g, unsafe) = g
      BY <3>2, <3>3, <3>4, EncodedIs
    <3>6. NormalizePercentEncoding(g) = g
      BY <3>2, EscapesNormalised
    <3>7. SpelledFragment(parts) = g /\ g # None
      BY <2>2 DEF SpelledFragment, g
    <3>8. <<"#">> \o NormalizePercentEncoding(Encode(g, unsafe)) = f
      BY <3>5, <3>6, <3>7 DEF Lead
    <3> QED BY <2>2, <3>8 DEF g, unsafe
  <2> QED BY <2>1, <2>2
<1>7. q \in Seq(Token) /\ f \in Seq(Token)
  <2>1. parts.query = None \/ parts.query \in Seq(Token)
    <3>1. Seq(QueryText) \subseteq Seq(Token)
      BY SeqMonotonic DEF QueryText, Kept
    <3> QED BY <3>1 DEF Formed
  <2>2. SpelledFragment(parts) = None \/ SpelledFragment(parts) \in Seq(Token)
    <3>1. Seq(QueryText) \subseteq Seq(Token)
      BY SeqMonotonic DEF QueryText, Kept
    <3> QED BY <3>1 DEF Formed, SpelledFragment
  <2>3. "?" \in Token /\ "#" \in Token
    BY CharactersAreTokens DEF Kept
  <2> QED BY <2>1, <2>2, <2>3, LeadPart
<1>8. AsString(parts) = (((((IF parts.scheme = None THEN <<>> ELSE parts.scheme \o <<":", "/", "/">>)
                           \o n) \o <<>>) \o p) \o q) \o f
  <2> HIDE DEF n, p, q, f
  <2> QED BY <1>1, <1>4, <1>5, <1>6 DEF AsString, Compose, Spell
<1> QED BY <1>1, <1>3, <1>7, <1>8

\* str() of a URL with a scheme and a host.
LEMMA StringSpelled ==
    ASSUME NEW parts, Formed(parts), parts.scheme # None, parts.host # None
    PROVE  AsString(parts) = Spelled(parts)
<1> DEFINE s == parts.scheme
           n == SpelledNetloc(parts)
           p == BuilderNormalizePath(parts.path)
           q == Lead("?", parts.query)
           f == Lead("#", SpelledFragment(parts))
           colon == <<":">>
           slashes == <<"/", "/">>
           lead == <<":", "/", "/">>
<1>1. s \in Seq(Token)
  BY DEF Formed, GoodScheme
<1>2. n \in Seq(Token) /\ p \in Seq(Token) /\ q \in Seq(Token) /\ f \in Seq(Token)
  BY PiecesSpelled
<1>3. AsString(parts) = (((((s \o lead) \o n) \o <<>>) \o p) \o q) \o f
  BY PiecesSpelled
<1>4. colon \in Seq(Token) /\ slashes \in Seq(Token) /\ lead \in Seq(Token) /\ lead = colon \o slashes
  <2>1. ":" \in Token /\ "/" \in Token
    BY CharactersAreTokens DEF Kept
  <2> QED BY <2>1
<1> HIDE DEF s, n, p, q, f, colon, slashes, lead
<1>5. ((s \o lead) \o n) \o <<>> = (s \o lead) \o n
  <2> DEFINE sln == (s \o lead) \o n
  <2>1. sln \in Seq(Token)
    BY <1>1, <1>2, <1>4, ConcatIs
  <2> HIDE DEF sln
  <2>2. sln \o <<>> = sln
    BY <2>1, ConcatIs
  <2> QED BY <2>2 DEF sln
<1> DEFINE t == p \o (q \o f)
<1>6. q \o f \in Seq(Token) /\ t \in Seq(Token)
  BY <1>2, ConcatIs
<1> HIDE DEF t
<1>7. ((((s \o lead) \o n) \o p) \o q) \o f = s \o (lead \o (n \o t))
  <2>1. Regroups(s, lead, n, p, q, f)
    BY <1>1, <1>2, <1>4, Regrouped
  <2> QED BY <2>1 DEF Regroups, t
<1>8. lead \o (n \o t) = colon \o (slashes \o (n \o t))
  <2> DEFINE nt == n \o t
  <2>1. nt \in Seq(Token)
    BY <1>2, <1>6, ConcatIs
  <2> HIDE DEF nt
  <2>2. lead \o nt = colon \o (slashes \o nt)
    BY <1>4, <2>1, ConcatAssociative
  <2> QED BY <2>2 DEF nt
<1>9. AsString(parts) = s \o (colon \o (slashes \o (n \o t)))
  BY <1>3, <1>5, <1>7, <1>8
<1> QED BY <1>9 DEF Spelled, Prefixed, Hierarchy, s, n, p, q, f, colon, slashes, t

\* A text with a scheme, a netloc, a rooted path, a query and a fragment is read as these.
ReadsAs(text, policy, scheme, userinfo, host, port, path, query, fragment) ==
    ParseText(text, policy) = Assemble(scheme, userinfo, host, port, path, query, fragment)
\* The parser reads an address as the parts it spells.
LEMMA AddressRead ==
    ASSUME NEW s, GoodScheme(s), NEW userinfo, userinfo = None \/ GoodUserinfo(userinfo),
           NEW host, GoodHost(host), NEW port, port = None \/ IsPort(port),
           NEW policy, SchemeAllowed(policy, s),
           NEW n, n = NetlocOf(userinfo, host, port),
           NEW p \in Seq(Token \ {"?", "#"}), p # <<>>, p[1] = "/",
           NEW q, q = None \/ q \in Seq(Token \ {"#"}), NEW f, MaybeText(f),
           NEW z, z = Hierarchy(n, p, q, f), NEW text, text = Prefixed(s, z)
    PROVE  /\ z \in Seq(Token) /\ z # <<>> /\ z[1] = "/" /\ SplitHierarchy(z) = SplitOf(n, p, q, f)
           /\ text \in Seq(Token)
           /\ ReadsAs(text, policy, s, userinfo, host, port, p, q, f)
<1> DEFINE split == SplitOf(n, p, q, f)
           require == s \notin {None, <<"file">>}
<1> HIDE DEF require
<1>1. n \in Seq(Token \ {"/", "?", "#"}) /\ n # <<>>
  BY NetlocTokens
<1>2. /\ ParseUserinfo(n) = userinfo
      /\ ParseHost(HostPart(n), require) = [host |-> host, port |-> port]
  <2>1. ParseUserinfo(n) = userinfo
    BY NetlocReadBack
  <2>2. ParseHost(HostPart(n), require) = [host |-> host, port |-> port]
    BY NetlocReadBack
  <2> QED BY <2>1, <2>2
<1>3. z \in Seq(Token) /\ z # <<>> /\ z[1] = "/" /\ SplitHierarchy(z) = split
  <2>1. z \in Seq(Token) /\ z # <<>> /\ z[1] = "/"
    BY <1>1, SplitReadBack
  <2>2. SplitsInto(z, n, p, q, f)
    BY <1>1, SplitReadBack
  <2> QED BY <2>1, <2>2 DEF SplitsInto
<1>4. text \in Seq(Token) /\ ParseScheme(text, policy) = [scheme |-> s, rest |-> z]
  BY <1>3, SchemeReadBack
<1>5. ParseText(text, policy) = Assemble(s, userinfo, host, port, p, q, f)
  <2> DEFINE read == ParseScheme(text, policy)
  <2>1. ParseText(text, policy) = ParseHierarchy(s, split)
    <3>1. ParseText(text, policy) = ParseSplit(read)
      BY <1>4 DEF ParseText, IsText
    <3>2. read.scheme = s /\ read.rest = z
      BY <1>4
    <3> HIDE DEF read, split
    <3> QED BY <1>3, <3>1, <3>2 DEF ParseSplit
  <2>2. split.authority = n /\ split.path = p /\ split.query = q /\ split.fragment = f
    BY DEF SplitOf
  <2>3. n # None
    <3>1. n \in Seq(Token)
      BY <1>1, SeqMonotonic
    <3> QED BY <3>1, NoneIsNoText
  <2> HIDE DEF split
  <2> QED BY <1>2, <2>1, <2>2, <2>3 DEF ParseHierarchy, ParseParts, require
<1> QED BY <1>3, <1>4, <1>5 DEF ReadsAs

\* The port that str() leaves out is put back, and nothing is in error.
LEMMA PortPutBack ==
    ASSUME NEW parts, Formed(parts), parts.scheme # None, parts.host # None
    PROVE  /\ ApplyPortDefaults(parts.scheme, SpelledPort(parts), parts.host) = parts.port
           /\ Bad \notin {parts.scheme, parts.userinfo, parts.host, SpelledPort(parts), parts.port}
<1> DEFINE s == parts.scheme
           port == SpelledPort(parts)
<1>1. port = None \/ IsPort(port)
  BY NetlocSpelled
<1>2. /\ parts.userinfo = None \/ GoodUserinfo(parts.userinfo)
      /\ GoodHost(parts.host) /\ GoodScheme(s)
      /\ GoodPort(s, parts.host, parts.port) /\ parts.pairs = ParseQuery(parts.query)
  BY DEF Formed
<1>3. ApplyPortDefaults(s, port, parts.host) = parts.port
  <2>1. CASE port = None
    <3>1. parts.port \in {None, DefaultPort(s)}
      BY <2>1 DEF SpelledPort
    <3>2. parts.port = DefaultPort(s)
      BY <1>2, <3>1, PortParsed DEF GoodPort
    <3> QED BY <2>1, <3>2 DEF ApplyPortDefaults
  <2>2. CASE port # None
    <3>1. port = parts.port /\ parts.port # DefaultPort(s) /\ parts.port # None
      BY <2>2 DEF SpelledPort
    <3>2. parts.host # None /\ s # <<"file">>
      BY <1>2, <3>1 DEF GoodPort
    <3> QED BY <3>1, <3>2 DEF ApplyPortDefaults
  <2> QED BY <2>1, <2>2
<1>4. Bad \notin {s, parts.userinfo, parts.host, port, parts.port}
  <2>1. s \in Seq(Token)
    BY <1>2 DEF GoodScheme
  <2>2. parts.host \in Seq(Token)
    BY <1>2 DEF GoodHost, ValidHost, IsText
  <2>3. parts.userinfo = None \/ parts.userinfo \in Seq(Token)
    <3>1. Seq(UserText) \subseteq Seq(Token)
      BY SeqMonotonic DEF UserText, Kept
    <3> QED BY <1>2, <3>1 DEF GoodUserinfo
  <2>4. (port = None \/ port \in Seq(Token)) /\ (parts.port = None \/ parts.port \in Seq(Token))
    <3>1. Seq(Token \ Delimiters) \subseteq Seq(Token)
      BY SeqMonotonic
    <3>2. parts.port = None \/ IsPort(parts.port)
      BY <1>2 DEF GoodPort
    <3> QED BY <1>1, <3>1, <3>2, PortParsed
  <2>5. Bad # None
    BY DEF Bad, None
  <2> QED BY <2>1, <2>2, <2>3, <2>4, <2>5, NoneIsNoText
<1> QED BY <1>3, <1>4

\* The texts in str(): each ends where the next begins, and is valid and normalised.
LEMMA SpelledTexts ==
    ASSUME NEW parts, Formed(parts), parts.scheme # None, parts.host # None
    PROVE  LET n == SpelledNetloc(parts)
               p == BuilderNormalizePath(parts.path)
               q == parts.query
               f == SpelledFragment(parts)
           IN  /\ AsString(parts) = Prefixed(parts.scheme, Hierarchy(n, p, q, f))
               /\ p \in Seq(Token \ {"?", "#"}) /\ p # <<>> /\ p[1] = "/"
               /\ (q = None \/ q \in Seq(Token \ {"#"})) /\ MaybeText(q) /\ MaybeText(f)
               /\ NormalizePercentEncoding(q) = q /\ NormalizePercentEncoding(f) = f
               /\ ValidQuery(q) /\ ValidFragment(f)
<1> DEFINE p == BuilderNormalizePath(parts.path)
           q == parts.query
           f == SpelledFragment(parts)
<1>1. AsString(parts) = Prefixed(parts.scheme, Hierarchy(SpelledNetloc(parts), p, q, f))
  BY StringSpelled DEF Spelled
<1>3. parts.path # <<>> /\ parts.path[1] = "/" /\ parts.path \in Seq(Token)
  <2>1. Seq(Kept) \subseteq Seq(Token)
    BY SeqMonotonic DEF Kept
  <2> QED BY <2>1 DEF Formed
<1>4. p \in Seq(Token \ {"?", "#"}) /\ p # <<>> /\ p[1] = "/"
  <2>1. Seq(PathText) \subseteq Seq(Token \ {"?", "#"})
    BY SeqMonotonic DEF PathText, Kept
  <2> QED BY <1>3, <2>1, BuilderPath DEF Clean
<1>5. q = None \/ q \in Seq(QueryText)
  BY DEF Formed
<1>6. f = None \/ f \in Seq(QueryText)
  BY DEF Formed, SpelledFragment
<1>7. (q = None \/ q \in Seq(Token \ {"#"})) /\ MaybeText(q) /\ MaybeText(f)
  <2>1. Seq(QueryText) \subseteq Seq(Token \ {"#"}) /\ Seq(QueryText) \subseteq Seq(Token)
    BY SeqMonotonic DEF QueryText, Kept
  <2> QED BY <1>5, <1>6, <2>1 DEF MaybeText
<1>8. NormalizePercentEncoding(q) = q /\ NormalizePercentEncoding(f) = f
  <2>1. Seq(QueryText) \subseteq Seq(Kept)
    BY SeqMonotonic DEF QueryText
  <2> QED BY <1>5, <1>6, <2>1, EscapesNormalised, NormalNone
<1>9. ~HoldsAny(q, {"#", Space}) /\ ~HoldsAny(f, {"#", Space})
  <2>1. {"#", Space} \subseteq Token /\ QueryText \cap {"#", Space} = {}
    BY CharactersAreTokens DEF Kept, QueryText
  <2> QED BY <1>5, <1>6, <2>1, NormalNone, HoldsNone
<1>10. ValidQuery(q) /\ ValidFragment(f)
  <2>1. parts.pairs = ParseQuery(q) /\ \A pair \in Range(parts.pairs) : pair[1] # <<>>
    BY DEF Formed
  <2>2. ~Holds(q, Space)
    BY <1>9 DEF Holds, HoldsAny
  <2> QED BY <1>9, <2>1, <2>2 DEF ValidQuery, ValidFragment
<1> QED BY <1>1, <1>4, <1>7, <1>8, <1>10

\* Parsed again, the string gives the parts back, with the path the parser makes of the
\* path it spells.
LEMMA ReadBack ==
    ASSUME NEW parts, Formed(parts), parts.scheme # None, parts.host # None,
           NEW policy, SchemeAllowed(policy, parts.scheme),
           NEW again, again = ParseText(AsString(parts), policy)
    PROVE  /\ again.ok /\ again.scheme = parts.scheme /\ again.userinfo = parts.userinfo
           /\ again.host = parts.host /\ again.port = parts.port
           /\ again.query = parts.query /\ again.pairs = parts.pairs
           /\ again.fragment = SpelledFragment(parts)
           /\ again.path = OrRoot(parts.host, NormalizePath(Rooted(parts.host, BuilderNormalizePath(parts.path))))
           /\ AsString(parts) \in Seq(Token)
           /\ again = [part \in Parts |-> again[part]]
<1> DEFINE s == parts.scheme
           n == SpelledNetloc(parts)
           p == BuilderNormalizePath(parts.path)
           q == parts.query
           f == SpelledFragment(parts)
           port == SpelledPort(parts)
           z == Hierarchy(n, p, q, f)
           text == AsString(parts)
<1>1. /\ text = Prefixed(s, z)
      /\ p \in Seq(Token \ {"?", "#"}) /\ p # <<>> /\ p[1] = "/"
      /\ (q = None \/ q \in Seq(Token \ {"#"})) /\ MaybeText(q) /\ MaybeText(f)
      /\ NormalizePercentEncoding(q) = q /\ NormalizePercentEncoding(f) = f
      /\ ValidQuery(q) /\ ValidFragment(f)
  BY SpelledTexts
<1>2. n \in Seq(Token \ {"/", "?", "#"}) /\ n \notin {Bad, <<>>} /\ (port = None \/ IsPort(port))
  BY NetlocSpelled
<1>11. /\ parts.userinfo = None \/ GoodUserinfo(parts.userinfo)
       /\ GoodHost(parts.host) /\ GoodScheme(s)
       /\ GoodPort(s, parts.host, parts.port) /\ parts.pairs = ParseQuery(q)
  BY DEF Formed
<1>12. text \in Seq(Token) /\ again = Assemble(s, parts.userinfo, parts.host, port, p, q, f)
  <2> HIDE DEF p, q, f, port
  <2>1. n = NetlocOf(parts.userinfo, parts.host, port)
    BY DEF SpelledNetloc, port
  <2> HIDE DEF n, z, text
  <2>2. z = Hierarchy(n, p, q, f)
    BY DEF z
  <2>3. text \in Seq(Token)
    BY <1>1, <1>2, <1>11, <2>1, <2>2, AddressRead
  <2>4. ReadsAs(text, policy, s, parts.userinfo, parts.host, port, p, q, f)
    BY <1>1, <1>2, <1>11, <2>1, <2>2, AddressRead
  <2> QED BY <2>3, <2>4 DEF text, ReadsAs
<1> HIDE DEF z, text
<1>13. /\ ApplyPortDefaults(s, port, parts.host) = parts.port
       /\ Bad \notin {s, parts.userinfo, parts.host, port, parts.port}
  BY PortPutBack
<1> DEFINE made == [ok |-> TRUE, scheme |-> s, userinfo |-> parts.userinfo, host |-> parts.host,
                    port |-> parts.port,
                    path |-> OrRoot(parts.host, NormalizePath(Rooted(parts.host, p))),
                    query |-> q, pairs |-> ParseQuery(q), fragment |-> f]
<1>14. again = made
  <2> HIDE DEF p, q, f, port, s
  <2> QED BY <1>1, <1>12, <1>13 DEF Assemble, p, q, f, port, s
<1>15. made = [part \in Parts |-> made[part]]
  <2> HIDE DEF p, q, f, s
  <2> QED BY DEF Parts
<1> QED BY <1>11, <1>12, <1>14, <1>15 DEF text

-----------------------------------------------------------------------------
(***************************************************************************)
(* A path that is spelled twice                                            *)
(***************************************************************************)

\* What follows a "/" of a path without dot segments has none.
LEMMA CleanRest ==
    ASSUME NEW K, NEW t \in Clean(K), NEW m \in 1..Len(t), t[m] = "/"
    PROVE  From(t, m) \in Clean(K)
<1> DEFINE r == From(t, m)
<1>1. t \in Seq(K) /\ DotFree(t) /\ Len(t) \in Nat /\ m >= 1 /\ m <= Len(t) /\ m \in Nat
  BY DEF Clean
<1>2. r \in Seq(K) /\ Len(r) = Len(t) + 1 - m /\ \A j \in 1..Len(r) : r[j] = t[j + m - 1]
  BY <1>1, FromIs
<1> HIDE DEF r
<1>3. Len(r) >= 1 /\ Len(r) \in Nat
  BY <1>1, <1>2
<1>4. r # <<>> /\ r[1] = "/"
  <2>1. 1 \in 1..Len(r) /\ 1 + m - 1 = m
    BY <1>1, <1>3
  <2>2. r[1] = t[m]
    BY <1>2, <2>1
  <2> QED BY <1>3, <2>2
<1>5. ASSUME NEW j \in 1..(Len(r) + 1), Ends(r, j) PROVE Ends(t, j + m - 1)
  <2>1. j = Len(r) + 1 => j + m - 1 = Len(t) + 1
    BY <1>1, <1>2
  <2>2. j # Len(r) + 1 => j \in 1..Len(r) /\ r[j] = "/"
    BY <1>3, <1>5 DEF Ends
  <2> QED BY <1>2, <2>1, <2>2 DEF Ends
<1>6. ASSUME NEW j \in Nat, DotAt(r, j) PROVE j \in 1..Len(r) /\ DotAt(t, j + m - 1)
  <2>1. j \in 1..Len(r) /\ r[j] = "."
    BY <1>6 DEF DotAt
  <2>2. j + m - 1 \in 1..Len(t)
    BY <1>1, <1>2, <2>1
  <2> QED BY <1>2, <2>1, <2>2 DEF DotAt
<1>7. ASSUME NEW i \in 1..Len(r), Ends(r, i - 1), DotAt(r, i),
             Ends(r, i + 1) \/ (DotAt(r, i + 1) /\ Ends(r, i + 2))
      PROVE  FALSE
  <2> DEFINE k == i + m - 1
  <2>0. i # 1
    BY <1>4, <1>7 DEF DotAt
  <2>1. /\ i \in Nat /\ i - 1 \in 1..(Len(r) + 1) /\ i + 1 \in 1..(Len(r) + 1) /\ i + 1 \in Nat
        /\ (i - 1) + m - 1 = k - 1 /\ (i + 1) + m - 1 = k + 1 /\ (i + 2) + m - 1 = k + 2
    BY <1>1, <1>3, <2>0
  <2>2. DotAt(t, k)
    BY <1>6, <1>7, <2>1
  <2>3. Ends(t, k - 1)
    BY <1>5, <1>7, <2>1
  <2>4. Ends(r, i + 1) => Ends(t, k + 1)
    BY <1>5, <2>1
  <2>5. DotAt(r, i + 1) => DotAt(t, k + 1) /\ i + 1 \in 1..Len(r)
    BY <1>6, <2>1
  <2>6. DotAt(r, i + 1) /\ Ends(r, i + 2) => Ends(t, k + 2)
    <3> SUFFICES ASSUME DotAt(r, i + 1), Ends(r, i + 2) PROVE Ends(t, k + 2)
      OBVIOUS
    <3>1. i + 2 \in 1..(Len(r) + 1)
      BY <1>3, <2>5
    <3> QED BY <1>5, <2>1, <3>1
  <2>7. k \in 1..Len(t)
    BY <2>2 DEF DotAt
  <2> HIDE DEF k
  <2> QED BY <1>1, <1>7, <2>2, <2>3, <2>4, <2>5, <2>6, <2>7 DEF DotFree
<1>8. DotFree(r)
  BY <1>7 DEF DotFree
<1>9. r \in Clean(K)
  BY <1>2, <1>4, <1>8 DEF Clean
<1> QED BY <1>9 DEF r

\* A turn at such a path moves its first segment.
LEMMA CleanMoves ==
    ASSUME NEW K, "/" \in K, "." \in K, NEW x \in Clean(K), NEW y
    PROVE  LET s == <<x[1]>> \o Before(Tail(x), {"/"})
           IN  DotsTurn([input |-> x, output |-> y]) = [input |-> From(x, Len(s) + 1), output |-> Append(y, s)]
<1> DEFINE buffers == [input |-> x, output |-> y]
           s == <<x[1]>> \o Before(Tail(x), {"/"})
           here == Starts(x, <<"/", ".", "/">>)
           up == Starts(x, <<"/", ".", ".", "/">>)
           made == [input |-> From(x, Len(s) + 1), output |-> Append(y, s)]
<1>1. x \in Seq(K) /\ x # <<>> /\ x[1] = "/" /\ DotFree(x) /\ Len(x) \in Nat /\ Len(x) >= 1
  BY DEF Clean
<1>2. ASSUME Len(x) >= 2, x[2] = "."
      PROVE  ~Ends(x, 3) /\ ~(DotAt(x, 3) /\ Ends(x, 4))
  <2>1. 2 \in 1..Len(x) /\ 2 - 1 = 1 /\ 2 + 1 = 3 /\ 2 + 2 = 4
    BY <1>1, <1>2
  <2>2. Ends(x, 1) /\ DotAt(x, 2)
    BY <1>1, <1>2, <2>1 DEF Ends, DotAt
  <2> QED BY <1>1, <2>1, <2>2 DEF DotFree
<1>3. ~here
  <2>1. here => Len(x) >= 3 /\ x[2] = "." /\ x[3] = "/"
    BY <1>1, StartsThree
  <2> QED BY <1>1, <1>2, <2>1 DEF Ends
<1>4. ~up
  <2>1. up => Len(x) >= 4 /\ x[2] = "." /\ x[3] = "." /\ x[4] = "/"
    BY <1>1, StartsFour
  <2>2. Len(x) >= 4 => 3 \in 1..Len(x) /\ Len(x) >= 2
    BY <1>1
  <2> QED BY <1>2, <2>1, <2>2 DEF Ends, DotAt
<1>5. x # <<"/", ".">>
  <2> SUFFICES ASSUME x = <<"/", ".">> PROVE FALSE
    OBVIOUS
  <2>1. Len(x) = 2 /\ x[2] = "."
    OBVIOUS
  <2> QED BY <1>2, <2>1 DEF Ends
<1>6. x # <<"/", ".", ".">>
  <2> SUFFICES ASSUME x = <<"/", ".", ".">> PROVE FALSE
    OBVIOUS
  <2>1. Len(x) = 3 /\ x[2] = "." /\ x[3] = "."
    OBVIOUS
  <2> QED BY <1>2, <2>1 DEF Ends, DotAt
<1>7. ~Starts(x, <<".", ".", "/">>) /\ ~Starts(x, <<".", "/">>) /\ x \notin {<<".">>, <<".", ".">>}
  BY <1>1, StartsTwo, StartsThree
<1>8. buffers.input = x /\ buffers.output = y
  OBVIOUS
<1> HIDE DEF here, up, buffers
<1>9. DotsTurn(buffers) = made
  BY <1>1, <1>3, <1>4, <1>5, <1>6, <1>7, <1>8 DEF DotsTurn, here, up
<1> QED BY <1>9 DEF buffers

\* A text is what it starts with and the rest.
LEMMA StartAndRest ==
    ASSUME NEW T, NEW x \in Seq(T), NEW s \in Seq(T), Len(s) <= Len(x),
           \A j \in 1..Len(s) : s[j] = x[j]
    PROVE  s \o From(x, Len(s) + 1) = x
<1> DEFINE r == From(x, Len(s) + 1)
           w == s \o r
<1>1. Len(x) \in Nat /\ Len(s) \in Nat /\ Len(s) + 1 \in 1..(Len(x) + 1)
  OBVIOUS
<1>2. /\ r \in Seq(T) /\ Len(r) = Len(x) + 1 - (Len(s) + 1)
      /\ \A j \in 1..(Len(x) + 1 - (Len(s) + 1)) : r[j] = x[j + (Len(s) + 1) - 1]
  BY <1>1, FromIs
<1> HIDE DEF r
<1>3. /\ w \in Seq(T) /\ Len(w) = Len(s) + Len(r)
      /\ \A i \in 1..(Len(s) + Len(r)) : w[i] = IF i <= Len(s) THEN s[i] ELSE r[i - Len(s)]
  BY <1>2, ConcatProperties
<1> HIDE DEF w
<1>4. Len(w) = Len(x)
  BY <1>1, <1>2, <1>3
<1>5. ASSUME NEW i \in 1..Len(x) PROVE w[i] = x[i]
  <2>1. CASE i <= Len(s)
    BY <1>1, <1>3, <1>4, <2>1
  <2>2. CASE ~(i <= Len(s))
    <3>1. i - Len(s) \in 1..(Len(x) + 1 - (Len(s) + 1)) /\ (i - Len(s)) + (Len(s) + 1) - 1 = i
      BY <1>1, <2>2
    <3>2. w[i] = r[i - Len(s)]
      BY <1>3, <1>4, <2>2
    <3> QED BY <1>2, <3>1, <3>2
  <2> QED BY <2>1, <2>2
<1>6. w = x
  BY <1>3, <1>4, <1>5, SeqEqual
<1> QED BY <1>6 DEF w, r

\* Between two turns nothing is lost: what has been moved, and what is left, is the path.
NothingLost(K, path, x, y, left) ==
    /\ x = <<>> \/ x \in Clean(K)
    /\ Len(x) <= left
    /\ y \in Seq(Seq(K))
    /\ \/ y = <<>> /\ x = path
       \/ y # <<>> /\ FlattenSeq(y) \in Seq(K) /\ FlattenSeq(y) \o x = path

\* Of a path without dot segments a turn of the loop loses nothing.
LEMMA TurnLosesNothing ==
    ASSUME NEW K, "/" \in K, "." \in K, NEW path \in Clean(K), NEW n \in Nat, NEW x, NEW y,
           NothingLost(K, path, x, y, n + 1), NEW turned, turned = DotsTurn([input |-> x, output |-> y])
    PROVE  turned = [input |-> turned.input, output |-> turned.output]
           /\ NothingLost(K, path, turned.input, turned.output, n)
<1>1. CASE x = <<>>
  <2>1. x \notin {<<"/", ".">>, <<"/", ".", ".">>, <<".">>, <<".", ".">>} /\ Len(x) = 0 /\ x \in Seq(K)
    BY <1>1
  <2>2. ~(Len(x) >= 2) /\ ~(Len(x) >= 3) /\ ~(Len(x) >= 4)
    BY <2>1
  <2>3. /\ ~Starts(x, <<".", ".", "/">>) /\ ~Starts(x, <<".", "/">>)
        /\ ~Starts(x, <<"/", ".", "/">>) /\ ~Starts(x, <<"/", ".", ".", "/">>)
    BY <2>1, <2>2, StartsTwo, StartsThree, StartsFour
  <2> DEFINE buffers == [input |-> x, output |-> y]
  <2>4. buffers.input = x /\ buffers.output = y
    OBVIOUS
  <2>5. DotsTurn(buffers) = buffers
    <3> HIDE DEF buffers
    <3> QED BY <1>1, <2>1, <2>3, <2>4 DEF DotsTurn
  <2>6. Len(x) <= n
    BY <2>1
  <2> QED BY <2>4, <2>5, <2>6 DEF NothingLost
<1>2. CASE x # <<>>
  <2> DEFINE s == <<x[1]>> \o Before(Tail(x), {"/"})
             r == From(x, Len(s) + 1)
             z == Append(y, s)
  <2>1. x \in Clean(K) /\ x \in Seq(K) /\ Len(x) <= n + 1 /\ y \in Seq(Seq(K)) /\ Len(x) \in Nat
    BY <1>2 DEF NothingLost, Clean
  <2>2. turned = [input |-> r, output |-> z]
    BY <2>1, CleanMoves
  <2>3. /\ s \in Seq(K) /\ Len(s) \in 1..Len(x) /\ \A j \in 1..Len(s) : s[j] = x[j]
        /\ Len(s) < Len(x) => x[Len(s) + 1] = "/"
    BY <1>2, <2>1, FirstSegment
  <2> HIDE DEF s
  <2>4. s \o r = x
    BY <2>1, <2>3, StartAndRest
  <2>5. r \in Seq(K) /\ Len(r) = Len(x) + 1 - (Len(s) + 1)
    <3>1. Len(s) + 1 \in 1..(Len(x) + 1)
      BY <2>1, <2>3
    <3> QED BY <2>1, <3>1, FromIs
  <2>6. r = <<>> \/ r \in Clean(K)
    <3>1. CASE Len(s) < Len(x)
      <4>1. Len(s) + 1 \in 1..Len(x)
        BY <2>1, <2>3, <3>1
      <4> QED BY <2>1, <2>3, <3>1, <4>1, CleanRest
    <3>2. CASE ~(Len(s) < Len(x))
      <4>1. Len(r) = 0
        BY <2>1, <2>3, <2>5, <3>2
      <4> HIDE DEF r
      <4> QED BY <2>5, <4>1
    <3> QED BY <3>1, <3>2
  <2> HIDE DEF r
  <2>7. Len(r) <= n
    BY <2>1, <2>3, <2>5
  <2>8. z \in Seq(Seq(K)) /\ z # <<>>
    <3>1. z \in Seq(Seq(K)) /\ Len(z) = Len(y) + 1 /\ Len(y) \in Nat
      BY <2>1, <2>3, AppendIs
    <3> HIDE DEF z
    <3> QED BY <3>1
  <2>9. FlattenSeq(z) \in Seq(K) /\ FlattenSeq(z) \o r = path
    <3>1. FlattenSeq(z) = IF y = <<>> THEN s ELSE FlattenSeq(y) \o s
      BY <2>1, <2>3, FlattenGrows
    <3>2. CASE y = <<>>
      BY <2>3, <2>4, <3>1, <3>2 DEF NothingLost
    <3>3. CASE y # <<>>
      <4> DEFINE flat == FlattenSeq(y)
      <4>1. flat \in Seq(K) /\ flat \o x = path
        BY <3>3 DEF NothingLost
      <4>2. FlattenSeq(z) = flat \o s
        BY <3>1, <3>3
      <4> HIDE DEF flat, z
      <4>3. (flat \o s) \o r = flat \o (s \o r)
        <5>1. Associates(flat, s, r)
          BY <2>3, <2>5, <4>1, Regrouping
        <5> QED BY <5>1 DEF Associates
      <4>4. flat \o s \in Seq(K)
        BY <2>3, <4>1, ConcatIs
      <4> QED BY <2>4, <4>1, <4>2, <4>3, <4>4
    <3> QED BY <3>2, <3>3
  <2> HIDE DEF z
  <2>10. NothingLost(K, path, r, z, n)
    BY <2>6, <2>7, <2>8, <2>9 DEF NothingLost
  <2> QED BY <2>2, <2>10
<1> QED BY <1>1, <1>2

\* remove_dot_segments leaves a rooted path that has none as it is.
THEOREM NothingRemoved ==
    ASSUME NEW K, "/" \in K, "." \in K, NEW path \in Clean(K)
    PROVE  RemoveDotSegments(path) = path
<1> DEFINE k == Len(path)
           first == [input |-> path, output |-> <<>>]
           Is(g) == g = [n \in 0..k |-> IF n = 0 THEN first ELSE DotsTurn(g[n - 1])]
           after == CHOOSE g : Is(g)
           Whole(b, left) == b = [input |-> b.input, output |-> b.output] /\ NothingLost(K, path, b.input, b.output, left)
           S == {n \in Nat : n \in 0..k => Whole(after[n], k - n)}
<1>0. path \in Seq(K) /\ path # <<>>
  BY DEF Clean
<1>1. k \in Nat /\ k # 0
  BY <1>0
<1>2. Is(after)
  <2>1. \E g : Is(g)
    BY <1>1, AfterDefined, Zenon
  <2> HIDE DEF Is
  <2> QED BY <2>1, Zenon
<1>3. RemoveDotSegments(path) = FlattenSeq(after[k].output)
  BY DEF RemoveDotSegments
<1> HIDE DEF after
<1>4. 0 \in S
  <2>1. Whole(first, k)
    BY <1>0, <1>1 DEF NothingLost
  <2>2. after[0] = first /\ k - 0 = k
    BY <1>1, <1>2
  <2> HIDE DEF Whole, first
  <2> QED BY <2>1, <2>2
<1>5. ASSUME NEW n \in Nat, n \in S PROVE n + 1 \in S
  <2> SUFFICES ASSUME n + 1 \in 0..k PROVE Whole(after[n + 1], k - (n + 1))
    OBVIOUS
  <2> DEFINE left == k - (n + 1)
             b == after[n]
             c == after[n + 1]
  <2>1. left \in Nat /\ left + 1 = k - n /\ n \in 0..k
    BY <1>1
  <2> HIDE DEF left
  <2>2. Whole(b, left + 1)
    BY <1>5, <2>1
  <2>5. c = DotsTurn(b)
    <3>1. n + 1 # 0 /\ (n + 1) - 1 = n
      OBVIOUS
    <3>2. after[n + 1] = IF n + 1 = 0 THEN first ELSE DotsTurn(after[(n + 1) - 1])
      <4> HIDE DEF first
      <4> QED BY <1>2
    <3> QED BY <3>1, <3>2, Zenon
  <2> HIDE DEF b, c
  <2>6. Whole(c, left)
    <3> DEFINE x == b.input
               y == b.output
    <3>1. b = [input |-> x, output |-> y] /\ NothingLost(K, path, x, y, left + 1)
      BY <2>2
    <3> HIDE DEF x, y
    <3>2. c = DotsTurn([input |-> x, output |-> y])
      BY <2>5, <3>1
    <3> QED BY <2>1, <3>1, <3>2, TurnLosesNothing
  <2> HIDE DEF Whole
  <2> QED BY <2>6 DEF left, c
<1> HIDE DEF S
<1>6. k \in S
  BY <1>1, <1>4, <1>5, SetInduction
<1> DEFINE x == after[k].input
           y == after[k].output
<1>7. NothingLost(K, path, x, y, 0)
  BY <1>1, <1>6 DEF S
<1> HIDE DEF x, y
<1>8. x = <<>>
  <2>1. x = <<>> \/ (x \in Seq(K) /\ x # <<>>)
    BY <1>7 DEF NothingLost, Clean
  <2>2. Len(x) <= 0
    BY <1>7 DEF NothingLost
  <2> QED BY <2>1, <2>2
<1>9. FlattenSeq(y) = path
  BY <1>0, <1>7, <1>8, ConcatEmptySeq DEF NothingLost
<1> QED BY <1>3, <1>9 DEF y

\* Tokens that are neither a dot nor a slash, in the place of others, make no dot segment.
LEMMA DotFreeStays ==
    ASSUME NEW t \in Seq(Token), NEW u \in Seq(Token), Len(u) = Len(t), DotFree(t),
           \A i \in 1..Len(t) : (u[i] = "." => t[i] = ".") /\ (u[i] = "/" => t[i] = "/")
    PROVE  DotFree(u)
<1>1. Len(t) \in Nat
  OBVIOUS
<1>2. ASSUME NEW j \in 0..(Len(t) + 1), Ends(u, j) PROVE Ends(t, j)
  <2>1. j = 0 \/ j = Len(t) + 1 \/ j \in 1..Len(t)
    BY <1>1
  <2> QED BY <1>2, <2>1 DEF Ends
<1>3. ASSUME NEW j, DotAt(u, j) PROVE DotAt(t, j) /\ j \in 1..Len(t)
  BY <1>3 DEF DotAt
<1>4. ASSUME NEW i \in 1..Len(u), Ends(u, i - 1), DotAt(u, i)
      PROVE  ~Ends(u, i + 1) /\ ~(DotAt(u, i + 1) /\ Ends(u, i + 2))
  <2>1. i - 1 \in 0..(Len(t) + 1) /\ i + 1 \in 0..(Len(t) + 1) /\ i \in 1..Len(t)
    BY <1>1
  <2>2. Ends(t, i - 1) /\ DotAt(t, i)
    BY <1>2, <1>3, <1>4, <2>1
  <2>3. ~Ends(t, i + 1) /\ ~(DotAt(t, i + 1) /\ Ends(t, i + 2))
    BY <2>1, <2>2 DEF DotFree
  <2>4. DotAt(u, i + 1) => DotAt(t, i + 1) /\ i + 2 \in 0..(Len(t) + 1)
    <3> SUFFICES ASSUME DotAt(u, i + 1) PROVE DotAt(t, i + 1) /\ i + 2 \in 0..(Len(t) + 1)
      OBVIOUS
    <3>1. DotAt(t, i + 1) /\ i + 1 \in 1..Len(t)
      BY <1>3
    <3> QED BY <1>1, <2>1, <3>1
  <2> QED BY <1>2, <2>1, <2>3, <2>4
<1> QED BY <1>4 DEF DotFree

\* What has to be escaped in a path is no dot and no slash, and neither is its escape.
LEMMA PathEscaped ==
    ASSUME NEW token \in Kept
    PROVE  LET new == Escaped(token, {"?", "#", Space})
           IN  /\ new \in Kept
               /\ new = "." => token = "."
               /\ new = "/" => token = "/"
               /\ (IF new \in DOMAIN Decoded THEN Decoded[new] ELSE new)
                    = IF token \in DOMAIN Decoded THEN Decoded[token] ELSE token
<1>1. CASE token \notin {"?", "#", Space}
  BY <1>1 DEF Escaped
<1>2. CASE token \in {"?", "#", Space}
  <2> DEFINE escape == EscapeOf(token)
  <2>1. \E e \in DOMAIN Decoded : Decoded[e] = token /\ e # "%2f"
    BY <1>2, EscapesAssumption
  <2>2. escape \in DOMAIN Decoded /\ Decoded[escape] = token /\ escape # "%2f"
    BY <2>1 DEF EscapeOf
  <2>3. Escaped(token, {"?", "#", Space}) = escape
    BY <1>2 DEF Escaped
  <2> HIDE DEF escape
  <2>4. token \notin {".", "~", "/"} /\ token \notin DOMAIN Decoded
    BY <1>2, CharactersAreTokens, SpaceIsNoOther
  <2>5. escape \notin {".", "/"} /\ escape \notin {"%2E", "%7E"} /\ escape \in Token
    BY <2>2, <2>4, UnreservedAssumption, EscapesAssumption
  <2> QED BY <2>2, <2>3, <2>4, <2>5 DEF Kept
<1> QED BY <1>1, <1>2

\* Of a path in form the builder escapes some tokens, and does nothing to it the second
\* time; nor does the parser.
LEMMA BuilderKeeps ==
    ASSUME NEW path \in Clean(Kept), NEW p, p = BuilderNormalizePath(path)
    PROVE  /\ p \in Clean(Kept) /\ Unquote(p) = Unquote(path)
           /\ BuilderNormalizePath(p) = p /\ NormalizePath(p) = p
           /\ \A tokens : tokens \subseteq DOMAIN Decoded /\ HoldsAny(path, tokens) => HoldsAny(p, tokens)
<1> DEFINE unsafe == {"?", "#", Space}
           e == Encode(path, unsafe)
<1>1. path \in Seq(Kept) /\ path \in Seq(Token) /\ path # <<>> /\ path[1] = "/" /\ DotFree(path)
  <2>1. Seq(Kept) \subseteq Seq(Token)
    BY SeqMonotonic DEF Kept
  <2> QED BY <2>1 DEF Clean
<1>2. unsafe \subseteq {"/", "?", "#", "@", Space} /\ "/" \notin unsafe
  BY SpaceIsNoOther
<1>3. /\ e \in Seq(Token) /\ Len(e) = Len(path)
      /\ \A i \in 1..Len(path) : e[i] = Escaped(path[i], unsafe)
      /\ ~HoldsAny(e, unsafe)
  <2> HIDE DEF unsafe
  <2> QED BY <1>1, <1>2, EncodedIs
<1> HIDE DEF e
<1> DEFINE Meant(token) == IF token \in DOMAIN Decoded THEN Decoded[token] ELSE token
<1>4. ASSUME NEW i \in 1..Len(path)
      PROVE  /\ e[i] \in Kept
             /\ e[i] = "." => path[i] = "."
             /\ e[i] = "/" => path[i] = "/"
             /\ Meant(e[i]) = Meant(path[i])
  <2>1. path[i] \in Kept
    BY <1>1
  <2>2. e[i] = Escaped(path[i], {"?", "#", Space})
    BY <1>3 DEF unsafe
  <2> DEFINE new == Escaped(path[i], {"?", "#", Space})
  <2>3. new \in Kept
    BY <2>1, PathEscaped
  <2>4. new = "." => path[i] = "."
    BY <2>1, PathEscaped
  <2>5. new = "/" => path[i] = "/"
    BY <2>1, PathEscaped
  <2>6. Meant(new) = Meant(path[i])
    BY <2>1, PathEscaped
  <2> HIDE DEF new, Meant
  <2> QED BY <2>2, <2>3, <2>4, <2>5, <2>6 DEF new
<1>5. e \in Seq(Kept)
  <2>1. Len(path) \in Nat /\ e = [i \in 1..Len(path) |-> e[i]]
    BY <1>1, <1>3
  <2> QED BY <1>4, <2>1
<1>6. e # <<>> /\ e[1] = "/"
  <2>1. 1 \in 1..Len(path) /\ Escaped("/", unsafe) = "/"
    BY <1>1, <1>2 DEF Escaped
  <2> QED BY <1>1, <1>3, <2>1
<1>7. DotFree(e)
  BY <1>1, <1>3, <1>4, DotFreeStays
<1>8. e \in Clean(Kept)
  BY <1>5, <1>6, <1>7 DEF Clean
<1>9. "/" \in Kept /\ "." \in Kept
  BY CharactersAreTokens
<1>10. RemoveDotSegments(e) = e /\ NormalizePercentEncoding(e) = e
  BY <1>5, <1>8, <1>9, NothingRemoved, EscapesNormalised
<1>11. NormalizePath(e) = e
  BY <1>6, <1>10 DEF NormalizePath, NormalizeDotSegments
<1>12. p = e
  BY <1>11 DEF BuilderNormalizePath, NormalizePath, e
<1>13. Encode(e, unsafe) = e
  <2> HIDE DEF unsafe
  <2> QED BY <1>2, <1>3, EncodedIs
<1>14. BuilderNormalizePath(e) = e
  BY <1>11, <1>13 DEF BuilderNormalizePath, NormalizePath
<1>15. Unquote(e) = Unquote(path)
  <2>1. DOMAIN e = 1..Len(path) /\ DOMAIN path = 1..Len(path)
    BY <1>1, <1>3
  <2> QED BY <1>4, <2>1 DEF Unquote, Each
<1>16. ASSUME NEW tokens, tokens \subseteq DOMAIN Decoded, HoldsAny(path, tokens) PROVE HoldsAny(e, tokens)
  <2>1. DOMAIN e = 1..Len(path) /\ DOMAIN path = 1..Len(path)
    BY <1>1, <1>3
  <2>2. \A i \in 1..Len(path) : path[i] \in tokens => e[i] = path[i]
    BY <1>3, <1>16, CharactersAreTokens DEF Escaped
  <2> QED BY <1>16, <2>1, <2>2 DEF HoldsAny
<1> QED BY <1>8, <1>11, <1>12, <1>14, <1>15, <1>16

\* The string of a URL is read back as its parts, the path up to escapes, and they are
\* spelled as the same string again.
LEMMA SpelledAgain ==
    ASSUME NEW parts, Formed(parts), parts.scheme # None, parts.host # None,
           NEW policy, SchemeAllowed(policy, parts.scheme),
           NEW again, again = ParseText(AsString(parts), policy)
    PROVE  /\ again.path = BuilderNormalizePath(parts.path)
           /\ Unquote(again.path) = Unquote(parts.path) /\ AsString(again) = AsString(parts)
<1> DEFINE p == BuilderNormalizePath(parts.path)
<1>1. /\ again.ok /\ again.scheme = parts.scheme /\ again.userinfo = parts.userinfo
      /\ again.host = parts.host /\ again.port = parts.port /\ again.query = parts.query
      /\ again.fragment = SpelledFragment(parts)
      /\ again.path = OrRoot(parts.host, NormalizePath(Rooted(parts.host, p)))
  BY ReadBack
<1>2. parts.path \in Clean(Kept)
  BY DEF Formed, Clean
<1>3. p \in Clean(Kept) /\ Unquote(p) = Unquote(parts.path) /\ BuilderNormalizePath(p) = p /\ NormalizePath(p) = p
  BY <1>2, BuilderKeeps
<1> HIDE DEF p
<1>4. again.path = p
  <2>1. p # <<>> /\ p[1] = "/"
    BY <1>3 DEF Clean
  <2> QED BY <1>1, <1>3, <2>1 DEF Rooted, OrRoot
<1>5. Formed(again)
  BY <1>1, ParsedIsFormed
<1>6. SpelledFragment(again) = SpelledFragment(parts)
  BY <1>1, NoneIsNoText DEF SpelledFragment
<1>7. SpelledNetloc(again) = SpelledNetloc(parts)
  BY <1>1 DEF SpelledNetloc, SpelledPort
<1>8. BuilderNormalizePath(again.path) = BuilderNormalizePath(parts.path)
  BY <1>3, <1>4 DEF p
<1>9. Spelled(again) = Spelled(parts)
  BY <1>1, <1>6, <1>7, <1>8 DEF Spelled
<1>10. AsString(again) = Spelled(again) /\ AsString(parts) = Spelled(parts)
  BY <1>1, <1>5, StringSpelled
<1> QED BY <1>3, <1>4, <1>9, <1>10 DEF p

\* What two texts hold together.
LEMMA HoldsEither ==
    ASSUME NEW T, NEW a \in Seq(T), NEW b \in Seq(T), NEW tokens
    PROVE  HoldsAny(a \o b, tokens) <=> HoldsAny(a, tokens) \/ HoldsAny(b, tokens)
<1> DEFINE w == a \o b
<1>1. /\ w \in Seq(T) /\ Len(w) = Len(a) + Len(b) /\ Len(a) \in Nat /\ Len(b) \in Nat
      /\ \A i \in 1..(Len(a) + Len(b)) : w[i] = IF i <= Len(a) THEN a[i] ELSE b[i - Len(a)]
  BY ConcatProperties
<1> HIDE DEF w
<1>2. DOMAIN w = 1..(Len(a) + Len(b)) /\ DOMAIN a = 1..Len(a) /\ DOMAIN b = 1..Len(b)
  BY <1>1
<1>3. ASSUME HoldsAny(w, tokens) PROVE HoldsAny(a, tokens) \/ HoldsAny(b, tokens)
  <2>1. PICK i \in 1..(Len(a) + Len(b)) : w[i] \in tokens
    BY <1>2, <1>3 DEF HoldsAny
  <2>2. CASE i <= Len(a)
    BY <1>1, <1>2, <2>1, <2>2 DEF HoldsAny
  <2>3. CASE ~(i <= Len(a))
    <3>1. i - Len(a) \in 1..Len(b)
      BY <1>1, <2>3
    <3> QED BY <1>1, <1>2, <2>1, <2>3, <3>1 DEF HoldsAny
  <2> QED BY <2>2, <2>3
<1>4. ASSUME HoldsAny(a, tokens) PROVE HoldsAny(w, tokens)
  <2>1. PICK i \in 1..Len(a) : a[i] \in tokens
    BY <1>2, <1>4 DEF HoldsAny
  <2>2. i \in 1..(Len(a) + Len(b)) /\ w[i] = a[i]
    BY <1>1
  <2> QED BY <1>2, <2>1, <2>2 DEF HoldsAny
<1>5. ASSUME HoldsAny(b, tokens) PROVE HoldsAny(w, tokens)
  <2>1. PICK i \in 1..Len(b) : b[i] \in tokens
    BY <1>2, <1>5 DEF HoldsAny
  <2>2. Len(a) + i \in 1..(Len(a) + Len(b)) /\ ~(Len(a) + i <= Len(a)) /\ (Len(a) + i) - Len(a) = i
    BY <1>1
  <2>3. w[Len(a) + i] = b[i]
    BY <1>1, <2>2
  <2> QED BY <1>2, <2>1, <2>2, <2>3 DEF HoldsAny
<1> QED BY <1>3, <1>4, <1>5 DEF w

\* The last of two texts ends them.
LEMMA LastOfConcat ==
    ASSUME NEW T, NEW a \in Seq(T), NEW b \in Seq(T), b # <<>>
    PROVE  (a \o b)[Len(a \o b)] = b[Len(b)]
<1> DEFINE w == a \o b
<1>1. /\ Len(w) = Len(a) + Len(b) /\ Len(a) \in Nat /\ Len(b) \in Nat /\ Len(b) # 0
      /\ \A i \in 1..(Len(a) + Len(b)) : w[i] = IF i <= Len(a) THEN a[i] ELSE b[i - Len(a)]
  BY ConcatProperties
<1> HIDE DEF w
<1>2. Len(a) + Len(b) \in 1..(Len(a) + Len(b)) /\ ~(Len(a) + Len(b) <= Len(a)) /\ (Len(a) + Len(b)) - Len(a) = Len(b)
  BY <1>1
<1>3. w[Len(w)] = b[Len(b)]
  BY <1>1, <1>2
<1> QED BY <1>3 DEF w

\* A netloc ends with no colon.
LEMMA NetlocEnds ==
    ASSUME NEW userinfo, userinfo = None \/ GoodUserinfo(userinfo), NEW host, GoodHost(host),
           NEW port, port = None \/ IsPort(port), NEW netloc, netloc = NetlocOf(userinfo, host, port)
    PROVE  netloc[Len(netloc)] # ":"
<1> DEFINE P == Token \ Delimiters
           u == UserPart(userinfo)
           colon == Lead(":", port)
           uh == u \o host
<1>1. host \in Seq(P) /\ host \in Seq(Token) /\ host # <<>>
  BY HostTokens, SeqMonotonic DEF GoodHost
<1>2. u \in Seq(Token)
  <2>1. CASE userinfo = None
    BY <2>1 DEF UserPart
  <2>2. CASE userinfo # None
    <3>1. userinfo \in Seq(Token) /\ "@" \in Token
      BY <2>2, SeqMonotonic, CharactersAreTokens DEF GoodUserinfo, UserText, Kept
    <3>2. <<"@">> \in Seq(Token)
      BY <3>1
    <3>3. userinfo \o <<"@">> \in Seq(Token)
      BY <3>1, <3>2
    <3> QED BY <2>2, <3>3 DEF UserPart
  <2> QED BY <2>1, <2>2
<1>3. ":" \notin P /\ ":" \in Token
  BY CharactersAreTokens DEF Delimiters, Kept
<1>4. ASSUME NEW x \in Seq(P), x # <<>> PROVE x[Len(x)] # ":"
  <2> HIDE DEF P
  <2>1. Len(x) \in 1..Len(x)
    BY <1>4
  <2>2. x[Len(x)] \in P
    BY <2>1
  <2> QED BY <1>3, <2>2
<1> HIDE DEF u, P
<1>5. uh \in Seq(Token) /\ uh[Len(uh)] = host[Len(host)]
  BY <1>1, <1>2, ConcatIs, LastOfConcat
<1>6. netloc = uh \o colon
  BY DEF NetlocOf, u
<1> HIDE DEF uh
<1>7. CASE port = None
  <2>1. colon = <<>>
    BY <1>7 DEF Lead
  <2>2. netloc = uh
    BY <1>5, <1>6, <2>1, ConcatIs
  <2> QED BY <1>1, <1>4, <1>5, <2>2
<1>8. CASE port # None
  <2> DEFINE c == <<":">>
  <2>1. port \in Seq(P) /\ port \in Seq(Token) /\ port # <<>>
    BY <1>8, PortParsed, SeqMonotonic DEF P
  <2>2. colon = c \o port /\ c \in Seq(Token)
    BY <1>3, <1>8 DEF Lead
  <2> HIDE DEF c, colon
  <2>3. colon \in Seq(Token) /\ colon[Len(colon)] = port[Len(port)]
    BY <2>1, <2>2, ConcatIs, LastOfConcat
  <2>4. colon # <<>>
    <3>1. Len(colon) = Len(c) + Len(port) /\ Len(port) \in Nat /\ Len(port) # 0 /\ Len(c) \in Nat
      BY <2>1, <2>2
    <3> QED BY <2>3, <3>1
  <2>5. netloc[Len(netloc)] = colon[Len(colon)]
    BY <1>5, <1>6, <2>3, <2>4, LastOfConcat
  <2> QED BY <1>4, <2>1, <2>3, <2>5
<1> QED BY <1>7, <1>8

-----------------------------------------------------------------------------
(***************************************************************************)
(* Paths in segments                                                       *)
(***************************************************************************)

\* The last chunk grows, whatever precedes it.
LEMMA GrownConcat ==
    ASSUME NEW T, NEW a \in Seq(Seq(T)), NEW b \in Seq(Seq(T)), b # <<>>, NEW t \in T, NEW delimiter
    PROVE  Grown(a \o b, t, delimiter) = a \o Grown(b, t, delimiter)
<1> DEFINE ab == a \o b
           g == Grown(ab, t, delimiter)
           gb == Grown(b, t, delimiter)
<1>1. PICK m \in Nat, n \in Nat : m = Len(a) /\ n = Len(b)
  OBVIOUS
<1>2. /\ ab \in Seq(Seq(T)) /\ Len(ab) = m + n /\ ab # <<>> /\ n >= 1
      /\ \A i \in 1..m : ab[i] = a[i]
      /\ \A i \in 1..n : ab[m + i] = b[i]
  <2>1. n >= 1
    BY <1>1
  <2>2. ab \in Seq(Seq(T)) /\ Len(ab) = m + n /\ \A i \in 1..(m + n) : ab[i] = IF i <= m THEN a[i] ELSE b[i - m]
    BY <1>1, ConcatProperties
  <2> HIDE DEF ab
  <2>3. ASSUME NEW i \in 1..m PROVE ab[i] = a[i]
    <3>1. i \in 1..(m + n) /\ i <= m
      BY <1>1
    <3> QED BY <2>2, <3>1
  <2>4. ASSUME NEW i \in 1..n PROVE ab[m + i] = b[i]
    <3>1. PICK j \in Nat : j = m + i
      BY <1>1
    <3>2. j \in 1..(m + n) /\ ~(j <= m) /\ j - m = i
      BY <1>1, <3>1
    <3> QED BY <2>2, <3>1, <3>2
  <2>5. ab # <<>>
    BY <1>1, <2>1, <2>2
  <2> QED BY <2>1, <2>2, <2>3, <2>4, <2>5
<1> HIDE DEF ab
<1>3. /\ g \in Seq(Seq(T))
      /\ t = delimiter => g = Append(ab, <<>>)
      /\ t # delimiter => /\ Len(g) = m + n /\ g[m + n] = Append(ab[m + n], t)
                          /\ \A i \in 1..(m + n - 1) : g[i] = ab[i]
  <2> DEFINE k == Len(ab)
  <2>1. /\ g \in Seq(Seq(T))
        /\ t = delimiter => g = Append(ab, <<>>)
        /\ t # delimiter => /\ Len(g) = k /\ g[k] = Append(ab[k], t)
                            /\ \A i \in 1..(k - 1) : g[i] = ab[i]
    <3>1. ab \in Seq(Seq(T)) /\ ab # <<>>
      BY <1>2
    <3>2. g \in Seq(Seq(T))
      BY <3>1, GrownIs
    <3>3. t = delimiter => g = Append(ab, <<>>)
      BY DEF g, Grown
    <3>4. t # delimiter => Len(g) = k
      BY <3>1, GrownIs
    <3>5. t # delimiter => g[k] = Append(ab[k], t)
      BY <3>1, GrownIs, SMTT(30)
    <3>6. t # delimiter => \A i \in 1..(k - 1) : g[i] = ab[i]
      BY <3>1, GrownIs
    <3> HIDE DEF g, k
    <3> QED BY <3>2, <3>3, <3>4, <3>5, <3>6
  <2>2. k = m + n
    BY <1>2
  <2> HIDE DEF k, g
  <2> QED BY <2>1, <2>2
<1>4. /\ gb \in Seq(Seq(T))
      /\ t = delimiter => gb = Append(b, <<>>)
      /\ t # delimiter => /\ Len(gb) = n /\ gb[n] = Append(b[n], t)
                          /\ \A i \in 1..(n - 1) : gb[i] = b[i]
  <2> DEFINE k == Len(b)
  <2>1. /\ gb \in Seq(Seq(T))
        /\ t = delimiter => gb = Append(b, <<>>)
        /\ t # delimiter => /\ Len(gb) = k /\ gb[k] = Append(b[k], t)
                            /\ \A i \in 1..(k - 1) : gb[i] = b[i]
    <3>1. gb \in Seq(Seq(T))
      BY GrownIs, SMTT(30)
    <3>2. t = delimiter => gb = Append(b, <<>>)
      BY GrownIs, SMTT(30)
    <3>3. t # delimiter => Len(gb) = k
      BY GrownIs, SMTT(30)
    <3>4. t # delimiter => gb[k] = Append(b[k], t)
      BY GrownIs, SMTT(30)
    <3>5. t # delimiter => \A i \in 1..(k - 1) : gb[i] = b[i]
      BY GrownIs, SMTT(30)
    <3> HIDE DEF gb, k
    <3> QED BY <3>1, <3>2, <3>3, <3>4, <3>5
  <2>2. k = n
    BY <1>1
  <2> HIDE DEF k, gb
  <2> QED BY <2>1, <2>2
<1> HIDE DEF g, gb
<1>5. CASE t = delimiter
  <2>1. <<>> \in Seq(T)
    OBVIOUS
  <2>2. Append(ab, <<>>) = ab \o << <<>> >>
    BY <1>2, <2>1, AppendJoins
  <2>3. Append(b, <<>>) = b \o << <<>> >>
    BY <2>1, AppendJoins
  <2>4. ab \o << <<>> >> = a \o (b \o << <<>> >>)
    <3>1. << <<>> >> \in Seq(Seq(T))
      OBVIOUS
    <3> DEFINE last == << <<>> >>
    <3> HIDE DEF last
    <3>2. Associates(a, b, last)
      BY <3>1, Regrouping DEF last
    <3> QED BY <3>2 DEF Associates, ab, last
  <2> QED BY <1>3, <1>4, <1>5, <2>2, <2>3, <2>4 DEF g, gb, ab
<1>6. CASE t # delimiter
  <2> DEFINE agb == a \o gb
  <2>1. /\ agb \in Seq(Seq(T)) /\ Len(agb) = m + n
        /\ \A i \in 1..(m + n) : agb[i] = IF i <= m THEN a[i] ELSE gb[i - m]
    <3>1. /\ agb \in Seq(Seq(T)) /\ Len(agb) = Len(a) + Len(gb)
          /\ \A i \in 1..(Len(a) + Len(gb)) : agb[i] = IF i <= Len(a) THEN a[i] ELSE gb[i - Len(a)]
      BY <1>4, ConcatProperties
    <3>2. Len(a) = m /\ Len(gb) = n
      BY <1>1, <1>4, <1>6
    <3> HIDE DEF agb
    <3> QED BY <3>1, <3>2
  <2> HIDE DEF agb
  <2>2. ASSUME NEW i \in 1..(m + n) PROVE g[i] = agb[i]
    <3>1. CASE i <= m
      <4>1. i \in 1..m /\ i \in 1..(m + n - 1)
        BY <1>2, <3>1
      <4> QED BY <1>2, <1>3, <1>6, <2>1, <3>1, <4>1
    <3>2. CASE ~(i <= m)
      <4>1. PICK j \in Nat : j = i - m
        BY <3>2
      <4>2. j \in 1..n /\ i = m + j
        BY <3>2, <4>1
      <4>3. agb[i] = gb[j]
        BY <2>1, <3>2, <4>1
      <4>4. CASE j = n
        <5>1. g[i] = Append(ab[m + n], t) /\ gb[j] = Append(b[n], t) /\ ab[m + n] = b[n]
          BY <1>2, <1>3, <1>4, <1>6, <4>2, <4>4
        <5> QED BY <4>3, <5>1
      <4>5. CASE j # n
        <5>1. i \in 1..(m + n - 1) /\ j \in 1..(n - 1)
          BY <4>2, <4>5
        <5>2. g[i] = ab[m + j] /\ gb[j] = b[j] /\ ab[m + j] = b[j]
          BY <1>2, <1>3, <1>4, <1>6, <4>2, <5>1
        <5> QED BY <4>3, <5>2
      <4> QED BY <4>4, <4>5
    <3> QED BY <3>1, <3>2
  <2>3. Len(g) = m + n /\ g \in Seq(Seq(T))
    BY <1>3, <1>6
  <2>4. g = agb
    BY <2>1, <2>2, <2>3, SeqEqual
  <2> QED BY <2>4 DEF g, gb, ab, agb
<1> QED BY <1>5, <1>6

\* Two texts with a delimiter between them split into the chunks of both.
LEMMA SplitConcat ==
    ASSUME NEW T, NEW delimiter \in T, NEW x \in Seq(T), NEW y \in Seq(T)
    PROVE  Split((x \o <<delimiter>>) \o y, delimiter) = Split(x, delimiter) \o Split(y, delimiter)
<1> DEFINE xd == x \o <<delimiter>>
           sx == Split(x, delimiter)
           Good(z) == Split(xd \o z, delimiter) = sx \o Split(z, delimiter)
           G == {z \in Seq(T) : Good(z)}
<1>1. sx \in Seq(Seq(T)) /\ xd \in Seq(T)
  BY SplitIn
<1>2. <<>> \in G
  <2>1. <<>> \in Seq(T) /\ <<>> \in Seq(T \ {delimiter})
    OBVIOUS
  <2>2. Split(<<>>, delimiter) = << <<>> >>
    BY SplitGrows
  <2>3. Split(xd \o <<>>, delimiter) = Append(sx, <<>>)
    BY <2>1, SplitJoins
  <2> HIDE DEF sx, xd
  <2>4. Append(sx, <<>>) = sx \o << <<>> >>
    BY <1>1, <2>1
  <2> QED BY <2>1, <2>2, <2>3, <2>4
<1> HIDE DEF sx, xd
<1>3. ASSUME NEW z \in Seq(T), NEW t \in T, z \in G PROVE Append(z, t) \in G
  <2> DEFINE w == xd \o z
             sz == Split(z, delimiter)
  <2>1. xd \o Append(z, t) = Append(w, t) /\ w \in Seq(T)
    <3>1. Append(z, t) = z \o <<t>> /\ <<t>> \in Seq(T)
      OBVIOUS
    <3>2. xd \o (z \o <<t>>) = (xd \o z) \o <<t>>
      BY <1>1, <3>1, ConcatAssociative
    <3>3. w \in Seq(T)
      BY <1>1
    <3> HIDE DEF w
    <3>4. w \o <<t>> = Append(w, t)
      BY <3>3
    <3> QED BY <3>1, <3>2, <3>3, <3>4 DEF w
  <2>2. Split(w, delimiter) = sx \o sz
    BY <1>3
  <2>3. sz \in Seq(Seq(T)) /\ sz # <<>>
    BY SplitIn
  <2>4. Split(Append(z, t), delimiter) = Grown(sz, t, delimiter)
    BY SplitGrows
  <2> HIDE DEF w, sz
  <2>5. Split(Append(w, t), delimiter) = Grown(sx \o sz, t, delimiter)
    BY <2>1, <2>2, SplitGrows
  <2>6. Grown(sx \o sz, t, delimiter) = sx \o Grown(sz, t, delimiter)
    BY <1>1, <2>3, GrownConcat
  <2>7. Append(z, t) \in Seq(T)
    OBVIOUS
  <2> QED BY <2>1, <2>4, <2>5, <2>6, <2>7
<1> HIDE DEF G
<1>4. Seq(T) \subseteq G
  BY <1>2, <1>3, AppendInduction
<1> QED BY <1>4 DEF G, xd, sx

\* A turn at a rooted path, in terms of its first segment and of what follows it.
OrSlash(rest) == IF rest = <<>> THEN <<"/">> ELSE rest
PoppedFrom(output) == IF output = <<>> THEN <<>> ELSE Front(output)
Begins(x, s, rest) ==
    /\ x = (<<"/">> \o s) \o rest /\ Len(rest) < Len(x)
    /\ rest = <<>> \/ rest[1] = "/"
    /\ s # <<>> => Len(rest) + 1 < Len(x)
AfterSegment(s, rest, y) ==
    IF s = <<".">> THEN [input |-> OrSlash(rest), output |-> y]
    ELSE IF s = <<".", ".">> THEN [input |-> OrSlash(rest), output |-> PoppedFrom(y)]
    ELSE [input |-> rest, output |-> Append(y, <<"/">> \o s)]
\* One turn takes one segment, and drops, pops or keeps.
LEMMA TurnOfSegment ==
    ASSUME NEW K, "/" \in K, "." \in K, NEW x \in Seq(K), x # <<>>, x[1] = "/", NEW y
    PROVE  \E s \in Seq(K \ {"/"}), rest \in Seq(K) :
              Begins(x, s, rest) /\ DotsTurn([input |-> x, output |-> y]) = AfterSegment(s, rest, y)
<1> DEFINE s == Before(Tail(x), {"/"})
           f == <<x[1]>> \o s
           rest == From(x, Len(f) + 1)
           here == Starts(x, <<"/", ".", "/">>)
           up == Starts(x, <<"/", ".", ".", "/">>)
           buffers == [input |-> x, output |-> y]
           turned == DotsTurn(buffers)
           Turn(left, kept) == [input |-> left, output |-> kept]
<1>1. Len(x) \in Nat /\ Len(x) >= 1 /\ Tail(x) \in Seq(K)
  OBVIOUS
<1>2. s \in Seq(K \ {"/"}) /\ s \in Seq(K)
  BY <1>1, CutIs
<1>3. /\ f \in Seq(K) /\ Len(f) \in 1..Len(x)
      /\ \A j \in 1..Len(f) : f[j] = x[j]
      /\ \A j \in 2..Len(f) : f[j] # "/"
      /\ Len(f) < Len(x) => x[Len(f) + 1] = "/"
  BY FirstSegment
<1>4. f = <<"/">> \o s /\ Len(f) = Len(s) + 1 /\ \A j \in 1..Len(s) : f[j + 1] = s[j]
  <2> HIDE DEF s
  <2> QED BY <1>2
<1> HIDE DEF s, f
<1>5. /\ rest \in Seq(K) /\ Len(rest) = Len(x) - Len(f)
      /\ Len(f) < Len(x) => rest[1] = x[Len(f) + 1]
      /\ f \o rest = x
  <2>1. Len(f) + 1 \in 1..(Len(x) + 1)
    BY <1>1, <1>3
  <2>2. rest \in Seq(K) /\ Len(rest) = Len(x) + 1 - (Len(f) + 1)
        /\ \A j \in 1..(Len(x) + 1 - (Len(f) + 1)) : rest[j] = x[j + (Len(f) + 1) - 1]
    BY <2>1, FromIs
  <2>3. f \o rest = x
    BY <1>3, StartAndRest
  <2>4. ASSUME Len(f) < Len(x) PROVE rest[1] = x[Len(f) + 1]
    <3>1. 1 \in 1..(Len(x) + 1 - (Len(f) + 1)) /\ 1 + (Len(f) + 1) - 1 = Len(f) + 1
      BY <1>1, <1>3, <2>4
    <3> QED BY <2>2, <3>1
  <2> QED BY <1>1, <1>3, <2>2, <2>3, <2>4
<1>6. /\ rest = <<>> <=> Len(f) = Len(x)
      /\ rest = <<>> \/ rest[1] = "/"
      /\ rest = <<>> => x = f
  <2> HIDE DEF rest
  <2>1. rest = <<>> <=> Len(rest) = 0
    BY <1>5
  <2>2. rest = <<>> => f \o rest = f
    BY <1>3, ConcatEmptySeq
  <2> QED BY <1>1, <1>3, <1>5, <2>1, <2>2
<1>7. /\ s = <<".">> <=> Len(f) = 2 /\ x[2] = "."
      /\ s = <<".", ".">> <=> Len(f) = 3 /\ x[2] = "." /\ x[3] = "."
  <2>1. s = <<".">> <=> Len(s) = 1 /\ s[1] = "."
    BY <1>2
  <2>2. s = <<".", ".">> <=> Len(s) = 2 /\ s[1] = "." /\ s[2] = "."
    BY <1>2
  <2>3. Len(s) \in Nat
    BY <1>2
  <2>4. Len(s) >= 1 => x[2] = s[1]
    <3> SUFFICES ASSUME Len(s) >= 1 PROVE x[2] = s[1]
      OBVIOUS
    <3>1. 1 \in 1..Len(s) /\ 2 \in 1..Len(f) /\ 1 + 1 = 2
      BY <1>4, <2>3
    <3> QED BY <1>3, <1>4, <3>1
  <2>5. Len(s) >= 2 => x[3] = s[2]
    <3> SUFFICES ASSUME Len(s) >= 2 PROVE x[3] = s[2]
      OBVIOUS
    <3>1. 2 \in 1..Len(s) /\ 3 \in 1..Len(f) /\ 2 + 1 = 3
      BY <1>4, <2>3
    <3> QED BY <1>3, <1>4, <3>1
  <2>6. (Len(f) = 2 <=> Len(s) = 1) /\ (Len(f) = 3 <=> Len(s) = 2)
    <3>1. PICK k \in Nat, l \in Nat : k = Len(s) /\ l = Len(f)
      BY <1>3, <2>3
    <3>2. l = k + 1
      BY <1>4, <3>1
    <3>3. (l = 2 <=> k = 1) /\ (l = 3 <=> k = 2)
      BY <3>2
    <3> QED BY <3>1, <3>3
  <2>8. Len(s) = 1 => x[2] = s[1]
    BY <2>4
  <2>9. Len(s) = 2 => x[2] = s[1] /\ x[3] = s[2]
    BY <2>4, <2>5
  <2> QED BY <2>1, <2>2, <2>6, <2>8, <2>9, Zenon
<1>8. /\ here <=> Len(x) >= 3 /\ x[1] = "/" /\ x[2] = "." /\ x[3] = "/"
      /\ up <=> Len(x) >= 4 /\ x[1] = "/" /\ x[2] = "." /\ x[3] = "." /\ x[4] = "/"
      /\ ~Starts(x, <<".", ".", "/">>) /\ ~Starts(x, <<".", "/">>) /\ x \notin {<<".">>, <<".", ".">>}
  BY StartsTwo, StartsThree, StartsFour
<1>9. /\ x = <<"/", ".">> <=> Len(x) = 2 /\ x[2] = "."
      /\ x = <<"/", ".", ".">> <=> Len(x) = 3 /\ x[2] = "." /\ x[3] = "."
  OBVIOUS
<1>10. \A j \in 2..Len(f) : x[j] # "/"
  <2> SUFFICES ASSUME NEW j \in 2..Len(f) PROVE x[j] # "/"
    OBVIOUS
  <2>1. j \in 1..Len(f)
    BY <1>3
  <2> QED BY <1>3, <2>1
<1>11. /\ here <=> s = <<".">> /\ rest # <<>>
       /\ x = <<"/", ".">> <=> s = <<".">> /\ rest = <<>>
       /\ up <=> s = <<".", ".">> /\ rest # <<>>
       /\ x = <<"/", ".", ".">> <=> s = <<".", ".">> /\ rest = <<>>
  <2> DEFINE n == Len(f)
  <2>1. n \in 1..Len(x) /\ (n < Len(x) => x[n + 1] = "/") /\ \A j \in 2..n : x[j] # "/"
    BY <1>3, <1>10
  <2> HIDE DEF n
  <2>2. Len(x) >= 2 /\ x[2] = "." => n # 1
    BY <1>1, <2>1
  <2>3. x[3] = "/" => n < 3
    <3> SUFFICES ASSUME n >= 3 PROVE x[3] # "/"
      BY <1>1, <2>1
    <3>1. 3 \in 2..n
      BY <1>1, <2>1
    <3> QED BY <2>1, <3>1
  <2>4. Len(x) >= 3 /\ x[3] = "." => n # 2
    BY <1>1, <2>1
  <2>5. x[4] = "/" => n < 4
    <3> SUFFICES ASSUME n >= 4 PROVE x[4] # "/"
      BY <1>1, <2>1
    <3>1. 4 \in 2..n
      BY <1>1, <2>1
    <3> QED BY <2>1, <3>1
  <2>13. /\ Len(x) >= 3 /\ x[2] = "." /\ x[3] = "/" => n = 2
         /\ Len(x) = 2 /\ x[2] = "." => n = 2
    BY <1>1, <2>1, <2>2, <2>3
  <2>14. /\ Len(x) >= 4 /\ x[2] = "." /\ x[3] = "." /\ x[4] = "/" => n = 3
         /\ Len(x) = 3 /\ x[2] = "." /\ x[3] = "." => n = 3
    BY <1>1, <2>1, <2>2, <2>4, <2>5
  <2>6. rest = <<>> <=> n = Len(x)
    BY <1>6 DEF n
  <2>7. s = <<".">> <=> n = 2 /\ x[2] = "."
    BY <1>7 DEF n
  <2>8. s = <<".", ".">> <=> n = 3 /\ x[2] = "." /\ x[3] = "."
    BY <1>7 DEF n
  <2> HIDE DEF rest, here, up
  <2>9. here <=> s = <<".">> /\ rest # <<>>
    <3>1. here => s = <<".">> /\ rest # <<>>
      BY <1>8, <2>6, <2>7, <2>13
    <3>2. s = <<".">> /\ rest # <<>> => here
      BY <1>1, <1>8, <2>1, <2>6, <2>7
    <3> QED BY <3>1, <3>2
  <2>10. x = <<"/", ".">> <=> s = <<".">> /\ rest = <<>>
    BY <1>9, <2>6, <2>7, <2>13
  <2>11. up <=> s = <<".", ".">> /\ rest # <<>>
    <3>1. up => s = <<".", ".">> /\ rest # <<>>
      BY <1>8, <2>6, <2>8, <2>14
    <3>2. s = <<".", ".">> /\ rest # <<>> => up
      BY <1>1, <1>8, <2>1, <2>6, <2>8
    <3> QED BY <3>1, <3>2
  <2>12. x = <<"/", ".", ".">> <=> s = <<".", ".">> /\ rest = <<>>
    BY <1>9, <2>6, <2>8, <2>14
  <2> QED BY <2>9, <2>10, <2>11, <2>12
<1>12. /\ s = <<".">> => From(x, 3) = rest
       /\ s = <<".", ".">> => From(x, 4) = rest
  <2>1. s = <<".">> => Len(f) = 2
    BY <1>7, Zenon
  <2>2. s = <<".", ".">> => Len(f) = 3
    BY <1>7, Zenon
  <2>3. From(x, 2 + 1) = From(x, 3) /\ From(x, 3 + 1) = From(x, 4)
    OBVIOUS
  <2> QED BY <2>1, <2>2, <2>3, Zenon
<1>13. <<".">> # <<".", ".">>
  OBVIOUS
<1>14. turned = IF here THEN Turn(From(x, 3), y)
                ELSE IF x = <<"/", ".">> THEN Turn(<<"/">>, y)
                ELSE IF up THEN Turn(From(x, 4), PoppedFrom(y))
                ELSE IF x = <<"/", ".", ".">> THEN Turn(<<"/">>, PoppedFrom(y))
                ELSE Turn(rest, Append(y, f))
  <2>1. buffers.input = x /\ buffers.output = y
    OBVIOUS
  <2>2. here => x # <<"/", ".">> /\ ~up /\ x # <<"/", ".", ".">>
    BY <1>11, <1>13
  <2>3. x = <<"/", ".">> => ~up /\ x # <<"/", ".", ".">>
    BY <1>11, <1>13
  <2>4. up => x # <<"/", ".", ".">>
    BY <1>11
  <2>5. f = <<x[1]>> \o Before(Tail(x), {"/"})
    BY DEF f, s
  <2> HIDE DEF buffers
  <2> QED BY <2>1, <2>2, <2>3, <2>4, <2>5, <1>8 DEF DotsTurn, PoppedFrom
<1> HIDE DEF here, up, rest, buffers, turned
<1>15. turned = IF s = <<".">> THEN Turn(OrSlash(rest), y)
                ELSE IF s = <<".", ".">> THEN Turn(OrSlash(rest), PoppedFrom(y))
                ELSE Turn(rest, Append(y, <<"/">> \o s))
  <2> HIDE DEF Turn
  <2>1. CASE s = <<".">> /\ rest # <<>>
    BY <1>11, <1>12, <1>14, <2>1 DEF OrSlash
  <2>2. CASE s = <<".">> /\ rest = <<>>
    BY <1>11, <1>14, <2>2 DEF OrSlash
  <2>3. CASE s = <<".", ".">> /\ rest # <<>>
    BY <1>11, <1>12, <1>13, <1>14, <2>3 DEF OrSlash
  <2>4. CASE s = <<".", ".">> /\ rest = <<>>
    BY <1>11, <1>13, <1>14, <2>4 DEF OrSlash
  <2>5. CASE s # <<".">> /\ s # <<".", ".">>
    BY <1>4, <1>11, <1>14, <2>5
  <2> QED BY <2>1, <2>2, <2>3, <2>4, <2>5
<1>16. Len(rest) < Len(x) /\ (s # <<>> => Len(rest) + 1 < Len(x))
  <2>1. s # <<>> => Len(s) >= 1
    BY <1>2
  <2>2. Len(s) \in Nat /\ Len(rest) \in Nat
    BY <1>2, <1>5
  <2> QED BY <1>1, <1>3, <1>4, <1>5, <2>1, <2>2
<1>17. x = (<<"/">> \o s) \o rest
  BY <1>4, <1>5
<1>18. Begins(x, s, rest)
  BY <1>6, <1>16, <1>17 DEF Begins
<1>19. turned = AfterSegment(s, rest, y)
  BY <1>15 DEF AfterSegment
<1> QED BY <1>2, <1>5, <1>18, <1>19 DEF turned, buffers

-----------------------------------------------------------------------------
(***************************************************************************)
(* Sorted parameters                                                       *)
(***************************************************************************)

\* A text precedes another where its token comes first, or it has none.
LessAt(a, b, i) ==
    /\ i \in 1..Len(b) /\ i <= Len(a) + 1
    /\ \A j \in 1..(i - 1) : a[j] = b[j]
    /\ i <= Len(a) => Rank[a[i]] < Rank[b[i]]
\* So the sort compares two texts, and of two that differ one precedes the other.
LEMMA PrecedesIs ==
    ASSUME NEW a \in Seq(Token), NEW b \in Seq(Token)
    PROVE  /\ Precedes(a, b) <=> \E i \in Nat : LessAt(a, b, i)
           /\ a = b \/ Precedes(a, b) \/ Precedes(b, a)
<1> DEFINE differ == {i \in DOMAIN a \cap DOMAIN b : a[i] # b[i]}
           first == CHOOSE i \in differ : \A j \in differ : i <= j
<1>1. /\ Len(a) \in Nat /\ Len(b) \in Nat /\ DOMAIN a = 1..Len(a) /\ DOMAIN b = 1..Len(b)
      /\ \A i \in 1..Len(a) : a[i] \in Token
      /\ \A i \in 1..Len(b) : b[i] \in Token
  OBVIOUS
<1>2. \A i \in differ : i \in 1..Len(a) /\ i \in 1..Len(b) /\ a[i] # b[i]
  BY <1>1
<1>3. \A i \in Nat : i \in 1..Len(a) /\ i \in 1..Len(b) /\ a[i] # b[i] => i \in differ
  BY <1>1
<1>4. Precedes(a, b) <=> IF differ = {} THEN Len(a) < Len(b) ELSE Rank[a[first]] < Rank[b[first]]
  BY DEF Precedes
<1>5. differ = {i \in DOMAIN b \cap DOMAIN a : b[i] # a[i]}
  OBVIOUS
<1>6. Precedes(b, a) <=> IF differ = {} THEN Len(b) < Len(a) ELSE Rank[b[first]] < Rank[a[first]]
  BY <1>5 DEF Precedes
<1>7. ASSUME differ # {} PROVE first \in differ /\ \A j \in differ : first <= j
  <2>1. differ \subseteq Nat
    BY <1>2
  <2> HIDE DEF differ
  <2>2. \E i \in differ : \A j \in differ : i <= j
    BY <1>7, <2>1, LeastNatural
  <2> QED BY <2>2
<1>8. \A s, t \in Token : Rank[s] \in Nat /\ (Rank[s] = Rank[t] => s = t)
  BY AlphabetAssumption
<1> HIDE DEF differ, first
<1>9. CASE differ = {}
  <2>1. Precedes(a, b) <=> Len(a) < Len(b)
    BY <1>4, <1>9
  <2>2. Precedes(b, a) <=> Len(b) < Len(a)
    BY <1>6, <1>9
  <2>3. \A i \in Nat : i \in 1..Len(a) /\ i \in 1..Len(b) => a[i] = b[i]
    BY <1>3, <1>9
  <2>4. ASSUME Len(a) < Len(b) PROVE LessAt(a, b, Len(a) + 1) /\ Len(a) + 1 \in Nat
    BY <1>1, <2>3, <2>4 DEF LessAt
  <2>5. ASSUME NEW i \in Nat, LessAt(a, b, i) PROVE Len(a) < Len(b)
    <3>1. CASE i <= Len(a)
      <4>1. i \in 1..Len(a) /\ i \in 1..Len(b)
        BY <1>1, <2>5, <3>1 DEF LessAt
      <4>2. a[i] = b[i]
        BY <2>3, <4>1
      <4>3. Rank[a[i]] < Rank[b[i]] /\ a[i] \in Token
        BY <1>1, <2>5, <3>1, <4>1 DEF LessAt
      <4> QED BY <1>8, <4>2, <4>3
    <3>2. CASE ~(i <= Len(a))
      BY <1>1, <2>5, <3>2 DEF LessAt
    <3> QED BY <3>1, <3>2
  <2>6. ASSUME Len(a) = Len(b) PROVE a = b
    <3>1. \A i \in 1..Len(a) : a[i] = b[i]
      BY <1>1, <2>3, <2>6
    <3> QED BY <2>6, <3>1, SeqEqual
  <2>7. Precedes(a, b) <=> \E i \in Nat : LessAt(a, b, i)
    <3> HIDE DEF LessAt
    <3> QED BY <2>1, <2>4, <2>5
  <2>8. Len(a) = Len(b) \/ Len(a) < Len(b) \/ Len(b) < Len(a)
    <3>1. \A m, n \in Nat : m = n \/ m < n \/ n < m
      OBVIOUS
    <3>2. Len(a) \in Nat /\ Len(b) \in Nat
      OBVIOUS
    <3> QED BY <3>1, <3>2, Zenon
  <2> QED BY <2>1, <2>2, <2>6, <2>7, <2>8
<1>10. CASE differ # {}
  <2>1. /\ first \in 1..Len(a) /\ first \in 1..Len(b) /\ a[first] # b[first]
        /\ \A j \in differ : first <= j
    BY <1>2, <1>7, <1>10
  <2>2. \A i \in 1..(first - 1) : a[i] = b[i]
    <3> SUFFICES ASSUME NEW i \in 1..(first - 1), a[i] # b[i] PROVE FALSE
      OBVIOUS
    <3>1. i \in Nat /\ i \in 1..Len(a) /\ i \in 1..Len(b) /\ ~(first <= i)
      BY <1>1, <2>1
    <3> QED BY <1>3, <2>1, <3>1
  <2>3. Precedes(a, b) <=> Rank[a[first]] < Rank[b[first]]
    BY <1>4, <1>10
  <2>4. Precedes(b, a) <=> Rank[b[first]] < Rank[a[first]]
    BY <1>6, <1>10
  <2>5. a[first] \in Token /\ b[first] \in Token /\ Rank[a[first]] \in Nat /\ Rank[b[first]] \in Nat
        /\ Rank[a[first]] # Rank[b[first]]
    BY <1>1, <1>8, <2>1
  <2>6. Precedes(a, b) \/ Precedes(b, a)
    BY <2>3, <2>4, <2>5
  <2>7. ASSUME Rank[a[first]] < Rank[b[first]] PROVE LessAt(a, b, first) /\ first \in Nat
    BY <1>1, <2>1, <2>2, <2>7 DEF LessAt
  <2>8. ASSUME NEW i \in Nat, LessAt(a, b, i) PROVE Rank[a[first]] < Rank[b[first]]
    <3>1. CASE i < first
      <4>1. i \in 1..Len(a) /\ i \in 1..Len(b) /\ a[i] = b[i] /\ Rank[a[i]] < Rank[b[i]]
        BY <1>1, <2>1, <2>2, <2>8, <3>1 DEF LessAt
      <4> QED BY <1>1, <1>8, <4>1
    <3>2. CASE first < i
      BY <1>1, <2>1, <2>8, <3>2 DEF LessAt
    <3>3. CASE i = first
      BY <1>1, <2>1, <2>8, <3>3 DEF LessAt
    <3> QED BY <1>1, <2>1, <3>1, <3>2, <3>3
  <2> QED BY <2>3, <2>6, <2>7, <2>8
<1> QED BY <1>9, <1>10

\* Texts are in a strict order.
LEMMA PrecedesOrders ==
    ASSUME NEW a \in Seq(Token), NEW b \in Seq(Token), NEW c \in Seq(Token)
    PROVE  ~Precedes(a, a) /\ (Precedes(a, b) /\ Precedes(b, c) => Precedes(a, c))
<1>1. /\ Len(a) \in Nat /\ Len(b) \in Nat /\ Len(c) \in Nat
      /\ \A i \in 1..Len(a) : Rank[a[i]] \in Nat
      /\ \A i \in 1..Len(b) : Rank[b[i]] \in Nat
      /\ \A i \in 1..Len(c) : Rank[c[i]] \in Nat
  BY AlphabetAssumption
<1>2. ~Precedes(a, a)
  <2> SUFFICES ASSUME NEW i \in Nat, LessAt(a, a, i) PROVE FALSE
    BY PrecedesIs
  <2> QED BY <1>1 DEF LessAt
<1>3. ASSUME NEW i \in Nat, LessAt(a, b, i), NEW k \in Nat, LessAt(b, c, k)
      PROVE  \E m \in Nat : LessAt(a, c, m)
  <2>1. CASE i < k
    <3>1. LessAt(a, c, i)
      BY <1>1, <1>3, <2>1 DEF LessAt
    <3> QED BY <3>1
  <2>2. CASE k < i
    <3>1. LessAt(a, c, k)
      BY <1>1, <1>3, <2>2 DEF LessAt
    <3> QED BY <3>1
  <2>3. CASE i = k
    <3>1. LessAt(a, c, i)
      BY <1>1, <1>3, <2>3, SMTT(30) DEF LessAt
    <3> QED BY <3>1
  <2> QED BY <2>1, <2>2, <2>3
<1> QED BY <1>2, <1>3, PrecedesIs

\* So are parameters, but for a key that is bare and one with an empty value.
LEMMA AheadOrders ==
    ASSUME NEW p \in Pairs, NEW q \in Pairs, NEW r \in Pairs
    PROVE  /\ ~Ahead(p, p) /\ (Ahead(p, q) /\ Ahead(q, r) => Ahead(p, r))
           /\ \/ p = q \/ Ahead(p, q) \/ Ahead(q, p)
              \/ p[1] = q[1] /\ {p[2], q[2]} = {None, <<>>}
<1>1. Seq(Writable) \subseteq Seq(Token) /\ <<>> \in Seq(Token)
  BY SeqMonotonic DEF Writable
<1>2. \A x \in Pairs : /\ x[1] \in Seq(Token) /\ OrEmpty(x[2]) \in Seq(Token) /\ x = <<x[1], x[2]>>
                       /\ x[2] = None \/ x[2] = OrEmpty(x[2])
                       /\ x[2] = None => OrEmpty(x[2]) = <<>>
  BY <1>1 DEF Pairs, OrEmpty
<1>3. ~Ahead(p, p)
  BY <1>2, PrecedesOrders DEF Ahead
<1>4. Ahead(p, q) /\ Ahead(q, r) => Ahead(p, r)
  <2> DEFINE v(x) == OrEmpty(x[2])
  <2>1. Precedes(p[1], q[1]) /\ Precedes(q[1], r[1]) => Precedes(p[1], r[1])
    BY <1>2, PrecedesOrders
  <2>2. Precedes(v(p), v(q)) /\ Precedes(v(q), v(r)) => Precedes(v(p), v(r))
    BY <1>2, PrecedesOrders
  <2> QED BY <2>1, <2>2 DEF Ahead
<1>5. \/ p = q \/ Ahead(p, q) \/ Ahead(q, p)
      \/ p[1] = q[1] /\ {p[2], q[2]} = {None, <<>>}
  <2>1. p[1] = q[1] \/ Precedes(p[1], q[1]) \/ Precedes(q[1], p[1])
    BY <1>2, PrecedesIs
  <2>2. OrEmpty(p[2]) = OrEmpty(q[2]) \/ Precedes(OrEmpty(p[2]), OrEmpty(q[2]))
        \/ Precedes(OrEmpty(q[2]), OrEmpty(p[2]))
    BY <1>2, PrecedesIs
  <2>3. ASSUME OrEmpty(p[2]) = OrEmpty(q[2]), p[2] # q[2] PROVE {p[2], q[2]} = {None, <<>>}
    BY <1>2, <2>3
  <2> QED BY <1>2, <2>1, <2>2, <2>3 DEF Ahead
<1> QED BY <1>3, <1>4, <1>5

\* An element is put behind the first k.
Splices(y, x, k, p) ==
    /\ Len(y) = Len(x) + 1
    /\ y[k + 1] = p
    /\ \A i \in 1..k : y[i] = x[i]
    /\ \A i \in (k + 2)..(Len(x) + 1) : y[i] = x[i - 1]
\* That is what InsertAt does.
LEMMA InsertAtIs ==
    ASSUME NEW T, NEW x \in Seq(T), NEW k \in 0..Len(x), NEW p \in T
    PROVE  InsertAt(x, k + 1, p) \in Seq(T) /\ Splices(InsertAt(x, k + 1, p), x, k, p)
<1> DEFINE a == SubSeq(x, 1, k)
           b == SubSeq(x, k + 1, Len(x))
           y == (a \o <<p>>) \o b
<1>0. Len(x) \in Nat /\ k \in Nat /\ k <= Len(x) /\ (k + 1) - 1 = k
  OBVIOUS
<1>1. InsertAt(x, k + 1, p) = y
  BY <1>0 DEF InsertAt
<1>2. a \in Seq(T) /\ Len(a) = k /\ \A i \in 1..k : a[i] = x[i]
  BY <1>0
<1>3. b \in Seq(T) /\ Len(b) = Len(x) - k /\ \A i \in 1..(Len(x) - k) : b[i] = x[k + i]
  BY <1>0
<1>4. <<p>> \in Seq(T) /\ Len(<<p>>) = 1 /\ <<p>>[1] = p
  OBVIOUS
<1> HIDE DEF a, b
<1> DEFINE c == a \o <<p>>
<1>5. c \in Seq(T) /\ Len(c) = k + 1 /\ (\A i \in 1..k : c[i] = x[i]) /\ c[k + 1] = p
  BY <1>0, <1>2, <1>4
<1> HIDE DEF c
<1>6. y = c \o b
  BY DEF c
<1> HIDE DEF y
<1>7. y \in Seq(T) /\ Len(y) = Len(c) + Len(b)
      /\ \A i \in 1..(Len(c) + Len(b)) : y[i] = IF i <= Len(c) THEN c[i] ELSE b[i - Len(c)]
  BY <1>3, <1>5, <1>6, ConcatProperties
<1>8. Len(c) + Len(b) = Len(x) + 1
  BY <1>0, <1>3, <1>5
<1>9. ASSUME NEW i \in 1..k PROVE y[i] = x[i]
  <2>1. i \in 1..(Len(x) + 1) /\ i <= Len(c)
    BY <1>0, <1>5
  <2> QED BY <1>5, <1>7, <1>8, <2>1
<1>10. y[k + 1] = p
  <2>1. k + 1 \in 1..(Len(x) + 1) /\ k + 1 <= Len(c)
    BY <1>0, <1>5
  <2> QED BY <1>5, <1>7, <1>8, <2>1
<1>11. ASSUME NEW i \in (k + 2)..(Len(x) + 1) PROVE y[i] = x[i - 1]
  <2>0. Len(c) = k + 1
    BY <1>5
  <2>1. i \in 1..(Len(x) + 1) /\ ~(i <= Len(c)) /\ i - Len(c) \in 1..(Len(x) - k) /\ k + (i - Len(c)) = i - 1
    BY <1>0, <2>0
  <2>2. y[i] = b[i - Len(c)]
    BY <1>7, <1>8, <2>1
  <2> QED BY <1>3, <2>1, <2>2
<1> QED BY <1>1, <1>7, <1>8, <1>9, <1>10, <1>11 DEF Splices

\* A parameter has one place among others.
LEMMA InsertedIs ==
    ASSUME NEW x \in Seq(Pairs), NEW p \in Pairs
    PROVE  /\ Inserted(x, p) \in Seq(Pairs)
           /\ \E k \in 0..Len(x) : IsPlace(k, x, p)
           /\ \A k \in 0..Len(x) : IsPlace(k, x, p) => Splices(Inserted(x, p), x, k, p)
<1> DEFINE T == {i \in 1..Len(x) : Ahead(p, x[i])}
<1>0. Len(x) \in Nat /\ T \subseteq Nat
  OBVIOUS
<1>1. \E k \in 0..Len(x) : IsPlace(k, x, p)
  <2>1. CASE T = {}
    <3>1. IsPlace(Len(x), x, p)
      BY <1>0, <2>1 DEF IsPlace
    <3> QED BY <1>0, <3>1
  <2>2. CASE T # {}
    <3> HIDE DEF T
    <3>1. PICK m \in T : \A n \in T : m <= n
      BY <1>0, <2>2, LeastNatural
    <3>2. m \in 1..Len(x) /\ Ahead(p, x[m])
      BY DEF T
    <3>3. ASSUME NEW i \in 1..(m - 1), Ahead(p, x[i]) PROVE FALSE
      <4>1. i \in 1..Len(x) /\ ~(m <= i)
        BY <1>0, <3>2
      <4>2. i \in T
        BY <3>3, <4>1 DEF T
      <4> QED BY <3>1, <4>1, <4>2
    <3>4. m - 1 \in 0..Len(x) /\ (m - 1) + 1 = m
      BY <1>0, <3>2
    <3>5. IsPlace(m - 1, x, p)
      BY <3>2, <3>3, <3>4 DEF IsPlace
    <3> QED BY <3>4, <3>5
  <2> QED BY <2>1, <2>2
<1>2. ASSUME NEW j \in 0..Len(x), NEW k \in 0..Len(x), IsPlace(j, x, p), IsPlace(k, x, p), j < k PROVE FALSE
  <2>1. j + 1 \in 1..k /\ j # Len(x)
    BY <1>0, <1>2
  <2> QED BY <1>2, <2>1 DEF IsPlace
<1>3. ASSUME NEW k \in 0..Len(x), IsPlace(k, x, p)
      PROVE  Inserted(x, p) \in Seq(Pairs) /\ Splices(Inserted(x, p), x, k, p)
  <2> DEFINE c == CHOOSE j \in 0..Len(x) : IsPlace(j, x, p)
  <2>1. c \in 0..Len(x) /\ IsPlace(c, x, p)
    BY <1>1
  <2>2. Inserted(x, p) = InsertAt(x, c + 1, p)
    BY DEF Inserted
  <2> HIDE DEF c
  <2>3. c = k \/ c < k \/ k < c
    BY <1>0, <2>1
  <2>4. c = k
    BY <1>2, <1>3, <2>1, <2>3
  <2>5. InsertAt(x, k + 1, p) \in Seq(Pairs) /\ Splices(InsertAt(x, k + 1, p), x, k, p)
    BY InsertAtIs
  <2>6. Inserted(x, p) = InsertAt(x, k + 1, p)
    BY <2>2, <2>4
  <2> QED BY <2>5, <2>6
<1> QED BY <1>1, <1>3

\* No parameter stands behind one that it is to be ahead of.
Ordered(x) == \A i, j \in 1..Len(x) : i < j => ~Ahead(x[j], x[i])
\* Insertion keeps that.
LEMMA InsertedOrdered ==
    ASSUME NEW T, T \subseteq Pairs, NEW x \in Seq(T), NEW p \in T
    PROVE  /\ Inserted(x, p) \in Seq(T)
           /\ Ordered(x) => Ordered(Inserted(x, p))
           /\ Ordered(Append(x, p)) => Ordered(x) /\ Inserted(x, p) = Append(x, p)
<1>0. Len(x) \in Nat /\ x \in Seq(Pairs) /\ p \in Pairs /\ \A i \in 1..Len(x) : x[i] \in Pairs
  BY SeqMonotonic
<1>1. PICK k \in 0..Len(x) : IsPlace(k, x, p)
  BY <1>0, InsertedIs
<1> DEFINE y == Inserted(x, p)
<1>2. Splices(y, x, k, p) /\ y \in Seq(Pairs)
  BY <1>0, <1>1, InsertedIs
<1> HIDE DEF y
<1>3. /\ Len(y) = Len(x) + 1 /\ y[k + 1] = p
      /\ \A i \in 1..k : y[i] = x[i]
      /\ \A i \in (k + 2)..(Len(x) + 1) : y[i] = x[i - 1]
  BY <1>2 DEF Splices
<1>11. y \in Seq(T)
  <2>1. \A i \in 1..Len(x) : x[i] \in T
    OBVIOUS
  <2>2. ASSUME NEW i \in 1..(Len(x) + 1) PROVE y[i] \in T
    <3>1. CASE i \in 1..k
      <4>1. i \in 1..Len(x)
        BY <1>0, <3>1
      <4> QED BY <1>3, <2>1, <3>1, <4>1
    <3>2. CASE i = k + 1
      BY <1>3, <3>2
    <3>3. CASE i \in (k + 2)..(Len(x) + 1)
      <4>1. i - 1 \in 1..Len(x)
        BY <1>0, <3>3
      <4> QED BY <1>3, <2>1, <3>3, <4>1
    <3>4. i \in 1..k \/ i = k + 1 \/ i \in (k + 2)..(Len(x) + 1)
      BY <1>0
    <3> QED BY <3>1, <3>2, <3>3, <3>4
  <2>3. y = [i \in 1..(Len(x) + 1) |-> y[i]] /\ Len(x) + 1 \in Nat
    BY <1>0, <1>2, <1>3
  <2> QED BY <2>2, <2>3
<1>4. ASSUME Ordered(x) PROVE Ordered(y)
  <2> SUFFICES ASSUME NEW i \in 1..Len(y), NEW j \in 1..Len(y), i < j, Ahead(y[j], y[i]) PROVE FALSE
    BY DEF Ordered
  <2>1. \A m, n \in 1..Len(x) : m < n => ~Ahead(x[n], x[m])
    BY <1>4 DEF Ordered
  <2>2. k \in Nat /\ i \in Nat /\ j \in Nat /\ j <= Len(x) + 1 /\ i >= 1
    BY <1>0, <1>3
  <2>3. CASE i <= k /\ j <= k
    BY <1>0, <1>3, <2>1, <2>2, <2>3
  <2>4. CASE i <= k /\ j = k + 1
    <3>1. y[i] = x[i] /\ y[j] = p /\ i \in 1..k
      BY <1>0, <1>3, <2>2, <2>4
    <3> QED BY <1>1, <3>1 DEF IsPlace
  <2>5. CASE i <= k /\ j > k + 1
    <3>1. y[i] = x[i] /\ y[j] = x[j - 1] /\ i \in 1..Len(x) /\ j - 1 \in 1..Len(x) /\ i < j - 1
      BY <1>0, <1>3, <2>2, <2>5
    <3> QED BY <2>1, <3>1
  <2>6. CASE i = k + 1
    <3>1. y[i] = p /\ y[j] = x[j - 1] /\ j - 1 \in 1..Len(x) /\ k + 1 \in 1..Len(x) /\ k + 1 <= j - 1 /\ k # Len(x)
      BY <1>0, <1>3, <2>2, <2>6
    <3>2. Ahead(p, x[k + 1])
      BY <1>1, <3>1 DEF IsPlace
    <3>3. Ahead(x[j - 1], x[k + 1])
      BY <1>0, <3>1, <3>2, AheadOrders
    <3>4. k + 1 < j - 1 \/ k + 1 = j - 1
      BY <2>2, <3>1
    <3> QED BY <1>0, <2>1, <3>1, <3>3, <3>4, AheadOrders
  <2>7. CASE i > k + 1
    <3>1. y[i] = x[i - 1] /\ y[j] = x[j - 1] /\ i - 1 \in 1..Len(x) /\ j - 1 \in 1..Len(x) /\ i - 1 < j - 1
      BY <1>0, <1>3, <2>2, <2>7
    <3> QED BY <2>1, <3>1
  <2> QED BY <2>2, <2>3, <2>4, <2>5, <2>6, <2>7
<1>5. ASSUME Ordered(Append(x, p)) PROVE Ordered(x) /\ y = Append(x, p)
  <2> DEFINE z == Append(x, p)
             n == Len(x)
  <2>1. z \in Seq(T) /\ Len(z) = n + 1 /\ z[n + 1] = p /\ \A i \in 1..n : z[i] = x[i]
    OBVIOUS
  <2> HIDE DEF z
  <2>2. \A i, j \in 1..(n + 1) : i < j => ~Ahead(z[j], z[i])
    BY <1>5, <2>1 DEF Ordered, z
  <2>3. Ordered(x)
    BY <1>0, <2>1, <2>2 DEF Ordered
  <2>4. \A i \in 1..n : ~Ahead(p, x[i])
    BY <1>0, <2>1, <2>2
  <2>5. IsPlace(n, x, p) /\ n \in 0..Len(x)
    BY <1>0, <2>4 DEF IsPlace
  <2>6. Splices(y, x, n, p)
    BY <1>0, <2>5, InsertedIs DEF y
  <2>7. Len(y) = n + 1 /\ y[n + 1] = p /\ \A i \in 1..n : y[i] = x[i]
    BY <2>6 DEF Splices
  <2>8. \A i \in 1..(n + 1) : y[i] = z[i]
    BY <1>0, <2>1, <2>7
  <2>9. y = z
    BY <1>2, <2>1, <2>7, <2>8, SeqEqual
  <2> QED BY <2>3, <2>9 DEF z
<1> QED BY <1>4, <1>5, <1>11 DEF y

\* Of parameters that the sort can tell apart, it does not matter which is inserted first.
Told(T) == \A p, q \in T : p = q \/ Ahead(p, q) \/ Ahead(q, p)
\* Each finds its place whether the other is there or not.
LEMMA FirstInserted ==
    ASSUME NEW x \in Seq(Pairs), NEW p \in Pairs, NEW q \in Pairs, Ahead(p, q)
    PROVE  Inserted(Inserted(x, p), q) = Inserted(Inserted(x, q), p)
<1>0. Len(x) \in Nat /\ \A i \in 1..Len(x) : x[i] \in Pairs
  OBVIOUS
<1>1. PICK k \in 0..Len(x) : IsPlace(k, x, p)
  BY InsertedIs
<1>2. PICK m \in 0..Len(x) : IsPlace(m, x, q)
  BY InsertedIs
<1>3. /\ \A i \in 1..k : ~Ahead(p, x[i])
      /\ k = Len(x) \/ Ahead(p, x[k + 1])
      /\ \A i \in 1..m : ~Ahead(q, x[i])
      /\ m = Len(x) \/ Ahead(q, x[m + 1])
  BY <1>1, <1>2 DEF IsPlace
<1>4. k \in Nat /\ m \in Nat /\ k <= Len(x) /\ m <= Len(x)
  BY <1>0
<1>5. k <= m
  <2> SUFFICES ASSUME m < k PROVE FALSE
    BY <1>4
  <2>1. m + 1 \in 1..k /\ m + 1 \in 1..Len(x) /\ m # Len(x)
    BY <1>0, <1>4
  <2>2. Ahead(q, x[m + 1]) /\ x[m + 1] \in Pairs /\ ~Ahead(p, x[m + 1])
    BY <1>0, <1>3, <2>1
  <2> QED BY <2>2, AheadOrders
<1> DEFINE y == Inserted(x, p)
           z == Inserted(x, q)
           n == Len(x)
<1>6. /\ y \in Seq(Pairs) /\ Len(y) = n + 1 /\ y[k + 1] = p
      /\ \A i \in 1..k : y[i] = x[i]
      /\ \A i \in (k + 2)..(n + 1) : y[i] = x[i - 1]
  BY <1>1, InsertedIs, ZenonT(30) DEF Splices
<1>7. /\ z \in Seq(Pairs) /\ Len(z) = n + 1 /\ z[m + 1] = q
      /\ \A i \in 1..m : z[i] = x[i]
      /\ \A i \in (m + 2)..(n + 1) : z[i] = x[i - 1]
  BY <1>2, InsertedIs, ZenonT(30) DEF Splices
<1> HIDE DEF y, z
<1>8. IsPlace(m + 1, y, q) /\ m + 1 \in 0..Len(y)
  <2>1. ASSUME NEW i \in 1..(m + 1) PROVE ~Ahead(q, y[i])
    <3>1. CASE i <= k
      <4>0. i \in 1..k /\ i \in 1..m
        BY <1>4, <1>5, <3>1
      <4>1. y[i] = x[i] /\ i \in 1..m
        BY <1>6, <4>0
      <4> QED BY <1>3, <4>1
    <3>2. CASE i = k + 1
      <4>1. y[i] = p
        BY <1>6, <3>2
      <4> QED BY <4>1, AheadOrders
    <3>3. CASE i > k + 1
      <4>0. i \in (k + 2)..(n + 1) /\ i - 1 \in 1..m
        BY <1>0, <1>4, <3>3
      <4>1. y[i] = x[i - 1] /\ i - 1 \in 1..m
        BY <1>6, <4>0
      <4> QED BY <1>3, <4>1
    <3> QED BY <1>4, <3>1, <3>2, <3>3
  <2>2. ASSUME m + 1 # Len(y) PROVE Ahead(q, y[m + 2])
    <3>0. m # n /\ m + 2 \in (k + 2)..(n + 1) /\ (m + 2) - 1 = m + 1
      BY <1>0, <1>4, <1>5, <1>6, <2>2
    <3>1. m # n /\ y[m + 2] = x[m + 1]
      BY <1>6, <3>0
    <3> QED BY <1>3, <3>1
  <2>3. (m + 1) + 1 = m + 2 /\ m + 1 \in 0..Len(y)
    BY <1>4, <1>6
  <2> QED BY <2>1, <2>2, <2>3 DEF IsPlace
<1>9. IsPlace(k, z, p) /\ k \in 0..Len(z)
  <2>1. ASSUME NEW i \in 1..k PROVE ~Ahead(p, z[i])
    <3>0. i \in 1..m
      BY <1>4, <1>5
    <3>1. z[i] = x[i]
      BY <1>7, <3>0
    <3> QED BY <1>3, <3>1
  <2>2. Ahead(p, z[k + 1])
    <3>1. CASE k = m
      <4>1. z[k + 1] = q
        BY <1>7, <3>1
      <4> QED BY <4>1
    <3>2. CASE k < m
      <4>0. k + 1 \in 1..m /\ k # n
        BY <1>0, <1>4, <3>2
      <4>1. z[k + 1] = x[k + 1] /\ k # n
        BY <1>7, <4>0
      <4> QED BY <1>3, <4>1
    <3> QED BY <1>4, <1>5, <3>1, <3>2
  <2> QED BY <1>4, <1>7, <2>1, <2>2 DEF IsPlace
<1> DEFINE v == Inserted(y, q)
           w == Inserted(z, p)
<1>10. /\ v \in Seq(Pairs) /\ Len(v) = n + 2 /\ v[m + 2] = q
       /\ \A i \in 1..(m + 1) : v[i] = y[i]
       /\ \A i \in (m + 3)..(n + 2) : v[i] = y[i - 1]
  <2>1. v \in Seq(Pairs) /\ Splices(v, y, m + 1, q)
    BY <1>6, <1>8, InsertedIs
  <2>2. Len(y) + 1 = n + 2 /\ (m + 1) + 1 = m + 2 /\ (m + 1) + 2 = m + 3
    BY <1>0, <1>4, <1>6
  <2> QED BY <2>1, <2>2 DEF Splices
<1>11. /\ w \in Seq(Pairs) /\ Len(w) = n + 2 /\ w[k + 1] = p
       /\ \A i \in 1..k : w[i] = z[i]
       /\ \A i \in (k + 2)..(n + 2) : w[i] = z[i - 1]
  <2>1. w \in Seq(Pairs) /\ Splices(w, z, k, p)
    BY <1>7, <1>9, InsertedIs
  <2>2. Len(z) + 1 = n + 2
    BY <1>0, <1>7
  <2> QED BY <2>1, <2>2 DEF Splices
<1> HIDE DEF v, w
<1>12. ASSUME NEW i \in 1..(n + 2) PROVE v[i] = w[i]
  <2>0. i \in Nat /\ n \in Nat /\ i >= 1 /\ i <= n + 2
    BY <1>0
  <2>1. CASE i <= k
    <3>1. i \in 1..k /\ i \in 1..m /\ i \in 1..(m + 1)
      BY <1>4, <1>5, <2>0, <2>1
    <3> QED BY <1>6, <1>7, <1>10, <1>11, <3>1
  <2>2. CASE i = k + 1
    <3>1. i \in 1..(m + 1)
      BY <1>4, <1>5, <2>0, <2>2
    <3> QED BY <1>6, <1>10, <1>11, <2>2, <3>1
  <2>3. CASE i > k + 1 /\ i <= m + 1
    <3>1. i \in 1..(m + 1) /\ i \in (k + 2)..(n + 1) /\ i \in (k + 2)..(n + 2) /\ i - 1 \in 1..m
      BY <1>4, <2>0, <2>3
    <3>2. v[i] = y[i] /\ y[i] = x[i - 1]
      BY <1>6, <1>10, <3>1
    <3>3. w[i] = z[i - 1] /\ z[i - 1] = x[i - 1]
      BY <1>7, <1>11, <3>1
    <3> QED BY <3>2, <3>3
  <2>4. CASE i = m + 2
    <3>1. i \in (k + 2)..(n + 2) /\ i - 1 = m + 1
      BY <1>4, <1>5, <2>0, <2>4
    <3> QED BY <1>7, <1>10, <1>11, <2>4, <3>1
  <2>5. CASE i > m + 2
    <3>1. i \in (m + 3)..(n + 2) /\ i \in (k + 2)..(n + 2) /\ i - 1 \in (k + 2)..(n + 1) /\ i - 1 \in (m + 2)..(n + 1)
      BY <1>4, <1>5, <2>0, <2>5
    <3> QED BY <1>6, <1>7, <1>10, <1>11, <3>1
  <2> QED BY <1>4, <2>0, <2>1, <2>2, <2>3, <2>4, <2>5
<1>13. v = w
  BY <1>10, <1>11, <1>12, SeqEqual
<1> QED BY <1>13 DEF v, w, y, z

\* The same for Sorted.
Sorting(g, text, k) ==
    g = [i \in 0..k |-> IF i = 0 THEN <<>> ELSE Inserted(g[i - 1], text[i])]
\* The function by which Sorted is defined exists.
LEMMA SortingDefined ==
    ASSUME NEW text, NEW k \in Nat
    PROVE  \E g : Sorting(g, text, k)
<1> DEFINE S == {m \in Nat : \E g : Sorting(g, text, m)}
<1>1. 0 \in S
  <2>1. Sorting([i \in 0..0 |-> <<>>], text, 0)
    BY DEF Sorting
  <2> QED BY <2>1
<1>2. ASSUME NEW m \in Nat, m \in S PROVE m + 1 \in S
  <2>1. PICK g : Sorting(g, text, m)
    BY <1>2
  <2> DEFINE next == Inserted(g[m], text[m + 1])
             h == [i \in 0..(m + 1) |-> IF i <= m THEN g[i] ELSE next]
  <2> HIDE DEF next
  <2>2. \A i \in 0..m : h[i] = g[i]
    OBVIOUS
  <2>3. h[m + 1] = next
    OBVIOUS
  <2> HIDE DEF h
  <2>4. ASSUME NEW i \in 0..(m + 1)
        PROVE  h[i] = IF i = 0 THEN <<>> ELSE Inserted(h[i - 1], text[i])
    <3>1. CASE i \in 0..m
      <4>1. g[i] = IF i = 0 THEN <<>> ELSE Inserted(g[i - 1], text[i])
        BY <2>1, <3>1 DEF Sorting
      <4>2. h[i] = g[i] /\ (i # 0 => h[i - 1] = g[i - 1])
        BY <2>2, <3>1
      <4> QED BY <4>1, <4>2
    <3>2. CASE i = m + 1
      <4>1. i # 0 /\ h[i - 1] = g[m] /\ h[i] = next
        BY <2>2, <2>3, <3>2
      <4> QED BY <3>2, <4>1, Zenon DEF next
    <3>3. i \in 0..m \/ i = m + 1
      OBVIOUS
    <3> QED BY <3>1, <3>2, <3>3
  <2>5. h = [i \in 0..(m + 1) |-> h[i]]
    BY DEF h
  <2>6. Sorting(h, text, m + 1)
    BY <2>4, <2>5 DEF Sorting
  <2>7. m + 1 \in Nat
    OBVIOUS
  <2> QED BY <2>6, <2>7, Zenon
<1> HIDE DEF S
<1>3. k \in S
  BY <1>1, <1>2, SetInduction
<1> QED BY <1>3 DEF S

\* Sorted is its last value.
LEMMA SortedSorting ==
    ASSUME NEW T, NEW text \in Seq(T)
    PROVE  \E g : Sorting(g, text, Len(text)) /\ Sorted(text) = g[Len(text)]
<1> DEFINE after == CHOOSE g : Sorting(g, text, Len(text))
<1>0. Len(text) \in Nat
  OBVIOUS
<1>1. \E g : Sorting(g, text, Len(text))
  BY <1>0, SortingDefined, Zenon
<1>2. Sorting(after, text, Len(text))
  BY <1>1, Zenon
<1>3. Sorted(text) = after[Len(text)]
  BY DEF Sorted, Sorting
<1> QED BY <1>2, <1>3, Zenon

\* On equal beginnings of two sequences the functions agree.
LEMMA SortingAgree ==
    ASSUME NEW x, NEW y, NEW k \in Nat, NEW m \in Nat, k <= m,
           \A i \in 1..k : x[i] = y[i],
           NEW g, Sorting(g, x, k), NEW h, Sorting(h, y, m)
    PROVE  g[k] = h[k]
<1> DEFINE S == {n \in Nat : n <= k => g[n] = h[n]}
<1>1. 0 \in S
  BY DEF Sorting
<1>2. ASSUME NEW n \in Nat, n \in S PROVE n + 1 \in S
  <2> SUFFICES ASSUME n + 1 <= k PROVE g[n + 1] = h[n + 1]
    OBVIOUS
  <2>0. PICK j \in Nat : j = n + 1
    OBVIOUS
  <2>1. j \in 0..k /\ j \in 0..m /\ j # 0 /\ j - 1 = n /\ j \in 1..k
    BY <2>0
  <2>2. g[j] = Inserted(g[n], x[j])
    BY <2>1 DEF Sorting
  <2>3. h[j] = Inserted(h[n], y[j])
    BY <2>1 DEF Sorting
  <2>4. g[n] = h[n]
    BY <1>2
  <2>5. x[j] = y[j]
    BY <2>1
  <2>6. g[j] = h[j]
    BY <2>2, <2>3, <2>4, <2>5, Zenon
  <2> QED BY <2>0, <2>6
<1> HIDE DEF S
<1>3. k \in S
  BY <1>1, <1>2, SetInduction
<1> QED BY <1>3 DEF S

\* Sorted, one element at a time.
LEMMA SortedGrows ==
    ASSUME NEW T
    PROVE  /\ Sorted(<<>>) = <<>>
           /\ \A x \in Seq(T), t \in T :
                 Sorted(Append(x, t)) = Inserted(Sorted(x), t)
<1>1. Sorted(<<>>) = <<>>
  <2>1. <<>> \in Seq(T) /\ Len(<<>>) = 0
    OBVIOUS
  <2>2. PICK g : Sorting(g, <<>>, 0) /\ Sorted(<<>>) = g[0]
    BY <2>1, SortedSorting
  <2> QED BY <2>2 DEF Sorting
<1>2. ASSUME NEW x \in Seq(T), NEW t \in T
      PROVE  Sorted(Append(x, t)) = Inserted(Sorted(x), t)
  <2> DEFINE y == Append(x, t)
             k == Len(x)
  <2>1. y \in Seq(T) /\ Len(y) = k + 1 /\ y[k + 1] = t /\ k \in Nat /\ \A i \in 1..k : x[i] = y[i]
    OBVIOUS
  <2> HIDE DEF y
  <2>2. PICK g : Sorting(g, x, k) /\ Sorted(x) = g[k]
    BY SortedSorting
  <2>3. PICK h : Sorting(h, y, k + 1) /\ Sorted(y) = h[k + 1]
    BY <2>1, SortedSorting
  <2> HIDE DEF k
  <2>4. k + 1 \in Nat /\ k <= k + 1
    BY <2>1
  <2>5. g[k] = h[k]
    BY <2>1, <2>2, <2>3, <2>4, SortingAgree, SMTT(30)
  <2>6. h[k + 1] = Inserted(h[k], y[k + 1])
    <3>1. PICK j \in Nat : j = k + 1
      BY <2>1
    <3>2. j \in 0..(k + 1) /\ j # 0 /\ j - 1 = k
      BY <2>1, <3>1
    <3>3. h[j] = Inserted(h[j - 1], y[j])
      BY <2>3, <3>2 DEF Sorting
    <3> QED BY <3>1, <3>2, <3>3
  <2> QED BY <2>1, <2>2, <2>3, <2>5, <2>6 DEF y
<1> QED BY <1>1, <1>2


\* Parameters of the same kind, in order, and those that were in order already.
Sorts(T, x) ==
    /\ Sorted(x) \in Seq(T) /\ Ordered(Sorted(x))
    /\ Sorted(x) = <<>> <=> x = <<>>
    /\ Ordered(x) => Sorted(x) = x
\* That is what sorting gives.
LEMMA SortedIs ==
    ASSUME NEW T, T \subseteq Pairs, NEW s \in Seq(T)
    PROVE  Sorts(T, s)
<1> DEFINE G == {x \in Seq(T) : Sorts(T, x)}
<1>1. <<>> \in G
  <2>1. Sorted(<<>>) = <<>>
    BY SortedGrows
  <2>2. <<>> \in Seq(T) /\ Ordered(<<>>)
    BY DEF Ordered
  <2> QED BY <2>1, <2>2 DEF Sorts
<1>2. ASSUME NEW x \in Seq(T), NEW t \in T, x \in G PROVE Append(x, t) \in G
  <2> DEFINE y == Append(x, t)
             z == Inserted(Sorted(x), t)
  <2>1. y \in Seq(T) /\ y # <<>>
    OBVIOUS
  <2>2. Sorted(y) = z
    BY SortedGrows
  <2>3. Sorted(x) \in Seq(T) /\ Ordered(Sorted(x)) /\ (Ordered(x) => Sorted(x) = x)
    BY <1>2 DEF Sorts
  <2>4. z \in Seq(T) /\ Ordered(z)
    BY <2>3, InsertedOrdered
  <2>5. z # <<>>
    <3>1. Sorted(x) \in Seq(Pairs) /\ t \in Pairs
      BY <2>3, SeqMonotonic
    <3>2. PICK k \in 0..Len(Sorted(x)) : Splices(z, Sorted(x), k, t)
      BY <3>1, InsertedIs
    <3>3. Len(z) = Len(Sorted(x)) + 1 /\ Len(Sorted(x)) \in Nat
      BY <2>3, <3>2 DEF Splices
    <3> QED BY <3>3
  <2>6. ASSUME Ordered(y) PROVE z = y
    <3>1. Ordered(x) /\ Inserted(x, t) = y
      BY <2>6, InsertedOrdered
    <3> QED BY <2>3, <3>1
  <2> HIDE DEF y, z
  <2>7. y \in G
    BY <2>1, <2>2, <2>4, <2>5, <2>6 DEF Sorts
  <2> QED BY <2>7 DEF y
<1>3. Seq(T) \subseteq G
  <2> HIDE DEF G
  <2> QED BY <1>1, <1>2, AppendInduction
<1> QED BY <1>3

\* A parameter that stands first is sorted in as one that stands last.
LEMMA SortedLead ==
    ASSUME NEW T, T \subseteq Pairs, Told(T), NEW t \in T, NEW s \in Seq(T)
    PROVE  Sorted(<<t>> \o s) = Inserted(Sorted(s), t)
<1> DEFINE G == {x \in Seq(T) : Sorted(<<t>> \o x) = Inserted(Sorted(x), t)}
<1>0. <<t>> \in Seq(T) /\ <<>> \in Seq(T) /\ <<t>> \o <<>> = <<t>> /\ Append(<<>>, t) = <<t>>
  OBVIOUS
<1>1. <<>> \in G
  <2>1. Sorted(Append(<<>>, t)) = Inserted(Sorted(<<>>), t)
    BY <1>0, SortedGrows
  <2> QED BY <1>0, <2>1
<1>2. ASSUME NEW x \in Seq(T), NEW u \in T, x \in G PROVE Append(x, u) \in G
  <2> DEFINE y == Append(x, u)
             z == <<t>> \o x
             s0 == Sorted(x)
  <2>1. y \in Seq(T) /\ z \in Seq(T)
    OBVIOUS
  <2>2. <<t>> \o y = Append(z, u)
    <3>1. y = x \o <<u>> /\ Append(z, u) = z \o <<u>>
      BY <2>1, AppendJoins
    <3>2. <<u>> \in Seq(T)
      OBVIOUS
    <3>3. Associates(<<t>>, x, <<u>>)
      BY <1>0, <3>2, Regrouping
    <3> QED BY <3>1, <3>3 DEF Associates
  <2>3. Sorted(Append(z, u)) = Inserted(Sorted(z), u)
    BY <2>1, SortedGrows
  <2>4. Sorted(z) = Inserted(s0, t)
    BY <1>2
  <2>5. Sorted(y) = Inserted(s0, u)
    BY SortedGrows
  <2>6. s0 \in Seq(Pairs) /\ t \in Pairs /\ u \in Pairs
    BY SortedIs, SeqMonotonic DEF Sorts
  <2> HIDE DEF s0, y, z
  <2>7. Inserted(Inserted(s0, t), u) = Inserted(Inserted(s0, u), t)
    <3>1. t = u \/ Ahead(t, u) \/ Ahead(u, t)
      BY DEF Told
    <3> QED BY <2>6, <3>1, FirstInserted
  <2>8. y \in G
    BY <2>1, <2>2, <2>3, <2>4, <2>5, <2>7
  <2> QED BY <2>8 DEF y
<1>3. Seq(T) \subseteq G
  <2> HIDE DEF G
  <2> QED BY <1>1, <1>2, AppendInduction
<1> QED BY <1>3

\* Parameters that the sort can tell apart are sorted the same from either end.
LEMMA SortedReverse ==
    ASSUME NEW T, T \subseteq Pairs, Told(T), NEW s \in Seq(T)
    PROVE  Reverse(s) \in Seq(T) /\ Sorted(Reverse(s)) = Sorted(s)
<1> DEFINE G == {x \in Seq(T) : Reverse(x) \in Seq(T) /\ Sorted(Reverse(x)) = Sorted(x)}
<1>1. <<>> \in G
  <2>1. Reverse(<<>>) = <<>> /\ <<>> \in Seq(T)
    BY DEF Reverse
  <2> QED BY <2>1
<1>2. ASSUME NEW x \in Seq(T), NEW t \in T, x \in G PROVE Append(x, t) \in G
  <2> DEFINE y == Append(x, t)
             r == Reverse(x)
             z == <<t>> \o r
             k == Len(x)
  <2>1. /\ y \in Seq(T) /\ Len(y) = k + 1 /\ y[k + 1] = t /\ k \in Nat
        /\ \A i \in 1..k : y[i] = x[i]
    OBVIOUS
  <2>2. r \in Seq(T) /\ Sorted(r) = Sorted(x)
    BY <1>2
  <2>3. Len(r) = k /\ \A i \in 1..k : r[i] = x[(k - i) + 1]
    BY <2>1 DEF Reverse
  <2>4. Reverse(y) = [i \in 1..(k + 1) |-> y[((k + 1) - i) + 1]]
    BY <2>1 DEF Reverse
  <2> HIDE DEF r, y
  <2>5. <<t>> \in Seq(T) /\ Len(<<t>>) = 1 /\ <<t>>[1] = t
    OBVIOUS
  <2>6. z \in Seq(T) /\ Len(z) = k + 1
        /\ \A i \in 1..(k + 1) : z[i] = IF i <= 1 THEN t ELSE r[i - 1]
    <3>1. z \in Seq(T) /\ Len(z) = Len(<<t>>) + Len(r)
          /\ \A i \in 1..(Len(<<t>>) + Len(r)) : z[i] = IF i <= Len(<<t>>) THEN <<t>>[i] ELSE r[i - Len(<<t>>)]
      BY <2>2, <2>5, ConcatProperties
    <3>2. Len(<<t>>) + Len(r) = k + 1
      BY <2>1, <2>3, <2>5
    <3>3. \A i \in 1..(k + 1) : i <= 1 => i = 1
      OBVIOUS
    <3> HIDE DEF z
    <3> QED BY <2>5, <3>1, <3>2, <3>3
  <2> HIDE DEF z
  <2>7. ASSUME NEW i \in 1..(k + 1) PROVE y[((k + 1) - i) + 1] = z[i]
    <3>1. CASE i = 1
      <4>1. ((k + 1) - i) + 1 = k + 1
        BY <2>1, <3>1
      <4> QED BY <2>1, <2>6, <3>1, <4>1
    <3>2. CASE i # 1
      <4>1. ((k + 1) - i) + 1 \in 1..k /\ i - 1 \in 1..k /\ (k - (i - 1)) + 1 = ((k + 1) - i) + 1 /\ ~(i <= 1)
        BY <2>1, <3>2
      <4>2. z[i] = r[i - 1] /\ r[i - 1] = x[(k - (i - 1)) + 1]
        BY <2>3, <2>6, <4>1
      <4> QED BY <2>1, <4>1, <4>2
    <3> QED BY <3>1, <3>2
  <2>8. z = [i \in 1..(k + 1) |-> z[i]]
    BY <2>6
  <2>9. Reverse(y) = z
    BY <2>4, <2>7, <2>8
  <2>10. Sorted(z) = Inserted(Sorted(r), t)
    BY <2>2, SortedLead DEF z
  <2>11. Sorted(y) = Inserted(Sorted(x), t)
    BY SortedGrows DEF y
  <2>12. y \in G
    BY <2>1, <2>2, <2>6, <2>9, <2>10, <2>11
  <2> QED BY <2>12 DEF y
<1>3. Seq(T) \subseteq G
  <2> HIDE DEF G
  <2> QED BY <1>1, <1>2, AppendInduction
<1> QED BY <1>3

\* Nothing that ends a query, and no space, is in one that was written.
LEMMA SerializedTokens ==
    ASSUME NEW s \in Seq(Pairs)
    PROVE  SerializeQuery(s) \in Seq(Token \ {"#", Space})
<1> DEFINE K == Token \ {"#", Space}
           G == {x \in Seq(Pairs) : SerializeQuery(x) \in Seq(K)}
<1>0. "&" \in K /\ Spelt \cup {"="} \subseteq K
  BY CharactersAreTokens, SpaceIsNoOther DEF Spelt, Kept
<1>1. <<>> \in G
  <2>1. SerializeQuery(<<>>) = <<>>
    BY DEF SerializeQuery, SerializeQueryPlain, Each
  <2>2. <<>> \in Seq(K) /\ <<>> \in Seq(Pairs)
    OBVIOUS
  <2> QED BY <2>1, <2>2
<1>2. ASSUME NEW x \in Seq(Pairs), NEW pair \in Pairs, x \in G PROVE Append(x, pair) \in G
  <2> DEFINE y == Append(x, pair)
             c == Chunk(pair)
             q == SerializeQuery(x)
  <2>1. y \in Seq(Pairs) /\ q \in Seq(K)
    BY <1>2
  <2>2. c \in Seq(K)
    <3>1. c \in Seq(Spelt \cup {"="})
      BY ChunkIs
    <3> QED BY <1>0, <3>1, SeqMonotonic
  <2>3. x # <<>> => SerializeQuery(y) = (q \o <<"&">>) \o c
    BY SerializeGrows
  <2>4. x = <<>> => SerializeQuery(y) = c
    <3>1. x = <<>> => y = <<pair>>
      OBVIOUS
    <3> QED BY <3>1, SerializeGrows
  <2> HIDE DEF K, c, q
  <2>5. (q \o <<"&">>) \o c \in Seq(K)
    <3>1. <<"&">> \in Seq(K)
      BY <1>0
    <3> QED BY <2>1, <2>2, <3>1, ConcatProperties
  <2> HIDE DEF y
  <2>6. SerializeQuery(y) \in Seq(K)
    BY <2>2, <2>3, <2>4, <2>5
  <2> QED BY <2>1, <2>6 DEF y
<1>3. Seq(Pairs) \subseteq G
  <2> HIDE DEF G
  <2> QED BY <1>1, <1>2, AppendInduction
<1> QED BY <1>3

\* A host in form is in lower case.
LEMMA HostLowered ==
    ASSUME NEW host, GoodHost(host)
    PROVE  Lower(host) = host /\ NormalizeHostComponent(host) = host
<1>1. host \in Seq(Token) /\ host # <<>> /\ NormalizeHost(host) = host /\ ValidHost(host) /\ Len(host) \in Nat
  BY HostTokens DEF GoodHost, ValidHost, IsText
<1>2. CASE Len(host) = 1 /\ host[1] \in DOMAIN IPv6s
  <2>1. host[1] \notin DOMAIN LowerOf
    BY <1>2, NamesAssumption DEF NotInNames
  <2>2. Lower(host) = [i \in 1..Len(host) |-> Lowered(host[i])]
    BY <1>1, LowerIs
  <2>3. \A i \in 1..Len(host) : Lowered(host[i]) = host[i]
    BY <1>2, <2>1 DEF Lowered
  <2>4. host = [i \in 1..Len(host) |-> host[i]]
    BY <1>1
  <2> HIDE DEF Lowered
  <2> QED BY <1>1, <2>2, <2>3, <2>4 DEF NormalizeHostComponent
<1>3. CASE ~(Len(host) = 1 /\ host[1] \in DOMAIN IPv6s)
  <2>1. CASE Len(host) > 1 /\ Last(host) = "."
    <3>1. host = Lower(Front(host))
      BY <1>1, <1>3, <2>1 DEF NormalizeHost
    <3>2. Front(host) \in Seq(Token) /\ Len(Front(host)) = Len(host) - 1
      BY <1>1, <2>1 DEF Front
    <3>3. Len(Lower(Front(host))) = Len(Front(host))
      BY <3>2, LowerIs
    <3> QED BY <1>1, <3>1, <3>2, <3>3
  <2>2. CASE ~(Len(host) > 1 /\ Last(host) = ".")
    BY <1>1, <1>3, <2>2 DEF NormalizeHost, NormalizeHostComponent
  <2> QED BY <2>1, <2>2
<1> QED BY <1>2, <1>3
=============================================================================
