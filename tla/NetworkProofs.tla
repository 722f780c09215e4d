--------------------------- MODULE NetworkProofs ---------------------------
(***************************************************************************)
(* Sequences and channels: what the proofs about every protocol on top of  *)
(* the network use, S being the protocol's messages.                       *)
(***************************************************************************)
EXTENDS Network, FiniteSetTheorems, TLAPS

\* What one handler sends, and the channels.
Outgoing(S) == [Node -> Seq(S)]
Channels(S) == [Node -> Outgoing(S)]

\* The empty sequence has every element type.
LEMMA EmptySeq == ASSUME NEW S PROVE <<>> \in Seq(S) /\ Len(<<>>) = 0 /\ DOMAIN <<>> = {}
OBVIOUS

\* The first element and the rest of a sequence that is not empty.
LEMMA Uncons ==
  ASSUME NEW S, NEW s \in Seq(S), s # <<>>
  PROVE  /\ Head(s) = s[1] /\ 1 \in DOMAIN s /\ Head(s) \in S
         /\ Tail(s) \in Seq(S)
         /\ \A i \in DOMAIN Tail(s) : i \in Nat /\ i >= 1 /\ i + 1 \in DOMAIN s /\ Tail(s)[i] = s[i + 1]
         /\ \A i \in DOMAIN s : i \in Nat /\ (i = 1 \/ (i - 1 \in DOMAIN Tail(s) /\ Tail(s)[i - 1] = s[i]))
  OBVIOUS

\* The elements of two sequences, one after the other.
LEMMA Concat ==
  ASSUME NEW S, NEW s \in Seq(S), NEW t \in Seq(S)
  PROVE  /\ s \o t \in Seq(S)
         /\ \A i \in DOMAIN s : i \in Nat /\ i \in DOMAIN (s \o t) /\ (s \o t)[i] = s[i]
         /\ \A i \in DOMAIN (s \o t) :
              \/ i \in DOMAIN s /\ (s \o t)[i] = s[i]
              \/ i - Len(s) \in DOMAIN t /\ (s \o t)[i] = t[i - Len(s)] /\ i > Len(s)
  OBVIOUS

\* One more element.
LEMMA AppendType == ASSUME NEW S, NEW s \in Seq(S), NEW x \in S PROVE Append(s, x) \in Seq(S)
OBVIOUS

\* The elements of a sequence.
LEMMA Elements ==
  ASSUME NEW S, NEW s \in Seq(S)
  PROVE  Len(s) \in Nat /\ DOMAIN s = 1 .. Len(s) /\ \A i \in 1 .. Len(s) : s[i] \in S
OBVIOUS

\* A handler that sends one message to several nodes, or to none.
LEMMA ToType ==
  ASSUME NEW S, NEW R, NEW msg, R = {} \/ msg \in S
  PROVE  To(R, msg) \in Outgoing(S)
<1>1. CASE R = {}
  BY <1>1, EmptySeq DEF To, Outgoing
<1>2. CASE msg \in S
  BY <1>2, EmptySeq DEF To, Outgoing
<1> QED
  BY <1>1, <1>2

\* A handler that sends nothing.
LEMMA NothingType == ASSUME NEW S PROVE Nothing \in Outgoing(S)
BY EmptySeq DEF Nothing, Outgoing

\* A handler that sends twice.
LEMMA ThenType ==
  ASSUME NEW S, NEW out1 \in Outgoing(S), NEW out2 \in Outgoing(S)
  PROVE  Then(out1, out2) \in Outgoing(S)
BY Concat DEF Then, Outgoing

\* The message a handler takes.
LEMMA HeadType ==
  ASSUME NEW S, NEW net \in Channels(S), NEW q \in Node, NEW n \in Node, net[q][n] # <<>>
  PROVE  Head(net[q][n]) \in S
BY Uncons DEF Channels, Outgoing

\* The channels after a message has been taken.
LEMMA TakenAt ==
  ASSUME NEW S, NEW net \in Channels(S), NEW q \in Node, NEW n \in Node, net[q][n] # <<>>
  PROVE  /\ Taken(net, q, n) \in Channels(S)
         /\ \A p, r \in Node :
              Taken(net, q, n)[p][r] = IF p = q /\ r = n THEN Tail(net[q][n]) ELSE net[p][r]
<1>1. Tail(net[q][n]) \in Seq(S)
  BY Uncons DEF Channels, Outgoing
<1> QED
  BY <1>1 DEF Taken, Channels, Outgoing

\* The channels after something has been sent.
LEMMA SentAt ==
  ASSUME NEW S, NEW net \in Channels(S), NEW n \in Node, NEW out \in Outgoing(S)
  PROVE  /\ Sent(net, n, out) \in Channels(S)
         /\ \A p, r \in Node :
              Sent(net, n, out)[p][r] = IF p = n THEN net[n][r] \o out[r] ELSE net[p][r]
<1>1. [r \in Node |-> net[n][r] \o out[r]] \in Outgoing(S)
  BY Concat DEF Channels, Outgoing
<1> QED
  BY <1>1 DEF Sent, Channels

\* Both.
LEMMA ExchangedType ==
  ASSUME NEW S, NEW net \in Channels(S), NEW q \in Node, NEW n \in Node, net[q][n] # <<>>,
         NEW out \in Outgoing(S)
  PROVE  Exchanged(net, q, n, out) \in Channels(S)
BY SentAt, TakenAt DEF Exchanged

\* Nothing but messages of T.
LEMMA OutgoingOf ==
  ASSUME NEW S, NEW out \in Outgoing(S), NEW T,
         \A r \in Node : \A i \in DOMAIN out[r] : out[r][i] \in T
  PROVE  out \in Outgoing(T)
<1>1. ASSUME NEW s \in Seq(S), \A i \in DOMAIN s : s[i] \in T PROVE s \in Seq(T)
  BY <1>1
<1> QED
  BY <1>1 DEF Outgoing

LEMMA OutgoingWider ==
  ASSUME NEW S, NEW T, S \subseteq T, NEW out \in Outgoing(S) PROVE out \in Outgoing(T)
<1>1. ASSUME NEW s \in Seq(S) PROVE s \in Seq(T)
  OBVIOUS
<1> QED
  BY <1>1 DEF Outgoing

\* A handler that sends nothing leaves the channels as they are.
LEMMA SentNothing ==
  ASSUME NEW S, NEW net \in Channels(S), NEW n \in Node
  PROVE  Sent(net, n, Nothing) = net
<1>1. \A r \in Node : net[n][r] \o <<>> = net[n][r]
  BY DEF Channels, Outgoing
<1>2. [r \in Node |-> net[n][r] \o Nothing[r]] = net[n]
  BY <1>1 DEF Nothing, Channels, Outgoing
<1> QED
  BY <1>2 DEF Sent, Channels

-----------------------------------------------------------------------------
(***************************************************************************)
(* Counting.                                                               *)
(***************************************************************************)
\* A one-to-one correspondence preserves the number of elements.
LEMMA SameSize ==
  ASSUME NEW S, NEW T, NEW f \in [S -> T], IsFiniteSet(S),
         \A x, y \in S : f[x] = f[y] => x = y,
         \A t \in T : \E x \in S : f[x] = t
  PROVE  IsFiniteSet(T) /\ Cardinality(T) = Cardinality(S)
<1>1. f \in Injection(S, T) /\ f \in Surjection(S, T)
  <2>1. DOMAIN f = S
    OBVIOUS
  <2> QED
    BY <2>1 DEF Injection, Surjection, IsInjective
<1>2. ExistsBijection(S, T)
  BY <1>1 DEF ExistsBijection, Bijection
<1> QED
  BY <1>2, FS_Bijection

\* Two sets without a common element.
LEMMA DisjointSize ==
  ASSUME NEW S, IsFiniteSet(S), NEW T, IsFiniteSet(T), S \cap T = {}
  PROVE  /\ IsFiniteSet(S \cup T) /\ Cardinality(S) \in Nat /\ Cardinality(T) \in Nat
         /\ Cardinality(S \cup T) = Cardinality(S) + Cardinality(T)
<1>1. IsFiniteSet(S \cup T) /\ Cardinality(S \cup T) = Cardinality(S) + Cardinality(T) - Cardinality(S \cap T)
  BY FS_Union
<1>2. Cardinality(S \cap T) = 0 /\ Cardinality(S) \in Nat /\ Cardinality(T) \in Nat
  BY FS_EmptySet, FS_CardinalityType
<1> QED
  BY <1>1, <1>2

\* A set without two members.
LEMMA AtMostOne ==
  ASSUME NEW S, IsFiniteSet(S)
  PROVE  Cardinality(S) <= 1 <=> \A a, b \in S : a = b
<1>1. Cardinality(S) \in Nat
  BY FS_CardinalityType
<1>2. ASSUME Cardinality(S) <= 1, NEW a \in S, NEW b \in S PROVE a = b
  <2>1. SUFFICES ASSUME a # b PROVE FALSE
    OBVIOUS
  <2>2. IsFiniteSet(S \ {a}) /\ Cardinality(S \ {a}) = Cardinality(S) - 1
    BY FS_RemoveElement
  <2>3. IsFiniteSet((S \ {a}) \ {b}) /\ Cardinality((S \ {a}) \ {b}) = Cardinality(S \ {a}) - 1
    BY <2>1, <2>2, FS_RemoveElement
  <2>4. Cardinality((S \ {a}) \ {b}) \in Nat
    BY <2>3, FS_CardinalityType
  <2> QED
    BY <1>1, <1>2, <2>2, <2>3, <2>4
<1>3. ASSUME \A a, b \in S : a = b PROVE Cardinality(S) <= 1
  <2>1. CASE S = {}
    BY <2>1, FS_EmptySet
  <2>2. ASSUME NEW a \in S PROVE Cardinality(S) <= 1
    <3>1. S = {a}
      BY <1>3
    <3>2. Cardinality({a}) = 1
      BY FS_Singleton
    <3> QED
      BY <3>1, <3>2
  <2> QED
    BY <2>1, <2>2
<1> QED
  BY <1>2, <1>3

\* Where the elements of S are in a sequence.
Places(s, S) == {i \in DOMAIN s : s[i] \in S}

\* There are finitely many.
LEMMA CopiesType ==
  ASSUME NEW M, NEW s \in Seq(M), NEW S
  PROVE  /\ Copies(s, S) \in Nat /\ IsFiniteSet(Places(s, S)) /\ Copies(s, S) = Cardinality(Places(s, S))
         /\ Copies(s, S) = 0 <=> \A i \in DOMAIN s : s[i] \notin S
<1>1. Places(s, S) \in SUBSET (1 .. Len(s)) /\ Len(s) \in Int
  BY Elements DEF Places
<1>2. IsFiniteSet(1 .. Len(s))
  BY <1>1, FS_Interval
<1>3. IsFiniteSet(Places(s, S)) /\ Copies(s, S) = Cardinality(Places(s, S))
  BY <1>1, <1>2, FS_Subset DEF Copies, Places
<1>4. Copies(s, S) \in Nat /\ (Copies(s, S) = 0 <=> Places(s, S) = {})
  BY <1>3, FS_CardinalityType, FS_EmptySet
<1> QED
  BY <1>3, <1>4 DEF Places

\* None in the empty sequence, one or none in a sequence of one.
LEMMA CopiesFew ==
  ASSUME NEW S
  PROVE  /\ Copies(<<>>, S) = 0
         /\ \A msg : Copies(<<msg>>, S) = IF msg \in S THEN 1 ELSE 0
<1>1. Copies(<<>>, S) = 0
  <2>1. {i \in DOMAIN <<>> : <<>>[i] \in S} = {}
    BY EmptySeq
  <2> QED
    BY <2>1, FS_EmptySet DEF Copies
<1>2. ASSUME NEW msg PROVE Copies(<<msg>>, S) = IF msg \in S THEN 1 ELSE 0
  <2>1. {i \in DOMAIN <<msg>> : <<msg>>[i] \in S} = IF msg \in S THEN {1} ELSE {}
    OBVIOUS
  <2> QED
    BY <2>1, FS_EmptySet, FS_Singleton DEF Copies
<1> QED
  BY <1>1, <1>2

\* One after the other.
LEMMA CopiesConcat ==
  ASSUME NEW M, NEW s \in Seq(M), NEW t \in Seq(M), NEW S
  PROVE  Copies(s \o t, S) = Copies(s, S) + Copies(t, S)
<1> DEFINE later == {i \in Places(s \o t, S) : i > Len(s)}
           f == [i \in Places(t, S) |-> i + Len(s)]
<1>1. /\ s \o t \in Seq(M) /\ Len(s) \in Nat /\ Len(t) \in Nat
      /\ DOMAIN s = 1 .. Len(s) /\ DOMAIN t = 1 .. Len(t) /\ DOMAIN (s \o t) = 1 .. Len(s) + Len(t)
      /\ \A i \in 1 .. Len(s) : (s \o t)[i] = s[i]
      /\ \A i \in 1 .. Len(t) : (s \o t)[i + Len(s)] = t[i]
  OBVIOUS
<1>2. Places(s \o t, S) = Places(s, S) \cup later
  BY <1>1 DEF Places
<1>3. Places(s, S) \cap later = {}
  BY <1>1 DEF Places
<1>4. /\ IsFiniteSet(Places(s, S)) /\ IsFiniteSet(Places(t, S)) /\ IsFiniteSet(Places(s \o t, S))
      /\ Copies(s, S) = Cardinality(Places(s, S)) /\ Copies(t, S) = Cardinality(Places(t, S))
      /\ Copies(s \o t, S) = Cardinality(Places(s \o t, S))
  BY <1>1, CopiesType
<1>5. Cardinality(later) = Cardinality(Places(t, S))
  <2>1. f \in [Places(t, S) -> later]
    BY <1>1 DEF Places
  <2>2. \A i, j \in Places(t, S) : f[i] = f[j] => i = j
    BY <1>1 DEF Places
  <2>3. \A k \in later : \E i \in Places(t, S) : f[i] = k
    <3> SUFFICES ASSUME NEW k \in later PROVE k - Len(s) \in Places(t, S) /\ f[k - Len(s)] = k
      OBVIOUS
    <3>1. k \in 1 .. Len(s) + Len(t) /\ k > Len(s) /\ (s \o t)[k] \in S
      BY <1>1 DEF Places
    <3>2. k - Len(s) \in 1 .. Len(t) /\ (k - Len(s)) + Len(s) = k
      BY <1>1, <3>1
    <3>3. t[k - Len(s)] = (s \o t)[k]
      BY <1>1, <3>2
    <3>4. k - Len(s) \in Places(t, S)
      BY <1>1, <3>1, <3>2, <3>3 DEF Places
    <3> QED
      BY <3>2, <3>4
  <2> HIDE DEF f, later
  <2> QED
    BY <1>4, <2>1, <2>2, <2>3, SameSize
<1>6. IsFiniteSet(later)
  BY <1>4, FS_Subset
<1> HIDE DEF later
<1>7. Cardinality(Places(s, S) \cup later) = Cardinality(Places(s, S)) + Cardinality(later)
  BY <1>3, <1>4, <1>6, DisjointSize
<1> QED
  BY <1>2, <1>4, <1>5, <1>7

\* The first element, and the rest.
LEMMA CopiesTail ==
  ASSUME NEW M, NEW s \in Seq(M), s # <<>>, NEW S
  PROVE  Copies(s, S) = Copies(Tail(s), S) + IF Head(s) \in S THEN 1 ELSE 0
<1> DEFINE msg == Head(s)
           first == <<msg>>
           rest == Tail(s)
<1>1. rest \in Seq(M) /\ first \in Seq(M) /\ s = first \o rest
  OBVIOUS
<1>2. Copies(first, S) = IF msg \in S THEN 1 ELSE 0
  <2> HIDE DEF msg
  <2> QED
    BY CopiesFew
<1> HIDE DEF first, rest
<1>3. Copies(first \o rest, S) = Copies(first, S) + Copies(rest, S) /\ Copies(rest, S) \in Nat
  BY <1>1, CopiesConcat, CopiesType
<1>4. Copies(s, S) = Copies(rest, S) + IF msg \in S THEN 1 ELSE 0
  <2> HIDE DEF msg
  <2> QED
    BY <1>1, <1>2, <1>3
<1> QED
  BY <1>4 DEF rest

\* What Total counts.
Units(f) == UNION {{x} \X (1 .. f[x]) : x \in DOMAIN f}

LEMMA UnitsIn ==
  ASSUME NEW D, NEW f \in [D -> Nat]
  PROVE  /\ \A x \in D : \A i \in 1 .. f[x] : <<x, i>> \in Units(f)
         /\ \A u \in Units(f) : /\ u[1] \in D /\ u[2] \in 1 .. f[u[1]] /\ u[2] \in Nat
                                /\ u = <<u[1], u[2]>>
<1>1. DOMAIN f = D
  OBVIOUS
<1>2. ASSUME NEW x \in D, NEW i \in 1 .. f[x] PROVE <<x, i>> \in Units(f)
  BY <1>1, <1>2 DEF Units
<1>3. ASSUME NEW u \in Units(f)
      PROVE  u[1] \in D /\ u[2] \in 1 .. f[u[1]] /\ u[2] \in Nat /\ u = <<u[1], u[2]>>
  <2>1. PICK x \in D : u \in {x} \X (1 .. f[x])
    BY <1>1, <1>3 DEF Units
  <2> QED
    BY <2>1
<1> QED
  BY <1>2, <1>3

\* The sum over a finite set is a natural number.
LEMMA TotalType ==
  ASSUME NEW D, IsFiniteSet(D), NEW f \in [D -> Nat]
  PROVE  IsFiniteSet(Units(f)) /\ Total(f) = Cardinality(Units(f)) /\ Total(f) \in Nat
<1> DEFINE pieces == {{x} \X (1 .. f[x]) : x \in D}
           g == [x \in D |-> {x} \X (1 .. f[x])]
<1>1. DOMAIN f = D
  OBVIOUS
<1>2. IsFiniteSet(pieces)
  <2>1. g \in Surjection(D, pieces)
    <3>1. g \in [D -> pieces]
      OBVIOUS
    <3>2. \A t \in pieces : \E x \in D : g[x] = t
      OBVIOUS
    <3> HIDE DEF g, pieces
    <3> QED
      BY <3>1, <3>2 DEF Surjection
  <2> HIDE DEF g, pieces
  <2> QED
    BY <2>1, FS_Surjection
<1>3. \A t \in pieces : IsFiniteSet(t)
  <2> SUFFICES ASSUME NEW x \in D PROVE IsFiniteSet({x} \X (1 .. f[x]))
    OBVIOUS
  <2>1. IsFiniteSet(1 .. f[x]) /\ IsFiniteSet({x})
    <3>1. f[x] \in Int /\ 1 \in Int
      OBVIOUS
    <3> QED
      BY <3>1, FS_Interval, FS_Singleton
  <2> QED
    BY <2>1, FS_Product
<1>4. Units(f) = UNION pieces
  BY <1>1 DEF Units
<1> HIDE DEF pieces
<1>5. IsFiniteSet(Units(f))
  BY <1>2, <1>3, <1>4, FS_UNION
<1> QED
  BY <1>5, FS_CardinalityType DEF Total, Units

\* Sums of sums.
LEMMA TotalAdd ==
  ASSUME NEW D, IsFiniteSet(D), NEW f \in [D -> Nat], NEW g \in [D -> Nat],
         NEW h \in [D -> Nat], \A x \in D : h[x] = f[x] + g[x]
  PROVE  Total(h) = Total(f) + Total(g)
<1> DEFINE above == {u \in Units(h) : u[2] > f[u[1]]}
           move == [u \in Units(g) |-> <<u[1], f[u[1]] + u[2]>>]
<1>1. Units(h) = Units(f) \cup above
  <2>1. ASSUME NEW u \in Units(h) PROVE u \in Units(f) \cup above
    <3>1. u[1] \in D /\ u[2] \in 1 .. h[u[1]] /\ u[2] \in Nat /\ u = <<u[1], u[2]>>
      BY UnitsIn
    <3>2. CASE u[2] <= f[u[1]]
      <4>1. u[2] \in 1 .. f[u[1]]
        BY <3>1, <3>2
      <4> QED
        BY <3>1, <4>1, UnitsIn
    <3>3. CASE ~(u[2] <= f[u[1]])
      BY <3>1, <3>3
    <3> QED
      BY <3>2, <3>3
  <2>2. ASSUME NEW u \in Units(f) PROVE u \in Units(h)
    <3>1. u[1] \in D /\ u[2] \in 1 .. f[u[1]] /\ u = <<u[1], u[2]>>
      BY UnitsIn
    <3>2. u[2] \in 1 .. h[u[1]]
      BY <3>1
    <3> QED
      BY <3>1, <3>2, UnitsIn
  <2> QED
    BY <2>1, <2>2
<1>2. Units(f) \cap above = {}
  <2> SUFFICES ASSUME NEW u \in Units(f), u \in above PROVE FALSE
    OBVIOUS
  <2>1. u[1] \in D /\ u[2] \in 1 .. f[u[1]] /\ u[2] > f[u[1]]
    BY UnitsIn
  <2> QED
    BY <2>1
<1>3. /\ IsFiniteSet(Units(f)) /\ IsFiniteSet(Units(g)) /\ IsFiniteSet(Units(h))
      /\ Total(f) = Cardinality(Units(f)) /\ Total(g) = Cardinality(Units(g))
      /\ Total(h) = Cardinality(Units(h))
  BY TotalType
<1>4. Cardinality(above) = Cardinality(Units(g))
  <2>1. move \in [Units(g) -> above]
    <3> SUFFICES ASSUME NEW u \in Units(g) PROVE <<u[1], f[u[1]] + u[2]>> \in above
      OBVIOUS
    <3>1. u[1] \in D /\ u[2] \in 1 .. g[u[1]] /\ u[2] \in Nat
      BY UnitsIn
    <3>2. f[u[1]] + u[2] \in 1 .. h[u[1]] /\ f[u[1]] + u[2] > f[u[1]]
      BY <3>1
    <3>3. <<u[1], f[u[1]] + u[2]>> \in Units(h)
      BY <3>1, <3>2, UnitsIn
    <3> QED
      BY <3>2, <3>3
  <2>2. \A u, v \in Units(g) : move[u] = move[v] => u = v
    <3> SUFFICES ASSUME NEW u \in Units(g), NEW v \in Units(g), move[u] = move[v] PROVE u = v
      OBVIOUS
    <3>1. /\ u[1] \in D /\ u[2] \in Nat /\ u = <<u[1], u[2]>>
          /\ v[1] \in D /\ v[2] \in Nat /\ v = <<v[1], v[2]>>
      BY UnitsIn
    <3>2. u[1] = v[1] /\ f[u[1]] + u[2] = f[v[1]] + v[2]
      OBVIOUS
    <3>3. u[2] = v[2]
      <4>1. PICK a, b, c \in Nat : a = f[u[1]] /\ b = u[2] /\ c = v[2]
        BY <3>1
      <4>2. a + b = a + c
        BY <3>2, <4>1
      <4>3. b = c
        BY <4>2
      <4> QED
        BY <4>1, <4>3
    <3> QED
      BY <3>1, <3>2, <3>3
  <2>3. \A w \in above : \E u \in Units(g) : move[u] = w
    <3> SUFFICES ASSUME NEW w \in above PROVE \E u \in Units(g) : move[u] = w
      OBVIOUS
    <3>1. w[1] \in D /\ w[2] \in 1 .. h[w[1]] /\ w[2] \in Nat /\ w = <<w[1], w[2]>> /\ w[2] > f[w[1]]
      BY UnitsIn
    <3>2. PICK x \in D, i \in Nat : w = <<x, i>> /\ i <= h[x] /\ i > f[x]
      BY <3>1
    <3>3. i - f[x] \in 1 .. g[x] /\ f[x] + (i - f[x]) = i
      BY <3>2
    <3>4. <<x, i - f[x]>> \in Units(g)
      BY <3>3, UnitsIn
    <3>5. move[<<x, i - f[x]>>] = <<x, f[x] + (i - f[x])>>
      BY <3>4
    <3> QED
      BY <3>2, <3>3, <3>4, <3>5
  <2> HIDE DEF move, above
  <2> QED
    BY <1>3, <2>1, <2>2, <2>3, SameSize
<1>5. IsFiniteSet(above)
  BY <1>3, FS_Subset
<1> HIDE DEF above
<1>6. Cardinality(Units(f) \cup above) = Cardinality(Units(f)) + Cardinality(above)
  BY <1>2, <1>3, <1>5, DisjointSize
<1> QED
  BY <1>1, <1>3, <1>4, <1>6

\* The sum of no more than one value each is a number of elements.
LEMMA TotalOnes ==
  ASSUME NEW D, IsFiniteSet(D), NEW f \in [D -> Nat], \A x \in D : f[x] <= 1
  PROVE  Total(f) = Cardinality({x \in D : f[x] = 1})
<1> DEFINE ones == {x \in D : f[x] = 1}
           g == [x \in ones |-> <<x, 1>>]
<1>1. IsFiniteSet(ones)
  BY FS_Subset
<1>2. g \in [ones -> Units(f)]
  <2> SUFFICES ASSUME NEW x \in ones PROVE <<x, 1>> \in Units(f)
    OBVIOUS
  <2>1. x \in D /\ 1 \in 1 .. f[x]
    OBVIOUS
  <2> QED
    BY <2>1, UnitsIn
<1>3. \A x, y \in ones : g[x] = g[y] => x = y
  OBVIOUS
<1>4. \A u \in Units(f) : \E x \in ones : g[x] = u
  <2> SUFFICES ASSUME NEW u \in Units(f) PROVE u[1] \in ones /\ <<u[1], 1>> = u
    OBVIOUS
  <2>1. u[1] \in D /\ u[2] \in 1 .. f[u[1]] /\ u[2] \in Nat /\ u = <<u[1], u[2]>>
    BY UnitsIn
  <2>2. f[u[1]] \in Nat /\ f[u[1]] <= 1
    BY <2>1
  <2>3. u[2] = 1 /\ f[u[1]] = 1
    BY <2>1, <2>2
  <2> QED
    BY <2>1, <2>3
<1> HIDE DEF g, ones
<1>5. Cardinality(Units(f)) = Cardinality(ones)
  BY <1>1, <1>2, <1>3, <1>4, SameSize
<1> QED
  BY <1>5, TotalType DEF ones

\* The sum of nothing but zeros.
LEMMA TotalZero ==
  ASSUME NEW D, IsFiniteSet(D), NEW f \in [D -> Nat]
  PROVE  Total(f) = 0 <=> \A x \in D : f[x] = 0
<1>1. Units(f) = {} <=> \A x \in D : f[x] = 0
  <2>1. ASSUME NEW x \in D, f[x] # 0 PROVE Units(f) # {}
    <3>1. 1 \in 1 .. f[x]
      BY <2>1
    <3> QED
      BY <3>1, UnitsIn
  <2>2. ASSUME NEW u \in Units(f) PROVE \E x \in D : f[x] # 0
    <3>1. u[1] \in D /\ u[2] \in 1 .. f[u[1]]
      BY UnitsIn
    <3> QED
      BY <3>1
  <2> QED
    BY <2>1, <2>2
<1> QED
  BY <1>1, TotalType, FS_EmptySet

\* The sum with one value only.
LEMMA TotalPoint ==
  ASSUME NEW D, IsFiniteSet(D), NEW f \in [D -> Nat], NEW a \in D, \A x \in D : x # a => f[x] = 0
  PROVE  Total(f) = f[a]
<1>1. Units(f) = {a} \X (1 .. f[a])
  <2>1. ASSUME NEW u \in Units(f) PROVE u \in {a} \X (1 .. f[a])
    <3>1. u[1] \in D /\ u[2] \in 1 .. f[u[1]] /\ u = <<u[1], u[2]>>
      BY UnitsIn
    <3>2. u[1] = a
      BY <3>1
    <3> QED
      BY <3>1, <3>2
  <2>2. ASSUME NEW u \in {a} \X (1 .. f[a]) PROVE u \in Units(f)
    <3>1. u = <<a, u[2]>> /\ u[2] \in 1 .. f[a]
      BY <2>2
    <3> QED
      BY <3>1, UnitsIn
  <2> QED
    BY <2>1, <2>2
<1>2. IsFiniteSet(1 .. f[a]) /\ Cardinality(1 .. f[a]) = f[a]
  <2>1. f[a] \in Int /\ 1 \in Int /\ f[a] >= 0
    OBVIOUS
  <2>2. (IF 1 > f[a] THEN 0 ELSE f[a] - 1 + 1) = f[a]
    BY <2>1
  <2> QED
    BY <2>1, <2>2, FS_Interval
<1>3. IsFiniteSet({a}) /\ Cardinality({a}) = 1
  BY FS_Singleton
<1>4. Cardinality({a} \X (1 .. f[a])) = Cardinality({a}) * Cardinality(1 .. f[a])
  BY <1>2, <1>3, FS_Product
<1>5. f[a] \in Nat /\ 1 * f[a] = f[a]
  OBVIOUS
<1>6. Cardinality(Units(f)) = f[a]
  BY <1>1, <1>2, <1>3, <1>4, <1>5
<1> QED
  BY <1>6, TotalType

\* The sum after one value has changed.
LEMMA TotalChange ==
  ASSUME NEW D, IsFiniteSet(D), NEW f \in [D -> Nat], NEW g \in [D -> Nat], NEW a \in D,
         \A x \in D : x # a => g[x] = f[x]
  PROVE  Total(g) + f[a] = Total(f) + g[a]
<1> DEFINE rest == [x \in D |-> IF x = a THEN 0 ELSE f[x]]
           fa == [x \in D |-> IF x = a THEN f[a] ELSE 0]
           ga == [x \in D |-> IF x = a THEN g[a] ELSE 0]
<1>1. rest \in [D -> Nat] /\ fa \in [D -> Nat] /\ ga \in [D -> Nat]
  OBVIOUS
<1>2. (\A x \in D : f[x] = rest[x] + fa[x]) /\ (\A x \in D : g[x] = rest[x] + ga[x])
  OBVIOUS
<1>3. /\ fa[a] = f[a] /\ \A x \in D : x # a => fa[x] = 0
      /\ ga[a] = g[a] /\ \A x \in D : x # a => ga[x] = 0
  OBVIOUS
<1> HIDE DEF rest, fa, ga
<1>4. Total(f) = Total(rest) + Total(fa) /\ Total(g) = Total(rest) + Total(ga)
  BY <1>1, <1>2, TotalAdd
<1>5. Total(fa) = f[a] /\ Total(ga) = g[a]
  BY <1>1, <1>3, TotalPoint
<1>6. Total(rest) \in Nat /\ f[a] \in Nat /\ g[a] \in Nat
  BY <1>1, TotalType
<1> QED
  BY <1>4, <1>5, <1>6

\* A smaller function has a smaller sum.
LEMMA TotalOrder ==
  ASSUME NEW D, IsFiniteSet(D), NEW f \in [D -> Nat], NEW g \in [D -> Nat], \A x \in D : f[x] <= g[x]
  PROVE  Total(f) <= Total(g) /\ (Total(f) = Total(g) => f = g)
<1> DEFINE d == [x \in D |-> g[x] - f[x]]
<1>1. d \in [D -> Nat] /\ \A x \in D : g[x] = f[x] + d[x]
  OBVIOUS
<1>2. \A x \in D : d[x] = 0 => g[x] = f[x]
  OBVIOUS
<1> HIDE DEF d
<1>3. Total(g) = Total(f) + Total(d) /\ Total(d) \in Nat /\ Total(f) \in Nat
  BY <1>1, TotalAdd, TotalType
<1>4. Total(f) = Total(g) => \A x \in D : d[x] = 0
  BY <1>1, <1>3, TotalZero
<1>5. Total(f) = Total(g) => f = g
  BY <1>2, <1>4
<1> QED
  BY <1>3, <1>5

\* How many messages of S a handler sends, and how many are under way altogether.
Load(out, S) == Total([r \in Node |-> Copies(out[r], S)])
Traffic(net, S) == Total([e \in Node \X Node |-> InFlight(net, e[1], e[2], S)])

LEMMA LoadType ==
  ASSUME NEW M, IsFiniteSet(Node), NEW out \in Outgoing(M), NEW S
  PROVE  Load(out, S) \in Nat /\ [r \in Node |-> Copies(out[r], S)] \in [Node -> Nat]
<1>1. \A r \in Node : Copies(out[r], S) \in Nat
  BY CopiesType DEF Outgoing
<1>2. [r \in Node |-> Copies(out[r], S)] \in [Node -> Nat]
  BY <1>1
<1> QED
  BY <1>2, TotalType DEF Load

\* One copy to each of some nodes, or to nobody.
LEMMA LoadTo ==
  ASSUME IsFiniteSet(Node), NEW R \in SUBSET Node, NEW msg, NEW S
  PROVE  /\ Load(Nothing, S) = 0
         /\ Load(To(R, msg), S) = IF msg \in S THEN Cardinality(R) ELSE 0
<1>1. Load(Nothing, S) = 0
  <2> DEFINE f == [r \in Node |-> Copies(Nothing[r], S)]
  <2>1. \A r \in Node : f[r] = 0
    BY CopiesFew DEF Nothing
  <2>2. f \in [Node -> Nat]
    BY <2>1
  <2> HIDE DEF f
  <2>3. Total(f) = 0
    BY <2>1, <2>2, TotalZero
  <2> QED
    BY <2>3 DEF f, Load
<1>2. Load(To(R, msg), S) = IF msg \in S THEN Cardinality(R) ELSE 0
  <2> DEFINE f == [r \in Node |-> Copies(To(R, msg)[r], S)]
  <2>1. \A r \in Node : f[r] = IF r \in R /\ msg \in S THEN 1 ELSE 0
    <3> SUFFICES ASSUME NEW r \in Node
                 PROVE  Copies(To(R, msg)[r], S) = IF r \in R /\ msg \in S THEN 1 ELSE 0
      OBVIOUS
    <3>1. CASE r \in R
      BY <3>1, CopiesFew DEF To
    <3>2. CASE r \notin R
      BY <3>2, CopiesFew DEF To
    <3> QED
      BY <3>1, <3>2
  <2>2. f \in [Node -> Nat] /\ \A r \in Node : f[r] <= 1
    <3>1. f = [r \in Node |-> f[r]]
      OBVIOUS
    <3> HIDE DEF f
    <3> QED
      BY <2>1, <3>1
  <2> HIDE DEF f
  <2>3. Total(f) = Cardinality({r \in Node : f[r] = 1})
    BY <2>2, TotalOnes
  <2>4. {r \in Node : f[r] = 1} = IF msg \in S THEN R ELSE {}
    BY <2>1
  <2>5. Total(f) = IF msg \in S THEN Cardinality(R) ELSE 0
    BY <2>3, <2>4, FS_EmptySet
  <2> QED
    BY <2>5 DEF f, Load
<1> QED
  BY <1>1, <1>2

\* A handler that sends twice.
LEMMA LoadThen ==
  ASSUME NEW M, IsFiniteSet(Node), NEW out1 \in Outgoing(M), NEW out2 \in Outgoing(M), NEW S
  PROVE  Load(Then(out1, out2), S) = Load(out1, S) + Load(out2, S)
<1> DEFINE f1 == [r \in Node |-> Copies(out1[r], S)]
           f2 == [r \in Node |-> Copies(out2[r], S)]
           f == [r \in Node |-> Copies(Then(out1, out2)[r], S)]
<1>1. f1 \in [Node -> Nat] /\ f2 \in [Node -> Nat] /\ f \in [Node -> Nat]
  BY LoadType, ThenType
<1>2. \A r \in Node : f[r] = f1[r] + f2[r]
  BY CopiesConcat DEF Then, Outgoing
<1> HIDE DEF f, f1, f2
<1>3. Total(f) = Total(f1) + Total(f2)
  BY <1>1, <1>2, TotalAdd
<1> QED
  BY <1>3 DEF f, f1, f2, Load

\* What a handler sends to one node.
LEMMA CopiesOut ==
  ASSUME NEW r \in Node, NEW S
  PROVE  /\ Copies(Nothing[r], S) = 0
         /\ \A R, msg : Copies(To(R, msg)[r], S) = IF r \in R /\ msg \in S THEN 1 ELSE 0
<1>1. Copies(Nothing[r], S) = 0
  BY CopiesFew DEF Nothing
<1>2. ASSUME NEW R, NEW msg PROVE Copies(To(R, msg)[r], S) = IF r \in R /\ msg \in S THEN 1 ELSE 0
  <2>1. CASE r \in R
    BY <2>1, CopiesFew DEF To
  <2>2. CASE r \notin R
    BY <2>2, CopiesFew DEF To
  <2> QED
    BY <2>1, <2>2
<1> QED
  BY <1>1, <1>2

LEMMA CopiesThen ==
  ASSUME NEW M, NEW out1 \in Outgoing(M), NEW out2 \in Outgoing(M), NEW r \in Node, NEW S
  PROVE  /\ Copies(Then(out1, out2)[r], S) = Copies(out1[r], S) + Copies(out2[r], S)
         /\ Copies(out1[r], S) \in Nat /\ Copies(out2[r], S) \in Nat
<1>1. out1[r] \in Seq(M) /\ out2[r] \in Seq(M)
  BY DEF Outgoing
<1> QED
  BY <1>1, CopiesConcat, CopiesType DEF Then

\* What is under way from p to r after a handler has run.
LEMMA FlightSent ==
  ASSUME NEW M, NEW net \in Channels(M), NEW n \in Node, NEW out \in Outgoing(M),
         NEW p \in Node, NEW r \in Node, NEW S
  PROVE  /\ InFlight(Sent(net, n, out), p, r, S)
              = InFlight(net, p, r, S) + IF p = n THEN Copies(out[r], S) ELSE 0
         /\ InFlight(net, p, r, S) \in Nat /\ Copies(out[r], S) \in Nat
<1>1. Sent(net, n, out)[p][r] = IF p = n THEN net[n][r] \o out[r] ELSE net[p][r]
  BY SentAt
<1>2. /\ net[p][r] \in Seq(M) /\ out[r] \in Seq(M)
      /\ Copies(net[p][r], S) \in Nat /\ Copies(out[r], S) \in Nat
  BY CopiesType DEF Channels, Outgoing
<1>3. CASE p = n
  BY <1>1, <1>2, <1>3, CopiesConcat DEF InFlight
<1>4. CASE p # n
  BY <1>1, <1>2, <1>4 DEF InFlight
<1> QED
  BY <1>3, <1>4

LEMMA FlightTaken ==
  ASSUME NEW M, NEW net \in Channels(M), NEW q \in Node, NEW n \in Node, net[q][n] # <<>>,
         NEW p \in Node, NEW r \in Node, NEW S
  PROVE  /\ InFlight(net, p, r, S) = InFlight(Taken(net, q, n), p, r, S)
              + IF p = q /\ r = n /\ Head(net[q][n]) \in S THEN 1 ELSE 0
         /\ InFlight(net, p, r, S) \in Nat /\ InFlight(Taken(net, q, n), p, r, S) \in Nat
<1>1. Taken(net, q, n)[p][r] = (IF p = q /\ r = n THEN Tail(net[q][n]) ELSE net[p][r])
      /\ Taken(net, q, n) \in Channels(M)
  BY TakenAt
<1>2. net[p][r] \in Seq(M) /\ Taken(net, q, n)[p][r] \in Seq(M)
  BY <1>1 DEF Channels, Outgoing
<1>3. InFlight(net, p, r, S) \in Nat /\ InFlight(Taken(net, q, n), p, r, S) \in Nat
  BY <1>2, CopiesType DEF InFlight
<1>4. CASE p = q /\ r = n
  <2>1. Copies(net[q][n], S) = Copies(Tail(net[q][n]), S) + IF Head(net[q][n]) \in S THEN 1 ELSE 0
    BY <1>2, <1>4, CopiesTail
  <2>2. Taken(net, q, n)[p][r] = Tail(net[q][n])
    BY <1>1, <1>4
  <2> QED
    BY <1>3, <1>4, <2>1, <2>2 DEF InFlight
<1>5. CASE ~(p = q /\ r = n)
  BY <1>1, <1>3, <1>5 DEF InFlight
<1> QED
  BY <1>3, <1>4, <1>5

LEMMA FlightExchanged ==
  ASSUME NEW M, NEW net \in Channels(M), NEW q \in Node, NEW n \in Node, net[q][n] # <<>>,
         NEW out \in Outgoing(M), NEW p \in Node, NEW r \in Node, NEW S
  PROVE  /\ InFlight(Exchanged(net, q, n, out), p, r, S)
              + (IF p = q /\ r = n /\ Head(net[q][n]) \in S THEN 1 ELSE 0)
              = InFlight(net, p, r, S) + (IF p = n THEN Copies(out[r], S) ELSE 0)
         /\ InFlight(Exchanged(net, q, n, out), p, r, S) \in Nat /\ InFlight(net, p, r, S) \in Nat
         /\ Copies(out[r], S) \in Nat
<1> DEFINE net2 == Taken(net, q, n)
           less == IF p = q /\ r = n /\ Head(net[q][n]) \in S THEN 1 ELSE 0
           more == IF p = n THEN Copies(out[r], S) ELSE 0
<1>1. net2 \in Channels(M)
  BY TakenAt
<1>2. InFlight(net, p, r, S) = InFlight(net2, p, r, S) + less
      /\ InFlight(net, p, r, S) \in Nat /\ InFlight(net2, p, r, S) \in Nat
  BY FlightTaken
<1> HIDE DEF net2
<1>3. /\ InFlight(Sent(net2, n, out), p, r, S) = InFlight(net2, p, r, S) + more
      /\ Copies(out[r], S) \in Nat
  BY <1>1, FlightSent
<1>4. less \in Nat /\ more \in Nat
  BY <1>3
<1> HIDE DEF less, more
<1>5. InFlight(Sent(net2, n, out), p, r, S) + less = InFlight(net, p, r, S) + more
      /\ InFlight(Sent(net2, n, out), p, r, S) \in Nat
  BY <1>2, <1>3, <1>4
<1> QED
  BY <1>2, <1>3, <1>5 DEF net2, less, more, Exchanged

\* Everything under way was under way before or is sent.
LEMMA ExchangedElements ==
  ASSUME NEW M, NEW net \in Channels(M), NEW q \in Node, NEW n \in Node, net[q][n] # <<>>,
         NEW out \in Outgoing(M), NEW p \in Node, NEW r \in Node,
         NEW i \in DOMAIN Exchanged(net, q, n, out)[p][r]
  PROVE  \/ \E j \in DOMAIN net[p][r] : Exchanged(net, q, n, out)[p][r][i] = net[p][r][j]
         \/ p = n /\ \E j \in DOMAIN out[r] : Exchanged(net, q, n, out)[p][r][i] = out[r][j]
<1> DEFINE net2 == Taken(net, q, n)
<1>1. /\ net2 \in Channels(M)
      /\ \A j \in DOMAIN net2[p][r] : \E k \in DOMAIN net[p][r] : net2[p][r][j] = net[p][r][k]
  <2>1. net2 \in Channels(M) /\ net2[p][r] = IF p = q /\ r = n THEN Tail(net[q][n]) ELSE net[p][r]
    BY TakenAt
  <2>2. net[q][n] \in Seq(M)
    BY DEF Channels, Outgoing
  <2> HIDE DEF net2
  <2>3. CASE p = q /\ r = n
    BY <2>1, <2>2, <2>3, Uncons
  <2>4. CASE ~(p = q /\ r = n)
    BY <2>1, <2>4
  <2> QED
    BY <2>1, <2>3, <2>4
<1>2. i \in DOMAIN Sent(net2, n, out)[p][r]
  BY DEF Exchanged
<1> HIDE DEF net2
<1>3. Sent(net2, n, out)[p][r] = IF p = n THEN net2[p][r] \o out[r] ELSE net2[p][r]
  BY <1>1, SentAt
<1>4. net2[p][r] \in Seq(M) /\ out[r] \in Seq(M)
  BY <1>1 DEF Channels, Outgoing
<1>5. CASE p # n
  BY <1>1, <1>2, <1>3, <1>5 DEF Exchanged, net2
<1>6. CASE p = n
  <2>0. PICK s, t \in Seq(M) : s = net2[p][r] /\ t = out[r]
    BY <1>4
  <2>1. i \in DOMAIN (s \o t) /\ Sent(net2, n, out)[p][r][i] = (s \o t)[i]
    BY <1>2, <1>3, <1>6, <2>0
  <2>2. \/ i \in DOMAIN s /\ (s \o t)[i] = s[i]
        \/ i - Len(s) \in DOMAIN t /\ (s \o t)[i] = t[i - Len(s)]
    BY <2>1, Concat
  <2>3. \/ i \in DOMAIN net2[p][r] /\ Sent(net2, n, out)[p][r][i] = net2[p][r][i]
        \/ \E j \in DOMAIN out[r] : Sent(net2, n, out)[p][r][i] = out[r][j]
    BY <2>0, <2>1, <2>2
  <2> QED
    BY <1>1, <1>6, <2>3 DEF Exchanged, net2
<1> QED
  BY <1>5, <1>6

\* All channels together.
LEMMA TrafficType ==
  ASSUME NEW M, IsFiniteSet(Node), NEW net \in Channels(M), NEW S
  PROVE  /\ Traffic(net, S) \in Nat /\ IsFiniteSet(Node \X Node)
         /\ [e \in Node \X Node |-> InFlight(net, e[1], e[2], S)] \in [Node \X Node -> Nat]
         /\ \A p, r \in Node : InFlight(net, p, r, S) = Copies(net[p][r], S) /\ InFlight(net, p, r, S) \in Nat
<1>1. ASSUME NEW p \in Node, NEW r \in Node
      PROVE  InFlight(net, p, r, S) = Copies(net[p][r], S) /\ InFlight(net, p, r, S) \in Nat
  BY CopiesType DEF Channels, Outgoing, InFlight
<1>2. [e \in Node \X Node |-> InFlight(net, e[1], e[2], S)] \in [Node \X Node -> Nat]
  <2> SUFFICES ASSUME NEW e \in Node \X Node PROVE InFlight(net, e[1], e[2], S) \in Nat
    OBVIOUS
  <2> QED
    BY <1>1
<1>3. IsFiniteSet(Node \X Node)
  BY FS_Product
<1> QED
  BY <1>1, <1>2, <1>3, TotalType DEF Traffic

\* What is sent is under way.
LEMMA TrafficSent ==
  ASSUME NEW M, IsFiniteSet(Node), NEW net \in Channels(M), NEW n \in Node, NEW out \in Outgoing(M), NEW S
  PROVE  Traffic(Sent(net, n, out), S) = Traffic(net, S) + Load(out, S)
<1> DEFINE E == Node \X Node
           before == [e \in E |-> InFlight(net, e[1], e[2], S)]
           after == [e \in E |-> InFlight(Sent(net, n, out), e[1], e[2], S)]
           row == [e \in E |-> IF e[1] = n THEN Copies(out[e[2]], S) ELSE 0]
           sent == [r \in Node |-> Copies(out[r], S)]
           f == [u \in Units(sent) |-> <<<<n, u[1]>>, u[2]>>]
<1>1. Sent(net, n, out) \in Channels(M)
  BY SentAt
<1>2. before \in [E -> Nat] /\ after \in [E -> Nat] /\ sent \in [Node -> Nat] /\ IsFiniteSet(E)
  <2>1. before \in [E -> Nat] /\ IsFiniteSet(E)
    BY TrafficType
  <2>2. after \in [E -> Nat]
    BY <1>1, TrafficType
  <2>3. sent \in [Node -> Nat]
    BY LoadType
  <2> QED
    BY <2>1, <2>2, <2>3
<1>3. \A r \in Node : Copies(out[r], S) \in Nat
  BY CopiesType DEF Outgoing
<1>4. row \in [E -> Nat]
  <2> SUFFICES ASSUME NEW e \in E PROVE (IF e[1] = n THEN Copies(out[e[2]], S) ELSE 0) \in Nat
    OBVIOUS
  <2>1. e[2] \in Node
    OBVIOUS
  <2> QED
    BY <1>3, <2>1
<1>5. \A e \in E : after[e] = before[e] + row[e]
  <2> SUFFICES ASSUME NEW p \in Node, NEW r \in Node
               PROVE  InFlight(Sent(net, n, out), p, r, S)
                        = InFlight(net, p, r, S) + IF p = n THEN Copies(out[r], S) ELSE 0
    OBVIOUS
  <2> QED
    BY FlightSent
<1>6. \A r \in Node : row[<<n, r>>] = sent[r]
  OBVIOUS
<1>7. \A e \in E : row[e] # 0 => e[1] = n
  OBVIOUS
<1> HIDE DEF before, after, row, sent
<1>8. Total(after) = Total(before) + Total(row)
  BY <1>2, <1>4, <1>5, TotalAdd
<1>9. Total(row) = Total(sent)
  <2>1. f \in [Units(sent) -> Units(row)]
    <3> SUFFICES ASSUME NEW u \in Units(sent) PROVE <<<<n, u[1]>>, u[2]>> \in Units(row)
      OBVIOUS
    <3>1. u[1] \in Node /\ u[2] \in 1 .. sent[u[1]]
      BY <1>2, UnitsIn
    <3>2. <<n, u[1]>> \in E /\ u[2] \in 1 .. row[<<n, u[1]>>]
      BY <1>6, <3>1
    <3> QED
      BY <1>4, <3>2, UnitsIn
  <2>2. \A u, v \in Units(sent) : f[u] = f[v] => u = v
    <3> SUFFICES ASSUME NEW u \in Units(sent), NEW v \in Units(sent), f[u] = f[v] PROVE u = v
      OBVIOUS
    <3>1. u = <<u[1], u[2]>> /\ v = <<v[1], v[2]>>
      BY <1>2, UnitsIn
    <3>2. u[1] = v[1] /\ u[2] = v[2]
      OBVIOUS
    <3> QED
      BY <3>1, <3>2
  <2>3. \A w \in Units(row) : \E u \in Units(sent) : f[u] = w
    <3> SUFFICES ASSUME NEW w \in Units(row) PROVE \E u \in Units(sent) : f[u] = w
      OBVIOUS
    <3>1. w[1] \in E /\ w[2] \in 1 .. row[w[1]] /\ w = <<w[1], w[2]>>
      BY <1>4, UnitsIn
    <3>2. row[w[1]] \in Nat /\ row[w[1]] # 0
      BY <1>4, <3>1
    <3>3. PICK r \in Node : w[1] = <<n, r>>
      BY <1>7, <3>1, <3>2
    <3>4. w[2] \in 1 .. sent[r] /\ w = <<<<n, r>>, w[2]>>
      BY <1>6, <3>1, <3>3
    <3>5. <<r, w[2]>> \in Units(sent)
      BY <1>2, <3>4, UnitsIn
    <3>6. f[<<r, w[2]>>] = <<<<n, r>>, w[2]>>
      BY <3>5
    <3> QED
      BY <3>4, <3>5, <3>6
  <2>4. IsFiniteSet(Units(sent)) /\ Total(sent) = Cardinality(Units(sent))
    BY <1>2, TotalType
  <2> HIDE DEF f, E
  <2>5. Cardinality(Units(row)) = Cardinality(Units(sent))
    BY <2>1, <2>2, <2>3, <2>4, SameSize
  <2> QED
    BY <1>2, <1>4, <2>4, <2>5, TotalType
<1> QED
  BY <1>8, <1>9 DEF before, after, sent, Traffic, Load

\* What is taken is not under way any more.
LEMMA TrafficTaken ==
  ASSUME NEW M, IsFiniteSet(Node), NEW net \in Channels(M), NEW q \in Node, NEW n \in Node,
         net[q][n] # <<>>, NEW S
  PROVE  Traffic(net, S) = Traffic(Taken(net, q, n), S) + IF Head(net[q][n]) \in S THEN 1 ELSE 0
<1> DEFINE E == Node \X Node
           before == [e \in E |-> InFlight(net, e[1], e[2], S)]
           after == [e \in E |-> InFlight(Taken(net, q, n), e[1], e[2], S)]
           less == IF Head(net[q][n]) \in S THEN 1 ELSE 0
<1>1. Taken(net, q, n) \in Channels(M)
  BY TakenAt
<1>2. before \in [E -> Nat] /\ after \in [E -> Nat] /\ IsFiniteSet(E)
  BY <1>1, TrafficType
<1>3. net[q][n] \in Seq(M)
  BY DEF Channels, Outgoing
<1>4. before[<<q, n>>] = after[<<q, n>>] + less
  BY <1>3, TakenAt, CopiesTail DEF InFlight
<1>5. \A e \in E : e # <<q, n>> => after[e] = before[e]
  <2> SUFFICES ASSUME NEW p \in Node, NEW r \in Node, <<p, r>> # <<q, n>>
               PROVE  InFlight(Taken(net, q, n), p, r, S) = InFlight(net, p, r, S)
    OBVIOUS
  <2> QED
    BY TakenAt DEF InFlight
<1>6. <<q, n>> \in E
  OBVIOUS
<1> HIDE DEF E, before, after
<1>7. Total(after) + before[<<q, n>>] = Total(before) + after[<<q, n>>]
  <2>1. PICK a \in E : a = <<q, n>>
    BY <1>6
  <2>2. \A e \in E : e # a => after[e] = before[e]
    BY <1>5, <2>1
  <2>3. Total(after) + before[a] = Total(before) + after[a]
    BY <1>2, <2>2, TotalChange
  <2> QED
    BY <2>1, <2>3
<1>8. /\ Total(after) \in Nat /\ Total(before) \in Nat
      /\ before[<<q, n>>] \in Nat /\ after[<<q, n>>] \in Nat /\ less \in Nat
  BY <1>2, <1>6, TotalType
<1>9. Total(before) = Total(after) + less
  BY <1>4, <1>7, <1>8
<1> QED
  BY <1>9 DEF before, after, E, Traffic

\* Both.
LEMMA TrafficExchanged ==
  ASSUME NEW M, IsFiniteSet(Node), NEW net \in Channels(M), NEW q \in Node, NEW n \in Node,
         net[q][n] # <<>>, NEW out \in Outgoing(M), NEW S
  PROVE  Traffic(Exchanged(net, q, n, out), S) + (IF Head(net[q][n]) \in S THEN 1 ELSE 0)
           = Traffic(net, S) + Load(out, S)
<1> DEFINE net2 == Taken(net, q, n)
<1>1. net2 \in Channels(M)
  BY TakenAt
<1>2. Traffic(net, S) = Traffic(net2, S) + IF Head(net[q][n]) \in S THEN 1 ELSE 0
  BY TrafficTaken
<1> HIDE DEF net2
<1>3. Traffic(Sent(net2, n, out), S) = Traffic(net2, S) + Load(out, S)
  BY <1>1, TrafficSent
<1>4. Traffic(net, S) \in Nat /\ Traffic(net2, S) \in Nat /\ Load(out, S) \in Nat
  BY <1>1, TrafficType, LoadType
<1>5. Traffic(Sent(net2, n, out), S) + (IF Head(net[q][n]) \in S THEN 1 ELSE 0) = Traffic(net, S) + Load(out, S)
  BY <1>2, <1>3, <1>4
<1> QED
  BY <1>5 DEF Exchanged, net2

\* A handler that sends none.
LEMMA LoadNone ==
  ASSUME NEW M, IsFiniteSet(Node), NEW out \in Outgoing(M), NEW S,
         \A r \in Node : \A i \in DOMAIN out[r] : out[r][i] \notin S
  PROVE  Load(out, S) = 0
<1> DEFINE f == [r \in Node |-> Copies(out[r], S)]
<1>1. f \in [Node -> Nat]
  BY LoadType
<1>2. \A r \in Node : f[r] = 0
  <2> SUFFICES ASSUME NEW r \in Node PROVE Copies(out[r], S) = 0
    OBVIOUS
  <2>1. out[r] \in Seq(M)
    BY DEF Outgoing
  <2> QED
    BY <2>1, CopiesType
<1> HIDE DEF f
<1>3. Total(f) = 0
  BY <1>1, <1>2, TotalZero
<1> QED
  BY <1>3 DEF f, Load
=============================================================================
