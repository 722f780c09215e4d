------------------------- MODULE BankingLockProofs -------------------------
(***************************************************************************)
(* How the lock of the transactions is handed over, on every spanning      *)
(* tree: one node at a time has it (LockAlone), the floods of one          *)
(* transaction come in order (FloodsInOrder), what comes over the tree is  *)
(* the holder's own answer (StrayShortcuts), the balances of both nodes    *)
(* are updated (BothUpdated), and a complete snapshot that no transaction  *)
(* disturbed has no half of one (TargetsIncluded).                         *)
(***************************************************************************)
EXTENDS BankingProofs

-----------------------------------------------------------------------------
(***************************************************************************)
(* The tree.  Whoever goes from a node of Below(c) to its parent, and on,  *)
(* comes by c; Beyond(p, r) are the nodes that what p sends to r along the *)
(* tree is on its way to.                                                  *)
(***************************************************************************)
Rising(S) == \A y \in S \ {Leader} : Parent[y] \in S
Below(c) == {x \in Node : \A S \in SUBSET Node : x \in S /\ Rising(S) => c \in S}
Beyond(p, r) == IF r # Leader /\ Parent[r] = p THEN Below(r) ELSE Node \ Below(p)

\* The parent of a node is below the same nodes, but for the node itself.
LEMMA BelowParent ==
  ASSUME NEW c \in Node, NEW y \in Node, y # Leader
  PROVE  /\ Parent[y] \in Node
         /\ Parent[y] \in Below(c) => y \in Below(c)
         /\ y \in Below(c) /\ y # c => Parent[y] \in Below(c)
<1>1. Parent[y] \in Node
  BY ParentAssumption
<1>2. ASSUME Parent[y] \in Below(c) PROVE y \in Below(c)
  <2> SUFFICES ASSUME NEW S \in SUBSET Node, y \in S, Rising(S) PROVE c \in S
    BY DEF Below
  <2>1. Parent[y] \in S
    BY DEF Rising
  <2> QED
    BY <1>2, <2>1 DEF Below
<1>3. ASSUME y \in Below(c), y # c PROVE Parent[y] \in Below(c)
  <2> SUFFICES ASSUME NEW S \in SUBSET Node, Parent[y] \in S, Rising(S) PROVE c \in S
    BY <1>1 DEF Below
  <2>1. PICK T : T = S \cup {y}
    OBVIOUS
  <2>2. T \in SUBSET Node /\ y \in T /\ Rising(T)
    BY <2>1 DEF Rising
  <2>3. c \in T
    BY <1>3, <2>2 DEF Below
  <2> QED
    BY <1>3, <2>1, <2>3
<1> QED
  BY <1>1, <1>2, <1>3

\* Every node is below itself, nobody's parent is below it, and everybody is below the coordinator.
LEMMA BelowSelf ==
  ASSUME NEW c \in Node
  PROVE  /\ c \in Below(c) /\ Below(c) \subseteq Node
         /\ c = Leader => Below(c) = Node
         /\ c # Leader => Leader \notin Below(c) /\ Parent[c] \notin Below(c)
<1>1. c \in Below(c) /\ Below(c) \subseteq Node
  BY DEF Below
<1>2. ASSUME c = Leader PROVE Below(c) = Node
  <2> SUFFICES ASSUME NEW x \in Node, NEW S \in SUBSET Node, x \in S, Rising(S) PROVE Leader \in S
    BY <1>1, <1>2 DEF Below
  <2>1. S # {} /\ \A y \in S \ {Leader} : Parent[y] \in S
    BY DEF Rising
  <2> QED
    BY <2>1, SpanningAssumption
<1>3. ASSUME c # Leader PROVE Leader \notin Below(c)
  <2>1. PICK T : T = {Leader}
    OBVIOUS
  <2>2. T \in SUBSET Node /\ Leader \in T /\ Rising(T)
    BY <2>1, NodeAssumption DEF Rising
  <2>3. c \notin T
    BY <1>3, <2>1
  <2> QED
    BY <2>2, <2>3 DEF Below
<1>4. ASSUME c # Leader, Parent[c] \in Below(c) PROVE FALSE
  <2>1. ASSUME NEW y \in Below(c) \ {Leader} PROVE Parent[y] \in Below(c)
    BY <1>1, <1>4, <2>1, BelowParent
  <2>2. Leader \in Below(c)
    BY <1>1, <2>1, SpanningAssumption
  <2> QED
    BY <1>3, <1>4, <2>2
<1> QED
  BY <1>1, <1>2, <1>3, <1>4

\* What is below a node, and is not the node, is below a child of it, and only one.
LEMMA BelowChilds ==
  ASSUME NEW n \in Node
  PROVE  /\ \A w \in Below(n) : w = n \/ \E c \in Childs(n) : w \in Below(c)
         /\ \A c \in Childs(n) : Below(c) \subseteq Below(n) \ {n}
         /\ \A c, d \in Childs(n) : c # d => Below(c) \cap Below(d) = {}
<1>1. \A c \in Childs(n) : c \in Node /\ c # Leader /\ Parent[c] = n
  BY DEF Childs
<1>2. ASSUME NEW w \in Below(n), w # n, \A c \in Childs(n) : w \notin Below(c) PROVE FALSE
  <2>1. PICK S : S = {y \in Node \ {n} : \A c \in Childs(n) : y \notin Below(c)}
    OBVIOUS
  <2>2. S \in SUBSET Node /\ w \in S /\ n \notin S
    BY <1>2, <2>1, BelowSelf
  <2>3. ASSUME NEW y \in S \ {Leader} PROVE Parent[y] \in S
    <3>1. y \in Node /\ y # Leader /\ y # n /\ \A c \in Childs(n) : y \notin Below(c)
      BY <2>1, <2>3
    <3>2. Parent[y] # n
      BY <3>1, BelowSelf DEF Childs
    <3>3. Parent[y] \in Node /\ \A c \in Childs(n) : Parent[y] \notin Below(c)
      BY <1>1, <3>1, BelowParent
    <3> QED
      BY <2>1, <3>2, <3>3
  <2> QED
    BY <1>2, <2>2, <2>3 DEF Below, Rising
<1>3. ASSUME NEW c \in Childs(n) PROVE Below(c) \subseteq Below(n) \ {n}
  <2>1. n \notin Below(c)
    BY <1>1, BelowSelf
  <2>2. c \in Below(n)
    BY <1>1, BelowSelf, BelowParent
  <2>3. ASSUME NEW x \in Below(c), NEW S \in SUBSET Node, x \in S, Rising(S) PROVE n \in S
    <3>1. c \in S
      BY <2>3 DEF Below
    <3> QED
      BY <1>1, <2>3, <3>1 DEF Rising
  <2> QED
    BY <2>1, <2>3 DEF Below
<1>4. ASSUME NEW c \in Childs(n), NEW d \in Childs(n), c # d, Below(c) \cap Below(d) # {} PROVE FALSE
  <2>1. PICK S : S = Below(c) \cap Below(d)
    OBVIOUS
  <2>2. c \notin S /\ d \notin S /\ Leader \notin S
    BY <1>1, <1>4, <2>1, BelowParent, BelowSelf
  <2>3. ASSUME NEW y \in S \ {Leader} PROVE Parent[y] \in S
    BY <1>1, <2>1, <2>2, <2>3, BelowParent, BelowSelf
  <2>4. S \in SUBSET Node /\ S # {}
    BY <1>4, <2>1, BelowSelf, <1>1
  <2> QED
    BY <2>2, <2>3, <2>4, SpanningAssumption
<1> QED
  BY <1>2, <1>3, <1>4

\* The two directions of an edge divide the nodes.  Of the edges of a node exactly one leads
\* to each other node, and what goes on from r leads to nodes it was on its way to.
LEMMA Edges ==
  ASSUME NEW p \in Node, NEW r \in Tree(p)
  PROVE  /\ r \in Node /\ p \in Tree(r) /\ r # p /\ r \in Beyond(p, r) /\ p \notin Beyond(p, r)
         /\ Beyond(p, r) \subseteq Node /\ Beyond(p, r) \cap Beyond(r, p) = {}
         /\ \A s \in Tree(r) : s # p => Beyond(r, s) \subseteq Beyond(p, r) \ {r}
         /\ \A s \in Tree(p) : s # r => Beyond(p, s) \cap Beyond(p, r) = {}
<1>1. r \in Node
  BY TreeNodes
<1>2. CASE r # Leader /\ Parent[r] = p
  <2>1. p \notin Below(r) /\ r \in Below(r) /\ Below(r) \subseteq Node
    BY <1>1, <1>2, BelowSelf
  <2>2. Beyond(p, r) = Below(r) /\ p \in Tree(r)
    BY <1>2 DEF Beyond, Tree
  <2>3. Beyond(r, p) = Node \ Below(r)
    <3>1. ~ (p # Leader /\ Parent[p] = r)
      BY <1>1, <1>2, <2>1, BelowParent
    <3> QED
      BY <3>1 DEF Beyond
  <2>4. ASSUME NEW s \in Tree(r), s # p PROVE Beyond(r, s) \subseteq Below(r) \ {r}
    <3>1. s \in Childs(r)
      BY <1>2, <2>4 DEF Tree
    <3>2. Beyond(r, s) = Below(s)
      BY <3>1 DEF Beyond, Childs
    <3> QED
      BY <1>1, <3>1, <3>2, BelowChilds
  <2>5. ASSUME NEW s \in Tree(p), s # r PROVE Beyond(p, s) \cap Below(r) = {}
    <3>1. r \in Childs(p)
      BY <1>1, <1>2 DEF Childs
    <3>2. CASE s \in Childs(p)
      <4>1. Beyond(p, s) = Below(s)
        BY <3>2 DEF Beyond, Childs
      <4> QED
        BY <2>5, <3>1, <3>2, <4>1, BelowChilds
    <3>3. CASE s \notin Childs(p)
      <4>1. s \in Node
        BY <2>5, TreeNodes
      <4>2. Beyond(p, s) = Node \ Below(p)
        BY <3>3, <4>1 DEF Beyond, Childs
      <4> QED
        BY <3>1, <4>2, BelowChilds
    <3> QED
      BY <3>2, <3>3
  <2> QED
    BY <1>1, <2>1, <2>2, <2>3, <2>4, <2>5
<1>3. CASE ~ (r # Leader /\ Parent[r] = p)
  <2>1. p # Leader /\ r = Parent[p]
    BY <1>1, <1>3 DEF Tree, Childs
  <2>2. p \in Below(p) /\ Below(p) \subseteq Node /\ r \notin Below(p)
    BY <2>1, BelowSelf
  <2>3. Beyond(p, r) = Node \ Below(p) /\ Beyond(r, p) = Below(p) /\ p \in Tree(r)
    BY <1>3, <2>1 DEF Beyond, Tree, Childs
  <2>4. p \in Childs(r)
    BY <2>1 DEF Childs
  <2>5. ASSUME NEW s \in Tree(r), s # p PROVE Beyond(r, s) \subseteq (Node \ Below(p)) \ {r}
    <3>1. CASE s \in Childs(r)
      <4>1. Beyond(r, s) = Below(s) /\ s \in Node
        BY <3>1 DEF Beyond, Childs
      <4> QED
        BY <1>1, <2>4, <2>5, <3>1, <4>1, BelowChilds, BelowSelf
    <3>2. CASE s \notin Childs(r)
      <4>1. s \in Node
        BY <1>1, <2>5, TreeNodes
      <4>2. Beyond(r, s) = Node \ Below(r)
        BY <3>2, <4>1 DEF Beyond, Childs
      <4> QED
        BY <1>1, <2>4, <4>2, BelowChilds, BelowSelf
    <3> QED
      BY <3>1, <3>2
  <2>6. ASSUME NEW s \in Tree(p), s # r PROVE Beyond(p, s) \cap (Node \ Below(p)) = {}
    <3>1. s \in Childs(p)
      BY <2>1, <2>6 DEF Tree
    <3>2. Beyond(p, s) = Below(s)
      BY <3>1 DEF Beyond, Childs
    <3> QED
      BY <3>1, <3>2, BelowChilds
  <2> QED
    BY <1>1, <2>1, <2>2, <2>3, <2>5, <2>6
<1> QED
  BY <1>2, <1>3

\* From every node an edge leads to every other.
LEMMA Leads ==
  ASSUME NEW n \in Node, NEW w \in Node, w # n
  PROVE  \E s \in Tree(n) : w \in Beyond(n, s)
<1>1. CASE w \in Below(n)
  <2>1. PICK c \in Childs(n) : w \in Below(c)
    BY <1>1, BelowChilds
  <2>2. c \in Tree(n) /\ Beyond(n, c) = Below(c)
    BY DEF Tree, Beyond, Childs
  <2> QED
    BY <2>1, <2>2
<1>2. CASE w \notin Below(n)
  <2>1. n # Leader
    BY <1>2, BelowSelf
  <2>2. PICK s : s = Parent[n]
    OBVIOUS
  <2>3. s \in Node /\ s \notin Below(n)
    BY <2>1, <2>2, BelowParent, BelowSelf
  <2>4. ~ (s # Leader /\ Parent[s] = n)
    <3>1. n \in Below(n)
      BY BelowSelf
    <3> QED
      BY <2>3, <3>1, BelowParent
  <2>5. s \in Tree(n) /\ Beyond(n, s) = Node \ Below(n)
    BY <2>1, <2>2, <2>4 DEF Tree, Beyond
  <2> QED
    BY <1>2, <2>5
<1> QED
  BY <1>1, <1>2

\* Only by the edge itself does one get beyond it.
LEMMA Crossing ==
  ASSUME NEW p \in Node, NEW r \in Tree(p), NEW n \in Node, NEW s \in Tree(n),
         n \notin Beyond(p, r), s \in Beyond(p, r)
  PROVE  n = p /\ s = r
<1>1. r \in Node /\ s \in Node
  BY TreeNodes
<1>2. CASE r # Leader /\ Parent[r] = p
  <2>1. Beyond(p, r) = Below(r)
    BY <1>2 DEF Beyond
  <2>2. CASE s # Leader /\ Parent[s] = n
    BY <1>1, <1>2, <2>1, <2>2, BelowParent
  <2>3. CASE n # Leader /\ Parent[n] = s
    BY <1>1, <2>1, <2>3, BelowParent
  <2> QED
    BY <2>2, <2>3 DEF Tree, Childs
<1>3. CASE ~ (r # Leader /\ Parent[r] = p)
  <2>1. p # Leader /\ r = Parent[p]
    BY <1>1, <1>3 DEF Tree, Childs
  <2>2. Beyond(p, r) = Node \ Below(p)
    BY <1>3 DEF Beyond
  <2>3. CASE s # Leader /\ Parent[s] = n
    BY <1>1, <2>1, <2>2, <2>3, BelowParent
  <2>4. CASE n # Leader /\ Parent[n] = s
    BY <1>1, <2>1, <2>2, <2>4, BelowParent
  <2> QED
    BY <2>3, <2>4 DEF Tree, Childs
<1> QED
  BY <1>2, <1>3

-----------------------------------------------------------------------------
(***************************************************************************)
(* What is on its way on an edge, sent or still to be sent by the loop, and *)
(* how many copies of a message are on their way to a node: as the edges   *)
(* are those of a tree, a copy that is passed on everywhere but back is    *)
(* one copy less for the node that passes it on, and no copy more or less  *)
(* for any other.                                                          *)
(***************************************************************************)
On(net, box, p, r, m) == Copies(net[p][r], {m}) + (IF <<r, m>> \in box[p] THEN 1 ELSE 0)
Leading(E, x) == {e \in E : x \in Beyond(e[1], e[2])}
Copied(net, box, m, x) ==
  [e \in Node \X Node |-> IF x \in Beyond(e[1], e[2]) THEN On(net, box, e[1], e[2], m) ELSE 0]
Heading(net, box, m, x) == Total(Copied(net, box, m, x))

LEMMA HeadingType ==
  ASSUME NEW net \in Channels(Message), NEW box, NEW m, NEW x
  PROVE  /\ \A p, r \in Node : On(net, box, p, r, m) \in Nat
         /\ IsFiniteSet(Node \X Node) /\ Copied(net, box, m, x) \in [Node \X Node -> Nat]
         /\ Heading(net, box, m, x) \in Nat
         /\ \A p, r \in Node : Copied(net, box, m, x)[<<p, r>>] =
              IF x \in Beyond(p, r) THEN On(net, box, p, r, m) ELSE 0
<1>1. ASSUME NEW p \in Node, NEW r \in Node PROVE On(net, box, p, r, m) \in Nat
  <2>1. net[p][r] \in Seq(Message)
    BY DEF Channels, Outgoing
  <2>2. Copies(net[p][r], {m}) \in Nat
    BY <2>1, CopiesType
  <2> QED
    BY <2>2 DEF On
<1>2. Copied(net, box, m, x) \in [Node \X Node -> Nat]
  BY <1>1 DEF Copied
<1>3. IsFiniteSet(Node \X Node)
  BY NodeAssumption, FS_Product
<1>4. Heading(net, box, m, x) \in Nat
  BY <1>2, <1>3, TotalType DEF Heading
<1>5. \A p, r \in Node : Copied(net, box, m, x)[<<p, r>>] =
        IF x \in Beyond(p, r) THEN On(net, box, p, r, m) ELSE 0
  BY DEF Copied
<1> QED
  BY <1>1, <1>2, <1>3, <1>4, <1>5

\* Copies are taken from the edges of T and put on those of A.
LEMMA HeadingMoves ==
  ASSUME NEW net \in Channels(Message), NEW net2 \in Channels(Message), NEW box, NEW box2, NEW m,
         NEW x, NEW T \in SUBSET (Node \X Node), NEW A \in SUBSET (Node \X Node),
         \A p, r \in Node : On(net2, box2, p, r, m) + (IF <<p, r>> \in T THEN 1 ELSE 0)
                              = On(net, box, p, r, m) + (IF <<p, r>> \in A THEN 1 ELSE 0)
  PROVE  Heading(net2, box2, m, x) + Cardinality(Leading(T, x))
           = Heading(net, box, m, x) + Cardinality(Leading(A, x))
<1> DEFINE E == Node \X Node
           one(S) == [e \in E |-> IF e \in Leading(S, x) THEN 1 ELSE 0]
           both == [e \in E |-> Copied(net, box, m, x)[e] + one(A)[e]]
<1>1. /\ IsFiniteSet(E) /\ Copied(net, box, m, x) \in [E -> Nat] /\ Copied(net2, box2, m, x) \in [E -> Nat]
      /\ \A p, r \in Node : On(net, box, p, r, m) \in Nat /\ On(net2, box2, p, r, m) \in Nat
  BY HeadingType
<1>2. ASSUME NEW S \in SUBSET E PROVE one(S) \in [E -> Nat] /\ Total(one(S)) = Cardinality(Leading(S, x))
  <2>1. PICK f : f = one(S)
    OBVIOUS
  <2>2. f \in [E -> Nat] /\ \A e \in E : f[e] <= 1
    BY <2>1
  <2>3. {e \in E : f[e] = 1} = Leading(S, x)
    BY <2>1 DEF Leading
  <2>4. Total(f) = Cardinality({e \in E : f[e] = 1})
    BY <1>1, <2>2, TotalOnes
  <2> QED
    BY <2>1, <2>2, <2>3, <2>4
<1>3. ASSUME NEW e \in E
      PROVE  Copied(net2, box2, m, x)[e] + one(T)[e] = Copied(net, box, m, x)[e] + one(A)[e]
  <2>1. PICK p \in Node, r \in Node : e = <<p, r>>
    BY <1>3
  <2>2. /\ Copied(net, box, m, x)[e] = IF x \in Beyond(p, r) THEN On(net, box, p, r, m) ELSE 0
        /\ Copied(net2, box2, m, x)[e] = IF x \in Beyond(p, r) THEN On(net2, box2, p, r, m) ELSE 0
    BY <2>1, HeadingType
  <2>3. /\ one(T)[e] = IF <<p, r>> \in T /\ x \in Beyond(p, r) THEN 1 ELSE 0
        /\ one(A)[e] = IF <<p, r>> \in A /\ x \in Beyond(p, r) THEN 1 ELSE 0
    BY <2>1 DEF Leading
  <2>4. On(net2, box2, p, r, m) + (IF <<p, r>> \in T THEN 1 ELSE 0)
          = On(net, box, p, r, m) + (IF <<p, r>> \in A THEN 1 ELSE 0)
    OBVIOUS
  <2> HIDE DEF one
  <2> QED
    BY <2>2, <2>3, <2>4
<1>4. PICK f, g, t, a, h :
        /\ f = Copied(net, box, m, x) /\ g = Copied(net2, box2, m, x) /\ t = one(T) /\ a = one(A) /\ h = both
  OBVIOUS
<1>5. /\ f \in [E -> Nat] /\ g \in [E -> Nat] /\ t \in [E -> Nat] /\ a \in [E -> Nat]
      /\ Total(t) = Cardinality(Leading(T, x)) /\ Total(a) = Cardinality(Leading(A, x))
  <2> HIDE DEF one, both
  <2> QED
    BY <1>1, <1>2, <1>4
<1>6. h \in [E -> Nat] /\ \A e \in E : h[e] = f[e] + a[e]
  <2>1. h = [e \in E |-> f[e] + a[e]]
    BY <1>4
  <2> HIDE DEF one, both
  <2> QED
    BY <1>5, <2>1
<1>7. \A e \in E : h[e] = g[e] + t[e]
  <2> HIDE DEF one, both
  <2> QED
    BY <1>3, <1>4, <1>6
<1> HIDE DEF one, both, E
<1>8. Total(h) = Total(f) + Total(a)
  BY <1>1, <1>5, <1>6, TotalAdd
<1>9. Total(h) = Total(g) + Total(t)
  BY <1>1, <1>5, <1>6, <1>7, TotalAdd
<1> QED
  BY <1>4, <1>5, <1>8, <1>9 DEF Heading

\* Of all edges of n one leads to each other node, and unless it is the one to q, nothing
\* that comes from q is on its way there.
LEMMA LeadingOn ==
  ASSUME NEW n \in Node, NEW x \in Node
  PROVE  /\ Cardinality(Leading({n} \X Tree(n), x)) = IF x = n THEN 0 ELSE 1
         /\ \A q \in Tree(n) :
              Cardinality(Leading({n} \X (Tree(n) \ {q}), x)) =
                IF x = n \/ x \notin Beyond(q, n) THEN 0 ELSE 1
         /\ \A q \in Tree(n) :
              Cardinality(Leading({<<q, n>>}, x)) = IF x \in Beyond(q, n) THEN 1 ELSE 0
         /\ Cardinality(Leading({}, x)) = 0
<1>1. \A R : Leading({n} \X R, x) = {<<n, s>> : s \in {s \in R : x \in Beyond(n, s)}}
  BY DEF Leading
<1>2. ASSUME NEW q \in Tree(n)
      PROVE  Cardinality(Leading({<<q, n>>}, x)) = IF x \in Beyond(q, n) THEN 1 ELSE 0
  <2>1. CASE x \in Beyond(q, n)
    <3>1. Leading({<<q, n>>}, x) = {<<q, n>>}
      BY <2>1 DEF Leading
    <3> QED
      BY <2>1, <3>1, FS_Singleton
  <2>2. CASE x \notin Beyond(q, n)
    <3>1. Leading({<<q, n>>}, x) = {}
      BY <2>2 DEF Leading
    <3> QED
      BY <2>2, <3>1, FS_EmptySet
  <2> QED
    BY <2>1, <2>2
<1>3. Cardinality(Leading({}, x)) = 0
  <2>1. Leading({}, x) = {}
    BY DEF Leading
  <2> QED
    BY <2>1, FS_EmptySet
<1>4. CASE x = n
  <2>1. \A s \in Tree(n) : x \notin Beyond(n, s)
    BY <1>4, Edges
  <2>2. Leading({n} \X Tree(n), x) = {} /\ \A q \in Tree(n) : Leading({n} \X (Tree(n) \ {q}), x) = {}
    <3>1. \A R \in SUBSET Tree(n) : Leading({n} \X R, x) = {}
      BY <1>1, <2>1
    <3>2. \A q \in Tree(n) : Tree(n) \ {q} \in SUBSET Tree(n)
      OBVIOUS
    <3> QED
      BY <3>1, <3>2
  <2> QED
    BY <1>4, <2>2, FS_EmptySet, <1>2, <1>3
<1>5. CASE x # n
  <2>1. PICK s \in Tree(n) : x \in Beyond(n, s)
    BY <1>5, Leads
  <2>2. \A r \in Tree(n) : r # s => x \notin Beyond(n, r)
    BY <2>1, Edges
  <2>3. Leading({n} \X Tree(n), x) = {<<n, s>>}
    BY <1>1, <2>1, <2>2
  <2>4. ASSUME NEW q \in Tree(n), x \in Beyond(q, n)
        PROVE  Leading({n} \X (Tree(n) \ {q}), x) = {<<n, s>>}
    <3>1. s # q
      BY <2>1, <2>4, Edges
    <3> QED
      <4>1. PICK R : R = Tree(n) \ {q}
        OBVIOUS
      <4>2. {r \in R : x \in Beyond(n, r)} = {s}
        BY <2>1, <2>2, <3>1, <4>1
      <4>3. Leading({n} \X R, x) = {<<n, s>>}
        BY <1>1, <4>2
      <4> QED
        BY <4>1, <4>3
  <2>5. ASSUME NEW q \in Tree(n), x \notin Beyond(q, n)
        PROVE  Leading({n} \X (Tree(n) \ {q}), x) = {}
    <3>1. q \in Node /\ n \in Tree(q)
      BY Edges
    <3>2. \A r \in Tree(n) \ {q} : Beyond(n, r) \subseteq Beyond(q, n)
      BY <3>1, Edges
    <3> QED
      BY <1>1, <2>5, <3>2
  <2> QED
    BY <1>5, <2>3, <2>4, <2>5, FS_EmptySet, FS_Singleton, <1>2, <1>3
<1> QED
  BY <1>4, <1>5

\* The copies of a message on their way to x when it does not move,
LEMMA HeadingSame ==
  ASSUME NEW net \in Channels(Message), NEW net2 \in Channels(Message), NEW box, NEW box2, NEW m, NEW x \in Node,
         \A p, r \in Node : On(net2, box2, p, r, m) = On(net, box, p, r, m)
  PROVE  Heading(net2, box2, m, x) = Heading(net, box, m, x)
<1>1. PICK T : T = {}
  OBVIOUS
<1>2. /\ T \in SUBSET (Node \X Node) /\ Cardinality(Leading(T, x)) = 0
      /\ \A p, r \in Node : <<p, r>> \notin T
  BY <1>1, LeadingOn
<1>3. Heading(net2, box2, m, x) + Cardinality(Leading(T, x)) = Heading(net, box, m, x) + Cardinality(Leading(T, x))
  BY <1>2, HeadingMoves
<1> QED
  BY <1>2, <1>3, HeadingType

\* when n takes it from q and passes it on,
LEMMA HeadingOn ==
  ASSUME NEW net \in Channels(Message), NEW net2 \in Channels(Message), NEW box, NEW box2, NEW m, NEW x \in Node,
         NEW n \in Node, NEW q \in Tree(n),
         \A p, r \in Node : On(net2, box2, p, r, m) + (IF p = q /\ r = n THEN 1 ELSE 0)
                              = On(net, box, p, r, m) + (IF p = n /\ r \in Tree(n) \ {q} THEN 1 ELSE 0)
  PROVE  Heading(net2, box2, m, x) + (IF x = n THEN 1 ELSE 0) = Heading(net, box, m, x)
<1>1. PICK T, A : T = {<<q, n>>} /\ A = {n} \X (Tree(n) \ {q})
  OBVIOUS
<1>2. q \in Node /\ Tree(n) \subseteq Node /\ n \in Beyond(q, n)
  BY TreeNodes, Edges
<1>3. T \in SUBSET (Node \X Node) /\ A \in SUBSET (Node \X Node)
  BY <1>1, <1>2
<1>4. \A p, r \in Node : (<<p, r>> \in T <=> p = q /\ r = n) /\ (<<p, r>> \in A <=> p = n /\ r \in Tree(n) \ {q})
  BY <1>1
<1>5. Heading(net2, box2, m, x) + Cardinality(Leading(T, x)) = Heading(net, box, m, x) + Cardinality(Leading(A, x))
  BY <1>3, <1>4, HeadingMoves
<1>6. /\ Cardinality(Leading(T, x)) = IF x \in Beyond(q, n) THEN 1 ELSE 0
      /\ Cardinality(Leading(A, x)) = IF x = n \/ x \notin Beyond(q, n) THEN 0 ELSE 1
  BY <1>1, LeadingOn
<1> QED
  BY <1>2, <1>5, <1>6, HeadingType

\* when n sends it to all its neighbours in the tree,
LEMMA HeadingOut ==
  ASSUME NEW net \in Channels(Message), NEW net2 \in Channels(Message), NEW box, NEW box2, NEW m, NEW x \in Node,
         NEW n \in Node,
         \A p, r \in Node : On(net2, box2, p, r, m)
                              = On(net, box, p, r, m) + (IF p = n /\ r \in Tree(n) THEN 1 ELSE 0)
  PROVE  Heading(net2, box2, m, x) = Heading(net, box, m, x) + (IF x = n THEN 0 ELSE 1)
<1>1. PICK T, A : T = {} /\ A = {n} \X Tree(n)
  OBVIOUS
<1>2. T \in SUBSET (Node \X Node) /\ A \in SUBSET (Node \X Node)
  BY <1>1, TreeNodes
<1>3. \A p, r \in Node : <<p, r>> \notin T /\ (<<p, r>> \in A <=> p = n /\ r \in Tree(n))
  BY <1>1
<1>4. \A p, r \in Node : On(net, box, p, r, m) \in Nat /\ On(net2, box2, p, r, m) \in Nat
  BY HeadingType
<1>5. \A p, r \in Node : On(net2, box2, p, r, m) + (IF <<p, r>> \in T THEN 1 ELSE 0)
                           = On(net, box, p, r, m) + (IF <<p, r>> \in A THEN 1 ELSE 0)
  <2> SUFFICES ASSUME NEW p \in Node, NEW r \in Node
               PROVE  On(net2, box2, p, r, m) + (IF <<p, r>> \in T THEN 1 ELSE 0)
                        = On(net, box, p, r, m) + (IF <<p, r>> \in A THEN 1 ELSE 0)
    OBVIOUS
  <2>1. On(net2, box2, p, r, m) \in Nat /\ <<p, r>> \notin T
    BY <1>3, <1>4
  <2>2. On(net2, box2, p, r, m) = On(net, box, p, r, m) + (IF p = n /\ r \in Tree(n) THEN 1 ELSE 0)
    OBVIOUS
  <2>3. CASE p = n /\ r \in Tree(n)
    BY <1>3, <2>1, <2>2, <2>3
  <2>4. CASE ~ (p = n /\ r \in Tree(n))
    BY <1>3, <2>1, <2>2, <2>4
  <2> QED
    BY <2>3, <2>4
<1>6. Heading(net2, box2, m, x) + Cardinality(Leading(T, x)) = Heading(net, box, m, x) + Cardinality(Leading(A, x))
  BY <1>2, <1>5, HeadingMoves
<1>7. Cardinality(Leading(T, x)) = 0 /\ Cardinality(Leading(A, x)) = IF x = n THEN 0 ELSE 1
  BY <1>1, LeadingOn
<1> QED
  BY <1>6, <1>7, HeadingType

\* and when n takes it from q.
LEMMA HeadingIn ==
  ASSUME NEW net \in Channels(Message), NEW net2 \in Channels(Message), NEW box, NEW box2, NEW m,
         NEW n \in Node, NEW q \in Tree(n),
         \A p, r \in Node : On(net2, box2, p, r, m) + (IF p = q /\ r = n THEN 1 ELSE 0) = On(net, box, p, r, m)
  PROVE  Heading(net2, box2, m, n) + 1 = Heading(net, box, m, n)
<1>1. PICK T, A : T = {<<q, n>>} /\ A = {}
  OBVIOUS
<1>2. q \in Node /\ n \in Beyond(q, n)
  BY TreeNodes, Edges
<1>3. T \in SUBSET (Node \X Node) /\ A \in SUBSET (Node \X Node)
  BY <1>1, <1>2
<1>4. \A p, r \in Node : <<p, r>> \notin A /\ (<<p, r>> \in T <=> p = q /\ r = n)
  BY <1>1
<1>5. \A p, r \in Node : On(net, box, p, r, m) \in Nat /\ On(net2, box2, p, r, m) \in Nat
  BY HeadingType
<1>6. \A p, r \in Node : On(net2, box2, p, r, m) + (IF <<p, r>> \in T THEN 1 ELSE 0)
                           = On(net, box, p, r, m) + (IF <<p, r>> \in A THEN 1 ELSE 0)
  <2> SUFFICES ASSUME NEW p \in Node, NEW r \in Node
               PROVE  On(net2, box2, p, r, m) + (IF <<p, r>> \in T THEN 1 ELSE 0)
                        = On(net, box, p, r, m) + (IF <<p, r>> \in A THEN 1 ELSE 0)
    OBVIOUS
  <2>1. On(net, box, p, r, m) \in Nat /\ <<p, r>> \notin A
    BY <1>4, <1>5
  <2>2. On(net2, box2, p, r, m) + (IF p = q /\ r = n THEN 1 ELSE 0) = On(net, box, p, r, m)
    OBVIOUS
  <2>3. CASE p = q /\ r = n
    BY <1>4, <2>1, <2>2, <2>3
  <2>4. CASE ~ (p = q /\ r = n)
    BY <1>4, <2>1, <2>2, <2>4
  <2> QED
    BY <2>3, <2>4
<1>7. Heading(net2, box2, m, n) + Cardinality(Leading(T, n)) = Heading(net, box, m, n) + Cardinality(Leading(A, n))
  BY <1>3, <1>6, HeadingMoves
<1>8. Cardinality(Leading(T, n)) = 1 /\ Cardinality(Leading(A, n)) = 0
  BY <1>1, <1>2, LeadingOn
<1> QED
  BY <1>7, <1>8, HeadingType

\* Copies on their way to x are on edges that lead to it.
LEMMA HeadingAt ==
  ASSUME NEW net \in Channels(Message), NEW box, NEW m, NEW x \in Node
  PROVE  /\ Heading(net, box, m, x) # 0 =>
              \E p, r \in Node : x \in Beyond(p, r) /\ On(net, box, p, r, m) # 0
         /\ \A p, r \in Node : x \in Beyond(p, r) =>
              /\ On(net, box, p, r, m) <= Heading(net, box, m, x)
              /\ On(net, box, p, r, m) = Heading(net, box, m, x) =>
                   \A a, b \in Node : x \in Beyond(a, b) /\ (a # p \/ b # r) => On(net, box, a, b, m) = 0
<1>1. PICK f : f = Copied(net, box, m, x)
  OBVIOUS
<1>2. /\ IsFiniteSet(Node \X Node) /\ f \in [Node \X Node -> Nat] /\ Heading(net, box, m, x) = Total(f)
      /\ \A p, r \in Node : f[<<p, r>>] = IF x \in Beyond(p, r) THEN On(net, box, p, r, m) ELSE 0
      /\ \A p, r \in Node : On(net, box, p, r, m) \in Nat
      /\ Total(f) \in Nat
  <2>1. Heading(net, box, m, x) = Total(f)
    BY <1>1 DEF Heading
  <2> QED
    BY <1>1, <2>1, HeadingType
<1>3. ASSUME Heading(net, box, m, x) # 0
      PROVE  \E p, r \in Node : x \in Beyond(p, r) /\ On(net, box, p, r, m) # 0
  <2>1. PICK e \in Node \X Node : f[e] # 0
    BY <1>2, <1>3, TotalZero
  <2>2. PICK p \in Node, r \in Node : e = <<p, r>>
    OBVIOUS
  <2> QED
    BY <1>2, <2>1, <2>2
<1>4. ASSUME NEW p \in Node, NEW r \in Node, x \in Beyond(p, r)
      PROVE  /\ On(net, box, p, r, m) <= Heading(net, box, m, x)
             /\ On(net, box, p, r, m) = Heading(net, box, m, x) =>
                  \A a, b \in Node : x \in Beyond(a, b) /\ (a # p \/ b # r) => On(net, box, a, b, m) = 0
  <2>1. PICK c, g : c = <<p, r>> /\ g = [e \in Node \X Node |-> IF e = c THEN 0 ELSE f[e]]
    OBVIOUS
  <2>2. c \in Node \X Node /\ g \in [Node \X Node -> Nat] /\ g[c] = 0
        /\ \A e \in Node \X Node : e # c => g[e] = f[e]
    BY <1>2, <2>1
  <2>3. Total(g) + f[c] = Total(f) + g[c]
    BY <1>2, <2>2, TotalChange
  <2>4. Total(g) \in Nat /\ (Total(g) = 0 => \A e \in Node \X Node : g[e] = 0)
    BY <1>2, <2>2, TotalType, TotalZero
  <2>5. f[c] = On(net, box, p, r, m)
    BY <1>2, <1>4, <2>1
  <2>6. ASSUME On(net, box, p, r, m) = Heading(net, box, m, x),
               NEW a \in Node, NEW b \in Node, x \in Beyond(a, b), a # p \/ b # r
        PROVE  On(net, box, a, b, m) = 0
    <3>1. Total(g) = 0
      <4>1. f[c] = Total(f) /\ f[c] \in Nat /\ g[c] = 0
        BY <1>2, <2>2, <2>5, <2>6
      <4> QED
        BY <2>3, <2>4, <4>1
    <3>2. <<a, b>> # c /\ <<a, b>> \in Node \X Node
      BY <2>1, <2>6
    <3>3. f[<<a, b>>] = 0
      BY <2>2, <2>4, <3>1, <3>2
    <3> QED
      BY <1>2, <2>6, <3>3
  <2>7. On(net, box, p, r, m) <= Heading(net, box, m, x)
    BY <1>2, <2>2, <2>3, <2>4, <2>5
  <2> QED
    BY <2>6, <2>7
<1> QED
  BY <1>3, <1>4

-----------------------------------------------------------------------------
(***************************************************************************)
(* How the lock is handed over.  While nobody has it, each node owes the   *)
(* one whose turn it is an acknowledgement: it has been counted, or is on  *)
(* its way, or the node is Due: the release is still on its way to it, or  *)
(* it is the one that has released the lock and has not sent its own yet.  *)
(***************************************************************************)
LockMessages == {Release} \cup {Ack(u) : u \in Node}
Held == \E n \in Node : lockRequestActive[n]
Passing == ~ Held /\ turn # Nobody
Due == {x \in Node \ {turn} : Heading(chan, outbox, Release, x) # 0 \/ loop[x] = "released"}

Ways == \A p, r \in Node : \A m \in LockMessages : On(chan, outbox, p, r, m) # 0 => r \in Tree(p)
Acking == \A u \in Node : Heading(chan, outbox, Ack(u), u) # 0 => Passing /\ u = turn
Releasing ==
  /\ \A x \in Node : /\ Heading(chan, outbox, Release, x) <= 1
                     /\ Heading(chan, outbox, Release, x) # 0 => Passing /\ x # trans[begun].by
  /\ \A p \in Node : \A x \in outbox[p] : x[2] = Release => loop[p] = "released"
Counting == \A n \in Node : lockAckCounter[n] # 0 => Passing /\ n = turn
Owing ==
  Passing => Heading(chan, outbox, Ack(turn), turn) + lockAckCounter[turn] + Cardinality(Due)
               = Cardinality(Node) - 1
Turns ==
  \A n \in Node :
    /\ loop[n] \in {"asked", "started"} => begun >= 1 /\ lockRequestActive[n] /\ n = trans[begun].by
    /\ loop[n] = "released" => begun >= 1 /\ n = trans[begun].by /\ (Held => lockRequestActive[n])
    /\ lockRequestActive[n] /\ loop[n] \notin {"asked", "started"} => n = turn

Handover == Exclusive /\ Ways /\ Acking /\ Releasing /\ Counting /\ Owing /\ Turns

\* Whose turn it is, and what is sent of the lock.
LEMMA TurnType ==
  ASSUME TypeOK
  PROVE  /\ turn = Nobody \/ turn \in Node
         /\ Nobody \notin Node
         /\ chan \in Channels(Message) /\ IsFiniteSet(Node)
         /\ \A u \in Node : Ack(u) # Release /\ \A v \in Node : Ack(u) = Ack(v) => u = v
         /\ \A m \in LockMessages : m \in Message /\ m.type \in {"lockRelease", "lockAck"}
<1>1. turn = Nobody \/ turn \in Node
  BY Scripted DEF turn
<1>2. Nobody \notin Node
  BY NodeAssumption DEF Nobody
<1>3. chan \in Channels(Message)
  BY DEF TypeOK, Channels, Outgoing
<1>4. \A u \in Node : Ack(u) # Release /\ \A v \in Node : Ack(u) = Ack(v) => u = v
  BY DEF Ack, Release
<1>5. \A m \in LockMessages : m.type \in {"lockRelease", "lockAck"}
  BY DEF LockMessages, Ack, Release
<1>6. \A m \in LockMessages : m \in Message
  BY Makes DEF LockMessages
<1> QED
  BY <1>1, <1>2, <1>3, <1>4, <1>5, <1>6, NodeAssumption

\* A handler that takes a message and sends out, or a goroutine that sends out.
LEMMA OnExchanged ==
  ASSUME TypeOK, NEW n \in Node, NEW q \in Node, Pending(q, n), NEW out \in Outgoing(Message),
         chan' = Exchanged(chan, q, n, out), UNCHANGED outbox, NEW m, NEW p \in Node, NEW r \in Node
  PROVE  /\ On(chan', outbox', p, r, m) + (IF p = q /\ r = n /\ Head(chan[q][n]) = m THEN 1 ELSE 0)
              = On(chan, outbox, p, r, m) + (IF p = n THEN Copies(out[r], {m}) ELSE 0)
         /\ On(chan', outbox', p, r, m) \in Nat /\ On(chan, outbox, p, r, m) \in Nat
<1>1. chan \in Channels(Message) /\ chan[q][n] # <<>>
  BY TurnType DEF Pending
<1>2. PICK net, box, h : net = Exchanged(chan, q, n, out) /\ box = outbox /\ h = Head(chan[q][n])
  OBVIOUS
<1>3. /\ InFlight(net, p, r, {m}) + (IF p = q /\ r = n /\ h \in {m} THEN 1 ELSE 0)
           = InFlight(chan, p, r, {m}) + (IF p = n THEN Copies(out[r], {m}) ELSE 0)
      /\ InFlight(net, p, r, {m}) \in Nat /\ InFlight(chan, p, r, {m}) \in Nat
      /\ Copies(out[r], {m}) \in Nat
  BY <1>1, <1>2, FlightExchanged
<1>4. /\ On(net, box, p, r, m) = InFlight(net, p, r, {m}) + (IF <<r, m>> \in box[p] THEN 1 ELSE 0)
      /\ On(chan, box, p, r, m) = InFlight(chan, p, r, {m}) + (IF <<r, m>> \in box[p] THEN 1 ELSE 0)
  BY DEF On, InFlight
<1>5. /\ On(net, box, p, r, m) + (IF p = q /\ r = n /\ h = m THEN 1 ELSE 0)
           = On(chan, box, p, r, m) + (IF p = n THEN Copies(out[r], {m}) ELSE 0)
      /\ On(net, box, p, r, m) \in Nat /\ On(chan, box, p, r, m) \in Nat
  BY <1>3, <1>4
<1> QED
  BY <1>2, <1>5

LEMMA OnSent ==
  ASSUME TypeOK, NEW n \in Node, NEW out \in Outgoing(Message),
         chan' = Sent(chan, n, out), UNCHANGED outbox, NEW m, NEW p \in Node, NEW r \in Node
  PROVE  On(chan', outbox', p, r, m) = On(chan, outbox, p, r, m) + (IF p = n THEN Copies(out[r], {m}) ELSE 0)
<1>1. chan \in Channels(Message)
  BY TurnType
<1>2. PICK net, box : net = Sent(chan, n, out) /\ box = outbox
  OBVIOUS
<1>3. /\ InFlight(net, p, r, {m}) = InFlight(chan, p, r, {m}) + (IF p = n THEN Copies(out[r], {m}) ELSE 0)
      /\ InFlight(chan, p, r, {m}) \in Nat /\ Copies(out[r], {m}) \in Nat
  BY <1>1, <1>2, FlightSent
<1>4. /\ On(net, box, p, r, m) = InFlight(net, p, r, {m}) + (IF <<r, m>> \in box[p] THEN 1 ELSE 0)
      /\ On(chan, box, p, r, m) = InFlight(chan, p, r, {m}) + (IF <<r, m>> \in box[p] THEN 1 ELSE 0)
  BY DEF On, InFlight
<1>5. On(net, box, p, r, m) = On(chan, box, p, r, m) + (IF p = n THEN Copies(out[r], {m}) ELSE 0)
  BY <1>3, <1>4
<1> QED
  BY <1>2, <1>5

\* Nor does it matter who passes what on.
LEMMA HandoverSame ==
  ASSUME TypeOK, TypeOK', Handover,
         UNCHANGED <<lockRequestActive, lockAckCounter, loop, begun, trans>>,
         \A p \in Node : \A x \in outbox'[p] : x[2] = Release => x \in outbox[p],
         \A x \in Node : Heading(chan', outbox', Release, x) = Heading(chan, outbox, Release, x),
         \A u \in Node : Heading(chan', outbox', Ack(u), u) = Heading(chan, outbox, Ack(u), u),
         Ways'
  PROVE  Handover' /\ Due' = Due /\ turn' = turn /\ (Passing' <=> Passing)
<1>1. turn' = turn /\ (Held' <=> Held) /\ (Passing' <=> Passing)
  BY DEF turn, Held, Passing
<1>2. Due' = Due
  BY <1>1 DEF Due
<1>3. Exclusive' /\ Turns' /\ Counting'
  BY <1>1 DEF Handover, Exclusive, Turns, Counting
<1>4. Acking'
  BY <1>1 DEF Handover, Acking
<1>5. Releasing'
  BY <1>1 DEF Handover, Releasing
<1>6. Owing'
  <2>1. PICK t : t = turn
    OBVIOUS
  <2>2. Passing => t \in Node
    BY <2>1, TurnType DEF Passing
  <2> QED
    BY <1>1, <1>2, <2>1, <2>2 DEF Handover, Owing
<1> QED
  BY <1>1, <1>2, <1>3, <1>4, <1>5, <1>6 DEF Handover

\* What is not about the lock leaves all this as it is.
LEMMA HandoverKept ==
  ASSUME TypeOK, TypeOK', Handover,
         UNCHANGED <<lockRequestActive, lockAckCounter, loop, begun, trans>>,
         \A p \in Node : \A x \in outbox'[p] : x[2] = Release => x \in outbox[p],
         \A p, r \in Node : \A m \in LockMessages :
           On(chan', outbox', p, r, m) = On(chan, outbox, p, r, m)
  PROVE  Handover' /\ Due' = Due /\ turn' = turn /\ (Passing' <=> Passing)
<1>1. chan \in Channels(Message) /\ chan' \in Channels(Message)
  BY DEF TypeOK, Channels, Outgoing
<1>2. ASSUME NEW m \in LockMessages, NEW x \in Node
      PROVE  Heading(chan', outbox', m, x) = Heading(chan, outbox, m, x)
  <2>1. PICK net, net2, box, box2 : net = chan /\ net2 = chan' /\ box = outbox /\ box2 = outbox'
    OBVIOUS
  <2>2. /\ net \in Channels(Message) /\ net2 \in Channels(Message)
        /\ \A p, r \in Node : On(net2, box2, p, r, m) = On(net, box, p, r, m)
    BY <1>1, <2>1
  <2> QED
    BY <2>1, <2>2, HeadingSame
<1>3. Release \in LockMessages /\ \A u \in Node : Ack(u) \in LockMessages
  BY DEF LockMessages
<1>4. /\ \A x \in Node : Heading(chan', outbox', Release, x) = Heading(chan, outbox, Release, x)
      /\ \A u \in Node : Heading(chan', outbox', Ack(u), u) = Heading(chan, outbox, Ack(u), u)
  BY <1>2, <1>3
<1>5. Ways'
  BY DEF Handover, Ways
<1> QED
  BY <1>4, <1>5, HandoverSame

\* What the transaction loop has decided to send counts as being on its way.
LEMMA OnSendAll ==
  ASSUME TypeOK, NEW n \in Node, outbox[n] = {}, NEW R, NEW msg, SendAll(n, R, msg), UNCHANGED chan,
         NEW m, NEW p \in Node, NEW r \in Node
  PROVE  /\ On(chan', outbox', p, r, m)
              = On(chan, outbox, p, r, m) + (IF p = n /\ r \in R /\ m = msg THEN 1 ELSE 0)
         /\ On(chan, outbox, p, r, m) \in Nat
<1>1. On(chan, outbox, p, r, m) \in Nat
  BY TurnType, HeadingType
<1>2. \A s \in Node : s # n => outbox'[s] = outbox[s]
  BY SendAllAt
<1>3. <<r, m>> \in outbox'[n] <=> r \in R /\ m = msg
  BY SendAllAt
<1>4. /\ On(chan', outbox', p, r, m) = Copies(chan[p][r], {m}) + (IF <<r, m>> \in outbox'[p] THEN 1 ELSE 0)
      /\ On(chan, outbox, p, r, m) = Copies(chan[p][r], {m}) + (IF <<r, m>> \in outbox[p] THEN 1 ELSE 0)
  BY DEF On
<1>5. Copies(chan[p][r], {m}) \in Nat
  <2>1. chan[p][r] \in Seq(Message)
    BY DEF TypeOK
  <2> QED
    BY <2>1, CopiesType
<1>6. CASE p = n
  BY <1>1, <1>3, <1>4, <1>5, <1>6
<1>7. CASE p # n
  BY <1>1, <1>2, <1>4, <1>5, <1>7
<1> QED
  BY <1>6, <1>7

\* When it sends it, that does not change.
LEMMA OnLoopSend ==
  ASSUME TypeOK, NEW n \in Node, LoopSend(n), NEW m, NEW p \in Node, NEW r \in Node
  PROVE  On(chan', outbox', p, r, m) = On(chan, outbox, p, r, m)
<1>1. PICK s \in outbox[n] : chan' = Sent(chan, n, To({s[1]}, s[2])) /\ outbox' = [outbox EXCEPT ![n] = @ \ {s}]
  BY DEF LoopSend
<1>2. s[1] \in Node /\ s[2] \in Message /\ s = <<s[1], s[2]>>
  <2>1. s \in Node \X Message
    BY DEF TypeOK
  <2> QED
    BY <2>1
<1>3. PICK d, msg, out : d = s[1] /\ msg = s[2] /\ out = To({d}, msg)
  OBVIOUS
<1>4. out \in Outgoing(Message) /\ chan' = Sent(chan, n, out) /\ s = <<d, msg>> /\ d \in Node
  BY <1>1, <1>2, <1>3, ToType
<1>5. Copies(out[r], {m}) = IF r = d /\ msg = m THEN 1 ELSE 0
  <2>1. PICK D, S : D = {d} /\ S = {m}
    OBVIOUS
  <2>2. Copies(To(D, msg)[r], S) = IF r \in D /\ msg \in S THEN 1 ELSE 0
    BY CopiesOut
  <2> QED
    BY <1>3, <2>1, <2>2
<1>6. PICK net, box : net = Sent(chan, n, out) /\ box = outbox'
  OBVIOUS
<1>7. /\ InFlight(net, p, r, {m}) = InFlight(chan, p, r, {m}) + (IF p = n THEN Copies(out[r], {m}) ELSE 0)
      /\ InFlight(chan, p, r, {m}) \in Nat
  BY <1>4, <1>6, TurnType, FlightSent
<1>8. /\ On(net, box, p, r, m) = InFlight(net, p, r, {m}) + (IF <<r, m>> \in box[p] THEN 1 ELSE 0)
      /\ On(chan, outbox, p, r, m) = InFlight(chan, p, r, {m}) + (IF <<r, m>> \in outbox[p] THEN 1 ELSE 0)
  BY DEF On, InFlight
<1>9. CASE p = n
  <2>1. <<r, m>> \in box[n] <=> <<r, m>> \in outbox[n] /\ ~ (r = d /\ m = msg)
    <3>1. box[n] = outbox[n] \ {s}
      BY <1>1, <1>6 DEF TypeOK
    <3> QED
      BY <1>4, <3>1
  <2>2. CASE r = d /\ m = msg
    <3>1. <<r, m>> \in outbox[n] /\ <<r, m>> \notin box[n]
      BY <1>1, <1>4, <2>1, <2>2
    <3> QED
      BY <1>4, <1>5, <1>6, <1>7, <1>8, <1>9, <2>2, <3>1
  <2>3. CASE ~ (r = d /\ m = msg)
    <3>1. <<r, m>> \in outbox[n] <=> <<r, m>> \in box[n]
      BY <2>1, <2>3
    <3>2. InFlight(net, p, r, {m}) = InFlight(chan, p, r, {m}) + 0
      BY <1>5, <1>7, <1>9, <2>3
    <3> QED
      BY <1>4, <1>6, <1>7, <1>8, <1>9, <3>1, <3>2
  <2> QED
    BY <2>2, <2>3
<1>10. CASE p # n
  <2>1. box[p] = outbox[p]
    BY <1>1, <1>6, <1>10 DEF TypeOK
  <2> QED
    BY <1>4, <1>6, <1>7, <1>8, <1>10, <2>1
<1> QED
  BY <1>9, <1>10

LEMMA HandoverLoopSend ==
  ASSUME TypeOK, TypeOK', Handover, NEW n \in Node, LoopSend(n)
  PROVE  Handover'
<1>1. UNCHANGED <<lockRequestActive, lockAckCounter, loop, begun, trans>>
  BY DEF LoopSend, lock
<1>2. \A p \in Node : outbox'[p] \subseteq outbox[p]
  BY DEF LoopSend, TypeOK
<1>3. \A p, r \in Node : \A m \in LockMessages : On(chan', outbox', p, r, m) = On(chan, outbox, p, r, m)
  BY OnLoopSend
<1> QED
  BY <1>1, <1>2, <1>3, HandoverKept

\* In the critical section nothing of the lock is on its way to whoever still acts on it.
LEMMA HandoverInside ==
  ASSUME TypeOK, TypeOK', Handover, NEW n \in Node, lockRequestActive[n], loop[n] \in {"wait", "asked"},
         UNCHANGED <<lockRequestActive, lockAckCounter, trans, chan>>, outbox[n] = {},
         NEW R, NEW msg, SendAll(n, R, msg), msg.type \in Requests,
         begun' >= 1, n = trans[begun'].by, loop'[n] \in {"asked", "started"},
         \A p \in Node : p # n => loop'[p] = loop[p]
  PROVE  Handover'
<1>1. Held /\ Held' /\ ~ Passing /\ ~ Passing'
  BY DEF Held, Passing
<1>2. msg \notin LockMessages /\ msg # Release
  <2>1. msg.type \notin {"lockRelease", "lockAck"}
    BY DEF Requests
  <2> QED
    BY <2>1 DEF LockMessages, Release, Ack
<1>3. \A p, r \in Node : \A m \in LockMessages : On(chan', outbox', p, r, m) = On(chan, outbox, p, r, m)
  BY <1>2, OnSendAll
<1>4. ASSUME NEW m \in LockMessages, NEW x \in Node
      PROVE  Heading(chan', outbox', m, x) = Heading(chan, outbox, m, x)
  <2>1. PICK net, box, box2 : net = chan /\ box = outbox /\ box2 = outbox'
    OBVIOUS
  <2>2. /\ net \in Channels(Message) /\ chan' = net
        /\ \A p, r \in Node : On(net, box2, p, r, m) = On(net, box, p, r, m)
    BY <1>3, <2>1, TurnType
  <2>3. Heading(net, box2, m, x) = Heading(net, box, m, x)
    BY <2>2, HeadingSame
  <2> QED
    BY <2>1, <2>2, <2>3
<1>5. Release \in LockMessages /\ \A u \in Node : Ack(u) \in LockMessages
  BY DEF LockMessages
<1>6. /\ \A x \in Node : Heading(chan', outbox', Release, x) = 0
      /\ \A u \in Node : Heading(chan', outbox', Ack(u), u) = 0
      /\ \A p \in Node : lockAckCounter'[p] = 0
  <2>1. \A x \in Node : Heading(chan, outbox, Release, x) = 0
    BY <1>1 DEF Handover, Releasing
  <2>2. \A u \in Node : Heading(chan, outbox, Ack(u), u) = 0
    BY <1>1 DEF Handover, Acking
  <2>3. \A p \in Node : lockAckCounter[p] = 0
    BY <1>1 DEF Handover, Counting
  <2> QED
    BY <1>4, <1>5, <2>1, <2>2, <2>3
<1>7. Exclusive'
  BY DEF Handover, Exclusive
<1>8. Ways'
  BY <1>3 DEF Handover, Ways
<1>9. Acking' /\ Counting' /\ Owing'
  BY <1>1, <1>6 DEF Acking, Counting, Owing
<1>10. ASSUME NEW p \in Node, p # n PROVE ~ lockRequestActive[p] /\ loop[p] = "wait"
  <2>1. ~ lockRequestActive[p]
    BY <1>10 DEF Handover, Exclusive
  <2>2. loop[p] \notin {"asked", "started", "released"}
    BY <1>1, <2>1 DEF Handover, Turns
  <2> QED
    BY <2>1, <2>2 DEF TypeOK
<1>11. Releasing'
  <2>1. \A p \in Node : \A x \in outbox'[p] : x[2] # Release
    <3>1. \A x \in outbox'[n] : x[2] # Release
      BY <1>2, SendAllAt
    <3>2. \A p \in Node : p # n => \A x \in outbox'[p] : x[2] # Release
      BY <1>10, SendAllAt DEF Handover, Releasing
    <3> QED
      BY <3>1, <3>2
  <2> QED
    BY <1>6, <2>1 DEF Releasing
<1>12. Turns'
  <2> SUFFICES ASSUME NEW p \in Node
               PROVE  /\ loop'[p] \in {"asked", "started"} => begun' >= 1 /\ lockRequestActive'[p] /\ p = trans'[begun'].by
                      /\ loop'[p] = "released" =>
                           begun' >= 1 /\ p = trans'[begun'].by /\ (Held' => lockRequestActive'[p])
                      /\ lockRequestActive'[p] /\ loop'[p] \notin {"asked", "started"} => p = turn'
    BY DEF Turns
  <2>1. CASE p = n
    BY <2>1
  <2>2. CASE p # n
    BY <1>10, <2>2
  <2> QED
    BY <2>1, <2>2
<1> QED
  BY <1>7, <1>8, <1>9, <1>11, <1>12 DEF Handover

LEMMA HandoverEnter ==
  ASSUME TypeOK, TypeOK', Handover, NEW n \in Node, Enter(n) \/ FloodStart(n)
  PROVE  Handover'
<1>1. CASE Enter(n)
  <2>1. /\ lockRequestActive[n] /\ loop[n] = "wait" /\ outbox[n] = {} /\ begun < Len(trans)
        /\ UNCHANGED <<lockRequestActive, lockAckCounter, trans, chan>> /\ begun' = begun + 1
        /\ SendAll(n, Neigh[n], GetBalance(begun + 1, trans[begun + 1].with)) /\ Goes(n, "asked")
    BY <1>1 DEF Enter, At, lock
  <2>2. n = turn
    BY <2>1 DEF Handover, Turns
  <2>3. begun' >= 1 /\ n = trans[begun'].by
    BY <2>1, <2>2, Scripted DEF turn
  <2>4. PICK R, msg : R = Neigh[n] /\ msg = GetBalance(begun + 1, trans[begun + 1].with)
    OBVIOUS
  <2>5. SendAll(n, R, msg) /\ msg.type \in Requests
    BY <2>1, <2>4 DEF GetBalance, Requests
  <2>6. loop'[n] = "asked" /\ \A p \in Node : p # n => loop'[p] = loop[p]
    BY <2>1, GoesAt
  <2> QED
    BY <2>1, <2>3, <2>5, <2>6, HandoverInside
<1>2. CASE FloodStart(n)
  <2>1. /\ loop[n] = "asked" /\ outbox[n] = {}
        /\ UNCHANGED <<lockRequestActive, lockAckCounter, trans, chan, begun>>
        /\ SendAll(n, Neigh[n], Start(begun, trans[begun].with)) /\ Goes(n, "started")
    BY <1>2 DEF FloodStart, At, lock
  <2>2. lockRequestActive[n] /\ begun' >= 1 /\ n = trans[begun'].by
    BY <2>1 DEF Handover, Turns
  <2>3. PICK R, msg : R = Neigh[n] /\ msg = Start(begun, trans[begun].with)
    OBVIOUS
  <2>4. SendAll(n, R, msg) /\ msg.type \in Requests
    BY <2>1, <2>3 DEF Start, Requests
  <2>5. loop'[n] = "started" /\ \A p \in Node : p # n => loop'[p] = loop[p]
    BY <2>1, GoesAt
  <2> QED
    BY <2>1, <2>2, <2>4, <2>5, HandoverInside
<1> QED
  BY <1>1, <1>2

\* In the critical section nothing of the lock heads for anybody, and no other node is in it.
LEMMA Inside ==
  ASSUME TypeOK, Handover, NEW n \in Node, lockRequestActive[n]
  PROVE  /\ ~ Passing
         /\ \A x \in Node : Heading(chan, outbox, Release, x) = 0
         /\ \A u \in Node : Heading(chan, outbox, Ack(u), u) = 0
         /\ \A p \in Node : lockAckCounter[p] = 0
         /\ \A p \in Node : p # n => /\ ~ lockRequestActive[p] /\ loop[p] = "wait"
                                     /\ \A x \in outbox[p] : x[2] # Release
<1>1. Held /\ ~ Passing
  BY DEF Held, Passing
<1>2. \A x \in Node : Heading(chan, outbox, Release, x) = 0
  BY <1>1 DEF Handover, Releasing
<1>3. \A u \in Node : Heading(chan, outbox, Ack(u), u) = 0
  BY <1>1 DEF Handover, Acking
<1>4. \A p \in Node : lockAckCounter[p] = 0
  BY <1>1 DEF Handover, Counting
<1>5. ASSUME NEW p \in Node, p # n PROVE ~ lockRequestActive[p] /\ loop[p] = "wait"
  <2>1. ~ lockRequestActive[p]
    BY <1>5 DEF Handover, Exclusive
  <2>2. loop[p] \notin {"asked", "started", "released"}
    BY <1>1, <2>1 DEF Handover, Turns
  <2> QED
    BY <2>1, <2>2 DEF TypeOK
<1>6. \A p \in Node : p # n => \A x \in outbox[p] : x[2] # Release
  BY <1>5 DEF Handover, Releasing
<1> QED
  BY <1>1, <1>2, <1>3, <1>4, <1>5, <1>6

\* The lock is released: every node but the one whose turn it is is due.
LEMMA HandoverExit ==
  ASSUME TypeOK, TypeOK', Handover, NEW n \in Node, Exit(n)
  PROVE  Handover' /\ turn' = turn /\ (turn # Nobody => Due' = Node \ {turn})
<1>1. /\ loop[n] = "started" /\ outbox[n] = {}
      /\ lockRequestActive' = [lockRequestActive EXCEPT ![n] = FALSE]
      /\ UNCHANGED <<chan, lockAckCounter, trans, begun>>
      /\ SendAll(n, IF turn = Nobody THEN {} ELSE Tree(n), Release) /\ Goes(n, "released")
  BY DEF Exit, At
<1>2. PICK R : R = IF turn = Nobody THEN {} ELSE Tree(n)
  OBVIOUS
<1>3. SendAll(n, R, Release) /\ turn' = turn
  BY <1>1, <1>2 DEF turn
<1>4. lockRequestActive[n] /\ begun >= 1 /\ n = trans[begun].by
  BY <1>1 DEF Handover, Turns
<1>5. /\ \A x \in Node : Heading(chan, outbox, Release, x) = 0
      /\ \A u \in Node : Heading(chan, outbox, Ack(u), u) = 0
      /\ \A p \in Node : lockAckCounter[p] = 0
      /\ \A p \in Node : p # n => /\ ~ lockRequestActive[p] /\ loop[p] = "wait"
                                  /\ \A x \in outbox[p] : x[2] # Release
  BY <1>4, Inside
<1>6. /\ \A p \in Node : ~ lockRequestActive'[p]
      /\ loop'[n] = "released" /\ \A p \in Node : p # n => loop'[p] = "wait"
  BY <1>1, <1>5, GoesAt DEF TypeOK
<1>7. ~ Held' /\ (Passing' <=> turn # Nobody)
  BY <1>3, <1>6 DEF Held, Passing
<1>8. PICK net, box, box2 : net = chan /\ box = outbox /\ box2 = outbox'
  OBVIOUS
<1>9. net \in Channels(Message) /\ chan' = net
  BY <1>1, <1>8, TurnType
<1>10. \A p, r \in Node : On(net, box2, p, r, Release)
                            = On(net, box, p, r, Release) + (IF p = n /\ r \in R THEN 1 ELSE 0)
  <2> SUFFICES ASSUME NEW p \in Node, NEW r \in Node
               PROVE  On(net, box2, p, r, Release)
                        = On(net, box, p, r, Release) + (IF p = n /\ r \in R THEN 1 ELSE 0)
    OBVIOUS
  <2>1. PICK m : m = Release
    OBVIOUS
  <2>2. On(net, box2, p, r, m) = On(net, box, p, r, m) + (IF p = n /\ r \in R /\ m = m THEN 1 ELSE 0)
    BY <1>1, <1>3, <1>8, <1>9, <2>1, OnSendAll
  <2> QED
    BY <2>1, <2>2
<1>11. ASSUME NEW u \in Node
       PROVE  /\ \A p, r \in Node : On(net, box2, p, r, Ack(u)) = On(net, box, p, r, Ack(u))
              /\ Heading(net, box2, Ack(u), u) = 0
  <2>1. PICK m : m = Ack(u) /\ m # Release
    BY TurnType
  <2>2. ASSUME NEW p \in Node, NEW r \in Node PROVE On(net, box2, p, r, m) = On(net, box, p, r, m)
    <3>1. PICK msg : msg = Release
      OBVIOUS
    <3>2. /\ On(net, box2, p, r, m) = On(net, box, p, r, m) + (IF p = n /\ r \in R /\ m = msg THEN 1 ELSE 0)
          /\ On(net, box, p, r, m) \in Nat
      BY <1>1, <1>3, <1>8, <1>9, <3>1, OnSendAll
    <3> QED
      BY <2>1, <3>1, <3>2
  <2>3. Heading(net, box2, m, u) = Heading(net, box, m, u)
    BY <1>9, <2>2, HeadingSame
  <2> QED
    BY <1>5, <1>8, <2>1, <2>2, <2>3
<1>12. ASSUME NEW x \in Node
       PROVE  Heading(net, box2, Release, x) = IF turn = Nobody \/ x = n THEN 0 ELSE 1
  <2>1. PICK m : m = Release
    OBVIOUS
  <2>2. \A p, r \in Node : /\ On(net, box2, p, r, m) = On(net, box, p, r, m) + (IF p = n /\ r \in R THEN 1 ELSE 0)
                           /\ On(net, box, p, r, m) \in Nat
    BY <1>9, <1>10, <2>1, HeadingType
  <2>3. Heading(net, box, m, x) = 0
    BY <1>5, <1>8, <2>1
  <2>4. CASE turn = Nobody
    <3>1. \A p, r \in Node : On(net, box2, p, r, m) = On(net, box, p, r, m)
      BY <1>2, <2>2, <2>4
    <3> QED
      BY <1>9, <2>1, <2>3, <2>4, <3>1, HeadingSame
  <2>5. CASE turn # Nobody
    <3>1. Heading(net, box2, m, x) = Heading(net, box, m, x) + (IF x = n THEN 0 ELSE 1)
      BY <1>2, <1>9, <2>2, <2>5, HeadingOut
    <3> QED
      BY <2>1, <2>3, <2>5, <3>1
  <2> QED
    BY <2>4, <2>5
<1>13. Exclusive'
  BY <1>6 DEF Exclusive
<1>14. Ways'
  <2> SUFFICES ASSUME NEW p \in Node, NEW r \in Node, NEW m \in LockMessages, On(net, box2, p, r, m) # 0
               PROVE  r \in Tree(p)
    BY <1>8, <1>9 DEF Ways
  <2>1. CASE On(net, box, p, r, m) # 0
    BY <1>8, <2>1 DEF Handover, Ways
  <2>2. CASE On(net, box, p, r, m) = 0
    <3>1. m = Release
      BY <1>11, <2>2 DEF LockMessages
    <3>2. p = n /\ r \in R
      BY <1>10, <2>2, <3>1
    <3> QED
      BY <1>2, <3>2
  <2> QED
    BY <2>1, <2>2
<1>15. Acking' /\ Counting'
  BY <1>1, <1>5, <1>8, <1>9, <1>11 DEF Acking, Counting
<1>16. Releasing'
  <2>1. \A x \in Node : /\ Heading(net, box2, Release, x) <= 1
                        /\ Heading(net, box2, Release, x) # 0 => turn # Nobody /\ x # trans[begun].by
    BY <1>4, <1>12
  <2>2. \A p \in Node : \A x \in outbox'[p] : x[2] = Release => loop'[p] = "released"
    BY <1>3, <1>5, <1>6, SendAllAt
  <2> QED
    BY <1>1, <1>7, <1>8, <1>9, <2>1, <2>2 DEF Releasing
<1>17. turn # Nobody => Due' = Node \ {turn}
  <2> SUFFICES ASSUME turn # Nobody PROVE Due' = Node \ {turn}
    OBVIOUS
  <2>1. \A x \in Node : Heading(net, box2, Release, x) # 0 \/ loop'[x] = "released"
    BY <1>6, <1>12
  <2> QED
    BY <1>3, <1>8, <1>9, <2>1 DEF Due
<1>18. Owing'
  <2> SUFFICES ASSUME turn # Nobody
               PROVE  Heading(net, box2, Ack(turn), turn) + lockAckCounter[turn] + Cardinality(Due')
                        = Cardinality(Node) - 1
    BY <1>1, <1>3, <1>7, <1>8, <1>9 DEF Owing
  <2>1. turn \in Node
    BY TurnType
  <2>2. Due' = Node \ {turn}
    BY <1>17
  <2>3. Cardinality(Node \ {turn}) = Cardinality(Node) - 1
    BY <2>1, NodeAssumption, FS_RemoveElement
  <2>4. Heading(net, box2, Ack(turn), turn) = 0 /\ lockAckCounter[turn] = 0
    <3>1. PICK t \in Node : t = turn
      BY <2>1
    <3> QED
      BY <1>5, <1>11, <3>1
  <2>5. Cardinality(Node) \in Nat
    BY Scripted
  <2> QED
    BY <2>2, <2>3, <2>4, <2>5
<1>19. Turns'
  BY <1>1, <1>4, <1>6, <1>7 DEF Turns
<1> QED
  BY <1>3, <1>13, <1>14, <1>15, <1>16, <1>17, <1>18, <1>19 DEF Handover

LEMMA CounterType == ASSUME TypeOK, NEW x \in Node PROVE lockAckCounter[x] \in Nat
<1>1. Cardinality(Node) - 2 \in Int
  BY Scripted
<1> QED
  BY <1>1 DEF TypeOK

\* One node less is due, as it has sent its acknowledgement, or is the one whose turn it is.
LEMMA DueLess ==
  ASSUME TypeOK, NEW n \in Node, turn' = turn,
         \A x \in Node : x # n => /\ Heading(chan', outbox', Release, x) = Heading(chan, outbox, Release, x)
                                  /\ loop'[x] = loop[x],
         Heading(chan', outbox', Release, n) = 0, loop'[n] # "released",
         n = turn \/ n \in Due
  PROVE  /\ IsFiniteSet(Due) /\ Cardinality(Due) \in Nat /\ Due' = Due \ {n}
         /\ Cardinality(Due') + (IF n = turn THEN 0 ELSE 1) = Cardinality(Due)
<1>1. IsFiniteSet(Due) /\ Cardinality(Due) \in Nat
  <2>1. Due \subseteq Node
    BY DEF Due
  <2> QED
    BY <2>1, NodeAssumption, FS_Subset, FS_CardinalityType
<1>2. Due' = Due \ {n}
  BY DEF Due
<1>3. CASE n = turn
  <2>1. Due' = Due
    BY <1>2, <1>3 DEF Due
  <2> QED
    BY <1>1, <1>2, <1>3, <2>1
<1>4. CASE n # turn
  <2>1. PICK D, D2 : D = Due /\ D2 = Due'
    OBVIOUS
  <2>2. IsFiniteSet(D) /\ n \in D /\ D2 = D \ {n} /\ Cardinality(D) \in Nat
    BY <1>1, <1>2, <1>4, <2>1
  <2>3. Cardinality(D2) = Cardinality(D) - 1
    BY <2>2, FS_RemoveElement
  <2> QED
    BY <1>1, <1>2, <1>4, <2>1, <2>2, <2>3
<1> QED
  BY <1>3, <1>4

LEMMA HandoverAckNext ==
  ASSUME TypeOK, TypeOK', Handover, NEW n \in Node, AckNext(n)
  PROVE  Handover'
<1>1. /\ loop[n] = "released" /\ outbox[n] = {}
      /\ UNCHANGED <<chan, lockRequestActive, lockAckCounter, trans, begun>>
      /\ SendAll(n, AckTo(n), Ack(turn)) /\ Goes(n, "wait")
  BY DEF AckNext, At, lock
<1>2. PICK R, t, net, box, box2 :
        R = AckTo(n) /\ t = turn /\ net = chan /\ box = outbox /\ box2 = outbox'
  OBVIOUS
<1>3. /\ net \in Channels(Message) /\ chan' = net
      /\ turn' = t /\ (Held' <=> Held) /\ (Passing' <=> Passing)
  BY <1>1, <1>2, TurnType DEF turn, Held, Passing
<1>4. /\ n = trans[begun].by /\ (Held => lockRequestActive[n])
      /\ loop'[n] = "wait" /\ \A p \in Node : p # n => loop'[p] = loop[p]
      /\ lockRequestActive[n] => n = t
  BY <1>1, <1>2, GoesAt DEF Handover, Turns
<1>5. /\ t = n \/ t = Nobody => R = {}
      /\ t # n /\ t # Nobody => R = Tree(n) /\ t \in Node /\ Passing
  <2>1. t # n /\ t # Nobody => ~ Held
    BY <1>4
  <2> QED
    BY <1>2, <2>1, TurnType DEF AckTo, Passing
<1>6. ASSUME NEW m, NEW p \in Node, NEW r \in Node
      PROVE  /\ On(net, box2, p, r, m) = On(net, box, p, r, m) + (IF p = n /\ r \in R /\ m = Ack(t) THEN 1 ELSE 0)
             /\ On(net, box, p, r, m) \in Nat
  <2>1. PICK msg : msg = Ack(t)
    OBVIOUS
  <2>2. SendAll(n, R, msg) /\ UNCHANGED chan
    BY <1>1, <1>2, <2>1
  <2>3. /\ On(net, box2, p, r, m) = On(net, box, p, r, m) + (IF p = n /\ r \in R /\ m = msg THEN 1 ELSE 0)
        /\ On(net, box, p, r, m) \in Nat
    BY <1>1, <1>2, <1>3, <2>2, OnSendAll
  <2> QED
    BY <2>1, <2>3
<1>7. ASSUME NEW m, m # Ack(t) \/ R = {}, NEW x \in Node
      PROVE  Heading(net, box2, m, x) = Heading(net, box, m, x)
  <2>1. \A p, r \in Node : On(net, box2, p, r, m) = On(net, box, p, r, m)
    BY <1>6, <1>7
  <2> QED
    BY <1>3, <2>1, HeadingSame
<1>8. t # n /\ t # Nobody => Heading(net, box2, Ack(t), t) = Heading(net, box, Ack(t), t) + 1
  <2> SUFFICES ASSUME t # n, t # Nobody
               PROVE  Heading(net, box2, Ack(t), t) = Heading(net, box, Ack(t), t) + 1
    OBVIOUS
  <2>1. PICK m : m = Ack(t)
    OBVIOUS
  <2>2. \A p, r \in Node : On(net, box2, p, r, m) = On(net, box, p, r, m) + (IF p = n /\ r \in Tree(n) THEN 1 ELSE 0)
    BY <1>5, <1>6, <2>1
  <2>3. Heading(net, box2, m, t) = Heading(net, box, m, t) + (IF t = n THEN 0 ELSE 1)
    BY <1>3, <1>5, <2>2, HeadingOut
  <2> QED
    BY <2>1, <2>3
<1>9. \A x \in Node : Heading(net, box2, Release, x) = Heading(net, box, Release, x)
  <2>1. Release # Ack(t)
    BY DEF Release, Ack
  <2> QED
    BY <1>7, <2>1
<1>10. Exclusive' /\ Counting' /\ Turns'
  BY <1>1, <1>2, <1>3, <1>4 DEF Handover, Exclusive, Counting, Turns
<1>11. Ways'
  <2> SUFFICES ASSUME NEW p \in Node, NEW r \in Node, NEW m \in LockMessages, On(net, box2, p, r, m) # 0
               PROVE  r \in Tree(p)
    BY <1>2, <1>3 DEF Ways
  <2>1. CASE On(net, box, p, r, m) # 0
    BY <1>2, <2>1 DEF Handover, Ways
  <2>2. CASE On(net, box, p, r, m) = 0
    BY <1>5, <1>6, <2>2
  <2> QED
    BY <2>1, <2>2
<1>12. Acking'
  <2> SUFFICES ASSUME NEW u \in Node, Heading(net, box2, Ack(u), u) # 0
               PROVE  Passing /\ u = t
    BY <1>2, <1>3 DEF Acking
  <2>1. CASE u = t /\ t # n /\ t # Nobody
    BY <1>5, <2>1
  <2>2. CASE ~ (u = t /\ t # n /\ t # Nobody)
    <3>1. PICK m : m = Ack(u)
      OBVIOUS
    <3>2. m # Ack(t) \/ R = {}
      BY <1>5, <2>2, <3>1, TurnType DEF Ack
    <3>3. Heading(net, box, m, u) # 0
      BY <1>7, <3>1, <3>2
    <3> QED
      BY <1>2, <3>1, <3>3 DEF Handover, Acking
  <2> QED
    BY <2>1, <2>2
<1>13. Releasing'
  <2>1. \A p \in Node : \A x \in outbox'[p] : x[2] = Release => loop'[p] = "released"
    <3>1. \A x \in outbox'[n] : x[2] # Release
      <4>1. \A x \in outbox'[n] : x[2] = Ack(turn)
        BY <1>1, SendAllAt
      <4> QED
        BY <4>1 DEF Ack, Release
    <3>2. \A p \in Node : p # n => outbox'[p] = outbox[p]
      BY <1>1, SendAllAt
    <3> QED
      BY <1>4, <3>1, <3>2 DEF Handover, Releasing
  <2> QED
    BY <1>1, <1>2, <1>3, <1>9, <2>1 DEF Handover, Releasing
<1>14. Owing'
  <2> SUFFICES ASSUME Passing
               PROVE  Heading(net, box2, Ack(t), t) + lockAckCounter[t] + Cardinality(Due') = Cardinality(Node) - 1
    BY <1>1, <1>2, <1>3 DEF Owing
  <2>1. t \in Node /\ t # Nobody
    BY <1>2, TurnType DEF Passing
  <2>2. Heading(net, box, Ack(t), t) + lockAckCounter[t] + Cardinality(Due) = Cardinality(Node) - 1
    BY <1>2 DEF Handover, Owing
  <2>3. Heading(chan', outbox', Release, n) = 0
    <3>1. Heading(net, box, Release, n) = 0
      BY <1>2, <1>4 DEF Handover, Releasing
    <3> QED
      BY <1>2, <1>3, <1>9, <3>1
  <2>4. n = turn \/ n \in Due
    BY <1>1 DEF Due
  <2>5. /\ Cardinality(Due) \in Nat
        /\ Cardinality(Due') + (IF n = t THEN 0 ELSE 1) = Cardinality(Due)
    <3>1. \A x \in Node : x # n => /\ Heading(chan', outbox', Release, x) = Heading(chan, outbox, Release, x)
                                   /\ loop'[x] = loop[x]
      BY <1>2, <1>3, <1>4, <1>9
    <3>2. turn' = turn /\ loop'[n] # "released"
      BY <1>2, <1>3, <1>4
    <3> QED
      BY <1>2, <2>3, <2>4, <3>1, <3>2, DueLess
  <2>6. /\ Heading(net, box2, Ack(t), t) = Heading(net, box, Ack(t), t) + (IF n = t THEN 0 ELSE 1)
        /\ Heading(net, box, Ack(t), t) \in Nat /\ lockAckCounter[t] \in Nat
    <3>1. Heading(net, box, Ack(t), t) \in Nat /\ lockAckCounter[t] \in Nat
      <4>1. PICK m : m = Ack(t)
        OBVIOUS
      <4>2. Heading(net, box, m, t) \in Nat
        BY <1>3, HeadingType
      <4>3. lockAckCounter[t] \in Nat
        BY <2>1, CounterType
      <4> QED
        BY <4>1, <4>2, <4>3
    <3>2. CASE n = t
      <4>1. PICK m : m = Ack(t)
        OBVIOUS
      <4>2. Heading(net, box2, m, t) = Heading(net, box, m, t)
        BY <1>5, <1>7, <2>1, <3>2
      <4> QED
        BY <3>1, <3>2, <4>1, <4>2
    <3>3. CASE n # t
      BY <1>8, <2>1, <3>1, <3>3
    <3> QED
      BY <3>2, <3>3
  <2>7. Cardinality(Due') \in Nat
    BY <2>5, FS_CardinalityType, NodeAssumption, FS_Subset DEF Due
  <2> QED
    BY <2>2, <2>5, <2>6, <2>7
<1> QED
  BY <1>10, <1>11, <1>12, <1>13, <1>14 DEF Handover

-----------------------------------------------------------------------------
\* A message of the lock that a node takes has come along the tree, to the node as well.
LEMMA LockTaken ==
  ASSUME TypeOK, Handover, NEW n \in Node, NEW q \in Node, Pending(q, n), NEW m \in LockMessages,
         Head(chan[q][n]) = m
  PROVE  /\ q \in Tree(n) /\ n \in Tree(q) /\ n \in Beyond(q, n)
         /\ On(chan, outbox, q, n, m) \in Nat /\ On(chan, outbox, q, n, m) >= 1
         /\ On(chan, outbox, q, n, m) <= Heading(chan, outbox, m, n)
         /\ Heading(chan, outbox, m, n) \in Nat /\ Heading(chan, outbox, m, n) # 0
<1>1. On(chan, outbox, q, n, m) \in Nat /\ On(chan, outbox, q, n, m) >= 1
  <2>1. chan[q][n] \in Seq(Message) /\ chan[q][n] # <<>>
    BY DEF TypeOK, Pending
  <2>2. Copies(chan[q][n], {m}) \in Nat /\ Copies(chan[q][n], {m}) # 0
    <3>1. PICK s, S : s = chan[q][n] /\ S = {m}
      OBVIOUS
    <3>2. s \in Seq(Message) /\ 1 \in DOMAIN s /\ s[1] \in S
      BY <2>1, <3>1, Uncons
    <3>3. Copies(s, S) \in Nat /\ Copies(s, S) # 0
      BY <3>2, CopiesType
    <3> QED
      BY <3>1, <3>3
  <2> QED
    BY <2>2 DEF On
<1>2. n \in Tree(q)
  BY <1>1 DEF Handover, Ways
<1>3. q \in Tree(n) /\ n \in Beyond(q, n)
  BY <1>2, Edges
<1>4. PICK net, box : net = chan /\ box = outbox /\ net \in Channels(Message)
  BY TurnType
<1>5. On(net, box, q, n, m) <= Heading(net, box, m, n) /\ Heading(net, box, m, n) \in Nat
  BY <1>3, <1>4, HeadingAt, HeadingType
<1> QED
  BY <1>1, <1>2, <1>3, <1>4, <1>5

LEMMA HandoverRelease ==
  ASSUME TypeOK, TypeOK', Handover, NEW n \in Node, NEW q \in Node, handle_lockRelease(n, q)
  PROVE  Handover' /\ Due' = Due \ {n} /\ turn' = turn
<1>1. /\ Pending(q, n) /\ Head(chan[q][n]) = Release
      /\ UNCHANGED <<loop, outbox, trans, begun, lockRequestActive, lockAckCounter>>
      /\ chan' = Exchanged(chan, q, n, Then(To(AckTo(n), Ack(turn)), To(Tree(n) \ {q}, Release)))
  <2>1. chan[q][n] # <<>> /\ Head(chan[q][n]) \in Message /\ Head(chan[q][n]).type = "lockRelease"
    BY TakesType DEF handle_lockRelease
  <2>2. Head(chan[q][n]) = Release
    BY <2>1 DEF Message, Release, Requests, Answers
  <2> QED
    BY <2>1, <2>2 DEF handle_lockRelease, Takes, loopVars, lock, Pending
<1>2. PICK R, t, net, box, net2, out :
        /\ R = AckTo(n) /\ t = turn /\ net = chan /\ box = outbox /\ net2 = chan'
        /\ out = Then(To(R, Ack(t)), To(Tree(n) \ {q}, Release))
  OBVIOUS
<1>3. Release \in LockMessages /\ \A u \in Node : Ack(u) \in LockMessages /\ Ack(u) # Release
  BY TurnType DEF LockMessages
<1>4. /\ q \in Tree(n) /\ n \in Tree(q) /\ n \in Beyond(q, n)
      /\ Heading(net, box, Release, n) = 1
  <2>1. /\ q \in Tree(n) /\ n \in Tree(q) /\ n \in Beyond(q, n)
        /\ Heading(net, box, Release, n) \in Nat /\ Heading(net, box, Release, n) # 0
    BY <1>1, <1>2, <1>3, LockTaken
  <2>2. Heading(net, box, Release, n) <= 1
    BY <1>2 DEF Handover, Releasing
  <2> QED
    BY <2>1, <2>2
<1>5. Passing /\ n # trans[begun].by /\ t \in Node /\ loop[n] # "released"
  <2>1. Passing /\ n # trans[begun].by
    BY <1>2, <1>4 DEF Handover, Releasing
  <2>2. loop[n] # "released"
    BY <2>1 DEF Handover, Turns
  <2> QED
    BY <1>2, <2>1, <2>2, TurnType DEF Passing
<1>6. R = IF t = n THEN {} ELSE Tree(n)
  BY <1>2, <1>5 DEF AckTo, Passing
<1>7. /\ net \in Channels(Message) /\ net2 \in Channels(Message) /\ chan' = net2 /\ outbox' = box
      /\ turn' = t /\ (Held' <=> Held) /\ Passing' /\ out \in Outgoing(Message)
      /\ chan' = Exchanged(chan, q, n, out)
  <2>1. net \in Channels(Message) /\ net2 \in Channels(Message)
    BY <1>2 DEF TypeOK, Channels, Outgoing
  <2>2. turn' = t /\ (Held' <=> Held)
    BY <1>1, <1>2 DEF turn, Held
  <2>3. out \in Outgoing(Message)
    BY <1>2, <1>5, Makes, ToType, ThenType
  <2> QED
    BY <1>1, <1>2, <1>5, <2>1, <2>2, <2>3 DEF Passing
<1>8. ASSUME NEW m, NEW r \in Node
      PROVE  /\ m = Release => Copies(out[r], {m}) = IF r \in Tree(n) \ {q} THEN 1 ELSE 0
             /\ m # Release => Copies(out[r], {m}) = IF r \in R /\ m = Ack(t) THEN 1 ELSE 0
  <2>1. PICK S, o1, o2, m1, T : /\ S = {m} /\ m1 = Ack(t) /\ T = Tree(n) \ {q}
                                /\ o1 = To(R, m1) /\ o2 = To(T, Release)
    OBVIOUS
  <2>2. o1 \in Outgoing(Message) /\ o2 \in Outgoing(Message) /\ out = Then(o1, o2)
    BY <1>2, <1>5, <2>1, Makes, ToType
  <2>3. Copies(out[r], S) = Copies(o1[r], S) + Copies(o2[r], S)
    BY <2>2, CopiesThen
  <2>4. Copies(To(R, m1)[r], S) = IF r \in R /\ m1 \in S THEN 1 ELSE 0
    BY CopiesOut
  <2>5. Copies(To(T, Release)[r], S) = IF r \in T /\ Release \in S THEN 1 ELSE 0
    BY CopiesOut
  <2>6. m1 # Release
    BY <1>3, <1>5, <2>1
  <2>7. /\ m1 \in S <=> m = m1
        /\ Release \in S <=> m = Release
    BY <2>1
  <2>8. CASE m = Release
    <3>1. Copies(out[r], S) = IF r \in T THEN 1 ELSE 0
      BY <2>1, <2>3, <2>4, <2>5, <2>6, <2>7, <2>8
    <3> QED
      BY <2>1, <2>8, <3>1
  <2>9. CASE m # Release
    <3>1. Copies(out[r], S) = IF r \in R /\ m = m1 THEN 1 ELSE 0
      BY <2>1, <2>3, <2>4, <2>5, <2>7, <2>9
    <3> QED
      BY <2>1, <2>9, <3>1
  <2> QED
    BY <2>8, <2>9
<1>9. ASSUME NEW m, NEW p \in Node, NEW r \in Node
      PROVE  /\ On(net2, box, p, r, m) + (IF p = q /\ r = n /\ Release = m THEN 1 ELSE 0)
                  = On(net, box, p, r, m) + (IF p = n THEN Copies(out[r], {m}) ELSE 0)
             /\ On(net2, box, p, r, m) \in Nat /\ On(net, box, p, r, m) \in Nat
  <2>1. Pending(q, n) /\ chan' = Exchanged(chan, q, n, out) /\ UNCHANGED outbox /\ out \in Outgoing(Message)
    BY <1>1, <1>7
  <2>2. PICK h : h = Head(chan[q][n])
    OBVIOUS
  <2>3. /\ On(chan', outbox', p, r, m) + (IF p = q /\ r = n /\ Head(chan[q][n]) = m THEN 1 ELSE 0)
             = On(chan, outbox, p, r, m) + (IF p = n THEN Copies(out[r], {m}) ELSE 0)
        /\ On(chan', outbox', p, r, m) \in Nat /\ On(chan, outbox, p, r, m) \in Nat
    BY <2>1, OnExchanged
  <2> QED
    BY <1>1, <1>2, <1>7, <2>3
<1>10. \A x \in Node : Heading(net2, box, Release, x) + (IF x = n THEN 1 ELSE 0) = Heading(net, box, Release, x)
  <2>1. PICK m : m = Release /\ m # Ack(t)
    BY <1>3, <1>5
  <2>2. ASSUME NEW p \in Node, NEW r \in Node
        PROVE  On(net2, box, p, r, m) + (IF p = q /\ r = n THEN 1 ELSE 0)
                 = On(net, box, p, r, m) + (IF p = n /\ r \in Tree(n) \ {q} THEN 1 ELSE 0)
    <3>1. Copies(out[r], {m}) = IF r \in Tree(n) \ {q} THEN 1 ELSE 0
      BY <1>8, <2>1
    <3>2. /\ On(net2, box, p, r, m) + (IF p = q /\ r = n THEN 1 ELSE 0)
               = On(net, box, p, r, m) + (IF p = n THEN Copies(out[r], {m}) ELSE 0)
          /\ On(net, box, p, r, m) \in Nat
      BY <1>9, <2>1
    <3> QED
      BY <3>1, <3>2
  <2> QED
    BY <1>4, <1>7, <2>1, <2>2, HeadingOn
<1>11. ASSUME NEW u \in Node
       PROVE  Heading(net2, box, Ack(u), u) = Heading(net, box, Ack(u), u) + (IF u = t /\ n # t THEN 1 ELSE 0)
  <2>1. PICK m : m = Ack(u) /\ m # Release /\ (m = Ack(t) <=> u = t)
    BY <1>5, TurnType
  <2>2. ASSUME NEW p \in Node, NEW r \in Node
        PROVE  /\ On(net2, box, p, r, m)
                    = On(net, box, p, r, m) + (IF p = n /\ u = t /\ r \in R THEN 1 ELSE 0)
               /\ On(net, box, p, r, m) \in Nat
    <3>1. Copies(out[r], {m}) = IF u = t /\ r \in R THEN 1 ELSE 0
      BY <1>8, <2>1
    <3>2. /\ On(net2, box, p, r, m) + (IF p = q /\ r = n /\ Release = m THEN 1 ELSE 0)
               = On(net, box, p, r, m) + (IF p = n THEN Copies(out[r], {m}) ELSE 0)
          /\ On(net2, box, p, r, m) \in Nat /\ On(net, box, p, r, m) \in Nat
      BY <1>9
    <3> QED
      BY <2>1, <3>1, <3>2
  <2>3. CASE u = t /\ n # t
    <3>1. \A p, r \in Node : On(net2, box, p, r, m)
                               = On(net, box, p, r, m) + (IF p = n /\ r \in Tree(n) THEN 1 ELSE 0)
      BY <1>6, <2>2, <2>3
    <3>2. Heading(net2, box, m, u) = Heading(net, box, m, u) + (IF u = n THEN 0 ELSE 1)
      BY <1>7, <3>1, HeadingOut
    <3> QED
      BY <2>1, <2>3, <3>2
  <2>4. CASE ~ (u = t /\ n # t)
    <3>1. \A p, r \in Node : On(net2, box, p, r, m) = On(net, box, p, r, m)
      BY <1>6, <2>2, <2>4
    <3>2. Heading(net2, box, m, u) = Heading(net, box, m, u) /\ Heading(net, box, m, u) \in Nat
      BY <1>7, <3>1, HeadingSame, HeadingType
    <3> QED
      BY <2>1, <2>4, <3>2
  <2> QED
    BY <2>3, <2>4
<1>12. Exclusive' /\ Counting' /\ Turns'
  BY <1>1, <1>2, <1>5, <1>7 DEF Handover, Exclusive, Counting, Turns
<1>13. Ways'
  <2> SUFFICES ASSUME NEW p \in Node, NEW r \in Node, NEW m \in LockMessages, On(net2, box, p, r, m) # 0
               PROVE  r \in Tree(p)
    BY <1>7 DEF Ways
  <2>1. CASE On(net, box, p, r, m) # 0
    BY <1>2, <2>1 DEF Handover, Ways
  <2>2. CASE On(net, box, p, r, m) = 0
    <3>1. p = n /\ Copies(out[r], {m}) # 0
      <4>1. /\ On(net2, box, p, r, m) + (IF p = q /\ r = n /\ Release = m THEN 1 ELSE 0)
                 = On(net, box, p, r, m) + (IF p = n THEN Copies(out[r], {m}) ELSE 0)
            /\ On(net2, box, p, r, m) \in Nat
        BY <1>9
      <4> QED
        BY <2>2, <4>1
    <3>2. r \in R \/ r \in Tree(n)
      <4>1. /\ m = Release => Copies(out[r], {m}) = IF r \in Tree(n) \ {q} THEN 1 ELSE 0
            /\ m # Release => Copies(out[r], {m}) = IF r \in R /\ m = Ack(t) THEN 1 ELSE 0
        BY <1>8
      <4> QED
        BY <3>1, <4>1
    <3> QED
      BY <1>6, <3>1, <3>2
  <2> QED
    BY <2>1, <2>2
<1>14. Acking'
  <2> SUFFICES ASSUME NEW u \in Node, Heading(net2, box, Ack(u), u) # 0
               PROVE  u = t
    BY <1>7 DEF Acking
  <2>1. CASE u # t
    <3>1. Heading(net, box, Ack(u), u) \in Nat
      <4>1. PICK m : m = Ack(u)
        OBVIOUS
      <4> QED
        BY <1>7, <4>1, HeadingType
    <3>2. Heading(net, box, Ack(u), u) # 0
      BY <1>11, <2>1, <3>1
    <3> QED
      BY <1>2, <3>2 DEF Handover, Acking
  <2> QED
    BY <2>1
<1>15. \A x \in Node : Heading(net, box, Release, x) \in Nat /\ Heading(net2, box, Release, x) \in Nat
  <2>1. PICK m : m = Release
    OBVIOUS
  <2> QED
    BY <1>7, <2>1, HeadingType
<1>16. Releasing'
  <2>1. \A x \in Node : /\ Heading(net2, box, Release, x) <= 1
                        /\ Heading(net2, box, Release, x) # 0 => x # trans[begun].by
    <3> SUFFICES ASSUME NEW x \in Node
                 PROVE  /\ Heading(net2, box, Release, x) <= 1
                        /\ Heading(net2, box, Release, x) # 0 => x # trans[begun].by
      OBVIOUS
    <3>1. /\ Heading(net, box, Release, x) <= 1
          /\ Heading(net, box, Release, x) # 0 => x # trans[begun].by
      BY <1>2 DEF Handover, Releasing
    <3> QED
      BY <1>10, <1>15, <3>1
  <2>2. \A p \in Node : \A x \in box[p] : x[2] = Release => loop[p] = "released"
    BY <1>2 DEF Handover, Releasing
  <2> QED
    BY <1>1, <1>7, <2>1, <2>2 DEF Releasing
<1>17. /\ IsFiniteSet(Due) /\ Cardinality(Due) \in Nat /\ Due' = Due \ {n}
      /\ Cardinality(Due') + (IF n = t THEN 0 ELSE 1) = Cardinality(Due)
  <2>1. \A x \in Node : x # n => /\ Heading(chan', outbox', Release, x) = Heading(chan, outbox, Release, x)
                                 /\ loop'[x] = loop[x]
    BY <1>1, <1>2, <1>7, <1>10, <1>15
  <2>2. Heading(chan', outbox', Release, n) = 0 /\ loop'[n] # "released" /\ turn' = turn
    <3>1. Heading(net2, box, Release, n) = 0
      BY <1>4, <1>10, <1>15
    <3> QED
      BY <1>1, <1>2, <1>5, <1>7, <3>1
  <2>3. n = turn \/ n \in Due
    BY <1>2, <1>4 DEF Due
  <2> QED
    BY <1>2, <2>1, <2>2, <2>3, DueLess
<1>18. Owing'
  <2> SUFFICES Heading(net2, box, Ack(t), t) + lockAckCounter[t] + Cardinality(Due') = Cardinality(Node) - 1
    BY <1>1, <1>7 DEF Owing
  <2>1. Heading(net, box, Ack(t), t) + lockAckCounter[t] + Cardinality(Due) = Cardinality(Node) - 1
    BY <1>2, <1>5 DEF Handover, Owing
  <2>2. /\ Heading(net2, box, Ack(t), t) = Heading(net, box, Ack(t), t) + (IF n # t THEN 1 ELSE 0)
        /\ Heading(net, box, Ack(t), t) \in Nat /\ lockAckCounter[t] \in Nat
    <3>1. PICK m : m = Ack(t)
      OBVIOUS
    <3>2. Heading(net, box, m, t) \in Nat
      BY <1>7, HeadingType
    <3> QED
      BY <1>5, <1>11, <3>1, <3>2, CounterType
  <2>3. Cardinality(Due') \in Nat
    BY <1>17, FS_Subset, FS_CardinalityType
  <2> QED
    BY <1>17, <2>1, <2>2, <2>3
<1> QED
  BY <1>2, <1>7, <1>12, <1>13, <1>14, <1>16, <1>17, <1>18 DEF Handover

-----------------------------------------------------------------------------
(***************************************************************************)
(* The acknowledgements sweep the tree before them: as long as the lock is *)
(* passing, a message that is on its way to the one whose turn it is has   *)
(* behind it an acknowledgement, or a node that still owes one.            *)
(***************************************************************************)
Followed(p, r, i) ==
  \/ \E x \in Due : x \notin Beyond(p, r)
  \/ \E a \in Node : \E b \in Tree(a) :
       On(chan, outbox, a, b, Ack(turn)) # 0 /\ turn \in Beyond(a, b) /\ b \notin Beyond(p, r)
  \/ \E j \in DOMAIN chan[p][r] : j > i /\ chan[p][r][j] = Ack(turn)
  \/ <<r, Ack(turn)>> \in outbox[p]
Swept(X) ==
  Passing => \A p \in Node : \A r \in Tree(p) : turn \in Beyond(p, r) =>
    \A i \in DOMAIN chan[p][r] : chan[p][r][i] \in X => Followed(p, r, i)

LEMMA CountedValue ==
  ASSUME TypeOK, NEW n \in Node
  PROVE  /\ lockAckCounter[n] \in Nat /\ Counted(n) \in Nat
         /\ Counted(n) = 0 => lockAckCounter[n] + 1 = Cardinality(Node) - 1
         /\ Counted(n) # 0 => Counted(n) = lockAckCounter[n] + 1
<1>1. PICK c, d : c = lockAckCounter[n] /\ d = Cardinality(Node) - 1
  OBVIOUS
<1>2. d \in Nat /\ d >= 1 /\ c \in Nat /\ c + 1 <= d
  <2>1. Cardinality(Node) \in Nat /\ Cardinality(Node) >= 2
    BY Scripted
  <2>2. lockAckCounter[n] \in 0 .. Cardinality(Node) - 2
    BY DEF TypeOK
  <2> QED
    BY <1>1, <2>1, <2>2
<1>3. Counted(n) = (c + 1) % d
  BY <1>1 DEF Counted
<1>4. CASE c + 1 = d
  <2>1. (c + 1) % d = 0
    BY <1>2, <1>4
  <2> QED
    BY <1>1, <1>2, <1>3, <1>4, <2>1
<1>5. CASE c + 1 < d
  <2>1. (c + 1) % d = c + 1
    BY <1>2, <1>5
  <2> QED
    BY <1>1, <1>2, <1>3, <1>5, <2>1
<1> QED
  BY <1>2, <1>4, <1>5

\* With the last acknowledgement all have been paid, and nothing they have swept is left.
LEMMA Granted ==
  ASSUME TypeOK, Handover, NEW n \in Node, NEW q \in Node, Pending(q, n), Head(chan[q][n]) = Ack(n)
  PROVE  /\ Passing /\ turn = n
         /\ Counted(n) = 0 => /\ Heading(chan, outbox, Ack(n), n) = 1 /\ Due = {}
                              /\ \A p \in Node : \A r \in Tree(p) : n \in Beyond(p, r) => <<r, Release>> \notin outbox[p]
                              /\ \A X : Swept(X) =>
                                   \A p \in Node : \A r \in Tree(p) : n \in Beyond(p, r) =>
                                     \A i \in DOMAIN chan[p][r] : chan[p][r][i] \notin X
<1>1. PICK net, box, m : net = chan /\ box = outbox /\ m = Ack(n)
  OBVIOUS
<1>2. net \in Channels(Message) /\ m \in LockMessages
  BY <1>1, TurnType DEF LockMessages
<1>3. /\ q \in Tree(n) /\ n \in Tree(q) /\ n \in Beyond(q, n)
      /\ On(net, box, q, n, m) \in Nat /\ On(net, box, q, n, m) >= 1
      /\ On(net, box, q, n, m) <= Heading(net, box, m, n)
      /\ Heading(net, box, m, n) \in Nat /\ Heading(net, box, m, n) # 0
  BY <1>1, <1>2, LockTaken
<1>4. Passing /\ turn = n
  BY <1>1, <1>3 DEF Handover, Acking
<1> SUFFICES ASSUME Counted(n) = 0
             PROVE  /\ Heading(net, box, m, n) = 1 /\ Due = {}
                    /\ \A p \in Node : \A r \in Tree(p) : n \in Beyond(p, r) => <<r, Release>> \notin outbox[p]
                    /\ \A X : Swept(X) =>
                         \A p \in Node : \A r \in Tree(p) : n \in Beyond(p, r) =>
                           \A i \in DOMAIN chan[p][r] : chan[p][r][i] \notin X
  BY <1>1, <1>4
<1>5. Heading(net, box, m, n) = 1 /\ Due = {}
  <2>1. PICK D : D = Due
    OBVIOUS
  <2>2. IsFiniteSet(D) /\ Cardinality(D) \in Nat
    BY <2>1, NodeAssumption, FS_Subset, FS_CardinalityType DEF Due
  <2>3. Heading(net, box, m, n) + lockAckCounter[n] + Cardinality(D) = Cardinality(Node) - 1
    BY <1>1, <1>4, <2>1 DEF Handover, Owing
  <2>4. lockAckCounter[n] \in Nat /\ lockAckCounter[n] + 1 = Cardinality(Node) - 1
    BY CountedValue
  <2>5. Cardinality(D) = 0 /\ Heading(net, box, m, n) = 1
    BY <1>3, <2>2, <2>3, <2>4
  <2> QED
    BY <2>1, <2>2, <2>5, FS_EmptySet
<1>6. ASSUME NEW p \in Node, NEW r \in Tree(p), n \in Beyond(p, r) PROVE <<r, Release>> \notin outbox[p]
  <2>1. p # n
    BY <1>6, Edges
  <2>2. ASSUME <<r, Release>> \in outbox[p] PROVE loop[p] = "released"
    <3>1. PICK x : x = <<r, Release>>
      OBVIOUS
    <3>2. x \in outbox[p] /\ x[2] = Release
      BY <2>2, <3>1
    <3> QED
      BY <3>2 DEF Handover, Releasing
  <2>3. loop[p] # "released"
    BY <1>4, <1>5, <2>1 DEF Due
  <2> QED
    BY <2>2, <2>3
<1>7. On(net, box, q, n, m) = 1 /\ \A a, b \in Node : n \in Beyond(a, b) /\ (a # q \/ b # n) => On(net, box, a, b, m) = 0
  <2>1. On(net, box, q, n, m) = 1
    BY <1>3, <1>5
  <2>2. On(net, box, q, n, m) = Heading(net, box, m, n)
    BY <1>5, <2>1
  <2> QED
    BY <1>2, <1>3, <2>1, <2>2, HeadingAt
<1>8. /\ <<n, m>> \notin box[q]
      /\ \A j \in DOMAIN net[q][n] : net[q][n][j] = m => j = 1
  <2>1. PICK s, S : s = net[q][n] /\ S = {m}
    OBVIOUS
  <2>2. s \in Seq(Message) /\ s # <<>> /\ Head(s) = m
    BY <1>1, <2>1 DEF TypeOK, Pending
  <2>3. On(net, box, q, n, m) = Copies(s, S) + (IF <<n, m>> \in box[q] THEN 1 ELSE 0)
    BY <2>1 DEF On
  <2>4. Copies(s, S) = Copies(Tail(s), S) + 1 /\ Tail(s) \in Seq(Message)
    <3>1. Copies(s, S) = Copies(Tail(s), S) + IF Head(s) \in S THEN 1 ELSE 0
      BY <2>2, CopiesTail
    <3>2. Head(s) \in S /\ Tail(s) \in Seq(Message)
      BY <2>1, <2>2, Uncons
    <3> QED
      BY <3>1, <3>2
  <2>5. PICK u : u = Tail(s)
    OBVIOUS
  <2>6. Copies(u, S) \in Nat /\ (Copies(u, S) = 0 => \A i \in DOMAIN u : u[i] \notin S)
    BY <2>4, <2>5, CopiesType
  <2>7. Copies(u, S) = 0 /\ <<n, m>> \notin box[q]
    BY <1>7, <2>3, <2>4, <2>5, <2>6
  <2>8. \A j \in DOMAIN s : j = 1 \/ (j - 1 \in DOMAIN u /\ u[j - 1] = s[j])
    BY <2>2, <2>5, Uncons
  <2> QED
    BY <2>1, <2>6, <2>7, <2>8
<1>9. ASSUME NEW X, Swept(X), NEW p \in Node, NEW r \in Tree(p), n \in Beyond(p, r),
             NEW i \in DOMAIN chan[p][r], chan[p][r][i] \in X
      PROVE  FALSE
  <2>1. Followed(p, r, i)
    BY <1>4, <1>9 DEF Swept
  <2>2. r \in Node /\ i \in Nat /\ i >= 1
    <3>1. r \in Node
      BY TreeNodes
    <3>2. chan[p][r] \in Seq(Message)
      BY <3>1 DEF TypeOK
    <3> QED
      BY <3>1, <3>2, Elements
  <2>3. ~ \E x \in Due : x \notin Beyond(p, r)
    BY <1>5
  <2>4. ASSUME NEW a \in Node, NEW b \in Tree(a), On(net, box, a, b, m) # 0, n \in Beyond(a, b), b \notin Beyond(p, r)
        PROVE  FALSE
    <3>1. b \in Node
      BY TreeNodes
    <3>2. b = n
      BY <1>7, <2>4, <3>1
    <3> QED
      BY <1>9, <2>4, <3>2
  <2>5. ASSUME NEW j \in DOMAIN net[p][r], j > i, net[p][r][j] = m
        PROVE  FALSE
    <3>1. PICK s, S : s = net[p][r] /\ S = {m}
      OBVIOUS
    <3>2. s \in Seq(Message) /\ s[j] \in S
      BY <1>1, <2>2, <2>5, <3>1 DEF TypeOK
    <3>3. Copies(s, S) \in Nat /\ Copies(s, S) # 0
      BY <2>5, <3>1, <3>2, CopiesType
    <3>4. On(net, box, p, r, m) # 0
      BY <3>1, <3>3 DEF On
    <3>5. p = q /\ r = n
      BY <1>7, <1>9, <2>2, <3>4
    <3> QED
      BY <1>8, <2>2, <2>5, <3>5
  <2>6. ASSUME <<r, m>> \in box[p]
        PROVE  FALSE
    <3>1. Copies(net[p][r], {m}) \in Nat
      <4>1. net[p][r] \in Seq(Message)
        BY <1>1, <2>2 DEF TypeOK
      <4> QED
        BY <4>1, CopiesType
    <3>2. On(net, box, p, r, m) # 0
      BY <2>6, <3>1 DEF On
    <3>3. p = q /\ r = n
      BY <1>7, <1>9, <2>2, <3>2
    <3> QED
      BY <1>8, <2>6, <3>3
  <2> QED
    BY <1>1, <1>4, <2>1, <2>3, <2>4, <2>5, <2>6 DEF Followed
<1> QED
  BY <1>5, <1>6, <1>9

\* An acknowledgement is passed on, or counted, or is the last and grants the lock.
LEMMA AckTaken ==
  ASSUME TypeOK, NEW n \in Node, NEW q \in Node, handle_lockAck(n, q)
  PROVE  /\ Pending(q, n) /\ UNCHANGED <<loop, outbox, trans, begun>>
         /\ \E u \in Node : Head(chan[q][n]) = Ack(u) /\ Head(chan[q][n]).uid = u
<1>1. chan[q][n] # <<>> /\ Head(chan[q][n]) \in Message /\ Head(chan[q][n]).type = "lockAck"
  BY TakesType DEF handle_lockAck
<1>2. \E u \in Node : Head(chan[q][n]) = Ack(u) /\ Head(chan[q][n]).uid = u
  BY <1>1 DEF Message, Ack, Release, Requests, Answers
<1> QED
  BY <1>1, <1>2 DEF handle_lockAck, Takes, loopVars, Pending

LEMMA HandoverForward ==
  ASSUME TypeOK, TypeOK', Handover, NEW n \in Node, NEW q \in Node, Pending(q, n), NEW v \in Node, v # n,
         Head(chan[q][n]) = Ack(v), UNCHANGED <<loop, outbox, trans, begun, lockRequestActive, lockAckCounter>>,
         chan' = Exchanged(chan, q, n, To(Tree(n) \ {q}, Ack(v)))
  PROVE  /\ Handover' /\ Due' = Due /\ turn' = turn /\ (Passing' <=> Passing)
         /\ q \in Tree(n)
<1>1. PICK net, box, net2, h, R, out :
        /\ net = chan /\ box = outbox /\ net2 = chan' /\ h = Ack(v) /\ R = Tree(n) \ {q} /\ out = To(R, h)
  OBVIOUS
<1>2. /\ net \in Channels(Message) /\ net2 \in Channels(Message) /\ h \in Message /\ h \in LockMessages
      /\ h # Release /\ out \in Outgoing(Message) /\ chan' = Exchanged(chan, q, n, out) /\ UNCHANGED outbox
  <2>1. net \in Channels(Message) /\ net2 \in Channels(Message)
    BY <1>1 DEF TypeOK, Channels, Outgoing
  <2>2. h \in Message /\ h \in LockMessages /\ h # Release
    BY <1>1, TurnType DEF LockMessages
  <2> QED
    BY <1>1, <2>1, <2>2, ToType
<1>3. q \in Tree(n)
  BY <1>1, <1>2, LockTaken
<1>4. ASSUME NEW m, NEW p \in Node, NEW r \in Node
      PROVE  /\ On(net2, box, p, r, m) + (IF p = q /\ r = n /\ h = m THEN 1 ELSE 0)
                  = On(net, box, p, r, m) + (IF p = n /\ r \in R /\ h = m THEN 1 ELSE 0)
             /\ On(net2, box, p, r, m) \in Nat /\ On(net, box, p, r, m) \in Nat
  <2>1. /\ On(chan', outbox', p, r, m) + (IF p = q /\ r = n /\ Head(chan[q][n]) = m THEN 1 ELSE 0)
             = On(chan, outbox, p, r, m) + (IF p = n THEN Copies(out[r], {m}) ELSE 0)
        /\ On(chan', outbox', p, r, m) \in Nat /\ On(chan, outbox, p, r, m) \in Nat
    BY <1>2, OnExchanged
  <2>2. Copies(out[r], {m}) = IF r \in R /\ h = m THEN 1 ELSE 0
    <3>1. PICK S : S = {m}
      OBVIOUS
    <3>2. Copies(To(R, h)[r], S) = IF r \in R /\ h \in S THEN 1 ELSE 0
      BY CopiesOut
    <3> QED
      BY <1>1, <3>1, <3>2
  <2>3. outbox' = box /\ Head(chan[q][n]) = h
    BY <1>1
  <2> QED
    BY <1>1, <2>1, <2>2, <2>3
<1>5. ASSUME NEW m, m # h, NEW x \in Node PROVE Heading(net2, box, m, x) = Heading(net, box, m, x)
  <2>1. \A p, r \in Node : On(net2, box, p, r, m) = On(net, box, p, r, m)
    <3> SUFFICES ASSUME NEW p \in Node, NEW r \in Node PROVE On(net2, box, p, r, m) = On(net, box, p, r, m)
      OBVIOUS
    <3>1. /\ On(net2, box, p, r, m) + (IF p = q /\ r = n /\ h = m THEN 1 ELSE 0)
               = On(net, box, p, r, m) + (IF p = n /\ r \in R /\ h = m THEN 1 ELSE 0)
          /\ On(net2, box, p, r, m) \in Nat /\ On(net, box, p, r, m) \in Nat
      BY <1>4
    <3> QED
      BY <1>5, <3>1
  <2> QED
    BY <1>2, <2>1, HeadingSame
<1>6. ASSUME NEW x \in Node, x # n PROVE Heading(net2, box, h, x) = Heading(net, box, h, x)
  <2>1. \A p, r \in Node : On(net2, box, p, r, h) + (IF p = q /\ r = n THEN 1 ELSE 0)
                             = On(net, box, p, r, h) + (IF p = n /\ r \in Tree(n) \ {q} THEN 1 ELSE 0)
    <3> SUFFICES ASSUME NEW p \in Node, NEW r \in Node
                 PROVE  On(net2, box, p, r, h) + (IF p = q /\ r = n THEN 1 ELSE 0)
                          = On(net, box, p, r, h) + (IF p = n /\ r \in Tree(n) \ {q} THEN 1 ELSE 0)
      OBVIOUS
    <3>1. On(net2, box, p, r, h) + (IF p = q /\ r = n /\ h = h THEN 1 ELSE 0)
            = On(net, box, p, r, h) + (IF p = n /\ r \in R /\ h = h THEN 1 ELSE 0)
      BY <1>4
    <3> QED
      BY <1>1, <3>1
  <2>2. Heading(net2, box, h, x) + (IF x = n THEN 1 ELSE 0) = Heading(net, box, h, x)
    BY <1>2, <1>3, <2>1, HeadingOn
  <2>3. Heading(net2, box, h, x) \in Nat /\ Heading(net, box, h, x) \in Nat
    BY <1>2, HeadingType
  <2> QED
    BY <1>6, <2>2, <2>3
<1>7. /\ \A x \in Node : Heading(net2, box, Release, x) = Heading(net, box, Release, x)
      /\ \A u \in Node : Heading(net2, box, Ack(u), u) = Heading(net, box, Ack(u), u)
  <2>1. \A x \in Node : Heading(net2, box, Release, x) = Heading(net, box, Release, x)
    <3>1. PICK m : m = Release
      OBVIOUS
    <3> QED
      BY <1>2, <1>5, <3>1
  <2>2. ASSUME NEW u \in Node PROVE Heading(net2, box, Ack(u), u) = Heading(net, box, Ack(u), u)
    <3>1. PICK m : m = Ack(u)
      OBVIOUS
    <3>2. CASE u = v
      BY <1>1, <1>6, <3>2
    <3>3. CASE u # v
      <4>1. m # h
        BY <1>1, <3>1, <3>3, TurnType
      <4> QED
        BY <1>5, <3>1, <4>1
    <3> QED
      BY <3>2, <3>3
  <2> QED
    BY <2>1, <2>2
<1>8. Ways'
  <2> SUFFICES ASSUME NEW p \in Node, NEW r \in Node, NEW m \in LockMessages, On(net2, box, p, r, m) # 0
               PROVE  r \in Tree(p)
    BY <1>1 DEF Ways
  <2>1. CASE On(net, box, p, r, m) # 0
    BY <1>1, <2>1 DEF Handover, Ways
  <2>2. CASE On(net, box, p, r, m) = 0
    <3>1. /\ On(net2, box, p, r, m) + (IF p = q /\ r = n /\ h = m THEN 1 ELSE 0)
               = On(net, box, p, r, m) + (IF p = n /\ r \in R /\ h = m THEN 1 ELSE 0)
          /\ On(net2, box, p, r, m) \in Nat
      BY <1>4
    <3>2. p = n /\ r \in R
      BY <2>2, <3>1
    <3> QED
      BY <1>1, <3>2
  <2> QED
    BY <2>1, <2>2
<1> QED
  BY <1>1, <1>3, <1>7, <1>8, HandoverSame

LEMMA HandoverCount ==
  ASSUME TypeOK, TypeOK', Handover, Swept({Release}), NEW n \in Node, NEW q \in Node, Pending(q, n),
         Head(chan[q][n]) = Ack(n), UNCHANGED <<loop, outbox, trans, begun>>, chan' = Taken(chan, q, n),
         lockAckCounter' = [lockAckCounter EXCEPT ![n] = Counted(n)],
         lockRequestActive' = [lockRequestActive EXCEPT ![n] = @ \/ Counted(n) = 0]
  PROVE  /\ Handover' /\ Due' = Due /\ turn' = turn /\ turn = n /\ q \in Tree(n)
         /\ Passing' <=> Counted(n) # 0
<1>1. PICK net, box, net2, h : net = chan /\ box = outbox /\ net2 = chan' /\ h = Ack(n)
  OBVIOUS
<1>2. /\ net \in Channels(Message) /\ net2 \in Channels(Message) /\ h \in LockMessages /\ h # Release
      /\ chan' = Exchanged(chan, q, n, Nothing) /\ Nothing \in Outgoing(Message) /\ UNCHANGED outbox
  <2>1. net \in Channels(Message) /\ net2 \in Channels(Message)
    BY <1>1 DEF TypeOK, Channels, Outgoing
  <2>2. h \in LockMessages /\ h # Release
    BY <1>1, TurnType DEF LockMessages
  <2>3. chan' = Exchanged(chan, q, n, Nothing)
    BY TakenOnly DEF Pending
  <2> QED
    BY <2>1, <2>2, <2>3, NothingType
<1>3. /\ q \in Tree(n) /\ n \in Beyond(q, n)
      /\ Heading(net, box, h, n) \in Nat
  BY <1>1, <1>2, LockTaken
<1>4. /\ Passing /\ turn = n
      /\ Counted(n) = 0 => /\ Heading(net, box, h, n) = 1 /\ Due = {}
                           /\ \A p \in Node : \A r \in Tree(p) : n \in Beyond(p, r) =>
                                /\ <<r, Release>> \notin box[p]
                                /\ \A i \in DOMAIN net[p][r] : net[p][r][i] \notin {Release}
  BY <1>1, Granted
<1>5. ASSUME NEW m, NEW p \in Node, NEW r \in Node
      PROVE  On(net2, box, p, r, m) + (IF p = q /\ r = n /\ h = m THEN 1 ELSE 0) = On(net, box, p, r, m)
  <2>1. /\ On(chan', outbox', p, r, m) + (IF p = q /\ r = n /\ Head(chan[q][n]) = m THEN 1 ELSE 0)
             = On(chan, outbox, p, r, m) + (IF p = n THEN Copies(Nothing[r], {m}) ELSE 0)
        /\ On(chan', outbox', p, r, m) \in Nat /\ On(chan, outbox, p, r, m) \in Nat
    BY <1>2, OnExchanged
  <2>2. Copies(Nothing[r], {m}) = 0
    BY CopiesOut
  <2>3. outbox' = box /\ Head(chan[q][n]) = h
    BY <1>1
  <2> QED
    BY <1>1, <2>1, <2>2, <2>3
<1>6. ASSUME NEW m, m # h, NEW x \in Node PROVE Heading(net2, box, m, x) = Heading(net, box, m, x)
  <2>1. \A p, r \in Node : On(net, box, p, r, m) \in Nat /\ On(net2, box, p, r, m) \in Nat
    BY <1>2, HeadingType
  <2>2. \A p, r \in Node : On(net2, box, p, r, m) = On(net, box, p, r, m)
    <3> SUFFICES ASSUME NEW p \in Node, NEW r \in Node PROVE On(net2, box, p, r, m) = On(net, box, p, r, m)
      OBVIOUS
    <3>1. On(net2, box, p, r, m) + (IF p = q /\ r = n /\ h = m THEN 1 ELSE 0) = On(net, box, p, r, m)
      BY <1>5
    <3> QED
      BY <1>6, <2>1, <3>1
  <2> QED
    BY <1>2, <2>2, HeadingSame
<1>7. Heading(net2, box, h, n) + 1 = Heading(net, box, h, n) /\ Heading(net2, box, h, n) \in Nat
  <2>1. \A p, r \in Node : On(net2, box, p, r, h) + (IF p = q /\ r = n THEN 1 ELSE 0) = On(net, box, p, r, h)
    <3> SUFFICES ASSUME NEW p \in Node, NEW r \in Node
                 PROVE  On(net2, box, p, r, h) + (IF p = q /\ r = n THEN 1 ELSE 0) = On(net, box, p, r, h)
      OBVIOUS
    <3>1. On(net2, box, p, r, h) + (IF p = q /\ r = n /\ h = h THEN 1 ELSE 0) = On(net, box, p, r, h)
      BY <1>5
    <3> QED
      BY <3>1
  <2> QED
    BY <1>2, <1>3, <2>1, HeadingIn, HeadingType
<1>8. \A x \in Node : Heading(net2, box, Release, x) = Heading(net, box, Release, x)
  <2>1. PICK m : m = Release
    OBVIOUS
  <2> QED
    BY <1>2, <1>6, <2>1
<1>9. \A u \in Node : u # n => Heading(net2, box, Ack(u), u) = 0
  <2> SUFFICES ASSUME NEW u \in Node, u # n PROVE Heading(net2, box, Ack(u), u) = 0
    OBVIOUS
  <2>1. PICK m : m = Ack(u)
    OBVIOUS
  <2>2. m # h
    BY <1>1, <2>1, TurnType
  <2>3. Heading(net, box, m, u) = 0
    BY <1>1, <1>4, <2>1 DEF Handover, Acking
  <2> QED
    BY <1>6, <2>1, <2>2, <2>3
<1>10. turn' = turn /\ Due' = Due
  <2>1. turn' = turn
    BY DEF turn
  <2> QED
    BY <1>1, <1>8, <2>1 DEF Due
<1>11. Ways'
  <2> SUFFICES ASSUME NEW p \in Node, NEW r \in Node, NEW m \in LockMessages, On(net2, box, p, r, m) # 0
               PROVE  r \in Tree(p)
    BY <1>1 DEF Ways
  <2>1. On(net2, box, p, r, m) + (IF p = q /\ r = n /\ h = m THEN 1 ELSE 0) = On(net, box, p, r, m)
    BY <1>5
  <2>2. On(net2, box, p, r, m) \in Nat
    BY <1>2, HeadingType
  <2>3. On(net, box, p, r, m) # 0
    BY <2>1, <2>2
  <2> QED
    BY <1>1, <2>3 DEF Handover, Ways
<1>12. \A p \in Node : ~ lockRequestActive[p]
  BY <1>4 DEF Passing, Held
<1>13. /\ lockAckCounter'[n] = Counted(n)
       /\ \A p \in Node : p # n => lockAckCounter'[p] = 0
       /\ lockRequestActive'[n] <=> Counted(n) = 0
       /\ \A p \in Node : p # n => ~ lockRequestActive'[p]
  <2>1. lockAckCounter'[n] = Counted(n) /\ \A p \in Node : p # n => lockAckCounter'[p] = lockAckCounter[p]
    BY DEF TypeOK
  <2>2. \A p \in Node : p # n => lockAckCounter[p] = 0
    BY <1>4 DEF Handover, Counting
  <2>3. (lockRequestActive'[n] <=> Counted(n) = 0) /\ \A p \in Node : p # n => lockRequestActive'[p] = lockRequestActive[p]
    BY <1>12 DEF TypeOK
  <2> QED
    BY <1>12, <2>1, <2>2, <2>3
<1>14. (Held' <=> Counted(n) = 0) /\ (Passing' <=> Counted(n) # 0)
  <2>1. Held' <=> Counted(n) = 0
    BY <1>13 DEF Held
  <2>2. turn' # Nobody
    BY <1>4, <1>10 DEF Passing
  <2> QED
    BY <2>1, <2>2 DEF Passing
<1>15. Exclusive'
  BY <1>13 DEF Exclusive
<1>16. Counted(n) = 0 => \A x \in Node : Heading(net2, box, Release, x) = 0
  <2> SUFFICES ASSUME Counted(n) = 0, NEW x \in Node, Heading(net, box, Release, x) # 0 PROVE FALSE
    BY <1>8
  <2>1. x = n
    BY <1>1, <1>4 DEF Due
  <2>2. PICK m : m = Release
    OBVIOUS
  <2>3. PICK p \in Node, r \in Node : n \in Beyond(p, r) /\ On(net, box, p, r, m) # 0
    BY <1>2, <2>1, <2>2, HeadingAt
  <2>4. r \in Tree(p)
    <3>1. m \in LockMessages
      BY <2>2 DEF LockMessages
    <3> QED
      BY <1>1, <2>3, <3>1 DEF Handover, Ways
  <2>5. <<r, m>> \notin box[p] /\ \A i \in DOMAIN net[p][r] : net[p][r][i] \notin {m}
    BY <1>4, <2>2, <2>3, <2>4
  <2>6. Copies(net[p][r], {m}) = 0
    <3>1. PICK s, S : s = net[p][r] /\ S = {m}
      OBVIOUS
    <3>2. s \in Seq(Message)
      BY <1>2, <3>1 DEF Channels, Outgoing
    <3> QED
      BY <2>5, <3>1, <3>2, CopiesType
  <2>7. On(net, box, p, r, m) = 0
    BY <2>5, <2>6 DEF On
  <2> QED
    BY <2>3, <2>7
<1>17. Acking'
  <2>1. Counted(n) = 0 => Heading(net2, box, h, n) = 0
    BY <1>4, <1>7
  <2>2. \A u \in Node : Heading(net2, box, Ack(u), u) # 0 => u = n /\ Counted(n) # 0
    BY <1>1, <1>9, <2>1
  <2> QED
    BY <1>1, <1>4, <1>10, <1>14, <2>2 DEF Acking
<1>18. Releasing'
  <2>1. \A x \in Node : /\ Heading(net, box, Release, x) <= 1
                        /\ Heading(net, box, Release, x) # 0 => x # trans[begun].by
    BY <1>1 DEF Handover, Releasing
  <2>2. \A p \in Node : \A x \in box[p] : x[2] = Release => loop[p] = "released"
    BY <1>1 DEF Handover, Releasing
  <2> QED
    BY <1>1, <1>8, <1>14, <1>16, <2>1, <2>2 DEF Releasing
<1>19. Counting'
  BY <1>4, <1>10, <1>13, <1>14 DEF Counting
<1>20. Owing'
  <2> SUFFICES ASSUME Counted(n) # 0
               PROVE  Heading(net2, box, h, n) + Counted(n) + Cardinality(Due) = Cardinality(Node) - 1
    BY <1>1, <1>4, <1>10, <1>13, <1>14 DEF Owing
  <2>1. Heading(net, box, h, n) + lockAckCounter[n] + Cardinality(Due) = Cardinality(Node) - 1
    BY <1>1, <1>4 DEF Handover, Owing
  <2>2. Counted(n) = lockAckCounter[n] + 1 /\ lockAckCounter[n] \in Nat
    BY CountedValue
  <2>3. Cardinality(Due) \in Nat
    BY NodeAssumption, FS_Subset, FS_CardinalityType DEF Due
  <2> QED
    BY <1>7, <2>1, <2>2, <2>3
<1>21. Turns'
  <2> SUFFICES ASSUME NEW p \in Node
               PROVE  /\ loop[p] \notin {"asked", "started"}
                      /\ loop[p] = "released" =>
                           begun >= 1 /\ p = trans[begun].by /\ (Held' => lockRequestActive'[p])
                      /\ lockRequestActive'[p] => p = turn
    BY <1>10 DEF Turns
  <2>1. loop[p] \notin {"asked", "started"}
    BY <1>12 DEF Handover, Turns
  <2>2. ASSUME loop[p] = "released"
        PROVE  begun >= 1 /\ p = trans[begun].by /\ (Held' => lockRequestActive'[p])
    <3>1. begun >= 1 /\ p = trans[begun].by
      BY <2>2 DEF Handover, Turns
    <3>2. Counted(n) = 0 => p = n
      BY <1>4, <2>2 DEF Due
    <3> QED
      BY <1>13, <1>14, <3>1, <3>2
  <2> QED
    BY <1>4, <1>13, <2>1, <2>2
<1> QED
  BY <1>3, <1>4, <1>10, <1>11, <1>14, <1>15, <1>17, <1>18, <1>19, <1>20, <1>21 DEF Handover

\* Of two places in a channel, before a step and after, that hold the same message: whatever
\* followed it still does.
Stays(net, net2, p, r, k, i) ==
  /\ k \in DOMAIN net[p][r] /\ net2[p][r][i] = net[p][r][k]
  /\ \A j \in DOMAIN net[p][r] : j > k => \E l \in DOMAIN net2[p][r] : l > i /\ net2[p][r][l] = net[p][r][j]
Follows(net, p, r, i, m) == \E l \in DOMAIN net[p][r] : l > i /\ net[p][r][l] = m

\* A message under way was under way before, and what is sent now is sent behind it, or it is new.
LEMMA ShiftSent ==
  ASSUME NEW net \in Channels(Message), NEW n \in Node, NEW out \in Outgoing(Message),
         NEW net2, net2 = Sent(net, n, out), NEW p \in Node, NEW r \in Node, NEW i \in DOMAIN net2[p][r]
  PROVE  \/ p = n /\ \E k \in DOMAIN out[r] : net2[p][r][i] = out[r][k]
         \/ /\ Stays(net, net2, p, r, i, i)
            /\ p = n => \A k \in DOMAIN out[r] : Follows(net2, p, r, i, out[r][k])
<1>1. PICK s, t, u : s = net[p][r] /\ t = out[r] /\ u = net2[p][r]
  OBVIOUS
<1>2. s \in Seq(Message) /\ t \in Seq(Message) /\ i \in DOMAIN u
  BY <1>1 DEF Channels, Outgoing
<1>3. u = IF p = n THEN s \o t ELSE s
  BY <1>1, SentAt
<1>4. CASE p # n
  BY <1>1, <1>2, <1>3, <1>4 DEF Stays
<1>5. CASE p = n
  <2>1. u = s \o t
    BY <1>3, <1>5
  <2>2. /\ \A j \in DOMAIN s : j \in Nat /\ j \in DOMAIN u /\ u[j] = s[j]
        /\ Len(s) \in Nat /\ DOMAIN s = 1 .. Len(s) /\ DOMAIN t = 1 .. Len(t)
        /\ \/ i \in DOMAIN s /\ u[i] = s[i]
           \/ i - Len(s) \in DOMAIN t /\ u[i] = t[i - Len(s)]
    BY <1>2, <2>1, Concat, Elements
  <2>3. \A k \in DOMAIN t : k + Len(s) \in DOMAIN u /\ u[k + Len(s)] = t[k] /\ k + Len(s) > Len(s)
    <3>1. DOMAIN u = 1 .. Len(s) + Len(t) /\ Len(t) \in Nat /\ \A k \in DOMAIN t : u[k + Len(s)] = t[k]
      BY <1>2, <2>1
    <3> QED
      BY <2>2, <3>1
  <2>4. CASE i \in DOMAIN s /\ u[i] = s[i]
    <3>1. Stays(net, net2, p, r, i, i)
      BY <1>1, <2>2, <2>4 DEF Stays
    <3>2. ASSUME NEW k \in DOMAIN t PROVE Follows(net2, p, r, i, t[k])
      <4>1. k + Len(s) \in DOMAIN u /\ u[k + Len(s)] = t[k] /\ k + Len(s) > i
        BY <2>2, <2>3, <2>4, <3>2
      <4> QED
        BY <1>1, <4>1 DEF Follows
    <3> QED
      BY <1>1, <3>1, <3>2
  <2>5. CASE i - Len(s) \in DOMAIN t /\ u[i] = t[i - Len(s)]
    BY <1>1, <1>5, <2>5
  <2> QED
    BY <2>2, <2>4, <2>5
<1> QED
  BY <1>4, <1>5

LEMMA ShiftExchanged ==
  ASSUME NEW net \in Channels(Message), NEW q \in Node, NEW n \in Node, net[q][n] # <<>>,
         NEW out \in Outgoing(Message), NEW net2, net2 = Exchanged(net, q, n, out),
         NEW p \in Node, NEW r \in Node, NEW i \in DOMAIN net2[p][r]
  PROVE  \/ p = n /\ \E k \in DOMAIN out[r] : net2[p][r][i] = out[r][k]
         \/ \E k \in DOMAIN net[p][r] :
              /\ Stays(net, net2, p, r, k, i)
              /\ p = n => \A l \in DOMAIN out[r] : Follows(net2, p, r, i, out[r][l])
<1>1. PICK net1 : net1 = Taken(net, q, n)
  OBVIOUS
<1>2. /\ net1 \in Channels(Message) /\ net2 = Sent(net1, n, out)
      /\ net1[p][r] = IF p = q /\ r = n THEN Tail(net[q][n]) ELSE net[p][r]
  BY <1>1, TakenAt DEF Exchanged
<1>3. CASE p = n /\ \E k \in DOMAIN out[r] : net2[p][r][i] = out[r][k]
  BY <1>3
<1>4. CASE /\ Stays(net1, net2, p, r, i, i)
           /\ p = n => \A k \in DOMAIN out[r] : Follows(net2, p, r, i, out[r][k])
  <2>1. PICK s, t : s = net[p][r] /\ t = net1[p][r]
    OBVIOUS
  <2>2. s \in Seq(Message) /\ i \in DOMAIN t
    BY <1>4, <2>1 DEF Channels, Outgoing, Stays
  <2>3. CASE t = s
    BY <1>4, <2>1, <2>2, <2>3 DEF Stays
  <2>4. CASE t = Tail(s) /\ s # <<>>
    <3>1. /\ i \in Nat /\ i + 1 \in DOMAIN s /\ t[i] = s[i + 1]
          /\ \A j \in DOMAIN s : j \in Nat /\ (j = 1 \/ (j - 1 \in DOMAIN t /\ t[j - 1] = s[j]))
      BY <2>2, <2>4, Uncons
    <3>2. ASSUME NEW j \in DOMAIN s, j > i + 1
          PROVE  \E l \in DOMAIN net2[p][r] : l > i /\ net2[p][r][l] = s[j]
      <4>1. i \in DOMAIN t /\ j - 1 \in DOMAIN t /\ t[j - 1] = s[j] /\ j - 1 > i
        BY <2>2, <2>4, <3>1, <3>2, Uncons
      <4>2. PICK l \in DOMAIN net2[p][r] : l > i /\ net2[p][r][l] = t[j - 1]
        BY <1>4, <2>1, <4>1 DEF Stays
      <4> QED
        BY <4>1, <4>2
    <3>3. Stays(net, net2, p, r, i + 1, i)
      BY <1>4, <2>1, <3>1, <3>2 DEF Stays
    <3> QED
      BY <1>4, <2>1, <3>1, <3>3
  <2> QED
    BY <1>2, <2>1, <2>3, <2>4
<1> QED
  BY <1>2, <1>3, <1>4, ShiftSent

\* What is on an edge is under way or still to be sent.
LEMMA OnThere ==
  ASSUME NEW net \in Channels(Message), NEW box, NEW p \in Node, NEW r \in Node, NEW m
  PROVE  On(net, box, p, r, m) # 0 <=> (\E k \in DOMAIN net[p][r] : net[p][r][k] = m) \/ <<r, m>> \in box[p]
<1>1. PICK s, S : s = net[p][r] /\ S = {m}
  OBVIOUS
<1>2. s \in Seq(Message)
  BY <1>1 DEF Channels, Outgoing
<1>3. Copies(s, S) \in Nat /\ (Copies(s, S) = 0 <=> \A k \in DOMAIN s : s[k] \notin S)
  BY <1>2, CopiesType
<1>4. On(net, box, p, r, m) = Copies(s, S) + (IF <<r, m>> \in box[p] THEN 1 ELSE 0)
  BY <1>1 DEF On
<1>5. Copies(s, S) = 0 <=> ~ \E k \in DOMAIN net[p][r] : net[p][r][k] = m
  BY <1>1, <1>3
<1> QED
  BY <1>3, <1>4, <1>5

\* What a node takes it passes on, and when it pays what it owes, it pays to all sides.
LEMMA SweptHandler ==
  ASSUME TypeOK, TypeOK', NEW X, Swept(X), Passing, turn' = turn,
         NEW n \in Node, NEW q \in Node, Pending(q, n), NEW out \in Outgoing(Message),
         chan' = Exchanged(chan, q, n, out), UNCHANGED outbox, Due \ {n} \subseteq Due',
         \A r \in Tree(n) : \A k \in DOMAIN out[r] :
           out[r][k] \in X => Head(chan[q][n]) \in X /\ q \in Tree(n) /\ r # q,
         n # turn /\ ((n \in Due /\ n \notin Due') \/ (Head(chan[q][n]) = Ack(turn) /\ turn \in Beyond(q, n))) =>
           \E s \in Tree(n) : turn \in Beyond(n, s) /\ \E k \in DOMAIN out[s] : out[s][k] = Ack(turn)
  PROVE  Swept(X)'
<1>1. PICK net, box, net2, t, a, h, D, D2 :
        /\ net = chan /\ box = outbox /\ net2 = chan' /\ t = turn /\ a = Ack(t) /\ h = Head(chan[q][n])
        /\ D = Due /\ D2 = Due'
  OBVIOUS
<1>2. /\ net \in Channels(Message) /\ net2 \in Channels(Message) /\ t \in Node /\ net[q][n] # <<>>
      /\ net2 = Exchanged(net, q, n, out) /\ outbox' = box /\ turn' = t
  BY <1>1, TurnType DEF TypeOK, Channels, Outgoing, Passing, Pending
<1>3. \A b, c \in Node : On(net, box, b, c, a) # 0 => On(net2, box, b, c, a) # 0 \/ (b = q /\ c = n /\ h = a)
  <2> SUFFICES ASSUME NEW b \in Node, NEW c \in Node
               PROVE  On(net, box, b, c, a) # 0 => On(net2, box, b, c, a) # 0 \/ (b = q /\ c = n /\ h = a)
    OBVIOUS
  <2>1. /\ On(chan', outbox', b, c, a) + (IF b = q /\ c = n /\ Head(chan[q][n]) = a THEN 1 ELSE 0)
             = On(chan, outbox, b, c, a) + (IF b = n THEN Copies(out[c], {a}) ELSE 0)
        /\ On(chan', outbox', b, c, a) \in Nat /\ On(chan, outbox, b, c, a) \in Nat
    BY OnExchanged
  <2>2. Copies(out[c], {a}) \in Nat
    <3>1. out[c] \in Seq(Message)
      BY DEF Outgoing
    <3> QED
      BY <3>1, CopiesType
  <2>3. On(net2, box, b, c, a) + (IF b = q /\ c = n /\ h = a THEN 1 ELSE 0)
          = On(net, box, b, c, a) + (IF b = n THEN Copies(out[c], {a}) ELSE 0)
    BY <1>1, <2>1
  <2>4. On(net2, box, b, c, a) \in Nat /\ On(net, box, b, c, a) \in Nat
    BY <1>1, <2>1
  <2> QED
    BY <2>2, <2>3, <2>4
<1> DEFINE Behind(p, r, i) ==
             \/ \E x \in D2 : x \notin Beyond(p, r)
             \/ \E b \in Node : \E c \in Tree(b) :
                  On(net2, box, b, c, a) # 0 /\ t \in Beyond(b, c) /\ c \notin Beyond(p, r)
             \/ Follows(net2, p, r, i, a)
             \/ <<r, a>> \in box[p]
<1>4. SUFFICES ASSUME NEW p \in Node, NEW r \in Tree(p), t \in Beyond(p, r),
                      NEW i \in DOMAIN net2[p][r], net2[p][r][i] \in X
               PROVE  Behind(p, r, i)
  <2>1. ASSUME NEW p \in Node, NEW r \in Tree(p), NEW i \in DOMAIN net2[p][r], Behind(p, r, i)
        PROVE  Followed(p, r, i)'
    <3>1. Ack(turn') = a
      BY <1>1, <1>2
    <3> QED
      BY <1>1, <1>2, <2>1, <3>1 DEF Followed, Follows
  <2> HIDE DEF Behind
  <2> QED
    BY <1>1, <1>2, <2>1 DEF Swept
<1>5. r \in Node /\ p \notin Beyond(p, r) /\ \A x \in Tree(p) : x \in Node
  BY Edges, TreeNodes
<1>6. ASSUME NEW k \in DOMAIN net[p][r], net[p][r][k] \in X
      PROVE  \/ \E x \in D : x \notin Beyond(p, r)
             \/ \E b \in Node : \E c \in Tree(b) :
                  On(net, box, b, c, a) # 0 /\ t \in Beyond(b, c) /\ c \notin Beyond(p, r)
             \/ \E j \in DOMAIN net[p][r] : j > k /\ net[p][r][j] = a
             \/ <<r, a>> \in box[p]
  <2>1. Followed(p, r, k)
    BY <1>1, <1>4, <1>6 DEF Swept
  <2> QED
    BY <1>1, <2>1 DEF Followed
<1>7. CASE \E k \in DOMAIN net[p][r] :
             /\ Stays(net, net2, p, r, k, i)
             /\ p = n => \A l \in DOMAIN out[r] : Follows(net2, p, r, i, out[r][l])
  <2>1. PICK k \in DOMAIN net[p][r] :
             /\ Stays(net, net2, p, r, k, i)
             /\ p = n => \A l \in DOMAIN out[r] : Follows(net2, p, r, i, out[r][l])
    BY <1>7
  <2>2. net[p][r][k] \in X
    BY <1>4, <2>1 DEF Stays
  <2>3. ASSUME n \notin Beyond(p, r), (n \in D /\ n \notin D2) \/ (h = a /\ t \in Beyond(q, n))
        PROVE  Behind(p, r, i)
    <3>1. n # t
      BY <1>4, <2>3
    <3>2. PICK s \in Tree(n) : t \in Beyond(n, s) /\ \E k2 \in DOMAIN out[s] : out[s][k2] = a
      BY <1>1, <2>3, <3>1
    <3>3. CASE s \in Beyond(p, r)
      <4>1. p = n /\ r = s
        BY <2>3, <3>3, Crossing
      <4> QED
        BY <2>1, <3>2, <4>1
    <3>4. CASE s \notin Beyond(p, r)
      <4>1. On(net2, box, n, s, a) # 0
        <5>1. s \in Node
          BY TreeNodes
        <5>2. \A k2 \in DOMAIN out[s] : \E l \in DOMAIN net2[n][s] : net2[n][s][l] = out[s][k2]
          <6>1. PICK net1, u, o : net1 = Taken(net, q, n) /\ u = net1[n][s] /\ o = out[s]
            OBVIOUS
          <6>2. net1 \in Channels(Message) /\ net2 = Sent(net1, n, out)
            BY <1>2, <6>1, TakenAt DEF Exchanged
          <6>3. net2[n][s] = u \o o /\ u \in Seq(Message) /\ o \in Seq(Message)
            <7>1. \A p2, r2 \in Node : Sent(net1, n, out)[p2][r2]
                                         = IF p2 = n THEN net1[n][r2] \o out[r2] ELSE net1[p2][r2]
              BY <6>2, SentAt
            <7>2. net2[n][s] = u \o o
              BY <5>1, <6>1, <6>2, <7>1
            <7>3. u \in Seq(Message) /\ o \in Seq(Message)
              BY <5>1, <6>1, <6>2 DEF Channels, Outgoing
            <7> QED
              BY <7>2, <7>3
          <6>4. \A k2 \in DOMAIN o : k2 + Len(u) \in DOMAIN (u \o o) /\ (u \o o)[k2 + Len(u)] = o[k2]
            BY <6>3
          <6> QED
            BY <6>1, <6>3, <6>4
        <5>3. \E l \in DOMAIN net2[n][s] : net2[n][s][l] = a
          BY <3>2, <5>2
        <5> QED
          BY <1>2, <5>1, <5>3, OnThere
      <4> QED
        BY <3>2, <3>4, <4>1
    <3> QED
      BY <3>3, <3>4
  <2> HIDE DEF Behind
  <2>4. ASSUME NEW x \in D, x \notin Beyond(p, r) PROVE Behind(p, r, i)
    <3>1. CASE x \in D2
      BY <2>4, <3>1 DEF Behind
    <3>2. CASE x \notin D2
      <4>1. x = n
        BY <1>1, <3>2
      <4> QED
        BY <2>3, <2>4, <3>2, <4>1
    <3> QED
      BY <3>1, <3>2
  <2>5. ASSUME NEW b \in Node, NEW c \in Tree(b), On(net, box, b, c, a) # 0, t \in Beyond(b, c), c \notin Beyond(p, r)
        PROVE  Behind(p, r, i)
    <3>1. c \in Node
      BY TreeNodes
    <3>2. CASE On(net2, box, b, c, a) # 0
      BY <2>5, <3>2 DEF Behind
    <3>3. CASE b = q /\ c = n /\ h = a
      BY <2>3, <2>5, <3>3
    <3> QED
      BY <1>3, <2>5, <3>1, <3>2, <3>3
  <2>6. ASSUME NEW j \in DOMAIN net[p][r], j > k, net[p][r][j] = a PROVE Behind(p, r, i)
    <3>1. Follows(net2, p, r, i, a)
      BY <2>1, <2>6 DEF Stays, Follows
    <3> QED
      BY <3>1 DEF Behind
  <2>7. ASSUME <<r, a>> \in box[p] PROVE Behind(p, r, i)
    BY <2>7 DEF Behind
  <2> QED
    BY <1>6, <2>2, <2>4, <2>5, <2>6, <2>7
<1>8. CASE p = n /\ \E k \in DOMAIN out[r] : net2[p][r][i] = out[r][k]
  <2>1. h \in X /\ q \in Tree(n) /\ r # q /\ r \in Tree(n)
    BY <1>1, <1>4, <1>8
  <2>2. /\ Beyond(n, r) \subseteq Beyond(q, n) \ {n} /\ n \in Tree(q) /\ n \in Beyond(q, n) /\ q \in Node
        /\ n \notin Beyond(n, r)
    BY <2>1, Edges
  <2>3. t \in Beyond(q, n) /\ n # t
    BY <1>4, <1>8, <2>2
  <2>4. PICK s : s = net[q][n]
    OBVIOUS
  <2>5. s \in Seq(Message) /\ 1 \in DOMAIN s /\ s[1] = h
    BY <1>1, <1>2, <2>4, Uncons DEF Channels, Outgoing
  <2>6. Followed(q, n, 1)
    BY <1>1, <2>1, <2>2, <2>3, <2>4, <2>5 DEF Swept
  <2> HIDE DEF Behind
  <2>7. ASSUME NEW x \in D, x \notin Beyond(q, n) PROVE Behind(p, r, i)
    <3>1. x # n /\ x \notin Beyond(p, r)
      BY <1>8, <2>2, <2>7
    <3>2. x \in D2
      BY <1>1, <2>7, <3>1
    <3> QED
      BY <3>1, <3>2 DEF Behind
  <2>8. ASSUME NEW b \in Node, NEW c \in Tree(b), On(net, box, b, c, a) # 0, t \in Beyond(b, c), c \notin Beyond(q, n)
        PROVE  Behind(p, r, i)
    <3>1. c # n /\ c \notin Beyond(p, r) /\ c \in Node
      BY <1>8, <2>2, <2>8, TreeNodes
    <3>2. On(net2, box, b, c, a) # 0
      BY <1>3, <2>8, <3>1
    <3> QED
      BY <2>8, <3>1, <3>2 DEF Behind
  <2>9. ASSUME On(net2, box, q, n, a) # 0 PROVE Behind(p, r, i)
    BY <1>8, <2>2, <2>3, <2>9 DEF Behind
  <2>10. ASSUME NEW j \in DOMAIN s, j > 1, s[j] = a PROVE On(net2, box, q, n, a) # 0
    <3>1. PICK net1, u : net1 = Taken(net, q, n) /\ u = net1[q][n]
      OBVIOUS
    <3>2. /\ net1 \in Channels(Message) /\ net2 = Sent(net1, n, out) /\ u = Tail(s)
      BY <1>2, <2>4, <3>1, TakenAt DEF Exchanged
    <3>3. j - 1 \in DOMAIN u /\ u[j - 1] = a
      BY <1>2, <2>4, <2>5, <2>10, <3>2, Uncons
    <3>4. q # n
      BY <2>1, Edges
    <3>5. net2[q][n] = u
      <4>1. \A p2, r2 \in Node : Sent(net1, n, out)[p2][r2]
                                   = IF p2 = n THEN net1[n][r2] \o out[r2] ELSE net1[p2][r2]
        BY <3>2, SentAt
      <4> QED
        BY <3>1, <3>2, <3>4, <4>1
    <3>6. \E l \in DOMAIN net2[q][n] : net2[q][n][l] = a
      BY <3>3, <3>5
    <3> QED
      BY <1>2, <3>6, OnThere
  <2>11. ASSUME <<n, a>> \in box[q] PROVE On(net2, box, q, n, a) # 0
    BY <1>2, <2>11, OnThere
  <2>12. \/ \E x \in D : x \notin Beyond(q, n)
         \/ \E b \in Node : \E c \in Tree(b) :
              On(net, box, b, c, a) # 0 /\ t \in Beyond(b, c) /\ c \notin Beyond(q, n)
         \/ \E j \in DOMAIN s : j > 1 /\ s[j] = a
         \/ <<n, a>> \in box[q]
    BY <1>1, <2>4, <2>6 DEF Followed
  <2> QED
    BY <2>7, <2>8, <2>9, <2>10, <2>11, <2>12
<1> HIDE DEF Behind
<1> QED
  BY <1>2, <1>5, <1>7, <1>8, ShiftExchanged

-----------------------------------------------------------------------------
\* Answers that have only come along the tree.
Pure == {m \in Message : m.type \in Answers /\ m.tree}

LEMMA ToOf ==
  ASSUME NEW R, NEW msg, NEW r \in Node, NEW k \in DOMAIN To(R, msg)[r]
  PROVE  To(R, msg)[r][k] = msg /\ r \in R
<1>1. To(R, msg)[r] = IF r \in R THEN <<msg>> ELSE <<>>
  BY DEF To
<1> QED
  BY <1>1, EmptySeq

LEMMA ThenOf ==
  ASSUME NEW out1 \in Outgoing(Message), NEW out2 \in Outgoing(Message), NEW r \in Node,
         NEW k \in DOMAIN Then(out1, out2)[r]
  PROVE  \/ \E j \in DOMAIN out1[r] : Then(out1, out2)[r][k] = out1[r][j]
         \/ \E j \in DOMAIN out2[r] : Then(out1, out2)[r][k] = out2[r][j]
<1>1. PICK s, t, u : s = out1[r] /\ t = out2[r] /\ u = Then(out1, out2)[r]
  OBVIOUS
<1>2. s \in Seq(Message) /\ t \in Seq(Message) /\ u = s \o t /\ k \in DOMAIN u
  BY <1>1 DEF Outgoing, Then
<1>3. \/ k \in DOMAIN s /\ (s \o t)[k] = s[k]
      \/ k - Len(s) \in DOMAIN t /\ (s \o t)[k] = t[k - Len(s)]
  BY <1>2, Concat
<1> QED
  BY <1>1, <1>2, <1>3

\* What a node floods: an answer stays as it is on the tree, and is marked when it leaves it.
LEMMA FloodOf ==
  ASSUME NEW n \in Node, NEW q \in Node, NEW m \in Message, m.type \in Requests \cup Answers,
         NEW r \in Node, NEW k \in DOMAIN Flood(n, q, m)[r]
  PROVE  /\ r \in Neigh[n] /\ r # q
         /\ Flood(n, q, m)[r][k].type = m.type /\ Flood(n, q, m)[r][k].t = m.t
         /\ m.type \in Requests \/ r \in Tree(n) => Flood(n, q, m)[r][k] = m
         /\ m.type \in Answers /\ r \notin Tree(n) => ~ Flood(n, q, m)[r][k].tree
<1>1. CASE m.type \in Requests
  <2>1. Flood(n, q, m) = To((Neigh[n] \ {q}) \cap Node, m)
    BY <1>1 DEF Flood
  <2>2. m.type \notin Answers
    BY <1>1 DEF Requests, Answers
  <2> QED
    BY <1>1, <2>1, <2>2, ToOf
<1>2. CASE m.type \in Answers /\ m.type \notin Requests
  <2>1. PICK m2, R, R2 : /\ m2 = [m EXCEPT !.tree = FALSE] /\ R = (Neigh[n] \ {q}) \cap Tree(n)
                         /\ R2 = (Neigh[n] \ {q}) \cap (Node \ Tree(n))
    OBVIOUS
  <2>2. m2 \in Message /\ m2.type = m.type /\ m2.t = m.t /\ ~ m2.tree
    <3>1. m \in [type : Answers, t : Nat, tree : BOOLEAN]
      BY <1>2 DEF Message, Requests, Answers, Release
    <3> QED
      BY <1>2, <2>1, <3>1, MessageFields
  <2>3. PICK o1, o2 : o1 = To(R, m) /\ o2 = To(R2, m2)
    OBVIOUS
  <2>4. o1 \in Outgoing(Message) /\ o2 \in Outgoing(Message) /\ Flood(n, q, m) = Then(o1, o2)
    BY <1>2, <2>1, <2>2, <2>3, ToType DEF Flood
  <2>5. CASE \E j \in DOMAIN o1[r] : Then(o1, o2)[r][k] = o1[r][j]
    <3>1. Flood(n, q, m)[r][k] = m /\ r \in R
      BY <2>3, <2>4, <2>5, ToOf
    <3> QED
      BY <2>1, <3>1
  <2>6. CASE \E j \in DOMAIN o2[r] : Then(o1, o2)[r][k] = o2[r][j]
    <3>1. Flood(n, q, m)[r][k] = m2 /\ r \in R2
      BY <2>3, <2>4, <2>6, ToOf
    <3> QED
      BY <1>2, <2>1, <2>2, <3>1
  <2>7. \/ \E j \in DOMAIN o1[r] : Then(o1, o2)[r][k] = o1[r][j]
        \/ \E j \in DOMAIN o2[r] : Then(o1, o2)[r][k] = o2[r][j]
    BY <2>4, ThenOf
  <2> QED
    BY <2>5, <2>6, <2>7
<1> QED
  BY <1>1, <1>2

\* A handler that has nothing to do with the lock, and what it sends of an answer.
Aside(n, q, out) ==
  /\ Pending(q, n) /\ chan' = Exchanged(chan, q, n, out)
  /\ UNCHANGED <<lockRequestActive, lockAckCounter, loop, outbox, trans, begun>>
  /\ Head(chan[q][n]) \in Message /\ Head(chan[q][n]).type \notin {"lockRelease", "lockAck"}
  /\ \A r \in Node : \A k \in DOMAIN out[r] :
       /\ out[r][k].type \notin {"lockRelease", "lockAck"}
       /\ out[r][k].type \in Answers =>
            /\ Head(chan[q][n]).type \in Requests \cup Answers
            /\ out[r][k].t = Head(chan[q][n]).t /\ (out[r][k].tree => r \in Tree(n))
            /\ \/ /\ Head(chan[q][n]).type = out[r][k].type /\ PassOn(n, q)
                  /\ out[r][k].tree => out[r][k] = Head(chan[q][n]) /\ r # q
               \/ handle_transactGetBalance(n, q) /\ out[r][k].type = "transactBalance"
               \/ handle_transactStart(n, q) /\ out[r][k].type = "transactAck"

LEMMA AsideTransaction ==
  ASSUME TypeOK, NEW n \in Node, NEW q \in Node,
         \/ Deduplicate(n, q) \/ PassOn(n, q)
         \/ handle_transactGetBalance(n, q) \/ handle_transactStart(n, q)
         \/ handle_transactAck(n, q) \/ handle_transactBalance(n, q)
  PROVE  \E out \in Outgoing(Message) : Aside(n, q, out)
<1>1. /\ Pending(q, n) /\ Head(chan[q][n]) \in Message /\ Head(chan[q][n]).type \in Requests \cup Answers
      /\ UNCHANGED <<lockRequestActive, lockAckCounter, loop, outbox, trans, begun>>
  <2>1. \E kinds \in SUBSET (Requests \cup Answers) : Takes(n, q, kinds)
    BY DEF Deduplicate, PassOn, handle_transactGetBalance, handle_transactStart, handle_transactAck,
           handle_transactBalance, Answering, Accepting, Requests, Answers
  <2>2. UNCHANGED <<lockRequestActive, lockAckCounter>>
    BY DEF Deduplicate, PassOn, handle_transactGetBalance, handle_transactStart, handle_transactAck,
           handle_transactBalance, Answering, Accepting, lock
  <2> QED
    BY <2>1, <2>2, TakesType DEF Takes, loopVars, Pending
<1>2. PICK m : m = Head(chan[q][n])
  OBVIOUS
<1>3. /\ m \in Message /\ m.type \in Requests \cup Answers /\ m.t \in Nat
      /\ m.type \notin {"lockRelease", "lockAck"}
      /\ \A type \in Answers : Answer(type, m.t) \in Message
  BY <1>1, <1>2, MessageFields, Makes DEF Requests, Answers
<1>4. CASE chan' = Taken(chan, q, n)
  <2>1. chan' = Exchanged(chan, q, n, Nothing)
    BY <1>1, <1>4, TakenOnly DEF Pending
  <2>2. \A r \in Node : DOMAIN Nothing[r] = {}
    BY EmptySeq DEF Nothing
  <2>3. Aside(n, q, Nothing)
    BY <1>1, <1>2, <1>3, <2>1, <2>2 DEF Aside
  <2> QED
    BY <2>3, NothingType
<1>5. CASE PassOn(n, q)
  <2>1. PICK out : out = Flood(n, q, m)
    OBVIOUS
  <2>2. chan' = Exchanged(chan, q, n, out) /\ out \in Outgoing(Message)
    BY <1>2, <1>3, <1>5, <2>1, FloodType DEF PassOn
  <2>3. ASSUME NEW r \in Node, NEW k \in DOMAIN out[r]
        PROVE  /\ out[r][k].type = m.type /\ out[r][k].t = m.t /\ r # q
               /\ m.type \in Answers => (r \in Tree(n) /\ out[r][k] = m) \/ ~ out[r][k].tree
    <3>1. k \in DOMAIN Flood(n, q, m)[r]
      BY <2>1, <2>3
    <3>2. /\ r \in Neigh[n] /\ r # q
          /\ Flood(n, q, m)[r][k].type = m.type /\ Flood(n, q, m)[r][k].t = m.t
          /\ m.type \in Requests \/ r \in Tree(n) => Flood(n, q, m)[r][k] = m
          /\ m.type \in Answers /\ r \notin Tree(n) => ~ Flood(n, q, m)[r][k].tree
      BY <1>3, <3>1, FloodOf
    <3> QED
      BY <2>1, <3>2
  <2>4. Aside(n, q, out)
    BY <1>1, <1>2, <1>3, <1>5, <2>2, <2>3 DEF Aside
  <2> QED
    BY <2>2, <2>4
<1>6. ASSUME NEW type \in Requests, NEW answer \in Answers, Answering(n, q, type, answer),
             \/ handle_transactGetBalance(n, q) /\ answer = "transactBalance"
             \/ handle_transactStart(n, q) /\ answer = "transactAck"
      PROVE  \E out \in Outgoing(Message) : Aside(n, q, out)
  <2>1. PICK a, out : a = Answer(answer, m.t) /\ out = Flood(n, n, a)
    OBVIOUS
  <2>2. /\ a \in Message /\ a.type = answer /\ a.t = m.t /\ a.type \in Requests \cup Answers
        /\ answer \notin {"lockRelease", "lockAck"}
    BY <1>3, <1>6, <2>1 DEF Answer, Answers
  <2>3. chan' = Exchanged(chan, q, n, out) /\ out \in Outgoing(Message)
    BY <1>2, <1>6, <2>1, <2>2, FloodType DEF Answering
  <2>4. ASSUME NEW r \in Node, NEW k \in DOMAIN out[r]
        PROVE  /\ out[r][k].type = answer /\ out[r][k].t = m.t
               /\ r \in Tree(n) \/ ~ out[r][k].tree
    <3>1. k \in DOMAIN Flood(n, n, a)[r]
      BY <2>1, <2>4
    <3>2. /\ Flood(n, n, a)[r][k].type = a.type /\ Flood(n, n, a)[r][k].t = a.t
          /\ a.type \in Answers /\ r \notin Tree(n) => ~ Flood(n, n, a)[r][k].tree
      BY <2>2, <3>1, FloodOf
    <3> QED
      BY <1>6, <2>1, <2>2, <3>2
  <2>5. Aside(n, q, out)
    BY <1>1, <1>2, <1>3, <1>6, <2>2, <2>3, <2>4 DEF Aside
  <2> QED
    BY <2>3, <2>5
<1>7. /\ handle_transactGetBalance(n, q) => Answering(n, q, "transactGetBalance", "transactBalance")
      /\ handle_transactStart(n, q) => Answering(n, q, "transactStart", "transactAck")
  BY DEF handle_transactGetBalance, handle_transactStart
<1>8. Deduplicate(n, q) \/ handle_transactAck(n, q) \/ handle_transactBalance(n, q) => chan' = Taken(chan, q, n)
  BY DEF Deduplicate, handle_transactAck, handle_transactBalance, Accepting
<1> QED
  BY <1>4, <1>5, <1>6, <1>7, <1>8 DEF Requests, Answers

LEMMA AsideSnapshot ==
  ASSUME TypeOK, NEW n \in Node, NEW q \in Node, handle_marker(n, q) \/ handle_state(n, q)
  PROVE  \E out \in Outgoing(Message) : Aside(n, q, out)
<1>1. /\ Pending(q, n) /\ Head(chan[q][n]) \in Message /\ Head(chan[q][n]).type \in {"marker", "state"}
      /\ UNCHANGED <<lockRequestActive, lockAckCounter, loop, outbox, trans, begun>>
  <2>1. \E kinds \in SUBSET {"marker", "state"} : Takes(n, q, kinds)
    BY DEF handle_marker, FirstMarker, LaterMarker, handle_state
  <2>2. UNCHANGED <<lockRequestActive, lockAckCounter>>
    BY DEF handle_marker, FirstMarker, LaterMarker, handle_state, lock
  <2> QED
    BY <2>1, <2>2, TakesType DEF Takes, loopVars, Pending
<1>2. PICK out \in Outgoing(Message) :
        /\ chan' = Exchanged(chan, q, n, out)
        /\ \A r \in Node : \A k \in DOMAIN out[r] : out[r][k].type = "state"
  <2>1. Nothing \in Outgoing(Message) /\ \A r \in Node : DOMAIN Nothing[r] = {}
    BY EmptySeq, NothingType DEF Nothing
  <2>2. CASE chan' = Taken(chan, q, n)
    <3>1. chan' = Exchanged(chan, q, n, Nothing)
      BY <1>1, <2>2, TakenOnly DEF Pending
    <3> QED
      BY <2>1, <3>1
  <2>3. CASE LaterMarker(n, q)
    <3>1. PICK active : active = snapshots[n].msgInActive \ {q}
      OBVIOUS
    <3>2. chan' = Exchanged(chan, q, n, Report(n, active))
      BY <2>3, <3>1 DEF LaterMarker
    <3> QED
      BY <3>2, ReportCounts
  <2>4. CASE chan' = Exchanged(chan, q, n, To({Parent[n]}, Head(chan[q][n]))) /\ handle_state(n, q)
    <3>1. PICK R, m, out : R = {Parent[n]} /\ m = Head(chan[q][n]) /\ out = To(R, m)
      OBVIOUS
    <3>2. m.type = "state" /\ m \in Message
      BY <1>1, <2>4, <3>1, TakesType DEF handle_state
    <3>3. out \in Outgoing(Message)
      BY <3>1, <3>2, ToType
    <3>4. \A r \in Node : \A k \in DOMAIN out[r] : out[r][k].type = "state"
      BY <3>1, <3>2, ToOf
    <3> QED
      BY <2>4, <3>1, <3>3, <3>4
  <2> QED
    BY <2>2, <2>3, <2>4 DEF handle_marker, FirstMarker, handle_state
<1>3. Aside(n, q, out)
  BY <1>1, <1>2 DEF Aside, Answers
<1> QED
  BY <1>3

LEMMA HandoverAside ==
  ASSUME TypeOK, TypeOK', Handover, NEW n \in Node, NEW q \in Node, NEW out \in Outgoing(Message), Aside(n, q, out)
  PROVE  Handover' /\ Due' = Due /\ turn' = turn /\ (Passing' <=> Passing)
<1>1. /\ Pending(q, n) /\ chan' = Exchanged(chan, q, n, out)
      /\ UNCHANGED <<lockRequestActive, lockAckCounter, loop, outbox, trans, begun>>
      /\ Head(chan[q][n]).type \notin {"lockRelease", "lockAck"}
      /\ \A r \in Node : \A k \in DOMAIN out[r] : out[r][k].type \notin {"lockRelease", "lockAck"}
  BY DEF Aside
<1>2. ASSUME NEW m \in LockMessages, NEW p \in Node, NEW r \in Node
      PROVE  On(chan', outbox', p, r, m) = On(chan, outbox, p, r, m)
  <2>1. m.type \in {"lockRelease", "lockAck"}
    BY TurnType
  <2>2. Head(chan[q][n]) # m
    BY <1>1, <2>1
  <2>3. Copies(out[r], {m}) = 0
    <3>1. PICK o, S : o = out[r] /\ S = {m}
      OBVIOUS
    <3>2. o \in Seq(Message) /\ \A k \in DOMAIN o : o[k] \notin S
      BY <1>1, <2>1, <3>1 DEF Outgoing
    <3> QED
      BY <3>1, <3>2, CopiesType
  <2>4. /\ On(chan', outbox', p, r, m) + (IF p = q /\ r = n /\ Head(chan[q][n]) = m THEN 1 ELSE 0)
             = On(chan, outbox, p, r, m) + (IF p = n THEN Copies(out[r], {m}) ELSE 0)
        /\ On(chan', outbox', p, r, m) \in Nat /\ On(chan, outbox, p, r, m) \in Nat
    BY <1>1, OnExchanged
  <2> QED
    BY <2>2, <2>3, <2>4
<1> QED
  BY <1>1, <1>2, HandoverKept

LEMMA SweptAside ==
  ASSUME TypeOK, TypeOK', Handover, NEW X, Swept(X), NEW n \in Node, NEW q \in Node,
         NEW out \in Outgoing(Message), Aside(n, q, out),
         Passing => \A r \in Tree(n) : \A k \in DOMAIN out[r] :
           out[r][k] \in X => Head(chan[q][n]) \in X /\ q \in Tree(n) /\ r # q
  PROVE  Swept(X)'
<1>1. Due' = Due /\ turn' = turn /\ (Passing' <=> Passing)
  BY HandoverAside
<1>2. Pending(q, n) /\ chan' = Exchanged(chan, q, n, out) /\ UNCHANGED outbox
      /\ Head(chan[q][n]).type \notin {"lockRelease", "lockAck"}
  BY DEF Aside
<1>3. Head(chan[q][n]) # Ack(turn)
  BY <1>2 DEF Ack
<1>4. CASE ~ Passing
  BY <1>1, <1>4 DEF Swept
<1>5. CASE Passing
  <2>1. Due \ {n} \subseteq Due'
    BY <1>1
  <2>2. \A r \in Tree(n) : \A k \in DOMAIN out[r] :
           out[r][k] \in X => Head(chan[q][n]) \in X /\ q \in Tree(n) /\ r # q
    BY <1>5
  <2>3. ~ ((n \in Due /\ n \notin Due') \/ (Head(chan[q][n]) = Ack(turn) /\ turn \in Beyond(q, n)))
    BY <1>1, <1>3
  <2> QED
    BY <1>1, <1>2, <1>5, <2>1, <2>2, <2>3, SweptHandler
<1> QED
  BY <1>4, <1>5

\* The release itself, and the acknowledgements.
LEMMA SweptRelease ==
  ASSUME TypeOK, TypeOK', Handover, NEW X, \A u \in Node : Ack(u) \notin X, Swept(X),
         NEW n \in Node, NEW q \in Node, handle_lockRelease(n, q)
  PROVE  Swept(X)'
<1>1. /\ Pending(q, n) /\ Head(chan[q][n]) = Release
      /\ UNCHANGED <<loop, outbox, trans, begun, lockRequestActive>>
      /\ chan' = Exchanged(chan, q, n, Then(To(AckTo(n), Ack(turn)), To(Tree(n) \ {q}, Release)))
  <2>1. chan[q][n] # <<>> /\ Head(chan[q][n]) \in Message /\ Head(chan[q][n]).type = "lockRelease"
    BY TakesType DEF handle_lockRelease
  <2>2. Head(chan[q][n]) = Release
    BY <2>1 DEF Message, Release, Requests, Answers
  <2> QED
    BY <2>1, <2>2 DEF handle_lockRelease, Takes, loopVars, lock, Pending
<1>2. turn' = turn /\ (Passing' <=> Passing)
  BY <1>1 DEF turn, Passing, Held
<1> SUFFICES ASSUME Passing PROVE Swept(X)'
  BY <1>2 DEF Swept
<1>3. turn \in Node /\ turn # Nobody /\ Release # Ack(turn) /\ Release \in LockMessages
  BY TurnType DEF Passing, LockMessages
<1>4. q \in Tree(n)
  BY <1>1, <1>3, LockTaken
<1>5. PICK o1, o2, out, R, Q, a : /\ a = Ack(turn) /\ R = AckTo(n) /\ Q = Tree(n) \ {q}
                                  /\ o1 = To(R, a) /\ o2 = To(Q, Release) /\ out = Then(o1, o2)
  OBVIOUS
<1>6. /\ o1 \in Outgoing(Message) /\ o2 \in Outgoing(Message) /\ out \in Outgoing(Message)
      /\ chan' = Exchanged(chan, q, n, out) /\ a \notin X
  BY <1>1, <1>3, <1>5, Makes, ToType, ThenType
<1>7. ASSUME NEW r \in Tree(n), NEW k \in DOMAIN out[r], out[r][k] \in X
      PROVE  Head(chan[q][n]) \in X /\ q \in Tree(n) /\ r # q
  <2>1. r \in Node
    BY TreeNodes
  <2>2. ~ \E j \in DOMAIN o1[r] : out[r][k] = o1[r][j]
    BY <1>5, <1>6, <1>7, <2>1, ToOf
  <2>3. \E j \in DOMAIN o2[r] : out[r][k] = o2[r][j]
    <3>1. k \in DOMAIN Then(o1, o2)[r]
      BY <1>5, <1>7
    <3>2. \/ \E j \in DOMAIN o1[r] : Then(o1, o2)[r][k] = o1[r][j]
          \/ \E j \in DOMAIN o2[r] : Then(o1, o2)[r][k] = o2[r][j]
      BY <1>6, <2>1, <3>1, ThenOf
    <3> QED
      BY <1>5, <2>2, <3>2
  <2>4. out[r][k] = Release /\ r \in Q
    BY <1>5, <2>1, <2>3, ToOf
  <2> QED
    BY <1>1, <1>4, <1>5, <1>7, <2>4
<1>8. Due \ {n} \subseteq Due'
  BY HandoverRelease
<1>9. ASSUME n # turn
      PROVE  \E s \in Tree(n) : turn \in Beyond(n, s) /\ \E k \in DOMAIN out[s] : out[s][k] = a
  <2>1. PICK s \in Tree(n) : turn \in Beyond(n, s)
    BY <1>3, <1>9, Leads
  <2>2. s \in Node /\ s \in R
    BY <1>3, <1>5, <1>9, <2>1, TreeNodes DEF AckTo
  <2>3. out[s] = o1[s] \o o2[s] /\ o1[s] = <<a>> /\ o2[s] \in Seq(Message)
    BY <1>5, <1>6, <2>2 DEF Then, To, Outgoing
  <2>4. 1 \in DOMAIN out[s] /\ out[s][1] = a
    <3>1. PICK t : t = o2[s]
      OBVIOUS
    <3>2. 1 \in DOMAIN (<<a>> \o t) /\ (<<a>> \o t)[1] = a
      BY <2>3, <3>1
    <3> QED
      BY <2>3, <3>1, <3>2
  <2> QED
    BY <2>1, <2>4
<1>10. /\ Pending(q, n) /\ UNCHANGED outbox /\ turn' = turn
       /\ \A r \in Tree(n) : \A k \in DOMAIN out[r] :
            out[r][k] \in X => Head(chan[q][n]) \in X /\ q \in Tree(n) /\ r # q
       /\ n # turn => \E s \in Tree(n) : turn \in Beyond(n, s) /\ \E k \in DOMAIN out[s] : out[s][k] = Ack(turn)
  BY <1>1, <1>2, <1>5, <1>7, <1>9
<1> QED
  BY <1>6, <1>8, <1>10, SweptHandler

LEMMA SweptForward ==
  ASSUME TypeOK, TypeOK', Handover, NEW X, \A u \in Node : Ack(u) \notin X, Swept(X),
         NEW n \in Node, NEW q \in Node, Pending(q, n), NEW v \in Node, v # n,
         Head(chan[q][n]) = Ack(v), UNCHANGED <<loop, outbox, trans, begun, lockRequestActive, lockAckCounter>>,
         chan' = Exchanged(chan, q, n, To(Tree(n) \ {q}, Ack(v)))
  PROVE  Swept(X)'
<1>1. Due' = Due /\ turn' = turn /\ (Passing' <=> Passing) /\ q \in Tree(n)
  BY HandoverForward
<1> SUFFICES ASSUME Passing PROVE Swept(X)'
  BY <1>1 DEF Swept
<1>2. PICK a, R, out : a = Ack(v) /\ R = Tree(n) \ {q} /\ out = To(R, a)
  OBVIOUS
<1>3. out \in Outgoing(Message) /\ chan' = Exchanged(chan, q, n, out) /\ a \notin X /\ turn \in Node
  BY <1>2, Makes, ToType, TurnType DEF Passing
<1>4. \A r \in Node : \A k \in DOMAIN out[r] : out[r][k] \notin X
  BY <1>2, <1>3, ToOf
<1>5. ASSUME n # turn, Head(chan[q][n]) = Ack(turn), turn \in Beyond(q, n)
      PROVE  \E s \in Tree(n) : turn \in Beyond(n, s) /\ \E k \in DOMAIN out[s] : out[s][k] = Ack(turn)
  <2>1. PICK s \in Tree(n) : turn \in Beyond(n, s)
    BY <1>3, <1>5, Leads
  <2>2. s # q
    BY <1>1, <1>5, <2>1, Edges
  <2>3. out[s] = <<a>>
    BY <1>2, <2>2, TreeNodes DEF To
  <2>4. 1 \in DOMAIN out[s] /\ out[s][1] = a
    BY <2>3
  <2>5. a = Ack(turn)
    BY <1>2, <1>5
  <2> QED
    BY <2>1, <2>4, <2>5
<1>6. Due \ {n} \subseteq Due' /\ \A r \in Tree(n) : r \in Node
  BY <1>1, TreeNodes
<1> QED
  BY <1>1, <1>3, <1>4, <1>5, <1>6, SweptHandler

LEMMA SweptCount ==
  ASSUME TypeOK, TypeOK', NEW X, Swept(X), NEW n \in Node, NEW q \in Node, Pending(q, n),
         Due' = Due, turn' = turn, turn = n, Passing' => Passing, UNCHANGED outbox, chan' = Taken(chan, q, n)
  PROVE  Swept(X)'
<1> SUFFICES ASSUME Passing PROVE Swept(X)'
  BY DEF Swept
<1>1. PICK out : out = Nothing
  OBVIOUS
<1>2. out \in Outgoing(Message) /\ chan' = Exchanged(chan, q, n, out)
  BY <1>1, TakenOnly, NothingType DEF Pending
<1>3. \A r \in Tree(n) : \A k \in DOMAIN out[r] : FALSE
  BY <1>1, TreeNodes, EmptySeq DEF Nothing
<1>4. Due \ {n} \subseteq Due'
  OBVIOUS
<1> QED
  BY <1>2, <1>3, <1>4, SweptHandler

\* What a goroutine sends it sends behind what it has sent.
LEMMA SweptSent ==
  ASSUME TypeOK, TypeOK', NEW X, Swept(X), turn' = turn, Passing' <=> Passing, Due' = Due,
         NEW n \in Node, NEW out \in Outgoing(Message), chan' = Sent(chan, n, out),
         \A p, r \in Node : On(chan', outbox', p, r, Ack(turn)) = On(chan, outbox, p, r, Ack(turn)),
         Passing => \A r \in Node : \A k \in DOMAIN out[r] : out[r][k] \in X => n = turn \/ n \in Due,
         \A p, r \in Node : <<r, Ack(turn)>> \in outbox[p] =>
           <<r, Ack(turn)>> \in outbox'[p] \/ (p = n /\ \E k \in DOMAIN out[r] : out[r][k] = Ack(turn))
  PROVE  Swept(X)'
<1>1. PICK net, box, box2, net2, t, a, D :
        net = chan /\ box = outbox /\ box2 = outbox' /\ net2 = chan' /\ t = turn /\ a = Ack(t) /\ D = Due
  OBVIOUS
<1>2. net \in Channels(Message) /\ net2 = Sent(net, n, out) /\ outbox' = box2 /\ turn' = t /\ Due' = D
  BY <1>1, TurnType
<1>3. /\ \A p, r \in Node : On(net2, box2, p, r, a) = On(net, box, p, r, a)
      /\ \A p, r \in Node : <<r, a>> \in box[p] =>
           <<r, a>> \in box2[p] \/ (p = n /\ \E k \in DOMAIN out[r] : out[r][k] = a)
  BY <1>1
<1> DEFINE Behind(p, r, i) ==
             \/ \E x \in D : x \notin Beyond(p, r)
             \/ \E b \in Node : \E c \in Tree(b) :
                  On(net2, box2, b, c, a) # 0 /\ t \in Beyond(b, c) /\ c \notin Beyond(p, r)
             \/ Follows(net2, p, r, i, a)
             \/ <<r, a>> \in box2[p]
<1>4. SUFFICES ASSUME Passing, NEW p \in Node, NEW r \in Tree(p), t \in Beyond(p, r),
                      NEW i \in DOMAIN net2[p][r], net2[p][r][i] \in X
               PROVE  Behind(p, r, i)
  <2>1. ASSUME NEW p \in Node, NEW r \in Tree(p), NEW i \in DOMAIN net2[p][r], Behind(p, r, i)
        PROVE  Followed(p, r, i)'
    <3>1. Ack(turn') = a
      BY <1>1, <1>2
    <3> QED
      BY <1>1, <1>2, <2>1, <3>1 DEF Followed, Follows
  <2> HIDE DEF Behind
  <2> QED
    BY <1>1, <1>2, <2>1 DEF Swept
<1>5. r \in Node /\ p \notin Beyond(p, r)
  BY Edges
<1>6. CASE p = n /\ \E k \in DOMAIN out[r] : net2[p][r][i] = out[r][k]
  <2>1. p \in D
    BY <1>1, <1>4, <1>5, <1>6
  <2> QED
    BY <1>5, <2>1
<1>7. CASE /\ Stays(net, net2, p, r, i, i)
           /\ p = n => \A k \in DOMAIN out[r] : Follows(net2, p, r, i, out[r][k])
  <2>1. i \in DOMAIN net[p][r] /\ net[p][r][i] \in X
    BY <1>4, <1>7 DEF Stays
  <2>2. Followed(p, r, i)
    BY <1>1, <1>4, <2>1 DEF Swept
  <2>3. \/ \E x \in D : x \notin Beyond(p, r)
        \/ \E b \in Node : \E c \in Tree(b) :
             On(net, box, b, c, a) # 0 /\ t \in Beyond(b, c) /\ c \notin Beyond(p, r)
        \/ \E j \in DOMAIN net[p][r] : j > i /\ net[p][r][j] = a
        \/ <<r, a>> \in box[p]
    BY <1>1, <2>2 DEF Followed
  <2>4. ASSUME NEW b \in Node, NEW c \in Tree(b), On(net, box, b, c, a) # 0, t \in Beyond(b, c), c \notin Beyond(p, r)
        PROVE  Behind(p, r, i)
    <3>1. On(net2, box2, b, c, a) # 0
      BY <1>3, <2>4, TreeNodes
    <3> QED
      BY <2>4, <3>1
  <2>5. (\E j \in DOMAIN net[p][r] : j > i /\ net[p][r][j] = a) => Follows(net2, p, r, i, a)
    BY <1>7 DEF Stays, Follows
  <2>6. <<r, a>> \in box[p] => <<r, a>> \in box2[p] \/ Follows(net2, p, r, i, a)
    BY <1>3, <1>5, <1>7
  <2>7. (\E x \in D : x \notin Beyond(p, r)) \/ Follows(net2, p, r, i, a) \/ <<r, a>> \in box2[p] => Behind(p, r, i)
    OBVIOUS
  <2> HIDE DEF Behind
  <2> QED
    BY <2>3, <2>4, <2>5, <2>6, <2>7
<1> HIDE DEF Behind
<1> QED
  BY <1>2, <1>5, <1>6, <1>7, ShiftSent

\* No answers are sent by the loop, and a release only by a node that is due.
LEMMA SweptLoopSend ==
  ASSUME TypeOK, TypeOK', Handover, NEW n \in Node, LoopSend(n), NEW X, Swept(X),
         X \subseteq Pure \cup {Release},
         \A x \in outbox[n] : x[2] \in X => x[2] = Release
  PROVE  Swept(X)'
<1>1. PICK s \in outbox[n] : chan' = Sent(chan, n, To({s[1]}, s[2])) /\ outbox' = [outbox EXCEPT ![n] = @ \ {s}]
  BY DEF LoopSend
<1>2. PICK d, R, m, out : d = s[1] /\ R = {d} /\ m = s[2] /\ out = To(R, m)
  OBVIOUS
<1>3. d \in Node /\ m \in Message /\ s = <<d, m>> /\ out \in Outgoing(Message) /\ chan' = Sent(chan, n, out)
  <2>1. s \in Node \X Message
    BY <1>1 DEF TypeOK
  <2> QED
    BY <1>1, <1>2, <2>1, ToType
<1>4. UNCHANGED <<lockRequestActive, lockAckCounter, loop, begun, trans>>
  BY DEF LoopSend, lock
<1>5. /\ \A p \in Node : outbox'[p] = IF p = n THEN outbox[n] \ {s} ELSE outbox[p]
      /\ \A p, r \in Node : \A u : On(chan', outbox', p, r, u) = On(chan, outbox, p, r, u)
  BY <1>1, OnLoopSend DEF TypeOK
<1>6. Due' = Due /\ turn' = turn /\ (Passing' <=> Passing)
  BY <1>4, <1>5, HandoverKept
<1>7. Passing => \A r \in Node : \A k \in DOMAIN out[r] : out[r][k] \in X => n = turn \/ n \in Due
  <2> SUFFICES ASSUME Passing, NEW r \in Node, NEW k \in DOMAIN out[r], out[r][k] \in X PROVE n = turn \/ n \in Due
    OBVIOUS
  <2>1. out[r][k] = m
    BY <1>2, ToOf
  <2>2. m = Release
    BY <1>1, <1>2, <2>1
  <2>3. loop[n] = "released"
    BY <1>1, <1>2, <2>2 DEF Handover, Releasing
  <2> QED
    BY <2>3 DEF Due
<1>8. \A p, r \in Node : <<r, Ack(turn)>> \in outbox[p] =>
        <<r, Ack(turn)>> \in outbox'[p] \/ (p = n /\ \E k \in DOMAIN out[r] : out[r][k] = Ack(turn))
  <2> SUFFICES ASSUME NEW p \in Node, NEW r \in Node, <<r, Ack(turn)>> \in outbox[p],
                      <<r, Ack(turn)>> \notin outbox'[p]
               PROVE  p = n /\ \E k \in DOMAIN out[r] : out[r][k] = Ack(turn)
    OBVIOUS
  <2>1. p = n /\ s = <<r, Ack(turn)>>
    BY <1>5
  <2>2. r = d /\ m = Ack(turn)
    BY <1>2, <2>1
  <2>3. out[r] = <<m>>
    BY <1>2, <2>2 DEF To
  <2> QED
    BY <2>1, <2>2, <2>3
<1> QED
  BY <1>3, <1>5, <1>6, <1>7, <1>8, SweptSent

LEMMA MarkerSends ==
  ASSUME TypeOK, NEW n \in Node, NEW d \in Node, SendMarker(n, d)
  PROVE  \E out \in Outgoing(Message) :
           /\ chan' = Sent(chan, n, out)
           /\ \A r \in Node : \A k \in DOMAIN out[r] : out[r][k].type \in {"marker", "state"}
           /\ \E k \in DOMAIN out[d] : out[d][k].type = "marker"
<1>1. PICK o1, o2, m, D : /\ m = Marker(snapshots[n].id) /\ D = {d} /\ o1 = To(D, m)
                          /\ o2 = IF marking[n] = {d} THEN Report(n, snapshots[n].msgInActive) ELSE Nothing
  OBVIOUS
<1>2. chan' = Sent(chan, n, Then(o1, o2))
  BY <1>1 DEF SendMarker
<1>3. m \in Message /\ m.type = "marker"
  <2>1. snapshots[n].id \in Nat
    BY DEF TypeOK, Snapshot
  <2> QED
    BY <1>1, <2>1, Makes DEF Marker
<1>4. o1 \in Outgoing(Message) /\ \A r \in Node : \A k \in DOMAIN o1[r] : o1[r][k].type = "marker"
  BY <1>1, <1>3, ToType, ToOf
<1>5. o2 \in Outgoing(Message) /\ \A r \in Node : \A k \in DOMAIN o2[r] : o2[r][k].type = "state"
  <2>1. Nothing \in Outgoing(Message) /\ \A r \in Node : DOMAIN Nothing[r] = {}
    BY EmptySeq, NothingType DEF Nothing
  <2>2. PICK active : active = snapshots[n].msgInActive
    OBVIOUS
  <2>3. /\ Report(n, active) \in Outgoing(Message)
        /\ \A r \in Node : \A k \in DOMAIN Report(n, active)[r] : Report(n, active)[r][k].type = "state"
    BY ReportCounts
  <2> QED
    BY <1>1, <2>1, <2>2, <2>3
<1>6. PICK out : out = Then(o1, o2)
  OBVIOUS
<1>7. out \in Outgoing(Message)
  BY <1>4, <1>5, <1>6, ThenType
<1>8. ASSUME NEW r \in Node, NEW k \in DOMAIN out[r] PROVE out[r][k].type \in {"marker", "state"}
  <2>1. k \in DOMAIN Then(o1, o2)[r]
    BY <1>6, <1>8
  <2>2. \/ \E j \in DOMAIN o1[r] : Then(o1, o2)[r][k] = o1[r][j]
        \/ \E j \in DOMAIN o2[r] : Then(o1, o2)[r][k] = o2[r][j]
    BY <1>4, <1>5, <2>1, ThenOf
  <2> QED
    BY <1>4, <1>5, <1>6, <2>2
<1>9. \E k \in DOMAIN out[d] : out[d][k].type = "marker"
  <2>1. PICK s, t, u : s = o1[d] /\ t = o2[d] /\ u = out[d]
    OBVIOUS
  <2>2. s \in Seq(Message) /\ t \in Seq(Message) /\ u = s \o t
    BY <1>4, <1>5, <1>6, <2>1 DEF Outgoing, Then
  <2>3. s = <<m>> /\ 1 \in DOMAIN s /\ s[1] = m
    <3>1. d \in D
      BY <1>1
    <3> QED
      BY <1>1, <2>1, <3>1 DEF To
  <2>4. 1 \in DOMAIN u /\ u[1] = m
    BY <2>2, <2>3, Concat
  <2> QED
    BY <1>3, <2>1, <2>4
<1> QED
  BY <1>2, <1>6, <1>7, <1>8, <1>9

LEMMA SweptSendMarker ==
  ASSUME TypeOK, TypeOK', Handover, NEW n \in Node, NEW d \in Node, SendMarker(n, d)
  PROVE  /\ Handover' /\ Due' = Due /\ turn' = turn /\ (Passing' <=> Passing)
         /\ \A X : X \subseteq Pure \cup {Release} /\ Swept(X) => Swept(X)'
<1>1. UNCHANGED <<lockRequestActive, lockAckCounter, loop, outbox, begun, trans>>
  BY DEF SendMarker, lock, loopVars
<1>2. PICK out \in Outgoing(Message) :
        /\ chan' = Sent(chan, n, out)
        /\ \A r \in Node : \A k \in DOMAIN out[r] : out[r][k].type \in {"marker", "state"}
  BY MarkerSends
<1>3. ASSUME NEW m, m.type \in {"lockRelease", "lockAck"}, NEW p \in Node, NEW r \in Node
      PROVE  On(chan', outbox', p, r, m) = On(chan, outbox, p, r, m)
  <2>1. chan' = Sent(chan, n, out) /\ UNCHANGED outbox
    BY <1>1, <1>2
  <2>2. \A v : \A x, y \in Node :
          On(chan', outbox', x, y, v) = On(chan, outbox, x, y, v) + (IF x = n THEN Copies(out[y], {v}) ELSE 0)
    BY <2>1, OnSent
  <2>3. Copies(out[r], {m}) = 0
    <3>1. PICK o, S : o = out[r] /\ S = {m}
      OBVIOUS
    <3>2. o \in Seq(Message) /\ \A k \in DOMAIN o : o[k] \notin S
      BY <1>2, <1>3, <3>1 DEF Outgoing
    <3> QED
      BY <3>1, <3>2, CopiesType
  <2>4. On(chan, outbox, p, r, m) \in Nat
    BY TurnType, HeadingType
  <2>5. PICK c : c = Copies(out[r], {m})
    OBVIOUS
  <2>6. On(chan', outbox', p, r, m) = On(chan, outbox, p, r, m) + (IF p = n THEN Copies(out[r], {m}) ELSE 0)
    BY <2>2
  <2>7. On(chan', outbox', p, r, m) = On(chan, outbox, p, r, m) + (IF p = n THEN c ELSE 0)
    BY <2>5, <2>6
  <2>8. c = 0
    BY <2>3, <2>5
  <2> QED
    BY <2>4, <2>7, <2>8
<1>4. \A p, r \in Node : \A m \in LockMessages : On(chan', outbox', p, r, m) = On(chan, outbox, p, r, m)
  BY <1>3, TurnType
<1>5. Handover' /\ Due' = Due /\ turn' = turn /\ (Passing' <=> Passing)
  BY <1>1, <1>4, HandoverKept
<1>6. ASSUME NEW X, X \subseteq Pure \cup {Release}, Swept(X) PROVE Swept(X)'
  <2>1. \A r \in Node : \A k \in DOMAIN out[r] : out[r][k] \notin X
    BY <1>2, <1>6 DEF Pure, Release, Answers
  <2>2. Ack(turn).type = "lockAck"
    BY DEF Ack
  <2>3. \A p, r \in Node : On(chan', outbox', p, r, Ack(turn)) = On(chan, outbox, p, r, Ack(turn))
    <3>1. PICK m : m = Ack(turn)
      OBVIOUS
    <3> QED
      BY <1>3, <2>2, <3>1
  <2> QED
    BY <1>1, <1>2, <1>5, <1>6, <2>1, <2>3, SweptSent
<1> QED
  BY <1>5, <1>6

\* Whoever sends its own acknowledgement sends it to all sides.
LEMMA SweptAckNext ==
  ASSUME TypeOK, TypeOK', Handover, NEW n \in Node, AckNext(n), NEW X, Swept(X)
  PROVE  Swept(X)'
<1>1. /\ loop[n] = "released" /\ outbox[n] = {}
      /\ UNCHANGED <<chan, lockRequestActive, lockAckCounter, trans, begun>>
      /\ SendAll(n, AckTo(n), Ack(turn)) /\ Goes(n, "wait")
  BY DEF AckNext, At, lock
<1>2. PICK net, box, box2, t, a, D, D2, R :
        /\ net = chan /\ box = outbox /\ box2 = outbox' /\ t = turn /\ a = Ack(t) /\ D = Due /\ D2 = Due'
        /\ R = AckTo(n)
  OBVIOUS
<1>3. /\ net \in Channels(Message) /\ chan' = net /\ outbox' = box2 /\ turn' = t /\ (Passing' <=> Passing)
      /\ box2[n] = {<<r, a>> : r \in R} /\ \A p \in Node : p # n => box2[p] = box[p]
  BY <1>1, <1>2, TurnType, SendAllAt DEF turn, Passing, Held
<1>4. ASSUME NEW m, NEW p \in Node, NEW r \in Node, On(net, box, p, r, m) # 0 PROVE On(net, box2, p, r, m) # 0
  <2>1. (\E k \in DOMAIN net[p][r] : net[p][r][k] = m) \/ <<r, m>> \in box[p]
    BY <1>3, <1>4, OnThere
  <2>2. (\E k \in DOMAIN net[p][r] : net[p][r][k] = m) \/ <<r, m>> \in box2[p]
    BY <1>1, <1>2, <1>3, <2>1
  <2> QED
    BY <1>3, <2>2, OnThere
<1>5. D \ {n} \subseteq D2
  <2>1. \A x \in Node : Heading(net, box, Release, x) # 0 => Heading(net, box2, Release, x) # 0
    <3> SUFFICES ASSUME NEW x \in Node, Heading(net, box, Release, x) # 0 PROVE Heading(net, box2, Release, x) # 0
      OBVIOUS
    <3>1. PICK m : m = Release
      OBVIOUS
    <3>2. PICK p \in Node, r \in Node : x \in Beyond(p, r) /\ On(net, box, p, r, m) # 0
      BY <1>3, <3>1, HeadingAt
    <3>3. On(net, box2, p, r, m) # 0 /\ On(net, box2, p, r, m) \in Nat /\ Heading(net, box2, m, x) \in Nat
          /\ On(net, box2, p, r, m) <= Heading(net, box2, m, x)
      BY <1>3, <1>4, <3>2, HeadingAt, HeadingType
    <3> QED
      BY <3>1, <3>3
  <2>2. \A x \in Node : x # n => loop'[x] = loop[x]
    BY <1>1, GoesAt
  <2> QED
    BY <1>2, <1>3, <2>1, <2>2 DEF Due
<1> SUFFICES ASSUME Passing, NEW p \in Node, NEW r \in Tree(p), t \in Beyond(p, r),
                    NEW i \in DOMAIN net[p][r], net[p][r][i] \in X
             PROVE  \/ \E x \in D2 : x \notin Beyond(p, r)
                    \/ \E b \in Node : \E c \in Tree(b) :
                         On(net, box2, b, c, a) # 0 /\ t \in Beyond(b, c) /\ c \notin Beyond(p, r)
                    \/ \E j \in DOMAIN net[p][r] : j > i /\ net[p][r][j] = a
                    \/ <<r, a>> \in box2[p]
  <2>1. Ack(turn') = a
    BY <1>2, <1>3
  <2> QED
    BY <1>2, <1>3, <2>1 DEF Swept, Followed
<1>6. \/ \E x \in D : x \notin Beyond(p, r)
      \/ \E b \in Node : \E c \in Tree(b) :
           On(net, box, b, c, a) # 0 /\ t \in Beyond(b, c) /\ c \notin Beyond(p, r)
      \/ \E j \in DOMAIN net[p][r] : j > i /\ net[p][r][j] = a
      \/ <<r, a>> \in box[p]
  <2>1. Followed(p, r, i)
    BY <1>2 DEF Swept
  <2> QED
    BY <1>2, <2>1 DEF Followed
<1>7. CASE \E x \in D : x \notin Beyond(p, r)
  <2>1. PICK x \in D : x \notin Beyond(p, r)
    BY <1>7
  <2>2. CASE x # n
    BY <1>5, <2>1, <2>2
  <2>3. CASE x = n
    <3>1. n # t /\ t # Nobody /\ t \in Node
      BY <1>2, <2>3, TurnType DEF Due, Passing
    <3>2. R = Tree(n)
      BY <1>2, <3>1 DEF AckTo
    <3>3. PICK s \in Tree(n) : t \in Beyond(n, s)
      BY <3>1, Leads
    <3>4. <<s, a>> \in box2[n] /\ s \in Node
      BY <1>3, <3>2, <3>3, TreeNodes
    <3>5. CASE s \in Beyond(p, r)
      BY <2>1, <2>3, <3>3, <3>4, <3>5, Crossing
    <3>6. CASE s \notin Beyond(p, r)
      <4>1. On(net, box2, n, s, a) # 0
        BY <1>3, <3>4, OnThere
      <4> QED
        BY <3>3, <3>6, <4>1
    <3> QED
      BY <3>5, <3>6
  <2> QED
    BY <2>2, <2>3
<1>8. CASE \E b \in Node : \E c \in Tree(b) :
             On(net, box, b, c, a) # 0 /\ t \in Beyond(b, c) /\ c \notin Beyond(p, r)
  BY <1>4, <1>8, TreeNodes
<1>9. CASE <<r, a>> \in box[p]
  BY <1>1, <1>2, <1>3, <1>9
<1> QED
  BY <1>6, <1>7, <1>8, <1>9

-----------------------------------------------------------------------------
\* What the coordinator begins and what changes nothing leave the lock as it is.
LEMMA SweptKept ==
  ASSUME TypeOK, TypeOK', Handover,
         UNCHANGED <<chan, lockRequestActive, lockAckCounter, loop, outbox, trans, begun>>
  PROVE  Handover' /\ \A X : Swept(X) => Swept(X)'
<1>1. \A p, r \in Node : \A m : On(chan', outbox', p, r, m) = On(chan, outbox, p, r, m)
  OBVIOUS
<1>2. Handover' /\ Due' = Due /\ turn' = turn /\ (Passing' <=> Passing)
  BY <1>1, HandoverKept
<1>3. ASSUME NEW X, Swept(X) PROVE Swept(X)'
  <2>1. PICK net, box, t, D : net = chan /\ box = outbox /\ t = turn /\ D = Due
    OBVIOUS
  <2>2. chan' = net /\ outbox' = box /\ turn' = t /\ Due' = D
    BY <1>2, <2>1
  <2> QED
    BY <1>2, <1>3, <2>1, <2>2 DEF Swept, Followed
<1> QED
  BY <1>2, <1>3

\* Whoever is in its critical section lets nothing pass, and once it has left it, all the
\* others have the release to wait for.
LEMMA SweptEnter ==
  ASSUME TypeOK, TypeOK', Handover, NEW n \in Node, Enter(n) \/ FloodStart(n), NEW X
  PROVE  Swept(X)'
<1>1. lockRequestActive[n] /\ UNCHANGED lockRequestActive
  BY DEF Enter, FloodStart, At, lock, Handover, Turns
<1>2. ~ Passing'
  BY <1>1 DEF Passing, Held
<1> QED
  BY <1>2 DEF Swept

LEMMA SweptExit ==
  ASSUME TypeOK, TypeOK', Handover, NEW n \in Node, Exit(n), NEW X
  PROVE  Swept(X)'
<1>1. turn' = turn /\ (turn # Nobody => Due' = Node \ {turn})
  BY HandoverExit
<1>2. PICK t, D : t = turn /\ D = Due'
  OBVIOUS
<1>3. ASSUME t # Nobody, NEW p \in Node, NEW r \in Tree(p), t \in Beyond(p, r)
      PROVE  \E x \in D : x \notin Beyond(p, r)
  <2>1. p \notin Beyond(p, r)
    BY Edges
  <2> QED
    BY <1>1, <1>2, <1>3, <2>1
<1>4. turn' = t /\ (Passing' => t # Nobody)
  BY <1>1, <1>2 DEF Passing
<1> QED
  BY <1>2, <1>3, <1>4 DEF Swept, Followed

\* Messages of X come along the tree, none of them is still to be sent but the release,
\* and as long as the lock is passing, none but the release is new.
Trailing(X) ==
  /\ X \subseteq Pure \cup {Release}
  /\ \A p, r \in Node : \A i \in DOMAIN chan[p][r] : chan[p][r][i] \in X => r \in Tree(p)
  /\ \A p \in Node : \A x \in outbox[p] : x[2] \in X => x[2] = Release
  /\ X # {Release} /\ Passing =>
       \A q, n \in Node :
         /\ Pending(q, n) /\ Head(chan[q][n]).type \in Requests /\ Head(chan[q][n]).target = n
         => Id(Head(chan[q][n])) \in known[n]

LEMMA PassesAside ==
  ASSUME TypeOK, TypeOK', Handover, NEW X, Swept(X), Trailing(X), NEW n \in Node, NEW q \in Node,
         NEW out \in Outgoing(Message), Aside(n, q, out)
  PROVE  Swept(X)'
<1>1. ASSUME Passing, NEW r \in Tree(n), NEW k \in DOMAIN out[r], out[r][k] \in X
      PROVE  Head(chan[q][n]) \in X /\ q \in Tree(n) /\ r # q
  <2>1. PICK m, h : m = out[r][k] /\ h = Head(chan[q][n])
    OBVIOUS
  <2>2. r \in Node /\ m.type \notin {"lockRelease", "lockAck"}
    BY <1>1, <2>1, TreeNodes DEF Aside
  <2>3. m \in Pure /\ X # {Release}
    BY <1>1, <2>1, <2>2 DEF Trailing, Release
  <2>4. m.type \in Answers /\ m.tree
    BY <2>3 DEF Pure
  <2>5. \/ PassOn(n, q) /\ m = h /\ r # q
        \/ handle_transactGetBalance(n, q)
        \/ handle_transactStart(n, q)
    BY <2>1, <2>2, <2>4 DEF Aside
  <2>6. Pending(q, n) /\ h = chan[q][n][1] /\ 1 \in DOMAIN chan[q][n]
    <3>1. PICK s : s = chan[q][n]
      OBVIOUS
    <3>2. s \in Seq(Message) /\ s # <<>> /\ Pending(q, n)
      BY <3>1 DEF Aside, Pending, TypeOK
    <3>3. Head(s) = s[1] /\ 1 \in DOMAIN s
      BY <3>2
    <3> QED
      BY <2>1, <3>1, <3>2, <3>3
  <2>7. CASE m = h /\ r # q
    <3>1. n \in Tree(q)
      BY <1>1, <2>1, <2>6, <2>7 DEF Trailing
    <3>2. q \in Tree(n)
      BY <3>1, Edges
    <3> QED
      BY <1>1, <2>1, <2>7, <3>2
  <2>8. CASE handle_transactGetBalance(n, q) \/ handle_transactStart(n, q)
    <3>1. h.type \in Requests /\ h.target = n /\ Id(h) \notin known[n]
      BY <2>1, <2>8 DEF handle_transactGetBalance, handle_transactStart, Answering, Takes, Concerned, Requests
    <3> QED
      BY <1>1, <2>1, <2>3, <2>6, <3>1 DEF Trailing
  <2> QED
    BY <2>5, <2>7, <2>8
<1> QED
  BY <1>1, SweptAside

LEMMA PassesAck ==
  ASSUME TypeOK, TypeOK', Handover, Swept({Release}), NEW X, Swept(X), Trailing(X),
         NEW n \in Node, NEW q \in Node, handle_lockAck(n, q)
  PROVE  Handover' /\ Swept(X)'
<1>1. PICK u \in Node : Head(chan[q][n]) = Ack(u) /\ Head(chan[q][n]).uid = u
  BY AckTaken
<1>2. Pending(q, n) /\ UNCHANGED <<loop, outbox, trans, begun>>
  BY AckTaken
<1>3. \A v \in Node : Ack(v) \notin X
  BY DEF Trailing, Pure, Ack, Release, Answers
<1>4. CASE u = n
  <2>1. /\ chan' = Taken(chan, q, n)
        /\ lockAckCounter' = [lockAckCounter EXCEPT ![n] = Counted(n)]
        /\ lockRequestActive' = [lockRequestActive EXCEPT ![n] = @ \/ Counted(n) = 0]
    BY <1>1, <1>4 DEF handle_lockAck
  <2>2. Head(chan[q][n]) = Ack(n)
    BY <1>1, <1>4
  <2>3. Handover' /\ Due' = Due /\ turn' = turn /\ turn = n
    BY <1>2, <2>1, <2>2, HandoverCount
  <2>4. Passing
    BY <1>2, <2>2, Granted
  <2>5. Swept(X)'
    BY <1>2, <2>1, <2>3, <2>4, SweptCount
  <2> QED
    BY <2>3, <2>5
<1>5. CASE u # n
  <2>1. /\ chan' = Exchanged(chan, q, n, To(Tree(n) \ {q}, Head(chan[q][n])))
        /\ UNCHANGED <<lockRequestActive, lockAckCounter>>
    BY <1>1, <1>5 DEF handle_lockAck, lock
  <2>2. chan' = Exchanged(chan, q, n, To(Tree(n) \ {q}, Ack(u)))
    BY <1>1, <2>1
  <2>3. Handover'
    BY <1>1, <1>2, <1>5, <2>1, <2>2, HandoverForward
  <2>4. Swept(X)'
    BY <1>1, <1>2, <1>3, <1>5, <2>1, <2>2, SweptForward
  <2> QED
    BY <2>3, <2>4
<1> QED
  BY <1>4, <1>5

\* The lock is handed over, step by step.
LEMMA PassesNext ==
  ASSUME TypeOK, TypeOK', Handover, Swept({Release}), [Next]_vars, NEW X, Swept(X), Trailing(X)
  PROVE  Handover' /\ Swept(X)'
<1>1. ASSUME NEW n \in Node, NEW q \in Node, Handle(n, q) PROVE Handover' /\ Swept(X)'
  <2>1. ASSUME NEW out \in Outgoing(Message), Aside(n, q, out) PROVE Handover' /\ Swept(X)'
    BY <2>1, HandoverAside, PassesAside
  <2>2. CASE handle_lockRelease(n, q)
    <3>1. \A v \in Node : Ack(v) \notin X
      BY DEF Trailing, Pure, Ack, Release, Answers
    <3> QED
      BY <2>2, <3>1, HandoverRelease, SweptRelease
  <2>3. CASE handle_lockAck(n, q)
    BY <2>3, PassesAck
  <2> QED
    BY <1>1, <2>1, <2>2, <2>3, AsideTransaction, AsideSnapshot DEF Handle
<1>2. ASSUME NEW n \in Node, NEW d \in Node, SendMarker(n, d) PROVE Handover' /\ Swept(X)'
  <2>1. X \subseteq Pure \cup {Release}
    BY DEF Trailing
  <2> QED
    BY <1>2, <2>1, SweptSendMarker
<1>3. CASE NewSnapshot
  BY <1>3, SweptKept DEF NewSnapshot, lock, loopVars
<1>4. ASSUME NEW n \in Node, transactionLoop(n) PROVE Handover' /\ Swept(X)'
  <2>1. CASE Enter(n) \/ FloodStart(n)
    BY <2>1, HandoverEnter, SweptEnter
  <2>2. CASE Exit(n)
    BY <2>2, HandoverExit, SweptExit
  <2>3. CASE AckNext(n)
    BY <2>3, HandoverAckNext, SweptAckNext
  <2>4. CASE LoopSend(n)
    <3>1. X \subseteq Pure \cup {Release} /\ \A x \in outbox[n] : x[2] \in X => x[2] = Release
      BY DEF Trailing
    <3> QED
      BY <2>4, <3>1, HandoverLoopSend, SweptLoopSend
  <2> QED
    BY <1>4, <2>1, <2>2, <2>3, <2>4 DEF transactionLoop
<1>5. CASE UNCHANGED vars
  BY <1>5, SweptKept DEF vars, lock, loopVars
<1>6. Neigh \in [Node -> SUBSET Node] /\ Leader \in Node
  BY NeighAssumption, NodeAssumption
<1> QED
  BY <1>1, <1>2, <1>3, <1>4, <1>5, <1>6 DEF Next, Handler, leaderLoop

\* At the start the first of the script has the lock, and nothing is under way.
LEMMA HandoverInit == Init => Handover /\ \A X : Swept(X)
<1> SUFFICES ASSUME Init PROVE Handover /\ \A X : Swept(X)
  OBVIOUS
<1>1. TypeOK
  BY TypesInit
<1>2. PICK net, box : net = chan /\ box = outbox
  OBVIOUS
<1>3. /\ net \in Channels(Message) /\ \A p, r \in Node : net[p][r] = <<>> /\ box[p] = {}
      /\ begun = 0 /\ \A n \in Node : lockAckCounter[n] = 0 /\ loop[n] = "wait" /\ box[n] = {}
      /\ \A n \in Node : lockRequestActive[n] <=> n = trans[1].by
  BY <1>1, <1>2, TurnType DEF Init, EmptyNet
<1>4. Len(trans) >= 1 /\ turn = trans[1].by /\ turn \in Node /\ turn # Nobody
  <2>1. trans # <<>> /\ trans \in Seq([by : Node, with : Node])
    BY <1>1, BoundAssumption DEF TypeOK
  <2>2. Len(trans) >= 1
    BY <2>1
  <2> QED
    BY <1>1, <1>3, <2>2, Scripted, TurnType DEF turn
<1>5. Held /\ ~ Passing
  BY <1>3, <1>4 DEF Held, Passing
<1>6. \A p, r \in Node : \A m : On(net, box, p, r, m) = 0
  <2> SUFFICES ASSUME NEW p \in Node, NEW r \in Node, NEW m PROVE On(net, box, p, r, m) = 0
    OBVIOUS
  <2>1. ~ ((\E k \in DOMAIN net[p][r] : net[p][r][k] = m) \/ <<r, m>> \in box[p])
    BY <1>3, EmptySeq
  <2> QED
    BY <1>3, <2>1, OnThere
<1>7. \A m : \A x \in Node : Heading(net, box, m, x) = 0
  BY <1>3, <1>6, HeadingAt
<1>8. Exclusive
  BY <1>3 DEF Exclusive
<1>9. Ways /\ Acking /\ Releasing /\ Counting /\ Owing
  BY <1>2, <1>3, <1>5, <1>6, <1>7 DEF Ways, Acking, Releasing, Counting, Owing
<1>10. Turns
  BY <1>3, <1>4 DEF Turns
<1> QED
  BY <1>5, <1>8, <1>9, <1>10 DEF Handover, Swept

\* The release, of which the one whose turn it is has the acknowledgements behind it.
LEMMA ReleaseNext ==
  ASSUME TypeOK, TypeOK', Handover, Swept({Release}), [Next]_vars
  PROVE  Handover' /\ Swept({Release})'
<1>1. PICK X : X = {Release}
  OBVIOUS
<1>2. Trailing(X)
  <2>1. ASSUME NEW p \in Node, NEW r \in Node, NEW i \in DOMAIN chan[p][r], chan[p][r][i] = Release
        PROVE  r \in Tree(p)
    <3>1. PICK net, box, m : net = chan /\ box = outbox /\ m = Release
      OBVIOUS
    <3>2. On(net, box, p, r, m) # 0
      BY <2>1, <3>1, OnThere, TurnType
    <3> QED
      BY <3>1, <3>2 DEF Handover, Ways, LockMessages
  <2> QED
    BY <1>1, <2>1 DEF Trailing
<1>3. Handover' /\ Swept(X)'
  BY <1>1, <1>2, PassesNext
<1> QED
  BY <1>1, <1>3

\* One node at a time has the lock, as handle_transactBalance takes it to be, on every tree
\* and whatever floods and markers cross the acknowledgements: they give the lock on only
\* when all the nodes have seen the release (Exclusive).
THEOREM LockAlone == Spec => []Exclusive
<1>1. Init => TypeOK /\ Holding /\ Handover /\ Swept({Release})
  BY TypesInit, HoldingInit, HandoverInit
<1>2. TypeOK /\ Holding /\ Handover /\ Swept({Release}) /\ [Next]_vars
        => (TypeOK /\ Holding /\ Handover /\ Swept({Release}))'
  BY TypesNext, ReleaseNext
<1>3. Handover => Exclusive
  BY DEF Handover
<1> QED
  BY <1>1, <1>2, <1>3, PTL DEF Spec

\* No node hears of the start of a transaction before it hears of the request for the
\* balance, on whatever graph and along whatever paths the two floods come (FloodOrder):
\* the floods of different transactions do not mix, as one node at a time has the lock.
THEOREM FloodsInOrder == Spec => []FloodOrder
<1>1. TypeOK /\ Order => FloodOrder
  BY Scripted DEF Order, KnownInOrder, FloodOrder, StartId, BalanceId
<1>2. Init => TypeOK /\ Holding /\ Order
  BY TypesInit, HoldingInit, OrderInit
<1>3. TypeOK /\ Holding /\ Order /\ Exclusive /\ [Next]_vars => (TypeOK /\ Holding /\ Order)'
  BY TypesNext, OrderNext
<1> QED
  BY <1>1, <1>2, <1>3, LockAlone, PTL DEF Spec

-----------------------------------------------------------------------------
(***************************************************************************)
(* What is known of a transaction.  An answer comes from the target, which *)
(* has had the request, and over the tree it moves away from there         *)
(* (Sourced, Requested).  Unless an answer has strayed, whoever started a  *)
(* transaction that is over has both answers to it (Finished, Received),   *)
(* so that the one who has the lock can only be met by answers to its own  *)
(* requests (OwnOnly), and each update is made once (TargetOnce,           *)
(* StarterOnce).                                                           *)
(***************************************************************************)
GivenId(t) == <<"transactBalance", t>>
AckId(t) == <<"transactAck", t>>

\* An answer on its way from p to r.
From(kn, b, p, r, m) ==
  /\ m.t \in 1 .. b /\ Id(m) \in kn[trans[m.t].with]
  /\ m.tree => r \in Tree(p) /\ trans[m.t].with \notin Beyond(p, r)
Sourced ==
  /\ \A p, r \in Node : \A i \in DOMAIN chan[p][r] :
       chan[p][r][i].type \in Answers => From(known, begun, p, r, chan[p][r][i])
  /\ \A p \in Node : \A x \in outbox[p] : x[2].type \notin Answers

Requested ==
  \A n \in Node :
    /\ \A x \in known[n] : x[2] \in 1 .. begun
    /\ \A t \in 1 .. begun :
         /\ GivenId(t) \in known[n] => {GivenId(t), BalanceId(t)} \subseteq known[trans[t].with]
         /\ AckId(t) \in known[n] => {AckId(t), StartId(t)} \subseteq known[trans[t].with]
Finished ==
  strayed = "no" => \A t \in 1 .. begun : Over(t) => {GivenId(t), AckId(t)} \subseteq known[trans[t].by]
Received ==
  strayed = "no" => \A n \in Node : loop[n] \in {"asked", "started"} =>
    /\ transactAckReceived[n] => AckId(begun) \in known[n]
    /\ transactBalanceReceived[n] => GivenId(begun) \in known[n]
TargetOnce ==
  \A n \in Node : \A t \in Nat :
    Times(StartId(t), n) = IF StartId(t) \in known[n] /\ n = trans[t].with THEN 1 ELSE 0
StarterOnce ==
  strayed = "no" => \A n \in Node : \A t \in Nat :
    Times(GivenId(t), n) = IF GivenId(t) \in known[n] /\ n = trans[t].by THEN 1 ELSE 0
Dealt == Requested /\ Finished /\ Received /\ TargetOnce /\ StarterOnce

OwnOnly ==
  strayed = "no" => \A n \in Node : lockRequestActive[n] =>
    \A p \in Node : \A r \in Tree(p) : n \in Beyond(p, r) =>
      \A i \in DOMAIN chan[p][r] : chan[p][r][i] \in Pure => Own(n, chan[p][r][i])

\* The two nodes of a transaction, and who is still in it.
LEMMA TwoNodes ==
  ASSUME TypeOK, NEW t \in 1 .. begun
  PROVE  /\ t \in Nat /\ trans[t].by \in Node /\ trans[t].with \in Node /\ trans[t].by # trans[t].with
         /\ begun \in Nat
<1>1. begun \in 0 .. Len(trans) /\ Len(trans) \in Nat /\ t \in 1 .. Len(trans)
  BY Scripted DEF TypeOK
<1>2. DOMAIN trans = 1 .. Len(trans)
  BY BoundAssumption, Elements DEF TypeOK
<1>3. trans[t].by # trans[t].with
  BY <1>1, <1>2, BoundAssumption DEF TypeOK
<1> QED
  BY <1>1, <1>3, Scripted

LEMMA Unfinished ==
  ASSUME TypeOK, Handover, NEW t \in 1 .. begun, ~ Over(t)
  PROVE  /\ t = begun /\ loop[trans[t].by] \in {"asked", "started"}
         /\ lockRequestActive[trans[t].by]
<1>1. t \in Nat /\ begun \in Nat /\ trans[t].by \in Node
  BY TwoNodes
<1>2. t = begun /\ loop[trans[t].by] \in {"asked", "started"}
  BY <1>1 DEF Over, TypeOK
<1> QED
  BY <1>1, <1>2 DEF Handover, Turns

\* A request the target does not know belongs to the transaction that is going on.
LEMMA Fresh ==
  ASSUME TypeOK, Handover, Requested, Finished, strayed = "no",
         NEW n \in Node, NEW t \in 1 .. begun, n = trans[t].with,
         BalanceId(t) \notin known[n] \/ StartId(t) \notin known[n]
  PROVE  /\ t = begun /\ loop[trans[t].by] \in {"asked", "started"} /\ lockRequestActive[trans[t].by]
         /\ trans[t].by \in Node
<1>1. trans[t].by \in Node
  BY TwoNodes
<1>2. ~ Over(t)
  <2>1. SUFFICES ASSUME Over(t) PROVE FALSE
    OBVIOUS
  <2>2. GivenId(t) \in known[trans[t].by] /\ AckId(t) \in known[trans[t].by]
    BY <2>1 DEF Finished
  <2>3. BalanceId(t) \in known[n] /\ StartId(t) \in known[n]
    BY <1>1, <2>2 DEF Requested
  <2> QED
    BY <2>3
<1> QED
  BY <1>1, <1>2, Unfinished

\* The answers come along the tree, and none is new while the lock is passing.
LEMMA AnswersTrail ==
  ASSUME TypeOK, Handover, AllNamed, Requested, Finished, Sourced, strayed = "no"
  PROVE  Trailing(Pure)
<1>1. ASSUME NEW p \in Node, NEW r \in Node, NEW i \in DOMAIN chan[p][r], chan[p][r][i] \in Pure
      PROVE  r \in Tree(p)
  BY <1>1 DEF Pure, Sourced, From
<1>2. \A p \in Node : \A x \in outbox[p] : x[2] \notin Pure
  BY DEF Pure, Sourced
<1>3. ASSUME Passing, NEW q \in Node, NEW n \in Node, Pending(q, n),
             Head(chan[q][n]).type \in Requests, Head(chan[q][n]).target = n
      PROVE  Id(Head(chan[q][n])) \in known[n]
  <2>1. PICK m, s : m = Head(chan[q][n]) /\ s = chan[q][n]
    OBVIOUS
  <2>2. s \in Seq(Message) /\ s # <<>> /\ m = Head(s)
    BY <1>3, <2>1 DEF TypeOK, Pending
  <2>3. m = s[1] /\ 1 \in DOMAIN s
    BY <2>2, Uncons
  <2>4. Named(m)
    BY <2>1, <2>3 DEF AllNamed
  <2>5. m.t \in 1 .. begun /\ n = trans[m.t].with /\ (Id(m) = BalanceId(m.t) \/ Id(m) = StartId(m.t))
    BY <1>3, <2>1, <2>4 DEF Named, Id, BalanceId, StartId, Requests
  <2>6. SUFFICES ASSUME Id(m) \notin known[n] PROVE FALSE
    BY <2>1
  <2>7. trans[m.t].by \in Node /\ lockRequestActive[trans[m.t].by]
    BY <2>5, <2>6, Fresh
  <2> QED
    BY <1>3, <2>7 DEF Passing, Held
<1> QED
  BY <1>1, <1>2, <1>3 DEF Trailing

-----------------------------------------------------------------------------
\* One more update of a balance.
LEMMA TimesAppend ==
  ASSUME TypeOK, NEW n \in Node, NEW u \in BalanceUpdate, balance' = [balance EXCEPT ![n] = Append(@, u)],
         NEW p \in Node, NEW v
  PROVE  Times(v, p)' = Times(v, p) + (IF p = n /\ v = u THEN 1 ELSE 0) /\ Times(v, p) \in Nat
<1>1. PICK s, s2, one : s = balance[p] /\ s2 = balance'[p] /\ one = <<u>>
  OBVIOUS
<1>2. s \in Seq(BalanceUpdate) /\ one \in Seq(BalanceUpdate) /\ s2 = IF p = n THEN s \o one ELSE s
  <2>1. balance \in [Node -> Seq(BalanceUpdate)]
    BY DEF TypeOK
  <2>2. s \in Seq(BalanceUpdate) /\ one \in Seq(BalanceUpdate)
    BY <1>1, <2>1
  <2>3. s2 = IF p = n THEN Append(s, u) ELSE s
    BY <1>1, <2>1
  <2>4. Append(s, u) = s \o one
    BY <1>1, <2>2
  <2> QED
    BY <2>2, <2>3, <2>4
<1>3. Copies(s \o one, {v}) = Copies(s, {v}) + Copies(one, {v}) /\ Copies(s, {v}) \in Nat
  BY <1>2, CopiesConcat, CopiesType
<1>4. Copies(one, {v}) = IF u \in {v} THEN 1 ELSE 0
  BY <1>1, CopiesFew
<1>5. Times(v, p) = Copies(s, {v}) /\ Times(v, p)' = Copies(s2, {v})
  <2>1. \A z : Copies(z, {v}) = Cardinality({i \in DOMAIN z : z[i] = v})
    BY DEF Copies
  <2> QED
    BY <1>1, <2>1 DEF Times
<1> QED
  BY <1>2, <1>3, <1>4, <1>5

\* A node comes to know S.
LEMMA RequestedStep ==
  ASSUME TypeOK, TypeOK', Requested, begun' \in {begun, begun + 1}, trans' = trans, NEW n \in Node, NEW S,
         known'[n] = known[n] \cup S, \A p \in Node : p # n => known'[p] = known[p],
         \A x \in S : x[2] \in 1 .. begun',
         \A t \in 1 .. begun' :
           /\ GivenId(t) \in S => {GivenId(t), BalanceId(t)} \subseteq known'[trans[t].with]
           /\ AckId(t) \in S => {AckId(t), StartId(t)} \subseteq known'[trans[t].with]
  PROVE  Requested'
<1>1. begun \in Nat /\ begun' \in Nat /\ begun <= begun' /\ begun' \in 0 .. Len(trans) /\ Len(trans) \in Nat
  BY Scripted DEF TypeOK
<1>2. \A p \in Node : known[p] \subseteq known'[p]
  OBVIOUS
<1>3. \A t \in 1 .. begun : trans[t].with \in Node
  BY TwoNodes
<1> SUFFICES ASSUME NEW p \in Node
             PROVE  /\ \A x \in known'[p] : x[2] \in 1 .. begun'
                    /\ \A t \in 1 .. begun' :
                         /\ GivenId(t) \in known'[p] => {GivenId(t), BalanceId(t)} \subseteq known'[trans[t].with]
                         /\ AckId(t) \in known'[p] => {AckId(t), StartId(t)} \subseteq known'[trans[t].with]
  BY DEF Requested
<1>4. \A x \in known'[p] : x \in known[p] \/ x \in S
  OBVIOUS
<1>5. \A x \in known[p] : x[2] \in 1 .. begun
  BY DEF Requested
<1>6. ASSUME NEW t \in 1 .. begun', GivenId(t) \in known'[p]
      PROVE  {GivenId(t), BalanceId(t)} \subseteq known'[trans[t].with]
  <2>1. CASE GivenId(t) \in S
    BY <2>1
  <2>2. CASE GivenId(t) \in known[p]
    <3>1. GivenId(t)[2] = t
      BY DEF GivenId
    <3>2. t \in 1 .. begun
      BY <1>5, <2>2, <3>1
    <3> QED
      BY <1>2, <1>3, <2>2, <3>2 DEF Requested
  <2> QED
    BY <1>4, <1>6, <2>1, <2>2
<1>7. ASSUME NEW t \in 1 .. begun', AckId(t) \in known'[p]
      PROVE  {AckId(t), StartId(t)} \subseteq known'[trans[t].with]
  <2>1. CASE AckId(t) \in S
    BY <2>1
  <2>2. CASE AckId(t) \in known[p]
    <3>1. AckId(t)[2] = t
      BY DEF AckId
    <3>2. t \in 1 .. begun
      BY <1>5, <2>2, <3>1
    <3> QED
      BY <1>2, <1>3, <2>2, <3>2 DEF Requested
  <2> QED
    BY <1>4, <1>7, <2>1, <2>2
<1>8. \A x \in known'[p] : x[2] \in 1 .. begun'
  BY <1>1, <1>4, <1>5
<1> QED
  BY <1>6, <1>7, <1>8

\* What has been finished stays so, whatever the nodes come to know.
LEMMA FinishedStep ==
  ASSUME TypeOK, Finished, UNCHANGED <<begun, trans, loop>>, strayed' = "no" => strayed = "no",
         \A p \in Node : known[p] \subseteq known'[p]
  PROVE  Finished'
<1> SUFFICES ASSUME strayed' = "no", NEW t \in 1 .. begun, Over(t)'
             PROVE  {GivenId(t), AckId(t)} \subseteq known'[trans[t].by]
  BY DEF Finished
<1>1. Over(t) /\ trans[t].by \in Node
  BY TwoNodes DEF Over
<1> QED
  BY <1>1 DEF Finished

LEMMA ReceivedStep ==
  ASSUME Received, UNCHANGED <<begun, loop, transactAckReceived, transactBalanceReceived>>,
         strayed' = "no" => strayed = "no", \A p \in Node : known[p] \subseteq known'[p]
  PROVE  Received'
<1> SUFFICES ASSUME strayed' = "no", NEW n \in Node, loop[n] \in {"asked", "started"}
             PROVE  /\ transactAckReceived[n] => AckId(begun) \in known'[n]
                    /\ transactBalanceReceived[n] => GivenId(begun) \in known'[n]
  BY DEF Received
<1> QED
  BY DEF Received

\* Whoever learns of a start or of an answer without dealing with it is not concerned.
LEMMA OnceStep ==
  ASSUME TargetOnce, StarterOnce, UNCHANGED <<balance, trans>>, strayed' = "no" => strayed = "no",
         \A p \in Node : \A t \in Nat :
           /\ p = trans[t].with => (StartId(t) \in known'[p] <=> StartId(t) \in known[p])
           /\ strayed' = "no" /\ p = trans[t].by => (GivenId(t) \in known'[p] <=> GivenId(t) \in known[p])
  PROVE  TargetOnce' /\ StarterOnce'
<1>1. \A v, p : Times(v, p)' = Times(v, p)
  BY DEF Times
<1>2. TargetOnce'
  BY <1>1 DEF TargetOnce
<1>3. StarterOnce'
  BY <1>1 DEF StarterOnce
<1> QED
  BY <1>2, <1>3

\* A step that none of it is about.
LEMMA DealtKept ==
  ASSUME TypeOK, TypeOK', Dealt,
         UNCHANGED <<known, balance, transactAckReceived, transactBalanceReceived, strayed, loop, trans, begun>>
  PROVE  Dealt'
<1>1. Requested'
  BY DEF Dealt, Requested
<1>2. Finished' /\ Received'
  BY FinishedStep, ReceivedStep DEF Dealt
<1>3. TargetOnce' /\ StarterOnce'
  BY OnceStep DEF Dealt
<1> QED
  BY <1>1, <1>2, <1>3 DEF Dealt

-----------------------------------------------------------------------------
\* What a message of a transaction says of it.
LEMMA HeadOf ==
  ASSUME TypeOK, Sourced, Requested, AllNamed, NEW n \in Node, NEW q \in Node, Pending(q, n),
         NEW m, m = Head(chan[q][n]), m.type \in Requests \cup Answers
  PROVE  /\ m \in Message /\ m.t \in 1 .. begun /\ m.t \in Nat /\ Id(m) = <<m.type, m.t>> /\ Id(m)[2] = m.t
         /\ m.type \in Requests => m.target = trans[m.t].with
         /\ m.type \in Answers => From(known, begun, q, n, m)
         /\ m.type = "transactBalance" => {GivenId(m.t), BalanceId(m.t)} \subseteq known[trans[m.t].with]
         /\ m.type = "transactAck" => {AckId(m.t), StartId(m.t)} \subseteq known[trans[m.t].with]
<1>1. PICK s : s = chan[q][n]
  OBVIOUS
<1>2. s \in Seq(Message) /\ s # <<>> /\ m = Head(s)
  BY <1>1 DEF TypeOK, Pending
<1>3. m = s[1] /\ 1 \in DOMAIN s /\ m \in Message
  BY <1>2, Uncons
<1>4. Id(m) = <<m.type, m.t>> /\ Id(m)[2] = m.t
  BY DEF Id
<1>5. m.type \in Answers => From(known, begun, q, n, m)
  BY <1>1, <1>3 DEF Sourced
<1>6. Named(m)
  BY <1>1, <1>3 DEF AllNamed
<1>7. m.t \in 1 .. begun /\ (m.type \in Requests => m.target = trans[m.t].with)
  BY <1>5, <1>6 DEF Named, From
<1>8. m.t \in Nat /\ trans[m.t].with \in Node
  BY <1>7, TwoNodes
<1>9. m.type = "transactBalance" => {GivenId(m.t), BalanceId(m.t)} \subseteq known[trans[m.t].with]
  <2> SUFFICES ASSUME m.type = "transactBalance" PROVE {GivenId(m.t), BalanceId(m.t)} \subseteq known[trans[m.t].with]
    OBVIOUS
  <2>1. GivenId(m.t) \in known[trans[m.t].with]
    BY <1>4, <1>5 DEF From, GivenId, Answers
  <2> QED
    BY <1>7, <1>8, <2>1 DEF Requested
<1>10. m.type = "transactAck" => {AckId(m.t), StartId(m.t)} \subseteq known[trans[m.t].with]
  <2> SUFFICES ASSUME m.type = "transactAck" PROVE {AckId(m.t), StartId(m.t)} \subseteq known[trans[m.t].with]
    OBVIOUS
  <2>1. AckId(m.t) \in known[trans[m.t].with]
    BY <1>4, <1>5 DEF From, AckId, Answers
  <2> QED
    BY <1>7, <1>8, <2>1 DEF Requested
<1> QED
  BY <1>3, <1>4, <1>5, <1>7, <1>8, <1>9, <1>10

LEMMA RequestedHead ==
  ASSUME TypeOK, TypeOK', Sourced, Requested, AllNamed, UNCHANGED <<begun, trans>>,
         NEW n \in Node, NEW q \in Node, Pending(q, n),
         NEW m, m = Head(chan[q][n]), m.type \in Requests \cup Answers,
         known'[n] = known[n] \cup {Id(m)}, \A p \in Node : p # n => known'[p] = known[p]
  PROVE  Requested'
<1>1. PICK S : S = {Id(m)}
  OBVIOUS
<1>2. m.t \in 1 .. begun /\ Id(m) = <<m.type, m.t>> /\ Id(m)[2] = m.t
  BY HeadOf
<1>3. \A p \in Node : known[p] \subseteq known'[p]
  OBVIOUS
<1>4. trans[m.t].with \in Node
  BY <1>2, TwoNodes
<1>5. ASSUME NEW t \in 1 .. begun, GivenId(t) \in S PROVE {GivenId(t), BalanceId(t)} \subseteq known'[trans[t].with]
  <2>1. t = m.t /\ m.type = "transactBalance"
    BY <1>1, <1>2, <1>5 DEF GivenId
  <2>2. {GivenId(m.t), BalanceId(m.t)} \subseteq known[trans[m.t].with]
    BY <2>1, HeadOf
  <2> QED
    BY <1>3, <1>4, <2>1, <2>2
<1>6. ASSUME NEW t \in 1 .. begun, AckId(t) \in S PROVE {AckId(t), StartId(t)} \subseteq known'[trans[t].with]
  <2>1. t = m.t /\ m.type = "transactAck"
    BY <1>1, <1>2, <1>6 DEF AckId
  <2>2. {AckId(m.t), StartId(m.t)} \subseteq known[trans[m.t].with]
    BY <2>1, HeadOf
  <2> QED
    BY <1>3, <1>4, <2>1, <2>2
<1>7. known'[n] = known[n] \cup S /\ \A x \in S : x[2] \in 1 .. begun
  BY <1>1, <1>2
<1>8. begun' = begun /\ begun' \in {begun, begun + 1}
  OBVIOUS
<1> QED
  BY <1>5, <1>6, <1>7, <1>8, RequestedStep

\* A request or an answer that is passed on is neither the target's nor the holder's.
LEMMA DealtPassOn ==
  ASSUME TypeOK, TypeOK', Handover, AllNamed, Sourced, Dealt, NEW n \in Node, NEW q \in Node, PassOn(n, q)
  PROVE  Dealt'
<1>1. PICK m : m = Head(chan[q][n])
  OBVIOUS
<1>2. /\ Pending(q, n) /\ m.type \in Requests \cup Answers /\ UNCHANGED <<loop, trans, begun>>
      /\ Id(m) \notin known[n] /\ ~ Concerned(n, m)
      /\ known' = [known EXCEPT ![n] = @ \cup {Id(m)}]
      /\ UNCHANGED <<balance, transactAckReceived, transactBalanceReceived, strayed>>
  BY <1>1, TakesType DEF PassOn, Pending, money
<1>3. known'[n] = known[n] \cup {Id(m)} /\ \A p \in Node : p # n => known'[p] = known[p]
  BY <1>2, KnownAt
<1>4. \A p \in Node : known[p] \subseteq known'[p]
  BY <1>3
<1>5. Requested'
  BY <1>1, <1>2, <1>3, RequestedHead DEF Dealt
<1>6. Finished' /\ Received'
  BY <1>2, <1>4, FinishedStep, ReceivedStep DEF Dealt
<1>7. /\ m.t \in 1 .. begun /\ Id(m) = <<m.type, m.t>>
      /\ m.type \in Requests => m.target = trans[m.t].with
  BY <1>1, <1>2, HeadOf DEF Dealt
<1>8. ASSUME NEW t \in Nat, n = trans[t].with, Id(m) = StartId(t) PROVE FALSE
  <2>1. t = m.t /\ m.type = "transactStart"
    BY <1>7, <1>8 DEF StartId
  <2> QED
    BY <1>2, <1>7, <1>8, <2>1 DEF Concerned, Requests
<1>9. ASSUME NEW t \in Nat, strayed = "no", n = trans[t].by, Id(m) = GivenId(t) PROVE FALSE
  <2>1. t = m.t /\ m.type = "transactBalance"
    BY <1>7, <1>9 DEF GivenId
  <2>2. ~ lockRequestActive[n]
    BY <1>2, <2>1 DEF Concerned, Requests
  <2>3. Over(t)
    BY <1>7, <1>9, <2>1, <2>2, Unfinished
  <2>4. GivenId(t) \in known[n]
    BY <1>7, <1>9, <2>1, <2>3 DEF Dealt, Finished
  <2> QED
    BY <1>2, <1>9, <2>4
<1>10. \A p \in Node : \A t \in Nat :
          /\ p = trans[t].with => (StartId(t) \in known'[p] <=> StartId(t) \in known[p])
          /\ strayed' = "no" /\ p = trans[t].by => (GivenId(t) \in known'[p] <=> GivenId(t) \in known[p])
  BY <1>2, <1>3, <1>8, <1>9
<1>11. TargetOnce' /\ StarterOnce'
  BY <1>2, <1>10, OnceStep DEF Dealt
<1> QED
  BY <1>5, <1>6, <1>11 DEF Dealt

\* The target answers, the second request with its update.
LEMMA AnsweringKnows ==
  ASSUME TypeOK, TypeOK', AllNamed, Sourced, Dealt, NEW n \in Node, NEW q \in Node,
         NEW type \in Requests, NEW answer \in Answers, Answering(n, q, type, answer),
         NEW m, m = Head(chan[q][n]),
         <<type, answer>> \in {<<"transactGetBalance", "transactBalance">>, <<"transactStart", "transactAck">>}
  PROVE  /\ Pending(q, n) /\ m.type = type /\ m.t \in 1 .. begun /\ n = trans[m.t].with /\ n # trans[m.t].by
         /\ Id(m) = <<type, m.t>> /\ Id(m) \notin known[n] /\ m.t \in Nat
         /\ known'[n] = known[n] \cup {Id(m), <<answer, m.t>>} /\ \A p \in Node : p # n => known'[p] = known[p]
         /\ UNCHANGED <<transactAckReceived, transactBalanceReceived, strayed, loop, trans, begun>>
         /\ Requested' /\ Finished' /\ Received'
<1>1. /\ Pending(q, n) /\ m.type = type /\ UNCHANGED <<loop, trans, begun>>
      /\ Id(m) \notin known[n] /\ Concerned(n, m)
      /\ known' = [known EXCEPT ![n] = @ \cup {Id(m), <<answer, m.t>>}]
      /\ UNCHANGED <<transactAckReceived, transactBalanceReceived, strayed>>
  BY TakesType DEF Answering, Pending
<1>2. /\ m.t \in 1 .. begun /\ m.t \in Nat /\ Id(m) = <<type, m.t>> /\ Id(m)[2] = m.t
      /\ m.target = trans[m.t].with
  BY <1>1, HeadOf DEF Dealt
<1>3. n = trans[m.t].with /\ n # trans[m.t].by
  BY <1>1, <1>2, TwoNodes DEF Concerned
<1>4. PICK S : S = {Id(m), <<answer, m.t>>}
  OBVIOUS
<1>5. known'[n] = known[n] \cup S /\ \A p \in Node : p # n => known'[p] = known[p]
  BY <1>1, <1>4 DEF TypeOK
<1>6. \A p \in Node : known[p] \subseteq known'[p]
  BY <1>5
<1>7. Requested'
  <2>1. \A x \in S : x[2] \in 1 .. begun
    BY <1>2, <1>4
  <2>2. ASSUME NEW t \in 1 .. begun, GivenId(t) \in S PROVE {GivenId(t), BalanceId(t)} \subseteq known'[trans[t].with]
    <3>1. t = m.t /\ answer = "transactBalance" /\ type = "transactGetBalance"
      BY <1>2, <1>4, <2>2 DEF GivenId, Requests
    <3>2. GivenId(t) \in S /\ BalanceId(t) \in S
      BY <1>2, <1>4, <2>2, <3>1 DEF BalanceId
    <3> QED
      BY <1>3, <1>5, <3>1, <3>2
  <2>3. ASSUME NEW t \in 1 .. begun, AckId(t) \in S PROVE {AckId(t), StartId(t)} \subseteq known'[trans[t].with]
    <3>1. t = m.t /\ answer = "transactAck" /\ type = "transactStart"
      BY <1>2, <1>4, <2>3 DEF AckId, Requests
    <3>2. AckId(t) \in S /\ StartId(t) \in S
      BY <1>2, <1>4, <2>3, <3>1 DEF StartId
    <3> QED
      BY <1>3, <1>5, <3>1, <3>2
  <2>4. begun' = begun /\ begun' \in {begun, begun + 1} /\ trans' = trans
    BY <1>1
  <2> QED
    BY <1>5, <2>1, <2>2, <2>3, <2>4, RequestedStep DEF Dealt
<1>8. Finished' /\ Received'
  BY <1>1, <1>6, FinishedStep, ReceivedStep DEF Dealt
<1> QED
  BY <1>1, <1>2, <1>3, <1>4, <1>5, <1>7, <1>8

LEMMA DealtGetBalance ==
  ASSUME TypeOK, TypeOK', AllNamed, Sourced, Dealt, NEW n \in Node, NEW q \in Node, handle_transactGetBalance(n, q)
  PROVE  Dealt'
<1>1. PICK m, type, answer : m = Head(chan[q][n]) /\ type = "transactGetBalance" /\ answer = "transactBalance"
  OBVIOUS
<1>2. Answering(n, q, type, answer) /\ type \in Requests /\ answer \in Answers /\ UNCHANGED balance
  BY <1>1 DEF handle_transactGetBalance, Requests, Answers
<1>3. /\ n = trans[m.t].with /\ n # trans[m.t].by /\ Id(m) = <<type, m.t>>
      /\ known'[n] = known[n] \cup {Id(m), <<answer, m.t>>} /\ \A p \in Node : p # n => known'[p] = known[p]
      /\ UNCHANGED <<strayed, trans>> /\ Requested' /\ Finished' /\ Received'
  BY <1>1, <1>2, AnsweringKnows
<1>4. ASSUME NEW p \in Node, NEW t \in Nat
      PROVE  /\ p = trans[t].with => (StartId(t) \in known'[p] <=> StartId(t) \in known[p])
             /\ p = trans[t].by => (GivenId(t) \in known'[p] <=> GivenId(t) \in known[p])
  <2> Id(m) = <<"transactGetBalance", m.t>> /\ answer = "transactBalance"
    BY <1>1, <1>3
  <2>1. StartId(t) # Id(m) /\ StartId(t) # <<answer, m.t>>
    BY DEF StartId
  <2>2. GivenId(t) # Id(m) /\ (GivenId(t) = <<answer, m.t>> => t = m.t)
    BY DEF GivenId
  <2> QED
    BY <1>3, <2>1, <2>2
<1>5. TargetOnce' /\ StarterOnce'
  BY <1>2, <1>3, <1>4, OnceStep DEF Dealt
<1> QED
  BY <1>3, <1>5 DEF Dealt

LEMMA DealtStart ==
  ASSUME TypeOK, TypeOK', AllNamed, Sourced, Dealt, NEW n \in Node, NEW q \in Node, handle_transactStart(n, q)
  PROVE  Dealt'
<1>1. PICK m, type, answer, u : m = Head(chan[q][n]) /\ type = "transactStart" /\ answer = "transactAck" /\ u = Id(m)
  OBVIOUS
<1>2. /\ Answering(n, q, type, answer) /\ type \in Requests /\ answer \in Answers
      /\ balance' = [balance EXCEPT ![n] = Append(@, u)]
  BY <1>1 DEF handle_transactStart, Requests, Answers, Update
<1>3. /\ n = trans[m.t].with /\ u = <<type, m.t>> /\ u \notin known[n] /\ m.t \in Nat
      /\ known'[n] = known[n] \cup {u, <<answer, m.t>>} /\ \A p \in Node : p # n => known'[p] = known[p]
      /\ UNCHANGED <<strayed, trans>> /\ Requested' /\ Finished' /\ Received'
  BY <1>1, <1>2, AnsweringKnows
<1>4. u = StartId(m.t) /\ u \in BalanceUpdate
  <2> u = <<"transactStart", m.t>> /\ m.t \in Nat
    BY <1>1, <1>3
  <2> QED
    BY DEF StartId, BalanceUpdate
<1>5. \A p \in Node : \A v : Times(v, p)' = Times(v, p) + (IF p = n /\ v = u THEN 1 ELSE 0) /\ Times(v, p) \in Nat
  BY <1>2, <1>4, TimesAppend
<1>6. TargetOnce'
  <2> SUFFICES ASSUME NEW p \in Node, NEW t \in Nat
               PROVE  Times(StartId(t), p)' = IF StartId(t) \in known'[p] /\ p = trans[t].with THEN 1 ELSE 0
    BY <1>3 DEF TargetOnce
  <2>1. PICK v : v = StartId(t)
    OBVIOUS
  <2>2. Times(v, p)' = Times(v, p) + (IF p = n /\ v = u THEN 1 ELSE 0) /\ Times(v, p) \in Nat
    BY <1>5
  <2>3. Times(v, p) = IF v \in known[p] /\ p = trans[t].with THEN 1 ELSE 0
    BY <2>1 DEF Dealt, TargetOnce
  <2>4. v = u <=> t = m.t
    BY <1>4, <2>1 DEF StartId
  <2>5. v # <<answer, m.t>>
    BY <1>1, <2>1 DEF StartId
  <2>6. CASE p = n /\ t = m.t
    <3>1. v = u /\ v \notin known[p] /\ v \in known'[p] /\ p = trans[t].with
      BY <1>3, <2>4, <2>6
    <3>2. Times(v, p)' = 1
      BY <2>2, <2>3, <2>6, <3>1
    <3> QED
      BY <2>1, <3>1, <3>2
  <2>7. CASE ~ (p = n /\ t = m.t)
    <3>1. v \in known'[p] <=> v \in known[p]
      BY <1>3, <2>4, <2>5, <2>7
    <3>2. Times(v, p)' = Times(v, p)
      BY <2>2, <2>4, <2>7
    <3> QED
      BY <2>1, <2>3, <3>1, <3>2
  <2> QED
    BY <2>6, <2>7
<1>7. StarterOnce'
  <2> SUFFICES ASSUME strayed = "no", NEW p \in Node, NEW t \in Nat
               PROVE  Times(GivenId(t), p)' = IF GivenId(t) \in known'[p] /\ p = trans[t].by THEN 1 ELSE 0
    BY <1>3 DEF StarterOnce
  <2>1. PICK v : v = GivenId(t)
    OBVIOUS
  <2>2. Times(v, p)' = Times(v, p) + (IF p = n /\ v = u THEN 1 ELSE 0) /\ Times(v, p) \in Nat
    BY <1>5
  <2>3. Times(v, p) = IF v \in known[p] /\ p = trans[t].by THEN 1 ELSE 0
    BY <2>1 DEF Dealt, StarterOnce
  <2>4. v # u /\ v # <<answer, m.t>>
    <3> u = <<"transactStart", m.t>> /\ answer = "transactAck" /\ v = GivenId(t)
      BY <1>1, <1>3, <2>1
    <3> QED
      BY DEF GivenId
  <2>5. (v \in known'[p] <=> v \in known[p]) /\ Times(v, p)' = Times(v, p)
    BY <1>3, <2>2, <2>4
  <2> QED
    BY <2>1, <2>3, <2>5
<1> QED
  BY <1>3, <1>6, <1>7 DEF Dealt

\* An answer is taken for the holder's own.
LEMMA AcceptingKnows ==
  ASSUME TypeOK, TypeOK', Handover, AllNamed, Sourced, Dealt, NEW n \in Node, NEW q \in Node,
         NEW type \in Answers, Accepting(n, q, type), NEW m, m = Head(chan[q][n])
  PROVE  /\ Pending(q, n) /\ m.type = type /\ m.t \in Nat
         /\ Id(m) = <<type, m.t>> /\ Id(m) \notin known[n] /\ lockRequestActive[n]
         /\ known'[n] = known[n] \cup {Id(m)} /\ \A p \in Node : p # n => known'[p] = known[p]
         /\ UNCHANGED <<loop, trans, begun>>
         /\ strayed' = IF strayed # "no" \/ Own(n, m) THEN strayed ELSE IF m.tree THEN "tree" ELSE "shortcut"
         /\ strayed' = "no" => /\ strayed = "no" /\ Own(n, m) /\ m.t = begun /\ n = trans[m.t].by
                               /\ loop[n] \in {"asked", "started"}
         /\ Requested' /\ Finished'
<1>1. /\ Pending(q, n) /\ m.type = type /\ UNCHANGED <<loop, trans, begun>>
      /\ Id(m) \notin known[n] /\ Concerned(n, m)
      /\ known' = [known EXCEPT ![n] = @ \cup {Id(m)}]
      /\ strayed' = IF strayed # "no" \/ Own(n, m) THEN strayed ELSE IF m.tree THEN "tree" ELSE "shortcut"
  BY TakesType DEF Accepting, Pending
<1>2. m.t \in Nat /\ Id(m) = <<type, m.t>>
  BY <1>1, HeadOf DEF Dealt
<1>3. known'[n] = known[n] \cup {Id(m)} /\ \A p \in Node : p # n => known'[p] = known[p]
  BY <1>1, KnownAt
<1>4. strayed' = "no" => strayed = "no" /\ Own(n, m)
  BY <1>1
<1>5. Own(n, m) => m.t = begun /\ n = trans[m.t].by /\ loop[n] \in {"asked", "started"}
  BY DEF Own, Handover, Turns
<1>6. lockRequestActive[n]
  BY <1>1 DEF Concerned, Requests, Answers
<1>7. \A p \in Node : known[p] \subseteq known'[p]
  BY <1>3
<1>8. Requested' /\ Finished'
  BY <1>1, <1>3, <1>4, <1>7, RequestedHead, FinishedStep DEF Dealt
<1> QED
  BY <1>1, <1>2, <1>3, <1>4, <1>5, <1>6, <1>8

LEMMA DealtAck ==
  ASSUME TypeOK, TypeOK', Handover, AllNamed, Sourced, Dealt, NEW n \in Node, NEW q \in Node,
         handle_transactAck(n, q)
  PROVE  Dealt'
<1>1. PICK m, type, u : m = Head(chan[q][n]) /\ type = "transactAck" /\ u = Id(m)
  OBVIOUS
<1>2. /\ Accepting(n, q, type) /\ type \in Answers /\ UNCHANGED <<balance, transactBalanceReceived>>
      /\ transactAckReceived' = [transactAckReceived EXCEPT ![n] = TRUE]
  BY <1>1 DEF handle_transactAck, Answers
<1>3. /\ u = <<type, m.t>>
      /\ known'[n] = known[n] \cup {u} /\ \A p \in Node : p # n => known'[p] = known[p]
      /\ UNCHANGED <<loop, trans, begun>>
      /\ strayed' = "no" => strayed = "no" /\ m.t = begun
      /\ Requested' /\ Finished'
  BY <1>1, <1>2, AcceptingKnows
<1>4. \A t \in Nat : u # StartId(t) /\ u # GivenId(t)
  BY <1>1, <1>3 DEF StartId, GivenId
<1>5. TargetOnce' /\ StarterOnce'
  <2>1. \A p \in Node : \A t \in Nat :
          /\ p = trans[t].with => (StartId(t) \in known'[p] <=> StartId(t) \in known[p])
          /\ strayed' = "no" /\ p = trans[t].by => (GivenId(t) \in known'[p] <=> GivenId(t) \in known[p])
    BY <1>3, <1>4
  <2> QED
    BY <1>2, <1>3, <2>1, OnceStep DEF Dealt
<1>6. Received'
  <2> SUFFICES ASSUME strayed' = "no", NEW p \in Node, loop[p] \in {"asked", "started"}
               PROVE  /\ transactAckReceived'[p] => AckId(begun) \in known'[p]
                      /\ transactBalanceReceived[p] => GivenId(begun) \in known'[p]
    BY <1>2, <1>3 DEF Received
  <2>1. u = AckId(begun) /\ strayed = "no"
    BY <1>1, <1>3 DEF AckId
  <2>2. p # n => transactAckReceived'[p] = transactAckReceived[p]
    BY <1>2 DEF TypeOK
  <2> QED
    BY <1>3, <2>1, <2>2 DEF Dealt, Received
<1> QED
  BY <1>3, <1>5, <1>6 DEF Dealt

LEMMA DealtBalance ==
  ASSUME TypeOK, TypeOK', Handover, AllNamed, Sourced, Dealt, NEW n \in Node, NEW q \in Node,
         handle_transactBalance(n, q)
  PROVE  Dealt'
<1>1. PICK m, type, u : m = Head(chan[q][n]) /\ type = "transactBalance" /\ u = Id(m)
  OBVIOUS
<1>2. /\ Accepting(n, q, type) /\ type \in Answers /\ UNCHANGED transactAckReceived
      /\ transactBalanceReceived' = [transactBalanceReceived EXCEPT ![n] = TRUE]
      /\ balance' = [balance EXCEPT ![n] = Append(@, u)]
  BY <1>1 DEF handle_transactBalance, Answers, Update
<1>3. /\ u = <<type, m.t>> /\ u \notin known[n] /\ m.t \in Nat
      /\ known'[n] = known[n] \cup {u} /\ \A p \in Node : p # n => known'[p] = known[p]
      /\ UNCHANGED <<loop, trans, begun>>
      /\ strayed' = "no" => strayed = "no" /\ m.t = begun /\ n = trans[m.t].by
      /\ Requested' /\ Finished'
  BY <1>1, <1>2, AcceptingKnows
<1>4. u = GivenId(m.t) /\ u \in BalanceUpdate
  BY <1>1, <1>3 DEF GivenId, BalanceUpdate
<1>5. \A p \in Node : \A v : Times(v, p)' = Times(v, p) + (IF p = n /\ v = u THEN 1 ELSE 0) /\ Times(v, p) \in Nat
  BY <1>2, <1>4, TimesAppend
<1>6. TargetOnce'
  <2> SUFFICES ASSUME NEW p \in Node, NEW t \in Nat
               PROVE  Times(StartId(t), p)' = IF StartId(t) \in known'[p] /\ p = trans[t].with THEN 1 ELSE 0
    BY <1>3 DEF TargetOnce
  <2>1. PICK v : v = StartId(t)
    OBVIOUS
  <2>2. Times(v, p)' = Times(v, p) + (IF p = n /\ v = u THEN 1 ELSE 0) /\ Times(v, p) \in Nat
    BY <1>5
  <2>3. Times(v, p) = IF v \in known[p] /\ p = trans[t].with THEN 1 ELSE 0
    BY <2>1 DEF Dealt, TargetOnce
  <2>4. v # u
    BY <1>1, <1>3, <2>1 DEF StartId
  <2>5. (v \in known'[p] <=> v \in known[p]) /\ Times(v, p)' = Times(v, p)
    BY <1>3, <2>2, <2>4
  <2> QED
    BY <2>1, <2>3, <2>5
<1>7. StarterOnce'
  <2> SUFFICES ASSUME strayed' = "no", NEW p \in Node, NEW t \in Nat
               PROVE  Times(GivenId(t), p)' = IF GivenId(t) \in known'[p] /\ p = trans[t].by THEN 1 ELSE 0
    BY <1>3 DEF StarterOnce
  <2>1. PICK v : v = GivenId(t)
    OBVIOUS
  <2>2. Times(v, p)' = Times(v, p) + (IF p = n /\ v = u THEN 1 ELSE 0) /\ Times(v, p) \in Nat
    BY <1>5
  <2>3. Times(v, p) = IF v \in known[p] /\ p = trans[t].by THEN 1 ELSE 0
    BY <1>3, <2>1 DEF Dealt, StarterOnce
  <2>4. v = u <=> t = m.t
    BY <1>4, <2>1 DEF GivenId
  <2>5. CASE p = n /\ t = m.t
    <3>1. v = u /\ v \notin known[p] /\ v \in known'[p] /\ p = trans[t].by
      BY <1>3, <2>4, <2>5
    <3>2. Times(v, p)' = 1
      BY <2>2, <2>3, <2>5, <3>1
    <3> QED
      BY <2>1, <3>1, <3>2
  <2>6. CASE ~ (p = n /\ t = m.t)
    <3>1. v \in known'[p] <=> v \in known[p]
      BY <1>3, <2>4, <2>6
    <3>2. Times(v, p)' = Times(v, p)
      BY <2>2, <2>4, <2>6
    <3> QED
      BY <2>1, <2>3, <3>1, <3>2
  <2> QED
    BY <2>5, <2>6
<1>8. Received'
  <2> SUFFICES ASSUME strayed' = "no", NEW p \in Node, loop[p] \in {"asked", "started"}
               PROVE  /\ transactAckReceived[p] => AckId(begun) \in known'[p]
                      /\ transactBalanceReceived'[p] => GivenId(begun) \in known'[p]
    BY <1>2, <1>3 DEF Received
  <2>1. u = GivenId(begun) /\ strayed = "no"
    BY <1>3, <1>4
  <2>2. p # n => transactBalanceReceived'[p] = transactBalanceReceived[p]
    BY <1>2 DEF TypeOK
  <2> QED
    BY <1>3, <2>1, <2>2 DEF Dealt, Received
<1> QED
  BY <1>3, <1>6, <1>7, <1>8 DEF Dealt

-----------------------------------------------------------------------------
\* The critical section: a transaction is over when both answers have come.
LEMMA DealtEnter ==
  ASSUME TypeOK, TypeOK', Handover, Dealt, NEW n \in Node, Enter(n)
  PROVE  Dealt'
<1>1. PICK b, id : b = begun + 1 /\ id = BalanceId(b)
  OBVIOUS
<1>2. /\ loop[n] = "wait" /\ lockRequestActive[n] /\ begun < Len(trans)
      /\ transactAckReceived' = [transactAckReceived EXCEPT ![n] = FALSE]
      /\ transactBalanceReceived' = [transactBalanceReceived EXCEPT ![n] = FALSE]
      /\ begun' = b /\ known' = [known EXCEPT ![n] = @ \cup {id}] /\ Goes(n, "asked")
      /\ UNCHANGED <<balance, trans, strayed>>
  BY <1>1 DEF Enter, At, BalanceId, Id, GetBalance
<1>3. known'[n] = known[n] \cup {id} /\ \A p \in Node : p # n => known'[p] = known[p]
  BY <1>2, KnownAt
<1>4. loop'[n] = "asked" /\ \A p \in Node : p # n => loop'[p] = loop[p]
  BY <1>2, GoesAt
<1>5. n = trans[b].by /\ begun \in Nat /\ b \in Nat
  <2>1. n = turn
    BY <1>2 DEF Handover, Turns
  <2> QED
    BY <1>1, <1>2, <2>1, Scripted DEF turn
<1>6. \A p \in Node : loop[p] = "wait"
  BY <1>2, Inside
<1>7. \A t \in Nat : id # StartId(t) /\ id # GivenId(t) /\ id # AckId(t)
  BY <1>1 DEF BalanceId, StartId, GivenId, AckId
<1>8. Requested'
  <2>1. PICK S : S = {id}
    OBVIOUS
  <2>2. \A x \in S : x[2] \in 1 .. begun'
    BY <1>1, <1>2, <1>5, <2>1 DEF BalanceId
  <2>3. \A t \in 1 .. begun' : GivenId(t) \notin S /\ AckId(t) \notin S
    BY <1>2, <1>5, <1>7, <2>1
  <2>4. known'[n] = known[n] \cup S /\ begun' \in {begun, begun + 1} /\ trans' = trans
    BY <1>1, <1>2, <1>3, <2>1
  <2> QED
    BY <1>3, <2>2, <2>3, <2>4, RequestedStep DEF Dealt
<1>9. Finished'
  <2> SUFFICES ASSUME strayed = "no", NEW t \in 1 .. b, t < b \/ loop'[trans[t].by] \in {"released", "wait"}
               PROVE  {GivenId(t), AckId(t)} \subseteq known'[trans[t].by]
    BY <1>2 DEF Finished, Over
  <2>1. t \in 1 .. begun
    BY <1>1, <1>4, <1>5
  <2>2. trans[t].by \in Node
    BY <2>1, TwoNodes
  <2>3. Over(t)
    BY <1>6, <2>2 DEF Over
  <2>4. {GivenId(t), AckId(t)} \subseteq known[trans[t].by]
    BY <2>1, <2>3 DEF Dealt, Finished
  <2> QED
    BY <1>3, <2>2, <2>4
<1>10. Received'
  <2>1. ASSUME NEW p \in Node, loop'[p] \in {"asked", "started"}
        PROVE  ~ transactAckReceived'[p] /\ ~ transactBalanceReceived'[p]
    BY <1>2, <1>4, <1>6, <2>1 DEF TypeOK
  <2> QED
    BY <2>1 DEF Received
<1>11. TargetOnce' /\ StarterOnce'
  <2>1. \A p \in Node : \A t \in Nat :
          /\ p = trans[t].with => (StartId(t) \in known'[p] <=> StartId(t) \in known[p])
          /\ strayed' = "no" /\ p = trans[t].by => (GivenId(t) \in known'[p] <=> GivenId(t) \in known[p])
    BY <1>3, <1>7
  <2> QED
    BY <1>2, <2>1, OnceStep DEF Dealt
<1> QED
  BY <1>8, <1>9, <1>10, <1>11 DEF Dealt

LEMMA DealtFloodStart ==
  ASSUME TypeOK, TypeOK', Handover, Dealt, NEW n \in Node, FloodStart(n)
  PROVE  Dealt'
<1>1. PICK id : id = StartId(begun)
  OBVIOUS
<1>2. /\ loop[n] = "asked" /\ known' = [known EXCEPT ![n] = @ \cup {id}] /\ Goes(n, "started")
      /\ UNCHANGED <<balance, transactAckReceived, transactBalanceReceived, trans, begun, strayed>>
  BY <1>1 DEF FloodStart, At, StartId, Id, Start, money
<1>3. known'[n] = known[n] \cup {id} /\ \A p \in Node : p # n => known'[p] = known[p]
  BY <1>2, KnownAt
<1>4. loop'[n] = "started" /\ \A p \in Node : p # n => loop'[p] = loop[p]
  BY <1>2, GoesAt
<1>5. begun >= 1 /\ n = trans[begun].by /\ begun \in Nat
  BY <1>2, Scripted DEF Handover, Turns
<1>6. begun \in 1 .. begun /\ n # trans[begun].with
  BY <1>5, TwoNodes
<1>7. \A t \in Nat : id # GivenId(t) /\ id # AckId(t) /\ (id = StartId(t) => t = begun)
  BY <1>1 DEF StartId, GivenId, AckId
<1>8. Requested'
  <2>1. PICK S : S = {id}
    OBVIOUS
  <2>2. \A x \in S : x[2] \in 1 .. begun'
    BY <1>1, <1>2, <1>6, <2>1 DEF StartId
  <2>3. \A t \in 1 .. begun' : GivenId(t) \notin S /\ AckId(t) \notin S
    BY <1>2, <1>5, <1>7, <2>1
  <2>4. known'[n] = known[n] \cup S /\ begun' \in {begun, begun + 1} /\ trans' = trans
    BY <1>2, <1>3, <2>1
  <2> QED
    BY <1>3, <2>2, <2>3, <2>4, RequestedStep DEF Dealt
<1>9. Finished'
  <2> SUFFICES ASSUME strayed = "no", NEW t \in 1 .. begun, t < begun \/ loop'[trans[t].by] \in {"released", "wait"}
               PROVE  {GivenId(t), AckId(t)} \subseteq known'[trans[t].by]
    BY <1>2 DEF Finished, Over
  <2>1. trans[t].by \in Node
    BY TwoNodes
  <2>2. Over(t)
    BY <1>4, <2>1 DEF Over
  <2>3. {GivenId(t), AckId(t)} \subseteq known[trans[t].by]
    BY <2>2 DEF Dealt, Finished
  <2> QED
    BY <1>3, <2>1, <2>3
<1>10. Received'
  <2> SUFFICES ASSUME strayed = "no", NEW p \in Node, loop'[p] \in {"asked", "started"}
               PROVE  /\ transactAckReceived[p] => AckId(begun) \in known'[p]
                      /\ transactBalanceReceived[p] => GivenId(begun) \in known'[p]
    BY <1>2 DEF Received
  <2>1. loop[p] \in {"asked", "started"}
    BY <1>2, <1>4
  <2> QED
    BY <1>3, <2>1 DEF Dealt, Received
<1>11. TargetOnce' /\ StarterOnce'
  <2>1. \A p \in Node : \A t \in Nat :
          /\ p = trans[t].with => (StartId(t) \in known'[p] <=> StartId(t) \in known[p])
          /\ strayed' = "no" /\ p = trans[t].by => (GivenId(t) \in known'[p] <=> GivenId(t) \in known[p])
    BY <1>3, <1>6, <1>7
  <2> QED
    BY <1>2, <2>1, OnceStep DEF Dealt
<1> QED
  BY <1>8, <1>9, <1>10, <1>11 DEF Dealt

LEMMA DealtExit ==
  ASSUME TypeOK, TypeOK', Handover, Dealt, NEW n \in Node, Exit(n) \/ AckNext(n)
  PROVE  Dealt'
<1>1. /\ \/ loop[n] = "started" /\ transactAckReceived[n] /\ transactBalanceReceived[n]
         \/ loop[n] = "released"
      /\ loop'[n] \in {"released", "wait"} /\ \A p \in Node : p # n => loop'[p] = loop[p]
      /\ UNCHANGED <<known, balance, transactAckReceived, transactBalanceReceived, trans, begun, strayed>>
  BY GoesAt DEF Exit, AckNext, At, MayExit, money
<1>2. Requested'
  BY <1>1 DEF Dealt, Requested
<1>3. TargetOnce' /\ StarterOnce'
  BY <1>1, OnceStep DEF Dealt
<1>4. Received'
  <2> SUFFICES ASSUME strayed = "no", NEW p \in Node, loop'[p] \in {"asked", "started"}
               PROVE  /\ transactAckReceived[p] => AckId(begun) \in known[p]
                      /\ transactBalanceReceived[p] => GivenId(begun) \in known[p]
    BY <1>1 DEF Received
  <2>1. loop[p] \in {"asked", "started"}
    BY <1>1
  <2> QED
    BY <2>1 DEF Dealt, Received
<1>5. Finished'
  <2> SUFFICES ASSUME strayed = "no", NEW t \in 1 .. begun, t < begun \/ loop'[trans[t].by] \in {"released", "wait"}
               PROVE  {GivenId(t), AckId(t)} \subseteq known[trans[t].by]
    BY <1>1 DEF Finished, Over
  <2>1. t \in Nat /\ trans[t].by \in Node /\ begun \in Nat
    BY TwoNodes
  <2>2. CASE Over(t)
    BY <2>2 DEF Dealt, Finished
  <2>3. CASE ~ Over(t)
    <3>1. t = begun /\ loop[trans[t].by] \in {"asked", "started"}
      BY <2>3, Unfinished
    <3>2. trans[t].by = n
      BY <1>1, <2>1, <3>1
    <3>3. transactAckReceived[n] /\ transactBalanceReceived[n] /\ loop[n] = "started"
      BY <1>1, <3>1, <3>2
    <3> QED
      BY <3>1, <3>2, <3>3 DEF Dealt, Received
  <2> QED
    BY <2>2, <2>3
<1> QED
  BY <1>2, <1>3, <1>4, <1>5 DEF Dealt

-----------------------------------------------------------------------------
\* What is under way after a step was under way before, or has just been sent.
LEMMA Arrivals ==
  ASSUME TypeOK, NEW n \in Node, NEW q \in Node, Pending(q, n), NEW out \in Outgoing(Message),
         chan' = Exchanged(chan, q, n, out),
         NEW p \in Node, NEW r \in Node, NEW i \in DOMAIN chan'[p][r]
  PROVE  \/ p = n /\ \E k \in DOMAIN out[r] : chan'[p][r][i] = out[r][k]
         \/ \E j \in DOMAIN chan[p][r] : chan'[p][r][i] = chan[p][r][j]
<1>1. PICK net, net2 : net = chan /\ net2 = chan'
  OBVIOUS
<1>2. /\ net \in Channels(Message) /\ net[q][n] # <<>> /\ net2 = Exchanged(net, q, n, out)
      /\ i \in DOMAIN net2[p][r]
  BY <1>1, TurnType DEF Pending
<1>3. \/ p = n /\ \E k \in DOMAIN out[r] : net2[p][r][i] = out[r][k]
      \/ \E k \in DOMAIN net[p][r] : Stays(net, net2, p, r, k, i)
  BY <1>2, ShiftExchanged
<1> QED
  BY <1>1, <1>3 DEF Stays

LEMMA Departures ==
  ASSUME TypeOK, NEW n \in Node, NEW out \in Outgoing(Message), chan' = Sent(chan, n, out),
         NEW p \in Node, NEW r \in Node, NEW i \in DOMAIN chan'[p][r]
  PROVE  \/ p = n /\ \E k \in DOMAIN out[r] : chan'[p][r][i] = out[r][k]
         \/ \E j \in DOMAIN chan[p][r] : chan'[p][r][i] = chan[p][r][j]
<1>1. PICK net, net2 : net = chan /\ net2 = chan'
  OBVIOUS
<1>2. net \in Channels(Message) /\ net2 = Sent(net, n, out) /\ i \in DOMAIN net2[p][r]
  BY <1>1, TurnType
<1>3. \/ p = n /\ \E k \in DOMAIN out[r] : net2[p][r][i] = out[r][k]
      \/ Stays(net, net2, p, r, i, i)
  BY <1>2, ShiftSent
<1> QED
  BY <1>1, <1>3 DEF Stays

\* No answer is sent in this step.
Unanswered ==
  \A p, r \in Node : \A i \in DOMAIN chan'[p][r] : chan'[p][r][i].type \in Answers =>
    \E j \in DOMAIN chan[p][r] : chan'[p][r][i] = chan[p][r][j]

\* The lock sends no answers.
LEMMA LockSends ==
  ASSUME TypeOK, NEW n \in Node, NEW q \in Node, handle_lockRelease(n, q) \/ handle_lockAck(n, q)
  PROVE  /\ Pending(q, n)
         /\ \E out \in Outgoing(Message) :
              /\ chan' = Exchanged(chan, q, n, out)
              /\ \A r \in Node : \A k \in DOMAIN out[r] : out[r][k].type \notin Answers
<1>0. Pending(q, n)
  BY DEF handle_lockRelease, handle_lockAck, Takes, Pending
<1>1. CASE handle_lockRelease(n, q)
  <2>1. PICK a, R, R2, o1, o2 :
          a = Ack(turn) /\ R = AckTo(n) /\ R2 = Tree(n) \ {q} /\ o1 = To(R, a) /\ o2 = To(R2, Release)
    OBVIOUS
  <2>2. chan' = Exchanged(chan, q, n, Then(o1, o2))
    BY <1>1, <2>1 DEF handle_lockRelease
  <2>3. o1 \in Outgoing(Message) /\ o2 \in Outgoing(Message)
    BY <2>1, AckType, ToType, Makes
  <2>4. a.type \notin Answers /\ Release.type \notin Answers
    BY <2>1 DEF Ack, Release, Answers
  <2>5. ASSUME NEW r \in Node, NEW k \in DOMAIN Then(o1, o2)[r] PROVE Then(o1, o2)[r][k].type \notin Answers
    <3>1. CASE \E j \in DOMAIN o1[r] : Then(o1, o2)[r][k] = o1[r][j]
      BY <2>1, <2>4, <3>1, ToOf
    <3>2. CASE \E j \in DOMAIN o2[r] : Then(o1, o2)[r][k] = o2[r][j]
      BY <2>1, <2>4, <3>2, ToOf
    <3> QED
      BY <2>3, <2>5, <3>1, <3>2, ThenOf
  <2>6. Then(o1, o2) \in Outgoing(Message)
    BY <2>3, ThenType
  <2> QED
    BY <1>0, <2>2, <2>5, <2>6
<1>2. CASE handle_lockAck(n, q)
  <2>1. PICK u \in Node : Head(chan[q][n]) = Ack(u)
    BY <1>2, AckTaken
  <2>2. PICK R, a : R = Tree(n) \ {q} /\ a = Ack(u)
    OBVIOUS
  <2>3. chan' = Exchanged(chan, q, n, Nothing) \/ chan' = Exchanged(chan, q, n, To(R, a))
    <3>1. chan \in Channels(Message) /\ Taken(chan, q, n) \in Channels(Message)
      BY <1>0, TurnType, TakenAt DEF Pending
    <3>2. Taken(chan, q, n) = Exchanged(chan, q, n, Nothing)
      BY <3>1, SentNothing DEF Exchanged
    <3> QED
      BY <1>2, <2>1, <2>2, <3>2 DEF handle_lockAck
  <2>4. /\ Nothing \in Outgoing(Message) /\ To(R, a) \in Outgoing(Message) /\ a.type \notin Answers
        /\ \A r \in Node : DOMAIN Nothing[r] = {}
    BY <2>2, NothingType, ToType, Makes, EmptySeq DEF Ack, Answers, Nothing
  <2>5. \A r \in Node : \A k \in DOMAIN To(R, a)[r] : To(R, a)[r][k].type \notin Answers
    BY <2>4, ToOf
  <2> QED
    BY <1>0, <2>3, <2>4, <2>5
<1> QED
  BY <1>0, <1>1, <1>2

LEMMA UnansweredLock ==
  ASSUME TypeOK, NEW n \in Node, NEW q \in Node, handle_lockRelease(n, q) \/ handle_lockAck(n, q)
  PROVE  Unanswered /\ UNCHANGED <<known, balance, transactAckReceived, transactBalanceReceived, strayed,
                                   loop, outbox, trans, begun>>
<1>1. /\ Pending(q, n)
      /\ UNCHANGED <<known, balance, transactAckReceived, transactBalanceReceived, strayed,
                     loop, outbox, trans, begun>>
  BY DEF handle_lockRelease, handle_lockAck, Takes, money, loopVars, Pending
<1>2. PICK out \in Outgoing(Message) :
        /\ chan' = Exchanged(chan, q, n, out)
        /\ \A r \in Node : \A k \in DOMAIN out[r] : out[r][k].type \notin Answers
  BY LockSends
<1>3. Unanswered
  BY <1>1, <1>2, Arrivals DEF Unanswered
<1> QED
  BY <1>1, <1>3

LEMMA UnansweredSend ==
  ASSUME TypeOK, Sourced, NEW n \in Node, LoopSend(n) \/ \E d \in Node : SendMarker(n, d)
  PROVE  Unanswered /\ UNCHANGED <<known, balance, transactAckReceived, transactBalanceReceived, strayed,
                                   loop, trans, begun, lockRequestActive>>
         /\ \A p \in Node : outbox'[p] \subseteq outbox[p]
<1>1. CASE LoopSend(n)
  <2>1. /\ UNCHANGED <<known, balance, transactAckReceived, transactBalanceReceived, strayed,
                       loop, trans, begun, lockRequestActive>>
        /\ \A p \in Node : outbox'[p] \subseteq outbox[p]
    BY <1>1 DEF LoopSend, money, lock, TypeOK
  <2>2. PICK s \in outbox[n] : chan' = Sent(chan, n, To({s[1]}, s[2]))
    BY <1>1 DEF LoopSend
  <2>3. PICK m, R, out : m = s[2] /\ R = {s[1]} /\ out = To(R, m)
    OBVIOUS
  <2>4. m \in Message /\ m.type \notin Answers
    <3>1. s \in Node \X Message
      BY <2>2 DEF TypeOK
    <3> QED
      BY <2>2, <2>3, <3>1 DEF Sourced
  <2>5. out \in Outgoing(Message) /\ chan' = Sent(chan, n, out)
    BY <2>2, <2>3, <2>4, ToType
  <2>6. \A r \in Node : \A k \in DOMAIN out[r] : out[r][k].type \notin Answers
    BY <2>3, <2>4, ToOf
  <2>7. Unanswered
    BY <2>5, <2>6, Departures DEF Unanswered
  <2> QED
    BY <2>1, <2>7
<1>2. ASSUME NEW d \in Node, SendMarker(n, d)
      PROVE  Unanswered /\ UNCHANGED <<known, balance, transactAckReceived, transactBalanceReceived, strayed,
                                       loop, outbox, trans, begun, lockRequestActive>>
  <2>1. UNCHANGED <<known, balance, transactAckReceived, transactBalanceReceived, strayed,
                    loop, outbox, trans, begun, lockRequestActive>>
    BY <1>2 DEF SendMarker, money, lock, loopVars
  <2>2. PICK out \in Outgoing(Message) :
          /\ chan' = Sent(chan, n, out)
          /\ \A r \in Node : \A k \in DOMAIN out[r] : out[r][k].type \in {"marker", "state"}
    BY <1>2, MarkerSends
  <2>3. \A r \in Node : \A k \in DOMAIN out[r] : out[r][k].type \notin Answers
    BY <2>2 DEF Answers
  <2>4. Unanswered
    BY <2>2, <2>3, Departures DEF Unanswered
  <2> QED
    BY <2>1, <2>4
<1> QED
  BY <1>1, <1>2

-----------------------------------------------------------------------------
\* Where the answers on their way come from.
LEMMA SourcedStep ==
  ASSUME TypeOK, Sourced, begun' \in {begun, begun + 1}, trans' = trans,
         \A p \in Node : known[p] \subseteq known'[p],
         \A p, r \in Node : \A i \in DOMAIN chan'[p][r] : chan'[p][r][i].type \in Answers =>
           \/ \E j \in DOMAIN chan[p][r] : chan'[p][r][i] = chan[p][r][j]
           \/ From(known', begun', p, r, chan'[p][r][i]),
         \A p \in Node : \A x \in outbox'[p] : x \in outbox[p] \/ x[2].type \notin Answers
  PROVE  Sourced'
<1>1. begun \in Nat
  BY Scripted
<1>2. ASSUME NEW p \in Node, NEW r \in Node, NEW m, From(known, begun, p, r, m)
      PROVE  From(known', begun', p, r, m)
  <2>1. m.t \in 1 .. begun /\ trans[m.t].with \in Node
    BY <1>2, TwoNodes DEF From
  <2>2. m.t \in 1 .. begun'
    BY <1>1, <2>1
  <2> QED
    BY <1>2, <2>1, <2>2 DEF From
<1>3. ASSUME NEW p \in Node, NEW r \in Node, NEW i \in DOMAIN chan'[p][r], chan'[p][r][i].type \in Answers
      PROVE  From(known', begun', p, r, chan'[p][r][i])
  <2>1. PICK m : m = chan'[p][r][i]
    OBVIOUS
  <2>2. CASE \E j \in DOMAIN chan[p][r] : m = chan[p][r][j]
    <3>1. From(known, begun, p, r, m)
      BY <1>3, <2>1, <2>2 DEF Sourced
    <3> QED
      BY <1>2, <2>1, <3>1
  <2> QED
    BY <1>3, <2>1, <2>2
<1>4. \A p \in Node : \A x \in outbox'[p] : x[2].type \notin Answers
  BY DEF Sourced
<1>5. \A p, r \in Node : \A m : From(known, begun, p, r, m)' <=> From(known', begun', p, r, m)
  BY DEF From
<1>6. ASSUME NEW p \in Node, NEW r \in Node, NEW i \in DOMAIN chan'[p][r], chan'[p][r][i].type \in Answers
      PROVE  From(known, begun, p, r, chan[p][r][i])'
  <2>1. PICK m : m = chan'[p][r][i]
    OBVIOUS
  <2>2. From(known', begun', p, r, m)
    BY <1>3, <1>6, <2>1
  <2>3. From(known, begun, p, r, m)'
    BY <1>5, <2>2
  <2> QED
    BY <2>1, <2>3 DEF From
<1> QED
  BY <1>4, <1>6 DEF Sourced

LEMMA SourcedKept ==
  ASSUME TypeOK, Sourced, Unanswered, begun' \in {begun, begun + 1}, trans' = trans,
         \A p \in Node : known[p] \subseteq known'[p],
         \A p \in Node : \A x \in outbox'[p] : x \in outbox[p] \/ x[2].type \notin Answers
  PROVE  Sourced'
BY SourcedStep DEF Unanswered

\* A handler that passes an answer on, or answers.
LEMMA SourcedAside ==
  ASSUME TypeOK, TypeOK', AllNamed, Sourced, Dealt, NEW n \in Node, NEW q \in Node,
         NEW out \in Outgoing(Message), Aside(n, q, out), \A p \in Node : known[p] \subseteq known'[p]
  PROVE  Sourced'
<1>1. Pending(q, n) /\ chan' = Exchanged(chan, q, n, out) /\ UNCHANGED <<outbox, trans, begun>>
  BY DEF Aside
<1>2. PICK h : h = Head(chan[q][n])
  OBVIOUS
<1>3. ASSUME NEW r \in Node, NEW k \in DOMAIN out[r], NEW m, m = out[r][k], m.type \in Answers
      PROVE  From(known', begun', n, r, m)
  <2>1. /\ h.type \in Requests \cup Answers /\ m.t = h.t /\ (m.tree => r \in Tree(n))
        /\ \/ /\ h.type = m.type /\ (m.tree => m = h /\ r # q)
           \/ handle_transactGetBalance(n, q) /\ m.type = "transactBalance"
           \/ handle_transactStart(n, q) /\ m.type = "transactAck"
    BY <1>2, <1>3 DEF Aside
  <2>2. m.t \in 1 .. begun /\ trans[m.t].with \in Node /\ begun' = begun /\ trans' = trans /\ Id(m) = <<m.type, m.t>>
    BY <1>1, <1>2, <2>1, HeadOf, TwoNodes DEF Dealt, Id
  <2>3. CASE h.type = m.type /\ (m.tree => m = h /\ r # q)
    <3>1. From(known, begun, q, n, h)
      BY <1>1, <1>2, <1>3, <2>1, <2>3, HeadOf DEF Dealt
    <3>2. Id(m) = Id(h) /\ Id(m) \in known'[trans[m.t].with]
      BY <2>1, <2>2, <2>3, <3>1 DEF From, Id
    <3>3. ASSUME m.tree PROVE trans[m.t].with \notin Beyond(n, r)
      <4>1. m = h /\ r # q /\ r \in Tree(n)
        BY <2>1, <2>3, <3>3
      <4>2. n \in Tree(q) /\ trans[m.t].with \notin Beyond(q, n)
        BY <3>1, <3>3, <4>1 DEF From
      <4> QED
        BY <4>1, <4>2, Edges
    <3> QED
      BY <2>1, <2>2, <3>2, <3>3 DEF From
  <2>4. CASE \/ handle_transactGetBalance(n, q) /\ m.type = "transactBalance"
             \/ handle_transactStart(n, q) /\ m.type = "transactAck"
    <3>1. h.type \in Requests /\ h.target = n /\ Id(m) \in known'[n]
      <4>1. /\ \/ Answering(n, q, "transactGetBalance", "transactBalance") /\ m.type = "transactBalance"
               \/ Answering(n, q, "transactStart", "transactAck") /\ m.type = "transactAck"
        BY <2>4 DEF handle_transactGetBalance, handle_transactStart
      <4>2. h.type \in Requests /\ Concerned(n, h)
        BY <1>2, <4>1 DEF Answering, Takes, Requests
      <4>3. known' = [known EXCEPT ![n] = @ \cup {Id(h), <<m.type, h.t>>}]
        BY <1>2, <4>1 DEF Answering
      <4>4. <<m.type, h.t>> \in known'[n]
        BY <4>3 DEF TypeOK
      <4> QED
        BY <2>1, <2>2, <4>2, <4>4 DEF Concerned
    <3>2. n = trans[m.t].with
      BY <1>1, <1>2, <2>1, <3>1, HeadOf DEF Dealt
    <3>3. m.tree => r \in Tree(n) /\ n \notin Beyond(n, r)
      BY <2>1, Edges
    <3> QED
      BY <2>2, <3>1, <3>2, <3>3 DEF From
  <2> QED
    BY <2>1, <2>3, <2>4
<1>4. ASSUME NEW p \in Node, NEW r \in Node, NEW i \in DOMAIN chan'[p][r], chan'[p][r][i].type \in Answers
      PROVE  \/ \E j \in DOMAIN chan[p][r] : chan'[p][r][i] = chan[p][r][j]
             \/ From(known', begun', p, r, chan'[p][r][i])
  <2>1. PICK m : m = chan'[p][r][i]
    OBVIOUS
  <2>2. \/ p = n /\ \E k \in DOMAIN out[r] : m = out[r][k]
        \/ \E j \in DOMAIN chan[p][r] : m = chan[p][r][j]
    BY <1>1, <2>1, Arrivals
  <2>3. CASE p = n /\ \E k \in DOMAIN out[r] : m = out[r][k]
    <3>1. From(known', begun', p, r, m)
      BY <1>3, <1>4, <2>1, <2>3
    <3> QED
      BY <2>1, <3>1
  <2> QED
    BY <2>1, <2>2, <2>3
<1>5. begun' \in {begun, begun + 1} /\ \A p \in Node : \A x \in outbox'[p] : x \in outbox[p]
  BY <1>1
<1> QED
  BY <1>1, <1>4, <1>5, SourcedStep

-----------------------------------------------------------------------------
\* Who has the lock can only be met by answers to what it has asked itself.
LEMMA OwnKept ==
  ASSUME OwnOnly, Unanswered, strayed' = "no" => strayed = "no",
         \A n \in Node : lockRequestActive'[n] =>
           lockRequestActive[n] /\ \A m : Own(n, m) => loop'[n] \in {"asked", "started"} /\ m.t = begun'
  PROVE  OwnOnly'
<1> SUFFICES ASSUME strayed' = "no", NEW n \in Node, lockRequestActive'[n], NEW p \in Node, NEW r \in Tree(p),
                    n \in Beyond(p, r), NEW i \in DOMAIN chan'[p][r], chan'[p][r][i] \in Pure
             PROVE  loop'[n] \in {"asked", "started"} /\ chan'[p][r][i].t = begun'
  BY DEF OwnOnly, Own
<1>1. PICK m : m = chan'[p][r][i]
  OBVIOUS
<1>2. r \in Node /\ m.type \in Answers /\ m \in Pure
  BY <1>1, TreeNodes DEF Pure
<1>3. \E j \in DOMAIN chan[p][r] : m = chan[p][r][j]
  BY <1>1, <1>2 DEF Unanswered
<1>4. Own(n, m)
  BY <1>2, <1>3 DEF OwnOnly
<1> QED
  BY <1>1, <1>4

LEMMA OwnAside ==
  ASSUME TypeOK, Handover, AllNamed, Sourced, Dealt, OwnOnly, strayed' = "no" => strayed = "no",
         NEW n \in Node, NEW q \in Node, NEW out \in Outgoing(Message), Aside(n, q, out)
  PROVE  OwnOnly'
<1>1. Pending(q, n) /\ chan' = Exchanged(chan, q, n, out) /\ UNCHANGED <<loop, begun, trans, lockRequestActive>>
  BY DEF Aside
<1> SUFFICES ASSUME strayed = "no", NEW x \in Node, lockRequestActive[x], NEW p \in Node, NEW r \in Tree(p),
                    x \in Beyond(p, r), NEW i \in DOMAIN chan'[p][r], chan'[p][r][i] \in Pure
             PROVE  loop[x] \in {"asked", "started"} /\ chan'[p][r][i].t = begun
  BY <1>1 DEF OwnOnly, Own
<1>2. PICK m, h : m = chan'[p][r][i] /\ h = Head(chan[q][n])
  OBVIOUS
<1>3. r \in Node /\ m.type \in Answers /\ m.tree /\ m \in Pure
  BY <1>2, TreeNodes DEF Pure
<1>4. \/ p = n /\ \E k \in DOMAIN out[r] : m = out[r][k]
      \/ \E j \in DOMAIN chan[p][r] : m = chan[p][r][j]
  BY <1>1, <1>2, <1>3, Arrivals
<1>5. ASSUME NEW a \in Node, NEW b \in Tree(a), x \in Beyond(a, b), NEW j \in DOMAIN chan[a][b], m = chan[a][b][j]
      PROVE  Own(x, m)
  BY <1>3, <1>5 DEF OwnOnly
<1>6. CASE \E j \in DOMAIN chan[p][r] : m = chan[p][r][j]
  BY <1>2, <1>5, <1>6 DEF Own
<1>7. CASE p = n /\ \E k \in DOMAIN out[r] : m = out[r][k]
  <2>1. /\ h.type \in Requests \cup Answers /\ m.t = h.t
        /\ \/ PassOn(n, q) /\ m = h /\ r # q
           \/ handle_transactGetBalance(n, q) \/ handle_transactStart(n, q)
    BY <1>2, <1>3, <1>7 DEF Aside
  <2>2. CASE PassOn(n, q) /\ m = h /\ r # q
    <3>1. PICK s : s = chan[q][n]
      OBVIOUS
    <3>2. s \in Seq(Message) /\ s # <<>> /\ m = Head(s)
      BY <1>1, <1>2, <2>2, <3>1 DEF TypeOK, Pending
    <3>3. m = s[1] /\ 1 \in DOMAIN s
      BY <3>2, Uncons
    <3>4. From(known, begun, q, n, m)
      BY <1>3, <3>1, <3>3 DEF Sourced
    <3>5. n \in Tree(q)
      BY <1>3, <3>4 DEF From
    <3>6. x \in Beyond(q, n)
      BY <1>7, <2>2, <3>5, Edges
    <3>7. Own(x, m)
      BY <1>5, <3>1, <3>3, <3>5, <3>6
    <3> QED
      BY <1>2, <3>7 DEF Own
  <2>3. CASE handle_transactGetBalance(n, q) \/ handle_transactStart(n, q)
    <3>1. h.type \in Requests /\ h.target = n /\ Id(h) \notin known[n]
      BY <1>2, <2>3 DEF handle_transactGetBalance, handle_transactStart, Answering, Takes, Concerned, Requests
    <3>2. /\ h.t \in 1 .. begun /\ n = trans[h.t].with /\ Id(h) = <<h.type, h.t>>
      BY <1>1, <1>2, <2>1, <3>1, HeadOf DEF Dealt
    <3>3. BalanceId(h.t) \notin known[n] \/ StartId(h.t) \notin known[n]
      BY <3>1, <3>2 DEF BalanceId, StartId, Requests
    <3>4. /\ h.t = begun /\ loop[trans[h.t].by] \in {"asked", "started"} /\ lockRequestActive[trans[h.t].by]
          /\ trans[h.t].by \in Node
      BY <3>2, <3>3, Fresh DEF Dealt
    <3>5. x = trans[h.t].by
      BY <3>4 DEF Handover, Exclusive
    <3> QED
      BY <1>2, <2>1, <3>4, <3>5
  <2> QED
    BY <2>1, <2>2, <2>3
<1> QED
  BY <1>4, <1>6, <1>7

\* Whoever gets the lock is met by no answer: the acknowledgements have swept the tree.
LEMMA OwnGranted ==
  ASSUME TypeOK, Handover, OwnOnly, strayed = "no" => Swept(Pure), NEW n \in Node, NEW q \in Node,
         handle_lockAck(n, q)
  PROVE  OwnOnly'
<1>1. Unanswered /\ UNCHANGED <<strayed, loop, begun>>
  BY UnansweredLock
<1>2. CASE \A p \in Node : lockRequestActive'[p] => lockRequestActive[p]
  BY <1>1, <1>2, OwnKept DEF Own
<1>3. CASE ~ \A p \in Node : lockRequestActive'[p] => lockRequestActive[p]
  <2>1. PICK u \in Node : Head(chan[q][n]) = Ack(u) /\ Head(chan[q][n]).uid = u
    BY AckTaken
  <2>2. u = n /\ lockRequestActive' = [lockRequestActive EXCEPT ![n] = @ \/ Counted(n) = 0]
    BY <1>3, <2>1 DEF handle_lockAck, lock
  <2>3. Counted(n) = 0
    <3>1. CASE Counted(n) # 0
      BY <1>3, <2>2, <3>1 DEF TypeOK
    <3> QED
      BY <3>1
  <2>4. Pending(q, n) /\ Head(chan[q][n]) = Ack(n)
    BY <2>1, <2>2, AckTaken
  <2>5. Passing
    BY <2>4, Granted
  <2>6. \A x \in Node : x # n => ~ lockRequestActive'[x]
    BY <2>2, <2>5 DEF TypeOK, Passing, Held
  <2>7. strayed = "no" => \A p \in Node : \A r \in Tree(p) : n \in Beyond(p, r) =>
          \A i \in DOMAIN chan[p][r] : chan[p][r][i] \notin Pure
    <3>1. PICK X : X = Pure
      OBVIOUS
    <3>2. Swept(X) => \A p \in Node : \A r \in Tree(p) : n \in Beyond(p, r) =>
            \A i \in DOMAIN chan[p][r] : chan[p][r][i] \notin X
      BY <2>3, <2>4, Granted
    <3> QED
      BY <3>1, <3>2
  <2> SUFFICES ASSUME strayed = "no", NEW p \in Node, NEW r \in Tree(p), n \in Beyond(p, r),
                      NEW i \in DOMAIN chan'[p][r], chan'[p][r][i] \in Pure
               PROVE  FALSE
    BY <1>1, <2>6 DEF OwnOnly
  <2>8. PICK m : m = chan'[p][r][i]
    OBVIOUS
  <2>9. r \in Node /\ m.type \in Answers /\ m \in Pure
    BY <2>8, TreeNodes DEF Pure
  <2>10. \E j \in DOMAIN chan[p][r] : m = chan[p][r][j]
    BY <1>1, <2>8, <2>9 DEF Unanswered
  <2> QED
    BY <2>7, <2>9, <2>10
<1> QED
  BY <1>2, <1>3

\* Hence what strays does not come over the tree.
LEMMA StraysNot ==
  ASSUME TypeOK, Sourced, OwnOnly, strayed # "tree", NEW n \in Node, NEW q \in Node,
         NEW type \in Answers, Accepting(n, q, type)
  PROVE  strayed' # "tree"
<1>1. PICK m, s : m = Head(chan[q][n]) /\ s = chan[q][n]
  OBVIOUS
<1>2. /\ s # <<>> /\ m.type = type /\ Concerned(n, m)
      /\ strayed' = IF strayed # "no" \/ Own(n, m) THEN strayed ELSE IF m.tree THEN "tree" ELSE "shortcut"
  BY <1>1, TakesType DEF Accepting
<1>3. s \in Seq(Message) /\ m = Head(s)
  BY <1>1 DEF TypeOK
<1>4. m = s[1] /\ 1 \in DOMAIN s /\ m \in Message
  BY <1>2, <1>3, Uncons
<1>5. ASSUME strayed = "no", m.tree PROVE Own(n, m)
  <2>1. From(known, begun, q, n, m) /\ m \in Pure
    BY <1>1, <1>2, <1>4, <1>5 DEF Sourced, Pure
  <2>2. n \in Tree(q)
    BY <1>5, <2>1 DEF From
  <2>3. n \in Beyond(q, n) /\ lockRequestActive[n]
    BY <1>2, <2>2, Edges DEF Concerned, Requests, Answers
  <2> QED
    BY <1>1, <1>4, <1>5, <2>1, <2>2, <2>3 DEF OwnOnly
<1> QED
  BY <1>2, <1>5

-----------------------------------------------------------------------------
\* Unless an answer has strayed, all of this holds, and the first to stray is a shortcut.
Dealing ==
  /\ Sourced /\ Dealt /\ OwnOnly
  /\ strayed = "no" => Swept(Pure)
  /\ strayed # "tree"

LEMMA DealingInit == Init => Dealing
<1> SUFFICES ASSUME Init PROVE Dealing
  OBVIOUS
<1>1. /\ \A p, r \in Node : DOMAIN chan[p][r] = {}
      /\ \A p \in Node : known[p] = {} /\ outbox[p] = {} /\ loop[p] = "wait" /\ balance[p] = <<>>
      /\ begun = 0 /\ strayed = "no"
  BY EmptySeq DEF Init, EmptyNet
<1>2. Swept(Pure)
  BY HandoverInit
<1>3. Sourced
  BY <1>1 DEF Sourced
<1>4. OwnOnly
  BY <1>1, TreeNodes DEF OwnOnly
<1>5. Requested /\ Finished /\ Received
  BY <1>1 DEF Requested, Finished, Received
<1>6. ASSUME NEW n \in Node, NEW u PROVE Times(u, n) = 0
  <2>1. {i \in DOMAIN balance[n] : balance[n][i] = u} = {}
    BY <1>1, EmptySeq
  <2> QED
    BY <2>1, FS_EmptySet DEF Times
<1>7. TargetOnce /\ StarterOnce
  BY <1>1, <1>6 DEF TargetOnce, StarterOnce
<1> QED
  BY <1>1, <1>2, <1>3, <1>4, <1>5, <1>7 DEF Dealing, Dealt

\* A handler of a transaction.
LEMMA DealingTransaction ==
  ASSUME TypeOK, TypeOK', Handover, AllNamed, Dealing, NEW n \in Node, NEW q \in Node,
         \/ Deduplicate(n, q) \/ PassOn(n, q)
         \/ handle_transactGetBalance(n, q) \/ handle_transactStart(n, q)
         \/ handle_transactAck(n, q) \/ handle_transactBalance(n, q)
  PROVE  Sourced' /\ Dealt' /\ OwnOnly' /\ strayed' # "tree" /\ (strayed' = "no" => strayed = "no")
<1>1. Sourced /\ Dealt /\ OwnOnly /\ strayed # "tree"
  BY DEF Dealing
<1>2. PICK out \in Outgoing(Message) : Aside(n, q, out)
  BY AsideTransaction
<1>3. CASE handle_transactAck(n, q) \/ handle_transactBalance(n, q)
  <2>1. PICK type \in Answers : Accepting(n, q, type)
    BY <1>3 DEF handle_transactAck, handle_transactBalance, Answers
  <2>2. /\ strayed' = "no" => strayed = "no"
        /\ \E S : known'[n] = known[n] \cup S
        /\ \A p \in Node : p # n => known'[p] = known[p]
    BY <1>1, <2>1, AcceptingKnows
  <2>3. \A p \in Node : known[p] \subseteq known'[p]
    BY <2>2
  <2>4. strayed' # "tree"
    BY <1>1, <2>1, StraysNot
  <2>5. Dealt'
    BY <1>1, <1>3, DealtAck, DealtBalance
  <2>6. Sourced'
    BY <1>1, <1>2, <2>3, SourcedAside
  <2>7. OwnOnly'
    BY <1>1, <1>2, <2>2, OwnAside
  <2> QED
    BY <2>2, <2>4, <2>5, <2>6, <2>7
<1>4. CASE \/ Deduplicate(n, q) \/ PassOn(n, q)
           \/ handle_transactGetBalance(n, q) \/ handle_transactStart(n, q)
  <2>1. strayed' = strayed /\ \E S : known' = [known EXCEPT ![n] = @ \cup S]
    <3>1. CASE Deduplicate(n, q)
      <4>1. known' = [known EXCEPT ![n] = @ \cup {}]
        BY <3>1 DEF Deduplicate, TypeOK
      <4> QED
        BY <3>1, <4>1 DEF Deduplicate
    <3> QED
      BY <1>4, <3>1 DEF PassOn, handle_transactGetBalance, handle_transactStart, Answering
  <2>2. \A p \in Node : known[p] \subseteq known'[p]
    BY <2>1 DEF TypeOK
  <2>3. Dealt'
    <3>1. CASE Deduplicate(n, q)
      BY <1>1, <3>1, DealtKept DEF Deduplicate, Takes, money, loopVars
    <3> QED
      BY <1>1, <1>4, <3>1, DealtPassOn, DealtGetBalance, DealtStart
  <2>4. Sourced'
    BY <1>1, <1>2, <2>2, SourcedAside
  <2>5. OwnOnly'
    BY <1>1, <1>2, <2>1, OwnAside
  <2> QED
    BY <1>1, <2>1, <2>3, <2>4, <2>5
<1> QED
  BY <1>3, <1>4

\* A handler of a snapshot or of the lock.
LEMMA DealingOthers ==
  ASSUME TypeOK, TypeOK', Handover, AllNamed, Dealing, NEW n \in Node, NEW q \in Node,
         \/ handle_marker(n, q) \/ handle_state(n, q)
         \/ handle_lockRelease(n, q) \/ handle_lockAck(n, q)
  PROVE  Sourced' /\ Dealt' /\ OwnOnly' /\ strayed' = strayed
<1>1. Sourced /\ Dealt /\ OwnOnly /\ (strayed = "no" => Swept(Pure))
  BY DEF Dealing
<1>2. CASE handle_marker(n, q) \/ handle_state(n, q)
  <2>1. UNCHANGED <<known, balance, transactAckReceived, transactBalanceReceived, strayed, loop, trans, begun>>
    BY <1>2 DEF handle_marker, FirstMarker, LaterMarker, handle_state, Takes, money, loopVars
  <2>2. PICK out \in Outgoing(Message) : Aside(n, q, out)
    BY <1>2, AsideSnapshot
  <2>3. Dealt'
    BY <1>1, <2>1, DealtKept
  <2>4. Sourced'
    BY <1>1, <2>1, <2>2, SourcedAside
  <2>5. OwnOnly'
    BY <1>1, <2>1, <2>2, OwnAside
  <2> QED
    BY <2>1, <2>3, <2>4, <2>5
<1>3. CASE handle_lockRelease(n, q) \/ handle_lockAck(n, q)
  <2>1. Unanswered /\ UNCHANGED <<known, balance, transactAckReceived, transactBalanceReceived, strayed,
                                  loop, outbox, trans, begun>>
    BY <1>3, UnansweredLock
  <2>2. Dealt'
    BY <1>1, <2>1, DealtKept
  <2>3. Sourced'
    BY <1>1, <2>1, SourcedKept
  <2>4. OwnOnly'
    <3>1. CASE handle_lockRelease(n, q)
      <4>1. lockRequestActive' = lockRequestActive
        BY <3>1 DEF handle_lockRelease, lock
      <4> QED
        BY <1>1, <2>1, <4>1, OwnKept DEF Own
    <3> QED
      BY <1>1, <1>3, <3>1, OwnGranted
  <2> QED
    BY <2>1, <2>2, <2>3, <2>4
<1> QED
  BY <1>2, <1>3

\* What is sent later, a message at a time.
LEMMA DealingSend ==
  ASSUME TypeOK, TypeOK', Dealing, NEW n \in Node, LoopSend(n) \/ \E d \in Node : SendMarker(n, d)
  PROVE  Sourced' /\ Dealt' /\ OwnOnly' /\ strayed' = strayed
<1>1. Sourced /\ Dealt /\ OwnOnly
  BY DEF Dealing
<1>2. /\ Unanswered
      /\ UNCHANGED <<known, balance, transactAckReceived, transactBalanceReceived, strayed,
                     loop, trans, begun, lockRequestActive>>
      /\ \A p \in Node : outbox'[p] \subseteq outbox[p]
  BY <1>1, UnansweredSend
<1>3. Dealt'
  BY <1>1, <1>2, DealtKept
<1>4. Sourced'
  BY <1>1, <1>2, SourcedKept
<1>5. OwnOnly'
  BY <1>1, <1>2, OwnKept DEF Own
<1> QED
  BY <1>2, <1>3, <1>4, <1>5

\* The critical section sends no answers.
LEMMA DealingLoop ==
  ASSUME TypeOK, TypeOK', Handover, Dealing, NEW n \in Node, Enter(n) \/ FloodStart(n) \/ Exit(n) \/ AckNext(n)
  PROVE  Sourced' /\ Dealt' /\ OwnOnly' /\ strayed' = strayed
<1>1. Sourced /\ Dealt /\ OwnOnly
  BY DEF Dealing
<1>2. UNCHANGED <<chan, strayed, trans>>
  BY DEF Enter, FloodStart, Exit, AckNext
<1>3. Unanswered
  BY <1>2 DEF Unanswered
<1>4. \A p \in Node : known[p] \subseteq known'[p]
  <2>1. known' = known \/ \E id : known' = [known EXCEPT ![n] = @ \cup {id}]
    BY DEF Enter, FloodStart, Exit, AckNext
  <2> QED
    BY <2>1, KnownAt
<1>5. PICK R, m : SendAll(n, R, m) /\ m.type \notin Answers
  BY DEF Enter, FloodStart, Exit, AckNext, GetBalance, Start, Release, Ack, Answers
<1>6. Dealt'
  BY <1>1, DealtEnter, DealtFloodStart, DealtExit
<1>7. \A p \in Node : \A x \in outbox'[p] : x \in outbox[p] \/ x[2].type \notin Answers
  BY <1>5, SendAllAt
<1>8. begun' \in {begun, begun + 1}
  BY DEF Enter, FloodStart, Exit, AckNext
<1>9. Sourced'
  BY <1>1, <1>2, <1>3, <1>4, <1>7, <1>8, SourcedKept
<1>10. ASSUME NEW p \in Node, lockRequestActive'[p]
       PROVE  lockRequestActive[p] /\ (loop[p] \in {"asked", "started"} => loop'[p] \in {"asked", "started"} /\ begun' = begun)
  <2>1. CASE Enter(n)
    <3>1. lockRequestActive' = lockRequestActive /\ lockRequestActive[n] /\ loop[n] = "wait" /\ Goes(n, "asked")
      BY <2>1 DEF Enter, At, lock
    <3>2. p = n
      BY <1>10, <3>1 DEF Handover, Exclusive
    <3> QED
      BY <1>10, <3>1, <3>2
  <2>2. CASE FloodStart(n)
    <3>1. lockRequestActive' = lockRequestActive /\ begun' = begun /\ Goes(n, "started")
      BY <2>2 DEF FloodStart, lock
    <3> QED
      BY <1>10, <3>1, GoesAt
  <2>3. CASE Exit(n)
    <3>1. lockRequestActive' = [lockRequestActive EXCEPT ![n] = FALSE] /\ begun' = begun /\ Goes(n, "released")
      BY <2>3 DEF Exit
    <3>2. p # n /\ lockRequestActive[p]
      BY <1>10, <3>1 DEF TypeOK
    <3> QED
      BY <3>1, <3>2, GoesAt
  <2>4. CASE AckNext(n)
    <3>1. lockRequestActive' = lockRequestActive /\ begun' = begun /\ loop[n] = "released" /\ Goes(n, "wait")
      BY <2>4 DEF AckNext, At, lock
    <3> QED
      BY <1>10, <3>1, GoesAt
  <2> QED
    BY <2>1, <2>2, <2>3, <2>4
<1>11. OwnOnly'
  BY <1>1, <1>2, <1>3, <1>10, OwnKept DEF Own
<1> QED
  BY <1>2, <1>6, <1>9, <1>11

\* Transactions, step by step.
LEMMA DealingNext ==
  ASSUME TypeOK, TypeOK', Handover, Swept({Release}), AllNamed, Dealing, [Next]_vars
  PROVE  Dealing'
<1>1. Sourced' /\ Dealt' /\ OwnOnly' /\ strayed' # "tree" /\ (strayed' = "no" => strayed = "no")
  <2>1. strayed # "tree"
    BY DEF Dealing
  <2>2. ASSUME NEW n \in Node, NEW q \in Node, Handle(n, q)
        PROVE  Sourced' /\ Dealt' /\ OwnOnly' /\ strayed' # "tree" /\ (strayed' = "no" => strayed = "no")
    BY <2>1, <2>2, DealingTransaction, DealingOthers DEF Handle
  <2>3. ASSUME NEW n \in Node, transactionLoop(n)
        PROVE  Sourced' /\ Dealt' /\ OwnOnly' /\ strayed' = strayed
    BY <2>3, DealingLoop, DealingSend DEF transactionLoop
  <2>4. ASSUME NEW n \in Node, NEW d \in Node, SendMarker(n, d)
        PROVE  Sourced' /\ Dealt' /\ OwnOnly' /\ strayed' = strayed
    BY <2>4, DealingSend
  <2>5. CASE NewSnapshot \/ UNCHANGED vars
    <3>1. UNCHANGED <<chan, known, balance, transactAckReceived, transactBalanceReceived, strayed,
                      lockRequestActive, loop, outbox, trans, begun>>
      BY <2>5 DEF NewSnapshot, vars, money, lock, loopVars
    <3>2. Sourced /\ Dealt /\ OwnOnly
      BY DEF Dealing
    <3>3. Unanswered
      BY <3>1 DEF Unanswered
    <3>4. Dealt'
      BY <3>1, <3>2, DealtKept
    <3>5. Sourced'
      BY <3>1, <3>2, <3>3, SourcedKept
    <3>6. OwnOnly'
      BY <3>1, <3>2, <3>3, OwnKept DEF Own
    <3> QED
      BY <2>1, <3>1, <3>4, <3>5, <3>6
  <2>6. Neigh \in [Node -> SUBSET Node] /\ Leader \in Node
    BY NeighAssumption, NodeAssumption
  <2> QED
    BY <2>1, <2>2, <2>3, <2>4, <2>5, <2>6 DEF Next, Handler, leaderLoop
<1>2. ASSUME strayed' = "no" PROVE Swept(Pure)'
  <2>1. strayed = "no"
    BY <1>1, <1>2
  <2>2. Sourced /\ Requested /\ Finished /\ Swept(Pure)
    BY <2>1 DEF Dealing, Dealt
  <2>3. PICK X : X = Pure
    OBVIOUS
  <2>4. Trailing(X)
    BY <2>1, <2>2, <2>3, AnswersTrail
  <2>5. Swept(X)
    BY <2>2, <2>3
  <2>6. Swept(X)'
    BY <2>4, <2>5, PassesNext
  <2> QED
    BY <2>3, <2>6
<1> QED
  BY <1>1, <1>2 DEF Dealing

\* All that is known of the lock and of the transactions.
LEMMA Deals == Spec => [](TypeOK /\ Handover /\ Dealing)
<1>1. Init => TypeOK /\ Holding /\ Order /\ Handover /\ Swept({Release}) /\ Dealing
  BY TypesInit, HoldingInit, OrderInit, HandoverInit, DealingInit
<1>2. TypeOK /\ Holding /\ Order /\ Handover /\ Swept({Release}) /\ Dealing /\ [Next]_vars
        => (TypeOK /\ Holding /\ Order /\ Handover /\ Swept({Release}) /\ Dealing)'
  <2> SUFFICES ASSUME TypeOK, Holding, Order, Handover, Swept({Release}), Dealing, [Next]_vars
               PROVE  (TypeOK /\ Holding /\ Order /\ Handover /\ Swept({Release}) /\ Dealing)'
    OBVIOUS
  <2>1. TypeOK' /\ Holding'
    BY TypesNext
  <2>2. Exclusive /\ AllNamed
    BY DEF Handover, Order
  <2>3. Order'
    BY <2>2, OrderNext
  <2>4. Handover' /\ Swept({Release})'
    BY <2>1, ReleaseNext
  <2>5. Dealing'
    BY <2>1, <2>2, DealingNext
  <2> QED
    BY <2>1, <2>3, <2>4, <2>5
<1> QED
  BY <1>1, <1>2, PTL DEF Spec

\* handle_transactBalance and handle_transactAck take any answer they do not know, whoever
\* it is for.  What comes over the tree is nevertheless the holder's own, on every tree: an
\* acknowledgement that gives the lock on has every older answer before it.  So the first
\* to take another's answer has it from a flood outside the tree (StraysByShortcut).
THEOREM StrayShortcuts == Spec => []StraysByShortcut
<1>1. Handover /\ Dealing => StraysByShortcut
  BY DEF Handover, Dealing, StraysByShortcut
<1> QED
  BY <1>1, Deals, PTL

\* A transaction that is over has updated the balances of its two nodes, each once, and no
\* other's, however often and along whatever paths its four floods come by, as long as no
\* answer has strayed (UpdatedTogether).
THEOREM BothUpdated == Spec => []UpdatedTogether
<1>1. TypeOK /\ Handover /\ Dealing => UpdatedTogether
  <2> SUFFICES ASSUME TypeOK, Handover, Dealing, strayed = "no", NEW t \in 1 .. begun, Over(t), NEW n \in Node
               PROVE  /\ Times(StartId(t), n) = IF n = trans[t].with THEN 1 ELSE 0
                      /\ Times(GivenId(t), n) = IF n = trans[t].by THEN 1 ELSE 0
    BY DEF UpdatedTogether, StartId, GivenId
  <2>1. t \in Nat /\ trans[t].by \in Node
    BY TwoNodes
  <2>2. {GivenId(t), AckId(t)} \subseteq known[trans[t].by]
    BY DEF Dealing, Dealt, Finished
  <2>3. StartId(t) \in known[trans[t].with]
    BY <2>1, <2>2 DEF Dealing, Dealt, Requested
  <2>4. Times(StartId(t), n) = IF n = trans[t].with THEN 1 ELSE 0
    BY <2>1, <2>3 DEF Dealing, Dealt, TargetOnce
  <2>5. Times(GivenId(t), n) = IF n = trans[t].by THEN 1 ELSE 0
    BY <2>1, <2>2 DEF Dealing, Dealt, StarterOnce
  <2> QED
    BY <2>4, <2>5
<1> QED
  BY <1>1, Deals, PTL

-----------------------------------------------------------------------------
(***************************************************************************)
(* What a snapshot without messages affecting the balance has.  Take a     *)
(* transaction the balance of whose target is recorded after its update,   *)
(* or is not recorded yet (Counts).  Then each answer with a balance that  *)
(* is under way has been sent before the sender's marker (Trailed): the    *)
(* target had answered by then, and whoever passes an answer on has taken  *)
(* it before it recorded its own state, or from a channel that it was      *)
(* recording, and the snapshot is not clear.  So the node that started the *)
(* transaction, if it has the answer, had it when its state was recorded   *)
(* (Mine); and when everything has come to rest it does have it, because   *)
(* every other node passes the answer on (Spread).                         *)
(***************************************************************************)
Taking(n) == Round > 0 /\ snapshots[n].id = Round
Clear == \A n \in Node : Taking(n) => ~ snapshots[n].affected
Counts(t) == Taking(trans[t].with) => Has(trans[t].with, StartId(t))
IsGiven(m, t) == m.type = "transactBalance" /\ m.t = t
Past(net, p, r, i) == \E j \in DOMAIN net[p][r] : j > i /\ net[p][r][j].type = "marker"

Trailed ==
  Clear => \A t \in 1 .. begun : Counts(t) => \A p \in Node : \A r \in Neigh[p] : Round > 0 /\ Marked(p, r) =>
    \A i \in DOMAIN chan[p][r] : IsGiven(chan[p][r][i], t) => Past(chan, p, r, i)
Mine ==
  strayed = "no" /\ Clear => \A t \in 1 .. begun :
    Counts(t) /\ Taking(trans[t].by) /\ GivenId(t) \in known[trans[t].by] => Has(trans[t].by, GivenId(t))
Recalled == \A n \in Node : \A t \in Nat : Has(n, StartId(t)) => StartId(t) \in known[n]
Answered == \A t \in 1 .. begun : BalanceId(t) \in known[trans[t].with] => GivenId(t) \in known[trans[t].with]
Bears(net, p, r, t) == \E i \in DOMAIN net[p][r] : IsGiven(net[p][r][i], t)
Spread ==
  strayed = "no" => \A t \in 1 .. begun : \A x \in Node : GivenId(t) \in known[x] /\ x # trans[t].by =>
    \A y \in Neigh[x] : GivenId(t) \in known[y] \/ Bears(chan, x, y, t)
Informed ==
  \A p, r \in Node : \A i \in DOMAIN chan[p][r] :
    chan[p][r][i].type = "transactBalance" => GivenId(chan[p][r][i].t) \in known[p]
Accounted == Trailed /\ Mine /\ Recalled /\ Answered /\ Spread /\ Informed

\* An answer that n takes while it is recording its state: its channel is not closed.
LEMMA StillOpen ==
  ASSUME TypeOK, Cut, Trailed, Clear, NEW n \in Node, NEW q \in Neigh[n], Pending(q, n),
         NEW t \in 1 .. begun, IsGiven(Head(chan[q][n]), t), Counts(t), Taking(n)
  PROVE  q \in snapshots[n].msgInActive
<1>1. SUFFICES ASSUME q \notin snapshots[n].msgInActive PROVE FALSE
  OBVIOUS
<1>2. q \in Node /\ n \in Neigh[q]
  BY NeighAssumption
<1>3. PICK s : s = chan[q][n]
  OBVIOUS
<1>4. s \in Seq(Message) /\ s # <<>>
  BY <1>2, <1>3 DEF TypeOK, Pending
<1>5. 1 \in DOMAIN s /\ Head(s) = s[1] /\ \A j \in DOMAIN s : s[j] \in Message
  BY <1>4, Uncons, Elements
<1>6. Got(q, n)
  BY <1>1 DEF Got, Taking
<1>7. Marked(q, n) /\ Copies(s, Markers) = 0
  <2>1. InFlight(chan, q, n, Markers) + 1 = IF Marked(q, n) THEN 1 ELSE 0
    BY <1>2, <1>6 DEF Cut, Marking
  <2>2. InFlight(chan, q, n, Markers) = Copies(s, Markers) /\ Copies(s, Markers) \in Nat
    BY <1>3, <1>4, CopiesType DEF InFlight
  <2> QED
    BY <2>1, <2>2
<1>8. \A j \in DOMAIN s : s[j].type # "marker"
  <2>1. \A j \in DOMAIN s : s[j] \notin Markers
    BY <1>4, <1>7, CopiesType
  <2> QED
    BY <1>5, <2>1, MessageKinds
<1>9. Past(chan, q, n, 1)
  BY <1>2, <1>3, <1>5, <1>7 DEF Trailed, Taking
<1> QED
  BY <1>3, <1>8, <1>9 DEF Past

\* The snapshots stay, but for a channel that is closed or a message that is stored.
Storing ==
  \A p \in Node : /\ snapshots'[p].id = snapshots[p].id /\ snapshots'[p].balance = snapshots[p].balance
                  /\ snapshots[p].affected => snapshots'[p].affected

LEMMA StoringKeeps ==
  ASSUME TypeOK, Storing, trans' = trans
  PROVE  /\ Round' = Round /\ (Clear' => Clear)
         /\ \A p \in Node : (Taking(p)' <=> Taking(p)) /\ \A u : Has(p, u)' <=> Has(p, u)
         /\ \A t \in 1 .. begun : Counts(t)' <=> Counts(t)
<1>1. Round' = Round
  BY NodeAssumption DEF Round, Storing
<1>2. \A p \in Node : (Taking(p)' <=> Taking(p)) /\ \A u : Has(p, u)' <=> Has(p, u)
  BY <1>1 DEF Taking, Has, Storing
<1>3. Clear' => Clear
  BY <1>2 DEF Clear, Storing
<1>4. ASSUME NEW t \in 1 .. begun PROVE Counts(t)' <=> Counts(t)
  <2>1. PICK w \in Node : w = trans[t].with
    BY TwoNodes
  <2> QED
    BY <1>2, <2>1 DEF Counts
<1> QED
  BY <1>1, <1>2, <1>3, <1>4

LEMMA StoreKeeps ==
  ASSUME TypeOK, NEW n \in Node, NEW q \in Node, Store(n, q)
  PROVE  /\ Storing /\ UNCHANGED <<marking, receivedSnapshots>>
         /\ q \in snapshots[n].msgInActive /\ Head(chan[q][n]).type \in Affecting => snapshots'[n].affected
<1>1. snapshots \in [Node -> Snapshot] /\ snapshots[n] \in Snapshot
  BY DEF TypeOK
<1>2. PICK s : s = [snapshots[n] EXCEPT !.affected = TRUE]
  OBVIOUS
<1>3. s.id = snapshots[n].id /\ s.balance = snapshots[n].balance /\ s.affected
  BY <1>1, <1>2 DEF Snapshot
<1>4. CASE q \in snapshots[n].msgInActive /\ Head(chan[q][n]).type \in Affecting
  <2>1. snapshots' = [snapshots EXCEPT ![n] = s]
    BY <1>2, <1>4 DEF Store
  <2>2. snapshots'[n] = s /\ \A p \in Node : p # n => snapshots'[p] = snapshots[p]
    BY <1>1, <2>1
  <2> QED
    BY <1>3, <2>2 DEF Store, Storing
<1>5. CASE ~ (q \in snapshots[n].msgInActive /\ Head(chan[q][n]).type \in Affecting)
  BY <1>5 DEF Store, Storing
<1> QED
  BY <1>4, <1>5

\* Where an answer with a balance may be, after a step.
LEMMA TrailedStep ==
  ASSUME Trailed, trans' = trans,
         \A t \in 1 .. begun' : \A p \in Node : \A r \in Neigh[p] : \A i \in DOMAIN chan'[p][r] :
           IsGiven(chan'[p][r][i], t) /\ Clear' /\ Counts(t)' /\ Round' > 0 /\ Marked(p, r)' =>
             \/ Past(chan', p, r, i)
             \/ /\ t \in 1 .. begun /\ Clear /\ Counts(t) /\ Round > 0 /\ Marked(p, r)
                /\ \E k \in DOMAIN chan[p][r] : Stays(chan, chan', p, r, k, i)
  PROVE  Trailed'
<1> SUFFICES ASSUME Clear', NEW t \in 1 .. begun', Counts(t)', NEW p \in Node, NEW r \in Neigh[p],
                    Round' > 0, Marked(p, r)', NEW i \in DOMAIN chan'[p][r], IsGiven(chan'[p][r][i], t)
             PROVE  Past(chan', p, r, i)
  BY DEF Trailed, Past, IsGiven
<1>1. CASE /\ t \in 1 .. begun /\ Clear /\ Counts(t) /\ Round > 0 /\ Marked(p, r)
           /\ \E k \in DOMAIN chan[p][r] : Stays(chan, chan', p, r, k, i)
  <2>1. PICK k \in DOMAIN chan[p][r] : Stays(chan, chan', p, r, k, i)
    BY <1>1
  <2>2. IsGiven(chan[p][r][k], t)
    BY <2>1 DEF Stays, IsGiven
  <2>3. PICK j \in DOMAIN chan[p][r] : j > k /\ chan[p][r][j].type = "marker"
    BY <1>1, <2>2 DEF Trailed, Past
  <2>4. PICK l \in DOMAIN chan'[p][r] : l > i /\ chan'[p][r][l] = chan[p][r][j]
    BY <2>1, <2>3 DEF Stays
  <2> QED
    BY <2>3, <2>4 DEF Past
<1> QED
  BY <1>1

\* No answer with a balance is sent or taken, and nothing is learnt of one.
NoNews ==
  /\ begun' \in {begun, begun + 1} /\ trans' = trans /\ \A p \in Node : known[p] \subseteq known'[p]
  /\ \A t \in 1 .. begun' : \A p \in Node :
       /\ GivenId(t) \in known'[p] => t \in 1 .. begun /\ GivenId(t) \in known[p]
       /\ p = trans[t].with /\ BalanceId(t) \in known'[p] => t \in 1 .. begun /\ BalanceId(t) \in known[p]
Left ==
  /\ \A p, r \in Node : \A i \in DOMAIN chan'[p][r] : chan'[p][r][i].type = "transactBalance" =>
       \E k \in DOMAIN chan[p][r] : Stays(chan, chan', p, r, k, i)
  /\ \A p, r \in Node : \A k \in DOMAIN chan[p][r] : chan[p][r][k].type = "transactBalance" =>
       \E i \in DOMAIN chan'[p][r] : chan'[p][r][i] = chan[p][r][k]

\* The two nodes of a transaction that has begun by the end of the step.
LEMMA NextNodes ==
  ASSUME TypeOK, TypeOK', trans' = trans, NEW t \in 1 .. begun'
  PROVE  /\ t \in Nat /\ trans[t].by \in Node /\ trans[t].with \in Node /\ trans[t].by # trans[t].with
         /\ t \in 1 .. Len(trans)
<1>1. begun' \in 0 .. Len(trans) /\ Len(trans) \in Nat
  BY Scripted DEF TypeOK
<1>2. t \in 1 .. Len(trans) /\ DOMAIN trans = 1 .. Len(trans)
  BY <1>1, BoundAssumption, Elements DEF TypeOK
<1>3. trans[t].by # trans[t].with
  BY <1>2, BoundAssumption DEF TypeOK
<1> QED
  BY <1>2, <1>3, Scripted

LEMMA AnswersKept ==
  ASSUME TypeOK, TypeOK', NoNews, Left, strayed' = strayed, Answered, Spread, Informed
  PROVE  Answered' /\ Spread' /\ Informed'
<1>1. \A t \in 1 .. begun : /\ trans[t].with \in Node /\ trans[t].by \in Node
                            /\ trans'[t].with = trans[t].with /\ trans'[t].by = trans[t].by
  BY TwoNodes DEF NoNews
<1>2. \A t \in 1 .. begun' : trans'[t].with \in Node
  BY NextNodes DEF NoNews
<1>3. Answered'
  <2> SUFFICES ASSUME NEW t \in 1 .. begun', BalanceId(t) \in known'[trans'[t].with]
               PROVE  GivenId(t) \in known'[trans'[t].with]
    BY DEF Answered, BalanceId, GivenId
  <2>1. t \in 1 .. begun /\ BalanceId(t) \in known[trans[t].with]
    BY <1>2 DEF NoNews
  <2> QED
    BY <1>1, <2>1 DEF Answered, NoNews
<1>4. Spread'
  <2> SUFFICES ASSUME strayed = "no", NEW t \in 1 .. begun', NEW x \in Node, GivenId(t) \in known'[x],
                      x # trans'[t].by, NEW y \in Neigh[x]
               PROVE  GivenId(t) \in known'[y] \/ Bears(chan', x, y, t)
    BY DEF Spread, GivenId, Bears, IsGiven
  <2>1. y \in Node
    BY NeighAssumption
  <2>2. t \in 1 .. begun /\ GivenId(t) \in known[x]
    BY DEF NoNews
  <2>3. GivenId(t) \in known[y] \/ Bears(chan, x, y, t)
    BY <1>1, <2>2 DEF Spread
  <2>4. Bears(chan, x, y, t) => Bears(chan', x, y, t)
    BY <2>1 DEF Bears, IsGiven, Left
  <2> QED
    BY <2>1, <2>3, <2>4 DEF NoNews
<1>5. Informed'
  <2> SUFFICES ASSUME NEW p \in Node, NEW r \in Node, NEW i \in DOMAIN chan'[p][r], chan'[p][r][i].type = "transactBalance"
               PROVE  GivenId(chan'[p][r][i].t) \in known'[p]
    BY DEF Informed, GivenId
  <2>1. PICK k \in DOMAIN chan[p][r] : chan'[p][r][i] = chan[p][r][k]
    BY DEF Left, Stays
  <2> QED
    BY <2>1 DEF Informed, NoNews
<1> QED
  BY <1>3, <1>4, <1>5

LEMMA CutsKept ==
  ASSUME TypeOK, TypeOK', NoNews, Storing, strayed' = strayed, Mine, Recalled
  PROVE  Mine' /\ Recalled'
<1>1. /\ Round' = Round /\ (Clear' => Clear) /\ trans' = trans
      /\ \A p \in Node : (Taking(p)' <=> Taking(p)) /\ \A u : Has(p, u)' <=> Has(p, u)
      /\ \A t \in 1 .. begun : Counts(t)' <=> Counts(t)
  BY StoringKeeps DEF NoNews
<1>2. Recalled'
  <2> SUFFICES ASSUME NEW n \in Node, NEW t \in Nat, Has(n, StartId(t))'
               PROVE  StartId(t) \in known'[n]
    BY DEF Recalled, StartId
  <2>1. PICK u : u = StartId(t)
    OBVIOUS
  <2>2. Has(n, u)'
    BY <2>1 DEF Has, StartId
  <2> QED
    BY <1>1, <2>1, <2>2 DEF Recalled, NoNews
<1>3. Mine'
  <2> SUFFICES ASSUME strayed = "no", Clear', NEW t \in 1 .. begun', Counts(t)', NEW b, b = trans[t].by,
                      Taking(b)', GivenId(t) \in known'[b]
               PROVE  Has(b, GivenId(t))'
    BY <1>1 DEF Mine, GivenId, Taking, Has
  <2>1. b \in Node
    BY <1>1, NextNodes
  <2>2. t \in 1 .. begun /\ GivenId(t) \in known[b]
    BY <2>1 DEF NoNews
  <2>3. Counts(t) /\ Taking(b) /\ Clear
    BY <1>1, <2>1, <2>2
  <2>4. PICK u : u = GivenId(t)
    OBVIOUS
  <2>5. Has(b, u)
    BY <2>2, <2>3, <2>4 DEF Mine
  <2>6. Has(b, u)'
    BY <1>1, <2>1, <2>5
  <2> QED
    BY <2>4, <2>6 DEF Has, GivenId
<1> QED
  BY <1>2, <1>3

\* Without news, and without a new marker.
LEMMA TrailedKept ==
  ASSUME TypeOK, TypeOK', NoNews, Left, Storing, Sourced, Trailed,
         \A p \in Node : \A r \in Neigh[p] : Marked(p, r)' => Marked(p, r)
  PROVE  Trailed'
<1>1. /\ Round' = Round /\ (Clear' => Clear) /\ trans' = trans
      /\ \A t \in 1 .. begun : Counts(t)' <=> Counts(t)
  BY StoringKeeps DEF NoNews
<1>2. ASSUME NEW t \in 1 .. begun', NEW p \in Node, NEW r \in Neigh[p], NEW i \in DOMAIN chan'[p][r],
             IsGiven(chan'[p][r][i], t)
      PROVE  t \in 1 .. begun /\ \E k \in DOMAIN chan[p][r] : Stays(chan, chan', p, r, k, i)
  <2>1. r \in Node
    BY NeighAssumption
  <2>2. PICK k \in DOMAIN chan[p][r] : Stays(chan, chan', p, r, k, i)
    BY <1>2, <2>1 DEF IsGiven, Left
  <2>3. chan[p][r][k].type \in Answers /\ chan[p][r][k].t = t
    BY <1>2, <2>2 DEF Stays, IsGiven, Answers
  <2>4. t \in 1 .. begun
    BY <2>1, <2>3 DEF Sourced, From
  <2> QED
    BY <2>2, <2>4
<1> QED
  BY <1>1, <1>2, TrailedStep

\* A step of which the answers and the snapshots take no notice.
LEMMA AccountedKept ==
  ASSUME TypeOK, TypeOK', NoNews, Left, Storing, strayed' = strayed, Sourced, Accounted,
         \A p \in Node : \A r \in Neigh[p] : Marked(p, r)' => Marked(p, r)
  PROVE  Accounted'
BY TrailedKept, CutsKept, AnswersKept DEF Accounted

\* What is under way is still under way after a step, unless it has been taken.
LEMMA StillThere ==
  ASSUME TypeOK, NEW n \in Node, NEW q \in Node, Pending(q, n), NEW out \in Outgoing(Message),
         chan' = Exchanged(chan, q, n, out),
         NEW p \in Node, NEW r \in Node, NEW k \in DOMAIN chan[p][r]
  PROVE  \/ p = q /\ r = n /\ chan[p][r][k] = Head(chan[q][n])
         \/ \E i \in DOMAIN chan'[p][r] : chan'[p][r][i] = chan[p][r][k]
<1>1. PICK net, net1 : net = chan /\ net1 = Taken(net, q, n)
  OBVIOUS
<1>2. /\ net \in Channels(Message) /\ net[q][n] # <<>> /\ net1 \in Channels(Message)
      /\ net1[p][r] = IF p = q /\ r = n THEN Tail(net[q][n]) ELSE net[p][r]
      /\ chan' = Sent(net1, n, out)
  BY <1>1, TurnType, TakenAt DEF Pending, Exchanged
<1>3. PICK s, t, u : s = net[p][r] /\ t = net1[p][r] /\ u = chan'[p][r]
  OBVIOUS
<1>4. s \in Seq(Message) /\ t \in Seq(Message) /\ out[r] \in Seq(Message) /\ k \in DOMAIN s
  BY <1>1, <1>2, <1>3 DEF Channels, Outgoing
<1>5. \A j \in DOMAIN t : j \in DOMAIN u /\ u[j] = t[j]
  <2>1. u = IF p = n THEN net1[n][r] \o out[r] ELSE net1[p][r]
    BY <1>2, <1>3, SentAt
  <2>2. PICK o : o = out[r]
    OBVIOUS
  <2>3. \A j \in DOMAIN t : j \in DOMAIN (t \o o) /\ (t \o o)[j] = t[j]
    BY <1>4, <2>2, Concat
  <2>4. u = t \/ u = t \o o
    BY <1>3, <2>1, <2>2
  <2> QED
    BY <2>3, <2>4
<1>6. CASE p = q /\ r = n
  <2>1. s # <<>> /\ t = Tail(s) /\ s = chan[q][n]
    BY <1>1, <1>2, <1>3, <1>6
  <2>2. s[k] = Head(s) \/ \E j \in DOMAIN t : t[j] = s[k]
    BY <1>4, <2>1, Uncons
  <2> QED
    BY <1>1, <1>3, <1>5, <1>6, <2>1, <2>2
<1>7. CASE ~ (p = q /\ r = n)
  <2>1. t = s
    BY <1>2, <1>3, <1>7
  <2> QED
    BY <1>1, <1>3, <1>4, <1>5, <2>1
<1> QED
  BY <1>6, <1>7

\* A handler that neither takes nor sends an answer with a balance.
LEMMA LeftExchanged ==
  ASSUME TypeOK, NEW n \in Node, NEW q \in Node, Pending(q, n), NEW out \in Outgoing(Message),
         chan' = Exchanged(chan, q, n, out), Head(chan[q][n]).type # "transactBalance",
         \A r \in Node : \A k \in DOMAIN out[r] : out[r][k].type # "transactBalance"
  PROVE  Left
<1>1. PICK net, net2 : net = chan /\ net2 = chan'
  OBVIOUS
<1>2. net \in Channels(Message) /\ net[q][n] # <<>> /\ net2 = Exchanged(net, q, n, out)
  BY <1>1, TurnType DEF Pending
<1>3. ASSUME NEW p \in Node, NEW r \in Node, NEW i \in DOMAIN net2[p][r], net2[p][r][i].type = "transactBalance"
      PROVE  \E k \in DOMAIN net[p][r] : Stays(net, net2, p, r, k, i)
  BY <1>2, <1>3, ShiftExchanged
<1>4. ASSUME NEW p \in Node, NEW r \in Node, NEW k \in DOMAIN chan[p][r], chan[p][r][k].type = "transactBalance"
      PROVE  \E i \in DOMAIN chan'[p][r] : chan'[p][r][i] = chan[p][r][k]
  BY <1>4, StillThere
<1> QED
  BY <1>1, <1>3, <1>4 DEF Left

\* A goroutine that sends none.
LEMMA LeftSent ==
  ASSUME TypeOK, NEW n \in Node, NEW out \in Outgoing(Message), chan' = Sent(chan, n, out),
         \A r \in Node : \A k \in DOMAIN out[r] : out[r][k].type # "transactBalance"
  PROVE  Left
<1>1. PICK net, net2 : net = chan /\ net2 = chan'
  OBVIOUS
<1>2. net \in Channels(Message) /\ net2 = Sent(net, n, out)
  BY <1>1, TurnType
<1>3. ASSUME NEW p \in Node, NEW r \in Node, NEW i \in DOMAIN net2[p][r], net2[p][r][i].type = "transactBalance"
      PROVE  \E k \in DOMAIN net[p][r] : Stays(net, net2, p, r, k, i)
  <2>1. Stays(net, net2, p, r, i, i)
    BY <1>2, <1>3, ShiftSent
  <2> QED
    BY <2>1 DEF Stays
<1>4. ASSUME NEW p \in Node, NEW r \in Node, NEW k \in DOMAIN net[p][r]
      PROVE  \E i \in DOMAIN net2[p][r] : net2[p][r][i] = net[p][r][k]
  <2>1. PICK s, o, u : s = net[p][r] /\ o = out[r] /\ u = net2[p][r]
    OBVIOUS
  <2>2. s \in Seq(Message) /\ o \in Seq(Message)
    BY <1>2, <2>1 DEF Channels, Outgoing
  <2>3. u = IF p = n THEN net[n][r] \o out[r] ELSE net[p][r]
    BY <1>2, <2>1, SentAt
  <2>4. u = s \/ u = s \o o
    BY <2>1, <2>3
  <2>5. k \in DOMAIN (s \o o) /\ (s \o o)[k] = s[k] /\ k \in DOMAIN s
    <3>1. \A j \in DOMAIN s : j \in DOMAIN (s \o o) /\ (s \o o)[j] = s[j]
      BY <2>2, Concat
    <3> QED
      BY <1>4, <2>1, <3>1
  <2>6. k \in DOMAIN u /\ u[k] = s[k]
    BY <2>4, <2>5
  <2> QED
    BY <2>1, <2>6
<1> QED
  BY <1>1, <1>3, <1>4 DEF Left

\* A message of the lock.
LEMMA AccountedLock ==
  ASSUME TypeOK, TypeOK', Sourced, Accounted, NEW n \in Node, NEW q \in Node,
         handle_lockRelease(n, q) \/ handle_lockAck(n, q)
  PROVE  Accounted'
<1>1. /\ Store(n, q) /\ Head(chan[q][n]).type \in {"lockRelease", "lockAck"}
      /\ UNCHANGED <<known, strayed, trans, begun>>
  BY DEF handle_lockRelease, handle_lockAck, Takes, loopVars
<1>2. Storing /\ marking' = marking
  BY <1>1, StoreKeeps
<1>3. Pending(q, n)
  BY LockSends
<1>4. PICK out \in Outgoing(Message) :
        /\ chan' = Exchanged(chan, q, n, out)
        /\ \A r \in Node : \A k \in DOMAIN out[r] : out[r][k].type \notin Answers
  BY LockSends
<1>5. Left
  BY <1>1, <1>3, <1>4, LeftExchanged DEF Answers
<1>6. NoNews
  BY <1>1 DEF NoNews
<1>7. \A p \in Node : \A r \in Neigh[p] : Marked(p, r)' => Marked(p, r)
  BY <1>1, <1>2, StoringKeeps DEF Marked, Storing
<1> QED
  BY <1>1, <1>2, <1>5, <1>6, <1>7, AccountedKept

\* A report, or a marker that closes a channel.
LEMMA AccountedReport ==
  ASSUME TypeOK, TypeOK', Sourced, Accounted, NEW n \in Node, NEW q \in Node,
         LaterMarker(n, q) \/ handle_state(n, q)
  PROVE  Accounted'
<1>1. /\ Head(chan[q][n]).type \in {"marker", "state"}
      /\ UNCHANGED <<known, strayed, trans, begun, marking>>
  BY DEF LaterMarker, handle_state, Takes, loopVars
<1>2. Storing
  <2>1. CASE LaterMarker(n, q)
    <3>1. PICK active : snapshots' = [snapshots EXCEPT ![n].msgInActive = active]
      BY <2>1 DEF LaterMarker
    <3>2. PICK s : s = [snapshots[n] EXCEPT !.msgInActive = active]
      OBVIOUS
    <3>3. snapshots \in [Node -> Snapshot] /\ snapshots[n] \in Snapshot
      BY DEF TypeOK
    <3>4. s.id = snapshots[n].id /\ s.balance = snapshots[n].balance /\ s.affected = snapshots[n].affected
      BY <3>2, <3>3 DEF Snapshot
    <3>5. snapshots'[n] = s /\ \A p \in Node : p # n => snapshots'[p] = snapshots[p]
      BY <3>1, <3>2, <3>3
    <3> QED
      BY <3>4, <3>5 DEF Storing
  <2>2. CASE handle_state(n, q)
    BY <2>2 DEF handle_state, Storing
  <2> QED
    BY <2>1, <2>2
<1>3. PICK out \in Outgoing(Message) : Aside(n, q, out)
  BY AsideSnapshot DEF handle_marker
<1>4. /\ Pending(q, n) /\ chan' = Exchanged(chan, q, n, out)
      /\ \A r \in Node : \A k \in DOMAIN out[r] : out[r][k].type \notin Answers
  BY <1>1, <1>3 DEF Aside, Requests, Answers
<1>5. Left
  BY <1>1, <1>4, LeftExchanged DEF Answers
<1>6. NoNews
  BY <1>1 DEF NoNews
<1>7. \A p \in Node : \A r \in Neigh[p] : Marked(p, r)' => Marked(p, r)
  BY <1>1, <1>2, StoringKeeps DEF Marked, Storing
<1> QED
  BY <1>1, <1>2, <1>5, <1>6, <1>7, AccountedKept

\* The critical section; the answers to a new transaction are not known.
LEMMA AccountedLoop ==
  ASSUME TypeOK, TypeOK', Sourced, Requested, Turns, Accounted, NEW n \in Node, transactionLoop(n)
  PROVE  Accounted'
<1>1. UNCHANGED <<strayed, trans, snapshots, marking>>
  BY DEF transactionLoop, Enter, FloodStart, Exit, AckNext, LoopSend, cut
<1>2. Storing
  BY <1>1 DEF Storing
<1>3. Left
  <2>1. CASE UNCHANGED chan
    BY <2>1 DEF Left, Stays
  <2>2. CASE LoopSend(n)
    <3>1. PICK s \in outbox[n] : chan' = Sent(chan, n, To({s[1]}, s[2]))
      BY <2>2 DEF LoopSend
    <3>2. PICK m, R, out : m = s[2] /\ R = {s[1]} /\ out = To(R, m)
      OBVIOUS
    <3>3. m \in Message /\ m.type \notin Answers
      <4>1. s \in Node \X Message
        BY <3>1 DEF TypeOK
      <4> QED
        BY <3>1, <3>2, <4>1 DEF Sourced
    <3>4. out \in Outgoing(Message) /\ chan' = Sent(chan, n, out)
      BY <3>1, <3>2, <3>3, ToType
    <3>5. \A r \in Node : \A k \in DOMAIN out[r] : out[r][k].type # "transactBalance"
      BY <3>2, <3>3, ToOf DEF Answers
    <3> QED
      BY <3>4, <3>5, LeftSent
  <2> QED
    BY <2>1, <2>2 DEF transactionLoop, Enter, FloodStart, Exit, AckNext
<1>4. NoNews
  <2>1. CASE UNCHANGED <<known, begun>>
    BY <1>1, <2>1 DEF NoNews
  <2>2. CASE FloodStart(n)
    <3>1. PICK id : id = StartId(begun) /\ known' = [known EXCEPT ![n] = @ \cup {id}]
      BY <2>2 DEF FloodStart, Start, Id, StartId
    <3>2. known'[n] = known[n] \cup {id} /\ \A p \in Node : p # n => known'[p] = known[p]
      BY <3>1, KnownAt
    <3>3. begun' = begun /\ \A t : id # GivenId(t) /\ id # BalanceId(t)
      BY <2>2, <3>1 DEF FloodStart, StartId, GivenId, BalanceId
    <3> QED
      BY <1>1, <3>2, <3>3 DEF NoNews
  <2>3. CASE Enter(n)
    <3>1. PICK b : b = begun + 1
      OBVIOUS
    <3>2. PICK id : id = BalanceId(b) /\ known' = [known EXCEPT ![n] = @ \cup {id}]
      BY <2>3, <3>1 DEF Enter, GetBalance, Id, BalanceId
    <3>3. known'[n] = known[n] \cup {id} /\ \A p \in Node : p # n => known'[p] = known[p]
      BY <3>2, KnownAt
    <3>4. begun' = b /\ begun \in Nat /\ b \notin 1 .. begun /\ lockRequestActive[n] /\ loop[n] = "wait"
      BY <2>3, <3>1, Scripted DEF Enter, At
    <3>5. n = trans[b].by
      BY <2>3, <3>1, <3>4 DEF Turns, turn, Enter
    <3>6. n # trans[b].with
      <4>1. b \in 1 .. begun'
        BY <3>1, <3>4
      <4> QED
        BY <1>1, <3>5, <4>1, NextNodes
    <3>7. \A p \in Node : \A x \in known[p] : x[2] \in 1 .. begun
      BY DEF Requested
    <3>8. \A t : GivenId(t)[2] = t /\ BalanceId(t)[2] = t /\ id # GivenId(t) /\ (id = BalanceId(t) => t = b)
      BY <3>2 DEF GivenId, BalanceId
    <3>9. ASSUME NEW t \in 1 .. begun', NEW p \in Node
          PROVE  /\ GivenId(t) \in known'[p] => t \in 1 .. begun /\ GivenId(t) \in known[p]
                 /\ p = trans[t].with /\ BalanceId(t) \in known'[p] => t \in 1 .. begun /\ BalanceId(t) \in known[p]
      <4>1. GivenId(t) \in known'[p] => GivenId(t) \in known[p]
        BY <3>3, <3>8
      <4>2. p = trans[t].with /\ BalanceId(t) \in known'[p] => BalanceId(t) \in known[p]
        BY <3>3, <3>6, <3>8
      <4> QED
        BY <3>7, <3>8, <4>1, <4>2
    <3> QED
      BY <1>1, <3>1, <3>3, <3>4, <3>9 DEF NoNews
  <2> QED
    BY <2>1, <2>2, <2>3 DEF transactionLoop, Exit, AckNext, LoopSend
<1>5. \A p \in Node : \A r \in Neigh[p] : Marked(p, r)' => Marked(p, r)
  BY <1>1 DEF Marked, Round
<1> QED
  BY <1>1, <1>2, <1>3, <1>4, <1>5, AccountedKept

\* A marker is sent: on its channel everything that was under way is in front of it.
LEMMA AccountedSendMarker ==
  ASSUME TypeOK, TypeOK', Sourced, Accounted, NEW n \in Node, NEW d \in Node, SendMarker(n, d)
  PROVE  Accounted'
<1>1. /\ UNCHANGED <<known, strayed, trans, begun, snapshots>>
      /\ marking' = [marking EXCEPT ![n] = @ \ {d}]
  BY DEF SendMarker, loopVars
<1>2. Storing /\ NoNews
  BY <1>1 DEF Storing, NoNews
<1>3. PICK out \in Outgoing(Message) :
        /\ chan' = Sent(chan, n, out)
        /\ \A r \in Node : \A k \in DOMAIN out[r] : out[r][k].type \in {"marker", "state"}
        /\ \E k \in DOMAIN out[d] : out[d][k].type = "marker"
  BY MarkerSends
<1>4. Left
  BY <1>3, LeftSent
<1>5. Answered' /\ Spread' /\ Informed' /\ Mine' /\ Recalled'
  BY <1>1, <1>2, <1>4, AnswersKept, CutsKept DEF Accounted
<1>6. /\ Round' = Round /\ (Clear' => Clear)
      /\ \A t \in 1 .. begun : Counts(t)' <=> Counts(t)
  BY <1>1, <1>2, StoringKeeps
<1>7. ASSUME NEW t \in 1 .. begun', NEW p \in Node, NEW r \in Neigh[p], NEW i \in DOMAIN chan'[p][r],
             IsGiven(chan'[p][r][i], t), Marked(p, r)'
      PROVE  \/ Past(chan', p, r, i)
             \/ Marked(p, r) /\ \E k \in DOMAIN chan[p][r] : Stays(chan, chan', p, r, k, i)
  <2>1. r \in Node
    BY NeighAssumption
  <2>2. PICK net, net2 : net = chan /\ net2 = chan'
    OBVIOUS
  <2>3. net \in Channels(Message) /\ net2 = Sent(net, n, out) /\ i \in DOMAIN net2[p][r]
    BY <1>3, <1>7, <2>2, TurnType
  <2>4. \/ p = n /\ \E k \in DOMAIN out[r] : net2[p][r][i] = out[r][k]
        \/ /\ Stays(net, net2, p, r, i, i)
           /\ p = n => \A k \in DOMAIN out[r] : Follows(net2, p, r, i, out[r][k])
    BY <2>1, <2>3, ShiftSent
  <2>5. /\ Stays(chan, chan', p, r, i, i)
        /\ p = n => \A k \in DOMAIN out[r] : Follows(chan', p, r, i, out[r][k])
    BY <1>3, <1>7, <2>1, <2>2, <2>4 DEF IsGiven
  <2>6. CASE p = n /\ r = d
    <3>1. PICK k \in DOMAIN out[r] : out[r][k].type = "marker"
      BY <1>3, <2>6
    <3>2. Follows(chan', p, r, i, out[r][k])
      BY <2>5, <2>6
    <3> QED
      BY <3>1, <3>2 DEF Follows, Past
  <2>7. CASE ~ (p = n /\ r = d)
    <3>1. snapshots[p].id = Round /\ r \notin marking'[p]
      BY <1>1, <1>6, <1>7 DEF Marked
    <3>2. r \notin marking[p]
      BY <1>1, <2>7, <3>1 DEF TypeOK
    <3>3. Marked(p, r)
      BY <3>1, <3>2 DEF Marked
    <3> QED
      BY <2>5, <3>3 DEF Stays
  <2> QED
    BY <2>6, <2>7
<1>8. Trailed'
  BY <1>1, <1>6, <1>7, TrailedStep DEF Accounted
<1> QED
  BY <1>5, <1>8 DEF Accounted

\* A recorded balance has what the balance has.
LEMMA RecordHas ==
  ASSUME TypeOK, NEW n \in Node, NEW id, NEW R, Record(n, id, R)
  PROVE  /\ snapshots'[n].id = id /\ ~ snapshots'[n].affected
         /\ \A p \in Node : p # n => snapshots'[p] = snapshots[p]
         /\ \A u : Has(n, u)' <=> Times(u, n) # 0
<1>1. /\ snapshots'[n].id = id /\ ~ snapshots'[n].affected /\ snapshots'[n].balance = balance[n]
      /\ \A p \in Node : p # n => snapshots'[p] = snapshots[p]
  BY DEF Record, TypeOK
<1>2. ASSUME NEW u PROVE Has(n, u)' <=> Times(u, n) # 0
  <2>1. PICK s, S : s = balance[n] /\ S = {u}
    OBVIOUS
  <2>2. s \in Seq(BalanceUpdate)
    BY <2>1 DEF TypeOK
  <2>3. Times(u, n) = Copies(s, S)
    <3>1. {i \in DOMAIN balance[n] : balance[n][i] = u} = {i \in DOMAIN s : s[i] \in S}
      BY <2>1
    <3> QED
      BY <3>1 DEF Times, Copies
  <2>4. Copies(s, S) = 0 <=> \A i \in DOMAIN s : s[i] \notin S
    BY <2>2, CopiesType
  <2>5. Has(n, u)' <=> \E i \in DOMAIN s : s[i] \in S
    BY <1>1, <2>1 DEF Has
  <2> QED
    BY <2>3, <2>4, <2>5
<1> QED
  BY <1>1, <1>2

\* A node that records its state has had each update that is made of what it knows.
LEMMA RecallsRecord ==
  ASSUME TypeOK, Recalled, TargetOnce, NEW n \in Node, NEW id, NEW R, Record(n, id, R), known' = known
  PROVE  Recalled'
<1> SUFFICES ASSUME NEW p \in Node, NEW t \in Nat, Has(p, StartId(t))' PROVE StartId(t) \in known[p]
  BY DEF Recalled, StartId
<1>1. PICK u : u = StartId(t)
  OBVIOUS
<1>2. Has(p, u)'
  BY <1>1 DEF Has, StartId
<1>3. CASE p = n
  <2>1. Times(u, n) # 0
    BY <1>2, <1>3, RecordHas
  <2> QED
    BY <1>1, <1>3, <2>1 DEF TargetOnce
<1>4. CASE p # n
  <2>1. snapshots'[p] = snapshots[p]
    BY <1>4, RecordHas
  <2>2. Has(p, u)
    BY <1>2, <2>1 DEF Has
  <2> QED
    BY <1>1, <2>2 DEF Recalled
<1> QED
  BY <1>3, <1>4

\* A node records its state when it has the first marker: it has all that it knows it has had.
LEMMA AccountedFirst ==
  ASSUME TypeOK, TypeOK', Cut, Sourced, TargetOnce, StarterOnce, Accounted,
         NEW n \in Node, NEW q \in Neigh[n], FirstMarker(n, q)
  PROVE  Accounted'
<1>1. PICK id, R : id = Round /\ R = {q}
  OBVIOUS
<1>2. Takes(n, q, {"marker"}) /\ UNCHANGED <<known, strayed>>
  BY DEF FirstMarker
<1>3. /\ q \in Node /\ Pending(q, n) /\ Head(chan[q][n]).type = "marker" /\ Head(chan[q][n]).id = id
  BY <1>1, <1>2, MarkerTaken
<1>4. /\ snapshots[n].id # id /\ Record(n, id, R) /\ marking' = [marking EXCEPT ![n] = Neigh[n]]
      /\ chan' = Taken(chan, q, n) /\ UNCHANGED <<trans, begun>>
  BY <1>1, <1>2, <1>3 DEF FirstMarker, Takes, loopVars
<1>5. /\ ~ snapshots'[n].affected /\ \A p \in Node : p # n => snapshots'[p] = snapshots[p]
      /\ \A u : Has(n, u)' <=> Times(u, n) # 0
  BY <1>4, RecordHas
<1>6. Round' = Round /\ ~ Taking(n)
  BY <1>1, <1>4, <1>5, NodeAssumption DEF Round, Taking
<1>7. \A p \in Node : p # n => (Taking(p)' <=> Taking(p)) /\ \A u : Has(p, u)' <=> Has(p, u)
  BY <1>5, <1>6 DEF Taking, Has
<1>8. Clear' => Clear
  BY <1>5, <1>6, <1>7 DEF Clear
<1>9. ASSUME NEW t \in 1 .. begun, Counts(t)' PROVE Counts(t)
  <2>1. PICK w \in Node : w = trans[t].with
    BY TwoNodes
  <2>2. CASE w = n
    BY <1>6, <2>1, <2>2 DEF Counts
  <2>3. CASE w # n
    <3>1. Taking(w)' => Has(w, StartId(t))'
      BY <1>4, <1>9, <2>1 DEF Counts, Taking, Has
    <3>2. PICK u : u = StartId(t)
      OBVIOUS
    <3>3. Taking(w)' => Has(w, u)'
      BY <3>1, <3>2 DEF Has, StartId
    <3>4. Taking(w) => Has(w, u)
      BY <1>7, <2>3, <3>3
    <3> QED
      BY <2>1, <3>2, <3>4 DEF Counts
  <2> QED
    BY <2>2, <2>3
<1>10. NoNews
  BY <1>2, <1>4 DEF NoNews
<1>11. Left
  <2>1. /\ Nothing \in Outgoing(Message) /\ \A r \in Node : DOMAIN Nothing[r] = {}
    BY EmptySeq, NothingType DEF Nothing
  <2>2. chan' = Exchanged(chan, q, n, Nothing)
    BY <1>3, <1>4, TakenOnly DEF Pending
  <2> QED
    BY <1>3, <2>1, <2>2, LeftExchanged
<1>12. Answered' /\ Spread' /\ Informed'
  BY <1>2, <1>10, <1>11, AnswersKept DEF Accounted
<1>13. Recalled'
  BY <1>2, <1>4, RecallsRecord DEF Accounted
<1>14. Mine'
  <2> SUFFICES ASSUME strayed = "no", Clear', NEW t \in 1 .. begun, Counts(t)', NEW b, b = trans[t].by,
                      Taking(b)', GivenId(t) \in known[b]
               PROVE  Has(b, GivenId(t))'
    BY <1>2, <1>4 DEF Mine, GivenId, Taking, Has
  <2>1. b \in Node /\ t \in Nat
    BY TwoNodes
  <2>2. PICK u : u = GivenId(t)
    OBVIOUS
  <2>3. Has(b, u)'
    <3>1. CASE b = n
      <4>1. Times(u, n) = 1
        BY <2>1, <2>2, <3>1 DEF StarterOnce
      <4> QED
        BY <1>5, <3>1, <4>1
    <3>2. CASE b # n
      <4>1. Taking(b) /\ Clear /\ Counts(t)
        BY <1>7, <1>8, <1>9, <2>1, <3>2
      <4>2. Has(b, u)
        BY <2>2, <4>1 DEF Accounted, Mine
      <4> QED
        BY <1>7, <2>1, <3>2, <4>2
    <3> QED
      BY <3>1, <3>2
  <2> QED
    BY <2>2, <2>3 DEF Has, GivenId
<1>15. Trailed'
  <2>1. ASSUME NEW t \in 1 .. begun', NEW p \in Node, NEW r \in Neigh[p], NEW i \in DOMAIN chan'[p][r],
               IsGiven(chan'[p][r][i], t), Marked(p, r)'
        PROVE  t \in 1 .. begun /\ Marked(p, r) /\ \E k \in DOMAIN chan[p][r] : Stays(chan, chan', p, r, k, i)
    <3>1. r \in Node
      BY NeighAssumption
    <3>2. snapshots'[p].id = Round' /\ r \notin marking'[p]
      BY <2>1 DEF Marked
    <3>3. marking \in [Node -> SUBSET Node]
      BY DEF TypeOK
    <3>4. p # n
      BY <1>4, <2>1, <3>2, <3>3
    <3>5. Marked(p, r)
      BY <1>4, <1>5, <1>6, <3>2, <3>3, <3>4 DEF Marked
    <3> QED
      BY <1>4, <1>11, <2>1, <3>1, <3>5 DEF Left, IsGiven
  <2> QED
    BY <1>4, <1>6, <1>8, <1>9, <2>1, TrailedStep DEF Accounted
<1> QED
  BY <1>12, <1>13, <1>14, <1>15 DEF Accounted

\* The coordinator begins a round; nobody else has a marker of it.
LEMMA AccountedNew ==
  ASSUME TypeOK, TypeOK', Cut, Sourced, TargetOnce, StarterOnce, Accounted, NewSnapshot
  PROVE  Accounted'
<1>1. PICK id, R : id = Round + 1 /\ R = {}
  OBVIOUS
<1>2. /\ Leader \in Node /\ Record(Leader, id, R) /\ marking' = [marking EXCEPT ![Leader] = Neigh[Leader]]
      /\ UNCHANGED <<chan, known, trans, begun, strayed>> /\ (Round = 0 \/ AllReceived)
  BY <1>1, NodeAssumption DEF NewSnapshot, loopVars, Round
<1>3. /\ snapshots'[Leader].id = id /\ \A p \in Node : p # Leader => snapshots'[p] = snapshots[p]
      /\ \A u : Has(Leader, u)' <=> Times(u, Leader) # 0
  BY <1>2, RecordHas
<1>4. \A p \in Node : snapshots[p].id = Round
  BY <1>2, Settled
<1>5. Round \in Nat
  BY <1>2 DEF Round, TypeOK, Snapshot
<1>6. Round' = id
  BY <1>3 DEF Round
<1>7. \A p \in Node : p # Leader => snapshots'[p].id # Round'
  BY <1>1, <1>3, <1>4, <1>5, <1>6
<1>8. NoNews /\ Left
  BY <1>2 DEF NoNews, Left, Stays
<1>9. Answered' /\ Spread' /\ Informed'
  BY <1>2, <1>8, AnswersKept DEF Accounted
<1>10. Recalled'
  BY <1>2, RecallsRecord DEF Accounted
<1>11. Mine'
  <2> SUFFICES ASSUME strayed = "no", NEW t \in 1 .. begun, NEW b, b = trans[t].by,
                      Taking(b)', GivenId(t) \in known[b]
               PROVE  Has(b, GivenId(t))'
    BY <1>2 DEF Mine, GivenId, Taking, Has
  <2>1. b \in Node /\ t \in Nat
    BY TwoNodes
  <2>2. b = Leader
    BY <1>7, <2>1 DEF Taking
  <2>3. PICK u : u = GivenId(t)
    OBVIOUS
  <2>4. Times(u, b) = 1
    BY <2>1, <2>3 DEF StarterOnce
  <2>5. Has(b, u)'
    BY <1>3, <2>2, <2>4
  <2> QED
    BY <2>3, <2>5 DEF Has, GivenId
<1>12. Trailed'
  <2>1. ASSUME NEW p \in Node, NEW r \in Neigh[p], Marked(p, r)' PROVE FALSE
    <3>1. snapshots'[p].id = Round' /\ r \notin marking'[p]
      BY <2>1 DEF Marked
    <3>2. p = Leader
      BY <1>7, <3>1
    <3> QED
      BY <1>2, <3>1, <3>2 DEF TypeOK
  <2> QED
    BY <1>2, <2>1, TrailedStep DEF Accounted
<1> QED
  BY <1>9, <1>10, <1>11, <1>12 DEF Accounted

\* An answer is flooded to all sides.
LEMMA FloodAll ==
  ASSUME NEW n \in Node, NEW q \in Node, NEW m \in Message, m.type \in Answers, NEW r \in Neigh[n], r # q
  PROVE  \E k \in DOMAIN Flood(n, q, m)[r] : Flood(n, q, m)[r][k].type = m.type /\ Flood(n, q, m)[r][k].t = m.t
<1>1. PICK m2, R1, R2 : /\ m2 = [m EXCEPT !.tree = FALSE] /\ R1 = (Neigh[n] \ {q}) \cap Tree(n)
                        /\ R2 = (Neigh[n] \ {q}) \cap (Node \ Tree(n))
  OBVIOUS
<1>2. r \in Node /\ (r \in R1 \/ (r \in R2 /\ r \notin R1)) /\ m.type \notin Requests
  BY <1>1, NeighAssumption DEF Requests, Answers
<1>3. m2.type = m.type /\ m2.t = m.t
  <2>1. m \in [type : Answers, t : Nat, tree : BOOLEAN]
    BY <1>2 DEF Message, Requests, Answers, Release
  <2> QED
    BY <1>1, <2>1
<1>4. PICK f : f = Flood(n, q, m)[r]
  OBVIOUS
<1>5. f = (IF r \in R1 THEN <<m>> ELSE <<>>) \o (IF r \in R2 THEN <<m2>> ELSE <<>>)
  BY <1>1, <1>2, <1>4 DEF Flood, Then, To
<1>6. f = <<m>> \/ f = <<m2>>
  <2>1. CASE r \in R1
    <3>1. r \notin R2
      BY <1>1, <2>1
    <3>2. f = <<m>> \o <<>>
      BY <1>5, <2>1, <3>1
    <3> QED
      BY <3>2
  <2>2. CASE r \in R2 /\ r \notin R1
    <3>1. f = <<>> \o <<m2>>
      BY <1>5, <2>2
    <3> QED
      BY <3>1
  <2> QED
    BY <1>2, <2>1, <2>2
<1>7. 1 \in DOMAIN f /\ f[1].type = m.type /\ f[1].t = m.t
  BY <1>3, <1>6
<1> QED
  BY <1>4, <1>7

\* What is sent is under way after the step.
LEMMA Sends ==
  ASSUME TypeOK, NEW n \in Node, NEW q \in Node, Pending(q, n), NEW out \in Outgoing(Message),
         chan' = Exchanged(chan, q, n, out), NEW r \in Node, NEW k \in DOMAIN out[r]
  PROVE  \E i \in DOMAIN chan'[n][r] : chan'[n][r][i] = out[r][k]
<1>1. PICK net, net1 : net = chan /\ net1 = Taken(net, q, n)
  OBVIOUS
<1>2. net1 \in Channels(Message) /\ chan' = Sent(net1, n, out)
  BY <1>1, TurnType, TakenAt DEF Pending, Exchanged
<1>3. PICK t, o, u : t = net1[n][r] /\ o = out[r] /\ u = chan'[n][r]
  OBVIOUS
<1>4. t \in Seq(Message) /\ o \in Seq(Message) /\ u = t \o o
  <2>1. t \in Seq(Message) /\ o \in Seq(Message)
    BY <1>2, <1>3 DEF Channels, Outgoing
  <2>2. PICK p \in Node : p = n
    OBVIOUS
  <2>3. chan'[p][r] = IF p = n THEN net1[n][r] \o out[r] ELSE net1[p][r]
    BY <1>2, SentAt
  <2> QED
    BY <1>3, <2>1, <2>2, <2>3
<1>5. k + Len(t) \in DOMAIN u /\ u[k + Len(t)] = o[k]
  <2>1. k \in 1 .. Len(o) /\ Len(o) \in Nat /\ Len(t) \in Nat
    BY <1>3, <1>4
  <2> QED
    BY <1>4, <2>1
<1> QED
  BY <1>3, <1>5

\* What a handler of a transaction learns of the answer with the balance.
LEMMA Learns ==
  ASSUME TypeOK, NEW n \in Node, NEW q \in Node, NEW m, m = Head(chan[q][n]),
         \/ Deduplicate(n, q) \/ PassOn(n, q)
         \/ handle_transactGetBalance(n, q) \/ handle_transactStart(n, q)
         \/ handle_transactAck(n, q) \/ handle_transactBalance(n, q)
  PROVE  /\ Store(n, q) /\ Pending(q, n) /\ m.type \in Requests \cup Answers /\ UNCHANGED <<trans, begun>>
         /\ \A p \in Node : known[p] \subseteq known'[p] /\ (p # n => known'[p] = known[p])
         /\ \A t : GivenId(t) \in known'[n] /\ GivenId(t) \notin known[n] =>
              \/ IsGiven(m, t) /\ (PassOn(n, q) \/ handle_transactBalance(n, q))
              \/ handle_transactGetBalance(n, q) /\ m.t = t
         /\ \A t : BalanceId(t) \in known'[n] /\ BalanceId(t) \notin known[n] =>
              m.type = "transactGetBalance" /\ m.t = t /\ (PassOn(n, q) \/ handle_transactGetBalance(n, q))
         /\ m.type = "transactBalance" => GivenId(m.t) \in known'[n]
         /\ handle_transactGetBalance(n, q) =>
              m.type = "transactGetBalance" /\ m.target = n /\ BalanceId(m.t) \notin known[n] /\ GivenId(m.t) \in known'[n]
<1>1. Id(m) = <<m.type, m.t>> /\ known \in [Node -> SUBSET ((Requests \cup Answers) \X Nat)]
  BY DEF Id, TypeOK
<1>2. ASSUME NEW S, known' = [known EXCEPT ![n] = @ \cup S]
      PROVE  known'[n] = known[n] \cup S /\ \A p \in Node : p # n => known'[p] = known[p]
  BY <1>1, <1>2
<1>3. CASE Deduplicate(n, q)
  <2>1. /\ Store(n, q) /\ Pending(q, n) /\ m.type \in Requests \cup Answers /\ UNCHANGED <<trans, begun>>
        /\ known' = known /\ Id(m) \in known[n]
    BY <1>3 DEF Deduplicate, Takes, Pending, loopVars
  <2>2. ~ handle_transactGetBalance(n, q)
    BY <2>1 DEF handle_transactGetBalance, Answering
  <2> QED
    BY <1>1, <2>1, <2>2 DEF GivenId
<1>4. CASE PassOn(n, q)
  <2>1. /\ Store(n, q) /\ Pending(q, n) /\ m.type \in Requests \cup Answers /\ UNCHANGED <<trans, begun>>
        /\ known' = [known EXCEPT ![n] = @ \cup {Id(m)}] /\ ~ Concerned(n, m)
    BY <1>4 DEF PassOn, Takes, Pending, loopVars
  <2>2. known'[n] = known[n] \cup {Id(m)} /\ \A p \in Node : p # n => known'[p] = known[p]
    BY <1>2, <2>1
  <2>3. ~ handle_transactGetBalance(n, q)
    BY <2>1 DEF handle_transactGetBalance, Answering
  <2>4. \A t : /\ GivenId(t) = Id(m) <=> IsGiven(m, t)
               /\ BalanceId(t) = Id(m) <=> m.type = "transactGetBalance" /\ m.t = t
    BY <1>1 DEF GivenId, BalanceId, IsGiven
  <2> QED
    BY <1>1, <1>4, <2>1, <2>2, <2>3, <2>4 DEF IsGiven
<1>5. ASSUME NEW type \in Requests, NEW answer \in Answers, Answering(n, q, type, answer)
      PROVE  /\ Store(n, q) /\ Pending(q, n) /\ m.type = type /\ UNCHANGED <<trans, begun>>
             /\ known'[n] = known[n] \cup {Id(m), <<answer, m.t>>} /\ \A p \in Node : p # n => known'[p] = known[p]
             /\ m.target = n /\ Id(m) \notin known[n]
  <2>1. /\ Store(n, q) /\ Pending(q, n) /\ m.type = type /\ UNCHANGED <<trans, begun>>
        /\ known' = [known EXCEPT ![n] = @ \cup {Id(m), <<answer, m.t>>}] /\ Concerned(n, m) /\ Id(m) \notin known[n]
    BY <1>5 DEF Answering, Takes, Pending, loopVars
  <2> QED
    BY <1>2, <2>1 DEF Concerned
<1>6. CASE handle_transactGetBalance(n, q)
  <2>1. PICK type, answer : type = "transactGetBalance" /\ answer = "transactBalance"
    OBVIOUS
  <2>2. type \in Requests /\ answer \in Answers /\ Answering(n, q, type, answer)
    BY <1>6, <2>1 DEF handle_transactGetBalance, Requests, Answers
  <2>3. /\ Store(n, q) /\ Pending(q, n) /\ m.type = type /\ UNCHANGED <<trans, begun>>
        /\ known'[n] = known[n] \cup {Id(m), <<answer, m.t>>} /\ \A p \in Node : p # n => known'[p] = known[p]
        /\ m.target = n /\ Id(m) \notin known[n]
    BY <1>5, <2>2
  <2>4. /\ Id(m) = BalanceId(m.t) /\ <<answer, m.t>> = GivenId(m.t)
        /\ \A t : /\ GivenId(t) # BalanceId(m.t) /\ BalanceId(t) # GivenId(m.t)
                  /\ (GivenId(t) = GivenId(m.t) => t = m.t) /\ (BalanceId(t) = BalanceId(m.t) => t = m.t)
    BY <1>1, <2>1, <2>3 DEF GivenId, BalanceId
  <2> QED
    BY <1>6, <2>1, <2>2, <2>3, <2>4
<1>7. CASE handle_transactStart(n, q)
  <2>1. PICK type, answer : type = "transactStart" /\ answer = "transactAck"
    OBVIOUS
  <2>2. type \in Requests /\ answer \in Answers /\ Answering(n, q, type, answer)
    BY <1>7, <2>1 DEF handle_transactStart, Requests, Answers
  <2>3. /\ Store(n, q) /\ Pending(q, n) /\ m.type = type /\ UNCHANGED <<trans, begun>>
        /\ known'[n] = known[n] \cup {Id(m), <<answer, m.t>>} /\ \A p \in Node : p # n => known'[p] = known[p]
    BY <1>5, <2>2
  <2>4. ~ handle_transactGetBalance(n, q)
    BY <2>1, <2>3 DEF handle_transactGetBalance, Answering, Takes
  <2>5. \A t : {GivenId(t), BalanceId(t)} \cap {Id(m), <<answer, m.t>>} = {}
    BY <1>1, <2>1, <2>3 DEF GivenId, BalanceId
  <2> QED
    BY <2>1, <2>2, <2>3, <2>4, <2>5
<1>8. CASE handle_transactAck(n, q) \/ handle_transactBalance(n, q)
  <2>1. PICK type \in Answers : /\ Accepting(n, q, type)
                                /\ type = "transactBalance" => handle_transactBalance(n, q)
    BY <1>8 DEF handle_transactAck, handle_transactBalance, Answers
  <2>2. /\ Store(n, q) /\ Pending(q, n) /\ m.type = type /\ UNCHANGED <<trans, begun>>
        /\ known' = [known EXCEPT ![n] = @ \cup {Id(m)}]
    BY <2>1 DEF Accepting, Takes, Pending, loopVars
  <2>3. known'[n] = known[n] \cup {Id(m)} /\ \A p \in Node : p # n => known'[p] = known[p]
    BY <1>2, <2>2
  <2>4. ~ handle_transactGetBalance(n, q)
    BY <2>1, <2>2 DEF handle_transactGetBalance, Answering, Takes, Answers
  <2>5. \A t : (GivenId(t) = Id(m) <=> IsGiven(m, t)) /\ BalanceId(t) # Id(m)
    BY <1>1, <2>1, <2>2 DEF GivenId, BalanceId, IsGiven, Answers
  <2> QED
    BY <1>1, <2>1, <2>2, <2>3, <2>4, <2>5 DEF IsGiven
<1> QED
  BY <1>3, <1>4, <1>6, <1>7, <1>8

\* One of the handlers of a transaction.
Dealer(n, q) ==
  \/ Deduplicate(n, q) \/ PassOn(n, q)
  \/ handle_transactGetBalance(n, q) \/ handle_transactStart(n, q)
  \/ handle_transactAck(n, q) \/ handle_transactBalance(n, q)

\* A node that has recorded its state is told of a balance: the snapshot is not clear any more.
LEMMA Disturbs ==
  ASSUME TypeOK, Cut, Trailed, Clear', NEW n \in Node, NEW q \in Neigh[n], Dealer(n, q),
         NEW t \in 1 .. begun, IsGiven(Head(chan[q][n]), t), Counts(t), Taking(n)
  PROVE  FALSE
<1>1. q \in Node
  BY NeighAssumption
<1>2. PICK m : m = Head(chan[q][n])
  OBVIOUS
<1>3. Store(n, q) /\ Pending(q, n) /\ trans' = trans
  BY <1>1, <1>2, Learns DEF Dealer
<1>4. Storing /\ (q \in snapshots[n].msgInActive /\ Head(chan[q][n]).type \in Affecting => snapshots'[n].affected)
  BY <1>1, <1>3, StoreKeeps
<1>5. Clear /\ Taking(n)'
  BY <1>3, <1>4, StoringKeeps
<1>6. q \in snapshots[n].msgInActive
  BY <1>3, <1>5, StillOpen
<1>7. snapshots'[n].affected
  BY <1>4, <1>6 DEF IsGiven, Affecting
<1> QED
  BY <1>5, <1>7 DEF Clear

\* The target of a transaction that counts has answered before it recorded its state.
LEMMA AnsweredBefore ==
  ASSUME TypeOK, Recalled, KnownInOrder, NEW t \in 1 .. begun, NEW n \in Node, n = trans[t].with, Counts(t), Taking(n)
  PROVE  BalanceId(t) \in known[n]
<1>1. t \in Nat /\ Has(n, StartId(t))
  BY TwoNodes DEF Counts
<1> QED
  BY <1>1 DEF Recalled, KnownInOrder

\* What a handler of a transaction sends of an answer with a balance.
Tells(n, q, m, out) ==
  /\ Pending(q, n) /\ chan' = Exchanged(chan, q, n, out) /\ UNCHANGED <<trans, begun>>
  /\ \A r \in Node : \A k \in DOMAIN out[r] : out[r][k].type = "transactBalance" =>
       /\ out[r][k].t = m.t
       /\ \/ m.type = "transactBalance" /\ PassOn(n, q)
          \/ handle_transactGetBalance(n, q)

LEMMA DealerSends ==
  ASSUME TypeOK, NEW n \in Node, NEW q \in Node, Dealer(n, q), NEW m, m = Head(chan[q][n])
  PROVE  \E out \in Outgoing(Message) : Tells(n, q, m, out)
<1>1. PICK out \in Outgoing(Message) : Aside(n, q, out)
  BY AsideTransaction DEF Dealer
<1>2. ASSUME NEW r \in Node, NEW k \in DOMAIN out[r], out[r][k].type = "transactBalance"
      PROVE  out[r][k].t = m.t /\ ((m.type = "transactBalance" /\ PassOn(n, q)) \/ handle_transactGetBalance(n, q))
  <2>1. out[r][k].type \in Answers /\ out[r][k].type # "transactAck"
    BY <1>2 DEF Answers
  <2> QED
    BY <1>1, <1>2, <2>1 DEF Aside
<1>3. Tells(n, q, m, out)
  BY <1>1, <1>2 DEF Aside, Tells
<1> QED
  BY <1>3

\* Each answer with a balance is in front of the sender's marker, after the step.
LEMMA TrailedDealt ==
  ASSUME TypeOK, TypeOK', Cut, Sourced, Requested, AllNamed, KnownInOrder, Accounted,
         NEW n \in Node, NEW q \in Neigh[n], Dealer(n, q)
  PROVE  Trailed'
<1>1. q \in Node
  BY NeighAssumption
<1>2. PICK m : m = Head(chan[q][n])
  OBVIOUS
<1>3. Store(n, q) /\ Pending(q, n) /\ m.type \in Requests \cup Answers /\ UNCHANGED <<trans, begun>>
  BY <1>1, <1>2, Learns DEF Dealer
<1>4. Storing /\ marking' = marking
  BY <1>1, <1>3, StoreKeeps
<1>5. /\ Round' = Round /\ (Clear' => Clear)
      /\ \A t \in 1 .. begun : Counts(t)' <=> Counts(t)
  BY <1>3, <1>4, StoringKeeps
<1>6. PICK out \in Outgoing(Message) : Tells(n, q, m, out)
  BY <1>1, <1>2, DealerSends
<1>7. Trailed /\ Recalled
  BY DEF Accounted
<1>8. \A p \in Node : \A r \in Neigh[p] : Marked(p, r)' => Marked(p, r) /\ snapshots[p].id = Round
  BY <1>4, <1>5 DEF Marked, Storing
<1>9. ASSUME NEW t \in 1 .. begun', NEW p \in Node, NEW r \in Neigh[p], NEW i \in DOMAIN chan'[p][r],
             IsGiven(chan'[p][r][i], t), Clear', Counts(t)', Round' > 0, Marked(p, r)'
      PROVE  \E k \in DOMAIN chan[p][r] : Stays(chan, chan', p, r, k, i)
  <2>1. r \in Node /\ t \in 1 .. begun /\ Counts(t) /\ Clear
    BY <1>3, <1>5, <1>9, NeighAssumption
  <2>2. Taking(p)
    BY <1>5, <1>8, <1>9 DEF Taking
  <2>3. ASSUME p = n, NEW k \in DOMAIN out[r], chan'[p][r][i] = out[r][k]
        PROVE  FALSE
    <3>1. out[r][k].type = "transactBalance" /\ out[r][k].t = t
      BY <1>9, <2>3 DEF IsGiven
    <3>2. m.t = t /\ ((m.type = "transactBalance" /\ PassOn(n, q)) \/ handle_transactGetBalance(n, q))
      BY <1>6, <2>1, <3>1 DEF Tells
    <3>3. ~ (m.type = "transactBalance")
      <4>1. m.type = "transactBalance" => IsGiven(Head(chan[q][n]), t)
        BY <1>2, <3>2 DEF IsGiven
      <4> QED
        BY <1>7, <1>9, <2>1, <2>2, <2>3, <4>1, Disturbs
    <3>4. handle_transactGetBalance(n, q) /\ m.type = "transactGetBalance"
      BY <1>1, <1>2, <3>2, <3>3, Learns
    <3>5. m.target = n /\ BalanceId(m.t) \notin known[n]
      BY <1>1, <1>2, <3>4, Learns
    <3>6. n = trans[t].with
      BY <1>1, <1>2, <1>3, <3>2, <3>4, <3>5, HeadOf DEF Requests
    <3>7. BalanceId(t) \in known[n]
      BY <1>7, <2>1, <2>2, <2>3, <3>6, AnsweredBefore
    <3> QED
      BY <3>2, <3>5, <3>7
  <2>4. PICK net, net2 : net = chan /\ net2 = chan'
    OBVIOUS
  <2>5. net \in Channels(Message) /\ net[q][n] # <<>> /\ net2 = Exchanged(net, q, n, out) /\ i \in DOMAIN net2[p][r]
    BY <1>3, <1>6, <1>9, <2>4, TurnType DEF Pending, Tells
  <2>6. \/ p = n /\ \E k \in DOMAIN out[r] : net2[p][r][i] = out[r][k]
        \/ \E k \in DOMAIN net[p][r] : Stays(net, net2, p, r, k, i)
    BY <1>1, <2>1, <2>5, ShiftExchanged
  <2> QED
    BY <2>3, <2>4, <2>6
<1>10. \A t \in 1 .. begun' : Counts(t)' => t \in 1 .. begun /\ Counts(t)
  BY <1>3, <1>5
<1> QED
  BY <1>3, <1>5, <1>7, <1>8, <1>9, <1>10, TrailedStep

\* What a node's recorded state has, and what it knows, after the step.
LEMMA MineDealt ==
  ASSUME TypeOK, TypeOK', Cut, Sourced, Requested, AllNamed, Accounted, strayed' = "no" => strayed = "no",
         NEW n \in Node, NEW q \in Neigh[n], Dealer(n, q)
  PROVE  Mine' /\ Recalled'
<1>1. q \in Node
  BY NeighAssumption
<1>2. PICK m : m = Head(chan[q][n])
  OBVIOUS
<1>3. /\ Store(n, q) /\ Pending(q, n) /\ m.type \in Requests \cup Answers /\ UNCHANGED <<trans, begun>>
      /\ \A p \in Node : known[p] \subseteq known'[p] /\ (p # n => known'[p] = known[p])
  BY <1>1, <1>2, Learns DEF Dealer
<1>4. Storing
  BY <1>1, <1>3, StoreKeeps
<1>5. /\ Round' = Round /\ (Clear' => Clear)
      /\ \A p \in Node : (Taking(p)' <=> Taking(p)) /\ \A u : Has(p, u)' <=> Has(p, u)
      /\ \A t \in 1 .. begun : Counts(t)' <=> Counts(t)
  BY <1>3, <1>4, StoringKeeps
<1>6. Trailed /\ Mine /\ Recalled
  BY DEF Accounted
<1>7. Recalled'
  <2> SUFFICES ASSUME NEW p \in Node, NEW t \in Nat, Has(p, StartId(t))'
               PROVE  StartId(t) \in known'[p]
    BY DEF Recalled, StartId
  <2>1. PICK u : u = StartId(t)
    OBVIOUS
  <2>2. Has(p, u)'
    BY <2>1 DEF Has, StartId
  <2> QED
    BY <1>3, <1>5, <1>6, <2>1, <2>2 DEF Recalled
<1>8. Mine'
  <2> SUFFICES ASSUME strayed' = "no", Clear', NEW t \in 1 .. begun', Counts(t)', NEW b, b = trans[t].by,
                      Taking(b)', GivenId(t) \in known'[b]
               PROVE  Has(b, GivenId(t))'
    BY <1>3 DEF Mine, GivenId, Taking, Has
  <2>1. b \in Node /\ b # trans[t].with /\ t \in 1 .. begun
    BY <1>3, TwoNodes
  <2>2. Counts(t) /\ Taking(b) /\ Clear
    BY <1>5, <2>1
  <2>3. GivenId(t) \in known[b]
    <3>1. SUFFICES ASSUME GivenId(t) \notin known[b] PROVE FALSE
      OBVIOUS
    <3>2. b = n
      BY <1>3, <2>1, <3>1
    <3>3. ~ IsGiven(m, t)
      BY <1>2, <1>6, <2>1, <2>2, <3>2, Disturbs
    <3>4. handle_transactGetBalance(n, q) /\ m.t = t
      BY <1>1, <1>2, <3>1, <3>2, <3>3, Learns DEF Dealer
    <3>5. m.type = "transactGetBalance" /\ m.target = n
      BY <1>1, <1>2, <3>4, Learns
    <3>6. n = trans[t].with
      BY <1>1, <1>2, <1>3, <3>4, <3>5, HeadOf DEF Requests
    <3> QED
      BY <2>1, <3>2, <3>6
  <2>4. PICK u : u = GivenId(t)
    OBVIOUS
  <2>5. Has(b, u)
    BY <1>6, <2>1, <2>2, <2>3, <2>4 DEF Mine
  <2>6. Has(b, u)'
    BY <1>5, <2>1, <2>5
  <2> QED
    BY <2>4, <2>6 DEF Has, GivenId
<1> QED
  BY <1>7, <1>8

\* The target answers when it has the request, and who sends an answer knows it.
LEMMA AnsweredDealt ==
  ASSUME TypeOK, TypeOK', Sourced, Requested, AllNamed, Accounted,
         NEW n \in Node, NEW q \in Neigh[n], Dealer(n, q)
  PROVE  Answered' /\ Informed'
<1>1. q \in Node
  BY NeighAssumption
<1>2. PICK m : m = Head(chan[q][n])
  OBVIOUS
<1>3. /\ Pending(q, n) /\ m.type \in Requests \cup Answers /\ UNCHANGED <<trans, begun>>
      /\ \A p \in Node : known[p] \subseteq known'[p] /\ (p # n => known'[p] = known[p])
      /\ m.type = "transactBalance" => GivenId(m.t) \in known'[n]
      /\ handle_transactGetBalance(n, q) => GivenId(m.t) \in known'[n]
  BY <1>1, <1>2, Learns DEF Dealer
<1>4. Answered'
  <2> SUFFICES ASSUME NEW t \in 1 .. begun, NEW w, w = trans[t].with, BalanceId(t) \in known'[w]
               PROVE  GivenId(t) \in known'[w]
    BY <1>3 DEF Answered, BalanceId, GivenId
  <2>1. w \in Node
    BY TwoNodes
  <2>2. CASE BalanceId(t) \in known[w]
    BY <1>3, <2>1, <2>2 DEF Accounted, Answered
  <2>3. CASE BalanceId(t) \notin known[w]
    <3>1. w = n
      BY <1>3, <2>1, <2>3
    <3>2. m.type = "transactGetBalance" /\ m.t = t /\ (PassOn(n, q) \/ handle_transactGetBalance(n, q))
      BY <1>1, <1>2, <2>3, <3>1, Learns DEF Dealer
    <3>3. m.target = n
      BY <1>1, <1>2, <1>3, <3>1, <3>2, HeadOf DEF Requests
    <3>4. Concerned(n, m)
      BY <3>2, <3>3 DEF Concerned, Requests
    <3>5. handle_transactGetBalance(n, q)
      BY <1>2, <3>2, <3>4 DEF PassOn
    <3> QED
      BY <1>3, <3>1, <3>2, <3>5
  <2> QED
    BY <2>2, <2>3
<1>5. PICK out \in Outgoing(Message) : Tells(n, q, m, out)
  BY <1>1, <1>2, DealerSends
<1>6. Informed'
  <2> SUFFICES ASSUME NEW p \in Node, NEW r \in Node, NEW i \in DOMAIN chan'[p][r], NEW m2, m2 = chan'[p][r][i],
                      m2.type = "transactBalance"
               PROVE  GivenId(m2.t) \in known'[p]
    BY DEF Informed, GivenId
  <2>1. \/ p = n /\ \E k \in DOMAIN out[r] : chan'[p][r][i] = out[r][k]
        \/ \E j \in DOMAIN chan[p][r] : chan'[p][r][i] = chan[p][r][j]
    <3>1. Pending(q, n) /\ chan' = Exchanged(chan, q, n, out)
      BY <1>5 DEF Tells
    <3> QED
      BY <1>1, <3>1, Arrivals
  <2>2. CASE p = n /\ \E k \in DOMAIN out[r] : chan'[p][r][i] = out[r][k]
    BY <1>3, <1>5, <2>2 DEF Tells
  <2>3. CASE \E j \in DOMAIN chan[p][r] : chan'[p][r][i] = chan[p][r][j]
    <3>1. GivenId(m2.t) \in known[p]
      BY <2>3 DEF Accounted, Informed
    <3> QED
      BY <1>3, <3>1
  <2> QED
    BY <2>1, <2>2, <2>3
<1> QED
  BY <1>4, <1>6

\* Who takes an answer that it did not know, and is not the one who started the transaction,
\* tells all its neighbours but the one it has it from, who knows.
LEMMA SpreadDealt ==
  ASSUME TypeOK, TypeOK', Handover, AllNamed, Sourced, Dealt, Accounted, strayed' = "no" => strayed = "no",
         NEW n \in Node, NEW q \in Neigh[n], Dealer(n, q)
  PROVE  Spread'
<1>1. q \in Node
  BY NeighAssumption
<1>2. PICK m : m = Head(chan[q][n])
  OBVIOUS
<1>3. /\ Pending(q, n) /\ m.type \in Requests \cup Answers /\ UNCHANGED <<trans, begun>>
      /\ \A p \in Node : known[p] \subseteq known'[p] /\ (p # n => known'[p] = known[p])
      /\ m.type = "transactBalance" => GivenId(m.t) \in known'[n]
  BY <1>1, <1>2, Learns DEF Dealer
<1>4. m \in Message
  BY <1>1, <1>2, <1>3, HeadOf DEF Dealt
<1>5. SUFFICES ASSUME strayed' = "no", NEW t \in 1 .. begun, NEW x \in Node, GivenId(t) \in known'[x],
                      x # trans[t].by, NEW y \in Neigh[x]
               PROVE  GivenId(t) \in known'[y] \/ Bears(chan', x, y, t)
  BY <1>3 DEF Spread, GivenId, Bears, IsGiven
<1>6. y \in Node
  BY NeighAssumption
<1>7. CASE GivenId(t) \in known[x]
  <2>1. GivenId(t) \in known[y] \/ Bears(chan, x, y, t)
    BY <1>5, <1>7 DEF Accounted, Spread
  <2>2. CASE Bears(chan, x, y, t)
    <3>1. PICK out \in Outgoing(Message) : Tells(n, q, m, out)
      BY <1>1, <1>2, DealerSends
    <3>2. PICK k \in DOMAIN chan[x][y] : IsGiven(chan[x][y][k], t)
      BY <2>2 DEF Bears
    <3>3. \/ x = q /\ y = n /\ chan[x][y][k] = Head(chan[q][n])
          \/ \E i \in DOMAIN chan'[x][y] : chan'[x][y][i] = chan[x][y][k]
      BY <1>1, <1>3, <1>6, <3>1, StillThere DEF Tells
    <3> QED
      BY <1>2, <1>3, <3>2, <3>3 DEF IsGiven, Bears
  <2> QED
    BY <1>3, <1>6, <2>1, <2>2
<1>8. CASE GivenId(t) \notin known[x]
  <2>1. x = n
    BY <1>3, <1>5, <1>8
  <2>2. ASSUME NEW m2 \in Message, m2.type = "transactBalance", m2.t = t, NEW z \in Node, y # z,
               chan' = Exchanged(chan, q, n, Flood(n, z, m2))
        PROVE  Bears(chan', x, y, t)
    <3>1. PICK out : out = Flood(n, z, m2)
      OBVIOUS
    <3>2. m2.type \in Answers
      BY <2>2 DEF Answers
    <3>3. out \in Outgoing(Message) /\ chan' = Exchanged(chan, q, n, out)
      BY <2>2, <3>1, <3>2, FloodType
    <3>4. PICK k \in DOMAIN out[y] : out[y][k].type = m2.type /\ out[y][k].t = m2.t
      BY <2>1, <2>2, <3>1, <3>2, FloodAll
    <3>5. \E i \in DOMAIN chan'[n][y] : chan'[n][y][i] = out[y][k]
      BY <1>1, <1>3, <1>6, <3>3, Sends
    <3> QED
      BY <2>1, <2>2, <3>4, <3>5 DEF Bears, IsGiven
  <2>3. CASE handle_transactGetBalance(n, q) /\ m.t = t
    <3>1. PICK m2 : m2 = Answer("transactBalance", m.t)
      OBVIOUS
    <3>2. m2 \in Message /\ m2.type = "transactBalance" /\ m2.t = t
      BY <1>5, <2>3, <3>1, TwoNodes DEF Answer, Message, Answers
    <3>3. chan' = Exchanged(chan, q, n, Flood(n, n, m2))
      BY <2>3, <3>1, <1>2 DEF handle_transactGetBalance, Answering
    <3>4. y # n
      BY <2>1, NeighAssumption
    <3> QED
      BY <2>2, <3>2, <3>3, <3>4
  <2>4. CASE IsGiven(m, t) /\ PassOn(n, q)
    <3>1. chan' = Exchanged(chan, q, n, Flood(n, q, m))
      BY <1>2, <2>4 DEF PassOn
    <3>2. CASE y # q
      BY <1>1, <1>4, <2>2, <2>4, <3>1, <3>2 DEF IsGiven
    <3>3. CASE y = q
      <4>1. PICK s : s = chan[q][n]
        OBVIOUS
      <4>2. s \in Seq(Message) /\ s # <<>>
        BY <1>1, <1>3, <4>1 DEF TypeOK, Pending
      <4>3. 1 \in DOMAIN s /\ s[1] = m
        BY <1>2, <4>1, <4>2, Uncons
      <4>4. GivenId(t) \in known[q]
        BY <1>1, <2>4, <4>1, <4>3 DEF Accounted, Informed, IsGiven
      <4> QED
        BY <1>1, <1>3, <3>3, <4>4
    <3> QED
      BY <3>2, <3>3
  <2>5. CASE IsGiven(m, t) /\ handle_transactBalance(n, q)
    <3>1. PICK type \in Answers : type = "transactBalance"
      BY DEF Answers
    <3>2. Accepting(n, q, type)
      BY <2>5, <3>1 DEF handle_transactBalance
    <3>3. n = trans[m.t].by
      BY <1>1, <1>2, <1>5, <3>2, AcceptingKnows
    <3> QED
      BY <1>5, <2>1, <2>5, <3>3 DEF IsGiven
  <2> QED
    BY <1>1, <1>2, <1>5, <1>8, <2>1, <2>3, <2>4, <2>5, Learns DEF Dealer
<1> QED
  BY <1>7, <1>8

\* A message of a transaction.
LEMMA AccountedTransaction ==
  ASSUME TypeOK, TypeOK', Cut, Order, Handover, Dealing, Accounted,
         NEW n \in Node, NEW q \in Neigh[n], Dealer(n, q)
  PROVE  Accounted'
<1>1. q \in Node
  BY NeighAssumption
<1>2. AllNamed /\ KnownInOrder /\ Sourced /\ Dealt /\ Requested
  BY DEF Order, Dealing, Dealt
<1>3. strayed' = "no" => strayed = "no"
  BY <1>1, <1>2, DealingTransaction DEF Dealer
<1>4. Trailed'
  BY <1>2, TrailedDealt
<1>5. Mine' /\ Recalled'
  BY <1>2, <1>3, MineDealt
<1>6. Answered' /\ Informed'
  BY <1>2, AnsweredDealt
<1>7. Spread'
  BY <1>2, <1>3, SpreadDealt
<1> QED
  BY <1>4, <1>5, <1>6, <1>7 DEF Accounted

LEMMA AccountedInit == Init => Accounted
<1> SUFFICES ASSUME Init PROVE Accounted
  OBVIOUS
<1>1. /\ \A p, r \in Node : DOMAIN chan[p][r] = {}
      /\ begun = 0 /\ \A p \in Node : snapshots[p].balance = <<>>
  BY DEF Init, EmptyNet, NoSnapshot
<1>2. ~ (\E t \in 1 .. begun : TRUE)
  BY <1>1
<1>3. Trailed
  BY <1>2 DEF Trailed
<1>4. Mine
  BY <1>2 DEF Mine
<1>5. Recalled
  BY <1>1 DEF Recalled, Has
<1>6. Answered
  BY <1>2 DEF Answered
<1>7. Spread
  BY <1>2 DEF Spread
<1>8. Informed
  BY <1>1 DEF Informed
<1> QED
  BY <1>3, <1>4, <1>5, <1>6, <1>7, <1>8 DEF Accounted

\* Recorded states and answers, step by step.
LEMMA AccountedNext ==
  ASSUME TypeOK, TypeOK', Cut, Order, Handover, Dealing, Accounted, [Next]_vars
  PROVE  Accounted'
<1>1. Sourced /\ Requested /\ TargetOnce /\ StarterOnce /\ Turns
  BY DEF Dealing, Dealt, Handover
<1>2. ASSUME NEW n \in Node, NEW q \in Neigh[n], Handle(n, q) PROVE Accounted'
  <2>1. q \in Node
    BY NeighAssumption
  <2>2. CASE Dealer(n, q)
    BY <2>2, AccountedTransaction
  <2>3. CASE handle_lockRelease(n, q) \/ handle_lockAck(n, q)
    BY <1>1, <2>1, <2>3, AccountedLock
  <2>4. CASE FirstMarker(n, q)
    BY <1>1, <2>4, AccountedFirst
  <2>5. CASE LaterMarker(n, q) \/ handle_state(n, q)
    BY <1>1, <2>1, <2>5, AccountedReport
  <2> QED
    BY <1>2, <2>2, <2>3, <2>4, <2>5 DEF Handle, Dealer, handle_marker
<1>3. ASSUME NEW n \in Node, NEW d \in Node, SendMarker(n, d) PROVE Accounted'
  BY <1>1, <1>3, AccountedSendMarker
<1>4. ASSUME NEW n \in Node, Handler(n) PROVE Accounted'
  <2>1. PICK q \in Neigh[n] : Handle(n, q) \/ SendMarker(n, q)
    BY <1>4 DEF Handler
  <2>2. q \in Node
    BY NeighAssumption
  <2> QED
    BY <1>2, <1>3, <2>1, <2>2
<1>5. CASE leaderLoop
  <2>1. NewSnapshot \/ \E r \in Node : SendMarker(Leader, r)
    BY <1>5 DEF leaderLoop
  <2> QED
    BY <1>1, <1>3, <2>1, AccountedNew, NodeAssumption
<1>6. ASSUME NEW n \in Node, transactionLoop(n) PROVE Accounted'
  BY <1>1, <1>6, AccountedLoop
<1>7. CASE UNCHANGED vars
  <2>1. UNCHANGED <<chan, known, strayed, trans, begun, snapshots, marking>>
    BY <1>7 DEF vars, loopVars, cut
  <2>2. NoNews /\ Storing /\ Left
    BY <2>1 DEF NoNews, Storing, Left, Stays
  <2>3. \A p \in Node : \A r \in Neigh[p] : Marked(p, r)' => Marked(p, r)
    BY <2>1 DEF Marked, Round
  <2> QED
    BY <1>1, <2>1, <2>2, <2>3, AccountedKept
<1> QED
  BY <1>4, <1>5, <1>6, <1>7 DEF Next

\* Once the snapshot is complete no answer that counts is under way, and the node that
\* started the transaction has it.
LEMMA AllTold ==
  ASSUME TypeOK, Cut, KnownInOrder, Accounted, Complete, strayed = "no", \A n \in Node : ~ snapshots[n].affected,
         NEW t \in 1 .. begun, Has(trans[t].with, StartId(t))
  PROVE  Has(trans[t].by, GivenId(t))
<1>1. PICK w, b : w = trans[t].with /\ b = trans[t].by
  OBVIOUS
<1>2. w \in Node /\ b \in Node /\ t \in Nat
  BY <1>1, TwoNodes
<1>3. Round > 0 /\ AllReceived
  BY DEF Complete, Round
<1>4. /\ \A u \in Node : snapshots[u].id = Round /\ marking[u] = {}
      /\ \A p, r \in Node : \A i \in DOMAIN chan[p][r] : chan[p][r][i].type # "marker"
  BY <1>3, Settled DEF OfCut
<1>5. Clear /\ Counts(t) /\ \A u \in Node : Taking(u)
  BY <1>1, <1>2, <1>3, <1>4 DEF Clear, Counts, Taking
<1>6. \A p \in Node : \A r \in Neigh[p] : r \in Node /\ Marked(p, r)
  BY <1>4, NeighAssumption DEF Marked
<1>7. ASSUME NEW p \in Node, NEW r \in Neigh[p], Bears(chan, p, r, t)
      PROVE  FALSE
  <2>1. PICK i \in DOMAIN chan[p][r] : IsGiven(chan[p][r][i], t)
    BY <1>7 DEF Bears
  <2>2. Past(chan, p, r, i)
    BY <1>3, <1>5, <1>6, <2>1 DEF Accounted, Trailed
  <2> QED
    BY <1>4, <1>6, <2>2 DEF Past
<1>8. PICK K : K = {x \in Node : GivenId(t) \in known[x]}
  OBVIOUS
<1>9. w \in K
  <2>1. BalanceId(t) \in known[w]
    BY <1>1, <1>2, <1>5, AnsweredBefore DEF Accounted
  <2> QED
    BY <1>1, <1>2, <1>8, <2>1 DEF Accounted, Answered
<1>10. \A x \in K : x # b => Neigh[x] \subseteq K
  BY <1>1, <1>6, <1>7, <1>8 DEF Accounted, Spread
<1>11. b \in K
  <2>1. SUFFICES ASSUME b \notin K PROVE FALSE
    OBVIOUS
  <2>2. \A x \in K : Neigh[x] \subseteq K
    BY <1>10, <2>1
  <2>3. Leader \in K
    <3>1. K \in SUBSET Node /\ K # {}
      BY <1>8, <1>9
    <3>2. \A n \in K \ {Leader} : Parent[n] \in K
      BY <2>2, <3>1, ParentAssumption
    <3> QED
      BY <3>1, <3>2, SpanningAssumption
  <2>4. Leader \in Node \ K
    <3>1. Node \ K \in SUBSET Node /\ Node \ K # {}
      BY <1>2, <2>1
    <3>2. \A n \in (Node \ K) \ {Leader} : Parent[n] \in Node \ K
      <4> SUFFICES ASSUME NEW n \in (Node \ K) \ {Leader} PROVE Parent[n] \in Node \ K
        OBVIOUS
      <4>1. Parent[n] \in Node /\ n \in Neigh[Parent[n]]
        BY ParentAssumption, NeighAssumption
      <4> QED
        BY <2>2, <4>1
    <3> QED
      BY <3>1, <3>2, SpanningAssumption
  <2> QED
    BY <2>3, <2>4
<1>12. GivenId(t) \in known[b]
  BY <1>8, <1>11
<1>13. Mine
  BY DEF Accounted
<1> QED
  BY <1>1, <1>2, <1>5, <1>12, <1>13 DEF Mine

\* A complete snapshot during which no node took a message that changes a balance, while no
\* answer has strayed, holds no half of a transaction: if it has the update at the target of
\* a transaction, it has the one at the node that started it, whatever the graph and the tree
\* are, however many transactions and snapshots there are (TargetsCounted).
THEOREM TargetsIncluded == Spec => []TargetsCounted
<1>1. TypeOK /\ Order /\ Cut /\ Accounted => TargetsCounted
  <2> SUFFICES ASSUME TypeOK, Order, Cut, Accounted, Complete, strayed = "no",
                      \A n \in Node : ~ snapshots[n].affected,
                      NEW t \in 1 .. begun, Has(trans[t].with, StartId(t))
               PROVE  Has(trans[t].by, GivenId(t))
    BY DEF TargetsCounted, StartId, GivenId
  <2>1. KnownInOrder
    BY DEF Order
  <2> QED
    BY <2>1, AllTold
<1>2. Init => TypeOK /\ Holding /\ Order /\ Handover /\ Swept({Release}) /\ Dealing /\ Cut /\ Accounted
  BY TypesInit, HoldingInit, OrderInit, HandoverInit, DealingInit, CutInit, AccountedInit
<1>3. TypeOK /\ Holding /\ Order /\ Handover /\ Swept({Release}) /\ Dealing /\ Cut /\ Accounted /\ [Next]_vars
        => (TypeOK /\ Holding /\ Order /\ Handover /\ Swept({Release}) /\ Dealing /\ Cut /\ Accounted)'
  <2> SUFFICES ASSUME TypeOK, Holding, Order, Handover, Swept({Release}), Dealing, Cut, Accounted, [Next]_vars
               PROVE  (TypeOK /\ Holding /\ Order /\ Handover /\ Swept({Release}) /\ Dealing /\ Cut /\ Accounted)'
    OBVIOUS
  <2>1. TypeOK' /\ Holding'
    BY TypesNext
  <2>2. Exclusive /\ AllNamed
    BY DEF Handover, Order
  <2>3. Order'
    BY <2>2, OrderNext
  <2>4. Handover' /\ Swept({Release})'
    BY <2>1, ReleaseNext
  <2>5. Dealing'
    BY <2>1, <2>2, DealingNext
  <2>6. Cut'
    BY CutNext
  <2>7. Accounted'
    BY <2>1, AccountedNext
  <2> QED
    BY <2>1, <2>3, <2>4, <2>5, <2>6, <2>7
<1> QED
  BY <1>1, <1>2, <1>3, PTL DEF Spec
=============================================================================
