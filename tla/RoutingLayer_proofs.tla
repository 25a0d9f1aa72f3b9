-------------------------- MODULE RoutingLayer_proofs --------------------------
(***************************************************************************)
(* Proofs about RoutingLayer, for every set of prefixes, faces, distances  *)
(* and rules.                                                              *)
(*                                                                         *)
(* The theorems of NaturalsInduction take an operator as a parameter.      *)
(* Induction is done here over a set of numbers instead, and follows from  *)
(* WFMin: a nonempty set of numbers has a least element.                   *)
(***************************************************************************)
EXTENDS RoutingLayer, FiniteSetTheorems, WellFoundedInduction, TLAPS

LEMMA Least ==
    ASSUME NEW U, U \subseteq Nat, U # {}
    PROVE  \E x \in U : \A y \in U : x <= y
<1>1. PICK x \in U : \A y \in U : ~(<<y, x>> \in OpToRel(<, Nat))
  BY NatLessThanWellFounded, WFMin
<1>2. \A y \in U : ~(y < x)
  BY <1>1 DEF OpToRel
<1> QED  BY <1>2

LEMMA Induction ==
    ASSUME NEW T, 0 \in T, \A n \in Nat : n \in T => n + 1 \in T
    PROVE  Nat \subseteq T
<1> SUFFICES ASSUME Nat \ T # {}
             PROVE  FALSE
  OBVIOUS
<1>1. PICK x \in Nat \ T : \A y \in Nat \ T : x <= y
  BY Least
<1>2. x - 1 \in Nat /\ x - 1 \in T
  BY <1>1
<1> QED  BY <1>1, <1>2

(* A function that is defined by its value at 0 and a step.                *)
Iterations(V, v0, step, n) ==
    {f \in [0 .. n -> V] :
        \A k \in 0 .. n : f[k] = IF k = 0 THEN v0 ELSE step[<<k, f[k - 1]>>]}

LEMMA Iterated ==
    ASSUME NEW V, NEW v0 \in V, NEW step \in [Nat \X V -> V], NEW n \in Nat
    PROVE  Iterations(V, v0, step, n) # {}
<1> DEFINE Is(f, m) == \A k \in 0 .. m : f[k] = IF k = 0 THEN v0 ELSE step[<<k, f[k - 1]>>]
           T == {m \in Nat : \E f \in [0 .. m -> V] : Is(f, m)}
<1>1. 0 \in T
  <2>1. [k \in 0 .. 0 |-> v0] \in [0 .. 0 -> V] /\ Is([k \in 0 .. 0 |-> v0], 0)
    OBVIOUS
  <2> QED  BY <2>1
<1>2. ASSUME NEW m \in Nat, m \in T  PROVE m + 1 \in T
  <2>1. PICK f \in [0 .. m -> V] : Is(f, m)
    BY <1>2
  <2> DEFINE g == [k \in 0 .. m + 1 |-> IF k <= m THEN f[k] ELSE step[<<m + 1, f[m]>>]]
  <2>2. g \in [0 .. m + 1 -> V]
    OBVIOUS
  <2>3. \A k \in 0 .. m : g[k] = f[k] /\ (k # 0 => g[k - 1] = f[k - 1])
    OBVIOUS
  <2>4. g[m + 1] = step[<<m + 1, g[m]>>] /\ (m + 1) - 1 = m /\ m + 1 # 0
    OBVIOUS
  <2> HIDE DEF g
  <2>5. Is(g, m + 1)
    <3> SUFFICES ASSUME NEW k \in 0 .. m + 1
                 PROVE  g[k] = IF k = 0 THEN v0 ELSE step[<<k, g[k - 1]>>]
      OBVIOUS
    <3>1. CASE k \in 0 .. m
      BY <2>1, <2>3, <3>1
    <3>2. CASE k = m + 1
      BY <2>4, <3>2
    <3> QED  BY <3>1, <3>2
  <2> HIDE DEF Is
  <2> QED  BY <2>2, <2>5
<1> HIDE DEF T
<1>3. n \in T
  BY <1>1, <1>2, Induction
<1> QED  BY <1>3 DEF T, Iterations

(* Where the elements of a sequence were in another one, in the same order. *)
Places(s, n, t) ==
    {at \in [DOMAIN t -> 1 .. n] :
        /\ \A j \in DOMAIN t : t[j] = s[at[j]]
        /\ \A i, j \in DOMAIN t : i < j => at[i] < at[j]}

(* The elements at the positions kept, and no others.                      *)
LEMMA KeptElements ==
    ASSUME NEW S, NEW s \in Seq(S), NEW kept
    PROVE  /\ KeptOf(s, kept) \in Seq(S)
           /\ \A k \in DOMAIN s : k \in kept =>
                 \E j \in DOMAIN KeptOf(s, kept) : KeptOf(s, kept)[j] = s[k]
           /\ \A j \in DOMAIN KeptOf(s, kept) : \E k \in DOMAIN s : KeptOf(s, kept)[j] = s[k]
           /\ Places(s, Len(s), KeptOf(s, kept)) # {}
<1> DEFINE Def(f, k) == IF k = 0 THEN << >>
                        ELSE IF k \in kept THEN Append(f[k - 1], s[k]) ELSE f[k - 1]
           upto == CHOOSE f : f = [k \in 0 .. Len(s) |-> Def(f, k)]
           step == [x \in Nat \X Seq(S) |->
                       IF x[1] \in kept /\ x[1] \in 1 .. Len(s) THEN Append(x[2], s[x[1]]) ELSE x[2]]
<1>1. /\ upto = [k \in 0 .. Len(s) |-> Def(upto, k)]
      /\ upto \in [0 .. Len(s) -> Seq(S)]
  <2>1. step \in [Nat \X Seq(S) -> Seq(S)] /\ << >> \in Seq(S) /\ Len(s) \in Nat
    OBVIOUS
  <2>2. PICK g \in [0 .. Len(s) -> Seq(S)] : \A k \in 0 .. Len(s) :
               g[k] = IF k = 0 THEN << >> ELSE step[<<k, g[k - 1]>>]
    <3> HIDE DEF step
    <3>1. Iterations(Seq(S), << >>, step, Len(s)) # {}
      BY <2>1, Iterated
    <3> QED  BY <3>1 DEF Iterations
  <2>3. ASSUME NEW k \in 0 .. Len(s)  PROVE g[k] = Def(g, k)
    <3>1. CASE k = 0
      BY <2>2, <3>1
    <3>2. CASE k # 0
      <4>1. k - 1 \in 0 .. Len(s) /\ k \in 1 .. Len(s)
        BY <3>2
      <4>2. <<k, g[k - 1]>> \in Nat \X Seq(S)
        BY <4>1
      <4>3. step[<<k, g[k - 1]>>] = IF k \in kept THEN Append(g[k - 1], s[k]) ELSE g[k - 1]
        BY <4>1, <4>2
      <4> QED  BY <2>2, <3>2, <4>3
    <3> QED  BY <3>1, <3>2
  <2>4. g = [k \in 0 .. Len(s) |-> Def(g, k)]
    BY <2>3
  <2>5. upto = [k \in 0 .. Len(s) |-> Def(upto, k)]
    BY <2>4
  <2> HIDE DEF upto
  <2>6. \A k \in 0 .. Len(s) : upto[k] = Def(upto, k)
    BY <2>5
  <2> DEFINE T == {n \in Nat : n <= Len(s) => upto[n] \in Seq(S)}
  <2>7. 0 \in T
    <3>1. 0 \in 0 .. Len(s)
      OBVIOUS
    <3>2. upto[0] = << >>
      BY <2>6, <3>1
    <3>3. upto[0] \in Seq(S) /\ 0 \in Nat
      BY <3>2
    <3> QED  BY <3>3
  <2>8. ASSUME NEW n \in Nat, n \in T  PROVE n + 1 \in T
    <3> SUFFICES ASSUME n + 1 <= Len(s)  PROVE upto[n + 1] \in Seq(S)
      OBVIOUS
    <3>1. upto[n] \in Seq(S) /\ s[n + 1] \in S /\ n + 1 \in 0 .. Len(s) /\ (n + 1) - 1 = n
      BY <2>8
    <3>2. upto[n + 1] = IF n + 1 \in kept THEN Append(upto[n], s[n + 1]) ELSE upto[n]
      BY <2>6, <3>1
    <3> QED  BY <3>1, <3>2
  <2> HIDE DEF T
  <2>9. Nat \subseteq T
    BY <2>7, <2>8, Induction
  <2>10. \A k \in 0 .. Len(s) : upto[k] \in Seq(S)
    BY <2>9 DEF T
  <2>11. DOMAIN upto = 0 .. Len(s) /\ upto = [k \in DOMAIN upto |-> upto[k]]
    BY <2>5
  <2>12. upto \in [0 .. Len(s) -> Seq(S)]
    BY <2>10, <2>11
  <2> QED  BY <2>5, <2>12
<1>2. KeptOf(s, kept) = upto[Len(s)]
  BY DEF KeptOf
<1> HIDE DEF upto
<1>3. \A k \in 0 .. Len(s) : upto[k] \in Seq(S) /\ upto[k] = Def(upto, k)
  BY <1>1
<1> DEFINE Holds(n) ==
               /\ \A k \in 1 .. n : k \in kept => \E j \in DOMAIN upto[n] : upto[n][j] = s[k]
               /\ \A j \in DOMAIN upto[n] : \E k \in 1 .. n : upto[n][j] = s[k]
               /\ Places(s, n, upto[n]) # {}
           T == {n \in Nat : n <= Len(s) => Holds(n)}
<1>4. 0 \in T
  <2>1. upto[0] = << >>
    BY <1>3
  <2>2. << >> \in Places(s, 0, << >>)
    BY DEF Places
  <2> QED  BY <2>1, <2>2
<1>5. ASSUME NEW n \in Nat, n \in T  PROVE n + 1 \in T
  <2> SUFFICES ASSUME n + 1 <= Len(s)  PROVE Holds(n + 1)
    OBVIOUS
  <2>1. Holds(n) /\ n \in 0 .. Len(s) /\ n + 1 \in 0 .. Len(s) /\ (n + 1) - 1 = n /\ n + 1 # 0
    BY <1>5
  <2>2. upto[n] \in Seq(S) /\ s[n + 1] \in S
    BY <1>3, <2>1
  <2>3. upto[n + 1] = IF n + 1 \in kept THEN Append(upto[n], s[n + 1]) ELSE upto[n]
    BY <1>3, <2>1
  <2>4. CASE n + 1 \in kept
    <3>1. /\ DOMAIN upto[n + 1] = 1 .. Len(upto[n]) + 1 /\ DOMAIN upto[n] = 1 .. Len(upto[n])
          /\ \A j \in DOMAIN upto[n] : upto[n + 1][j] = upto[n][j]
          /\ upto[n + 1][Len(upto[n]) + 1] = s[n + 1] /\ Len(upto[n]) \in Nat
      BY <2>2, <2>3, <2>4
    <3>2. PICK at : at \in Places(s, n, upto[n])
      BY <2>1
    <3> DEFINE more == [j \in DOMAIN upto[n + 1] |-> IF j \in DOMAIN upto[n] THEN at[j] ELSE n + 1]
    <3>3. more \in Places(s, n + 1, upto[n + 1])
      <4>1. /\ DOMAIN upto[n + 1] = 1 .. Len(upto[n]) + 1 /\ DOMAIN upto[n] = 1 .. Len(upto[n])
            /\ Len(upto[n]) \in Nat /\ n \in Nat
        BY <3>1
      <4>2. /\ at \in [DOMAIN upto[n] -> 1 .. n]
            /\ \A j \in DOMAIN upto[n] : upto[n][j] = s[at[j]]
            /\ \A i, j \in DOMAIN upto[n] : i < j => at[i] < at[j]
        BY <3>2 DEF Places
      <4>3. /\ \A j \in DOMAIN upto[n] : more[j] = at[j] /\ at[j] \in 1 .. n
            /\ more[Len(upto[n]) + 1] = n + 1
            /\ more = [j \in DOMAIN upto[n + 1] |-> more[j]]
        BY <4>1, <4>2
      <4> HIDE DEF more
      <4>4. \A j \in DOMAIN upto[n + 1] : j \in DOMAIN upto[n] \/ j = Len(upto[n]) + 1
        BY <4>1
      <4>5. more \in [DOMAIN upto[n + 1] -> 1 .. n + 1]
        <5>1. 1 .. n \subseteq 1 .. n + 1 /\ n + 1 \in 1 .. n + 1
          BY <4>1
        <5>2. \A j \in DOMAIN upto[n + 1] : more[j] \in 1 .. n + 1
          BY <4>3, <4>4, <5>1, Zenon
        <5> QED  BY <4>3, <5>2, Zenon
      <4>6. \A j \in DOMAIN upto[n + 1] : upto[n + 1][j] = s[more[j]]
        BY <3>1, <4>2, <4>3, <4>4
      <4>7. ASSUME NEW i \in DOMAIN upto[n + 1], NEW j \in DOMAIN upto[n + 1], i < j
            PROVE  more[i] < more[j]
        <5>1. i \in DOMAIN upto[n]
          BY <4>1, <4>7
        <5>2. CASE j \in DOMAIN upto[n]
          BY <4>2, <4>3, <4>7, <5>1, <5>2
        <5>3. CASE j = Len(upto[n]) + 1
          <6>1. more[i] \in 1 .. n /\ more[j] = n + 1
            BY <4>3, <5>1, <5>3, Zenon
          <6> QED  BY <4>1, <6>1
        <5> QED  BY <4>4, <5>2, <5>3
      <4> QED  BY <4>5, <4>6, <4>7 DEF Places
    <3> QED  BY <2>1, <3>1, <3>3
  <2>5. CASE n + 1 \notin kept
    <3>1. PICK at : at \in Places(s, n, upto[n])
      BY <2>1
    <3>2. at \in Places(s, n + 1, upto[n])
      BY <2>1, <3>1 DEF Places
    <3> QED  BY <2>1, <2>3, <2>5, <3>2
  <2> QED  BY <2>4, <2>5
<1> HIDE DEF T
<1>6. Len(s) \in T /\ Len(s) \in 0 .. Len(s)
  BY <1>4, <1>5, Induction
<1>7. Holds(Len(s)) /\ upto[Len(s)] \in Seq(S)
  BY <1>3, <1>6 DEF T
<1> QED  BY <1>2, <1>7

(* No two entries of a table are equal, as the code compares them.         *)
Single(table) == \A j, k \in DOMAIN table : RouteOf(table[j]) = RouteOf(table[k]) => j = k

(* A static entry stays when the table is cleared, and nothing comes twice. *)
LEMMA Clearing ==
    ASSUME NEW table \in Seq(FibEntry)
    PROVE  /\ ClearFib(table) \in Seq(FibEntry)
           /\ \A e \in Range(table) : e.static => e \in Range(ClearFib(table))
           /\ Single(table) => Single(ClearFib(table))
<1> DEFINE Def(f, k) == ~table[k].static /\ (k = 1 \/ ~f[k - 1])
           gone == CHOOSE f : f = [k \in DOMAIN table |-> Def(f, k)]
           step == [x \in Nat \X BOOLEAN |-> x[1] \in DOMAIN table /\ ~table[x[1]].static /\ ~x[2]]
           kept == {k \in DOMAIN table : \A j \in DOMAIN table : table[j] = table[k] => ~gone[j]}
<1>1. gone = [k \in DOMAIN table |-> Def(gone, k)]
  <2>1. step \in [Nat \X BOOLEAN -> BOOLEAN] /\ Len(table) \in Nat
    OBVIOUS
  <2>2. PICK g \in [0 .. Len(table) -> BOOLEAN] : \A k \in 0 .. Len(table) :
               g[k] = IF k = 0 THEN FALSE ELSE step[<<k, g[k - 1]>>]
    <3> HIDE DEF step
    <3>1. Iterations(BOOLEAN, FALSE, step, Len(table)) # {}
      BY <2>1, Iterated
    <3> QED  BY <3>1 DEF Iterations
  <2> DEFINE h == [k \in DOMAIN table |-> g[k]]
  <2>3. ASSUME NEW k \in DOMAIN table  PROVE h[k] = Def(h, k)
    <3>1. k \in 1 .. Len(table) /\ k - 1 \in 0 .. Len(table)
      OBVIOUS
    <3>2. <<k, g[k - 1]>> \in Nat \X BOOLEAN
      BY <3>1
    <3>3. g[k] = (~table[k].static /\ ~g[k - 1])
      <4>1. step[<<k, g[k - 1]>>] = (~table[k].static /\ ~g[k - 1])
        BY <3>2
      <4>2. k \in 0 .. Len(table) /\ k # 0
        BY <3>1
      <4> HIDE DEF step
      <4> QED  BY <2>2, <4>1, <4>2
    <3>4. CASE k = 1
      <4>1. g[0] = FALSE /\ h[k] = g[k]
        BY <2>2
      <4> QED  BY <3>3, <3>4, <4>1
    <3>5. CASE k # 1
      <4>1. h[k - 1] = g[k - 1] /\ h[k] = g[k]
        BY <3>1, <3>5
      <4> QED  BY <3>3, <3>5, <4>1
    <3> QED  BY <3>4, <3>5
  <2> HIDE DEF h
  <2>4. h = [k \in DOMAIN table |-> h[k]]
    BY DEF h
  <2>5. h = [k \in DOMAIN table |-> Def(h, k)]
    BY <2>3, <2>4
  <2> QED  BY <2>5
<1>2. ClearFib(table) = KeptOf(table, kept)
  BY DEF ClearFib
<1> HIDE DEF gone
<1>3. \A j \in DOMAIN table : table[j].static => ~gone[j]
  BY <1>1
<1>4. ASSUME NEW e \in Range(table), e.static  PROVE e \in Range(ClearFib(table))
  <2>1. PICK k \in DOMAIN table : table[k] = e
    BY DEF Range
  <2>2. k \in kept
    BY <1>3, <1>4, <2>1
  <2> HIDE DEF kept
  <2>3. \E j \in DOMAIN KeptOf(table, kept) : KeptOf(table, kept)[j] = e
    BY <2>1, <2>2, KeptElements
  <2> QED  BY <1>2, <2>3 DEF Range
<1> HIDE DEF kept
<1>5. ClearFib(table) \in Seq(FibEntry)
  BY <1>2, KeptElements
<1>6. ASSUME Single(table)  PROVE Single(ClearFib(table))
  <2>1. PICK at : at \in Places(table, Len(table), ClearFib(table))
    BY <1>2, KeptElements
  <2>2. ASSUME NEW i \in DOMAIN ClearFib(table), NEW j \in DOMAIN ClearFib(table),
               RouteOf(ClearFib(table)[i]) = RouteOf(ClearFib(table)[j])
        PROVE  i = j
    <3>1. at[i] \in DOMAIN table /\ at[j] \in DOMAIN table /\ at[i] = at[j]
      BY <1>6, <2>1, <2>2 DEF Places, Single
    <3>2. i \in Nat /\ j \in Nat /\ at[i] \in Nat
      BY <1>5, <3>1
    <3> QED  BY <2>1, <3>1, <3>2 DEF Places
  <2> QED  BY <2>2 DEF Single
<1> QED  BY <1>4, <1>5, <1>6

-----------------------------------------------------------------------------
(* The tree: the distance vectors, and a bound on the length of prefixes   *)
(* that have a route.                                                      *)
Vectors(r) ==
    /\ r \in [Prefixes -> Seq(RibEntry)]
    /\ \E n \in Nat : \A p \in Prefixes : r[p] # << >> => Len(p) <= n

Lines == [name : Prefixes, fid : Faces, dist : Nat]

LEMMA PrefixesAre == ASSUME NEW p \in Prefixes PROVE p \in Seq(Components) /\ Covers(p, p)
  BY NamesAssumption DEF Covers

LEMMA BestIsRoute ==
    ASSUME NEW vector \in Seq(RibEntry), vector # << >>
    PROVE  Best(vector) \in RibEntry
<1> DEFINE dists == {e.dist : e \in Range(vector)}
           least == Min(dists)
           places == {k \in DOMAIN vector : vector[k].dist = least}
<1>1. \A k \in DOMAIN vector : vector[k] \in RibEntry /\ k \in Nat
  OBVIOUS
<1>2. dists \subseteq Nat /\ dists # {}
  <2>1. vector[1] \in Range(vector)
    BY DEF Range
  <2> QED  BY <1>1, <2>1 DEF Range, RibEntry
<1>3. least \in dists
  <2> HIDE DEF dists
  <2>1. \E x \in dists : \A y \in dists : x <= y
    BY <1>2, Least
  <2> QED  BY <2>1 DEF Min
<1>4. places \subseteq Nat /\ places # {}
  <2>1. PICK e \in Range(vector) : e.dist = least
    BY <1>3
  <2> HIDE DEF least
  <2> QED  BY <1>1, <2>1 DEF Range
<1>5. Min(places) \in places
  <2> HIDE DEF places
  <2>1. \E x \in places : \A y \in places : x <= y
    BY <1>4, Least
  <2> QED  BY <2>1 DEF Min
<1>6. Best(vector) = vector[Min(places)]
  BY DEF Best
<1> QED  BY <1>1, <1>5, <1>6

(* On the way from a node to a prefix below it there is a child.           *)
LEMMA ChildCovers ==
    ASSUME NEW q \in Nodes, NEW p \in Registered, Covers(q, p), p # q
    PROVE  \E c \in Children(q) : Covers(c, p)
<1> DEFINE c == SubSeq(p, 1, Len(q) + 1)
<1>1. /\ p \in Prefixes /\ q \in Prefixes /\ p \in Seq(Components) /\ q \in Seq(Components)
  BY PrefixesAre DEF Nodes, Registered
<1>2. Len(q) < Len(p)
  <2>1. Len(q) # Len(p)
    BY <1>1 DEF Covers
  <2> QED  BY <1>1, <2>1 DEF Covers
<1>3. Len(c) = Len(q) + 1 /\ \A i \in 1 .. Len(q) + 1 : c[i] = p[i]
  BY <1>1, <1>2
<1>4. c \in Prefixes
  BY <1>1, <1>2, TreeAssumption
<1> HIDE DEF c
<1>5. Covers(c, p) /\ Covers(q, c)
  BY <1>1, <1>2, <1>3 DEF Covers
<1> QED  BY <1>3, <1>4, <1>5 DEF Children, Nodes

(* The table of a node, and the nodes with at least n + 1 - m components.  *)
TableOf(f, q) == Merged(q, Own(q) \cup UNION {f[c] : c \in Children(q)})
Deep(n, m) == {q \in Nodes : n < Len(q) + m}

LEMMA NodesAre ==
    /\ << >> \in Nodes /\ Nodes \subseteq Prefixes
    /\ \A q \in Nodes : Len(q) \in Nat /\ Children(q) \subseteq Nodes
    /\ \A q \in Nodes : \A c \in Children(q) : Len(c) = Len(q) + 1
  BY PrefixesAre, TreeAssumption DEF Nodes, Children

(* Children first: the tables are well defined.                            *)
LEMMA TablesExist ==
    ASSUME NEW n \in Nat, \A q \in Nodes : Len(q) <= n
    PROVE  \E f : f = [q \in Nodes |-> TableOf(f, q)]
<1> DEFINE T == {m \in Nat : \E f : f = [q \in Deep(n, m) |-> TableOf(f, q)]}
<1>1. 0 \in T
  <2>1. Deep(n, 0) = {}
    BY NodesAre DEF Deep
  <2>2. \E f : f = [q \in {} |-> TableOf(f, q)]
    <3>1. [q \in {} |-> q] = [q \in {} |-> TableOf([r \in {} |-> r], q)]
      OBVIOUS
    <3> QED  BY <3>1
  <2> QED  BY <2>1, <2>2
<1>2. ASSUME NEW m \in Nat, m \in T  PROVE m + 1 \in T
  <2>1. PICK f : f = [q \in Deep(n, m) |-> TableOf(f, q)]
    BY <1>2
  <2> DEFINE g == [q \in Deep(n, m + 1) |-> IF q \in Deep(n, m) THEN f[q] ELSE TableOf(f, q)]
  <2>2. ASSUME NEW q \in Deep(n, m + 1)
        PROVE  g[q] = TableOf(g, q)
    <3>1. \A c \in Children(q) : c \in Deep(n, m) /\ c \in Deep(n, m + 1)
      BY NodesAre DEF Deep
    <3>2. \A c \in Children(q) : g[c] = f[c]
      BY <3>1
    <3>3. TableOf(g, q) = TableOf(f, q)
      <4> HIDE DEF g
      <4>1. {g[c] : c \in Children(q)} = {f[c] : c \in Children(q)}
        BY <3>2
      <4> QED  BY <4>1 DEF TableOf
    <3>4. q \in Deep(n, m) => f[q] = TableOf(f, q)
      BY <2>1
    <3> QED  BY <3>3, <3>4
  <2>3. g = [q \in Deep(n, m + 1) |-> g[q]]
    OBVIOUS
  <2> HIDE DEF g
  <2>4. g = [q \in Deep(n, m + 1) |-> TableOf(g, q)]
    BY <2>2, <2>3
  <2> QED  BY <2>4
<1> HIDE DEF T
<1>3. n + 1 \in T
  BY <1>1, <1>2, Induction
<1>4. Deep(n, n + 1) = Nodes
  BY NodesAre DEF Deep
<1> QED  BY <1>3, <1>4 DEF T

(* Which line of a table a prefix is led by, and what the lines announce:  *)
(* every line stands for prefixes below the node, leads to the best face   *)
(* of each of them, and has the distance of the nearest.                   *)
Below(q) == {p \in Registered : Covers(q, p)}

Longest(lines, p, l) ==
    /\ l \in lines /\ Covers(l.name, p)
    /\ \A m \in lines : Covers(m.name, p) => Len(m.name) <= Len(l.name)

Honest(lines, q) ==
    /\ lines \subseteq Lines
    /\ \A l \in lines : Covers(q, l.name)
    /\ \A l, m \in lines : l.name = m.name => l = m
    /\ \A p \in Below(q) : \E l \in lines : Longest(lines, p, l)
    /\ \A l \in lines : \E p \in Below(q) :
          Longest(lines, p, l) /\ l.dist = Best(rib[p]).dist
    /\ \A l \in lines : \A p \in Below(q) :
          Longest(lines, p, l) => l.fid = Best(rib[p]).fid /\ l.dist <= Best(rib[p]).dist

LEMMA CoversTransitive ==
    ASSUME NEW a \in Prefixes, NEW b \in Prefixes, NEW c \in Prefixes, Covers(a, b), Covers(b, c)
    PROVE  Covers(a, c)
  BY PrefixesAre DEF Covers

LEMMA CoversAlike ==
    ASSUME NEW a \in Prefixes, NEW b \in Prefixes, NEW c \in Prefixes,
           Covers(a, c), Covers(b, c), Len(a) = Len(b)
    PROVE  a = b
<1>1. a \in Seq(Components) /\ b \in Seq(Components) /\ c \in Seq(Components)
  BY PrefixesAre
<1>2. \A i \in 1 .. Len(a) : a[i] = b[i]
  BY <1>1 DEF Covers
<1> QED  BY <1>1, <1>2

LEMMA MergedHonest ==
    ASSUME Vectors(rib), NEW q \in Prefixes, NEW lines, Honest(lines, q)
    PROVE  Honest(Merged(q, lines), q)
<1> DEFINE fids == {l.fid : l \in lines}
           near == CHOOSE l \in lines : \A m \in lines : l.dist <= m.dist
<1>1. CASE ~(Cardinality(fids) = 1 /\ Cardinality(lines) > 1)
  BY <1>1 DEF Merged
<1>2. CASE Cardinality(fids) = 1 /\ Cardinality(lines) > 1
  <2>1. lines \subseteq Lines
    BY DEF Honest
  <2>2. PICK f : fids = {f}
    <3>1. fids \subseteq Faces
      BY <2>1 DEF Lines
    <3>2. IsFiniteSet(fids)
      BY <3>1, FacesAssumption, FS_Subset
    <3> HIDE DEF fids
    <3> QED  BY <1>2, <3>2, FS_Singleton
  <2>3. near \in lines /\ \A m \in lines : near.dist <= m.dist
    <3> DEFINE dists == {l.dist : l \in lines}
    <3>1. dists \subseteq Nat /\ dists # {}
      BY <2>1, <2>2 DEF Lines
    <3>2. PICK d \in dists : \A y \in dists : d <= y
      <4> HIDE DEF dists
      <4> QED  BY <3>1, Least
    <3>3. \E l \in lines : \A m \in lines : l.dist <= m.dist
      BY <3>2
    <3> QED  BY <3>3
  <2> DEFINE line == [near EXCEPT !.name = q]
  <2>4. Merged(q, lines) = {line}
    BY <1>2 DEF Merged
  <2> HIDE DEF near
  <2>5. /\ line \in Lines /\ line.name = q /\ line.dist = near.dist /\ near.dist \in Nat
        /\ line.fid = f
    BY <2>1, <2>2, <2>3 DEF Lines
  <2> HIDE DEF line
  <2>6. \A p \in Below(q) : Longest({line}, p, line)
    BY <2>5, PrefixesAre DEF Longest, Below
  <2>7. \E p \in Below(q) : near.dist = Best(rib[p]).dist
    BY <2>3 DEF Honest
  <2>8. ASSUME NEW p \in Below(q)
        PROVE  f = Best(rib[p]).fid /\ near.dist <= Best(rib[p]).dist
    <3>1. PICK l \in lines : Longest(lines, p, l)
      BY DEF Honest
    <3>2. /\ l.fid = Best(rib[p]).fid /\ l.fid = f
          /\ l.dist <= Best(rib[p]).dist /\ near.dist <= l.dist /\ l.dist \in Nat
      BY <2>1, <2>2, <2>3, <3>1 DEF Honest, Lines
    <3>3. Best(rib[p]).dist \in Nat
      BY BestIsRoute DEF Below, Registered, Vectors, RibEntry
    <3> QED  BY <2>5, <3>2, <3>3
  <2>9. Covers(q, q)
    BY PrefixesAre
  <2> QED  BY <2>4, <2>5, <2>6, <2>7, <2>8, <2>9 DEF Honest
<1> QED  BY <1>1, <1>2

LEMMA TableHonest ==
    ASSUME Vectors(rib), NEW q \in Nodes, NEW f, \A c \in Children(q) : Honest(f[c], c)
    PROVE  Honest(TableOf(f, q), q)
<1> DEFINE own == Line(q, Best(rib[q]))
           lines == Own(q) \cup UNION {f[c] : c \in Children(q)}
<1>1. /\ q \in Prefixes /\ Len(q) \in Nat /\ Covers(q, q)
      /\ \A c \in Children(q) : c \in Prefixes /\ Len(c) = Len(q) + 1 /\ Covers(q, c)
  BY NodesAre, PrefixesAre DEF Children
<1>2. /\ q \in Registered => own \in Lines
      /\ own.name = q /\ own.fid = Best(rib[q]).fid /\ own.dist = Best(rib[q]).dist
      /\ Own(q) = IF q \in Registered THEN {own} ELSE {}
  <2>1. rib[q] # << >> => Best(rib[q]) \in RibEntry
    BY <1>1, BestIsRoute DEF Vectors
  <2> QED  BY <1>1, <2>1 DEF Own, Line, Lines, RibEntry, Registered
<1> HIDE DEF own
<1>3. ASSUME NEW c \in Children(q), NEW l \in f[c]
      PROVE  l \in Lines /\ Covers(c, l.name) /\ Covers(q, l.name) /\ ~Covers(l.name, q)
  <2>1. l \in Lines /\ Covers(c, l.name) /\ l.name \in Prefixes
    BY DEF Honest, Lines
  <2>2. Covers(q, l.name)
    BY <1>1, <2>1, CoversTransitive
  <2>3. ~Covers(l.name, q)
    BY <1>1, <2>1, PrefixesAre DEF Covers
  <2> QED  BY <2>1, <2>2, <2>3
<1>4. /\ lines \subseteq Lines
      /\ \A l \in lines : l.name \in Prefixes /\ Covers(q, l.name)
  <2>1. lines \subseteq Lines /\ \A l \in lines : Covers(q, l.name)
    BY <1>1, <1>2, <1>3
  <2> QED  BY <2>1 DEF Lines
<1>5. ASSUME NEW c \in Children(q), NEW l \in lines, Covers(c, l.name)
      PROVE  l \in f[c]
  <2>1. CASE l \in Own(q)
    BY <1>1, <1>2, <1>5, <2>1, PrefixesAre DEF Covers
  <2>2. ASSUME NEW d \in Children(q), l \in f[d]  PROVE l \in f[c]
    BY <1>1, <1>3, <1>4, <1>5, <2>2, CoversAlike
  <2> QED  BY <2>1, <2>2
<1>6. ASSUME NEW l \in lines, NEW m \in lines, l.name = m.name
      PROVE  l = m
  <2>1. CASE l \in Own(q) /\ m \in Own(q)
    BY <1>2, <2>1
  <2>2. ASSUME NEW c \in Children(q), l \in f[c] \/ m \in f[c]  PROVE l = m
    <3>1. Covers(c, l.name) /\ Covers(c, m.name)
      BY <1>3, <1>6, <2>2
    <3>2. l \in f[c] /\ m \in f[c]
      BY <1>5, <3>1
    <3> QED  BY <1>6, <3>2 DEF Honest
  <2> QED  BY <2>1, <2>2
<1> HIDE DEF lines
<1>7. /\ \A c \in Children(q) : f[c] \subseteq lines
      /\ q \in Registered => own \in lines
      /\ \A l \in lines : (q \in Registered /\ l = own) \/ \E c \in Children(q) : l \in f[c]
  BY <1>2 DEF lines
<1>8. \A p \in Below(q) : p \in Prefixes /\ (p = q \/ \E c \in Children(q) : p \in Below(c))
  BY ChildCovers DEF Below, Registered
<1>9. ASSUME NEW c \in Children(q), NEW p \in Below(c), NEW l
      PROVE  Longest(f[c], p, l) <=> Longest(lines, p, l)
  <2>1. p \in Prefixes /\ Covers(c, p)
    BY DEF Below, Registered
  <2>2. ASSUME NEW k, Longest(f[c], p, k)  PROVE Longest(lines, p, k)
    <3>1. k \in f[c] /\ k \in lines /\ Covers(k.name, p) /\ k.name \in Prefixes
      BY <1>4, <1>7, <2>2 DEF Longest
    <3>2. ASSUME NEW m \in lines, Covers(m.name, p)  PROVE Len(m.name) <= Len(k.name)
      <4>1. CASE m = own
        BY <1>2, <1>3, <3>1, <4>1 DEF Covers
      <4>2. ASSUME NEW d \in Children(q), m \in f[d]  PROVE Len(m.name) <= Len(k.name)
        <5>1. Covers(d, m.name) /\ m.name \in Prefixes
          BY <1>3, <1>4, <4>2
        <5>2. Covers(d, p)
          BY <1>1, <2>1, <3>2, <5>1, CoversTransitive
        <5>3. d = c
          BY <1>1, <2>1, <5>2, CoversAlike
        <5> QED  BY <2>2, <3>2, <4>2, <5>3 DEF Longest
      <4> QED  BY <1>7, <4>1, <4>2
    <3> QED  BY <3>1, <3>2 DEF Longest
  <2>3. ASSUME Longest(lines, p, l)  PROVE Longest(f[c], p, l)
    <3>1. PICK k : Longest(f[c], p, k)
      BY DEF Honest
    <3>2. Longest(lines, p, k)
      BY <2>2, <3>1
    <3>3. l \in lines /\ k \in lines /\ l.name \in Prefixes /\ k.name \in Prefixes
      BY <1>4, <2>3, <3>2 DEF Longest
    <3>4. Len(l.name) = Len(k.name)
      BY <2>3, <3>2, <3>3, PrefixesAre DEF Longest
    <3>5. l.name = k.name
      BY <2>1, <2>3, <3>2, <3>3, <3>4, CoversAlike DEF Longest
    <3> QED  BY <1>6, <3>1, <3>3, <3>5
  <2> QED  BY <2>2, <2>3
<1>10. ASSUME q \in Registered, NEW l
       PROVE  Longest(lines, q, l) <=> l = own
  <2>1. ASSUME Longest(lines, q, l)  PROVE l = own
    BY <1>3, <1>7, <2>1 DEF Longest
  <2>2. \A m \in lines : Covers(m.name, q) => m = own
    BY <1>3, <1>7
  <2>3. Longest(lines, q, own)
    BY <1>1, <1>2, <1>7, <1>10, <2>2 DEF Longest
  <2> QED  BY <2>1, <2>3
<1>11. ASSUME NEW p \in Below(q)  PROVE \E l \in lines : Longest(lines, p, l)
  <2>1. CASE p = q
    BY <1>7, <1>10, <2>1 DEF Below
  <2>2. ASSUME NEW c \in Children(q), p \in Below(c)
        PROVE  \E l \in lines : Longest(lines, p, l)
    <3>1. PICK l \in f[c] : Longest(f[c], p, l)
      BY <2>2 DEF Honest
    <3> QED  BY <1>7, <1>9, <2>2, <3>1
  <2> QED  BY <1>8, <2>1, <2>2
<1>12. ASSUME NEW l \in lines
       PROVE  \E p \in Below(q) : Longest(lines, p, l) /\ l.dist = Best(rib[p]).dist
  <2>1. CASE q \in Registered /\ l = own
    BY <1>1, <1>2, <1>10, <2>1 DEF Below
  <2>2. ASSUME NEW c \in Children(q), l \in f[c]
        PROVE  \E p \in Below(q) : Longest(lines, p, l) /\ l.dist = Best(rib[p]).dist
    <3>1. PICK p \in Below(c) : Longest(f[c], p, l) /\ l.dist = Best(rib[p]).dist
      BY <2>2 DEF Honest
    <3>2. p \in Below(q)
      BY <1>1, CoversTransitive DEF Below, Registered
    <3> QED  BY <1>9, <3>1, <3>2
  <2> QED  BY <1>7, <2>1, <2>2
<1>13. ASSUME NEW l \in lines, NEW p \in Below(q), Longest(lines, p, l)
       PROVE  l.fid = Best(rib[p]).fid /\ l.dist <= Best(rib[p]).dist
  <2>1. CASE p = q
    <3>1. q \in Registered /\ l = own /\ own \in Lines
      BY <1>2, <1>10, <1>13, <2>1 DEF Below
    <3> QED  BY <1>2, <2>1, <3>1 DEF Lines
  <2>2. ASSUME NEW c \in Children(q), p \in Below(c)
        PROVE  l.fid = Best(rib[p]).fid /\ l.dist <= Best(rib[p]).dist
    <3>1. Longest(f[c], p, l) /\ l \in f[c]
      BY <1>9, <1>13, <2>2 DEF Longest
    <3> QED  BY <2>2, <3>1 DEF Honest
  <2> QED  BY <1>8, <2>1, <2>2
<1>14. Honest(lines, q)
  BY <1>4, <1>6, <1>11, <1>12, <1>13 DEF Honest
<1>15. TableOf(f, q) = Merged(q, lines)
  BY DEF TableOf, lines
<1> QED  BY <1>1, <1>14, <1>15, MergedHonest

LEMMA CollapseHonest == ASSUME Vectors(rib) PROVE Honest(Collapse, << >>)
<1> DEFINE table == CHOOSE f : f = [q \in Nodes |->
                        Merged(q, Own(q) \cup UNION {f[c] : c \in Children(q)})]
<1>1. PICK n \in Nat : \A q \in Nodes : Len(q) <= n
  <2>1. PICK n \in Nat : \A p \in Prefixes : rib[p] # << >> => Len(p) <= n
    BY DEF Vectors
  <2>2. ASSUME NEW q \in Nodes  PROVE Len(q) <= n
    <3>1. CASE q = << >>
      BY <3>1
    <3>2. CASE \E p \in Registered : Covers(q, p)
      BY <2>1, <3>2, PrefixesAre, NodesAre DEF Registered, Covers
    <3> QED  BY <3>1, <3>2 DEF Nodes
  <2> QED  BY <2>2
<1>2. table = [q \in Nodes |-> TableOf(table, q)]
  <2>1. \E f : f = [q \in Nodes |-> Merged(q, Own(q) \cup UNION {f[c] : c \in Children(q)})]
    BY <1>1, TablesExist DEF TableOf
  <2>2. table = [q \in Nodes |-> Merged(q, Own(q) \cup UNION {table[c] : c \in Children(q)})]
    BY <2>1
  <2> QED  BY <2>2 DEF TableOf
<1>3. Collapse = table[<< >>]
  BY DEF Collapse
<1> HIDE DEF table
<1>4. \A q \in Nodes : table[q] = TableOf(table, q)
  BY <1>2
<1> DEFINE T == {m \in Nat : \A q \in Deep(n, m) : Honest(table[q], q)}
<1>5. 0 \in T
  BY <1>1 DEF Deep
<1>6. ASSUME NEW m \in Nat, m \in T  PROVE m + 1 \in T
  <2>1. ASSUME NEW q \in Deep(n, m + 1)  PROVE Honest(table[q], q)
    <3>1. q \in Nodes /\ \A c \in Children(q) : c \in Deep(n, m)
      BY NodesAre DEF Deep
    <3>2. \A c \in Children(q) : Honest(table[c], c)
      BY <1>6, <3>1
    <3> QED  BY <1>4, <3>1, <3>2, TableHonest
  <2> QED  BY <2>1
<1> HIDE DEF T
<1>7. n + 1 \in T /\ << >> \in Deep(n, n + 1)
  BY <1>5, <1>6, Induction, NodesAre DEF Deep
<1> QED  BY <1>3, <1>7 DEF T

LEMMA LongestIs ==
    ASSUME Vectors(rib), NEW p \in Registered, NEW m
    PROVE  Longest(Collapse, p, m) <=> LongestLine(Collapse, p) = m
<1>0. Honest(Collapse, << >>) /\ Collapse \subseteq Lines /\ p \in Below(<< >>)
  BY CollapseHonest, PrefixesAre DEF Honest, Below, Registered, Covers
<1>1. PICK k \in Collapse : Longest(Collapse, p, k)
  BY <1>0 DEF Honest
<1>2. ASSUME NEW j, Longest(Collapse, p, j)  PROVE j = k
  <2>1. /\ j \in Collapse /\ j.name \in Prefixes /\ k.name \in Prefixes /\ p \in Prefixes
        /\ Covers(j.name, p) /\ Covers(k.name, p)
    BY <1>0, <1>1, <1>2 DEF Longest, Lines, Registered
  <2>2. Len(j.name) = Len(k.name)
    BY <1>1, <1>2, <2>1, PrefixesAre DEF Longest
  <2>3. j.name = k.name
    BY <2>1, <2>2, CoversAlike
  <2> QED  BY <1>0, <2>1, <2>3 DEF Honest
<1> DEFINE longest == LongestLine(Collapse, p)
<1>3. longest = CHOOSE j \in {i \in Collapse : Covers(i.name, p)} :
                   \A i \in {i \in Collapse : Covers(i.name, p)} : Len(i.name) <= Len(j.name)
  BY DEF LongestLine
<1>4. \E j \in {i \in Collapse : Covers(i.name, p)} :
         \A i \in {i \in Collapse : Covers(i.name, p)} : Len(i.name) <= Len(j.name)
  BY <1>1 DEF Longest
<1> HIDE DEF longest
<1>5. Longest(Collapse, p, longest)
  BY <1>3, <1>4 DEF Longest
<1>6. longest = k
  BY <1>2, <1>5
<1> QED  BY <1>1, <1>2, <1>6 DEF longest

-----------------------------------------------------------------------------
(* The steps *)

LEMMA Routed ==
    ASSUME NEW vector \in Seq(RibEntry), NEW e \in RibEntry
    PROVE  WithRoute(vector, e) \in Seq(RibEntry)
<1>1. CASE \E k \in DOMAIN vector : vector[k].fid = e.fid
  BY <1>1 DEF WithRoute
<1>2. CASE ~\E k \in DOMAIN vector : vector[k].fid = e.fid
  BY <1>2 DEF WithRoute
<1> QED  BY <1>1, <1>2

LEMMA Adding ==
    ASSUME NEW table \in Seq(FibEntry), NEW p \in Prefixes,
           NEW faces \in SUBSET Faces, NEW static \in BOOLEAN
    PROVE  /\ AddFib(table, p, faces, static) \in Seq(FibEntry)
           /\ Range(table) \subseteq Range(AddFib(table, p, faces, static))
           /\ \E e \in Range(AddFib(table, p, faces, static)) : e.name = p /\ e.faceid = faces
           /\ Single(table) => Single(AddFib(table, p, faces, static))
<1> DEFINE new == [name |-> p, faceid |-> faces, static |-> static]
<1>1. CASE \E k \in DOMAIN table : RouteOf(table[k]) = RouteOf(new)
  <2>1. AddFib(table, p, faces, static) = table
    BY <1>1 DEF AddFib
  <2>2. \E k \in DOMAIN table : table[k].name = p /\ table[k].faceid = faces
    BY <1>1 DEF RouteOf
  <2> QED  BY <2>1, <2>2 DEF Range
<1>2. CASE ~\E k \in DOMAIN table : RouteOf(table[k]) = RouteOf(new)
  <2> DEFINE longer == <<new>> \o table
  <2>1. AddFib(table, p, faces, static) = longer
    BY <1>2 DEF AddFib
  <2>2. new \in FibEntry
    BY DEF FibEntry
  <2>3. /\ longer \in Seq(FibEntry) /\ 1 \in DOMAIN longer /\ longer[1] = new
        /\ \A k \in DOMAIN table : k + 1 \in DOMAIN longer /\ longer[k + 1] = table[k]
        /\ \A k \in DOMAIN longer : k # 1 => k - 1 \in DOMAIN table /\ longer[k] = table[k - 1]
        /\ \A k \in DOMAIN longer : k \in Nat
    BY <2>2
  <2> HIDE DEF longer
  <2>4. \E k \in DOMAIN longer : longer[k].name = p /\ longer[k].faceid = faces
    BY <2>3
  <2>5. \A k \in DOMAIN table : \E j \in DOMAIN longer : longer[j] = table[k]
    BY <2>3
  <2>6. ASSUME Single(table)  PROVE Single(longer)
    <3> SUFFICES ASSUME NEW i \in DOMAIN longer, NEW j \in DOMAIN longer,
                        RouteOf(longer[i]) = RouteOf(longer[j])
                 PROVE  i = j
      BY DEF Single
    <3>1. CASE i = 1 /\ j = 1
      BY <3>1
    <3>2. CASE i # 1 /\ j # 1
      BY <2>3, <2>6, <3>2 DEF Single
    <3>3. CASE ~(i = 1 <=> j = 1)
      BY <1>2, <2>3, <3>3
    <3> QED  BY <3>1, <3>2, <3>3
  <2> QED  BY <2>1, <2>3, <2>4, <2>5, <2>6 DEF Range
<1> QED  BY <1>1, <1>2

(* What the timer thread rebuilds the FIB from leads every prefix to its   *)
(* best face, by an entry that is in the table or by a line still to add.  *)
Offered(p) ==
    \/ \E l \in todo : Covers(l.name, p) /\ l.fid = Best(built[p]).fid
    \/ \E e \in Range(fib) : Covers(e.name, p) /\ e.faceid = {Best(built[p]).fid}

RInv ==
    /\ Vectors(rib)
    /\ fib \in Seq(FibEntry) /\ Single(fib)
    /\ todo \subseteq Lines
    /\ timer = "filling" => \A p \in Prefixes : built[p] # << >> => Offered(p)

LEMMA InitHolds == Init => RInv
<1> SUFFICES ASSUME Init PROVE RInv
  OBVIOUS
<1>1. Vectors(rib)
  <2>1. PICK p \in Announced, f \in Faces :
          LET e == [fid |-> f, dist |-> 1, lasting |-> TRUE]
          IN  rib \in {[q \in Prefixes |-> << >>],
                       [q \in Prefixes |-> IF q = p THEN <<e>> ELSE << >>]}
    BY DEF Init
  <2> DEFINE e == [fid |-> f, dist |-> 1, lasting |-> TRUE]
  <2>2. e \in RibEntry
    BY DEF RibEntry
  <2> HIDE DEF e
  <2>3. << >> \in Seq(RibEntry) /\ <<e>> \in Seq(RibEntry)
    BY <2>2
  <2>4. /\ rib \in [Prefixes -> Seq(RibEntry)]
        /\ \A q \in Prefixes : rib[q] # << >> => q = p
    BY <2>1, <2>3 DEF e
  <2>5. Len(p) \in Nat
    BY TreeAssumption, PrefixesAre
  <2> QED  BY <2>4, <2>5 DEF Vectors
<1> QED  BY <1>1 DEF Init, RInv, Single

LEMMA VectorsKept ==
    ASSUME Vectors(rib), NEW p \in Announced, NEW f \in Faces, NEW d \in Distances, NEW b \in BOOLEAN,
           Insert(p, f, d, b)
    PROVE  Vectors(rib')
<1> DEFINE e == [fid |-> f, dist |-> d, lasting |-> b]
<1>1. e \in RibEntry /\ p \in Prefixes
  BY TreeAssumption DEF RibEntry
<1>2. rib' = [rib EXCEPT ![p] = WithRoute(@, e)]
  BY DEF Insert
<1> HIDE DEF e
<1>3. WithRoute(rib[p], e) \in Seq(RibEntry)
  BY <1>1, Routed DEF Vectors
<1>4. rib' \in [Prefixes -> Seq(RibEntry)] /\ \A q \in Prefixes : q # p => rib'[q] = rib[q]
  BY <1>1, <1>2, <1>3 DEF Vectors
<1>5. PICK n \in Nat : \A q \in Prefixes : rib[q] # << >> => Len(q) <= n
  BY DEF Vectors
<1>6. \A q \in Prefixes : Len(q) \in Nat
  BY PrefixesAre
<1>7. n + Len(p) \in Nat /\ \A q \in Prefixes : rib'[q] # << >> => Len(q) <= n + Len(p)
  BY <1>1, <1>4, <1>5, <1>6
<1> QED  BY <1>4, <1>7 DEF Vectors

LEMMA VectorsAged ==
    ASSUME Vectors(rib), NEW expired, RibAgeing(expired)
    PROVE  Vectors(rib')
<1>1. ASSUME NEW p \in Prefixes
      PROVE  rib'[p] \in Seq(RibEntry) /\ (rib[p] = << >> => rib'[p] = << >>)
  <2> DEFINE kept == {k \in DOMAIN rib[p] : <<p, rib[p][k].fid>> \notin expired}
  <2>1. rib'[p] = KeptOf(rib[p], kept)
    BY DEF RibAgeing
  <2> HIDE DEF kept
  <2>2. rib[p] \in Seq(RibEntry)
    BY DEF Vectors
  <2>3. /\ rib'[p] \in Seq(RibEntry)
        /\ \A j \in DOMAIN rib'[p] : \E k \in DOMAIN rib[p] : rib'[p][j] = rib[p][k]
    BY <2>1, <2>2, KeptElements
  <2> QED  BY <2>3
<1>2. rib' \in [Prefixes -> Seq(RibEntry)]
  <2>1. rib' = [p \in Prefixes |-> rib'[p]]
    BY DEF RibAgeing
  <2> QED  BY <1>1, <2>1
<1> QED  BY <1>1, <1>2 DEF Vectors

LEMMA NextHolds == RInv /\ [Next]_vars => RInv'
<1> SUFFICES ASSUME RInv, [Next]_vars PROVE RInv'
  OBVIOUS
<1> USE DEF RInv
<1>1. ASSUME NEW p \in Announced, NEW f \in Faces, NEW d \in Distances, Learn(p, f, d)
      PROVE  RInv'
  <2>1. Vectors(rib')
    BY <1>1, VectorsKept DEF Learn
  <2> QED  BY <1>1, <2>1 DEF Learn, Offered
<1>2. ASSUME NEW rule \in Rules, NewForwardingRule(rule)
      PROVE  RInv'
  <2>1. rule.name \in Prefixes /\ rule.faceid \in SUBSET Faces
    BY RulesAssumption DEF Route
  <2>2. fib' \in Seq(FibEntry) /\ Single(fib)' /\ Range(fib) \subseteq Range(fib')
    BY <1>2, <2>1, Adding DEF NewForwardingRule
  <2> QED  BY <1>2, <2>2 DEF NewForwardingRule, Offered
<1>3. CASE AgeTree
  <2>1. Vectors(rib')
    BY <1>3, VectorsAged DEF AgeTree
  <2> QED  BY <1>3, <2>1 DEF AgeTree
<1>4. CASE ClearTable
  BY <1>4, Clearing DEF ClearTable
<1>5. CASE BuildFib
  <2>1. Honest(Collapse, << >>)
    BY CollapseHonest
  <2>2. \A p \in Registered : p \in Below(<< >>)
    BY PrefixesAre DEF Below, Registered, Covers
  <2>3. \A p \in Prefixes : rib[p] # << >> =>
           \E l \in Collapse : Covers(l.name, p) /\ l.fid = Best(rib[p]).fid
    BY <2>1, <2>2 DEF Honest, Longest, Registered
  <2> QED  BY <1>5, <2>1, <2>3 DEF BuildFib, Offered, Honest
<1>6. CASE Rearm
  BY <1>6 DEF Rearm
<1>7. ASSUME NEW l \in todo, AddLine(l)
      PROVE  RInv'
  <2>1. l.name \in Prefixes /\ {l.fid} \in SUBSET Faces
    BY DEF Lines
  <2>2. /\ fib' \in Seq(FibEntry) /\ Single(fib)' /\ Range(fib) \subseteq Range(fib')
        /\ \E e \in Range(fib') : e.name = l.name /\ e.faceid = {l.fid}
    BY <1>7, <2>1, Adding DEF AddLine
  <2>3. ASSUME NEW p \in Prefixes, built[p] # << >>
        PROVE  Offered(p)'
    <3>1. Offered(p)
      BY <1>7, <2>3 DEF AddLine
    <3>2. todo' = todo \ {l} /\ built' = built
      BY <1>7 DEF AddLine
    <3> QED  BY <2>2, <3>1, <3>2 DEF Offered
  <2> QED  BY <1>7, <2>2, <2>3 DEF AddLine
<1>8. CASE UNCHANGED vars
  BY <1>8 DEF vars, Offered
<1> QED  BY <1>1, <1>2, <1>3, <1>4, <1>5, <1>6, <1>7, <1>8 DEF Next

-----------------------------------------------------------------------------
(* No two entries of the FIB are equal: clear, which removes an entry by   *)
(* equality of prefix and faces, removes the one it looks at.              *)
THEOREM NoTwinsCorrect == Spec => []NoTwins
<1>1. RInv => NoTwins
  BY DEF RInv, NoTwins, Single
<1> QED  BY InitHolds, NextHolds, <1>1, PTL DEF Spec

(* Once the timer thread has added every line, the FIB has an entry that   *)
(* covers each prefix the tree had a route for, and that leads to the best *)
(* face of that prefix: whatever collapse has merged, whatever has been    *)
(* learned, aged or configured since, and although an entry whose route is *)
(* in the table already is not added.                                      *)
THEOREM RoutesOfferedCorrect == Spec => []RoutesOffered
<1>1. RInv => RoutesOffered
  BY DEF RInv, RoutesOffered, Filled, Offered
<1> QED  BY InitHolds, NextHolds, <1>1, PTL DEF Spec

(* Whatever is merged, the line that covers a registered prefix best leads *)
(* to the best face of the distance vector of that prefix.                 *)
THEOREM RegisteredAlikeCorrect == Spec => []RegisteredAlike
<1>1. RInv => RegisteredAlike
  <2> SUFFICES ASSUME RInv, NEW p \in Registered
               PROVE  /\ \E l \in Collapse : Covers(l.name, p)
                      /\ LongestLine(Collapse, p).fid = Best(rib[p]).fid
    BY DEF RegisteredAlike
  <2>1. Honest(Collapse, << >>) /\ p \in Below(<< >>)
    BY CollapseHonest, PrefixesAre DEF RInv, Below, Registered, Covers
  <2>2. PICK l \in Collapse : Longest(Collapse, p, l)
    BY <2>1 DEF Honest
  <2>3. LongestLine(Collapse, p) = l
    BY <2>2, LongestIs DEF RInv
  <2> QED  BY <2>1, <2>2, <2>3 DEF Honest, Longest
<1> QED  BY InitHolds, NextHolds, <1>1, PTL DEF Spec

(* However lines are merged, a line of the collapsed table announces the   *)
(* distance of the nearest registered prefix that it is the longest        *)
(* covering line of, and there is one.                                     *)
THEOREM DistanceHonestCorrect == Spec => []DistanceHonest
<1>1. RInv => DistanceHonest
  <2> SUFFICES ASSUME RInv, NEW l \in Collapse
               PROVE  LET served == {p \in Registered : LongestLine(Collapse, p) = l}
                      IN  served # {} /\ l.dist = Min({Best(rib[p]).dist : p \in served})
    BY DEF DistanceHonest
  <2>1. Honest(Collapse, << >>) /\ Collapse \subseteq Lines
    BY CollapseHonest DEF RInv, Honest
  <2>2. Below(<< >>) = Registered
    BY PrefixesAre DEF Below, Registered, Covers
  <2>3. \A p \in Registered : \A m : Longest(Collapse, p, m) <=> LongestLine(Collapse, p) = m
    BY LongestIs DEF RInv
  <2> DEFINE served == {p \in Registered : LongestLine(Collapse, p) = l}
             dists == {Best(rib[p]).dist : p \in served}
  <2>4. \A p : p \in served <=> p \in Registered /\ Longest(Collapse, p, l)
    BY <2>3
  <2> HIDE DEF served
  <2>5. \E p \in served : l.dist = Best(rib[p]).dist
    BY <2>1, <2>2, <2>4 DEF Honest
  <2>6. \A p \in served : l.dist <= Best(rib[p]).dist
    BY <2>1, <2>2, <2>4 DEF Honest
  <2>7. l.dist \in Nat /\ l.dist \in dists /\ \A d \in dists : l.dist <= d
    BY <2>1, <2>5, <2>6 DEF Lines
  <2>8. \A d \in dists : d \in Nat
    <3>1. \A p \in Registered : Best(rib[p]).dist \in Nat
      BY BestIsRoute DEF RInv, Registered, Vectors, RibEntry
    <3> QED  BY <2>4, <3>1
  <2> HIDE DEF dists
  <2>9. Min(dists) = l.dist
    <3>1. \A d \in dists : (\A y \in dists : d <= y) => d = l.dist
      BY <2>7, <2>8
    <3>2. \E d \in dists : \A y \in dists : d <= y
      BY <2>7
    <3> QED  BY <3>1, <3>2 DEF Min
  <2> QED  BY <2>5, <2>9 DEF served, dists
<1> QED  BY InitHolds, NextHolds, <1>1, PTL DEF Spec

(* No step removes a static entry from the FIB: neither does clear, which  *)
(* removes entries by equality from the list it iterates over, nor an      *)
(* entry that is added for the same prefix.                                *)
THEOREM StaticStayCorrect == Spec => StaticStay
<1>1. ASSUME RInv, [Next]_vars
      PROVE  [\A e \in Range(fib) : e.static => e \in Range(fib')]_vars
  <2>1. fib \in Seq(FibEntry) /\ todo \subseteq Lines
    BY <1>1 DEF RInv
  <2>2. ASSUME NEW rule \in Rules, NewForwardingRule(rule)
        PROVE  Range(fib) \subseteq Range(fib')
    <3>1. rule.name \in Prefixes /\ rule.faceid \in SUBSET Faces
      BY RulesAssumption DEF Route
    <3> QED  BY <2>1, <2>2, <3>1, Adding DEF NewForwardingRule
  <2>3. ASSUME NEW l \in todo, AddLine(l)
        PROVE  Range(fib) \subseteq Range(fib')
    <3>1. l.name \in Prefixes /\ {l.fid} \in SUBSET Faces
      BY <2>1 DEF Lines
    <3> QED  BY <2>1, <2>3, <3>1, Adding DEF AddLine
  <2>4. CASE ClearTable
    BY <2>1, <2>4, Clearing DEF ClearTable
  <2> QED  BY <1>1, <2>2, <2>3, <2>4 DEF Next, Learn, AgeTree, BuildFib, Rearm
<1> QED  BY InitHolds, NextHolds, <1>1, PTL DEF Spec, StaticStay

=============================================================================
