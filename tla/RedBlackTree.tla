--------------------------- MODULE RedBlackTree ----------------------------
(***************************************************************************)
(* Lemmas about the heap of RedBlack: when its links make a search tree,   *)
(* what is under a node, and what a rotation, a new leaf and the removal   *)
(* of a node make of it.  Nothing is assumed of the height of the tree:    *)
(* the induction is over sets of nodes, of which one is the lowest.        *)
(***************************************************************************)
EXTENDS RedBlack, TLAPS

(* Functions defined by recursion along links. *)

\* Whoever follows next in P comes to a node of stop.
Ends(P, stop, next) ==
    /\ \A n \in P \ stop : next[n] \in P
    /\ \A S \in SUBSET P : S # {} => \E n \in S : n \in stop \/ next[n] \notin S
\* The function f on P is defined along next.
Along(f, P, stop, next, out) ==
    f = [n \in P |-> IF n \in stop THEN out[n] ELSE f[next[n]]]

\* A function defined along a way that ends exists.
LEMMA PathFunction ==
    ASSUME NEW P, NEW stop, NEW next, NEW out, Ends(P, stop, next)
    PROVE  \E f : Along(f, P, stop, next, out)
<1> USE DEF Ends
<1> DEFINE Body(g, n) == IF n \in stop THEN out[n] ELSE g[next[n]]
           Part(A, g) == /\ A \in SUBSET P
                         /\ \A n \in A : n \notin stop => next[n] \in A
                         /\ \A n \in A : g[n] = Body(g, n)
           Value(n, v) == \E A, g : Part(A, g) /\ n \in A /\ v = g[n]
<1>1. ASSUME NEW A, NEW B, NEW g, NEW k, Part(A, g), Part(B, k), NEW n \in A \intersect B
      PROVE  g[n] = k[n]
  <2> DEFINE S == {m \in A \intersect B : g[m] # k[m]}
  <2>1. SUFFICES ASSUME S # {} PROVE FALSE
    OBVIOUS
  <2>2. S \in SUBSET P
    BY <1>1
  <2>3. PICK m \in S : m \in stop \/ next[m] \notin S
    BY <2>1, <2>2
  <2>4. CASE m \in stop
    BY <2>3, <2>4, <1>1
  <2>5. CASE m \notin stop
    <3>1. next[m] \in A \intersect B /\ next[m] \notin S
      BY <2>3, <2>5, <1>1
    <3> QED
      BY <3>1, <2>3, <2>5, <1>1
  <2> QED
    BY <2>4, <2>5
<1>2. ASSUME NEW n \in P
      PROVE  \E A, g : Part(A, g) /\ n \in A
  <2> DEFINE S == {m \in P : ~ \E A, g : Part(A, g) /\ m \in A}
  <2>1. SUFFICES ASSUME S # {} PROVE FALSE
    OBVIOUS
  <2>2. PICK m \in S : m \in stop \/ next[m] \notin S
    BY <2>1
  <2>3. CASE m \in stop
    <3> DEFINE g == [q \in {m} |-> out[q]]
    <3>1. Part({m}, g) /\ m \in {m} /\ {m} \in SUBSET P
      BY <2>2, <2>3
    <3> HIDE DEF Part, g
    <3> QED
      BY <3>1, <2>2
  <2>4. CASE m \notin stop
    <3>1. PICK A, g : Part(A, g) /\ next[m] \in A
      BY <2>2, <2>4
    <3>2. m \notin A
      BY <3>1, <2>2
    <3> DEFINE k == [q \in A \union {m} |-> IF q = m THEN g[next[m]] ELSE g[q]]
    <3>3. Part(A \union {m}, k)
      BY <3>1, <3>2, <2>2, <2>4
    <3>4. m \in A \union {m}
      OBVIOUS
    <3> HIDE DEF Part, k
    <3> QED
      BY <3>3, <3>4, <2>2
  <2> QED
    BY <2>3, <2>4
<1> HIDE DEF Part
<1> DEFINE f == [n \in P |-> CHOOSE v : Value(n, v)]
<1>3. ASSUME NEW A, NEW g, Part(A, g), NEW n \in A
      PROVE  f[n] = g[n]
  <2>1. A \in SUBSET P /\ n \in P
    BY <1>3 DEF Part
  <2>2. Value(n, g[n])
    BY <1>3, <2>1
  <2>3. Value(n, f[n])
    BY <2>1, <2>2
  <2>4. PICK B, k : Part(B, k) /\ n \in B /\ f[n] = k[n]
    BY <2>3
  <2> QED
    BY <2>4, <1>3, <1>1
<1> HIDE DEF f
<1>4. ASSUME NEW n \in P
      PROVE  f[n] = IF n \in stop THEN out[n] ELSE f[next[n]]
  <2>1. PICK A, g : Part(A, g) /\ n \in A
    BY <1>2
  <2>2. f[n] = g[n]
    BY <2>1, <1>3
  <2>3. CASE n \in stop
    BY <2>1, <2>2, <2>3 DEF Part
  <2>4. CASE n \notin stop
    <3>1. f[next[n]] = g[next[n]]
      BY <2>1, <2>4, <1>3 DEF Part
    <3> QED
      BY <2>1, <2>2, <2>4, <3>1 DEF Part
  <2> QED
    BY <2>3, <2>4
<1>5. f = [n \in P |-> IF n \in stop THEN out[n] ELSE f[next[n]]]
  <2> DEFINE e == [n \in P |-> IF n \in stop THEN out[n] ELSE f[next[n]]]
  <2>1. \A n \in P : f[n] = e[n]
    BY <1>4
  <2> HIDE DEF Value
  <2> QED
    BY <2>1 DEF f
<1> QED
  BY <1>5 DEF Along

\* Whoever follows l or r in P comes to a node of leaf.
Falls(P, leaf, l, r) ==
    /\ \A n \in P \ leaf : l[n] \in P /\ r[n] \in P
    /\ \A S \in SUBSET P : S # {} =>
          \E n \in S : n \in leaf \/ (l[n] \notin S /\ r[n] \notin S)
\* The function f on P is defined from the leaves up.
Folded(f, P, leaf, l, r, base, comb) ==
    f = [n \in P |-> IF n \in leaf THEN base ELSE comb[<<n, f[l[n]], f[r[n]]>>]]

\* A function defined from the leaves up exists, with its values where comb puts them.
LEMMA TreeFunction ==
    ASSUME NEW P, NEW V, NEW leaf, NEW l, NEW r, NEW base \in V,
           NEW comb \in [P \X V \X V -> V],
           Falls(P, leaf, l, r)
    PROVE  \E f \in [P -> V] : Folded(f, P, leaf, l, r, base, comb)
<1> USE DEF Falls
<1> DEFINE Body(g, n) == IF n \in leaf THEN base ELSE comb[<<n, g[l[n]], g[r[n]]>>]
           Part(A, g) == /\ A \in SUBSET P /\ g \in [A -> V]
                         /\ \A n \in A : n \notin leaf => l[n] \in A /\ r[n] \in A
                         /\ \A n \in A : g[n] = Body(g, n)
           Value(n, v) == \E A, g : Part(A, g) /\ n \in A /\ v = g[n]
<1>1. ASSUME NEW A, NEW B, NEW g, NEW k, Part(A, g), Part(B, k), NEW n \in A \intersect B
      PROVE  g[n] = k[n]
  <2> DEFINE S == {m \in A \intersect B : g[m] # k[m]}
  <2>1. SUFFICES ASSUME S # {} PROVE FALSE
    OBVIOUS
  <2>2. S \in SUBSET P
    BY <1>1
  <2>3. PICK m \in S : m \in leaf \/ (l[m] \notin S /\ r[m] \notin S)
    BY <2>1, <2>2
  <2>4. CASE m \in leaf
    BY <2>3, <2>4, <1>1
  <2>5. CASE m \notin leaf
    <3>1. /\ l[m] \in A \intersect B /\ l[m] \notin S
          /\ r[m] \in A \intersect B /\ r[m] \notin S
      BY <2>3, <2>5, <1>1
    <3>2. g[l[m]] = k[l[m]] /\ g[r[m]] = k[r[m]]
      BY <3>1
    <3>3. g[m] = comb[<<m, g[l[m]], g[r[m]]>>] /\ k[m] = comb[<<m, k[l[m]], k[r[m]]>>]
      BY <2>3, <2>5, <1>1
    <3> QED
      BY <3>2, <3>3, <2>3
  <2> QED
    BY <2>4, <2>5
<1>2. ASSUME NEW n \in P
      PROVE  \E A, g : Part(A, g) /\ n \in A
  <2> DEFINE S == {m \in P : ~ \E A, g : Part(A, g) /\ m \in A}
  <2>1. SUFFICES ASSUME S # {} PROVE FALSE
    OBVIOUS
  <2>2. PICK m \in S : m \in leaf \/ (l[m] \notin S /\ r[m] \notin S)
    BY <2>1
  <2>3. CASE m \in leaf
    <3> DEFINE g == [q \in {m} |-> base]
    <3>1. Part({m}, g) /\ m \in {m} /\ {m} \in SUBSET P
      BY <2>2, <2>3
    <3> HIDE DEF Part, g
    <3> QED
      BY <3>1, <2>2
  <2>4. CASE m \notin leaf
    <3>1. PICK A, g : Part(A, g) /\ l[m] \in A
      BY <2>2, <2>4
    <3>2. PICK B, k : Part(B, k) /\ r[m] \in B
      BY <2>2, <2>4
    <3>3. m \notin A /\ m \notin B
      BY <3>1, <3>2, <2>2
    <3>4. \A q \in A \intersect B : g[q] = k[q]
      BY <1>1, <3>1, <3>2
    <3> DEFINE v == comb[<<m, g[l[m]], k[r[m]]>>]
               C == A \union B \union {m}
               j == [q \in C |-> IF q = m THEN v ELSE IF q \in A THEN g[q] ELSE k[q]]
    <3>5. v \in V
      BY <3>1, <3>2, <2>2
    <3> HIDE DEF v
    <3>6. C \in SUBSET P /\ j \in [C -> V]
      BY <3>5, <3>1, <3>2, <2>2
    <3>7. /\ \A q \in A : j[q] = g[q]
          /\ \A q \in B : j[q] = k[q]
          /\ j[m] = v
      BY <3>3, <3>4
    <3> HIDE DEF j
    <3>8. ASSUME NEW q \in C
          PROVE  /\ q \notin leaf => l[q] \in C /\ r[q] \in C
                 /\ j[q] = Body(j, q)
      <4>1. CASE q = m
        BY <4>1, <3>7, <3>1, <3>2, <2>4 DEF v
      <4>2. CASE q \in A
        <5>1. q \notin leaf => l[q] \in A /\ r[q] \in A
          BY <4>2, <3>1
        <5>2. g[q] = Body(g, q)
          BY <4>2, <3>1
        <5>3. CASE q \in leaf
          BY <5>2, <5>3, <4>2, <3>7
        <5>4. CASE q \notin leaf
          BY <5>1, <5>2, <5>4, <4>2, <3>7
        <5> QED
          BY <5>3, <5>4
      <4>3. CASE q \in B
        <5>1. q \notin leaf => l[q] \in B /\ r[q] \in B
          BY <4>3, <3>2
        <5>2. k[q] = Body(k, q)
          BY <4>3, <3>2
        <5>3. CASE q \in leaf
          BY <5>2, <5>3, <4>3, <3>7
        <5>4. CASE q \notin leaf
          BY <5>1, <5>2, <5>4, <4>3, <3>7
        <5> QED
          BY <5>3, <5>4
      <4> QED
        BY <4>1, <4>2, <4>3
    <3>9. Part(C, j)
      BY <3>6, <3>8
    <3> QED
      BY <3>6, <3>9, <2>2
  <2> QED
    BY <2>3, <2>4
<1> HIDE DEF Part
<1> DEFINE f == [n \in P |-> CHOOSE v : Value(n, v)]
<1>3. ASSUME NEW A, NEW g, Part(A, g), NEW n \in A
      PROVE  f[n] = g[n]
  <2>1. A \in SUBSET P /\ n \in P
    BY <1>3 DEF Part
  <2>2. Value(n, g[n])
    BY <1>3, <2>1
  <2>3. Value(n, f[n])
    BY <2>1, <2>2
  <2>4. PICK B, k : Part(B, k) /\ n \in B /\ f[n] = k[n]
    BY <2>3
  <2> QED
    BY <2>4, <1>3, <1>1
<1> HIDE DEF f
<1>4. ASSUME NEW n \in P
      PROVE  f[n] \in V /\ f[n] = IF n \in leaf THEN base ELSE comb[<<n, f[l[n]], f[r[n]]>>]
  <2>1. PICK A, g : Part(A, g) /\ n \in A
    BY <1>2
  <2>2. f[n] = g[n]
    BY <2>1, <1>3
  <2>3. CASE n \in leaf
    BY <2>1, <2>2, <2>3 DEF Part
  <2>4. CASE n \notin leaf
    <3>1. l[n] \in A /\ r[n] \in A
      BY <2>1, <2>4 DEF Part
    <3>2. f[l[n]] = g[l[n]] /\ f[r[n]] = g[r[n]]
      BY <2>1, <3>1, <1>3
    <3>3. g[n] = comb[<<n, g[l[n]], g[r[n]]>>] /\ g[n] \in V
      BY <2>1, <2>4 DEF Part
    <3> QED
      BY <2>2, <2>4, <3>2, <3>3
  <2> QED
    BY <2>3, <2>4
<1>5. f = [n \in P |-> IF n \in leaf THEN base ELSE comb[<<n, f[l[n]], f[r[n]]>>]]
  <2> DEFINE e == [n \in P |-> IF n \in leaf THEN base ELSE comb[<<n, f[l[n]], f[r[n]]>>]]
  <2>1. \A n \in P : f[n] = e[n]
    BY <1>4
  <2> HIDE DEF Value
  <2> QED
    BY <2>1 DEF f
<1>6. f \in [P -> V]
  <2>1. f = [n \in P |-> f[n]]
    BY DEF f
  <2> QED
    BY <2>1, <1>4
<1> QED
  BY <1>5, <1>6 DEF Folded

-----------------------------------------------------------------------------
(* The heap, field by field. *)

\* The heaps of the model, by the types of their fields.
Heaps == [root : Pointers, kid : [Sides -> [Pointers -> Pointers]],
          up : [Pointers -> Pointers \union {Foreign}], red : [Pointers -> BOOLEAN],
          key : [Nodes -> Keys \union {None}]]

\* The root has no parent and the sentinel no children.
RootFits(t, L) ==
    /\ t.root \in L \union {RBNULL}
    /\ t.root # RBNULL => t.up[t.root] = RBNULL
    /\ \A s \in Sides : t.kid[s][RBNULL] = RBNULL
\* A child points back to its parent, and two children differ.
KidsFit(t, L) ==
    /\ \A n \in L, s \in Sides :
          /\ t.kid[s][n] \in L \union {RBNULL}
          /\ t.kid[s][n] # RBNULL => t.up[t.kid[s][n]] = n
    /\ \A n \in L : t.kid["left"][n] = t.kid["right"][n] => t.kid["left"][n] = RBNULL
\* Every node but the root is a child of its parent.
UpsFit(t, L) ==
    \A n \in L : n # t.root =>
        t.up[n] \in L /\ \E s \in Sides : t.kid[s][t.up[n]] = n
\* No set of nodes is closed under going down, nor under going up: there are no cycles.
Bottom(t, L) == \A S \in SUBSET L : S # {} => \E n \in S : \A s \in Sides : t.kid[s][n] \notin S
Top(t, L) == \A S \in SUBSET L : S # {} => \E n \in S : t.up[n] \notin S

\* The nodes L hang together as one tree in the heap t.
WellLinked(t, L) ==
    /\ t \in Heaps /\ L \in SUBSET Nodes
    /\ RootFits(t, L) /\ KidsFit(t, L) /\ UpsFit(t, L) /\ Bottom(t, L) /\ Top(t, L)

\* There are two sides.
LEMMA SidesAre ==
    ASSUME NEW s \in Sides
    PROVE  /\ Other(s) \in Sides /\ Other(s) # s /\ Other(Other(s)) = s
           /\ Sides = {s, Other(s)}
BY DEF Sides, Other

\* The fields of a heap.
LEMMA HeapFields ==
    ASSUME NEW t \in Heaps
    PROVE  /\ t.root \in Pointers
           /\ t.kid \in [Sides -> [Pointers -> Pointers]]
           /\ t.up \in [Pointers -> Pointers \union {Foreign}]
           /\ t.red \in [Pointers -> BOOLEAN]
           /\ t.key \in [Nodes -> Keys \union {None}]
BY DEF Heaps

\* t2 is the heap t with one field of one node changed.
KidSet(t, t2, s, n, m) ==
    /\ t2 \in Heaps
    /\ t2.root = t.root /\ t2.up = t.up /\ t2.red = t.red /\ t2.key = t.key
    /\ \A r \in Sides, q \in Pointers : t2.kid[r][q] = IF r = s /\ q = n THEN m ELSE t.kid[r][q]
UpSet(t, t2, n, m) ==
    /\ t2 \in Heaps
    /\ t2.root = t.root /\ t2.kid = t.kid /\ t2.red = t.red /\ t2.key = t.key
    /\ \A q \in Pointers : t2.up[q] = IF q = n THEN m ELSE t.up[q]
RedSet(t, t2, n, c) ==
    /\ t2 \in Heaps
    /\ t2.root = t.root /\ t2.kid = t.kid /\ t2.up = t.up /\ t2.key = t.key
    /\ \A q \in Pointers : t2.red[q] = IF q = n THEN c ELSE t.red[q]
RootSet(t, t2, m) ==
    /\ t2 \in Heaps /\ t2.root = m
    /\ t2.kid = t.kid /\ t2.up = t.up /\ t2.key = t.key /\ t2.red = t.red
KeySet(t, t2, n, k) ==
    /\ t2 \in Heaps
    /\ t2.root = t.root /\ t2.kid = t.kid /\ t2.up = t.up /\ t2.red = t.red
    /\ \A q \in Nodes : t2.key[q] = IF q = n THEN k ELSE t.key[q]
\* The kids that were n are m, or m is the root.
Replaced(t, t2, p, n, m) ==
    /\ t2 \in Heaps
    /\ t2.root = (IF p = RBNULL THEN m ELSE t.root)
    /\ t2.up = t.up /\ t2.red = t.red /\ t2.key = t.key
    /\ \A r \in Sides, q \in Pointers :
          t2.kid[r][q] = IF p # RBNULL /\ q = p /\ t.kid[r][p] = n THEN m ELSE t.kid[r][q]
\* b, unless it is the sentinel, has the parent n.
LinkedTo(t, t2, b, n) ==
    /\ t2 \in Heaps
    /\ t2.root = t.root /\ t2.kid = t.kid /\ t2.red = t.red /\ t2.key = t.key
    /\ \A q \in Pointers : t2.up[q] = IF b # RBNULL /\ q = b THEN n ELSE t.up[q]

\* What an assignment to kid[s][n] leaves.
LEMMA SetKid ==
    ASSUME NEW t \in Heaps, NEW s \in Sides, NEW n \in Pointers, NEW m \in Pointers
    PROVE  KidSet(t, WithKid(t, s, n, m), s, n, m)
BY DEF Heaps, WithKid, KidSet

\* What an assignment to up[n] leaves.
LEMMA SetUp ==
    ASSUME NEW t \in Heaps, NEW n \in Pointers, NEW m \in Pointers \union {Foreign}
    PROVE  UpSet(t, WithUp(t, n, m), n, m)
BY DEF Heaps, WithUp, UpSet

\* What an assignment to red[n] leaves.
LEMMA SetRed ==
    ASSUME NEW t \in Heaps, NEW n \in Pointers, NEW c \in BOOLEAN
    PROVE  RedSet(t, [t EXCEPT !.red[n] = c], n, c)
BY DEF Heaps, RedSet

\* What an assignment to the root leaves.
LEMMA SetRoot ==
    ASSUME NEW t \in Heaps, NEW m \in Pointers
    PROVE  RootSet(t, [t EXCEPT !.root = m], m)
BY DEF Heaps, RootSet

\* What an assignment to key[n] leaves.
LEMMA SetKey ==
    ASSUME NEW t \in Heaps, NEW n \in Nodes, NEW k \in Keys
    PROVE  KeySet(t, [t EXCEPT !.key[n] = k], n, k)
BY DEF Heaps, KeySet

\* What Replace leaves, when n is one child of p and not both.
LEMMA ReplaceIs ==
    ASSUME NEW t \in Heaps, NEW p \in Pointers, NEW n \in Nodes, NEW m \in Pointers,
           p # RBNULL =>
               /\ \E s \in Sides : t.kid[s][p] = n
               /\ t.kid["left"][p] = n => t.kid["right"][p] # n
    PROVE  Replaced(t, Replace(t, p, n, m), p, n, m)
<1>1. CASE p = RBNULL
  <2>1. Replace(t, p, n, m) = [t EXCEPT !.root = m]
    BY <1>1 DEF Replace
  <2>2. RootSet(t, Replace(t, p, n, m), m)
    BY <2>1, SetRoot
  <2> QED
    BY <1>1, <2>2 DEF RootSet, Replaced
<1>2. CASE p # RBNULL
  <2> DEFINE s == IF t.kid["left"][p] = n THEN "left" ELSE "right"
  <2>1. s \in Sides /\ t.kid[s][p] = n /\ t.kid[Other(s)][p] # n
    BY <1>2 DEF Sides, Other
  <2>2. Replace(t, p, n, m) = WithKid(t, s, p, m)
    BY <1>2 DEF Replace
  <2> HIDE DEF s
  <2>3. \A r \in Sides : t.kid[r][p] = n <=> r = s
    BY <2>1, SidesAre
  <2>4. KidSet(t, Replace(t, p, n, m), s, p, m)
    BY <2>1, <2>2, SetKid
  <2> QED
    BY <1>2, <2>3, <2>4 DEF KidSet, Replaced
<1> QED
  BY <1>1, <1>2

\* What Linked leaves.
LEMMA LinkedIs ==
    ASSUME NEW t \in Heaps, NEW b \in Pointers, NEW n \in Nodes
    PROVE  LinkedTo(t, Linked(t, b, n), b, n)
<1>1. CASE b = RBNULL
  BY <1>1 DEF Linked, LinkedTo
<1>2. CASE b # RBNULL
  <2>1. UpSet(t, WithUp(t, b, n), b, n)
    BY SetUp DEF Pointers
  <2> QED
    BY <1>2, <2>1 DEF UpSet, LinkedTo, Linked
<1> QED
  BY <1>1, <1>2

\* t2 is t after a rotation of n, whose child m takes its place and leaves it the child b.
Rotated(t, t2, n, m, b, p, s) ==
    /\ t2 \in Heaps
    /\ t2.root = (IF p = RBNULL THEN m ELSE t.root)
    /\ t2.red = t.red /\ t2.key = t.key
    /\ \A r \in Sides, q \in Pointers :
          t2.kid[r][q] = IF q = n /\ r = Other(s) THEN b
                         ELSE IF q = m /\ r = s THEN n
                         ELSE IF p # RBNULL /\ q = p /\ t.kid[r][p] = n THEN m
                         ELSE t.kid[r][q]
    /\ \A q \in Pointers :
          t2.up[q] = IF q = n THEN m ELSE IF q = m THEN p
                     ELSE IF b # RBNULL /\ q = b THEN n ELSE t.up[q]

\* What a rotation does to every field.
LEMMA RaiseIs ==
    ASSUME NEW t \in Heaps, NEW s \in Sides, NEW n \in Nodes, NEW m \in Nodes,
           NEW b \in Pointers, NEW p \in Pointers,
           b = t.kid[s][m], p = t.up[n],
           n # m, b # n, b # m, p # n, p # m,
           p # RBNULL =>
               /\ \E r \in Sides : t.kid[r][p] = n
               /\ t.kid["left"][p] = n => t.kid["right"][p] # n
    PROVE  Rotated(t, Raise(t, m, n, s), n, m, b, p, s)
<1> DEFINE T1 == WithKid(t, Other(s), n, b)
           T2(u) == Linked(u, b, n)
           T3(u) == WithUp(u, m, p)
           T4(u) == Replace(u, p, n, m)
           T5(u) == WithKid(u, s, m, n)
           T6(u) == WithUp(u, n, m)
<1>1. Raise(t, m, n, s) = T6(T5(T4(T3(T2(T1)))))
  BY DEF Raise, Adopted
<1>2. PICK t1 : t1 = T1
  OBVIOUS
<1>3. PICK t2 : t2 = T2(t1)
  OBVIOUS
<1>4. PICK t3 : t3 = T3(t2)
  OBVIOUS
<1>5. PICK t4 : t4 = T4(t3)
  OBVIOUS
<1>6. PICK t5 : t5 = T5(t4)
  OBVIOUS
<1>7. PICK t6 : t6 = T6(t5)
  OBVIOUS
<1>8. Raise(t, m, n, s) = t6
  BY <1>1, <1>2, <1>3, <1>4, <1>5, <1>6, <1>7
<1>9. /\ n \in Pointers /\ m \in Pointers /\ Other(s) \in Sides
      /\ Other(s) # s /\ p \in Pointers \union {Foreign} /\ m \in Pointers \union {Foreign}
      /\ n # RBNULL /\ m # RBNULL
  BY SidesAre, NodesDistinct DEF Pointers
<1>10. KidSet(t, t1, Other(s), n, b)
  BY <1>2, <1>9, SetKid
<1>11. LinkedTo(t1, t2, b, n)
  BY <1>3, <1>10, LinkedIs DEF KidSet
<1>12. UpSet(t2, t3, m, p)
  BY <1>4, <1>9, <1>11, SetUp DEF LinkedTo
<1>13. p # RBNULL =>
           /\ \E r \in Sides : t3.kid[r][p] = n
           /\ t3.kid["left"][p] = n => t3.kid["right"][p] # n
  BY <1>10, <1>11, <1>12 DEF Sides, KidSet, LinkedTo, UpSet
<1>14. t3 \in Heaps
  BY <1>12 DEF UpSet
<1>15. Replaced(t3, t4, p, n, m)
  BY <1>5, <1>9, <1>13, <1>14, ReplaceIs
<1>16. KidSet(t4, t5, s, m, n)
  BY <1>6, <1>9, <1>15, SetKid DEF Replaced
<1>17. UpSet(t5, t6, n, m)
  BY <1>7, <1>9, <1>16, SetUp DEF KidSet
<1>18. \A r \in Sides, q \in Pointers :
         t6.kid[r][q] = IF q = n /\ r = Other(s) THEN b
                        ELSE IF q = m /\ r = s THEN n
                        ELSE IF p # RBNULL /\ q = p /\ t.kid[r][p] = n THEN m
                        ELSE t.kid[r][q]
  BY <1>9, <1>10, <1>11, <1>12, <1>15, <1>16, <1>17 DEF KidSet, LinkedTo, UpSet, Replaced
<1>19. \A q \in Pointers :
         t6.up[q] = IF q = n THEN m ELSE IF q = m THEN p
                    ELSE IF b # RBNULL /\ q = b THEN n ELSE t.up[q]
  BY <1>9, <1>10, <1>11, <1>12, <1>15, <1>16, <1>17 DEF KidSet, LinkedTo, UpSet, Replaced
<1>20. /\ t6 \in Heaps /\ t6.root = (IF p = RBNULL THEN m ELSE t.root)
       /\ t6.red = t.red /\ t6.key = t.key
  BY <1>10, <1>11, <1>12, <1>15, <1>16, <1>17 DEF KidSet, LinkedTo, UpSet, Replaced
<1> QED
  BY <1>8, <1>18, <1>19, <1>20 DEF Rotated

\* What Rotate does to every field.
LEMMA RotateIs ==
    ASSUME NEW t \in Heaps, NEW s \in Sides, NEW n \in Nodes, NEW m \in Nodes,
           NEW b \in Pointers, NEW p \in Pointers,
           m = t.kid[Other(s)][n], b = t.kid[s][m], p = t.up[n],
           n # m, b # n, b # m, p # n, p # m,
           p # RBNULL =>
               /\ \E r \in Sides : t.kid[r][p] = n
               /\ t.kid["left"][p] = n => t.kid["right"][p] # n
    PROVE  Rotated(t, Rotate(t, n, s), n, m, b, p, s)
<1>1. Rotate(t, n, s) = Raise(t, m, n, s)
  BY DEF Rotate
<1>2. Rotated(t, Raise(t, m, n, s), n, m, b, p, s)
  BY RaiseIs
<1> QED
  BY <1>1, <1>2

-----------------------------------------------------------------------------
(* The links. *)

\* A child is another node than its parent, and no child of a child is the parent.
LEMMA Apart ==
    ASSUME NEW t, NEW L, WellLinked(t, L), NEW n \in L, NEW s \in Sides,
           NEW c, c = t.kid[s][n], c # RBNULL
    PROVE  /\ c \in L /\ c # n /\ t.up[c] = n /\ t.up[n] # n /\ t.up[n] # c /\ c # t.root
           /\ \A r \in Sides : t.kid[r][c] # n /\ t.kid[r][c] # c
<1>1. c \in L /\ t.up[c] = n
  BY DEF WellLinked, KidsFit
<1>2. n \in Nodes /\ c \in Nodes /\ n # RBNULL
  BY <1>1, NodesDistinct DEF WellLinked
<1>3. c # n /\ \A r \in Sides : t.kid[r][c] # n /\ t.kid[r][c] # c
  <2>1. \E q \in {n, c} : \A r \in Sides : t.kid[r][q] \notin {n, c}
    BY <1>1 DEF WellLinked, Bottom
  <2>2. \A r \in Sides : t.kid[r][c] \notin {n, c}
    BY <2>1
  <2> QED
    BY <2>2
<1>4. t.up[n] # n /\ t.up[n] # c
  <2>1. \E q \in {n, c} : t.up[q] \notin {n, c}
    BY <1>1 DEF WellLinked, Top
  <2> QED
    BY <1>1, <2>1
<1>5. c # t.root
  BY <1>1, <1>2 DEF WellLinked, RootFits
<1> QED
  BY <1>1, <1>3, <1>4, <1>5

\* Where a node hangs.
LEMMA Parent ==
    ASSUME NEW t, NEW L, WellLinked(t, L), NEW n \in L
    PROVE  /\ t.up[n] = RBNULL <=> n = t.root
           /\ t.up[n] \in L \union {RBNULL}
           /\ n # t.root => \E s \in Sides : t.kid[s][t.up[n]] = n /\ t.kid[Other(s)][t.up[n]] # n
<1>1. n \in Nodes /\ n # RBNULL
  BY NodesDistinct DEF WellLinked
<1>2. CASE n = t.root
  BY <1>1, <1>2 DEF WellLinked, RootFits
<1>3. CASE n # t.root
  <2>1. PICK s \in Sides : t.up[n] \in L /\ t.kid[s][t.up[n]] = n
    BY <1>3 DEF WellLinked, UpsFit
  <2>2. t.up[n] # RBNULL
    BY <2>1, NodesDistinct DEF WellLinked
  <2>3. t.kid[Other(s)][t.up[n]] # n
    BY <1>1, <2>1 DEF WellLinked, KidsFit, Sides, Other
  <2> QED
    BY <1>3, <2>1, <2>2, <2>3
<1> QED
  BY <1>2, <1>3

\* In a tree the nodes of a rotation differ from each other, as RotateIs asks.
LEMMA RotateFacts ==
    ASSUME NEW t, NEW L, WellLinked(t, L), NEW n \in L, NEW s \in Sides,
           NEW m, NEW b, NEW p,
           m = t.kid[Other(s)][n], m # RBNULL, b = t.kid[s][m], p = t.up[n]
    PROVE  /\ Rotated(t, Rotate(t, n, s), n, m, b, p, s)
           /\ m \in L /\ b \in L \union {RBNULL} /\ p \in L \union {RBNULL}
           /\ n # m /\ b # n /\ b # m /\ p # n /\ p # m /\ (b # RBNULL => b # p)
           /\ t.up[m] = n /\ (b # RBNULL => t.up[b] = m)
           /\ m # t.root /\ b # t.root
           /\ n # RBNULL /\ m # RBNULL
           /\ p # RBNULL => \A r \in Sides : t.kid[r][p] # m /\ (b # RBNULL => t.kid[r][p] # b)
<1>1. Other(s) \in Sides
  BY SidesAre
<1>2. /\ m \in L /\ m # n /\ t.up[m] = n /\ p # n /\ p # m /\ m # t.root
      /\ \A r \in Sides : t.kid[r][m] # n /\ t.kid[r][m] # m
  BY <1>1, Apart
<1>3. b \in L \union {RBNULL} /\ (b # RBNULL => t.up[b] = m)
  BY <1>2 DEF WellLinked, KidsFit
<1>4. p \in L \union {RBNULL}
  BY Parent
<1>5. n \in Nodes /\ m \in Nodes /\ n # RBNULL /\ m # RBNULL
  BY <1>2, NodesDistinct DEF WellLinked
<1>6. b # t.root
  <2>1. CASE b = RBNULL
    <3>1. t.root # RBNULL
      BY <1>2, <1>5, Parent, NodesDistinct DEF WellLinked, RootFits, Top
    <3> QED
      BY <2>1, <3>1
  <2>2. CASE b # RBNULL
    BY <1>3, <1>5, <2>2 DEF WellLinked, RootFits
  <2> QED
    BY <2>1, <2>2
<1>7. b # RBNULL => b # p
  <2> SUFFICES ASSUME b # RBNULL, b = p PROVE FALSE
    OBVIOUS
  <2>1. \E q \in {n, m, b} : t.up[q] \notin {n, m, b}
    BY <1>2, <1>3 DEF WellLinked, Top
  <2> QED
    BY <2>1, <1>2, <1>3
<1>8. p # RBNULL => \A r \in Sides : t.kid[r][p] # m /\ (b # RBNULL => t.kid[r][p] # b)
  BY <1>2, <1>3, <1>4, <1>5 DEF WellLinked, KidsFit
<1>9. p # RBNULL =>
               /\ \E r \in Sides : t.kid[r][p] = n
               /\ t.kid["left"][p] = n => t.kid["right"][p] # n
  <2> SUFFICES ASSUME p # RBNULL
               PROVE  /\ \E r \in Sides : t.kid[r][p] = n
                      /\ t.kid["left"][p] = n => t.kid["right"][p] # n
    OBVIOUS
  <2>1. n # t.root
    BY Parent
  <2>2. PICK r \in Sides : t.kid[r][p] = n /\ t.kid[Other(r)][p] # n
    BY <2>1, Parent
  <2> QED
    BY <2>2 DEF Sides, Other
<1>10. b \in Pointers /\ p \in Pointers /\ t \in Heaps
  BY <1>3, <1>4 DEF WellLinked, Pointers
<1>11. b # n /\ b # m
  BY <1>2
<1>12. Rotated(t, Rotate(t, n, s), n, m, b, p, s)
  BY <1>1, <1>2, <1>5, <1>9, <1>10, <1>11, RotateIs
<1> QED
  BY <1>2, <1>3, <1>4, <1>5, <1>6, <1>7, <1>8, <1>11, <1>12

\* A rotation keeps the links of every node in order.
LEMMA RotateLinks ==
    ASSUME NEW t, NEW L, WellLinked(t, L), NEW n \in L, NEW s \in Sides,
           t.kid[Other(s)][n] # RBNULL
    PROVE  WellLinked(Rotate(t, n, s), L)
<1>1. PICK m, b, p, t2 : /\ m = t.kid[Other(s)][n] /\ b = t.kid[s][m] /\ p = t.up[n]
                         /\ t2 = Rotate(t, n, s)
  OBVIOUS
<1>2. /\ Rotated(t, t2, n, m, b, p, s)
      /\ m \in L /\ b \in L \union {RBNULL} /\ p \in L \union {RBNULL}
      /\ n # m /\ b # n /\ b # m /\ p # n /\ p # m /\ (b # RBNULL => b # p)
      /\ t.up[m] = n /\ (b # RBNULL => t.up[b] = m)
      /\ m # t.root /\ b # t.root
      /\ n # RBNULL /\ m # RBNULL
      /\ p # RBNULL => \A r \in Sides : t.kid[r][p] # m /\ (b # RBNULL => t.kid[r][p] # b)
  BY <1>1, RotateFacts
<1>3. /\ L \subseteq Nodes /\ L \subseteq Pointers /\ RBNULL \notin L /\ RBNULL \in Pointers
      /\ t \in Heaps
  BY NodesDistinct DEF WellLinked, Pointers
<1>4. /\ \A r \in Sides, q \in Pointers :
            t2.kid[r][q] = IF q = n /\ r = Other(s) THEN b
                           ELSE IF q = m /\ r = s THEN n
                           ELSE IF p # RBNULL /\ q = p /\ t.kid[r][p] = n THEN m
                           ELSE t.kid[r][q]
      /\ \A q \in Pointers :
            t2.up[q] = IF q = n THEN m ELSE IF q = m THEN p
                       ELSE IF b # RBNULL /\ q = b THEN n ELSE t.up[q]
      /\ t2.root = (IF p = RBNULL THEN m ELSE t.root)
      /\ t2 \in Heaps
  BY <1>2 DEF Rotated
<1>5. p = RBNULL <=> n = t.root
  BY <1>1, Parent
<1>6. RootFits(t2, L)
  <2>1. t2.root \in L \union {RBNULL}
    BY <1>2, <1>4 DEF WellLinked, RootFits
  <2>2. t2.root # RBNULL => t2.up[t2.root] = RBNULL
    BY <1>2, <1>3, <1>4, <1>5 DEF WellLinked, RootFits
  <2>3. \A r \in Sides : t2.kid[r][RBNULL] = RBNULL
    BY <1>2, <1>3, <1>4 DEF WellLinked, RootFits
  <2> QED
    BY <2>1, <2>2, <2>3 DEF RootFits
<1>7. s \in Sides /\ Other(s) \in Sides /\ Other(s) # s /\ Sides = {s, Other(s)}
  BY SidesAre
<1>8. \A q \in L, r \in Sides :
          /\ t2.kid[r][q] \in L \union {RBNULL}
          /\ t2.kid[r][q] # RBNULL => t2.up[t2.kid[r][q]] = q
  <2> SUFFICES ASSUME NEW q \in L, NEW r \in Sides
               PROVE  /\ t2.kid[r][q] \in L \union {RBNULL}
                      /\ t2.kid[r][q] # RBNULL => t2.up[t2.kid[r][q]] = q
    OBVIOUS
  <2>1. CASE q = n /\ r = Other(s)
    BY <2>1, <1>2, <1>3, <1>4
  <2>2. CASE q = m /\ r = s
    BY <2>2, <1>2, <1>3, <1>4
  <2>3. CASE p # RBNULL /\ q = p /\ t.kid[r][p] = n
    BY <2>3, <1>2, <1>3, <1>4
  <2>4. CASE ~(q = n /\ r = Other(s)) /\ ~(q = m /\ r = s)
             /\ ~(p # RBNULL /\ q = p /\ t.kid[r][p] = n)
    <3>1. t2.kid[r][q] = t.kid[r][q]
      BY <2>4, <1>3, <1>4
    <3>2. t.kid[r][q] \in L \union {RBNULL} /\ (t.kid[r][q] # RBNULL => t.up[t.kid[r][q]] = q)
      BY DEF WellLinked, KidsFit
    <3>3. t.kid[r][q] # m
      <4> SUFFICES ASSUME t.kid[r][q] = m PROVE FALSE
        OBVIOUS
      <4>1. q = n /\ r = s
        BY <3>2, <1>2, <2>4, <1>7
      <4> QED
        BY <4>1, <1>1, <1>2, <1>7 DEF WellLinked, KidsFit, Sides, Other
    <3>4. t.kid[r][q] # n
      BY <3>2, <2>4, <1>1, <1>3
    <3>5. b # RBNULL => t.kid[r][q] # b
      <4> SUFFICES ASSUME b # RBNULL, t.kid[r][q] = b PROVE FALSE
        OBVIOUS
      <4>1. q = m /\ r = Other(s)
        BY <3>2, <1>2, <2>4, <1>7
      <4> QED
        BY <4>1, <1>1, <1>2, <1>7 DEF WellLinked, KidsFit, Sides, Other
    <3> QED
      BY <3>1, <3>2, <3>3, <3>4, <3>5, <1>3, <1>4
  <2> QED
    BY <2>1, <2>2, <2>3, <2>4
<1>9. \A q \in L : t2.kid["left"][q] = t2.kid["right"][q] => t2.kid["left"][q] = RBNULL
  <2> SUFFICES ASSUME NEW q \in L, t2.kid[s][q] = t2.kid[Other(s)][q]
               PROVE  t2.kid[s][q] = RBNULL
    BY DEF Sides, Other
  <2>1. t.kid[s][q] = t.kid[Other(s)][q] => t.kid[s][q] = RBNULL
    BY DEF WellLinked, KidsFit, Sides, Other
  <2>2. b # RBNULL => t.kid[s][n] # b
    BY <1>2 DEF WellLinked, KidsFit
  <2>3. t.kid[Other(s)][m] # n
    BY <1>1, <1>2, <1>3, <1>7 DEF WellLinked, KidsFit
  <2>4. p # RBNULL /\ t.kid[s][p] = n => t.kid[Other(s)][p] # m
    BY <1>2, <1>7
  <2>5. CASE q = n
    BY <2>5, <2>2, <1>2, <1>3, <1>4, <1>7
  <2>6. CASE q = m
    <3>1. t2.kid[s][q] = n /\ t2.kid[Other(s)][q] = t.kid[Other(s)][m]
      BY <2>6, <1>2, <1>3, <1>4, <1>7
    <3> QED
      BY <3>1, <2>3
  <2>7. CASE p # RBNULL /\ q = p
    <3>1. t.kid[s][p] # m /\ t.kid[Other(s)][p] # m
      BY <2>7, <1>2, <1>7
    <3>2. n # t.root
      BY <2>7, <1>5
    <3>3. \E r \in Sides : t.kid[r][p] = n /\ t.kid[Other(r)][p] # n
      BY <3>2, <1>1, Parent
    <3> QED
      BY <2>7, <3>1, <3>3, <2>1, <1>2, <1>3, <1>4, <1>7
  <2>8. CASE q # n /\ q # m /\ ~(p # RBNULL /\ q = p)
    BY <2>8, <2>1, <1>3, <1>4, <1>7
  <2> QED
    BY <2>5, <2>6, <2>7, <2>8
<1>10. UpsFit(t2, L)
  <2> SUFFICES ASSUME NEW q \in L, q # t2.root
               PROVE  t2.up[q] \in L /\ \E r \in Sides : t2.kid[r][t2.up[q]] = q
    BY DEF UpsFit
  <2>1. CASE q = n
    BY <2>1, <1>2, <1>3, <1>4, <1>7
  <2>2. CASE q = m
    <3>1. p # RBNULL /\ n # t.root /\ p \in L
      BY <2>2, <1>2, <1>4, <1>5
    <3>2. PICK r \in Sides : t.kid[r][p] = n
      BY <3>1, <1>1, Parent
    <3>3. t2.kid[r][p] = m
      BY <3>1, <3>2, <1>2, <1>3, <1>4
    <3> QED
      BY <2>2, <3>1, <3>3, <1>2, <1>3, <1>4
  <2>3. CASE b # RBNULL /\ q = b
    BY <2>3, <1>2, <1>3, <1>4, <1>7
  <2>4. CASE q # n /\ q # m /\ ~(b # RBNULL /\ q = b)
    <3>1. q # t.root
      BY <2>4, <1>4, <1>5
    <3>2. t2.up[q] = t.up[q]
      BY <2>4, <1>3, <1>4
    <3>3. PICK r \in Sides : t.up[q] \in L /\ t.kid[r][t.up[q]] = q
      BY <3>1 DEF WellLinked, UpsFit
    <3>4. ~(t.up[q] = n /\ r = Other(s)) /\ ~(t.up[q] = m /\ r = s)
          /\ ~(p # RBNULL /\ t.up[q] = p /\ t.kid[r][p] = n)
      BY <2>4, <3>3, <1>1, <1>3
    <3>5. t2.kid[r][t.up[q]] = q
      BY <3>3, <3>4, <1>3, <1>4
    <3> QED
      BY <3>2, <3>3, <3>5
  <2> QED
    BY <2>1, <2>2, <2>3, <2>4
<1>11. Top(t2, L)
  <2> SUFFICES ASSUME NEW S \in SUBSET L, \A q \in S : t2.up[q] \in S, S # {}
               PROVE  FALSE
    BY DEF Top
  <2> DEFINE T == IF n \in S \/ m \in S THEN S \union {n, m} ELSE S
  <2>1. T \in SUBSET L /\ T # {}
    BY <1>2
  <2>2. n \in T <=> m \in T
    BY <1>2
  <2>3. ASSUME NEW q \in T
        PROVE  t.up[q] \in T
    <3>1. CASE q = m
      BY <3>1, <1>2, <2>2, <2>3
    <3>2. CASE q = n
      <4>1. m \in S \/ n \in S
        BY <3>2, <2>3
      <4>2. m \in S
        BY <4>1, <1>2, <1>3, <1>4
      <4>3. p \in S
        BY <4>2, <1>2, <1>3, <1>4
      <4> QED
        BY <4>3, <3>2, <1>1
    <3>3. CASE b # RBNULL /\ q = b
      <4>1. q \in S
        BY <3>3, <1>2, <2>3
      <4>2. n \in S
        BY <4>1, <3>3, <1>2, <1>3, <1>4
      <4> QED
        BY <4>2, <3>3, <1>2
    <3>4. CASE q # n /\ q # m /\ ~(b # RBNULL /\ q = b)
      <4>1. q \in S
        BY <3>4, <2>3
      <4>2. t2.up[q] = t.up[q]
        BY <4>1, <3>4, <1>3, <1>4
      <4> QED
        BY <4>1, <4>2
    <3> QED
      BY <3>1, <3>2, <3>3, <3>4
  <2> HIDE DEF T
  <2> QED
    BY <2>1, <2>3 DEF WellLinked, Top
<1>12. Bottom(t2, L)
  <2> SUFFICES ASSUME NEW S \in SUBSET L, \A q \in S : \E r \in Sides : t2.kid[r][q] \in S, S # {}
               PROVE  FALSE
    BY DEF Bottom
  <2>1. /\ t2.kid[Other(s)][n] = b /\ t2.kid[s][n] = t.kid[s][n]
        /\ t2.kid[s][m] = n /\ t2.kid[Other(s)][m] = t.kid[Other(s)][m]
        /\ t.kid[s][m] = b /\ t.kid[Other(s)][n] = m
    BY <1>1, <1>2, <1>3, <1>4, <1>7
  <2>2. ASSUME NEW q \in S, q # n, q # m
        PROVE  \E r \in Sides : \/ t.kid[r][q] \in S /\ t.kid[r][q] # m
                                \/ m \in S /\ t.kid[r][q] = n
    <3>1. PICK r \in Sides : t2.kid[r][q] \in S
      OBVIOUS
    <3>2. CASE p # RBNULL /\ q = p /\ t.kid[r][p] = n
      BY <3>1, <3>2, <2>2, <1>3, <1>4
    <3>3. CASE ~(p # RBNULL /\ q = p /\ t.kid[r][p] = n)
      <4>1. t2.kid[r][q] = t.kid[r][q]
        BY <3>3, <2>2, <1>3, <1>4
      <4>2. t.kid[r][q] # m
        BY <2>2, <1>2, <1>3 DEF WellLinked, KidsFit
      <4> QED
        BY <3>1, <4>1, <4>2
    <3> QED
      BY <3>2, <3>3
  <2>3. CASE n \notin S /\ m \notin S
    <3>1. \A q \in S : \E r \in Sides : t.kid[r][q] \in S
      BY <2>2, <2>3
    <3> QED
      BY <3>1 DEF WellLinked, Bottom
  <2>4. CASE (n \in S \/ m \in S) /\ (b \in S \/ t.kid[Other(s)][m] \in S)
    <3> DEFINE T == S \union {n, m}
    <3>1. T \in SUBSET L /\ T # {}
      BY <1>2
    <3>2. ASSUME NEW q \in T PROVE \E r \in Sides : t.kid[r][q] \in T
      <4>1. CASE q = n
        BY <4>1, <2>1, <1>7
      <4>2. CASE q = m
        BY <4>2, <2>1, <2>4, <1>7
      <4>3. CASE q # n /\ q # m
        BY <4>3, <2>2
      <4> QED
        BY <4>1, <4>2, <4>3
    <3> HIDE DEF T
    <3> QED
      BY <3>1, <3>2 DEF WellLinked, Bottom
  <2>5. CASE (n \in S \/ m \in S) /\ ~(b \in S \/ t.kid[Other(s)][m] \in S)
    <3>1. n \in S
      BY <2>5, <2>1, <1>7
    <3>2. t.kid[s][n] \in S
      BY <3>1, <2>5, <2>1, <1>7
    <3>3. t.kid[s][n] # m
      <4>1. t.kid["left"][n] = t.kid["right"][n] => t.kid["left"][n] = RBNULL
        BY DEF WellLinked, KidsFit
      <4>2. t.kid[s][n] = t.kid[Other(s)][n] => t.kid[s][n] = RBNULL
        BY <4>1 DEF Sides, Other
      <4> QED
        BY <4>2, <1>1, <1>2
    <3> DEFINE T == S \ {m}
    <3>4. T \in SUBSET L /\ T # {}
      BY <3>2, <3>3
    <3>5. ASSUME NEW q \in T PROVE \E r \in Sides : t.kid[r][q] \in T
      <4>1. CASE q = n
        BY <4>1, <3>2, <3>3
      <4>2. CASE q # n
        BY <4>2, <3>1, <3>5, <2>2, <1>2
      <4> QED
        BY <4>1, <4>2
    <3> HIDE DEF T
    <3> QED
      BY <3>4, <3>5 DEF WellLinked, Bottom
  <2> QED
    BY <2>3, <2>4, <2>5
<1> QED
  BY <1>1, <1>3, <1>4, <1>6, <1>8, <1>9, <1>10, <1>11, <1>12 DEF WellLinked, KidsFit

-----------------------------------------------------------------------------
(* What is under a node. *)

\* S holds the children of its nodes.
KidClosed(t, S) == \A q \in S, r \in Sides : t.kid[r][q] # RBNULL => t.kid[r][q] \in S
\* The subtree of n: the least set with n in it and the children of its nodes.
Under(t, L, n) == {m \in L : n \in L /\ \A S \in SUBSET L : n \in S /\ KidClosed(t, S) => m \in S}

\* What Under is: the least closed set.
LEMMA UnderLeast ==
    ASSUME NEW t, NEW L, NEW n, NEW S \in SUBSET L, n \in S, KidClosed(t, S)
    PROVE  Under(t, L, n) \subseteq S
BY DEF Under

\* Under holds nodes of the tree, n too.
LEMMA UnderSet ==
    ASSUME NEW t, NEW L, NEW n
    PROVE  /\ Under(t, L, n) \in SUBSET L
           /\ n \notin L => Under(t, L, n) = {}
           /\ n \in L => n \in Under(t, L, n)
BY DEF Under

\* Under is closed itself.
LEMMA UnderClosed ==
    ASSUME NEW t, NEW L, WellLinked(t, L), NEW n
    PROVE  KidClosed(t, Under(t, L, n))
<1> SUFFICES ASSUME NEW q \in Under(t, L, n), NEW r \in Sides, t.kid[r][q] # RBNULL
             PROVE  t.kid[r][q] \in Under(t, L, n)
  BY DEF KidClosed
<1>1. q \in L /\ n \in L /\ \A S \in SUBSET L : n \in S /\ KidClosed(t, S) => q \in S
  BY DEF Under
<1>2. t.kid[r][q] \in L
  BY <1>1 DEF WellLinked, KidsFit
<1>3. ASSUME NEW S \in SUBSET L, n \in S, KidClosed(t, S)
      PROVE  t.kid[r][q] \in S
  <2>1. q \in S
    BY <1>1, <1>3
  <2> QED
    BY <2>1, <1>3 DEF KidClosed
<1> QED
  BY <1>1, <1>2, <1>3 DEF Under

\* What is under a node under n is under n.
LEMMA UnderTrans ==
    ASSUME NEW t, NEW L, WellLinked(t, L), NEW n, NEW m \in Under(t, L, n)
    PROVE  Under(t, L, m) \subseteq Under(t, L, n)
<1>1. Under(t, L, n) \in SUBSET L
  BY UnderSet
<1> QED
  BY <1>1, UnderClosed, UnderLeast

\* What is under a child of n is under n.
LEMMA UnderKid ==
    ASSUME NEW t, NEW L, WellLinked(t, L), NEW n \in L, NEW s \in Sides
    PROVE  Under(t, L, t.kid[s][n]) \subseteq Under(t, L, n)
<1>1. n \in Under(t, L, n)
  BY UnderSet
<1>2. CASE t.kid[s][n] = RBNULL
  <2>1. RBNULL \notin L
    BY NodesDistinct DEF WellLinked
  <2> QED
    BY <1>2, <2>1, UnderSet
<1>3. CASE t.kid[s][n] # RBNULL
  <2>1. t.kid[s][n] \in Under(t, L, n)
    BY <1>1, <1>3, UnderClosed DEF KidClosed
  <2> QED
    BY <2>1, UnderTrans
<1> QED
  BY <1>2, <1>3

\* What is under a node is the node and what is under its children.
LEMMA UnderSplit ==
    ASSUME NEW t, NEW L, WellLinked(t, L), NEW n \in L, NEW s \in Sides
    PROVE  Under(t, L, n) = {n} \union Under(t, L, t.kid[s][n])
                                \union Under(t, L, t.kid[Other(s)][n])
<1> DEFINE A == Under(t, L, t.kid[s][n])
           B == Under(t, L, t.kid[Other(s)][n])
           S == {n} \union A \union B
<1>1. Other(s) \in Sides /\ Sides = {s, Other(s)}
  BY SidesAre
<1>2. S \subseteq Under(t, L, n)
  BY <1>1, UnderKid, UnderSet
<1>3. A \subseteq L /\ B \subseteq L
  BY UnderSet
<1>4. KidClosed(t, A) /\ KidClosed(t, B)
  BY UnderClosed
<1>5. /\ t.kid[s][n] # RBNULL => t.kid[s][n] \in A
      /\ t.kid[Other(s)][n] # RBNULL => t.kid[Other(s)][n] \in B
  <2>1. ASSUME NEW r \in Sides, t.kid[r][n] # RBNULL PROVE t.kid[r][n] \in Under(t, L, t.kid[r][n])
    <3>1. t.kid[r][n] \in L
      BY <2>1 DEF WellLinked, KidsFit
    <3> QED
      BY <3>1, UnderSet
  <2> QED
    BY <2>1, <1>1
<1> HIDE DEF A, B
<1>6. KidClosed(t, S)
  BY <1>1, <1>4, <1>5 DEF KidClosed
<1>7. Under(t, L, n) \subseteq S
  BY <1>3, <1>6, UnderLeast
<1> QED
  BY <1>2, <1>7 DEF A, B

\* The parent of a node under n, but for n, is under n.
LEMMA UnderParent ==
    ASSUME NEW t, NEW L, WellLinked(t, L), NEW n, NEW m \in Under(t, L, n), m # n
    PROVE  t.up[m] \in Under(t, L, n)
<1> SUFFICES ASSUME t.up[m] \notin Under(t, L, n) PROVE FALSE
  OBVIOUS
<1> DEFINE U == Under(t, L, n)
           S == U \ {m}
<1>1. U \subseteq L /\ n \in L /\ n \in U /\ m \in U
  BY UnderSet DEF Under
<1>2. KidClosed(t, U)
  BY UnderClosed
<1> HIDE DEF U
<1>3. ASSUME NEW q \in S, NEW r \in Sides, t.kid[r][q] # RBNULL PROVE t.kid[r][q] \in S
  <2>1. t.kid[r][q] \in U
    BY <1>2, <1>3 DEF KidClosed
  <2>2. t.up[t.kid[r][q]] = q
    BY <1>1, <1>3 DEF WellLinked, KidsFit
  <2>3. t.kid[r][q] # m
    BY <2>2 DEF U
  <2> QED
    BY <2>1, <2>3
<1>4. KidClosed(t, S) /\ n \in S /\ S \in SUBSET L
  BY <1>1, <1>3 DEF KidClosed
<1>5. U \subseteq S
  BY <1>4, UnderLeast DEF U
<1> QED
  BY <1>1, <1>5

\* No node is under its own child.
LEMMA NotUnderKid ==
    ASSUME NEW t, NEW L, WellLinked(t, L), NEW n \in L, NEW s \in Sides
    PROVE  n \notin Under(t, L, t.kid[s][n])
<1> SUFFICES ASSUME n \in Under(t, L, t.kid[s][n]) PROVE FALSE
  OBVIOUS
<1> DEFINE c == t.kid[s][n]
           U == Under(t, L, c)
<1>1. c \in L /\ U \in SUBSET L
  BY UnderSet DEF Under
<1>2. t.up[c] = n
  BY <1>1, NodesDistinct DEF WellLinked, KidsFit
<1>3. \A q \in U : t.up[q] \in U
  <2> TAKE q \in U
  <2>1. CASE q = c
    BY <2>1, <1>2
  <2>2. CASE q # c
    BY <2>2, UnderParent
  <2> QED
    BY <2>1, <2>2
<1> HIDE DEF U
<1>4. U # {}
  BY DEF U
<1> QED
  BY <1>1, <1>3, <1>4 DEF WellLinked, Top

\* No node is under both children.
LEMMA KidsApart ==
    ASSUME NEW t, NEW L, WellLinked(t, L), NEW n \in L, NEW s \in Sides
    PROVE  Under(t, L, t.kid[s][n]) \intersect Under(t, L, t.kid[Other(s)][n]) = {}
<1> DEFINE c == t.kid[s][n]
           d == t.kid[Other(s)][n]
           S == Under(t, L, c) \intersect Under(t, L, d)
<1> SUFFICES ASSUME S # {} PROVE FALSE
  OBVIOUS
<1>1. c \in L /\ d \in L /\ S \in SUBSET L
  BY UnderSet DEF Under
<1>2. Other(s) \in Sides
  BY SidesAre
<1>3. t.up[c] = n /\ t.up[d] = n /\ c # RBNULL /\ d # RBNULL
  BY <1>1, <1>2, NodesDistinct DEF WellLinked, KidsFit
<1>4. c # d
  <2>1. t.kid["left"][n] = t.kid["right"][n] => t.kid["left"][n] = RBNULL
    BY DEF WellLinked, KidsFit
  <2> QED
    BY <2>1, <1>3 DEF Sides, Other
<1>5. n \notin Under(t, L, c) /\ n \notin Under(t, L, d)
  BY <1>2, NotUnderKid
<1>6. \A q \in S : t.up[q] \in S
  <2> TAKE q \in S
  <2>1. CASE q = c
    <3>1. t.up[q] \in Under(t, L, d)
      BY <2>1, <1>4, UnderParent
    <3> QED
      BY <3>1, <2>1, <1>3, <1>5
  <2>2. CASE q = d
    <3>1. t.up[q] \in Under(t, L, c)
      BY <2>2, <1>4, UnderParent
    <3> QED
      BY <3>1, <2>2, <1>3, <1>5
  <2>3. CASE q # c /\ q # d
    BY <2>3, UnderParent
  <2> QED
    BY <2>1, <2>2, <2>3
<1> HIDE DEF S
<1> QED
  BY <1>1, <1>6 DEF WellLinked, Top

\* The root is the sentinel when the tree is empty.
LEMMA RootEmpty ==
    ASSUME NEW t, NEW L, WellLinked(t, L)
    PROVE  t.root = RBNULL <=> L = {}
<1>1. RBNULL \notin L
  BY NodesDistinct DEF WellLinked
<1>2. ASSUME L # {} PROVE t.root \in L
  <2>1. PICK n \in L : t.up[n] \notin L
    BY <1>2 DEF WellLinked, Top
  <2> QED
    BY <2>1 DEF WellLinked, UpsFit
<1> QED
  BY <1>1, <1>2 DEF WellLinked, RootFits

\* The whole tree is under its root.
LEMMA UnderRoot ==
    ASSUME NEW t, NEW L, WellLinked(t, L)
    PROVE  Under(t, L, t.root) = L
<1> DEFINE U == Under(t, L, t.root)
           S == L \ U
<1>1. U \subseteq L
  BY UnderSet
<1> SUFFICES ASSUME S # {} PROVE FALSE
  BY <1>1
<1>2. t.root \in U
  BY RootEmpty, UnderSet DEF WellLinked, RootFits
<1>3. KidClosed(t, U)
  BY UnderClosed
<1> HIDE DEF U
<1>4. PICK q \in S : t.up[q] \notin S
  BY DEF WellLinked, Top
<1>5. q # t.root
  BY <1>2
<1>6. PICK s \in Sides : t.up[q] \in L /\ t.kid[s][t.up[q]] = q
  BY <1>5 DEF WellLinked, UpsFit
<1>7. t.up[q] \in U /\ q # RBNULL
  BY <1>4, <1>6, NodesDistinct DEF WellLinked
<1> QED
  BY <1>3, <1>6, <1>7 DEF KidClosed

-----------------------------------------------------------------------------
(* The order of the keys. *)

\* j is on side s of k.
Beyond(s, j, k) == IF s = "left" THEN j < k ELSE j > k

\* Nodes of the tree have keys, and those under a child are on its side of the key of the node.
Keyed(t, L) == \A n \in L : t.key[n] \in Keys
Ordered(t, L) ==
    \A n \in L, s \in Sides : \A m \in Under(t, L, t.kid[s][n]) : Beyond(s, t.key[m], t.key[n])

\* The order of the keys.
LEMMA BeyondLaws ==
    ASSUME NEW s \in Sides, NEW i \in Keys, NEW j \in Keys, NEW k \in Keys
    PROVE  /\ Beyond(s, i, j) /\ Beyond(s, j, k) => Beyond(s, i, k)
           /\ Beyond(s, i, j) <=> Beyond(Other(s), j, i)
           /\ ~(Beyond(s, i, j) /\ Beyond(Other(s), i, j))
           /\ ~Beyond(s, i, i)
           /\ i # j => Beyond(s, i, j) \/ Beyond(Other(s), i, j)
BY KeysAreIntegers DEF Beyond, Sides, Other

\* Under the same links are the same nodes.
LEMMA UnderSame ==
    ASSUME NEW t, NEW t2, NEW L, NEW n, t2.kid = t.kid
    PROVE  Under(t2, L, n) = Under(t, L, n)
BY DEF Under, KidClosed

\* A heap with the same links is the same tree.
LEMMA SameLinks ==
    ASSUME NEW t, NEW t2, NEW L, WellLinked(t, L), t2 \in Heaps,
           t2.root = t.root, t2.kid = t.kid, \A n \in L : t2.up[n] = t.up[n]
    PROVE  WellLinked(t2, L)
<1>1. RootFits(t2, L)
  BY DEF WellLinked, RootFits
<1>2. KidsFit(t2, L)
  <2>1. ASSUME NEW n \in L, NEW s \in Sides
        PROVE  /\ t2.kid[s][n] \in L \union {RBNULL}
               /\ t2.kid[s][n] # RBNULL => t2.up[t2.kid[s][n]] = n
    BY DEF WellLinked, KidsFit
  <2> QED
    BY <2>1 DEF WellLinked, KidsFit
<1>3. UpsFit(t2, L)
  BY DEF WellLinked, UpsFit
<1>4. Bottom(t2, L)
  BY DEF WellLinked, Bottom
<1>5. Top(t2, L)
  <2> SUFFICES ASSUME NEW S \in SUBSET L, S # {} PROVE \E n \in S : t2.up[n] \notin S
    BY DEF Top
  <2> QED
    BY DEF WellLinked, Top
<1> QED
  BY <1>1, <1>2, <1>3, <1>4, <1>5 DEF WellLinked

\* With the same keys it has the same order.
LEMMA SameOrder ==
    ASSUME NEW t, NEW t2, NEW L, Ordered(t, L), t2.kid = t.kid, t2.key = t.key
    PROVE  Ordered(t2, L)
BY UnderSame DEF Ordered

\* What is under the nodes after a rotation.
LEMMA RotateUnder ==
    ASSUME NEW t, NEW L, WellLinked(t, L), NEW n \in L, NEW s \in Sides,
           NEW m, NEW t2, m = t.kid[Other(s)][n], m # RBNULL, t2 = Rotate(t, n, s)
    PROVE  /\ \A q : q # n /\ q # m => Under(t2, L, q) = Under(t, L, q)
           /\ Under(t2, L, m) = Under(t, L, n)
           /\ Under(t2, L, n) = {n} \union Under(t, L, t.kid[s][n]) \union Under(t, L, t.kid[s][m])
<1>1. PICK b, p : b = t.kid[s][m] /\ p = t.up[n]
  OBVIOUS
<1>2. /\ Rotated(t, t2, n, m, b, p, s)
      /\ m \in L /\ b \in L \union {RBNULL} /\ p \in L \union {RBNULL}
      /\ n # m /\ b # n /\ b # m /\ p # n /\ p # m /\ (b # RBNULL => b # p)
      /\ t.up[m] = n /\ (b # RBNULL => t.up[b] = m)
      /\ n # RBNULL /\ m # RBNULL
  BY <1>1, RotateFacts
<1>3. /\ L \subseteq Nodes /\ L \subseteq Pointers /\ RBNULL \notin L /\ t \in Heaps
  BY NodesDistinct DEF WellLinked, Pointers
<1>4. /\ \A r \in Sides, q \in Pointers :
            t2.kid[r][q] = IF q = n /\ r = Other(s) THEN b
                           ELSE IF q = m /\ r = s THEN n
                           ELSE IF p # RBNULL /\ q = p /\ t.kid[r][p] = n THEN m
                           ELSE t.kid[r][q]
      /\ \A q \in Pointers :
            t2.up[q] = IF q = n THEN m ELSE IF q = m THEN p
                       ELSE IF b # RBNULL /\ q = b THEN n ELSE t.up[q]
  BY <1>2 DEF Rotated
<1>5. WellLinked(t2, L)
  BY RotateLinks
<1>6. s \in Sides /\ Other(s) \in Sides /\ Other(s) # s /\ Sides = {s, Other(s)}
  BY SidesAre
<1>7. ASSUME NEW q \in L, q # n, q # m
      PROVE  Under(t2, L, q) \subseteq Under(t, L, q)
  <2> DEFINE U == Under(t, L, q)
  <2>1. U \in SUBSET L /\ q \in U
    BY <1>7, UnderSet
  <2>2. KidClosed(t, U)
    BY UnderClosed
  <2>3. m \in U => n \in U
    BY <1>2, <1>7, UnderParent
  <2> HIDE DEF U
  <2>4. n \in U => m \in U
    BY <2>2, <1>2, <1>6 DEF KidClosed
  <2>5. m \in U => (b # RBNULL => b \in U)
    BY <2>2, <1>1, <1>6 DEF KidClosed
  <2>6. ASSUME NEW k \in U, NEW r \in Sides, t2.kid[r][k] # RBNULL PROVE t2.kid[r][k] \in U
    <3>1. t.kid[r][k] # RBNULL => t.kid[r][k] \in U
      BY <2>2 DEF KidClosed
    <3> QED
      BY <3>1, <2>1, <2>3, <2>4, <2>5, <2>6, <1>2, <1>3, <1>4
  <2>7. KidClosed(t2, U)
    BY <2>6 DEF KidClosed
  <2>8. Under(t2, L, q) \subseteq U
    BY <2>1, <2>7, UnderLeast
  <2> QED
    BY <2>8 DEF U
<1>8. ASSUME NEW q \in L, q # n, q # m
      PROVE  Under(t, L, q) \subseteq Under(t2, L, q)
  <2> DEFINE U == Under(t2, L, q)
  <2>1. U \in SUBSET L /\ q \in U
    BY <1>8, UnderSet
  <2>2. KidClosed(t2, U)
    BY <1>5, UnderClosed
  <2>3. n \in U => m \in U
    <3>1. t2.up[n] = m
      BY <1>3, <1>4
    <3> QED
      BY <3>1, <1>5, <1>8, UnderParent
  <2> HIDE DEF U
  <2>4. m \in U => n \in U
    <3>1. t2.kid[s][m] = n
      BY <1>2, <1>3, <1>4, <1>6
    <3> QED
      BY <3>1, <2>2, <1>2, <1>6 DEF KidClosed
  <2>5. n \in U => (b # RBNULL => b \in U)
    <3>1. t2.kid[Other(s)][n] = b
      BY <1>2, <1>3, <1>4, <1>6
    <3> QED
      BY <3>1, <2>2, <1>6 DEF KidClosed
  <2>6. ASSUME NEW k \in U, NEW r \in Sides, t.kid[r][k] # RBNULL PROVE t.kid[r][k] \in U
    <3>1. t2.kid[r][k] # RBNULL => t2.kid[r][k] \in U
      BY <2>2 DEF KidClosed
    <3>2. CASE k = n /\ r = Other(s)
      BY <3>2, <2>3
    <3>3. CASE k = m /\ r = s
      BY <3>3, <2>3, <2>4, <2>5, <2>6, <1>1
    <3>4. CASE p # RBNULL /\ k = p /\ t.kid[r][p] = n
      <4>1. t2.kid[r][k] = m
        BY <3>4, <1>2, <1>3, <1>4, <2>1
      <4> QED
        BY <4>1, <3>1, <3>4, <2>4, <1>2
    <3>5. CASE ~(k = n /\ r = Other(s)) /\ ~(k = m /\ r = s)
             /\ ~(p # RBNULL /\ k = p /\ t.kid[r][p] = n)
      BY <3>1, <3>5, <2>1, <2>6, <1>3, <1>4
    <3> QED
      BY <3>2, <3>3, <3>4, <3>5
  <2>7. KidClosed(t, U)
    BY <2>6 DEF KidClosed
  <2>8. Under(t, L, q) \subseteq U
    BY <2>1, <2>7, UnderLeast
  <2> QED
    BY <2>8 DEF U
<1>9. ASSUME NEW q, q # n, q # m PROVE Under(t2, L, q) = Under(t, L, q)
  <2>1. CASE q \in L
    BY <2>1, <1>7, <1>8, <1>9
  <2>2. CASE q \notin L
    BY <2>2, UnderSet
  <2> QED
    BY <2>1, <2>2
<1>10. /\ t2.kid[Other(s)][n] = b /\ t2.kid[s][n] = t.kid[s][n]
       /\ t2.kid[s][m] = n /\ t2.kid[Other(s)][m] = t.kid[Other(s)][m]
  BY <1>2, <1>3, <1>4, <1>6
<1>11. /\ t.kid[s][n] # n /\ t.kid[s][n] # m
       /\ t.kid[Other(s)][m] # n /\ t.kid[Other(s)][m] # m
  <2>1. t.kid["left"][n] = t.kid["right"][n] => t.kid["left"][n] = RBNULL
    BY DEF WellLinked, KidsFit
  <2>2. t.kid[s][n] # m
    BY <2>1, <1>2 DEF Sides, Other
  <2>3. t.kid[s][n] # n
    BY <1>2, Apart
  <2>4. t.kid[Other(s)][m] # n /\ t.kid[Other(s)][m] # m
    BY <1>2, <1>6, Apart
  <2> QED
    BY <2>2, <2>3, <2>4
<1>12. Under(t2, L, n) = {n} \union Under(t, L, t.kid[s][n]) \union Under(t, L, b)
  <2>1. Under(t2, L, n) = {n} \union Under(t2, L, t2.kid[s][n])
                              \union Under(t2, L, t2.kid[Other(s)][n])
    BY <1>5, UnderSplit
  <2>2. Under(t2, L, b) = Under(t, L, b)
    BY <1>2, <1>9
  <2>3. Under(t2, L, t.kid[s][n]) = Under(t, L, t.kid[s][n])
    BY <1>11, <1>9
  <2> QED
    BY <2>1, <2>2, <2>3, <1>10
<1>13. Under(t2, L, m) = Under(t, L, n)
  <2>1. Under(t2, L, m) = {m} \union Under(t2, L, n) \union Under(t2, L, t.kid[Other(s)][m])
    BY <1>2, <1>5, <1>10, UnderSplit
  <2>2. Under(t2, L, t.kid[Other(s)][m]) = Under(t, L, t.kid[Other(s)][m])
    BY <1>11, <1>9
  <2>3. Under(t, L, n) = {n} \union Under(t, L, t.kid[s][n]) \union Under(t, L, m)
    BY UnderSplit
  <2>4. Under(t, L, m) = {m} \union Under(t, L, b) \union Under(t, L, t.kid[Other(s)][m])
    BY <1>1, <1>2, UnderSplit
  <2> QED
    BY <2>1, <2>2, <2>3, <2>4, <1>12
<1> QED
  BY <1>1, <1>9, <1>12, <1>13

\* A rotation keeps the keys in order.
LEMMA RotateOrder ==
    ASSUME NEW t, NEW L, WellLinked(t, L), Keyed(t, L), Ordered(t, L),
           NEW n \in L, NEW s \in Sides, t.kid[Other(s)][n] # RBNULL
    PROVE  Ordered(Rotate(t, n, s), L)
<1>1. PICK m, b, p, t2 : /\ m = t.kid[Other(s)][n] /\ b = t.kid[s][m] /\ p = t.up[n]
                         /\ t2 = Rotate(t, n, s)
  OBVIOUS
<1>2. /\ Rotated(t, t2, n, m, b, p, s)
      /\ m \in L /\ b \in L \union {RBNULL} /\ p \in L \union {RBNULL}
      /\ n # m /\ b # n /\ b # m /\ p # n /\ p # m /\ (b # RBNULL => b # p)
      /\ t.up[m] = n /\ n # RBNULL /\ m # RBNULL
  BY <1>1, RotateFacts
<1>3. /\ L \subseteq Pointers /\ RBNULL \notin L
  BY NodesDistinct DEF WellLinked, Pointers
<1>4. /\ \A r \in Sides, q \in Pointers :
            t2.kid[r][q] = IF q = n /\ r = Other(s) THEN b
                           ELSE IF q = m /\ r = s THEN n
                           ELSE IF p # RBNULL /\ q = p /\ t.kid[r][p] = n THEN m
                           ELSE t.kid[r][q]
      /\ t2.key = t.key
  BY <1>2 DEF Rotated
<1>5. /\ \A q : q # n /\ q # m => Under(t2, L, q) = Under(t, L, q)
      /\ Under(t2, L, m) = Under(t, L, n)
      /\ Under(t2, L, n) = {n} \union Under(t, L, t.kid[s][n]) \union Under(t, L, b)
  BY <1>1, <1>2, RotateUnder
<1>6. s \in Sides /\ Other(s) \in Sides /\ Other(s) # s /\ Sides = {s, Other(s)}
  BY SidesAre
<1>7. \A q \in L : t.key[q] \in Keys
  BY DEF Keyed
<1> SUFFICES ASSUME NEW q \in L, NEW r \in Sides, NEW j \in Under(t2, L, t2.kid[r][q])
             PROVE  Beyond(r, t.key[j], t.key[q])
  BY <1>1, <1>4 DEF Ordered
<1>8. \A a \in L, e \in Sides : \A c \in Under(t, L, t.kid[e][a]) : Beyond(e, t.key[c], t.key[a])
  BY DEF Ordered
<1>9. j \in L
  BY UnderSet
<1>10. CASE q = n /\ r = Other(s)
  <2>1. j \in Under(t, L, b)
    BY <1>10, <1>2, <1>3, <1>4, <1>5
  <2>2. j \in Under(t, L, m)
    BY <2>1, <1>1, <1>2, UnderKid
  <2> QED
    BY <2>2, <1>1, <1>8, <1>10
<1>11. CASE q = m /\ r = s
  <2>1. j \in {n} \union Under(t, L, t.kid[s][n]) \union Under(t, L, b)
    BY <1>11, <1>2, <1>3, <1>4, <1>5
  <2>2. Beyond(s, t.key[n], t.key[m])
    <3>1. m \in Under(t, L, t.kid[Other(s)][n])
      BY <1>1, <1>2, UnderSet
    <3>2. Beyond(Other(s), t.key[m], t.key[n])
      BY <3>1, <1>6, <1>8
    <3> QED
      BY <3>2, <1>2, <1>7, BeyondLaws
  <2>3. CASE j = n
    BY <2>2, <2>3, <1>11
  <2>4. CASE j \in Under(t, L, t.kid[s][n])
    <3>1. Beyond(s, t.key[j], t.key[n])
      BY <2>4, <1>8
    <3> QED
      BY <3>1, <2>2, <1>2, <1>7, <1>9, <1>11, BeyondLaws
  <2>5. CASE j \in Under(t, L, b)
    BY <2>5, <1>1, <1>2, <1>8, <1>11
  <2> QED
    BY <2>1, <2>3, <2>4, <2>5
<1>12. CASE p # RBNULL /\ q = p /\ t.kid[r][p] = n
  <2>1. t2.kid[r][q] = m
    BY <1>12, <1>2, <1>3, <1>4
  <2>2. j \in Under(t, L, t.kid[r][q])
    BY <2>1, <1>5, <1>12
  <2> QED
    BY <2>2, <1>8
<1>13. CASE ~(q = n /\ r = Other(s)) /\ ~(q = m /\ r = s)
             /\ ~(p # RBNULL /\ q = p /\ t.kid[r][p] = n)
  <2>1. t2.kid[r][q] = t.kid[r][q]
    BY <1>13, <1>3, <1>4
  <2>2. t.kid[r][q] # n
    <3> SUFFICES ASSUME t.kid[r][q] = n PROVE FALSE
      OBVIOUS
    <3>1. q = p
      BY <1>1, <1>2 DEF WellLinked, KidsFit
    <3> QED
      BY <3>1, <1>3, <1>13
  <2>3. t.kid[r][q] # m
    <3> SUFFICES ASSUME t.kid[r][q] = m PROVE FALSE
      OBVIOUS
    <3>1. q = n
      BY <1>2 DEF WellLinked, KidsFit
    <3>2. r = s
      BY <3>1, <1>6, <1>13
    <3>3. t.kid["left"][n] = t.kid["right"][n] => t.kid["left"][n] = RBNULL
      BY DEF WellLinked, KidsFit
    <3> QED
      BY <3>1, <3>2, <3>3, <1>1, <1>2 DEF Sides, Other
  <2>4. j \in Under(t, L, t.kid[r][q])
    BY <2>1, <2>2, <2>3, <1>5
  <2> QED
    BY <2>4, <1>8
<1> QED
  BY <1>10, <1>11, <1>12, <1>13

-----------------------------------------------------------------------------
(* A node comes, a node leaves. *)

\* t2 is t with the new node n below p on side s, or as the root.
Attached(t, t2, n, p, k, s) ==
    /\ t2 \in Heaps
    /\ t2.root = (IF p = RBNULL THEN n ELSE t.root)
    /\ \A r \in Sides, q \in Pointers :
          t2.kid[r][q] = IF q = n THEN RBNULL
                         ELSE IF p # RBNULL /\ q = p /\ r = s THEN n ELSE t.kid[r][q]
    /\ \A q \in Pointers : t2.up[q] = IF q = n THEN p ELSE t.up[q]
    /\ t2.red[n] = TRUE /\ \A q \in Pointers : q # n => t2.red[q] = t.red[q]
    /\ \A q \in Nodes : t2.key[q] = IF q = n THEN k ELSE t.key[q]

\* The side of p on which k belongs.
SideOf(t, k, p) == IF k < t.key[p] THEN "left" ELSE "right"

\* t2 is t with the new node n, which points to p but is not linked yet.
NewAt(t, t2, n, p, k) ==
    /\ t2 \in Heaps /\ t2.root = t.root
    /\ \A r \in Sides, q \in Pointers : t2.kid[r][q] = IF q = n THEN RBNULL ELSE t.kid[r][q]
    /\ \A q \in Pointers : t2.up[q] = IF q = n THEN p ELSE t.up[q]
    /\ t2.red[n] = TRUE /\ \A q \in Pointers : q # n => t2.red[q] = t.red[q]
    /\ \A q \in Nodes : t2.key[q] = IF q = n THEN k ELSE t.key[q]

\* What NewNode leaves.
LEMMA NewNodeIs ==
    ASSUME NEW t \in Heaps, NEW n \in Nodes, NEW p \in Pointers, NEW k \in Keys
    PROVE  NewAt(t, NewNode(t, n, p, k), n, p, k)
BY DEF Heaps, NewNode, Sides, Pointers, NewAt

\* What Inserted leaves.
LEMMA InsertedIs ==
    ASSUME NEW t \in Heaps, NEW n \in Nodes, NEW p \in Pointers, NEW k \in Keys, p # n
    PROVE  Attached(t, Inserted(t, n, p, k), n, p, k, SideOf(t, k, p))
<1>1. PICK t1 : t1 = NewNode(t, n, p, k)
  OBVIOUS
<1>2. PICK s : s = SideOf(t, k, p)
  OBVIOUS
<1>3. s \in Sides
  BY <1>2 DEF SideOf, Sides
<1>4. NewAt(t, t1, n, p, k)
  BY <1>1, NewNodeIs
<1>5. n \in Pointers /\ t1 \in Heaps
  BY <1>4 DEF Pointers, NewAt
<1>6. PICK t2 : t2 = Inserted(t, n, p, k)
  OBVIOUS
<1>7. CASE p = RBNULL
  <2>1. t2 = [t1 EXCEPT !.root = n]
    BY <1>1, <1>6, <1>7 DEF Inserted
  <2>2. RootSet(t1, t2, n)
    BY <2>1, <1>5, SetRoot
  <2>3. Attached(t, t2, n, p, k, s)
    BY <2>2, <1>4, <1>7 DEF RootSet, Attached, NewAt
  <2> QED
    BY <2>3, <1>2, <1>6
<1>8. CASE p # RBNULL
  <2>1. t2 = WithKid(t1, s, p, n)
    BY <1>1, <1>2, <1>6, <1>8 DEF Inserted, WithKid, SideOf
  <2>2. KidSet(t1, t2, s, p, n)
    BY <2>1, <1>3, <1>5, SetKid
  <2>3. Attached(t, t2, n, p, k, s)
    BY <2>2, <1>4, <1>8 DEF KidSet, Attached, NewAt
  <2> QED
    BY <2>3, <1>2, <1>6
<1> QED
  BY <1>7, <1>8

\* What both lemmas on a new node say of its place: p is the node above it.
Vacant(t, L, p, s) ==
    \/ p = RBNULL /\ L = {}
    \/ p \in L /\ s \in Sides /\ t.kid[s][p] = RBNULL

\* A new leaf makes a tree of the tree.
LEMMA AttachLinks ==
    ASSUME NEW t, NEW L, WellLinked(t, L), NEW n \in Nodes \ L, NEW p, NEW k, NEW s, NEW t2,
           Vacant(t, L, p, s), Attached(t, t2, n, p, k, s)
    PROVE  WellLinked(t2, L \union {n})
<1> DEFINE L2 == L \union {n}
<1>1. /\ L2 \in SUBSET Nodes /\ L2 \subseteq Pointers /\ RBNULL \notin L2 /\ n # RBNULL
      /\ RBNULL \in Pointers /\ p # n /\ n \notin L /\ n \in Pointers
      /\ p \in L \union {RBNULL} /\ (p = RBNULL => L = {})
      /\ p # RBNULL => s \in Sides /\ t.kid[s][p] = RBNULL
  BY NodesDistinct DEF WellLinked, Pointers, Vacant
<1>2. /\ t2 \in Heaps
      /\ t2.root = (IF p = RBNULL THEN n ELSE t.root)
      /\ \A r \in Sides, q \in Pointers :
            t2.kid[r][q] = IF q = n THEN RBNULL
                           ELSE IF p # RBNULL /\ q = p /\ r = s THEN n ELSE t.kid[r][q]
      /\ \A q \in Pointers : t2.up[q] = IF q = n THEN p ELSE t.up[q]
  BY DEF Attached
<1>3. RootFits(t2, L2)
  BY <1>1, <1>2 DEF WellLinked, RootFits
<1>4. ASSUME NEW q \in L2, NEW r \in Sides
      PROVE  /\ t2.kid[r][q] \in L2 \union {RBNULL}
             /\ t2.kid[r][q] # RBNULL => t2.up[t2.kid[r][q]] = q
  <2>1. CASE q = n
    BY <2>1, <1>1, <1>2
  <2>2. CASE q # n /\ p # RBNULL /\ q = p /\ r = s
    BY <2>2, <1>1, <1>2
  <2>3. CASE q # n /\ ~(p # RBNULL /\ q = p /\ r = s)
    <3>1. t2.kid[r][q] = t.kid[r][q]
      BY <2>3, <1>1, <1>2
    <3>2. t.kid[r][q] \in L \union {RBNULL} /\ (t.kid[r][q] # RBNULL => t.up[t.kid[r][q]] = q)
      BY <2>3 DEF WellLinked, KidsFit
    <3> QED
      BY <3>1, <3>2, <1>1, <1>2
  <2> QED
    BY <2>1, <2>2, <2>3
<1>5. ASSUME NEW q \in L2, t2.kid["left"][q] = t2.kid["right"][q]
      PROVE  t2.kid["left"][q] = RBNULL
  <2>1. "left" \in Sides /\ "right" \in Sides /\ "left" # "right"
    BY DEF Sides
  <2>2. q \in L => (t.kid["left"][q] = t.kid["right"][q] => t.kid["left"][q] = RBNULL)
    BY DEF WellLinked, KidsFit
  <2>3. q \in L => t.kid["left"][q] # n /\ t.kid["right"][q] # n
    BY <1>1, <2>1 DEF WellLinked, KidsFit
  <2> QED
    BY <2>1, <2>2, <2>3, <1>1, <1>2, <1>5
<1>6. UpsFit(t2, L2)
  <2> SUFFICES ASSUME NEW q \in L2, q # t2.root
               PROVE  t2.up[q] \in L2 /\ \E r \in Sides : t2.kid[r][t2.up[q]] = q
    BY DEF UpsFit
  <2>1. CASE q = n
    BY <2>1, <1>1, <1>2
  <2>2. CASE q # n
    <3>1. q \in L /\ q # t.root
      BY <2>2, <1>1, <1>2
    <3>2. PICK r \in Sides : t.up[q] \in L /\ t.kid[r][t.up[q]] = q
      BY <3>1 DEF WellLinked, UpsFit
    <3> QED
      BY <3>1, <3>2, <2>2, <1>1, <1>2
  <2> QED
    BY <2>1, <2>2
<1>7. Bottom(t2, L2)
  <2> SUFFICES ASSUME NEW S \in SUBSET L2, S # {}
               PROVE  \E q \in S : \A r \in Sides : t2.kid[r][q] \notin S
    BY DEF Bottom
  <2>1. CASE n \in S
    BY <2>1, <1>1, <1>2
  <2>2. CASE n \notin S
    <3>1. PICK q \in S : \A r \in Sides : t.kid[r][q] \notin S
      BY <2>2 DEF WellLinked, Bottom
    <3> QED
      BY <3>1, <2>2, <1>1, <1>2
  <2> QED
    BY <2>1, <2>2
<1>8. Top(t2, L2)
  <2> SUFFICES ASSUME NEW S \in SUBSET L2, S # {}
               PROVE  \E q \in S : t2.up[q] \notin S
    BY DEF Top
  <2>1. CASE S \ {n} = {}
    BY <2>1, <1>1, <1>2
  <2>2. CASE S \ {n} # {}
    <3>1. S \ {n} \in SUBSET L
      OBVIOUS
    <3>2. PICK q \in S \ {n} : t.up[q] \notin S \ {n}
      BY <3>1, <2>2 DEF WellLinked, Top
    <3>3. t.up[q] # n
      BY <3>1, <3>2, <1>1, Parent
    <3> QED
      BY <3>2, <3>3, <1>1, <1>2
  <2> QED
    BY <2>1, <2>2
<1> QED
  BY <1>1, <1>2, <1>3, <1>4, <1>5, <1>6, <1>7, <1>8 DEF WellLinked, KidsFit

\* The new leaf is under the nodes that have its parent under them, nothing is under it.
LEMMA AttachUnder ==
    ASSUME NEW t, NEW L, WellLinked(t, L), NEW n \in Nodes \ L, NEW p, NEW k, NEW s, NEW t2,
           Vacant(t, L, p, s), Attached(t, t2, n, p, k, s)
    PROVE  /\ Under(t2, L \union {n}, n) = {n}
           /\ \A q \in L : \A m \in Under(t2, L \union {n}, q) :
                 m \in Under(t, L, q) \/ (m = n /\ p \in Under(t, L, q))
<1> DEFINE L2 == L \union {n}
<1>1. /\ L2 \subseteq Pointers /\ RBNULL \notin L2 /\ n \notin L /\ n \in L2 /\ n # RBNULL
      /\ p # RBNULL => s \in Sides /\ t.kid[s][p] = RBNULL /\ p \in L
  BY NodesDistinct DEF WellLinked, Pointers, Vacant
<1>2. \A r \in Sides, q \in Pointers :
            t2.kid[r][q] = IF q = n THEN RBNULL
                           ELSE IF p # RBNULL /\ q = p /\ r = s THEN n ELSE t.kid[r][q]
  BY DEF Attached
<1>3. Under(t2, L2, n) = {n}
  <2>1. KidClosed(t2, {n})
    BY <1>1, <1>2 DEF KidClosed
  <2>2. {n} \in SUBSET L2
    OBVIOUS
  <2> QED
    BY <2>1, <2>2, UnderLeast, UnderSet
<1>4. ASSUME NEW q \in L, NEW m \in Under(t2, L2, q)
      PROVE  m \in Under(t, L, q) \/ (m = n /\ p \in Under(t, L, q))
  <2> DEFINE U == Under(t, L, q)
             S == IF p \in U THEN U \union {n} ELSE U
  <2>1. U \in SUBSET L /\ q \in U
    BY UnderSet
  <2>2. KidClosed(t, U)
    BY UnderClosed
  <2> HIDE DEF U
  <2>3. KidClosed(t2, S)
    BY <2>1, <2>2, <1>1, <1>2 DEF KidClosed
  <2>4. S \in SUBSET L2 /\ q \in S
    BY <2>1
  <2> HIDE DEF S
  <2>5. m \in S
    BY <2>3, <2>4, UnderLeast
  <2> QED
    BY <2>5 DEF S, U
<1> QED
  BY <1>3, <1>4

\* The key of the new node is where the nodes above its place want it.
Belongs(t, L, p, k) ==
    \A q \in L, r \in Sides : p \in Under(t, L, t.kid[r][q]) => Beyond(r, k, t.key[q])

\* Where its key belongs it keeps the order.
LEMMA AttachOrder ==
    ASSUME NEW t, NEW L, WellLinked(t, L), Ordered(t, L), NEW n \in Nodes \ L, NEW p,
           NEW k \in Keys, NEW s, NEW t2,
           Vacant(t, L, p, s), Attached(t, t2, n, p, k, s), Belongs(t, L, p, k),
           p # RBNULL => Beyond(s, k, t.key[p])
    PROVE  Ordered(t2, L \union {n})
<1> DEFINE L2 == L \union {n}
<1>1. /\ L2 \subseteq Pointers /\ L2 \subseteq Nodes /\ RBNULL \notin L2 /\ n \notin L /\ n \in L2
      /\ n # RBNULL
      /\ p # RBNULL => s \in Sides /\ t.kid[s][p] = RBNULL /\ p \in L
  BY NodesDistinct DEF WellLinked, Pointers, Vacant
<1>2. /\ \A r \in Sides, q \in Pointers :
            t2.kid[r][q] = IF q = n THEN RBNULL
                           ELSE IF p # RBNULL /\ q = p /\ r = s THEN n ELSE t.kid[r][q]
      /\ \A q \in Nodes : t2.key[q] = IF q = n THEN k ELSE t.key[q]
  BY DEF Attached
<1>3. /\ Under(t2, L2, n) = {n}
      /\ \A q \in L : \A m \in Under(t2, L2, q) :
            m \in Under(t, L, q) \/ (m = n /\ p \in Under(t, L, q))
  BY AttachUnder
<1> SUFFICES ASSUME NEW q \in L2, NEW r \in Sides, NEW m \in Under(t2, L2, t2.kid[r][q])
             PROVE  Beyond(r, t2.key[m], t2.key[q])
  BY DEF Ordered
<1>4. t2.kid[r][q] \in L2
  BY UnderSet
<1>5. q # n
  BY <1>1, <1>2, <1>4
<1>6. q \in L /\ t2.key[q] = t.key[q]
  BY <1>1, <1>2, <1>5
<1>7. CASE p # RBNULL /\ q = p /\ r = s
  <2>1. m = n
    BY <1>7, <1>1, <1>2, <1>3, <1>5
  <2> QED
    BY <2>1, <1>1, <1>2, <1>6, <1>7
<1>8. CASE ~(p # RBNULL /\ q = p /\ r = s)
  <2>1. t2.kid[r][q] = t.kid[r][q]
    BY <1>8, <1>1, <1>2, <1>5
  <2>2. t.kid[r][q] \in L
    BY <2>1, <1>1, <1>4, <1>6 DEF WellLinked, KidsFit
  <2>3. m \in Under(t, L, t.kid[r][q]) \/ (m = n /\ p \in Under(t, L, t.kid[r][q]))
    BY <2>1, <2>2, <1>3
  <2>4. CASE m \in Under(t, L, t.kid[r][q])
    <3>1. m \in L
      BY <2>4, UnderSet
    <3>2. t2.key[m] = t.key[m]
      BY <3>1, <1>1, <1>2
    <3> QED
      BY <3>2, <2>4, <1>6 DEF Ordered
  <2>5. CASE m = n /\ p \in Under(t, L, t.kid[r][q])
    BY <2>5, <1>1, <1>2, <1>6 DEF Belongs
  <2> QED
    BY <2>3, <2>4, <2>5
<1> QED
  BY <1>7, <1>8

-----------------------------------------------------------------------------
\* t2 is t without v, whose child c takes its place; z gets the key of v.
Unlinked(t, t2, z, v, c, p) ==
    /\ t2 \in Heaps
    /\ t2.root = (IF p = RBNULL THEN c ELSE t.root)
    /\ \A r \in Sides, q \in Pointers :
          t2.kid[r][q] = IF p # RBNULL /\ q = p /\ t.kid[r][p] = v THEN c ELSE t.kid[r][q]
    /\ \A q \in Pointers : t2.up[q] = IF q = c THEN p ELSE t.up[q]
    /\ t2.red = t.red
    /\ \A q \in Nodes : t2.key[q] = IF q = z THEN t.key[v] ELSE t.key[q]

\* v has a child on side s at most, which is c.
OneKid(t, v, c, s) ==
    /\ s \in Sides /\ t.kid[s][v] = c /\ t.kid[Other(s)][v] = RBNULL

\* What Unlink does to every field.
LEMMA UnlinkIs ==
    ASSUME NEW t, NEW L, WellLinked(t, L), Keyed(t, L), NEW v \in L, NEW z \in L,
           \E s \in Sides : t.kid[s][v] = RBNULL
    PROVE  \E s \in Sides, c \in L \union {RBNULL} :
              /\ OneKid(t, v, c, s) /\ Unlink(t, z, v).child = c
              /\ Unlinked(t, Unlink(t, z, v).tree, z, v, c, t.up[v])
<1>1. PICK s : s = IF t.kid["left"][v] # RBNULL THEN "left" ELSE "right"
  OBVIOUS
<1>2. PICK c, p : c = t.kid[s][v] /\ p = t.up[v]
  OBVIOUS
<1>3. OneKid(t, v, c, s)
  BY <1>1, <1>2 DEF OneKid, Sides, Other
<1>4. c = IF t.kid["left"][v] # RBNULL THEN t.kid["left"][v] ELSE t.kid["right"][v]
  BY <1>1, <1>2
<1>5. /\ s \in Sides /\ c \in L \union {RBNULL} /\ c \in Pointers /\ p \in L \union {RBNULL}
      /\ p \in Pointers /\ p \in Pointers \union {Foreign} /\ v \in Nodes /\ z \in Nodes
      /\ t \in Heaps /\ t.key[v] \in Keys
  BY <1>2, <1>3, Parent DEF OneKid, WellLinked, KidsFit, Pointers, Keyed
<1>6. PICK t1 : t1 = WithUp(t, c, p)
  OBVIOUS
<1>7. PICK t2 : t2 = Replace(t1, p, v, c)
  OBVIOUS
<1>8. PICK t3 : t3 = [t2 EXCEPT !.key[z] = t.key[v]]
  OBVIOUS
<1>9. Unlink(t, z, v).tree = t3 /\ Unlink(t, z, v).child = c
  BY <1>2, <1>4, <1>6, <1>7, <1>8 DEF Unlink, WithUp
<1>10. UpSet(t, t1, c, p)
  BY <1>5, <1>6, SetUp
<1>11. p # RBNULL =>
               /\ \E r \in Sides : t1.kid[r][p] = v
               /\ t1.kid["left"][p] = v => t1.kid["right"][p] # v
  <2> SUFFICES ASSUME p # RBNULL
               PROVE  /\ \E r \in Sides : t1.kid[r][p] = v
                      /\ t1.kid["left"][p] = v => t1.kid["right"][p] # v
    OBVIOUS
  <2>1. v # t.root
    BY <1>2, Parent
  <2>2. PICK r \in Sides : t.kid[r][p] = v /\ t.kid[Other(r)][p] # v
    BY <2>1, <1>2, Parent
  <2>3. t1.kid = t.kid
    BY <1>10 DEF UpSet
  <2> QED
    BY <2>2, <2>3 DEF Sides, Other
<1>12. t1 \in Heaps
  BY <1>10 DEF UpSet
<1>13. Replaced(t1, t2, p, v, c)
  BY <1>5, <1>7, <1>11, <1>12, ReplaceIs
<1>14. KeySet(t2, t3, z, t.key[v])
  BY <1>5, <1>8, <1>13, SetKey DEF Replaced
<1>15. Unlinked(t, t3, z, v, c, p)
  BY <1>10, <1>13, <1>14 DEF UpSet, Replaced, KeySet, Unlinked
<1> QED
  BY <1>2, <1>3, <1>5, <1>9, <1>15

\* The nodes around the one that leaves.
LEMMA UnlinkFacts ==
    ASSUME NEW t, NEW L, WellLinked(t, L), NEW v \in L, NEW c, NEW s, OneKid(t, v, c, s),
           NEW p, p = t.up[v]
    PROVE  /\ c \in L \union {RBNULL} /\ p \in L \union {RBNULL}
           /\ c # v /\ p # v /\ (c # RBNULL => c # p /\ t.up[c] = v)
           /\ p = RBNULL <=> v = t.root
           /\ c # RBNULL => c # t.root
           /\ v # RBNULL
           /\ p # RBNULL => \A r \in Sides : c # RBNULL => t.kid[r][p] # c
           /\ p # RBNULL => \E r \in Sides : t.kid[r][p] = v /\ t.kid[Other(r)][p] # v
<1>1. s \in Sides /\ t.kid[s][v] = c
  BY DEF OneKid
<1>2. c \in L \union {RBNULL}
  BY <1>1 DEF WellLinked, KidsFit
<1>3. p \in L \union {RBNULL} /\ (p = RBNULL <=> v = t.root)
  BY Parent
<1>4. v # RBNULL /\ v \in L /\ RBNULL \notin L
  BY NodesDistinct DEF WellLinked
<1>5. c # RBNULL => c # v /\ p # v /\ p # c /\ t.up[c] = v /\ c # t.root
  BY <1>1, Apart
<1>6. p # v
  <2>1. \E q \in {v} : t.up[q] \notin {v}
    BY DEF WellLinked, Top
  <2> QED
    BY <2>1
<1>7. p # RBNULL => \A r \in Sides : c # RBNULL => t.kid[r][p] # c
  BY <1>3, <1>5, <1>6 DEF WellLinked, KidsFit
<1>8. p # RBNULL => \E r \in Sides : t.kid[r][p] = v /\ t.kid[Other(r)][p] # v
  BY <1>3, Parent
<1> QED
  BY <1>2, <1>3, <1>4, <1>5, <1>6, <1>7, <1>8

\* The tree without v is a tree.
LEMMA UnlinkLinks ==
    ASSUME NEW t, NEW L, WellLinked(t, L), NEW v \in L, NEW z, NEW c, NEW s,
           OneKid(t, v, c, s), NEW p, p = t.up[v], NEW t2, Unlinked(t, t2, z, v, c, p)
    PROVE  WellLinked(t2, L \ {v})
<1> DEFINE L2 == L \ {v}
<1>1. /\ c \in L \union {RBNULL} /\ p \in L \union {RBNULL}
      /\ c # v /\ p # v /\ (c # RBNULL => c # p /\ t.up[c] = v)
      /\ p = RBNULL <=> v = t.root
      /\ c # RBNULL => c # t.root
      /\ v # RBNULL
      /\ p # RBNULL => \A r \in Sides : c # RBNULL => t.kid[r][p] # c
      /\ p # RBNULL => \E r \in Sides : t.kid[r][p] = v /\ t.kid[Other(r)][p] # v
  BY UnlinkFacts
<1>2. /\ t2 \in Heaps
      /\ t2.root = (IF p = RBNULL THEN c ELSE t.root)
      /\ \A r \in Sides, q \in Pointers :
            t2.kid[r][q] = IF p # RBNULL /\ q = p /\ t.kid[r][p] = v THEN c ELSE t.kid[r][q]
      /\ \A q \in Pointers : t2.up[q] = IF q = c THEN p ELSE t.up[q]
  BY DEF Unlinked
<1>3. /\ L2 \in SUBSET Nodes /\ L \subseteq Pointers /\ RBNULL \notin L /\ RBNULL \in Pointers
      /\ s \in Sides /\ Other(s) \in Sides /\ Sides = {s, Other(s)}
      /\ t.kid[s][v] = c /\ t.kid[Other(s)][v] = RBNULL
  BY NodesDistinct, SidesAre DEF WellLinked, Pointers, OneKid
<1>4. RootFits(t2, L2)
  BY <1>1, <1>2, <1>3 DEF WellLinked, RootFits
<1>5. ASSUME NEW q \in L2, NEW r \in Sides
      PROVE  /\ t2.kid[r][q] \in L2 \union {RBNULL}
             /\ t2.kid[r][q] # RBNULL => t2.up[t2.kid[r][q]] = q
  <2>1. CASE p # RBNULL /\ q = p /\ t.kid[r][p] = v
    BY <2>1, <1>1, <1>2, <1>3
  <2>2. CASE ~(p # RBNULL /\ q = p /\ t.kid[r][p] = v)
    <3>1. t2.kid[r][q] = t.kid[r][q]
      BY <2>2, <1>2, <1>3
    <3>2. t.kid[r][q] \in L \union {RBNULL} /\ (t.kid[r][q] # RBNULL => t.up[t.kid[r][q]] = q)
      BY DEF WellLinked, KidsFit
    <3>3. t.kid[r][q] # v
      BY <3>2, <2>2, <1>1, <1>3
    <3>4. c # RBNULL => t.kid[r][q] # c
      BY <3>2, <1>1
    <3> QED
      BY <3>1, <3>2, <3>3, <3>4, <1>2, <1>3
  <2> QED
    BY <2>1, <2>2
<1>6. ASSUME NEW q \in L2, t2.kid["left"][q] = t2.kid["right"][q]
      PROVE  t2.kid["left"][q] = RBNULL
  <2>1. "left" \in Sides /\ "right" \in Sides /\ "left" # "right"
    BY DEF Sides
  <2>2. t.kid["left"][q] = t.kid["right"][q] => t.kid["left"][q] = RBNULL
    BY DEF WellLinked, KidsFit
  <2> QED
    BY <2>1, <2>2, <1>1, <1>2, <1>3, <1>6
<1>7. UpsFit(t2, L2)
  <2> SUFFICES ASSUME NEW q \in L2, q # t2.root
               PROVE  t2.up[q] \in L2 /\ \E r \in Sides : t2.kid[r][t2.up[q]] = q
    BY DEF UpsFit
  <2>1. CASE q = c
    BY <2>1, <1>1, <1>2, <1>3
  <2>2. CASE q # c
    <3>1. q \in L /\ q # t.root /\ t2.up[q] = t.up[q]
      BY <2>2, <1>1, <1>2, <1>3
    <3>2. PICK r \in Sides : t.up[q] \in L /\ t.kid[r][t.up[q]] = q
      BY <3>1 DEF WellLinked, UpsFit
    <3>3. t.up[q] # v
      BY <3>2, <2>2, <1>3
    <3> QED
      BY <3>1, <3>2, <3>3, <1>2, <1>3
  <2> QED
    BY <2>1, <2>2
<1>8. Bottom(t2, L2)
  <2> SUFFICES ASSUME NEW S \in SUBSET L2, S # {}, \A q \in S : \E r \in Sides : t2.kid[r][q] \in S
               PROVE  FALSE
    BY DEF Bottom
  <2> DEFINE T == IF c \in S THEN S \union {v} ELSE S
  <2>1. T \in SUBSET L /\ T # {}
    OBVIOUS
  <2>2. ASSUME NEW q \in T PROVE \E r \in Sides : t.kid[r][q] \in T
    <3>1. CASE q = v
      BY <3>1, <2>2, <1>3
    <3>2. CASE q # v
      <4>1. PICK r \in Sides : t2.kid[r][q] \in S
        BY <3>2, <2>2
      <4>2. t.kid[r][q] \in T
        BY <4>1, <2>2, <2>1, <1>2, <1>3
      <4> QED
        BY <4>2
    <3> QED
      BY <3>1, <3>2
  <2> HIDE DEF T
  <2> QED
    BY <2>1, <2>2 DEF WellLinked, Bottom
<1>9. Top(t2, L2)
  <2> SUFFICES ASSUME NEW S \in SUBSET L2, S # {}, \A q \in S : t2.up[q] \in S
               PROVE  FALSE
    BY DEF Top
  <2> DEFINE T == IF c \in S THEN S \union {v} ELSE S
  <2>1. T \in SUBSET L /\ T # {}
    OBVIOUS
  <2>2. ASSUME NEW q \in T PROVE t.up[q] \in T
    <3>1. CASE q = v
      BY <3>1, <2>2, <1>2, <1>3
    <3>2. CASE q = c
      BY <3>2, <2>2, <1>1, <1>3
    <3>3. CASE q # v /\ q # c
      BY <3>3, <2>2, <1>2, <1>3
    <3> QED
      BY <3>1, <3>2, <3>3
  <2> HIDE DEF T
  <2> QED
    BY <2>1, <2>2 DEF WellLinked, Top
<1> QED
  BY <1>2, <1>3, <1>4, <1>5, <1>6, <1>7, <1>8, <1>9 DEF WellLinked, KidsFit

\* Under a node there are no other nodes than before, and not v.
Shrunk(t, t2, L, v) ==
    \A q \in L \ {v} : Under(t2, L \ {v}, q) \subseteq Under(t, L, q) \ {v}

\* Nothing new gets under a node.
LEMMA UnlinkUnder ==
    ASSUME NEW t, NEW L, WellLinked(t, L), NEW v \in L, NEW z, NEW c, NEW s,
           OneKid(t, v, c, s), NEW p, p = t.up[v], NEW t2, Unlinked(t, t2, z, v, c, p)
    PROVE  Shrunk(t, t2, L, v)
<1> SUFFICES ASSUME NEW q \in L \ {v}
             PROVE  Under(t2, L \ {v}, q) \subseteq Under(t, L, q) \ {v}
  BY DEF Shrunk
<1> DEFINE U == Under(t, L, q)
           S == U \ {v}
<1>1. v # RBNULL /\ c # v
  BY UnlinkFacts
<1>2. /\ \A r \in Sides, k \in Pointers :
            t2.kid[r][k] = IF p # RBNULL /\ k = p /\ t.kid[r][p] = v THEN c ELSE t.kid[r][k]
  BY DEF Unlinked
<1>3. s \in Sides /\ t.kid[s][v] = c /\ L \subseteq Pointers
  BY DEF OneKid, WellLinked, Pointers
<1>4. U \in SUBSET L /\ q \in U
  BY UnderSet
<1>5. KidClosed(t, U)
  BY UnderClosed
<1> HIDE DEF U
<1>6. ASSUME NEW k \in S, NEW r \in Sides, t2.kid[r][k] # RBNULL PROVE t2.kid[r][k] \in S
  <2>1. t.kid[r][k] # RBNULL => t.kid[r][k] \in U
    BY <1>5 DEF KidClosed
  <2>2. CASE p # RBNULL /\ k = p /\ t.kid[r][p] = v
    <3>1. t2.kid[r][k] = c /\ v \in U
      BY <2>1, <2>2, <1>1, <1>2, <1>3, <1>4
    <3> QED
      BY <3>1, <1>1, <1>3, <1>5, <1>6 DEF KidClosed
  <2>3. CASE ~(p # RBNULL /\ k = p /\ t.kid[r][p] = v)
    <3>1. t2.kid[r][k] = t.kid[r][k]
      BY <2>3, <1>2, <1>3, <1>4
    <3>2. t.kid[r][k] # v
      <4> SUFFICES ASSUME t.kid[r][k] = v PROVE FALSE
        OBVIOUS
      <4>1. k = p /\ k # RBNULL
        BY <1>1, <1>4, NodesDistinct DEF WellLinked, KidsFit
      <4> QED
        BY <4>1, <2>3
    <3> QED
      BY <3>1, <3>2, <2>1, <1>6
  <2> QED
    BY <2>2, <2>3
<1>7. KidClosed(t2, S) /\ q \in S /\ S \in SUBSET (L \ {v})
  BY <1>4, <1>6 DEF KidClosed
<1>8. Under(t2, L \ {v}, q) \subseteq S
  BY <1>7, UnderLeast
<1> QED
  BY <1>8 DEF U

\* v is z, or the node that follows z under it.
Follows(t, L, z, v) ==
    z # v => /\ v \in Under(t, L, t.kid["right"][z])
             /\ \A m \in Under(t, L, t.kid["right"][z]) : m # v => t.key[v] < t.key[m]

\* The keys stay in order when z has got the key that follows its own.
LEMMA UnlinkOrder ==
    ASSUME NEW t, NEW L, WellLinked(t, L), Keyed(t, L), Ordered(t, L),
           NEW v \in L, NEW z \in L, Follows(t, L, z, v), NEW c, NEW s,
           OneKid(t, v, c, s), NEW p, p = t.up[v], NEW t2, Unlinked(t, t2, z, v, c, p)
    PROVE  Ordered(t2, L \ {v})
<1> DEFINE L2 == L \ {v}
<1>1. v # RBNULL /\ c # v
  BY UnlinkFacts
<1>2. /\ \A r \in Sides, k \in Pointers :
            t2.kid[r][k] = IF p # RBNULL /\ k = p /\ t.kid[r][p] = v THEN c ELSE t.kid[r][k]
      /\ \A q \in Nodes : t2.key[q] = IF q = z THEN t.key[v] ELSE t.key[q]
  BY DEF Unlinked
<1>3. /\ s \in Sides /\ t.kid[s][v] = c /\ L \subseteq Pointers /\ L \subseteq Nodes
      /\ RBNULL \notin L /\ "left" \in Sides /\ "right" \in Sides
  BY NodesDistinct DEF OneKid, WellLinked, Pointers, Sides
<1>4. \A q \in L : t.key[q] \in Keys /\ t.key[q] \in Int
  BY KeysAreIntegers DEF Keyed
<1>5. Shrunk(t, t2, L, v)
  BY UnlinkUnder
<1> SUFFICES ASSUME NEW q \in L2, NEW r \in Sides, NEW m \in Under(t2, L2, t2.kid[r][q])
             PROVE  Beyond(r, t2.key[m], t2.key[q])
  BY DEF Ordered
<1>6. t2.kid[r][q] \in L2 /\ m \in L2
  BY UnderSet
<1>7. m \in Under(t, L, t2.kid[r][q])
  BY <1>5, <1>6 DEF Shrunk
<1>8. m \in Under(t, L, t.kid[r][q])
  <2>1. CASE p # RBNULL /\ q = p /\ t.kid[r][p] = v
    <3>1. t2.kid[r][q] = c
      BY <2>1, <1>2, <1>3
    <3>2. Under(t, L, c) \subseteq Under(t, L, v)
      BY <1>3, UnderKid
    <3> QED
      BY <3>1, <3>2, <2>1, <1>7
  <2>2. CASE ~(p # RBNULL /\ q = p /\ t.kid[r][p] = v)
    BY <2>2, <1>2, <1>3, <1>7
  <2> QED
    BY <2>1, <2>2
<1>9. Beyond(r, t.key[m], t.key[q])
  BY <1>8 DEF Ordered
<1>10. CASE z = v \/ (m # z /\ q # z)
  <2>1. t2.key[m] = t.key[m] /\ t2.key[q] = t.key[q]
    BY <1>10, <1>2, <1>3, <1>6
  <2> QED
    BY <2>1, <1>9
<1>11. CASE z # v /\ q = z
  <2>1. m # z
    BY <1>3, <1>8, <1>11, NotUnderKid
  <2>2. t2.key[m] = t.key[m] /\ t2.key[q] = t.key[v]
    BY <2>1, <1>2, <1>3, <1>6, <1>11
  <2>3. CASE r = "right"
    <3>1. t.key[v] < t.key[m]
      BY <2>3, <1>6, <1>8, <1>11 DEF Follows
    <3> QED
      BY <3>1, <2>2, <2>3, <1>4, <1>6 DEF Beyond
  <2>4. CASE r = "left"
    <3>1. v \in Under(t, L, t.kid["right"][z])
      BY <1>11 DEF Follows
    <3>2. Beyond("right", t.key[v], t.key[z])
      BY <3>1, <1>3 DEF Ordered
    <3>3. t.key[m] < t.key[z]
      BY <1>9, <1>11, <2>4 DEF Beyond
    <3> QED
      BY <3>2, <3>3, <2>2, <2>4, <1>4, <1>6 DEF Beyond
  <2> QED
    BY <2>3, <2>4 DEF Sides
<1>12. CASE z # v /\ m = z
  <2>1. q # z
    BY <1>3, <1>8, <1>12, NotUnderKid
  <2>2. v \in Under(t, L, z)
    BY <1>3, <1>12, UnderKid DEF Follows
  <2>3. v \in Under(t, L, t.kid[r][q])
    BY <2>2, <1>8, <1>12, UnderTrans
  <2>4. Beyond(r, t.key[v], t.key[q])
    BY <2>3 DEF Ordered
  <2>5. t2.key[m] = t.key[v] /\ t2.key[q] = t.key[q]
    BY <2>1, <1>2, <1>3, <1>6, <1>12
  <2> QED
    BY <2>4, <2>5
<1> QED
  BY <1>10, <1>11, <1>12
=============================================================================
