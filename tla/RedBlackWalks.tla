--------------------------- MODULE RedBlackWalks ---------------------------
(***************************************************************************)
(* The inductive invariant of RedBlack, what the walks of the code find in *)
(* a tree that has it, and what a rotation does to red nodes and to the    *)
(* counts of black ones.                                                   *)
(***************************************************************************)
EXTENDS RedBlackTree

(* The inductive invariant. *)

\* The nodes linked into the tree: a node that a delete has unlinked is still allocated.
InTree == used \ (IF pc = "delete" THEN {y} ELSE {})
\* A delete whose repair is due: the tree lacks a black node at x.
Repairs == pc = "delete" /\ ~h.red[y]

\* Free memory has no links; a node about to be freed may point into the tree.
Blanked(t, S) ==
    \A n \in Nodes \ S : t.up[n] = RBNULL /\ \A s \in Sides : t.kid[s][n] = RBNULL
\* Outside the tree no link leads into free memory.
Sparse(t, L) == \A n \in Nodes \ L, s \in Sides : t.kid[s][n] \in L \union {RBNULL}

\* What is allocated and what is free.
Memory ==
    /\ h \in Heaps /\ used \in SUBSET Nodes
    /\ Keyed(h, used) /\ Blanked(h, used) /\ Sparse(h, InTree)
    /\ turns \in Nat /\ pc \in {"idle", "insert", "delete"}
    /\ nextp \in used \union {RBNULL, Closed} /\ (nextp # Closed => pc = "idle")

\* n hangs on one side of its parent, the sentinel too.
Hangs(t, n) == \E s \in Sides : t.kid[s][t.up[n]] = n /\ t.kid[Other(s)][t.up[n]] # n

\* Where the repair loops look: x and y in the three values of pc.
Cursor ==
    /\ x \in InTree \union {RBNULL} /\ y \in used \union {RBNULL}
    /\ pc = "insert" => x # RBNULL /\ h.red[x]
    /\ pc = "idle" => x = RBNULL
    /\ pc = "delete" <=> y # RBNULL
    /\ Repairs /\ x # h.root => h.up[x] \in InTree /\ Hangs(h, x)

\* No red node has a red child, but for the nodes of A and the children of B.
Reds(t, L, A, B) ==
    /\ \A n \in L, s \in Sides : t.red[n] /\ t.red[t.kid[s][n]] => n \in A \/ t.kid[s][n] \in B
    /\ t.red[t.root] => t.root \in B
    /\ ~t.red[RBNULL]

\* 1 for a black node; 1 where the tree lacks a black node, between n and a child in D.
Tint(t, n) == IF t.red[n] THEN 0 ELSE 1
Lack(t, D, n, s) == IF t.kid[s][n] \in D /\ t.up[t.kid[s][n]] = n THEN 1 ELSE 0
\* bh is the number of black nodes on the ways down from each node, a node of D counting
\* one more than there are.
Blacks(t, L, D, bh) ==
    /\ bh \in [Pointers -> Nat] /\ bh[RBNULL] = 1
    /\ \A n \in L, s \in Sides : bh[n] = bh[t.kid[s][n]] + Lack(t, D, n, s) + Tint(t, n)

\* The node below which a black node lacks, and the one that may be red under a red parent.
Lacking  == IF Repairs THEN {x} ELSE {}
Reddened == IF pc = "insert" \/ Repairs THEN {x} ELSE {}

\* A turn of a loop leaves a higher node to look at.
Paced(bh) ==
    /\ turns <= bh[h.root]
    /\ pc = "idle" => turns = 0
    /\ pc = "insert" /\ InsertGoesOn => turns < bh[x]
    /\ pc = "delete" /\ DeleteGoesOn => turns < bh[x]

\* The inductive invariant.
IInv ==
    /\ Memory /\ Cursor
    /\ WellLinked(h, InTree) /\ Ordered(h, InTree)
    /\ Reds(h, InTree, Lacking, Reddened)
    /\ \E bh : Blacks(h, InTree, Lacking, bh) /\ Paced(bh)

-----------------------------------------------------------------------------
(* The walks: down, up, to the next node, over the whole tree. *)

\* Every set of pointers has one whose children are outside it.
LEMMA Grounded ==
    ASSUME NEW t, NEW L, WellLinked(t, L), Sparse(t, L), NEW S \in SUBSET Pointers, S # {}
    PROVE  \E n \in S : n = RBNULL \/ \A s \in Sides : t.kid[s][n] \notin S
<1>1. CASE RBNULL \in S
  BY <1>1
<1>2. CASE RBNULL \notin S
  <2>1. CASE S \intersect L # {}
    <3>1. PICK n \in S \intersect L : \A s \in Sides : t.kid[s][n] \notin S \intersect L
      BY <2>1 DEF WellLinked, Bottom
    <3>2. \A s \in Sides : t.kid[s][n] \in L \union {RBNULL}
      BY <3>1 DEF WellLinked, KidsFit
    <3> QED
      BY <3>1, <3>2, <1>2
  <2>2. CASE S \intersect L = {}
    <3>1. PICK n : n \in S
      OBVIOUS
    <3>2. n \in Nodes \ L
      BY <3>1, <2>2, <1>2 DEF Pointers
    <3>3. \A s \in Sides : t.kid[s][n] \in L \union {RBNULL}
      BY <3>2 DEF Sparse
    <3> QED
      BY <3>1, <3>3, <2>2, <1>2
  <2> QED
    BY <2>1, <2>2
<1> QED
  BY <1>1, <1>2

\* A child is a node or the sentinel.
LEMMA KidsArePointers ==
    ASSUME NEW t \in Heaps, NEW n \in Pointers, NEW s \in Sides
    PROVE  t.kid[s][n] \in Pointers
BY DEF Heaps

\* The walk to the outermost node, one step of it.
LEMMA ExtremeStep ==
    ASSUME NEW t, NEW L, WellLinked(t, L), Sparse(t, L), NEW s \in Sides
    PROVE  \A n \in Pointers :
              Extreme(t, n, s) = IF t.kid[s][n] = RBNULL THEN n ELSE Extreme(t, t.kid[s][n], s)
<1> DEFINE stop == {m \in Pointers : t.kid[s][m] = RBNULL}
           next == [m \in Pointers |-> t.kid[s][m]]
           out == [m \in Pointers |-> m]
           Body(f) == [m \in Pointers |-> IF t.kid[s][m] = RBNULL THEN m ELSE f[t.kid[s][m]]]
           Walk == CHOOSE f : f = Body(f)
<1>1. \A m \in Pointers \ stop : next[m] \in Pointers
  BY KidsArePointers DEF WellLinked
<1>2. ASSUME NEW S \in SUBSET Pointers, S # {}
      PROVE  \E m \in S : m \in stop \/ next[m] \notin S
  <2>1. PICK m \in S : m = RBNULL \/ \A r \in Sides : t.kid[r][m] \notin S
    BY <1>2, Grounded
  <2>2. m = RBNULL => m \in stop
    BY DEF WellLinked, RootFits, Pointers
  <2> QED
    BY <2>1, <2>2
<1>3. Ends(Pointers, stop, next)
  BY <1>1, <1>2 DEF Ends
<1>4. \E f : f = Body(f)
  <2>1. PICK f : Along(f, Pointers, stop, next, out)
    BY <1>3, PathFunction
  <2>2. f = Body(f)
    BY <2>1 DEF Along
  <2> QED
    BY <2>2
<1>5. Walk = Body(Walk)
  BY Zenon, <1>4
<1>6. \A m \in Pointers : Walk[m] = IF t.kid[s][m] = RBNULL THEN m ELSE Walk[t.kid[s][m]]
  BY <1>5
<1>7. \A n : Extreme(t, n, s) = Walk[n]
  BY DEF Extreme
<1> HIDE DEF Walk
<1> QED
  BY <1>6, <1>7

\* e is the outermost node on side s under n.
Outermost(t, L, n, s, e) ==
    /\ e \in Under(t, L, n) /\ t.kid[s][e] = RBNULL
    /\ \A m \in Under(t, L, n) : m # e => Beyond(Other(s), t.key[m], t.key[e])

\* The walk to one side ends at the outermost node.
LEMMA ExtremeIs ==
    ASSUME NEW t, NEW L, WellLinked(t, L), Sparse(t, L), Keyed(t, L), Ordered(t, L),
           NEW s \in Sides
    PROVE  \A n \in L : Outermost(t, L, n, s, Extreme(t, n, s))
<1> DEFINE S == {n \in L : ~Outermost(t, L, n, s, Extreme(t, n, s))}
<1> SUFFICES ASSUME S # {} PROVE FALSE
  OBVIOUS
<1>1. PICK n \in S : \A r \in Sides : t.kid[r][n] \notin S
  BY DEF WellLinked, Bottom
<1> HIDE DEF S
<1>2. n \in L /\ n \in Pointers /\ L \subseteq Pointers
  BY <1>1 DEF S, WellLinked, Pointers
<1>3. Extreme(t, n, s) = IF t.kid[s][n] = RBNULL THEN n ELSE Extreme(t, t.kid[s][n], s)
  BY <1>2, ExtremeStep
<1> DEFINE e == Extreme(t, n, s)
           c == t.kid[s][n]
           d == t.kid[Other(s)][n]
<1>4. Under(t, L, n) = {n} \union Under(t, L, c) \union Under(t, L, d)
  BY <1>2, UnderSplit
<1>5. Other(s) \in Sides
  BY SidesAre
<1>6. \A m \in Under(t, L, d) : Beyond(Other(s), t.key[m], t.key[n])
  BY <1>2, <1>5 DEF Ordered
<1>7. CASE c = RBNULL
  <2>1. e = n
    BY <1>3, <1>7
  <2>2. Under(t, L, c) = {}
    BY <1>7, UnderSet, NodesDistinct DEF WellLinked
  <2> HIDE DEF e, d
  <2>3. Outermost(t, L, n, s, e)
    BY <2>1, <2>2, <1>4, <1>6, <1>7 DEF Outermost
  <2> QED
    BY <2>3, <1>1 DEF S, e
<1>8. CASE c # RBNULL
  <2>1. c \in L /\ c \notin S
    BY <1>1, <1>2, <1>8 DEF WellLinked, KidsFit
  <2>2. e = Extreme(t, c, s)
    BY <1>3, <1>8
  <2>3. Outermost(t, L, c, s, e)
    BY <2>1, <2>2 DEF S
  <2>4. \A m \in Under(t, L, c) : Beyond(s, t.key[m], t.key[n])
    BY <1>2 DEF Ordered
  <2>5. e \in Under(t, L, c) /\ e \in L
    BY <2>3, UnderSet DEF Outermost
  <2>6. \A m \in L : t.key[m] \in Keys
    BY DEF Keyed
  <2>7. Beyond(Other(s), t.key[n], t.key[e])
    BY <2>4, <2>5, <2>6, <1>2, BeyondLaws
  <2>8. ASSUME NEW m \in Under(t, L, d) PROVE Beyond(Other(s), t.key[m], t.key[e])
    <3>1. m \in L
      BY UnderSet
    <3> QED
      BY <3>1, <2>5, <2>6, <2>7, <1>2, <1>5, <1>6, <2>8, BeyondLaws
  <2> HIDE DEF e, c, d
  <2>9. Outermost(t, L, n, s, e)
    BY <2>3, <2>7, <2>8, <1>4 DEF Outermost
  <2> QED
    BY <2>9, <1>1 DEF S, e
<1> QED
  BY <1>7, <1>8

\* From the sentinel that walk goes nowhere.
LEMMA ExtremeOfNull ==
    ASSUME NEW t, NEW L, WellLinked(t, L), Sparse(t, L), NEW s \in Sides
    PROVE  Extreme(t, RBNULL, s) = RBNULL
<1>1. t.kid[s][RBNULL] = RBNULL /\ RBNULL \in Pointers
  BY DEF WellLinked, RootFits, Pointers
<1> QED
  BY <1>1, ExtremeStep

\* Of two nodes one is above the other, or a third is above both and between them.
Parted(t, L, a, q, w) ==
    \E r \in Sides : q \in Under(t, L, t.kid[r][a]) /\ w \in Under(t, L, t.kid[Other(r)][a])
\* One is under the other or a node parts them.
Joined(t, L, q, w) ==
    q \in Under(t, L, w) \/ w \in Under(t, L, q) \/ \E a \in L : Parted(t, L, a, q, w)

\* Any two nodes of the tree are so.
LEMMA Join ==
    ASSUME NEW t, NEW L, WellLinked(t, L)
    PROVE  \A q, w \in L : Joined(t, L, q, w)
<1> SUFFICES ASSUME NEW q \in L PROVE \A w \in L : Joined(t, L, q, w)
  OBVIOUS
<1> DEFINE S == {w \in L : ~Joined(t, L, q, w)}
<1> SUFFICES ASSUME S # {} PROVE FALSE
  OBVIOUS
<1>1. PICK w \in S : t.up[w] \notin S
  BY DEF WellLinked, Top
<1> HIDE DEF S
<1>2. w \in L /\ ~Joined(t, L, q, w)
  BY <1>1 DEF S
<1>3. w # t.root
  BY <1>2, UnderRoot DEF Joined
<1>4. PICK r \in Sides : t.up[w] \in L /\ t.kid[r][t.up[w]] = w
  BY <1>2, <1>3 DEF WellLinked, UpsFit
<1> DEFINE p == t.up[w]
<1> HIDE DEF p
<1>5. p \in L /\ t.kid[r][p] = w /\ Joined(t, L, q, p)
  BY <1>1, <1>4 DEF S, p
<1>6. w \in Under(t, L, p)
  <2>1. w \in Under(t, L, w)
    BY <1>2, UnderSet
  <2> QED
    BY <2>1, <1>5, UnderKid
<1>7. CASE q \in Under(t, L, p)
  <2>1. Under(t, L, p) = {p} \union Under(t, L, w) \union Under(t, L, t.kid[Other(r)][p])
    BY <1>5, UnderSplit
  <2>2. CASE q = p
    BY <2>2, <1>2, <1>6 DEF Joined
  <2>3. CASE q \in Under(t, L, w)
    BY <2>3, <1>2 DEF Joined
  <2>4. CASE q \in Under(t, L, t.kid[Other(r)][p])
    <3>1. w \in Under(t, L, w)
      BY <1>2, UnderSet
    <3>2. Other(r) \in Sides /\ Other(Other(r)) = r
      BY SidesAre
    <3>3. Parted(t, L, p, q, w)
      BY <3>1, <3>2, <2>4, <1>5 DEF Parted
    <3> QED
      BY <3>3, <1>2, <1>5 DEF Joined
  <2> QED
    BY <2>1, <2>2, <2>3, <2>4, <1>7
<1>8. CASE p \in Under(t, L, q)
  BY <1>2, <1>6, <1>8, UnderTrans DEF Joined
<1>9. CASE \E a \in L : Parted(t, L, a, q, p)
  <2>1. PICK a \in L, i \in Sides :
           q \in Under(t, L, t.kid[i][a]) /\ p \in Under(t, L, t.kid[Other(i)][a])
    BY <1>9 DEF Parted
  <2>2. w \in Under(t, L, t.kid[Other(i)][a])
    BY <2>1, <1>6, UnderTrans
  <2> QED
    BY <2>1, <2>2, <1>2 DEF Joined, Parted
<1> QED
  BY <1>5, <1>7, <1>8, <1>9 DEF Joined

\* A node that is not under p is on one side of all that is.
LEMMA Aside ==
    ASSUME NEW t, NEW L, WellLinked(t, L), Keyed(t, L), Ordered(t, L)
    PROVE  \A p \in L : \A q \in L \ Under(t, L, p) :
              \E r \in Sides : \A u \in Under(t, L, p) : Beyond(r, t.key[q], t.key[u])
<1> SUFFICES ASSUME NEW p \in L, NEW q \in L \ Under(t, L, p)
             PROVE  \E r \in Sides : \A u \in Under(t, L, p) : Beyond(r, t.key[q], t.key[u])
  OBVIOUS
<1>1. \A m \in L : t.key[m] \in Keys
  BY DEF Keyed
<1>2. Joined(t, L, q, p)
  BY Join
<1>3. p \in Under(t, L, p) /\ Under(t, L, p) \subseteq L
  BY UnderSet
<1>4. ASSUME NEW a \in L, NEW r \in Sides, p \in Under(t, L, t.kid[r][a]), NEW u \in Under(t, L, p)
      PROVE  Beyond(Other(r), t.key[a], t.key[u])
  <2>1. u \in Under(t, L, t.kid[r][a])
    BY <1>4, UnderTrans
  <2>2. Beyond(r, t.key[u], t.key[a])
    BY <2>1 DEF Ordered
  <2> QED
    BY <2>2, <1>1, <1>3, BeyondLaws
<1>5. CASE p \in Under(t, L, q)
  <2>1. p # q
    BY <1>3
  <2>2. Under(t, L, q) = {q} \union Under(t, L, t.kid["left"][q])
                             \union Under(t, L, t.kid[Other("left")][q])
    BY UnderSplit DEF Sides
  <2>3. PICK r \in Sides : p \in Under(t, L, t.kid[r][q])
    BY <2>1, <2>2, <1>5 DEF Sides, Other
  <2>4. Other(r) \in Sides
    BY SidesAre
  <2> QED
    BY <2>3, <2>4, <1>4
<1>6. CASE \E a \in L : Parted(t, L, a, q, p)
  <2>1. PICK a \in L, r \in Sides :
           q \in Under(t, L, t.kid[r][a]) /\ p \in Under(t, L, t.kid[Other(r)][a])
    BY <1>6 DEF Parted
  <2>2. Other(r) \in Sides /\ Other(Other(r)) = r
    BY SidesAre
  <2>3. Beyond(r, t.key[q], t.key[a])
    BY <2>1 DEF Ordered
  <2>4. \A u \in Under(t, L, p) : Beyond(r, t.key[q], t.key[u])
    BY <2>1, <2>2, <2>3, <1>1, <1>3, <1>4, BeyondLaws
  <2> QED
    BY <2>4
<1> QED
  BY <1>2, <1>5, <1>6 DEF Joined

\* _successor and _predecessor, the climb of a node without a child on side s.
Ascent(t, s) ==
    LET climb[m \in Nodes] ==
            IF t.up[m] # RBNULL /\ t.kid[s][t.up[m]] = m THEN climb[t.up[m]] ELSE t.up[m]
    IN climb

\* The climb, one step of it.
LEMMA AscentStep ==
    ASSUME NEW t, NEW L, WellLinked(t, L), Blanked(t, L), NEW s \in Sides
    PROVE  \A m \in Nodes : Ascent(t, s)[m] =
              IF t.up[m] # RBNULL /\ t.kid[s][t.up[m]] = m THEN Ascent(t, s)[t.up[m]] ELSE t.up[m]
<1> DEFINE stop == {m \in Nodes : ~(t.up[m] # RBNULL /\ t.kid[s][t.up[m]] = m)}
           next == [m \in Nodes |-> t.up[m]]
           out == [m \in Nodes |-> t.up[m]]
           Body(f) == [m \in Nodes |-> IF t.up[m] # RBNULL /\ t.kid[s][t.up[m]] = m
                                       THEN f[t.up[m]] ELSE t.up[m]]
           Climb == CHOOSE f : f = Body(f)
<1>1. ASSUME NEW m \in Nodes
      PROVE  m \in stop \/ (m \in L /\ t.up[m] \in L)
  <2>1. m \in L => t.up[m] \in L \union {RBNULL}
    BY Parent
  <2> QED
    BY <2>1 DEF Blanked
<1>2. ASSUME NEW S \in SUBSET Nodes, S # {}
      PROVE  \E m \in S : m \in stop \/ next[m] \notin S
  <2>1. CASE S \intersect L # {}
    <3>1. PICK m \in S \intersect L : t.up[m] \notin S \intersect L
      BY <2>1 DEF WellLinked, Top
    <3> QED
      BY <3>1, <1>1
  <2>2. CASE S \intersect L = {}
    BY <2>2, <1>1, <1>2
  <2> QED
    BY <2>1, <2>2
<1>3. Ends(Nodes, stop, next)
  <2>1. \A m \in Nodes \ stop : next[m] \in Nodes
    BY <1>1 DEF WellLinked
  <2> QED
    BY <2>1, <1>2 DEF Ends
<1>4. \E f : f = Body(f)
  <2>1. PICK f : Along(f, Nodes, stop, next, out)
    BY <1>3, PathFunction
  <2>2. f = Body(f)
    BY <2>1 DEF Along
  <2> QED
    BY <2>2
<1>5. Climb = Body(Climb)
  BY Zenon, <1>4
<1>6. Ascent(t, s) = Climb
  BY DEF Ascent
<1>7. \A m \in Nodes : Climb[m] = IF t.up[m] # RBNULL /\ t.kid[s][t.up[m]] = m
                                  THEN Climb[t.up[m]] ELSE t.up[m]
  BY <1>5
<1> HIDE DEF Climb
<1> QED
  BY <1>6, <1>7

\* The climb from m ends at a, the next node on side s of all that is under m.
Rises(t, L, m, s, a) ==
    \/ /\ a = RBNULL
       /\ \A q \in L \ Under(t, L, m) : \A u \in Under(t, L, m) :
             Beyond(Other(s), t.key[q], t.key[u])
    \/ /\ a \in L \ Under(t, L, m)
       /\ \A u \in Under(t, L, m) : Beyond(s, t.key[a], t.key[u])
       /\ \A q \in L \ Under(t, L, m) :
             \/ q = a \/ Beyond(s, t.key[q], t.key[a])
             \/ \A u \in Under(t, L, m) : Beyond(Other(s), t.key[q], t.key[u])

\* The climb ends at the next node.
LEMMA AscentIs ==
    ASSUME NEW t, NEW L, WellLinked(t, L), Blanked(t, L), Keyed(t, L), Ordered(t, L),
           NEW s \in Sides
    PROVE  \A m \in L : Rises(t, L, m, s, Ascent(t, s)[m])
<1> DEFINE S == {m \in L : ~Rises(t, L, m, s, Ascent(t, s)[m])}
<1> SUFFICES ASSUME S # {} PROVE FALSE
  OBVIOUS
<1>1. PICK m \in S : t.up[m] \notin S
  BY DEF WellLinked, Top
<1> HIDE DEF S
<1>2. m \in L /\ ~Rises(t, L, m, s, Ascent(t, s)[m]) /\ m \in Nodes
  BY <1>1 DEF S, WellLinked
<1>3. Ascent(t, s)[m] = IF t.up[m] # RBNULL /\ t.kid[s][t.up[m]] = m
                        THEN Ascent(t, s)[t.up[m]] ELSE t.up[m]
  BY <1>2, AscentStep
<1>4. \A k \in L : t.key[k] \in Keys
  BY DEF Keyed
<1>5. PICK a : a = Ascent(t, s)[m]
  OBVIOUS
<1>6. CASE m = t.root
  <2>1. Under(t, L, m) = L
    BY <1>6, UnderRoot
  <2>2. a = RBNULL
    BY <1>2, <1>3, <1>5, <1>6, Parent
  <2> QED
    BY <2>1, <2>2, <1>2, <1>5 DEF Rises
<1>7. CASE m # t.root
  <2>1. PICK p : p = t.up[m]
    OBVIOUS
  <2>2. PICK r \in Sides : p \in L /\ t.kid[r][p] = m /\ t.kid[Other(r)][p] # m
    BY <2>1, <1>2, <1>7, Parent
  <2>3. p # RBNULL
    BY <2>2, NodesDistinct DEF WellLinked
  <2>4. Rises(t, L, p, s, Ascent(t, s)[p])
    BY <2>1, <2>2, <1>1 DEF S
  <2>5. PICK M, B : M = Under(t, L, m) /\ B = Under(t, L, t.kid[Other(r)][p])
    OBVIOUS
  <2>6. Under(t, L, p) = {p} \union M \union B /\ p \notin M /\ M \intersect B = {}
    BY <2>2, <2>5, UnderSplit, NotUnderKid, KidsApart
  <2>7. M \subseteq L /\ B \subseteq L /\ Other(r) \in Sides /\ Other(Other(r)) = r
    BY <2>5, UnderSet, SidesAre
  <2>8. \A u \in M : Beyond(r, t.key[u], t.key[p]) /\ Beyond(Other(r), t.key[p], t.key[u])
    BY <2>2, <2>5, <2>7, <1>4, BeyondLaws DEF Ordered
  <2>9. \A u \in B : Beyond(Other(r), t.key[u], t.key[p])
    BY <2>2, <2>5, <2>7 DEF Ordered
  <2>10. \A q \in B, u \in M : Beyond(Other(r), t.key[q], t.key[u])
    BY <2>2, <2>7, <2>8, <2>9, <1>4, BeyondLaws
  <2>11. CASE r = s
    <3>1. a = Ascent(t, s)[p]
      BY <2>1, <2>2, <2>3, <2>11, <1>3, <1>5
    <3>2. Rises(t, L, p, s, a)
      BY <3>1, <2>4
    <3>3. \A q \in L \ M : q \in L \ Under(t, L, p)
                            \/ \A u \in M : Beyond(Other(s), t.key[q], t.key[u])
      BY <2>6, <2>8, <2>10, <2>11
    <3>4. Rises(t, L, m, s, a)
      BY <3>2, <3>3, <2>5, <2>6, <2>11 DEF Rises
    <3> QED
      BY <3>4, <1>2, <1>5
  <2>12. CASE r # s
    <3>1. a = p /\ s = Other(r) /\ r = Other(s)
      BY <2>1, <2>2, <2>3, <2>12, <1>3, <1>5, SidesAre DEF Sides, Other
    <3>2. ASSUME NEW q \in L \ M
          PROVE  \/ q = a \/ Beyond(s, t.key[q], t.key[a])
                 \/ \A u \in M : Beyond(Other(s), t.key[q], t.key[u])
      <4>1. CASE q \in Under(t, L, p)
        BY <4>1, <3>1, <3>2, <2>6, <2>9
      <4>2. CASE q \notin Under(t, L, p)
        <5>1. PICK i \in Sides : \A u \in Under(t, L, p) : Beyond(i, t.key[q], t.key[u])
          BY <4>2, <3>2, <2>2, Aside
        <5>2. i = s \/ i = Other(s)
          BY SidesAre
        <5> QED
          BY <5>1, <5>2, <3>1, <2>6
      <4> QED
        BY <4>1, <4>2
    <3>3. Rises(t, L, m, s, a)
      BY <3>1, <3>2, <2>2, <2>5, <2>6, <2>8 DEF Rises
    <3> QED
      BY <3>3, <1>2, <1>5
  <2> QED
    BY <2>11, <2>12
<1> QED
  BY <1>6, <1>7

\* a is the next node after n on side s, or the sentinel when there is none.
NextTo(t, L, n, s, a) ==
    \/ a = RBNULL /\ \A q \in L : q # n => Beyond(Other(s), t.key[q], t.key[n])
    \/ /\ a \in L /\ Beyond(s, t.key[a], t.key[n])
       /\ \A q \in L : Beyond(s, t.key[q], t.key[n]) => q = a \/ Beyond(s, t.key[q], t.key[a])

\* Blank memory has no links.
LEMMA BlankedIsSparse ==
    ASSUME NEW t, NEW L, Blanked(t, L)
    PROVE  Sparse(t, L)
BY DEF Blanked, Sparse

\* _successor and _predecessor answer the next node.
LEMMA NeighbourIs ==
    ASSUME NEW t, NEW L, WellLinked(t, L), Blanked(t, L), Keyed(t, L), Ordered(t, L),
           NEW s \in Sides
    PROVE  \A n \in L : NextTo(t, L, n, s, Neighbour(t, n, s))
<1> SUFFICES ASSUME NEW n \in L PROVE NextTo(t, L, n, s, Neighbour(t, n, s))
  OBVIOUS
<1>1. \A k \in L : t.key[k] \in Keys
  BY DEF Keyed
<1>2. PICK a : a = Neighbour(t, n, s)
  OBVIOUS
<1>3. PICK c, d : c = t.kid[s][n] /\ d = t.kid[Other(s)][n]
  OBVIOUS
<1>4. Other(s) \in Sides /\ Other(Other(s)) = s /\ Sides = {s, Other(s)}
  BY SidesAre
<1>5. Under(t, L, n) = {n} \union Under(t, L, c) \union Under(t, L, d)
  BY <1>3, UnderSplit
<1>6. /\ \A q \in Under(t, L, c) : Beyond(s, t.key[q], t.key[n]) /\ q \in L
      /\ \A q \in Under(t, L, d) : Beyond(Other(s), t.key[q], t.key[n]) /\ q \in L
  BY <1>3, <1>4, UnderSet DEF Ordered
<1>7. n \in Under(t, L, n)
  BY UnderSet
<1>8. CASE c # RBNULL
  <2>1. a = Extreme(t, c, Other(s))
    BY <1>2, <1>3, <1>8 DEF Neighbour
  <2>2. c \in L
    BY <1>3, <1>8 DEF WellLinked, KidsFit
  <2>3. Sparse(t, L)
    BY BlankedIsSparse
  <2>4. Outermost(t, L, c, Other(s), a)
    BY <2>1, <2>2, <2>3, <1>4, ExtremeIs
  <2>5. a \in Under(t, L, c) /\ \A m \in Under(t, L, c) : m # a => Beyond(s, t.key[m], t.key[a])
    BY <2>4, <1>4 DEF Outermost
  <2>6. ASSUME NEW q \in L, Beyond(s, t.key[q], t.key[n])
        PROVE  q = a \/ Beyond(s, t.key[q], t.key[a])
    <3>1. CASE q \in Under(t, L, n)
      <4>1. q # n /\ q \notin Under(t, L, d)
        BY <2>6, <1>1, <1>6, BeyondLaws
      <4> QED
        BY <4>1, <3>1, <2>5, <1>5
    <3>2. CASE q \notin Under(t, L, n)
      <4>1. PICK i \in Sides : \A u \in Under(t, L, n) : Beyond(i, t.key[q], t.key[u])
        BY <3>2, Aside
      <4>2. i = s
        BY <4>1, <2>6, <1>1, <1>4, <1>7, BeyondLaws
      <4> QED
        BY <4>1, <4>2, <2>5, <1>5
    <3> QED
      BY <3>1, <3>2
  <2>7. NextTo(t, L, n, s, a)
    BY <2>5, <2>6, <1>6 DEF NextTo
  <2> QED
    BY <2>7, <1>2
<1>9. CASE c = RBNULL
  <2>1. a = Ascent(t, s)[n]
    BY <1>2, <1>3, <1>9 DEF Neighbour, Ascent
  <2>2. Rises(t, L, n, s, a)
    BY <2>1, AscentIs
  <2>3. Under(t, L, c) = {}
    BY <1>9, UnderSet, NodesDistinct DEF WellLinked
  <2>4. CASE a = RBNULL
    <3>1. a \notin L
      BY <2>4, NodesDistinct DEF WellLinked
    <3>2. ASSUME NEW q \in L, q # n PROVE Beyond(Other(s), t.key[q], t.key[n])
      BY <3>1, <3>2, <2>2, <2>3, <1>5, <1>6, <1>7 DEF Rises
    <3>3. NextTo(t, L, n, s, a)
      BY <3>2, <2>4 DEF NextTo
    <3> QED
      BY <3>3, <1>2
  <2>5. CASE a # RBNULL
    <3>1. a \in L /\ Beyond(s, t.key[a], t.key[n])
      BY <2>2, <2>5, <1>7 DEF Rises
    <3>2. ASSUME NEW q \in L, Beyond(s, t.key[q], t.key[n])
          PROVE  q = a \/ Beyond(s, t.key[q], t.key[a])
      <4>1. ~Beyond(Other(s), t.key[q], t.key[n])
        BY <3>2, <1>1, BeyondLaws
      <4>2. q # n
        BY <3>2, <1>1, BeyondLaws
      <4>3. q \notin Under(t, L, n)
        BY <4>1, <4>2, <2>3, <1>5, <1>6
      <4> QED
        BY <4>1, <4>3, <2>2, <2>5, <1>7 DEF Rises
    <3>3. NextTo(t, L, n, s, a)
      BY <3>1, <3>2 DEF NextTo
    <3> QED
      BY <3>3, <1>2
  <2> QED
    BY <2>4, <2>5
<1> QED
  BY <1>8, <1>9

\* The node _delete unlinks has one child at most and follows the node it looked up.
LEMMA VictimIs ==
    ASSUME NEW t, NEW L, WellLinked(t, L), Blanked(t, L), Keyed(t, L), Ordered(t, L),
           NEW z \in L
    PROVE  /\ Victim(t, z) \in L /\ Follows(t, L, z, Victim(t, z))
           /\ \E s \in Sides : t.kid[s][Victim(t, z)] = RBNULL
<1>1. PICK v : v = Victim(t, z)
  OBVIOUS
<1>2. "left" \in Sides /\ "right" \in Sides /\ Other("right") = "left" /\ Other("left") = "right"
  BY DEF Sides, Other
<1>3. CASE t.kid["left"][z] = RBNULL \/ t.kid["right"][z] = RBNULL
  <2>1. v = z
    BY <1>1, <1>3 DEF Victim
  <2> QED
    BY <2>1, <1>1, <1>2, <1>3 DEF Follows
<1>4. CASE ~(t.kid["left"][z] = RBNULL \/ t.kid["right"][z] = RBNULL)
  <2>1. PICK c : c = t.kid["right"][z]
    OBVIOUS
  <2>2. v = Extreme(t, c, "left")
    BY <2>1, <1>1, <1>2, <1>4 DEF Victim, Neighbour
  <2>3. c \in L
    BY <2>1, <1>2, <1>4 DEF WellLinked, KidsFit
  <2>4. Sparse(t, L)
    BY BlankedIsSparse
  <2>5. Outermost(t, L, c, "left", v)
    BY <2>2, <2>3, <2>4, <1>2, ExtremeIs
  <2>6. /\ v \in Under(t, L, c) /\ t.kid["left"][v] = RBNULL
        /\ \A m \in Under(t, L, c) : m # v => t.key[m] > t.key[v]
    BY <2>5, <1>2 DEF Outermost, Beyond
  <2>7. v \in L
    BY <2>6, UnderSet
  <2>8. ASSUME NEW m \in Under(t, L, c), m # v PROVE t.key[v] < t.key[m]
    <3>1. m \in L /\ t.key[m] \in Int /\ t.key[v] \in Int
      BY <2>7, UnderSet, KeysAreIntegers DEF Keyed
    <3> QED
      BY <3>1, <2>6, <2>8
  <2>9. Follows(t, L, z, v)
    BY <2>1, <2>6, <2>8 DEF Follows
  <2> QED
    BY <2>6, <2>7, <2>9, <1>1, <1>2
<1> QED
  BY <1>3, <1>4

\* No key is in the tree twice.
LEMMA KeysDiffer ==
    ASSUME NEW t, NEW L, WellLinked(t, L), Keyed(t, L), Ordered(t, L)
    PROVE  \A n, m \in L : n # m => t.key[n] # t.key[m]
<1> SUFFICES ASSUME NEW n \in L, NEW m \in L, n # m PROVE t.key[n] # t.key[m]
  OBVIOUS
<1>1. \A k \in L : t.key[k] \in Keys
  BY DEF Keyed
<1>2. n \in Under(t, L, n)
  BY UnderSet
<1>3. \E r \in Sides : Beyond(r, t.key[m], t.key[n])
  <2>1. CASE m \in Under(t, L, n)
    <3>1. Under(t, L, n) = {n} \union Under(t, L, t.kid["left"][n])
                               \union Under(t, L, t.kid[Other("left")][n])
      BY UnderSplit DEF Sides
    <3>2. "left" \in Sides /\ Other("left") \in Sides
      BY DEF Sides, Other
    <3> QED
      BY <3>1, <3>2, <2>1, <1>2 DEF Ordered
  <2>2. CASE m \notin Under(t, L, n)
    BY <2>2, <1>2, Aside
  <2> QED
    BY <2>1, <2>2
<1> QED
  BY <1>1, <1>3, BeyondLaws

\* The descent of _traverse and _lookup, from every node.
Way(t, k) ==
    LET walk[n \in Nodes] ==
            LET m == t.kid[IF k < t.key[n] THEN "left" ELSE "right"][n]
            IN  IF k = t.key[n] THEN [x |-> n, y |-> n]
                ELSE IF m = RBNULL THEN [x |-> RBNULL, y |-> n] ELSE walk[m]
    IN walk

\* The descent, one step of it.
LEMMA WayStep ==
    ASSUME NEW t, NEW L, WellLinked(t, L), Sparse(t, L), NEW k
    PROVE  \A n \in Nodes : Way(t, k)[n] =
              IF k = t.key[n] THEN [x |-> n, y |-> n]
              ELSE IF t.kid[SideOf(t, k, n)][n] = RBNULL THEN [x |-> RBNULL, y |-> n]
              ELSE Way(t, k)[t.kid[SideOf(t, k, n)][n]]
<1> DEFINE Below(n) == t.kid[IF k < t.key[n] THEN "left" ELSE "right"][n]
           stop == {n \in Nodes : k = t.key[n] \/ Below(n) = RBNULL}
           next == [n \in Nodes |-> Below(n)]
           out == [n \in Nodes |-> IF k = t.key[n] THEN [x |-> n, y |-> n]
                                   ELSE [x |-> RBNULL, y |-> n]]
           Body(f) == [n \in Nodes |-> IF k = t.key[n] THEN [x |-> n, y |-> n]
                                       ELSE IF Below(n) = RBNULL THEN [x |-> RBNULL, y |-> n]
                                       ELSE f[Below(n)]]
           Walk == CHOOSE f : f = Body(f)
<1>1. \A n : Below(n) = t.kid[SideOf(t, k, n)][n] /\ SideOf(t, k, n) \in Sides
  BY DEF SideOf, Sides
<1> HIDE DEF Below
<1>2. \A n \in Nodes : Below(n) \in Pointers
  <2>1. \A n \in Nodes, s \in Sides : t.kid[s][n] \in Pointers
    BY KidsArePointers DEF WellLinked, Pointers
  <2> QED
    BY <2>1, <1>1
<1>3. ASSUME NEW S \in SUBSET Nodes, S # {}
      PROVE  \E n \in S : n \in stop \/ next[n] \notin S
  <2>1. S \in SUBSET Pointers /\ RBNULL \notin S
    BY NodesDistinct DEF Pointers
  <2>2. PICK n \in S : \A r \in Sides : t.kid[r][n] \notin S
    BY <2>1, <1>3, Grounded
  <2> QED
    BY <2>2, <1>1
<1>4. Ends(Nodes, stop, next)
  <2>1. \A n \in Nodes \ stop : next[n] \in Nodes
    BY <1>2 DEF Pointers
  <2> QED
    BY <2>1, <1>3 DEF Ends
<1>5. \E f : f = Body(f)
  <2>1. PICK f : Along(f, Nodes, stop, next, out)
    BY <1>4, PathFunction
  <2>2. f = Body(f)
    BY <2>1 DEF Along
  <2> QED
    BY <2>2
<1>6. Walk = Body(Walk)
  BY <1>5
<1>7. Way(t, k) = Walk
  BY DEF Way, Below
<1>8. \A n \in Nodes : Walk[n] = IF k = t.key[n] THEN [x |-> n, y |-> n]
                                 ELSE IF Below(n) = RBNULL THEN [x |-> RBNULL, y |-> n]
                                 ELSE Walk[Below(n)]
  BY <1>6
<1> HIDE DEF Walk
<1> QED
  BY <1>1, <1>7, <1>8

\* The descent found k, or the place where k belongs.
Descended(t, L, k, d) ==
    \/ d.x \in L /\ d.y = d.x /\ t.key[d.x] = k
    \/ /\ d.x = RBNULL /\ d.y \in L /\ t.key[d.y] # k
       /\ t.kid[SideOf(t, k, d.y)][d.y] = RBNULL /\ Belongs(t, L, d.y, k)

\* From every node below which k belongs it finds k or the place of k.
LEMMA WayIs ==
    ASSUME NEW t, NEW L, WellLinked(t, L), Sparse(t, L), Keyed(t, L), NEW k \in Keys
    PROVE  \A n \in L : Belongs(t, L, n, k) => Descended(t, L, k, Way(t, k)[n])
<1> DEFINE S == {n \in L : Belongs(t, L, n, k) /\ ~Descended(t, L, k, Way(t, k)[n])}
<1> SUFFICES ASSUME S # {} PROVE FALSE
  OBVIOUS
<1>1. PICK n \in S : \A r \in Sides : t.kid[r][n] \notin S
  BY DEF WellLinked, Bottom
<1> HIDE DEF S
<1>2. n \in L /\ n \in Nodes /\ Belongs(t, L, n, k) /\ ~Descended(t, L, k, Way(t, k)[n])
  BY <1>1 DEF S, WellLinked
<1>3. PICK s, m : s = SideOf(t, k, n) /\ m = t.kid[s][n]
  OBVIOUS
<1>4. Way(t, k)[n] = IF k = t.key[n] THEN [x |-> n, y |-> n]
                     ELSE IF m = RBNULL THEN [x |-> RBNULL, y |-> n]
                     ELSE Way(t, k)[m]
  BY <1>2, <1>3, WayStep
<1>5. s \in Sides
  BY <1>3 DEF SideOf, Sides
<1>6. CASE k = t.key[n]
  BY <1>2, <1>4, <1>6 DEF Descended
<1>7. CASE k # t.key[n] /\ m = RBNULL
  <2>1. PICK d : d = [x |-> RBNULL, y |-> n]
    OBVIOUS
  <2>2. d.x = RBNULL /\ d.y = n /\ Way(t, k)[n] = d
    BY <2>1, <1>4, <1>7
  <2>3. t.kid[SideOf(t, k, n)][n] = RBNULL
    BY <1>3, <1>7
  <2>4. Descended(t, L, k, d)
    BY <2>2, <2>3, <1>2, <1>7 DEF Descended
  <2> QED
    BY <2>2, <2>4, <1>2
<1>8. CASE k # t.key[n] /\ m # RBNULL
  <2>1. m \in L /\ m \notin S /\ t.up[m] = n /\ m # n
    BY <1>1, <1>2, <1>3, <1>5, <1>8, Apart DEF WellLinked, KidsFit
  <2>2. t.key[n] \in Int /\ k \in Int
    BY <1>2, KeysAreIntegers DEF Keyed
  <2>3. Beyond(s, k, t.key[n])
    BY <2>2, <1>3, <1>8 DEF SideOf, Beyond
  <2>4. ASSUME NEW q \in L, NEW r \in Sides, m \in Under(t, L, t.kid[r][q])
        PROVE  Beyond(r, k, t.key[q])
    <3>1. CASE q = n
      <4>1. m \in Under(t, L, m)
        BY <2>1, UnderSet
      <4>2. r = s
        BY <4>1, <3>1, <2>4, <1>2, <1>3, <1>5, KidsApart, SidesAre
      <4> QED
        BY <4>2, <3>1, <2>3
    <3>2. CASE q # n
      <4>1. t.kid[r][q] \in L
        BY <2>4, UnderSet
      <4>2. t.kid[r][q] # m
        BY <4>1, <3>2, <2>1, NodesDistinct DEF WellLinked, KidsFit
      <4>3. n \in Under(t, L, t.kid[r][q])
        BY <4>2, <2>1, <2>4, UnderParent
      <4> QED
        BY <4>3, <1>2 DEF Belongs
    <3> QED
      BY <3>1, <3>2
  <2>5. Belongs(t, L, m, k)
    BY <2>4 DEF Belongs
  <2>6. Descended(t, L, k, Way(t, k)[m])
    BY <2>1, <2>5 DEF S
  <2> QED
    BY <2>6, <1>2, <1>4, <1>8
<1> QED
  BY <1>6, <1>7, <1>8

\* From the root, the descent of rblookup and _traverse finds k or its place.
LEMMA DescendIs ==
    ASSUME NEW t, NEW L, WellLinked(t, L), Sparse(t, L), Keyed(t, L), NEW k \in Keys
    PROVE  IF L = {} THEN Descend(t, k) = [x |-> RBNULL, y |-> RBNULL]
           ELSE Descended(t, L, k, Descend(t, k))
<1>1. L = {} <=> t.root = RBNULL
  BY RootEmpty
<1>2. CASE L = {}
  BY <1>1, <1>2 DEF Descend
<1>3. CASE L # {}
  <2>1. Descend(t, k) = Way(t, k)[t.root]
    BY <1>1, <1>3 DEF Descend, Way
  <2>2. t.root \in L
    BY <1>1, <1>3 DEF WellLinked, RootFits
  <2>3. ASSUME NEW q \in L, NEW r \in Sides, t.root \in Under(t, L, t.kid[r][q]) PROVE FALSE
    <3>1. q \in Under(t, L, t.kid[r][q])
      BY <2>3, UnderRoot, UnderTrans
    <3> QED
      BY <3>1, NotUnderKid
  <2>4. Belongs(t, L, t.root, k)
    BY <2>3 DEF Belongs
  <2> QED
    BY <2>1, <2>2, <2>4, <1>3, WayIs
<1> QED
  BY <1>2, <1>3

\* Between the node where the descent for k ended and k there is no key, nor is k one.
LEMMA NoneBetween ==
    ASSUME NEW t, NEW L, WellLinked(t, L), Keyed(t, L), Ordered(t, L), NEW k \in Keys,
           NEW w \in L, NEW s \in Sides, t.kid[s][w] = RBNULL, Belongs(t, L, w, k),
           Beyond(s, k, t.key[w])
    PROVE  \A q \in L :
              \/ Beyond(s, t.key[q], k)
              \/ /\ Beyond(Other(s), t.key[q], k)
                 /\ q = w \/ Beyond(Other(s), t.key[q], t.key[w])
<1> SUFFICES ASSUME NEW q \in L
             PROVE  \/ Beyond(s, t.key[q], k)
                    \/ /\ Beyond(Other(s), t.key[q], k)
                       /\ q = w \/ Beyond(Other(s), t.key[q], t.key[w])
  OBVIOUS
<1>1. \A m \in L : t.key[m] \in Keys
  BY DEF Keyed
<1>2. s \in Sides /\ Other(s) \in Sides /\ Other(Other(s)) = s /\ Sides = {s, Other(s)}
  BY SidesAre
<1>3. Beyond(Other(s), t.key[w], k)
  BY <1>1, BeyondLaws
<1>4. ASSUME Beyond(Other(s), t.key[q], t.key[w]) PROVE Beyond(Other(s), t.key[q], k)
  BY <1>1, <1>2, <1>3, <1>4, BeyondLaws
<1>5. CASE w \in Under(t, L, q) /\ w # q
  <2>1. Under(t, L, q) = {q} \union Under(t, L, t.kid[s][q]) \union Under(t, L, t.kid[Other(s)][q])
    BY UnderSplit
  <2>2. PICK r \in Sides : w \in Under(t, L, t.kid[r][q])
    BY <2>1, <1>2, <1>5
  <2>3. Beyond(r, t.key[w], t.key[q]) /\ Beyond(r, k, t.key[q])
    BY <2>2 DEF Ordered, Belongs
  <2>4. CASE r = s
    BY <2>3, <2>4, <1>1, <1>4, BeyondLaws
  <2>5. CASE r = Other(s)
    <3>1. Beyond(Other(s), k, t.key[q]) /\ t.key[q] \in Keys
      BY <2>3, <2>5, <1>1
    <3>2. Beyond(Other(Other(s)), t.key[q], k)
      BY <3>1, <1>2, BeyondLaws
    <3> QED
      BY <3>2, <1>2
  <2> QED
    BY <2>4, <2>5, <1>2
<1>6. CASE q \in Under(t, L, w)
  <2>1. Under(t, L, w) = {w} \union Under(t, L, t.kid[s][w]) \union Under(t, L, t.kid[Other(s)][w])
    BY UnderSplit
  <2>2. Under(t, L, t.kid[s][w]) = {}
    BY UnderSet, NodesDistinct DEF WellLinked
  <2>3. CASE q = w
    BY <2>3, <1>3
  <2>4. CASE q \in Under(t, L, t.kid[Other(s)][w])
    BY <2>4, <1>2, <1>4 DEF Ordered
  <2> QED
    BY <2>1, <2>2, <2>3, <2>4, <1>6
<1>7. CASE \E a \in L : Parted(t, L, a, q, w)
  <2>1. PICK a \in L, r \in Sides :
           q \in Under(t, L, t.kid[r][a]) /\ w \in Under(t, L, t.kid[Other(r)][a])
    BY <1>7 DEF Parted
  <2>2. Other(r) \in Sides /\ Other(Other(r)) = r
    BY SidesAre
  <2>3. /\ Beyond(r, t.key[q], t.key[a]) /\ Beyond(Other(r), t.key[w], t.key[a])
        /\ Beyond(Other(r), k, t.key[a])
    BY <2>1, <2>2 DEF Ordered, Belongs
  <2>4. CASE r = s
    <3>1. Beyond(s, t.key[a], k) /\ Beyond(s, t.key[q], t.key[a])
      BY <2>3, <2>4, <1>1, <1>2, BeyondLaws
    <3>2. t.key[a] \in Keys /\ t.key[q] \in Keys
      BY <1>1
    <3>3. Beyond(s, t.key[q], k)
      BY <3>1, <3>2, BeyondLaws
    <3> QED
      BY <3>3
  <2>5. CASE r = Other(s)
    <3>1. Beyond(Other(s), t.key[a], t.key[w])
      BY <2>3, <2>5, <1>1, <1>2, BeyondLaws
    <3>2. Beyond(Other(s), t.key[q], t.key[w])
      BY <3>1, <2>3, <2>5, <1>1, <1>2, BeyondLaws
    <3> QED
      BY <3>2, <1>4
  <2> QED
    BY <2>4, <2>5, <1>2
<1>8. q \in Under(t, L, q)
  BY UnderSet
<1> QED
  BY <1>5, <1>6, <1>7, <1>8, Join DEF Joined

\* A function on the pointers can be defined from the leaves of the tree up.
LEMMA FallsDown ==
    ASSUME NEW t, NEW L, WellLinked(t, L), Sparse(t, L)
    PROVE  Falls(Pointers, {RBNULL}, t.kid["left"], t.kid["right"])
<1>1. "left" \in Sides /\ "right" \in Sides
  BY DEF Sides
<1>2. \A n \in Pointers : t.kid["left"][n] \in Pointers /\ t.kid["right"][n] \in Pointers
  BY <1>1, KidsArePointers DEF WellLinked
<1>3. ASSUME NEW S \in SUBSET Pointers, S # {}
      PROVE  \E n \in S : \/ n \in {RBNULL}
                          \/ t.kid["left"][n] \notin S /\ t.kid["right"][n] \notin S
  BY <1>1, <1>3, Grounded
<1> QED
  BY <1>2, <1>3 DEF Falls

\* What the descent of _destroy and _check1 comes to is the tree.
LEMMA ReachedIs ==
    ASSUME NEW L, WellLinked(h, L), Sparse(h, L)
    PROVE  Reached = L
<1> DEFINE V == SUBSET Pointers
           comb == [e \in Pointers \X V \X V |-> {e[1]} \union e[2] \union e[3]]
           Body(f) == [n \in Pointers |->
                          IF n = RBNULL THEN {}
                          ELSE {n} \union f[h.kid["left"][n]] \union f[h.kid["right"][n]]]
           Below == CHOOSE f : f = Body(f)
<1>1. comb \in [Pointers \X V \X V -> V]
  OBVIOUS
<1>2. {} \in V
  OBVIOUS
<1>3. \A n \in Pointers : h.kid["left"][n] \in Pointers /\ h.kid["right"][n] \in Pointers
  BY KidsArePointers DEF WellLinked, Sides
<1>4. \E f : f = Body(f)
  <2>1. PICK f \in [Pointers -> V] :
           Folded(f, Pointers, {RBNULL}, h.kid["left"], h.kid["right"], {}, comb)
    <3> HIDE DEF comb, V
    <3> QED
      BY <1>1, <1>2, FallsDown, TreeFunction
  <2>2. \A n \in Pointers : f[n] = IF n \in {RBNULL} THEN {}
                                   ELSE comb[<<n, f[h.kid["left"][n]], f[h.kid["right"][n]]>>]
    BY <2>1 DEF Folded
  <2>3. ASSUME NEW n \in Pointers
        PROVE  f[n] = IF n = RBNULL THEN {}
                      ELSE {n} \union f[h.kid["left"][n]] \union f[h.kid["right"][n]]
    <3>1. PICK a, b : a = f[h.kid["left"][n]] /\ b = f[h.kid["right"][n]]
      OBVIOUS
    <3>2. a \in V /\ b \in V
      BY <3>1, <1>3, <2>1
    <3>3. comb[<<n, a, b>>] = {n} \union a \union b
      BY <3>2
    <3> HIDE DEF comb
    <3> QED
      BY <3>1, <3>3, <2>2
  <2>4. f = Body(f)
    <3>1. f = [n \in Pointers |-> f[n]]
      BY <2>1
    <3> HIDE DEF V, comb
    <3> QED
      BY <2>3, <3>1
  <2> QED
    BY <2>4
<1>5. Below = Body(Below)
  BY <1>4
<1>6. Reached = Below[h.root]
  BY DEF Reached
<1>7. \A n \in Pointers : Below[n] = IF n = RBNULL THEN {}
                      ELSE {n} \union Below[h.kid["left"][n]] \union Below[h.kid["right"][n]]
  BY <1>5
<1> HIDE DEF Below
<1>8. L \subseteq Pointers /\ RBNULL \notin L /\ RBNULL \in Pointers
  BY NodesDistinct DEF WellLinked, Pointers
<1>9. \A n \in L : Below[n] = Under(h, L, n)
  <2> DEFINE S == {n \in L : Below[n] # Under(h, L, n)}
  <2> SUFFICES ASSUME S # {} PROVE FALSE
    OBVIOUS
  <2>1. PICK n \in S : \A r \in Sides : h.kid[r][n] \notin S
    BY DEF WellLinked, Bottom
  <2>2. n \in L /\ Below[n] # Under(h, L, n)
    BY <2>1
  <2>3. \A r \in Sides : Below[h.kid[r][n]] = Under(h, L, h.kid[r][n])
    <3>1. \A r \in Sides : h.kid[r][n] \in L \union {RBNULL}
      BY <2>2 DEF WellLinked, KidsFit
    <3>2. Below[RBNULL] = Under(h, L, RBNULL)
      BY <1>7, <1>8, UnderSet
    <3> QED
      BY <2>1, <3>1, <3>2
  <2>4. Under(h, L, n) = {n} \union Under(h, L, h.kid["left"][n])
                             \union Under(h, L, h.kid[Other("left")][n])
    BY <2>2, UnderSplit DEF Sides
  <2>5. "left" \in Sides /\ "right" \in Sides /\ Other("left") = "right"
    BY DEF Sides, Other
  <2> HIDE DEF S
  <2> QED
    BY <2>2, <2>3, <2>4, <2>5, <1>7, <1>8
<1>10. CASE h.root = RBNULL
  BY <1>6, <1>7, <1>8, <1>10, RootEmpty
<1>11. CASE h.root # RBNULL
  <2>1. h.root \in L
    BY <1>11 DEF WellLinked, RootFits
  <2> QED
    BY <2>1, <1>6, <1>9, UnderRoot
<1> QED
  BY <1>10, <1>11

\* CountBlack finds the counts bh when they agree.
LEMMA CountIs ==
    ASSUME WellLinked(h, InTree), Sparse(h, InTree), NEW bh,
           Blacks(h, InTree, Lacking, bh)
    PROVE  CountBlack = bh[h.root]
<1> DEFINE L == InTree
           Extra(n, s) == IF pc = "delete" /\ ~h.red[y] /\ h.kid[s][n] = x /\ h.up[x] = n
                          THEN 1 ELSE 0
           Sum(n, i, j) == IF i = -1 \/ j = -1 \/ i + Extra(n, "left") # j + Extra(n, "right")
                           THEN -1 ELSE i + Extra(n, "left") + Tint(h, n)
           comb == [e \in Pointers \X Int \X Int |-> Sum(e[1], e[2], e[3])]
           Body(f) == [n \in Pointers |->
                          IF n = RBNULL THEN 1
                          ELSE Sum(n, f[h.kid["left"][n]], f[h.kid["right"][n]])]
           Count == CHOOSE f : f = Body(f)
<1>1. \A n \in Pointers, i \in Int, j \in Int : Sum(n, i, j) \in Int
  BY DEF Tint
<1>2. CountBlack = Count[h.root]
  BY DEF CountBlack, Tint
<1>3. \A n, s : Extra(n, s) = Lack(h, Lacking, n, s)
  BY DEF Lack, Lacking, Repairs
<1>4. \A n, s : Lack(h, Lacking, n, s) \in {0, 1}
  BY DEF Lack
<1> HIDE DEF Sum, Extra
<1>5. comb \in [Pointers \X Int \X Int -> Int]
  BY <1>1
<1>6. \A n \in Pointers : h.kid["left"][n] \in Pointers /\ h.kid["right"][n] \in Pointers
  BY KidsArePointers DEF WellLinked, Sides
<1>7. \E f : f = Body(f)
  <2>1. PICK f \in [Pointers -> Int] :
           Folded(f, Pointers, {RBNULL}, h.kid["left"], h.kid["right"], 1, comb)
    <3>1. Falls(Pointers, {RBNULL}, h.kid["left"], h.kid["right"]) /\ 1 \in Int
      BY FallsDown
    <3> HIDE DEF comb
    <3> QED
      BY <1>5, <3>1, TreeFunction
  <2>2. \A n \in Pointers : f[n] = IF n \in {RBNULL} THEN 1
                                   ELSE comb[<<n, f[h.kid["left"][n]], f[h.kid["right"][n]]>>]
    BY <2>1 DEF Folded
  <2>3. \A n \in Pointers : f[n] = IF n = RBNULL THEN 1
                                   ELSE Sum(n, f[h.kid["left"][n]], f[h.kid["right"][n]])
    BY <2>1, <2>2, <1>6
  <2>4. f = Body(f)
    <3>1. f = [n \in Pointers |-> f[n]]
      BY <2>1
    <3> HIDE DEF comb
    <3> QED
      BY <2>3, <3>1
  <2> QED
    BY <2>4
<1>8. Count = Body(Count)
  BY Zenon, <1>7
<1>9. \A n \in Pointers : Count[n] = IF n = RBNULL THEN 1
                                     ELSE Sum(n, Count[h.kid["left"][n]], Count[h.kid["right"][n]])
  BY <1>8
<1> HIDE DEF Count
<1>10. L \subseteq Pointers /\ RBNULL \notin L /\ RBNULL \in Pointers
  BY NodesDistinct DEF WellLinked, Pointers
<1>11. Count[RBNULL] = bh[RBNULL]
  BY <1>9, <1>10 DEF Blacks
<1>12. \A n \in L : Count[n] = bh[n]
  <2> DEFINE S == {n \in L : Count[n] # bh[n]}
  <2> SUFFICES ASSUME S # {} PROVE FALSE
    OBVIOUS
  <2>1. PICK n \in S : \A r \in Sides : h.kid[r][n] \notin S
    BY DEF WellLinked, Bottom
  <2>2. n \in L /\ Count[n] # bh[n]
    BY <2>1
  <2>3. \A r \in Sides : Count[h.kid[r][n]] = bh[h.kid[r][n]]
    <3>1. \A r \in Sides : h.kid[r][n] \in L \union {RBNULL}
      BY <2>2 DEF WellLinked, KidsFit
    <3> QED
      BY <2>1, <3>1, <1>11
  <2> HIDE DEF S, L
  <2>4. "left" \in Sides /\ "right" \in Sides
    BY DEF Sides
  <2>5. \A s \in Sides : bh[n] = bh[h.kid[s][n]] + Lack(h, Lacking, n, s) + Tint(h, n)
    BY <2>2 DEF Blacks, L
  <2>6. PICK i, j : i = bh[h.kid["left"][n]] /\ j = bh[h.kid["right"][n]]
    OBVIOUS
  <2>7. i \in Nat /\ j \in Nat /\ bh[n] \in Nat
    BY <2>2, <2>6, <1>6, <1>10 DEF Blacks
  <2>8. Count[n] = Sum(n, i, j)
    BY <2>2, <2>3, <2>4, <2>6, <1>9, <1>10
  <2>9. Extra(n, "left") \in {0, 1} /\ Extra(n, "right") \in {0, 1} /\ Tint(h, n) \in {0, 1}
    BY <1>3, <1>4 DEF Tint
  <2>10. bh[n] = i + Extra(n, "left") + Tint(h, n) /\ bh[n] = j + Extra(n, "right") + Tint(h, n)
    BY <2>4, <2>5, <2>6, <1>3
  <2>11. Sum(n, i, j) = bh[n]
    BY <2>7, <2>9, <2>10 DEF Sum
  <2> QED
    BY <2>2, <2>8, <2>11
<1> QED
  BY <1>2, <1>11, <1>12 DEF WellLinked, RootFits

-----------------------------------------------------------------------------
(* What a rotation does to the colours. *)

\* The links and the order of a search tree.
Shaped(t, L) == WellLinked(t, L) /\ Keyed(t, L) /\ Ordered(t, L)
\* t2 differs from t at the nodes of L only, and in no key.
Within(t, t2, L) ==
    /\ t2.key = t.key
    /\ \A q \in Pointers \ L :
          /\ t2.up[q] = t.up[q] /\ t2.red[q] = t.red[q]
          /\ \A s \in Sides : t2.kid[s][q] = t.kid[s][q]
\* t2 is a search tree of the same nodes with the same keys.
Turned(t, t2, L) == Within(t, t2, L) /\ Shaped(t2, L)

\* One colour changed leaves such a tree.
LEMMA TurnRed ==
    ASSUME NEW t, NEW L, Shaped(t, L), NEW n \in L, NEW c, NEW t2, RedSet(t, t2, n, c)
    PROVE  Turned(t, t2, L)
<1>1. WellLinked(t2, L)
  BY SameLinks DEF RedSet, Shaped
<1>2. Ordered(t2, L)
  BY SameOrder DEF RedSet, Shaped
<1> QED
  BY <1>1, <1>2 DEF RedSet, Shaped, Turned, Within, Keyed

\* Two such steps are one.
LEMMA TurnTrans ==
    ASSUME NEW t, NEW t1, NEW t2, NEW L, Turned(t, t1, L), Turned(t1, t2, L)
    PROVE  Turned(t, t2, L)
BY DEF Turned, Within

\* A rotation leaves one.
LEMMA TurnRotate ==
    ASSUME NEW t, NEW L, Shaped(t, L), NEW n \in L, NEW s \in Sides, t.kid[Other(s)][n] # RBNULL
    PROVE  Turned(t, Rotate(t, n, s), L)
<1>1. PICK m, b, p, t2 :
         m = t.kid[Other(s)][n] /\ b = t.kid[s][m] /\ p = t.up[n] /\ t2 = Rotate(t, n, s)
  OBVIOUS
<1>2. /\ Rotated(t, t2, n, m, b, p, s)
      /\ m \in L /\ b \in L \union {RBNULL} /\ p \in L \union {RBNULL}
  BY <1>1, RotateFacts DEF Shaped
<1>3. WellLinked(t2, L) /\ Ordered(t2, L)
  BY <1>1, RotateLinks, RotateOrder DEF Shaped
<1>4. Within(t, t2, L)
  BY <1>2 DEF Rotated, Within
<1>5. Keyed(t2, L)
  BY <1>4 DEF Within, Keyed, Shaped
<1> QED
  BY <1>1, <1>3, <1>4, <1>5 DEF Turned, Shaped

\* Away from the two nodes of a rotation only the child that was n changes.
LEMMA RotateOther ==
    ASSUME NEW t, NEW L, WellLinked(t, L), NEW n \in L, NEW s \in Sides, NEW m, NEW t2,
           m = t.kid[Other(s)][n], m # RBNULL, t2 = Rotate(t, n, s)
    PROVE  \A q \in L \ {n, m}, r \in Sides :
              \/ t.kid[r][q] = n /\ t2.kid[r][q] = m /\ q = t.up[n] /\ q # RBNULL
              \/ /\ t.kid[r][q] # n /\ t.kid[r][q] # m /\ t2.kid[r][q] = t.kid[r][q]
                 /\ t2.up[t.kid[r][q]] = q <=> t.up[t.kid[r][q]] = q
<1>1. PICK b, p : b = t.kid[s][m] /\ p = t.up[n]
  OBVIOUS
<1>2. /\ Rotated(t, t2, n, m, b, p, s)
      /\ m \in L /\ b \in L \union {RBNULL} /\ p \in L \union {RBNULL}
      /\ n # m /\ b # n /\ b # m /\ p # n /\ p # m
      /\ t.up[m] = n /\ (b # RBNULL => t.up[b] = m) /\ n # RBNULL
  BY <1>1, RotateFacts
<1> SUFFICES ASSUME NEW q \in L \ {n, m}, NEW r \in Sides
             PROVE
              \/ t.kid[r][q] = n /\ t2.kid[r][q] = m /\ q = t.up[n] /\ q # RBNULL
              \/ /\ t.kid[r][q] # n /\ t.kid[r][q] # m /\ t2.kid[r][q] = t.kid[r][q]
                 /\ t2.up[t.kid[r][q]] = q <=> t.up[t.kid[r][q]] = q
  OBVIOUS
<1>3. /\ t.kid[r][q] \in L \union {RBNULL} /\ q \in Pointers /\ q # RBNULL
      /\ t.kid[r][q] # RBNULL => t.up[t.kid[r][q]] = q
      /\ t.kid[r][q] \in Pointers
  BY NodesDistinct DEF WellLinked, KidsFit, Pointers
<1>4. t2.kid[r][q] = IF p # RBNULL /\ q = p /\ t.kid[r][p] = n THEN m ELSE t.kid[r][q]
  BY <1>2, <1>3 DEF Rotated
<1>5. CASE t.kid[r][q] = n
  BY <1>1, <1>2, <1>3, <1>4, <1>5
<1>6. CASE t.kid[r][q] # n
  <2>1. t2.kid[r][q] = t.kid[r][q]
    BY <1>4, <1>6
  <2>2. t.kid[r][q] # m /\ (b # RBNULL => t.kid[r][q] # b)
    BY <1>2, <1>3
  <2>3. t2.up[t.kid[r][q]] = t.up[t.kid[r][q]]
    BY <2>2, <1>2, <1>3, <1>6 DEF Rotated
  <2> QED
    BY <2>1, <2>2, <2>3, <1>6
<1> QED
  BY <1>5, <1>6

\* The counts bh fit every node but n and its child m, once m has the place of n.
FitsAbove(t, L, D, bh, n, m) ==
    /\ bh \in [Pointers -> Nat] /\ bh[RBNULL] = 1
    /\ n \notin D /\ m \notin D
    /\ \A q \in L \ {n, m}, r \in Sides :
          IF t.kid[r][q] = n THEN bh[q] = bh[m] + Tint(t, q)
          ELSE bh[q] = bh[t.kid[r][q]] + Lack(t, D, q, r) + Tint(t, q)

\* What a rotation needs to keep the counts.
LEMMA RotateBlacks ==
    ASSUME NEW t, NEW L, WellLinked(t, L), NEW n \in L, NEW s \in Sides, NEW m, NEW b, NEW t2,
           m = t.kid[Other(s)][n], m # RBNULL, b = t.kid[s][m], t2 = Rotate(t, n, s),
           NEW D, NEW bh, FitsAbove(t, L, D, bh, n, m),
           b \in D => b = RBNULL /\ t.up[b] # n,
           bh[n] = bh[t.kid[s][n]] + Lack(t, D, n, s) + Tint(t, n),
           bh[n] = bh[b] + Tint(t, n),
           bh[m] = bh[n] + Tint(t, m),
           bh[m] = bh[t.kid[Other(s)][m]] + Lack(t, D, m, Other(s)) + Tint(t, m)
    PROVE  Blacks(t2, L, D, bh)
<1>1. PICK p : p = t.up[n]
  OBVIOUS
<1>2. /\ Rotated(t, t2, n, m, b, p, s)
      /\ m \in L /\ b \in L \union {RBNULL} /\ p \in L \union {RBNULL}
      /\ n # m /\ b # n /\ b # m /\ p # n /\ p # m
      /\ t.up[m] = n /\ (b # RBNULL => t.up[b] = m) /\ n # RBNULL
  BY <1>1, RotateFacts
<1>3. /\ Other(s) \in Sides /\ Other(s) # s /\ Sides = {s, Other(s)}
      /\ L \subseteq Pointers /\ RBNULL \notin L /\ RBNULL \in Pointers
  BY Zenon, SidesAre, NodesDistinct DEF WellLinked, Pointers
<1>4. \A q : Tint(t2, q) = Tint(t, q)
  BY ONLY <1>2 DEF Rotated, Tint
<1>5. /\ \A r \in Sides, q \in Pointers :
          t2.kid[r][q] = IF q = n /\ r = Other(s) THEN b
                         ELSE IF q = m /\ r = s THEN n
                         ELSE IF p # RBNULL /\ q = p /\ t.kid[r][p] = n THEN m
                         ELSE t.kid[r][q]
      /\ \A q \in Pointers :
          t2.up[q] = IF q = n THEN m ELSE IF q = m THEN p
                     ELSE IF b # RBNULL /\ q = b THEN n ELSE t.up[q]
  BY ONLY <1>2 DEF Rotated
<1>6. /\ t.kid[s][n] \in L \union {RBNULL} /\ (t.kid[s][n] # RBNULL => t.up[t.kid[s][n]] = n)
      /\ t.kid[Other(s)][m] \in L \union {RBNULL}
      /\ t.kid[Other(s)][m] # RBNULL => t.up[t.kid[Other(s)][m]] = m
  BY <1>2, <1>3 DEF WellLinked, KidsFit
<1>7. ASSUME NEW q \in L \ {n, m}, NEW r \in Sides
      PROVE  bh[q] = bh[t2.kid[r][q]] + Lack(t2, D, q, r) + Tint(t2, q)
  <2>1. CASE t.kid[r][q] = n
    <3>1. t2.kid[r][q] = m
      BY <2>1, RotateOther
    <3>2. Lack(t2, D, q, r) = 0
      BY Zenon, <3>1 DEF Lack, FitsAbove
    <3>3. bh[q] = bh[m] + Tint(t, q)
      BY Zenon, <2>1 DEF FitsAbove
    <3>4. bh[m] \in Nat /\ Tint(t, q) \in Nat
      BY <1>2, <1>3 DEF FitsAbove, Tint
    <3> QED
      BY ONLY <3>1, <3>2, <3>3, <3>4, <1>4
  <2>2. CASE t.kid[r][q] # n
    <3>1. t2.kid[r][q] = t.kid[r][q] /\ (t2.up[t.kid[r][q]] = q <=> t.up[t.kid[r][q]] = q)
      BY <2>2, RotateOther
    <3>2. Lack(t2, D, q, r) = Lack(t, D, q, r)
      BY ONLY <3>1 DEF Lack
    <3>3. bh[q] = bh[t.kid[r][q]] + Lack(t, D, q, r) + Tint(t, q)
      BY <2>2 DEF FitsAbove
    <3> QED
      BY ONLY <3>1, <3>2, <3>3, <1>4
  <2> QED
    BY <2>1, <2>2
<1>8. bh[n] = bh[t2.kid[s][n]] + Lack(t2, D, n, s) + Tint(t2, n)
  <2>1. t2.kid[s][n] = t.kid[s][n]
    BY <1>2, <1>3, <1>5
  <2>2. t.kid[s][n] # m /\ (b # RBNULL => t.kid[s][n] # b) /\ t.kid[s][n] # n
    <3>1. t.kid["left"][n] = t.kid["right"][n] => t.kid["left"][n] = RBNULL
      BY DEF WellLinked, KidsFit
    <3>2. t.kid[s][n] # m
      BY <3>1, <1>3 DEF Sides, Other
    <3>3. b # RBNULL => t.kid[s][n] # b
      BY ONLY <1>2, <1>6
    <3>4. t.kid[s][n] # n
      <4>1. CASE t.kid[s][n] = RBNULL
        BY ONLY <4>1, <1>2
      <4>2. CASE t.kid[s][n] # RBNULL
        BY <4>2, Apart
      <4> QED
        BY <4>1, <4>2
    <3> QED
      BY <3>2, <3>3, <3>4
  <2>3. t2.up[t.kid[s][n]] = t.up[t.kid[s][n]]
    BY ONLY <2>2, <1>3, <1>5, <1>6
  <2>4. Lack(t2, D, n, s) = Lack(t, D, n, s)
    BY <2>1, <2>3 DEF Lack
  <2> QED
    BY Zenon, <2>1, <2>4, <1>4
<1>9. bh[n] = bh[t2.kid[Other(s)][n]] + Lack(t2, D, n, Other(s)) + Tint(t2, n)
  <2>1. t2.kid[Other(s)][n] = b
    BY <1>2, <1>3, <1>5
  <2>2. Lack(t2, D, n, Other(s)) = 0
    <3>1. CASE b \in D
      <4>1. b = RBNULL /\ t2.up[b] # n
        BY <3>1, <1>2, <1>3, <1>5
      <4> QED
        BY <4>1, <2>1 DEF Lack
    <3>2. CASE b \notin D
      BY ONLY <3>2, <2>1 DEF Lack
    <3> QED
      BY <3>1, <3>2
  <2>3. bh[b] \in Nat /\ Tint(t, n) \in Nat
    BY <1>2, <1>3 DEF FitsAbove, Tint
  <2> QED
    BY <2>1, <2>2, <2>3, <1>4
<1>10. bh[m] = bh[t2.kid[s][m]] + Lack(t2, D, m, s) + Tint(t2, m)
  <2>1. t2.kid[s][m] = n
    BY ONLY <1>2, <1>3, <1>5
  <2>2. Lack(t2, D, m, s) = 0
    BY Zenon, <2>1 DEF Lack, FitsAbove
  <2>3. bh[n] \in Nat /\ Tint(t, m) \in Nat
    BY <1>2, <1>3 DEF FitsAbove, Tint
  <2> QED
    BY <2>1, <2>2, <2>3, <1>4
<1>11. bh[m] = bh[t2.kid[Other(s)][m]] + Lack(t2, D, m, Other(s)) + Tint(t2, m)
  <2>1. t2.kid[Other(s)][m] = t.kid[Other(s)][m]
    BY <1>2, <1>3, <1>5
  <2>2. /\ t.kid[Other(s)][m] # n /\ t.kid[Other(s)][m] # m
        /\ b # RBNULL => t.kid[Other(s)][m] # b
    <3>1. t.kid["left"][m] = t.kid["right"][m] => t.kid["left"][m] = RBNULL
      BY <1>2 DEF WellLinked, KidsFit
    <3>2. b # RBNULL => t.kid[Other(s)][m] # b
      BY <3>1, <1>3 DEF Sides, Other
    <3>3. \A r \in Sides : t.kid[r][m] # n /\ t.kid[r][m] # m
      <4>1. Other(s) \in Sides
        BY <1>3
      <4> QED
        BY <4>1, Apart
    <3> QED
      BY ONLY <3>2, <3>3, <1>3
  <2>3. t2.up[t.kid[Other(s)][m]] = t.up[t.kid[Other(s)][m]]
    BY <2>2, <1>3, <1>5, <1>6
  <2>4. Lack(t2, D, m, Other(s)) = Lack(t, D, m, Other(s))
    BY <2>1, <2>3 DEF Lack
  <2> QED
    BY <2>1, <2>4, <1>4
<1>12. \A q \in L, r \in Sides : bh[q] = bh[t2.kid[r][q]] + Lack(t2, D, q, r) + Tint(t2, q)
  <2> TAKE q \in L, r \in Sides
  <2>1. CASE q \in L \ {n, m}
    BY <2>1, <1>7
  <2>2. CASE q = n
    BY <2>2, <1>3, <1>8, <1>9
  <2>3. CASE q = m
    BY ONLY <2>3, <1>3, <1>10, <1>11
  <2> QED
    BY <2>1, <2>2, <2>3
<1> QED
  BY <1>12 DEF Blacks, FitsAbove

\* No red node away from n and its child m has a red child, once m has the place of n.
CalmAbove(t, L, A, B, n, m) ==
    /\ ~t.red[RBNULL]
    /\ t.red[IF t.root = n THEN m ELSE t.root] => (IF t.root = n THEN m ELSE t.root) \in B
    /\ \A q \in L \ {n, m}, r \in Sides :
          IF t.kid[r][q] = n THEN t.red[q] /\ t.red[m] => q \in A \/ m \in B
          ELSE t.red[q] /\ t.red[t.kid[r][q]] => q \in A \/ t.kid[r][q] \in B

\* What a rotation needs to leave no red node with a red child.
LEMMA RotateReds ==
    ASSUME NEW t, NEW L, WellLinked(t, L), NEW n \in L, NEW s \in Sides, NEW m, NEW b, NEW t2,
           m = t.kid[Other(s)][n], m # RBNULL, b = t.kid[s][m], t2 = Rotate(t, n, s),
           NEW A, NEW B, CalmAbove(t, L, A, B, n, m),
           t.red[n] /\ t.red[t.kid[s][n]] => n \in A \/ t.kid[s][n] \in B,
           t.red[n] /\ t.red[b] => n \in A \/ b \in B,
           t.red[m] /\ t.red[n] => m \in A \/ n \in B,
           t.red[m] /\ t.red[t.kid[Other(s)][m]] => m \in A \/ t.kid[Other(s)][m] \in B
    PROVE  Reds(t2, L, A, B)
<1>1. PICK p : p = t.up[n]
  OBVIOUS
<1>2. /\ Rotated(t, t2, n, m, b, p, s)
      /\ m \in L /\ b \in L \union {RBNULL} /\ p \in L \union {RBNULL}
      /\ n # m /\ b # n /\ b # m /\ p # n /\ p # m /\ n # RBNULL
  BY <1>1, RotateFacts
<1>3. /\ Other(s) \in Sides /\ Other(s) # s /\ Sides = {s, Other(s)}
      /\ L \subseteq Pointers /\ (p = RBNULL <=> n = t.root)
  BY SidesAre, NodesDistinct, Parent, <1>1 DEF WellLinked, Pointers
<1>4. /\ t2.red = t.red /\ t2.root = IF p = RBNULL THEN m ELSE t.root
      /\ \A r \in Sides, q \in Pointers :
          t2.kid[r][q] = IF q = n /\ r = Other(s) THEN b
                         ELSE IF q = m /\ r = s THEN n
                         ELSE IF p # RBNULL /\ q = p /\ t.kid[r][p] = n THEN m
                         ELSE t.kid[r][q]
  BY <1>2 DEF Rotated
<1>5. ASSUME NEW q \in L \ {n, m}, NEW r \in Sides, t.red[q], t.red[t2.kid[r][q]]
      PROVE  q \in A \/ t2.kid[r][q] \in B
  <2>1. CASE t.kid[r][q] = n
    <3>1. t2.kid[r][q] = m
      BY <2>1, RotateOther
    <3> QED
      BY <3>1, <2>1, <1>5 DEF CalmAbove
  <2>2. CASE t.kid[r][q] # n
    <3>1. t2.kid[r][q] = t.kid[r][q]
      BY <2>2, RotateOther
    <3> QED
      BY <3>1, <2>2, <1>5 DEF CalmAbove
  <2> QED
    BY <2>1, <2>2
<1>6. ASSUME NEW r \in Sides, t.red[n], t.red[t2.kid[r][n]] PROVE n \in A \/ t2.kid[r][n] \in B
  <2>1. CASE r = s
    BY Zenon, <2>1, <1>2, <1>3, <1>4, <1>6
  <2>2. CASE r = Other(s)
    BY <2>2, <1>2, <1>3, <1>4, <1>6
  <2> QED
    BY Zenon, <2>1, <2>2, <1>3
<1>7. ASSUME NEW r \in Sides, t.red[m], t.red[t2.kid[r][m]] PROVE m \in A \/ t2.kid[r][m] \in B
  <2>1. CASE r = s
    BY Zenon, <2>1, <1>2, <1>3, <1>4, <1>7
  <2>2. CASE r = Other(s)
    <3>1. t2.kid[r][m] = t.kid[r][m]
      BY <2>2, <1>2, <1>3, <1>4
    <3> QED
      BY <3>1, <2>2, <1>7
  <2> QED
    BY ONLY <2>1, <2>2, <1>3
<1>8. /\ t2.red[t2.root] => t2.root \in B
      /\ ~t2.red[RBNULL]
  BY <1>3, <1>4 DEF CalmAbove
<1> QED
  BY <1>4, <1>5, <1>6, <1>7, <1>8 DEF Reds
=============================================================================
