-------------------------- MODULE RedBlackProofs ---------------------------
(***************************************************************************)
(* Every step of RedBlack keeps the inductive invariant, so that the tree  *)
(* is a red-black tree in every reachable state and its calls answer as a  *)
(* map, whatever the keys, the nodes and the order of the calls.           *)
(***************************************************************************)
EXTENDS RedBlackRepairs, SequenceTheorems

(* The properties follow; calls that do not change the shape; rbdestroy. *)

\* The counts are positive: the sentinel is black.
LEMMA PositiveBlacks ==
    ASSUME NEW t, NEW L, WellLinked(t, L), NEW D, NEW bh, Blacks(t, L, D, bh)
    PROVE  \A n \in L \union {RBNULL} : bh[n] > 0
<1> DEFINE S == {n \in L : ~(bh[n] > 0)}
<1>1. bh \in [Pointers -> Nat] /\ bh[RBNULL] = 1
  BY DEF Blacks
<1> SUFFICES ASSUME S # {} PROVE FALSE
  BY <1>1
<1>2. PICK n \in S : \A s \in Sides : t.kid[s][n] \notin S
  BY DEF WellLinked, Bottom
<1>3. "left" \in Sides /\ n \in L
  BY <1>2 DEF Sides
<1>4. PICK m : m = t.kid["left"][n]
  OBVIOUS
<1>5. m \in L \union {RBNULL} /\ m \notin S /\ n \in Pointers /\ m \in Pointers
  BY <1>2, <1>3, <1>4 DEF WellLinked, KidsFit, Pointers
<1>6. bh[m] > 0
  BY <1>1, <1>5
<1>7. bh[n] = bh[m] + Lack(t, D, n, "left") + Tint(t, n)
  BY <1>3, <1>4 DEF Blacks
<1>8. Lack(t, D, n, "left") \in Nat /\ Tint(t, n) \in Nat /\ bh[m] \in Nat
  BY <1>1, <1>5 DEF Lack, Tint
<1> HIDE DEF S
<1>9. bh[n] > 0
  BY ONLY <1>6, <1>7, <1>8
<1> QED
  BY <1>2, <1>9 DEF S

-----------------------------------------------------------------------------
(* What the callers are promised follows from the invariant. *)

\* What _destroy reaches is the tree.
LEMMA TreeReached ==
    ASSUME IInv
    PROVE  Reached = InTree
BY ReachedIs DEF IInv, Memory

\* The invariants that the runs check follow from the inductive one.
LEMMA TypeFollows == IInv => TypeOK
<1> SUFFICES ASSUME IInv PROVE TypeOK
  OBVIOUS
<1>1. h \in Heaps /\ used \in SUBSET Nodes /\ InTree \subseteq Nodes
  BY DEF IInv, Memory, InTree
<1>2. x \in Pointers /\ y \in Pointers
  BY <1>1 DEF IInv, Cursor, Pointers
<1>3. nextp \in Pointers \union {Closed}
  BY <1>1 DEF IInv, Memory, Pointers
<1>4. \A n \in used : h.key[n] \in Keys
  BY DEF IInv, Memory, Keyed
<1>5. /\ h.root \in Pointers
      /\ \A s \in Sides : h.kid[s] \in [Pointers -> Pointers]
      /\ h.up \in [Pointers -> Pointers \union {Foreign}]
      /\ h.red \in [Pointers -> BOOLEAN]
      /\ h.key \in [Nodes -> Keys \union {None}]
  BY <1>1, HeapFields
<1> QED
  BY <1>1, <1>2, <1>3, <1>4, <1>5 DEF TypeOK, IInv, Memory

\* Children and parents agree.
LEMMA LinksFollow == IInv => LinksAgree
BY TreeReached DEF IInv, WellLinked, RootFits, KidsFit, LinksAgree

\* What is allocated is in the tree.
LEMMA AccountFollows == IInv => Accounted
BY TreeReached DEF IInv, Cursor, InTree, Accounted

\* Red nodes have black children.
LEMMA RedsFollow == IInv => RedHasBlackChildren
<1> SUFFICES ASSUME IInv PROVE RedHasBlackChildren
  OBVIOUS
<1>1. Reached = InTree /\ Reds(h, InTree, Lacking, Reddened)
  BY TreeReached DEF IInv
<1> QED
  BY <1>1 DEF Reds, Lacking, Reddened, Repairs, RedHasBlackChildren

\* The ways down count the same, and no loop outlasts them.
LEMMA BlacksFollow == IInv => BlackCountsEqual /\ TurnsBounded
<1> SUFFICES ASSUME IInv PROVE BlackCountsEqual /\ TurnsBounded
  OBVIOUS
<1>1. PICK bh : Blacks(h, InTree, Lacking, bh) /\ Paced(bh)
  BY DEF IInv
<1>2. CountBlack = bh[h.root]
  BY <1>1, CountIs DEF IInv, Memory
<1>3. bh[h.root] \in Nat
  BY <1>1 DEF Blacks, IInv, Memory, Heaps
<1> QED
  BY <1>1, <1>2, <1>3 DEF BlackCountsEqual, TurnsBounded, Paced

-----------------------------------------------------------------------------
(* The first state, and the calls that only read. *)

\* Before the first call.
LEMMA InitKeeps == Init => IInv
<1> SUFFICES ASSUME Init PROVE IInv
  OBVIOUS
<1>1. /\ h \in Heaps /\ h.root = RBNULL /\ h.up = [n \in Pointers |-> RBNULL]
      /\ \A s \in Sides, n \in Pointers : h.kid[s][n] = RBNULL
      /\ \A n \in Pointers : h.up[n] = RBNULL /\ ~h.red[n]
  BY DEF Init, Heaps, Pointers
<1>2. /\ used = {} /\ InTree = {} /\ pc = "idle" /\ ~Repairs /\ Lacking = {} /\ Reddened = {}
      /\ x = RBNULL /\ y = RBNULL /\ turns = 0 /\ nextp = Closed /\ RBNULL \in Pointers
  BY DEF Init, InTree, Repairs, Lacking, Reddened, Pointers
<1>3. Memory
  BY <1>1, <1>2 DEF Memory, Keyed, Blanked, Sparse, Pointers
<1>4. Cursor
  BY <1>2 DEF Cursor
<1>5. WellLinked(h, InTree)
  <2>1. RootFits(h, {}) /\ KidsFit(h, {}) /\ UpsFit(h, {})
    BY <1>1, <1>2 DEF RootFits, KidsFit, UpsFit
  <2>2. Bottom(h, {}) /\ Top(h, {})
    BY DEF Bottom, Top
  <2> QED
    BY <2>1, <2>2, <1>1, <1>2 DEF WellLinked
<1>6. Ordered(h, InTree)
  BY <1>2 DEF Ordered
<1>7. Reds(h, InTree, Lacking, Reddened)
  BY <1>1, <1>2 DEF Reds
<1>8. PICK bh : bh = [n \in Pointers |-> 1]
  OBVIOUS
<1>9. Blacks(h, InTree, Lacking, bh) /\ Paced(bh)
  <2>1. bh \in [Pointers -> Nat] /\ bh[RBNULL] = 1
    BY <1>2, <1>8
  <2> QED
    BY <2>1, <1>1, <1>2 DEF Blacks, Paced
<1> QED
  BY <1>3, <1>4, <1>5, <1>6, <1>7, <1>9 DEF IInv

\* A call that only reads, or moves the list on.
LEMMA StillKeeps ==
    ASSUME IInv, UNCHANGED <<h, used, pc, x, y, turns>>,
           nextp' \in used \union {RBNULL, Closed}, nextp' # Closed => pc = "idle"
    PROVE  IInv'
<1>1. /\ h' = h /\ used' = used /\ pc' = pc /\ x' = x /\ y' = y /\ turns' = turns
  OBVIOUS
<1>2. InTree' = InTree /\ Lacking' = Lacking /\ Reddened' = Reddened /\ (Repairs' <=> Repairs)
  BY <1>1 DEF InTree, Lacking, Reddened, Repairs
<1>3. Memory'
  BY <1>1, <1>2 DEF IInv, Memory
<1>4. Cursor'
  BY <1>1, <1>2 DEF IInv, Cursor
<1>5. PICK bh : Blacks(h, InTree, Lacking, bh) /\ Paced(bh)
  BY DEF IInv
<1>6. Paced(bh)'
  BY <1>1, <1>5 DEF Paced, InsertGoesOn, DeleteGoesOn
<1>7. Blacks(h', InTree', Lacking', bh)
  BY <1>1, <1>2, <1>5
<1>8. WellLinked(h', InTree') /\ Ordered(h', InTree') /\ Reds(h', InTree', Lacking', Reddened')
  BY <1>1, <1>2 DEF IInv
<1> QED
  BY <1>3, <1>4, <1>6, <1>7, <1>8 DEF IInv

\* Between two calls the tree is all that is allocated.
Idle(bh) ==
    /\ Shaped(h, used) /\ Blanked(h, used) /\ Sparse(h, used) /\ used \subseteq Nodes
    /\ Reds(h, used, {}, {}) /\ Blacks(h, used, {}, bh)
    /\ turns = 0 /\ InTree = used /\ Lacking = {} /\ Reddened = {} /\ ~Repairs
    /\ x = RBNULL /\ y = RBNULL
    /\ nextp \in used \union {RBNULL, Closed}

\* It is what the invariant says when no loop runs.
LEMMA IdleIs ==
    ASSUME IInv, pc = "idle"
    PROVE  \E bh : Idle(bh)
<1>1. InTree = used /\ Lacking = {} /\ Reddened = {} /\ ~Repairs
  BY DEF InTree, Lacking, Reddened, Repairs
<1>2. PICK bh : Blacks(h, InTree, Lacking, bh) /\ Paced(bh)
  BY DEF IInv
<1>3. Shaped(h, used) /\ Reds(h, used, {}, {})
  BY <1>1 DEF IInv, Memory, Shaped
<1> QED
  BY <1>1, <1>2, <1>3 DEF Idle, IInv, Memory, Cursor, Paced

\* The calls that only read.
LEMMA ReadersKeep ==
    ASSUME IInv
    PROVE  /\ \A k \in Keys : rbfind(k) => IInv'
           /\ \A k \in Keys, mode \in Modes : rblookup(mode, k) => IInv'
           /\ rbwalk => IInv'
           /\ rbcloselist => IInv'
<1>1. nextp \in used \union {RBNULL, Closed} /\ (nextp # Closed => pc = "idle")
  BY DEF IInv, Memory
<1>2. ASSUME NEW k \in Keys, rbfind(k) PROVE IInv'
  BY <1>1, <1>2, StillKeeps DEF rbfind
<1>3. ASSUME NEW k \in Keys, NEW mode \in Modes, rblookup(mode, k) PROVE IInv'
  BY <1>1, <1>3, StillKeeps DEF rblookup
<1>4. ASSUME rbwalk PROVE IInv'
  BY <1>1, <1>4, StillKeeps DEF rbwalk
<1>5. ASSUME rbcloselist PROVE IInv'
  BY <1>5, StillKeeps DEF rbcloselist
<1> QED
  BY <1>2, <1>3, <1>4, <1>5

\* Opening and reading the list.
LEMMA ListKeeps ==
    ASSUME IInv
    PROVE  (rbopenlist => IInv') /\ (rbreadlist => IInv')
<1>1. ASSUME rbopenlist PROVE IInv'
  <2>1. pc = "idle" /\ UNCHANGED <<h, used, pc, x, y, turns>> /\ nextp' = Extreme(h, h.root, "left")
    BY <1>1 DEF rbopenlist, Ready
  <2>2. PICK bh : Idle(bh)
    BY <2>1, IdleIs
  <2>3. /\ WellLinked(h, used) /\ Sparse(h, used) /\ Keyed(h, used) /\ Ordered(h, used)
        /\ "left" \in Sides
    BY <2>2 DEF Idle, Shaped, Sides
  <2>4. Extreme(h, h.root, "left") \in used \union {RBNULL}
    <3>1. CASE h.root = RBNULL
      BY <3>1, <2>3, ExtremeOfNull
    <3>2. CASE h.root # RBNULL
      <4>1. h.root \in used
        BY <3>2, <2>3 DEF WellLinked, RootFits
      <4>2. Outermost(h, used, h.root, "left", Extreme(h, h.root, "left"))
        BY <4>1, <2>3, ExtremeIs
      <4> QED
        BY <4>2, UnderSet DEF Outermost
    <3> QED
      BY <3>1, <3>2
  <2> QED
    BY <2>1, <2>4, StillKeeps
<1>2. ASSUME rbreadlist PROVE IInv'
  <2>1. /\ pc = "idle" /\ UNCHANGED <<h, used, pc, x, y, turns>> /\ nextp # Closed
        /\ nextp' = IF nextp = RBNULL THEN RBNULL ELSE Neighbour(h, nextp, "right")
    BY <1>2 DEF rbreadlist
  <2>2. PICK bh : Idle(bh)
    BY <2>1, IdleIs
  <2>3. /\ WellLinked(h, used) /\ Blanked(h, used) /\ Keyed(h, used) /\ Ordered(h, used)
        /\ "right" \in Sides /\ nextp \in used \union {RBNULL}
    BY <2>1, <2>2 DEF Idle, Shaped, Sides
  <2>4. nextp' \in used \union {RBNULL}
    <3>1. CASE nextp = RBNULL
      BY <3>1, <2>1
    <3>2. CASE nextp # RBNULL
      <4>1. NextTo(h, used, nextp, "right", Neighbour(h, nextp, "right"))
        BY <3>2, <2>3, NeighbourIs
      <4> QED
        BY <4>1, <3>2, <2>1 DEF NextTo
    <3> QED
      BY <3>1, <3>2
  <2> QED
    BY <2>1, <2>4, StillKeeps
<1> QED
  BY <1>1, <1>2

-----------------------------------------------------------------------------
(* Calls on other trees, and the release of nodes. *)

\* No other tree disturbs this one through the sentinel they share.
LEMMA OtherTreeKeeps ==
    ASSUME IInv, OtherTree
    PROVE  IInv'
<1>1. /\ pc = "idle" /\ h' = [h EXCEPT !.up[RBNULL] = Foreign]
      /\ used' = used /\ pc' = pc /\ x' = x /\ y' = y /\ turns' = turns /\ nextp' = nextp
  BY DEF OtherTree
<1>2. h \in Heaps
  BY DEF IInv, Memory
<1>3. /\ h' \in Heaps /\ h'.root = h.root /\ h'.kid = h.kid /\ h'.red = h.red /\ h'.key = h.key
      /\ \A q \in Nodes : h'.up[q] = h.up[q]
  BY <1>1, <1>2, NodesDistinct DEF Heaps, Pointers
<1>4. PICK bh : Idle(bh)
  BY <1>1, IdleIs
<1>5. /\ WellLinked(h, used) /\ Keyed(h, used) /\ Ordered(h, used) /\ Blanked(h, used)
      /\ Sparse(h, used) /\ used \subseteq Nodes /\ Reds(h, used, {}, {}) /\ Blacks(h, used, {}, bh)
      /\ turns = 0 /\ x = RBNULL /\ y = RBNULL /\ nextp \in used \union {RBNULL, Closed}
  BY <1>4 DEF Idle, Shaped
<1>6. InTree' = used /\ Lacking' = {} /\ Reddened' = {} /\ ~Repairs'
  BY <1>1 DEF InTree, Lacking, Reddened, Repairs
<1>7. WellLinked(h', used)
  BY <1>3, <1>5, SameLinks
<1>8. Ordered(h', used)
  BY <1>3, <1>5, SameOrder
<1>9. Memory'
  BY <1>1, <1>3, <1>5, <1>6 DEF Memory, Keyed, Blanked, Sparse
<1>10. Cursor'
  BY <1>1, <1>5, <1>6 DEF Cursor
<1>11. Reds(h', used, {}, {})
  BY <1>3, <1>5 DEF Reds
<1>12. Blacks(h', used, {}, bh)
  <2>1. \A q, r : Lack(h', {}, q, r) = Lack(h, {}, q, r) /\ Tint(h', q) = Tint(h, q)
    BY <1>3 DEF Lack, Tint
  <2> QED
    BY <2>1, <1>3, <1>5 DEF Blacks
<1>13. Paced(bh)'
  <2>1. bh[h'.root] \in Nat
    BY <1>3, <1>5 DEF Blacks, Heaps
  <2> QED
    BY <2>1, <1>1, <1>5 DEF Paced
<1> QED
  BY <1>6, <1>7, <1>8, <1>9, <1>10, <1>11, <1>12, <1>13 DEF IInv

\* t2 is t without anything at the nodes of S.
Erased(t, t2, S) ==
    /\ t2 \in Heaps /\ t2.root = t.root
    /\ \A q \in Pointers \ S :
          t2.up[q] = t.up[q] /\ t2.red[q] = t.red[q] /\ \A s \in Sides : t2.kid[s][q] = t.kid[s][q]
    /\ \A q \in S : t2.up[q] = RBNULL /\ \A s \in Sides : t2.kid[s][q] = RBNULL
    /\ \A q \in Nodes \ S : t2.key[q] = t.key[q]

\* What Blank leaves.
LEMMA BlankIs ==
    ASSUME NEW t \in Heaps, NEW S \in SUBSET Nodes
    PROVE  Erased(t, Blank(t, S), S)
<1>1. PICK t2 : t2 = Blank(t, S)
  OBVIOUS
<1>2. /\ t2.root = t.root
      /\ t2.key = [n \in Nodes |-> IF n \in S THEN None ELSE t.key[n]]
      /\ t2.up = [n \in Pointers |-> IF n \in S THEN RBNULL ELSE t.up[n]]
      /\ t2.red = [n \in Pointers |-> IF n \in S THEN FALSE ELSE t.red[n]]
      /\ t2.kid = [s \in Sides |-> [n \in Pointers |-> IF n \in S THEN RBNULL ELSE t.kid[s][n]]]
      /\ t2 = [root |-> t2.root, kid |-> t2.kid, up |-> t2.up, red |-> t2.red, key |-> t2.key]
  BY <1>1 DEF Heaps, Blank
<1>3. t2 \in Heaps
  <2>1. /\ t2.root \in Pointers
        /\ t2.key \in [Nodes -> Keys \union {None}]
        /\ t2.up \in [Pointers -> Pointers \union {Foreign}]
        /\ t2.red \in [Pointers -> BOOLEAN]
        /\ t2.kid \in [Sides -> [Pointers -> Pointers]]
    <3>1. RBNULL \in Pointers
      BY DEF Pointers
    <3>2. /\ t.root \in Pointers
          /\ t.kid \in [Sides -> [Pointers -> Pointers]]
          /\ t.up \in [Pointers -> Pointers \union {Foreign}]
          /\ t.red \in [Pointers -> BOOLEAN]
          /\ t.key \in [Nodes -> Keys \union {None}]
      BY HeapFields
    <3>3. t2.root \in Pointers /\ t2.key \in [Nodes -> Keys \union {None}]
      BY ONLY <3>2, <1>2
    <3>4. t2.up \in [Pointers -> Pointers \union {Foreign}]
      BY ONLY <3>1, <3>2, <1>2
    <3>5. t2.red \in [Pointers -> BOOLEAN]
      BY ONLY <3>2, <1>2
    <3>6. t2.kid \in [Sides -> [Pointers -> Pointers]]
      BY ONLY <3>1, <3>2, <1>2
    <3> QED
      BY <3>3, <3>4, <3>5, <3>6
  <2> QED
    BY ONLY <2>1, <1>2 DEF Heaps
<1>4. S \subseteq Pointers
  BY DEF Pointers
<1>5. \A q \in Pointers \ S : t2.up[q] = t.up[q] /\ t2.red[q] = t.red[q]
  BY ONLY <1>2
<1>6. \A q \in Pointers, s \in Sides : t2.kid[s][q] = IF q \in S THEN RBNULL ELSE t.kid[s][q]
  BY ONLY <1>2
<1>7. \A q \in S : t2.up[q] = RBNULL
  BY ONLY <1>2, <1>4
<1>8. \A q \in Nodes \ S : t2.key[q] = t.key[q]
  BY ONLY <1>2
<1> QED
  BY <1>1, <1>2, <1>3, <1>4, <1>5, <1>6, <1>7, <1>8 DEF Erased

\* To free what is not in the tree changes nothing in it.
LEMMA EraseShape ==
    ASSUME NEW t, NEW L, Shaped(t, L), NEW S \in SUBSET Nodes, S \intersect L = {},
           NEW t2, Erased(t, t2, S)
    PROVE  /\ Shaped(t2, L)
           /\ \A q \in L \union {RBNULL} : t2.red[q] = t.red[q] /\ t2.up[q] = t.up[q]
           /\ \A q \in L \union {RBNULL}, s \in Sides : t2.kid[s][q] = t.kid[s][q]
<1>1. WellLinked(t, L) /\ Keyed(t, L) /\ Ordered(t, L) /\ L \subseteq Nodes /\ L \in SUBSET Nodes
  BY DEF Shaped, WellLinked
<1>2. /\ t2 \in Heaps /\ t2.root = t.root
      /\ \A q \in L \union {RBNULL} : t2.red[q] = t.red[q] /\ t2.up[q] = t.up[q]
      /\ \A q \in L \union {RBNULL}, s \in Sides : t2.kid[s][q] = t.kid[s][q]
      /\ \A q \in L : t2.key[q] = t.key[q]
  BY <1>1, NodesDistinct DEF Erased, Pointers
<1>3. RootFits(t, L) /\ KidsFit(t, L) /\ UpsFit(t, L) /\ Bottom(t, L) /\ Top(t, L)
  BY <1>1 DEF WellLinked
<1>4. RootFits(t2, L)
  BY <1>2, <1>3 DEF RootFits
<1>5. KidsFit(t2, L)
  <2>1. ASSUME NEW n \in L, NEW s \in Sides
        PROVE  /\ t2.kid[s][n] \in L \union {RBNULL}
               /\ t2.kid[s][n] # RBNULL => t2.up[t2.kid[s][n]] = n
    BY <1>2, <1>3 DEF KidsFit
  <2>2. \A n \in L : t2.kid["left"][n] = t2.kid["right"][n] => t2.kid["left"][n] = RBNULL
    BY <1>2, <1>3 DEF KidsFit, Sides
  <2> QED
    BY <2>1, <2>2 DEF KidsFit
<1>6. UpsFit(t2, L)
  BY <1>2, <1>3 DEF UpsFit
<1>7. Bottom(t2, L)
  <2> SUFFICES ASSUME NEW Q \in SUBSET L, Q # {}
               PROVE  \E n \in Q : \A s \in Sides : t2.kid[s][n] \notin Q
    BY DEF Bottom
  <2>1. PICK n \in Q : \A s \in Sides : t.kid[s][n] \notin Q
    BY <1>3 DEF Bottom
  <2> QED
    BY <2>1, <1>2
<1>8. Top(t2, L)
  <2> SUFFICES ASSUME NEW Q \in SUBSET L, Q # {} PROVE \E n \in Q : t2.up[n] \notin Q
    BY DEF Top
  <2>1. PICK n \in Q : t.up[n] \notin Q
    BY <1>3 DEF Top
  <2> QED
    BY <2>1, <1>2
<1>9. WellLinked(t2, L)
  BY <1>1, <1>2, <1>4, <1>5, <1>6, <1>7, <1>8 DEF WellLinked
<1>10. \A n : Under(t2, L, n) = Under(t, L, n)
  <2>1. \A Q \in SUBSET L : KidClosed(t2, Q) <=> KidClosed(t, Q)
    BY <1>2 DEF KidClosed
  <2> QED
    BY <2>1 DEF Under
<1>11. Ordered(t2, L)
  <2> SUFFICES ASSUME NEW n \in L, NEW s \in Sides, NEW m \in Under(t2, L, t2.kid[s][n])
               PROVE  Beyond(s, t2.key[m], t2.key[n])
    BY DEF Ordered
  <2>1. m \in Under(t, L, t.kid[s][n]) /\ m \in L
    BY <1>2, <1>10, UnderSet
  <2>2. Beyond(s, t.key[m], t.key[n])
    BY <2>1, <1>1 DEF Ordered
  <2> QED
    BY <2>1, <2>2, <1>2
<1>12. Keyed(t2, L)
  BY <1>1, <1>2 DEF Keyed
<1> QED
  BY <1>2, <1>9, <1>11, <1>12 DEF Shaped

\* rbdestroy.
LEMMA DestroyKeeps ==
    ASSUME IInv, rbdestroy
    PROVE  IInv'
<1>1. pc = "idle" /\ nextp = Closed
  BY DEF rbdestroy, Ready
<1>2. PICK bh : Idle(bh)
  BY <1>1, IdleIs
<1>3. /\ WellLinked(h, used) /\ Blanked(h, used) /\ InTree = used /\ used \in SUBSET Nodes
      /\ Reds(h, used, {}, {}) /\ Blacks(h, used, {}, bh) /\ turns = 0 /\ x = RBNULL /\ y = RBNULL
      /\ h \in Heaps
  BY <1>2 DEF Idle, Shaped, WellLinked
<1>4. Reached = used
  BY <1>3, TreeReached
<1>5. /\ h' = [Blank(h, used) EXCEPT !.root = RBNULL] /\ used' = {}
      /\ pc' = pc /\ x' = x /\ y' = y /\ turns' = turns /\ nextp' = nextp
  BY <1>4 DEF rbdestroy
<1>6. PICK t : t = Blank(h, used)
  OBVIOUS
<1>7. Erased(h, t, used)
  BY <1>3, <1>6, BlankIs
<1>8. RBNULL \in Pointers /\ RBNULL \notin used
  BY <1>3, NodesDistinct DEF Pointers
<1>9. RootSet(t, h', RBNULL)
  <2>1. t \in Heaps
    BY <1>7 DEF Erased
  <2> QED
    BY <2>1, <1>5, <1>6, <1>8, SetRoot
<1>10. /\ h' \in Heaps /\ h'.root = RBNULL /\ ~h'.red[RBNULL]
       /\ \A s \in Sides : h'.kid[s][RBNULL] = RBNULL
  BY <1>3, <1>7, <1>8, <1>9 DEF Erased, RootSet, WellLinked, RootFits, Reds
<1>11. Blanked(h', {})
  <2>1. ASSUME NEW n \in Nodes PROVE t.up[n] = RBNULL /\ \A s \in Sides : t.kid[s][n] = RBNULL
    BY <1>3, <1>7 DEF Erased, Blanked, Pointers
  <2> QED
    BY <2>1, <1>9 DEF Blanked, RootSet
<1>12. InTree' = {} /\ Lacking' = {} /\ Reddened' = {} /\ ~Repairs'
  BY <1>1, <1>5 DEF InTree, Lacking, Reddened, Repairs
<1>13. Memory'
  <2>1. Sparse(h', {})
    BY <1>11, BlankedIsSparse
  <2> QED
    BY <2>1, <1>1, <1>3, <1>5, <1>10, <1>11, <1>12 DEF Memory, Keyed
<1>14. Cursor'
  BY <1>1, <1>3, <1>5, <1>12 DEF Cursor
<1>15. WellLinked(h', {})
  <2>1. RootFits(h', {}) /\ KidsFit(h', {}) /\ UpsFit(h', {})
    BY <1>10 DEF RootFits, KidsFit, UpsFit
  <2>2. Bottom(h', {}) /\ Top(h', {})
    BY DEF Bottom, Top
  <2> QED
    BY <2>1, <2>2, <1>10 DEF WellLinked
<1>16. Ordered(h', {}) /\ Reds(h', {}, {}, {})
  BY <1>8, <1>10 DEF Ordered, Reds
<1>17. Blacks(h', {}, {}, bh)
  BY <1>3 DEF Blacks
<1>18. Paced(bh)'
  <2>1. bh[h'.root] \in Nat
    BY <1>8, <1>10, <1>17 DEF Blacks
  <2> QED
    BY <2>1, <1>1, <1>3, <1>5 DEF Paced
<1> QED
  BY <1>12, <1>13, <1>14, <1>15, <1>16, <1>17, <1>18 DEF IInv

-----------------------------------------------------------------------------
(* A node comes, a node leaves. *)

\* The new leaf counts one, as the sentinel does.
NewCounts(t, L, n) == \E bh : Blacks(t, L, {}, bh) /\ bh[n] = 1

\* A new red leaf: no count changes, and it may be red under a red parent.
LEMMA AttachColours ==
    ASSUME NEW t, NEW L, WellLinked(t, L), NEW n \in Nodes \ L, NEW p, NEW k, NEW s, NEW t2,
           Vacant(t, L, p, s), Attached(t, t2, n, p, k, s),
           Reds(t, L, {}, {}), NEW bh, Blacks(t, L, {}, bh)
    PROVE  /\ Reds(t2, L \union {n}, {}, {n})
           /\ NewCounts(t2, L \union {n}, n)
<1>1. /\ L \subseteq Pointers /\ RBNULL \notin L /\ n # RBNULL
      /\ n \in Pointers /\ RBNULL \in Pointers
      /\ p \in L \union {RBNULL} /\ t \in Heaps /\ p # n
  BY NodesDistinct DEF WellLinked, Pointers, Vacant
<1>2. \A q \in L, r \in Sides : t.kid[r][q] \in L \union {RBNULL} /\ t.kid[r][q] # n
  BY <1>1 DEF WellLinked, KidsFit
<1>3. /\ \A r \in Sides : t2.kid[r][n] = RBNULL
      /\ \A q \in L, r \in Sides :
            \/ t2.kid[r][q] = n /\ q = p /\ t.kid[r][q] = RBNULL
            \/ t2.kid[r][q] = t.kid[r][q]
      /\ t2.red[n] /\ \A q \in Pointers : q # n => t2.red[q] = t.red[q]
      /\ t2.root = n \/ t2.root = t.root
  BY <1>1 DEF Attached, Vacant
<1>4. Reds(t2, L \union {n}, {}, {n})
  <2>1. ASSUME NEW q \in L \union {n}, NEW r \in Sides, t2.red[q], t2.red[t2.kid[r][q]]
        PROVE  t2.kid[r][q] = n
    <3>1. ~t2.red[RBNULL]
      BY <1>1, <1>3 DEF Reds
    <3>2. q # n
      BY <3>1, <2>1, <1>3
    <3>3. SUFFICES ASSUME t2.kid[r][q] # n PROVE FALSE
      OBVIOUS
    <3>4. t2.kid[r][q] = t.kid[r][q] /\ t.kid[r][q] \in Pointers /\ q \in L /\ q \in Pointers
      BY <3>2, <3>3, <1>1, <1>2, <1>3
    <3>5. t.red[q] /\ t.red[t.kid[r][q]]
      BY <3>2, <3>3, <3>4, <2>1, <1>3
    <3> QED
      BY <3>4, <3>5 DEF Reds
  <2>2. t2.red[t2.root] => t2.root = n
    <3>1. t.root \in Pointers /\ ~t.red[t.root]
      BY <1>1, HeapFields DEF Reds
    <3> QED
      BY <3>1, <1>3
  <2>3. ~t2.red[RBNULL]
    BY <1>1, <1>3 DEF Reds
  <2> QED
    BY <2>1, <2>2, <2>3 DEF Reds
<1>5. /\ bh \in [Pointers -> Nat] /\ bh[RBNULL] = 1
      /\ \A q \in L, r \in Sides : bh[q] = bh[t.kid[r][q]] + Tint(t, q)
  BY EvenBlacks
<1>6. PICK bh2 : bh2 = [q \in Pointers |-> IF q = n THEN 1 ELSE bh[q]]
  OBVIOUS
<1>7. /\ bh2 \in [Pointers -> Nat] /\ bh2[n] = 1 /\ bh2[RBNULL] = 1
      /\ \A q \in Pointers : q # n => bh2[q] = bh[q]
  BY <1>1, <1>5, <1>6
<1>8. ASSUME NEW q \in L \union {n}, NEW r \in Sides
      PROVE  bh2[q] = bh2[t2.kid[r][q]] + Lack(t2, {}, q, r) + Tint(t2, q)
  <2>1. Lack(t2, {}, q, r) = 0
    BY NoLack
  <2>2. CASE q = n
    <3>1. Tint(t2, n) = 0 /\ t2.kid[r][q] = RBNULL
      BY <2>2, <1>3 DEF Tint
    <3> QED
      BY <3>1, <2>1, <2>2, <1>7
  <2>3. CASE q # n
    <3>1. q \in L /\ q \in Pointers /\ Tint(t2, q) = Tint(t, q)
      BY <2>3, <1>1, <1>3 DEF Tint
    <3>2. t.kid[r][q] \in Pointers /\ bh[q] = bh[t.kid[r][q]] + Tint(t, q) /\ bh2[q] = bh[q]
      BY <3>1, <2>3, <1>1, <1>2, <1>5, <1>7
    <3>3. bh2[t2.kid[r][q]] = bh[t.kid[r][q]]
      BY <3>1, <3>2, <1>2, <1>3, <1>5, <1>7
    <3>4. bh[t.kid[r][q]] \in Nat /\ Tint(t, q) \in Nat
      BY <3>2, <1>5 DEF Tint
    <3> QED
      BY ONLY <3>1, <3>2, <3>3, <3>4, <2>1
  <2> QED
    BY <2>2, <2>3
<1> QED
  BY <1>4, <1>7, <1>8 DEF Blacks, NewCounts

\* rbsearch up to the repair.
LEMMA SearchKeeps ==
    ASSUME IInv, NEW k \in Keys, rbsearch(k)
    PROVE  IInv'
<1>1. PICK d : d = Descend(h, k)
  OBVIOUS
<1>2. pc = "idle" /\ nextp = Closed /\ y' = y /\ turns' = turns /\ nextp' = nextp
  BY DEF rbsearch, Ready
<1>3. CASE UNCHANGED <<h, used, pc, x>>
  <2>1. nextp' \in used \union {RBNULL, Closed} /\ nextp' = Closed
    BY <1>2
  <2> QED
    BY <2>1, <1>2, <1>3, StillKeeps
<1>4. ASSUME NEW n \in Nodes \ used, d.x = RBNULL, used' = used \union {n},
             h' = Inserted(h, n, d.y, k), pc' = "insert", x' = n
      PROVE  IInv'
  <2>1. PICK bh : Idle(bh)
    BY <1>2, IdleIs
  <2>2. /\ Shaped(h, used) /\ WellLinked(h, used) /\ Keyed(h, used) /\ Ordered(h, used)
        /\ Sparse(h, used) /\ Blanked(h, used) /\ Reds(h, used, {}, {}) /\ Blacks(h, used, {}, bh)
        /\ turns = 0 /\ y = RBNULL /\ used \in SUBSET Nodes /\ h \in Heaps
    BY <2>1 DEF Idle, Shaped, WellLinked
  <2>3. PICK p, s : p = d.y /\ s = SideOf(h, k, p)
    OBVIOUS
  <2>4. s \in Sides
    BY <2>3 DEF SideOf, Sides
  <2>5. IF used = {} THEN d = [x |-> RBNULL, y |-> RBNULL] ELSE Descended(h, used, k, d)
    BY <1>1, <2>2, DescendIs
  <2>6. RBNULL \notin used
    BY <2>2, NodesDistinct
  <2>7. /\ Vacant(h, used, p, s) /\ Belongs(h, used, p, k)
        /\ p # RBNULL => p \in used /\ h.key[p] # k
    BY <1>4, <2>3, <2>4, <2>5, <2>6 DEF Descended, Vacant, Belongs
  <2>8. p \in Pointers /\ p # n
    BY <1>4, <2>2, <2>7, NodesDistinct DEF Vacant, Pointers
  <2>9. Attached(h, h', n, p, k, s)
    BY <1>4, <2>2, <2>3, <2>8, InsertedIs
  <2>10. p # RBNULL => Beyond(s, k, h.key[p])
    <3>1. SUFFICES ASSUME p # RBNULL PROVE Beyond(s, k, h.key[p])
      OBVIOUS
    <3>2. h.key[p] \in Int /\ k \in Int /\ h.key[p] # k
      BY <3>1, <2>2, <2>7, KeysAreIntegers DEF Keyed
    <3> QED
      BY <3>2, <2>3 DEF SideOf, Beyond
  <2>11. WellLinked(h', used')
    BY <1>4, <2>2, <2>7, <2>9, AttachLinks
  <2>12. Ordered(h', used')
    BY <1>4, <2>2, <2>7, <2>9, <2>10, AttachOrder
  <2>13. PICK bh2 : Reds(h', used', {}, {n}) /\ Blacks(h', used', {}, bh2) /\ bh2[n] = 1
    <3>1. /\ WellLinked(h, used) /\ n \in Nodes \ used /\ Vacant(h, used, p, s)
          /\ Attached(h, h', n, p, k, s) /\ Reds(h, used, {}, {}) /\ Blacks(h, used, {}, bh)
      BY <1>4, <2>2, <2>7, <2>9
    <3>2. Reds(h', used \union {n}, {}, {n})
      BY ONLY <3>1, AttachColours
    <3>3. NewCounts(h', used \union {n}, n)
      BY ONLY <3>1, AttachColours
    <3> QED
      BY ONLY <3>2, <3>3, <1>4 DEF NewCounts
  <2>14. InTree' = used' /\ ~Repairs' /\ Lacking' = {} /\ Reddened' = {n}
    BY <1>4 DEF InTree, Repairs, Lacking, Reddened
  <2>15. Memory'
    <3>1. Keyed(h', used')
      BY <1>4, <2>2, <2>9 DEF Keyed, Attached
    <3>2. Blanked(h', used')
      BY <1>4, <2>2, <2>7, <2>9 DEF Blanked, Attached, Vacant, Pointers
    <3>3. Sparse(h', used')
      BY <3>2, BlankedIsSparse
    <3>4. used' \in SUBSET Nodes /\ h' \in Heaps /\ nextp' = Closed /\ turns' \in Nat
      BY <1>2, <1>4, <2>2, <2>9 DEF Attached
    <3> QED
      BY <3>1, <3>2, <3>3, <3>4, <1>4, <2>14 DEF Memory
  <2>16. Cursor'
    BY <1>2, <1>4, <2>2, <2>6, <2>9, <2>14, NodesDistinct DEF Cursor, Attached
  <2>17. Paced(bh2)'
    <3>1. h'.root \in Pointers /\ bh2[h'.root] \in Nat
      BY <2>9, <2>13, HeapFields DEF Attached, Blacks
    <3>2. turns' = 0 /\ pc' = "insert" /\ bh2[x'] = 1
      BY <1>2, <1>4, <2>2, <2>13
    <3> QED
      BY <3>1, <3>2 DEF Paced
  <2> QED
    BY <2>11, <2>12, <2>13, <2>14, <2>15, <2>16, <2>17 DEF IInv
<1> QED
  BY <1>1, <1>3, <1>4 DEF rbsearch

-----------------------------------------------------------------------------
\* c, the sentinel too, hangs below p, on one side.
Dangles(t, c, p) == t.up[c] = p /\ Hangs(t, c)

\* The node unlinked was red and no count changes, or it was black and one lacks at its child.
LEMMA UnlinkColours ==
    ASSUME NEW t, NEW L, WellLinked(t, L), NEW v \in L, NEW z, NEW c, NEW s,
           OneKid(t, v, c, s), NEW p, p = t.up[v], NEW t2, Unlinked(t, t2, z, v, c, p),
           Reds(t, L, {}, {}), NEW bh, Blacks(t, L, {}, bh)
    PROVE  /\ t.red[v] => Reds(t2, L \ {v}, {}, {}) /\ Blacks(t2, L \ {v}, {}, bh)
           /\ ~t.red[v] => Reds(t2, L \ {v}, {c}, {c}) /\ Blacks(t2, L \ {v}, {c}, bh)
           /\ ~t.red[v] /\ p # RBNULL => Dangles(t2, c, p)
<1>1. /\ c \in L \union {RBNULL} /\ p \in L \union {RBNULL}
      /\ c # v /\ p # v /\ (c # RBNULL => c # p /\ t.up[c] = v)
      /\ (p = RBNULL <=> v = t.root) /\ v # RBNULL
      /\ p # RBNULL => \A r \in Sides : c # RBNULL => t.kid[r][p] # c
      /\ p # RBNULL => \E r \in Sides : t.kid[r][p] = v /\ t.kid[Other(r)][p] # v
  BY UnlinkFacts
<1>2. L \subseteq Pointers /\ RBNULL \notin L /\ RBNULL \in Pointers /\ t \in Heaps
  BY NodesDistinct DEF WellLinked, Pointers
<1>3. /\ t2.red = t.red /\ t2.root = (IF p = RBNULL THEN c ELSE t.root)
      /\ \A r \in Sides, q \in L :
            t2.kid[r][q] = IF p # RBNULL /\ q = p /\ t.kid[r][p] = v THEN c ELSE t.kid[r][q]
      /\ \A q \in Pointers : t2.up[q] = IF q = c THEN p ELSE t.up[q]
  BY <1>2 DEF Unlinked
<1>4. /\ bh \in [Pointers -> Nat] /\ bh[RBNULL] = 1
      /\ \A q \in L, r \in Sides :
            t.kid[r][q] \in Pointers /\ bh[q] = bh[t.kid[r][q]] + Tint(t, q)
  BY EvenBlacks
<1>5. /\ \A q \in L, r \in Sides : ~(t.red[q] /\ t.red[t.kid[r][q]])
      /\ ~t.red[t.root] /\ ~t.red[RBNULL]
  BY DEF Reds
<1>6. c \in Pointers /\ v \in Pointers /\ bh[c] \in Nat /\ bh[v] \in Nat
      /\ bh[v] = bh[c] + Tint(t, v) /\ s \in Sides /\ t.kid[s][v] = c
  BY <1>1, <1>2, <1>4 DEF OneKid
<1>7. \A q : Tint(t2, q) = Tint(t, q) /\ Tint(t, q) \in Nat
  BY <1>3 DEF Tint
<1>8. \A q \in L, r \in Sides : t.kid[r][q] = v => q = p /\ p # RBNULL
  BY <1>1, <1>2 DEF WellLinked, KidsFit
<1>9. ASSUME t.red[v] PROVE Reds(t2, L \ {v}, {}, {}) /\ Blacks(t2, L \ {v}, {}, bh)
  <2>1. bh[v] = bh[c]
    <3>1. Tint(t, v) = 0
      BY <1>9 DEF Tint
    <3> QED
      BY <3>1, <1>6
  <2>2. p # RBNULL /\ ~t.red[p]
    BY <1>1, <1>5, <1>9
  <2>3. Reds(t2, L \ {v}, {}, {})
    <3>1. ASSUME NEW q \in L \ {v}, NEW r \in Sides, t2.red[q], t2.red[t2.kid[r][q]] PROVE FALSE
      <4>1. t.red[q] /\ q # p
        BY <3>1, <2>2, <1>3
      <4>2. t2.kid[r][q] = t.kid[r][q]
        BY <4>1, <1>3
      <4> QED
        BY <4>1, <4>2, <3>1, <1>3, <1>5
    <3> QED
      BY <3>1, <2>2, <1>3, <1>5 DEF Reds
  <2>4. ASSUME NEW q \in L \ {v}, NEW r \in Sides
        PROVE  bh[q] = bh[t2.kid[r][q]] + Lack(t2, {}, q, r) + Tint(t2, q)
    <3>1. bh[q] = bh[t.kid[r][q]] + Tint(t, q) /\ bh[t.kid[r][q]] \in Nat
      BY <1>4
    <3>2. bh[t2.kid[r][q]] = bh[t.kid[r][q]]
      BY <2>1, <1>3
    <3> QED
      BY <3>1, <3>2, <1>7, NoLack
  <2> QED
    BY <2>3, <2>4, <1>4 DEF Blacks
<1>10. ASSUME ~t.red[v]
       PROVE  /\ Reds(t2, L \ {v}, {c}, {c}) /\ Blacks(t2, L \ {v}, {c}, bh)
              /\ p # RBNULL => Dangles(t2, c, p)
  <2>1. bh[v] = bh[c] + 1
    <3>1. Tint(t, v) = 1
      BY <1>10 DEF Tint
    <3> QED
      BY <3>1, <1>6
  <2>2. t2.up[c] = p
    BY <1>3, <1>6
  <2>3. ASSUME p # RBNULL PROVE \A r \in Sides : t.kid[r][p] # c
    <3>1. CASE c # RBNULL
      BY <3>1, <2>3, <1>1
    <3>2. CASE c = RBNULL
      <4>1. SUFFICES ASSUME NEW r \in Sides, t.kid[r][p] = c PROVE FALSE
        OBVIOUS
      <4>2. p \in L /\ bh[p] = bh[c] + Tint(t, p)
        BY <4>1, <2>3, <1>1, <1>4
      <4>3. PICK i \in Sides : t.kid[i][p] = v
        BY <2>3, <1>1
      <4>4. bh[p] = bh[v] + Tint(t, p)
        BY <4>2, <4>3, <1>4
      <4>5. Tint(t, p) \in Nat
        BY <1>7
      <4> QED
        BY ONLY <4>2, <4>4, <4>5, <2>1, <1>6
    <3> QED
      BY <3>1, <3>2
  <2>4. ASSUME p # RBNULL PROVE Hangs(t2, c)
    <3>1. PICK r \in Sides : t.kid[r][p] = v /\ t.kid[Other(r)][p] # v
      BY <2>4, <1>1
    <3>2. Other(r) \in Sides /\ p \in L
      BY <2>4, <1>1, SidesAre
    <3>3. t2.kid[r][p] = c /\ t2.kid[Other(r)][p] = t.kid[Other(r)][p]
      BY <3>1, <3>2, <2>4, <1>3
    <3>4. t.kid[Other(r)][p] # c
      BY <3>2, <2>3, <2>4
    <3> QED
      BY <3>3, <3>4, <2>2 DEF Hangs
  <2>5. Reds(t2, L \ {v}, {c}, {c})
    <3>1. ASSUME NEW q \in L \ {v}, NEW r \in Sides, t2.red[q], t2.red[t2.kid[r][q]]
          PROVE  t2.kid[r][q] = c
      BY <3>1, <1>3, <1>5
    <3>2. t2.red[t2.root] => t2.root = c
      BY <1>3, <1>5
    <3> QED
      BY <3>1, <3>2, <1>3, <1>5 DEF Reds
  <2>6. ASSUME NEW q \in L \ {v}, NEW r \in Sides
        PROVE  bh[q] = bh[t2.kid[r][q]] + Lack(t2, {c}, q, r) + Tint(t2, q)
    <3>1. bh[q] = bh[t.kid[r][q]] + Tint(t, q) /\ bh[t.kid[r][q]] \in Nat /\ Tint(t, q) \in Nat
      BY <1>4, <1>7
    <3>2. CASE t.kid[r][q] = v
      <4>1. q = p /\ p # RBNULL /\ t2.kid[r][q] = c
        BY <3>2, <1>3, <1>8
      <4>2. Lack(t2, {c}, q, r) = 1
        BY <4>1, <2>2 DEF Lack
      <4>3. bh[q] = bh[c] + 1 + Tint(t, q)
        BY <3>1, <3>2, <2>1
      <4>4. bh[q] = bh[c] + Lack(t2, {c}, q, r) + Tint(t2, q)
        BY ONLY <4>2, <4>3, <1>6, <1>7
      <4> QED
        BY <4>1, <4>4
    <3>3. CASE t.kid[r][q] # v
      <4>1. t2.kid[r][q] = t.kid[r][q]
        BY <3>3, <1>3
      <4>2. Lack(t2, {c}, q, r) = 0
        <5>1. SUFFICES ASSUME t.kid[r][q] = c, t2.up[c] = q PROVE FALSE
          BY <4>1 DEF Lack
        <5>2. q = p
          BY <5>1, <2>2
        <5> QED
          BY <5>1, <5>2, <2>3, <1>2
      <4> QED
        BY ONLY <4>1, <4>2, <3>1, <1>7
    <3> QED
      BY <3>2, <3>3
  <2> QED
    BY <2>2, <2>4, <2>5, <2>6, <1>4 DEF Blacks, Dangles
<1> QED
  BY <1>9, <1>10

\* rbdelete up to the repair.
LEMMA UnlinkKeeps ==
    ASSUME IInv, NEW k \in Keys, rbdelete(k)
    PROVE  IInv'
<1>1. PICK z, v : z = Descend(h, k).x /\ v = Victim(h, z)
  OBVIOUS
<1>2. /\ pc = "idle" /\ nextp = Closed /\ used' = used /\ turns' = turns /\ nextp' = nextp
      /\ IF z = RBNULL THEN UNCHANGED <<h, pc, x, y>>
         ELSE /\ h' = Unlink(h, z, v).tree /\ pc' = "delete"
              /\ x' = Unlink(h, z, v).child /\ y' = v
  BY <1>1 DEF rbdelete, Ready
<1>3. CASE z = RBNULL
  BY <1>2, <1>3, StillKeeps
<1>4. CASE z # RBNULL
  <2>1. PICK bh : Idle(bh)
    BY <1>2, IdleIs
  <2>2. /\ Shaped(h, used) /\ WellLinked(h, used) /\ Keyed(h, used) /\ Ordered(h, used)
        /\ Sparse(h, used) /\ Blanked(h, used) /\ Reds(h, used, {}, {}) /\ Blacks(h, used, {}, bh)
        /\ turns = 0 /\ used \in SUBSET Nodes /\ h \in Heaps
    BY <2>1 DEF Idle, Shaped, WellLinked
  <2>3. RBNULL \notin used
    BY <2>2, NodesDistinct
  <2>4. z \in used
    <3>1. IF used = {} THEN Descend(h, k) = [x |-> RBNULL, y |-> RBNULL]
          ELSE Descended(h, used, k, Descend(h, k))
      BY <2>2, DescendIs
    <3> QED
      BY <3>1, <1>1, <1>4 DEF Descended
  <2>5. /\ v \in used /\ Follows(h, used, z, v)
        /\ \E s \in Sides : h.kid[s][v] = RBNULL
    BY <1>1, <2>2, <2>4, VictimIs
  <2>6. PICK s \in Sides, c \in used \union {RBNULL} :
          /\ OneKid(h, v, c, s) /\ x' = c
          /\ Unlinked(h, h', z, v, c, h.up[v])
    BY <1>2, <1>4, <2>2, <2>4, <2>5, UnlinkIs
  <2>7. PICK p : p = h.up[v]
    OBVIOUS
  <2>8. PICK L : L = used \ {v}
    OBVIOUS
  <2>9. WellLinked(h', L)
    BY <2>2, <2>5, <2>6, <2>8, UnlinkLinks
  <2>10. Ordered(h', L)
    BY <2>2, <2>4, <2>5, <2>6, <2>8, UnlinkOrder
  <2>11. /\ h.red[v] => Reds(h', L, {}, {}) /\ Blacks(h', L, {}, bh)
         /\ ~h.red[v] => Reds(h', L, {c}, {c}) /\ Blacks(h', L, {c}, bh)
         /\ ~h.red[v] /\ p # RBNULL => Dangles(h', c, p)
    <3>1. /\ WellLinked(h, used) /\ v \in used /\ OneKid(h, v, c, s) /\ p = h.up[v]
          /\ Unlinked(h, h', z, v, c, p) /\ Reds(h, used, {}, {}) /\ Blacks(h, used, {}, bh)
      BY <2>2, <2>5, <2>6, <2>7
    <3>2. h.red[v] => Reds(h', used \ {v}, {}, {}) /\ Blacks(h', used \ {v}, {}, bh)
      BY ONLY <3>1, UnlinkColours
    <3>3. ~h.red[v] => Reds(h', used \ {v}, {c}, {c}) /\ Blacks(h', used \ {v}, {c}, bh)
      BY ONLY <3>1, UnlinkColours
    <3>4. ~h.red[v] /\ p # RBNULL => Dangles(h', c, p)
      BY ONLY <3>1, UnlinkColours
    <3> QED
      BY ONLY <3>2, <3>3, <3>4, <2>8
  <2>12. /\ c \in L \union {RBNULL} /\ p \in L \union {RBNULL} /\ p # v /\ v # RBNULL
    <3>1. c # v /\ p # v /\ p \in used \union {RBNULL}
      BY <2>2, <2>5, <2>6, <2>7, UnlinkFacts
    <3> QED
      BY <3>1, <2>3, <2>5, <2>6, <2>8
  <2>13. /\ h' \in Heaps /\ h'.red = h.red /\ (p = RBNULL => h'.root = c)
         /\ \A r \in Sides, q \in Pointers :
               h'.kid[r][q] = IF p # RBNULL /\ q = p /\ h.kid[r][p] = v THEN c ELSE h.kid[r][q]
         /\ \A q \in Pointers : h'.up[q] = IF q = c THEN p ELSE h.up[q]
         /\ \A q \in Nodes : h'.key[q] = IF q = z THEN h.key[v] ELSE h.key[q]
    BY <2>6, <2>7 DEF Unlinked
  <2>14. pc' = "delete" /\ y' = v /\ x' = c /\ InTree' = L /\ (Repairs' <=> ~h.red[v])
    BY <1>2, <1>4, <2>6, <2>8, <2>13 DEF InTree, Repairs
  <2>15. Lacking' = (IF h.red[v] THEN {} ELSE {c}) /\ Reddened' = (IF h.red[v] THEN {} ELSE {c})
    BY <2>14 DEF Lacking, Reddened
  <2>16. Memory'
    <3>1. Keyed(h', used)
      BY <2>2, <2>5, <2>13 DEF Keyed
    <3>2. Blanked(h', used)
      <4> SUFFICES ASSUME NEW n \in Nodes \ used
                   PROVE  h'.up[n] = RBNULL /\ \A r \in Sides : h'.kid[r][n] = RBNULL
        BY DEF Blanked
      <4>1. n # c /\ n # p /\ n \in Pointers
        BY <2>8, <2>12, NodesDistinct DEF Pointers
      <4> QED
        BY <4>1, <2>2, <2>13 DEF Blanked
    <3>3. Sparse(h', L)
      <4> SUFFICES ASSUME NEW n \in Nodes \ L, NEW r \in Sides
                   PROVE  h'.kid[r][n] \in L \union {RBNULL}
        BY DEF Sparse
      <4>1. n # p /\ n \in Pointers
        BY <2>12, NodesDistinct DEF Pointers
      <4>2. h'.kid[r][n] = h.kid[r][n]
        BY <4>1, <2>13
      <4>3. CASE n = v
        <5>1. h.kid[r][v] \in {c, RBNULL}
          BY <2>6, SidesAre DEF OneKid
        <5> QED
          BY <5>1, <4>2, <4>3, <2>12
      <4>4. CASE n # v
        BY <4>2, <4>4, <2>2, <2>8 DEF Blanked
      <4> QED
        BY <4>3, <4>4
    <3> QED
      BY <3>1, <3>2, <3>3, <1>2, <2>2, <2>13, <2>14 DEF Memory
  <2>17. Cursor'
    <3>1. ASSUME Repairs', x' # h'.root PROVE h'.up[x'] \in InTree' /\ Hangs(h', x')
      <4>1. p # RBNULL
        BY <3>1, <2>13, <2>14
      <4> QED
        BY <4>1, <3>1, <2>11, <2>12, <2>14 DEF Dangles
    <3> QED
      BY <3>1, <1>2, <2>5, <2>12, <2>14 DEF Cursor
  <2>18. Reds(h', L, Lacking', Reddened') /\ Blacks(h', L, Lacking', bh)
    <3>1. CASE h.red[v]
      BY <3>1, <2>11, <2>15
    <3>2. CASE ~h.red[v]
      BY <3>2, <2>11, <2>15
    <3> QED
      BY <3>1, <3>2
  <2>19. Paced(bh)'
    <3>1. bh[c] > 0
      BY <2>2, <2>6, PositiveBlacks
    <3>2. h'.root \in Pointers /\ bh[h'.root] \in Nat
      BY <2>2, <2>13, HeapFields DEF Blacks
    <3>3. turns' = 0 /\ pc' = "delete" /\ x' = c
      BY <1>2, <2>2, <2>14
    <3> QED
      BY <3>1, <3>2, <3>3 DEF Paced
  <2> QED
    BY <2>9, <2>10, <2>14, <2>16, <2>17, <2>18, <2>19 DEF IInv
<1> QED
  BY <1>3, <1>4

-----------------------------------------------------------------------------
(* The loop of an insert. *)

\* What a step leaves that changes the tree at the nodes of the tree alone.
LEMMA MemoryKept ==
    ASSUME IInv, Turned(h, h', InTree), UNCHANGED <<used, pc, y, nextp>>, turns' \in Nat
    PROVE  Memory' /\ InTree' = InTree /\ (Repairs' <=> Repairs)
<1>1. /\ Within(h, h', InTree) /\ Shaped(h', InTree)
      /\ used' = used /\ pc' = pc /\ y' = y /\ nextp' = nextp
  BY DEF Turned
<1>2. /\ Memory /\ Cursor /\ InTree \subseteq used /\ InTree' = InTree
      /\ used \in SUBSET Nodes
  BY <1>1 DEF IInv, Memory, InTree
<1>3. Repairs' <=> Repairs
  <2>1. SUFFICES ASSUME pc = "delete" PROVE h'.red[y] = h.red[y]
    BY <1>1 DEF Repairs
  <2>2. y \in Pointers \ InTree
    BY <2>1, <1>2, NodesDistinct DEF InTree, Cursor, Pointers
  <2> QED
    BY <2>2, <1>1 DEF Within
<1>4. Keyed(h', used)
  BY <1>1, <1>2 DEF Memory, Keyed, Within
<1>5. Blanked(h', used)
  BY <1>1, <1>2 DEF Memory, Blanked, Within, Pointers
<1>6. Sparse(h', InTree)
  BY <1>1, <1>2 DEF Memory, Sparse, Within, Pointers
<1>7. h' \in Heaps
  BY <1>1 DEF Shaped, WellLinked
<1> QED
  BY <1>1, <1>2, <1>3, <1>4, <1>5, <1>6, <1>7 DEF Memory

\* Fewer exceptions are better.
LEMMA RedsWeaken ==
    ASSUME NEW t, NEW L, NEW A, NEW B, Reds(t, L, {}, {})
    PROVE  Reds(t, L, A, B)
BY DEF Reds

-----------------------------------------------------------------------------
\* In the loop of an insert the invariant is what the lemmas on its turns ask.
LEMMA InsertingIs ==
    ASSUME IInv, pc = "insert"
    PROVE  /\ InTree = used /\ ~Repairs /\ Lacking = {} /\ Reddened = {x} /\ y = RBNULL
           /\ \E bh : Inserting(h, InTree, x, bh) /\ Paced(bh)
<1>1. InTree = used /\ ~Repairs /\ Lacking = {} /\ Reddened = {x} /\ y = RBNULL
  BY DEF InTree, Repairs, Lacking, Reddened, IInv, Cursor
<1>2. x \in InTree /\ h.red[x]
  BY DEF IInv, Cursor
<1>3. Shaped(h, InTree)
  BY <1>1 DEF IInv, Memory, Shaped
<1>4. PICK bh : Blacks(h, InTree, Lacking, bh) /\ Paced(bh)
  BY DEF IInv
<1>5. Reds(h, InTree, {}, {x})
  BY <1>1 DEF IInv
<1>6. Blacks(h, InTree, {}, bh)
  BY <1>1, <1>4
<1>7. Inserting(h, InTree, x, bh)
  BY <1>2, <1>3, <1>5, <1>6 DEF Inserting
<1> QED
  BY <1>1, <1>4, <1>7

\* What a turn must leave for the invariant to hold again.
LEMMA InsertKept ==
    ASSUME IInv, pc = "insert", UNCHANGED <<used, pc, y, nextp>>, turns' = turns + 1,
           Turned(h, h', InTree), x' \in InTree, h'.red[x'], Reds(h', InTree, {}, {x'}),
           NEW bh, Blacks(h', InTree, {}, bh), turns' <= bh[x'],
           InsertGoesOn' => turns' < bh[x']
    PROVE  IInv' /\ h'.key = h.key
<1>1. InTree = used /\ ~Repairs /\ y = RBNULL
  BY InsertingIs
<1>2. turns \in Nat /\ turns' \in Nat
  BY DEF IInv, Memory
<1>3. Memory' /\ InTree' = InTree /\ ~Repairs'
  BY <1>1, <1>2, MemoryKept
<1>4. Lacking' = {} /\ Reddened' = {x'} /\ pc' = "insert"
  BY <1>3 DEF Lacking, Reddened
<1>5. Cursor'
  BY <1>1, <1>3, <1>4, NodesDistinct DEF Cursor, Memory
<1>6. WellLinked(h', InTree) /\ Ordered(h', InTree)
  BY DEF Turned, Shaped
<1>7. Paced(bh)'
  <2>1. bh[x'] <= bh[h'.root]
    BY <1>6, RootHighest
  <2>2. bh[x'] \in Nat /\ bh[h'.root] \in Nat
    BY <1>6 DEF Blacks, WellLinked, RootFits, Pointers
  <2>3. turns' <= bh[h'.root]
    BY ONLY <2>1, <2>2, <1>2, turns' <= bh[x']
  <2> QED
    BY <2>3, <1>4 DEF Paced
<1> QED
  BY <1>3, <1>4, <1>5, <1>6, <1>7 DEF IInv, Turned, Within

\* A turn of the loop of _traverse.
LEMMA InsertTurnKeeps ==
    ASSUME IInv, InsertTurn
    PROVE  IInv' /\ h'.key = h.key
<1>1. pc = "insert" /\ x # h.root /\ h.red[h.up[x]]
  BY DEF InsertTurn, InsertGoesOn
<1>2. PICK L : L = InTree
  OBVIOUS
<1>3. PICK bh : Inserting(h, L, x, bh) /\ Paced(bh)
  BY <1>1, <1>2, InsertingIs
<1>4. /\ WellLinked(h, L) /\ Shaped(h, L) /\ x \in L /\ h.red[x] /\ RBNULL \notin L
      /\ bh \in [Pointers -> Nat] /\ Reds(h, L, {}, {x}) /\ Blacks(h, L, {}, bh)
      /\ L \subseteq Pointers
  BY <1>3, NodesDistinct DEF Inserting, Shaped, WellLinked, Blacks, Pointers
<1>5. turns < bh[x] /\ turns \in Nat /\ bh[x] \in Nat
  BY <1>1, <1>3, <1>4 DEF Paced, InsertGoesOn, IInv, Memory
<1>6. PICK p : p = h.up[x]
  OBVIOUS
<1>7. p \in L /\ h.red[p] /\ p # h.root
  <2>1. p \in L
    BY <1>1, <1>4, <1>6, Parent
  <2>2. p # h.root
    BY <1>1, <1>4, <1>6 DEF Reds
  <2> QED
    BY <2>1, <2>2, <1>1, <1>6
<1>8. PICK g : g = h.up[p]
  OBVIOUS
<1>9. PICK s : s = IF p = h.kid["left"][g] THEN "left" ELSE "right"
  OBVIOUS
<1>10. PICK o : o = Other(s)
  OBVIOUS
<1>11. s \in Sides /\ o \in Sides /\ s = Other(o) /\ o = Other(s) /\ s # o /\ Sides = {s, o}
  <2>1. s \in Sides
    BY <1>9 DEF Sides
  <2> QED
    BY <2>1, <1>10, SidesAre
<1>12. g \in L /\ h.kid[s][g] = p /\ h.kid[o][g] # p
  <2>1. g \in L
    BY <1>4, <1>7, <1>8, Parent
  <2>2. \E r \in Sides : h.kid[r][g] = p /\ h.kid[Other(r)][g] # p
    BY <1>4, <1>7, <1>8, Parent
  <2> QED
    BY <2>1, <2>2, <1>9, <1>10 DEF Sides, Other
<1>13. PICK u : u = h.kid[o][g]
  OBVIOUS
<1>14. /\ UNCHANGED <<used, pc, y, nextp>> /\ turns' = turns + 1
       /\ InsertTurn
  BY DEF InsertTurn
<1>15. CASE h.red[u]
  <2>1. h' = Lower(h, p, u, g) /\ x' = g
    BY <1>6, <1>8, <1>9, <1>10, <1>13, <1>15 DEF InsertTurn, Lower
  <2>2. Recolours(h, L, x, p, u, g, o, bh)
    BY <1>3, <1>6, <1>7, <1>11, <1>12, <1>13, <1>15 DEF Recolours
  <2>3. PICK t : t = Lower(h, p, u, g)
    OBVIOUS
  <2>4. /\ Turned(h, t, L) /\ t.red[g] /\ Reds(t, L, {}, {g})
        /\ \E bh2 : Blacks(t, L, {}, bh2) /\ bh2[g] = bh[x] + 1
    <3>1. Turned(h, t, L) /\ t.red[g] /\ Reds(t, L, {}, {g})
      BY ONLY <2>2, <2>3, RecolourTurn
    <3>2. CountsTo(t, L, {}, g, bh[x] + 1)
      BY ONLY <2>2, <2>3, RecolourTurn
    <3> QED
      BY <3>1, <3>2 DEF CountsTo
  <2>5. PICK bh2 : Blacks(t, L, {}, bh2) /\ bh2[g] = bh[x] + 1
    BY <2>4
  <2>6. turns' <= bh2[g] /\ turns' < bh2[g]
    BY ONLY <2>5, <1>5, <1>14
  <2>7. /\ Turned(h, h', InTree) /\ x' \in InTree /\ h'.red[x'] /\ Reds(h', InTree, {}, {x'})
        /\ Blacks(h', InTree, {}, bh2) /\ turns' <= bh2[x'] /\ turns' < bh2[x']
    BY <2>1, <2>3, <2>4, <2>5, <2>6, <1>2, <1>12
  <2> QED
    BY <2>7, <1>1, <1>14, InsertKept
<1>16. CASE ~h.red[u]
  <2>1. ASSUME NEW t, NEW c, NEW q, Inserting(t, L, c, bh), Turned(h, t, L),
               c \in L, q \in L, t.kid[s][q] = c, t.kid[s][g] = q, t.red[q],
               ~t.red[t.kid[o][g]], bh[c] = bh[x],
               h' = Rotate(Trade(t, q, g), g, o), x' = c
        PROVE  IInv' /\ h'.key = h.key
    <3>1. PICK t2 : t2 = Rotate(Trade(t, q, g), g, o)
      OBVIOUS
    <3>2. /\ Inserting(t, L, c, bh) /\ q \in L /\ g \in L /\ o \in Sides
          /\ t.kid[Other(o)][q] = c /\ t.kid[Other(o)][g] = q /\ t.red[q] /\ ~t.red[t.kid[o][g]]
      BY <2>1, <1>11, <1>12
    <3>3. /\ Turned(t, t2, L) /\ Reds(t2, L, {}, {})
          /\ t2.up[c] = q /\ ~t2.red[q] /\ t2.red[c]
          /\ \E bh2 : Blacks(t2, L, {}, bh2) /\ bh2[c] = bh[c]
      BY ONLY <3>1, <3>2, OuterTurn
    <3>4. PICK bh2 : Blacks(t2, L, {}, bh2) /\ bh2[c] = bh[c]
      BY <3>3
    <3>5. Turned(h, t2, L)
      BY <2>1, <3>3, TurnTrans
    <3>6. ~InsertGoesOn'
      BY <2>1, <3>1, <3>3 DEF InsertGoesOn
    <3>7. turns' <= bh2[c]
      BY ONLY <2>1, <3>4, <1>5, <1>14
    <3>8. Reds(t2, L, {}, {c})
      BY <3>3, RedsWeaken
    <3>9. /\ Turned(h, h', InTree) /\ x' \in InTree /\ h'.red[x'] /\ Reds(h', InTree, {}, {x'})
          /\ Blacks(h', InTree, {}, bh2) /\ turns' <= bh2[x']
      BY <2>1, <3>1, <3>3, <3>4, <3>5, <3>7, <3>8, <1>2
    <3> QED
      BY <3>6, <3>9, <1>1, <1>14, InsertKept
  <2>2. CASE x = h.kid[o][p]
    <3>1. PICK t : t = Rotate(h, p, s)
      OBVIOUS
    <3>2. /\ Inserting(h, L, x, bh) /\ p \in L /\ s \in Sides /\ x = h.kid[Other(s)][p] /\ h.red[p]
      BY <2>2, <1>3, <1>7, <1>10, <1>11
    <3>3. /\ Turned(h, t, L) /\ Inserting(t, L, p, bh)
          /\ t.red = h.red /\ t.up[p] = x /\ t.kid[s][x] = p /\ t.up[x] = h.up[p]
      BY ONLY <3>1, <3>2, InnerTurn
    <3>4. /\ \A r \in Sides : h.kid[r][h.up[p]] = p => t.kid[r][h.up[p]] = x
          /\ \A r \in Sides : h.kid[r][h.up[p]] # p => t.kid[r][h.up[p]] = h.kid[r][h.up[p]]
      BY ONLY <3>1, <3>2, InnerTurn
    <3>5. t.kid[s][g] = x /\ t.kid[o][g] = u
      BY <3>4, <1>8, <1>11, <1>12, <1>13
    <3>6. bh[p] = bh[x]
      <4>1. bh[p] = bh[x] + Tint(h, p)
        BY <3>2, <1>4, <1>11, EvenBlacks
      <4>2. Tint(h, p) = 0
        BY <1>7 DEF Tint
      <4> QED
        BY ONLY <4>1, <4>2, <1>5
    <3>7. h' = Rotate(Trade(t, x, g), g, o) /\ x' = p
      <4>1. t.up[p] = x /\ t.up[x] = g
        BY <3>3, <1>8
      <4> QED
        BY <3>1, <4>1, <2>2, <1>6, <1>8, <1>9, <1>10, <1>13, <1>16 DEF InsertTurn, Trade
    <3>8. /\ Inserting(t, L, p, bh) /\ Turned(h, t, L) /\ p \in L /\ x \in L /\ t.kid[s][x] = p
          /\ t.kid[s][g] = x /\ t.red[x] /\ ~t.red[t.kid[o][g]] /\ bh[p] = bh[x]
      BY <3>3, <3>5, <3>6, <1>4, <1>7, <1>16
    <3> QED
      BY <3>7, <3>8, <2>1
  <2>3. CASE x # h.kid[o][p]
    <3>1. h.kid[s][p] = x
      <4>1. \E r \in Sides : h.kid[r][p] = x
        BY <1>1, <1>4, <1>6, Parent
      <4> QED
        BY <4>1, <2>3, <1>11
    <3>2. h' = Rotate(Trade(h, p, g), g, o) /\ x' = x
      BY <2>3, <1>6, <1>8, <1>9, <1>10, <1>13, <1>16 DEF InsertTurn, Trade
    <3>3. Turned(h, h, L)
      BY <1>4 DEF Turned, Within
    <3>4. /\ Inserting(h, L, x, bh) /\ Turned(h, h, L) /\ x \in L /\ p \in L /\ h.kid[s][p] = x
          /\ h.kid[s][g] = p /\ h.red[p] /\ ~h.red[h.kid[o][g]] /\ bh[x] = bh[x]
      BY <3>1, <3>3, <1>3, <1>4, <1>7, <1>12, <1>13, <1>16
    <3> QED
      BY <3>2, <3>4, <2>1
  <2> QED
    BY <2>2, <2>3
<1> QED
  BY <1>15, <1>16

\* The end of an insert and of a delete: a call is over, and L is the tree and what is used.
LEMMA CallOver ==
    ASSUME NEW L, NEW bh, h' \in Heaps, used' = L, L \in SUBSET Nodes, Blanked(h', L),
           Shaped(h', L), Reds(h', L, {}, {}), Blacks(h', L, {}, bh),
           pc' = "idle", x' = RBNULL, y' = RBNULL, turns' = 0, nextp' = Closed
    PROVE  IInv'
<1>1. InTree' = L /\ Lacking' = {} /\ Reddened' = {} /\ ~Repairs'
  BY DEF InTree, Lacking, Reddened, Repairs
<1>2. Memory'
  BY <1>1, BlankedIsSparse DEF Memory, Shaped
<1>3. Cursor'
  BY <1>1 DEF Cursor
<1>4. Paced(bh)'
  <2>1. bh[h'.root] \in Nat
    BY HeapFields DEF Blacks
  <2> QED
    BY <2>1 DEF Paced
<1> QED
  BY <1>1, <1>2, <1>3, <1>4 DEF IInv, Shaped

\* The end of that loop.
LEMMA InsertEndKeeps ==
    ASSUME IInv, InsertEnd
    PROVE  IInv' /\ h'.key = h.key
<1>1. /\ pc = "insert" /\ (x = h.root \/ ~h.red[h.up[x]]) /\ h' = Blacken(h, h.root)
      /\ pc' = "idle" /\ x' = RBNULL /\ turns' = 0 /\ used' = used /\ y' = y /\ nextp' = nextp
  BY DEF InsertEnd, InsertGoesOn, Blacken
<1>2. PICK bh : Inserting(h, used, x, bh)
  BY <1>1, InsertingIs
<1>3. InTree = used /\ y = RBNULL
  BY <1>1, InsertingIs
<1>4. PICK t : t = Blacken(h, h.root)
  OBVIOUS
<1>5. /\ Turned(h, t, used) /\ Reds(t, used, {}, {}) /\ \E bh2 : Blacks(t, used, {}, bh2)
  BY ONLY <1>1, <1>2, <1>4, InsertStop
<1>6. PICK bh2 : Blacks(t, used, {}, bh2)
  BY <1>5
<1>7. Blanked(t, used) /\ used \in SUBSET Nodes
  BY <1>5 DEF IInv, Memory, Blanked, Turned, Within, Pointers
<1>8. Shaped(t, used) /\ t \in Heaps
  BY <1>5 DEF Turned, Shaped, WellLinked
<1>9. nextp' = Closed
  BY <1>1 DEF IInv, Memory
<1>10. t.key = h.key
  BY <1>5 DEF Turned, Within
<1> QED
  BY <1>1, <1>3, <1>4, <1>5, <1>6, <1>7, <1>8, <1>9, <1>10, CallOver

-----------------------------------------------------------------------------
(* The loop of a delete, the invariant and the properties. *)

\* In the loop of a delete the invariant is what the lemmas on its turns ask.
LEMMA DeletingIs ==
    ASSUME IInv, pc = "delete", DeleteGoesOn, NEW p, p = h.up[x],
           NEW s, s = IF x = h.kid["left"][p] THEN "left" ELSE "right"
    PROVE  /\ Repairs /\ Lacking = {x} /\ Reddened = {x}
           /\ \E bh : Deleting(h, InTree, x, p, s, Other(s), bh) /\ Paced(bh)
<1>1. ~h.red[y] /\ x # h.root /\ ~h.red[x]
  BY DEF DeleteGoesOn
<1>2. Repairs /\ Lacking = {x} /\ Reddened = {x}
  BY <1>1 DEF Repairs, Lacking, Reddened
<1>3. x \in InTree \union {RBNULL} /\ p \in InTree /\ Hangs(h, x)
  BY <1>1, <1>2 DEF IInv, Cursor
<1>4. s \in Sides /\ Other(s) \in Sides /\ s = Other(Other(s))
      /\ h.kid[s][p] = x /\ h.kid[Other(s)][p] # x
  BY <1>3 DEF Hangs, Sides, Other
<1>5. Shaped(h, InTree) /\ WellLinked(h, InTree)
  BY DEF IInv, Memory, Shaped, Keyed, InTree
<1>6. PICK bh : Blacks(h, InTree, {x}, bh) /\ Paced(bh)
  BY <1>2 DEF IInv
<1>7. bh[x] > 0
  BY <1>3, <1>5, <1>6, PositiveBlacks
<1>8. Reds(h, InTree, {}, {})
  <2>1. Reds(h, InTree, {x}, {x})
    BY <1>2 DEF IInv
  <2> QED
    BY <2>1, <1>1 DEF Reds
<1>9. Deleting(h, InTree, x, p, s, Other(s), bh)
  BY <1>1, <1>3, <1>4, <1>5, <1>6, <1>7, <1>8 DEF Deleting
<1> QED
  BY <1>2, <1>6, <1>9

\* What a turn must leave for the invariant to hold again.
LEMMA DeleteKept ==
    ASSUME IInv, pc = "delete", Repairs, UNCHANGED <<used, pc, y, nextp>>, turns' = turns + 1,
           Turned(h, h', InTree), x' \in InTree, Reds(h', InTree, {x'}, {x'}),
           NEW bh, Blacks(h', InTree, {x'}, bh), turns' <= bh[x'],
           DeleteGoesOn' => turns' < bh[x']
    PROVE  IInv' /\ h'.key = h.key
<1>1. turns \in Nat /\ turns' \in Nat
  BY DEF IInv, Memory
<1>2. Memory' /\ InTree' = InTree /\ Repairs'
  BY <1>1, MemoryKept
<1>3. Lacking' = {x'} /\ Reddened' = {x'} /\ pc' = "delete"
  BY <1>2 DEF Lacking, Reddened
<1>4. WellLinked(h', InTree) /\ Ordered(h', InTree)
  BY DEF Turned, Shaped
<1>5. Cursor'
  <2>1. ASSUME x' # h'.root PROVE h'.up[x'] \in InTree /\ Hangs(h', x')
    <3>1. /\ h'.up[x'] \in InTree \union {RBNULL} /\ h'.up[x'] # RBNULL
          /\ \E s \in Sides : h'.kid[s][h'.up[x']] = x' /\ h'.kid[Other(s)][h'.up[x']] # x'
      BY <2>1, <1>4, Parent
    <3> QED
      BY <3>1 DEF Hangs
  <2>2. y' \in used' \union {RBNULL} /\ y' # RBNULL
    BY DEF IInv, Cursor
  <2> QED
    BY <2>1, <2>2, <1>2, <1>3 DEF Cursor
<1>6. Paced(bh)'
  <2>1. bh[x'] <= bh[h'.root]
    BY <1>4, RootHighest
  <2>2. bh[x'] \in Nat /\ bh[h'.root] \in Nat
    BY <1>4 DEF Blacks, WellLinked, RootFits, Pointers
  <2>3. turns' <= bh[h'.root]
    BY ONLY <2>1, <2>2, <1>1, turns' <= bh[x']
  <2> QED
    BY <2>3, <1>3 DEF Paced
<1> QED
  BY <1>2, <1>3, <1>4, <1>5, <1>6 DEF IInv, Turned, Within

\* No node is the child of another and the root.
LEMMA RootLack ==
    ASSUME NEW t, NEW L, WellLinked(t, L), NEW bh, t.root \in L
    PROVE  Blacks(t, L, {}, bh) <=> Blacks(t, L, {t.root}, bh)
<1>1. t.root # RBNULL /\ t.up[t.root] = RBNULL /\ RBNULL \notin L
  BY NodesDistinct DEF WellLinked, RootFits
<1>2. \A n \in L, r \in Sides : Lack(t, {t.root}, n, r) = 0
  BY <1>1 DEF Lack
<1>3. \A n, r : Lack(t, {}, n, r) = 0
  BY NoLack
<1>4. \A n \in L, r \in Sides : Lack(t, {t.root}, n, r) = Lack(t, {}, n, r)
  BY <1>2, <1>3
<1> QED
  BY <1>4 DEF Blacks

\* A turn of the loop of _delete_fix, repaint by repaint.
RepairsSo(p, s, o, h1, w, h2, v) ==
    /\ p = h.up[x] /\ s = (IF x = h.kid["left"][p] THEN "left" ELSE "right") /\ o = Other(s)
    /\ h.red[h.kid[o][p]] => h1 = Rotate(Trade(h, h.kid[o][p], p), p, s)
    /\ ~h.red[h.kid[o][p]] => h1 = h
    /\ w = h1.kid[o][h1.up[x]]
    /\ ~h1.red[h1.kid[o][w]] => h2 = Rotate(Trade(h1, h1.kid[s][w], w), w, o)
    /\ h1.red[h1.kid[o][w]] => h2 = h1
    /\ v = h2.kid[o][h2.up[x]]
    /\ NoRedKid(h1, w) => h' = Redden(h1, w) /\ x' = h1.up[x]
    /\ ~NoRedKid(h1, w) =>
           h' = Rotate(Hand(h2, v, h2.up[x], h2.kid[o][v]), h2.up[x], s) /\ x' = h'.root

\* A turn is one of these.
LEMMA DeleteTurnIs ==
    ASSUME DeleteTurn
    PROVE  \E p, s, o, h1, w, h2, v : RepairsSo(p, s, o, h1, w, h2, v)
<1> DEFINE p == h.up[x]
           s == IF x = h.kid["left"][p] THEN "left" ELSE "right"
           w0 == h.kid[Other(s)][p]
           h1 == IF h.red[w0]
                 THEN Rotate([h EXCEPT !.red[w0] = FALSE, !.red[p] = TRUE], p, s) ELSE h
           p1 == h1.up[x]
           w == h1.kid[Other(s)][p1]
           near == h1.kid[s][w]
           h2 == IF ~h1.red[h1.kid[Other(s)][w]]
                 THEN Rotate([h1 EXCEPT !.red[near] = FALSE, !.red[w] = TRUE], w, Other(s)) ELSE h1
           p2 == h2.up[x]
           v == h2.kid[Other(s)][p2]
           far == h2.kid[Other(s)][v]
<1>1. IF ~h1.red[h1.kid["left"][w]] /\ ~h1.red[h1.kid["right"][w]]
      THEN h' = [h1 EXCEPT !.red[w] = TRUE] /\ x' = p1
      ELSE /\ h' = Rotate([h2 EXCEPT !.red[v] = h2.red[p2], !.red[p2] = FALSE,
                                     !.red[far] = FALSE], p2, s)
           /\ x' = AfterLastTurn(h')
  BY DEF DeleteTurn
<1>2. v = h2.kid[Other(s)][p2] /\ p2 = h2.up[x] /\ far = h2.kid[Other(s)][v]
  OBVIOUS
<1> HIDE DEF far, v, p2
<1>3. /\ ~h1.red[h1.kid[Other(s)][w]] => h2 = Rotate(Trade(h1, near, w), w, Other(s))
      /\ h1.red[h1.kid[Other(s)][w]] => h2 = h1
  BY DEF Trade
<1>4. near = h1.kid[s][w]
  OBVIOUS
<1> HIDE DEF h2, near
<1>5. w = h1.kid[Other(s)][p1] /\ p1 = h1.up[x]
  OBVIOUS
<1> HIDE DEF w, p1
<1>6. (h.red[w0] => h1 = Rotate(Trade(h, w0, p), p, s)) /\ (~h.red[w0] => h1 = h)
  BY DEF Trade
<1> HIDE DEF h1
<1>7. /\ p = h.up[x] /\ s = (IF x = h.kid["left"][p] THEN "left" ELSE "right")
      /\ w0 = h.kid[Other(s)][p]
  OBVIOUS
<1> HIDE DEF w0, s, p
<1>8. RepairsSo(p, s, Other(s), h1, w, h2, v)
  <2>1. NoRedKid(h1, w) <=> ~h1.red[h1.kid["left"][w]] /\ ~h1.red[h1.kid["right"][w]]
    BY DEF NoRedKid, Sides
  <2>2. NoRedKid(h1, w) => h' = Redden(h1, w) /\ x' = p1
    BY ONLY <2>1, <1>1 DEF Redden
  <2>3. ~NoRedKid(h1, w) =>
           h' = Rotate(Hand(h2, v, p2, h2.kid[Other(s)][v]), p2, s) /\ x' = h'.root
    BY ONLY <2>1, <1>1, <1>2 DEF Hand, AfterLastTurn
  <2> QED
    BY ONLY <2>2, <2>3, <1>2, <1>3, <1>4, <1>5, <1>6, <1>7 DEF RepairsSo
<1> QED
  BY ONLY <1>8

\* A turn of the loop of _delete_fix.
LEMMA DeleteTurnKeeps ==
    ASSUME IInv, DeleteTurn
    PROVE  IInv' /\ h'.key = h.key
<1>1. pc = "delete" /\ DeleteGoesOn
  BY DEF DeleteTurn
<1>2. PICK L : L = InTree
  OBVIOUS
<1>3. PICK p, s, o, h1, w, h2, v : RepairsSo(p, s, o, h1, w, h2, v)
  BY DeleteTurnIs
<1>4. PICK w0, near, far : w0 = h.kid[o][p] /\ near = h1.kid[s][w] /\ far = h2.kid[o][v]
  OBVIOUS
<1>5. p = h.up[x] /\ s = (IF x = h.kid["left"][p] THEN "left" ELSE "right") /\ o = Other(s)
  BY <1>3 DEF RepairsSo
<1>6. w = h1.kid[o][h1.up[x]] /\ v = h2.kid[o][h2.up[x]]
  BY <1>3 DEF RepairsSo
<1>7. (h.red[w0] => h1 = Rotate(Trade(h, w0, p), p, s)) /\ (~h.red[w0] => h1 = h)
  BY <1>3, <1>4 DEF RepairsSo
<1>8. /\ ~h1.red[h1.kid[o][w]] => h2 = Rotate(Trade(h1, near, w), w, o)
      /\ h1.red[h1.kid[o][w]] => h2 = h1
  BY <1>3, <1>4 DEF RepairsSo
<1>9. /\ NoRedKid(h1, w) => h' = Redden(h1, w) /\ x' = h1.up[x]
      /\ ~NoRedKid(h1, w) => h' = Rotate(Hand(h2, v, h2.up[x], far), h2.up[x], s) /\ x' = h'.root
  BY <1>3, <1>4 DEF RepairsSo
<1>10. /\ Repairs /\ \E bh : Deleting(h, L, x, p, s, o, bh) /\ Paced(bh)
  BY <1>1, <1>2, <1>5, DeletingIs
<1>11. PICK bh : Deleting(h, L, x, p, s, o, bh) /\ Paced(bh)
  BY <1>10
<1>12. UNCHANGED <<used, pc, y, nextp>> /\ turns' = turns + 1
  BY DEF DeleteTurn
<1>13. /\ Shaped(h, L) /\ WellLinked(h, L) /\ p \in L /\ s \in Sides /\ o \in Sides
       /\ o = Other(s) /\ bh \in [Pointers -> Nat] /\ x \in Pointers /\ L \subseteq Pointers
       /\ bh[x] \in Nat
  BY <1>11, NodesDistinct DEF Deleting, Blacks, Shaped, WellLinked, Pointers
<1>14. Sides = {s, o} /\ Sides = {"left", "right"}
  BY <1>13, SidesAre DEF Sides
<1>15. turns < bh[x] /\ turns \in Nat
  BY <1>1, <1>11 DEF Paced, IInv, Memory
<1>16. Turned(h, h, L)
  BY <1>13 DEF Turned, Within
<1>17. /\ Turned(h, h1, L) /\ ~h1.red[h1.kid[o][p]]
       /\ \E bh1 : Deleting(h1, L, x, p, s, o, bh1) /\ bh1[x] = bh[x]
  <2>1. CASE h.red[w0]
    <3>1. Deleting(h, L, x, p, s, o, bh) /\ h1 = Rotate(Trade(h, w0, p), p, s)
      BY <2>1, <1>11, <1>7
    <3>2. Turned(h, h1, L) /\ ~h1.red[h1.kid[o][p]]
      BY ONLY <3>1, <2>1, <1>4, RedSibling
    <3>3. \E bh1 : Deleting(h1, L, x, p, s, o, bh1) /\ bh1[x] = bh[x]
      BY ONLY <3>1, <2>1, <1>4, RedSibling
    <3> QED
      BY <3>2, <3>3
  <2>2. CASE ~h.red[w0]
    BY <2>2, <1>4, <1>11, <1>7, <1>16
  <2> QED
    BY <2>1, <2>2
<1>18. PICK bh1 : Deleting(h1, L, x, p, s, o, bh1) /\ bh1[x] = bh[x]
  BY <1>17
\* The first rotation leaves x where it is, also when x is the sentinel.
<1>19. h1.up[x] = p /\ w = h1.kid[o][p] /\ ~h1.red[w]
  <2>1. h1.up[x] = p
    BY ONLY <1>18 DEF Deleting
  <2> QED
    BY <2>1, <1>6, <1>17
<1>20. CASE NoRedKid(h1, w)
  <2>1. h' = Redden(h1, w) /\ x' = p
    BY <1>9, <1>19, <1>20
  <2>2. PICK t : t = Redden(h1, w)
    OBVIOUS
  <2>3. NoneRed(h1, L, x, p, s, o, bh1, w)
    BY <1>18, <1>19, <1>20 DEF NoneRed
  <2>4. Turned(h1, t, L) /\ Reds(t, L, {p}, {p}) /\ (h1.red[p] => t.red[p])
    <3>1. Turned(h1, t, L) /\ Reds(t, L, {p}, {p})
      BY ONLY <2>2, <2>3, BothBlack
    <3>2. h1.red[p] => t.red[p]
      BY ONLY <2>2, <2>3, BothBlack
    <3> QED
      BY <3>1, <3>2
  <2>5. CountsTo(t, L, {p}, p, bh1[x] + Tint(h1, p))
    BY ONLY <2>2, <2>3, BothBlack
  <2>6. PICK bh2 : Blacks(t, L, {p}, bh2) /\ bh2[p] = bh1[x] + Tint(h1, p)
    BY <2>5 DEF CountsTo
  <2>7. Tint(h1, p) \in Nat /\ (~t.red[p] => Tint(h1, p) = 1)
    BY <2>4 DEF Tint
  <2>8. turns' <= bh2[p]
    BY ONLY <2>6, <2>7, <1>12, <1>13, <1>15, <1>18
  <2>9. DeleteGoesOn' => turns' < bh2[x']
    <3>1. SUFFICES ASSUME DeleteGoesOn' PROVE turns' < bh2[p]
      BY <2>1
    <3>2. ~t.red[p]
      BY <3>1, <2>1, <2>2 DEF DeleteGoesOn
    <3>3. Tint(h1, p) = 1
      BY <3>2, <2>7
    <3> QED
      BY ONLY <3>3, <2>6, <1>12, <1>13, <1>15, <1>18
  <2>10. Turned(h, t, L)
    BY <2>4, <1>17, TurnTrans
  <2>11. /\ Turned(h, h', InTree) /\ x' \in InTree /\ Reds(h', InTree, {x'}, {x'})
         /\ Blacks(h', InTree, {x'}, bh2) /\ turns' <= bh2[x']
    BY <2>1, <2>2, <2>4, <2>6, <2>8, <2>10, <1>2, <1>13
  <2> QED
    BY <2>9, <2>11, <1>1, <1>10, <1>12, DeleteKept
<1>21. CASE ~NoRedKid(h1, w)
  <2>1. /\ Turned(h1, h2, L) /\ ~h2.red[h2.kid[o][p]] /\ h2.red[h2.kid[o][h2.kid[o][p]]]
        /\ \E bh2 : Deleting(h2, L, x, p, s, o, bh2) /\ bh2[x] = bh1[x]
    <3>1. CASE h1.red[h1.kid[o][w]]
      <4>1. h2 = h1
        BY <3>1, <1>8
      <4>2. Turned(h1, h1, L)
        BY <1>17 DEF Turned, Within
      <4> QED
        BY <3>1, <4>1, <4>2, <1>18, <1>19
    <3>2. CASE ~h1.red[h1.kid[o][w]]
      <4>1. h1.red[near] /\ h2 = Rotate(Trade(h1, near, w), w, o)
        BY <3>2, <1>4, <1>8, <1>14, <1>21 DEF NoRedKid
      <4>2. OnlyNearRed(h1, L, x, p, s, o, bh1, w, near)
        BY <3>2, <4>1, <1>4, <1>18, <1>19 DEF OnlyNearRed
      <4>3. Turned(h1, h2, L)
        BY ONLY <4>1, <4>2, NearRed
      <4>4. ~h2.red[h2.kid[o][p]] /\ h2.red[h2.kid[o][h2.kid[o][p]]]
        BY ONLY <4>1, <4>2, NearRed
      <4>5. \E bh2 : Deleting(h2, L, x, p, s, o, bh2) /\ bh2[x] = bh1[x]
        BY ONLY <4>1, <4>2, NearRed
      <4> QED
        BY <4>3, <4>4, <4>5
    <3> QED
      BY <3>1, <3>2
  <2>2. PICK bh2 : Deleting(h2, L, x, p, s, o, bh2) /\ bh2[x] = bh1[x]
    BY <2>1
  \* Nor does the second rotation move x.
  <2>3. /\ h2.up[x] = p /\ v = h2.kid[o][p] /\ ~h2.red[v] /\ h2.red[far]
        /\ h' = Rotate(Hand(h2, v, p, far), p, s) /\ x' = h'.root
    <3>1. h2.up[x] = p
      BY ONLY <2>2 DEF Deleting
    <3>2. v = h2.kid[o][p]
      BY <3>1, <1>6
    <3>3. ~h2.red[v] /\ h2.red[far]
      BY <3>2, <2>1, <1>4
    <3> QED
      BY <3>1, <3>2, <3>3, <1>9, <1>21
  <2>4. PICK t : t = Rotate(Hand(h2, v, p, far), p, s)
    OBVIOUS
  <2>5. Turned(h2, t, L) /\ Reds(t, L, {}, {})
    BY ONLY <2>2, <2>3, <2>4, <1>4, FarRed
  <2>6. \E bh3 : Blacks(t, L, {}, bh3) /\ bh3[p] = bh2[x] + 1
    BY ONLY <2>2, <2>3, <2>4, <1>4, FarRed
  <2>7. PICK bh3 : Blacks(t, L, {}, bh3) /\ bh3[p] = bh2[x] + 1
    BY <2>6
  <2>8. Turned(h, t, L)
    BY <2>1, <2>5, <1>17, TurnTrans
  <2>9. WellLinked(t, L) /\ RBNULL \notin L /\ t.root \in L
    <3>1. WellLinked(t, L) /\ RBNULL \notin L
      BY <2>5, NodesDistinct DEF Turned, Shaped, WellLinked
    <3>2. t.root # RBNULL
      BY <3>1, <1>13, RootEmpty
    <3> QED
      BY <3>1, <3>2 DEF WellLinked, RootFits
  <2>10. Blacks(t, L, {t.root}, bh3)
    BY <2>7, <2>9, RootLack
  <2>11. bh3[p] <= bh3[t.root]
    BY <2>7, <2>9, <1>13, RootHighest
  <2>12. bh3[p] \in Nat /\ bh3[t.root] \in Nat
    BY <2>7, <2>9, <1>13 DEF Blacks
  <2>13. turns' <= bh3[t.root]
    BY ONLY <2>2, <2>7, <2>11, <2>12, <1>12, <1>13, <1>15, <1>18
  <2>14. Reds(t, L, {t.root}, {t.root})
    BY <2>5, RedsWeaken
  <2>15. ~DeleteGoesOn'
    BY <2>3 DEF DeleteGoesOn
  <2>16. /\ Turned(h, h', InTree) /\ x' \in InTree /\ Reds(h', InTree, {x'}, {x'})
         /\ Blacks(h', InTree, {x'}, bh3) /\ turns' <= bh3[x']
    BY <2>3, <2>4, <2>8, <2>9, <2>10, <2>13, <2>14, <1>2
  <2> QED
    BY <2>15, <2>16, <1>1, <1>10, <1>12, DeleteKept
<1> QED
  BY <1>20, <1>21

-----------------------------------------------------------------------------
\* The end of the loop of a delete: the node it stops at turns black.
LEMMA DeleteStop ==
    ASSUME NEW t, NEW L, NEW c, NEW bh, Shaped(t, L), c \in L \union {RBNULL},
           c = t.root \/ t.red[c], Reds(t, L, {c}, {c}), Blacks(t, L, {c}, bh),
           NEW t2, t2 = Blacken(t, c)
    PROVE  Turned(t, t2, L) /\ Reds(t2, L, {}, {}) /\ \E bh2 : Blacks(t2, L, {}, bh2)
<1>1. /\ WellLinked(t, L) /\ L \subseteq Pointers /\ RBNULL \notin L /\ RBNULL \in Pointers
      /\ t \in Heaps /\ c \in Pointers
  BY NodesDistinct DEF Shaped, WellLinked, Pointers
<1>2. ~t.red[RBNULL]
  BY DEF Reds
<1>3. /\ t2 \in Heaps /\ t2.kid = t.kid /\ t2.up = t.up /\ t2.root = t.root /\ t2.key = t.key
      /\ ~t2.red[c] /\ \A q \in Pointers : q # c => t2.red[q] = t.red[q]
  BY <1>1 DEF Heaps, Blacken
<1>4. \A q \in Pointers \ L : t2.red[q] = t.red[q]
  <2>1. CASE c \in L
    BY <2>1, <1>3
  <2>2. CASE c = RBNULL
    <3>1. t.red[RBNULL] = FALSE /\ t2.red[RBNULL] = FALSE
      BY <2>2, <1>1, <1>2, <1>3 DEF Heaps
    <3> QED
      BY <3>1, <2>2, <1>3
  <2> QED
    BY <2>1, <2>2
<1>5. Turned(t, t2, L)
  <2>1. Repainted(t, t2, L)
    BY <1>3, <1>4 DEF Repainted
  <2> QED
    BY <2>1, TurnPaint
<1>6. Reds(t2, L, {}, {})
  <2>1. ASSUME NEW q \in L, NEW r \in Sides, t2.red[q], t2.red[t2.kid[r][q]] PROVE FALSE
    <3>1. t.kid[r][q] \in Pointers /\ t2.kid[r][q] = t.kid[r][q] /\ q # c /\ t.kid[r][q] # c
      BY <2>1, <1>1, <1>3, KidsArePointers
    <3>2. t.red[q] /\ t.red[t.kid[r][q]]
      BY <2>1, <3>1, <1>1, <1>3
    <3> QED
      BY <3>1, <3>2 DEF Reds
  <2>2. ~t2.red[t2.root]
    <3>1. t.root \in Pointers /\ (t.red[t.root] => t.root = c)
      BY <1>1 DEF Reds, Heaps
    <3> QED
      BY <3>1, <1>3
  <2>3. ~t2.red[RBNULL]
    BY <1>1, <1>2, <1>3
  <2> QED
    BY <2>1, <2>2, <2>3 DEF Reds
<1>7. /\ bh \in [Pointers -> Nat] /\ bh[RBNULL] = 1
      /\ \A n \in L, r \in Sides :
            bh[n] = bh[t.kid[r][n]] + Lack(t, {c}, n, r) + Tint(t, n)
  BY DEF Blacks
<1>8. \A n \in L, r \in Sides :
         /\ t.kid[r][n] \in Pointers /\ t.kid[r][n] # n
         /\ t.kid[r][n] # RBNULL => t.up[t.kid[r][n]] = n /\ t.kid[r][n] # t.root
  BY <1>1, Apart, KidsArePointers
<1>9. CASE t.red[c]
  <2>1. c \in L /\ c # RBNULL
    BY <1>1, <1>2, <1>9
  <2>2. PICK bh2 : bh2 = [q \in Pointers |-> IF q = c THEN bh[q] + 1 ELSE bh[q]]
    OBVIOUS
  <2>3. /\ bh2 \in [Pointers -> Nat] /\ bh2[c] = bh[c] + 1 /\ bh2[RBNULL] = 1
        /\ \A q \in Pointers : q # c => bh2[q] = bh[q]
    BY <2>1, <2>2, <1>1, <1>7
  <2>4. ASSUME NEW n \in L, NEW r \in Sides
        PROVE  bh2[n] = bh2[t2.kid[r][n]] + Lack(t2, {}, n, r) + Tint(t2, n)
    <3>1. PICK m : m = t.kid[r][n]
      OBVIOUS
    <3>2. /\ m \in Pointers /\ n \in Pointers /\ bh[m] \in Nat /\ bh[n] \in Nat
          /\ t2.kid[r][n] = m /\ m # n
      BY <3>1, <1>1, <1>3, <1>7, <1>8
    <3>3. Lack(t2, {}, n, r) = 0 /\ Lack(t, {c}, n, r) = (IF m = c THEN 1 ELSE 0)
      BY <3>1, <2>1, <1>8, NoLack DEF Lack
    <3>4. bh[n] = bh[m] + Lack(t, {c}, n, r) + Tint(t, n)
      BY <3>1, <1>7
    <3>5. Tint(t, n) \in Nat /\ Tint(t2, n) = IF n = c THEN Tint(t, n) + 1 ELSE Tint(t, n)
      BY <3>2, <1>3, <1>9 DEF Tint
    <3>6. /\ bh2[n] = (IF n = c THEN bh[n] + 1 ELSE bh[n])
          /\ bh2[m] = (IF m = c THEN bh[m] + 1 ELSE bh[m])
      BY <3>2, <2>3
    <3>7. bh2[n] = bh2[m] + Lack(t2, {}, n, r) + Tint(t2, n)
      BY ONLY <3>2, <3>3, <3>4, <3>5, <3>6
    <3> QED
      BY <3>2, <3>7
  <2>5. Blacks(t2, L, {}, bh2)
    BY <2>3, <2>4 DEF Blacks
  <2> QED
    BY <2>5, <1>5, <1>6
<1>10. CASE ~t.red[c]
  <2>1. \A q \in Pointers : Tint(t2, q) = Tint(t, q)
    BY <1>3, <1>10 DEF Tint
  <2>2. ASSUME NEW n \in L, NEW r \in Sides PROVE Lack(t, {c}, n, r) = 0
    <3>1. c = t.root
      BY <1>10
    <3>2. CASE c = RBNULL
      BY <3>1, <3>2, <1>1, RootEmpty
    <3>3. CASE c # RBNULL
      BY <3>1, <3>3, <1>8 DEF Lack
    <3> QED
      BY <3>2, <3>3
  <2>3. ASSUME NEW n \in L, NEW r \in Sides
        PROVE  bh[n] = bh[t2.kid[r][n]] + Lack(t2, {}, n, r) + Tint(t2, n)
    <3>1. Lack(t2, {}, n, r) = 0 /\ Lack(t, {c}, n, r) = 0
      BY <2>2, NoLack
    <3>2. Tint(t2, n) = Tint(t, n) /\ t2.kid[r][n] = t.kid[r][n]
      BY <2>1, <1>1, <1>3
    <3> QED
      BY <3>1, <3>2, <1>7
  <2>4. Blacks(t2, L, {}, bh)
    BY <2>3, <1>7 DEF Blacks
  <2> QED
    BY <2>4, <1>5, <1>6
<1> QED
  BY <1>9, <1>10

\* The end of that loop, and the release of the node.
LEMMA DeleteEndKeeps ==
    ASSUME IInv, DeleteEnd
    PROVE  IInv' /\ \A n \in InTree : h'.key[n] = h.key[n]
<1>1. /\ pc = "delete" /\ ~DeleteGoesOn /\ nextp' = nextp
      /\ h' = Blank(IF h.red[y] THEN h ELSE Blacken(h, x), {y}) /\ used' = used \ {y}
      /\ pc' = "idle" /\ x' = RBNULL /\ y' = RBNULL /\ turns' = 0
  BY DEF DeleteEnd, Blacken
<1>2. PICK L : L = used \ {y}
  OBVIOUS
<1>3. PICK t : t = IF h.red[y] THEN h ELSE Blacken(h, x)
  OBVIOUS
<1>4. /\ InTree = L /\ (Repairs <=> ~h.red[y]) /\ used \in SUBSET Nodes
      /\ Lacking = (IF Repairs THEN {x} ELSE {}) /\ Reddened = Lacking
  BY <1>1, <1>2 DEF InTree, Repairs, Lacking, Reddened, IInv, Memory
<1>5. /\ Shaped(h, L) /\ WellLinked(h, L) /\ x \in L \union {RBNULL} /\ y \in used
      /\ Blanked(h, used) /\ Keyed(h, used) /\ nextp = Closed
  BY <1>1, <1>2, <1>4 DEF IInv, Memory, Cursor, Shaped, Keyed
<1>6. PICK bh : Blacks(h, L, Lacking, bh)
  BY <1>4 DEF IInv
<1>7. Reds(h, L, Lacking, Lacking)
  BY <1>4 DEF IInv
<1>8. Turned(h, t, L) /\ Reds(t, L, {}, {}) /\ \E bh2 : Blacks(t, L, {}, bh2)
  <2>1. CASE h.red[y]
    <3>1. t = h /\ Lacking = {}
      BY <2>1, <1>3, <1>4
    <3>2. Turned(h, h, L)
      BY <1>5 DEF Turned, Within
    <3> QED
      BY <3>1, <3>2, <1>6, <1>7
  <2>2. CASE ~h.red[y]
    <3>1. t = Blacken(h, x) /\ Lacking = {x}
      BY <2>2, <1>3, <1>4
    <3>2. x = h.root \/ h.red[x]
      BY <2>2, <1>1 DEF DeleteGoesOn
    <3>3. /\ Shaped(h, L) /\ x \in L \union {RBNULL} /\ Reds(h, L, {x}, {x})
          /\ Blacks(h, L, {x}, bh)
      BY <3>1, <1>5, <1>6, <1>7
    <3>4. Turned(h, t, L) /\ Reds(t, L, {}, {})
      BY ONLY <3>1, <3>2, <3>3, DeleteStop
    <3>5. \E bh2 : Blacks(t, L, {}, bh2)
      BY ONLY <3>1, <3>2, <3>3, DeleteStop
    <3> QED
      BY <3>4, <3>5
  <2> QED
    BY <2>1, <2>2
<1>9. PICK bh2 : Blacks(t, L, {}, bh2)
  BY <1>8
<1>10. /\ Shaped(t, L) /\ t \in Heaps
       /\ {y} \in SUBSET Nodes /\ {y} \intersect L = {} /\ L \in SUBSET Nodes
  BY <1>2, <1>4, <1>5, <1>8 DEF Turned, Shaped, WellLinked
<1>11. h' = Blank(t, {y})
  BY <1>1, <1>3
<1>12. Erased(t, h', {y})
  BY <1>10, <1>11, BlankIs
<1>13. /\ Shaped(h', L)
       /\ \A q \in L \union {RBNULL} : h'.red[q] = t.red[q] /\ h'.up[q] = t.up[q]
       /\ \A q \in L \union {RBNULL}, r \in Sides : h'.kid[r][q] = t.kid[r][q]
  <2>1. Shaped(t, L) /\ {y} \in SUBSET Nodes /\ {y} \intersect L = {} /\ Erased(t, h', {y})
    BY <1>10, <1>12
  <2>2. Shaped(h', L)
    BY ONLY <2>1, EraseShape
  <2>3. L \union {RBNULL} \subseteq Pointers \ {y}
    BY <1>2, <1>4, <1>5, NodesDistinct DEF Pointers
  <2>4. /\ \A q \in L \union {RBNULL} : h'.red[q] = t.red[q] /\ h'.up[q] = t.up[q]
        /\ \A q \in L \union {RBNULL}, r \in Sides : h'.kid[r][q] = t.kid[r][q]
    BY <2>3, <1>12 DEF Erased
  <2> QED
    BY <2>2, <2>4
<1>14. h'.root = t.root /\ t.root \in L \union {RBNULL} /\ h' \in Heaps
  BY <1>10, <1>12 DEF Erased, Shaped, WellLinked, RootFits
<1>15. \A q \in L, r \in Sides : t.kid[r][q] \in L \union {RBNULL}
  BY <1>10 DEF Shaped, WellLinked, KidsFit
<1>16. Reds(h', L, {}, {})
  BY <1>8, <1>13, <1>14, <1>15 DEF Reds
<1>17. Blacks(h', L, {}, bh2)
  <2>1. \A q \in L : Tint(h', q) = Tint(t, q)
    BY <1>13 DEF Tint
  <2>2. \A q \in L, r \in Sides : Lack(h', {}, q, r) = Lack(t, {}, q, r)
    BY NoLack
  <2> QED
    BY <2>1, <2>2, <1>9, <1>13 DEF Blacks
<1>18. Blanked(h', L)
  <2> SUFFICES ASSUME NEW n \in Nodes \ L
               PROVE  h'.up[n] = RBNULL /\ \A r \in Sides : h'.kid[r][n] = RBNULL
    BY DEF Blanked
  <2>1. CASE n = y
    BY <2>1, <1>12 DEF Erased
  <2>2. CASE n # y
    <3>1. n \in Nodes \ used /\ n \in Pointers \ {y} /\ n \in Pointers \ L
      BY <2>2, <1>2 DEF Pointers
    <3>2. h.up[n] = RBNULL /\ \A r \in Sides : h.kid[r][n] = RBNULL
      BY <3>1, <1>5 DEF Blanked
    <3>3. t.up[n] = h.up[n] /\ \A r \in Sides : t.kid[r][n] = h.kid[r][n]
      BY <3>1, <1>8 DEF Turned, Within
    <3>4. h'.up[n] = t.up[n] /\ \A r \in Sides : h'.kid[r][n] = t.kid[r][n]
      BY <3>1, <1>12 DEF Erased
    <3> QED
      BY <3>2, <3>3, <3>4
  <2> QED
    BY <2>1, <2>2
<1>19. /\ h' \in Heaps /\ used' = L /\ L \in SUBSET Nodes /\ Blanked(h', L)
       /\ Shaped(h', L) /\ Reds(h', L, {}, {}) /\ Blacks(h', L, {}, bh2)
       /\ pc' = "idle" /\ x' = RBNULL /\ y' = RBNULL /\ turns' = 0 /\ nextp' = Closed
  BY <1>1, <1>2, <1>5, <1>10, <1>13, <1>14, <1>16, <1>17, <1>18
<1>20. \A n \in InTree : h'.key[n] = h.key[n]
  <2>1. t.key = h.key
    BY <1>8 DEF Turned, Within
  <2>2. \A n \in L : n \in Nodes \ {y}
    BY <1>2, <1>10
  <2> QED
    BY <2>1, <2>2, <1>4, <1>12 DEF Erased
<1>21. IInv'
  BY ONLY <1>19, CallOver
<1> QED
  BY <1>20, <1>21

-----------------------------------------------------------------------------
\* Every step keeps the invariant.
LEMMA NextKeeps ==
    ASSUME IInv, [Next]_vars
    PROVE  IInv'
<1>1. ASSUME NEW k \in Keys, rbsearch(k) \/ rbfind(k) \/ rbdelete(k) PROVE IInv'
  BY <1>1, SearchKeeps, ReadersKeep, UnlinkKeeps
<1>2. ASSUME NEW k \in Keys, NEW mode \in Modes, rblookup(mode, k) PROVE IInv'
  BY <1>2, ReadersKeep
<1>3. ASSUME InsertTurn \/ InsertEnd PROVE IInv'
  BY <1>3, InsertTurnKeeps, InsertEndKeeps
<1>4. ASSUME DeleteTurn \/ DeleteEnd PROVE IInv'
  BY <1>4, DeleteTurnKeeps, DeleteEndKeeps
<1>5. ASSUME rbwalk \/ rbcloselist PROVE IInv'
  BY <1>5, ReadersKeep
<1>6. ASSUME rbopenlist \/ rbreadlist PROVE IInv'
  BY <1>6, ListKeeps
<1>7. ASSUME rbdestroy \/ OtherTree PROVE IInv'
  BY <1>7, DestroyKeeps, OtherTreeKeeps
<1>8. ASSUME UNCHANGED vars PROVE IInv'
  <2>1. UNCHANGED <<h, used, pc, x, y, turns, nextp>>
    BY <1>8 DEF vars
  <2>2. nextp' \in used \union {RBNULL, Closed} /\ (nextp' # Closed => pc = "idle")
    BY <2>1 DEF IInv, Memory
  <2> QED
    BY <2>1, <2>2, StillKeeps
<1> QED
  BY <1>1, <1>2, <1>3, <1>4, <1>5, <1>6, <1>7, <1>8 DEF Next

\* The inductive invariant holds in every reachable state, whatever the keys and the nodes:
\* no call of redblack.c and no turn of its repair loops leaves anything but one search
\* tree, coloured right but for the place that the loop of _traverse or _delete_fix is at.
THEOREM TreeHolds == Spec => []IInv
BY InitKeeps, NextKeeps, PTL DEF Spec

\* The fields of the nodes and the variables x and y of both loops keep their types between
\* any two turns: what redblack.c follows is a node or the sentinel, and every
\* node that is allocated has a key.
THEOREM TypeHolds == Spec => []TypeOK
<1>1. IInv => TypeOK
  BY ONLY TypeFollows
<1> QED
  BY <1>1, TreeHolds, PTL

\* A child points to its parent, between any two turns of both loops: rb_left_rotate,
\* rb_right_rotate and rb_delete mend the links of every node they move.
THEOREM LinksHold == Spec => []LinksAgree
<1>1. IInv => LinksAgree
  BY ONLY LinksFollow
<1> QED
  BY <1>1, TreeHolds, PTL

\* Every node that is allocated is in the tree, but for the one a delete is about to free:
\* rbsearch, rbdelete and rbdestroy neither leak a node nor leave a freed one linked.
THEOREM AccountHolds == Spec => []Accounted
<1>1. IInv => Accounted
  BY ONLY AccountFollows
<1> QED
  BY <1>1, TreeHolds, PTL

\* No red node has a red child, but for the one a loop is about to look at: the turns of
\* _traverse and of _delete_fix move the fault up or mend it.
THEOREM RedsHold == Spec => []RedHasBlackChildren
<1>1. IInv => RedHasBlackChildren
  BY ONLY RedsFollow
<1> QED
  BY <1>1, TreeHolds, PTL

\* All ways down from a node meet the same number of black nodes, the one a delete took
\* counted where _delete_fix stands.
THEOREM BlacksHold == Spec => []BlackCountsEqual
<1>1. IInv => BlackCountsEqual
  BY ONLY BlacksFollow
<1> QED
  BY <1>1, TreeHolds, PTL

\* A repair takes no more turns than there are black nodes on a way down the tree: both
\* loops of redblack.c climb, and stop at the root at the latest.
THEOREM TurnsHold == Spec => []TurnsBounded
<1>1. IInv => TurnsBounded
  BY ONLY BlacksFollow
<1> QED
  BY <1>1, TreeHolds, PTL

-----------------------------------------------------------------------------
(* What the walks find, as keys. *)

\* The keys of the nodes L.
KeysIn(t, L) == {t.key[n] : n \in L}
\* What _destroy reaches is what is linked in.
Drawn == Reached = InTree

\* The least key of the map is the one below the others.
LEMMA LeastIs ==
    ASSUME NEW S \in SUBSET Keys, NEW k \in S, \A j \in S : j = k \/ k < j
    PROVE  Map!Least(S) = {k}
<1>1. k \in Int /\ \A j \in S : j \in Int
  BY KeysAreIntegers
<1>2. (\A j \in S : k <= j) /\ \A i \in S : i <= k => i = k
  BY <1>1
<1>3. \A i \in S : (\A j \in S : i <= j) <=> i = k
  BY <1>2
<1> QED
  BY <1>3 DEF Map!Least

\* The greatest is the one above them.
LEMMA GreatestIs ==
    ASSUME NEW S \in SUBSET Keys, NEW k \in S, \A j \in S : j = k \/ j < k
    PROVE  Map!Greatest(S) = {k}
<1>1. k \in Int /\ \A j \in S : j \in Int
  BY KeysAreIntegers
<1>2. (\A j \in S : j <= k) /\ \A i \in S : k <= i => i = k
  BY <1>1
<1>3. \A i \in S : (\A j \in S : j <= i) <=> i = k
  BY <1>2
<1> QED
  BY <1>3 DEF Map!Greatest

\* The node a holds the one key of S, or S is empty and there is no such node.
Picked(t, L, S, a) == (a = RBNULL /\ S = {}) \/ (a \in L /\ S = {t.key[a]})

\* _successor answers the key after k, if there is one.
LEMMA AfterIs ==
    ASSUME NEW t, NEW L, Shaped(t, L), NEW n \in L, NEW a, NextTo(t, L, n, "right", a)
    PROVE  Picked(t, L, Map!Least({j \in KeysIn(t, L) : j > t.key[n]}), a)
<1>1. Keys \subseteq Int /\ \A q \in L : t.key[q] \in Int /\ t.key[q] \in Keys
  BY KeysAreIntegers DEF Shaped, Keyed
<1>2. CASE a = RBNULL /\ \A q \in L : q # n => t.key[q] < t.key[n]
  <2>1. {j \in KeysIn(t, L) : j > t.key[n]} = {}
    BY <1>1, <1>2 DEF KeysIn
  <2> QED
    BY <2>1, <1>2 DEF Picked, Map!Least
<1>3. CASE /\ a \in L /\ t.key[a] > t.key[n]
           /\ \A q \in L : t.key[q] > t.key[n] => q = a \/ t.key[q] > t.key[a]
  <2>1. PICK S : S = {j \in KeysIn(t, L) : j > t.key[n]}
    OBVIOUS
  <2>2. S \in SUBSET Keys /\ t.key[a] \in S /\ \A j \in S : j = t.key[a] \/ t.key[a] < j
    BY <2>1, <1>1, <1>3 DEF KeysIn
  <2>3. Map!Least(S) = {t.key[a]}
    BY <2>2, LeastIs
  <2> QED
    BY <2>1, <2>3, <1>3 DEF Picked
<1> QED
  BY <1>2, <1>3 DEF NextTo, Beyond, Other

\* _predecessor answers the one before it.
LEMMA BeforeIs ==
    ASSUME NEW t, NEW L, Shaped(t, L), NEW n \in L, NEW a, NextTo(t, L, n, "left", a)
    PROVE  Picked(t, L, Map!Greatest({j \in KeysIn(t, L) : j < t.key[n]}), a)
<1>1. Keys \subseteq Int /\ \A q \in L : t.key[q] \in Int /\ t.key[q] \in Keys
  BY KeysAreIntegers DEF Shaped, Keyed
<1>2. CASE a = RBNULL /\ \A q \in L : q # n => t.key[q] > t.key[n]
  <2>1. {j \in KeysIn(t, L) : j < t.key[n]} = {}
    BY <1>1, <1>2 DEF KeysIn
  <2> QED
    BY <2>1, <1>2 DEF Picked, Map!Greatest
<1>3. CASE /\ a \in L /\ t.key[a] < t.key[n]
           /\ \A q \in L : t.key[q] < t.key[n] => q = a \/ t.key[q] < t.key[a]
  <2>1. PICK S : S = {j \in KeysIn(t, L) : j < t.key[n]}
    OBVIOUS
  <2>2. S \in SUBSET Keys /\ t.key[a] \in S /\ \A j \in S : j = t.key[a] \/ j < t.key[a]
    BY <2>1, <1>1, <1>3 DEF KeysIn
  <2>3. Map!Greatest(S) = {t.key[a]}
    BY <2>2, GreatestIs
  <2> QED
    BY <2>1, <2>3, <1>3 DEF Picked
<1> QED
  BY <1>2, <1>3 DEF NextTo, Beyond, Other

\* The outermost keys of the tree.
LEMMA OutermostPicked ==
    ASSUME NEW t, NEW L, Shaped(t, L), Sparse(t, L)
    PROVE  /\ Picked(t, L, Map!Least(KeysIn(t, L)), Extreme(t, t.root, "left"))
           /\ Picked(t, L, Map!Greatest(KeysIn(t, L)), Extreme(t, t.root, "right"))
<1>1. WellLinked(t, L) /\ Keyed(t, L) /\ Ordered(t, L)
  BY DEF Shaped
<1>2. "left" \in Sides /\ "right" \in Sides
  BY DEF Sides
<1>3. CASE t.root = RBNULL
  <2>1. L = {}
    BY <1>1, <1>3, RootEmpty
  <2>2. Extreme(t, t.root, "left") = RBNULL /\ Extreme(t, t.root, "right") = RBNULL
    BY <1>1, <1>2, <1>3, ExtremeOfNull
  <2> QED
    BY <2>1, <2>2 DEF Picked, KeysIn, Map!Least, Map!Greatest
<1>4. CASE t.root # RBNULL
  <2>1. t.root \in L /\ Under(t, L, t.root) = L
    BY <1>1, <1>4, UnderRoot DEF WellLinked, RootFits
  <2>2. KeysIn(t, L) \in SUBSET Keys
    BY <1>1 DEF Keyed, KeysIn
  <2>3. PICK a, b : a = Extreme(t, t.root, "left") /\ b = Extreme(t, t.root, "right")
    OBVIOUS
  <2>4. Outermost(t, L, t.root, "left", a) /\ Outermost(t, L, t.root, "right", b)
    BY <1>1, <1>2, <2>1, <2>3, ExtremeIs
  <2>5. a \in L /\ t.key[a] \in KeysIn(t, L) /\ \A j \in KeysIn(t, L) : j = t.key[a] \/ t.key[a] < j
    BY <2>1, <2>4, KeysAreIntegers, <1>1 DEF Outermost, KeysIn, Beyond, Other, Keyed
  <2>6. b \in L /\ t.key[b] \in KeysIn(t, L) /\ \A j \in KeysIn(t, L) : j = t.key[b] \/ j < t.key[b]
    BY <2>1, <2>4 DEF Outermost, KeysIn, Beyond, Other
  <2> QED
    BY <2>2, <2>3, <2>5, <2>6, LeastIs, GreatestIs DEF Picked
<1> QED
  BY <1>3, <1>4

\* The search for k ended without finding it, at d.y.
LEMMA MissingIs ==
    ASSUME NEW t, NEW L, Shaped(t, L), NEW k \in Keys, NEW d, Descended(t, L, k, d), d.x = RBNULL
    PROVE  /\ d.y \in L /\ t.key[d.y] \in Int /\ k \in Int
           /\ \A q \in L : t.key[q] \in Int /\ t.key[q] # k
           /\ k > t.key[d.y] => \A q \in L : t.key[q] > k \/ t.key[q] <= t.key[d.y]
           /\ ~(k > t.key[d.y]) =>
                 k < t.key[d.y] /\ \A q \in L : t.key[q] < k \/ t.key[q] >= t.key[d.y]
<1>1. WellLinked(t, L) /\ Keyed(t, L) /\ Ordered(t, L) /\ RBNULL \notin L
  BY NodesDistinct DEF Shaped, WellLinked
<1>2. PICK w : w = d.y
  OBVIOUS
<1>3. w \in L /\ t.key[w] # k /\ t.kid[SideOf(t, k, w)][w] = RBNULL /\ Belongs(t, L, w, k)
  BY <1>1, <1>2 DEF Descended
<1>4. k \in Int /\ \A q \in L : t.key[q] \in Int
  BY <1>1, KeysAreIntegers DEF Keyed
<1>5. CASE k > t.key[w]
  <2>1. SideOf(t, k, w) = "right" /\ "right" \in Sides /\ Beyond("right", k, t.key[w])
    BY <1>3, <1>4, <1>5 DEF SideOf, Sides, Beyond
  <2>2. \A q \in L : \/ Beyond("right", t.key[q], k)
                    \/ /\ Beyond(Other("right"), t.key[q], k)
                       /\ q = w \/ Beyond(Other("right"), t.key[q], t.key[w])
    BY <1>1, <1>3, <2>1, NoneBetween
  <2>3. \A q \in L : t.key[q] > k \/ (t.key[q] < k /\ (q = w \/ t.key[q] < t.key[w]))
    BY <2>2 DEF Beyond, Other
  <2> QED
    BY <2>3, <1>2, <1>3, <1>4, <1>5
<1>6. CASE ~(k > t.key[w])
  <2>1. k < t.key[w]
    BY <1>3, <1>4, <1>6
  <2>2. SideOf(t, k, w) = "left" /\ "left" \in Sides /\ Beyond("left", k, t.key[w])
    BY <2>1 DEF SideOf, Sides, Beyond
  <2>3. \A q \in L : \/ Beyond("left", t.key[q], k)
                    \/ /\ Beyond(Other("left"), t.key[q], k)
                       /\ q = w \/ Beyond(Other("left"), t.key[q], t.key[w])
    BY <1>1, <1>3, <2>2, NoneBetween
  <2>4. \A q \in L : t.key[q] < k \/ (t.key[q] > k /\ (q = w \/ t.key[q] > t.key[w]))
    BY <2>3 DEF Beyond, Other
  <2> QED
    BY <2>1, <2>4, <1>2, <1>3, <1>4, <1>6
<1> QED
  BY <1>5, <1>6

\* What the descent found answers which key is k.
LEMMA FoundIs ==
    ASSUME NEW t, NEW L, Shaped(t, L), Sparse(t, L), NEW k \in Keys, NEW a, a = Descend(t, k).x
    PROVE  Picked(t, L, KeysIn(t, L) \intersect {k}, a)
<1>1. WellLinked(t, L) /\ Keyed(t, L)
  BY DEF Shaped
<1>2. CASE L = {}
  BY <1>1, <1>2, DescendIs DEF Picked, KeysIn
<1>3. CASE L # {}
  <2>1. Descended(t, L, k, Descend(t, k))
    BY <1>1, <1>3, DescendIs
  <2>2. CASE Descend(t, k).x = RBNULL
    <3>1. \A q \in L : t.key[q] # k
      BY <2>1, <2>2, MissingIs
    <3> QED
      BY <2>2, <3>1 DEF Picked, KeysIn
  <2>3. CASE Descend(t, k).x # RBNULL
    BY <2>1, <2>3 DEF Descended, Picked, KeysIn
  <2> QED
    BY <2>2, <2>3
<1> QED
  BY <1>2, <1>3

\* rblookup answers what its mode asks for.
LEMMA LookupIs ==
    ASSUME NEW t, NEW L, Shaped(t, L), Blanked(t, L), NEW k \in Keys, NEW mode \in Modes,
           L = {} => mode \in {"equal", "next", "prev", "first", "last"}
    PROVE  Picked(t, L, Map!Matching(KeysIn(t, L), mode, k), Lookup(t, mode, k))
<1>1. WellLinked(t, L) /\ Keyed(t, L) /\ Ordered(t, L) /\ RBNULL \notin L /\ Sparse(t, L)
  BY NodesDistinct, BlankedIsSparse DEF Shaped, WellLinked
<1>2. PICK K : K = KeysIn(t, L)
  OBVIOUS
<1>3. K \in SUBSET Keys /\ k \in Int /\ \A q \in L : t.key[q] \in K /\ t.key[q] \in Int
  BY <1>1, <1>2, KeysAreIntegers DEF Keyed, KeysIn
<1>4. \A j \in K : j \in Int /\ \E q \in L : j = t.key[q]
  BY <1>2, <1>3 DEF KeysIn
<1>5. PICK d : d = Descend(t, k)
  OBVIOUS
<1>6. IF L = {} THEN d = [x |-> RBNULL, y |-> RBNULL] ELSE Descended(t, L, k, d)
  BY <1>1, <1>5, DescendIs
<1>7. CASE mode = "first"
  <2>1. Lookup(t, mode, k) = Extreme(t, t.root, "left")
    BY <1>7 DEF Lookup
  <2>2. Map!Matching(K, mode, k) = Map!Least(K)
    BY <1>7 DEF Map!Matching
  <2> QED
    BY <2>1, <2>2, <1>1, <1>2, OutermostPicked
<1>8. CASE mode = "last"
  <2>1. Lookup(t, mode, k) = Extreme(t, t.root, "right")
    BY <1>8 DEF Lookup
  <2>2. Map!Matching(K, mode, k) = Map!Greatest(K)
    BY <1>8 DEF Map!Matching
  <2> QED
    BY <2>1, <2>2, <1>1, <1>2, OutermostPicked
<1>9. CASE d.x # RBNULL
  <2>1. d.x \in L /\ t.key[d.x] = k /\ k \in K
    BY <1>3, <1>6, <1>9 DEF Descended
  <2>2. CASE mode = "equal"
    <3>1. Lookup(t, mode, k) = d.x /\ Map!Matching(K, mode, k) = K \intersect {k}
      BY <2>2, <1>5, <1>9 DEF Lookup, Map!Matching
    <3> QED
      BY <3>1, <2>1, <1>2 DEF Picked
  <2>3. CASE mode = "gteq"
    <3>1. Lookup(t, mode, k) = d.x /\ Map!Matching(K, mode, k) = Map!Least({j \in K : j >= k})
      BY <2>3, <1>5, <1>9 DEF Lookup, Map!Matching
    <3>2. PICK S : S = {j \in K : j >= k}
      OBVIOUS
    <3>3. S \in SUBSET Keys /\ k \in S /\ \A j \in S : j = k \/ k < j
      <4>1. k \in Int /\ \A j \in K : j \in Int
        BY <1>3, <1>4
      <4>2. k >= k /\ \A j \in K : j >= k => j = k \/ k < j
        BY ONLY <4>1
      <4> QED
        BY <4>2, <3>2, <2>1, <1>3
    <3>4. Map!Least(S) = {k}
      BY <3>3, LeastIs
    <3> QED
      BY <3>1, <3>2, <3>4, <2>1, <1>2 DEF Picked
  <2>4. CASE mode = "lteq"
    <3>1. Lookup(t, mode, k) = d.x /\ Map!Matching(K, mode, k) = Map!Greatest({j \in K : j <= k})
      BY <2>4, <1>5, <1>9 DEF Lookup, Map!Matching
    <3>2. PICK S : S = {j \in K : j <= k}
      OBVIOUS
    <3>3. S \in SUBSET Keys /\ k \in S /\ \A j \in S : j = k \/ j < k
      <4>1. k \in Int /\ \A j \in K : j \in Int
        BY <1>3, <1>4
      <4>2. k <= k /\ \A j \in K : j <= k => j = k \/ j < k
        BY ONLY <4>1
      <4> QED
        BY <4>2, <3>2, <2>1, <1>3
    <3>4. Map!Greatest(S) = {k}
      BY <3>3, GreatestIs
    <3> QED
      BY <3>1, <3>2, <3>4, <2>1, <1>2 DEF Picked
  <2>5. CASE mode \in {"next", "great"}
    <3>1. Lookup(t, mode, k) = Neighbour(t, d.x, "right")
      BY <2>5, <1>5, <1>9 DEF Lookup
    <3>2. Map!Matching(K, mode, k) = Map!Least({j \in K : j > k})
      BY <2>5, <2>1 DEF Map!Matching
    <3>3. NextTo(t, L, d.x, "right", Neighbour(t, d.x, "right"))
      BY <2>1, <1>1, NeighbourIs DEF Sides
    <3> QED
      BY <3>1, <3>2, <3>3, <2>1, <1>2, AfterIs
  <2>6. CASE mode \in {"prev", "less"}
    <3>1. Lookup(t, mode, k) = Neighbour(t, d.x, "left")
      BY <2>6, <1>5, <1>9 DEF Lookup
    <3>2. Map!Matching(K, mode, k) = Map!Greatest({j \in K : j < k})
      BY <2>6, <2>1 DEF Map!Matching
    <3>3. NextTo(t, L, d.x, "left", Neighbour(t, d.x, "left"))
      BY <2>1, <1>1, NeighbourIs DEF Sides
    <3> QED
      BY <3>1, <3>2, <3>3, <2>1, <1>2, BeforeIs
  <2> QED
    BY <2>2, <2>3, <2>4, <2>5, <2>6, <1>7, <1>8 DEF Modes
<1>10. CASE d.x = RBNULL
  <2>1. k \notin K
    <3>1. Picked(t, L, K \intersect {k}, d.x)
      BY <1>1, <1>2, <1>5, FoundIs
    <3> QED
      BY <3>1, <1>1, <1>10 DEF Picked
  <2>2. CASE mode \in {"equal", "next", "prev"}
    <3>1. Lookup(t, mode, k) = RBNULL
      BY <2>2, <1>5, <1>10 DEF Lookup
    <3>2. Map!Matching(K, mode, k) = {}
      BY <2>1, <2>2 DEF Map!Matching
    <3> QED
      BY <3>1, <3>2, <1>2 DEF Picked
  <2>3. ASSUME mode \in {"gteq", "great", "lteq", "less"}, NEW w, w = d.y
        PROVE  Picked(t, L, Map!Matching(K, mode, k), Lookup(t, mode, k))
    <3>1. Descended(t, L, k, d)
      BY <2>3, <1>6
    <3>2. /\ w \in L /\ t.key[w] \in Int
          /\ k > t.key[w] => \A q \in L : t.key[q] > k \/ t.key[q] <= t.key[w]
          /\ ~(k > t.key[w]) =>
                k < t.key[w] /\ \A q \in L : t.key[q] < k \/ t.key[q] >= t.key[w]
      BY <3>1, <2>3, <1>10, MissingIs
    <3>3. {j \in K : j >= k} = {j \in K : j > k} /\ {j \in K : j <= k} = {j \in K : j < k}
      <4>1. \A j \in K : (j >= k <=> j > k) /\ (j <= k <=> j < k)
        BY <2>1, <1>3, <1>4
      <4> QED
        BY <4>1
    <3>4. CASE mode \in {"gteq", "great"}
      <4>1. Map!Matching(K, mode, k) = Map!Least({j \in K : j > k})
        BY <3>3, <3>4 DEF Map!Matching
      <4>2. CASE k > t.key[w]
        <5>1. Lookup(t, mode, k) = Neighbour(t, w, "right")
          BY <3>4, <4>2, <2>3, <1>5, <1>10 DEF Lookup
        <5>2. \A j \in K : j > k <=> j > t.key[w]
          BY <3>2, <4>2, <1>3, <1>4
        <5>3. NextTo(t, L, w, "right", Neighbour(t, w, "right"))
          BY <3>2, <1>1, NeighbourIs DEF Sides
        <5>4. Picked(t, L, Map!Least({j \in K : j > t.key[w]}), Neighbour(t, w, "right"))
          BY <5>3, <3>2, <1>2, AfterIs
        <5>5. {j \in K : j > k} = {j \in K : j > t.key[w]}
          BY <5>2
        <5> QED
          BY <5>1, <5>4, <5>5, <4>1
      <4>3. CASE ~(k > t.key[w])
        <5>1. Lookup(t, mode, k) = w
          BY <3>4, <4>3, <2>3, <1>5, <1>10 DEF Lookup
        <5>2. PICK S : S = {j \in K : j > k}
          OBVIOUS
        <5>3. S \in SUBSET Keys /\ t.key[w] \in S /\ \A j \in S : j = t.key[w] \/ t.key[w] < j
          <6>1. t.key[w] > k /\ t.key[w] \in K
            BY <3>2, <4>3, <1>3
          <6>2. \A q \in L : t.key[q] > k => t.key[q] = t.key[w] \/ t.key[w] < t.key[q]
            BY <3>2, <4>3, <1>3
          <6>3. \A j \in K : j > k => j = t.key[w] \/ t.key[w] < j
            BY <6>2, <1>4
          <6> QED
            BY <6>1, <6>3, <5>2, <1>3
        <5>4. Map!Least(S) = {t.key[w]}
          BY <5>3, LeastIs
        <5> QED
          BY <5>1, <5>2, <5>4, <4>1, <3>2 DEF Picked
      <4> QED
        BY <4>2, <4>3
    <3>5. CASE mode \in {"lteq", "less"}
      <4>1. Map!Matching(K, mode, k) = Map!Greatest({j \in K : j < k})
        BY <3>3, <3>5 DEF Map!Matching
      <4>2. CASE k > t.key[w]
        <5>1. Lookup(t, mode, k) = w
          BY <3>5, <4>2, <2>3, <1>5, <1>10 DEF Lookup
        <5>2. PICK S : S = {j \in K : j < k}
          OBVIOUS
        <5>3. S \in SUBSET Keys /\ t.key[w] \in S /\ \A j \in S : j = t.key[w] \/ j < t.key[w]
          <6>1. t.key[w] < k /\ t.key[w] \in K
            BY <3>2, <4>2, <1>3
          <6>2. \A q \in L : t.key[q] < k => t.key[q] = t.key[w] \/ t.key[q] < t.key[w]
            BY <3>2, <4>2, <1>3
          <6>3. \A j \in K : j < k => j = t.key[w] \/ j < t.key[w]
            BY <6>2, <1>4
          <6> QED
            BY <6>1, <6>3, <5>2, <1>3
        <5>4. Map!Greatest(S) = {t.key[w]}
          BY <5>3, GreatestIs
        <5> QED
          BY <5>1, <5>2, <5>4, <4>1, <3>2 DEF Picked
      <4>3. CASE ~(k > t.key[w])
        <5>1. Lookup(t, mode, k) = Neighbour(t, w, "left")
          BY <3>5, <4>3, <2>3, <1>5, <1>10 DEF Lookup
        <5>2. \A j \in K : j < k <=> j < t.key[w]
          BY <3>2, <4>3, <1>3, <1>4
        <5>3. NextTo(t, L, w, "left", Neighbour(t, w, "left"))
          BY <3>2, <1>1, NeighbourIs DEF Sides
        <5>4. Picked(t, L, Map!Greatest({j \in K : j < t.key[w]}), Neighbour(t, w, "left"))
          BY <5>3, <3>2, <1>2, BeforeIs
        <5>5. {j \in K : j < k} = {j \in K : j < t.key[w]}
          BY <5>2
        <5> QED
          BY <5>1, <5>4, <5>5, <4>1
      <4> QED
        BY <4>2, <4>3
    <3> QED
      BY <3>4, <3>5, <2>3
  <2> QED
    BY <2>2, <2>3, <1>2, <1>7, <1>8 DEF Modes
<1> QED
  BY <1>9, <1>10

-----------------------------------------------------------------------------
(* What _walk visits. *)

\* The sequence s lists the keys K, each once.
ListsOnce(s, K) ==
    /\ s \in Seq(Keys \union {None})
    /\ {s[i] : i \in DOMAIN s} = K
    /\ \A i, j \in DOMAIN s : s[i] = s[j] => i = j

\* The empty list lists no key.
LEMMA ListsNothing == ListsOnce(<<>>, {})
<1>1. <<>> \in Seq(Keys \union {None}) /\ DOMAIN <<>> = {}
  OBVIOUS
<1> QED
  BY <1>1 DEF ListsOnce

\* A key by itself.
LEMMA ListsOne ==
    ASSUME NEW k \in Keys
    PROVE  ListsOnce(<<k>>, {k})
<1>1. <<k>> \in Seq(Keys \union {None}) /\ DOMAIN <<k>> = {1} /\ <<k>>[1] = k
  OBVIOUS
<1> QED
  BY <1>1 DEF ListsOnce

\* Two lists, the first of smaller keys, one after the other.
LEMMA ListsBoth ==
    ASSUME NEW A, NEW B, NEW a, NEW b, ListsOnce(a, A), ListsOnce(b, B), A \intersect B = {}
    PROVE  ListsOnce(a \o b, A \union B)
<1> DEFINE V == Keys \union {None}
<1>1. a \in Seq(V) /\ b \in Seq(V)
  BY DEF ListsOnce
<1>2. PICK n, m : n = Len(a) /\ m = Len(b)
  OBVIOUS
<1>3. n \in Nat /\ m \in Nat /\ DOMAIN a = 1 .. n /\ DOMAIN b = 1 .. m
  BY <1>1, <1>2, LenProperties
<1>4. PICK c : c = a \o b
  OBVIOUS
<1>5. /\ c \in Seq(V) /\ DOMAIN c = 1 .. n + m
      /\ \A i \in 1 .. n + m : c[i] = IF i <= n THEN a[i] ELSE b[i - n]
  BY <1>1, <1>2, <1>3, <1>4, ConcatProperties, LenProperties
<1>6. /\ \A i \in 1 .. n : a[i] \in A /\ \A j \in 1 .. n : a[i] = a[j] => i = j
      /\ \A i \in 1 .. m : b[i] \in B /\ \A j \in 1 .. m : b[i] = b[j] => i = j
      /\ \A k \in A : \E i \in 1 .. n : k = a[i]
      /\ \A k \in B : \E i \in 1 .. m : k = b[i]
  BY <1>3 DEF ListsOnce
<1>7. \A i \in 1 .. n + m : (i <= n => i \in 1 .. n) /\ (~(i <= n) => i - n \in 1 .. m)
  BY ONLY <1>3
<1>8. \A i \in 1 .. n + m : c[i] \in A \union B
  BY <1>5, <1>6, <1>7
<1>9. \A k \in A \union B : \E i \in 1 .. n + m : k = c[i]
  <2>1. ASSUME NEW k \in A PROVE \E i \in 1 .. n + m : k = c[i]
    <3>1. PICK i \in 1 .. n : k = a[i]
      BY <1>6
    <3>2. i \in 1 .. n + m /\ i <= n
      BY <1>3
    <3> QED
      BY <3>1, <3>2, <1>5
  <2>2. ASSUME NEW k \in B PROVE \E i \in 1 .. n + m : k = c[i]
    <3>1. PICK i \in 1 .. m : k = b[i]
      BY <1>6
    <3>2. n + i \in 1 .. n + m /\ ~(n + i <= n) /\ (n + i) - n = i
      BY <1>3
    <3> QED
      BY <3>1, <3>2, <1>5
  <2> QED
    BY <2>1, <2>2
<1>10. ASSUME NEW i \in 1 .. n + m, NEW j \in 1 .. n + m, c[i] = c[j] PROVE i = j
  <2>1. CASE i <= n /\ j <= n
    BY <2>1, <1>5, <1>6, <1>7, <1>10
  <2>2. CASE ~(i <= n) /\ ~(j <= n)
    <3>1. i - n \in 1 .. m /\ j - n \in 1 .. m /\ b[i - n] = b[j - n]
      BY <2>2, <1>5, <1>7, <1>10
    <3>2. i - n = j - n
      BY <3>1, <1>6
    <3> QED
      BY <3>2, <1>3
  <2>3. CASE i <= n /\ ~(j <= n)
    BY <2>3, <1>5, <1>6, <1>7, <1>10
  <2>4. CASE ~(i <= n) /\ j <= n
    BY <2>4, <1>5, <1>6, <1>7, <1>10
  <2> QED
    BY <2>1, <2>2, <2>3, <2>4
<1>11. {c[i] : i \in DOMAIN c} = A \union B
  BY <1>5, <1>8, <1>9
<1>12. ListsOnce(c, A \union B)
  BY <1>5, <1>10, <1>11 DEF ListsOnce
<1> QED
  BY <1>4, <1>12

\* The action acts on a key in one visit of the node only.
LEMMA ActsIs ==
    ASSUME NEW k
    PROVE  /\ Acts(k, "preorder") = <<>> /\ Acts(k, "postorder") = <<>>
           /\ Acts(k, "endorder") = <<k>> /\ Acts(k, "leaf") = <<k>>
BY DEF Acts

\* _walk makes the action act on every key of the tree, once.
LEMMA VisitsIs ==
    ASSUME NEW t, NEW L, Shaped(t, L), Sparse(t, L)
    PROVE  ListsOnce(Visits(t), KeysIn(t, L))
<1> DEFINE l == t.kid["left"]
           r == t.kid["right"]
           V == Seq(Keys \union {None})
           Around(n, a, b) ==
               IF n = RBNULL THEN <<>>
               ELSE IF l[n] = RBNULL /\ r[n] = RBNULL THEN Acts(t.key[n], "leaf")
               ELSE Acts(t.key[n], "preorder") \o a \o Acts(t.key[n], "postorder")
                    \o b \o Acts(t.key[n], "endorder")
           comb == [e \in Pointers \X V \X V |-> Around(e[1], e[2], e[3])]
           Body(f) == [n \in Pointers |-> Around(n, f[l[n]], f[r[n]])]
           Walk == CHOOSE f : f = Body(f)
<1>1. WellLinked(t, L) /\ Keyed(t, L) /\ Ordered(t, L) /\ t \in Heaps
  BY DEF Shaped, WellLinked
<1>2. ASSUME NEW n \in Pointers, NEW a \in V, NEW b \in V PROVE Around(n, a, b) \in V
  <2>1. CASE n = RBNULL
    BY <2>1
  <2>2. CASE n # RBNULL
    <3>1. t.key[n] \in Keys \union {None}
      BY <2>2, <1>1, HeapFields DEF Pointers
    <3>2. <<>> \in V /\ <<t.key[n]>> \in V
      BY <3>1
    <3>3. \A c, d \in V : c \o d \in V
      OBVIOUS
    <3> QED
      BY <2>2, <3>2, <3>3, ActsIs
  <2> QED
    BY <2>1, <2>2
<1>3. \A n \in Pointers : l[n] \in Pointers /\ r[n] \in Pointers
  BY <1>1, KidsArePointers DEF Sides
<1> HIDE DEF Around
<1>4. \E f : f = Body(f)
  <2>1. comb \in [Pointers \X V \X V -> V] /\ <<>> \in V
    <3>1. <<>> \in V
      OBVIOUS
    <3> HIDE DEF V
    <3>2. \A e \in Pointers \X V \X V : Around(e[1], e[2], e[3]) \in V
      BY <1>2
    <3> QED
      BY <3>1, <3>2
  <2>2. PICK f \in [Pointers -> V] : Folded(f, Pointers, {RBNULL}, l, r, <<>>, comb)
    <3> HIDE DEF comb, V, l, r
    <3>1. Falls(Pointers, {RBNULL}, l, r)
      BY <1>1, FallsDown DEF l, r
    <3> QED
      BY <2>1, <3>1, TreeFunction
  <2>3. \A n \in Pointers : f[n] = IF n \in {RBNULL} THEN <<>> ELSE comb[<<n, f[l[n]], f[r[n]]>>]
    BY <2>2 DEF Folded
  <2>4. ASSUME NEW n \in Pointers PROVE f[n] = Around(n, f[l[n]], f[r[n]])
    <3>1. PICK a, b : a = f[l[n]] /\ b = f[r[n]]
      OBVIOUS
    <3>2. a \in V /\ b \in V
      BY <3>1, <1>3, <2>2
    <3>3. comb[<<n, a, b>>] = Around(n, a, b)
      BY <3>2
    <3>4. Around(RBNULL, a, b) = <<>>
      BY DEF Around
    <3> HIDE DEF comb
    <3> QED
      BY <3>1, <3>3, <3>4, <2>3
  <2>5. f = [n \in Pointers |-> f[n]]
    BY <2>2
  <2>6. f = Body(f)
    <3> HIDE DEF V, comb, l, r
    <3> QED
      BY <2>4, <2>5
  <2> QED
    BY <2>6
<1>5. Walk = Body(Walk)
  BY <1>4
<1>6. Visits(t) = Walk[t.root]
  BY DEF Visits, Around
<1>7. \A n \in Pointers : Walk[n] = Around(n, Walk[l[n]], Walk[r[n]])
  BY <1>5
<1> HIDE DEF Walk, Body, comb, V
<1>8. L \subseteq Pointers /\ RBNULL \notin L /\ RBNULL \in Pointers
  BY <1>1, NodesDistinct DEF WellLinked, Pointers
<1> DEFINE Fine(n) == ListsOnce(Walk[n], KeysIn(t, Under(t, L, n)))
<1>9. Fine(RBNULL)
  <2>1. Walk[RBNULL] = <<>>
    BY <1>7, <1>8 DEF Around
  <2>2. KeysIn(t, Under(t, L, RBNULL)) = {}
    BY <1>8, UnderSet DEF KeysIn
  <2> QED
    BY <2>1, <2>2, ListsNothing
<1>10. ASSUME NEW n \in L, Fine(l[n]), Fine(r[n]) PROVE Fine(n)
  <2>1. PICK k, A, B, a, b : /\ k = t.key[n] /\ a = Walk[l[n]] /\ b = Walk[r[n]]
                             /\ A = KeysIn(t, Under(t, L, l[n])) /\ B = KeysIn(t, Under(t, L, r[n]))
    OBVIOUS
  <2>2. k \in Keys /\ ListsOnce(a, A) /\ ListsOnce(b, B)
    BY <2>1, <1>1, <1>10 DEF Keyed
  <2>3. /\ Under(t, L, n) = {n} \union Under(t, L, l[n]) \union Under(t, L, r[n])
        /\ Under(t, L, l[n]) \intersect Under(t, L, r[n]) = {}
        /\ n \notin Under(t, L, l[n]) /\ n \notin Under(t, L, r[n])
        /\ Under(t, L, l[n]) \subseteq L /\ Under(t, L, r[n]) \subseteq L
    <3>1. "left" \in Sides /\ "right" \in Sides /\ Other("left") = "right"
      BY DEF Sides, Other
    <3>2. Under(t, L, n) = {n} \union Under(t, L, l[n]) \union Under(t, L, r[n])
      BY <3>1, <1>1, UnderSplit
    <3>3. Under(t, L, l[n]) \intersect Under(t, L, r[n]) = {}
      BY <3>1, <1>1, KidsApart
    <3>4. n \notin Under(t, L, l[n]) /\ n \notin Under(t, L, r[n])
      BY <3>1, <1>1, NotUnderKid
    <3> QED
      BY <3>2, <3>3, <3>4, UnderSet
  <2>4. KeysIn(t, Under(t, L, n)) = (A \union B) \union {k}
    BY <2>1, <2>3 DEF KeysIn
  <2>5. \A i, j \in L : i # j => t.key[i] # t.key[j]
    BY <1>1, KeysDiffer
  <2>6. A \intersect B = {} /\ (A \union B) \intersect {k} = {}
    BY <2>1, <2>3, <2>5 DEF KeysIn
  <2>7. Walk[n] = Around(n, a, b) /\ n # RBNULL
    BY <2>1, <1>7, <1>8
  <2>8. CASE l[n] = RBNULL /\ r[n] = RBNULL
    <3>1. Walk[n] = <<k>>
      BY <2>1, <2>7, <2>8, ActsIs DEF Around
    <3>2. A = {} /\ B = {}
      BY <2>1, <2>8, <1>8, UnderSet DEF KeysIn
    <3> QED
      BY <3>1, <3>2, <2>2, <2>4, ListsOne
  <2>9. CASE ~(l[n] = RBNULL /\ r[n] = RBNULL)
    <3>1. Walk[n] = <<>> \o a \o <<>> \o b \o <<k>>
      BY <2>1, <2>7, <2>9, ActsIs DEF Around
    <3>2. ListsOnce(<<>> \o a, {} \union A)
      BY <2>2, ListsNothing, ListsBoth
    <3>3. ListsOnce(<<>> \o a \o <<>>, ({} \union A) \union {})
      BY <3>2, ListsNothing, ListsBoth
    <3>4. ({} \union A) \union {} = A
      OBVIOUS
    <3>5. ListsOnce(<<>> \o a \o <<>> \o b, A \union B)
      BY <3>3, <3>4, <2>2, <2>6, ListsBoth
    <3>6. ListsOnce(<<>> \o a \o <<>> \o b \o <<k>>, (A \union B) \union {k})
      BY <3>5, <2>2, <2>6, ListsOne, ListsBoth
    <3> QED
      BY <3>1, <3>6, <2>4
  <2> QED
    BY <2>8, <2>9
<1> HIDE DEF Fine
<1>11. \A n \in L : Fine(n)
  <2> DEFINE S == {n \in L : ~Fine(n)}
  <2> SUFFICES ASSUME S # {} PROVE FALSE
    OBVIOUS
  <2>1. PICK n \in S : \A s \in Sides : t.kid[s][n] \notin S
    BY <1>1 DEF WellLinked, Bottom
  <2>2. n \in L /\ ~Fine(n)
    BY <2>1
  <2>3. \A s \in Sides : t.kid[s][n] \in L \union {RBNULL}
    BY <2>2, <1>1 DEF WellLinked, KidsFit
  <2>4. \A s \in Sides : Fine(t.kid[s][n])
    BY <2>1, <2>3, <1>9
  <2> HIDE DEF S
  <2> QED
    BY <2>2, <2>4, <1>10 DEF Sides
<1>12. t.root \in L \union {RBNULL} /\ Under(t, L, t.root) = L
  BY <1>1, UnderRoot DEF WellLinked, RootFits
<1> QED
  BY <1>6, <1>9, <1>11, <1>12 DEF Fine

-----------------------------------------------------------------------------
(* The map the tree stands for. *)

\* What the invariant says of the map when no loop runs.
Settled(L) ==
    /\ L = used /\ L = InTree /\ Held = KeysIn(h, L) /\ L \subseteq Nodes /\ RBNULL \notin L
    /\ Shaped(h, L) /\ WellLinked(h, L) /\ Keyed(h, L) /\ Ordered(h, L)
    /\ Blanked(h, L) /\ Sparse(h, L) /\ h \in Heaps

\* The invariant implies what Settled says, when no loop runs.
LEMMA SettledIs ==
    ASSUME IInv, Drawn, pc = "idle"
    PROVE  Settled(used)
<1>1. PICK bh : Idle(bh)
  BY IdleIs
<1> QED
  BY <1>1, NodesDistinct DEF Settled, Idle, Shaped, WellLinked, Held, Drawn, KeysIn

\* The map stays while the nodes of the tree and their keys do.
LEMMA HeldKept ==
    ASSUME Drawn, Drawn', InTree' = InTree, \A n \in InTree : h'.key[n] = h.key[n]
    PROVE  Held' = Held
BY DEF Held, Drawn

\* So does the place where the list is read, while keys do.
LEMMA AheadKept ==
    ASSUME nextp' = nextp, nextp = Closed \/ h'.key = h.key
    PROVE  Ahead' = Ahead
BY DEF Ahead

\* The answer of a call that looks for one key.
LEMMA OneIs ==
    ASSUME NEW L, RBNULL \notin L, NEW S, NEW a, Picked(h, L, S, a)
    PROVE  KeyOf(a) = Map!One(S)
BY DEF Picked, KeyOf, Map!One

\* What the list reads next.
LEMMA FirstIs ==
    ASSUME NEW t, NEW L, RBNULL \notin L, NEW S, NEW a, Picked(t, L, Map!Least(S), a),
           a = RBNULL => S = {}
    PROVE  Map!FirstOf(S) = IF a = RBNULL THEN None ELSE t.key[a]
<1>1. CASE a = RBNULL
  BY <1>1 DEF Map!FirstOf
<1>2. CASE a # RBNULL
  <2>1. Map!Least(S) = {t.key[a]}
    BY <1>2 DEF Picked
  <2>2. S # {}
    BY <2>1 DEF Map!Least
  <2> QED
    BY <2>1, <2>2, <1>2 DEF Map!FirstOf
<1> QED
  BY <1>1, <1>2

\* rbsearch puts the key, or answers that it is there.
LEMMA SearchMaps ==
    ASSUME IInv, Drawn, Drawn', NEW k \in Keys, rbsearch(k)
    PROVE  Map!Put(k)
<1>1. pc = "idle" /\ nextp = Closed /\ nextp' = nextp /\ y' = y
  BY DEF rbsearch, Ready
<1>2. PICK L : L = used /\ Settled(L)
  BY <1>1, SettledIs
<1>3. Ahead' = Ahead
  BY <1>1, AheadKept
<1>4. PICK d : d = Descend(h, k)
  OBVIOUS
<1>5. Picked(h, L, Held \intersect {k}, d.x)
  BY <1>2, <1>4, FoundIs DEF Settled
<1>6. ASSUME UNCHANGED <<h, used, pc, x>> PROVE Held' = Held
  <2>1. InTree' = InTree
    BY <1>1, <1>6 DEF InTree
  <2> QED
    BY <2>1, <1>6, HeldKept
<1>7. CASE /\ d.x # RBNULL /\ ret' = Answer("search", k, <<h.key[d.x]>>)
           /\ UNCHANGED <<h, used, pc, x>>
  <2>1. Held \intersect {k} = {h.key[d.x]}
    BY <1>5, <1>7 DEF Picked
  <2>2. k \in Held /\ h.key[d.x] = k
    BY <2>1
  <2>3. Map!Answers("search", k, <<k>>)
    BY <2>2, <1>7 DEF Map!Answers, Answer
  <2>4. Held' = Held \union {k}
    BY <2>2, <1>6, <1>7
  <2> QED
    BY <2>3, <2>4, <1>3 DEF Map!Put
<1>8. ASSUME NEW n \in Nodes \ used, d.x = RBNULL, used' = used \union {n},
             h' = Inserted(h, n, d.y, k), pc' = "insert", ret' = Answer("search", k, <<k>>)
      PROVE  Map!Put(k)
  <2>1. d.y \in L \union {RBNULL}
    BY <1>2, <1>4, <1>8, DescendIs DEF Settled, Descended
  <2>2. d.y \in Pointers /\ d.y # n
    BY <2>1, <1>2, <1>8, NodesDistinct DEF Settled, Pointers
  <2>3. Attached(h, h', n, d.y, k, SideOf(h, k, d.y))
    BY <2>2, <1>2, <1>8, InsertedIs DEF Settled
  <2>4. InTree' = L \union {n}
    BY <1>2, <1>8 DEF InTree
  <2>5. \A q \in L : h'.key[q] = h.key[q]
    BY <2>3, <1>2, <1>8 DEF Attached, Settled
  <2>6. h'.key[n] = k
    BY <2>3, <1>8 DEF Attached
  <2>7. Held' = {h'.key[q] : q \in L \union {n}} /\ Held = {h.key[q] : q \in L}
    BY <2>4, <1>2 DEF Held, Drawn, Settled, KeysIn
  <2>8. Held' = Held \union {k}
    BY <2>5, <2>6, <2>7
  <2>9. Map!Answers("search", k, <<k>>)
    BY <1>8 DEF Map!Answers, Answer
  <2> QED
    BY <2>8, <2>9, <1>3 DEF Map!Put
<1>9. CASE d.x = RBNULL /\ ret' = Answer("search", k, <<>>) /\ UNCHANGED <<h, used, pc, x>>
  <2>1. k \notin Held
    BY <1>2, <1>5, <1>9 DEF Picked, Settled
  <2>2. Map!Answers("search", k, <<>>)
    BY <1>9 DEF Map!Answers, Answer
  <2> QED
    BY <2>1, <2>2, <1>3, <1>6, <1>9 DEF Map!Put
<1> QED
  BY <1>4, <1>7, <1>8, <1>9 DEF rbsearch

\* rbfind gets it; rblookup answers the key that its mode asks for.
LEMMA FindMaps ==
    ASSUME IInv, Drawn, Drawn', NEW k \in Keys
    PROVE  /\ rbfind(k) => Map!Get(k)
           /\ \A mode \in Modes : rblookup(mode, k) => Map!Match(mode, k)
<1>1. ASSUME pc = "idle", UNCHANGED <<h, used, pc, x, y, turns, nextp>>
      PROVE  Held' = Held /\ Ahead' = Ahead
  <2>1. InTree' = InTree
    BY <1>1 DEF InTree
  <2> QED
    BY <2>1, <1>1, HeldKept, AheadKept
<1>2. ASSUME rbfind(k) PROVE Map!Get(k)
  <2>1. /\ pc = "idle" /\ UNCHANGED <<h, used, pc, x, y, turns, nextp>>
        /\ ret' = Answer("find", k, KeyOf(Descend(h, k).x))
    BY <1>2 DEF rbfind, Ready
  <2>2. PICK L : L = used /\ Settled(L)
    BY <2>1, SettledIs
  <2>3. Picked(h, L, Held \intersect {k}, Descend(h, k).x)
    BY <2>2, FoundIs DEF Settled
  <2>4. KeyOf(Descend(h, k).x) = Map!One(Held \intersect {k})
    BY <2>2, <2>3, OneIs DEF Settled
  <2>5. Map!Matching(Held, "equal", k) = Held \intersect {k}
    BY DEF Map!Matching
  <2> QED
    BY <2>1, <2>4, <2>5, <1>1 DEF Map!Get, Map!Answers, Answer
<1>3. ASSUME NEW mode \in Modes, rblookup(mode, k) PROVE Map!Match(mode, k)
  <2>1. /\ pc = "idle" /\ UNCHANGED <<h, used, pc, x, y, turns, nextp>>
        /\ ret' = Answer(mode, k, KeyOf(Lookup(h, mode, k)))
        /\ h.root = RBNULL => mode \in {"equal", "next", "prev", "first", "last"}
    BY <1>3 DEF rblookup, Ready
  <2>2. PICK L : L = used /\ Settled(L)
    BY <2>1, SettledIs
  <2>3. h.root = RBNULL <=> L = {}
    BY <2>2, RootEmpty DEF Settled
  <2>4. Picked(h, L, Map!Matching(Held, mode, k), Lookup(h, mode, k))
    BY <2>1, <2>2, <2>3, LookupIs DEF Settled
  <2>5. KeyOf(Lookup(h, mode, k)) = Map!One(Map!Matching(Held, mode, k))
    BY <2>2, <2>4, OneIs DEF Settled
  <2> QED
    BY <2>1, <2>5, <1>1 DEF Map!Match, Map!Answers, Answer
<1> QED
  BY <1>2, <1>3

\* rbdelete takes it, though it is another node that leaves.
LEMMA DeleteMaps ==
    ASSUME IInv, Drawn, Drawn', NEW k \in Keys, rbdelete(k)
    PROVE  Map!Take(k)
<1>1. PICK z, v : z = Descend(h, k).x /\ v = Victim(h, z)
  OBVIOUS
<1>2. /\ pc = "idle" /\ nextp = Closed /\ nextp' = nextp /\ used' = used
      /\ ret' = Answer("delete", k, KeyOf(z))
      /\ z = RBNULL => UNCHANGED <<h, pc, x, y>>
      /\ z # RBNULL => h' = Unlink(h, z, v).tree /\ pc' = "delete" /\ y' = v
  BY <1>1 DEF rbdelete, Ready
<1>3. PICK L : L = used /\ Settled(L)
  BY <1>2, SettledIs
<1>4. Ahead' = Ahead
  BY <1>2, AheadKept
<1>5. Picked(h, L, Held \intersect {k}, z)
  BY <1>1, <1>3, FoundIs DEF Settled
<1>6. Map!Answers("delete", k, Map!One(Map!Matching(Held, "equal", k)))
  <2>1. KeyOf(z) = Map!One(Held \intersect {k})
    BY <1>3, <1>5, OneIs DEF Settled
  <2>2. Map!Matching(Held, "equal", k) = Held \intersect {k}
    BY DEF Map!Matching
  <2> QED
    BY <2>1, <2>2, <1>2 DEF Map!Answers, Answer
<1>7. Held' = Held \ {k}
  <2>1. CASE z = RBNULL
    <3>1. k \notin Held
      BY <2>1, <1>3, <1>5 DEF Picked, Settled
    <3>2. InTree' = InTree
      BY <2>1, <1>2 DEF InTree
    <3>3. Held' = Held
      BY <3>2, <2>1, <1>2, HeldKept
    <3> QED
      BY <3>1, <3>3
  <2>2. CASE z # RBNULL
    <3>1. z \in L /\ h.key[z] = k
      BY <2>2, <1>5 DEF Picked
    <3>2. v \in L /\ Follows(h, L, z, v) /\ \E s \in Sides : h.kid[s][v] = RBNULL
      BY <3>1, <1>1, <1>3, VictimIs DEF Settled
    <3>3. \E s \in Sides, c \in L \union {RBNULL} :
             Unlinked(h, Unlink(h, z, v).tree, z, v, c, h.up[v])
      BY <3>1, <3>2, <1>3, UnlinkIs DEF Settled
    <3>4. \A q \in L : h'.key[q] = IF q = z THEN h.key[v] ELSE h.key[q]
      BY <3>3, <2>2, <1>2, <1>3 DEF Unlinked, Settled
    <3>5. InTree' = L \ {v}
      BY <2>2, <1>2, <1>3 DEF InTree
    <3>6. Held' = {h'.key[q] : q \in L \ {v}} /\ Held = {h.key[q] : q \in L}
      BY <3>5, <1>3 DEF Held, Drawn, Settled, KeysIn
    <3>7. \A n, m \in L : n # m => h.key[n] # h.key[m]
      BY <1>3, KeysDiffer DEF Settled
    <3>8. ASSUME NEW q \in L \ {v} PROVE h'.key[q] \in Held \ {k}
      <4>1. CASE q = z
        <5>1. h'.key[q] = h.key[v] /\ h.key[v] # k
          BY <4>1, <3>1, <3>2, <3>4, <3>7, <3>8
        <5> QED
          BY <5>1, <3>2, <3>6
      <4>2. CASE q # z
        <5>1. h'.key[q] = h.key[q] /\ h.key[q] # k
          BY <4>2, <3>1, <3>4, <3>7, <3>8
        <5> QED
          BY <5>1, <3>6
      <4> QED
        BY <4>1, <4>2
    <3>9. ASSUME NEW j \in Held \ {k} PROVE \E q \in L \ {v} : j = h'.key[q]
      <4>1. PICK n \in L : j = h.key[n] /\ n # z
        BY <3>1, <3>6
      <4>2. CASE n = v
        <5>1. z \in L \ {v} /\ h'.key[z] = j
          BY <4>1, <4>2, <3>1, <3>4
        <5> QED
          BY <5>1
      <4>3. CASE n # v
        <5>1. n \in L \ {v} /\ h'.key[n] = j
          BY <4>1, <4>3, <3>4
        <5> QED
          BY <5>1
      <4> QED
        BY <4>2, <4>3
    <3> QED
      BY <3>6, <3>8, <3>9
  <2> QED
    BY <2>1, <2>2
<1> QED
  BY <1>4, <1>6, <1>7 DEF Map!Take

\* rbwalk visits every key once, in order.
LEMMA WalkMaps ==
    ASSUME IInv, Drawn, Drawn', rbwalk
    PROVE  Map!Visit
<1>1. /\ pc = "idle" /\ UNCHANGED <<h, used, pc, x, y, turns, nextp>>
      /\ ret' = Answer("walk", None, Visits(h))
  BY DEF rbwalk, Ready
<1>2. PICK L : L = used /\ Settled(L)
  BY <1>1, SettledIs
<1>3. ListsOnce(Visits(h), Held)
  BY <1>2, VisitsIs DEF Settled
<1>4. InTree' = InTree
  BY <1>1 DEF InTree
<1>5. Held' = Held /\ Ahead' = Ahead
  BY <1>1, <1>4, HeldKept, AheadKept
<1>6. PICK s : s = Visits(h)
  OBVIOUS
<1>7. ret'.op = "walk" /\ ret'.got = s
  BY <1>1, <1>6 DEF Answer
<1>8. {s[i] : i \in DOMAIN s} = Held /\ \A i, j \in DOMAIN s : s[i] = s[j] => i = j
  BY <1>3, <1>6 DEF ListsOnce
<1>9. Map!ToSet(s) = Held
  BY <1>8 DEF Map!ToSet
<1> QED
  BY <1>5, <1>7, <1>8, <1>9 DEF Map!Visit

\* The list is read key after key.
LEMMA ListMaps ==
    ASSUME IInv, Drawn, Drawn'
    PROVE  /\ rbopenlist => Map!Open
           /\ rbreadlist => Map!Read
           /\ rbcloselist => Map!Close
<1>1. ASSUME pc = "idle", UNCHANGED <<h, used, pc, x, y, turns>> PROVE Held' = Held
  <2>1. InTree' = InTree
    BY <1>1 DEF InTree
  <2> QED
    BY <2>1, <1>1, HeldKept
<1>2. ASSUME rbopenlist PROVE Map!Open
  <2>1. /\ pc = "idle" /\ UNCHANGED <<h, used, pc, x, y, turns, ret>>
        /\ nextp' = Extreme(h, h.root, "left")
    BY <1>2 DEF rbopenlist, Ready
  <2>2. PICK L : L = used /\ Settled(L)
    BY <2>1, SettledIs
  <2>3. PICK a : a = Extreme(h, h.root, "left")
    OBVIOUS
  <2>4. Picked(h, L, Map!Least(Held), a)
    BY <2>2, <2>3, OutermostPicked DEF Settled
  <2>5. a = RBNULL => Held = {}
    <3>1. SUFFICES ASSUME h.root # RBNULL PROVE a # RBNULL
      BY <2>2, RootEmpty DEF Settled, KeysIn
    <3>2. h.root \in L
      BY <3>1, <2>2 DEF Settled, WellLinked, RootFits
    <3>3. Outermost(h, L, h.root, "left", a)
      BY <3>2, <2>2, <2>3, ExtremeIs DEF Settled, Sides
    <3> QED
      BY <3>3, <2>2, UnderSet DEF Outermost, Settled
  <2>6. Map!FirstOf(Held) = IF a = RBNULL THEN None ELSE h.key[a]
    BY <2>2, <2>4, <2>5, FirstIs DEF Settled
  <2>7. a # Closed
    BY <2>2, <2>4, MarksDistinct DEF Picked, Settled
  <2>8. Ahead' = Map!FirstOf(Held)
    BY <2>1, <2>3, <2>6, <2>7 DEF Ahead
  <2> QED
    BY <2>1, <2>8, <1>1 DEF Map!Open
<1>3. ASSUME rbreadlist PROVE Map!Read
  <2>1. /\ pc = "idle" /\ UNCHANGED <<h, used, pc, x, y, turns>> /\ nextp # Closed
        /\ nextp' = (IF nextp = RBNULL THEN RBNULL ELSE Neighbour(h, nextp, "right"))
        /\ ret' = Answer("readlist", None, KeyOf(nextp))
    BY <1>3 DEF rbreadlist
  <2>2. PICK L : L = used /\ Settled(L)
    BY <2>1, SettledIs
  <2>3. nextp \in L \union {RBNULL}
    BY <2>1, <2>2 DEF IInv, Memory
  <2>4. Held' = Held
    BY <2>1, <1>1
  <2>5. CASE nextp = RBNULL
    <3>1. Ahead = None /\ None # Closed /\ Ahead' = None
      BY <2>1, <2>5, MarksDistinct DEF Ahead
    <3>2. Map!Answers("readlist", None, <<>>)
      BY <2>1, <2>5 DEF Map!Answers, Answer, KeyOf
    <3> QED
      BY <3>1, <3>2, <2>4 DEF Map!Read
  <2>6. CASE nextp # RBNULL
    <3>1. PICK n, a, j : n = nextp /\ a = Neighbour(h, n, "right") /\ j = h.key[n]
      OBVIOUS
    <3>2. n \in L /\ j \in Keys /\ Ahead = j /\ j # None /\ j # Closed
      BY <3>1, <2>1, <2>2, <2>3, <2>6, MarksDistinct DEF Ahead, Settled, Keyed
    <3>3. NextTo(h, L, n, "right", a)
      BY <3>1, <3>2, <2>2, NeighbourIs DEF Settled, Sides
    <3>4. PICK S : S = {i \in Held : i > j}
      OBVIOUS
    <3>5. Picked(h, L, Map!Least(S), a)
      BY <3>1, <3>2, <3>3, <3>4, <2>2, AfterIs DEF Settled
    <3>6. a = RBNULL => S = {}
      <4>1. SUFFICES ASSUME a = RBNULL, NEW q \in L, h.key[q] > j PROVE FALSE
        BY <3>4, <2>2 DEF Settled, KeysIn
      <4>2. q # n => h.key[q] < j
        BY <4>1, <3>1, <3>3, <2>2 DEF NextTo, Beyond, Other, Settled
      <4>3. h.key[q] \in Int /\ j \in Int
        BY <3>2, <2>2, KeysAreIntegers DEF Settled, Keyed
      <4> QED
        BY <4>1, <4>2, <4>3, <3>1
    <3>7. Map!FirstOf(S) = IF a = RBNULL THEN None ELSE h.key[a]
      BY <3>5, <3>6, <2>2, FirstIs DEF Settled
    <3>8. a # Closed
      BY <3>5, <2>2, MarksDistinct DEF Picked, Settled
    <3>9. Ahead' = Map!FirstOf(S)
      BY <3>1, <3>7, <3>8, <2>1, <2>6 DEF Ahead
    <3>10. Map!Answers("readlist", None, <<j>>)
      BY <3>1, <2>1, <2>6 DEF Map!Answers, Answer, KeyOf
    <3> QED
      BY <3>2, <3>4, <3>9, <3>10, <2>4 DEF Map!Read
  <2> QED
    BY <2>5, <2>6
<1>4. ASSUME rbcloselist PROVE Map!Close
  <2>1. pc = "idle" /\ UNCHANGED <<h, used, pc, x, y, turns, ret>> /\ nextp' = Closed
    BY <1>4 DEF rbcloselist
  <2> QED
    BY <2>1, <1>1 DEF Map!Close, Ahead
<1> QED
  BY <1>2, <1>3, <1>4

\* rbdestroy forgets all of them.
LEMMA DestroyMaps ==
    ASSUME IInv, Drawn, Drawn', rbdestroy
    PROVE  Map!Clear
<1>1. /\ pc = "idle" /\ pc' = pc /\ nextp = Closed /\ nextp' = nextp /\ ret' = ret
      /\ used' = used \ Reached
  BY DEF rbdestroy, Ready
<1>2. InTree' = {}
  BY <1>1 DEF InTree, Drawn
<1>3. Held' = {}
  BY <1>2 DEF Held, Drawn
<1> QED
  BY <1>1, <1>3, AheadKept DEF Map!Clear

\* Neither a turn of a loop nor a call on another tree changes the map.
LEMMA OthersMap ==
    ASSUME IInv, Drawn, Drawn'
    PROVE  InsertTurn \/ InsertEnd \/ DeleteTurn \/ DeleteEnd \/ OtherTree \/ UNCHANGED vars
             => UNCHANGED <<Held, Ahead, ret>>
<1>1. pc # "idle" => nextp = Closed
  BY DEF IInv, Memory
<1>2. ASSUME InsertTurn PROVE UNCHANGED <<Held, Ahead, ret>>
  <2>1. pc = "insert" /\ UNCHANGED <<used, pc, y, nextp, ret>>
    BY <1>2 DEF InsertTurn
  <2>2. h'.key = h.key /\ InTree' = InTree
    BY <2>1, <1>2, InsertTurnKeeps DEF InTree
  <2> QED
    BY <2>1, <2>2, HeldKept, AheadKept
<1>3. ASSUME InsertEnd PROVE UNCHANGED <<Held, Ahead, ret>>
  <2>1. pc = "insert" /\ pc' = "idle" /\ UNCHANGED <<used, y, nextp, ret>>
    BY <1>3 DEF InsertEnd
  <2>2. h'.key = h.key /\ InTree' = InTree
    BY <2>1, <1>3, InsertEndKeeps DEF InTree
  <2> QED
    BY <2>1, <2>2, HeldKept, AheadKept
<1>4. ASSUME DeleteTurn PROVE UNCHANGED <<Held, Ahead, ret>>
  <2>1. UNCHANGED <<used, pc, y, nextp, ret>>
    BY <1>4 DEF DeleteTurn
  <2>2. h'.key = h.key /\ InTree' = InTree
    BY <2>1, <1>4, DeleteTurnKeeps DEF InTree
  <2> QED
    BY <2>1, <2>2, HeldKept, AheadKept
<1>5. ASSUME DeleteEnd PROVE UNCHANGED <<Held, Ahead, ret>>
  <2>1. pc = "delete" /\ pc' = "idle" /\ used' = used \ {y} /\ UNCHANGED <<nextp, ret>>
    BY <1>5 DEF DeleteEnd
  <2>2. InTree' = InTree
    BY <2>1 DEF InTree
  <2>3. \A n \in InTree : h'.key[n] = h.key[n]
    BY <1>5, DeleteEndKeeps
  <2>4. nextp = Closed
    BY <2>1, <1>1
  <2> QED
    BY <2>1, <2>2, <2>3, <2>4, HeldKept, AheadKept
<1>6. ASSUME OtherTree PROVE UNCHANGED <<Held, Ahead, ret>>
  <2>1. UNCHANGED <<used, pc, y, nextp, ret>> /\ h' = WithUp(h, RBNULL, Foreign)
    BY <1>6 DEF OtherTree, WithUp
  <2>2. h \in Heaps /\ RBNULL \in Pointers
    BY DEF IInv, Memory, Pointers
  <2>3. h'.key = h.key
    BY <2>1, <2>2, SetUp DEF UpSet
  <2>4. InTree' = InTree
    BY <2>1 DEF InTree
  <2> QED
    BY <2>1, <2>3, <2>4, HeldKept, AheadKept
<1>7. ASSUME UNCHANGED vars PROVE UNCHANGED <<Held, Ahead, ret>>
  <2>1. UNCHANGED <<h, used, pc, y, nextp, ret>>
    BY <1>7 DEF vars
  <2>2. InTree' = InTree
    BY <2>1 DEF InTree
  <2> QED
    BY <2>1, <2>2, HeldKept, AheadKept
<1> QED
  BY <1>2, <1>3, <1>4, <1>5, <1>6, <1>7

\* Every step is a step of the map, or leaves it alone.
LEMMA StepMaps ==
    ASSUME IInv, Drawn, Drawn', [Next]_vars
    PROVE  [Map!MapNext]_(Map!mvars)
<1>1. ASSUME NEW k \in Keys, rbsearch(k) \/ rbfind(k) \/ rbdelete(k) PROVE Map!MapNext
  <2>1. Map!Put(k) \/ Map!Get(k) \/ Map!Take(k)
    BY <1>1, SearchMaps, FindMaps, DeleteMaps
  <2> QED
    BY <2>1 DEF Map!MapNext
<1>2. ASSUME NEW k \in Keys, NEW mode \in Modes, rblookup(mode, k) PROVE Map!MapNext
  <2>1. Map!Match(mode, k) /\ mode \in Map!Modes
    BY <1>2, FindMaps DEF Modes, Map!Modes
  <2> QED
    BY <2>1 DEF Map!MapNext
<1>3. ASSUME rbwalk \/ rbopenlist \/ rbreadlist \/ rbcloselist \/ rbdestroy PROVE Map!MapNext
  BY <1>3, WalkMaps, ListMaps, DestroyMaps DEF Map!MapNext
<1>4. ASSUME InsertTurn \/ InsertEnd \/ DeleteTurn \/ DeleteEnd \/ OtherTree \/ UNCHANGED vars
      PROVE  UNCHANGED Map!mvars
  BY <1>4, OthersMap DEF Map!mvars
<1> QED
  BY <1>1, <1>2, <1>3, <1>4 DEF Next

\* The empty tree is the empty map.
LEMMA InitMaps ==
    ASSUME Init, Drawn
    PROVE  Map!MapInit
<1>1. used = {} /\ nextp = Closed /\ ret = Answer("none", None, <<>>)
  BY DEF Init
<1>2. Held = {} /\ Ahead = Closed
  BY <1>1 DEF Held, Drawn, InTree, Ahead
<1> QED
  BY <1>1, <1>2 DEF Map!MapInit, Map!Answer, Answer

\* The invariant implies that _destroy reaches what is linked in.
LEMMA DrawnHolds == IInv => Drawn
BY TreeReached DEF Drawn

\* Every call of the tree answers as a map does that has the keys put and not yet taken,
\* in every history of calls: rbsearch, rbfind, rbdelete, rblookup, rbwalk and the list
\* find the same keys whatever the shape the repairs gave the tree.
THEOREM AnswersHold == Spec => AnswersAsMap
<1>1. Init /\ IInv => Map!MapInit
  BY InitMaps, DrawnHolds
<1>2. IInv /\ IInv' /\ [Next]_vars => [Map!MapNext]_(Map!mvars)
  <2>1. IInv' => Drawn'
    BY DrawnHolds, PTL
  <2> QED
    BY <2>1, DrawnHolds, StepMaps
<1> QED
  BY <1>1, <1>2, TreeHolds, PTL DEF Spec, AnswersAsMap, Map!MapSpec
=============================================================================
