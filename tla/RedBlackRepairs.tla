-------------------------- MODULE RedBlackRepairs --------------------------
(***************************************************************************)
(* The repair loops of RedBlack case by case: which rotations and changes  *)
(* of colours a turn makes, and what they leave of the red nodes and of    *)
(* the counts of black ones.                                               *)
(***************************************************************************)
EXTENDS RedBlackWalks

(* The loop of an insert. *)

\* t2 is t with other colours at nodes of L.
Repainted(t, t2, L) ==
    /\ t2 \in Heaps
    /\ t2.root = t.root /\ t2.kid = t.kid /\ t2.up = t.up /\ t2.key = t.key
    /\ \A q \in Pointers \ L : t2.red[q] = t.red[q]

\* Colours alone change neither links nor order.
LEMMA TurnPaint ==
    ASSUME NEW t, NEW L, Shaped(t, L), NEW t2, Repainted(t, t2, L)
    PROVE  Turned(t, t2, L)
<1>1. WellLinked(t2, L)
  BY SameLinks DEF Repainted, Shaped
<1>2. Ordered(t2, L)
  BY SameOrder DEF Repainted, Shaped
<1> QED
  BY <1>1, <1>2 DEF Repainted, Shaped, Turned, Within, Keyed

\* The repaintings of the loops.
Redden(t, n)       == [t EXCEPT !.red[n] = TRUE]
Blacken(t, n)      == [t EXCEPT !.red[n] = FALSE]
Trade(t, n, m)     == [t EXCEPT !.red[n] = FALSE, !.red[m] = TRUE]
Lower(t, n, k, m)  == [t EXCEPT !.red[n] = FALSE, !.red[k] = FALSE, !.red[m] = TRUE]
Hand(t, v, p, far) == [t EXCEPT !.red[v] = t.red[p], !.red[p] = FALSE, !.red[far] = FALSE]

\* What they leave.
MadeRed(t, t2, L, n) ==
    /\ Repainted(t, t2, L) /\ t2.red[n]
    /\ \A q \in Pointers : q # n => t2.red[q] = t.red[q]
Blackened(t, t2, L, n) ==
    /\ Repainted(t, t2, L) /\ ~t2.red[n]
    /\ \A q \in Pointers : q # n => t2.red[q] = t.red[q]
Traded(t, t2, L, n, m) ==
    /\ Repainted(t, t2, L) /\ ~t2.red[n] /\ t2.red[m]
    /\ \A q \in Pointers : q # n /\ q # m => t2.red[q] = t.red[q]
Lowered(t, t2, L, n, k, m) ==
    /\ Repainted(t, t2, L) /\ ~t2.red[n] /\ ~t2.red[k] /\ t2.red[m]
    /\ \A q \in Pointers : q # n /\ q # k /\ q # m => t2.red[q] = t.red[q]
Handed(t, t2, L, v, p, far) ==
    /\ Repainted(t, t2, L) /\ t2.red[v] = t.red[p] /\ ~t2.red[p] /\ ~t2.red[far]
    /\ \A q \in Pointers : q # v /\ q # p /\ q # far => t2.red[q] = t.red[q]

\* Redden makes n red.
LEMMA ReddenIs ==
    ASSUME NEW t, NEW L \in SUBSET Pointers, t \in Heaps, NEW n \in L
    PROVE  MadeRed(t, Redden(t, n), L, n)
BY DEF Heaps, Repainted, Redden, MadeRed

\* Blacken makes n black.
LEMMA BlackenIs ==
    ASSUME NEW t, NEW L \in SUBSET Pointers, t \in Heaps, NEW n \in L
    PROVE  Blackened(t, Blacken(t, n), L, n)
BY DEF Heaps, Repainted, Blacken, Blackened

\* Trade makes n black and m red.
LEMMA TradeIs ==
    ASSUME NEW t, NEW L \in SUBSET Pointers, t \in Heaps, NEW n \in L, NEW m \in L, n # m
    PROVE  Traded(t, Trade(t, n, m), L, n, m)
BY DEF Heaps, Repainted, Trade, Traded

\* Lower makes m red and the two below it black.
LEMMA LowerIs ==
    ASSUME NEW t, NEW L \in SUBSET Pointers, t \in Heaps, NEW n \in L, NEW k \in L, NEW m \in L,
           n # m, k # m
    PROVE  Lowered(t, Lower(t, n, k, m), L, n, k, m)
BY DEF Heaps, Repainted, Lower, Lowered

\* Hand gives v the colour of p and makes p and far black.
LEMMA HandIs ==
    ASSUME NEW t, NEW L \in SUBSET Pointers, t \in Heaps, NEW v \in L, NEW p \in L, NEW far \in L,
           v # p, v # far
    PROVE  Handed(t, Hand(t, v, p, far), L, v, p, far)
BY DEF Heaps, Repainted, Hand, Handed

\* No node counts more black nodes below it than the root.
LEMMA RootHighest ==
    ASSUME NEW t, NEW L, WellLinked(t, L), NEW D, NEW bh, Blacks(t, L, D, bh)
    PROVE  \A n \in L : bh[n] <= bh[t.root]
<1> DEFINE S == {n \in L : ~(bh[n] <= bh[t.root])}
<1> SUFFICES ASSUME S # {} PROVE FALSE
  OBVIOUS
<1>1. PICK n \in S : t.up[n] \notin S
  BY DEF WellLinked, Top
<1>2. L \subseteq Pointers /\ t.root \in Pointers
  BY DEF WellLinked, RootFits, Pointers
<1>3. n # t.root
  BY <1>1, <1>2 DEF Blacks
<1>4. PICK s \in Sides : t.up[n] \in L /\ t.kid[s][t.up[n]] = n
  BY <1>1, <1>3 DEF WellLinked, UpsFit
<1>5. PICK p : p = t.up[n]
  OBVIOUS
<1>6. bh[p] = bh[n] + Lack(t, D, p, s) + Tint(t, p)
  BY <1>4, <1>5 DEF Blacks
<1>7. Lack(t, D, p, s) \in Nat /\ Tint(t, p) \in Nat
  BY DEF Lack, Tint
<1>8. bh[n] \in Nat /\ bh[p] \in Nat /\ bh[t.root] \in Nat
  BY <1>1, <1>2, <1>4, <1>5 DEF Blacks
<1>9. bh[p] <= bh[t.root]
  BY <1>1, <1>4, <1>5
<1> HIDE DEF S
<1>10. bh[n] <= bh[t.root]
  BY <1>6, <1>7, <1>8, <1>9
<1> QED
  BY <1>1, <1>10 DEF S

-----------------------------------------------------------------------------
\* The tree can be counted, with k black nodes below n.
CountsTo(t, L, D, n, k) == \E bh : Blacks(t, L, D, bh) /\ bh[n] = k

\* The tree of an insert: c is red and the one node that may have a red parent.
Inserting(t, L, c, bh) ==
    /\ Shaped(t, L) /\ c \in L /\ t.red[c]
    /\ Reds(t, L, {}, {c}) /\ Blacks(t, L, {}, bh)

\* Without a delete nothing lacks.
LEMMA NoLack ==
    ASSUME NEW t, NEW n, NEW s
    PROVE  Lack(t, {}, n, s) = 0
BY DEF Lack

\* The first rotation, of a red c between its red parent and its grandparent.
LEMMA InnerTurn ==
    ASSUME NEW t, NEW L, NEW c, NEW bh, Inserting(t, L, c, bh), NEW p \in L, NEW s \in Sides,
           c = t.kid[Other(s)][p], t.red[p], NEW t1, t1 = Rotate(t, p, s)
    PROVE  /\ Turned(t, t1, L) /\ Inserting(t1, L, p, bh)
           /\ t1.red = t.red /\ t1.up[p] = c /\ t1.kid[s][c] = p /\ t1.up[c] = t.up[p]
           /\ t.up[p] \in L
           /\ \A r \in Sides : t.kid[r][t.up[p]] = p => t1.kid[r][t.up[p]] = c
           /\ \A r \in Sides : t.kid[r][t.up[p]] # p => t1.kid[r][t.up[p]] = t.kid[r][t.up[p]]
<1>1. /\ WellLinked(t, L) /\ Shaped(t, L) /\ c \in L /\ c # RBNULL /\ L \subseteq Pointers
      /\ RBNULL \notin L
  BY NodesDistinct DEF Inserting, Shaped, WellLinked, Pointers
<1>2. PICK b, g : b = t.kid[s][c] /\ g = t.up[p]
  OBVIOUS
<1>3. /\ Rotated(t, t1, p, c, b, g, s)
      /\ b \in L \union {RBNULL} /\ g \in L \union {RBNULL}
      /\ p # c /\ b # p /\ b # c /\ g # p /\ g # c /\ c # t.root /\ p # RBNULL
  BY <1>1, <1>2, RotateFacts
<1>4. Other(s) \in Sides /\ Other(s) # s /\ Sides = {s, Other(s)}
  BY SidesAre
<1>5. /\ \A n \in L, r \in Sides : t.red[n] /\ t.red[t.kid[r][n]] => t.kid[r][n] = c
      /\ t.red[t.root] => t.root = c
      /\ ~t.red[RBNULL]
  BY DEF Inserting, Reds
<1>6. p # t.root
  BY <1>3, <1>5
<1>7. g \in L /\ g # RBNULL
  BY <1>1, <1>2, <1>3, <1>6, Parent
<1>8. \A q \in L, r \in Sides : t.kid[r][q] = c => q = p
  BY <1>1, <1>4 DEF WellLinked, KidsFit
<1>9. t.kid[s][p] # c
  <2>1. t.kid["left"][p] = t.kid["right"][p] => t.kid["left"][p] = RBNULL
    BY <1>1 DEF WellLinked, KidsFit
  <2> QED
    BY <2>1, <1>1 DEF Sides, Other
<1>10. Turned(t, t1, L)
  BY <1>1, TurnRotate
<1>11. bh \in [Pointers -> Nat] /\ bh[RBNULL] = 1
  BY DEF Inserting, Blacks
<1>12. \A n \in L, r \in Sides : bh[n] = bh[t.kid[r][n]] + Tint(t, n)
  <2> TAKE n \in L, r \in Sides
  <2>1. bh[n] = bh[t.kid[r][n]] + Lack(t, {}, n, r) + Tint(t, n)
    BY DEF Inserting, Blacks
  <2>2. t.kid[r][n] \in Pointers
    BY <1>1, KidsArePointers DEF WellLinked
  <2>3. bh[t.kid[r][n]] \in Nat /\ Tint(t, n) \in Nat
    BY <2>2, <1>11 DEF Tint
  <2> QED
    BY <2>1, <2>3, NoLack
<1>13. Tint(t, p) = 0 /\ Tint(t, c) = 0
  BY DEF Tint, Inserting
<1>14. bh[p] = bh[c] /\ bh[p] \in Nat /\ bh[c] \in Nat
  BY <1>1, <1>4, <1>11, <1>12, <1>13
<1>15. FitsAbove(t, L, {}, bh, p, c)
  <2> SUFFICES ASSUME NEW q \in L \ {p, c}, NEW r \in Sides
               PROVE  IF t.kid[r][q] = p THEN bh[q] = bh[c] + Tint(t, q)
                      ELSE bh[q] = bh[t.kid[r][q]] + Lack(t, {}, q, r) + Tint(t, q)
    BY <1>11 DEF FitsAbove
  <2>1. bh[q] = bh[t.kid[r][q]] + Lack(t, {}, q, r) + Tint(t, q)
    BY DEF Inserting, Blacks
  <2>2. bh[q] = bh[t.kid[r][q]] + Tint(t, q)
    BY <1>12
  <2> QED
    BY <2>1, <2>2, <1>14
<1>16. Blacks(t1, L, {}, bh)
  <2>1. /\ bh[p] = bh[t.kid[s][p]] + Lack(t, {}, p, s) + Tint(t, p)
        /\ bh[c] = bh[t.kid[Other(s)][c]] + Lack(t, {}, c, Other(s)) + Tint(t, c)
    BY <1>1, <1>4 DEF Inserting, Blacks
  <2>2. bh[p] = bh[b] + Tint(t, p) /\ bh[c] = bh[p] + Tint(t, c)
    BY <1>1, <1>2, <1>4, <1>12, <1>13, <1>14
  <2>3. b \notin {}
    OBVIOUS
  <2> QED
    BY <1>1, <1>2, <1>15, <2>1, <2>2, <2>3, RotateBlacks
<1>17. Reds(t1, L, {}, {p})
  <2>1. CalmAbove(t, L, {}, {p}, p, c)
    BY <1>3, <1>4, <1>5, <1>6, <1>8 DEF CalmAbove
  <2>2. ~(t.red[p] /\ t.red[t.kid[s][p]])
    BY <1>5, <1>9
  <2>3. ~(t.red[p] /\ t.red[b])
    BY <1>1, <1>2, <1>3, <1>5 DEF Inserting
  <2>4. ~(t.red[c] /\ t.red[t.kid[Other(s)][c]])
    BY <1>1, <1>3, <1>4, <1>5, <1>8
  <2> QED
    BY <1>1, <1>2, <2>1, <2>2, <2>3, <2>4, RotateReds
<1>18. t1.red = t.red
  BY <1>3 DEF Rotated
<1>19. Inserting(t1, L, p, bh)
  BY <1>10, <1>16, <1>17, <1>18 DEF Inserting, Turned
<1>20. t1.up[p] = c /\ t1.up[c] = g /\ t1.kid[s][c] = p
  BY <1>1, <1>3, <1>4 DEF Rotated
<1>21. \A r \in Sides : t1.kid[r][g] = IF t.kid[r][g] = p THEN c ELSE t.kid[r][g]
  BY <1>1, <1>3, <1>7 DEF Rotated
<1> QED
  BY <1>2, <1>7, <1>10, <1>18, <1>19, <1>20, <1>21

\* No red node but m has a red child.
CalmBut(t, L, m) ==
    /\ \A q \in L, r \in Sides : t.red[q] /\ t.red[t.kid[r][q]] => q = m
    /\ ~t.red[t.root] /\ ~t.red[RBNULL]

\* The black n and its red child m change places and colours.
LEMMA TradeTurn ==
    ASSUME NEW t, NEW L, Shaped(t, L), NEW D, NEW bh, Blacks(t, L, D, bh),
           NEW n \in L, NEW s \in Sides, NEW m, NEW b,
           m = t.kid[Other(s)][n], m # RBNULL, b = t.kid[s][m],
           CalmBut(t, L, m), ~t.red[n], t.red[m], ~t.red[b], ~t.red[t.kid[s][n]],
           n \notin D, m \notin D, b \in D => b = RBNULL /\ t.up[b] # n /\ t.up[b] # m,
           NEW t1, NEW t2, t1 = Trade(t, m, n), t2 = Rotate(t1, n, s)
    PROVE  /\ Traded(t, t1, L, m, n) /\ Rotated(t1, t2, n, m, b, t.up[n], s)
           /\ Turned(t, t2, L) /\ Reds(t2, L, {}, {})
           /\ \E bh2 : /\ Blacks(t2, L, D, bh2) /\ bh2[n] = bh[m] /\ bh2[m] = bh[n]
                       /\ \A q \in Pointers : q # n /\ q # m => bh2[q] = bh[q]
<1>1. /\ WellLinked(t, L) /\ L \subseteq Pointers /\ RBNULL \notin L /\ t \in Heaps
      /\ RBNULL \in Pointers /\ n # RBNULL /\ ~t.red[RBNULL]
  BY NodesDistinct DEF Shaped, WellLinked, Pointers, CalmBut
<1>2. Other(s) \in Sides /\ Other(s) # s /\ Sides = {s, Other(s)}
  BY SidesAre
<1>3. m \in L /\ m # n /\ t.up[m] = n /\ m # t.root
  BY <1>1, <1>2, Apart
<1>4. Traded(t, t1, L, m, n)
  <2>1. L \in SUBSET Pointers /\ t \in Heaps /\ m \in L /\ n \in L /\ m # n /\ t1 = Trade(t, m, n)
    BY Zenon, <1>1, <1>3
  <2> QED
    BY ONLY <2>1, TradeIs
<1>5. /\ t1.kid = t.kid /\ t1.up = t.up /\ t1.root = t.root
      /\ ~t1.red[m] /\ t1.red[n]
      /\ \A q \in Pointers : q # m /\ q # n => t1.red[q] = t.red[q]
  BY ONLY <1>4 DEF Traded, Repainted
<1>6. Turned(t, t1, L)
  BY Zenon, <1>4, TurnPaint DEF Traded
<1>7. WellLinked(t1, L) /\ Shaped(t1, L)
  BY <1>6 DEF Turned, Shaped
<1>8. PICK d, u, f : d = t.up[n] /\ u = t.kid[s][n] /\ f = t.kid[Other(s)][m]
  BY Zenon
<1>9. /\ m = t1.kid[Other(s)][n] /\ b = t1.kid[s][m] /\ d = t1.up[n]
      /\ u = t1.kid[s][n] /\ f = t1.kid[Other(s)][m]
  BY Zenon, <1>5, <1>8
<1>10. Turned(t1, t2, L)
  BY <1>7, <1>9, TurnRotate
<1>11. /\ Rotated(t1, t2, n, m, b, d, s)
       /\ b \in L \union {RBNULL} /\ d \in L \union {RBNULL}
       /\ b # n /\ b # m /\ d # n /\ d # m
  <2>1. WellLinked(t1, L) /\ n \in L /\ s \in Sides /\ m # RBNULL /\ t2 = Rotate(t1, n, s)
    BY <1>7
  <2> QED
    BY ONLY <2>1, <1>9, RotateFacts
<1>12. Turned(t, t2, L)
  BY <1>6, <1>10, TurnTrans
<1>13. /\ bh \in [Pointers -> Nat] /\ bh[RBNULL] = 1
       /\ \A q \in L, r \in Sides : bh[q] = bh[t.kid[r][q]] + Lack(t, D, q, r) + Tint(t, q)
  BY Zenon DEF Blacks
<1>14. /\ u \in Pointers /\ b \in Pointers /\ f \in Pointers
       /\ u # m /\ u # n /\ f # m /\ f # n
  <2>1. t.kid["left"][n] = t.kid["right"][n] => t.kid["left"][n] = RBNULL
    BY <1>1 DEF WellLinked, KidsFit
  <2>2. u # m
    BY Zenon, <2>1, <1>1, <1>8 DEF Sides, Other
  <2>3. u # n /\ f # m
    BY <1>1, <1>2, <1>3, <1>8, Apart
  <2>4. f # n
    BY <1>1, <1>2, <1>8, Apart
  <2> QED
    BY <2>2, <2>3, <2>4, <1>1, <1>2, <1>3, <1>8, <1>11, KidsArePointers DEF Pointers
<1>15. Lack(t, D, n, Other(s)) = 0 /\ Lack(t, D, m, s) = 0
  BY DEF Lack
<1>16. /\ bh[n] = bh[m] + 1 /\ bh[m] = bh[b] /\ bh[n] = bh[u] + Lack(t, D, n, s) + 1
       /\ bh[m] = bh[f] + Lack(t, D, m, Other(s))
       /\ bh[n] \in Nat /\ bh[m] \in Nat /\ bh[b] \in Nat /\ bh[u] \in Nat /\ bh[f] \in Nat
       /\ Lack(t, D, n, s) \in Nat /\ Lack(t, D, m, Other(s)) \in Nat
  <2>1. Tint(t, m) = 0 /\ Tint(t, n) = 1
    BY Zenon DEF Tint
  <2>2. /\ bh[n] \in Nat /\ bh[m] \in Nat /\ bh[b] \in Nat /\ bh[u] \in Nat /\ bh[f] \in Nat
    BY <1>1, <1>3, <1>13, <1>14
  <2>3. Lack(t, D, n, s) \in Nat /\ Lack(t, D, m, Other(s)) \in Nat
    BY DEF Lack
  <2>4. /\ bh[n] = bh[m] + Lack(t, D, n, Other(s)) + Tint(t, n)
        /\ bh[n] = bh[u] + Lack(t, D, n, s) + Tint(t, n)
        /\ bh[m] = bh[b] + Lack(t, D, m, s) + Tint(t, m)
        /\ bh[m] = bh[f] + Lack(t, D, m, Other(s)) + Tint(t, m)
    BY <1>2, <1>3, <1>8, <1>13
  <2>5. bh[n] = bh[m] + 1
    BY ONLY <2>1, <2>2, <2>4, <1>15
  <2>6. bh[m] = bh[b]
    BY ONLY <2>1, <2>2, <2>4, <1>15
  <2>7. bh[n] = bh[u] + Lack(t, D, n, s) + 1
    BY ONLY <2>1, <2>4
  <2>8. bh[m] = bh[f] + Lack(t, D, m, Other(s))
    BY ONLY <2>1, <2>2, <2>3, <2>4
  <2> QED
    BY <2>2, <2>3, <2>5, <2>6, <2>7, <2>8
<1>17. PICK bh2 :
         bh2 = [q \in Pointers |-> IF q = m THEN bh[n] ELSE IF q = n THEN bh[m] ELSE bh[q]]
  BY Zenon
<1>18. /\ bh2 \in [Pointers -> Nat] /\ bh2[m] = bh[n] /\ bh2[n] = bh[m]
       /\ \A q \in Pointers : q # n /\ q # m => bh2[q] = bh[q]
  BY <1>1, <1>3, <1>13, <1>16, <1>17
<1>19. /\ Tint(t1, m) = 1 /\ Tint(t1, n) = 0 /\ \A q \in L \ {n, m} : Tint(t1, q) = Tint(t, q)
       /\ \A q, r : Lack(t1, D, q, r) = Lack(t, D, q, r)
  BY <1>1, <1>5 DEF Tint, Lack
<1>20. \A q \in L, r \in Sides : t.kid[r][q] = m => q = n
  BY ONLY <1>1, <1>3 DEF WellLinked, KidsFit
<1>21. FitsAbove(t1, L, D, bh2, n, m)
  <2> SUFFICES ASSUME NEW q \in L \ {n, m}, NEW r \in Sides
               PROVE  IF t1.kid[r][q] = n THEN bh2[q] = bh2[m] + Tint(t1, q)
                      ELSE bh2[q] = bh2[t1.kid[r][q]] + Lack(t1, D, q, r) + Tint(t1, q)
    BY <1>1, <1>3, <1>13, <1>18 DEF FitsAbove
  <2>1. bh2[q] = bh[q] /\ Tint(t1, q) = Tint(t, q) /\ Lack(t1, D, q, r) = Lack(t, D, q, r)
    BY <1>1, <1>18, <1>19
  <2>2. t1.kid[r][q] = t.kid[r][q] /\ t.kid[r][q] \in Pointers
    BY <1>1, <1>5, KidsArePointers
  <2>3. bh[q] = bh[t.kid[r][q]] + Lack(t, D, q, r) + Tint(t, q)
    BY <1>13
  <2>4. CASE t.kid[r][q] = n
    <3>1. Lack(t, D, q, r) = 0
      BY <2>4 DEF Lack
    <3>2. Tint(t, q) \in Nat
      BY DEF Tint
    <3> QED
      BY <2>1, <2>2, <2>3, <2>4, <3>1, <3>2, <1>16, <1>18
  <2>5. CASE t.kid[r][q] # n
    <3>1. bh2[t.kid[r][q]] = bh[t.kid[r][q]]
      BY <2>2, <2>5, <1>18, <1>20
    <3> QED
      BY <2>1, <2>2, <2>3, <2>5, <3>1
  <2> QED
    BY ONLY <2>4, <2>5
<1>22. Blacks(t2, L, D, bh2)
  <2>1. bh2[u] = bh[u] /\ bh2[b] = bh[b] /\ bh2[f] = bh[f]
    BY <1>11, <1>14, <1>18
  <2>2. bh2[n] = bh2[t1.kid[s][n]] + Lack(t1, D, n, s) + Tint(t1, n)
    <3>1. Lack(t1, D, n, s) = Lack(t, D, n, s) /\ bh2[t1.kid[s][n]] = bh[u]
      BY ONLY <2>1, <1>9, <1>19
    <3>2. bh[m] = bh[u] + Lack(t, D, n, s)
      BY ONLY <1>16
    <3> QED
      BY ONLY <3>1, <3>2, <1>16, <1>18, <1>19
  <2>3. bh2[n] = bh2[b] + Tint(t1, n)
    BY <2>1, <1>16, <1>18, <1>19
  <2>4. bh2[m] = bh2[n] + Tint(t1, m)
    BY <1>16, <1>18, <1>19
  <2>5. bh2[m] = bh2[t1.kid[Other(s)][m]] + Lack(t1, D, m, Other(s)) + Tint(t1, m)
    <3>1. Lack(t1, D, m, Other(s)) = Lack(t, D, m, Other(s)) /\ bh2[t1.kid[Other(s)][m]] = bh[f]
      BY ONLY <2>1, <1>9, <1>19
    <3>2. bh[n] = bh[f] + Lack(t, D, m, Other(s)) + 1
      BY ONLY <1>16
    <3> QED
      BY ONLY <3>1, <3>2, <1>16, <1>18, <1>19
  <2>6. /\ WellLinked(t1, L) /\ n \in L /\ s \in Sides /\ m # RBNULL /\ t2 = Rotate(t1, n, s)
        /\ b \in D => b = RBNULL /\ t1.up[b] # n
    BY <1>5, <1>7
  <2> QED
    BY ONLY Zenon, <2>2, <2>3, <2>4, <2>5, <2>6, <1>9, <1>21, RotateBlacks
<1>23. Reds(t2, L, {}, {})
  <2>1. CalmAbove(t1, L, {}, {}, n, m)
    <3>1. ~t1.red[RBNULL]
      BY ONLY <1>1, <1>3, <1>5
    <3>2. ~t1.red[IF t1.root = n THEN m ELSE t1.root]
      <4>1. t.root \in Pointers /\ ~t.red[t.root]
        BY Zenon, <1>1 DEF WellLinked, RootFits, Pointers, CalmBut
      <4> QED
        BY <4>1, <1>3, <1>5
    <3>3. ASSUME NEW q \in L \ {n, m}, NEW r \in Sides, t1.kid[r][q] # n
          PROVE  ~(t1.red[q] /\ t1.red[t1.kid[r][q]])
      <4>1. t1.kid[r][q] = t.kid[r][q] /\ t.kid[r][q] \in Pointers /\ t.kid[r][q] # m
        BY ONLY <1>1, <1>5, <1>20, KidsArePointers
      <4>2. t1.red[q] = t.red[q] /\ t1.red[t.kid[r][q]] = t.red[t.kid[r][q]]
        BY ONLY <4>1, <3>3, <1>1, <1>5
      <4> QED
        BY Zenon, <4>1, <4>2 DEF CalmBut
    <3> QED
      BY <3>1, <3>2, <3>3, <1>5 DEF CalmAbove
  <2>2. ~t1.red[t1.kid[s][n]]
    BY Zenon, <1>5, <1>8, <1>14
  <2>3. ~t1.red[b]
    BY Zenon, <1>5, <1>11, <1>14
  <2>4. ~t1.red[m]
    BY ONLY <1>5
  <2>5. WellLinked(t1, L) /\ n \in L /\ s \in Sides /\ m # RBNULL /\ t2 = Rotate(t1, n, s)
    BY <1>7
  <2> QED
    BY ONLY <2>1, <2>2, <2>3, <2>4, <2>5, <1>9, RotateReds
<1>24. Rotated(t1, t2, n, m, b, t.up[n], s)
  BY <1>8, <1>11
<1> QED
  BY <1>4, <1>12, <1>18, <1>22, <1>23, <1>24

\* Without a lack the two ways down from a node count the same.
LEMMA EvenBlacks ==
    ASSUME NEW t, NEW L, WellLinked(t, L), NEW bh, Blacks(t, L, {}, bh)
    PROVE  /\ bh \in [Pointers -> Nat] /\ bh[RBNULL] = 1
           /\ \A n \in L, r \in Sides :
                 t.kid[r][n] \in Pointers /\ bh[n] = bh[t.kid[r][n]] + Tint(t, n)
<1>1. bh \in [Pointers -> Nat] /\ bh[RBNULL] = 1
  BY DEF Blacks
<1>2. ASSUME NEW n \in L, NEW r \in Sides
      PROVE  t.kid[r][n] \in Pointers /\ bh[n] = bh[t.kid[r][n]] + Tint(t, n)
  <2>1. bh[n] = bh[t.kid[r][n]] + Lack(t, {}, n, r) + Tint(t, n)
    BY DEF Blacks
  <2>2. t.kid[r][n] \in Pointers
    BY KidsArePointers DEF WellLinked, Pointers
  <2>3. bh[t.kid[r][n]] \in Nat /\ Tint(t, n) \in Nat
    BY <2>2, <1>1 DEF Tint
  <2> QED
    BY <2>1, <2>2, <2>3, NoLack
<1> QED
  BY <1>1, <1>2

\* The second rotation, after which no red node has a red parent.
LEMMA OuterTurn ==
    ASSUME NEW t, NEW L, NEW c, NEW bh, Inserting(t, L, c, bh), NEW p \in L, NEW g \in L,
           NEW o \in Sides, t.kid[Other(o)][p] = c, t.kid[Other(o)][g] = p, t.red[p],
           ~t.red[t.kid[o][g]], NEW t2, t2 = Rotate(Trade(t, p, g), g, o)
    PROVE  /\ Turned(t, t2, L) /\ Reds(t2, L, {}, {})
           /\ t2.up[c] = p /\ ~t2.red[p] /\ t2.red[c]
           /\ \E bh2 : Blacks(t2, L, {}, bh2) /\ bh2[c] = bh[c]
<1>1. /\ WellLinked(t, L) /\ Shaped(t, L) /\ c \in L /\ c # RBNULL /\ L \subseteq Pointers
      /\ p # RBNULL /\ t.red[c]
  BY NodesDistinct DEF Inserting, Shaped, WellLinked, Pointers
<1>2. Other(o) \in Sides /\ Other(o) # o /\ Sides = {o, Other(o)}
  BY SidesAre
<1>3. g # p /\ c # p /\ c # g /\ t.up[p] = g /\ t.up[c] = p /\ c # t.root
  BY <1>1, <1>2, Apart
<1>4. PICK b, t1 : b = t.kid[o][p] /\ t1 = Trade(t, p, g)
  OBVIOUS
<1>5. c # b
  <2>1. t.kid["left"][p] = t.kid["right"][p] => t.kid["left"][p] = RBNULL
    BY <1>1 DEF WellLinked, KidsFit
  <2> QED
    BY <2>1, <1>1, <1>4 DEF Sides, Other
<1>6. /\ \A n \in L, r \in Sides : t.red[n] /\ t.red[t.kid[r][n]] => t.kid[r][n] = c
      /\ t.red[t.root] => t.root = c
      /\ ~t.red[RBNULL]
  BY DEF Inserting, Reds
<1>7. CalmBut(t, L, p)
  <2>1. \A n \in L, r \in Sides : t.kid[r][n] = c => n = p
    BY <1>1, <1>3 DEF WellLinked, KidsFit
  <2> QED
    BY <2>1, <1>3, <1>6 DEF CalmBut
<1>8. ~t.red[g] /\ ~t.red[b]
  BY <1>2, <1>3, <1>4, <1>5, <1>6
<1>9. /\ Shaped(t, L) /\ Blacks(t, L, {}, bh) /\ g \in L /\ o \in Sides
      /\ p = t.kid[Other(o)][g] /\ p # RBNULL /\ t.red[p] /\ ~t.red[t.kid[o][g]]
      /\ g \notin {} /\ p \notin {} /\ b \notin {} /\ t2 = Rotate(t1, g, o)
  BY <1>1, <1>4 DEF Inserting
<1>10. /\ Traded(t, t1, L, p, g) /\ Rotated(t1, t2, g, p, b, t.up[g], o)
       /\ Turned(t, t2, L) /\ Reds(t2, L, {}, {})
       /\ \E bh2 : /\ Blacks(t2, L, {}, bh2) /\ bh2[g] = bh[p] /\ bh2[p] = bh[g]
                   /\ \A q \in Pointers : q # g /\ q # p => bh2[q] = bh[q]
  BY ONLY <1>4, <1>7, <1>8, <1>9, TradeTurn
<1>11. t2.up[c] = p /\ ~t2.red[p] /\ t2.red[c]
  BY <1>1, <1>3, <1>5, <1>10 DEF Rotated, Traded, Repainted
<1> QED
  BY <1>1, <1>3, <1>10, <1>11

\* The red parent and the red uncle of c turn black and the grandparent red.
Recolours(t, L, c, p, u, g, o, bh) ==
    /\ Inserting(t, L, c, bh) /\ p \in L /\ g \in L /\ o \in Sides /\ t.up[c] = p
    /\ t.kid[Other(o)][g] = p /\ t.kid[o][g] = u /\ t.red[p] /\ t.red[u]

\* The turn that only recolours: the red node to look at moves up two.
LEMMA RecolourTurn ==
    ASSUME NEW t, NEW L, NEW c, NEW bh, NEW p, NEW g, NEW o, NEW u,
           Recolours(t, L, c, p, u, g, o, bh), NEW t2, t2 = Lower(t, p, u, g)
    PROVE  /\ Turned(t, t2, L) /\ t2.red[g] /\ Reds(t2, L, {}, {g})
           /\ CountsTo(t2, L, {}, g, bh[c] + 1)
<1>1. Recolours(t, L, c, p, u, g, o, bh)
  OBVIOUS
<1> USE <1>1 DEF Recolours
<1>2. /\ WellLinked(t, L) /\ Shaped(t, L) /\ c \in L /\ L \subseteq Pointers
      /\ RBNULL \notin L /\ p # RBNULL /\ RBNULL \in Pointers /\ t \in Heaps /\ t.red[c]
  BY NodesDistinct DEF Inserting, Shaped, WellLinked, Pointers
<1>3. Other(o) \in Sides /\ Other(o) # o /\ Sides = {o, Other(o)}
  BY SidesAre
<1>4. /\ \A n \in L, r \in Sides : t.red[n] /\ t.red[t.kid[r][n]] => t.kid[r][n] = c
      /\ t.red[t.root] => t.root = c
      /\ ~t.red[RBNULL]
  BY DEF Inserting, Reds
<1>5. /\ u # RBNULL /\ u \in L /\ t.up[u] = g /\ t.up[p] = g /\ p # t.root /\ u # t.root
      /\ p # g /\ u # g
  BY <1>2, <1>3, <1>4, Apart
<1>6. Lowered(t, t2, L, p, u, g)
  <2>1. /\ L \in SUBSET Pointers /\ t \in Heaps /\ p \in L /\ u \in L /\ g \in L /\ p # g /\ u # g
        /\ t2 = Lower(t, p, u, g)
    BY <1>2, <1>5
  <2> QED
    BY ONLY <2>1, LowerIs
<1>7. /\ Repainted(t, t2, L) /\ t2.kid = t.kid /\ t2.up = t.up /\ t2.root = t.root
      /\ ~t2.red[p] /\ ~t2.red[u] /\ t2.red[g]
      /\ \A q \in Pointers : q # p /\ q # u /\ q # g => t2.red[q] = t.red[q]
  BY <1>6 DEF Lowered, Repainted
<1>8. Turned(t, t2, L)
  BY <1>2, <1>7, TurnPaint
<1>9. Blacks(t, L, {}, bh)
  BY DEF Inserting
<1>10. /\ bh \in [Pointers -> Nat] /\ bh[RBNULL] = 1
       /\ \A n \in L, r \in Sides :
             t.kid[r][n] \in Pointers /\ bh[n] = bh[t.kid[r][n]] + Tint(t, n)
  BY <1>2, <1>9, EvenBlacks
<1>11. \A q \in L, r \in Sides : t.kid[r][q] = p \/ t.kid[r][q] = u => q = g
  BY <1>2, <1>5 DEF WellLinked, KidsFit
<1>12. \A q \in L, r \in Sides : t.kid[r][q] = c => q = p
  BY <1>2 DEF WellLinked, KidsFit
<1>13. c # t.root
  <2>1. t.up[t.root] = RBNULL \/ t.root = RBNULL
    BY <1>2 DEF WellLinked, RootFits
  <2> QED
    BY <2>1, <1>2
<1>14. ~t.red[g]
  <2>1. p # c
    BY <1>2, <1>3, <1>5, <1>11, <1>12
  <2> QED
    BY <2>1, <1>3, <1>4
<1>15. Reds(t2, L, {}, {g})
  <2>1. ASSUME NEW q \in L, NEW r \in Sides, t2.red[q], t2.red[t2.kid[r][q]]
        PROVE  t2.kid[r][q] = g
    <3>1. t2.kid[r][q] = t.kid[r][q] /\ t.kid[r][q] \in Pointers
      BY <1>7, <1>10
    <3>2. SUFFICES ASSUME t.kid[r][q] # g PROVE FALSE
      BY <3>1
    <3>3. t.kid[r][q] # p /\ t.kid[r][q] # u /\ q # p /\ q # u
      BY <2>1, <3>1, <1>7
    <3>4. t.red[t.kid[r][q]]
      BY <2>1, <3>1, <3>2, <3>3, <1>7
    <3>5. CASE q = g
      <4>1. t.kid[r][q] \in {p, u}
        BY <3>5, <1>3
      <4> QED
        BY <4>1, <3>3
    <3>6. CASE q # g
      <4>1. t.red[q]
        BY <2>1, <3>3, <3>6, <1>2, <1>7
      <4>2. t.kid[r][q] = c
        BY <4>1, <3>4, <1>4
      <4> QED
        BY <4>2, <3>3, <1>12
    <3> QED
      BY <3>5, <3>6
  <2>2. t2.red[t2.root] => t2.root = g
    <3>1. t.root \in Pointers
      BY <1>2 DEF WellLinked, RootFits, Pointers
    <3> QED
      BY <3>1, <1>4, <1>5, <1>7, <1>13
  <2>3. ~t2.red[RBNULL]
    BY <1>2, <1>4, <1>5, <1>7
  <2> QED
    BY <2>1, <2>2, <2>3 DEF Reds
<1>16. PICK bh2 : bh2 = [q \in Pointers |-> IF q = p \/ q = u THEN bh[q] + 1 ELSE bh[q]]
  OBVIOUS
<1>17. /\ bh2 \in [Pointers -> Nat] /\ bh2[p] = bh[p] + 1 /\ bh2[u] = bh[u] + 1
       /\ \A q \in Pointers : q # p /\ q # u => bh2[q] = bh[q]
  BY <1>2, <1>5, <1>10, <1>16
<1>18. /\ Tint(t2, p) = 1 /\ Tint(t2, u) = 1 /\ Tint(t2, g) = 0
       /\ Tint(t, p) = 0 /\ Tint(t, u) = 0 /\ Tint(t, g) = 1
       /\ \A q \in L \ {p, u, g} : Tint(t2, q) = Tint(t, q)
       /\ \A q \in L : Tint(t, q) \in Nat /\ Tint(t2, q) \in Nat
  BY <1>2, <1>7, <1>14 DEF Tint
<1>19. \A q \in L, r \in Sides : bh2[q] = bh2[t.kid[r][q]] + Tint(t2, q)
  <2> TAKE q \in L, r \in Sides
  <2>1. PICK m : m = t.kid[r][q]
    OBVIOUS
  <2>2. m \in Pointers /\ bh[q] = bh[m] + Tint(t, q) /\ q \in Pointers
    BY <2>1, <1>2, <1>10
  <2>3. bh[q] \in Nat /\ bh[m] \in Nat
    BY <2>2, <1>10
  <2>4. CASE q = g
    <3>1. m \in {p, u} /\ q # p /\ q # u
      BY <2>1, <2>4, <1>3, <1>5
    <3>2. bh2[m] = bh[m] + 1 /\ bh2[q] = bh[q]
      BY <2>2, <3>1, <1>17
    <3>3. bh2[q] = bh2[m] + Tint(t2, q)
      BY ONLY <2>2, <2>3, <2>4, <3>2, <1>18
    <3> QED
      BY <3>3, <2>1
  <2>5. CASE q # g
    <3>1. m # p /\ m # u
      BY <2>1, <2>5, <1>11
    <3>2. bh2[m] = bh[m]
      BY <2>2, <3>1, <1>17
    <3>3. CASE q = p \/ q = u
      <4>1. bh2[q] = bh[q] + 1 /\ Tint(t2, q) = 1 /\ Tint(t, q) = 0
        BY <3>3, <1>17, <1>18
      <4>2. bh2[q] = bh2[m] + Tint(t2, q)
        BY ONLY <2>2, <2>3, <3>2, <4>1
      <4> QED
        BY <4>2, <2>1
    <3>4. CASE q # p /\ q # u
      <4>1. bh2[q] = bh[q] /\ Tint(t2, q) = Tint(t, q)
        BY <2>2, <2>5, <3>4, <1>17, <1>18
      <4> QED
        BY <4>1, <2>1, <2>2, <3>2
    <3> QED
      BY <3>3, <3>4
  <2> QED
    BY <2>4, <2>5
<1>20. Blacks(t2, L, {}, bh2)
  <2>1. ASSUME NEW q \in L, NEW r \in Sides
        PROVE  bh2[q] = bh2[t2.kid[r][q]] + Lack(t2, {}, q, r) + Tint(t2, q)
    <3>1. Lack(t2, {}, q, r) = 0
      BY NoLack
    <3>2. t2.kid[r][q] = t.kid[r][q] /\ bh2[t.kid[r][q]] \in Nat /\ Tint(t2, q) \in Nat
      BY <1>7, <1>10, <1>17, <1>18
    <3>3. bh2[q] = bh2[t.kid[r][q]] + Tint(t2, q)
      BY <1>19
    <3> QED
      BY ONLY <3>1, <3>2, <3>3
  <2>2. bh2[RBNULL] = 1
    BY <1>2, <1>5, <1>10, <1>17
  <2> QED
    BY <2>1, <2>2, <1>17 DEF Blacks
<1>21. bh2[g] = bh[c] + 1
  <2>1. bh2[g] = bh[g] /\ bh[g] = bh[p] + 1
    BY <1>2, <1>3, <1>5, <1>10, <1>17, <1>18
  <2>2. bh[p] = bh[c]
    <3>1. PICK r \in Sides : t.kid[r][p] = c
      BY <1>2, <1>13 DEF WellLinked, UpsFit
    <3>2. bh[p] = bh[c] + Tint(t, p) /\ bh[c] \in Nat
      BY <3>1, <1>2, <1>10
    <3> QED
      BY <3>2, <1>18
  <2> QED
    BY <2>1, <2>2
<1> QED
  BY <1>7, <1>8, <1>15, <1>20, <1>21 DEF CountsTo

\* The end of an insert: the root turns black.
LEMMA InsertStop ==
    ASSUME NEW t, NEW L, NEW c, NEW bh, Inserting(t, L, c, bh), c = t.root \/ ~t.red[t.up[c]],
           NEW t2, t2 = Blacken(t, t.root)
    PROVE  /\ Turned(t, t2, L) /\ Reds(t2, L, {}, {})
           /\ \E bh2 : Blacks(t2, L, {}, bh2)
<1>1. /\ WellLinked(t, L) /\ Shaped(t, L) /\ c \in L /\ L \subseteq Pointers
      /\ RBNULL \notin L /\ RBNULL \in Pointers /\ t \in Heaps /\ t.red[c]
  BY NodesDistinct DEF Inserting, Shaped, WellLinked, Pointers
<1>2. t.root \in L /\ t.root # RBNULL /\ t.up[t.root] = RBNULL
  BY <1>1, RootEmpty DEF WellLinked, RootFits
<1>3. Blackened(t, t2, L, t.root)
  BY <1>1, <1>2, BlackenIs
<1>4. /\ Repainted(t, t2, L) /\ t2.kid = t.kid /\ t2.up = t.up /\ t2.root = t.root
      /\ ~t2.red[t.root] /\ \A q \in Pointers : q # t.root => t2.red[q] = t.red[q]
  BY <1>3 DEF Blackened, Repainted
<1>5. Turned(t, t2, L)
  BY <1>1, <1>4, TurnPaint
<1>6. \A q \in L, r \in Sides : t.kid[r][q] = RBNULL \/ t.up[t.kid[r][q]] = q
  BY <1>1 DEF WellLinked, KidsFit
<1>7. /\ \A n \in L, r \in Sides : t.red[n] /\ t.red[t.kid[r][n]] => t.kid[r][n] = c
      /\ ~t.red[RBNULL]
  BY DEF Inserting, Reds
<1>8. \A q \in L, r \in Sides : t.kid[r][q] # t.root
  BY <1>1, <1>2, <1>6
<1>9. Blacks(t, L, {}, bh)
  BY DEF Inserting
<1>10. /\ bh \in [Pointers -> Nat] /\ bh[RBNULL] = 1
       /\ \A n \in L, r \in Sides :
            t.kid[r][n] \in Pointers /\ bh[n] = bh[t.kid[r][n]] + Tint(t, n)
  BY <1>1, <1>9, EvenBlacks
<1>11. Reds(t2, L, {}, {})
  <2>1. ASSUME NEW q \in L, NEW r \in Sides, t2.red[q], t2.red[t2.kid[r][q]] PROVE FALSE
    <3>1. q # t.root /\ t2.kid[r][q] = t.kid[r][q] /\ t.kid[r][q] \in Pointers
      BY <2>1, <1>4, <1>10
    <3>2. t.red[q] /\ t.red[t.kid[r][q]]
      BY <2>1, <3>1, <1>1, <1>4, <1>8
    <3>3. t.kid[r][q] = c /\ c # RBNULL
      BY <3>2, <1>7
    <3> QED
      BY <3>2, <3>3, <1>6, <1>8
  <2>2. ~t2.red[RBNULL]
    BY <1>1, <1>2, <1>4, <1>7
  <2> QED
    BY <2>1, <2>2, <1>4 DEF Reds
<1>12. PICK d : d = (IF t.red[t.root] THEN 1 ELSE 0)
  OBVIOUS
<1>13. PICK bh2 : bh2 = [q \in Pointers |-> IF q = t.root THEN bh[q] + d ELSE bh[q]]
  OBVIOUS
<1>14. d \in Nat
  BY <1>12
<1>15. /\ bh2 \in [Pointers -> Nat] /\ bh2[t.root] = bh[t.root] + d
       /\ \A q \in Pointers : q # t.root => bh2[q] = bh[q]
  BY <1>1, <1>2, <1>10, <1>13, <1>14
<1>16. ASSUME NEW q \in L, NEW r \in Sides
       PROVE  bh2[q] = bh2[t2.kid[r][q]] + Lack(t2, {}, q, r) + Tint(t2, q)
  <2>1. PICK m : m = t.kid[r][q]
    OBVIOUS
  <2>2. m \in Pointers /\ bh[q] = bh[m] + Tint(t, q) /\ q \in Pointers /\ m # t.root
    BY <2>1, <1>1, <1>8, <1>10
  <2>3. bh[q] \in Nat /\ bh[m] \in Nat /\ bh2[m] = bh[m]
    BY <2>2, <1>10, <1>15
  <2>4. Tint(t2, q) = (IF q = t.root THEN Tint(t, q) + d ELSE Tint(t, q)) /\ Tint(t, q) \in Nat
    BY <2>2, <1>4, <1>12 DEF Tint
  <2>5. bh2[q] = (IF q = t.root THEN bh[q] + d ELSE bh[q])
    BY <2>2, <1>15
  <2>6. Lack(t2, {}, q, r) = 0 /\ t2.kid[r][q] = m
    BY NoLack, <2>1, <1>4
  <2> QED
    BY ONLY <2>2, <2>3, <2>4, <2>5, <2>6, <1>14
<1>17. bh2[RBNULL] = 1
  BY <1>1, <1>2, <1>10, <1>15
<1>18. Blacks(t2, L, {}, bh2)
  BY <1>15, <1>16, <1>17 DEF Blacks
<1> QED
  BY <1>5, <1>11, <1>18

-----------------------------------------------------------------------------
(* The loop of a delete. *)

\* The tree of a delete: below p, on side s, is the black c, where a black node lacks.
Deleting(t, L, c, p, s, o, bh) ==
    /\ Shaped(t, L) /\ c \in L \union {RBNULL} /\ ~t.red[c]
    /\ p \in L /\ t.up[c] = p /\ s \in Sides /\ o = Other(s) /\ s = Other(o) /\ o \in Sides
    /\ t.kid[s][p] = c /\ t.kid[o][p] # c
    /\ Reds(t, L, {}, {}) /\ Blacks(t, L, {c}, bh) /\ bh[c] > 0

\* What follows for w, the sibling of c, and for the counts.
Beside(t, L, c, p, s, o, bh, w) ==
    /\ WellLinked(t, L) /\ L \subseteq Pointers /\ RBNULL \notin L /\ t \in Heaps
    /\ p # RBNULL /\ c # p /\ RBNULL \in Pointers
    /\ w \in L /\ w # c /\ w # p /\ t.up[w] = p /\ w # t.root /\ w # RBNULL
    /\ c # t.root /\ Sides = {s, o} /\ s # o
    /\ bh \in [Pointers -> Nat] /\ bh[RBNULL] = 1
    /\ bh[w] = bh[c] + 1 /\ bh[p] = bh[w] + Tint(t, p) /\ Tint(t, p) \in Nat
    /\ \A q \in L \ {p}, r \in Sides :
          t.kid[r][q] \in Pointers /\ bh[q] = bh[t.kid[r][q]] + Tint(t, q)

\* What Deleting says of the nodes the turn looks at.
LEMMA DeleteFacts ==
    ASSUME NEW t, NEW L, NEW c, NEW p, NEW s, NEW o, NEW bh, Deleting(t, L, c, p, s, o, bh)
    PROVE  Beside(t, L, c, p, s, o, bh, t.kid[o][p])
<1>1. PICK w : w = t.kid[o][p]
  OBVIOUS
<1>2. /\ WellLinked(t, L) /\ L \subseteq Pointers /\ RBNULL \notin L /\ t \in Heaps
      /\ RBNULL \in Pointers /\ p \in L /\ p # RBNULL /\ s \in Sides /\ o = Other(s) /\ o \in Sides
      /\ c \in L \union {RBNULL} /\ t.up[c] = p /\ t.kid[s][p] = c /\ w # c
  BY <1>1, NodesDistinct DEF Deleting, Shaped, WellLinked, Pointers
<1>3. Sides = {s, o} /\ s # o
  BY <1>2, SidesAre
<1>4. c # p
  BY <1>2, Apart
<1>5. c # t.root
  <2>1. CASE c = RBNULL
    BY <2>1, <1>2, RootEmpty
  <2>2. CASE c # RBNULL
    BY <2>2, <1>2, Apart
  <2> QED
    BY <2>1, <2>2
<1>6. \A q, r : Lack(t, {c}, q, r) = IF q = p /\ t.kid[r][p] = c THEN 1 ELSE 0
  BY <1>2 DEF Lack
<1>7. /\ bh \in [Pointers -> Nat] /\ bh[RBNULL] = 1 /\ bh[c] > 0
      /\ \A q \in L, r \in Sides :
           bh[q] = bh[t.kid[r][q]] + Lack(t, {c}, q, r) + Tint(t, q)
  BY DEF Deleting, Blacks
<1>8. Tint(t, p) \in Nat
  BY DEF Tint
<1>9. w \in Pointers /\ c \in Pointers
  BY <1>1, <1>2, KidsArePointers
<1>10. bh[w] = bh[c] + 1 /\ bh[p] = bh[w] + Tint(t, p)
  <2>1. bh[w] \in Nat /\ bh[c] \in Nat
    BY <1>7, <1>9
  <2>2. Lack(t, {c}, p, s) = 1 /\ Lack(t, {c}, p, o) = 0
    BY <1>1, <1>2, <1>6
  <2>3. /\ bh[p] = bh[c] + Lack(t, {c}, p, s) + Tint(t, p)
        /\ bh[p] = bh[w] + Lack(t, {c}, p, o) + Tint(t, p)
    BY <1>1, <1>2, <1>7
  <2>4. bh[p] = bh[c] + 1 + Tint(t, p) /\ bh[p] = bh[w] + Tint(t, p)
    BY ONLY <2>1, <2>2, <2>3, <1>8
  <2> QED
    BY ONLY <2>1, <2>4, <1>8
<1>11. w # RBNULL
  <2>1. bh[c] \in Nat
    BY <1>7, <1>9
  <2> QED
    BY ONLY <2>1, <1>7, <1>10
<1>12. w \in L /\ w # p /\ t.up[w] = p /\ w # t.root
  BY <1>1, <1>2, <1>11, Apart
<1>13. ASSUME NEW q \in L \ {p}, NEW r \in Sides
       PROVE  t.kid[r][q] \in Pointers /\ bh[q] = bh[t.kid[r][q]] + Tint(t, q)
  <2>1. t.kid[r][q] \in Pointers
    BY <1>2, KidsArePointers
  <2>2. Lack(t, {c}, q, r) = 0
    BY <1>6
  <2>3. bh[q] = bh[t.kid[r][q]] + Lack(t, {c}, q, r) + Tint(t, q)
    BY <1>7
  <2>4. bh[t.kid[r][q]] \in Nat /\ Tint(t, q) \in Nat
    BY <2>1, <1>7 DEF Tint
  <2> QED
    BY ONLY <2>1, <2>2, <2>3, <2>4
<1> QED
  BY <1>1, <1>2, <1>3, <1>4, <1>5, <1>7, <1>8, <1>10, <1>11, <1>12, <1>13 DEF Beside

\* The children of the sibling of c.
LEMMA Nephews ==
    ASSUME NEW t, NEW L, NEW c, NEW p, NEW s, NEW o, NEW bh, Deleting(t, L, c, p, s, o, bh),
           NEW w, w = t.kid[o][p], NEW r \in Sides, NEW m, m = t.kid[r][w]
    PROVE  /\ m \in Pointers /\ m # p /\ m # w /\ (m # RBNULL => m \in L /\ t.up[m] = w)
           /\ bh[m] \in Nat /\ bh[w] = bh[m] + Tint(t, w)
           /\ t.red[w] => ~t.red[m] /\ m # RBNULL /\ m # c
           /\ t.red[m] => m # c /\ m # RBNULL
<1>1. /\ WellLinked(t, L) /\ L \subseteq Pointers /\ RBNULL \notin L /\ p # RBNULL
      /\ w \in L /\ w # p /\ t.up[w] = p /\ w # RBNULL
      /\ bh \in [Pointers -> Nat] /\ bh[RBNULL] = 1 /\ bh[w] = bh[c] + 1
      /\ \A q \in L \ {p}, i \in Sides :
            t.kid[i][q] \in Pointers /\ bh[q] = bh[t.kid[i][q]] + Tint(t, q)
  BY DeleteFacts DEF Beside
<1>2. /\ c \in L \union {RBNULL} /\ ~t.red[c] /\ t.up[c] = p /\ bh[c] > 0 /\ o \in Sides
      /\ p \in L
  BY DEF Deleting
<1>3. m \in Pointers /\ bh[m] \in Nat /\ bh[w] = bh[m] + Tint(t, w)
  BY <1>1
<1>4. m # p /\ m # w /\ (m # RBNULL => m \in L /\ t.up[m] = w)
  <2>1. CASE m = RBNULL
    BY <2>1, <1>1
  <2>2. CASE m # RBNULL
    BY <2>2, <1>1, <1>2, Apart
  <2> QED
    BY <2>1, <2>2
<1>5. t.red[w] => ~t.red[m] /\ m # RBNULL /\ m # c
  <2>1. SUFFICES ASSUME t.red[w] PROVE ~t.red[m] /\ m # RBNULL /\ m # c
    OBVIOUS
  <2>2. ~t.red[m]
    BY <2>1, <1>1 DEF Deleting, Reds
  <2>3. Tint(t, w) = 0
    BY <2>1 DEF Tint
  <2>4. bh[c] \in Nat
    BY <1>1, <1>2 DEF Pointers
  <2>5. bh[m] = bh[c] + 1
    BY ONLY <2>3, <2>4, <1>1, <1>3
  <2> QED
    BY <2>2, <2>4, <2>5, <1>1, <1>2
<1>6. t.red[m] => m # c /\ m # RBNULL
  BY <1>2 DEF Deleting, Reds
<1> QED
  BY <1>3, <1>4, <1>5, <1>6

\* A red sibling turns black and goes up, a black nephew becomes the sibling.
LEMMA RedSibling ==
    ASSUME NEW t, NEW L, NEW c, NEW p, NEW s, NEW o, NEW bh, Deleting(t, L, c, p, s, o, bh),
           NEW w, w = t.kid[o][p], t.red[w],
           NEW t2, t2 = Rotate(Trade(t, w, p), p, s)
    PROVE  /\ Turned(t, t2, L) /\ ~t2.red[t2.kid[o][p]]
           /\ \E bh2 : Deleting(t2, L, c, p, s, o, bh2) /\ bh2[c] = bh[c]
<1>1. /\ WellLinked(t, L) /\ p # RBNULL /\ c # p /\ w \in L /\ w # c /\ w # p /\ t.up[w] = p
      /\ w # t.root /\ w # RBNULL /\ L \subseteq Pointers /\ RBNULL \notin L /\ Sides = {s, o}
      /\ s # o /\ RBNULL \in Pointers
      /\ bh \in [Pointers -> Nat]
  BY DeleteFacts DEF Beside
<1>2. /\ Shaped(t, L) /\ c \in L \union {RBNULL} /\ ~t.red[c] /\ p \in L /\ t.up[c] = p
      /\ s \in Sides /\ o = Other(s) /\ s = Other(o) /\ o \in Sides
      /\ t.kid[s][p] = c /\ Reds(t, L, {}, {}) /\ Blacks(t, L, {c}, bh) /\ bh[c] > 0
  BY DEF Deleting
<1>3. PICK b, t1 : b = t.kid[s][w] /\ t1 = Trade(t, w, p)
  OBVIOUS
<1>4. /\ b # p /\ b # w /\ b \in L /\ t.up[b] = w /\ b # RBNULL /\ ~t.red[b] /\ b # c
  BY <1>1, <1>2, <1>3, Nephews
<1>5. ~t.red[p]
  BY <1>2 DEF Reds
<1>6. CalmBut(t, L, w)
  BY <1>2 DEF Reds, CalmBut
<1>7. /\ Shaped(t, L) /\ Blacks(t, L, {c}, bh) /\ p \in L /\ s \in Sides
      /\ w = t.kid[Other(s)][p] /\ w # RBNULL /\ ~t.red[p] /\ t.red[w] /\ ~t.red[b]
      /\ ~t.red[t.kid[s][p]] /\ p \notin {c} /\ w \notin {c}
      /\ b \in {c} => b = RBNULL /\ t.up[b] # p /\ t.up[b] # w
      /\ t2 = Rotate(t1, p, s)
  BY Zenon, <1>1, <1>2, <1>3, <1>4, <1>5
<1>8. /\ Traded(t, t1, L, w, p) /\ Rotated(t1, t2, p, w, b, t.up[p], s)
      /\ Turned(t, t2, L) /\ Reds(t2, L, {}, {})
      /\ \E bh2 : /\ Blacks(t2, L, {c}, bh2) /\ bh2[p] = bh[w] /\ bh2[w] = bh[p]
                  /\ \A q \in Pointers : q # p /\ q # w => bh2[q] = bh[q]
  BY ONLY <1>3, <1>6, <1>7, TradeTurn
<1>9. /\ t1.kid = t.kid /\ t1.up = t.up
      /\ \A q \in Pointers : q # w /\ q # p => t1.red[q] = t.red[q]
  BY <1>8 DEF Traded, Repainted
<1>10. c \in Pointers /\ b \in Pointers /\ p \in Pointers
  BY <1>1, <1>2, <1>4
<1>11. t2.up[c] = p /\ ~t2.red[c] /\ ~t2.red[b]
  <2>1. t2.red = t1.red
    BY <1>8 DEF Rotated
  <2>2. ~t1.red[c] /\ ~t1.red[b]
    BY <1>1, <1>2, <1>4, <1>9, <1>10
  <2>3. t2.up[c] = t1.up[c]
    BY ONLY <1>1, <1>4, <1>8, <1>10 DEF Rotated
  <2> QED
    BY <2>1, <2>2, <2>3, <1>2, <1>9
<1>12. t2.kid[s][p] = c /\ t2.kid[o][p] = b
  BY ONLY <1>1, <1>2, <1>8, <1>9, <1>10 DEF Rotated
<1>13. PICK bh2 : /\ Blacks(t2, L, {c}, bh2)
                  /\ \A q \in Pointers : q # p /\ q # w => bh2[q] = bh[q]
  BY <1>8
<1>14. bh2[c] = bh[c]
  BY <1>1, <1>10, <1>13
<1>15. Deleting(t2, L, c, p, s, o, bh2)
  BY <1>2, <1>4, <1>8, <1>11, <1>12, <1>13, <1>14 DEF Deleting, Turned
<1> QED
  BY <1>8, <1>11, <1>12, <1>14, <1>15

\* The far child of the black sibling w is black, the near child m is red.
OnlyNearRed(t, L, c, p, s, o, bh, w, m) ==
    /\ Deleting(t, L, c, p, s, o, bh) /\ w = t.kid[o][p] /\ ~t.red[w]
    /\ m = t.kid[s][w] /\ t.red[m] /\ ~t.red[t.kid[o][w]]

\* A red near nephew turns black and becomes the sibling, with a red child on the far side.
LEMMA NearRed ==
    ASSUME NEW t, NEW L, NEW c, NEW p, NEW s, NEW o, NEW bh, NEW w, NEW m,
           OnlyNearRed(t, L, c, p, s, o, bh, w, m), NEW t2, t2 = Rotate(Trade(t, m, w), w, o)
    PROVE  /\ Turned(t, t2, L) /\ ~t2.red[t2.kid[o][p]] /\ t2.red[t2.kid[o][t2.kid[o][p]]]
           /\ t2.red[p] = t.red[p]
           /\ \E bh2 : Deleting(t2, L, c, p, s, o, bh2) /\ bh2[c] = bh[c]
<1>1. /\ Deleting(t, L, c, p, s, o, bh) /\ w = t.kid[o][p] /\ ~t.red[w]
      /\ m = t.kid[s][w] /\ t.red[m] /\ ~t.red[t.kid[o][w]]
  BY Zenon DEF OnlyNearRed
<1> USE <1>1
<1>2. /\ WellLinked(t, L) /\ p # RBNULL /\ c # p /\ w \in L /\ w # c /\ w # p /\ t.up[w] = p
      /\ w # t.root /\ w # RBNULL /\ L \subseteq Pointers /\ RBNULL \notin L /\ Sides = {s, o}
      /\ s # o /\ RBNULL \in Pointers
      /\ bh \in [Pointers -> Nat]
  BY DeleteFacts DEF Beside
<1>3. /\ Shaped(t, L) /\ c \in L \union {RBNULL} /\ ~t.red[c] /\ p \in L /\ t.up[c] = p
      /\ s \in Sides /\ o = Other(s) /\ s = Other(o) /\ o \in Sides
      /\ t.kid[s][p] = c /\ Reds(t, L, {}, {}) /\ Blacks(t, L, {c}, bh) /\ bh[c] > 0
  BY Zenon DEF Deleting
<1>4. PICK b, t1 : b = t.kid[o][m] /\ t1 = Trade(t, m, w)
  OBVIOUS
<1>5. m # p /\ m # w /\ m \in L /\ t.up[m] = w /\ m # RBNULL /\ m # c
  BY ONLY <1>1, <1>3, Nephews
<1>6. ~t.red[b]
  BY Zenon, <1>3, <1>4, <1>5 DEF Reds
<1>7. b # RBNULL => t.up[b] = m
  BY ONLY <1>2, <1>3, <1>4, <1>5 DEF WellLinked, KidsFit
<1>8. CalmBut(t, L, m)
  BY ONLY <1>3 DEF Reds, CalmBut
<1>9. /\ Shaped(t, L) /\ Blacks(t, L, {c}, bh) /\ w \in L /\ o \in Sides
      /\ m = t.kid[Other(o)][w] /\ m # RBNULL /\ ~t.red[w] /\ t.red[m] /\ ~t.red[b]
      /\ ~t.red[t.kid[o][w]] /\ w \notin {c} /\ m \notin {c}
      /\ b \in {c} => b = RBNULL /\ t.up[b] # w /\ t.up[b] # m
      /\ t2 = Rotate(t1, w, o)
  BY Zenon, <1>2, <1>3, <1>4, <1>5, <1>6, <1>7
<1>10. /\ Traded(t, t1, L, m, w) /\ Rotated(t1, t2, w, m, b, t.up[w], o)
       /\ Turned(t, t2, L) /\ Reds(t2, L, {}, {})
       /\ \E bh2 : /\ Blacks(t2, L, {c}, bh2) /\ bh2[w] = bh[m] /\ bh2[m] = bh[w]
                   /\ \A q \in Pointers : q # w /\ q # m => bh2[q] = bh[q]
  BY ONLY <1>4, <1>8, <1>9, TradeTurn
<1>11. /\ t1.kid = t.kid /\ t1.up = t.up /\ ~t1.red[m] /\ t1.red[w]
       /\ \A q \in Pointers : q # w /\ q # m => t1.red[q] = t.red[q]
  BY ONLY <1>10 DEF Traded, Repainted
<1>12. c \in Pointers /\ p \in Pointers /\ m \in Pointers /\ w \in Pointers
  BY ONLY <1>2, <1>3, <1>5
<1>13. t2.red = t1.red
  BY ONLY <1>10 DEF Rotated
<1>14. ~t2.red[c] /\ ~t2.red[m] /\ t2.red[w] /\ t2.red[p] = t.red[p]
  <2>1. ~t1.red[c]
    BY ONLY <1>2, <1>3, <1>5, <1>11, <1>12
  <2>2. t1.red[p] = t.red[p]
    BY <1>2, <1>5, <1>11, <1>12
  <2> QED
    BY ONLY <2>1, <2>2, <1>11, <1>13
<1>15. /\ \A q \in Pointers :
             t2.up[q] = IF q = w THEN m ELSE IF q = m THEN p
                        ELSE IF b # RBNULL /\ q = b THEN w ELSE t.up[q]
       /\ \A r \in Sides, q \in Pointers :
             t2.kid[r][q] = IF q = w /\ r = s THEN b
                            ELSE IF q = m /\ r = o THEN w
                            ELSE IF q = p /\ t.kid[r][p] = w THEN m
                            ELSE t.kid[r][q]
  <2>1. Rotated(t1, t2, w, m, b, p, o)
    BY <1>2, <1>10
  <2>2. /\ \A q \in Pointers :
             t2.up[q] = IF q = w THEN m ELSE IF q = m THEN p
                        ELSE IF b # RBNULL /\ q = b THEN w ELSE t1.up[q]
        /\ \A r \in Sides, q \in Pointers :
             t2.kid[r][q] = IF q = w /\ r = Other(o) THEN b
                            ELSE IF q = m /\ r = o THEN w
                            ELSE IF p # RBNULL /\ q = p /\ t1.kid[r][p] = w THEN m
                            ELSE t1.kid[r][q]
    BY ONLY <2>1 DEF Rotated
  <2>3. s = Other(o) /\ p # RBNULL /\ t1.kid = t.kid /\ t1.up = t.up
    BY <1>2, <1>3, <1>11
  <2> QED
    BY ONLY <2>2, <2>3
<1>16. t2.up[c] = p
  <2>1. b = RBNULL \/ c # b
    BY ONLY <1>3, <1>5, <1>7
  <2>2. c # w /\ c # m /\ t.up[c] = p /\ c \in Pointers
    BY <1>2, <1>3, <1>5, <1>12
  <2> QED
    BY ONLY <2>1, <2>2, <1>15
<1>17. t2.kid[s][p] = c /\ t2.kid[o][p] = m /\ t2.kid[o][m] = w
  <2>1. /\ c # w /\ p # w /\ p # m /\ m # w /\ s # o /\ p \in Pointers /\ m \in Pointers
        /\ t.kid[s][p] = c /\ t.kid[o][p] = w /\ s \in Sides /\ o \in Sides
    BY Zenon, <1>2, <1>3, <1>5, <1>12
  <2> QED
    BY ONLY <2>1, <1>15
<1>18. PICK bh2 : /\ Blacks(t2, L, {c}, bh2)
                  /\ \A q \in Pointers : q # w /\ q # m => bh2[q] = bh[q]
  BY ONLY <1>10
<1>19. bh2[c] = bh[c]
  BY ONLY <1>2, <1>5, <1>12, <1>18
<1>20. Deleting(t2, L, c, p, s, o, bh2)
  BY ONLY <1>3, <1>5, <1>10, <1>14, <1>16, <1>18, <1>19, <1>17 DEF Deleting, Turned
<1>21. ~t2.red[t2.kid[o][p]] /\ t2.red[t2.kid[o][t2.kid[o][p]]]
  BY ONLY <1>14, <1>17
<1> QED
  BY <1>10, <1>14, <1>19, <1>20, <1>21

\* A red far nephew: the last turn, after which no black node lacks.
LEMMA FarRed ==
    ASSUME NEW t, NEW L, NEW c, NEW p, NEW s, NEW o, NEW bh, Deleting(t, L, c, p, s, o, bh),
           NEW w, w = t.kid[o][p], ~t.red[w], NEW f, f = t.kid[o][w], t.red[f],
           NEW t2, t2 = Rotate(Hand(t, w, p, f), p, s)
    PROVE  /\ Turned(t, t2, L) /\ Reds(t2, L, {}, {})
           /\ \E bh2 : Blacks(t2, L, {}, bh2) /\ bh2[p] = bh[c] + 1
<1>1. /\ WellLinked(t, L) /\ p # RBNULL /\ c # p /\ w \in L /\ w # c /\ w # p /\ t.up[w] = p
      /\ w # t.root /\ w # RBNULL /\ L \subseteq Pointers /\ RBNULL \notin L /\ Sides = {s, o}
      /\ s # o /\ RBNULL \in Pointers /\ t \in Heaps
      /\ bh \in [Pointers -> Nat] /\ bh[RBNULL] = 1
      /\ bh[w] = bh[c] + 1 /\ bh[p] = bh[w] + Tint(t, p) /\ Tint(t, p) \in Nat
      /\ \A q \in L \ {p}, r \in Sides :
            t.kid[r][q] \in Pointers /\ bh[q] = bh[t.kid[r][q]] + Tint(t, q)
  BY DeleteFacts DEF Beside
<1>2. /\ Shaped(t, L) /\ c \in L \union {RBNULL} /\ ~t.red[c] /\ p \in L /\ t.up[c] = p
      /\ s \in Sides /\ o = Other(s) /\ s = Other(o) /\ o \in Sides
      /\ t.kid[s][p] = c /\ Reds(t, L, {}, {}) /\ Blacks(t, L, {c}, bh) /\ bh[c] > 0
  BY DEF Deleting
<1>3. PICK b, t1 : b = t.kid[s][w] /\ t1 = Hand(t, w, p, f)
  OBVIOUS
<1>4. /\ f \in Pointers /\ f # p /\ f # w /\ f \in L /\ t.up[f] = w /\ f # c /\ f # RBNULL
      /\ bh[w] = bh[f] + Tint(t, w)
  BY <1>2, Nephews
<1>5. b \in Pointers /\ b # p /\ b # w /\ bh[w] = bh[b] + Tint(t, w)
  BY <1>2, <1>3, Nephews
<1>6. b # f
  <2>1. t.kid["left"][w] = t.kid["right"][w] => t.kid["left"][w] = RBNULL
    BY <1>1 DEF WellLinked, KidsFit
  <2> QED
    BY Zenon, <2>1, <1>2, <1>3, <1>4 DEF Sides, Other
<1>7. c \in Pointers /\ p \in Pointers /\ w \in Pointers
  BY <1>1, <1>2
<1>8. /\ bh[c] \in Nat /\ bh[w] \in Nat /\ bh[p] \in Nat /\ bh[f] \in Nat /\ bh[b] \in Nat
      /\ bh[f] = bh[c] /\ bh[b] = bh[c] /\ bh[w] = bh[c] + 1 /\ bh[p] = bh[w] + Tint(t, p)
  <2>1. Tint(t, w) = 1
    BY DEF Tint
  <2>2. /\ bh[c] \in Nat /\ bh[w] \in Nat /\ bh[p] \in Nat /\ bh[f] \in Nat /\ bh[b] \in Nat
    BY <1>1, <1>4, <1>5, <1>7
  <2> QED
    BY ONLY <2>1, <2>2, <1>1, <1>4, <1>5
<1>9. Handed(t, t1, L, w, p, f)
  <2>1. /\ L \in SUBSET Pointers /\ t \in Heaps /\ w \in L /\ p \in L /\ f \in L
        /\ w # p /\ w # f /\ t1 = Hand(t, w, p, f)
    BY <1>1, <1>2, <1>3, <1>4
  <2> QED
    BY ONLY <2>1, HandIs
<1>10. /\ Repainted(t, t1, L) /\ t1.kid = t.kid /\ t1.up = t.up /\ t1.root = t.root
       /\ t1.red[w] = t.red[p] /\ ~t1.red[p] /\ ~t1.red[f]
       /\ \A q \in Pointers : q # w /\ q # p /\ q # f => t1.red[q] = t.red[q]
  BY <1>9 DEF Handed, Repainted
<1>11. Turned(t, t1, L)
  BY <1>2, <1>10, TurnPaint
<1>12. WellLinked(t1, L) /\ Shaped(t1, L)
  BY Zenon, <1>11 DEF Turned, Shaped
<1>13. /\ w = t1.kid[Other(s)][p] /\ b = t1.kid[s][w] /\ t2 = Rotate(t1, p, s)
       /\ c = t1.kid[s][p] /\ f = t1.kid[Other(s)][w]
  BY Zenon, <1>2, <1>3, <1>10
<1>14. Turned(t, t2, L)
  <2>1. Turned(t1, t2, L)
    BY ONLY <1>1, <1>2, <1>12, <1>13, TurnRotate
  <2> QED
    BY <2>1, <1>11, TurnTrans
<1>15. PICK bh2 :
         bh2 = [q \in Pointers |-> IF q = p THEN bh[w] ELSE IF q = w THEN bh[p]
                                   ELSE IF q = f THEN bh[f] + 1 ELSE bh[q]]
  OBVIOUS
<1>16. /\ bh2 \in [Pointers -> Nat] /\ bh2[p] = bh[w] /\ bh2[w] = bh[p] /\ bh2[f] = bh[f] + 1
       /\ \A q \in Pointers : q # p /\ q # w /\ q # f => bh2[q] = bh[q]
  BY ONLY <1>1, <1>4, <1>7, <1>8, <1>15
<1>17. bh2[c] = bh[c] /\ bh2[b] = bh[c] /\ bh2[RBNULL] = 1
  BY <1>1, <1>4, <1>5, <1>6, <1>7, <1>8, <1>16
<1>18. /\ Tint(t1, w) = Tint(t, p) /\ Tint(t1, p) = 1 /\ Tint(t1, f) = 1 /\ Tint(t, f) = 0
       /\ \A q \in L \ {p, w, f} : Tint(t1, q) = Tint(t, q)
       /\ \A q : Tint(t1, q) \in Nat /\ Tint(t, q) \in Nat
  BY <1>1, <1>10 DEF Tint
<1>19. \A q \in L, r \in Sides :
          /\ t.kid[r][q] = w => q = p
          /\ t.kid[r][q] = f => q = w
  BY <1>1, <1>4 DEF WellLinked, KidsFit
<1>20. FitsAbove(t1, L, {}, bh2, p, w)
  <2> SUFFICES ASSUME NEW q \in L \ {p, w}, NEW r \in Sides
               PROVE  IF t1.kid[r][q] = p THEN bh2[q] = bh2[w] + Tint(t1, q)
                      ELSE bh2[q] = bh2[t1.kid[r][q]] + Lack(t1, {}, q, r) + Tint(t1, q)
    BY <1>16, <1>17 DEF FitsAbove
  <2>1. PICK m : m = t.kid[r][q]
    OBVIOUS
  <2>2. /\ t1.kid[r][q] = m /\ m \in Pointers /\ q \in Pointers /\ m # w /\ m # f
        /\ bh[q] = bh[m] + Tint(t, q)
    BY <2>1, <1>1, <1>10, <1>19
  <2>3. Lack(t1, {}, q, r) = 0
    BY NoLack
  <2>4. bh[q] \in Nat /\ bh[m] \in Nat
    BY <2>2, <1>1
  <2>5. CASE m = p
    <3>1. q # f
      <4>1. SUFFICES ASSUME q = f PROVE FALSE
        OBVIOUS
      <4>2. bh[f] = bh[p]
        BY ONLY <4>1, <2>2, <2>4, <2>5, <1>18
      <4> QED
        BY ONLY <4>2, <1>1, <1>8
    <3>2. bh2[q] = bh[q] /\ Tint(t1, q) = Tint(t, q)
      BY <3>1, <2>2, <1>16, <1>18
    <3> QED
      BY <3>2, <2>2, <2>5, <1>16
  <2>6. CASE m # p
    <3>1. bh2[m] = bh[m]
      BY <2>2, <2>6, <1>16
    <3>2. CASE q = f
      <4>1. bh2[q] = bh2[m] + Lack(t1, {}, q, r) + Tint(t1, q)
        BY ONLY <3>1, <3>2, <2>2, <2>3, <2>4, <1>16, <1>18
      <4> QED
        BY <4>1, <2>2, <2>6
    <3>3. CASE q # f
      <4>1. bh2[q] = bh[q] /\ Tint(t1, q) = Tint(t, q)
        BY <3>3, <2>2, <1>16, <1>18
      <4>2. bh2[q] = bh2[m] + Lack(t1, {}, q, r) + Tint(t1, q)
        BY ONLY <4>1, <3>1, <2>2, <2>3, <2>4, <1>18
      <4> QED
        BY <4>2, <2>2, <2>6
    <3> QED
      BY <3>2, <3>3
  <2> QED
    BY <2>5, <2>6
<1>21. Blacks(t2, L, {}, bh2)
  <2>1. Lack(t1, {}, p, s) = 0 /\ Lack(t1, {}, w, Other(s)) = 0
    BY NoLack
  <2>2. bh2[p] = bh2[t1.kid[s][p]] + Lack(t1, {}, p, s) + Tint(t1, p)
    BY ONLY <2>1, <1>8, <1>13, <1>16, <1>17, <1>18
  <2>3. bh2[p] = bh2[b] + Tint(t1, p)
    BY ONLY <1>8, <1>16, <1>17, <1>18
  <2>4. bh2[w] = bh2[p] + Tint(t1, w)
    BY ONLY <1>8, <1>16, <1>18
  <2>5. bh2[w] = bh2[t1.kid[Other(s)][w]] + Lack(t1, {}, w, Other(s)) + Tint(t1, w)
    BY ONLY <2>1, <1>8, <1>13, <1>16, <1>18
  <2>6. WellLinked(t1, L) /\ p \in L /\ s \in Sides /\ w # RBNULL /\ b \notin {}
    BY <1>1, <1>2, <1>12
  <2> QED
    BY ONLY <2>2, <2>3, <2>4, <2>5, <2>6, <1>13, <1>20, RotateBlacks
<1>22. Reds(t2, L, {}, {})
  <2>1. /\ \A q \in L, r \in Sides : ~(t.red[q] /\ t.red[t.kid[r][q]])
        /\ ~t.red[t.root] /\ ~t.red[RBNULL]
    BY <1>2 DEF Reds
  <2>2. CalmAbove(t1, L, {}, {}, p, w)
    <3>1. ~t1.red[RBNULL]
      BY <2>1, <1>1, <1>4, <1>10
    <3>2. ~t1.red[IF t1.root = p THEN w ELSE t1.root]
      <4>1. t.root \in Pointers
        BY <1>1 DEF WellLinked, RootFits, Pointers
      <4>2. CASE t.root = p
        BY <4>2, <2>1, <1>10
      <4>3. CASE t.root # p
        BY <4>1, <4>3, <2>1, <1>1, <1>10
      <4> QED
        BY <4>2, <4>3
    <3>3. ASSUME NEW q \in L \ {p, w}, NEW r \in Sides
          PROVE  IF t1.kid[r][q] = p THEN ~(t1.red[q] /\ t1.red[w])
                 ELSE ~(t1.red[q] /\ t1.red[t1.kid[r][q]])
      <4>1. /\ t1.kid[r][q] = t.kid[r][q] /\ t.kid[r][q] \in Pointers /\ q \in Pointers
            /\ t.kid[r][q] # w /\ t.kid[r][q] # f
        BY <1>1, <1>10, <1>19
      <4>2. SUFFICES ASSUME t1.red[q]
                     PROVE  IF t1.kid[r][q] = p THEN ~t1.red[w] ELSE ~t1.red[t1.kid[r][q]]
        OBVIOUS
      <4>3. t.red[q]
        BY <4>1, <4>2, <1>10
      <4>4. CASE t.kid[r][q] = p
        BY <4>1, <4>3, <4>4, <2>1, <1>10
      <4>5. CASE t.kid[r][q] # p
        BY <4>1, <4>3, <4>5, <2>1, <1>10
      <4> QED
        BY <4>4, <4>5
    <3> QED
      BY <3>1, <3>2, <3>3 DEF CalmAbove
  <2>3. ~t1.red[p] /\ ~t1.red[t1.kid[Other(s)][w]]
    BY <1>10, <1>13
  <2>4. WellLinked(t1, L) /\ p \in L /\ s \in Sides /\ w # RBNULL
    BY <1>1, <1>2, <1>12
  <2> QED
    BY ONLY <2>2, <2>3, <2>4, <1>13, RotateReds
<1>23. bh2[p] = bh[c] + 1
  BY <1>8, <1>16
<1> QED
  BY <1>14, <1>21, <1>22, <1>23

\* Both children of n are black.
NoRedKid(t, n) == \A r \in Sides : ~t.red[t.kid[r][n]]

\* Both children of the black sibling w are black.
NoneRed(t, L, c, p, s, o, bh, w) ==
    Deleting(t, L, c, p, s, o, bh) /\ w = t.kid[o][p] /\ ~t.red[w] /\ NoRedKid(t, w)

\* Both nephews black: the sibling turns red and the lack moves up.
LEMMA BothBlack ==
    ASSUME NEW t, NEW L, NEW c, NEW p, NEW s, NEW o, NEW bh, NEW w,
           NoneRed(t, L, c, p, s, o, bh, w), NEW t2, t2 = Redden(t, w)
    PROVE  /\ Turned(t, t2, L) /\ Reds(t2, L, {p}, {p}) /\ (t.red[p] => t2.red[p])
           /\ CountsTo(t2, L, {p}, p, bh[c] + Tint(t, p))
<1>1. Deleting(t, L, c, p, s, o, bh) /\ w = t.kid[o][p] /\ ~t.red[w] /\ NoRedKid(t, w)
  BY DEF NoneRed
<1> USE <1>1
<1>2. /\ WellLinked(t, L) /\ p # RBNULL /\ c # p /\ w \in L /\ w # c /\ w # p /\ t.up[w] = p
      /\ w # t.root /\ w # RBNULL /\ L \subseteq Pointers /\ RBNULL \notin L /\ Sides = {s, o}
      /\ s # o /\ RBNULL \in Pointers /\ t \in Heaps
      /\ bh \in [Pointers -> Nat] /\ bh[RBNULL] = 1
      /\ bh[w] = bh[c] + 1 /\ bh[p] = bh[w] + Tint(t, p) /\ Tint(t, p) \in Nat
      /\ \A q \in L \ {p}, r \in Sides :
            t.kid[r][q] \in Pointers /\ bh[q] = bh[t.kid[r][q]] + Tint(t, q)
  BY DeleteFacts DEF Beside
<1>3. /\ Shaped(t, L) /\ c \in L \union {RBNULL} /\ ~t.red[c] /\ p \in L /\ t.up[c] = p
      /\ s \in Sides /\ o \in Sides /\ t.kid[s][p] = c
      /\ Reds(t, L, {}, {}) /\ bh[c] > 0
  BY DEF Deleting
<1>4. MadeRed(t, t2, L, w)
  <2>1. L \in SUBSET Pointers /\ t \in Heaps /\ w \in L /\ t2 = Redden(t, w)
    BY <1>2
  <2> QED
    BY ONLY <2>1, ReddenIs
<1>5. /\ Repainted(t, t2, L) /\ t2.kid = t.kid /\ t2.up = t.up /\ t2.root = t.root
      /\ t2.red[w] /\ \A q \in Pointers : q # w => t2.red[q] = t.red[q]
  BY <1>4 DEF MadeRed, Repainted
<1>6. Turned(t, t2, L)
  BY <1>3, <1>5, TurnPaint
<1>7. c \in Pointers /\ p \in Pointers /\ w \in Pointers
  BY <1>2, <1>3
<1>8. \A q \in L, r \in Sides :
         /\ t.kid[r][q] = w => q = p
         /\ t.kid[r][q] \in Pointers
  BY <1>2, KidsArePointers DEF WellLinked, KidsFit
<1>9. Reds(t2, L, {p}, {p})
  <2>1. /\ \A q \in L, r \in Sides : ~(t.red[q] /\ t.red[t.kid[r][q]])
        /\ ~t.red[t.root] /\ ~t.red[RBNULL]
    BY <1>3 DEF Reds
  <2>2. ASSUME NEW q \in L, NEW r \in Sides, t2.red[q], t2.red[t2.kid[r][q]] PROVE q = p
    <3>1. SUFFICES ASSUME q # p PROVE FALSE
      OBVIOUS
    <3>2. t2.kid[r][q] = t.kid[r][q] /\ t.kid[r][q] # w /\ t.kid[r][q] \in Pointers
      BY <3>1, <1>5, <1>8
    <3>3. t.red[t.kid[r][q]]
      BY <3>2, <2>2, <1>5
    <3>4. q # w
      BY <3>3 DEF NoRedKid
    <3>5. t.red[q]
      BY <3>4, <2>2, <1>2, <1>5
    <3> QED
      BY <3>3, <3>5, <2>1
  <2>3. ~t2.red[t2.root] /\ ~t2.red[RBNULL]
    <3>1. t.root \in Pointers
      BY <1>2 DEF WellLinked, RootFits, Pointers
    <3> QED
      BY <3>1, <2>1, <1>2, <1>5
  <2> QED
    BY <2>2, <2>3 DEF Reds
<1>10. /\ bh[c] \in Nat /\ bh[w] \in Nat /\ bh[p] \in Nat
       /\ bh[w] - 1 = bh[c] /\ bh[p] - 1 = bh[c] + Tint(t, p)
       /\ bh[w] - 1 \in Nat /\ bh[p] - 1 \in Nat
  <2>1. /\ bh[c] \in Nat /\ bh[w] \in Nat /\ bh[p] \in Nat
    BY <1>2, <1>7
  <2> QED
    BY ONLY <2>1, <1>2
<1>11. PICK bh2 :
         bh2 = [q \in Pointers |-> IF q = p \/ q = w THEN bh[q] - 1 ELSE bh[q]]
  OBVIOUS
<1>12. /\ bh2 \in [Pointers -> Nat] /\ bh2[p] = bh[p] - 1 /\ bh2[w] = bh[w] - 1
       /\ \A q \in Pointers : q # p /\ q # w => bh2[q] = bh[q]
  BY <1>2, <1>7, <1>10, <1>11
<1>13. /\ Tint(t2, w) = 0 /\ Tint(t, w) = 1
       /\ \A q \in L : q # w => Tint(t2, q) = Tint(t, q)
       /\ \A q : Tint(t2, q) \in Nat /\ Tint(t, q) \in Nat
  BY <1>2, <1>5 DEF Tint
<1>14. ASSUME NEW q \in L, NEW r \in Sides
       PROVE  bh2[q] = bh2[t2.kid[r][q]] + Lack(t2, {p}, q, r) + Tint(t2, q)
  <2>1. PICK m : m = t.kid[r][q]
    OBVIOUS
  <2>2. t2.kid[r][q] = m /\ m \in Pointers /\ q \in Pointers
    BY <2>1, <1>2, <1>5, <1>8
  <2>3. Lack(t2, {p}, q, r) = IF m = p THEN 1 ELSE 0
    <3>1. m = p => t.up[p] = q
      <4>1. t.kid[r][q] # RBNULL => t.up[t.kid[r][q]] = q
        BY <1>2 DEF WellLinked, KidsFit
      <4> QED
        BY ONLY <4>1, <2>1, <1>2
    <3> QED
      BY <3>1, <2>2, <1>5 DEF Lack
  <2>4. bh[q] \in Nat /\ bh[m] \in Nat
    BY <2>2, <1>2
  <2>5. CASE q = p
    <3>1. m \in {c, w} /\ m # p
      BY <2>1, <2>5, <1>2, <1>3
    <3>2. bh2[m] = bh[c]
      BY <3>1, <1>2, <1>7, <1>10, <1>12
    <3>3. Tint(t2, p) = Tint(t, p)
      BY <1>2, <1>3, <1>13
    <3>4. bh2[q] = bh2[m] + Lack(t2, {p}, q, r) + Tint(t2, q)
      BY ONLY <3>1, <3>2, <3>3, <2>3, <2>5, <1>10, <1>12, <1>13
    <3> QED
      BY <3>4, <2>2
  <2>6. CASE q = w
    <3>1. m # p /\ m # w /\ bh[q] = bh[m] + Tint(t, q)
      BY <2>1, <2>6, Nephews
    <3>2. bh2[m] = bh[m]
      BY <3>1, <2>2, <1>12
    <3>3. bh2[q] = bh2[m] + Lack(t2, {p}, q, r) + Tint(t2, q)
      BY ONLY <3>1, <3>2, <2>3, <2>4, <2>6, <1>10, <1>12, <1>13
    <3> QED
      BY <3>3, <2>2
  <2>7. CASE q # p /\ q # w
    <3>1. m # w /\ bh[q] = bh[m] + Tint(t, q)
      BY <2>1, <2>7, <1>2, <1>8
    <3>2. bh2[q] = bh[q] /\ Tint(t2, q) = Tint(t, q)
      BY <2>2, <2>7, <1>12, <1>13
    <3>3. bh2[m] = IF m = p THEN bh[m] - 1 ELSE bh[m]
      BY <3>1, <2>2, <1>12
    <3>4. bh2[q] = bh2[m] + Lack(t2, {p}, q, r) + Tint(t2, q)
      BY ONLY <3>1, <3>2, <3>3, <2>3, <2>4, <1>13
    <3> QED
      BY <3>4, <2>2
  <2> QED
    BY <2>5, <2>6, <2>7
<1>15. bh2[RBNULL] = 1
  BY <1>2, <1>12
<1>16. Blacks(t2, L, {p}, bh2)
  BY <1>12, <1>14, <1>15 DEF Blacks
<1>17. bh2[p] = bh[c] + Tint(t, p) /\ t2.red[p] = t.red[p]
  BY <1>2, <1>5, <1>7, <1>10, <1>12
<1> QED
  BY <1>6, <1>9, <1>16, <1>17 DEF CountsTo
=============================================================================
