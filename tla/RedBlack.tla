------------------------------ MODULE RedBlack ------------------------------
(***************************************************************************)
(* thridpart/inotify/redblack.c: the balanced trees that hold the inotify  *)
(* watches, by watch descriptor and by name.  The heap is modelled: nodes  *)
(* with pointers, the sentinel RBNULL shared by all trees, allocation and  *)
(* release.  A descent is one step; each turn of the two repair loops is a *)
(* step of its own, so that what holds between two turns can be stated.    *)
(***************************************************************************)
EXTENDS Integers, FiniteSets, SequencesExt

CONSTANTS
    Keys,     \* what the comparison routine orders
    Nodes,    \* memory for nodes
    RBNULL,   \* the sentinel: top and bottom of every tree, black
    Foreign,  \* a node of another tree
    None,     \* no key
    Closed    \* no open list

ASSUME KeysAreIntegers == Keys \subseteq Int
ASSUME NodesDistinct == RBNULL \notin Nodes /\ Foreign \notin Nodes /\ RBNULL # Foreign
ASSUME MarksDistinct == None \notin Keys /\ Closed \notin Keys \union Nodes \union {None, RBNULL}

VARIABLES
    h,        \* the heap: root, kid[side][node], up, red, key
    used,     \* nodes allocated and not freed
    pc,       \* "idle", or the repair loop that runs
    x,        \* the node the loop looks at
    y,        \* in a delete: the node that is freed at its end
    turns,    \* turns of the loop so far
    nextp,    \* RBLIST: the node read next
    ret       \* the answer of the last call

vars == <<h, used, pc, x, y, turns, nextp, ret>>

Pointers == Nodes \union {RBNULL}
Sides    == {"left", "right"}
Other(s) == IF s = "left" THEN "right" ELSE "left"

\* The tree is used by one thread, and its one user of a list makes no other call
\* on the tree while the list is open: _delete may free the node read next.
Ready == pc = "idle" /\ nextp = Closed

Answer(op, k, got) == [op |-> op, key |-> k, got |-> got]
KeyOf(n) == IF n = RBNULL THEN <<>> ELSE <<h.key[n]>>

TypeOK ==
    /\ h.root \in Pointers
    /\ \A s \in Sides : h.kid[s] \in [Pointers -> Pointers]
    /\ h.up \in [Pointers -> Pointers \union {Foreign}]
    /\ h.red \in [Pointers -> BOOLEAN]
    /\ used \in SUBSET Nodes
    /\ h.key \in [Nodes -> Keys \union {None}] /\ \A n \in used : h.key[n] \in Keys
    /\ pc \in {"idle", "insert", "delete"}
    /\ x \in Pointers /\ y \in Pointers
    /\ turns \in Nat
    /\ nextp \in Pointers \union {Closed}

-----------------------------------------------------------------------------
(* Pointers. *)

WithKid(t, s, n, m) == [t EXCEPT !.kid[s][n] = m]
WithUp(t, n, p)     == [t EXCEPT !.up[n] = p]
Adopted(t, p, s, n) == WithUp(WithKid(t, s, p, n), n, p)

\* x->up->left or x->up->right, whichever is n, becomes m; the root if there is none.
Replace(t, p, n, m) ==
    IF p = RBNULL THEN [t EXCEPT !.root = m]
    ELSE LET s == IF t.kid["left"][p] = n THEN "left" ELSE "right"
         IN WithKid(t, s, p, m)

\* The subtree that changes sides in a rotation gets its new parent.
BugParentForgotten(t, b, n) == t
Linked(t, b, n) == IF b = RBNULL THEN t ELSE WithUp(t, b, n)

\* m takes the place of its parent n, which becomes m's child on side s.
Raise(t, m, n, s) ==
    LET b == t.kid[s][m]
        p == t.up[n]
        moved == WithUp(Linked(WithKid(t, Other(s), n, b), b, n), m, p)
    IN  Adopted(Replace(moved, p, n, m), m, s, n)

\* rb_left_rotate for side "left", rb_right_rotate for side "right".
Rotate(t, n, s) == Raise(t, t.kid[Other(s)][n], n, s)

\* The last node on one side below n.
Extreme(t, n, s) ==
    LET walk[m \in Pointers] == IF t.kid[s][m] = RBNULL THEN m ELSE walk[t.kid[s][m]]
    IN walk[n]

BugNoClimb(t, n, s) ==
    IF t.kid[s][n] # RBNULL THEN Extreme(t, t.kid[s][n], Other(s)) ELSE t.up[n]

\* The next node on side s: _successor for "right", _predecessor for "left".
Neighbour(t, n, s) ==
    LET climb[m \in Nodes] ==
            IF t.up[m] # RBNULL /\ t.kid[s][t.up[m]] = m THEN climb[t.up[m]] ELSE t.up[m]
    IN IF t.kid[s][n] # RBNULL THEN Extreme(t, t.kid[s][n], Other(s)) ELSE climb[n]

\* The descent of _traverse and _lookup: x, where it stopped, and y, the node before.
Descend(t, k) ==
    LET walk[n \in Nodes] ==
            LET m == t.kid[IF k < t.key[n] THEN "left" ELSE "right"][n]
            IN  IF k = t.key[n] THEN [x |-> n, y |-> n]
                ELSE IF m = RBNULL THEN [x |-> RBNULL, y |-> n] ELSE walk[m]
    IN IF t.root = RBNULL THEN [x |-> RBNULL, y |-> RBNULL] ELSE walk[t.root]

Lookup(t, mode, k) ==
    LET d == Descend(t, k)
        found == d.x # RBNULL
        greater == k > t.key[d.y]
    IN  CASE mode = "first" -> Extreme(t, t.root, "left")
          [] mode = "last"  -> Extreme(t, t.root, "right")
          [] found /\ mode \in {"equal", "gteq", "lteq"} -> d.x
          [] ~found /\ mode \in {"equal", "next", "prev"} -> RBNULL
          [] ~found /\ mode \in {"gteq", "great"} ->
                 IF greater THEN Neighbour(t, d.y, "right") ELSE d.y
          [] ~found /\ mode \in {"lteq", "less"} ->
                 IF greater THEN d.y ELSE Neighbour(t, d.y, "left")
          [] found /\ mode \in {"next", "great"} -> Neighbour(t, d.x, "right")
          [] found /\ mode \in {"prev", "less"} -> Neighbour(t, d.x, "left")

\* What the callers' action does at a visit: it acts on the last one of a node.
Acts(k, visit) == IF visit \in {"endorder", "leaf"} THEN <<k>> ELSE <<>>

\* The keys the action acts on, in the order of the calls _walk makes of it.
Visits(t) ==
    LET walk[n \in Pointers] ==
            LET k == t.key[n]
                l == t.kid["left"][n]
                r == t.kid["right"][n]
            IN  IF n = RBNULL THEN <<>>
                ELSE IF l = RBNULL /\ r = RBNULL THEN Acts(k, "leaf")
                ELSE Acts(k, "preorder") \o walk[l] \o Acts(k, "postorder")
                     \o walk[r] \o Acts(k, "endorder")
    IN walk[t.root]

-----------------------------------------------------------------------------
(* rbsearch, rbfind, rbdelete and the repair loops. *)

\* A new node, red and without children.
BugKeyNotSet(t, n, p, k) == [t EXCEPT !.up[n] = p, !.red[n] = TRUE]
NewNode(t, n, p, k) ==
    [t EXCEPT !.key[n] = k, !.up[n] = p, !.red[n] = TRUE,
              !.kid["left"][n] = RBNULL, !.kid["right"][n] = RBNULL]

\* It takes the place where the descent ended.
Inserted(t, n, p, k) ==
    LET s == IF k < t.key[p] THEN "left" ELSE "right"
    IN IF p = RBNULL THEN [NewNode(t, n, p, k) EXCEPT !.root = n]
       ELSE [NewNode(t, n, p, k) EXCEPT !.kid[s][p] = n]

BugOneTurn == x # h.root /\ h.red[h.up[x]] /\ turns = 0
InsertGoesOn == x # h.root /\ h.red[h.up[x]]

InsertTurn ==
    LET p == h.up[x]
        g == h.up[p]
        s == IF p = h.kid["left"][g] THEN "left" ELSE "right"
        uncle == h.kid[Other(s)][g]
        inner == x = h.kid[Other(s)][p]
        h1 == IF inner THEN Rotate(h, p, s) ELSE h
        x1 == IF inner THEN p ELSE x
        p1 == h1.up[x1]
        g1 == h1.up[p1]
    IN  /\ pc = "insert" /\ InsertGoesOn
        /\ IF h.red[uncle]
           THEN /\ h' = [h EXCEPT !.red[p] = FALSE, !.red[uncle] = FALSE, !.red[g] = TRUE]
                /\ x' = g
           ELSE /\ h' = Rotate([h1 EXCEPT !.red[p1] = FALSE, !.red[g1] = TRUE], g1, Other(s))
                /\ x' = x1
        /\ turns' = turns + 1
        /\ UNCHANGED <<used, pc, y, nextp, ret>>

InsertEnd ==
    /\ pc = "insert" /\ ~InsertGoesOn
    /\ h' = [h EXCEPT !.red[h.root] = FALSE]
    /\ pc' = "idle" /\ x' = RBNULL /\ turns' = 0
    /\ UNCHANGED <<used, y, nextp, ret>>

rbsearch(k) ==
    LET d == Descend(h, k)
    IN  /\ Ready
        /\ \/ /\ d.x # RBNULL
              /\ ret' = Answer("search", k, <<h.key[d.x]>>)
              /\ UNCHANGED <<h, used, pc, x>>
           \/ \E n \in Nodes \ used :
              /\ d.x = RBNULL
              /\ used' = used \union {n}
              /\ h' = Inserted(h, n, d.y, k)
              /\ pc' = "insert" /\ x' = n
              /\ ret' = Answer("search", k, <<k>>)
           \/ /\ d.x = RBNULL   \* no memory
              /\ ret' = Answer("search", k, <<>>)
              /\ UNCHANGED <<h, used, pc, x>>
        /\ UNCHANGED <<y, turns, nextp>>

rbfind(k) ==
    /\ Ready
    /\ ret' = Answer("find", k, KeyOf(Descend(h, k).x))
    /\ UNCHANGED <<h, used, pc, x, y, turns, nextp>>

\* _delete up to the repair: v leaves the tree, its child c moves up, z keeps v's key.
Unlink(t, z, v) ==
    LET c == IF t.kid["left"][v] # RBNULL THEN t.kid["left"][v] ELSE t.kid["right"][v]
        t1 == Replace([t EXCEPT !.up[c] = t.up[v]], t.up[v], v, c)
    IN [tree |-> [t1 EXCEPT !.key[z] = t.key[v]], child |-> c]

\* The node that leaves: z, or its successor when z has two children.
BugUnlinksFound(t, z) == z
Victim(t, z) ==
    IF t.kid["left"][z] = RBNULL \/ t.kid["right"][z] = RBNULL THEN z
    ELSE Neighbour(t, z, "right")

rbdelete(k) ==
    LET z == Descend(h, k).x
        v == Victim(h, z)
        u == Unlink(h, z, v)
    IN  /\ Ready
        /\ ret' = Answer("delete", k, KeyOf(z))
        /\ IF z = RBNULL THEN UNCHANGED <<h, pc, x, y>>
           ELSE h' = u.tree /\ pc' = "delete" /\ x' = u.child /\ y' = v
        /\ UNCHANGED <<used, turns, nextp>>

\* After the turn that restores the counts the loop is left through the root.
BugLoopNotLeft(t) == x
AfterLastTurn(t) == t.root

BugRepairsAfterRed == h.red[y] /\ x # h.root /\ ~h.red[x]
DeleteGoesOn == ~h.red[y] /\ x # h.root /\ ~h.red[x]

\* x->up is read again after each rotation: x may be the sentinel.
DeleteTurn ==
    LET p == h.up[x]
        s == IF x = h.kid["left"][p] THEN "left" ELSE "right"
        w0 == h.kid[Other(s)][p]
        h1 == IF h.red[w0]
              THEN Rotate([h EXCEPT !.red[w0] = FALSE, !.red[p] = TRUE], p, s) ELSE h
        w == h1.kid[Other(s)][h1.up[x]]
        near == h1.kid[s][w]
        h2 == IF ~h1.red[h1.kid[Other(s)][w]]
              THEN Rotate([h1 EXCEPT !.red[near] = FALSE, !.red[w] = TRUE], w, Other(s)) ELSE h1
        p2 == h2.up[x]
        v == h2.kid[Other(s)][p2]
        far == h2.kid[Other(s)][v]
    IN  /\ pc = "delete" /\ DeleteGoesOn
        /\ IF ~h1.red[h1.kid["left"][w]] /\ ~h1.red[h1.kid["right"][w]]
           THEN h' = [h1 EXCEPT !.red[w] = TRUE] /\ x' = h1.up[x]
           ELSE /\ h' = Rotate([h2 EXCEPT !.red[v] = h2.red[p2], !.red[p2] = FALSE,
                                          !.red[far] = FALSE], p2, s)
                /\ x' = AfterLastTurn(h')
        /\ turns' = turns + 1
        /\ UNCHANGED <<used, pc, y, nextp, ret>>

Blank(t, S) ==
    [t EXCEPT !.key = [n \in Nodes |-> IF n \in S THEN None ELSE @[n]],
              !.up  = [n \in Pointers |-> IF n \in S THEN RBNULL ELSE @[n]],
              !.red = [n \in Pointers |-> IF n \in S THEN FALSE ELSE @[n]],
              !.kid = [s \in Sides |-> [n \in Pointers |->
                          IF n \in S THEN RBNULL ELSE @[s][n]]]]

\* The end of _delete_fix, if it ran, and the release of the node.
DeleteEnd ==
    /\ pc = "delete" /\ ~DeleteGoesOn
    /\ h' = Blank(IF h.red[y] THEN h ELSE [h EXCEPT !.red[x] = FALSE], {y})
    /\ used' = used \ {y}
    /\ pc' = "idle" /\ x' = RBNULL /\ y' = RBNULL /\ turns' = 0
    /\ UNCHANGED <<nextp, ret>>

-----------------------------------------------------------------------------
(* rblookup, rbwalk, the list and rbdestroy. *)

Modes == {"equal", "gteq", "lteq", "great", "less", "next", "prev", "first", "last"}

\* On an empty tree the modes that compare would use a result never computed.
rblookup(mode, k) ==
    /\ Ready
    /\ h.root = RBNULL => mode \in {"equal", "next", "prev", "first", "last"}
    /\ ret' = Answer(mode, k, KeyOf(Lookup(h, mode, k)))
    /\ UNCHANGED <<h, used, pc, x, y, turns, nextp>>

rbwalk ==
    /\ Ready
    /\ ret' = Answer("walk", None, Visits(h))
    /\ UNCHANGED <<h, used, pc, x, y, turns, nextp>>

rbopenlist ==
    /\ Ready
    /\ nextp' = Extreme(h, h.root, "left")
    /\ UNCHANGED <<h, used, pc, x, y, turns, ret>>

rbreadlist ==
    /\ pc = "idle" /\ nextp # Closed
    /\ ret' = Answer("readlist", None, KeyOf(nextp))
    /\ nextp' = IF nextp = RBNULL THEN RBNULL ELSE Neighbour(h, nextp, "right")
    /\ UNCHANGED <<h, used, pc, x, y, turns>>

rbcloselist ==
    /\ pc = "idle" /\ nextp # Closed
    /\ nextp' = Closed
    /\ UNCHANGED <<h, used, pc, x, y, turns, ret>>

\* The nodes _destroy comes to.
Reached ==
    LET below[n \in Pointers] ==
            IF n = RBNULL THEN {}
            ELSE {n} \union below[h.kid["left"][n]] \union below[h.kid["right"][n]]
    IN below[h.root]

\* _destroy frees what it reaches; the next rbinit starts with no root.
rbdestroy ==
    /\ Ready
    /\ h' = [Blank(h, Reached) EXCEPT !.root = RBNULL]
    /\ used' = used \ Reached
    /\ UNCHANGED <<pc, x, y, turns, nextp, ret>>

\* A call on another tree leaves one of its nodes in the sentinel's up pointer.
OtherTree ==
    /\ pc = "idle"
    /\ h' = [h EXCEPT !.up[RBNULL] = Foreign]
    /\ UNCHANGED <<used, pc, x, y, turns, nextp, ret>>

Init ==
    /\ h = [root |-> RBNULL,
            kid  |-> [s \in Sides |-> [n \in Pointers |-> RBNULL]],
            up   |-> [n \in Pointers |-> RBNULL],
            red  |-> [n \in Pointers |-> FALSE],
            key  |-> [n \in Nodes |-> None]]
    /\ used = {}
    /\ pc = "idle" /\ x = RBNULL /\ y = RBNULL /\ turns = 0
    /\ nextp = Closed
    /\ ret = Answer("none", None, <<>>)

Next ==
    \/ \E k \in Keys : rbsearch(k) \/ rbfind(k) \/ rbdelete(k)
    \/ \E k \in Keys, mode \in Modes : rblookup(mode, k)
    \/ InsertTurn \/ InsertEnd \/ DeleteTurn \/ DeleteEnd
    \/ rbwalk \/ rbopenlist \/ rbreadlist \/ rbcloselist \/ rbdestroy
    \/ OtherTree

Spec == Init /\ [][Next]_vars
-----------------------------------------------------------------------------
(* Properties. *)

\* _check and _check1: the root has no parent and a child points back to its
\* parent, in every turn of the loops too: both loops climb by these pointers.
LinksAgree ==
    /\ h.root # RBNULL => h.up[h.root] = RBNULL
    /\ \A n \in Reached, s \in Sides : h.kid[s][n] # RBNULL => h.up[h.kid[s][n]] = n

\* Every node allocated is in the tree, or is the one a delete is about to free:
\* nothing leaks and nothing freed stays linked.
Accounted == used = Reached \union (IF pc = "delete" THEN {y} ELSE {})
             /\ (pc = "delete" => y \notin Reached)

\* Property 3 of the comment at the head of redblack.c.  Between two turns it may
\* fail at x alone: a red x under a red parent, or a red root.
RedHasBlackChildren ==
    /\ \A n \in Reached, s \in Sides :
           h.red[n] /\ h.red[h.kid[s][n]] =>
               \/ pc = "insert" /\ h.kid[s][n] = x
               \/ pc = "delete" /\ x \in {n, h.kid[s][n]}
    /\ h.red[h.root] => pc # "idle" /\ x = h.root
    /\ ~h.red[RBNULL]

\* The black nodes on every path below n; the node a delete repairs counts one more.
CountBlack ==
    LET extra(n, s) == IF pc = "delete" /\ ~h.red[y] /\ h.kid[s][n] = x /\ h.up[x] = n
                       THEN 1 ELSE 0
        count[n \in Pointers] ==
            IF n = RBNULL THEN 1
            ELSE LET l == count[h.kid["left"][n]]
                     r == count[h.kid["right"][n]]
                 IN  IF l = -1 \/ r = -1 \/ l + extra(n, "left") # r + extra(n, "right")
                     THEN -1
                     ELSE l + extra(n, "left") + IF h.red[n] THEN 0 ELSE 1
    IN count[h.root]

\* Property 4 of the same comment, count_black: no two paths from a node differ.
BlackCountsEqual == CountBlack # -1

\* The loops go up one black level a turn: neither runs longer than the tree is high.
TurnsBounded == turns <= CountBlack

\* The map the callers see: the keys of the nodes that are reached, and the key read next.
Held  == {h.key[n] : n \in Reached}
Ahead == IF nextp = Closed THEN Closed ELSE IF nextp = RBNULL THEN None ELSE h.key[nextp]
Map   == INSTANCE OrderedMap WITH keys <- Held, next <- Ahead

\* Whatever the shape, rbsearch, rbfind, rbdelete, rblookup, rbwalk and the list
\* answer as an ordered map does, and no turn of a loop adds or loses a key.
AnswersAsMap == Map!MapSpec
=============================================================================
