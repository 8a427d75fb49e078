---------------------------- MODULE MCRedBlack ----------------------------
EXTENDS RedBlack, TLC
CONSTANTS MaxKey, n1, n2, n3, n4, n5, n6, n7, n8
MCNodes == {n1, n2, n3, n4, n5, n6, n7, n8}
MCKeys == 1..MaxKey
\* States that differ only in which memory holds which key, or in the last answer,
\* which no step reads, are one.
Shape ==
    LET name(n) == IF n \in used THEN h.key[n] ELSE IF n \in Nodes THEN None ELSE n
        tree[n \in Pointers] ==
            IF n = RBNULL THEN <<>>
            ELSE <<h.key[n], h.red[n], name(h.up[n]),
                   tree[h.kid["left"][n]], tree[h.kid["right"][n]]>>
    IN <<tree[h.root], Cardinality(used), pc, name(x), name(h.up[RBNULL]), h.red[RBNULL],
         h.red[y], turns, IF nextp = Closed THEN Closed ELSE name(nextp)>>
===========================================================================
