----------------------------- MODULE OrderedMap -----------------------------
(***************************************************************************)
(* What a tree of redblack.c promises its callers: a set of keys with one  *)
(* entry per key, answers computed from the set alone, and a list that is  *)
(* read in ascending order.  The shape of the tree does not appear here.   *)
(* An answer holds the keys a call returned or visited, in order.          *)
(***************************************************************************)
EXTENDS Integers, SequencesExt

CONSTANTS Keys, None, Closed

VARIABLES
    keys,   \* the keys the tree holds
    next,   \* what the open list returns next: a key, None, or Closed
    ret     \* the last answer

mvars == <<keys, next, ret>>

Least(S)    == {k \in S : \A j \in S : k <= j}
Greatest(S) == {k \in S : \A j \in S : j <= k}
\* An answer of at most one key.
One(S) == IF S = {} THEN <<>> ELSE <<CHOOSE k \in S : TRUE>>
Answer(op, k, got) == [op |-> op, key |-> k, got |-> got]
Answers(op, k, got) == ret'.op = op /\ ret'.key = k /\ ret'.got = got
FirstOf(S)  == IF S = {} THEN None ELSE CHOOSE k \in Least(S) : TRUE

Modes == {"equal", "gteq", "lteq", "great", "less", "next", "prev", "first", "last"}

\* The at most one key that a mode of redblack.h asks for.
Matching(S, mode, k) ==
    CASE mode = "equal" -> S \intersect {k}
      [] mode = "gteq"  -> Least({j \in S : j >= k})
      [] mode = "lteq"  -> Greatest({j \in S : j <= k})
      [] mode = "great" -> Least({j \in S : j > k})
      [] mode = "less"  -> Greatest({j \in S : j < k})
      [] mode = "next"  -> IF k \in S THEN Least({j \in S : j > k}) ELSE {}
      [] mode = "prev"  -> IF k \in S THEN Greatest({j \in S : j < k}) ELSE {}
      [] mode = "first" -> Least(S)
      [] mode = "last"  -> Greatest(S)

MapInit == keys = {} /\ next = Closed /\ ret = Answer("none", None, <<>>)

\* The key is in the map afterwards, or there was no memory for it.
Put(k) ==
    /\ \/ Answers("search", k, <<k>>) /\ keys' = keys \union {k}
       \/ Answers("search", k, <<>>) /\ k \notin keys /\ keys' = keys
    /\ UNCHANGED next

Get(k) ==
    /\ Answers("find", k, One(Matching(keys, "equal", k)))
    /\ UNCHANGED <<keys, next>>

Match(mode, k) ==
    /\ Answers(mode, k, One(Matching(keys, mode, k)))
    /\ UNCHANGED <<keys, next>>

Take(k) ==
    /\ Answers("delete", k, One(Matching(keys, "equal", k)))
    /\ keys' = keys \ {k}
    /\ UNCHANGED next

\* Every key is visited once.
Visit ==
    /\ ret'.op = "walk"
    /\ ToSet(ret'.got) = keys
    /\ \A i, j \in DOMAIN ret'.got : ret'.got[i] = ret'.got[j] => i = j
    /\ UNCHANGED <<keys, next>>

Open == next' = FirstOf(keys) /\ UNCHANGED <<keys, ret>>

Read ==
    /\ Answers("readlist", None, IF next = None THEN <<>> ELSE <<next>>)
    /\ next # Closed
    /\ next' = IF next = None THEN None ELSE FirstOf({k \in keys : k > next})
    /\ UNCHANGED keys

Close == next' = Closed /\ UNCHANGED <<keys, ret>>

Clear == keys' = {} /\ UNCHANGED <<next, ret>>

MapNext ==
    \/ \E k \in Keys : Put(k) \/ Get(k) \/ Take(k)
    \/ \E k \in Keys, mode \in Modes : Match(mode, k)
    \/ Visit \/ Open \/ Read \/ Close \/ Clear

MapSpec == MapInit /\ [][MapNext]_mvars
=============================================================================
