----------------------------- MODULE SplayCache -----------------------------
(***************************************************************************)
(* One cache_set of libclamav/cache.c: a splay tree whose nodes are also   *)
(* threaded on a replacement chain.  Every operation runs under the lock   *)
(* of its tree, so each is one action; the trees do not share nodes.       *)
(***************************************************************************)
EXTENDS Integers, FiniteSets, Sequences

CONSTANTS Keys,    \* hashes, a set of positive integers ordered by cmp()
          Levels,  \* recursion levels
          NODES    \* nodes of the tree

Null  == 0
Stack == NODES + 1         \* the local node "next" of splay()
Node  == 1..NODES
Sides == {"left", "right"}

ASSUME CacheAssumption == Keys \subseteq Nat \ {0} /\ Levels \subseteq Nat /\ NODES \in Nat \ {0}

VARIABLES kid,     \* kid[side][n]: the left and right pointers
          up, next, prev,
          key, minrec,
          root, first, last,
          answer   \* <<k, level>> after a look-up that found k clean at that level

vars == <<kid, up, next, prev, key, minrec, root, first, last, answer>>

Init ==
  /\ kid = [s \in Sides |-> [n \in Node |-> Null]]
  /\ up = [n \in Node |-> Null]
  /\ next = [n \in Node |-> IF n = NODES THEN Null ELSE n + 1]
  /\ prev = [n \in Node |-> n - 1]
  /\ key = [n \in Node |-> 0]
  /\ minrec = [n \in Node |-> 0]
  /\ root = Null
  /\ first = 1
  /\ last = NODES
  /\ answer = <<>>

(* x->field = v under "if(x)" *)
Put(f, x, v) == IF x = Null THEN f ELSE [f EXCEPT ![x] = v]
-----------------------------------------------------------------------------
(* splay().  The working copy t holds the pointers with the local node, the *)
(* current root, and for each side the node under which the next subtree is *)
(* hung: hang["left"] is the variable "right" of the code, whose left link  *)
(* is extended, and hang["right"] the variable "left".                      *)

Across(s) == IF s = "left" THEN "right" ELSE "left"
Way(k, n) == IF k < key[n] THEN "left" ELSE "right"

Start ==
  [kid  |-> [s \in Sides |-> [n \in Node \cup {Stack} |-> IF n = Stack THEN Null ELSE kid[s][n]]],
   up   |-> [n \in Node \cup {Stack} |-> IF n = Stack THEN Null ELSE up[n]],
   root |-> root,
   hang |-> [s \in Sides |-> Stack]]

Rotate(t, s) ==
  LET c == t.kid[s][t.root]
      m == t.kid[Across(s)][c]
  IN  [t EXCEPT !.kid[s][t.root] = m,
                !.kid[Across(s)][c] = t.root,
                !.up = Put([t.up EXCEPT ![t.root] = c], m, t.root),
                !.root = c]

Hang(t, s) ==
  [t EXCEPT !.kid[s][t.hang[s]] = t.root,
            !.up[t.root] = t.hang[s],
            !.hang[s] = t.root,
            !.root = t.kid[s][t.root]]

RECURSIVE Descend(_, _)
Descend(t, k) ==
  IF k = key[t.root] THEN t
  ELSE LET s == Way(k, t.root)
           c == t.kid[s][t.root]
       IN  IF c = Null THEN t
           ELSE LET r == IF k # key[c] /\ Way(k, c) = s THEN Rotate(t, s) ELSE t
                IN  IF r.kid[s][r.root] = Null THEN r ELSE Descend(Hang(r, s), k)

(* The subtrees of the new root go under the hanging nodes, and what hangs  *)
(* from the local node becomes its two subtrees.                            *)
Assemble(t) ==
  LET k1 == [s \in Sides |-> [t.kid[s] EXCEPT ![t.hang[s]] = t.kid[Across(s)][t.root]]]
      u1 == Put(Put(t.up, t.kid["left"][t.root], t.hang["right"]), t.kid["right"][t.root], t.hang["left"])
      k2 == [s \in Sides |-> [k1[s] EXCEPT ![t.root] = k1[Across(s)][Stack]]]
      u2 == Put(Put(u1, k1["right"][Stack], t.root), k1["left"][Stack], t.root)
  IN  [kid  |-> [s \in Sides |-> [n \in Node |-> k2[s][n]]],
       up   |-> [n \in Node |-> IF n = t.root THEN Null ELSE u2[n]],
       root |-> t.root]

Splay(k) ==
  IF root = Null THEN [kid |-> kid, up |-> up, root |-> Null] ELSE Assemble(Descend(Start, k))

Found(t, k) == t.root # Null /\ key[t.root] = k
-----------------------------------------------------------------------------
(* Mutant: the promoted node keeps its successor.                           *)
PromoteKeepsNext(p) ==
  LET o == prev[p]
      q == next[p]
  IN  IF q = Null THEN UNCHANGED <<next, prev, first, last>>
      ELSE /\ next' = [Put(next, o, q) EXCEPT ![last] = p]
           /\ prev' = [[prev EXCEPT ![q] = o] EXCEPT ![p] = last]
           /\ first' = IF o = Null THEN q ELSE first
           /\ last' = p

(* The chain after the node p is moved to its end; nothing to do when p has *)
(* no successor.                                                            *)
Promote(p) ==
  LET o == prev[p]
      q == next[p]
      n1 == Put(next, o, q)
      p1 == [prev EXCEPT ![q] = o]
  IN  IF q = Null THEN UNCHANGED <<next, prev, first, last>>
      ELSE /\ next' = [[n1 EXCEPT ![last] = p] EXCEPT ![p] = Null]
           /\ prev' = [p1 EXCEPT ![p] = last]
           /\ first' = IF o = Null THEN q ELSE first
           /\ last' = p

(* Mutant: the level of the entry is not compared.                          *)
LookupAnyLevel(t, k, level) ==
  /\ kid' = t.kid /\ up' = t.up /\ root' = t.root
  /\ IF Found(t, k)
     THEN Promote(t.root) /\ answer' = <<k, level>>
     ELSE answer' = <<>> /\ UNCHANGED <<next, prev, first, last>>
  /\ UNCHANGED <<key, minrec>>

Lookup(t, k, level) ==
  /\ kid' = t.kid /\ up' = t.up /\ root' = t.root
  /\ IF Found(t, k)
     THEN /\ Promote(t.root)
          /\ answer' = IF level >= minrec[t.root] THEN <<k, level>> ELSE <<>>
     ELSE /\ answer' = <<>>
          /\ UNCHANGED <<next, prev, first, last>>
  /\ UNCHANGED <<key, minrec>>

(* Nodes met from n along the chain, in order; the walk of cacheset_add     *)
(* stops at the first without subtrees.  It is cut after a lap, where the   *)
(* code would never stop.                                                   *)
RECURSIVE Walk(_, _)
Walk(n, fuel) == IF n = Null \/ fuel = 0 THEN <<>> ELSE <<n>> \o Walk(next[n], fuel - 1)

Chain == Walk(first, NODES + 1)

Leaf(t, n) == \A s \in Sides : t.kid[s][n] = Null

(* The node that cacheset_add takes, the first leaf of the chain, or Null.  *)
Victim(t) ==
  LET chain  == Chain
      leaves == {i \in DOMAIN chain : Leaf(t, chain[i])}
  IN  IF leaves = {} THEN Null ELSE chain[CHOOSE i \in leaves : \A j \in leaves : i <= j]

AddPresent(t, k, level) ==
  /\ Found(t, k)
  /\ kid' = t.kid /\ up' = t.up /\ root' = t.root
  /\ minrec' = [minrec EXCEPT ![t.root] = IF @ > level THEN level ELSE @]
  /\ answer' = <<>>
  /\ UNCHANGED <<key, next, prev, first, last>>

AddNoLeaf(t, k) ==
  /\ ~Found(t, k)
  /\ Victim(t) = Null
  /\ kid' = t.kid /\ up' = t.up /\ root' = t.root
  /\ answer' = <<>>
  /\ UNCHANGED <<key, minrec, next, prev, first, last>>

(* Out of the chain, then behind its last node.                             *)
Relink(v) ==
  LET n1 == Put(next, prev[v], next[v])
      p1 == Put(prev, next[v], prev[v])
  IN  /\ next' = [[n1 EXCEPT ![v] = Null] EXCEPT ![last] = v]
      /\ prev' = [p1 EXCEPT ![v] = last]
      /\ first' = IF first = v THEN next[v] ELSE first
      /\ last' = v

(* The tree t without the leaf v.                                           *)
Detach(t, v) ==
  LET s == IF t.up[v] # Null /\ t.kid["left"][t.up[v]] = v THEN "left" ELSE "right"
  IN  [t EXCEPT !.kid[s] = Put(@, t.up[v], Null)]

(* Mutant: the subtree taken from the old root keeps its parent.            *)
InsertNoUp(t, v, k) ==
  LET s == IF k < key[t.root] THEN "left" ELSE "right"
      c == t.kid[s][t.root]
      below == [t.kid EXCEPT ![s][v] = c, ![Across(s)][v] = t.root, ![s][t.root] = Null]
  IN  IF t.root = Null
      THEN /\ kid' = t.kid /\ up' = [t.up EXCEPT ![v] = Null]
      ELSE /\ kid' = below
           /\ up' = [t.up EXCEPT ![t.root] = v, ![v] = Null]

(* v becomes the root, with the old root and one of its subtrees below.     *)
Insert(t, v, k) ==
  LET s == IF k < key[t.root] THEN "left" ELSE "right"
      c == t.kid[s][t.root]
      below == [t.kid EXCEPT ![s][v] = c, ![Across(s)][v] = t.root, ![s][t.root] = Null]
  IN  IF t.root = Null
      THEN /\ kid' = t.kid /\ up' = [t.up EXCEPT ![v] = Null]
      ELSE /\ kid' = below
           /\ up' = [Put([t.up EXCEPT ![t.root] = v], c, v) EXCEPT ![v] = Null]

AddNew(t, k, level) ==
  LET v == Victim(t)
  IN  /\ ~Found(t, k)
      /\ v # Null
      /\ Relink(v)
      /\ Insert(Detach(t, v), v, k)
      /\ key' = [key EXCEPT ![v] = k]
      /\ minrec' = [minrec EXCEPT ![v] = level]
      /\ root' = v
      /\ answer' = <<>>

(* cacheset_lookup and cacheset_add both begin with splay(): t is the tree  *)
(* after it.                                                                *)
Next ==
  \E k \in Keys : LET t == Splay(k) IN
     \/ \E level \in Levels : Lookup(t, k, level) \/ AddPresent(t, k, level) \/ AddNew(t, k, level)
     \/ AddNoLeaf(t, k)

Spec == Init /\ [][Next]_vars
-----------------------------------------------------------------------------
RECURSIVE InOrder(_, _)
InOrder(n, fuel) ==
  IF n = Null \/ fuel = 0 THEN <<>>
  ELSE InOrder(kid["left"][n], fuel - 1) \o <<n>> \o InOrder(kid["right"][n], fuel - 1)

Tree == InOrder(root, NODES + 1)

TypeOK ==
  /\ kid \in [Sides -> [Node -> Node \cup {Null}]]
  /\ {up, next, prev} \subseteq [Node -> Node \cup {Null}]
  /\ key \in [Node -> Keys \cup {0}]
  /\ minrec \in [Node -> Levels \cup {0}]
  /\ {root, first, last} \subseteq Node \cup {Null}
  /\ answer \in {<<>>} \cup (Keys \X Levels)

(* What printtree() checks under CHECK_TREE, and more: read from left to    *)
(* right the keys of the whole tree increase, no node hangs twice, and      *)
(* every parent pointer is right, also after the rotations of a splay,      *)
(* which go through a node that is not in the array.                        *)
TreeConsistent ==
  LET tree == Tree
      used == {tree[i] : i \in DOMAIN tree}
  IN  /\ TypeOK
      /\ \A i, j \in DOMAIN tree : i < j => key[tree[i]] < key[tree[j]]
      /\ root # Null => up[root] = Null
      /\ \A n \in used, s \in Sides : kid[s][n] # Null => up[kid[s][n]] = n
      /\ \A n \in Node \ used, s \in Sides : kid[s][n] = Null

(* cacheset_add walks the chain holding the lock of the tree: it always     *)
(* comes to the end of the chain.                                           *)
WalkEnds == Len(Chain) <= NODES

(* "maintains the replacement chain": both directions of the chain hold     *)
(* every node once.                                                         *)
ChainIntact ==
  /\ Len(Chain) = NODES
  /\ {Chain[i] : i \in DOMAIN Chain} = Node
  /\ Chain[NODES] = last
  /\ \A i \in 2..NODES : prev[Chain[i]] = Chain[i - 1]

(* The tree read as a table: what the cache promises.                       *)
Contents ==
  LET tree == Tree
      used == {tree[i] : i \in DOMAIN tree}
  IN  [k \in {key[n] : n \in used} |-> minrec[CHOOSE n \in used : key[n] = k]]

Promise == INSTANCE VerdictCache WITH table <- Contents

(* Through splaying, eviction and reuse of nodes, the cache answers as the  *)
(* bounded table of VerdictCache: it never says clean for a hash that was   *)
(* not added at that level or a smaller one.                                *)
ImplementsPromise == Promise!Spec
=============================================================================
