--------------------------------- MODULE Db ---------------------------------
(***************************************************************************)
(* One chain of a table of db.c: a red-black tree whose nodes are erased   *)
(* late while the table is walked, because the functions that a walk calls *)
(* insert, erase and walk themselves.  A node is named by its key.  The    *)
(* two sides of the tree are one case: d is a side and o the other one.    *)
(***************************************************************************)
EXTENDS Integers, FiniteSets, Sequences, SequencesExt

CONSTANTS
    Keys,       \* numbers
    Nil,        \* the null pointer
    Touched,    \* bound: what functions called by a walk insert and erase, and walk from
    MaxCalls,   \* bound: insertions and erasures within a walk
    MaxDepth    \* bound: walks within walks

ASSUME DbAssumption ==
    /\ Keys \subseteq Int /\ Nil \notin Keys /\ Touched \subseteq Keys
    /\ MaxCalls \in Nat /\ MaxDepth \in Nat

VARIABLES
    tree,       \* ht[i] and its nodes
    deleted,    \* nodes marked as deleted
    freeNodes,  \* free_list
    walks,      \* db_foreach, the innermost last: where it is, and its stack
    present,    \* history: the keys that are in the table
    calls

dbVars == <<tree, deleted, freeNodes, walks, present, calls>>

Sides == {"left", "right"}
Other(d) == IF d = "left" THEN "right" ELSE "left"
Links == [Keys -> Keys \cup {Nil}]

DbTypeOK ==
    /\ tree \in [root : Keys \cup {Nil}, kid : [Sides -> Links], parent : Links, red : SUBSET Keys]
    /\ deleted \subseteq Keys
    /\ freeNodes \in Seq(Keys)
    /\ walks \in Seq([at : Keys, calling : BOOLEAN, stack : Seq(Keys), seen : Seq(Keys),
                      all : SUBSET Keys, grown : BOOLEAN])
    /\ present \subseteq Keys
    /\ calls \in 0..MaxCalls

-----------------------------------------------------------------------------
(* The tree                                                                *)

SideOf(t, p) == IF t.kid["left"][t.parent[p]] = p THEN "left" ELSE "right"

\* Whatever pointed down to p points to y.
Point(t, p, y) ==
    IF t.root = p THEN [t EXCEPT !.root = y]
    ELSE [t EXCEPT !.kid[SideOf(t, p)][t.parent[p]] = y]

SetParent(t, n, p) == IF n = Nil THEN t ELSE [t EXCEPT !.parent[n] = p]

\* db_rotate_left and db_rotate_right: p goes down to the side d.
Rotate(t, p, d) ==
    LET o == Other(d)
        y == t.kid[o][p]
        b == t.kid[d][y]
        moved == [Point(t, p, y) EXCEPT !.kid[o][p] = b, !.kid[d][y] = p,
                                        !.parent[y] = t.parent[p], !.parent[p] = y] IN
    SetParent(moved, b, p)

\* db_rebalance.
RECURSIVE Rebalance(_, _)
Rebalance(t, p) ==
    IF p = t.root \/ t.parent[p] \notin t.red THEN [t EXCEPT !.red = @ \ {t.root}]
    ELSE LET f == t.parent[p]
             g == t.parent[f]
             d == SideOf(t, f)
             o == Other(d)
             y == t.kid[o][g]
             inner == t.kid[o][f] = p
             t1 == IF inner THEN Rotate(t, f, d) ELSE t
             q == IF inner THEN f ELSE p IN
         IF y \in t.red THEN Rebalance([t EXCEPT !.red = (@ \ {f, y}) \cup {g}], g)
         ELSE Rebalance(Rotate([t1 EXCEPT !.red = (@ \ {t1.parent[q]}) \cup {g}], g, o), q)

\* db_insert of a key that is not in the tree.
RECURSIVE Above(_, _, _)
Above(t, p, k) ==
    LET d == IF k < p THEN "left" ELSE "right" IN
    IF t.kid[d][p] = Nil THEN <<p, d>> ELSE Above(t, t.kid[d][p], k)

\* Mutant: the new node stays where it was hung.
InsertUnbalanced(t, k) ==
    IF t.root = Nil THEN [t EXCEPT !.root = k]
    ELSE LET place == Above(t, t.root, k)
             linked == [t EXCEPT !.kid[place[2]][place[1]] = k, !.parent[k] = place[1],
                                 !.red = @ \cup {k}] IN
         linked

Insert(t, k) ==
    IF t.root = Nil THEN [t EXCEPT !.root = k]
    ELSE LET place == Above(t, t.root, k)
             linked == [t EXCEPT !.kid[place[2]][place[1]] = k, !.parent[k] = place[1],
                                 !.red = @ \cup {k}] IN
         IF place[1] \in t.red THEN Rebalance(linked, k) ELSE linked

\* The second half of db_rebalance_erase: one black is missing above x.
RECURSIVE Fix(_, _, _)
Fix(t, x, xp) ==
    IF x = t.root \/ x \in t.red THEN [t EXCEPT !.red = @ \ {x}]
    ELSE LET d == IF t.kid["left"][xp] = x THEN "left" ELSE "right"
             o == Other(d)
             w0 == t.kid[o][xp]
             t1 == IF w0 \in t.red
                   THEN Rotate([t EXCEPT !.red = (@ \ {w0}) \cup {xp}], xp, d) ELSE t
             w1 == t1.kid[o][xp]
             near == t1.kid[d][w1]
             far == t1.kid[o][w1]
             t2 == IF far \in t1.red THEN t1
                   ELSE Rotate([t1 EXCEPT !.red = (@ \ {near}) \cup {w1}], w1, o)
             w2 == t2.kid[o][xp]
             red == IF xp \in t2.red THEN t2.red \cup {w2} ELSE t2.red \ {w2} IN
         IF {near, far} \cap t1.red = {}
         THEN Fix([t1 EXCEPT !.red = @ \cup {w1}], xp, t1.parent[xp])
         ELSE Rotate([t2 EXCEPT !.red = red \ {xp, t2.kid[o][w2], x}], xp, d)

RECURSIVE Leftmost(_, _)
Leftmost(t, p) == IF t.kid["left"][p] = Nil THEN p ELSE Leftmost(t, t.kid["left"][p])

\* The first half: z leaves the tree, and its successor takes its place.
Unlink(t, z) ==
    LET l == t.kid["left"][z]
        r == t.kid["right"][z]
        y == IF l = Nil \/ r = Nil THEN z ELSE Leftmost(t, r)
        x == IF t.kid["left"][y] = Nil THEN t.kid["right"][y] ELSE t.kid["left"][y]
        cut == SetParent(Point(t, y, x), x, t.parent[y])
        down == cut.kid["right"][z]
        swapped == SetParent(SetParent([Point(cut, z, y) EXCEPT
                       !.kid["left"][y] = l, !.kid["right"][y] = down, !.parent[y] = t.parent[z]],
                       l, y), down, y) IN
    [tree |-> IF y = z THEN cut
              ELSE [swapped EXCEPT !.red = IF z \in @ THEN @ \cup {y} ELSE @ \ {y}],
     x |-> x,
     above |-> IF y # z /\ y = r THEN y ELSE t.parent[y],
     black |-> y \notin t.red]

Forget(t, z) ==
    [t EXCEPT !.kid["left"][z] = Nil, !.kid["right"][z] = Nil, !.parent[z] = Nil, !.red = @ \ {z}]

\* db_rebalance_erase.
EraseNode(t, z) ==
    LET u == Unlink(t, z) IN
    Forget(IF u.black THEN Fix(u.tree, u.x, u.above) ELSE u.tree, z)

InTree(t) == {k \in Keys : t.root = k \/ t.parent[k] # Nil}

\* db_search.
RECURSIVE Search(_, _)
Search(p, k) ==
    IF p = Nil THEN FALSE
    ELSE IF p = k THEN k \notin deleted
    ELSE Search(tree.kid[IF k < p THEN "left" ELSE "right"][p], k)

-----------------------------------------------------------------------------
(* The operations                                                          *)

Current == Last(walks)

\* A caller acts outside of any walk, or in the function a walk has called.
MayCall == IF walks = <<>> THEN TRUE ELSE Last(walks).calling

Calls(k) ==
    /\ MayCall
    /\ IF walks = <<>> THEN TRUE ELSE k \in Touched /\ calls < MaxCalls
    /\ calls' = IF walks = <<>> THEN 0 ELSE calls + 1

\* Mutant: the node stays on the list of nodes to be freed.
DbInsertStillMarked(k) ==
    /\ Calls(k)
    /\ present' = present \cup {k}
    /\ deleted' = deleted \ {k}
    /\ \/ /\ k \in InTree(tree)
          /\ UNCHANGED <<freeNodes, tree, walks>>
       \/ /\ k \notin InTree(tree)
          /\ tree' = Insert(tree, k)
          /\ walks' = [i \in DOMAIN walks |-> [walks[i] EXCEPT !.grown = TRUE]]
          /\ UNCHANGED freeNodes

\* db_insert: a node that was only marked as deleted is used again.
DbInsert(k) ==
    /\ Calls(k)
    /\ present' = present \cup {k}
    /\ deleted' = deleted \ {k}
    /\ \/ /\ k \in InTree(tree)
          /\ freeNodes' = SelectSeq(freeNodes, LAMBDA n : n # k)
          /\ UNCHANGED <<tree, walks>>
       \/ /\ k \notin InTree(tree)
          /\ tree' = Insert(tree, k)
          /\ walks' = [i \in DOMAIN walks |-> [walks[i] EXCEPT !.grown = TRUE]]
          /\ UNCHANGED freeNodes

\* Mutant: the node goes at once, whoever walks.
DbEraseAtOnce(k) ==
    /\ Calls(k)
    /\ k \in InTree(tree) \ deleted
    /\ present' = present \ {k}
    /\ walks' = [i \in DOMAIN walks |-> [walks[i] EXCEPT !.all = @ \ {k}]]
    /\ IF TRUE
       THEN /\ tree' = EraseNode(tree, k)
            /\ UNCHANGED <<deleted, freeNodes>>
       ELSE /\ deleted' = deleted \cup {k}
            /\ freeNodes' = Append(freeNodes, k)
            /\ UNCHANGED tree

\* db_erase: while somebody walks, the node stays.
DbErase(k) ==
    /\ Calls(k)
    /\ k \in InTree(tree) \ deleted
    /\ present' = present \ {k}
    /\ walks' = [i \in DOMAIN walks |-> [walks[i] EXCEPT !.all = @ \ {k}]]
    /\ IF walks = <<>>
       THEN /\ tree' = EraseNode(tree, k)
            /\ UNCHANGED <<deleted, freeNodes>>
       ELSE /\ deleted' = deleted \cup {k}
            /\ freeNodes' = Append(freeNodes, k)
            /\ UNCHANGED tree

\* db_foreach begins: db_free_lock.
WalkBegin ==
    /\ MayCall
    /\ Len(walks) < MaxDepth
    /\ IF walks = <<>> THEN TRUE ELSE Current.at \in Touched
    /\ tree.root # Nil
    /\ walks' = Append(walks, [at |-> tree.root, calling |-> FALSE, stack |-> <<>>,
                               seen |-> <<>>, all |-> present, grown |-> FALSE])
    /\ UNCHANGED <<tree, deleted, freeNodes, present, calls>>

SetWalk(w) == walks' = [walks EXCEPT ![Len(walks)] = w]

\* The function is called for the node, unless the node is deleted.
Visit ==
    /\ walks # <<>> /\ ~Current.calling /\ Current.at \notin deleted
    /\ SetWalk([Current EXCEPT !.calling = TRUE, !.seen = Append(@, Current.at)])
    /\ UNCHANGED <<tree, deleted, freeNodes, present, calls>>

\* On to the left, with the right put on the stack; then to the right; then back.
\* At the end db_free_unlock erases what was marked, if this was the last walk.
L == tree.kid["left"][Current.at]
R == tree.kid["right"][Current.at]
Done == IF walks = <<>> THEN FALSE ELSE Current.calling \/ Current.at \in deleted

Step ==
    /\ Done
    /\ \/ /\ L # Nil
          /\ SetWalk([Current EXCEPT !.calling = FALSE, !.at = L,
                                  !.stack = IF R # Nil THEN Append(@, R) ELSE @])
       \/ /\ L = Nil /\ R # Nil
          /\ SetWalk([Current EXCEPT !.calling = FALSE, !.at = R])
       \/ /\ L = Nil /\ R = Nil /\ Current.stack # <<>>
          /\ SetWalk([Current EXCEPT !.calling = FALSE, !.at = Last(Current.stack), !.stack = Front(@)])
    /\ UNCHANGED <<tree, deleted, freeNodes, present, calls>>

WalkEnd ==
    /\ Done
    /\ L = Nil /\ R = Nil /\ Current.stack = <<>>
    /\ walks' = Front(walks)
    /\ IF Len(walks) = 1
       THEN /\ tree' = FoldLeft(EraseNode, tree, freeNodes)
            /\ deleted' = {}
            /\ freeNodes' = <<>>
            /\ calls' = 0
       ELSE UNCHANGED <<tree, deleted, freeNodes, calls>>
    /\ UNCHANGED present

DbInit ==
    /\ tree = [root |-> Nil, kid |-> [d \in Sides |-> [k \in Keys |-> Nil]],
               parent |-> [k \in Keys |-> Nil], red |-> {}]
    /\ deleted = {}
    /\ freeNodes = <<>>
    /\ walks = <<>>
    /\ present = {}
    /\ calls = 0

DbNext ==
    \/ \E k \in Keys : DbInsert(k) \/ DbErase(k)
    \/ WalkBegin \/ Visit \/ Step \/ WalkEnd

DbSpec == DbInit /\ [][DbNext]_dbVars

-----------------------------------------------------------------------------
RECURSIVE BlackHeights(_)
BlackHeights(p) ==
    IF p = Nil THEN {1}
    ELSE {h + (IF p \in tree.red THEN 0 ELSE 1) :
              h \in BlackHeights(tree.kid["left"][p]) \cup BlackHeights(tree.kid["right"][p])}

\* After every insertion and erasure, the late ones included, the tree is a
\* red-black tree with the right parents.
RedBlack ==
    /\ tree.root \notin tree.red
    /\ \A k \in InTree(tree), d \in Sides : LET c == tree.kid[d][k] IN c # Nil =>
          /\ tree.parent[c] = k
          /\ ~(k \in tree.red /\ c \in tree.red)
    /\ Cardinality(BlackHeights(tree.root)) = 1

\* A search finds what was inserted and not erased, marked nodes or not.
SearchFinds == \A k \in Keys : Search(tree.root, k) <=> k \in present

\* A walk calls its function once for each key that was there all the time,
\* though the functions erase, revive and walk; if one makes a new node, the
\* tree turns under the walk and nothing is promised.
WalkSeesAll ==
    [][\A i \in DOMAIN walks \ DOMAIN walks' : ~walks[i].grown =>
           \A k \in walks[i].all : Cardinality({j \in DOMAIN walks[i].seen : walks[i].seen[j] = k}) = 1]_dbVars

=============================================================================
