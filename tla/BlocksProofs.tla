---------------------------- MODULE BlocksProofs -----------------------------
(***************************************************************************)
(* Proofs about Blocks, for any blocks, cells and bounds.                  *)
(* Behind the lists is a number for each block, its place counted from the *)
(* end of its list: what is put in front leaves the other numbers alone.   *)
(***************************************************************************)
EXTENDS Blocks, Sums

Off == <<>>

\* In which list a block is.
OnOf(l, cell) == [b \in Bls |-> IF l.prev[b] # NullBl THEN ListOf(b, cell[b]) ELSE Off]
On == OnOf(links, cellOf)

LinkData ==
    [head : [Lists -> Bls \cup {NullBl}], count : [Lists -> Int],
     prev : [Bls -> Bls \cup {NullBl, ListHead}], next : [Bls -> Bls \cup {NullBl}],
     users : Int]

\* The block b is on the list q in the place i.
At(on, r, q, b, i) == b \in Bls /\ on[b] = q /\ r[b] = i

\* on tells the list of a block and r its place, which is all of them that
\* there are, and the links are those of the neighbours.
Numbered(l, on, r) ==
    /\ l.count \in [Lists -> Nat] /\ on \in [Bls -> Lists \cup {Off}] /\ r \in [Bls -> Nat]
    /\ \A b \in Bls : on[b] # Off => r[b] \in 1..l.count[on[b]]
    /\ \A b, c \in Bls : on[b] # Off /\ on[b] = on[c] /\ r[b] = r[c] => b = c
    /\ \A q \in Lists : \A i \in 1..l.count[q] : \E b \in Bls : At(on, r, q, b, i)

Heads(l, on, r) ==
    \A q \in Lists : IF l.count[q] = 0 THEN l.head[q] = NullBl
                     ELSE At(on, r, q, l.head[q], l.count[q])
Nexts(l, on, r) ==
    \A b \in Bls : IF on[b] = Off \/ r[b] = 1 THEN l.next[b] = NullBl
                   ELSE At(on, r, on[b], l.next[b], r[b] - 1)
Prevs(l, on, r) ==
    \A b \in Bls : IF on[b] = Off THEN l.prev[b] = NullBl
                   ELSE IF r[b] = l.count[on[b]] THEN l.prev[b] = ListHead
                   ELSE At(on, r, on[b], l.prev[b], r[b] + 1)

Linked(l, on, r) ==
    /\ l \in LinkData
    /\ Numbered(l, on, r) /\ Heads(l, on, r) /\ Nexts(l, on, r) /\ Prevs(l, on, r)

Listed(on) == {b \in Pcs : on[b] # Off}
Counted(l, on) == l.users = Cardinality(Listed(on))

RowsOf(l, cell) ==
    /\ cell \in [Bls -> Cells]
    /\ \E r : Linked(l, OnOf(l, cell), r)
    /\ Counted(l, OnOf(l, cell))
Rows == RowsOf(links, cellOf)

-----------------------------------------------------------------------------
(* The invariant                                                           *)

FrameType ==
    [from : Nat, at : Nat, calling : BOOLEAN, stay : SUBSET Bls, seen : Seq(Bls)]

\* Who is in a list is live; players are never freed, and a thing that is on
\* the floor is in a list.
Placed ==
    /\ mem \in [Bls -> {"none", "live", "dying"}]
    /\ \A b \in Bls : InList(b) => mem[b] = "live"
    /\ \A b \in Pcs : mem[b] = "live"
    /\ \A b \in Things : mem[b] = "live" => InList(b)

QueueDies ==
    /\ queue \in Seq(Bls) /\ Len(queue) <= MaxFree
    /\ \A i \in 1..Len(queue) : mem[queue[i]] = "dying"

IdsOnce == \A i, j \in ObjectIds : object[i] = object[j] /\ object[i] # NullBl => i = j

\* The segment of bl_list of a foreach ends where that of the next begins.
EndOf(fs, list, k) == IF k = Len(fs) THEN Len(list) ELSE fs[k + 1].from

Nested(fs, list) ==
    /\ \A k \in 1..Len(fs) : /\ fs[k].from <= fs[k].at /\ fs[k].at <= EndOf(fs, list, k)
                             /\ EndOf(fs, list, k) <= Len(list)
    /\ \A k, m \in 1..Len(fs) : k < m => EndOf(fs, list, k) <= fs[m].from

\* b is in one place of the segment, and has been met if that is behind.
Met(f, b) == Cardinality({i \in DOMAIN f.seen : f.seen[i] = b})
Once(f, end, list, b) ==
    \E j \in (f.from + 1)..end :
        /\ list[j] = b
        /\ \A i \in (f.from + 1)..end : list[i] = b => i = j
        /\ Met(f, b) = IF j <= f.at THEN 1 ELSE 0

MetOnce ==
    \A k \in 1..Len(frames) : \A b \in frames[k].stay :
        InList(b) /\ Once(frames[k], EndOf(frames, blList, k), blList, b)

Walks ==
    /\ lock \in Nat
    /\ blList \in Seq(Bls) /\ Len(blList) <= MaxList
    /\ frames \in Seq(FrameType)
    /\ Len(frames) <= lock
    /\ Nested(frames, blList)
    /\ NotFreedInUse
    /\ MetOnce

Bounded == changes \in 0..MaxChanges /\ forgotten \in 0..MaxForgotten

Objects ==
    /\ object \in [ObjectIds -> Things \cup {NullBl}]
    /\ firstFree \in 0..MaxObject + 1 /\ lastId \in 0..MaxObject
    /\ ObjectsFound /\ IdsOnce

BlocksInv == Rows /\ Placed /\ QueueDies /\ Objects /\ Walks /\ Bounded

LEMMA InvType ==
    ASSUME BlocksInv
    PROVE  BlocksTypeOK
<1>1. links \in LinkData /\ cellOf \in [Bls -> Cells]
  BY DEF BlocksInv, Rows, RowsOf, Linked
<1>2. mem \in [Bls -> {"none", "live", "dying"}] /\ queue \in Seq(Bls) /\ Len(queue) <= MaxFree
  BY DEF BlocksInv, Placed, QueueDies
<1>3. /\ lock \in Nat /\ blList \in Seq(Bls) /\ Len(blList) <= MaxList
      /\ frames \in Seq(FrameType)
  BY DEF BlocksInv, Walks
<1>4. /\ object \in [ObjectIds -> Things \cup {NullBl}]
      /\ firstFree \in 0..MaxObject + 1 /\ lastId \in 0..MaxObject
  BY DEF BlocksInv, Objects
<1> QED BY <1>1, <1>2, <1>3, <1>4 DEF BlocksInv, Bounded, BlocksTypeOK, LinkData, FrameType

LEMMA UpToIs ==
    ASSUME NEW n \in Nat
    PROVE  IsFiniteSet(1..n) /\ Cardinality(1..n) = n
<1>1. IsFiniteSet(1..n) /\ Cardinality(1..n) = IF 1 > n THEN 0 ELSE n - 1 + 1
  BY FS_Interval
<1> QED BY <1>1

LEMMA ListOfIs ==
    ASSUME NEW b \in Bls, NEW c \in Cells
    PROVE  ListOf(b, c) \in Lists /\ ListOf(b, c) # Off
<1>1. (b \in Mobs) \in BOOLEAN
  OBVIOUS
<1> DEFINE t == b \in Mobs
<1>2. ListOf(b, c) = <<c, t>> /\ t \in BOOLEAN
  BY <1>1 DEF ListOf
<1> HIDE DEF t
<1>3. <<c, t>> \in Lists
  BY <1>2 DEF Lists
<1>4. \A q \in Lists : q # Off
  BY DEF Lists, Off
<1> QED BY <1>2, <1>3, <1>4

LEMMA NullIsNone == NullBl \notin Bls /\ ListHead \notin Bls
BY BlocksAssumption DEF Bls

LEMMA OffIsNone == Off \notin Lists
BY DEF Lists, Off

-----------------------------------------------------------------------------
(* A block is put on a list, and taken off                                 *)

Added(l, m, b, q) ==
    LET n == l.head[q] IN
    /\ m \in LinkData
    /\ m.head = [l.head EXCEPT ![q] = b]
    /\ m.count = [l.count EXCEPT ![q] = @ + 1]
    /\ m.next = [l.next EXCEPT ![b] = n]
    /\ m.prev[b] = ListHead
    /\ \A x \in Bls \ {b} : m.prev[x] = IF x = n THEN b ELSE l.prev[x]
    /\ m.users = l.users + User(b)

LEMMA LinksAre ==
    ASSUME NEW l \in LinkData, NEW m, DOMAIN m = DOMAIN l, m = [i \in DOMAIN m |-> m[i]],
           m.head \in [Lists -> Bls \cup {NullBl}], m.count \in [Lists -> Int],
           m.prev \in [Bls -> Bls \cup {NullBl, ListHead}],
           m.next \in [Bls -> Bls \cup {NullBl}], m.users \in Int
    PROVE  m \in LinkData
BY DEF LinkData

LEMMA AddLinks ==
    ASSUME NEW l \in LinkData, NEW b \in Bls, NEW c \in Cells, NEW q,
           q = ListOf(b, c), l.head[q] # b
    PROVE  Added(l, AddBlock(l, b, c), b, q)
<1> DEFINE n == l.head[q]
           put == [l EXCEPT !.head[q] = b, !.count[q] = @ + 1, !.next[b] = n,
                            !.prev[b] = ListHead, !.users = @ + User(b)]
           m == AddBlock(l, b, c)
<1>1. q \in Lists /\ n \in Bls \cup {NullBl} /\ User(b) \in Int
  BY ListOfIs DEF LinkData, User
<1>2. /\ put \in LinkData
      /\ put.head = [l.head EXCEPT ![q] = b]
      /\ put.count = [l.count EXCEPT ![q] = @ + 1]
      /\ put.next = [l.next EXCEPT ![b] = n]
      /\ put.prev = [l.prev EXCEPT ![b] = ListHead]
      /\ put.users = l.users + User(b)
  <2> HIDE DEF n
  <2>1. /\ put.head = [l.head EXCEPT ![q] = b]
        /\ put.count = [l.count EXCEPT ![q] = @ + 1]
        /\ put.next = [l.next EXCEPT ![b] = n]
        /\ put.prev = [l.prev EXCEPT ![b] = ListHead]
        /\ put.users = l.users + User(b)
    BY DEF LinkData
  <2>2. /\ put.head \in [Lists -> Bls \cup {NullBl}] /\ put.count \in [Lists -> Int]
        /\ put.prev \in [Bls -> Bls \cup {NullBl, ListHead}]
        /\ put.next \in [Bls -> Bls \cup {NullBl}] /\ put.users \in Int
    BY <1>1, <2>1 DEF LinkData
  <2>3. DOMAIN put = DOMAIN l /\ put = [i \in DOMAIN put |-> put[i]]
    OBVIOUS
  <2> HIDE DEF put
  <2>4. put \in LinkData
    BY <2>2, <2>3, LinksAre
  <2> QED BY <2>1, <2>4
<1>3. m = IF n = NullBl THEN put ELSE [put EXCEPT !.prev[n] = b]
  BY DEF AddBlock
<1> HIDE DEF put, m
<1>4. CASE n = NullBl
  <2> HIDE DEF n
  <2>3. m = put
    BY <1>3, <1>4
  <2>1. ASSUME NEW x \in Bls \ {b} PROVE m.prev[x] = l.prev[x] /\ x # n
    BY <1>2, <1>4, <2>3, NullIsNone DEF LinkData
  <2>2. m.prev[b] = ListHead
    BY <1>2, <2>3 DEF LinkData
  <2> QED BY <1>2, <2>1, <2>2, <2>3 DEF m, n, Added
<1>5. CASE n # NullBl
  <2>1. /\ m.head = put.head /\ m.count = put.count /\ m.next = put.next /\ m.users = put.users
        /\ m.prev = [put.prev EXCEPT ![n] = b]
    BY <1>2, <1>3, <1>5 DEF LinkData
  <2>2. m \in LinkData
    BY <1>1, <1>2, <1>3, <1>5 DEF LinkData
  <2>3. m.prev[b] = ListHead /\ \A x \in Bls \ {b} : m.prev[x] = IF x = n THEN b ELSE l.prev[x]
    BY <1>1, <1>2, <1>5, <2>1 DEF LinkData
  <2> HIDE DEF n
  <2> QED BY <1>2, <2>1, <2>2, <2>3 DEF m, n, Added
<1> QED BY <1>4, <1>5

\* A block comes in front of its list.
LEMMA AddNumbered ==
    ASSUME NEW l, NEW m, NEW on, NEW r, Linked(l, on, r), NEW b \in Bls, on[b] = Off,
           NEW q \in Lists, q # Off, Added(l, m, b, q)
    PROVE  \E s : Linked(m, [on EXCEPT ![b] = q], s)
<1> DEFINE n == l.head[q]
           k == l.count[q]
           p == [on EXCEPT ![b] = q]
           s == [r EXCEPT ![b] = k + 1]
<1>1. /\ l \in LinkData /\ m \in LinkData
      /\ l.count \in [Lists -> Nat] /\ on \in [Bls -> Lists \cup {Off}] /\ r \in [Bls -> Nat]
      /\ k \in Nat
      /\ m.head = [l.head EXCEPT ![q] = b]
      /\ m.count = [l.count EXCEPT ![q] = k + 1]
      /\ m.next = [l.next EXCEPT ![b] = n]
      /\ m.prev[b] = ListHead
      /\ \A x \in Bls \ {b} : m.prev[x] = IF x = n THEN b ELSE l.prev[x]
  BY DEF Linked, Numbered, Added
<1>2. /\ p \in [Bls -> Lists \cup {Off}] /\ p[b] = q /\ \A x \in Bls \ {b} : p[x] = on[x]
      /\ s \in [Bls -> Nat] /\ s[b] = k + 1 /\ \A x \in Bls \ {b} : s[x] = r[x]
  BY <1>1
<1>3. /\ m.count \in [Lists -> Nat] /\ m.count[q] = k + 1
      /\ \A x \in Lists \ {q} : m.count[x] = l.count[x]
      /\ m.head[q] = b /\ \A x \in Lists \ {q} : m.head[x] = l.head[x]
      /\ m.next[b] = n /\ \A x \in Bls \ {b} : m.next[x] = l.next[x]
  BY <1>1 DEF LinkData
<1>4. IF k = 0 THEN n = NullBl ELSE At(on, r, q, n, k) /\ n # b
  BY DEF Linked, Heads, At
<1>5. \A x \in Bls : on[x] # Off => r[x] \in 1..l.count[on[x]] /\ on[x] \in Lists
  BY <1>1 DEF Linked, Numbered
<1> HIDE DEF n, k, p, s
<1>6. Numbered(m, p, s)
  <2>1. ASSUME NEW x \in Bls, p[x] # Off PROVE s[x] \in 1..m.count[p[x]]
    <3>1. CASE x = b
      BY <1>1, <1>2, <1>3, <3>1
    <3>2. CASE x # b /\ on[x] = q
      BY <1>1, <1>2, <1>3, <1>5, <2>1, <3>2 DEF k
    <3>3. CASE x # b /\ on[x] # q
      BY <1>2, <1>3, <1>5, <2>1, <3>3
    <3> QED BY <3>1, <3>2, <3>3
  <2>2. ASSUME NEW x \in Bls, NEW y \in Bls, p[x] # Off, p[x] = p[y], s[x] = s[y] PROVE x = y
    <3>1. CASE x = b /\ y # b
      BY <1>1, <1>2, <1>5, <2>2, <3>1 DEF k
    <3>2. CASE y = b /\ x # b
      BY <1>1, <1>2, <1>5, <2>2, <3>2 DEF k
    <3>3. CASE x # b /\ y # b
      BY <1>2, <2>2, <3>3 DEF Linked, Numbered
    <3> QED BY <3>1, <3>2, <3>3
  <2>3. ASSUME NEW x \in Lists, NEW i \in 1..m.count[x] PROVE \E y \in Bls : At(p, s, x, y, i)
    <3>1. CASE x = q /\ i = k + 1
      BY <1>2, <3>1 DEF At
    <3>2. CASE ~(x = q /\ i = k + 1)
      <4>1. i \in 1..l.count[x]
        BY <1>1, <1>3, <3>2 DEF k
      <4>2. PICK y \in Bls : At(on, r, x, y, i)
        BY <4>1 DEF Linked, Numbered
      <4>3. x # Off
        BY <1>1, <4>1 DEF Linked, Numbered, Lists, Off
      <4>4. y # b
        BY <4>2, <4>3 DEF At
      <4> QED BY <1>2, <4>2, <4>4 DEF At
    <3> QED BY <3>1, <3>2
  <2> QED BY <1>2, <1>3, <2>1, <2>2, <2>3 DEF Numbered
<1>7. Heads(m, p, s)
  <2>1. ASSUME NEW x \in Lists
        PROVE IF m.count[x] = 0 THEN m.head[x] = NullBl ELSE At(p, s, x, m.head[x], m.count[x])
    <3>1. CASE x = q
      BY <1>1, <1>2, <1>3, <3>1 DEF At
    <3>2. CASE x # q
      <4>1. IF l.count[x] = 0 THEN l.head[x] = NullBl
            ELSE At(on, r, x, l.head[x], l.count[x])
        BY DEF Linked, Heads
      <4>2. x # Off
        BY OffIsNone
      <4> QED BY <1>2, <1>3, <3>2, <4>1, <4>2 DEF At
    <3> QED BY <3>1, <3>2
  <2> QED BY <2>1 DEF Heads
<1>8. Nexts(m, p, s)
  <2>1. ASSUME NEW x \in Bls
        PROVE IF p[x] = Off \/ s[x] = 1 THEN m.next[x] = NullBl
              ELSE At(p, s, p[x], m.next[x], s[x] - 1)
    <3>1. CASE x = b
      BY <1>1, <1>2, <1>3, <1>4, <3>1 DEF At
    <3>2. CASE x # b
      <4>1. IF on[x] = Off \/ r[x] = 1 THEN l.next[x] = NullBl
            ELSE At(on, r, on[x], l.next[x], r[x] - 1)
        BY DEF Linked, Nexts
      <4> QED BY <1>2, <1>3, <3>2, <4>1 DEF At
    <3> QED BY <3>1, <3>2
  <2> QED BY <2>1 DEF Nexts
<1>9. Prevs(m, p, s)
  <2>1. ASSUME NEW x \in Bls
        PROVE IF p[x] = Off THEN m.prev[x] = NullBl
              ELSE IF s[x] = m.count[p[x]] THEN m.prev[x] = ListHead
              ELSE At(p, s, p[x], m.prev[x], s[x] + 1)
    <3>1. CASE x = b
      BY <1>1, <1>2, <1>3, <3>1
    <3>0. IF on[x] = Off THEN l.prev[x] = NullBl
          ELSE IF r[x] = l.count[on[x]] THEN l.prev[x] = ListHead
          ELSE At(on, r, on[x], l.prev[x], r[x] + 1)
      BY DEF Linked, Prevs
    <3>2. CASE x # b /\ x = n
      <4>1. k # 0 /\ on[x] = q /\ r[x] = k
        BY <1>4, <3>2, NullIsNone DEF At
      <4>2. m.prev[x] = b /\ p[x] = q /\ s[x] = k
        BY <1>1, <1>2, <3>2, <4>1
      <4> QED BY <1>1, <1>2, <1>3, <4>2 DEF At
    <3>3. CASE x # b /\ x # n
      <4>1. m.prev[x] = l.prev[x] /\ p[x] = on[x] /\ s[x] = r[x]
        BY <1>1, <1>2, <3>3
      <4>2. CASE on[x] = Off
        BY <3>0, <4>1, <4>2
      <4>3. CASE on[x] = q
        <5>1. r[x] # k
          <6>1. SUFFICES ASSUME r[x] = k PROVE FALSE
            OBVIOUS
          <6>2. k # 0
            BY <1>5, <6>1, <4>3
          <6>3. n \in Bls /\ on[n] = q /\ r[n] = k
            BY <1>4, <6>2 DEF At
          <6> QED BY <3>3, <4>3, <6>1, <6>3 DEF Linked, Numbered
        <5>2. At(on, r, q, l.prev[x], r[x] + 1)
          BY <3>0, <4>3, <5>1 DEF k
        <5>3. l.prev[x] # b
          BY <5>2 DEF At
        <5>4. r[x] \in 1..k
          BY <1>5, <4>3 DEF k
        <5> QED BY <1>1, <1>2, <1>3, <4>1, <4>3, <5>2, <5>3, <5>4 DEF At
      <4>4. CASE on[x] # q /\ on[x] # Off
        BY <1>2, <1>3, <1>5, <3>0, <4>1, <4>4 DEF At
      <4> QED BY <4>2, <4>3, <4>4
    <3> QED BY <3>1, <3>2, <3>3
  <2> QED BY <2>1 DEF Prevs
<1>10. Linked(m, p, s)
  BY <1>1, <1>6, <1>7, <1>8, <1>9 DEF Linked
<1> QED BY <1>10 DEF p

Deleted(l, m, b, q) ==
    LET n == l.next[b]
        p == l.prev[b] IN
    /\ m \in LinkData
    /\ m.head = IF p = ListHead THEN [l.head EXCEPT ![q] = n] ELSE l.head
    /\ m.count = [l.count EXCEPT ![q] = @ - 1]
    /\ m.next[b] = NullBl
    /\ \A x \in Bls \ {b} : m.next[x] = IF x = p THEN n ELSE l.next[x]
    /\ m.prev[b] = NullBl
    /\ \A x \in Bls \ {b} : m.prev[x] = IF x = n THEN p ELSE l.prev[x]
    /\ m.users = l.users - User(b)

LEMMA DelLinks ==
    ASSUME NEW l \in LinkData, NEW b \in Bls, NEW c \in Cells, NEW q,
           q = ListOf(b, c), l.prev[b] # NullBl
    PROVE  Deleted(l, DelBlock(l, b, c), b, q)
<1> DEFINE n == l.next[b]
           p == l.prev[b]
           told == IF n = NullBl THEN l ELSE [l EXCEPT !.prev[n] = p]
           cut == IF p = ListHead THEN [told EXCEPT !.head[q] = n]
                  ELSE [told EXCEPT !.next[p] = n]
           m == [cut EXCEPT !.count[q] = @ - 1, !.next[b] = NullBl, !.prev[b] = NullBl,
                            !.users = @ - User(b)]
<1>1. /\ q \in Lists /\ n \in Bls \cup {NullBl} /\ User(b) \in Int
      /\ p \in Bls \cup {ListHead}
  BY ListOfIs DEF LinkData, User
<1>2. m = DelBlock(l, b, c)
  BY DEF DelBlock
<1> HIDE DEF n, p
<1>3. /\ DOMAIN told = DOMAIN l /\ told = [i \in DOMAIN told |-> told[i]]
      /\ told.head = l.head /\ told.count = l.count /\ told.next = l.next /\ told.users = l.users
      /\ told.prev \in [Bls -> Bls \cup {NullBl, ListHead}]
      /\ \A x \in Bls : told.prev[x] = IF x = n THEN p ELSE l.prev[x]
  <2>1. CASE n = NullBl
    <3>1. \A x \in Bls : x # n
      BY <2>1, NullIsNone
    <3>2. told = l
      BY <2>1
    <3> HIDE DEF told
    <3> QED BY <3>1, <3>2 DEF LinkData
  <2>2. CASE n # NullBl
    <3>1. told = [l EXCEPT !.prev[n] = p] /\ n \in Bls
      BY <1>1, <2>2
    <3> HIDE DEF told
    <3>2. /\ DOMAIN told = DOMAIN l /\ told = [i \in DOMAIN told |-> told[i]]
          /\ told.head = l.head /\ told.count = l.count /\ told.next = l.next
          /\ told.users = l.users /\ told.prev = [l.prev EXCEPT ![n] = p]
      BY <3>1 DEF LinkData
    <3> QED BY <1>1, <3>1, <3>2 DEF LinkData
  <2> QED BY <2>1, <2>2
<1>4. told \in LinkData
  <2> HIDE DEF told
  <2> QED BY <1>3, LinksAre DEF LinkData
<1> HIDE DEF told
<1>5. /\ DOMAIN cut = DOMAIN l /\ cut = [i \in DOMAIN cut |-> cut[i]]
      /\ cut.head = IF p = ListHead THEN [l.head EXCEPT ![q] = n] ELSE l.head
      /\ cut.count = l.count /\ cut.prev = told.prev /\ cut.users = l.users
      /\ cut.next \in [Bls -> Bls \cup {NullBl}]
      /\ \A x \in Bls : cut.next[x] = IF x = p THEN n ELSE l.next[x]
  <2>1. CASE p = ListHead
    <3>1. \A x \in Bls : x # p
      BY <2>1, NullIsNone
    <3>2. cut = [told EXCEPT !.head[q] = n]
      BY <2>1
    <3> HIDE DEF cut
    <3>3. /\ DOMAIN cut = DOMAIN l /\ cut = [i \in DOMAIN cut |-> cut[i]]
          /\ cut.head = [l.head EXCEPT ![q] = n] /\ cut.count = l.count /\ cut.prev = told.prev
          /\ cut.users = l.users /\ cut.next = l.next
      BY <1>3, <1>4, <3>2 DEF LinkData
    <3> QED BY <2>1, <3>1, <3>3 DEF LinkData
  <2>2. CASE p # ListHead
    <3>1. cut = [told EXCEPT !.next[p] = n] /\ p \in Bls
      BY <1>1, <2>2
    <3> HIDE DEF cut
    <3>2. /\ DOMAIN cut = DOMAIN l /\ cut = [i \in DOMAIN cut |-> cut[i]]
          /\ cut.head = l.head /\ cut.count = l.count /\ cut.prev = told.prev
          /\ cut.users = l.users /\ cut.next = [l.next EXCEPT ![p] = n]
      BY <1>3, <1>4, <3>1 DEF LinkData
    <3>3. l.next \in [Bls -> Bls \cup {NullBl}]
      BY DEF LinkData
    <3>4. /\ cut.next \in [Bls -> Bls \cup {NullBl}]
          /\ \A x \in Bls : cut.next[x] = IF x = p THEN n ELSE l.next[x]
      <4>1. p \in Bls /\ n \in Bls \cup {NullBl} /\ cut.next = [l.next EXCEPT ![p] = n]
        BY <1>1, <3>1, <3>2
      <4> DEFINE next == l.next
      <4> HIDE DEF next
      <4>2. next \in [Bls -> Bls \cup {NullBl}] /\ cut.next = [next EXCEPT ![p] = n]
        BY <3>3, <4>1 DEF next
      <4> QED BY <4>1, <4>2 DEF next
    <3> QED BY <2>2, <3>2, <3>4
  <2> QED BY <2>1, <2>2
<1>6. cut.head \in [Lists -> Bls \cup {NullBl}]
  <2> HIDE DEF cut
  <2> QED BY <1>1, <1>5 DEF LinkData
<1>7. cut \in LinkData
  <2> HIDE DEF cut
  <2> QED BY <1>3, <1>5, <1>6, LinksAre DEF LinkData
<1> HIDE DEF cut
<1>8. /\ DOMAIN m = DOMAIN l /\ m = [i \in DOMAIN m |-> m[i]]
      /\ m.head = cut.head
      /\ m.count = [l.count EXCEPT ![q] = @ - 1]
      /\ m.next = [cut.next EXCEPT ![b] = NullBl]
      /\ m.prev = [told.prev EXCEPT ![b] = NullBl]
      /\ m.users = l.users - User(b)
  <2> HIDE DEF User
  <2> QED BY <1>5, <1>7 DEF LinkData
<1> HIDE DEF m
<1>9. m \in LinkData
  BY <1>1, <1>3, <1>5, <1>6, <1>8, LinksAre DEF LinkData
<1>10. /\ m.next[b] = NullBl /\ m.prev[b] = NullBl
       /\ \A x \in Bls \ {b} : m.next[x] = IF x = p THEN n ELSE l.next[x]
       /\ \A x \in Bls \ {b} : m.prev[x] = IF x = n THEN p ELSE l.prev[x]
  BY <1>3, <1>5, <1>8
<1> QED BY <1>2, <1>5, <1>8, <1>9, <1>10 DEF Deleted, n, p

\* A block leaves its list.
LEMMA DelNumbered ==
    ASSUME NEW l, NEW m, NEW on, NEW r, Linked(l, on, r), NEW b \in Bls,
           NEW q \in Lists, on[b] = q, Deleted(l, m, b, q)
    PROVE  \E s : Linked(m, [on EXCEPT ![b] = Off], s)
<1> DEFINE n == l.next[b]
           e == l.prev[b]
           k == l.count[q]
           p == [on EXCEPT ![b] = Off]
           s == [x \in Bls |-> IF on[x] = q /\ r[x] > r[b] THEN r[x] - 1 ELSE r[x]]
<1>1. /\ l \in LinkData /\ m \in LinkData
      /\ l.count \in [Lists -> Nat] /\ on \in [Bls -> Lists \cup {Off}] /\ r \in [Bls -> Nat]
      /\ k \in Nat /\ q # Off
      /\ m.head = IF e = ListHead THEN [l.head EXCEPT ![q] = n] ELSE l.head
      /\ m.count = [l.count EXCEPT ![q] = k - 1]
      /\ m.next[b] = NullBl
      /\ \A x \in Bls \ {b} : m.next[x] = IF x = e THEN n ELSE l.next[x]
      /\ m.prev[b] = NullBl
      /\ \A x \in Bls \ {b} : m.prev[x] = IF x = n THEN e ELSE l.prev[x]
  BY OffIsNone DEF Linked, Numbered, Deleted
<1>2. /\ p \in [Bls -> Lists \cup {Off}] /\ p[b] = Off /\ \A x \in Bls \ {b} : p[x] = on[x]
  BY <1>1
<1>3. \A x \in Bls : on[x] # Off => r[x] \in 1..l.count[on[x]] /\ on[x] \in Lists
  BY <1>1 DEF Linked, Numbered
<1>4. r[b] \in 1..k /\ k # 0
  BY <1>1, <1>3
<1>5. /\ m.count \in [Lists -> Nat] /\ m.count[q] = k - 1
      /\ \A x \in Lists \ {q} : m.count[x] = l.count[x] /\ m.head[x] = l.head[x]
      /\ m.head[q] = IF e = ListHead THEN n ELSE l.head[q]
  BY <1>1, <1>4 DEF LinkData
<1>6. IF r[b] = 1 THEN n = NullBl ELSE At(on, r, q, n, r[b] - 1)
  BY <1>1 DEF Linked, Nexts
<1>7. IF r[b] = k THEN e = ListHead ELSE At(on, r, q, e, r[b] + 1)
  BY <1>1 DEF Linked, Prevs
<1>8. \A x, y \in Bls : on[x] = q /\ on[y] = q /\ r[x] = r[y] => x = y
  BY <1>1 DEF Linked, Numbered
<1>9. /\ s \in [Bls -> Nat]
      /\ \A x \in Bls : on[x] # q => s[x] = r[x]
      /\ \A x \in Bls : on[x] = q /\ r[x] < r[b] => s[x] = r[x]
      /\ \A x \in Bls : on[x] = q /\ r[x] > r[b] => s[x] = r[x] - 1
  BY <1>1, <1>3
<1> HIDE DEF n, e, k, p, s
<1>10. \A x \in Bls \ {b} : on[x] = q =>
           \/ r[x] \in 1..(r[b] - 1) /\ s[x] = r[x]
           \/ r[x] \in (r[b] + 1)..k /\ s[x] = r[x] - 1
  BY <1>1, <1>3, <1>4, <1>8, <1>9 DEF k
<1>11. Numbered(m, p, s)
  <2>1. ASSUME NEW x \in Bls, p[x] # Off PROVE s[x] \in 1..m.count[p[x]]
    <3>1. x # b /\ p[x] = on[x]
      BY <1>2, <2>1
    <3>2. CASE on[x] = q
      BY <1>1, <1>4, <1>5, <1>10, <3>1, <3>2
    <3>3. CASE on[x] # q
      BY <1>3, <1>5, <1>9, <2>1, <3>1, <3>3
    <3> QED BY <3>2, <3>3
  <2>2. ASSUME NEW x \in Bls, NEW y \in Bls, p[x] # Off, p[x] = p[y], s[x] = s[y] PROVE x = y
    <3>1. x # b /\ y # b /\ on[x] = on[y] /\ on[x] # Off
      BY <1>2, <2>2
    <3>2. CASE on[x] = q
      <4>0. /\ \/ r[x] \in 1..(r[b] - 1) /\ s[x] = r[x]
               \/ r[x] \in (r[b] + 1)..k /\ s[x] = r[x] - 1
            /\ \/ r[y] \in 1..(r[b] - 1) /\ s[y] = r[y]
               \/ r[y] \in (r[b] + 1)..k /\ s[y] = r[y] - 1
        BY <1>10, <3>1, <3>2
      <4>1. r[x] = r[y]
        BY <1>1, <1>4, <2>2, <4>0
      <4> QED BY <1>8, <3>1, <3>2, <4>1
    <3>3. CASE on[x] # q
      BY <1>9, <2>2, <3>1, <3>3 DEF Linked, Numbered
    <3> QED BY <3>2, <3>3
  <2>3. ASSUME NEW x \in Lists, NEW i \in 1..m.count[x] PROVE \E y \in Bls : At(p, s, x, y, i)
    <3>0. x # Off
      BY OffIsNone
    <3>1. CASE x # q
      <4>1. PICK y \in Bls : At(on, r, x, y, i)
        BY <1>5, <3>1 DEF Linked, Numbered
      <4> QED BY <1>2, <1>1, <1>9, <3>1, <4>1 DEF At
    <3>2. CASE x = q /\ i < r[b]
      <4>1. i \in 1..l.count[q]
        BY <1>1, <1>4, <1>5, <3>2 DEF k
      <4>2. PICK y \in Bls : At(on, r, q, y, i)
        BY <4>1 DEF Linked, Numbered
      <4> QED BY <1>2, <1>1, <1>4, <1>9, <3>2, <4>2 DEF At
    <3>3. CASE x = q /\ i >= r[b]
      <4>1. i + 1 \in 1..l.count[q]
        BY <1>1, <1>4, <1>5, <3>3 DEF k
      <4>2. PICK y \in Bls : At(on, r, q, y, i + 1)
        BY <4>1 DEF Linked, Numbered
      <4>3. r[y] > r[b] /\ y # b
        BY <1>1, <1>4, <3>3, <4>2 DEF At
      <4> QED BY <1>2, <1>1, <1>4, <1>9, <3>3, <4>2, <4>3 DEF At
    <3> QED BY <1>1, <1>4, <1>5, <3>1, <3>2, <3>3
  <2> QED BY <1>2, <1>5, <1>9, <2>1, <2>2, <2>3 DEF Numbered
<1>12. Heads(m, p, s)
  <2>1. ASSUME NEW x \in Lists
        PROVE IF m.count[x] = 0 THEN m.head[x] = NullBl ELSE At(p, s, x, m.head[x], m.count[x])
    <3>0. x # Off
      BY OffIsNone
    <3>1. IF l.count[x] = 0 THEN l.head[x] = NullBl
          ELSE At(on, r, x, l.head[x], l.count[x])
      BY DEF Linked, Heads
    <3>2. CASE x # q
      BY <1>1, <1>2, <1>5, <1>9, <3>0, <3>1, <3>2 DEF At
    <3>3. CASE x = q /\ r[b] = k
      <4>1. m.head[x] = n /\ m.count[x] = k - 1
        BY <1>5, <1>7, <3>3
      <4> QED BY <1>1, <1>2, <1>4, <1>6, <1>9, <3>3, <4>1 DEF At
    <3>4. CASE x = q /\ r[b] # k
      <4>1. At(on, r, q, l.head[q], k)
        BY <1>4, <3>1, <3>4 DEF k
      <4>2. e # ListHead
        BY <1>7, <3>4, NullIsNone DEF At
      <4>3. m.head[q] = l.head[q] /\ m.count[q] = k - 1
        BY <1>5, <4>2
      <4>4. l.head[q] # b
        BY <3>4, <4>1 DEF At
      <4>5. s[l.head[q]] = k - 1
        BY <1>1, <1>4, <1>9, <3>4, <4>1 DEF At
      <4> QED BY <1>1, <1>2, <1>4, <3>4, <4>1, <4>3, <4>4, <4>5 DEF At
    <3> QED BY <3>2, <3>3, <3>4
  <2> QED BY <2>1 DEF Heads
<1>13. Nexts(m, p, s)
  <2>1. ASSUME NEW x \in Bls
        PROVE IF p[x] = Off \/ s[x] = 1 THEN m.next[x] = NullBl
              ELSE At(p, s, p[x], m.next[x], s[x] - 1)
    <3>0. IF on[x] = Off \/ r[x] = 1 THEN l.next[x] = NullBl
          ELSE At(on, r, on[x], l.next[x], r[x] - 1)
      BY DEF Linked, Nexts
    <3>1. CASE x = b
      BY <1>1, <1>2, <3>1
    <3>2. CASE on[x] # q
      <4>1. x # b /\ x # e
        BY <1>7, <3>2, NullIsNone DEF At
      <4>2. m.next[x] = l.next[x] /\ s[x] = r[x] /\ p[x] = on[x]
        BY <1>1, <1>2, <1>9, <3>2, <4>1
      <4> QED BY <1>1, <1>2, <1>9, <3>0, <3>2, <4>2 DEF At
    <3>3. CASE x # b /\ x = e
      <4>1. r[x] = r[b] + 1 /\ on[x] = q /\ r[b] # k
        BY <1>7, <3>3, NullIsNone DEF At
      <4>2. m.next[x] = n /\ s[x] = r[b] /\ p[x] = q
        BY <1>1, <1>2, <1>4, <1>9, <3>3, <4>1
      <4> QED BY <1>1, <1>2, <1>4, <1>6, <1>9, <4>2 DEF At
    <3>4. CASE x # b /\ x # e /\ on[x] = q /\ r[x] \in 1..(r[b] - 1) /\ s[x] = r[x]
      <4>1. m.next[x] = l.next[x] /\ p[x] = q
        BY <1>1, <1>2, <3>4
      <4> QED BY <1>1, <1>2, <1>4, <1>9, <3>0, <3>4, <4>1 DEF At
    <3>5. CASE x # b /\ x # e /\ on[x] = q /\ r[x] \in (r[b] + 1)..k /\ s[x] = r[x] - 1
      <4>1. m.next[x] = l.next[x] /\ p[x] = q
        BY <1>1, <1>2, <3>5
      <4>2. r[x] # r[b] + 1
        <5>1. SUFFICES ASSUME r[x] = r[b] + 1 PROVE FALSE
          OBVIOUS
        <5>2. e \in Bls /\ on[e] = q /\ r[e] = r[b] + 1
          BY <1>1, <1>4, <1>7, <3>5, <5>1 DEF At
        <5> QED BY <1>8, <3>5, <5>1, <5>2
      <4>3. At(on, r, q, l.next[x], r[x] - 1)
        BY <1>1, <1>4, <3>0, <3>5
      <4>4. l.next[x] # b /\ s[l.next[x]] = r[x] - 2
        BY <1>1, <1>4, <1>9, <3>5, <4>2, <4>3 DEF At
      <4> QED BY <1>1, <1>2, <1>4, <3>5, <4>1, <4>2, <4>3, <4>4 DEF At
    <3> QED BY <1>10, <3>1, <3>2, <3>3, <3>4, <3>5
  <2> QED BY <2>1 DEF Nexts
<1>14. Prevs(m, p, s)
  <2>1. ASSUME NEW x \in Bls
        PROVE IF p[x] = Off THEN m.prev[x] = NullBl
              ELSE IF s[x] = m.count[p[x]] THEN m.prev[x] = ListHead
              ELSE At(p, s, p[x], m.prev[x], s[x] + 1)
    <3>0. IF on[x] = Off THEN l.prev[x] = NullBl
          ELSE IF r[x] = l.count[on[x]] THEN l.prev[x] = ListHead
          ELSE At(on, r, on[x], l.prev[x], r[x] + 1)
      BY DEF Linked, Prevs
    <3>1. CASE x = b
      BY <1>1, <1>2, <3>1
    <3>2. CASE on[x] # q
      <4>1. x # b /\ x # n
        BY <1>6, <3>2, NullIsNone DEF At
      <4>2. m.prev[x] = l.prev[x] /\ s[x] = r[x] /\ p[x] = on[x]
        BY <1>1, <1>2, <1>9, <3>2, <4>1
      <4>3. CASE on[x] = Off
        BY <3>0, <4>2, <4>3
      <4>4. CASE on[x] # Off
        <5>1. m.count[on[x]] = l.count[on[x]]
          BY <1>3, <1>5, <3>2, <4>4
        <5> QED BY <1>1, <1>2, <1>9, <3>0, <3>2, <4>2, <4>4, <5>1 DEF At
      <4> QED BY <4>3, <4>4
    <3>3. CASE x # b /\ x = n
      <4>1. r[x] = r[b] - 1 /\ on[x] = q /\ r[b] # 1
        BY <1>6, <3>3, NullIsNone DEF At
      <4>2. m.prev[x] = e /\ s[x] = r[b] - 1 /\ p[x] = q
        BY <1>1, <1>2, <1>4, <1>9, <3>3, <4>1
      <4> QED BY <1>1, <1>2, <1>4, <1>5, <1>7, <1>9, <4>2 DEF At
    <3>4. CASE x # b /\ x # n /\ on[x] = q /\ r[x] \in 1..(r[b] - 1) /\ s[x] = r[x]
      <4>1. m.prev[x] = l.prev[x] /\ p[x] = q
        BY <1>1, <1>2, <3>4
      <4>2. r[x] # r[b] - 1
        <5>1. SUFFICES ASSUME r[x] = r[b] - 1 PROVE FALSE
          OBVIOUS
        <5>2. n \in Bls /\ on[n] = q /\ r[n] = r[b] - 1
          BY <1>1, <1>4, <1>6, <3>4, <5>1 DEF At
        <5> QED BY <1>8, <3>4, <5>1, <5>2
      <4>3. At(on, r, q, l.prev[x], r[x] + 1)
        BY <1>1, <1>4, <3>0, <3>4 DEF k
      <4>4. l.prev[x] # b /\ s[l.prev[x]] = r[x] + 1
        BY <1>1, <1>4, <1>9, <3>4, <4>2, <4>3 DEF At
      <4>5. s[x] # m.count[p[x]]
        BY <1>1, <1>4, <1>5, <3>4, <4>1, <4>2
      <4> QED BY <1>1, <1>2, <3>4, <4>1, <4>3, <4>4, <4>5 DEF At
    <3>5. CASE x # b /\ x # n /\ on[x] = q /\ r[x] \in (r[b] + 1)..k /\ s[x] = r[x] - 1
      <4>1. m.prev[x] = l.prev[x] /\ p[x] = q
        BY <1>1, <1>2, <3>5
      <4>2. CASE r[x] = k
        BY <1>1, <1>5, <3>0, <3>5, <4>1, <4>2 DEF k
      <4>3. CASE r[x] # k
        <5>1. At(on, r, q, l.prev[x], r[x] + 1)
          BY <1>1, <3>0, <3>5, <4>3 DEF k
        <5>2. l.prev[x] # b /\ s[l.prev[x]] = r[x]
          BY <1>1, <1>4, <1>9, <3>5, <5>1 DEF At
        <5>3. s[x] # m.count[p[x]]
          BY <1>1, <1>4, <1>5, <3>5, <4>1, <4>3
        <5> QED BY <1>1, <1>2, <1>4, <3>5, <4>1, <5>1, <5>2, <5>3 DEF At
      <4> QED BY <4>2, <4>3
    <3> QED BY <1>10, <3>1, <3>2, <3>3, <3>4, <3>5
  <2> QED BY <2>1 DEF Prevs
<1>15. Linked(m, p, s)
  BY <1>1, <1>11, <1>12, <1>13, <1>14 DEF Linked
<1> QED BY <1>15 DEF p

\* The number of players in lists changes by the block, if it is one.
LEMMA CountChanges ==
    ASSUME NEW on \in [Bls -> Lists \cup {Off}], NEW b \in Bls, NEW q \in Lists \cup {Off},
           NEW p, p = [on EXCEPT ![b] = q], on[b] = Off <=> q # Off
    PROVE  /\ Cardinality(Listed(on)) \in Int
           /\ Cardinality(Listed(p))
                = Cardinality(Listed(on)) + (IF q = Off THEN -User(b) ELSE User(b))
<1> DEFINE S == Listed(on)
           T == Listed(p)
<1>1. IsFiniteSet(S) /\ Cardinality(S) \in Int
  <2>1. S \in SUBSET Bls
    BY DEF Bls, Listed
  <2> HIDE DEF S
  <2>2. IsFiniteSet(S)
    BY <2>1, FS_Subset, BlocksAssumption
  <2> QED BY <2>2, FS_CardinalityType
<1>2. \A x \in Pcs : x \in Bls
  BY DEF Bls
<1>3. CASE b \notin Pcs
  <2>1. T = S
    BY <1>2, <1>3 DEF Listed
  <2> HIDE DEF S, T
  <2>2. Cardinality(T) = Cardinality(S) + (IF q = Off THEN -User(b) ELSE User(b))
    BY <1>1, <1>3, <2>1 DEF User
  <2> QED BY <1>1, <2>2 DEF S, T
<1>4. CASE b \in Pcs /\ q = Off
  <2>1. T = S \ {b} /\ b \in S
    BY <1>2, <1>4 DEF Listed
  <2> HIDE DEF S, T
  <2>2. Cardinality(T) = Cardinality(S) - 1
    BY <1>1, <2>1, FS_RemoveElement
  <2> QED BY <1>1, <1>4, <2>2 DEF User, S, T
<1>5. CASE b \in Pcs /\ q # Off
  <2>1. T = S \cup {b} /\ b \notin S
    BY <1>2, <1>5 DEF Listed
  <2> HIDE DEF S, T
  <2>2. Cardinality(T) = Cardinality(S) + 1
    BY <1>1, <2>1, FS_AddElement
  <2> QED BY <1>1, <1>5, <2>2 DEF User, S, T
<1> QED BY <1>3, <1>4, <1>5

-----------------------------------------------------------------------------
(* What a walk of a list finds                                             *)

\* A list is no longer than there are blocks.
LEMMA ListIsShort ==
    ASSUME NEW l, NEW on, NEW r, Numbered(l, on, r), NEW q \in Lists
    PROVE  Cardinality(Bls) \in Nat /\ l.count[q] \in 0..Cardinality(Bls)
<1> DEFINE k == l.count[q]
           f == [i \in 1..k |-> CHOOSE b \in Bls : At(on, r, q, b, i)]
<1>1. k \in Nat /\ Cardinality(Bls) \in Nat /\ IsFiniteSet(Bls)
  BY FS_CardinalityType, BlocksAssumption DEF Numbered
<1>2. \A i \in 1..k : f[i] \in Bls /\ r[f[i]] = i
  BY DEF Numbered, At
<1>3. f \in Injection(1..k, Bls)
  <2>1. f \in [1..k -> Bls]
    BY <1>2
  <2>2. \A i, j \in 1..k : f[i] = f[j] => i = j
    <3> HIDE DEF f
    <3> QED BY <1>2
  <2> HIDE DEF f
  <2> QED BY <2>1, <2>2 DEF Injection, IsInjective
<1>4. Cardinality(1..k) <= Cardinality(Bls)
  <2> HIDE DEF f, k
  <2> QED BY <1>1, <1>3, FS_Injection
<1>5. Cardinality(1..k) = k
  <2> HIDE DEF k
  <2> QED BY <1>1, UpToIs
<1> QED BY <1>1, <1>4, <1>5

IsWalk(f, h, next, n) ==
    f = [i \in 1..n |-> IF i = 1 THEN h
                        ELSE IF f[i - 1] = NullBl THEN NullBl ELSE next[f[i - 1]]]

\* There is only one walk.
LEMMA WalkIsOne ==
    ASSUME NEW f, NEW g, NEW h, NEW next, NEW n \in Nat,
           IsWalk(f, h, next, n), IsWalk(g, h, next, n)
    PROVE  f = g
<1> DEFINE Bad == {i \in 1..n : f[i] # g[i]}
<1>0. DOMAIN f = 1..n /\ DOMAIN g = 1..n /\ f = [i \in DOMAIN f |-> f[i]]
      /\ g = [i \in DOMAIN g |-> g[i]]
  BY DEF IsWalk
<1>1. SUFFICES ASSUME Bad # {} PROVE FALSE
  BY <1>0
<1>2. PICK i \in Bad : \A j \in Bad : i <= j
  <2>1. Bad \in SUBSET Nat
    OBVIOUS
  <2> HIDE DEF Bad
  <2> QED BY <1>1, <2>1, LeastExists
<1>3. i \in 1..n /\ f[i] # g[i]
  BY <1>2
<1>4. i # 1
  BY <1>3 DEF IsWalk
<1>5. f[i - 1] = g[i - 1]
  BY <1>2, <1>3, <1>4
<1>6. /\ f[i] = IF f[i - 1] = NullBl THEN NullBl ELSE next[f[i - 1]]
      /\ g[i] = IF g[i - 1] = NullBl THEN NullBl ELSE next[g[i - 1]]
  BY <1>3, <1>4 DEF IsWalk
<1> QED BY <1>3, <1>5, <1>6

\* From its head on a list has its blocks, in the order of their numbers.
LEMMA ChainIs ==
    ASSUME NEW on, NEW r, Linked(links, on, r), NEW q \in Lists
    PROVE  /\ links.count[q] \in Nat
           /\ Chain(q) \in [1..links.count[q] -> Bls]
           /\ \A i \in 1..links.count[q] : At(on, r, q, Chain(q)[i], links.count[q] - i + 1)
<1> DEFINE n == Cardinality(Bls)
           k == links.count[q]
           h == links.head[q]
           W(f) == IsWalk(f, h, links.next, n)
           at == CHOOSE f : W(f)
           g == [i \in 1..n |-> IF i <= k THEN CHOOSE b \in Bls : At(on, r, q, b, k - i + 1)
                                ELSE NullBl]
           last == IF links.count[q] < n THEN links.count[q] ELSE n
<1>1. n \in Nat /\ k \in 0..n /\ last = k
  BY ListIsShort DEF Linked
<1>2. Chain(q) = [i \in 1..Cardinality({j \in 1..last : at[j] # NullBl}) |-> at[i]]
  BY DEF Chain, IsWalk
<1>3. \A i \in 1..n : i <= k => At(on, r, q, g[i], k - i + 1)
  <2>1. ASSUME NEW i \in 1..n, i <= k PROVE \E b \in Bls : At(on, r, q, b, k - i + 1)
    <3>1. k - i + 1 \in 1..k
      BY <1>1, <2>1
    <3> QED BY <3>1 DEF Linked, Numbered
  <2> QED BY <2>1
<1>4. \A i \in 1..n : i > k => g[i] = NullBl
  BY <1>1
<1>5. DOMAIN g = 1..n /\ g = [i \in 1..n |-> g[i]]
  OBVIOUS
<1> HIDE DEF g
<1>6. \A b, c, i : At(on, r, q, b, i) /\ At(on, r, q, c, i) => b = c
  BY OffIsNone DEF Linked, Numbered, At
<1>7. ASSUME NEW i \in 1..n
      PROVE  g[i] = IF i = 1 THEN h ELSE IF g[i - 1] = NullBl THEN NullBl ELSE links.next[g[i - 1]]
  <2>1. CASE i = 1
    <3>1. IF k = 0 THEN h = NullBl ELSE At(on, r, q, h, k)
      BY DEF Linked, Heads
    <3>2. CASE k = 0
      BY <1>4, <2>1, <3>1, <3>2
    <3>3. CASE k # 0
      <4>1. At(on, r, q, g[1], k) /\ At(on, r, q, h, k)
        BY <1>1, <1>3, <2>1, <3>1, <3>3
      <4> QED BY <1>6, <2>1, <4>1
    <3> QED BY <3>2, <3>3
  <2>2. CASE i # 1 /\ i - 1 > k
    BY <1>1, <1>4, <2>2
  <2>3. CASE i # 1 /\ i - 1 <= k
    <3>1. i - 1 \in 1..n /\ k - (i - 1) + 1 = k - i + 2
      BY <1>1, <2>3
    <3>2. At(on, r, q, g[i - 1], k - i + 2)
      BY <1>3, <2>3, <3>1
    <3> DEFINE b == g[i - 1]
    <3> HIDE DEF b
    <3>3. b \in Bls /\ on[b] = q /\ r[b] = k - i + 2 /\ b # NullBl /\ on[b] # Off
      BY <3>2, OffIsNone, NullIsNone DEF At, b
    <3>4. IF r[b] = 1 THEN links.next[b] = NullBl ELSE At(on, r, q, links.next[b], r[b] - 1)
      BY <3>3 DEF Linked, Nexts
    <3>5. CASE i = k + 1
      <4>1. r[b] = 1 /\ g[i] = NullBl
        BY <1>1, <1>4, <3>3, <3>5
      <4> QED BY <2>3, <3>3, <3>4, <4>1 DEF b
    <3>6. CASE i # k + 1
      <4>1. i <= k /\ r[b] # 1 /\ r[b] - 1 = k - i + 1
        BY <1>1, <2>3, <3>3, <3>6
      <4>2. links.next[b] = g[i]
        BY <1>3, <1>6, <3>4, <4>1
      <4> QED BY <2>3, <3>3, <4>2 DEF b
    <3> QED BY <3>5, <3>6
  <2> QED BY <1>1, <2>1, <2>2, <2>3
<1>8. W(g)
  BY <1>5, <1>7 DEF IsWalk
<1>9. W(at)
  BY <1>8
<1> HIDE DEF at
<1>10. at = g
  BY <1>1, <1>8, <1>9, WalkIsOne
<1>11. {j \in 1..last : at[j] # NullBl} = 1..k
  <2>1. \A j \in 1..k : j \in 1..n /\ g[j] \in Bls
    BY <1>1, <1>3 DEF At
  <2>2. \A j \in 1..n : at[j] # NullBl => j \in 1..k
    <3>1. \A j \in 1..n : ~(j <= k) => at[j] = NullBl
      <4>1. \A j \in 1..n : ~(j <= k) => j > k
        BY <1>1
      <4> QED BY <1>4, <1>10, <4>1
    <3> HIDE DEF k, n, g
    <3> QED BY <1>1, <3>1
  <2> HIDE DEF g
  <2>3. \A j \in 1..k : at[j] # NullBl
    BY <1>10, <2>1, NullIsNone
  <2> HIDE DEF k, n, last
  <2> QED BY <1>1, <2>1, <2>2, <2>3
<1>12. Cardinality(1..k) = k
  <2> HIDE DEF k
  <2>1. k \in Nat
    BY <1>1
  <2> QED BY <2>1, UpToIs
<1>13. Chain(q) = [i \in 1..k |-> g[i]]
  BY <1>2, <1>10, <1>11, <1>12
<1>14. \A i \in 1..k : Chain(q)[i] = g[i] /\ At(on, r, q, g[i], k - i + 1)
  BY <1>1, <1>3, <1>13
<1>15. ASSUME NEW i \in 1..k PROVE g[i] \in Bls
  BY <1>14 DEF At
<1> HIDE DEF g, k
<1>16. Chain(q) \in [1..k -> Bls]
  BY <1>13, <1>15
<1>17. k \in Nat /\ \A i \in 1..k : At(on, r, q, Chain(q)[i], k - i + 1)
  BY <1>1, <1>14
<1> QED BY <1>16, <1>17 DEF k

LEMMA OnIs ==
    ASSUME BlocksTypeOK
    PROVE  /\ On \in [Bls -> Lists \cup {Off}]
           /\ \A b \in Bls : On[b] # Off <=> InList(b)
           /\ \A b \in Bls, q \in Lists : On[b] = q <=> InList(b) /\ ListOf(b, cellOf[b]) = q
<1>1. \A b \in Bls : ListOf(b, cellOf[b]) \in Lists /\ ListOf(b, cellOf[b]) # Off
  BY ListOfIs DEF BlocksTypeOK
<1> QED BY <1>1, OffIsNone DEF On, OnOf, InList

\* The lists are sound when there are numbers for their blocks.
LEMMA RowsSound ==
    ASSUME BlocksTypeOK, Rows
    PROVE  ListsSound
<1>1. PICK r : Linked(links, On, r)
  BY DEF Rows, RowsOf, On
<1>2. ASSUME NEW q \in Lists
      PROVE  LET s == Chain(q) IN
             /\ Len(s) = links.count[q]
             /\ ToSet(s) = {b \in Bls : InList(b) /\ ListOf(b, cellOf[b]) = q}
             /\ Cardinality(ToSet(s)) = Len(s)
             /\ \A i \in DOMAIN s : links.prev[s[i]] = IF i = 1 THEN ListHead ELSE s[i - 1]
  <2> DEFINE s == Chain(q)
             k == links.count[q]
             B == {b \in Bls : On[b] = q}
  <2>1. k \in Nat /\ s \in [1..k -> Bls] /\ \A i \in 1..k : At(On, r, q, s[i], k - i + 1)
    BY <1>1, ChainIs
  <2> HIDE DEF s
  <2>2. Len(s) = k /\ DOMAIN s = 1..k
    BY <2>1
  <2>3. \A b \in Bls : On[b] = q => r[b] \in 1..k
    BY <1>1, OffIsNone DEF Linked, Numbered
  <2>4. \A b, c \in Bls : On[b] = q /\ On[c] = q /\ r[b] = r[c] => b = c
    BY <1>1, OffIsNone DEF Linked, Numbered
  <2>5. ToSet(s) = B
    <3>1. ASSUME NEW b \in B PROVE b \in ToSet(s)
      <4>1. r[b] \in 1..k /\ k - r[b] + 1 \in 1..k
        BY <2>1, <2>3
      <4>2. At(On, r, q, s[k - r[b] + 1], r[b])
        <5>1. k - (k - r[b] + 1) + 1 = r[b]
          BY <2>1, <4>1
        <5>2. At(On, r, q, s[k - r[b] + 1], k - (k - r[b] + 1) + 1)
          BY <2>1, <4>1
        <5> QED BY <5>1, <5>2
      <4>3. s[k - r[b] + 1] = b
        BY <2>4, <4>2 DEF At
      <4> QED BY <2>2, <4>1, <4>3 DEF ToSet
    <3>2. ASSUME NEW i \in 1..k PROVE s[i] \in B
      BY <2>1 DEF At
    <3> QED BY <2>2, <3>1, <3>2 DEF ToSet
  <2>6. Cardinality(ToSet(s)) = k
    <3>1. s \in Surjection(1..k, ToSet(s))
      BY <2>1, <2>2 DEF Surjection, ToSet
    <3>2. \A i, j \in 1..k : s[i] = s[j] => i = j
      BY <2>1 DEF At
    <3>3. s \in Injection(1..k, ToSet(s))
      BY <2>1, <2>2, <3>2 DEF Injection, IsInjective, ToSet
    <3>4. IsFiniteSet(1..k) /\ Cardinality(1..k) = k
      BY <2>1, UpToIs
    <3>5. s \in Bijection(1..k, ToSet(s))
      BY <3>1, <3>3 DEF Bijection
    <3> QED BY <3>4, <3>5, FS_Bijection DEF ExistsBijection
  <2>7. ASSUME NEW i \in 1..k PROVE links.prev[s[i]] = IF i = 1 THEN ListHead ELSE s[i - 1]
    <3> DEFINE b == s[i]
    <3>1. b \in Bls /\ On[b] = q /\ r[b] = k - i + 1 /\ On[b] # Off
      BY <2>1, OffIsNone DEF At
    <3> HIDE DEF b
    <3>2. IF r[b] = k THEN links.prev[b] = ListHead ELSE At(On, r, q, links.prev[b], r[b] + 1)
      BY <1>1, <3>1 DEF Linked, Prevs
    <3>3. CASE i = 1
      BY <2>1, <3>1, <3>2, <3>3 DEF b
    <3>4. CASE i # 1
      <4>1. r[b] # k /\ i - 1 \in 1..k /\ k - (i - 1) + 1 = r[b] + 1
        BY <2>1, <3>1, <3>4
      <4>2. At(On, r, q, s[i - 1], r[b] + 1)
        <5>1. At(On, r, q, s[i - 1], k - (i - 1) + 1)
          BY <2>1, <4>1
        <5> QED BY <4>1, <5>1
      <4> QED BY <2>4, <3>2, <3>4, <4>1, <4>2 DEF At, b
    <3> QED BY <3>3, <3>4
  <2>8. B = {b \in Bls : InList(b) /\ ListOf(b, cellOf[b]) = q}
    BY OnIs
  <2> HIDE DEF B
  <2> QED BY <2>2, <2>5, <2>6, <2>7, <2>8 DEF s
<1>3. links.users = Cardinality({b \in Pcs : InList(b)})
  <2>1. Listed(On) = {b \in Pcs : InList(b)}
    BY OnIs DEF Bls, Listed
  <2> QED BY <2>1 DEF Rows, RowsOf, On, Counted
<1> QED BY <1>2, <1>3 DEF ListsSound

LEMMA AddRows ==
    ASSUME NEW l, NEW cell, RowsOf(l, cell), NEW b \in Bls, NEW c \in Cells, l.prev[b] = NullBl
    PROVE  LET m == AddBlock(l, b, c) IN
           /\ RowsOf(m, [cell EXCEPT ![b] = c]) /\ m \in LinkData
           /\ m.prev[b] # NullBl
           /\ \A x \in Bls \ {b} : m.prev[x] # NullBl <=> l.prev[x] # NullBl
<1> DEFINE m == AddBlock(l, b, c)
           q == ListOf(b, c)
           e == [cell EXCEPT ![b] = c]
           on == OnOf(l, cell)
           p == [on EXCEPT ![b] = q]
<1>1. PICK r : Linked(l, on, r)
  BY DEF RowsOf
<1>2. /\ l \in LinkData /\ cell \in [Bls -> Cells] /\ on \in [Bls -> Lists \cup {Off}]
      /\ on[b] = Off /\ q \in Lists /\ q # Off
  <2>1. l \in LinkData /\ cell \in [Bls -> Cells] /\ on \in [Bls -> Lists \cup {Off}]
    BY <1>1 DEF Linked, Numbered, RowsOf
  <2>2. on[b] = Off
    BY DEF OnOf
  <2> QED BY <2>1, <2>2, ListOfIs
<1>3. l.head[q] # b
  <2>1. SUFFICES ASSUME l.head[q] = b PROVE FALSE
    OBVIOUS
  <2> QED BY <1>1, <1>2, <2>1, NullIsNone DEF Linked, Heads, At
<1> HIDE DEF on
<1>4. Added(l, m, b, q)
  BY <1>2, <1>3, AddLinks
<1>5. PICK s : Linked(m, p, s)
  BY <1>1, <1>2, <1>4, AddNumbered
<1> HIDE DEF m, q
<1>6. \A x \in Bls \ {b} : m.prev[x] # NullBl <=> l.prev[x] # NullBl
  <2>1. ASSUME NEW x \in Bls \ {b} PROVE m.prev[x] # NullBl <=> l.prev[x] # NullBl
    <3>1. m.prev[x] = IF x = l.head[q] THEN b ELSE l.prev[x]
      BY <1>4 DEF Added
    <3>2. x = l.head[q] => on[x] # Off
      BY <1>1, <1>2, NullIsNone DEF Linked, Heads, At
    <3>3. on[x] # Off => l.prev[x] # NullBl
      BY DEF on, OnOf
    <3> QED BY <3>1, <3>2, <3>3, NullIsNone
  <2> QED BY <2>1
<1>7. m.prev[b] # NullBl
  BY <1>4, BlocksAssumption, NullIsNone DEF Added
<1>8. OnOf(m, e) = p
  <2>1. ASSUME NEW x \in Bls
        PROVE (IF m.prev[x] # NullBl THEN ListOf(x, e[x]) ELSE Off) = p[x]
    <3>1. CASE x = b
      BY <1>2, <1>7, <3>1 DEF q
    <3>2. CASE x # b
      <4>1. e[x] = cell[x] /\ p[x] = on[x]
        BY <1>2, <3>2
      <4>2. on[x] = IF l.prev[x] # NullBl THEN ListOf(x, cell[x]) ELSE Off
        BY DEF on, OnOf
      <4>3. m.prev[x] # NullBl <=> l.prev[x] # NullBl
        BY <1>6, <3>2
      <4> HIDE DEF p, e
      <4> QED BY <4>1, <4>2, <4>3
    <3> QED BY <3>1, <3>2
  <2>2. p \in [Bls -> Lists \cup {Off}]
    BY <1>2
  <2> HIDE DEF p, e
  <2> QED BY <2>1, <2>2 DEF OnOf
<1>9. Counted(m, p)
  <2>1. Counted(l, on)
    BY DEF RowsOf, on
  <2>2. m.users = l.users + User(b)
    BY <1>4 DEF Added
  <2>3. Cardinality(Listed(p))
          = Cardinality(Listed(on)) + (IF q = Off THEN -User(b) ELSE User(b))
    <3>1. (on[b] = Off <=> q # Off) /\ q \in Lists \cup {Off}
      BY <1>2
    <3> HIDE DEF p
    <3>2. p = [on EXCEPT ![b] = q]
      BY DEF p
    <3> QED BY <1>2, <3>1, <3>2, CountChanges, Zenon
  <2> QED BY <1>2, <2>1, <2>2, <2>3 DEF Counted
<1>10. e \in [Bls -> Cells] /\ m \in LinkData
  BY <1>2, <1>4 DEF Added
<1> QED BY <1>5, <1>6, <1>7, <1>8, <1>9, <1>10 DEF RowsOf, m

LEMMA DelRows ==
    ASSUME NEW l, NEW cell, RowsOf(l, cell), NEW b \in Bls, l.prev[b] # NullBl
    PROVE  LET m == DelBlock(l, b, cell[b]) IN
           /\ RowsOf(m, cell) /\ m \in LinkData
           /\ m.prev[b] = NullBl
           /\ \A x \in Bls \ {b} : m.prev[x] # NullBl <=> l.prev[x] # NullBl
<1> DEFINE m == DelBlock(l, b, cell[b])
           q == ListOf(b, cell[b])
           on == OnOf(l, cell)
           p == [on EXCEPT ![b] = Off]
<1>1. PICK r : Linked(l, on, r)
  BY DEF RowsOf
<1>2. /\ l \in LinkData /\ cell \in [Bls -> Cells] /\ on \in [Bls -> Lists \cup {Off}]
      /\ on[b] = q /\ q \in Lists /\ q # Off
  <2>1. l \in LinkData /\ cell \in [Bls -> Cells] /\ on \in [Bls -> Lists \cup {Off}]
    BY <1>1 DEF Linked, Numbered, RowsOf
  <2> QED BY <2>1, ListOfIs DEF OnOf
<1> HIDE DEF on
<1>4. Deleted(l, m, b, q)
  BY <1>2, DelLinks
<1>5. PICK s : Linked(m, p, s)
  BY <1>1, <1>2, <1>4, DelNumbered
<1> HIDE DEF m, q
<1>6. \A x \in Bls \ {b} : m.prev[x] # NullBl <=> l.prev[x] # NullBl
  <2>1. ASSUME NEW x \in Bls \ {b} PROVE m.prev[x] # NullBl <=> l.prev[x] # NullBl
    <3>1. m.prev[x] = IF x = l.next[b] THEN l.prev[b] ELSE l.prev[x]
      BY <1>4 DEF Deleted
    <3>2. x = l.next[b] => on[x] # Off
      <4>1. IF on[b] = Off \/ r[b] = 1 THEN l.next[b] = NullBl
            ELSE At(on, r, on[b], l.next[b], r[b] - 1)
        BY <1>1 DEF Linked, Nexts
      <4> QED BY <1>2, <4>1, NullIsNone DEF At
    <3>3. on[x] # Off => l.prev[x] # NullBl
      BY DEF on, OnOf
    <3> QED BY <3>1, <3>2, <3>3
  <2> QED BY <2>1
<1>7. m.prev[b] = NullBl
  BY <1>4 DEF Deleted
<1>8. OnOf(m, cell) = p
  <2>1. ASSUME NEW x \in Bls
        PROVE (IF m.prev[x] # NullBl THEN ListOf(x, cell[x]) ELSE Off) = p[x]
    <3>1. CASE x = b
      BY <1>2, <1>7, <3>1
    <3>2. CASE x # b
      <4>1. p[x] = on[x]
        BY <1>2, <3>2
      <4>2. on[x] = IF l.prev[x] # NullBl THEN ListOf(x, cell[x]) ELSE Off
        BY DEF on, OnOf
      <4>3. m.prev[x] # NullBl <=> l.prev[x] # NullBl
        BY <1>6, <3>2
      <4> HIDE DEF p
      <4> QED BY <4>1, <4>2, <4>3
    <3> QED BY <3>1, <3>2
  <2>2. p \in [Bls -> Lists \cup {Off}]
    BY <1>2
  <2> HIDE DEF p
  <2> QED BY <2>1, <2>2 DEF OnOf
<1>9. Counted(m, p)
  <2>1. Counted(l, on)
    BY DEF RowsOf, on
  <2>2. m.users = l.users - User(b)
    BY <1>4 DEF Deleted
  <2>3. /\ Cardinality(Listed(on)) \in Int
        /\ Cardinality(Listed(p))
             = Cardinality(Listed(on)) + (IF Off = Off THEN -User(b) ELSE User(b))
    <3>1. (on[b] = Off <=> Off # Off) /\ Off \in Lists \cup {Off}
      BY <1>2
    <3> HIDE DEF p
    <3>2. p = [on EXCEPT ![b] = Off]
      BY DEF p
    <3> QED BY <1>2, <3>1, <3>2, CountChanges, Zenon
  <2>4. User(b) \in Int
    BY DEF User
  <2> HIDE DEF p
  <2> QED BY <1>2, <2>1, <2>2, <2>3, <2>4 DEF Counted
<1>10. m \in LinkData
  BY <1>4 DEF Deleted
<1> QED BY <1>2, <1>5, <1>6, <1>7, <1>8, <1>9, <1>10 DEF RowsOf, m

-----------------------------------------------------------------------------
(* Sequences put one behind the other                                      *)

\* f has the first of the sequences, then the first two, and so on.
IsFlat(f, seqs, m) ==
    f = [i \in 1..m |-> IF i = 1 THEN seqs[i] ELSE f[i - 1] \o seqs[i]]

LEMMA FlatExists ==
    ASSUME NEW S, NEW n \in Nat, NEW seqs \in [1..n -> Seq(S)]
    PROVE  \E f \in [1..n -> Seq(S)] : IsFlat(f, seqs, n)
<1> DEFINE Has(m) == \E f \in [1..m -> Seq(S)] : IsFlat(f, seqs, m)
           Bad == {m \in 0..n : ~Has(m)}
<1>1. SUFFICES ASSUME Bad # {} PROVE FALSE
  OBVIOUS
<1>2. PICK m \in Bad : \A k \in Bad : m <= k
  <2>1. Bad \in SUBSET Nat
    OBVIOUS
  <2> HIDE DEF Bad
  <2> QED BY <1>1, <2>1, LeastExists
<1>3. m \in 0..n /\ ~Has(m)
  BY <1>2
<1>4. m # 0
  <2>1. \E f \in [1..0 -> Seq(S)] : IsFlat(f, seqs, 0)
    <3> DEFINE f == [i \in 1..0 |-> <<>>]
    <3>1. f \in [1..0 -> Seq(S)] /\ f = [i \in 1..0 |-> IF i = 1 THEN seqs[i] ELSE f[i - 1] \o seqs[i]]
      OBVIOUS
    <3> HIDE DEF f
    <3> QED BY <3>1 DEF IsFlat
  <2> QED BY <1>3, <2>1
<1>5. m - 1 \in 0..n /\ Has(m - 1)
  <2>1. m - 1 \in 0..n
    BY <1>3, <1>4
  <2>2. m - 1 \notin Bad
    <3> HIDE DEF Bad
    <3> QED BY <1>2, <1>3, <2>1
  <2> QED BY <2>1, <2>2
<1>6. PICK g \in [1..(m - 1) -> Seq(S)] : IsFlat(g, seqs, m - 1)
  BY <1>5
<1> DEFINE last == IF m = 1 THEN seqs[m] ELSE g[m - 1] \o seqs[m]
           f == [i \in 1..m |-> IF i = m THEN last ELSE g[i]]
<1>7. last \in Seq(S)
  <2>1. CASE m = 1
    BY <1>3, <2>1
  <2>2. CASE m # 1
    <3>1. g[m - 1] \in Seq(S) /\ seqs[m] \in Seq(S)
      BY <1>3, <1>4, <1>6, <2>2
    <3> QED BY <2>2, <3>1
  <2> QED BY <2>1, <2>2
<1> HIDE DEF last
<1>8. f \in [1..m -> Seq(S)] /\ f[m] = last /\ \A i \in 1..(m - 1) : f[i] = g[i]
  BY <1>3, <1>4, <1>6, <1>7
<1>9. DOMAIN f = 1..m /\ f = [i \in 1..m |-> f[i]]
  OBVIOUS
<1> HIDE DEF f
<1>10. \A i \in 1..(m - 1) : g[i] = IF i = 1 THEN seqs[i] ELSE g[i - 1] \o seqs[i]
  BY <1>6 DEF IsFlat
<1>11. ASSUME NEW i \in 1..m PROVE f[i] = IF i = 1 THEN seqs[i] ELSE f[i - 1] \o seqs[i]
  <2>1. CASE i = m /\ m = 1
    BY <1>8, <2>1 DEF last
  <2>2. CASE i = m /\ m # 1
    <3>1. f[m - 1] = g[m - 1]
      BY <1>3, <1>4, <1>8, <2>2
    <3> QED BY <1>8, <2>2, <3>1 DEF last
  <2>3. CASE i # m
    <3>1. i \in 1..(m - 1) /\ (i # 1 => i - 1 \in 1..(m - 1))
      BY <1>3, <2>3
    <3>2. f[i] = g[i] /\ (i # 1 => f[i - 1] = g[i - 1])
      BY <1>8, <3>1
    <3> QED BY <1>10, <3>1, <3>2
  <2> QED BY <2>1, <2>2, <2>3
<1>12. IsFlat(f, seqs, m)
  BY <1>9, <1>11 DEF IsFlat
<1> QED BY <1>3, <1>8, <1>12

LEMMA FlatIsOne ==
    ASSUME NEW f, NEW g, NEW seqs, NEW n \in Nat, IsFlat(f, seqs, n), IsFlat(g, seqs, n)
    PROVE  f = g
<1> DEFINE Bad == {i \in 1..n : f[i] # g[i]}
<1>0. DOMAIN f = 1..n /\ DOMAIN g = 1..n /\ f = [i \in DOMAIN f |-> f[i]]
      /\ g = [i \in DOMAIN g |-> g[i]]
  BY DEF IsFlat
<1>1. SUFFICES ASSUME Bad # {} PROVE FALSE
  BY <1>0
<1>2. PICK i \in Bad : \A j \in Bad : i <= j
  <2>1. Bad \in SUBSET Nat
    OBVIOUS
  <2> HIDE DEF Bad
  <2> QED BY <1>1, <2>1, LeastExists
<1>3. i \in 1..n /\ f[i] # g[i]
  BY <1>2
<1>4. i # 1
  BY <1>3 DEF IsFlat
<1>5. f[i - 1] = g[i - 1]
  BY <1>2, <1>3, <1>4
<1>6. f[i] = f[i - 1] \o seqs[i] /\ g[i] = g[i - 1] \o seqs[i]
  BY <1>3, <1>4 DEF IsFlat
<1> QED BY <1>3, <1>5, <1>6

Apart(s) == \A i, j \in 1..Len(s) : s[i] = s[j] => i = j

PartsApart(seqs, n) ==
    \A k, m \in 1..n : \A i \in 1..Len(seqs[k]), j \in 1..Len(seqs[m]) :
        seqs[k][i] = seqs[m][j] => k = m /\ i = j

\* What is in s is in one of the first k sequences.
From1(s, seqs, k) ==
    \A i \in 1..Len(s) : \E m \in 1..k : \E j \in 1..Len(seqs[m]) : s[i] = seqs[m][j]

LEMMA FlattenIs ==
    ASSUME NEW S, NEW n \in Nat, NEW seqs \in [1..n -> Seq(S)]
    PROVE  /\ FlattenSeq(seqs) \in Seq(S)
           /\ From1(FlattenSeq(seqs), seqs, n)
           /\ PartsApart(seqs, n) => Apart(FlattenSeq(seqs))
<1>0. Len(seqs) = n
  OBVIOUS
<1>1. CASE n = 0
  <2>1. seqs = <<>>
    BY <1>1
  <2>2. FlattenSeq(seqs) = <<>>
    BY <1>0, <1>1, <2>1 DEF FlattenSeq
  <2> QED BY <2>2 DEF From1, Apart
<1>2. CASE n # 0
  <2> DEFINE f == CHOOSE f : IsFlat(f, seqs, n)
  <2>1. FlattenSeq(seqs) = f[n]
    BY <1>0, <1>2 DEF FlattenSeq, IsFlat
  <2>2. PICK g \in [1..n -> Seq(S)] : IsFlat(g, seqs, n)
    BY FlatExists
  <2>3. IsFlat(f, seqs, n)
    BY <2>2
  <2> HIDE DEF f
  <2>4. f = g
    BY <2>2, <2>3, FlatIsOne
  <2>5. f \in [1..n -> Seq(S)]
    BY <2>2, <2>4
  <2>6. f[1] = seqs[1] /\ \A i \in 1..n : i # 1 => f[i] = f[i - 1] \o seqs[i]
    <3>1. f[1] = seqs[1]
      BY <1>2, <2>3 DEF IsFlat
    <3>2. ASSUME NEW i \in 1..n, i # 1 PROVE f[i] = f[i - 1] \o seqs[i]
      BY <2>3, <3>2 DEF IsFlat
    <3> QED BY <3>1, <3>2
  <2> DEFINE Fine(k) == From1(f[k], seqs, k) /\ (PartsApart(seqs, n) => Apart(f[k]))
             Bad == {k \in 1..n : ~Fine(k)}
  <2>7. Bad = {}
    <3>1. SUFFICES ASSUME Bad # {} PROVE FALSE
      OBVIOUS
    <3>2. PICK k \in Bad : \A j \in Bad : k <= j
      <4>1. Bad \in SUBSET Nat
        OBVIOUS
      <4> HIDE DEF Bad
      <4> QED BY <3>1, <4>1, LeastExists
    <3>3. k \in 1..n /\ ~Fine(k)
      BY <3>2
    <3>4. k # 1
      <4>1. Fine(1)
        BY <1>2, <2>6 DEF From1, Apart, PartsApart
      <4> QED BY <3>3, <4>1
    <3>5. k - 1 \in 1..n /\ Fine(k - 1)
      <4>1. k - 1 \in 1..n /\ k - 1 \notin Bad
        BY <3>2, <3>3, <3>4
      <4> QED BY <4>1
    <3> DEFINE a == f[k - 1]
               b == seqs[k]
    <3>6. f[k] = a \o b /\ a \in Seq(S) /\ b \in Seq(S)
      BY <2>5, <2>6, <3>3, <3>4, <3>5
    <3>7. From1(a, seqs, k - 1) /\ (PartsApart(seqs, n) => Apart(a))
      BY <3>5
    <3> DEFINE c == f[k]
    <3> HIDE DEF a, c, Fine
    <3>8. /\ Len(a) \in Nat /\ Len(b) \in Nat /\ Len(c) = Len(a) + Len(b)
          /\ \A i \in 1..Len(c) : c[i] = IF i <= Len(a) THEN a[i] ELSE b[i - Len(a)]
      <4> HIDE DEF b
      <4> QED BY <3>6 DEF c
    <3>9. From1(c, seqs, k)
      <4>1. ASSUME NEW i \in 1..Len(c)
            PROVE \E m \in 1..k : \E j \in 1..Len(seqs[m]) : c[i] = seqs[m][j]
        <5>1. CASE i <= Len(a)
          <6>1. i \in 1..Len(a) /\ c[i] = a[i]
            BY <3>8, <5>1
          <6>2. PICK m \in 1..(k - 1) : \E j \in 1..Len(seqs[m]) : a[i] = seqs[m][j]
            BY <3>7, <6>1 DEF From1
          <6> QED BY <3>3, <6>1, <6>2
        <5>2. CASE ~(i <= Len(a))
          <6>1. i - Len(a) \in 1..Len(seqs[k]) /\ c[i] = seqs[k][i - Len(a)]
            BY <3>8, <5>2
          <6> QED BY <3>3, <6>1
        <5> QED BY <5>1, <5>2
      <4> QED BY <4>1 DEF From1
    <3>10. ASSUME PartsApart(seqs, n) PROVE Apart(c)
      <4>1. ASSUME NEW i \in 1..Len(c), NEW j \in 1..Len(c), c[i] = c[j], i < j PROVE FALSE
        <5>1. CASE j <= Len(a)
          <6>1. i \in 1..Len(a) /\ j \in 1..Len(a) /\ a[i] = a[j]
            BY <3>8, <4>1, <5>1
          <6> QED BY <3>7, <3>10, <4>1, <6>1 DEF Apart
        <5>2. CASE i > Len(a)
          <6>1. /\ i - Len(a) \in 1..Len(seqs[k]) /\ j - Len(a) \in 1..Len(seqs[k])
                /\ seqs[k][i - Len(a)] = seqs[k][j - Len(a)]
            BY <3>8, <4>1, <5>2
          <6>2. i - Len(a) = j - Len(a)
            BY <3>3, <3>10, <6>1 DEF PartsApart
          <6> QED BY <3>8, <4>1, <6>2
        <5>3. CASE i <= Len(a) /\ j > Len(a)
          <6>1. i \in 1..Len(a) /\ c[i] = a[i]
            BY <3>8, <5>3
          <6>2. PICK m \in 1..(k - 1) : \E h \in 1..Len(seqs[m]) : a[i] = seqs[m][h]
            BY <3>7, <6>1 DEF From1
          <6>3. j - Len(a) \in 1..Len(seqs[k]) /\ c[j] = seqs[k][j - Len(a)]
            BY <3>8, <5>3
          <6>4. m \in 1..n /\ m # k
            BY <3>3, <6>2
          <6>5. PICK h \in 1..Len(seqs[m]) : a[i] = seqs[m][h]
            BY <6>2
          <6>6. seqs[m][h] = seqs[k][j - Len(a)]
            BY <4>1, <6>1, <6>3, <6>5
          <6>7. m = k
            BY <3>3, <3>10, <6>3, <6>4, <6>5, <6>6 DEF PartsApart
          <6> QED BY <6>4, <6>7
        <5> QED BY <3>8, <4>1, <5>1, <5>2, <5>3
      <4>2. \A i, j \in 1..Len(c) : i < j \/ j < i \/ i = j
        BY <3>8
      <4> QED BY <4>1, <4>2 DEF Apart
    <3> QED BY <3>3, <3>9, <3>10 DEF Fine, c
  <2>8. n \in 1..n /\ f[n] \in Seq(S)
    BY <1>2, <2>5
  <2> QED BY <2>1, <2>7, <2>8
<1> QED BY <1>1, <1>2

-----------------------------------------------------------------------------
(* What a foreach finds                                                    *)

Finds(s) == s \in Seq(Bls) /\ Apart(s) /\ \A i \in 1..Len(s) : InList(s[i])

LEMMA ChainFinds ==
    ASSUME BlocksTypeOK, Rows, NEW q \in Lists
    PROVE  /\ Chain(q) \in Seq(Bls) /\ Apart(Chain(q))
           /\ \A i \in 1..Len(Chain(q)) :
                 LET b == Chain(q)[i] IN b \in Bls /\ InList(b) /\ ListOf(b, cellOf[b]) = q
<1>1. PICK r : Linked(links, On, r)
  BY DEF Rows, RowsOf, On
<1> DEFINE s == Chain(q)
           k == links.count[q]
<1>2. k \in Nat /\ s \in [1..k -> Bls] /\ \A i \in 1..k : At(On, r, q, s[i], k - i + 1)
  BY <1>1, ChainIs
<1> HIDE DEF s
<1>3. s \in Seq(Bls) /\ Len(s) = k
  BY <1>2
<1>4. \A i, j \in 1..k : s[i] = s[j] => i = j
  BY <1>2 DEF At
<1>5. ASSUME NEW i \in 1..k
      PROVE s[i] \in Bls /\ InList(s[i]) /\ ListOf(s[i], cellOf[s[i]]) = q
  <2>1. s[i] \in Bls /\ On[s[i]] = q
    BY <1>2 DEF At
  <2> QED BY <2>1, OnIs
<1> QED BY <1>3, <1>4, <1>5 DEF s, Apart

LEMMA ListTells ==
    ASSUME NEW b \in Bls, NEW c, NEW d, NEW mobs \in BOOLEAN, ListOf(b, c) = <<d, mobs>>
    PROVE  c = d /\ (b \in Mobs <=> mobs)
<1> DEFINE t == b \in Mobs
<1>1. <<c, t>> = <<d, mobs>>
  BY DEF ListOf
<1> HIDE DEF t
<1>2. c = d /\ t = mobs
  BY <1>1
<1> QED BY <1>2 DEF t

ChainsIn(area, mobs) == [c \in Cells |-> IF c \in area THEN Chain(<<c, mobs>>) ELSE <<>>]

LEMMA AreaFinds ==
    ASSUME BlocksTypeOK, Rows, NEW area, NEW mobs \in BOOLEAN
    PROVE  LET s == FlattenSeq(ChainsIn(area, mobs)) IN
           Finds(s) /\ \A i \in 1..Len(s) : s[i] \in Mobs <=> mobs
<1> DEFINE seqs == ChainsIn(area, mobs)
           s == FlattenSeq(seqs)
<1>1. Cells = 1..LastCell /\ LastCell \in Nat
  BY BlocksAssumption DEF Cells
<1>2. \A c \in Cells : <<c, mobs>> \in Lists
  BY DEF Lists
<1>3. seqs \in [1..LastCell -> Seq(Bls)]
  <2>1. ASSUME NEW c \in Cells
        PROVE (IF c \in area THEN Chain(<<c, mobs>>) ELSE <<>>) \in Seq(Bls)
    BY <1>2, ChainFinds
  <2> QED BY <1>1, <2>1 DEF ChainsIn
<1>4. ASSUME NEW c \in 1..LastCell, NEW i \in 1..Len(seqs[c])
      PROVE /\ seqs[c][i] \in Bls /\ InList(seqs[c][i])
            /\ cellOf[seqs[c][i]] = c /\ (seqs[c][i] \in Mobs <=> mobs)
            /\ seqs[c] = Chain(<<c, mobs>>)
  <2>1. seqs[c] = IF c \in area THEN Chain(<<c, mobs>>) ELSE <<>>
    BY <1>1 DEF ChainsIn
  <2> HIDE DEF seqs
  <2>2. seqs[c] = Chain(<<c, mobs>>)
    BY <2>1
  <2> DEFINE b == seqs[c][i]
  <2>3. b \in Bls /\ InList(b) /\ ListOf(b, cellOf[b]) = <<c, mobs>>
    BY <1>1, <1>2, <2>2, ChainFinds
  <2> HIDE DEF b
  <2>4. cellOf[b] = c /\ (b \in Mobs <=> mobs)
    BY <2>3, ListTells
  <2> QED BY <2>2, <2>3, <2>4 DEF b
<1> HIDE DEF seqs
<1>5. PartsApart(seqs, LastCell)
  <2>1. ASSUME NEW k \in 1..LastCell, NEW m \in 1..LastCell,
               NEW i \in 1..Len(seqs[k]), NEW j \in 1..Len(seqs[m]), seqs[k][i] = seqs[m][j]
        PROVE k = m /\ i = j
    <3>1. k = m
      <4>1. cellOf[seqs[k][i]] = k
        BY <1>4
      <4>2. cellOf[seqs[m][j]] = m
        BY <1>4
      <4> QED BY <2>1, <4>1, <4>2
    <3>2. Apart(seqs[k])
      BY <1>1, <1>2, <1>4, ChainFinds
    <3> QED BY <2>1, <3>1, <3>2 DEF Apart
  <2> QED BY <2>1 DEF PartsApart
<1>6. s \in Seq(Bls) /\ From1(s, seqs, LastCell) /\ Apart(s)
  BY <1>1, <1>3, <1>5, FlattenIs
<1> HIDE DEF s
<1>7. ASSUME NEW i \in 1..Len(s) PROVE InList(s[i]) /\ (s[i] \in Mobs <=> mobs)
  <2>1. PICK m \in 1..LastCell : \E j \in 1..Len(seqs[m]) : s[i] = seqs[m][j]
    BY <1>6 DEF From1
  <2>2. PICK j \in 1..Len(seqs[m]) : s[i] = seqs[m][j]
    BY <2>1
  <2>3. InList(seqs[m][j]) /\ (seqs[m][j] \in Mobs <=> mobs)
    BY <1>4
  <2> QED BY <2>2, <2>3
<1> QED BY <1>6, <1>7 DEF Finds, s, seqs

LEMMA BothFind ==
    ASSUME NEW s, NEW t, Finds(s), Finds(t),
           \A i \in 1..Len(s), j \in 1..Len(t) : s[i] # t[j]
    PROVE  Finds(s \o t)
<1> DEFINE c == s \o t
<1>1. s \in Seq(Bls) /\ t \in Seq(Bls) /\ c \in Seq(Bls)
  BY DEF Finds
<1>2. /\ Len(s) \in Nat /\ Len(t) \in Nat /\ Len(c) = Len(s) + Len(t)
      /\ \A i \in 1..Len(c) : c[i] = IF i <= Len(s) THEN s[i] ELSE t[i - Len(s)]
  BY <1>1
<1> HIDE DEF c
<1>3. \A i \in 1..Len(c) : i <= Len(s) => i \in 1..Len(s) /\ c[i] = s[i]
  BY <1>2
<1>4. \A i \in 1..Len(c) : ~(i <= Len(s)) => i - Len(s) \in 1..Len(t) /\ c[i] = t[i - Len(s)]
  BY <1>2
<1>5. ASSUME NEW i \in 1..Len(c) PROVE InList(c[i])
  BY <1>3, <1>4 DEF Finds
<1>6. ASSUME NEW i \in 1..Len(c), NEW j \in 1..Len(c), c[i] = c[j] PROVE i = j
  <2>1. CASE i <= Len(s) /\ j <= Len(s)
    BY <1>3, <1>6, <2>1 DEF Finds, Apart
  <2>2. CASE ~(i <= Len(s)) /\ ~(j <= Len(s))
    <3>1. i - Len(s) = j - Len(s)
      BY <1>4, <1>6, <2>2 DEF Finds, Apart
    <3> QED BY <1>2, <3>1
  <2>3. CASE i <= Len(s) /\ ~(j <= Len(s))
    BY <1>3, <1>4, <1>6, <2>3
  <2>4. CASE ~(i <= Len(s)) /\ j <= Len(s)
    BY <1>3, <1>4, <1>6, <2>4
  <2> QED BY <2>1, <2>2, <2>3, <2>4
<1> QED BY <1>1, <1>5, <1>6 DEF Finds, Apart, c

\* What is used, and so live, is in a list.
LEMMA ObjectsAreFound ==
    ASSUME BlocksTypeOK, ObjectsFound, IdsOnce, Placed
    PROVE  LET s == FlattenSeq([i \in 1..(lastId - 1) |->
                        IF object[i + 1] = NullBl THEN <<>> ELSE <<object[i + 1]>>]) IN
           Finds(s)
<1> DEFINE n == IF lastId = 0 THEN 0 ELSE lastId - 1
           seqs == [i \in 1..(lastId - 1) |->
                        IF object[i + 1] = NullBl THEN <<>> ELSE <<object[i + 1]>>]
           s == FlattenSeq(seqs)
<1>1. n \in Nat /\ 1..(lastId - 1) = 1..n /\ \A i \in 1..n : i + 1 \in ObjectIds
  BY BlocksAssumption DEF BlocksTypeOK, ObjectIds
<1>2. \A i \in ObjectIds : object[i] \in Things \cup {NullBl}
  BY DEF BlocksTypeOK
<1>3. ASSUME NEW b \in Bls PROVE <<b>> \in Seq(Bls) /\ Len(<<b>>) = 1 /\ <<b>>[1] = b
  OBVIOUS
<1>4. Things \subseteq Bls
  BY DEF Bls
<1>5. seqs \in [1..n -> Seq(Bls)]
  <2>1. ASSUME NEW i \in 1..n
        PROVE (IF object[i + 1] = NullBl THEN <<>> ELSE <<object[i + 1]>>) \in Seq(Bls)
    BY <1>1, <1>2, <1>3, <1>4
  <2> QED BY <1>1, <2>1
<1>6. ASSUME NEW k \in 1..n, NEW i \in 1..Len(seqs[k])
      PROVE i = 1 /\ object[k + 1] # NullBl /\ seqs[k][i] = object[k + 1]
  <2>1. seqs[k] = IF object[k + 1] = NullBl THEN <<>> ELSE <<object[k + 1]>>
    BY <1>1
  <2>2. object[k + 1] \in Things \cup {NullBl}
    BY <1>1, <1>2
  <2> HIDE DEF seqs
  <2>3. object[k + 1] # NullBl
    BY <2>1
  <2>4. Len(seqs[k]) = 1 /\ seqs[k][1] = object[k + 1]
    BY <1>3, <1>4, <2>1, <2>2, <2>3
  <2> QED BY <2>3, <2>4
<1> HIDE DEF seqs, n
<1>7. PartsApart(seqs, n)
  <2>1. ASSUME NEW k \in 1..n, NEW m \in 1..n,
               NEW i \in 1..Len(seqs[k]), NEW j \in 1..Len(seqs[m]), seqs[k][i] = seqs[m][j]
        PROVE k = m /\ i = j
    <3>1. i = 1 /\ object[k + 1] # NullBl /\ seqs[k][i] = object[k + 1]
      BY <1>6
    <3>2. j = 1 /\ seqs[m][j] = object[m + 1]
      BY <1>6
    <3>3. k + 1 = m + 1
      BY <1>1, <2>1, <3>1, <3>2 DEF IdsOnce
    <3> QED BY <1>1, <3>1, <3>2, <3>3
  <2> QED BY <2>1 DEF PartsApart
<1>8. s \in Seq(Bls) /\ From1(s, seqs, n) /\ Apart(s)
  BY <1>1, <1>5, <1>7, FlattenIs
<1> HIDE DEF s
<1>9. ASSUME NEW i \in 1..Len(s) PROVE InList(s[i])
  <2>1. PICK m \in 1..n : \E j \in 1..Len(seqs[m]) : s[i] = seqs[m][j]
    BY <1>8 DEF From1
  <2>2. s[i] = object[m + 1] /\ object[m + 1] # NullBl /\ m + 1 \in ObjectIds
    BY <1>1, <1>6, <2>1
  <2>3. s[i] \in Things /\ mem[s[i]] = "live"
    BY <1>2, <2>2 DEF ObjectsFound
  <2> QED BY <2>3 DEF Placed
<1> QED BY <1>8, <1>9 DEF Finds, s, seqs

-----------------------------------------------------------------------------
(* What a step leaves as it was                                            *)

\* Frames lose blocks that stay, and nothing else changes in them.
FramesKept ==
    /\ frames' \in Seq(FrameType) /\ Len(frames') = Len(frames)
    /\ \A k \in 1..Len(frames) :
          /\ frames'[k].from = frames[k].from /\ frames'[k].at = frames[k].at
          /\ frames'[k].seen = frames[k].seen
          /\ \A b \in frames'[k].stay : b \in frames[k].stay /\ InList(b)'

LEMMA FramesAre ==
    ASSUME Walks
    PROVE  /\ Len(frames) \in Nat /\ DOMAIN frames = 1..Len(frames)
           /\ \A k \in 1..Len(frames) :
                 /\ frames[k] \in FrameType /\ frames[k].from \in Nat /\ frames[k].at \in Nat
                 /\ frames[k].stay \subseteq Bls /\ frames[k].seen \in Seq(Bls)
<1>1. frames \in Seq(FrameType)
  BY DEF Walks
<1>2. \A k \in 1..Len(frames) : frames[k] \in FrameType
  BY <1>1
<1> QED BY <1>1, <1>2 DEF FrameType

LEMMA WalksStay ==
    ASSUME Walks, FramesKept, blList' = blList, lock' \in Nat, Len(frames) <= lock',
           \A b \in Bls : frames # <<>> /\ mem[b] # "none" => mem'[b] # "none"
    PROVE  Walks'
<1>1. Len(frames) \in Nat /\ DOMAIN frames = 1..Len(frames) /\ DOMAIN frames' = 1..Len(frames)
      /\ Len(frames') = Len(frames)
  BY DEF Walks, FramesKept
<1>2. \A k \in 1..Len(frames) : EndOf(frames', blList', k) = EndOf(frames, blList, k)
  <2>1. ASSUME NEW k \in 1..Len(frames)
        PROVE EndOf(frames', blList', k) = EndOf(frames, blList, k)
    <3>1. k # Len(frames) => k + 1 \in 1..Len(frames)
      <4>1. Len(frames) \in Nat
        BY <1>1
      <4> QED BY <4>1
    <3>2. \A m \in 1..Len(frames) : frames'[m].from = frames[m].from
      BY DEF FramesKept
    <3> QED BY <1>1, <3>1, <3>2 DEF EndOf
  <2> QED BY <2>1
<1>3. Nested(frames', blList')
  BY <1>1, <1>2 DEF Walks, Nested, FramesKept
<1>4. NotFreedInUse'
  <2>1. ASSUME NEW k \in DOMAIN frames', NEW i \in frames'[k].at + 1..Len(blList')
        PROVE mem'[blList'[i]] # "none"
    <3>1. k \in DOMAIN frames /\ i \in frames[k].at + 1..Len(blList) /\ frames # <<>>
      BY <1>1, <2>1 DEF FramesKept
    <3>2. mem[blList[i]] # "none"
      BY <3>1 DEF Walks, NotFreedInUse
    <3>3. i \in 1..Len(blList)
      <4>1. frames[k].at \in Nat /\ Len(blList) \in Nat
        BY <3>1, FramesAre DEF Walks
      <4> QED BY <3>1, <4>1
    <3>4. blList[i] \in Bls
      BY <3>3 DEF Walks
    <3> QED BY <3>1, <3>2, <3>4
  <2> QED BY <2>1 DEF NotFreedInUse
<1>5. MetOnce'
  <2>1. ASSUME NEW k \in 1..Len(frames'), NEW b \in frames'[k].stay
        PROVE InList(b)' /\ Once(frames'[k], EndOf(frames', blList', k), blList', b)
    <3>1. /\ k \in 1..Len(frames) /\ b \in frames[k].stay /\ InList(b)'
          /\ frames'[k].from = frames[k].from /\ frames'[k].at = frames[k].at
          /\ frames'[k].seen = frames[k].seen
      BY <1>1, <2>1 DEF FramesKept
    <3>2. Once(frames[k], EndOf(frames, blList, k), blList, b)
      BY <3>1 DEF Walks, MetOnce
    <3>3. EndOf(frames', blList', k) = EndOf(frames, blList, k)
      BY <1>2, <3>1
    <3> QED BY <3>1, <3>2, <3>3 DEF Once, Met
  <2> QED BY <2>1 DEF MetOnce
<1> QED BY <1>1, <1>3, <1>4, <1>5 DEF Walks, FramesKept

LEMMA Undisturbed ==
    ASSUME Walks, UNCHANGED frames, \A b \in Bls : InList(b) => InList(b)'
    PROVE  FramesKept
<1>1. frames \in Seq(FrameType) /\ \A k \in 1..Len(frames) : frames[k].stay \subseteq Bls
  BY FramesAre DEF Walks
<1> QED BY <1>1 DEF Walks, MetOnce, FramesKept

LEMMA Disturbed ==
    ASSUME Walks, NEW b \in Bls, Disturb(b), \A x \in Bls \ {b} : InList(x) => InList(x)'
    PROVE  FramesKept
<1>1. Len(frames) \in Nat /\ DOMAIN frames = 1..Len(frames)
      /\ \A k \in 1..Len(frames) : frames[k] \in FrameType
  BY DEF Walks
<1> DEFINE g(k) == [frames[k] EXCEPT !.stay = @ \ {b}]
<1>2. ASSUME NEW k \in 1..Len(frames)
      PROVE /\ g(k) \in FrameType /\ g(k).from = frames[k].from /\ g(k).at = frames[k].at
            /\ g(k).seen = frames[k].seen /\ g(k).stay = frames[k].stay \ {b}
  BY <1>1 DEF FrameType
<1>3. frames' = [k \in 1..Len(frames) |-> g(k)]
  BY <1>1 DEF Disturb
<1> HIDE DEF g
<1>4. frames' \in Seq(FrameType) /\ Len(frames') = Len(frames)
  BY <1>1, <1>2, <1>3
<1>5. ASSUME NEW k \in 1..Len(frames)
      PROVE /\ frames'[k].from = frames[k].from /\ frames'[k].at = frames[k].at
            /\ frames'[k].seen = frames[k].seen
            /\ \A x \in frames'[k].stay : x \in frames[k].stay /\ InList(x)'
  <2>1. frames'[k] = g(k)
    BY <1>3
  <2>2. \A x \in frames[k].stay : x \in Bls /\ InList(x)
    BY <1>1 DEF Walks, MetOnce, FrameType
  <2> QED BY <1>2, <2>1, <2>2
<1> QED BY <1>4, <1>5 DEF FramesKept

\* A live block is freed now or later; not now while a foreach runs.
LEMMA Freed ==
    ASSUME Placed, QueueDies, Walks, NEW b \in Bls, mem[b] = "live", FreeBlock(b)
    PROVE  /\ mem' \in [Bls -> {"none", "live", "dying"}]
           /\ mem'[b] # "live" /\ (frames # <<>> => mem'[b] # "none")
           /\ \A x \in Bls \ {b} : mem'[x] = mem[x]
           /\ QueueDies'
<1>1. mem \in [Bls -> {"none", "live", "dying"}] /\ lock \in Nat
  BY DEF Placed, Walks
<1>2. queue \in Seq(Bls) /\ \A i \in 1..Len(queue) : queue[i] \in Bls \ {b}
  <2>1. ASSUME NEW i \in 1..Len(queue) PROVE queue[i] \in Bls \ {b}
    BY DEF QueueDies
  <2> QED BY <2>1 DEF QueueDies
<1>3. CASE lock = 0
  <2>1. frames = <<>>
    BY <1>3 DEF Walks
  <2>2. mem' = [mem EXCEPT ![b] = "none"] /\ queue' = queue
    BY <1>3 DEF FreeBlock
  <2>3. \A x \in Bls \ {b} : mem'[x] = mem[x]
    BY <1>1, <2>2
  <2> QED BY <1>1, <1>2, <2>1, <2>2, <2>3 DEF QueueDies
<1>4. CASE lock # 0
  <2>1. /\ mem' = [mem EXCEPT ![b] = "dying"]
        /\ queue' = IF Len(queue) >= MaxFree THEN queue ELSE Append(queue, b)
    BY <1>4 DEF FreeBlock
  <2>2. mem'[b] = "dying" /\ \A x \in Bls \ {b} : mem'[x] = mem[x]
    BY <1>1, <2>1
  <2>3. QueueDies'
    <3>1. MaxFree \in Nat
      BY BlocksAssumption
    <3>2. queue' \in Seq(Bls) /\ Len(queue') <= MaxFree
          /\ \A i \in 1..Len(queue') : queue'[i] = b \/ (i \in 1..Len(queue) /\ queue'[i] = queue[i])
      BY <1>2, <2>1, <3>1 DEF QueueDies
    <3>3. ASSUME NEW i \in 1..Len(queue') PROVE mem'[queue'[i]] = "dying"
      <4>1. CASE queue'[i] = b
        BY <2>2, <4>1
      <4>2. CASE i \in 1..Len(queue) /\ queue'[i] = queue[i]
        BY <1>2, <2>2, <4>2 DEF QueueDies
      <4> QED BY <3>2, <4>1, <4>2
    <3> QED BY <3>2, <3>3 DEF QueueDies
  <2> QED BY <1>1, <2>1, <2>2, <2>3
<1> QED BY <1>3, <1>4

LEMMA QueueFreed ==
    ASSUME Placed, QueueDies, Rows,
           mem' = [b \in Bls |-> IF b \in ToSet(queue) THEN "none" ELSE mem[b]],
           queue' = <<>>, UNCHANGED listVars
    PROVE  Placed' /\ QueueDies' /\ \A b \in Bls : mem'[b] = "live" <=> mem[b] = "live"
<1>1. \A b \in ToSet(queue) : mem[b] = "dying"
  BY DEF ToSet, QueueDies
<1>2. mem \in [Bls -> {"none", "live", "dying"}]
  BY DEF Placed
<1>3. mem' \in [Bls -> {"none", "live", "dying"}]
  BY <1>2
<1>4. \A b \in Bls : mem'[b] = "live" <=> mem[b] = "live"
  BY <1>1
<1>5. Pcs \subseteq Bls /\ Things \subseteq Bls
  BY DEF Bls
<1>6. \A b \in Bls : InList(b)' <=> InList(b)
  BY DEF listVars, InList
<1>7. Placed'
  BY <1>3, <1>4, <1>5, <1>6 DEF Placed
<1>8. QueueDies'
  BY BlocksAssumption DEF QueueDies
<1> QED BY <1>4, <1>7, <1>8

LEMMA ObjectsStay ==
    ASSUME Objects, UNCHANGED objectVars, \A b \in Things : mem'[b] = "live" <=> mem[b] = "live"
    PROVE  Objects'
BY DEF Objects, objectVars, ObjectsFound, IdsOnce, UsedIds

LEMMA ActsBounded ==
    ASSUME Bounded, Acts
    PROVE  changes' \in 0..MaxChanges
BY BlocksAssumption DEF Bounded, Acts

LEMMA Kinds ==
    /\ Pcs \subseteq Bls /\ Mobs \subseteq Bls /\ Things \subseteq Bls
    /\ \A b \in Pcs : b \notin Mobs /\ b \notin Things
    /\ \A b \in Mobs : b \notin Pcs /\ b \notin Things
BY BlocksAssumption DEF Bls

-----------------------------------------------------------------------------
(* Each action keeps the invariant                                         *)

LEMMA InitInv == BlocksInit => BlocksInv
<1> SUFFICES ASSUME BlocksInit PROVE BlocksInv
  OBVIOUS
<1>1. cellOf \in [Bls -> Cells]
  <2>1. 1 \in Cells
    BY BlocksAssumption DEF Cells
  <2>2. (CHOOSE c \in Cells : TRUE) \in Cells
    BY <2>1
  <2> QED BY <2>2 DEF BlocksInit
<1>2. /\ links \in LinkData /\ links.users = 0
      /\ \A q \in Lists : links.head[q] = NullBl /\ links.count[q] = 0
      /\ \A b \in Bls : links.prev[b] = NullBl /\ links.next[b] = NullBl
  BY DEF BlocksInit, LinkData
<1>3. links.count \in [Lists -> Nat]
  BY DEF BlocksInit
<1> DEFINE on == OnOf(links, cellOf)
           r == [b \in Bls |-> 0]
<1>4. on \in [Bls -> Lists \cup {Off}] /\ \A b \in Bls : on[b] = Off
  BY <1>2 DEF OnOf
<1>5. r \in [Bls -> Nat]
  OBVIOUS
<1> HIDE DEF on, r
<1>6. Linked(links, on, r)
  <2>1. Numbered(links, on, r)
    BY <1>2, <1>3, <1>4, <1>5 DEF Numbered
  <2>2. Heads(links, on, r)
    BY <1>2 DEF Heads
  <2>3. Nexts(links, on, r)
    BY <1>2, <1>4 DEF Nexts
  <2>4. Prevs(links, on, r)
    BY <1>2, <1>4 DEF Prevs
  <2> QED BY <1>2, <2>1, <2>2, <2>3, <2>4 DEF Linked
<1>7. Counted(links, on)
  <2>1. Listed(on) = {}
    BY <1>4, Kinds DEF Listed
  <2> QED BY <1>2, <2>1, FS_EmptySet DEF Counted
<1>8. Rows
  BY <1>1, <1>6, <1>7 DEF Rows, RowsOf, on
<1>9. Placed
  BY <1>2, Kinds DEF BlocksInit, Placed, InList
<1>10. QueueDies
  BY BlocksAssumption DEF BlocksInit, QueueDies
<1>11. Objects
  <2>1. object \in [ObjectIds -> Things \cup {NullBl}] /\ \A i \in ObjectIds : object[i] = NullBl
    BY DEF BlocksInit
  <2>2. firstFree = 0 /\ lastId = 0 /\ firstFree \in 0..MaxObject + 1 /\ lastId \in 0..MaxObject
    BY BlocksAssumption DEF BlocksInit
  <2>3. \A b \in Things : mem[b] = "none" /\ b # NullBl
    BY Kinds, NullIsNone DEF BlocksInit
  <2>4. ObjectsFound
    BY <2>1, <2>2, <2>3 DEF ObjectsFound, UsedIds, ObjectIds
  <2> QED BY <2>1, <2>2, <2>4 DEF Objects, IdsOnce
<1>12. Walks
  <2>1. /\ lock = 0 /\ blList = <<>> /\ blList \in Seq(Bls) /\ Len(blList) = 0
        /\ frames = <<>> /\ frames \in Seq(FrameType) /\ Len(frames) = 0 /\ DOMAIN frames = {}
    BY DEF BlocksInit
  <2> QED BY <2>1, BlocksAssumption DEF Walks, Nested, NotFreedInUse, MetOnce
<1>13. Bounded
  BY BlocksAssumption DEF BlocksInit, Bounded
<1> QED BY <1>8, <1>9, <1>10, <1>11, <1>12, <1>13 DEF BlocksInv

LEMMA AppearStep ==
    ASSUME BlocksInv, NEW b \in Bls, NEW c \in Cells, Appear(b, c)
    PROVE  BlocksInv'
<1>1. /\ Rows /\ Placed /\ QueueDies /\ Objects /\ Walks /\ Bounded
  BY DEF BlocksInv
<1>2. /\ Acts /\ b \in Pcs \cup Mobs /\ links.prev[b] = NullBl /\ mem[b] # "dying"
      /\ mem' = [mem EXCEPT ![b] = "live"]
      /\ links' = AddBlock(links, b, c) /\ cellOf' = [cellOf EXCEPT ![b] = c]
      /\ UNCHANGED <<queue, lock, blList, frames, objectVars, forgotten>>
  BY DEF Appear, InList
<1>3. mem \in [Bls -> {"none", "live", "dying"}]
  BY <1>1 DEF Placed
<1>4. /\ mem' \in [Bls -> {"none", "live", "dying"}] /\ mem'[b] = "live"
      /\ \A x \in Bls \ {b} : mem'[x] = mem[x]
  BY <1>2, <1>3
<1>5. /\ Rows' /\ InList(b)'
      /\ \A x \in Bls \ {b} : InList(x)' <=> InList(x)
  <2>1. RowsOf(links, cellOf)
    BY <1>1 DEF Rows
  <2>2. /\ RowsOf(links', cellOf') /\ links'.prev[b] # NullBl
        /\ \A x \in Bls \ {b} : links'.prev[x] # NullBl <=> links.prev[x] # NullBl
    BY <1>2, <2>1, AddRows
  <2> QED BY <2>2 DEF Rows, InList
<1>6. b \notin Things
  BY <1>2, Kinds
<1>7. Placed'
  <2>1. ASSUME NEW x \in Bls, InList(x)' PROVE mem'[x] = "live"
    BY <1>1, <1>4, <1>5, <2>1 DEF Placed
  <2>2. ASSUME NEW x \in Pcs PROVE mem'[x] = "live"
    BY <1>1, <1>4, Kinds DEF Placed
  <2>3. ASSUME NEW x \in Things, mem'[x] = "live" PROVE InList(x)'
    BY <1>1, <1>4, <1>5, <2>3, Kinds DEF Placed
  <2> QED BY <1>4, <2>1, <2>2, <2>3 DEF Placed
<1>8. QueueDies'
  <2>1. ASSUME NEW i \in 1..Len(queue) PROVE mem'[queue[i]] = "dying"
    <3>1. queue[i] \in Bls /\ mem[queue[i]] = "dying"
      BY <1>1 DEF QueueDies
    <3> QED BY <1>2, <1>4, <3>1
  <2> QED BY <1>1, <1>2, <2>1 DEF QueueDies
<1>9. Objects'
  <2>1. \A x \in Things : mem'[x] = mem[x]
    BY <1>4, <1>6, Kinds
  <2> QED BY <1>1, <1>2, <2>1, ObjectsStay
<1>10. Walks'
  <2>1. FramesKept
    BY <1>1, <1>2, <1>5, Undisturbed
  <2>2. \A x \in Bls : mem[x] # "none" => mem'[x] # "none"
    BY <1>4
  <2>3. lock' \in Nat /\ Len(frames) <= lock'
    BY <1>1, <1>2 DEF Walks
  <2> QED BY <1>1, <1>2, <2>1, <2>2, <2>3, WalksStay
<1>11. Bounded'
  BY <1>1, <1>2, ActsBounded DEF Bounded
<1> QED BY <1>5, <1>7, <1>8, <1>9, <1>10, <1>11 DEF BlocksInv

\* A block leaves its list.
LEMMA LeftRows ==
    ASSUME Rows, NEW b \in Bls, InList(b), links' = DelBlock(links, b, cellOf[b]),
           UNCHANGED cellOf
    PROVE  Rows' /\ ~InList(b)' /\ \A x \in Bls \ {b} : InList(x)' <=> InList(x)
<1>1. RowsOf(links, cellOf) /\ links.prev[b] # NullBl
  BY DEF Rows, InList
<1>2. /\ RowsOf(links', cellOf) /\ links'.prev[b] = NullBl
      /\ \A x \in Bls \ {b} : links'.prev[x] # NullBl <=> links.prev[x] # NullBl
  BY <1>1, DelRows
<1> QED BY <1>2 DEF Rows, InList

LEMMA MoveOverStep ==
    ASSUME BlocksInv, NEW b \in Bls, NEW c \in Cells, MoveOver(b, c)
    PROVE  BlocksInv'
<1>1. /\ Rows /\ Placed /\ QueueDies /\ Objects /\ Walks /\ Bounded
  BY DEF BlocksInv
<1>2. /\ Acts /\ b \notin Things /\ links.prev[b] # NullBl
      /\ links' = AddBlock(DelBlock(links, b, cellOf[b]), b, c)
      /\ cellOf' = [cellOf EXCEPT ![b] = c]
      /\ Disturb(b)
      /\ UNCHANGED <<mem, queue, lock, blList, objectVars, forgotten>>
  BY DEF MoveOver, InList, freeVars
<1>3. Rows' /\ \A x \in Bls : InList(x)' <=> InList(x)
  <2> DEFINE m == DelBlock(links, b, cellOf[b])
  <2>1. RowsOf(links, cellOf)
    BY <1>1 DEF Rows
  <2>2. /\ RowsOf(m, cellOf) /\ m.prev[b] = NullBl
        /\ \A x \in Bls \ {b} : m.prev[x] # NullBl <=> links.prev[x] # NullBl
    BY <1>2, <2>1, DelRows
  <2>3. links' = AddBlock(m, b, c)
    BY <1>2
  <2> HIDE DEF m
  <2>4. /\ RowsOf(links', cellOf') /\ links'.prev[b] # NullBl
        /\ \A x \in Bls \ {b} : links'.prev[x] # NullBl <=> m.prev[x] # NullBl
    <3> DEFINE o == AddBlock(m, b, c)
               e == [cellOf EXCEPT ![b] = c]
    <3>1. /\ RowsOf(o, e) /\ o.prev[b] # NullBl
          /\ \A x \in Bls \ {b} : o.prev[x] # NullBl <=> m.prev[x] # NullBl
      BY <2>2, AddRows
    <3>2. links' = o /\ cellOf' = e
      BY <1>2, <2>3
    <3> HIDE DEF o, e
    <3> QED BY <3>1, <3>2
  <2> QED BY <1>2, <2>2, <2>4 DEF Rows, InList
<1>4. Placed'
  BY <1>1, <1>2, <1>3, Kinds DEF Placed
<1>5. QueueDies'
  BY <1>1, <1>2 DEF QueueDies
<1>6. Objects'
  BY <1>1, <1>2, ObjectsStay
<1>7. Walks'
  <2>1. FramesKept
    BY <1>1, <1>2, <1>3, Disturbed
  <2>2. lock' \in Nat /\ Len(frames) <= lock'
    BY <1>1, <1>2 DEF Walks
  <2> QED BY <1>1, <1>2, <2>1, <2>2, WalksStay
<1>8. Bounded'
  BY <1>1, <1>2, ActsBounded DEF Bounded
<1> QED BY <1>3, <1>4, <1>5, <1>6, <1>7, <1>8 DEF BlocksInv

LEMMA LeaveStep ==
    ASSUME BlocksInv, NEW b \in Bls, Leave(b)
    PROVE  BlocksInv'
<1>1. /\ Rows /\ Placed /\ QueueDies /\ Objects /\ Walks /\ Bounded
  BY DEF BlocksInv
<1>2. /\ Acts /\ b \in Pcs /\ InList(b)
      /\ links' = DelBlock(links, b, cellOf[b])
      /\ Disturb(b)
      /\ UNCHANGED <<cellOf, mem, queue, lock, blList, objectVars, forgotten>>
  BY DEF Leave, freeVars
<1>3. Rows' /\ ~InList(b)' /\ \A x \in Bls \ {b} : InList(x)' <=> InList(x)
  BY <1>1, <1>2, LeftRows
<1>4. Placed'
  <2>1. \A x \in Things : x \in Bls \ {b}
    BY <1>2, Kinds
  <2> QED BY <1>1, <1>2, <1>3, <2>1 DEF Placed
<1>5. QueueDies'
  BY <1>1, <1>2 DEF QueueDies
<1>6. Objects'
  BY <1>1, <1>2, ObjectsStay
<1>7. Walks'
  <2>1. FramesKept
    BY <1>1, <1>2, <1>3, Disturbed
  <2>2. lock' \in Nat /\ Len(frames) <= lock'
    BY <1>1, <1>2 DEF Walks
  <2> QED BY <1>1, <1>2, <2>1, <2>2, WalksStay
<1>8. Bounded'
  BY <1>1, <1>2, ActsBounded DEF Bounded
<1> QED BY <1>3, <1>4, <1>5, <1>6, <1>7, <1>8 DEF BlocksInv

LEMMA DieStep ==
    ASSUME BlocksInv, NEW b \in Bls, Die(b)
    PROVE  BlocksInv'
<1>1. /\ Rows /\ Placed /\ QueueDies /\ Objects /\ Walks /\ Bounded
  BY DEF BlocksInv
<1>2. /\ Acts /\ b \in Mobs /\ InList(b) /\ FreeBlock(b)
      /\ links' = DelBlock(links, b, cellOf[b])
      /\ Disturb(b)
      /\ UNCHANGED <<cellOf, lock, blList, objectVars, forgotten>>
  BY DEF Die
<1>3. Rows' /\ ~InList(b)' /\ \A x \in Bls \ {b} : InList(x)' <=> InList(x)
  BY <1>1, <1>2, LeftRows
<1>4. /\ mem' \in [Bls -> {"none", "live", "dying"}]
      /\ (frames # <<>> => mem'[b] # "none")
      /\ \A x \in Bls \ {b} : mem'[x] = mem[x]
      /\ QueueDies'
  <2>1. mem[b] = "live"
    BY <1>1, <1>2 DEF Placed
  <2> QED BY <1>1, <1>2, <2>1, Freed
<1>5. Placed'
  <2>1. \A x \in Things \cup Pcs : x \in Bls \ {b}
    BY <1>2, Kinds
  <2> QED BY <1>1, <1>3, <1>4, <2>1 DEF Placed
<1>6. Objects'
  <2>1. \A x \in Things : mem'[x] = mem[x]
    BY <1>2, <1>4, Kinds
  <2> QED BY <1>1, <1>2, <2>1, ObjectsStay
<1>7. Walks'
  <2>1. FramesKept
    BY <1>1, <1>2, <1>3, Disturbed
  <2>2. lock' \in Nat /\ Len(frames) <= lock'
    BY <1>1, <1>2 DEF Walks
  <2>3. \A x \in Bls : frames # <<>> /\ mem[x] # "none" => mem'[x] # "none"
    BY <1>4
  <2> QED BY <1>1, <1>2, <2>1, <2>2, <2>3, WalksStay
<1>8. Bounded'
  BY <1>1, <1>2, ActsBounded DEF Bounded
<1> QED BY <1>3, <1>4, <1>5, <1>6, <1>7, <1>8 DEF BlocksInv

LEMMA DropStep ==
    ASSUME BlocksInv, NEW b \in Things, NEW c \in DropCells, Drop(b, c)
    PROVE  BlocksInv'
<1>1. /\ Rows /\ Placed /\ QueueDies /\ Objects /\ Walks /\ Bounded
  BY DEF BlocksInv
<1>2. /\ Acts /\ mem[b] = "none"
      /\ UNCHANGED <<queue, lock, blList, frames, forgotten>>
      /\ b \in Bls /\ c \in Cells
  BY BlocksAssumption, Kinds DEF Drop
<1>3. Bounded'
  BY <1>1, <1>2, ActsBounded DEF Bounded
<1>4. lock' \in Nat /\ Len(frames) <= lock'
  BY <1>1, <1>2 DEF Walks
<1>5. /\ object \in [ObjectIds -> Things \cup {NullBl}]
      /\ firstFree \in 0..MaxObject + 1 /\ lastId \in 0..MaxObject
      /\ ObjectsFound /\ IdsOnce
  BY <1>1 DEF Objects
<1>6. /\ MaxObject \in Nat /\ MaxObject >= 2 /\ From \in 2..MaxObject
      /\ \A j \in ObjectIds : object[j] = NullBl => j \in FreeIds
      /\ FreeIds \subseteq ObjectIds /\ \A j \in FreeIds : object[j] = NullBl
  <2>1. MaxObject \in Nat /\ MaxObject >= 2
    BY BlocksAssumption
  <2>2. From \in 2..MaxObject /\ (From = 2 \/ From = firstFree)
    BY <1>5, <2>1 DEF From
  <2>3. ASSUME NEW j \in ObjectIds, object[j] = NullBl PROVE j \in FreeIds
    <3>1. firstFree <= j /\ j \in 2..MaxObject
      BY <1>5, <2>3 DEF ObjectsFound, ObjectIds
    <3> QED BY <1>5, <2>1, <2>2, <2>3, <3>1 DEF FreeIds
  <2> QED BY <2>1, <2>2, <2>3 DEF FreeIds, ObjectIds
<1>7. CASE FreeIds = {} /\ firstFree' = From /\ UNCHANGED <<listVars, mem, object, lastId>>
  <2>1. Rows' /\ Placed' /\ QueueDies'
    BY <1>1, <1>2, <1>7 DEF listVars, Rows, Placed, QueueDies, InList
  <2>2. Objects'
    <3>1. \A j \in ObjectIds : object[j] # NullBl
      BY <1>6, <1>7
    <3>2. ObjectsFound'
      BY <1>5, <1>7, <3>1 DEF ObjectsFound, UsedIds
    <3>3. firstFree' \in 0..MaxObject + 1
      BY <1>6, <1>7
    <3> QED BY <1>5, <1>7, <3>2, <3>3 DEF Objects, IdsOnce
  <2>3. Walks'
    <3>1. FramesKept
      BY <1>1, <1>2, <1>7, Undisturbed DEF listVars, InList
    <3> QED BY <1>1, <1>2, <1>4, <1>7, <3>1, WalksStay
  <2> QED BY <1>3, <2>1, <2>2, <2>3 DEF BlocksInv
<1>8. CASE \E i \in FreeIds :
             /\ \A j \in FreeIds : i <= j
             /\ object' = [object EXCEPT ![i] = b]
             /\ firstFree' = i
             /\ lastId' = IF lastId < i THEN i ELSE lastId
             /\ mem' = [mem EXCEPT ![b] = "live"]
             /\ links' = AddBlock(links, b, c)
             /\ cellOf' = [cellOf EXCEPT ![b] = c]
  <2>1. PICK i \in FreeIds :
             /\ \A j \in FreeIds : i <= j
             /\ object' = [object EXCEPT ![i] = b]
             /\ firstFree' = i
             /\ lastId' = IF lastId < i THEN i ELSE lastId
             /\ mem' = [mem EXCEPT ![b] = "live"]
             /\ links' = AddBlock(links, b, c)
             /\ cellOf' = [cellOf EXCEPT ![b] = c]
    BY <1>8
  <2>2. links.prev[b] = NullBl
    BY <1>1, <1>2 DEF Placed, InList
  <2>3. mem \in [Bls -> {"none", "live", "dying"}]
    BY <1>1 DEF Placed
  <2>4. /\ mem' \in [Bls -> {"none", "live", "dying"}] /\ mem'[b] = "live"
        /\ \A x \in Bls \ {b} : mem'[x] = mem[x]
    BY <1>2, <2>1, <2>3
  <2>5. /\ Rows' /\ InList(b)'
        /\ \A x \in Bls \ {b} : InList(x)' <=> InList(x)
    <3>1. RowsOf(links, cellOf)
      BY <1>1 DEF Rows
    <3>2. /\ RowsOf(links', cellOf') /\ links'.prev[b] # NullBl
          /\ \A x \in Bls \ {b} : links'.prev[x] # NullBl <=> links.prev[x] # NullBl
      BY <1>2, <2>1, <2>2, <3>1, AddRows
    <3> QED BY <3>2 DEF Rows, InList
  <2>6. Placed'
    <3>1. ASSUME NEW x \in Bls, InList(x)' PROVE mem'[x] = "live"
      BY <1>1, <2>4, <2>5, <3>1 DEF Placed
    <3>2. ASSUME NEW x \in Pcs PROVE mem'[x] = "live"
      BY <1>1, <2>4, Kinds DEF Placed
    <3>3. ASSUME NEW x \in Things, mem'[x] = "live" PROVE InList(x)'
      BY <1>1, <2>4, <2>5, <3>3, Kinds DEF Placed
    <3> QED BY <2>4, <3>1, <3>2, <3>3 DEF Placed
  <2>7. QueueDies'
    <3>1. ASSUME NEW j \in 1..Len(queue) PROVE mem'[queue[j]] = "dying"
      <4>1. queue[j] \in Bls /\ mem[queue[j]] = "dying"
        BY <1>1 DEF QueueDies
      <4> QED BY <1>2, <2>4, <4>1
    <3> QED BY <1>1, <1>2, <3>1 DEF QueueDies
  <2>8. Objects'
    <3>1. i \in ObjectIds /\ object[i] = NullBl /\ i \in 2..MaxObject /\ b # NullBl
      BY <1>2, <1>6, NullIsNone DEF ObjectIds
    <3>2. /\ object' \in [ObjectIds -> Things \cup {NullBl}] /\ object'[i] = b
          /\ \A j \in ObjectIds \ {i} : object'[j] = object[j]
      BY <1>5, <2>1, <3>1
    <3>3. \A j \in ObjectIds : object[j] # b
      BY <1>2, <1>5 DEF ObjectsFound
    <3>4. firstFree' \in 0..MaxObject + 1 /\ lastId' \in 0..MaxObject
      BY <1>5, <1>6, <2>1, <3>1
    <3>5. IdsOnce'
      <4>1. ASSUME NEW j \in ObjectIds, NEW k \in ObjectIds,
                   object'[j] = object'[k], object'[j] # NullBl
            PROVE j = k
        BY <1>5, <3>2, <3>3, <4>1 DEF IdsOnce
      <4> QED BY <4>1 DEF IdsOnce
    <3>6. ASSUME NEW j \in ObjectIds, object'[j] = NullBl PROVE firstFree' <= j
      BY <1>6, <2>1, <3>1, <3>2, <3>6
    <3>7. ASSUME NEW j \in ObjectIds, object'[j] # NullBl PROVE j <= lastId'
      <4>1. j = i \/ j <= lastId
        BY <1>5, <3>2, <3>7 DEF ObjectsFound, UsedIds
      <4> QED BY <1>5, <2>1, <3>1, <4>1 DEF ObjectIds
    <3>8. ASSUME NEW x \in Things PROVE mem'[x] = "live" <=> x \in {object'[j] : j \in ObjectIds}
      <4>1. CASE x = b
        BY <2>4, <3>1, <3>2, <4>1
      <4>2. CASE x # b
        <5>1. mem'[x] = mem[x]
          BY <2>4, <4>2, Kinds
        <5>2. mem[x] = "live" <=> \E j \in ObjectIds : object[j] = x
          BY <1>5 DEF ObjectsFound
        <5>3. x # NullBl
          BY Kinds, NullIsNone
        <5>4. \A j \in ObjectIds : object[j] = x <=> object'[j] = x
          BY <3>1, <3>2, <4>2, <5>3
        <5> QED BY <5>1, <5>2, <5>4
      <4> QED BY <4>1, <4>2
    <3>9. ObjectsFound'
      BY <3>6, <3>7, <3>8 DEF ObjectsFound, UsedIds
    <3> QED BY <3>2, <3>4, <3>5, <3>9 DEF Objects
  <2>9. Walks'
    <3>1. FramesKept
      BY <1>1, <1>2, <2>5, Undisturbed
    <3>2. \A x \in Bls : mem[x] # "none" => mem'[x] # "none"
      BY <2>4
    <3> QED BY <1>1, <1>2, <1>4, <3>1, <3>2, WalksStay
  <2> QED BY <1>3, <2>5, <2>6, <2>7, <2>8, <2>9 DEF BlocksInv
<1> QED BY <1>7, <1>8 DEF Drop

\* The largest of the ids in use is there.
LEMMA LastIdIs ==
    ASSUME NEW S \in SUBSET (2..MaxObject)
    PROVE  LET n == CHOOSE n \in S \cup {2} : \A k \in S \cup {2} : k <= n IN
           n \in 2..MaxObject /\ \A k \in S : k <= n
<1> DEFINE U == S \cup {2}
           T == {MaxObject - k : k \in U}
<1>1. MaxObject \in Nat /\ 2 \in 2..MaxObject
  BY BlocksAssumption
<1>2. U \subseteq 2..MaxObject
  BY <1>1
<1>3. T \in SUBSET Nat /\ T # {}
  <2>1. 2 \in U
    OBVIOUS
  <2>2. \A k \in U : MaxObject - k \in Nat
    BY <1>1, <1>2
  <2> HIDE DEF U
  <2> QED BY <2>1, <2>2
<1>4. PICK t \in T : \A x \in T : t <= x
  <2> HIDE DEF T
  <2> QED BY <1>3, LeastExists
<1>5. PICK n \in U : t = MaxObject - n
  BY <1>4
<1>6. ASSUME NEW k \in U PROVE k <= n
  <2>1. MaxObject - n <= MaxObject - k
    BY <1>4, <1>5
  <2>2. k \in Int /\ n \in Int
    BY <1>2
  <2> QED BY <1>1, <2>1, <2>2
<1> HIDE DEF T
<1> DEFINE m == CHOOSE m \in U : \A k \in U : k <= m
<1>7. m \in U /\ \A k \in U : k <= m
  BY <1>6
<1>8. m = CHOOSE n_1 \in S \cup {2} : \A k \in S \cup {2} : k <= n_1
  OBVIOUS
<1> HIDE DEF m
<1> QED BY <1>2, <1>7, <1>8

LEMMA PickUpStep ==
    ASSUME BlocksInv, NEW i \in ObjectIds, PickUp(i)
    PROVE  BlocksInv'
<1>0. PICK b : b = object[i]
  OBVIOUS
<1>1. /\ Rows /\ Placed /\ QueueDies /\ Objects /\ Walks /\ Bounded
  BY DEF BlocksInv
<1>2. /\ Acts /\ b # NullBl /\ Disturb(b) /\ FreeBlock(b)
      /\ links' = IF InList(b) THEN DelBlock(links, b, cellOf[b]) ELSE links
      /\ object' = [object EXCEPT ![i] = NullBl]
      /\ firstFree' = IF firstFree > i THEN i ELSE firstFree
      /\ lastId' = CHOOSE n \in UsedIds(object') \cup {2} :
                       \A k \in UsedIds(object') \cup {2} : k <= n
      /\ UNCHANGED <<cellOf, lock, blList, forgotten>>
  BY <1>0 DEF PickUp
<1>3. /\ object \in [ObjectIds -> Things \cup {NullBl}]
      /\ firstFree \in 0..MaxObject + 1 /\ lastId \in 0..MaxObject
      /\ ObjectsFound /\ IdsOnce
  BY <1>1 DEF Objects
<1>4. b \in Things /\ b \in Bls
  BY <1>0, <1>2, <1>3, Kinds
<1>5. mem[b] = "live" /\ InList(b)
  <2>1. mem[b] = "live"
    BY <1>0, <1>3, <1>4 DEF ObjectsFound
  <2> QED BY <1>1, <1>4, <2>1 DEF Placed
<1>6. Rows' /\ ~InList(b)' /\ \A x \in Bls \ {b} : InList(x)' <=> InList(x)
  <2>1. links' = DelBlock(links, b, cellOf[b])
    BY <1>2, <1>5
  <2> QED BY <1>1, <1>2, <1>4, <1>5, <2>1, LeftRows
<1>7. /\ mem' \in [Bls -> {"none", "live", "dying"}]
      /\ mem'[b] # "live" /\ (frames # <<>> => mem'[b] # "none")
      /\ \A x \in Bls \ {b} : mem'[x] = mem[x]
      /\ QueueDies'
  <2> QED BY <1>1, <1>2, <1>4, <1>5, Freed
<1>8. Placed'
  <2>1. ASSUME NEW x \in Bls, InList(x)' PROVE mem'[x] = "live"
    BY <1>1, <1>6, <1>7, <2>1 DEF Placed
  <2>2. ASSUME NEW x \in Pcs PROVE mem'[x] = "live"
    BY <1>1, <1>4, <1>7, Kinds DEF Placed
  <2>3. ASSUME NEW x \in Things, mem'[x] = "live" PROVE InList(x)'
    BY <1>1, <1>6, <1>7, <2>3, Kinds DEF Placed
  <2> QED BY <1>7, <2>1, <2>2, <2>3 DEF Placed
<1>9. Objects'
  <2>1. /\ object' \in [ObjectIds -> Things \cup {NullBl}] /\ object'[i] = NullBl
        /\ \A j \in ObjectIds \ {i} : object'[j] = object[j]
    BY <1>2, <1>3
  <2>2. /\ lastId' \in 2..MaxObject /\ \A k \in UsedIds(object') : k <= lastId'
    <3>1. UsedIds(object') \in SUBSET (2..MaxObject)
      BY DEF UsedIds, ObjectIds
    <3> QED BY <1>2, <3>1, LastIdIs
  <2>3. i \in 2..MaxObject /\ MaxObject \in Nat
    BY BlocksAssumption DEF ObjectIds
  <2>4. firstFree' \in 0..MaxObject + 1 /\ firstFree' <= i /\ firstFree' <= firstFree
    BY <1>2, <1>3, <2>3
  <2>5. IdsOnce'
    <3>1. ASSUME NEW j \in ObjectIds, NEW k \in ObjectIds,
                 object'[j] = object'[k], object'[j] # NullBl
          PROVE j = k
      BY <1>3, <2>1, <3>1 DEF IdsOnce
    <3> QED BY <3>1 DEF IdsOnce
  <2>6. ASSUME NEW j \in ObjectIds, object'[j] = NullBl PROVE firstFree' <= j
    <3>1. j = i \/ firstFree <= j
      BY <1>3, <2>1, <2>6 DEF ObjectsFound
    <3> QED BY <1>3, <2>4, <3>1 DEF ObjectIds
  <2>7. ASSUME NEW x \in Things PROVE mem'[x] = "live" <=> x \in {object'[j] : j \in ObjectIds}
    <3>1. x # NullBl
      BY Kinds, NullIsNone
    <3>2. CASE x = b
      <4>1. \A j \in ObjectIds : object'[j] # b
        BY <1>0, <1>2, <1>3, <2>1 DEF IdsOnce
      <4> QED BY <1>7, <3>2, <4>1
    <3>3. CASE x # b
      <4>1. mem'[x] = mem[x]
        BY <1>7, <3>3, Kinds
      <4>2. mem[x] = "live" <=> \E j \in ObjectIds : object[j] = x
        BY <1>3 DEF ObjectsFound
      <4>3. \A j \in ObjectIds : object[j] = x <=> object'[j] = x
        BY <1>0, <2>1, <3>1, <3>3
      <4> QED BY <4>1, <4>2, <4>3
    <3> QED BY <3>2, <3>3
  <2>8. ObjectsFound'
    BY <2>2, <2>6, <2>7 DEF ObjectsFound, UsedIds
  <2>9. lastId' \in 0..MaxObject
    BY <2>2, <2>3
  <2> QED BY <2>1, <2>4, <2>5, <2>8, <2>9 DEF Objects
<1>10. Walks'
  <2>1. FramesKept
    BY <1>1, <1>2, <1>4, <1>6, Disturbed
  <2>2. lock' \in Nat /\ Len(frames) <= lock'
    BY <1>1, <1>2 DEF Walks
  <2>3. \A x \in Bls : frames # <<>> /\ mem[x] # "none" => mem'[x] # "none"
    BY <1>7
  <2> QED BY <1>1, <1>2, <2>1, <2>2, <2>3, WalksStay
<1>11. Bounded'
  BY <1>1, <1>2, ActsBounded DEF Bounded
<1> QED BY <1>6, <1>7, <1>8, <1>9, <1>10, <1>11 DEF BlocksInv

LEMMA ForgetUnlockStep ==
    ASSUME BlocksInv, ForgetUnlock
    PROVE  BlocksInv'
<1>1. /\ Rows /\ Placed /\ QueueDies /\ Objects /\ Walks /\ Bounded
  BY DEF BlocksInv
<1>2. /\ Acts /\ forgotten < MaxForgotten /\ forgotten' = forgotten + 1 /\ lock' = lock + 1
      /\ UNCHANGED <<listVars, freeVars, blList, frames, objectVars>>
  BY DEF ForgetUnlock
<1>3. Rows' /\ Placed' /\ QueueDies'
  BY <1>1, <1>2 DEF listVars, freeVars, Rows, Placed, QueueDies, InList
<1>4. Objects'
  BY <1>1, <1>2, ObjectsStay DEF freeVars
<1>5. Walks'
  <2>1. FramesKept
    BY <1>1, <1>2, Undisturbed DEF listVars, InList
  <2>2. lock' \in Nat /\ Len(frames) <= lock'
    BY <1>1, <1>2, FramesAre DEF Walks
  <2>3. UNCHANGED <<blList, mem>>
    BY <1>2 DEF freeVars
  <2> QED BY <1>1, <2>1, <2>2, <2>3, WalksStay
<1>6. Bounded'
  <2>1. forgotten' \in 0..MaxForgotten
    BY <1>1, <1>2, BlocksAssumption DEF Bounded
  <2> QED BY <1>1, <1>2, <2>1, ActsBounded DEF Bounded
<1> QED BY <1>3, <1>4, <1>5, <1>6 DEF BlocksInv

LEMMA FreeblockTimerStep ==
    ASSUME BlocksInv, FreeblockTimer
    PROVE  BlocksInv'
<1>1. /\ Rows /\ Placed /\ QueueDies /\ Objects /\ Walks /\ Bounded
  BY DEF BlocksInv
<1>2. /\ frames = <<>> /\ lock' = 0
      /\ mem' = [b \in Bls |-> IF b \in ToSet(queue) THEN "none" ELSE mem[b]]
      /\ queue' = <<>>
      /\ UNCHANGED <<listVars, blList, frames, objectVars, changes, forgotten>>
  BY DEF FreeblockTimer
<1>3. Placed' /\ QueueDies' /\ \A b \in Bls : mem'[b] = "live" <=> mem[b] = "live"
  BY <1>1, <1>2, QueueFreed
<1>4. Rows'
  BY <1>1, <1>2 DEF listVars, Rows
<1>5. Objects'
  BY <1>1, <1>2, <1>3, ObjectsStay, Kinds
<1>6. Walks'
  <2>1. FramesKept
    BY <1>1, <1>2, Undisturbed DEF listVars, InList
  <2>2. lock' \in Nat /\ Len(frames) <= lock'
    BY <1>2
  <2> QED BY <1>1, <1>2, <2>1, <2>2, WalksStay
<1>7. Bounded'
  BY <1>1, <1>2 DEF Bounded
<1> QED BY <1>3, <1>4, <1>5, <1>6, <1>7 DEF BlocksInv

-----------------------------------------------------------------------------
(* A foreach begins, calls and ends                                        *)

LEMMA OnceStays ==
    ASSUME NEW f, NEW end, NEW list, NEW more, NEW b, Once(f, end, list, b),
           \A i \in (f.from + 1)..end : more[i] = list[i]
    PROVE  Once(f, end, more, b)
BY DEF Once

LEMMA FitsIs ==
    ASSUME Walks, NEW found \in Seq(Bls)
    PROVE  LET F == Fits(found)
               more == blList \o F IN
           /\ F \in Seq(Bls) /\ Len(F) \in Nat /\ Len(F) <= Len(found)
           /\ \A i \in 1..Len(F) : F[i] = found[i]
           /\ more \in Seq(Bls) /\ Len(more) = Len(blList) + Len(F) /\ Len(more) <= MaxList
           /\ \A i \in 1..Len(more) :
                 more[i] = IF i <= Len(blList) THEN blList[i] ELSE F[i - Len(blList)]
<1> DEFINE F == Fits(found)
           room == MaxList - Len(blList)
<1>1. blList \in Seq(Bls) /\ Len(blList) \in Nat /\ room \in Nat /\ Len(found) \in Nat
  <2>1. MaxList \in Nat
    BY BlocksAssumption
  <2> QED BY <2>1 DEF Walks
<1>2. F = IF Len(found) <= room THEN found ELSE SubSeq(found, 1, room)
  BY DEF Fits
<1> HIDE DEF room
<1>3. /\ F \in Seq(Bls) /\ Len(F) \in Nat /\ Len(F) <= Len(found) /\ Len(F) <= room
      /\ \A i \in 1..Len(F) : F[i] = found[i]
  <2>1. CASE Len(found) <= room
    BY <1>1, <1>2, <2>1
  <2>2. CASE ~(Len(found) <= room)
    <3> DEFINE sub == SubSeq(found, 1, room)
    <3>1. sub \in Seq(Bls) /\ Len(sub) = room /\ \A i \in 1..room : sub[i] = found[i]
      BY <1>1, <2>2
    <3>2. F = sub
      BY <1>2, <2>2
    <3> HIDE DEF sub, F
    <3> QED BY <1>1, <2>2, <3>1, <3>2
  <2> QED BY <2>1, <2>2
<1> HIDE DEF F
<1> DEFINE more == blList \o F
<1>4. /\ more \in Seq(Bls) /\ Len(more) = Len(blList) + Len(F)
      /\ \A i \in 1..Len(more) :
            more[i] = IF i <= Len(blList) THEN blList[i] ELSE F[i - Len(blList)]
  BY <1>1, <1>3
<1> HIDE DEF more
<1>5. Len(more) <= MaxList
  <2>1. MaxList \in Nat
    BY BlocksAssumption
  <2> QED BY <1>1, <1>3, <1>4, <2>1 DEF room
<1> QED BY <1>3, <1>4, <1>5 DEF more, F

LEMMA BeginStep ==
    ASSUME BlocksInv, NEW found, Finds(found), Begin(found)
    PROVE  BlocksInv'
<1>1. /\ Rows /\ Placed /\ QueueDies /\ Objects /\ Walks /\ Bounded
  BY DEF BlocksInv
<1> DEFINE F == Fits(found)
           n == Len(blList)
           K == Len(frames)
           f == [from |-> Len(blList), at |-> Len(blList), calling |-> FALSE,
                 stay |-> ToSet(Fits(found)), seen |-> <<>>]
           list == blList \o Fits(found)
           fs == Append(frames, f)
<1>2. /\ blList' = list /\ frames' = fs /\ lock' = lock + 1
      /\ UNCHANGED <<listVars, freeVars, objectVars, changes, forgotten>>
  BY DEF Begin
<1>3. Rows' /\ Placed' /\ QueueDies' /\ Bounded'
  BY <1>1, <1>2 DEF listVars, freeVars, Rows, Placed, QueueDies, InList, Bounded
<1>4. Objects'
  BY <1>1, <1>2, ObjectsStay DEF freeVars
<1>5. /\ F \in Seq(Bls) /\ Len(F) \in Nat /\ Len(F) <= Len(found)
      /\ \A i \in 1..Len(F) : F[i] = found[i]
      /\ list \in Seq(Bls) /\ Len(list) = n + Len(F) /\ Len(list) <= MaxList
      /\ \A i \in 1..Len(list) : list[i] = IF i <= n THEN blList[i] ELSE F[i - n]
  <2>1. found \in Seq(Bls)
    BY DEF Finds
  <2> QED BY <1>1, <2>1, FitsIs
<1>6. n \in Nat /\ K \in Nat /\ lock \in Nat /\ K <= lock /\ frames \in Seq(FrameType)
  BY <1>1, FramesAre DEF Walks
<1>7. \A i \in 1..Len(F) : F[i] \in Bls /\ InList(F[i])
  <2>1. ASSUME NEW i \in 1..Len(F) PROVE F[i] \in Bls /\ InList(F[i])
    <3>1. i \in 1..Len(found) /\ F[i] = found[i]
      BY <1>5 DEF Finds
    <3>2. InList(found[i])
      BY <3>1 DEF Finds
    <3>3. F[i] \in Bls
      BY <1>5
    <3> HIDE DEF F
    <3> QED BY <3>1, <3>2, <3>3
  <2> QED BY <2>1
<1>8. Apart(F)
  <2>1. ASSUME NEW i \in 1..Len(F), NEW j \in 1..Len(F), F[i] = F[j] PROVE i = j
    <3>1. i \in 1..Len(found) /\ j \in 1..Len(found) /\ found[i] = found[j]
      BY <1>5, <2>1 DEF Finds
    <3> QED BY <3>1 DEF Finds, Apart
  <2> HIDE DEF F
  <2> QED BY <2>1 DEF Apart
<1>9. f \in FrameType /\ f.from = n /\ f.at = n /\ f.stay = ToSet(F) /\ f.seen = <<>>
  <2>1. ToSet(F) \subseteq Bls
    <3> HIDE DEF F
    <3> QED BY <1>5 DEF ToSet
  <2> QED BY <1>6, <2>1 DEF FrameType
<1> HIDE DEF f
<1>10. /\ fs \in Seq(FrameType) /\ Len(fs) = K + 1 /\ fs[K + 1] = f
       /\ \A k \in 1..K : fs[k] = frames[k]
  BY <1>6, <1>9
<1> HIDE DEF F, list, fs
<1>11. \A k \in 1..K : EndOf(fs, list, k) = EndOf(frames, blList, k)
  <2>1. ASSUME NEW k \in 1..K PROVE EndOf(fs, list, k) = EndOf(frames, blList, k)
    <3>1. k # K + 1
      BY <1>6
    <3>2. CASE k = K
      BY <1>9, <1>10, <3>1, <3>2 DEF EndOf
    <3>3. CASE k # K
      <4>1. k + 1 \in 1..K
        BY <1>6, <3>3
      <4> QED BY <1>10, <3>1, <3>3, <4>1 DEF EndOf
    <3> QED BY <3>2, <3>3
  <2> QED BY <2>1
<1>12. EndOf(fs, list, K + 1) = Len(list)
  BY <1>10 DEF EndOf
<1>13. \A k \in 1..(K + 1) : k \in 1..K \/ k = K + 1
  BY <1>6
<1>14. \A k \in 1..K : /\ frames[k].from \in Nat /\ frames[k].at \in Nat
                       /\ frames[k].from <= frames[k].at
                       /\ frames[k].at <= EndOf(frames, blList, k)
                       /\ EndOf(frames, blList, k) \in Nat /\ EndOf(frames, blList, k) <= n
  <2>1. ASSUME NEW k \in 1..K PROVE EndOf(frames, blList, k) \in Nat
    <3>1. k # K => k + 1 \in 1..K
      BY <1>6
    <3>2. k # K => frames[k + 1].from \in Nat
      BY <1>1, <3>1, FramesAre
    <3> QED BY <1>6, <3>2 DEF EndOf
  <2> QED BY <1>1, <2>1, FramesAre DEF Walks, Nested
<1>15. Nested(fs, list)
  <2>1. ASSUME NEW k \in 1..(K + 1)
        PROVE /\ fs[k].from <= fs[k].at /\ fs[k].at <= EndOf(fs, list, k)
              /\ EndOf(fs, list, k) <= Len(list)
    <3>1. CASE k \in 1..K
      <4>1. /\ fs[k] = frames[k] /\ EndOf(fs, list, k) = EndOf(frames, blList, k)
            /\ n \in Nat /\ Len(F) \in Nat /\ Len(list) = n + Len(F)
        BY <1>5, <1>6, <1>10, <1>11, <3>1
      <4>2. /\ frames[k].from <= frames[k].at /\ frames[k].at <= EndOf(frames, blList, k)
            /\ EndOf(frames, blList, k) \in Nat /\ EndOf(frames, blList, k) <= n
        BY <1>14, <3>1
      <4> HIDE DEF n
      <4> QED BY <4>1, <4>2
    <3>2. CASE k = K + 1
      BY <1>5, <1>6, <1>9, <1>10, <1>12, <3>2
    <3> QED BY <1>13, <3>1, <3>2
  <2>2. ASSUME NEW k \in 1..(K + 1), NEW m \in 1..(K + 1), k < m
        PROVE EndOf(fs, list, k) <= fs[m].from
    <3>1. k \in 1..K
      BY <1>6, <2>2
    <3>2. CASE m \in 1..K
      BY <1>1, <1>10, <1>11, <2>2, <3>1, <3>2 DEF Walks, Nested
    <3>3. CASE m = K + 1
      BY <1>9, <1>10, <1>11, <1>14, <3>1, <3>3
    <3> QED BY <1>13, <3>2, <3>3
  <2> QED BY <1>10, <2>1, <2>2 DEF Nested
<1>16. ASSUME NEW k \in 1..(K + 1), NEW i \in fs[k].at + 1..Len(list)
       PROVE mem[list[i]] # "none"
  <2>1. fs[k].at \in Nat
    BY <1>6, <1>9, <1>10, <1>13, <1>14
  <2>2. i \in 1..Len(list)
    BY <1>5, <2>1
  <2>3. CASE i <= n
    <3>1. k # K + 1
      BY <1>6, <1>9, <1>10, <2>3
    <3>2. k \in 1..K /\ k \in DOMAIN frames /\ fs[k] = frames[k]
      BY <1>1, <1>10, <1>13, <3>1, FramesAre
    <3>3. i \in frames[k].at + 1..Len(blList)
      BY <1>6, <2>1, <2>3, <3>2
    <3>4. mem[blList[i]] # "none"
      BY <1>1, <3>2, <3>3 DEF Walks, NotFreedInUse
    <3> QED BY <1>5, <2>2, <2>3, <3>4
  <2>4. CASE ~(i <= n)
    <3>1. i - n \in 1..Len(F) /\ list[i] = F[i - n]
      BY <1>5, <1>6, <2>2, <2>4
    <3>2. mem[F[i - n]] = "live"
      BY <1>1, <1>7, <3>1 DEF Placed
    <3> QED BY <3>1, <3>2
  <2> QED BY <2>3, <2>4
<1>17. ASSUME NEW k \in 1..(K + 1), NEW b \in fs[k].stay
       PROVE InList(b) /\ Once(fs[k], EndOf(fs, list, k), list, b)
  <2>1. CASE k \in 1..K
    <3>1. fs[k] = frames[k] /\ EndOf(fs, list, k) = EndOf(frames, blList, k)
      BY <1>10, <1>11, <2>1
    <3>2. InList(b) /\ Once(frames[k], EndOf(frames, blList, k), blList, b)
      BY <1>1, <1>17, <2>1, <3>1 DEF Walks, MetOnce
    <3>3. \A i \in (frames[k].from + 1)..EndOf(frames, blList, k) : list[i] = blList[i]
      <4>1. /\ frames[k].from \in Nat /\ EndOf(frames, blList, k) \in Nat
            /\ EndOf(frames, blList, k) <= n
        BY <1>14, <2>1
      <4>2. ASSUME NEW i \in (frames[k].from + 1)..EndOf(frames, blList, k)
            PROVE i \in 1..Len(list) /\ i <= n
        <5> DEFINE from == frames[k].from
                   end == EndOf(frames, blList, k)
        <5>1. Len(list) \in Nat /\ n <= Len(list) /\ n \in Nat
          BY <1>5, <1>6
        <5>2. from \in Nat /\ end \in Nat /\ end <= n /\ i \in (from + 1)..end
          BY <4>1
        <5> HIDE DEF from, end, n
        <5> QED BY <5>1, <5>2
      <4> QED BY <1>5, <4>2
    <3>4. Once(frames[k], EndOf(frames, blList, k), list, b)
      BY <3>2, <3>3, OnceStays
    <3> QED BY <3>1, <3>2, <3>4
  <2>2. CASE k = K + 1
    <3>1. fs[k] = f /\ EndOf(fs, list, k) = n + Len(F) /\ Len(list) = n + Len(F)
      BY <1>5, <1>10, <1>12, <2>2
    <3>2. PICK j \in 1..Len(F) : F[j] = b
      BY <1>5, <1>9, <1>17, <3>1 DEF ToSet
    <3>3. \A i \in (n + 1)..(n + Len(F)) : i - n \in 1..Len(F) /\ list[i] = F[i - n]
      <4>1. ASSUME NEW i \in (n + 1)..(n + Len(F))
            PROVE i - n \in 1..Len(F) /\ i \in 1..Len(list) /\ ~(i <= n)
        BY <1>5, <1>6, <3>1
      <4> QED BY <1>5, <4>1
    <3>4. n + j \in (n + 1)..(n + Len(F)) /\ (n + j) - n = j
      BY <1>5, <1>6
    <3>5. ASSUME NEW i \in (n + 1)..(n + Len(F)), list[i] = b PROVE i = n + j
      <4>1. i - n = j
        BY <1>8, <3>2, <3>3, <3>5 DEF Apart
      <4> QED BY <1>6, <3>5, <4>1
    <3>6. Met(f, b) = 0
      <4>1. {i \in DOMAIN f.seen : f.seen[i] = b} = {}
        BY <1>9
      <4> QED BY <4>1, FS_EmptySet DEF Met
    <3>7. list[n + j] = b
      BY <3>2, <3>3, <3>4
    <3>8. ~(n + j <= f.at)
      BY <1>6, <1>9
    <3>9. Once(f, n + Len(F), list, b)
      BY <1>9, <3>4, <3>5, <3>6, <3>7, <3>8 DEF Once
    <3>10. InList(b)
      BY <1>7, <3>2
    <3> QED BY <3>1, <3>9, <3>10
  <2> QED BY <1>13, <2>1, <2>2
<1>18. Walks'
  <2>1. mem' = mem /\ \A b : InList(b)' <=> InList(b)
    BY <1>2 DEF freeVars, listVars, InList
  <2>2. DOMAIN fs = 1..(K + 1)
    BY <1>10
  <2>3. NotFreedInUse'
    BY <1>2, <1>16, <2>1, <2>2 DEF NotFreedInUse
  <2>4. MetOnce'
    BY <1>2, <1>10, <1>17, <2>1 DEF MetOnce
  <2>5. lock' \in Nat /\ Len(fs) <= lock'
    BY <1>2, <1>6, <1>10
  <2> QED BY <1>2, <1>5, <1>10, <1>15, <2>3, <2>4, <2>5 DEF Walks
<1> QED BY <1>3, <1>4, <1>18 DEF BlocksInv

LEMMA FrameIs ==
    ASSUME Walks, frames # <<>>
    PROVE  Len(frames) \in Nat \ {0} /\ Len(frames) \in 1..Len(frames) /\ Frame = frames[Len(frames)]
<1>1. frames \in Seq(FrameType)
  BY DEF Walks
<1>2. Len(frames) \in Nat /\ Len(frames) # 0
  BY <1>1
<1> QED BY <1>2 DEF Frame, Last

LEMMA MetNext ==
    ASSUME NEW f, NEW g, NEW b \in Bls, NEW x \in Bls, f.seen \in Seq(Bls), g.seen = Append(f.seen, b)
    PROVE  /\ Met(f, x) \in Nat
           /\ Met(g, x) = IF b = x THEN Met(f, x) + 1 ELSE Met(f, x)
<1> DEFINE s == f.seen
           m == Len(s)
           t == Append(s, b)
           A == {i \in DOMAIN s : s[i] = x}
           B == {i \in DOMAIN t : t[i] = x}
<1>1. m \in Nat /\ DOMAIN s = 1..m
  OBVIOUS
<1>2. DOMAIN t = 1..(m + 1) /\ t[m + 1] = b /\ \A i \in 1..m : t[i] = s[i]
  OBVIOUS
<1> HIDE DEF t
<1>3. IsFiniteSet(A) /\ Cardinality(A) \in Nat /\ m + 1 \notin A
  <2>1. IsFiniteSet(1..m) /\ A \subseteq 1..m
    BY <1>1, UpToIs
  <2>2. m + 1 \notin 1..m
    BY <1>1
  <2> HIDE DEF A
  <2>3. IsFiniteSet(A)
    BY <2>1, FS_Subset
  <2> QED BY <2>1, <2>2, <2>3, FS_CardinalityType
<1>4. B = IF b = x THEN A \cup {m + 1} ELSE A
  <2>1. 1..(m + 1) = 1..m \cup {m + 1}
    BY <1>1
  <2> QED BY <1>1, <1>2, <2>1
<1>5. Met(f, x) = Cardinality(A) /\ Met(g, x) = Cardinality(B)
  BY DEF Met, t
<1> HIDE DEF A, B
<1> QED BY <1>3, <1>4, <1>5, FS_AddElement

LEMMA ForeachCallStep ==
    ASSUME BlocksInv, ForeachCall
    PROVE  BlocksInv'
<1>1. /\ Rows /\ Placed /\ QueueDies /\ Objects /\ Walks /\ Bounded
  BY DEF BlocksInv
<1> DEFINE K == Len(frames)
           f == frames[K]
           b == blList[f.at + 1]
           on == [f EXCEPT !.at = @ + 1]
           g == IF InList(b) THEN [on EXCEPT !.calling = TRUE, !.seen = Append(@, b)]
                ELSE [on EXCEPT !.calling = FALSE]
           fs == [frames EXCEPT ![K] = g]
<1>2. /\ frames # <<>> /\ K \in Nat /\ K \in 1..K /\ K # 0 /\ Frame = f
      /\ frames \in Seq(FrameType) /\ f \in FrameType /\ f.from \in Nat /\ f.at \in Nat
      /\ f.seen \in Seq(Bls) /\ f.stay \subseteq Bls
  <2>1. frames # <<>>
    BY DEF ForeachCall
  <2> QED BY <1>1, <2>1, FrameIs, FramesAre DEF Walks
<1>3. /\ f.at < Len(blList) /\ frames' = fs
      /\ UNCHANGED <<listVars, freeVars, lock, blList, objectVars, changes, forgotten>>
  BY <1>2 DEF ForeachCall
<1>4. /\ Rows' /\ Placed' /\ QueueDies' /\ Bounded'
      /\ UNCHANGED <<mem, blList, lock>> /\ \A x \in Bls : InList(x)' <=> InList(x)
  BY <1>1, <1>3 DEF listVars, freeVars, Rows, Placed, QueueDies, InList, Bounded
<1>5. Objects'
  BY <1>1, <1>3, ObjectsStay DEF freeVars
<1>6. Len(blList) \in Nat /\ f.at + 1 \in 1..Len(blList) /\ b \in Bls
      /\ EndOf(frames, blList, K) = Len(blList) /\ f.from <= f.at
  <2>1. blList \in Seq(Bls) /\ Len(blList) \in Nat
    BY <1>1 DEF Walks
  <2>2. f.at + 1 \in 1..Len(blList)
    BY <1>2, <1>3, <2>1
  <2> QED BY <1>1, <1>2, <2>1, <2>2 DEF EndOf, Walks, Nested
<1>7. /\ g \in FrameType /\ g.from = f.from /\ g.at = f.at + 1 /\ g.stay = f.stay
      /\ g.seen = IF InList(b) THEN Append(f.seen, b) ELSE f.seen
  <2> HIDE DEF f, b
  <2>1. f.at + 1 \in Nat /\ Append(f.seen, b) \in Seq(Bls)
    BY <1>2, <1>6
  <2>2. CASE InList(b)
    BY <1>2, <2>1, <2>2 DEF FrameType
  <2>3. CASE ~InList(b)
    BY <1>2, <2>1, <2>3 DEF FrameType
  <2> QED BY <2>2, <2>3
<1> HIDE DEF g
<1>8. /\ fs \in Seq(FrameType) /\ Len(fs) = K /\ DOMAIN fs = 1..K /\ fs[K] = g
      /\ \A k \in 1..K : k # K => fs[k] = frames[k]
  BY <1>2, <1>7
<1>9. \A k \in 1..K : fs[k].from = frames[k].from /\ fs[k].stay = frames[k].stay
  <2>1. ASSUME NEW k \in 1..K PROVE fs[k].from = frames[k].from /\ fs[k].stay = frames[k].stay
    BY <1>7, <1>8
  <2> QED BY <2>1
<1> HIDE DEF fs
<1>10. \A k \in 1..K : EndOf(fs, blList, k) = EndOf(frames, blList, k)
  <2>1. ASSUME NEW k \in 1..K PROVE EndOf(fs, blList, k) = EndOf(frames, blList, k)
    <3>1. k # K => k + 1 \in 1..K
      BY <1>2
    <3>2. k # K => fs[k + 1].from = frames[k + 1].from
      BY <1>9, <3>1
    <3> QED BY <1>8, <3>2 DEF EndOf
  <2> QED BY <2>1
<1>11. Nested(fs, blList)
  <2>1. ASSUME NEW k \in 1..K
        PROVE /\ fs[k].from <= fs[k].at /\ fs[k].at <= EndOf(fs, blList, k)
              /\ EndOf(fs, blList, k) <= Len(blList)
    <3>1. CASE k = K
      <4>1. fs[k].from = f.from /\ fs[k].at = f.at + 1 /\ EndOf(fs, blList, k) = Len(blList)
        BY <1>6, <1>7, <1>8, <1>10, <3>1
      <4> HIDE DEF f
      <4> QED BY <1>2, <1>3, <1>6, <4>1
    <3>2. CASE k # K
      BY <1>1, <1>8, <1>10, <3>2 DEF Walks, Nested
    <3> QED BY <3>1, <3>2
  <2>2. ASSUME NEW k \in 1..K, NEW m \in 1..K, k < m PROVE EndOf(fs, blList, k) <= fs[m].from
    BY <1>1, <1>9, <1>10, <2>2 DEF Walks, Nested
  <2> QED BY <1>8, <2>1, <2>2 DEF Nested
<1>12. ASSUME NEW k \in 1..K, NEW i \in fs[k].at + 1..Len(blList)
       PROVE mem[blList[i]] # "none"
  <2>1. k \in DOMAIN frames
    BY <1>1, FramesAre
  <2>2. i \in frames[k].at + 1..Len(blList)
    <3>1. CASE k = K
      <4>1. fs[k].at = f.at + 1 /\ frames[k].at = f.at
        BY <1>7, <1>8, <3>1
      <4> HIDE DEF f
      <4> QED BY <1>2, <1>6, <4>1
    <3>2. CASE k # K
      BY <1>8, <3>2
    <3> QED BY <3>1, <3>2
  <2> QED BY <1>1, <2>1, <2>2 DEF Walks, NotFreedInUse
<1>13. ASSUME NEW k \in 1..K, NEW x \in fs[k].stay
       PROVE InList(x) /\ Once(fs[k], EndOf(fs, blList, k), blList, x)
  <2>1. x \in frames[k].stay /\ x \in Bls /\ EndOf(fs, blList, k) = EndOf(frames, blList, k)
    BY <1>1, <1>9, <1>10, <1>13, FramesAre
  <2>2. InList(x) /\ Once(frames[k], EndOf(frames, blList, k), blList, x)
    BY <1>1, <2>1 DEF Walks, MetOnce
  <2>3. CASE k # K
    BY <1>8, <2>1, <2>2, <2>3
  <2>4. CASE k = K
    <3> DEFINE e == Len(blList)
    <3>1. fs[k] = g /\ frames[k] = f /\ EndOf(fs, blList, k) = e
      BY <1>6, <1>8, <2>1, <2>4
    <3> HIDE DEF f
    <3>2. Once(f, e, blList, x)
      BY <1>6, <2>1, <2>2, <3>1
    <3>3. PICK j \in (f.from + 1)..e :
             /\ blList[j] = x
             /\ \A i \in (f.from + 1)..e : blList[i] = x => i = j
             /\ Met(f, x) = IF j <= f.at THEN 1 ELSE 0
      BY <3>2 DEF Once
    <3>4. f.at + 1 \in (f.from + 1)..e
      BY <1>2, <1>6
    <3>5. b = x <=> j = f.at + 1
      BY <3>3, <3>4
    <3>6. Met(g, x) = IF j <= f.at + 1 THEN 1 ELSE 0
      <4>1. CASE InList(b)
        <5> HIDE DEF b
        <5>1. Met(g, x) = IF b = x THEN Met(f, x) + 1 ELSE Met(f, x)
          BY <1>2, <1>6, <1>7, <2>1, <4>1, MetNext
        <5> QED BY <1>2, <1>6, <3>3, <3>5, <5>1
      <4>2. CASE ~InList(b)
        <5>1. b # x
          BY <2>2, <4>2
        <5>2. Met(g, x) = Met(f, x)
          BY <1>7, <4>2 DEF Met
        <5> HIDE DEF b
        <5> QED BY <1>2, <1>6, <3>3, <3>5, <5>1, <5>2
      <4> QED BY <4>1, <4>2
    <3>7. Once(g, e, blList, x)
      BY <1>7, <3>3, <3>6 DEF Once
    <3> QED BY <2>2, <3>1, <3>7
  <2> QED BY <2>3, <2>4
<1>14. Walks'
  <2>1. NotFreedInUse'
    BY <1>3, <1>4, <1>8, <1>12 DEF NotFreedInUse
  <2>2. MetOnce'
    <3>1. \A k \in 1..K : \A x \in fs[k].stay : InList(x)'
      <4>1. ASSUME NEW k \in 1..K, NEW x \in fs[k].stay PROVE InList(x)'
        <5>1. x \in Bls /\ InList(x)
          BY <1>1, <1>9, <1>13, <4>1, FramesAre
        <5> QED BY <1>4, <5>1
      <4> QED BY <4>1
    <3> QED BY <1>3, <1>4, <1>8, <1>13, <3>1 DEF MetOnce
  <2>3. Len(fs) <= lock /\ lock \in Nat
    BY <1>1, <1>8 DEF Walks
  <2>4. blList \in Seq(Bls) /\ Len(blList) <= MaxList
    BY <1>1 DEF Walks
  <2> QED BY <1>3, <1>4, <1>8, <1>11, <2>1, <2>2, <2>3, <2>4 DEF Walks
<1> QED BY <1>4, <1>5, <1>14 DEF BlocksInv

LEMMA PrefixIs ==
    ASSUME NEW S, NEW s \in Seq(S), NEW n \in 0..Len(s)
    PROVE  LET t == SubSeq(s, 1, n) IN
           t \in Seq(S) /\ Len(t) = n /\ DOMAIN t = 1..n /\ \A i \in 1..n : t[i] = s[i]
OBVIOUS

LEMMA UnlockIs ==
    ASSUME Rows, Placed, QueueDies, Walks, Unlock, frames # <<>>, UNCHANGED listVars
    PROVE  /\ Placed' /\ QueueDies' /\ lock' = lock - 1
           /\ \A b \in Bls : mem'[b] = "live" <=> mem[b] = "live"
           /\ Len(frames) > 1 => mem' = mem
<1>1. lock \in Nat /\ Len(frames) \in Nat \ {0} /\ Len(frames) <= lock
  BY FrameIs DEF Walks
<1>2. lock' = lock - 1
  BY DEF Unlock
<1>3. CASE lock = 1
  <2>1. /\ mem' = [b \in Bls |-> IF b \in ToSet(queue) THEN "none" ELSE mem[b]]
        /\ queue' = <<>>
    BY <1>3 DEF Unlock
  <2> QED BY <1>1, <1>2, <1>3, <2>1, QueueFreed
<1>4. CASE lock # 1
  <2>1. UNCHANGED <<mem, queue>>
    BY <1>4 DEF Unlock, freeVars
  <2>2. Placed' /\ QueueDies'
    BY <2>1 DEF Placed, QueueDies, InList, listVars
  <2> QED BY <1>2, <2>1, <2>2
<1> QED BY <1>3, <1>4

LEMMA ForeachEndStep ==
    ASSUME BlocksInv, ForeachEnd
    PROVE  BlocksInv'
<1>1. /\ Rows /\ Placed /\ QueueDies /\ Objects /\ Walks /\ Bounded
  BY DEF BlocksInv
<1> DEFINE K == Len(frames)
           f == frames[K]
           list == SubSeq(blList, 1, f.from)
           fs == Front(frames)
<1>2. /\ frames # <<>> /\ K \in Nat /\ K \in 1..K /\ K # 0 /\ Frame = f
      /\ frames \in Seq(FrameType) /\ f \in FrameType /\ f.from \in Nat /\ f.at \in Nat
  <2>1. frames # <<>>
    BY DEF ForeachEnd
  <2> QED BY <1>1, <2>1, FrameIs, FramesAre DEF Walks
<1>3. /\ f.at = Len(blList) /\ frames' = fs /\ blList' = list /\ Unlock
      /\ changes' = IF K = 1 THEN 0 ELSE changes
      /\ UNCHANGED <<listVars, objectVars, forgotten>>
  BY <1>2 DEF ForeachEnd
<1>4. /\ Placed' /\ QueueDies' /\ lock' = lock - 1
      /\ \A b \in Bls : mem'[b] = "live" <=> mem[b] = "live"
      /\ K > 1 => mem' = mem
  BY <1>1, <1>2, <1>3, UnlockIs
<1>5. Rows' /\ \A b : InList(b)' <=> InList(b)
  BY <1>1, <1>3 DEF listVars, Rows, InList
<1>6. Bounded'
  BY <1>1, <1>3, BlocksAssumption DEF Bounded
<1>7. Objects'
  BY <1>1, <1>3, <1>4, ObjectsStay, Kinds
<1>8. /\ blList \in Seq(Bls) /\ Len(blList) \in Nat /\ Len(blList) <= MaxList /\ MaxList \in Nat
      /\ f.from <= Len(blList)
  <2>1. f.from <= f.at
    BY <1>1, <1>2 DEF Walks, Nested
  <2> QED BY <1>1, <1>2, <1>3, <2>1, BlocksAssumption DEF Walks
<1>9. /\ list \in Seq(Bls) /\ Len(list) = f.from /\ Len(list) <= MaxList
      /\ \A i \in 1..f.from : list[i] = blList[i]
  <2> HIDE DEF f
  <2> QED BY <1>2, <1>8
<1>10. /\ fs \in Seq(FrameType) /\ Len(fs) = K - 1 /\ DOMAIN fs = 1..(K - 1)
       /\ \A k \in 1..(K - 1) : fs[k] = frames[k]
  <2>1. fs = SubSeq(frames, 1, K - 1)
    BY DEF Front
  <2>2. K - 1 \in 0..Len(frames)
    BY <1>2
  <2> HIDE DEF fs
  <2>3. /\ fs \in Seq(FrameType) /\ Len(fs) = K - 1 /\ DOMAIN fs = 1..(K - 1)
        /\ \A i \in 1..(K - 1) : fs[i] = frames[i]
    BY <1>2, <2>1, <2>2, PrefixIs
  <2> QED BY <2>3
<1> HIDE DEF list, fs
<1>11. \A k \in 1..(K - 1) : k \in 1..K /\ k < K /\ k # K
  BY <1>2
<1>12. ASSUME NEW k \in 1..(K - 1)
       PROVE EndOf(fs, list, k) = EndOf(frames, blList, k)
  <2>1. CASE k = K - 1
    <3>1. EndOf(fs, list, k) = Len(list)
      BY <1>10, <2>1 DEF EndOf
    <3>2. EndOf(frames, blList, k) = frames[k + 1].from
      BY <1>11 DEF EndOf
    <3>3. k + 1 = K
      BY <1>2, <2>1
    <3> QED BY <1>9, <3>1, <3>2, <3>3
  <2>2. CASE k # K - 1
    <3>1. k + 1 \in 1..(K - 1)
      BY <1>2, <2>2
    <3> QED BY <1>10, <1>11, <2>2, <3>1 DEF EndOf
  <2> QED BY <2>1, <2>2
<1>13. ASSUME NEW k \in 1..(K - 1)
       PROVE /\ frames[k].from \in Nat /\ frames[k].at \in Nat
             /\ frames[k].from <= frames[k].at /\ frames[k].at <= EndOf(frames, blList, k)
             /\ EndOf(frames, blList, k) \in Nat /\ EndOf(frames, blList, k) <= f.from
  <2>1. k \in 1..K /\ k < K
    BY <1>11
  <2>2. EndOf(frames, blList, k) \in Nat
    <3>1. k + 1 \in 1..K /\ k # K
      BY <1>2, <2>1
    <3> QED BY <1>1, <3>1, FramesAre DEF EndOf
  <2> QED BY <1>1, <1>2, <2>1, <2>2, FramesAre DEF Walks, Nested
<1>14. Nested(fs, list)
  <2>1. ASSUME NEW k \in 1..(K - 1)
        PROVE /\ fs[k].from <= fs[k].at /\ fs[k].at <= EndOf(fs, list, k)
              /\ EndOf(fs, list, k) <= Len(list)
    BY <1>9, <1>10, <1>12, <1>13
  <2>2. ASSUME NEW k \in 1..(K - 1), NEW m \in 1..(K - 1), k < m
        PROVE EndOf(fs, list, k) <= fs[m].from
    <3>1. EndOf(frames, blList, k) <= frames[m].from
      BY <1>1, <1>11, <2>2 DEF Walks, Nested
    <3> QED BY <1>10, <1>12, <3>1
  <2> QED BY <1>10, <2>1, <2>2 DEF Nested
<1>15. ASSUME NEW k \in 1..(K - 1), NEW i \in fs[k].at + 1..Len(list)
       PROVE mem'[list[i]] # "none"
  <2>1. K > 1
    BY <1>2
  <2>2. fs[k] = frames[k] /\ frames[k].at \in Nat /\ k \in DOMAIN frames
    BY <1>1, <1>10, <1>11, <1>13, FramesAre
  <2>3. i \in 1..f.from /\ i \in frames[k].at + 1..Len(blList)
    <3> HIDE DEF f
    <3> QED BY <1>2, <1>8, <1>9, <2>2
  <2>4. mem[blList[i]] # "none"
    BY <1>1, <2>2, <2>3 DEF Walks, NotFreedInUse
  <2> QED BY <1>4, <1>9, <2>1, <2>3, <2>4
<1>16. ASSUME NEW k \in 1..(K - 1), NEW b \in fs[k].stay
       PROVE InList(b) /\ Once(fs[k], EndOf(fs, list, k), list, b)
  <2>1. fs[k] = frames[k] /\ EndOf(fs, list, k) = EndOf(frames, blList, k) /\ k \in 1..K
    BY <1>10, <1>11, <1>12
  <2>2. InList(b) /\ Once(frames[k], EndOf(frames, blList, k), blList, b)
    BY <1>1, <1>16, <2>1 DEF Walks, MetOnce
  <2>3. \A i \in (frames[k].from + 1)..EndOf(frames, blList, k) : list[i] = blList[i]
    <3>1. /\ frames[k].from \in Nat /\ EndOf(frames, blList, k) \in Nat
          /\ EndOf(frames, blList, k) <= f.from
      BY <1>13
    <3>2. ASSUME NEW i \in (frames[k].from + 1)..EndOf(frames, blList, k) PROVE i \in 1..f.from
      <4> HIDE DEF f
      <4> QED BY <1>2, <3>1
    <3> QED BY <1>9, <3>2
  <2>4. Once(frames[k], EndOf(frames, blList, k), list, b)
    BY <2>2, <2>3, OnceStays
  <2> QED BY <2>1, <2>2, <2>4
<1>17. Walks'
  <2>1. NotFreedInUse'
    BY <1>3, <1>10, <1>15 DEF NotFreedInUse
  <2>2. MetOnce'
    BY <1>3, <1>5, <1>10, <1>16 DEF MetOnce
  <2>3. lock' \in Nat /\ Len(fs) <= lock'
    BY <1>1, <1>2, <1>4, <1>10 DEF Walks
  <2> QED BY <1>3, <1>9, <1>10, <1>14, <2>1, <2>2, <2>3 DEF Walks
<1> QED BY <1>4, <1>5, <1>6, <1>7, <1>17 DEF BlocksInv

LEMMA ForeachInAreaStep ==
    ASSUME BlocksInv, NEW area \in Areas, NEW types, ForeachInArea(area, types)
    PROVE  BlocksInv'
<1> DEFINE mobs == FlattenSeq(ChainsIn(area, TRUE))
           others == FlattenSeq(ChainsIn(area, FALSE))
<1>1. BlocksTypeOK /\ Rows
  BY InvType DEF BlocksInv
<1>2. Finds(mobs) /\ \A i \in 1..Len(mobs) : mobs[i] \in Mobs
  BY <1>1, AreaFinds
<1>3. Finds(others) /\ \A i \in 1..Len(others) : others[i] \notin Mobs
  BY <1>1, AreaFinds
<1>4. Begin(IF types = "mobs" THEN mobs ELSE others \o mobs)
  BY DEF ForeachInArea, ChainsIn
<1> HIDE DEF mobs, others
<1>5. Finds(others \o mobs)
  BY <1>2, <1>3, BothFind
<1>6. CASE types = "mobs"
  BY <1>2, <1>4, <1>6, BeginStep
<1>7. CASE types # "mobs"
  <2>1. Begin(others \o mobs)
    BY <1>4, <1>7
  <2> QED BY <1>5, <2>1, BeginStep
<1> QED BY <1>6, <1>7

LEMMA ForeachObjectStep ==
    ASSUME BlocksInv, ForeachObject
    PROVE  BlocksInv'
<1> DEFINE found == FlattenSeq([i \in 1..(lastId - 1) |->
                        IF object[i + 1] = NullBl THEN <<>> ELSE <<object[i + 1]>>])
<1>1. BlocksTypeOK /\ ObjectsFound /\ IdsOnce /\ Placed
  BY InvType DEF BlocksInv, Objects
<1>2. Finds(found)
  BY <1>1, ObjectsAreFound
<1>3. Begin(found)
  BY DEF ForeachObject
<1> HIDE DEF found
<1> QED BY <1>2, <1>3, BeginStep

LEMMA NextInv == BlocksInv /\ [BlocksNext]_blocksVars => BlocksInv'
<1> SUFFICES ASSUME BlocksInv, [BlocksNext]_blocksVars PROVE BlocksInv'
  OBVIOUS
<1>1. ASSUME NEW b \in Bls, NEW c \in Cells, Appear(b, c) PROVE BlocksInv'
  BY <1>1, AppearStep
<1>2. ASSUME NEW b \in Bls, NEW c \in Cells, MoveOver(b, c) PROVE BlocksInv'
  BY <1>2, MoveOverStep
<1>3. ASSUME NEW b \in Things, NEW c \in DropCells, Drop(b, c) PROVE BlocksInv'
  BY <1>3, DropStep
<1>4. ASSUME NEW b \in Bls, Leave(b) PROVE BlocksInv'
  BY <1>4, LeaveStep
<1>5. ASSUME NEW b \in Bls, Die(b) PROVE BlocksInv'
  BY <1>5, DieStep
<1>6. ASSUME NEW i \in ObjectIds, PickUp(i) PROVE BlocksInv'
  BY <1>6, PickUpStep
<1>7. CASE ForgetUnlock
  BY <1>7, ForgetUnlockStep
<1>8. CASE FreeblockTimer
  BY <1>8, FreeblockTimerStep
<1>9. ASSUME NEW area \in Areas, NEW types \in {"all", "mobs"}, ForeachInArea(area, types)
      PROVE BlocksInv'
  BY <1>9, ForeachInAreaStep
<1>10. CASE ForeachObject
  BY <1>10, ForeachObjectStep
<1>11. CASE ForeachCall
  BY <1>11, ForeachCallStep
<1>12. CASE ForeachEnd
  BY <1>12, ForeachEndStep
<1>13. CASE UNCHANGED blocksVars
  <2>1. UNCHANGED <<links, cellOf, mem, queue, lock, blList, frames, object, firstFree, lastId,
                    changes, forgotten>>
    BY <1>13 DEF blocksVars
  <2>2. Rows' /\ Placed' /\ QueueDies' /\ Bounded'
    BY <2>1 DEF BlocksInv, Rows, Placed, QueueDies, InList, Bounded
  <2>3. Objects'
    BY <2>1, ObjectsStay DEF BlocksInv, objectVars
  <2>4. Walks'
    BY <2>1 DEF BlocksInv, Walks, NotFreedInUse, MetOnce, InList
  <2> QED BY <2>2, <2>3, <2>4 DEF BlocksInv
<1> QED BY <1>1, <1>2, <1>3, <1>4, <1>5, <1>6, <1>7, <1>8, <1>9, <1>10, <1>11, <1>12, <1>13, Zenon
        DEF BlocksNext

\* Only the end of a foreach takes a frame away.
LEMMA StepMeets ==
    ASSUME BlocksInv, [BlocksNext]_blocksVars
    PROVE  \A k \in DOMAIN frames \ DOMAIN frames' : \A b \in frames[k].stay :
               Cardinality({i \in DOMAIN frames[k].seen : frames[k].seen[i] = b}) = 1
<1>1. Walks
  BY DEF BlocksInv
<1>2. frames \in Seq(FrameType) /\ Len(frames) \in Nat /\ DOMAIN frames = 1..Len(frames)
  BY <1>1, FramesAre DEF Walks
<1>3. CASE UNCHANGED frames
  BY <1>3
<1>4. ASSUME NEW b, Disturb(b) PROVE DOMAIN frames' = DOMAIN frames
  BY <1>4 DEF Disturb
<1>5. ASSUME NEW found, Begin(found) PROVE DOMAIN frames \subseteq DOMAIN frames'
  <2> DEFINE f == [from |-> Len(blList), at |-> Len(blList), calling |-> FALSE,
                   stay |-> ToSet(Fits(found)), seen |-> <<>>]
  <2>1. frames' = Append(frames, f)
    BY <1>5 DEF Begin
  <2> HIDE DEF f
  <2>2. DOMAIN frames' = 1..(Len(frames) + 1)
    BY <1>2, <2>1
  <2> QED BY <1>2, <2>2
<1>6. CASE ForeachCall
  <2>1. DOMAIN frames' = DOMAIN frames
    BY <1>6 DEF ForeachCall
  <2> QED BY <2>1
<1>7. CASE ForeachEnd
  <2> DEFINE K == Len(frames)
             f == frames[K]
  <2>1. frames # <<>> /\ f.at = Len(blList) /\ frames' = Front(frames)
    BY <1>1, <1>7, FrameIs DEF ForeachEnd
  <2>2. DOMAIN frames' = 1..(K - 1)
    <3>1. frames' = SubSeq(frames, 1, K - 1)
      BY <2>1 DEF Front
    <3> QED BY <1>2, <2>1, <3>1
  <2>3. K \in 1..K /\ f.from \in Nat /\ f.at \in Nat
    BY <1>1, <2>1, FrameIs, FramesAre
  <2>4. \A k \in DOMAIN frames \ DOMAIN frames' : k = K
    BY <1>2, <2>2
  <2>5. ASSUME NEW b \in f.stay
        PROVE Cardinality({i \in DOMAIN f.seen : f.seen[i] = b}) = 1
    <3>1. Once(f, EndOf(frames, blList, K), blList, b)
      BY <1>1, <2>3 DEF Walks, MetOnce
    <3>2. EndOf(frames, blList, K) = f.at
      BY <2>1 DEF EndOf
    <3>3. PICK j \in (f.from + 1)..f.at : Met(f, b) = IF j <= f.at THEN 1 ELSE 0
      BY <3>1, <3>2 DEF Once
    <3>4. j <= f.at
      <4> HIDE DEF f
      <4> QED BY <2>3
    <3> QED BY <3>3, <3>4 DEF Met
  <2> QED BY <2>4, <2>5
<1>8. CASE BlocksNext
  <2>1. ASSUME NEW b, NEW c, Appear(b, c) \/ Drop(b, c) PROVE UNCHANGED frames
    BY <2>1 DEF Appear, Drop
  <2>2. ASSUME NEW b, NEW c, MoveOver(b, c) PROVE Disturb(b)
    BY <2>2 DEF MoveOver
  <2>3. ASSUME NEW b, Leave(b) \/ Die(b) PROVE Disturb(b)
    BY <2>3 DEF Leave, Die
  <2>4. ASSUME NEW i, PickUp(i) PROVE Disturb(object[i])
    BY <2>4 DEF PickUp
  <2>5. ASSUME ForgetUnlock \/ FreeblockTimer PROVE UNCHANGED frames
    BY <2>5 DEF ForgetUnlock, FreeblockTimer
  <2>6. ASSUME NEW area, NEW types, ForeachInArea(area, types) PROVE \E found : Begin(found)
    BY <2>6 DEF ForeachInArea
  <2>7. ForeachObject => \E found : Begin(found)
    BY DEF ForeachObject
  <2>8. \/ UNCHANGED frames \/ \E b : Disturb(b)
        \/ \E found : Begin(found)
        \/ ForeachCall \/ ForeachEnd
    BY <1>8, <2>1, <2>2, <2>3, <2>4, <2>5, <2>6, <2>7, Zenon DEF BlocksNext
  <2> QED BY <1>3, <1>4, <1>5, <1>6, <1>7, <2>8
<1>9. CASE UNCHANGED blocksVars
  BY <1>3, <1>9 DEF blocksVars
<1> QED BY <1>8, <1>9

-----------------------------------------------------------------------------
(* The theorems                                                            *)

\* In every behaviour there are numbers for the blocks of every list, who is in
\* a list is live, and what a running foreach has found is in its segment once.
THEOREM BlocksInvariance == BlocksSpec => []BlocksInv
<1> QED BY InitInv, NextInv, PTL DEF BlocksSpec

\* Pointers of the lists, bl_list, block_free and object[] hold what they are
\* declared to hold, and no index leaves its array.
THEOREM BlocksTypeCorrect == BlocksSpec => []BlocksTypeOK
<1>1. BlocksInv => BlocksTypeOK
  BY InvType
<1> QED BY <1>1, BlocksInvariance, PTL

\* map_addblock and map_delblock keep every list sound, whatever the functions
\* called by a foreach add, move and remove.
THEOREM ListsSoundHolds == BlocksSpec => []ListsSound
<1>1. BlocksInv => ListsSound
  BY InvType, RowsSound DEF BlocksInv
<1> QED BY <1>1, BlocksInvariance, PTL

\* No block that a foreach is still to look at is freed: the lock counts the
\* foreachs that run, and the timer frees only when none does.
THEOREM NotFreedInUseHolds == BlocksSpec => []NotFreedInUse
<1>1. BlocksInv => NotFreedInUse
  BY DEF BlocksInv, Walks
<1> QED BY <1>1, BlocksInvariance, PTL

\* No free id is below where map_addobject begins to look, and map_foreachobject
\* reaches every object.
THEOREM ObjectsFoundHolds == BlocksSpec => []ObjectsFound
<1>1. BlocksInv => ObjectsFound
  BY DEF BlocksInv, Objects
<1> QED BY <1>1, BlocksInvariance, PTL

\* A foreach that ends has called its function exactly once for each block it
\* found that stayed in its place, however its functions walked the map.
THEOREM ForeachMeetsAllHolds == BlocksSpec => ForeachMeetsAll
<1>1. BlocksInv /\ [BlocksNext]_blocksVars =>
        [\A k \in DOMAIN frames \ DOMAIN frames' : \A b \in frames[k].stay :
            Cardinality({i \in DOMAIN frames[k].seen : frames[k].seen[i] = b}) = 1]_blocksVars
  BY StepMeets
<1> QED BY <1>1, BlocksInvariance, PTL DEF BlocksSpec, ForeachMeetsAll

=============================================================================
