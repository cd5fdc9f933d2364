----------------------------- MODULE EngineProofs -----------------------------
(***************************************************************************)
(* Theorems about MobAi and Unit for all players and monsters: on any map, *)
(* with any sight, who is near whom and which monsters think; and on any   *)
(* path and at any speed, that the timers a unit holds are those that are  *)
(* set, and what that has to do with where it is, whether it walks and how *)
(* fast.                                                                   *)
(***************************************************************************)
EXTENDS MobAi, Unit, Sums, SequenceTheorems

-----------------------------------------------------------------------------
(* MobAi                                                                   *)

AiData ==
    [head : Monsters \cup {NoMob}, count : Nat, near : [Monsters -> Nat],
     next : [Monsters -> Monsters \cup {NoMob}], prev : [Monsters -> Monsters \cup {NoMob}]]

-----------------------------------------------------------------------------
(* The list of the monsters that think                                     *)

\* x is on the list, in the place i from its end.
Stands(r, x, i) == x \in Monsters /\ r[x] = i

\* r tells the place of each monster, 0 off the list, and there are as many as
\* the list counts.
Ranked(a, r) ==
    /\ r \in [Monsters -> 0..a.count]
    /\ \A m, k \in Monsters : r[m] = r[k] /\ r[m] # 0 => m = k
    /\ \A i \in 1..a.count : \E m \in Monsters : r[m] = i

First(a, r) == IF a.count = 0 THEN a.head = NoMob ELSE Stands(r, a.head, a.count)
Nexts(a, r) ==
    \A m \in Monsters : IF r[m] = 0 \/ r[m] = 1 THEN a.next[m] = NoMob
                        ELSE Stands(r, a.next[m], r[m] - 1)
Prevs(a, r) ==
    \A m \in Monsters : IF r[m] = 0 \/ r[m] = a.count THEN a.prev[m] = NoMob
                        ELSE Stands(r, a.prev[m], r[m] + 1)

Linked(a, r) == a \in AiData /\ Ranked(a, r) /\ First(a, r) /\ Nexts(a, r) /\ Prevs(a, r)

LEMMA NoMobIsNone == NoMob \notin Monsters
BY MobAiAssumption

LEMMA AiIs ==
    ASSUME NEW a \in AiData, NEW b, DOMAIN b = DOMAIN a, b = [i \in DOMAIN b |-> b[i]],
           b.head \in Monsters \cup {NoMob}, b.count \in Nat, b.near \in [Monsters -> Nat],
           b.next \in [Monsters -> Monsters \cup {NoMob}],
           b.prev \in [Monsters -> Monsters \cup {NoMob}]
    PROVE  b \in AiData
BY DEF AiData

Added(a, b, m) ==
    /\ b \in AiData
    /\ b.near = a.near /\ b.head = m /\ b.count = a.count + 1
    /\ b.next = [a.next EXCEPT ![m] = a.head]
    /\ \A x \in Monsters : b.prev[x] = IF x = a.head THEN m ELSE a.prev[x]

LEMMA AddLinks ==
    ASSUME NEW a \in AiData, NEW m \in Monsters, a.next[m] = NoMob
    PROVE  Added(a, AiAdd(a, m), m)
<1> DEFINE b == AiAdd(a, m)
           h == a.head
<1>1. /\ a.count \in Nat /\ a.near \in [Monsters -> Nat] /\ h \in Monsters \cup {NoMob}
      /\ a.next \in [Monsters -> Monsters \cup {NoMob}]
      /\ a.prev \in [Monsters -> Monsters \cup {NoMob}]
  BY DEF AiData
<1>2. CASE h = NoMob
  <2>1. b = [a EXCEPT !.head = m, !.count = @ + 1]
    BY <1>2 DEF AiAdd
  <2> HIDE DEF b
  <2>2. /\ DOMAIN b = DOMAIN a /\ b = [i \in DOMAIN b |-> b[i]]
        /\ b.near = a.near /\ b.head = m /\ b.count = a.count + 1 /\ b.next = a.next
        /\ b.prev = a.prev
    BY <2>1 DEF AiData
  <2>3. b \in AiData
    BY <1>1, <2>2, AiIs
  <2>4. b.next = [a.next EXCEPT ![m] = h]
    BY <1>1, <1>2, <2>2
  <2>5. \A x \in Monsters : b.prev[x] = IF x = h THEN m ELSE a.prev[x]
    BY <1>2, <2>2, NoMobIsNone
  <2> QED BY <2>2, <2>3, <2>4, <2>5 DEF Added, b
<1>3. CASE h # NoMob
  <2>1. b = [a EXCEPT !.next[m] = h, !.prev[h] = m, !.head = m, !.count = @ + 1]
    BY <1>3 DEF AiAdd
  <2> HIDE DEF b, h
  <2>2. /\ DOMAIN b = DOMAIN a /\ b = [i \in DOMAIN b |-> b[i]]
        /\ b.near = a.near /\ b.head = m /\ b.count = a.count + 1
        /\ b.next = [a.next EXCEPT ![m] = h] /\ b.prev = [a.prev EXCEPT ![h] = m]
    BY <2>1 DEF AiData
  <2>3. b \in AiData
    BY <1>1, <2>2, AiIs
  <2>4. \A x \in Monsters : b.prev[x] = IF x = h THEN m ELSE a.prev[x]
    BY <1>1, <2>2
  <2> QED BY <2>2, <2>3, <2>4 DEF Added, b, h
<1> QED BY <1>2, <1>3

\* A monster comes in front of the list.
LEMMA AddRanked ==
    ASSUME NEW a, NEW b, NEW r, NEW m \in Monsters, Linked(a, r), r[m] = 0, Added(a, b, m)
    PROVE  Linked(b, [r EXCEPT ![m] = a.count + 1])
<1> DEFINE k == a.count
           h == a.head
           s == [r EXCEPT ![m] = k + 1]
<1>1. /\ a \in AiData /\ b \in AiData /\ k \in Nat
      /\ b.head = m /\ b.count = k + 1 /\ b.next = [a.next EXCEPT ![m] = h]
      /\ \A x \in Monsters : b.prev[x] = IF x = h THEN m ELSE a.prev[x]
  BY DEF Linked, Added, AiData
<1>2. /\ r \in [Monsters -> 0..k]
      /\ \A x, y \in Monsters : r[x] = r[y] /\ r[x] # 0 => x = y
      /\ \A i \in 1..k : \E x \in Monsters : r[x] = i
  BY DEF Linked, Ranked
<1>3. IF k = 0 THEN h = NoMob ELSE h \in Monsters /\ r[h] = k
  BY DEF Linked, First, Stands
<1>4. \A x \in Monsters : IF r[x] = 0 \/ r[x] = 1 THEN a.next[x] = NoMob
                          ELSE a.next[x] \in Monsters /\ r[a.next[x]] = r[x] - 1
  BY DEF Linked, Nexts, Stands
<1>5. \A x \in Monsters : IF r[x] = 0 \/ r[x] = k THEN a.prev[x] = NoMob
                          ELSE a.prev[x] \in Monsters /\ r[a.prev[x]] = r[x] + 1
  BY DEF Linked, Prevs, Stands
<1>6. b.next[m] = h /\ \A x \in Monsters \ {m} : b.next[x] = a.next[x]
  BY <1>1 DEF AiData
<1>7. s \in [Monsters -> 0..(k + 1)] /\ s[m] = k + 1 /\ \A x \in Monsters \ {m} : s[x] = r[x]
  BY <1>1, <1>2
<1> HIDE DEF k, h, s
<1>8. Ranked(b, s)
  <2>1. \A x, y \in Monsters : s[x] = s[y] /\ s[x] # 0 => x = y
    BY <1>1, <1>2, <1>7
  <2>2. ASSUME NEW i \in 1..(k + 1) PROVE \E x \in Monsters : s[x] = i
    <3>1. CASE i = k + 1
      BY <1>7, <3>1
    <3>2. CASE i # k + 1
      <4>1. i \in 1..k
        BY <1>1, <3>2
      <4>2. PICK x \in Monsters : r[x] = i
        BY <1>2, <4>1
      <4> QED BY <1>7, <4>1, <4>2
    <3> QED BY <3>1, <3>2
  <2> QED BY <1>1, <1>7, <2>1, <2>2 DEF Ranked
<1>9. First(b, s)
  BY <1>1, <1>7 DEF First, Stands
<1>10. Nexts(b, s)
  <2> SUFFICES ASSUME NEW x \in Monsters
               PROVE IF s[x] = 0 \/ s[x] = 1 THEN b.next[x] = NoMob
                     ELSE b.next[x] \in Monsters /\ s[b.next[x]] = s[x] - 1
    BY DEF Nexts, Stands
  <2>1. CASE x = m
    BY <1>1, <1>3, <1>6, <1>7, <2>1
  <2>2. CASE x # m
    BY <1>1, <1>2, <1>4, <1>6, <1>7, <2>2
  <2> QED BY <2>1, <2>2
<1>11. Prevs(b, s)
  <2> SUFFICES ASSUME NEW x \in Monsters
               PROVE IF s[x] = 0 \/ s[x] = k + 1 THEN b.prev[x] = NoMob
                     ELSE b.prev[x] \in Monsters /\ s[b.prev[x]] = s[x] + 1
    BY <1>1 DEF Prevs, Stands
  <2>1. CASE x = m
    BY <1>1, <1>3, <1>5, <1>7, <2>1
  <2>2. CASE x # m /\ x = h
    BY <1>1, <1>2, <1>3, <1>7, <2>2, NoMobIsNone
  <2>3. CASE x # m /\ x # h
    <3>1. b.prev[x] = a.prev[x] /\ s[x] = r[x] /\ r[x] \in 0..k
      BY <1>1, <1>2, <1>7, <2>3
    <3>2. r[x] # 0 => r[x] # k
      BY <1>1, <1>2, <1>3, <2>3, <3>1
    <3> QED BY <1>1, <1>2, <1>5, <1>7, <3>1, <3>2
  <2> QED BY <2>1, <2>2, <2>3
<1>12. Linked(b, s)
  BY <1>1, <1>8, <1>9, <1>10, <1>11 DEF Linked
<1> QED BY <1>12 DEF s, k

Deleted(a, b, m) ==
    LET n == a.next[m]
        p == a.prev[m] IN
    /\ b \in AiData
    /\ b.near = a.near /\ b.count = IF a.count = 0 THEN 0 ELSE a.count - 1
    /\ b.head = IF a.head = m THEN n ELSE a.head
    /\ b.next[m] = NoMob
    /\ \A x \in Monsters \ {m} : b.next[x] = IF x = p THEN n ELSE a.next[x]
    /\ b.prev[m] = NoMob
    /\ \A x \in Monsters \ {m} : b.prev[x] = IF x = n THEN p ELSE a.prev[x]

LEMMA DelLinks ==
    ASSUME NEW a \in AiData, NEW m \in Monsters, a.head = m => a.prev[m] = NoMob
    PROVE  Deleted(a, AiDel(a, m), m)
<1> DEFINE n == a.next[m]
           p == a.prev[m]
           cut == IF a.head = m THEN [a EXCEPT !.head = n]
                  ELSE IF p = NoMob THEN a ELSE [a EXCEPT !.next[p] = n]
           told == IF n = NoMob THEN cut ELSE [cut EXCEPT !.prev[n] = p]
           b == [told EXCEPT !.prev[m] = NoMob, !.next[m] = NoMob,
                             !.count = IF @ = 0 THEN 0 ELSE @ - 1]
<1>0. b = AiDel(a, m)
  BY DEF AiDel
<1>1. /\ a.count \in Nat /\ a.near \in [Monsters -> Nat] /\ a.head \in Monsters \cup {NoMob}
      /\ a.next \in [Monsters -> Monsters \cup {NoMob}]
      /\ a.prev \in [Monsters -> Monsters \cup {NoMob}]
      /\ n \in Monsters \cup {NoMob} /\ p \in Monsters \cup {NoMob}
  BY DEF AiData
<1> DEFINE next == a.next
           prev == a.prev
<1>2. /\ next \in [Monsters -> Monsters \cup {NoMob}]
      /\ prev \in [Monsters -> Monsters \cup {NoMob}]
      /\ next = a.next /\ prev = a.prev
  BY <1>1
<1>3. a.head = m => p = NoMob
  OBVIOUS
<1> HIDE DEF n, p, next, prev
<1>4. /\ DOMAIN cut = DOMAIN a /\ cut = [i \in DOMAIN cut |-> cut[i]]
      /\ cut.near = a.near /\ cut.count = a.count /\ cut.prev = prev
      /\ cut.head = IF a.head = m THEN n ELSE a.head
      /\ cut.next \in [Monsters -> Monsters \cup {NoMob}]
      /\ \A x \in Monsters : cut.next[x] = IF x = p THEN n ELSE next[x]
  <2>1. CASE a.head = m
    <3>1. cut = [a EXCEPT !.head = n]
      BY <2>1
    <3> HIDE DEF cut
    <3> QED BY <1>2, <1>3, <2>1, <3>1, NoMobIsNone DEF AiData
  <2>2. CASE a.head # m /\ p = NoMob
    <3>1. cut = a
      BY <2>2
    <3> HIDE DEF cut
    <3> QED BY <1>2, <2>2, <3>1, NoMobIsNone DEF AiData
  <2>3. CASE a.head # m /\ p # NoMob
    <3>1. cut = [a EXCEPT !.next[p] = n] /\ p \in Monsters
      BY <1>1, <2>3
    <3> HIDE DEF cut
    <3>2. /\ DOMAIN cut = DOMAIN a /\ cut = [i \in DOMAIN cut |-> cut[i]]
          /\ cut.near = a.near /\ cut.count = a.count /\ cut.prev = prev
          /\ cut.head = a.head /\ cut.next = [next EXCEPT ![p] = n]
      BY <1>2, <3>1 DEF AiData
    <3>3. /\ cut.next \in [Monsters -> Monsters \cup {NoMob}]
          /\ \A x \in Monsters : cut.next[x] = IF x = p THEN n ELSE next[x]
      BY <1>1, <1>2, <3>1, <3>2
    <3> QED BY <2>3, <3>2, <3>3
  <2> QED BY <2>1, <2>2, <2>3
<1> HIDE DEF cut
<1>5. /\ DOMAIN told = DOMAIN a /\ told = [i \in DOMAIN told |-> told[i]]
      /\ told.near = a.near /\ told.count = a.count /\ told.head = cut.head
      /\ told.next = cut.next
      /\ told.prev \in [Monsters -> Monsters \cup {NoMob}]
      /\ \A x \in Monsters : told.prev[x] = IF x = n THEN p ELSE prev[x]
  <2>1. CASE n = NoMob
    <3>1. told = cut
      BY <2>1
    <3> HIDE DEF told
    <3> QED BY <1>2, <1>4, <2>1, <3>1, NoMobIsNone
  <2>2. CASE n # NoMob
    <3>1. told = [cut EXCEPT !.prev[n] = p] /\ n \in Monsters
      BY <1>1, <2>2
    <3> HIDE DEF told
    <3>2. /\ DOMAIN told = DOMAIN cut /\ told = [i \in DOMAIN told |-> told[i]]
      BY <3>1
    <3>4. /\ "prev" \in DOMAIN cut
      BY <1>4 DEF AiData
    <3>5. /\ told.near = cut.near /\ told.count = cut.count /\ told.head = cut.head
          /\ told.next = cut.next /\ told.prev = [prev EXCEPT ![n] = p]
      BY <1>4, <3>1, <3>4 DEF AiData
    <3>3. /\ told.prev \in [Monsters -> Monsters \cup {NoMob}]
          /\ \A x \in Monsters : told.prev[x] = IF x = n THEN p ELSE prev[x]
      <4> DEFINE q == told.prev
      <4>1. q = [prev EXCEPT ![n] = p] /\ prev \in [Monsters -> Monsters \cup {NoMob}]
            /\ n \in Monsters /\ p \in Monsters \cup {NoMob}
        BY <1>1, <1>2, <3>1, <3>5
      <4> HIDE DEF q
      <4>2. q \in [Monsters -> Monsters \cup {NoMob}]
            /\ \A x \in Monsters : q[x] = IF x = n THEN p ELSE prev[x]
        BY <4>1
      <4> QED BY <4>2 DEF q
    <3> QED BY <1>4, <3>2, <3>3, <3>5
  <2> QED BY <2>1, <2>2
<1> HIDE DEF told
<1>6. told \in AiData
  <2>1. cut.head \in Monsters \cup {NoMob}
    BY <1>1, <1>4
  <2> QED BY <1>1, <1>4, <1>5, <2>1, AiIs
<1>7. /\ DOMAIN b = DOMAIN told /\ b = [i \in DOMAIN b |-> b[i]]
      /\ b.near = told.near /\ b.head = told.head
      /\ b.count = IF told.count = 0 THEN 0 ELSE told.count - 1
      /\ b.next = [told.next EXCEPT ![m] = NoMob] /\ b.prev = [told.prev EXCEPT ![m] = NoMob]
  BY <1>6 DEF AiData
<1> HIDE DEF b
<1>8. /\ told.count \in Nat /\ told.near \in [Monsters -> Nat]
      /\ told.head \in Monsters \cup {NoMob}
      /\ told.next \in [Monsters -> Monsters \cup {NoMob}]
      /\ told.prev \in [Monsters -> Monsters \cup {NoMob}]
  BY <1>6 DEF AiData
<1>9. /\ b.next \in [Monsters -> Monsters \cup {NoMob}]
      /\ b.next[m] = NoMob /\ \A x \in Monsters \ {m} : b.next[x] = told.next[x]
      /\ b.prev \in [Monsters -> Monsters \cup {NoMob}]
      /\ b.prev[m] = NoMob /\ \A x \in Monsters \ {m} : b.prev[x] = told.prev[x]
  BY <1>7, <1>8
<1>10. b \in AiData
  BY <1>6, <1>7, <1>8, <1>9, AiIs
<1>11. Deleted(a, b, m)
  BY <1>2, <1>4, <1>5, <1>7, <1>9, <1>10 DEF Deleted, n, p
<1> QED BY <1>0, <1>11

\* A monster leaves the list.
Closed(r, m) ==
    [x \in Monsters |-> IF x = m THEN 0 ELSE IF r[x] > r[m] THEN r[x] - 1 ELSE r[x]]

LEMMA DelRanked ==
    ASSUME NEW a, NEW b, NEW r, NEW m \in Monsters, Linked(a, r), r[m] # 0, Deleted(a, b, m)
    PROVE  Linked(b, Closed(r, m))
<1> DEFINE k == a.count
           n == a.next[m]
           p == a.prev[m]
           s == Closed(r, m)
           t == r[m]
<1>1. /\ a \in AiData /\ b \in AiData /\ k \in Nat
      /\ b.count = (IF k = 0 THEN 0 ELSE k - 1)
      /\ b.head = (IF a.head = m THEN n ELSE a.head)
      /\ b.next[m] = NoMob /\ \A x \in Monsters \ {m} : b.next[x] = IF x = p THEN n ELSE a.next[x]
      /\ b.prev[m] = NoMob /\ \A x \in Monsters \ {m} : b.prev[x] = IF x = n THEN p ELSE a.prev[x]
  BY DEF Linked, Deleted, AiData
<1>2. /\ r \in [Monsters -> 0..k]
      /\ \A x, y \in Monsters : r[x] = r[y] /\ r[x] # 0 => x = y
      /\ \A i \in 1..k : \E x \in Monsters : r[x] = i
  BY DEF Linked, Ranked
<1>3. IF k = 0 THEN a.head = NoMob ELSE a.head \in Monsters /\ r[a.head] = k
  BY DEF Linked, First, Stands
<1>4. \A x \in Monsters : IF r[x] = 0 \/ r[x] = 1 THEN a.next[x] = NoMob
                          ELSE a.next[x] \in Monsters /\ r[a.next[x]] = r[x] - 1
  BY DEF Linked, Nexts, Stands
<1>5. \A x \in Monsters : IF r[x] = 0 \/ r[x] = k THEN a.prev[x] = NoMob
                          ELSE a.prev[x] \in Monsters /\ r[a.prev[x]] = r[x] + 1
  BY DEF Linked, Prevs, Stands
<1>6. t \in 1..k /\ b.count = k - 1
  BY <1>1, <1>2
<1>7. IF t = 1 THEN n = NoMob ELSE n \in Monsters /\ r[n] = t - 1
  BY <1>4, <1>6
<1>8. IF t = k THEN p = NoMob ELSE p \in Monsters /\ r[p] = t + 1
  BY <1>5, <1>6
<1>9. /\ s[m] = 0
      /\ \A x \in Monsters \ {m} : s[x] = IF r[x] > t THEN r[x] - 1 ELSE r[x]
      /\ DOMAIN s = Monsters /\ s = [x \in Monsters |-> s[x]]
  BY DEF Closed
<1> HIDE DEF k, n, s
<1>10. \A x \in Monsters \ {m} : r[x] \in Nat /\ r[x] <= k /\ r[x] # t
  BY <1>1, <1>2, <1>6
<1> DEFINE u == t
<1>11. u = t /\ r[m] = u
  OBVIOUS
<1> HIDE DEF u, p
<1>12. Ranked(b, s)
  <2>1. ASSUME NEW x \in Monsters PROVE s[x] \in 0..(k - 1)
    BY <1>1, <1>6, <1>9, <1>10
  <2>2. ASSUME NEW x \in Monsters, NEW y \in Monsters, s[x] = s[y], s[x] # 0 PROVE x = y
    BY <1>2, <1>6, <1>9, <1>10, <2>2
  <2>3. ASSUME NEW i \in 1..(k - 1) PROVE \E x \in Monsters : s[x] = i
    <3>1. CASE i < t
      <4>1. PICK x \in Monsters : r[x] = i
        BY <1>1, <1>2, <1>6, <2>3
      <4> QED BY <1>6, <1>9, <3>1, <4>1
    <3>2. CASE i >= t
      <4>1. PICK x \in Monsters : r[x] = i + 1
        BY <1>1, <1>2, <1>6, <2>3
      <4> QED BY <1>6, <1>9, <3>2, <4>1
    <3> QED BY <1>6, <3>1, <3>2
  <2>4. s \in [Monsters -> 0..(k - 1)]
    BY <1>9, <2>1
  <2> QED BY <1>6, <2>2, <2>3, <2>4 DEF Ranked
<1>13. First(b, s)
  <2>1. CASE a.head = m
    <3>1. t = k
      BY <1>3, <1>6, <2>1
    <3> QED BY <1>1, <1>6, <1>7, <1>9, <1>10, <2>1, <3>1 DEF First, Stands
  <2>2. CASE a.head # m
    <3>1. a.head \in Monsters \ {m} /\ r[a.head] = k
      BY <1>3, <1>6, <2>2
    <3>2. t # k
      BY <1>10, <3>1
    <3> QED BY <1>1, <1>6, <1>9, <2>2, <3>1, <3>2 DEF First, Stands
  <2> QED BY <2>1, <2>2
<1>14. Nexts(b, s)
  <2> SUFFICES ASSUME NEW x \in Monsters
               PROVE IF s[x] = 0 \/ s[x] = 1 THEN b.next[x] = NoMob
                     ELSE b.next[x] \in Monsters /\ s[b.next[x]] = s[x] - 1
    BY DEF Nexts, Stands
  <2>1. CASE x = m
    BY <1>1, <1>9, <2>1
  <2>2. CASE x # m /\ x = p
    <3>1. r[x] = t + 1 /\ b.next[x] = n /\ s[x] = t
      BY <1>1, <1>6, <1>8, <1>9, <2>2, NoMobIsNone
    <3>2. n \in Monsters => n # m /\ s[n] = t - 1
      BY <1>6, <1>7, <1>9, NoMobIsNone
    <3> QED BY <1>6, <1>7, <3>1, <3>2
  <2>3. CASE x # m /\ x # p
    <3>1. b.next[x] = a.next[x] /\ r[x] \in Nat /\ r[x] # t
      BY <1>1, <1>10, <2>3
    <3>2. r[x] # t + 1
      BY <1>2, <1>6, <1>8, <1>10, <2>3
    <3>3. CASE r[x] = 0 \/ r[x] = 1
      BY <1>4, <1>6, <1>9, <2>3, <3>1, <3>3
    <3>4. CASE ~(r[x] = 0 \/ r[x] = 1)
      <4>1. a.next[x] \in Monsters \ {m} /\ r[a.next[x]] = r[x] - 1
        BY <1>4, <1>6, <3>1, <3>2, <3>4
      <4>2. s[x] = IF r[x] > t THEN r[x] - 1 ELSE r[x]
        BY <1>9, <2>3
      <4>3. s[a.next[x]] = IF r[x] - 1 > t THEN r[x] - 2 ELSE r[x] - 1
        BY <1>9, <4>1, <3>1
      <4> QED BY <1>6, <3>1, <3>2, <3>4, <4>1, <4>2, <4>3
    <3> QED BY <3>3, <3>4
  <2> QED BY <2>1, <2>2, <2>3
<1>15. Prevs(b, s)
  <2> SUFFICES ASSUME NEW x \in Monsters
               PROVE IF s[x] = 0 \/ s[x] = k - 1 THEN b.prev[x] = NoMob
                     ELSE b.prev[x] \in Monsters /\ s[b.prev[x]] = s[x] + 1
    BY <1>6 DEF Prevs, Stands
  <2>1. CASE x = m
    BY <1>1, <1>9, <2>1
  <2>2. CASE x # m /\ x = n
    <3>1. r[x] = t - 1 /\ b.prev[x] = p /\ s[x] = t - 1
      BY <1>1, <1>6, <1>7, <1>9, <2>2, NoMobIsNone
    <3>2. p \in Monsters => p # m /\ s[p] = t
      BY <1>6, <1>8, <1>9, NoMobIsNone
    <3>3. t # 1
      BY <1>7, <2>2, NoMobIsNone
    <3>4. CASE t = k
      BY <1>1, <1>6, <1>8, <3>1, <3>3, <3>4
    <3>5. CASE t # k
      <4>1. s[x] # k - 1 /\ s[x] # 0 /\ t = s[x] + 1
        BY <1>1, <1>6, <3>1, <3>3, <3>5
      <4>2. b.prev[x] \in Monsters /\ s[b.prev[x]] = t
        BY <1>8, <3>1, <3>2, <3>5
      <4> QED BY <4>1, <4>2
    <3> QED BY <3>4, <3>5
  <2>3. CASE x # m /\ x # n
    <3>1. b.prev[x] = a.prev[x] /\ r[x] \in Nat /\ r[x] # t /\ r[x] <= k
      BY <1>1, <1>10, <2>3
    <3>2. r[x] # 0 => r[x] # t - 1
      BY <1>2, <1>6, <1>7, <1>10, <2>3
    <3>3. CASE r[x] = 0 \/ r[x] = k
      BY <1>5, <1>6, <1>9, <2>3, <3>1, <3>3
    <3>4. CASE ~(r[x] = 0 \/ r[x] = k)
      <4>1. a.prev[x] \in Monsters \ {m} /\ r[a.prev[x]] = r[x] + 1
        BY <1>5, <1>6, <3>1, <3>2, <3>4
      <4>2. s[x] = IF r[x] > t THEN r[x] - 1 ELSE r[x]
        BY <1>9, <2>3
      <4>3. s[a.prev[x]] = IF r[x] + 1 > t THEN r[x] ELSE r[x] + 1
        BY <1>9, <4>1, <3>1
      <4> QED BY <1>1, <1>6, <3>1, <3>2, <3>4, <4>1, <4>2, <4>3
    <3> QED BY <3>3, <3>4
  <2> QED BY <2>1, <2>2, <2>3
<1>16. Linked(b, s)
  BY <1>1, <1>12, <1>13, <1>14, <1>15 DEF Linked
<1> QED BY <1>16 DEF s

-----------------------------------------------------------------------------
(* Characters come and go                                                  *)

\* Those with somebody near are on the list, and nobody else.
Queued(a) == \E r : Linked(a, r) /\ \A m \in Monsters : r[m] # 0 <=> a.near[m] # 0

LEMMA QueuedType ==
    ASSUME NEW a, Queued(a)
    PROVE  /\ a \in AiData /\ a.near \in [Monsters -> Nat] /\ a.count \in Nat
           /\ a.head \in Monsters \cup {NoMob}
BY DEF Queued, Linked, AiData

\* The links of the list do not depend on the counts.
LEMMA OnlyNear ==
    ASSUME NEW a, NEW b, NEW r, Linked(a, r), b \in AiData,
           b.head = a.head, b.count = a.count, b.next = a.next, b.prev = a.prev
    PROVE  Linked(b, r)
BY DEF Linked, Ranked, First, Nexts, Prevs

LEMMA NearIs ==
    ASSUME NEW a \in AiData, NEW m \in Monsters, NEW k \in Nat, NEW b, b = [a EXCEPT !.near[m] = k]
    PROVE  /\ b \in AiData /\ b.near = [a.near EXCEPT ![m] = k]
           /\ b.head = a.head /\ b.count = a.count /\ b.next = a.next /\ b.prev = a.prev
<1>1. /\ DOMAIN b = DOMAIN a /\ b = [i \in DOMAIN b |-> b[i]]
      /\ b.near = [a.near EXCEPT ![m] = k]
      /\ b.head = a.head /\ b.count = a.count /\ b.next = a.next /\ b.prev = a.prev
  BY DEF AiData
<1>2. /\ b.head \in Monsters \cup {NoMob} /\ b.count \in Nat /\ b.near \in [Monsters -> Nat]
      /\ b.next \in [Monsters -> Monsters \cup {NoMob}]
      /\ b.prev \in [Monsters -> Monsters \cup {NoMob}]
  BY <1>1 DEF AiData
<1> QED BY <1>1, <1>2, AiIs

LEMMA ComesStep ==
    ASSUME NEW a, Queued(a), NEW m \in Monsters
    PROVE  Queued(Comes(a, m)) /\ Comes(a, m).near = [a.near EXCEPT ![m] = a.near[m] + 1]
<1> DEFINE b == [a EXCEPT !.near[m] = a.near[m] + 1]
           c == Comes(a, m)
<1>1. PICK r : Linked(a, r) /\ \A x \in Monsters : r[x] # 0 <=> a.near[x] # 0
  BY DEF Queued
<1>2. a \in AiData /\ a.near \in [Monsters -> Nat] /\ a.near[m] + 1 \in Nat
  BY QueuedType
<1>3. c = IF a.near[m] = 0 THEN AiAdd(b, m) ELSE b
  BY DEF Comes
<1>4. /\ b \in AiData /\ b.near = [a.near EXCEPT ![m] = a.near[m] + 1]
      /\ b.head = a.head /\ b.count = a.count /\ b.next = a.next /\ b.prev = a.prev
  BY <1>2, NearIs
<1> HIDE DEF b, c
<1>5. Linked(b, r)
  BY <1>1, <1>4, OnlyNear
<1>6. r \in [Monsters -> 0..a.count] /\ a.count \in Nat
  BY <1>1, <1>2 DEF Linked, Ranked, AiData
<1>7. CASE a.near[m] # 0
  <2>1. \A x \in Monsters : r[x] # 0 <=> b.near[x] # 0
    BY <1>1, <1>2, <1>4, <1>7
  <2>2. c = b
    BY <1>3, <1>7
  <2>3. Queued(b)
    BY <1>5, <2>1 DEF Queued
  <2> QED BY <1>4, <2>2, <2>3 DEF c
<1>8. CASE a.near[m] = 0
  <2>1. r[m] = 0 /\ b.next[m] = NoMob
    BY <1>1, <1>4, <1>8 DEF Linked, Nexts
  <2>2. Added(b, c, m)
    BY <1>3, <1>4, <1>8, <2>1, AddLinks
  <2> DEFINE s == [r EXCEPT ![m] = b.count + 1]
  <2>3. Linked(c, s)
    BY <1>5, <2>1, <2>2, AddRanked
  <2>4. c.near = b.near
    BY <2>2 DEF Added
  <2>5. \A x \in Monsters : s[x] # 0 <=> c.near[x] # 0
    BY <1>1, <1>2, <1>4, <1>6, <2>4
  <2> HIDE DEF s
  <2> QED BY <1>4, <2>3, <2>4, <2>5 DEF Queued, c
<1> QED BY <1>7, <1>8

LEMMA GoesStep ==
    ASSUME NEW a, Queued(a), NEW m \in Monsters, a.near[m] # 0
    PROVE  Queued(Goes(a, m)) /\ Goes(a, m).near = [a.near EXCEPT ![m] = a.near[m] - 1]
<1> DEFINE b == [a EXCEPT !.near[m] = a.near[m] - 1]
           c == Goes(a, m)
<1>1. PICK r : Linked(a, r) /\ \A x \in Monsters : r[x] # 0 <=> a.near[x] # 0
  BY DEF Queued
<1>2. a \in AiData /\ a.near \in [Monsters -> Nat] /\ a.near[m] - 1 \in Nat
  BY QueuedType
<1>3. c = IF b.near[m] = 0 THEN AiDel(b, m) ELSE b
  BY DEF Goes
<1>4. /\ b \in AiData /\ b.near = [a.near EXCEPT ![m] = a.near[m] - 1]
      /\ b.head = a.head /\ b.count = a.count /\ b.next = a.next /\ b.prev = a.prev
  BY <1>2, NearIs
<1> HIDE DEF b, c
<1>5. Linked(b, r)
  BY <1>1, <1>4, OnlyNear
<1>6. r \in [Monsters -> 0..a.count] /\ a.count \in Nat /\ r[m] # 0
  BY <1>1, <1>2 DEF Linked, Ranked, AiData
<1>7. CASE b.near[m] # 0
  <2>1. \A x \in Monsters : r[x] # 0 <=> b.near[x] # 0
    BY <1>1, <1>2, <1>4, <1>7
  <2>2. c = b
    BY <1>3, <1>7
  <2>3. Queued(b)
    BY <1>5, <2>1 DEF Queued
  <2> QED BY <1>4, <2>2, <2>3 DEF c
<1>8. CASE b.near[m] = 0
  <2>1. b.head = m => b.prev[m] = NoMob
    BY <1>5, NoMobIsNone DEF Linked, First, Prevs, Stands
  <2>2. Deleted(b, c, m)
    BY <1>3, <1>4, <1>8, <2>1, DelLinks
  <2>3. Linked(c, Closed(r, m))
    BY <1>5, <1>6, <2>2, DelRanked
  <2>4. c.near = b.near
    BY <2>2 DEF Deleted
  <2>5. \A x \in Monsters : Closed(r, m)[x] # 0 <=> c.near[x] # 0
    <3> SUFFICES ASSUME NEW x \in Monsters PROVE Closed(r, m)[x] # 0 <=> c.near[x] # 0
      OBVIOUS
    <3>1. Closed(r, m)[x] = IF x = m THEN 0 ELSE IF r[x] > r[m] THEN r[x] - 1 ELSE r[x]
      BY DEF Closed
    <3>2. r[x] \in Nat /\ r[m] \in Nat \ {0}
      BY <1>6
    <3>3. CASE x = m
      BY <1>8, <2>4, <3>1, <3>3
    <3>4. CASE x # m
      <4>1. c.near[x] = a.near[x]
        BY <1>2, <1>4, <2>4, <3>4
      <4> QED BY <1>1, <3>1, <3>2, <3>4, <4>1
    <3> QED BY <3>3, <3>4
  <2> QED BY <1>4, <2>3, <2>4, <2>5 DEF Queued, c
<1> QED BY <1>7, <1>8

\* map_foreachinarea calls mob_ai_hard_spawn_sub for one after the other.
MobOf(u, v) == IF u \in Monsters THEN u ELSE v
Tell(come, a, m) == IF come THEN Comes(a, m) ELSE Goes(a, m)

\* it is what they come to, for each part of T.
IsRun(it, come, a, u, T) ==
    it = [s \in SUBSET T |-> IF s = {} THEN a
                             ELSE Tell(come, it[s \ {Pick(s)}], MobOf(u, Pick(s)))]

IsRunUpTo(it, come, a, u, T, n) ==
    it = [s \in UpTo(n, T) |-> IF s = {} THEN a
                               ELSE Tell(come, it[s \ {Pick(s)}], MobOf(u, Pick(s)))]

LEMMA RunUpToExists ==
    ASSUME NEW come, NEW a, NEW u, NEW T, IsFiniteSet(T), NEW n \in Nat
    PROVE  \E it : IsRunUpTo(it, come, a, u, T, n)
<1> DEFINE Bad == {k \in Nat : ~ \E it : IsRunUpTo(it, come, a, u, T, k)}
<1>1. SUFFICES ASSUME Bad # {} PROVE FALSE
  OBVIOUS
<1>2. PICK k \in Bad : \A j \in Bad : k <= j
  BY <1>1, LeastExists
<1>3. k # 0
  <2> DEFINE it == [s \in UpTo(0, T) |-> a]
  <2>1. ASSUME NEW s \in UpTo(0, T) PROVE s = {}
    <3>1. IsFiniteSet(s) /\ Cardinality(s) \in Nat
      BY <2>1, FS_Subset, FS_CardinalityType DEF UpTo
    <3> QED BY <2>1, <3>1, FS_EmptySet DEF UpTo
  <2>2. IsRunUpTo(it, come, a, u, T, 0)
    BY <2>1 DEF IsRunUpTo
  <2> QED BY <2>2
<1>4. PICK g : IsRunUpTo(g, come, a, u, T, k - 1)
  BY <1>2, <1>3
<1> DEFINE it == [s \in UpTo(k, T) |-> IF s = {} THEN a
                      ELSE Tell(come, g[s \ {Pick(s)}], MobOf(u, Pick(s)))]
<1>5. \A s \in UpTo(k, T) : s # {} => s \ {Pick(s)} \in UpTo(k - 1, T)
  BY <1>2, <1>3, Smaller DEF UpTo
<1>6. \A s \in UpTo(k - 1, T) : s \in UpTo(k, T)
  <2> SUFFICES ASSUME NEW s \in SUBSET T, Cardinality(s) <= k - 1 PROVE Cardinality(s) <= k
    BY DEF UpTo
  <2>1. Cardinality(s) \in Nat
    BY FS_Subset, FS_CardinalityType
  <2> QED BY <2>1
<1>7. \A s \in UpTo(k - 1, T) : it[s] = g[s]
  BY <1>4, <1>6 DEF IsRunUpTo
<1>8. \A s \in UpTo(k, T) : it[s] = IF s = {} THEN a
                                    ELSE Tell(come, it[s \ {Pick(s)}], MobOf(u, Pick(s)))
  BY <1>5, <1>7
<1>9. DOMAIN it = UpTo(k, T) /\ it = [s \in UpTo(k, T) |-> it[s]]
  OBVIOUS
<1> HIDE DEF it
<1>10. IsRunUpTo(it, come, a, u, T, k)
  BY <1>8, <1>9 DEF IsRunUpTo
<1> QED BY <1>2, <1>10

LEMMA RunExists ==
    ASSUME NEW come, NEW a, NEW u, NEW T, IsFiniteSet(T)
    PROVE  \E it : IsRun(it, come, a, u, T)
<1> DEFINE n == Cardinality(T)
<1>1. n \in Nat
  BY FS_CardinalityType
<1>2. UpTo(n, T) = SUBSET T
  BY FS_Subset DEF UpTo
<1> HIDE DEF n
<1>3. PICK g : IsRunUpTo(g, come, a, u, T, n)
  BY <1>1, RunUpToExists
<1>4. IsRun(g, come, a, u, T)
  BY <1>2, <1>3 DEF IsRun, IsRunUpTo
<1> QED BY <1>4

Run(come, a, u, T) == (CHOOSE it : IsRun(it, come, a, u, T))[T]

LEMMA RunIs ==
    ASSUME NEW a, NEW u, NEW there
    PROVE  /\ ComesTo(a, u, there) = Run(TRUE, a, u, Met(u, there))
           /\ GoesFrom(a, u, there) = Run(FALSE, a, u, Met(u, there))
<1>1. ComesTo(a, u, there) = Run(TRUE, a, u, Met(u, there))
  BY DEF ComesTo, FoldSet, MapThenFoldSet, Run, IsRun, Tell, MobOf, Pick
<1>2. GoesFrom(a, u, there) = Run(FALSE, a, u, Met(u, there))
  BY DEF GoesFrom, FoldSet, MapThenFoldSet, Run, IsRun, Tell, MobOf, Pick
<1> QED BY <1>1, <1>2

\* How many of them are told to the monster m.
Told(u, s, m) == Cardinality({v \in s : MobOf(u, v) = m})

LEMMA ToldIs ==
    ASSUME NEW u, NEW s, IsFiniteSet(s), NEW x \in s, NEW m
    PROVE  /\ Told(u, s, m) \in Nat /\ Told(u, s \ {x}, m) \in Nat
           /\ Told(u, s, m) = Told(u, s \ {x}, m) + (IF MobOf(u, x) = m THEN 1 ELSE 0)
<1> DEFINE S == {v \in s : MobOf(u, v) = m}
           T == {v \in s \ {x} : MobOf(u, v) = m}
<1>1. S \in SUBSET s
  OBVIOUS
<1>2. T = S \ {x} /\ (x \in S <=> MobOf(u, x) = m)
  OBVIOUS
<1>3. Told(u, s, m) = Cardinality(S) /\ Told(u, s \ {x}, m) = Cardinality(T)
  BY DEF Told
<1> HIDE DEF S, T
<1>4. IsFiniteSet(S) /\ Cardinality(S) \in Nat
  BY <1>1, FS_Subset, FS_CardinalityType
<1>5. IsFiniteSet(T) /\ Cardinality(T) = IF x \in S THEN Cardinality(S) - 1 ELSE Cardinality(S)
  BY <1>2, <1>4, FS_RemoveElement
<1>6. Cardinality(T) \in Nat
  BY <1>5, FS_CardinalityType
<1> QED BY <1>2, <1>3, <1>4, <1>5, <1>6

\* Among fewer, fewer are told.
LEMMA ToldFewer ==
    ASSUME NEW u, NEW t, IsFiniteSet(t), NEW s \in SUBSET t, NEW m
    PROVE  Told(u, s, m) <= Told(u, t, m) /\ Told(u, s, m) \in Nat /\ Told(u, t, m) \in Nat
<1> DEFINE S == {v \in s : MobOf(u, v) = m}
           T == {v \in t : MobOf(u, v) = m}
<1>1. T \in SUBSET t /\ S \in SUBSET T
  OBVIOUS
<1>2. Told(u, s, m) = Cardinality(S) /\ Told(u, t, m) = Cardinality(T)
  BY DEF Told
<1> HIDE DEF S, T
<1>3. IsFiniteSet(T)
  BY <1>1, FS_Subset
<1> QED BY <1>1, <1>2, <1>3, FS_Subset, FS_CardinalityType

Fits(come, a, u, s, b) ==
    /\ Queued(b)
    /\ \A m \in Monsters : b.near[m] = IF come THEN a.near[m] + Told(u, s, m)
                                       ELSE a.near[m] - Told(u, s, m)

\* Whatever the order: the list stays sound, and each monster counts those
\* that it is told of.
LEMMA RunKeeps ==
    ASSUME NEW come, NEW a, NEW u, NEW T, IsFiniteSet(T), Queued(a),
           \A v \in T : MobOf(u, v) \in Monsters,
           come \/ \A m \in Monsters : Told(u, T, m) <= a.near[m]
    PROVE  Fits(come, a, u, T, Run(come, a, u, T))
<1> DEFINE it == CHOOSE i : IsRun(i, come, a, u, T)
<1>1. IsRun(it, come, a, u, T)
  BY RunExists
<1>2. Run(come, a, u, T) = it[T]
  BY DEF Run
<1> HIDE DEF it
<1> DEFINE Bad == {s \in SUBSET T : ~Fits(come, a, u, s, it[s])}
           Sizes == {Cardinality(s) : s \in Bad}
<1>3. SUFFICES ASSUME Bad # {} PROVE FALSE
  BY <1>2
<1>4. Sizes \in SUBSET Nat /\ Sizes # {}
  BY <1>3, FS_Subset, FS_CardinalityType
<1>5. PICK s \in Bad : \A r \in Bad : Cardinality(s) <= Cardinality(r)
  <2>1. PICK m \in Sizes : \A k \in Sizes : m <= k
    BY <1>4, LeastExists
  <2> HIDE DEF Bad
  <2> QED BY <2>1
<1>6. s \in SUBSET T /\ ~Fits(come, a, u, s, it[s])
  BY <1>5
<1>7. IsFiniteSet(s) /\ a.near \in [Monsters -> Nat]
  BY <1>6, FS_Subset, QueuedType
<1>8. it[s] = IF s = {} THEN a ELSE Tell(come, it[s \ {Pick(s)}], MobOf(u, Pick(s)))
  BY <1>1, <1>6 DEF IsRun
<1>9. s # {}
  <2>1. SUFFICES ASSUME s = {} PROVE FALSE
    OBVIOUS
  <2>2. ASSUME NEW m PROVE Told(u, s, m) = 0
    <3>1. {v \in s : MobOf(u, v) = m} = {}
      BY <2>1
    <3> QED BY <3>1, FS_EmptySet DEF Told
  <2> QED BY <1>6, <1>7, <1>8, <2>1, <2>2 DEF Fits
<1> DEFINE x == Pick(s)
           r == s \ {x}
           m == MobOf(u, x)
           b == it[r]
<1>10. x \in s /\ r \in SUBSET T /\ r \notin Bad
  BY <1>5, <1>6, <1>9, Smaller
<1>11. Fits(come, a, u, r, b)
  BY <1>10
<1>12. m \in Monsters
  BY <1>6, <1>10
<1>13. it[s] = Tell(come, b, m)
  BY <1>8, <1>9
<1> HIDE DEF x, m, b
<1>14. \A k \in Monsters : /\ Told(u, s, k) \in Nat /\ Told(u, r, k) \in Nat
                           /\ Told(u, s, k) = Told(u, r, k) + (IF m = k THEN 1 ELSE 0)
  BY <1>7, <1>10, ToldIs DEF m
<1> HIDE DEF r
<1>15. b.near \in [Monsters -> Nat]
  BY <1>11, QueuedType DEF Fits
<1>16. CASE come
  <2> DEFINE c == Comes(b, m)
  <2>1. Queued(c) /\ c.near = [b.near EXCEPT ![m] = b.near[m] + 1]
    BY <1>11, <1>12, ComesStep DEF Fits
  <2>2. it[s] = c
    BY <1>13, <1>16 DEF Tell
  <2> HIDE DEF c
  <2>3. \A k \in Monsters : c.near[k] = a.near[k] + Told(u, s, k)
    <3>1. \A k \in Monsters : b.near[k] = a.near[k] + Told(u, r, k)
      BY <1>11, <1>16, Zenon DEF Fits
    <3> QED BY <1>7, <1>12, <1>14, <1>15, <2>1, <3>1
  <2> QED BY <1>6, <1>16, <2>1, <2>2, <2>3 DEF Fits
<1>17. CASE ~come
  <2> DEFINE c == Goes(b, m)
  <2>1. Told(u, s, m) <= a.near[m]
    <3>1. Told(u, T, m) <= a.near[m]
      BY <1>12, <1>17
    <3>2. Told(u, s, m) <= Told(u, T, m) /\ Told(u, s, m) \in Nat /\ Told(u, T, m) \in Nat
      BY <1>6, ToldFewer
    <3> QED BY <1>7, <1>12, <3>1, <3>2
  <2>2. b.near[m] # 0
    BY <1>7, <1>11, <1>12, <1>14, <1>17, <2>1 DEF Fits
  <2>3. Queued(c) /\ c.near = [b.near EXCEPT ![m] = b.near[m] - 1]
    BY <1>11, <1>12, <2>2, GoesStep DEF Fits
  <2>4. it[s] = c
    BY <1>13, <1>17 DEF Tell
  <2> HIDE DEF c
  <2>5. \A k \in Monsters : c.near[k] = a.near[k] - Told(u, s, k)
    BY <1>7, <1>11, <1>12, <1>14, <1>15, <1>17, <2>3 DEF Fits
  <2> QED BY <1>6, <1>17, <2>3, <2>4, <2>5 DEF Fits
<1> QED BY <1>16, <1>17

-----------------------------------------------------------------------------
(* Whom each monster counts                                                *)

\* sees has whom each monster counts.
CountsAre(a, sees) ==
    /\ Queued(a)
    /\ sees \in [Monsters -> SUBSET Characters]
    /\ \A m \in Monsters : a.near[m] = Cardinality(sees[m])

LEMMA MetIs ==
    ASSUME NEW u \in Units, NEW there
    PROVE  /\ IsFiniteSet(Met(u, there))
           /\ u \in Monsters => Met(u, there) \in SUBSET Characters
           /\ u \in Characters => Met(u, there) \in SUBSET Monsters /\ u \notin Monsters
           /\ \A v \in Met(u, there) : MobOf(u, v) \in Monsters
<1>1. CASE u \in Monsters
  <2>1. Met(u, there) \in SUBSET Characters
    BY <1>1 DEF Met
  <2>2. IsFiniteSet(Met(u, there))
    BY <2>1, FS_Subset, MobAiAssumption
  <2>3. u \notin Characters
    BY <1>1, MobAiAssumption
  <2> QED BY <1>1, <2>1, <2>2, <2>3 DEF MobOf
<1>2. CASE u \notin Monsters
  <2>1. Met(u, there) \in SUBSET Monsters
    BY <1>2 DEF Met
  <2>2. IsFiniteSet(Met(u, there))
    BY <2>1, FS_Subset, MobAiAssumption
  <2> QED BY <1>2, <2>1, <2>2 DEF MobOf
<1> QED BY <1>1, <1>2

\* A character is one for each monster that it meets.
LEMMA ToldOfCharacter ==
    ASSUME NEW p \in Characters, NEW there, NEW m \in Monsters
    PROVE  Told(p, Met(p, there), m) = IF m \in Met(p, there) THEN 1 ELSE 0
<1> DEFINE S == {v \in Met(p, there) : MobOf(p, v) = m}
<1>1. p \notin Monsters
  BY MobAiAssumption
<1>2. S = IF m \in Met(p, there) THEN {m} ELSE {}
  BY <1>1 DEF MobOf
<1> HIDE DEF S
<1>3. Cardinality(S) = IF m \in Met(p, there) THEN 1 ELSE 0
  BY <1>2, FS_EmptySet, FS_Singleton
<1> QED BY <1>3 DEF Told, S

\* A monster meets as many characters as there are.
LEMMA ToldOfMonster ==
    ASSUME NEW u \in Monsters, NEW there, NEW m \in Monsters
    PROVE  Told(u, Met(u, there), m) = IF m = u THEN Cardinality(Met(u, there)) ELSE 0
<1> DEFINE S == {v \in Met(u, there) : MobOf(u, v) = m}
<1>1. S = IF m = u THEN Met(u, there) ELSE {}
  BY DEF MobOf
<1> HIDE DEF S
<1>2. Cardinality(S) = IF m = u THEN Cardinality(Met(u, there)) ELSE 0
  BY <1>1, FS_EmptySet
<1> QED BY <1>2 DEF Told, S

LEMMA SeesFinite ==
    ASSUME NEW a, NEW sees, CountsAre(a, sees), NEW m \in Monsters
    PROVE  IsFiniteSet(sees[m]) /\ Cardinality(sees[m]) \in Nat
BY FS_Subset, FS_CardinalityType, MobAiAssumption DEF CountsAre

LEMMA CharacterGoes ==
    ASSUME NEW a, NEW sees, CountsAre(a, sees), NEW p \in Characters, NEW there,
           \A m \in Met(p, there) : p \in sees[m]
    PROVE  CountsAre(GoesFrom(a, p, there),
                  [m \in Monsters |-> IF m \in Met(p, there) THEN sees[m] \ {p} ELSE sees[m]])
<1> DEFINE T == Met(p, there)
           b == GoesFrom(a, p, there)
           s == [m \in Monsters |-> IF m \in T THEN sees[m] \ {p} ELSE sees[m]]
<1>0. p \in Units
  BY DEF Units
<1>1. IsFiniteSet(T) /\ \A v \in T : MobOf(p, v) \in Monsters
  BY <1>0, MetIs
<1>2. \A m \in Monsters : IsFiniteSet(sees[m]) /\ Cardinality(sees[m]) \in Nat
  BY SeesFinite
<1>3. \A m \in Monsters : a.near[m] = Cardinality(sees[m])
  BY DEF CountsAre
<1>4. \A m \in Monsters : Told(p, T, m) = IF m \in T THEN 1 ELSE 0
  BY ToldOfCharacter
<1>5. \A m \in Monsters : m \in T => p \in sees[m]
  OBVIOUS
<1>6. b = Run(FALSE, a, p, T)
  BY RunIs
<1> HIDE DEF T, b
<1>7. ASSUME NEW m \in Monsters
      PROVE  Cardinality(s[m]) = Cardinality(sees[m]) - (IF m \in T THEN 1 ELSE 0)
  <2>1. CASE m \in T
    <3>1. Cardinality(sees[m] \ {p}) = Cardinality(sees[m]) - 1
      BY <1>2, <1>5, <2>1, FS_RemoveElement
    <3> QED BY <2>1, <3>1
  <2>2. CASE m \notin T
    BY <1>2, <2>2
  <2> QED BY <2>1, <2>2
<1>8. ASSUME NEW m \in Monsters PROVE Told(p, T, m) <= a.near[m]
  <2>1. Cardinality(s[m]) \in Nat
    <3>1. IsFiniteSet(s[m])
      BY <1>2, FS_RemoveElement
    <3> QED BY <3>1, FS_CardinalityType
  <2> HIDE DEF s
  <2> QED BY <1>2, <1>3, <1>4, <1>7, <2>1
<1>9. Queued(a) /\ sees \in [Monsters -> SUBSET Characters]
  BY DEF CountsAre
<1>10. Fits(FALSE, a, p, T, b)
  BY <1>1, <1>6, <1>8, <1>9, RunKeeps
<1>11. \A m \in Monsters : b.near[m] = Cardinality(s[m])
  <2> HIDE DEF s
  <2> QED BY <1>3, <1>4, <1>7, <1>10 DEF Fits
<1>12. s \in [Monsters -> SUBSET Characters]
  BY <1>9
<1> HIDE DEF s
<1>13. CountsAre(b, s)
  BY <1>10, <1>11, <1>12 DEF CountsAre, Fits
<1> QED BY <1>13 DEF b, s, T

LEMMA CharacterComes ==
    ASSUME NEW a, NEW sees, CountsAre(a, sees), NEW p \in Characters, NEW there,
           \A m \in Met(p, there) : p \notin sees[m]
    PROVE  CountsAre(ComesTo(a, p, there),
                  [m \in Monsters |-> IF m \in Met(p, there) THEN sees[m] \cup {p} ELSE sees[m]])
<1> DEFINE T == Met(p, there)
           b == ComesTo(a, p, there)
           s == [m \in Monsters |-> IF m \in T THEN sees[m] \cup {p} ELSE sees[m]]
<1>0. p \in Units
  BY DEF Units
<1>1. IsFiniteSet(T) /\ \A v \in T : MobOf(p, v) \in Monsters
  BY <1>0, MetIs
<1>2. \A m \in Monsters : IsFiniteSet(sees[m]) /\ Cardinality(sees[m]) \in Nat
  BY SeesFinite
<1>3. \A m \in Monsters : a.near[m] = Cardinality(sees[m])
  BY DEF CountsAre
<1>4. \A m \in Monsters : Told(p, T, m) = IF m \in T THEN 1 ELSE 0
  BY ToldOfCharacter
<1>5. \A m \in Monsters : m \in T => p \notin sees[m]
  OBVIOUS
<1>6. b = Run(TRUE, a, p, T)
  BY RunIs
<1> HIDE DEF T, b
<1>7. ASSUME NEW m \in Monsters
      PROVE  Cardinality(s[m]) = Cardinality(sees[m]) + (IF m \in T THEN 1 ELSE 0)
  <2>1. CASE m \in T
    <3>1. Cardinality(sees[m] \cup {p}) = Cardinality(sees[m]) + 1
      BY <1>2, <1>5, <2>1, FS_AddElement
    <3> QED BY <2>1, <3>1
  <2>2. CASE m \notin T
    BY <1>2, <2>2
  <2> QED BY <2>1, <2>2
<1>9. Queued(a) /\ sees \in [Monsters -> SUBSET Characters]
  BY DEF CountsAre
<1>10. Fits(TRUE, a, p, T, b)
  BY <1>1, <1>6, <1>9, RunKeeps
<1>11. \A m \in Monsters : b.near[m] = Cardinality(s[m])
  <2> HIDE DEF s
  <2> QED BY <1>3, <1>4, <1>7, <1>10 DEF Fits
<1>12. s \in [Monsters -> SUBSET Characters]
  BY <1>9
<1> HIDE DEF s
<1>13. CountsAre(b, s)
  BY <1>10, <1>11, <1>12 DEF CountsAre, Fits
<1> QED BY <1>13 DEF b, s, T

\* Two sets without a common element have as many as both.
LEMMA Disjoint ==
    ASSUME NEW S, NEW T, IsFiniteSet(S), IsFiniteSet(T), S \cap T = {}
    PROVE  Cardinality(S \cup T) = Cardinality(S) + Cardinality(T)
<1>1. Cardinality(S \cup T) = Cardinality(S) + Cardinality(T) - Cardinality(S \cap T)
  BY FS_Union
<1>2. Cardinality(S) \in Nat /\ Cardinality(T) \in Nat
  BY FS_CardinalityType
<1>3. Cardinality(S \cap T) = 0
  BY FS_EmptySet
<1> QED BY <1>1, <1>2, <1>3

LEMMA MonsterGoes ==
    ASSUME NEW a, NEW sees, CountsAre(a, sees), NEW u \in Monsters, NEW there,
           Met(u, there) \in SUBSET sees[u]
    PROVE  CountsAre(GoesFrom(a, u, there), [sees EXCEPT ![u] = @ \ Met(u, there)])
<1> DEFINE T == Met(u, there)
           b == GoesFrom(a, u, there)
           s == [sees EXCEPT ![u] = @ \ T]
<1>0. u \in Units
  BY DEF Units
<1>1. IsFiniteSet(T) /\ \A v \in T : MobOf(u, v) \in Monsters
  BY <1>0, MetIs
<1>2. \A m \in Monsters : IsFiniteSet(sees[m]) /\ Cardinality(sees[m]) \in Nat
  BY SeesFinite
<1>3. \A m \in Monsters : a.near[m] = Cardinality(sees[m])
  BY DEF CountsAre
<1>4. \A m \in Monsters : Told(u, T, m) = IF m = u THEN Cardinality(T) ELSE 0
  BY ToldOfMonster
<1>5. T \in SUBSET sees[u]
  OBVIOUS
<1>6. b = Run(FALSE, a, u, T)
  BY RunIs
<1>7. Queued(a) /\ sees \in [Monsters -> SUBSET Characters]
  BY DEF CountsAre
<1> HIDE DEF T, b
<1>8. Cardinality(sees[u] \ T) + Cardinality(T) = Cardinality(sees[u])
      /\ Cardinality(T) \in Nat /\ Cardinality(sees[u] \ T) \in Nat
  <2>1. IsFiniteSet(sees[u] \ T)
    BY <1>2, FS_Subset
  <2>2. (sees[u] \ T) \cap T = {} /\ (sees[u] \ T) \cup T = sees[u]
    BY <1>5
  <2>3. Cardinality((sees[u] \ T) \cup T) = Cardinality(sees[u] \ T) + Cardinality(T)
    BY <1>1, <2>1, <2>2, Disjoint
  <2> QED BY <1>1, <2>1, <2>2, <2>3, FS_CardinalityType
<1>9. /\ s \in [Monsters -> SUBSET Characters] /\ s[u] = sees[u] \ T
      /\ \A m \in Monsters \ {u} : s[m] = sees[m]
  BY <1>7
<1> HIDE DEF s
<1>10. ASSUME NEW m \in Monsters PROVE Told(u, T, m) <= a.near[m]
  BY <1>2, <1>3, <1>4, <1>8
<1>11. Fits(FALSE, a, u, T, b)
  BY <1>1, <1>6, <1>7, <1>10, RunKeeps
<1>12. ASSUME NEW m \in Monsters PROVE b.near[m] = Cardinality(s[m])
  <2>1. b.near[m] = Cardinality(sees[m]) - (IF m = u THEN Cardinality(T) ELSE 0)
    BY <1>3, <1>4, <1>11 DEF Fits
  <2>2. CASE m = u
    <3>1. Cardinality(s[m]) = Cardinality(sees[u] \ T)
      BY <1>9, <2>2
    <3>2. b.near[m] = Cardinality(sees[u]) - Cardinality(T)
      BY <2>1, <2>2
    <3> QED BY <1>2, <1>8, <3>1, <3>2
  <2>3. CASE m # u
    <3>1. s[m] = sees[m]
      BY <1>9, <2>3
    <3> QED BY <1>2, <2>1, <2>3, <3>1
  <2> QED BY <2>2, <2>3
<1>13. CountsAre(b, s)
  BY <1>9, <1>11, <1>12 DEF CountsAre, Fits
<1> QED BY <1>13 DEF b, s, T

LEMMA MonsterComes ==
    ASSUME NEW a, NEW sees, CountsAre(a, sees), NEW u \in Monsters, NEW there,
           Met(u, there) \cap sees[u] = {}
    PROVE  CountsAre(ComesTo(a, u, there), [sees EXCEPT ![u] = @ \cup Met(u, there)])
<1> DEFINE T == Met(u, there)
           b == ComesTo(a, u, there)
           s == [sees EXCEPT ![u] = @ \cup T]
<1>0. u \in Units
  BY DEF Units
<1>1. IsFiniteSet(T) /\ T \in SUBSET Characters /\ \A v \in T : MobOf(u, v) \in Monsters
  BY <1>0, MetIs
<1>2. \A m \in Monsters : IsFiniteSet(sees[m]) /\ Cardinality(sees[m]) \in Nat
  BY SeesFinite
<1>3. \A m \in Monsters : a.near[m] = Cardinality(sees[m])
  BY DEF CountsAre
<1>4. \A m \in Monsters : Told(u, T, m) = IF m = u THEN Cardinality(T) ELSE 0
  BY ToldOfMonster
<1>5. sees[u] \cap T = {}
  OBVIOUS
<1>6. b = Run(TRUE, a, u, T)
  BY RunIs
<1>7. Queued(a) /\ sees \in [Monsters -> SUBSET Characters]
  BY DEF CountsAre
<1> HIDE DEF T, b
<1>8. Cardinality(sees[u] \cup T) = Cardinality(sees[u]) + Cardinality(T)
      /\ Cardinality(T) \in Nat
  BY <1>1, <1>2, <1>5, Disjoint, FS_CardinalityType
<1>9. /\ s \in [Monsters -> SUBSET Characters] /\ s[u] = sees[u] \cup T
      /\ \A m \in Monsters \ {u} : s[m] = sees[m]
  BY <1>1, <1>7
<1> HIDE DEF s
<1>11. Fits(TRUE, a, u, T, b)
  BY <1>1, <1>6, <1>7, RunKeeps
<1>12. ASSUME NEW m \in Monsters PROVE b.near[m] = Cardinality(s[m])
  <2>1. b.near[m] = Cardinality(sees[m]) + (IF m = u THEN Cardinality(T) ELSE 0)
    BY <1>3, <1>4, <1>11 DEF Fits
  <2>2. CASE m = u
    <3>1. Cardinality(s[m]) = Cardinality(sees[u] \cup T)
      BY <1>9, <2>2
    <3>2. b.near[m] = Cardinality(sees[u]) + Cardinality(T)
      BY <2>1, <2>2
    <3> QED BY <1>8, <3>1, <3>2
  <2>3. CASE m # u
    <3>1. s[m] = sees[m]
      BY <1>9, <2>3
    <3> QED BY <1>2, <2>1, <2>3, <3>1
  <2> QED BY <2>2, <2>3
<1>13. CountsAre(b, s)
  BY <1>9, <1>11, <1>12 DEF CountsAre, Fits
<1> QED BY <1>13 DEF b, s, T

-----------------------------------------------------------------------------
(* The squares                                                             *)

LEMMA SquareIs ==
    ASSUME NEW s \in Squares
    PROVE  /\ s[1] \in Int /\ s[2] \in Int /\ s = <<s[1], s[2]>>
           /\ s # Nowhere /\ Sight \in Nat
<1>1. s \in (1..Width) \X (1..Height) /\ Sight \in Nat
  BY MobAiAssumption
<1> QED BY <1>1 DEF Nowhere

LEMMA AroundIs ==
    ASSUME NEW s \in Squares, NEW q \in Squares
    PROVE  q \in Around(s) <=> /\ s[1] - Sight <= q[1] /\ q[1] <= s[1] + Sight
                               /\ s[2] - Sight <= q[2] /\ q[2] <= s[2] + Sight
<1>1. /\ s[1] \in Int /\ s[2] \in Int /\ q[1] \in Int /\ q[2] \in Int /\ q = <<q[1], q[2]>>
      /\ Sight \in Nat
  BY SquareIs
<1> DEFINE i == q[1]
           j == q[2]
           X == (s[1] - Sight)..(s[1] + Sight)
           Y == (s[2] - Sight)..(s[2] + Sight)
<1>2. <<i, j>> \in X \X Y <=> i \in X /\ j \in Y
  OBVIOUS
<1> QED BY <1>1, <1>2 DEF Around

LEMMA AroundBoth ==
    ASSUME NEW s \in Squares, NEW q \in Squares
    PROVE  q \in Around(s) <=> s \in Around(q)
<1>1. s[1] \in Int /\ s[2] \in Int /\ q[1] \in Int /\ q[2] \in Int /\ Sight \in Nat
  BY SquareIs
<1> QED BY <1>1, AroundIs

\* A strip is what is near s and not near t.
LEMMA StripIs ==
    ASSUME NEW s \in Squares, NEW t \in Squares, NEW dx \in Int, NEW dy \in Int,
           t[1] = s[1] + dx, t[2] = s[2] + dy,
           -(2 * Sight + 1) <= dx, dx <= 2 * Sight + 1,
           -(2 * Sight + 1) <= dy, dy <= 2 * Sight + 1,
           NEW q \in Squares
    PROVE  q \in Strip(s, dx, dy) <=> q \in Around(s) /\ q \notin Around(t)
<1> DEFINE i == q[1]
           j == q[2]
           x0 == s[1] - Sight
           x1 == s[1] + Sight
           y0 == s[2] - Sight
           y1 == s[2] + Sight
<1>1. /\ s[1] \in Int /\ s[2] \in Int /\ i \in Int /\ j \in Int /\ q = <<i, j>> /\ Sight \in Nat
      /\ t[1] \in Int /\ t[2] \in Int
  BY SquareIs
<1>2. q \in Around(s) <=> x0 <= i /\ i <= x1 /\ y0 <= j /\ j <= y1
  BY AroundIs
<1>3. q \in Around(t) <=> x0 + dx <= i /\ i <= x1 + dx /\ y0 + dy <= j /\ j <= y1 + dy
  BY <1>1, AroundIs
<1>4. CASE dx = 0
  <2> DEFINE X == x0..x1
             Y == IF dy < 0 THEN y1 + dy + 1..y1 ELSE y0..y0 + dy - 1
  <2>1. Strip(s, dx, dy) = X \X Y
    BY <1>4 DEF Strip
  <2>2. <<i, j>> \in X \X Y <=> i \in X /\ j \in Y
    OBVIOUS
  <2>3. i \in X <=> x0 <= i /\ i <= x1
    BY <1>1
  <2>4. j \in Y <=> IF dy < 0 THEN y1 + dy + 1 <= j /\ j <= y1 ELSE y0 <= j /\ j <= y0 + dy - 1
    BY <1>1
  <2> HIDE DEF X, Y
  <2>5. q \in Strip(s, dx, dy) <=> i \in X /\ j \in Y
    BY <1>1, <2>1, <2>2
  <2> QED BY <1>1, <1>2, <1>3, <1>4, <2>3, <2>4, <2>5
<1>5. CASE dx # 0 /\ dy = 0
  <2> DEFINE X == IF dx < 0 THEN x1 + dx + 1..x1 ELSE x0..x0 + dx - 1
             Y == y0..y1
  <2>1. Strip(s, dx, dy) = X \X Y
    BY <1>5 DEF Strip
  <2>2. <<i, j>> \in X \X Y <=> i \in X /\ j \in Y
    OBVIOUS
  <2>3. i \in X <=> IF dx < 0 THEN x1 + dx + 1 <= i /\ i <= x1 ELSE x0 <= i /\ i <= x0 + dx - 1
    BY <1>1
  <2>4. j \in Y <=> y0 <= j /\ j <= y1
    BY <1>1
  <2> HIDE DEF X, Y
  <2>5. q \in Strip(s, dx, dy) <=> i \in X /\ j \in Y
    BY <1>1, <2>1, <2>2
  <2> QED BY <1>1, <1>2, <1>3, <1>5, <2>3, <2>4, <2>5
<1>6. CASE dx # 0 /\ dy # 0
  <2>1. Strip(s, dx, dy) =
          {r \in Around(s) :
              \/ (dx > 0 /\ r[1] < x0 + dx) \/ (dx < 0 /\ r[1] > x1 + dx)
              \/ (dy > 0 /\ r[2] < y0 + dy) \/ (dy < 0 /\ r[2] > y1 + dy)}
    BY <1>6 DEF Strip
  <2>2. q \in Strip(s, dx, dy) <=>
          /\ q \in Around(s)
          /\ \/ (dx > 0 /\ i < x0 + dx) \/ (dx < 0 /\ i > x1 + dx)
             \/ (dy > 0 /\ j < y0 + dy) \/ (dy < 0 /\ j > y1 + dy)
    BY <2>1
  <2> QED BY <1>1, <1>2, <1>3, <1>6, <2>2
<1> QED BY <1>4, <1>5, <1>6

\* Who is near a monster, when everybody stands where pos says.
Sees(pos) ==
    [m \in Monsters |-> IF pos[m] = Nowhere THEN {}
                        ELSE {c \in Characters : pos[c] # Nowhere /\ pos[c] \in Around(pos[m])}]

Places == [Units -> Squares \cup {Nowhere}]

LEMMA PlaceIs ==
    ASSUME at \in Places, NEW u \in Units, NEW s \in Squares \cup {Nowhere}
    PROVE  /\ [at EXCEPT ![u] = s] \in Places
           /\ [at EXCEPT ![u] = s][u] = s
           /\ \A v \in Units \ {u} : [at EXCEPT ![u] = s][v] = at[v]
           /\ \A v \in Units : OnMap(v) <=> at[v] \in Squares
<1>1. Nowhere \notin Squares
  BY SquareIs
<1> QED BY <1>1 DEF Places, OnMap

LEMMA GoneIs ==
    ASSUME at \in Places, NEW u \in Units
    PROVE  /\ [at EXCEPT ![u] = Nowhere] \in Places
           /\ [at EXCEPT ![u] = Nowhere][u] = Nowhere
           /\ \A v \in Units \ {u} : [at EXCEPT ![u] = Nowhere][v] = at[v]
           /\ \A v \in Units : OnMap(v) <=> at[v] \in Squares
<1> DEFINE s == Nowhere
<1>1. s \in Squares \cup {Nowhere}
  OBVIOUS
<1> HIDE DEF s
<1>2. /\ [at EXCEPT ![u] = s] \in Places
      /\ [at EXCEPT ![u] = s][u] = s
      /\ \A v \in Units \ {u} : [at EXCEPT ![u] = s][v] = at[v]
      /\ \A v \in Units : OnMap(v) <=> at[v] \in Squares
  BY <1>1, PlaceIs
<1> QED BY <1>2 DEF s

LEMMA KindIs ==
    /\ \A p \in Characters : p \in Units /\ p \notin Monsters
    /\ \A m \in Monsters : m \in Units /\ m \notin Characters
BY MobAiAssumption DEF Units

\* Two functions on the monsters are the same if their values have the same elements.
LEMMA SameSees ==
    ASSUME NEW f \in [Monsters -> SUBSET Characters], NEW g \in [Monsters -> SUBSET Characters],
           \A m \in Monsters : \A c \in Characters : c \in f[m] <=> c \in g[m]
    PROVE  f = g
<1>1. ASSUME NEW m \in Monsters PROVE f[m] = g[m]
  OBVIOUS
<1> QED BY <1>1

LEMMA SeesIs ==
    ASSUME NEW pos
    PROVE  /\ Sees(pos) \in [Monsters -> SUBSET Characters]
           /\ \A m \in Monsters, c \in Characters :
                 c \in Sees(pos)[m] <=> /\ pos[m] # Nowhere /\ pos[c] # Nowhere
                                        /\ pos[c] \in Around(pos[m])
BY DEF Sees

LEMMA MetOf ==
    /\ \A p \in Characters : \A there, m :
          m \in Met(p, there) <=> m \in Monsters /\ OnMap(m) /\ at[m] \in there
    /\ \A m \in Monsters : \A there, c :
          c \in Met(m, there) <=> c \in Characters /\ OnMap(c) /\ at[c] \in there
BY KindIs DEF Met

LEMMA CharacterOff ==
    ASSUME at \in Places, NEW a, CountsAre(a, Sees(at)), NEW p \in Characters, OnMap(p)
    PROVE  CountsAre(GoesFrom(a, p, Around(at[p])), Sees([at EXCEPT ![p] = Nowhere]))
<1> DEFINE sees == Sees(at)
           T == Met(p, Around(at[p]))
           pos == [at EXCEPT ![p] = Nowhere]
           f == [m \in Monsters |-> IF m \in T THEN sees[m] \ {p} ELSE sees[m]]
<1>0. p \in Units
  BY KindIs
<1>1. /\ p \in Units /\ pos[p] = Nowhere /\ \A v \in Units \ {p} : pos[v] = at[v]
      /\ \A v \in Units : OnMap(v) <=> at[v] \in Squares
  BY <1>0, GoneIs
<1>2. /\ sees \in [Monsters -> SUBSET Characters] /\ Sees(pos) \in [Monsters -> SUBSET Characters]
      /\ \A m \in Monsters, c \in Characters :
            c \in sees[m] <=> OnMap(m) /\ OnMap(c) /\ at[c] \in Around(at[m])
      /\ \A m \in Monsters, c \in Characters :
            c \in Sees(pos)[m] <=> /\ pos[m] # Nowhere /\ pos[c] # Nowhere
                                   /\ pos[c] \in Around(pos[m])
  BY SeesIs DEF OnMap
<1>3. \A m : m \in T <=> m \in Monsters /\ OnMap(m) /\ at[m] \in Around(at[p])
  BY MetOf
<1>4. \A m \in Monsters : m \in T <=> p \in sees[m]
  <2> SUFFICES ASSUME NEW m \in Monsters PROVE m \in T <=> p \in sees[m]
    OBVIOUS
  <2>1. OnMap(m) => (at[m] \in Around(at[p]) <=> at[p] \in Around(at[m]))
    BY <1>1, KindIs, AroundBoth
  <2> HIDE DEF T, sees
  <2> QED BY <1>2, <1>3, <2>1
<1> HIDE DEF T, sees, pos
<1>5. f \in [Monsters -> SUBSET Characters]
  BY <1>2
<1>6. \A m \in Monsters, c \in Characters : c \in f[m] <=> c \in Sees(pos)[m]
  <2> SUFFICES ASSUME NEW m \in Monsters, NEW c \in Characters
               PROVE  c \in f[m] <=> c \in Sees(pos)[m]
    OBVIOUS
  <2>1. pos[m] = at[m] /\ (c # p => pos[c] = at[c])
    BY <1>1, KindIs
  <2>2. c \in f[m] <=> c \in sees[m] /\ c # p
    BY <1>4
  <2> HIDE DEF f
  <2> QED BY <1>1, <1>2, <2>1, <2>2 DEF OnMap
<1> HIDE DEF f
<1>7. f = Sees(pos)
  BY <1>2, <1>5, <1>6, SameSees
<1>8. \A m \in T : p \in sees[m]
  BY <1>3, <1>4
<1>9. CountsAre(GoesFrom(a, p, Around(at[p])), f)
  BY <1>8, CharacterGoes DEF f, T, sees
<1> QED BY <1>7, <1>9 DEF pos

LEMMA CharacterOn ==
    ASSUME at \in Places, NEW a, CountsAre(a, Sees(at)), NEW p \in Characters, ~OnMap(p),
           NEW s \in Squares
    PROVE  CountsAre(ComesTo(a, p, Around(s)), Sees([at EXCEPT ![p] = s]))
<1> DEFINE sees == Sees(at)
           T == Met(p, Around(s))
           pos == [at EXCEPT ![p] = s]
           f == [m \in Monsters |-> IF m \in T THEN sees[m] \cup {p} ELSE sees[m]]
<1>0. p \in Units
  BY KindIs
<1>1. /\ p \in Units /\ pos[p] = s /\ \A v \in Units \ {p} : pos[v] = at[v]
      /\ \A v \in Units : OnMap(v) <=> at[v] \in Squares
      /\ s # Nowhere
  BY <1>0, PlaceIs, SquareIs
<1>2. /\ sees \in [Monsters -> SUBSET Characters] /\ Sees(pos) \in [Monsters -> SUBSET Characters]
      /\ \A m \in Monsters, c \in Characters :
            c \in sees[m] <=> OnMap(m) /\ OnMap(c) /\ at[c] \in Around(at[m])
      /\ \A m \in Monsters, c \in Characters :
            c \in Sees(pos)[m] <=> /\ pos[m] # Nowhere /\ pos[c] # Nowhere
                                   /\ pos[c] \in Around(pos[m])
  BY SeesIs DEF OnMap
<1>3. \A m : m \in T <=> m \in Monsters /\ OnMap(m) /\ at[m] \in Around(s)
  BY MetOf
<1> HIDE DEF T, sees, pos
<1>4. \A m \in Monsters : p \notin sees[m]
  BY <1>2
<1>5. f \in [Monsters -> SUBSET Characters]
  BY <1>2
<1>6. \A m \in Monsters, c \in Characters : c \in f[m] <=> c \in Sees(pos)[m]
  <2> SUFFICES ASSUME NEW m \in Monsters, NEW c \in Characters
               PROVE  c \in f[m] <=> c \in Sees(pos)[m]
    OBVIOUS
  <2>1. pos[m] = at[m] /\ (c # p => pos[c] = at[c])
    BY <1>1, KindIs
  <2>2. c \in f[m] <=> c \in sees[m] \/ (c = p /\ m \in T)
    OBVIOUS
  <2>3. OnMap(m) => (at[m] \in Around(s) <=> s \in Around(at[m]))
    BY <1>1, KindIs, AroundBoth
  <2> HIDE DEF f
  <2>4. CASE c = p
    BY <1>1, <1>2, <1>3, <1>4, <2>1, <2>2, <2>3, <2>4 DEF OnMap
  <2>5. CASE c # p
    BY <1>2, <2>1, <2>2, <2>5 DEF OnMap
  <2> QED BY <2>4, <2>5
<1> HIDE DEF f
<1>7. f = Sees(pos)
  BY <1>2, <1>5, <1>6, SameSees
<1>8. \A m \in T : p \notin sees[m]
  BY <1>3, <1>4
<1>9. CountsAre(ComesTo(a, p, Around(s)), f)
  BY <1>8, CharacterComes DEF f, T, sees
<1> QED BY <1>7, <1>9 DEF pos

\* The strip that is left and the strip that is entered.
IsLeft(here, from, to) ==
    \A q \in Squares : q \in here <=> q \in Around(from) /\ q \notin Around(to)

LEMMA CharacterSteps ==
    ASSUME at \in Places, NEW a, CountsAre(a, Sees(at)), NEW p \in Characters, OnMap(p),
           NEW s \in Squares, NEW A, NEW B, IsLeft(A, at[p], s), IsLeft(B, s, at[p])
    PROVE  CountsAre(ComesTo(GoesFrom(a, p, A), p, B), Sees([at EXCEPT ![p] = s]))
<1> DEFINE sees == Sees(at)
           S == Met(p, A)
           T == Met(p, B)
           pos == [at EXCEPT ![p] = s]
           g == [m \in Monsters |-> IF m \in S THEN sees[m] \ {p} ELSE sees[m]]
           f == [m \in Monsters |-> IF m \in T THEN g[m] \cup {p} ELSE g[m]]
           b == GoesFrom(a, p, A)
<1>0. p \in Units
  BY KindIs
<1>1. /\ p \in Units /\ pos[p] = s /\ \A v \in Units \ {p} : pos[v] = at[v]
      /\ \A v \in Units : OnMap(v) <=> at[v] \in Squares
      /\ s # Nowhere
  BY <1>0, PlaceIs, SquareIs
<1>2. /\ sees \in [Monsters -> SUBSET Characters] /\ Sees(pos) \in [Monsters -> SUBSET Characters]
      /\ \A m \in Monsters, c \in Characters :
            c \in sees[m] <=> OnMap(m) /\ OnMap(c) /\ at[c] \in Around(at[m])
      /\ \A m \in Monsters, c \in Characters :
            c \in Sees(pos)[m] <=> /\ pos[m] # Nowhere /\ pos[c] # Nowhere
                                   /\ pos[c] \in Around(pos[m])
  BY SeesIs DEF OnMap
<1>3. /\ \A m : m \in S <=> m \in Monsters /\ OnMap(m) /\ at[m] \in A
      /\ \A m : m \in T <=> m \in Monsters /\ OnMap(m) /\ at[m] \in B
  BY MetOf
<1> HIDE DEF T, S, sees, pos
<1>4. ASSUME NEW m \in Monsters
      PROVE  /\ p \in sees[m] <=> OnMap(m) /\ at[m] \in Around(at[p])
             /\ m \in S <=> OnMap(m) /\ at[m] \in Around(at[p]) /\ at[m] \notin Around(s)
             /\ m \in T <=> OnMap(m) /\ at[m] \in Around(s) /\ at[m] \notin Around(at[p])
             /\ OnMap(m) => (at[m] \in Around(s) <=> s \in Around(at[m]))
  <2>1. OnMap(m) => (at[m] \in Around(s) <=> s \in Around(at[m]))
    BY <1>1, KindIs, AroundBoth
  <2>2. OnMap(m) => (at[m] \in Around(at[p]) <=> at[p] \in Around(at[m]))
    BY <1>1, KindIs, AroundBoth
  <2>3. OnMap(m) => at[m] \in Squares
    BY <1>1, KindIs
  <2>4. p \in sees[m] <=> OnMap(m) /\ at[m] \in Around(at[p])
    BY <1>2, <2>2
  <2>5. /\ m \in S <=> OnMap(m) /\ at[m] \in Around(at[p]) /\ at[m] \notin Around(s)
        /\ m \in T <=> OnMap(m) /\ at[m] \in Around(s) /\ at[m] \notin Around(at[p])
    BY <1>3, <2>3 DEF IsLeft
  <2> QED BY <2>1, <2>4, <2>5
<1>5. g \in [Monsters -> SUBSET Characters] /\ f \in [Monsters -> SUBSET Characters]
  <2>1. g \in [Monsters -> SUBSET Characters]
    BY <1>2
  <2> HIDE DEF g
  <2> QED BY <2>1
<1>6. \A m \in Monsters, c \in Characters : c \in f[m] <=> c \in Sees(pos)[m]
  <2> SUFFICES ASSUME NEW m \in Monsters, NEW c \in Characters
               PROVE  c \in f[m] <=> c \in Sees(pos)[m]
    OBVIOUS
  <2>1. pos[m] = at[m] /\ (c # p => pos[c] = at[c])
    BY <1>1, KindIs
  <2>2. c \in g[m] <=> c \in sees[m] /\ ~(c = p /\ m \in S)
    OBVIOUS
  <2>3. c \in f[m] <=> c \in g[m] \/ (c = p /\ m \in T)
    <3> HIDE DEF g
    <3> QED OBVIOUS
  <2> HIDE DEF f, g
  <2>4. CASE c = p
    <3>1. c \in f[m] <=> OnMap(m) /\ s \in Around(at[m])
      BY <1>4, <2>2, <2>3, <2>4
    <3> QED BY <1>1, <1>2, <2>1, <2>4, <3>1 DEF OnMap
  <2>5. CASE c # p
    BY <1>2, <2>1, <2>2, <2>3, <2>5 DEF OnMap
  <2> QED BY <2>4, <2>5
<1>7. f = Sees(pos)
  <2> HIDE DEF f
  <2> QED BY <1>2, <1>5, <1>6, SameSees
<1>8. \A m \in S : p \in sees[m]
  BY <1>3, <1>4
<1>9. CountsAre(b, g)
  BY <1>8, CharacterGoes DEF g, S, sees
<1>10. \A m \in T : p \notin g[m]
  <2> SUFFICES ASSUME NEW m \in T PROVE p \notin g[m]
    OBVIOUS
  <2>1. m \in Monsters
    BY <1>3
  <2> QED BY <1>4, <2>1
<1> HIDE DEF b, g
<1>11. CountsAre(ComesTo(b, p, B), f)
  BY <1>9, <1>10, CharacterComes DEF f, T
<1> HIDE DEF f
<1> QED BY <1>7, <1>11 DEF pos, b

LEMMA NobodyThere ==
    ASSUME at \in Places, NEW m \in Monsters
    PROVE  /\ Sees([at EXCEPT ![m] = Nowhere]) = [Sees(at) EXCEPT ![m] = {}]
           /\ ~OnMap(m) => Sees(at) = [Sees(at) EXCEPT ![m] = {}]
<1> DEFINE sees == Sees(at)
           pos == [at EXCEPT ![m] = Nowhere]
           f == [sees EXCEPT ![m] = {}]
<1>0. m \in Units
  BY KindIs
<1>1. pos[m] = Nowhere /\ \A v \in Units \ {m} : pos[v] = at[v]
  BY <1>0, GoneIs
<1>2. /\ sees \in [Monsters -> SUBSET Characters] /\ Sees(pos) \in [Monsters -> SUBSET Characters]
      /\ \A k \in Monsters, c \in Characters :
            c \in sees[k] <=> OnMap(k) /\ OnMap(c) /\ at[c] \in Around(at[k])
      /\ \A k \in Monsters, c \in Characters :
            c \in Sees(pos)[k] <=> /\ pos[k] # Nowhere /\ pos[c] # Nowhere
                                   /\ pos[c] \in Around(pos[k])
  BY SeesIs DEF OnMap
<1> HIDE DEF sees, pos
<1>3. /\ f \in [Monsters -> SUBSET Characters] /\ f[m] = {}
      /\ \A k \in Monsters \ {m} : f[k] = sees[k]
  BY <1>2
<1> HIDE DEF f
<1>4. f = Sees(pos)
  <2>1. ASSUME NEW k \in Monsters, NEW c \in Characters PROVE c \in f[k] <=> c \in Sees(pos)[k]
    <3>1. c # m /\ pos[c] = at[c]
      BY <1>1, KindIs
    <3>2. CASE k = m
      BY <1>1, <1>2, <1>3, <3>2
    <3>3. CASE k # m
      <4>1. pos[k] = at[k]
        BY <1>1, <3>3, KindIs
      <4> QED BY <1>2, <1>3, <3>1, <3>3, <4>1 DEF OnMap
    <3> QED BY <3>2, <3>3
  <2> QED BY <1>2, <1>3, <2>1, SameSees
<1>5. ~OnMap(m) => sees = f
  <2>1. ASSUME ~OnMap(m), NEW k \in Monsters, NEW c \in Characters PROVE c \in sees[k] <=> c \in f[k]
    BY <1>2, <1>3, <2>1
  <2> QED BY <1>2, <1>3, <2>1, SameSees
<1> QED BY <1>4, <1>5 DEF f, sees, pos

LEMMA MonsterOff ==
    ASSUME at \in Places, NEW a, CountsAre(a, Sees(at)), NEW m \in Monsters, OnMap(m)
    PROVE  CountsAre(GoesFrom(a, m, Around(at[m])), [Sees(at) EXCEPT ![m] = {}])
<1> DEFINE sees == Sees(at)
           T == Met(m, Around(at[m]))
<1>1. /\ sees \in [Monsters -> SUBSET Characters]
      /\ \A c \in Characters : c \in sees[m] <=> OnMap(c) /\ at[c] \in Around(at[m])
  BY SeesIs DEF OnMap
<1>2. \A c : c \in T <=> c \in Characters /\ OnMap(c) /\ at[c] \in Around(at[m])
  BY MetOf
<1> HIDE DEF T, sees
<1>3. T = sees[m]
  BY <1>1, <1>2
<1>4. CountsAre(GoesFrom(a, m, Around(at[m])), [sees EXCEPT ![m] = @ \ T])
  BY <1>3, MonsterGoes DEF T, sees
<1>5. [sees EXCEPT ![m] = @ \ T] = [sees EXCEPT ![m] = {}]
  BY <1>3
<1> QED BY <1>4, <1>5 DEF sees

LEMMA MonsterOn ==
    ASSUME at \in Places, NEW a, NEW m \in Monsters, CountsAre(a, [Sees(at) EXCEPT ![m] = {}]),
           NEW s \in Squares
    PROVE  CountsAre(ComesTo(a, m, Around(s)), Sees([at EXCEPT ![m] = s]))
<1> DEFINE sees == [Sees(at) EXCEPT ![m] = {}]
           T == Met(m, Around(s))
           pos == [at EXCEPT ![m] = s]
           f == [sees EXCEPT ![m] = @ \cup T]
<1>0. m \in Units
  BY KindIs
<1>1. pos[m] = s /\ s # Nowhere /\ \A v \in Units \ {m} : pos[v] = at[v]
  BY <1>0, PlaceIs, SquareIs
<1>2. /\ Sees(at) \in [Monsters -> SUBSET Characters]
      /\ Sees(pos) \in [Monsters -> SUBSET Characters]
      /\ \A k \in Monsters, c \in Characters :
            c \in Sees(at)[k] <=> OnMap(k) /\ OnMap(c) /\ at[c] \in Around(at[k])
      /\ \A k \in Monsters, c \in Characters :
            c \in Sees(pos)[k] <=> /\ pos[k] # Nowhere /\ pos[c] # Nowhere
                                   /\ pos[c] \in Around(pos[k])
  BY SeesIs DEF OnMap
<1>3. \A c : c \in T <=> c \in Characters /\ OnMap(c) /\ at[c] \in Around(s)
  BY MetOf
<1>4. /\ sees \in [Monsters -> SUBSET Characters] /\ sees[m] = {}
      /\ \A k \in Monsters \ {m} : sees[k] = Sees(at)[k]
  BY <1>2
<1> HIDE DEF T, sees, pos
<1>5. /\ f \in [Monsters -> SUBSET Characters] /\ f[m] = T
      /\ \A k \in Monsters \ {m} : f[k] = sees[k]
  BY <1>3, <1>4
<1>6. f = Sees(pos)
  <2> HIDE DEF f
  <2>1. ASSUME NEW k \in Monsters, NEW c \in Characters PROVE c \in f[k] <=> c \in Sees(pos)[k]
    <3>1. c # m /\ pos[c] = at[c]
      BY <1>1, KindIs
    <3>2. CASE k = m
      BY <1>1, <1>2, <1>3, <1>5, <3>1, <3>2 DEF OnMap
    <3>3. CASE k # m
      <4>1. pos[k] = at[k]
        BY <1>1, <3>3, KindIs
      <4> QED BY <1>2, <1>4, <1>5, <3>1, <3>3, <4>1 DEF OnMap
    <3> QED BY <3>2, <3>3
  <2> QED BY <1>2, <1>5, <2>1, SameSees
<1>7. CountsAre(ComesTo(a, m, Around(s)), f)
  BY <1>4, MonsterComes DEF f, T, sees
<1> QED BY <1>6, <1>7 DEF pos

LEMMA MonsterSteps ==
    ASSUME at \in Places, NEW a, CountsAre(a, Sees(at)), NEW m \in Monsters, OnMap(m),
           NEW s \in Squares, NEW A, NEW B, IsLeft(A, at[m], s), IsLeft(B, s, at[m])
    PROVE  CountsAre(ComesTo(GoesFrom(a, m, A), m, B), Sees([at EXCEPT ![m] = s]))
<1> DEFINE sees == Sees(at)
           S == Met(m, A)
           T == Met(m, B)
           pos == [at EXCEPT ![m] = s]
           g == [sees EXCEPT ![m] = @ \ S]
           f == [g EXCEPT ![m] = @ \cup T]
           b == GoesFrom(a, m, A)
<1>0. m \in Units
  BY KindIs
<1>1. /\ pos[m] = s /\ s # Nowhere /\ \A v \in Units \ {m} : pos[v] = at[v]
      /\ \A v \in Units : OnMap(v) <=> at[v] \in Squares
  BY <1>0, PlaceIs, SquareIs
<1>2. /\ sees \in [Monsters -> SUBSET Characters] /\ Sees(pos) \in [Monsters -> SUBSET Characters]
      /\ \A k \in Monsters, c \in Characters :
            c \in sees[k] <=> OnMap(k) /\ OnMap(c) /\ at[c] \in Around(at[k])
      /\ \A k \in Monsters, c \in Characters :
            c \in Sees(pos)[k] <=> /\ pos[k] # Nowhere /\ pos[c] # Nowhere
                                   /\ pos[c] \in Around(pos[k])
  BY SeesIs DEF OnMap
<1>3. /\ \A c : c \in S <=> c \in Characters /\ OnMap(c) /\ at[c] \in A
      /\ \A c : c \in T <=> c \in Characters /\ OnMap(c) /\ at[c] \in B
  BY MetOf
<1> HIDE DEF T, S, sees, pos
<1>4. ASSUME NEW c \in Characters
      PROVE  /\ c \in S <=> OnMap(c) /\ at[c] \in Around(at[m]) /\ at[c] \notin Around(s)
             /\ c \in T <=> OnMap(c) /\ at[c] \in Around(s) /\ at[c] \notin Around(at[m])
             /\ c \in sees[m] <=> OnMap(c) /\ at[c] \in Around(at[m])
  <2>1. OnMap(c) => at[c] \in Squares
    BY <1>1, KindIs
  <2>2. c \in sees[m] <=> OnMap(c) /\ at[c] \in Around(at[m])
    BY <1>2
  <2> QED BY <1>3, <2>1, <2>2 DEF IsLeft
<1>5. S \in SUBSET Characters /\ T \in SUBSET Characters
  BY <1>3
<1>6. /\ g \in [Monsters -> SUBSET Characters] /\ g[m] = sees[m] \ S
      /\ \A k \in Monsters \ {m} : g[k] = sees[k]
  BY <1>2
<1> HIDE DEF g
<1>7. /\ f \in [Monsters -> SUBSET Characters] /\ f[m] = g[m] \cup T
      /\ \A k \in Monsters \ {m} : f[k] = g[k]
  BY <1>5, <1>6
<1> HIDE DEF f
<1>8. f = Sees(pos)
  <2>1. ASSUME NEW k \in Monsters, NEW c \in Characters PROVE c \in f[k] <=> c \in Sees(pos)[k]
    <3>1. c # m /\ pos[c] = at[c]
      BY <1>1, KindIs
    <3>2. CASE k = m
      <4>1. c \in f[k] <=> OnMap(c) /\ at[c] \in Around(s)
        BY <1>4, <1>6, <1>7, <3>2
      <4> QED BY <1>1, <1>2, <3>1, <3>2, <4>1 DEF OnMap
    <3>3. CASE k # m
      <4>1. pos[k] = at[k]
        BY <1>1, <3>3, KindIs
      <4> QED BY <1>2, <1>6, <1>7, <3>1, <3>3, <4>1 DEF OnMap
    <3> QED BY <3>2, <3>3
  <2> QED BY <1>2, <1>7, <2>1, SameSees
<1>9. S \in SUBSET sees[m]
  BY <1>4, <1>5
<1>10. CountsAre(b, g)
  BY <1>9, MonsterGoes DEF g, S, sees
<1>11. T \cap g[m] = {}
  BY <1>4, <1>5, <1>6
<1> HIDE DEF b
<1>12. CountsAre(ComesTo(b, m, B), f)
  BY <1>10, <1>11, MonsterComes DEF f, T
<1> QED BY <1>8, <1>12 DEF pos, b

-----------------------------------------------------------------------------
(* What mob_ai_hard_createlist finds                                       *)

LEMMA UpToIs ==
    ASSUME NEW n \in Nat
    PROVE  IsFiniteSet(1..n) /\ Cardinality(1..n) = n
<1>1. IsFiniteSet(1..n) /\ Cardinality(1..n) = IF 1 > n THEN 0 ELSE n - 1 + 1
  BY FS_Interval
<1> QED BY <1>1

\* The list is no longer than there are monsters.
LEMMA ListIsShort ==
    ASSUME NEW a, NEW r, Linked(a, r)
    PROVE  Cardinality(Monsters) \in Nat /\ a.count \in 0..Cardinality(Monsters)
<1> DEFINE k == a.count
           f == [i \in 1..k |-> CHOOSE m \in Monsters : r[m] = i]
<1>1. k \in Nat /\ Cardinality(Monsters) \in Nat /\ IsFiniteSet(Monsters)
  BY FS_CardinalityType, MobAiAssumption DEF Linked, AiData
<1>2. \A i \in 1..k : f[i] \in Monsters /\ r[f[i]] = i
  BY DEF Linked, Ranked
<1>3. f \in Injection(1..k, Monsters)
  <2>1. f \in [1..k -> Monsters]
    BY <1>2
  <2>2. \A i, j \in 1..k : f[i] = f[j] => i = j
    <3> HIDE DEF f
    <3> QED BY <1>2
  <2> HIDE DEF f
  <2> QED BY <2>1, <2>2 DEF Injection, IsInjective
<1>4. Cardinality(1..k) <= Cardinality(Monsters)
  <2> HIDE DEF f, k
  <2> QED BY <1>1, <1>3, FS_Injection
<1>5. Cardinality(1..k) = k
  <2> HIDE DEF k
  <2> QED BY <1>1, UpToIs
<1> QED BY <1>1, <1>4, <1>5

IsWalk(f, h, next, n) ==
    f = [i \in 1..n |-> IF i = 1 THEN h
                        ELSE IF f[i - 1] = NoMob THEN NoMob ELSE next[f[i - 1]]]

\* There is only one walk.
LEMMA WalkIsOne ==
    ASSUME NEW f, NEW g, NEW h, NEW next, NEW n \in Nat,
           IsWalk(f, h, next, n), IsWalk(g, h, next, n)
    PROVE  f = g
<1> DEFINE Bad == {i \in 1..n : f[i] # g[i]}
<1>0. DOMAIN f = 1..n /\ DOMAIN g = 1..n /\ f = [i \in DOMAIN f |-> f[i]]
      /\ g = [i \in DOMAIN g |-> g[i]]
  BY DEF IsWalk
<1>1. SUFFICES ASSUME Bad # {} PROVE FALSE
  BY <1>0
<1>2. PICK i \in Bad : \A j \in Bad : i <= j
  <2>1. Bad \in SUBSET Nat
    OBVIOUS
  <2> HIDE DEF Bad
  <2> QED BY <1>1, <2>1, LeastExists
<1>3. i \in 1..n /\ f[i] # g[i]
  BY <1>2
<1>4. i # 1
  BY <1>3 DEF IsWalk
<1>5. f[i - 1] = g[i - 1]
  BY <1>2, <1>3, <1>4
<1>6. /\ f[i] = IF f[i - 1] = NoMob THEN NoMob ELSE next[f[i - 1]]
      /\ g[i] = IF g[i - 1] = NoMob THEN NoMob ELSE next[g[i - 1]]
  BY <1>3, <1>4 DEF IsWalk
<1> QED BY <1>3, <1>5, <1>6

\* From its head on the list has its monsters, in the order of their places.
LEMMA CreateListIs ==
    ASSUME NEW r, Linked(ai, r)
    PROVE  /\ ai.count \in 0..Cardinality(Monsters) /\ Cardinality(Monsters) \in Nat
           /\ CreateList \in [1..ai.count -> Monsters]
           /\ \A i \in 1..ai.count : r[CreateList[i]] = ai.count - i + 1
<1> DEFINE n == Cardinality(Monsters)
           k == ai.count
           h == ai.head
           next == ai.next
           W(f) == IsWalk(f, h, next, n)
           chain == CHOOSE f : W(f)
           g == [i \in 1..n |-> IF i <= k THEN CHOOSE m \in Monsters : r[m] = k - i + 1 ELSE NoMob]
           last == IF k < n THEN k ELSE n
<1>1. n \in Nat /\ k \in 0..n /\ last = k
  BY ListIsShort
<1>2. CreateList = [i \in 1..Cardinality({j \in 1..last : chain[j] # NoMob}) |-> chain[i]]
  BY DEF CreateList, IsWalk
<1>3. \A i \in 1..n : i <= k => g[i] \in Monsters /\ r[g[i]] = k - i + 1
  <2>1. ASSUME NEW i \in 1..n, i <= k PROVE \E m \in Monsters : r[m] = k - i + 1
    <3>1. k - i + 1 \in 1..k
      BY <1>1, <2>1
    <3> QED BY <3>1 DEF Linked, Ranked
  <2> QED BY <2>1
<1>4. \A i \in 1..n : i > k => g[i] = NoMob
  BY <1>1
<1>5. DOMAIN g = 1..n /\ g = [i \in 1..n |-> g[i]]
  OBVIOUS
<1>6. IF k = 0 THEN h = NoMob ELSE h \in Monsters /\ r[h] = k
  BY DEF Linked, First, Stands
<1>7. \A m \in Monsters : IF r[m] = 0 \/ r[m] = 1 THEN next[m] = NoMob
                          ELSE next[m] \in Monsters /\ r[next[m]] = r[m] - 1
  BY DEF Linked, Nexts, Stands
<1>8. \A b, c \in Monsters : r[b] = r[c] /\ r[b] # 0 => b = c
  BY DEF Linked, Ranked
<1> HIDE DEF g, h, next, k, n
<1>9. ASSUME NEW i \in 1..n
      PROVE  g[i] = IF i = 1 THEN h ELSE IF g[i - 1] = NoMob THEN NoMob ELSE next[g[i - 1]]
  <2>1. CASE i = 1
    <3>1. CASE k = 0
      BY <1>4, <1>6, <2>1, <3>1
    <3>2. CASE k # 0
      <4>1. g[1] \in Monsters /\ r[g[1]] = k /\ h \in Monsters /\ r[h] = k
        BY <1>1, <1>3, <1>6, <2>1, <3>2
      <4> QED BY <1>8, <2>1, <3>2, <4>1
    <3> QED BY <3>1, <3>2
  <2>2. CASE i # 1 /\ i - 1 > k
    <3>1. g[i - 1] = NoMob /\ g[i] = NoMob
      BY <1>1, <1>4, <2>2
    <3> QED BY <2>2, <3>1
  <2>3. CASE i # 1 /\ i - 1 <= k
    <3> DEFINE b == g[i - 1]
    <3>1. i - 1 \in 1..n /\ k - (i - 1) + 1 = k - i + 2
      BY <1>1, <2>3
    <3>2. b \in Monsters /\ r[b] = k - i + 2 /\ b # NoMob
      BY <1>3, <2>3, <3>1, NoMobIsNone
    <3> HIDE DEF b
    <3>3. CASE i = k + 1
      <4>1. r[b] = 1 /\ g[i] = NoMob
        BY <1>1, <1>4, <3>2, <3>3
      <4>2. next[b] = NoMob
        BY <1>7, <3>2, <4>1
      <4> QED BY <2>3, <3>2, <4>1, <4>2 DEF b
    <3>4. CASE i # k + 1
      <4>1. i <= k /\ k - i + 1 # 0 /\ r[b] # 1 /\ r[b] # 0 /\ r[b] - 1 = k - i + 1
        BY <1>1, <2>3, <3>2, <3>4
      <4>2. next[b] \in Monsters /\ r[next[b]] = k - i + 1
        BY <1>7, <3>2, <4>1
      <4>3. g[i] \in Monsters /\ r[g[i]] = k - i + 1
        BY <1>3, <4>1
      <4>4. g[i] = next[b]
        BY <1>8, <4>1, <4>2, <4>3
      <4> QED BY <2>3, <3>2, <4>4 DEF b
    <3> QED BY <3>3, <3>4
  <2> QED BY <1>1, <2>1, <2>2, <2>3
<1>10. W(g)
  BY <1>5, <1>9 DEF IsWalk
<1>11. W(chain)
  BY <1>10
<1> HIDE DEF chain
<1>12. chain = g
  BY <1>1, <1>10, <1>11, WalkIsOne
<1>13. {j \in 1..last : chain[j] # NoMob} = 1..k
  <2>1. \A j \in 1..k : j \in 1..n /\ g[j] \in Monsters
    BY <1>1, <1>3
  <2> HIDE DEF last
  <2> QED BY <1>1, <1>12, <2>1, NoMobIsNone
<1>14. Cardinality(1..k) = k
  BY <1>1, UpToIs
<1>15. CreateList = [i \in 1..k |-> g[i]]
  BY <1>2, <1>12, <1>13, <1>14
<1>16. \A i \in 1..k : g[i] \in Monsters /\ r[g[i]] = k - i + 1
  BY <1>1, <1>3
<1>17. CreateList \in [1..k -> Monsters] /\ \A i \in 1..k : r[CreateList[i]] = k - i + 1
  BY <1>15, <1>16
<1> QED BY <1>1, <1>17 DEF k, n

\* It has those with somebody near, each once.
LEMMA ListHas ==
    ASSUME Queued(ai)
    PROVE  /\ CreateList \in Seq(Monsters) /\ Len(CreateList) = ai.count
           /\ ai.count \in 0..Cardinality(Monsters) /\ Cardinality(Monsters) \in Nat
           /\ ToSet(CreateList) = {m \in Monsters : ai.near[m] > 0}
           /\ ai.count = Cardinality({m \in Monsters : ai.near[m] > 0})
<1> DEFINE k == ai.count
           s == CreateList
           B == {m \in Monsters : ai.near[m] > 0}
<1>1. PICK r : Linked(ai, r) /\ \A m \in Monsters : r[m] # 0 <=> ai.near[m] # 0
  BY DEF Queued
<1>2. /\ k \in 0..Cardinality(Monsters) /\ Cardinality(Monsters) \in Nat
      /\ s \in [1..k -> Monsters] /\ \A i \in 1..k : r[s[i]] = k - i + 1
  BY <1>1, CreateListIs
<1>3. /\ r \in [Monsters -> 0..k] /\ \A b, c \in Monsters : r[b] = r[c] /\ r[b] # 0 => b = c
  BY <1>1 DEF Linked, Ranked
<1>4. ai.near \in [Monsters -> Nat]
  BY QueuedType
<1> HIDE DEF s, k
<1>5. s \in Seq(Monsters) /\ Len(s) = k /\ DOMAIN s = 1..k
  BY <1>2
<1>6. \A m \in Monsters : m \in B <=> r[m] \in 1..k
  BY <1>1, <1>2, <1>3, <1>4
<1> HIDE DEF B
<1>7. \A m \in B : m \in Monsters
  BY DEF B
<1>8. s \in Bijection(1..k, B)
  <2>1. ASSUME NEW i \in 1..k PROVE s[i] \in B
    <3>1. s[i] \in Monsters /\ r[s[i]] = k - i + 1
      BY <1>2
    <3>2. k - i + 1 \in 1..k
      BY <1>2
    <3> QED BY <1>6, <3>1, <3>2
  <2>2. ASSUME NEW i \in 1..k, NEW j \in 1..k, s[i] = s[j] PROVE i = j
    BY <1>2, <2>2
  <2>3. ASSUME NEW m \in B PROVE \E i \in 1..k : s[i] = m
    <3>1. m \in Monsters /\ r[m] \in 1..k
      BY <1>6, <1>7
    <3> DEFINE i == k - r[m] + 1
    <3>2. i \in 1..k /\ k - i + 1 = r[m]
      BY <1>2, <3>1
    <3> HIDE DEF i
    <3>3. s[i] \in Monsters /\ r[s[i]] = r[m] /\ r[m] # 0
      BY <1>2, <3>1, <3>2
    <3>4. s[i] = m
      BY <1>3, <3>1, <3>3
    <3> QED BY <3>2, <3>4
  <2>4. s \in [1..k -> B]
    BY <1>5, <1>2, <2>1
  <2> QED BY <2>2, <2>3, <2>4 DEF Bijection, Injection, Surjection, IsInjective
<1>9. ToSet(s) = B
  BY <1>5, <1>8 DEF ToSet, Bijection, Surjection
<1>10. Cardinality(B) = k
  <2>1. IsFiniteSet(1..k) /\ Cardinality(1..k) = k
    BY <1>2, UpToIs
  <2>2. ExistsBijection(1..k, B)
    BY <1>8 DEF ExistsBijection
  <2> QED BY <2>1, <2>2, FS_Bijection
<1> QED BY <1>2, <1>5, <1>9, <1>10 DEF s, k, B

\* The counts and the list are right.
LEMMA CountsKnow ==
    ASSUME at \in Places, CountsAre(ai, Sees(at))
    PROVE  AiKnowsWhoIsNear
<1> DEFINE B == {m \in Monsters : ai.near[m] > 0}
           k == ai.count
<1>1. Queued(ai) /\ \A m \in Monsters : ai.near[m] = Cardinality(Sees(at)[m])
  BY DEF CountsAre
<1>2. PICK r : Linked(ai, r) /\ \A m \in Monsters : r[m] # 0 <=> ai.near[m] # 0
  BY <1>1 DEF Queued
<1>3. ai.near \in [Monsters -> Nat] /\ k \in Nat
  BY <1>1, QueuedType
<1>4. /\ r \in [Monsters -> 0..k] /\ \A b, c \in Monsters : r[b] = r[c] /\ r[b] # 0 => b = c
  BY <1>2 DEF Linked, Ranked
<1>5. \A m \in Monsters : m \in B <=> r[m] \in 1..k
  BY <1>2, <1>3, <1>4
<1>6. ASSUME NEW m \in Monsters
      PROVE ai.near[m] = IF OnMap(m) THEN Cardinality(Met(m, Around(at[m]))) ELSE 0
  <2>1. CASE OnMap(m)
    <3>1. Met(m, Around(at[m])) = Sees(at)[m]
      BY <2>1 DEF Met, Sees, OnMap
    <3> QED BY <1>1, <2>1, <3>1
  <2>2. CASE ~OnMap(m)
    <3>1. Sees(at)[m] = {}
      BY <2>2 DEF Sees, OnMap
    <3> QED BY <1>1, <2>2, <3>1, FS_EmptySet
  <2> QED BY <2>1, <2>2
<1>7. /\ IF k = 0 THEN ai.head = NoMob ELSE ai.head \in Monsters /\ r[ai.head] = k
      /\ \A m \in Monsters : IF r[m] = 0 \/ r[m] = 1 THEN ai.next[m] = NoMob
                             ELSE ai.next[m] \in Monsters /\ r[ai.next[m]] = r[m] - 1
      /\ \A m \in Monsters : IF r[m] = 0 \/ r[m] = k THEN ai.prev[m] = NoMob
                             ELSE ai.prev[m] \in Monsters /\ r[ai.prev[m]] = r[m] + 1
  BY <1>2 DEF Linked, First, Nexts, Prevs, Stands
<1>8. ToSet(CreateList) = B /\ k = Cardinality(B)
  BY <1>1, ListHas
<1>9. \A m \in B : m \in Monsters
  OBVIOUS
<1> HIDE DEF B, k
<1>10. ASSUME NEW m \in Monsters
       PROVE  ai.prev[m] = IF m = ai.head THEN NoMob
                           ELSE IF m \in B THEN CHOOSE j \in B : ai.next[j] = m ELSE NoMob
  <2>1. CASE r[m] = 0
    <3>1. m \notin B /\ ai.prev[m] = NoMob
      BY <1>5, <1>7, <2>1
    <3> QED BY <3>1
  <2>2. CASE r[m] # 0 /\ r[m] = k
    <3>1. ai.head \in Monsters /\ r[ai.head] = k
      BY <1>7, <2>2
    <3>2. m = ai.head
      BY <1>4, <2>2, <3>1
    <3> QED BY <1>7, <2>2, <3>2
  <2>3. CASE r[m] # 0 /\ r[m] # k
    <3> DEFINE p == ai.prev[m]
    <3>1. p \in Monsters /\ r[p] = r[m] + 1
      BY <1>7, <2>3
    <3>2. r[m] \in 1..k /\ r[p] \in 2..k
      BY <1>3, <1>4, <2>3, <3>1
    <3>3. m \in B /\ p \in B
      BY <1>3, <1>5, <3>1, <3>2
    <3>4. m # ai.head
      BY <1>3, <1>7, <2>3, <3>2
    <3> HIDE DEF p
    <3>5. ai.next[p] = m
      <4>1. ai.next[p] \in Monsters /\ r[ai.next[p]] = r[p] - 1
        BY <1>7, <3>1, <3>2
      <4>2. r[p] - 1 = r[m]
        BY <3>1, <3>2
      <4> QED BY <1>4, <2>3, <4>1, <4>2
    <3>6. ASSUME NEW j \in B, ai.next[j] = m PROVE j = p
      <4>1. j \in Monsters /\ r[j] \in 1..k
        BY <1>5, <1>9
      <4>2. r[j] # 1 /\ r[m] = r[j] - 1
        BY <1>7, <3>6, <4>1, NoMobIsNone
      <4>3. r[j] = r[p] /\ r[j] # 0
        BY <1>3, <3>1, <3>2, <4>1, <4>2
      <4> QED BY <1>4, <3>1, <4>1, <4>3
    <3>7. p = CHOOSE j \in B : ai.next[j] = m
      BY <3>3, <3>5, <3>6
    <3> QED BY <3>3, <3>4, <3>7 DEF p
  <2> QED BY <2>1, <2>2, <2>3
<1>11. ASSUME NEW m \in Monsters \ B PROVE ai.next[m] = NoMob
  <2>1. r[m] = 0
    BY <1>3, <1>4, <1>5
  <2> QED BY <1>7, <2>1
<1> QED BY <1>6, <1>8, <1>10, <1>11 DEF AiKnowsWhoIsNear, B, k

-----------------------------------------------------------------------------
(* The invariant                                                           *)

ThinkData ==
    [phase : {"idle", "rest", "list"}, buf : Seq(Monsters), i : 0..Cardinality(Monsters),
     doings : 0..MaxDoings]

\* Who has not had its turn is still to come: in the rest of the buffer while
\* it is gone through, else among those that are left over.
Waits(t, ids, un) ==
    IF t.phase = "list"
    THEN t.i <= Len(t.buf) /\ \A m \in un : \E k \in 1..Len(t.buf) : t.i < k /\ t.buf[k] = m
    ELSE \A m \in un : \E k \in 1..Len(ids) : ids[k] = m

\* Monsters on the map are in id_db.
Stand(pos, db) ==
    /\ pos \in Places /\ db \in SUBSET Monsters
    /\ \A m \in Monsters : pos[m] # Nowhere => m \in db

Thinks(t, ids) ==
    /\ t \in ThinkData /\ Len(t.buf) <= Cardinality(Monsters)
    /\ ids \in Seq(Monsters)

OnList(un, a) == un \in SUBSET Monsters /\ \A m \in un : a.near[m] > 0

MobAiInv ==
    /\ Stand(at, known)
    /\ CountsAre(ai, Sees(at))
    /\ Thinks(think, nextIds)
    /\ OnList(unheard, ai)
    /\ Waits(think, nextIds, unheard)

LEMMA InvType ==
    ASSUME MobAiInv
    PROVE  MobAiTypeOK
<1>1. /\ at \in [Units -> Squares \cup {Nowhere}] /\ known \subseteq Monsters
  BY DEF MobAiInv, Stand, Places
<1>2. ai \in AiData
  BY QueuedType DEF MobAiInv, CountsAre
<1>3. think \in ThinkData /\ nextIds \in Seq(Monsters) /\ unheard \subseteq Monsters
  BY DEF MobAiInv, Thinks, OnList
<1> QED BY <1>1, <1>2, <1>3 DEF MobAiTypeOK, AiData, ThinkData

\* think changes by what is done in a turn at most.
Same(t, u) == u \in ThinkData /\ u.phase = t.phase /\ u.buf = t.buf /\ u.i = t.i

LEMMA DoesSame ==
    ASSUME MobAiInv, Does
    PROVE  Same(think, think')
<1>1. think \in ThinkData /\ MaxDoings \in Nat
  BY MobAiAssumption DEF MobAiInv, Thinks
<1>2. CASE Idle
  BY <1>1, <1>2 DEF Does, Same
<1>3. CASE ~Idle
  <2>1. think' = [think EXCEPT !.doings = @ + 1] /\ think.doings < MaxDoings
    BY <1>3 DEF Does
  <2>2. think.doings + 1 \in 0..MaxDoings
    BY <1>1, <2>1 DEF ThinkData
  <2>3. /\ think'.phase = think.phase /\ think'.buf = think.buf /\ think'.i = think.i
        /\ think' \in ThinkData
    BY <1>1, <2>1, <2>2 DEF ThinkData
  <2> QED BY <2>3 DEF Same
<1> QED BY <1>2, <1>3

\* What all who come, move and go have in common.
LEMMA MovesInv ==
    ASSUME MobAiInv, Stand(at', known'), CountsAre(ai', Sees(at')), Listens,
           think' = think \/ Same(think, think'), nextIds' = nextIds
    PROVE  MobAiInv'
<1>1. Same(think, think')
  BY DEF Same, MobAiInv, Thinks
<1>2. Thinks(think', nextIds')
  BY <1>1 DEF MobAiInv, Thinks, Same
<1>3. unheard' \in SUBSET unheard /\ OnList(unheard', ai')
  BY DEF MobAiInv, OnList, Listens
<1>4. Waits(think', nextIds', unheard')
  <2>1. Waits(think, nextIds, unheard)
    BY DEF MobAiInv
  <2> QED BY <1>1, <1>3, <2>1 DEF Waits, Same
<1> QED BY <1>2, <1>3, <1>4 DEF MobAiInv

LEMMA StandIs ==
    ASSUME MobAiInv, NEW u \in Units, NEW s \in Squares \cup {Nowhere},
           u \in Monsters /\ s # Nowhere => u \in known
    PROVE  Stand([at EXCEPT ![u] = s], known)
<1>1. at \in Places
  BY DEF MobAiInv, Stand
<1> DEFINE pos == [at EXCEPT ![u] = s]
<1>2. pos \in Places /\ pos[u] = s /\ \A v \in Units \ {u} : pos[v] = at[v]
  BY <1>1, PlaceIs
<1> HIDE DEF pos
<1>3. \A m \in Monsters : pos[m] # Nowhere => m \in known
  <2> SUFFICES ASSUME NEW m \in Monsters, pos[m] # Nowhere PROVE m \in known
    OBVIOUS
  <2>1. m \in Units
    BY KindIs
  <2> QED BY <1>2, <2>1 DEF MobAiInv, Stand
<1>4. known \in SUBSET Monsters
  BY DEF MobAiInv, Stand
<1> QED BY <1>2, <1>3, <1>4 DEF Stand, pos

LEMMA Here ==
    ASSUME MobAiInv
    PROVE  /\ at \in Places /\ CountsAre(ai, Sees(at)) /\ known \in SUBSET Monsters
           /\ \A m \in Monsters : OnMap(m) => m \in known
           /\ Landings \subseteq Squares /\ MaxJump <= 2 * Sight + 1
           /\ MaxJump \in Nat /\ Sight \in Nat
BY MobAiAssumption DEF MobAiInv, Stand, OnMap

-----------------------------------------------------------------------------
(* One step after the other                                                *)

LEMMA InitInv == MobAiInit => MobAiInv
<1> SUFFICES ASSUME MobAiInit PROVE MobAiInv
  OBVIOUS
<1>1. Stand(at, known)
  BY MobAiAssumption DEF MobAiInit, Stand, Places, Units
<1>2. ai \in AiData /\ ai.count = 0 /\ ai.head = NoMob
      /\ \A m \in Monsters : ai.near[m] = 0 /\ ai.next[m] = NoMob /\ ai.prev[m] = NoMob
  BY DEF MobAiInit, AiData
<1>3. Queued(ai)
  <2> DEFINE r == [m \in Monsters |-> 0]
  <2>1. Linked(ai, r)
    BY <1>2 DEF Linked, Ranked, First, Nexts, Prevs
  <2>2. \A m \in Monsters : r[m] # 0 <=> ai.near[m] # 0
    BY <1>2
  <2> HIDE DEF r
  <2> QED BY <2>1, <2>2 DEF Queued
<1>4. Sees(at) \in [Monsters -> SUBSET Characters]
  BY SeesIs
<1>5. \A m \in Monsters : Sees(at)[m] = {}
  BY KindIs DEF MobAiInit, Sees
<1>6. CountsAre(ai, Sees(at))
  BY <1>2, <1>3, <1>4, <1>5, FS_EmptySet DEF CountsAre
<1>7. Thinks(think, nextIds)
  <2>1. Cardinality(Monsters) \in Nat /\ MaxDoings \in Nat
    BY FS_CardinalityType, MobAiAssumption
  <2>2. think = [phase |-> "idle", buf |-> <<>>, i |-> 0, doings |-> 0] /\ nextIds = <<>>
    BY DEF MobAiInit, NotThinking
  <2>3. think \in ThinkData /\ Len(think.buf) = 0
    BY <2>1, <2>2 DEF ThinkData
  <2> QED BY <2>1, <2>2, <2>3 DEF Thinks
<1>8. OnList(unheard, ai) /\ Waits(think, nextIds, unheard)
  BY DEF MobAiInit, OnList, Waits, NotThinking
<1> QED BY <1>1, <1>6, <1>7, <1>8 DEF MobAiInv

LEMMA CharacterEntersStep ==
    ASSUME MobAiInv, NEW p \in Characters, NEW s \in Landings, CharacterEnters(p, s)
    PROVE  MobAiInv'
<1>1. s \in Squares /\ p \in Units /\ p \notin Monsters
  BY Here, KindIs
<1>2. at' = [at EXCEPT ![p] = s] /\ known' = known /\ think' = think /\ nextIds' = nextIds
  BY DEF CharacterEnters
<1>3. Stand(at', known')
  BY <1>1, <1>2, StandIs
<1>4. CountsAre(ai', Sees(at'))
  BY <1>1, <1>2, Here, CharacterOn DEF CharacterEnters
<1>5. Listens
  BY DEF CharacterEnters
<1> QED BY <1>2, <1>3, <1>4, <1>5, MovesInv

LEMMA CharacterLeavesStep ==
    ASSUME MobAiInv, NEW p \in Characters, CharacterLeaves(p)
    PROVE  MobAiInv'
<1>1. p \in Units /\ p \notin Monsters
  BY KindIs
<1>2. at' = [at EXCEPT ![p] = Nowhere] /\ known' = known /\ nextIds' = nextIds
  BY DEF CharacterLeaves
<1>3. Stand(at', known')
  BY <1>1, <1>2, StandIs
<1>4. CountsAre(ai', Sees(at'))
  BY <1>2, Here, CharacterOff DEF CharacterLeaves
<1>5. Listens /\ Does
  BY DEF CharacterLeaves
<1>6. Same(think, think')
  BY <1>5, DoesSame
<1> QED BY <1>2, <1>3, <1>4, <1>5, <1>6, MovesInv

LEMMA DistanceIs ==
    ASSUME NEW s \in Squares, NEW q \in Squares, NEW n \in Int, Distance(s, q) <= n
    PROVE  /\ -n <= q[1] - s[1] /\ q[1] - s[1] <= n
           /\ -n <= q[2] - s[2] /\ q[2] - s[2] <= n
<1>1. s[1] \in Int /\ s[2] \in Int /\ q[1] \in Int /\ q[2] \in Int
  BY SquareIs
<1> QED BY <1>1 DEF Distance

LEMMA ShiftIs ==
    ASSUME MobAiInv, NEW u \in Units, OnMap(u), NEW s \in Squares, Shift(u, s),
           Distance(at[u], s) <= 2 * Sight + 1
    PROVE  /\ Stand(at', known') /\ CountsAre(ai', Sees(at')) /\ Listens /\ nextIds' = nextIds
<1> DEFINE t == at[u]
           dx == s[1] - t[1]
           dy == s[2] - t[2]
           A == Strip(t, dx, dy)
           B == Strip(s, -dx, -dy)
<1>1. /\ at' = [at EXCEPT ![u] = s] /\ known' = known /\ Listens /\ nextIds' = nextIds
      /\ ai' = ComesTo(GoesFrom(ai, u, A), u, B)
  BY DEF Shift
<1>2. at \in Places /\ t \in Squares /\ CountsAre(ai, Sees(at)) /\ Sight \in Nat
  BY Here, PlaceIs
<1>3. u \in Monsters => u \in known
  BY Here
<1>4. Stand(at', known')
  BY <1>1, <1>3, StandIs
<1>5. s[1] \in Int /\ s[2] \in Int /\ t[1] \in Int /\ t[2] \in Int /\ 2 * Sight + 1 \in Int
  BY <1>2, SquareIs
<1> HIDE DEF t
<1>6. /\ -(2 * Sight + 1) <= dx /\ dx <= 2 * Sight + 1
      /\ -(2 * Sight + 1) <= dy /\ dy <= 2 * Sight + 1
  BY <1>2, <1>5, DistanceIs DEF t
<1> DEFINE ex == -dx
           ey == -dy
<1>7. /\ dx \in Int /\ dy \in Int /\ s[1] = t[1] + dx /\ s[2] = t[2] + dy
      /\ ex \in Int /\ ey \in Int /\ t[1] = s[1] + ex /\ t[2] = s[2] + ey
      /\ -(2 * Sight + 1) <= ex /\ ex <= 2 * Sight + 1
      /\ -(2 * Sight + 1) <= ey /\ ey <= 2 * Sight + 1
      /\ A = Strip(t, dx, dy) /\ B = Strip(s, ex, ey)
  BY <1>2, <1>5, <1>6
<1> HIDE DEF dx, dy, ex, ey, A, B
<1>8. IsLeft(A, t, s)
  BY <1>2, <1>6, <1>7, StripIs DEF IsLeft
<1>9. IsLeft(B, s, t)
  BY <1>2, <1>7, StripIs DEF IsLeft
<1>10. CountsAre(ai', Sees(at'))
  <2>1. CASE u \in Characters
    BY <1>1, <1>2, <1>8, <1>9, <2>1, CharacterSteps DEF t
  <2>2. CASE u \in Monsters
    BY <1>1, <1>2, <1>8, <1>9, <2>2, MonsterSteps DEF t
  <2> QED BY <2>1, <2>2 DEF Units
<1> QED BY <1>1, <1>4, <1>10

LEMMA WalkStepStep ==
    ASSUME MobAiInv, NEW u \in Units, NEW s \in Squares, WalkStep(u, s)
    PROVE  MobAiInv'
<1>1. OnMap(u) /\ Distance(at[u], s) = 1 /\ Shift(u, s) /\ think' = think
  BY DEF WalkStep
<1>2. Distance(at[u], s) <= 2 * Sight + 1
  BY <1>1, Here
<1>3. Stand(at', known') /\ CountsAre(ai', Sees(at')) /\ Listens /\ nextIds' = nextIds
  BY <1>1, <1>2, ShiftIs
<1> QED BY <1>1, <1>3, MovesInv

LEMMA DistanceType ==
    ASSUME NEW s \in Squares, NEW q \in Squares
    PROVE  Distance(s, q) \in Int
BY SquareIs DEF Distance

LEMMA MoveposStep ==
    ASSUME MobAiInv, NEW u \in Units, NEW s \in Landings, Movepos(u, s)
    PROVE  MobAiInv'
<1>1. OnMap(u) /\ Distance(at[u], s) <= MaxJump /\ Shift(u, s) /\ Does
  BY DEF Movepos
<1>2. s \in Squares /\ at[u] \in Squares
  BY <1>1, Here, PlaceIs
<1>3. Distance(at[u], s) <= 2 * Sight + 1
  BY <1>1, <1>2, Here, DistanceType
<1>4. Stand(at', known') /\ CountsAre(ai', Sees(at')) /\ Listens /\ nextIds' = nextIds
  BY <1>1, <1>2, <1>3, ShiftIs
<1>5. Same(think, think')
  BY <1>1, DoesSame
<1> QED BY <1>4, <1>5, MovesInv

LEMMA MobSpawnStep ==
    ASSUME MobAiInv, NEW m \in Monsters, NEW s \in Landings \cup {Nowhere}, MobSpawn(m, s)
    PROVE  MobAiInv'
<1> DEFINE off == IF OnMap(m) THEN GoesFrom(ai, m, Around(at[m])) ELSE ai
<1>1. /\ Does /\ m \in known /\ Listens /\ known' = known /\ nextIds' = nextIds
      /\ at' = [at EXCEPT ![m] = s]
      /\ ai' = IF s = Nowhere THEN off ELSE ComesTo(off, m, Around(s))
  BY DEF MobSpawn
<1>2. m \in Units /\ s \in Squares \cup {Nowhere} /\ at \in Places /\ CountsAre(ai, Sees(at))
  BY Here, KindIs
<1>3. Stand(at', known')
  BY <1>1, <1>2, StandIs
<1>4. CountsAre(off, [Sees(at) EXCEPT ![m] = {}])
  <2>1. CASE OnMap(m)
    BY <1>2, <2>1, MonsterOff
  <2>2. CASE ~OnMap(m)
    <3>1. off = ai
      BY <2>2
    <3> HIDE DEF off
    <3>2. Sees(at) = [Sees(at) EXCEPT ![m] = {}]
      BY <1>2, <2>2, NobodyThere
    <3> QED BY <1>2, <3>1, <3>2
  <2> QED BY <2>1, <2>2
<1> HIDE DEF off
<1>5. CountsAre(ai', Sees(at'))
  <2>1. CASE s = Nowhere
    <3>1. at' = [at EXCEPT ![m] = Nowhere]
      BY <1>1, <2>1
    <3>2. Sees(at') = [Sees(at) EXCEPT ![m] = {}]
      BY <1>2, <3>1, NobodyThere
    <3> QED BY <1>1, <1>4, <2>1, <3>2
  <2>2. CASE s # Nowhere
    BY <1>1, <1>2, <1>4, <2>2, MonsterOn
  <2> QED BY <2>1, <2>2
<1>6. Same(think, think')
  BY <1>1, DoesSame
<1> QED BY <1>1, <1>3, <1>5, <1>6, MovesInv

LEMMA SummonStep ==
    ASSUME MobAiInv, NEW m \in Monsters, NEW s \in Landings, Summon(m, s)
    PROVE  MobAiInv'
<1> DEFINE a == [ai EXCEPT !.near[m] = 0, !.next[m] = NoMob, !.prev[m] = NoMob]
<1>1. /\ Does /\ m \notin known /\ Listens /\ known' = known \cup {m} /\ nextIds' = nextIds
      /\ at' = [at EXCEPT ![m] = s]
      /\ ai' = ComesTo(a, m, Around(s))
  BY DEF Summon
<1>2. m \in Units /\ s \in Squares /\ at \in Places /\ CountsAre(ai, Sees(at)) /\ ~OnMap(m)
  BY <1>1, Here, KindIs
<1>3. Stand(at', known')
  <2> DEFINE pos == [at EXCEPT ![m] = s]
  <2>0. at' = pos
    BY <1>1
  <2>1. pos \in Places /\ pos[m] = s /\ \A v \in Units \ {m} : pos[v] = at[v]
    BY <1>2, PlaceIs
  <2> HIDE DEF pos
  <2>2. ASSUME NEW k \in Monsters, pos[k] # Nowhere PROVE k \in known'
    <3>1. k \in Units
      BY KindIs
    <3>2. CASE k = m
      BY <1>1, <3>2
    <3>3. CASE k # m
      <4>1. OnMap(k)
        BY <2>1, <2>2, <3>1, <3>3 DEF OnMap
      <4> QED BY <1>1, <4>1, Here
    <3> QED BY <3>2, <3>3
  <2>3. known' \in SUBSET Monsters
    BY <1>1, Here
  <2> QED BY <2>0, <2>1, <2>2, <2>3 DEF Stand
<1>4. Sees(at) = [Sees(at) EXCEPT ![m] = {}] /\ Sees(at)[m] = {}
  <2>1. Sees(at) = [Sees(at) EXCEPT ![m] = {}]
    BY <1>2, NobodyThere
  <2>2. Sees(at)[m] = {}
    BY <1>2 DEF Sees, OnMap
  <2> QED BY <2>1, <2>2
<1>5. Queued(ai) /\ ai.near[m] = 0 /\ ai \in AiData
  BY <1>2, <1>4, FS_EmptySet, QueuedType DEF CountsAre
<1>6. PICK r : Linked(ai, r) /\ \A k \in Monsters : r[k] # 0 <=> ai.near[k] # 0
  BY <1>5 DEF Queued
<1>7. ai.next[m] = NoMob /\ ai.prev[m] = NoMob
  BY <1>5, <1>6 DEF Linked, Nexts, Prevs
<1>8. /\ a.near = [ai.near EXCEPT ![m] = 0] /\ a.next = [ai.next EXCEPT ![m] = NoMob]
      /\ a.prev = [ai.prev EXCEPT ![m] = NoMob] /\ a.head = ai.head /\ a.count = ai.count
      /\ DOMAIN a = DOMAIN ai /\ a = [i \in DOMAIN a |-> a[i]]
  BY <1>5 DEF AiData
<1> HIDE DEF a
<1>9. /\ ai.near \in [Monsters -> Nat] /\ ai.next \in [Monsters -> Monsters \cup {NoMob}]
      /\ ai.prev \in [Monsters -> Monsters \cup {NoMob}]
      /\ ai.head \in Monsters \cup {NoMob} /\ ai.count \in Nat
  BY <1>5 DEF AiData
<1>10. a.near = ai.near /\ a.next = ai.next /\ a.prev = ai.prev
  BY <1>5, <1>7, <1>8, <1>9
<1>11. a \in AiData
  BY <1>5, <1>8, <1>9, <1>10, AiIs
<1>12. Linked(a, r)
  BY <1>6, <1>8, <1>10, <1>11, OnlyNear
<1>13. CountsAre(a, Sees(at))
  <2>1. Queued(a)
    BY <1>6, <1>10, <1>12 DEF Queued
  <2> QED BY <1>2, <1>10, <2>1 DEF CountsAre
<1>14. CountsAre(ai', Sees(at'))
  BY <1>1, <1>2, <1>4, <1>13, MonsterOn
<1>15. Same(think, think')
  BY <1>1, DoesSame
<1> QED BY <1>1, <1>3, <1>14, <1>15, MovesInv

LEMMA MobWarpStep ==
    ASSUME MobAiInv, NEW m \in Monsters, NEW s \in Landings, MobWarp(m, s)
    PROVE  MobAiInv'
<1> DEFINE off == GoesFrom(ai, m, Around(at[m]))
<1>1. /\ Does /\ OnMap(m) /\ Listens /\ known' = known /\ nextIds' = nextIds
      /\ at' = [at EXCEPT ![m] = s]
      /\ ai' = ComesTo(off, m, Around(s))
  BY DEF MobWarp
<1>2. m \in Units /\ s \in Squares /\ at \in Places /\ CountsAre(ai, Sees(at)) /\ m \in known
  BY <1>1, Here, KindIs
<1>3. Stand(at', known')
  BY <1>1, <1>2, StandIs
<1>4. CountsAre(off, [Sees(at) EXCEPT ![m] = {}])
  BY <1>1, <1>2, MonsterOff
<1> HIDE DEF off
<1>5. CountsAre(ai', Sees(at'))
  BY <1>1, <1>2, <1>4, MonsterOn
<1>6. Same(think, think')
  BY <1>1, DoesSame
<1> QED BY <1>1, <1>3, <1>5, <1>6, MovesInv

LEMMA MobLeavesStep ==
    ASSUME MobAiInv, NEW m \in Monsters, MobLeaves(m)
    PROVE  MobAiInv'
<1> DEFINE off == GoesFrom(ai, m, Around(at[m]))
<1>1. /\ Does /\ OnMap(m) /\ Listens /\ nextIds' = nextIds
      /\ known' = (IF m \in Respawning THEN known ELSE known \ {m})
      /\ at' = [at EXCEPT ![m] = Nowhere]
      /\ ai' = IF off.near[m] # 0 \/ off.next[m] # NoMob \/ off.prev[m] # NoMob
               THEN [AiDel(off, m) EXCEPT !.near[m] = 0] ELSE off
  BY DEF MobLeaves
<1>2. m \in Units /\ at \in Places /\ CountsAre(ai, Sees(at))
  BY <1>1, Here, KindIs
<1>3. Stand(at', known')
  <2>1. Stand(at', known)
    BY <1>1, <1>2, StandIs
  <2>2. at'[m] = Nowhere
    BY <1>1, <1>2, GoneIs
  <2> QED BY <1>1, <2>1, <2>2 DEF Stand
<1>4. CountsAre(off, [Sees(at) EXCEPT ![m] = {}])
  BY <1>1, <1>2, MonsterOff
<1> HIDE DEF off
<1>5. off.near[m] = 0
  <2>1. [Sees(at) EXCEPT ![m] = {}][m] = {}
    BY SeesIs
  <2> QED BY <1>4, <2>1, FS_EmptySet DEF CountsAre
<1>6. PICK r : Linked(off, r) /\ \A k \in Monsters : r[k] # 0 <=> off.near[k] # 0
  BY <1>4 DEF CountsAre, Queued
<1>7. off.next[m] = NoMob /\ off.prev[m] = NoMob
  BY <1>5, <1>6 DEF Linked, Nexts, Prevs
<1>8. Sees(at') = [Sees(at) EXCEPT ![m] = {}]
  BY <1>1, <1>2, NobodyThere
<1>9. CountsAre(ai', Sees(at'))
  BY <1>1, <1>4, <1>5, <1>7, <1>8
<1>10. Same(think, think')
  BY <1>1, DoesSame
<1> QED BY <1>1, <1>3, <1>9, <1>10, MovesInv

-----------------------------------------------------------------------------
(* mob_ai_hard                                                             *)

LEMMA PhaseIs ==
    ASSUME NEW t \in ThinkData
    PROVE  /\ t.phase \in {"idle", "rest", "list"} /\ t.buf \in Seq(Monsters)
           /\ t.i \in 0..Cardinality(Monsters) /\ t.doings \in 0..MaxDoings
           /\ Len(t.buf) \in Nat
BY DEF ThinkData

\* What mob_ai_hard does leaves everybody where it is.
LEMMA TurnInv ==
    ASSUME MobAiInv, UNCHANGED <<at, known, ai>>, Thinks(think', nextIds'),
           OnList(unheard', ai), Waits(think', nextIds', unheard')
    PROVE  MobAiInv'
<1>1. Stand(at', known') /\ CountsAre(ai', Sees(at')) /\ OnList(unheard', ai')
  BY DEF MobAiInv
<1> QED BY <1>1 DEF MobAiInv

LEMMA AiStartStep ==
    ASSUME MobAiInv, AiStart
    PROVE  MobAiInv'
<1>1. /\ think \in ThinkData /\ think' = [think EXCEPT !.phase = "rest"] /\ think.phase = "idle"
      /\ nextIds' = nextIds /\ unheard' = unheard
      /\ Thinks(think, nextIds) /\ OnList(unheard, ai) /\ Waits(think, nextIds, unheard)
  BY DEF AiStart, Idle, MobAiInv, Thinks
<1>2. think' \in ThinkData /\ think'.phase = "rest" /\ think'.buf = think.buf
  BY <1>1 DEF ThinkData
<1>3. Thinks(think', nextIds')
  BY <1>1, <1>2 DEF Thinks
<1>4. Waits(think', nextIds', unheard')
  BY <1>1, <1>2 DEF Waits
<1> QED BY <1>1, <1>3, <1>4, TurnInv DEF AiStart

LEMMA AiRestStep ==
    ASSUME MobAiInv, AiRest
    PROVE  MobAiInv'
<1> DEFINE n == Len(nextIds)
           m == nextIds[n]
<1>1. /\ think \in ThinkData /\ think.phase = "rest" /\ nextIds \in Seq(Monsters)
      /\ nextIds # <<>> /\ nextIds' = SubSeq(nextIds, 1, n - 1)
      /\ think' = [think EXCEPT !.i = IF OnMap(m) THEN 1 ELSE @]
      /\ unheard' = (IF OnMap(m) THEN unheard \ {m} ELSE unheard)
      /\ Thinks(think, nextIds) /\ OnList(unheard, ai) /\ Waits(think, nextIds, unheard)
      /\ UNCHANGED <<at, known, ai>>
  BY DEF AiRest, MobAiInv, Thinks, Front, Last
<1>2. /\ n \in Nat \ {0} /\ m \in Monsters /\ nextIds' \in Seq(Monsters)
      /\ Len(nextIds') = n - 1 /\ \A k \in 1..(n - 1) : nextIds'[k] = nextIds[k]
  <2> DEFINE ids == nextIds
  <2>1. ids \in Seq(Monsters) /\ ids # <<>>
    BY <1>1
  <2> HIDE DEF ids
  <2>2. Len(ids) \in Nat /\ Len(ids) # 0
    BY <2>1, EmptySeq
  <2>3. ids[Len(ids)] \in Monsters
    BY <2>1, <2>2, ElementOfSeq
  <2> DEFINE l == Len(ids) - 1
  <2>4. l \in Nat /\ l <= Len(ids) /\ 1 \in 1..(Len(ids) + 1) /\ l \in 0..Len(ids)
    BY <2>2
  <2> HIDE DEF l
  <2>5. SubSeq(ids, 1, l) \in Seq(Monsters)
    <3>1. \A k \in 1..l : k \in 1..Len(ids)
      BY <2>2, <2>4
    <3> QED BY <2>1, <3>1, SubSeqProperties, <2>4
  <2>6. Len(SubSeq(ids, 1, l)) = l /\ \A k \in 1..l : SubSeq(ids, 1, l)[k] = ids[k]
    BY <2>1, <2>4
  <2> QED BY <1>1, <2>2, <2>3, <2>5, <2>6 DEF ids, l
<1>3. 1 \in 0..Cardinality(Monsters)
  <2>1. Cardinality(Monsters) \in Nat /\ Cardinality(Monsters) # 0
    BY <1>2, FS_CardinalityType, FS_EmptySet, MobAiAssumption
  <2> QED BY <2>1
<1>4. think' \in ThinkData /\ think'.phase = "rest" /\ think'.buf = think.buf
  BY <1>1, <1>3 DEF ThinkData
<1>5. Thinks(think', nextIds')
  BY <1>1, <1>2, <1>4 DEF Thinks
<1>6. OnList(unheard', ai)
  BY <1>1 DEF OnList
<1>7. m \notin unheard'
  <2>1. SUFFICES ASSUME ~OnMap(m), m \in unheard PROVE FALSE
    BY <1>1
  <2>2. ai.near[m] > 0
    BY <1>1, <2>1 DEF OnList
  <2>3. Sees(at)[m] = {} /\ CountsAre(ai, Sees(at))
    BY <1>2, <2>1 DEF Sees, OnMap, MobAiInv
  <2> HIDE DEF m
  <2>4. ai.near[m] = 0
    BY <1>2, <2>3, FS_EmptySet DEF CountsAre
  <2> QED BY <2>2, <2>4
<1>8. Waits(think', nextIds', unheard')
  <2> SUFFICES ASSUME NEW x \in unheard' PROVE \E k \in 1..Len(nextIds') : nextIds'[k] = x
    BY <1>4 DEF Waits
  <2>1. x \in unheard
    BY <1>1
  <2>2. PICK k \in 1..n : nextIds[k] = x
    BY <1>1, <2>1 DEF Waits
  <2>3. k # n
    BY <1>7, <2>2
  <2>4. k \in 1..(n - 1)
    BY <1>2, <2>2, <2>3
  <2> QED BY <1>2, <2>2, <2>4
<1> QED BY <1>1, <1>5, <1>6, <1>8, TurnInv

LEMMA AiEverybodyStep ==
    ASSUME MobAiInv, AiEverybody
    PROVE  MobAiInv'
<1> DEFINE s == CreateList
<1>1. /\ think \in ThinkData
      /\ think' = [think EXCEPT !.phase = "list", !.buf = s, !.i = 0]
      /\ unheard' = ToSet(s) /\ nextIds' = nextIds /\ nextIds \in Seq(Monsters)
      /\ UNCHANGED <<at, known, ai>>
  BY DEF AiEverybody, MobAiInv, Thinks
<1>2. Queued(ai)
  BY DEF MobAiInv, CountsAre
<1>3. /\ s \in Seq(Monsters) /\ Len(s) \in 0..Cardinality(Monsters)
      /\ Cardinality(Monsters) \in Nat
      /\ ToSet(s) = {m \in Monsters : ai.near[m] > 0}
  BY <1>2, ListHas
<1> HIDE DEF s
<1>4. think' \in ThinkData /\ think'.phase = "list" /\ think'.buf = s /\ think'.i = 0
  <2>1. 0 \in 0..Cardinality(Monsters)
    BY <1>3
  <2>2. think' \in ThinkData
    BY <1>1, <1>3, <2>1 DEF ThinkData
  <2>3. think'.phase = "list" /\ think'.buf = s /\ think'.i = 0
    BY <1>1 DEF ThinkData
  <2> QED BY <2>2, <2>3
<1>5. Thinks(think', nextIds')
  BY <1>1, <1>3, <1>4 DEF Thinks
<1>6. OnList(unheard', ai)
  BY <1>1, <1>3 DEF OnList
<1>7. Waits(think', nextIds', unheard')
  <2>1. ASSUME NEW m \in unheard' PROVE \E k \in 1..Len(s) : 0 < k /\ s[k] = m
    <3>1. PICK k \in DOMAIN s : s[k] = m
      BY <1>1, <2>1 DEF ToSet
    <3>2. DOMAIN s = 1..Len(s)
      BY <1>3
    <3> QED BY <3>1, <3>2
  <2> QED BY <1>3, <1>4, <2>1 DEF Waits
<1> QED BY <1>1, <1>5, <1>6, <1>7, TurnInv

LEMMA AiOneStep ==
    ASSUME MobAiInv, AiOne
    PROVE  MobAiInv'
<1> DEFINE n == Len(think.buf)
           i == think.i
<1>1. /\ think \in ThinkData /\ think.phase = "list" /\ i < n
      /\ think' = [think EXCEPT !.i = i + 1]
      /\ unheard' = unheard \ {think.buf[i + 1]} /\ nextIds' = nextIds
      /\ UNCHANGED <<at, known, ai>>
      /\ Thinks(think, nextIds) /\ OnList(unheard, ai) /\ Waits(think, nextIds, unheard)
  BY DEF AiOne, MobAiInv, Thinks
<1>2. n \in Nat /\ n <= Cardinality(Monsters) /\ i \in Nat /\ Cardinality(Monsters) \in Nat
  BY <1>1, PhaseIs, FS_CardinalityType, MobAiAssumption DEF Thinks
<1>3. i + 1 \in 0..Cardinality(Monsters)
  BY <1>1, <1>2
<1>4. /\ think' \in ThinkData /\ think'.phase = "list" /\ think'.buf = think.buf
      /\ think'.i = i + 1
  BY <1>1, <1>3 DEF ThinkData
<1>5. Thinks(think', nextIds')
  BY <1>1, <1>4 DEF Thinks
<1>6. OnList(unheard', ai)
  BY <1>1 DEF OnList
<1>7. Waits(think', nextIds', unheard')
  <2>1. ASSUME NEW m \in unheard' PROVE \E k \in 1..n : i + 1 < k /\ think.buf[k] = m
    <3>1. m \in unheard /\ m # think.buf[i + 1]
      BY <1>1, <2>1
    <3>2. PICK k \in 1..n : i < k /\ think.buf[k] = m
      BY <1>1, <3>1 DEF Waits
    <3>3. k # i + 1
      BY <3>1, <3>2
    <3> QED BY <1>2, <3>2, <3>3
  <2>2. i + 1 <= n
    BY <1>1, <1>2
  <2> QED BY <1>4, <2>1, <2>2 DEF Waits
<1> QED BY <1>1, <1>5, <1>6, <1>7, TurnInv

LEMMA NotThinkingIs ==
    /\ NotThinking \in ThinkData /\ NotThinking.phase = "idle"
    /\ Len(NotThinking.buf) <= Cardinality(Monsters)
<1>1. Cardinality(Monsters) \in Nat /\ MaxDoings \in Nat
  BY FS_CardinalityType, MobAiAssumption
<1>2. NotThinking \in ThinkData /\ NotThinking.phase = "idle" /\ Len(NotThinking.buf) = 0
  BY <1>1 DEF ThinkData, NotThinking
<1> QED BY <1>1, <1>2

LEMMA AiStopStep ==
    ASSUME MobAiInv, AiStop
    PROVE  MobAiInv'
<1> DEFINE n == Len(think.buf)
           i == think.i
<1>1. /\ think \in ThinkData /\ i > 0 /\ nextIds \in Seq(Monsters)
      /\ nextIds' = (IF think.phase = "list" THEN SubSeq(think.buf, i, n) ELSE nextIds)
      /\ think' = NotThinking /\ unheard' = unheard
      /\ UNCHANGED <<at, known, ai>>
      /\ OnList(unheard, ai) /\ Waits(think, nextIds, unheard)
  BY DEF AiStop, MobAiInv, Thinks
<1>2. n \in Nat /\ i \in Nat /\ think.buf \in Seq(Monsters)
  BY <1>1, PhaseIs, FS_CardinalityType, MobAiAssumption
<1>3. CASE think.phase = "list"
  <2> DEFINE ids == SubSeq(think.buf, i, n)
  <2>1. i <= n
    BY <1>1, <1>3 DEF Waits
  <2>2. /\ ids \in Seq(Monsters) /\ Len(ids) = n - i + 1
        /\ \A k \in 1..(n - i + 1) : ids[k] = think.buf[i + k - 1]
    BY <1>1, <1>2, <2>1
  <2>3. nextIds' = ids
    BY <1>1, <1>3
  <2> HIDE DEF ids
  <2>4. Thinks(think', nextIds')
    BY <1>1, <2>2, <2>3, NotThinkingIs DEF Thinks
  <2>5. ASSUME NEW m \in unheard PROVE \E k \in 1..Len(ids) : ids[k] = m
    <3>1. PICK k \in 1..n : i < k /\ think.buf[k] = m
      BY <1>1, <1>3 DEF Waits
    <3>2. k - i + 1 \in 1..(n - i + 1) /\ i + (k - i + 1) - 1 = k
      BY <1>1, <1>2, <3>1
    <3>3. ids[k - i + 1] = m
      BY <2>2, <3>1, <3>2
    <3> QED BY <2>2, <3>2, <3>3
  <2>6. Waits(think', nextIds', unheard')
    BY <1>1, <2>3, <2>5, NotThinkingIs DEF Waits
  <2> QED BY <1>1, <2>4, <2>6, TurnInv
<1>4. CASE think.phase # "list"
  <2>1. Thinks(think', nextIds')
    BY <1>1, <1>4, NotThinkingIs DEF Thinks
  <2>2. Waits(think', nextIds', unheard')
    BY <1>1, <1>4, NotThinkingIs DEF Waits
  <2> QED BY <1>1, <2>1, <2>2, TurnInv
<1> QED BY <1>3, <1>4

LEMMA AiEndStep ==
    ASSUME MobAiInv, AiEnd
    PROVE  MobAiInv'
<1>1. /\ think \in ThinkData /\ think.phase = "list" /\ think.i = Len(think.buf)
      /\ think' = NotThinking /\ unheard' = unheard /\ nextIds' = nextIds
      /\ nextIds \in Seq(Monsters) /\ UNCHANGED <<at, known, ai>>
      /\ OnList(unheard, ai) /\ Waits(think, nextIds, unheard)
  BY DEF AiEnd, MobAiInv, Thinks
<1>2. Thinks(think', nextIds')
  BY <1>1, NotThinkingIs DEF Thinks
<1>3. unheard = {}
  <2>1. SUFFICES ASSUME NEW m \in unheard PROVE FALSE
    OBVIOUS
  <2>2. PICK k \in 1..Len(think.buf) : think.i < k
    BY <1>1, <2>1 DEF Waits
  <2>3. Len(think.buf) \in Nat
    BY <1>1, PhaseIs
  <2> QED BY <1>1, <2>2, <2>3
<1>4. Waits(think', nextIds', unheard')
  BY <1>1, <1>3, NotThinkingIs DEF Waits
<1> QED BY <1>1, <1>2, <1>4, TurnInv

LEMMA NextInv == MobAiInv /\ [MobAiNext]_mobAiVars => MobAiInv'
<1> SUFFICES ASSUME MobAiInv, [MobAiNext]_mobAiVars PROVE MobAiInv'
  OBVIOUS
<1>1. CASE UNCHANGED mobAiVars
  BY <1>1 DEF mobAiVars, MobAiInv
<1>2. ASSUME NEW p \in Characters, NEW s \in Landings, CharacterEnters(p, s) PROVE MobAiInv'
  BY <1>2, CharacterEntersStep
<1>3. ASSUME NEW p \in Characters, CharacterLeaves(p) PROVE MobAiInv'
  BY <1>3, CharacterLeavesStep
<1>4. ASSUME NEW u \in Units, NEW s \in Squares, WalkStep(u, s) PROVE MobAiInv'
  BY <1>4, WalkStepStep
<1>5. ASSUME NEW u \in Units, NEW s \in Landings, Movepos(u, s) PROVE MobAiInv'
  BY <1>5, MoveposStep
<1>6. ASSUME NEW m \in Monsters, NEW s \in Landings \cup {Nowhere}, MobSpawn(m, s) PROVE MobAiInv'
  BY <1>6, MobSpawnStep
<1>7. ASSUME NEW m \in Monsters, NEW s \in Landings, Summon(m, s) PROVE MobAiInv'
  BY <1>7, SummonStep
<1>8. ASSUME NEW m \in Monsters, NEW s \in Landings, MobWarp(m, s) PROVE MobAiInv'
  BY <1>8, MobWarpStep
<1>9. ASSUME NEW m \in Monsters, MobLeaves(m) PROVE MobAiInv'
  BY <1>9, MobLeavesStep
<1>10. ASSUME AiStart \/ AiRest \/ AiEverybody \/ AiOne \/ AiStop \/ AiEnd PROVE MobAiInv'
  BY <1>10, AiStartStep, AiRestStep, AiEverybodyStep, AiOneStep, AiStopStep, AiEndStep
<1> QED BY <1>1, <1>2, <1>3, <1>4, <1>5, <1>6, <1>7, <1>8, <1>9, <1>10, Zenon DEF MobAiNext

\* The list is made anew when nobody is left over, and only then.
LEMMA StepHears ==
    MobAiInv /\ [MobAiNext]_mobAiVars =>
        [think.phase = "rest" /\ think'.phase = "list" => unheard = {}]_mobAiVars
<1> SUFFICES ASSUME MobAiInv, MobAiNext, think.phase = "rest", think'.phase = "list"
             PROVE  unheard = {}
  OBVIOUS
<1>1. think \in ThinkData
  BY DEF MobAiInv, Thinks
<1>2. think' # think
  OBVIOUS
<1>3. ~Does
  <2>1. SUFFICES ASSUME Does PROVE FALSE
    OBVIOUS
  <2> QED BY <2>1, DoesSame DEF Same
<1>4. ASSUME NEW p, NEW s, CharacterEnters(p, s) \/ CharacterLeaves(p) PROVE FALSE
  BY <1>2, <1>3, <1>4 DEF CharacterEnters, CharacterLeaves
<1>5. ASSUME NEW u, NEW s, WalkStep(u, s) \/ Movepos(u, s) PROVE FALSE
  BY <1>2, <1>3, <1>5 DEF WalkStep, Movepos
<1>6. ASSUME NEW m, NEW s, MobSpawn(m, s) \/ Summon(m, s) \/ MobWarp(m, s) \/ MobLeaves(m) PROVE FALSE
  BY <1>3, <1>6 DEF MobSpawn, Summon, MobWarp, MobLeaves
<1>7. ~AiStart
  BY DEF AiStart, Idle
<1>8. ~AiRest
  BY <1>1 DEF AiRest, ThinkData
<1>9. ~AiOne /\ ~AiEnd
  BY DEF AiOne, AiEnd
<1>10. ~AiStop
  BY NotThinkingIs DEF AiStop
<1>11. AiEverybody
  BY <1>4, <1>5, <1>6, <1>7, <1>8, <1>9, <1>10, Zenon DEF MobAiNext
<1>12. nextIds = <<>> /\ Waits(think, nextIds, unheard)
  BY <1>11 DEF AiEverybody, MobAiInv
<1>13. \A m \in unheard : \E k \in 1..0 : nextIds[k] = m
  BY <1>12 DEF Waits
<1> QED BY <1>13

-----------------------------------------------------------------------------
(* The theorems                                                            *)

\* In every behaviour there are places on the list for the monsters with
\* somebody near, and who has not had its turn is still to come.
THEOREM MobAiInvariance == MobAiSpec => []MobAiInv
<1> QED BY InitInv, NextInv, PTL DEF MobAiSpec

\* The pointers of the list, the buffer and the ids left over hold what they
\* are declared to hold, and no count is below zero.
THEOREM MobAiTypeCorrect == MobAiSpec => []MobAiTypeOK
<1>1. MobAiInv => MobAiTypeOK
  BY InvType
<1> QED BY <1>1, MobAiInvariance, PTL

\* Each monster counts exactly the characters near it, and the list has those
\* with somebody near, on a map of any shape and with any sight.
THEOREM AiKnowsWhoIsNearHolds == MobAiSpec => []AiKnowsWhoIsNear
<1>1. MobAiInv => AiKnowsWhoIsNear
  BY CountsKnow DEF MobAiInv, Stand
<1> QED BY <1>1, MobAiInvariance, PTL

\* No monster that stays on the list misses its turn, however often the time
\* of mob_ai_hard is over.
THEOREM EveryMobThinksHolds == MobAiSpec => EveryMobThinks
<1>1. MobAiInv /\ [MobAiNext]_mobAiVars =>
        [think.phase = "rest" /\ think'.phase = "list" => unheard = {}]_mobAiVars
  BY StepHears
<1> QED BY <1>1, MobAiInvariance, PTL DEF MobAiSpec, EveryMobThinks


-----------------------------------------------------------------------------
(* Unit                                                                    *)

USE DEF None, UnitOf, KindOf

Slots == {"walk", "attack", "cast"}
Kinds == {"walk", "attack", "id", "pos"}

\* The functions of the timers of a slot.
KindsOf(slot) == IF slot = "cast" THEN {"id", "pos"} ELSE {slot}

Counts == 1..(MaxLives + 2)

-----------------------------------------------------------------------------
(* The invariant, unit by unit: d is its data, C are the timers that are   *)
(* set, and l is the number of lives begun again                           *)

\* What a unit holds is set, and is not of a life before.
Held(d, C, u) ==
    \A slot \in Slots : d[slot] # None =>
        /\ UnitOf(d[slot]) = u /\ KindOf(d[slot]) \in KindsOf(slot)
        /\ \E t \in C : /\ t.number = d[slot] /\ ~t.old
                        /\ slot = "walk" => t.step = d.pos /\ t.step < d.len

\* What is set of this life is held.
Owned(d, C, u) ==
    \A t \in C : UnitOf(t.number) = u /\ ~t.old => \E slot \in Slots : d[slot] = t.number

\* Of each function no more than one timer is left of each life.
OldOnes(C, u, kind) == {i \in Counts : \E t \in C : t.number = <<u, kind, i>> /\ t.old}
FewOld(d, C, u, l) ==
    \A kind \in Kinds :
        Cardinality(OldOnes(C, u, kind)) <= l + (IF d.place = "gone" THEN 1 ELSE 0)

\* Who has left holds nothing.
Parted(d) == d.place = "gone" => \A slot \in Slots : d[slot] = None

Kept(d, C, u, l) == Held(d, C, u) /\ Owned(d, C, u) /\ FewOld(d, C, u, l) /\ Parted(d)

OneEach(C) == \A s, t \in C : s.number = t.number => s = t

\* Who casts is there, and the timer is that of the spell; a player stands
\* unless it has SA_FREECAST, and then it is slow for as long as it casts.
Calm(d, u) ==
    /\ d.cast # None => /\ d.place = "map" /\ ~d.dead /\ d.spell # "cancel"
                        /\ KindOf(d.cast) = CastendOf(d.spell)
    /\ u \in Players =>
          /\ d.cast # None /\ d.free = 0 => d.walk = None
          /\ d.speed = IF d.cast # None /\ d.free > 0 THEN Slow(d.base, d.free) ELSE d.base
          /\ d.cast # None /\ d.free > 0 => d.prev = d.base

World == [ud : [Folk -> UnitData], clock : SUBSET Clocked]

Timed(w, l) ==
    /\ w \in World /\ OneEach(w.clock)
    /\ \A u \in Folk : Kept(w.ud[u], w.clock, u, l)

Sound(w, l) == Timed(w, l) /\ \A u \in Folk : Calm(w.ud[u], u)

\* The unit u and the timers set have changed.
With(w, u, d, C) == [ud |-> [w.ud EXCEPT ![u] = d], clock |-> C]

-----------------------------------------------------------------------------
(* Numbers                                                                 *)

LEMMA NumberIsSome ==
    /\ \A u, kind, i : <<u, kind, i>> # None
    /\ \A n \in Numbers : n # None
    /\ \A n \in Numbers : UnitOf(n) \in Folk /\ KindOf(n) \in Kinds /\ n[3] \in Counts
    /\ \A n \in Numbers : n = <<UnitOf(n), KindOf(n), n[3]>>
    /\ \A u \in Folk, kind \in Kinds, i \in Counts :
          /\ <<u, kind, i>> \in Numbers
          /\ UnitOf(<<u, kind, i>>) = u /\ KindOf(<<u, kind, i>>) = kind
<1>1. \A u, kind, i : <<u, kind, i>> # None
  OBVIOUS
<1>2. \A n \in Numbers : \E u \in Folk, kind \in Kinds, i \in Counts : n = <<u, kind, i>>
  BY DEF Numbers, Kinds, Counts
<1>3. \A u \in Folk, kind \in Kinds, i \in Counts : <<u, kind, i>> \in Numbers
  BY DEF Numbers, Kinds, Counts
<1> QED BY <1>1, <1>2, <1>3

LEMMA OldOnesFinite ==
    ASSUME NEW C, NEW D, NEW u, NEW kind, OldOnes(D, u, kind) \subseteq OldOnes(C, u, kind)
    PROVE  /\ IsFiniteSet(OldOnes(C, u, kind)) /\ Cardinality(OldOnes(C, u, kind)) \in Nat
           /\ Cardinality(OldOnes(D, u, kind)) \in Nat
           /\ Cardinality(OldOnes(D, u, kind)) <= Cardinality(OldOnes(C, u, kind))
<1>1. IsFiniteSet(Counts)
  BY FS_Interval, UnitAssumption DEF Counts
<1>2. OldOnes(C, u, kind) \subseteq Counts
  BY DEF OldOnes
<1>3. IsFiniteSet(OldOnes(C, u, kind))
  BY <1>1, <1>2, FS_Subset
<1> QED BY <1>3, FS_Subset, FS_CardinalityType

\* Among the timers C there is a lowest number that none of u's of this kind has.
HasFresh(C, u, kind) ==
    \E i \in Counts :
        /\ ~ \E t \in C : t.number = <<u, kind, i>>
        /\ \A j \in 1..(i - 1) : \E t \in C : t.number = <<u, kind, j>>

\* There is a number for a timer of a slot that is empty.
LEMMA FreshExists ==
    ASSUME NEW d \in UnitData, NEW C \in SUBSET Clocked, NEW u \in Folk, NEW l \in 0..MaxLives,
           Kept(d, C, u, l), NEW slot \in Slots, d[slot] = None, NEW kind \in KindsOf(slot)
    PROVE  HasFresh(C, u, kind)
<1> DEFINE F == {i \in Counts : ~ \E t \in C : t.number = <<u, kind, i>>}
<1>1. kind \in Kinds
  BY DEF KindsOf, Slots, Kinds
<1>2. ASSUME NEW t \in C, NEW i \in Counts, t.number = <<u, kind, i>> PROVE t.old
  <2>1. SUFFICES ASSUME ~t.old PROVE FALSE
    BY <1>2 DEF Clocked
  <2>2. PICK s \in Slots : d[s] = t.number
    BY <2>1, <1>2 DEF Kept, Owned
  <2>3. KindOf(d[s]) \in KindsOf(s)
    BY <2>2, <1>2, NumberIsSome DEF Kept, Held
  <2>4. s = slot
    BY <2>2, <2>3, <1>2 DEF KindsOf, Slots
  <2> QED BY <2>2, <2>4, <1>2, NumberIsSome
<1>3. F # {}
  <2>1. SUFFICES ASSUME F = {} PROVE FALSE
    OBVIOUS
  <2>2. OldOnes(C, u, kind) = 1..(MaxLives + 2)
    BY <2>1, <1>2 DEF OldOnes, Counts
  <2>3. Cardinality(1..(MaxLives + 2)) = MaxLives + 2
    BY FS_Interval, UnitAssumption
  <2>4. Cardinality(OldOnes(C, u, kind)) <= l + 1
    BY <1>1, OldOnesFinite, UnitAssumption DEF Kept, FewOld
  <2> QED BY <2>2, <2>3, <2>4, UnitAssumption
<1>4. PICK i \in F : \A j \in F : i <= j
  <2>1. F \in SUBSET Nat
    BY UnitAssumption DEF Counts
  <2> HIDE DEF F
  <2> QED BY <1>3, <2>1, LeastExists
<1>5. \A j \in 1..(i - 1) : j \in Counts /\ ~(i <= j)
  BY <1>4, UnitAssumption DEF Counts
<1> QED BY <1>4, <1>5 DEF HasFresh

-----------------------------------------------------------------------------
(* One unit, when timers are set and taken down                            *)

\* Timers of others do not matter to a unit, nor what else is in its data.
LEMMA SameTimers ==
    ASSUME NEW d \in UnitData, NEW C \in SUBSET Clocked, NEW D \in SUBSET Clocked,
           NEW u \in Folk, NEW l \in Nat, Kept(d, C, u, l), NEW e \in UnitData,
           \A t \in Clocked : UnitOf(t.number) = u => (t \in C <=> t \in D),
           \A slot \in Slots : e[slot] = d[slot],
           d.walk # None => e.pos = d.pos /\ e.len = d.len,
           e.place = "gone" <=> d.place = "gone"
    PROVE  Kept(e, D, u, l)
<1>1. Held(e, D, u)
  <2>1. SUFFICES ASSUME NEW slot \in Slots, e[slot] # None
                 PROVE  /\ UnitOf(e[slot]) = u /\ KindOf(e[slot]) \in KindsOf(slot)
                        /\ \E t \in D : /\ t.number = e[slot] /\ ~t.old
                                        /\ slot = "walk" => t.step = e.pos /\ t.step < e.len
    BY DEF Held
  <2>2. d[slot] = e[slot] /\ (slot = "walk" => e.pos = d.pos /\ e.len = d.len)
    BY <2>1
  <2>3. PICK t \in C : /\ t.number = d[slot] /\ ~t.old
                       /\ slot = "walk" => t.step = d.pos /\ t.step < d.len
    BY <2>1, <2>2 DEF Kept, Held
  <2>4. UnitOf(d[slot]) = u /\ KindOf(d[slot]) \in KindsOf(slot)
    BY <2>1, <2>2 DEF Kept, Held
  <2>5. t \in D
    BY <2>3, <2>4
  <2> QED BY <2>2, <2>3, <2>4, <2>5
<1>2. Owned(e, D, u)
  BY DEF Kept, Owned
<1>3. FewOld(e, D, u, l)
  <2>1. ASSUME NEW kind \in Kinds PROVE OldOnes(D, u, kind) = OldOnes(C, u, kind)
    <3>1. \A t \in Clocked, i \in Counts :
             t.number = <<u, kind, i>> => (t \in C <=> t \in D)
      OBVIOUS
    <3> QED BY <3>1 DEF OldOnes
  <2> QED BY <2>1 DEF Kept, FewOld
<1>4. Parted(e)
  BY DEF Kept, Parted
<1> QED BY <1>1, <1>2, <1>3, <1>4 DEF Kept

\* A unit lets go of a timer, and the timer is taken down.
LEMMA DropOne ==
    ASSUME NEW d \in UnitData, NEW C \in SUBSET Clocked, NEW D \in SUBSET C,
           NEW u \in Folk, NEW l \in Nat, Kept(d, C, u, l), NEW e \in UnitData,
           NEW slot \in Slots, e[slot] = None,
           \A t \in C : UnitOf(t.number) = u => (t \in D <=> t.number # d[slot]),
           \A s \in Slots \ {slot} : e[s] = d[s],
           e.walk # None => e.pos = d.pos /\ e.len = d.len,
           e.place = "gone" <=> d.place = "gone"
    PROVE  Kept(e, D, u, l)
<1>1. Held(e, D, u)
  <2>1. SUFFICES ASSUME NEW s \in Slots, e[s] # None
                 PROVE  /\ UnitOf(e[s]) = u /\ KindOf(e[s]) \in KindsOf(s)
                        /\ \E t \in D : /\ t.number = e[s] /\ ~t.old
                                        /\ s = "walk" => t.step = e.pos /\ t.step < e.len
    BY DEF Held
  <2>2. s # slot /\ d[s] = e[s] /\ (s = "walk" => e.pos = d.pos /\ e.len = d.len)
    BY <2>1
  <2>3. PICK t \in C : /\ t.number = d[s] /\ ~t.old
                       /\ s = "walk" => t.step = d.pos /\ t.step < d.len
    BY <2>1, <2>2 DEF Kept, Held
  <2>4. UnitOf(d[s]) = u /\ KindOf(d[s]) \in KindsOf(s)
    BY <2>1, <2>2 DEF Kept, Held
  <2>5. d[slot] # None => KindOf(d[slot]) \in KindsOf(slot)
    BY DEF Kept, Held
  <2>6. d[slot] # d[s]
    BY <2>1, <2>2, <2>4, <2>5 DEF KindsOf, Slots
  <2> QED BY <2>2, <2>3, <2>4, <2>6
<1>2. Owned(e, D, u)
  BY DEF Kept, Owned
<1>3. FewOld(e, D, u, l)
  <2>1. ASSUME NEW kind \in Kinds
        PROVE  Cardinality(OldOnes(D, u, kind)) <= Cardinality(OldOnes(C, u, kind))
               /\ Cardinality(OldOnes(D, u, kind)) \in Nat
               /\ Cardinality(OldOnes(C, u, kind)) \in Nat
    <3>1. OldOnes(D, u, kind) \subseteq OldOnes(C, u, kind)
      BY DEF OldOnes
    <3> QED BY <3>1, OldOnesFinite
  <2> QED BY <2>1 DEF Kept, FewOld
<1>4. Parted(e)
  BY DEF Kept, Parted
<1> QED BY <1>1, <1>2, <1>3, <1>4 DEF Kept

\* A timer is set, and the unit keeps its number.
LEMMA ArmOne ==
    ASSUME NEW d \in UnitData, NEW C \in SUBSET Clocked, NEW u \in Folk, NEW l \in Nat,
           Kept(d, C, u, l), d.place # "gone",
           NEW slot \in Slots, d[slot] = None, NEW kind \in KindsOf(slot),
           NEW i \in Counts, NEW step \in Nat, slot = "walk" => step = d.pos /\ step < d.len
    PROVE  /\ [d EXCEPT ![slot] = <<u, kind, i>>] \in UnitData
           /\ C \cup {[number |-> <<u, kind, i>>, step |-> step, old |-> FALSE]}
                  \in SUBSET Clocked
           /\ Kept([d EXCEPT ![slot] = <<u, kind, i>>],
                   C \cup {[number |-> <<u, kind, i>>, step |-> step, old |-> FALSE]}, u, l)
<1> SUFFICES ASSUME NEW D, NEW e, e = [d EXCEPT ![slot] = <<u, kind, i>>],
                    D = C \cup {[number |-> <<u, kind, i>>, step |-> step, old |-> FALSE]}
             PROVE  e \in UnitData /\ D \in SUBSET Clocked /\ Kept(e, D, u, l)
  OBVIOUS
<1> DEFINE t0 == [number |-> <<u, kind, i>>, step |-> step, old |-> FALSE]
<1>1. kind \in Kinds /\ <<u, kind, i>> \in Numbers /\ <<u, kind, i>> # None
      /\ UnitOf(<<u, kind, i>>) = u /\ KindOf(<<u, kind, i>>) = kind
  BY NumberIsSome DEF KindsOf, Kinds, Slots
<1>2. e \in UnitData
  BY <1>1 DEF UnitData, Slots
<1>3. D \in SUBSET Clocked
  <2>1. t0 \in Clocked
    BY <1>1 DEF Clocked
  <2> QED BY <2>1
<1>4. e[slot] = <<u, kind, i>> /\ \A s \in Slots \ {slot} : e[s] = d[s]
  BY DEF UnitData, Slots
<1>5. e.pos = d.pos /\ e.len = d.len /\ e.place = d.place
  BY DEF UnitData, Slots
<1>6. Held(e, D, u)
  <2>1. SUFFICES ASSUME NEW s \in Slots, e[s] # None
                 PROVE  /\ UnitOf(e[s]) = u /\ KindOf(e[s]) \in KindsOf(s)
                        /\ \E t \in D : /\ t.number = e[s] /\ ~t.old
                                        /\ s = "walk" => t.step = e.pos /\ t.step < e.len
    BY DEF Held
  <2>2. CASE s = slot
    <3>1. t0 \in D /\ t0.number = e[s] /\ ~t0.old
          /\ (s = "walk" => t0.step = e.pos /\ t0.step < e.len)
      BY <2>2, <1>4, <1>5
    <3> QED BY <3>1, <2>2, <1>1, <1>4
  <2>3. CASE s # slot
    <3>1. PICK t \in C : /\ t.number = d[s] /\ ~t.old
                         /\ s = "walk" => t.step = d.pos /\ t.step < d.len
      BY <2>1, <2>3, <1>4 DEF Kept, Held
    <3>2. UnitOf(d[s]) = u /\ KindOf(d[s]) \in KindsOf(s)
      BY <2>1, <2>3, <1>4 DEF Kept, Held
    <3> QED BY <2>3, <3>1, <3>2, <1>4, <1>5
  <2> QED BY <2>2, <2>3
<1>7. Owned(e, D, u)
  <2>1. SUFFICES ASSUME NEW t \in D, UnitOf(t.number) = u, ~t.old
                 PROVE  \E s \in Slots : e[s] = t.number
    BY DEF Owned
  <2>2. CASE t \in C
    <3>1. PICK s \in Slots : d[s] = t.number
      BY <2>1, <2>2 DEF Kept, Owned
    <3>2. t.number # None
      BY <2>2, NumberIsSome DEF Clocked
    <3> QED BY <3>1, <3>2, <1>4
  <2>3. CASE t = t0
    BY <2>3, <1>4
  <2> QED BY <2>2, <2>3
<1>8. FewOld(e, D, u, l)
  <2>1. ASSUME NEW k \in Kinds PROVE OldOnes(D, u, k) = OldOnes(C, u, k)
    BY DEF OldOnes
  <2> QED BY <2>1, <1>5 DEF Kept, FewOld
<1>9. Parted(e)
  BY <1>5 DEF Parted
<1> QED BY <1>2, <1>3, <1>6, <1>7, <1>8, <1>9 DEF Kept

-----------------------------------------------------------------------------
(* The world, when one unit has changed                                    *)

LEMMA WithTimed ==
    ASSUME NEW l \in Nat, NEW w, Timed(w, l), NEW u \in Folk,
           NEW d \in UnitData, NEW D \in SUBSET Clocked, OneEach(D), Kept(d, D, u, l),
           \A t \in Clocked : UnitOf(t.number) # u => (t \in w.clock <=> t \in D)
    PROVE  Timed(With(w, u, d, D), l)
<1>1. w \in World
  BY DEF Timed
<1> DEFINE x == With(w, u, d, D)
<1>2. x \in World /\ x.clock = D /\ x.ud[u] = d /\ \A v \in Folk \ {u} : x.ud[v] = w.ud[v]
  BY <1>1 DEF World, With
<1>3. ASSUME NEW v \in Folk, v # u PROVE Kept(x.ud[v], x.clock, v, l)
  <2>1. w.ud[v] \in UnitData /\ w.clock \in SUBSET Clocked
    BY <1>1 DEF World
  <2>2. Kept(w.ud[v], w.clock, v, l)
    BY DEF Timed
  <2>3. \A t \in Clocked : UnitOf(t.number) = v => (t \in w.clock <=> t \in D)
    BY <1>3
  <2>4. Kept(w.ud[v], D, v, l)
    BY <2>1, <2>2, <2>3, SameTimers
  <2> QED BY <1>2, <1>3, <2>4
<1> HIDE DEF x
<1>4. Timed(x, l)
  BY <1>2, <1>3 DEF Timed
<1> QED BY <1>4 DEF x

LEMMA WithSound ==
    ASSUME NEW l \in Nat, NEW w, Sound(w, l), NEW u \in Folk,
           NEW d \in UnitData, NEW D, Timed(With(w, u, d, D), l), Calm(d, u)
    PROVE  Sound(With(w, u, d, D), l)
<1>1. w \in World
  BY DEF Timed, Sound
<1>2. With(w, u, d, D).ud[u] = d /\ \A v \in Folk \ {u} : With(w, u, d, D).ud[v] = w.ud[v]
  BY <1>1 DEF World, With
<1>3. ASSUME NEW v \in Folk PROVE Calm(With(w, u, d, D).ud[v], v)
  BY <1>2 DEF Sound
<1> QED BY <1>3 DEF Sound

\* Something of a unit changes that has nothing to do with timers.
LEMMA ChangeTimed ==
    ASSUME NEW l \in Nat, NEW w, Timed(w, l), NEW u \in Folk, NEW e \in UnitData,
           \A slot \in Slots : e[slot] = w.ud[u][slot],
           w.ud[u].walk # None => e.pos = w.ud[u].pos /\ e.len = w.ud[u].len,
           e.place = "gone" <=> w.ud[u].place = "gone"
    PROVE  Timed(With(w, u, e, w.clock), l)
<1>1. w.ud[u] \in UnitData /\ w.clock \in SUBSET Clocked /\ OneEach(w.clock)
      /\ Kept(w.ud[u], w.clock, u, l)
  BY DEF Timed, World
<1>2. Kept(e, w.clock, u, l)
  BY <1>1, SameTimers
<1> QED BY <1>1, <1>2, WithTimed

LEMMA ChangeSound ==
    ASSUME NEW l \in Nat, NEW w, Sound(w, l), NEW u \in Folk, NEW e \in UnitData, Calm(e, u),
           \A slot \in Slots : e[slot] = w.ud[u][slot],
           w.ud[u].walk # None => e.pos = w.ud[u].pos /\ e.len = w.ud[u].len,
           e.place = "gone" <=> w.ud[u].place = "gone"
    PROVE  Sound(With(w, u, e, w.clock), l)
<1>1. Timed(With(w, u, e, w.clock), l)
  BY ChangeTimed DEF Sound
<1> QED BY <1>1, WithSound

\* The timers when that of a slot is taken down.
Less(w, u, slot) ==
    IF w.ud[u][slot] = None THEN w.clock ELSE Without(w.clock, {w.ud[u][slot]})

LEMMA LessFacts ==
    ASSUME NEW l \in Nat, NEW w, Timed(w, l), NEW u \in Folk, NEW slot \in Slots
    PROVE  /\ Less(w, u, slot) \in SUBSET w.clock /\ OneEach(Less(w, u, slot))
           /\ \A t \in w.clock : t \in Less(w, u, slot) <=> t.number # w.ud[u][slot]
           /\ \A t \in Clocked : UnitOf(t.number) # u =>
                 (t \in w.clock <=> t \in Less(w, u, slot))
<1>1. w.clock \in SUBSET Clocked /\ OneEach(w.clock) /\ Kept(w.ud[u], w.clock, u, l)
  BY DEF Timed, Sound, World
<1>2. w.ud[u][slot] # None => UnitOf(w.ud[u][slot]) = u
  BY <1>1 DEF Kept, Held
<1>3. \A t \in w.clock : t.number # None
  BY <1>1, NumberIsSome DEF Clocked
<1>4. \A t \in w.clock : t \in Less(w, u, slot) <=> t.number # w.ud[u][slot]
  BY <1>3 DEF Less, Without
<1>5. Less(w, u, slot) \in SUBSET w.clock
  BY DEF Less, Without
<1>6. OneEach(Less(w, u, slot))
  BY <1>1, <1>5 DEF OneEach
<1>7. ASSUME NEW t \in Clocked, UnitOf(t.number) # u
      PROVE  t \in w.clock <=> t \in Less(w, u, slot)
  <2>1. CASE w.ud[u][slot] = None
    BY <2>1 DEF Less
  <2>2. CASE w.ud[u][slot] # None
    BY <2>2, <1>2, <1>4, <1>5, <1>7
  <2> QED BY <2>1, <2>2
<1> QED BY <1>4, <1>5, <1>6, <1>7

LEMMA DropTimed ==
    ASSUME NEW l \in Nat, NEW w, Timed(w, l), NEW u \in Folk, NEW slot \in Slots,
           NEW e \in UnitData, e[slot] = None,
           \A s \in Slots \ {slot} : e[s] = w.ud[u][s],
           e.walk # None => e.pos = w.ud[u].pos /\ e.len = w.ud[u].len,
           e.place = "gone" <=> w.ud[u].place = "gone"
    PROVE  /\ Less(w, u, slot) \in SUBSET Clocked
           /\ Timed(With(w, u, e, Less(w, u, slot)), l)
<1> DEFINE D == Less(w, u, slot)
<1>1. w.ud[u] \in UnitData /\ w.clock \in SUBSET Clocked /\ Kept(w.ud[u], w.clock, u, l)
  BY DEF Timed, World
<1>2. /\ D \in SUBSET w.clock /\ OneEach(D)
      /\ \A t \in w.clock : t \in D <=> t.number # w.ud[u][slot]
      /\ \A t \in Clocked : UnitOf(t.number) # u => (t \in w.clock <=> t \in D)
  BY LessFacts
<1> DEFINE d == w.ud[u]
           C == w.clock
<1> HIDE DEF D
<1>3. Kept(e, D, u, l)
  <2>1. d \in UnitData /\ C \in SUBSET Clocked /\ D \in SUBSET C /\ Kept(d, C, u, l)
        /\ (\A t \in C : UnitOf(t.number) = u => (t \in D <=> t.number # d[slot]))
        /\ (\A s \in Slots \ {slot} : e[s] = d[s])
        /\ (e.walk # None => e.pos = d.pos /\ e.len = d.len)
        /\ (e.place = "gone" <=> d.place = "gone")
    BY <1>1, <1>2
  <2> HIDE DEF d, C
  <2> QED BY <2>1, DropOne
<1>4. D \in SUBSET Clocked
  BY <1>1, <1>2
<1>5. Timed(With(w, u, e, D), l)
  BY <1>2, <1>3, <1>4, WithTimed
<1> QED BY <1>4, <1>5 DEF D

LEMMA DropSound ==
    ASSUME NEW l \in Nat, NEW w, Sound(w, l), NEW u \in Folk, NEW slot \in Slots,
           NEW e \in UnitData, Calm(e, u), e[slot] = None,
           \A s \in Slots \ {slot} : e[s] = w.ud[u][s],
           e.walk # None => e.pos = w.ud[u].pos /\ e.len = w.ud[u].len,
           e.place = "gone" <=> w.ud[u].place = "gone"
    PROVE  /\ Less(w, u, slot) \in SUBSET Clocked
           /\ Sound(With(w, u, e, Less(w, u, slot)), l)
<1> DEFINE D == Less(w, u, slot)
<1>1. D \in SUBSET Clocked /\ Timed(With(w, u, e, D), l)
  BY DropTimed DEF Sound
<1> HIDE DEF D
<1>2. Sound(With(w, u, e, D), l)
  BY <1>1, WithSound
<1> QED BY <1>1, <1>2 DEF D

LEMMA TakeDownIs ==
    ASSUME NEW w \in World, NEW u \in Folk, NEW slot \in Slots, NEW kind,
           w.ud[u][slot] # None => KindOf(w.ud[u][slot]) = kind
    PROVE  TakeDown(w, u, slot, kind)
               = With(w, u, [w.ud[u] EXCEPT ![slot] = None], Less(w, u, slot))
<1>1. CASE w.ud[u][slot] = None
  <2>1. [w.ud[u] EXCEPT ![slot] = None] = w.ud[u]
    BY <1>1 DEF World, UnitData, Slots
  <2>2. With(w, u, w.ud[u], w.clock) = w
    BY DEF World, With
  <2> QED BY <1>1, <2>1, <2>2 DEF TakeDown, Less
<1>2. CASE w.ud[u][slot] # None
  BY <1>2 DEF TakeDown, With, Less, World
<1> QED BY <1>1, <1>2

-----------------------------------------------------------------------------
(* What only stops things                                                  *)

\* Of d no more is left than a part.
Stopped(d, e) ==
    /\ e.place = "gone" <=> d.place = "gone"
    /\ e.free = d.free
    /\ \A slot \in Slots : e[slot] \in {d[slot], None}

Eased(w, x) == \A v \in Folk : Stopped(w.ud[v], x.ud[v])

LEMMA EasedSelf ==
    ASSUME NEW w PROVE Eased(w, w)
BY DEF Eased, Stopped

LEMMA EasedTwice ==
    ASSUME NEW w, NEW x, NEW y, Eased(w, x), Eased(x, y) PROVE Eased(w, y)
BY DEF Eased, Stopped

LEMMA EasedWith ==
    ASSUME NEW w \in World, NEW u \in Folk, NEW e \in UnitData, Stopped(w.ud[u], e), NEW D
    PROVE  Eased(w, With(w, u, e, D))
BY DEF Eased, Stopped, With, World

NoWalk(d) == [d EXCEPT !.walk = None, !.pos = 0, !.len = 0]
NoAttack(d) == [d EXCEPT !.attack = None]
NoCast(d, u) ==
    [d EXCEPT !.cast = None,
              !.speed = IF u \in Players /\ d.free > 0 /\ d.cast # None THEN d.prev ELSE @]

LEMMA NoneTypes ==
    ASSUME NEW d \in UnitData, NEW u \in Folk
    PROVE  /\ NoWalk(d) \in UnitData /\ NoAttack(d) \in UnitData /\ NoCast(d, u) \in UnitData
           /\ Stopped(d, NoWalk(d)) /\ Stopped(d, NoAttack(d)) /\ Stopped(d, NoCast(d, u))
           /\ Calm(d, u) => /\ Calm(NoWalk(d), u) /\ Calm(NoAttack(d), u)
                            /\ Calm(NoCast(d, u), u)
<1>1. NoWalk(d) \in UnitData /\ Stopped(d, NoWalk(d))
  BY DEF UnitData, NoWalk, Stopped, Slots
<1>2. NoAttack(d) \in UnitData /\ Stopped(d, NoAttack(d))
  BY DEF UnitData, NoAttack, Stopped, Slots
<1>3. NoCast(d, u) \in UnitData /\ Stopped(d, NoCast(d, u))
  BY DEF UnitData, NoCast, Stopped, Slots
<1>4. Calm(d, u) => Calm(NoWalk(d), u)
  BY DEF Calm, UnitData, NoWalk
<1>5. Calm(d, u) => Calm(NoAttack(d), u)
  BY DEF Calm, UnitData, NoAttack
<1>6. Calm(d, u) => Calm(NoCast(d, u), u)
  BY DEF Calm, UnitData, NoCast
<1> QED BY <1>1, <1>2, <1>3, <1>4, <1>5, <1>6

LEMMA StopWalkingIs ==
    ASSUME NEW w \in World, NEW u \in Folk,
           w.ud[u].walk # None => KindOf(w.ud[u].walk) = "walk"
    PROVE  StopWalking(w, u) = With(w, u, NoWalk(w.ud[u]), Less(w, u, "walk"))
<1> DEFINE v == [w EXCEPT !.ud[u].len = 0, !.ud[u].pos = 0]
           d == [w.ud[u] EXCEPT !.len = 0, !.pos = 0]
<1>0. w.ud[u] \in UnitData
  BY DEF World
<1>1. w.ud[u] \in UnitData /\ d \in UnitData
  BY <1>0 DEF UnitData
<1>2. v = With(w, u, d, w.clock)
  <2>1. v.ud = [w.ud EXCEPT ![u] = d] /\ v.clock = w.clock
    BY DEF World, UnitData
  <2>2. v = [ud |-> v.ud, clock |-> v.clock]
    <3>1. w = [ud |-> w.ud, clock |-> w.clock]
      BY DEF World
    <3>2. DOMAIN v = DOMAIN w
      OBVIOUS
    <3>3. v = [i \in DOMAIN w |-> v[i]]
      BY <3>2
    <3>4. DOMAIN w = {"ud", "clock"}
      BY DEF World
    <3> HIDE DEF v
    <3> QED BY <3>3, <3>4
  <2> HIDE DEF v, d
  <2> QED BY <2>1, <2>2 DEF With
<1>3. v \in World /\ v.ud[u] = d /\ v.clock = w.clock /\ v.ud = [w.ud EXCEPT ![u] = d]
  BY <1>1, <1>2 DEF World, With
<1>4. d.walk = w.ud[u].walk /\ "walk" \in Slots
  BY <1>1 DEF UnitData, Slots
<1> HIDE DEF v
<1>5. TakeDown(v, u, "walk", "walk")
          = With(v, u, [v.ud[u] EXCEPT !["walk"] = None], Less(v, u, "walk"))
  <2>1. v \in World /\ "walk" \in Slots
        /\ (v.ud[u].walk # None => KindOf(v.ud[u].walk) = "walk")
    BY <1>3, <1>4
  <2> HIDE DEF d
  <2> QED BY <2>1, TakeDownIs
<1>6. [v.ud[u] EXCEPT !["walk"] = None] = NoWalk(w.ud[u])
  BY <1>1, <1>3 DEF NoWalk, UnitData
<1>7. Less(v, u, "walk") = Less(w, u, "walk")
  BY <1>3, <1>4, <1>1 DEF Less
<1>8. With(v, u, NoWalk(w.ud[u]), Less(w, u, "walk"))
          = With(w, u, NoWalk(w.ud[u]), Less(w, u, "walk"))
  BY <1>3 DEF With, World
<1> QED BY <1>5, <1>6, <1>7, <1>8 DEF StopWalking, v

LEMMA StopAttackIs ==
    ASSUME NEW w \in World, NEW u \in Folk,
           w.ud[u].attack # None => KindOf(w.ud[u].attack) = "attack"
    PROVE  StopAttack(w, u) = With(w, u, NoAttack(w.ud[u]), Less(w, u, "attack"))
<1>1. TakeDown(w, u, "attack", "attack")
          = With(w, u, [w.ud[u] EXCEPT !["attack"] = None], Less(w, u, "attack"))
  BY TakeDownIs DEF Slots
<1>2. [w.ud[u] EXCEPT !["attack"] = None] = NoAttack(w.ud[u])
  BY DEF NoAttack, World, UnitData
<1> QED BY <1>1, <1>2 DEF StopAttack

LEMMA CastCancelIs ==
    ASSUME NEW w \in World, NEW u \in Folk, NEW spell,
           w.ud[u].cast # None => KindOf(w.ud[u].cast) = CastendOf(spell)
    PROVE  CastCancel(w, u, spell) = With(w, u, NoCast(w.ud[u], u), Less(w, u, "cast"))
<1>1. w.ud[u] \in UnitData
  BY DEF World
<1>2. CASE w.ud[u].cast = None
  <2>1. NoCast(w.ud[u], u) = w.ud[u]
    BY <1>1, <1>2 DEF NoCast, UnitData
  <2>2. With(w, u, w.ud[u], w.clock) = w
    BY DEF World, With
  <2>3. Less(w, u, "cast") = w.clock
    BY <1>1, <1>2 DEF Less, UnitData
  <2> QED BY <1>2, <2>1, <2>2, <2>3 DEF CastCancel
<1>3. CASE w.ud[u].cast # None
  <2> DEFINE v == Quicken(w, u)
             d == [w.ud[u] EXCEPT !.speed = IF FreeCast(w, u) THEN w.ud[u].prev ELSE @]
  <2>1. d \in UnitData /\ d.cast = w.ud[u].cast
    BY <1>1 DEF UnitData
  <2>2. v = With(w, u, d, w.clock)
    <3>1. CASE FreeCast(w, u)
      BY <3>1 DEF Quicken, With, World
    <3>2. CASE ~FreeCast(w, u)
      <4>1. d = w.ud[u]
        BY <3>2, <1>1 DEF UnitData
      <4>2. With(w, u, w.ud[u], w.clock) = w
        BY DEF World, With
      <4> QED BY <3>2, <4>1, <4>2 DEF Quicken
    <3> QED BY <3>1, <3>2
  <2> HIDE DEF v
  <2>3. v \in World /\ v.ud[u] = d /\ v.clock = w.clock /\ v.ud = [w.ud EXCEPT ![u] = d]
    <3> HIDE DEF d
    <3> QED BY <2>1, <2>2 DEF World, With
  <2>4. TakeDown(v, u, "cast", CastendOf(spell))
            = With(v, u, [v.ud[u] EXCEPT !["cast"] = None], Less(v, u, "cast"))
    <3>1. v \in World /\ "cast" \in Slots
          /\ (v.ud[u].cast # None => KindOf(v.ud[u].cast) = CastendOf(spell))
      BY <2>1, <2>3 DEF Slots
    <3> HIDE DEF d
    <3> QED BY <3>1, TakeDownIs
  <2>5. [v.ud[u] EXCEPT !["cast"] = None] = NoCast(w.ud[u], u)
    BY <1>1, <1>3, <2>3 DEF NoCast, UnitData, FreeCast
  <2>6. Less(v, u, "cast") = Less(w, u, "cast")
    BY <2>1, <2>3, <1>1 DEF Less, UnitData
  <2>7. With(v, u, NoCast(w.ud[u], u), Less(w, u, "cast"))
            = With(w, u, NoCast(w.ud[u], u), Less(w, u, "cast"))
    BY <2>3 DEF With, World
  <2> QED BY <1>3, <2>4, <2>5, <2>6, <2>7 DEF CastCancel, v
<1> QED BY <1>2, <1>3

LEMMA SoundParts ==
    ASSUME NEW l \in Nat, NEW w, Sound(w, l), NEW u \in Folk
    PROVE  /\ w \in World /\ w.ud[u] \in UnitData /\ Calm(w.ud[u], u)
           /\ w.ud[u].walk # None => KindOf(w.ud[u].walk) = "walk"
           /\ w.ud[u].attack # None => KindOf(w.ud[u].attack) = "attack"
           /\ w.ud[u].cast # None => KindOf(w.ud[u].cast) = CastendOf(w.ud[u].spell)
<1>1. w \in World /\ w.ud[u] \in UnitData /\ Calm(w.ud[u], u) /\ Held(w.ud[u], w.clock, u)
  BY DEF Timed, Sound, World, Kept
<1>2. \A slot \in Slots : w.ud[u][slot] # None => KindOf(w.ud[u][slot]) \in KindsOf(slot)
  BY <1>1 DEF Held
<1>3. /\ w.ud[u]["walk"] # None => KindOf(w.ud[u]["walk"]) \in KindsOf("walk")
      /\ w.ud[u]["attack"] # None => KindOf(w.ud[u]["attack"]) \in KindsOf("attack")
  BY <1>2 DEF Slots
<1> QED BY <1>1, <1>3 DEF Calm, KindsOf

Good(w, x, l) == Sound(x, l) /\ Eased(w, x)

LEMMA GoodSelf ==
    ASSUME NEW l, NEW w, Sound(w, l) PROVE Good(w, w, l)
BY EasedSelf DEF Good

LEMMA GoodTwice ==
    ASSUME NEW l, NEW w, NEW x, NEW y, Good(w, x, l), Good(x, y, l) PROVE Good(w, y, l)
BY EasedTwice DEF Good

LEMMA StopWalkingGood ==
    ASSUME NEW l \in Nat, NEW w, Sound(w, l), NEW u \in Folk
    PROVE  /\ Good(w, StopWalking(w, u), l)
           /\ StopWalking(w, u).ud = [w.ud EXCEPT ![u] = NoWalk(w.ud[u])]
<1>1. /\ w \in World /\ w.ud[u] \in UnitData /\ Calm(w.ud[u], u)
      /\ w.ud[u].walk # None => KindOf(w.ud[u].walk) = "walk"
  BY SoundParts
<1> DEFINE e == NoWalk(w.ud[u])
<1>2. e \in UnitData /\ Stopped(w.ud[u], e) /\ Calm(e, u)
  BY <1>1, NoneTypes
<1>3. /\ e["walk"] = None /\ "walk" \in Slots
      /\ \A s \in Slots \ {"walk"} : e[s] = w.ud[u][s]
      /\ e.walk # None => e.pos = w.ud[u].pos /\ e.len = w.ud[u].len
      /\ e.place = "gone" <=> w.ud[u].place = "gone"
  BY <1>1 DEF NoWalk, UnitData, Slots
<1>4. StopWalking(w, u) = With(w, u, e, Less(w, u, "walk"))
  BY <1>1, StopWalkingIs
<1> HIDE DEF e
<1>5. Less(w, u, "walk") \in SUBSET Clocked /\ Sound(With(w, u, e, Less(w, u, "walk")), l)
  BY <1>2, <1>3, DropSound
<1>6. Eased(w, With(w, u, e, Less(w, u, "walk")))
  BY <1>1, <1>2, EasedWith
<1>7. StopWalking(w, u).ud = [w.ud EXCEPT ![u] = e]
  BY <1>4 DEF With
<1> QED BY <1>4, <1>5, <1>6, <1>7 DEF Good, e

LEMMA StopAttackGood ==
    ASSUME NEW l \in Nat, NEW w, Sound(w, l), NEW u \in Folk
    PROVE  /\ Good(w, StopAttack(w, u), l)
           /\ StopAttack(w, u).ud = [w.ud EXCEPT ![u] = NoAttack(w.ud[u])]
<1>1. /\ w \in World /\ w.ud[u] \in UnitData /\ Calm(w.ud[u], u)
      /\ w.ud[u].attack # None => KindOf(w.ud[u].attack) = "attack"
  BY SoundParts
<1> DEFINE e == NoAttack(w.ud[u])
<1>2. e \in UnitData /\ Stopped(w.ud[u], e) /\ Calm(e, u)
  BY <1>1, NoneTypes
<1>3. /\ e["attack"] = None /\ "attack" \in Slots
      /\ \A s \in Slots \ {"attack"} : e[s] = w.ud[u][s]
      /\ e.walk # None => e.pos = w.ud[u].pos /\ e.len = w.ud[u].len
      /\ e.place = "gone" <=> w.ud[u].place = "gone"
  BY <1>1 DEF NoAttack, UnitData, Slots
<1>4. StopAttack(w, u) = With(w, u, e, Less(w, u, "attack"))
  BY <1>1, StopAttackIs
<1> HIDE DEF e
<1>5. Less(w, u, "attack") \in SUBSET Clocked /\ Sound(With(w, u, e, Less(w, u, "attack")), l)
  BY <1>2, <1>3, DropSound
<1>6. Eased(w, With(w, u, e, Less(w, u, "attack")))
  BY <1>1, <1>2, EasedWith
<1>7. StopAttack(w, u).ud = [w.ud EXCEPT ![u] = e]
  BY <1>4 DEF With
<1> QED BY <1>4, <1>5, <1>6, <1>7 DEF Good, e

LEMMA CastCancelGood ==
    ASSUME NEW l \in Nat, NEW w, Sound(w, l), NEW u \in Folk
    PROVE  /\ Good(w, CastCancel(w, u, w.ud[u].spell), l)
           /\ CastCancel(w, u, w.ud[u].spell).ud = [w.ud EXCEPT ![u] = NoCast(w.ud[u], u)]
<1>1. /\ w \in World /\ w.ud[u] \in UnitData /\ Calm(w.ud[u], u)
      /\ w.ud[u].cast # None => KindOf(w.ud[u].cast) = CastendOf(w.ud[u].spell)
  BY SoundParts
<1> DEFINE e == NoCast(w.ud[u], u)
           spell == w.ud[u].spell
<1>2. e \in UnitData /\ Stopped(w.ud[u], e) /\ Calm(e, u)
  BY <1>1, NoneTypes
<1>3. /\ e["cast"] = None /\ "cast" \in Slots
      /\ \A s \in Slots \ {"cast"} : e[s] = w.ud[u][s]
      /\ e.walk # None => e.pos = w.ud[u].pos /\ e.len = w.ud[u].len
      /\ e.place = "gone" <=> w.ud[u].place = "gone"
  BY <1>1 DEF NoCast, UnitData, Slots
<1>4. CastCancel(w, u, spell) = With(w, u, e, Less(w, u, "cast"))
  <2>1. w.ud[u].cast # None => KindOf(w.ud[u].cast) = CastendOf(spell)
    BY <1>1
  <2> HIDE DEF spell
  <2> QED BY <1>1, <2>1, CastCancelIs
<1> HIDE DEF e
<1>5. Less(w, u, "cast") \in SUBSET Clocked /\ Sound(With(w, u, e, Less(w, u, "cast")), l)
  BY <1>2, <1>3, DropSound
<1>6. Eased(w, With(w, u, e, Less(w, u, "cast")))
  BY <1>1, <1>2, EasedWith
<1>7. CastCancel(w, u, spell).ud = [w.ud EXCEPT ![u] = e]
  BY <1>4 DEF With
<1> QED BY <1>4, <1>5, <1>6, <1>7 DEF Good, e

LEMMA StopAttacksOnGood ==
    ASSUME NEW l \in Nat, NEW w, Sound(w, l), NEW b \in Folk
    PROVE  Good(w, StopAttacksOn(w, b), l)
<1> DEFINE P == {p \in Players : w.ud[p].aim = b /\ w.ud[p].attack # None}
           N == {w.ud[p].attack : p \in P}
           D == Without(w.clock, N)
           x == StopAttacksOn(w, b)
<1>1. /\ x.clock = D
      /\ \A v \in Folk : x.ud[v] = IF v \in P THEN NoAttack(w.ud[v]) ELSE w.ud[v]
      /\ x = [ud |-> [v \in Folk |-> IF v \in P THEN NoAttack(w.ud[v]) ELSE w.ud[v]],
              clock |-> D]
  BY DEF StopAttacksOn, NoAttack
<1>2. w \in World /\ w.ud \in [Folk -> UnitData] /\ w.clock \in SUBSET Clocked
      /\ OneEach(w.clock)
  BY DEF Timed, Sound, World
<1>3. D \in SUBSET w.clock /\ D \in SUBSET Clocked
  BY <1>2 DEF Without
<1>4. ASSUME NEW p \in P PROVE p \in Folk /\ UnitOf(w.ud[p].attack) = p
  <2>1. p \in Folk /\ Held(w.ud[p], w.clock, p) /\ w.ud[p]["attack"] # None
    BY DEF Folk, Timed, Sound, Kept
  <2> QED BY <2>1 DEF Held, Slots
<1>5. \A v \in Folk : w.ud[v] \in UnitData /\ NoAttack(w.ud[v]) \in UnitData
                      /\ Stopped(w.ud[v], NoAttack(w.ud[v])) /\ Calm(NoAttack(w.ud[v]), v)
  BY <1>2, NoneTypes DEF Timed, Sound
<1>6. ASSUME NEW v \in Folk PROVE Kept(x.ud[v], D, v, l) /\ Calm(x.ud[v], v)
  <2> DEFINE d == w.ud[v]
             C == w.clock
             e == x.ud[v]
  <2>1. d \in UnitData /\ C \in SUBSET Clocked /\ Kept(d, C, v, l) /\ Calm(d, v)
    BY <1>2 DEF Timed, Sound
  <2>2. ASSUME NEW t \in C, UnitOf(t.number) = v, v \notin P PROVE t \in D
    BY <2>2, <1>4 DEF Without
  <2>3. CASE v \in P
    <3>1. ASSUME NEW t \in C, UnitOf(t.number) = v PROVE t \in D <=> t.number # d["attack"]
      BY <3>1, <2>3, <1>4 DEF Without
    <3>2. e = NoAttack(d) /\ e \in UnitData /\ Calm(e, v)
      BY <1>1, <1>5, <2>3
    <3>3. /\ e["attack"] = None /\ "attack" \in Slots
          /\ \A s \in Slots \ {"attack"} : e[s] = d[s]
          /\ e.walk # None => e.pos = d.pos /\ e.len = d.len
          /\ e.place = "gone" <=> d.place = "gone"
      <4> HIDE DEF d, e
      <4> QED BY <2>1, <3>2 DEF NoAttack, UnitData, Slots
    <3>4. D \in SUBSET C
      BY <1>3
    <3> HIDE DEF d, C, e, D
    <3>5. Kept(e, D, v, l)
      BY <2>1, <3>1, <3>2, <3>3, <3>4, DropOne
    <3> QED BY <3>2, <3>5 DEF e
  <2>4. CASE v \notin P
    <3>1. e = d
      BY <1>1, <2>4
    <3>2. \A t \in Clocked : UnitOf(t.number) = v => (t \in C <=> t \in D)
      BY <2>2, <2>4, <1>3
    <3>3. D \in SUBSET Clocked
      BY <1>3
    <3> HIDE DEF d, C, e, D
    <3>4. Kept(d, D, v, l)
      BY <2>1, <3>2, <3>3, SameTimers
    <3> QED BY <2>1, <3>1, <3>4 DEF e
  <2> QED BY <2>3, <2>4
<1>7. x \in World
  BY <1>1, <1>3, <1>5, <1>2 DEF World
<1>8. OneEach(D)
  BY <1>2, <1>3 DEF OneEach
<1>9. Eased(w, x)
  BY <1>1, <1>5, EasedSelf DEF Eased, Stopped
<1> HIDE DEF x, D
<1> QED BY <1>1, <1>6, <1>7, <1>8, <1>9 DEF Timed, Sound, Good, x

LEMMA ChangeGood ==
    ASSUME NEW l \in Nat, NEW w, Sound(w, l), NEW u \in Folk, NEW e \in UnitData, Calm(e, u),
           \A slot \in Slots : e[slot] = w.ud[u][slot],
           w.ud[u].walk # None => e.pos = w.ud[u].pos /\ e.len = w.ud[u].len,
           e.place = "gone" <=> w.ud[u].place = "gone", e.free = w.ud[u].free
    PROVE  /\ Good(w, With(w, u, e, w.clock), l)
           /\ With(w, u, e, w.clock).ud = [w.ud EXCEPT ![u] = e]
<1>1. Sound(With(w, u, e, w.clock), l)
  BY ChangeSound
<1>2. w \in World
  BY DEF Timed, Sound
<1>3. Stopped(w.ud[u], e)
  BY DEF Stopped
<1>4. Eased(w, With(w, u, e, w.clock))
  BY <1>2, <1>3, EasedWith
<1> QED BY <1>1, <1>4 DEF Good, With

LEMMA NothingLeft ==
    ASSUME NEW d \in UnitData, NEW u \in Folk
    PROVE  \A slot \in Slots : NoCast(NoAttack(NoWalk(d)), u)[slot] = None
<1>1. NoWalk(d) \in UnitData /\ NoWalk(d).walk = None
  BY NoneTypes DEF NoWalk, UnitData
<1>2. ASSUME NEW e \in UnitData
      PROVE  NoAttack(e) \in UnitData /\ NoAttack(e).attack = None
             /\ NoAttack(e).walk = e.walk
  BY NoneTypes DEF NoAttack, UnitData
<1>3. ASSUME NEW e \in UnitData
      PROVE  NoCast(e, u) \in UnitData /\ NoCast(e, u).cast = None
             /\ NoCast(e, u).walk = e.walk /\ NoCast(e, u).attack = e.attack
  <2>1. NoCast(e, u) \in UnitData
    BY NoneTypes
  <2> QED BY <2>1 DEF NoCast, UnitData
<1> DEFINE e == NoAttack(NoWalk(d))
<1>4. e \in UnitData /\ e.attack = None /\ e.walk = None
  BY <1>1, <1>2
<1> HIDE DEF e
<1>5. /\ NoCast(e, u) \in UnitData /\ NoCast(e, u).cast = None
      /\ NoCast(e, u).walk = None /\ NoCast(e, u).attack = None
  BY <1>3, <1>4
<1>6. ASSUME NEW f \in UnitData, f.walk = None, f.attack = None, f.cast = None
      PROVE  \A slot \in Slots : f[slot] = None
  BY <1>6 DEF Slots, UnitData
<1> DEFINE g == NoCast(e, u)
<1>7. g \in UnitData /\ g.walk = None /\ g.attack = None /\ g.cast = None
  BY <1>5
<1> HIDE DEF g
<1>8. \A slot \in Slots : g[slot] = None
  BY <1>6, <1>7
<1> QED BY <1>8, Zenon DEF g, e

LEMMA RemoveMapGood ==
    ASSUME NEW l \in Nat, NEW w, Sound(w, l), NEW u \in Folk
    PROVE  /\ Good(w, RemoveMap(w, u), l)
           /\ RemoveMap(w, u).ud[u].cast = None
           /\ w.ud[u].place = "map" => \A slot \in Slots : RemoveMap(w, u).ud[u][slot] = None
<1>1. CASE w.ud[u].place # "map"
  <2>1. RemoveMap(w, u) = w
    BY <1>1 DEF RemoveMap
  <2>2. w.ud[u].cast = None
    BY <1>1, SoundParts DEF Calm
  <2> QED BY <2>1, <2>2, <1>1, GoodSelf
<1>2. CASE w.ud[u].place = "map"
  <2> DEFINE a == StopWalking(w, u)
             b == StopAttack(a, u)
             v == CastCancel(b, u, w.ud[u].spell)
             x == IF u \in Beasts THEN StopAttacksOn(v, u) ELSE v
             e == [x.ud[u] EXCEPT !.place = "off"]
  <2>0. w \in World /\ w.ud \in [Folk -> UnitData]
    BY SoundParts DEF World
  <2>1. Good(w, a, l) /\ a.ud = [w.ud EXCEPT ![u] = NoWalk(w.ud[u])]
    BY StopWalkingGood
  <2>2. Good(a, b, l) /\ b.ud = [a.ud EXCEPT ![u] = NoAttack(a.ud[u])]
    <3> HIDE DEF a
    <3> QED BY <2>1, StopAttackGood DEF Good
  <2>3. b.ud[u] = NoAttack(NoWalk(w.ud[u])) /\ b.ud \in [Folk -> UnitData]
    <3>1. a.ud[u] = NoWalk(w.ud[u]) /\ a.ud \in [Folk -> UnitData]
      <4> HIDE DEF a
      <4> QED BY <2>0, <2>1, NoneTypes
    <3> HIDE DEF a, b
    <3> QED BY <2>2, <3>1, NoneTypes
  <2>4. b.ud[u].spell = w.ud[u].spell
    BY <2>0, <2>3 DEF NoAttack, NoWalk, UnitData
  <2>5. Good(b, v, l) /\ v.ud = [b.ud EXCEPT ![u] = NoCast(b.ud[u], u)]
    <3> HIDE DEF a, b
    <3>1. /\ Good(b, CastCancel(b, u, b.ud[u].spell), l)
          /\ CastCancel(b, u, b.ud[u].spell).ud = [b.ud EXCEPT ![u] = NoCast(b.ud[u], u)]
      <4>1. Sound(b, l)
        BY <2>2 DEF Good
      <4> QED BY <4>1, CastCancelGood
    <3> QED BY <3>1, <2>4
  <2>6. v.ud[u] = NoCast(NoAttack(NoWalk(w.ud[u])), u)
    <3> HIDE DEF a, b, v
    <3> QED BY <2>3, <2>5
  <2>7. \A slot \in Slots : v.ud[u][slot] = None
    <3> HIDE DEF v
    <3> QED BY <2>0, <2>6, NothingLeft
  <2>8. Good(v, x, l)
    <3> HIDE DEF v
    <3>1. Sound(v, l)
      BY <2>5 DEF Good
    <3> QED BY <3>1, StopAttacksOnGood, GoodSelf
  <2>9. Good(w, x, l)
    <3> HIDE DEF a, b, v, x
    <3>1. Good(w, b, l)
      BY <2>1, <2>2, GoodTwice
    <3>2. Good(w, v, l)
      BY <3>1, <2>5, GoodTwice
    <3> QED BY <3>2, <2>8, GoodTwice
  <2>10. \A slot \in Slots : x.ud[u][slot] = None
    <3> HIDE DEF v, x
    <3> QED BY <2>7, <2>8 DEF Good, Eased, Stopped
  <2>11. RemoveMap(w, u) = [x EXCEPT !.ud[u].place = "off"]
    BY <1>2 DEF RemoveMap
  <2> HIDE DEF x
  <2>12. /\ Sound(x, l) /\ x \in World /\ x.ud[u] \in UnitData /\ Calm(x.ud[u], u)
    BY <2>9, SoundParts DEF Good
  <2>13. [x EXCEPT !.ud[u].place = "off"] = With(x, u, e, x.clock)
    BY <2>12 DEF With, World
  <2>14. x.ud[u].walk = None /\ x.ud[u].attack = None /\ x.ud[u].cast = None
    BY <2>10, <2>12 DEF Slots
  <2>15. e \in UnitData /\ Calm(e, u) /\ (\A slot \in Slots : e[slot] = x.ud[u][slot])
         /\ e.free = x.ud[u].free /\ e.place = "off"
    <3>1. e \in UnitData
      BY <2>12 DEF UnitData
    <3>2. Calm(e, u)
      BY <2>12, <2>14 DEF UnitData, Calm
    <3> QED BY <3>1, <3>2, <2>12 DEF UnitData, Slots
  <2>16. w.ud[u].place # "gone" /\ x.ud[u].place # "gone"
    BY <1>2, <2>9 DEF Good, Eased, Stopped
  <2> HIDE DEF e
  <2>17. /\ Good(x, With(x, u, e, x.clock), l)
         /\ With(x, u, e, x.clock).ud = [x.ud EXCEPT ![u] = e]
    BY <2>12, <2>14, <2>15, <2>16, ChangeGood
  <2>18. Good(w, With(x, u, e, x.clock), l)
    BY <2>9, <2>17, GoodTwice
  <2>19. With(x, u, e, x.clock).ud[u] = e
    BY <2>12, <2>17 DEF World
  <2> QED BY <2>10, <2>11, <2>13, <2>14, <2>15, <2>18, <2>19 DEF Slots
<1> QED BY <1>1, <1>2

Recalced(d, base) ==
    LET slow == d.cast # None /\ d.free > 0 IN
    [d EXCEPT !.base = base, !.prev = IF slow THEN base ELSE @,
              !.speed = IF slow THEN Slow(base, d.free) ELSE base]

LEMMA SlowType ==
    ASSUME NEW s \in Nat, NEW n \in 0..20
    PROVE  Slow(s, n) \in Nat
<1>1. 175 - n * 5 \in Nat
  OBVIOUS
<1>2. \A a, b \in Nat : a * b \in Nat
  OBVIOUS
<1>3. s * (175 - n * 5) \in Nat
  BY <1>1, <1>2
<1>4. \A a \in Nat : a \div 100 \in Nat
  OBVIOUS
<1> QED BY <1>3, <1>4 DEF Slow

LEMMA StatusCalcIs ==
    ASSUME NEW w \in World, NEW p \in Players, NEW base \in Speeds
    PROVE  /\ StatusCalc(w, p, base) = With(w, p, Recalced(w.ud[p], base), w.clock)
           /\ Recalced(w.ud[p], base) \in UnitData
<1> DEFINE d == w.ud[p]
           e == Recalced(d, base)
           v == StatusCalc(w, p, base)
<1>0. d \in UnitData /\ p \in Folk
  BY DEF World, Folk
<1>1. d \in UnitData /\ p \in Folk /\ base \in Nat /\ d.free \in 0..20
  <2> HIDE DEF d
  <2>1. base \in Nat
    BY UnitAssumption
  <2>2. d.free \in 0..MaxFreeCast
    BY <1>0 DEF UnitData
  <2> QED BY <1>0, <2>1, <2>2, UnitAssumption
<1>2. e \in UnitData
  <2>1. Slow(base, d.free) \in Nat
    BY <1>1, SlowType
  <2> HIDE DEF d
  <2> QED BY <1>1, <2>1 DEF UnitData, Recalced
<1>3. v.ud = [w.ud EXCEPT ![p] = e] /\ v.clock = w.clock
  BY <1>1 DEF StatusCalc, FreeCast, Recalced, World, UnitData
<1>4. v = [ud |-> v.ud, clock |-> v.clock]
  <2>1. DOMAIN v = DOMAIN w /\ v = [i \in DOMAIN w |-> v[i]]
    BY DEF StatusCalc
  <2>2. DOMAIN w = {"ud", "clock"}
    BY DEF World
  <2> HIDE DEF v
  <2> QED BY <2>1, <2>2
<1> HIDE DEF v, e
<1>5. v = With(w, p, e, w.clock)
  BY <1>3, <1>4 DEF With
<1> QED BY <1>2, <1>5 DEF v, e

\* The status is worked out anew for a level that may have risen.
LEMMA RecalcedCalm ==
    ASSUME NEW d \in UnitData, NEW e \in UnitData, NEW p \in Players, NEW base \in Speeds,
           NEW more \in Nat, Calm(d, p), e = [d EXCEPT !.free = @ + more]
    PROVE  Calm(Recalced(e, base), p)
<1>1. /\ e.place = d.place /\ e.dead = d.dead /\ e.spell = d.spell /\ e.cast = d.cast
      /\ e.walk = d.walk /\ e.free = d.free + more /\ d.free \in Nat
  BY UnitAssumption DEF UnitData
<1> DEFINE f == Recalced(e, base)
<1>2. /\ f.place = e.place /\ f.dead = e.dead /\ f.spell = e.spell /\ f.cast = e.cast
      /\ f.walk = e.walk /\ f.free = e.free /\ f.base = base
      /\ f.speed = IF e.cast # None /\ e.free > 0 THEN Slow(base, e.free) ELSE base
      /\ e.cast # None /\ e.free > 0 => f.prev = base
  BY DEF UnitData, Recalced
<1> HIDE DEF f
<1>3. Calm(f, p)
  BY <1>1, <1>2 DEF Calm
<1> QED BY <1>3 DEF f

LEMMA StatusCalcGood ==
    ASSUME NEW l \in Nat, NEW w, Sound(w, l), NEW p \in Players, NEW base \in Speeds
    PROVE  /\ Good(w, StatusCalc(w, p, base), l)
           /\ StatusCalc(w, p, base).ud[p].cast = w.ud[p].cast
<1> DEFINE d == w.ud[p]
           e == Recalced(d, base)
<1>1. p \in Folk /\ w \in World /\ d \in UnitData /\ Calm(d, p)
  BY SoundParts DEF Folk
<1>2. e \in UnitData /\ StatusCalc(w, p, base) = With(w, p, e, w.clock)
  BY <1>1, StatusCalcIs
<1>3. Calm(e, p)
  <2>1. d = [d EXCEPT !.free = @ + 0]
    <3> HIDE DEF d
    <3> QED BY <1>1, UnitAssumption DEF UnitData
  <2> HIDE DEF d
  <2> QED BY <1>1, <2>1, RecalcedCalm
<1>4. /\ \A slot \in Slots : e[slot] = d[slot]
      /\ e.pos = d.pos /\ e.len = d.len /\ e.place = d.place /\ e.free = d.free
      /\ e.cast = d.cast
  <2> HIDE DEF d
  <2> QED BY <1>1 DEF Recalced, UnitData, Slots
<1> HIDE DEF e
<1>5. /\ Good(w, With(w, p, e, w.clock), l)
      /\ With(w, p, e, w.clock).ud = [w.ud EXCEPT ![p] = e]
  BY <1>1, <1>2, <1>3, <1>4, ChangeGood
<1> QED BY <1>1, <1>2, <1>4, <1>5 DEF World

LEMMA SetDead ==
    ASSUME NEW w \in World, NEW u \in Folk, NEW b
    PROVE  [w EXCEPT !.ud[u].dead = b]
               = With(w, u, [w.ud[u] EXCEPT !.dead = b], w.clock)
BY DEF With, World

LEMMA DiesGood ==
    ASSUME NEW l \in Nat, NEW w, Sound(w, l), NEW u \in Folk
    PROVE  Good(w, Dies(w, u), l)
<1> DEFINE a == StopWalking(w, u)
           x == CastCancel(a, u, w.ud[u].spell)
           v == IF u \in Players THEN StatusCalc(x, u, x.ud[u].base) ELSE RemoveMap(w, u)
<1>1. Good(w, v, l) /\ v.ud[u].cast = None
  <2>1. CASE u \in Players
    <3>1. Good(w, a, l) /\ a.ud = [w.ud EXCEPT ![u] = NoWalk(w.ud[u])]
      BY StopWalkingGood
    <3>2. w.ud \in [Folk -> UnitData]
      BY SoundParts DEF World
    <3>3. a.ud[u] \in UnitData /\ a.ud[u].spell = w.ud[u].spell
      <4> HIDE DEF a
      <4>1. a.ud[u] = NoWalk(w.ud[u])
        BY <3>1, <3>2
      <4>2. NoWalk(w.ud[u]).spell = w.ud[u].spell
        BY <3>2 DEF NoWalk, UnitData
      <4> QED BY <4>1, <4>2, <3>2, NoneTypes
    <3>4. Good(a, x, l) /\ x.ud = [a.ud EXCEPT ![u] = NoCast(a.ud[u], u)]
      <4> HIDE DEF a
      <4>1. Sound(a, l)
        BY <3>1 DEF Good
      <4>2. /\ Good(a, CastCancel(a, u, a.ud[u].spell), l)
            /\ CastCancel(a, u, a.ud[u].spell).ud = [a.ud EXCEPT ![u] = NoCast(a.ud[u], u)]
        BY <4>1, CastCancelGood
      <4> QED BY <4>2, <3>3
    <3> HIDE DEF a, x
    <3>5. Sound(x, l) /\ x \in World
      BY <3>4, SoundParts DEF Good
    <3>6. x.ud[u].cast = None /\ x.ud[u].base \in Speeds
      <4>1. x.ud[u] = NoCast(a.ud[u], u) /\ x.ud[u] \in UnitData
        <5>1. a.ud \in [Folk -> UnitData]
          BY <3>1, <3>2, NoneTypes
        <5> QED BY <3>4, <3>5, <5>1 DEF World
      <4> QED BY <4>1, <3>3 DEF NoCast, UnitData
    <3>7. Good(x, StatusCalc(x, u, x.ud[u].base), l)
          /\ StatusCalc(x, u, x.ud[u].base).ud[u].cast = None
      BY <2>1, <3>5, <3>6, StatusCalcGood
    <3>8. Good(w, StatusCalc(x, u, x.ud[u].base), l)
      BY <3>1, <3>4, <3>7, GoodTwice
    <3> QED BY <2>1, <3>7, <3>8
  <2>2. CASE u \notin Players
    BY <2>2, RemoveMapGood
  <2> QED BY <2>1, <2>2
<1>2. Dies(w, u) = [v EXCEPT !.ud[u].dead = TRUE]
  BY DEF Dies
<1> HIDE DEF v
<1> DEFINE d == v.ud[u]
           e == [d EXCEPT !.dead = TRUE]
<1>3. v \in World /\ d \in UnitData /\ Calm(d, u) /\ Sound(v, l)
  <2>1. Sound(v, l)
    BY <1>1 DEF Good
  <2> QED BY <2>1, SoundParts
<1>4. [v EXCEPT !.ud[u].dead = TRUE] = With(v, u, e, v.clock)
  <2>1. v \in World
    BY <1>3
  <2> QED BY <2>1, SetDead
<1>5. /\ e \in UnitData /\ e.cast = None
      /\ \A slot \in Slots : e[slot] = d[slot]
      /\ e.pos = d.pos /\ e.len = d.len /\ e.place = d.place /\ e.free = d.free
  <2>1. d.cast = None
    BY <1>1
  <2> HIDE DEF d
  <2> QED BY <1>3, <2>1 DEF UnitData, Slots
<1>6. Calm(e, u)
  <2>1. d.cast = None
    BY <1>1
  <2> HIDE DEF d
  <2> QED BY <1>3, <2>1 DEF UnitData, Calm
<1> HIDE DEF e
<1>7. Good(v, With(v, u, e, v.clock), l)
  BY <1>3, <1>5, <1>6, ChangeGood
<1> QED BY <1>1, <1>2, <1>4, <1>7, GoodTwice

\* A set of worlds each of which is w with less under way.
AllGood(w, W, l) == \A x \in W : Good(w, x, l)

LEMMA HurtsGood ==
    ASSUME NEW l \in Nat, NEW w, Sound(w, l), NEW u \in Folk
    PROVE  AllGood(w, Hurts(w, u), l)
<1>1. CASE ~Alive(w, u)
  BY <1>1, GoodSelf DEF AllGood, Hurts
<1>2. CASE Alive(w, u)
  <2>1. SUFFICES ASSUME NEW x \in {w, CastCancel(w, u, w.ud[u].spell)},
                        NEW y \in {x, StopWalking(x, u), Dies(x, u)}
                 PROVE  Good(w, y, l)
    BY <1>2 DEF AllGood, Hurts
  <2>2. Good(w, x, l)
    <3>1. Good(w, w, l)
      BY GoodSelf
    <3>2. Good(w, CastCancel(w, u, w.ud[u].spell), l)
      BY CastCancelGood
    <3> QED BY <3>1, <3>2
  <2>3. Sound(x, l)
    BY <2>2 DEF Good
  <2>4. Good(x, x, l) /\ Good(x, StopWalking(x, u), l) /\ Good(x, Dies(x, u), l)
    BY <2>3, GoodSelf, StopWalkingGood, DiesGood
  <2> QED BY <2>2, <2>4, GoodTwice
<1> QED BY <1>1, <1>2

LEMMA CastendGood ==
    ASSUME NEW l \in Nat, NEW w, Sound(w, l), NEW u \in Folk
    PROVE  AllGood(w, Castend(w, u), l) /\ AllGood(w, CastAtOnce(w, u), l)
<1>1. ASSUME NEW x, Sound(x, l) PROVE AllGood(x, Castend(x, u), l)
  <2>1. Good(x, x, l)
    BY <1>1, GoodSelf
  <2>2. Good(x, StopWalking(x, u), l)
    BY <1>1, StopWalkingGood
  <2> QED BY <2>1, <2>2 DEF AllGood, Castend
<1>2. ASSUME NEW x \in {w, StopAttack(w, u)}, NEW y \in Castend(x, u) PROVE Good(w, y, l)
  <2>1. Good(w, x, l) /\ Sound(x, l)
    <3>1. Good(w, w, l)
      BY GoodSelf
    <3>2. Good(w, StopAttack(w, u), l)
      BY StopAttackGood
    <3>3. Good(w, x, l)
      BY <3>1, <3>2
    <3> QED BY <3>3 DEF Good
  <2>2. Good(x, y, l)
    BY <1>1, <2>1 DEF AllGood
  <2> QED BY <2>1, <2>2, GoodTwice
<1> QED BY <1>1, <1>2 DEF AllGood, CastAtOnce

-----------------------------------------------------------------------------
(* What sets a timer                                                       *)

Holding(d, slot, n) == [d EXCEPT ![slot] = n]

LEMMA SetUpTimed ==
    ASSUME NEW l \in 0..MaxLives, NEW w, Timed(w, l), NEW u \in Folk,
           NEW slot \in Slots, w.ud[u][slot] = None, w.ud[u].place # "gone",
           NEW kind \in KindsOf(slot), NEW step \in Nat,
           slot = "walk" => step = w.ud[u].pos /\ step < w.ud[u].len
    PROVE  \E n \in Numbers : \E D :
              /\ KindOf(n) = kind
              /\ SetUp(w, u, slot, kind, step) = With(w, u, Holding(w.ud[u], slot, n), D)
              /\ Holding(w.ud[u], slot, n) \in UnitData
              /\ Timed(With(w, u, Holding(w.ud[u], slot, n), D), l)
<1> DEFINE d == w.ud[u]
           C == w.clock
           Free(i) == /\ <<u, kind, i>> \notin Taken(w)
                      /\ \A j \in 1..(i - 1) : <<u, kind, j>> \in Taken(w)
           i == CHOOSE i \in 1..(MaxLives + 2) : Free(i)
           n == <<u, kind, i>>
           t0 == [number |-> n, step |-> step, old |-> FALSE]
           D == C \cup {t0}
           e == [d EXCEPT ![slot] = n]
<1>1. d \in UnitData /\ C \in SUBSET Clocked /\ Kept(d, C, u, l) /\ OneEach(C) /\ w \in World
      /\ l \in Nat
  BY UnitAssumption DEF Timed, World
<1>2. i \in Counts /\ Free(i)
  <2>1. HasFresh(C, u, kind)
    <3>1. d[slot] = None
      OBVIOUS
    <3> HIDE DEF d, C
    <3> QED BY <1>1, <3>1, FreshExists, Zenon
  <2>2. \E j \in 1..(MaxLives + 2) : Free(j)
    BY <2>1 DEF HasFresh, Counts, Taken
  <2> HIDE DEF Free
  <2> QED BY <2>2 DEF Counts
<1>3. \A t \in C : t.number # n
  BY <1>2 DEF Taken
<1>4. SetUp(w, u, slot, kind, step) = With(w, u, e, D)
  <2>1. SetUp(w, u, slot, kind, step) = [w EXCEPT !.ud[u][slot] = n, !.clock = @ \cup {t0}]
    BY DEF SetUp
  <2> HIDE DEF i
  <2> DEFINE v == SetUp(w, u, slot, kind, step)
  <2>2. v.ud = [w.ud EXCEPT ![u] = e] /\ v.clock = D
    <3> HIDE DEF n, t0
    <3> QED BY <2>1, <1>1 DEF World
  <2>3. DOMAIN v = DOMAIN w /\ v = [j \in DOMAIN w |-> v[j]]
    <3> HIDE DEF n, t0
    <3> QED BY <2>1
  <2>4. DOMAIN w = {"ud", "clock"}
    BY <1>1 DEF World
  <2> HIDE DEF v, n, t0, D, e
  <2>5. v = [ud |-> v.ud, clock |-> v.clock]
    BY <2>3, <2>4
  <2>6. v = With(w, u, e, D)
    BY <2>2, <2>5 DEF With
  <2> QED BY <2>6 DEF v
<1>5. n \in Numbers /\ KindOf(n) = kind /\ UnitOf(n) = u
  <2>1. kind \in Kinds
    BY DEF KindsOf, Kinds, Slots
  <2> HIDE DEF i
  <2> QED BY <1>2, <2>1, NumberIsSome
<1> HIDE DEF Free
<1>6. e \in UnitData /\ D \in SUBSET Clocked /\ Kept(e, D, u, l)
  <2>1. /\ d.place # "gone" /\ d[slot] = None
        /\ slot = "walk" => step = d.pos /\ step < d.len
    OBVIOUS
  <2> HIDE DEF i, d, C
  <2> QED BY <1>1, <1>2, <2>1, ArmOne
<1>7. OneEach(D)
  <2>1. t0.number = n
    OBVIOUS
  <2> HIDE DEF n, t0
  <2> QED BY <1>1, <1>3, <2>1 DEF OneEach
<1>8. ASSUME NEW t \in Clocked, UnitOf(t.number) # u PROVE t \in w.clock <=> t \in D
  BY <1>5, <1>8
<1> HIDE DEF i, n, t0, D, e
<1>9. Timed(With(w, u, e, D), l)
  BY <1>1, <1>6, <1>7, <1>8, WithTimed
<1>10. e = Holding(w.ud[u], slot, n)
  BY DEF e, Holding
<1> QED BY <1>4, <1>5, <1>6, <1>9, <1>10

\* A world with other data of a unit and other timers, field by field.
LEMMA WithIs ==
    ASSUME NEW w \in World, NEW u, NEW e, NEW D,
           NEW v, DOMAIN v = DOMAIN w, v = [i \in DOMAIN w |-> v[i]],
           v.ud = [w.ud EXCEPT ![u] = e], v.clock = D
    PROVE  v = With(w, u, e, D)
<1>1. DOMAIN w = {"ud", "clock"}
  BY DEF World
<1>2. v = [ud |-> v.ud, clock |-> v.clock]
  BY <1>1
<1> QED BY <1>2 DEF With

\* What a unit needs that is to walk.
MayWalk(d, u) ==
    d.walk = None /\ d.place # "gone" /\ (u \in Players => d.cast = None \/ d.free > 0)

LEMMA StoppedMayWalk ==
    ASSUME NEW d \in UnitData, NEW e \in UnitData, NEW u \in Folk, MayWalk(d, u), Stopped(d, e)
    PROVE  MayWalk(e, u)
<1>1. /\ e["walk"] \in {d["walk"], None} /\ e["cast"] \in {d["cast"], None}
      /\ e.free = d.free /\ (e.place = "gone" <=> d.place = "gone")
  BY DEF Stopped, Slots
<1> QED BY <1>1 DEF MayWalk

LEMMA StepSound ==
    ASSUME NEW l \in 0..MaxLives, NEW w, Sound(w, l), NEW u \in Folk, MayWalk(w.ud[u], u),
           w.ud[u].pos < w.ud[u].len, NEW step, step = w.ud[u].pos
    PROVE  /\ Sound(SetUp(w, u, "walk", "walk", step), l)
           /\ SetUp(w, u, "walk", "walk", step).ud[u].attack = w.ud[u].attack
           /\ SetUp(w, u, "walk", "walk", step).ud[u].place = w.ud[u].place
<1> DEFINE d == w.ud[u]
           x == SetUp(w, u, "walk", "walk", step)
<1>1. d \in UnitData /\ Calm(d, u) /\ w \in World /\ Timed(w, l) /\ l \in Nat
  BY UnitAssumption DEF Timed, Sound, World
<1>2. step \in Nat /\ "walk" \in Slots /\ "walk" \in KindsOf("walk") /\ d["walk"] = None
      /\ d.place # "gone"
  BY <1>1 DEF UnitData, Slots, KindsOf, MayWalk
<1>3. PICK n \in Numbers : \E D :
              /\ KindOf(n) = "walk"
              /\ x = With(w, u, Holding(w.ud[u], "walk", n), D)
              /\ Holding(w.ud[u], "walk", n) \in UnitData
              /\ Timed(With(w, u, Holding(w.ud[u], "walk", n), D), l)
  BY <1>1, <1>2, SetUpTimed
<1>4. PICK D : /\ x = With(w, u, Holding(d, "walk", n), D)
               /\ Holding(d, "walk", n) \in UnitData
               /\ Timed(With(w, u, Holding(d, "walk", n), D), l)
  BY <1>3
<1> DEFINE e == Holding(d, "walk", n)
<1>5. Calm(e, u) /\ e.attack = d.attack /\ e.place = d.place
  <2>1. MayWalk(d, u)
    OBVIOUS
  <2> HIDE DEF d
  <2> QED BY <1>1, <2>1 DEF Calm, UnitData, MayWalk, Holding
<1> HIDE DEF e, x
<1>6. e \in UnitData /\ x = With(w, u, e, D) /\ Timed(With(w, u, e, D), l)
  BY <1>4 DEF e
<1>7. Sound(x, l)
  BY <1>1, <1>5, <1>6, WithSound
<1>8. x.ud[u] = e
  BY <1>1, <1>6 DEF With, World
<1> QED BY <1>5, <1>7, <1>8 DEF x

LEMMA PathIs ==
    ASSUME NEW w \in World, NEW u \in Folk, NEW len
    PROVE  [w EXCEPT !.ud[u].pos = 0, !.ud[u].len = len, !.ud[u].turn = FALSE]
               = With(w, u, [w.ud[u] EXCEPT !.pos = 0, !.len = len, !.turn = FALSE], w.clock)
<1> DEFINE v == [w EXCEPT !.ud[u].pos = 0, !.ud[u].len = len, !.ud[u].turn = FALSE]
<1>1. v.ud = [w.ud EXCEPT ![u] = [w.ud[u] EXCEPT !.pos = 0, !.len = len, !.turn = FALSE]]
      /\ v.clock = w.clock
  BY DEF World, UnitData
<1>2. DOMAIN v = DOMAIN w /\ v = [i \in DOMAIN w |-> v[i]]
  OBVIOUS
<1> HIDE DEF v
<1>3. v = With(w, u, [w.ud[u] EXCEPT !.pos = 0, !.len = len, !.turn = FALSE], w.clock)
  BY <1>1, <1>2, WithIs
<1> QED BY <1>3 DEF v

\* Each world of W is sound, and the unit's place and attack are as they were.
AllWalk(w, u, W, l) ==
    \A x \in W : /\ Sound(x, l) /\ x.ud[u].attack = w.ud[u].attack
                 /\ x.ud[u].place = w.ud[u].place

LEMMA WalktoxySubSound ==
    ASSUME NEW l \in 0..MaxLives, NEW w, Sound(w, l), NEW u \in Folk, MayWalk(w.ud[u], u)
    PROVE  AllWalk(w, u, WalktoxySub(w, u), l)
<1>1. SUFFICES ASSUME NEW len \in Lengths[u]
      PROVE  LET x == SetUp([w EXCEPT !.ud[u].pos = 0, !.ud[u].len = len,
                                      !.ud[u].turn = FALSE], u, "walk", "walk", 0) IN
             /\ Sound(x, l) /\ x.ud[u].attack = w.ud[u].attack
             /\ x.ud[u].place = w.ud[u].place
  BY DEF AllWalk, WalktoxySub
<1> DEFINE d == w.ud[u]
           v == [w EXCEPT !.ud[u].pos = 0, !.ud[u].len = len, !.ud[u].turn = FALSE]
           e == [d EXCEPT !.pos = 0, !.len = len, !.turn = FALSE]
<1>2. d \in UnitData /\ Calm(d, u) /\ w \in World /\ l \in Nat
  BY UnitAssumption DEF Timed, Sound, World
<1>3. len \in Nat \ {0}
  BY UnitAssumption
<1>4. v = With(w, u, e, w.clock)
  <2>1. w \in World
    BY <1>2
  <2> QED BY <2>1, PathIs, Zenon
<1>5. e \in UnitData /\ e.pos = 0 /\ e.len = len
  <2> HIDE DEF d
  <2> QED BY <1>2, <1>3 DEF UnitData
<1>6. /\ e.place = d.place /\ e.attack = d.attack /\ e.walk = d.walk /\ e.cast = d.cast
      /\ e.free = d.free /\ \A slot \in Slots : e[slot] = d[slot]
  <2> HIDE DEF d
  <2> QED BY <1>2 DEF UnitData, Slots
<1>7. Calm(e, u)
  <2> HIDE DEF d
  <2> QED BY <1>2 DEF Calm, UnitData
<1>8. MayWalk(e, u) /\ d.walk = None
  BY <1>6 DEF MayWalk
<1> HIDE DEF e, v
<1>9. Sound(v, l)
  BY <1>2, <1>4, <1>5, <1>6, <1>7, <1>8, ChangeSound
<1>10. v.ud[u] = e
  BY <1>2, <1>4 DEF With, World
<1>11. /\ Sound(SetUp(v, u, "walk", "walk", 0), l)
       /\ SetUp(v, u, "walk", "walk", 0).ud[u].attack = v.ud[u].attack
       /\ SetUp(v, u, "walk", "walk", 0).ud[u].place = v.ud[u].place
  BY <1>3, <1>5, <1>8, <1>9, <1>10, StepSound
<1> QED BY <1>6, <1>10, <1>11 DEF v

LEMMA SetTurn ==
    ASSUME NEW w \in World, NEW u \in Folk, NEW b
    PROVE  [w EXCEPT !.ud[u].turn = b]
               = With(w, u, [w.ud[u] EXCEPT !.turn = b], w.clock)
BY DEF With, World

LEMMA WalktoxySound ==
    ASSUME NEW l \in 0..MaxLives, NEW w, Sound(w, l), NEW u \in Folk,
           w.ud[u].place # "gone",
           u \in Players => w.ud[u].cast = None \/ w.ud[u].free > 0
    PROVE  AllWalk(w, u, Walktoxy(w, u), l)
<1> DEFINE d == w.ud[u]
           e == [d EXCEPT !.turn = TRUE]
<1>1. d \in UnitData /\ Calm(d, u) /\ w \in World /\ l \in Nat
  BY UnitAssumption DEF Timed, Sound, World
<1>2. AllWalk(w, u, {w}, l)
  BY DEF AllWalk
<1>3. CASE d.walk # None
  <2>1. [w EXCEPT !.ud[u].turn = TRUE] = With(w, u, e, w.clock)
    <3>1. w \in World
      BY <1>1
    <3> QED BY <3>1, SetTurn
  <2>2. /\ e \in UnitData /\ Calm(e, u) /\ (\A slot \in Slots : e[slot] = d[slot])
        /\ e.pos = d.pos /\ e.len = d.len /\ e.place = d.place /\ e.attack = d.attack
    <3> HIDE DEF d
    <3> QED BY <1>1 DEF UnitData, Slots, Calm
  <2> HIDE DEF e
  <2>3. Sound(With(w, u, e, w.clock), l)
    BY <1>1, <2>2, ChangeSound
  <2>4. With(w, u, e, w.clock).ud[u] = e
    BY <1>1 DEF With, World
  <2>5. AllWalk(w, u, {With(w, u, e, w.clock)}, l)
    BY <2>2, <2>3, <2>4 DEF AllWalk
  <2> QED BY <1>2, <1>3, <2>1, <2>5 DEF AllWalk, Walktoxy
<1>4. CASE d.walk = None
  <2>1. AllWalk(w, u, WalktoxySub(w, u), l)
    BY <1>4, WalktoxySubSound DEF MayWalk
  <2> QED BY <1>2, <1>4, <2>1 DEF AllWalk, Walktoxy
<1> QED BY <1>3, <1>4

LEMMA NextStepSound ==
    ASSUME NEW l \in 0..MaxLives, NEW w, Sound(w, l), NEW u \in Folk, MayWalk(w.ud[u], u)
    PROVE  AllWalk(w, u, NextStep(w, u), l)
<1>1. CASE w.ud[u].pos < w.ud[u].len
  <2> DEFINE x == SetUp(w, u, "walk", "walk", w.ud[u].pos)
  <2>1. Sound(x, l) /\ x.ud[u].attack = w.ud[u].attack /\ x.ud[u].place = w.ud[u].place
    BY <1>1, StepSound
  <2> HIDE DEF x
  <2>2. AllWalk(w, u, {x}, l)
    BY <2>1 DEF AllWalk
  <2> QED BY <1>1, <2>2 DEF NextStep, x
<1>2. CASE ~(w.ud[u].pos < w.ud[u].len)
  <2>1. AllWalk(w, u, {w}, l) /\ AllWalk(w, u, WalktoxySub(w, u), l)
    BY WalktoxySubSound DEF AllWalk
  <2> QED BY <1>2, <2>1 DEF NextStep, AllWalk
<1> QED BY <1>1, <1>2

LEMMA EnterCellSound ==
    ASSUME NEW l \in 0..MaxLives, NEW w, Sound(w, l), NEW u \in Folk, MayWalk(w.ud[u], u)
    PROVE  \A y \in EnterCell(w, u) : Sound(y, l)
<1>1. SUFFICES ASSUME NEW x, x \in {w, StopWalking(w, u), RemoveMap(w, u)},
                      NEW v, v = [x EXCEPT !.ud[u].pos = @ + 1],
                      NEW y, y \in (IF v.ud[u].turn THEN WalktoxySub(v, u) ELSE NextStep(v, u))
               PROVE  Sound(y, l)
  BY DEF EnterCell
<1>2. Good(w, x, l)
  <2>1. l \in Nat
    BY UnitAssumption
  <2>2. Good(w, w, l)
    BY GoodSelf
  <2>3. Good(w, StopWalking(w, u), l)
    BY <2>1, StopWalkingGood
  <2>4. Good(w, RemoveMap(w, u), l)
    BY <2>1, RemoveMapGood
  <2> QED BY <1>1, <2>2, <2>3, <2>4
<1> DEFINE d == x.ud[u]
           e == [d EXCEPT !.pos = @ + 1]
<1>3. Sound(x, l) /\ Stopped(w.ud[u], d)
  BY <1>2 DEF Good, Eased
<1>4. d \in UnitData /\ Calm(d, u) /\ x \in World /\ w.ud[u] \in UnitData /\ l \in Nat
  BY <1>3, UnitAssumption DEF Timed, Sound, World
<1>5. MayWalk(d, u)
  <2> HIDE DEF d
  <2> QED BY <1>3, <1>4, StoppedMayWalk
<1>6. v = With(x, u, e, x.clock)
  BY <1>1, <1>4 DEF World, With
<1>7. /\ e \in UnitData /\ Calm(e, u) /\ (\A slot \in Slots : e[slot] = d[slot])
      /\ e.place = d.place /\ e.walk = d.walk /\ e.cast = d.cast /\ e.free = d.free
  <2> HIDE DEF d
  <2>1. /\ e.place = d.place /\ e.walk = d.walk /\ e.cast = d.cast /\ e.free = d.free
        /\ \A slot \in Slots : e[slot] = d[slot]
    BY <1>4 DEF UnitData, Slots
  <2>2. e \in UnitData
    <3>1. d.pos + 1 \in Nat
      BY <1>4 DEF UnitData
    <3> QED BY <1>4, <3>1 DEF UnitData
  <2>3. Calm(e, u)
    BY <1>4 DEF UnitData, Calm
  <2> QED BY <2>1, <2>2, <2>3
<1>8. d.walk = None /\ MayWalk(e, u)
  BY <1>5, <1>7 DEF MayWalk
<1> HIDE DEF e
<1>9. Sound(v, l)
  <2>1. Sound(With(x, u, e, x.clock), l)
    BY <1>3, <1>4, <1>7, <1>8, ChangeSound
  <2> QED BY <1>6, <2>1
<1>10. v.ud[u] = e
  BY <1>4, <1>6 DEF With, World
<1>11. AllWalk(v, u, WalktoxySub(v, u), l) /\ AllWalk(v, u, NextStep(v, u), l)
  BY <1>8, <1>9, <1>10, WalktoxySubSound, NextStepSound
<1> QED BY <1>1, <1>11 DEF AllWalk

\* The timer n is read; the walk it was for, if it was for one, is not on.
LEMMA WalktoxyTimerSound ==
    ASSUME NEW l \in 0..MaxLives, NEW w, NEW n, NEW step,
           UnitOf(n) \in Folk,
           w.ud[UnitOf(n)].walk # n => Sound(w, l),
           w.ud[UnitOf(n)].walk = n => /\ Sound([w EXCEPT !.ud[UnitOf(n)].walk = None], l)
                                       /\ MayWalk([w EXCEPT !.ud[UnitOf(n)].walk = None]
                                                      .ud[UnitOf(n)], UnitOf(n))
    PROVE  \A y \in WalktoxyTimer(w, n, step) : Sound(y, l)
<1> DEFINE u == UnitOf(n)
           v == [w EXCEPT !.ud[u].walk = None]
<1>1. CASE w.ud[u].walk # n
  BY <1>1 DEF WalktoxyTimer
<1>2. CASE w.ud[u].walk = n
  <2>1. u \in Folk /\ Sound(v, l) /\ MayWalk(v.ud[u], u)
    BY <1>2
  <2>2. WalktoxyTimer(w, n, step) \subseteq {v} \cup NextStep(v, u) \cup EnterCell(v, u)
    BY <1>2 DEF WalktoxyTimer
  <2> HIDE DEF u, v
  <2>3. AllWalk(v, u, NextStep(v, u), l)
    BY <2>1, NextStepSound
  <2>4. \A y \in EnterCell(v, u) : Sound(y, l)
    BY <2>1, EnterCellSound
  <2> QED BY <2>1, <2>2, <2>3, <2>4 DEF AllWalk
<1> QED BY <1>1, <1>2

-----------------------------------------------------------------------------
(* Casts begin and end                                                     *)

LEMMA TimedSound ==
    ASSUME NEW l \in Nat, NEW w, Sound(w, l), NEW u \in Folk, NEW x, Timed(x, l), NEW f,
           x.ud = [w.ud EXCEPT ![u] = f], Calm(f, u)
    PROVE  Sound(x, l)
<1>1. w \in World
  BY DEF Timed, Sound
<1>2. x.ud[u] = f /\ \A v \in Folk \ {u} : x.ud[v] = w.ud[v]
  BY <1>1 DEF World
<1>3. ASSUME NEW v \in Folk PROVE Calm(x.ud[v], v)
  BY <1>2 DEF Sound
<1> QED BY <1>3 DEF Sound

LEMMA StopWalkingTimed ==
    ASSUME NEW l \in Nat, NEW w, Timed(w, l), NEW u \in Folk
    PROVE  /\ Timed(StopWalking(w, u), l)
           /\ StopWalking(w, u).ud = [w.ud EXCEPT ![u] = NoWalk(w.ud[u])]
<1>1. w \in World /\ w.ud[u] \in UnitData /\ Held(w.ud[u], w.clock, u)
  BY DEF Timed, World, Kept
<1>2. w.ud[u].walk # None => KindOf(w.ud[u].walk) = "walk"
  <2>1. w.ud[u]["walk"] # None => KindOf(w.ud[u]["walk"]) \in KindsOf("walk")
    BY <1>1 DEF Held, Slots
  <2> QED BY <2>1 DEF KindsOf
<1> DEFINE e == NoWalk(w.ud[u])
<1>3. StopWalking(w, u) = With(w, u, e, Less(w, u, "walk"))
  BY <1>1, <1>2, StopWalkingIs
<1>4. /\ e \in UnitData /\ e["walk"] = None /\ "walk" \in Slots
      /\ \A s \in Slots \ {"walk"} : e[s] = w.ud[u][s]
      /\ e.walk # None => e.pos = w.ud[u].pos /\ e.len = w.ud[u].len
      /\ e.place = "gone" <=> w.ud[u].place = "gone"
  BY <1>1, NoneTypes DEF NoWalk, UnitData, Slots
<1> HIDE DEF e
<1>5. Timed(With(w, u, e, Less(w, u, "walk")), l)
  BY <1>4, DropTimed
<1>6. With(w, u, e, Less(w, u, "walk")).ud = [w.ud EXCEPT ![u] = e]
  BY DEF With
<1> QED BY <1>3, <1>5, <1>6 DEF e

LEMMA SetSpell ==
    ASSUME NEW w \in World, NEW u \in Folk, NEW spell
    PROVE  [w EXCEPT !.ud[u].spell = spell]
               = With(w, u, [w.ud[u] EXCEPT !.spell = spell], w.clock)
BY DEF With, World

\* The attack is stopped and another skill is the last used.
Aimed(d, spell) == [NoAttack(d) EXCEPT !.spell = spell]

LEMMA SpellTimed ==
    ASSUME NEW l \in Nat, NEW w, Sound(w, l), NEW u \in Folk, NEW spell \in Spells,
           NEW v, v = [StopAttack(w, u) EXCEPT !.ud[u].spell = spell]
    PROVE  /\ Timed(v, l) /\ v.ud = [w.ud EXCEPT ![u] = Aimed(w.ud[u], spell)]
           /\ Aimed(w.ud[u], spell) \in UnitData
<1> DEFINE a == StopAttack(w, u)
           d == w.ud[u]
           e == Aimed(d, spell)
<1>1. Good(w, a, l) /\ a.ud = [w.ud EXCEPT ![u] = NoAttack(d)]
  BY StopAttackGood
<1>2. Timed(a, l) /\ a \in World
  BY <1>1 DEF Good, Sound, Timed
<1>3. w \in World /\ d \in UnitData
  BY DEF Sound, Timed, World
<1>4. a.ud[u] = NoAttack(d) /\ NoAttack(d) \in UnitData
  <2>1. NoAttack(d) \in UnitData
    BY <1>3, NoneTypes
  <2> HIDE DEF a
  <2> QED BY <1>1, <1>3, <2>1 DEF World
<1>5. v = With(a, u, e, a.clock)
  <2> HIDE DEF a
  <2>1. [a EXCEPT !.ud[u].spell = spell]
            = With(a, u, [a.ud[u] EXCEPT !.spell = spell], a.clock)
    BY <1>2, SetSpell
  <2> QED BY <2>1, <1>4 DEF Aimed, a
<1>6. /\ e \in UnitData /\ (\A s \in Slots : e[s] = NoAttack(d)[s])
      /\ e.pos = NoAttack(d).pos /\ e.len = NoAttack(d).len /\ e.place = NoAttack(d).place
  BY <1>4 DEF Aimed, UnitData, Slots
<1> HIDE DEF a, e
<1>7. Timed(With(a, u, e, a.clock), l)
  BY <1>2, <1>4, <1>6, ChangeTimed
<1>8. With(a, u, e, a.clock).ud = [w.ud EXCEPT ![u] = e]
  BY <1>1, <1>3 DEF With, World
<1> QED BY <1>5, <1>6, <1>7, <1>8 DEF e

Slowed(w, u, a, b) == [w EXCEPT !.ud[u].prev = a, !.ud[u].speed = b]
Slower(d, a, b) == [d EXCEPT !.prev = a, !.speed = b]

LEMMA SlowStart ==
    ASSUME NEW w \in World, NEW u \in Folk, NEW a, NEW b
    PROVE  Slowed(w, u, a, b) = With(w, u, Slower(w.ud[u], a, b), w.clock)
<1> DEFINE v == Slowed(w, u, a, b)
<1>1. v.ud = [w.ud EXCEPT ![u] = Slower(w.ud[u], a, b)]
      /\ v.clock = w.clock
  BY DEF World, UnitData, Slowed, Slower
<1>2. DOMAIN v = DOMAIN w /\ v = [i \in DOMAIN w |-> v[i]]
  BY DEF Slowed
<1> HIDE DEF v
<1>3. v = With(w, u, Slower(w.ud[u], a, b), w.clock)
  BY <1>1, <1>2, WithIs
<1> QED BY <1>3 DEF v

LEMMA UnitNumbers ==
    ASSUME NEW d \in UnitData
    PROVE  d.free \in 0..20 /\ d.speed \in Nat
<1>1. d.free \in 0..MaxFreeCast /\ d.speed \in Nat
  BY DEF UnitData
<1> QED BY <1>1, UnitAssumption

\* The data of a unit that has begun to cast, before it stops or slows down.
Casting(d, spell, n) == Holding(Aimed(d, spell), "cast", n)

LEMMA CastingCalm ==
    ASSUME NEW d \in UnitData, NEW u \in Folk, Calm(d, u), d.cast = None,
           d.place = "map", ~d.dead, NEW spell \in {"id", "pos"},
           NEW n \in Numbers, KindOf(n) = CastendOf(spell),
           NEW c, c = Casting(d, spell, n), c \in UnitData,
           NEW f \in {c, NoWalk(c)}
    PROVE  /\ ~(u \in Players /\ d.free > 0) => Calm(NoWalk(c), u)
           /\ u \in Players /\ d.free > 0 =>
                 /\ [f EXCEPT !.prev = d.speed, !.speed = Slow(d.speed, d.free)] \in UnitData
                 /\ Calm([f EXCEPT !.prev = d.speed, !.speed = Slow(d.speed, d.free)], u)
<1>1. /\ c.cast = n /\ c.place = "map" /\ ~c.dead /\ c.spell = spell /\ c.free = d.free
      /\ c.base = d.base /\ c.speed = d.speed
  BY DEF Casting, Holding, Aimed, NoAttack, UnitData
<1>2. NoWalk(c) \in UnitData
  BY NoneTypes
<1>3. /\ f \in UnitData /\ f.cast = n /\ f.place = "map" /\ ~f.dead /\ f.spell = spell
      /\ f.free = d.free /\ f.base = d.base /\ f.speed = d.speed
  <2>1. /\ NoWalk(c).cast = c.cast /\ NoWalk(c).place = c.place /\ NoWalk(c).dead = c.dead
        /\ NoWalk(c).spell = c.spell /\ NoWalk(c).free = c.free /\ NoWalk(c).base = c.base
        /\ NoWalk(c).speed = c.speed
    BY DEF NoWalk, UnitData
  <2> QED BY <1>1, <1>2, <2>1
<1>4. n # None /\ spell # "cancel" /\ d.free \in 0..20 /\ d.speed \in Nat
  BY NumberIsSome, UnitNumbers
<1>5. ASSUME ~(u \in Players /\ d.free > 0) PROVE Calm(NoWalk(c), u)
  <2>1. /\ NoWalk(c).cast = n /\ NoWalk(c).place = "map" /\ ~NoWalk(c).dead
        /\ NoWalk(c).spell = spell /\ NoWalk(c).free = d.free /\ NoWalk(c).base = d.base
        /\ NoWalk(c).speed = d.speed /\ NoWalk(c).walk = None
    BY <1>1 DEF NoWalk, UnitData
  <2> QED BY <1>4, <1>5, <2>1 DEF Calm
<1>6. ASSUME u \in Players, d.free > 0
      PROVE  /\ [f EXCEPT !.prev = d.speed, !.speed = Slow(d.speed, d.free)] \in UnitData
             /\ Calm([f EXCEPT !.prev = d.speed, !.speed = Slow(d.speed, d.free)], u)
  <2> DEFINE s == Slow(d.speed, d.free)
             g == [f EXCEPT !.prev = d.speed, !.speed = s]
  <2>1. s \in Nat
    BY <1>4, SlowType
  <2>2. d.speed = d.base
    BY <1>6 DEF Calm
  <2> HIDE DEF s
  <2>3. /\ g \in UnitData /\ g.cast = n /\ g.place = "map" /\ ~g.dead /\ g.spell = spell
        /\ g.free = d.free /\ g.base = d.base /\ g.speed = s /\ g.prev = d.speed
    BY <1>3, <1>4, <2>1 DEF UnitData
  <2> HIDE DEF g
  <2>4. Calm(g, u)
    BY <1>4, <1>6, <2>2, <2>3 DEF Calm, s
  <2> QED BY <2>3, <2>4 DEF g, s
<1> QED BY <1>5, <1>6

LEMMA BeginCastSound ==
    ASSUME NEW l \in 0..MaxLives, NEW w, Sound(w, l), NEW u \in Folk, Alive(w, u),
           w.ud[u].cast = None, NEW spell \in {"id", "pos"}
    PROVE  /\ Sound(BeginCast(w, u, spell), l)
           /\ BeginCast(w, u, spell).ud[u].place = "map"
<1> DEFINE d == w.ud[u]
           v == [StopAttack(w, u) EXCEPT !.ud[u].spell = spell]
           x == SetUp(v, u, "cast", CastendOf(spell), 0)
           y == StopWalking(x, u)
           stand == IF spell = "pos" THEN y ELSE x
           z == BeginCast(w, u, spell)
<1>1. /\ w \in World /\ w.ud \in [Folk -> UnitData] /\ d \in UnitData /\ Calm(d, u)
      /\ l \in Nat /\ spell \in Spells
  BY UnitAssumption DEF Timed, Sound, World, Spells
<1>2. d.place = "map" /\ ~d.dead
  BY DEF Alive
<1>3. Timed(v, l) /\ v.ud = [w.ud EXCEPT ![u] = Aimed(d, spell)] /\ Aimed(d, spell) \in UnitData
  <2> HIDE DEF d
  <2> QED BY <1>1, SpellTimed DEF d
<1> HIDE DEF v
<1>4. v.ud[u] = Aimed(d, spell) /\ v.ud[u]["cast"] = None /\ v.ud[u].place # "gone"
  <2>1. v.ud[u] = Aimed(d, spell)
    BY <1>1, <1>3
  <2>2. d.cast = None
    OBVIOUS
  <2> HIDE DEF d
  <2> QED BY <1>1, <1>2, <2>1, <2>2 DEF Aimed, NoAttack, UnitData
<1>5. PICK n \in Numbers : \E D :
          /\ KindOf(n) = CastendOf(spell)
          /\ SetUp(v, u, "cast", CastendOf(spell), 0) = With(v, u, Holding(v.ud[u], "cast", n), D)
          /\ Holding(v.ud[u], "cast", n) \in UnitData
          /\ Timed(With(v, u, Holding(v.ud[u], "cast", n), D), l)
  <2>1. CastendOf(spell) \in KindsOf("cast") /\ "cast" \in Slots /\ 0 \in Nat
    BY DEF KindsOf, CastendOf, Slots
  <2> DEFINE kind == CastendOf(spell)
  <2>2. Timed(v, l) /\ v.ud[u]["cast"] = None /\ v.ud[u].place # "gone"
        /\ kind \in KindsOf("cast")
        /\ ("cast" = "walk" => 0 = v.ud[u].pos /\ 0 < v.ud[u].len)
    BY <1>3, <1>4, <2>1
  <2> HIDE DEF kind
  <2>3. \E n \in Numbers : \E D :
          /\ KindOf(n) = kind
          /\ SetUp(v, u, "cast", kind, 0) = With(v, u, Holding(v.ud[u], "cast", n), D)
          /\ Holding(v.ud[u], "cast", n) \in UnitData
          /\ Timed(With(v, u, Holding(v.ud[u], "cast", n), D), l)
    BY <2>1, <2>2, SetUpTimed
  <2> QED BY <2>3 DEF kind
<1>6. PICK D :
          /\ KindOf(n) = CastendOf(spell)
          /\ x = With(v, u, Holding(v.ud[u], "cast", n), D)
          /\ Holding(v.ud[u], "cast", n) \in UnitData
          /\ Timed(With(v, u, Holding(v.ud[u], "cast", n), D), l)
  BY <1>5
<1> DEFINE c == Casting(d, spell, n)
<1>7. /\ KindOf(n) = CastendOf(spell) /\ c \in UnitData /\ Timed(x, l)
      /\ x.ud = [w.ud EXCEPT ![u] = c]
  <2>1. c = Holding(v.ud[u], "cast", n)
    BY <1>4 DEF Casting
  <2> HIDE DEF c, x
  <2>2. x.ud = [v.ud EXCEPT ![u] = c]
    BY <1>6, <2>1 DEF With
  <2>3. x.ud = [w.ud EXCEPT ![u] = c]
    BY <1>1, <1>3, <2>2
  <2> QED BY <1>6, <2>1, <2>3
<1> HIDE DEF x, c
<1>8. x.ud[u] = c /\ x.ud \in [Folk -> UnitData]
  BY <1>1, <1>7
<1>9. Timed(y, l) /\ y.ud = [w.ud EXCEPT ![u] = NoWalk(c)]
  <2>1. Timed(y, l) /\ y.ud = [x.ud EXCEPT ![u] = NoWalk(c)]
    BY <1>1, <1>7, <1>8, StopWalkingTimed
  <2> QED BY <1>1, <1>7, <2>1
<1> HIDE DEF y
<1>10. c.place = "map" /\ NoWalk(c).place = "map" /\ NoWalk(c) \in UnitData
  <2>1. NoWalk(c) \in UnitData
    BY <1>7, NoneTypes
  <2> HIDE DEF d
  <2>2. c.place = "map"
    BY <1>1, <1>2, <1>7 DEF c, Casting, Holding, Aimed, NoAttack, UnitData
  <2> QED BY <1>7, <2>1, <2>2 DEF NoWalk, UnitData
<1>11. CASE ~FreeCast(w, u)
  <2>1. z = y
    BY <1>11 DEF BeginCast, v, x, y
  <2>2. Calm(NoWalk(c), u)
    <3>1. ~(u \in Players /\ d.free > 0) /\ d.cast = None
      BY <1>11 DEF FreeCast
    <3> HIDE DEF d
    <3> QED BY <1>1, <1>2, <1>7, <3>1, CastingCalm DEF c
  <2>3. Sound(y, l)
    BY <1>1, <1>9, <2>2, TimedSound
  <2>4. y.ud[u] = NoWalk(c)
    BY <1>1, <1>9, <1>10
  <2> QED BY <1>10, <2>1, <2>3, <2>4
<1>12. CASE FreeCast(w, u)
  <2> DEFINE f == IF spell = "pos" THEN NoWalk(c) ELSE c
             s == Slow(d.speed, d.free)
             g == [f EXCEPT !.prev = d.speed, !.speed = s]
  <2>1. z = Slowed(stand, u, d.speed, s)
    BY <1>12 DEF BeginCast, v, x, y, Slowed
  <2> HIDE DEF stand
  <2>2. Timed(stand, l) /\ stand.ud = [w.ud EXCEPT ![u] = f] /\ f \in {c, NoWalk(c)}
    BY <1>7, <1>9 DEF stand
  <2>3. stand \in World /\ stand.ud[u] = f /\ f \in UnitData /\ f.place = "map"
    <3>1. f \in UnitData /\ f.place = "map"
      BY <1>7, <1>10
    <3> HIDE DEF f
    <3> QED BY <1>1, <2>2, <3>1 DEF Timed
  <2>4. z = With(stand, u, g, stand.clock)
    <3> HIDE DEF f, s
    <3>1. stand \in World
      BY <2>3
    <3>2. Slowed(stand, u, d.speed, s)
            = With(stand, u, Slower(stand.ud[u], d.speed, s), stand.clock)
      <4> HIDE DEF d
      <4> QED BY <3>1, SlowStart, Zenon
    <3> QED BY <2>1, <2>3, <3>2 DEF Slower
  <2>5. g \in UnitData /\ Calm(g, u)
    <3>1. u \in Players /\ d.free > 0 /\ d.cast = None
      BY <1>12 DEF FreeCast
    <3> HIDE DEF d, f
    <3>2. c = Casting(d, spell, n)
      BY DEF c
    <3> QED BY <1>1, <1>2, <1>7, <2>2, <3>1, <3>2, CastingCalm, ZenonT(30)
  <2>6. /\ \A slot \in Slots : g[slot] = f[slot]
        /\ g.pos = f.pos /\ g.len = f.len /\ g.place = f.place
    <3> HIDE DEF f, s, d
    <3> QED BY <2>3 DEF UnitData, Slots
  <2> HIDE DEF g, f
  <2>7. Timed(With(stand, u, g, stand.clock), l)
    BY <1>1, <2>2, <2>3, <2>5, <2>6, ChangeTimed
  <2>8. With(stand, u, g, stand.clock).ud = [w.ud EXCEPT ![u] = g]
    BY <1>1, <2>2 DEF With
  <2> HIDE DEF z
  <2>9. Sound(z, l)
    BY <1>1, <2>4, <2>5, <2>7, <2>8, TimedSound
  <2>10. z.ud[u] = g
    BY <1>1, <2>4, <2>8
  <2> QED BY <2>3, <2>6, <2>9, <2>10 DEF z
<1> QED BY <1>11, <1>12

LEMMA UseCastCancelSound ==
    ASSUME NEW l \in Nat, NEW w, Sound(w, l), NEW p \in Folk
    PROVE  Sound(UseCastCancel(w, p), l)
<1> DEFINE d == w.ud[p]
           v == [StopAttack(w, p) EXCEPT !.ud[p].spell = "cancel"]
           a == StopWalking(v, p)
           f == NoWalk(Aimed(d, "cancel"))
           e == NoCast(f, p)
           z == UseCastCancel(w, p)
<1>1. /\ w \in World /\ w.ud \in [Folk -> UnitData] /\ d \in UnitData /\ Calm(d, p)
      /\ d.cast # None => KindOf(d.cast) = CastendOf(d.spell)
  <2>1. w \in World
    BY DEF Timed, Sound
  <2> QED BY <2>1, SoundParts DEF World
<1>2. Timed(v, l) /\ v.ud = [w.ud EXCEPT ![p] = Aimed(d, "cancel")]
      /\ Aimed(d, "cancel") \in UnitData
  <2>1. "cancel" \in Spells
    BY DEF Spells
  <2> QED BY <2>1, SpellTimed
<1> HIDE DEF v
<1>3. Timed(a, l) /\ a.ud = [w.ud EXCEPT ![p] = f] /\ f \in UnitData
  <2>1. Timed(a, l) /\ a.ud = [v.ud EXCEPT ![p] = NoWalk(v.ud[p])]
    BY <1>2, StopWalkingTimed
  <2>2. v.ud[p] = Aimed(d, "cancel")
    BY <1>1, <1>2
  <2>3. f \in UnitData
    BY <1>2, NoneTypes
  <2> HIDE DEF f
  <2> QED BY <1>1, <1>2, <2>1, <2>2, <2>3 DEF f
<1> HIDE DEF a
<1>4. a.ud[p] = f /\ a \in World
  BY <1>1, <1>3 DEF Timed
<1>5. /\ f.cast = d.cast /\ f.free = d.free /\ f.speed = d.speed /\ f.base = d.base
      /\ f.prev = d.prev
  <2> HIDE DEF d
  <2> QED BY <1>1, <1>2 DEF NoWalk, Aimed, NoAttack, UnitData
<1> HIDE DEF f
<1>6. z = With(a, p, e, Less(a, p, "cast"))
  <2>1. z = CastCancel(a, p, d.spell)
    BY DEF UseCastCancel, v, a
  <2>2. a.ud[p].cast # None => KindOf(a.ud[p].cast) = CastendOf(d.spell)
    BY <1>1, <1>4, <1>5
  <2>3. CastCancel(a, p, d.spell) = With(a, p, NoCast(a.ud[p], p), Less(a, p, "cast"))
    <3> DEFINE s == d.spell
    <3>1. a.ud[p].cast # None => KindOf(a.ud[p].cast) = CastendOf(s)
      BY <2>2
    <3> HIDE DEF s
    <3>2. CastCancel(a, p, s) = With(a, p, NoCast(a.ud[p], p), Less(a, p, "cast"))
      BY <1>4, <3>1, CastCancelIs
    <3> QED BY <3>2 DEF s
  <2> QED BY <1>4, <2>1, <2>3
<1>7. /\ e \in UnitData /\ e["cast"] = None /\ "cast" \in Slots
      /\ \A s \in Slots \ {"cast"} : e[s] = f[s]
      /\ e.pos = f.pos /\ e.len = f.len /\ e.place = f.place
  <2>1. e \in UnitData
    BY <1>3, NoneTypes
  <2>2. f \in UnitData
    BY <1>3
  <2> QED BY <2>1, <2>2 DEF NoCast, UnitData, Slots
<1>8. Calm(e, p)
  <2>1. /\ e.cast = None /\ e.base = f.base
        /\ e.speed = IF p \in Players /\ f.free > 0 /\ f.cast # None THEN f.prev ELSE f.speed
    BY <1>3 DEF NoCast, UnitData
  <2>2. d.free > 0 \/ d.free = 0
    <3>1. d.free \in 0..20
      BY <1>1, UnitNumbers
    <3> QED BY <3>1
  <2> HIDE DEF d, e
  <2> QED BY <1>1, <1>5, <2>1, <2>2 DEF Calm
<1> HIDE DEF e, z
<1>9. Timed(With(a, p, e, Less(a, p, "cast")), l)
  BY <1>3, <1>4, <1>7, DropTimed
<1>10. With(a, p, e, Less(a, p, "cast")).ud = [w.ud EXCEPT ![p] = e]
  BY <1>1, <1>3 DEF With
<1>11. Sound(z, l)
  BY <1>6, <1>8, <1>9, <1>10, TimedSound
<1> QED BY <1>11 DEF z

\* Each world of W is sound, and u has not left.
AllHere(u, W, l) == \A x \in W : Sound(x, l) /\ x.ud[u].place # "gone"

LEMMA GoodHere ==
    ASSUME NEW l, NEW w, NEW u \in Folk, w.ud[u].place # "gone", NEW W, AllGood(w, W, l)
    PROVE  AllHere(u, W, l)
BY DEF AllHere, AllGood, Good, Eased, Stopped

LEMMA MobskillUseSound ==
    ASSUME NEW l \in 0..MaxLives, NEW w, Sound(w, l), NEW b \in Folk, w.ud[b].place # "gone"
    PROVE  AllHere(b, MobskillUse(w, b), l)
<1>1. AllHere(b, {w}, l)
  BY DEF AllHere
<1>2. CASE w.ud[b].cast # None \/ ~Alive(w, b)
  BY <1>1, <1>2 DEF MobskillUse
<1>3. CASE w.ud[b].cast = None /\ Alive(w, b)
  <2>1. AllHere(b, CastAtOnce(w, b), l)
    <3>1. l \in Nat
      BY UnitAssumption
    <3>2. AllGood(w, CastAtOnce(w, b), l)
      BY <3>1, CastendGood
    <3> QED BY <3>2, GoodHere
  <2>2. ASSUME NEW s \in {"id", "pos"}
        PROVE  Sound(BeginCast(w, b, s), l) /\ BeginCast(w, b, s).ud[b].place = "map"
    BY <1>3, BeginCastSound
  <2>3. AllHere(b, {BeginCast(w, b, s) : s \in {"id", "pos"}}, l)
    BY <2>2 DEF AllHere
  <2>4. MobskillUse(w, b)
            = {w} \cup CastAtOnce(w, b) \cup {BeginCast(w, b, s) : s \in {"id", "pos"}}
    BY <1>3 DEF MobskillUse
  <2> DEFINE P == CastAtOnce(w, b)
             Q == {BeginCast(w, b, s) : s \in {"id", "pos"}}
  <2> HIDE DEF P, Q
  <2>5. AllHere(b, P, l) /\ AllHere(b, Q, l) /\ MobskillUse(w, b) = {w} \cup P \cup Q
    BY <2>1, <2>3, <2>4 DEF P, Q
  <2> QED BY <1>1, <2>5 DEF AllHere
<1> QED BY <1>2, <1>3

LEMMA CastendTimerSound ==
    ASSUME NEW l \in Nat, NEW w, NEW n, UnitOf(n) \in Folk, w.ud[UnitOf(n)].spell # "cancel",
           w.ud[UnitOf(n)].cast # n => Sound(w, l),
           w.ud[UnitOf(n)].cast = n =>
               /\ Sound([Quicken(w, UnitOf(n)) EXCEPT !.ud[UnitOf(n)].cast = None], l)
               /\ w.ud[UnitOf(n)].place = "map"
    PROVE  \A y \in CastendTimer(w, n) : Sound(y, l)
<1> DEFINE u == UnitOf(n)
           v == [Quicken(w, u) EXCEPT !.ud[u].cast = None]
<1>1. CASE w.ud[u].cast # n
  <2>1. CastendTimer(w, n) = {w}
    BY <1>1 DEF CastendTimer
  <2> QED BY <1>1, <2>1
<1>2. CASE w.ud[u].cast = n
  <2>1. Sound(v, l) /\ w.ud[u].place = "map" /\ u \in Folk
    BY <1>2
  <2>2. CastendTimer(w, n) = Castend(v, u)
    BY <1>2, <2>1 DEF CastendTimer
  <2> HIDE DEF u, v
  <2>3. AllGood(v, Castend(v, u), l)
    BY <2>1, CastendGood
  <2> QED BY <2>2, <2>3 DEF AllGood, Good
<1> QED BY <1>1, <1>2

-----------------------------------------------------------------------------
(* Attacks                                                                 *)

\* A unit that is to go on with its attack.
MayAttack(d) == d.attack = None /\ d.place # "gone"

LEMMA ArmAttackSound ==
    ASSUME NEW l \in 0..MaxLives, NEW w, Sound(w, l), NEW u \in Folk, MayAttack(w.ud[u])
    PROVE  Sound(SetUp(w, u, "attack", "attack", 0), l)
<1> DEFINE d == w.ud[u]
           x == SetUp(w, u, "attack", "attack", 0)
<1>1. d \in UnitData /\ Calm(d, u) /\ w \in World /\ Timed(w, l) /\ l \in Nat
  BY UnitAssumption DEF Timed, Sound, World
<1>2. /\ 0 \in Nat /\ "attack" \in Slots /\ "attack" \in KindsOf("attack")
      /\ d["attack"] = None /\ d.place # "gone"
  BY DEF Slots, KindsOf, MayAttack
<1>3. PICK n \in Numbers : \E D :
              /\ KindOf(n) = "attack"
              /\ x = With(w, u, Holding(w.ud[u], "attack", n), D)
              /\ Holding(w.ud[u], "attack", n) \in UnitData
              /\ Timed(With(w, u, Holding(w.ud[u], "attack", n), D), l)
  BY <1>1, <1>2, SetUpTimed
<1>4. PICK D : /\ x = With(w, u, Holding(d, "attack", n), D)
               /\ Holding(d, "attack", n) \in UnitData
               /\ Timed(With(w, u, Holding(d, "attack", n), D), l)
  BY <1>3
<1> DEFINE e == Holding(d, "attack", n)
<1>5. Calm(e, u)
  <2> HIDE DEF d
  <2> QED BY <1>1 DEF Calm, UnitData, Holding
<1> HIDE DEF e, x
<1>6. e \in UnitData /\ x = With(w, u, e, D) /\ Timed(With(w, u, e, D), l)
  BY <1>4 DEF e
<1>7. Sound(x, l)
  BY <1>1, <1>5, <1>6, WithSound
<1> QED BY <1>7 DEF x

LEMMA GoOnSound ==
    ASSUME NEW l \in 0..MaxLives, NEW w, Sound(w, l), NEW u \in Folk, MayAttack(w.ud[u])
    PROVE  \A y \in GoOn(w, u) : Sound(y, l)
<1>1. Sound(SetUp(w, u, "attack", "attack", 0), l)
  BY ArmAttackSound
<1> QED BY <1>1 DEF GoOn

LEMMA BlowGood ==
    ASSUME NEW l \in Nat, NEW w, Sound(w, l), NEW u \in Folk, w.ud[u].aim \in Folk
    PROVE  AllGood(w, Blow(w, u), l)
<1> DEFINE t == w.ud[u].aim
           a == StopWalking(w, u)
           struck == Hurts(a, t)
<1>1. Good(w, a, l)
  BY StopWalkingGood
<1>2. ASSUME NEW y, y \in struck PROVE Good(w, y, l)
  <2>1. AllGood(a, struck, l)
    <3>1. Sound(a, l) /\ t \in Folk
      BY <1>1 DEF Good
    <3> HIDE DEF a, t
    <3> QED BY <3>1, HurtsGood
  <2>2. Good(a, y, l)
    BY <1>2, <2>1 DEF AllGood
  <2> QED BY <1>1, <2>2, GoodTwice
<1> DEFINE R == {RemoveMap(x, u) :
                   x \in {y \in struck : u \in Players /\ t \in Beasts /\ ~Alive(y, t)}}
           H == UNION {Hurts(x, u) : x \in struck}
<1>5. Blow(w, u) = struck \cup H \cup R
  BY DEF Blow
<1> HIDE DEF struck
<1>3. ASSUME NEW y \in struck, NEW z \in Hurts(y, u) \cup {RemoveMap(y, u)}
      PROVE  Good(w, z, l)
  <2>1. Good(w, y, l) /\ Sound(y, l)
    BY <1>2 DEF Good
  <2>2. Good(y, RemoveMap(y, u), l)
    BY <2>1, RemoveMapGood
  <2>3. AllGood(y, Hurts(y, u), l)
    BY <2>1, HurtsGood
  <2>4. Good(y, z, l)
    BY <2>2, <2>3 DEF AllGood
  <2> QED BY <2>1, <2>4, GoodTwice
<1>4. \A z \in Blow(w, u) :
         z \in struck \/ \E y \in struck : z \in Hurts(y, u) \cup {RemoveMap(y, u)}
  <2>2. \A z \in H : \E y \in struck : z \in Hurts(y, u)
    OBVIOUS
  <2>3. \A z \in R : \E y \in struck : z = RemoveMap(y, u)
    OBVIOUS
  <2> HIDE DEF R, H
  <2> QED BY <1>5, <2>2, <2>3
<1> QED BY <1>2, <1>3, <1>4 DEF AllGood

LEMMA AttackTimerSubSound ==
    ASSUME NEW l \in 0..MaxLives, NEW w, NEW u \in Folk, NEW n,
           w.ud[u].attack # n => Sound(w, l),
           w.ud[u].attack = n =>
               /\ Sound([w EXCEPT !.ud[u].attack = None], l)
               /\ MayAttack([w EXCEPT !.ud[u].attack = None].ud[u])
               /\ [w EXCEPT !.ud[u].attack = None].ud[u].aim = w.ud[u].aim
    PROVE  \A y \in AttackTimerSub(w, u, n) : Sound(y, l)
<1> DEFINE v == [w EXCEPT !.ud[u].attack = None]
           t == w.ud[u].aim
<1>1. CASE w.ud[u].attack # n
  BY <1>1 DEF AttackTimerSub
<1>2. CASE w.ud[u].attack = n
  <2>1. Sound(v, l) /\ MayAttack(v.ud[u]) /\ v.ud[u].aim = t
    BY <1>2
  <2> DEFINE back == \/ ~Alive(v, u) \/ t = Nobody
                     \/ v.ud[u].cast # None /\ ~FreeCast(v, u)
                     \/ ~Alive(v, t)
             W == UNION {GoOn(x, u) : x \in Walktoxy(v, u)}
             B == UNION {GoOn(x, u) : x \in Blow(v, u)}
             M == IF u \in Beasts THEN MobskillUse(StopWalking(v, u), u) ELSE {}
  <2>2. /\ back => AttackTimerSub(w, u, n) = {v}
        /\ ~back => AttackTimerSub(w, u, n) = {v} \cup W \cup B \cup M
    <3>1. CASE back
      BY <1>2, <3>1, Zenon DEF AttackTimerSub
    <3>2. CASE ~back
      <4>1. AttackTimerSub(w, u, n) = {v} \cup W \cup B \cup M
        BY <1>2, <3>2 DEF AttackTimerSub
      <4> QED BY <3>2, <4>1
    <3> QED BY <3>1, <3>2, Zenon
  <2> HIDE DEF v, t
  <2>3. CASE back
    BY <2>1, <2>2, <2>3
  <2>4. CASE ~back
    <3>1. l \in Nat /\ v \in World /\ v.ud[u] \in UnitData
      BY <2>1, SoundParts, UnitAssumption
    <3>2. t \in Folk /\ v.ud[u].place # "gone"
          /\ (u \in Players => v.ud[u].cast = None \/ v.ud[u].free > 0)
      BY <2>1, <2>4, <3>1 DEF UnitData, Alive, FreeCast, MayAttack
    <3>3. \A y \in W : Sound(y, l)
      <4>1. SUFFICES ASSUME NEW x \in Walktoxy(v, u) PROVE \A y \in GoOn(x, u) : Sound(y, l)
        OBVIOUS
      <4>2. AllWalk(v, u, Walktoxy(v, u), l)
        BY <2>1, <3>2, WalktoxySound
      <4>3. Sound(x, l) /\ MayAttack(x.ud[u])
        BY <2>1, <4>2 DEF AllWalk, MayAttack
      <4> QED BY <4>3, GoOnSound
    <3>4. \A y \in B : Sound(y, l)
      <4>1. SUFFICES ASSUME NEW x \in Blow(v, u) PROVE \A y \in GoOn(x, u) : Sound(y, l)
        OBVIOUS
      <4>2. AllGood(v, Blow(v, u), l)
        BY <2>1, <3>1, <3>2, BlowGood
      <4>3. Sound(x, l) /\ Stopped(v.ud[u], x.ud[u])
        BY <4>2 DEF AllGood, Good, Eased
      <4>4. MayAttack(x.ud[u])
        BY <2>1, <4>3 DEF MayAttack, Stopped, Slots
      <4> QED BY <4>3, <4>4, GoOnSound
    <3>5. \A y \in M : Sound(y, l)
      <4> DEFINE a == StopWalking(v, u)
      <4>1. Good(v, a, l)
        BY <2>1, <3>1, StopWalkingGood
      <4> HIDE DEF a
      <4>2. Sound(a, l) /\ a.ud[u].place # "gone"
        BY <3>2, <4>1 DEF Good, Eased, Stopped
      <4>3. AllHere(u, MobskillUse(a, u), l)
        BY <4>2, MobskillUseSound
      <4> QED BY <4>3 DEF AllHere, a
    <3> HIDE DEF W, B, M, back
    <3> QED BY <2>1, <2>2, <2>4, <3>3, <3>4, <3>5
  <2> QED BY <2>3, <2>4
<1> QED BY <1>1, <1>2

LEMMA SetAim ==
    ASSUME NEW w \in World, NEW u \in Folk, NEW t
    PROVE  [w EXCEPT !.ud[u].aim = t]
               = With(w, u, [w.ud[u] EXCEPT !.aim = t], w.clock)
BY DEF With, World

LEMMA UnitAttackSound ==
    ASSUME NEW l \in 0..MaxLives, NEW w, Sound(w, l), NEW u \in Folk, NEW t \in Folk,
           w.ud[u].place # "gone"
    PROVE  \A y \in UnitAttack(w, u, t) : Sound(y, l)
<1> DEFINE a == StopAttack(w, u)
           v == [a EXCEPT !.ud[u].aim = t]
           e == [NoAttack(w.ud[u]) EXCEPT !.aim = t]
<1>1. l \in Nat /\ w \in World /\ w.ud \in [Folk -> UnitData] /\ w.ud[u] \in UnitData
      /\ Calm(w.ud[u], u)
  BY UnitAssumption DEF Timed, Sound, World
<1>2. Good(w, a, l) /\ a.ud = [w.ud EXCEPT ![u] = NoAttack(w.ud[u])]
  BY <1>1, StopAttackGood
<1> HIDE DEF a
<1>3. /\ Sound(a, l) /\ a \in World /\ a.ud[u] = NoAttack(w.ud[u])
      /\ NoAttack(w.ud[u]) \in UnitData /\ Calm(NoAttack(w.ud[u]), u)
  <2>1. NoAttack(w.ud[u]) \in UnitData /\ Calm(NoAttack(w.ud[u]), u)
    BY <1>1, NoneTypes
  <2>2. Sound(a, l)
    BY <1>2 DEF Good
  <2> QED BY <1>1, <1>2, <2>1, <2>2 DEF Timed, Sound
<1>4. v = With(a, u, e, a.clock)
  BY <1>3, SetAim
<1>5. NoAttack(w.ud[u]).attack = None /\ NoAttack(w.ud[u]).place # "gone"
  BY <1>1 DEF NoAttack, UnitData
<1>6. /\ e \in UnitData /\ Calm(e, u) /\ e.attack = None /\ e.place # "gone"
      /\ \A s \in Slots : e[s] = a.ud[u][s]
      /\ e.pos = a.ud[u].pos /\ e.len = a.ud[u].len /\ e.place = a.ud[u].place
  BY <1>3, <1>5 DEF UnitData, Calm, Slots
<1> HIDE DEF e
<1>7. Sound(v, l)
  <2>1. Sound(With(a, u, e, a.clock), l)
    BY <1>1, <1>3, <1>6, ChangeSound
  <2> QED BY <1>4, <2>1
<1>8. v.ud[u] = e
  BY <1>3, <1>4 DEF With, World
<1> HIDE DEF v
<1>9. Sound(SetUp(v, u, "attack", "attack", 0), l)
  BY <1>6, <1>7, <1>8, ArmAttackSound DEF MayAttack
<1>10. \A y \in AttackTimerSub(v, u, None) : Sound(y, l)
  <2> DEFINE x == [v EXCEPT !.ud[u].attack = None]
  <2>1. x = v
    BY <1>6, <1>7, <1>8 DEF Sound, Timed, World, UnitData
  <2>2. v.ud[u].attack = None => Sound(x, l) /\ MayAttack(x.ud[u]) /\ x.ud[u].aim = v.ud[u].aim
    BY <1>6, <1>7, <1>8, <2>1 DEF MayAttack
  <2>3. v.ud[u].attack # None => Sound(v, l)
    BY <1>7
  <2> QED BY <2>2, <2>3, AttackTimerSubSound
<1> QED BY <1>9, <1>10 DEF UnitAttack, v, a

-----------------------------------------------------------------------------
(* A timer that has fired                                                  *)

After(g, n) == [g EXCEPT !.clock = Without(@, {n})]

LEMMA AfterIs ==
    ASSUME NEW g \in World, NEW n
    PROVE  /\ After(g, n) \in World /\ After(g, n).ud = g.ud
           /\ After(g, n).clock = Without(g.clock, {n})
           /\ Without(g.clock, {n}) \in SUBSET g.clock
           /\ \A t \in g.clock : t \in Without(g.clock, {n}) <=> t.number # n
<1>1. /\ Without(g.clock, {n}) \in SUBSET g.clock
      /\ \A t \in g.clock : t \in Without(g.clock, {n}) <=> t.number # n
  BY DEF Without
<1>2. After(g, n).ud = g.ud /\ After(g, n).clock = Without(g.clock, {n})
  BY DEF After, World
<1>3. After(g, n) \in World
  BY <1>1 DEF After, World
<1> QED BY <1>1, <1>2, <1>3

\* A timer that a unit does not hold has gone.
LEMMA LoseOne ==
    ASSUME NEW d \in UnitData, NEW C \in SUBSET Clocked, NEW D \in SUBSET C,
           NEW u \in Folk, NEW l \in Nat, Kept(d, C, u, l), NEW n,
           \A t \in C : t \in D <=> t.number # n, \A slot \in Slots : d[slot] # n
    PROVE  Kept(d, D, u, l)
<1>1. Held(d, D, u)
  <2>1. SUFFICES ASSUME NEW slot \in Slots, d[slot] # None
                 PROVE  /\ UnitOf(d[slot]) = u /\ KindOf(d[slot]) \in KindsOf(slot)
                        /\ \E t \in D : /\ t.number = d[slot] /\ ~t.old
                                        /\ slot = "walk" => t.step = d.pos /\ t.step < d.len
    BY DEF Held
  <2>2. PICK t \in C : /\ t.number = d[slot] /\ ~t.old
                       /\ slot = "walk" => t.step = d.pos /\ t.step < d.len
    BY <2>1 DEF Kept, Held
  <2>3. UnitOf(d[slot]) = u /\ KindOf(d[slot]) \in KindsOf(slot)
    BY <2>1 DEF Kept, Held
  <2> QED BY <2>2, <2>3
<1>2. Owned(d, D, u)
  BY DEF Kept, Owned
<1>3. FewOld(d, D, u, l)
  <2>1. ASSUME NEW kind \in Kinds
        PROVE  Cardinality(OldOnes(D, u, kind)) <= Cardinality(OldOnes(C, u, kind))
               /\ Cardinality(OldOnes(D, u, kind)) \in Nat
               /\ Cardinality(OldOnes(C, u, kind)) \in Nat
    <3>1. OldOnes(D, u, kind) \subseteq OldOnes(C, u, kind)
      BY DEF OldOnes
    <3> QED BY <3>1, OldOnesFinite
  <2> QED BY <2>1 DEF Kept, FewOld
<1> QED BY <1>1, <1>2, <1>3 DEF Kept

LEMMA AfterUnheld ==
    ASSUME NEW l \in Nat, NEW g, Sound(g, l), NEW n \in Numbers,
           \A slot \in Slots : g.ud[UnitOf(n)][slot] # n
    PROVE  Sound(After(g, n), l)
<1> DEFINE w == After(g, n)
           D == Without(g.clock, {n})
<1>1. g \in World /\ g.clock \in SUBSET Clocked /\ OneEach(g.clock)
  BY DEF Sound, Timed, World
<1>2. /\ w \in World /\ w.ud = g.ud /\ w.clock = D /\ D \in SUBSET g.clock
      /\ \A t \in g.clock : t \in D <=> t.number # n
  BY <1>1, AfterIs
<1> HIDE DEF w, D
<1>3. OneEach(D)
  BY <1>1, <1>2 DEF OneEach
<1>4. ASSUME NEW v \in Folk PROVE Kept(w.ud[v], w.clock, v, l)
  <2> DEFINE d == g.ud[v]
             C == g.clock
  <2>1. d \in UnitData /\ C \in SUBSET Clocked /\ Kept(d, C, v, l) /\ D \in SUBSET C
        /\ D \in SUBSET Clocked
    BY <1>1, <1>2 DEF Sound, Timed, World
  <2>2. CASE v = UnitOf(n)
    <3>1. (\A t \in C : t \in D <=> t.number # n) /\ \A slot \in Slots : d[slot] # n
      BY <1>2, <2>2
    <3> HIDE DEF d, C
    <3>2. Kept(d, D, v, l)
      BY <2>1, <3>1, LoseOne
    <3> QED BY <1>2, <3>2 DEF d
  <2>3. CASE v # UnitOf(n)
    <3>1. \A t \in Clocked : UnitOf(t.number) = v => (t \in C <=> t \in D)
      BY <1>2, <2>3
    <3> HIDE DEF d, C
    <3>2. Kept(d, D, v, l)
      BY <2>1, <3>1, SameTimers
    <3> QED BY <1>2, <3>2 DEF d
  <2> QED BY <2>2, <2>3
<1>5. Timed(w, l)
  BY <1>2, <1>3, <1>4 DEF Timed
<1>6. \A v \in Folk : Calm(w.ud[v], v)
  BY <1>2 DEF Sound
<1> QED BY <1>5, <1>6 DEF Sound, w

\* No other slot than that of its function holds a timer.
LEMMA HeldByKind ==
    ASSUME NEW l \in Nat, NEW g, Sound(g, l), NEW n \in Numbers
    PROVE  /\ KindOf(n) = "walk" /\ g.ud[UnitOf(n)].walk # n =>
                 \A slot \in Slots : g.ud[UnitOf(n)][slot] # n
           /\ KindOf(n) = "attack" /\ g.ud[UnitOf(n)].attack # n =>
                 \A slot \in Slots : g.ud[UnitOf(n)][slot] # n
           /\ KindOf(n) \in {"id", "pos"} /\ g.ud[UnitOf(n)].cast # n =>
                 \A slot \in Slots : g.ud[UnitOf(n)][slot] # n
<1> DEFINE d == g.ud[UnitOf(n)]
<1>1. UnitOf(n) \in Folk /\ n # None
  BY NumberIsSome
<1>2. Held(d, g.clock, UnitOf(n))
  BY <1>1 DEF Sound, Timed, Kept
<1> HIDE DEF d
<1>3. \A slot \in Slots : d[slot] = n => KindOf(n) \in KindsOf(slot)
  BY <1>1, <1>2 DEF Held
<1>4. /\ d["walk"] = n => KindOf(n) = "walk"
      /\ d["attack"] = n => KindOf(n) = "attack"
      /\ d["cast"] = n => KindOf(n) \in {"id", "pos"}
  BY <1>3 DEF Slots, KindsOf
<1> QED BY <1>4 DEF Slots, d

LEMMA ClearedIs ==
    ASSUME NEW g \in World, NEW n, n # None, NEW u \in Folk
    PROVE  /\ g.ud[u].walk = n =>
                 [After(g, n) EXCEPT !.ud[u].walk = None]
                     = With(g, u, [g.ud[u] EXCEPT !.walk = None], Less(g, u, "walk"))
           /\ g.ud[u].attack = n =>
                 [After(g, n) EXCEPT !.ud[u].attack = None]
                     = With(g, u, NoAttack(g.ud[u]), Less(g, u, "attack"))
           /\ g.ud[u].cast = n =>
                 [Quicken(After(g, n), u) EXCEPT !.ud[u].cast = None]
                     = With(g, u, NoCast(g.ud[u], u), Less(g, u, "cast"))
<1> DEFINE a == After(g, n)
<1>0. g.ud[u] \in UnitData
  BY DEF World
<1>1. a \in World /\ a.ud = g.ud /\ a.clock = Without(g.clock, {n})
  BY AfterIs
<1> HIDE DEF a
<1>2. \A e, D : With(a, u, e, D) = With(g, u, e, D)
  BY <1>1 DEF With
<1>3. ASSUME g.ud[u].walk = n
      PROVE  [a EXCEPT !.ud[u].walk = None]
                = With(g, u, [g.ud[u] EXCEPT !.walk = None], Less(g, u, "walk"))
  <2>1. Less(g, u, "walk") = a.clock
    BY <1>1, <1>3 DEF Less
  <2>2. [a EXCEPT !.ud[u].walk = None] = With(a, u, [a.ud[u] EXCEPT !.walk = None], a.clock)
    BY <1>1 DEF With, World
  <2> QED BY <1>1, <1>2, <2>1, <2>2
<1>4. ASSUME g.ud[u].attack = n
      PROVE  [a EXCEPT !.ud[u].attack = None]
                = With(g, u, NoAttack(g.ud[u]), Less(g, u, "attack"))
  <2>1. Less(g, u, "attack") = a.clock
    BY <1>1, <1>4 DEF Less
  <2>2. [a EXCEPT !.ud[u].attack = None]
            = With(a, u, [a.ud[u] EXCEPT !.attack = None], a.clock)
    BY <1>1 DEF With, World
  <2> QED BY <1>1, <1>2, <2>1, <2>2 DEF NoAttack
<1>5. ASSUME g.ud[u].cast = n
      PROVE  [Quicken(a, u) EXCEPT !.ud[u].cast = None]
                = With(g, u, NoCast(g.ud[u], u), Less(g, u, "cast"))
  <2> DEFINE q == Quicken(a, u)
             d == g.ud[u]
             e == [d EXCEPT !.speed = IF u \in Players /\ d.free > 0 THEN d.prev ELSE @]
  <2>1. Less(g, u, "cast") = a.clock
    BY <1>1, <1>5 DEF Less
  <2>2. q = With(a, u, e, a.clock) /\ e \in UnitData
    <3>1. CASE u \in Players /\ d.free > 0
      <4>1. q = [a EXCEPT !.ud[u].speed = a.ud[u].prev]
        BY <1>1, <3>1 DEF Quicken, FreeCast
      <4>2. q = With(a, u, [a.ud[u] EXCEPT !.speed = a.ud[u].prev], a.clock)
        BY <1>1, <4>1 DEF With, World
      <4>3. e = [d EXCEPT !.speed = d.prev]
        BY <3>1
      <4>4. e \in UnitData
        <5> HIDE DEF d
        <5>1. d \in UnitData /\ d.prev \in Nat
          BY <1>0 DEF d, UnitData
        <5> QED BY <4>3, <5>1 DEF UnitData
      <4> HIDE DEF q, e
      <4> QED BY <1>1, <4>2, <4>3, <4>4
    <3>2. CASE ~(u \in Players /\ d.free > 0)
      <4>1. q = a
        BY <1>1, <3>2 DEF Quicken, FreeCast
      <4>2. e = d
        BY <1>0, <3>2 DEF UnitData
      <4>3. With(a, u, a.ud[u], a.clock) = a
        BY <1>1 DEF World, With
      <4> HIDE DEF q, e
      <4> QED BY <1>0, <1>1, <4>1, <4>2, <4>3
    <3> QED BY <3>1, <3>2
  <2>3. NoCast(d, u) = [e EXCEPT !.cast = None]
    BY <1>0, <1>5 DEF NoCast, UnitData
  <2> HIDE DEF q, e
  <2>4. q \in World /\ q.ud[u] = e /\ q.clock = a.clock
        /\ \A f, D : With(q, u, f, D) = With(a, u, f, D)
    BY <1>1, <2>2 DEF With, World
  <2>5. [q EXCEPT !.ud[u].cast = None] = With(q, u, [q.ud[u] EXCEPT !.cast = None], q.clock)
    BY <2>4 DEF With, World
  <2> QED BY <1>2, <2>1, <2>3, <2>4, <2>5 DEF q
<1> QED BY <1>3, <1>4, <1>5 DEF a

-----------------------------------------------------------------------------
(* The invariant of the specification                                      *)

UnitInv ==
    /\ lives \in 0..MaxLives
    /\ Sound(Game, lives)
    /\ \A u \in Folk : ud[u].spell # "cancel"

LEMMA TidyFacts ==
    ASSUME NEW d \in UnitData, NEW u \in Folk, Calm(d, u)
    PROVE  /\ Tidy(d) \in UnitData /\ Calm(Tidy(d), u) /\ Tidy(d).spell # "cancel"
           /\ \A slot \in Slots : Tidy(d)[slot] = d[slot]
           /\ d.walk # None => Tidy(d).pos = d.pos /\ Tidy(d).len = d.len
           /\ Tidy(d).place = d.place
<1> DEFINE e == Tidy(d)
<1>1. e \in UnitData
  <2> DEFINE pos == IF d.walk = None THEN 0 ELSE d.pos
             len == IF d.walk = None THEN 0 ELSE d.len
             turn == d.turn /\ d.walk # None
             aim == IF d.attack = None THEN Nobody ELSE d.aim
             spell == IF d.cast = None THEN "id" ELSE d.spell
             prev == IF d.cast = None THEN 0 ELSE d.prev
  <2>1. pos \in Nat /\ len \in Nat /\ prev \in Nat
    BY DEF UnitData
  <2>2. turn \in BOOLEAN /\ aim \in Folk \cup {Nobody} /\ spell \in Spells
    BY DEF UnitData, Spells
  <2>3. e = [d EXCEPT !.pos = pos, !.len = len, !.turn = turn, !.aim = aim,
                      !.spell = spell, !.prev = prev]
    BY DEF Tidy
  <2> HIDE DEF pos, len, turn, aim, spell, prev, e
  <2> QED BY <2>1, <2>2, <2>3 DEF UnitData
<1>2. /\ e.walk = d.walk /\ e.attack = d.attack /\ e.cast = d.cast /\ e.place = d.place
      /\ e.dead = d.dead /\ e.free = d.free /\ e.base = d.base /\ e.speed = d.speed
  BY DEF Tidy, UnitData
<1>3. /\ d.walk # None => e.pos = d.pos /\ e.len = d.len
      /\ e.spell = IF d.cast = None THEN "id" ELSE d.spell
      /\ d.cast # None => e.prev = d.prev
  BY DEF Tidy, UnitData
<1> HIDE DEF e
<1>4. Calm(e, u)
  BY <1>2, <1>3 DEF Calm
<1>5. e.spell # "cancel"
  BY <1>3 DEF Calm
<1>6. \A slot \in Slots : e[slot] = d[slot]
  BY <1>1, <1>2 DEF Slots, UnitData
<1> QED BY <1>1, <1>2, <1>3, <1>4, <1>5, <1>6 DEF e

LEMMA TidiedSound ==
    ASSUME NEW l \in Nat, NEW w, Sound(w, l)
    PROVE  /\ Sound(Tidied(w), l) /\ \A u \in Folk : Tidied(w).ud[u].spell # "cancel"
           /\ Tidied(w) = [ud |-> Tidied(w).ud, clock |-> Tidied(w).clock]
<1> DEFINE x == Tidied(w)
<1>1. w \in World /\ w.ud \in [Folk -> UnitData] /\ w.clock \in SUBSET Clocked
  BY DEF Sound, Timed, World
<1>2. x.clock = w.clock /\ x.ud = [u \in Folk |-> Tidy(w.ud[u])]
  BY <1>1 DEF Tidied, World
<1>3. DOMAIN x = DOMAIN w /\ x = [i \in DOMAIN w |-> x[i]]
  BY DEF Tidied
<1>4. DOMAIN w = {"ud", "clock"}
  BY <1>1 DEF World
<1> HIDE DEF x
<1>5. x = [ud |-> x.ud, clock |-> x.clock]
  BY <1>3, <1>4
<1>6. ASSUME NEW u \in Folk
      PROVE  /\ x.ud[u] \in UnitData /\ Calm(x.ud[u], u) /\ x.ud[u].spell # "cancel"
             /\ Kept(x.ud[u], w.clock, u, l)
  <2> DEFINE d == w.ud[u]
             C == w.clock
             e == Tidy(d)
  <2>1. d \in UnitData /\ Calm(d, u) /\ Kept(d, C, u, l) /\ C \in SUBSET Clocked
    BY <1>1 DEF Sound, Timed
  <2>2. x.ud[u] = e
    BY <1>2
  <2> HIDE DEF d, C
  <2>3. /\ e \in UnitData /\ Calm(e, u) /\ e.spell # "cancel"
        /\ \A slot \in Slots : e[slot] = d[slot]
        /\ d.walk # None => e.pos = d.pos /\ e.len = d.len
        /\ e.place = d.place
    BY <2>1, TidyFacts
  <2> HIDE DEF e
  <2>4. Kept(e, C, u, l)
    BY <2>1, <2>3, SameTimers
  <2> QED BY <2>2, <2>3, <2>4 DEF C
<1>7. x \in World
  <2>1. x.ud \in [Folk -> UnitData]
    BY <1>2, <1>6
  <2> QED BY <1>1, <1>2, <1>5, <2>1 DEF World
<1>8. OneEach(w.clock)
  BY DEF Sound, Timed
<1>9. Sound(x, l)
  BY <1>2, <1>6, <1>7, <1>8 DEF Sound, Timed
<1> QED BY <1>5, <1>6, <1>9 DEF x

LEMMA BecomesInv ==
    ASSUME UnitInv, NEW W, \A x \in W : Sound(x, lives), Becomes(W), UNCHANGED lives
    PROVE  UnitInv'
<1>1. PICK x \in W : ud' = Tidied(x).ud /\ clock' = Tidied(x).clock
  BY DEF Becomes
<1>2. lives \in Nat /\ lives \in 0..MaxLives /\ Sound(x, lives)
  BY UnitAssumption DEF UnitInv
<1>3. /\ Sound(Tidied(x), lives) /\ \A u \in Folk : Tidied(x).ud[u].spell # "cancel"
      /\ Tidied(x) = [ud |-> Tidied(x).ud, clock |-> Tidied(x).clock]
  BY <1>2, TidiedSound
<1>4. Game' = [ud |-> Tidied(x).ud, clock |-> Tidied(x).clock]
  BY <1>1 DEF Game
<1>5. Game' = Tidied(x)
  BY <1>3, <1>4
<1>6. Sound(Game', lives)
  BY <1>3, <1>5
<1>7. Sound(Game', lives')
  BY <1>6
<1> QED BY <1>1, <1>2, <1>3, <1>7 DEF UnitInv

LEMMA GameFacts ==
    ASSUME UnitInv
    PROVE  /\ Sound(Game, lives) /\ lives \in 0..MaxLives /\ lives \in Nat
           /\ Game.ud = ud /\ Game.clock = clock
           /\ Game \in World /\ ud \in [Folk -> UnitData] /\ clock \in SUBSET Clocked
           /\ \A u \in Folk : Calm(ud[u], u) /\ Kept(ud[u], clock, u, lives)
BY UnitAssumption DEF UnitInv, Sound, Timed, World, Game

LEMMA WalkToXYInv ==
    ASSUME UnitInv, NEW p \in Players, WalkToXY(p) PROVE UnitInv'
<1> DEFINE a == StopAttack(Game, p)
<1>0. p \in Folk
  BY DEF Folk
<1>1. /\ Sound(Game, lives) /\ lives \in 0..MaxLives /\ lives \in Nat
      /\ ud[p] \in UnitData /\ Game.ud = ud /\ ud \in [Folk -> UnitData]
  BY <1>0, GameFacts
<1>2. Good(Game, a, lives) /\ a.ud = [ud EXCEPT ![p] = NoAttack(ud[p])]
  <2>1. Good(Game, a, lives) /\ a.ud = [Game.ud EXCEPT ![p] = NoAttack(Game.ud[p])]
    BY <1>0, <1>1, StopAttackGood
  <2> QED BY <1>1, <2>1
<1>3. NoAttack(ud[p]).cast = ud[p].cast /\ NoAttack(ud[p]).free = ud[p].free
      /\ NoAttack(ud[p]).place = ud[p].place
  BY <1>1 DEF NoAttack, UnitData
<1> HIDE DEF a
<1>4. Sound(a, lives) /\ a.ud[p] = NoAttack(ud[p])
  BY <1>0, <1>1, <1>2 DEF Good
<1>5. a.ud[p].place # "gone" /\ (a.ud[p].cast = None \/ a.ud[p].free > 0)
  <2>1. ud[p].place # "gone" /\ (ud[p].cast = None \/ ud[p].free > 0)
    BY DEF WalkToXY
  <2> QED BY <1>3, <1>4, <2>1
<1>6. AllWalk(a, p, Walktoxy(a, p), lives)
  BY <1>0, <1>1, <1>4, <1>5, WalktoxySound
<1>7. Becomes(Walktoxy(a, p)) /\ UNCHANGED lives
  BY DEF WalkToXY, a
<1> QED BY <1>6, <1>7, BecomesInv DEF AllWalk

LEMMA ActionRequestInv ==
    ASSUME UnitInv, NEW p \in Players, NEW t \in Folk, ActionRequest(p, t) PROVE UnitInv'
<1> DEFINE a == StopWalking(Game, p)
           b == StopAttack(a, p)
<1>1. p \in Folk /\ Sound(Game, lives) /\ lives \in 0..MaxLives /\ lives \in Nat
      /\ Game.ud = ud
  BY GameFacts DEF Folk
<1>2. Good(Game, a, lives)
  BY <1>1, StopWalkingGood
<1> HIDE DEF a
<1>3. Good(a, b, lives)
  <2>1. Sound(a, lives)
    BY <1>2 DEF Good
  <2> QED BY <1>1, <2>1, StopAttackGood
<1> HIDE DEF b
<1>4. Sound(b, lives) /\ b.ud[p].place # "gone"
  <2>1. ud[p].place # "gone"
    BY DEF ActionRequest
  <2> QED BY <1>1, <1>2, <1>3, <2>1 DEF Good, Eased, Stopped
<1>5. \A y \in UnitAttack(b, p, t) : Sound(y, lives)
  BY <1>1, <1>4, UnitAttackSound
<1>6. Becomes(UnitAttack(b, p, t)) /\ UNCHANGED lives
  BY DEF ActionRequest, a, b
<1> QED BY <1>5, <1>6, BecomesInv

LEMMA UseSkillInv ==
    ASSUME UnitInv, NEW p \in Players, NEW spell \in Spells, UseSkill(p, spell) PROVE UnitInv'
<1>1. p \in Folk /\ Sound(Game, lives) /\ lives \in 0..MaxLives /\ lives \in Nat
      /\ Game.ud = ud
  BY GameFacts DEF Folk
<1>2. Alive(Game, p) /\ (spell = "cancel" <=> ud[p].cast # None) /\ UNCHANGED lives
  BY DEF UseSkill
<1>3. CASE spell = "cancel"
  <2>1. Becomes({UseCastCancel(Game, p)})
    BY <1>3 DEF UseSkill
  <2>2. Sound(UseCastCancel(Game, p), lives)
    BY <1>1, UseCastCancelSound
  <2>3. \A x \in {UseCastCancel(Game, p)} : Sound(x, lives)
    BY <2>2
  <2> QED BY <1>2, <2>1, <2>3, BecomesInv
<1>4. CASE spell # "cancel"
  <2> DEFINE W == {BeginCast(Game, p, spell)} \cup CastAtOnce(Game, p)
  <2>1. Becomes(W)
    BY <1>4 DEF UseSkill
  <2>2. spell \in {"id", "pos"} /\ Game.ud[p].cast = None
    BY <1>1, <1>2, <1>4 DEF Spells
  <2>3. Sound(BeginCast(Game, p, spell), lives)
    BY <1>1, <1>2, <2>2, BeginCastSound
  <2>4. AllGood(Game, CastAtOnce(Game, p), lives)
    BY <1>1, CastendGood
  <2>5. \A x \in W : Sound(x, lives)
    BY <2>3, <2>4 DEF AllGood, Good
  <2> HIDE DEF W
  <2> QED BY <1>2, <2>1, <2>5, BecomesInv
<1> QED BY <1>3, <1>4

LEMMA ThinkInv ==
    ASSUME UnitInv, NEW b \in Beasts, Think(b) PROVE UnitInv'
<1> DEFINE a == StopWalking(Game, b)
           M == UNION {Walktoxy(x, b) : x \in MobskillUse(Game, b)}
           T == {t \in Folk \ {b} : ud[t].place # "gone"}
           A == UNION {UnitAttack(a, b, t) : t \in T}
<1>0. b \in Folk /\ b \notin Players
  BY UnitAssumption DEF Folk
<1>1. Sound(Game, lives) /\ lives \in 0..MaxLives /\ lives \in Nat /\ Game.ud = ud
  BY GameFacts
<1>2. Game.ud[b].place # "gone"
  BY DEF Think, Alive
<1>3. Sound(a, lives) /\ a.ud[b].place # "gone"
  <2>1. Good(Game, a, lives)
    BY <1>0, <1>1, StopWalkingGood
  <2> HIDE DEF a
  <2> QED BY <1>0, <1>2, <2>1 DEF Good, Eased, Stopped
<1>4. \A y \in M : Sound(y, lives)
  <2>1. SUFFICES ASSUME NEW x \in MobskillUse(Game, b)
                 PROVE  \A y \in Walktoxy(x, b) : Sound(y, lives)
    OBVIOUS
  <2>2. AllHere(b, MobskillUse(Game, b), lives)
    BY <1>0, <1>1, <1>2, MobskillUseSound
  <2>3. Sound(x, lives) /\ x.ud[b].place # "gone"
    BY <2>2 DEF AllHere
  <2>4. AllWalk(x, b, Walktoxy(x, b), lives)
    BY <1>0, <1>1, <2>3, WalktoxySound
  <2> QED BY <2>4 DEF AllWalk
<1>5. \A y \in A : Sound(y, lives)
  <2>1. SUFFICES ASSUME NEW t \in T PROVE \A y \in UnitAttack(a, b, t) : Sound(y, lives)
    OBVIOUS
  <2>2. t \in Folk
    OBVIOUS
  <2> HIDE DEF a, T
  <2> QED BY <1>0, <1>1, <1>3, <2>2, UnitAttackSound
<1>6. Becomes({a} \cup M \cup A) /\ UNCHANGED lives
  BY DEF Think
<1> DEFINE W == {a} \cup M \cup A
<1>7. \A x \in W : Sound(x, lives)
  <2> HIDE DEF a, M, A
  <2> QED BY <1>3, <1>4, <1>5
<1> HIDE DEF W
<1>8. Becomes(W)
  BY <1>6 DEF W
<1> QED BY <1>6, <1>7, <1>8, BecomesInv

LEMMA AnswerInv ==
    ASSUME UnitInv, NEW b \in Beasts, Answer(b) PROVE UnitInv'
<1>0. b \in Folk
  BY DEF Folk
<1>1. Sound(Game, lives) /\ lives \in 0..MaxLives
  BY GameFacts
<1>2. Game.ud[b].place # "gone" /\ Becomes(MobskillUse(Game, b)) /\ UNCHANGED lives
  BY DEF Answer, Alive
<1>3. AllHere(b, MobskillUse(Game, b), lives)
  BY <1>0, <1>1, <1>2, MobskillUseSound
<1> QED BY <1>2, <1>3, BecomesInv DEF AllHere

LEMMA BefallInv ==
    ASSUME UnitInv, NEW u \in Folk, Befall(u) PROVE UnitInv'
<1> DEFINE W == Hurts(Game, u) \cup {StopWalking(Game, u), StopAttack(Game, u),
                                     CastCancel(Game, u, ud[u].spell)}
<1>1. Sound(Game, lives) /\ lives \in Nat /\ Game.ud = ud
  BY GameFacts
<1>2. Becomes(W) /\ UNCHANGED lives
  BY DEF Befall
<1>3. AllGood(Game, Hurts(Game, u), lives)
  BY <1>1, HurtsGood
<1>4. Good(Game, StopWalking(Game, u), lives)
  BY <1>1, StopWalkingGood
<1>5. Good(Game, StopAttack(Game, u), lives)
  BY <1>1, StopAttackGood
<1>6. Good(Game, CastCancel(Game, u, ud[u].spell), lives)
  <2>1. Good(Game, CastCancel(Game, u, Game.ud[u].spell), lives)
    BY <1>1, CastCancelGood
  <2> QED BY <1>1, <2>1
<1>7. \A x \in W : Sound(x, lives)
  BY <1>3, <1>4, <1>5, <1>6 DEF AllGood, Good
<1> HIDE DEF W
<1> QED BY <1>2, <1>7, BecomesInv

LEMMA WarpInv ==
    ASSUME UnitInv, NEW p \in Players, Warp(p) PROVE UnitInv'
<1>1. Sound(Game, lives) /\ lives \in Nat /\ p \in Folk
  BY GameFacts DEF Folk
<1>2. Good(Game, RemoveMap(Game, p), lives)
  BY <1>1, RemoveMapGood
<1>3. \A x \in {RemoveMap(Game, p)} : Sound(x, lives)
  BY <1>2 DEF Good
<1>4. Becomes({RemoveMap(Game, p)}) /\ UNCHANGED lives
  BY DEF Warp
<1> QED BY <1>3, <1>4, BecomesInv

\* A unit's data has changed, and nothing else.
LEMMA ChangeInv ==
    ASSUME UnitInv, NEW u \in Folk, NEW e \in UnitData, Calm(e, u), e.spell # "cancel",
           \A slot \in Slots : e[slot] = ud[u][slot],
           ud[u].walk # None => e.pos = ud[u].pos /\ e.len = ud[u].len,
           e.place = "gone" <=> ud[u].place = "gone",
           ud' = [ud EXCEPT ![u] = e], UNCHANGED <<clock, lives>>
    PROVE  UnitInv'
<1>1. Sound(Game, lives) /\ lives \in 0..MaxLives /\ lives \in Nat /\ Game.ud = ud
      /\ Game.clock = clock /\ ud \in [Folk -> UnitData]
  BY GameFacts
<1>2. Sound(With(Game, u, e, clock), lives)
  <2>1. Sound(With(Game, u, e, Game.clock), lives)
    BY <1>1, ChangeSound
  <2> QED BY <1>1, <2>1
<1>3. Game' = With(Game, u, e, clock)
  BY <1>1 DEF Game, With
<1>4. Sound(Game', lives')
  BY <1>2, <1>3
<1>5. \A v \in Folk : ud'[v].spell # "cancel"
  BY <1>1 DEF UnitInv
<1> QED BY <1>1, <1>4, <1>5 DEF UnitInv

LEMMA LoadEndAckInv ==
    ASSUME UnitInv, NEW p \in Players, LoadEndAck(p) PROVE UnitInv'
<1> DEFINE d == ud[p]
           e == [d EXCEPT !.place = "map"]
<1>1. p \in Folk /\ d \in UnitData /\ Calm(d, p) /\ d.spell # "cancel"
  BY GameFacts DEF Folk, UnitInv
<1>2. d.place = "off" /\ ud' = [ud EXCEPT ![p] = e] /\ UNCHANGED <<clock, lives>>
  BY DEF LoadEndAck
<1>3. e \in UnitData /\ Calm(e, p) /\ e.spell # "cancel" /\ e.place = "map"
      /\ \A slot \in Slots : e[slot] = d[slot]
      /\ e.pos = d.pos /\ e.len = d.len
  <2>1. d.place = "off"
    BY <1>2
  <2> HIDE DEF d
  <2>2. e \in UnitData /\ Calm(e, p)
    BY <1>1, <2>1 DEF UnitData, Calm
  <2> QED BY <1>1, <2>2 DEF UnitData, Slots
<1>4. /\ e \in UnitData /\ Calm(e, p) /\ e.spell # "cancel"
      /\ \A slot \in Slots : e[slot] = ud[p][slot]
      /\ ud[p].walk # None => e.pos = ud[p].pos /\ e.len = ud[p].len
      /\ e.place = "gone" <=> ud[p].place = "gone"
      /\ ud' = [ud EXCEPT ![p] = e] /\ UNCHANGED <<clock, lives>>
  <2>2. e.place = "gone" <=> ud[p].place = "gone"
    BY <1>2, <1>3
  <2>3. \A slot \in Slots : e[slot] = ud[p][slot]
    BY <1>3
  <2>4. ud[p].walk # None => e.pos = ud[p].pos /\ e.len = ud[p].len
    BY <1>3
  <2>5. e \in UnitData /\ Calm(e, p) /\ e.spell # "cancel"
    BY <1>3
  <2> QED BY <1>2, <2>2, <2>3, <2>4, <2>5
<1> HIDE DEF e, d
<1> QED BY <1>1, <1>4, ChangeInv

LEMMA ReviveInv ==
    ASSUME UnitInv, NEW p \in Players, Revive(p) PROVE UnitInv'
<1> DEFINE d == ud[p]
           e == [d EXCEPT !.dead = FALSE]
<1>1. p \in Folk /\ d \in UnitData /\ Calm(d, p) /\ d.spell # "cancel"
  BY GameFacts DEF Folk, UnitInv
<1>2. ud' = [ud EXCEPT ![p] = e] /\ UNCHANGED <<clock, lives>>
  BY DEF Revive
<1>3. e \in UnitData /\ Calm(e, p) /\ e.spell # "cancel" /\ e.place = d.place
      /\ \A slot \in Slots : e[slot] = d[slot]
      /\ e.pos = d.pos /\ e.len = d.len
  <2> HIDE DEF d
  <2>2. e \in UnitData /\ Calm(e, p)
    BY <1>1 DEF UnitData, Calm
  <2> QED BY <1>1, <2>2 DEF UnitData, Slots
<1>4. /\ e \in UnitData /\ Calm(e, p) /\ e.spell # "cancel"
      /\ \A slot \in Slots : e[slot] = ud[p][slot]
      /\ ud[p].walk # None => e.pos = ud[p].pos /\ e.len = ud[p].len
      /\ e.place = "gone" <=> ud[p].place = "gone"
      /\ ud' = [ud EXCEPT ![p] = e] /\ UNCHANGED <<clock, lives>>
  <2>2. e.place = "gone" <=> ud[p].place = "gone"
    BY <1>2, <1>3
  <2>3. \A slot \in Slots : e[slot] = ud[p][slot]
    BY <1>3
  <2>4. ud[p].walk # None => e.pos = ud[p].pos /\ e.len = ud[p].len
    BY <1>3
  <2>5. e \in UnitData /\ Calm(e, p) /\ e.spell # "cancel"
    BY <1>3
  <2> QED BY <1>2, <2>2, <2>3, <2>4, <2>5
<1> HIDE DEF e, d
<1> QED BY <1>1, <1>4, ChangeInv

LEMMA SetFree ==
    ASSUME NEW w \in World, NEW u \in Folk, NEW n
    PROVE  [w EXCEPT !.ud[u].free = n]
               = With(w, u, [w.ud[u] EXCEPT !.free = n], w.clock)
BY DEF With, World

LEMMA RecalcInv ==
    ASSUME UnitInv, NEW p \in Players, NEW base \in Speeds, NEW more \in {0, 1},
           Recalc(p, base, more)
    PROVE  UnitInv'
<1> DEFINE d == ud[p]
           x == [Game EXCEPT !.ud[p].free = @ + more]
           e == [d EXCEPT !.free = @ + more]
           f == Recalced(e, base)
           z == StatusCalc(x, p, base)
<1>0. p \in Folk
  BY DEF Folk
<1>1. Sound(Game, lives) /\ lives \in Nat /\ Game.ud = ud /\ Game.clock = clock
      /\ Game \in World /\ d \in UnitData /\ Calm(d, p)
  BY <1>0, GameFacts
<1>2. d.free + more <= MaxFreeCast /\ Becomes({z}) /\ UNCHANGED lives
  BY DEF Recalc
<1>3. x = With(Game, p, e, clock)
  BY <1>0, <1>1, SetFree, ZenonT(30)
<1>4. e \in UnitData /\ e.place = d.place /\ e.pos = d.pos /\ e.len = d.len
      /\ \A slot \in Slots : e[slot] = d[slot]
  <2>1. d.free \in 0..MaxFreeCast /\ MaxFreeCast \in Nat
    BY <1>1, UnitAssumption DEF UnitData
  <2>2. d.free + more \in 0..MaxFreeCast
    BY <1>2, <2>1
  <2> HIDE DEF d
  <2> QED BY <1>1, <2>2 DEF UnitData, Slots
<1>5. Calm(f, p)
  <2>1. more \in Nat
    OBVIOUS
  <2>2. e = [d EXCEPT !.free = @ + more]
    OBVIOUS
  <2> HIDE DEF d, e
  <2> QED BY <1>1, <1>4, <2>1, <2>2, RecalcedCalm
<1> HIDE DEF x, e
<1>6. x \in World /\ x.ud[p] = e /\ x.clock = clock
      /\ \A y, D : With(x, p, y, D) = With(Game, p, y, D)
  BY <1>0, <1>1, <1>3, <1>4 DEF With, World
<1>7. z = With(Game, p, f, clock) /\ f \in UnitData
  <2>1. z = With(x, p, Recalced(x.ud[p], base), x.clock) /\ Recalced(x.ud[p], base) \in UnitData
    BY <1>6, StatusCalcIs
  <2> QED BY <1>6, <2>1
<1>8. /\ \A slot \in Slots : f[slot] = d[slot]
      /\ f.pos = d.pos /\ f.len = d.len /\ f.place = d.place
  <2>1. /\ f.walk = e.walk /\ f.attack = e.attack /\ f.cast = e.cast
        /\ f.pos = e.pos /\ f.len = e.len /\ f.place = e.place
        /\ \A slot \in Slots : f[slot] = e[slot]
    BY <1>4 DEF Recalced, UnitData, Slots
  <2> QED BY <1>4, <2>1
<1> HIDE DEF f, z
<1>9. Sound(With(Game, p, f, Game.clock), lives)
  <2>1. /\ \A slot \in Slots : f[slot] = Game.ud[p][slot]
        /\ Game.ud[p].walk # None => f.pos = Game.ud[p].pos /\ f.len = Game.ud[p].len
        /\ f.place = "gone" <=> Game.ud[p].place = "gone"
    <3>1. Game.ud[p] = d
      BY <1>1
    <3> HIDE DEF d
    <3> QED BY <1>8, <3>1
  <2> QED BY <1>0, <1>1, <1>5, <1>7, <2>1, ChangeSound
<1>10. \A y \in {z} : Sound(y, lives)
  BY <1>1, <1>7, <1>9
<1> QED BY <1>2, <1>10, BecomesInv

-----------------------------------------------------------------------------
(* Lives end and begin                                                     *)

\* A player who leaves the map stops nobody else.
LEMMA RemoveMapOthers ==
    ASSUME NEW l \in Nat, NEW w, Sound(w, l), NEW p \in Players
    PROVE  \A v \in Folk \ {p} : RemoveMap(w, p).ud[v] = w.ud[v]
<1> DEFINE a == StopWalking(w, p)
           b == StopAttack(a, p)
           x == CastCancel(b, p, w.ud[p].spell)
<1>0. p \in Folk /\ p \notin Beasts /\ w.ud \in [Folk -> UnitData]
  BY UnitAssumption DEF Folk, Sound, Timed, World
<1>1. CASE w.ud[p].place # "map"
  BY <1>1 DEF RemoveMap
<1>2. CASE w.ud[p].place = "map"
  <2>1. Good(w, a, l) /\ a.ud = [w.ud EXCEPT ![p] = NoWalk(w.ud[p])]
    BY <1>0, StopWalkingGood
  <2>2. RemoveMap(w, p) = [x EXCEPT !.ud[p].place = "off"]
    BY <1>0, <1>2 DEF RemoveMap
  <2>3. a.ud \in [Folk -> UnitData] /\ a.ud[p].spell = w.ud[p].spell
    <3> HIDE DEF a
    <3>1. NoWalk(w.ud[p]) \in UnitData /\ NoWalk(w.ud[p]).spell = w.ud[p].spell
      <4>1. w.ud[p] \in UnitData
        BY <1>0
      <4>2. NoWalk(w.ud[p]).spell = w.ud[p].spell
        BY <4>1 DEF NoWalk, UnitData
      <4> QED BY <1>0, <4>1, <4>2, NoneTypes
    <3> QED BY <1>0, <2>1, <3>1
  <2>4. Good(a, b, l) /\ b.ud = [a.ud EXCEPT ![p] = NoAttack(a.ud[p])]
    <3> HIDE DEF a
    <3>1. Sound(a, l)
      BY <2>1 DEF Good
    <3> QED BY <1>0, <3>1, StopAttackGood
  <2>5. b.ud \in [Folk -> UnitData] /\ b.ud[p].spell = w.ud[p].spell
    <3> HIDE DEF a, b
    <3>1. NoAttack(a.ud[p]) \in UnitData /\ NoAttack(a.ud[p]).spell = a.ud[p].spell
      BY <1>0, <2>3, NoneTypes DEF NoAttack, UnitData
    <3> QED BY <1>0, <2>3, <2>4, <3>1
  <2>6. Good(b, x, l) /\ x.ud = [b.ud EXCEPT ![p] = NoCast(b.ud[p], p)]
    <3> HIDE DEF a, b
    <3>1. Sound(b, l)
      BY <2>4 DEF Good
    <3>2. /\ Good(b, CastCancel(b, p, b.ud[p].spell), l)
          /\ CastCancel(b, p, b.ud[p].spell).ud = [b.ud EXCEPT ![p] = NoCast(b.ud[p], p)]
      BY <1>0, <3>1, CastCancelGood
    <3> QED BY <2>5, <3>2
  <2> HIDE DEF a, b, x
  <2>7. x \in World
    BY <2>6 DEF Good, Sound, Timed
  <2>8. ASSUME NEW v \in Folk, v # p PROVE RemoveMap(w, p).ud[v] = x.ud[v]
    BY <2>2, <2>7, <2>8 DEF World
  <2> QED BY <1>0, <2>1, <2>4, <2>6, <2>8
<1> QED BY <1>1, <1>2

OutlivedBy(C, u) == {IF UnitOf(t.number) = u THEN [t EXCEPT !.old = TRUE] ELSE t : t \in C}

LEMMA OutlivedFacts ==
    ASSUME NEW C \in SUBSET Clocked, OneEach(C), NEW u \in Folk
    PROVE  /\ OutlivedBy(C, u) \in SUBSET Clocked /\ OneEach(OutlivedBy(C, u))
           /\ \A t \in OutlivedBy(C, u) : UnitOf(t.number) = u => t.old
           /\ \A t \in OutlivedBy(C, u) : \E s \in C : s.number = t.number
           /\ \A t \in Clocked : UnitOf(t.number) # u => (t \in C <=> t \in OutlivedBy(C, u))
<1> DEFINE D == OutlivedBy(C, u)
           Aged(t) == IF UnitOf(t.number) = u THEN [t EXCEPT !.old = TRUE] ELSE t
<1>1. ASSUME NEW t \in Clocked
      PROVE  /\ Aged(t) \in Clocked /\ Aged(t).number = t.number
             /\ UnitOf(t.number) = u => Aged(t).old
             /\ UnitOf(t.number) # u => Aged(t) = t
  BY DEF Clocked
<1>2. D = {Aged(t) : t \in C}
  BY DEF OutlivedBy
<1> HIDE DEF Aged, D
<1>3. \A t \in D : \E s \in C : t = Aged(s)
  BY <1>2
<1>4. \A s \in C : Aged(s) \in D
  BY <1>2
<1>5. D \in SUBSET Clocked
  BY <1>1, <1>3
<1>6. ASSUME NEW s \in D, NEW t \in D, s.number = t.number PROVE s = t
  <2>1. PICK q \in C : s = Aged(q)
    BY <1>3
  <2>2. PICK r \in C : t = Aged(r)
    BY <1>3
  <2>3. q.number = r.number
    BY <1>1, <1>6, <2>1, <2>2
  <2>4. q = r
    BY <2>3 DEF OneEach
  <2> QED BY <2>1, <2>2, <2>4
<1>7. OneEach(D)
  BY <1>6 DEF OneEach
<1>8. ASSUME NEW t \in D
      PROVE  /\ UnitOf(t.number) = u => t.old
             /\ \E s \in C : s.number = t.number
  BY <1>1, <1>3
<1>9. ASSUME NEW t \in Clocked, UnitOf(t.number) # u PROVE t \in C <=> t \in D
  <2>1. t \in C => t \in D
    BY <1>1, <1>4, <1>9
  <2>2. ASSUME t \in D PROVE t \in C
    <3>1. PICK s \in C : t = Aged(s)
      BY <1>3, <2>2
    <3>2. Aged(s) = s
      BY <1>1, <1>9, <3>1
    <3> QED BY <3>1, <3>2
  <2> QED BY <2>1, <2>2
<1> QED BY <1>5, <1>7, <1>8, <1>9 DEF D

\* The timers of u are of its life before: of each function one more at most,
\* and none more if it had left.
LEMMA OutliveOne ==
    ASSUME NEW d \in UnitData, NEW C \in SUBSET Clocked, NEW u \in Folk, NEW l \in Nat,
           Kept(d, C, u, l), NEW e \in UnitData, NEW m \in Nat, OneEach(C),
           \A slot \in Slots : e[slot] = None,
           l + 1 <= m + (IF e.place = "gone" THEN 1 ELSE 0)
    PROVE  Kept(e, OutlivedBy(C, u), u, m)
<1> DEFINE D == OutlivedBy(C, u)
<1>1. /\ D \in SUBSET Clocked
      /\ \A t \in D : UnitOf(t.number) = u => t.old
      /\ \A t \in D : \E s \in C : s.number = t.number
  BY OutlivedFacts
<1> HIDE DEF D
<1>2. Held(e, D, u) /\ Owned(e, D, u) /\ Parted(e)
  BY <1>1 DEF Held, Owned, Parted
<1>3. ASSUME NEW kind \in Kinds
      PROVE  Cardinality(OldOnes(D, u, kind)) <= m + (IF e.place = "gone" THEN 1 ELSE 0)
  <2> DEFINE S == OldOnes(C, u, kind)
             X == {i \in Counts : \E t \in C : t.number = <<u, kind, i>> /\ ~t.old}
  <2>1. OldOnes(D, u, kind) \subseteq S \cup X
    BY <1>1 DEF OldOnes
  <2>2. IsFiniteSet(S) /\ Cardinality(S) \in Nat
        /\ Cardinality(S) <= l + (IF d.place = "gone" THEN 1 ELSE 0)
    BY OldOnesFinite DEF Kept, FewOld
  <2>3. ASSUME NEW i \in X
        PROVE  d.place # "gone" /\ \E slot \in Slots :
                  d[slot] = <<u, kind, i>> /\ kind \in KindsOf(slot)
    <3>1. PICK t \in C : t.number = <<u, kind, i>> /\ ~t.old
      OBVIOUS
    <3>2. UnitOf(t.number) = u /\ KindOf(t.number) = kind /\ t.number # None
      BY <3>1, NumberIsSome
    <3>3. PICK slot \in Slots : d[slot] = t.number
      BY <3>1, <3>2 DEF Kept, Owned
    <3>4. kind \in KindsOf(slot)
      BY <3>2, <3>3 DEF Kept, Held
    <3>5. d.place # "gone"
      BY <3>2, <3>3 DEF Kept, Parted
    <3> QED BY <3>1, <3>3, <3>4, <3>5
  <2> HIDE DEF S, X
  <2>4. CASE X = {}
    <3>1. OldOnes(D, u, kind) \subseteq S
      BY <2>1, <2>4
    <3>2. Cardinality(OldOnes(D, u, kind)) <= Cardinality(S)
          /\ Cardinality(OldOnes(D, u, kind)) \in Nat
      BY <3>1, OldOnesFinite DEF S
    <3> QED BY <2>2, <3>2
  <2>5. CASE X # {}
    <3>1. PICK j : j \in X
      BY <2>5
    <3>2. ASSUME NEW i \in X PROVE i = j
      <4>1. PICK r \in Slots : d[r] = <<u, kind, i>> /\ kind \in KindsOf(r)
        BY <2>3
      <4>2. PICK s \in Slots : d[s] = <<u, kind, j>> /\ kind \in KindsOf(s)
        BY <2>3, <3>1
      <4>3. r = s
        BY <4>1, <4>2 DEF Slots, KindsOf
      <4> QED BY <4>1, <4>2, <4>3
    <3>3. OldOnes(D, u, kind) \subseteq S \cup {j} /\ d.place # "gone"
      BY <2>1, <2>3, <3>1, <3>2
    <3>4. IsFiniteSet(S \cup {j}) /\ Cardinality(S \cup {j}) <= Cardinality(S) + 1
          /\ Cardinality(S \cup {j}) \in Nat
      <4>1. /\ IsFiniteSet(S \cup {j})
            /\ Cardinality(S \cup {j})
                  = IF j \in S THEN Cardinality(S) ELSE Cardinality(S) + 1
        BY <2>2, FS_AddElement
      <4> QED BY <2>2, <4>1
    <3>5. Cardinality(OldOnes(D, u, kind)) <= Cardinality(S \cup {j})
          /\ Cardinality(OldOnes(D, u, kind)) \in Nat
      BY <3>3, <3>4, FS_Subset, FS_CardinalityType
    <3> QED BY <2>2, <3>3, <3>4, <3>5
  <2> QED BY <2>4, <2>5
<1> QED BY <1>2, <1>3 DEF Kept, FewOld, D

\* With the lives of others, what is left of u's may only be more.
LEMMA LaterKept ==
    ASSUME NEW d \in UnitData, NEW C \in SUBSET Clocked, NEW u \in Folk, NEW l \in Nat,
           NEW m \in Nat, l <= m, Kept(d, C, u, l)
    PROVE  Kept(d, C, u, m)
<1>1. ASSUME NEW kind \in Kinds
      PROVE  Cardinality(OldOnes(C, u, kind)) <= m + (IF d.place = "gone" THEN 1 ELSE 0)
  <2>1. Cardinality(OldOnes(C, u, kind)) \in Nat
        /\ Cardinality(OldOnes(C, u, kind)) <= l + (IF d.place = "gone" THEN 1 ELSE 0)
    BY OldOnesFinite DEF Kept, FewOld
  <2> QED BY <2>1
<1> QED BY <1>1 DEF Kept, FewOld

LEMMA NewDataSound ==
    ASSUME NEW l \in Nat, NEW m \in Nat, l <= m, NEW w, Sound(w, l), NEW u \in Folk,
           NEW e \in UnitData, Calm(e, u), \A slot \in Slots : e[slot] = None,
           l + 1 <= m + (IF e.place = "gone" THEN 1 ELSE 0)
    PROVE  Sound(With(w, u, e, OutlivedBy(w.clock, u)), m)
<1> DEFINE D == OutlivedBy(w.clock, u)
<1>1. w \in World /\ w.clock \in SUBSET Clocked /\ OneEach(w.clock)
      /\ w.ud \in [Folk -> UnitData]
  BY DEF Sound, Timed, World
<1>2. Timed(w, m)
  <2>1. ASSUME NEW v \in Folk PROVE Kept(w.ud[v], w.clock, v, m)
    <3>1. w.ud[v] \in UnitData /\ Kept(w.ud[v], w.clock, v, l)
      BY <1>1 DEF Sound, Timed
    <3> QED BY <1>1, <3>1, LaterKept
  <2> QED BY <1>1, <2>1 DEF Timed
<1>3. /\ D \in SUBSET Clocked /\ OneEach(D)
      /\ \A t \in Clocked : UnitOf(t.number) # u => (t \in w.clock <=> t \in D)
  BY <1>1, OutlivedFacts
<1>4. Kept(e, D, u, m)
  <2> DEFINE d == w.ud[u]
             C == w.clock
  <2>1. d \in UnitData /\ C \in SUBSET Clocked /\ Kept(d, C, u, l) /\ OneEach(C)
    BY <1>1 DEF Sound, Timed
  <2> HIDE DEF d, C
  <2>2. Kept(e, OutlivedBy(C, u), u, m)
    BY <2>1, OutliveOne
  <2> QED BY <2>2 DEF C
<1> HIDE DEF D
<1>5. Timed(With(w, u, e, D), m)
  BY <1>2, <1>3, <1>4, WithTimed
<1>6. With(w, u, e, D).ud = [w.ud EXCEPT ![u] = e]
  BY DEF With
<1>7. Sound(w, m)
  BY <1>2 DEF Sound
<1>8. Sound(With(w, u, e, D), m)
  BY <1>5, <1>6, <1>7, TimedSound
<1> QED BY <1>8 DEF D

LEMMA DatasetFacts ==
    ASSUME UnitInv, NEW u \in Folk, NEW place \in {"map", "off", "gone"}
    PROVE  /\ Dataset(u, place) \in UnitData /\ Calm(Dataset(u, place), u)
           /\ \A slot \in Slots : Dataset(u, place)[slot] = None
           /\ Dataset(u, place).spell # "cancel" /\ Dataset(u, place).place = place
<1> DEFINE d == ud[u]
           e == Dataset(u, place)
<1>1. d.free \in 0..MaxFreeCast /\ d.base \in Speeds /\ d.base \in Nat
  <2>1. d \in UnitData
    BY GameFacts
  <2> HIDE DEF d
  <2>2. d.base \in Speeds /\ d.free \in 0..MaxFreeCast
    BY <2>1 DEF UnitData
  <2> QED BY <2>2, UnitAssumption
<1>2. e = [place |-> place, dead |-> FALSE, walk |-> None, attack |-> None, cast |-> None,
           pos |-> 0, len |-> 0, turn |-> FALSE, aim |-> Nobody, spell |-> "id",
           free |-> d.free, base |-> d.base, speed |-> d.base, prev |-> 0]
  BY DEF Dataset
<1> HIDE DEF d, e
<1>3. e \in UnitData
  BY <1>1, <1>2 DEF UnitData, Spells
<1>4. Calm(e, u)
  BY <1>2 DEF Calm
<1>5. \A slot \in Slots : e[slot] = None
  BY <1>2 DEF Slots
<1>6. e.spell # "cancel" /\ e.place = place
  BY <1>2
<1> QED BY <1>3, <1>4, <1>5, <1>6 DEF e

LEMMA LogOutInv ==
    ASSUME UnitInv, NEW p \in Players, LogOut(p) PROVE UnitInv'
<1> DEFINE w == RemoveMap(Game, p)
           e == Dataset(p, "gone")
<1>0. p \in Folk /\ lives \in Nat /\ lives \in 0..MaxLives /\ Sound(Game, lives)
      /\ Game.ud = ud
  BY GameFacts DEF Folk
<1>1. /\ e \in UnitData /\ Calm(e, p) /\ (\A slot \in Slots : e[slot] = None)
      /\ e.spell # "cancel" /\ e.place = "gone"
  BY <1>0, DatasetFacts
<1>2. Sound(w, lives)
  <2>1. Good(Game, w, lives)
    BY <1>0, RemoveMapGood
  <2> QED BY <2>1 DEF Good
<1>3. \A v \in Folk \ {p} : w.ud[v] = ud[v]
  BY <1>0, RemoveMapOthers
<1>4. /\ ud' = [w.ud EXCEPT ![p] = e] /\ clock' = OutlivedBy(w.clock, p) /\ lives' = lives
  BY DEF LogOut, Outlived, OutlivedBy
<1> HIDE DEF w, e
<1>5. Sound(With(w, p, e, OutlivedBy(w.clock, p)), lives)
  BY <1>0, <1>1, <1>2, NewDataSound
<1>6. Game' = With(w, p, e, OutlivedBy(w.clock, p))
  BY <1>4 DEF Game, With
<1>7. Sound(Game', lives')
  BY <1>4, <1>5, <1>6
<1>8. ASSUME NEW v \in Folk PROVE ud'[v].spell # "cancel"
  <2>1. w.ud \in [Folk -> UnitData]
    BY <1>2 DEF Sound, Timed, World
  <2> QED BY <1>1, <1>3, <1>4, <2>1 DEF UnitInv
<1> QED BY <1>0, <1>4, <1>7, <1>8 DEF UnitInv

LEMMA NewLifeInv ==
    ASSUME UnitInv, NEW u \in Folk, NewLife(u) PROVE UnitInv'
<1> DEFINE place == IF u \in Players THEN "off" ELSE "map"
           e == Dataset(u, place)
<1>0. lives \in Nat /\ Sound(Game, lives) /\ Game.ud = ud /\ Game.clock = clock
      /\ ud \in [Folk -> UnitData]
  BY GameFacts
<1>1. /\ e \in UnitData /\ Calm(e, u) /\ (\A slot \in Slots : e[slot] = None)
      /\ e.spell # "cancel" /\ e.place # "gone"
  <2>1. place \in {"map", "off", "gone"} /\ place # "gone"
    OBVIOUS
  <2> HIDE DEF place
  <2> QED BY <2>1, DatasetFacts
<1>2. /\ ud' = [ud EXCEPT ![u] = e] /\ clock' = OutlivedBy(Game.clock, u)
      /\ lives' = lives + 1 /\ lives < MaxLives
  BY DEF NewLife, Outlived, OutlivedBy
<1> HIDE DEF e
<1>3. Sound(With(Game, u, e, OutlivedBy(Game.clock, u)), lives + 1)
  <2> DEFINE m == lives + 1
  <2>1. m \in Nat /\ lives <= m /\ lives + 1 <= m + (IF e.place = "gone" THEN 1 ELSE 0)
    BY <1>0, <1>1
  <2> HIDE DEF m
  <2>2. Sound(With(Game, u, e, OutlivedBy(Game.clock, u)), m)
    BY <1>0, <1>1, <2>1, NewDataSound
  <2> QED BY <2>2 DEF m
<1>4. Game' = With(Game, u, e, OutlivedBy(Game.clock, u))
  BY <1>0, <1>2 DEF Game, With
<1>5. Sound(Game', lives')
  BY <1>2, <1>3, <1>4
<1>6. \A v \in Folk : ud'[v].spell # "cancel"
  BY <1>0, <1>1, <1>2 DEF UnitInv
<1>7. lives' \in 0..MaxLives
  BY <1>0, <1>2, UnitAssumption
<1> QED BY <1>5, <1>6, <1>7 DEF UnitInv

LEMMA UnitTimerInv ==
    ASSUME UnitInv, NEW t \in clock, UnitTimer(t) PROVE UnitInv'
<1> DEFINE n == t.number
           u == UnitOf(n)
           d == Game.ud[u]
           w == After(Game, n)
           W == IF ud[u].place = "gone" THEN {w}
                ELSE IF KindOf(n) = "walk" THEN WalktoxyTimer(w, n, t.step)
                ELSE IF KindOf(n) = "attack" THEN AttackTimerSub(w, u, n)
                ELSE CastendTimer(w, n)
<1>1. Sound(Game, lives) /\ lives \in Nat /\ lives \in 0..MaxLives /\ Game \in World
      /\ Game.ud = ud /\ Game.clock = clock /\ clock \in SUBSET Clocked
  BY GameFacts
<1>2. Becomes(W) /\ UNCHANGED lives
  BY DEF UnitTimer, After
<1>3. n \in Numbers /\ u \in Folk /\ n # None /\ KindOf(n) \in Kinds
  <2>1. n \in Numbers
    BY <1>1 DEF Clocked
  <2> HIDE DEF n
  <2> QED BY <2>1, NumberIsSome
<1>4. /\ d \in UnitData /\ Calm(d, u) /\ Parted(d) /\ Kept(d, clock, u, lives)
  BY <1>1, <1>3 DEF Sound, Timed, World, Kept
<1>5. w.ud = ud /\ w.ud[u] = d
  BY <1>1, AfterIs
<1>6. (\A slot \in Slots : d[slot] # n) => Sound(w, lives)
  <2>1. n \in Numbers
    BY <1>3
  <2> HIDE DEF n
  <2> QED BY <1>1, <2>1, AfterUnheld
<1>7. /\ KindOf(n) = "walk" /\ d.walk # n => Sound(w, lives)
      /\ KindOf(n) = "attack" /\ d.attack # n => Sound(w, lives)
      /\ KindOf(n) \in {"id", "pos"} /\ d.cast # n => Sound(w, lives)
  <2>1. n \in Numbers
    BY <1>3
  <2> HIDE DEF n
  <2> QED BY <1>1, <1>6, <2>1, HeldByKind
<1>8. /\ d.walk = n => [w EXCEPT !.ud[u].walk = None]
                          = With(Game, u, [d EXCEPT !.walk = None], Less(Game, u, "walk"))
      /\ d.attack = n => [w EXCEPT !.ud[u].attack = None]
                            = With(Game, u, NoAttack(d), Less(Game, u, "attack"))
      /\ d.cast = n => [Quicken(w, u) EXCEPT !.ud[u].cast = None]
                          = With(Game, u, NoCast(d, u), Less(Game, u, "cast"))
  <2>1. n # None /\ u \in Folk /\ Game \in World
    BY <1>1, <1>3
  <2> HIDE DEF n, u
  <2>2. d.walk = n => [w EXCEPT !.ud[u].walk = None]
                         = With(Game, u, [d EXCEPT !.walk = None], Less(Game, u, "walk"))
    BY <2>1, ClearedIs, Zenon
  <2>3. d.attack = n => [w EXCEPT !.ud[u].attack = None]
                           = With(Game, u, NoAttack(d), Less(Game, u, "attack"))
    BY <2>1, ClearedIs
  <2>4. d.cast = n => [Quicken(w, u) EXCEPT !.ud[u].cast = None]
                         = With(Game, u, NoCast(d, u), Less(Game, u, "cast"))
    BY <2>1, ClearedIs
  <2> QED BY <2>2, <2>3, <2>4
<1> DEFINE a == [d EXCEPT !.walk = None]
<1>9. /\ a \in UnitData /\ Calm(a, u) /\ a.walk = None /\ a.place = d.place
      /\ a.cast = d.cast /\ a.free = d.free
      /\ NoAttack(d).attack = None /\ NoAttack(d).place = d.place
      /\ NoAttack(d).aim = d.aim
  <2>1. d \in UnitData /\ Calm(d, u)
    BY <1>4
  <2> HIDE DEF d
  <2>2. a \in UnitData /\ Calm(a, u)
    BY <2>1 DEF UnitData, Calm
  <2> QED BY <2>1, <2>2 DEF UnitData, NoAttack
<1>10. Sound(With(Game, u, a, Less(Game, u, "walk")), lives)
  <2>1. a["walk"] = None /\ "walk" \in Slots /\ \A s \in Slots \ {"walk"} : a[s] = d[s]
    <3> HIDE DEF d
    <3> QED BY <1>4, <1>9 DEF UnitData, Slots
  <2> HIDE DEF a, n
  <2> QED BY <1>1, <1>3, <1>9, <2>1, DropSound
<1>11. Sound(With(Game, u, NoAttack(d), Less(Game, u, "attack")), lives)
  <2> DEFINE e == NoAttack(d)
  <2>1. e \in UnitData /\ Calm(e, u)
    BY <1>3, <1>4, NoneTypes
  <2>2. /\ e["attack"] = None /\ "attack" \in Slots
        /\ \A s \in Slots \ {"attack"} : e[s] = d[s]
        /\ e.pos = d.pos /\ e.len = d.len /\ e.place = d.place
    <3> HIDE DEF d
    <3> QED BY <1>4 DEF UnitData, Slots, NoAttack
  <2> HIDE DEF e, n
  <2>3. Sound(With(Game, u, e, Less(Game, u, "attack")), lives)
    BY <1>1, <1>3, <2>1, <2>2, DropSound
  <2> QED BY <2>3 DEF e
<1>12. Sound(With(Game, u, NoCast(d, u), Less(Game, u, "cast")), lives)
  <2> DEFINE e == NoCast(d, u)
  <2>1. e \in UnitData /\ Calm(e, u)
    BY <1>3, <1>4, NoneTypes
  <2>2. /\ e["cast"] = None /\ "cast" \in Slots
        /\ \A s \in Slots \ {"cast"} : e[s] = d[s]
        /\ e.pos = d.pos /\ e.len = d.len /\ e.place = d.place
    <3> HIDE DEF d, u
    <3> QED BY <1>4 DEF UnitData, Slots, NoCast
  <2> HIDE DEF e, n
  <2>3. Sound(With(Game, u, e, Less(Game, u, "cast")), lives)
    BY <1>1, <1>3, <2>1, <2>2, DropSound
  <2> QED BY <2>3 DEF e
<1>13. CASE d.place = "gone"
  <2>1. \A slot \in Slots : d[slot] # n
    BY <1>3, <1>4, <1>13 DEF Parted
  <2>2. W = {w}
    BY <1>1, <1>13
  <2>3. \A x \in W : Sound(x, lives)
    BY <1>6, <2>1, <2>2
  <2> HIDE DEF W
  <2> QED BY <1>2, <2>3, BecomesInv
<1>14. CASE d.place # "gone" /\ KindOf(n) = "walk"
  <2>1. W = WalktoxyTimer(w, n, t.step)
    BY <1>1, <1>14
  <2> DEFINE v == [w EXCEPT !.ud[u].walk = None]
  <2>2. w.ud[u].walk # n => Sound(w, lives)
    BY <1>5, <1>7, <1>14
  <2>3. ASSUME d.walk = n PROVE Sound(v, lives) /\ MayWalk(v.ud[u], u)
    <3>1. v = With(Game, u, a, Less(Game, u, "walk"))
      BY <1>8, <2>3
    <3>2. With(Game, u, a, Less(Game, u, "walk")).ud[u] = a
      <4> HIDE DEF a
      <4> QED BY <1>1, <1>3 DEF With, World
    <3>3. MayWalk(a, u)
      <4>1. u \in Players => d.cast = None \/ d.free > 0
        <5>1. d.walk # None
          BY <1>3, <2>3
        <5>3. d.free \in 0..20
          BY <1>4, UnitNumbers
        <5>2. d.free = 0 \/ d.free > 0
          BY <5>3
        <5> QED BY <1>4, <5>1, <5>2 DEF Calm
      <4> HIDE DEF a, d
      <4> QED BY <1>9, <1>14, <4>1 DEF MayWalk
    <3> HIDE DEF v, a
    <3> QED BY <1>10, <3>1, <3>2, <3>3
  <2>4. w.ud[u].walk = n => Sound(v, lives) /\ MayWalk(v.ud[u], u)
    BY <1>5, <2>3
  <2>5. \A y \in WalktoxyTimer(w, n, t.step) : Sound(y, lives)
    <3>1. lives \in 0..MaxLives /\ UnitOf(n) \in Folk
      BY <1>1, <1>3
    <3> HIDE DEF w, n
    <3> QED BY <3>1, <2>2, <2>4, WalktoxyTimerSound
  <2> HIDE DEF W
  <2> QED BY <1>2, <2>1, <2>5, BecomesInv
<1>15. CASE d.place # "gone" /\ KindOf(n) = "attack"
  <2>1. W = AttackTimerSub(w, u, n)
    BY <1>1, <1>15
  <2> DEFINE v == [w EXCEPT !.ud[u].attack = None]
  <2>2. w.ud[u].attack # n => Sound(w, lives)
    BY <1>5, <1>7, <1>15
  <2>3. ASSUME d.attack = n
        PROVE  Sound(v, lives) /\ MayAttack(v.ud[u]) /\ v.ud[u].aim = d.aim
    <3> DEFINE e == NoAttack(d)
    <3>1. v = With(Game, u, e, Less(Game, u, "attack"))
      BY <1>8, <2>3
    <3>2. With(Game, u, e, Less(Game, u, "attack")).ud[u] = e
      <4> HIDE DEF e
      <4> QED BY <1>1, <1>3 DEF With, World
    <3>3. MayAttack(e) /\ e.aim = d.aim
      BY <1>9, <1>15 DEF MayAttack
    <3>4. Sound(With(Game, u, e, Less(Game, u, "attack")), lives)
      BY <1>11
    <3> HIDE DEF v, e
    <3> QED BY <3>1, <3>2, <3>3, <3>4
  <2>4. w.ud[u].attack = n =>
           Sound(v, lives) /\ MayAttack(v.ud[u]) /\ v.ud[u].aim = w.ud[u].aim
    BY <1>5, <2>3
  <2>5. \A y \in AttackTimerSub(w, u, n) : Sound(y, lives)
    <3>1. lives \in 0..MaxLives /\ u \in Folk
      BY <1>1, <1>3
    <3> HIDE DEF w, n, u
    <3> QED BY <3>1, <2>2, <2>4, AttackTimerSubSound
  <2> HIDE DEF W
  <2> QED BY <1>2, <2>1, <2>5, BecomesInv
<1>16. CASE d.place # "gone" /\ KindOf(n) \notin {"walk", "attack"}
  <2>1. W = CastendTimer(w, n) /\ KindOf(n) \in {"id", "pos"}
    BY <1>1, <1>3, <1>16 DEF Kinds
  <2> DEFINE v == [Quicken(w, u) EXCEPT !.ud[u].cast = None]
  <2>2. w.ud[u].cast # n => Sound(w, lives)
    BY <1>5, <1>7, <2>1
  <2>3. w.ud[u].cast = n => Sound(v, lives) /\ w.ud[u].place = "map"
    <3>1. SUFFICES ASSUME d.cast = n PROVE Sound(v, lives) /\ d.place = "map"
      BY <1>5
    <3>2. v = With(Game, u, NoCast(d, u), Less(Game, u, "cast"))
      BY <1>8, <3>1
    <3>3. d.place = "map"
      BY <1>3, <1>4, <3>1 DEF Calm
    <3> HIDE DEF v
    <3> QED BY <1>12, <3>2, <3>3
  <2>4. w.ud[u].spell # "cancel"
    BY <1>1, <1>3, <1>5 DEF UnitInv
  <2>5. \A y \in CastendTimer(w, n) : Sound(y, lives)
    <3>1. lives \in Nat /\ UnitOf(n) \in Folk
      BY <1>1, <1>3
    <3> HIDE DEF w, n
    <3> QED BY <3>1, <2>2, <2>3, <2>4, CastendTimerSound
  <2> HIDE DEF W
  <2> QED BY <1>2, <2>1, <2>5, BecomesInv
<1> QED BY <1>13, <1>14, <1>15, <1>16

LEMMA UnitInitInv ==
    ASSUME UnitInit PROVE UnitInv
<1>1. ud \in [Folk -> {[place |-> "map", dead |-> FALSE, walk |-> None, attack |-> None,
                         cast |-> None, pos |-> 0, len |-> 0, turn |-> FALSE,
                         aim |-> Nobody, spell |-> "id",
                         free |-> 0, base |-> s, speed |-> s, prev |-> 0] : s \in Speeds}]
  BY DEF UnitInit
<1>2. ASSUME NEW u \in Folk
      PROVE  /\ ud[u] \in UnitData /\ Calm(ud[u], u) /\ ud[u].spell # "cancel"
             /\ ud[u].place = "map" /\ \A slot \in Slots : ud[u][slot] = None
  <2>1. PICK s \in Speeds :
            ud[u] = [place |-> "map", dead |-> FALSE, walk |-> None, attack |-> None,
                     cast |-> None, pos |-> 0, len |-> 0, turn |-> FALSE,
                     aim |-> Nobody, spell |-> "id",
                     free |-> 0, base |-> s, speed |-> s, prev |-> 0]
    BY <1>1
  <2>2. s \in Nat /\ 0 \in 0..MaxFreeCast
    BY UnitAssumption
  <2> DEFINE e == ud[u]
  <2>3. e = [place |-> "map", dead |-> FALSE, walk |-> None, attack |-> None,
             cast |-> None, pos |-> 0, len |-> 0, turn |-> FALSE,
             aim |-> Nobody, spell |-> "id",
             free |-> 0, base |-> s, speed |-> s, prev |-> 0]
    BY <2>1
  <2> HIDE DEF e
  <2>4. e \in UnitData
    BY <2>2, <2>3 DEF UnitData, Spells
  <2>5. Calm(e, u) /\ e.spell # "cancel" /\ e.place = "map"
    BY <2>3 DEF Calm
  <2>6. \A slot \in Slots : e[slot] = None
    BY <2>3 DEF Slots
  <2> QED BY <2>4, <2>5, <2>6 DEF e
<1>3. clock = {} /\ lives = 0
  BY DEF UnitInit
<1>4. ASSUME NEW u \in Folk PROVE Kept(ud[u], {}, u, 0)
  <2>1. Held(ud[u], {}, u) /\ Owned(ud[u], {}, u) /\ Parted(ud[u])
    BY <1>2 DEF Held, Owned, Parted
  <2>2. \A kind \in Kinds : OldOnes({}, u, kind) = {}
    BY DEF OldOnes
  <2>3. Cardinality({}) = 0
    BY FS_EmptySet
  <2>4. ud[u].place # "gone"
    BY <1>2
  <2>5. FewOld(ud[u], {}, u, 0)
    <3> SUFFICES ASSUME NEW kind \in Kinds
                 PROVE  Cardinality(OldOnes({}, u, kind)) <= 0
      BY <2>4 DEF FewOld
    <3>1. Cardinality(OldOnes({}, u, kind)) = 0
      BY <2>2, <2>3
    <3> QED BY <3>1
  <2> QED BY <2>1, <2>5 DEF Kept
<1>5. Game \in World /\ Game.ud = ud /\ Game.clock = {}
  BY <1>1, <1>2, <1>3 DEF World, Game
<1>6. Sound(Game, 0)
  BY <1>2, <1>4, <1>5 DEF Sound, Timed, OneEach
<1> QED BY <1>2, <1>3, <1>6, UnitAssumption DEF UnitInv

LEMMA UnitNextInv ==
    ASSUME UnitInv, UnitNext PROVE UnitInv'
<1>1. ASSUME NEW t \in clock, UnitTimer(t) PROVE UnitInv'
  BY <1>1, UnitTimerInv
<1>2. ASSUME NEW p \in Players,
             WalkToXY(p) \/ Warp(p) \/ LoadEndAck(p) \/ Revive(p) \/ LogOut(p)
      PROVE  UnitInv'
  BY <1>2, WalkToXYInv, WarpInv, LoadEndAckInv, ReviveInv, LogOutInv
<1>3. ASSUME NEW p \in Players, NEW t \in Folk, ActionRequest(p, t) PROVE UnitInv'
  BY <1>3, ActionRequestInv
<1>4. ASSUME NEW p \in Players, NEW s \in Spells, UseSkill(p, s) PROVE UnitInv'
  BY <1>4, UseSkillInv
<1>5. ASSUME NEW p \in Players, NEW s \in Speeds, NEW more \in {0, 1}, Recalc(p, s, more)
      PROVE  UnitInv'
  BY <1>5, RecalcInv
<1>6. ASSUME NEW b \in Beasts, Think(b) \/ Answer(b) PROVE UnitInv'
  BY <1>6, ThinkInv, AnswerInv
<1>7. ASSUME NEW u \in Folk, Befall(u) \/ NewLife(u) PROVE UnitInv'
  BY <1>7, BefallInv, NewLifeInv
<1> QED BY <1>1, <1>2, <1>3, <1>4, <1>5, <1>6, <1>7, Zenon DEF UnitNext

\* The timers that are set are those the units of this life hold, one for each
\* of its slots at most, whoever casts is there and calm, and of each function
\* no more timers are left over than lives have ended.
THEOREM UnitInvariance == UnitSpec => []UnitInv
<1>1. UnitInit => UnitInv
  BY UnitInitInv
<1>2. UnitInv /\ [UnitNext]_unitVars => UnitInv'
  <2>1. ASSUME UnitInv, UNCHANGED unitVars PROVE UnitInv'
    BY <2>1 DEF unitVars, UnitInv, Game
  <2> QED BY <2>1, UnitNextInv
<1> QED BY <1>1, <1>2, PTL DEF UnitSpec

\* The units' data and the timers have their types, and no two timers that are
\* set have the same number.
THEOREM UnitTypeCorrect == UnitSpec => []UnitTypeOK
<1>1. UnitInv => UnitTypeOK
  <2>1. ASSUME UnitInv PROVE UnitTypeOK
    <3>1. ud \in [Folk -> UnitData] /\ clock \in SUBSET Clocked /\ lives \in 0..MaxLives
      BY <2>1, GameFacts
    <3>2. OneEach(clock)
      BY <2>1 DEF UnitInv, Sound, Timed, Game
    <3> QED BY <3>1, <3>2 DEF UnitTypeOK, OneEach
  <2> QED BY <2>1
<1> QED BY <1>1, UnitInvariance, PTL

\* Each number a unit holds is that of a timer which is set and which the
\* function that deletes it names, and no other timer of this life is set,
\* whatever stopped, warped or killed the unit in the middle of its own timers.
THEOREM TimersMatchHolds == UnitSpec => []TimersMatch
<1>1. UnitInv => TimersMatch
  <2> SUFFICES ASSUME UnitInv PROVE TimersMatch
    OBVIOUS
  <2>1. \A u \in Folk : Calm(ud[u], u) /\ Held(ud[u], clock, u) /\ Owned(ud[u], clock, u)
    BY GameFacts DEF Kept
  <2>2. ASSUME NEW u \in Folk, NEW slot \in Slots, ud[u][slot] # None
        PROVE  /\ KindOf(ud[u][slot]) = Names(u, slot)
               /\ \E t \in clock :
                     /\ t.number = ud[u][slot] /\ ~t.old
                     /\ slot = "walk" => t.step = ud[u].pos /\ t.step < ud[u].len
    <3>1. KindOf(ud[u][slot]) \in KindsOf(slot)
      BY <2>1, <2>2 DEF Held
    <3>2. KindOf(ud[u][slot]) = Names(u, slot)
      BY <2>1, <2>2, <3>1 DEF Calm, Names, KindsOf, Slots
    <3>3. \E t \in clock :
             /\ t.number = ud[u][slot] /\ ~t.old
             /\ slot = "walk" => t.step = ud[u].pos /\ t.step < ud[u].len
      BY <2>1, <2>2 DEF Held
    <3> QED BY <3>2, <3>3
  <2>3. ASSUME NEW t \in clock, ~t.old
        PROVE  \E slot \in Slots : ud[UnitOf(t.number)][slot] = t.number
    <3>1. t.number \in Numbers
      BY GameFacts DEF Clocked
    <3>2. UnitOf(t.number) \in Folk
      BY <3>1, NumberIsSome
    <3> QED BY <2>1, <2>3, <3>2 DEF Owned
  <2> QED BY <2>2, <2>3 DEF TimersMatch, Slots
<1> QED BY <1>1, UnitInvariance, PTL

\* Who casts is on the map and alive, so that the end of the cast finds it
\* there and forgets the timer.
THEOREM CastersOnMapHolds == UnitSpec => []CastersOnMap
<1>1. UnitInv => CastersOnMap
  BY GameFacts DEF CastersOnMap, Calm, Alive
<1> QED BY <1>1, UnitInvariance, PTL

\* A player who casts without SA_FREECAST does not walk.
THEOREM StandsWhileCastingHolds == UnitSpec => []StandsWhileCasting
<1>1. UnitInv => StandsWhileCasting
  BY GameFacts DEF StandsWhileCasting, Calm, Folk
<1> QED BY <1>1, UnitInvariance, PTL

\* A player is slow while it casts with SA_FREECAST, by the level it has now,
\* and at no other time.
THEOREM SpeedMatchesHolds == UnitSpec => []SpeedMatches
<1>1. UnitInv => SpeedMatches
  BY GameFacts DEF SpeedMatches, Calm, Folk
<1> QED BY <1>1, UnitInvariance, PTL

=============================================================================
