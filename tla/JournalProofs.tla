---------------------------- MODULE JournalProofs ----------------------------
(***************************************************************************)
(* Theorems about Journal for every set of characters and every bound: the *)
(* table in memory, the chunks that hold an only copy, and, as long as two *)
(* flushes never fall into one second, the promise of Store.               *)
(***************************************************************************)
EXTENDS Journal, SequenceTheorems, WellFoundedInduction, TLAPS

Values == Contents \cup {NoChar}
Recorded == Chunk \cup {Torn}

\* A chunk of the file is used once: by an entry of the journal, or by the queue
\* of free chunks; and a flushed entry's chunk is that entry's.
EntriesApart ==
    /\ \A i, j \in DOMAIN freeq : freeq[i] = freeq[j] => i = j
    /\ \A i \in DOMAIN freeq : freeq[i] \in DOMAIN chunks
    /\ \A k \in CharIds : jdb[k].idx # 0 =>
          /\ jdb[k].idx \in DOMAIN chunks
          /\ \A i \in DOMAIN freeq : freeq[i] # jdb[k].idx
          /\ chunks[jdb[k].idx] = Torn \/ chunks[jdb[k].idx].key = k
          /\ jdb[k].buf = Clean => chunks[jdb[k].idx].key = k
    /\ \A k, l \in CharIds : jdb[k].idx # 0 /\ jdb[k].idx = jdb[l].idx => k = l

\* An entry is cached as it is in the table.
CachedIsTable ==
    \A k \in CharIds : jdb[k].buf # Clean => jdb[k].buf = charDat[k]

\* What each phase of the program says of its journal and its files.
PhasesFit ==
    /\ jphase \in {"flush", "final"} => jmode = "write" /\ todo \subseteq Dirty
    /\ jphase \in {"renamed", "final", "closed"} => txt = charDat
    /\ jmode # "write" => freeq = <<>> /\ \A k \in CharIds : jdb[k] = NoEntry
    /\ jmode = "read" => jphase \in {"tmp", "removed", "renamed", "closed"}
    /\ jphase = "down" => charDat = NoChars /\ jmode = "none"

\* What a crash would leave of a character is all that is possible of it.
DownIsLast ==
    jphase = "down" => \A k \in CharIds :
        possible[k] = IF txt = Missing THEN <<RolledForward(chunks, NoChars)[k], NoChar>>
                      ELSE <<RolledForward(chunks, txt)[k]>>

JournalInv ==
    /\ JournalTypeOK
    /\ \A k \in CharIds : possible[k] # <<>>
    /\ jphase # "closed" => EntriesApart
    /\ CachedIsTable
    /\ PhasesFit
    /\ DownIsLast
    /\ TableIsNewest

\* The latest chunk of a character is not free; its value is one the character
\* may come back with, and the newest if the entry has been flushed.
LatestKept ==
    \A k \in CharIds :
        /\ ChunksOf(chunks, k) # {} =>
              /\ \A i \in DOMAIN freeq : freeq[i] # Kept(chunks, k)
              /\ jdb[k].idx # 0 /\ jdb[k].buf = Clean => Kept(chunks, k) = jdb[k].idx
        /\ jdb[k].idx # 0 /\ jdb[k].buf = Clean => chunks[jdb[k].idx].val = charDat[k]
        /\ jmode = "write" /\ jdb[k].idx = 0 => ChunksOf(chunks, k) = {}
        /\ jmode = "write" /\ jdb[k] = NoEntry => txt = Missing \/ txt[k] = charDat[k]

\* The chunks of a character were written in seconds that have passed, and those
\* of one that is still to be flushed before this one.
WrittenBefore ==
    \A k \in CharIds : \A i \in ChunksOf(chunks, k) :
        /\ chunks[i].stamp <= stamp
        /\ k \in todo => chunks[i].stamp < stamp

\* What the files hold of a character is possible.
Recoverable ==
    \A k \in CharIds :
        IF ChunksOf(chunks, k) # {}
        THEN chunks[Kept(chunks, k)].val \in Range(possible[k])
        ELSE txt = Missing \/ txt[k] \in Range(possible[k])

FilesInv ==
    /\ jphase # "closed" => LatestKept
    /\ WrittenBefore
    /\ Recoverable

-----------------------------------------------------------------------------
(* Chunks *)

\* A set of natural numbers that is not empty has a least one.
LEMMA LeastExists ==
    ASSUME NEW T \in SUBSET Nat, T # {}
    PROVE  \E x \in T : \A y \in T : x <= y
<1>1. IsWellFoundedOn(OpToRel(<, Nat), Nat)
  BY NatLessThanWellFounded
<1>2. PICK x \in T : \A y \in T : ~(<<y, x>> \in OpToRel(<, Nat))
  BY <1>1, WFMin, Zenon
<1>3. \A y \in T : y \in Nat /\ x \in Nat => ~(y < x)
  BY <1>2, Zenon DEF OpToRel
<1> QED BY <1>3

\* i is the chunk of k that journal_load keeps.
IsKept(cs, k, i) ==
    /\ i \in ChunksOf(cs, k)
    /\ \A j \in ChunksOf(cs, k) :
          cs[j].stamp < cs[i].stamp \/ (cs[j].stamp = cs[i].stamp /\ i <= j)

LEMMA ChunkOfKey ==
    ASSUME NEW cs \in Seq(Recorded), NEW k \in CharIds, NEW i \in ChunksOf(cs, k)
    PROVE  i \in 1..Len(cs) /\ cs[i] \in Chunk
<1>1. i \in 1..Len(cs) /\ cs[i] \in Recorded /\ cs[i].key = k
  BY DEF ChunksOf
<1> QED BY <1>1, JournalAssumption DEF Recorded, Torn

\* Of the chunks of a character journal_load keeps exactly one.
LEMMA KeptExists ==
    ASSUME NEW cs \in Seq(Recorded), NEW k \in CharIds, ChunksOf(cs, k) # {}
    PROVE  IsKept(cs, k, Kept(cs, k))
<1> DEFINE C == ChunksOf(cs, k)
           Ages == {MaxStamp - cs[i].stamp : i \in C}
<1>1. \A i \in C : i \in 1..Len(cs) /\ cs[i].stamp \in 0..MaxStamp
  BY ChunkOfKey DEF Chunk
<1>2. Ages \in SUBSET Nat /\ Ages # {}
  BY <1>1, JournalAssumption
<1>3. PICK a \in Ages : \A b \in Ages : a <= b
  BY <1>2, LeastExists
<1> DEFINE Latest == {i \in C : MaxStamp - cs[i].stamp = a}
<1>4. Latest \in SUBSET Nat /\ Latest # {}
  BY <1>1, <1>3
<1>5. PICK i \in Latest : \A j \in Latest : i <= j
  BY <1>4, LeastExists
<1>6. IsKept(cs, k, i)
  <2> SUFFICES ASSUME NEW j \in C
               PROVE  cs[j].stamp < cs[i].stamp \/ (cs[j].stamp = cs[i].stamp /\ i <= j)
    BY <1>5 DEF IsKept
  <2>1. MaxStamp - cs[i].stamp <= MaxStamp - cs[j].stamp
    BY <1>3, <1>5
  <2>2. CASE cs[j].stamp = cs[i].stamp
    BY <2>2, <1>5
  <2>3. CASE cs[j].stamp # cs[i].stamp
    BY <2>1, <2>3, <1>1, <1>5, JournalAssumption
  <2> QED BY <2>2, <2>3
<1> QED BY <1>6 DEF IsKept, Kept

LEMMA KeptUnique ==
    ASSUME NEW cs \in Seq(Recorded), NEW k \in CharIds, NEW i, IsKept(cs, k, i)
    PROVE  Kept(cs, k) = i
<1> DEFINE n == Kept(cs, k)
<1>1. IsKept(cs, k, n)
  BY KeptExists DEF IsKept
<1>2. \A j \in ChunksOf(cs, k) : j \in 1..Len(cs) /\ cs[j].stamp \in Nat
  BY ChunkOfKey, JournalAssumption DEF Chunk
<1>3. i \in ChunksOf(cs, k) /\ n \in ChunksOf(cs, k)
  BY <1>1 DEF IsKept
<1>4. /\ cs[n].stamp < cs[i].stamp \/ (cs[n].stamp = cs[i].stamp /\ i <= n)
      /\ cs[i].stamp < cs[n].stamp \/ (cs[i].stamp = cs[n].stamp /\ n <= i)
  BY <1>1, <1>3 DEF IsKept
<1>5. i \in Int /\ n \in Int /\ cs[n].stamp \in Int /\ cs[i].stamp \in Int
  BY <1>2, <1>3
<1> HIDE DEF n
<1>6. i = n
  BY <1>4, <1>5
<1> QED BY <1>6 DEF n

\* Rolling the journal forward gives every character a content.
LEMMA RolledForwardType ==
    ASSUME NEW cs \in Seq(Recorded), NEW table \in [CharIds -> Values]
    PROVE  RolledForward(cs, table) \in [CharIds -> Values]
<1> SUFFICES ASSUME NEW k \in CharIds, ChunksOf(cs, k) # {}
             PROVE  cs[Kept(cs, k)].val \in Values
  BY DEF RolledForward
<1>1. cs[Kept(cs, k)] \in Chunk
  BY KeptExists, ChunkOfKey DEF IsKept
<1> QED BY <1>1 DEF Chunk, Values

\* The queue of free chunks names chunks of the file, each of them once.
FreeApart ==
    /\ \A i, j \in DOMAIN freeq : freeq[i] = freeq[j] => i = j
    /\ \A i \in DOMAIN freeq : freeq[i] \in DOMAIN chunks

\* Writing changes one chunk of the file, one that was free or a new one.
LEMMA WriteChunkChanges ==
    ASSUME chunks \in Seq(Recorded), freeq \in Seq(Nat \ {0}), FreeApart,
           NEW c \in Recorded, WriteChunk(c)
    PROVE  /\ chunks' \in Seq(Recorded)
           /\ Place \in DOMAIN chunks' /\ chunks'[Place] = c
           /\ DOMAIN chunks' = DOMAIN chunks \cup {Place}
           /\ \A i \in DOMAIN chunks : i # Place => chunks'[i] = chunks[i]
<1>1. CASE freeq = <<>>
  <2>1. Place = Len(chunks) + 1 /\ Len(chunks) \in Nat
    BY <1>1 DEF Place
  <2>2. chunks' = Append(chunks, c)
    BY <2>1 DEF WriteChunk
  <2> QED BY <2>1, <2>2, AppendProperties
<1>2. CASE freeq # <<>>
  <2>1. Place = Head(freeq) /\ 1 \in DOMAIN freeq /\ Head(freeq) = freeq[1]
    BY <1>2 DEF Place
  <2>2. Place \in 1..Len(chunks)
    BY <2>1 DEF FreeApart
  <2>3. chunks' = [chunks EXCEPT ![Place] = c]
    BY <2>2 DEF WriteChunk
  <2>4. chunks' \in Seq(Recorded) /\ Len(chunks') = Len(chunks)
    BY <2>2, <2>3, ExceptSeq
  <2> QED BY <2>2, <2>3, <2>4
<1> QED BY <1>1, <1>2

\* The chunk that is written leaves the queue.
LEMMA TakenApart ==
    ASSUME chunks \in Seq(Recorded), freeq \in Seq(Nat \ {0}), FreeApart
    PROVE  /\ Place \in Nat \ {0}
           /\ Taken \in Seq(Nat \ {0})
           /\ \A i, j \in DOMAIN Taken : Taken[i] = Taken[j] => i = j
           /\ \A i \in DOMAIN Taken : Taken[i] # Place
           /\ \A i \in DOMAIN Taken : \E j \in DOMAIN freeq : Taken[i] = freeq[j]
           /\ Place \in DOMAIN chunks => \E j \in DOMAIN freeq : Place = freeq[j]
<1>1. CASE freeq = <<>>
  BY <1>1 DEF Place, Taken
<1>2. CASE freeq # <<>>
  <2>1. Place = freeq[1] /\ Taken = Tail(freeq) /\ 1 \in DOMAIN freeq
    BY <1>2 DEF Place, Taken
  <2>2. /\ Taken \in Seq(Nat \ {0}) /\ Len(Taken) = Len(freeq) - 1
        /\ \A i \in 1..Len(Taken) : Taken[i] = freeq[i + 1]
    BY <1>2, <2>1, HeadTailProperties
  <2>3. Place \in Nat \ {0}
    BY <2>1
  <2>4. \A i \in DOMAIN Taken :
           i \in Nat /\ i + 1 # 1 /\ i + 1 \in DOMAIN freeq /\ Taken[i] = freeq[i + 1]
    BY <2>2
  <2>5. ASSUME NEW i \in DOMAIN Taken, NEW j \in DOMAIN Taken, Taken[i] = Taken[j]
        PROVE  i = j
    <3>1. i + 1 = j + 1
      BY <2>4, <2>5 DEF FreeApart
    <3> QED BY <3>1, <2>4
  <2>6. \A i \in DOMAIN Taken : Taken[i] # Place
    BY <2>1, <2>2, <2>4 DEF FreeApart
  <2> QED BY <2>1, <2>2, <2>3, <2>4, <2>5, <2>6
<1> QED BY <1>1, <1>2

\* Where the latest chunk of a character stays as it is, and no other chunk of
\* it is written, it is the latest still.
LEMMA KeptStays ==
    ASSUME NEW cs \in Seq(Recorded), NEW ds \in Seq(Recorded), NEW k \in CharIds,
           ChunksOf(cs, k) # {},
           Kept(cs, k) \in DOMAIN ds, ds[Kept(cs, k)] = cs[Kept(cs, k)],
           \A i \in ChunksOf(ds, k) : i \in DOMAIN cs /\ cs[i] = ds[i]
    PROVE  ChunksOf(ds, k) # {} /\ Kept(ds, k) = Kept(cs, k)
<1>1. IsKept(cs, k, Kept(cs, k))
  BY KeptExists
<1>2. Kept(cs, k) \in ChunksOf(ds, k)
  BY <1>1 DEF IsKept, ChunksOf
<1>3. \A i \in ChunksOf(ds, k) : i \in ChunksOf(cs, k)
  BY DEF ChunksOf
<1>4. IsKept(ds, k, Kept(cs, k))
  BY <1>1, <1>2, <1>3 DEF IsKept
<1> QED BY <1>2, <1>4, KeptUnique

-----------------------------------------------------------------------------
(* What may come back *)

\* A value that is written is the last that may come back, and those before it
\* still may.
LEMMA AppendLast ==
    ASSUME NEW s \in Seq(Values), NEW v \in Values
    PROVE  /\ Append(s, v) \in Seq(Values) /\ Append(s, v) # <<>>
           /\ Last(Append(s, v)) = v
           /\ \A x \in Range(s) : x \in Range(Append(s, v))
           /\ v \in Range(Append(s, v))
<1>1. /\ Append(s, v) \in Seq(Values) /\ Append(s, v) # <<>>
      /\ Len(Append(s, v)) = Len(s) + 1
      /\ \A i \in 1..Len(s) : Append(s, v)[i] = s[i]
      /\ Append(s, v)[Len(s) + 1] = v
  BY AppendProperties
<1>2. Len(s) \in Nat /\ DOMAIN s = 1..Len(s) /\ DOMAIN Append(s, v) = 1..(Len(s) + 1)
  BY <1>1
<1>3. Last(Append(s, v)) = v
  BY <1>1 DEF Last
<1>4. \A x \in Range(s) : x \in Range(Append(s, v))
  BY <1>1, <1>2 DEF Range
<1>5. v \in Range(Append(s, v))
  BY <1>1, <1>2 DEF Range
<1> QED BY <1>1, <1>3, <1>4, <1>5

LEMMA LastType ==
    ASSUME NEW s \in Seq(Values), s # <<>>
    PROVE  Last(s) \in Values /\ Last(s) \in Range(s)
<1>1. Len(s) \in 1..Len(s)
  BY EmptySeq, LenProperties
<1> QED BY <1>1 DEF Last, Range

-----------------------------------------------------------------------------
(* The first invariant, handler by handler *)

JournalState == JournalTypeOK /\ \A k \in CharIds : possible[k] # <<>>

\* Changes of the table.
LEMMA ChangeKeeps ==
    ASSUME JournalInv, NEW k \in CharIds, NEW v \in Values, Change(k, v),
           writes' \in 0..MaxWrites
    PROVE  JournalInv'
<1> USE DEF JournalInv, Change
<1>1. possible' \in [CharIds -> Seq(Values)] /\ \A l \in CharIds : possible'[l] # <<>>
  BY AppendLast DEF JournalTypeOK, Values
<1>2. jdb' \in [CharIds -> [idx : Nat, buf : Contents \cup {NoChar, Clean}]]
  BY DEF JournalTypeOK, JournalWrite, Values
<1>3. JournalTypeOK'
  BY <1>1, <1>2 DEF JournalTypeOK, Values
<1>4. \A l \in CharIds : jdb'[l].idx = jdb[l].idx
  BY DEF JournalTypeOK, JournalWrite
<1>5. \A l \in CharIds : jdb'[l].buf = Clean => jdb[l].buf = Clean
  BY JournalAssumption DEF JournalTypeOK, JournalWrite, Values, Contents
<1>6. EntriesApart'
  BY <1>4, <1>5 DEF EntriesApart
<1>7. CachedIsTable'
  BY DEF JournalTypeOK, CachedIsTable, JournalWrite, PhasesFit, NoEntry
<1>8. PhasesFit'
  BY DEF JournalTypeOK, PhasesFit, JournalWrite
<1>9. TableIsNewest'
  BY AppendLast DEF JournalTypeOK, TableIsNewest, Values
<1> QED BY <1>1, <1>3, <1>6, <1>7, <1>8, <1>9 DEF DownIsLast

LEMMA ChangesKeep ==
    ASSUME JournalInv, NEW k \in CharIds, PutChar(k) \/ DeleteChar(k)
    PROVE  JournalInv'
<1>1. CASE PutChar(k)
  <2>1. writes + 1 \in Values /\ writes' \in 0..MaxWrites
    BY <1>1, JournalAssumption DEF PutChar, Values, Contents, JournalInv, JournalTypeOK
  <2> QED BY <1>1, <2>1, ChangeKeeps DEF PutChar
<1>2. CASE DeleteChar(k)
  <2>1. NoChar \in Values /\ writes' \in 0..MaxWrites
    BY <1>2 DEF DeleteChar, Values, JournalInv, JournalTypeOK
  <2> QED BY <1>2, <2>1, ChangeKeeps DEF DeleteChar
<1> QED BY <1>1, <1>2

\* The flush begins.
LEMMA BeginFlushKeeps ==
    ASSUME JournalInv, FlushTimer \/ FinalFlush
    PROVE  JournalInv'
<1> USE DEF JournalInv, FlushTimer, FinalFlush, BeginFlush
<1>1. stamp' \in 0..MaxStamp
  BY JournalAssumption DEF JournalTypeOK
<1>2. JournalTypeOK'
  BY <1>1 DEF JournalTypeOK, JPhases, Dirty
<1>3. EntriesApart' /\ CachedIsTable'
  BY DEF EntriesApart, CachedIsTable
<1>4. PhasesFit'
  BY DEF PhasesFit, Dirty
<1> QED BY <1>2, <1>3, <1>4 DEF DownIsLast, TableIsNewest

\* What the writing of one chunk for the entry k does to the others: one with the
\* place of the new chunk, and a queue without it.
LEMMA WrittenApart ==
    ASSUME JournalState, EntriesApart, NEW k \in CharIds, NEW c \in Recorded,
           c = Torn \/ c.key = k, WriteChunk(c),
           NEW b \in Values \cup {Clean}, b = Clean => c.key = k,
           jdb' = [jdb EXCEPT ![k] = [idx |-> Place, buf |-> b]],
           \/ freeq' = Taken
           \/ jdb[k].idx # 0 /\ freeq' = Append(Taken, jdb[k].idx)
    PROVE  EntriesApart' /\ freeq' \in Seq(Nat \ {0})
<1> USE DEF JournalState
<1>1. /\ chunks \in Seq(Recorded) /\ freeq \in Seq(Nat \ {0}) /\ FreeApart
      /\ jdb \in [CharIds -> [idx : Nat, buf : Values \cup {Clean}]]
  BY DEF JournalTypeOK, EntriesApart, FreeApart, Recorded, Values
<1>2. /\ chunks' \in Seq(Recorded)
      /\ Place \in DOMAIN chunks' /\ chunks'[Place] = c
      /\ DOMAIN chunks' = DOMAIN chunks \cup {Place}
      /\ \A i \in DOMAIN chunks : i # Place => chunks'[i] = chunks[i]
  BY <1>1, WriteChunkChanges
<1>3. /\ Place \in Nat \ {0}
      /\ Taken \in Seq(Nat \ {0})
      /\ \A i, j \in DOMAIN Taken : Taken[i] = Taken[j] => i = j
      /\ \A i \in DOMAIN Taken : Taken[i] # Place
      /\ \A i \in DOMAIN Taken : \E j \in DOMAIN freeq : Taken[i] = freeq[j]
      /\ Place \in DOMAIN chunks => \E j \in DOMAIN freeq : Place = freeq[j]
  BY <1>1, TakenApart
<1>4. \A l \in CharIds : jdb[l].idx # 0 =>
         /\ jdb[l].idx \in DOMAIN chunks /\ jdb[l].idx # Place
         /\ \A i \in DOMAIN Taken : Taken[i] # jdb[l].idx
  BY <1>3 DEF EntriesApart
<1>5. /\ freeq' \in Seq(Nat \ {0})
      /\ \A i \in DOMAIN freeq' :
            \/ i \in DOMAIN Taken /\ freeq'[i] = Taken[i]
            \/ i = Len(Taken) + 1 /\ freeq'[i] = jdb[k].idx /\ jdb[k].idx # 0
  <2>1. CASE freeq' = Taken
    BY <1>3, <2>1
  <2>2. CASE jdb[k].idx # 0 /\ freeq' = Append(Taken, jdb[k].idx)
    <3> DEFINE x == jdb[k].idx
    <3>1. x \in Nat \ {0}
      BY <1>1, <2>2
    <3>2. /\ Append(Taken, x) \in Seq(Nat \ {0})
          /\ Len(Append(Taken, x)) = Len(Taken) + 1
          /\ \A i \in 1..Len(Taken) : Append(Taken, x)[i] = Taken[i]
          /\ Append(Taken, x)[Len(Taken) + 1] = x
      BY <1>3, <3>1, AppendProperties
    <3>3. \A i \in 1..(Len(Taken) + 1) : i \in 1..Len(Taken) \/ i = Len(Taken) + 1
      BY <1>3
    <3> QED BY <1>3, <2>2, <3>1, <3>2, <3>3
  <2> QED BY <2>1, <2>2
<1>6. Len(Taken) + 1 \notin DOMAIN Taken
  BY <1>3
<1>7. \A i, j \in DOMAIN freeq' : freeq'[i] = freeq'[j] => i = j
  BY <1>3, <1>4, <1>5, <1>6
<1>8. \A i \in DOMAIN freeq' : freeq'[i] \in DOMAIN chunks /\ freeq'[i] # Place
  BY <1>3, <1>4, <1>5 DEF EntriesApart
<1>9. \A l \in CharIds : jdb'[l] = IF l = k THEN [idx |-> Place, buf |-> b] ELSE jdb[l]
  BY <1>1
<1>10. \A l \in CharIds : l # k /\ jdb[l].idx # 0 =>
          \A i \in DOMAIN freeq' : freeq'[i] # jdb[l].idx
  BY <1>4, <1>5 DEF EntriesApart
<1>11. \A l \in CharIds : jdb'[l].idx # 0 =>
          /\ jdb'[l].idx \in DOMAIN chunks'
          /\ \A i \in DOMAIN freeq' : freeq'[i] # jdb'[l].idx
          /\ chunks'[jdb'[l].idx] = Torn \/ chunks'[jdb'[l].idx].key = l
          /\ jdb'[l].buf = Clean => chunks'[jdb'[l].idx].key = l
  <2> SUFFICES ASSUME NEW l \in CharIds, jdb'[l].idx # 0
               PROVE  /\ jdb'[l].idx \in DOMAIN chunks'
                      /\ \A i \in DOMAIN freeq' : freeq'[i] # jdb'[l].idx
                      /\ chunks'[jdb'[l].idx] = Torn \/ chunks'[jdb'[l].idx].key = l
                      /\ jdb'[l].buf = Clean => chunks'[jdb'[l].idx].key = l
    OBVIOUS
  <2>1. CASE l = k
    BY <2>1, <1>2, <1>8, <1>9
  <2>2. CASE l # k
    <3>1. jdb'[l] = jdb[l]
      BY <2>2, <1>9
    <3>2. chunks'[jdb[l].idx] = chunks[jdb[l].idx]
      BY <3>1, <1>2, <1>4
    <3> QED BY <2>2, <3>1, <3>2, <1>2, <1>4, <1>10 DEF EntriesApart
  <2> QED BY <2>1, <2>2
<1>12. \A l, n \in CharIds : jdb'[l].idx # 0 /\ jdb'[l].idx = jdb'[n].idx => l = n
  BY <1>3, <1>4, <1>9 DEF EntriesApart
<1> QED BY <1>2, <1>5, <1>7, <1>8, <1>11, <1>12 DEF EntriesApart

\* A chunk is written for an entry, in the flush of a timer or the last one.
LEMMA FlushOneKeeps ==
    ASSUME JournalInv, NEW k \in CharIds, FlushOne(k)
    PROVE  JournalInv'
<1> USE DEF JournalInv, FlushOne
<1> DEFINE c == [key |-> k, val |-> jdb[k].buf, stamp |-> stamp]
<1>1. jphase \in {"flush", "final"} /\ k \in todo /\ jphase' = jphase /\ jdb[k].buf # Clean
  BY DEF PhasesFit, Dirty
<1>2. jdb[k].buf \in Values /\ jdb[k].idx \in Nat
  BY <1>1 DEF JournalTypeOK, Values
<1>3. c \in Recorded
  BY <1>2 DEF Recorded, Chunk, JournalTypeOK, Values
<1>4. EntriesApart' /\ freeq' \in Seq(Nat \ {0})
  BY <1>1, <1>3, WrittenApart DEF JournalState
<1>5. chunks' \in Seq(Recorded) /\ Place \in Nat \ {0}
  <2>1. chunks \in Seq(Recorded) /\ freeq \in Seq(Nat \ {0}) /\ FreeApart
    BY <1>1 DEF JournalTypeOK, EntriesApart, FreeApart, Recorded, Values
  <2> QED BY <1>3, <2>1, WriteChunkChanges, TakenApart
<1>6. JournalTypeOK'
  BY <1>4, <1>5 DEF JournalTypeOK, WriteChunk, Recorded
<1>7. CachedIsTable' /\ PhasesFit'
  BY <1>1, <1>5 DEF CachedIsTable, PhasesFit, JournalTypeOK, Dirty, NoEntry
<1> QED BY <1>1, <1>4, <1>6, <1>7 DEF DownIsLast, TableIsNewest

LEMMA FlushFailsKeeps ==
    ASSUME JournalInv, NEW k \in CharIds, FlushFails(k)
    PROVE  JournalInv'
<1> USE DEF JournalInv, FlushFails
<1>1. jphase = "flush" /\ k \in todo /\ jphase' = jphase /\ jdb[k].buf # Clean
  BY DEF PhasesFit, Dirty
<1>2. jdb[k].buf \in Values /\ Torn \in Recorded
  BY <1>1 DEF JournalTypeOK, Values, Recorded
<1>3. jdb' = [jdb EXCEPT ![k] = [idx |-> Place, buf |-> jdb[k].buf]]
  <2>1. jdb[k] = [idx |-> jdb[k].idx, buf |-> jdb[k].buf]
    BY DEF JournalTypeOK
  <2>2. [jdb[k] EXCEPT !.idx = Place] = [idx |-> Place, buf |-> jdb[k].buf]
    BY <2>1
  <2>3. jdb' = [jdb EXCEPT ![k] = [jdb[k] EXCEPT !.idx = Place]]
    OBVIOUS
  <2> QED BY <2>2, <2>3
<1>4. EntriesApart' /\ freeq' \in Seq(Nat \ {0})
  BY <1>1, <1>2, <1>3, WrittenApart DEF JournalState
<1>5. chunks' \in Seq(Recorded) /\ Place \in Nat \ {0}
  <2>1. chunks \in Seq(Recorded) /\ freeq \in Seq(Nat \ {0}) /\ FreeApart
    BY <1>1 DEF JournalTypeOK, EntriesApart, FreeApart, Recorded, Values
  <2> QED BY <1>2, <2>1, WriteChunkChanges, TakenApart
<1>6. crashes' \in 0..MaxCrashes
  BY JournalAssumption DEF JournalTypeOK
<1>7. JournalTypeOK'
  BY <1>3, <1>4, <1>5, <1>6 DEF JournalTypeOK, WriteChunk, Recorded
<1>8. CachedIsTable' /\ PhasesFit'
  BY <1>1, <1>3, <1>5 DEF CachedIsTable, PhasesFit, JournalTypeOK, Dirty, NoEntry
<1> QED BY <1>1, <1>4, <1>7, <1>8 DEF DownIsLast, TableIsNewest

LEMMA FlushEndKeeps ==
    ASSUME JournalInv, FlushEnd
    PROVE  JournalInv'
<1> USE DEF JournalInv, FlushEnd
<1>1. \A k \in CharIds : LET s == <<Last(possible[k])>> IN
         s \in Seq(Values) /\ s # <<>> /\ Last(s) = Last(possible[k])
  BY LastType DEF JournalTypeOK, Values, Last
<1>2. possible' \in [CharIds -> Seq(Values)]
  BY <1>1 DEF JournalTypeOK, Values
<1>3. \A k \in CharIds : possible'[k] # <<>> /\ Last(possible'[k]) = Last(possible[k])
  BY <1>1
<1>4. JournalTypeOK'
  BY <1>2 DEF JournalTypeOK, JPhases, Values
<1>5. EntriesApart' /\ CachedIsTable' /\ PhasesFit'
  BY DEF EntriesApart, CachedIsTable, PhasesFit
<1> QED BY <1>3, <1>4, <1>5 DEF DownIsLast, TableIsNewest

\* The save of the table, up to the end of the old journal.
LEMMA SyncKeeps ==
    ASSUME JournalInv, SyncWrite \/ SyncRemove \/ SyncRename \/ FinalUnlink \/ FinalClose
    PROVE  JournalInv'
<1> USE DEF JournalInv, DownIsLast, TableIsNewest
<1>1. CASE SyncWrite
  BY <1>1 DEF SyncWrite, JournalTypeOK, JPhases, EntriesApart, CachedIsTable, PhasesFit
<1>2. CASE SyncRemove
  BY <1>2 DEF SyncRemove, JournalTypeOK, JPhases, EntriesApart, CachedIsTable, PhasesFit
<1>3. CASE SyncRename
  BY <1>3 DEF SyncRename, JournalTypeOK, JPhases, EntriesApart, CachedIsTable, PhasesFit
<1>4. CASE FinalUnlink
  <2>1. JournalTypeOK'
    BY <1>4, EmptySeq DEF FinalUnlink, JournalTypeOK, JPhases
  <2> QED BY <1>4, <2>1 DEF FinalUnlink, CachedIsTable, PhasesFit
<1>5. CASE FinalClose
  BY <1>5 DEF FinalClose, JournalTypeOK, JPhases, CachedIsTable, PhasesFit
<1> QED BY <1>1, <1>2, <1>3, <1>4, <1>5

\* A new journal.
LEMMA NewJournalApart ==
    ASSUME NewJournal
    PROVE  /\ jphase' = "running" /\ jmode' = "write" /\ jfile' = "begun"
           /\ jdb' \in [CharIds -> [idx : Nat, buf : Values \cup {Clean}]]
           /\ freeq' \in Seq(Nat \ {0}) /\ chunks' \in Seq(Recorded)
           /\ \A k \in CharIds : jdb'[k].idx = 0 /\ jdb'[k].buf = Clean
           /\ EntriesApart'
  BY EmptySeq DEF NewJournal, NoEntry, EntriesApart

LEMMA JournalCreateKeeps ==
    ASSUME JournalInv, JournalCreate
    PROVE  JournalInv'
<1> USE DEF JournalInv, JournalCreate
<1>1. \A k \in CharIds : LET s == <<charDat[k]>> IN
         s \in Seq(Values) /\ s # <<>> /\ Last(s) = charDat[k]
  BY DEF JournalTypeOK, Values, Last
<1>2. possible' \in [CharIds -> Seq(Values)]
  BY <1>1
<1>3. \A k \in CharIds : possible'[k] # <<>> /\ Last(possible'[k]) = charDat[k]
  BY <1>1
<1>4. JournalTypeOK'
  BY <1>2, NewJournalApart DEF JournalTypeOK, JPhases, Values, Recorded
<1>5. CachedIsTable' /\ PhasesFit'
  BY NewJournalApart DEF CachedIsTable, PhasesFit
<1> QED BY <1>3, <1>4, <1>5, NewJournalApart DEF DownIsLast, TableIsNewest

-----------------------------------------------------------------------------
(* Crash and start *)

\* The file after a crash, which may have torn the chunk that was being written.
LEMMA CrashWrites ==
    ASSUME JournalInv, Crash
    PROVE  chunks' \in Seq(Recorded) /\ jfile' \in {"none", "begun", "ready"}
<1>1. chunks \in Seq(Recorded) /\ freeq \in Seq(Nat \ {0}) /\ Torn \in Recorded
  BY DEF JournalInv, JournalTypeOK, Recorded
<1>2. jphase \in {"flush", "final"} => FreeApart
  BY DEF JournalInv, EntriesApart, FreeApart
<1> QED BY <1>1, <1>2, WriteChunkChanges DEF Crash, WriteChunk, JournalInv, JournalTypeOK

LEMMA CrashKeeps ==
    ASSUME JournalInv, Crash
    PROVE  JournalInv'
<1> USE DEF JournalInv
<1>1. NoChars \in [CharIds -> Values]
  BY DEF NoChars, Values
<1>2. txt = Missing \/ txt \in [CharIds -> Values]
  BY DEF JournalTypeOK, Values
<1>3. chunks' \in Seq(Recorded) /\ jfile' \in {"none", "begun", "ready"}
  BY CrashWrites
<1>4. \A table \in [CharIds -> Values] : \A k \in CharIds :
         RolledForward(chunks', table)[k] \in Values
  BY <1>3, RolledForwardType
<1>5. \A k \in CharIds : LET s == <<RolledForward(chunks', NoChars)[k], NoChar>> IN
         s \in Seq(Values) /\ s # <<>> /\ Last(s) = NoChar
  BY <1>1, <1>4 DEF Values, Last
<1>6. txt # Missing => \A k \in CharIds : LET s == <<RolledForward(chunks', txt)[k]>> IN
         s \in Seq(Values) /\ s # <<>>
  BY <1>2, <1>4
<1>7. possible' \in [CharIds -> Seq(Values)] /\ \A k \in CharIds : possible'[k] # <<>>
  BY <1>5, <1>6 DEF Crash
<1>8. crashes' \in 0..MaxCrashes
  BY JournalAssumption DEF Crash, JournalTypeOK
<1>9. /\ freeq' \in Seq(Nat \ {0})
      /\ jdb' \in [CharIds -> [idx : Nat, buf : Contents \cup {NoChar, Clean}]]
      /\ charDat' \in [CharIds -> Contents \cup {NoChar}]
  BY <1>1, EmptySeq DEF Crash, NoEntry, Values
<1>10. JournalTypeOK'
  BY <1>3, <1>7, <1>8, <1>9 DEF JournalTypeOK, JPhases, Crash, Recorded, Values
<1>11. EntriesApart' /\ CachedIsTable'
  BY DEF Crash, EntriesApart, CachedIsTable, NoEntry
<1>12. PhasesFit'
  BY DEF Crash, PhasesFit
<1>13. DownIsLast'
  BY DEF Crash, DownIsLast
<1> QED BY <1>7, <1>10, <1>11, <1>12, <1>13 DEF TableIsNewest, Crash

LEMMA StartKeeps ==
    ASSUME JournalInv, StartWithoutFile \/ StartWithoutJournal \/ StartWithJournal
                       \/ OperatorRemoves
    PROVE  JournalInv'
<1> USE DEF JournalInv
<1>1. txt = Missing \/ txt \in [CharIds -> Values]
  BY DEF JournalTypeOK, Values
<1>2. \A k \in CharIds : \A x, y \in Values : Last(<<x>>) = x /\ Last(<<x, y>>) = y
  BY DEF Last
<1>3. \A table \in [CharIds -> Values] : \A k \in CharIds :
         RolledForward(chunks, table)[k] \in Values
  BY RolledForwardType DEF JournalTypeOK, Recorded
<1>4. CASE StartWithoutFile
  <2>1. NoChars \in [CharIds -> Values] /\ NoChar \in Values
    BY DEF NoChars, Values
  <2>2. ASSUME NEW k \in CharIds
        PROVE  charDat'[k] = Last(possible'[k])
    <3>1. possible'[k] = <<RolledForward(chunks, NoChars)[k], NoChar>> /\ charDat' = NoChars
      BY <1>4 DEF StartWithoutFile, DownIsLast, PhasesFit
    <3>2. RolledForward(chunks, NoChars)[k] \in Values
      BY <2>1, <1>3
    <3>3. charDat'[k] = NoChar
      BY <3>1 DEF NoChars
    <3>4. \A x, y \in Values : Last(<<x, y>>) = y
      BY DEF Last
    <3> QED BY <2>1, <3>1, <3>2, <3>3, <3>4
  <2>3. TableIsNewest'
    BY <2>2 DEF TableIsNewest
  <2> QED BY <1>4, <2>3 DEF StartWithoutFile, JournalTypeOK, JPhases, EntriesApart,
                              CachedIsTable, PhasesFit, DownIsLast
<1>5. CASE StartWithoutJournal
  <2>1. JournalTypeOK'
    BY <1>5, NewJournalApart DEF StartWithoutJournal, JournalTypeOK, JPhases, Values, Recorded
  <2>2. \A k \in CharIds : RolledForward(chunks, txt)[k] = txt[k]
    BY <1>5 DEF StartWithoutJournal, RolledForward
  <2>3. TableIsNewest'
    BY <1>1, <1>2, <1>5, <2>2 DEF StartWithoutJournal, DownIsLast, TableIsNewest
  <2>4. CachedIsTable' /\ PhasesFit' /\ DownIsLast'
    BY <1>5, NewJournalApart DEF StartWithoutJournal, CachedIsTable, PhasesFit, DownIsLast
  <2> QED BY <1>5, <2>1, <2>3, <2>4, NewJournalApart DEF StartWithoutJournal
<1>6. CASE StartWithJournal
  <2>1. charDat' \in [CharIds -> Values]
    BY <1>1, <1>6, RolledForwardType DEF StartWithJournal, JournalTypeOK, Recorded
  <2>2. JournalTypeOK'
    BY <1>6, <2>1 DEF StartWithJournal, JournalTypeOK, JPhases, Values
  <2>3. TableIsNewest'
    BY <1>1, <1>2, <1>3, <1>6 DEF StartWithJournal, DownIsLast, TableIsNewest
  <2>4. \A k \in CharIds : jdb[k].idx = 0 /\ jdb[k].buf = Clean
    BY <1>6 DEF StartWithJournal, PhasesFit, NoEntry
  <2>5. EntriesApart' /\ CachedIsTable'
    BY <1>6, <2>4 DEF StartWithJournal, EntriesApart, CachedIsTable
  <2>6. PhasesFit' /\ DownIsLast'
    BY <1>6 DEF StartWithJournal, PhasesFit, DownIsLast
  <2> QED BY <1>6, <2>2, <2>3, <2>5, <2>6 DEF StartWithJournal
<1>7. CASE OperatorRemoves
  BY <1>7 DEF OperatorRemoves, JournalTypeOK, EntriesApart, CachedIsTable, PhasesFit,
              DownIsLast, TableIsNewest
<1> QED BY <1>4, <1>5, <1>6, <1>7

LEMMA InitKeeps ==
    ASSUME JournalInit
    PROVE  JournalInv
<1> USE DEF JournalInit
<1>1. LET s == <<NoChar>> IN s \in Seq(Values) /\ s # <<>> /\ Last(s) = NoChar
  BY DEF Last, Values
<1>2. JournalTypeOK
  BY <1>1, EmptySeq, JournalAssumption DEF JournalTypeOK, JPhases, NoChars, NoEntry, Values
<1>3. \A k \in CharIds : possible[k] # <<>> /\ Last(possible[k]) = NoChar
  BY <1>1
<1>4. EntriesApart /\ CachedIsTable
  BY DEF EntriesApart, CachedIsTable, NoEntry
<1>5. PhasesFit /\ DownIsLast
  BY DEF PhasesFit, DownIsLast
<1> QED BY <1>2, <1>3, <1>4, <1>5 DEF JournalInv, TableIsNewest, NoChars

LEMMA StepKeeps ==
    ASSUME JournalInv, [JournalNext]_journalVars
    PROVE  JournalInv'
<1>1. CASE UNCHANGED journalVars
  BY <1>1 DEF journalVars, JournalInv, JournalTypeOK, EntriesApart, CachedIsTable, PhasesFit,
              Dirty, DownIsLast, TableIsNewest
<1>2. CASE JournalNext
  BY <1>2, ChangesKeep, FlushOneKeeps, FlushFailsKeeps, BeginFlushKeeps, FlushEndKeeps,
     SyncKeeps, JournalCreateKeeps, CrashKeeps, StartKeeps DEF JournalNext
<1> QED BY <1>1, <1>2

\* The invariant all the others rest on: what is in memory of a character is what
\* was last written of it, and no chunk of the file has two users.
THEOREM JournalInvariance == JournalSpec => []JournalInv
<1>1. JournalInit => JournalInv
  BY InitKeeps
<1>2. JournalInv /\ [JournalNext]_journalVars => JournalInv'
  BY StepKeeps
<1> QED BY <1>1, <1>2, PTL DEF JournalSpec

\* Every variable keeps its type, whatever is written, saved, lost and read.
THEOREM JournalTypeCorrect == JournalSpec => []JournalTypeOK
<1>1. JournalInv => JournalTypeOK
  BY DEF JournalInv
<1> QED BY <1>1, JournalInvariance, PTL

\* What the handlers read is the newest value of every character, after any number
\* of flushes, failed writes, saves, crashes and starts (journal.c, char.c).
THEOREM TableIsNewestHolds == JournalSpec => []TableIsNewest
<1>1. JournalInv => TableIsNewest
  BY DEF JournalInv
<1> QED BY <1>1, JournalInvariance, PTL

\* journal_flush_sub never puts a chunk into unusedchunk_queue that an entry still
\* needs, nor writes over one.
THEOREM OnlyCopyKeptHolds == JournalSpec => []OnlyCopyKept
<1>1. JournalInv => OnlyCopyKept
  BY DEF JournalInv, EntriesApart, OnlyCopyKept, Range
<1> QED BY <1>1, JournalInvariance, PTL

-----------------------------------------------------------------------------
(* The files, as long as no two flushes fall into one second *)

\* What holds of the files after a step that leaves them, and what is in memory of
\* them, as they are.
FilesOK == JournalInv /\ FilesInv

LEMMA ChunksTyped ==
    ASSUME JournalInv
    PROVE  /\ chunks \in Seq(Recorded) /\ freeq \in Seq(Nat \ {0})
           /\ jphase # "closed" => FreeApart
  BY DEF JournalInv, JournalTypeOK, EntriesApart, FreeApart, Recorded

\* Writing a chunk leaves the latest one of every other character.
LEMMA OthersStay ==
    ASSUME FilesOK, jphase # "closed", NEW c \in Recorded, WriteChunk(c),
           NEW l \in CharIds, c.key # l
    PROVE  /\ \A i \in ChunksOf(chunks', l) : i \in ChunksOf(chunks, l) /\ chunks'[i] = chunks[i]
           /\ ChunksOf(chunks, l) # {} =>
                 /\ ChunksOf(chunks', l) # {}
                 /\ Kept(chunks', l) = Kept(chunks, l)
                 /\ chunks'[Kept(chunks, l)] = chunks[Kept(chunks, l)]
<1>1. /\ chunks \in Seq(Recorded) /\ freeq \in Seq(Nat \ {0}) /\ FreeApart
      /\ LatestKept
  BY ChunksTyped DEF FilesOK, FilesInv
<1>2. /\ chunks' \in Seq(Recorded)
      /\ Place \in DOMAIN chunks' /\ chunks'[Place] = c
      /\ DOMAIN chunks' = DOMAIN chunks \cup {Place}
      /\ \A i \in DOMAIN chunks : i # Place => chunks'[i] = chunks[i]
  BY <1>1, WriteChunkChanges
<1>3. \A i \in ChunksOf(chunks', l) : i \in ChunksOf(chunks, l) /\ chunks'[i] = chunks[i]
  BY <1>2 DEF ChunksOf
<1>4. ASSUME ChunksOf(chunks, l) # {}
      PROVE  /\ ChunksOf(chunks', l) # {}
             /\ Kept(chunks', l) = Kept(chunks, l)
             /\ chunks'[Kept(chunks, l)] = chunks[Kept(chunks, l)]
  <2>1. Kept(chunks, l) \in DOMAIN chunks
    BY <1>1, <1>4, KeptExists DEF IsKept, ChunksOf
  <2>2. Place \in DOMAIN chunks => \E j \in DOMAIN freeq : Place = freeq[j]
    BY <1>1, TakenApart
  <2>3. Kept(chunks, l) # Place
    BY <1>1, <1>4, <2>1, <2>2 DEF LatestKept
  <2>4. Kept(chunks, l) \in DOMAIN chunks' /\ chunks'[Kept(chunks, l)] = chunks[Kept(chunks, l)]
    BY <1>2, <2>1, <2>3
  <2>5. \A i \in ChunksOf(chunks', l) : i \in DOMAIN chunks /\ chunks[i] = chunks'[i]
    BY <1>3 DEF ChunksOf
  <2> QED BY <1>1, <1>2, <1>4, <2>4, <2>5, KeptStays
<1> QED BY <1>3, <1>4

LEMMA ChangeKeepsFiles ==
    ASSUME FilesOK, NEW k \in CharIds, NEW v \in Values, Change(k, v)
    PROVE  FilesInv'
<1> USE DEF FilesOK, Change
<1>1. \A l \in CharIds : \A x \in Range(possible[l]) : x \in Range(possible'[l])
  BY AppendLast DEF JournalInv, JournalTypeOK, Values
<1>2. Recoverable'
  BY <1>1 DEF FilesInv, Recoverable
<1>3. WrittenBefore'
  BY DEF FilesInv, WrittenBefore
<1>4. jmode \in {"none", "write"} /\ jphase' = "running"
  BY DEF JournalInv, JournalTypeOK, PhasesFit
<1>5. \A l \in CharIds : jdb'[l].idx = jdb[l].idx
  BY DEF JournalInv, JournalTypeOK, JournalWrite
<1>6. \A l \in CharIds : jdb'[l].buf = Clean => jdb[l].buf = Clean
  BY JournalAssumption DEF JournalInv, JournalTypeOK, JournalWrite, Values, Contents
<1>7. \A l \in CharIds : jdb'[l] = NoEntry => jdb[l] = NoEntry
  <2> SUFFICES ASSUME NEW l \in CharIds, jdb'[l] = NoEntry
               PROVE  jdb[l] = NoEntry
    OBVIOUS
  <2>1. jdb[l].idx = 0 /\ jdb[l].buf = Clean
    BY <1>5, <1>6 DEF NoEntry
  <2>2. jdb[l] = [idx |-> jdb[l].idx, buf |-> jdb[l].buf]
    BY DEF JournalInv, JournalTypeOK
  <2> QED BY <2>1, <2>2 DEF NoEntry
<1>8. \A l \in CharIds : jmode = "write" /\ jdb'[l].buf = Clean => charDat'[l] = charDat[l]
  BY JournalAssumption DEF JournalInv, JournalTypeOK, JournalWrite, Values, Contents
<1>9. \A l \in CharIds : jdb'[l].idx # 0 => jmode = "write"
  BY <1>4, <1>5 DEF JournalInv, PhasesFit, NoEntry
<1>10. \A l \in CharIds : jdb'[l] = NoEntry => jdb'[l].buf = Clean
  BY DEF NoEntry
<1>11. LatestKept'
  <2> SUFFICES ASSUME NEW l \in CharIds
               PROVE  /\ ChunksOf(chunks, l) # {} =>
                            /\ \A i \in DOMAIN freeq : freeq[i] # Kept(chunks, l)
                            /\ jdb'[l].idx # 0 /\ jdb'[l].buf = Clean
                                  => Kept(chunks, l) = jdb'[l].idx
                      /\ jdb'[l].idx # 0 /\ jdb'[l].buf = Clean
                            => chunks[jdb'[l].idx].val = charDat'[l]
                      /\ jmode = "write" /\ jdb'[l].idx = 0 => ChunksOf(chunks, l) = {}
                      /\ jmode = "write" /\ jdb'[l] = NoEntry => txt = Missing \/ txt[l] = charDat'[l]
    BY DEF LatestKept
  <2> QED BY <1>5, <1>6, <1>7, <1>8, <1>9, <1>10 DEF FilesInv, LatestKept
<1> QED BY <1>2, <1>3, <1>11 DEF FilesInv

LEMMA ChangesKeepFiles ==
    ASSUME FilesOK, NEW k \in CharIds, PutChar(k) \/ DeleteChar(k)
    PROVE  FilesInv' /\ \E v \in Values : Change(k, v)
<1>1. CASE PutChar(k)
  <2>1. writes + 1 \in Values
    BY <1>1, JournalAssumption DEF PutChar, Values, Contents, FilesOK, JournalInv, JournalTypeOK
  <2> QED BY <1>1, <2>1, ChangeKeepsFiles DEF PutChar
<1>2. CASE DeleteChar(k)
  <2>1. NoChar \in Values
    BY DEF Values
  <2> QED BY <1>2, <2>1, ChangeKeepsFiles DEF DeleteChar
<1> QED BY <1>1, <1>2

\* The only place that needs the seconds to differ: every chunk there is was
\* written before the flush that now begins.
LEMMA BeginFlushKeepsFiles ==
    ASSUME FilesOK, 0 \notin StampSteps, FlushTimer \/ FinalFlush
    PROVE  FilesInv'
<1> USE DEF FilesOK, FlushTimer, FinalFlush, BeginFlush
<1>1. PICK d \in StampSteps : stamp' = stamp + d
  OBVIOUS
<1>2. d \in Nat \ {0} /\ stamp \in Nat
  BY JournalAssumption DEF JournalInv, JournalTypeOK
<1>3. WrittenBefore'
  <2> SUFFICES ASSUME NEW k \in CharIds, NEW i \in ChunksOf(chunks, k)
               PROVE  chunks[i].stamp < stamp' /\ chunks[i].stamp <= stamp'
    BY DEF WrittenBefore
  <2>1. chunks[i].stamp <= stamp /\ chunks[i].stamp \in Nat
    BY ChunkOfKey, ChunksTyped, JournalAssumption DEF Chunk, FilesInv, WrittenBefore
  <2> QED BY <2>1, <1>1, <1>2
<1>4. LatestKept' /\ Recoverable'
  BY DEF FilesInv, LatestKept, Recoverable
<1> QED BY <1>3, <1>4 DEF FilesInv

\* The chunk just written is the latest of its character.
LEMMA FlushOneKeepsFiles ==
    ASSUME FilesOK, NEW k \in CharIds, FlushOne(k)
    PROVE  FilesInv'
<1> USE DEF FilesOK, FlushOne
<1> DEFINE c == [key |-> k, val |-> jdb[k].buf, stamp |-> stamp]
<1>1. /\ jphase \in {"flush", "final"} /\ k \in todo /\ jdb[k].buf # Clean
      /\ jmode = "write" /\ jdb[k].buf = charDat[k]
  BY DEF JournalInv, PhasesFit, Dirty, CachedIsTable
<1>2. c \in Recorded /\ c.key = k /\ c.stamp = stamp /\ c.val = charDat[k]
  BY <1>1 DEF Recorded, Chunk, JournalInv, JournalTypeOK
<1>3. /\ chunks \in Seq(Recorded) /\ freeq \in Seq(Nat \ {0}) /\ FreeApart
      /\ EntriesApart /\ LatestKept /\ WrittenBefore /\ Recoverable
  BY <1>1, ChunksTyped DEF JournalInv, FilesInv
<1>4. /\ chunks' \in Seq(Recorded)
      /\ Place \in DOMAIN chunks' /\ chunks'[Place] = c
      /\ DOMAIN chunks' = DOMAIN chunks \cup {Place}
      /\ \A i \in DOMAIN chunks : i # Place => chunks'[i] = chunks[i]
  BY <1>2, <1>3, WriteChunkChanges
<1>5. /\ Place \in Nat \ {0}
      /\ Taken \in Seq(Nat \ {0})
      /\ \A i \in DOMAIN Taken : Taken[i] # Place
      /\ \A i \in DOMAIN Taken : \E j \in DOMAIN freeq : Taken[i] = freeq[j]
      /\ Place \in DOMAIN chunks => \E j \in DOMAIN freeq : Place = freeq[j]
  BY <1>3, TakenApart
<1>6. \A i \in DOMAIN freeq' :
         \/ \E j \in DOMAIN freeq : freeq'[i] = freeq[j] /\ freeq[j] # Place
         \/ freeq'[i] = jdb[k].idx /\ jdb[k].idx # 0
  <2>1. CASE jdb[k].idx = 0
    BY <1>5, <2>1
  <2>2. CASE jdb[k].idx # 0
    <3> DEFINE x == jdb[k].idx
    <3>1. x \in Nat \ {0} /\ freeq' = Append(Taken, x)
      BY <2>2 DEF JournalInv, JournalTypeOK
    <3>2. /\ Len(Append(Taken, x)) = Len(Taken) + 1
          /\ \A i \in 1..Len(Taken) : Append(Taken, x)[i] = Taken[i]
          /\ Append(Taken, x)[Len(Taken) + 1] = x
          /\ Append(Taken, x) \in Seq(Nat \ {0})
      BY <1>5, <3>1, AppendProperties
    <3>3. \A i \in 1..(Len(Taken) + 1) : i \in 1..Len(Taken) \/ i = Len(Taken) + 1
      BY <1>5
    <3> QED BY <1>5, <2>2, <3>1, <3>2, <3>3
  <2> QED BY <2>1, <2>2
<1>7. IsKept(chunks', k, Place)
  <2>1. Place \in ChunksOf(chunks', k)
    BY <1>2, <1>4 DEF ChunksOf
  <2>2. ASSUME NEW i \in ChunksOf(chunks', k), i # Place
        PROVE  chunks'[i].stamp < stamp
    <3>1. i \in ChunksOf(chunks, k) /\ chunks'[i] = chunks[i]
      BY <1>4, <2>2 DEF ChunksOf
    <3> QED BY <1>1, <1>3, <3>1 DEF WrittenBefore
  <2>3. chunks'[Place].stamp = stamp /\ Place <= Place
    BY <1>2, <1>4, <1>5
  <2> QED BY <2>1, <2>2, <2>3 DEF IsKept
<1>8. Kept(chunks', k) = Place /\ ChunksOf(chunks', k) # {}
  BY <1>4, <1>7, KeptUnique DEF IsKept
<1>9. \A l \in CharIds : jdb'[l] = IF l = k THEN [idx |-> Place, buf |-> Clean] ELSE jdb[l]
  BY DEF JournalInv, JournalTypeOK
<1>10. Place # jdb[k].idx
  BY <1>3, <1>5 DEF EntriesApart
<1>11. \A l \in CharIds : l # k =>
          /\ \A i \in ChunksOf(chunks', l) : i \in ChunksOf(chunks, l) /\ chunks'[i] = chunks[i]
          /\ ChunksOf(chunks, l) # {} =>
                /\ ChunksOf(chunks', l) # {}
                /\ Kept(chunks', l) = Kept(chunks, l)
                /\ chunks'[Kept(chunks, l)] = chunks[Kept(chunks, l)]
  BY <1>1, <1>2, OthersStay
<1>12. LatestKept'
  <2> SUFFICES ASSUME NEW l \in CharIds
               PROVE  /\ ChunksOf(chunks', l) # {} =>
                            /\ \A i \in DOMAIN freeq' : freeq'[i] # Kept(chunks', l)
                            /\ jdb'[l].idx # 0 /\ jdb'[l].buf = Clean
                                  => Kept(chunks', l) = jdb'[l].idx
                      /\ jdb'[l].idx # 0 /\ jdb'[l].buf = Clean
                            => chunks'[jdb'[l].idx].val = charDat[l]
                      /\ jdb'[l].idx = 0 => ChunksOf(chunks', l) = {}
                      /\ jdb'[l] = NoEntry => txt = Missing \/ txt[l] = charDat[l]
    BY <1>1 DEF LatestKept
  <2>1. CASE l = k
    BY <1>2, <1>4, <1>5, <1>6, <1>8, <1>9, <1>10, <2>1 DEF NoEntry
  <2>2. CASE l # k
    <3>1. jdb'[l] = jdb[l]
      BY <1>9, <2>2
    <3>2. ChunksOf(chunks', l) # {} => ChunksOf(chunks, l) # {}
      BY <1>11, <2>2
    <3>3. ASSUME ChunksOf(chunks', l) # {}
          PROVE  \A i \in DOMAIN freeq' : freeq'[i] # Kept(chunks', l)
      <4>1. IsKept(chunks, l, Kept(chunks, l))
        BY <1>3, <3>2, <3>3, KeptExists
      <4>2. jdb[k].idx # 0 => jdb[k].idx # Kept(chunks, l)
        BY <1>3, <2>2, <4>1, JournalAssumption DEF EntriesApart, IsKept, ChunksOf, Torn
      <4> QED BY <1>3, <1>6, <1>11, <2>2, <3>2, <3>3, <4>2 DEF LatestKept
    <3>4. jdb[l].idx # 0 => chunks'[jdb[l].idx] = chunks[jdb[l].idx]
      BY <1>3, <1>4, <1>5 DEF EntriesApart
    <3> QED BY <1>1, <1>3, <1>11, <2>2, <3>1, <3>2, <3>3, <3>4 DEF LatestKept
  <2> QED BY <2>1, <2>2
<1>13. WrittenBefore'
  <2> SUFFICES ASSUME NEW l \in CharIds, NEW i \in ChunksOf(chunks', l)
               PROVE  /\ chunks'[i].stamp <= stamp
                      /\ l \in todo' => chunks'[i].stamp < stamp
    BY DEF WrittenBefore
  <2>1. CASE i = Place
    <3>1. l = k /\ chunks'[i].stamp = stamp /\ stamp \in Nat
      BY <1>2, <1>4, <2>1, JournalAssumption DEF ChunksOf, JournalInv, JournalTypeOK
    <3> QED BY <3>1
  <2>2. CASE i # Place
    <3>1. i \in ChunksOf(chunks, l) /\ chunks'[i] = chunks[i]
      BY <1>4, <2>2 DEF ChunksOf
    <3> QED BY <1>3, <3>1 DEF WrittenBefore
  <2> QED BY <2>1, <2>2
<1>14. Recoverable'
  <2> SUFFICES ASSUME NEW l \in CharIds
               PROVE  IF ChunksOf(chunks', l) # {}
                      THEN chunks'[Kept(chunks', l)].val \in Range(possible[l])
                      ELSE txt = Missing \/ txt[l] \in Range(possible[l])
    BY DEF Recoverable
  <2>1. CASE l = k
    <3>1. charDat[k] = Last(possible[k]) /\ possible[k] \in Seq(Values) /\ possible[k] # <<>>
      BY <1>1 DEF JournalInv, JournalTypeOK, TableIsNewest, Values
    <3>2. charDat[k] \in Range(possible[k])
      BY <3>1, LastType
    <3> QED BY <1>2, <1>4, <1>8, <2>1, <3>2
  <2>2. CASE l # k
    <3>1. ChunksOf(chunks', l) # {} => ChunksOf(chunks, l) # {}
      BY <1>11, <2>2
    <3> QED BY <1>3, <1>11, <2>2, <3>1 DEF Recoverable
  <2> QED BY <2>1, <2>2
<1> QED BY <1>12, <1>13, <1>14 DEF FilesInv

\* A write that failed leaves the latest chunks of all characters.
LEMMA FlushFailsKeepsFiles ==
    ASSUME FilesOK, NEW k \in CharIds, FlushFails(k)
    PROVE  FilesInv'
<1> USE DEF FilesOK, FlushFails
<1>1. jphase = "flush" /\ k \in todo /\ jdb[k].buf # Clean /\ jmode = "write"
  BY DEF JournalInv, PhasesFit, Dirty
<1>2. Torn \in Recorded /\ \A l \in CharIds : Torn.key # l
  BY JournalAssumption DEF Recorded, Torn
<1>3. /\ chunks \in Seq(Recorded) /\ freeq \in Seq(Nat \ {0}) /\ FreeApart
      /\ EntriesApart /\ LatestKept /\ WrittenBefore /\ Recoverable
  BY <1>1, ChunksTyped DEF JournalInv, FilesInv
<1>4. \A i \in DOMAIN chunks : i # Place => chunks'[i] = chunks[i]
  BY <1>2, <1>3, WriteChunkChanges
<1>5. /\ Place \in Nat \ {0}
      /\ \A i \in DOMAIN Taken : \E j \in DOMAIN freeq : Taken[i] = freeq[j]
      /\ Place \in DOMAIN chunks => \E j \in DOMAIN freeq : Place = freeq[j]
  BY <1>3, TakenApart
<1>6. \A l \in CharIds :
         /\ \A i \in ChunksOf(chunks', l) : i \in ChunksOf(chunks, l) /\ chunks'[i] = chunks[i]
         /\ ChunksOf(chunks, l) # {} =>
               /\ ChunksOf(chunks', l) # {}
               /\ Kept(chunks', l) = Kept(chunks, l)
               /\ chunks'[Kept(chunks, l)] = chunks[Kept(chunks, l)]
  BY <1>1, <1>2, OthersStay
<1>7. /\ \A l \in CharIds : l # k => jdb'[l] = jdb[l]
      /\ jdb'[k].idx = Place /\ jdb'[k].buf = jdb[k].buf
  BY DEF JournalInv, JournalTypeOK
<1>8. \A l \in CharIds : ChunksOf(chunks', l) # {} => ChunksOf(chunks, l) # {}
  BY <1>6
<1>9. LatestKept'
  <2> SUFFICES ASSUME NEW l \in CharIds
               PROVE  /\ ChunksOf(chunks', l) # {} =>
                            /\ \A i \in DOMAIN freeq' : freeq'[i] # Kept(chunks', l)
                            /\ jdb'[l].idx # 0 /\ jdb'[l].buf = Clean
                                  => Kept(chunks', l) = jdb'[l].idx
                      /\ jdb'[l].idx # 0 /\ jdb'[l].buf = Clean
                            => chunks'[jdb'[l].idx].val = charDat[l]
                      /\ jdb'[l].idx = 0 => ChunksOf(chunks', l) = {}
                      /\ jdb'[l] = NoEntry => txt = Missing \/ txt[l] = charDat[l]
    BY <1>1 DEF LatestKept
  <2>1. ChunksOf(chunks', l) # {} => \A i \in DOMAIN freeq' : freeq'[i] # Kept(chunks', l)
    BY <1>3, <1>5, <1>6, <1>8 DEF LatestKept
  <2>2. CASE l = k
    BY <1>1, <1>5, <1>7, <2>1, <2>2 DEF NoEntry
  <2>3. CASE l # k
    <3>1. jdb[l].idx # 0 => chunks'[jdb[l].idx] = chunks[jdb[l].idx]
      BY <1>3, <1>4, <1>5 DEF EntriesApart
    <3> QED BY <1>1, <1>3, <1>6, <1>7, <1>8, <2>1, <2>3, <3>1 DEF LatestKept
  <2> QED BY <2>2, <2>3
<1>10. WrittenBefore'
  BY <1>3, <1>6 DEF WrittenBefore
<1>11. Recoverable'
  BY <1>3, <1>6, <1>8 DEF Recoverable
<1> QED BY <1>9, <1>10, <1>11 DEF FilesInv

\* The end of a flush: an entry that is clean now has its value in the files.
LEMMA FlushEndKeepsFiles ==
    ASSUME FilesOK, FlushEnd
    PROVE  FilesInv'
<1> USE DEF FilesOK, FlushEnd
<1>1. jmode = "write" /\ LatestKept /\ WrittenBefore /\ Recoverable /\ EntriesApart
  BY DEF JournalInv, PhasesFit, FilesInv
<1>2. LatestKept' /\ WrittenBefore'
  BY <1>1 DEF LatestKept, WrittenBefore
<1>3. ASSUME NEW k \in CharIds
      PROVE  IF ChunksOf(chunks, k) # {}
             THEN chunks[Kept(chunks, k)].val \in Range(possible'[k])
             ELSE txt = Missing \/ txt[k] \in Range(possible'[k])
  <2>1. CASE k \in Dirty
    BY <1>1, <2>1 DEF Recoverable
  <2>2. CASE k \notin Dirty
    <3>1. jdb[k].buf = Clean /\ possible'[k] = <<charDat[k]>>
      BY <2>2 DEF Dirty, JournalInv, TableIsNewest
    <3>2. charDat[k] \in Range(possible'[k])
      BY <3>1 DEF Range
    <3>3. CASE jdb[k].idx = 0
      <4>1. jdb[k] = NoEntry
        BY <3>1, <3>3 DEF NoEntry, JournalInv, JournalTypeOK
      <4> QED BY <1>1, <3>2, <3>3, <4>1 DEF LatestKept
    <3>4. CASE jdb[k].idx # 0
      <4>1. jdb[k].idx \in ChunksOf(chunks, k)
        BY <1>1, <3>1, <3>4 DEF EntriesApart, ChunksOf
      <4> QED BY <1>1, <3>1, <3>2, <3>4, <4>1 DEF LatestKept
    <3> QED BY <3>3, <3>4
  <2> QED BY <2>1, <2>2
<1>4. Recoverable'
  BY <1>3 DEF Recoverable
<1> QED BY <1>2, <1>4 DEF FilesInv

\* The save of the table, and the new journal after it.
LEMMA SyncKeepsFiles ==
    ASSUME FilesOK, SyncWrite \/ SyncRemove \/ SyncRename \/ FinalUnlink \/ FinalClose
    PROVE  FilesInv'
<1> USE DEF FilesOK
<1>1. jphase # "down" => \A k \in CharIds : charDat[k] \in Range(possible[k])
  BY LastType DEF JournalInv, JournalTypeOK, TableIsNewest, Values
<1>2. CASE SyncWrite
  BY <1>2 DEF SyncWrite, FilesInv, LatestKept, WrittenBefore, Recoverable
<1>3. CASE SyncRemove
  BY <1>3 DEF SyncRemove, FilesInv, LatestKept, WrittenBefore, Recoverable
<1>4. CASE SyncRename
  BY <1>1, <1>4 DEF SyncRename, FilesInv, LatestKept, WrittenBefore, Recoverable
<1>5. CASE FinalUnlink
  <2>1. \A k \in CharIds : ChunksOf(chunks', k) = {}
    BY <1>5 DEF FinalUnlink, ChunksOf
  <2>2. txt = charDat
    BY <1>5 DEF FinalUnlink, JournalInv, PhasesFit
  <2> QED BY <1>1, <1>5, <2>1, <2>2 DEF FinalUnlink, FilesInv, WrittenBefore, Recoverable
<1>6. CASE FinalClose
  BY <1>6 DEF FinalClose, FilesInv, WrittenBefore, Recoverable
<1> QED BY <1>2, <1>3, <1>4, <1>5, <1>6

LEMMA NewJournalKeepsFiles ==
    ASSUME NewJournal, txt' = charDat',
           \A k \in CharIds : txt'[k] \in Range(possible'[k])
    PROVE  FilesInv'
<1>1. \A k \in CharIds : ChunksOf(chunks', k) = {}
  BY DEF NewJournal, ChunksOf
<1>2. \A k \in CharIds : jdb'[k].idx = 0
  BY DEF NewJournal, NoEntry
<1> QED BY <1>1, <1>2 DEF FilesInv, LatestKept, WrittenBefore, Recoverable

LEMMA CreateAndStartKeepFiles ==
    ASSUME FilesOK,
           JournalCreate \/ StartWithoutFile \/ StartWithoutJournal \/ StartWithJournal
              \/ OperatorRemoves
    PROVE  FilesInv'
<1> USE DEF FilesOK
<1>1. CASE JournalCreate
  <2>1. txt' = charDat' /\ \A k \in CharIds : txt'[k] \in Range(possible'[k])
    BY <1>1 DEF JournalCreate, JournalInv, PhasesFit, Range
  <2> QED BY <1>1, <2>1, NewJournalKeepsFiles DEF JournalCreate
<1>2. CASE StartWithoutJournal
  <2>1. txt' = charDat' /\ \A k \in CharIds : txt'[k] \in Range(possible'[k])
    BY <1>2 DEF StartWithoutJournal, FilesInv, Recoverable
  <2> QED BY <1>2, <2>1, NewJournalKeepsFiles DEF StartWithoutJournal
<1>3. CASE StartWithoutFile \/ StartWithJournal \/ OperatorRemoves
  <2>1. \A k \in CharIds : jdb'[k].idx = 0
    BY <1>3 DEF StartWithoutFile, StartWithJournal, OperatorRemoves, JournalInv, PhasesFit, NoEntry
  <2>2. jmode' # "write" /\ freeq' = <<>>
    BY <1>3 DEF StartWithoutFile, StartWithJournal, OperatorRemoves, JournalInv, PhasesFit
  <2>3. LatestKept'
    BY <2>1, <2>2 DEF LatestKept
  <2>4. WrittenBefore' /\ Recoverable'
    BY <1>3 DEF StartWithoutFile, StartWithJournal, OperatorRemoves, FilesInv,
                WrittenBefore, Recoverable
  <2> QED BY <2>3, <2>4 DEF FilesInv
<1> QED BY <1>1, <1>2, <1>3

\* A crash, and the chunk it may have torn: what the files then hold is what has
\* been possible before.
LEMMA CrashLeaves ==
    ASSUME FilesOK, Crash, NEW k \in CharIds
    PROVE  /\ \A i \in ChunksOf(chunks', k) : i \in ChunksOf(chunks, k) /\ chunks'[i] = chunks[i]
           /\ ChunksOf(chunks, k) # {} =>
                 /\ ChunksOf(chunks', k) # {}
                 /\ Kept(chunks', k) = Kept(chunks, k)
                 /\ chunks'[Kept(chunks, k)] = chunks[Kept(chunks, k)]
<1>1. Torn \in Recorded /\ Torn.key # k
  BY JournalAssumption DEF Recorded, Torn
<1> QED BY <1>1, OthersStay DEF Crash

LEMMA CrashKeepsFiles ==
    ASSUME FilesOK, Crash
    PROVE  FilesInv'
<1>1. LatestKept'
  BY DEF Crash, LatestKept, NoEntry
<1>2. WrittenBefore'
  BY CrashLeaves DEF Crash, FilesOK, FilesInv, WrittenBefore
<1>3. ASSUME NEW k \in CharIds
      PROVE  IF ChunksOf(chunks', k) # {}
             THEN chunks'[Kept(chunks', k)].val \in Range(possible'[k])
             ELSE txt' = Missing \/ txt'[k] \in Range(possible'[k])
  <2>1. CASE txt = Missing
    <3>1. possible'[k] = <<RolledForward(chunks', NoChars)[k], NoChar>> /\ txt' = txt
      BY <2>1 DEF Crash
    <3>2. RolledForward(chunks', NoChars)[k] \in Range(possible'[k])
      BY <3>1 DEF Range
    <3> QED BY <2>1, <3>1, <3>2 DEF RolledForward
  <2>2. CASE txt # Missing
    <3>1. possible'[k] = <<RolledForward(chunks', txt)[k]>> /\ txt' = txt
      BY <2>2 DEF Crash
    <3>2. RolledForward(chunks', txt)[k] \in Range(possible'[k])
      BY <3>1 DEF Range
    <3> QED BY <3>1, <3>2 DEF RolledForward
  <2> QED BY <2>1, <2>2
<1>4. Recoverable'
  BY <1>3 DEF Recoverable
<1> QED BY <1>1, <1>2, <1>4 DEF FilesInv

LEMMA InitKeepsFiles ==
    ASSUME JournalInit
    PROVE  FilesInv
<1>1. \A k \in CharIds : ChunksOf(chunks, k) = {}
  BY DEF JournalInit, ChunksOf
<1>2. \A k \in CharIds : jdb[k].idx = 0
  BY DEF JournalInit, NoEntry
<1>3. \A k \in CharIds : txt[k] = charDat[k] /\ txt[k] \in Range(possible[k])
  BY DEF JournalInit, NoChars, Range
<1> QED BY <1>1, <1>2, <1>3 DEF FilesInv, LatestKept, WrittenBefore, Recoverable

LEMMA StepKeepsFiles ==
    ASSUME FilesOK, 0 \notin StampSteps, [JournalNext]_journalVars
    PROVE  FilesInv'
<1>1. CASE UNCHANGED journalVars
  BY <1>1 DEF journalVars, FilesOK, FilesInv, LatestKept, WrittenBefore, Recoverable
<1>2. CASE JournalNext
  BY <1>2, ChangesKeepFiles, FlushOneKeepsFiles, FlushFailsKeepsFiles, BeginFlushKeepsFiles,
     FlushEndKeepsFiles, SyncKeepsFiles, CreateAndStartKeepFiles, CrashKeepsFiles DEF JournalNext
<1> QED BY <1>1, <1>2

\* The latest chunk of every character stays until a later one is written, and what
\* the files hold is a value the character may come back with.
THEOREM FilesInvariance ==
    ASSUME 0 \notin StampSteps
    PROVE  JournalSpec => []FilesOK
<1>1. JournalInit => FilesOK
  BY InitKeeps, InitKeepsFiles DEF FilesOK
<1>2. FilesOK /\ [JournalNext]_journalVars => FilesOK'
  BY StepKeeps, StepKeepsFiles DEF FilesOK
<1> QED BY <1>1, <1>2, PTL DEF JournalSpec

-----------------------------------------------------------------------------
(* The promise *)

StoreStep == [CharStore!StoreNext]_(CharStore!storeVars)

\* A record of the store keeps its last values: all of them, or only the last.
LEMMA TailsOf ==
    ASSUME NEW s \in Seq(Values), s # <<>>
    PROVE  /\ \E i \in DOMAIN s : s = SubSeq(s, i, Len(s))
           /\ \E i \in DOMAIN s : <<Last(s)>> = SubSeq(s, i, Len(s))
<1>1. Len(s) \in Nat \ {0} /\ DOMAIN s = 1..Len(s)
  BY EmptySeq, LenProperties
<1>2. s = SubSeq(s, 1, Len(s))
  BY <1>1
<1>3. <<Last(s)>> = SubSeq(s, Len(s), Len(s))
  BY <1>1 DEF Last
<1> QED BY <1>1, <1>2, <1>3

LEMMA InitIsStore ==
    ASSUME JournalInit
    PROVE  CharStore!StoreInit
<1>1. txt # Missing
  <2>1. PICK k \in CharIds : TRUE
    BY JournalAssumption
  <2>2. DOMAIN NoChars = CharIds
    BY DEF NoChars
  <2> QED BY <2>1, <2>2 DEF JournalInit, Missing
<1>2. \A k \in CharIds : <<NoChar>> \in {<<v>> : v \in CharStore!Values}
  BY DEF CharStore!Values
<1> QED BY <1>1, <1>2 DEF JournalInit, CharStore!StoreInit

LEMMA ChangeIsStore ==
    ASSUME FilesOK, NEW k \in CharIds, PutChar(k) \/ DeleteChar(k)
    PROVE  CharStore!StoreNext
<1>1. PICK v \in Values : Change(k, v)
  BY ChangesKeepFiles
<1>2. v \in CharStore!Values /\ UNCHANGED txt /\ possible' = [possible EXCEPT ![k] = Append(@, v)]
  BY <1>1 DEF Change, Values, Contents, CharStore!Values
<1>3. CharStore!WriteRecord(k)
  BY <1>2 DEF CharStore!WriteRecord
<1> QED BY <1>3 DEF CharStore!StoreNext

\* journal_flush ends, or the table has been saved: the older values are given up.
LEMMA PromiseIsStore ==
    ASSUME FilesOK, FlushEnd \/ JournalCreate
    PROVE  CharStore!StoreNext
<1>1. \A k \in CharIds : possible[k] \in Seq(Values) /\ possible[k] # <<>>
  BY DEF FilesOK, JournalInv, JournalTypeOK, Values
<1>2. UNCHANGED txt /\ DOMAIN possible' = CharIds
  BY DEF FlushEnd, JournalCreate
<1>3. \A k \in CharIds : possible'[k] \in {possible[k], <<Last(possible[k])>>}
  BY DEF FlushEnd, JournalCreate, FilesOK, JournalInv, TableIsNewest
<1>4. \A k \in CharIds : \E i \in DOMAIN possible[k] :
         possible'[k] = SubSeq(possible[k], i, Len(possible[k]))
  BY <1>1, <1>3, TailsOf
<1> QED BY <1>2, <1>4 DEF CharStore!Promise, CharStore!StoreNext

\* A crash brings every character back as it may come back; while there is no text
\* file it may be lost.
LEMMA CrashIsStore ==
    ASSUME FilesOK, Crash
    PROVE  CharStore!StoreNext
<1>1. \A k \in CharIds :
         IF ChunksOf(chunks', k) # {}
         THEN chunks'[Kept(chunks', k)].val \in Range(possible[k])
         ELSE txt = Missing \/ txt[k] \in Range(possible[k])
  <2> SUFFICES ASSUME NEW k \in CharIds
               PROVE  IF ChunksOf(chunks', k) # {}
                      THEN chunks'[Kept(chunks', k)].val \in Range(possible[k])
                      ELSE txt = Missing \/ txt[k] \in Range(possible[k])
    OBVIOUS
  <2>1. Recoverable
    BY DEF FilesOK, FilesInv
  <2>2. ChunksOf(chunks', k) # {} <=> ChunksOf(chunks, k) # {}
    BY CrashLeaves
  <2> QED BY <2>1, <2>2, CrashLeaves DEF Recoverable
<1>2. UNCHANGED txt /\ DOMAIN possible' = CharIds
  BY DEF Crash
<1>3. CASE txt = Missing
  <2>1. \A k \in CharIds :
           possible'[k] # <<>> /\ Range(possible'[k]) \subseteq Range(possible[k]) \cup {NoChar}
    <3> SUFFICES ASSUME NEW k \in CharIds
                 PROVE  /\ possible'[k] # <<>>
                        /\ Range(possible'[k]) \subseteq Range(possible[k]) \cup {NoChar}
      OBVIOUS
    <3>1. possible'[k] = <<RolledForward(chunks', NoChars)[k], NoChar>>
      BY <1>3 DEF Crash
    <3>2. RolledForward(chunks', NoChars)[k] \in Range(possible[k]) \cup {NoChar}
      BY <1>1 DEF RolledForward, NoChars
    <3> QED BY <3>1, <3>2 DEF Range
  <2> QED BY <1>2, <1>3, <2>1 DEF CharStore!FailExposed, CharStore!StoreNext,
                                     CharStore!Range, Range
<1>4. CASE txt # Missing
  <2>1. \A k \in CharIds : \E v \in Range(possible[k]) : possible'[k] = <<v>>
    BY <1>1, <1>4 DEF Crash, RolledForward
  <2> QED BY <1>2, <1>4, <2>1 DEF CharStore!Fail, CharStore!StoreNext,
                                     CharStore!Range, Range
<1> QED BY <1>3, <1>4

LEMMA StepIsStore ==
    ASSUME FilesOK, [JournalNext]_journalVars
    PROVE  StoreStep
<1>1. CASE UNCHANGED <<txt, possible>>
  BY <1>1 DEF StoreStep, CharStore!storeVars
<1>2. CASE SyncRemove \/ SyncRename
  BY <1>2 DEF SyncRemove, SyncRename, StoreStep, CharStore!Replace, CharStore!StoreNext
<1>3. CASE \E k \in CharIds : PutChar(k) \/ DeleteChar(k)
  BY <1>3, ChangeIsStore DEF StoreStep
<1>4. CASE FlushEnd \/ JournalCreate
  BY <1>4, PromiseIsStore DEF StoreStep
<1>5. CASE Crash
  BY <1>5, CrashIsStore DEF StoreStep
<1>6. CASE \E k \in CharIds : FlushOne(k) \/ FlushFails(k)
  BY <1>1, <1>6 DEF FlushOne, FlushFails
<1>7. CASE FlushTimer \/ FinalFlush
  BY <1>1, <1>7 DEF FlushTimer, FinalFlush, BeginFlush
<1>8. CASE SyncWrite \/ FinalUnlink \/ FinalClose
  BY <1>1, <1>8 DEF SyncWrite, FinalUnlink, FinalClose
<1>9. CASE StartWithoutFile \/ StartWithoutJournal \/ StartWithJournal \/ OperatorRemoves
  BY <1>1, <1>9 DEF StartWithoutFile, StartWithoutJournal, StartWithJournal, OperatorRemoves
<1>10. CASE UNCHANGED journalVars
  BY <1>1, <1>10 DEF journalVars
<1> QED BY <1>2, <1>3, <1>4, <1>5, <1>6, <1>7, <1>8, <1>9, <1>10 DEF JournalNext

\* The files keep the promise of Store: after a crash a character comes back with
\* the value last flushed or saved, or a later one, and with none only while the text
\* file is being replaced.  The hypothesis is needed: the run Journal_rollback shows
\* what happens when two flushes fall into one second.
THEOREM JournalRefinesStore ==
    ASSUME 0 \notin StampSteps
    PROVE  JournalSpec => KeepsPromise
<1>1. JournalInit => CharStore!StoreInit
  BY InitIsStore
<1>2. FilesOK /\ [JournalNext]_journalVars => StoreStep
  BY StepIsStore
<1> QED BY <1>1, <1>2, FilesInvariance, PTL DEF JournalSpec, KeepsPromise, CharStore!StoreSpec, StoreStep

====
