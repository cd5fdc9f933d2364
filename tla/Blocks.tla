------------------------------- MODULE Blocks --------------------------------
(***************************************************************************)
(* The block lists of a map (map.c): who stands where, walked by functions *)
(* that move, remove and free blocks and walk again themselves; the queue  *)
(* of blocks that are freed late; and the array of temporary objects.      *)
(* A cell is a square of BLOCK_SIZE by BLOCK_SIZE.  Monsters have lists of *)
(* their own.  Players leave and enter lists but are not freed here.       *)
(***************************************************************************)
EXTENDS Integers, FiniteSets, Sequences, SequencesExt

CONSTANTS
    Pcs, Mobs, Things,   \* players, monsters, items on the floor
    LastCell,            \* cells are numbered in the order in which a map is walked
    NullBl, ListHead,   \* the null pointer, and &bl_head
    MaxObject,           \* the largest id of an object: MAX_FLOORITEM - 1
    MaxList, MaxFree,    \* BL_LIST_MAX and block_free_max
    Areas,               \* bound: sets of cells that are walked
    DropCells,           \* bound: cells in which things are dropped
    MaxNest,             \* bound: foreach within foreach
    MaxChanges,          \* bound: changes that functions called by a foreach make
    MaxForgotten         \* bound: functions that return without unlocking

Bls == Pcs \cup Mobs \cup Things
Cells == 1..LastCell

ASSUME BlocksAssumption ==
    /\ LastCell \in Nat \ {0}
    /\ Areas \subseteq (SUBSET Cells) \ {{}} /\ DropCells \subseteq Cells
    /\ IsFiniteSet(Bls)
    /\ {NullBl, ListHead} \cap Bls = {} /\ NullBl # ListHead
    /\ Pcs \cap Mobs = {} /\ Pcs \cap Things = {} /\ Mobs \cap Things = {}
    /\ MaxObject \in Nat \ {0, 1}
    /\ {MaxList, MaxFree, MaxNest, MaxChanges, MaxForgotten} \subseteq Nat

VARIABLES
    links,       \* the lists: head and count of each, prev and next of each block
    cellOf,      \* bl->x and bl->y
    mem,         \* none, live, or dying: out of the game but not freed yet
    queue,       \* block_free
    lock,        \* block_free_lock
    blList,      \* bl_list up to bl_list_count
    frames,      \* the foreachs that are running, the innermost last
    object,      \* object[]
    firstFree, lastId,
    changes, forgotten

blocksVars == <<links, cellOf, mem, queue, lock, blList, frames, object, firstFree, lastId,
                changes, forgotten>>
listVars == <<links, cellOf>>
freeVars == <<mem, queue>>
objectVars == <<object, firstFree, lastId>>

\* A list of players and things, and one of monsters, in each cell.
Lists == Cells \X BOOLEAN
ListOf(b, c) == <<c, b \in Mobs>>
ObjectIds == 2..MaxObject

BlocksTypeOK ==
    /\ links \in [head : [Lists -> Bls \cup {NullBl}], count : [Lists -> Int],
                  prev : [Bls -> Bls \cup {NullBl, ListHead}], next : [Bls -> Bls \cup {NullBl}],
                  users : Int]
    /\ cellOf \in [Bls -> Cells]
    /\ mem \in [Bls -> {"none", "live", "dying"}]
    /\ queue \in Seq(Bls) /\ Len(queue) <= MaxFree
    /\ lock \in Nat
    /\ blList \in Seq(Bls) /\ Len(blList) <= MaxList
    /\ frames \in Seq([from : Nat, at : Nat, calling : BOOLEAN, stay : SUBSET Bls, seen : Seq(Bls)])
    /\ object \in [ObjectIds -> Things \cup {NullBl}]
    /\ firstFree \in 0..MaxObject + 1 /\ lastId \in 0..MaxObject
    /\ changes \in 0..MaxChanges /\ forgotten \in 0..MaxForgotten

-----------------------------------------------------------------------------
(* The lists                                                               *)

InList(b) == links.prev[b] # NullBl

User(b) == IF b \in Pcs THEN 1 ELSE 0

\* map_addblock: in front.
AddBlock(l, b, c) ==
    LET q == ListOf(b, c)
        n == l.head[q]
        put == [l EXCEPT !.head[q] = b, !.count[q] = @ + 1, !.next[b] = n,
                         !.prev[b] = ListHead, !.users = @ + User(b)] IN
    IF n = NullBl THEN put ELSE [put EXCEPT !.prev[n] = b]

\* Mutant: the next block is not told.
DelBlockOneWay(l, b, c) ==
    LET q == ListOf(b, c)
        n == l.next[b]
        p == l.prev[b]
        cut == IF p = ListHead THEN [l EXCEPT !.head[q] = n] ELSE [l EXCEPT !.next[p] = n] IN
    [cut EXCEPT !.count[q] = @ - 1, !.next[b] = NullBl, !.prev[b] = NullBl, !.users = @ - User(b)]

\* map_delblock of a block that is in a list.
DelBlock(l, b, c) ==
    LET q == ListOf(b, c)
        n == l.next[b]
        p == l.prev[b]
        told == IF n = NullBl THEN l ELSE [l EXCEPT !.prev[n] = p]
        cut == IF p = ListHead THEN [told EXCEPT !.head[q] = n] ELSE [told EXCEPT !.next[p] = n] IN
    [cut EXCEPT !.count[q] = @ - 1, !.next[b] = NullBl, !.prev[b] = NullBl, !.users = @ - User(b)]

\* The blocks of a list from its head on, as far as its count goes.
Chain(q) ==
    LET n == Cardinality(Bls)
        last == IF links.count[q] < n THEN links.count[q] ELSE n
        at[i \in 1..n] == IF i = 1 THEN links.head[q]
                          ELSE IF at[i - 1] = NullBl THEN NullBl ELSE links.next[at[i - 1]] IN
    [i \in 1..Cardinality({j \in 1..last : at[j] # NullBl}) |-> at[i]]

-----------------------------------------------------------------------------
(* Freeing late                                                            *)

\* map_freeblock of b, when b has left its list.
FreeBlock(b) ==
    IF lock = 0
    THEN mem' = [mem EXCEPT ![b] = "none"] /\ UNCHANGED queue
    ELSE /\ mem' = [mem EXCEPT ![b] = "dying"]
         /\ queue' = IF Len(queue) >= MaxFree THEN queue ELSE Append(queue, b)

\* map_freeblock_unlock.
Unlock ==
    /\ lock' = lock - 1
    /\ IF lock = 1
       THEN /\ mem' = [b \in Bls |-> IF b \in ToSet(queue) THEN "none" ELSE mem[b]]
            /\ queue' = <<>>
       ELSE UNCHANGED freeVars

\* Mutant: the timer does not wait for the top level.
FreeblockTimerAnywhere ==
    /\ TRUE
    /\ lock > 0
    /\ lock' = 0
    /\ mem' = [b \in Bls |-> IF b \in ToSet(queue) THEN "none" ELSE mem[b]]
    /\ queue' = <<>>
    /\ UNCHANGED <<listVars, blList, frames, objectVars, changes, forgotten>>

\* map_freeblock_timer, called by do_timer when nothing else runs: some
\* functions return without unlocking.
FreeblockTimer ==
    /\ frames = <<>>
    /\ lock > 0
    /\ lock' = 0
    /\ mem' = [b \in Bls |-> IF b \in ToSet(queue) THEN "none" ELSE mem[b]]
    /\ queue' = <<>>
    /\ UNCHANGED <<listVars, blList, frames, objectVars, changes, forgotten>>

-----------------------------------------------------------------------------
(* What handlers, timers and the functions called by a foreach do          *)

Frame == Last(frames)

Acts ==
    /\ IF frames = <<>> THEN TRUE ELSE Frame.calling /\ changes < MaxChanges
    /\ changes' = IF frames = <<>> THEN 0 ELSE changes + 1

\* History: b is not any more where the running foreachs found it.
Disturb(b) == frames' = [i \in DOMAIN frames |-> [frames[i] EXCEPT !.stay = @ \ {b}]]

\* LoadEndAck, mob_spawn: a player or a monster enters the map.
Appear(b, c) ==
    /\ Acts
    /\ b \in Pcs \cup Mobs
    /\ ~InList(b) /\ mem[b] # "dying"
    /\ mem' = [mem EXCEPT ![b] = "live"]
    /\ links' = AddBlock(links, b, c)
    /\ cellOf' = [cellOf EXCEPT ![b] = c]
    /\ UNCHANGED <<queue, lock, blList, frames, objectVars, forgotten>>

\* unit_walktoxy_timer: over the border of a cell.
MoveOver(b, c) ==
    /\ Acts
    /\ b \notin Things /\ InList(b) /\ c # cellOf[b]
    /\ links' = AddBlock(DelBlock(links, b, cellOf[b]), b, c)
    /\ cellOf' = [cellOf EXCEPT ![b] = c]
    /\ Disturb(b)
    /\ UNCHANGED <<freeVars, lock, blList, objectVars, forgotten>>

\* unit_remove_map of a player.
Leave(b) ==
    /\ Acts
    /\ b \in Pcs /\ InList(b)
    /\ links' = DelBlock(links, b, cellOf[b])
    /\ Disturb(b)
    /\ UNCHANGED <<cellOf, freeVars, lock, blList, objectVars, forgotten>>

\* unit_remove_map of a monster that does not come back.
Die(b) ==
    /\ Acts
    /\ b \in Mobs /\ InList(b)
    /\ links' = DelBlock(links, b, cellOf[b])
    /\ Disturb(b)
    /\ FreeBlock(b)
    /\ UNCHANGED <<cellOf, lock, blList, objectVars, forgotten>>

\* map_addobject: the first free id from firstFree on.
From == IF firstFree < 2 \/ firstFree > MaxObject THEN 2 ELSE firstFree
FreeIds == {i \in From..MaxObject : object[i] = NullBl}

\* map_addflooritem: the object gets an id, then it is put on the map.
Drop(b, c) ==
    /\ Acts
    /\ mem[b] = "none"
    /\ \/ /\ FreeIds = {}
          /\ firstFree' = From
          /\ UNCHANGED <<listVars, mem, object, lastId>>
       \/ \E i \in FreeIds :
             /\ \A j \in FreeIds : i <= j
             /\ object' = [object EXCEPT ![i] = b]
             /\ firstFree' = i
             /\ lastId' = IF lastId < i THEN i ELSE lastId
             /\ mem' = [mem EXCEPT ![b] = "live"]
             /\ links' = AddBlock(links, b, c)
             /\ cellOf' = [cellOf EXCEPT ![b] = c]
    /\ UNCHANGED <<queue, lock, blList, frames, forgotten>>

UsedIds(o) == {i \in ObjectIds : o[i] # NullBl}

\* Mutant: the id that is free again is not remembered.
PickUpForgetsId(i) ==
    LET b == object[i] IN
    /\ Acts
    /\ b # NullBl
    /\ links' = IF InList(b) THEN DelBlock(links, b, cellOf[b]) ELSE links
    /\ Disturb(b)
    /\ object' = [object EXCEPT ![i] = NullBl]
    /\ firstFree' = firstFree
    /\ lastId' = CHOOSE n \in UsedIds(object') \cup {2} :
                     \A k \in UsedIds(object') \cup {2} : k <= n
    /\ FreeBlock(b)
    /\ UNCHANGED <<cellOf, lock, blList, forgotten>>

\* map_clearflooritem, map_delobject.
PickUp(i) ==
    LET b == object[i] IN
    /\ Acts
    /\ b # NullBl
    /\ links' = IF InList(b) THEN DelBlock(links, b, cellOf[b]) ELSE links
    /\ Disturb(b)
    /\ object' = [object EXCEPT ![i] = NullBl]
    /\ firstFree' = IF firstFree > i THEN i ELSE firstFree
    /\ lastId' = CHOOSE n \in UsedIds(object') \cup {2} :
                     \A k \in UsedIds(object') \cup {2} : k <= n
    /\ FreeBlock(b)
    /\ UNCHANGED <<cellOf, lock, blList, forgotten>>

\* mob_damage of a monster that an event has brought back to life, and
\* skill_castend_damage_id of GS_BULLSEYE, return without unlocking.
ForgetUnlock ==
    /\ Acts
    /\ forgotten < MaxForgotten
    /\ forgotten' = forgotten + 1
    /\ lock' = lock + 1
    /\ UNCHANGED <<listVars, freeVars, blList, frames, objectVars>>

-----------------------------------------------------------------------------
(* foreach                                                                 *)

\* As much of the blocks found as there is room for in bl_list.
Fits(found) == LET room == MaxList - Len(blList) IN
               IF Len(found) <= room THEN found ELSE SubSeq(found, 1, room)

\* map_freeblock_lock, and the loop over what was found.
Begin(found) ==
    /\ IF frames = <<>> THEN TRUE ELSE Frame.calling
    /\ Len(frames) < MaxNest
    /\ blList' = blList \o Fits(found)
    /\ frames' = Append(frames, [from |-> Len(blList), at |-> Len(blList), calling |-> FALSE,
                                 stay |-> ToSet(Fits(found)), seen |-> <<>>])
    /\ lock' = lock + 1
    /\ UNCHANGED <<listVars, freeVars, objectVars, changes, forgotten>>

\* map_foreachinarea_sub: the cells of the area, first for players and things
\* and then for monsters.
ForeachInArea(area, types) ==
    LET In(mobs) == FlattenSeq([c \in Cells |-> IF c \in area THEN Chain(<<c, mobs>>) ELSE <<>>]) IN
    Begin(IF types = "mobs" THEN In(TRUE) ELSE In(FALSE) \o In(TRUE))

\* map_foreachobject.
ForeachObject ==
    Begin(FlattenSeq([i \in 1..(lastId - 1) |->
                         IF object[i + 1] = NullBl THEN <<>> ELSE <<object[i + 1]>>]))

\* The function is called if the block is still in a list.
ForeachCall ==
    /\ frames # <<>>
    /\ Frame.at < Len(blList)
    /\ LET b == blList[Frame.at + 1]
           on == [Frame EXCEPT !.at = @ + 1] IN
       frames' = [frames EXCEPT ![Len(frames)] =
                     IF InList(b) THEN [on EXCEPT !.calling = TRUE, !.seen = Append(@, b)]
                     ELSE [on EXCEPT !.calling = FALSE]]
    /\ UNCHANGED <<listVars, freeVars, lock, blList, objectVars, changes, forgotten>>

\* Mutant: what an inner foreach has found stays on bl_list.
ForeachEndKeeps ==
    /\ frames # <<>>
    /\ Frame.at = Len(blList)
    /\ frames' = Front(frames)
    /\ blList' = blList
    /\ Unlock
    /\ changes' = IF Len(frames) = 1 THEN 0 ELSE changes
    /\ UNCHANGED <<listVars, objectVars, forgotten>>

\* map_freeblock_unlock; bl_list_count is what it was.
ForeachEnd ==
    /\ frames # <<>>
    /\ Frame.at = Len(blList)
    /\ frames' = Front(frames)
    /\ blList' = SubSeq(blList, 1, Frame.from)
    /\ Unlock
    /\ changes' = IF Len(frames) = 1 THEN 0 ELSE changes
    /\ UNCHANGED <<listVars, objectVars, forgotten>>

-----------------------------------------------------------------------------
BlocksInit ==
    /\ links = [head |-> [q \in Lists |-> NullBl], count |-> [q \in Lists |-> 0],
                prev |-> [b \in Bls |-> NullBl], next |-> [b \in Bls |-> NullBl], users |-> 0]
    /\ cellOf = [b \in Bls |-> CHOOSE c \in Cells : TRUE]
    /\ mem = [b \in Bls |-> IF b \in Pcs THEN "live" ELSE "none"]
    /\ queue = <<>> /\ lock = 0
    /\ blList = <<>> /\ frames = <<>>
    /\ object = [i \in ObjectIds |-> NullBl]
    /\ firstFree = 0 /\ lastId = 0
    /\ changes = 0 /\ forgotten = 0

BlocksNext ==
    \/ \E b \in Bls, c \in Cells : Appear(b, c) \/ MoveOver(b, c)
    \/ \E b \in Things, c \in DropCells : Drop(b, c)
    \/ \E b \in Bls : Leave(b) \/ Die(b)
    \/ \E i \in ObjectIds : PickUp(i)
    \/ ForgetUnlock \/ FreeblockTimer
    \/ \E area \in Areas, types \in {"all", "mobs"} : ForeachInArea(area, types)
    \/ ForeachObject \/ ForeachCall \/ ForeachEnd

BlocksSpec == BlocksInit /\ [][BlocksNext]_blocksVars

-----------------------------------------------------------------------------
(* Properties                                                              *)

\* Every list is sound: from its head on it has the blocks that stand in its
\* cell, each once and linked back to the one before, and as many as its count.
ListsSound ==
    /\ \A q \in Lists :
          LET s == Chain(q) IN
          /\ Len(s) = links.count[q]
          /\ ToSet(s) = {b \in Bls : InList(b) /\ ListOf(b, cellOf[b]) = q}
          /\ Cardinality(ToSet(s)) = Len(s)
          /\ \A i \in DOMAIN s : links.prev[s[i]] = IF i = 1 THEN ListHead ELSE s[i - 1]
    /\ links.users = Cardinality({b \in Pcs : InList(b)})

\* A block that a foreach is still to look at is not freed, whatever the
\* functions in between remove, and however often a lock was forgotten.
NotFreedInUse ==
    \A k \in DOMAIN frames : \A i \in frames[k].at + 1..Len(blList) : mem[blList[i]] # "none"

\* A foreach calls its function once for each block it has found and that
\* stays in its place, though the functions of others walk the map themselves.
ForeachMeetsAll ==
    [][\A k \in DOMAIN frames \ DOMAIN frames' : \A b \in frames[k].stay :
          Cardinality({i \in DOMAIN frames[k].seen : frames[k].seen[i] = b}) = 1]_blocksVars

\* The search for a free id begins at or below every free id, and the walk of
\* the objects ends at or above every used one: no id is lost, and every
\* object on the floor is found.
ObjectsFound ==
    /\ \A i \in ObjectIds : object[i] = NullBl => firstFree <= i
    /\ \A i \in UsedIds(object) : i <= lastId
    /\ \A b \in Things : mem[b] = "live" <=> b \in {object[i] : i \in ObjectIds}

=============================================================================
