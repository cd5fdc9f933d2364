-------------------------------- MODULE MobAi --------------------------------
(***************************************************************************)
(* Which monsters think (mob.c): each monster counts the characters that   *)
(* are near it, and those with somebody near are linked into one list,     *)
(* which mob_ai_hard goes through, in pieces when the server is busy.  The *)
(* counts are kept up to date by whoever appears, walks, is pushed or goes.*)
(***************************************************************************)
EXTENDS Integers, FiniteSets, Sequences, SequencesExt

CONSTANTS
    Characters, Monsters,
    Respawning,          \* the monsters that come back; others live once
    NoMob,               \* the null pointer
    Width, Height,       \* of the map
    Squares,             \* where there is no wall
    Sight,               \* AREA_SIZE * 2
    MaxJump,             \* bound: how far unit_movepos moves
    Landings,            \* bound: squares to which units are moved other than on foot
    MaxDoings            \* bound: what the monsters do to others in one mob_ai_hard

Nowhere == <<0, 0>>
Units == Characters \cup Monsters

ASSUME MobAiAssumption ==
    /\ {Width, Height} \subseteq Nat \ {0} /\ {Sight, MaxJump, MaxDoings} \subseteq Nat
    /\ Landings \subseteq Squares /\ Squares \subseteq (1..Width) \X (1..Height)
    /\ MaxJump <= 2 * Sight + 1    \* MAX_WALKPATH is less than the width of the sight
    /\ IsFiniteSet(Characters) /\ IsFiniteSet(Monsters)
    /\ Characters \cap Monsters = {} /\ Respawning \subseteq Monsters /\ NoMob \notin Monsters

VARIABLES
    at,          \* bl->x and bl->y, Nowhere without bl->prev
    known,       \* the monsters in id_db
    ai,          \* mob_ai_hard_head and _count, and ai_pc_count, ai_next and ai_prev
    think,       \* mob_ai_hard while it runs: what it does, mob_ai_hard_buf and its place there
    nextIds,     \* mob_ai_hard_next_id
    unheard      \* history: monsters that stay on the list and have not had their turn

mobAiVars == <<at, known, ai, think, nextIds, unheard>>

MobAiTypeOK ==
    /\ at \in [Units -> Squares \cup {Nowhere}]
    /\ known \subseteq Monsters
    /\ ai \in [head : Monsters \cup {NoMob}, count : Nat, near : [Monsters -> Nat],
               next : [Monsters -> Monsters \cup {NoMob}],
               prev : [Monsters -> Monsters \cup {NoMob}]]
    /\ think \in [phase : {"idle", "rest", "list"}, buf : Seq(Monsters),
                  i : 0..Cardinality(Monsters), doings : 0..MaxDoings]
    /\ nextIds \in Seq(Monsters)
    /\ unheard \subseteq Monsters

OnMap(u) == at[u] # Nowhere

-----------------------------------------------------------------------------
(* The list of the monsters that think                                     *)

AiAdd(a, m) ==
    IF a.head = NoMob
    THEN [a EXCEPT !.head = m, !.count = @ + 1]
    ELSE [a EXCEPT !.next[m] = a.head, !.prev[a.head] = m, !.head = m, !.count = @ + 1]

AiDel(a, m) ==
    LET n == a.next[m]
        p == a.prev[m]
        cut == IF a.head = m THEN [a EXCEPT !.head = n]
               ELSE IF p = NoMob THEN a ELSE [a EXCEPT !.next[p] = n]
        told == IF n = NoMob THEN cut ELSE [cut EXCEPT !.prev[n] = p] IN
    [told EXCEPT !.prev[m] = NoMob, !.next[m] = NoMob, !.count = IF @ = 0 THEN 0 ELSE @ - 1]

\* mob_ai_hard_spawn_sub with flag 1 and with flag 0.
Comes(a, m) ==
    LET b == [a EXCEPT !.near[m] = @ + 1] IN IF a.near[m] = 0 THEN AiAdd(b, m) ELSE b
Goes(a, m) ==
    LET b == [a EXCEPT !.near[m] = @ - 1] IN IF b.near[m] = 0 THEN AiDel(b, m) ELSE b

\* What map_foreachinarea and map_foreachinmovearea call it for: u is a
\* character and meets the monsters there, or a monster that meets characters.
Met(u, there) ==
    {v \in IF u \in Monsters THEN Characters ELSE Monsters : OnMap(v) /\ at[v] \in there}

ComesTo(a, u, there) ==
    FoldSet(LAMBDA v, b : Comes(b, IF u \in Monsters THEN u ELSE v), a, Met(u, there))
GoesFrom(a, u, there) ==
    FoldSet(LAMBDA v, b : Goes(b, IF u \in Monsters THEN u ELSE v), a, Met(u, there))

\* Mutant: the coordinates are put right for the border of the map first.
StripClipped(s, dx, dy) ==
    LET x0 == IF s[1] > Sight THEN s[1] - Sight ELSE 1
        x1 == IF s[1] + Sight < Width THEN s[1] + Sight ELSE Width
        y0 == IF s[2] > Sight THEN s[2] - Sight ELSE 1
        y1 == IF s[2] + Sight < Height THEN s[2] + Sight ELSE Height IN
    {q \in (x0..x1) \X (y0..y1) :
        \/ (dx > 0 /\ q[1] < x0 + dx) \/ (dx < 0 /\ q[1] > x1 + dx)
        \/ (dy > 0 /\ q[2] < y0 + dy) \/ (dy < 0 /\ q[2] > y1 + dy)}

Around(s) == ((s[1] - Sight)..(s[1] + Sight)) \X ((s[2] - Sight)..(s[2] + Sight))

\* map_foreachinmovearea: what the square of Sight around s leaves behind when
\* it moves by dx and dy.
Strip(s, dx, dy) ==
    LET x0 == s[1] - Sight
        x1 == s[1] + Sight
        y0 == s[2] - Sight
        y1 == s[2] + Sight IN
    IF dx = 0 THEN (x0..x1) \X (IF dy < 0 THEN y1 + dy + 1..y1 ELSE y0..y0 + dy - 1)
    ELSE IF dy = 0 THEN (IF dx < 0 THEN x1 + dx + 1..x1 ELSE x0..x0 + dx - 1) \X (y0..y1)
    ELSE {q \in Around(s) :
             \/ (dx > 0 /\ q[1] < x0 + dx) \/ (dx < 0 /\ q[1] > x1 + dx)
             \/ (dy > 0 /\ q[2] < y0 + dy) \/ (dy < 0 /\ q[2] > y1 + dy)}

-----------------------------------------------------------------------------
(* Appearing, moving and going                                             *)

Idle == think.phase = "idle"

\* A packet or a timer when nothing else runs, or what a monster that has its
\* turn brings about.
Does ==
    /\ Idle \/ (think.i > 0 /\ think.doings < MaxDoings)
    /\ think' = IF Idle THEN think ELSE [think EXCEPT !.doings = @ + 1]

\* A monster without anybody near has left the list.
Listens == unheard' = {m \in unheard : ai'.near[m] > 0}

\* LoadEndAck.
CharacterEnters(p, s) ==
    /\ Idle
    /\ ~OnMap(p)
    /\ at' = [at EXCEPT ![p] = s]
    /\ ai' = ComesTo(ai, p, Around(s))
    /\ Listens
    /\ UNCHANGED <<known, think, nextIds>>

\* unit_remove_map of a character.
CharacterLeaves(p) ==
    /\ Does
    /\ OnMap(p)
    /\ ai' = GoesFrom(ai, p, Around(at[p]))
    /\ at' = [at EXCEPT ![p] = Nowhere]
    /\ Listens
    /\ UNCHANGED <<known, nextIds>>

\* From the square where u stands to s, as unit_walktoxy_timer and
\* unit_movepos do it.
Shift(u, s) ==
    LET dx == s[1] - at[u][1]
        dy == s[2] - at[u][2] IN
    /\ at' = [at EXCEPT ![u] = s]
    /\ ai' = ComesTo(GoesFrom(ai, u, Strip(at[u], dx, dy)), u, Strip(s, -dx, -dy))
    /\ Listens
    /\ UNCHANGED <<known, nextIds>>

Distance(s, q) ==
    LET d(i) == IF s[i] < q[i] THEN q[i] - s[i] ELSE s[i] - q[i] IN
    IF d(1) < d(2) THEN d(2) ELSE d(1)

\* unit_walktoxy_timer, at the middle of the next square.
WalkStep(u, s) ==
    /\ Idle
    /\ OnMap(u) /\ Distance(at[u], s) = 1
    /\ Shift(u, s)
    /\ UNCHANGED think

\* unit_movepos: a skill moves or pushes u.
Movepos(u, s) ==
    /\ Does
    /\ OnMap(u) /\ Distance(at[u], s) <= MaxJump
    /\ Shift(u, s)

\* mob_spawn, of a monster that waits for it or in the middle of its life;
\* there may be no free square.
MobSpawn(m, s) ==
    /\ Does
    /\ m \in known
    /\ ai' = LET off == IF OnMap(m) THEN GoesFrom(ai, m, Around(at[m])) ELSE ai IN
             IF s = Nowhere THEN off ELSE ComesTo(off, m, Around(s))
    /\ at' = [at EXCEPT ![m] = s]
    /\ Listens
    /\ UNCHANGED <<known, nextIds>>

\* mob_once_spawn, mob_summonslave: a new monster.
Summon(m, s) ==
    /\ Does
    /\ m \notin known \cup Respawning \cup ToSet(think.buf) \cup ToSet(nextIds)
    /\ known' = known \cup {m}
    /\ ai' = ComesTo([ai EXCEPT !.near[m] = 0, !.next[m] = NoMob, !.prev[m] = NoMob], m, Around(s))
    /\ at' = [at EXCEPT ![m] = s]
    /\ Listens
    /\ UNCHANGED nextIds

\* mob_warp.
MobWarp(m, s) ==
    /\ Does
    /\ OnMap(m)
    /\ ai' = ComesTo(GoesFrom(ai, m, Around(at[m])), m, Around(s))
    /\ at' = [at EXCEPT ![m] = s]
    /\ Listens
    /\ UNCHANGED <<known, nextIds>>

\* unit_remove_map of a monster, which is killed or goes with its master.
MobLeaves(m) ==
    /\ Does
    /\ OnMap(m)
    /\ LET off == GoesFrom(ai, m, Around(at[m])) IN
       ai' = IF off.near[m] # 0 \/ off.next[m] # NoMob \/ off.prev[m] # NoMob
             THEN [AiDel(off, m) EXCEPT !.near[m] = 0] ELSE off
    /\ at' = [at EXCEPT ![m] = Nowhere]
    /\ known' = IF m \in Respawning THEN known ELSE known \ {m}
    /\ Listens
    /\ UNCHANGED nextIds

-----------------------------------------------------------------------------
(* mob_ai_hard                                                             *)

\* mob_ai_hard_createlist: as many as it counts, from the head on.
CreateList ==
    LET n == Cardinality(Monsters)
        last == IF ai.count < n THEN ai.count ELSE n
        chain[i \in 1..n] == IF i = 1 THEN ai.head
                             ELSE IF chain[i - 1] = NoMob THEN NoMob ELSE ai.next[chain[i - 1]] IN
    [i \in 1..Cardinality({j \in 1..last : chain[j] # NoMob}) |-> chain[i]]

\* There is time to think.
AiStart ==
    /\ Idle
    /\ think' = [think EXCEPT !.phase = "rest"]
    /\ UNCHANGED <<at, known, ai, nextIds, unheard>>

\* First those that were left over, from the last one back.
AiRest ==
    /\ think.phase = "rest" /\ nextIds # <<>>
    /\ nextIds' = Front(nextIds)
    /\ think' = [think EXCEPT !.i = IF OnMap(Last(nextIds)) THEN 1 ELSE @]
    /\ unheard' = IF OnMap(Last(nextIds)) THEN unheard \ {Last(nextIds)} ELSE unheard
    /\ UNCHANGED <<at, known, ai>>

\* Then everybody.
AiEverybody ==
    /\ think.phase = "rest" /\ nextIds = <<>>
    /\ think' = [think EXCEPT !.phase = "list", !.buf = CreateList, !.i = 0]
    /\ unheard' = ToSet(CreateList)
    /\ UNCHANGED <<at, known, ai, nextIds>>

AiOne ==
    /\ think.phase = "list" /\ think.i < Len(think.buf)
    /\ think' = [think EXCEPT !.i = @ + 1]
    /\ unheard' = unheard \ {think.buf[think.i + 1]}
    /\ UNCHANGED <<at, known, ai, nextIds>>

NotThinking == [phase |-> "idle", buf |-> <<>>, i |-> 0, doings |-> 0]

\* Mutant: what was left over is forgotten.
AiStopForgets ==
    /\ think.i > 0
    /\ nextIds' = <<>>
    /\ think' = NotThinking
    /\ UNCHANGED <<at, known, ai, unheard>>

\* The time is over: the ids of the one that was the last and of those that
\* did not come to their turn are kept.
AiStop ==
    /\ think.i > 0
    /\ nextIds' = IF think.phase = "list" THEN SubSeq(think.buf, think.i, Len(think.buf))
                  ELSE nextIds
    /\ think.phase = "rest" => nextIds # <<>>
    /\ think' = NotThinking
    /\ UNCHANGED <<at, known, ai, unheard>>

AiEnd ==
    /\ think.phase = "list" /\ think.i = Len(think.buf)
    /\ think' = NotThinking
    /\ UNCHANGED <<at, known, ai, nextIds, unheard>>

-----------------------------------------------------------------------------
MobAiInit ==
    /\ at = [u \in Units |-> Nowhere]
    /\ known = Respawning
    /\ ai = [head |-> NoMob, count |-> 0, near |-> [m \in Monsters |-> 0],
             next |-> [m \in Monsters |-> NoMob], prev |-> [m \in Monsters |-> NoMob]]
    /\ think = NotThinking
    /\ nextIds = <<>>
    /\ unheard = {}

MobAiNext ==
    \/ \E p \in Characters, s \in Landings : CharacterEnters(p, s)
    \/ \E p \in Characters : CharacterLeaves(p)
    \/ \E u \in Units, s \in Squares : WalkStep(u, s)
    \/ \E u \in Units, s \in Landings : Movepos(u, s)
    \/ \E m \in Monsters, s \in Landings \cup {Nowhere} : MobSpawn(m, s)
    \/ \E m \in Monsters, s \in Landings : Summon(m, s) \/ MobWarp(m, s)
    \/ \E m \in Monsters : MobLeaves(m)
    \/ AiStart \/ AiRest \/ AiEverybody \/ AiOne \/ AiStop \/ AiEnd

MobAiSpec == MobAiInit /\ [][MobAiNext]_mobAiVars

-----------------------------------------------------------------------------
(* Properties                                                              *)

\* Whoever came, walked, was pushed, was killed or went, and in whatever
\* order: each monster on the map counts exactly the characters near it, one
\* that is not counts none, and the list has each monster with somebody near
\* once, linked both ways, and as many as it says.
AiKnowsWhoIsNear ==
    LET thinking == {m \in Monsters : ai.near[m] > 0} IN
    /\ \A m \in Monsters :
          ai.near[m] = IF OnMap(m) THEN Cardinality(Met(m, Around(at[m]))) ELSE 0
    /\ ToSet(CreateList) = thinking /\ ai.count = Cardinality(thinking)
    /\ \A m \in Monsters : ai.prev[m] = IF m = ai.head THEN NoMob
                                        ELSE IF m \in thinking
                                             THEN CHOOSE k \in thinking : ai.next[k] = m ELSE NoMob
    /\ \A m \in Monsters \ thinking : ai.next[m] = NoMob

\* However often the time is over: when the list is made anew, every monster
\* that stayed on it since the last time has had its turn.
EveryMobThinks ==
    [][think.phase = "rest" /\ think'.phase = "list" => unheard = {}]_mobAiVars

=============================================================================
