-------------------------------- MODULE Unit ---------------------------------
(***************************************************************************)
(* unit.c and the ends of casts in skill.c: the timers by which players    *)
(* and monsters walk, attack and cast, each held in the unit's data and    *)
(* checked when it fires.  Where a unit stands is left out, and how far    *)
(* along its path it is is kept.  Due timers fire in any order.  The       *)
(* monsters are those that come back to life.                              *)
(***************************************************************************)
EXTENDS Integers, FiniteSets

CONSTANTS
    Players, Beasts,
    Nobody,         \* the target 0
    Speeds,         \* what status_calc_pc may find, in milliseconds a cell
    MaxFreeCast,    \* the highest level of SA_FREECAST, at most MAX_SKILL_LEVEL
    Lengths,        \* bound: of the paths of each unit
    MaxLives        \* bound: logins and respawns

Folk == Players \cup Beasts

ASSUME UnitAssumption ==
    /\ Players \cap Beasts = {} /\ Nobody \notin Folk
    /\ IsFiniteSet(Folk)
    /\ Speeds \subseteq Nat \ {0} /\ Speeds # {}
    /\ MaxFreeCast \in 0..20
    /\ Lengths \in [Folk -> SUBSET (Nat \ {0})] /\ MaxLives \in Nat

VARIABLES
    ud,       \* struct unit_data, and what of the session or monster goes with it
    clock,    \* the timers of units that are set
    lives

unitVars == <<ud, clock, lives>>

\* A timer's number is the unit, the function and a count.  timer.c gives a
\* number to any timer once it is free, but a unit that held a number which is
\* free would break TimersMatch before that.
None == <<>>
Numbers == Folk \X {"walk", "attack", "id", "pos"} \X (1..(MaxLives + 2))
UnitOf(n) == n[1]
KindOf(n) == n[2]

\* skillid, by how the skill is used: on a target, on a place, SA_CASTCANCEL.
Spells == {"id", "pos", "cancel"}

\* The function that ends a cast, and that unit_skillcastcancel names.
CastendOf(spell) == IF spell = "pos" THEN "pos" ELSE "id"

UnitData ==
    [place : {"map", "off", "gone"}, dead : BOOLEAN,
     walk : Numbers \cup {None}, attack : Numbers \cup {None}, cast : Numbers \cup {None},
     pos : Nat, len : Nat, turn : BOOLEAN, aim : Folk \cup {Nobody}, spell : Spells,
     free : 0..MaxFreeCast, base : Speeds, speed : Nat, prev : Nat]
Clocked == [number : Numbers, step : Nat, old : BOOLEAN]

UnitTypeOK ==
    /\ ud \in [Folk -> UnitData]
    /\ clock \subseteq Clocked
    /\ \A s, t \in clock : s.number = t.number => s = t
    /\ lives \in 0..MaxLives

\* Handlers call one another, and so work on a copy of the state.
Game == [ud |-> ud, clock |-> clock]

\* What is set anew before it is looked at again is forgotten: the path of no
\* walk and the cell it was to turn at, the target of no attack, the skill of no
\* cast and the speed before it.
Tidy(d) ==
    [d EXCEPT !.pos = IF d.walk = None THEN 0 ELSE @,
              !.len = IF d.walk = None THEN 0 ELSE @,
              !.turn = @ /\ d.walk # None,
              !.aim = IF d.attack = None THEN Nobody ELSE @,
              !.spell = IF d.cast = None THEN "id" ELSE @,
              !.prev = IF d.cast = None THEN 0 ELSE @]
Tidied(w) == [w EXCEPT !.ud = [u \in Folk |-> Tidy(w.ud[u])]]
Becomes(W) == \E w \in {Tidied(x) : x \in W} : ud' = w.ud /\ clock' = w.clock

-----------------------------------------------------------------------------
(* Timers                                                                  *)

Taken(w) == {t.number : t \in w.clock}
Without(C, N) == {t \in C : t.number \notin N}

\* add_timer: the unit keeps the number.
SetUp(w, u, slot, kind, step) ==
    LET i == CHOOSE i \in 1..(MaxLives + 2) :
                 /\ <<u, kind, i>> \notin Taken(w)
                 /\ \A j \in 1..(i - 1) : <<u, kind, j>> \in Taken(w) IN
    [w EXCEPT !.ud[u][slot] = <<u, kind, i>>,
              !.clock = @ \cup {[number |-> <<u, kind, i>>, step |-> step, old |-> FALSE]}]

\* delete_timer, which refuses a timer of another function.
TakeDown(w, u, slot, kind) ==
    LET n == w.ud[u][slot] IN
    IF n = None THEN w
    ELSE [w EXCEPT !.ud[u][slot] = None,
                   !.clock = IF KindOf(n) = kind THEN Without(@, {n}) ELSE @]

-----------------------------------------------------------------------------
(* What is stopped                                                         *)

StopWalking(w, u) ==
    TakeDown([w EXCEPT !.ud[u].len = 0, !.ud[u].pos = 0], u, "walk", "walk")

\* unit_stopattack.
StopAttack(w, u) == TakeDown(w, u, "attack", "attack")

\* unit_mobstopattacked, of every client.
StopAttacksOn(w, b) ==
    LET P == {p \in Players : w.ud[p].aim = b /\ w.ud[p].attack # None} IN
    [ud |-> [u \in Folk |->
                IF u \in P THEN [w.ud[u] EXCEPT !.attack = None] ELSE w.ud[u]],
     clock |-> Without(w.clock, {w.ud[p].attack : p \in P})]

FreeCast(w, u) == u \in Players /\ w.ud[u].free > 0
Slow(speed, level) == (speed * (175 - level * 5)) \div 100

\* The speed that a cast began with.
Quicken(w, u) == IF FreeCast(w, u) THEN [w EXCEPT !.ud[u].speed = w.ud[u].prev] ELSE w

\* Mutant: the skill that is the last used is taken for the one that is cast.
CastCancelOfNow(w, u, spell) ==
    IF w.ud[u].cast = None THEN w
    ELSE TakeDown(Quicken(w, u), u, "cast", CastendOf(w.ud[u].spell))

\* unit_skillcastcancel of the skill that is cast: skillid, or skillid_old for
\* SA_CASTCANCEL, which has become the skill last used itself.
CastCancel(w, u, spell) ==
    IF w.ud[u].cast = None THEN w ELSE TakeDown(Quicken(w, u), u, "cast", CastendOf(spell))

\* Mutant: casts go on.
RemoveMapCasting(w, u) ==
    IF w.ud[u].place # "map" THEN w
    ELSE LET v == StopAttack(StopWalking(w, u), u)
             x == IF u \in Beasts THEN StopAttacksOn(v, u) ELSE v IN
         [x EXCEPT !.ud[u].place = "off"]

\* unit_remove_map.
RemoveMap(w, u) ==
    IF w.ud[u].place # "map" THEN w
    ELSE LET v == CastCancel(StopAttack(StopWalking(w, u), u), u, w.ud[u].spell)
             x == IF u \in Beasts THEN StopAttacksOn(v, u) ELSE v IN
         [x EXCEPT !.ud[u].place = "off"]

\* status_calc_pc.
StatusCalc(w, p, base) ==
    LET slow == w.ud[p].cast # None /\ FreeCast(w, p) IN
    [w EXCEPT !.ud[p].base = base,
              !.ud[p].prev = IF slow THEN base ELSE @,
              !.ud[p].speed = IF slow THEN Slow(base, w.ud[p].free) ELSE base]

\* pc_damage with no hp left: the attack's timer stays.  mob_damage.
Dies(w, u) ==
    LET v == IF u \in Players
             THEN LET x == CastCancel(StopWalking(w, u), u, w.ud[u].spell) IN
                  StatusCalc(x, u, x.ud[u].base)
             ELSE RemoveMap(w, u) IN
    [v EXCEPT !.ud[u].dead = TRUE]

Alive(w, u) == w.ud[u].place = "map" /\ ~w.ud[u].dead

\* battle_damage: what may come of it.  Not every cast is cancelled by a blow
\* (skillcastcancel and some cards), and not everybody stops walking.
Hurts(w, u) ==
    IF ~Alive(w, u) THEN {w}
    ELSE UNION {{x, StopWalking(x, u), Dies(x, u)} :
                x \in {w, CastCancel(w, u, w.ud[u].spell)}}

-----------------------------------------------------------------------------
(* Walking                                                                 *)

\* unit_walktoxy_sub: there may be no path.
WalktoxySub(w, u) ==
    {w} \cup
    {SetUp([w EXCEPT !.ud[u].pos = 0, !.ud[u].len = len, !.ud[u].turn = FALSE],
           u, "walk", "walk", 0) : len \in Lengths[u]}

\* unit_walktoxy: a walk that is on its way turns at the next cell.
Walktoxy(w, u) ==
    {w} \cup IF w.ud[u].walk # None THEN {[w EXCEPT !.ud[u].turn = TRUE]}
             ELSE WalktoxySub(w, u)

\* The timer of the next half of a step; a player who runs starts anew at the
\* end of the path.
NextStep(w, u) ==
    IF w.ud[u].pos < w.ud[u].len THEN {SetUp(w, u, "walk", "walk", w.ud[u].pos)}
    ELSE {w} \cup (IF u \in Players THEN WalktoxySub(w, u) ELSE {})

\* The unit enters the next cell: what stands there may warp a player or stop
\* the unit, and the path is left for another that was asked for meanwhile.
EnterCell(w, u) ==
    UNION {LET v == [x EXCEPT !.ud[u].pos = @ + 1] IN
           IF v.ud[u].turn THEN WalktoxySub(v, u) ELSE NextStep(v, u) :
           x \in {w, StopWalking(w, u)} \cup (IF u \in Players THEN {RemoveMap(w, u)} ELSE {})}

\* unit_walktoxy_timer: a step takes two timers, and which of them this is is
\* left out.  An obstacle ends the walk.
WalktoxyTimer(w, n, step) ==
    LET u == UnitOf(n)
        v == [w EXCEPT !.ud[u].walk = None] IN
    IF w.ud[u].walk # n THEN {w}
    ELSE IF v.ud[u].place # "map" \/ v.ud[u].pos >= v.ud[u].len \/ v.ud[u].pos # step
    THEN {v}
    ELSE {v} \cup NextStep(v, u) \cup EnterCell(v, u)

-----------------------------------------------------------------------------
(* Casting                                                                 *)

\* unit_skilluse_id2 and unit_skilluse_pos2, of a skill that takes time.
BeginCast(w, u, spell) ==
    LET v == [StopAttack(w, u) EXCEPT !.ud[u].spell = spell]
        x == SetUp(v, u, "cast", CastendOf(spell), 0)
        stand == IF spell = "pos" THEN StopWalking(x, u) ELSE x IN
    IF FreeCast(w, u)
    THEN [stand EXCEPT !.ud[u].prev = w.ud[u].speed,
                       !.ud[u].speed = Slow(w.ud[u].speed, w.ud[u].free)]
    ELSE StopWalking(x, u)

\* skill_castend_id, skill_castend_pos: the skill may fail.
Castend(w, u) == {w, StopWalking(w, u)}

\* A skill that takes no time ends at once; a combo leaves the attack on.
CastAtOnce(w, u) == UNION {Castend(x, u) : x \in {w, StopAttack(w, u)}}

\* SA_CASTCANCEL, when something is cast.
UseCastCancel(w, p) ==
    LET v == [StopAttack(w, p) EXCEPT !.ud[p].spell = "cancel"] IN
    CastCancel(StopWalking(v, p), p, w.ud[p].spell)

\* What mobskill_use may come to.
MobskillUse(w, b) ==
    IF w.ud[b].cast # None \/ ~Alive(w, b) THEN {w}
    ELSE {w} \cup CastAtOnce(w, b) \cup {BeginCast(w, b, s) : s \in {"id", "pos"}}

\* The timers of both functions.
CastendTimer(w, n) ==
    LET u == UnitOf(n) IN
    IF w.ud[u].place # "map" THEN {w}
    ELSE IF w.ud[u].cast # n /\ ~(KindOf(n) = "id" /\ w.ud[u].spell = "cancel") THEN {w}
    ELSE Castend([Quicken(w, u) EXCEPT !.ud[u].cast = None], u)

-----------------------------------------------------------------------------
(* Attacking                                                               *)

\* Whether the attack was to go on, attack_continue, is left out.
GoOn(w, u) == {w, SetUp(w, u, "attack", "attack", 0)}

\* The blow: it may come back, and the script of a monster that dies may warp
\* the player.
Blow(w, u) ==
    LET t == w.ud[u].aim
        struck == Hurts(StopWalking(w, u), t) IN
    struck \cup (UNION {Hurts(x, u) : x \in struck})
           \cup {RemoveMap(x, u) :
                 x \in {y \in struck : u \in Players /\ t \in Beasts /\ ~Alive(y, t)}}

\* unit_attack_timer_sub: n is None when unit_attack calls it.
AttackTimerSub(w, u, n) ==
    LET v == [w EXCEPT !.ud[u].attack = None]
        t == w.ud[u].aim IN
    IF w.ud[u].attack # n THEN {w}
    ELSE IF \/ ~Alive(v, u) \/ t = Nobody
            \/ v.ud[u].cast # None /\ ~FreeCast(v, u) THEN {v}
    ELSE IF ~Alive(v, t) THEN {v}
    ELSE {v}   \* out of reach, a status change, or the delay of a skill
         \cup (UNION {GoOn(x, u) : x \in Walktoxy(v, u)}) \* no free line to the target
         \cup (UNION {GoOn(x, u) : x \in Blow(v, u)})
         \cup (IF u \in Beasts THEN MobskillUse(StopWalking(v, u), u) ELSE {})

\* unit_attack: now, or when the delay after the last blow is over.
UnitAttack(w, u, t) ==
    LET v == [StopAttack(w, u) EXCEPT !.ud[u].aim = t] IN
    {SetUp(v, u, "attack", "attack", 0)} \cup AttackTimerSub(v, u, None)

-----------------------------------------------------------------------------
(* The actions                                                             *)

\* do_timer, of any timer that is set.  Its number is free afterwards; its
\* function reads it once, so that it may as well be free before.
UnitTimer(t) ==
    LET n == t.number
        w == [Game EXCEPT !.clock = Without(@, {n})] IN
    /\ Becomes(IF ud[UnitOf(n)].place = "gone" THEN {w}
               ELSE IF KindOf(n) = "walk" THEN WalktoxyTimer(w, n, t.step)
               ELSE IF KindOf(n) = "attack" THEN AttackTimerSub(w, UnitOf(n), n)
               ELSE CastendTimer(w, n))
    /\ UNCHANGED lives

\* Mutant: who casts may walk.
WalkToXYCasting(p) ==
    /\ ud[p].place # "gone" /\ ~ud[p].dead
    /\ TRUE
    /\ Becomes(Walktoxy(StopAttack(Game, p), p))
    /\ UNCHANGED lives

\* clif_parse_WalkToXY: of a player who may still be between two maps.
WalkToXY(p) ==
    /\ ud[p].place # "gone" /\ ~ud[p].dead
    /\ ud[p].cast = None \/ ud[p].free > 0
    /\ Becomes(Walktoxy(StopAttack(Game, p), p))
    /\ UNCHANGED lives

\* clif_parse_ActionRequest.
ActionRequest(p, t) ==
    /\ ud[p].place # "gone" /\ ~ud[p].dead
    /\ t # p /\ ud[t].place # "gone"
    /\ Becomes(UnitAttack(StopAttack(StopWalking(Game, p), p), p, t))
    /\ UNCHANGED lives

\* clif_parse_UseSkillToId, clif_parse_UseSkillToPos.
UseSkill(p, spell) ==
    /\ Alive(Game, p)
    /\ spell = "cancel" <=> ud[p].cast # None
    /\ Becomes(IF spell = "cancel" THEN {UseCastCancel(Game, p)}
               ELSE {BeginCast(Game, p, spell)} \cup CastAtOnce(Game, p))
    /\ UNCHANGED lives

\* mob_ai_sub_hard: a monster that chases may cast and walk on.
Think(b) ==
    /\ Alive(Game, b)
    /\ ud[b].attack = None /\ ud[b].cast = None
    /\ ud[b].walk # None => ud[b].pos > 1
    /\ Becomes({StopWalking(Game, b)}
               \cup (UNION {Walktoxy(x, b) : x \in MobskillUse(Game, b)})
               \cup (UNION {UnitAttack(StopWalking(Game, b), b, t) :
                            t \in {t \in Folk \ {b} : ud[t].place # "gone"}}))
    /\ UNCHANGED lives

\* mobskill_event: a monster answers to a blow or a spell.
Answer(b) ==
    /\ Alive(Game, b) /\ ud[b].cast = None
    /\ Becomes(MobskillUse(Game, b))
    /\ UNCHANGED lives

\* What skills, places and status changes do to a unit: hurt it, hold its
\* feet, its hand or its spell.
Befall(u) ==
    /\ Alive(Game, u)
    /\ Becomes(Hurts(Game, u) \cup {StopWalking(Game, u), StopAttack(Game, u),
                                     CastCancel(Game, u, ud[u].spell)})
    /\ UNCHANGED lives

\* pc_setpos to a map of this server.
Warp(p) ==
    /\ ud[p].place = "map"
    /\ Becomes({RemoveMap(Game, p)})
    /\ UNCHANGED lives

\* clif_parse_LoadEndAck: the player is on the map.
LoadEndAck(p) ==
    /\ ud[p].place = "off"
    /\ ud' = [ud EXCEPT ![p].place = "map"]
    /\ UNCHANGED <<clock, lives>>

Revive(p) ==
    /\ ud[p].dead
    /\ ud' = [ud EXCEPT ![p].dead = FALSE]
    /\ UNCHANGED <<clock, lives>>

\* Mutant: skills of a higher level are not counted in.
RecalcBefore(p, base, more) ==
    /\ ud[p].place # "gone"
    /\ ud[p].free + more <= MaxFreeCast
    /\ Becomes({[StatusCalc(Game, p, base) EXCEPT !.ud[p].free = @ + more]})
    /\ UNCHANGED lives

\* status_calc_pc, when something has changed; and pc_skillup, which calls it.
Recalc(p, base, more) ==
    /\ ud[p].place # "gone"
    /\ ud[p].free + more <= MaxFreeCast
    /\ Becomes({StatusCalc([Game EXCEPT !.ud[p].free = @ + more], p, base)})
    /\ UNCHANGED lives

\* History: the timers of u that are still set are of its life before.
Outlived(w, u) ==
    {IF UnitOf(t.number) = u THEN [t EXCEPT !.old = TRUE] ELSE t : t \in w.clock}

\* unit_dataset.
Dataset(u, place) ==
    [place |-> place, dead |-> FALSE, walk |-> None, attack |-> None, cast |-> None,
     pos |-> 0, len |-> 0, turn |-> FALSE, aim |-> Nobody,
     spell |-> "id",
     free |-> ud[u].free, base |-> ud[u].base, speed |-> ud[u].base, prev |-> 0]

\* unit_free of a player who leaves the server; the session is freed.
LogOut(p) ==
    /\ ud[p].place # "gone"
    /\ ud' = [RemoveMap(Game, p).ud EXCEPT ![p] = Dataset(p, "gone")]
    /\ clock' = Outlived(RemoveMap(Game, p), p)
    /\ UNCHANGED lives

\* pc_authok of a new session, and mob_spawn of a monster that comes back.
NewLife(u) ==
    /\ lives < MaxLives
    /\ ud[u].place = IF u \in Players THEN "gone" ELSE "off"
    /\ ud' = [ud EXCEPT ![u] = Dataset(u, IF u \in Players THEN "off" ELSE "map")]
    /\ clock' = Outlived(Game, u)
    /\ lives' = lives + 1

-----------------------------------------------------------------------------
UnitInit ==
    /\ ud \in [Folk -> {[place |-> "map", dead |-> FALSE, walk |-> None, attack |-> None,
                         cast |-> None, pos |-> 0, len |-> 0, turn |-> FALSE,
                         aim |-> Nobody, spell |-> "id",
                         free |-> 0, base |-> s, speed |-> s, prev |-> 0] :
                        s \in {s \in Speeds : \A r \in Speeds : s <= r}}]
    /\ clock = {}
    /\ lives = 0

UnitNext ==
    \/ \E t \in clock : UnitTimer(t)
    \/ \E p \in Players :
          \/ WalkToXY(p) \/ Warp(p) \/ LoadEndAck(p) \/ Revive(p) \/ LogOut(p)
          \/ \E t \in Folk : ActionRequest(p, t)
          \/ \E s \in Spells : UseSkill(p, s)
          \/ \E s \in Speeds, more \in {0, 1} : Recalc(p, s, more)
    \/ \E b \in Beasts : Think(b) \/ Answer(b)
    \/ \E u \in Folk : Befall(u) \/ NewLife(u)

UnitSpec == UnitInit /\ [][UnitNext]_unitVars

-----------------------------------------------------------------------------
(* Properties                                                              *)

\* The function that deletes the timer of a slot.
Names(u, slot) == IF slot = "cast" THEN CastendOf(ud[u].spell) ELSE slot

\* Whatever stops, warps, kills and revives a unit in the middle of its own
\* timers, each number it holds is that of a timer which is set and which the
\* function that deletes it will name; a walk's timer is for the step the path
\* is at; and no other timer of this life is set.
TimersMatch ==
    /\ \A u \in Folk, slot \in {"walk", "attack", "cast"} :
          LET n == ud[u][slot] IN
          n # None => /\ KindOf(n) = Names(u, slot)
                      /\ \E t \in clock :
                            /\ t.number = n /\ ~t.old
                            /\ slot = "walk" => t.step = ud[u].pos /\ t.step < ud[u].len
    /\ \A t \in clock : ~t.old =>
          \E slot \in {"walk", "attack", "cast"} : ud[UnitOf(t.number)][slot] = t.number

\* Who casts is on the map and alive: the end of a cast that finds its caster
\* off the map returns before it forgets the timer (skill.c:5576), and such a
\* player could never cast again.
CastersOnMap == \A u \in Folk : ud[u].cast # None => Alive(Game, u)

\* A player who casts without SA_FREECAST does not walk, in whatever order
\* walks, attacks and casts are asked for.
StandsWhileCasting ==
    \A p \in Players : ud[p].cast # None /\ ud[p].free = 0 => ud[p].walk = None

\* A player with SA_FREECAST is slow while casting, by the level it has now,
\* and is never slow otherwise, though the status may be worked out anew and
\* the level rise in between.
SpeedMatches ==
    \A p \in Players :
       ud[p].speed = IF ud[p].cast # None /\ ud[p].free > 0
                     THEN Slow(ud[p].base, ud[p].free) ELSE ud[p].base

=============================================================================
