------------------------------ MODULE MCEngine ------------------------------
(***************************************************************************)
(* Small instances of what the servers run on, piece by piece: timers,     *)
(* tables, the block lists of a map, the list of thinking monsters and    *)
(* the timers of players and monsters.                                     *)
(* The pieces share no state, so each behaviour is one of one piece, and   *)
(* the others stay as they are at the start.                               *)
(***************************************************************************)
EXTENDS Timer, Db, Blocks, MobAi, Unit, TLC

CONSTANTS u1, u2, core, f1, f2, b1, b2, b3, b4, c1, c2, k1, k2, p1, q1

CONSTANT Pieces   \* which of them are checked

VARIABLE piece

\* Timer: two users share a function, and the server's own timer has another.
Funcs == u1 :> f1 @@ u2 :> f1 @@ core :> f2

\* MobAi: a lane with a bend, whose ends do not see each other.
Lane == {<<1, 1>>, <<2, 1>>, <<3, 1>>, <<2, 2>>, <<3, 2>>, <<3, 3>>}
Ends == {<<1, 1>>, <<3, 3>>}

\* Unit: a player's path has a step, and a monster's enough for it to think
\* again before it has come to its end.
Paths == p1 :> {1} @@ q1 :> {3}

SymmetricCharacters == Permutations(Characters)

EngineInit ==
    /\ piece \in Pieces
    /\ TimerInit /\ DbInit /\ BlocksInit /\ MobAiInit
    /\ UnitInit

EngineNext ==
    /\ UNCHANGED piece
    /\ \/ piece = "timer" /\ TimerNext /\ UNCHANGED <<dbVars, blocksVars, mobAiVars, unitVars>>
       \/ piece = "db" /\ DbNext /\ UNCHANGED <<timerVars, blocksVars, mobAiVars, unitVars>>
       \/ piece = "blocks" /\ BlocksNext /\ UNCHANGED <<timerVars, dbVars, mobAiVars, unitVars>>
       \/ piece = "mobai" /\ MobAiNext /\ UNCHANGED <<timerVars, dbVars, blocksVars, unitVars>>
       \/ piece = "unit" /\ UnitNext /\ UNCHANGED <<timerVars, dbVars, blocksVars, mobAiVars>>

engineVars == <<piece, timerVars, dbVars, blocksVars, mobAiVars, unitVars>>

EngineSpec == EngineInit /\ [][EngineNext]_engineVars

\* Every piece keeps its types.
EngineTypeOK ==
    CASE piece = "timer" -> TimerTypeOK
      [] piece = "db" -> DbTypeOK
      [] piece = "blocks" -> BlocksTypeOK
      [] piece = "mobai" -> MobAiTypeOK
      [] piece = "unit" -> UnitTypeOK

=============================================================================
