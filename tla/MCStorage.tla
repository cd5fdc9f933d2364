----------------------------- MODULE MCStorage -----------------------------
(***************************************************************************)
(* Small instances of Storage: one player on two map servers, and two      *)
(* guild members on one.                                                   *)
(***************************************************************************)
EXTENDS Storage, TLC

CONSTANTS m1, m2, p1, p2

SymmetricPlayers == Permutations(Players)
SymmetricServers == Permutations(MapServers)

=============================================================================
