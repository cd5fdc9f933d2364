--------------------------- MODULE MCCharSession ---------------------------
(***************************************************************************)
(* Small instances of CharSession: one player who logs in again and again, *)
(* and two client programs that share an account.                          *)
(***************************************************************************)
EXTENDS CharSession, TLC

CONSTANTS m1, m2, a1, c1, c2, l1, l2, l3, p1, p2, p3, f1, f2, f3

OneOwner == [c \in Chars |-> a1]
OneAccount == [l \in Logins |-> a1]
OneClient == [l \in Logins |-> p1]
TwoClients == [l \in Logins |-> IF l = l1 THEN p1 ELSE p2]
OwnClient == [l \in Logins |-> CASE l = l1 -> p1 [] l = l2 -> p2 [] OTHER -> p3]
SymmetricFds == Permutations(Fds)
SymmetricLogins == SymmetricFds \cup Permutations({l1, l2})
SymmetricClients == SymmetricFds \cup
    {l1 :> l2 @@ l2 :> l1 @@ p1 :> p2 @@ p2 :> p1}
Homes == [c \in Chars |-> IF c = c1 THEN m1 ELSE m2]
OneHome == [c \in Chars |-> m1]

=============================================================================
