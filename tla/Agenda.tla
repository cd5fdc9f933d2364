------------------------------- MODULE Agenda -------------------------------
(***************************************************************************)
(* What the timers promise their users.  A timer runs once for every time  *)
(* it was set, not before its instant, in the order of the instants, one at *)
(* a time; it is moved only by who asks for it and forgotten only by who    *)
(* still has its number; one that repeats keeps its beat; and the program   *)
(* does not sleep while a timer is due.                                    *)
(***************************************************************************)
EXTENDS Integers

CONSTANTS Users,      \* whoever sets timers
          Repeating,  \* users whose timers start again by themselves
          Interval,   \* and after how long
          Late,       \* how late such a timer may be and keep its beat
          Never,      \* no timer is set
          Nobody,     \* nobody's function runs
          Blurred     \* instants at which nothing is promised about the order

VARIABLES clock,
          planned,    \* the instant for which each user's timer is set
          running,    \* the user whose function runs
          holds,      \* the users that have the number of their timer
          wishes,     \* how often timers were set and moved
          asleep

agendaVars == <<clock, planned, running, holds, wishes, asleep>>

AgendaInit ==
    /\ clock = 0
    /\ holds \subseteq Users
    /\ planned \in [Users -> {Never} \cup Nat]
    /\ \A u \in Users : planned[u] = Never <=> u \notin holds
    /\ running = Nobody
    /\ wishes = 0
    /\ asleep = TRUE

\* Users ask while the program sleeps, and functions while they run.
MayAsk == asleep \/ running # Nobody

Set(u) ==
    /\ MayAsk
    /\ u \notin holds /\ planned[u] = Never
    /\ planned'[u] # Never /\ planned'[u] >= clock
    /\ planned' = [planned EXCEPT ![u] = planned'[u]]
    /\ holds' = holds \cup {u}
    /\ wishes' = wishes + 1
    /\ UNCHANGED <<clock, running, asleep>>

\* A timer that was not yet run is put off.
Move(u) ==
    /\ MayAsk
    /\ u \in holds \ Repeating
    /\ planned'[u] # Never /\ planned'[u] > planned[u]
    /\ planned' = [planned EXCEPT ![u] = planned'[u]]
    /\ wishes' = wishes + 1
    /\ UNCHANGED <<clock, running, holds, asleep>>

\* A timer is forgotten, and its function is not about to run.
Cancel(u) ==
    /\ MayAsk
    /\ u \in holds \ Repeating
    /\ planned' = [planned EXCEPT ![u] = Never]
    /\ holds' = holds \ {u}
    /\ UNCHANGED <<clock, running, wishes, asleep>>

Due(u) == planned[u] # Never /\ planned[u] <= clock
First(u) == \A v \in Users : Due(v) => planned[u] <= planned[v]

\* What the next instant of a repeating timer is counted from.
Base(u) ==
    IF clock \in Blurred THEN planned[u]..clock
    ELSE IF clock - planned[u] > Late THEN {clock} ELSE {planned[u]}

\* A function is called: of the timers that are due the first.
Run(u) ==
    /\ ~asleep
    /\ running = Nobody
    /\ Due(u)
    /\ clock \in Blurred \/ First(u)
    /\ running' = u
    /\ \/ /\ u \in Repeating
          /\ \E t \in Base(u) : planned' = [planned EXCEPT ![u] = t + Interval]
          /\ UNCHANGED holds
       \/ /\ u \notin Repeating
          /\ planned' = [planned EXCEPT ![u] = Never]
          /\ holds' = holds \ {u}
    /\ UNCHANGED <<clock, wishes, asleep>>

Back ==
    /\ running # Nobody
    /\ running' = Nobody
    /\ UNCHANGED <<clock, planned, holds, wishes, asleep>>

Wake ==
    /\ asleep
    /\ asleep' = FALSE
    /\ clock' >= clock
    /\ UNCHANGED <<planned, running, holds, wishes>>

Sleep ==
    /\ ~asleep
    /\ running = Nobody
    /\ \A u \in Users : ~Due(u)
    /\ asleep' = TRUE
    /\ UNCHANGED <<clock, planned, running, holds, wishes>>

AgendaNext ==
    \/ \E u \in Users : Set(u) \/ Move(u) \/ Cancel(u) \/ Run(u)
    \/ Back \/ Wake \/ Sleep

AgendaSpec == AgendaInit /\ [][AgendaNext]_agendaVars

=============================================================================
