------------------------------- MODULE Timer --------------------------------
(***************************************************************************)
(* timer.c: the slots of the timers, the array sorted by the instant, the  *)
(* list of free slots, and do_timer, whose callbacks set, move and delete  *)
(* timers themselves.  The tick counter has few bits and wraps.  A user is *)
(* a function and the object it is for; two users may share the function.  *)
(* The first timer of all is the server's own and is never deleted.        *)
(***************************************************************************)
EXTENDS Integers, FiniteSets, Sequences, SequencesExt

CONSTANTS
    TimerUsers,
    Server,        \* the user of the first timer
    FuncOf,        \* the function of each user
    Null,          \* no function
    Unset,         \* a user's number of no timer
    Ticks,         \* how many values the tick counter has
    FirstTick,     \* the tick counter at the start
    Beat,          \* the interval of the repeating timer
    Late,          \* a second
    Delays,        \* what timers are set and moved by
    Naps,          \* how long do_sendrecv may take
    MaxTime,       \* bound: time
    MaxSets        \* bound: timers set or moved

ASSUME TimerAssumption ==
    /\ Server \in TimerUsers
    /\ DOMAIN FuncOf = TimerUsers
    /\ \A u \in TimerUsers : FuncOf[u] # Null
    /\ Ticks \in Nat \ {0} /\ FirstTick \in 0..(Ticks - 1)
    /\ Beat \in Nat \ {0} /\ Late \in Nat /\ MaxTime \in Nat /\ MaxSets \in Nat
    /\ Delays \subseteq Nat /\ Naps \subseteq Nat \ {0}
    /\ Unset \notin Nat

VARIABLES
    time,       \* how long the program runs
    timerData,  \* timer_data[0 .. timer_data_num - 1]
    heap,       \* timer_heap: the last to run first
    freeList,   \* free_timer_list
    running,    \* the timer whose function runs
    looping,    \* do_timer is working
    held,       \* the number each user keeps of its timer
    sets

timerVars == <<time, timerData, heap, freeList, running, looping, held, sets>>

Ids == 0..(Len(timerData) - 1)
Slot(i) == timerData[i + 1]
Tick(t) == (FirstTick + t) % Ticks
Now == Tick(time)

\* Mutant: ticks are compared as they are.
DiffTickPlain(a, b) == a - b

\* DIFF_TICK: the difference as a signed number.
DiffTick(a, b) ==
    LET d == (a - b) % Ticks IN IF d < Ticks \div 2 THEN d ELSE d - Ticks

\* The instant that a tick means.
Instant(tick) == time + DiffTick(tick, Now)

TimerTypeOK ==
    /\ time \in 0..MaxTime
    /\ timerData \in Seq([tick : 0..(Ticks - 1), due : Int, user : TimerUsers,
                          func : {FuncOf[u] : u \in TimerUsers} \cup {Null},
                          type : {"free", "once", "interval"}, removed : BOOLEAN])
    /\ heap \in Seq(Ids)
    /\ freeList \in Seq(Ids)
    /\ running \in Ids \cup {Unset}
    /\ looping \in BOOLEAN
    /\ held \in [TimerUsers -> Ids \cup {Unset}]
    /\ sets \in 0..MaxSets

-----------------------------------------------------------------------------
(* The array                                                               *)

\* The search by halves of push_timer_heap and search_timer_heap.
Halve(data, h, tick) ==
    LET step[min \in 1..Len(h), max \in 2..(Len(h) + 1)] ==
            LET mid == (min + max) \div 2 IN
            IF max = min + 1 THEN min
            ELSE IF DiffTick(tick, data[h[mid] + 1].tick) > 0 THEN step[min, mid]
            ELSE step[mid, max]
    IN  step[1, Len(h) + 1]

\* push_timer_heap.
Push(data, h, i) ==
    LET t == data[i + 1].tick
        tickAt(j) == data[h[j] + 1].tick IN
    IF h = <<>> \/ DiffTick(tickAt(Len(h)), t) > 0 THEN Append(h, i)
    ELSE IF DiffTick(tickAt(1), t) < 0 THEN <<i>> \o h
    ELSE InsertAt(h, Halve(data, h, t) + 1, i)

\* search_timer_heap: from where the halves meet, among its equals.
Found(h, i) ==
    {j \in DOMAIN h : /\ h[j] = i
                      /\ \A k \in DOMAIN h :
                            (j <= k /\ k <= Halve(timerData, h, Slot(i).tick))
                            \/ (j >= k /\ k >= Halve(timerData, h, Slot(i).tick))
                            => k = Halve(timerData, h, Slot(i).tick)
                               \/ Slot(h[k]).tick = Slot(i).tick}

\* delete_timer_heap.
Unheaped(i) ==
    IF heap = <<>> \/ Found(heap, i) = {} THEN heap
    ELSE RemoveAt(heap, CHOOSE j \in Found(heap, i) : TRUE)

-----------------------------------------------------------------------------
(* What users call                                                         *)

\* add_timer and add_timer_interval: the last of the free slots, or a new one.
NewId == IF freeList # <<>> THEN Last(freeList) ELSE Len(timerData)

\* Mutant: the slot taken stays in the list.
AddTimerKeepsFree(u, t) ==
    LET slot == [tick |-> Tick(t), due |-> t, user |-> u, func |-> FuncOf[u],
                 type |-> IF u = Server THEN "interval" ELSE "once", removed |-> FALSE] IN
    /\ freeList' = freeList
    /\ timerData' = IF NewId = Len(timerData) THEN Append(timerData, slot)
                    ELSE [timerData EXCEPT ![NewId + 1] = slot]
    /\ heap' = Push(timerData', heap, NewId)
    /\ held' = [held EXCEPT ![u] = NewId]

AddTimer(u, t) ==
    LET slot == [tick |-> Tick(t), due |-> t, user |-> u, func |-> FuncOf[u],
                 type |-> IF u = Server THEN "interval" ELSE "once", removed |-> FALSE] IN
    /\ freeList' = IF freeList # <<>> THEN Front(freeList) ELSE freeList
    /\ timerData' = IF NewId = Len(timerData) THEN Append(timerData, slot)
                    ELSE [timerData EXCEPT ![NewId + 1] = slot]
    /\ heap' = Push(timerData', heap, NewId)
    /\ held' = [held EXCEPT ![u] = NewId]

\* No function runs while a deleted timer is taken out of the array.
FuncRuns == looping => running # Unset /\ Slot(running).func # Null

MayUse ==
    /\ sets < MaxSets
    /\ sets' = sets + 1
    /\ FuncRuns

\* A handler or a callback sets its user's timer.
SetTimer(u) ==
    /\ MayUse
    /\ held[u] = Unset
    /\ \E d \in Delays : AddTimer(u, time + d)
    /\ UNCHANGED <<time, running, looping>>

\* delete_timer: the slot stays in the array until its instant.
DeleteTimer(u) ==
    /\ FuncRuns
    /\ u # Server
    /\ held[u] # Unset
    /\ timerData' = IF held[u] <= 0 \/ Slot(held[u]).func # FuncOf[u] THEN timerData
                    ELSE [timerData EXCEPT ![held[u] + 1].func = Null,
                                           ![held[u] + 1].type = "once",
                                           ![held[u] + 1].removed = FALSE]
    /\ held' = [held EXCEPT ![u] = Unset]
    /\ UNCHANGED <<time, heap, freeList, running, looping, sets>>

\* addtick_timer.
AddTickTimer(u) ==
    /\ MayUse
    /\ u # Server
    /\ held[u] # Unset
    /\ \E d \in Delays \ {0} :
          timerData' = [timerData EXCEPT ![held[u] + 1].tick = (@ + d) % Ticks,
                                         ![held[u] + 1].due = @ + d]
    /\ heap' = Push(timerData', Unheaped(held[u]), held[u])
    /\ UNCHANGED <<time, freeList, running, looping, held>>

-----------------------------------------------------------------------------
(* do_timer                                                                *)

\* The main loop: do_sendrecv returns, and do_timer gets the tick counter.
EnterLoop ==
    /\ ~looping
    /\ \E n \in Naps : time + n <= MaxTime /\ time' = time + n
    /\ looping' = TRUE
    /\ UNCHANGED <<timerData, heap, freeList, running, held, sets>>

\* top_timer_heap: shortly after the wrap of the counter an entry from before
\* it is taken at once, from the wrong end.
Wrap == Ticks \div 32
AtWrap == /\ Now < Wrap
          /\ Slot(heap[1]).tick = 0 \/ Slot(heap[1]).tick > Ticks - 1 - Wrap
Top == IF AtWrap THEN 1 ELSE Len(heap)
TopTick == IF AtWrap THEN 0 ELSE Slot(heap[Top]).tick
TopIsDue == heap # <<>> /\ DiffTick(TopTick, Now) <= 0

\* A timer leaves the array and its function is called.  The function forgets
\* the number of its timer first; the repeating timer keeps it.
CallTop ==
    LET i == heap[Top] IN
    /\ looping
    /\ running = Unset
    /\ TopIsDue
    /\ heap' = RemoveAt(heap, Top)
    /\ timerData' = [timerData EXCEPT ![i + 1].tick = TopTick, ![i + 1].removed = TRUE]
    /\ running' = i
    /\ held' = IF Slot(i).func = Null \/ Slot(i).type = "interval" THEN held
               ELSE [held EXCEPT ![Slot(i).user] = Unset]
    /\ UNCHANGED <<time, freeList, looping, sets>>

\* When the repeating timer runs again: its tick, or the present one, is the base.
NextTick(i) ==
    (IF DiffTick(Slot(i).tick, Now) < -Late THEN Now + Beat ELSE Slot(i).tick + Beat) % Ticks

\* The function is back; its slot is free, or enters the array again.  A slot
\* that was put into the array meanwhile is left alone.
Return ==
    LET i == running IN
    /\ running # Unset
    /\ running' = Unset
    /\ \/ /\ ~Slot(i).removed
          /\ UNCHANGED <<timerData, heap, freeList>>
       \/ /\ Slot(i).removed /\ Slot(i).type = "once"
          /\ timerData' = [timerData EXCEPT ![i + 1].type = "free"]
          /\ freeList' = Append(freeList, i)
          /\ UNCHANGED heap
       \/ /\ Slot(i).removed /\ Slot(i).type = "interval"
          /\ timerData' = [timerData EXCEPT ![i + 1].tick = NextTick(i),
                                            ![i + 1].due = Instant(NextTick(i)),
                                            ![i + 1].removed = FALSE]
          /\ heap' = Push(timerData', heap, i)
          /\ UNCHANGED freeList
    /\ UNCHANGED <<time, looping, held, sets>>

LeaveLoop ==
    /\ looping
    /\ running = Unset
    /\ ~TopIsDue
    /\ looping' = FALSE
    /\ UNCHANGED <<time, timerData, heap, freeList, running, held, sets>>

-----------------------------------------------------------------------------
TimerInit ==
    /\ time = 0
    /\ timerData = <<[tick |-> Tick(Beat), due |-> Beat, user |-> Server, func |-> FuncOf[Server],
                      type |-> "interval", removed |-> FALSE]>>
    /\ heap = <<0>>
    /\ freeList = <<>>
    /\ running = Unset
    /\ looping = FALSE
    /\ held = [u \in TimerUsers |-> IF u = Server THEN 0 ELSE Unset]
    /\ sets = 0

TimerNext ==
    \/ \E u \in TimerUsers : SetTimer(u) \/ DeleteTimer(u) \/ AddTickTimer(u)
    \/ EnterLoop \/ CallTop \/ Return \/ LeaveLoop

TimerSpec == TimerInit /\ [][TimerNext]_timerVars

-----------------------------------------------------------------------------
Times(s, i) == Cardinality({j \in DOMAIN s : s[j] = i})

\* Every slot is in exactly one place: in the array, in the list of free
\* slots, or about to be freed; and the number a user keeps is that of its own
\* timer, though slots are used again at once.
EachSlotOnce ==
    /\ \A i \in Ids :
          Times(heap, i) + Times(freeList, i)
            + (IF i = running /\ Slot(i).removed THEN 1 ELSE 0) = 1
    /\ \A u \in TimerUsers : held[u] # Unset =>
          Slot(held[u]).user = u /\ Slot(held[u]).func = FuncOf[u]

\* The timer that waits for a user's function, and the instant of its next call.
Live(u) == {i \in Ids : /\ Slot(i).user = u /\ Slot(i).func # Null
                        /\ ~Slot(i).removed \/ (i = running /\ Slot(i).type = "interval")}

Plan(u) ==
    IF Live(u) = {} THEN Unset
    ELSE LET i == CHOOSE i \in Live(u) : TRUE IN
         IF i = running THEN Instant(NextTick(i)) ELSE Slot(i).due

\* Whose function runs: nobody's while a deleted timer is taken out.
Runner ==
    IF running = Unset \/ Slot(running).func = Null THEN Unset ELSE Slot(running).user

TimerAgenda == INSTANCE Agenda WITH
    Users <- TimerUsers, Repeating <- {Server}, Interval <- Beat,
    Never <- Unset, Nobody <- Unset,
    Blurred <- {t \in 0..MaxTime : Tick(t) < Wrap},
    clock <- time, planned <- [u \in TimerUsers |-> Plan(u)], running <- Runner,
    holds <- {u \in TimerUsers : held[u] # Unset}, wishes <- sets, asleep <- ~looping

\* Slots that are used again, numbers that users keep, the sorted array and the
\* wrapping counter together keep the promises of Agenda: every function is
\* called once for each time its timer was set, when it is due and in its turn,
\* and no timer is lost, moved or forgotten but by a call of its user.
KeepsAgenda == TimerAgenda!AgendaSpec

=============================================================================
