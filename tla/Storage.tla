------------------------------ MODULE Storage ------------------------------
(***************************************************************************)
(* Kafra and guild storage (src/src/map/storage.c, with intif.c, unit.c,   *)
(* pc.c, clif.c and chrif.c beside it, and src/src/char/int_storage.c).    *)
(*                                                                         *)
(* The char server stores every storage.  A map server fetches one when it *)
(* is opened, works on its cached copy, and sends copies back together     *)
(* with the character's own record.  A storage of an account is cached     *)
(* while the account plays there; a guild's, once fetched, until the link  *)
(* ends.  Requests, answers and saves share one FIFO link per server.      *)
(*                                                                         *)
(* There is one kind of item, so an inventory or a storage is the number   *)
(* of pieces in it, and one guild.  Of logging in only the order matters:  *)
(* module CharSession shows that the saves of an earlier session are       *)
(* stored before the next one is let in, which RecvAuth takes as a guard.  *)
(***************************************************************************)
EXTENDS Integers, SequencesExt

CONSTANTS
    MapServers, Players,
    Members,          \* players in the guild at first
    Carried, Stored,  \* pieces each player has on them and in their storage
    GuildStored,      \* pieces in the guild's storage
    Owners,           \* bound: players who open their own storage
    Patient,          \* bound: players who stay until their storage has opened
    Eager,            \* bound: players who ask again before it has
    Hasty,            \* bound: players whose packets come with no storage open
    Expelled,         \* bound: members who may have to leave the guild
    MaxQueue,         \* bound: messages on a link before senders pause
    MaxFaults         \* bound: link failures

ASSUME AmountsAssumption == {Carried, Stored, GuildStored} \subseteq Nat
ASSUME MembersAssumption == Members \subseteq Players

VARIABLES
    savedInv, savedStor,      \* char server: what is stored of each player
    savedGuild, member,       \* char server: the guild's storage and members
    phase, flag, guild,       \* map servers: sessions, state.storage_flag and
                              \* whether status.guild_id is set
    inv,                      \* the inventory of a player in play
    stor,                     \* map servers: storage_db
    gstor,                    \* map servers: guild_storage_db
    toChar, toMap, link,
    faults

charVars == <<savedInv, savedStor, savedGuild, member>>
sessVars == <<phase, guild>>
linkVars == <<toChar, toMap, link>>
vars == <<charVars, sessVars, flag, inv, stor, gstor, linkVars, faults>>

-----------------------------------------------------------------------------
(* Data *)

\* none, connected but not authenticated, authenticated but not on a map
\* (bl.prev is NULL), on a map, and waiting to be disconnected.
Phases == {"none", "new", "load", "map", "parked"}

\* An entry of storage_db or guild_storage_db: storage_status and the pieces.
NotCached == [cached |-> FALSE, open |-> FALSE, n |-> 0]
Empty     == [cached |-> TRUE, open |-> FALSE, n |-> 0]
Opened(k) == [cached |-> TRUE, open |-> TRUE, n |-> k]
Cache     == [cached : {TRUE}, open : BOOLEAN, n : Nat] \cup {NotCached}

Msg(type, p, k) == [type |-> type, p |-> p, n |-> k]

CharMsg == [type : {"auth", "save", "ask", "put", "gask", "gput"},
            p : Players, n : Nat]
MapMsg  == [type : {"ok", "storage", "gstorage", "left"}, p : Players, n : Nat]

TypeOK ==
    /\ savedInv \in [Players -> Nat]
    /\ savedStor \in [Players -> Nat]
    /\ savedGuild \in Nat
    /\ member \in [Players -> BOOLEAN]
    /\ phase \in [MapServers -> [Players -> Phases]]
    /\ flag \in [MapServers -> [Players -> BOOLEAN]]
    /\ guild \in [MapServers -> [Players -> BOOLEAN]]
    /\ inv \in [Players -> Nat]
    /\ stor \in [MapServers -> [Players -> Cache]]
    /\ gstor \in [MapServers -> Cache]
    /\ toChar \in [MapServers -> Seq(CharMsg)]
    /\ toMap \in [MapServers -> Seq(MapMsg)]
    /\ link \in [MapServers -> BOOLEAN]
    /\ faults \in Nat

Init ==
    /\ savedInv = [p \in Players |-> Carried]
    /\ savedStor = [p \in Players |-> Stored]
    /\ savedGuild = GuildStored
    /\ member = [p \in Players |-> p \in Members]
    /\ phase = [m \in MapServers |-> [p \in Players |-> "none"]]
    /\ flag = [m \in MapServers |-> [p \in Players |-> FALSE]]
    /\ guild = [m \in MapServers |-> [p \in Players |-> FALSE]]
    /\ inv = [p \in Players |-> 0]
    /\ stor = [m \in MapServers |-> [p \in Players |-> NotCached]]
    /\ gstor = [m \in MapServers |-> NotCached]
    /\ toChar = [m \in MapServers |-> <<>>]
    /\ toMap = [m \in MapServers |-> <<>>]
    /\ link = [m \in MapServers |-> TRUE]
    /\ faults = 0

-----------------------------------------------------------------------------
(* Sessions and links *)

Playing(m, p) == phase[m][p] \in {"load", "map"}

\* WFIFOSET on char_fd: lost while the link is down.
ToChar(m, msgs) ==
    toChar' = [toChar EXCEPT ![m] = IF link[m] THEN @ \o msgs ELSE @]

Pending(seq, types, p) ==
    \E i \in 1..Len(seq) : seq[i].type \in types /\ seq[i].p = p

\* A storage the player asked for has not opened yet.
Asking(p) ==
    \E m \in MapServers : \/ Pending(toChar[m], {"ask", "gask"}, p)
                          \/ Pending(toMap[m], {"storage", "gstorage"}, p)

\* Senders that would otherwise run for ever pause at MaxQueue messages.
Room(m) == Len(toChar[m]) + Len(toMap[m]) < MaxQueue

-----------------------------------------------------------------------------
(* The two caches of a map server *)

\* account2storage and guild2storage make an empty entry when there is none.
Entry(m, p) == IF stor[m][p].cached THEN stor[m][p] ELSE Empty
GEntry(m) == IF gstor[m].cached THEN gstor[m] ELSE Empty

Shut(e) == [e EXCEPT !.open = FALSE]

\* state.storage_flag is set, and the player still has a guild.
AtGuild(m, p) == flag[m][p] /\ guild[m][p]

SaveMsg(p) == Msg("save", p, inv[p])

\* storage_storage_save
PutMsgs(m, p) ==
    IF stor[m][p].cached THEN <<Msg("put", p, stor[m][p].n)>> ELSE <<>>

GPutMsg(m, p) == Msg("gput", p, GEntry(m).n)

\* storage_guild_storageclose: the guild's storage is sent back and shut.  A
\* player who is in no guild any more changes nothing.
CloseGuildStorage(m, p) ==
    IF AtGuild(m, p)
    THEN /\ gstor' = [gstor EXCEPT ![m] = Shut(GEntry(m))]
         /\ flag' = [flag EXCEPT ![m][p] = FALSE]
         /\ ToChar(m, <<GPutMsg(m, p)>>)
    ELSE UNCHANGED <<gstor, flag, toChar>>

-----------------------------------------------------------------------------
(* Players and their storage *)

\* storage_storageopen.  The guild's storage is closed first, if the player
\* has it open; one that is cached opens at once, another is asked for.
OpenStorage(m, p) ==
    LET closing == AtGuild(m, p) /\ gstor[m].open
        back == IF closing THEN <<GPutMsg(m, p)>> ELSE <<>>
    IN  /\ Playing(m, p) /\ p \in Owners
        /\ ~stor[m][p].open
        /\ Asking(p) => p \in Eager
        /\ Room(m)
        /\ gstor' = [gstor EXCEPT ![m] = IF closing THEN Shut(@) ELSE @]
        /\ \/ /\ stor[m][p].cached
              /\ stor' = [stor EXCEPT ![m][p].open = TRUE]
              /\ flag' = [flag EXCEPT ![m][p] = FALSE]
              /\ ToChar(m, back)
           \/ /\ ~stor[m][p].cached
              /\ flag' = [flag EXCEPT ![m][p] = @ /\ ~closing]
              /\ ToChar(m, Append(back, Msg("ask", p, 0)))
              /\ UNCHANGED stor
        /\ UNCHANGED <<charVars, sessVars, inv, toMap, link, faults>>

\* Mistake: nobody looks whether the guild's storage is in use.
OpenGuildStorageInUse(m, p) ==
    /\ Playing(m, p) /\ guild[m][p]
    /\ Asking(p) => p \in Eager
    /\ Room(m)
    /\ stor' = [stor EXCEPT ![m][p].open = FALSE]
    /\ gstor' = [gstor EXCEPT ![m].open = TRUE, ![m].cached = TRUE]
    /\ flag' = [flag EXCEPT ![m][p] = gstor[m].cached]
    /\ IF gstor[m].cached THEN UNCHANGED toChar
       ELSE ToChar(m, <<Msg("gask", p, 0)>>)
    /\ UNCHANGED <<charVars, sessVars, inv, toMap, link, faults>>

\* storage_guild_storageopen.  One that is not cached is marked open before
\* it is asked for; storage_flag waits for the answer.
OpenGuildStorage(m, p) ==
    /\ Playing(m, p) /\ guild[m][p]
    /\ ~gstor[m].open
    /\ Asking(p) => p \in Eager
    /\ stor' = [stor EXCEPT ![m][p].open = FALSE]
    /\ \/ /\ gstor[m].cached
          /\ gstor' = [gstor EXCEPT ![m].open = TRUE]
          /\ flag' = [flag EXCEPT ![m][p] = TRUE]
          /\ UNCHANGED toChar
       \/ /\ ~gstor[m].cached
          /\ Room(m)
          /\ gstor' = [gstor EXCEPT ![m] = Opened(0)]
          /\ flag' = [flag EXCEPT ![m][p] = @ /\ ~stor[m][p].open]
          /\ ToChar(m, <<Msg("gask", p, 0)>>)
    /\ UNCHANGED <<charVars, sessVars, inv, toMap, link, faults>>

\* One piece goes from the player (d = 1) or to the player (d = -1).  Asked
\* for with nothing open, it makes an empty entry at most, as CloseKafra does.
Move(m, p, d) ==
    /\ Playing(m, p)
    /\ inv[p] - d >= 0
    /\ inv' = [inv EXCEPT ![p] = @ - d]
    /\ \/ /\ AtGuild(m, p)
          /\ gstor[m].open /\ gstor[m].n + d >= 0
          /\ gstor' = [gstor EXCEPT ![m].n = @ + d]
          /\ UNCHANGED stor
       \/ /\ ~flag[m][p]
          /\ stor[m][p].open /\ stor[m][p].n + d >= 0
          /\ stor' = [stor EXCEPT ![m][p].n = @ + d]
          /\ UNCHANGED gstor
    /\ UNCHANGED <<charVars, sessVars, flag, linkVars, faults>>

\* clif_parse_MoveToKafra and storage_storageadd or storage_guild_storageadd
Deposit(m, p) == Move(m, p, 1)

\* clif_parse_MoveFromKafra and storage_storageget or storage_guild_storageget
Withdraw(m, p) == Move(m, p, -1)

\* clif_parse_CloseKafra
CloseKafra(m, p) ==
    /\ Playing(m, p)
    /\ Room(m)
    /\ stor[m][p].open \/ AtGuild(m, p) \/ p \in Hasty
    /\ \/ /\ flag[m][p]
          /\ CloseGuildStorage(m, p)
          /\ UNCHANGED stor
       \/ /\ ~flag[m][p]
          /\ stor' = [stor EXCEPT ![m][p] = Shut(Entry(m, p))]
          /\ UNCHANGED <<flag, gstor, toChar>>
    /\ UNCHANGED <<charVars, sessVars, inv, toMap, link, faults>>

-----------------------------------------------------------------------------
(* Players and their session *)

\* A client connects to a map server.  Its account is in play nowhere else,
\* and (bound) no auth request of it is unanswered: CharSession's MaxPending.
Connect(m, p) ==
    /\ phase[m][p] = "none"
    /\ \A x \in MapServers :
          ~Pending(toChar[x], {"auth"}, p) /\ ~Pending(toMap[x], {"ok"}, p)
    /\ \A x \in MapServers : phase[x][p] \in {"none", "parked"}
    /\ link[m] /\ Room(m)
    /\ phase' = [phase EXCEPT ![m][p] = "new"]
    /\ ToChar(m, <<Msg("auth", p, 0)>>)
    /\ UNCHANGED <<charVars, flag, guild, inv, stor, gstor, toMap, link, faults>>

\* clif_parse_LoadEndAck puts the player on the map.
LoadEndAck(m, p) ==
    /\ phase[m][p] = "load"
    /\ phase' = [phase EXCEPT ![m][p] = "map"]
    /\ UNCHANGED <<charVars, flag, guild, inv, stor, gstor, linkVars, faults>>

\* unit_remove_map, for a player that is on a map: the guild's storage is
\* sent back and shut, or else the player's own is shut.
QuitsGuild(m, p) == AtGuild(m, p) /\ gstor[m].cached

QuitMsgs(m, p) == IF QuitsGuild(m, p) THEN <<GPutMsg(m, p)>> ELSE <<>>

GstorAfterQuit(m, p) ==
    [gstor EXCEPT ![m].open = @ /\ ~QuitsGuild(m, p)]

\* pc_setpos to a map of the same server.
Warp(m, p) ==
    /\ phase[m][p] = "map"
    /\ Room(m)
    /\ p \in Patient => ~Asking(p)
    /\ phase' = [phase EXCEPT ![m][p] = "load"]
    /\ gstor' = GstorAfterQuit(m, p)
    /\ flag' = [flag EXCEPT ![m][p] = @ /\ ~QuitsGuild(m, p)]
    /\ stor' = [stor EXCEPT ![m][p].open = @ /\ flag[m][p]]
    /\ ToChar(m, QuitMsgs(m, p))
    /\ UNCHANGED <<charVars, guild, inv, toMap, link, faults>>

\* pc_autosave
Autosave(m, p) ==
    /\ Playing(m, p)
    /\ Room(m)
    /\ ToChar(m, <<SaveMsg(p)>> \o PutMsgs(m, p)
                 \o (IF AtGuild(m, p) THEN <<GPutMsg(m, p)>> ELSE <<>>))
    /\ UNCHANGED <<charVars, sessVars, flag, inv, stor, gstor, toMap, link, faults>>

\* What a session no longer playing leaves behind is not read again.
ForgetSession(m, p) ==
    /\ flag' = [flag EXCEPT ![m][p] = FALSE]
    /\ guild' = [guild EXCEPT ![m][p] = FALSE]
    /\ inv' = [inv EXCEPT ![p] = 0]

\* Mistake: the cached storage is kept when its player leaves.
LeaveKeepingCache(m, p, next) ==
    LET onMap == phase[m][p] = "map"
    IN  /\ phase' = [phase EXCEPT ![m][p] = next]
        /\ gstor' = IF onMap THEN GstorAfterQuit(m, p) ELSE gstor
        /\ ForgetSession(m, p)
        /\ ToChar(m, (IF onMap THEN QuitMsgs(m, p) ELSE <<>>)
                     \o PutMsgs(m, p) \o <<SaveMsg(p)>>)
        /\ UNCHANGED stor

\* unit_free and chrif_save: the storage is sent back and leaves the cache.
Leave(m, p, next) ==
    LET onMap == phase[m][p] = "map"
    IN  /\ phase' = [phase EXCEPT ![m][p] = next]
        /\ gstor' = IF onMap THEN GstorAfterQuit(m, p) ELSE gstor
        /\ ForgetSession(m, p)
        /\ ToChar(m, (IF onMap THEN QuitMsgs(m, p) ELSE <<>>)
                     \o PutMsgs(m, p) \o <<SaveMsg(p)>>)
        /\ stor' = [stor EXCEPT ![m][p] = NotCached]

\* pc_setpos to another server, clif_parse_Restart to the select screen.
GoAway(m, p) ==
    /\ Playing(m, p)
    /\ p \in Patient => ~Asking(p)
    /\ Room(m)
    /\ Leave(m, p, "parked")
    /\ UNCHANGED <<charVars, toMap, link, faults>>

\* The connection ends.
Disconnect(m, p) ==
    /\ phase[m][p] # "none"
    /\ Room(m)
    /\ p \in Patient => ~Asking(p)
    /\ \/ /\ Playing(m, p)
          /\ Leave(m, p, "none")
       \/ /\ ~Playing(m, p)
          /\ phase' = [phase EXCEPT ![m][p] = "none"]
          /\ UNCHANGED <<flag, guild, inv, stor, gstor, toChar>>
    /\ UNCHANGED <<charVars, toMap, link, faults>>

-----------------------------------------------------------------------------
(* The char server *)

HasRequest(m, type) == toChar[m] # <<>> /\ Head(toChar[m]).type = type

\* The next request of m is dealt with and answered.
Answer(m, reply) ==
    /\ toChar' = [toChar EXCEPT ![m] = Tail(@)]
    /\ toMap' = [toMap EXCEPT ![m] = @ \o reply]

\* 0x2afc, once every save of an earlier session has been stored.
RecvAuth(m) ==
    LET p == Head(toChar[m]).p
    IN  /\ HasRequest(m, "auth")
        /\ \A x \in MapServers \ {m} :
              ~Pending(toChar[x], {"save", "put"}, p)
        /\ Answer(m, <<Msg("ok", p, savedInv[p])>>)
        /\ UNCHANGED <<charVars, sessVars, flag, inv, stor, gstor, link, faults>>

\* 0x2b01
RecvSave(m) ==
    /\ HasRequest(m, "save")
    /\ Answer(m, <<>>)
    /\ savedInv' = [savedInv EXCEPT ![Head(toChar[m]).p] = Head(toChar[m]).n]
    /\ UNCHANGED <<savedStor, savedGuild, member, sessVars, flag, inv, stor,
                   gstor, link, faults>>

\* 0x3010: mapif_parse_LoadStorage
RecvAsk(m) ==
    LET p == Head(toChar[m]).p
    IN  /\ HasRequest(m, "ask")
        /\ Answer(m, <<Msg("storage", p, savedStor[p])>>)
        /\ UNCHANGED <<charVars, sessVars, flag, inv, stor, gstor, link, faults>>

\* 0x3011: mapif_parse_SaveStorage
RecvPut(m) ==
    /\ HasRequest(m, "put")
    /\ Answer(m, <<>>)
    /\ savedStor' = [savedStor EXCEPT ![Head(toChar[m]).p] = Head(toChar[m]).n]
    /\ UNCHANGED <<savedInv, savedGuild, member, sessVars, flag, inv, stor,
                   gstor, link, faults>>

\* 0x3018: mapif_parse_LoadGuildStorage
RecvGAsk(m) ==
    LET p == Head(toChar[m]).p
    IN  /\ HasRequest(m, "gask")
        /\ Answer(m, <<Msg("gstorage", p, savedGuild)>>)
        /\ UNCHANGED <<charVars, sessVars, flag, inv, stor, gstor, link, faults>>

\* 0x3019: mapif_parse_SaveGuildStorage
RecvGPut(m) ==
    /\ HasRequest(m, "gput")
    /\ Answer(m, <<>>)
    /\ savedGuild' = Head(toChar[m]).n
    /\ UNCHANGED <<savedInv, savedStor, member, sessVars, flag, inv, stor,
                   gstor, link, faults>>

\* A member leaves the guild or is made to: every map server hears of it.
Expel(p) ==
    /\ p \in Expelled
    /\ member[p]
    /\ member' = [member EXCEPT ![p] = FALSE]
    /\ toMap' = [m \in MapServers |->
                    IF link[m] THEN Append(toMap[m], Msg("left", p, 0))
                    ELSE toMap[m]]
    /\ UNCHANGED <<savedInv, savedStor, savedGuild, sessVars, flag, inv, stor,
                   gstor, toChar, link, faults>>

-----------------------------------------------------------------------------
(* Answers at a map server *)

HasAnswer(m, type) == toMap[m] # <<>> /\ Head(toMap[m]).type = type

TakeAnswer(m) == toMap' = [toMap EXCEPT ![m] = Tail(@)]

\* chrif_authok, pc_authok: status is loaded and state cleared.
AuthOk(m) ==
    LET p == Head(toMap[m]).p
    IN  /\ HasAnswer(m, "ok")
        /\ TakeAnswer(m)
        /\ \/ /\ phase[m][p] = "new"
              /\ phase' = [phase EXCEPT ![m][p] = "load"]
              /\ guild' = [guild EXCEPT ![m][p] = member[p]]
              /\ inv' = [inv EXCEPT ![p] = Head(toMap[m]).n]
           \/ /\ phase[m][p] # "new"
              /\ UNCHANGED <<sessVars, inv>>
        /\ UNCHANGED <<charVars, flag, stor, gstor, toChar, link, faults>>

\* intif_parse_LoadStorage: the account's session, whatever it is doing, has
\* its storage open now; the entry goes when there is no session.
StorageLoaded(m) ==
    LET p == Head(toMap[m]).p
    IN  /\ HasAnswer(m, "storage")
        /\ TakeAnswer(m)
        /\ stor' = [stor EXCEPT ![m][p] =
                       IF phase[m][p] = "none" THEN NotCached
                       ELSE Opened(Head(toMap[m]).n)]
        /\ flag' = [flag EXCEPT ![m][p] = FALSE]
        /\ UNCHANGED <<charVars, sessVars, inv, gstor, toChar, link, faults>>

\* Mistake: the entry made for an answer nobody waits for is kept.
GuildStorageLoadedForNobody(m) ==
    LET p == Head(toMap[m]).p
    IN  /\ HasAnswer(m, "gstorage")
        /\ TakeAnswer(m)
        /\ gstor' = [gstor EXCEPT ![m] =
                        IF phase[m][p] = "none" THEN Empty
                        ELSE Opened(Head(toMap[m]).n)]
        /\ flag' = [flag EXCEPT ![m][p] = @ \/ Playing(m, p)]
        /\ UNCHANGED <<charVars, sessVars, inv, stor, toChar, link, faults>>

\* intif_parse_LoadGuildStorage
GuildStorageLoaded(m) ==
    LET p == Head(toMap[m]).p
    IN  /\ HasAnswer(m, "gstorage")
        /\ TakeAnswer(m)
        /\ gstor' = [gstor EXCEPT ![m] =
                        IF phase[m][p] = "none" THEN NotCached
                        ELSE Opened(Head(toMap[m]).n)]
        /\ flag' = [flag EXCEPT ![m][p] = @ \/ Playing(m, p)]
        /\ UNCHANGED <<charVars, sessVars, inv, stor, toChar, link, faults>>

\* guild_member_leaved
MemberLeft(m) ==
    LET p == Head(toMap[m]).p
    IN  /\ HasAnswer(m, "left")
        /\ TakeAnswer(m)
        /\ guild' = [guild EXCEPT ![m][p] = FALSE]
        /\ UNCHANGED <<charVars, phase, flag, inv, stor, gstor, toChar, link,
                       faults>>

-----------------------------------------------------------------------------
(* Failures of a link *)

\* do_final_storage and do_init_storage
DropCaches(m) ==
    /\ stor' = [stor EXCEPT ![m] = [p \in Players |-> NotCached]]
    /\ gstor' = [gstor EXCEPT ![m] = NotCached]

\* chrif_disconnect: players are dropped and can no longer be saved.
LinkDown(m) ==
    /\ faults < MaxFaults
    /\ faults' = faults + 1
    /\ link[m]
    /\ link' = [link EXCEPT ![m] = FALSE]
    /\ phase' = [phase EXCEPT ![m] = [p \in Players |->
                    IF Playing(m, p) THEN "none" ELSE phase[m][p]]]
    /\ flag' = [flag EXCEPT ![m] = [p \in Players |-> FALSE]]
    /\ guild' = [guild EXCEPT ![m] = [p \in Players |-> FALSE]]
    /\ inv' = [p \in Players |-> IF Playing(m, p) THEN 0 ELSE inv[p]]
    /\ toChar' = [toChar EXCEPT ![m] = <<>>]
    /\ toMap' = [toMap EXCEPT ![m] = <<>>]
    /\ DropCaches(m)
    /\ UNCHANGED charVars

LinkUp(m) ==
    /\ ~link[m]
    /\ link' = [link EXCEPT ![m] = TRUE]
    /\ UNCHANGED <<charVars, sessVars, flag, inv, stor, gstor, toChar, toMap,
                   faults>>

-----------------------------------------------------------------------------

PlayerStep(m, p) ==
    \/ OpenStorage(m, p) \/ OpenGuildStorage(m, p) \/ CloseKafra(m, p)
    \/ Deposit(m, p) \/ Withdraw(m, p)
    \/ Connect(m, p) \/ LoadEndAck(m, p) \/ Warp(m, p) \/ Autosave(m, p)
    \/ GoAway(m, p) \/ Disconnect(m, p)

CharStep(m) ==
    \/ RecvAuth(m) \/ RecvSave(m) \/ RecvAsk(m) \/ RecvPut(m)
    \/ RecvGAsk(m) \/ RecvGPut(m)

AnswerStep(m) ==
    \/ AuthOk(m) \/ StorageLoaded(m) \/ GuildStorageLoaded(m) \/ MemberLeft(m)

Work ==
    \/ \E m \in MapServers, p \in Players : PlayerStep(m, p)
    \/ \E m \in MapServers : CharStep(m) \/ AnswerStep(m)
    \/ \E p \in Players : Expel(p)

Next == Work \/ \E m \in MapServers : LinkDown(m) \/ LinkUp(m)

Spec == Init /\ [][Next]_vars

-----------------------------------------------------------------------------
(* Properties *)

\* What the newest save of this type by one of players P says, or else old.
\* (They are under way from one server at a time.)
Newest(type, P, old) ==
    LET saves(m) == SelectSeq(toChar[m], LAMBDA x : x.type = type /\ x.p \in P)
        from == {m \in MapServers : saves(m) # <<>>}
    IN  IF from = {} THEN old ELSE Last(saves(CHOOSE m \in from : TRUE)).n

PlaysAt(p) == {m \in MapServers : Playing(m, p)}

\* Where the pieces of a player, and of the guild, are at the moment.
InvNow(p) ==
    IF PlaysAt(p) # {} THEN inv[p] ELSE Newest("save", {p}, savedInv[p])

StorNow(p) ==
    LET at == {m \in PlaysAt(p) : stor[m][p].cached}
    IN  IF at # {} THEN stor[CHOOSE m \in at : TRUE][p].n
        ELSE Newest("put", {p}, savedStor[p])

GuildNow ==
    LET waits(m) == \E p \in Players : \/ Pending(toChar[m], {"gask"}, p)
                                       \/ Pending(toMap[m], {"gstorage"}, p)
        at == {m \in MapServers : gstor[m].cached /\ ~waits(m)}
    IN  IF at # {} THEN gstor[CHOOSE m \in at : TRUE].n
        ELSE Newest("gput", Players, savedGuild)

Total == GuildNow + MapThenSumSet(LAMBDA p : InvNow(p) + StorNow(p), Players)

KeepsItems == faults' = faults => Total' = Total

\* No piece is lost or doubled, whoever moves it where, closes, warps, leaves
\* and comes back, until a link fails: what the map servers cache, what is
\* under way and what the char server stores always make up the same pieces.
ItemsKept == [][KeepsItems]_vars

\* Two members never have the guild's storage open at once on a map server:
\* storage_status keeps the second one out while it is asked for or in use.
GuildOneUser ==
    \A m \in MapServers, p, q \in Players :
        /\ Playing(m, p) /\ AtGuild(m, p)
        /\ Playing(m, q) /\ AtGuild(m, q)
        => p = q

\* Readme:3288, "opening one of the two closes the other": the guild's storage
\* is shut unless a member has it open or waits for it.
GuildNotStuck ==
    \A m \in MapServers :
        gstor[m].open =>
            \E p \in Players :
                \/ Playing(m, p) /\ AtGuild(m, p)
                \/ Pending(toChar[m], {"gask"}, p)
                \/ Pending(toMap[m], {"gstorage"}, p)

=============================================================================
