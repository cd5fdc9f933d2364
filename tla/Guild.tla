------------------------------- MODULE Guild --------------------------------
(***************************************************************************)
(* The members of guilds: the record of the char server (int_guild.c), the *)
(* copy each map server keeps and the guild_id of each player (guild.c).   *)
(* Requests and notices cross on the links while players log in, move to   *)
(* another map server, leave, or answer an invitation.                     *)
(***************************************************************************)
EXTENDS Naturals, FiniteSets, Sequences, SequencesExt

CONSTANTS
    Guilds, NoGuild,
    GuildPlayers, NoPlayer,
    GuildServers,
    Master,        \* the player whose guild there is at the start,
    FirstGuild,    \* its guild,
    FirstServer,   \* and the server on whose map it is
    Founders,      \* players who may found a guild
    MaxMember,     \* max_member
    MaxInvites,    \* bound: invitations
    MaxTrips,      \* bound: logins, and warps
    MaxQuits       \* bound: guilds founded, left and broken, and members expelled

ASSUME GuildAssumption ==
    /\ Master \in GuildPlayers /\ FirstGuild \in Guilds /\ FirstServer \in GuildServers
    /\ NoGuild \notin Guilds /\ NoPlayer \notin GuildPlayers
    /\ Founders \subseteq GuildPlayers
    /\ MaxMember \in Nat \ {0}
    /\ MaxInvites \in Nat /\ MaxTrips \in Nat /\ MaxQuits \in Nat

VARIABLES
    roster,      \* the record: who is in a guild; one without members is deleted
    given,       \* the numbers below guild_newid, which are not given again
    copy,        \* what each map server holds of each guild, if anything
    linked,      \* members whose sd the copy points to
    stage,       \* how far a player's session is: off, coming, auth, in or leaving
    server,      \* the map server of a player
    guildId,     \* status.guild_id of the session, or of the saved character
    sended,      \* guild_sended: players who got what there is to know of their guild
    invite,      \* guild_invite
    inviter,     \* guild_invite_account
    dialog,      \* the invitation that the client shows
    asks, notices,
    invites, trips, quits

record == <<roster, given>>
guildVars == <<record, copy, linked, stage, server, guildId, sended, invite, inviter, dialog,
               asks, notices, invites, trips, quits>>
sessions == <<stage, server, guildId, sended, invite, inviter, dialog>>
counts == <<invites, trips, quits>>

NoCopy == {NoPlayer}

GuildTypeOK ==
    /\ roster \in [Guilds -> SUBSET GuildPlayers]
    /\ given \subseteq Guilds
    /\ copy \in [GuildServers -> [Guilds -> (SUBSET GuildPlayers) \cup {NoCopy}]]
    /\ linked \in [GuildServers -> [Guilds -> SUBSET GuildPlayers]]
    /\ stage \in [GuildPlayers -> {"off", "coming", "auth", "in", "leaving"}]
    /\ server \in [GuildPlayers -> GuildServers]
    /\ guildId \in [GuildPlayers -> Guilds \cup {NoGuild}]
    /\ sended \subseteq GuildPlayers
    /\ invite \in [GuildPlayers -> Guilds \cup {NoGuild}]
    /\ inviter \in [GuildPlayers -> GuildPlayers \cup {NoPlayer}]
    /\ dialog \in [GuildPlayers -> Guilds \cup {NoGuild}]
    /\ invites \in 0..MaxInvites /\ trips \in 0..MaxTrips /\ quits \in 0..MaxQuits

-----------------------------------------------------------------------------
(* Messages and what the handlers look up                                  *)

Online(s) == {p \in GuildPlayers : server[p] = s /\ stage[p] \in {"auth", "in"}}  \* map_id2sd

Send(s, m) == asks' = [asks EXCEPT ![s] = Append(@, m)]
SendAll(msgs) == notices' = [s \in GuildServers |-> notices[s] \o msgs]

\* mapif_send to one map server; the rest goes to all of them.
SendTo(t, first, msgs) ==
    notices' = [s \in GuildServers |-> notices[s] \o (IF s = t THEN first ELSE <<>>) \o msgs]

Info(g, m) == [type |-> "info", guild |-> g, members |-> m]
Leaved(g, p) == [type |-> "leaved", guild |-> g, player |-> p]
Broken(g) == [type |-> "broken", guild |-> g]
LeaveReq(g, p) == [type |-> "leave", guild |-> g, player |-> p]
Short(g, p) == [type |-> "short", guild |-> g, player |-> p]

\* guild_check_member: whoever claims to be a member of g, and is not, is none.
Strangers(s, g, members) == {p \in Online(s) : guildId[p] = g /\ p \notin members}

Outside(ps) == guildId' = [p \in GuildPlayers |-> IF p \in ps THEN NoGuild ELSE guildId[p]]

Linked(s, g, members) == {p \in members \cap Online(s) : guildId[p] = g}

-----------------------------------------------------------------------------
(* Requests of players                                                     *)

\* guild_create.
Create(p) ==
    /\ p \in Founders
    /\ stage[p] = "in"
    /\ guildId[p] = NoGuild
    /\ quits < MaxQuits
    /\ quits' = quits + 1
    /\ Send(server[p], [type |-> "create", player |-> p])
    /\ UNCHANGED <<record, copy, linked, sessions, notices, invites, trips>>

\* guild_invite.
Invite(p, q) ==
    LET s == server[p]  g == guildId[p] IN
    /\ invites < MaxInvites
    /\ invites' = invites + 1
    /\ stage[p] = "in" /\ q \in Online(s)
    /\ g # NoGuild /\ copy[s][g] # NoCopy
    /\ guildId[q] = NoGuild /\ invite[q] = NoGuild
    /\ Cardinality(copy[s][g]) < MaxMember
    /\ invite' = [invite EXCEPT ![q] = g]
    /\ inviter' = [inviter EXCEPT ![q] = p]
    /\ dialog' = [dialog EXCEPT ![q] = g]
    /\ UNCHANGED <<record, copy, linked, stage, server, guildId, sended, asks, notices, trips, quits>>

\* guild_reply_invite with "no": nothing happens when the one who asked is gone.
Declined(q) ==
    IF invite[q] # NoGuild /\ inviter[q] \in Online(server[q])
    THEN /\ invite' = [invite EXCEPT ![q] = NoGuild]
         /\ inviter' = [inviter EXCEPT ![q] = NoPlayer]
    ELSE UNCHANGED <<invite, inviter>>

Decline(q) ==
    /\ stage[q] = "in" /\ dialog[q] # NoGuild
    /\ dialog' = [dialog EXCEPT ![q] = NoGuild]
    /\ IF dialog[q] = invite[q] THEN Declined(q) ELSE UNCHANGED <<invite, inviter>>
    /\ UNCHANGED <<record, copy, linked, stage, server, guildId, sended, asks, notices, counts>>

\* guild_reply_invite with "yes": the room is looked for in the guild that the
\* one who asked is in by now.
Accept(q) ==
    LET s == server[q]
        g == guildId[inviter[q]]
        room == g # NoGuild /\ copy[s][g] # NoCopy /\ Cardinality(copy[s][g]) < MaxMember IN
    /\ stage[q] = "in" /\ dialog[q] # NoGuild
    /\ dialog' = [dialog EXCEPT ![q] = NoGuild]
    /\ dialog[q] = invite[q] /\ inviter[q] \in Online(s)
    /\ \/ /\ room
          /\ Send(s, [type |-> "add", guild |-> invite[q], player |-> q])
          /\ UNCHANGED <<invite, inviter>>
       \/ /\ ~room
          /\ invite' = [invite EXCEPT ![q] = NoGuild]
          /\ inviter' = [inviter EXCEPT ![q] = NoPlayer]
          /\ UNCHANGED asks
    /\ UNCHANGED <<record, copy, linked, stage, server, guildId, sended, notices, counts>>

\* guild_leave and guild_explusion.
Quit(p, q) ==
    LET s == server[p]  g == guildId[p] IN
    /\ quits < MaxQuits
    /\ quits' = quits + 1
    /\ stage[p] = "in"
    /\ g # NoGuild /\ copy[s][g] # NoCopy
    /\ p = q \/ p = Master
    /\ q \in copy[s][g]
    /\ Send(s, LeaveReq(g, q))
    /\ UNCHANGED <<record, copy, linked, sessions, notices, invites, trips>>

\* guild_break, by a master who is alone in the copy.
Break(p) ==
    LET s == server[p]  g == guildId[p] IN
    /\ quits < MaxQuits
    /\ quits' = quits + 1
    /\ stage[p] = "in"
    /\ p = Master /\ g # NoGuild
    /\ copy[s][g] \subseteq {p}
    /\ Send(s, [type |-> "break", guild |-> g])
    /\ UNCHANGED <<record, copy, linked, sessions, notices, invites, trips>>

-----------------------------------------------------------------------------
(* Sessions                                                                *)

\* The char server lets a player in, with the character as it was saved.
Login(p, s) ==
    /\ stage[p] = "off"
    /\ trips < MaxTrips
    /\ trips' = trips + 1
    /\ stage' = [stage EXCEPT ![p] = "coming"]
    /\ server' = [server EXCEPT ![p] = s]
    /\ notices' = [notices EXCEPT ![s] = Append(@, [type |-> "authok", player |-> p])]
    /\ UNCHANGED <<record, copy, linked, guildId, sended, invite, inviter, dialog, asks, invites, quits>>

\* clif_parse_LoadEndAck: guild_send_memberinfoshort.
MapLoaded(p) ==
    LET s == server[p]  g == guildId[p] IN
    /\ stage[p] = "auth"
    /\ stage' = [stage EXCEPT ![p] = "in"]
    /\ IF g # NoGuild /\ copy[s][g] # NoCopy THEN Send(s, Short(g, p)) ELSE UNCHANGED asks
    /\ IF g # NoGuild /\ copy[s][g] # NoCopy /\ p \notin sended
       THEN /\ Outside(Strangers(s, g, copy[s][g]))
            /\ sended' = (sended \cup {p}) \ Strangers(s, g, copy[s][g])
       ELSE UNCHANGED <<guildId, sended>>
    /\ UNCHANGED <<record, copy, linked, server, invite, inviter, dialog, notices, counts>>

\* unit_remove_map on the way to another map of the same server.
ChangeMap(p) ==
    /\ stage[p] = "in"
    /\ trips < MaxTrips
    /\ trips' = trips + 1
    /\ stage' = [stage EXCEPT ![p] = "auth"]
    /\ Declined(p)
    /\ UNCHANGED <<record, copy, linked, server, guildId, sended, dialog, asks, notices, invites, quits>>

\* unit_free and the save of the character.
Logout(p) ==
    LET s == server[p]  g == guildId[p] IN
    /\ stage[p] \in {"auth", "in"}
    /\ stage' = [stage EXCEPT ![p] = "leaving"]
    /\ LET short == IF g # NoGuild /\ copy[s][g] # NoCopy THEN <<Short(g, p)>> ELSE <<>> IN
       asks' = [asks EXCEPT ![s] = @ \o short \o <<[type |-> "save", player |-> p]>>]
    /\ linked' = [linked EXCEPT ![s] = [h \in Guilds |-> @[h] \ {p}]]
    /\ invite' = [invite EXCEPT ![p] = NoGuild]
    /\ inviter' = [inviter EXCEPT ![p] = NoPlayer]
    /\ dialog' = [dialog EXCEPT ![p] = NoGuild]
    /\ sended' = sended \ {p}
    /\ UNCHANGED <<record, copy, server, guildId, notices, counts>>

-----------------------------------------------------------------------------
(* The char server                                                         *)

Next1(s, type) == asks[s] # <<>> /\ Head(asks[s]).type = type
Took(s) == asks' = [asks EXCEPT ![s] = Tail(@)]

\* mapif_parse_CreateGuild: a number is never used twice.
RecvCreate(s) ==
    LET p == Head(asks[s]).player IN
    /\ Next1(s, "create")
    /\ \E g \in Guilds \ given :
          /\ given' = given \cup {g}
          /\ roster' = [roster EXCEPT ![g] = {p}]
          /\ SendTo(s, <<[type |-> "created", guild |-> g, player |-> p]>>, <<Info(g, {p})>>)
    /\ Took(s)
    /\ UNCHANGED <<copy, linked, sessions, counts>>

\* mapif_parse_GuildInfo.
RecvInfoReq(s) ==
    LET g == Head(asks[s]).guild IN
    /\ Next1(s, "infoReq")
    /\ Took(s)
    /\ notices' = [notices EXCEPT ![s] =
          Append(@, IF roster[g] = {} THEN [type |-> "noinfo", guild |-> g] ELSE Info(g, roster[g]))]
    /\ UNCHANGED <<record, copy, linked, sessions, counts>>

\* Mutant: only the server that asked is told.
RecvAddToAsker(s) ==
    LET m == Head(asks[s])
        g == m.guild
        ok == /\ roster[g] # {} /\ m.player \notin roster[g]
              /\ Cardinality(roster[g]) < MaxMember
        added(flag) == [type |-> "added", guild |-> g, player |-> m.player, flag |-> flag] IN
    /\ Next1(s, "add")
    /\ Took(s)
    /\ \/ /\ ok
          /\ roster' = [roster EXCEPT ![g] = @ \cup {m.player}]
          /\ SendTo(s, <<added(0), Info(g, roster'[g])>>, <<>>)
       \/ /\ ~ok
          /\ SendTo(s, <<added(1)>>, <<>>)
          /\ UNCHANGED roster
    /\ UNCHANGED <<given, copy, linked, sessions, counts>>

\* mapif_parse_GuildAddMember, with guild_join_limit on.
RecvAdd(s) ==
    LET m == Head(asks[s])
        g == m.guild
        ok == /\ roster[g] # {} /\ m.player \notin roster[g]
              /\ Cardinality(roster[g]) < MaxMember
        added(flag) == [type |-> "added", guild |-> g, player |-> m.player, flag |-> flag] IN
    /\ Next1(s, "add")
    /\ Took(s)
    /\ \/ /\ ok
          /\ roster' = [roster EXCEPT ![g] = @ \cup {m.player}]
          /\ SendTo(s, <<added(0)>>, <<Info(g, roster'[g])>>)
       \/ /\ ~ok
          /\ SendTo(s, <<added(1)>>, <<>>)
          /\ UNCHANGED roster
    /\ UNCHANGED <<given, copy, linked, sessions, counts>>

\* mapif_parse_GuildLeave; the guild goes with its last member.
RecvLeave(s) ==
    LET m == Head(asks[s])
        g == m.guild
        left == roster[g] \ {m.player} IN
    /\ Next1(s, "leave")
    /\ Took(s)
    /\ \/ /\ m.player \in roster[g]
          /\ roster' = [roster EXCEPT ![g] = left]
          /\ SendAll(<<Leaved(g, m.player),
                       IF left = {} THEN Broken(g) ELSE Info(g, left)>>)
       \/ m.player \notin roster[g] /\ UNCHANGED <<roster, notices>>
    /\ UNCHANGED <<given, copy, linked, sessions, counts>>

\* mapif_parse_BreakGuild: whoever has joined since is out as well.
RecvBreak(s) ==
    LET g == Head(asks[s]).guild IN
    /\ Next1(s, "break")
    /\ Took(s)
    /\ roster' = [roster EXCEPT ![g] = {}]
    /\ IF roster[g] # {} THEN SendAll(<<Broken(g)>>) ELSE UNCHANGED notices
    /\ UNCHANGED <<given, copy, linked, sessions, counts>>

\* mapif_parse_GuildChangeMemberInfoShort.
RecvShort(s) ==
    LET m == Head(asks[s]) IN
    /\ Next1(s, "short")
    /\ Took(s)
    /\ IF m.player \in roster[m.guild] THEN SendAll(<<m>>) ELSE UNCHANGED notices
    /\ UNCHANGED <<record, copy, linked, sessions, counts>>

\* The saved character is there; from now on the player can log in again.
RecvSaved(s) ==
    LET p == Head(asks[s]).player IN
    /\ Next1(s, "save")
    /\ Took(s)
    /\ stage' = [stage EXCEPT ![p] = "off"]
    /\ UNCHANGED <<record, copy, linked, server, guildId, sended, invite, inviter, dialog, notices, counts>>

-----------------------------------------------------------------------------
(* The map servers                                                         *)

First(s, type) == notices[s] # <<>> /\ Head(notices[s]).type = type
Read(s) == notices' = [notices EXCEPT ![s] = Tail(@)]

\* pc_authok: the guild is asked for if the server does not know it.
RecvAuthok(s) ==
    LET p == Head(notices[s]).player
        g == guildId[p] IN
    /\ First(s, "authok")
    /\ Read(s)
    /\ stage' = [stage EXCEPT ![p] = "auth"]
    /\ IF g # NoGuild /\ copy[s][g] = NoCopy
       THEN Send(s, [type |-> "infoReq", guild |-> g]) ELSE UNCHANGED asks
    /\ UNCHANGED <<record, copy, linked, server, guildId, sended, invite, inviter, dialog, counts>>

\* guild_created: nothing, when the player is not there any more.
RecvCreated(s) ==
    LET m == Head(notices[s])
        there == m.player \in Online(s) IN
    /\ First(s, "created")
    /\ Read(s)
    /\ guildId' = IF there THEN [guildId EXCEPT ![m.player] = m.guild] ELSE guildId
    /\ sended' = IF there THEN sended \ {m.player} ELSE sended
    /\ UNCHANGED <<record, copy, linked, stage, server, invite, inviter, dialog, asks, counts>>

\* guild_recv_info: members are checked when the guild is new to the server.
RecvGuildInfo(s) ==
    LET m == Head(notices[s])
        g == m.guild
        out == IF copy[s][g] = NoCopy THEN Strangers(s, g, m.members) ELSE {} IN
    /\ First(s, "info")
    /\ Read(s)
    /\ copy' = [copy EXCEPT ![s][g] = m.members]
    /\ Outside(out)
    /\ linked' = [linked EXCEPT ![s][g] = Linked(s, g, m.members)]
    /\ sended' = (sended \ out) \cup linked'[s][g]
    /\ UNCHANGED <<record, stage, server, invite, inviter, dialog, asks, counts>>

\* guild_recv_noinfo.
RecvNoinfo(s) ==
    /\ First(s, "noinfo")
    /\ Read(s)
    /\ Outside(Strangers(s, Head(notices[s]).guild, {}))
    /\ UNCHANGED <<record, copy, linked, stage, server, sended, invite, inviter, dialog, asks, counts>>

\* guild_member_added: a player who is not there, or not waiting, is taken out
\* of the guild again.
RecvAdded(s) ==
    LET m == Head(notices[s])
        p == m.player
        waits == p \in Online(s) /\ invite[p] # NoGuild IN
    /\ First(s, "added")
    /\ Read(s)
    /\ \/ /\ copy[s][m.guild] # NoCopy /\ waits
          /\ invite' = [invite EXCEPT ![p] = NoGuild]
          /\ inviter' = [inviter EXCEPT ![p] = NoPlayer]
          /\ guildId' = IF m.flag = 0 THEN [guildId EXCEPT ![p] = m.guild] ELSE guildId
          /\ sended' = IF m.flag = 0 THEN sended \ {p} ELSE sended
          /\ UNCHANGED asks
       \/ /\ copy[s][m.guild] # NoCopy /\ ~waits /\ m.flag = 0
          /\ Send(s, LeaveReq(m.guild, p))
          /\ UNCHANGED <<guildId, sended, invite, inviter>>
       \/ /\ copy[s][m.guild] = NoCopy \/ (~waits /\ m.flag = 1)
          /\ UNCHANGED <<asks, guildId, sended, invite, inviter>>
    /\ UNCHANGED <<record, copy, linked, stage, server, dialog, counts>>

\* Mutant: the player who left is not told.
RecvLeavedUntold(s) ==
    LET m == Head(notices[s])
        g == m.guild
        out == {p \in Online(s) \cap {m.player} : guildId[p] = g} IN
    /\ First(s, "leaved")
    /\ Read(s)
    /\ copy' = IF copy[s][g] = NoCopy THEN copy ELSE [copy EXCEPT ![s][g] = @ \ {m.player}]
    /\ linked' = [linked EXCEPT ![s][g] = @ \ {m.player}]
    /\ UNCHANGED guildId
    /\ sended' = sended \ out
    /\ UNCHANGED <<record, stage, server, invite, inviter, dialog, asks, counts>>

\* guild_member_leaved.
RecvLeaved(s) ==
    LET m == Head(notices[s])
        g == m.guild
        out == {p \in Online(s) \cap {m.player} : guildId[p] = g} IN
    /\ First(s, "leaved")
    /\ Read(s)
    /\ copy' = IF copy[s][g] = NoCopy THEN copy ELSE [copy EXCEPT ![s][g] = @ \ {m.player}]
    /\ linked' = [linked EXCEPT ![s][g] = @ \ {m.player}]
    /\ Outside(out)
    /\ sended' = sended \ out
    /\ UNCHANGED <<record, stage, server, invite, inviter, dialog, asks, counts>>

\* guild_recv_memberinfoshort.
RecvMemberShort(s) ==
    LET m == Head(notices[s])
        g == m.guild
        out == IF copy[s][g] = NoCopy THEN {} ELSE (Online(s) \cap {m.player}) \ copy[s][g] IN
    /\ First(s, "short")
    /\ Read(s)
    /\ Outside(out)
    /\ sended' = sended \ out
    /\ linked' = IF m.player \in copy[s][g]
                 THEN [linked EXCEPT ![s][g] = Linked(s, g, copy[s][g])] ELSE linked
    /\ UNCHANGED <<record, copy, stage, server, invite, inviter, dialog, asks, counts>>

\* guild_broken: only members the copy points to are told.
RecvBroken(s) ==
    LET g == Head(notices[s]).guild IN
    /\ First(s, "broken")
    /\ Read(s)
    /\ Outside(linked[s][g])
    /\ sended' = sended \ linked[s][g]
    /\ copy' = [copy EXCEPT ![s][g] = NoCopy]
    /\ linked' = [linked EXCEPT ![s][g] = {}]
    /\ UNCHANGED <<record, stage, server, invite, inviter, dialog, asks, counts>>

-----------------------------------------------------------------------------
GuildInit ==
    /\ roster = [g \in Guilds |-> IF g = FirstGuild THEN {Master} ELSE {}]
    /\ given = {FirstGuild}
    /\ copy = [s \in GuildServers |-> [g \in Guilds |->
                  IF s = FirstServer /\ g = FirstGuild THEN {Master} ELSE NoCopy]]
    /\ linked = [s \in GuildServers |-> [g \in Guilds |->
                  IF s = FirstServer /\ g = FirstGuild THEN {Master} ELSE {}]]
    /\ stage = [p \in GuildPlayers |-> IF p = Master THEN "in" ELSE "off"]
    /\ server = [p \in GuildPlayers |-> FirstServer]
    /\ guildId = [p \in GuildPlayers |-> IF p = Master THEN FirstGuild ELSE NoGuild]
    /\ sended = {Master}
    /\ invite = [p \in GuildPlayers |-> NoGuild]
    /\ inviter = [p \in GuildPlayers |-> NoPlayer]
    /\ dialog = [p \in GuildPlayers |-> NoGuild]
    /\ asks = [s \in GuildServers |-> <<>>]
    /\ notices = [s \in GuildServers |-> <<>>]
    /\ invites = 0 /\ trips = 0 /\ quits = 0

GuildNext ==
    \/ \E p \in GuildPlayers :
          \/ Create(p) \/ Decline(p) \/ Accept(p) \/ Break(p)
          \/ MapLoaded(p) \/ ChangeMap(p) \/ Logout(p)
          \/ \E q \in GuildPlayers : Invite(p, q) \/ Quit(p, q)
          \/ \E s \in GuildServers : Login(p, s)
    \/ \E s \in GuildServers :
          \/ RecvCreate(s) \/ RecvInfoReq(s) \/ RecvAdd(s) \/ RecvLeave(s)
          \/ RecvBreak(s) \/ RecvShort(s) \/ RecvSaved(s)
          \/ RecvAuthok(s) \/ RecvCreated(s) \/ RecvGuildInfo(s) \/ RecvNoinfo(s)
          \/ RecvAdded(s) \/ RecvLeaved(s) \/ RecvMemberShort(s) \/ RecvBroken(s)

GuildSpec == GuildInit /\ [][GuildNext]_guildVars

-----------------------------------------------------------------------------
Quiet == \A s \in GuildServers : asks[s] = <<>> /\ notices[s] = <<>>

\* Once all notices have arrived, in whatever order requests crossed them, each
\* map server's copy is the record.
CopiesAgree ==
    Quiet => \A s \in GuildServers, g \in Guilds :
                 copy[s][g] \in {NoCopy, roster[g]}

\* And no player on a map thinks itself a member of a guild whose record does
\* not name it, whatever it was doing when it was taken out.
NoFalseMember ==
    Quiet => \A p \in GuildPlayers, g \in Guilds :
                 stage[p] = "in" /\ roster[g] # {} /\ guildId[p] = g => p \in roster[g]

\* And each player on a map who is in the record knows it: as guild_member_added
\* says, who could not be registered there is taken out of the guild.
MembersKnow ==
    Quiet => \A p \in GuildPlayers, g \in Guilds :
                 stage[p] = "in" /\ p \in roster[g] => guildId[p] = g

=============================================================================
