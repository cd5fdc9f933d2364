---------------------------- MODULE GuildProofs -----------------------------
(***************************************************************************)
(* Theorems about Guild for every set of guilds, players and map servers   *)
(* and every bound: the copies of the map servers end up as the record,    *)
(* and nobody on a map thinks itself a member of a guild it was taken out  *)
(* of.                                                                     *)
(***************************************************************************)
EXTENDS Guild, SequenceTheorems, TLAPS

Ask ==
    [type : {"create", "save"}, player : GuildPlayers]
    \cup [type : {"leave", "short", "add"}, guild : Guilds, player : GuildPlayers]
    \cup [type : {"break", "infoReq"}, guild : Guilds]

Notice ==
    [type : {"authok"}, player : GuildPlayers]
    \cup [type : {"leaved", "short", "created"}, guild : Guilds, player : GuildPlayers]
    \cup [type : {"broken", "noinfo"}, guild : Guilds]
    \cup [type : {"info"}, guild : Guilds, members : SUBSET GuildPlayers]
    \cup [type : {"added"}, guild : Guilds, player : GuildPlayers, flag : {0, 1}]

LinksOK ==
    /\ asks \in [GuildServers -> Seq(Ask)]
    /\ notices \in [GuildServers -> Seq(Notice)]

GuildTypes == GuildTypeOK /\ LinksOK

\* One entry of a table of tables.
LEMMA EntrySet ==
    ASSUME NEW A, NEW B, NEW C, NEW f \in [A -> [B -> C]], NEW a \in A, NEW b \in B, NEW c \in C
    PROVE  /\ [f EXCEPT ![a][b] = c] \in [A -> [B -> C]]
           /\ [f EXCEPT ![a][b] = c][a][b] = c
           /\ \A x \in A, y \in B : x # a \/ y # b => [f EXCEPT ![a][b] = c][x][y] = f[x][y]
  OBVIOUS

Copies == (SUBSET GuildPlayers) \cup {NoCopy}

LEMMA CopiesType ==
    /\ [GuildServers -> [Guilds -> (SUBSET GuildPlayers) \cup {NoCopy}]]
          = [GuildServers -> [Guilds -> Copies]]
    /\ NoCopy \in Copies
    /\ \A c \in Copies : c # NoCopy => c \in SUBSET GuildPlayers
    /\ \A c \in SUBSET GuildPlayers : c \in Copies
<1>1. (SUBSET GuildPlayers) \cup {NoCopy} = Copies
  BY DEF Copies
<1>2. NoCopy \in Copies
  BY DEF Copies
<1>3. \A c \in Copies : c # NoCopy => c \in SUBSET GuildPlayers
  BY DEF Copies
<1>4. \A c \in SUBSET GuildPlayers : c \in Copies
  BY DEF Copies
<1>5. [GuildServers -> [Guilds -> (SUBSET GuildPlayers) \cup {NoCopy}]]
         = [GuildServers -> [Guilds -> Copies]]
  BY DEF Copies
<1> QED BY <1>2, <1>3, <1>4, <1>5, Zenon

\* What the messages are about.
LEMMA AskParts ==
    ASSUME NEW m \in Ask
    PROVE  /\ m.type \in {"create", "save", "leave", "short", "add"} => m.player \in GuildPlayers
           /\ m.type \in {"leave", "short", "add", "break", "infoReq"} => m.guild \in Guilds
           /\ m.type = "short" => m \in Notice
  BY DEF Ask, Notice

LEMMA NoticeParts ==
    ASSUME NEW m \in Notice
    PROVE  /\ m.type \in {"authok", "leaved", "short", "created", "added"} => m.player \in GuildPlayers
           /\ m.type \in {"leaved", "short", "created", "broken", "noinfo", "info", "added"}
                => m.guild \in Guilds
           /\ m.type = "info" => m.members \in SUBSET GuildPlayers
  BY DEF Notice

LEMMA NoticesMade ==
    ASSUME NEW g \in Guilds, NEW p \in GuildPlayers, NEW ps \in SUBSET GuildPlayers, NEW f \in {0, 1}
    PROVE  /\ Info(g, ps) \in Notice /\ Leaved(g, p) \in Notice /\ Broken(g) \in Notice
           /\ [type |-> "authok", player |-> p] \in Notice
           /\ [type |-> "created", guild |-> g, player |-> p] \in Notice
           /\ [type |-> "noinfo", guild |-> g] \in Notice
           /\ [type |-> "added", guild |-> g, player |-> p, flag |-> f] \in Notice
  BY DEF Notice, Info, Leaved, Broken

LEMMA AsksMade ==
    ASSUME NEW g \in Guilds, NEW p \in GuildPlayers
    PROVE  /\ LeaveReq(g, p) \in Ask /\ Short(g, p) \in Ask
           /\ [type |-> "create", player |-> p] \in Ask
           /\ [type |-> "save", player |-> p] \in Ask
           /\ [type |-> "add", guild |-> g, player |-> p] \in Ask
           /\ [type |-> "break", guild |-> g] \in Ask
           /\ [type |-> "infoReq", guild |-> g] \in Ask
  BY DEF Ask, LeaveReq, Short

\* The head of a link, and what is behind it.
LEMMA LinkHead ==
    ASSUME NEW S, NEW links \in [GuildServers -> Seq(S)], NEW s \in GuildServers, links[s] # <<>>
    PROVE  /\ Head(links[s]) \in S /\ Head(links[s]) = links[s][1] /\ Tail(links[s]) \in Seq(S)
           /\ Len(links[s]) \in Nat \ {0}
  BY HeadTailProperties

\* Each way to send and to take keeps the types of the links.
LEMMA SendType ==
    ASSUME LinksOK, NEW s \in GuildServers, NEW m \in Ask, Send(s, m)
    PROVE  asks' \in [GuildServers -> Seq(Ask)]
<1>1. Append(asks[s], m) \in Seq(Ask)
  BY AppendProperties DEF LinksOK
<1> QED BY <1>1 DEF LinksOK, Send

LEMMA TookType ==
    ASSUME LinksOK, NEW s \in GuildServers, asks[s] # <<>>, Took(s)
    PROVE  asks' \in [GuildServers -> Seq(Ask)] /\ Head(asks[s]) \in Ask
<1>1. Tail(asks[s]) \in Seq(Ask) /\ Head(asks[s]) \in Ask
  BY LinkHead DEF LinksOK
<1> QED BY <1>1 DEF LinksOK, Took

LEMMA ReadType ==
    ASSUME LinksOK, NEW s \in GuildServers, notices[s] # <<>>, Read(s)
    PROVE  notices' \in [GuildServers -> Seq(Notice)] /\ Head(notices[s]) \in Notice
<1>1. Tail(notices[s]) \in Seq(Notice) /\ Head(notices[s]) \in Notice
  BY LinkHead DEF LinksOK
<1> QED BY <1>1 DEF LinksOK, Read

LEMMA SendToType ==
    ASSUME LinksOK, NEW t \in GuildServers, NEW first \in Seq(Notice), NEW msgs \in Seq(Notice),
           SendTo(t, first, msgs) \/ SendAll(msgs)
    PROVE  notices' \in [GuildServers -> Seq(Notice)]
<1>1. \A n \in Seq(Notice), k \in Seq(Notice) : n \o k \in Seq(Notice)
  BY ConcatProperties
<1>2. <<>> \in Seq(Notice)
  OBVIOUS
<1>3. \A s \in GuildServers : notices[s] \in Seq(Notice)
  BY DEF LinksOK
<1>4. \A s \in GuildServers : notices[s] \o msgs \in Seq(Notice)
                            /\ notices[s] \o first \o msgs \in Seq(Notice)
                            /\ notices[s] \o <<>> \o msgs \in Seq(Notice)
  BY <1>1, <1>2, <1>3
<1> QED BY <1>4 DEF SendTo, SendAll

LEMMA ShortSeqs ==
    ASSUME NEW S, NEW a \in S, NEW b \in S
    PROVE  <<>> \in Seq(S) /\ <<a>> \in Seq(S) /\ <<a, b>> \in Seq(S)
  OBVIOUS

-----------------------------------------------------------------------------
(* Types, handler by handler *)

LEMMA RequestTypes ==
    ASSUME GuildTypes, NEW p \in GuildPlayers, NEW q \in GuildPlayers,
           Create(p) \/ Invite(p, q) \/ Decline(p) \/ Accept(p) \/ Quit(p, q) \/ Break(p)
    PROVE  GuildTypes'
<1> USE DEF GuildTypes
<1>1. CASE Create(p)
  <2>1. asks' \in [GuildServers -> Seq(Ask)]
    <3>1. [type |-> "create", player |-> p] \in Ask /\ server[p] \in GuildServers
      BY DEF Ask, GuildTypeOK
    <3> QED BY <1>1, <3>1, SendType DEF Create
  <2> QED BY <1>1, <2>1, GuildAssumption
          DEF Create, GuildTypeOK, LinksOK, record, sessions
<1>2. CASE Invite(p, q)
  <2>1. /\ guildId[p] \in Guilds /\ invites' \in 0..MaxInvites
        /\ invite' = [invite EXCEPT ![q] = guildId[p]]
        /\ inviter' = [inviter EXCEPT ![q] = p]
        /\ dialog' = [dialog EXCEPT ![q] = guildId[p]]
    BY <1>2, GuildAssumption DEF Invite, GuildTypeOK
  <2>2. /\ invite' \in [GuildPlayers -> Guilds \cup {NoGuild}]
        /\ inviter' \in [GuildPlayers -> GuildPlayers \cup {NoPlayer}]
        /\ dialog' \in [GuildPlayers -> Guilds \cup {NoGuild}]
    BY <2>1 DEF GuildTypeOK
  <2> QED BY <1>2, <2>1, <2>2 DEF Invite, GuildTypeOK, LinksOK, record
<1>3. CASE Decline(p)
  <2>1. /\ invite' \in [GuildPlayers -> Guilds \cup {NoGuild}]
        /\ inviter' \in [GuildPlayers -> GuildPlayers \cup {NoPlayer}]
        /\ dialog' \in [GuildPlayers -> Guilds \cup {NoGuild}]
    BY <1>3 DEF Decline, Declined, GuildTypeOK
  <2> QED BY <1>3, <2>1 DEF Decline, GuildTypeOK, LinksOK, record, counts
<1>4. CASE Accept(p)
  <2>1. asks' \in [GuildServers -> Seq(Ask)]
    <3>1. CASE UNCHANGED asks
      BY <3>1 DEF LinksOK
    <3>2. CASE Send(server[p], [type |-> "add", guild |-> invite[p], player |-> p])
      <4>1. invite[p] \in Guilds /\ server[p] \in GuildServers
        BY <1>4, GuildAssumption DEF Accept, GuildTypeOK
      <4> QED BY <3>2, <4>1, AsksMade, SendType
    <3> QED BY <1>4, <3>1, <3>2 DEF Accept
  <2>2. /\ invite' \in [GuildPlayers -> Guilds \cup {NoGuild}]
        /\ inviter' \in [GuildPlayers -> GuildPlayers \cup {NoPlayer}]
        /\ dialog' \in [GuildPlayers -> Guilds \cup {NoGuild}]
    BY <1>4 DEF Accept, GuildTypeOK
  <2> QED BY <1>4, <2>1, <2>2 DEF Accept, GuildTypeOK, LinksOK, record, counts
<1>5. CASE Quit(p, q)
  <2>1. guildId[p] \in Guilds /\ server[p] \in GuildServers
    BY <1>5 DEF Quit, GuildTypeOK
  <2>2. asks' \in [GuildServers -> Seq(Ask)]
    BY <1>5, <2>1, AsksMade, SendType DEF Quit
  <2> QED BY <1>5, <2>2, GuildAssumption DEF Quit, GuildTypeOK, LinksOK, record, sessions
<1>6. CASE Break(p)
  <2>1. guildId[p] \in Guilds /\ server[p] \in GuildServers
    BY <1>6 DEF Break, GuildTypeOK
  <2>2. asks' \in [GuildServers -> Seq(Ask)]
    BY <1>6, <2>1, AsksMade, SendType DEF Break
  <2> QED BY <1>6, <2>2, GuildAssumption DEF Break, GuildTypeOK, LinksOK, record, sessions
<1> QED BY <1>1, <1>2, <1>3, <1>4, <1>5, <1>6

LEMMA SessionTypes ==
    ASSUME GuildTypes, NEW p \in GuildPlayers, NEW s \in GuildServers,
           Login(p, s) \/ MapLoaded(p) \/ ChangeMap(p) \/ Logout(p)
    PROVE  GuildTypes'
<1> USE DEF GuildTypes
<1>1. CASE Login(p, s)
  <2>1. Append(notices[s], [type |-> "authok", player |-> p]) \in Seq(Notice)
    <3>1. [type |-> "authok", player |-> p] \in Notice
      BY DEF Notice
    <3> QED BY <3>1, AppendProperties DEF LinksOK
  <2>2. notices' \in [GuildServers -> Seq(Notice)]
    BY <1>1, <2>1 DEF Login, LinksOK
  <2> QED BY <1>1, <2>2, GuildAssumption DEF Login, GuildTypeOK, LinksOK, record
<1>2. CASE MapLoaded(p)
  <2> DEFINE t == server[p]
             g == guildId[p]
  <2>1. t \in GuildServers
    BY DEF GuildTypeOK
  <2>2. asks' \in [GuildServers -> Seq(Ask)]
    <3>1. CASE UNCHANGED asks
      BY <3>1 DEF LinksOK
    <3>2. CASE g # NoGuild /\ Send(t, Short(g, p))
      BY <2>1, <3>2, AsksMade, SendType DEF GuildTypeOK
    <3> QED BY <1>2, <3>1, <3>2 DEF MapLoaded
  <2>3. guildId' \in [GuildPlayers -> Guilds \cup {NoGuild}] /\ sended' \subseteq GuildPlayers
    BY <1>2 DEF MapLoaded, Outside, GuildTypeOK
  <2> QED BY <1>2, <2>2, <2>3 DEF MapLoaded, GuildTypeOK, LinksOK, record, counts
<1>3. CASE ChangeMap(p)
  <2>1. trips' \in 0..MaxTrips /\ stage' \in [GuildPlayers -> {"off", "coming", "auth", "in", "leaving"}]
    BY <1>3, GuildAssumption DEF ChangeMap, GuildTypeOK
  <2>2. /\ invite' \in [GuildPlayers -> Guilds \cup {NoGuild}]
        /\ inviter' \in [GuildPlayers -> GuildPlayers \cup {NoPlayer}]
    BY <1>3 DEF ChangeMap, Declined, GuildTypeOK
  <2> QED BY <1>3, <2>1, <2>2 DEF ChangeMap, GuildTypeOK, LinksOK, record
<1>4. CASE Logout(p)
  <2> DEFINE t == server[p]
             g == guildId[p]
             short == IF g # NoGuild /\ copy[t][g] # NoCopy THEN <<Short(g, p)>> ELSE <<>>
             save == <<[type |-> "save", player |-> p]>>
  <2>1. t \in GuildServers /\ asks[t] \in Seq(Ask)
    BY DEF GuildTypeOK, LinksOK
  <2>2. short \in Seq(Ask) /\ save \in Seq(Ask)
    <3>1. g # NoGuild => Short(g, p) \in Ask
      BY AsksMade DEF GuildTypeOK
    <3>2. [type |-> "save", player |-> p] \in Ask
      BY DEF Ask
    <3> QED BY <3>1, <3>2
  <2>3. asks' = [asks EXCEPT ![t] = @ \o short \o save]
    BY <1>4 DEF Logout
  <2> HIDE DEF short, save, t
  <2>4. asks[t] \o short \o save \in Seq(Ask)
    BY <2>1, <2>2, ConcatProperties
  <2>5. asks' \in [GuildServers -> Seq(Ask)]
    BY <2>3, <2>4 DEF LinksOK
  <2>6. linked' \in [GuildServers -> [Guilds -> SUBSET GuildPlayers]]
    <3>1. linked' = [linked EXCEPT ![t] = [h \in Guilds |-> linked[t][h] \ {p}]]
      BY <1>4, <2>1 DEF Logout, GuildTypeOK, t
    <3>2. [h \in Guilds |-> linked[t][h] \ {p}] \in [Guilds -> SUBSET GuildPlayers]
      BY <2>1 DEF GuildTypeOK
    <3> QED BY <2>1, <3>1, <3>2 DEF GuildTypeOK
  <2> QED BY <1>4, <2>5, <2>6 DEF Logout, GuildTypeOK, LinksOK, record, counts
<1> QED BY <1>1, <1>2, <1>3, <1>4

\* Handlers of the char server.
LEMMA CharTypes ==
    ASSUME GuildTypes, NEW s \in GuildServers,
           \/ RecvCreate(s) \/ RecvInfoReq(s) \/ RecvAdd(s) \/ RecvLeave(s) \/ RecvBreak(s)
           \/ RecvShort(s) \/ RecvSaved(s)
    PROVE  GuildTypes'
<1> USE DEF GuildTypes
<1> DEFINE m == Head(asks[s])
<1>1. asks[s] # <<>> /\ Took(s)
  BY DEF RecvCreate, RecvInfoReq, RecvAdd, RecvLeave, RecvBreak, RecvShort, RecvSaved, Next1
<1>2. asks' \in [GuildServers -> Seq(Ask)] /\ m \in Ask
  BY <1>1, TookType
<1>3. /\ m.type \in {"create", "save", "leave", "short", "add"} => m.player \in GuildPlayers
      /\ m.type \in {"leave", "short", "add", "break", "infoReq"} => m.guild \in Guilds
      /\ m.type = "short" => m \in Notice
  BY <1>2, AskParts
<1> HIDE DEF m
<1>4. CASE RecvCreate(s)
  <2>1. m.player \in GuildPlayers
    BY <1>3, <1>4 DEF RecvCreate, Next1, m
  <2>2. PICK g \in Guilds \ given :
          /\ given' = given \cup {g}
          /\ roster' = [roster EXCEPT ![g] = {m.player}]
          /\ SendTo(s, <<[type |-> "created", guild |-> g, player |-> m.player]>>,
                       <<Info(g, {m.player})>>)
    BY <1>4 DEF RecvCreate, m
  <2>3. notices' \in [GuildServers -> Seq(Notice)]
    <3>1. /\ <<[type |-> "created", guild |-> g, player |-> m.player]>> \in Seq(Notice)
          /\ <<Info(g, {m.player})>> \in Seq(Notice)
      BY <2>1, NoticesMade, ShortSeqs
    <3> QED BY <2>2, <3>1, SendToType
  <2>4. roster' \in [Guilds -> SUBSET GuildPlayers] /\ given' \subseteq Guilds
    BY <2>1, <2>2 DEF GuildTypeOK
  <2> QED BY <1>2, <1>4, <2>3, <2>4 DEF RecvCreate, GuildTypeOK, LinksOK, sessions, counts
<1>5. CASE RecvInfoReq(s)
  <2> DEFINE n == IF roster[m.guild] = {} THEN [type |-> "noinfo", guild |-> m.guild]
                  ELSE Info(m.guild, roster[m.guild])
  <2>1. m.guild \in Guilds
    BY <1>3, <1>5 DEF RecvInfoReq, Next1, m
  <2>2. n \in Notice
    BY <2>1 DEF Notice, Info, GuildTypeOK
  <2>3. notices' = [notices EXCEPT ![s] = Append(@, n)]
    BY <1>5 DEF RecvInfoReq, m
  <2> HIDE DEF n
  <2>4. Append(notices[s], n) \in Seq(Notice)
    BY <2>2, AppendProperties DEF LinksOK
  <2>5. notices' \in [GuildServers -> Seq(Notice)]
    BY <2>3, <2>4 DEF LinksOK
  <2> QED BY <1>2, <1>5, <2>5 DEF RecvInfoReq, GuildTypeOK, LinksOK, record, sessions, counts
<1>6. CASE RecvAdd(s)
  <2> DEFINE g == m.guild
             added(f) == [type |-> "added", guild |-> g, player |-> m.player, flag |-> f]
  <2>1. g \in Guilds /\ m.player \in GuildPlayers
    BY <1>3, <1>6 DEF RecvAdd, Next1, m
  <2>2. <<added(0)>> \in Seq(Notice) /\ <<added(1)>> \in Seq(Notice) /\ <<>> \in Seq(Notice)
    BY <2>1, NoticesMade, ShortSeqs
  <2>3. CASE /\ roster' = [roster EXCEPT ![g] = @ \cup {m.player}]
             /\ SendTo(s, <<added(0)>>, <<Info(g, roster'[g])>>)
    <3>1. roster' \in [Guilds -> SUBSET GuildPlayers]
      BY <2>1, <2>3 DEF GuildTypeOK
    <3>2. <<Info(g, roster'[g])>> \in Seq(Notice)
      <4>1. roster'[g] \in SUBSET GuildPlayers
        BY <2>1, <3>1
      <4> HIDE DEF g
      <4> QED BY <2>1, <4>1, NoticesMade, ShortSeqs
    <3>3. notices' \in [GuildServers -> Seq(Notice)]
      BY <2>2, <2>3, <3>2, SendToType
    <3> QED BY <1>2, <1>6, <3>1, <3>3 DEF RecvAdd, GuildTypeOK, LinksOK, sessions, counts
  <2>4. CASE SendTo(s, <<added(1)>>, <<>>) /\ UNCHANGED roster
    <3>1. notices' \in [GuildServers -> Seq(Notice)]
      BY <2>2, <2>4, SendToType
    <3> QED BY <1>2, <1>6, <2>4, <3>1 DEF RecvAdd, GuildTypeOK, LinksOK, sessions, counts
  <2> QED BY <1>6, <2>3, <2>4 DEF RecvAdd, m
<1>7. CASE RecvLeave(s)
  <2> DEFINE g == m.guild
             left == roster[g] \ {m.player}
             last == IF left = {} THEN Broken(g) ELSE Info(g, left)
  <2>1. g \in Guilds /\ m.player \in GuildPlayers
    BY <1>3, <1>7 DEF RecvLeave, Next1, m
  <2>2. CASE /\ roster' = [roster EXCEPT ![g] = left]
             /\ SendAll(<<Leaved(g, m.player), last>>)
    <3>1. left \in SUBSET GuildPlayers
      BY <2>1 DEF GuildTypeOK
    <3>2. roster' \in [Guilds -> SUBSET GuildPlayers]
      BY <2>1, <2>2, <3>1 DEF GuildTypeOK
    <3>3. Leaved(g, m.player) \in Notice /\ last \in Notice
      BY <2>1, <3>1, NoticesMade
    <3> HIDE DEF last
    <3>4. <<Leaved(g, m.player), last>> \in Seq(Notice)
      BY <3>3, ShortSeqs
    <3>5. notices' \in [GuildServers -> Seq(Notice)]
      BY <2>2, <3>4, SendToType
    <3> QED BY <1>2, <1>7, <3>2, <3>5 DEF RecvLeave, GuildTypeOK, LinksOK, sessions, counts
  <2>3. CASE UNCHANGED <<roster, notices>>
    BY <1>2, <1>7, <2>3 DEF RecvLeave, GuildTypeOK, LinksOK, sessions, counts
  <2> QED BY <1>7, <2>2, <2>3 DEF RecvLeave, m
<1>8. CASE RecvBreak(s)
  <2>1. m.guild \in Guilds
    BY <1>3, <1>8 DEF RecvBreak, Next1, m
  <2>2. notices' \in [GuildServers -> Seq(Notice)]
    <3>1. CASE SendAll(<<Broken(m.guild)>>)
      <4>1. <<Broken(m.guild)>> \in Seq(Notice)
        <5>1. Broken(m.guild) \in Notice
          BY <2>1 DEF Notice, Broken
        <5> QED BY <5>1, ShortSeqs
      <4> QED BY <3>1, <4>1, SendToType
    <3>2. CASE UNCHANGED notices
      BY <3>2 DEF LinksOK
    <3> QED BY <1>8, <3>1, <3>2 DEF RecvBreak, m
  <2>3. roster' \in [Guilds -> SUBSET GuildPlayers]
    BY <1>8, <2>1 DEF RecvBreak, GuildTypeOK, m
  <2> QED BY <1>2, <1>8, <2>2, <2>3 DEF RecvBreak, GuildTypeOK, LinksOK, sessions, counts
<1>9. CASE RecvShort(s)
  <2>1. m \in Notice
    BY <1>3, <1>9 DEF RecvShort, Next1, m
  <2>2. notices' \in [GuildServers -> Seq(Notice)]
    <3>1. CASE SendAll(<<m>>)
      BY <2>1, <3>1, ShortSeqs, SendToType
    <3>2. CASE UNCHANGED notices
      BY <3>2 DEF LinksOK
    <3> QED BY <1>9, <3>1, <3>2 DEF RecvShort, m
  <2> QED BY <1>2, <1>9, <2>2 DEF RecvShort, GuildTypeOK, LinksOK, record, sessions, counts
<1>10. CASE RecvSaved(s)
  BY <1>2, <1>10 DEF RecvSaved, GuildTypeOK, LinksOK, record, counts
<1> QED BY <1>4, <1>5, <1>6, <1>7, <1>8, <1>9, <1>10

\* Handlers of a map server.
LEMMA MapTypes ==
    ASSUME GuildTypes, NEW s \in GuildServers,
           \/ RecvAuthok(s) \/ RecvCreated(s) \/ RecvGuildInfo(s) \/ RecvNoinfo(s)
           \/ RecvAdded(s) \/ RecvLeaved(s) \/ RecvMemberShort(s) \/ RecvBroken(s)
    PROVE  GuildTypes'
<1> USE DEF GuildTypes
<1> DEFINE m == Head(notices[s])
           g == m.guild
<1>1. notices[s] # <<>> /\ Read(s)
  BY DEF RecvAuthok, RecvCreated, RecvGuildInfo, RecvNoinfo, RecvAdded, RecvLeaved,
         RecvMemberShort, RecvBroken, First
<1>2. notices' \in [GuildServers -> Seq(Notice)] /\ m \in Notice
  BY <1>1, ReadType
<1>3. /\ m.type \in {"authok", "leaved", "short", "created", "added"} => m.player \in GuildPlayers
      /\ m.type \in {"leaved", "short", "created", "broken", "noinfo", "info", "added"}
           => g \in Guilds
      /\ m.type = "info" => m.members \in SUBSET GuildPlayers
  BY <1>2, NoticeParts
<1> HIDE DEF m, g
<1>4. ASSUME NEW ps, Outside(ps)
      PROVE  guildId' \in [GuildPlayers -> Guilds \cup {NoGuild}]
  BY <1>4 DEF Outside, GuildTypeOK
<1>5. CASE RecvAuthok(s)
  <2> DEFINE h == guildId[m.player]
  <2>1. m.player \in GuildPlayers
    BY <1>3, <1>5 DEF RecvAuthok, First, m
  <2>2. asks' \in [GuildServers -> Seq(Ask)]
    <3>1. CASE UNCHANGED asks
      BY <3>1 DEF LinksOK
    <3>2. CASE h # NoGuild /\ Send(s, [type |-> "infoReq", guild |-> h])
      <4>1. [type |-> "infoReq", guild |-> h] \in Ask
        BY <2>1, <3>2 DEF Ask, GuildTypeOK
      <4> QED BY <3>2, <4>1, SendType
    <3> QED BY <1>5, <3>1, <3>2 DEF RecvAuthok, m
  <2> QED BY <1>2, <1>5, <2>1, <2>2 DEF RecvAuthok, GuildTypeOK, LinksOK, record, counts
<1>6. CASE RecvCreated(s)
  <2>1. m.player \in GuildPlayers /\ g \in Guilds
    BY <1>3, <1>6 DEF RecvCreated, First, m
  <2>2. guildId' \in [GuildPlayers -> Guilds \cup {NoGuild}] /\ sended' \subseteq GuildPlayers
    BY <1>6, <2>1 DEF RecvCreated, GuildTypeOK, m, g
  <2> QED BY <1>2, <1>6, <2>2 DEF RecvCreated, GuildTypeOK, LinksOK, record, counts
<1>7. CASE RecvGuildInfo(s)
  <2>1. m.members \in SUBSET GuildPlayers /\ g \in Guilds
    BY <1>3, <1>7 DEF RecvGuildInfo, First, m
  <2>2. copy' = [copy EXCEPT ![s][g] = m.members]
    BY <1>7 DEF RecvGuildInfo, m, g
  <2>3. copy' \in [GuildServers -> [Guilds -> (SUBSET GuildPlayers) \cup {NoCopy}]]
    BY <2>1, <2>2 DEF GuildTypeOK
  <2>4. guildId' \in [GuildPlayers -> Guilds \cup {NoGuild}]
    BY <1>4, <1>7 DEF RecvGuildInfo
  <2>5. linked' = [linked EXCEPT ![s][g] = Linked(s, g, m.members)]
    BY <1>7 DEF RecvGuildInfo, m, g
  <2>6. Linked(s, g, m.members) \subseteq GuildPlayers
    BY <2>1 DEF Linked
  <2>7. linked' \in [GuildServers -> [Guilds -> SUBSET GuildPlayers]]
    BY <2>1, <2>5, <2>6 DEF GuildTypeOK
  <2>8. sended' \subseteq GuildPlayers
    <3>1. linked'[s][g] \subseteq GuildPlayers
      BY <2>1, <2>7
    <3> QED BY <1>7, <3>1 DEF RecvGuildInfo, GuildTypeOK, m, g
  <2> QED BY <1>2, <1>7, <2>3, <2>4, <2>7, <2>8 DEF RecvGuildInfo, GuildTypeOK, LinksOK, record, counts
<1>8. CASE RecvNoinfo(s)
  <2>1. guildId' \in [GuildPlayers -> Guilds \cup {NoGuild}]
    BY <1>4, <1>8 DEF RecvNoinfo
  <2> QED BY <1>2, <1>8, <2>1 DEF RecvNoinfo, GuildTypeOK, LinksOK, record, counts
<1>9. CASE RecvAdded(s)
  <2>1. m.player \in GuildPlayers /\ g \in Guilds
    BY <1>3, <1>9 DEF RecvAdded, First, m
  <2>2. asks' \in [GuildServers -> Seq(Ask)]
    <3>1. CASE UNCHANGED asks
      BY <3>1 DEF LinksOK
    <3>2. CASE Send(s, LeaveReq(g, m.player))
      BY <2>1, <3>2, AsksMade, SendType
    <3> QED BY <1>9, <3>1, <3>2 DEF RecvAdded, m, g
  <2>3. /\ guildId' \in [GuildPlayers -> Guilds \cup {NoGuild}] /\ sended' \subseteq GuildPlayers
        /\ invite' \in [GuildPlayers -> Guilds \cup {NoGuild}]
        /\ inviter' \in [GuildPlayers -> GuildPlayers \cup {NoPlayer}]
    BY <1>9, <2>1 DEF RecvAdded, GuildTypeOK, m, g
  <2> QED BY <1>2, <1>9, <2>2, <2>3 DEF RecvAdded, GuildTypeOK, LinksOK, record, counts
<1>10. CASE RecvLeaved(s)
  <2>1. g \in Guilds
    BY <1>3, <1>10 DEF RecvLeaved, First, m
  <2>2. copy' \in [GuildServers -> [Guilds -> (SUBSET GuildPlayers) \cup {NoCopy}]]
    <3>1. CASE UNCHANGED copy
      BY <3>1 DEF GuildTypeOK
    <3>2. CASE copy[s][g] # NoCopy /\ copy' = [copy EXCEPT ![s][g] = @ \ {m.player}]
      <4>1. copy[s][g] \ {m.player} \in SUBSET GuildPlayers
        <5>1. copy[s][g] \in SUBSET GuildPlayers
          <6>1. copy \in [GuildServers -> [Guilds -> Copies]]
            BY CopiesType DEF GuildTypeOK
          <6>2. copy[s][g] \in Copies
            BY <2>1, <6>1
          <6> QED BY <3>2, <6>2, CopiesType
        <5>2. \A x \in copy[s][g] : x \in GuildPlayers
          BY <5>1
        <5> QED BY <5>2
      <4>2. copy' = [copy EXCEPT ![s][g] = copy[s][g] \ {m.player}]
        BY <2>1, <3>2 DEF GuildTypeOK
      <4>3. copy \in [GuildServers -> [Guilds -> Copies]] /\ copy[s][g] \ {m.player} \in Copies
        BY <4>1, CopiesType DEF GuildTypeOK
      <4>4. copy' \in [GuildServers -> [Guilds -> Copies]]
        BY <2>1, <4>2, <4>3, EntrySet
      <4> QED BY <4>4, CopiesType
    <3> QED BY <1>10, <3>1, <3>2 DEF RecvLeaved, m, g
  <2>3. linked' \in [GuildServers -> [Guilds -> SUBSET GuildPlayers]]
    BY <1>10, <2>1 DEF RecvLeaved, GuildTypeOK, m, g
  <2>4. guildId' \in [GuildPlayers -> Guilds \cup {NoGuild}]
    BY <1>4, <1>10 DEF RecvLeaved
  <2> QED BY <1>2, <1>10, <2>2, <2>3, <2>4 DEF RecvLeaved, GuildTypeOK, LinksOK, record, counts
<1>11. CASE RecvMemberShort(s)
  <2>1. g \in Guilds
    BY <1>3, <1>11 DEF RecvMemberShort, First, m
  <2>2. guildId' \in [GuildPlayers -> Guilds \cup {NoGuild}]
    BY <1>4, <1>11 DEF RecvMemberShort
  <2>3. linked' \in [GuildServers -> [Guilds -> SUBSET GuildPlayers]]
    <3> DEFINE L == Linked(s, g, copy[s][g])
    <3>1. L \in SUBSET GuildPlayers
      BY DEF Linked, Online
    <3>2. linked' = [linked EXCEPT ![s][g] = L] \/ linked' = linked
      BY <1>11 DEF RecvMemberShort, m, g
    <3> HIDE DEF L
    <3>3. linked \in [GuildServers -> [Guilds -> SUBSET GuildPlayers]]
      BY DEF GuildTypeOK
    <3> QED BY <2>1, <3>1, <3>2, <3>3, EntrySet
  <2> QED BY <1>2, <1>11, <2>2, <2>3 DEF RecvMemberShort, GuildTypeOK, LinksOK, record, counts
<1>12. CASE RecvBroken(s)
  <2>1. g \in Guilds
    BY <1>3, <1>12 DEF RecvBroken, First, m
  <2>2. guildId' \in [GuildPlayers -> Guilds \cup {NoGuild}]
    BY <1>4, <1>12 DEF RecvBroken
  <2>3. /\ copy' \in [GuildServers -> [Guilds -> (SUBSET GuildPlayers) \cup {NoCopy}]]
        /\ linked' \in [GuildServers -> [Guilds -> SUBSET GuildPlayers]]
    <3>1. copy' = [copy EXCEPT ![s][g] = NoCopy] /\ linked' = [linked EXCEPT ![s][g] = {}]
      BY <1>12 DEF RecvBroken, m, g
    <3>2. copy' \in [GuildServers -> [Guilds -> (SUBSET GuildPlayers) \cup {NoCopy}]]
      <4>1. copy \in [GuildServers -> [Guilds -> Copies]] /\ NoCopy \in Copies
        BY CopiesType DEF GuildTypeOK
      <4>2. copy' \in [GuildServers -> [Guilds -> Copies]]
        BY <2>1, <3>1, <4>1, EntrySet
      <4> QED BY <4>2, CopiesType
    <3>3. linked' \in [GuildServers -> [Guilds -> SUBSET GuildPlayers]]
      BY <2>1, <3>1 DEF GuildTypeOK
    <3> QED BY <3>2, <3>3
  <2> QED BY <1>2, <1>12, <2>2, <2>3 DEF RecvBroken, GuildTypeOK, LinksOK, record, counts
<1> QED BY <1>5, <1>6, <1>7, <1>8, <1>9, <1>10, <1>11, <1>12

LEMMA GuildTypesStep ==
    ASSUME GuildTypes, [GuildNext]_guildVars
    PROVE  GuildTypes'
<1>1. CASE UNCHANGED guildVars
  BY <1>1 DEF guildVars, record, GuildTypes, GuildTypeOK, LinksOK
<1>2. CASE GuildNext
  <2>1. CASE \E p \in GuildPlayers, q \in GuildPlayers :
               Create(p) \/ Invite(p, q) \/ Decline(p) \/ Accept(p) \/ Quit(p, q) \/ Break(p)
    BY <2>1, RequestTypes
  <2>2. CASE \E p \in GuildPlayers, s \in GuildServers :
               Login(p, s) \/ MapLoaded(p) \/ ChangeMap(p) \/ Logout(p)
    BY <2>2, SessionTypes
  <2>3. CASE \E s \in GuildServers :
               \/ RecvCreate(s) \/ RecvInfoReq(s) \/ RecvAdd(s) \/ RecvLeave(s) \/ RecvBreak(s)
               \/ RecvShort(s) \/ RecvSaved(s)
    BY <2>3, CharTypes
  <2>4. CASE \E s \in GuildServers :
               \/ RecvAuthok(s) \/ RecvCreated(s) \/ RecvGuildInfo(s) \/ RecvNoinfo(s)
               \/ RecvAdded(s) \/ RecvLeaved(s) \/ RecvMemberShort(s) \/ RecvBroken(s)
    BY <2>4, MapTypes
  <2> QED BY <1>2, <2>1, <2>2, <2>3, <2>4, GuildAssumption, Zenon DEF GuildNext
<1> QED BY <1>1, <1>2

LEMMA GuildTypesInit ==
    ASSUME GuildInit
    PROVE  GuildTypes
<1>1. asks \in [GuildServers -> Seq(Ask)] /\ notices \in [GuildServers -> Seq(Notice)]
  BY EmptySeq DEF GuildInit
<1>2. /\ roster \in [Guilds -> SUBSET GuildPlayers] /\ given \subseteq Guilds
      /\ copy \in [GuildServers -> [Guilds -> (SUBSET GuildPlayers) \cup {NoCopy}]]
      /\ linked \in [GuildServers -> [Guilds -> SUBSET GuildPlayers]]
  <2>1. {Master} \in SUBSET GuildPlayers /\ {} \in SUBSET GuildPlayers
    BY GuildAssumption
  <2>2. {Master} \in Copies /\ NoCopy \in Copies
    BY <2>1, CopiesType
  <2> HIDE DEF Copies, NoCopy
  <2>3. copy \in [GuildServers -> [Guilds -> Copies]]
    BY <2>2 DEF GuildInit
  <2>4. roster \in [Guilds -> SUBSET GuildPlayers] /\ given \subseteq Guilds
    BY <2>1, GuildAssumption DEF GuildInit
  <2>5. linked \in [GuildServers -> [Guilds -> SUBSET GuildPlayers]]
    BY <2>1 DEF GuildInit
  <2> QED BY <2>3, <2>4, <2>5, CopiesType
<1>3. /\ stage \in [GuildPlayers -> {"off", "coming", "auth", "in", "leaving"}]
      /\ server \in [GuildPlayers -> GuildServers]
      /\ guildId \in [GuildPlayers -> Guilds \cup {NoGuild}]
      /\ sended \subseteq GuildPlayers
  BY GuildAssumption DEF GuildInit
<1>4. /\ invite \in [GuildPlayers -> Guilds \cup {NoGuild}]
      /\ inviter \in [GuildPlayers -> GuildPlayers \cup {NoPlayer}]
      /\ dialog \in [GuildPlayers -> Guilds \cup {NoGuild}]
      /\ invites \in 0..MaxInvites /\ trips \in 0..MaxTrips /\ quits \in 0..MaxQuits
  BY GuildAssumption DEF GuildInit
<1> QED BY <1>1, <1>2, <1>3, <1>4 DEF GuildTypes, GuildTypeOK, LinksOK

-----------------------------------------------------------------------------
(* What is on its way to a map server will bring its copy up to date       *)

About(g, m) == m.type \in {"info", "leaved", "broken"} /\ m.guild = g

\* After m a copy of g is r, or there is none.
Settles(m, g, r) ==
    /\ m.type \in {"info", "broken"} /\ m.guild = g
    /\ m.type = "info" => m.members = r

SaysNothing(q, g) == \A i \in 1..Len(q) : ~About(g, q[i])

WillAgree(q, c, g, r) ==
    \/ c \in {NoCopy, r} /\ SaysNothing(q, g)
    \/ \E i \in 1..Len(q) : /\ Settles(q[i], g, r)
                            /\ \A j \in 1..Len(q) : j > i => ~About(g, q[j])

Agreeing ==
    \A s \in GuildServers, g \in Guilds : WillAgree(notices[s], copy[s][g], g, roster[g])

LEMMA GrowQuiet ==
    ASSUME NEW q \in Seq(Notice), NEW k \in Seq(Notice), NEW c, NEW g, NEW r,
           WillAgree(q, c, g, r), SaysNothing(k, g)
    PROVE  WillAgree(q \o k, c, g, r)
<1>1. /\ Len(q) \in Nat /\ Len(k) \in Nat /\ Len(q \o k) = Len(q) + Len(k)
      /\ \A i \in 1..(Len(q) + Len(k)) :
            (q \o k)[i] = IF i <= Len(q) THEN q[i] ELSE k[i - Len(q)]
  BY ConcatProperties, LenProperties
<1>2. \A i \in 1..Len(q \o k) : \/ i \in 1..Len(q) /\ (q \o k)[i] = q[i]
                                \/ i > Len(q) /\ ~About(g, (q \o k)[i])
  <2>1. TAKE i \in 1..Len(q \o k)
  <2>2. CASE i <= Len(q)
    BY <1>1, <2>2
  <2>3. CASE i > Len(q)
    <3>1. i - Len(q) \in 1..Len(k) /\ (q \o k)[i] = k[i - Len(q)]
      BY <1>1, <2>3
    <3> QED BY <2>3, <3>1 DEF SaysNothing
  <2> QED BY <1>1, <2>2, <2>3
<1>3. \A i \in 1..Len(q) : i \in 1..Len(q \o k) /\ (q \o k)[i] = q[i]
  BY <1>1
<1>4. CASE c \in {NoCopy, r} /\ SaysNothing(q, g)
  <2>1. SaysNothing(q \o k, g)
    BY <1>2, <1>4 DEF SaysNothing
  <2> QED BY <1>4, <2>1 DEF WillAgree
<1>5. CASE \E i \in 1..Len(q) : /\ Settles(q[i], g, r)
                                /\ \A j \in 1..Len(q) : j > i => ~About(g, q[j])
  <2>1. PICK i \in 1..Len(q) : /\ Settles(q[i], g, r)
                               /\ \A j \in 1..Len(q) : j > i => ~About(g, q[j])
    BY <1>5
  <2>2. \A j \in 1..Len(q \o k) : j > i => ~About(g, (q \o k)[j])
    BY <1>2, <2>1
  <2>3. i \in 1..Len(q \o k) /\ Settles((q \o k)[i], g, r)
    BY <1>3, <2>1
  <2> QED BY <2>2, <2>3 DEF WillAgree
<1> QED BY <1>4, <1>5 DEF WillAgree

LEMMA GrowSettled ==
    ASSUME NEW q \in Seq(Notice), NEW k \in Seq(Notice), NEW c, NEW g, NEW r,
           k # <<>>, Settles(k[Len(k)], g, r)
    PROVE  WillAgree(q \o k, c, g, r)
<1>1. /\ Len(q) \in Nat /\ Len(k) \in Nat \ {0} /\ Len(q \o k) = Len(q) + Len(k)
      /\ \A i \in 1..(Len(q) + Len(k)) :
            (q \o k)[i] = IF i <= Len(q) THEN q[i] ELSE k[i - Len(q)]
  BY ConcatProperties, LenProperties, EmptySeq
<1>2. Len(q \o k) \in 1..Len(q \o k) /\ (q \o k)[Len(q \o k)] = k[Len(k)]
  BY <1>1
<1>3. \A j \in 1..Len(q \o k) : ~(j > Len(q \o k))
  BY <1>1
<1> QED BY <1>2, <1>3 DEF WillAgree

\* Once it is read, a notice about another guild has changed nothing; one about
\* this guild has made the copy what it says, or another such will follow.
LEMMA ReadOn ==
    ASSUME NEW q \in Seq(Notice), q # <<>>, NEW c, NEW d, NEW g, NEW r, WillAgree(q, c, g, r),
           ~About(g, Head(q)) => d = c,
           About(g, Head(q)) /\ Head(q).type = "info" => d = Head(q).members,
           About(g, Head(q)) /\ Head(q).type = "broken" => d = NoCopy
    PROVE  WillAgree(Tail(q), d, g, r)
<1>1. /\ Len(q) \in Nat \ {0} /\ Len(Tail(q)) = Len(q) - 1 /\ Head(q) = q[1]
      /\ \A i \in 1..Len(Tail(q)) : Tail(q)[i] = q[i + 1]
  BY HeadTailProperties, EmptySeq
<1>2. \A i \in 1..Len(Tail(q)) : i + 1 \in 1..Len(q)
  BY <1>1
<1>3. CASE c \in {NoCopy, r} /\ SaysNothing(q, g)
  <2>1. ~About(g, Head(q))
    BY <1>1, <1>3 DEF SaysNothing
  <2>2. SaysNothing(Tail(q), g)
    BY <1>1, <1>2, <1>3 DEF SaysNothing
  <2> QED BY <1>3, <2>1, <2>2 DEF WillAgree
<1>4. CASE \E i \in 1..Len(q) : /\ Settles(q[i], g, r)
                                /\ \A j \in 1..Len(q) : j > i => ~About(g, q[j])
  <2>1. PICK i \in 1..Len(q) : /\ Settles(q[i], g, r)
                               /\ \A j \in 1..Len(q) : j > i => ~About(g, q[j])
    BY <1>4
  <2>2. CASE i = 1
    <3>1. SaysNothing(Tail(q), g)
      <4>1. \A j \in 1..Len(Tail(q)) : j + 1 > i
        BY <2>2
      <4> QED BY <1>1, <1>2, <2>1, <4>1 DEF SaysNothing
    <3>2. d \in {NoCopy, r}
      BY <1>1, <2>1, <2>2 DEF Settles, About
    <3> QED BY <3>1, <3>2 DEF WillAgree
  <2>3. CASE i # 1
    <3>1. i - 1 \in 1..Len(Tail(q)) /\ (i - 1) + 1 = i
      BY <1>1, <2>3
    <3>2. Settles(Tail(q)[i - 1], g, r)
      BY <1>1, <2>1, <3>1
    <3>3. \A j \in 1..Len(Tail(q)) : j > i - 1 => j + 1 > i
      BY <1>1, <3>1
    <3>4. \A j \in 1..Len(Tail(q)) : j > i - 1 => ~About(g, Tail(q)[j])
      BY <1>1, <1>2, <2>1, <3>3
    <3> QED BY <3>1, <3>2, <3>4 DEF WillAgree
  <2> QED BY <2>2, <2>3
<1> QED BY <1>3, <1>4 DEF WillAgree

-----------------------------------------------------------------------------
(* What the steps have in common: the char server posts notices about one  *)
(* guild, a map server reads one                                           *)

\* By this notice a map server takes p for a member of g.
Names(m, g, p) ==
    /\ m.guild = g
    /\ \/ m.type = "info" /\ p \in m.members
       \/ m.type = "added" /\ m.player = p /\ m.flag = 0
       \/ m.type = "created" /\ m.player = p

\* By this one it will not any more.
Tells(m, g, p) == m.type = "leaved" /\ m.guild = g /\ m.player = p

\* A notice that only a guild that has been founded is in.
Founded(m) == m.type \in {"info", "created", "broken"} \/ (m.type = "added" /\ m.flag = 0)

\* A notice about a guild of these members.
Fits(m, r) ==
    /\ m.type # "authok"
    /\ \A p \in GuildPlayers : Names(m, m.guild, p) => p \in r
    /\ m.type = "broken" => r = {}

\* The members of h may change, and k is what the servers are told of it.
Posting(k, h) ==
    /\ k \in [GuildServers -> Seq(Notice)]
    /\ notices' = [s \in GuildServers |-> notices[s] \o k[s]]
    /\ \A g \in Guilds : g # h => roster'[g] = roster[g]
    /\ \A s \in GuildServers : \A i \in 1..Len(k[s]) :
          /\ k[s][i].guild = h /\ Fits(k[s][i], roster'[h])
          /\ Founded(k[s][i]) => h \in given'
    /\ \A s \in GuildServers :
          \/ roster'[h] = roster[h] /\ SaysNothing(k[s], h)
          \/ k[s] # <<>> /\ Settles(k[s][Len(k[s])], h, roster'[h])
    /\ \A p \in roster[h] \ roster'[h] : roster'[h] # {} =>
          \A s \in GuildServers : \E i \in 1..Len(k[s]) : Tells(k[s][i], h, p)
    /\ given \subseteq given' /\ given' \subseteq given \cup {h}
    /\ roster'[h] # roster[h] => h \in given'
    /\ roster[h] = {} /\ roster'[h] # {} => h \notin given

\* A server reads a notice and does to its copy what the notice says.
Reading(s) ==
    LET m == Head(notices[s]) IN
    /\ notices[s] # <<>> /\ Read(s)
    /\ UNCHANGED record
    /\ \A t \in GuildServers, g \in Guilds : t # s \/ ~About(g, m) => copy'[t][g] = copy[t][g]
    /\ \A g \in Guilds : About(g, m) =>
          /\ m.type = "info" => copy'[s][g] = m.members
          /\ m.type = "broken" => copy'[s][g] = NoCopy
          /\ m.type = "leaved" => copy'[s][g] = IF copy[s][g] = NoCopy THEN NoCopy
                                                ELSE copy[s][g] \ {m.player}

LEMMA Reads ==
    ASSUME GuildTypes, NEW s \in GuildServers,
           \/ RecvAuthok(s) \/ RecvCreated(s) \/ RecvGuildInfo(s) \/ RecvNoinfo(s)
           \/ RecvAdded(s) \/ RecvLeaved(s) \/ RecvMemberShort(s) \/ RecvBroken(s)
    PROVE  Reading(s)
<1> DEFINE m == Head(notices[s])
           g == m.guild
<1>1. notices[s] # <<>> /\ Read(s)
  BY Zenon DEF RecvAuthok, RecvCreated, RecvGuildInfo, RecvNoinfo, RecvAdded, RecvLeaved,
               RecvMemberShort, RecvBroken, First
<1>2. m \in Notice
  BY <1>1, ReadType DEF GuildTypes
<1>3. /\ m.type \in {"leaved", "broken", "info"} => g \in Guilds
      /\ m.type = "info" => m.members \in SUBSET GuildPlayers
  BY <1>2, NoticeParts
<1>4. copy \in [GuildServers -> [Guilds -> Copies]]
  BY CopiesType DEF GuildTypes, GuildTypeOK
<1> HIDE DEF m, g
<1> USE DEF About
<1>5. CASE RecvAuthok(s) \/ RecvCreated(s) \/ RecvNoinfo(s) \/ RecvAdded(s) \/ RecvMemberShort(s)
  <2>1. RecvAuthok(s) => UNCHANGED <<record, copy>> /\ m.type = "authok"
    BY DEF RecvAuthok, First, m
  <2>2. RecvCreated(s) => UNCHANGED <<record, copy>> /\ m.type = "created"
    BY DEF RecvCreated, First, m
  <2>3. RecvNoinfo(s) => UNCHANGED <<record, copy>> /\ m.type = "noinfo"
    BY DEF RecvNoinfo, First, m
  <2>4. RecvAdded(s) => UNCHANGED <<record, copy>> /\ m.type = "added"
    BY DEF RecvAdded, First, m
  <2>5. RecvMemberShort(s) => UNCHANGED <<record, copy>> /\ m.type = "short"
    BY DEF RecvMemberShort, First, m
  <2>6. UNCHANGED <<record, copy>> /\ m.type \notin {"info", "leaved", "broken"}
    BY <1>5, <2>1, <2>2, <2>3, <2>4, <2>5
  <2> QED BY <1>1, <2>6 DEF Reading, m
<1>6. CASE RecvGuildInfo(s)
  <2>1. UNCHANGED record /\ m.type = "info" /\ copy' = [copy EXCEPT ![s][g] = m.members]
    BY <1>6 DEF RecvGuildInfo, First, m, g
  <2>2. m.members \in Copies
    BY <1>3, <2>1, CopiesType
  <2>3. /\ copy'[s][g] = m.members
        /\ \A t \in GuildServers, h \in Guilds : t # s \/ h # g => copy'[t][h] = copy[t][h]
    BY <1>3, <1>4, <2>1, <2>2, EntrySet
  <2> QED BY <1>1, <2>1, <2>3 DEF Reading, m, g
<1>7. CASE RecvLeaved(s)
  <2>1. /\ UNCHANGED record /\ m.type = "leaved"
        /\ copy' = IF copy[s][g] = NoCopy THEN copy ELSE [copy EXCEPT ![s][g] = @ \ {m.player}]
    BY <1>7 DEF RecvLeaved, First, m, g
  <2>2. CASE copy[s][g] = NoCopy
    BY <1>1, <2>1, <2>2 DEF Reading, m, g
  <2>3. CASE copy[s][g] # NoCopy
    <3> DEFINE c == copy[s][g] \ {m.player}
    <3>1. copy' = [copy EXCEPT ![s][g] = c]
      BY <1>3, <1>4, <2>1, <2>3
    <3>2. c \in Copies
      <4>1. copy[s][g] \in Copies
        BY <1>3, <1>4, <2>1
      <4>2. copy[s][g] \in SUBSET GuildPlayers
        BY <2>3, <4>1, CopiesType
      <4>3. c \in SUBSET GuildPlayers
        BY <4>2
      <4> QED BY <4>3, CopiesType
    <3> HIDE DEF c
    <3>3. /\ copy'[s][g] = c
          /\ \A t \in GuildServers, h \in Guilds : t # s \/ h # g => copy'[t][h] = copy[t][h]
      BY <1>3, <1>4, <2>1, <3>1, <3>2, EntrySet
    <3> QED BY <1>1, <2>1, <2>3, <3>3 DEF Reading, m, g, c
  <2> QED BY <2>2, <2>3
<1>8. CASE RecvBroken(s)
  <2>1. UNCHANGED record /\ m.type = "broken" /\ copy' = [copy EXCEPT ![s][g] = NoCopy]
    BY <1>8 DEF RecvBroken, First, m, g
  <2>2. NoCopy \in Copies
    BY CopiesType
  <2>3. /\ copy'[s][g] = NoCopy
        /\ \A t \in GuildServers, h \in Guilds : t # s \/ h # g => copy'[t][h] = copy[t][h]
    BY <1>3, <1>4, <2>1, <2>2, EntrySet
  <2> QED BY <1>1, <2>1, <2>3 DEF Reading, m, g
<1> QED BY <1>5, <1>6, <1>7, <1>8


LEMMA Associative ==
    \A u \in Seq(Notice), v \in Seq(Notice), w \in Seq(Notice) : (u \o v) \o w = u \o (v \o w)
  BY ConcatAssociative

LEMMA Pair ==
    ASSUME NEW S, NEW a \in S, NEW b \in S
    PROVE  <<a>> \o <<b>> = <<a, b>>
<1>1. <<a>> \in Seq(S) /\ <<b>> \in Seq(S) /\ <<a, b>> \in Seq(S)
  OBVIOUS
<1>2. /\ <<a>> \o <<b>> \in Seq(S) /\ Len(<<a>> \o <<b>>) = 2
      /\ (<<a>> \o <<b>>)[1] = a /\ (<<a>> \o <<b>>)[2] = b
  BY <1>1, ConcatProperties
<1>3. \A i \in 1..2 : (<<a>> \o <<b>>)[i] = <<a, b>>[i]
  BY <1>2
<1> QED BY <1>1, <1>2, <1>3, SeqEqual

LEMMA SentTo ==
    ASSUME LinksOK, NEW t \in GuildServers, NEW first \in Seq(Notice), NEW msgs \in Seq(Notice),
           SendTo(t, first, msgs)
    PROVE  /\ first \o msgs \in Seq(Notice)
           /\ notices' = [s \in GuildServers |->
                            notices[s] \o (IF s = t THEN first \o msgs ELSE msgs)]
<1>1. first \o msgs \in Seq(Notice)
  BY ConcatProperties
<1>2. ASSUME NEW s \in GuildServers
      PROVE  notices[s] \o (IF s = t THEN first ELSE <<>>) \o msgs
                = notices[s] \o (IF s = t THEN first \o msgs ELSE msgs)
  <2>1. notices[s] \in Seq(Notice)
    BY DEF LinksOK
  <2>2. CASE s = t
    <3>1. (notices[s] \o first) \o msgs = notices[s] \o (first \o msgs)
      BY Associative, <2>1, Zenon
    <3> QED BY <2>2, <3>1
  <2>3. CASE s # t
    <3>1. notices[s] \o <<>> = notices[s]
      BY <2>1, ConcatEmptySeq
    <3> QED BY <2>3, <3>1
  <2> QED BY <2>2, <2>3
<1> QED BY <1>1, <1>2 DEF SendTo

LEMMA SentAll ==
    ASSUME NEW msgs \in Seq(Notice), SendAll(msgs), NEW k, k = [s \in GuildServers |-> msgs]
    PROVE  /\ k \in [GuildServers -> Seq(Notice)]
           /\ notices' = [s \in GuildServers |-> notices[s] \o k[s]]
  BY DEF SendAll

\* A posting that changes nobody's membership.
LEMMA PostsWord ==
    ASSUME UNCHANGED record, NEW h \in Guilds, NEW k \in [GuildServers -> Seq(Notice)],
           notices' = [s \in GuildServers |-> notices[s] \o k[s]],
           \A s \in GuildServers :
              \/ k[s] = <<>>
              \/ /\ Len(k[s]) = 1 /\ k[s][1].guild = h
                 /\ \/ k[s][1].type \in {"short", "noinfo"}
                    \/ k[s][1].type = "added" /\ k[s][1].flag = 1
                    \/ h \in given /\ roster[h] # {} /\ k[s][1] = Info(h, roster[h])
    PROVE  Posting(k, h)
<1>1. roster' = roster /\ given' = given
  BY DEF record
<1>2. ASSUME NEW s \in GuildServers
      PROVE  /\ \A i \in 1..Len(k[s]) : /\ k[s][i].guild = h /\ Fits(k[s][i], roster[h])
                                        /\ Founded(k[s][i]) => h \in given
             /\ SaysNothing(k[s], h) \/ (k[s] # <<>> /\ Settles(k[s][Len(k[s])], h, roster[h]))
  <2>1. CASE k[s] = <<>>
    BY <2>1 DEF SaysNothing
  <2>2. CASE /\ Len(k[s]) = 1 /\ k[s][1].guild = h
             /\ \/ k[s][1].type \in {"short", "noinfo"}
                \/ k[s][1].type = "added" /\ k[s][1].flag = 1
    BY <2>2 DEF SaysNothing, About, Fits, Founded, Names
  <2>3. CASE Len(k[s]) = 1 /\ h \in given /\ k[s][1] = Info(h, roster[h])
    <3>1. k[s] # <<>>
      BY <2>3
    <3> QED BY <2>3, <3>1 DEF Settles, Fits, Founded, Names, Info
  <2> QED BY <1>2, <2>1, <2>2, <2>3
<1> QED BY <1>1, <1>2 DEF Posting

LEMMA NothingPosted ==
    ASSUME LinksOK, UNCHANGED <<record, notices>>, NEW h \in Guilds
    PROVE  \E k : Posting(k, h)
<1> DEFINE k == [s \in GuildServers |-> <<>>]
<1>1. k \in [GuildServers -> Seq(Notice)]
  BY EmptySeq
<1>2. notices' = [s \in GuildServers |-> notices[s] \o k[s]]
  <2>1. \A s \in GuildServers : notices[s] \o <<>> = notices[s]
    BY ConcatEmptySeq DEF LinksOK
  <2> QED BY <2>1 DEF LinksOK
<1>3. \A s \in GuildServers : k[s] = <<>>
  OBVIOUS
<1> HIDE DEF k
<1>4. Posting(k, h)
  BY <1>1, <1>2, <1>3, PostsWord
<1> QED BY <1>4

\* A posting that ends with the new record.
LEMMA PostsRecord ==
    ASSUME NEW h \in Guilds, NEW k \in [GuildServers -> Seq(Notice)],
           notices' = [s \in GuildServers |-> notices[s] \o k[s]],
           \A g \in Guilds : g # h => roster'[g] = roster[g],
           h \in given', given \subseteq given', given' \subseteq given \cup {h},
           roster[h] = {} /\ roster'[h] # {} => h \notin given,
           NEW a, NEW b,
           \A s \in GuildServers : k[s] \in {<<a, b>>, <<b>>},
           a.guild = h, Fits(a, roster'[h]),
           Settles(b, h, roster'[h]), Fits(b, roster'[h]),
           \A p \in roster[h] \ roster'[h] : roster'[h] # {} =>
              Tells(a, h, p) /\ \A s \in GuildServers : k[s] = <<a, b>>
    PROVE  Posting(k, h)
<1>1. ASSUME NEW s \in GuildServers
      PROVE  /\ \A i \in 1..Len(k[s]) : k[s][i] \in {a, b}
             /\ k[s] # <<>> /\ k[s][Len(k[s])] = b
             /\ k[s] = <<a, b>> => 1 \in 1..Len(k[s]) /\ k[s][1] = a
  <2>1. CASE k[s] = <<a, b>>
    BY <2>1
  <2>2. CASE k[s] = <<b>>
    BY <2>2
  <2> QED BY <2>1, <2>2
<1>2. b.guild = h
  BY DEF Settles
<1>3. \A s \in GuildServers : \A i \in 1..Len(k[s]) :
          k[s][i].guild = h /\ Fits(k[s][i], roster'[h])
  BY <1>1, <1>2
<1>4. \A p \in roster[h] \ roster'[h] : roster'[h] # {} =>
          \A s \in GuildServers : \E i \in 1..Len(k[s]) : Tells(k[s][i], h, p)
  BY <1>1
<1>5. \A s \in GuildServers : k[s] # <<>> /\ Settles(k[s][Len(k[s])], h, roster'[h])
  BY <1>1
<1> QED BY <1>3, <1>4, <1>5 DEF Posting


\* No guild has members before it is founded.
RosterGiven == \A g \in Guilds : roster[g] # {} => g \in given

LEMMA PostsCreate ==
    ASSUME GuildTypes, RosterGiven, NEW s \in GuildServers, RecvCreate(s)
    PROVE  \E h \in Guilds : \E k : Posting(k, h)
<1> DEFINE p == Head(asks[s]).player
<1>1. p \in GuildPlayers
  <2>1. Head(asks[s]) \in Ask /\ Head(asks[s]).type = "create"
    BY TookType DEF RecvCreate, Next1, GuildTypes
  <2> QED BY <2>1, AskParts
<1>2. PICK h \in Guilds \ given :
        /\ given' = given \cup {h}
        /\ roster' = [roster EXCEPT ![h] = {p}]
        /\ SendTo(s, <<[type |-> "created", guild |-> h, player |-> p]>>, <<Info(h, {p})>>)
  BY DEF RecvCreate
<1> DEFINE a == [type |-> "created", guild |-> h, player |-> p]
           b == Info(h, {p})
           k == [t \in GuildServers |-> IF t = s THEN <<a, b>> ELSE <<b>>]
<1> HIDE DEF p
<1>3. a \in Notice /\ b \in Notice
  BY <1>1, NoticesMade
<1>4. roster'[h] = {p} /\ \A g \in Guilds : g # h => roster'[g] = roster[g]
  BY <1>2 DEF GuildTypes, GuildTypeOK
<1>5. a.guild = h /\ Fits(a, {p}) /\ Fits(b, {p}) /\ Settles(b, h, {p})
  BY DEF Fits, Names, Settles, Info
<1>6. SendTo(s, <<a>>, <<b>>)
  BY <1>2
<1> HIDE DEF a, b
<1>7. <<a>> \in Seq(Notice) /\ <<b>> \in Seq(Notice)
  BY <1>3, ShortSeqs
<1>8. /\ <<a, b>> \in Seq(Notice)
      /\ notices' = [t \in GuildServers |-> notices[t] \o (IF t = s THEN <<a, b>> ELSE <<b>>)]
  <2>1. <<a, b>> = <<a>> \o <<b>>
    BY <1>3, Pair
  <2>2. /\ <<a>> \o <<b>> \in Seq(Notice)
        /\ notices' = [t \in GuildServers |-> notices[t] \o (IF t = s THEN <<a>> \o <<b>> ELSE <<b>>)]
    BY <1>6, <1>7, SentTo, Zenon DEF GuildTypes
  <2> QED BY <2>1, <2>2, Zenon
<1>9. \A t \in GuildServers : k[t] \in {<<a, b>>, <<b>>}
  OBVIOUS
<1>10. k \in [GuildServers -> Seq(Notice)] /\ notices' = [t \in GuildServers |-> notices[t] \o k[t]]
  BY <1>7, <1>8
<1> HIDE DEF k
<1>11. roster[h] = {}
  BY <1>2 DEF RosterGiven
<1>12. Posting(k, h)
  BY <1>2, <1>4, <1>5, <1>9, <1>10, <1>11, PostsRecord
<1> QED BY <1>12

LEMMA PostsAdd ==
    ASSUME GuildTypes, RosterGiven, NEW s \in GuildServers, RecvAdd(s)
    PROVE  \E h \in Guilds : \E k : Posting(k, h)
<1> DEFINE m == Head(asks[s])
           h == m.guild
           p == m.player
           added(f) == [type |-> "added", guild |-> h, player |-> p, flag |-> f]
<1>1. h \in Guilds /\ p \in GuildPlayers
  <2>1. m \in Ask /\ m.type = "add"
    BY TookType DEF RecvAdd, Next1, GuildTypes
  <2> QED BY <2>1, AskParts
<1>2. /\ UNCHANGED given
      /\ \/ /\ roster[h] # {} /\ roster' = [roster EXCEPT ![h] = @ \cup {p}]
            /\ SendTo(s, <<added(0)>>, <<Info(h, roster'[h])>>)
         \/ SendTo(s, <<added(1)>>, <<>>) /\ UNCHANGED roster
  BY DEF RecvAdd
<1> HIDE DEF h, p
<1>3. CASE /\ roster[h] # {} /\ roster' = [roster EXCEPT ![h] = @ \cup {p}]
           /\ SendTo(s, <<added(0)>>, <<Info(h, roster'[h])>>)
  <2> DEFINE r == roster[h] \cup {p}
             a == added(0)
             b == Info(h, r)
             k == [t \in GuildServers |-> IF t = s THEN <<a, b>> ELSE <<b>>]
  <2>1. roster'[h] = r /\ r \in SUBSET GuildPlayers /\ \A g \in Guilds : g # h => roster'[g] = roster[g]
    BY <1>1, <1>3 DEF GuildTypes, GuildTypeOK
  <2>2. a \in Notice /\ b \in Notice
    BY <1>1, <2>1, NoticesMade
  <2>3. a.guild = h /\ Fits(a, r) /\ Fits(b, r) /\ Settles(b, h, r) /\ h \in given /\ roster[h] \subseteq r
    BY <1>1, <1>3 DEF Fits, Names, Settles, Info, RosterGiven
  <2>4. SendTo(s, <<a>>, <<b>>)
    BY <1>3, <2>1
  <2> HIDE DEF a, b, r
  <2>5. <<a>> \in Seq(Notice) /\ <<b>> \in Seq(Notice)
    BY <2>2, ShortSeqs
  <2>6. /\ <<a, b>> \in Seq(Notice)
        /\ notices' = [t \in GuildServers |-> notices[t] \o (IF t = s THEN <<a, b>> ELSE <<b>>)]
    <3>1. <<a, b>> = <<a>> \o <<b>>
      BY <2>2, Pair
    <3>2. /\ <<a>> \o <<b>> \in Seq(Notice)
          /\ notices' = [t \in GuildServers |-> notices[t] \o (IF t = s THEN <<a>> \o <<b>> ELSE <<b>>)]
      BY <2>4, <2>5, SentTo, Zenon DEF GuildTypes
    <3> QED BY <3>1, <3>2, Zenon
  <2>7. \A t \in GuildServers : k[t] \in {<<a, b>>, <<b>>}
    OBVIOUS
  <2>8. k \in [GuildServers -> Seq(Notice)] /\ notices' = [t \in GuildServers |-> notices[t] \o k[t]]
    BY <2>5, <2>6
  <2> HIDE DEF k
  <2>9. Posting(k, h)
    BY <1>1, <1>2, <1>3, <2>1, <2>3, <2>7, <2>8, PostsRecord
  <2> QED BY <1>1, <2>9
<1>4. CASE SendTo(s, <<added(1)>>, <<>>) /\ UNCHANGED roster
  <2> DEFINE a == added(1)
             k == [t \in GuildServers |-> IF t = s THEN <<a>> ELSE <<>>]
  <2>1. a \in Notice
    BY <1>1, NoticesMade
  <2>2. a.guild = h /\ a.type = "added" /\ a.flag = 1
    OBVIOUS
  <2>3. SendTo(s, <<a>>, <<>>)
    BY <1>4
  <2> HIDE DEF a
  <2>4. <<a>> \in Seq(Notice) /\ <<>> \in Seq(Notice)
    BY <2>1, ShortSeqs
  <2>5. notices' = [t \in GuildServers |-> notices[t] \o (IF t = s THEN <<a>> ELSE <<>>)]
    <3>1. <<a>> \o <<>> = <<a>>
      BY <2>4, ConcatEmptySeq
    <3>2. notices' = [t \in GuildServers |-> notices[t] \o (IF t = s THEN <<a>> \o <<>> ELSE <<>>)]
      BY <2>3, <2>4, SentTo, Zenon DEF GuildTypes
    <3> QED BY <3>1, <3>2, Zenon
  <2>6. \A t \in GuildServers : k[t] = <<>> \/ (Len(k[t]) = 1 /\ k[t][1] = a)
    OBVIOUS
  <2>7. k \in [GuildServers -> Seq(Notice)] /\ notices' = [t \in GuildServers |-> notices[t] \o k[t]]
    BY <2>4, <2>5
  <2> HIDE DEF k
  <2>8. Posting(k, h)
    BY <1>1, <1>2, <1>4, <2>2, <2>6, <2>7, PostsWord DEF record
  <2> QED BY <1>1, <2>8
<1> QED BY <1>2, <1>3, <1>4


LEMMA PostsLeave ==
    ASSUME GuildTypes, RosterGiven, NEW s \in GuildServers, RecvLeave(s)
    PROVE  \E h \in Guilds : \E k : Posting(k, h)
<1> DEFINE m == Head(asks[s])
           h == m.guild
           p == m.player
           r == roster[h] \ {p}
           a == Leaved(h, p)
           b == IF r = {} THEN Broken(h) ELSE Info(h, r)
           k == [t \in GuildServers |-> <<a, b>>]
<1>1. h \in Guilds /\ p \in GuildPlayers
  <2>1. m \in Ask /\ m.type = "leave"
    BY TookType DEF RecvLeave, Next1, GuildTypes
  <2> QED BY <2>1, AskParts
<1>2. /\ UNCHANGED given
      /\ \/ p \in roster[h] /\ roster' = [roster EXCEPT ![h] = r] /\ SendAll(<<a, b>>)
         \/ UNCHANGED <<roster, notices>>
  BY DEF RecvLeave
<1> HIDE DEF h, p
<1>3. CASE p \in roster[h] /\ roster' = [roster EXCEPT ![h] = r] /\ SendAll(<<a, b>>)
  <2>1. roster'[h] = r /\ r \in SUBSET GuildPlayers /\ \A g \in Guilds : g # h => roster'[g] = roster[g]
    BY <1>1, <1>3 DEF GuildTypes, GuildTypeOK
  <2>2. a \in Notice /\ b \in Notice
    BY <1>1, <2>1, NoticesMade
  <2>3. /\ a.guild = h /\ Fits(a, r) /\ Tells(a, h, p)
        /\ Fits(b, r) /\ Settles(b, h, r)
        /\ h \in given /\ roster[h] \ r \subseteq {p}
    BY <1>1, <1>3 DEF Fits, Names, Settles, Info, Leaved, Broken, Tells, RosterGiven
  <2>4. SendAll(<<a, b>>)
    BY <1>3
  <2> HIDE DEF a, b, r
  <2>5. k \in [GuildServers -> Seq(Notice)] /\ notices' = [t \in GuildServers |-> notices[t] \o k[t]]
    BY <2>2, <2>4 DEF SendAll
  <2>6. \A t \in GuildServers : k[t] = <<a, b>>
    OBVIOUS
  <2> HIDE DEF k
  <2>7. \A x \in roster[h] \ roster'[h] : roster'[h] # {} =>
           Tells(a, h, x) /\ \A t \in GuildServers : k[t] = <<a, b>>
    BY <2>1, <2>3, <2>6
  <2>8. /\ h \in given' /\ given \subseteq given' /\ given' \subseteq given \cup {h}
        /\ roster[h] # {}
        /\ \A t \in GuildServers : k[t] \in {<<a, b>>, <<b>>}
    BY <1>2, <1>3, <2>3, <2>6
  <2>9. /\ \A g \in Guilds : g # h => roster'[g] = roster[g]
        /\ Fits(a, roster'[h]) /\ Fits(b, roster'[h]) /\ Settles(b, h, roster'[h]) /\ a.guild = h
    BY <2>1, <2>3
  <2>10. Posting(k, h)
    BY <1>1, <2>5, <2>7, <2>8, <2>9, PostsRecord
  <2> QED BY <1>1, <2>10
<1>4. CASE UNCHANGED <<roster, notices>>
  BY <1>1, <1>2, <1>4, NothingPosted DEF record, GuildTypes
<1> QED BY <1>2, <1>3, <1>4

LEMMA PostsBreak ==
    ASSUME GuildTypes, RosterGiven, NEW s \in GuildServers, RecvBreak(s)
    PROVE  \E h \in Guilds : \E k : Posting(k, h)
<1> DEFINE m == Head(asks[s])
           h == m.guild
           b == Broken(h)
           k == [t \in GuildServers |-> <<b>>]
<1>1. h \in Guilds
  <2>1. m \in Ask /\ m.type = "break"
    BY TookType DEF RecvBreak, Next1, GuildTypes
  <2> QED BY <2>1, AskParts
<1>2. /\ UNCHANGED given
      /\ roster' = [roster EXCEPT ![h] = {}]
      /\ IF roster[h] # {} THEN SendAll(<<b>>) ELSE UNCHANGED notices
  BY DEF RecvBreak
<1> HIDE DEF h
<1>3. roster'[h] = {} /\ \A g \in Guilds : g # h => roster'[g] = roster[g]
  BY <1>1, <1>2 DEF GuildTypes, GuildTypeOK
<1>4. CASE roster[h] # {}
  <2>1. b \in Notice
    BY <1>1 DEF Notice, Broken
  <2>2. b.guild = h /\ Fits(b, {}) /\ Settles(b, h, {}) /\ h \in given
    BY <1>1, <1>4 DEF Fits, Names, Settles, Broken, RosterGiven
  <2>3. SendAll(<<b>>)
    BY <1>2, <1>4
  <2> HIDE DEF b
  <2>4. k \in [GuildServers -> Seq(Notice)] /\ notices' = [t \in GuildServers |-> notices[t] \o k[t]]
    BY <2>1, <2>3 DEF SendAll
  <2>5. \A t \in GuildServers : k[t] \in {<<b, b>>, <<b>>}
    OBVIOUS
  <2> HIDE DEF k
  <2>6. Posting(k, h)
    BY <1>1, <1>2, <1>3, <1>4, <2>2, <2>4, <2>5, PostsRecord
  <2> QED BY <1>1, <2>6
<1>5. CASE roster[h] = {}
  <2>1. roster' = roster
    BY <1>1, <1>2, <1>5 DEF GuildTypes, GuildTypeOK
  <2> QED BY <1>1, <1>2, <1>5, <2>1, NothingPosted DEF record, GuildTypes
<1> QED BY <1>4, <1>5

LEMMA PostsInfo ==
    ASSUME GuildTypes, RosterGiven, NEW s \in GuildServers, RecvInfoReq(s)
    PROVE  \E h \in Guilds : \E k : Posting(k, h)
<1> DEFINE h == Head(asks[s]).guild
           b == IF roster[h] = {} THEN [type |-> "noinfo", guild |-> h] ELSE Info(h, roster[h])
           k == [t \in GuildServers |-> IF t = s THEN <<b>> ELSE <<>>]
<1>1. h \in Guilds
  <2>1. Head(asks[s]) \in Ask /\ Head(asks[s]).type = "infoReq"
    BY TookType DEF RecvInfoReq, Next1, GuildTypes
  <2> QED BY <2>1, AskParts
<1>2. UNCHANGED record /\ notices' = [notices EXCEPT ![s] = Append(@, b)]
  BY DEF RecvInfoReq
<1> HIDE DEF h
<1>3. b \in Notice
  BY <1>1 DEF Notice, Info, GuildTypes, GuildTypeOK
<1>4. b.guild = h /\ (b.type = "noinfo" \/ (h \in given /\ roster[h] # {} /\ b = Info(h, roster[h])))
  BY <1>1 DEF Info, RosterGiven
<1> HIDE DEF b
<1>5. \A t \in GuildServers : notices[t] \in Seq(Notice)
  BY DEF GuildTypes, LinksOK
<1>6. Append(notices[s], b) = notices[s] \o <<b>> /\ \A t \in GuildServers : notices[t] = notices[t] \o <<>>
  BY <1>3, <1>5, AppendIsConcat, ConcatEmptySeq
<1>7. notices' = [t \in GuildServers |-> notices[t] \o k[t]]
  BY <1>2, <1>6 DEF GuildTypes, LinksOK
<1>8. k \in [GuildServers -> Seq(Notice)]
  BY <1>3
<1>9. \A t \in GuildServers : k[t] = <<>> \/ (Len(k[t]) = 1 /\ k[t][1] = b)
  OBVIOUS
<1> HIDE DEF k
<1>10. Posting(k, h)
  BY <1>1, <1>2, <1>4, <1>7, <1>8, <1>9, PostsWord
<1> QED BY <1>1, <1>10

LEMMA PostsShort ==
    ASSUME GuildTypes, NEW s \in GuildServers, RecvShort(s)
    PROVE  \E h \in Guilds : \E k : Posting(k, h)
<1> DEFINE m == Head(asks[s])
           k == [t \in GuildServers |-> <<m>>]
<1>1. m \in Ask /\ m.type = "short"
  BY TookType DEF RecvShort, Next1, GuildTypes
<1>2. m.guild \in Guilds /\ m \in Notice
  BY <1>1, AskParts
<1>3. UNCHANGED record /\ (SendAll(<<m>>) \/ UNCHANGED notices)
  BY DEF RecvShort
<1> HIDE DEF m
<1>4. CASE SendAll(<<m>>)
  <2>1. k \in [GuildServers -> Seq(Notice)] /\ notices' = [t \in GuildServers |-> notices[t] \o k[t]]
    BY <1>2, <1>4 DEF SendAll
  <2>2. \A t \in GuildServers : Len(k[t]) = 1 /\ k[t][1] = m
    OBVIOUS
  <2> HIDE DEF k
  <2>3. Posting(k, m.guild)
    BY <1>1, <1>2, <1>3, <2>1, <2>2, PostsWord
  <2> QED BY <1>2, <2>3
<1>5. CASE UNCHANGED notices
  BY <1>2, <1>3, <1>5, NothingPosted DEF GuildTypes
<1> QED BY <1>3, <1>4, <1>5

LEMMA Posts ==
    ASSUME GuildTypes, RosterGiven, NEW s \in GuildServers,
           \/ RecvCreate(s) \/ RecvInfoReq(s) \/ RecvAdd(s) \/ RecvLeave(s) \/ RecvBreak(s)
           \/ RecvShort(s) \/ RecvSaved(s)
    PROVE  \E h \in Guilds : \E k : Posting(k, h)
<1>1. CASE RecvSaved(s)
  <2>1. UNCHANGED <<record, notices>>
    BY <1>1 DEF RecvSaved
  <2> QED BY <2>1, NothingPosted, GuildAssumption DEF GuildTypes
<1> QED BY <1>1, PostsCreate, PostsInfo, PostsAdd, PostsLeave, PostsBreak, PostsShort


\* What a step does to the record, the copies and the notices.
LEMMA Steps ==
    ASSUME GuildTypes, RosterGiven, [GuildNext]_guildVars
    PROVE  \/ UNCHANGED <<record, copy, notices>>
           \/ \E p \in GuildPlayers, s \in GuildServers : Login(p, s)
           \/ UNCHANGED copy /\ \E h \in Guilds : \E k : Posting(k, h)
           \/ \E s \in GuildServers : Reading(s)
<1>1. CASE UNCHANGED guildVars
  BY <1>1 DEF guildVars
<1>2. CASE \E p \in GuildPlayers, q \in GuildPlayers :
              Create(p) \/ Invite(p, q) \/ Decline(p) \/ Accept(p) \/ Quit(p, q) \/ Break(p)
  <2>1. PICK p \in GuildPlayers, q \in GuildPlayers :
              Create(p) \/ Invite(p, q) \/ Decline(p) \/ Accept(p) \/ Quit(p, q) \/ Break(p)
    BY <1>2
  <2>2. Create(p) \/ Invite(p, q) \/ Decline(p) => UNCHANGED <<record, copy, notices>>
    BY Zenon DEF Create, Invite, Decline
  <2>3. Accept(p) \/ Quit(p, q) \/ Break(p) => UNCHANGED <<record, copy, notices>>
    BY Zenon DEF Accept, Quit, Break
  <2> QED BY <2>1, <2>2, <2>3
<1>3. CASE \E p \in GuildPlayers : MapLoaded(p) \/ ChangeMap(p) \/ Logout(p)
  <2>1. PICK p \in GuildPlayers : MapLoaded(p) \/ ChangeMap(p) \/ Logout(p)
    BY <1>3
  <2>2. UNCHANGED <<record, copy, notices>>
    BY <2>1, Zenon DEF MapLoaded, ChangeMap, Logout
  <2> QED BY <2>2
<1>4. CASE \E s \in GuildServers :
              \/ RecvCreate(s) \/ RecvInfoReq(s) \/ RecvAdd(s) \/ RecvLeave(s) \/ RecvBreak(s)
              \/ RecvShort(s) \/ RecvSaved(s)
  <2>1. PICK s \in GuildServers :
              \/ RecvCreate(s) \/ RecvInfoReq(s) \/ RecvAdd(s) \/ RecvLeave(s) \/ RecvBreak(s)
              \/ RecvShort(s) \/ RecvSaved(s)
    BY <1>4
  <2>2. UNCHANGED copy
    BY <2>1, Zenon DEF RecvCreate, RecvInfoReq, RecvAdd, RecvLeave, RecvBreak, RecvShort, RecvSaved
  <2> QED BY <2>1, <2>2, Posts
<1>5. CASE \E s \in GuildServers :
              \/ RecvAuthok(s) \/ RecvCreated(s) \/ RecvGuildInfo(s) \/ RecvNoinfo(s)
              \/ RecvAdded(s) \/ RecvLeaved(s) \/ RecvMemberShort(s) \/ RecvBroken(s)
  BY <1>5, Reads
<1> QED BY <1>1, <1>2, <1>3, <1>4, <1>5, GuildAssumption, Zenon DEF GuildNext

LEMMA RosterGivenStep ==
    ASSUME GuildTypes, RosterGiven, [GuildNext]_guildVars
    PROVE  RosterGiven'
<1>1. UNCHANGED record => RosterGiven'
  BY DEF record, RosterGiven
<1>2. \A s \in GuildServers : Reading(s) => UNCHANGED record
  BY DEF Reading
<1>3. \A p \in GuildPlayers, s \in GuildServers : Login(p, s) => UNCHANGED record
  BY DEF Login
<1>4. ASSUME NEW h \in Guilds, NEW k, Posting(k, h)
      PROVE  RosterGiven'
  BY <1>4 DEF Posting, RosterGiven
<1> QED BY <1>1, <1>2, <1>3, <1>4, Steps

LEMMA AgreeingStep ==
    ASSUME GuildTypes, RosterGiven, Agreeing, [GuildNext]_guildVars
    PROVE  Agreeing'
<1>1. CASE UNCHANGED <<record, copy, notices>>
  BY <1>1 DEF Agreeing, record
<1>2. CASE \E p \in GuildPlayers, s \in GuildServers : Login(p, s)
  <2>1. PICK p \in GuildPlayers, s \in GuildServers : Login(p, s)
    BY <1>2
  <2> DEFINE n == [type |-> "authok", player |-> p]
  <2>2. n \in Notice /\ n.type = "authok"
    BY DEF Notice
  <2>3. /\ UNCHANGED <<roster, copy>>
        /\ notices' = [notices EXCEPT ![s] = Append(@, n)]
    BY <2>1 DEF Login, record
  <2> HIDE DEF n
  <2>4. \A t \in GuildServers : notices[t] \in Seq(Notice)
    BY DEF GuildTypes, LinksOK
  <2>5. notices'[s] = notices[s] \o <<n>> /\ \A t \in GuildServers : t # s => notices'[t] = notices[t]
    BY <2>2, <2>3, <2>4, AppendIsConcat DEF GuildTypes, LinksOK
  <2>6. <<n>> \in Seq(Notice) /\ \A g \in Guilds : SaysNothing(<<n>>, g)
    BY <2>2 DEF SaysNothing, About
  <2>7. ASSUME NEW g \in Guilds
        PROVE  WillAgree(notices[s] \o <<n>>, copy[s][g], g, roster[g])
    <3>1. WillAgree(notices[s], copy[s][g], g, roster[g])
      BY DEF Agreeing
    <3> QED BY <2>4, <2>6, <3>1, GrowQuiet
  <2> QED BY <2>3, <2>5, <2>7 DEF Agreeing
<1>3. CASE UNCHANGED copy /\ \E h \in Guilds : \E k : Posting(k, h)
  <2>h. PICK h \in Guilds : \E k : Posting(k, h)
    BY <1>3
  <2>1. PICK k : Posting(k, h)
    BY <2>h
  <2>2. SUFFICES ASSUME NEW s \in GuildServers, NEW g \in Guilds
                 PROVE  WillAgree(notices'[s], copy[s][g], g, roster'[g])
    BY <1>3 DEF Agreeing
  <2>3. notices[s] \in Seq(Notice) /\ k[s] \in Seq(Notice) /\ notices'[s] = notices[s] \o k[s]
    BY <2>1 DEF Posting, GuildTypes, LinksOK
  <2>4. WillAgree(notices[s], copy[s][g], g, roster[g])
    BY DEF Agreeing
  <2>5. \/ roster'[g] = roster[g] /\ SaysNothing(k[s], g)
        \/ k[s] # <<>> /\ Settles(k[s][Len(k[s])], g, roster'[g])
    <3>1. CASE g = h
      BY <2>1, <3>1 DEF Posting
    <3>2. CASE g # h
      <4>1. SaysNothing(k[s], g)
        BY <2>1, <3>2 DEF Posting, SaysNothing, About
      <4> QED BY <2>1, <3>2, <4>1 DEF Posting
    <3> QED BY <3>1, <3>2
  <2> QED BY <2>3, <2>4, <2>5, GrowQuiet, GrowSettled
<1>4. CASE \E s \in GuildServers : Reading(s)
  <2>1. PICK s \in GuildServers : Reading(s)
    BY <1>4
  <2>2. notices[s] # <<>> /\ notices[s] \in Seq(Notice) /\ roster' = roster
    BY <2>1 DEF Reading, record, GuildTypes, LinksOK
  <2>3. notices'[s] = Tail(notices[s]) /\ \A t \in GuildServers : t # s => notices'[t] = notices[t]
    BY <2>1 DEF Reading, Read, GuildTypes, LinksOK
  <2>4. \A t \in GuildServers, g \in Guilds : t # s => copy'[t][g] = copy[t][g]
    BY <2>1 DEF Reading
  <2>5. ASSUME NEW g \in Guilds
        PROVE  WillAgree(Tail(notices[s]), copy'[s][g], g, roster[g])
    <3>1. WillAgree(notices[s], copy[s][g], g, roster[g])
      BY DEF Agreeing
    <3> DEFINE m == Head(notices[s])
    <3>2. /\ ~About(g, m) => copy'[s][g] = copy[s][g]
          /\ About(g, m) /\ m.type = "info" => copy'[s][g] = m.members
          /\ About(g, m) /\ m.type = "broken" => copy'[s][g] = NoCopy
      BY <2>1 DEF Reading
    <3> HIDE DEF NoCopy
    <3> QED BY <2>2, <3>1, <3>2, ReadOn
  <2>6. ASSUME NEW t \in GuildServers, NEW g \in Guilds
        PROVE  WillAgree(notices'[t], copy'[t][g], g, roster'[g])
    <3>1. CASE t = s
      BY <2>2, <2>3, <2>5, <3>1
    <3>2. CASE t # s
      BY <2>2, <2>3, <2>4, <3>2 DEF Agreeing
    <3> QED BY <3>1, <3>2
  <2> QED BY <2>6 DEF Agreeing
<1> QED BY <1>1, <1>2, <1>3, <1>4, Steps


-----------------------------------------------------------------------------
(* A guild is heard of only once it is founded                             *)

Unborn ==
    \A g \in Guilds \ given :
        /\ \A p \in GuildPlayers : guildId[p] # g
        /\ \A s \in GuildServers : copy[s][g] = NoCopy
        /\ \A s \in GuildServers : \A i \in 1..Len(notices[s]) :
              Founded(notices[s][i]) => notices[s][i].guild # g

\* A player's guild is the one it had, none, or one that a notice named.
LEMMA GuildIdFrom ==
    ASSUME GuildTypes, [GuildNext]_guildVars, NEW p \in GuildPlayers
    PROVE  \/ guildId'[p] \in {guildId[p], NoGuild}
           \/ \E s \in GuildServers : /\ notices[s] # <<>> /\ Founded(Head(notices[s]))
                                      /\ guildId'[p] = Head(notices[s]).guild
<1>1. \A ps : Outside(ps) => guildId'[p] \in {guildId[p], NoGuild}
  BY DEF Outside
<1>2. CASE UNCHANGED guildVars
  BY <1>2 DEF guildVars
<1>3. CASE \E x \in GuildPlayers, q \in GuildPlayers :
              Create(x) \/ Invite(x, q) \/ Decline(x) \/ Accept(x) \/ Quit(x, q) \/ Break(x)
  <2>1. PICK x \in GuildPlayers, q \in GuildPlayers :
              Create(x) \/ Invite(x, q) \/ Decline(x) \/ Accept(x) \/ Quit(x, q) \/ Break(x)
    BY <1>3
  <2>2. Create(x) \/ Invite(x, q) \/ Decline(x) => UNCHANGED guildId
    BY DEF Create, Invite, Decline, sessions
  <2>3. Accept(x) \/ Quit(x, q) \/ Break(x) => UNCHANGED guildId
    BY DEF Accept, Quit, Break, sessions
  <2> QED BY <2>1, <2>2, <2>3
<1>4. CASE \E x \in GuildPlayers, s \in GuildServers :
              Login(x, s) \/ MapLoaded(x) \/ ChangeMap(x) \/ Logout(x)
  <2>1. PICK x \in GuildPlayers, s \in GuildServers :
              Login(x, s) \/ MapLoaded(x) \/ ChangeMap(x) \/ Logout(x)
    BY <1>4
  <2>2. Login(x, s) \/ ChangeMap(x) \/ Logout(x) => UNCHANGED guildId
    BY DEF Login, ChangeMap, Logout
  <2>3. MapLoaded(x) => guildId'[p] \in {guildId[p], NoGuild}
    BY <1>1 DEF MapLoaded
  <2> QED BY <2>1, <2>2, <2>3
<1>5. CASE \E s \in GuildServers :
              \/ RecvCreate(s) \/ RecvInfoReq(s) \/ RecvAdd(s) \/ RecvLeave(s) \/ RecvBreak(s)
              \/ RecvShort(s) \/ RecvSaved(s)
  <2>1. PICK s \in GuildServers :
              \/ RecvCreate(s) \/ RecvInfoReq(s) \/ RecvAdd(s) \/ RecvLeave(s) \/ RecvBreak(s)
              \/ RecvShort(s) \/ RecvSaved(s)
    BY <1>5
  <2>2. RecvCreate(s) => UNCHANGED guildId
    BY DEF RecvCreate, sessions
  <2>3. RecvAdd(s) => UNCHANGED guildId
    BY DEF RecvAdd, sessions
  <2>4. RecvLeave(s) => UNCHANGED guildId
    BY DEF RecvLeave, sessions
  <2>5. RecvInfoReq(s) \/ RecvBreak(s) \/ RecvShort(s) \/ RecvSaved(s) => UNCHANGED guildId
    BY DEF RecvInfoReq, RecvBreak, RecvShort, RecvSaved, sessions
  <2> QED BY <2>1, <2>2, <2>3, <2>4, <2>5
<1>6. CASE \E s \in GuildServers :
              \/ RecvAuthok(s) \/ RecvCreated(s) \/ RecvGuildInfo(s) \/ RecvNoinfo(s)
              \/ RecvAdded(s) \/ RecvLeaved(s) \/ RecvMemberShort(s) \/ RecvBroken(s)
  <2>1. PICK s \in GuildServers :
              \/ RecvAuthok(s) \/ RecvCreated(s) \/ RecvGuildInfo(s) \/ RecvNoinfo(s)
              \/ RecvAdded(s) \/ RecvLeaved(s) \/ RecvMemberShort(s) \/ RecvBroken(s)
    BY <1>6
  <2>2. RecvAuthok(s) => UNCHANGED guildId
    BY DEF RecvAuthok
  <2>3. RecvGuildInfo(s) \/ RecvNoinfo(s) \/ RecvLeaved(s) \/ RecvMemberShort(s) \/ RecvBroken(s)
          => \E ps : Outside(ps)
    BY Zenon DEF RecvGuildInfo, RecvNoinfo, RecvLeaved, RecvMemberShort, RecvBroken
  <2>4. CASE RecvCreated(s)
    BY <2>4 DEF RecvCreated, First, Founded, GuildTypes, GuildTypeOK
  <2>5. CASE RecvAdded(s)
    BY <2>5 DEF RecvAdded, First, Founded, GuildTypes, GuildTypeOK
  <2> QED BY <1>1, <2>1, <2>2, <2>3, <2>4, <2>5
<1> QED BY <1>2, <1>3, <1>4, <1>5, <1>6, GuildAssumption, Zenon DEF GuildNext

\* A link that grew, and one that was read.
LEMMA GrownElements ==
    ASSUME NEW q \in Seq(Notice), NEW k \in Seq(Notice), NEW i \in 1..Len(q \o k)
    PROVE  \/ i \in 1..Len(q) /\ (q \o k)[i] = q[i]
           \/ i - Len(q) \in 1..Len(k) /\ (q \o k)[i] = k[i - Len(q)] /\ i > Len(q)
<1>1. /\ Len(q) \in Nat /\ Len(k) \in Nat /\ Len(q \o k) = Len(q) + Len(k)
      /\ \A x \in 1..(Len(q) + Len(k)) :
            (q \o k)[x] = IF x <= Len(q) THEN q[x] ELSE k[x - Len(q)]
  BY ConcatProperties, LenProperties
<1> QED BY <1>1

LEMMA ReadElements ==
    ASSUME NEW q \in Seq(Notice), q # <<>>
    PROVE  /\ Len(q) \in Nat \ {0} /\ Len(Tail(q)) = Len(q) - 1 /\ Head(q) = q[1] /\ 1 \in 1..Len(q)
           /\ \A i \in 1..Len(Tail(q)) : i + 1 \in 1..Len(q) /\ Tail(q)[i] = q[i + 1]
           /\ \A i \in 1..Len(q) : i # 1 => i - 1 \in 1..Len(Tail(q)) /\ q[i] = Tail(q)[i - 1]
<1>1. /\ Len(q) \in Nat \ {0} /\ Len(Tail(q)) = Len(q) - 1 /\ Head(q) = q[1]
      /\ \A i \in 1..Len(Tail(q)) : Tail(q)[i] = q[i + 1]
  BY HeadTailProperties, EmptySeq
<1>2. \A i \in 1..Len(q) : i # 1 => i - 1 \in 1..Len(Tail(q)) /\ (i - 1) + 1 = i
  BY <1>1
<1> QED BY <1>1, <1>2

\* A notice on its way was on its way before, lets a player in, or is posted now.
LEMMA NewNotices ==
    ASSUME GuildTypes, RosterGiven, [GuildNext]_guildVars,
           NEW t \in GuildServers, NEW i \in 1..Len(notices'[t])
    PROVE  LET m == notices'[t][i] IN
           \/ \E j \in 1..Len(notices[t]) : m = notices[t][j]
           \/ m.type = "authok"
           \/ Fits(m, roster'[m.guild]) /\ (Founded(m) => m.guild \in given')
<1> DEFINE m == notices'[t][i]
<1>0. \A s \in GuildServers : notices[s] \in Seq(Notice)
  BY DEF GuildTypes, LinksOK
<1>1. CASE UNCHANGED <<record, copy, notices>>
  BY <1>1
<1>2. CASE \E p \in GuildPlayers, s \in GuildServers : Login(p, s)
  <2>1. PICK p \in GuildPlayers, s \in GuildServers : Login(p, s)
    BY <1>2
  <2> DEFINE n == [type |-> "authok", player |-> p]
  <2>2. n \in Notice /\ n.type = "authok"
    BY DEF Notice
  <2>3. notices' = [notices EXCEPT ![s] = Append(@, n)]
    BY <2>1 DEF Login
  <2> HIDE DEF n
  <2>4. /\ Len(Append(notices[s], n)) = Len(notices[s]) + 1 /\ Len(notices[s]) \in Nat
        /\ \A j \in 1..Len(notices[s]) : Append(notices[s], n)[j] = notices[s][j]
        /\ Append(notices[s], n)[Len(notices[s]) + 1] = n
    BY <1>0, <2>2, AppendProperties, LenProperties
  <2>5. notices'[s] = Append(notices[s], n) /\ (t # s => notices'[t] = notices[t])
    BY <2>3 DEF GuildTypes, LinksOK
  <2>6. CASE t # s
    BY <2>5, <2>6
  <2>7. CASE t = s
    <3>1. i \in 1..Len(notices[s]) \/ m = n
      BY <2>4, <2>5, <2>7
    <3> QED BY <2>2, <2>4, <2>5, <2>7, <3>1
  <2> QED BY <2>6, <2>7
<1>3. CASE UNCHANGED copy /\ \E h \in Guilds : \E k : Posting(k, h)
  <2>h. PICK h \in Guilds : \E k : Posting(k, h)
    BY <1>3
  <2>1. PICK k : Posting(k, h)
    BY <2>h
  <2>2. /\ k[t] \in Seq(Notice) /\ notices'[t] = notices[t] \o k[t]
        /\ \A j \in 1..Len(k[t]) : /\ k[t][j].guild = h /\ Fits(k[t][j], roster'[h])
                                   /\ Founded(k[t][j]) => h \in given'
    BY <2>1 DEF Posting
  <2>3. \/ i \in 1..Len(notices[t]) /\ m = notices[t][i]
        \/ i - Len(notices[t]) \in 1..Len(k[t]) /\ m = k[t][i - Len(notices[t])]
    <3>1. i \in 1..Len(notices[t] \o k[t]) /\ m = (notices[t] \o k[t])[i]
      BY <2>2
    <3> QED BY <1>0, <2>2, <3>1, GrownElements
  <2> QED BY <2>2, <2>3
<1>4. CASE \E s \in GuildServers : Reading(s)
  <2>1. PICK s \in GuildServers : Reading(s)
    BY <1>4
  <2>2. notices[s] # <<>> /\ notices'[s] = Tail(notices[s]) /\ (t # s => notices'[t] = notices[t])
    BY <2>1 DEF Reading, Read, GuildTypes, LinksOK
  <2>3. CASE t # s
    BY <2>2, <2>3
  <2>4. CASE t = s
    <3>1. i \in 1..Len(Tail(notices[s])) /\ m = Tail(notices[s])[i]
      BY <2>2, <2>4
    <3>2. i + 1 \in 1..Len(notices[s]) /\ m = notices[s][i + 1]
      BY <1>0, <2>2, <3>1, ReadElements
    <3> QED BY <2>4, <3>2
  <2> QED BY <2>3, <2>4
<1> QED BY <1>1, <1>2, <1>3, <1>4, Steps

\* A guild without members gets some only when it is founded.
LEMMA RecordMoves ==
    ASSUME GuildTypes, RosterGiven, [GuildNext]_guildVars
    PROVE  given \subseteq given' /\ \A g \in given : roster[g] = {} => roster'[g] = {}
<1>1. given \subseteq Guilds
  BY DEF GuildTypes, GuildTypeOK
<1>2. CASE UNCHANGED <<record, copy, notices>>
  BY <1>2 DEF record
<1>3. CASE \E p \in GuildPlayers, s \in GuildServers : Login(p, s)
  BY <1>3 DEF Login, record
<1>4. CASE UNCHANGED copy /\ \E h \in Guilds : \E k : Posting(k, h)
  BY <1>1, <1>4 DEF Posting
<1>5. CASE \E s \in GuildServers : Reading(s)
  BY <1>5 DEF Reading, record
<1> QED BY <1>2, <1>3, <1>4, <1>5, Steps

LEMMA UnbornStep ==
    ASSUME GuildTypes, RosterGiven, Unborn, [GuildNext]_guildVars
    PROVE  Unborn'
<1>0. \A t \in GuildServers : notices[t] \in Seq(Notice)
  BY DEF GuildTypes, LinksOK
<1>1. \A g \in Guilds \ given' : g \in Guilds \ given
  BY RecordMoves
<1>2. ASSUME NEW g \in Guilds \ given, NEW s \in GuildServers, notices[s] # <<>>, Founded(Head(notices[s]))
      PROVE  Head(notices[s]).guild # g
  BY <1>0, <1>2, ReadElements DEF Unborn
<1>3. ASSUME NEW g \in Guilds \ given, NEW p \in GuildPlayers
      PROVE  guildId'[p] # g
  <2>1. g # NoGuild /\ guildId[p] # g
    BY GuildAssumption DEF Unborn
  <2>2. CASE guildId'[p] \in {guildId[p], NoGuild}
    BY <2>1, <2>2
  <2>3. CASE \E s \in GuildServers : /\ notices[s] # <<>> /\ Founded(Head(notices[s]))
                                    /\ guildId'[p] = Head(notices[s]).guild
    BY <1>2, <2>3
  <2> QED BY <2>2, <2>3, GuildIdFrom
<1>4. ASSUME NEW g \in Guilds \ given, NEW t \in GuildServers
      PROVE  copy'[t][g] = NoCopy
  <2>1. copy[t][g] = NoCopy
    BY DEF Unborn
  <2> HIDE DEF NoCopy
  <2>2. CASE UNCHANGED copy
    BY <2>1, <2>2
  <2>3. CASE \E s \in GuildServers : Reading(s)
    <3>1. PICK s \in GuildServers : Reading(s)
      BY <2>3
    <3> DEFINE m == Head(notices[s])
    <3>2. Founded(m) => m.guild # g
      BY <1>2, <3>1 DEF Reading
    <3>3. About(g, m) => m.type = "leaved"
      BY <3>2 DEF About, Founded
    <3> QED BY <2>1, <3>1, <3>3 DEF Reading
  <2> QED BY <2>2, <2>3, Steps DEF Login
<1>5. ASSUME NEW g \in Guilds \ given', NEW t \in GuildServers, NEW i \in 1..Len(notices'[t]),
             Founded(notices'[t][i])
      PROVE  notices'[t][i].guild # g
  <2>1. notices'[t][i].type # "authok"
    BY <1>5 DEF Founded
  <2>2. CASE \E j \in 1..Len(notices[t]) : notices'[t][i] = notices[t][j]
    BY <1>1, <1>5, <2>2 DEF Unborn
  <2>3. CASE notices'[t][i].guild \in given'
    BY <2>3
  <2> QED BY <1>5, <2>1, <2>2, <2>3, NewNotices
<1> QED BY <1>1, <1>3, <1>4, <1>5 DEF Unborn

-----------------------------------------------------------------------------
(* A server that takes p for a member, or will, will be told that it left  *)

WillTell(q, g, p) == \E i \in 1..Len(q) : Tells(q[i], g, p)

WillForget(q, c, g, p) ==
    /\ c # NoCopy /\ p \in c => WillTell(q, g, p)
    /\ \A i \in 1..Len(q) : Names(q[i], g, p) =>
          \E j \in 1..Len(q) : j > i /\ Tells(q[j], g, p)

Forgetting ==
    \A s \in GuildServers, g \in Guilds, p \in GuildPlayers :
        roster[g] # {} /\ p \notin roster[g] => WillForget(notices[s], copy[s][g], g, p)

LEMMA ForgetGrown ==
    ASSUME NEW q \in Seq(Notice), NEW k \in Seq(Notice), NEW c, NEW g, NEW p,
           \A i \in 1..Len(k) : ~Names(k[i], g, p),
           WillForget(q, c, g, p) \/ WillTell(k, g, p)
    PROVE  WillForget(q \o k, c, g, p)
<1>1. /\ Len(q) \in Nat /\ Len(k) \in Nat /\ Len(q \o k) = Len(q) + Len(k)
      /\ \A i \in 1..(Len(q) + Len(k)) :
            (q \o k)[i] = IF i <= Len(q) THEN q[i] ELSE k[i - Len(q)]
  BY ConcatProperties, LenProperties
<1>2. \A i \in 1..Len(q) : i \in 1..Len(q \o k) /\ (q \o k)[i] = q[i]
  BY <1>1
<1>3. \A i \in 1..Len(k) : /\ Len(q) + i \in 1..Len(q \o k) /\ (q \o k)[Len(q) + i] = k[i]
                           /\ Len(q) + i > Len(q)
  BY <1>1
<1>4. ASSUME NEW i \in 1..Len(q \o k), Names((q \o k)[i], g, p)
      PROVE  i \in 1..Len(q) /\ Names(q[i], g, p)
  BY <1>4, GrownElements
<1>5. CASE WillTell(k, g, p)
  <2>1. PICK j \in 1..Len(k) : Tells(k[j], g, p)
    BY <1>5 DEF WillTell
  <2>2. /\ Len(q) + j \in 1..Len(q \o k) /\ Tells((q \o k)[Len(q) + j], g, p)
        /\ \A i \in 1..Len(q) : Len(q) + j > i
    BY <1>1, <1>3, <2>1
  <2> QED BY <1>4, <2>2 DEF WillForget, WillTell
<1>6. CASE WillForget(q, c, g, p)
  <2>1. WillTell(q, g, p) => WillTell(q \o k, g, p)
    BY <1>2 DEF WillTell
  <2>2. ASSUME NEW i \in 1..Len(q \o k), Names((q \o k)[i], g, p)
        PROVE  \E j \in 1..Len(q \o k) : j > i /\ Tells((q \o k)[j], g, p)
    <3>1. i \in 1..Len(q) /\ Names(q[i], g, p)
      BY <1>4, <2>2
    <3>2. PICK j \in 1..Len(q) : j > i /\ Tells(q[j], g, p)
      BY <1>6, <3>1 DEF WillForget
    <3> QED BY <1>2, <3>2
  <2> QED BY <1>6, <2>1, <2>2 DEF WillForget
<1> QED BY <1>5, <1>6

LEMMA ForgetRead ==
    ASSUME NEW q \in Seq(Notice), q # <<>>, NEW c, NEW g, NEW p, WillForget(q, c, g, p)
    PROVE  /\ Names(Head(q), g, p) => WillTell(Tail(q), g, p)
           /\ WillTell(q, g, p) /\ ~Tells(Head(q), g, p) => WillTell(Tail(q), g, p)
           /\ \A i \in 1..Len(Tail(q)) : Names(Tail(q)[i], g, p) =>
                 \E j \in 1..Len(Tail(q)) : j > i /\ Tells(Tail(q)[j], g, p)
<1>1. /\ Len(q) \in Nat \ {0} /\ Len(Tail(q)) = Len(q) - 1 /\ Head(q) = q[1] /\ 1 \in 1..Len(q)
      /\ \A i \in 1..Len(Tail(q)) : i + 1 \in 1..Len(q) /\ Tail(q)[i] = q[i + 1]
      /\ \A i \in 1..Len(q) : i # 1 => i - 1 \in 1..Len(Tail(q)) /\ q[i] = Tail(q)[i - 1]
  BY ReadElements
<1>2. ASSUME NEW i \in 1..Len(q), Names(q[i], g, p)
      PROVE  \E j \in 1..Len(Tail(q)) : j + 1 > i /\ Tells(Tail(q)[j], g, p)
  <2>1. PICK j \in 1..Len(q) : j > i /\ Tells(q[j], g, p)
    BY <1>2 DEF WillForget
  <2>2. j # 1 /\ (j - 1) + 1 = j
    BY <2>1
  <2>3. j - 1 \in 1..Len(Tail(q)) /\ Tells(Tail(q)[j - 1], g, p)
    BY <1>1, <2>1, <2>2
  <2> QED BY <2>1, <2>2, <2>3
<1>3. Names(Head(q), g, p) => WillTell(Tail(q), g, p)
  BY <1>1, <1>2 DEF WillTell
<1>4. ASSUME WillTell(q, g, p), ~Tells(Head(q), g, p)
      PROVE  WillTell(Tail(q), g, p)
  <2>1. PICK i \in 1..Len(q) : Tells(q[i], g, p)
    BY <1>4 DEF WillTell
  <2>2. i # 1
    BY <1>1, <1>4, <2>1
  <2> QED BY <1>1, <2>1, <2>2 DEF WillTell
<1>5. ASSUME NEW i \in 1..Len(Tail(q)), Names(Tail(q)[i], g, p)
      PROVE  \E j \in 1..Len(Tail(q)) : j > i /\ Tells(Tail(q)[j], g, p)
  <2>1. i + 1 \in 1..Len(q) /\ Names(q[i + 1], g, p)
    BY <1>1, <1>5
  <2>2. PICK j \in 1..Len(Tail(q)) : j + 1 > i + 1 /\ Tells(Tail(q)[j], g, p)
    BY <1>2, <2>1
  <2>3. j > i
    BY <2>2
  <2> QED BY <2>2, <2>3
<1> QED BY <1>3, <1>4, <1>5

LEMMA ForgettingStep ==
    ASSUME GuildTypes, RosterGiven, Unborn, Forgetting, [GuildNext]_guildVars
    PROVE  Forgetting'
<1>0. \A t \in GuildServers : notices[t] \in Seq(Notice)
  BY DEF GuildTypes, LinksOK
<1>1. CASE UNCHANGED <<record, copy, notices>>
  BY <1>1 DEF Forgetting, record
<1>2. CASE \E p \in GuildPlayers, s \in GuildServers : Login(p, s)
  <2>1. PICK x \in GuildPlayers, s \in GuildServers : Login(x, s)
    BY <1>2
  <2> DEFINE n == [type |-> "authok", player |-> x]
  <2>2. n \in Notice /\ \A g, p : ~Names(n, g, p)
    BY DEF Notice, Names
  <2>3. UNCHANGED <<roster, copy>> /\ notices' = [notices EXCEPT ![s] = Append(@, n)]
    BY <2>1 DEF Login, record
  <2> HIDE DEF n
  <2>4. notices'[s] = notices[s] \o <<n>> /\ \A t \in GuildServers : t # s => notices'[t] = notices[t]
    BY <1>0, <2>2, <2>3, AppendIsConcat DEF GuildTypes, LinksOK
  <2>5. <<n>> \in Seq(Notice) /\ \A i \in 1..Len(<<n>>) : \A g, p : ~Names(<<n>>[i], g, p)
    BY <2>2
  <2>6. SUFFICES ASSUME NEW t \in GuildServers, NEW g \in Guilds, NEW p \in GuildPlayers,
                        roster[g] # {}, p \notin roster[g]
                 PROVE  WillForget(notices'[t], copy[t][g], g, p)
    BY <2>3 DEF Forgetting
  <2>7. WillForget(notices[t], copy[t][g], g, p)
    BY <2>6 DEF Forgetting
  <2>8. CASE t = s
    BY <1>0, <2>4, <2>5, <2>7, <2>8, ForgetGrown
  <2>9. CASE t # s
    BY <2>4, <2>7, <2>9
  <2> QED BY <2>8, <2>9
<1>3. CASE UNCHANGED copy /\ \E h \in Guilds : \E k : Posting(k, h)
  <2>h. PICK h \in Guilds : \E k : Posting(k, h)
    BY <1>3
  <2>1. PICK k : Posting(k, h)
    BY <2>h
  <2>2. SUFFICES ASSUME NEW t \in GuildServers, NEW g \in Guilds, NEW p \in GuildPlayers,
                        roster'[g] # {}, p \notin roster'[g]
                 PROVE  WillForget(notices'[t], copy[t][g], g, p)
    BY <1>3 DEF Forgetting
  <2>3. k[t] \in Seq(Notice) /\ notices'[t] = notices[t] \o k[t]
    BY <2>1 DEF Posting
  <2>4. \A i \in 1..Len(k[t]) : ~Names(k[t][i], g, p)
    <3>1. \A i \in 1..Len(k[t]) : k[t][i].guild = h /\ Fits(k[t][i], roster'[h])
      BY <2>1 DEF Posting
    <3>2. \A m : Names(m, g, p) => m.guild = g
      BY DEF Names
    <3>3. \A i \in 1..Len(k[t]) : Names(k[t][i], k[t][i].guild, p) => p \in roster'[h]
      BY <3>1 DEF Fits
    <3> QED BY <2>2, <3>1, <3>2, <3>3
  <2>5. WillForget(notices[t], copy[t][g], g, p) \/ WillTell(k[t], g, p)
    <3>1. CASE roster[g] # {} /\ p \notin roster[g]
      BY <3>1 DEF Forgetting
    <3>2. CASE p \in roster[g]
      <4>1. g = h
        BY <2>1, <2>2, <3>2 DEF Posting
      <4> QED BY <2>1, <2>2, <3>2, <4>1 DEF Posting, WillTell
    <3>3. CASE roster[g] = {}
      <4>1. g \in Guilds \ given
        BY <2>1, <2>2, <3>3 DEF Posting
      <4>2. \A i \in 1..Len(notices[t]) : ~Names(notices[t][i], g, p)
        BY <4>1 DEF Unborn, Names, Founded
      <4>3. copy[t][g] = NoCopy
        BY <4>1 DEF Unborn
      <4> QED BY <4>2, <4>3 DEF WillForget
    <3> QED BY <3>1, <3>2, <3>3
  <2> QED BY <1>0, <2>3, <2>4, <2>5, ForgetGrown
<1>4. CASE \E s \in GuildServers : Reading(s)
  <2>1. PICK s \in GuildServers : Reading(s)
    BY <1>4
  <2>2. notices[s] # <<>> /\ UNCHANGED roster
    BY <2>1 DEF Reading, record
  <2>3. notices'[s] = Tail(notices[s]) /\ \A t \in GuildServers : t # s => notices'[t] = notices[t]
    BY <2>1 DEF Reading, Read, GuildTypes, LinksOK
  <2>4. SUFFICES ASSUME NEW t \in GuildServers, NEW g \in Guilds, NEW p \in GuildPlayers,
                        roster[g] # {}, p \notin roster[g]
                 PROVE  WillForget(notices'[t], copy'[t][g], g, p)
    BY <2>2 DEF Forgetting
  <2>5. WillForget(notices[t], copy[t][g], g, p)
    BY <2>4 DEF Forgetting
  <2>6. CASE t # s
    <3>1. copy'[t][g] = copy[t][g]
      BY <2>1, <2>6 DEF Reading
    <3> QED BY <2>3, <2>5, <2>6, <3>1
  <2>7. CASE t = s
    <3> DEFINE m == Head(notices[s])
               q == Tail(notices[s])
    <3>1. /\ Names(m, g, p) => WillTell(q, g, p)
          /\ WillTell(notices[s], g, p) /\ ~Tells(m, g, p) => WillTell(q, g, p)
          /\ \A i \in 1..Len(q) : Names(q[i], g, p) =>
                \E j \in 1..Len(q) : j > i /\ Tells(q[j], g, p)
      BY <1>0, <2>2, <2>5, <2>7, ForgetRead
    <3>2. copy[s][g] # NoCopy /\ p \in copy[s][g] => WillTell(notices[s], g, p)
      BY <2>5, <2>7 DEF WillForget
    <3>3. /\ ~About(g, m) => copy'[s][g] = copy[s][g]
          /\ About(g, m) =>
             /\ m.type = "info" => copy'[s][g] = m.members
             /\ m.type = "broken" => copy'[s][g] = NoCopy
             /\ m.type = "leaved" => copy'[s][g] = IF copy[s][g] = NoCopy THEN NoCopy
                                                   ELSE copy[s][g] \ {m.player}
      BY <2>1 DEF Reading
    <3> HIDE DEF m, q, NoCopy
    <3>4. ASSUME copy'[s][g] # NoCopy, p \in copy'[s][g]
          PROVE  WillTell(q, g, p)
      BY <3>1, <3>2, <3>3, <3>4 DEF About, Names, Tells
    <3> QED BY <2>3, <2>7, <3>1, <3>4 DEF WillForget, q
  <2> QED BY <2>6, <2>7
<1> QED BY <1>1, <1>2, <1>3, <1>4, Steps


\* Who hears that a guild is broken hears the truth.
BreaksTrue ==
    \A s \in GuildServers : \A i \in 1..Len(notices[s]) :
        notices[s][i].type = "broken" => roster[notices[s][i].guild] = {}

LEMMA BreaksTrueStep ==
    ASSUME GuildTypes, RosterGiven, Unborn, BreaksTrue, [GuildNext]_guildVars
    PROVE  BreaksTrue'
<1>1. SUFFICES ASSUME NEW t \in GuildServers, NEW i \in 1..Len(notices'[t]),
                      notices'[t][i].type = "broken"
               PROVE  roster'[notices'[t][i].guild] = {}
  BY DEF BreaksTrue
<1> DEFINE m == notices'[t][i]
<1>2. CASE \E j \in 1..Len(notices[t]) : m = notices[t][j]
  <2>1. PICK j \in 1..Len(notices[t]) : m = notices[t][j]
    BY <1>2
  <2>2. m \in Notice
    <3>1. notices[t] \in Seq(Notice)
      BY DEF GuildTypes, LinksOK
    <3> QED BY <2>1, <3>1, ElementOfSeq
  <2>3. m.guild \in Guilds /\ roster[m.guild] = {} /\ m.guild \in given
    <3>1. m.guild \in Guilds
      BY <1>1, <2>2, NoticeParts
    <3> QED BY <1>1, <2>1, <3>1 DEF BreaksTrue, Unborn, Founded
  <2> QED BY <2>3, RecordMoves
<1>3. CASE Fits(m, roster'[m.guild])
  BY <1>1, <1>3 DEF Fits
<1> QED BY <1>1, <1>2, <1>3, NewNotices

-----------------------------------------------------------------------------
(* Sessions                                                                *)

Coming(s) == {p \in GuildPlayers : stage[p] = "coming" /\ server[p] = s}
Leaving(s) == {p \in GuildPlayers : stage[p] = "leaving" /\ server[p] = s}

\* Messages of this type are about players of P, one about each.
Lone(q, type, P) ==
    \A i \in 1..Len(q) : q[i].type = type =>
        /\ q[i].player \in P
        /\ \A j \in 1..Len(q) : q[j].type = type /\ q[j].player = q[i].player => j = i

SessionsOK ==
    /\ \A p \in sended : stage[p] \in {"auth", "in"}
    /\ \A s \in GuildServers : Lone(notices[s], "authok", Coming(s))
    /\ \A s \in GuildServers : Lone(asks[s], "save", Leaving(s))

LEMMA LoneGrown ==
    ASSUME NEW S, NEW q \in Seq(S), NEW k \in Seq(S), NEW type, NEW P, Lone(q, type, P),
           \A i \in 1..Len(k) : k[i].type # type
    PROVE  Lone(q \o k, type, P)
<1>1. /\ Len(q) \in Nat /\ Len(k) \in Nat /\ Len(q \o k) = Len(q) + Len(k)
      /\ \A i \in 1..(Len(q) + Len(k)) :
            (q \o k)[i] = IF i <= Len(q) THEN q[i] ELSE k[i - Len(q)]
  BY ConcatProperties, LenProperties
<1>2. ASSUME NEW i \in 1..Len(q \o k), (q \o k)[i].type = type
      PROVE  i \in 1..Len(q) /\ (q \o k)[i] = q[i]
  <2>1. CASE i > Len(q)
    <3>1. i - Len(q) \in 1..Len(k) /\ (q \o k)[i] = k[i - Len(q)]
      BY <1>1, <2>1
    <3> QED BY <1>2, <3>1
  <2> QED BY <1>1, <2>1
<1> QED BY <1>2 DEF Lone

LEMMA LoneAppended ==
    ASSUME NEW S, NEW q \in Seq(S), NEW n \in S, NEW type, NEW P, Lone(q, type, P),
           n.type = type, n.player \notin P
    PROVE  Lone(Append(q, n), type, P \cup {n.player})
<1>1. /\ Len(q) \in Nat /\ Len(Append(q, n)) = Len(q) + 1
      /\ \A i \in 1..Len(q) : Append(q, n)[i] = q[i]
      /\ Append(q, n)[Len(q) + 1] = n
  BY AppendProperties, LenProperties
<1>2. \A i \in 1..Len(Append(q, n)) : i \in 1..Len(q) \/ i = Len(q) + 1
  BY <1>1
<1>3. \A i \in 1..Len(q) : q[i].type = type => q[i].player \in P /\ q[i].player # n.player
  BY DEF Lone
<1>4. ASSUME NEW i \in 1..Len(Append(q, n)), Append(q, n)[i].type = type,
             NEW j \in 1..Len(Append(q, n)), Append(q, n)[j].type = type,
             Append(q, n)[i].player = Append(q, n)[j].player
      PROVE  i = j
  BY <1>1, <1>2, <1>3, <1>4 DEF Lone
<1>5. \A i \in 1..Len(Append(q, n)) : Append(q, n)[i].type = type =>
          Append(q, n)[i].player \in P \cup {n.player}
  BY <1>1, <1>2, <1>3
<1> QED BY <1>4, <1>5 DEF Lone

LEMMA LoneRead ==
    ASSUME NEW S, NEW q \in Seq(S), q # <<>>, NEW type, NEW P, Lone(q, type, P)
    PROVE  /\ Lone(Tail(q), type, P)
           /\ Head(q).type = type =>
                Head(q).player \in P /\ Lone(Tail(q), type, P \ {Head(q).player})
<1>1. /\ Len(q) \in Nat \ {0} /\ Len(Tail(q)) = Len(q) - 1 /\ Head(q) = q[1] /\ 1 \in 1..Len(q)
      /\ \A i \in 1..Len(Tail(q)) : Tail(q)[i] = q[i + 1]
  BY HeadTailProperties, EmptySeq
<1>2. \A i \in 1..Len(Tail(q)) : i + 1 \in 1..Len(q) /\ i + 1 # 1
  BY <1>1
<1>3. ASSUME NEW i \in 1..Len(Tail(q)), NEW j \in 1..Len(Tail(q)), i + 1 = j + 1
      PROVE  i = j
  BY <1>3
<1>4. \A i \in 1..Len(Tail(q)) : Tail(q)[i].type = type =>
        /\ Tail(q)[i].player \in P
        /\ \A j \in 1..Len(Tail(q)) :
              Tail(q)[j].type = type /\ Tail(q)[j].player = Tail(q)[i].player => j = i
  BY <1>1, <1>2, <1>3 DEF Lone
<1>5. Head(q).type = type => \A i \in 1..Len(Tail(q)) :
          Tail(q)[i].type = type => Tail(q)[i].player # Head(q).player
  BY <1>1, <1>2 DEF Lone
<1>6. Head(q).type = type => Head(q).player \in P
  BY <1>1 DEF Lone
<1> QED BY <1>4, <1>5, <1>6 DEF Lone


\* Players and map servers ask; the char server takes what was asked.
Asking(k) ==
    /\ k \in [GuildServers -> Seq(Ask)]
    /\ asks' = [s \in GuildServers |-> asks[s] \o k[s]]

SavesNothing(k) == \A s \in GuildServers : \A i \in 1..Len(k[s]) : k[s][i].type # "save"

LEMMA Sends ==
    ASSUME LinksOK, NEW s \in GuildServers, NEW m \in Ask, m.type # "save", Send(s, m)
    PROVE  \E k : Asking(k) /\ SavesNothing(k)
<1> DEFINE k == [t \in GuildServers |-> IF t = s THEN <<m>> ELSE <<>>]
<1>1. k \in [GuildServers -> Seq(Ask)] /\ SavesNothing(k)
  BY DEF SavesNothing
<1>2. /\ Append(asks[s], m) = asks[s] \o <<m>>
      /\ \A t \in GuildServers : asks[t] = asks[t] \o <<>>
  BY AppendIsConcat, ConcatEmptySeq DEF LinksOK
<1>3. asks' = [t \in GuildServers |-> asks[t] \o k[t]]
  BY <1>2 DEF LinksOK, Send
<1> QED BY <1>1, <1>3 DEF Asking

LEMMA SendsNothing ==
    ASSUME LinksOK, UNCHANGED asks
    PROVE  \E k : Asking(k) /\ SavesNothing(k)
<1> DEFINE k == [t \in GuildServers |-> <<>>]
<1>1. k \in [GuildServers -> Seq(Ask)] /\ SavesNothing(k)
  BY DEF SavesNothing
<1>2. \A t \in GuildServers : asks[t] = asks[t] \o <<>>
  BY ConcatEmptySeq DEF LinksOK
<1>3. asks' = [t \in GuildServers |-> asks[t] \o k[t]]
  BY <1>2 DEF LinksOK
<1> QED BY <1>1, <1>3 DEF Asking

\* Requests leave sessions alone.
LEMMA RequestsAsk ==
    ASSUME GuildTypes, NEW p \in GuildPlayers, NEW q \in GuildPlayers,
           Create(p) \/ Invite(p, q) \/ Decline(p) \/ Accept(p) \/ Quit(p, q) \/ Break(p)
    PROVE  /\ UNCHANGED <<stage, server, guildId, sended, notices>>
           /\ \E k : Asking(k) /\ SavesNothing(k)
<1> USE DEF GuildTypes
<1>0. server[p] \in GuildServers
  BY DEF GuildTypeOK
<1>1. CASE Create(p)
  <2>1. [type |-> "create", player |-> p] \in Ask
    BY DEF Ask
  <2>2. Send(server[p], [type |-> "create", player |-> p])
    BY <1>1 DEF Create
  <2>3. \E k : Asking(k) /\ SavesNothing(k)
    BY <1>0, <2>1, <2>2, Sends
  <2> QED BY <1>1, <2>3 DEF Create, sessions
<1>2. CASE Invite(p, q)
  BY <1>2, SendsNothing DEF Invite
<1>3. CASE Decline(p)
  BY <1>3, SendsNothing DEF Decline
<1>4. CASE Accept(p)
  <2> DEFINE m == [type |-> "add", guild |-> invite[p], player |-> p]
  <2>1. Send(server[p], m) \/ UNCHANGED asks
    BY <1>4 DEF Accept
  <2>2. invite[p] \in Guilds
    BY <1>4, GuildAssumption DEF Accept, GuildTypeOK
  <2>3. m \in Ask /\ m.type # "save"
    BY <2>2, AsksMade
  <2> HIDE DEF m
  <2>4. \E k : Asking(k) /\ SavesNothing(k)
    BY <1>0, <2>1, <2>3, Sends, SendsNothing
  <2> QED BY <1>4, <2>4 DEF Accept
<1>5. CASE Quit(p, q)
  <2> DEFINE m == LeaveReq(guildId[p], q)
  <2>1. Send(server[p], m) /\ guildId[p] \in Guilds
    BY <1>5 DEF Quit, GuildTypeOK
  <2>2. m \in Ask /\ m.type # "save"
    BY <2>1, AsksMade DEF LeaveReq
  <2> HIDE DEF m
  <2>3. \E k : Asking(k) /\ SavesNothing(k)
    BY <1>0, <2>1, <2>2, Sends
  <2> QED BY <1>5, <2>3 DEF Quit, sessions
<1>6. CASE Break(p)
  <2> DEFINE m == [type |-> "break", guild |-> guildId[p]]
  <2>1. Send(server[p], m) /\ guildId[p] \in Guilds
    BY <1>6 DEF Break, GuildTypeOK
  <2>2. m \in Ask /\ m.type # "save"
    BY <2>1 DEF Ask
  <2> HIDE DEF m
  <2>3. \E k : Asking(k) /\ SavesNothing(k)
    BY <1>0, <2>1, <2>2, Sends
  <2> QED BY <1>6, <2>3 DEF Break, sessions
<1> QED BY <1>1, <1>2, <1>3, <1>4, <1>5, <1>6

\* So do the handlers of a map server, but for the one that lets a player in.
LEMMA MapsAsk ==
    ASSUME GuildTypes, NEW s \in GuildServers,
           \/ RecvAuthok(s) \/ RecvCreated(s) \/ RecvGuildInfo(s) \/ RecvNoinfo(s)
           \/ RecvAdded(s) \/ RecvLeaved(s) \/ RecvMemberShort(s) \/ RecvBroken(s)
    PROVE  /\ \E k : Asking(k) /\ SavesNothing(k)
           /\ UNCHANGED server
           /\ \/ RecvAuthok(s)
              \/ /\ UNCHANGED stage /\ Head(notices[s]).type # "authok"
                 /\ \A p \in sended' : p \in sended \/ stage[p] \in {"auth", "in"}
<1> USE DEF GuildTypes
<1> DEFINE m == Head(notices[s])
           g == m.guild
<1>1. notices[s] # <<>> /\ Read(s)
  BY Zenon DEF RecvAuthok, RecvCreated, RecvGuildInfo, RecvNoinfo, RecvAdded, RecvLeaved,
               RecvMemberShort, RecvBroken, First
<1>2. m \in Notice
  BY <1>1, ReadType
<1>3. /\ m.type \in {"authok", "leaved", "short", "created", "added"} => m.player \in GuildPlayers
      /\ m.type \in {"leaved", "short", "created", "broken", "noinfo", "info", "added"}
           => g \in Guilds
      /\ m.type = "info" => m.members \in SUBSET GuildPlayers
  BY <1>2, NoticeParts
<1> HIDE DEF m, g
<1>4. CASE RecvAuthok(s)
  <2> DEFINE n == [type |-> "infoReq", guild |-> guildId[m.player]]
  <2>1. UNCHANGED asks \/ (guildId[m.player] # NoGuild /\ Send(s, n))
    BY <1>4 DEF RecvAuthok, m
  <2>2. guildId[m.player] # NoGuild => n \in Ask /\ n.type # "save"
    <3>1. m.player \in GuildPlayers
      BY <1>3, <1>4 DEF RecvAuthok, First, m
    <3> QED BY <3>1 DEF Ask, GuildTypeOK
  <2> HIDE DEF n
  <2>3. \E k : Asking(k) /\ SavesNothing(k)
    BY <2>1, <2>2, Sends, SendsNothing
  <2> QED BY <1>4, <2>3 DEF RecvAuthok
<1>5. CASE RecvCreated(s)
  BY <1>5, SendsNothing DEF RecvCreated, First
<1>6. CASE RecvGuildInfo(s)
  <2>1. linked'[s][g] = Linked(s, g, m.members)
    <3>1. Linked(s, g, m.members) \in SUBSET GuildPlayers
      BY DEF Linked, Online
    <3>2. g \in Guilds /\ linked' = [linked EXCEPT ![s][g] = Linked(s, g, m.members)]
      BY <1>3, <1>6 DEF RecvGuildInfo, First, m, g
    <3>3. linked \in [GuildServers -> [Guilds -> SUBSET GuildPlayers]]
      BY DEF GuildTypeOK
    <3> QED BY <3>1, <3>2, <3>3, EntrySet
  <2>2. \A p \in linked'[s][g] : stage[p] \in {"auth", "in"}
    BY <2>1 DEF Linked, Online
  <2>3. sended' \subseteq sended \cup linked'[s][g]
    BY <1>6 DEF RecvGuildInfo, m, g
  <2> QED BY <1>6, <2>2, <2>3, SendsNothing DEF RecvGuildInfo, First
<1>7. CASE RecvNoinfo(s)
  BY <1>7, SendsNothing DEF RecvNoinfo, First
<1>8. CASE RecvAdded(s)
  <2> DEFINE n == LeaveReq(g, m.player)
  <2>1. UNCHANGED asks \/ Send(s, n)
    BY <1>8 DEF RecvAdded, m, g
  <2>2. n \in Ask /\ n.type # "save"
    <3>1. m.player \in GuildPlayers /\ g \in Guilds
      BY <1>3, <1>8 DEF RecvAdded, First, m
    <3> QED BY <3>1, AsksMade DEF LeaveReq
  <2> HIDE DEF n
  <2>3. \E k : Asking(k) /\ SavesNothing(k)
    BY <2>1, <2>2, Sends, SendsNothing
  <2>4. sended' \subseteq sended
    BY <1>8 DEF RecvAdded
  <2> QED BY <1>8, <2>3, <2>4 DEF RecvAdded, First
<1>9. CASE RecvLeaved(s)
  BY <1>9, SendsNothing DEF RecvLeaved, First
<1>10. CASE RecvMemberShort(s)
  BY <1>10, SendsNothing DEF RecvMemberShort, First
<1>11. CASE RecvBroken(s)
  BY <1>11, SendsNothing DEF RecvBroken, First
<1> QED BY <1>4, <1>5, <1>6, <1>7, <1>8, <1>9, <1>10, <1>11


LEMMA SavesKept ==
    ASSUME GuildTypes, SessionsOK, NEW s \in GuildServers, NEW P, Leaving(s) \subseteq P,
           \E k : Asking(k) /\ SavesNothing(k)
    PROVE  Lone(asks'[s], "save", P)
<1>1. PICK k : Asking(k) /\ SavesNothing(k)
  OBVIOUS
<1>2. asks[s] \in Seq(Ask) /\ k[s] \in Seq(Ask) /\ asks'[s] = asks[s] \o k[s]
  BY <1>1 DEF Asking, GuildTypes, LinksOK
<1>3. \A i \in 1..Len(k[s]) : k[s][i].type # "save"
  BY <1>1 DEF SavesNothing
<1>4. Lone(asks[s], "save", P)
  BY DEF SessionsOK, Lone
<1> QED BY <1>2, <1>3, <1>4, LoneGrown

LEMMA RequestSessions ==
    ASSUME GuildTypes, SessionsOK, NEW p \in GuildPlayers, NEW q \in GuildPlayers,
           Create(p) \/ Invite(p, q) \/ Decline(p) \/ Accept(p) \/ Quit(p, q) \/ Break(p)
    PROVE  SessionsOK'
<1>1. UNCHANGED <<stage, server, sended, notices>> /\ \E k : Asking(k) /\ SavesNothing(k)
  BY RequestsAsk
<1>2. \A s \in GuildServers : Coming(s)' = Coming(s) /\ Leaving(s)' = Leaving(s)
  BY <1>1 DEF Coming, Leaving
<1>3. \A s \in GuildServers : Lone(asks'[s], "save", Leaving(s))
  BY <1>1, SavesKept
<1> QED BY <1>1, <1>2, <1>3 DEF SessionsOK

LEMMA TripSessions ==
    ASSUME GuildTypes, SessionsOK, NEW p \in GuildPlayers, NEW s \in GuildServers,
           Login(p, s) \/ MapLoaded(p) \/ ChangeMap(p) \/ Logout(p)
    PROVE  SessionsOK'
<1> USE DEF GuildTypes
<1>0. /\ stage \in [GuildPlayers -> {"off", "coming", "auth", "in", "leaving"}]
      /\ server \in [GuildPlayers -> GuildServers]
      /\ \A t \in GuildServers : notices[t] \in Seq(Notice) /\ asks[t] \in Seq(Ask)
  BY DEF GuildTypeOK, LinksOK
<1>1. CASE Login(p, s)
  <2> DEFINE n == [type |-> "authok", player |-> p]
  <2>1. /\ stage[p] = "off" /\ stage' = [stage EXCEPT ![p] = "coming"]
        /\ server' = [server EXCEPT ![p] = s] /\ UNCHANGED <<sended, asks>>
        /\ notices' = [notices EXCEPT ![s] = Append(@, n)]
    BY <1>1 DEF Login
  <2>2. n \in Notice /\ n.type = "authok" /\ n.player = p
    BY DEF Notice
  <2> HIDE DEF n
  <2>3. \A t \in GuildServers : Leaving(t)' = Leaving(t)
    BY <1>0, <2>1 DEF Leaving
  <2>4. Coming(s)' = Coming(s) \cup {p} /\ p \notin Coming(s)
    BY <1>0, <2>1 DEF Coming
  <2>5. \A t \in GuildServers : t # s => Coming(t)' = Coming(t)
    BY <1>0, <2>1 DEF Coming
  <2>6. Lone(Append(notices[s], n), "authok", Coming(s) \cup {p})
    <3>1. Lone(notices[s], "authok", Coming(s))
      BY DEF SessionsOK
    <3> QED BY <1>0, <2>2, <2>4, <3>1, LoneAppended
  <2>7. notices'[s] = Append(notices[s], n) /\ \A t \in GuildServers : t # s => notices'[t] = notices[t]
    BY <2>1 DEF LinksOK
  <2>8. \A x \in sended' : stage'[x] \in {"auth", "in"}
    <3>1. \A x \in sended : stage[x] \in {"auth", "in"} /\ x \in GuildPlayers
      BY DEF SessionsOK, GuildTypeOK
    <3> QED BY <1>0, <2>1, <3>1
  <2>9. \A t \in GuildServers : Lone(notices'[t], "authok", Coming(t)')
    BY <2>4, <2>5, <2>6, <2>7 DEF SessionsOK
  <2> QED BY <2>1, <2>3, <2>8, <2>9 DEF SessionsOK
<1>2. CASE MapLoaded(p)
  <2>1. /\ stage[p] = "auth" /\ stage' = [stage EXCEPT ![p] = "in"]
        /\ UNCHANGED <<server, notices>> /\ sended' \subseteq sended \cup {p}
    BY <1>2 DEF MapLoaded
  <2>2. \E k : Asking(k) /\ SavesNothing(k)
    <3>1. CASE UNCHANGED asks
      BY <3>1, SendsNothing
    <3>2. CASE guildId[p] # NoGuild /\ Send(server[p], Short(guildId[p], p))
      <4>1. Short(guildId[p], p) \in Ask /\ Short(guildId[p], p).type # "save"
        BY <3>2, AsksMade DEF GuildTypeOK, Short
      <4> QED BY <1>0, <3>2, <4>1, Sends
    <3> QED BY <1>2, <3>1, <3>2 DEF MapLoaded
  <2>3. \A t \in GuildServers : Coming(t)' = Coming(t) /\ Leaving(t)' = Leaving(t)
    BY <1>0, <2>1 DEF Coming, Leaving
  <2>4. \A x \in sended' : stage'[x] \in {"auth", "in"}
    <3>1. \A x \in sended : stage[x] \in {"auth", "in"} /\ x \in GuildPlayers
      BY DEF SessionsOK, GuildTypeOK
    <3> QED BY <1>0, <2>1, <3>1
  <2>5. \A t \in GuildServers : Lone(asks'[t], "save", Leaving(t))
    BY <2>2, SavesKept
  <2> QED BY <2>1, <2>3, <2>4, <2>5 DEF SessionsOK
<1>3. CASE ChangeMap(p)
  <2>1. /\ stage[p] = "in" /\ stage' = [stage EXCEPT ![p] = "auth"]
        /\ UNCHANGED <<server, notices, asks, sended>>
    BY <1>3 DEF ChangeMap
  <2>2. \A t \in GuildServers : Coming(t)' = Coming(t) /\ Leaving(t)' = Leaving(t)
    BY <1>0, <2>1 DEF Coming, Leaving
  <2>3. \A x \in sended' : stage'[x] \in {"auth", "in"}
    <3>1. \A x \in sended : stage[x] \in {"auth", "in"} /\ x \in GuildPlayers
      BY DEF SessionsOK, GuildTypeOK
    <3> QED BY <1>0, <2>1, <3>1
  <2> QED BY <2>1, <2>2, <2>3 DEF SessionsOK
<1>4. CASE Logout(p)
  <2>0. PICK t \in GuildServers : t = server[p]
    BY <1>0
  <2> DEFINE g == guildId[p]
             short == IF g # NoGuild /\ copy[t][g] # NoCopy THEN <<Short(g, p)>> ELSE <<>>
             n == [type |-> "save", player |-> p]
  <2>1. /\ stage[p] \in {"auth", "in"} /\ stage' = [stage EXCEPT ![p] = "leaving"]
        /\ UNCHANGED <<server, notices>> /\ sended' = sended \ {p}
        /\ asks' = [asks EXCEPT ![t] = @ \o short \o <<n>>]
    BY <1>4, <2>0 DEF Logout
  <2>2. n \in Ask /\ n.type = "save" /\ n.player = p
    BY DEF Ask
  <2>3. short \in Seq(Ask) /\ \A i \in 1..Len(short) : short[i].type # "save"
    <3>1. g # NoGuild => Short(g, p) \in Ask /\ Short(g, p).type # "save"
      BY AsksMade DEF GuildTypeOK, Short
    <3> QED BY <3>1
  <2>4. Leaving(t)' = Leaving(t) \cup {p} /\ p \notin Leaving(t)
    BY <1>0, <2>0, <2>1 DEF Leaving
  <2>5. \A x \in GuildServers : (x # t => Leaving(x)' = Leaving(x)) /\ Coming(x)' = Coming(x)
    BY <1>0, <2>0, <2>1 DEF Leaving, Coming
  <2> HIDE DEF n, short
  <2>6. Lone(asks[t] \o short, "save", Leaving(t)) /\ asks[t] \o short \in Seq(Ask)
    <3>1. Lone(asks[t], "save", Leaving(t)) /\ asks[t] \in Seq(Ask)
      BY <1>0, <2>2 DEF SessionsOK
    <3>2. asks[t] \o short \in Seq(Ask)
      BY <2>3, <3>1, ConcatProperties
    <3> QED BY <2>3, <3>1, <3>2, LoneGrown
  <2>7. Lone(Append(asks[t] \o short, n), "save", Leaving(t) \cup {p})
    BY <2>2, <2>4, <2>6, LoneAppended
  <2>8. asks'[t] = Append(asks[t] \o short, n) /\ \A x \in GuildServers : x # t => asks'[x] = asks[x]
    <3>1. Append(asks[t] \o short, n) = asks[t] \o short \o <<n>>
      BY <2>2, <2>6, AppendIsConcat
    <3> QED BY <2>1, <2>2, <3>1 DEF LinksOK
  <2>9. \A x \in sended' : stage'[x] \in {"auth", "in"}
    <3>1. \A x \in sended : stage[x] \in {"auth", "in"} /\ x \in GuildPlayers
      BY DEF SessionsOK, GuildTypeOK
    <3> QED BY <1>0, <2>1, <3>1
  <2>10. ASSUME NEW x \in GuildServers
         PROVE  Lone(asks'[x], "save", Leaving(x)')
    <3>1. CASE x = t
      BY <2>4, <2>7, <2>8, <3>1
    <3>2. CASE x # t
      <4>1. Lone(asks[x], "save", Leaving(x))
        BY DEF SessionsOK
      <4> QED BY <2>5, <2>8, <3>2, <4>1
    <3> QED BY <3>1, <3>2
  <2> QED BY <2>1, <2>5, <2>9, <2>10 DEF SessionsOK
<1> QED BY <1>1, <1>2, <1>3, <1>4

LEMMA CharSessions ==
    ASSUME GuildTypes, RosterGiven, SessionsOK, NEW s \in GuildServers,
           \/ RecvCreate(s) \/ RecvInfoReq(s) \/ RecvAdd(s) \/ RecvLeave(s) \/ RecvBreak(s)
           \/ RecvShort(s) \/ RecvSaved(s)
    PROVE  SessionsOK'
<1> USE DEF GuildTypes
<1>0. /\ stage \in [GuildPlayers -> {"off", "coming", "auth", "in", "leaving"}]
      /\ server \in [GuildPlayers -> GuildServers]
      /\ \A t \in GuildServers : notices[t] \in Seq(Notice) /\ asks[t] \in Seq(Ask)
  BY DEF GuildTypeOK, LinksOK
<1> DEFINE m == Head(asks[s])
<1>1. asks[s] # <<>> /\ Took(s)
  BY Zenon DEF RecvCreate, RecvInfoReq, RecvAdd, RecvLeave, RecvBreak, RecvShort, RecvSaved, Next1
<1>2. asks'[s] = Tail(asks[s]) /\ \A t \in GuildServers : t # s => asks'[t] = asks[t]
  BY <1>1 DEF Took, LinksOK
<1>3. ASSUME NEW t \in GuildServers
      PROVE  Lone(notices'[t], "authok", Coming(t))
  <2>h. PICK h \in Guilds : \E k : Posting(k, h)
    BY Posts
  <2>1. PICK k : Posting(k, h)
    BY <2>h
  <2>2. k[t] \in Seq(Notice) /\ notices'[t] = notices[t] \o k[t]
    BY <2>1 DEF Posting
  <2>3. \A i \in 1..Len(k[t]) : k[t][i].type # "authok"
    BY <2>1 DEF Posting, Fits
  <2>4. Lone(notices[t], "authok", Coming(t)) /\ notices[t] \in Seq(Notice)
    BY <1>0 DEF SessionsOK
  <2> QED BY <2>2, <2>3, <2>4, LoneGrown
<1>4. /\ Lone(Tail(asks[s]), "save", Leaving(s))
      /\ m.type = "save" => m.player \in Leaving(s) /\ Lone(Tail(asks[s]), "save", Leaving(s) \ {m.player})
  <2>1. Lone(asks[s], "save", Leaving(s)) /\ asks[s] \in Seq(Ask)
    BY <1>0 DEF SessionsOK
  <2> QED BY <1>1, <2>1, LoneRead
<1>5. CASE RecvSaved(s)
  <2> DEFINE p == m.player
  <2>1. /\ m.type = "save" /\ stage' = [stage EXCEPT ![p] = "off"]
        /\ UNCHANGED <<server, sended>>
    BY <1>5 DEF RecvSaved, Next1
  <2>2. p \in Leaving(s)
    BY <1>4, <2>1
  <2> HIDE DEF p
  <2>3. p \in GuildPlayers /\ stage[p] = "leaving" /\ server[p] = s
    BY <2>2 DEF Leaving
  <2>4. Leaving(s)' = Leaving(s) \ {p}
    BY <1>0, <2>1, <2>3 DEF Leaving
  <2>5. \A t \in GuildServers : (t # s => Leaving(t)' = Leaving(t)) /\ Coming(t)' = Coming(t)
    BY <1>0, <2>1, <2>3 DEF Leaving, Coming
  <2>6. \A x \in sended' : stage'[x] \in {"auth", "in"}
    <3>1. \A x \in sended : stage[x] \in {"auth", "in"} /\ x \in GuildPlayers
      BY DEF SessionsOK, GuildTypeOK
    <3> QED BY <1>0, <2>1, <2>3, <3>1
  <2>7. \A t \in GuildServers : Lone(asks'[t], "save", Leaving(t)')
    BY <1>2, <1>4, <2>1, <2>4, <2>5 DEF SessionsOK, p
  <2> QED BY <1>3, <2>5, <2>6, <2>7 DEF SessionsOK
<1>6. CASE \/ RecvCreate(s) \/ RecvInfoReq(s) \/ RecvAdd(s) \/ RecvLeave(s) \/ RecvBreak(s)
           \/ RecvShort(s)
  <2>1. UNCHANGED <<stage, server, sended>>
    <3>1. RecvCreate(s) => UNCHANGED <<stage, server, sended>>
      BY DEF RecvCreate, sessions
    <3>2. RecvInfoReq(s) => UNCHANGED <<stage, server, sended>>
      BY DEF RecvInfoReq, sessions
    <3>3. RecvAdd(s) => UNCHANGED <<stage, server, sended>>
      BY DEF RecvAdd, sessions
    <3>4. RecvLeave(s) => UNCHANGED <<stage, server, sended>>
      BY DEF RecvLeave, sessions
    <3>5. RecvBreak(s) \/ RecvShort(s) => UNCHANGED <<stage, server, sended>>
      BY DEF RecvBreak, RecvShort, sessions
    <3> QED BY <1>6, <3>1, <3>2, <3>3, <3>4, <3>5
  <2>2. \A t \in GuildServers : Leaving(t)' = Leaving(t) /\ Coming(t)' = Coming(t)
    BY <2>1 DEF Leaving, Coming
  <2>3. \A t \in GuildServers : Lone(asks'[t], "save", Leaving(t))
    BY <1>2, <1>4 DEF SessionsOK
  <2> QED BY <1>3, <2>1, <2>2, <2>3 DEF SessionsOK
<1> QED BY <1>5, <1>6

LEMMA MapSessions ==
    ASSUME GuildTypes, SessionsOK, NEW s \in GuildServers,
           \/ RecvAuthok(s) \/ RecvCreated(s) \/ RecvGuildInfo(s) \/ RecvNoinfo(s)
           \/ RecvAdded(s) \/ RecvLeaved(s) \/ RecvMemberShort(s) \/ RecvBroken(s)
    PROVE  SessionsOK'
<1> USE DEF GuildTypes
<1>0. /\ stage \in [GuildPlayers -> {"off", "coming", "auth", "in", "leaving"}]
      /\ server \in [GuildPlayers -> GuildServers]
      /\ \A t \in GuildServers : notices[t] \in Seq(Notice) /\ asks[t] \in Seq(Ask)
  BY DEF GuildTypeOK, LinksOK
<1> DEFINE m == Head(notices[s])
<1>1. notices[s] # <<>> /\ Read(s)
  BY Zenon DEF RecvAuthok, RecvCreated, RecvGuildInfo, RecvNoinfo, RecvAdded, RecvLeaved,
               RecvMemberShort, RecvBroken, First
<1>2. notices'[s] = Tail(notices[s]) /\ \A t \in GuildServers : t # s => notices'[t] = notices[t]
  BY <1>1 DEF Read, LinksOK
<1>3. /\ Lone(Tail(notices[s]), "authok", Coming(s))
      /\ m.type = "authok" => m.player \in Coming(s) /\ Lone(Tail(notices[s]), "authok", Coming(s) \ {m.player})
  <2>1. Lone(notices[s], "authok", Coming(s)) /\ notices[s] \in Seq(Notice)
    BY <1>0 DEF SessionsOK
  <2> QED BY <1>1, <2>1, LoneRead
<1>4. /\ \A t \in GuildServers : Lone(asks'[t], "save", Leaving(t))
      /\ UNCHANGED server
      /\ \/ RecvAuthok(s)
         \/ UNCHANGED stage /\ \A p \in sended' : p \in sended \/ stage[p] \in {"auth", "in"}
  BY MapsAsk, SavesKept
<1>5. CASE RecvAuthok(s)
  <2> DEFINE p == m.player
  <2>1. m.type = "authok" /\ stage' = [stage EXCEPT ![p] = "auth"] /\ UNCHANGED sended
    BY <1>5 DEF RecvAuthok, First
  <2>2. p \in Coming(s)
    BY <1>3, <2>1
  <2> HIDE DEF p
  <2>3. p \in GuildPlayers /\ stage[p] = "coming" /\ server[p] = s
    BY <2>2 DEF Coming
  <2>4. Coming(s)' = Coming(s) \ {p}
    BY <1>0, <1>4, <2>1, <2>3 DEF Coming
  <2>5. \A t \in GuildServers : (t # s => Coming(t)' = Coming(t)) /\ Leaving(t)' = Leaving(t)
    BY <1>0, <1>4, <2>1, <2>3 DEF Leaving, Coming
  <2>6. \A x \in sended' : stage'[x] \in {"auth", "in"}
    <3>1. \A x \in sended : stage[x] \in {"auth", "in"} /\ x \in GuildPlayers
      BY DEF SessionsOK, GuildTypeOK
    <3> QED BY <1>0, <2>1, <2>3, <3>1
  <2>7. \A t \in GuildServers : Lone(notices'[t], "authok", Coming(t)')
    BY <1>2, <1>3, <2>1, <2>4, <2>5 DEF SessionsOK, p
  <2> QED BY <1>4, <2>5, <2>6, <2>7 DEF SessionsOK
<1>6. CASE UNCHANGED stage /\ \A p \in sended' : p \in sended \/ stage[p] \in {"auth", "in"}
  <2>1. \A t \in GuildServers : Leaving(t)' = Leaving(t) /\ Coming(t)' = Coming(t)
    BY <1>4, <1>6 DEF Leaving, Coming
  <2>2. \A t \in GuildServers : Lone(notices'[t], "authok", Coming(t))
    BY <1>2, <1>3 DEF SessionsOK
  <2>3. \A x \in sended' : stage'[x] \in {"auth", "in"}
    BY <1>6 DEF SessionsOK
  <2> QED BY <1>4, <2>1, <2>2, <2>3 DEF SessionsOK
<1> QED BY <1>4, <1>5, <1>6


-----------------------------------------------------------------------------
(* A player who thinks itself a member, and is not, will find out          *)

Mistaken(p, s, g) ==
    /\ stage[p] \in {"auth", "in"} /\ server[p] = s /\ guildId[p] = g
    /\ roster[g] # {} /\ p \notin roster[g]

\* The server will get to know the guild, and check its members.
WillHear(s, g) ==
    \/ \E i \in 1..Len(asks[s]) : asks[s][i].type = "infoReq" /\ asks[s][i].guild = g
    \/ \E i \in 1..Len(notices[s]) : notices[s][i].type = "info" /\ notices[s][i].guild = g

\* It is told, or the server checks it, or it is checked when its map is loaded.
Corrected(p, s, g) ==
    \/ WillTell(notices[s], g, p)
    \/ copy[s][g] = NoCopy /\ WillHear(s, g)
    \/ copy[s][g] # NoCopy /\ p \notin copy[s][g] /\ stage[p] = "auth" /\ p \notin sended

NobodyMisled ==
    \A p \in GuildPlayers, s \in GuildServers, g \in Guilds :
        Mistaken(p, s, g) => Corrected(p, s, g)

Carries(q, r) == \A i \in 1..Len(q) : \E j \in 1..Len(r) : r[j] = q[i]

LEMMA GrownCarries ==
    ASSUME NEW S, NEW q \in Seq(S), NEW k \in Seq(S)
    PROVE  Carries(q, q \o k) /\ \A i \in 1..Len(k) : \E j \in 1..Len(q \o k) : (q \o k)[j] = k[i]
<1>1. /\ Len(q) \in Nat /\ Len(k) \in Nat /\ Len(q \o k) = Len(q) + Len(k)
      /\ \A i \in 1..(Len(q) + Len(k)) :
            (q \o k)[i] = IF i <= Len(q) THEN q[i] ELSE k[i - Len(q)]
  BY ConcatProperties, LenProperties
<1>2. \A i \in 1..Len(q) : i \in 1..Len(q \o k) /\ (q \o k)[i] = q[i]
  BY <1>1
<1>3. \A i \in 1..Len(k) : Len(q) + i \in 1..Len(q \o k) /\ (q \o k)[Len(q) + i] = k[i]
  BY <1>1
<1> QED BY <1>2, <1>3 DEF Carries

LEMMA AsksCarried ==
    ASSUME GuildTypes, NEW s \in GuildServers, \E k : Asking(k) /\ SavesNothing(k)
    PROVE  Carries(asks[s], asks'[s])
<1>1. PICK k : Asking(k)
  OBVIOUS
<1>2. asks[s] \in Seq(Ask) /\ k[s] \in Seq(Ask) /\ asks'[s] = asks[s] \o k[s]
  BY <1>1 DEF Asking, GuildTypes, LinksOK
<1> QED BY <1>2, GrownCarries

LEMMA SameCarries ==
    ASSUME NEW q
    PROVE  Carries(q, q)
  BY DEF Carries

LEMMA HearsOn ==
    ASSUME NEW s, NEW g, Carries(notices[s], notices'[s]), Carries(asks[s], asks'[s]), WillHear(s, g)
    PROVE  WillHear(s, g)'
<1>1. CASE \E i \in 1..Len(asks[s]) : asks[s][i].type = "infoReq" /\ asks[s][i].guild = g
  <2>1. PICK i \in 1..Len(asks[s]) : asks[s][i].type = "infoReq" /\ asks[s][i].guild = g
    BY <1>1
  <2>2. PICK j \in 1..Len(asks'[s]) : asks'[s][j] = asks[s][i]
    BY DEF Carries
  <2> QED BY <2>1, <2>2 DEF WillHear
<1>2. CASE \E i \in 1..Len(notices[s]) : notices[s][i].type = "info" /\ notices[s][i].guild = g
  <2>1. PICK i \in 1..Len(notices[s]) : notices[s][i].type = "info" /\ notices[s][i].guild = g
    BY <1>2
  <2>2. PICK j \in 1..Len(notices'[s]) : notices'[s][j] = notices[s][i]
    BY DEF Carries
  <2> QED BY <2>1, <2>2 DEF WillHear
<1> QED BY <1>1, <1>2 DEF WillHear

LEMMA TellsOn ==
    ASSUME NEW q, NEW r, NEW g, NEW p, Carries(q, r), WillTell(q, g, p)
    PROVE  WillTell(r, g, p)
<1>1. PICK i \in 1..Len(q) : Tells(q[i], g, p)
  BY DEF WillTell
<1>2. PICK j \in 1..Len(r) : r[j] = q[i]
  BY DEF Carries
<1> QED BY <1>1, <1>2 DEF WillTell

\* What corrects p is still on its way.
LEMMA StaysCorrected ==
    ASSUME NEW p, NEW s, NEW g, Corrected(p, s, g),
           Carries(notices[s], notices'[s]), Carries(asks[s], asks'[s]),
           copy'[s][g] = copy[s][g],
           p \in sended' => p \in sended,
           stage[p] = "auth" => stage'[p] = "auth"
    PROVE  Corrected(p, s, g)'
<1>1. WillTell(notices[s], g, p) => WillTell(notices'[s], g, p)
  BY TellsOn
<1>2. WillHear(s, g) => WillHear(s, g)'
  BY HearsOn
<1> HIDE DEF NoCopy
<1> QED BY <1>1, <1>2 DEF Corrected

LEMMA RequestMisled ==
    ASSUME GuildTypes, NobodyMisled, NEW p \in GuildPlayers, NEW q \in GuildPlayers,
           Create(p) \/ Invite(p, q) \/ Decline(p) \/ Accept(p) \/ Quit(p, q) \/ Break(p)
    PROVE  NobodyMisled'
<1>1. UNCHANGED <<stage, server, guildId, sended, notices>> /\ \E k : Asking(k) /\ SavesNothing(k)
  BY RequestsAsk
<1>2. UNCHANGED <<roster, copy>>
  <2>1. Create(p) \/ Invite(p, q) \/ Decline(p) => UNCHANGED <<record, copy>>
    BY Zenon DEF Create, Invite, Decline
  <2>2. Accept(p) \/ Quit(p, q) \/ Break(p) => UNCHANGED <<record, copy>>
    BY Zenon DEF Accept, Quit, Break
  <2> QED BY <2>1, <2>2 DEF record
<1>3. SUFFICES ASSUME NEW x \in GuildPlayers, NEW s \in GuildServers, NEW g \in Guilds,
                      Mistaken(x, s, g)'
               PROVE  Corrected(x, s, g)'
  BY DEF NobodyMisled
<1>4. Corrected(x, s, g)
  BY <1>1, <1>2, <1>3 DEF NobodyMisled, Mistaken
<1>5. Carries(notices[s], notices'[s]) /\ Carries(asks[s], asks'[s])
  BY <1>1, SameCarries, AsksCarried
<1> QED BY <1>1, <1>2, <1>4, <1>5, StaysCorrected

LEMMA TripMisled ==
    ASSUME GuildTypes, NobodyMisled, NEW x \in GuildPlayers, NEW t \in GuildServers,
           Login(x, t) \/ MapLoaded(x) \/ ChangeMap(x) \/ Logout(x)
    PROVE  NobodyMisled'
<1> USE DEF GuildTypes
<1>0. /\ stage \in [GuildPlayers -> {"off", "coming", "auth", "in", "leaving"}]
      /\ server \in [GuildPlayers -> GuildServers]
      /\ guildId \in [GuildPlayers -> Guilds \cup {NoGuild}]
      /\ \A s \in GuildServers : notices[s] \in Seq(Notice) /\ asks[s] \in Seq(Ask)
  BY DEF GuildTypeOK, LinksOK
<1>1. UNCHANGED <<roster, copy>>
  BY Zenon DEF Login, MapLoaded, ChangeMap, Logout, record
<1>2. ASSUME NEW s \in GuildServers
      PROVE  Carries(notices[s], notices'[s])
  <2>1. CASE Login(x, t)
    <3> DEFINE n == [type |-> "authok", player |-> x]
    <3>1. n \in Notice /\ notices' = [notices EXCEPT ![t] = Append(@, n)]
      BY <2>1 DEF Login, Notice
    <3> HIDE DEF n
    <3>2. Append(notices[t], n) = notices[t] \o <<n>> /\ <<n>> \in Seq(Notice)
      BY <1>0, <3>1, AppendIsConcat
    <3>3. Carries(notices[t], notices[t] \o <<n>>)
      BY <1>0, <3>2, GrownCarries
    <3>4. notices'[s] = IF s = t THEN notices[t] \o <<n>> ELSE notices[s]
      BY <3>1, <3>2 DEF LinksOK
    <3> QED BY <3>3, <3>4, SameCarries
  <2>2. CASE MapLoaded(x) \/ ChangeMap(x) \/ Logout(x)
    <3>1. UNCHANGED notices
      BY <2>2 DEF MapLoaded, ChangeMap, Logout
    <3> QED BY <3>1, SameCarries
  <2> QED BY <2>1, <2>2
<1>3. ASSUME NEW s \in GuildServers
      PROVE  Carries(asks[s], asks'[s])
  <2>1. CASE UNCHANGED asks
    BY <2>1, SameCarries
  <2>2. CASE MapLoaded(x)
    <3>1. CASE guildId[x] # NoGuild /\ Send(server[x], Short(guildId[x], x))
      <4>1. Short(guildId[x], x) \in Ask /\ Short(guildId[x], x).type # "save"
        BY <1>0, <3>1, AsksMade DEF Short
      <4> QED BY <1>0, <3>1, <4>1, Sends, AsksCarried
    <3> QED BY <2>1, <2>2, <3>1 DEF MapLoaded
  <2>3. CASE Logout(x)
    <3> DEFINE short == IF guildId[x] # NoGuild /\ copy[server[x]][guildId[x]] # NoCopy
                        THEN <<Short(guildId[x], x)>> ELSE <<>>
               n == [type |-> "save", player |-> x]
    <3>1. asks' = [asks EXCEPT ![server[x]] = @ \o short \o <<n>>]
      BY <2>3 DEF Logout
    <3>2. short \in Seq(Ask) /\ <<n>> \in Seq(Ask)
      <4>1. guildId[x] # NoGuild => Short(guildId[x], x) \in Ask
        BY <1>0, AsksMade
      <4>2. n \in Ask
        BY DEF Ask
      <4> QED BY <4>1, <4>2
    <3> HIDE DEF short, n
    <3>3. PICK u \in GuildServers : u = server[x]
      BY <1>0
    <3>4. Carries(asks[u], asks[u] \o short \o <<n>>)
      <4>1. asks[u] \o short \in Seq(Ask)
        BY <1>0, <3>2, ConcatProperties
      <4>2. Carries(asks[u], asks[u] \o short) /\ Carries(asks[u] \o short, asks[u] \o short \o <<n>>)
        BY <1>0, <3>2, <4>1, GrownCarries
      <4> QED BY <4>2 DEF Carries
    <3>5. asks'[s] = IF s = u THEN asks[u] \o short \o <<n>> ELSE asks[s]
      BY <3>1, <3>3 DEF LinksOK
    <3> QED BY <3>4, <3>5, SameCarries
  <2>4. CASE Login(x, t) \/ ChangeMap(x)
    <3>1. UNCHANGED asks
      BY <2>4 DEF Login, ChangeMap
    <3> QED BY <2>1, <3>1
  <2> QED BY <2>2, <2>3, <2>4
<1>4. SUFFICES ASSUME NEW p \in GuildPlayers, NEW s \in GuildServers, NEW g \in Guilds,
                      Mistaken(p, s, g)'
               PROVE  Corrected(p, s, g)'
  BY DEF NobodyMisled
<1>5. ASSUME Mistaken(p, s, g), p \in sended' => p \in sended, stage[p] = "auth" => stage'[p] = "auth"
      PROVE  Corrected(p, s, g)'
  <2>1. Corrected(p, s, g)
    BY <1>5 DEF NobodyMisled
  <2> QED BY <1>1, <1>2, <1>3, <1>5, <2>1, StaysCorrected
<1>6. CASE Login(x, t)
  <2>1. /\ stage' = [stage EXCEPT ![x] = "coming"] /\ server' = [server EXCEPT ![x] = t]
        /\ UNCHANGED <<guildId, sended>>
    BY <1>6 DEF Login
  <2>2. p # x
    BY <1>0, <1>4, <2>1 DEF Mistaken
  <2> QED BY <1>0, <1>1, <1>4, <1>5, <2>1, <2>2 DEF Mistaken
<1>7. CASE Logout(x)
  <2>1. /\ stage' = [stage EXCEPT ![x] = "leaving"] /\ sended' \subseteq sended
        /\ UNCHANGED <<guildId, server>>
    BY <1>7 DEF Logout
  <2>2. p # x
    BY <1>0, <1>4, <2>1 DEF Mistaken
  <2> QED BY <1>0, <1>1, <1>4, <1>5, <2>1, <2>2 DEF Mistaken
<1>8. CASE ChangeMap(x)
  <2>1. stage[x] = "in" /\ stage' = [stage EXCEPT ![x] = "auth"] /\ UNCHANGED <<guildId, server, sended>>
    BY <1>8 DEF ChangeMap
  <2> QED BY <1>0, <1>1, <1>4, <1>5, <2>1 DEF Mistaken
<1>9. CASE MapLoaded(x)
  <2> DEFINE check == guildId[x] # NoGuild /\ copy[server[x]][guildId[x]] # NoCopy /\ x \notin sended
             out == Strangers(server[x], guildId[x], copy[server[x]][guildId[x]])
  <2>1. /\ stage[x] = "auth" /\ stage' = [stage EXCEPT ![x] = "in"] /\ UNCHANGED server
        /\ check => Outside(out) /\ sended' \subseteq sended \cup {x}
        /\ ~check => UNCHANGED <<guildId, sended>>
    BY <1>9 DEF MapLoaded
  <2>2. guildId'[p] = g => guildId[p] = g
    <3>1. g # NoGuild
      BY GuildAssumption
    <3> HIDE DEF check, out
    <3> QED BY <2>1, <3>1 DEF Outside
  <2>3. Mistaken(p, s, g)
    BY <1>0, <1>1, <1>4, <2>1, <2>2 DEF Mistaken
  <2>4. CASE p # x
    <3> HIDE DEF check, out
    <3> QED BY <1>0, <1>5, <2>1, <2>3, <2>4
  <2>5. CASE p = x
    <3>1. server[x] = s /\ guildId[x] = g /\ g # NoGuild
      BY <2>3, <2>5, GuildAssumption DEF Mistaken
    <3>2. Corrected(x, s, g)
      BY <2>3, <2>5 DEF NobodyMisled
    <3>3. CASE copy[s][g] # NoCopy /\ x \notin copy[s][g] /\ x \notin sended
      <4>1. check /\ x \in out
        BY <2>1, <3>1, <3>3 DEF Strangers, Online
      <4> HIDE DEF check, out
      <4>2. guildId'[x] = NoGuild
        BY <2>1, <4>1 DEF Outside
      <4> QED BY <1>4, <2>5, <3>1, <4>2 DEF Mistaken
    <3>4. CASE WillTell(notices[s], g, x)
      <4>1. WillTell(notices'[s], g, x)
        BY <1>2, <3>4, TellsOn
      <4> QED BY <2>5, <4>1 DEF Corrected
    <3>5. CASE copy[s][g] = NoCopy /\ WillHear(s, g)
      <4>1. WillHear(s, g)'
        BY <1>2, <1>3, <3>5, HearsOn
      <4> HIDE DEF NoCopy
      <4>2. copy'[s][g] = NoCopy
        BY <1>1, <3>5
      <4> QED BY <4>1, <4>2 DEF Corrected
    <3> QED BY <3>2, <3>3, <3>4, <3>5 DEF Corrected
  <2> QED BY <2>4, <2>5
<1> QED BY <1>6, <1>7, <1>8, <1>9


\* The char server only takes what was asked, and lets players go.
LEMMA CharFrame ==
    ASSUME GuildTypes, NEW s \in GuildServers,
           \/ RecvCreate(s) \/ RecvInfoReq(s) \/ RecvAdd(s) \/ RecvLeave(s) \/ RecvBreak(s)
           \/ RecvShort(s) \/ RecvSaved(s)
    PROVE  /\ UNCHANGED <<copy, guildId, server, sended>>
           /\ \A p \in GuildPlayers : stage'[p] \in {"auth", "in"} => stage'[p] = stage[p]
           /\ asks[s] # <<>> /\ Took(s)
<1>1. CASE RecvCreate(s) \/ RecvInfoReq(s) \/ RecvAdd(s) \/ RecvLeave(s) \/ RecvBreak(s) \/ RecvShort(s)
  <2>1. UNCHANGED <<copy, sessions>> /\ asks[s] # <<>> /\ Took(s)
    <3>1. CASE RecvCreate(s) \/ RecvInfoReq(s) \/ RecvAdd(s)
      BY <3>1, Zenon DEF RecvCreate, RecvInfoReq, RecvAdd, Next1
    <3>2. CASE RecvLeave(s) \/ RecvBreak(s) \/ RecvShort(s)
      BY <3>2, Zenon DEF RecvLeave, RecvBreak, RecvShort, Next1
    <3> QED BY <1>1, <3>1, <3>2
  <2> QED BY <2>1 DEF sessions
<1>2. CASE RecvSaved(s)
  BY <1>2 DEF RecvSaved, Next1, GuildTypes, GuildTypeOK
<1> QED BY <1>1, <1>2

\* Whether the guild is still to be asked for, or the answer is on its way.
LEMMA CharHears ==
    ASSUME GuildTypes, RosterGiven, NEW s \in GuildServers,
           \/ RecvCreate(s) \/ RecvInfoReq(s) \/ RecvAdd(s) \/ RecvLeave(s) \/ RecvBreak(s)
           \/ RecvShort(s) \/ RecvSaved(s),
           NEW t \in GuildServers, NEW g \in Guilds, WillHear(t, g), roster[g] # {}
    PROVE  WillHear(t, g)'
<1>0. \A u \in GuildServers : notices[u] \in Seq(Notice) /\ asks[u] \in Seq(Ask)
  BY DEF GuildTypes, LinksOK
<1>h. PICK h \in Guilds : \E k : Posting(k, h)
  BY Posts
<1>1. PICK k : Posting(k, h)
  BY <1>h
<1>2. k[t] \in Seq(Notice) /\ notices'[t] = notices[t] \o k[t]
  BY <1>1 DEF Posting
<1>3. Carries(notices[t], notices'[t])
  BY <1>0, <1>2, GrownCarries
<1>4. CASE \E i \in 1..Len(notices[t]) : notices[t][i].type = "info" /\ notices[t][i].guild = g
  <2>1. PICK i \in 1..Len(notices[t]) : notices[t][i].type = "info" /\ notices[t][i].guild = g
    BY <1>4
  <2>2. PICK j \in 1..Len(notices'[t]) : notices'[t][j] = notices[t][i]
    BY <1>3 DEF Carries
  <2> QED BY <2>1, <2>2 DEF WillHear
<1>5. CASE \E i \in 1..Len(asks[t]) : asks[t][i].type = "infoReq" /\ asks[t][i].guild = g
  <2>1. PICK i \in 1..Len(asks[t]) : asks[t][i].type = "infoReq" /\ asks[t][i].guild = g
    BY <1>5
  <2>2. asks[s] # <<>> /\ asks' = [asks EXCEPT ![s] = Tail(@)]
    BY CharFrame DEF Took
  <2>3. CASE t # s
    <3>1. asks'[t] = asks[t]
      BY <2>2, <2>3 DEF GuildTypes, LinksOK
    <3> QED BY <2>1, <3>1 DEF WillHear
  <2>4. CASE t = s /\ i # 1
    <3>1. asks'[t] = Tail(asks[t])
      BY <2>2, <2>4 DEF GuildTypes, LinksOK
    <3>2. i - 1 \in 1..Len(Tail(asks[t])) /\ Tail(asks[t])[i - 1] = asks[t][i]
      <4>1. asks[t] \in Seq(Ask) /\ asks[t] # <<>>
        BY <1>0, <2>2, <2>4
      <4>2. /\ Len(Tail(asks[t])) = Len(asks[t]) - 1
            /\ \A j \in 1..Len(Tail(asks[t])) : Tail(asks[t])[j] = asks[t][j + 1]
        BY <4>1, HeadTailProperties
      <4>3. Len(asks[t]) \in Nat
        BY <4>1, LenProperties
      <4> QED BY <2>4, <4>2, <4>3
    <3> QED BY <2>1, <3>1, <3>2 DEF WillHear
  <2>5. CASE t = s /\ i = 1
    <3>1. Head(asks[s]) = asks[s][1]
      BY <1>0, <2>2
    <3>2. Head(asks[s]).type = "infoReq" /\ Head(asks[s]).guild = g
      BY <2>1, <2>5, <3>1
    <3>3. RecvInfoReq(s)
      BY <3>2, Zenon DEF RecvCreate, RecvAdd, RecvLeave, RecvBreak, RecvShort, RecvSaved, Next1
    <3> DEFINE n == Info(g, roster[g])
    <3>4. notices'[s] = Append(notices[s], n) /\ n.type = "info" /\ n.guild = g
      BY <3>2, <3>3 DEF RecvInfoReq, GuildTypes, LinksOK, Info
    <3>5. n \in Notice
      BY DEF GuildTypes, GuildTypeOK, Notice, Info
    <3> HIDE DEF n
    <3>6. Len(notices'[s]) = Len(notices[s]) + 1 /\ notices'[s][Len(notices[s]) + 1] = n
      BY <1>0, <3>4, <3>5, AppendProperties
    <3>7. Len(notices[s]) + 1 \in 1..Len(notices'[s])
      <4>1. Len(notices[s]) \in Nat
        BY <1>0, LenProperties
      <4> QED BY <3>6, <4>1
    <3> QED BY <2>5, <3>4, <3>6, <3>7 DEF WillHear
  <2> QED BY <2>3, <2>4, <2>5
<1> QED BY <1>4, <1>5 DEF WillHear

LEMMA CharMisled ==
    ASSUME GuildTypes, RosterGiven, Unborn, NobodyMisled, NEW s \in GuildServers,
           \/ RecvCreate(s) \/ RecvInfoReq(s) \/ RecvAdd(s) \/ RecvLeave(s) \/ RecvBreak(s)
           \/ RecvShort(s) \/ RecvSaved(s)
    PROVE  NobodyMisled'
<1>0. \A u \in GuildServers : notices[u] \in Seq(Notice)
  BY DEF GuildTypes, LinksOK
<1>h. PICK h \in Guilds : \E k : Posting(k, h)
  BY Posts
<1>1. PICK k : Posting(k, h)
  BY <1>h
<1>2. /\ UNCHANGED <<copy, guildId, server, sended>>
      /\ \A p \in GuildPlayers : stage'[p] \in {"auth", "in"} => stage'[p] = stage[p]
  BY CharFrame
<1>3. SUFFICES ASSUME NEW p \in GuildPlayers, NEW t \in GuildServers, NEW g \in Guilds,
                      Mistaken(p, t, g)'
               PROVE  Corrected(p, t, g)'
  BY DEF NobodyMisled
<1>4. /\ stage[p] \in {"auth", "in"} /\ stage'[p] = stage[p] /\ server[p] = t /\ guildId[p] = g
      /\ roster'[g] # {} /\ p \notin roster'[g]
  BY <1>2, <1>3 DEF Mistaken
<1>5. k[t] \in Seq(Notice) /\ notices'[t] = notices[t] \o k[t]
  BY <1>1 DEF Posting
<1>6. /\ Carries(notices[t], notices'[t])
      /\ \A i \in 1..Len(k[t]) : \E j \in 1..Len(notices'[t]) : notices'[t][j] = k[t][i]
  <2>1. notices[t] \in Seq(Notice)
    BY <1>0
  <2>2. /\ Carries(notices[t], notices[t] \o k[t])
        /\ \A i \in 1..Len(k[t]) : \E j \in 1..Len(notices[t] \o k[t]) :
              (notices[t] \o k[t])[j] = k[t][i]
    <3>1. ASSUME NEW q \in Seq(Notice), NEW r \in Seq(Notice)
          PROVE  Carries(q, q \o r) /\ \A i \in 1..Len(r) : \E j \in 1..Len(q \o r) : (q \o r)[j] = r[i]
      BY GrownCarries
    <3>2. k[t] \in Seq(Notice)
      BY <1>5
    <3> QED BY <2>1, <3>1, <3>2, Zenon
  <2> QED BY <1>5, <2>2
<1>7. CASE p \in roster[g]
  <2>1. g = h
    BY <1>1, <1>4, <1>7 DEF Posting
  <2>2. \E i \in 1..Len(k[t]) : Tells(k[t][i], g, p)
    <3>1. p \in roster[h] \ roster'[h] /\ roster'[h] # {}
      BY <1>4, <1>7, <2>1
    <3>2. \A u \in GuildServers : \E i \in 1..Len(k[u]) : Tells(k[u][i], h, p)
      BY <1>1, <3>1 DEF Posting
    <3> QED BY <2>1, <3>2
  <2>3. WillTell(notices'[t], g, p)
    BY <1>6, <2>2 DEF WillTell
  <2> QED BY <2>3 DEF Corrected
<1>8. CASE roster[g] = {}
  <2>1. g \notin given
    BY <1>1, <1>4, <1>8 DEF Posting
  <2> QED BY <1>4, <2>1 DEF Unborn
<1>9. CASE roster[g] # {} /\ p \notin roster[g]
  <2>1. Corrected(p, t, g)
    BY <1>4, <1>9 DEF NobodyMisled, Mistaken
  <2>2. CASE WillTell(notices[t], g, p)
    <3>1. WillTell(notices'[t], g, p)
      BY <1>6, <2>2, TellsOn
    <3> QED BY <3>1 DEF Corrected
  <2>3. CASE copy[t][g] = NoCopy /\ WillHear(t, g)
    <3>1. WillHear(t, g)'
      BY <1>9, <2>3, CharHears
    <3> HIDE DEF NoCopy
    <3>2. copy'[t][g] = NoCopy
      BY <1>2, <2>3
    <3> QED BY <3>1, <3>2 DEF Corrected
  <2>4. CASE copy[t][g] # NoCopy /\ p \notin copy[t][g] /\ stage[p] = "auth" /\ p \notin sended
    <3> HIDE DEF NoCopy
    <3> QED BY <1>2, <1>4, <2>4 DEF Corrected
  <2> QED BY <2>1, <2>2, <2>3, <2>4 DEF Corrected
<1> QED BY <1>7, <1>8, <1>9


\* A server that is still to be told, or is made to err, will be told.
LEMMA ReadTells ==
    ASSUME GuildTypes, Forgetting, NEW s \in GuildServers, Reading(s),
           NEW p \in GuildPlayers, NEW g \in Guilds, roster[g] # {}, p \notin roster[g],
           \/ Names(Head(notices[s]), g, p)
           \/ WillTell(notices[s], g, p) /\ ~Tells(Head(notices[s]), g, p)
    PROVE  WillTell(notices'[s], g, p)
<1>1. notices[s] \in Seq(Notice) /\ notices[s] # <<>>
  BY DEF Reading, GuildTypes, LinksOK
<1>2. notices'[s] = Tail(notices[s])
  BY DEF Reading, Read, GuildTypes, LinksOK
<1>3. WillForget(notices[s], copy[s][g], g, p)
  BY DEF Forgetting
<1> QED BY <1>1, <1>2, <1>3, ForgetRead

\* A server reads a notice that does not change what p takes itself for.
LEMMA ReadCorrected ==
    ASSUME GuildTypes, Forgetting, NobodyMisled, NEW s \in GuildServers, Reading(s),
           \E k : Asking(k) /\ SavesNothing(k),
           NEW p \in GuildPlayers, NEW t \in GuildServers, NEW g \in Guilds,
           Mistaken(p, t, g), stage'[p] = stage[p], p \in sended' => p \in sended,
           t = s => /\ ~Tells(Head(notices[s]), g, p)
                    /\ About(g, Head(notices[s])) => Head(notices[s]).type = "leaved"
    PROVE  Corrected(p, t, g)'
<1>1. notices[s] \in Seq(Notice) /\ notices[s] # <<>>
  BY DEF Reading, GuildTypes, LinksOK
<1>2. notices'[s] = Tail(notices[s]) /\ (t # s => notices'[t] = notices[t])
  BY DEF Reading, Read, GuildTypes, LinksOK
<1>3. Corrected(p, t, g) /\ roster[g] # {} /\ p \notin roster[g]
  BY DEF NobodyMisled, Mistaken
<1>4. Carries(asks[t], asks'[t])
  BY AsksCarried
<1>5. CASE t # s
  <2>1. copy'[t][g] = copy[t][g]
    BY <1>5 DEF Reading
  <2>2. Carries(notices[t], notices'[t])
    BY <1>2, <1>5, SameCarries
  <2> QED BY <1>3, <1>4, <2>1, <2>2, StaysCorrected
<1>6. CASE t = s
  <2>1. CASE WillTell(notices[s], g, p)
    <3>1. WillTell(notices'[s], g, p)
      BY <1>3, <1>6, <2>1, ReadTells
    <3> QED BY <1>6, <3>1 DEF Corrected
  <2>2. /\ ~About(g, Head(notices[s])) => copy'[s][g] = copy[s][g]
        /\ About(g, Head(notices[s])) =>
              copy'[s][g] = IF copy[s][g] = NoCopy THEN NoCopy
                            ELSE copy[s][g] \ {Head(notices[s]).player}
    BY <1>6 DEF Reading
  <2>3. CASE copy[s][g] = NoCopy /\ WillHear(s, g)
    <3>1. copy'[s][g] = NoCopy
      <4> HIDE DEF NoCopy
      <4> QED BY <2>2, <2>3
    <3>2. CASE \E i \in 1..Len(asks[s]) : asks[s][i].type = "infoReq" /\ asks[s][i].guild = g
      <4>1. PICK i \in 1..Len(asks[s]) : asks[s][i].type = "infoReq" /\ asks[s][i].guild = g
        BY <3>2
      <4>2. PICK j \in 1..Len(asks'[s]) : asks'[s][j] = asks[s][i]
        BY <1>4, <1>6 DEF Carries
      <4> HIDE DEF NoCopy
      <4> QED BY <1>6, <3>1, <4>1, <4>2 DEF Corrected, WillHear
    <3>3. CASE \E i \in 1..Len(notices[s]) : notices[s][i].type = "info" /\ notices[s][i].guild = g
      <4>1. PICK i \in 1..Len(notices[s]) : notices[s][i].type = "info" /\ notices[s][i].guild = g
        BY <3>3
      <4>2. i # 1
        BY <1>1, <1>6, <4>1, ReadElements DEF About
      <4>3. i - 1 \in 1..Len(notices'[s]) /\ notices[s][i] = notices'[s][i - 1]
        BY <1>1, <1>2, <4>2, ReadElements
      <4> HIDE DEF NoCopy
      <4> QED BY <1>6, <3>1, <4>1, <4>3 DEF Corrected, WillHear
    <3> QED BY <2>3, <3>2, <3>3 DEF WillHear
  <2>4. CASE copy[s][g] # NoCopy /\ p \notin copy[s][g] /\ stage[p] = "auth" /\ p \notin sended
    <3>1. copy[s][g] \in SUBSET GuildPlayers
      BY <2>4, CopiesType DEF GuildTypes, GuildTypeOK
    <3>2. p \notin copy'[s][g] /\ copy'[s][g] # NoCopy
      <4>1. \A x : copy[s][g] \ {x} # NoCopy
        BY <3>1, GuildAssumption DEF NoCopy
      <4> HIDE DEF NoCopy
      <4> QED BY <2>2, <2>4, <4>1
    <3> HIDE DEF NoCopy
    <3> QED BY <1>6, <2>4, <3>2 DEF Corrected
  <2> QED BY <1>3, <1>6, <2>1, <2>3, <2>4 DEF Corrected
<1> QED BY <1>5, <1>6

\* A player is let in: the server asks for its guild, or has a copy to check it by.
LEMMA AuthokMisled ==
    ASSUME GuildTypes, Forgetting, SessionsOK, NobodyMisled, NEW s \in GuildServers, RecvAuthok(s)
    PROVE  NobodyMisled'
<1> DEFINE x == Head(notices[s]).player
<1>0. /\ notices[s] \in Seq(Notice) /\ notices[s] # <<>> /\ asks[s] \in Seq(Ask)
      /\ Head(notices[s]).type = "authok" /\ stage' = [stage EXCEPT ![x] = "auth"]
      /\ UNCHANGED <<roster, copy, server, guildId, sended>>
      /\ stage \in [GuildPlayers -> {"off", "coming", "auth", "in", "leaving"}]
  BY DEF RecvAuthok, First, GuildTypes, LinksOK, GuildTypeOK, record
<1>1. Reading(s) /\ \E k : Asking(k) /\ SavesNothing(k)
  BY Reads, MapsAsk, Zenon
<1>2. x \in GuildPlayers /\ stage[x] = "coming" /\ server[x] = s /\ x \notin sended
  <2>1. Lone(notices[s], "authok", Coming(s))
    BY DEF SessionsOK
  <2>2. x \in Coming(s)
    BY <1>0, <2>1, LoneRead
  <2> QED BY <2>2 DEF Coming, SessionsOK
<1>3. SUFFICES ASSUME NEW p \in GuildPlayers, NEW t \in GuildServers, NEW g \in Guilds,
                      Mistaken(p, t, g)'
               PROVE  Corrected(p, t, g)'
  BY DEF NobodyMisled
<1>4. server[p] = t /\ guildId[p] = g /\ roster[g] # {} /\ p \notin roster[g]
  BY <1>0, <1>3 DEF Mistaken
<1>5. ~About(g, Head(notices[s])) /\ ~Tells(Head(notices[s]), g, p)
  BY <1>0 DEF About, Tells
<1>6. CASE p # x
  <2> HIDE DEF x
  <2>1. stage'[p] = stage[p] /\ Mistaken(p, t, g)
    BY <1>0, <1>3, <1>6 DEF Mistaken
  <2> QED BY <1>0, <1>1, <1>5, <2>1, ReadCorrected
<1>7. CASE p = x
  <2>1. t = s
    BY <1>2, <1>4, <1>7
  <2>2. CASE copy[s][g] = NoCopy
    <3> DEFINE n == [type |-> "infoReq", guild |-> g]
    <3>1. asks'[s] = Append(asks[s], n)
      <4>1. g # NoGuild /\ guildId[x] = g
        BY <1>4, <1>7, GuildAssumption
      <4>2. Send(s, n)
        BY <2>2, <4>1 DEF RecvAuthok
      <4> HIDE DEF n
      <4> QED BY <4>2 DEF Send, GuildTypes, LinksOK
    <3>2. n \in Ask
      BY AsksMade
    <3>3. n.type = "infoReq" /\ n.guild = g
      OBVIOUS
    <3> HIDE DEF n
    <3>4. Len(asks'[s]) = Len(asks[s]) + 1 /\ asks'[s][Len(asks[s]) + 1] = n
      BY <1>0, <3>1, <3>2, AppendProperties
    <3>5. Len(asks[s]) + 1 \in 1..Len(asks'[s])
      <4>1. Len(asks[s]) \in Nat
        BY <1>0, LenProperties
      <4> QED BY <3>4, <4>1
    <3>6. WillHear(s, g)'
      BY <3>3, <3>4, <3>5 DEF WillHear
    <3> HIDE DEF NoCopy
    <3> QED BY <1>0, <2>1, <2>2, <3>6 DEF Corrected
  <2>3. CASE copy[s][g] # NoCopy /\ p \in copy[s][g]
    <3>1. WillForget(notices[s], copy[s][g], g, p)
      BY <1>4 DEF Forgetting
    <3>2. WillTell(notices[s], g, p)
      <4> HIDE DEF NoCopy
      <4> QED BY <2>3, <3>1 DEF WillForget
    <3>3. WillTell(notices'[s], g, p)
      BY <1>1, <1>4, <1>5, <3>2, ReadTells
    <3> QED BY <2>1, <3>3 DEF Corrected
  <2>4. CASE copy[s][g] # NoCopy /\ p \notin copy[s][g]
    <3>1. stage'[p] = "auth" /\ p \notin sended'
      <4> HIDE DEF x
      <4> QED BY <1>0, <1>2, <1>7
    <3> HIDE DEF NoCopy, x
    <3> QED BY <1>0, <2>1, <2>4, <3>1 DEF Corrected
  <2> QED BY <2>2, <2>3, <2>4
<1> QED BY <1>6, <1>7

\* guild_recv_info checks the members of a guild that is new to the server.
LEMMA InfoMisled ==
    ASSUME GuildTypes, Forgetting, NobodyMisled, NEW s \in GuildServers, RecvGuildInfo(s)
    PROVE  NobodyMisled'
<1> DEFINE m == Head(notices[s])
           h == m.guild
           out == IF copy[s][h] = NoCopy THEN Strangers(s, h, m.members) ELSE {}
<1>0. /\ m.type = "info" /\ m \in Notice /\ h \in Guilds /\ m.members \in SUBSET GuildPlayers
      /\ Outside(out) /\ sended' = (sended \ out) \cup linked'[s][h]
      /\ copy'[s][h] = m.members
      /\ linked'[s][h] = Linked(s, h, m.members)
      /\ UNCHANGED <<roster, server, stage>>
  <2>1. First(s, "info") /\ Outside(out) /\ sended' = (sended \ out) \cup linked'[s][h]
    BY DEF RecvGuildInfo
  <2>2. copy' = [copy EXCEPT ![s][h] = m.members] /\ UNCHANGED <<roster, server, stage>>
    BY DEF RecvGuildInfo, record
  <2>3. linked' = [linked EXCEPT ![s][h] = Linked(s, h, m.members)]
    BY DEF RecvGuildInfo
  <2>4. m \in Notice /\ m.type = "info"
    BY <2>1, LinkHead DEF First, GuildTypes, LinksOK
  <2>5. h \in Guilds /\ m.members \in SUBSET GuildPlayers
    BY <2>4, NoticeParts
  <2> HIDE DEF m, h, out
  <2>6. copy \in [GuildServers -> [Guilds -> Copies]] /\ m.members \in Copies
    BY <2>5, CopiesType DEF GuildTypes, GuildTypeOK
  <2>7. linked \in [GuildServers -> [Guilds -> SUBSET GuildPlayers]]
        /\ Linked(s, h, m.members) \in SUBSET GuildPlayers
    BY <2>5 DEF GuildTypes, GuildTypeOK, Linked
  <2>8. copy'[s][h] = m.members
    BY <2>2, <2>5, <2>6, EntrySet
  <2>9. linked'[s][h] = Linked(s, h, m.members)
    BY <2>3, <2>5, <2>7, EntrySet
  <2> QED BY <2>1, <2>2, <2>4, <2>5, <2>8, <2>9
<1>1. Reading(s) /\ \E k : Asking(k) /\ SavesNothing(k)
  BY Reads, MapsAsk, Zenon
<1>2. SUFFICES ASSUME NEW p \in GuildPlayers, NEW t \in GuildServers, NEW g \in Guilds,
                      Mistaken(p, t, g)'
               PROVE  Corrected(p, t, g)'
  BY DEF NobodyMisled
<1>3. Mistaken(p, t, g) /\ p \notin out
  <2>1. g # NoGuild /\ guildId'[p] = g
    BY <1>2, GuildAssumption DEF Mistaken
  <2> HIDE DEF out
  <2>2. guildId[p] = g /\ p \notin out
    BY <1>0, <2>1 DEF Outside
  <2> QED BY <1>0, <1>2, <2>2 DEF Mistaken
<1>4. /\ stage[p] \in {"auth", "in"} /\ server[p] = t /\ guildId[p] = g
      /\ roster[g] # {} /\ p \notin roster[g]
  BY <1>3 DEF Mistaken
<1>5. CASE t # s \/ g # h
  <2> HIDE DEF out, h, m
  <2>1. p \notin linked'[s][h]
    BY <1>0, <1>4, <1>5 DEF Linked, Online
  <2>2. p \in sended' => p \in sended
    BY <1>0, <2>1
  <2>3. ~Tells(m, g, p) /\ (t = s => ~About(g, m))
    BY <1>0, <1>5 DEF Tells, About, h
  <2> QED BY <1>0, <1>1, <1>3, <2>2, <2>3, ReadCorrected DEF m
<1>6. CASE t = s /\ g = h
  <2>1. CASE p \in m.members
    <3>1. Names(m, g, p)
      BY <1>0, <1>6, <2>1 DEF Names
    <3>2. WillTell(notices'[s], g, p)
      BY <1>1, <1>4, <3>1, ReadTells
    <3> QED BY <1>6, <3>2 DEF Corrected
  <2>2. CASE p \notin m.members
    <3>1. copy[s][g] # NoCopy
      BY <1>3, <1>4, <1>6, <2>2 DEF Strangers, Online
    <3>2. Corrected(p, s, g)
      BY <1>3, <1>6 DEF NobodyMisled
    <3>3. CASE WillTell(notices[s], g, p)
      <4>1. ~Tells(m, g, p)
        BY <1>0 DEF Tells
      <4>2. WillTell(notices'[s], g, p)
        BY <1>1, <1>4, <3>3, <4>1, ReadTells
      <4> QED BY <1>6, <4>2 DEF Corrected
    <3>4. CASE stage[p] = "auth" /\ p \notin sended
      <4> HIDE DEF out, m, h
      <4>1. p \notin sended'
        BY <1>0, <2>2, <3>4 DEF Linked
      <4>2. copy'[s][g] # NoCopy /\ p \notin copy'[s][g]
        <5>1. m.members # NoCopy
          BY <1>0, GuildAssumption DEF NoCopy
        <5> HIDE DEF NoCopy
        <5> QED BY <1>0, <1>6, <2>2, <5>1
      <4> HIDE DEF NoCopy
      <4> QED BY <1>0, <1>6, <3>4, <4>1, <4>2 DEF Corrected
    <3> HIDE DEF NoCopy
    <3> QED BY <3>1, <3>2, <3>3, <3>4 DEF Corrected
  <2> QED BY <2>1, <2>2
<1> QED BY <1>5, <1>6


\* Whoever is made a member although the record does not have it will be told.
LEMMA NamedMisled ==
    ASSUME GuildTypes, Forgetting, NobodyMisled, NEW s \in GuildServers,
           RecvCreated(s) \/ RecvAdded(s)
    PROVE  NobodyMisled'
<1> DEFINE m == Head(notices[s])
<1>0. /\ m.type \in {"created", "added"} /\ UNCHANGED <<roster, server, stage>> /\ sended' \subseteq sended
      /\ guildId \in [GuildPlayers -> Guilds \cup {NoGuild}]
      /\ \/ UNCHANGED guildId
         \/ /\ m.player \in Online(s) /\ guildId' = [guildId EXCEPT ![m.player] = m.guild]
            /\ m.type = "added" => m.flag = 0
  <2>1. guildId \in [GuildPlayers -> Guilds \cup {NoGuild}]
    BY DEF GuildTypes, GuildTypeOK
  <2>2. CASE RecvCreated(s)
    BY <2>1, <2>2 DEF RecvCreated, First, record
  <2>3. CASE RecvAdded(s)
    <3>1. m.type = "added" /\ UNCHANGED <<roster, server, stage>>
      BY <2>3 DEF RecvAdded, First, record
    <3>2. \/ UNCHANGED <<guildId, sended>>
          \/ /\ m.player \in Online(s)
             /\ guildId' = IF m.flag = 0 THEN [guildId EXCEPT ![m.player] = m.guild] ELSE guildId
             /\ sended' = IF m.flag = 0 THEN sended \ {m.player} ELSE sended
      BY <2>3, Zenon DEF RecvAdded
    <3> HIDE DEF m
    <3> QED BY <2>1, <3>1, <3>2
  <2> QED BY <2>2, <2>3
<1>1. Reading(s) /\ \E k : Asking(k) /\ SavesNothing(k)
  BY Reads, MapsAsk, Zenon
<1>2. SUFFICES ASSUME NEW p \in GuildPlayers, NEW t \in GuildServers, NEW g \in Guilds,
                      Mistaken(p, t, g)'
               PROVE  Corrected(p, t, g)'
  BY DEF NobodyMisled
<1>3. ~Tells(m, g, p) /\ ~About(g, m)
  BY <1>0 DEF Tells, About
<1>4. CASE guildId'[p] = guildId[p]
  <2>1. Mistaken(p, t, g)
    BY <1>0, <1>2, <1>4 DEF Mistaken
  <2>2. stage'[p] = stage[p] /\ (p \in sended' => p \in sended)
    BY <1>0
  <2> QED BY <1>1, <1>3, <2>1, <2>2, ReadCorrected
<1>5. CASE guildId'[p] # guildId[p]
  <2> HIDE DEF m
  <2>1. p = m.player /\ guildId'[p] = m.guild /\ p \in Online(s) /\ (m.type = "added" => m.flag = 0)
    BY <1>0, <1>5
  <2>2. m.guild = g /\ t = s /\ roster[g] # {} /\ p \notin roster[g]
    BY <1>0, <1>2, <2>1 DEF Mistaken, Online
  <2>3. Names(m, g, p)
    BY <1>0, <2>1, <2>2 DEF Names
  <2>4. WillTell(notices'[s], g, p)
    BY <1>1, <2>2, <2>3, ReadTells DEF m
  <2> QED BY <2>2, <2>4 DEF Corrected
<1> QED BY <1>4, <1>5

\* The others make nobody a member.
LEMMA OutMisled ==
    ASSUME GuildTypes, Forgetting, BreaksTrue, NobodyMisled, NEW s \in GuildServers,
           RecvNoinfo(s) \/ RecvLeaved(s) \/ RecvMemberShort(s) \/ RecvBroken(s)
    PROVE  NobodyMisled'
<1> DEFINE m == Head(notices[s])
<1>0. /\ m.type \in {"noinfo", "leaved", "short", "broken"} /\ notices[s] # <<>>
      /\ UNCHANGED <<roster, server, stage>> /\ sended' \subseteq sended
      /\ \E out : Outside(out) /\ (m.type = "leaved" =>
            out = {q \in Online(s) \cap {m.player} : guildId[q] = m.guild})
  <2>1. CASE RecvNoinfo(s)
    BY <2>1 DEF RecvNoinfo, First, record
  <2>2. CASE RecvLeaved(s)
    BY <2>2 DEF RecvLeaved, First, record
  <2>3. CASE RecvMemberShort(s)
    BY <2>3 DEF RecvMemberShort, First, record
  <2>4. CASE RecvBroken(s)
    BY <2>4 DEF RecvBroken, First, record
  <2> QED BY <2>1, <2>2, <2>3, <2>4
<1>1. Reading(s) /\ \E k : Asking(k) /\ SavesNothing(k)
  BY Reads, MapsAsk, Zenon
<1>2. SUFFICES ASSUME NEW p \in GuildPlayers, NEW t \in GuildServers, NEW g \in Guilds,
                      Mistaken(p, t, g)'
               PROVE  Corrected(p, t, g)'
  BY DEF NobodyMisled
<1>3. PICK out : Outside(out) /\ (m.type = "leaved" =>
                    out = {q \in Online(s) \cap {m.player} : guildId[q] = m.guild})
  BY <1>0
<1>4. guildId[p] = g /\ p \notin out
  <2>1. g # NoGuild /\ guildId'[p] = g
    BY <1>2, GuildAssumption DEF Mistaken
  <2> HIDE DEF m
  <2> QED BY <1>3, <2>1 DEF Outside
<1>5. Mistaken(p, t, g)
  <2> HIDE DEF m
  <2> QED BY <1>0, <1>2, <1>4 DEF Mistaken
<1>6. t = s => ~Tells(m, g, p)
  <2>1. t = s => p \in Online(s)
    BY <1>5 DEF Mistaken, Online
  <2> HIDE DEF m
  <2> QED BY <1>3, <1>4, <2>1 DEF Tells
<1>7. About(g, m) => m.type = "leaved"
  <2>1. m.type # "broken" \/ m.guild # g
    <3>1. m = notices[s][1] /\ 1 \in 1..Len(notices[s])
      <4>1. notices[s] \in Seq(Notice)
        BY DEF GuildTypes, LinksOK
      <4> QED BY <1>0, <4>1, ReadElements
    <3>2. m.type = "broken" => roster[m.guild] = {}
      BY <3>1 DEF BreaksTrue
    <3>3. roster[g] # {}
      BY <1>5 DEF Mistaken
    <3> HIDE DEF m
    <3> QED BY <3>2, <3>3
  <2> HIDE DEF m
  <2> QED BY <1>0, <2>1 DEF About
<1>8. stage'[p] = stage[p] /\ (p \in sended' => p \in sended)
  BY <1>0
<1> QED BY <1>1, <1>5, <1>6, <1>7, <1>8, ReadCorrected

LEMMA NobodyMisledStep ==
    ASSUME GuildTypes, RosterGiven, Unborn, Forgetting, BreaksTrue, SessionsOK, NobodyMisled,
           [GuildNext]_guildVars
    PROVE  NobodyMisled'
<1>1. CASE UNCHANGED guildVars
  <2>1. UNCHANGED <<stage, server, guildId, sended, notices, asks, roster, copy>>
    BY <1>1 DEF guildVars, record
  <2>2. ASSUME NEW p \in GuildPlayers, NEW s \in GuildServers, NEW g \in Guilds, Mistaken(p, s, g)'
        PROVE  Corrected(p, s, g)'
    <3>1. Corrected(p, s, g)
      BY <2>1, <2>2 DEF NobodyMisled, Mistaken
    <3>2. Carries(notices[s], notices'[s]) /\ Carries(asks[s], asks'[s])
      BY <2>1, SameCarries
    <3> QED BY <2>1, <3>1, <3>2, StaysCorrected
  <2> QED BY <2>2 DEF NobodyMisled
<1>2. ASSUME NEW p \in GuildPlayers, NEW q \in GuildPlayers,
             Create(p) \/ Invite(p, q) \/ Decline(p) \/ Accept(p) \/ Quit(p, q) \/ Break(p)
      PROVE  NobodyMisled'
  BY <1>2, RequestMisled, Zenon
<1>3. ASSUME NEW p \in GuildPlayers, NEW s \in GuildServers,
             Login(p, s) \/ MapLoaded(p) \/ ChangeMap(p) \/ Logout(p)
      PROVE  NobodyMisled'
  BY <1>3, TripMisled, Zenon
<1>4. ASSUME NEW s \in GuildServers,
             \/ RecvCreate(s) \/ RecvInfoReq(s) \/ RecvAdd(s) \/ RecvLeave(s) \/ RecvBreak(s)
             \/ RecvShort(s) \/ RecvSaved(s)
      PROVE  NobodyMisled'
  BY <1>4, CharMisled, Zenon
<1>5. ASSUME NEW s \in GuildServers,
             \/ RecvAuthok(s) \/ RecvCreated(s) \/ RecvGuildInfo(s) \/ RecvNoinfo(s)
             \/ RecvAdded(s) \/ RecvLeaved(s) \/ RecvMemberShort(s) \/ RecvBroken(s)
      PROVE  NobodyMisled'
  BY <1>5, AuthokMisled, InfoMisled, NamedMisled, OutMisled, Zenon
<1>6. FirstServer \in GuildServers /\ Master \in GuildPlayers
  BY GuildAssumption
<1> QED BY <1>1, <1>2, <1>3, <1>4, <1>5, <1>6, Zenon DEF GuildNext


-----------------------------------------------------------------------------
(* The inductive invariant                                                 *)

GuildInv ==
    /\ GuildTypes /\ RosterGiven
    /\ Agreeing /\ Unborn /\ Forgetting /\ BreaksTrue
    /\ SessionsOK
    /\ NobodyMisled

LEMMA SessionsStep ==
    ASSUME GuildTypes, RosterGiven, SessionsOK, [GuildNext]_guildVars
    PROVE  SessionsOK'
<1>1. CASE UNCHANGED guildVars
  <2>1. UNCHANGED <<stage, server, sended, notices, asks>>
    BY <1>1 DEF guildVars
  <2> QED BY <2>1 DEF SessionsOK, Lone, Coming, Leaving
<1>2. ASSUME NEW p \in GuildPlayers, NEW q \in GuildPlayers,
             Create(p) \/ Invite(p, q) \/ Decline(p) \/ Accept(p) \/ Quit(p, q) \/ Break(p)
      PROVE  SessionsOK'
  BY <1>2, RequestSessions, Zenon
<1>3. ASSUME NEW p \in GuildPlayers, NEW s \in GuildServers,
             Login(p, s) \/ MapLoaded(p) \/ ChangeMap(p) \/ Logout(p)
      PROVE  SessionsOK'
  BY <1>3, TripSessions, Zenon
<1>4. ASSUME NEW s \in GuildServers,
             \/ RecvCreate(s) \/ RecvInfoReq(s) \/ RecvAdd(s) \/ RecvLeave(s) \/ RecvBreak(s)
             \/ RecvShort(s) \/ RecvSaved(s)
      PROVE  SessionsOK'
  BY <1>4, CharSessions, Zenon
<1>5. ASSUME NEW s \in GuildServers,
             \/ RecvAuthok(s) \/ RecvCreated(s) \/ RecvGuildInfo(s) \/ RecvNoinfo(s)
             \/ RecvAdded(s) \/ RecvLeaved(s) \/ RecvMemberShort(s) \/ RecvBroken(s)
      PROVE  SessionsOK'
  BY <1>5, MapSessions, Zenon
<1>6. FirstServer \in GuildServers /\ Master \in GuildPlayers
  BY GuildAssumption
<1> QED BY <1>1, <1>2, <1>3, <1>4, <1>5, <1>6, Zenon DEF GuildNext

LEMMA GuildInvInit ==
    ASSUME GuildInit
    PROVE  GuildInv
<1>1. GuildTypes
  BY GuildTypesInit
<1>2. \A s \in GuildServers : notices[s] = <<>> /\ asks[s] = <<>> /\ Len(<<>>) = 0
  BY DEF GuildInit
<1>3. \A i \in 1..0 : FALSE
  OBVIOUS
<1>4. \A g \in Guilds : roster[g] # {} => g = FirstGuild /\ roster[g] = {Master}
  BY DEF GuildInit
<1>5. given = {FirstGuild}
  BY DEF GuildInit
<1>6. \A s \in GuildServers, g \in Guilds :
         /\ g # FirstGuild => copy[s][g] = NoCopy
         /\ g = FirstGuild => copy[s][g] \in {NoCopy, roster[g]}
  <2> HIDE DEF NoCopy
  <2> QED BY DEF GuildInit
<1>7. \A p \in GuildPlayers :
         /\ p # Master => guildId[p] = NoGuild
         /\ p = Master => guildId[p] = FirstGuild /\ stage[p] = "in"
  BY DEF GuildInit
<1>8. RosterGiven
  BY <1>4, <1>5 DEF RosterGiven
<1>9. Agreeing
  <2>1. SUFFICES ASSUME NEW s \in GuildServers, NEW g \in Guilds
                 PROVE  copy[s][g] \in {NoCopy, roster[g]} /\ SaysNothing(notices[s], g)
    BY DEF Agreeing, WillAgree
  <2>2. SaysNothing(notices[s], g)
    BY <1>2, <1>3 DEF SaysNothing
  <2> HIDE DEF NoCopy
  <2> QED BY <1>6, <2>2
<1>10. Unborn
  <2>1. \A g \in Guilds \ given : g # FirstGuild /\ g # NoGuild
    BY <1>5, GuildAssumption
  <2>2. \A s \in GuildServers : Len(notices[s]) = 0
    BY <1>2
  <2> HIDE DEF NoCopy
  <2> QED BY <1>3, <1>6, <1>7, <2>1, <2>2 DEF Unborn
<1>11. Forgetting
  <2>1. SUFFICES ASSUME NEW s \in GuildServers, NEW g \in Guilds, NEW p \in GuildPlayers,
                        roster[g] # {}, p \notin roster[g]
                 PROVE  WillForget(notices[s], copy[s][g], g, p)
    BY DEF Forgetting
  <2>2. copy[s][g] = NoCopy \/ p \notin copy[s][g]
    <3> HIDE DEF NoCopy
    <3> QED BY <1>4, <1>6, <2>1
  <2> HIDE DEF NoCopy
  <2> QED BY <1>2, <1>3, <2>2 DEF WillForget
<1>12. BreaksTrue /\ SessionsOK
  <2>1. BreaksTrue
    BY <1>2, <1>3 DEF BreaksTrue
  <2>2. \A p \in sended : stage[p] \in {"auth", "in"}
    BY <1>7, GuildAssumption DEF GuildInit
  <2>3. \A s \in GuildServers : /\ Lone(notices[s], "authok", Coming(s))
                                /\ Lone(asks[s], "save", Leaving(s))
    BY <1>2, <1>3 DEF Lone
  <2> QED BY <2>1, <2>2, <2>3 DEF SessionsOK
<1>13. NobodyMisled
  <2>1. SUFFICES ASSUME NEW p \in GuildPlayers, NEW s \in GuildServers, NEW g \in Guilds,
                        Mistaken(p, s, g)
                 PROVE  FALSE
    BY DEF NobodyMisled
  <2>2. g = FirstGuild /\ roster[g] = {Master} /\ p # Master /\ guildId[p] = g
    BY <1>4, <2>1 DEF Mistaken
  <2> QED BY <1>7, <2>2, GuildAssumption
<1> QED BY <1>1, <1>8, <1>9, <1>10, <1>11, <1>12, <1>13 DEF GuildInv

LEMMA GuildInvStep ==
    ASSUME GuildInv, [GuildNext]_guildVars
    PROVE  GuildInv'
<1>1. GuildTypes' /\ RosterGiven' /\ Agreeing' /\ Unborn'
  BY GuildTypesStep, RosterGivenStep, AgreeingStep, UnbornStep DEF GuildInv
<1>2. Forgetting' /\ BreaksTrue' /\ SessionsOK'
  BY ForgettingStep, BreaksTrueStep, SessionsStep DEF GuildInv
<1>3. NobodyMisled'
  BY NobodyMisledStep DEF GuildInv
<1> QED BY <1>1, <1>2, <1>3 DEF GuildInv

\* The record, the copies, the sessions and what is on the links between them
\* stay in the relations of GuildInv in every behaviour.
THEOREM GuildInvariance ==
    GuildSpec => []GuildInv
<1>1. GuildInit => GuildInv
  BY GuildInvInit
<1>2. GuildInv /\ [GuildNext]_guildVars => GuildInv'
  BY GuildInvStep
<1> QED BY <1>1, <1>2, PTL DEF GuildSpec

\* The tables of int_guild.c and guild.c and the players' guild_id keep their types.
THEOREM GuildTypeCorrect ==
    GuildSpec => []GuildTypeOK
<1>1. GuildInv => GuildTypeOK
  BY DEF GuildInv, GuildTypes
<1> QED BY <1>1, GuildInvariance, PTL

\* With nothing on the links, what guild_recv_info and guild_member_leaved made
\* of a map server's copy is what int_guild.c has of that guild.
THEOREM CopiesAgreeHolds ==
    GuildSpec => []CopiesAgree
<1>1. ASSUME GuildInv, Quiet, NEW s \in GuildServers, NEW g \in Guilds
      PROVE  copy[s][g] \in {NoCopy, roster[g]}
  <2>1. WillAgree(notices[s], copy[s][g], g, roster[g])
    BY <1>1 DEF GuildInv, Agreeing
  <2>2. \A i \in 1..Len(notices[s]) : FALSE
    <3>1. Len(notices[s]) = 0
      BY <1>1 DEF Quiet
    <3> QED BY <3>1
  <2> HIDE DEF NoCopy
  <2> QED BY <2>1, <2>2 DEF WillAgree
<1>2. GuildInv => CopiesAgree
  BY <1>1 DEF CopiesAgree
<1> QED BY <1>2, GuildInvariance, PTL

\* With nothing on the links, nobody on a map has the guild_id of a guild that
\* int_guild.c took it out of.
THEOREM NoFalseMemberHolds ==
    GuildSpec => []NoFalseMember
<1>1. ASSUME GuildInv, Quiet, NEW p \in GuildPlayers, NEW g \in Guilds,
             stage[p] = "in", roster[g] # {}, guildId[p] = g, p \notin roster[g]
      PROVE  FALSE
  <2>1. PICK s \in GuildServers : s = server[p]
    BY <1>1 DEF GuildInv, GuildTypes, GuildTypeOK
  <2>2. Corrected(p, s, g)
    <3>1. Mistaken(p, s, g)
      BY <1>1, <2>1 DEF Mistaken
    <3> QED BY <1>1, <3>1 DEF GuildInv, NobodyMisled
  <2>3. (\A i \in 1..Len(notices[s]) : FALSE) /\ (\A i \in 1..Len(asks[s]) : FALSE)
    <3>1. Len(notices[s]) = 0 /\ Len(asks[s]) = 0
      BY <1>1 DEF Quiet
    <3> QED BY <3>1
  <2> HIDE DEF NoCopy
  <2> QED BY <1>1, <2>2, <2>3 DEF Corrected, WillTell, WillHear
<1>2. GuildInv => NoFalseMember
  BY <1>1 DEF NoFalseMember
<1> QED BY <1>2, GuildInvariance, PTL

=============================================================================
