---------------------------- MODULE CharSession ----------------------------
(***************************************************************************)
(* How a character gets from the character-select screen onto a map        *)
(* server, from one map server to another, back to the select screen and   *)
(* off the server again: the char server (src/src/char/char.c), the map    *)
(* servers (chrif.c, clif.c, pc.c, map.c and unit.c under src/src/map) and *)
(* the FIFO links between them.                                            *)
(*                                                                         *)
(* Every server is one event loop, so an action is one handler run to its  *)
(* end.  Interleaving comes from the links, from clients that connect and  *)
(* vanish at will, from the five-second close timers and from link or      *)
(* process failures.                                                       *)
(*                                                                         *)
(* A character's saved record is reduced to how often it changed (ver) and *)
(* to the map server that owns the map it stands on.  A login stands for   *)
(* one login_id1, the random number the login server hands out.            *)
(***************************************************************************)
EXTENDS Integers, Sequences, FiniteSets

CONSTANTS
    MapServers,       \* map server processes
    Fds,              \* client socket descriptors of one map server
    Accounts, Chars, Logins, Clients,
    OwnerOf,          \* account of a character
    AccountOf,        \* account of a login
    ClientOf,         \* client program that performs a login
    HomeOf,           \* map server of a character's first saved position
    Restarters,       \* bound: logins that go back to the select screen
    Quitters,         \* bound: logins that use the menu's quit
    FifoSize,         \* AUTH_FIFO_SIZE
    MaxVer,           \* bound: changes to one character
    MaxQueue,         \* bound: messages on one link before senders pause
    MaxPending,       \* bound: unanswered auth requests per account and server
    MaxFaults,        \* bound: link failures and crashes
    None, Second      \* no value; the new_fd (-1) of a second connection

ASSUME FifoAssumption == FifoSize \in Nat \ {0}
ASSUME VerAssumption == MaxVer \in Nat
ASSUME MapsAssumption ==
    /\ OwnerOf \in [Chars -> Accounts]
    /\ AccountOf \in [Logins -> Accounts]
    /\ ClientOf \in [Logins -> Clients]
    /\ HomeOf \in [Chars -> MapServers]
ASSUME NoneAssumption ==
    /\ None \notin MapServers \cup Accounts \cup Chars \cup Logins \cup Fds
    /\ Second \notin Fds \cup {None}

VARIABLES
    fifo, fifoPos,    \* char server: ring of auth tickets and its next slot
    online,           \* char server: char_online_db
    saved,            \* char server: the stored characters
    toChar, toMap,    \* links, one FIFO per map server and direction
    link,             \* is the map server connected to the char server
    sess,             \* map server: session[fd] with its map_session_data
    idDb,             \* map server: id_db, account -> descriptor or None
    waitclose,        \* map server: descriptors with a clif_waitclose timer
    client,           \* what each login's client is doing
    faults            \* failures so far

charVars == <<fifo, fifoPos, online, saved>>
mapVars  == <<sess, idDb, waitclose>>
linkVars == <<toChar, toMap, link>>
vars == <<charVars, mapVars, linkVars, client, faults>>

-----------------------------------------------------------------------------
(* Data *)

\* struct mmo_charstatus, reduced to what the properties tell apart.
Status   == [char : Chars, ver : 0..MaxVer, map : MapServers]
NoStatus == [char |-> None, ver |-> 0, map |-> None]

\* delflag of an auth_fifo entry: 0 a ticket for a map server, 2 one back to
\* the select screen, 1 used up.  Nothing reads the rest of a used entry, nor
\* matches a slot never written, so both are NoTicket.
Ticket   == [flag : {0, 2}, login : Logins, char : Chars \cup {None}]
NoTicket == [flag |-> 1, login |-> None, char |-> None]

\* phase is session[fd], state.auth and state.waitingdisconnect in one:
\* free (no session), new (auth=0), auth (auth=1), parked (waitingdisconnect).
\* newfd is sd->new_fd: the descriptor of a second connection, None for 0 and
\* Second for -1.
Phases   == {"free", "new", "auth", "parked"}
FreeSlot == [phase |-> "free", acc |-> None, login |-> None, char |-> None,
             newfd |-> None, st |-> NoStatus]
Session  == [phase : Phases, acc : Accounts, login : Logins, char : Chars,
             newfd : Fds \cup {None, Second}, st : Status \cup {NoStatus}]

CharMsg ==   [type : {"auth"}, acc : Accounts, char : Chars, login : Logins]
        \cup [type : {"save"}, acc : Accounts, char : Chars, st : Status]
        \cup [type : {"charsel"}, acc : Accounts, login : Logins]
        \cup [type : {"move"}, acc : Accounts, char : Chars, login : Logins,
              to : MapServers]
        \cup [type : {"quit"}, acc : Accounts, char : Chars]

MapMsg ==    [type : {"ok"}, acc : Accounts, st : Status]
        \cup [type : {"fail"}, acc : Accounts \cup {None}]
        \cup [type : {"selok", "kick", "disc"}, acc : Accounts]
        \cup [type : {"moveok"}, acc : Accounts, char : Chars, to : MapServers]

ClientPhases == {"new", "select", "go", "in", "back", "done"}
NoClient == [phase |-> "new", srv |-> None, fd |-> None, char |-> None]
Done     == [NoClient EXCEPT !.phase = "done"]
AtSelect == [NoClient EXCEPT !.phase = "select"]

CharTypeOK ==
    /\ fifo \in [1..FifoSize -> Ticket \cup {NoTicket}]
    /\ fifoPos \in 1..FifoSize
    /\ online \in [Accounts -> [srv : MapServers \cup {None},
                                char : Chars \cup {None}]]
    /\ saved \in [Chars -> [ver : 0..MaxVer, map : MapServers]]

LinkTypeOK ==
    /\ toChar \in [MapServers -> Seq(CharMsg)]
    /\ toMap \in [MapServers -> Seq(MapMsg)]
    /\ link \in [MapServers -> BOOLEAN]

MapTypeOK ==
    /\ sess \in [MapServers -> [Fds -> Session \cup {FreeSlot}]]
    /\ \A m \in MapServers, f \in Fds :
          sess[m][f].phase \in {"auth", "parked"} => sess[m][f].st \in Status
    /\ idDb \in [MapServers -> [Accounts -> Fds \cup {None}]]
    /\ waitclose \in [MapServers -> SUBSET Fds]

ClientTypeOK ==
    /\ client \in [Logins -> [phase : ClientPhases,
                              srv : MapServers \cup {None},
                              fd : Fds \cup {None}, char : Chars \cup {None}]]
    /\ \A l \in Logins :
          client[l].phase \in {"go", "in"} =>
              client[l].srv \in MapServers /\ client[l].char \in Chars
    /\ faults \in Nat

TypeOK == CharTypeOK /\ LinkTypeOK /\ MapTypeOK /\ ClientTypeOK

Init ==
    /\ fifo = [i \in 1..FifoSize |-> NoTicket]
    /\ fifoPos = 1
    /\ online = [a \in Accounts |-> [srv |-> None, char |-> None]]
    /\ saved = [c \in Chars |-> [ver |-> 0, map |-> HomeOf[c]]]
    /\ toChar = [m \in MapServers |-> <<>>]
    /\ toMap = [m \in MapServers |-> <<>>]
    /\ link = [m \in MapServers |-> TRUE]
    /\ sess = [m \in MapServers |-> [f \in Fds |-> FreeSlot]]
    /\ idDb = [m \in MapServers |-> [a \in Accounts |-> None]]
    /\ waitclose = [m \in MapServers |-> {}]
    /\ client = [l \in Logins |-> NoClient]
    /\ faults = 0

-----------------------------------------------------------------------------
(* Sending *)

\* WFIFOSET on a link: char_fd is 0, and the message is dropped, while the
\* link is down.
ToChar(m, msgs) ==
    toChar' = [toChar EXCEPT ![m] = IF link[m] THEN @ \o msgs ELSE @]

\* mapif_sendall, or one reply when ms is a single server.
ToMaps(ms, msg) ==
    toMap' = [m \in MapServers |->
                 IF m \in ms /\ link[m] THEN Append(toMap[m], msg) ELSE toMap[m]]

\* Senders that would otherwise run for ever pause at MaxQueue messages.
Room(m) == Len(toChar[m]) < MaxQueue /\ Len(toMap[m]) <= MaxQueue

SaveMsg(s) == [type |-> "save", acc |-> s.acc, char |-> s.char, st |-> s.st]

-----------------------------------------------------------------------------
(* The char server: clients at the select screen *)

\* Mistake: the ring's position is not wrapped.
AddTicketNoWrap(t) ==
    /\ fifo' = [fifo EXCEPT ![fifoPos] = t]
    /\ fifoPos' = fifoPos + 1

\* A new ticket overwrites the oldest one.
AddTicket(t) ==
    /\ fifo' = [fifo EXCEPT ![fifoPos] = t]
    /\ fifoPos' = IF fifoPos = FifoSize THEN 1 ELSE fifoPos + 1

Matching(l, c, flag) ==
    {i \in 1..FifoSize :
        fifo[i].flag = flag /\ fifo[i].login = l /\ (flag = 2 \/ fifo[i].char = c)}

First(S) == CHOOSE i \in S : \A j \in S : i <= j

Consume(i) == fifo' = [fifo EXCEPT ![i] = NoTicket]

\* A client program starts a new login once it has given up its earlier ones.
\* The login server vouches for it (packets 0x2712 and 0x2713).
Login(l) ==
    /\ client[l].phase = "new"
    /\ \A k \in Logins \ {l} :
          ClientOf[k] = ClientOf[l] => client[k].phase \in {"new", "done"}
    /\ client' = [client EXCEPT ![l] = AtSelect]
    /\ UNCHANGED <<charVars, mapVars, linkVars, faults>>

\* 0x65 from a client a map server sent back to the select screen: it needs
\* the delflag 2 ticket, because its ticket at the login server is used up.
Return(l) ==
    /\ client[l].phase = "back"
    /\ \/ /\ Matching(l, None, 2) # {}
          /\ Consume(First(Matching(l, None, 2)))
          /\ client' = [client EXCEPT ![l] = AtSelect]
       \/ /\ Matching(l, None, 2) = {}
          /\ client' = [client EXCEPT ![l] = Done]
          /\ UNCHANGED fifo
    /\ UNCHANGED <<fifoPos, online, saved, mapVars, linkVars, faults>>

\* 0x66: the character's map server takes it, unless it is down (then nothing
\* happens) or the account is online on another map server.
Select(l, c) ==
    LET a == AccountOf[l]
        m == saved[c].map
        elsewhere == online[a].srv \notin {None, m}
    IN  /\ client[l].phase = "select"
        /\ OwnerOf[c] = a
        /\ link[m]
        /\ \/ /\ ~elsewhere
              /\ AddTicket([flag |-> 0, login |-> l, char |-> c])
              /\ client' = [client EXCEPT ![l] =
                    [phase |-> "go", srv |-> m, fd |-> None, char |-> c]]
              /\ UNCHANGED toMap
           \/ /\ elsewhere
              /\ \A x \in MapServers : Len(toMap[x]) < MaxQueue
              /\ ToMaps(MapServers, [type |-> "kick", acc |-> a])
              /\ UNCHANGED <<fifo, fifoPos, client>>
        /\ UNCHANGED <<online, saved, mapVars, toChar, link, faults>>

-----------------------------------------------------------------------------
(* The char server: requests of map server m (parse_frommap) *)

HasRequest(m, type) == toChar[m] # <<>> /\ Head(toChar[m]).type = type

Request(m) == Head(toChar[m])

TakeRequest(m) == toChar' = [toChar EXCEPT ![m] = Tail(@)]

\* 0x2afc.  A refusal stores only the low 16 bits of the account id, so it
\* names the account or, when other bytes lie in the buffer, nobody.
RecvAuth(m) ==
    LET q == Request(m)
        tickets == Matching(q.login, q.char, 0)
    IN  /\ HasRequest(m, "auth")
        /\ TakeRequest(m)
        /\ \/ /\ tickets = {}
              /\ \E a \in {q.acc, None} :
                    ToMaps({m}, [type |-> "fail", acc |-> a])
              /\ UNCHANGED <<fifo, online>>
           \/ /\ tickets # {}
              /\ Consume(First(tickets))
              /\ ToMaps({m}, [type |-> "ok", acc |-> q.acc,
                              st |-> [char |-> q.char,
                                      ver |-> saved[q.char].ver,
                                      map |-> saved[q.char].map]])
              /\ online' = [online EXCEPT ![q.acc] =
                               [srv |-> m, char |-> q.char]]
        /\ UNCHANGED <<fifoPos, saved, mapVars, link, client, faults>>

\* 0x2b01, from whichever map server it comes.
RecvSave(m) ==
    LET q == Request(m)
    IN  /\ HasRequest(m, "save")
        /\ TakeRequest(m)
        /\ \/ /\ q.st.char = q.char
              /\ saved' = [saved EXCEPT ![q.char] =
                              [ver |-> q.st.ver, map |-> q.st.map]]
              /\ UNCHANGED toMap
           \/ /\ q.st.char # q.char
              /\ ToMaps(MapServers, [type |-> "disc", acc |-> q.acc])
              /\ UNCHANGED saved
        /\ UNCHANGED <<fifo, fifoPos, online, mapVars, link, client, faults>>

\* 0x2b02
RecvCharSelect(m) ==
    LET q == Request(m)
    IN  /\ HasRequest(m, "charsel")
        /\ TakeRequest(m)
        /\ AddTicket([flag |-> 2, login |-> q.login, char |-> None])
        /\ ToMaps({m}, [type |-> "selok", acc |-> q.acc])
        /\ UNCHANGED <<online, saved, mapVars, link, client, faults>>

\* 0x2b05
RecvMove(m) ==
    LET q == Request(m)
    IN  /\ HasRequest(m, "move")
        /\ TakeRequest(m)
        /\ AddTicket([flag |-> 0, login |-> q.login, char |-> q.char])
        /\ ToMaps({m}, [type |-> "moveok", acc |-> q.acc, char |-> q.char,
                        to |-> q.to])
        /\ UNCHANGED <<online, saved, mapVars, link, client, faults>>

\* 0x2b18 forgets the account, whoever is online under it by now.
RecvQuit(m) ==
    LET q == Request(m)
    IN  /\ HasRequest(m, "quit")
        /\ TakeRequest(m)
        /\ online' = [online EXCEPT ![q.acc] = [srv |-> None, char |-> None]]
        /\ UNCHANGED <<fifo, fifoPos, saved, mapVars, toMap, link, client, faults>>

-----------------------------------------------------------------------------
(* A map server: its table of sessions *)

Entry(m, a) == idDb[m][a]                       \* map_id2sd

Open(m, f) == sess[m][f].phase # "free"

Authed(m, f) == sess[m][f].phase \in {"auth", "parked"}   \* state.auth

\* On a map of this server: neither leaving nor about to be sent elsewhere.
Playing(m, f) == sess[m][f].phase = "auth" /\ sess[m][f].st.map = m

Attached(l, m, f) ==
    client[l].phase = "in" /\ client[l].srv = m /\ client[l].fd = f

\* The clients on descriptors F of m see their connection end.
ClientsLose(m, F) ==
    client' = [l \in Logins |->
                  IF \E f \in F : Attached(l, m, f) THEN Done ELSE client[l]]

\* 0x2afc requests of account a that m has sent and not seen answered.
Pending(m, a) ==
    LET asks(q)  == q.type = "auth" /\ q.acc = a
        answers(q) == q.type \in {"ok", "fail"} /\ q.acc \in {a, None}
    IN  Cardinality({i \in DOMAIN toChar[m] : asks(toChar[m][i])})
        + Cardinality({i \in DOMAIN toMap[m] : answers(toMap[m][i])})

\* clif_parse_WantToConnection.  The second connection of an account stays
\* out of id_db and is noted in the first one's new_fd.
Connect(l, f) ==
    LET m == client[l].srv
        a == AccountOf[l]
        old == Entry(m, a)
        new == [phase |-> "new", acc |-> a, login |-> l, char |-> client[l].char,
                newfd |-> IF old = None THEN None ELSE Second, st |-> NoStatus]
    IN  /\ client[l].phase = "go"
        /\ link[m]
        /\ ~Open(m, f)
        /\ Room(m)
        /\ Pending(m, a) < MaxPending
        /\ sess' = [sess EXCEPT ![m] = [g \in Fds |->
                       IF g = f THEN new
                       ELSE IF g = old THEN [@[g] EXCEPT !.newfd = f]
                       ELSE @[g]]]
        /\ idDb' = [idDb EXCEPT ![m][a] = IF old = None THEN f ELSE old]
        /\ ToChar(m, <<[type |-> "auth", acc |-> a, char |-> client[l].char,
                        login |-> l]>>)
        /\ client' = [client EXCEPT ![l].phase = "in", ![l].fd = f]
        /\ UNCHANGED <<charVars, waitclose, toMap, link, faults>>

\* Mistake: a session that has already handed the character on saves it too.
QuitMsgsParkedToo(s) ==
    IF s.phase \notin {"auth", "parked"} THEN <<>>
    ELSE <<SaveMsg(s), [type |-> "quit", acc |-> s.acc, char |-> s.st.char]>>

\* map_quit and chrif_chardisconnect, as clif_disconnect calls them for an
\* authenticated session: save unless it is parked or a second connection.
QuitMsgs(s) ==
    IF s.phase \notin {"auth", "parked"} THEN <<>>
    ELSE (IF s.phase = "auth" /\ s.newfd # Second THEN <<SaveMsg(s)>> ELSE <<>>)
         \o <<[type |-> "quit", acc |-> s.acc, char |-> s.st.char]>>

\* Mistake: the account's entry goes, whichever session it names.
EntryAfterCloseAny(m, f) == [idDb[m] EXCEPT ![sess[m][f].acc] = None]

\* Leaving id_db: map_quit erases the account's entry whatever it points to,
\* clif_disconnect only an entry that is this session's own.
EntryAfterClose(m, f) ==
    LET s == sess[m][f]
        erased == \/ s.phase \in {"auth", "parked"} /\ s.newfd # Second
                  \/ Entry(m, s.acc) = f
    IN  [idDb[m] EXCEPT ![s.acc] = IF erased THEN None ELSE @]

\* delete_session on a client's descriptor, which runs clif_disconnect.
Close(m, f) ==
    /\ sess' = [sess EXCEPT ![m][f] = FreeSlot]
    /\ idDb' = [idDb EXCEPT ![m] = EntryAfterClose(m, f)]
    /\ ToChar(m, QuitMsgs(sess[m][f]))
    /\ ClientsLose(m, {f})

\* The connection ends: the client went away, a timeout, a full send buffer.
Disconnect(m, f) ==
    /\ Open(m, f)
    /\ Close(m, f)
    /\ UNCHANGED <<charVars, waitclose, toMap, link, faults>>

\* clif_waitclose, five seconds after clif_setwaitclose: whatever session has
\* the descriptor by now is closed.
WaitClose(m, f) ==
    /\ f \in waitclose[m]
    /\ waitclose' = [waitclose EXCEPT ![m] = @ \ {f}]
    /\ \/ Open(m, f) /\ Close(m, f)
       \/ ~Open(m, f) /\ UNCHANGED <<sess, idDb, toChar, client>>
    /\ UNCHANGED <<charVars, toMap, link, faults>>

SetWaitClose(m, F) == waitclose' = [waitclose EXCEPT ![m] = @ \cup F]

-----------------------------------------------------------------------------
(* A map server: answers of the char server (chrif_parse) *)

HasAnswer(m, type) == toMap[m] # <<>> /\ Head(toMap[m]).type = type

Answer(m) == Head(toMap[m])

TakeAnswer(m) == toMap' = [toMap EXCEPT ![m] = Tail(@)]

\* The session an answer is for: the account's entry in id_db, if it has one.
Addressee(m) ==
    IF Answer(m).acc = None THEN None ELSE Entry(m, Answer(m).acc)

\* unit_free, chrif_save and chrif_changemapserver of session s, which goes
\* to server x.
Leave(s, x) == [s EXCEPT !.phase = "parked", !.st.map = x]

\* Mistake: the ticket is asked for before the character is saved.
LeaveMsgsMoveFirst(s, x) ==
    <<[type |-> "move", acc |-> s.acc, char |-> s.st.char, login |-> s.login,
       to |-> x],
      SaveMsg(Leave(s, x))>>

LeaveMsgs(s, x) ==
    <<SaveMsg(Leave(s, x)),
      [type |-> "move", acc |-> s.acc, char |-> s.st.char, login |-> s.login,
       to |-> x]>>

\* Mistake: whoever asks may play, wherever the character's map is.
AuthOkAnywhere(m) ==
    LET f == Addressee(m)
    IN  /\ HasAnswer(m, "ok")
        /\ f # None
        /\ sess[m][f].newfd = None
        /\ TakeAnswer(m)
        /\ sess' = [sess EXCEPT ![m][f].phase = "auth",
                                ![m][f].st = [Answer(m).st EXCEPT !.map = m]]
        /\ UNCHANGED <<charVars, idDb, waitclose, toChar, link, client, faults>>

\* Mistake: the character that comes with the answer is not compared.
AuthOkUncompared(m) ==
    LET f == Addressee(m)
        in == [sess[m][f] EXCEPT !.phase = "auth", !.st = Answer(m).st]
        x == Answer(m).st.map
    IN  /\ HasAnswer(m, "ok")
        /\ f # None
        /\ sess[m][f].newfd = None
        /\ TakeAnswer(m)
        /\ \/ /\ x = m \/ ~link[x]
              /\ sess' = [sess EXCEPT ![m][f] = in]
              /\ UNCHANGED toChar
           \/ /\ x # m /\ link[x]
              /\ sess' = [sess EXCEPT ![m][f] = Leave(in, x)]
              /\ ToChar(m, LeaveMsgs(in, x))
        /\ UNCHANGED <<charVars, idDb, waitclose, link, client, faults>>

\* chrif_authok, pc_authok with new_fd = 0: the status is copied in before
\* the char id is compared; pc_setpos then finds the character's map here,
\* sends it to the server that owns the map, or fails when that one is down.
AuthOk(m) ==
    LET f == Addressee(m)
        st == Answer(m).st
        s == [sess[m][f] EXCEPT !.st = st]
        in == [s EXCEPT !.phase = "auth"]
    IN  /\ HasAnswer(m, "ok")
        /\ f # None
        /\ sess[m][f].newfd = None
        /\ TakeAnswer(m)
        /\ \/ /\ st.char # s.char
              /\ sess' = [sess EXCEPT ![m][f] = s]
              /\ SetWaitClose(m, {f})
              /\ UNCHANGED toChar
           \/ /\ st.char = s.char
              /\ st.map = m \/ ~link[st.map]
              /\ sess' = [sess EXCEPT ![m][f] = in]
              /\ UNCHANGED <<toChar, waitclose>>
           \/ /\ st.char = s.char
              /\ st.map # m /\ link[st.map]
              /\ sess' = [sess EXCEPT ![m][f] = Leave(in, st.map)]
              /\ ToChar(m, LeaveMsgs(in, st.map))
              /\ UNCHANGED waitclose
        /\ UNCHANGED <<charVars, idDb, link, client, faults>>

\* pc_authok with new_fd # 0.  The test that would drop the new connection as
\* well reads the socket's own fields for the account id: it may hit or miss.
AuthOkTwice(m) ==
    LET f == Addressee(m)
        n == sess[m][f].newfd
    IN  /\ HasAnswer(m, "ok")
        /\ f # None
        /\ n # None
        /\ TakeAnswer(m)
        /\ \/ SetWaitClose(m, {f})
           \/ Open(m, n) /\ SetWaitClose(m, {f, n})
        /\ UNCHANGED <<charVars, sess, idDb, toChar, link, client, faults>>

\* Mistake: the accounts online on a lost server are kept.
ForgetOnlineNever(ms) == online' = online

\* What the char server and the map server do when their link ends: the char
\* server forgets the accounts online there (parse_map_disconnect).
ForgetOnline(ms) ==
    online' = [a \in Accounts |->
                  IF online[a].srv \in ms THEN [srv |-> None, char |-> None]
                  ELSE online[a]]

\* The map server process dies with everything it holds.
Die(m) ==
    /\ sess' = [sess EXCEPT ![m] = [f \in Fds |-> FreeSlot]]
    /\ idDb' = [idDb EXCEPT ![m] = [a \in Accounts |-> None]]
    /\ waitclose' = [waitclose EXCEPT ![m] = {}]
    /\ link' = [link EXCEPT ![m] = FALSE]
    /\ toChar' = [toChar EXCEPT ![m] = <<>>]
    /\ toMap' = [toMap EXCEPT ![m] = <<>>]
    /\ ForgetOnline({m})
    /\ ClientsLose(m, Fds)
    /\ UNCHANGED <<fifo, fifoPos, saved>>

\* pc_authfail: a second connection fails alone and is forgotten; writing the
\* refusal to one that has gone dereferences a null session pointer.
AuthFail(m) ==
    LET f == Addressee(m)
        n == sess[m][f].newfd
    IN  /\ HasAnswer(m, "fail")
        /\ f # None
        /\ \/ /\ n # None /\ Open(m, n)
              /\ SetWaitClose(m, {n})
              /\ sess' = [sess EXCEPT ![m][f].newfd = None]
              /\ TakeAnswer(m)
              /\ UNCHANGED <<charVars, idDb, toChar, link, client>>
           \/ /\ n # None /\ ~Open(m, n)
              /\ Die(m)
           \/ /\ n = None
              /\ SetWaitClose(m, {f})
              /\ TakeAnswer(m)
              /\ UNCHANGED <<charVars, sess, idDb, toChar, link, client>>
        /\ UNCHANGED faults

\* Mistake: the request to drop the account is read and not acted on.
KickedInVain(m) ==
    /\ HasAnswer(m, "kick") \/ HasAnswer(m, "disc")
    /\ Addressee(m) # None
    /\ TakeAnswer(m)
    /\ UNCHANGED <<charVars, mapVars, toChar, link, client, faults>>

\* 0x2b1a and 0x2b19
Kicked(m) ==
    /\ HasAnswer(m, "kick") \/ HasAnswer(m, "disc")
    /\ Addressee(m) # None
    /\ TakeAnswer(m)
    /\ SetWaitClose(m, {Addressee(m)})
    /\ UNCHANGED <<charVars, sess, idDb, toChar, link, client, faults>>

\* The client attached to descriptor f is told to continue in state c.
TellClient(m, f, c) ==
    client' = [l \in Logins |-> IF Attached(l, m, f) THEN c ELSE client[l]]

\* 0x2b03: the client leaves for the select screen.
CharSelectOk(m) ==
    /\ HasAnswer(m, "selok")
    /\ Addressee(m) # None
    /\ TakeAnswer(m)
    /\ TellClient(m, Addressee(m), [NoClient EXCEPT !.phase = "back"])
    /\ UNCHANGED <<charVars, mapVars, toChar, link, faults>>

\* 0x2b06: the client leaves for the other map server.
MoveOk(m) ==
    LET f == Addressee(m)
    IN  /\ HasAnswer(m, "moveok")
        /\ f # None
        /\ sess[m][f].st.char = Answer(m).char
        /\ TakeAnswer(m)
        /\ TellClient(m, f, [phase |-> "go", srv |-> Answer(m).to, fd |-> None,
                             char |-> Answer(m).char])
        /\ UNCHANGED <<charVars, mapVars, toChar, link, faults>>

\* An answer for an account that has no entry in id_db, or for a character
\* the entry does not hold.
IgnoreAnswer(m) ==
    /\ toMap[m] # <<>>
    /\ \/ Addressee(m) = None
       \/ /\ Answer(m).type = "moveok"
          /\ Addressee(m) # None
          /\ sess[m][Addressee(m)].st.char # Answer(m).char
    /\ TakeAnswer(m)
    /\ UNCHANGED <<charVars, mapVars, toChar, link, client, faults>>

-----------------------------------------------------------------------------
(* A map server: authenticated sessions *)

\* Anything that changes the character.
Play(m, f) ==
    /\ sess[m][f].phase = "auth"
    /\ sess[m][f].st.ver < MaxVer
    /\ sess' = [sess EXCEPT ![m][f].st.ver = @ + 1]
    /\ UNCHANGED <<charVars, linkVars, idDb, waitclose, client, faults>>

\* pc_autosave, and every other chrif_save in mid-game.
Autosave(m, f) ==
    /\ sess[m][f].phase = "auth"
    /\ Room(m)
    /\ ToChar(m, <<SaveMsg(sess[m][f])>>)
    /\ UNCHANGED <<charVars, mapVars, toMap, link, client, faults>>

\* pc_setpos to a map of server x.
ChangeServer(m, f, x) ==
    /\ sess[m][f].phase = "auth"
    /\ x # m /\ link[x]
    /\ Room(m)
    /\ sess' = [sess EXCEPT ![m][f] = Leave(@, x)]
    /\ ToChar(m, LeaveMsgs(sess[m][f], x))
    /\ UNCHANGED <<charVars, idDb, waitclose, toMap, link, client, faults>>

\* clif_parse_Restart, type 1
RequestCharSelect(l, m, f) ==
    /\ l \in Restarters
    /\ Attached(l, m, f)
    /\ sess[m][f].phase = "auth"
    /\ Room(m)
    /\ sess' = [sess EXCEPT ![m][f].phase = "parked"]
    /\ ToChar(m, <<SaveMsg(sess[m][f]),
                   [type |-> "charsel", acc |-> sess[m][f].acc,
                    login |-> sess[m][f].login]>>)
    /\ UNCHANGED <<charVars, idDb, waitclose, toMap, link, client, faults>>

\* clif_parse_QuitGame
QuitGame(l, m, f) ==
    /\ l \in Quitters
    /\ Attached(l, m, f)
    /\ sess[m][f].phase = "auth"
    /\ f \notin waitclose[m]
    /\ SetWaitClose(m, {f})
    /\ UNCHANGED <<charVars, sess, idDb, linkVars, client, faults>>

-----------------------------------------------------------------------------
(* Clients that give up, and failures *)

\* The client stops; a map server learns of it later (Disconnect).
GiveUp(l) ==
    /\ client[l].phase \notin {"new", "done"}
    /\ client' = [client EXCEPT ![l] = Done]
    /\ UNCHANGED <<charVars, mapVars, linkVars, faults>>

\* clif_parse while the char server is unreachable.
ConnectRefused(l) ==
    /\ client[l].phase = "go"
    /\ ~link[client[l].srv]
    /\ client' = [client EXCEPT ![l] = Done]
    /\ UNCHANGED <<charVars, mapVars, linkVars, faults>>

Fault == faults < MaxFaults /\ faults' = faults + 1

\* chrif_disconnect on the map servers ms: only authenticated sessions that
\* are not parked are deleted, and nothing can be saved any more.
DropPlayers(ms) ==
    LET gone(m, f) == m \in ms /\ sess[m][f].phase = "auth"
    IN  /\ sess' = [m \in MapServers |-> [f \in Fds |->
                       IF gone(m, f) THEN FreeSlot ELSE sess[m][f]]]
        /\ idDb' = [m \in MapServers |-> [a \in Accounts |->
                       IF \E f \in Fds : gone(m, f) /\ sess[m][f].acc = a
                       THEN None ELSE idDb[m][a]]]
        /\ link' = [m \in MapServers |-> link[m] /\ m \notin ms]
        /\ toChar' = [m \in MapServers |-> IF m \in ms THEN <<>> ELSE toChar[m]]
        /\ toMap' = [m \in MapServers |-> IF m \in ms THEN <<>> ELSE toMap[m]]

LostClients(ms) ==
    {l \in Logins : \E m \in ms, f \in Fds :
        Attached(l, m, f) /\ sess[m][f].phase = "auth"}

LinkDown(m) ==
    /\ Fault
    /\ link[m]
    /\ DropPlayers({m})
    /\ ForgetOnline({m})
    /\ client' = [l \in Logins |->
                     IF l \in LostClients({m}) THEN Done ELSE client[l]]
    /\ UNCHANGED <<fifo, fifoPos, saved, waitclose>>

\* check_connect_char_server, every ten seconds, until 0x2af8 succeeds.
LinkUp(m) ==
    /\ ~link[m]
    /\ link' = [link EXCEPT ![m] = TRUE]
    /\ UNCHANGED <<charVars, mapVars, toChar, toMap, client, faults>>

MapCrash(m) ==
    /\ Fault
    /\ Die(m)

\* The char server is stopped in order, so saved is on disk, and started.
CharRestart ==
    /\ Fault
    /\ fifo' = [i \in 1..FifoSize |-> NoTicket]
    /\ fifoPos' = 1
    /\ online' = [a \in Accounts |-> [srv |-> None, char |-> None]]
    /\ DropPlayers(MapServers)
    /\ client' = [l \in Logins |->
                     IF l \in LostClients(MapServers)
                        \/ client[l].phase = "select"
                     THEN Done ELSE client[l]]
    /\ UNCHANGED <<saved, waitclose>>

-----------------------------------------------------------------------------

CharStep(m) ==
    \/ RecvAuth(m) \/ RecvSave(m) \/ RecvCharSelect(m) \/ RecvMove(m)
    \/ RecvQuit(m)

MapStep(m) ==
    \/ AuthOk(m) \/ AuthOkTwice(m) \/ AuthFail(m) \/ Kicked(m)
    \/ CharSelectOk(m) \/ MoveOk(m) \/ IgnoreAnswer(m)

ClientStep(l) ==
    \/ Login(l) \/ Return(l) \/ GiveUp(l) \/ ConnectRefused(l)
    \/ \E c \in Chars : Select(l, c)
    \/ \E f \in Fds : Connect(l, f)
    \/ \E m \in MapServers, f \in Fds :
          RequestCharSelect(l, m, f) \/ QuitGame(l, m, f)

SessionStep(m, f) ==
    \/ Play(m, f) \/ Autosave(m, f)
    \/ \E x \in MapServers : ChangeServer(m, f, x)
    \/ Disconnect(m, f) \/ WaitClose(m, f)

FaultStep ==
    \/ \E m \in MapServers : LinkDown(m) \/ LinkUp(m) \/ MapCrash(m)
    \/ CharRestart

Next ==
    \/ \E m \in MapServers : CharStep(m) \/ MapStep(m)
    \/ \E m \in MapServers, f \in Fds : SessionStep(m, f)
    \/ \E l \in Logins : ClientStep(l)
    \/ FaultStep

Spec == Init /\ [][Next]_vars

\* The event loops keep reading their links and firing their timers.
Fairness ==
    /\ \A m \in MapServers : WF_vars(CharStep(m)) /\ WF_vars(MapStep(m))
    /\ \A m \in MapServers, f \in Fds : WF_vars(WaitClose(m, f))

FairSpec == Spec /\ Fairness

-----------------------------------------------------------------------------
(* Properties *)

\* A map server has at most one authenticated session of an account, the one
\* id_db names: clif_parse_WantToConnection keeps later connections out of
\* id_db, and only the session it names is authenticated or takes it away.
OneSession ==
    \A m \in MapServers, f \in Fds :
        Authed(m, f) => idDb[m][sess[m][f].acc] = f

\* No character is in play on both of two map servers at once, whichever
\* client holds a ticket for it: pc_authok sends it on to the server that owns
\* its map.  So it is while an account has one request under way on a server.
\* With two an answer that comes late brings back a session that has handed
\* its character on; with a third server an old ticket may do it.
CharOnOneServer ==
    \A m, n \in MapServers, f, g \in Fds :
        /\ Playing(m, f) /\ Playing(n, g)
        /\ sess[m][f].st.char = sess[n][g].st.char
        => m = n

\* Nothing behind a session's back stores a newer state of the character it
\* plays: every save of an earlier session is stored before the char server
\* answers the auth request of the next one.  So it is for two logins of a
\* client and one request of an account under way on a server; with a third
\* login and a link that was down, or with two requests, it may fail.
PlayingIsNewest ==
    \A m \in MapServers, f \in Fds :
        Playing(m, f) => sess[m][f].st.ver >= saved[sess[m][f].st.char].ver

\* The stored character never goes back to an older state: no session saves
\* once the character has gone on from it to another session.  So it is for
\* two logins of a client and one request of an account under way on a server;
\* a session sent on by an old ticket may break it when a third has played in
\* the meantime, and so may one that a late answer brings back.
NeverRolledBack ==
    [][\A c \in Chars : saved'[c].ver >= saved[c].ver]_vars

\* Whoever is in play plays the character its client chose, or is about to be
\* cut off.  An answer names only the account: with two requests under way the
\* answer to one may reach the session that sent the other, when the first to
\* ask has gone, and even one that is already in play.
PlaysItsChoice ==
    \A m \in MapServers, f \in Fds :
        Authed(m, f) /\ f \notin waitclose[m]
        => sess[m][f].st.char = sess[m][f].char

\* The char server holds an account online only on a server it is linked to,
\* so no account waits for a server that has died.
OnlineOnLinked ==
    \A a \in Accounts : online[a].srv # None => link[online[a].srv]

\* The second half of a double login refused at the select screen: a session
\* the char server wants off a map server does get closed.
KickedIsClosed ==
    \A m \in MapServers, f \in Fds, a \in Accounts :
        LET player == Authed(m, f) /\ sess[m][f].acc = a
            kick == [type |-> "kick", acc |-> a]
        IN  player /\ (\E i \in 1..Len(toMap[m]) : toMap[m][i] = kick) ~> ~player

\* char.c:2954, "repel double logins (when the map server differs)": no
\* account is in play on two map servers at once.
AccountOnOneServer ==
    \A m, n \in MapServers, f, g \in Fds :
        Playing(m, f) /\ Playing(n, g) /\ sess[m][f].acc = sess[n][g].acc
        => m = n

=============================================================================
