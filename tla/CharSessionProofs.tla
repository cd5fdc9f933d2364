------------------------- MODULE CharSessionProofs -------------------------
(***************************************************************************)
(* Theorems about CharSession for every value of its constants.  IInv,     *)
(* what a map server may find behind an entry of id_db, carries them; that *)
(* a session plays the character its client chose needs it and is itself   *)
(* inductive.                                                              *)
(***************************************************************************)
EXTENDS CharSession, SequenceTheorems, TLAPS

\* An entry of id_db names an open session of the account, the one that was
\* first to connect.
EntryIsOpen ==
    \A m \in MapServers, a \in Accounts :
        idDb[m][a] # None =>
            LET f == idDb[m][a]
            IN  Open(m, f) /\ sess[m][f].acc = a /\ sess[m][f].newfd # Second

\* Nothing waits for the char server on a link that is down.
DownIsEmpty == \A m \in MapServers : ~link[m] => toChar[m] = <<>>

\* What the map servers' part of the state keeps true, and the links' part.
SessionInv == MapTypeOK /\ OneSession /\ EntryIsOpen
LinkInv    == LinkTypeOK /\ DownIsEmpty /\ OnlineOnLinked

IInv == CharTypeOK /\ LinkInv /\ SessionInv /\ ClientTypeOK

-----------------------------------------------------------------------------
(* Links *)

\* Sending well-typed messages to the char server keeps its queues well typed
\* and leaves nothing on a link that is down.
LEMMA ToCharKeeps ==
    ASSUME LinkTypeOK, DownIsEmpty, NEW m \in MapServers,
           NEW msgs \in Seq(CharMsg), ToChar(m, msgs), UNCHANGED link
    PROVE  /\ toChar' \in [MapServers -> Seq(CharMsg)]
           /\ DownIsEmpty'
<1>1. toChar[m] \o msgs \in Seq(CharMsg)
  BY ConcatProperties DEF LinkTypeOK
<1>2. toChar' \in [MapServers -> Seq(CharMsg)]
  BY <1>1 DEF LinkTypeOK, ToChar
<1>3. DownIsEmpty'
  BY DEF LinkTypeOK, ToChar, DownIsEmpty
<1> QED BY <1>2, <1>3

\* The same for the other direction.
LEMMA ToMapsKeeps ==
    ASSUME LinkTypeOK, NEW ms, NEW msg \in MapMsg, ToMaps(ms, msg)
    PROVE  toMap' \in [MapServers -> Seq(MapMsg)]
<1>1. \A m \in MapServers : Append(toMap[m], msg) \in Seq(MapMsg)
  BY AppendProperties DEF LinkTypeOK
<1> QED BY <1>1 DEF LinkTypeOK, ToMaps

\* What the char server reads is a request, and reading it is safe.
LEMMA RequestRead ==
    ASSUME LinkTypeOK, DownIsEmpty, NEW m \in MapServers, toChar[m] # <<>>
    PROVE  /\ Request(m) \in CharMsg
           /\ TakeRequest(m) => toChar' \in [MapServers -> Seq(CharMsg)]
           /\ TakeRequest(m) /\ UNCHANGED link => DownIsEmpty'
           /\ link[m]
<1>1. toChar[m] \in Seq(CharMsg)
  BY DEF LinkTypeOK
<1>2. Head(toChar[m]) \in CharMsg /\ Tail(toChar[m]) \in Seq(CharMsg)
  BY <1>1, HeadTailProperties
<1> QED BY <1>2 DEF LinkTypeOK, Request, TakeRequest, DownIsEmpty

\* What a map server reads is an answer.
LEMMA AnswerRead ==
    ASSUME LinkTypeOK, NEW m \in MapServers, toMap[m] # <<>>
    PROVE  /\ Answer(m) \in MapMsg
           /\ TakeAnswer(m) => toMap' \in [MapServers -> Seq(MapMsg)]
<1>1. toMap[m] \in Seq(MapMsg)
  BY DEF LinkTypeOK
<1>2. Head(toMap[m]) \in MapMsg /\ Tail(toMap[m]) \in Seq(MapMsg)
  BY <1>1, HeadTailProperties
<1> QED BY <1>2 DEF LinkTypeOK, Answer, TakeAnswer

\* The fields of each kind of request and answer.
LEMMA MessageFields ==
    /\ \A q \in CharMsg : q.acc \in Accounts
    /\ \A q \in CharMsg : q.type \in {"auth", "save", "move", "quit"} =>
                             q.char \in Chars
    /\ \A q \in CharMsg : q.type \in {"auth", "charsel", "move"} =>
                             q.login \in Logins
    /\ \A q \in CharMsg : q.type = "save" => q.st \in Status
    /\ \A q \in CharMsg : q.type = "move" => q.to \in MapServers
    /\ \A q \in MapMsg : q.acc \in Accounts \cup {None}
    /\ \A q \in MapMsg : q.type \in {"ok", "moveok"} => q.acc \in Accounts
    /\ \A q \in MapMsg : q.type = "ok" => q.st \in Status
    /\ \A q \in MapMsg : q.type = "moveok" =>
                             q.char \in Chars /\ q.to \in MapServers
  BY DEF CharMsg, MapMsg

\* A session that saves, leaves or quits sends well-typed requests.
LEMMA SessionMsgs ==
    ASSUME NEW s \in Session, s.st \in Status
    PROVE  /\ SaveMsg(s) \in CharMsg
           /\ QuitMsgs(s) \in Seq(CharMsg)
           /\ \A x \in MapServers : /\ LeaveMsgs(s, x) \in Seq(CharMsg)
                                    /\ Leave(s, x) \in Session
                                    /\ Leave(s, x).st \in Status
                                    /\ Leave(s, x).phase = "parked"
                                    /\ Leave(s, x).acc = s.acc
                                    /\ Leave(s, x).newfd = s.newfd
<1>1. /\ s.acc \in Accounts /\ s.char \in Chars /\ s.login \in Logins
      /\ s.st.char \in Chars
  BY DEF Session, Status
<1>2. SaveMsg(s) \in CharMsg
  BY <1>1 DEF SaveMsg, CharMsg
<1>3. [type |-> "quit", acc |-> s.acc, char |-> s.st.char] \in CharMsg
  BY <1>1 DEF CharMsg
<1>4. QuitMsgs(s) \in Seq(CharMsg)
  BY <1>2, <1>3 DEF QuitMsgs
<1>5. ASSUME NEW x \in MapServers
      PROVE  /\ LeaveMsgs(s, x) \in Seq(CharMsg)
             /\ Leave(s, x) \in Session
             /\ Leave(s, x).st \in Status
             /\ Leave(s, x).phase = "parked"
             /\ Leave(s, x).acc = s.acc
             /\ Leave(s, x).newfd = s.newfd
  <2> DEFINE p == Leave(s, x)
  <2>1. /\ p \in Session /\ p.st \in Status /\ p.phase = "parked"
        /\ p.acc = s.acc /\ p.newfd = s.newfd
    BY DEF Leave, Session, Status, Phases
  <2>2. SaveMsg(p) \in CharMsg
    BY <2>1 DEF SaveMsg, CharMsg, Session, Status
  <2>3. [type |-> "move", acc |-> s.acc, char |-> s.st.char,
         login |-> s.login, to |-> x] \in CharMsg
    BY <1>1 DEF CharMsg
  <2> QED BY <2>1, <2>2, <2>3 DEF LeaveMsgs
<1> QED BY <1>2, <1>4, <1>5

-----------------------------------------------------------------------------
(* Clients *)

\* Clients lose their connection, or are told where to go on.
LEMMA ClientsKeep ==
    ASSUME ClientTypeOK, NEW S \in SUBSET Logins, NEW c,
           \/ c \in {Done, [NoClient EXCEPT !.phase = "back"]}
           \/ /\ c \in [phase : {"go"}, srv : MapServers, fd : {None},
                        char : Chars],
           client' = [l \in Logins |-> IF l \in S THEN c ELSE client[l]],
           faults' \in Nat
    PROVE  ClientTypeOK'
<1>1. /\ c \in [phase : ClientPhases, srv : MapServers \cup {None},
                fd : Fds \cup {None}, char : Chars \cup {None}]
      /\ c.phase \in {"go", "in"} => c.srv \in MapServers /\ c.char \in Chars
  BY DEF Done, NoClient, ClientPhases
<1> QED BY <1>1 DEF ClientTypeOK

\* The clients a map server drops.
LEMMA ClientsLoseKeeps ==
    ASSUME ClientTypeOK, NEW m \in MapServers, NEW F \in SUBSET Fds,
           ClientsLose(m, F), faults' \in Nat
    PROVE  ClientTypeOK'
<1> DEFINE S == {l \in Logins : \E f \in F : Attached(l, m, f)}
<1>1. client' = [l \in Logins |-> IF l \in S THEN Done ELSE client[l]]
  BY DEF ClientsLose
<1> HIDE DEF S
<1>2. S \in SUBSET Logins
  BY DEF S
<1> QED BY <1>1, <1>2, ClientsKeep

-----------------------------------------------------------------------------
(* Sessions *)

\* An authenticated session has its fields and a status.
LEMMA AuthedSession ==
    ASSUME MapTypeOK, NEW m \in MapServers, NEW f \in Fds
    PROVE  /\ Open(m, f) => sess[m][f] \in Session
           /\ Authed(m, f) => Open(m, f) /\ sess[m][f].st \in Status
  BY DEF MapTypeOK, Open, Authed, FreeSlot

\* The session an answer is handed to.
LEMMA AddresseeIsOpen ==
    ASSUME LinkTypeOK, SessionInv, NEW m \in MapServers, toMap[m] # <<>>,
           Addressee(m) # None
    PROVE  /\ Answer(m).acc \in Accounts
           /\ Addressee(m) = idDb[m][Answer(m).acc]
           /\ Addressee(m) \in Fds
           /\ Open(m, Addressee(m))
           /\ sess[m][Addressee(m)] \in Session
           /\ sess[m][Addressee(m)].acc = Answer(m).acc
           /\ sess[m][Addressee(m)].newfd \in Fds \cup {None}
<1>1. Answer(m).acc \in Accounts /\ Addressee(m) = idDb[m][Answer(m).acc]
  BY AnswerRead, MessageFields DEF Addressee, Entry
<1>2. Addressee(m) \in Fds
  BY <1>1 DEF SessionInv, MapTypeOK
<1>3. /\ Open(m, Addressee(m))
      /\ sess[m][Addressee(m)].acc = Answer(m).acc
      /\ sess[m][Addressee(m)].newfd # Second
  BY <1>1 DEF SessionInv, EntryIsOpen
<1>4. sess[m][Addressee(m)] \in Session
  BY <1>2, <1>3, AuthedSession DEF SessionInv
<1> QED BY <1>1, <1>2, <1>3, <1>4 DEF Session

\* Rewriting an open session in place: it stays the account's and, if it was
\* the first to connect, it stays so.  An authenticated result is in id_db.
LEMMA RewriteKeeps ==
    ASSUME SessionInv, NEW m \in MapServers, NEW f \in Fds, Open(m, f),
           NEW s \in Session, s.phase # "free", s.acc = sess[m][f].acc,
           s.newfd \in {sess[m][f].newfd, None},
           s.phase \in {"auth", "parked"} =>
               s.st \in Status /\ idDb[m][s.acc] = f,
           sess' = [sess EXCEPT ![m][f] = s],
           UNCHANGED idDb, waitclose' \in [MapServers -> SUBSET Fds]
    PROVE  SessionInv'
<1>1. MapTypeOK'
  BY DEF SessionInv, MapTypeOK
<1>2. OneSession'
  BY DEF SessionInv, OneSession, Authed, MapTypeOK
<1>3. EntryIsOpen'
  BY NoneAssumption DEF SessionInv, EntryIsOpen, Open, MapTypeOK
<1> QED BY <1>1, <1>2, <1>3 DEF SessionInv

\* Closing a session: a first session takes its entry of id_db with it, and a
\* second one leaves the first one's alone.
LEMMA CloseKeeps ==
    ASSUME SessionInv, LinkTypeOK, DownIsEmpty, ClientTypeOK,
           NEW m \in MapServers, NEW f \in Fds, Open(m, f), Close(m, f),
           waitclose' \in [MapServers -> SUBSET Fds], UNCHANGED <<link, faults>>
    PROVE  /\ SessionInv'
           /\ toChar' \in [MapServers -> Seq(CharMsg)]
           /\ DownIsEmpty'
           /\ ClientTypeOK'
<1> DEFINE s == sess[m][f]
<1>1. s \in Session /\ s.acc \in Accounts
  BY AuthedSession DEF SessionInv, Session
<1>2. QuitMsgs(s) \in Seq(CharMsg)
  <2>1. CASE Authed(m, f)
    BY <2>1, <1>1, AuthedSession, SessionMsgs DEF SessionInv
  <2>2. CASE ~Authed(m, f)
    BY <2>2 DEF QuitMsgs, Authed
  <2> QED BY <2>1, <2>2
<1>3. toChar' \in [MapServers -> Seq(CharMsg)] /\ DownIsEmpty'
  BY <1>2, ToCharKeeps DEF Close
<1>4. ClientTypeOK'
  BY ClientsLoseKeeps DEF Close, ClientTypeOK
<1>5. /\ sess' = [sess EXCEPT ![m][f] = FreeSlot]
      /\ idDb' = [idDb EXCEPT ![m] = EntryAfterClose(m, f)]
  BY DEF Close
<1>6. \/ EntryAfterClose(m, f) = [idDb[m] EXCEPT ![s.acc] = None]
      \/ EntryAfterClose(m, f) = idDb[m] /\ idDb[m][s.acc] # f
  BY <1>1 DEF EntryAfterClose, Entry, SessionInv, MapTypeOK
<1>7. Authed(m, f) => idDb[m][s.acc] = f
  BY DEF SessionInv, OneSession
<1>8. MapTypeOK'
  BY <1>1, <1>5, <1>6 DEF SessionInv, MapTypeOK, FreeSlot
<1>9. EntryAfterClose(m, f) # idDb[m] => idDb[m][s.acc] = f
  BY <1>1, <1>7 DEF EntryAfterClose, Entry, Authed, SessionInv, MapTypeOK
<1>10. OneSession'
  <2> SUFFICES ASSUME NEW n \in MapServers, NEW g \in Fds, Authed(n, g)'
               PROVE  idDb'[n][sess'[n][g].acc] = g
    BY DEF OneSession
  <2>1. n # m \/ g # f
    BY <1>5 DEF Authed, FreeSlot, SessionInv, MapTypeOK
  <2>2. sess'[n][g] = sess[n][g] /\ sess[n][g].acc \in Accounts
    BY <1>8, <2>1, <1>5, AuthedSession
       DEF Authed, Open, FreeSlot, SessionInv, MapTypeOK, Session
  <2>3. idDb[n][sess[n][g].acc] = g
    BY <2>2 DEF Authed, SessionInv, OneSession
  <2> QED BY <1>1, <1>5, <1>6, <1>9, <2>1, <2>2, <2>3 DEF SessionInv, MapTypeOK
<1>11. EntryIsOpen'
  BY <1>1, <1>5, <1>6, <1>9 DEF SessionInv, EntryIsOpen, Open, MapTypeOK
<1> QED BY <1>3, <1>4, <1>8, <1>10, <1>11 DEF SessionInv

-----------------------------------------------------------------------------
(* Parts of the state a step leaves alone *)

LEMMA PartsKeep ==
    ASSUME IInv
    PROVE  /\ UNCHANGED charVars => CharTypeOK'
           /\ UNCHANGED mapVars => SessionInv'
           /\ UNCHANGED <<client, faults>> => ClientTypeOK'
           /\ UNCHANGED <<online, link>> => OnlineOnLinked'
           /\ UNCHANGED <<toChar, link>> => DownIsEmpty'
           /\ UNCHANGED linkVars => LinkTypeOK'
<1>1. UNCHANGED charVars => CharTypeOK'
  BY DEF IInv, CharTypeOK, charVars
<1>2. UNCHANGED mapVars => SessionInv'
  BY DEF IInv, SessionInv, MapTypeOK, OneSession, EntryIsOpen, Authed, Open,
         mapVars
<1>3. UNCHANGED <<client, faults>> => ClientTypeOK'
  BY DEF IInv, ClientTypeOK
<1>4. UNCHANGED <<online, link>> => OnlineOnLinked'
  BY DEF IInv, LinkInv, OnlineOnLinked
<1>5. UNCHANGED <<toChar, link>> => DownIsEmpty'
  BY DEF IInv, LinkInv, DownIsEmpty
<1>6. UNCHANGED linkVars => LinkTypeOK'
  BY DEF IInv, LinkInv, LinkTypeOK, linkVars
<1> QED BY <1>1, <1>2, <1>3, <1>4, <1>5, <1>6

-----------------------------------------------------------------------------
(* The char server *)

\* A new ticket keeps the ring and its position within bounds.
LEMMA TicketKeeps ==
    ASSUME CharTypeOK, NEW t \in Ticket, AddTicket(t)
    PROVE  /\ fifo' \in [1..FifoSize -> Ticket \cup {NoTicket}]
           /\ fifoPos' \in 1..FifoSize
  BY FifoAssumption DEF CharTypeOK, AddTicket

\* Every request the char server handles keeps the invariant.
LEMMA CharStepKeeps ==
    ASSUME IInv, NEW m \in MapServers, CharStep(m)
    PROVE  IInv'
<1> DEFINE q == Request(m)
<1> SUFFICES /\ CharTypeOK' /\ OnlineOnLinked'
             /\ toMap' \in [MapServers -> Seq(MapMsg)]
  <2>1. toChar[m] # <<>> /\ TakeRequest(m) /\ UNCHANGED link
        /\ UNCHANGED mapVars /\ UNCHANGED <<client, faults>>
    BY DEF CharStep, RecvAuth, RecvSave, RecvCharSelect, RecvMove, RecvQuit,
           HasRequest
  <2>2. toChar' \in [MapServers -> Seq(CharMsg)] /\ DownIsEmpty'
    BY <2>1, RequestRead DEF IInv, LinkInv
  <2>3. SessionInv' /\ ClientTypeOK'
    BY <2>1, PartsKeep
  <2> QED BY <2>1, <2>2, <2>3 DEF IInv, LinkInv, LinkTypeOK
<1>1. toChar[m] # <<>> /\ UNCHANGED link /\ toMap \in [MapServers -> Seq(MapMsg)]
  BY DEF CharStep, RecvAuth, RecvSave, RecvCharSelect, RecvMove, RecvQuit,
         HasRequest, IInv, LinkInv, LinkTypeOK
<1>2. q \in CharMsg /\ q.acc \in Accounts /\ link[m]
  BY <1>1, RequestRead, MessageFields DEF IInv, LinkInv
<1>3. CASE RecvAuth(m)
  <2>1. q.char \in Chars /\ q.login \in Logins
    BY <1>2, <1>3, MessageFields DEF RecvAuth, HasRequest, Request
  <2>2. CharTypeOK'
    <3>1. fifo' \in [1..FifoSize -> Ticket \cup {NoTicket}]
      BY <1>3 DEF RecvAuth, Consume, IInv, CharTypeOK
    <3>2. [srv |-> m, char |-> q.char] \in
              [srv : MapServers \cup {None}, char : Chars \cup {None}]
      BY <2>1
    <3>3. online' \in [Accounts -> [srv : MapServers \cup {None},
                                    char : Chars \cup {None}]]
      BY <1>3, <3>2 DEF RecvAuth, IInv, CharTypeOK
    <3>4. UNCHANGED <<fifoPos, saved>>
      BY <1>3 DEF RecvAuth
    <3> QED BY <3>1, <3>3, <3>4 DEF IInv, CharTypeOK
  <2>3. OnlineOnLinked'
    BY <1>1, <1>2, <1>3 DEF RecvAuth, IInv, CharTypeOK, LinkInv, OnlineOnLinked
  <2>4. \A a \in {q.acc, None} : [type |-> "fail", acc |-> a] \in MapMsg
    BY <1>2 DEF MapMsg
  <2>5. [type |-> "ok", acc |-> q.acc,
         st |-> [char |-> q.char, ver |-> saved[q.char].ver,
                 map |-> saved[q.char].map]] \in MapMsg
    BY <1>2, <2>1 DEF MapMsg, Status, IInv, CharTypeOK
  <2>6. toMap' \in [MapServers -> Seq(MapMsg)]
    BY <1>3, <2>4, <2>5, ToMapsKeeps DEF RecvAuth, IInv, LinkInv
  <2> QED BY <2>2, <2>3, <2>6
<1>4. CASE RecvSave(m)
  <2>1. q.char \in Chars /\ q.st \in Status
    BY <1>2, <1>4, MessageFields DEF RecvSave, HasRequest, Request
  <2>2. CharTypeOK'
    <3>1. [ver |-> q.st.ver, map |-> q.st.map] \in
              [ver : 0..MaxVer, map : MapServers]
      BY <2>1 DEF Status
    <3>2. saved' \in [Chars -> [ver : 0..MaxVer, map : MapServers]]
      BY <1>4, <3>1 DEF RecvSave, IInv, CharTypeOK
    <3>3. UNCHANGED <<fifo, fifoPos, online>>
      BY <1>4 DEF RecvSave
    <3> QED BY <3>2, <3>3 DEF IInv, CharTypeOK
  <2>3. OnlineOnLinked'
    BY <1>1, <1>4, PartsKeep DEF RecvSave
  <2>4. [type |-> "disc", acc |-> q.acc] \in MapMsg
    BY <1>2 DEF MapMsg
  <2>5. toMap' \in [MapServers -> Seq(MapMsg)]
    BY <1>1, <1>4, <2>4, ToMapsKeeps DEF RecvSave, IInv, LinkInv
  <2> QED BY <2>2, <2>3, <2>5
<1>5. CASE RecvCharSelect(m)
  <2>1. [flag |-> 2, login |-> q.login, char |-> None] \in Ticket
    BY <1>2, <1>5, MessageFields DEF RecvCharSelect, HasRequest, Request, Ticket
  <2>2. CharTypeOK'
    BY <1>5, <2>1, TicketKeeps DEF RecvCharSelect, IInv, CharTypeOK
  <2>3. OnlineOnLinked'
    BY <1>1, <1>5, PartsKeep DEF RecvCharSelect
  <2>4. [type |-> "selok", acc |-> q.acc] \in MapMsg
    BY <1>2 DEF MapMsg
  <2>5. toMap' \in [MapServers -> Seq(MapMsg)]
    BY <1>5, <2>4, ToMapsKeeps DEF RecvCharSelect, IInv, LinkInv
  <2> QED BY <2>2, <2>3, <2>5
<1>6. CASE RecvMove(m)
  <2>1. q.char \in Chars /\ q.login \in Logins /\ q.to \in MapServers
    BY <1>2, <1>6, MessageFields DEF RecvMove, HasRequest, Request
  <2>2. [flag |-> 0, login |-> q.login, char |-> q.char] \in Ticket
    BY <2>1 DEF Ticket
  <2>3. CharTypeOK'
    BY <1>6, <2>2, TicketKeeps DEF RecvMove, IInv, CharTypeOK
  <2>4. OnlineOnLinked'
    BY <1>1, <1>6, PartsKeep DEF RecvMove
  <2>5. [type |-> "moveok", acc |-> q.acc, char |-> q.char, to |-> q.to]
        \in MapMsg
    BY <1>2, <2>1 DEF MapMsg
  <2>6. toMap' \in [MapServers -> Seq(MapMsg)]
    BY <1>6, <2>5, ToMapsKeeps DEF RecvMove, IInv, LinkInv
  <2> QED BY <2>3, <2>4, <2>6
<1>7. CASE RecvQuit(m)
  <2>1. CharTypeOK' /\ OnlineOnLinked'
    BY <1>1, <1>2, <1>7
       DEF RecvQuit, IInv, CharTypeOK, LinkInv, OnlineOnLinked
  <2>2. toMap' \in [MapServers -> Seq(MapMsg)]
    BY <1>1, <1>7 DEF RecvQuit
  <2> QED BY <2>1, <2>2
<1> QED BY <1>3, <1>4, <1>5, <1>6, <1>7 DEF CharStep

-----------------------------------------------------------------------------
(* The map servers *)

\* A map server that dies leaves nothing of itself behind.
LEMMA DieKeeps ==
    ASSUME IInv, NEW m \in MapServers, Die(m), faults' \in Nat
    PROVE  IInv'
<1>1. CharTypeOK' /\ OnlineOnLinked'
  BY DEF Die, ForgetOnline, IInv, CharTypeOK, LinkInv, LinkTypeOK, OnlineOnLinked
<1>2. LinkTypeOK' /\ DownIsEmpty'
  BY DEF Die, IInv, LinkInv, LinkTypeOK, DownIsEmpty
<1>3. MapTypeOK'
  BY DEF Die, IInv, SessionInv, MapTypeOK, FreeSlot
<1>4. OneSession' /\ EntryIsOpen'
  BY DEF Die, IInv, SessionInv, MapTypeOK, FreeSlot, OneSession, EntryIsOpen,
         Authed, Open
<1>5. ClientTypeOK'
  BY ClientsLoseKeeps DEF Die, IInv
<1> QED BY <1>1, <1>2, <1>3, <1>4, <1>5 DEF IInv, LinkInv, SessionInv

\* An accepted request authenticates the session in id_db, or sends its
\* character on, or is refused by the server itself.
LEMMA AuthOkKeeps ==
    ASSUME IInv, NEW m \in MapServers, AuthOk(m)
    PROVE  IInv'
<1> DEFINE f == Addressee(m)
           st == Answer(m).st
           s == [sess[m][f] EXCEPT !.st = st]
           in == [s EXCEPT !.phase = "auth"]
<1>1. /\ toMap[m] # <<>> /\ f # None /\ TakeAnswer(m)
      /\ sess[m][f].newfd = None /\ Answer(m).type = "ok"
      /\ UNCHANGED charVars /\ UNCHANGED <<idDb, link, client, faults>>
  BY DEF AuthOk, HasAnswer, Answer
<1>2. /\ f \in Fds /\ Open(m, f) /\ sess[m][f] \in Session
      /\ f = idDb[m][Answer(m).acc] /\ sess[m][f].acc = Answer(m).acc
  BY <1>1, AddresseeIsOpen DEF IInv, LinkInv
<1>3. st \in Status
  BY <1>1, AnswerRead, MessageFields DEF IInv, LinkInv
<1>4. /\ s \in Session /\ s.st \in Status /\ s.phase = sess[m][f].phase
      /\ s.acc = sess[m][f].acc /\ s.newfd = None
      /\ in \in Session /\ in.st = st /\ in.phase = "auth"
      /\ in.acc = sess[m][f].acc /\ in.newfd = None
  BY <1>1, <1>2, <1>3 DEF Session, Phases
<1>5. /\ toMap' \in [MapServers -> Seq(MapMsg)]
      /\ CharTypeOK' /\ ClientTypeOK' /\ OnlineOnLinked'
  BY <1>1, AnswerRead, PartsKeep DEF charVars, IInv, LinkInv
<1> SUFFICES /\ SessionInv'
             /\ toChar' \in [MapServers -> Seq(CharMsg)] /\ DownIsEmpty'
  BY <1>1, <1>5 DEF IInv, LinkInv, LinkTypeOK
<1>6. CASE /\ sess' = [sess EXCEPT ![m][f] = s]
           /\ SetWaitClose(m, {f})
           /\ UNCHANGED toChar
  <2>1. waitclose' \in [MapServers -> SUBSET Fds]
    BY <1>2, <1>6 DEF SetWaitClose, IInv, SessionInv, MapTypeOK
  <2>2. SessionInv'
    BY <1>1, <1>2, <1>4, <1>6, <2>1, RewriteKeeps DEF Open, IInv
  <2> QED BY <1>1, <1>6, <2>2, PartsKeep DEF IInv, LinkInv, LinkTypeOK
<1>7. CASE /\ sess' = [sess EXCEPT ![m][f] = in]
           /\ UNCHANGED <<toChar, waitclose>>
  <2>1. waitclose' \in [MapServers -> SUBSET Fds]
    BY <1>7 DEF IInv, SessionInv, MapTypeOK
  <2>2. SessionInv'
    BY <1>1, <1>2, <1>3, <1>4, <1>7, <2>1, RewriteKeeps DEF IInv
  <2> QED BY <1>1, <1>7, <2>2, PartsKeep DEF IInv, LinkInv, LinkTypeOK
<1>8. CASE /\ sess' = [sess EXCEPT ![m][f] = Leave(in, st.map)]
           /\ ToChar(m, LeaveMsgs(in, st.map))
           /\ UNCHANGED waitclose
  <2>1. waitclose' \in [MapServers -> SUBSET Fds]
    BY <1>8 DEF IInv, SessionInv, MapTypeOK
  <2>2. st.map \in MapServers
    BY <1>3 DEF Status
  <2> DEFINE p == Leave(in, st.map)
  <2>3. /\ LeaveMsgs(in, st.map) \in Seq(CharMsg)
        /\ p \in Session /\ p.st \in Status /\ p.phase = "parked"
        /\ p.acc = sess[m][f].acc /\ p.newfd = None
    BY <1>3, <1>4, <2>2, SessionMsgs
  <2> HIDE DEF p
  <2>4. SessionInv'
    BY <1>1, <1>2, <1>8, <2>1, <2>3, RewriteKeeps DEF IInv, p
  <2>5. toChar' \in [MapServers -> Seq(CharMsg)] /\ DownIsEmpty'
    BY <1>1, <1>8, <2>3, ToCharKeeps DEF IInv, LinkInv
  <2> QED BY <2>4, <2>5
<1> QED BY <1>6, <1>7, <1>8 DEF AuthOk

\* A refusal closes the connection that asked; the other answers close the
\* session, or tell its client where to go.
LEMMA AuthFailKeeps ==
    ASSUME IInv, NEW m \in MapServers, AuthFail(m)
    PROVE  IInv'
<1> DEFINE f == Addressee(m)
           n == sess[m][f].newfd
           s == [sess[m][f] EXCEPT !.newfd = None]
<1>1. toMap[m] # <<>> /\ f # None /\ UNCHANGED faults
  BY DEF AuthFail, HasAnswer
<1>2. /\ f \in Fds /\ Open(m, f) /\ sess[m][f] \in Session
      /\ f = idDb[m][Answer(m).acc] /\ sess[m][f].acc = Answer(m).acc
      /\ n \in Fds \cup {None}
  BY <1>1, AddresseeIsOpen DEF IInv, LinkInv
<1>3. CASE Die(m)
  BY <1>1, <1>3, DieKeeps DEF IInv, ClientTypeOK
<1>4. CASE /\ n # None
           /\ SetWaitClose(m, {n})
           /\ sess' = [sess EXCEPT ![m][f].newfd = None]
           /\ TakeAnswer(m)
           /\ UNCHANGED <<charVars, idDb, toChar, link, client>>
  <2>1. waitclose' \in [MapServers -> SUBSET Fds]
    BY <1>2, <1>4 DEF SetWaitClose, IInv, SessionInv, MapTypeOK
  <2>2. /\ s \in Session /\ s.phase = sess[m][f].phase /\ s.st = sess[m][f].st
        /\ s.acc = sess[m][f].acc /\ s.newfd = None
        /\ sess' = [sess EXCEPT ![m][f] = s]
    BY <1>2, <1>4 DEF Session, IInv, SessionInv, MapTypeOK
  <2>3. /\ s.phase \in {"auth", "parked"} =>
               s.st \in Status /\ idDb[m][s.acc] = f
        /\ s.phase # "free" /\ UNCHANGED idDb
    BY <1>2, <1>4, <2>2 DEF Open, IInv, SessionInv, MapTypeOK
  <2> HIDE DEF s
  <2>4. SessionInv'
    BY <1>2, <2>1, <2>2, <2>3, RewriteKeeps DEF IInv
  <2>5. toMap' \in [MapServers -> Seq(MapMsg)]
    BY <1>1, <1>4, AnswerRead DEF IInv, LinkInv
  <2>6. CharTypeOK' /\ ClientTypeOK' /\ OnlineOnLinked' /\ DownIsEmpty'
    BY <1>1, <1>4, PartsKeep DEF charVars
  <2> QED BY <1>4, <2>4, <2>5, <2>6 DEF IInv, LinkInv, LinkTypeOK
<1>5. CASE /\ SetWaitClose(m, {f})
           /\ TakeAnswer(m)
           /\ UNCHANGED <<charVars, sess, idDb, toChar, link, client>>
  <2>1. SessionInv'
    BY <1>2, <1>5 DEF SetWaitClose, IInv, SessionInv, MapTypeOK, OneSession,
                      EntryIsOpen, Authed, Open
  <2>2. toMap' \in [MapServers -> Seq(MapMsg)]
    BY <1>1, <1>5, AnswerRead DEF IInv, LinkInv
  <2>3. CharTypeOK' /\ ClientTypeOK' /\ OnlineOnLinked' /\ DownIsEmpty'
    BY <1>1, <1>5, PartsKeep DEF charVars
  <2> QED BY <1>5, <2>1, <2>2, <2>3 DEF IInv, LinkInv, LinkTypeOK
<1> QED BY <1>3, <1>4, <1>5 DEF AuthFail

LEMMA MapStepKeeps ==
    ASSUME IInv, NEW m \in MapServers, MapStep(m)
    PROVE  IInv'
<1> DEFINE f == Addressee(m)
<1>1. CASE AuthOk(m)
  BY <1>1, AuthOkKeeps
<1>2. CASE AuthFail(m)
  BY <1>2, AuthFailKeeps
<1>3. ASSUME AuthOkTwice(m) \/ Kicked(m) \/ CharSelectOk(m) \/ MoveOk(m)
             \/ IgnoreAnswer(m)
      PROVE  IInv'
  <2>1. /\ toMap[m] # <<>> /\ TakeAnswer(m)
        /\ UNCHANGED charVars /\ UNCHANGED <<sess, idDb, toChar, link, faults>>
    BY <1>3 DEF AuthOkTwice, Kicked, CharSelectOk, MoveOk, IgnoreAnswer,
                HasAnswer, mapVars
  <2>2. f # None =>
           /\ f \in Fds /\ sess[m][f].newfd \in Fds \cup {None}
    BY <2>1, AddresseeIsOpen DEF IInv, LinkInv
  <2>3. waitclose' \in [MapServers -> SUBSET Fds]
    <3>1. waitclose \in [MapServers -> SUBSET Fds]
      BY DEF IInv, SessionInv, MapTypeOK
    <3>2. \A F \in SUBSET Fds : SetWaitClose(m, F) =>
              waitclose' \in [MapServers -> SUBSET Fds]
      BY <3>1 DEF SetWaitClose
    <3>3. CASE AuthOkTwice(m)
      <4>1. f # None /\ sess[m][f].newfd # None
        BY <3>3 DEF AuthOkTwice
      <4>2. {f} \in SUBSET Fds /\ {f, sess[m][f].newfd} \in SUBSET Fds
        BY <4>1, <2>2
      <4> QED BY <3>2, <3>3, <4>2 DEF AuthOkTwice
    <3>4. CASE Kicked(m)
      BY <2>2, <3>2, <3>4 DEF Kicked
    <3>5. CASE UNCHANGED waitclose
      BY <3>1, <3>5
    <3> QED BY <1>3, <3>3, <3>4, <3>5
            DEF CharSelectOk, MoveOk, IgnoreAnswer, mapVars
  <2>4. SessionInv'
    BY <2>1, <2>3 DEF IInv, SessionInv, MapTypeOK, OneSession, EntryIsOpen,
                      Authed, Open
  <2>5. toMap' \in [MapServers -> Seq(MapMsg)]
    BY <2>1, AnswerRead DEF IInv, LinkInv
  <2>6. CharTypeOK' /\ OnlineOnLinked' /\ DownIsEmpty'
    BY <2>1, PartsKeep DEF charVars
  <2>7. ClientTypeOK'
    <3> DEFINE S == {l \in Logins : Attached(l, m, f)}
    <3>1. faults' \in Nat
      BY <2>1 DEF IInv, ClientTypeOK
    <3>2. CASE CharSelectOk(m)
      <4>1. client' = [l \in Logins |->
                IF l \in S THEN [NoClient EXCEPT !.phase = "back"] ELSE client[l]]
        BY <3>2 DEF CharSelectOk, TellClient
      <4> QED BY <3>1, <4>1, ClientsKeep DEF IInv
    <3>3. CASE MoveOk(m)
      <4> DEFINE c == [phase |-> "go", srv |-> Answer(m).to, fd |-> None,
                       char |-> Answer(m).char]
      <4>1. client' = [l \in Logins |-> IF l \in S THEN c ELSE client[l]]
        BY <3>3 DEF MoveOk, TellClient
      <4>2. c \in [phase : {"go"}, srv : MapServers, fd : {None}, char : Chars]
        BY <2>1, <3>3, AnswerRead, MessageFields
           DEF MoveOk, HasAnswer, Answer, IInv, LinkInv
      <4> QED BY <3>1, <4>1, <4>2, ClientsKeep DEF IInv
    <3>4. CASE UNCHANGED client
      BY <2>1, <3>4, PartsKeep
    <3> QED BY <1>3, <3>2, <3>3, <3>4 DEF AuthOkTwice, Kicked, IgnoreAnswer
  <2> QED BY <2>1, <2>4, <2>5, <2>6, <2>7 DEF IInv, LinkInv, LinkTypeOK
<1> QED BY <1>1, <1>2, <1>3 DEF MapStep

\* A session in play that changes, is saved, leaves, or is closed.
LEMMA SessionStepKeeps ==
    ASSUME IInv, NEW m \in MapServers, NEW f \in Fds, SessionStep(m, f)
    PROVE  IInv'
<1> DEFINE s == sess[m][f]
<1>1. ASSUME s.phase = "auth"
      PROVE  /\ Open(m, f) /\ s \in Session /\ s.st \in Status
             /\ idDb[m][s.acc] = f
  BY <1>1, AuthedSession
     DEF Authed, Open, IInv, SessionInv, MapTypeOK, OneSession
<1>2. CASE Play(m, f)
  <2> DEFINE p == [s EXCEPT !.st.ver = @ + 1]
  <2>1. s.phase = "auth" /\ s.st.ver < MaxVer
    BY <1>2 DEF Play
  <2>2. /\ p \in Session /\ p.st \in Status /\ p.phase = "auth"
        /\ p.acc = s.acc /\ p.newfd = s.newfd
    BY <1>1, <2>1, VerAssumption DEF Session, Status
  <2>3. /\ sess' = [sess EXCEPT ![m][f] = p] /\ UNCHANGED idDb
        /\ waitclose' \in [MapServers -> SUBSET Fds]
    BY <1>2 DEF Play, IInv, SessionInv, MapTypeOK
  <2> HIDE DEF p
  <2>4. SessionInv'
    BY <1>1, <2>1, <2>2, <2>3, RewriteKeeps DEF IInv
  <2> QED BY <1>2, <2>4, PartsKeep DEF Play, IInv, LinkInv, linkVars, charVars
<1>3. CASE Autosave(m, f)
  <2> DEFINE msgs == <<SaveMsg(s)>>
  <2>1. msgs \in Seq(CharMsg)
    BY <1>1, <1>3, SessionMsgs DEF Autosave
  <2>2. ToChar(m, msgs) /\ UNCHANGED link
    BY <1>3 DEF Autosave
  <2> HIDE DEF msgs
  <2>a. toChar' \in [MapServers -> Seq(CharMsg)] /\ DownIsEmpty'
    BY <2>1, <2>2, ToCharKeeps DEF IInv, LinkInv
  <2>3. /\ UNCHANGED charVars /\ UNCHANGED mapVars
        /\ UNCHANGED <<toMap, link, client, faults>>
    BY <1>3 DEF Autosave
  <2>4. CharTypeOK' /\ SessionInv' /\ ClientTypeOK' /\ OnlineOnLinked'
    BY <2>3, PartsKeep DEF charVars
  <2> QED BY <2>a, <2>3, <2>4 DEF IInv, LinkInv, LinkTypeOK
<1>4. ASSUME NEW x \in MapServers, ChangeServer(m, f, x)
      PROVE  IInv'
  <2> DEFINE p == Leave(s, x)
  <2>1. s.phase = "auth"
    BY <1>4 DEF ChangeServer
  <2>2. /\ LeaveMsgs(s, x) \in Seq(CharMsg)
        /\ p \in Session /\ p.st \in Status /\ p.phase = "parked"
        /\ p.acc = s.acc /\ p.newfd = s.newfd
    BY <1>1, <2>1, SessionMsgs
  <2>3. /\ sess' = [sess EXCEPT ![m][f] = p] /\ UNCHANGED idDb
        /\ waitclose' \in [MapServers -> SUBSET Fds]
    BY <1>4 DEF ChangeServer, IInv, SessionInv, MapTypeOK
  <2> HIDE DEF p
  <2>4. SessionInv'
    BY <1>1, <2>1, <2>2, <2>3, RewriteKeeps DEF IInv
  <2>5. toChar' \in [MapServers -> Seq(CharMsg)] /\ DownIsEmpty'
    BY <1>4, <2>2, ToCharKeeps DEF ChangeServer, IInv, LinkInv
  <2>6. UNCHANGED charVars /\ UNCHANGED <<toMap, link, client, faults>>
    BY <1>4 DEF ChangeServer
  <2>7. CharTypeOK' /\ ClientTypeOK' /\ OnlineOnLinked'
    BY <2>6, PartsKeep DEF charVars
  <2> QED BY <2>4, <2>5, <2>6, <2>7 DEF IInv, LinkInv, LinkTypeOK
<1>5. ASSUME Close(m, f), Open(m, f), UNCHANGED charVars,
             UNCHANGED <<toMap, link, faults>>,
             waitclose' \in [MapServers -> SUBSET Fds]
      PROVE  IInv'
  <2>1. /\ SessionInv' /\ ClientTypeOK' /\ DownIsEmpty'
        /\ toChar' \in [MapServers -> Seq(CharMsg)]
    BY <1>5, CloseKeeps DEF IInv, LinkInv
  <2>2. CharTypeOK' /\ OnlineOnLinked'
    BY <1>5, PartsKeep DEF charVars
  <2> QED BY <1>5, <2>1, <2>2 DEF IInv, LinkInv, LinkTypeOK
<1>6. CASE Disconnect(m, f)
  <2>1. waitclose' \in [MapServers -> SUBSET Fds]
    BY <1>6 DEF Disconnect, IInv, SessionInv, MapTypeOK
  <2> QED BY <1>5, <1>6, <2>1 DEF Disconnect
<1>7. CASE WaitClose(m, f)
  <2>1. waitclose' \in [MapServers -> SUBSET Fds]
    BY <1>7 DEF WaitClose, IInv, SessionInv, MapTypeOK
  <2>2. UNCHANGED charVars /\ UNCHANGED <<toMap, link, faults>>
    BY <1>7 DEF WaitClose
  <2>3. CASE Open(m, f) /\ Close(m, f)
    BY <1>5, <2>1, <2>2, <2>3
  <2>4. CASE UNCHANGED <<sess, idDb, toChar, client>>
    <3>1. SessionInv'
      BY <2>1, <2>4 DEF IInv, SessionInv, MapTypeOK, OneSession, EntryIsOpen,
                        Authed, Open
    <3>2. /\ CharTypeOK' /\ ClientTypeOK' /\ LinkTypeOK' /\ DownIsEmpty'
          /\ OnlineOnLinked'
      BY <2>2, <2>4, PartsKeep DEF charVars, linkVars
    <3> QED BY <3>1, <3>2 DEF IInv, LinkInv
  <2> QED BY <1>7, <2>3, <2>4 DEF WaitClose
<1> QED BY <1>2, <1>3, <1>4, <1>6, <1>7 DEF SessionStep

-----------------------------------------------------------------------------
(* Clients and failures *)

\* A connection: the first of its account enters id_db, a later one is noted
\* in the first.
LEMMA ConnectKeeps ==
    ASSUME IInv, NEW l \in Logins, NEW f \in Fds, Connect(l, f)
    PROVE  IInv'
<1> DEFINE m == client[l].srv
           a == AccountOf[l]
           c == client[l].char
           old == idDb[m][a]
           new == [phase |-> "new", acc |-> a, login |-> l, char |-> c,
                   newfd |-> IF old = None THEN None ELSE Second,
                   st |-> NoStatus]
           msgs == <<[type |-> "auth", acc |-> a, char |-> c, login |-> l]>>
<1>1. /\ client[l].phase = "go" /\ ~Open(m, f)
      /\ sess' = [sess EXCEPT ![m] = [g \in Fds |->
                     IF g = f THEN new
                     ELSE IF g = old THEN [@[g] EXCEPT !.newfd = f]
                     ELSE @[g]]]
      /\ idDb' = [idDb EXCEPT ![m][a] = IF old = None THEN f ELSE old]
      /\ ToChar(m, msgs)
      /\ client' = [client EXCEPT ![l].phase = "in", ![l].fd = f]
      /\ UNCHANGED charVars /\ UNCHANGED <<waitclose, toMap, link, faults>>
  BY DEF Connect, Entry
<1>2. m \in MapServers /\ c \in Chars /\ a \in Accounts
  BY <1>1, MapsAssumption DEF IInv, ClientTypeOK
<1>3. old \in Fds \cup {None} /\ old # f
  BY <1>1, <1>2, NoneAssumption DEF IInv, SessionInv, MapTypeOK, EntryIsOpen
<1>4. /\ new \in Session /\ new.phase = "new" /\ new.acc = a
      /\ old = None => new.newfd = None
  BY <1>2 DEF Session, Phases
<1>5. ASSUME old # None
      PROVE  /\ old \in Fds /\ Open(m, old) /\ sess[m][old] \in Session
             /\ sess[m][old].acc = a
  BY <1>2, <1>3, <1>5, AuthedSession DEF IInv, SessionInv, EntryIsOpen
<1> HIDE DEF new
<1>6. \A g \in Fds :
         sess'[m][g] = IF g = f THEN new
                       ELSE IF g = old THEN [sess[m][g] EXCEPT !.newfd = f]
                       ELSE sess[m][g]
  BY <1>1, <1>2 DEF IInv, SessionInv, MapTypeOK
<1>7. \A n \in MapServers \ {m} : sess'[n] = sess[n] /\ idDb'[n] = idDb[n]
  BY <1>1 DEF IInv, SessionInv, MapTypeOK
<1>8. \A b \in Accounts :
         idDb'[m][b] = IF b = a /\ old = None THEN f ELSE idDb[m][b]
  BY <1>1, <1>2 DEF IInv, SessionInv, MapTypeOK
<1>9. ASSUME NEW g \in Fds, g # f
      PROVE  /\ sess[m][g] \in Session \cup {FreeSlot}
                    => sess'[m][g] \in Session \cup {FreeSlot}
             /\ sess'[m][g].phase = sess[m][g].phase
             /\ sess'[m][g].acc = sess[m][g].acc
             /\ sess'[m][g].st = sess[m][g].st
             /\ g # old => sess'[m][g].newfd = sess[m][g].newfd
             /\ g = old => sess'[m][g].newfd = f
  <2>1. CASE g = old /\ old # None
    BY <1>5, <1>6, <1>9, <2>1 DEF Session
  <2>2. CASE g # old
    BY <1>6, <1>9, <2>2
  <2> QED BY <2>1, <2>2, NoneAssumption
<1>10. MapTypeOK'
  <2>1. sess' \in [MapServers -> [Fds -> Session \cup {FreeSlot}]]
    <3>1. \A g \in Fds : sess'[m][g] \in Session \cup {FreeSlot}
      BY <1>2, <1>4, <1>6, <1>9 DEF IInv, SessionInv, MapTypeOK
    <3>2. /\ sess' = [sess EXCEPT ![m] = sess'[m]]
          /\ sess'[m] = [g \in Fds |-> sess'[m][g]]
      BY <1>1, <1>2 DEF IInv, SessionInv, MapTypeOK
    <3>3. sess'[m] \in [Fds -> Session \cup {FreeSlot}]
      BY <3>1, <3>2
    <3> QED BY <3>2, <3>3 DEF IInv, SessionInv, MapTypeOK
  <2>2. ASSUME NEW n \in MapServers, NEW g \in Fds,
               sess'[n][g].phase \in {"auth", "parked"}
        PROVE  sess'[n][g].st \in Status
    <3>1. n # m \/ g # f
      BY <1>4, <1>6, <2>2
    <3> QED BY <1>7, <1>9, <2>2, <3>1 DEF IInv, SessionInv, MapTypeOK
  <2>3. idDb' \in [MapServers -> [Accounts -> Fds \cup {None}]]
    BY <1>1, <1>2, <1>3 DEF IInv, SessionInv, MapTypeOK
  <2> QED BY <1>1, <2>1, <2>2, <2>3 DEF IInv, SessionInv, MapTypeOK
<1>11. OneSession'
  <2> SUFFICES ASSUME NEW n \in MapServers, NEW g \in Fds, Authed(n, g)'
               PROVE  idDb'[n][sess'[n][g].acc] = g
    BY DEF OneSession
  <2>1. n # m \/ g # f
    BY <1>4, <1>6 DEF Authed
  <2>2. /\ sess'[n][g].acc = sess[n][g].acc /\ Authed(n, g)
        /\ sess[n][g].acc \in Accounts
    BY <1>7, <1>9, <2>1, AuthedSession DEF Authed, Session, IInv, SessionInv
  <2>3. idDb[n][sess[n][g].acc] = g
    BY <2>2 DEF IInv, SessionInv, OneSession
  <2> QED BY <1>7, <1>8, <2>2, <2>3, NoneAssumption
<1>12. EntryIsOpen'
  <2> SUFFICES ASSUME NEW n \in MapServers, NEW b \in Accounts,
                      idDb'[n][b] # None
               PROVE  LET g == idDb'[n][b]
                      IN  /\ sess'[n][g].phase # "free"
                          /\ sess'[n][g].acc = b /\ sess'[n][g].newfd # Second
    BY DEF EntryIsOpen, Open
  <2>1. CASE n # m
    BY <1>7, <2>1 DEF IInv, SessionInv, EntryIsOpen, Open
  <2>2. CASE n = m /\ b = a /\ old = None
    BY <1>4, <1>6, <1>8, <2>2, NoneAssumption
  <2>3. CASE n = m /\ ~(b = a /\ old = None)
    <3> DEFINE g == idDb[m][b]
    <3>1. idDb'[n][b] = g /\ g # None
      BY <1>8, <2>3
    <3>2. /\ g \in Fds /\ Open(m, g) /\ sess[m][g].acc = b
          /\ sess[m][g].newfd # Second
      BY <1>2, <3>1 DEF IInv, SessionInv, EntryIsOpen, MapTypeOK
    <3>3. g # f
      BY <1>1, <3>2
    <3>4. /\ sess'[m][g].phase = sess[m][g].phase
          /\ sess'[m][g].acc = sess[m][g].acc
          /\ sess'[m][g].newfd \in {sess[m][g].newfd, f}
      BY <1>9, <3>2, <3>3
    <3>5. f # Second
      BY NoneAssumption
    <3> QED BY <2>3, <3>1, <3>2, <3>4, <3>5 DEF Open
  <2> QED BY <2>1, <2>2, <2>3
<1>13. toChar' \in [MapServers -> Seq(CharMsg)] /\ DownIsEmpty'
  <2>1. msgs \in Seq(CharMsg)
    BY <1>2 DEF CharMsg
  <2> HIDE DEF msgs
  <2> QED BY <1>1, <1>2, <2>1, ToCharKeeps DEF IInv, LinkInv
<1>14. ClientTypeOK'
  <2>1. /\ [client[l] EXCEPT !.phase = "in", !.fd = f] \in
               [phase : {"in"}, srv : MapServers, fd : Fds, char : Chars]
        /\ client' = [client EXCEPT ![l] =
                         [client[l] EXCEPT !.phase = "in", !.fd = f]]
    BY <1>1, <1>2 DEF IInv, ClientTypeOK
  <2> QED BY <1>1, <2>1 DEF IInv, ClientTypeOK, ClientPhases
<1>15. CharTypeOK' /\ OnlineOnLinked'
  BY <1>1, PartsKeep DEF charVars
<1> QED BY <1>1, <1>10, <1>11, <1>12, <1>13, <1>14, <1>15
        DEF IInv, LinkInv, LinkTypeOK, SessionInv

\* What clients do keeps the invariant.
LEMMA ClientStepKeeps ==
    ASSUME IInv, NEW l \in Logins, ClientStep(l)
    PROVE  IInv'
<1>1. ASSUME UNCHANGED mapVars, UNCHANGED linkVars, UNCHANGED faults,
             UNCHANGED online, UNCHANGED <<fifoPos, saved>>,
             fifo' \in [1..FifoSize -> Ticket \cup {NoTicket}],
             NEW c \in {Done, AtSelect}, client' = [client EXCEPT ![l] = c]
      PROVE  IInv'
  <2>1. ClientTypeOK'
    BY <1>1 DEF IInv, ClientTypeOK, ClientPhases, Done, AtSelect, NoClient
  <2>2. CharTypeOK'
    BY <1>1 DEF IInv, CharTypeOK
  <2>3. SessionInv' /\ LinkTypeOK' /\ DownIsEmpty' /\ OnlineOnLinked'
    BY <1>1, PartsKeep DEF linkVars
  <2> QED BY <2>1, <2>2, <2>3 DEF IInv, LinkInv
<1>2. CASE Login(l)
  BY <1>1, <1>2 DEF Login, charVars, IInv, CharTypeOK
<1>3. CASE Return(l)
  <2>1. fifo' \in [1..FifoSize -> Ticket \cup {NoTicket}]
    BY <1>3 DEF Return, Consume, IInv, CharTypeOK
  <2> QED BY <1>1, <1>3, <2>1 DEF Return
<1>4. CASE GiveUp(l)
  BY <1>1, <1>4 DEF GiveUp, charVars, IInv, CharTypeOK
<1>5. CASE ConnectRefused(l)
  BY <1>1, <1>5 DEF ConnectRefused, charVars, IInv, CharTypeOK
<1>6. ASSUME NEW c \in Chars, Select(l, c)
      PROVE  IInv'
  <2> DEFINE m == saved[c].map
             t == [flag |-> 0, login |-> l, char |-> c]
             kick == [type |-> "kick", acc |-> AccountOf[l]]
             go == [phase |-> "go", srv |-> m, fd |-> None, char |-> c]
  <2>1. m \in MapServers /\ kick \in MapMsg /\ t \in Ticket
    BY MapsAssumption DEF IInv, CharTypeOK, MapMsg, Ticket
  <2>2. UNCHANGED <<online, saved, mapVars, toChar, link, faults>>
    BY <1>6 DEF Select
  <2>3. CASE /\ AddTicket(t) /\ UNCHANGED toMap
             /\ client' = [client EXCEPT ![l] = go]
    <3>1. CharTypeOK'
      BY <2>1, <2>2, <2>3, TicketKeeps DEF IInv, CharTypeOK
    <3>2. ClientTypeOK'
      BY <2>1, <2>2, <2>3 DEF IInv, ClientTypeOK, ClientPhases
    <3>3. SessionInv' /\ LinkTypeOK' /\ DownIsEmpty' /\ OnlineOnLinked'
      BY <2>2, <2>3, PartsKeep DEF linkVars
    <3> QED BY <3>1, <3>2, <3>3 DEF IInv, LinkInv
  <2>4. CASE ToMaps(MapServers, kick) /\ UNCHANGED <<fifo, fifoPos, client>>
    <3>1. toMap' \in [MapServers -> Seq(MapMsg)]
      BY <2>1, <2>4, ToMapsKeeps DEF IInv, LinkInv
    <3>2. /\ CharTypeOK' /\ ClientTypeOK' /\ SessionInv' /\ DownIsEmpty'
          /\ OnlineOnLinked'
      BY <2>2, <2>4, PartsKeep DEF charVars
    <3> QED BY <2>2, <3>1, <3>2 DEF IInv, LinkInv, LinkTypeOK
  <2> QED BY <1>6, <2>3, <2>4 DEF Select
<1>7. ASSUME NEW f \in Fds, Connect(l, f)
      PROVE  IInv'
  BY <1>7, ConnectKeeps
<1>8. ASSUME NEW m \in MapServers, NEW f \in Fds, RequestCharSelect(l, m, f)
      PROVE  IInv'
  <2> DEFINE s == sess[m][f]
             p == [s EXCEPT !.phase = "parked"]
             msgs == <<SaveMsg(s), [type |-> "charsel", acc |-> s.acc,
                                    login |-> s.login]>>
  <2>1. /\ s.phase = "auth" /\ sess' = [sess EXCEPT ![m][f] = p]
        /\ ToChar(m, msgs)
        /\ UNCHANGED charVars
        /\ UNCHANGED <<idDb, waitclose, toMap, link, client, faults>>
    BY <1>8 DEF RequestCharSelect, IInv, SessionInv, MapTypeOK
  <2>2. /\ Open(m, f) /\ s \in Session /\ s.st \in Status
        /\ idDb[m][s.acc] = f
    BY <2>1, AuthedSession
       DEF Authed, Open, IInv, SessionInv, MapTypeOK, OneSession
  <2>3. msgs \in Seq(CharMsg)
    <3>1. SaveMsg(s) \in CharMsg
      BY <2>2, SessionMsgs
    <3>2. [type |-> "charsel", acc |-> s.acc, login |-> s.login] \in CharMsg
      BY <2>2 DEF CharMsg, Session
    <3> QED BY <3>1, <3>2
  <2>4. /\ p \in Session /\ p.phase = "parked" /\ p.st = s.st
        /\ p.acc = s.acc /\ p.newfd = s.newfd
    BY <2>2 DEF Session, Phases
  <2>5. waitclose' \in [MapServers -> SUBSET Fds]
    BY <2>1 DEF IInv, SessionInv, MapTypeOK
  <2> HIDE DEF p, msgs
  <2>6. SessionInv'
    BY <2>1, <2>2, <2>4, <2>5, RewriteKeeps DEF IInv
  <2>7. toChar' \in [MapServers -> Seq(CharMsg)] /\ DownIsEmpty'
    BY <2>1, <2>3, ToCharKeeps DEF IInv, LinkInv
  <2>8. CharTypeOK' /\ ClientTypeOK' /\ OnlineOnLinked'
    BY <2>1, PartsKeep DEF charVars
  <2> QED BY <2>1, <2>6, <2>7, <2>8 DEF IInv, LinkInv, LinkTypeOK
<1>9. ASSUME NEW m \in MapServers, NEW f \in Fds, QuitGame(l, m, f)
      PROVE  IInv'
  <2>1. SessionInv'
    BY <1>9 DEF QuitGame, SetWaitClose, IInv, SessionInv, MapTypeOK,
                OneSession, EntryIsOpen, Authed, Open
  <2>2. /\ CharTypeOK' /\ ClientTypeOK' /\ LinkTypeOK' /\ DownIsEmpty'
        /\ OnlineOnLinked'
    BY <1>9, PartsKeep DEF QuitGame, charVars, linkVars
  <2> QED BY <2>1, <2>2 DEF IInv, LinkInv
<1> QED BY <1>2, <1>3, <1>4, <1>5, <1>6, <1>7, <1>8, <1>9 DEF ClientStep

\* Links that end take the sessions in play with them, and their entries.
LEMMA DropPlayersKeeps ==
    ASSUME IInv, NEW ms \in SUBSET MapServers, DropPlayers(ms),
           UNCHANGED waitclose
    PROVE  SessionInv' /\ LinkTypeOK' /\ DownIsEmpty'
<1> DEFINE gone(m, f) == m \in ms /\ sess[m][f].phase = "auth"
<1>1. \A m \in MapServers, f \in Fds :
         sess'[m][f] = IF gone(m, f) THEN FreeSlot ELSE sess[m][f]
  BY DEF DropPlayers
<1>2. \A m \in MapServers, a \in Accounts :
         idDb'[m][a] = IF \E f \in Fds : gone(m, f) /\ sess[m][f].acc = a
                       THEN None ELSE idDb[m][a]
  BY DEF DropPlayers
<1>3. LinkTypeOK' /\ DownIsEmpty'
  BY DEF DropPlayers, IInv, LinkInv, LinkTypeOK, DownIsEmpty
<1>4. MapTypeOK'
  <2>1. sess' \in [MapServers -> [Fds -> Session \cup {FreeSlot}]]
    BY DEF DropPlayers, IInv, SessionInv, MapTypeOK
  <2>2. idDb' \in [MapServers -> [Accounts -> Fds \cup {None}]]
    BY DEF DropPlayers, IInv, SessionInv, MapTypeOK
  <2>3. ASSUME NEW m \in MapServers, NEW f \in Fds,
               sess'[m][f].phase \in {"auth", "parked"}
        PROVE  sess'[m][f].st \in Status
    <3>1. sess'[m][f] = sess[m][f]
      BY <1>1, <2>3 DEF FreeSlot
    <3> QED BY <2>3, <3>1 DEF IInv, SessionInv, MapTypeOK
  <2>4. waitclose' \in [MapServers -> SUBSET Fds]
    BY DEF IInv, SessionInv, MapTypeOK
  <2> QED BY <2>1, <2>2, <2>3, <2>4 DEF MapTypeOK
<1>5. OneSession'
  <2> SUFFICES ASSUME NEW m \in MapServers, NEW f \in Fds, Authed(m, f)'
               PROVE  idDb'[m][sess'[m][f].acc] = f
    BY DEF OneSession
  <2>1. ~gone(m, f) /\ sess'[m][f] = sess[m][f] /\ Authed(m, f)
    BY <1>1 DEF Authed, FreeSlot
  <2>2. idDb[m][sess[m][f].acc] = f /\ sess[m][f].acc \in Accounts
    BY <2>1, AuthedSession DEF IInv, SessionInv, OneSession, Session
  <2>3. \A g \in Fds : gone(m, g) => idDb[m][sess[m][g].acc] = g
    BY DEF Authed, IInv, SessionInv, OneSession
  <2> QED BY <1>2, <2>1, <2>2, <2>3
<1>6. EntryIsOpen'
  <2> SUFFICES ASSUME NEW m \in MapServers, NEW a \in Accounts,
                      idDb'[m][a] # None
               PROVE  LET f == idDb'[m][a]
                      IN  /\ sess'[m][f].phase # "free"
                          /\ sess'[m][f].acc = a /\ sess'[m][f].newfd # Second
    BY DEF EntryIsOpen, Open
  <2> DEFINE f == idDb[m][a]
  <2>1. idDb'[m][a] = f /\ f # None /\ f \in Fds
    BY <1>2 DEF IInv, SessionInv, MapTypeOK
  <2>2. Open(m, f) /\ sess[m][f].acc = a /\ sess[m][f].newfd # Second
    BY <2>1 DEF IInv, SessionInv, EntryIsOpen
  <2>3. ~gone(m, f)
    BY <1>2, <2>1, <2>2
  <2> QED BY <1>1, <2>1, <2>2, <2>3 DEF Open
<1> QED BY <1>3, <1>4, <1>5, <1>6 DEF SessionInv

\* Failures keep the invariant.
LEMMA FaultStepKeeps ==
    ASSUME IInv, FaultStep
    PROVE  IInv'
<1>1. ASSUME NEW m \in MapServers, LinkDown(m)
      PROVE  IInv'
  <2> DEFINE S == LostClients({m})
  <2>1. SessionInv' /\ LinkTypeOK' /\ DownIsEmpty'
    BY <1>1, DropPlayersKeeps DEF LinkDown
  <2>2. CharTypeOK' /\ OnlineOnLinked'
    BY <1>1 DEF LinkDown, ForgetOnline, DropPlayers, IInv, CharTypeOK, LinkInv,
                LinkTypeOK, OnlineOnLinked
  <2>3. /\ S \in SUBSET Logins /\ faults' \in Nat
        /\ client' = [l \in Logins |-> IF l \in S THEN Done ELSE client[l]]
    BY <1>1 DEF LinkDown, Fault, LostClients, IInv, ClientTypeOK
  <2> HIDE DEF S
  <2>4. ClientTypeOK'
    BY <2>3, ClientsKeep DEF IInv
  <2> QED BY <2>1, <2>2, <2>4 DEF IInv, LinkInv
<1>2. ASSUME NEW m \in MapServers, LinkUp(m)
      PROVE  IInv'
  <2>1. LinkTypeOK' /\ DownIsEmpty' /\ OnlineOnLinked'
    BY <1>2 DEF LinkUp, charVars, IInv, LinkInv, LinkTypeOK, DownIsEmpty,
                OnlineOnLinked
  <2>2. CharTypeOK' /\ SessionInv' /\ ClientTypeOK'
    BY <1>2, PartsKeep DEF LinkUp
  <2> QED BY <2>1, <2>2 DEF IInv, LinkInv
<1>3. ASSUME NEW m \in MapServers, MapCrash(m)
      PROVE  IInv'
  BY <1>3, DieKeeps DEF MapCrash, Fault, IInv, ClientTypeOK
<1>4. CASE CharRestart
  <2> DEFINE S == {l \in Logins : l \in LostClients(MapServers)
                                  \/ client[l].phase = "select"}
  <2>1. SessionInv' /\ LinkTypeOK' /\ DownIsEmpty'
    BY <1>4, DropPlayersKeeps DEF CharRestart
  <2>2. CharTypeOK' /\ OnlineOnLinked'
    BY <1>4, FifoAssumption
       DEF CharRestart, IInv, CharTypeOK, OnlineOnLinked
  <2>3. /\ S \in SUBSET Logins /\ faults' \in Nat
        /\ client' = [l \in Logins |-> IF l \in S THEN Done ELSE client[l]]
    BY <1>4 DEF CharRestart, Fault, IInv, ClientTypeOK
  <2> HIDE DEF S
  <2>4. ClientTypeOK'
    BY <2>3, ClientsKeep DEF IInv
  <2> QED BY <2>1, <2>2, <2>4 DEF IInv, LinkInv
<1> QED BY <1>1, <1>2, <1>3, <1>4 DEF FaultStep

-----------------------------------------------------------------------------
(* Theorems *)

LEMMA InitInv == Init => IInv
<1> SUFFICES ASSUME Init PROVE IInv
  OBVIOUS
<1>1. CharTypeOK /\ OnlineOnLinked
  BY FifoAssumption, VerAssumption, MapsAssumption
     DEF Init, CharTypeOK, OnlineOnLinked
<1>2. LinkTypeOK /\ DownIsEmpty
  BY DEF Init, LinkTypeOK, DownIsEmpty
<1>3. SessionInv
  BY DEF Init, SessionInv, MapTypeOK, OneSession, EntryIsOpen, Authed, Open,
         FreeSlot
<1>4. ClientTypeOK
  BY DEF Init, ClientTypeOK, ClientPhases, NoClient
<1> QED BY <1>1, <1>2, <1>3, <1>4 DEF IInv, LinkInv

LEMMA NextInv == IInv /\ [Next]_vars => IInv'
<1> SUFFICES ASSUME IInv, [Next]_vars PROVE IInv'
  OBVIOUS
<1>1. CASE Next
  BY <1>1, CharStepKeeps, MapStepKeeps, SessionStepKeeps, ClientStepKeeps,
     FaultStepKeeps DEF Next
<1>2. CASE UNCHANGED vars
  BY <1>2, PartsKeep DEF vars, linkVars, charVars, IInv, LinkInv
<1> QED BY <1>1, <1>2

\* The inductive invariant holds in every reachable state.
THEOREM Invariance == Spec => []IInv
  BY InitInv, NextInv, PTL DEF Spec

\* Every variable keeps its type: tickets stay within the ring of auth_fifo,
\* every message on a link is one its receiver knows, and a session in play
\* has a status.
THEOREM TypeCorrect == Spec => []TypeOK
<1>1. IInv => TypeOK
  BY DEF IInv, LinkInv, SessionInv, TypeOK
<1> QED BY <1>1, Invariance, PTL

\* However many connections an account opens on a map server, and in whatever
\* order their requests are answered, refused or dropped, at most one session
\* of the account is authenticated and id_db names it.
THEOREM OneSessionHolds == Spec => []OneSession
<1>1. IInv => OneSession
  BY DEF IInv, SessionInv
<1> QED BY <1>1, Invariance, PTL

\* The char server never holds an account online on a server it has lost.
THEOREM OnlineOnLinkedHolds == Spec => []OnlineOnLinked
<1>1. IInv => OnlineOnLinked
  BY DEF IInv, LinkInv
<1> QED BY <1>1, Invariance, PTL

-----------------------------------------------------------------------------
(* The character a client chose *)

\* What a step may do to a session and its character: let the right one in,
\* mark it to be closed, or leave both as they are.
KeepsChoice(m, f) ==
    \/ Authed(m, f)' => sess'[m][f].st.char = sess'[m][f].char
    \/ f \in waitclose'[m]
    \/ /\ f \in waitclose[m] => f \in waitclose'[m]
       /\ Authed(m, f)' => /\ Authed(m, f)
                           /\ sess'[m][f].st.char = sess[m][f].st.char
                           /\ sess'[m][f].char = sess[m][f].char

LEMMA ChoiceKept ==
    ASSUME PlaysItsChoice, \A m \in MapServers, f \in Fds : KeepsChoice(m, f)
    PROVE  PlaysItsChoice'
  BY DEF PlaysItsChoice, KeepsChoice, Authed

\* A descriptor that is marked changes nothing for the sessions.
LEMMA MarkKeepsChoice ==
    ASSUME IInv, PlaysItsChoice, UNCHANGED sess,
           NEW m \in MapServers, NEW F, SetWaitClose(m, F) \/ UNCHANGED waitclose
    PROVE  PlaysItsChoice'
<1>1. waitclose \in [MapServers -> SUBSET Fds]
  BY DEF IInv, SessionInv, MapTypeOK
<1>2. \A n \in MapServers : waitclose[n] \subseteq waitclose'[n]
  BY <1>1 DEF SetWaitClose
<1>3. ASSUME NEW n \in MapServers, NEW g \in Fds PROVE KeepsChoice(n, g)
  BY <1>2 DEF KeepsChoice, Authed
<1> QED BY <1>3, ChoiceKept

\* Nor does one session that is written anew, or closed.
LEMMA RewriteKeepsChoice ==
    ASSUME IInv, PlaysItsChoice, NEW m \in MapServers, NEW f \in Fds, NEW s,
           sess' = [sess EXCEPT ![m][f] = s],
           \A n \in MapServers, g \in Fds \ {f} :
               g \in waitclose[n] => g \in waitclose'[n],
           \A n \in MapServers \ {m} : waitclose'[n] = waitclose[n],
           \/ s.phase \notin {"auth", "parked"}
           \/ s.st.char = s.char
           \/ f \in waitclose'[m]
           \/ /\ f \in waitclose[m] => f \in waitclose'[m]
              /\ Authed(m, f)
              /\ s.st.char = sess[m][f].st.char /\ s.char = sess[m][f].char
    PROVE  PlaysItsChoice'
<1>1. sess \in [MapServers -> [Fds -> Session \cup {FreeSlot}]]
  BY DEF IInv, SessionInv, MapTypeOK
<1>2. ASSUME NEW n \in MapServers, NEW g \in Fds PROVE KeepsChoice(n, g)
  <2>1. CASE n = m /\ g = f
    <3>1. sess'[m][f] = s
      BY <1>1
    <3> QED BY <2>1, <3>1 DEF KeepsChoice, Authed
  <2>2. CASE n # m \/ g # f
    <3>1. sess'[n][g] = sess[n][g]
      BY <1>1, <2>2
    <3> QED BY <2>2, <3>1 DEF KeepsChoice, Authed
  <2> QED BY <2>1, <2>2
<1> QED BY <1>2, ChoiceKept

\* pc_authok compares the character before it lets the session in.
LEMMA AuthOkKeepsChoice ==
    ASSUME IInv, PlaysItsChoice, NEW m \in MapServers, AuthOk(m)
    PROVE  PlaysItsChoice'
<1> DEFINE f == Addressee(m)
           st == Answer(m).st
           s == [sess[m][f] EXCEPT !.st = st]
           in == [s EXCEPT !.phase = "auth"]
<1>1. /\ toMap[m] # <<>> /\ f # None
      /\ waitclose \in [MapServers -> SUBSET Fds]
  BY DEF AuthOk, HasAnswer, IInv, SessionInv, MapTypeOK
<1>2. f \in Fds /\ sess[m][f] \in Session
  BY <1>1, AddresseeIsOpen DEF IInv, LinkInv
<1>3. CASE sess' = [sess EXCEPT ![m][f] = s] /\ SetWaitClose(m, {f})
  <2>1. /\ f \in waitclose'[m] /\ waitclose[m] \subseteq waitclose'[m]
        /\ \A n \in MapServers \ {m} : waitclose'[n] = waitclose[n]
    <3> HIDE DEF f
    <3>1. waitclose' = [waitclose EXCEPT ![m] = @ \cup {f}]
      BY <1>3 DEF SetWaitClose
    <3> QED BY <1>1, <3>1
  <2> HIDE DEF s, f
  <2>2. \A n \in MapServers, g \in Fds \ {f} :
           g \in waitclose[n] => g \in waitclose'[n]
    BY <2>1
  <2> QED BY <1>2, <1>3, <2>1, <2>2, RewriteKeepsChoice
<1>4. CASE st.char = s.char /\ sess' = [sess EXCEPT ![m][f] = in]
           /\ UNCHANGED waitclose
  <2>1. in.st.char = in.char
    BY <1>2, <1>4 DEF Session
  <2> HIDE DEF in, f
  <2> QED BY <1>2, <1>4, <2>1, RewriteKeepsChoice
<1>5. CASE st.char = s.char /\ sess' = [sess EXCEPT ![m][f] = Leave(in, st.map)]
           /\ UNCHANGED waitclose
  <2> DEFINE p == Leave(in, st.map)
  <2>1. st \in Status
    BY <1>1, AnswerRead, MessageFields DEF AuthOk, HasAnswer, Answer, IInv, LinkInv
  <2>2. p.st.char = p.char
    BY <1>2, <1>5, <2>1 DEF Session, Status, Leave
  <2> HIDE DEF p, f
  <2> QED BY <1>2, <1>5, <2>2, RewriteKeepsChoice DEF p
<1> QED BY <1>3, <1>4, <1>5 DEF AuthOk

LEMMA MapStepKeepsChoice ==
    ASSUME IInv, PlaysItsChoice, NEW m \in MapServers, MapStep(m)
    PROVE  PlaysItsChoice'
<1> DEFINE f == Addressee(m)
<1>1. CASE AuthOk(m)
  BY <1>1, AuthOkKeepsChoice
<1>2. CASE AuthOkTwice(m) \/ Kicked(m) \/ CharSelectOk(m) \/ MoveOk(m)
           \/ IgnoreAnswer(m)
  <2>1. UNCHANGED sess
    BY <1>2 DEF AuthOkTwice, Kicked, CharSelectOk, MoveOk, IgnoreAnswer, mapVars
  <2>2. UNCHANGED waitclose \/ \E F : SetWaitClose(m, F)
    BY <1>2 DEF AuthOkTwice, Kicked, CharSelectOk, MoveOk, IgnoreAnswer, mapVars
  <2> QED BY <2>1, <2>2, MarkKeepsChoice
<1>3. CASE AuthFail(m)
  <2>1. CASE Die(m)
    <3>1. \A n \in MapServers, g \in Fds :
             n = m \/ (sess'[n] = sess[n] /\ waitclose'[n] = waitclose[n])
      BY <2>1 DEF Die, IInv, SessionInv, MapTypeOK
    <3>2. \A g \in Fds : sess'[m][g] = FreeSlot
      BY <2>1 DEF Die, IInv, SessionInv, MapTypeOK
    <3>3. ASSUME NEW n \in MapServers, NEW g \in Fds PROVE KeepsChoice(n, g)
      BY <3>1, <3>2 DEF KeepsChoice, Authed, FreeSlot
    <3> QED BY <3>3, ChoiceKept
  <2>2. CASE /\ SetWaitClose(m, {sess[m][f].newfd})
             /\ sess' = [sess EXCEPT ![m][f].newfd = None]
    <3> DEFINE s == [sess[m][f] EXCEPT !.newfd = None]
    <3>1. toMap[m] # <<>> /\ f # None
      BY <1>3 DEF AuthFail, HasAnswer
    <3>2. f \in Fds /\ sess[m][f] \in Session
      BY <3>1, AddresseeIsOpen DEF IInv, LinkInv
    <3>3. \A n \in MapServers : waitclose[n] \subseteq waitclose'[n]
      BY <2>2 DEF SetWaitClose, IInv, SessionInv, MapTypeOK
    <3>4. /\ sess' = [sess EXCEPT ![m][f] = s]
          /\ s.phase = sess[m][f].phase /\ s.st.char = sess[m][f].st.char
          /\ s.char = sess[m][f].char
      BY <2>2, <3>2 DEF Session, IInv, SessionInv, MapTypeOK
    <3>5. ASSUME NEW n \in MapServers, NEW g \in Fds PROVE KeepsChoice(n, g)
      <4>1. sess[n][g] = sess'[n][g] \/ (n = m /\ g = f /\ sess'[n][g] = s)
        BY <3>2, <3>4 DEF IInv, SessionInv, MapTypeOK
      <4> HIDE DEF s
      <4> QED BY <3>3, <3>4, <4>1 DEF KeepsChoice, Authed
    <3> QED BY <3>5, ChoiceKept
  <2>3. CASE SetWaitClose(m, {f}) /\ UNCHANGED sess
    BY <2>3, MarkKeepsChoice
  <2> QED BY <1>3, <2>1, <2>2, <2>3 DEF AuthFail
<1> QED BY <1>1, <1>2, <1>3 DEF MapStep

LEMMA SessionStepKeepsChoice ==
    ASSUME IInv, PlaysItsChoice, NEW m \in MapServers, NEW f \in Fds,
           SessionStep(m, f)
    PROVE  PlaysItsChoice'
<1> DEFINE s == sess[m][f]
<1>1. ASSUME s.phase = "auth"
      PROVE  s \in Session /\ s.st \in Status /\ Authed(m, f)
  BY <1>1, AuthedSession DEF Authed, IInv, SessionInv
<1>2. CASE Play(m, f)
  <2> DEFINE p == [s EXCEPT !.st.ver = @ + 1]
  <2>1. s.phase = "auth" /\ sess' = [sess EXCEPT ![m][f] = p] /\ UNCHANGED waitclose
    BY <1>2 DEF Play, IInv, SessionInv, MapTypeOK
  <2>2. p.st.char = s.st.char /\ p.char = s.char
    BY <1>1, <2>1 DEF Session, Status
  <2> HIDE DEF p
  <2> QED BY <1>1, <2>1, <2>2, RewriteKeepsChoice
<1>3. CASE Autosave(m, f)
  BY <1>3, MarkKeepsChoice DEF Autosave, mapVars
<1>4. ASSUME NEW x \in MapServers, ChangeServer(m, f, x) PROVE PlaysItsChoice'
  <2> DEFINE p == Leave(s, x)
  <2>1. s.phase = "auth" /\ sess' = [sess EXCEPT ![m][f] = p] /\ UNCHANGED waitclose
    BY <1>4 DEF ChangeServer, IInv, SessionInv, MapTypeOK
  <2>2. p.st.char = s.st.char /\ p.char = s.char
    BY <1>1, <2>1 DEF Session, Status, Leave
  <2> HIDE DEF p
  <2> QED BY <1>1, <2>1, <2>2, RewriteKeepsChoice
<1>5. ASSUME Close(m, f),
             \A n \in MapServers, g \in Fds \ {f} :
                 g \in waitclose[n] => g \in waitclose'[n],
             \A n \in MapServers \ {m} : waitclose'[n] = waitclose[n]
      PROVE  PlaysItsChoice'
  <2>1. sess' = [sess EXCEPT ![m][f] = FreeSlot]
    BY <1>5 DEF Close
  <2>2. FreeSlot.phase \notin {"auth", "parked"}
    BY DEF FreeSlot
  <2> QED BY <1>5, <2>1, <2>2, RewriteKeepsChoice
<1>6. CASE Disconnect(m, f)
  BY <1>5, <1>6 DEF Disconnect
<1>7. CASE WaitClose(m, f)
  <2>1. /\ \A n \in MapServers, g \in Fds \ {f} :
              g \in waitclose[n] => g \in waitclose'[n]
        /\ \A n \in MapServers \ {m} : waitclose'[n] = waitclose[n]
    BY <1>7 DEF WaitClose, IInv, SessionInv, MapTypeOK
  <2>2. CASE Close(m, f)
    BY <1>5, <2>1, <2>2
  <2>3. CASE ~Open(m, f) /\ UNCHANGED sess
    <3>1. ASSUME NEW n \in MapServers, NEW g \in Fds PROVE KeepsChoice(n, g)
      <4>1. CASE n = m /\ g = f
        BY <2>3, <4>1 DEF KeepsChoice, Authed, Open
      <4>2. CASE n # m \/ g # f
        BY <2>1, <2>3, <4>2 DEF KeepsChoice, Authed
      <4> QED BY <4>1, <4>2
    <3> QED BY <3>1, ChoiceKept
  <2> QED BY <1>7, <2>2, <2>3 DEF WaitClose
<1> QED BY <1>2, <1>3, <1>4, <1>6, <1>7 DEF SessionStep

LEMMA ClientStepKeepsChoice ==
    ASSUME IInv, PlaysItsChoice, NEW l \in Logins, ClientStep(l)
    PROVE  PlaysItsChoice'
<1>1. ASSUME UNCHANGED mapVars PROVE PlaysItsChoice'
  BY <1>1 DEF mapVars, PlaysItsChoice, Authed
<1>2. CASE Login(l) \/ Return(l) \/ GiveUp(l) \/ ConnectRefused(l)
           \/ \E c \in Chars : Select(l, c)
  BY <1>1, <1>2 DEF Login, Return, GiveUp, ConnectRefused, Select
<1>3. ASSUME NEW f \in Fds, Connect(l, f) PROVE PlaysItsChoice'
  <2> DEFINE m == client[l].srv
             old == Entry(m, AccountOf[l])
             new == [phase |-> "new", acc |-> AccountOf[l], login |-> l,
                     char |-> client[l].char,
                     newfd |-> IF old = None THEN None ELSE Second, st |-> NoStatus]
  <2>1. /\ client[l].phase = "go" /\ UNCHANGED waitclose
        /\ sess' = [sess EXCEPT ![m] = [g \in Fds |->
                       IF g = f THEN new
                       ELSE IF g = old THEN [@[g] EXCEPT !.newfd = f]
                       ELSE @[g]]]
    BY <1>3 DEF Connect
  <2>2. m \in MapServers /\ new.phase = "new"
    BY <2>1 DEF IInv, ClientTypeOK
  <2>3. sess \in [MapServers -> [Fds -> Session \cup {FreeSlot}]]
    BY DEF IInv, SessionInv, MapTypeOK
  <2> HIDE DEF m, old, new
  <2>4. ASSUME NEW n \in MapServers, NEW g \in Fds PROVE KeepsChoice(n, g)
    <3>1. CASE n = m /\ g = f
      BY <2>1, <2>2, <2>3, <3>1 DEF KeepsChoice, Authed
    <3>2. CASE n = m /\ g # f
      <4>1. sess'[n][g] \in {sess[n][g], [sess[n][g] EXCEPT !.newfd = f]}
        BY <2>1, <2>2, <2>3, <3>2
      <4>2. /\ sess'[n][g].phase = sess[n][g].phase
            /\ sess'[n][g].st = sess[n][g].st /\ sess'[n][g].char = sess[n][g].char
        BY <2>3, <4>1 DEF Session, FreeSlot
      <4> QED BY <2>1, <4>2 DEF KeepsChoice, Authed
    <3>3. CASE n # m
      BY <2>1, <2>2, <2>3, <3>3 DEF KeepsChoice, Authed
    <3> QED BY <3>1, <3>2, <3>3
  <2> QED BY <2>4, ChoiceKept
<1>4. ASSUME NEW m \in MapServers, NEW f \in Fds, RequestCharSelect(l, m, f)
      PROVE  PlaysItsChoice'
  <2> DEFINE p == [sess[m][f] EXCEPT !.phase = "parked"]
  <2>1. /\ Authed(m, f) /\ sess' = [sess EXCEPT ![m][f] = p]
        /\ UNCHANGED waitclose
    BY <1>4 DEF RequestCharSelect, Authed, IInv, SessionInv, MapTypeOK
  <2>2. sess[m][f] \in Session
    BY <2>1, AuthedSession DEF IInv, SessionInv
  <2>3. p.st.char = sess[m][f].st.char /\ p.char = sess[m][f].char
    BY <2>2 DEF Session
  <2> HIDE DEF p
  <2> QED BY <2>1, <2>3, RewriteKeepsChoice
<1>5. ASSUME NEW m \in MapServers, NEW f \in Fds, QuitGame(l, m, f)
      PROVE  PlaysItsChoice'
  BY <1>5, MarkKeepsChoice DEF QuitGame
<1> QED BY <1>2, <1>3, <1>4, <1>5 DEF ClientStep

LEMMA FaultStepKeepsChoice ==
    ASSUME IInv, PlaysItsChoice, FaultStep
    PROVE  PlaysItsChoice'
<1>1. ASSUME \A m \in MapServers, f \in Fds :
                 \/ sess'[m][f] = FreeSlot
                 \/ sess'[m][f] = sess[m][f] /\ waitclose'[m] = waitclose[m]
      PROVE  PlaysItsChoice'
  <2>1. ASSUME NEW n \in MapServers, NEW g \in Fds PROVE KeepsChoice(n, g)
    BY <1>1 DEF KeepsChoice, Authed, FreeSlot
  <2> QED BY <2>1, ChoiceKept
<1>2. ASSUME NEW m \in MapServers, MapCrash(m) PROVE PlaysItsChoice'
  BY <1>1, <1>2 DEF MapCrash, Die, IInv, SessionInv, MapTypeOK
<1>3. ASSUME NEW m \in MapServers, LinkDown(m) PROVE PlaysItsChoice'
  BY <1>1, <1>3 DEF LinkDown, DropPlayers
<1>4. ASSUME NEW m \in MapServers, LinkUp(m) PROVE PlaysItsChoice'
  BY <1>1, <1>4 DEF LinkUp, mapVars
<1>5. CASE CharRestart
  BY <1>1, <1>5 DEF CharRestart, DropPlayers
<1> QED BY <1>2, <1>3, <1>4, <1>5 DEF FaultStep

\* However many requests of an account are under way, and whichever session
\* their answers reach, a session in play has the character its client chose
\* unless it is about to be cut off.
THEOREM PlaysItsChoiceHolds == Spec => []PlaysItsChoice
<1>1. Init => PlaysItsChoice
  BY DEF Init, PlaysItsChoice, Authed, FreeSlot
<1>2. ASSUME IInv, PlaysItsChoice, [Next]_vars PROVE PlaysItsChoice'
  <2>1. ASSUME NEW m \in MapServers, CharStep(m) PROVE PlaysItsChoice'
    <3>1. UNCHANGED mapVars
      BY <2>1 DEF CharStep, RecvAuth, RecvSave, RecvCharSelect, RecvMove, RecvQuit
    <3> QED BY <1>2, <3>1 DEF mapVars, PlaysItsChoice, Authed
  <2>2. CASE UNCHANGED vars
    BY <1>2, <2>2 DEF vars, mapVars, PlaysItsChoice, Authed
  <2>3. CASE Next
    BY <1>2, <2>1, <2>3, MapStepKeepsChoice, SessionStepKeepsChoice,
       ClientStepKeepsChoice, FaultStepKeepsChoice DEF Next
  <2> QED BY <1>2, <2>2, <2>3
<1> QED BY <1>1, <1>2, Invariance, PTL DEF Spec

=============================================================================
