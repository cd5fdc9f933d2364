--------------------------- MODULE StorageProofs ----------------------------
(***************************************************************************)
(* Theorems about Storage for every set of map servers and players, every  *)
(* amount of items, every bound and any number of link failures: the types,*)
(* and that the guild's storage has one user at most on each map server.   *)
(***************************************************************************)
EXTENDS Storage, SequenceTheorems, TLAPS

-----------------------------------------------------------------------------
(* Messages and links *)

\* No message of a link, at most one of them, is of this type.
Free(s, type) == \A i \in 1..Len(s) : s[i].type # type

AtMostOne(s, type) ==
    \A i, j \in 1..Len(s) : s[i].type = type /\ s[j].type = type => i = j

LEMMA FreeConcat ==
    ASSUME NEW S, NEW s \in Seq(S), NEW u \in Seq(S), NEW t, Free(u, t)
    PROVE  /\ Free(s, t) => Free(s \o u, t)
           /\ AtMostOne(s, t) => AtMostOne(s \o u, t)
<1>1. /\ Len(s \o u) = Len(s) + Len(u) /\ Len(s) \in Nat /\ Len(u) \in Nat
      /\ \A i \in 1..(Len(s) + Len(u)) :
            (s \o u)[i] = IF i <= Len(s) THEN s[i] ELSE u[i - Len(s)]
  BY ConcatProperties, LenProperties
<1>2. \A i \in 1..Len(s \o u) :
         (s \o u)[i].type = t => i \in 1..Len(s) /\ s[i].type = t
  <2> SUFFICES ASSUME NEW i \in 1..Len(s \o u), (s \o u)[i].type = t
               PROVE  i \in 1..Len(s) /\ s[i].type = t
    OBVIOUS
  <2>1. CASE i <= Len(s)
    BY <2>1, <1>1
  <2>2. CASE ~(i <= Len(s))
    <3>1. i - Len(s) \in 1..Len(u) /\ (s \o u)[i] = u[i - Len(s)]
      BY <2>2, <1>1
    <3> QED BY <3>1 DEF Free
  <2> QED BY <2>1, <2>2
<1>3. Free(s, t) => Free(s \o u, t)
  BY <1>2 DEF Free
<1>4. AtMostOne(s, t) => AtMostOne(s \o u, t)
  BY <1>2 DEF AtMostOne
<1> QED BY <1>3, <1>4

\* The only one of its type comes last.
LEMMA OneConcat ==
    ASSUME NEW S, NEW s \in Seq(S), NEW x \in S, NEW t, Free(s, t)
    PROVE  AtMostOne(s \o <<x>>, t)
<1>1. /\ Len(s \o <<x>>) = Len(s) + 1 /\ Len(s) \in Nat
      /\ \A i \in 1..(Len(s) + 1) :
            (s \o <<x>>)[i] = IF i <= Len(s) THEN s[i] ELSE <<x>>[i - Len(s)]
  BY ConcatProperties, LenProperties
<1>2. \A i \in 1..Len(s \o <<x>>) : (s \o <<x>>)[i].type = t => i = Len(s) + 1
  BY <1>1 DEF Free
<1> QED BY <1>2 DEF AtMostOne

\* What is behind the first message.
LEMMA FreeTail ==
    ASSUME NEW S, NEW s \in Seq(S), s # <<>>, NEW t
    PROVE  /\ Free(s, t) => Free(Tail(s), t)
           /\ AtMostOne(s, t) => AtMostOne(Tail(s), t)
           /\ AtMostOne(s, t) /\ Head(s).type = t => Free(Tail(s), t)
           /\ Head(s).type = t => ~Free(s, t)
<1>1. /\ Len(Tail(s)) = Len(s) - 1 /\ Len(s) \in Nat \ {0} /\ Head(s) = s[1]
      /\ \A i \in 1..Len(Tail(s)) : Tail(s)[i] = s[i + 1]
  BY HeadTailProperties, LenProperties, EmptySeq
<1>2. \A i \in 1..Len(Tail(s)) : i + 1 \in 1..Len(s) /\ i + 1 # 1
  BY <1>1
<1>3. 1 \in 1..Len(s)
  BY <1>1
<1>4. Free(s, t) => Free(Tail(s), t)
  BY <1>1, <1>2 DEF Free
<1>5. AtMostOne(s, t) => AtMostOne(Tail(s), t)
  <2> SUFFICES ASSUME AtMostOne(s, t),
                      NEW i \in 1..Len(Tail(s)), NEW j \in 1..Len(Tail(s)),
                      Tail(s)[i].type = t, Tail(s)[j].type = t
               PROVE  i = j
    BY DEF AtMostOne
  <2>1. i + 1 = j + 1
    BY <1>1, <1>2 DEF AtMostOne
  <2> QED BY <2>1
<1>6. AtMostOne(s, t) /\ Head(s).type = t => Free(Tail(s), t)
  BY <1>1, <1>2, <1>3 DEF AtMostOne, Free
<1>7. Head(s).type = t => ~Free(s, t)
  BY <1>1, <1>3 DEF Free
<1> QED BY <1>4, <1>5, <1>6, <1>7

LEMMA MessageHead ==
    ASSUME NEW S, NEW s \in Seq(S), s # <<>>
    PROVE  Head(s) \in S /\ Tail(s) \in Seq(S)
  BY HeadTailProperties, EmptySeq

\* Every way to make messages for the char server makes some of its, and none
\* asks for the guild's storage.
Harmless(msgs) == msgs \in Seq(CharMsg) /\ Free(msgs, "gask")

LEMMA HarmlessOne ==
    ASSUME NEW type \in {"auth", "save", "ask", "put", "gput"},
           NEW p \in Players, NEW n \in Nat
    PROVE  Harmless(<<Msg(type, p, n)>>)
<1>1. Msg(type, p, n) \in CharMsg /\ Msg(type, p, n).type # "gask"
  BY DEF Msg, CharMsg
<1>2. <<Msg(type, p, n)>> \in Seq(CharMsg)
  BY <1>1
<1>3. Free(<<Msg(type, p, n)>>, "gask")
  BY <1>1 DEF Free
<1> QED BY <1>2, <1>3 DEF Harmless

LEMMA HarmlessNone == Harmless(<<>>)
  BY DEF Harmless, Free

LEMMA HarmlessConcat ==
    ASSUME NEW u, NEW v, Harmless(u), Harmless(v)
    PROVE  Harmless(u \o v)
<1>1. u \o v \in Seq(CharMsg)
  BY ConcatProperties DEF Harmless
<1> QED BY <1>1, FreeConcat DEF Harmless

-----------------------------------------------------------------------------
(* Types *)

Entries == [cached : BOOLEAN, open : BOOLEAN, n : Nat]

LEMMA InCache ==
    /\ Cache \subseteq Entries
    /\ \A e \in Cache : e.open => e.cached
    /\ \A e \in Entries : e.cached => e \in Cache
<1>1. NotCached \in Entries /\ ~NotCached.open
  BY DEF NotCached, Entries
<1>2. ASSUME NEW e \in [cached : {TRUE}, open : BOOLEAN, n : Nat]
      PROVE  e \in Entries /\ e.cached
  BY DEF Entries
<1>3. ASSUME NEW e \in Entries, e.cached
      PROVE  e \in [cached : {TRUE}, open : BOOLEAN, n : Nat]
  BY <1>3 DEF Entries
<1> QED BY <1>1, <1>2, <1>3 DEF Cache

\* What the functions make of an entry.
LEMMA EntryOpen ==
    ASSUME NEW e \in Cache, NEW b \in BOOLEAN, b => e.cached
    PROVE  [e EXCEPT !.open = b] \in Cache /\ [e EXCEPT !.open = b].open = b
<1>1. e \in Entries
  BY InCache
<1>2. CASE e.cached
  <2>1. /\ [e EXCEPT !.open = b] \in Entries
        /\ [e EXCEPT !.open = b].open = b /\ [e EXCEPT !.open = b].cached
    BY <1>1, <1>2 DEF Entries
  <2> QED BY <2>1, InCache
<1>3. CASE ~e.cached
  <2>1. ~e.open /\ b = FALSE
    BY <1>1, <1>3, InCache
  <2>2. [e EXCEPT !.open = FALSE] = e
    BY <1>1, <2>1 DEF Entries
  <2>3. e.open = FALSE
    BY <1>1, <2>1 DEF Entries
  <2> QED BY <2>1, <2>2, <2>3, Zenon
<1> QED BY <1>2, <1>3

LEMMA EntryCount ==
    ASSUME NEW e \in Cache, NEW k \in Nat, e.cached
    PROVE  [e EXCEPT !.n = k] \in Cache /\ [e EXCEPT !.n = k].open = e.open
<1>1. e \in Entries
  BY InCache
<1>2. /\ [e EXCEPT !.n = k] \in Entries
      /\ [e EXCEPT !.n = k].cached /\ [e EXCEPT !.n = k].open = e.open
  BY <1>1 DEF Entries
<1> QED BY <1>2, InCache

LEMMA CacheTypes ==
    /\ NotCached \in Cache /\ Empty \in Cache
    /\ \A k \in Nat : Opened(k) \in Cache /\ Opened(k).open /\ Opened(k).cached
    /\ ~NotCached.open
    /\ \A e \in Cache :
          /\ e.n \in Nat /\ e.open \in BOOLEAN /\ e.cached \in BOOLEAN
          /\ e.open => e.cached
          /\ Shut(e) \in Cache /\ ~Shut(e).open
<1>1. NotCached \in Cache /\ ~NotCached.open
  BY DEF NotCached, Cache
<1>2. Empty \in Cache
  BY DEF Empty, Cache
<1>3. ASSUME NEW k \in Nat
      PROVE  Opened(k) \in Cache /\ Opened(k).open /\ Opened(k).cached
  BY DEF Opened, Cache
<1>4. ASSUME NEW e \in Cache
      PROVE  /\ e.n \in Nat /\ e.open \in BOOLEAN /\ e.cached \in BOOLEAN
             /\ e.open => e.cached
  BY InCache DEF Entries
<1>5. ASSUME NEW e \in Cache
      PROVE  Shut(e) \in Cache /\ ~Shut(e).open
  BY EntryOpen DEF Shut
<1> QED BY <1>1, <1>2, <1>3, <1>4, <1>5

LEMMA EntryTypes ==
    ASSUME TypeOK, NEW m \in MapServers, NEW p \in Players
    PROVE  /\ Entry(m, p) \in Cache /\ GEntry(m) \in Cache
           /\ stor[m][p] \in Cache /\ gstor[m] \in Cache
           /\ inv[p] \in Nat
<1>1. stor[m][p] \in Cache /\ gstor[m] \in Cache /\ inv[p] \in Nat
  BY DEF TypeOK
<1> QED BY <1>1, CacheTypes DEF Entry, GEntry

\* An entry of a table of tables.
LEMMA EntrySet ==
    ASSUME NEW A, NEW B, NEW C, NEW f \in [A -> [B -> C]],
           NEW a \in A, NEW b \in B, NEW c \in C
    PROVE  [f EXCEPT ![a][b] = c] \in [A -> [B -> C]]
  OBVIOUS

LEMMA HarmlessMsgs ==
    ASSUME TypeOK, NEW m \in MapServers, NEW p \in Players
    PROVE  /\ Harmless(<<SaveMsg(p)>>) /\ Harmless(PutMsgs(m, p))
           /\ Harmless(<<GPutMsg(m, p)>>) /\ Harmless(QuitMsgs(m, p))
           /\ Harmless(<<Msg("ask", p, 0)>>) /\ Harmless(<<Msg("auth", p, 0)>>)
<1>1. inv[p] \in Nat /\ stor[m][p].n \in Nat /\ GEntry(m).n \in Nat
  BY EntryTypes, CacheTypes
<1>2. Harmless(<<SaveMsg(p)>>)
  BY <1>1, HarmlessOne DEF SaveMsg
<1>3. Harmless(PutMsgs(m, p))
  BY <1>1, HarmlessOne, HarmlessNone DEF PutMsgs
<1>4. Harmless(<<GPutMsg(m, p)>>)
  BY <1>1, HarmlessOne DEF GPutMsg
<1>5. Harmless(QuitMsgs(m, p))
  BY <1>4, HarmlessNone DEF QuitMsgs
<1>6. Harmless(<<Msg("ask", p, 0)>>) /\ Harmless(<<Msg("auth", p, 0)>>)
  BY HarmlessOne
<1> QED BY <1>2, <1>3, <1>4, <1>5, <1>6

\* A step that asks the char server for no guild's storage.
NoNewAsk ==
    /\ toChar' \in [MapServers -> Seq(CharMsg)]
    /\ \A x \in MapServers :
          /\ Free(toChar[x], "gask") => Free(toChar'[x], "gask")
          /\ AtMostOne(toChar[x], "gask") => AtMostOne(toChar'[x], "gask")

LEMMA SentHarmless ==
    ASSUME TypeOK, NEW m \in MapServers, NEW msgs, Harmless(msgs), ToChar(m, msgs)
    PROVE  NoNewAsk
<1>1. toChar[m] \in Seq(CharMsg) /\ msgs \in Seq(CharMsg) /\ Free(msgs, "gask")
  BY DEF TypeOK, Harmless
<1>2. /\ toChar[m] \o msgs \in Seq(CharMsg)
      /\ Free(toChar[m], "gask") => Free(toChar[m] \o msgs, "gask")
      /\ AtMostOne(toChar[m], "gask") => AtMostOne(toChar[m] \o msgs, "gask")
  BY <1>1, FreeConcat, ConcatProperties
<1>3. toChar \in [MapServers -> Seq(CharMsg)]
  BY DEF TypeOK
<1>4. PICK new \in Seq(CharMsg) :
         /\ toChar' = [toChar EXCEPT ![m] = new]
         /\ Free(toChar[m], "gask") => Free(new, "gask")
         /\ AtMostOne(toChar[m], "gask") => AtMostOne(new, "gask")
  <2>1. CASE link[m]
    BY <2>1, <1>2 DEF ToChar
  <2>2. CASE ~link[m]
    BY <2>2, <1>1 DEF ToChar
  <2> QED BY <2>1, <2>2
<1>5. toChar' \in [MapServers -> Seq(CharMsg)]
  BY <1>3, <1>4
<1>6. ASSUME NEW x \in MapServers
      PROVE  /\ Free(toChar[x], "gask") => Free(toChar'[x], "gask")
             /\ AtMostOne(toChar[x], "gask") => AtMostOne(toChar'[x], "gask")
  BY <1>3, <1>4
<1> QED BY <1>5, <1>6 DEF NoNewAsk

LEMMA SentNothing ==
    ASSUME TypeOK, toChar' = toChar
    PROVE  NoNewAsk
  BY DEF TypeOK, NoNewAsk

\* Whoever leaves or moves asks for nothing.
LEMMA PlayersAskNothing ==
    ASSUME TypeOK, NEW m \in MapServers, NEW p \in Players,
           \/ OpenStorage(m, p) \/ CloseKafra(m, p)
           \/ Deposit(m, p) \/ Withdraw(m, p) \/ Connect(m, p)
           \/ LoadEndAck(m, p) \/ Warp(m, p) \/ Autosave(m, p)
           \/ GoAway(m, p) \/ Disconnect(m, p)
    PROVE  NoNewAsk
<1> USE HarmlessMsgs
<1>1. CASE OpenStorage(m, p)
  <2> DEFINE back == IF AtGuild(m, p) /\ gstor[m].open THEN <<GPutMsg(m, p)>> ELSE <<>>
  <2>1. Harmless(back)
    BY HarmlessNone
  <2> HIDE DEF back
  <2>2. CASE ToChar(m, back)
    BY <2>1, <2>2, SentHarmless
  <2>3. CASE ToChar(m, Append(back, Msg("ask", p, 0)))
    <3>1. Append(back, Msg("ask", p, 0)) = back \o <<Msg("ask", p, 0)>>
      <4>1. Msg("ask", p, 0) \in CharMsg
        BY DEF Msg, CharMsg
      <4> QED BY <2>1, <4>1, AppendIsConcat DEF Harmless
    <3>2. Harmless(back \o <<Msg("ask", p, 0)>>)
      BY <2>1, HarmlessConcat
    <3> QED BY <2>3, <3>1, <3>2, SentHarmless
  <2> QED BY <1>1, <2>2, <2>3 DEF OpenStorage, back
<1>2. CASE CloseKafra(m, p)
  <2>1. ToChar(m, <<GPutMsg(m, p)>>) \/ toChar' = toChar
    BY <1>2 DEF CloseKafra, CloseGuildStorage
  <2> QED BY <2>1, SentHarmless, SentNothing
<1>3. CASE Deposit(m, p) \/ Withdraw(m, p)
  BY <1>3, SentNothing DEF Deposit, Withdraw, Move, linkVars
<1>4. CASE Connect(m, p)
  BY <1>4, SentHarmless DEF Connect
<1>5. CASE LoadEndAck(m, p)
  BY <1>5, SentNothing DEF LoadEndAck, linkVars
<1>6. CASE Warp(m, p)
  BY <1>6, SentHarmless DEF Warp
<1>7. CASE Autosave(m, p)
  <2> DEFINE own == <<SaveMsg(p)>> \o PutMsgs(m, p)
             rest == IF AtGuild(m, p) THEN <<GPutMsg(m, p)>> ELSE <<>>
  <2>1. Harmless(own) /\ Harmless(rest)
    BY HarmlessConcat, HarmlessNone
  <2>2. Harmless(own \o rest)
    BY <2>1, HarmlessConcat
  <2>3. ToChar(m, own \o rest)
    BY <1>7 DEF Autosave
  <2> QED BY <2>2, <2>3, SentHarmless
<1>8. ASSUME NEW next, Leave(m, p, next)
      PROVE  NoNewAsk
  <2> DEFINE quit == IF phase[m][p] = "map" THEN QuitMsgs(m, p) ELSE <<>>
  <2>1. Harmless(quit)
    BY HarmlessNone
  <2>2. Harmless(quit \o PutMsgs(m, p))
    BY <2>1, HarmlessConcat
  <2>3. Harmless((quit \o PutMsgs(m, p)) \o <<SaveMsg(p)>>)
    BY <2>2, HarmlessConcat
  <2>4. ToChar(m, quit \o PutMsgs(m, p) \o <<SaveMsg(p)>>)
    BY <1>8 DEF Leave
  <2> QED BY <2>3, <2>4, SentHarmless
<1>9. CASE GoAway(m, p)
  BY <1>8, <1>9 DEF GoAway
<1>10. CASE Disconnect(m, p)
  <2>1. Leave(m, p, "none") \/ toChar' = toChar
    BY <1>10 DEF Disconnect
  <2> QED BY <2>1, <1>8, SentNothing
<1> QED BY <1>1, <1>2, <1>3, <1>4, <1>5, <1>6, <1>7, <1>9, <1>10, Zenon


LEMMA HeadMessages ==
    ASSUME TypeOK, NEW m \in MapServers
    PROVE  /\ toChar[m] # <<>> =>
                 /\ Head(toChar[m]).p \in Players /\ Head(toChar[m]).n \in Nat
                 /\ Tail(toChar[m]) \in Seq(CharMsg)
           /\ toMap[m] # <<>> =>
                 /\ Head(toMap[m]).p \in Players /\ Head(toMap[m]).n \in Nat
                 /\ Tail(toMap[m]) \in Seq(MapMsg)
<1>1. toChar[m] \in Seq(CharMsg) /\ toMap[m] \in Seq(MapMsg)
  BY DEF TypeOK
<1>2. \A x \in CharMsg : x.p \in Players /\ x.n \in Nat
  BY DEF CharMsg
<1>3. \A x \in MapMsg : x.p \in Players /\ x.n \in Nat
  BY DEF MapMsg
<1> QED BY <1>1, <1>2, <1>3, MessageHead

LEMMA AnswerTypes ==
    ASSUME TypeOK, NEW m \in MapServers, toChar[m] # <<>>,
           NEW reply \in Seq(MapMsg), Answer(m, reply)
    PROVE  /\ toChar' \in [MapServers -> Seq(CharMsg)]
           /\ toMap' \in [MapServers -> Seq(MapMsg)]
<1>1. Tail(toChar[m]) \in Seq(CharMsg)
  BY HeadMessages
<1>2. toMap[m] \o reply \in Seq(MapMsg)
  BY ConcatProperties DEF TypeOK
<1> QED BY <1>1, <1>2 DEF Answer, TypeOK

LEMMA TakeTypes ==
    ASSUME TypeOK, NEW m \in MapServers, toMap[m] # <<>>, TakeAnswer(m)
    PROVE  toMap' \in [MapServers -> Seq(MapMsg)]
<1>1. Tail(toMap[m]) \in Seq(MapMsg)
  BY HeadMessages
<1> QED BY <1>1 DEF TakeAnswer, TypeOK

LEMMA InitTypes ==
    ASSUME Init
    PROVE  TypeOK
<1>1. <<>> \in Seq(CharMsg) /\ <<>> \in Seq(MapMsg)
  OBVIOUS
<1>2. Carried \in Nat /\ Stored \in Nat /\ GuildStored \in Nat
  BY AmountsAssumption
<1>3. savedInv \in [Players -> Nat] /\ savedStor \in [Players -> Nat] /\ savedGuild \in Nat
  BY <1>2 DEF Init
<1>4. member \in [Players -> BOOLEAN]
  BY DEF Init
<1>5. /\ phase \in [MapServers -> [Players -> Phases]]
      /\ flag \in [MapServers -> [Players -> BOOLEAN]]
      /\ guild \in [MapServers -> [Players -> BOOLEAN]]
  BY DEF Init, Phases
<1>6. inv \in [Players -> Nat] /\ faults \in Nat
  BY DEF Init
<1>7. stor \in [MapServers -> [Players -> Cache]] /\ gstor \in [MapServers -> Cache]
  BY CacheTypes DEF Init
<1>8. toChar \in [MapServers -> Seq(CharMsg)] /\ toMap \in [MapServers -> Seq(MapMsg)]
  BY <1>1 DEF Init
<1>9. link \in [MapServers -> BOOLEAN]
  BY DEF Init
<1> QED BY <1>3, <1>4, <1>5, <1>6, <1>7, <1>8, <1>9 DEF TypeOK


\* What the map servers cache keeps its type, whatever a player does to it.
LEMMA CachesTyped ==
    ASSUME TypeOK, NEW m \in MapServers, NEW p \in Players
    PROVE  /\ \A b \in BOOLEAN : (b => stor[m][p].cached) =>
                [stor EXCEPT ![m][p].open = b] \in [MapServers -> [Players -> Cache]]
           /\ \A k \in Nat : stor[m][p].cached =>
                [stor EXCEPT ![m][p].n = k] \in [MapServers -> [Players -> Cache]]
           /\ \A e \in Cache : [stor EXCEPT ![m][p] = e] \in [MapServers -> [Players -> Cache]]
           /\ \A b \in BOOLEAN : (b => gstor[m].cached) =>
                [gstor EXCEPT ![m].open = b] \in [MapServers -> Cache]
           /\ \A k \in Nat : gstor[m].cached =>
                [gstor EXCEPT ![m].n = k] \in [MapServers -> Cache]
           /\ \A e \in Cache : [gstor EXCEPT ![m] = e] \in [MapServers -> Cache]
<1> DEFINE own == stor[m][p]
           e0 == gstor[m]
<1>1. /\ stor \in [MapServers -> [Players -> Cache]] /\ own \in Cache
      /\ gstor \in [MapServers -> Cache] /\ e0 \in Cache
  BY DEF TypeOK
<1>2. \A e \in Cache : [stor EXCEPT ![m][p] = e] \in [MapServers -> [Players -> Cache]]
  BY <1>1, EntrySet
<1>3. \A e \in Cache : [gstor EXCEPT ![m] = e] \in [MapServers -> Cache]
  BY <1>1
<1>4. ASSUME NEW b \in BOOLEAN, b => own.cached
      PROVE  [stor EXCEPT ![m][p].open = b] \in [MapServers -> [Players -> Cache]]
  <2>1. [own EXCEPT !.open = b] \in Cache
    BY <1>1, <1>4, EntryOpen
  <2>2. [stor EXCEPT ![m][p].open = b] = [stor EXCEPT ![m][p] = [own EXCEPT !.open = b]]
    OBVIOUS
  <2> QED BY <2>1, <2>2, <1>2
<1>5. ASSUME NEW k \in Nat, own.cached
      PROVE  [stor EXCEPT ![m][p].n = k] \in [MapServers -> [Players -> Cache]]
  <2>1. [own EXCEPT !.n = k] \in Cache
    BY <1>1, <1>5, EntryCount
  <2>2. [stor EXCEPT ![m][p].n = k] = [stor EXCEPT ![m][p] = [own EXCEPT !.n = k]]
    OBVIOUS
  <2> QED BY <2>1, <2>2, <1>2
<1>6. ASSUME NEW b \in BOOLEAN, b => e0.cached
      PROVE  [gstor EXCEPT ![m].open = b] \in [MapServers -> Cache]
  <2>1. [e0 EXCEPT !.open = b] \in Cache
    BY <1>1, <1>6, EntryOpen
  <2> QED BY <2>1, <1>1
<1>7. ASSUME NEW k \in Nat, e0.cached
      PROVE  [gstor EXCEPT ![m].n = k] \in [MapServers -> Cache]
  <2>1. [e0 EXCEPT !.n = k] \in Cache
    BY <1>1, <1>7, EntryCount
  <2> QED BY <2>1, <1>1
<1> QED BY <1>2, <1>3, <1>4, <1>5, <1>6, <1>7

\* The parts of TypeOK that a player's step can change, other than toChar.
Played ==
    /\ phase \in [MapServers -> [Players -> Phases]]
    /\ flag \in [MapServers -> [Players -> BOOLEAN]]
    /\ guild \in [MapServers -> [Players -> BOOLEAN]]
    /\ inv \in [Players -> Nat]
    /\ stor \in [MapServers -> [Players -> Cache]]
    /\ gstor \in [MapServers -> Cache]

LEMMA GuildShutTyped ==
    ASSUME TypeOK, NEW m \in MapServers, NEW p \in Players
    PROVE  GstorAfterQuit(m, p) \in [MapServers -> Cache]
<1>1. gstor[m].open /\ ~QuitsGuild(m, p) => gstor[m].cached
  BY CacheTypes DEF TypeOK
<1>2. (gstor[m].open /\ ~QuitsGuild(m, p)) \in BOOLEAN
  OBVIOUS
<1>3. [gstor EXCEPT ![m].open = gstor[m].open /\ ~QuitsGuild(m, p)] \in [MapServers -> Cache]
  BY <1>1, <1>2, CachesTyped
<1> QED BY <1>3 DEF GstorAfterQuit

LEMMA LeaveTypes ==
    ASSUME TypeOK, NEW m \in MapServers, NEW p \in Players,
           NEW next \in Phases, Leave(m, p, next)
    PROVE  Played'
<1>1. phase' \in [MapServers -> [Players -> Phases]]
  BY DEF Leave, TypeOK
<1>2. gstor' \in [MapServers -> Cache]
  BY GuildShutTyped DEF Leave, TypeOK
<1>3. stor' \in [MapServers -> [Players -> Cache]]
  BY CachesTyped, CacheTypes DEF Leave
<1>4. /\ flag' \in [MapServers -> [Players -> BOOLEAN]]
      /\ guild' \in [MapServers -> [Players -> BOOLEAN]]
      /\ inv' \in [Players -> Nat]
  BY DEF Leave, ForgetSession, TypeOK
<1> QED BY <1>1, <1>2, <1>3, <1>4 DEF Played


LEMMA PlayerTypes ==
    ASSUME TypeOK, NEW m \in MapServers, NEW p \in Players, PlayerStep(m, p)
    PROVE  Played'
<1> USE CacheTypes, EntryTypes
<1>0. Played
  BY DEF TypeOK, Played
<1>1. CASE OpenStorage(m, p)
  <2> DEFINE closing == AtGuild(m, p) /\ gstor[m].open
  <2>1. gstor' \in [MapServers -> Cache]
    <3>1. gstor' = [gstor EXCEPT ![m] = Shut(gstor[m])] \/ gstor' = gstor
      <4>1. gstor' = [gstor EXCEPT ![m] = IF closing THEN Shut(gstor[m]) ELSE gstor[m]]
        BY <1>1 DEF OpenStorage
      <4> QED BY <4>1, <1>0 DEF Played
    <3>2. [gstor EXCEPT ![m] = Shut(gstor[m])] \in [MapServers -> Cache]
      BY CachesTyped
    <3> QED BY <3>1, <3>2, <1>0, Zenon DEF Played
  <2>2. stor' \in [MapServers -> [Players -> Cache]]
    <3>1. CASE stor' = stor
      BY <3>1, <1>0, Zenon DEF Played
    <3>2. CASE stor' # stor
      <4>1. stor[m][p].cached /\ stor' = [stor EXCEPT ![m][p].open = TRUE]
        BY <1>1, <3>2 DEF OpenStorage
      <4> QED BY <4>1, CachesTyped
    <3> QED BY <3>1, <3>2
  <2>3. flag' \in [MapServers -> [Players -> BOOLEAN]]
    <3>1. \E b \in BOOLEAN : flag' = [flag EXCEPT ![m][p] = b]
      BY <1>1 DEF OpenStorage
    <3> QED BY <3>1, <1>0 DEF Played
  <2>4. UNCHANGED <<phase, guild, inv>>
    BY <1>1 DEF OpenStorage, sessVars
  <2> QED BY <2>1, <2>2, <2>3, <2>4, <1>0 DEF Played
<1>2. CASE OpenGuildStorage(m, p)
  <2>1. gstor' \in [MapServers -> Cache]
    <3>1. CASE gstor' = [gstor EXCEPT ![m] = Opened(0)]
      <4>1. Opened(0) \in Cache
        OBVIOUS
      <4>2. [gstor EXCEPT ![m] = Opened(0)] \in [MapServers -> Cache]
        BY <4>1, CachesTyped
      <4> QED BY <3>1, <4>2, Zenon
    <3>2. CASE gstor' # [gstor EXCEPT ![m] = Opened(0)]
      <4>1. gstor[m].cached /\ gstor' = [gstor EXCEPT ![m].open = TRUE]
        BY <1>2, <3>2 DEF OpenGuildStorage
      <4> QED BY <4>1, CachesTyped
    <3> QED BY <3>1, <3>2
  <2>2. stor' \in [MapServers -> [Players -> Cache]]
    BY <1>2, CachesTyped DEF OpenGuildStorage
  <2>3. flag' \in [MapServers -> [Players -> BOOLEAN]]
    <3>1. \E b \in BOOLEAN : flag' = [flag EXCEPT ![m][p] = b]
      BY <1>2 DEF OpenGuildStorage
    <3> QED BY <3>1, <1>0 DEF Played
  <2>4. UNCHANGED <<phase, guild, inv>>
    BY <1>2 DEF OpenGuildStorage, sessVars
  <2> QED BY <2>1, <2>2, <2>3, <2>4, <1>0 DEF Played
<1>3. CASE CloseKafra(m, p)
  <2>1. /\ gstor' = [gstor EXCEPT ![m] = Shut(GEntry(m))] \/ gstor' = gstor
        /\ stor' = [stor EXCEPT ![m][p] = Shut(Entry(m, p))] \/ stor' = stor
        /\ flag' = [flag EXCEPT ![m][p] = FALSE] \/ flag' = flag
    BY <1>3 DEF CloseKafra, CloseGuildStorage
  <2>2. gstor' \in [MapServers -> Cache] /\ stor' \in [MapServers -> [Players -> Cache]]
    <3>1. Shut(GEntry(m)) \in Cache /\ Shut(Entry(m, p)) \in Cache
      OBVIOUS
    <3>2. /\ [gstor EXCEPT ![m] = Shut(GEntry(m))] \in [MapServers -> Cache]
          /\ [stor EXCEPT ![m][p] = Shut(Entry(m, p))] \in [MapServers -> [Players -> Cache]]
      BY <3>1, CachesTyped
    <3> QED BY <2>1, <3>2, <1>0, Zenon DEF Played
  <2>3. flag' \in [MapServers -> [Players -> BOOLEAN]]
    <3>1. [flag EXCEPT ![m][p] = FALSE] \in [MapServers -> [Players -> BOOLEAN]]
      BY <1>0 DEF Played
    <3> QED BY <2>1, <3>1, <1>0, Zenon DEF Played
  <2>4. UNCHANGED <<phase, guild, inv>>
    BY <1>3 DEF CloseKafra, sessVars
  <2> QED BY <2>2, <2>3, <2>4, <1>0, Zenon DEF Played
<1>4. ASSUME NEW d \in {1, -1}, Move(m, p, d)
      PROVE  Played'
  <2>1. inv' \in [Players -> Nat]
    <3>1. inv[p] - d \in Nat /\ inv' = [inv EXCEPT ![p] = inv[p] - d]
      BY <1>4 DEF Move
    <3> QED BY <3>1, <1>0 DEF Played
  <2>2. stor' \in [MapServers -> [Players -> Cache]]
    <3>1. CASE stor' = stor
      BY <3>1, <1>0 DEF Played
    <3>2. CASE stor' # stor
      <4>1. /\ stor[m][p].n + d \in Nat /\ stor[m][p].cached
            /\ stor' = [stor EXCEPT ![m][p].n = stor[m][p].n + d]
        BY <1>4, <3>2 DEF Move
      <4> QED BY <4>1, CachesTyped
    <3> QED BY <3>1, <3>2
  <2>3. gstor' \in [MapServers -> Cache]
    <3>1. CASE gstor' = gstor
      BY <3>1, <1>0 DEF Played
    <3>2. CASE gstor' # gstor
      <4>1. /\ gstor[m].n + d \in Nat /\ gstor[m].cached
            /\ gstor' = [gstor EXCEPT ![m].n = gstor[m].n + d]
        BY <1>4, <3>2 DEF Move
      <4> QED BY <4>1, CachesTyped
    <3> QED BY <3>1, <3>2
  <2>4. UNCHANGED <<phase, guild, flag>>
    BY <1>4 DEF Move, sessVars
  <2> QED BY <2>1, <2>2, <2>3, <2>4, <1>0 DEF Played
<1>5. CASE Deposit(m, p) \/ Withdraw(m, p)
  BY <1>4, <1>5 DEF Deposit, Withdraw
<1>6. CASE Connect(m, p)
  BY <1>6, <1>0 DEF Connect, Played, Phases
<1>7. CASE LoadEndAck(m, p)
  BY <1>7, <1>0 DEF LoadEndAck, Played, Phases
<1>8. CASE Warp(m, p)
  <2>1. gstor' \in [MapServers -> Cache]
    BY <1>8, GuildShutTyped DEF Warp
  <2>2. stor' \in [MapServers -> [Players -> Cache]]
    <3>1. \E b \in BOOLEAN : /\ b => stor[m][p].cached
                             /\ stor' = [stor EXCEPT ![m][p].open = b]
      <4>1. (stor[m][p].open /\ flag[m][p]) => stor[m][p].cached
        OBVIOUS
      <4>2. stor' = [stor EXCEPT ![m][p].open = (stor[m][p].open /\ flag[m][p])]
        BY <1>8 DEF Warp
      <4>3. (stor[m][p].open /\ flag[m][p]) \in BOOLEAN
        OBVIOUS
      <4> QED BY <4>1, <4>2, <4>3, Zenon
    <3> QED BY <3>1, CachesTyped
  <2>3. flag' \in [MapServers -> [Players -> BOOLEAN]]
    <3>1. \E b \in BOOLEAN : flag' = [flag EXCEPT ![m][p] = b]
      BY <1>8 DEF Warp
    <3> QED BY <3>1, <1>0 DEF Played
  <2>4. phase' \in [MapServers -> [Players -> Phases]] /\ UNCHANGED <<guild, inv>>
    BY <1>8, <1>0 DEF Warp, Played, Phases
  <2> QED BY <2>1, <2>2, <2>3, <2>4, <1>0 DEF Played
<1>9. CASE Autosave(m, p)
  BY <1>9, <1>0 DEF Autosave, sessVars, Played
<1>10. CASE GoAway(m, p)
  BY <1>10, LeaveTypes DEF GoAway, Phases
<1>11. CASE Disconnect(m, p)
  <2>1. CASE Leave(m, p, "none")
    BY <2>1, LeaveTypes DEF Phases
  <2>2. CASE /\ phase' = [phase EXCEPT ![m][p] = "none"]
             /\ UNCHANGED <<flag, guild, inv, stor, gstor, toChar>>
    BY <2>2, <1>0 DEF Played, Phases
  <2> QED BY <1>11, <2>1, <2>2 DEF Disconnect
<1> QED BY <1>1, <1>2, <1>3, <1>5, <1>6, <1>7, <1>8, <1>9, <1>10, <1>11, Zenon
        DEF PlayerStep


LEMMA CharTypes ==
    ASSUME TypeOK, NEW m \in MapServers, CharStep(m)
    PROVE  TypeOK'
<1> DEFINE p == Head(toChar[m]).p
           n == Head(toChar[m]).n
<1>1. toChar[m] # <<>>
  BY DEF CharStep, HasRequest, RecvAuth, RecvSave, RecvAsk, RecvPut, RecvGAsk, RecvGPut
<1>2. p \in Players /\ n \in Nat
  BY <1>1, HeadMessages
<1>3. PICK reply \in Seq(MapMsg) : Answer(m, reply)
  <2> DEFINE ok == Msg("ok", p, savedInv[p])
             store == Msg("storage", p, savedStor[p])
             gstore == Msg("gstorage", p, savedGuild)
  <2>1. ok \in MapMsg /\ store \in MapMsg /\ gstore \in MapMsg
    BY <1>2 DEF TypeOK, Msg, MapMsg
  <2>2. /\ <<>> \in Seq(MapMsg) /\ <<ok>> \in Seq(MapMsg)
        /\ <<store>> \in Seq(MapMsg) /\ <<gstore>> \in Seq(MapMsg)
    BY <2>1
  <2>3. \/ Answer(m, <<>>) \/ Answer(m, <<ok>>) \/ Answer(m, <<store>>) \/ Answer(m, <<gstore>>)
    BY DEF CharStep, RecvAuth, RecvSave, RecvAsk, RecvPut, RecvGAsk, RecvGPut
  <2> QED BY <2>2, <2>3, Zenon
<1>4. /\ toChar' \in [MapServers -> Seq(CharMsg)]
      /\ toMap' \in [MapServers -> Seq(MapMsg)]
  BY <1>1, <1>3, AnswerTypes
<1>5. UNCHANGED <<member, phase, flag, guild, inv, stor, gstor, link, faults>>
  BY DEF CharStep, RecvAuth, RecvSave, RecvAsk, RecvPut, RecvGAsk, RecvGPut,
         charVars, sessVars
<1>6. savedInv' \in [Players -> Nat]
  <2>1. savedInv' = [savedInv EXCEPT ![p] = n] \/ savedInv' = savedInv
    BY DEF CharStep, RecvAuth, RecvSave, RecvAsk, RecvPut, RecvGAsk, RecvGPut, charVars
  <2> QED BY <1>2, <2>1 DEF TypeOK
<1>7. savedStor' \in [Players -> Nat]
  <2>1. savedStor' = [savedStor EXCEPT ![p] = n] \/ savedStor' = savedStor
    BY DEF CharStep, RecvAuth, RecvSave, RecvAsk, RecvPut, RecvGAsk, RecvGPut, charVars
  <2> QED BY <1>2, <2>1 DEF TypeOK
<1>8. savedGuild' \in Nat
  <2>1. savedGuild' = n \/ savedGuild' = savedGuild
    BY DEF CharStep, RecvAuth, RecvSave, RecvAsk, RecvPut, RecvGAsk, RecvGPut, charVars
  <2> QED BY <1>2, <2>1 DEF TypeOK
<1> QED BY <1>4, <1>5, <1>6, <1>7, <1>8 DEF TypeOK

\* What an answer sets of the session it is for.
LEMMA AnsweredTypes ==
    ASSUME TypeOK, NEW m \in MapServers, AnswerStep(m)
    PROVE  TypeOK'
<1> DEFINE p == Head(toMap[m]).p
           n == Head(toMap[m]).n
<1>1. toMap[m] # <<>> /\ TakeAnswer(m)
  BY DEF AnswerStep, HasAnswer, AuthOk, StorageLoaded, GuildStorageLoaded, MemberLeft
<1>2. p \in Players /\ n \in Nat
  BY <1>1, HeadMessages
<1>3. toMap' \in [MapServers -> Seq(MapMsg)]
  BY <1>1, TakeTypes
<1>4. UNCHANGED <<savedInv, savedStor, savedGuild, member, toChar, link, faults>>
  BY DEF AnswerStep, AuthOk, StorageLoaded, GuildStorageLoaded, MemberLeft, charVars
<1> HIDE DEF p, n
<1>5. Played'
  <2>0. Played
    BY DEF TypeOK, Played
  <2>1. CASE AuthOk(m)
    <3>1. CASE UNCHANGED <<sessVars, inv>>
      BY <2>0, <2>1, <3>1 DEF AuthOk, Played, sessVars
    <3>2. CASE /\ phase' = [phase EXCEPT ![m][p] = "load"]
               /\ guild' = [guild EXCEPT ![m][p] = member[p]]
               /\ inv' = [inv EXCEPT ![p] = n]
      <4>1. phase' \in [MapServers -> [Players -> Phases]] /\ inv' \in [Players -> Nat]
        BY <1>2, <2>0, <3>2 DEF Played, Phases
      <4>2. guild' \in [MapServers -> [Players -> BOOLEAN]]
        <5>1. member[p] \in BOOLEAN
          BY <1>2 DEF TypeOK
        <5> QED BY <1>2, <2>0, <3>2, <5>1, EntrySet DEF Played
      <4> QED BY <2>0, <2>1, <4>1, <4>2 DEF AuthOk, Played
    <3> QED BY <2>1, <3>1, <3>2 DEF AuthOk, p, n
  <2>2. CASE StorageLoaded(m)
    <3>1. stor' \in [MapServers -> [Players -> Cache]]
      <4>1. NotCached \in Cache /\ Opened(n) \in Cache
        BY <1>2, CacheTypes
      <4>2. PICK e \in Cache : stor' = [stor EXCEPT ![m][p] = e]
        BY <2>2, <4>1 DEF StorageLoaded, p, n
      <4>3. [stor EXCEPT ![m][p] = e] \in [MapServers -> [Players -> Cache]]
        BY <1>2, CachesTyped
      <4> QED BY <4>2, <4>3, Zenon
    <3>2. flag' \in [MapServers -> [Players -> BOOLEAN]]
      BY <1>2, <2>0, <2>2 DEF StorageLoaded, Played, p
    <3>3. UNCHANGED <<phase, guild, inv, gstor>>
      BY <2>2 DEF StorageLoaded, sessVars
    <3> QED BY <2>0, <3>1, <3>2, <3>3 DEF Played
  <2>3. CASE GuildStorageLoaded(m)
    <3>1. gstor' \in [MapServers -> Cache]
      <4>1. NotCached \in Cache /\ Opened(n) \in Cache
        BY <1>2, CacheTypes
      <4>2. PICK e \in Cache : gstor' = [gstor EXCEPT ![m] = e]
        BY <2>3, <4>1 DEF GuildStorageLoaded, p, n
      <4>3. [gstor EXCEPT ![m] = e] \in [MapServers -> Cache]
        BY CachesTyped, <1>2
      <4> QED BY <4>2, <4>3, Zenon
    <3>2. flag' \in [MapServers -> [Players -> BOOLEAN]]
      <4>1. \E b \in BOOLEAN : flag' = [flag EXCEPT ![m][p] = b]
        BY <2>3 DEF GuildStorageLoaded, p
      <4> QED BY <1>2, <2>0, <4>1 DEF Played
    <3>3. UNCHANGED <<phase, guild, inv, stor>>
      BY <2>3 DEF GuildStorageLoaded, sessVars
    <3> QED BY <2>0, <3>1, <3>2, <3>3 DEF Played
  <2>4. CASE MemberLeft(m)
    <3>1. guild' \in [MapServers -> [Players -> BOOLEAN]]
      BY <1>2, <2>0, <2>4 DEF MemberLeft, Played, p
    <3>2. UNCHANGED <<phase, flag, inv, stor, gstor>>
      BY <2>4 DEF MemberLeft
    <3> QED BY <2>0, <3>1, <3>2 DEF Played
  <2> QED BY <2>1, <2>2, <2>3, <2>4 DEF AnswerStep
<1> QED BY <1>3, <1>4, <1>5 DEF TypeOK, Played

LEMMA FaultTypes ==
    ASSUME TypeOK, NEW m \in MapServers, LinkDown(m) \/ LinkUp(m)
    PROVE  TypeOK'
<1>1. CASE LinkDown(m)
  <2>1. phase' \in [MapServers -> [Players -> Phases]]
    BY <1>1 DEF LinkDown, TypeOK, Phases
  <2>2. /\ flag' \in [MapServers -> [Players -> BOOLEAN]]
        /\ guild' \in [MapServers -> [Players -> BOOLEAN]]
    BY <1>1 DEF LinkDown, TypeOK
  <2>3. inv' \in [Players -> Nat] /\ link' \in [MapServers -> BOOLEAN] /\ faults' \in Nat
    BY <1>1 DEF LinkDown, TypeOK
  <2>4. /\ toChar' \in [MapServers -> Seq(CharMsg)]
        /\ toMap' \in [MapServers -> Seq(MapMsg)]
    <3>1. <<>> \in Seq(CharMsg) /\ <<>> \in Seq(MapMsg)
      OBVIOUS
    <3> QED BY <1>1, <3>1 DEF LinkDown, TypeOK
  <2>5. /\ stor' \in [MapServers -> [Players -> Cache]]
        /\ gstor' \in [MapServers -> Cache]
    BY <1>1, CacheTypes DEF LinkDown, DropCaches, TypeOK
  <2>6. UNCHANGED <<savedInv, savedStor, savedGuild, member>>
    BY <1>1 DEF LinkDown, charVars
  <2> QED BY <2>1, <2>2, <2>3, <2>4, <2>5, <2>6 DEF TypeOK
<1>2. CASE LinkUp(m)
  BY <1>2 DEF LinkUp, TypeOK, charVars, sessVars
<1> QED BY <1>1, <1>2


\* Asking for the guild's storage is the one way to send such a request.
LEMMA AskSent ==
    ASSUME TypeOK, NEW m \in MapServers, NEW p \in Players,
           Free(toChar[m], "gask"), ToChar(m, <<Msg("gask", p, 0)>>)
    PROVE  /\ toChar' \in [MapServers -> Seq(CharMsg)]
           /\ AtMostOne(toChar'[m], "gask")
           /\ \A x \in MapServers : x # m => toChar'[x] = toChar[x]
<1> DEFINE ask == Msg("gask", p, 0)
<1>1. ask \in CharMsg
  BY DEF Msg, CharMsg
<1>2. toChar[m] \in Seq(CharMsg) /\ toChar \in [MapServers -> Seq(CharMsg)]
  BY DEF TypeOK
<1> HIDE DEF ask
<1>3. toChar[m] \o <<ask>> \in Seq(CharMsg)
  BY <1>1, <1>2, ConcatProperties
<1>4. AtMostOne(toChar[m] \o <<ask>>, "gask") /\ AtMostOne(toChar[m], "gask")
  BY <1>1, <1>2, OneConcat DEF AtMostOne, Free
<1>5. PICK new \in Seq(CharMsg) :
         toChar' = [toChar EXCEPT ![m] = new] /\ AtMostOne(new, "gask")
  <2>1. CASE link[m]
    BY <2>1, <1>3, <1>4 DEF ToChar, ask
  <2>2. CASE ~link[m]
    BY <2>2, <1>2, <1>4 DEF ToChar
  <2> QED BY <2>1, <2>2
<1> QED BY <1>2, <1>5

LEMMA ExpelTypes ==
    ASSUME TypeOK, NEW p \in Players, Expel(p)
    PROVE  /\ TypeOK'
           /\ \A m \in MapServers :
                 /\ Free(toMap[m], "gstorage") => Free(toMap'[m], "gstorage")
                 /\ AtMostOne(toMap[m], "gstorage") => AtMostOne(toMap'[m], "gstorage")
<1> DEFINE left == Msg("left", p, 0)
<1>1. left \in MapMsg /\ left.type # "gstorage"
  BY DEF Msg, MapMsg
<1>2. toMap \in [MapServers -> Seq(MapMsg)]
  BY DEF TypeOK
<1>3. toMap' = [m \in MapServers |-> IF link[m] THEN Append(toMap[m], left) ELSE toMap[m]]
  BY DEF Expel
<1> HIDE DEF left
<1>4. ASSUME NEW m \in MapServers
      PROVE  /\ toMap'[m] \in Seq(MapMsg)
             /\ Free(toMap[m], "gstorage") => Free(toMap'[m], "gstorage")
             /\ AtMostOne(toMap[m], "gstorage") => AtMostOne(toMap'[m], "gstorage")
  <2>1. CASE link[m]
    <3>1. toMap'[m] = toMap[m] \o <<left>> /\ <<left>> \in Seq(MapMsg)
      BY <2>1, <1>1, <1>2, <1>3, AppendIsConcat
    <3>2. Free(<<left>>, "gstorage")
      BY <1>1 DEF Free
    <3>3. toMap[m] \o <<left>> \in Seq(MapMsg)
      BY <1>2, <3>1, ConcatProperties
    <3> QED BY <1>2, <3>1, <3>2, <3>3, FreeConcat
  <2>2. CASE ~link[m]
    BY <2>2, <1>2, <1>3
  <2> QED BY <2>1, <2>2
<1>5. toMap' \in [MapServers -> Seq(MapMsg)]
  BY <1>3, <1>4
<1>6. member' \in [Players -> BOOLEAN]
  BY DEF Expel, TypeOK
<1>7. UNCHANGED <<savedInv, savedStor, savedGuild, phase, flag, guild, inv, stor, gstor,
                  toChar, link, faults>>
  BY DEF Expel, sessVars
<1>8. TypeOK'
  BY <1>5, <1>6, <1>7 DEF TypeOK
<1> QED BY <1>4, <1>8

\* Requests that pile up keep their types, whether there is another one or not.
LEMMA PlayerKeepsTypes ==
    ASSUME TypeOK, NEW m \in MapServers, NEW p \in Players, PlayerStep(m, p)
    PROVE  TypeOK'
<1>1. Played'
  BY PlayerTypes
<1>2. UNCHANGED <<savedInv, savedStor, savedGuild, member, toMap, link, faults>>
  BY DEF PlayerStep, OpenStorage, OpenGuildStorage, CloseKafra, Deposit, Withdraw, Move,
         Connect, LoadEndAck, Warp, Autosave, GoAway, Disconnect, charVars, linkVars
<1>3. toChar' \in [MapServers -> Seq(CharMsg)]
  <2>1. CASE OpenGuildStorage(m, p)
    <3>1. toChar' = toChar \/ ToChar(m, <<Msg("gask", p, 0)>>)
      BY <2>1 DEF OpenGuildStorage
    <3>2. Msg("gask", p, 0) \in CharMsg
      BY DEF Msg, CharMsg
    <3>3. toChar[m] \o <<Msg("gask", p, 0)>> \in Seq(CharMsg)
      BY <3>2, ConcatProperties DEF TypeOK
    <3> QED BY <3>1, <3>3 DEF ToChar, TypeOK
  <2>2. CASE ~OpenGuildStorage(m, p)
    BY <2>2, PlayersAskNothing DEF PlayerStep, NoNewAsk
  <2> QED BY <2>1, <2>2
<1> QED BY <1>1, <1>2, <1>3 DEF TypeOK, Played

\* Every variable keeps its type, also through failures of the links.
THEOREM StorageTypeCorrect == Spec => []TypeOK
<1>1. ASSUME TypeOK, [Next]_vars
      PROVE  TypeOK'
  <2>1. ASSUME NEW m \in MapServers, NEW p \in Players, PlayerStep(m, p)
        PROVE  TypeOK'
    BY <1>1, <2>1, PlayerKeepsTypes
  <2>2. ASSUME NEW m \in MapServers, CharStep(m) \/ AnswerStep(m)
        PROVE  TypeOK'
    BY <1>1, <2>2, CharTypes, AnsweredTypes
  <2>3. ASSUME NEW p \in Players, Expel(p)
        PROVE  TypeOK'
    BY <1>1, <2>3, ExpelTypes
  <2>4. ASSUME NEW m \in MapServers, LinkDown(m) \/ LinkUp(m)
        PROVE  TypeOK'
    BY <1>1, <2>4, FaultTypes
  <2>5. CASE UNCHANGED vars
    BY <1>1, <2>5 DEF vars, charVars, sessVars, linkVars, TypeOK
  <2> QED BY <1>1, <2>1, <2>2, <2>3, <2>4, <2>5 DEF Next, Work
<1> QED BY <1>1, InitTypes, PTL DEF Spec

-----------------------------------------------------------------------------
(* One user of the guild's storage *)

NobodyAtGuild(m) == \A p \in Players : ~AtGuild(m, p)

NoneAsked(m) == Free(toChar[m], "gask") /\ Free(toMap[m], "gstorage")

\* Only who plays has storage_flag set; a user of the guild's storage has it
\* open and to oneself; it is asked for once at most, and while it is, it is
\* open and nobody uses it.
GuildSound(m) ==
    /\ \A p \in Players : flag[m][p] => Playing(m, p)
    /\ \A p \in Players : AtGuild(m, p) => gstor[m].open
    /\ \A p, q \in Players : AtGuild(m, p) /\ AtGuild(m, q) => p = q
    /\ AtMostOne(toChar[m], "gask") /\ AtMostOne(toMap[m], "gstorage")
    /\ Free(toChar[m], "gask") \/ Free(toMap[m], "gstorage")
    /\ NoneAsked(m) \/ (gstor[m].open /\ NobodyAtGuild(m))

OneUserInv == \A m \in MapServers : GuildSound(m)

\* A step after which no more players use the guild's storage than before, and
\* that shuts or opens it only as its user stops using it.
Shrinks(m) ==
    /\ \A p \in Players : flag'[m][p] => phase'[m][p] \in {"load", "map"}
    /\ \A p \in Players : flag'[m][p] /\ guild'[m][p] => AtGuild(m, p)
    /\ \/ gstor'[m].open <=> gstor[m].open
       \/ \E p \in Players : AtGuild(m, p) /\ ~(flag'[m][p] /\ guild'[m][p])

NoNewReply ==
    \A x \in MapServers :
        /\ Free(toMap[x], "gstorage") => Free(toMap'[x], "gstorage")
        /\ AtMostOne(toMap[x], "gstorage") => AtMostOne(toMap'[x], "gstorage")

LEMMA ShrinkingIsSound ==
    ASSUME NEW m \in MapServers, GuildSound(m), Shrinks(m), NoNewAsk, NoNewReply
    PROVE  GuildSound(m)'
<1>1. \A p \in Players : flag'[m][p] => Playing(m, p)'
  BY DEF Shrinks, Playing
<1>2. \A p \in Players : AtGuild(m, p)' => AtGuild(m, p)
  BY DEF Shrinks, AtGuild
<1>3. \A p, q \in Players : AtGuild(m, p)' /\ AtGuild(m, q)' => p = q
  BY <1>2 DEF GuildSound
<1>4. \/ gstor'[m].open <=> gstor[m].open
      \/ NobodyAtGuild(m)' /\ NoneAsked(m)
  <2>1. ASSUME NEW p \in Players, AtGuild(m, p), ~AtGuild(m, p)'
        PROVE  NobodyAtGuild(m)' /\ NoneAsked(m)
    <3>1. \A q \in Players : AtGuild(m, q)' => q = p
      BY <1>2, <2>1 DEF GuildSound
    <3>2. NobodyAtGuild(m)'
      BY <2>1, <3>1 DEF NobodyAtGuild
    <3>3. NoneAsked(m)
      BY <2>1 DEF GuildSound, NobodyAtGuild
    <3> QED BY <3>2, <3>3
  <2> QED BY <2>1 DEF Shrinks, AtGuild
<1>5. \A p \in Players : AtGuild(m, p)' => gstor'[m].open
  BY <1>2, <1>4 DEF GuildSound, NobodyAtGuild
<1>6. /\ AtMostOne(toChar[m], "gask")' /\ AtMostOne(toMap[m], "gstorage")'
      /\ Free(toChar[m], "gask")' \/ Free(toMap[m], "gstorage")'
      /\ NoneAsked(m) => NoneAsked(m)'
  BY DEF GuildSound, NoNewAsk, NoNewReply, NoneAsked
<1>7. NoneAsked(m)' \/ (gstor'[m].open /\ NobodyAtGuild(m)')
  <2>1. NobodyAtGuild(m) => NobodyAtGuild(m)'
    BY <1>2 DEF NobodyAtGuild
  <2> QED BY <1>4, <1>6, <2>1 DEF GuildSound
<1> QED BY <1>1, <1>3, <1>5, <1>6, <1>7 DEF GuildSound

\* Where nothing of this changes.
LEMMA UnchangedShrinks ==
    ASSUME NEW m \in MapServers, GuildSound(m), phase'[m] = phase[m],
           flag'[m] = flag[m], guild'[m] = guild[m], gstor'[m] = gstor[m]
    PROVE  Shrinks(m)
  BY DEF Shrinks, GuildSound, AtGuild, Playing

\* One entry of a table of tables is set.
LEMMA EntryRead ==
    ASSUME NEW A, NEW B, NEW C, NEW f \in [A -> [B -> C]],
           NEW a \in A, NEW b \in B, NEW c
    PROVE  /\ [f EXCEPT ![a][b] = c][a][b] = c
           /\ \A y \in B : y # b => [f EXCEPT ![a][b] = c][a][y] = f[a][y]
           /\ \A x \in A : x # a => [f EXCEPT ![a][b] = c][x] = f[x]
  OBVIOUS

\* A step of player p at m changes nothing at another server.
LEMMA ElsewhereSame ==
    ASSUME TypeOK, NEW m \in MapServers, NEW p \in Players, PlayerStep(m, p),
           NEW x \in MapServers, x # m
    PROVE  /\ phase'[x] = phase[x] /\ flag'[x] = flag[x] /\ guild'[x] = guild[x]
           /\ gstor'[x] = gstor[x] /\ toChar'[x] = toChar[x] /\ toMap'[x] = toMap[x]
<1>1. /\ \/ phase' = phase
         \/ \E c \in Phases : phase' = [phase EXCEPT ![m][p] = c]
      /\ \/ flag' = flag
         \/ \E c \in BOOLEAN : flag' = [flag EXCEPT ![m][p] = c]
      /\ \/ guild' = guild
         \/ \E c \in BOOLEAN : guild' = [guild EXCEPT ![m][p] = c]
  BY DEF PlayerStep, OpenStorage, OpenGuildStorage, CloseKafra, CloseGuildStorage, Deposit,
         Withdraw, Move, Connect, LoadEndAck, Warp, Autosave, GoAway, Disconnect, Leave,
         ForgetSession, sessVars, Phases
<1>2. /\ phase'[x] = phase[x] /\ flag'[x] = flag[x] /\ guild'[x] = guild[x]
  BY <1>1 DEF TypeOK
<1>3. gstor'[x] = gstor[x]
  <2>1. gstor' = gstor \/ \E e : gstor' = [gstor EXCEPT ![m] = e]
    BY DEF PlayerStep, OpenStorage, OpenGuildStorage, CloseKafra, CloseGuildStorage, Deposit,
           Withdraw, Move, Connect, LoadEndAck, Warp, Autosave, GoAway, Disconnect, Leave,
           GstorAfterQuit
  <2> QED BY <2>1 DEF TypeOK
<1>4. toChar'[x] = toChar[x]
  <2>1. toChar' = toChar \/ \E e : toChar' = [toChar EXCEPT ![m] = e]
    BY DEF PlayerStep, OpenStorage, OpenGuildStorage, CloseKafra, CloseGuildStorage, Deposit,
           Withdraw, Move, Connect, LoadEndAck, Warp, Autosave, GoAway, Disconnect, Leave,
           ToChar, linkVars
  <2> QED BY <2>1 DEF TypeOK
<1>5. toMap'[x] = toMap[x]
  BY DEF PlayerStep, OpenStorage, OpenGuildStorage, CloseKafra, Deposit, Withdraw, Move,
         Connect, LoadEndAck, Warp, Autosave, GoAway, Disconnect, linkVars
<1> QED BY <1>2, <1>3, <1>4, <1>5

\* At the server of a player who leaves, moves or uses the own storage.
LEMMA LeaveShrinks ==
    ASSUME TypeOK, NEW m \in MapServers, NEW p \in Players, GuildSound(m),
           NEW next \in Phases, Leave(m, p, next)
    PROVE  Shrinks(m)
<1>1. /\ phase' = [phase EXCEPT ![m][p] = next]
      /\ flag' = [flag EXCEPT ![m][p] = FALSE]
      /\ guild' = [guild EXCEPT ![m][p] = FALSE]
      /\ gstor' = gstor \/ gstor' = GstorAfterQuit(m, p)
  BY DEF Leave, ForgetSession
<1>2. /\ ~flag'[m][p]
      /\ \A q \in Players : q # p => /\ phase'[m][q] = phase[m][q]
                                     /\ flag'[m][q] = flag[m][q]
                                     /\ guild'[m][q] = guild[m][q]
  BY <1>1 DEF TypeOK
<1>3. \/ gstor'[m].open <=> gstor[m].open
      \/ AtGuild(m, p)
  <2>1. CASE gstor' = gstor
    BY <2>1
  <2>2. CASE gstor' = GstorAfterQuit(m, p) /\ ~QuitsGuild(m, p)
    <3>1. gstor[m] \in Entries
      BY InCache DEF TypeOK
    <3>2. gstor'[m].open <=> gstor[m].open
      BY <2>2, <3>1 DEF GstorAfterQuit, TypeOK, Entries
    <3> QED BY <3>2
  <2>3. CASE QuitsGuild(m, p)
    BY <2>3 DEF QuitsGuild
  <2> QED BY <1>1, <2>1, <2>2, <2>3
<1>4. \A q \in Players : flag'[m][q] => phase'[m][q] \in {"load", "map"}
  BY <1>2 DEF GuildSound, Playing
<1>5. \A q \in Players : flag'[m][q] /\ guild'[m][q] => AtGuild(m, q)
  BY <1>2 DEF AtGuild
<1> QED BY <1>2, <1>3, <1>4, <1>5 DEF Shrinks

LEMMA PlayerShrinks ==
    ASSUME TypeOK, NEW m \in MapServers, NEW p \in Players, GuildSound(m),
           PlayerStep(m, p), ~OpenGuildStorage(m, p)
    PROVE  Shrinks(m)
<1>0. /\ phase \in [MapServers -> [Players -> Phases]]
      /\ flag \in [MapServers -> [Players -> BOOLEAN]]
      /\ guild \in [MapServers -> [Players -> BOOLEAN]]
      /\ gstor \in [MapServers -> Cache] /\ gstor[m] \in Cache
  BY DEF TypeOK
\* What most steps do: the flag of p may fall, the phase of p stays one of play.
<1>A. ASSUME guild' = guild,
             \/ phase' = phase
             \/ \E c \in {"load", "map"} : phase' = [phase EXCEPT ![m][p] = c],
             \/ flag' = flag /\ (gstor'[m].open <=> gstor[m].open)
             \/ /\ flag' = [flag EXCEPT ![m][p] = FALSE]
                /\ (gstor'[m].open <=> gstor[m].open) \/ AtGuild(m, p)
      PROVE  Shrinks(m)
  <2>1. \A q \in Players : flag'[m][q] => flag[m][q]
    <3>1. CASE flag' = flag
      BY <3>1
    <3>2. CASE flag' = [flag EXCEPT ![m][p] = FALSE]
      BY <1>0, <3>2
    <3> QED BY <1>A, <3>1, <3>2
  <2>2. \A q \in Players : phase[m][q] \in {"load", "map"} => phase'[m][q] \in {"load", "map"}
    <3>1. CASE phase' = phase
      BY <3>1
    <3>2. ASSUME NEW c \in {"load", "map"}, phase' = [phase EXCEPT ![m][p] = c]
          PROVE  \A q \in Players :
                    phase[m][q] \in {"load", "map"} => phase'[m][q] \in {"load", "map"}
      BY <1>0, <3>2
    <3> QED BY <1>A, <3>1, <3>2
  <2>3. \A q \in Players : flag'[m][q] => phase'[m][q] \in {"load", "map"}
    BY <2>1, <2>2 DEF GuildSound, Playing
  <2>4. \A q \in Players : flag'[m][q] /\ guild'[m][q] => AtGuild(m, q)
    BY <1>A, <2>1 DEF AtGuild
  <2>5. \/ gstor'[m].open <=> gstor[m].open
        \/ AtGuild(m, p) /\ ~flag'[m][p]
    <3>1. CASE flag' = [flag EXCEPT ![m][p] = FALSE]
      <4>1. ~flag'[m][p]
        BY <1>0, <3>1
      <4> QED BY <1>A, <4>1
    <3>2. CASE flag' # [flag EXCEPT ![m][p] = FALSE]
      BY <1>A, <3>2
    <3> QED BY <3>1, <3>2
  <2> QED BY <2>3, <2>4, <2>5 DEF Shrinks
<1>1. CASE OpenStorage(m, p)
  <2>1. CASE AtGuild(m, p) /\ gstor[m].open
    <3>1. flag' = [flag EXCEPT ![m][p] = FALSE] /\ guild' = guild /\ phase' = phase
      BY <1>1, <2>1 DEF OpenStorage, sessVars
    <3> QED BY <2>1, <3>1, <1>A
  <2>2. CASE ~(AtGuild(m, p) /\ gstor[m].open)
    <3>1. gstor'[m] = gstor[m] /\ guild' = guild /\ phase' = phase
      BY <1>0, <1>1, <2>2 DEF OpenStorage, sessVars
    <3>2. CASE flag' = [flag EXCEPT ![m][p] = FALSE]
      BY <3>1, <3>2, <1>A
    <3>3. CASE flag' # [flag EXCEPT ![m][p] = FALSE]
      <4>1. flag' = flag
        BY <1>0, <1>1, <2>2, <3>3 DEF OpenStorage
      <4> QED BY <3>1, <4>1, <1>A
    <3> QED BY <3>2, <3>3
  <2> QED BY <2>1, <2>2
<1>2. CASE CloseKafra(m, p)
  <2>1. CASE AtGuild(m, p)
    <3>1. flag' = [flag EXCEPT ![m][p] = FALSE] /\ guild' = guild /\ phase' = phase
      BY <1>2, <2>1 DEF CloseKafra, CloseGuildStorage, AtGuild, sessVars
    <3> QED BY <2>1, <3>1, <1>A
  <2>2. CASE ~AtGuild(m, p)
    <3>1. UNCHANGED <<flag, gstor, phase, guild>>
      BY <1>2, <2>2 DEF CloseKafra, CloseGuildStorage, sessVars
    <3> QED BY <3>1, <1>A
  <2> QED BY <2>1, <2>2
<1>3. CASE Deposit(m, p) \/ Withdraw(m, p)
  <2>1. PICK d \in {1, -1} : Move(m, p, d)
    BY <1>3 DEF Deposit, Withdraw
  <2>2. UNCHANGED <<flag, phase, guild>>
    BY <2>1 DEF Move, sessVars
  <2>3. gstor' = gstor \/ gstor' = [gstor EXCEPT ![m].n = gstor[m].n + d]
    BY <2>1 DEF Move
  <2>4. gstor'[m].open <=> gstor[m].open
    <3>1. gstor[m] \in Entries
      BY <1>0, InCache
    <3> QED BY <1>0, <2>3, <3>1 DEF Entries
  <2> QED BY <2>2, <2>4, <1>A
<1>4. CASE Connect(m, p)
  <2>1. ~flag[m][p]
    BY <1>4 DEF Connect, GuildSound, Playing
  <2>2. /\ phase' = [phase EXCEPT ![m][p] = "new"]
        /\ UNCHANGED <<flag, guild, gstor>>
    BY <1>4 DEF Connect
  <2>3. \A q \in Players : q # p => phase'[m][q] = phase[m][q]
    BY <1>0, <2>2
  <2> QED BY <2>1, <2>2, <2>3 DEF Shrinks, GuildSound, Playing, AtGuild
<1>5. CASE LoadEndAck(m, p)
  <2>1. phase' = [phase EXCEPT ![m][p] = "map"] /\ UNCHANGED <<flag, guild, gstor>>
    BY <1>5 DEF LoadEndAck
  <2> QED BY <2>1, <1>A
<1>6. CASE Warp(m, p)
  <2>1. phase' = [phase EXCEPT ![m][p] = "load"] /\ guild' = guild
    BY <1>6 DEF Warp
  <2>2. CASE QuitsGuild(m, p)
    <3>1. flag' = [flag EXCEPT ![m][p] = FALSE] /\ AtGuild(m, p)
      BY <1>6, <2>2 DEF Warp, QuitsGuild
    <3> QED BY <2>1, <3>1, <1>A
  <2>3. CASE ~QuitsGuild(m, p)
    <3>1. flag' = flag
      BY <1>0, <1>6, <2>3 DEF Warp
    <3>2. gstor[m] \in Entries
      BY <1>0, InCache
    <3>3. gstor'[m].open <=> gstor[m].open
      BY <1>0, <1>6, <2>3, <3>2 DEF Warp, GstorAfterQuit, Entries
    <3> QED BY <2>1, <3>1, <3>3, <1>A
  <2> QED BY <2>2, <2>3
<1>7. CASE Autosave(m, p)
  BY <1>7, <1>A DEF Autosave, sessVars
<1>8. CASE GoAway(m, p)
  BY <1>8, LeaveShrinks DEF GoAway, Phases
<1>9. CASE Disconnect(m, p)
  <2>1. CASE Leave(m, p, "none")
    BY <2>1, LeaveShrinks DEF Phases
  <2>2. CASE ~Leave(m, p, "none")
    <3>1. /\ ~Playing(m, p) /\ phase' = [phase EXCEPT ![m][p] = "none"]
          /\ UNCHANGED <<flag, guild, gstor>>
      BY <1>9, <2>2 DEF Disconnect
    <3>2. \A q \in Players : q # p => phase'[m][q] = phase[m][q]
      BY <1>0, <3>1
    <3> QED BY <3>1, <3>2 DEF Shrinks, GuildSound, Playing, AtGuild
  <2> QED BY <2>1, <2>2
<1> QED BY <1>1, <1>2, <1>3, <1>4, <1>5, <1>6, <1>7, <1>8, <1>9, Zenon DEF PlayerStep

\* The first one to open the guild's storage, or to ask for it, has it alone.
LEMMA OpeningIsSound ==
    ASSUME TypeOK, NEW m \in MapServers, NEW p \in Players, GuildSound(m),
           OpenGuildStorage(m, p)
    PROVE  GuildSound(m)'
<1>1. /\ Playing(m, p) /\ ~gstor[m].open
      /\ UNCHANGED <<phase, guild, toMap>>
  BY DEF OpenGuildStorage, sessVars
<1>2. NobodyAtGuild(m) /\ NoneAsked(m)
  BY <1>1 DEF GuildSound, NobodyAtGuild
<1>3. gstor'[m].open
  <2>1. CASE gstor[m].cached
    <3>1. gstor' = [gstor EXCEPT ![m].open = TRUE] /\ gstor[m] \in Entries
      BY <2>1, InCache DEF OpenGuildStorage, TypeOK
    <3> QED BY <3>1 DEF TypeOK, Entries
  <2>2. CASE ~gstor[m].cached
    <3>1. gstor' = [gstor EXCEPT ![m] = Opened(0)]
      BY <2>2 DEF OpenGuildStorage
    <3> QED BY <3>1, CacheTypes DEF TypeOK
  <2> QED BY <2>1, <2>2
<1>4. NoneAsked(m)' \/ NobodyAtGuild(m)'
  <2>1. CASE gstor[m].cached
    BY <1>1, <1>2, <2>1 DEF OpenGuildStorage, NoneAsked
  <2>2. CASE ~gstor[m].cached
    <3>1. flag' = [flag EXCEPT ![m][p] = flag[m][p] /\ ~stor[m][p].open]
      BY <2>2 DEF OpenGuildStorage
    <3>2. \A q \in Players : flag'[m][q] => flag[m][q]
      BY <3>1 DEF TypeOK
    <3> QED BY <1>1, <1>2, <3>2 DEF NobodyAtGuild, AtGuild
  <2> QED BY <2>1, <2>2
<1>5. \A q \in Players : AtGuild(m, q)' => q = p
  <2>1. \A q \in Players : q # p => (flag'[m][q] => flag[m][q])
    <3>1. \E b \in BOOLEAN : flag' = [flag EXCEPT ![m][p] = b]
      BY DEF OpenGuildStorage
    <3> QED BY <3>1 DEF TypeOK
  <2> QED BY <1>1, <1>2, <2>1 DEF NobodyAtGuild, AtGuild
<1>6. \A q \in Players : flag'[m][q] => Playing(m, q)'
  <2>1. \A q \in Players : q # p => (flag'[m][q] => flag[m][q])
    <3>1. \E b \in BOOLEAN : flag' = [flag EXCEPT ![m][p] = b]
      BY DEF OpenGuildStorage
    <3> QED BY <3>1 DEF TypeOK
  <2> QED BY <1>1, <2>1 DEF GuildSound, Playing
<1>7. /\ AtMostOne(toChar[m], "gask")' /\ AtMostOne(toMap[m], "gstorage")'
      /\ Free(toMap[m], "gstorage")'
  <2>1. toChar' = toChar \/ ToChar(m, <<Msg("gask", p, 0)>>)
    BY DEF OpenGuildStorage
  <2>2. AtMostOne(toChar'[m], "gask")
    BY <1>2, <2>1, AskSent DEF GuildSound, NoneAsked
  <2> QED BY <1>1, <1>2, <2>2 DEF GuildSound, NoneAsked
<1> QED BY <1>3, <1>4, <1>5, <1>6, <1>7 DEF GuildSound, NobodyAtGuild

LEMMA PlayerIsSound ==
    ASSUME TypeOK, OneUserInv, NEW m \in MapServers, NEW p \in Players, PlayerStep(m, p)
    PROVE  OneUserInv'
<1> SUFFICES ASSUME NEW x \in MapServers
             PROVE  GuildSound(x)'
  BY DEF OneUserInv
<1>1. GuildSound(x)
  BY DEF OneUserInv
<1>2. CASE x # m
  BY <1>1, <1>2, ElsewhereSame DEF GuildSound, NobodyAtGuild, NoneAsked, AtGuild, Playing
<1>3. CASE x = m /\ OpenGuildStorage(m, p)
  BY <1>1, <1>3, OpeningIsSound
<1>4. CASE x = m /\ ~OpenGuildStorage(m, p)
  <2>1. NoNewAsk
    BY <1>4, PlayersAskNothing DEF PlayerStep
  <2>2. NoNewReply
    <3>1. toMap' = toMap
      BY DEF PlayerStep, OpenStorage, OpenGuildStorage, CloseKafra, Deposit, Withdraw, Move,
             Connect, LoadEndAck, Warp, Autosave, GoAway, Disconnect, linkVars
    <3> QED BY <3>1 DEF NoNewReply
  <2>3. Shrinks(m)
    BY <1>1, <1>4, PlayerShrinks
  <2> QED BY <1>1, <1>4, <2>1, <2>2, <2>3, ShrinkingIsSound
<1> QED BY <1>2, <1>3, <1>4

\* The char server takes the request away and answers it.
LEMMA CharIsSound ==
    ASSUME TypeOK, OneUserInv, NEW m \in MapServers, CharStep(m)
    PROVE  OneUserInv'
<1>1. toChar[m] # <<>> /\ UNCHANGED <<phase, flag, guild, gstor>>
  BY DEF CharStep, HasRequest, RecvAuth, RecvSave, RecvAsk, RecvPut, RecvGAsk, RecvGPut, sessVars
<1>2. toChar[m] \in Seq(CharMsg) /\ toMap[m] \in Seq(MapMsg)
  BY DEF TypeOK
<1>3. \A t : /\ Free(toChar[m], t) => Free(Tail(toChar[m]), t)
             /\ AtMostOne(toChar[m], t) => AtMostOne(Tail(toChar[m]), t)
  BY <1>1, <1>2, FreeTail
<1>4. GuildSound(m)
  BY DEF OneUserInv
<1>5. CASE RecvGAsk(m)
  <2> DEFINE answer == Msg("gstorage", Head(toChar[m]).p, savedGuild)
  <2>1. Head(toChar[m]).type = "gask" /\ Answer(m, <<answer>>)
    BY <1>5 DEF RecvGAsk, HasRequest
  <2>2. answer \in MapMsg
    BY <1>1, HeadMessages DEF Msg, MapMsg, TypeOK
  <2>3. ~Free(toChar[m], "gask") /\ Free(Tail(toChar[m]), "gask")
    BY <1>1, <1>2, <1>4, <2>1, FreeTail DEF GuildSound
  <2> HIDE DEF answer
  <2>4. Free(toMap[m], "gstorage") /\ AtMostOne(toMap[m] \o <<answer>>, "gstorage")
    BY <1>2, <1>4, <2>2, <2>3, OneConcat DEF GuildSound
  <2>5. /\ toChar'[m] = Tail(toChar[m]) /\ toMap'[m] = toMap[m] \o <<answer>>
        /\ \A x \in MapServers : x # m => toChar'[x] = toChar[x] /\ toMap'[x] = toMap[x]
    BY <2>1 DEF Answer, TypeOK
  <2>6. gstor[m].open /\ NobodyAtGuild(m)
    BY <1>4, <2>3 DEF GuildSound, NoneAsked
  <2>7. AtMostOne(Tail(toChar[m]), "gask")
    BY <1>3, <1>4 DEF GuildSound
  <2>8. GuildSound(m)'
    BY <1>1, <1>4, <2>3, <2>4, <2>5, <2>6, <2>7
       DEF GuildSound, NoneAsked, NobodyAtGuild, AtGuild, Playing
  <2>9. ASSUME NEW x \in MapServers, x # m
        PROVE  GuildSound(x)'
    BY <1>1, <2>5, <2>9 DEF OneUserInv, GuildSound, NoneAsked, NobodyAtGuild, AtGuild, Playing
  <2> QED BY <2>8, <2>9 DEF OneUserInv
<1>6. CASE ~RecvGAsk(m)
  <2> DEFINE ok == Msg("ok", Head(toChar[m]).p, savedInv[Head(toChar[m]).p])
             store == Msg("storage", Head(toChar[m]).p, savedStor[Head(toChar[m]).p])
  <2>1. PICK reply \in Seq(MapMsg) : Free(reply, "gstorage") /\ Answer(m, reply)
    <3>1. /\ ok \in MapMsg /\ ok.type # "gstorage"
          /\ store \in MapMsg /\ store.type # "gstorage"
      BY <1>1, HeadMessages DEF Msg, MapMsg, TypeOK
    <3>2. Answer(m, <<>>) \/ Answer(m, <<ok>>) \/ Answer(m, <<store>>)
      BY <1>6 DEF CharStep, RecvAuth, RecvSave, RecvAsk, RecvPut, RecvGPut
    <3> HIDE DEF ok, store
    <3>3. /\ <<>> \in Seq(MapMsg) /\ <<ok>> \in Seq(MapMsg) /\ <<store>> \in Seq(MapMsg)
          /\ Free(<<>>, "gstorage") /\ Free(<<ok>>, "gstorage") /\ Free(<<store>>, "gstorage")
      BY <3>1 DEF Free
    <3> QED BY <3>2, <3>3, Zenon
  <2>2. /\ toChar' \in [MapServers -> Seq(CharMsg)]
        /\ toChar' = [toChar EXCEPT ![m] = Tail(toChar[m])]
        /\ toMap' = [toMap EXCEPT ![m] = toMap[m] \o reply]
    BY <1>1, <2>1, AnswerTypes DEF Answer
  <2>3. NoNewAsk
    BY <1>3, <2>2 DEF NoNewAsk, TypeOK
  <2>4. NoNewReply
    <3>1. /\ Free(toMap[m], "gstorage") => Free(toMap[m] \o reply, "gstorage")
          /\ AtMostOne(toMap[m], "gstorage") => AtMostOne(toMap[m] \o reply, "gstorage")
      BY <1>2, <2>1, FreeConcat
    <3> QED BY <2>2, <3>1 DEF NoNewReply, TypeOK
  <2>5. ASSUME NEW x \in MapServers
        PROVE  GuildSound(x)'
    <3>1. GuildSound(x)
      BY DEF OneUserInv
    <3>2. Shrinks(x)
      BY <1>1, <3>1, UnchangedShrinks
    <3> QED BY <2>3, <2>4, <3>1, <3>2, ShrinkingIsSound
  <2> QED BY <2>5 DEF OneUserInv
<1> QED BY <1>5, <1>6

\* An answer, and so the one that was asked for last, opens the guild's storage
\* for the player it was asked for; the others let players out.
LEMMA AnsweredIsSound ==
    ASSUME TypeOK, OneUserInv, NEW m \in MapServers, AnswerStep(m)
    PROVE  OneUserInv'
<1> DEFINE p == Head(toMap[m]).p
<1>1. toMap[m] # <<>> /\ TakeAnswer(m) /\ toChar' = toChar
  BY DEF AnswerStep, HasAnswer, AuthOk, StorageLoaded, GuildStorageLoaded, MemberLeft
<1>2. p \in Players
  BY <1>1, HeadMessages
<1>3. toMap[m] \in Seq(MapMsg) /\ GuildSound(m)
  BY DEF TypeOK, OneUserInv
<1>4. /\ Free(toMap[m], "gstorage") => Free(Tail(toMap[m]), "gstorage")
      /\ AtMostOne(toMap[m], "gstorage") => AtMostOne(Tail(toMap[m]), "gstorage")
  BY <1>1, <1>3, FreeTail
<1>5. /\ toMap'[m] = Tail(toMap[m])
      /\ \A x \in MapServers : x # m => toMap'[x] = toMap[x]
  BY <1>1 DEF TakeAnswer, TypeOK
<1>6. NoNewAsk /\ NoNewReply
  BY <1>1, <1>4, <1>5, SentNothing DEF NoNewReply
<1>0. /\ phase \in [MapServers -> [Players -> Phases]]
      /\ flag \in [MapServers -> [Players -> BOOLEAN]]
      /\ guild \in [MapServers -> [Players -> BOOLEAN]]
      /\ gstor \in [MapServers -> Cache]
  BY DEF TypeOK
<1>7. ASSUME NEW x \in MapServers, x # m
      PROVE  GuildSound(x)'
  <2>1. /\ \/ phase' = phase
           \/ phase' = [phase EXCEPT ![m][p] = "load"]
        /\ \/ flag' = flag
           \/ \E b \in BOOLEAN : flag' = [flag EXCEPT ![m][p] = b]
        /\ \/ guild' = guild
           \/ \E b : guild' = [guild EXCEPT ![m][p] = b]
        /\ gstor' = gstor \/ \E e : gstor' = [gstor EXCEPT ![m] = e]
    BY DEF AnswerStep, AuthOk, StorageLoaded, GuildStorageLoaded, MemberLeft, sessVars
  <2> HIDE DEF p
  <2>2. phase'[x] = phase[x] /\ flag'[x] = flag[x] /\ guild'[x] = guild[x] /\ gstor'[x] = gstor[x]
    BY <1>0, <1>7, <2>1
  <2>3. GuildSound(x)
    BY DEF OneUserInv
  <2>4. Shrinks(x)
    BY <2>2, <2>3, UnchangedShrinks
  <2> QED BY <1>6, <2>3, <2>4, ShrinkingIsSound
<1>8. ASSUME GuildStorageLoaded(m)
      PROVE  GuildSound(m)'
  <2>1. ~Free(toMap[m], "gstorage")
    BY <1>1, <1>3, <1>8, FreeTail DEF GuildStorageLoaded, HasAnswer
  <2>2. Free(toMap[m], "gstorage")' /\ Free(toChar[m], "gask")'
    BY <1>1, <1>3, <1>5, <1>8, <2>1, FreeTail DEF GuildStorageLoaded, HasAnswer, GuildSound
  <2>3. NobodyAtGuild(m)
    BY <1>3, <2>1 DEF GuildSound, NoneAsked
  <2>4. phase' = phase /\ guild' = guild
    BY <1>8 DEF GuildStorageLoaded, sessVars
  <2>5. flag' = [flag EXCEPT ![m][p] = flag[m][p] \/ Playing(m, p)]
    BY <1>8 DEF GuildStorageLoaded
  <2>6. /\ flag'[m][p] => flag[m][p] \/ Playing(m, p)
        /\ \A q \in Players : q # p => (flag'[m][q] => flag[m][q])
    <3> HIDE DEF p
    <3> QED BY <1>0, <1>2, <2>5
  <2>7. \A q \in Players : flag'[m][q] => Playing(m, q)'
    BY <1>3, <2>4, <2>6 DEF GuildSound, Playing
  <2>8. \A q \in Players : AtGuild(m, q)' => q = p /\ Playing(m, p)
    BY <2>3, <2>4, <2>7, <2>6 DEF NobodyAtGuild, AtGuild, Playing
  <2>9. Playing(m, p) => gstor'[m].open
    <3>1. ASSUME Playing(m, p)
          PROVE  gstor' = [gstor EXCEPT ![m] = Opened(Head(toMap[m]).n)]
      BY <1>8, <3>1 DEF GuildStorageLoaded, Playing
    <3>2. Head(toMap[m]).n \in Nat
      BY <1>1, HeadMessages
    <3> QED BY <1>0, <3>1, <3>2, CacheTypes
  <2>10. AtMostOne(toChar[m], "gask")' /\ AtMostOne(toMap[m], "gstorage")'
    BY <2>2 DEF Free, AtMostOne
  <2> QED BY <2>2, <2>7, <2>8, <2>9, <2>10 DEF GuildSound, NoneAsked
<1>9. ASSUME ~GuildStorageLoaded(m)
      PROVE  GuildSound(m)'
  <2>1. gstor' = gstor
    BY <1>9 DEF AnswerStep, AuthOk, StorageLoaded, MemberLeft
  <2>2. CASE AuthOk(m)
    <3>1. CASE UNCHANGED <<sessVars, inv>>
      BY <1>3, <2>1, <2>2, <3>1, UnchangedShrinks, <1>6, ShrinkingIsSound DEF AuthOk, sessVars
    <3>2. CASE ~UNCHANGED <<sessVars, inv>>
      <4>1. /\ phase[m][p] = "new" /\ phase' = [phase EXCEPT ![m][p] = "load"]
            /\ guild' = [guild EXCEPT ![m][p] = member[p]] /\ flag' = flag
        BY <2>2, <3>2 DEF AuthOk
      <4> HIDE DEF p
      <4>2. ~flag[m][p]
        BY <1>2, <1>3, <4>1 DEF GuildSound, Playing
      <4>3. \A q \in Players : q # p => phase'[m][q] = phase[m][q] /\ guild'[m][q] = guild[m][q]
        BY <1>0, <1>2, <4>1
      <4>4. Shrinks(m)
        BY <1>3, <2>1, <4>1, <4>2, <4>3 DEF Shrinks, GuildSound, Playing, AtGuild
      <4> QED BY <1>3, <1>6, <4>4, ShrinkingIsSound
    <3> QED BY <3>1, <3>2
  <2>3. CASE StorageLoaded(m) \/ MemberLeft(m)
    <3>1. /\ phase' = phase
          /\ \/ flag' = [flag EXCEPT ![m][p] = FALSE] /\ guild' = guild
             \/ guild' = [guild EXCEPT ![m][p] = FALSE] /\ flag' = flag
      BY <2>3 DEF StorageLoaded, MemberLeft, sessVars
    <3> HIDE DEF p
    <3>2. \A q \in Players : /\ flag'[m][q] => flag[m][q]
                             /\ guild'[m][q] => guild[m][q]
      <4>1. CASE flag' = [flag EXCEPT ![m][p] = FALSE] /\ guild' = guild
        BY <1>0, <1>2, <4>1
      <4>2. CASE guild' = [guild EXCEPT ![m][p] = FALSE] /\ flag' = flag
        BY <1>0, <1>2, <4>2
      <4> QED BY <3>1, <4>1, <4>2
    <3>3. Shrinks(m)
      BY <1>3, <2>1, <3>1, <3>2 DEF Shrinks, GuildSound, Playing, AtGuild
    <3> QED BY <1>3, <1>6, <3>3, ShrinkingIsSound
  <2> QED BY <1>9, <2>2, <2>3 DEF AnswerStep
<1> QED BY <1>7, <1>8, <1>9 DEF OneUserInv

LEMMA FaultIsSound ==
    ASSUME TypeOK, OneUserInv, NEW m \in MapServers, LinkDown(m) \/ LinkUp(m)
    PROVE  OneUserInv'
<1>1. CASE LinkDown(m)
  <2>1. /\ toChar'[m] = <<>> /\ toMap'[m] = <<>>
        /\ \A p \in Players : ~flag'[m][p]
        /\ \A x \in MapServers : x # m =>
              /\ phase'[x] = phase[x] /\ flag'[x] = flag[x] /\ guild'[x] = guild[x]
              /\ gstor'[x] = gstor[x] /\ toChar'[x] = toChar[x] /\ toMap'[x] = toMap[x]
    BY <1>1 DEF LinkDown, DropCaches, TypeOK
  <2>2. GuildSound(m)'
    BY <2>1 DEF GuildSound, NoneAsked, AtGuild, Free, AtMostOne
  <2>3. ASSUME NEW x \in MapServers, x # m
        PROVE  GuildSound(x)'
    BY <2>1, <2>3 DEF OneUserInv, GuildSound, NoneAsked, NobodyAtGuild, AtGuild, Playing
  <2> QED BY <2>2, <2>3 DEF OneUserInv
<1>2. CASE LinkUp(m)
  BY <1>2 DEF LinkUp, sessVars, OneUserInv, GuildSound, NoneAsked, NobodyAtGuild, AtGuild, Playing
<1> QED BY <1>1, <1>2

LEMMA ExpelIsSound ==
    ASSUME TypeOK, OneUserInv, NEW p \in Players, Expel(p)
    PROVE  OneUserInv'
<1>1. UNCHANGED <<phase, flag, guild, gstor, toChar>>
  BY DEF Expel, sessVars
<1>2. NoNewAsk
  BY <1>1, SentNothing
<1>3. NoNewReply
  BY ExpelTypes DEF NoNewReply
<1>4. ASSUME NEW m \in MapServers
      PROVE  GuildSound(m)'
  <2>1. GuildSound(m)
    BY DEF OneUserInv
  <2>2. Shrinks(m)
    BY <1>1, <2>1, UnchangedShrinks
  <2> QED BY <1>2, <1>3, <2>1, <2>2, ShrinkingIsSound
<1> QED BY <1>4 DEF OneUserInv

\* GuildSound holds on every map server at all times.
THEOREM OneUserInvariance == Spec => []OneUserInv
<1>1. Init => OneUserInv
  BY DEF Init, OneUserInv, GuildSound, NoneAsked, AtGuild, Free, AtMostOne
<1>2. ASSUME TypeOK, OneUserInv, [Next]_vars
      PROVE  OneUserInv'
  <2>1. ASSUME NEW m \in MapServers, NEW p \in Players, PlayerStep(m, p)
        PROVE  OneUserInv'
    BY <1>2, <2>1, PlayerIsSound
  <2>2. ASSUME NEW m \in MapServers, CharStep(m) \/ AnswerStep(m)
        PROVE  OneUserInv'
    BY <1>2, <2>2, CharIsSound, AnsweredIsSound
  <2>3. ASSUME NEW p \in Players, Expel(p)
        PROVE  OneUserInv'
    BY <1>2, <2>3, ExpelIsSound
  <2>4. ASSUME NEW m \in MapServers, LinkDown(m) \/ LinkUp(m)
        PROVE  OneUserInv'
    BY <1>2, <2>4, FaultIsSound
  <2>5. CASE UNCHANGED vars
    BY <1>2, <2>5 DEF vars, sessVars, linkVars, OneUserInv, GuildSound, NoneAsked,
                      NobodyAtGuild, AtGuild, Playing
  <2> QED BY <1>2, <2>1, <2>2, <2>3, <2>4, <2>5 DEF Next, Work
<1> QED BY <1>1, <1>2, StorageTypeCorrect, PTL DEF Spec

\* storage_status, which storage_guild_storageopen looks at and sets before it
\* asks (storage.c:399), keeps a second member out of the guild's storage, on any
\* number of map servers and whatever requests, answers, departures and failures
\* of links come between.
THEOREM GuildOneUserHolds == Spec => []GuildOneUser
<1>1. OneUserInv => GuildOneUser
  BY DEF OneUserInv, GuildSound, GuildOneUser
<1> QED BY <1>1, OneUserInvariance, PTL

=============================================================================
