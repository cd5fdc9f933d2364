-------------------------------- MODULE Mail ---------------------------------
(***************************************************************************)
(* mail.c on the map servers and int_mail.c on the char server: letters    *)
(* with zeny and pieces of one kind of item, the file of each character's  *)
(* mails, and the index of how many of its lines are in use.  The map      *)
(* servers are one, as nothing in them depends on which of them it is.     *)
(***************************************************************************)
EXTENDS Integers, Sequences, FiniteSets, FiniteSetsExt

CONSTANTS
    Writers,          \* characters, of different accounts
    Stranger,         \* a name nobody has, or one of the sender's own account
    FirstPieces, FirstPurse,   \* what those who write have
    MailStoreMax,     \* MAIL_STORE_MAX
    Posters, Readers, \* bound: who writes letters, and who has mails to read
    MaxLetters,       \* bound: letters sent
    MaxLines,         \* bound: lines of a file to which one is added that was never sent
    MaxPosts,         \* bound: requests that wait, at a time
    MaxAsked,         \* bound: of the requests to read, fetch or delete, for good
    MaxMailCrashes    \* bound: the char server's

ASSUME MailAssumption ==
    /\ Stranger \notin Writers /\ IsFiniteSet(Writers)
    /\ Posters \subseteq Writers /\ Readers \subseteq Writers
    /\ {FirstPieces, FirstPurse, MaxLetters, MaxLines, MaxPosts, MaxAsked, MaxMailCrashes} \subseteq Nat
    /\ MailStoreMax \in Nat \ {0}

VARIABLES
    present,      \* map server: who is in play
    pieces, purse,
    draft,        \* mail_zeny, the amount in mail_item, and mail_amount
    mailDb,       \* char server: mail_db
    mailTxt,      \* its copy in mail.txt
    mailFile,     \* the file of each character
    posts, parcels,   \* what is under way to the char server and back
    letters, asked, mailCrashes

atMap == <<present, pieces, purse, draft>>
atChar == <<mailDb, mailTxt, mailFile>>
mailVars == <<atMap, atChar, posts, parcels, letters, asked, mailCrashes>>

NoDraft == [zeny |-> 0, item |-> 0, amount |-> 0]
NoMails == [rates |-> 0, store |-> 0]
Mails == [num : Nat, read : BOOLEAN, zeny : Nat, item : Nat]
Whole == Writers \cup {Stranger}

MailTypeOK ==
    /\ present \in [Writers -> BOOLEAN]
    /\ pieces \in [Writers -> Nat] /\ purse \in [Writers -> Nat]
    /\ draft \in [Writers -> [zeny : Nat, item : Nat, amount : Nat]]
    /\ mailDb \in [Writers -> [rates : Nat, store : Nat]]
    /\ mailTxt \in [Writers -> [rates : Nat, store : Nat]]
    /\ mailFile \in [Writers -> Seq(Mails)]
    /\ posts \in Seq([type : {"send"}, to : Whole, zeny : Nat, item : Nat]
                     \cup [type : {"open"}, of : Writers]
                     \cup [type : {"read", "fetch", "delete"}, of : Writers, num : Nat])
    /\ Len(posts) <= MaxPosts
    /\ parcels \in Seq([to : Writers, zeny : Nat, item : Nat])
    /\ letters \in 0..MaxLetters /\ asked \in 0..MaxAsked /\ mailCrashes \in 0..MaxMailCrashes

-----------------------------------------------------------------------------
(* The map server                                                          *)

\* pc_authok, which also empties the draft, and unit_free.
EnterMail(c) ==
    /\ ~present[c]
    /\ present' = [present EXCEPT ![c] = TRUE]
    /\ UNCHANGED <<pieces, purse, draft, atChar, posts, parcels, letters, asked, mailCrashes>>

LeaveMail(c) ==
    /\ present[c]
    /\ present' = [present EXCEPT ![c] = FALSE]
    /\ draft' = [draft EXCEPT ![c] = NoDraft]
    /\ UNCHANGED <<pieces, purse, atChar, posts, parcels, letters, asked, mailCrashes>>

\* mail_setitem: zeny.
AttachZeny(c, amount) ==
    /\ present[c]
    /\ draft' = [draft EXCEPT ![c].zeny = IF purse[c] < amount THEN purse[c] ELSE amount]
    /\ UNCHANGED <<present, pieces, purse, atChar, posts, parcels, letters, asked, mailCrashes>>

\* mail_setitem: with an item attached, a smaller amount is taken off the copy
\* of it.
AttachItem(c, amount) ==
    /\ present[c]
    /\ draft' = [draft EXCEPT ![c] =
                    IF @.item > 0 /\ @.item > amount THEN [@ EXCEPT !.item = draft[c].item - amount]
                    ELSE IF pieces[c] >= amount
                         THEN [@ EXCEPT !.item = pieces[c], !.amount = amount] ELSE @]
    /\ UNCHANGED <<present, pieces, purse, atChar, posts, parcels, letters, asked, mailCrashes>>

Detached(d) == [d EXCEPT !.item = 0, !.amount = 0]

\* clif_parse_MailWinOpen: which of the two is taken off.
MailWinOpen(c, item, zeny) ==
    /\ present[c] /\ (item \/ zeny)
    /\ draft' = [draft EXCEPT ![c] =
                    LET d == IF item THEN Detached(@) ELSE @ IN
                    IF zeny THEN [d EXCEPT !.zeny = 0] ELSE d]
    /\ UNCHANGED <<present, pieces, purse, atChar, posts, parcels, letters, asked, mailCrashes>>

\* mail_checkappend: more zeny than there is goes unsaid, with what else there
\* was, and a stack that has changed is not found.
NotAffordable(c) == draft[c].zeny > purse[c]
HasItem(c) == draft[c].item > 0 /\ draft[c].amount > 0
NotFound(c) == HasItem(c) /\ (pieces[c] # draft[c].item \/ pieces[c] < draft[c].amount)
Appended(c) ==
    IF NotAffordable(c) THEN [zeny |-> 0, item |-> 0]
    ELSE [zeny |-> draft[c].zeny, item |-> IF HasItem(c) THEN draft[c].amount ELSE 0]

\* Mutant: the zeny is paid before the item is looked for.
SendMailPaysFirst(c, to) ==
    LET a == Appended(c) IN
    /\ present[c] /\ to # c
    /\ purse' = [purse EXCEPT ![c] = @ - a.zeny]
    /\ IF ~NotAffordable(c) /\ NotFound(c)
       THEN UNCHANGED <<pieces, posts, letters>>
       ELSE /\ letters < MaxLetters /\ Len(posts) < MaxPosts
            /\ pieces' = [pieces EXCEPT ![c] = @ - a.item]
            /\ posts' = Append(posts, [type |-> "send", to |-> to,
                                      zeny |-> a.zeny, item |-> a.item])
            /\ letters' = letters + 1
    /\ draft' = [draft EXCEPT ![c] = NoDraft]
    /\ UNCHANGED <<present, atChar, parcels, asked, mailCrashes>>

\* clif_parse_SendMail, to somebody else.  What is attached leaves the sender.
SendMail(c, to) ==
    LET a == Appended(c) IN
    /\ present[c] /\ to # c
    /\ IF ~NotAffordable(c) /\ NotFound(c)
       THEN UNCHANGED <<pieces, purse, posts, letters>>
       ELSE /\ letters < MaxLetters /\ Len(posts) < MaxPosts
            /\ pieces' = [pieces EXCEPT ![c] = @ - a.item]
            /\ purse' = [purse EXCEPT ![c] = @ - a.zeny]
            /\ posts' = Append(posts, [type |-> "send", to |-> to,
                                      zeny |-> a.zeny, item |-> a.item])
            /\ letters' = letters + 1
    /\ draft' = [draft EXCEPT ![c] = NoDraft]
    /\ UNCHANGED <<present, atChar, parcels, asked, mailCrashes>>

\* clif_parse_SendMail, to oneself: refused, and only the item is taken off.
SendToSelf(c) ==
    /\ present[c]
    /\ draft' = [draft EXCEPT ![c] = Detached(@)]
    /\ UNCHANGED <<present, pieces, purse, atChar, posts, parcels, letters, asked, mailCrashes>>

\* clif_parse_RefleshMailBox.
RefleshMailBox(c) ==
    /\ present[c] /\ Len(posts) < MaxPosts
    /\ posts' = Append(posts, [type |-> "open", of |-> c])
    /\ UNCHANGED <<atMap, atChar, parcels, letters, asked, mailCrashes>>

\* clif_parse_ReadMail, clif_parse_MailGetAppend, clif_parse_DeleteMail.
Ask(c, type, num) ==
    /\ present[c] /\ Len(posts) < MaxPosts /\ asked < MaxAsked
    /\ posts' = Append(posts, [type |-> type, of |-> c, num |-> num])
    /\ asked' = asked + 1
    /\ UNCHANGED <<atMap, atChar, parcels, letters, mailCrashes>>

\* intif_parse_MailGetAppend: nobody may be there, or may be able to carry it.
RecvMailGetAppend ==
    /\ parcels # <<>>
    /\ LET p == Head(parcels) IN
       IF ~present[p.to] THEN UNCHANGED <<purse, pieces>>
       ELSE /\ purse' = [purse EXCEPT ![p.to] = @ + p.zeny]
            /\ \E got \in {0, p.item} : pieces' = [pieces EXCEPT ![p.to] = @ + got]
    /\ parcels' = Tail(parcels)
    /\ UNCHANGED <<present, draft, atChar, posts, letters, asked, mailCrashes>>

\* Players give each other zeny and items while letters are written.
Give(c, d) ==
    /\ present[c] /\ present[d] /\ c # d
    /\ \/ /\ pieces[c] > 0
          /\ pieces' = [pieces EXCEPT ![c] = @ - 1, ![d] = @ + 1]
          /\ UNCHANGED purse
       \/ /\ purse[c] > 0
          /\ purse' = [purse EXCEPT ![c] = @ - 1, ![d] = @ + 1]
          /\ UNCHANGED pieces
    /\ UNCHANGED <<present, draft, atChar, posts, parcels, letters, asked, mailCrashes>>

-----------------------------------------------------------------------------
(* The char server                                                         *)

LessOf(a, b) == IF a < b THEN a ELSE b
MoreOf(a, b) == IF a < b THEN b ELSE a

\* mail_read_mail: as many lines as the index says, and the index is put right
\* where there are fewer.
Lines(c) ==
    SubSeq(mailFile[c], 1, LessOf(Len(mailFile[c]), LessOf(mailDb[c].store, MailStoreMax)))
Counted(c) ==
    LET L == Lines(c) IN
    IF L = <<>> \/ Len(L) = mailDb[c].store THEN mailDb[c]
    ELSE [store |-> Len(L),
          rates |-> IF Len(L) > 1 THEN MoreOf(mailDb[c].rates, L[Len(L)].num) ELSE mailDb[c].rates]

\* mail_save_mail goes on to the entry after the last, if that is not 0, and
\* counts it in.
Recounted(m, L) == [store |-> Len(L), rates |-> MoreOf(m.rates, L[Len(L)].num)]

\* Where the callers have read no more, that entry of theirs was never set: it
\* may be 0, or a mail of some call before; or the server may crash.
Leftovers == UNION {{mailFile[c][i] : i \in 1..Len(mailFile[c])} : c \in Writers}
SaveMail(c, L) ==
    \/ /\ mailFile' = [mailFile EXCEPT ![c] = L]
       /\ mailDb' = [mailDb EXCEPT ![c] = Counted(c)]
    \/ \E x \in Leftovers :
          /\ Len(L) < MaxLines
          /\ mailFile' = [mailFile EXCEPT ![c] = Append(L, x)]
          /\ mailDb' = [mailDb EXCEPT ![c] = Recounted(Counted(c), Append(L, x))]

\* mapif_parse_SendMail: the mail is numbered, and its line appended.
RecvSendMail(p) ==
    IF p.to = Stranger THEN UNCHANGED <<mailDb, mailFile>>
    ELSE /\ mailDb' = [mailDb EXCEPT ![p.to] = [rates |-> @.rates + 1, store |-> @.store + 1]]
         /\ mailFile' = [mailFile EXCEPT ![p.to] =
                            Append(@, [num |-> mailDb[p.to].rates + 1, read |-> FALSE,
                                       zeny |-> p.zeny, item |-> p.item])]

LinesOf(L, num) == {i \in 1..Len(L) : L[i].num = num}
FirstLineOf(L, num) == CHOOSE i \in LinesOf(L, num) : \A j \in LinesOf(L, num) : i <= j

\* mapif_parse_ReadMail.
RecvReadMail(p) ==
    LET L == Lines(p.of)
        i == FirstLineOf(L, p.num) IN
    IF LinesOf(L, p.num) # {} /\ ~L[i].read
    THEN SaveMail(p.of, [L EXCEPT ![i].read = TRUE])
    ELSE /\ mailDb' = [mailDb EXCEPT ![p.of] = Counted(p.of)]
         /\ UNCHANGED mailFile

\* mapif_parse_GetAppend: what is attached is sent and taken off the mail.
RecvGetAppend(p) ==
    LET L == Lines(p.of)
        i == FirstLineOf(L, p.num) IN
    IF LinesOf(L, p.num) # {} /\ (L[i].item > 0 \/ L[i].zeny > 0)
    THEN /\ parcels' = Append(parcels, [to |-> p.of, zeny |-> L[i].zeny, item |-> L[i].item])
         /\ SaveMail(p.of, [L EXCEPT ![i].zeny = 0, ![i].item = 0])
    ELSE /\ mailDb' = [mailDb EXCEPT ![p.of] = Counted(p.of)]
         /\ UNCHANGED <<mailFile, parcels>>

\* mail_deletemail moves the mails that are kept to the front, and one more than
\* there are is saved: the last, or what has been there.
KeptUpTo(L, num, last) == {j \in 1..last : L[j].num # num}
Deleted(L, num) ==
    [i \in 1..Len(L) |->
        LET from == {j \in KeptUpTo(L, num, Len(L)) : Cardinality(KeptUpTo(L, num, j)) = i} IN
        IF from = {} THEN L[i] ELSE L[CHOOSE j \in from : TRUE]]

\* mapif_parse_DeleteMail: the index is counted down from what was saved.
RecvDeleteMail(p) ==
    LET L == Lines(p.of)
        D == Deleted(L, p.num) IN
    IF LinesOf(L, p.num) # {}
    THEN /\ mailFile' = [mailFile EXCEPT ![p.of] = D]
         /\ mailDb' = [mailDb EXCEPT ![p.of] = [Recounted(Counted(p.of), D) EXCEPT !.store = @ - 1]]
    ELSE /\ mailDb' = [mailDb EXCEPT ![p.of] = Counted(p.of)]
         /\ UNCHANGED mailFile

\* inter_mail_parse_frommap.
RecvPost ==
    /\ posts # <<>>
    /\ LET p == Head(posts) IN
       \/ p.type = "send" /\ RecvSendMail(p) /\ UNCHANGED parcels
       \/ p.type = "open" /\ mailDb' = [mailDb EXCEPT ![p.of] = Counted(p.of)]
                          /\ UNCHANGED <<mailFile, parcels>>
       \/ p.type = "read" /\ RecvReadMail(p) /\ UNCHANGED parcels
       \/ p.type = "fetch" /\ RecvGetAppend(p)
       \/ p.type = "delete" /\ RecvDeleteMail(p) /\ UNCHANGED parcels
    /\ posts' = Tail(posts)
    /\ UNCHANGED <<atMap, mailTxt, letters, asked, mailCrashes>>

\* mail_sync.
MailSync ==
    /\ mailTxt' = mailDb
    /\ UNCHANGED <<atMap, mailDb, mailFile, posts, parcels, letters, asked, mailCrashes>>

\* A crash, and mail_init: the files are as they are, and the index is old.
MailCrash ==
    /\ mailCrashes < MaxMailCrashes
    /\ mailDb' = mailTxt
    /\ present' = [c \in Writers |-> FALSE]
    /\ draft' = [c \in Writers |-> NoDraft]
    /\ posts' = <<>> /\ parcels' = <<>>
    /\ mailCrashes' = mailCrashes + 1
    /\ UNCHANGED <<pieces, purse, mailTxt, mailFile, letters, asked>>

-----------------------------------------------------------------------------
MailInit ==
    /\ present = [c \in Writers |-> TRUE]
    /\ pieces = [c \in Writers |-> IF c \in Posters THEN FirstPieces ELSE 0]
    /\ purse = [c \in Writers |-> IF c \in Posters THEN FirstPurse ELSE 0]
    /\ draft = [c \in Writers |-> NoDraft]
    /\ mailDb = [c \in Writers |-> NoMails] /\ mailTxt = mailDb
    /\ mailFile = [c \in Writers |-> <<>>]
    /\ posts = <<>> /\ parcels = <<>>
    /\ letters = 0 /\ asked = 0 /\ mailCrashes = 0

MailNext ==
    \/ \E c \in Writers : EnterMail(c) \/ LeaveMail(c) \/ \E d \in Writers : Give(c, d)
    \/ \E c \in Posters :
          \/ SendToSelf(c)
          \/ \E n \in 0..(FirstPurse * 2) : AttachZeny(c, n)
          \/ \E n \in 0..(FirstPieces * 2) : AttachItem(c, n)
          \/ \E item, zeny \in BOOLEAN : MailWinOpen(c, item, zeny)
          \/ \E to \in Readers \cup {Stranger} : SendMail(c, to)
    \/ \E c \in Readers :
          \/ RefleshMailBox(c)
          \/ \E type \in {"read", "fetch", "delete"}, n \in 1..MaxLetters : Ask(c, type, n)
    \/ RecvMailGetAppend \/ RecvPost \/ MailSync \/ MailCrash

MailSpec == MailInit /\ [][MailNext]_mailVars

-----------------------------------------------------------------------------
(* Properties                                                              *)

AddUp(f) == MapThenSumSet(LAMBDA x : f[x], DOMAIN f)

\* What is attached to the letters among requests.
PiecesIn(s) == [i \in DOMAIN s |-> IF s[i].type = "send" THEN s[i].item ELSE 0]
ZenyIn(s) == [i \in DOMAIN s |-> IF s[i].type = "send" THEN s[i].zeny ELSE 0]

AllPieces == AddUp(pieces) + AddUp(PiecesIn(posts))
AllZeny == AddUp(purse) + AddUp(ZenyIn(posts))

\* Letters are paid for: whatever is attached, taken off, given away or got in
\* between (mail.c:58), no step of the players makes or loses zeny or pieces,
\* and what a letter takes along has left its sender.
LettersPaid ==
    [][<<pieces, purse, posts>>' # <<pieces, purse, posts>>
          /\ UNCHANGED <<parcels, mailCrashes>> /\ Len(posts') >= Len(posts)
       => AllPieces' = AllPieces /\ AllZeny' = AllZeny]_mailVars

\* int_mail.c:3, "store: the number of mails that are kept": the index counts
\* the lines of the file.
StoreCounts == \A c \in Writers : mailDb[c].store = Len(mailFile[c])

=============================================================================
