------------------------------ MODULE Journal -------------------------------
(***************************************************************************)
(* A store of the char server that is kept in a text file and in a journal *)
(* of the changes since that file was written (journal.c, lock.c), with    *)
(* the characters of char.c as its user: a cache in memory, chunks of the  *)
(* journal file that are used again, the replacement of the text file, and *)
(* the start after a crash.  A crash is the death of the process: what it  *)
(* wrote so far is in the files, in the order in which it was written.     *)
(***************************************************************************)
EXTENDS Naturals, FiniteSets, Sequences, SequencesExt

CONSTANTS
    CharIds,      \* characters
    NoChar,       \* the content of a character that does not exist
    Clean,        \* an entry of the journal without a cached change
    StampSteps,   \* seconds that may pass from one flush to the next
    MaxWrites,    \* bound: changes
    MaxStamp,     \* bound: seconds
    MaxCrashes    \* bound: crashes, and failed writes of a chunk

ASSUME JournalAssumption ==
    /\ MaxWrites \in Nat /\ MaxStamp \in Nat /\ MaxCrashes \in Nat
    /\ StampSteps \subseteq Nat
    /\ NoChar # Clean /\ NoChar \notin CharIds /\ CharIds # {}
    /\ {NoChar, Clean} \cap Nat = {}

VARIABLES
    jphase,      \* what the program is doing
    charDat,    \* char_dat, the table in memory
    jdb,        \* journal.db: the chunk and the cached change of each key
    freeq,      \* unusedchunk_queue
    jmode,      \* the journal in memory: none, read (journal.mode 1) or write
    chunks,     \* the chunks of the journal file
    jfile,      \* the journal file: none, begun (no header in it yet), or ready
    txt,        \* the text file: what it holds, or nothing if it is not there
    todo,       \* the entries the flush has still to visit
    stamp,      \* time(NULL) of the last flush
    writes, crashes,
    possible    \* history: what each character may come back with

journalVars == <<jphase, charDat, jdb, freeq, jmode, chunks, jfile, todo, txt,
                 stamp, writes, crashes, possible>>

JPhases == {"running", "flush", "tmp", "removed", "renamed", "final", "closed", "down"}
Contents == 1..MaxWrites
Missing == <<>>                     \* the text file is not there
Torn == [key |-> NoChar]            \* a chunk whose crc32 does not fit
Chunk == [key : CharIds, val : Contents \cup {NoChar}, stamp : 0..MaxStamp]
NoEntry == [idx |-> 0, buf |-> Clean]
NoChars == [k \in CharIds |-> NoChar]

JournalTypeOK ==
    /\ jphase \in JPhases
    /\ charDat \in [CharIds -> Contents \cup {NoChar}]
    /\ jdb \in [CharIds -> [idx : Nat, buf : Contents \cup {NoChar, Clean}]]
    /\ freeq \in Seq(Nat \ {0})
    /\ jmode \in {"none", "read", "write"}
    /\ chunks \in Seq(Chunk \cup {Torn})
    /\ jfile \in {"none", "begun", "ready"}
    /\ todo \subseteq CharIds
    /\ txt \in [CharIds -> Contents \cup {NoChar}] \cup {Missing}
    /\ stamp \in 0..MaxStamp
    /\ writes \in 0..MaxWrites
    /\ crashes \in 0..MaxCrashes
    /\ possible \in [CharIds -> Seq(Contents \cup {NoChar})]

JournalInit ==
    /\ jphase = "running"
    /\ charDat = NoChars
    /\ jdb = [k \in CharIds |-> NoEntry]
    /\ freeq = <<>>
    /\ jmode = "write"
    /\ chunks = <<>>
    /\ jfile = "begun"
    /\ todo = {}
    /\ txt = NoChars
    /\ stamp = 0
    /\ writes = 0
    /\ crashes = 0
    /\ possible = [k \in CharIds |-> <<NoChar>>]

-----------------------------------------------------------------------------
(* Changes of the table                                                    *)

\* journal_write; when no journal is open it only prints a message.
JournalWrite(k, v) ==
    jdb' = IF jmode = "none" THEN jdb ELSE [jdb EXCEPT ![k].buf = v]

Change(k, v) ==
    /\ jphase = "running"
    /\ charDat' = [charDat EXCEPT ![k] = v]
    /\ JournalWrite(k, v)
    /\ possible' = [possible EXCEPT ![k] = Append(@, v)]
    /\ UNCHANGED <<jphase, freeq, jmode, chunks, jfile, todo, txt, stamp, crashes>>

\* char_txt_make and char_txt_save.
PutChar(k) ==
    /\ writes < MaxWrites
    /\ writes' = writes + 1
    /\ Change(k, writes + 1)

\* char_txt_delete_sub.
DeleteChar(k) ==
    /\ charDat[k] # NoChar
    /\ Change(k, NoChar)
    /\ UNCHANGED writes
-----------------------------------------------------------------------------
(* Flushing the cache                                                      *)

Dirty == {k \in CharIds : jdb[k].buf # Clean}

\* journal_flush begins: one time(NULL) for all the chunks it writes.
BeginFlush(next) ==
    /\ \E d \in StampSteps : stamp + d <= MaxStamp /\ stamp' = stamp + d
    /\ todo' = Dirty
    /\ jphase' = next
    /\ UNCHANGED <<charDat, jdb, freeq, jmode, chunks, jfile, txt, writes, crashes, possible>>

\* journal_flush_timer.
FlushTimer ==
    /\ jphase = "running"
    /\ jmode = "write"
    /\ BeginFlush("flush")

\* Where journal_flush_sub writes: a free chunk, or a new one at the end.
Place == IF freeq # <<>> THEN Head(freeq) ELSE Len(chunks) + 1

WriteChunk(c) ==
    /\ chunks' = IF Place > Len(chunks) THEN Append(chunks, c) ELSE [chunks EXCEPT ![Place] = c]
    /\ jfile' = "ready"

Taken == IF freeq # <<>> THEN Tail(freeq) ELSE freeq

\* Mutant: the chunk that was just written is freed, not the one before it.
FlushOneFreesNew(k) ==
    /\ jphase \in {"flush", "final"}
    /\ k \in todo
    /\ todo' = todo \ {k}
    /\ WriteChunk([key |-> k, val |-> jdb[k].buf, stamp |-> stamp])
    /\ jdb' = [jdb EXCEPT ![k] = [idx |-> Place, buf |-> Clean]]
    /\ freeq' = IF jdb[k].idx = 0 THEN Taken ELSE Append(Taken, Place)
    /\ UNCHANGED <<jphase, charDat, jmode, txt, stamp, writes, crashes, possible>>

\* journal_flush_sub for an entry with a cached change.  The chunk it had
\* before is free once the new one is written.
FlushOne(k) ==
    /\ jphase \in {"flush", "final"}
    /\ k \in todo
    /\ todo' = todo \ {k}
    /\ WriteChunk([key |-> k, val |-> jdb[k].buf, stamp |-> stamp])
    /\ jdb' = [jdb EXCEPT ![k] = [idx |-> Place, buf |-> Clean]]
    /\ freeq' = IF jdb[k].idx = 0 THEN Taken ELSE Append(Taken, jdb[k].idx)
    /\ UNCHANGED <<jphase, charDat, jmode, txt, stamp, writes, crashes, possible>>

\* The write fails: the entry keeps its change, and the new place.
FlushFails(k) ==
    /\ jphase = "flush"
    /\ k \in todo
    /\ crashes < MaxCrashes
    /\ crashes' = crashes + 1
    /\ todo' = todo \ {k}
    /\ WriteChunk(Torn)
    /\ jdb' = [jdb EXCEPT ![k].idx = Place]
    /\ freeq' = Taken
    /\ UNCHANGED <<jphase, charDat, jmode, txt, stamp, writes, possible>>

\* fflush.  Entries without a cached change are in the file with their last value.
FlushEnd ==
    /\ jphase = "flush"
    /\ todo = {}
    /\ jphase' = "running"
    /\ jfile' = "ready"
    /\ possible' = [k \in CharIds |->
                       IF k \in Dirty THEN possible[k] ELSE <<Last(possible[k])>>]
    /\ UNCHANGED <<charDat, jdb, freeq, jmode, chunks, todo, txt, stamp, writes, crashes>>

-----------------------------------------------------------------------------
(* char_txt_sync: the text file is written anew, and the journal with it   *)

\* lock_fopen and the lines of the table, in a file of another name.
SyncWrite ==
    /\ jphase = "running"
    /\ jphase' = "tmp"
    /\ UNCHANGED <<charDat, jdb, freeq, jmode, chunks, jfile, todo, txt, stamp,
                   writes, crashes, possible>>

\* The two halves of lock_fclose: remove, and rename.
SyncRemove ==
    /\ jphase = "tmp"
    /\ jphase' = "removed"
    /\ txt' = Missing
    /\ UNCHANGED <<charDat, jdb, freeq, jmode, chunks, jfile, todo, stamp,
                   writes, crashes, possible>>

SyncRename ==
    /\ jphase = "removed"
    /\ jphase' = "renamed"
    /\ txt' = charDat
    /\ UNCHANGED <<charDat, jdb, freeq, jmode, chunks, jfile, todo, stamp,
                   writes, crashes, possible>>

\* journal_final: a journal that was written is flushed and then removed; one
\* that was read, or none at all, is only closed.
FinalFlush ==
    /\ jphase = "renamed"
    /\ jmode = "write"
    /\ BeginFlush("final")

FinalUnlink ==
    /\ jphase = "final"
    /\ todo = {}
    /\ jphase' = "closed"
    /\ jfile' = "none"
    /\ chunks' = <<>>
    /\ UNCHANGED <<charDat, jdb, freeq, jmode, todo, txt, stamp, writes, crashes, possible>>

FinalClose ==
    /\ jphase = "renamed"
    /\ jmode # "write"
    /\ jphase' = "closed"
    /\ UNCHANGED <<charDat, jdb, freeq, jmode, chunks, jfile, todo, txt, stamp,
                   writes, crashes, possible>>

\* journal_create: an empty file, whose header waits for the first flush.
NewJournal ==
    /\ jdb' = [k \in CharIds |-> NoEntry]
    /\ freeq' = <<>>
    /\ jmode' = "write"
    /\ chunks' = <<>>
    /\ jfile' = "begun"
    /\ jphase' = "running"

JournalCreate ==
    /\ jphase = "closed"
    /\ NewJournal
    /\ possible' = [k \in CharIds |-> <<charDat[k]>>]
    /\ UNCHANGED <<charDat, todo, txt, stamp, writes, crashes>>

-----------------------------------------------------------------------------
(* Crash and start                                                         *)

\* The chunk journal_load keeps for k: one replaces another only if it is
\* later, so of two written in one second the first in the file stays.
ChunksOf(cs, k) == {i \in DOMAIN cs : cs[i].key = k}

\* Mutant: the first chunk in the file is kept, whenever it was written.
KeptFirst(cs, k) == CHOOSE i \in ChunksOf(cs, k) : \A j \in ChunksOf(cs, k) : i <= j

Kept(cs, k) == CHOOSE i \in ChunksOf(cs, k) : \A j \in ChunksOf(cs, k) :
                  cs[j].stamp < cs[i].stamp \/ (cs[j].stamp = cs[i].stamp /\ i <= j)

\* char_journal_rollforward over what is in the text file.
RolledForward(cs, table) ==
    [k \in CharIds |-> IF ChunksOf(cs, k) = {} THEN table[k] ELSE cs[Kept(cs, k)].val]

\* The process dies, perhaps within the write of a chunk.  Without a text file
\* the characters are gone, but the journal may bring some back at a later start.
Crash ==
    /\ jphase # "down"
    /\ crashes < MaxCrashes
    /\ crashes' = crashes + 1
    /\ jphase' = "down"
    /\ \/ UNCHANGED <<chunks, jfile>>
       \/ jphase \in {"flush", "final"} /\ todo # {} /\ WriteChunk(Torn)
    /\ charDat' = NoChars
    /\ jdb' = [k \in CharIds |-> NoEntry]
    /\ freeq' = <<>>
    /\ jmode' = "none"
    /\ todo' = {}
    /\ possible' = IF txt = Missing
                   THEN [k \in CharIds |-> <<RolledForward(chunks', NoChars)[k], NoChar>>]
                   ELSE [k \in CharIds |-> <<RolledForward(chunks', txt)[k]>>]
    /\ UNCHANGED <<txt, stamp, writes>>

\* char_txt_init without a text file: no journal is read, and none is opened.
StartWithoutFile ==
    /\ jphase = "down"
    /\ txt = Missing
    /\ jphase' = "running"
    /\ UNCHANGED <<charDat, jdb, freeq, jmode, chunks, jfile, todo, txt, stamp,
                   writes, crashes, possible>>

\* journal_load finds no file, or no chunk in it.
StartWithoutJournal ==
    /\ jphase = "down"
    /\ txt # Missing
    /\ jfile # "begun"
    /\ \A k \in CharIds : ChunksOf(chunks, k) = {}
    /\ charDat' = txt
    /\ NewJournal
    /\ UNCHANGED <<todo, txt, stamp, writes, crashes, possible>>

\* Mutant: the text file is taken as it is.
StartWithJournalUnread ==
    /\ jphase = "down"
    /\ txt # Missing
    /\ jfile = "ready"
    /\ \E k \in CharIds : ChunksOf(chunks, k) # {}
    /\ charDat' = txt
    /\ jmode' = "read"
    /\ jphase' = "tmp"
    /\ UNCHANGED <<jdb, freeq, chunks, jfile, todo, txt, stamp, writes, crashes, possible>>

\* journal_load and the roll-forward; char_txt_sync follows.
StartWithJournal ==
    /\ jphase = "down"
    /\ txt # Missing
    /\ jfile = "ready"
    /\ \E k \in CharIds : ChunksOf(chunks, k) # {}
    /\ charDat' = RolledForward(chunks, txt)
    /\ jmode' = "read"
    /\ jphase' = "tmp"
    /\ UNCHANGED <<jdb, freeq, chunks, jfile, todo, txt, stamp, writes, crashes, possible>>

\* A journal without a header: the server aborts at every start until the
\* operator removes the file, as doc/journal.txt says.
OperatorRemoves ==
    /\ jphase = "down"
    /\ txt # Missing
    /\ jfile = "begun"
    /\ jfile' = "none"
    /\ UNCHANGED <<jphase, charDat, jdb, freeq, jmode, chunks, todo, txt, stamp,
                   writes, crashes, possible>>

-----------------------------------------------------------------------------
JournalNext ==
    \/ \E k \in CharIds : PutChar(k) \/ DeleteChar(k) \/ FlushOne(k) \/ FlushFails(k)
    \/ FlushTimer \/ FlushEnd
    \/ SyncWrite \/ SyncRemove \/ SyncRename
    \/ FinalFlush \/ FinalUnlink \/ FinalClose \/ JournalCreate
    \/ Crash
    \/ StartWithoutFile \/ StartWithoutJournal \/ StartWithJournal \/ OperatorRemoves

JournalSpec == JournalInit /\ [][JournalNext]_journalVars

-----------------------------------------------------------------------------
\* The table in memory is what every handler reads: it never holds anything
\* but the newest value, after any number of crashes and starts.
TableIsNewest ==
    jphase # "down" => \A k \in CharIds : charDat[k] = Last(possible[k])

\* No chunk that holds the only copy of a flushed change is free.
OnlyCopyKept ==
    \A k \in CharIds : jdb[k].idx # 0 /\ jdb[k].buf = Clean /\ jphase # "closed" =>
        /\ jdb[k].idx \notin Range(freeq)
        /\ chunks[jdb[k].idx].key = k

\* Whatever the order of flushes, saves and crashes, the files keep the promise
\* of Store: a character comes back with a value that was not older than the
\* last one flushed or saved, and a crash during a start changes nothing.
CharStore == INSTANCE Store WITH
    Keys <- CharIds, Contents <- 1..MaxWrites, Gone <- NoChar,
    log <- possible, exposed <- (txt = Missing)

KeepsPromise == CharStore!StoreSpec

=============================================================================
