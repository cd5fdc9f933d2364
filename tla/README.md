# Models of the jAthena servers

jAthena is a game service made of three programs.  The *login server* checks
accounts, the *char server* keeps every character and everything that is shared
between map servers, and any number of *map servers* run the game.  Each is one
process with one event loop (`core.c`, `socket.c`, `timer.c`); they talk over TCP
connections, one packet after the other.  What can go wrong here is seldom inside
one handler.  It is between them: a request is answered when the session that asked
has gone, two servers hold a copy of one record, a link ends in the middle of a
hand-over.  These modules are about that.

## 1. The system

| component | source | state | operations | hard behaviour | what makes it correct |
|---|---|---|---|---|---|
| session hand-over | `char.c`, `chrif.c`, `clif.c`, `pc.c`, `map.c`, `unit.c` | ring of auth tickets, `char_online_db`, saved characters; per map server `session[]`, `id_db`, timers | login, select, connect, authenticate, save, change server, char select, quit, double login | answers that name an account only; saves overtaken by loads; link and process failures | one session per account and server, a character on one server, nothing is rolled back |
| kafra and guild storage | `storage.c`, `intif.c`, `int_storage.c` | two caches per map server, stored records | open, fetch, move, close, autosave, leave | cached copies that outlive their user, one storage for several users | no item is lost or doubled, one user of the guild's storage |
| trade, vending | `trade.c`, `vending.c`, `pc.c` | `trade_partner`, `deal_*` of two sessions; the vendor's list and cart | request, answer, offer, lock, commit, cancel; open, list, buy | partner pointers that are not symmetric, offers that stay behind; two buyers and the vendor change one cart | items and zeny are conserved; what was shown is what is exchanged; paid is delivered |
| journal, save files | `journal.c`, `lock.c`, `char.c` | records in memory, in chunks of a file and in a text file | write, flush, delete, final, load, roll forward | a crash between two writes; chunks that are used again | the newest flushed record is recovered |
| guilds | `int_guild.c`, `guild.c`, `intif.c` | the char server's record and a copy per map server; the guild of each session | create, invite, join, leave, expel, break, log in, leave a server | copies updated at different times | the copies agree once the links are empty; who believes in a guild is in it |
| timers | `timer.c` | sorted array, slots, free list | add, delete, move, run, time to sleep | wrap of the tick, reuse of numbers, callbacks that set timers | in order, once, and not after deletion |
| db | `db.c` | search trees, lock count, deferred frees | insert, erase, search, foreach | changes during a walk | a walk meets each entry that stays |
| block lists | `map.c` | a list per cell, the collected blocks of the walks under way, the queue of late frees, `object[]` | add, remove, move, foreach, lock, unlock, free, drop, pick up | a walk whose function moves, frees and walks again; a queue that is full | no block in use is freed; the lists are sound |
| thinking monsters | `mob.c`, `unit.c`, `map.c` | a count per monster, a linked list, `mob_ai_hard_buf` | appear, walk, be pushed, warp, die, think | counts kept by differences by everybody who moves | a monster thinks if and only if somebody is near |
| walking, attacking, casting | `unit.c`, `skill.c`, `pc.c`, `mob.c` | the timers a unit holds (`walktimer`, `attacktimer`, `skilltimer`), its path, the skill that is cast, its speed | walk, attack, cast, cancel, be hurt, warp, die, revive, leave, appear | a unit is stopped, warped or killed in the middle of its own timers; a number that outlives its timer | each number held is that of a timer that is set, and nothing else is set |
| mail | `int_mail.c`, `mail.c` | the letter being written, the file of each character's mails, the index of their number | attach, send, open, read, fetch, delete, sync, start | what is attached changes hands before the letter goes; file and index are written apart; a crash between them | a letter takes with it what left its sender; the index counts the file |
| parties, friends | `int_party.c`, `party.c`, `friend.c` | as guilds | as guilds | as guilds; an account in two parties | the copies agree once the links are empty |
| sockets | `socket.c` | fifos, `session[]` | receive, send, accept, delete | a descriptor that is reused | bytes arrive in order; nobody uses a freed session |
| login | `login.c` | accounts, auth ring | authenticate, confirm, ban | a ring at its limit; two logins of one account | a ticket is used once |

The rest (battle, the effects of skills, scripts, packet layout, path finding, the http server,
converters) are game rules, parsing and I/O; section 6 and `PROJECT.json` name them with
the reason they are left out.

### How they interact

    client --- map server ---(FIFO link)--- char server --- login server
                 |  sessions, id_db            |  tickets, online table, records
                 |  caches of records          |  journal and save files

A map server sends requests and saves to the char server on one connection, and the
char server handles them in order: a save that was sent before a request is stored
before the request is answered.  This order *per link* is what most of the design
rests on; there is none *between* links.  A session of a map server is removed at
once when its client goes, and answers that are under way then find another session
or none.

## 2. Modules

### CharSession

One module for the hand-over of a character, because its parts cannot be told apart:
the tickets of the char server only mean something with the sessions they admit.

| variable | code |
|---|---|
| `fifo`, `fifoPos` | `auth_fifo[AUTH_FIFO_SIZE]`, `auth_fifo_pos` (`char.c`) |
| `online` | `char_online_db` |
| `saved` | the stored `mmo_charstatus`, reduced to a count of changes and the map server that owns the saved map |
| `toChar`, `toMap`, `link` | the connection of each map server to the char server |
| `sess` | `session[fd]` with its `map_session_data`: `state.auth`, `state.waitingdisconnect`, `new_fd`, `login_id1`, `status` |
| `idDb`, `waitclose` | `id_db`, the descriptors of pending `clif_waitclose` timers |
| `client` | what the client of each login does; external |

Each action is one handler: `RecvAuth` .. `RecvQuit` are the cases of
`parse_frommap`, `AuthOk` .. `MoveOk` those of `chrif_parse`, `Select` is packet 0x66
of `parse_char` and `Connect` `clif_parse_WantToConnection`.  `AuthOk` stands for the
whole of `pc_authok`, up to the disconnection of both sides of a double login and the
hand-on to the server that owns the character's map.  Failures are actions too: a
link that ends (both ends notice at once), a map server that dies, a char server that
is restarted in order.

Abstractions: `default_map_type` is 0, as configured; the address check of a ticket is
compiled out (`CMP_AUTHFIFO_*`); creating and deleting characters, the change of sex,
the broadcasts of names (0x2b09, 0x2b17) and the check for an active map server are
left out; the char server stores a save when it handles it, and its files are another
component.

### Storage

The two storage caches of a map server and the records behind them.  One kind of item,
so an inventory is a number; one guild.  `flag` is `state.storage_flag`, an entry of
`stor` and `gstor` is present or not, open or not (`storage_status`) and holds a number
of pieces.  The order of messages on a link is kept exactly: leaving sends the storage
and then the character, the autosave the character and then the storages.

Of logging in only what matters to storages is left: a session is new, loading a map, on
a map, parked (handed on, its connection still open) or gone.  `RecvAuth` waits for
saves of the account on other links; that is what `PlayingIsNewest` shows in
CharSession, where the order comes from the tickets.  A refusal for weight, a full
storage or a bad index changes nothing and is not a step.  Carts use the same functions
as the inventory.

### Store, Journal

`Store` says what a store of the char server promises: a record that is written may come
back after a crash with its last promised value or any value written since, and once
something is promised nothing older comes back.  Only while there is no save file at all
(`exposed`) can more be lost.

`Journal` is the code that keeps the promise for characters.  `charDat` is `char_dat`,
`jdb`/`freeq`/`jmode` are `journal.db`, `unusedchunk_queue` and `journal.mode`, `chunks`
and `jfile` the journal file with its header, `txt` the text file, `stamp` the
`time(NULL)` of the last flush.  `Write`, `Erase` and the flush are `journal_write` and
`journal_flush_timer`, one chunk per step, because a crash may come between two chunks;
`lock_fclose` is three steps (the temporary file is closed, the old file removed, the new
one renamed).  The start reads the text file, and then the journal with the comparison of
seconds in `journal_load`.  A chunk whose `crc32` does not fit is `Torn`.  The refinement:
`log[k]` is a history of what record `k` may come back with (`possible`), `exposed` is
`txt = Missing`.

### Market

Trade and vending in one module, because they meet: a vendor must not trade, and both
move pieces and zeny between the same inventories.  `partner`, `dealMode`, `dealLocked`,
`dealItem`, `dealZeny`, `vender`, `vending` are the fields of `map_session_data`; `ui`,
`shown` and `saw` are what the client's windows show.  The actions are the handlers of
`trade.c` and `vending.c` with the checks of `clif.c` and of `pc_additem` behind them,
the cart's moves, and `chance`: a gain, an expense or a change of place that comes in
between.  Clients are honest: they send what their windows let them send.  The fields
that packets carry are bounded by them; what the server does with other packets is not
the subject.  A player may ask for a second trade while a request of its own is open, or while
it is being asked: `trade_traderequest` looks at the target's `trade_partner` only
(`trade.c:44`), and the change log says that this is meant (`Readme:7230`).  The request that
is left behind can still be answered, by a player who then names a partner that does not name it
back.  `again` is a history of who has asked in this way; `TradeCommit` and `TradeOk` have the
cases that only this leads to.  `PartnersAgree`, `VendorNotTrading` and `GivenIfCarried` say that
it does no harm to anybody else's trades; of those who asked again themselves they do not hold: one asks
two players, is refused by the first, opens a stall, and is in a trade as soon as the second accepts.
Conservation (`PiecesKept`, `NoZenyMade`, `PaidIsDelivered`) makes no such exception.

`PiecesKept` has an exception, `BothCanCarry`.  `trade_check` counts the offers on two
copies of the inventories and looks at no weight, while the trade itself hands each piece
to `pc_additem`, which refuses what is too heavy, and goes on.  With a stack that is
offered twice the refused piece and the second offer of it do not fit together any more,
and pieces come from nothing: that is the run `doubled`, which an attempt to prove the
property without the exception found.

### Guild

The char server's record of each guild, the copy of each map server and the `guild_id` of
each session.  A packet to all map servers is put on each link in one step, as
`mapif_sendall` does.  Two packets of one answer (`added` and the several kilobytes of
`info`) may be read in different rounds of the event loop, which is what `guildrace`
needs.  Positions, skills, alliances, experience and castles are left out, and of the
notices only those that change who is in a guild.

`given` are the numbers below `guild_newid`: a founder gets one that no guild ever had.
The line of the save file that would keep `guild_newid` over a restart is commented out
(`int_guild.c:444`), so a restart may give a number again; a restart of the char server is
not an action here.

### Mail

`mail.c` and `int_mail.c`.  `draft` is what is attached to the letter being written
(`mail_zeny`, `mail_item`, `mail_amount`), `mailDb` the index with its number of mails and
the last number given, `mailTxt` the copy of it in `mail.txt`, `mailFile` the file of a
character's mails, `posts` and `parcels` what is under way.  `SaveMail` writes the entry
after the last one too, as `mail_save_mail` does, if the callers' array happens to hold
something there.  The body of a mail, its date and the notice of new mail are left out, and
the map servers are one, as nothing in them depends on which of them it is.

### Agenda, Timer

`Agenda` says what timers promise.  Each function is called once for every time its timer
was set, not early, in the order of the instants and one at a time; a timer is moved or
forgotten only by a call of the user that has its number; one that repeats keeps its beat,
unless it is more than a second late; and the program does not sleep while one is due.
`Timer` is `timer.c` whole: slots with a tick, a function and a type, the array sorted
by `DIFF_TICK`, the list of free slots, `do_timer` with its callbacks that add, move and
delete timers, the interval that is added to the nominal tick unless it is a second late,
and the time it returns to sleep.  The tick has `Ticks` values instead of 2^32 and
wraps within the instance.  The refinement maps a user's timer to the instant its slot
means, if its slot is live, what a user holds to the numbers it has kept, and who runs to
the user of the slot whose function is called.  So a timer that goes missing, is called
before its time or out of turn, or moves by itself is no step of `Agenda`: a cancellation
needs a user that gives up its number, a move one that asks for it, and a call one that is due.
In the first `Wrap` ticks after the counter has wrapped nothing is promised about the order
(`Blurred`), because `top_timer_heap` then takes entries from the wrong end, and a beat that
goes on there is counted from an instant in between, as the tick it took is set to 0.
The users keep the discipline of the server's code: a number
is forgotten when the timer runs or is deleted, and `delete_timer` names the function.  Nothing
is called when a deleted timer is taken out of the array.

### Db

The red-black tree of `db.c` with `db_rebalance`, `db_rebalance_erase`, the marks of
entries erased during a walk and their later removal, and `db_foreach` with its stack,
whose function may insert, erase, search and walk again.

### Blocks

The block lists of `map.c`: `links` is the head and count of each list and `prev`/`next`
of each block, `frames` the `map_foreachinarea` calls under way with their place in
`bl_list`, `queue` and `lock` `block_free` and its lock count, `object`, `firstFree`,
`lastId` the temporary objects.  A cell is a square of `BLOCK_SIZE`.  The functions that
are walked with may move, remove, free and add blocks and walk again, and a few of the
code's skip an unlock (`MaxForgotten`).

### MobAi

Which monsters think: `ai_pc_count` of each, the list through `ai_next` and `ai_prev`,
and `mob_ai_hard`, which copies the list and goes through it in pieces.  The actions are
everyone who changes a position: appearing, walking (`unit_walktoxy_timer` with its two
strips of `map_foreachinmovearea`), `unit_movepos`, warps, leaving, dying, respawning.
`EveryMobThinks` is a history of who stayed on the list without a turn.

### Unit

`ud` is `struct unit_data` with what of the session or the monster goes with it, `clock`
the timers that are set.  A timer's number is the unit, the function and a count, so a
number is used again for the same unit and function only.  Handlers call each other, so an
operator takes a state and gives one, or the set of those it may come to, and an action ends in
`Becomes`.  `Tidy` forgets what is set anew before it is looked at again.

Left out: where a unit stands (`MobAi` and `Blocks` have that), so whether a target is in
reach, a path exists or a cell warps is a choice; the two halves of a step, and whether an
attack was to go on; what makes a skill fail; the slaves, the speed commands and ensembles.
Due timers fire in any order.  The monsters are those that come back to life.  A monster
may walk while it casts (`mob.c:1062`), so `StandsWhileCasting` is about players, and
neither `clif_parse_WalkToXY` nor `unit_attack` looks whether the player is between two
maps, so a player may begin to walk there.

### MC modules

`MCCharSession`, `MCStorage` and `MCMarket` declare the model values, first states and
symmetry sets; each `.cfg` picks an instance.  `MCParts` and `MCEngine` put several modules that share no
state into one instance each: a behaviour is one of one part, and the others stay at
their start.  `Storage` is in `MCParts` twice more, as an INSTANCE for the members of a guild
who share its storage, and so is `Market`, for players who ask for a trade twice.  That is their sum and not their product, so each part is explored exactly
as on its own.  TLC counts the steps of a sum under the sum's next-state relation and not
under each part's actions; which of them are taken was read from its coverage by
expression (section 3).

### Modules of theorems

`CharSessionProofs`, `JournalProofs`, `GuildProofs`, `BlocksProofs` and `StorageProofs` extend
the module they are about (section 4), `GoodsProofs` extends `Market` and `Mail`, by which
players hand each other pieces and zeny, and `EngineProofs` extends `MobAi` and `Unit`, which are
about what players and monsters do on a map.  `Sums` has the lemmas about sums and least elements
of finite sets that conservation and counting need.

## 3. Runs

Passing runs:

| run | instance | shows |
|---|---|---|
| `player` | 1 client, 2 map servers, 1 failure, plays, moves, char select, leaves, logs in again | `TypeOK`; `PlayingIsNewest`: nobody stores a newer state behind a session's back; `NeverRolledBack`: the stored character never goes back; `OnlineOnLinked` |
| `double` | 2 clients of one character, 2 map servers, 1 request of an account under way on a server | `CharOnOneServer`; `OneSession`: never two authenticated sessions of an account on a server |
| `kick` | 1 client that logs in twice, 2 characters homed on different map servers, 2 requests under way, with fairness | `PlaysItsChoice`: whichever session an answer reaches, who is in play has the character its client chose or is about to be cut off; `KickedIsClosed` |
| `parts` | the seven parts below | `PartsTypeOK`, the type invariant of the part |
| &nbsp;&nbsp;journal | 2 characters, 2 changes, 3 seconds, 2 crashes or failed writes | `TableIsNewest`: the table in memory holds the newest value; `OnlyCopyKept`: an entry whose flushed value is the only copy keeps its chunk; `KeepsPromise`: Journal implements Store |
| &nbsp;&nbsp;market | 3 players, one of them with a cart, 2 places, 2 prices; one request and two gains, expenses or moves in between, two requests with stalls (`crossing`), or two requests and one thing in between (`trading`) | `PiecesKept`: no step makes or destroys a piece, but a trade with somebody who can no longer carry it; `NoZenyMade`; `PartnersAgree`, `VendorNotTrading`: whoever asks again while a request is open spoils no trade or stall but its own; `GivenIfCarried`: a trade of others exchanges what both windows showed if both could carry it; `PaidIsDelivered` |
| &nbsp;&nbsp;guild | 2 guilds, 2 players, 2 map servers | `CopiesAgree` when nothing is under way; `NoFalseMember`: nobody believes in a guild that does not list it, unless it is about to hear so |
| &nbsp;&nbsp;mail | 2 characters, a letter with 1 piece and 1 zeny, 2 requests, 1 crash of the char server | `LettersPaid`: no step of the players makes or loses what is attached |
| &nbsp;&nbsp;storage | 1 player, 2 map servers, own storage, 1 failure | `NoItemLost`: no step but a fault changes the sum of inventories, caches, messages and records |
| &nbsp;&nbsp;shared | 2 members of a guild on 1 map server, one of whom also opens the own storage | `NoItemLost`; `GuildStorageOneUser`: never two users of the guild's storage |
| &nbsp;&nbsp;expelled | 2 members on 1 map server, one of whom may be expelled | `NoItemLost`, `GuildStorageOneUser` |
| `engine` | the five pieces below | `EngineTypeOK`, the type invariant of the piece |
| &nbsp;&nbsp;timer | 2 users of one function and the server's own repeating timer, 64 ticks from 60 on | `EachSlotOnce`: each slot is in the array once or in the free list once; `KeepsAgenda`: Timer implements Agenda |
| &nbsp;&nbsp;db | 7 keys, two of them changed during walks, 2 nested walks | `RedBlack`; `SearchFinds`: found if and only if put in and not erased; `WalkSeesAll`: an outer walk calls its function for each entry that stays |
| &nbsp;&nbsp;blocks | 1 player, 1 monster, 2 things, 2 cells, walks in walks | `ListsSound`; `NotFreedInUse`: no walk holds a freed block; `ObjectsFound`: the bounds cover each object; `ForeachMeetsAll` |
| &nbsp;&nbsp;mobai | 2 characters, 2 monsters on a lane whose ends do not see each other | `AiKnowsWhoIsNear`: count and list are what the positions say; `EveryMobThinks` |
| &nbsp;&nbsp;unit | 1 player, 1 monster, paths of 1 and 3 steps, 2 speeds, 1 level of SA_FREECAST, 1 further life | `TimersMatch`: what a unit holds is set, and nothing else; `CastersOnMap`; `StandsWhileCasting`; `SpeedMatches`: slow only while casting, by the level it has now |

Runs that end in a counterexample, each a sentence of the repository the code does not keep:

| run | property | what happens |
|---|---|---|
| `twoservers` | `AccountOnOneServer` (`char.c:2954`) | the online table is filled when 0x2afc is handled; two client programs of an account pass the select screen before either request is, and both play, on different servers |
| `stuck` | `GuildNotStuck` (`Readme:3288`) | own and guild storage asked for at once: the guild's stays marked in use with no user |
| `lost` | `ItemsKept` (`Readme:2840`) | a storage arrives for a session already handed on, stays cached there and is used when the player returns |
| `rollback` | `KeepsPromise` (`journal.txt:13`) | two flushes of a key within one second: the one that comes first in the file wins, and that may be the older |
| `doubled` | `NothingFromNothing` (`trade.c:371`, `trade.c:147`) | a stack is offered twice, and its owner finds something before the commit: the check counts a piece that is then refused for its weight |
| `mail` | `StoreCounts` (`int_mail.c:3`) | after a mail is deleted its owner's file has one line more than the index counts |
| `guildrace` | `MembersKnow` (`guild.c:666`) | a new member is told before the guild's new record has arrived; somebody else's arrival checks all members against the old copy, and the new one forgets the guild that goes on listing it |

### Bounds

Named in the modules and listed at the CONSTANTS: `MaxQueue` stops *new* messages on a
link (a handler in progress always sends everything it has to), `MaxPending` the
unanswered auth requests per account and server, `MaxVer` the changes to a character,
`MaxFaults` the failures; `Restarters`, `Quitters`, `Patient`, `Eager`, `Hasty`,
`Expelled` and `Owners` say who takes which optional step.  Two servers have every
race between the server a player leaves and the one it enters; two
clients have the two sides of a double login, with a ring of two tickets, which hand-overs
fill again before a login has used its own.  They are not enough for everything: what a third
server or a third login of one client adds is among the limits below.

* Journal: two characters share the chunks and may be flushed in either order, and two
  changes to one leave an old chunk that is used again by the other; a second crash meets
  what the recovery from the first one wrote.
* Market: three players, because a request to one may cross a request to another, or leave it
  behind, for which two requests are enough.  Two requests, stalls and gains all together make the
  run several times longer and TLC found nothing in it; nor is it left open, as GoodsProofs proves all these properties
  for any bounds.  Two
  prices, so that a stall is opened again at another price than the one a buyer saw.  One of
  them strong enough for all pieces and two not, so that a gain in between makes a commit
  fail; `MAX_DEAL_ITEMS` is 2 and `MaxZeny` 2, so both caps are met.
* Guild: the second player may found its own guild, be invited, join, be expelled and
  leave; trips take members from one map server to the other while notices are under way.
* Mail: a letter, then what is asked for it twice, so that it is fetched or deleted again; a
  crash with an index that is older than the file.
* Storage: two servers for the player who travels; for the guild's storage one server, where
  the mark of its user is kept, and two members who ask for it in any order.  A piece is
  carried and another is stored, or one is in the guild's storage, so each way an item moves
  is taken.
* `doubled`: two players, a stack of two, one gain in between.
* Timer: seven instants from tick 60 of 64 cross the wrap; a nap of 5 leaves the repeating timer
  later than `Late`, so that it begins a new beat, and one of 4 late enough to be due again at once.
* Db: seven keys give trees of three levels, in which every case of the two rebalancings
  is met; a walk starts from every tree that any order of insertions and erasures leaves.
* Blocks: `MaxFree` 1 makes the queue of late frees full at the second one, `MaxList` 3
  cuts off a walk, one forgotten unlock leaves the lock above zero.
* Unit: a path of a step ends in the step it begins with, one of three lets a monster think
  again under way; the second life meets the timers of the first.
* MobAi: `Sight` 1 on a bent lane of six squares gives each way in and out of sight.

What the sums do not reach, by TLC's coverage: in `parts` breaking a guild that has just
become empty, and a purchase of more than the cart holds (`ListInCart` proves that there is none); in `engine` a drop with no free object id and a number put back twice in the timers' free list.

Some limits are part of what the runs say.

* `CharOnOneServer`, `PlayingIsNewest` and `NeverRolledBack` are checked with `MaxPending = 1`, and do
  not hold with 2: `clif_parse_WantToConnection` asks for a second connection before the first one's
  request is answered, and the answers name the account only.  A client connects, goes and connects
  again; the first answer lets the second session in, which changes server; the second answer
  reaches it there and puts it back into play with what it had.  `PlaysItsChoice` is what remains then,
  and `OneSession`, which is proved for any number of requests.
* `AccountOnOneServer` also fails with one client and a ring of one ticket, by another way: a
  0x2b18 that was under way when the account came online elsewhere erases the newer entry
  (`char.c:2630`).
* `CharOnOneServer` is about two map servers.  With three, TLC finds two sessions of one
  character in play after 34 steps: a client goes from the first server to the second and to the
  third; another uses a ticket that was left for the first, is sent on from there to the second, and
  the state it saves on its way (`pc_setpos` stores what `pc_authok` was given) puts the
  character's map back to the second, which lets it play.
* `NeverRolledBack` is about two logins of a client.  With three logins to two servers, and no
  failure, a session that was sent on with an old state stores it after the third login has
  played (36 steps); a late 0x2b18 has by then taken the account out of the online table.
* `PlayingIsNewest` has the same bound.  With three logins and a link that is down while a
  player is handed on, a session plays with an older state than the one stored.
* With a player outside `Patient`, inside `Eager` or inside `Hasty` `NoItemLost` does not
  hold of a player who travels: `lost` shows the first; a player who asks twice has the open
  storage overwritten by the second answer (`intif.c:856`); a close packet with no storage open
  caches an empty one (`storage.c:326`), which the next autosave stores.  Nor does it with a guild
  spread over two map servers, each of which caches the guild's storage until its link
  ends.
* `OnlineOnLinked` does not say that who is online is in play.  A client that vanishes between
  0x2afc and its answer leaves the account in the online table (`char.c:2414`): 0x2b18 is sent
  for authenticated sessions only (`clif.c:11092`), and the next login is asked to wait for a
  session that is not there.
* With `0 \in StampSteps` `KeepsPromise` does not hold: that is `rollback`.
* `MembersKnow` does not hold at all (`guildrace`); `CopiesAgree` and `NoFalseMember` are
  what remains.
* When the queue of late frees is full a block is not freed at all (`map.c:120`): it is
  lost, but nothing in use is freed.
* A walk of a table whose function puts in a new key is `grown`: the tree may turn under
  it, and it may miss entries or meet some twice.  `WalkSeesAll` is about the others.

### Fairness

Only `KickedIsClosed` needs it: weak fairness of each map server's and of the char
server's packet loop and of the five-second close timer.  All three are driven by
`do_sendrecv`, `do_parsepacket` and `do_timer` in one loop that never blocks for more
than the next timer, so an enabled handler is run.  Nothing is assumed of clients, and
links may stay down.

No deadlock is checked (`CHECK_DEADLOCK FALSE`): clients may stop, and the
bounds end every behaviour.

## 4. Proofs

Seven modules prove theorems for any sets of servers, players, characters and accounts and any
size of the rings, queues and bounds.  They assume what the modules' `ASSUME`s say (the sets of
people are finite, the marks for nobody are outside them, the bounds are naturals), which TLC
evaluates in the runs.  Where a theorem needs more, its statement says so, and a
run, or one of the limits above, shows what happens without it.

### CharSessionProofs

`TypeCorrect`, `OneSessionHolds` and `OnlineOnLinkedHolds` follow from `Invariance`.
`OneSession` is not inductive.  Whether a session may be authenticated depends on what
`id_db` names, so `IInv` adds `EntryIsOpen`: an entry names an open session of the
account that was not refused as a second connection.  `OnlineOnLinked` needs
`DownIsEmpty`: a request read from a link proves the link is up.  The proof goes handler
by handler; the effect on each part of the state (tickets, links, sessions, clients) is a
lemma of its own.

`PlaysItsChoiceHolds` is unconditional too, whatever `MaxPending` is.  It needs `IInv`, which says
that an answer reaches an open session, and is itself inductive: a step lets a session in with the
character that was compared, marks it to be closed, or leaves both alone (`KeepsChoice`), and
a marked descriptor stays marked until its session is closed.

### JournalProofs

* `JournalInvariance`, `JournalTypeCorrect`, `TableIsNewestHolds`, `OnlyCopyKeptHolds`:
  unconditional.  `JournalInv` adds `EntriesApart` (the chunks of two entries, and those in
  the queue of free ones, are different: without it a flush could write over an entry),
  `CachedIsTable` (a cached change is the table's value), `PhasesFit` (each phase of a save and
  of a start has the files it must have), `DownIsLast` and `TableIsNewest` itself.
* `FilesInvariance` and `JournalRefinesStore`, from `0 \notin StampSteps`: no two flushes within a
  second.  `FilesInv` says that the latest chunk of every character stays until a later one is
  written (`LatestKept`), that chunks were written in seconds that have passed (`WrittenBefore`),
  and that what the files would give at a start is a value the character may come back
  with (`Recoverable`).  The refinement goes step by step: a flush is `Store`'s promise, a crash
  its crash, and the three steps of `lock_fclose` expose or protect the text file.  Without
  the hypothesis the statement is false: that is `rollback`.

### GoodsProofs: Market and Mail

* `MarketTypeCorrect`, from `MarketInv`: the types, `NotOneself` (nobody trades with
  oneself) and `ListInCart` (what is for sale is in the cart).
* `PiecesKeptHolds`, `NoZenyMadeHolds`: conservation, for any number of players.  The sum
  over all players changes by what two of them change; `Sums` shows that from the
  definition of `MapThenSumSet`, by taking a smallest set for which it fails.
* `PaidIsDeliveredHolds`: however old the list the buyer saw is.
* `DealsInvariance`, `PartnersAgreeHolds`, `VendorNotTradingHolds`, `GivenIfCarriedHolds`,
  unconditional: anybody may ask for another trade while a request is open.  They speak of the
  players who have not done so, `Others == Traders \ again`, whoever they deal with.  `Deals` is
  `Mutual` (whoever names one of the others as its partner is that player's partner), `Idle` (who
  is in no trade offers nothing), `Waits` (one of the others is in no trade before its partner has
  answered), `Windows` (a window is open only in a trade), `Shows` (each window shows what the
  other side offers; `GivenIfCarried` needs it, as the trade looks at the offer and not at the
  window) and `Away` (who has a stall is in no trade).  `Mutual` is one-sided: a player who asked again
  may be named by several.
* `MailTypeCorrect` and `LettersArePaid`, unconditional.  The type invariant is inductive as it
  stands, but not trivially: that a purse stays a natural number needs that
  `mail_checkappend` compares again what was attached with what is there (`AppendedTypes`), and
  that the index of a mail file does, that a file from which a mail is deleted had one.  Conservation
  is a sum over the players and one over the requests under way, which get longer: `SumWithout`
  takes the last one away in whatever order the fold goes.

### GuildProofs

`GuildTypeCorrect`, `CopiesAgreeHolds` and `NoFalseMemberHolds` follow from `GuildInvariance`,
unconditionally.  The two properties speak of a moment at which nothing is under way, so the
invariant has to say what the messages under way will do.  `GuildInv` is

* `Agreeing`: once everything on a server's link is read, its copy of a guild is the record,
  or it has none;
* `Unborn` and `RosterGiven`: nobody has heard of a number that was never given, so a new
  guild starts with a clean slate;
* `Forgetting`: of whom a copy, or a notice under way, takes for a member of a guild that
  does not list it, a later notice on the same link tells;
* `BreaksTrue`: a notice of a guild's end is about a guild that has ended;
* `SessionsOK`: at most one login and one save of a player is under way, and only at the stage
  of its session that sends it;
* `NobodyMisled`: a player who takes itself for a member wrongly will be told so, or its server
  will hear of the guild and check, or it is checked when its map is loaded.

Each of the many handlers is first shown to be one of few normal forms, something posted to all
links (*Posting*) or one notice read by one server (*Reading*); the invariant is then proved
for the forms.  That a session keeps its guild's number while the guild's record is replaced by
others on the links is where the proof is hard, and where `MembersKnow`, its converse, fails
(`guildrace`).

### EngineProofs: MobAi and Unit

`MobAiTypeCorrect`, `AiKnowsWhoIsNearHolds` and `EveryMobThinksHolds` follow from `MobAiInvariance`, on a
map of any size and with any walls, for any sight and for any characters and monsters.
`MobAiInv` is

* `Stand`: a monster on the map is in `id_db`;
* `CountsAre`: each monster's count is the number of characters it sees (`Sees`, a set, found
  from the positions), and there are places on the list (`Queued`), counted from its end as in
  BlocksProofs, for those whose count is not 0 and for nobody else;
* `OnList` and `Waits`: a monster that has not had its turn has somebody near, and is in the
  rest of the buffer while `mob_ai_hard` goes through it, and among the ids left over otherwise.

`AiKnowsWhoIsNear` describes the list by a walk from its head, which a step that adds or takes away a
monster changes everywhere; by the places it changes around one monster, and the walk is found
again from them (`CreateListIs`, `CountsKnow`).  The proof has three parts.  The first is geometry: what `map_foreachinmovearea` visits is what the square
around the old position has and the one around the new has not (`StripIs`), for a step
in any of the eight directions and a push of up to `MaxJump`.  Sight is the same in both ways, so
what a character gains or loses in passing is what each monster gains or loses of it.  The second
are the folds: a foreach calls `Comes` or `Goes` for whoever it meets, in whatever order, and
each monster counts as many as it is told of (`RunKeeps`, by a smallest set for which it would
fail).  The third is `mob_ai_hard`: `createlist` finds every monster on the list once
(`ListHas`), and a monster taken off it by another's turn need not be heard.  That `MaxJump` is at
most the width of the sight is an assumption on the constants: `unit_movepos` goes as far as a
path of `MAX_WALKPATH` steps, 32, and the sight is 57 squares wide; a warp goes further, and
does not use strips.

`UnitTypeCorrect`, `TimersMatchHolds`, `CastersOnMapHolds`, `StandsWhileCastingHolds` and
`SpeedMatchesHolds` follow from `UnitInvariance`: `UnitInv` is `Sound` of the present state, and
`Sound` is, for every unit,

* `Held` and `Owned`: the timer whose number a slot holds is set, is of the slot's function and of
  this life, and no other timer of this life is set; a walk's timer is that of the step
  the unit is at;
* `FewOld`: of each function there are no more timers of earlier lives than lives have ended, so
  that a number for a new timer can always be found;
* `Parted`: who has left holds no timer;
* `Calm`: who casts is on the map and alive, its timer is that of its spell, and a player who casts
  stands, or has `SA_FREECAST` and is slow by its level of now.

The handlers are operators from states to states, or to sets of them, and call each other
in the middle of their work, so the proof has a lemma per operator and not per action: it takes
a sound state to sound states and leaves alone what its caller will still use
(*Good*, *AllWalk* and *AllHere* say what: that who was there still is, that nobody began
to cast).  In between a handler `Calm` may fail, as in `BeginCast`, where the timer is
set before the player stops or slows down; there the lemmas keep the weaker `Timed`.
`MaxFreeCast` is at most `MAX_SKILL_LEVEL`: from level 35 on `Slow` would give a speed
below nought.  SANY and tlapm do not bracket `UNION S \cup T` alike; every such term has
its parentheses, so TLC and the prover read the same formula.

### BlocksProofs

`BlocksTypeCorrect`, `ListsSoundHolds`, `NotFreedInUseHolds`, `ObjectsFoundHolds` and
`ForeachMeetsAllHolds` follow from `BlocksInvariance`, for any blocks, cells, sizes of the arrays
and depth of nesting.  `BlocksInv` is

* `Rows`: there is a number for each block on a list, its place counted from the end, and `prev`,
  `next`, heads and counts are those of the neighbours by number.  The numbers are in no variable.
  Counted from the end, a block put in front leaves the others' alone, and one taken out moves
  those before it down by one; the list and its walk (`Chain`) follow from them;
* `Placed`: who is in a list is live, and a thing on the floor is in a list.  Every foreach finds
  only live blocks for that reason;
* `QueueDies`: what waits in `block_free` is dead already, so freeing the queue takes
  nobody from a list;
* `Objects`: `ObjectsFound`, and no thing has two ids (`IdsOnce`);
* `Walks`: there are no more foreachs than `block_free_lock` says, their segments of `bl_list` are
  next to each other (`Nested`), a block still to be looked at is not freed (`NotFreedInUse`),
  and one that stays is in a segment once and has been met if it is behind
  (`MetOnce`).  The last needs that a walk finds no block twice, though it joins the lists of
  many cells: lemmas on `FlattenSeq`.

The proof needs `NullBl # ListHead`: a block whose `prev` is `&bl_head` is on a list, one whose `prev` is
`NULL` on none.

### StorageProofs

`StorageTypeCorrect` and `GuildOneUserHolds`, for any number of map servers and link failures, also
with the players of `Eager` and `Hasty`; the run checks the latter as `GuildStorageOneUser`.
`GuildOneUser` is not inductive: the answer to a request sets a player's `storage_flag` without a look
at anybody else.  `OneUserInv` adds, for each map server,

* a request for the guild's storage and its answer are one at a time, on the link or on the way
  back, and while there is one the storage is marked open and nobody uses it: so nobody
  can shut it, as only its user does, and no second request starts;
* who uses it has it open, so the one who opens it finds nobody there;
* `storage_flag` is set for players in play only, so that the guild a player gets as it logs in
  (`AuthOk`) does not make it a user.

The invariant needs no hypothesis, unlike `GuildNotStuck` (`stuck`): that the storage is marked
open with no user keeps others out, but never lets two in.

### Only model-checked

* `CharOnOneServer`, `PlayingIsNewest` and `NeverRolledBack`: they hold within the limits of
  section 3 only (one request at a time, two servers, two logins of a client), and an invariant would
  have to count what a client still may do.  The code goes beyond
  these limits, so there is no theorem from them.
* `KickedIsClosed`: liveness, which TLAPS does not do.
* `NoItemLost`: it holds for one server per guild and patient players only (`lost`), and needs
  the sums over all messages under way.
* Timer, with its refinement of Agenda, and Db: the array is sorted by a binary search and
  the trees are recursive; what a recursive definition computes is an induction over data.
* `MCParts` and `MCEngine` put modules together; the theorems are about the modules, and so
  are the properties that the runs check of them.

## 5. What is left

The modules are written, and the invariants that hold for every value of the constants are
proved, but for those that need an induction over data.  What could still be proved:

1. `NoItemLost` for patient players and one map server per guild, as the sum over inventories,
   caches, records and messages; `GoodsProofs` has the lemmas for such sums.
2. The order of `timer_heap` with wrapping ticks, so that `EachSlotOnce` holds for every number of
   timers.

## 6. Not modelled

* *Parties and friends*: the messages and copies are those of guilds, with fewer ranks and no
  storage; `Guild` models that shape.
* *Sockets and the login server*: what they promise the rest, bytes in order per connection
  and a confirmed account, is what the other modules start from.
* *Chat rooms, pets, homunculi, registry values*: one record with one user at a time, loaded
  and saved as the character is; the races are those of CharSession and Storage.
* *Battle, skills, status, scripts, path finding, item data*: rules of the game as functions
  of large tables, with no promise beyond themselves.  They are most of the program's
  lines, and why the part of it that the modules translate is small.
* *Client packets and commands*: their layout and parsing; the handlers that matter are in
  the modules of the parts they act on.
* *Memory checks, converters, the http server and its graphs*: tools beside the program.
