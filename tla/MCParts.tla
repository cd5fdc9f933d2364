------------------------------ MODULE MCParts -------------------------------
(***************************************************************************)
(* Small instances of what the servers do for players, part by part: the   *)
(* parts share no state, so each behaviour is one of one part, and the     *)
(* others stay as they are at the start.                                   *)
(***************************************************************************)
EXTENDS Journal, Market, Guild, Mail, Storage, TLC

CONSTANTS p1, p2, p3, g1, g2, s1, s2, m1, m2, w1, w2

CONSTANT Parts   \* which of them are checked

VARIABLE part

\* Market: somebody with two pieces, somebody with zeny, and a merchant.
OwnInv == p1 :> 2 @@ p2 :> 0 @@ p3 :> 0
OwnCart == p1 :> 0 @@ p2 :> 0 @@ p3 :> 1
OwnZeny == p1 :> 0 @@ p2 :> 1 @@ p3 :> 0
Strength == p1 :> 2 @@ p2 :> 3 @@ p3 :> 1
OnePlace == [p \in Traders |-> 1]

\* Trades with two requests, one more than in "market": with stalls, where nothing else
\* comes in between, and without them, where something may.
AskedTwice(carts, luck) == INSTANCE Market WITH
    Carts <- carts, MaxRequests <- 2, MaxChance <- luck
Crossing == AskedTwice({p3}, 0)!MarketNext
Trading == AskedTwice({}, 1)!MarketNext

\* Storage of a guild: two members on one map server, of whom some open the own
\* storage too, or may be expelled, and no link fails.
Shared(owners, expelled) == INSTANCE Storage WITH
    MapServers <- {m1}, Players <- {p1, p2}, Members <- {p1, p2},
    Owners <- owners, Expelled <- expelled,
    Patient <- {}, Eager <- {}, Hasty <- {},
    Carried <- 0, Stored <- 0, GuildStored <- 1, MaxFaults <- 0

PartsInit ==
    /\ part \in Parts
    /\ JournalInit /\ MarketInit /\ GuildInit /\ MailInit
    /\ IF part \in {"shared", "expelled"} THEN Shared({}, {})!Init ELSE Init

PartsNext ==
    /\ UNCHANGED part
    /\ \/ part = "journal" /\ JournalNext /\ UNCHANGED <<marketVars, guildVars, mailVars, vars>>
       \/ /\ \/ part = "market" /\ MarketNext
             \/ part = "crossing" /\ Crossing
             \/ part = "trading" /\ Trading
          /\ UNCHANGED <<journalVars, guildVars, mailVars, vars>>
       \/ part = "guild" /\ GuildNext /\ UNCHANGED <<journalVars, marketVars, mailVars, vars>>
       \/ part = "mail" /\ MailNext /\ UNCHANGED <<journalVars, marketVars, guildVars, vars>>
       \/ part = "storage" /\ Next /\ UNCHANGED <<journalVars, marketVars, guildVars, mailVars>>
       \/ /\ \/ part = "shared" /\ Shared({p1}, {})!Work
             \/ part = "expelled" /\ Shared({}, {p1})!Work
          /\ UNCHANGED <<journalVars, marketVars, guildVars, mailVars>>

partsVars == <<part, journalVars, marketVars, guildVars, mailVars, vars>>

PartsSpec == PartsInit /\ [][PartsNext]_partsVars

\* Every part keeps its types.
PartsTypeOK ==
    CASE part = "journal" -> JournalTypeOK
      [] part = "market" -> MarketTypeOK
      [] part = "crossing" -> AskedTwice({p3}, 0)!MarketTypeOK
      [] part = "trading" -> AskedTwice({}, 1)!MarketTypeOK
      [] part = "guild" -> GuildTypeOK
      [] part = "mail" -> MailTypeOK
      [] part = "storage" -> TypeOK
      [] part \in {"shared", "expelled"} -> Shared({}, {})!TypeOK

\* No step but a fault loses or doubles an item, in the own storage of a player
\* who travels or in a guild's that two members ask for.
NoItemLost ==
    [][/\ part = "storage" => KeepsItems
       /\ part \in {"shared", "expelled"} => Shared({}, {})!KeepsItems]_partsVars

\* Two members never have the guild's storage open at once: storage_status, which
\* storage_guild_storageopen looks at and sets before it asks (storage.c:399).
GuildStorageOneUser == part \in {"shared", "expelled"} => Shared({}, {})!GuildOneUser

=============================================================================
