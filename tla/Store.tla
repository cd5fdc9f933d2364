------------------------------- MODULE Store --------------------------------
(***************************************************************************)
(* What a store of the char server promises, whatever files it keeps.      *)
(* log[k] holds the values the record k may come back with after a crash:  *)
(* the one last promised, and those written since.                         *)
(***************************************************************************)
EXTENDS Naturals, Sequences, SequencesExt

CONSTANTS Keys,      \* identifiers of records
          Contents,  \* what a record may hold
          Gone       \* what a record that is not there holds

VARIABLES log,
          exposed    \* there is no save file

storeVars == <<log, exposed>>

Values == Contents \cup {Gone}

StoreInit ==
    /\ log \in [Keys -> {<<v>> : v \in Values}]
    /\ exposed = FALSE

\* A record is written, or erased; nothing is promised of the new value yet.
WriteRecord(k) ==
    /\ \E v \in Values : log' = [log EXCEPT ![k] = Append(@, v)]
    /\ UNCHANGED exposed

\* Older values of some records are given up for ever.
Promise ==
    /\ DOMAIN log' = Keys
    /\ \A k \in Keys : \E i \in DOMAIN log[k] : log'[k] = SubSeq(log[k], i, Len(log[k]))
    /\ UNCHANGED exposed

\* The program dies.  Each record comes back with one value it may have.
Fail ==
    /\ ~exposed
    /\ DOMAIN log' = Keys
    /\ \A k \in Keys : \E v \in Range(log[k]) : log'[k] = <<v>>
    /\ UNCHANGED exposed

\* It dies while there is no save file: then, and only then, records are lost,
\* and some may come back later as they once were.
FailExposed ==
    /\ exposed
    /\ DOMAIN log' = Keys
    /\ \A k \in Keys : log'[k] # <<>> /\ Range(log'[k]) \subseteq Range(log[k]) \cup {Gone}
    /\ UNCHANGED exposed

\* The save file is taken away, and its successor put in its place.
Replace ==
    /\ exposed' \in BOOLEAN
    /\ UNCHANGED log

StoreNext ==
    \/ \E k \in Keys : WriteRecord(k)
    \/ Promise
    \/ Fail
    \/ FailExposed
    \/ Replace

StoreSpec == StoreInit /\ [][StoreNext]_storeVars

=============================================================================
