----------------------------- MODULE CountedList -----------------------------
(***************************************************************************)
(* What the database promises to the readers of a post: an append-only     *)
(* list of entries (comments, or likes) beside a number that is written    *)
(* separately.  The number may lag behind the list but every unit of it    *)
(* stands for one entry that is really there, and for no other unit.       *)
(***************************************************************************)
EXTENDS Naturals, FiniteSets

CONSTANT Key            \* the push keys an entry can be stored under

VARIABLES
    entries,            \* the keys stored in the list
    tallied,            \* the entries the number already stands for
    number              \* the stored number

listVars == <<entries, tallied, number>>

ListInit ==
    /\ entries = {}
    /\ tallied = {}
    /\ number = 0

Append(k) ==
    /\ k \in Key \ entries
    /\ entries' = entries \cup {k}
    /\ UNCHANGED <<tallied, number>>

Tally(k) ==
    /\ k \in entries \ tallied
    /\ tallied' = tallied \cup {k}
    /\ number' = number + 1
    /\ UNCHANGED entries

ListNext == \E k \in Key : Append(k) \/ Tally(k)

ListSpec == ListInit /\ [][ListNext]_listVars
=============================================================================
