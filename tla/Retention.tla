------------------------------ MODULE Retention ------------------------------
(***************************************************************************)
(* What the rotation of backups promises (pruneBackups, maintenance.go):   *)
(* a file leaves the backup directory only while the newest Keep files,    *)
(* by name, stay in it.                                                    *)
(***************************************************************************)
EXTENDS Naturals, FiniteSets

CONSTANTS Names, Keep
VARIABLE shelf      \* the names of the files of the directory

Newer(n) == {m \in shelf : m > n}

Init == shelf = {}

Add == \E n \in Names \ shelf : shelf' = shelf \cup {n}

Remove ==
    \E n \in shelf :
        /\ Cardinality(Newer(n)) >= Keep
        /\ shelf' = shelf \ {n}

Next == Add \/ Remove

Spec == Init /\ [][Next]_shelf

=============================================================================
