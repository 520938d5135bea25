------------------------------ MODULE MCCatalog ------------------------------
(***************************************************************************)
(* Small instances of Catalog: which names there are and which SQL tables  *)
(* they lead to.                                                           *)
(***************************************************************************)
EXTENDS Catalog, Sequences, TLC

One == {"x"}
Two == {"x", "y"}
Three == {"x", "y", "z"}
(* The index of x is the table of x_fts, and SQLite has one table for x and X. *)
Colliding == {"x", "x_fts", "X"}

LowerCase(n) == IF n = "X" THEN "x" ELSE n
Coll == [n \in Names |-> "coll_" \o LowerCase(n)]
Fts == [t \in MainTables |-> t \o "_fts"]
AllTables == MainTables \cup {Fts[t] : t \in MainTables}

Author == {"author"}
NoFields == {}

ProcSymmetry == Permutations(Procs)

=============================================================================
