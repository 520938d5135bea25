------------------------------- MODULE MCStore -------------------------------
(***************************************************************************)
(* Small instances of Store.                                               *)
(***************************************************************************)
EXTENDS Store, TLC

CONSTANTS
    h1, h2,             \* two requests about documents
    item, Item, post    \* names; SQLite has one table for item and Item

One == {"x"}
Coll == [n \in Names |-> "coll_" \o n]
Fts == [t \in {Coll[n] : n \in Names} |-> t \o "_fts"]
AllTables == {Coll[n] : n \in Names} \cup {Fts[Coll[n]] : n \in Names}

(* A rename of item to Item is free, and keeps the table.                  *)
Three == {item, Item, post}
FoldedColl == (item :> "coll_item" @@ Item :> "coll_item" @@ post :> "coll_post")
FoldedFts == ("coll_item" :> "coll_item_fts" @@ "coll_post" :> "coll_post_fts")
FoldedTables == {"coll_item", "coll_item_fts", "coll_post", "coll_post_fts"}
NameSymmetry == Permutations({item, Item})

Author == {"author"}
NoFields == {}

Exporter == (h1 :> {"export"} @@ h2 :> {"insert", "update", "delete"})
Writer == [h \in Handlers |-> {"insert", "update", "delete"}]
Inserter == [h \in Handlers |-> {"insert"}]
=============================================================================
