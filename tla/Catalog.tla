------------------------------- MODULE Catalog -------------------------------
(***************************************************************************)
(* The registry of collections (collections.go): the table "collections",  *)
(* which maps a name to the SQL table that holds its items, the SQL tables *)
(* themselves, and "collection_references".  Creating and renaming are one *)
(* transaction each; dropping reads the registry on the read pool first    *)
(* and opens its transaction afterwards, and a rename reads the registry   *)
(* again after its commit.                                                 *)
(***************************************************************************)
EXTENDS Naturals

CONSTANTS
    Names,      \* names clients give to collections
    Fields,     \* names of reference fields
    SqlTables,  \* the SQL tables of collections; SQLite ignores case in these
    MainTable,  \* MainTable[n]: "coll_" followed by n
    FtsOf,      \* FtsOf[t]: t followed by "_fts"
    None,       \* an absent row or table, an unset local variable
    Procs,      \* the requests that can be in flight at the same time
    Ops,        \* the operations clients use in this instance
    Faults      \* what can fail: "sql" (a statement), "crash"

AllOps == {"create", "drop", "rename"}
MainTables == {MainTable[n] : n \in Names}
Entry == [table : MainTables, vector : BOOLEAN]
Reference == [owner : Names, field : Fields, target : Names]

ASSUME TableAssumption ==
    /\ MainTable \in [Names -> SqlTables]
    /\ FtsOf \in [MainTables -> SqlTables]
    /\ \A t \in MainTables : FtsOf[t] # t
    /\ \A t, u \in MainTables : FtsOf[t] = FtsOf[u] => t = u
ASSUME NoneAssumption ==
    None \notin Entry \cup {"plain", "vec", "fts"} \cup AllOps \cup Names \cup Nat
ASSUME WorkloadAssumption == Ops \subseteq AllOps

VARIABLES
    registry,   \* registry[n]: the row of "collections" named n, or None
    tables,     \* tables[t]: what kind of table t is, or None
    refs,       \* the rows of "collection_references"
    frame       \* frame[p]: the local variables of the request p is serving

db == <<registry, tables, refs>>
vars == <<registry, tables, refs, frame>>

Labels == {"idle", "drop", "fetch", "reply"}
Statuses == {200, 201, 204, 400, 404, 409, 500}

Frame ==
    [pc : Labels,
     op : AllOps \cup {None},
     name : Names \cup {None},          \* the name that the request is about
     coll : Entry \cup {None},          \* what getCollection returned for it
     decl : SUBSET Reference,           \* the references of a create
     status : Statuses \cup {None}]

Idle == [pc |-> "idle", op |-> None, name |-> None, coll |-> None,
         decl |-> {}, status |-> None]

At(p, label) == frame[p].pc = label
Goto(p, f) == frame' = [frame EXCEPT ![p] = f]
Answer(p, f, s) == Goto(p, [f EXCEPT !.pc = "reply", !.status = s])
Arrived(op, n) == [Idle EXCEPT !.op = op, !.name = n]

(* The reference fields that a create may declare: one target for each.    *)
Declarations(n) ==
    {D \in SUBSET [owner : {n}, field : Fields, target : Names] :
        \A r, s \in D : r.field = s.field => r = s}

-----------------------------------------------------------------------------
Init ==
    /\ registry = [n \in Names |-> None]
    /\ tables = [t \in SqlTables |-> None]
    /\ refs = {}
    /\ frame = [p \in Procs |-> Idle]

(***************************************************************************)
(* createCollection.  The transaction fails, and with it the request, when *)
(* a target is not registered, when an SQL table of that name is there     *)
(* already, or on the primary key of collection_references.                *)
(***************************************************************************)
\* Defect: CREATE TABLE IF NOT EXISTS.
TableTakenNever(n, vector) == FALSE

TableTaken(n, vector) ==
    \/ tables[MainTable[n]] # None
    \/ vector /\ tables[FtsOf[MainTable[n]]] # None

Acceptable(n, vector, decl) ==
    /\ \A r \in decl : registry[r.target] # None
    /\ ~TableTaken(n, vector)
    /\ \A r \in decl, s \in refs : s.owner = n => s.field # r.field

\* Defect: a vector collection is created without its full-text index.
WithTablesNoIndex(n, vector) ==
    [tables EXCEPT ![MainTable[n]] = IF vector THEN "vec" ELSE "plain"]

WithTables(n, vector) ==
    [t \in SqlTables |->
        IF t = MainTable[n] THEN IF vector THEN "vec" ELSE "plain"
        ELSE IF vector /\ t = FtsOf[MainTable[n]] THEN "fts"
        ELSE tables[t]]

\* Defect: the references of a vector collection are not registered.
CreateWithoutReferences(p) ==
    /\ "create" \in Ops /\ At(p, "idle")
    /\ \E n \in Names, vector \in BOOLEAN : \E decl \in Declarations(n) :
        /\ registry[n] = None /\ Acceptable(n, vector, decl)
        /\ registry' = [registry EXCEPT
                           ![n] = [table |-> MainTable[n], vector |-> vector]]
        /\ tables' = WithTables(n, vector)
        /\ refs' = IF vector THEN refs ELSE refs \cup decl
        /\ Answer(p, [Arrived("create", n) EXCEPT !.decl = decl], 201)

Create(p, n, vector, decl) ==
    LET f == [Arrived("create", n) EXCEPT !.decl = decl] IN
    \/ /\ registry[n] # None
       /\ Answer(p, f, 409) /\ UNCHANGED db
    \/ /\ registry[n] = None /\ ~Acceptable(n, vector, decl)
       /\ Answer(p, f, 400) /\ UNCHANGED db
    \/ /\ registry[n] = None /\ Acceptable(n, vector, decl)
       /\ registry' = [registry EXCEPT
                          ![n] = [table |-> MainTable[n], vector |-> vector]]
       /\ tables' = WithTables(n, vector)
       /\ refs' = refs \cup decl
       /\ Answer(p, f, 201)

CreateCollection(p) ==
    /\ "create" \in Ops /\ At(p, "idle")
    /\ \E n \in Names, vector \in BOOLEAN : \E decl \in Declarations(n) :
        Create(p, n, vector, decl)

(***************************************************************************)
(* dropCollection: getCollection, then the transaction, with what the      *)
(* first one returned.  A DROP TABLE of a missing table is an error; the   *)
(* DELETE from the registry is by name and does not look at its effect.    *)
(***************************************************************************)
\* Defect: ErrCollectionNotFound is not checked.
StartDropUnchecked(p) ==
    /\ "drop" \in Ops /\ At(p, "idle")
    /\ \E n \in Names :
        Goto(p, [Arrived("drop", n) EXCEPT !.pc = "drop",
                                           !.coll = registry[n]])
    /\ UNCHANGED db

StartDrop(p) ==
    /\ "drop" \in Ops /\ At(p, "idle")
    /\ \E n \in Names :
        LET f == Arrived("drop", n) IN
        \/ registry[n] = None /\ Answer(p, f, 404)
        \/ /\ registry[n] # None
           /\ Goto(p, [f EXCEPT !.pc = "drop", !.coll = registry[n]])
    /\ UNCHANGED db

TablesOf(c) == {c.table} \cup IF c.vector THEN {FtsOf[c.table]} ELSE {}

\* Defect: the full-text index is not dropped.
DropKeepsIndex(p) ==
    LET f == frame[p] IN
    /\ At(p, "drop") /\ tables[f.coll.table] # None
    /\ tables' = [tables EXCEPT ![f.coll.table] = None]
    /\ registry' = [registry EXCEPT ![f.name] = None]
    /\ UNCHANGED refs
    /\ Answer(p, f, 204)

\* Defect: the row of the registry is not deleted.
DropKeepsRow(p) ==
    LET f == frame[p] IN
    /\ At(p, "drop")
    /\ \A t \in TablesOf(f.coll) : tables[t] # None
    /\ tables' = [t \in SqlTables |->
                     IF t \in TablesOf(f.coll) THEN None ELSE tables[t]]
    /\ UNCHANGED <<registry, refs>>
    /\ Answer(p, f, 204)

DropCommit(p) ==
    LET f == frame[p] IN
    /\ At(p, "drop")
    /\ \/ /\ \A t \in TablesOf(f.coll) : tables[t] # None
          /\ tables' = [t \in SqlTables |->
                           IF t \in TablesOf(f.coll) THEN None ELSE tables[t]]
          /\ registry' = [registry EXCEPT ![f.name] = None]
          /\ UNCHANGED refs
          /\ Answer(p, f, 204)
       \/ /\ \E t \in TablesOf(f.coll) : tables[t] = None
          /\ Answer(p, f, 500) /\ UNCHANGED db

(***************************************************************************)
(* renameCollection, and the getCollection of its handler once the         *)
(* transaction is committed.                                               *)
(***************************************************************************)
Renamed(n, old, new) == IF n = old THEN new ELSE n

\* Defect: only the collection's own references follow its new name.
CascadedOwned(old, new) ==
    {[r EXCEPT !.owner = Renamed(@, old, new)] : r \in refs}

Cascaded(old, new) ==
    {[r EXCEPT !.owner = Renamed(@, old, new),
               !.target = Renamed(@, old, new)] : r \in refs}

KeyClash(old, new) ==
    /\ old # new
    /\ \E r, s \in refs : r.owner = old /\ s.owner = new /\ r.field = s.field

Rename(p, old, new) ==
    LET f == Arrived("rename", new)
        free == registry[new] = None \/ new = old
    IN
    \/ /\ registry[old] = None
       /\ Answer(p, f, 404) /\ UNCHANGED db
    \/ /\ registry[old] # None /\ ~free
       /\ Answer(p, f, 409) /\ UNCHANGED db
    \/ /\ registry[old] # None /\ free /\ KeyClash(old, new)
       /\ Answer(p, f, 500) /\ UNCHANGED db
    \/ /\ registry[old] # None /\ free /\ ~KeyClash(old, new)
       /\ registry' = [n \in Names |-> IF n = new THEN registry[old]
                                      ELSE IF n = old THEN None
                                      ELSE registry[n]]
       /\ refs' = Cascaded(old, new)
       /\ UNCHANGED tables
       /\ Goto(p, [f EXCEPT !.pc = "fetch"])

RenameCollection(p) ==
    /\ "rename" \in Ops /\ At(p, "idle")
    /\ \E old, new \in Names : Rename(p, old, new)

FetchRenamed(p) ==
    /\ At(p, "fetch")
    /\ Answer(p, frame[p], IF registry[frame[p].name] # None THEN 200 ELSE 500)
    /\ UNCHANGED db

(***************************************************************************)
(* A statement fails, before the first commit or after it; the process     *)
(* dies.  SQLite rolls the open transaction back in both cases.            *)
(***************************************************************************)
StatementFails(p) ==
    /\ "sql" \in Faults
    /\ \/ /\ At(p, "idle")
          /\ \E op \in Ops, n \in Names :
                Answer(p, Arrived(op, n), IF op = "create" THEN 400 ELSE 500)
       \/ frame[p].pc \in {"drop", "fetch"} /\ Answer(p, frame[p], 500)
    /\ UNCHANGED db

Crash ==
    /\ "crash" \in Faults
    /\ frame' = [p \in Procs |-> Idle]
    /\ UNCHANGED db

Respond(p) ==
    /\ At(p, "reply")
    /\ Goto(p, Idle)
    /\ UNCHANGED db

Serve(p) ==
    \/ CreateCollection(p)
    \/ StartDrop(p) \/ DropCommit(p)
    \/ RenameCollection(p) \/ FetchRenamed(p)
    \/ StatementFails(p) \/ Respond(p)

Next == Crash \/ \E p \in Procs : Serve(p)

Spec == Init /\ [][Next]_vars

-----------------------------------------------------------------------------
(***************************************************************************)
(* Properties.                                                             *)
(***************************************************************************)
Registered == {n \in Names : registry[n] # None}

(* Which locals of a handler are set, by where it is.                      *)
LocalsOK(f) ==
    /\ f.pc = "drop" => f.coll \in Entry /\ "drop" \in Ops
    /\ f.pc \in {"drop", "fetch"} => f.name \in Names

\* Every variable keeps its type, and a handler about to drop has a collection.
TypeOK ==
    /\ registry \in [Names -> Entry \cup {None}]
    /\ tables \in [SqlTables -> {"plain", "vec", "fts", None}]
    /\ refs \in SUBSET Reference
    /\ frame \in [Procs -> Frame]
    /\ \A p \in Procs : LocalsOK(frame[p])

Backed(c) ==
    IF c.vector THEN tables[c.table] = "vec" /\ tables[FtsOf[c.table]] = "fts"
                ELSE tables[c.table] = "plain"

\* Every registered collection has the SQL tables its handlers will query: its
\* items, and the full-text index if it has vectors (createCollection's single
\* transaction; "the collection keeps its data, vectors, references, and
\* full-text index untouched", http_collections.go:78-79).
BackingTables == \A n \in Registered : Backed(registry[n])

\* Two collections never share an SQL table, not even one's items with the
\* other's full-text index (table_name is not unique in collectionsSchema).
NoAliasing ==
    \A m, n \in Registered :
        m # n => TablesOf(registry[m]) \cap TablesOf(registry[n]) = {}

\* No SQL table outlives its collection: nobody could drop it any more, and it
\* would block the name for ever (dropCollection drops both tables).
NoOrphanTables ==
    \A t \in SqlTables :
        tables[t] # None => \E n \in Registered : t \in TablesOf(registry[n])

\* A registered collection references registered collections only ("Every
\* referenced collection must already exist", http_collections.go:20-21).
TargetsRegistered ==
    \A r \in refs : r.owner \in Registered => r.target \in Registered

\* A collection has the references that its create declared, all of them and
\* no others ("A reference is declared when its owning collection is created",
\* collections.go:22).
ReferencesAsDeclared ==
    [][\A p \in Procs :
          (frame'[p] # frame[p] /\ frame'[p].op = "create"
                                /\ frame'[p].status = 201) =>
              {r \in refs' : r.owner = frame'[p].name} = frame'[p].decl]_vars

\* A create of a valid request, with a name that is not registered and targets
\* that are, is accepted (the reasons for a 400 that README.md:564 lists).
FreshNameAccepted ==
    [][\A p \in Procs :
          (At(p, "idle") /\ frame'[p].op = "create" /\ frame'[p].status = 400)
              => \E r \in frame'[p].decl : registry[r.target] = None]_vars

(* What a drop of n promises, when it looked c up, with the answer s.      *)
Taken(n, c, s) ==
    IF s = 204
    THEN /\ n \in Registered /\ Registered' = Registered \ {n}
         /\ \A t \in TablesOf(c) : tables'[t] = None
         /\ \A m \in Registered' :
                registry'[m] = registry[m] /\ Backed(registry[m])'
    ELSE UNCHANGED db /\ ("sql" \notin Faults => registry[n] # c)

\* A drop that answers 204 has taken the collection of that name and its
\* tables, and nothing that another collection needs; any other answer leaves
\* everything in place and, if no statement failed, means that the collection
\* it had looked up was gone ("204 si se borró, 404 si no existía",
\* README.md:582; dropCollection looks it up before its transaction).
DropTakesItsCollection ==
    [][\A p \in Procs :
          (At(p, "drop") /\ frame'[p].pc = "reply") =>
              Taken(frame[p].name, frame[p].coll, frame'[p].status)]_vars

(***************************************************************************)
(* The references, between SQL tables instead of names, implement          *)
(* ReferenceGraph: renames do not show.                                    *)
(***************************************************************************)
TableOf(n) == registry[n].table

GraphNodes == {TableOf(n) : n \in Registered}
GraphEdges ==
    {<<TableOf(r.owner), r.field, TableOf(r.target)>> :
        r \in {s \in refs : s.owner \in Registered /\ s.target \in Registered}}

Graph == INSTANCE ReferenceGraph
         WITH Nodes <- SqlTables, nodes <- GraphNodes, edges <- GraphEdges

\* The graph of references between collections changes only when a collection
\* is created, and then by what that collection declares: a rename cascades to
\* every reference (TestRenameCollectionCascadesReferences).
GraphSpec == Graph!Spec

=============================================================================
