-------------------------------- MODULE Store --------------------------------
(***************************************************************************)
(* Documents over a registry that changes (http_collections.go): every     *)
(* handler looks the collection of its URL up once and keeps what it found *)
(* (a name, an SQL table, whether it has vectors) to its end, while other  *)
(* requests create, drop and rename collections, the steps of Catalog.     *)
(* SQL tables, unlike handles, may go and come back: a statement fails on  *)
(* a table that is gone, or that is not of the kind the handle says.       *)
(*                                                                         *)
(* Every reference is "restrict" here; Documents has set_null, automatic   *)
(* ids, bulk requests and failing statements, over collections that stay.  *)
(***************************************************************************)
EXTENDS Naturals, Sequences, FiniteSets, SequencesExt

CONSTANTS
    Names, Fields, SqlTables, MainTable, FtsOf, None, Procs, Ops, Faults,
    Handlers,   \* the requests about documents, in flight at the same time
    DocOps,     \* DocOps[h]: what h is used for in this instance
    MaxId,      \* bound on the ids of documents
    PageSize    \* maxListLimit: what export reads with one query

Ids == 1..MaxId
AllDocOps == {"insert", "update", "delete", "export"}

ASSUME HandlerAssumption ==
    /\ DocOps \in [Handlers -> SUBSET AllDocOps]
    /\ MaxId \in Nat /\ PageSize \in Nat \ {0}
    /\ None \notin Ids /\ None \notin AllDocOps

VARIABLES
    registry, tables, refs, frame,      \* those of Catalog
    rows,   \* rows[t][i]: the row with id i of SQL table t, or None
    work,   \* work[h]: the local variables of the request h is serving
    watch,  \* history: what happened to the table of an export meanwhile
    misled  \* history: a rename came between two lookups by name

schema == <<registry, tables, refs, frame>>
vars == <<schema, rows, work, watch, misled>>

Schema == INSTANCE Catalog

ASSUME SchemaAssumption ==
    Schema!TableAssumption /\ Schema!NoneAssumption /\ Schema!WorkloadAssumption

(* What the reference fields of a document hold; a row of an index has a   *)
(* text instead, which is left out.                                        *)
Data == [Fields -> Ids \cup {None}]
Text == [f \in Fields |-> None]

ASSUME DataAssumption == None \notin Data

Labels == {"idle", "refs", "find", "query", "write", "text", "page", "reply"}

Work ==
    [pc : Labels,
     op : AllDocOps \cup {None},
     name : Names \cup {None},          \* Collection.Name
     coll : Schema!Entry \cup {None},   \* its table and whether it has vectors
     id : Ids \cup {None},
     data : Data,
     todo : SUBSET Schema!Reference,    \* references not looked at yet
     ref : Schema!Reference \cup {None},    \* the one being looked at
     other : Schema!Entry \cup {None},      \* the collection at its other end
     seen : Seq(Ids),                   \* what export has read so far
     status : Schema!Statuses \cup {None}]

Idle == [pc |-> "idle", op |-> None, name |-> None, coll |-> None, id |-> None,
         data |-> Text, todo |-> {}, ref |-> None, other |-> None,
         seen |-> <<>>, status |-> None]

Unwatched == [kept |-> {}, removed |-> FALSE, below |-> FALSE]

At(h, label) == work[h].pc = label
Goto(h, w) == work' = [work EXCEPT ![h] = w]
Answered(w, s) ==
    [Idle EXCEPT !.pc = "reply", !.op = w.op, !.seen = w.seen, !.status = s]
Answer(h, s) == Goto(h, Answered(work[h], s))

Empty == [i \in Ids |-> None]
Present(contents, t) == {i \in Ids : contents[t][i] # None}
HoldsItems(t) == tables[t] \in {"plain", "vec"}
Kind(c) == IF c.vector THEN "vec" ELSE "plain"

-----------------------------------------------------------------------------
Init ==
    /\ Schema!Init
    /\ rows = [t \in SqlTables |-> Empty]
    /\ work = [h \in Handlers |-> Idle]
    /\ watch = [h \in Handlers |-> Unwatched]
    /\ misled = FALSE

\* Defect: ErrCollectionNotFound is not checked.
StartUnchecked(h, op, label, i, d) ==
    /\ At(h, "idle") /\ op \in DocOps[h]
    /\ \E n \in Names :
        Goto(h, [Idle EXCEPT !.pc = label, !.op = op, !.name = n,
                             !.coll = registry[n], !.id = i, !.data = d])
    /\ UNCHANGED <<schema, rows>>

(***************************************************************************)
(* getCollection, at the beginning of every handler.                       *)
(***************************************************************************)
Start(h, op, label, i, d) ==
    /\ At(h, "idle") /\ op \in DocOps[h]
    /\ \E n \in Names :
        LET w == [Idle EXCEPT !.pc = label, !.op = op, !.name = n,
                              !.coll = registry[n], !.id = i, !.data = d]
        IN  Goto(h, IF registry[n] = None THEN Answered(w, 404) ELSE w)
    /\ UNCHANGED <<schema, rows>>

StartWrite(h) ==
    \E op \in {"insert", "update"}, i \in Ids, d \in Data :
        Start(h, op, "refs", i, d)
StartDelete(h) == \E i \in Ids : Start(h, "delete", "refs", i, Text)
StartExport(h) == Start(h, "export", "page", None, Text)

(***************************************************************************)
(* validateReferences and checkReferentialDelete: the references are read  *)
(* under the name that the handle has; for each one that matters there,    *)
(* the collection at its other end is looked up, and its table queried.    *)
(***************************************************************************)
ReadReferences(h) ==
    LET w == work[h] IN
    /\ At(h, "refs")
    /\ Goto(h, [w EXCEPT !.pc = "find",
            !.todo = IF w.op = "delete" THEN {r \in refs : r.target = w.name}
                     ELSE {r \in refs : r.owner = w.name
                                        /\ w.data[r.field] # None}])
    /\ UNCHANGED <<schema, rows>>

OtherEnd(w, r) == registry[IF w.op = "delete" THEN r.owner ELSE r.target]

FindOther(h) ==
    LET w == work[h] IN
    /\ At(h, "find")
    /\ \E r \in w.todo :
        \/ /\ OtherEnd(w, r) # None
           /\ Goto(h, [w EXCEPT !.pc = "query", !.todo = @ \ {r}, !.ref = r,
                                !.other = OtherEnd(w, r)])
        \/ /\ OtherEnd(w, r) = None /\ w.op = "delete"
           /\ Goto(h, [w EXCEPT !.todo = @ \ {r}])
        \/ /\ OtherEnd(w, r) = None /\ w.op # "delete"
           /\ Answer(h, 400)
    /\ UNCHANGED <<schema, rows>>

Pointing(t, f, i) == {j \in Present(rows, t) : rows[t][j][f] = i}

QueryOther(h) ==
    LET w == work[h]
        t == w.other.table
        found == IF w.op = "delete" THEN Pointing(t, w.ref.field, w.id) # {}
                 ELSE w.data[w.ref.field] \in Present(rows, t)
    IN
    /\ At(h, "query")
    /\ \/ ~HoldsItems(t) /\ Answer(h, 500)
       \/ HoldsItems(t) /\ w.op = "delete" /\ found /\ Answer(h, 409)
       \/ HoldsItems(t) /\ w.op # "delete" /\ ~found /\ Answer(h, 400)
       \/ /\ HoldsItems(t) /\ (found <=> w.op # "delete")
          /\ Goto(h, [w EXCEPT !.pc = "find", !.ref = None, !.other = None])
    /\ UNCHANGED <<schema, rows>>

Checked(h) ==
    /\ At(h, "find") /\ work[h].todo = {}
    /\ Goto(h, [work[h] EXCEPT !.pc = "write"])
    /\ UNCHANGED <<schema, rows>>

(***************************************************************************)
(* insertDocument: the row, and for a handle with vectors the row of the   *)
(* index, in a statement of its own.                                       *)
(***************************************************************************)
InsertRow(h) ==
    LET w == work[h]
        t == w.coll.table
        ok == tables[t] = Kind(w.coll) /\ rows[t][w.id] = None
    IN
    /\ At(h, "write") /\ w.op = "insert"
    /\ \/ /\ ok
          /\ rows' = [rows EXCEPT ![t][w.id] = w.data]
          /\ Goto(h, IF w.coll.vector THEN [w EXCEPT !.pc = "text"]
                                      ELSE Answered(w, 201))
       \/ ~ok /\ Answer(h, 500) /\ UNCHANGED rows
    /\ UNCHANGED schema

\* Defect: the row of the index is written without its table.
InsertTextAnyway(h) ==
    LET t == FtsOf[work[h].coll.table] IN
    /\ At(h, "text")
    /\ rows' = [rows EXCEPT ![t][work[h].id] = Text]
    /\ Answer(h, 201)
    /\ UNCHANGED schema

InsertText(h) ==
    LET w == work[h]
        x == FtsOf[w.coll.table]
        ok == tables[x] = "fts" /\ rows[x][w.id] = None
    IN
    /\ At(h, "text")
    /\ \/ ok /\ rows' = [rows EXCEPT ![x][w.id] = Text] /\ Answer(h, 201)
       \/ ~ok /\ Answer(h, 500) /\ UNCHANGED rows
    /\ UNCHANGED schema

(***************************************************************************)
(* updateDocument and deleteDocument.  A handle without vectors leaves the *)
(* index alone, and its statements work on both kinds of tables; with      *)
(* vectors they are a transaction that needs the index, and an update      *)
(* needs the columns of vec0 as well.                                      *)
(***************************************************************************)
Works(w) ==
    w.coll.vector => /\ tables[FtsOf[w.coll.table]] = "fts"
                     /\ w.op = "update" => tables[w.coll.table] = "vec"

Replaced(w, row, text) ==
    [t \in SqlTables |->
        IF t = w.coll.table THEN [rows[t] EXCEPT ![w.id] = row]
        ELSE IF w.coll.vector /\ t = FtsOf[w.coll.table]
             THEN [rows[t] EXCEPT ![w.id] = text]
        ELSE rows[t]]

ChangeRow(h) ==
    LET w == work[h]
        t == w.coll.table
        found == rows[t][w.id] # None
    IN
    /\ At(h, "write") /\ w.op \in {"update", "delete"}
    /\ \/ /\ ~HoldsItems(t) \/ (found /\ ~Works(w))
          /\ Answer(h, 500) /\ UNCHANGED rows
       \/ /\ HoldsItems(t) /\ ~found
          /\ Answer(h, 404) /\ UNCHANGED rows
       \/ /\ HoldsItems(t) /\ found /\ Works(w)
          /\ rows' = IF w.op = "update" THEN Replaced(w, w.data, Text)
                                        ELSE Replaced(w, None, None)
          /\ Answer(h, IF w.op = "update" THEN 200 ELSE 204)
    /\ UNCHANGED schema

(***************************************************************************)
(* handleExportDocuments: pages of listDocuments, in the order of ids,     *)
(* until one is not full.  Every page is a query of its own, that skips as *)
(* many rows as were read before.                                          *)
(***************************************************************************)
Rank(ids, i) == Cardinality({j \in ids : j < i})

Page(t, offset) ==
    LET ids == Present(rows, t)
        size == Cardinality(ids)
        n == IF offset + PageSize <= size THEN PageSize
             ELSE IF offset <= size THEN size - offset ELSE 0
    IN  CHOOSE page \in [1..n -> ids] :
            \A k \in 1..n : Rank(ids, page[k]) + 1 = offset + k

\* Defect: a page that is full is taken for the last one.
ExportFirstPage(h) ==
    LET w == work[h]
        page == Page(w.coll.table, Len(w.seen))
    IN
    /\ At(h, "page") /\ HoldsItems(w.coll.table)
    /\ Goto(h, Answered([w EXCEPT !.seen = @ \o page], 200))
    /\ UNCHANGED <<schema, rows>>

\* Defect: the page after the first one begins one row too early.
ExportOverlaps(h) ==
    LET w == work[h]
        n == Len(w.seen)
        page == Page(w.coll.table, IF n = PageSize THEN n - 1 ELSE n)
        more == [w EXCEPT !.seen = @ \o page]
    IN
    /\ At(h, "page") /\ HoldsItems(w.coll.table)
    /\ Goto(h, IF Len(page) < PageSize \/ Len(more.seen) > MaxId
               THEN Answered(more, 200) ELSE more)
    /\ UNCHANGED <<schema, rows>>

ExportPage(h) ==
    LET w == work[h]
        t == w.coll.table
        page == Page(t, Len(w.seen))
        more == [w EXCEPT !.seen = @ \o page]
        readable == HoldsItems(t) /\ (w.coll.vector => tables[t] = "vec")
    IN
    /\ At(h, "page")
    /\ \/ ~readable /\ Answer(h, 500)
       \/ readable /\ Len(page) < PageSize /\ Goto(h, Answered(more, 200))
       \/ readable /\ Len(page) = PageSize /\ Goto(h, more)
    /\ UNCHANGED <<schema, rows>>

Respond(h) ==
    /\ At(h, "reply")
    /\ Goto(h, Idle)
    /\ UNCHANGED <<schema, rows>>

Serve(h) ==
    \/ StartWrite(h) \/ StartDelete(h) \/ StartExport(h)
    \/ ReadReferences(h) \/ FindOther(h) \/ QueryOther(h) \/ Checked(h)
    \/ InsertRow(h) \/ InsertText(h) \/ ChangeRow(h)
    \/ ExportPage(h) \/ Respond(h)

(***************************************************************************)
(* The requests about collections: a table that is created is empty, one   *)
(* that is dropped takes its rows along.                                   *)
(***************************************************************************)
ServeSchema(p) ==
    /\ Schema!Serve(p)
    /\ rows' = [t \in SqlTables |->
                   IF tables'[t] = tables[t] THEN rows[t] ELSE Empty]
    /\ UNCHANGED work

Crash ==
    /\ Schema!Crash
    /\ work' = [h \in Handlers |-> Idle]
    /\ UNCHANGED rows

(* What an export is to be judged by: the documents that were there all    *)
(* the time, whether any went, whether any came before another one.        *)
Watched(h) ==
    LET old == Present(rows, work[h].coll.table)
        new == Present(rows', work[h].coll.table)
    IN
    IF work'[h].op # "export" \/ work'[h].status \notin {None, 200}
    THEN Unwatched
    ELSE IF At(h, "page")
    THEN [kept |-> watch[h].kept \cap new,
          removed |-> watch[h].removed \/ ~(old \subseteq new),
          below |-> watch[h].below \/ \E i \in new \ old, j \in old : i < j]
    ELSE IF At(h, "idle")
    THEN [Unwatched EXCEPT !.kept = Present(rows', work'[h].coll.table)]
    ELSE watch[h]

(* In this step a collection loses the name by which a handler is about to *)
(* look up its references, or a reference that a handler is about to       *)
(* follow loses the names that the handler has read.                       *)
Misled(h) ==
    \/ /\ At(h, "refs") /\ registry[work[h].name] = work[h].coll
       /\ registry'[work[h].name] # work[h].coll
    \/ work[h].todo \subseteq refs /\ ~(work[h].todo \subseteq refs')

Next ==
    /\ \/ \E h \in Handlers : Serve(h)
       \/ \E p \in Procs : ServeSchema(p)
       \/ Crash
    /\ watch' = [h \in Handlers |-> Watched(h)]
    /\ misled' = (misled \/ \E h \in Handlers : Misled(h))

Spec == Init /\ [][Next]_vars

-----------------------------------------------------------------------------
(***************************************************************************)
(* Properties.                                                             *)
(***************************************************************************)
\* Every variable keeps its type, a handler past its lookup has a collection,
\* and a missing table has no rows.
TypeOK ==
    /\ Schema!TypeOK
    /\ rows \in [SqlTables -> [Ids -> Data \cup {None}]]
    /\ work \in [Handlers -> Work]
    /\ watch \in [Handlers -> [kept : SUBSET Ids, removed : BOOLEAN,
                               below : BOOLEAN]]
    /\ misled \in BOOLEAN
    /\ \A h \in Handlers :
          work[h].pc \notin {"idle", "reply"} => work[h].coll # None
    /\ \A t \in SqlTables : tables[t] = None => rows[t] = Empty

\* However old its handle is, a document is only ever written to a collection
\* that clients can reach: the tables of a collection and its row go together,
\* and a rename moves neither (dropCollection, renameCollection).
WritesReachable ==
    [][\A t \in SqlTables :
          (tables'[t] = tables[t] /\ rows'[t] # rows[t])
              => \E n \in Schema!Registered :
                    t \in Schema!TablesOf(registry[n])]_vars

Exported(h) == At(h, "reply") /\ work[h].op = "export" /\ work[h].status = 200

\* An export contains every document that was there from its first query to its
\* last, unless a document was removed meanwhile ("Dumps every document in the
\* collection", http_collections.go:514).
ExportSkipsNothing ==
    \A h \in Handlers :
        (Exported(h) /\ ~watch[h].removed)
            => watch[h].kept \subseteq ToSet(work[h].seen)

\* An export contains no document twice, so that it can be loaded again, unless
\* one was removed meanwhile or inserted with an id below another one.
ExportRepeatsNothing ==
    \A h \in Handlers :
        (Exported(h) /\ ~watch[h].removed /\ ~watch[h].below)
            => IsInjective(work[h].seen)

\* An export contains every document that was there all the time.
ExportComplete ==
    \A h \in Handlers : Exported(h) => watch[h].kept \subseteq ToSet(work[h].seen)

\* The index of a registered collection has the ids of its items, and no others.
IndexInStep ==
    (\A h \in Handlers : ~At(h, "text")) =>
        \A n \in Schema!Registered :
            registry[n].vector =>
                Present(rows, registry[n].table)
                    = Present(rows, FtsOf[registry[n].table])

\* Every reference of a document points at a document: what validateReferences
\* and checkReferentialDelete are for.
ReferencesResolve ==
    \A r \in refs :
        (registry[r.owner] # None /\ registry[r.target] # None) =>
            \A i \in Present(rows, registry[r.owner].table) :
                LET v == rows[registry[r.owner].table][i][r.field] IN
                v # None => v \in Present(rows, registry[r.target].table)

\* Renames do not break references, in whichever order they come with the
\* lookups of one request about documents, except when one falls between two
\* lookups by name ("references ... untouched", http_collections.go:78-79).
ResolveUnlessMisled == misled \/ ReferencesResolve

=============================================================================
