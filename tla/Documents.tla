------------------------------ MODULE Documents ------------------------------
(***************************************************************************)
(* The documents of microserver's collections (collections.go,             *)
(* fulltext.go, http_collections.go): the items of every collection, the   *)
(* full-text index of the vector collections, and the requests that        *)
(* change them.  The schema (which collections there are, which fields     *)
(* reference which collection, and with which on_delete) is fixed here.    *)
(*                                                                         *)
(* Every HTTP request runs in a goroutine of its own.  A statement sent on *)
(* the read pool or on the write pool is one step; so is a transaction on  *)
(* the write pool, which has a single connection and is atomic for WAL     *)
(* readers.  Between two statements any other request may run.             *)
(***************************************************************************)
EXTENDS Integers, Sequences, FiniteSets

CONSTANTS
    Colls,      \* the registered collections
    VecColls,   \* those created with vector = true: they have an FTS table
    Fields,     \* field names that some collection declares as references
    Refs,       \* the rows of collection_references
    MaxId,      \* the largest rowid SQLite hands out (2^63-1 in the program)
    Bodies,     \* what a document holds besides its reference fields: the text
                \* of an item of a vector collection, the rest of data elsewhere
    Kinds,      \* what the data of the documents is: a JSON "object" or "null"
    None,       \* an absent row, an unset or null field, an id left to SQLite
    Procs,      \* the requests that can be in flight at the same time
    Ops,        \* the write operations clients use in this instance
    Faults,     \* what can fail: "embed" (Ollama), "sql" (a statement), "crash"
    Batches,    \* the bodies of the bulk requests clients send
    Databases   \* the item tables the server may find when it opens the file

Ids == 1..MaxId
AllOps == {"insert", "bulk", "update", "delete"}
Values == [Fields -> Ids \cup {None}]
Row == [body : Bodies, kind : Kinds, data : Values]
Tables == [Colls -> [Ids -> Row \cup {None}]]
Doc == [id : Ids \cup {None}, body : Bodies, kind : Kinds, data : Values]
Reference == [coll : Colls, field : Fields, target : Colls,
              onDelete : {"restrict", "set_null"}]

(***************************************************************************)
(* The declared references of a document that are set, and the ones of a   *)
(* row of an items table that point at nothing.                            *)
(***************************************************************************)
SetRefs(c, d) == {r \in Refs : r.coll = c /\ d.data[r.field] # None}

(* A null has no fields: it decodes into a nil map, and nothing is set.     *)
Blank(d) == d.kind = "null" => \A f \in Fields : d.data[f] = None

Resolves(tables, r, v) == tables[r.target][v] # None

Consistent(tables) ==
    \A r \in Refs, i \in Ids :
        LET row == tables[r.coll][i]
        IN  (row # None /\ row.data[r.field] # None)
                => Resolves(tables, r, row.data[r.field])

(* The index holds the text of exactly the rows of the vector collections. *)
IndexOf(tables) ==
    [c \in Colls |-> [i \in Ids |->
        IF c \in VecColls /\ tables[c][i] # None THEN tables[c][i].body
                                                 ELSE None]]

ASSUME SchemaAssumption ==
    /\ VecColls \subseteq Colls
    /\ Refs \subseteq Reference
    /\ \A r, s \in Refs : (r.coll = s.coll /\ r.field = s.field) => r = s
ASSUME IdAssumption == MaxId \in Nat \ {0} /\ None \notin Ids
ASSUME NoneAssumption == None \notin Bodies /\ None \notin Row /\ None \notin AllOps
ASSUME WorkloadAssumption ==
    /\ Ops \subseteq AllOps
    /\ Faults \subseteq {"embed", "sql", "crash"}
    /\ Kinds \subseteq {"object", "null"}
    /\ Batches \subseteq Seq(Doc)
    /\ \A b \in Batches : Len(b) > 0
ASSUME DatabaseAssumption ==
    /\ Databases \subseteq Tables
    /\ \A t \in Databases :
        /\ Consistent(t)
        /\ \A c \in Colls, i \in Ids : t[c][i] # None => Blank(t[c][i])

-----------------------------------------------------------------------------
VARIABLES
    rows,   \* rows[c][i]: the item with id i of collection c, or None
    fts,    \* fts[c][i]: the text indexed under rowid i in c's FTS table
    seq,    \* seq[c]: sqlite_sequence, the largest id the table ever had
    frame   \* frame[p]: the local variables of the request p is serving

db == <<rows, fts, seq>>
vars == <<rows, fts, seq, frame>>

Labels == {"idle", "validate", "write", "fts", "deps", "load", "remove",
           "panic", "reply"}
Statuses == {200, 201, 204, 400, 404, 409, 500}

Frame ==
    [pc : Labels,
     op : AllOps \cup {None},
     coll : Colls \cup {None},           \* the collection of the URL
     id : Ids \cup {None},               \* the id of the URL, or the new id
     docs : Seq(Doc),                    \* what is about to be written
     k : Nat,                            \* index of the doc being prepared
     todo : SUBSET Refs,                 \* its references not looked up yet
     deps : SUBSET Refs,                 \* dependents not enforced yet
     dep : Refs \cup {None},             \* the set_null being enforced
     ids : SUBSET Ids,                   \* its matching rows not nulled yet
     status : Statuses \cup {None}]      \* its answer

Idle == [pc |-> "idle", op |-> None, coll |-> None, id |-> None,
         docs |-> <<>>, k |-> 0, todo |-> {}, deps |-> {}, dep |-> None,
         ids |-> {}, status |-> None]

(* The new state of a request that has its answer, or that ends in a panic: *)
(* what it held is gone.                                                    *)
Answered(f, s) == [Idle EXCEPT !.pc = "reply", !.op = f.op, !.status = s]
Panicked(f) == [Idle EXCEPT !.pc = "panic", !.op = f.op]

Goto(p, f) == frame' = [frame EXCEPT ![p] = f]
Answer(p, s) == Goto(p, Answered(frame[p], s))

At(p, label) == frame[p].pc = label

(* The collection being written: a delete writes the one it nulls.         *)
Written(f) == IF f.op = "delete" THEN f.dep.coll ELSE f.coll

\* Defect: the references of an update are not validated.
PreparingOnlyInserts(f, c, docs, k) ==
    [f EXCEPT !.pc = "validate", !.docs = docs, !.k = k,
              !.todo = IF f.op = "update" THEN {} ELSE SetRefs(c, docs[k])]

(* Next document of a write to validate and embed, from k on.              *)
Preparing(f, c, docs, k) ==
    [f EXCEPT !.pc = "validate", !.docs = docs, !.k = k,
              !.todo = SetRefs(c, docs[k])]

(* After a dependent has been dealt with: the next one, or the removal.    *)
Enforcing(f, deps) ==
    [f EXCEPT !.pc = IF deps = {} THEN "remove" ELSE "deps", !.deps = deps,
              !.dep = None, !.docs = <<>>, !.k = 0]

(***************************************************************************)
(* The request bodies of this schema: a field that c does not declare is   *)
(* part of the body, and so is a null where nothing is declared.  (Where   *)
(* something is, data that is neither an object nor null is refused before *)
(* any other check: such a request does nothing and is left out.)          *)
(***************************************************************************)
Declared(c) == {r.field : r \in {s \in Refs : s.coll = c}}

DocsFor(c) ==
    {d \in Doc :
        /\ \A f \in Fields : d.data[f] # None => f \in Declared(c)
        /\ d.kind = "null" => Blank(d) /\ Declared(c) # {}}

-----------------------------------------------------------------------------
Init ==
    /\ rows \in Databases
    /\ fts = IndexOf(rows)
    /\ seq \in [Colls -> 0..MaxId]
    /\ \A c \in Colls :
        /\ seq[c] # 0 => rows[c][seq[c]] # None
        /\ \A i \in Ids : rows[c][i] # None => i <= seq[c]
    /\ frame = [p \in Procs |-> Idle]

(***************************************************************************)
(* A request arrives.                                                      *)
(***************************************************************************)
StartInsert(p) ==
    /\ "insert" \in Ops /\ At(p, "idle")
    /\ \E c \in Colls : \E d \in DocsFor(c) :
        Goto(p, Preparing([Idle EXCEPT !.op = "insert", !.coll = c],
                          c, <<d>>, 1))
    /\ UNCHANGED db

StartBulk(p) ==
    /\ "bulk" \in Ops /\ At(p, "idle")
    /\ \E c \in Colls : \E b \in Batches :
        /\ \A k \in 1..Len(b) : b[k] \in DocsFor(c)
        /\ Goto(p, Preparing([Idle EXCEPT !.op = "bulk", !.coll = c],
                             c, b, 1))
    /\ UNCHANGED db

StartUpdate(p) ==
    /\ "update" \in Ops /\ At(p, "idle")
    /\ \E c \in Colls : \E d \in DocsFor(c) :
        /\ d.id # None
        /\ Goto(p, Preparing([Idle EXCEPT !.op = "update", !.coll = c],
                             c, <<d>>, 1))
    /\ UNCHANGED db

(* checkReferentialDelete begins by reading the references to c.           *)
StartDelete(p) ==
    /\ "delete" \in Ops /\ At(p, "idle")
    /\ \E c \in Colls, i \in Ids :
        Goto(p, Enforcing([Idle EXCEPT !.op = "delete", !.coll = c, !.id = i],
                          {r \in Refs : r.target = c}))
    /\ UNCHANGED db

(***************************************************************************)
(* validateReferences: one query per reference that is set; then the text  *)
(* of an item of a vector collection is embedded, a call to Ollama.        *)
(***************************************************************************)
CheckReference(p) ==
    LET f == frame[p] IN
    /\ At(p, "validate")
    /\ \E r \in f.todo :
        IF Resolves(rows, r, f.docs[f.k].data[r.field])
        THEN Goto(p, [f EXCEPT !.todo = @ \ {r}])
        ELSE Answer(p, 400)
    /\ UNCHANGED db

Prepared(p) ==
    LET f == frame[p] IN
    /\ At(p, "validate") /\ f.todo = {}
    /\ IF f.k < Len(f.docs)
       THEN Goto(p, Preparing(f, f.coll, f.docs, f.k + 1))
       ELSE Goto(p, [f EXCEPT !.pc = "write"])
    /\ UNCHANGED db

(* The call to Ollama, which has no timeout, is what comes next.            *)
WaitsForOllama(p) ==
    /\ At(p, "validate") /\ frame[p].todo = {}
    /\ Written(frame[p]) \in VecColls

EmbedFails(p) ==
    /\ "embed" \in Faults
    /\ WaitsForOllama(p)
    /\ Answer(p, 500)
    /\ UNCHANGED db

(***************************************************************************)
(* The ids SQLite gives the documents of an insert, in order: an explicit  *)
(* id must be free, an automatic one (AUTOINCREMENT) is one more than the  *)
(* largest the table ever had.  No assignment: the statement fails with a  *)
(* UNIQUE constraint, or because the last id is taken.                     *)
(***************************************************************************)
Assignments(c, docs) ==
    {ids \in [1..Len(docs) -> Ids] : \A k \in 1..Len(docs) :
        LET prior == {ids[j] : j \in 1..(k - 1)} IN
        /\ rows[c][ids[k]] = None
        /\ ids[k] \notin prior
        /\ IF docs[k].id # None
           THEN ids[k] = docs[k].id
           ELSE /\ ids[k] - 1 \in prior \cup {seq[c]}
                /\ \A i \in prior \cup {seq[c]} : i < ids[k]}

(* What a row holds of a document; the document of an id; the new ids.     *)
Content(d) == [body |-> d.body, kind |-> d.kind, data |-> d.data]
DocAt(docs, ids, i) == docs[CHOOSE k \in 1..Len(docs) : ids[k] = i]
New(docs, ids) == {ids[k] : k \in 1..Len(docs)}

(* docs are stored in c under ids; sqlite_sequence follows the largest id. *)
Store(c, docs, ids) ==
    /\ rows' = [rows EXCEPT ![c] = [i \in Ids |->
                   IF i \in New(docs, ids)
                   THEN Content(DocAt(docs, ids, i)) ELSE rows[c][i]]]
    /\ \E m \in New(docs, ids) \cup {seq[c]} :
        /\ \A i \in New(docs, ids) \cup {seq[c]} : i <= m
        /\ seq' = [seq EXCEPT ![c] = m]

\* Defect: only the text of the first document is indexed.
IndexOnlyFirst(c, docs, ids) ==
    fts' = [fts EXCEPT ![c][ids[1]] = docs[1].body]

(* Their texts are indexed under the same ids.                             *)
Index(c, docs, ids) ==
    fts' = [fts EXCEPT ![c] = [i \in Ids |->
               IF i \in New(docs, ids) THEN DocAt(docs, ids, i).body
                                       ELSE fts[c][i]]]

(***************************************************************************)
(* insertDocument: the row is committed by a statement of its own; for a   *)
(* vector collection the FTS row follows in a second one.                  *)
(***************************************************************************)
\* Defect: the id SQLite assigned is not kept for the second statement.
InsertRowForgetsId(p) ==
    LET f == frame[p] IN
    /\ At(p, "write") /\ f.op = "insert"
    /\ \E ids \in Assignments(f.coll, f.docs) : Store(f.coll, f.docs, ids)
    /\ Goto(p, IF f.coll \in VecColls THEN [f EXCEPT !.pc = "fts"]
                                      ELSE Answered(f, 201))
    /\ UNCHANGED fts

InsertRow(p) ==
    LET f == frame[p] IN
    /\ At(p, "write") /\ f.op = "insert"
    /\ \E ids \in Assignments(f.coll, f.docs) :
        /\ Store(f.coll, f.docs, ids)
        /\ Goto(p, IF f.coll \in VecColls
                   THEN [f EXCEPT !.pc = "fts", !.id = ids[1]]
                   ELSE Answered(f, 201))
    /\ UNCHANGED fts

InsertRefused(p) ==
    LET f == frame[p] IN
    /\ At(p, "write") /\ f.op = "insert"
    /\ Assignments(f.coll, f.docs) = {}
    /\ Answer(p, 500)
    /\ UNCHANGED db

(* An FTS5 insert fails when the rowid is already indexed.                 *)
InsertFullText(p) ==
    LET f == frame[p] IN
    /\ At(p, "fts")
    /\ IF fts[f.coll][f.id] = None
       THEN /\ fts' = [fts EXCEPT ![f.coll][f.id] = f.docs[1].body]
            /\ Answer(p, 201)
       ELSE /\ Answer(p, 500)
            /\ UNCHANGED fts
    /\ UNCHANGED <<rows, seq>>

(***************************************************************************)
(* insertDocumentBulk: the rows and their FTS rows in one transaction,     *)
(* rolled back as a whole if any statement fails.                          *)
(***************************************************************************)
BatchIds(c, docs) ==
    {ids \in Assignments(c, docs) :
        c \in VecColls => \A k \in 1..Len(docs) : fts[c][ids[k]] = None}

BulkCommit(p) ==
    LET f == frame[p] IN
    /\ At(p, "write") /\ f.op = "bulk"
    /\ \E ids \in BatchIds(f.coll, f.docs) :
        /\ Store(f.coll, f.docs, ids)
        /\ IF f.coll \in VecColls THEN Index(f.coll, f.docs, ids)
                                  ELSE UNCHANGED fts
    /\ Answer(p, 201)

\* Defect: every document is committed on its own; the first one stays.
BulkRollbackKeepsPrefix(p) ==
    LET f == frame[p]
        first == <<f.docs[1]>>
    IN
    /\ At(p, "write") /\ f.op = "bulk" /\ BatchIds(f.coll, f.docs) = {}
    /\ \E ids \in BatchIds(f.coll, first) :
        /\ Store(f.coll, first, ids)
        /\ IF f.coll \in VecColls THEN Index(f.coll, first, ids)
                                  ELSE UNCHANGED fts
    /\ Answer(p, 500)

BulkRollback(p) ==
    LET f == frame[p] IN
    /\ At(p, "write") /\ f.op = "bulk"
    /\ BatchIds(f.coll, f.docs) = {}
    /\ Answer(p, 500)
    /\ UNCHANGED db

(***************************************************************************)
(* updateDocument, called by PUT and for every row a delete nulls: UPDATE  *)
(* in a plain collection; delete, insert and reindex in one transaction in *)
(* a vector one.  No row with that id: PUT answers 404, a delete goes on.  *)
(***************************************************************************)
\* Defect: the text is not indexed again.
ReplaceKeepsText(c, d) ==
    /\ rows' = [rows EXCEPT ![c][d.id] = Content(d)]
    /\ UNCHANGED <<fts, seq>>

Replace(c, d) ==
    /\ rows' = [rows EXCEPT ![c][d.id] = Content(d)]
    /\ fts' = IF c \in VecColls THEN [fts EXCEPT ![c][d.id] = d.body] ELSE fts
    /\ UNCHANGED seq

UpdateRow(p) ==
    LET f == frame[p]
        d == f.docs[1]
    IN
    /\ At(p, "write") /\ f.op = "update"
    /\ IF rows[f.coll][d.id] # None
       THEN Replace(f.coll, d) /\ Answer(p, 200)
       ELSE UNCHANGED db /\ Answer(p, 404)

\* Defect: only the first matching row is nulled.
NullRowOnce(p) ==
    LET f == frame[p]
        d == f.docs[1]
    IN
    /\ At(p, "write") /\ f.op = "delete"
    /\ IF rows[f.dep.coll][d.id] # None THEN Replace(f.dep.coll, d)
                                        ELSE UNCHANGED db
    /\ Goto(p, Enforcing([f EXCEPT !.ids = {}], f.deps \ {f.dep}))

\* Defect: an upsert instead of an update.
NullRowUpsert(p) ==
    LET f == frame[p] IN
    /\ At(p, "write") /\ f.op = "delete"
    /\ Replace(f.dep.coll, f.docs[1])
    /\ Goto(p, IF f.ids = {} THEN Enforcing(f, f.deps \ {f.dep})
                             ELSE [f EXCEPT !.pc = "load", !.docs = <<>>,
                                            !.k = 0])

NullRow(p) ==
    LET f == frame[p]
        d == f.docs[1]
    IN
    /\ At(p, "write") /\ f.op = "delete"
    /\ IF rows[f.dep.coll][d.id] # None THEN Replace(f.dep.coll, d)
                                        ELSE UNCHANGED db
    /\ Goto(p, IF f.ids = {} THEN Enforcing(f, f.deps \ {f.dep})
                             ELSE [f EXCEPT !.pc = "load", !.docs = <<>>,
                                            !.k = 0])

(***************************************************************************)
(* checkReferentialDelete, one dependent at a time: the rows that point at *)
(* the item are read; restrict refuses, set_null loads each one again,     *)
(* nulls the field in that copy and hands the copy to updateDocument.  A   *)
(* row that another request has made null meanwhile decodes into a nil     *)
(* map: the assignment to it panics, net/http recovers the goroutine and   *)
(* closes the connection, and the client has no answer.                    *)
(***************************************************************************)
\* Defect: a document without the field matches as well.
MatchingUnset(r, i) ==
    {j \in Ids : rows[r.coll][j] # None
                 /\ rows[r.coll][j].data[r.field] \in {i, None}}

Matching(r, i) ==
    {j \in Ids : rows[r.coll][j] # None /\ rows[r.coll][j].data[r.field] = i}

ScanDependent(p) ==
    LET f == frame[p] IN
    /\ At(p, "deps")
    /\ \E r \in f.deps :
        \/ /\ Matching(r, f.id) = {}
           /\ Goto(p, Enforcing(f, f.deps \ {r}))
        \/ /\ Matching(r, f.id) # {} /\ r.onDelete = "restrict"
           /\ Answer(p, 409)
        \/ /\ Matching(r, f.id) # {} /\ r.onDelete = "set_null"
           /\ Goto(p, [f EXCEPT !.pc = "load", !.dep = r,
                                !.ids = Matching(r, f.id)])
    /\ UNCHANGED db

\* Defect: the data is rewritten without any of its references.
NulledCopyDropsAll(r, j) ==
    [id |-> j, body |-> rows[r.coll][j].body, kind |-> rows[r.coll][j].kind,
     data |-> [f \in Fields |-> None]]

NulledCopy(r, j) ==
    [id |-> j, body |-> rows[r.coll][j].body, kind |-> rows[r.coll][j].kind,
     data |-> [rows[r.coll][j].data EXCEPT ![r.field] = None]]

\* Defect: the row just loaded stays in the list.
LoadReferencingForever(p) ==
    LET f == frame[p] IN
    /\ At(p, "load")
    /\ \E j \in f.ids :
        IF rows[f.dep.coll][j] # None
        THEN Goto(p, Preparing(f, f.dep.coll, <<NulledCopy(f.dep, j)>>, 1))
        ELSE Answer(p, 500)
    /\ UNCHANGED db

LoadReferencing(p) ==
    LET f == frame[p] IN
    /\ At(p, "load")
    /\ \E j \in f.ids :
        LET row == rows[f.dep.coll][j] IN
        \/ row = None /\ Answer(p, 500)
        \/ row # None /\ row.kind = "null" /\ Goto(p, Panicked(f))
        \/ /\ row # None /\ row.kind # "null"
           /\ Goto(p, Preparing([f EXCEPT !.ids = @ \ {j}], f.dep.coll,
                                <<NulledCopy(f.dep, j)>>, 1))
    /\ UNCHANGED db

\* Defect: the text of the deleted row stays indexed.
RemoveRowKeepsText(p) ==
    LET f == frame[p] IN
    /\ At(p, "remove")
    /\ IF rows[f.coll][f.id] # None
       THEN /\ rows' = [rows EXCEPT ![f.coll][f.id] = None]
            /\ UNCHANGED <<fts, seq>>
            /\ Answer(p, 204)
       ELSE UNCHANGED db /\ Answer(p, 404)

(* deleteDocument's transaction: the row and its FTS row.                  *)
RemoveRow(p) ==
    LET f == frame[p] IN
    /\ At(p, "remove")
    /\ IF rows[f.coll][f.id] # None
       THEN /\ rows' = [rows EXCEPT ![f.coll][f.id] = None]
            /\ fts' = IF f.coll \in VecColls
                      THEN [fts EXCEPT ![f.coll][f.id] = None] ELSE fts
            /\ UNCHANGED seq
            /\ Answer(p, 204)
       ELSE UNCHANGED db /\ Answer(p, 404)

(***************************************************************************)
(* Failures: any statement may return an error (a full disk, a lock held   *)
(* beyond busy_timeout), which ends the request with a 500 and rolls its   *)
(* transaction back; validateReferences reports any failure to look up the *)
(* target collection as a bad reference, a 400.  The process may die       *)
(* between any two statements, and every request dies with it.             *)
(***************************************************************************)
StatementFails(p) ==
    /\ "sql" \in Faults
    /\ \E s \in {400, 500} :
        /\ \/ s = 500 /\ frame[p].pc \in {"write", "fts", "deps", "load",
                                        "remove"}
           \/ At(p, "validate") /\ frame[p].todo # {}
        /\ Answer(p, s)
    /\ UNCHANGED db

Crash ==
    /\ "crash" \in Faults
    /\ frame' = [p \in Procs |-> Idle]
    /\ UNCHANGED db

(* The handler returns, or its goroutine has been recovered.               *)
Respond(p) ==
    /\ At(p, "reply") \/ At(p, "panic")
    /\ Goto(p, Idle)
    /\ UNCHANGED db

Start(p) ==
    StartInsert(p) \/ StartBulk(p) \/ StartUpdate(p) \/ StartDelete(p)

Serve(p) ==
    \/ CheckReference(p) \/ Prepared(p) \/ EmbedFails(p)
    \/ InsertRow(p) \/ InsertRefused(p) \/ InsertFullText(p)
    \/ BulkCommit(p) \/ BulkRollback(p) \/ UpdateRow(p)
    \/ ScanDependent(p) \/ LoadReferencing(p) \/ NullRow(p) \/ RemoveRow(p)
    \/ StatementFails(p) \/ Respond(p)

Next == Crash \/ \E p \in Procs : Start(p) \/ Serve(p)

Spec == Init /\ [][Next]_vars

(***************************************************************************)
(* A goroutine the Go scheduler runs takes its next step, unless that is a *)
(* call to Ollama, which may never return.                                 *)
(***************************************************************************)
FairSpec ==
    Spec /\ \A p \in Procs : WF_vars(Serve(p) /\ ~WaitsForOllama(p))

-----------------------------------------------------------------------------
(***************************************************************************)
(* Properties.                                                             *)
(***************************************************************************)

(* Which locals of a handler are set, by where it is.                      *)
LocalsOK(f) ==
    /\ f.pc \in {"validate", "write", "fts"} =>
        /\ f.k \in 1..Len(f.docs)
        /\ f.op \in AllOps /\ f.op \in Ops
        /\ f.op # "delete" => f.coll \in Colls
        /\ f.op # "bulk" => Len(f.docs) = 1
        /\ f.op \in {"update", "delete"} => f.docs[1].id \in Ids
        /\ f.op = "delete" => f.dep \in Refs
    /\ f.pc = "fts" => f.op = "insert" /\ f.coll \in VecColls /\ f.id \in Ids
    /\ f.pc \in {"deps", "load", "remove"} => f.op = "delete"
    /\ f.pc = "load" => f.dep \in Refs
    /\ (f.op = "delete" /\ f.pc \notin {"reply", "panic"}) =>
        "delete" \in Ops /\ f.coll \in Colls /\ f.id \in Ids
    /\ f.todo # {} => f.pc = "validate"

\* Every variable keeps its type, and every handler has set the locals its
\* next statement uses.
TypeOK ==
    /\ rows \in Tables
    /\ fts \in [Colls -> [Ids -> Bodies \cup {None}]]
    /\ seq \in [Colls -> 0..MaxId]
    /\ frame \in [Procs -> Frame]
    /\ \A p \in Procs : LocalsOK(frame[p])

\* No document points at a document that is not there: what validateReferences
\* and checkReferentialDelete are for ("validado en cada insert/update, con
\* restrict o set_null al borrar", README.md:538).
RefIntegrity == Consistent(rows)

\* The full-text index holds exactly the texts of the vector collections'
\* rows ("so the two tables stay 1:1 joinable by id", fulltext.go:49).
FtsInSync == fts = IndexOf(rows)

\* The same, whenever no insertDocument is between its two commits.
SettledSync == (\A p \in Procs : ~At(p, "fts")) => FtsInSync

Succeeds(f) == f.pc = "reply" /\ f.status \in {200, 201}

Indexed(c, i) == fts[c][i] = IndexOf(rows)[c][i]
Unfinished(p, c, i) == At(p, "fts") /\ frame[p].coll = c /\ frame[p].id = i
Drifted(c, i) == ~Indexed(c, i) /\ \A p \in Procs : ~Unfinished(p, c, i)

\* Whatever crashes, fails, is updated or deleted: a document and its entry of
\* the index part for good only in the step that ends an insertDocument of
\* that very id between its two commits.  No batch, update, set_null or delete
\* ever parts them ("so the two tables stay 1:1 joinable by id",
\* fulltext.go:49; "so the two never drift out of sync", collections.go:776).
IndexDrift ==
    [][\A c \in Colls, i \in Ids :
          (~Drifted(c, i) /\ Drifted(c, i)') =>
              \E p \in Procs : Unfinished(p, c, i) /\ ~Unfinished(p, c, i)']_vars

\* An insert into a vector collection that answers 201 leaves the document and
\* its entry of the index with one text, although updates may have replaced
\* the document between the two commits of insertDocument.
InsertsIndexed ==
    [][\A p \in Procs :
          (At(p, "fts") /\ Succeeds(frame'[p])) =>
              LET c == frame[p].coll
                  i == frame[p].id
              IN  fts'[c][i] = IndexOf(rows')[c][i]]_vars

(* The tables hold document d of collection c under the id i, text and all. *)
Holds(items, index, c, i, d) ==
    /\ items[c][i] = Content(d)
    /\ c \in VecColls => index[c][i] = d.body

(* A step stores the documents of f, each under an id of its own: new ones *)
(* for a batch, those of the URL for an update.  It changes no other id.   *)
Lands(f) ==
    \E ids \in [1..Len(f.docs) -> Ids] :
        /\ \A j, k \in 1..Len(f.docs) : ids[j] = ids[k] => j = k
        /\ \A k \in 1..Len(f.docs) :
            /\ f.docs[k].id # None => ids[k] = f.docs[k].id
            /\ (rows[f.coll][ids[k]] = None) <=> (f.op = "bulk")
            /\ Holds(rows', fts', f.coll, ids[k], f.docs[k])
        /\ \A c \in Colls, i \in Ids :
            \/ c = f.coll /\ \E k \in 1..Len(f.docs) : i = ids[k]
            \/ rows'[c][i] = rows[c][i] /\ fts'[c][i] = fts[c][i]

\* A bulk insert or an update stores all of its documents, with their entries
\* of the index, in the one step that answers with success, and overwrites no
\* other one; no other step of it leaves a row, an entry or an id behind:
\* insertDocumentBulk's "either the whole batch lands or none of it does",
\* updateDocument's transaction.
AtomicOutcome ==
    [][\A p \in Procs :
          (frame[p].op \in {"bulk", "update"} /\ frame'[p] # frame[p]) =>
              IF Succeeds(frame'[p]) THEN Lands(frame[p])
                                     ELSE UNCHANGED db]_vars

\* A delete changes nothing while a restrict reference to its document stands
\* in its way ("409 (no borra nada)", README.md:669).
RefusedDeleteChangesNothing ==
    [][\A p \in Procs :
          (frame[p].op = "delete" /\ frame'[p] # frame[p]) =>
              \/ UNCHANGED db
              \/ \A r \in Refs :
                    (r.target = frame[p].coll /\ r.onDelete = "restrict")
                        => Matching(r, frame[p].id) = {}]_vars

\* Only an insert makes a document appear: an update, or a delete's set_null
\* with the copy it loaded earlier, never brings back a row that another
\* request deleted meanwhile (the RowsAffected checks of updateDocument).
NoResurrection ==
    [][\A c \in Colls, i \in Ids :
          (rows[c][i] = None /\ rows'[c][i] # None) =>
              \E p \in Procs : /\ frame[p].op \in {"insert", "bulk"}
                               /\ frame'[p] # frame[p]]_vars

\* What a delete may do to the tables: remove its own row, or put null in a
\* set_null field that pointed at it, leaving the rest of that document as it
\* is at that moment (TestReferenceSetNullOnDelete, references_test.go:159).
DeleteTouchesOnlyReferences ==
    [][\A p \in Procs :
          (frame[p].op = "delete" /\ frame'[p] # frame[p]) =>
              \A c \in Colls, i \in Ids :
                  \/ rows'[c][i] = rows[c][i]
                  \/ /\ rows'[c][i] = None
                     /\ c = frame[p].coll /\ i = frame[p].id
                  \/ \E r \in Refs :
                        /\ r.coll = c /\ r.target = frame[p].coll
                        /\ r.onDelete = "set_null"
                        /\ rows[c][i] # None
                        /\ rows[c][i].data[r.field] = frame[p].id
                        /\ rows'[c][i] =
                             [rows[c][i] EXCEPT !.data[r.field] = None]]_vars

\* Every request is answered, or panics, or waits for Ollama for ever: the
\* dependents and the rows to null run out whatever other requests do to them,
\* and no step waits for another request.
EveryRequestAnswered ==
    \A p \in Procs :
        ~At(p, "idle") ~>
            (At(p, "reply") \/ At(p, "panic") \/ []WaitsForOllama(p))

\* No delete panics on the data it is about to null: what the query of
\* checkReferentialDelete found is an object with the field in it, and stays
\* one until it is loaded (TestReferenceSetNullOnDelete, references_test.go:159).
NoPanic == \A p \in Procs : ~At(p, "panic")

=============================================================================
