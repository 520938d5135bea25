------------------------- MODULE DeletesAloneProofs -------------------------
(***************************************************************************)
(* What a delete of Documents does when no other request that writes is    *)
(* under way: it leaves no dangling reference and touches nothing but what *)
(* checkReferentialDelete is for.  Any number of inserts, bulk inserts and *)
(* updates may race with each other, and anything may fail.  The server    *)
(* does not keep deletes alone: the runs DocsOrphan and DocsRestrictRace   *)
(* show what happens when they are not.                                    *)
(***************************************************************************)
EXTENDS DocumentsProofs

Deleting(f) == f.op = "delete" /\ f.pc \notin {"idle", "panic", "reply"}

DeletesAlone ==
    \A p, q \in Procs :
        (p # q /\ Deleting(frame[p])) =>
            frame[q].pc \in {"idle", "panic", "reply"}

(* The rows that point at item i through reference r.                      *)
Pointing(tables, r, i) ==
    {j \in Ids : tables[r.coll][j] # None /\ tables[r.coll][j].data[r.field] = i}

Copy(tables, r, j) ==
    [id |-> j, body |-> tables[r.coll][j].body, kind |-> tables[r.coll][j].kind,
     data |-> [tables[r.coll][j].data EXCEPT ![r.field] = None]]

(* What the scans of a delete tell it, as long as it is alone: nothing      *)
(* points at its item through a reference it has dealt with, ids are the    *)
(* rows it still has to null, and the copy it holds is that of the row.     *)
Enforced(tables, f) ==
    /\ f.deps \subseteq {r \in Refs : r.target = f.coll}
    /\ \A r \in Refs : (r.target = f.coll /\ r \notin f.deps)
                            => Pointing(tables, r, f.id) = {}
    /\ f.pc = "remove" => f.deps = {}
Nulling(tables, f) ==
    /\ f.pc \in {"load", "validate", "write"} =>
        f.dep \in f.deps /\ f.dep.onDelete = "set_null"
    /\ f.pc = "load" => f.ids = Pointing(tables, f.dep, f.id)
    /\ f.pc \in {"validate", "write"} =>
        \E j \in Pointing(tables, f.dep, f.id) :
            /\ f.ids = Pointing(tables, f.dep, f.id) \ {j}
            /\ f.docs = <<Copy(tables, f.dep, j)>>
Knows(tables, f) == Enforced(tables, f) /\ Nulling(tables, f)

AloneInv ==
    /\ RefIntegrity
    /\ \A p \in Procs : IF Deleting(frame[p]) THEN Knows(rows, frame[p])
                                              ELSE Checked(rows, frame[p])

-----------------------------------------------------------------------------
(***************************************************************************)
(* A null has no reference that is set: neither in the tables, nor in what *)
(* a handler is about to write.                                            *)
(***************************************************************************)
BlankDocs(f) == \A k \in 1..Len(f.docs) : Blank(f.docs[k])

BlankInv ==
    /\ \A c \in Colls, i \in Ids : rows[c][i] # None => Blank(rows[c][i])
    /\ \A p \in Procs : BlankDocs(frame[p])

\* A handler goes on with the operation it has begun, and with documents that
\* came from the client or are an object read from the tables.
LEMMA ServeLocals ==
    ASSUME TypeOK, NEW p \in Procs, Serve(p)
    PROVE  /\ frame'[p].op = frame[p].op \/ frame'[p] = Idle
           /\ BlankDocs(frame[p]) => BlankDocs(frame'[p])
<1> DEFINE f == frame[p]
<1>1. f \in Frame /\ BlankDocs(Idle)
  BY DEF TypeOK, BlankDocs, Idle
<1>2. ASSUME NEW g, Goto(p, g)
      PROVE  frame'[p] = g
  BY <1>2 DEF Goto, TypeOK
<1>3. ASSUME NEW g, Goto(p, g), g.op = f.op, g.docs \in {f.docs, <<>>}
      PROVE  /\ frame'[p].op = f.op
             /\ BlankDocs(f) => BlankDocs(frame'[p])
  BY <1>2, <1>3 DEF BlankDocs
<1>4. ASSUME NEW s, Answer(p, s)
      PROVE  /\ frame'[p].op = f.op
             /\ BlankDocs(f) => BlankDocs(frame'[p])
  <2>1. Answered(f, s).op = f.op /\ Answered(f, s).docs = <<>>
    BY DEF Answered, Idle
  <2>2. Goto(p, Answered(f, s))
    BY <1>4 DEF Answer
  <2>. QED BY <1>3, <2>1, <2>2
<1>5. CASE CheckReference(p)
  <2>1. PICK r : \/ Goto(p, [f EXCEPT !.todo = f.todo \ {r}])
                 \/ Answer(p, 400)
    BY <1>5 DEF CheckReference
  <2> DEFINE g == [f EXCEPT !.todo = f.todo \ {r}]
  <2>2. g.op = f.op /\ g.docs = f.docs
    BY <1>1 DEF Frame
  <2>3. Goto(p, g) \/ Answer(p, 400)
    BY <2>1
  <2> HIDE DEF g
  <2>. QED BY <1>3, <1>4, <2>2, <2>3
<1>6. CASE Prepared(p)
  <2>1. PICK g \in {Preparing(f, f.coll, f.docs, f.k + 1),
                    [f EXCEPT !.pc = "write"]} : Goto(p, g)
    BY <1>6 DEF Prepared
  <2>2. g.op = f.op /\ g.docs = f.docs
    BY <1>1, <2>1 DEF Preparing, Frame
  <2>. QED BY <1>3, <2>1, <2>2
<1>7. CASE InsertRow(p)
  <2>1. PICK i : Goto(p, IF f.coll \in VecColls
                         THEN [f EXCEPT !.pc = "fts", !.id = i]
                         ELSE Answered(f, 201))
    BY <1>7 DEF InsertRow
  <2> DEFINE g == [f EXCEPT !.pc = "fts", !.id = i]
  <2>2. g.op = f.op /\ g.docs = f.docs
    BY <1>1 DEF Frame
  <2>3. Goto(p, g) \/ Answer(p, 201)
    BY <2>1 DEF Answer
  <2> HIDE DEF g
  <2>. QED BY <1>3, <1>4, <2>2, <2>3
<1>8. CASE \/ EmbedFails(p) \/ InsertRefused(p) \/ BulkRollback(p)
           \/ InsertFullText(p) \/ BulkCommit(p) \/ UpdateRow(p) \/ RemoveRow(p)
           \/ StatementFails(p)
  <2>1. \E s : Answer(p, s)
    <3>1. CASE EmbedFails(p) \/ InsertRefused(p) \/ BulkRollback(p)
      BY <3>1 DEF EmbedFails, InsertRefused, BulkRollback
    <3>2. CASE InsertFullText(p) \/ BulkCommit(p)
      BY <3>2 DEF InsertFullText, BulkCommit
    <3>3. CASE UpdateRow(p) \/ RemoveRow(p)
      BY <3>3 DEF UpdateRow, RemoveRow
    <3>4. CASE StatementFails(p)
      BY <3>4 DEF StatementFails
    <3>. QED BY <1>8, <3>1, <3>2, <3>3, <3>4
  <2>. QED BY <1>4, <2>1
<1>9. CASE ScanDependent(p)
  <2>1. PICK r \in f.deps :
            \/ Goto(p, Enforcing(f, f.deps \ {r}))
            \/ Answer(p, 409)
            \/ Goto(p, [f EXCEPT !.pc = "load", !.dep = r,
                                 !.ids = Matching(r, f.id)])
    BY <1>9 DEF ScanDependent
  <2> DEFINE g == [f EXCEPT !.pc = "load", !.dep = r, !.ids = Matching(r, f.id)]
             e == Enforcing(f, f.deps \ {r})
  <2>2. g.op = f.op /\ g.docs = f.docs /\ e.op = f.op /\ e.docs = <<>>
    BY <1>1 DEF Frame, Enforcing
  <2>3. Goto(p, e) \/ Answer(p, 409) \/ Goto(p, g)
    BY <2>1
  <2> HIDE DEF g, e
  <2>. QED BY <1>3, <1>4, <2>2, <2>3
<1>10. CASE LoadReferencing(p)
  <2>1. PICK j \in f.ids :
            \/ /\ rows[f.dep.coll][j].kind # "null"
               /\ Goto(p, Preparing([f EXCEPT !.ids = f.ids \ {j}], f.dep.coll,
                                    <<NulledCopy(f.dep, j)>>, 1))
            \/ Goto(p, Panicked(f))
            \/ Answer(p, 500)
    BY <1>10 DEF LoadReferencing
  <2> DEFINE h == [f EXCEPT !.ids = f.ids \ {j}]
             docs == <<NulledCopy(f.dep, j)>>
             g == Preparing(h, f.dep.coll, docs, 1)
  <2>2. g.op = f.op /\ g.docs = docs /\ Panicked(f).op = f.op
        /\ Panicked(f).docs = <<>>
    BY <1>1 DEF Preparing, Frame, Panicked, Idle
  <2>3. CASE rows[f.dep.coll][j].kind # "null" /\ Goto(p, g)
    <3>1. Len(docs) = 1 /\ docs[1] = NulledCopy(f.dep, j)
      OBVIOUS
    <3>2. Blank(docs[1])
      <4> HIDE DEF docs
      <4>. QED BY <2>3, <3>1 DEF NulledCopy, Blank
    <3> HIDE DEF docs, g
    <3>3. frame'[p] = g
      BY <1>2, <2>3
    <3>. QED BY <2>2, <3>1, <3>2, <3>3 DEF BlankDocs
  <2>4. \/ rows[f.dep.coll][j].kind # "null" /\ Goto(p, g)
        \/ Goto(p, Panicked(f)) \/ Answer(p, 500)
    BY <2>1
  <2> HIDE DEF g, docs
  <2>. QED BY <1>3, <1>4, <2>2, <2>3, <2>4
<1>11. CASE NullRow(p)
  <2> DEFINE g == [f EXCEPT !.pc = "load", !.docs = <<>>, !.k = 0]
             e == Enforcing(f, f.deps \ {f.dep})
  <2>1. Goto(p, e) \/ Goto(p, g)
    BY <1>11 DEF NullRow
  <2>2. g.op = f.op /\ g.docs = <<>> /\ e.op = f.op /\ e.docs = <<>>
    BY <1>1 DEF Frame, Enforcing
  <2> HIDE DEF g, e
  <2>. QED BY <1>3, <2>1, <2>2
<1>12. CASE Respond(p)
  BY <1>1, <1>2, <1>12 DEF Respond
<1>. QED BY <1>5, <1>6, <1>7, <1>8, <1>9, <1>10, <1>11, <1>12 DEF Serve

\* A request begins with documents a client may send.
LEMMA StartDocs ==
    ASSUME TypeOK, NEW p \in Procs, Start(p)
    PROVE  BlankDocs(frame'[p])
<1>1. ASSUME NEW h, NEW c, NEW docs, Goto(p, Preparing(h, c, docs, 1)),
             h \in Frame, \A k \in 1..Len(docs) : Blank(docs[k])
      PROVE  BlankDocs(frame'[p])
  <2>1. frame'[p].docs = docs
    BY <1>1 DEF Preparing, Frame, Goto, TypeOK
  <2>. QED BY <1>1, <2>1 DEF BlankDocs
<1>2. ASSUME NEW op \in AllOps, NEW c \in Colls
      PROVE  [Idle EXCEPT !.op = op, !.coll = c] \in Frame
  BY IdleFrame DEF Frame, Idle
<1>3. \A c : \A d \in DocsFor(c) : Blank(d)
  BY DEF DocsFor, Blank
<1>4. CASE StartInsert(p) \/ StartUpdate(p)
  <2>1. \E op \in AllOps, c \in Colls : \E d \in DocsFor(c) :
            Goto(p, Preparing([Idle EXCEPT !.op = op, !.coll = c],
                              c, <<d>>, 1))
    BY <1>4 DEF StartInsert, StartUpdate, AllOps
  <2>2. PICK op \in AllOps, c \in Colls : \E d \in DocsFor(c) :
            Goto(p, Preparing([Idle EXCEPT !.op = op, !.coll = c],
                              c, <<d>>, 1))
    BY <2>1
  <2>3. PICK d \in DocsFor(c) :
            Goto(p, Preparing([Idle EXCEPT !.op = op, !.coll = c],
                              c, <<d>>, 1))
    BY <2>2
  <2> DEFINE docs == <<d>>
             h == [Idle EXCEPT !.op = op, !.coll = c]
  <2>4. \A k \in 1..Len(docs) : Blank(docs[k])
    BY <1>3
  <2>5. h \in Frame /\ Goto(p, Preparing(h, c, docs, 1))
    BY <1>2, <2>3
  <2> HIDE DEF docs, h
  <2>. QED BY <1>1, <2>4, <2>5
<1>5. CASE StartBulk(p)
  <2>1. PICK c \in Colls, b \in Batches :
            /\ \A k \in 1..Len(b) : b[k] \in DocsFor(c)
            /\ Goto(p, Preparing([Idle EXCEPT !.op = "bulk", !.coll = c],
                                 c, b, 1))
    BY <1>5 DEF StartBulk
  <2> DEFINE h == [Idle EXCEPT !.op = "bulk", !.coll = c]
  <2>2. h \in Frame /\ Goto(p, Preparing(h, c, b, 1))
    BY <1>2, <2>1 DEF AllOps
  <2> HIDE DEF h
  <2>. QED BY <1>1, <1>3, <2>1, <2>2
<1>6. CASE StartDelete(p)
  <2>1. PICK c \in Colls, i \in Ids :
            Goto(p, Enforcing([Idle EXCEPT !.op = "delete", !.coll = c, !.id = i],
                              {r \in Refs : r.target = c}))
    BY <1>6 DEF StartDelete
  <2>2. frame'[p].docs = <<>>
    BY <2>1 DEF Enforcing, Idle, Goto, TypeOK
  <2>. QED BY <2>2 DEF BlankDocs
<1>. QED BY <1>4, <1>5, <1>6 DEF Start

\* A write stores what the handler holds; the other rows stay, or go.
LEMMA BlankRows ==
    ASSUME TypeOK, BlankInv, NEW p \in Procs, Serve(p),
           NEW c \in Colls, NEW i \in Ids, rows'[c][i] # None
    PROVE  Blank(rows'[c][i])
<1>1. ASSUME rows'[c][i] = rows[c][i]
      PROVE  Blank(rows'[c][i])
  BY <1>1 DEF BlankInv
<1>2. ASSUME NEW d \in Doc, Blank(d), rows'[c][i] = Content(d)
      PROVE  Blank(rows'[c][i])
  BY <1>2, RowType DEF Blank
<1>3. ASSUME frame[p].pc \in {"validate", "write", "fts"}
      PROVE  /\ frame[p].docs \in Seq(Doc)
             /\ \A k \in 1..Len(frame[p].docs) :
                   frame[p].docs[k] \in Doc /\ Blank(frame[p].docs[k])
             /\ frame[p].op # "bulk" => 1 \in 1..Len(frame[p].docs)
  BY <1>3 DEF BlankInv, BlankDocs, TypeOK, Frame, LocalsOK
<1>4. CASE InsertRow(p)
  <2>1. frame[p].docs[1] \in Doc /\ Blank(frame[p].docs[1])
    BY <1>3, <1>4 DEF InsertRow, At
  <2>. QED BY <1>1, <1>2, <1>4, <2>1, InsertRowStep
<1>5. CASE InsertFullText(p)
  BY <1>1, <1>5, FullTextStep
<1>6. CASE BulkCommit(p)
  <2> DEFINE f == frame[p]
  <2>1. PICK ids \in [1..Len(f.docs) -> Ids] :
            /\ \A k \in 1..Len(f.docs) :
                  rows'[f.coll][ids[k]] = Content(f.docs[k])
            /\ \A b \in Colls, j \in Ids :
                \/ b = f.coll /\ \E k \in 1..Len(f.docs) : j = ids[k]
                \/ rows'[b][j] = rows[b][j] /\ fts'[b][j] = fts[b][j]
    BY <1>6, BulkStep
  <2>2. CASE c = f.coll /\ \E k \in 1..Len(f.docs) : i = ids[k]
    <3>1. PICK k \in 1..Len(f.docs) : i = ids[k]
      BY <2>2
    <3>2. f.docs[k] \in Doc /\ Blank(f.docs[k])
      BY <1>3, <1>6 DEF BulkCommit, At
    <3>. QED BY <1>2, <2>1, <2>2, <3>1, <3>2
  <2>. QED BY <1>1, <2>1, <2>2
<1>7. ASSUME NEW a \in Colls, NEW d \in Doc, d.id \in Ids, Blank(d),
             Replace(a, d)
      PROVE  Blank(rows'[c][i])
  BY <1>1, <1>2, <1>7, ReplaceStep
<1>8. CASE UpdateRow(p) \/ NullRow(p)
  <2>1. frame[p].docs[1] \in Doc /\ Blank(frame[p].docs[1])
    BY <1>3, <1>8, UpdateStep, NullStep DEF UpdateRow, NullRow, At
  <2>2. CASE db' = db
    BY <1>1, <2>2 DEF db
  <2>. QED BY <1>7, <1>8, <2>1, <2>2, UpdateStep, NullStep
<1>9. CASE RemoveRow(p)
  <2>1. CASE db' = db
    BY <1>1, <2>1 DEF db
  <2>. QED BY <1>1, <1>9, <2>1, RemoveStep
<1>10. CASE db' = db
  BY <1>1, <1>10 DEF db
<1>. QED BY <1>4, <1>5, <1>6, <1>8, <1>9, <1>10, OtherSteps DEF Writes, Quiet

LEMMA BlankInit == Init => BlankInv
BY DatabaseAssumption DEF Init, BlankInv, BlankDocs, Idle

LEMMA BlankNext ==
    ASSUME TypeOK, BlankInv, [Next]_vars
    PROVE  BlankInv'
<1>1. CASE Crash
  BY <1>1 DEF Crash, BlankInv, BlankDocs, Idle, db
<1>2. CASE UNCHANGED vars
  BY <1>2 DEF vars, BlankInv
<1>3. ASSUME NEW p \in Procs, Start(p) \/ Serve(p)
      PROVE  BlankInv'
  <2>1. ASSUME NEW q \in Procs
        PROVE  BlankDocs(frame'[q])
    <3>1. CASE q # p
      BY <1>3, <3>1, StepFrame DEF BlankInv
    <3>2. CASE q = p
      BY <1>3, <3>2, StartDocs, ServeLocals DEF BlankInv
    <3>. QED BY <3>1, <3>2
  <2>2. ASSUME NEW c \in Colls, NEW i \in Ids, rows'[c][i] # None
        PROVE  Blank(rows'[c][i])
    <3>1. CASE Start(p)
      BY <2>2, <3>1, StartStep DEF db, BlankInv
    <3>2. CASE Serve(p)
      BY <2>2, <3>2, BlankRows
    <3>. QED BY <1>3, <3>1, <3>2
  <2>. QED BY <2>1, <2>2 DEF BlankInv
<1>. QED BY <1>1, <1>2, <1>3 DEF Next

-----------------------------------------------------------------------------
\* A document that is a row with one reference nulled points at nothing new.
LEMMA CopyType ==
    ASSUME TypeOK, NEW r \in Refs, NEW j \in Ids, rows[r.coll][j] # None
    PROVE  /\ Copy(rows, r, j) \in Doc /\ Copy(rows, r, j).id = j
           /\ Copy(rows, r, j).body = rows[r.coll][j].body
           /\ Copy(rows, r, j).kind = rows[r.coll][j].kind
           /\ Copy(rows, r, j).data
                = [rows[r.coll][j].data EXCEPT ![r.field] = None]
BY NulledCopyType DEF Copy, NulledCopy

LEMMA CopyRefs ==
    ASSUME TypeOK, NEW r \in Refs, NEW j \in Ids, rows[r.coll][j] # None,
           NEW s \in Refs, s \in SetRefs(r.coll, Copy(rows, r, j))
    PROVE  /\ s.coll = r.coll /\ rows[r.coll][j].data[s.field] # None
           /\ Copy(rows, r, j).data[s.field] = rows[r.coll][j].data[s.field]
<1>1. rows[r.coll][j].data \in [Fields -> Ids \cup {None}]
  BY RefType DEF TypeOK, Tables, Row, Values
<1> DEFINE v == rows[r.coll][j].data
<1>2. s.coll = r.coll /\ [v EXCEPT ![r.field] = None][s.field] # None
  BY CopyType DEF SetRefs
<1> HIDE DEF v
<1>3. v \in [Fields -> Ids \cup {None}] /\ r.field \in Fields /\ s.field \in Fields
  BY <1>1, RefType DEF v
<1>4. s.field # r.field /\ [v EXCEPT ![r.field] = None][s.field] = v[s.field]
  BY <1>2, <1>3
<1>. QED BY <1>2, <1>4, CopyType DEF v

\* Nulling a row of a set_null reference is a write that leaves no reference
\* dangling, and takes that row, and no other, off the rows that point at the
\* item.
LEMMA NullGood ==
    ASSUME TypeOK, RefIntegrity, NEW r \in Refs, NEW j \in Ids,
           rows[r.coll][j] # None, Replace(r.coll, Copy(rows, r, j))
    PROVE  GoodWrite
<1>1. ASSUME NEW s \in SetRefs(r.coll, Copy(rows, r, j))
      PROVE  Resolves(rows, s, Copy(rows, r, j).data[s.field])
  <2>1. s \in Refs
    BY DEF SetRefs
  <2>2. /\ s.coll = r.coll /\ rows[r.coll][j].data[s.field] # None
        /\ Copy(rows, r, j).data[s.field] = rows[r.coll][j].data[s.field]
    BY <1>1, <2>1, CopyRefs
  <2>3. Resolves(rows, s, rows[s.coll][j].data[s.field])
    BY <2>1, <2>2 DEF RefIntegrity, Consistent
  <2>. QED BY <2>2, <2>3
<1>. QED BY <1>1, CopyType, RefType, ReplaceGood

LEMMA NullPointing ==
    ASSUME TypeOK, NEW r \in Refs, NEW j \in Ids, rows[r.coll][j] # None,
           NEW i \in Ids, Replace(r.coll, Copy(rows, r, j)),
           NEW s \in Refs
    PROVE  Pointing(rows', s, i) = IF s = r THEN Pointing(rows, s, i) \ {j}
                                            ELSE Pointing(rows, s, i)
<1>1. rows[r.coll][j].data \in [Fields -> Ids \cup {None}]
  BY RefType DEF TypeOK, Tables, Row, Values
<1>2. /\ rows'[s.coll] \in [Ids -> Row \cup {None}]
      /\ \A k \in Ids : (s.coll # r.coll \/ k # j) => rows'[s.coll][k] = rows[s.coll][k]
      /\ rows'[r.coll][j] = [body |-> rows[r.coll][j].body,
              kind |-> rows[r.coll][j].kind,
              data |-> [rows[r.coll][j].data EXCEPT ![r.field] = None]]
  <2>1. Copy(rows, r, j) \in Doc /\ Copy(rows, r, j).id = j
    BY CopyType
  <2>2. rows' \in Tables
    BY <2>1, RefType, ReplaceType
  <2> DEFINE d == Copy(rows, r, j)
             w == Content(d)
  <2>3. rows' = [rows EXCEPT ![r.coll][j] = w]
    BY <2>1 DEF Replace
  <2>4. w = [body |-> rows[r.coll][j].body, kind |-> rows[r.coll][j].kind,
             data |-> [rows[r.coll][j].data EXCEPT ![r.field] = None]]
    BY CopyType DEF Content
  <2> HIDE DEF w
  <2>5. rows'[s.coll] \in [Ids -> Row \cup {None}]
    BY <2>2, RefType DEF Tables
  <2>6. rows'[r.coll][j] = w
    BY <2>3, RefType DEF TypeOK, Tables
  <2>7. ASSUME NEW k \in Ids, s.coll # r.coll \/ k # j
        PROVE  rows'[s.coll][k] = rows[s.coll][k]
    BY <2>3, <2>7, RefType DEF TypeOK, Tables
  <2>. QED BY <2>4, <2>5, <2>6, <2>7
<1>3. rows'[r.coll][j] # None
  <2> DEFINE d == Copy(rows, r, j)
  <2>1. d \in Doc /\ rows'[r.coll][j] = Content(d)
    BY <1>2, CopyType DEF Content
  <2> HIDE DEF d
  <2>. QED BY <2>1, RowType
<1>4. s.coll = r.coll /\ s # r => rows'[r.coll][j].data[s.field] = rows[r.coll][j].data[s.field]
  BY <1>1, <1>2, SchemaAssumption, RefType
<1>5. rows'[r.coll][j].data[r.field] = None /\ None # i
  BY <1>1, <1>2, RefType, IdAssumption
<1>. QED BY <1>2, <1>3, <1>4, <1>5 DEF Pointing

\* Removing a row nothing points at leaves no reference dangling.
LEMMA RemoveGood ==
    ASSUME TypeOK, RefIntegrity, NEW c \in Colls, NEW i \in Ids,
           \A r \in Refs : r.target = c => Pointing(rows, r, i) = {},
           rows' = [rows EXCEPT ![c][i] = None]
    PROVE  RefIntegrity'
<1> SUFFICES ASSUME NEW r \in Refs, NEW j \in Ids, rows'[r.coll][j] # None,
                    rows'[r.coll][j].data[r.field] # None
             PROVE  Resolves(rows', r, rows'[r.coll][j].data[r.field])
  BY DEF RefIntegrity, Consistent
<1>1. r.coll \in Colls /\ r.target \in Colls
  BY RefType
<1>2. rows'[r.coll][j] = rows[r.coll][j]
  BY <1>1 DEF TypeOK, Tables
<1> DEFINE v == rows[r.coll][j].data[r.field]
<1>3. v \in Ids /\ Resolves(rows, r, v)
  <2>1. rows[r.coll][j] \in Row
    BY <1>1, <1>2 DEF TypeOK, Tables
  <2>2. v \in Ids \cup {None}
    BY <2>1, RefType DEF Row
  <2>. QED BY <1>2, <2>2 DEF RefIntegrity, Consistent
<1>4. ~(r.target = c /\ v = i)
  BY <1>2 DEF Pointing
<1>. QED BY <1>1, <1>2, <1>3, <1>4 DEF Resolves, TypeOK, Tables

\* What a scan of the dependents tells a delete, step by step.
LEMMA EnforcingKnows ==
    ASSUME NEW tables, NEW f \in Frame, NEW g, g \in Frame, NEW deps,
           deps \subseteq f.deps, g = Enforcing(f, deps),
           f.deps \subseteq {r \in Refs : r.target = f.coll},
           \A r \in Refs : (r.target = f.coll /\ r \notin deps)
                                => Pointing(tables, r, f.id) = {}
    PROVE  Knows(tables, g)
<1>1. /\ g.pc \in {"remove", "deps"} /\ (g.pc = "remove" => deps = {})
      /\ g.deps = deps /\ g.coll = f.coll /\ g.id = f.id
  BY DEF Enforcing, Frame
<1>2. Enforced(tables, g)
  BY <1>1 DEF Enforced
<1>3. Nulling(tables, g)
  BY <1>1 DEF Nulling
<1>. QED BY <1>2, <1>3 DEF Knows

\* What it has dealt with stays dealt with while it handles a dependent.
LEMMA EnforcedSame ==
    ASSUME NEW tables, NEW f, NEW g, Enforced(tables, f), g.pc # "remove",
           g.deps = f.deps, g.coll = f.coll, g.id = f.id
    PROVE  Enforced(tables, g)
BY DEF Enforced

\* The steps of a delete that change no table: it still knows what it knew.
LEMMA DeleteScans ==
    ASSUME TypeOK, NEW p \in Procs, Serve(p), Deleting(frame[p]),
           Knows(rows, frame[p]), ~NullRow(p), ~RemoveRow(p)
    PROVE  rows' = rows /\ (Deleting(frame'[p]) => Knows(rows, frame'[p]))
<1> DEFINE f == frame[p]
           g == frame'[p]
<1>1. f \in Frame /\ LocalsOK(f) /\ f.op = "delete" /\ f.coll \in Colls /\ f.id \in Ids
  BY DEF TypeOK, LocalsOK, Deleting
<1>2. ASSUME NEW h, Goto(p, h)
      PROVE  g = h
  BY <1>2 DEF Goto, TypeOK
<1>3. ASSUME NEW s, Answer(p, s)
      PROVE  ~Deleting(g)
  BY <1>3, AnswerLocals DEF Deleting
<1>4. CASE CheckReference(p)
  <2>1. PICK r : \/ Goto(p, [f EXCEPT !.todo = f.todo \ {r}])
                 \/ Answer(p, 400)
    BY <1>4 DEF CheckReference
  <2>2. CASE g = [f EXCEPT !.todo = f.todo \ {r}]
    <3>1. /\ g.pc = f.pc /\ g.deps = f.deps /\ g.coll = f.coll /\ g.id = f.id
          /\ g.dep = f.dep /\ g.ids = f.ids /\ g.docs = f.docs
      BY <1>1, <2>2 DEF Frame
    <3>. QED BY <3>1, <1>4 DEF Knows, Enforced, Nulling, CheckReference, db
  <2>3. rows' = rows
    BY <1>4 DEF CheckReference, db
  <2>. QED BY <1>2, <1>3, <2>1, <2>2, <2>3
<1>5. CASE Prepared(p)
  <2>1. f.pc = "validate" /\ f.k \in 1..Len(f.docs) /\ Len(f.docs) = 1
    BY <1>1, <1>5 DEF Prepared, At, LocalsOK
  <2>2. g = [f EXCEPT !.pc = "write"]
    BY <1>2, <1>5, <2>1 DEF Prepared
  <2>3. /\ g.pc = "write" /\ g.deps = f.deps /\ g.coll = f.coll /\ g.id = f.id
        /\ g.dep = f.dep /\ g.ids = f.ids /\ g.docs = f.docs
    BY <1>1, <2>2 DEF Frame
  <2>. QED BY <1>5, <2>1, <2>3 DEF Knows, Enforced, Nulling, Prepared, db
<1>6. CASE EmbedFails(p)
  BY <1>3, <1>6 DEF EmbedFails, db
<1>7. CASE StatementFails(p)
  BY <1>3, <1>7 DEF StatementFails, db
<1>8. CASE ScanDependent(p)
  <2>0. rows' = rows
    BY <1>8 DEF ScanDependent, db
  <2>1. PICK r \in f.deps :
          \/ /\ Matching(r, f.id) = {}
             /\ Goto(p, Enforcing(f, f.deps \ {r}))
          \/ Answer(p, 409)
          \/ /\ r.onDelete = "set_null"
             /\ Goto(p, [f EXCEPT !.pc = "load", !.dep = r,
                                  !.ids = Matching(r, f.id)])
    BY <1>8 DEF ScanDependent
  <2>2. Matching(r, f.id) = Pointing(rows, r, f.id)
    BY DEF Matching, Pointing
  <2>3. CASE Matching(r, f.id) = {} /\ Goto(p, Enforcing(f, f.deps \ {r}))
    <3>1. g = Enforcing(f, f.deps \ {r}) /\ g \in Frame
      <4>1. f.deps \ {r} \in SUBSET Refs /\ f.todo = {} /\ "delete" \in Ops
        BY <1>1, <1>8 DEF Frame, LocalsOK, ScanDependent, At
      <4>. QED BY <1>1, <1>2, <2>3, <4>1, EnforcingFrame
    <3>2. /\ f.deps \subseteq {s \in Refs : s.target = f.coll}
          /\ \A s \in Refs : (s.target = f.coll /\ s \notin f.deps \ {r})
                                => Pointing(rows, s, f.id) = {}
      BY <2>2, <2>3 DEF Knows, Enforced
    <3>3. f.deps \ {r} \subseteq f.deps
      OBVIOUS
    <3>4. Knows(rows, g)
      <4> HIDE DEF f, g
      <4>. QED BY <1>1, <3>1, <3>2, <3>3, EnforcingKnows
    <3>. QED BY <2>0, <3>4
  <2>4. CASE g = [f EXCEPT !.pc = "load", !.dep = r, !.ids = Matching(r, f.id)]
             /\ r.onDelete = "set_null"
    <3>1. /\ g.pc = "load" /\ g.deps = f.deps /\ g.coll = f.coll /\ g.id = f.id
          /\ g.dep = r /\ g.ids = Matching(r, f.id)
      BY <1>1, <2>4 DEF Frame
    <3>2. Enforced(rows, g)
      BY <3>1, EnforcedSame DEF Knows
    <3>3. Nulling(rows, g)
      BY <2>2, <2>4, <3>1 DEF Nulling
    <3>. QED BY <2>0, <3>2, <3>3 DEF Knows
  <2>. QED BY <1>2, <1>3, <2>0, <2>1, <2>3, <2>4
<1>9. CASE LoadReferencing(p)
  <2>0. rows' = rows
    BY <1>9 DEF LoadReferencing, db
  <2>1. PICK j \in f.ids :
          \/ Goto(p, Preparing([f EXCEPT !.ids = f.ids \ {j}], f.dep.coll,
                               <<NulledCopy(f.dep, j)>>, 1))
          \/ Goto(p, Panicked(f))
          \/ Answer(p, 500)
    BY <1>9 DEF LoadReferencing
  <2>2. CASE g = Preparing([f EXCEPT !.ids = f.ids \ {j}], f.dep.coll,
                           <<NulledCopy(f.dep, j)>>, 1)
    <3>1. /\ g.pc = "validate" /\ g.deps = f.deps /\ g.coll = f.coll
          /\ g.id = f.id /\ g.dep = f.dep /\ g.ids = f.ids \ {j}
          /\ g.docs = <<Copy(rows, f.dep, j)>>
      BY <1>1, <2>2 DEF Frame, Preparing, NulledCopy, Copy
    <3>2. f.pc = "load"
      BY <1>9 DEF LoadReferencing, At
    <3>3. j \in Pointing(rows, f.dep, f.id)
      BY <2>1, <3>2 DEF Knows, Nulling
    <3>4. Enforced(rows, g)
      BY <3>1, EnforcedSame DEF Knows
    <3>5. Nulling(rows, g)
      <4>1. /\ f.dep \in f.deps /\ f.dep.onDelete = "set_null"
            /\ f.ids = Pointing(rows, f.dep, f.id)
        BY <3>2 DEF Knows, Nulling
      <4> HIDE DEF f, g
      <4>. QED BY <3>1, <3>3, <4>1 DEF Nulling
    <3>. QED BY <2>0, <3>4, <3>5 DEF Knows
  <2>3. CASE g = Panicked(f)
    <3>1. ~Deleting(g)
      BY <2>3 DEF Panicked, Idle, Deleting
    <3>. QED BY <2>0, <3>1
  <2>. QED BY <1>2, <1>3, <2>0, <2>1, <2>2, <2>3
<1>10. ~InsertRow(p) /\ ~InsertRefused(p) /\ ~InsertFullText(p) /\ ~BulkCommit(p)
       /\ ~BulkRollback(p) /\ ~UpdateRow(p) /\ ~Respond(p)
  BY <1>1 DEF InsertRow, InsertRefused, InsertFullText, BulkCommit, BulkRollback,
     UpdateRow, Respond, At, LocalsOK, Deleting
<1>. QED BY <1>4, <1>5, <1>6, <1>7, <1>8, <1>9, <1>10 DEF Serve

\* The set_null of one row: the copy is still that of the row, the row no
\* longer points at the item, and the rows left are the ones still to null.
LEMMA DeleteNulls ==
    ASSUME TypeOK, TypeOK', RefIntegrity, NEW p \in Procs, NullRow(p),
           Knows(rows, frame[p])
    PROVE  /\ RefIntegrity' /\ Knows(rows', frame'[p])
           /\ \E r \in Refs : \E j \in Pointing(rows, r, frame[p].id) :
                 /\ r.target = frame[p].coll /\ r.onDelete = "set_null"
                 /\ Replace(r.coll, Copy(rows, r, j))
<1> DEFINE f == frame[p]
           g == frame'[p]
<1>1. /\ f \in Frame /\ f.op = "delete" /\ f.pc = "write" /\ f.id \in Ids
      /\ "delete" \in Ops /\ f.coll \in Colls /\ f.todo = {}
  BY DEF TypeOK, LocalsOK, NullRow, At
<1>2. PICK j \in Pointing(rows, f.dep, f.id) :
          /\ f.ids = Pointing(rows, f.dep, f.id) \ {j}
          /\ f.docs = <<Copy(rows, f.dep, j)>>
  BY <1>1 DEF Knows, Nulling
<1> DEFINE r == f.dep
<1>3. /\ r \in Refs /\ r \in f.deps /\ r.onDelete = "set_null" /\ r.target = f.coll
      /\ j \in Ids /\ rows[r.coll][j] # None
      /\ f.deps \subseteq {s \in Refs : s.target = f.coll}
  <2>1. f.deps \subseteq {s \in Refs : s.target = f.coll}
    BY DEF Knows, Enforced
  <2>2. r \in f.deps /\ r.onDelete = "set_null"
    BY <1>1 DEF Knows, Nulling
  <2>3. j \in Ids /\ rows[r.coll][j] # None
    BY <1>2 DEF Pointing
  <2>4. \A x \in f.deps : x \in Refs /\ x.target = f.coll
    BY <2>1
  <2>5. r \in Refs /\ r.target = f.coll
    BY <2>2, <2>4
  <2>. QED BY <2>1, <2>2, <2>3, <2>5
<1>4. f.docs[1] = Copy(rows, r, j) /\ f.docs[1].id = j
  <2>1. f.docs[1] = Copy(rows, r, j)
    BY <1>2
  <2>2. Copy(rows, r, j).id = j
    BY DEF Copy
  <2>. QED BY <2>1, <2>2
<1>5. Replace(r.coll, Copy(rows, r, j))
  BY <1>3, <1>4 DEF NullRow
<1>6. RefIntegrity'
  BY <1>3, <1>5, NullGood, GoodWriteStep
<1>7. \A s \in Refs : Pointing(rows', s, f.id) =
          IF s = r THEN Pointing(rows, s, f.id) \ {j} ELSE Pointing(rows, s, f.id)
  BY <1>1, <1>3, <1>5, NullPointing
<1>8. g = IF f.ids = {} THEN Enforcing(f, f.deps \ {r})
          ELSE [f EXCEPT !.pc = "load", !.docs = <<>>, !.k = 0]
  BY DEF NullRow, Goto, TypeOK
<1>10. CASE f.ids = {}
  <2>1. g = Enforcing(f, f.deps \ {r}) /\ g \in Frame
    BY <1>8, <1>10 DEF TypeOK
  <2>2. \A s \in Refs : (s.target = f.coll /\ s \notin f.deps \ {r})
                            => Pointing(rows', s, f.id) = {}
    BY <1>2, <1>7, <1>10 DEF Knows, Enforced
  <2>3. f.deps \subseteq {s \in Refs : s.target = f.coll}
    BY <1>3
  <2>4. Knows(rows', g)
    <3> HIDE DEF f, g, r
    <3>. QED BY <1>1, <2>1, <2>2, <2>3, EnforcingKnows
  <2>. QED BY <1>2, <1>3, <1>5, <1>6, <2>4
<1>11. CASE f.ids # {}
  <2>1. /\ g.pc = "load" /\ g.deps = f.deps /\ g.coll = f.coll /\ g.id = f.id
        /\ g.dep = r /\ g.ids = f.ids
    BY <1>1, <1>8, <1>11 DEF Frame
  <2>2. Enforced(rows', g)
    BY <1>3, <1>7, <2>1 DEF Knows, Enforced
  <2>3. Nulling(rows', g)
    BY <1>2, <1>3, <1>7, <2>1 DEF Nulling
  <2>. QED BY <1>2, <1>3, <1>5, <1>6, <2>2, <2>3 DEF Knows
<1>. QED BY <1>10, <1>11

\* What a step of a delete that knows this does to the tables.
LEMMA DeleteStep ==
    ASSUME TypeOK, TypeOK', RefIntegrity, NEW p \in Procs, Serve(p),
           Deleting(frame[p]), Knows(rows, frame[p])
    PROVE  /\ RefIntegrity'
           /\ Deleting(frame'[p]) => Knows(rows', frame'[p])
           /\ \A c \in Colls, i \in Ids :
                 \/ rows'[c][i] = rows[c][i]
                 \/ /\ rows'[c][i] = None
                    /\ c = frame[p].coll /\ i = frame[p].id
                 \/ \E r \in Refs :
                       /\ r.coll = c /\ r.target = frame[p].coll
                       /\ r.onDelete = "set_null"
                       /\ rows[c][i] # None
                       /\ rows[c][i].data[r.field] = frame[p].id
                       /\ rows'[c][i] = [rows[c][i] EXCEPT !.data[r.field] = None]
<1> DEFINE f == frame[p]
<1>1. CASE NullRow(p)
  <2>0. PICK r \in Refs : \E j \in Pointing(rows, r, f.id) :
            /\ r.target = f.coll /\ r.onDelete = "set_null"
            /\ Replace(r.coll, Copy(rows, r, j))
    BY <1>1, DeleteNulls
  <2>1. PICK j \in Pointing(rows, r, f.id) :
            /\ r.target = f.coll /\ r.onDelete = "set_null"
            /\ Replace(r.coll, Copy(rows, r, j))
    BY <2>0
  <2>2. /\ j \in Ids /\ rows[r.coll][j] # None /\ rows[r.coll][j].data[r.field] = f.id
        /\ r.coll \in Colls
    BY RefType DEF Pointing
  <2>3. rows[r.coll][j] \in Row
    BY <2>2 DEF TypeOK, Tables
  <2>4. rows'[r.coll][j] = [rows[r.coll][j] EXCEPT !.data[r.field] = None]
    <3>1. rows'[r.coll][j] = [body |-> rows[r.coll][j].body,
               kind |-> rows[r.coll][j].kind,
               data |-> [rows[r.coll][j].data EXCEPT ![r.field] = None]]
      <4>1. rows' = [rows EXCEPT ![r.coll][j] = Content(Copy(rows, r, j))]
        BY <2>1, <2>2, CopyType DEF Replace
      <4>2. rows'[r.coll][j] = Content(Copy(rows, r, j))
        BY <2>2, <4>1 DEF TypeOK, Tables
      <4>. QED BY <2>2, <4>2, CopyType DEF Content
    <3>2. ASSUME NEW row \in Row
          PROVE  [row EXCEPT !.data[r.field] = None]
                   = [body |-> row.body, kind |-> row.kind,
                      data |-> [row.data EXCEPT ![r.field] = None]]
      BY DEF Row
    <3>. QED BY <2>3, <3>1, <3>2
  <2>5. ASSUME NEW c \in Colls, NEW i \in Ids, c # r.coll \/ i # j
        PROVE  rows'[c][i] = rows[c][i]
    <3>1. PICK w : rows' = [rows EXCEPT ![r.coll][j] = w]
      BY <2>1, <2>2, CopyType DEF Replace
    <3>. QED BY <2>2, <2>5, <3>1 DEF TypeOK, Tables
  <2>. QED BY <1>1, <2>1, <2>2, <2>4, <2>5, DeleteNulls
<1>2. CASE RemoveRow(p)
  <2>1. f.coll \in Colls /\ f.id \in Ids /\ f.pc = "remove"
    BY <1>2 DEF TypeOK, LocalsOK, Deleting, RemoveRow, At
  <2>2. ~Deleting(frame'[p])
    BY <1>2, AnswerLocals DEF RemoveRow, Deleting
  <2>3. CASE rows' = [rows EXCEPT ![f.coll][f.id] = None]
    <3>1. \A r \in Refs : r.target = f.coll => Pointing(rows, r, f.id) = {}
      BY <2>1 DEF Knows, Enforced
    <3>2. RefIntegrity'
      BY <2>1, <2>3, <3>1, RemoveGood
    <3>. QED BY <2>1, <2>2, <2>3, <3>2 DEF TypeOK, Tables
  <2>4. CASE rows' = rows
    BY <2>2, <2>4 DEF RefIntegrity
  <2>. QED BY <1>2, <2>3, <2>4 DEF RemoveRow, db
<1>3. CASE ~NullRow(p) /\ ~RemoveRow(p)
  BY <1>3, DeleteScans DEF RefIntegrity
<1>. QED BY <1>1, <1>2, <1>3

\* The invariant holds of the databases the server starts on, is kept by every
\* step of every request that writes while no delete does, and by every step of
\* a delete that is alone.
LEMMA AloneInit == Init => AloneInv
BY NoneAssumption, DatabaseAssumption
   DEF Init, AloneInv, RefIntegrity, Checked, Idle, Deleting, AllOps

LEMMA AloneStart ==
    ASSUME TypeOK, TypeOK', AloneInv, NEW p \in Procs, Start(p)
    PROVE  AloneInv'
<1>0. rows' = rows
  BY DEF Start, StartInsert, StartBulk, StartUpdate, StartDelete, db
<1>1. ASSUME NEW q \in Procs, q # p
      PROVE  frame'[q] = frame[q]
  BY <1>1, StepFrame
<1>2. IF Deleting(frame'[p]) THEN Knows(rows, frame'[p])
                             ELSE Checked(rows, frame'[p])
  <2>1. CASE StartDelete(p)
    <3>1. PICK c \in Colls, i \in Ids :
              Goto(p, Enforcing([Idle EXCEPT !.op = "delete", !.coll = c, !.id = i],
                                {r \in Refs : r.target = c}))
      BY <2>1 DEF StartDelete
    <3>2. frame'[p] = Enforcing([Idle EXCEPT !.op = "delete", !.coll = c, !.id = i],
                                {r \in Refs : r.target = c})
      BY <3>1 DEF Goto, TypeOK
    <3>3. /\ frame'[p].op = "delete" /\ frame'[p].coll = c
          /\ frame'[p].deps = {r \in Refs : r.target = c}
          /\ frame'[p].pc = IF frame'[p].deps = {} THEN "remove" ELSE "deps"
      BY <3>2 DEF Enforcing, Idle
    <3>. QED BY <3>3 DEF Deleting, Knows, Enforced, Nulling
  <2>2. CASE ~StartDelete(p)
    <3>1. frame[p].pc = "idle" /\ Checked(rows, frame[p])
      BY DEF Start, StartInsert, StartBulk, StartUpdate, StartDelete, At, Checked
    <3>2. \E op \in {"insert", "bulk", "update"} : \E c, docs :
            Goto(p, Preparing([Idle EXCEPT !.op = op, !.coll = c], c, docs, 1))
      <4>1. CASE StartInsert(p)
        BY <4>1 DEF StartInsert
      <4>2. CASE StartBulk(p)
        BY <4>2 DEF StartBulk
      <4>3. CASE StartUpdate(p)
        BY <4>3 DEF StartUpdate
      <4>. QED BY <2>2, <4>1, <4>2, <4>3 DEF Start
    <3>3. PICK op \in {"insert", "bulk", "update"} : \E c, docs :
            Goto(p, Preparing([Idle EXCEPT !.op = op, !.coll = c], c, docs, 1))
      BY <3>2
    <3>4. PICK c, docs :
            Goto(p, Preparing([Idle EXCEPT !.op = op, !.coll = c], c, docs, 1))
      BY <3>3
    <3>5. frame'[p] = Preparing([Idle EXCEPT !.op = op, !.coll = c], c, docs, 1)
      BY <3>4 DEF Goto, TypeOK
    <3>6. frame'[p].op = op
      BY <3>5 DEF Preparing, Idle
    <3>7. Checked(rows, frame'[p])
      BY <2>2, <3>1, ServeChecked
    <3>. QED BY <3>2, <3>6, <3>7 DEF Deleting
  <2>. QED BY <2>1, <2>2
<1>. QED BY <1>0, <1>1, <1>2 DEF AloneInv, RefIntegrity

LEMMA AloneServe ==
    ASSUME TypeOK, TypeOK', AloneInv, DeletesAlone, NEW p \in Procs, Serve(p)
    PROVE  AloneInv'
<1>0. ASSUME NEW q \in Procs, q # p
      PROVE  frame'[q] = frame[q]
  BY <1>0, StepFrame
<1>1. CASE Deleting(frame[p])
  <2>1. /\ RefIntegrity'
        /\ Deleting(frame'[p]) => Knows(rows', frame'[p])
    BY <1>1, DeleteStep DEF AloneInv
  <2>2. ~Deleting(frame'[p]) => Checked(rows', frame'[p])
    <3>1. frame'[p].op = "delete" \/ frame'[p] = Idle
      BY <1>1, ServeLocals DEF Deleting
    <3>. QED BY <3>1 DEF Deleting, Checked, Idle
  <2>3. ASSUME NEW q \in Procs, q # p
        PROVE  ~Deleting(frame'[q]) /\ Checked(rows', frame'[q])
    <3>1. frame'[q].pc \in {"idle", "panic", "reply"}
      BY <1>0, <1>1, <2>3 DEF DeletesAlone
    <3>. QED BY <3>1 DEF Deleting, Checked
  <2>. QED BY <2>1, <2>2, <2>3 DEF AloneInv
<1>2. CASE ~Deleting(frame[p]) /\ frame[p].pc \notin {"idle", "panic", "reply"}
  <2>1. /\ Checked(rows, frame[p]) /\ frame[p].op # "delete"
        /\ ~StartDelete(p)
    BY <1>2 DEF AloneInv, Deleting, StartDelete, At
  <2>2. GoodWrite
    BY <2>1, ServeGood
  <2>3. RefIntegrity'
    BY <2>2, GoodWriteStep DEF AloneInv
  <2>4. Checked(rows', frame'[p]) /\ ~Deleting(frame'[p])
    <3>1. Checked(rows, frame'[p])
      BY <2>1, ServeChecked
    <3>2. frame'[p] \in Frame /\ LocalsOK(frame'[p])
      BY DEF TypeOK
    <3>3. frame'[p].op # "delete"
      BY <2>1, ServeLocals, NoneAssumption DEF Idle, AllOps
    <3>. QED BY <2>2, <3>1, <3>2, <3>3, CheckedStable DEF AloneInv, Deleting
  <2>5. ASSUME NEW q \in Procs, q # p
        PROVE  ~Deleting(frame'[q]) /\ Checked(rows', frame'[q])
    <3>1. ~Deleting(frame[q])
      BY <1>2, <2>5 DEF DeletesAlone
    <3>2. frame[q] \in Frame /\ LocalsOK(frame[q]) /\ Checked(rows, frame[q])
      BY <3>1 DEF TypeOK, AloneInv
    <3>3. Checked(rows', frame[q])
      BY <2>2, <3>2, CheckedStable DEF AloneInv
    <3>. QED BY <1>0, <2>5, <3>1, <3>3
  <2>. QED BY <2>3, <2>4, <2>5 DEF AloneInv
<1>3. CASE frame[p].pc \in {"idle", "panic", "reply"}
  <2>1. Respond(p)
    BY <1>3 DEF Serve, CheckReference, Prepared, EmbedFails, WaitsForOllama, InsertRow,
       InsertRefused, InsertFullText, BulkCommit, BulkRollback, UpdateRow,
       ScanDependent, LoadReferencing, NullRow, RemoveRow, StatementFails, At
  <2>2. rows' = rows /\ frame'[p] = Idle
    BY <2>1 DEF Respond, Goto, TypeOK, db
  <2>3. ~Deleting(Idle) /\ Checked(rows, Idle)
    BY DEF Deleting, Checked, Idle
  <2>. QED BY <1>0, <2>2, <2>3 DEF AloneInv, RefIntegrity
<1>. QED BY <1>1, <1>2, <1>3

LEMMA AloneNext ==
    ASSUME TypeOK, TypeOK', AloneInv, DeletesAlone, [Next]_vars
    PROVE  AloneInv'
<1>1. CASE Crash
  BY <1>1 DEF Crash, AloneInv, RefIntegrity, Deleting, Checked, Idle, db
<1>2. CASE UNCHANGED vars
  BY <1>2 DEF vars, AloneInv, RefIntegrity
<1>. QED BY <1>1, <1>2, AloneStart, AloneServe DEF Next

\* No document ever points at one that is not there, however many inserts,
\* bulk inserts and updates race and whatever fails, as long as a delete does
\* not run next to another write: checkReferentialDelete and updateDocument
\* remove and null exactly what they must.
THEOREM RefIntegrityDeletesAlone == Spec /\ []DeletesAlone => []RefIntegrity
<1>1. AloneInv => RefIntegrity
  BY DEF AloneInv
<1>. QED BY <1>1, AloneInit, AloneNext, TypeCorrect, PTL DEF Spec

\* Only the load of a row that is a null panics.
LEMMA PanicStep ==
    ASSUME TypeOK, NEW p \in Procs, Serve(p), frame'[p].pc = "panic"
    PROVE  /\ LoadReferencing(p)
           /\ \E j \in frame[p].ids :
                 /\ rows[frame[p].dep.coll][j] # None
                 /\ rows[frame[p].dep.coll][j].kind = "null"
<1> DEFINE f == frame[p]
<1>1. f \in Frame
  BY DEF TypeOK
<1>2. ASSUME NEW g, Goto(p, g), g.pc # "panic"
      PROVE  FALSE
  BY <1>2 DEF Goto, TypeOK
<1>3. ASSUME NEW s, Answer(p, s)
      PROVE  FALSE
  BY <1>3, AnswerLocals
<1>4. CASE CheckReference(p)
  <2>1. PICK r : \/ Goto(p, [f EXCEPT !.todo = f.todo \ {r}])
                 \/ Answer(p, 400)
    BY <1>4 DEF CheckReference
  <2> DEFINE g == [f EXCEPT !.todo = f.todo \ {r}]
  <2>2. g.pc # "panic"
    BY <1>1, <1>4 DEF Frame, CheckReference, At
  <2>3. Goto(p, g) \/ Answer(p, 400)
    BY <2>1
  <2> HIDE DEF g
  <2>. QED BY <1>2, <1>3, <2>2, <2>3
<1>5. CASE Prepared(p)
  <2>1. PICK g \in {Preparing(f, f.coll, f.docs, f.k + 1),
                    [f EXCEPT !.pc = "write"]} : Goto(p, g)
    BY <1>5 DEF Prepared
  <2>2. g.pc # "panic"
    BY <1>1, <2>1, LabelsAfter DEF Frame
  <2>. QED BY <1>2, <2>1, <2>2
<1>6. CASE InsertRow(p)
  <2>1. PICK i : Goto(p, IF f.coll \in VecColls
                         THEN [f EXCEPT !.pc = "fts", !.id = i]
                         ELSE Answered(f, 201))
    BY <1>6 DEF InsertRow
  <2> DEFINE g == [f EXCEPT !.pc = "fts", !.id = i]
  <2>2. g.pc # "panic"
    BY <1>1 DEF Frame
  <2>3. Goto(p, g) \/ Answer(p, 201)
    BY <2>1 DEF Answer
  <2> HIDE DEF g
  <2>. QED BY <1>2, <1>3, <2>2, <2>3
<1>7. CASE \/ EmbedFails(p) \/ InsertRefused(p) \/ BulkRollback(p)
           \/ StatementFails(p)
  BY <1>3, <1>7 DEF EmbedFails, InsertRefused, BulkRollback, StatementFails
<1>8. CASE \/ InsertFullText(p) \/ BulkCommit(p) \/ UpdateRow(p) \/ NullRow(p)
           \/ RemoveRow(p)
  BY <1>8, FullTextStep, BulkStep, UpdateStep, NullStep, RemoveStep
<1>9. CASE ScanDependent(p)
  <2>1. PICK r \in f.deps :
            \/ Goto(p, Enforcing(f, f.deps \ {r}))
            \/ Answer(p, 409)
            \/ Goto(p, [f EXCEPT !.pc = "load", !.dep = r,
                                 !.ids = Matching(r, f.id)])
    BY <1>9 DEF ScanDependent
  <2> DEFINE g == [f EXCEPT !.pc = "load", !.dep = r, !.ids = Matching(r, f.id)]
             e == Enforcing(f, f.deps \ {r})
  <2>2. g.pc # "panic" /\ e.pc # "panic"
    BY <1>1, LabelsAfter DEF Frame
  <2>3. Goto(p, e) \/ Answer(p, 409) \/ Goto(p, g)
    BY <2>1
  <2> HIDE DEF g, e
  <2>. QED BY <1>2, <1>3, <2>2, <2>3
<1>10. CASE LoadReferencing(p)
  <2>1. PICK j \in f.ids :
            \/ Goto(p, Preparing([f EXCEPT !.ids = f.ids \ {j}], f.dep.coll,
                                 <<NulledCopy(f.dep, j)>>, 1))
            \/ /\ rows[f.dep.coll][j] # None
               /\ rows[f.dep.coll][j].kind = "null"
            \/ Answer(p, 500)
    BY <1>10 DEF LoadReferencing
  <2> DEFINE g == Preparing([f EXCEPT !.ids = f.ids \ {j}], f.dep.coll,
                            <<NulledCopy(f.dep, j)>>, 1)
  <2>2. g.pc # "panic"
    BY <1>1 DEF Preparing, Frame
  <2>3. \/ Goto(p, g) \/ Answer(p, 500)
        \/ rows[f.dep.coll][j] # None /\ rows[f.dep.coll][j].kind = "null"
    BY <2>1
  <2> HIDE DEF g
  <2>. QED BY <1>2, <1>3, <1>10, <2>2, <2>3
<1>11. CASE Respond(p)
  BY <1>2, <1>11 DEF Respond, Idle
<1>. QED BY <1>4, <1>5, <1>6, <1>7, <1>8, <1>9, <1>10, <1>11 DEF Serve

\* Such a delete never panics: the rows it loads are those its query found, and
\* those have the field set.
THEOREM DeletesAloneDoNotPanic == Spec /\ []DeletesAlone => []NoPanic
<1>1. Init => NoPanic
  BY DEF Init, NoPanic, At, Idle
<1>2. TypeOK /\ AloneInv /\ BlankInv /\ NoPanic /\ [Next]_vars => NoPanic'
  <2> SUFFICES ASSUME TypeOK, AloneInv, BlankInv, NoPanic, [Next]_vars,
                      NEW q \in Procs, frame'[q].pc = "panic"
               PROVE  FALSE
    BY DEF NoPanic, At
  <2>1. frame'[q] # frame[q]
    BY DEF NoPanic, At
  <2>2. PICK p \in Procs : Start(p) \/ Serve(p)
    BY <2>1 DEF Next, Crash, vars, Idle
  <2>3. q = p /\ Serve(p)
    BY <2>1, <2>2, StepFrame, StartStep
  <2>4. LoadReferencing(p)
    BY <2>3, PanicStep
  <2> DEFINE f == frame[p]
  <2>5. f.pc = "load" /\ f.op = "delete"
    BY <2>4 DEF LoadReferencing, At, TypeOK, LocalsOK
  <2>6. f.ids = Pointing(rows, f.dep, f.id) /\ f.id \in Ids /\ f.dep \in Refs
    BY <2>5 DEF AloneInv, Deleting, Knows, Nulling, TypeOK, LocalsOK
  <2>7. PICK j \in f.ids : /\ rows[f.dep.coll][j] # None
                           /\ rows[f.dep.coll][j].kind = "null"
    BY <2>3, <2>4, PanicStep
  <2>8. j \in Ids /\ rows[f.dep.coll][j].data[f.dep.field] = f.id
    BY <2>6, <2>7 DEF Pointing
  <2>9. Blank(rows[f.dep.coll][j]) /\ f.dep.field \in Fields
    BY <2>6, <2>7, <2>8, RefType DEF BlankInv
  <2>. QED BY <2>6, <2>7, <2>8, <2>9, IdAssumption DEF Blank
<1>. QED BY <1>1, <1>2, AloneInit, AloneNext, BlankInit, BlankNext, TypeCorrect,
         PTL DEF Spec

\* Such a delete changes nothing but its own row and the set_null references
\* to it, and the rest of those documents stays as it is.
THEOREM DeletesAloneTouchReferences ==
    Spec /\ []DeletesAlone => DeleteTouchesOnlyReferences
<1> DEFINE Touches ==
      \A p \in Procs :
          (frame[p].op = "delete" /\ frame'[p] # frame[p]) =>
              \A c \in Colls, i \in Ids :
                  \/ rows'[c][i] = rows[c][i]
                  \/ /\ rows'[c][i] = None
                     /\ c = frame[p].coll /\ i = frame[p].id
                  \/ \E r \in Refs :
                        /\ r.coll = c /\ r.target = frame[p].coll
                        /\ r.onDelete = "set_null"
                        /\ rows[c][i] # None
                        /\ rows[c][i].data[r.field] = frame[p].id
                        /\ rows'[c][i] =
                             [rows[c][i] EXCEPT !.data[r.field] = None]
<1>1. TypeOK /\ TypeOK' /\ AloneInv /\ DeletesAlone /\ [Next]_vars => Touches
  <2> SUFFICES ASSUME TypeOK, TypeOK', AloneInv, [Next]_vars, NEW p \in Procs,
                      frame[p].op = "delete", frame'[p] # frame[p]
               PROVE  \A c \in Colls, i \in Ids :
                  \/ rows'[c][i] = rows[c][i]
                  \/ /\ rows'[c][i] = None
                     /\ c = frame[p].coll /\ i = frame[p].id
                  \/ \E r \in Refs :
                        /\ r.coll = c /\ r.target = frame[p].coll
                        /\ r.onDelete = "set_null"
                        /\ rows[c][i] # None
                        /\ rows[c][i].data[r.field] = frame[p].id
                        /\ rows'[c][i] =
                             [rows[c][i] EXCEPT !.data[r.field] = None]
    OBVIOUS
  <2>1. CASE Serve(p) /\ Deleting(frame[p])
    BY <2>1, DeleteStep DEF AloneInv
  <2>2. CASE rows' = rows
    BY <2>2
  <2>3. Start(p) \/ Serve(p) \/ rows' = rows
    BY StepFrame DEF Next, Crash, vars, db
  <2>4. Start(p) => rows' = rows
    BY DEF Start, StartInsert, StartBulk, StartUpdate, StartDelete, db
  <2>5. Serve(p) /\ ~Deleting(frame[p]) => rows' = rows
    BY DEF Deleting, Serve, CheckReference, Prepared, EmbedFails, InsertRow,
       InsertRefused, InsertFullText, BulkCommit, BulkRollback, UpdateRow,
       ScanDependent, LoadReferencing, NullRow, RemoveRow, StatementFails,
       Respond, At, db
  <2>. QED BY <2>1, <2>2, <2>3, <2>4, <2>5
<1>. QED BY <1>1, AloneInit, AloneNext, TypeCorrect, PTL
         DEF Spec, DeleteTouchesOnlyReferences

=============================================================================
