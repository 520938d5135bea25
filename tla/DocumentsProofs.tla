--------------------------- MODULE DocumentsProofs ---------------------------
(***************************************************************************)
(* Theorems about Documents, for every schema, every set of requests in    *)
(* flight and every database the server may be started on.                 *)
(***************************************************************************)
EXTENDS Documents, TLAPS

-----------------------------------------------------------------------------
(***************************************************************************)
(* The locals of a handler keep their type.                                *)
(***************************************************************************)

\* An idle goroutine has no locals.
LEMMA IdleFrame == Idle \in Frame /\ LocalsOK(Idle)
BY NoneAssumption DEF Idle, Frame, LocalsOK, AllOps, Labels

\* Answering a request forgets its locals, and so does a panic.
LEMMA AnsweredFrame ==
    ASSUME NEW f \in Frame, NEW s \in Statuses
    PROVE  /\ Answered(f, s) \in Frame /\ LocalsOK(Answered(f, s))
           /\ Panicked(f) \in Frame /\ LocalsOK(Panicked(f))
<1>1. "reply" \in Labels /\ "panic" \in Labels /\ <<>> \in Seq(Doc)
  BY DEF Labels
<1>2. Answered(f, s) \in Frame /\ Panicked(f) \in Frame
  BY <1>1 DEF Answered, Panicked, Idle, Frame
<1>3. /\ Answered(f, s).pc = "reply" /\ Answered(f, s).todo = {}
      /\ Panicked(f).pc = "panic" /\ Panicked(f).todo = {}
  BY DEF Answered, Panicked, Idle
<1>. QED BY <1>2, <1>3 DEF LocalsOK

\* The references of a document are rows of collection_references.
LEMMA SetRefsType ==
    ASSUME NEW c, NEW d
    PROVE  SetRefs(c, d) \in SUBSET Refs
BY DEF SetRefs

\* A handler that prepares a document keeps well-typed locals.
LEMMA PreparingFrame ==
    ASSUME NEW f \in Frame, NEW c, NEW docs \in Seq(Doc),
           NEW k \in 1..Len(docs), f.op \in AllOps, f.op \in Ops,
           f.op # "delete" => f.coll \in Colls,
           f.op # "bulk" => Len(docs) = 1,
           f.op \in {"update", "delete"} => docs[1].id \in Ids,
           f.op = "delete" => /\ f.dep \in Refs
                              /\ f.coll \in Colls /\ f.id \in Ids
    PROVE  /\ Preparing(f, c, docs, k) \in Frame
           /\ LocalsOK(Preparing(f, c, docs, k))
<1> DEFINE g == Preparing(f, c, docs, k)
<1>1. g \in Frame
  <2>1. "validate" \in Labels
    BY DEF Labels
  <2>2. SetRefs(c, docs[k]) \in SUBSET Refs
    BY SetRefsType
  <2>3. k \in Nat
    OBVIOUS
  <2>. QED BY <2>1, <2>2, <2>3 DEF Preparing, Frame
<1>2. /\ g.pc = "validate" /\ g.docs = docs /\ g.k = k /\ g.op = f.op
      /\ g.coll = f.coll /\ g.dep = f.dep /\ g.id = f.id
  BY DEF Preparing, Frame
<1>. QED BY <1>1, <1>2 DEF LocalsOK

\* So does a delete between two dependents.
LEMMA EnforcingFrame ==
    ASSUME NEW f \in Frame, NEW deps \in SUBSET Refs, f.op = "delete",
           "delete" \in Ops, f.coll \in Colls, f.id \in Ids, f.todo = {}
    PROVE  Enforcing(f, deps) \in Frame /\ LocalsOK(Enforcing(f, deps))
<1> DEFINE g == Enforcing(f, deps)
<1>1. g \in Frame
  <2>1. "remove" \in Labels /\ "deps" \in Labels /\ <<>> \in Seq(Doc)
    BY DEF Labels
  <2>. QED BY <2>1 DEF Enforcing, Frame
<1>2. /\ g.pc \in {"remove", "deps"} /\ g.op = f.op
      /\ g.coll = f.coll /\ g.todo = f.todo /\ g.id = f.id
  BY DEF Enforcing, Frame
<1>. QED BY <1>1, <1>2 DEF LocalsOK

-----------------------------------------------------------------------------
(***************************************************************************)
(* The writes keep the types of the tables.                                *)
(***************************************************************************)

\* A row is not the mark of an absent one.
LEMMA RowType ==
    ASSUME NEW d \in Doc
    PROVE  /\ Content(d) \in Row /\ Content(d) # None
           /\ Content(d).body = d.body /\ Content(d).data = d.data
           /\ Content(d).kind = d.kind
           /\ d.body \in Bodies /\ d.data \in Values
BY NoneAssumption DEF Doc, Row, Content

\* The document stored under an id is one of those sent.
LEMMA DocAtType ==
    ASSUME NEW docs \in Seq(Doc), NEW ids \in [1..Len(docs) -> Ids],
           NEW i \in New(docs, ids)
    PROVE  DocAt(docs, ids, i) \in Doc
BY DEF DocAt, New

\* Storing the documents of an insert keeps the tables well typed.
LEMMA StoreType ==
    ASSUME TypeOK, NEW c \in Colls, NEW docs \in Seq(Doc),
           NEW ids \in [1..Len(docs) -> Ids], Store(c, docs, ids)
    PROVE  rows' \in Tables /\ seq' \in [Colls -> 0..MaxId]
<1>1. rows' \in Tables
  <2>1. [i \in Ids |-> IF i \in New(docs, ids)
             THEN Content(DocAt(docs, ids, i)) ELSE rows[c][i]]
          \in [Ids -> Row \cup {None}]
    <3>1. \A i \in New(docs, ids) : Content(DocAt(docs, ids, i)) \in Row
      BY DocAtType, RowType
    <3>. QED BY <3>1 DEF TypeOK, Tables
  <2>. QED BY <2>1 DEF Store, TypeOK, Tables
<1>2. seq' \in [Colls -> 0..MaxId]
  <2>1. PICK m \in New(docs, ids) \cup {seq[c]} :
            seq' = [seq EXCEPT ![c] = m]
    BY DEF Store
  <2>2. m \in 0..MaxId
    <3>1. seq[c] \in 0..MaxId
      BY DEF TypeOK
    <3>2. New(docs, ids) \subseteq 0..MaxId
      BY IdAssumption DEF Ids, New
    <3>. QED BY <3>1, <3>2
  <2>. QED BY <2>1, <2>2 DEF TypeOK
<1>. QED BY <1>1, <1>2

\* So does indexing them.
LEMMA IndexType ==
    ASSUME TypeOK, NEW c \in Colls, NEW docs \in Seq(Doc),
           NEW ids \in [1..Len(docs) -> Ids], Index(c, docs, ids)
    PROVE  fts' \in [Colls -> [Ids -> Bodies \cup {None}]]
<1>1. [i \in Ids |-> IF i \in New(docs, ids) THEN DocAt(docs, ids, i).body
                                            ELSE fts[c][i]]
          \in [Ids -> Bodies \cup {None}]
  BY DocAtType, RowType DEF TypeOK
<1>. QED BY <1>1 DEF Index, TypeOK

\* So does replacing a row by an update.
LEMMA ReplaceType ==
    ASSUME TypeOK, NEW c \in Colls, NEW d \in Doc, d.id \in Ids,
           Replace(c, d)
    PROVE  /\ rows' \in Tables
           /\ fts' \in [Colls -> [Ids -> Bodies \cup {None}]]
           /\ seq' \in [Colls -> 0..MaxId]
BY RowType DEF TypeOK, Tables, Replace

\* The copy a delete nulls is a document that can be stored.
LEMMA NulledCopyType ==
    ASSUME TypeOK, NEW r \in Refs, NEW j \in Ids, rows[r.coll][j] # None
    PROVE  NulledCopy(r, j) \in Doc /\ NulledCopy(r, j).id \in Ids
<1>1. r.coll \in Colls /\ r.field \in Fields
  BY SchemaAssumption DEF Reference
<1>2. rows[r.coll][j] \in Row
  BY <1>1 DEF TypeOK, Tables
<1>. QED BY <1>2 DEF NulledCopy, Row, Doc, Values

-----------------------------------------------------------------------------
(***************************************************************************)
(* Type correctness.                                                       *)
(***************************************************************************)

\* A step that changes one handler's locals keeps the type of all of them.
LEMMA GotoType ==
    ASSUME TypeOK, NEW p \in Procs, NEW g \in Frame, LocalsOK(g), Goto(p, g)
    PROVE  frame' \in [Procs -> Frame] /\ \A q \in Procs : LocalsOK(frame'[q])
BY DEF TypeOK, Goto

\* An answer does too.
LEMMA AnswerType ==
    ASSUME TypeOK, NEW p \in Procs, NEW s \in Statuses, Answer(p, s)
    PROVE  frame' \in [Procs -> Frame] /\ \A q \in Procs : LocalsOK(frame'[q])
<1>1. frame[p] \in Frame
  BY DEF TypeOK
<1>. QED BY <1>1, AnsweredFrame, GotoType DEF Answer

\* Preparing the next document does too.
LEMMA PreparingGoto ==
    ASSUME TypeOK, NEW p \in Procs,
           NEW f \in Frame, NEW c, NEW docs \in Seq(Doc),
           NEW k \in 1..Len(docs), f.op \in AllOps, f.op \in Ops,
           f.op # "delete" => f.coll \in Colls,
           f.op # "bulk" => Len(docs) = 1,
           f.op \in {"update", "delete"} => docs[1].id \in Ids,
           f.op = "delete" => /\ f.dep \in Refs
                              /\ f.coll \in Colls /\ f.id \in Ids,
           Goto(p, Preparing(f, c, docs, k))
    PROVE  frame' \in [Procs -> Frame] /\ \A q \in Procs : LocalsOK(frame'[q])
<1>1. /\ Preparing(f, c, docs, k) \in Frame
      /\ LocalsOK(Preparing(f, c, docs, k))
  BY PreparingFrame
<1>. QED BY <1>1, GotoType

\* The tables of any database file are well typed.
LEMMA InitType == Init => TypeOK
<1> SUFFICES ASSUME Init PROVE TypeOK
  OBVIOUS
<1>1. rows \in Tables
  BY DatabaseAssumption DEF Init
<1>2. fts \in [Colls -> [Ids -> Bodies \cup {None}]]
  BY <1>1, NoneAssumption DEF Init, IndexOf, Tables, Row
<1>3. frame \in [Procs -> Frame] /\ \A p \in Procs : LocalsOK(frame[p])
  BY IdleFrame DEF Init
<1>. QED BY <1>1, <1>2, <1>3 DEF Init, TypeOK

\* A handler changes its own locals only.
LEMMA StepFrame ==
    ASSUME TypeOK, NEW p \in Procs, Start(p) \/ Serve(p),
           NEW q \in Procs, q # p
    PROVE  frame'[q] = frame[q]
<1>1. \E g : Goto(p, g)
  <2>1. ASSUME NEW s, Answer(p, s)
        PROVE  \E g : Goto(p, g)
    BY <2>1 DEF Answer
  <2>2. CASE Start(p)
    BY <2>2 DEF Start, StartInsert, StartBulk, StartUpdate, StartDelete
  <2>3. CASE CheckReference(p) \/ Prepared(p) \/ EmbedFails(p)
    BY <2>1, <2>3 DEF CheckReference, Prepared, EmbedFails
  <2>4. CASE InsertRow(p) \/ InsertRefused(p) \/ InsertFullText(p)
    BY <2>1, <2>4 DEF InsertRow, InsertRefused, InsertFullText
  <2>5. CASE BulkCommit(p) \/ BulkRollback(p) \/ UpdateRow(p)
    BY <2>1, <2>5 DEF BulkCommit, BulkRollback, UpdateRow
  <2>6. CASE ScanDependent(p) \/ LoadReferencing(p) \/ NullRow(p)
    BY <2>1, <2>6 DEF ScanDependent, LoadReferencing, NullRow
  <2>7. CASE RemoveRow(p) \/ Respond(p)
    BY <2>1, <2>7 DEF RemoveRow, Respond
  <2>8. CASE StatementFails(p)
    BY <2>1, <2>8 DEF StatementFails
  <2>. QED BY <2>2, <2>3, <2>4, <2>5, <2>6, <2>7, <2>8 DEF Serve
<1>. QED BY <1>1 DEF Goto, TypeOK

\* A request that starts has all the locals its first statement needs.
LEMMA StartType ==
    ASSUME TypeOK, NEW p \in Procs, Start(p)
    PROVE  TypeOK'
<1>1. db' = db
  BY DEF Start, StartInsert, StartBulk, StartUpdate, StartDelete
<1>2. ASSUME NEW op \in AllOps, NEW c \in Colls
      PROVE  LET f == [Idle EXCEPT !.op = op, !.coll = c]
             IN  f \in Frame /\ f.op = op /\ f.coll = c
  BY IdleFrame DEF Frame, Idle
<1>3. ASSUME NEW d \in Doc
      PROVE  <<d>> \in Seq(Doc) /\ Len(<<d>>) = 1 /\ <<d>>[1] = d
  OBVIOUS
<1>4. CASE StartInsert(p)
  <2>1. PICK c \in Colls : \E d \in DocsFor(c) :
            Goto(p, Preparing([Idle EXCEPT !.op = "insert", !.coll = c],
                              c, <<d>>, 1))
    BY <1>4 DEF StartInsert
  <2>2. PICK d \in DocsFor(c) :
            Goto(p, Preparing([Idle EXCEPT !.op = "insert", !.coll = c],
                              c, <<d>>, 1))
    BY <2>1
  <2>3. d \in Doc /\ "insert" \in Ops
    BY <1>4 DEF DocsFor, StartInsert
  <2> DEFINE docs == <<d>>
  <2>4. docs \in Seq(Doc) /\ Len(docs) = 1 /\ docs[1] = d /\ 1 \in 1..Len(docs)
    BY <1>3, <2>3
  <2> DEFINE f == [Idle EXCEPT !.op = "insert", !.coll = c]
  <2>5. f \in Frame /\ f.op = "insert" /\ f.coll = c
    BY <1>2 DEF AllOps
  <2>6. Goto(p, Preparing(f, c, docs, 1))
    BY <2>2
  <2>7. frame' \in [Procs -> Frame] /\ \A q \in Procs : LocalsOK(frame'[q])
    <3>1. f.op \in AllOps /\ f.op \in Ops /\ f.op # "delete" /\ f.coll \in Colls
      BY <2>3, <2>5 DEF AllOps
    <3>2. f.op \in {"update", "delete"} => docs[1].id \in Ids
      BY <2>3, <2>4, <2>5
    <3>. HIDE DEF docs, f
    <3>. QED BY <2>4, <2>5, <2>6, <3>1, <3>2, PreparingGoto
  <2>. QED BY <1>1, <2>7 DEF TypeOK, db
<1>5. CASE StartBulk(p)
  <2>1. PICK c \in Colls, b \in Batches :
            Goto(p, Preparing([Idle EXCEPT !.op = "bulk", !.coll = c],
                              c, b, 1))
    BY <1>5 DEF StartBulk
  <2>2. b \in Seq(Doc) /\ 1 \in 1..Len(b) /\ "bulk" \in Ops
    BY <1>5, WorkloadAssumption DEF StartBulk
  <2> DEFINE f == [Idle EXCEPT !.op = "bulk", !.coll = c]
  <2>3. f \in Frame /\ f.op = "bulk" /\ f.coll = c
    BY <1>2 DEF AllOps
  <2>4. Goto(p, Preparing(f, c, b, 1))
    BY <2>1
  <2>5. frame' \in [Procs -> Frame] /\ \A q \in Procs : LocalsOK(frame'[q])
    <3>. HIDE DEF f
    <3>. QED BY <2>2, <2>3, <2>4, PreparingGoto DEF AllOps
  <2>. QED BY <1>1, <2>5 DEF TypeOK, db
<1>6. CASE StartUpdate(p)
  <2>1. PICK c \in Colls : \E d \in DocsFor(c) :
            /\ d.id # None
            /\ Goto(p, Preparing([Idle EXCEPT !.op = "update", !.coll = c],
                                 c, <<d>>, 1))
    BY <1>6 DEF StartUpdate
  <2>2. PICK d \in DocsFor(c) :
            /\ d.id # None
            /\ Goto(p, Preparing([Idle EXCEPT !.op = "update", !.coll = c],
                                 c, <<d>>, 1))
    BY <2>1
  <2>3. d \in Doc /\ d.id \in Ids /\ "update" \in Ops
    BY <1>6, <2>2 DEF DocsFor, Doc, StartUpdate
  <2> DEFINE docs == <<d>>
  <2>4. docs \in Seq(Doc) /\ Len(docs) = 1 /\ docs[1] = d /\ 1 \in 1..Len(docs)
    BY <1>3, <2>3
  <2> DEFINE f == [Idle EXCEPT !.op = "update", !.coll = c]
  <2>5. f \in Frame /\ f.op = "update" /\ f.coll = c
    BY <1>2 DEF AllOps
  <2>6. Goto(p, Preparing(f, c, docs, 1))
    BY <2>2
  <2>7. frame' \in [Procs -> Frame] /\ \A q \in Procs : LocalsOK(frame'[q])
    <3>1. f.op \in AllOps /\ f.op \in Ops /\ f.op # "delete" /\ f.coll \in Colls
      BY <2>3, <2>5 DEF AllOps
    <3>2. f.op \in {"update", "delete"} => docs[1].id \in Ids
      BY <2>3, <2>4, <2>5
    <3>. HIDE DEF docs, f
    <3>. QED BY <2>4, <2>5, <2>6, <3>1, <3>2, PreparingGoto
  <2>. QED BY <1>1, <2>7 DEF TypeOK, db
<1>7. CASE StartDelete(p)
  <2>1. PICK c \in Colls, i \in Ids :
            Goto(p, Enforcing(
                [Idle EXCEPT !.op = "delete", !.coll = c, !.id = i],
                {r \in Refs : r.target = c}))
    BY <1>7 DEF StartDelete
  <2> DEFINE f == [Idle EXCEPT !.op = "delete", !.coll = c, !.id = i]
  <2>2. /\ f \in Frame /\ f.op = "delete" /\ f.coll \in Colls /\ f.id \in Ids
        /\ f.todo = {}
    BY IdleFrame DEF Frame, AllOps, Idle
  <2>3. {r \in Refs : r.target = c} \in SUBSET Refs /\ "delete" \in Ops
    BY <1>7 DEF StartDelete
  <2>4. Goto(p, Enforcing(f, {r \in Refs : r.target = c}))
    BY <2>1
  <2>5. frame' \in [Procs -> Frame] /\ \A q \in Procs : LocalsOK(frame'[q])
    <3>. HIDE DEF f
    <3>. QED BY <2>2, <2>3, <2>4, EnforcingFrame, GotoType
  <2>. QED BY <1>1, <2>5 DEF TypeOK, db
<1>. QED BY <1>4, <1>5, <1>6, <1>7 DEF Start

\* No step of a handler breaks the types, and each one leaves the handler with
\* the locals its next statement needs.
LEMMA ServeType ==
    ASSUME TypeOK, NEW p \in Procs, Serve(p)
    PROVE  TypeOK'
<1> DEFINE f == frame[p]
<1>1. /\ f \in Frame /\ LocalsOK(f)
      /\ f.docs \in Seq(Doc) /\ f.deps \in SUBSET Refs /\ f.ids \in SUBSET Ids
      /\ f.todo \in SUBSET Refs
  BY DEF TypeOK, Frame
<1>2. Statuses = {200, 201, 204, 400, 404, 409, 500}
  BY DEF Statuses
<1> DEFINE FramesOK == /\ frame' \in [Procs -> Frame]
                       /\ \A q \in Procs : LocalsOK(frame'[q])
<1>3. ASSUME db' = db, FramesOK
      PROVE  TypeOK'
  BY <1>3 DEF TypeOK, db
<1>4. ASSUME NEW s \in Statuses, Answer(p, s)
      PROVE  FramesOK
  BY <1>4, AnswerType
<1>6. ASSUME f.pc \in {"validate", "write", "fts"}
      PROVE  /\ f.k \in 1..Len(f.docs) /\ f.op \in AllOps /\ f.op \in Ops
             /\ f.op # "delete" => f.coll \in Colls
             /\ f.op # "bulk" => Len(f.docs) = 1 /\ f.docs[1] \in Doc
             /\ f.op \in {"update", "delete"} => f.docs[1].id \in Ids
             /\ f.op = "delete" => /\ f.dep \in Refs
                                   /\ f.coll \in Colls /\ f.id \in Ids
  BY <1>1, <1>6 DEF LocalsOK
<1>. HIDE DEF FramesOK
<1>7. CASE CheckReference(p)
  <2>1. PICK r \in f.todo :
            \/ Goto(p, [f EXCEPT !.todo = f.todo \ {r}])
            \/ Answer(p, 400)
    BY <1>7 DEF CheckReference
  <2>2. [f EXCEPT !.todo = f.todo \ {r}] \in Frame
    BY <1>1 DEF Frame
  <2>3. LocalsOK([f EXCEPT !.todo = f.todo \ {r}])
    BY <1>1, <1>7 DEF LocalsOK, Frame, CheckReference, At
  <2>. QED BY <1>2, <1>3, <1>4, <1>7, <2>1, <2>2, <2>3, GotoType
           DEF CheckReference, FramesOK
<1>8. CASE Prepared(p)
  <2>1. db' = db /\ f.pc = "validate"
    BY <1>8 DEF Prepared, At
  <2>2. CASE f.k < Len(f.docs)
    <3>1. Goto(p, Preparing(f, f.coll, f.docs, f.k + 1))
      BY <1>8, <2>2 DEF Prepared
    <3>2. f.k + 1 \in 1..Len(f.docs)
      BY <1>1, <1>6, <2>1, <2>2
    <3>. HIDE DEF f
    <3>. QED BY <1>1, <1>3, <1>6, <2>1, <3>1, <3>2, PreparingGoto DEF FramesOK
  <2>3. CASE ~(f.k < Len(f.docs))
    <3>1. Goto(p, [f EXCEPT !.pc = "write"])
      BY <1>8, <2>3 DEF Prepared
    <3>2. [f EXCEPT !.pc = "write"] \in Frame
      BY <1>1 DEF Frame, Labels
    <3>3. LocalsOK([f EXCEPT !.pc = "write"])
      BY <1>1, <1>6, <1>8 DEF LocalsOK, Frame, Prepared, At
    <3>. QED BY <1>3, <2>1, <3>1, <3>2, <3>3, GotoType DEF FramesOK
  <2>. QED BY <2>2, <2>3
<1>9. CASE EmbedFails(p)
  BY <1>2, <1>3, <1>4, <1>9 DEF EmbedFails
<1>10. CASE InsertRow(p)
  <2>1. f.op = "insert" /\ f.coll \in Colls /\ Len(f.docs) = 1 /\ f.pc = "write"
    BY <1>6, <1>10 DEF InsertRow, At
  <2>2. PICK ids \in Assignments(f.coll, f.docs) :
            /\ Store(f.coll, f.docs, ids)
            /\ Goto(p, IF f.coll \in VecColls
                       THEN [f EXCEPT !.pc = "fts", !.id = ids[1]]
                       ELSE Answered(f, 201))
    BY <1>10 DEF InsertRow
  <2>3. ids \in [1..Len(f.docs) -> Ids] /\ ids[1] \in Ids
    BY <2>1 DEF Assignments
  <2>4. /\ rows' \in Tables /\ fts' \in [Colls -> [Ids -> Bodies \cup {None}]]
        /\ seq' \in [Colls -> 0..MaxId]
    BY <1>1, <1>10, <2>1, <2>2, <2>3, StoreType DEF InsertRow, TypeOK
  <2>5. CASE f.coll \in VecColls
    <3> DEFINE g == [f EXCEPT !.pc = "fts", !.id = ids[1]]
    <3>1. g \in Frame
      BY <1>1, <2>3 DEF Frame, Labels
    <3>2. LocalsOK(g)
      BY <1>1, <1>6, <2>1, <2>3, <2>5 DEF LocalsOK, Frame
    <3>. QED BY <2>2, <2>4, <2>5, <3>1, <3>2, GotoType DEF TypeOK
  <2>6. CASE f.coll \notin VecColls
    <3>1. Answer(p, 201)
      BY <2>2, <2>6 DEF Answer
    <3>2. FramesOK
      BY <1>2, <1>4, <3>1
    <3>. QED BY <2>4, <3>2 DEF TypeOK, FramesOK
  <2>. QED BY <2>5, <2>6
<1>11. CASE InsertRefused(p)
  BY <1>2, <1>3, <1>4, <1>11 DEF InsertRefused
<1>12. CASE InsertFullText(p)
  <2>1. /\ f.pc = "fts" /\ f.coll \in Colls /\ f.id \in Ids
        /\ f.docs[1].body \in Bodies
    BY <1>1, <1>6, <1>12, RowType DEF InsertFullText, At, LocalsOK
  <2>2. FramesOK /\ rows' = rows /\ seq' = seq
    BY <1>2, <1>4, <1>12 DEF InsertFullText
  <2>3. fts' \in [Colls -> [Ids -> Bodies \cup {None}]]
    BY <1>12, <2>1 DEF InsertFullText, TypeOK
  <2>. QED BY <2>2, <2>3 DEF TypeOK, FramesOK
<1>13. CASE BulkCommit(p)
  <2>1. f.op = "bulk" /\ f.coll \in Colls
    BY <1>6, <1>13 DEF BulkCommit, At
  <2>2. PICK ids \in BatchIds(f.coll, f.docs) :
            /\ Store(f.coll, f.docs, ids)
            /\ Index(f.coll, f.docs, ids) \/ fts' = fts
    BY <1>13 DEF BulkCommit
  <2>3. ids \in [1..Len(f.docs) -> Ids]
    BY DEF BatchIds, Assignments
  <2>4. /\ rows' \in Tables /\ fts' \in [Colls -> [Ids -> Bodies \cup {None}]]
        /\ seq' \in [Colls -> 0..MaxId]
    BY <1>1, <2>1, <2>2, <2>3, StoreType, IndexType DEF TypeOK
  <2>5. FramesOK
    <3>1. Answer(p, 201)
      BY <1>13 DEF BulkCommit
    <3>. QED BY <1>2, <1>4, <3>1
  <2>. QED BY <2>4, <2>5 DEF TypeOK, FramesOK
<1>14. CASE BulkRollback(p)
  BY <1>2, <1>3, <1>4, <1>14 DEF BulkRollback
<1>15. CASE UpdateRow(p)
  <2> DEFINE found == rows[f.coll][f.docs[1].id] # None
  <2>1. /\ f.coll \in Colls /\ f.docs[1] \in Doc /\ f.docs[1].id \in Ids
    BY <1>6, <1>15 DEF UpdateRow, At
  <2>2. FramesOK
    <3>1. Answer(p, 200) \/ Answer(p, 404)
      BY <1>15 DEF UpdateRow
    <3>2. 200 \in Statuses /\ 404 \in Statuses
      BY <1>2
    <3>. QED BY <1>4, <3>1, <3>2
  <2>3. CASE found
    BY <1>15, <2>1, <2>2, <2>3, ReplaceType DEF UpdateRow, TypeOK, FramesOK
  <2>4. CASE ~found
    BY <1>3, <1>15, <2>2, <2>4 DEF UpdateRow
  <2>. QED BY <2>3, <2>4
<1>16. CASE ScanDependent(p)
  <2>1. db' = db /\ f.pc = "deps" /\ f.op = "delete"
    BY <1>1, <1>16 DEF ScanDependent, At, LocalsOK
  <2>2. f.coll \in Colls /\ f.id \in Ids /\ f.todo = {} /\ "delete" \in Ops
    BY <1>1, <2>1 DEF LocalsOK
  <2>3. PICK r \in f.deps :
            \/ Goto(p, Enforcing(f, f.deps \ {r}))
            \/ Answer(p, 409)
            \/ Goto(p, [f EXCEPT !.pc = "load", !.dep = r,
                                 !.ids = Matching(r, f.id)])
    BY <1>16 DEF ScanDependent
  <2>4. r \in Refs /\ f.deps \ {r} \in SUBSET Refs
    BY <1>1
  <2>5. CASE Goto(p, Enforcing(f, f.deps \ {r}))
    <3>1. /\ Enforcing(f, f.deps \ {r}) \in Frame
          /\ LocalsOK(Enforcing(f, f.deps \ {r}))
      BY <1>1, <2>1, <2>2, <2>4, EnforcingFrame
    <3>. QED BY <1>3, <2>1, <2>5, <3>1, GotoType DEF FramesOK
  <2>6. CASE Answer(p, 409)
    BY <1>2, <1>3, <1>4, <2>1, <2>6
  <2>7. CASE Goto(p, [f EXCEPT !.pc = "load", !.dep = r,
                               !.ids = Matching(r, f.id)])
    <3> DEFINE g == [f EXCEPT !.pc = "load", !.dep = r,
                              !.ids = Matching(r, f.id)]
    <3>1. Matching(r, f.id) \in SUBSET Ids
      BY DEF Matching
    <3>2. g \in Frame
      BY <1>1, <2>4, <3>1 DEF Frame, Labels
    <3>3. LocalsOK(g)
      BY <1>1, <2>1, <2>2, <2>4 DEF LocalsOK, Frame
    <3>. QED BY <1>3, <2>1, <2>7, <3>2, <3>3, GotoType DEF FramesOK
  <2>. QED BY <2>3, <2>5, <2>6, <2>7
<1>17. CASE LoadReferencing(p)
  <2>1. /\ db' = db /\ f.op = "delete" /\ f.dep \in Refs
        /\ f.coll \in Colls /\ f.id \in Ids /\ "delete" \in Ops
    BY <1>1, <1>17 DEF LoadReferencing, At, LocalsOK
  <2>2. PICK j \in f.ids :
            \/ /\ rows[f.dep.coll][j] # None
               /\ Goto(p, Preparing([f EXCEPT !.ids = f.ids \ {j}], f.dep.coll,
                                    <<NulledCopy(f.dep, j)>>, 1))
            \/ Goto(p, Panicked(f))
            \/ Answer(p, 500)
    BY <1>17 DEF LoadReferencing
  <2>3. CASE Answer(p, 500)
    BY <1>2, <1>3, <1>4, <2>1, <2>3
  <2>4. CASE /\ rows[f.dep.coll][j] # None
             /\ Goto(p, Preparing([f EXCEPT !.ids = f.ids \ {j}], f.dep.coll,
                                  <<NulledCopy(f.dep, j)>>, 1))
    <3> DEFINE d == NulledCopy(f.dep, j)
               docs == <<d>>
               g == [f EXCEPT !.ids = f.ids \ {j}]
    <3>1. d \in Doc /\ d.id \in Ids
      BY <1>1, <2>1, <2>4, NulledCopyType
    <3>2. docs \in Seq(Doc) /\ Len(docs) = 1 /\ docs[1] = d /\ 1 \in 1..Len(docs)
      BY <3>1
    <3>3. g \in Frame
      BY <1>1 DEF Frame
    <3>4. /\ g.op = "delete" /\ g.dep \in Refs /\ g.coll \in Colls
          /\ g.id \in Ids /\ g.op \in AllOps /\ g.op \in Ops
      BY <1>1, <2>1 DEF Frame, AllOps
    <3>5. Goto(p, Preparing(g, f.dep.coll, docs, 1)) /\ docs[1].id \in Ids
      BY <2>4, <3>1, <3>2
    <3>6. FramesOK
      <4>. HIDE DEF d, docs, g
      <4>. QED BY <3>2, <3>3, <3>4, <3>5, PreparingGoto DEF FramesOK
    <3>. QED BY <1>3, <2>1, <3>6
  <2>5. CASE Goto(p, Panicked(f))
    <3>1. FramesOK
      BY <1>1, <1>2, <2>5, AnsweredFrame, GotoType DEF FramesOK
    <3>. QED BY <1>3, <2>1, <3>1
  <2>. QED BY <2>2, <2>3, <2>4, <2>5
<1>18. CASE NullRow(p)
  <2> DEFINE found == rows[f.dep.coll][f.docs[1].id] # None
  <2>1. /\ f.pc = "write" /\ f.op = "delete" /\ f.dep \in Refs
        /\ f.docs[1] \in Doc /\ f.docs[1].id \in Ids
        /\ f.coll \in Colls /\ f.id \in Ids /\ f.todo = {} /\ "delete" \in Ops
    BY <1>1, <1>6, <1>18 DEF NullRow, At, LocalsOK
  <2>2. f.dep.coll \in Colls
    BY <2>1, SchemaAssumption DEF Reference
  <2>5. FramesOK
    <3>1. Goto(p, IF f.ids = {} THEN Enforcing(f, f.deps \ {f.dep})
                  ELSE [f EXCEPT !.pc = "load", !.docs = <<>>, !.k = 0])
      BY <1>18 DEF NullRow
    <3>2. CASE f.ids = {}
      <4>1. f.deps \ {f.dep} \in SUBSET Refs
        BY <1>1
      <4>2. /\ Enforcing(f, f.deps \ {f.dep}) \in Frame
            /\ LocalsOK(Enforcing(f, f.deps \ {f.dep}))
        BY <1>1, <2>1, <4>1, EnforcingFrame
      <4>. QED BY <3>1, <3>2, <4>2, GotoType DEF FramesOK
    <3>3. CASE f.ids # {}
      <4> DEFINE h == [f EXCEPT !.pc = "load", !.docs = <<>>, !.k = 0]
      <4>1. h \in Frame
        <5>1. "load" \in Labels /\ <<>> \in Seq(Doc)
          BY DEF Labels
        <5>. QED BY <1>1, <5>1 DEF Frame
      <4>2. LocalsOK(h)
        BY <1>1, <2>1 DEF LocalsOK, Frame
      <4>. QED BY <3>1, <3>3, <4>1, <4>2, GotoType DEF FramesOK
    <3>. QED BY <3>2, <3>3
  <2>6. CASE found
    BY <1>18, <2>1, <2>2, <2>5, <2>6, ReplaceType DEF NullRow, TypeOK, FramesOK
  <2>7. CASE ~found
    BY <1>3, <1>18, <2>5, <2>7 DEF NullRow
  <2>. QED BY <2>6, <2>7
<1>19. CASE RemoveRow(p)
  <2> DEFINE found == rows[f.coll][f.id] # None
  <2>1. f.coll \in Colls /\ f.id \in Ids
    BY <1>1, <1>19 DEF RemoveRow, At, LocalsOK
  <2>2. FramesOK
    <3>1. Answer(p, 204) \/ Answer(p, 404)
      BY <1>19 DEF RemoveRow
    <3>2. 204 \in Statuses /\ 404 \in Statuses
      BY <1>2
    <3>. QED BY <1>4, <3>1, <3>2
  <2>3. CASE found
    <3>1. /\ rows' = [rows EXCEPT ![f.coll][f.id] = None]
          /\ fts' = fts \/ fts' = [fts EXCEPT ![f.coll][f.id] = None]
          /\ seq' = seq
      BY <1>19, <2>3 DEF RemoveRow
    <3>2. rows' \in Tables
      BY <2>1, <3>1 DEF TypeOK, Tables
    <3>3. fts' \in [Colls -> [Ids -> Bodies \cup {None}]]
      BY <2>1, <3>1 DEF TypeOK
    <3>. QED BY <2>2, <3>1, <3>2, <3>3 DEF TypeOK, FramesOK
  <2>4. CASE ~found
    BY <1>3, <1>19, <2>2, <2>4 DEF RemoveRow
  <2>. QED BY <2>3, <2>4
<1>20. CASE StatementFails(p)
  BY <1>2, <1>3, <1>4, <1>20 DEF StatementFails
<1>21. CASE Respond(p)
  BY <1>3, <1>21, IdleFrame, GotoType DEF Respond, FramesOK
<1>. QED BY <1>7, <1>8, <1>9, <1>10, <1>11, <1>12, <1>13, <1>14, <1>15, <1>16,
            <1>17, <1>18, <1>19, <1>20, <1>21 DEF Serve

\* Every state of the server is well typed, whatever clients do and whatever
\* fails.
THEOREM TypeCorrect == Spec => []TypeOK
<1>1. TypeOK /\ [Next]_vars => TypeOK'
  <2> SUFFICES ASSUME TypeOK, [Next]_vars
               PROVE  TypeOK'
    OBVIOUS
  <2>1. CASE Crash
    BY <2>1, IdleFrame DEF Crash, TypeOK, db
  <2>2. ASSUME NEW p \in Procs, Start(p) \/ Serve(p)
        PROVE  TypeOK'
    BY <2>2, StartType, ServeType
  <2>3. CASE UNCHANGED vars
    BY <2>3 DEF TypeOK, vars
  <2>. QED BY <2>1, <2>2, <2>3 DEF Next
<1>. QED BY InitType, <1>1, PTL DEF Spec

-----------------------------------------------------------------------------
(***************************************************************************)
(* Referential integrity, as long as nobody deletes: what a handler has    *)
(* looked up stays true until it writes, because rows do not vanish.       *)
(***************************************************************************)

(* The references of document j of a handler resolve, but for those in skip. *)
Resolved(tables, f, j, skip) ==
    \A r \in SetRefs(Written(f), f.docs[j]) \ skip :
        Resolves(tables, r, f.docs[j].data[r.field])

(* What the lookups a handler has made so far tell it.                      *)
Checked(tables, f) ==
    /\ f.pc = "validate" => /\ \A j \in 1..(f.k - 1) : Resolved(tables, f, j, {})
                            /\ Resolved(tables, f, f.k, f.todo)
    /\ f.pc = "write" => \A j \in 1..Len(f.docs) : Resolved(tables, f, j, {})

RefInv == RefIntegrity /\ \A p \in Procs : Checked(rows, frame[p])

(* A step that removes no row and writes only rows whose references resolve. *)
GoodWrite ==
    \A c \in Colls, i \in Ids :
        rows'[c][i] # rows[c][i] =>
            /\ rows'[c][i] # None
            /\ \A r \in SetRefs(c, rows'[c][i]) :
                    Resolves(rows, r, rows'[c][i].data[r.field])

\* The value of a declared reference field is an id or None.
LEMMA RefType ==
    ASSUME NEW r \in Refs
    PROVE  /\ r.coll \in Colls /\ r.target \in Colls /\ r.field \in Fields
           /\ \A v \in Values : v[r.field] \in Ids \cup {None}
BY SchemaAssumption DEF Reference, Values

\* Such a step keeps the integrity, and what resolved still resolves.
LEMMA GoodWriteStep ==
    ASSUME TypeOK, TypeOK', RefIntegrity, GoodWrite
    PROVE  /\ RefIntegrity'
           /\ \A r \in Refs, v \in Ids : Resolves(rows, r, v) => Resolves(rows', r, v)
<1>1. ASSUME NEW r \in Refs, NEW v \in Ids, Resolves(rows, r, v)
      PROVE  Resolves(rows', r, v)
  BY <1>1, RefType DEF Resolves, GoodWrite
<1>2. ASSUME NEW r \in Refs, NEW i \in Ids, rows'[r.coll][i] # None,
             rows'[r.coll][i].data[r.field] # None
      PROVE  Resolves(rows', r, rows'[r.coll][i].data[r.field])
  <2>1. r.coll \in Colls /\ rows'[r.coll][i] \in Row
    BY <1>2, RefType DEF TypeOK, Tables
  <2>2. rows'[r.coll][i].data[r.field] \in Ids
    BY <1>2, <2>1, RefType DEF Row
  <2>3. Resolves(rows, r, rows'[r.coll][i].data[r.field])
    <3>1. CASE rows'[r.coll][i] = rows[r.coll][i]
      BY <1>2, <3>1 DEF RefIntegrity, Consistent
    <3>2. CASE rows'[r.coll][i] # rows[r.coll][i]
      BY <1>2, <2>1, <3>2 DEF GoodWrite, SetRefs
    <3>. QED BY <3>1, <3>2
  <2>. QED BY <1>1, <2>2, <2>3
<1>. QED BY <1>1, <1>2 DEF RefIntegrity, Consistent

\* Storing documents whose references have all been looked up is such a step.
LEMMA StoreGood ==
    ASSUME TypeOK, NEW c \in Colls, NEW docs \in Seq(Doc),
           NEW ids \in [1..Len(docs) -> Ids], Store(c, docs, ids),
           \A k \in 1..Len(docs) : \A r \in SetRefs(c, docs[k]) :
               Resolves(rows, r, docs[k].data[r.field])
    PROVE  GoodWrite
<1> SUFFICES ASSUME NEW a \in Colls, NEW i \in Ids, rows'[a][i] # rows[a][i]
             PROVE  /\ rows'[a][i] # None
                    /\ \A r \in SetRefs(a, rows'[a][i]) :
                            Resolves(rows, r, rows'[a][i].data[r.field])
  BY DEF GoodWrite
<1>1. a = c /\ i \in New(docs, ids)
  BY DEF Store, TypeOK, Tables
<1>2. PICK k \in 1..Len(docs) : DocAt(docs, ids, i) = docs[k]
  BY <1>1 DEF DocAt, New
<1>3. docs[k] \in Doc
  OBVIOUS
<1>4. rows'[a][i] = Content(docs[k])
  BY <1>1, <1>2 DEF Store, TypeOK, Tables
<1>5. rows'[a][i] # None /\ SetRefs(a, rows'[a][i]) = SetRefs(c, docs[k])
  BY <1>1, <1>3, <1>4, RowType DEF SetRefs
<1>. QED BY <1>3, <1>4, <1>5, RowType

\* So is replacing a row by one whose references have been looked up.
LEMMA ReplaceGood ==
    ASSUME TypeOK, NEW c \in Colls, NEW d \in Doc, d.id \in Ids,
           Replace(c, d),
           \A r \in SetRefs(c, d) : Resolves(rows, r, d.data[r.field])
    PROVE  GoodWrite
<1> SUFFICES ASSUME NEW a \in Colls, NEW i \in Ids, rows'[a][i] # rows[a][i]
             PROVE  /\ rows'[a][i] # None
                    /\ \A r \in SetRefs(a, rows'[a][i]) :
                            Resolves(rows, r, rows'[a][i].data[r.field])
  BY DEF GoodWrite
<1>1. a = c /\ rows'[a][i] = Content(d)
  BY DEF Replace, TypeOK, Tables
<1>2. rows'[a][i] # None /\ SetRefs(a, rows'[a][i]) = SetRefs(c, d)
  BY <1>1, RowType DEF SetRefs
<1>. QED BY <1>1, <1>2, RowType

\* Every step of a handler that is not deleting is such a step.
LEMMA ServeGood ==
    ASSUME TypeOK, NEW p \in Procs, Serve(p), Checked(rows, frame[p]),
           frame[p].op = "delete" => frame[p].pc \in {"idle", "panic", "reply"}
    PROVE  GoodWrite
<1> DEFINE f == frame[p]
<1>1. f \in Frame /\ LocalsOK(f) /\ Checked(rows, f) /\ f.docs \in Seq(Doc)
  BY DEF TypeOK, Frame
<1>2. ASSUME rows' = rows
      PROVE  GoodWrite
  BY <1>2 DEF GoodWrite
<1>3. ASSUME f.pc = "write", f.op \in {"insert", "bulk", "update"}
      PROVE  /\ f.coll \in Colls
             /\ \A k \in 1..Len(f.docs) : \A r \in SetRefs(f.coll, f.docs[k]) :
                    Resolves(rows, r, f.docs[k].data[r.field])
  BY <1>1, <1>3 DEF LocalsOK, Checked, Resolved, Written
<1>4. CASE InsertRow(p) \/ BulkCommit(p)
  <2>1. f.pc = "write" /\ f.op \in {"insert", "bulk"}
    BY <1>4 DEF InsertRow, BulkCommit, At
  <2>2. PICK ids \in Assignments(f.coll, f.docs) : Store(f.coll, f.docs, ids)
    BY <1>4 DEF InsertRow, BulkCommit, BatchIds
  <2>3. ids \in [1..Len(f.docs) -> Ids]
    BY DEF Assignments
  <2>. QED BY <1>1, <1>3, <2>1, <2>2, <2>3, StoreGood
<1>5. CASE UpdateRow(p)
  <2>1. /\ f.pc = "write" /\ f.op = "update" /\ Len(f.docs) = 1
        /\ f.docs[1] \in Doc /\ f.docs[1].id \in Ids
    BY <1>1, <1>5 DEF UpdateRow, At, LocalsOK
  <2>2. CASE Replace(f.coll, f.docs[1])
    BY <1>3, <2>1, <2>2, ReplaceGood
  <2>3. CASE db' = db
    BY <1>2, <2>3 DEF db
  <2>. QED BY <1>5, <2>2, <2>3 DEF UpdateRow
<1>6. CASE NullRow(p) \/ RemoveRow(p)
  BY <1>1, <1>6 DEF NullRow, RemoveRow, LocalsOK, At
<1>7. CASE InsertFullText(p)
  BY <1>2, <1>7 DEF InsertFullText
<1>8. CASE \/ CheckReference(p) \/ Prepared(p) \/ EmbedFails(p)
           \/ InsertRefused(p) \/ BulkRollback(p) \/ ScanDependent(p)
           \/ LoadReferencing(p) \/ StatementFails(p) \/ Respond(p)
  BY <1>2, <1>8 DEF CheckReference, Prepared, EmbedFails, InsertRefused,
       BulkRollback, ScanDependent, LoadReferencing, StatementFails, Respond, db
<1>. QED BY <1>4, <1>5, <1>6, <1>7, <1>8 DEF Serve

\* What a handler has looked up stays true over such a step.
LEMMA CheckedStable ==
    ASSUME TypeOK, TypeOK', RefIntegrity, GoodWrite,
           NEW f \in Frame, LocalsOK(f), Checked(rows, f)
    PROVE  Checked(rows', f)
<1>1. ASSUME f.pc \in {"validate", "write"}, NEW j \in 1..Len(f.docs),
             NEW skip, Resolved(rows, f, j, skip)
      PROVE  Resolved(rows', f, j, skip)
  <2> SUFFICES ASSUME NEW r \in SetRefs(Written(f), f.docs[j]) \ skip
               PROVE  Resolves(rows', r, f.docs[j].data[r.field])
    BY DEF Resolved
  <2>1. f.docs[j] \in Doc /\ r \in Refs /\ f.docs[j].data[r.field] # None
    BY DEF Frame, SetRefs
  <2>2. f.docs[j].data[r.field] \in Ids
    BY <2>1, RefType DEF Doc
  <2>3. Resolves(rows, r, f.docs[j].data[r.field])
    BY <1>1 DEF Resolved
  <2>. QED BY <2>1, <2>2, <2>3, GoodWriteStep
<1>2. f.pc \in {"validate", "write"} => f.k \in 1..Len(f.docs) /\ Len(f.docs) \in Nat
  BY DEF LocalsOK, Frame
<1>3. CASE f.pc = "validate"
  <2>1. \A j \in 1..(f.k - 1) : j \in 1..Len(f.docs)
    BY <1>2, <1>3
  <2>2. /\ \A j \in 1..(f.k - 1) : Resolved(rows, f, j, {})
        /\ Resolved(rows, f, f.k, f.todo)
    BY <1>3 DEF Checked
  <2>3. /\ \A j \in 1..(f.k - 1) : Resolved(rows', f, j, {})
        /\ Resolved(rows', f, f.k, f.todo)
    BY <1>1, <1>2, <1>3, <2>1, <2>2
  <2>. QED BY <1>3, <2>3 DEF Checked
<1>4. CASE f.pc = "write"
  <2>1. \A j \in 1..Len(f.docs) : Resolved(rows, f, j, {})
    BY <1>4 DEF Checked
  <2>2. \A j \in 1..Len(f.docs) : Resolved(rows', f, j, {})
    BY <1>1, <1>4, <2>1
  <2>. QED BY <1>4, <2>2 DEF Checked
<1>5. CASE f.pc \notin {"validate", "write"}
  BY <1>5 DEF Checked
<1>. QED BY <1>3, <1>4, <1>5

\* A handler that begins with a document has everything left to look up.
LEMMA PreparingChecked ==
    ASSUME NEW f \in Frame, f.op # "delete", NEW docs \in Seq(Doc),
           NEW k \in 1..Len(docs),
           \A j \in 1..(k - 1) : \A r \in SetRefs(f.coll, docs[j]) :
               Resolves(rows, r, docs[j].data[r.field])
    PROVE  Checked(rows, Preparing(f, f.coll, docs, k))
<1> DEFINE g == Preparing(f, f.coll, docs, k)
<1>1. /\ g.pc = "validate" /\ g.k = k /\ g.docs = docs
      /\ g.todo = SetRefs(f.coll, docs[k]) /\ Written(g) = f.coll
  BY DEF Preparing, Written, Frame
<1>. QED BY <1>1 DEF Checked, Resolved

\* The handler that takes a step still knows that what it has looked up holds.
LEMMA ServeChecked ==
    ASSUME TypeOK, NEW p \in Procs, Start(p) \/ Serve(p), ~StartDelete(p),
           Checked(rows, frame[p]),
           frame[p].op = "delete" => frame[p].pc \in {"idle", "panic", "reply"}
    PROVE  Checked(rows, frame'[p])
<1> DEFINE f == frame[p]
<1>1. f \in Frame /\ LocalsOK(f) /\ Checked(rows, f) /\ f.docs \in Seq(Doc)
  BY DEF TypeOK, Frame
<1>2. ASSUME NEW g, Goto(p, g), g.pc \notin {"validate", "write"}
      PROVE  Checked(rows, frame'[p])
  BY <1>2 DEF Goto, Checked, TypeOK
<1>3. ASSUME NEW s, NEW h
      PROVE  Answered(h, s).pc \notin {"validate", "write"}
  BY DEF Answered, Idle
<1>4. ASSUME NEW op, NEW c, NEW docs \in Seq(Doc), Len(docs) > 0,
             op \in {"insert", "bulk", "update"}, c \in Colls,
             Goto(p, Preparing([Idle EXCEPT !.op = op, !.coll = c],
                               c, docs, 1))
      PROVE  Checked(rows, frame'[p])
  <2> DEFINE h == [Idle EXCEPT !.op = op, !.coll = c]
  <2>1. h \in Frame /\ h.op # "delete" /\ h.coll = c
    BY <1>4, IdleFrame DEF Frame, Idle, AllOps
  <2>2. 1 \in 1..Len(docs) /\ 1..(1 - 1) = {}
    BY <1>4
  <2>3. Checked(rows, Preparing(h, c, docs, 1))
    <3>. HIDE DEF h
    <3>. QED BY <2>1, <2>2, PreparingChecked
  <2>4. frame'[p] = Preparing(h, c, docs, 1)
    BY <1>4 DEF Goto, TypeOK
  <2>. QED BY <2>3, <2>4
<1>5. CASE Start(p)
  <2>1. PICK op \in {"insert", "bulk", "update"}, c \in Colls,
             docs \in Seq(Doc) :
             /\ Len(docs) > 0
             /\ Goto(p, Preparing([Idle EXCEPT !.op = op, !.coll = c],
                                  c, docs, 1))
    <3>1. \A d \in Doc : <<d>> \in Seq(Doc) /\ Len(<<d>>) > 0
      OBVIOUS
    <3>2. \A b \in Batches : b \in Seq(Doc) /\ Len(b) > 0
      BY WorkloadAssumption
    <3>3. CASE StartInsert(p)
      BY <3>1, <3>3 DEF StartInsert, DocsFor
    <3>4. CASE StartBulk(p)
      BY <3>2, <3>4 DEF StartBulk
    <3>5. CASE StartUpdate(p)
      BY <3>1, <3>5 DEF StartUpdate, DocsFor
    <3>6. CASE StartDelete(p)
      BY <3>6 DEF StartDelete
    <3>. QED BY <1>5, <3>3, <3>4, <3>5, <3>6 DEF Start
  <2>. QED BY <1>4, <2>1
<1>6. CASE CheckReference(p)
  <2>1. PICK r \in f.todo :
            \/ /\ Resolves(rows, r, f.docs[f.k].data[r.field])
               /\ Goto(p, [f EXCEPT !.todo = f.todo \ {r}])
            \/ Answer(p, 400)
    BY <1>6 DEF CheckReference
  <2>2. CASE Answer(p, 400)
    BY <1>2, <1>3, <2>2 DEF Answer
  <2>3. CASE /\ Resolves(rows, r, f.docs[f.k].data[r.field])
             /\ Goto(p, [f EXCEPT !.todo = f.todo \ {r}])
    <3> DEFINE g == [f EXCEPT !.todo = f.todo \ {r}]
    <3>1. /\ g.pc = "validate" /\ f.pc = "validate" /\ g.k = f.k
          /\ g.docs = f.docs /\ g.todo = f.todo \ {r} /\ Written(g) = Written(f)
      BY <1>1, <1>6 DEF CheckReference, At, Frame, Written
    <3>2. Checked(rows, g)
      <4>. HIDE DEF g
      <4>. QED BY <1>1, <2>3, <3>1 DEF Checked, Resolved
    <3>3. frame'[p] = g
      BY <2>3 DEF Goto, TypeOK
    <3>. QED BY <3>2, <3>3
  <2>. QED BY <2>1, <2>2, <2>3
<1>7. CASE Prepared(p)
  <2>1. /\ f.pc = "validate" /\ f.todo = {} /\ f.op # "delete"
        /\ f.k \in 1..Len(f.docs) /\ Written(f) = f.coll /\ Len(f.docs) \in Nat
    BY <1>1, <1>7 DEF Prepared, At, LocalsOK, Written
  <2>2. \A j \in 1..f.k : \A r \in SetRefs(f.coll, f.docs[j]) :
            Resolves(rows, r, f.docs[j].data[r.field])
    BY <1>1, <2>1 DEF Checked, Resolved
  <2>3. CASE f.k < Len(f.docs)
    <3>1. f.k + 1 \in 1..Len(f.docs) /\ (f.k + 1) - 1 = f.k
      BY <2>1, <2>3
    <3>2. frame'[p] = Preparing(f, f.coll, f.docs, f.k + 1)
      BY <1>7, <2>3 DEF Prepared, Goto, TypeOK
    <3>. HIDE DEF f
    <3>. QED BY <1>1, <2>1, <2>2, <3>1, <3>2, PreparingChecked
  <2>4. CASE ~(f.k < Len(f.docs))
    <3> DEFINE g == [f EXCEPT !.pc = "write"]
    <3>1. frame'[p] = g /\ f.k = Len(f.docs)
      BY <1>7, <2>1, <2>4 DEF Prepared, Goto, TypeOK
    <3>2. g.pc = "write" /\ g.docs = f.docs /\ Written(g) = f.coll
      BY <1>1, <2>1 DEF Frame, Written
    <3>. QED BY <2>2, <3>1, <3>2 DEF Checked, Resolved
  <2>. QED BY <2>3, <2>4
<1>8. CASE InsertRow(p)
  <2>1. PICK i \in Ids :
            Goto(p, IF f.coll \in VecColls
                    THEN [f EXCEPT !.pc = "fts", !.id = i]
                    ELSE Answered(f, 201))
    <3>1. \A ids \in Assignments(f.coll, f.docs) : ids[1] \in Ids
      BY <1>1, <1>8 DEF Assignments, LocalsOK, InsertRow, At
    <3>. QED BY <1>8, <3>1 DEF InsertRow
  <2>2. [f EXCEPT !.pc = "fts", !.id = i].pc = "fts"
    BY <1>1 DEF Frame
  <2>. QED BY <1>2, <1>3, <2>1, <2>2
<1>9. ASSUME NEW s, Answer(p, s)
      PROVE  Checked(rows, frame'[p])
  BY <1>2, <1>3, <1>9 DEF Answer
<1>12. CASE EmbedFails(p) \/ InsertRefused(p) \/ BulkRollback(p)
  BY <1>9, <1>12 DEF EmbedFails, InsertRefused, BulkRollback
<1>16. CASE StatementFails(p)
  <2>1. PICK s \in {400, 500} : Answer(p, s)
    BY <1>16 DEF StatementFails
  <2>. QED BY <1>9, <2>1
<1>13. CASE InsertFullText(p)
  BY <1>9, <1>13 DEF InsertFullText
<1>14. CASE BulkCommit(p)
  BY <1>9, <1>14 DEF BulkCommit
<1>15. CASE UpdateRow(p)
  BY <1>9, <1>15 DEF UpdateRow
<1>10. CASE \/ ScanDependent(p) \/ LoadReferencing(p) \/ NullRow(p)
            \/ RemoveRow(p)
  BY <1>1, <1>10 DEF ScanDependent, LoadReferencing, NullRow, RemoveRow, At,
       LocalsOK
<1>11. CASE Respond(p)
  BY <1>2, <1>11 DEF Respond, Idle
<1>. QED BY <1>5, <1>6, <1>7, <1>8, <1>10, <1>11, <1>12, <1>13, <1>14, <1>15,
         <1>16 DEF Serve

\* If nobody deletes, no document ever points at one that is not there, however
\* many requests race and whatever fails: the lookups of validateReferences
\* cannot become stale before the write they protect.
THEOREM RefIntegrityWithoutDeletes ==
    ASSUME "delete" \notin Ops
    PROVE  Spec => []RefIntegrity
<1>1. Init => RefInv
  BY DatabaseAssumption
     DEF Init, RefInv, RefIntegrity, Checked, Idle
<1>2. TypeOK /\ TypeOK' /\ RefInv /\ [Next]_vars => RefInv'
  <2> SUFFICES ASSUME TypeOK, TypeOK', RefInv, [Next]_vars
               PROVE  RefInv'
    OBVIOUS
  <2>1. ASSUME GoodWrite, \A q \in Procs : Checked(rows, frame'[q])
        PROVE  RefInv'
    <3>1. RefIntegrity'
      BY <2>1, GoodWriteStep DEF RefInv
    <3>2. ASSUME NEW q \in Procs
          PROVE  Checked(rows', frame'[q])
      <4>1. frame'[q] \in Frame /\ LocalsOK(frame'[q])
        BY DEF TypeOK
      <4>. QED BY <2>1, <4>1, CheckedStable DEF RefInv
    <3>. QED BY <3>1, <3>2 DEF RefInv
  <2>2. CASE Crash
    <3>1. GoodWrite
      BY <2>2 DEF Crash, db, GoodWrite
    <3>2. \A q \in Procs : Checked(rows, frame'[q])
      BY <2>2 DEF Crash, Checked, Idle
    <3>. QED BY <2>1, <3>1, <3>2
  <2>3. ASSUME NEW p \in Procs, Start(p) \/ Serve(p)
        PROVE  RefInv'
    <3>0. /\ Checked(rows, frame[p]) /\ ~StartDelete(p)
          /\ frame[p].op = "delete" => frame[p].pc \in {"idle", "panic", "reply"}
      BY DEF RefInv, TypeOK, LocalsOK, StartDelete
    <3>1. GoodWrite
      BY <2>3, <3>0, ServeGood DEF Start, StartInsert, StartBulk, StartUpdate,
         StartDelete, db, GoodWrite
    <3>2. ASSUME NEW q \in Procs
          PROVE  Checked(rows, frame'[q])
      <4>1. CASE q = p
        BY <2>3, <3>0, <4>1, ServeChecked
      <4>2. CASE q # p
        <5>1. frame'[q] = frame[q]
          BY <2>3, <4>2, StepFrame
        <5>. QED BY <5>1 DEF RefInv
      <4>. QED BY <4>1, <4>2
    <3>. QED BY <2>1, <3>1, <3>2
  <2>4. CASE UNCHANGED vars
    BY <2>4 DEF vars, RefInv, RefIntegrity
  <2>. QED BY <2>2, <2>3, <2>4 DEF Next
<1>3. RefInv => RefIntegrity
  BY DEF RefInv
<1>. QED BY <1>1, <1>2, <1>3, TypeCorrect, PTL DEF Spec

-----------------------------------------------------------------------------
(***************************************************************************)
(* How a handler's locals change.                                          *)
(***************************************************************************)

\* The locals of a request that has its answer.
LEMMA AnswerLocals ==
    ASSUME TypeOK, NEW p \in Procs, NEW s, Answer(p, s)
    PROVE  /\ frame'[p].pc = "reply" /\ frame'[p].op = frame[p].op
           /\ frame'[p].status = s
<1>1. frame'[p] = Answered(frame[p], s)
  BY Zenon DEF Answer, Goto, TypeOK
<1>. QED BY <1>1 DEF Answered, Idle

\* The other ways in which a handler goes on: never at its second commit, never
\* with an answer.
LEMMA LabelsAfter ==
    ASSUME NEW f \in Frame
    PROVE  /\ \A c, docs, k : Preparing(f, c, docs, k).pc = "validate"
           /\ \A deps : Enforcing(f, deps).pc \in {"remove", "deps"}
           /\ Panicked(f).pc = "panic" /\ Idle.pc = "idle"
BY DEF Preparing, Enforcing, Panicked, Idle, Frame

\* A request that begins has changed nothing, and has no answer yet.
LEMMA StartStep ==
    ASSUME TypeOK, NEW p \in Procs, Start(p)
    PROVE  db' = db /\ frame'[p].pc \in {"validate", "remove", "deps"}
<1>1. ASSUME NEW g, Goto(p, g)
      PROVE  frame'[p] = g
  BY <1>1 DEF Goto, TypeOK
<1>2. CASE StartDelete(p)
  <2>1. PICK c \in Colls, i \in Ids :
            Goto(p, Enforcing([Idle EXCEPT !.op = "delete", !.coll = c, !.id = i],
                              {r \in Refs : r.target = c}))
    BY <1>2 DEF StartDelete
  <2> DEFINE h == Enforcing([Idle EXCEPT !.op = "delete", !.coll = c, !.id = i],
                            {r \in Refs : r.target = c})
  <2>2. h.pc \in {"remove", "deps"}
    BY DEF Enforcing, Idle
  <2>3. Goto(p, h)
    BY <2>1
  <2> HIDE DEF h
  <2>4. frame'[p].pc \in {"remove", "deps"}
    BY <1>1, <2>2, <2>3
  <2>. QED BY <1>2, <2>4 DEF StartDelete
<1>3. CASE StartInsert(p) \/ StartBulk(p) \/ StartUpdate(p)
  <2>1. \E op, c, docs :
            Goto(p, Preparing([Idle EXCEPT !.op = op, !.coll = c], c, docs, 1))
    BY <1>3 DEF StartInsert, StartBulk, StartUpdate
  <2>2. PICK op, c, docs :
            Goto(p, Preparing([Idle EXCEPT !.op = op, !.coll = c], c, docs, 1))
    BY <2>1
  <2> DEFINE h == Preparing([Idle EXCEPT !.op = op, !.coll = c], c, docs, 1)
  <2>3. h.pc = "validate"
    BY DEF Preparing, Idle
  <2>4. Goto(p, h)
    BY <2>2
  <2> HIDE DEF h
  <2>5. frame'[p].pc = "validate"
    BY <1>1, <2>3, <2>4
  <2>. QED BY <1>3, <2>5 DEF StartInsert, StartBulk, StartUpdate
<1>. QED BY <1>2, <1>3 DEF Start

\* A step of a handler that is not a write changes nothing, and is not a
\* success.
Writes(p) ==
    \/ InsertRow(p) \/ InsertFullText(p) \/ BulkCommit(p)
    \/ UpdateRow(p) \/ NullRow(p) \/ RemoveRow(p)

Quiet(p) == db' = db /\ frame'[p].pc # "fts" /\ ~Succeeds(frame'[p])

LEMMA OtherSteps ==
    ASSUME TypeOK, NEW p \in Procs, Serve(p)
    PROVE  Writes(p) \/ Quiet(p)
<1> DEFINE f == frame[p]
<1>1. f \in Frame
  BY DEF TypeOK
<1>2. ASSUME NEW g, Goto(p, g)
      PROVE  frame'[p] = g
  BY <1>2 DEF Goto, TypeOK
<1>3. ASSUME NEW g, Goto(p, g), g.pc \notin {"fts", "reply"}, db' = db
      PROVE  Quiet(p)
  BY <1>2, <1>3 DEF Quiet, Succeeds
<1>4. ASSUME NEW s \in {400, 404, 409, 500}, Answer(p, s), db' = db
      PROVE  Quiet(p)
  BY <1>4, AnswerLocals DEF Quiet, Succeeds
<1>5. CASE CheckReference(p)
  <2>1. PICK r : \/ Goto(p, [f EXCEPT !.todo = f.todo \ {r}])
                 \/ Answer(p, 400)
    BY <1>5 DEF CheckReference
  <2> DEFINE g == [f EXCEPT !.todo = f.todo \ {r}]
  <2>2. g.pc = f.pc /\ f.pc = "validate" /\ db' = db
    BY <1>1, <1>5 DEF CheckReference, At, Frame
  <2>3. Goto(p, g) \/ Answer(p, 400)
    BY <2>1
  <2> HIDE DEF g
  <2>. QED BY <1>3, <1>4, <2>2, <2>3
<1>6. CASE Prepared(p)
  <2>1. PICK g \in {Preparing(f, f.coll, f.docs, f.k + 1),
                    [f EXCEPT !.pc = "write"]} : Goto(p, g)
    BY <1>6 DEF Prepared
  <2>2. g.pc \in {"validate", "write"} /\ f.pc = "validate" /\ db' = db
    BY <1>1, <1>6, <2>1, LabelsAfter DEF Prepared, At, Frame
  <2>. QED BY <1>3, <2>1, <2>2
<1>7. CASE EmbedFails(p) \/ BulkRollback(p) \/ InsertRefused(p)
  BY <1>4, <1>7 DEF EmbedFails, BulkRollback, InsertRefused
<1>8. CASE StatementFails(p)
  BY <1>4, <1>8 DEF StatementFails
<1>9. CASE ScanDependent(p)
  <2>1. PICK r \in f.deps :
            \/ Goto(p, Enforcing(f, f.deps \ {r}))
            \/ Answer(p, 409)
            \/ Goto(p, [f EXCEPT !.pc = "load", !.dep = r,
                                 !.ids = Matching(r, f.id)])
    BY <1>9 DEF ScanDependent
  <2>2. /\ Enforcing(f, f.deps \ {r}).pc \in {"remove", "deps"}
        /\ [f EXCEPT !.pc = "load", !.dep = r, !.ids = Matching(r, f.id)].pc
                = "load"
    BY <1>1, LabelsAfter DEF Frame
  <2>3. db' = db
    BY <1>9 DEF ScanDependent
  <2>4. CASE Answer(p, 409)
    BY <1>4, <2>3, <2>4
  <2>. QED BY <1>3, <2>1, <2>2, <2>3, <2>4
<1>10. CASE LoadReferencing(p)
  <2>1. PICK j \in f.ids :
            \/ Goto(p, Preparing([f EXCEPT !.ids = f.ids \ {j}], f.dep.coll,
                                 <<NulledCopy(f.dep, j)>>, 1))
            \/ Goto(p, Panicked(f))
            \/ Answer(p, 500)
    BY <1>10 DEF LoadReferencing
  <2> DEFINE h == [f EXCEPT !.ids = f.ids \ {j}]
             g == Preparing(h, f.dep.coll, <<NulledCopy(f.dep, j)>>, 1)
  <2>2. g.pc = "validate" /\ Panicked(f).pc = "panic"
    <3>1. h \in Frame
      BY <1>1 DEF Frame
    <3>. HIDE DEF h
    <3>. QED BY <1>1, <3>1, LabelsAfter
  <2>3. f.pc = "load" /\ db' = db
    BY <1>10 DEF LoadReferencing, At
  <2>4. Goto(p, g) \/ Goto(p, Panicked(f)) \/ Answer(p, 500)
    BY <2>1
  <2> HIDE DEF g
  <2>. QED BY <1>3, <1>4, <2>2, <2>3, <2>4
<1>11. CASE Respond(p)
  <2>1. Goto(p, Idle) /\ Idle.pc = "idle" /\ f.pc # "fts" /\ db' = db
    BY <1>1, <1>11, LabelsAfter DEF Respond, At
  <2>. QED BY <1>3, <2>1
<1>. QED BY <1>5, <1>6, <1>7, <1>8, <1>9, <1>10, <1>11
         DEF Serve, Writes

-----------------------------------------------------------------------------
(***************************************************************************)
(* The full-text index.  Only insertDocument commits a row and its index   *)
(* entry apart: every other step keeps a pair that is in step in step.     *)
(***************************************************************************)

(* The entry the index of c should have for the id i.                       *)
Entry(tables, c, i) ==
    IF c \in VecColls /\ tables[c][i] # None THEN tables[c][i].body ELSE None

Pending(f, c, i) == f.pc = "fts" /\ f.coll = c /\ f.id = i

\* A pending entry is that of an insert into a vector collection.
LEMMA PendingInsert ==
    ASSUME TypeOK, NEW q \in Procs, NEW c, NEW i, Pending(frame[q], c, i)
    PROVE  "insert" \in Ops /\ c \in VecColls
BY DEF TypeOK, LocalsOK, Pending

\* An insert's first commit: one new row, whose entry is pending.
LEMMA InsertRowStep ==
    ASSUME TypeOK, NEW p \in Procs, InsertRow(p)
    PROVE  \E n \in Ids :
              LET c == frame[p].coll IN
              /\ c \in Colls /\ rows[c][n] = None /\ fts' = fts
              /\ rows'[c][n] = Content(frame[p].docs[1])
              /\ rows'[c][n] # None
              /\ rows'[c][n].body = frame[p].docs[1].body
              /\ \A a \in Colls, i \in Ids :
                    ~(a = c /\ i = n) => rows'[a][i] = rows[a][i]
              /\ frame'[p].pc = "fts" =>
                    /\ frame'[p].coll = c /\ frame'[p].id = n
                    /\ frame'[p].docs = frame[p].docs
              /\ c \in VecColls => frame'[p].pc = "fts"
<1> DEFINE f == frame[p]
<1>1. /\ f \in Frame /\ f.coll \in Colls /\ Len(f.docs) = 1 /\ f.pc = "write"
      /\ f.docs \in Seq(Doc) /\ f.docs[1] \in Doc
  BY DEF TypeOK, LocalsOK, InsertRow, At, Frame
<1>2. PICK ids \in Assignments(f.coll, f.docs) :
          /\ Store(f.coll, f.docs, ids)
          /\ Goto(p, IF f.coll \in VecColls
                     THEN [f EXCEPT !.pc = "fts", !.id = ids[1]]
                     ELSE Answered(f, 201))
  BY DEF InsertRow
<1> DEFINE n == ids[1]
<1>3. n \in Ids /\ rows[f.coll][n] = None
  BY <1>1 DEF Assignments
<1>4. New(f.docs, ids) = {n} /\ DocAt(f.docs, ids, n) = f.docs[1]
  <2>1. 1..Len(f.docs) = {1}
    BY <1>1
  <2>2. (CHOOSE k \in 1..Len(f.docs) : ids[k] = n) = 1
    BY <2>1
  <2>3. New(f.docs, ids) = {n}
    BY <2>1 DEF New
  <2>4. DocAt(f.docs, ids, n) = f.docs[1]
    BY <2>2 DEF DocAt
  <2>. QED BY <2>3, <2>4
<1>5. /\ rows'[f.coll][n] = Content(f.docs[1])
      /\ \A c \in Colls, i \in Ids :
            ~(c = f.coll /\ i = n) => rows'[c][i] = rows[c][i]
  <2>1. /\ rows' = [rows EXCEPT ![f.coll] = rows'[f.coll]]
        /\ \A i \in Ids : rows'[f.coll][i] =
              IF i \in New(f.docs, ids)
              THEN Content(DocAt(f.docs, ids, i)) ELSE rows[f.coll][i]
    BY <1>1, <1>2 DEF Store, TypeOK, Tables
  <2>. QED BY <1>1, <1>3, <1>4, <2>1 DEF TypeOK, Tables
<1>6. /\ rows'[f.coll][n] # None /\ rows'[f.coll][n].body = f.docs[1].body
      /\ fts' = fts
  BY <1>1, <1>5, RowType DEF InsertRow
<1>7. f.coll \in VecColls => /\ frame'[p].pc = "fts"
                             /\ frame'[p].docs = f.docs
                             /\ frame'[p].coll = f.coll /\ frame'[p].id = n
  BY <1>1, <1>2 DEF Goto, TypeOK, Frame
<1>8. f.coll \notin VecColls => frame'[p].pc # "fts"
  BY <1>2 DEF Goto, TypeOK, Answered, Idle
<1>. HIDE DEF n
<1>. QED BY <1>1, <1>3, <1>5, <1>6, <1>7, <1>8

\* An insert's second commit: either the entry was missing and is now the text
\* the request came with, and the answer is a success, or nothing changes.
LEMMA FullTextStep ==
    ASSUME TypeOK, NEW p \in Procs, InsertFullText(p)
    PROVE  LET c == frame[p].coll
               i == frame[p].id
           IN  /\ c \in VecColls /\ c \in Colls /\ i \in Ids
               /\ Pending(frame[p], c, i) /\ frame'[p].pc = "reply"
               /\ rows' = rows /\ fts'[c][i] # None
               /\ \A a \in Colls, j \in Ids :
                     ~(a = c /\ j = i) => fts'[a][j] = fts[a][j]
               /\ Succeeds(frame'[p]) =>
                     fts[c][i] = None /\ fts'[c][i] = frame[p].docs[1].body
<1> DEFINE f == frame[p]
<1>1. /\ f.coll \in VecColls /\ f.coll \in Colls /\ f.id \in Ids
      /\ f.docs[1].body \in Bodies
  <2>1. f \in Frame /\ LocalsOK(f) /\ f.pc = "fts"
    BY DEF TypeOK, InsertFullText, At
  <2>2. f.docs[1] \in Doc
    BY <2>1 DEF LocalsOK, Frame
  <2>. QED BY <2>1, <2>2, RowType, SchemaAssumption DEF LocalsOK
<1>2. Pending(f, f.coll, f.id)
  BY DEF InsertFullText, At, Pending
<1>3. CASE fts[f.coll][f.id] = None
  <2>1. fts' = [fts EXCEPT ![f.coll][f.id] = f.docs[1].body] /\ Answer(p, 201)
    BY <1>3 DEF InsertFullText
  <2>2. frame'[p].pc = "reply"
    BY <2>1, AnswerLocals
  <2>. QED BY <1>1, <1>2, <1>3, <2>1, <2>2, NoneAssumption
           DEF InsertFullText, TypeOK
<1>4. CASE fts[f.coll][f.id] # None
  <2>1. fts' = fts /\ Answer(p, 500)
    BY <1>4 DEF InsertFullText
  <2>2. frame'[p].pc = "reply" /\ frame'[p].status = 500
    BY <2>1, AnswerLocals
  <2>. QED BY <1>1, <1>2, <1>4, <2>1, <2>2 DEF InsertFullText, Succeeds
<1>. QED BY <1>3, <1>4

\* A batch stores and indexes ids that were free in both tables, each document
\* under an id of its own, and is a success.
LEMMA BulkStep ==
    ASSUME TypeOK, NEW p \in Procs, BulkCommit(p)
    PROVE  LET f == frame[p] IN
           /\ f.op = "bulk" /\ f.coll \in Colls /\ f.docs \in Seq(Doc)
           /\ frame'[p].pc = "reply"
           /\ \E ids \in [1..Len(f.docs) -> Ids] :
                /\ \A j, k \in 1..Len(f.docs) : ids[j] = ids[k] => j = k
                /\ \A k \in 1..Len(f.docs) :
                    /\ f.docs[k].id # None => ids[k] = f.docs[k].id
                    /\ rows[f.coll][ids[k]] = None
                    /\ rows'[f.coll][ids[k]] = Content(f.docs[k])
                    /\ f.coll \in VecColls =>
                          fts'[f.coll][ids[k]] = f.docs[k].body
                    /\ f.coll \notin VecColls => fts' = fts
                /\ \A c \in Colls, i \in Ids :
                    \/ c = f.coll /\ \E k \in 1..Len(f.docs) : i = ids[k]
                    \/ rows'[c][i] = rows[c][i] /\ fts'[c][i] = fts[c][i]
<1> DEFINE f == frame[p]
<1>1. f.op = "bulk" /\ f.coll \in Colls /\ f.docs \in Seq(Doc)
  BY DEF TypeOK, LocalsOK, BulkCommit, At, Frame
<1>2. PICK ids \in BatchIds(f.coll, f.docs) :
          /\ Store(f.coll, f.docs, ids)
          /\ IF f.coll \in VecColls THEN Index(f.coll, f.docs, ids)
                                    ELSE fts' = fts
  BY DEF BulkCommit
<1>3. /\ ids \in [1..Len(f.docs) -> Ids]
      /\ \A k \in 1..Len(f.docs) :
            /\ rows[f.coll][ids[k]] = None
            /\ f.docs[k].id # None => ids[k] = f.docs[k].id
            /\ \A j \in 1..(k - 1) : ids[k] # ids[j]
  BY DEF BatchIds, Assignments
<1>4. \A j, k \in 1..Len(f.docs) : ids[j] = ids[k] => j = k
  <2> SUFFICES ASSUME NEW j \in 1..Len(f.docs), NEW k \in 1..Len(f.docs),
                      ids[j] = ids[k], j # k
               PROVE  FALSE
    OBVIOUS
  <2>1. Len(f.docs) \in Nat
    BY <1>1
  <2>2. j \in 1..(k - 1) \/ k \in 1..(j - 1)
    BY <2>1
  <2>. QED BY <1>3, <2>2
<1>5. \A k \in 1..Len(f.docs) : /\ ids[k] \in New(f.docs, ids)
                                /\ DocAt(f.docs, ids, ids[k]) = f.docs[k]
  BY <1>4 DEF New, DocAt
<1>6. /\ \A k \in 1..Len(f.docs) : rows'[f.coll][ids[k]] = Content(f.docs[k])
      /\ \A c \in Colls, i \in Ids :
            ~(c = f.coll /\ i \in New(f.docs, ids)) => rows'[c][i] = rows[c][i]
  <2>1. /\ rows' = [rows EXCEPT ![f.coll] = rows'[f.coll]]
        /\ \A i \in Ids : rows'[f.coll][i] =
              IF i \in New(f.docs, ids)
              THEN Content(DocAt(f.docs, ids, i)) ELSE rows[f.coll][i]
    BY <1>1, <1>2 DEF Store, TypeOK, Tables
  <2>2. \A k \in 1..Len(f.docs) : ids[k] \in Ids
    BY <1>3
  <2>. QED BY <1>1, <1>5, <2>1, <2>2 DEF TypeOK, Tables
<1>7. /\ f.coll \in VecColls =>
            \A k \in 1..Len(f.docs) : fts'[f.coll][ids[k]] = f.docs[k].body
      /\ \A c \in Colls, i \in Ids :
            ~(c = f.coll /\ i \in New(f.docs, ids)) => fts'[c][i] = fts[c][i]
  <2>1. CASE f.coll \notin VecColls
    BY <1>2, <2>1
  <2>2. CASE f.coll \in VecColls
    <3>1. /\ fts' = [fts EXCEPT ![f.coll] = fts'[f.coll]]
          /\ \A i \in Ids : fts'[f.coll][i] =
                IF i \in New(f.docs, ids)
                THEN DocAt(f.docs, ids, i).body ELSE fts[f.coll][i]
      BY <1>1, <1>2, <2>2 DEF Index, TypeOK
    <3>2. \A k \in 1..Len(f.docs) : ids[k] \in Ids
      BY <1>3
    <3>. QED BY <1>1, <1>5, <3>1, <3>2 DEF TypeOK
  <2>. QED BY <2>1, <2>2
<1>8. frame'[p].pc = "reply"
  BY AnswerLocals DEF BulkCommit
<1>9. \A i : i \in New(f.docs, ids) <=> \E k \in 1..Len(f.docs) : i = ids[k]
  BY DEF New
<1>10. f.coll \notin VecColls => fts' = fts
  BY <1>2
<1>. HIDE DEF f
<1>11. /\ \A k \in 1..Len(f.docs) :
            /\ f.docs[k].id # None => ids[k] = f.docs[k].id
            /\ rows[f.coll][ids[k]] = None
            /\ rows'[f.coll][ids[k]] = Content(f.docs[k])
            /\ f.coll \in VecColls => fts'[f.coll][ids[k]] = f.docs[k].body
            /\ f.coll \notin VecColls => fts' = fts
       /\ \A c \in Colls, i \in Ids :
            \/ c = f.coll /\ \E k \in 1..Len(f.docs) : i = ids[k]
            \/ rows'[c][i] = rows[c][i] /\ fts'[c][i] = fts[c][i]
  BY <1>3, <1>6, <1>7, <1>9, <1>10
<1>. QED BY <1>1, <1>3, <1>4, <1>8, <1>11 DEF f

\* An update replaces a row and its entry together.
LEMMA ReplaceStep ==
    ASSUME TypeOK, NEW a \in Colls, NEW d \in Doc, d.id \in Ids, Replace(a, d)
    PROVE  /\ rows'[a][d.id] = Content(d) /\ rows'[a][d.id] # None
           /\ rows'[a][d.id].body = d.body
           /\ a \in VecColls => fts'[a][d.id] = d.body
           /\ a \notin VecColls => fts' = fts
           /\ \A c \in Colls, i \in Ids :
                \/ c = a /\ i = d.id
                \/ rows'[c][i] = rows[c][i] /\ fts'[c][i] = fts[c][i]
<1>1. Content(d) # None /\ Content(d).body = d.body
  BY RowType
<1>2. rows' = [rows EXCEPT ![a][d.id] = Content(d)]
  BY DEF Replace
<1>3. rows'[a][d.id] = Content(d)
  BY <1>2 DEF TypeOK, Tables
<1>. QED BY <1>1, <1>2, <1>3 DEF Replace, TypeOK, Tables

\* What the writes of an update and of a set_null are.
LEMMA UpdateStep ==
    ASSUME TypeOK, NEW p \in Procs, UpdateRow(p)
    PROVE  LET f == frame[p] IN
           /\ f.op = "update" /\ f.coll \in Colls /\ Len(f.docs) = 1
           /\ f.docs[1] \in Doc /\ f.docs[1].id \in Ids
           /\ frame'[p].pc = "reply"
           /\ \/ /\ rows[f.coll][f.docs[1].id] # None
                 /\ Replace(f.coll, f.docs[1])
              \/ db' = db /\ ~Succeeds(frame'[p])
<1> DEFINE f == frame[p]
<1>1. f.pc = "write" /\ f.op = "update" /\ f \in Frame /\ LocalsOK(f)
  BY DEF UpdateRow, At, TypeOK
<1>2. /\ f.coll \in Colls /\ Len(f.docs) = 1 /\ f.docs[1] \in Doc
      /\ f.docs[1].id \in Ids
  BY <1>1 DEF LocalsOK, Frame
<1>3. CASE rows[f.coll][f.docs[1].id] # None
  <2>1. Replace(f.coll, f.docs[1]) /\ Answer(p, 200)
    BY <1>3 DEF UpdateRow
  <2>. QED BY <1>1, <1>2, <1>3, <2>1, AnswerLocals
<1>4. CASE rows[f.coll][f.docs[1].id] = None
  <2>1. db' = db /\ Answer(p, 404)
    BY <1>4 DEF UpdateRow
  <2>2. frame'[p].pc = "reply" /\ frame'[p].status = 404
    BY <2>1, AnswerLocals
  <2>. QED BY <1>1, <1>2, <2>1, <2>2 DEF Succeeds
<1>. QED BY <1>3, <1>4

LEMMA NullStep ==
    ASSUME TypeOK, NEW p \in Procs, NullRow(p)
    PROVE  LET f == frame[p] IN
           /\ f.op = "delete" /\ f.pc = "write" /\ f.dep \in Refs
           /\ f.dep.coll \in Colls
           /\ f.docs[1] \in Doc /\ f.docs[1].id \in Ids
           /\ frame'[p].pc \in {"remove", "deps", "load"}
           /\ \/ /\ rows[f.dep.coll][f.docs[1].id] # None
                 /\ Replace(f.dep.coll, f.docs[1])
              \/ db' = db
<1> DEFINE f == frame[p]
<1>1. f.pc = "write" /\ f.op = "delete" /\ f \in Frame /\ LocalsOK(f)
  BY DEF NullRow, At, TypeOK
<1>2. f.docs[1] \in Doc /\ f.docs[1].id \in Ids /\ f.dep \in Refs
  BY <1>1 DEF LocalsOK, Frame
<1>3. f.dep.coll \in Colls
  BY <1>2, RefType
<1>4. PICK g \in {Enforcing(f, f.deps \ {f.dep}),
                  [f EXCEPT !.pc = "load", !.docs = <<>>, !.k = 0]} : Goto(p, g)
  BY DEF NullRow
<1>5. g.pc \in {"remove", "deps", "load"}
  <2>1. [f EXCEPT !.pc = "load", !.docs = <<>>, !.k = 0].pc = "load"
    BY <1>1 DEF Frame
  <2>2. Enforcing(f, f.deps \ {f.dep}).pc \in {"remove", "deps"}
    BY <1>1, LabelsAfter
  <2>. QED BY <1>4, <2>1, <2>2
<1>6. frame'[p] = g
  BY <1>4 DEF Goto, TypeOK
<1>7. \/ rows[f.dep.coll][f.docs[1].id] # None /\ Replace(f.dep.coll, f.docs[1])
      \/ db' = db
  BY DEF NullRow
<1>. QED BY <1>1, <1>2, <1>3, <1>5, <1>6, <1>7

\* A removal takes the row and its entry together.
LEMMA RemoveStep ==
    ASSUME TypeOK, NEW p \in Procs, RemoveRow(p)
    PROVE  LET f == frame[p] IN
           /\ f.op = "delete" /\ f.pc = "remove" /\ "delete" \in Ops
           /\ f.coll \in Colls /\ f.id \in Ids /\ frame'[p].pc = "reply"
           /\ \/ db' = db
              \/ /\ rows'[f.coll][f.id] = None
                 /\ f.coll \in VecColls => fts'[f.coll][f.id] = None
                 /\ f.coll \notin VecColls => fts' = fts
                 /\ \A c \in Colls, i \in Ids :
                      \/ c = f.coll /\ i = f.id
                      \/ /\ rows'[c][i] = rows[c][i]
                         /\ fts'[c][i] = fts[c][i]
<1> DEFINE f == frame[p]
<1>1. /\ f.op = "delete" /\ f.pc = "remove" /\ "delete" \in Ops
      /\ f.coll \in Colls /\ f.id \in Ids
  BY DEF RemoveRow, At, TypeOK, LocalsOK
<1>2. PICK s \in {204, 404} : Answer(p, s)
  BY DEF RemoveRow
<1>3. frame'[p].pc = "reply"
  BY <1>2, AnswerLocals
<1>4. CASE rows[f.coll][f.id] # None
  <2>1. /\ rows' = [rows EXCEPT ![f.coll][f.id] = None]
        /\ fts' = IF f.coll \in VecColls
                  THEN [fts EXCEPT ![f.coll][f.id] = None] ELSE fts
    BY <1>4 DEF RemoveRow
  <2>. QED BY <1>1, <1>3, <2>1 DEF TypeOK, Tables
<1>5. CASE rows[f.coll][f.id] = None
  BY <1>1, <1>3, <1>5 DEF RemoveRow
<1>. QED BY <1>4, <1>5

\* No step but an insert's commits parts a row from its entry.
LEMMA KeepsEntry ==
    ASSUME TypeOK, NEW p \in Procs, Serve(p), NEW c \in Colls, NEW i \in Ids,
           fts[c][i] = Entry(rows, c, i),
           ~Pending(frame[p], c, i), ~Pending(frame'[p], c, i)
    PROVE  fts'[c][i] = Entry(rows', c, i)
<1>1. ASSUME rows'[c][i] = rows[c][i], fts'[c][i] = fts[c][i]
      PROVE  fts'[c][i] = Entry(rows', c, i)
  BY <1>1 DEF Entry
<1>2. CASE InsertRow(p)
  <2>1. PICK n \in Ids :
            LET a == frame[p].coll IN
            /\ fts' = fts
            /\ \A b \in Colls, j \in Ids :
                  ~(b = a /\ j = n) => rows'[b][j] = rows[b][j]
            /\ frame'[p].pc = "fts" => frame'[p].coll = a /\ frame'[p].id = n
            /\ a \in VecColls => frame'[p].pc = "fts"
    BY <1>2, InsertRowStep
  <2>2. CASE c = frame[p].coll /\ i = n
    BY <2>1, <2>2 DEF Pending, Entry
  <2>3. CASE ~(c = frame[p].coll /\ i = n)
    BY <1>1, <2>1, <2>3
  <2>. QED BY <2>2, <2>3
<1>3. CASE InsertFullText(p)
  BY <1>1, <1>3, FullTextStep
<1>4. CASE BulkCommit(p)
  <2> DEFINE f == frame[p]
  <2>1. PICK ids \in [1..Len(f.docs) -> Ids] :
            /\ \A k \in 1..Len(f.docs) :
                /\ rows'[f.coll][ids[k]] = Content(f.docs[k])
                /\ f.coll \in VecColls => fts'[f.coll][ids[k]] = f.docs[k].body
                /\ f.coll \notin VecColls => fts' = fts
            /\ \A b \in Colls, j \in Ids :
                \/ b = f.coll /\ \E k \in 1..Len(f.docs) : j = ids[k]
                \/ rows'[b][j] = rows[b][j] /\ fts'[b][j] = fts[b][j]
    BY <1>4, BulkStep
  <2>2. CASE c = f.coll /\ \E k \in 1..Len(f.docs) : i = ids[k]
    <3>1. PICK k \in 1..Len(f.docs) : i = ids[k]
      BY <2>2
    <3>2. f.docs[k] \in Doc
      BY <1>4, BulkStep
    <3>3. Content(f.docs[k]) # None /\ Content(f.docs[k]).body = f.docs[k].body
      BY <3>2, RowType
    <3>. QED BY <2>1, <2>2, <3>1, <3>3 DEF Entry
  <2>. QED BY <1>1, <2>1, <2>2
<1>5. ASSUME NEW a \in Colls, NEW d \in Doc, d.id \in Ids, Replace(a, d)
      PROVE  fts'[c][i] = Entry(rows', c, i)
  BY <1>1, <1>5, ReplaceStep DEF Entry
<1>6. CASE UpdateRow(p) \/ NullRow(p)
  <2>1. ASSUME db' = db
        PROVE  fts'[c][i] = Entry(rows', c, i)
    BY <1>1, <2>1 DEF db
  <2>. QED BY <1>5, <1>6, <2>1, UpdateStep, NullStep
<1>7. CASE RemoveRow(p)
  <2>1. CASE db' = db
    BY <1>1, <2>1 DEF db
  <2>. QED BY <1>1, <1>7, <2>1, RemoveStep DEF Entry
<1>8. CASE db' = db
  BY <1>1, <1>8 DEF db
<1>. QED BY <1>2, <1>3, <1>4, <1>6, <1>7, <1>8, OtherSteps DEF Writes, Quiet

\* Whatever races, fails, crashes or is deleted, a document and its entry of
\* the index part for good only where an insertDocument of that id ends between
\* its two commits: batches, updates, set_null and deletes keep them together.
THEOREM OnlyInsertsDrift == Spec => IndexDrift
<1>0. ASSUME TypeOK, NEW c \in Colls, NEW i \in Ids
      PROVE  Indexed(c, i) <=> fts[c][i] = Entry(rows, c, i)
  BY DEF Indexed, IndexOf, Entry
<1>00. ASSUME TypeOK', NEW c \in Colls, NEW i \in Ids
       PROVE  Indexed(c, i)' <=> fts'[c][i] = Entry(rows', c, i)
  BY DEF Indexed, IndexOf, Entry
<1> DEFINE Step ==
      \A c \in Colls, i \in Ids :
          (~Drifted(c, i) /\ Drifted(c, i)') =>
              \E p \in Procs : Unfinished(p, c, i) /\ ~Unfinished(p, c, i)'
<1>1. TypeOK /\ TypeOK' /\ [Next]_vars => Step
  <2> SUFFICES ASSUME TypeOK, TypeOK', [Next]_vars,
                      NEW c \in Colls, NEW i \in Ids,
                      ~Drifted(c, i), Drifted(c, i)',
                      \A p \in Procs : ~Unfinished(p, c, i)
               PROVE  FALSE
    <3>1. ASSUME NEW c \in Colls, NEW i \in Ids, Drifted(c, i)'
          PROVE  \A p \in Procs : ~Unfinished(p, c, i)'
      BY <3>1 DEF Drifted
    <3>. QED BY <3>1
  <2>1. fts[c][i] = Entry(rows, c, i)
    BY <1>0 DEF Drifted
  <2>2. fts'[c][i] # Entry(rows', c, i)
    BY <1>00 DEF Drifted
  <2>3. ASSUME NEW p \in Procs
        PROVE  ~Pending(frame[p], c, i) /\ ~Pending(frame'[p], c, i)
    BY DEF Drifted, Unfinished, At, Pending
  <2>4. db' # db
    BY <2>1, <2>2 DEF db, Entry
  <2>5. PICK p \in Procs : Start(p) \/ Serve(p)
    BY <2>4 DEF Next, Crash, vars, db
  <2>6. Serve(p)
    BY <2>4, <2>5, StartStep
  <2>. QED BY <2>1, <2>2, <2>3, <2>6, KeepsEntry
<1>2. Step => [Step]_vars
  OBVIOUS
<1>. QED BY <1>1, TypeCorrect, PTL DEF Spec, IndexDrift

-----------------------------------------------------------------------------
(***************************************************************************)
(* An insert that is between its two commits: unless something deletes,    *)
(* its row stays, and an entry that is still missing is still its own.     *)
(***************************************************************************)
PendingInv ==
    \A q \in Procs : \A c \in Colls, i \in Ids :
        Pending(frame[q], c, i) =>
            /\ rows[c][i] # None
            /\ fts[c][i] = None => rows[c][i].body = frame[q].docs[1].body

\* What other requests do meanwhile to a row that is pending.
LEMMA PendingKept ==
    ASSUME TypeOK, "delete" \notin Ops, NEW p \in Procs, Serve(p),
           NEW q \in Procs, NEW c \in Colls, NEW i \in Ids,
           Pending(frame[q], c, i), rows[c][i] # None
    PROVE  /\ rows'[c][i] # None
           /\ \/ rows'[c][i] = rows[c][i] /\ fts'[c][i] = fts[c][i]
              \/ fts'[c][i] # None
<1>1. c \in VecColls
  BY PendingInsert
<1>2. CASE InsertRow(p)
  BY <1>2, InsertRowStep
<1>3. CASE InsertFullText(p)
  BY <1>3, FullTextStep
<1>4. CASE BulkCommit(p)
  BY <1>4, BulkStep
<1>5. ASSUME NEW a \in Colls, NEW d \in Doc, d.id \in Ids, Replace(a, d)
      PROVE  /\ rows'[c][i] # None
             /\ \/ rows'[c][i] = rows[c][i] /\ fts'[c][i] = fts[c][i]
                \/ fts'[c][i] # None
  <2>1. d.body # None
    BY RowType, NoneAssumption
  <2>. QED BY <1>1, <1>5, <2>1, ReplaceStep
<1>6. CASE UpdateRow(p)
  <2>1. CASE db' = db
    BY <2>1 DEF db
  <2>. QED BY <1>5, <1>6, <2>1, UpdateStep
<1>7. ~NullRow(p) /\ ~RemoveRow(p)
  BY RemoveStep DEF NullRow, At, TypeOK, LocalsOK
<1>8. CASE db' = db
  BY <1>8 DEF db
<1>. QED BY <1>2, <1>3, <1>4, <1>6, <1>7, <1>8, OtherSteps DEF Writes, Quiet

\* The handler that takes a step is pending afterwards only after its first
\* commit.
LEMMA PendingMade ==
    ASSUME TypeOK, NEW p \in Procs, Start(p) \/ Serve(p), ~InsertRow(p)
    PROVE  frame'[p].pc # "fts"
BY StartStep, OtherSteps, FullTextStep, BulkStep, UpdateStep, NullStep,
   RemoveStep DEF Writes, Quiet

LEMMA PendingInductive ==
    ASSUME TypeOK, "delete" \notin Ops, PendingInv, [Next]_vars
    PROVE  PendingInv'
<1>1. CASE Crash
  BY <1>1 DEF Crash, PendingInv, Pending, Idle
<1>2. CASE UNCHANGED vars
  BY <1>2 DEF vars, PendingInv
<1>3. ASSUME NEW p \in Procs, Start(p) \/ Serve(p),
             NEW q \in Procs, NEW c \in Colls, NEW i \in Ids,
             Pending(frame'[q], c, i)
      PROVE  /\ rows'[c][i] # None
             /\ fts'[c][i] = None => rows'[c][i].body = frame'[q].docs[1].body
  <2>1. CASE q # p
    <3>1. frame'[q] = frame[q]
      BY <1>3, <2>1, StepFrame
    <3>2. /\ Pending(frame[q], c, i) /\ rows[c][i] # None
          /\ fts[c][i] = None => rows[c][i].body = frame[q].docs[1].body
      BY <1>3, <3>1 DEF PendingInv
    <3>3. CASE Start(p)
      BY <3>1, <3>2, <3>3, StartStep DEF db
    <3>4. CASE Serve(p)
      BY <3>1, <3>2, <3>4, PendingKept
    <3>. QED BY <1>3, <3>3, <3>4
  <2>2. CASE q = p
    <3>1. InsertRow(p)
      BY <1>3, <2>2, PendingMade DEF Pending
    <3>2. PICK n \in Ids :
              LET a == frame[p].coll IN
              /\ rows'[a][n] # None
              /\ rows'[a][n].body = frame[p].docs[1].body
              /\ frame'[p].pc = "fts" =>
                    /\ frame'[p].coll = a /\ frame'[p].id = n
                    /\ frame'[p].docs = frame[p].docs
      BY <3>1, InsertRowStep
    <3>. QED BY <1>3, <2>2, <3>2 DEF Pending
  <2>. QED BY <2>1, <2>2
<1>. QED BY <1>1, <1>2, <1>3 DEF Next, PendingInv

\* Where nobody deletes, an insert that answers 201 has its document indexed
\* with the text it has then, although updates may come between its commits,
\* and crashes and failures may have left other documents without an entry.
THEOREM SuccessIsIndexed ==
    ASSUME "delete" \notin Ops
    PROVE  Spec => InsertsIndexed
<1> DEFINE Step ==
      \A p \in Procs :
          (At(p, "fts") /\ Succeeds(frame'[p])) =>
              LET c == frame[p].coll
                  i == frame[p].id
              IN  fts'[c][i] = IndexOf(rows')[c][i]
<1>1. Init => PendingInv
  BY DEF Init, PendingInv, Pending, Idle
<1>2. TypeOK /\ PendingInv /\ [Next]_vars => PendingInv'
  BY PendingInductive
<1>3. TypeOK /\ PendingInv /\ [Next]_vars => Step
  <2> SUFFICES ASSUME TypeOK, PendingInv, [Next]_vars, NEW p \in Procs,
                      At(p, "fts"), Succeeds(frame'[p])
               PROVE  LET c == frame[p].coll
                          i == frame[p].id
                      IN  fts'[c][i] = IndexOf(rows')[c][i]
    OBVIOUS
  <2>1. frame'[p] # frame[p] /\ frame'[p].pc = "reply"
    BY DEF At, Succeeds
  <2>2. ~Crash
    BY <2>1 DEF Crash, Idle
  <2>3. PICK q \in Procs : Start(q) \/ Serve(q)
    BY <2>1, <2>2 DEF Next, vars
  <2>4. q = p
    BY <2>1, <2>3, StepFrame
  <2>5. Serve(p)
    BY <2>1, <2>3, <2>4, StartStep
  <2>6. InsertFullText(p)
    <3>1. Writes(p)
      BY <2>5, OtherSteps DEF Quiet
    <3>2. frame[p].pc = "fts"
      BY DEF At
    <3>. QED BY <3>1, <3>2 DEF Writes, InsertRow, BulkCommit, UpdateRow,
             NullRow, RemoveRow, At
  <2> DEFINE c == frame[p].coll
             i == frame[p].id
  <2>7. /\ c \in VecColls /\ c \in Colls /\ i \in Ids
        /\ Pending(frame[p], c, i) /\ rows' = rows
        /\ fts[c][i] = None /\ fts'[c][i] = frame[p].docs[1].body
    BY <2>6, FullTextStep
  <2>8. rows[c][i] # None /\ rows[c][i].body = frame[p].docs[1].body
    BY <2>7 DEF PendingInv
  <2>. QED BY <2>7, <2>8 DEF IndexOf
<1>. QED BY <1>1, <1>2, <1>3, TypeCorrect, PTL DEF Spec, InsertsIndexed

-----------------------------------------------------------------------------
(***************************************************************************)
(* The outcome of bulk inserts and updates.                                *)
(***************************************************************************)

\* A batch that commits stores its documents under new ids, and no other.
LEMMA BulkLands ==
    ASSUME TypeOK, NEW p \in Procs, BulkCommit(p)
    PROVE  Lands(frame[p])
<1> DEFINE f == frame[p]
<1>1. f.op = "bulk" /\ f.docs \in Seq(Doc)
  BY BulkStep
<1>2. PICK ids \in [1..Len(f.docs) -> Ids] :
          /\ \A j, k \in 1..Len(f.docs) : ids[j] = ids[k] => j = k
          /\ \A k \in 1..Len(f.docs) :
              /\ f.docs[k].id # None => ids[k] = f.docs[k].id
              /\ rows[f.coll][ids[k]] = None
              /\ rows'[f.coll][ids[k]] = Content(f.docs[k])
              /\ f.coll \in VecColls => fts'[f.coll][ids[k]] = f.docs[k].body
          /\ \A c \in Colls, i \in Ids :
              \/ c = f.coll /\ \E k \in 1..Len(f.docs) : i = ids[k]
              \/ rows'[c][i] = rows[c][i] /\ fts'[c][i] = fts[c][i]
  BY BulkStep
<1>3. \A k \in 1..Len(f.docs) :
          Holds(rows', fts', f.coll, ids[k], f.docs[k])
  BY <1>2 DEF Holds
<1>. HIDE DEF f
<1>4. Lands(f)
  BY <1>1, <1>2, <1>3 DEF Lands
<1>. QED BY <1>4 DEF f

\* An update that finds its row replaces that one, and no other.
LEMMA UpdateLands ==
    ASSUME TypeOK, NEW p \in Procs, UpdateRow(p),
           rows[frame[p].coll][frame[p].docs[1].id] # None
    PROVE  Lands(frame[p]) /\ Succeeds(frame'[p])
<1> DEFINE f == frame[p]
           ids == [k \in 1..Len(f.docs) |-> f.docs[1].id]
<1>1. /\ f.op = "update" /\ f.coll \in Colls /\ Len(f.docs) = 1
      /\ f.docs[1] \in Doc /\ f.docs[1].id \in Ids
      /\ rows[f.coll][f.docs[1].id] # None /\ Replace(f.coll, f.docs[1])
      /\ Answer(p, 200)
  BY UpdateStep DEF UpdateRow
<1>10. Succeeds(frame'[p])
  BY <1>1, AnswerLocals DEF Succeeds
<1>2. 1..Len(f.docs) = {1} /\ ids[1] = f.docs[1].id
  BY <1>1
<1>3. ids \in [1..Len(f.docs) -> Ids]
  BY <1>1
<1>4. /\ Holds(rows', fts', f.coll, ids[1], f.docs[1])
      /\ \A c \in Colls, i \in Ids :
          \/ c = f.coll /\ i = ids[1]
          \/ rows'[c][i] = rows[c][i] /\ fts'[c][i] = fts[c][i]
  BY <1>1, <1>2, ReplaceStep DEF Holds
<1>5. rows[f.coll][ids[1]] # None /\ f.op # "bulk"
  BY <1>1, <1>2
<1>. HIDE DEF f, ids
<1>6. \A k \in 1..Len(f.docs) : k = 1
  BY <1>2
<1>7. /\ \A j, k \in 1..Len(f.docs) : ids[j] = ids[k] => j = k
      /\ \A k \in 1..Len(f.docs) :
          /\ f.docs[k].id # None => ids[k] = f.docs[k].id
          /\ (rows[f.coll][ids[k]] = None) <=> (f.op = "bulk")
          /\ Holds(rows', fts', f.coll, ids[k], f.docs[k])
      /\ \A c \in Colls, i \in Ids :
          \/ c = f.coll /\ \E k \in 1..Len(f.docs) : i = ids[k]
          \/ rows'[c][i] = rows[c][i] /\ fts'[c][i] = fts[c][i]
  BY <1>2, <1>4, <1>5, <1>6
<1>8. Lands(f)
  BY <1>3, <1>7 DEF Lands
<1>. QED BY <1>8, <1>10 DEF f

\* A bulk insert or an update stores all of its documents with their entries
\* in the step that answers with success, and nothing in any other, whatever
\* races with it, fails or crashes: there is no partial batch and no lost
\* success (insertDocumentBulk, updateDocument).
THEOREM OutcomesAtomic == Spec => AtomicOutcome
<1> DEFINE Step ==
      \A p \in Procs :
          (frame[p].op \in {"bulk", "update"} /\ frame'[p] # frame[p]) =>
              IF Succeeds(frame'[p]) THEN Lands(frame[p])
                                     ELSE UNCHANGED db
<1>1. TypeOK /\ [Next]_vars => Step
  <2> SUFFICES ASSUME TypeOK, [Next]_vars, NEW p \in Procs,
                      frame[p].op \in {"bulk", "update"}, frame'[p] # frame[p]
               PROVE  IF Succeeds(frame'[p]) THEN Lands(frame[p])
                                             ELSE UNCHANGED db
    OBVIOUS
  <2>1. CASE Crash
    BY <2>1 DEF Crash, Idle, Succeeds
  <2>2. ASSUME NEW q \in Procs, Start(q) \/ Serve(q)
        PROVE  q = p
    BY <2>2, StepFrame
  <2>3. CASE Start(p)
    BY <2>3, StartStep DEF Succeeds
  <2>4. CASE Serve(p)
    <3>1. CASE BulkCommit(p)
      <4>1. PICK s \in {201} : Answer(p, s)
        BY <3>1 DEF BulkCommit
      <4>2. Succeeds(frame'[p])
        BY <4>1, AnswerLocals DEF Succeeds
      <4>. QED BY <3>1, <4>2, BulkLands
    <3>2. CASE UpdateRow(p)
      <4>1. CASE rows[frame[p].coll][frame[p].docs[1].id] # None
        BY <3>2, <4>1, UpdateLands
      <4>2. CASE rows[frame[p].coll][frame[p].docs[1].id] = None
        BY <3>2, <4>2, UpdateStep
      <4>. QED BY <4>1, <4>2
    <3>3. CASE InsertRow(p) \/ InsertFullText(p) \/ NullRow(p) \/ RemoveRow(p)
      <4>1. frame[p].op \in {"insert", "delete"}
        BY <3>3, NullStep, RemoveStep DEF InsertRow, InsertFullText, At, TypeOK,
           LocalsOK
      <4>. QED BY <4>1
    <3>. QED BY <2>4, <3>1, <3>2, <3>3, OtherSteps DEF Writes, Quiet
  <2>5. CASE UNCHANGED vars
    BY <2>5 DEF vars
  <2>. QED BY <2>1, <2>2, <2>3, <2>4, <2>5 DEF Next
<1>. QED BY <1>1, TypeCorrect, PTL DEF Spec, AtomicOutcome

-----------------------------------------------------------------------------
(***************************************************************************)
(* What may bring a document back: a statement that rewrites a row only    *)
(* does so where it found one.                                             *)
(***************************************************************************)
LEMMA ReplaceOnlyRows ==
    ASSUME TypeOK, NEW a \in Colls, NEW d, d.id \in Ids, rows[a][d.id] # None,
           Replace(a, d), NEW c \in Colls, NEW i \in Ids, rows[c][i] = None
    PROVE  rows'[c][i] = None
BY DEF TypeOK, Tables, Replace

\* A handler that makes a row appear is that of an insert, and goes on.
LEMMA ServeAppears ==
    ASSUME TypeOK, NEW p \in Procs, Serve(p), NEW c \in Colls, NEW i \in Ids,
           rows[c][i] = None, rows'[c][i] # None
    PROVE  frame[p].op \in {"insert", "bulk"} /\ frame'[p] # frame[p]
<1> DEFINE f == frame[p]
<1>1. f \in Frame /\ LocalsOK(f)
  BY DEF TypeOK
<1>2. ASSUME NEW g, Goto(p, g)
      PROVE  frame'[p] = g
  BY <1>2 DEF Goto, TypeOK
<1>3. CASE InsertRow(p)
  <2>1. PICK ids : Goto(p, IF f.coll \in VecColls
                   THEN [f EXCEPT !.pc = "fts", !.id = ids]
                   ELSE Answered(f, 201))
    BY <1>3 DEF InsertRow
  <2>2. [f EXCEPT !.pc = "fts", !.id = ids].pc = "fts"
    BY <1>1 DEF Frame
  <2>3. Answered(f, 201).pc = "reply"
    BY DEF Answered, Idle
  <2>4. frame'[p].pc \in {"fts", "reply"}
    BY <1>2, <2>1, <2>2, <2>3
  <2>. QED BY <1>3, <2>4 DEF InsertRow, At
<1>4. CASE BulkCommit(p)
  BY <1>4, AnswerLocals DEF BulkCommit, At
<1>5. CASE UpdateRow(p)
  <2>1. f.coll \in Colls /\ f.docs[1].id \in Ids
    BY <1>1, <1>5 DEF UpdateRow, At, LocalsOK
  <2>2. \/ rows' = rows
        \/ rows[f.coll][f.docs[1].id] # None /\ Replace(f.coll, f.docs[1])
    BY <1>5 DEF UpdateRow, db
  <2> HIDE DEF f
  <2>. QED BY <2>1, <2>2, ReplaceOnlyRows
<1>6. CASE NullRow(p)
  <2>1. f.dep.coll \in Colls /\ f.docs[1].id \in Ids
    BY <1>1, <1>6, RefType DEF NullRow, At, LocalsOK
  <2>2. \/ rows' = rows
        \/ /\ rows[f.dep.coll][f.docs[1].id] # None
           /\ Replace(f.dep.coll, f.docs[1])
    BY <1>6 DEF NullRow, db
  <2> HIDE DEF f
  <2>. QED BY <2>1, <2>2, ReplaceOnlyRows
<1>7. CASE RemoveRow(p)
  <2>1. rows' = rows \/ rows' = [rows EXCEPT ![f.coll][f.id] = None]
    BY <1>7 DEF RemoveRow, db
  <2>. QED BY <2>1 DEF TypeOK, Tables
<1>8. CASE UNCHANGED rows
  BY <1>8
<1>. QED BY <1>3, <1>4, <1>5, <1>6, <1>7, <1>8
     DEF Serve, CheckReference, Prepared, EmbedFails, InsertRefused,
         InsertFullText, BulkRollback, ScanDependent, LoadReferencing,
         StatementFails, Respond, db

\* No update, and no set_null of a delete with the copy it loaded earlier,
\* brings back a document another request deleted meanwhile.
THEOREM NothingComesBack == Spec => NoResurrection
<1> DEFINE OnlyInserts ==
      \A c \in Colls, i \in Ids :
          (rows[c][i] = None /\ rows'[c][i] # None) =>
              \E p \in Procs : /\ frame[p].op \in {"insert", "bulk"}
                               /\ frame'[p] # frame[p]
<1>1. TypeOK /\ [Next]_vars => OnlyInserts
  <2> SUFFICES ASSUME TypeOK, [Next]_vars, NEW c \in Colls, NEW i \in Ids,
                      rows[c][i] = None, rows'[c][i] # None
               PROVE  \E p \in Procs : /\ frame[p].op \in {"insert", "bulk"}
                                       /\ frame'[p] # frame[p]
    OBVIOUS
  <2>1. rows' # rows
    OBVIOUS
  <2>2. PICK p \in Procs : Start(p) \/ Serve(p)
    BY <2>1 DEF Next, Crash, vars, db
  <2>3. Serve(p)
    BY <2>1, <2>2 DEF Start, StartInsert, StartBulk, StartUpdate, StartDelete, db
  <2>. QED BY <2>3, ServeAppears
<1>. QED BY <1>1, TypeCorrect, PTL DEF Spec, NoResurrection

=============================================================================
