----------------------------- MODULE StoreProofs -----------------------------
(***************************************************************************)
(* Proofs about Store, for any names, tables, requests and ids, any size   *)
(* of a page and any failures.  What is proved of Catalog holds of the     *)
(* registry of Store: its steps are steps of Catalog.                      *)
(***************************************************************************)
EXTENDS Store, FiniteSetTheorems, TLAPS

CatP == INSTANCE CatalogProofs

(***************************************************************************)
(* The order of ids: a finite set of them has one element of each rank     *)
(* below its size, which is what OFFSET and LIMIT count on.                *)
(***************************************************************************)
LEMMA FiniteIds ==
    ASSUME NEW S \in SUBSET Ids
    PROVE  IsFiniteSet(S) /\ Cardinality(S) \in Nat
<1>1. IsFiniteSet(Ids)
  BY HandlerAssumption, FS_Interval DEF Ids
<1>. QED BY <1>1, FS_Subset, FS_CardinalityType

LEMMA RankBelowSize ==
    ASSUME NEW S \in SUBSET Ids, NEW i \in S
    PROVE  Rank(S, i) \in Nat /\ Rank(S, i) < Cardinality(S)
<1> DEFINE B == {j \in S : j < i}
<1>1. IsFiniteSet(S) /\ Cardinality(S) \in Nat
  BY FiniteIds
<1>2. B \in SUBSET S /\ i \notin B
  BY DEF Ids
<1>3. /\ Cardinality(B) \in Nat /\ Cardinality(B) <= Cardinality(S)
      /\ Cardinality(B) # Cardinality(S)
  BY <1>1, <1>2, FS_Subset, FS_CardinalityType
<1>. QED BY <1>1, <1>3 DEF Rank

LEMMA RankOrdered ==
    ASSUME NEW S \in SUBSET Ids, NEW i \in S, NEW j \in S, i < j
    PROVE  Rank(S, i) < Rank(S, j)
<1> DEFINE B == {l \in S : l < i}
           C == {l \in S : l < j}
<1>1. B \in SUBSET C /\ i \in C /\ i \notin B
  <2>1. \A l \in S : l \in Nat
    BY HandlerAssumption DEF Ids
  <2>. QED BY <2>1
<1>2. IsFiniteSet(C) /\ Cardinality(C) \in Nat /\ Cardinality(B) \in Nat
  BY FiniteIds
<1>3. Cardinality(B) < Cardinality(C)
  <2>. HIDE DEF B, C
  <2>. QED BY <1>1, <1>2, FS_Subset
<1>. QED BY <1>3 DEF Rank

LEMMA RankInjective ==
    ASSUME NEW S \in SUBSET Ids, NEW i \in S, NEW j \in S,
           Rank(S, i) = Rank(S, j)
    PROVE  i = j
<1>1. ~(i < j) /\ ~(j < i)
  BY RankOrdered, RankBelowSize
<1>. QED BY <1>1 DEF Ids

LEMMA RankSurjective ==
    ASSUME NEW S \in SUBSET Ids, NEW k \in Nat, k < Cardinality(S)
    PROVE  \E i \in S : Rank(S, i) = k
<1> DEFINE n == Cardinality(S)
           r == [i \in S |-> Rank(S, i)]
           T == 0..(n - 1)
<1>1. IsFiniteSet(S) /\ n \in Nat
  BY FiniteIds
<1>2. IsFiniteSet(T) /\ Cardinality(T) = n
  <2>. HIDE DEF n
  <2>. QED BY <1>1, FS_Interval
<1>3. r \in [S -> T]
  BY <1>1, RankBelowSize
<1>4. \A i, j \in S : r[i] = r[j] => i = j
  BY RankInjective
<1>5. r \in Injection(S, T)
  <2>. HIDE DEF r, T
  <2>. QED BY <1>3, <1>4 DEF Injection, IsInjective
<1>6. r \in Surjection(S, T)
  BY <1>1, <1>2, <1>5, FS_Injection
<1>7. k \in T
  BY <1>1
<1>8. \E i \in S : r[i] = k
  <2>. HIDE DEF r, T
  <2>. QED BY <1>6, <1>7 DEF Surjection
<1>. QED BY <1>8

\* Documents that come do not lower the rank of another one, and leave it
\* alone if they come above it.
LEMMA RankGrows ==
    ASSUME NEW S \in SUBSET Ids, NEW T \in SUBSET Ids, S \subseteq T, NEW i \in S
    PROVE  /\ Rank(S, i) <= Rank(T, i)
           /\ (\A j \in T \ S : ~(j < i)) => Rank(T, i) = Rank(S, i)
<1> DEFINE B == {j \in S : j < i}
           C == {j \in T : j < i}
<1>1. B \in SUBSET C /\ IsFiniteSet(C) /\ Cardinality(C) \in Nat
  BY FiniteIds
<1>2. Cardinality(B) <= Cardinality(C)
  <2>. HIDE DEF B, C
  <2>. QED BY <1>1, FS_Subset
<1>3. (\A j \in T \ S : ~(j < i)) => C = B
  OBVIOUS
<1>. QED BY <1>2, <1>3 DEF Rank

PageLength(S, offset) ==
    LET size == Cardinality(S)
    IN  IF offset + PageSize <= size THEN PageSize
        ELSE IF offset <= size THEN size - offset ELSE 0

Follows(page, S, offset) ==
    /\ page \in [1..PageLength(S, offset) -> S]
    /\ \A k \in 1..PageLength(S, offset) : Rank(S, page[k]) + 1 = offset + k

\* A page that is not full reaches the last row.
LEMMA PageLengths ==
    ASSUME NEW S \in SUBSET Ids, NEW offset \in Nat
    PROVE  /\ PageLength(S, offset) \in 0..PageSize
           /\ PageLength(S, offset) < PageSize =>
                 Cardinality(S) <= offset + PageLength(S, offset)
           /\ \A k \in 1..PageLength(S, offset) :
                 offset + k - 1 \in Nat /\ offset + k - 1 < Cardinality(S)
<1>1. Cardinality(S) \in Nat /\ PageSize \in Nat
  BY FiniteIds, HandlerAssumption
<1>. QED BY <1>1 DEF PageLength

\* A page holds the rows whose ranks follow the offset, in their order.
LEMMA PageRanks ==
    ASSUME NEW t, NEW offset \in Nat
    PROVE  Follows(Page(t, offset), Present(rows, t), offset)
<1> DEFINE S == Present(rows, t)
           n == PageLength(S, offset)
<1>1. S \in SUBSET Ids
  BY DEF Present
<1>2. ASSUME NEW k \in 1..n
      PROVE  \E i \in S : Rank(S, i) + 1 = offset + k
  <2>. HIDE DEF S
  <2>1. offset + k - 1 \in Nat /\ offset + k - 1 < Cardinality(S)
    BY <1>1, PageLengths
  <2>2. PICK i \in S : Rank(S, i) = offset + k - 1
    BY <1>1, <2>1, RankSurjective
  <2>3. n \in 0..PageSize
    BY <1>1, PageLengths
  <2>4. Rank(S, i) + 1 = offset + k
    BY <2>2, <2>3
  <2>. QED BY <2>4
<1>3. Follows([k \in 1..n |-> CHOOSE i \in S : Rank(S, i) + 1 = offset + k],
              S, offset)
  <2>. HIDE DEF S
  <2>. QED BY <1>2 DEF Follows
<1>4. Page(t, offset) = CHOOSE page \in [1..n -> S] :
                            \A k \in 1..n : Rank(S, page[k]) + 1 = offset + k
  BY DEF Page, PageLength
<1>. HIDE DEF S
<1>5. Follows(Page(t, offset), S, offset)
  BY <1>3, <1>4 DEF Follows
<1>. QED BY <1>5 DEF S

-----------------------------------------------------------------------------
(***************************************************************************)
(* The registry of Store is a Catalog.  CatP is the instance of Catalog    *)
(* that the theorems of CatalogProofs speak of, Schema the one that Store  *)
(* is built from; their definitions are the same.                          *)
(***************************************************************************)
LEMMA CatalogAssumptions ==
    CatP!TableAssumption /\ CatP!NoneAssumption /\ CatP!WorkloadAssumption
BY SchemaAssumption, Zenon
   DEF Schema!TableAssumption, Schema!NoneAssumption,
       Schema!WorkloadAssumption, Schema!Entry, Schema!MainTables,
       Schema!AllOps, CatP!TableAssumption, CatP!NoneAssumption,
       CatP!WorkloadAssumption, CatP!Entry, CatP!MainTables, CatP!AllOps

LEMMA SameInit == Schema!Init <=> CatP!Init
BY Zenon DEF Schema!Init, Schema!Idle, CatP!Init, CatP!Idle

LEMMA SameServe ==
    ASSUME NEW p \in Procs
    PROVE  Schema!Serve(p) <=> CatP!Serve(p)
BY Zenon
   DEF Schema!Serve, Schema!CreateCollection,
       Schema!StartDrop, Schema!DropCommit, Schema!RenameCollection,
       Schema!FetchRenamed, Schema!StatementFails, Schema!Respond,
       Schema!Create, Schema!Rename, Schema!Answer, Schema!Goto,
       Schema!Arrived, Schema!Idle, Schema!At, Schema!db,
       Schema!Declarations, Schema!Acceptable, Schema!TableTaken,
       Schema!WithTables, Schema!TablesOf, Schema!KeyClash,
       Schema!Cascaded, Schema!Renamed, Schema!Reference,
       CatP!Serve, CatP!CreateCollection,
       CatP!StartDrop, CatP!DropCommit, CatP!RenameCollection,
       CatP!FetchRenamed, CatP!StatementFails, CatP!Respond,
       CatP!Create, CatP!Rename, CatP!Answer, CatP!Goto,
       CatP!Arrived, CatP!Idle, CatP!At, CatP!db,
       CatP!Declarations, CatP!Acceptable, CatP!TableTaken,
       CatP!WithTables, CatP!TablesOf, CatP!KeyClash,
       CatP!Cascaded, CatP!Renamed, CatP!Reference

LEMMA SameNext == Schema!Next <=> CatP!Next
BY SameServe, Zenon
   DEF Schema!Next, Schema!Crash, Schema!Idle, Schema!db,
       CatP!Next, CatP!Crash, CatP!Idle, CatP!db

LEMMA SameTypes == Schema!TypeOK <=> CatP!TypeOK
BY Zenon
   DEF Schema!TypeOK, Schema!Frame, Schema!Labels, Schema!Statuses,
       Schema!Entry, Schema!MainTables, Schema!Reference, Schema!LocalsOK,
       Schema!AllOps, CatP!TypeOK, CatP!Frame, CatP!Labels, CatP!Statuses,
       CatP!Entry, CatP!MainTables, CatP!Reference, CatP!LocalsOK,
       CatP!AllOps

LEMMA SameOwners ==
    CatP!NoOrphanTables =>
        \A t \in SqlTables :
            tables[t] # None =>
                \E n \in Schema!Registered : t \in Schema!TablesOf(registry[n])
BY Zenon DEF Schema!Registered, Schema!TablesOf, CatP!NoOrphanTables,
             CatP!Registered, CatP!TablesOf

\* What requests about documents, creates, drops and renames do to the registry
\* is what Catalog says they may do to it: no handler of a document touches it,
\* and a crash of one is a crash of the other.
THEOREM CatalogImplemented == Spec => CatP!Spec
<1>1. Init => CatP!Init
  BY SameInit DEF Init
<1>2. [Next]_vars => [CatP!Next]_CatP!vars
  <2> SUFFICES ASSUME [Next]_vars PROVE CatP!Next \/ UNCHANGED CatP!vars
    OBVIOUS
  <2>1. CASE UNCHANGED vars
    BY <2>1 DEF vars, schema, CatP!vars
  <2>2. ASSUME NEW h \in Handlers, Serve(h)
        PROVE  UNCHANGED CatP!vars
    <3>1. UNCHANGED schema
      BY <2>2 DEF Serve, StartWrite, StartDelete, StartExport, Start,
                  ReadReferences, FindOther, QueryOther, Checked, InsertRow,
                  InsertText, ChangeRow, ExportPage, Respond
    <3>. QED BY <3>1 DEF schema, CatP!vars
  <2>3. ASSUME NEW p \in Procs, ServeSchema(p)
        PROVE  CatP!Next
    BY <2>3, SameNext DEF ServeSchema, Schema!Next
  <2>4. CASE Crash
    BY <2>4, SameNext DEF Crash, Schema!Next
  <2>. QED BY <2>1, <2>2, <2>3, <2>4 DEF Next
<1>. QED BY <1>1, <1>2, PTL DEF Spec, CatP!Spec

LEMMA SchemaTypes == Spec => []Schema!TypeOK
<1>1. CatP!Spec => []CatP!TypeOK
  BY CatalogAssumptions, CatP!CatalogTypes
<1>. QED BY <1>1, CatalogImplemented, SameTypes, PTL

-----------------------------------------------------------------------------
(***************************************************************************)
(* Types.                                                                  *)
(***************************************************************************)
Placed(w) == w.pc \notin {"idle", "reply"} => w.coll # None

WorkOK == work \in [Handlers -> Work] /\ \A h \in Handlers : Placed(work[h])

RowsOK ==
    /\ rows \in [SqlTables -> [Ids -> Data \cup {None}]]
    /\ \A t \in SqlTables : tables[t] = None => rows[t] = Empty

WatchOK ==
    /\ watch \in [Handlers -> [kept : SUBSET Ids, removed : BOOLEAN,
                               below : BOOLEAN]]
    /\ misled \in BOOLEAN

LEMMA TypeParts == TypeOK <=> Schema!TypeOK /\ WorkOK /\ RowsOK /\ WatchOK
BY Zenon DEF TypeOK, WorkOK, RowsOK, WatchOK, Placed

LEMMA GotoType ==
    ASSUME WorkOK, NEW h \in Handlers, NEW w \in Work, Placed(w), Goto(h, w)
    PROVE  WorkOK' /\ work'[h] = w
BY DEF WorkOK, Goto

LEMMA TextType == Text \in Data /\ Empty \in [Ids -> Data \cup {None}]
BY DEF Text, Data, Empty

LEMMA IdleType == Idle \in Work /\ Placed(Idle)
BY TextType DEF Idle, Work, Placed, Labels

LEMMA AnsweredType ==
    ASSUME NEW w \in Work, NEW s \in Schema!Statuses
    PROVE  /\ Answered(w, s) \in Work /\ Placed(Answered(w, s))
           /\ Answered(w, s).pc = "reply" /\ Answered(w, s).op = w.op
           /\ Answered(w, s).seen = w.seen /\ Answered(w, s).status = s
<1>1. "reply" \in Labels
  BY DEF Labels
<1>2. Idle \in Work
  BY IdleType
<1>3. Answered(w, s) \in Work
  BY <1>1, <1>2 DEF Work, Answered
<1>4. /\ Answered(w, s).pc = "reply" /\ Answered(w, s).op = w.op
      /\ Answered(w, s).seen = w.seen /\ Answered(w, s).status = s
  BY <1>2 DEF Work, Answered
<1>. QED BY <1>3, <1>4 DEF Placed

LEMMA EnumStatuses ==
    {200, 201, 204, 400, 404, 409, 500} \subseteq Schema!Statuses
BY DEF Schema!Statuses

LEMMA AnswerType ==
    ASSUME WorkOK, NEW h \in Handlers,
           NEW s \in {200, 201, 204, 400, 404, 409, 500}, Answer(h, s)
    PROVE  /\ WorkOK' /\ work'[h].pc = "reply" /\ work'[h].op = work[h].op
           /\ work'[h].seen = work[h].seen /\ work'[h].status = s
<1>1. work[h] \in Work
  BY DEF WorkOK
<1>2. s \in Schema!Statuses
  BY EnumStatuses
<1> DEFINE w == Answered(work[h], s)
<1>3. /\ w \in Work /\ Placed(w) /\ w.pc = "reply" /\ w.op = work[h].op
      /\ w.seen = work[h].seen /\ w.status = s
  BY <1>1, <1>2, AnsweredType
<1>4. Goto(h, w)
  BY DEF Answer
<1>. HIDE DEF w
<1>. QED BY <1>3, <1>4, GotoType

LEMMA StartedType ==
    ASSUME NEW w \in Work, NEW label \in Labels, NEW op \in AllDocOps,
           NEW n \in Names, NEW c \in Schema!Entry \cup {None},
           NEW i \in Ids \cup {None}, NEW d \in Data
    PROVE  [w EXCEPT !.pc = label, !.op = op, !.name = n,
                     !.coll = c, !.id = i, !.data = d] \in Work
BY DEF Work

\* A request starts with the collection that the registry has, or is refused.
LEMMA StartType ==
    ASSUME Schema!TypeOK, WorkOK, NEW h \in Handlers, NEW op \in AllDocOps,
           NEW label \in {"refs", "page"}, NEW i \in Ids \cup {None},
           NEW d \in Data, Start(h, op, label, i, d)
    PROVE  /\ WorkOK' /\ UNCHANGED <<schema, rows>> /\ At(h, "idle")
           /\ work'[h].op = op /\ work'[h].seen = <<>>
           /\ \/ work'[h].pc = label /\ work'[h].status = None
              \/ work'[h].pc = "reply" /\ work'[h].status = 404
<1>1. PICK n \in Names :
        Goto(h, IF registry[n] = None
                THEN Answered([Idle EXCEPT !.pc = label, !.op = op, !.name = n,
                                  !.coll = registry[n], !.id = i, !.data = d], 404)
                ELSE [Idle EXCEPT !.pc = label, !.op = op, !.name = n,
                                  !.coll = registry[n], !.id = i, !.data = d])
  BY DEF Start
<1> DEFINE w == [Idle EXCEPT !.pc = label, !.op = op, !.name = n,
                             !.coll = registry[n], !.id = i, !.data = d]
<1>2. Idle \in Work /\ Idle.status = None /\ Idle.seen = <<>>
  BY IdleType DEF Idle
<1>3. label \in Labels
  BY DEF Labels
<1>4. registry[n] \in Schema!Entry \cup {None}
  BY DEF Schema!TypeOK
<1>5. w \in Work /\ w.coll = registry[n] /\ w.status = None
  <2>1. w \in Work
    BY <1>2, <1>3, <1>4, StartedType
  <2>2. w.coll = registry[n] /\ w.status = None
    BY <1>2 DEF Work
  <2>. QED BY <2>1, <2>2
<1>6. w.op = op /\ w.seen = <<>> /\ w.pc = label
  BY <1>2 DEF Work
<1>7. At(h, "idle") /\ UNCHANGED <<schema, rows>>
  BY DEF Start
<1>8. Goto(h, IF registry[n] = None THEN Answered(w, 404) ELSE w)
  BY <1>1
<1>. HIDE DEF w
<1>9. CASE registry[n] = None
  <2> DEFINE a == Answered(w, 404)
  <2>0. 404 \in Schema!Statuses
    BY EnumStatuses
  <2>1. Goto(h, a)
    BY <1>8, <1>9
  <2>2. /\ a \in Work /\ Placed(a) /\ a.pc = "reply" /\ a.op = op
        /\ a.seen = <<>> /\ a.status = 404
    BY <1>5, <1>6, <2>0, AnsweredType
  <2>. HIDE DEF a
  <2>. QED BY <1>7, <2>1, <2>2, GotoType
<1>10. CASE registry[n] # None
  <2>1. Goto(h, w) /\ Placed(w)
    BY <1>5, <1>6, <1>8, <1>10 DEF Placed
  <2>. QED BY <1>5, <1>6, <1>7, <2>1, GotoType
<1>. QED BY <1>9, <1>10

LEMMA FollowType ==
    ASSUME NEW w \in Work, NEW todo \in SUBSET Schema!Reference,
           NEW r \in Schema!Reference \cup {None},
           NEW c \in Schema!Entry \cup {None}, "query" \in Labels
    PROVE  [w EXCEPT !.pc = "query", !.todo = todo, !.ref = r, !.other = c]
                \in Work
BY DEF Work

\* The checks of references.
LEMMA CheckType ==
    ASSUME Schema!TypeOK, WorkOK, NEW h \in Handlers,
           ReadReferences(h) \/ FindOther(h) \/ QueryOther(h) \/ Checked(h)
    PROVE  /\ WorkOK' /\ UNCHANGED <<schema, rows>>
           /\ work'[h].op = work[h].op /\ work[h].pc \in {"refs", "find", "query"}
           /\ work'[h].pc \in {"find", "query", "write", "reply"}
<1> DEFINE w == work[h]
<1>1. w \in Work /\ w = work[h]
  BY DEF WorkOK
<1>2. {"find", "query", "write"} \subseteq Labels
  BY DEF Labels
<1>3. Placed(w)
  BY DEF WorkOK
<1>. HIDE DEF w
<1>4. ASSUME NEW s \in {200, 201, 204, 400, 404, 409, 500}, Answer(h, s)
      PROVE  WorkOK' /\ work'[h].op = w.op /\ work'[h].pc = "reply"
  BY <1>1, <1>4, AnswerType
<1>5. ASSUME NEW v \in Work, Goto(h, v), v.op = w.op, v.coll = w.coll,
             v.pc \in {"find", "query", "write"},
             w.pc \in {"refs", "find", "query"}
      PROVE  WorkOK' /\ work'[h].op = w.op
             /\ work'[h].pc \in {"find", "query", "write", "reply"}
  BY <1>3, <1>5, GotoType DEF Placed
<1>6. UNCHANGED <<schema, rows>>
  BY DEF ReadReferences, FindOther, QueryOther, Checked
<1>7. w.pc \in {"refs", "find", "query"}
  BY <1>1 DEF ReadReferences, FindOther, QueryOther, Checked, At
<1>8. CASE ReadReferences(h)
  <2>1. PICK T \in SUBSET refs : Goto(h, [w EXCEPT !.pc = "find", !.todo = T])
    <3>1. Goto(h, [w EXCEPT !.pc = "find",
                !.todo = IF w.op = "delete" THEN {r \in refs : r.target = w.name}
                         ELSE {r \in refs : r.owner = w.name
                                            /\ w.data[r.field] # None}])
      BY <1>1, <1>8 DEF ReadReferences
    <3>. QED BY <3>1
  <2> DEFINE v == [w EXCEPT !.pc = "find", !.todo = T]
  <2>2. T \in SUBSET Schema!Reference
    BY DEF Schema!TypeOK
  <2>3. v \in Work
    BY <1>1, <1>2, <2>2 DEF Work
  <2>4. v.op = w.op /\ v.coll = w.coll /\ v.pc = "find"
    BY <1>1 DEF Work
  <2>. HIDE DEF v
  <2>5. Goto(h, v)
    BY <2>1 DEF v
  <2>. QED BY <1>1, <1>5, <1>6, <1>7, <2>3, <2>4, <2>5
<1>9. CASE FindOther(h)
  <2>1. At(h, "find") /\ w.todo \in SUBSET Schema!Reference
    BY <1>1, <1>9 DEF FindOther, Work
  <2>2. PICK r \in w.todo :
            \/ /\ OtherEnd(w, r) # None
               /\ Goto(h, [w EXCEPT !.pc = "query", !.todo = @ \ {r}, !.ref = r,
                                    !.other = OtherEnd(w, r)])
            \/ Goto(h, [w EXCEPT !.todo = @ \ {r}])
            \/ Answer(h, 400)
    BY <1>1, <1>9, Zenon DEF FindOther
  <2>3. r \in Schema!Reference
    BY <2>1
  <2>4. OtherEnd(w, r) \in Schema!Entry \cup {None}
    BY <2>3 DEF OtherEnd, Schema!TypeOK, Schema!Reference
  <2> DEFINE other == OtherEnd(w, r)
             todo == w.todo \ {r}
             u == [w EXCEPT !.pc = "query", !.todo = todo, !.ref = r,
                            !.other = other]
             v == [w EXCEPT !.todo = todo]
  <2>5. u \in Work
    <3>1. other \in Schema!Entry \cup {None}
      BY <2>4
    <3>2. todo \in SUBSET Schema!Reference
      BY <2>1
    <3>3. "query" \in Labels /\ r \in Schema!Reference \cup {None}
      BY <1>2, <2>3
    <3>. HIDE DEF other, todo
    <3>. QED BY <1>1, <3>1, <3>2, <3>3, FollowType
  <2>6. u.op = w.op /\ u.coll = w.coll /\ u.pc = "query"
    BY <1>1 DEF Work
  <2>7. v \in Work /\ v.op = w.op /\ v.coll = w.coll /\ v.pc = w.pc
    BY <1>1 DEF Work
  <2>8. w.pc = "find"
    BY <1>1, <2>1 DEF At
  <2>9. Goto(h, u) \/ Goto(h, v) \/ Answer(h, 400)
    BY <2>2
  <2>. HIDE DEF u, v
  <2>. QED BY <1>1, <1>4, <1>5, <1>6, <1>7, <2>5, <2>6, <2>7, <2>8, <2>9
<1>10. CASE QueryOther(h)
  <2> DEFINE v == [w EXCEPT !.pc = "find", !.ref = None, !.other = None]
  <2>1. v \in Work
    BY <1>1, <1>2 DEF Work
  <2>2. v.op = w.op /\ v.coll = w.coll /\ v.pc = "find"
    BY <1>1 DEF Work
  <2>3. Answer(h, 500) \/ Answer(h, 409) \/ Answer(h, 400) \/ Goto(h, v)
    BY <1>1, <1>10, Zenon DEF QueryOther
  <2>. HIDE DEF v
  <2>. QED BY <1>1, <1>4, <1>5, <1>6, <1>7, <2>1, <2>2, <2>3
<1>11. CASE Checked(h)
  <2> DEFINE v == [w EXCEPT !.pc = "write"]
  <2>1. v \in Work /\ v.op = w.op /\ v.coll = w.coll /\ v.pc = "write"
    BY <1>1, <1>2 DEF Work
  <2>2. Goto(h, v)
    BY <1>1, <1>11 DEF Checked
  <2>. HIDE DEF v
  <2>. QED BY <1>1, <1>5, <1>6, <1>7, <2>1, <2>2
<1>. QED BY <1>8, <1>9, <1>10, <1>11

\* Rows are only written to tables that are there.
LEMMA RowWritten ==
    ASSUME RowsOK, NEW t, NEW i, NEW d \in Data \cup {None},
           tables[t] # None, tables' = tables, rows' = [rows EXCEPT ![t][i] = d]
    PROVE  RowsOK'
<1>1. \A u \in SqlTables : rows'[u] = IF u = t THEN [rows[u] EXCEPT ![i] = d]
                                             ELSE rows[u]
  BY DEF RowsOK
<1>2. \A u \in SqlTables : rows'[u] \in [Ids -> Data \cup {None}]
  BY <1>1 DEF RowsOK
<1>3. rows' \in [SqlTables -> [Ids -> Data \cup {None}]]
  BY <1>2 DEF RowsOK
<1>. QED BY <1>1, <1>3 DEF RowsOK

LEMMA RowReplaced ==
    ASSUME RowsOK, NEW w, NEW row \in Data \cup {None},
           NEW text \in Data \cup {None}, tables[w.coll.table] # None,
           w.coll.vector => tables[FtsOf[w.coll.table]] # None,
           tables' = tables, rows' = Replaced(w, row, text)
    PROVE  RowsOK'
<1>1. \A u \in SqlTables :
        rows'[u] = IF u = w.coll.table THEN [rows[u] EXCEPT ![w.id] = row]
                   ELSE IF w.coll.vector /\ u = FtsOf[w.coll.table]
                        THEN [rows[u] EXCEPT ![w.id] = text]
                   ELSE rows[u]
  BY Zenon DEF Replaced
<1>2. ASSUME NEW u \in SqlTables
      PROVE  rows'[u] \in [Ids -> Data \cup {None}]
  <2>1. rows[u] \in [Ids -> Data \cup {None}]
    BY DEF RowsOK
  <2>2. /\ [rows[u] EXCEPT ![w.id] = row] \in [Ids -> Data \cup {None}]
        /\ [rows[u] EXCEPT ![w.id] = text] \in [Ids -> Data \cup {None}]
    BY <2>1
  <2>. QED BY <1>1, <2>1, <2>2, Zenon
<1>3. rows' = [t \in SqlTables |-> rows'[t]]
  BY Zenon DEF Replaced
<1>4. rows' \in [SqlTables -> [Ids -> Data \cup {None}]]
  BY <1>2, <1>3
<1>5. ASSUME NEW u \in SqlTables, tables[u] = None
      PROVE  rows'[u] = Empty
  BY <1>1, <1>5 DEF RowsOK
<1>. QED BY <1>4, <1>5 DEF RowsOK

LEMMA KindsDiffer == None \notin {"plain", "vec", "fts"}
BY SchemaAssumption DEF Schema!NoneAssumption

\* The statements that write.
LEMMA WriteType ==
    ASSUME Schema!TypeOK, WorkOK, RowsOK, NEW h \in Handlers,
           InsertRow(h) \/ InsertText(h) \/ ChangeRow(h)
    PROVE  /\ WorkOK' /\ RowsOK' /\ UNCHANGED schema
           /\ work'[h].op = work[h].op /\ work[h].pc \in {"write", "text"}
           /\ work'[h].pc \in {"text", "reply"}
<1> DEFINE w == work[h]
           Answers == \E s \in {200, 201, 204, 400, 404, 409, 500} : Answer(h, s)
<1>1. w \in Work /\ w = work[h]
  BY DEF WorkOK
<1>2. UNCHANGED schema /\ tables' = tables
  BY DEF InsertRow, InsertText, ChangeRow, schema
<1>3. w.pc \in {"write", "text"}
  BY DEF InsertRow, InsertText, ChangeRow, At
<1>4. UNCHANGED rows => RowsOK'
  BY <1>2 DEF RowsOK, Empty
<1>5. Text \in Data \cup {None} /\ w.data \in Data \cup {None}
  BY <1>1, TextType DEF Work
<1>. HIDE DEF w
<1>6. Answers => WorkOK' /\ work'[h].op = w.op /\ work'[h].pc = "reply"
  BY <1>1, AnswerType
<1>7. CASE InsertRow(h)
  <2> DEFINE v == [w EXCEPT !.pc = "text"]
  <2>1. \/ Answers /\ UNCHANGED rows
        \/ /\ tables[w.coll.table] = Kind(w.coll)
           /\ rows' = [rows EXCEPT ![w.coll.table][w.id] = w.data]
           /\ Goto(h, v) \/ Goto(h, Answered(w, 201))
    BY <1>1, <1>7 DEF InsertRow
  <2>2. "text" \in Labels
    BY DEF Labels
  <2>3. v \in Work
    BY <1>1, <2>2 DEF Work
  <2>4. v.op = w.op /\ v.coll = w.coll /\ v.pc = "text"
    BY <1>1 DEF Work
  <2>5. Placed(v)
    BY <1>1, <1>3, <2>4 DEF Placed, WorkOK
  <2>6. Goto(h, v) => WorkOK' /\ work'[h] = v
    <3>. HIDE DEF v
    <3>. QED BY <2>3, <2>5, GotoType
  <2>7. Goto(h, Answered(w, 201)) => Answers
    BY <1>1 DEF Answer
  <2>8. Kind(w.coll) # None
    BY KindsDiffer DEF Kind
  <2>9. rows' = [rows EXCEPT ![w.coll.table][w.id] = w.data]
            /\ tables[w.coll.table] = Kind(w.coll) => RowsOK'
    BY <1>2, <1>5, <2>8, RowWritten
  <2>. HIDE DEF v, Answers
  <2>. QED BY <1>1, <1>2, <1>3, <1>4, <1>6, <2>1, <2>4, <2>6, <2>7, <2>9
<1>8. CASE InsertText(h)
  <2>1. Answers
    <3>1. Answer(h, 201) \/ Answer(h, 500)
      BY <1>8, Zenon DEF InsertText
    <3>. QED BY <3>1
  <2>2. PICK x : \/ UNCHANGED rows
                 \/ tables[x] = "fts" /\ rows' = [rows EXCEPT ![x][w.id] = Text]
    BY <1>1, <1>8, Zenon DEF InsertText
  <2>3. "fts" # None
    BY KindsDiffer
  <2>4. ASSUME tables[x] = "fts", rows' = [rows EXCEPT ![x][w.id] = Text]
        PROVE  RowsOK'
    BY <1>2, <1>5, <2>3, <2>4, RowWritten
  <2>5. RowsOK'
    BY <1>4, <2>2, <2>4
  <2>. HIDE DEF Answers
  <2>. QED BY <1>1, <1>2, <1>3, <1>6, <2>1, <2>5
<1>9. CASE ChangeRow(h)
  <2>1. /\ Answers
        /\ \/ UNCHANGED rows
           \/ /\ HoldsItems(w.coll.table) /\ Works(w)
              /\ \/ rows' = Replaced(w, w.data, Text)
                 \/ rows' = Replaced(w, None, None)
    BY <1>1, <1>9 DEF ChangeRow
  <2>2. HoldsItems(w.coll.table) => tables[w.coll.table] # None
    BY KindsDiffer DEF HoldsItems
  <2>3. Works(w) /\ w.coll.vector => tables[FtsOf[w.coll.table]] # None
    BY KindsDiffer, Zenon DEF Works
  <2>4. RowsOK'
    BY <1>2, <1>4, <1>5, <2>1, <2>2, <2>3, RowReplaced
  <2>. HIDE DEF Answers
  <2>. QED BY <1>1, <1>2, <1>3, <1>6, <2>1, <2>4
<1>. QED BY <1>7, <1>8, <1>9

LEMMA PageType ==
    ASSUME NEW t, NEW offset \in Nat
    PROVE  /\ Page(t, offset) \in Seq(Ids)
           /\ Len(Page(t, offset)) = PageLength(Present(rows, t), offset)
<1> DEFINE S == Present(rows, t)
           n == PageLength(S, offset)
           page == Page(t, offset)
<1>1. S \in SUBSET Ids
  BY DEF Present
<1>2. n \in Nat /\ page \in [1..n -> S]
  <2>1. PageSize \in Nat
    BY HandlerAssumption
  <2>. HIDE DEF S
  <2>2. n \in 0..PageSize
    BY <1>1, PageLengths
  <2>. QED BY <2>1, <2>2, PageRanks DEF Follows, S
<1>. HIDE DEF S, n, page
<1>3. page \in Seq(Ids) /\ Len(page) = n
  BY <1>1, <1>2
<1>. QED BY <1>3 DEF page, n, S

\* Export reads one page after the other.
LEMMA ReadType ==
    ASSUME WorkOK, NEW h \in Handlers, ExportPage(h)
    PROVE  LET w == work[h]
               v == work'[h]
               page == Page(w.coll.table, Len(w.seen))
           IN  /\ WorkOK' /\ UNCHANGED <<schema, rows>> /\ At(h, "page")
               /\ v.op = w.op
               /\ \/ v.pc = "reply" /\ v.status = 500
                  \/ /\ v.pc = "reply" /\ v.status = 200
                     /\ v.seen = w.seen \o page /\ Len(page) < PageSize
                  \/ /\ v.pc = "page" /\ v.status = w.status
                     /\ v.seen = w.seen \o page /\ v.coll = w.coll
<1> DEFINE w == work[h]
           page == Page(w.coll.table, Len(w.seen))
           more == [w EXCEPT !.seen = @ \o page]
<1>1. w \in Work /\ Placed(w) /\ w.seen \in Seq(Ids)
  BY DEF WorkOK, Work
<1>2. page \in Seq(Ids)
  <2>1. Len(w.seen) \in Nat
    BY <1>1
  <2>. QED BY <2>1, PageType
<1>3. UNCHANGED <<schema, rows>> /\ At(h, "page")
  BY DEF ExportPage
<1>4. \/ Answer(h, 500)
      \/ Len(page) < PageSize /\ Goto(h, Answered(more, 200))
      \/ Goto(h, more)
  BY Zenon DEF ExportPage
<1>5. CASE Answer(h, 500)
  <2>1. /\ WorkOK' /\ work'[h].pc = "reply" /\ work'[h].op = work[h].op
        /\ work'[h].status = 500
    BY <1>5, AnswerType
  <2>. QED BY <1>3, <2>1
<1>. HIDE DEF page
<1>6. w.seen \o page \in Seq(Ids)
  BY <1>1, <1>2
<1>7. more \in Work
  BY <1>1, <1>6 DEF Work
<1>8. /\ more.op = w.op /\ more.pc = w.pc /\ more.status = w.status
      /\ more.seen = w.seen \o page /\ more.coll = w.coll
  BY <1>1 DEF Work
<1>9. w.pc = "page"
  BY <1>3 DEF At
<1>10. CASE Goto(h, more)
  <2>1. Placed(more)
    BY <1>1, <1>8 DEF Placed
  <2>2. WorkOK' /\ work'[h] = more
    <3>. HIDE DEF more, w
    <3>. QED BY <1>7, <1>10, <2>1, GotoType
  <2>. HIDE DEF more
  <2>. QED BY <1>3, <1>8, <1>9, <2>2 DEF page
<1>11. CASE Len(page) < PageSize /\ Goto(h, Answered(more, 200))
  <2> DEFINE a == Answered(more, 200)
  <2>1. 200 \in Schema!Statuses
    BY EnumStatuses
  <2>2. /\ a \in Work /\ Placed(a) /\ a.pc = "reply" /\ a.op = more.op
        /\ a.seen = more.seen /\ a.status = 200
    <3>. HIDE DEF more
    <3>. QED BY <1>7, <2>1, AnsweredType
  <2>3. Goto(h, a)
    BY <1>11
  <2>. HIDE DEF a
  <2>4. WorkOK' /\ work'[h] = a
    BY <2>2, <2>3, GotoType
  <2>. HIDE DEF more
  <2>5. /\ work'[h].pc = "reply" /\ work'[h].op = w.op
        /\ work'[h].status = 200 /\ work'[h].seen = w.seen \o page
    BY <1>8, <2>2, <2>4
  <2>6. Len(page) < PageSize
    BY <1>11
  <2>. QED BY <1>3, <2>4, <2>5, <2>6 DEF page
<1>. QED BY <1>4, <1>5, <1>10, <1>11

LEMMA UnchangedRows == RowsOK /\ UNCHANGED <<schema, rows>> => RowsOK'
BY DEF RowsOK, schema, Empty

\* A step of a request about documents keeps the types.
LEMMA ServeType ==
    ASSUME Schema!TypeOK, WorkOK, RowsOK, NEW h \in Handlers, Serve(h)
    PROVE  WorkOK' /\ RowsOK' /\ UNCHANGED schema
<1>1. CASE StartWrite(h) \/ StartDelete(h) \/ StartExport(h)
  <2>1. Text \in Data /\ {"insert", "update", "delete", "export"} \subseteq AllDocOps
    BY TextType DEF AllDocOps
  <2>2. PICK op \in AllDocOps, label \in {"refs", "page"},
             i \in Ids \cup {None}, d \in Data : Start(h, op, label, i, d)
    BY <1>1, <2>1 DEF StartWrite, StartDelete, StartExport
  <2>3. WorkOK' /\ UNCHANGED <<schema, rows>>
    BY <2>2, StartType
  <2>. QED BY <2>3, UnchangedRows
<1>2. CASE ReadReferences(h) \/ FindOther(h) \/ QueryOther(h) \/ Checked(h)
  BY <1>2, CheckType, UnchangedRows
<1>3. CASE InsertRow(h) \/ InsertText(h) \/ ChangeRow(h)
  BY <1>3, WriteType
<1>4. CASE ExportPage(h)
  <2>1. WorkOK' /\ UNCHANGED <<schema, rows>>
    BY <1>4, ReadType
  <2>. QED BY <2>1, UnchangedRows
<1>5. CASE Respond(h)
  BY <1>5, IdleType, GotoType, UnchangedRows DEF Respond
<1>. QED BY <1>1, <1>2, <1>3, <1>4, <1>5 DEF Serve

\* A table that comes or goes is empty.
LEMMA SchemaType ==
    ASSUME WorkOK, RowsOK, NEW p \in Procs, ServeSchema(p)
    PROVE  WorkOK' /\ RowsOK'
<1>1. rows' = [t \in SqlTables |->
                  IF tables'[t] = tables[t] THEN rows[t] ELSE Empty]
  BY DEF ServeSchema
<1>2. rows' \in [SqlTables -> [Ids -> Data \cup {None}]]
  BY <1>1, TextType DEF RowsOK
<1>3. ASSUME NEW t \in SqlTables, tables'[t] = None
      PROVE  rows'[t] = Empty
  BY <1>1, <1>3 DEF RowsOK
<1>4. RowsOK'
  BY <1>2, <1>3 DEF RowsOK, Empty
<1>. QED BY <1>4 DEF ServeSchema, WorkOK

LEMMA CrashType ==
    ASSUME WorkOK, RowsOK, Crash
    PROVE  WorkOK' /\ RowsOK'
<1>1. WorkOK'
  BY IdleType DEF Crash, WorkOK
<1>2. tables' = tables /\ rows' = rows
  BY DEF Crash, Schema!Crash, Schema!db
<1>. QED BY <1>1, <1>2 DEF RowsOK, Empty

LEMMA WatchType ==
    ASSUME WatchOK, watch' = [h \in Handlers |-> Watched(h)],
           misled' = (misled \/ \E h \in Handlers : Misled(h))
    PROVE  WatchOK'
<1>1. ASSUME NEW h \in Handlers
      PROVE  Watched(h) \in [kept : SUBSET Ids, removed : BOOLEAN,
                             below : BOOLEAN]
  <2> DEFINE old == Present(rows, work[h].coll.table)
             new == Present(rows', work[h].coll.table)
             Moved == [kept |-> watch[h].kept \cap new,
                       removed |-> watch[h].removed \/ ~(old \subseteq new),
                       below |-> watch[h].below
                                 \/ \E i \in new \ old, j \in old : i < j]
             Begun == [Unwatched EXCEPT !.kept =
                           Present(rows', work'[h].coll.table)]
  <2>1. watch[h] \in [kept : SUBSET Ids, removed : BOOLEAN, below : BOOLEAN]
    BY DEF WatchOK
  <2>2. Unwatched \in [kept : SUBSET Ids, removed : BOOLEAN, below : BOOLEAN]
    BY DEF Unwatched
  <2>3. Begun \in [kept : SUBSET Ids, removed : BOOLEAN, below : BOOLEAN]
    BY <2>2 DEF Present
  <2>4. Moved \in [kept : SUBSET Ids, removed : BOOLEAN, below : BOOLEAN]
    BY <2>1 DEF Present
  <2>5. Watched(h) \in {Unwatched, Moved, Begun, watch[h]}
    BY Zenon DEF Watched
  <2>. HIDE DEF Moved, Begun
  <2>. QED BY <2>1, <2>2, <2>3, <2>4, <2>5
<1>2. misled' \in BOOLEAN
  BY Zenon DEF WatchOK
<1>. QED BY <1>1, <1>2 DEF WatchOK

LEMMA InitTypes == Init => WorkOK /\ RowsOK /\ WatchOK
<1>. SUFFICES ASSUME Init PROVE WorkOK /\ RowsOK /\ WatchOK
  OBVIOUS
<1>1. WorkOK
  BY IdleType DEF Init, WorkOK
<1>2. RowsOK
  BY TextType DEF Init, RowsOK
<1>3. WatchOK
  BY DEF Init, WatchOK, Unwatched
<1>. QED BY <1>1, <1>2, <1>3

\* In every state the registry has its types, each handler past its lookup
\* holds a collection, and there is no row of a table that is not there.
THEOREM StoreTypes == Spec => []TypeOK
<1> DEFINE LocalsOK == WorkOK /\ RowsOK /\ WatchOK
<1>1. Init => LocalsOK
  BY InitTypes
<1>2. Schema!TypeOK /\ LocalsOK /\ [Next]_vars => LocalsOK'
  <2> SUFFICES ASSUME Schema!TypeOK, WorkOK, RowsOK, WatchOK, [Next]_vars
               PROVE  WorkOK' /\ RowsOK' /\ WatchOK'
    OBVIOUS
  <2>1. CASE UNCHANGED vars
    <3>1. UNCHANGED <<schema, rows>> /\ UNCHANGED <<work, watch, misled>>
      BY <2>1 DEF vars
    <3>. QED BY <3>1, UnchangedRows DEF WorkOK, WatchOK
  <2>2. CASE Next
    <3>1. WatchOK'
      BY <2>2, WatchType DEF Next
    <3>2. WorkOK' /\ RowsOK'
      BY <2>2, ServeType, SchemaType, CrashType DEF Next
    <3>. QED BY <3>1, <3>2
  <2>. QED BY <2>1, <2>2
<1>3. Spec => []LocalsOK
  BY <1>1, <1>2, SchemaTypes, PTL DEF Spec
<1>4. Schema!TypeOK /\ LocalsOK => TypeOK
  BY TypeParts
<1>. QED BY <1>3, <1>4, SchemaTypes, PTL

-----------------------------------------------------------------------------
(***************************************************************************)
(* Where documents are written.                                            *)
(***************************************************************************)
\* As long as creates, drops and renames are served one at a time, no request
\* about a document, however many there are and however old its handle, writes
\* to a table that no client can reach: every table that is there belongs to a
\* registered collection, and a statement on one that is not there fails.
THEOREM WritesOneByOne ==
    ASSUME \A p, q \in Procs : p = q
    PROVE  Spec => WritesReachable
<1> DEFINE Reachable ==
        \A t \in SqlTables :
            (tables'[t] = tables[t] /\ rows'[t] # rows[t])
                => \E n \in Schema!Registered :
                      t \in Schema!TablesOf(registry[n])
<1>1. CatP!Spec => []CatP!NoOrphanTables
  <2>1. CatP!Spec => [](CatP!BackingTables /\ CatP!NoAliasing
                        /\ CatP!NoOrphanTables)
    BY CatalogAssumptions, CatP!TablesOneByOne
  <2>. QED BY <2>1, PTL
<1>2. TypeOK /\ TypeOK' /\ CatP!NoOrphanTables => Reachable
  <2> SUFFICES ASSUME TypeOK, TypeOK', CatP!NoOrphanTables, NEW t \in SqlTables,
                      tables'[t] = tables[t], rows'[t] # rows[t]
               PROVE  \E n \in Schema!Registered :
                          t \in Schema!TablesOf(registry[n])
    OBVIOUS
  <2>1. /\ tables[t] = None => rows[t] = Empty
        /\ tables'[t] = None => rows'[t] = Empty
    BY Zenon DEF TypeOK, Empty
  <2>. QED BY <2>1, SameOwners
<1>3. Spec => [][Reachable]_vars
  BY <1>1, <1>2, CatalogImplemented, StoreTypes, PTL
<1>. QED BY <1>3 DEF WritesReachable

-----------------------------------------------------------------------------
(***************************************************************************)
(* Exports.  What has been read is a prefix of what there is, as far as    *)
(* ranks go: a document that was there all the time has been read or is    *)
(* still ahead, and without an insert below it has the rank of the place   *)
(* at which it was read.                                                   *)
(***************************************************************************)
Contents(h) == Present(rows, work[h].coll.table)

NoneSkipped(S, seen, kept) ==
    \A i \in kept : i \in ToSet(seen) \/ Len(seen) <= Rank(S, i)

InOrder(S, seen) ==
    \A k \in 1..Len(seen) : seen[k] \in S /\ Rank(S, seen[k]) + 1 = k

LEMMA SkipMoves ==
    ASSUME NEW S \in SUBSET Ids, NEW T \in SUBSET Ids, S \subseteq T,
           NEW kept \in SUBSET S, NEW seen \in Seq(Ids),
           NoneSkipped(S, seen, kept)
    PROVE  NoneSkipped(T, seen, kept \cap T)
<1> SUFFICES ASSUME NEW i \in kept, i \notin ToSet(seen)
             PROVE  Len(seen) <= Rank(T, i)
  BY DEF NoneSkipped
<1>1. Len(seen) <= Rank(S, i) /\ Len(seen) \in Nat
  BY DEF NoneSkipped
<1>2. Rank(S, i) <= Rank(T, i) /\ Rank(S, i) \in Nat /\ Rank(T, i) \in Nat
  BY RankGrows, RankBelowSize
<1>. QED BY <1>1, <1>2

LEMMA OrderMoves ==
    ASSUME NEW S \in SUBSET Ids, NEW T \in SUBSET Ids, S \subseteq T,
           \A i \in T \ S, j \in S : ~(i < j),
           NEW seen \in Seq(Ids), InOrder(S, seen)
    PROVE  InOrder(T, seen)
<1> SUFFICES ASSUME NEW k \in 1..Len(seen)
             PROVE  seen[k] \in T /\ Rank(T, seen[k]) + 1 = k
  BY DEF InOrder
<1>1. seen[k] \in S /\ Rank(S, seen[k]) + 1 = k
  BY DEF InOrder
<1>2. Rank(T, seen[k]) = Rank(S, seen[k])
  BY <1>1, RankGrows
<1>. QED BY <1>1, <1>2

LEMMA ReadElements ==
    ASSUME NEW seen \in Seq(Ids), NEW page \in Seq(Ids)
    PROVE  /\ Len(seen \o page) = Len(seen) + Len(page)
           /\ \A k \in 1..Len(seen) : (seen \o page)[k] = seen[k]
           /\ \A k \in 1..Len(page) : (seen \o page)[Len(seen) + k] = page[k]
           /\ ToSet(seen \o page) = ToSet(seen) \cup ToSet(page)
<1>1. /\ Len(seen \o page) = Len(seen) + Len(page)
      /\ \A k \in 1..Len(seen) : (seen \o page)[k] = seen[k]
      /\ \A k \in 1..Len(page) : (seen \o page)[Len(seen) + k] = page[k]
  OBVIOUS
<1>2. \A s \in Seq(Ids) : ToSet(s) = {s[k] : k \in 1..Len(s)}
  BY DEF ToSet
<1>3. seen \o page \in Seq(Ids) /\ Len(seen) \in Nat /\ Len(page) \in Nat
  OBVIOUS
<1> DEFINE s == seen \o page
<1>. HIDE DEF s
<1>4. /\ Len(s) = Len(seen) + Len(page)
      /\ \A k \in 1..Len(seen) : s[k] = seen[k]
      /\ \A k \in 1..Len(page) : s[Len(seen) + k] = page[k]
  BY <1>1 DEF s
<1>5. \A k \in 1..Len(s) :
        k \in 1..Len(seen) \/ \E l \in 1..Len(page) : k = Len(seen) + l
  <2> SUFFICES ASSUME NEW k \in 1..Len(s), k \notin 1..Len(seen)
               PROVE  \E l \in 1..Len(page) : k = Len(seen) + l
    OBVIOUS
  <2>1. k - Len(seen) \in 1..Len(page) /\ k = Len(seen) + (k - Len(seen))
    BY <1>3, <1>4
  <2>. QED BY <2>1
<1>6. /\ \A k \in 1..Len(seen) : k \in 1..Len(s)
      /\ \A k \in 1..Len(page) : Len(seen) + k \in 1..Len(s)
  BY <1>3, <1>4
<1>7. {s[k] : k \in 1..Len(s)} =
        {seen[k] : k \in 1..Len(seen)} \cup {page[k] : k \in 1..Len(page)}
  <2>1. ASSUME NEW k \in 1..Len(s)
        PROVE  s[k] \in {seen[l] : l \in 1..Len(seen)}
                         \cup {page[l] : l \in 1..Len(page)}
    BY <1>4, <1>5, Zenon
  <2>2. ASSUME NEW k \in 1..Len(seen)
        PROVE  seen[k] \in {s[l] : l \in 1..Len(s)}
    BY <1>4, <1>6, Zenon
  <2>3. ASSUME NEW k \in 1..Len(page)
        PROVE  page[k] \in {s[l] : l \in 1..Len(s)}
    BY <1>4, <1>6, Zenon
  <2>. QED BY <2>1, <2>2, <2>3
<1>8. ToSet(s) = ToSet(seen) \cup ToSet(page)
  BY <1>2, <1>3, <1>7, Zenon DEF s
<1>. QED BY <1>1, <1>8 DEF s

\* A page brings the documents whose turn it is, and the last one all that
\* are left.
LEMMA SkipReads ==
    ASSUME NEW S \in SUBSET Ids, NEW kept \in SUBSET S, NEW seen \in Seq(Ids),
           NEW page \in Seq(Ids), Follows(page, S, Len(seen)),
           Len(page) = PageLength(S, Len(seen)), NoneSkipped(S, seen, kept)
    PROVE  /\ NoneSkipped(S, seen \o page, kept)
           /\ Len(page) < PageSize => kept \subseteq ToSet(seen \o page)
<1>1. Len(seen) \in Nat /\ Len(page) \in Nat
  OBVIOUS
<1>2. /\ Len(seen \o page) = Len(seen) + Len(page)
      /\ ToSet(seen \o page) = ToSet(seen) \cup ToSet(page)
  BY ReadElements
<1>3. ASSUME NEW i \in kept, Len(seen) <= Rank(S, i),
             Rank(S, i) < Len(seen) + Len(page)
      PROVE  i \in ToSet(page)
  <2>1. Rank(S, i) \in Nat
    BY RankBelowSize
  <2> DEFINE k == Rank(S, i) + 1 - Len(seen)
  <2>2. k \in 1..Len(page) /\ Len(seen) + k = Rank(S, i) + 1
    BY <1>1, <1>3, <2>1
  <2>. HIDE DEF k
  <2>3. page[k] \in S /\ Rank(S, page[k]) + 1 = Len(seen) + k
    BY <2>2 DEF Follows
  <2>4. Rank(S, page[k]) \in Nat
    BY <2>3, RankBelowSize
  <2>5. page[k] = i
    BY <2>1, <2>2, <2>3, <2>4, RankInjective
  <2>. QED BY <2>2, <2>5 DEF ToSet
<1>4. ASSUME NEW i \in kept
      PROVE  \/ i \in ToSet(seen \o page)
             \/ Len(seen) + Len(page) <= Rank(S, i)
  <2>1. Rank(S, i) \in Nat
    BY RankBelowSize
  <2>. QED BY <1>1, <1>2, <1>3, <2>1 DEF NoneSkipped
<1>5. ASSUME NEW i \in kept, Len(page) < PageSize
      PROVE  i \in ToSet(seen \o page)
  <2>1. Rank(S, i) \in Nat /\ Rank(S, i) < Cardinality(S)
    BY RankBelowSize
  <2>2. Cardinality(S) <= Len(seen) + Len(page) /\ Cardinality(S) \in Nat
    BY <1>1, <1>5, PageLengths, FiniteIds
  <2>. QED BY <1>1, <1>4, <2>1, <2>2
<1>. QED BY <1>2, <1>4, <1>5 DEF NoneSkipped

LEMMA OrderReads ==
    ASSUME NEW S \in SUBSET Ids, NEW seen \in Seq(Ids), NEW page \in Seq(Ids),
           Follows(page, S, Len(seen)), Len(page) = PageLength(S, Len(seen)),
           InOrder(S, seen)
    PROVE  InOrder(S, seen \o page)
<1> DEFINE s == seen \o page
<1>1. Len(seen) \in Nat /\ Len(page) \in Nat
  OBVIOUS
<1>2. /\ Len(s) = Len(seen) + Len(page)
      /\ \A k \in 1..Len(seen) : s[k] = seen[k]
      /\ \A k \in 1..Len(page) : s[Len(seen) + k] = page[k]
  BY ReadElements
<1>. HIDE DEF s
<1>3. ASSUME NEW k \in 1..Len(s)
      PROVE  s[k] \in S /\ Rank(S, s[k]) + 1 = k
  <2>1. CASE k <= Len(seen)
    <3>1. k \in 1..Len(seen)
      BY <1>1, <2>1
    <3>. QED BY <1>2, <3>1 DEF InOrder
  <2>2. CASE ~(k <= Len(seen))
    <3> DEFINE l == k - Len(seen)
    <3>1. l \in 1..Len(page) /\ Len(seen) + l = k
      BY <1>1, <1>2, <2>2
    <3>. HIDE DEF l
    <3>2. s[k] = page[l]
      BY <1>2, <3>1
    <3>3. page[l] \in S /\ Rank(S, page[l]) + 1 = Len(seen) + l
      BY <3>1 DEF Follows
    <3>. QED BY <3>1, <3>2, <3>3
  <2>. QED BY <2>1, <2>2
<1>. QED BY <1>3 DEF InOrder, s

LEMMA OrderInjective ==
    ASSUME NEW S, NEW seen \in Seq(Ids), InOrder(S, seen)
    PROVE  IsInjective(seen)
<1>1. DOMAIN seen = 1..Len(seen)
  OBVIOUS
<1>2. \A k, l \in 1..Len(seen) : seen[k] = seen[l] => k = l
  BY DEF InOrder
<1>. QED BY <1>1, <1>2, Zenon DEF IsInjective

ReadingOK(h) ==
    LET w == work[h]
        o == watch[h]
    IN  /\ w.op = "export" /\ w.status = None
        /\ o.kept \subseteq Contents(h)
        /\ ~o.removed => NoneSkipped(Contents(h), w.seen, o.kept)
        /\ ~o.removed /\ ~o.below => InOrder(Contents(h), w.seen)

ReadOK(h) ==
    LET w == work[h]
        o == watch[h]
    IN  /\ ~o.removed => o.kept \subseteq ToSet(w.seen)
        /\ ~o.removed /\ ~o.below => IsInjective(w.seen)

ExportOK(h) ==
    /\ work[h].pc \in {"refs", "find", "query", "write", "text"}
           => work[h].op # "export"
    /\ At(h, "page") => ReadingOK(h)
    /\ Exported(h) => ReadOK(h)

\* What a step of a request about documents is to an export.
LEMMA ServeOutcome ==
    ASSUME Schema!TypeOK, WorkOK, RowsOK, NEW h \in Handlers, Serve(h),
           ExportOK(h)
    PROVE  \/ work'[h].op # "export" /\ work'[h].pc # "page"
           \/ /\ At(h, "idle") /\ UNCHANGED rows /\ work'[h].pc = "page"
              /\ work'[h].op = "export" /\ work'[h].status = None
              /\ work'[h].seen = <<>>
           \/ work'[h].pc = "reply" /\ work'[h].status = 404
           \/ ExportPage(h)
<1>1. CASE StartWrite(h) \/ StartDelete(h)
  <2>1. Text \in Data /\ {"insert", "update", "delete"} \subseteq AllDocOps
    BY TextType DEF AllDocOps
  <2>2. PICK op \in {"insert", "update", "delete"}, i \in Ids \cup {None},
             d \in Data : Start(h, op, "refs", i, d)
    BY <1>1, <2>1 DEF StartWrite, StartDelete
  <2>3. work'[h].op = op /\ work'[h].pc \in {"refs", "reply"}
    BY <2>1, <2>2, StartType
  <2>. QED BY <2>3
<1>2. CASE StartExport(h)
  <2>1. Text \in Data /\ "export" \in AllDocOps
    BY TextType DEF AllDocOps
  <2>2. Start(h, "export", "page", None, Text)
    BY <1>2 DEF StartExport
  <2>. QED BY <2>1, <2>2, StartType
<1>3. CASE ReadReferences(h) \/ FindOther(h) \/ QueryOther(h) \/ Checked(h)
  BY <1>3, CheckType DEF ExportOK
<1>4. CASE InsertRow(h) \/ InsertText(h) \/ ChangeRow(h)
  BY <1>4, WriteType DEF ExportOK
<1>5. CASE Respond(h)
  <2>1. work'[h] = Idle
    BY <1>5, IdleType, GotoType DEF Respond
  <2>. QED BY <2>1, HandlerAssumption DEF Idle, AllDocOps
<1>. QED BY <1>1, <1>2, <1>3, <1>4, <1>5 DEF Serve

\* What the history says of an export that goes on or ends well.
LEMMA WatchedExport ==
    ASSUME NEW h \in Handlers, watch'[h] = Watched(h),
           work'[h].op = "export", work'[h].status \in {None, 200}
    PROVE  LET old == Contents(h)
               new == Present(rows', work[h].coll.table)
           IN  /\ At(h, "page") =>
                    /\ watch'[h].kept = watch[h].kept \cap new
                    /\ watch'[h].removed <=> watch[h].removed \/ ~(old \subseteq new)
                    /\ watch'[h].below <=>
                          watch[h].below \/ \E i \in new \ old, j \in old : i < j
               /\ At(h, "idle") =>
                    watch'[h].kept = Present(rows', work'[h].coll.table)
               /\ At(h, "reply") => watch'[h] = watch[h]
<1> DEFINE old == Contents(h)
           new == Present(rows', work[h].coll.table)
           Moved == [kept |-> watch[h].kept \cap new,
                     removed |-> watch[h].removed \/ ~(old \subseteq new),
                     below |-> watch[h].below
                               \/ \E i \in new \ old, j \in old : i < j]
           Begun == [Unwatched EXCEPT !.kept =
                         Present(rows', work'[h].coll.table)]
<1>1. ~(work'[h].op # "export" \/ work'[h].status \notin {None, 200})
  OBVIOUS
<1>2. At(h, "page") => watch'[h] = Moved
  BY <1>1, Zenon DEF Watched, Contents
<1>3. ~At(h, "page") /\ At(h, "idle") => watch'[h] = Begun
  BY <1>1, Zenon DEF Watched
<1>4. ~At(h, "page") /\ ~At(h, "idle") => watch'[h] = watch[h]
  BY <1>1, Zenon DEF Watched
<1>5. Begun.kept = Present(rows', work'[h].coll.table)
  BY DEF Unwatched
<1>6. /\ At(h, "idle") => ~At(h, "page")
      /\ At(h, "reply") => ~At(h, "page") /\ ~At(h, "idle")
  BY DEF At
<1>. HIDE DEF Begun
<1>7. At(h, "idle") => watch'[h].kept = Present(rows', work'[h].coll.table)
  BY <1>3, <1>5, <1>6
<1>8. At(h, "reply") => watch'[h] = watch[h]
  BY <1>4, <1>6
<1>9. /\ Moved.kept = watch[h].kept \cap new
      /\ Moved.removed <=> watch[h].removed \/ ~(old \subseteq new)
      /\ Moved.below <=>
            watch[h].below \/ \E i \in new \ old, j \in old : i < j
  <2>. HIDE DEF old, new
  <2>. QED BY Zenon
<1>. HIDE DEF Moved
<1>. QED BY <1>2, <1>7, <1>8, <1>9, Zenon

\* An export that is being read stays sound whatever others do to its table.
LEMMA ExportWaits ==
    ASSUME WorkOK, WatchOK, NEW h \in Handlers, watch'[h] = Watched(h),
           work'[h] = work[h], ExportOK(h)
    PROVE  ExportOK(h)'
<1> DEFINE S == Contents(h)
           T == Present(rows', work[h].coll.table)
           w == work[h]
           o == watch[h]
<1>1. S \in SUBSET Ids /\ T \in SUBSET Ids
  BY DEF Contents, Present
<1>2. w.seen \in Seq(Ids)
  BY DEF WorkOK, Work
<1>3. CASE At(h, "page")
  <2>1. /\ w.op = "export" /\ w.status = None /\ o.kept \subseteq S
        /\ ~o.removed => NoneSkipped(S, w.seen, o.kept)
        /\ ~o.removed /\ ~o.below => InOrder(S, w.seen)
    BY <1>3, Zenon DEF ExportOK, ReadingOK
  <2>2. /\ watch'[h].kept = o.kept \cap T
        /\ watch'[h].removed <=> o.removed \/ ~(S \subseteq T)
        /\ watch'[h].below <=> o.below \/ \E i \in T \ S, j \in S : i < j
    BY <1>3, <2>1, WatchedExport
  <2>3. (Contents(h))' = T
    BY DEF Contents
  <2>. HIDE DEF S, T, w, o
  <2>4. ~watch'[h].removed => NoneSkipped(T, w.seen, watch'[h].kept)
    <3> SUFFICES ASSUME ~watch'[h].removed
                 PROVE  NoneSkipped(T, w.seen, watch'[h].kept)
      OBVIOUS
    <3>1. ~o.removed /\ S \subseteq T
      BY <2>2, Zenon
    <3>2. NoneSkipped(S, w.seen, o.kept)
      BY <2>1, <3>1, Zenon
    <3>. QED BY <1>1, <1>2, <2>1, <2>2, <3>1, <3>2, SkipMoves
  <2>5. ~watch'[h].removed /\ ~watch'[h].below => InOrder(T, w.seen)
    <3> SUFFICES ASSUME ~watch'[h].removed, ~watch'[h].below
                 PROVE  InOrder(T, w.seen)
      OBVIOUS
    <3>1. /\ ~o.removed /\ ~o.below /\ S \subseteq T
          /\ \A i \in T \ S, j \in S : ~(i < j)
      BY <2>2, Zenon
    <3>2. InOrder(S, w.seen)
      BY <2>1, <3>1, Zenon
    <3>. QED BY <1>1, <1>2, <3>1, <3>2, OrderMoves
  <2>6. watch'[h].kept \subseteq T
    BY <2>2
  <2>7. ReadingOK(h)'
    BY <2>1, <2>3, <2>4, <2>5, <2>6, Zenon DEF ReadingOK, w
  <2>. QED BY <1>3, <2>7 DEF ExportOK, At, Exported
<1>4. CASE Exported(h)
  <2>1. At(h, "reply") /\ w.op = "export" /\ w.status = 200
    BY <1>4 DEF Exported
  <2>2. watch'[h] = watch[h]
    BY <2>1, WatchedExport
  <2>3. ReadOK(h)'
    BY <1>4, <2>2, Zenon DEF ExportOK, ReadOK
  <2>. QED BY <2>1, <2>3 DEF ExportOK, At
<1>5. CASE ~At(h, "page") /\ ~Exported(h)
  BY <1>5, Zenon DEF ExportOK, At, Exported
<1>. QED BY <1>3, <1>4, <1>5

\* Its own queries carry it on.
LEMMA ExportReads ==
    ASSUME WorkOK, WatchOK, NEW h \in Handlers, watch'[h] = Watched(h),
           ExportPage(h), ExportOK(h)
    PROVE  ExportOK(h)'
<1> DEFINE w == work[h]
           v == work'[h]
           o == watch[h]
           S == Contents(h)
           page == Page(w.coll.table, Len(w.seen))
<1>1. /\ rows' = rows /\ At(h, "page") /\ v.op = w.op
      /\ \/ v.pc = "reply" /\ v.status = 500
         \/ /\ v.pc = "reply" /\ v.status = 200
            /\ v.seen = w.seen \o page /\ Len(page) < PageSize
         \/ /\ v.pc = "page" /\ v.status = w.status
            /\ v.seen = w.seen \o page /\ v.coll = w.coll
  BY ReadType
<1>2. /\ w.op = "export" /\ w.status = None /\ o.kept \subseteq S
      /\ ~o.removed => NoneSkipped(S, w.seen, o.kept)
      /\ ~o.removed /\ ~o.below => InOrder(S, w.seen)
  BY <1>1, Zenon DEF ExportOK, ReadingOK
<1>3. S \in SUBSET Ids /\ w.seen \in Seq(Ids)
  BY DEF Contents, Present, WorkOK, Work
<1>4. /\ page \in Seq(Ids) /\ Len(page) = PageLength(S, Len(w.seen))
      /\ Follows(page, S, Len(w.seen))
  <2>1. Len(w.seen) \in Nat
    BY <1>3
  <2>. QED BY <2>1, PageType, PageRanks DEF Contents
<1>5. v.status \in {None, 200} =>
        /\ watch'[h].kept = o.kept
        /\ watch'[h].removed <=> o.removed
        /\ watch'[h].below <=> o.below
  <2> SUFFICES ASSUME v.status \in {None, 200}
               PROVE  /\ watch'[h].kept = o.kept
                      /\ watch'[h].removed <=> o.removed
                      /\ watch'[h].below <=> o.below
    OBVIOUS
  <2>1. Present(rows', w.coll.table) = S
    BY <1>1 DEF Contents, Present
  <2>2. /\ watch'[h].kept = o.kept \cap S
        /\ watch'[h].removed <=> o.removed \/ ~(S \subseteq S)
        /\ watch'[h].below <=> o.below \/ \E i \in S \ S, j \in S : i < j
    <3>1. At(h, "page") /\ v.op = "export"
      BY <1>1, <1>2
    <3>. HIDE DEF page
    <3>. QED BY <2>1, <3>1, WatchedExport
  <2>3. watch'[h].removed <=> o.removed
    BY <2>2, Zenon
  <2>4. watch'[h].below <=> o.below
    BY <2>2, Zenon
  <2>. QED BY <1>2, <2>2, <2>3, <2>4
<1>. HIDE DEF S, page
<1>6. ~o.removed =>
        /\ NoneSkipped(S, w.seen \o page, o.kept)
        /\ Len(page) < PageSize => o.kept \subseteq ToSet(w.seen \o page)
  BY <1>2, <1>3, <1>4, SkipReads, Zenon
<1>7. ~o.removed /\ ~o.below => InOrder(S, w.seen \o page)
  BY <1>2, <1>3, <1>4, OrderReads, Zenon
<1>8. ~o.removed /\ ~o.below => IsInjective(w.seen \o page)
  <2>1. w.seen \o page \in Seq(Ids)
    BY <1>3, <1>4
  <2>. QED BY <1>7, <2>1, OrderInjective, Zenon
<1>9. CASE v.pc = "reply" /\ v.status = 500
  BY <1>9 DEF ExportOK, At, Exported
<1>10. CASE /\ v.pc = "reply" /\ v.status = 200
            /\ v.seen = w.seen \o page /\ Len(page) < PageSize
  <2>1. ReadOK(h)'
    BY <1>5, <1>6, <1>8, <1>10, Zenon DEF ReadOK
  <2>. QED BY <1>10, <2>1 DEF ExportOK, At
<1>11. CASE /\ v.pc = "page" /\ v.status = w.status
            /\ v.seen = w.seen \o page /\ v.coll = w.coll
  <2>1. (Contents(h))' = S
    BY <1>1, <1>11 DEF Contents, Present, S
  <2>2. v.op = "export" /\ v.status = None
    BY <1>1, <1>2, <1>11
  <2>3. ReadingOK(h)'
    BY <1>2, <1>5, <1>6, <1>7, <1>11, <2>1, <2>2, Zenon DEF ReadingOK
  <2>. QED BY <1>11, <2>3 DEF ExportOK, At, Exported
<1>. QED BY <1>1, <1>9, <1>10, <1>11

LEMMA ExportBegins ==
    ASSUME NEW h \in Handlers, watch'[h] = Watched(h), WorkOK',
           At(h, "idle"), work'[h].pc = "page", work'[h].op = "export",
           work'[h].status = None, work'[h].seen = <<>>
    PROVE  ExportOK(h)'
<1> DEFINE S == Present(rows', work'[h].coll.table)
<1>1. (Contents(h))' = S
  BY DEF Contents
<1>2. watch'[h].kept = S
  BY WatchedExport
<1>3. S \in SUBSET Ids
  BY DEF Present
<1>. HIDE DEF S
<1>4. \A i \in S : Rank(S, i) \in Nat
  BY <1>3, RankBelowSize
<1>5. Len(work'[h].seen) = 0
  OBVIOUS
<1>6. NoneSkipped(S, work'[h].seen, watch'[h].kept)
  BY <1>2, <1>4, <1>5 DEF NoneSkipped
<1>7. InOrder(S, work'[h].seen)
  BY <1>5 DEF InOrder
<1>8. ReadingOK(h)'
  BY <1>1, <1>2, <1>6, <1>7, Zenon DEF ReadingOK
<1>. QED BY <1>8 DEF ExportOK, At, Exported

\* A request does not touch the variables of another one.
LEMMA OthersWait ==
    ASSUME WorkOK, NEW g \in Handlers, NEW h \in Handlers, g # h, Serve(g)
    PROVE  work'[h] = work[h]
<1>1. ASSUME NEW w, Goto(g, w)
      PROVE  work'[h] = work[h]
  BY <1>1 DEF Goto, WorkOK
<1>2. ASSUME NEW s, Answer(g, s)
      PROVE  work'[h] = work[h]
  BY <1>1, <1>2 DEF Answer
<1>3. CASE StartWrite(g) \/ StartDelete(g) \/ StartExport(g)
  <2>1. ASSUME NEW op, NEW label, NEW i, NEW d, Start(g, op, label, i, d)
        PROVE  work'[h] = work[h]
    BY <1>1, <2>1, Zenon DEF Start
  <2>. QED BY <1>3, <2>1, Zenon DEF StartWrite, StartDelete, StartExport
<1>4. CASE ReadReferences(g) \/ Checked(g) \/ Respond(g)
  BY <1>1, <1>4, Zenon DEF ReadReferences, Checked, Respond
<1>5. CASE FindOther(g)
  BY <1>1, <1>2, <1>5, Zenon DEF FindOther
<1>6. CASE QueryOther(g)
  BY <1>1, <1>2, <1>6, Zenon DEF QueryOther
<1>7. CASE InsertRow(g) \/ InsertText(g)
  BY <1>1, <1>2, <1>7, Zenon DEF InsertRow, InsertText
<1>8. CASE ChangeRow(g)
  BY <1>2, <1>8, Zenon DEF ChangeRow
<1>9. CASE ExportPage(g)
  BY <1>1, <1>2, <1>9, Zenon DEF ExportPage
<1>. QED BY <1>3, <1>4, <1>5, <1>6, <1>7, <1>8, <1>9 DEF Serve

ExportInv == \A h \in Handlers : ExportOK(h)

LEMMA ExportStep ==
    ASSUME TypeOK, TypeOK', ExportInv, [Next]_vars
    PROVE  ExportInv'
<1> SUFFICES ASSUME NEW h \in Handlers PROVE ExportOK(h)'
  BY DEF ExportInv
<1>1. Schema!TypeOK /\ WorkOK /\ RowsOK /\ WatchOK /\ ExportOK(h)
  BY TypeParts DEF ExportInv
<1>2. WorkOK'
  BY Zenon DEF TypeOK, WorkOK, Placed
<1>3. CASE UNCHANGED vars
  <2>1. UNCHANGED <<rows, work, watch>>
    BY <1>3 DEF vars
  <2>. QED BY <1>1, <2>1 DEF ExportOK, ReadingOK, ReadOK, At, Exported,
                             Contents, Present
<1>4. CASE Next
  <2>1. watch'[h] = Watched(h)
    BY <1>4 DEF Next
  <2>2. CASE work'[h] = work[h]
    BY <1>1, <2>1, <2>2, ExportWaits
  <2>3. CASE work'[h] = Idle
    BY <2>3 DEF ExportOK, At, Exported, Idle
  <2>4. CASE Serve(h)
    <3>1. CASE work'[h].op # "export" /\ work'[h].pc # "page"
      BY <3>1 DEF ExportOK, At, Exported
    <3>2. CASE /\ At(h, "idle") /\ UNCHANGED rows /\ work'[h].pc = "page"
               /\ work'[h].op = "export" /\ work'[h].status = None
               /\ work'[h].seen = <<>>
      BY <1>2, <2>1, <3>2, ExportBegins
    <3>3. CASE work'[h].pc = "reply" /\ work'[h].status = 404
      BY <3>3 DEF ExportOK, At, Exported
    <3>4. CASE ExportPage(h)
      BY <1>1, <2>1, <3>4, ExportReads
    <3>. QED BY <1>1, <2>4, <3>1, <3>2, <3>3, <3>4, ServeOutcome
  <2>5. ASSUME NEW g \in Handlers, g # h, Serve(g)
        PROVE  work'[h] = work[h]
    BY <1>1, <2>5, OthersWait
  <2>6. ASSUME NEW p \in Procs, ServeSchema(p)
        PROVE  work'[h] = work[h]
    BY <2>6 DEF ServeSchema
  <2>7. CASE Crash
    BY <2>3, <2>7 DEF Crash
  <2>. QED BY <1>4, <2>2, <2>4, <2>5, <2>6, <2>7 DEF Next
<1>. QED BY <1>3, <1>4

LEMMA ExportInvariant == Spec => []ExportInv
<1>1. Init => ExportInv
  BY DEF Init, ExportInv, ExportOK, At, Exported, Idle
<1>. QED BY <1>1, ExportStep, StoreTypes, PTL DEF Spec

\* Pages read by the number of rows before them skip no document that was
\* there all the time, whatever is inserted, updated, created, renamed or
\* dropped between two of them, as long as nothing was removed: what comes can
\* only move a document further ahead.
THEOREM NothingSkipped == Spec => []ExportSkipsNothing
<1>1. ExportInv => ExportSkipsNothing
  BY DEF ExportInv, ExportOK, ReadOK, ExportSkipsNothing
<1>. QED BY <1>1, ExportInvariant, PTL

\* Nor do they repeat one, as long as nothing was removed and nothing inserted
\* below a document that was there: every place was read once, in order.
THEOREM NothingRepeated == Spec => []ExportRepeatsNothing
<1>1. ExportInv => ExportRepeatsNothing
  BY Zenon DEF ExportInv, ExportOK, ReadOK, ExportRepeatsNothing
<1>. QED BY <1>1, ExportInvariant, PTL

-----------------------------------------------------------------------------
(***************************************************************************)
(* References, while collections come and are renamed.  A handler that no  *)
(* rename has misled knows of every reference that concerns it: it is      *)
(* still to be looked at, being looked at, or does not stand in the way.   *)
(* Names change under it; the tables that it has looked at do not.         *)
(***************************************************************************)
Concerns(w, r) ==
    registry[IF w.op = "delete" THEN r.target ELSE r.owner] = w.coll
Looking(w, r) ==
    w.pc = "query" /\ w.ref.field = r.field /\ w.other = OtherEnd(w, r)
Dealt(w, r) ==
    LET t == OtherEnd(w, r).table IN
    IF w.op = "delete" THEN Pointing(t, r.field, w.id) = {}
    ELSE w.data[r.field] # None => w.data[r.field] \in Present(rows, t)

Covered(w, r) == r \in w.todo \/ Looking(w, r) \/ Dealt(w, r)

Knows(w) ==
    w.pc \in {"find", "query", "write"} =>
        \A r \in refs : Concerns(w, r) => Covered(w, r)

Asking(w) == w.pc \in {"refs", "find", "query", "write", "text"}
Known(c) == \E n \in Names : registry[n] # None /\ registry[n] = c

OnCourse(w) ==
    /\ w.todo \subseteq refs
    /\ w.pc = "refs" => w.name \in Names /\ registry[w.name] = w.coll
    /\ w.pc = "write" => w.todo = {}
    /\ w.pc = "text" => w.coll.vector
    /\ Asking(w) => Known(w.coll)

Employed(h) == Asking(work[h]) => work[h].op \in DocOps[h] \ {"export"}

HandlerOK(h) == Employed(h) /\ OnCourse(work[h]) /\ Knows(work[h])

ResolveInv == misled \/ (ReferencesResolve /\ \A h \in Handlers : HandlerOK(h))

(* What Catalog proves of the registry, without drops.                     *)
ItemsOf(n) == registry[n].table
Sound ==
    /\ \A r \in refs : /\ r \in Schema!Reference
                       /\ registry[r.owner] # None /\ registry[r.target] # None
    /\ \A n \in Names : registry[n] # None =>
            /\ ItemsOf(n) \in SqlTables /\ tables[ItemsOf(n)] # None
            /\ FtsOf[ItemsOf(n)] # ItemsOf(n)
    /\ \A m, n \in Names :
            (registry[m] # None /\ registry[n] # None /\ m # n) =>
                /\ ItemsOf(m) # ItemsOf(n)
                /\ registry[m].vector => FtsOf[ItemsOf(m)] # ItemsOf(n)

LEMMA SoundRegistry ==
    ASSUME Schema!TypeOK, CatP!GrowingInv
    PROVE  Sound
<1>0. /\ registry \in [Names -> CatP!Entry \cup {None}]
      /\ refs \in SUBSET Schema!Reference /\ CatP!TypeOK
  <2>1. CatP!TypeOK
    BY SameTypes
  <2>2. registry \in [Names -> CatP!Entry \cup {None}]
    BY <2>1 DEF CatP!TypeOK
  <2>3. refs \in SUBSET Schema!Reference
    BY DEF Schema!TypeOK
  <2>. QED BY <2>1, <2>2, <2>3
<1>1. /\ CatP!BackingTables /\ CatP!NoAliasing /\ CatP!Closed
  BY DEF CatP!GrowingInv
<1>2. \A r \in refs : /\ r \in Schema!Reference
                      /\ registry[r.owner] # None /\ registry[r.target] # None
  BY <1>0, <1>1 DEF CatP!Closed, CatP!Registered
<1>3. ASSUME NEW n \in Names, registry[n] # None
      PROVE  /\ ItemsOf(n) \in SqlTables /\ tables[ItemsOf(n)] # None
             /\ FtsOf[ItemsOf(n)] # ItemsOf(n)
             /\ ItemsOf(n) \in CatP!TablesOf(registry[n])
             /\ registry[n].vector =>
                    FtsOf[ItemsOf(n)] \in CatP!TablesOf(registry[n])
  <2>1. registry[n] \in CatP!Entry
    BY <1>0, <1>3
  <2>2. n \in CatP!Registered
    BY <1>3 DEF CatP!Registered
  <2>3. CatP!Backed(registry[n])
    BY <1>1, <2>2 DEF CatP!BackingTables
  <2>4. /\ ItemsOf(n) \in CatP!TablesOf(registry[n])
        /\ registry[n].vector =>
                    FtsOf[ItemsOf(n)] \in CatP!TablesOf(registry[n])
    BY DEF CatP!TablesOf, ItemsOf
  <2>5. \A t \in CatP!TablesOf(registry[n]) : tables[t] # None
    BY <1>0, <2>1, <2>3, CatalogAssumptions, CatP!BackedTables
  <2>6. ItemsOf(n) \in SqlTables /\ FtsOf[ItemsOf(n)] # ItemsOf(n)
    BY <2>1, CatalogAssumptions, CatP!EntryTables DEF ItemsOf
  <2>. QED BY <2>4, <2>5, <2>6
<1>4. ASSUME NEW m \in Names, NEW n \in Names,
             registry[m] # None, registry[n] # None, m # n
      PROVE  /\ ItemsOf(m) # ItemsOf(n)
             /\ registry[m].vector => FtsOf[ItemsOf(m)] # ItemsOf(n)
  <2>1. CatP!TablesOf(registry[m]) \cap CatP!TablesOf(registry[n]) = {}
    BY <1>1, <1>4 DEF CatP!NoAliasing, CatP!Registered
  <2>. QED BY <1>3, <1>4, <2>1
<1>. QED BY <1>2, <1>3, <1>4 DEF Sound

LEMMA GrowingRegistry ==
    ASSUME "drop" \notin Ops
    PROVE  Spec => []CatP!GrowingInv
<1>1. CatP!Spec => []CatP!TypeOK
  BY CatalogAssumptions, CatP!CatalogTypes
<1>2. CatP!Init => CatP!GrowingInv
  BY CatalogAssumptions, CatP!GrowingInit
<1>3. CatP!TypeOK /\ CatP!TypeOK' /\ CatP!GrowingInv /\ [CatP!Next]_CatP!vars
        => CatP!GrowingInv'
  BY CatalogAssumptions, CatP!GrowingStep
<1>. QED BY <1>1, <1>2, <1>3, CatalogImplemented, PTL DEF CatP!Spec

(***************************************************************************)
(* What a request about collections does to references and rows.           *)
(***************************************************************************)
\* s is what r is called after the step.
Becomes(r, s) ==
    /\ r.field = s.field
    /\ registry'[s.owner] = registry[r.owner]
    /\ registry'[s.target] = registry[r.target]
    /\ r \in refs' => s = r

\* s is a reference of a new collection.
Fresh(s) ==
    /\ Present(rows', registry'[s.owner].table) = {}
    /\ \A m \in Names : registry[m] # None => registry'[s.owner] # registry[m]

Carried ==
    /\ \A s \in refs' : Fresh(s) \/ \E r \in refs : Becomes(r, s)
    /\ \A m \in Names : registry[m] # None =>
            /\ rows'[ItemsOf(m)] = rows[ItemsOf(m)]
            /\ \E n \in Names : registry'[n] = registry[m]

\* A collection that is created is empty, and nothing references it yet.
LEMMA CreateCarries ==
    ASSUME TypeOK, Sound, NEW n \in Names, NEW vector \in BOOLEAN,
           NEW decl \in CatP!Declarations(n), CatP!Creates(n, vector),
           refs' = refs \cup decl,
           rows' = [t \in SqlTables |->
                       IF tables'[t] = tables[t] THEN rows[t] ELSE Empty]
    PROVE  Carried
<1>0. /\ MainTable[n] \in SqlTables
      /\ registry \in [Names -> Schema!Entry \cup {None}]
  <2>1. MainTable[n] \in SqlTables
    BY SchemaAssumption DEF Schema!TableAssumption
  <2>. QED BY <2>1 DEF TypeOK, Schema!TypeOK
<1>1. registry' = [registry EXCEPT
                       ![n] = [table |-> MainTable[n], vector |-> vector]]
  BY DEF CatP!Creates
<1>2. registry[n] = None /\ tables[MainTable[n]] = None
  BY DEF CatP!Creates, CatP!TableTaken
<1>3. ASSUME NEW m \in Names, registry[m] # None
      PROVE  /\ registry'[m] = registry[m] /\ registry'[n] # registry[m]
             /\ rows'[ItemsOf(m)] = rows[ItemsOf(m)]
  <2>1. ItemsOf(m) \in SqlTables /\ tables[ItemsOf(m)] # None
    BY <1>3 DEF Sound
  <2>2. registry'[m] = registry[m]
    BY <1>0, <1>1, <1>2, <1>3
  <2>3. registry'[n].table = MainTable[n]
    BY <1>0, <1>1
  <2>4. ItemsOf(m) # MainTable[n]
    BY <1>2, <2>1
  <2>5. tables'[ItemsOf(m)] = tables[ItemsOf(m)] \/ tables[ItemsOf(m)] = None
    BY <2>1, <2>4 DEF CatP!Creates, CatP!WithTables, CatP!TableTaken
  <2>. QED BY <2>1, <2>2, <2>3, <2>4, <2>5 DEF ItemsOf
<1>4. ASSUME NEW s \in refs
      PROVE  Becomes(s, s)
  BY <1>3 DEF Becomes, Sound, Schema!Reference
<1>5. ASSUME NEW s \in decl
      PROVE  Fresh(s)
  <2>1. s.owner = n
    BY CatalogAssumptions, CatP!DeclType DEF CatP!Declarations
  <2>2. registry'[n].table = MainTable[n]
    BY <1>0, <1>1
  <2>3. tables'[MainTable[n]] # None
    BY <1>0, KindsDiffer DEF CatP!Creates, CatP!WithTables
  <2>4. rows'[MainTable[n]] = Empty
    BY <1>0, <1>2, <2>3
  <2>. QED BY <1>3, <2>1, <2>2, <2>4 DEF Fresh, Present, Empty
<1>. QED BY <1>3, <1>4, <1>5 DEF Carried

\* A rename changes names, and with them the references.
LEMMA RenameCarries ==
    ASSUME TypeOK, Sound, NEW old \in Names, NEW new \in Names,
           CatP!Renames(old, new), refs' = CatP!Cascaded(old, new),
           rows' = [t \in SqlTables |->
                       IF tables'[t] = tables[t] THEN rows[t] ELSE Empty]
    PROVE  Carried
<1> DEFINE Now(n) == CatP!Renamed(n, old, new)
<1>1. ASSUME NEW n \in Names, registry[n] # None
      PROVE  Now(n) \in Names /\ registry'[Now(n)] = registry[n]
  BY <1>1 DEF CatP!Renames, CatP!Renamed
<1>2. \A n : Now(Now(n)) = Now(n)
  BY DEF CatP!Renamed
<1>3. ASSUME NEW s \in refs'
      PROVE  \E r \in refs : Becomes(r, s)
  <2>1. PICK r \in refs : s = [r EXCEPT !.owner = CatP!Renamed(@, old, new),
                                        !.target = CatP!Renamed(@, old, new)]
    BY DEF CatP!Cascaded
  <2>2. r \in Schema!Reference /\ registry[r.owner] # None
        /\ registry[r.target] # None
    BY DEF Sound
  <2>3. s.field = r.field /\ s.owner = Now(r.owner) /\ s.target = Now(r.target)
    BY <2>1, <2>2 DEF Schema!Reference
  <2>4. r.owner \in Names /\ r.target \in Names
    BY <2>2 DEF Schema!Reference
  <2>5. registry'[s.owner] = registry[r.owner]
        /\ registry'[s.target] = registry[r.target]
    BY <1>1, <2>2, <2>3, <2>4
  <2>6. ASSUME r \in refs' PROVE s = r
    <3>1. PICK q \in refs : r = [q EXCEPT !.owner = CatP!Renamed(@, old, new),
                                          !.target = CatP!Renamed(@, old, new)]
      BY <2>6 DEF CatP!Cascaded
    <3>2. q \in Schema!Reference
      BY DEF Sound
    <3>3. r.owner = Now(q.owner) /\ r.target = Now(q.target)
      BY <3>1, <3>2 DEF Schema!Reference
    <3>4. Now(r.owner) = r.owner /\ Now(r.target) = r.target
      BY <1>2, <3>3
    <3>. QED BY <2>1, <2>2, <3>4 DEF Schema!Reference
  <2>. QED BY <2>3, <2>5, <2>6 DEF Becomes
<1>4. ASSUME NEW m \in Names, registry[m] # None
      PROVE  /\ rows'[ItemsOf(m)] = rows[ItemsOf(m)]
             /\ \E n \in Names : registry'[n] = registry[m]
  <2>1. ItemsOf(m) \in SqlTables /\ tables' = tables
    BY <1>4 DEF Sound, CatP!Renames
  <2>. QED BY <1>1, <1>4, <2>1
<1>. QED BY <1>3, <1>4 DEF Carried

LEMMA SchemaCarries ==
    ASSUME TypeOK, Sound, "drop" \notin Ops, NEW p \in Procs, ServeSchema(p)
    PROVE  Carried
<1>1. rows' = [t \in SqlTables |->
                  IF tables'[t] = tables[t] THEN rows[t] ELSE Empty]
  BY DEF ServeSchema
<1>2. CatP!Serve(p) /\ CatP!TypeOK
  BY SameServe, SameTypes, TypeParts DEF ServeSchema
<1>3. CASE UNCHANGED CatP!db
  <2>1. UNCHANGED <<registry, tables, refs>>
    BY <1>3 DEF CatP!db
  <2>. QED BY <1>1, <2>1 DEF Carried, Becomes, Sound
<1>4. ASSUME NEW n \in Names, NEW vector \in BOOLEAN,
             NEW decl \in CatP!Declarations(n), CatP!Creates(n, vector),
             refs' = refs \cup decl
      PROVE  Carried
  BY <1>1, <1>4, CreateCarries
<1>5. ASSUME NEW old \in Names, NEW new \in Names,
             CatP!Renames(old, new), refs' = CatP!Cascaded(old, new)
      PROVE  Carried
  BY <1>1, <1>5, RenameCarries
<1>. QED BY <1>2, <1>3, <1>4, <1>5, CatalogAssumptions, CatP!ServeWrites

LEMMA CarriedKnowledge ==
    ASSUME Sound, Carried, NEW h \in Handlers, work'[h] = work[h], ~Misled(h),
           OnCourse(work[h]), Knows(work[h])
    PROVE  OnCourse(work[h])' /\ Knows(work[h])'
<1> DEFINE w == work[h]
<1>1. w.todo \subseteq refs'
  BY DEF Misled, OnCourse
<1>2. w.pc = "refs" => w.name \in Names /\ registry'[w.name] = w.coll
  BY DEF Misled, OnCourse, At
<1>3. Asking(w) => \E n \in Names : registry[n] # None /\ registry[n] = w.coll
  BY DEF OnCourse, Known
<1>4. Asking(w) => \E n \in Names : registry'[n] # None /\ registry'[n] = w.coll
  BY <1>3 DEF Carried
<1>5. OnCourse(work[h])'
  BY <1>1, <1>2, <1>4 DEF OnCourse, Known, Asking
<1>6. ASSUME w.pc \in {"find", "query", "write"}, NEW s \in refs',
             Concerns(work[h], s)'
      PROVE  Covered(work[h], s)'
  <2>0. registry'[IF w.op = "delete" THEN s.target ELSE s.owner] = w.coll
    BY <1>6 DEF Concerns
  <2>1. CASE Fresh(s)
    <3>1. Asking(w)
      BY <1>6 DEF Asking
    <3>2. w.op = "delete"
      BY <1>3, <2>0, <2>1, <3>1 DEF Fresh
    <3>3. Pointing(registry[s.owner].table, s.field, w.id)' = {}
      BY <2>1 DEF Fresh, Pointing
    <3>. QED BY <3>2, <3>3 DEF Covered, Dealt, OtherEnd
  <2>2. ASSUME NEW r \in refs, Becomes(r, s)
        PROVE  Covered(work[h], s)'
    <3>1. Concerns(w, r)
      BY <2>0, <2>2 DEF Becomes, Concerns
    <3>2. r \in w.todo => s \in w.todo
      BY <1>1, <2>2 DEF Becomes
    <3>3. /\ registry[r.owner] # None /\ registry[r.target] # None
          /\ r.owner \in Names /\ r.target \in Names
      BY DEF Sound, Schema!Reference
    <3>4. /\ rows'[registry[r.owner].table] = rows[registry[r.owner].table]
          /\ rows'[registry[r.target].table] = rows[registry[r.target].table]
      BY <3>3 DEF Carried, ItemsOf
    <3>5. r \in w.todo \/ Looking(w, r) \/ Dealt(w, r)
      BY <1>6, <3>1 DEF Knows, Covered
    <3>6. CASE Looking(w, r)
      BY <2>2, <3>6 DEF Covered, Looking, OtherEnd, Becomes
    <3>7. CASE Dealt(w, r) /\ w.op = "delete"
      BY <2>2, <3>4, <3>7 DEF Covered, Dealt, OtherEnd, Becomes, Pointing, Present
    <3>8. CASE Dealt(w, r) /\ w.op # "delete"
      BY <2>2, <3>4, <3>8 DEF Covered, Dealt, OtherEnd, Becomes, Present
    <3>. QED BY <3>2, <3>5, <3>6, <3>7, <3>8 DEF Covered
  <2>. QED BY <2>1, <2>2 DEF Carried
<1>7. Knows(work[h])'
  BY <1>6 DEF Knows
<1>. QED BY <1>5, <1>7

LEMMA CarriedResolve ==
    ASSUME Sound, Carried, ReferencesResolve
    PROVE  ReferencesResolve'
<1> SUFFICES ASSUME NEW s \in refs',
                    NEW i \in Present(rows', registry'[s.owner].table),
                    rows'[registry'[s.owner].table][i][s.field] # None
             PROVE  rows'[registry'[s.owner].table][i][s.field]
                        \in Present(rows', registry'[s.target].table)
  BY DEF ReferencesResolve
<1>1. ~Fresh(s)
  BY DEF Fresh
<1>2. PICK r \in refs : Becomes(r, s)
  BY <1>1 DEF Carried
<1>3. /\ registry[r.owner] # None /\ registry[r.target] # None
      /\ r.owner \in Names /\ r.target \in Names
  BY DEF Sound, Schema!Reference
<1>4. /\ rows'[registry[r.owner].table] = rows[registry[r.owner].table]
      /\ rows'[registry[r.target].table] = rows[registry[r.target].table]
  BY <1>3 DEF Carried, ItemsOf
<1>5. \A t \in {registry[r.owner].table, registry[r.target].table} :
          Present(rows', t) = Present(rows, t)
  BY <1>4 DEF Present
<1> DEFINE v == rows[registry[r.owner].table][i][r.field]
<1>6. /\ i \in Present(rows, registry[r.owner].table) /\ v # None
      /\ rows'[registry'[s.owner].table][i][s.field] = v
  BY <1>2, <1>4, <1>5 DEF Becomes
<1>7. v \in Present(rows, registry[r.target].table)
  BY <1>3, <1>6 DEF ReferencesResolve
<1>. QED BY <1>2, <1>5, <1>6, <1>7 DEF Becomes

(***************************************************************************)
(* What a request about a document does to the rows of collections.        *)
(***************************************************************************)
Spares ==
    \A m \in Names : registry[m] # None => rows'[ItemsOf(m)] = rows[ItemsOf(m)]

\* The row of w's document becomes d; every other row stays.
Sets(w, d) ==
    \A m \in Names : registry[m] # None =>
        rows'[ItemsOf(m)] = IF ItemsOf(m) = w.coll.table
                            THEN [rows[ItemsOf(m)] EXCEPT ![w.id] = d]
                            ELSE rows[ItemsOf(m)]

LEMMA SparesCarries ==
    ASSUME Sound, UNCHANGED schema, Spares
    PROVE  Carried
BY DEF Sound, schema, Spares, Carried, Becomes

\* Only the table of a collection that is known is written to.
LEMMA WriteEffect ==
    ASSUME Sound, RowsOK, WorkOK, NEW h \in Handlers, OnCourse(work[h]),
           InsertRow(h) \/ InsertText(h) \/ ChangeRow(h)
    PROVE  \/ Spares
           \/ /\ At(h, "write") /\ work[h].op \in {"insert", "update"}
              /\ Sets(work[h], work[h].data)
           \/ At(h, "write") /\ work[h].op = "delete" /\ Sets(work[h], None)
<1> DEFINE w == work[h]
<1>1. Asking(w)
  BY DEF InsertRow, InsertText, ChangeRow, At, Asking
<1>2. PICK n \in Names : registry[n] # None /\ registry[n] = w.coll
  BY <1>1 DEF OnCourse, Known
<1>3. \A m \in Names : registry[m] # None =>
          /\ ItemsOf(m) \in SqlTables
          /\ w.coll.vector => ItemsOf(m) # FtsOf[w.coll.table]
  BY <1>2 DEF Sound, ItemsOf
<1>4. CASE UNCHANGED rows
  BY <1>4 DEF Spares
<1>5. CASE InsertRow(h) /\ ~UNCHANGED rows
  <2>1. /\ At(h, "write") /\ w.op = "insert"
        /\ rows' = [rows EXCEPT ![w.coll.table][w.id] = w.data]
    BY <1>5 DEF InsertRow
  <2>2. Sets(w, w.data)
    BY <1>3, <2>1 DEF Sets, RowsOK
  <2>. QED BY <2>1, <2>2
<1>6. CASE InsertText(h) /\ ~UNCHANGED rows
  <2>1. w.coll.vector
    BY <1>6 DEF InsertText, At, OnCourse
  <2>2. rows' = [rows EXCEPT ![FtsOf[w.coll.table]][w.id] = Text]
    BY <1>6 DEF InsertText
  <2>3. Spares
    BY <1>3, <2>1, <2>2 DEF Spares, RowsOK
  <2>. QED BY <2>3
<1>7. CASE ChangeRow(h) /\ ~UNCHANGED rows
  <2>1. /\ At(h, "write") /\ w.op \in {"update", "delete"}
        /\ rows' = IF w.op = "update" THEN Replaced(w, w.data, Text)
                                      ELSE Replaced(w, None, None)
    BY <1>7 DEF ChangeRow
  <2>2. ASSUME NEW row, NEW text, rows' = Replaced(w, row, text)
        PROVE  Sets(w, row)
    BY <1>3, <2>2 DEF Sets, Replaced, RowsOK
  <2>. QED BY <2>1, <2>2
<1>. QED BY <1>4, <1>5, <1>6, <1>7

\* A row that was looked at may be stored.
LEMMA SetPresent ==
    ASSUME RowsOK, Sound, NEW w, NEW d \in Data \cup {None}, Sets(w, d),
           NEW m \in Names, registry[m] # None
    PROVE  /\ d # None => Present(rows, ItemsOf(m)) \subseteq
                              Present(rows', ItemsOf(m))
           /\ d = None => \A i \in Present(rows, ItemsOf(m)) :
                  i \in Present(rows', ItemsOf(m))
                  \/ (i = w.id /\ ItemsOf(m) = w.coll.table)
           /\ d = None => Present(rows', ItemsOf(m)) \subseteq
                              Present(rows, ItemsOf(m))
           /\ \A i \in Present(rows', ItemsOf(m)) :
                  \/ /\ i \in Present(rows, ItemsOf(m))
                     /\ rows'[ItemsOf(m)][i] = rows[ItemsOf(m)][i]
                  \/ /\ i = w.id /\ ItemsOf(m) = w.coll.table
                     /\ d # None /\ rows'[ItemsOf(m)][i] = d
<1> DEFINE t == ItemsOf(m)
<1>1. t \in SqlTables /\ rows[t] \in [Ids -> Data \cup {None}]
  BY DEF Sound, RowsOK
<1>2. rows'[t] = IF t = w.coll.table THEN [rows[t] EXCEPT ![w.id] = d]
                 ELSE rows[t]
  BY DEF Sets
<1>3. \A i \in Ids :
        rows'[t][i] = IF i = w.id /\ t = w.coll.table THEN d ELSE rows[t][i]
  <2>. HIDE DEF t
  <2>. QED BY <1>1, <1>2
<1>. HIDE DEF t
<1>. QED BY <1>3 DEF Present, t

LEMMA SetResolves ==
    ASSUME RowsOK, WorkOK, Sound, UNCHANGED schema, NEW h \in Handlers,
           OnCourse(work[h]), Knows(work[h]), At(h, "write"), ReferencesResolve,
           \/ work[h].op # "delete" /\ Sets(work[h], work[h].data)
           \/ work[h].op = "delete" /\ Sets(work[h], None)
    PROVE  ReferencesResolve'
<1> DEFINE w == work[h]
<1>1. w \in Work /\ w.data \in Data /\ w.data # None
  BY DataAssumption DEF WorkOK, Work
<1>2. w.pc = "write" /\ w.todo = {}
  BY DEF At, OnCourse
<1>3. PICK n \in Names : registry[n] # None /\ registry[n] = w.coll
  BY <1>2 DEF OnCourse, Asking, Known
<1>4. SUFFICES ASSUME NEW r \in refs,
                      NEW i \in Present(rows', ItemsOf(r.owner)),
                      rows'[ItemsOf(r.owner)][i][r.field] # None
               PROVE  rows'[ItemsOf(r.owner)][i][r.field]
                          \in Present(rows', ItemsOf(r.target))
  BY DEF ReferencesResolve, schema, ItemsOf
<1>5. /\ r.owner \in Names /\ r.target \in Names
      /\ registry[r.owner] # None /\ registry[r.target] # None
  BY DEF Sound, Schema!Reference
<1>6. \A m \in Names : registry[m] # None /\ ItemsOf(m) = w.coll.table
                        => registry[m] = w.coll
  BY <1>3 DEF Sound, ItemsOf
<1>7. ASSUME NEW v, v # None, NEW j \in Present(rows, ItemsOf(r.owner)),
             rows[ItemsOf(r.owner)][j][r.field] = v
      PROVE  v \in Present(rows, ItemsOf(r.target))
  BY <1>5, <1>7 DEF ReferencesResolve, ItemsOf
<1>8. Concerns(w, r) => Dealt(w, r)
  BY <1>2 DEF Knows, Covered, Looking
<1>9. CASE w.op # "delete"
  <2>1. Sets(w, w.data)
    BY <1>9
  <2>2. Present(rows, ItemsOf(r.target)) \subseteq Present(rows', ItemsOf(r.target))
    BY <1>1, <1>5, <2>1, SetPresent
  <2>3. \/ /\ i \in Present(rows, ItemsOf(r.owner))
           /\ rows'[ItemsOf(r.owner)][i] = rows[ItemsOf(r.owner)][i]
        \/ /\ ItemsOf(r.owner) = w.coll.table
           /\ rows'[ItemsOf(r.owner)][i] = w.data
    BY <1>1, <1>5, <2>1, SetPresent
  <2>4. ASSUME ItemsOf(r.owner) = w.coll.table,
               rows'[ItemsOf(r.owner)][i] = w.data
        PROVE  w.data[r.field] \in Present(rows, ItemsOf(r.target))
    <3>1. Concerns(w, r)
      BY <1>5, <1>6, <1>9, <2>4 DEF Concerns
    <3>. QED BY <1>4, <1>8, <1>9, <2>4, <3>1 DEF Dealt, OtherEnd, ItemsOf
  <2>. QED BY <1>4, <1>7, <2>2, <2>3, <2>4
<1>10. CASE w.op = "delete"
  <2>1. Sets(w, None)
    BY <1>10
  <2>2. /\ i \in Present(rows, ItemsOf(r.owner))
        /\ rows'[ItemsOf(r.owner)][i] = rows[ItemsOf(r.owner)][i]
    BY <1>5, <2>1, SetPresent
  <2> DEFINE v == rows[ItemsOf(r.owner)][i][r.field]
  <2>3. v \in Present(rows, ItemsOf(r.target))
    BY <1>4, <1>7, <2>2
  <2>4. ASSUME v = w.id, ItemsOf(r.target) = w.coll.table
        PROVE  FALSE
    <3>1. Concerns(w, r)
      BY <1>5, <1>6, <1>10, <2>4 DEF Concerns
    <3>. QED BY <1>8, <1>10, <2>2, <2>4, <3>1
             DEF Dealt, OtherEnd, ItemsOf, Pointing
  <2>5. v \in Present(rows', ItemsOf(r.target))
    BY <1>5, <2>1, <2>3, <2>4, SetPresent
  <2>. QED BY <2>2, <2>5
<1>. QED BY <1>9, <1>10

(***************************************************************************)
(* What the other requests know, and what this one learns.                 *)
(***************************************************************************)
\* Deletes by some requests and writes by others do not overlap.
DeletesApart ==
    \A g, h \in Handlers :
        g # h /\ "delete" \in DocOps[g] => DocOps[h] \cap {"insert", "update"} = {}

LEMMA SetKnowledge ==
    ASSUME RowsOK, Sound, UNCHANGED schema, NEW w, NEW d \in Data \cup {None},
           Sets(w, d), NEW g \in Handlers, work'[g] = work[g],
           OnCourse(work[g]), Knows(work[g]),
           Asking(work[g]) => (work[g].op = "delete" <=> d = None)
    PROVE  OnCourse(work[g])' /\ Knows(work[g])'
<1> DEFINE v == work[g]
<1>1. OnCourse(work[g])'
  BY DEF OnCourse, Known, Asking, schema
<1>2. ASSUME v.pc \in {"find", "query", "write"}, NEW r \in refs, Concerns(v, r)
      PROVE  Covered(work[g], r)'
  <2>0. v.op = "delete" <=> d = None
    BY <1>2 DEF Asking
  <2>1. /\ r.owner \in Names /\ r.target \in Names
        /\ registry[r.owner] # None /\ registry[r.target] # None
    BY DEF Sound, Schema!Reference
  <2>2. r \in v.todo \/ Looking(v, r) \/ Dealt(v, r)
    BY <1>2 DEF Knows, Covered
  <2>3. CASE r \in v.todo \/ Looking(v, r)
    BY <2>3 DEF Covered, Looking, OtherEnd, schema
  <2>4. CASE Dealt(v, r) /\ v.op # "delete"
    <3>1. Present(rows, ItemsOf(r.target)) \subseteq
              Present(rows', ItemsOf(r.target))
      BY <2>0, <2>1, <2>4, SetPresent
    <3>. QED BY <2>4, <3>1 DEF Covered, Dealt, OtherEnd, schema, ItemsOf
  <2>5. CASE Dealt(v, r) /\ v.op = "delete"
    <3>1. \A i \in Present(rows', ItemsOf(r.owner)) :
              /\ i \in Present(rows, ItemsOf(r.owner))
              /\ rows'[ItemsOf(r.owner)][i] = rows[ItemsOf(r.owner)][i]
      BY <2>0, <2>1, <2>5, SetPresent
    <3>2. Pointing(registry[r.owner].table, r.field, v.id)' = {}
      <4>1. Pointing(ItemsOf(r.owner), r.field, v.id) = {}
        BY <2>5 DEF Dealt, OtherEnd, ItemsOf
      <4>. QED BY <3>1, <4>1 DEF Pointing, ItemsOf, schema
    <3>. QED BY <2>5, <3>2 DEF Covered, Dealt, OtherEnd, schema, ItemsOf
  <2>. QED BY <2>2, <2>3, <2>4, <2>5
<1>3. Knows(work[g])'
  BY <1>2 DEF Knows, Concerns, schema
<1>. QED BY <1>1, <1>3

LEMMA Went ==
    ASSUME WorkOK, NEW h \in Handlers, NEW v, Goto(h, v)
    PROVE  work'[h] = v
BY DEF WorkOK, Goto

LEMMA Quiet ==
    ASSUME NEW h \in Handlers, UNCHANGED schema, ~Asking(work'[h]),
           work'[h].todo \subseteq refs
    PROVE  HandlerOK(h)'
BY DEF HandlerOK, Employed, OnCourse, Knows, Asking, schema

LEMMA AnswerQuiet ==
    ASSUME WorkOK, NEW h \in Handlers, UNCHANGED schema,
           NEW w, NEW s, Goto(h, Answered(w, s))
    PROVE  HandlerOK(h)'
<1>1. work'[h] = Answered(w, s)
  BY Went
<1>2. Answered(w, s).pc = "reply" /\ Answered(w, s).todo = {}
  BY DEF Answered, Idle
<1>. QED BY <1>1, <1>2, Quiet DEF Asking

LEMMA StartKnows ==
    ASSUME Schema!TypeOK, WorkOK, NEW h \in Handlers, NEW op \in AllDocOps,
           NEW label \in {"refs", "page"}, NEW i, NEW d,
           Start(h, op, label, i, d), label = "refs" => op # "export"
    PROVE  HandlerOK(h)'
<1>1. UNCHANGED schema
  BY DEF Start
<1>2. PICK n \in Names :
        Goto(h, IF registry[n] = None
                THEN Answered([Idle EXCEPT !.pc = label, !.op = op, !.name = n,
                                  !.coll = registry[n], !.id = i, !.data = d], 404)
                ELSE [Idle EXCEPT !.pc = label, !.op = op, !.name = n,
                                  !.coll = registry[n], !.id = i, !.data = d])
  BY DEF Start
<1> DEFINE v == [Idle EXCEPT !.pc = label, !.op = op, !.name = n,
                             !.coll = registry[n], !.id = i, !.data = d]
<1>3. /\ v.pc = label /\ v.op = op /\ v.name = n /\ v.coll = registry[n]
      /\ v.todo = {}
  BY DEF Idle
<1>4. op \in DocOps[h]
  BY DEF Start
<1>. HIDE DEF v
<1>5. CASE registry[n] = None
  <2>1. Goto(h, Answered(v, 404))
    BY <1>2, <1>5 DEF v
  <2>. QED BY <1>1, <2>1, AnswerQuiet
<1>6. CASE registry[n] # None
  <2>1. Goto(h, v)
    BY <1>2, <1>6 DEF v
  <2>2. work'[h] = v
    BY <2>1, Went
  <2>. QED BY <1>1, <1>3, <1>4, <1>6, <2>2
           DEF HandlerOK, Employed, OnCourse, Knows, Asking, Known, schema
<1>. QED BY <1>5, <1>6

LEMMA AskKnows ==
    ASSUME UNCHANGED <<schema, rows>>, NEW h \in Handlers, HandlerOK(h),
           NEW v, work'[h] = v, v.op = work[h].op, v.coll = work[h].coll,
           Asking(work[h]), v.pc \in {"find", "query", "write"},
           v.todo \subseteq refs, v.pc = "write" => v.todo = {},
           \A r \in refs : Concerns(work[h], r) => Covered(v, r)
    PROVE  HandlerOK(h)'
<1>1. Employed(h)'
  BY DEF HandlerOK, Employed, Asking
<1>2. OnCourse(work[h])'
  BY DEF HandlerOK, OnCourse, Asking, Known, schema
<1>3. ASSUME NEW r \in refs, Concerns(work[h], r)'
      PROVE  Covered(work[h], r)'
  <2>1. Concerns(work[h], r)
    BY <1>3 DEF Concerns, schema
  <2>2. Covered(v, r)
    BY <2>1
  <2>. QED BY <2>2 DEF Covered, Looking, Dealt, OtherEnd, Pointing, Present,
                       schema
<1>4. Knows(work[h])'
  BY <1>3 DEF Knows, schema
<1>. QED BY <1>1, <1>2, <1>4 DEF HandlerOK

LEMMA CheckKnows ==
    ASSUME Schema!TypeOK, WorkOK, Sound, NEW h \in Handlers, HandlerOK(h),
           ReadReferences(h) \/ FindOther(h) \/ QueryOther(h) \/ Checked(h)
    PROVE  HandlerOK(h)'
<1> DEFINE w == work[h]
<1>1. w \in Work /\ w = work[h]
  BY DEF WorkOK
<1>2. UNCHANGED <<schema, rows>> /\ UNCHANGED schema
  BY DEF ReadReferences, FindOther, QueryOther, Checked
<1>3. Asking(w)
  BY DEF Asking, At, ReadReferences, FindOther, QueryOther, Checked
<1>4. w.todo \subseteq refs
  BY DEF HandlerOK, OnCourse
<1>5. w.pc \in {"find", "query"} => \A r \in refs : Concerns(w, r) => Covered(w, r)
  BY DEF HandlerOK, Knows
<1>6. /\ w.pc = "refs" => w.name \in Names /\ registry[w.name] = w.coll
      /\ w.coll # None
  BY <1>3 DEF HandlerOK, OnCourse, Known
<1>7. \A r \in refs : /\ r.owner \in Names /\ r.target \in Names
                      /\ registry[r.owner] # None /\ registry[r.target] # None
  BY DEF Sound, Schema!Reference
<1>. HIDE DEF w
<1>8. CASE ReadReferences(h)
  <2> DEFINE T == IF w.op = "delete" THEN {r \in refs : r.target = w.name}
                  ELSE {r \in refs : r.owner = w.name /\ w.data[r.field] # None}
             v == [w EXCEPT !.pc = "find", !.todo = T]
  <2>1. Goto(h, v) /\ w.pc = "refs"
    BY <1>1, <1>8 DEF ReadReferences, At
  <2>2. work'[h] = v
    BY <2>1, Went
  <2>3. /\ v.op = w.op /\ v.coll = w.coll /\ v.pc = "find" /\ v.todo = T
        /\ v.data = w.data /\ v.id = w.id
    BY <1>1 DEF Work
  <2>4. T \subseteq refs
    OBVIOUS
  <2>5. ASSUME NEW r \in refs, Concerns(w, r)
        PROVE  Covered(v, r)
    <3>1. w.name = IF w.op = "delete" THEN r.target ELSE r.owner
      BY <1>6, <1>7, <2>1, <2>5 DEF Concerns, Sound, ItemsOf
    <3>2. r \in T \/ (w.op # "delete" /\ w.data[r.field] = None)
      BY <3>1
    <3>. HIDE DEF T, v
    <3>. QED BY <2>3, <3>2 DEF Covered, Dealt
  <2>. HIDE DEF T, v
  <2>. QED BY <1>1, <1>2, <1>3, <2>2, <2>3, <2>4, <2>5, AskKnows
<1>9. CASE FindOther(h)
  <2>1. w.pc = "find"
    BY <1>1, <1>9 DEF FindOther, At
  <2>2. PICK r \in w.todo :
            \/ Goto(h, [w EXCEPT !.pc = "query", !.todo = @ \ {r}, !.ref = r,
                                 !.other = OtherEnd(w, r)])
            \/ OtherEnd(w, r) = None
    BY <1>1, <1>9, Zenon DEF FindOther
  <2>3. OtherEnd(w, r) # None
    BY <1>4, <1>7 DEF OtherEnd
  <2> DEFINE v == [w EXCEPT !.pc = "query", !.todo = @ \ {r}, !.ref = r,
                            !.other = OtherEnd(w, r)]
  <2>4. work'[h] = v
    BY <2>2, <2>3, Went
  <2>5. /\ v.op = w.op /\ v.coll = w.coll /\ v.pc = "query"
        /\ v.todo = w.todo \ {r} /\ v.ref = r /\ v.other = OtherEnd(w, r)
        /\ v.data = w.data /\ v.id = w.id
    BY <1>1 DEF Work
  <2>6. ASSUME NEW s \in refs, Concerns(w, s)
        PROVE  Covered(v, s)
    <3>1. s \in w.todo \/ Dealt(w, s)
      BY <1>5, <2>1, <2>6 DEF Covered, Looking
    <3>. HIDE DEF v
    <3>. QED BY <2>5, <3>1 DEF Covered, Looking, Dealt, OtherEnd
  <2>7. v.todo \subseteq refs
    BY <1>4, <2>5
  <2>. HIDE DEF v
  <2>. QED BY <1>1, <1>2, <1>3, <2>4, <2>5, <2>6, <2>7, AskKnows
<1>10. CASE QueryOther(h)
  <2> DEFINE v == [w EXCEPT !.pc = "find", !.ref = None, !.other = None]
             t == w.other.table
             found == IF w.op = "delete"
                      THEN Pointing(t, w.ref.field, w.id) # {}
                      ELSE w.data[w.ref.field] \in Present(rows, t)
  <2>1. w.pc = "query"
    BY <1>1, <1>10 DEF QueryOther, At
  <2>2. \/ \E s : Answer(h, s)
        \/ (found <=> w.op # "delete") /\ Goto(h, v)
    BY <1>1, <1>10, Zenon DEF QueryOther
  <2>3. CASE \E s : Answer(h, s)
    BY <1>2, <2>3, AnswerQuiet DEF Answer
  <2>4. CASE (found <=> w.op # "delete") /\ Goto(h, v)
    <3>1. work'[h] = v
      BY <2>4, Went
    <3>2. /\ v.op = w.op /\ v.coll = w.coll /\ v.pc = "find"
          /\ v.todo = w.todo /\ v.data = w.data /\ v.id = w.id
      BY <1>1 DEF Work
    <3>3. ASSUME NEW s \in refs, Concerns(w, s)
          PROVE  Covered(v, s)
      <4>1. s \in w.todo \/ Looking(w, s) \/ Dealt(w, s)
        BY <1>5, <2>1, <3>3 DEF Covered
      <4>2. Looking(w, s) => Dealt(w, s)
        BY <2>4 DEF Looking, Dealt
      <4>3. Dealt(w, s) => Dealt(v, s)
        BY <3>2 DEF Dealt, OtherEnd
      <4>. QED BY <3>2, <4>1, <4>2, <4>3 DEF Covered
    <3>4. v.todo \subseteq refs
      BY <1>4, <3>2
    <3>. HIDE DEF v
    <3>. QED BY <1>1, <1>2, <1>3, <3>1, <3>2, <3>3, <3>4, AskKnows
  <2>. QED BY <2>2, <2>3, <2>4
<1>11. CASE Checked(h)
  <2> DEFINE v == [w EXCEPT !.pc = "write"]
  <2>1. w.pc = "find" /\ w.todo = {} /\ Goto(h, v)
    BY <1>1, <1>11 DEF Checked, At
  <2>2. work'[h] = v
    BY <2>1, Went
  <2>3. /\ v.op = w.op /\ v.coll = w.coll /\ v.pc = "write"
        /\ v.todo = {} /\ v.data = w.data /\ v.id = w.id
    BY <1>1, <2>1 DEF Work
  <2>4. ASSUME NEW s \in refs, Concerns(w, s)
        PROVE  Covered(v, s)
    <3>1. Dealt(w, s)
      BY <1>5, <2>1, <2>4 DEF Covered, Looking
    <3>. HIDE DEF v
    <3>. QED BY <2>3, <3>1 DEF Covered, Dealt, OtherEnd
  <2>. HIDE DEF v
  <2>. QED BY <1>1, <1>2, <1>3, <2>2, <2>3, <2>4, AskKnows
<1>. QED BY <1>8, <1>9, <1>10, <1>11

\* A step of a request about a document.
LEMMA OwnKnows ==
    ASSUME Schema!TypeOK, WorkOK, RowsOK, Sound, NEW h \in Handlers, HandlerOK(h),
           Serve(h)
    PROVE  HandlerOK(h)'
<1> DEFINE w == work[h]
<1>1. w \in Work /\ w = work[h] /\ w.todo \subseteq refs
  BY DEF WorkOK, HandlerOK, OnCourse
<1>2. UNCHANGED schema
  BY ServeType
<1>. HIDE DEF w
<1>3. CASE StartWrite(h) \/ StartDelete(h) \/ StartExport(h)
  <2>1. /\ {"insert", "update", "delete", "export"} \subseteq AllDocOps
        /\ "export" \notin {"insert", "update", "delete"} /\ "page" # "refs"
    BY DEF AllDocOps
  <2>2. PICK op \in AllDocOps, label \in {"refs", "page"} : \E i, d :
            Start(h, op, label, i, d) /\ (label = "refs" => op # "export")
    BY <1>3, <2>1 DEF StartWrite, StartDelete, StartExport
  <2>. QED BY <2>2, StartKnows
<1>4. CASE ReadReferences(h) \/ FindOther(h) \/ QueryOther(h) \/ Checked(h)
  BY <1>4, CheckKnows
<1>5. ASSUME NEW s, Answer(h, s) PROVE HandlerOK(h)'
  BY <1>2, <1>5, AnswerQuiet DEF Answer
<1>6. CASE InsertRow(h)
  <2> DEFINE v == [w EXCEPT !.pc = "text"]
  <2>1. \/ \E s : Answer(h, s)
        \/ w.coll.vector /\ Goto(h, v)
    BY <1>1, <1>6 DEF InsertRow, Answer
  <2>2. CASE w.coll.vector /\ Goto(h, v)
    <3>1. work'[h] = v
      BY <2>2, Went
    <3>2. /\ v.op = w.op /\ v.coll = w.coll /\ v.pc = "text"
          /\ v.todo = w.todo
      BY <1>1 DEF Work
    <3>3. w.pc = "write"
      BY <1>1, <1>6 DEF InsertRow, At
    <3>. HIDE DEF v
    <3>. QED BY <1>1, <1>2, <2>2, <3>1, <3>2, <3>3
             DEF HandlerOK, Employed, OnCourse, Knows, Asking, Known, schema
  <2>. QED BY <1>5, <2>1, <2>2
<1>7. CASE InsertText(h)
  <2>1. Answer(h, 201) \/ Answer(h, 500)
    BY <1>7, Zenon DEF InsertText
  <2>. QED BY <1>5, <2>1
<1>8. CASE ChangeRow(h)
  <2>1. \E s : Answer(h, s)
    BY <1>8, Zenon DEF ChangeRow
  <2>. QED BY <1>5, <2>1
<1>9. CASE ExportPage(h)
  <2> DEFINE v == [w EXCEPT !.seen = @ \o Page(w.coll.table, Len(w.seen))]
  <2>1. \/ \E s : Answer(h, s)
        \/ Goto(h, Answered(v, 200))
        \/ Goto(h, v)
    BY <1>1, <1>9, Zenon DEF ExportPage
  <2>2. w.pc = "page"
    BY <1>1, <1>9 DEF ExportPage, At
  <2>3. v.pc = "page" /\ v.todo = w.todo
    BY <1>1, <2>2 DEF Work
  <2>. HIDE DEF v
  <2>4. CASE Goto(h, v)
    <3>1. work'[h] = v
      BY <2>4, Went
    <3>. QED BY <1>1, <1>2, <2>3, <3>1, Quiet DEF Asking
  <2>. QED BY <1>2, <1>5, <2>1, <2>4, AnswerQuiet
<1>10. CASE Respond(h)
  <2>1. work'[h] = Idle
    BY <1>10, Went DEF Respond
  <2>. QED BY <1>2, <2>1, Quiet DEF Idle, Asking
<1>. QED BY <1>3, <1>4, <1>6, <1>7, <1>8, <1>9, <1>10 DEF Serve

LEMMA ResolveServe ==
    ASSUME TypeOK, Sound, DeletesApart, NEW h \in Handlers, Serve(h),
           ReferencesResolve, \A g \in Handlers : HandlerOK(g)
    PROVE  ReferencesResolve' /\ \A g \in Handlers : HandlerOK(g)'
<1>1. Schema!TypeOK /\ WorkOK /\ RowsOK
  BY TypeParts
<1>2. UNCHANGED schema
  BY <1>1, ServeType
<1>3. HandlerOK(h)'
  BY <1>1, OwnKnows
<1>4. \A g \in Handlers : g # h => work'[g] = work[g]
  BY <1>1, OthersWait
<1>5. ASSUME NEW g \in Handlers, g # h
      PROVE  Employed(g)'
  BY <1>4, <1>5 DEF HandlerOK, Employed
<1>6. CASE Spares
  <2>1. Carried
    BY <1>2, <1>6, SparesCarries
  <2>2. ReferencesResolve'
    BY <2>1, CarriedResolve
  <2>3. \A g \in Handlers : ~Misled(g)
    BY <1>2 DEF Misled, schema
  <2>4. ASSUME NEW g \in Handlers, g # h
        PROVE  OnCourse(work[g])' /\ Knows(work[g])'
    BY <1>4, <2>1, <2>3, <2>4, CarriedKnowledge DEF HandlerOK
  <2>. QED BY <1>3, <1>5, <2>2, <2>4 DEF HandlerOK
<1>7. ASSUME NEW d \in Data \cup {None}, Sets(work[h], d), At(h, "write"),
             \/ /\ work[h].op \in {"insert", "update"}
                /\ d = work[h].data /\ d # None
             \/ work[h].op = "delete" /\ d = None
      PROVE  ReferencesResolve' /\ \A g \in Handlers : HandlerOK(g)'
  <2>1. ReferencesResolve'
    BY <1>1, <1>2, <1>7, SetResolves DEF HandlerOK
  <2>2. work[h].op \in DocOps[h]
    BY <1>7 DEF HandlerOK, Employed, Asking, At
  <2>3. ASSUME NEW g \in Handlers, g # h
        PROVE  OnCourse(work[g])' /\ Knows(work[g])'
    <3>1. Asking(work[g]) => work[g].op \in {"insert", "update", "delete"}
                              /\ work[g].op \in DocOps[g]
      BY HandlerAssumption DEF HandlerOK, Employed, AllDocOps
    <3>2. Asking(work[g]) => (work[g].op = "delete" <=> d = None)
      BY <1>7, <2>2, <2>3, <3>1 DEF DeletesApart
    <3>. QED BY <1>1, <1>2, <1>4, <1>7, <2>3, <3>2, SetKnowledge DEF HandlerOK
  <2>. QED BY <1>3, <1>5, <2>1, <2>3 DEF HandlerOK
<1>8. CASE InsertRow(h) \/ InsertText(h) \/ ChangeRow(h)
  <2>1. work[h].data \in Data /\ work[h].data # None
    BY <1>1, DataAssumption DEF WorkOK, Work
  <2>. QED BY <1>1, <1>6, <1>7, <1>8, <2>1, WriteEffect DEF HandlerOK
<1>9. CASE ~(InsertRow(h) \/ InsertText(h) \/ ChangeRow(h))
  <2>1. UNCHANGED rows
    BY <1>9, Zenon DEF Serve, StartWrite, StartDelete, StartExport, Start,
                  ReadReferences, FindOther, QueryOther, Checked, ExportPage,
                  Respond
  <2>. QED BY <1>6, <2>1 DEF Spares
<1>. QED BY <1>8, <1>9

LEMMA ResolveStep ==
    ASSUME TypeOK, CatP!GrowingInv, "drop" \notin Ops, DeletesApart,
           ResolveInv, [Next]_vars
    PROVE  ResolveInv'
<1>0. Schema!TypeOK /\ WorkOK /\ RowsOK /\ Sound
  BY TypeParts, SoundRegistry
<1>1. CASE UNCHANGED vars
  <2>1. UNCHANGED <<registry, tables, refs, rows, work, misled>>
    BY <1>1 DEF vars, schema
  <2>2. ReferencesResolve => ReferencesResolve'
    BY <2>1 DEF ReferencesResolve, Present
  <2>3. ASSUME NEW h \in Handlers, HandlerOK(h)
        PROVE  HandlerOK(h)'
    BY <2>1, <2>3 DEF HandlerOK, Employed, OnCourse, Knows, Concerns, Covered,
                      Looking, Dealt, OtherEnd, Pointing, Present, Asking, Known
  <2>. QED BY <2>1, <2>2, <2>3, Zenon DEF ResolveInv
<1>2. CASE Next
  <2> SUFFICES ASSUME ~misled'
               PROVE  ReferencesResolve' /\ \A h \in Handlers : HandlerOK(h)'
    BY Zenon DEF ResolveInv
  <2>1. ~misled /\ \A h \in Handlers : ~Misled(h)
    BY <1>2, Zenon DEF Next
  <2>2. ReferencesResolve /\ \A h \in Handlers : HandlerOK(h)
    BY <2>1 DEF ResolveInv
  <2>3. ASSUME NEW h \in Handlers, Serve(h)
        PROVE  ReferencesResolve' /\ \A g \in Handlers : HandlerOK(g)'
    BY <1>0, <2>2, <2>3, ResolveServe
  <2>4. ASSUME NEW p \in Procs, ServeSchema(p)
        PROVE  ReferencesResolve' /\ \A h \in Handlers : HandlerOK(h)'
    <3>1. Carried /\ UNCHANGED work
      BY <1>0, <2>4, SchemaCarries DEF ServeSchema
    <3>2. ReferencesResolve'
      BY <1>0, <2>2, <3>1, CarriedResolve
    <3>3. ASSUME NEW h \in Handlers
          PROVE  HandlerOK(h)'
      <4>1. OnCourse(work[h])' /\ Knows(work[h])'
        BY <1>0, <2>1, <2>2, <3>1, CarriedKnowledge DEF HandlerOK
      <4>2. Employed(h)'
        BY <2>2, <3>1 DEF HandlerOK, Employed
      <4>. QED BY <4>1, <4>2 DEF HandlerOK
    <3>. QED BY <3>2, <3>3
  <2>5. CASE Crash
    <3>1. UNCHANGED <<registry, tables, refs, rows>>
      BY <2>5 DEF Crash, Schema!Crash, Schema!db
    <3>2. ReferencesResolve'
      BY <2>2, <3>1 DEF ReferencesResolve, Present
    <3>3. ASSUME NEW h \in Handlers
          PROVE  HandlerOK(h)'
      <4>1. work'[h] = Idle
        BY <2>5 DEF Crash
      <4>. QED BY <4>1 DEF HandlerOK, Employed, OnCourse, Knows, Asking, Idle
    <3>. QED BY <3>2, <3>3
  <2>. QED BY <1>2, <2>3, <2>4, <2>5 DEF Next
<1>. QED BY <1>1, <1>2

\* Without drops, and when deletes do not overlap writes of other requests,
\* every reference of a document points at a document as long as no rename has
\* come between two lookups by name: whatever else is renamed and created, and
\* whatever the age of a handle, validateReferences and checkReferentialDelete
\* have looked at the tables that the references lead to when the row is
\* written (http_collections.go:78-79).
THEOREM RenamesAloneMislead ==
    ASSUME "drop" \notin Ops, DeletesApart
    PROVE  Spec => []ResolveUnlessMisled
<1>1. Init => ResolveInv
  BY DEF Init, Schema!Init, ResolveInv, ReferencesResolve, HandlerOK, Employed,
         OnCourse, Knows, Asking, Idle
<1>2. TypeOK /\ CatP!GrowingInv /\ ResolveInv /\ [Next]_vars => ResolveInv'
  BY ResolveStep
<1>3. ResolveInv => ResolveUnlessMisled
  BY DEF ResolveInv, ResolveUnlessMisled
<1>. QED BY <1>1, <1>2, <1>3, StoreTypes, GrowingRegistry, PTL DEF Spec

=============================================================================
