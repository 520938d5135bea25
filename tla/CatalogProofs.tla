---------------------------- MODULE CatalogProofs ----------------------------
(***************************************************************************)
(* Proofs about Catalog, for any names, tables, requests and failures.     *)
(***************************************************************************)
EXTENDS Catalog, TLAPS

(***************************************************************************)
(* Types.                                                                  *)
(***************************************************************************)
LEMMA GotoType ==
    ASSUME TypeOK, NEW p \in Procs, NEW f \in Frame, LocalsOK(f), Goto(p, f)
    PROVE  /\ frame' \in [Procs -> Frame]
           /\ \A q \in Procs : LocalsOK(frame'[q])
BY DEF TypeOK, Goto

LEMMA AnswerType ==
    ASSUME TypeOK, NEW p \in Procs, NEW f \in Frame,
           NEW s \in Statuses, Answer(p, f, s)
    PROVE  /\ frame' \in [Procs -> Frame]
           /\ \A q \in Procs : LocalsOK(frame'[q])
<1> DEFINE g == [f EXCEPT !.pc = "reply", !.status = s]
<1>1. "reply" \in Labels
  BY DEF Labels
<1>2. g \in Frame
  BY <1>1 DEF Frame
<1>3. g.pc = "reply"
  BY DEF Frame
<1>4. LocalsOK(g)
  BY <1>3 DEF LocalsOK
<1>. QED BY <1>2, <1>4, GotoType DEF Answer

LEMMA IdleType == Idle \in Frame /\ LocalsOK(Idle)
BY DEF Idle, Frame, LocalsOK, Labels

LEMMA ArrivedType ==
    ASSUME NEW op \in AllOps, NEW n \in Names
    PROVE  /\ Arrived(op, n) \in Frame
           /\ Arrived(op, n).name = n /\ Arrived(op, n).pc = "idle"
           /\ \A decl \in SUBSET Reference :
                 [Arrived(op, n) EXCEPT !.decl = decl] \in Frame
BY DEF Arrived, Idle, Frame, Labels

LEMMA DeclType ==
    ASSUME NEW n \in Names, NEW decl \in Declarations(n)
    PROVE  decl \in SUBSET Reference /\ \A r \in decl : r.owner = n
BY DEF Declarations, Reference

LEMMA CascadedType ==
    ASSUME TypeOK, NEW old \in Names, NEW new \in Names
    PROVE  Cascaded(old, new) \in SUBSET Reference
<1>1. \A n \in Names : Renamed(n, old, new) \in Names
  BY DEF Renamed
<1>2. ASSUME NEW r \in Reference
      PROVE  [r EXCEPT !.owner = Renamed(@, old, new),
                       !.target = Renamed(@, old, new)] \in Reference
  BY <1>1 DEF Reference
<1>. QED BY <1>2 DEF Cascaded, TypeOK

LEMMA EnumStatuses == {200, 201, 204, 400, 404, 409, 500} \subseteq Statuses
BY DEF Statuses

LEMMA CreateType ==
    ASSUME TypeOK, NEW p \in Procs, NEW n \in Names, NEW vector \in BOOLEAN,
           NEW decl \in SUBSET Reference, Create(p, n, vector, decl)
    PROVE  TypeOK'
<1> DEFINE f == [Arrived("create", n) EXCEPT !.decl = decl]
<1>1. f \in Frame
  BY ArrivedType DEF AllOps
<1>2. PICK s \in Statuses : Answer(p, f, s)
  BY EnumStatuses DEF Create
<1>3. /\ frame' \in [Procs -> Frame]
      /\ \A q \in Procs : LocalsOK(frame'[q])
  <2>. HIDE DEF f
  <2>. QED BY <1>1, <1>2, AnswerType
<1>4. CASE UNCHANGED db
  BY <1>3, <1>4 DEF TypeOK, db
<1>5. CASE /\ registry' = [registry EXCEPT
                            ![n] = [table |-> MainTable[n], vector |-> vector]]
           /\ tables' = WithTables(n, vector)
           /\ refs' = refs \cup decl
  <2>1. [table |-> MainTable[n], vector |-> vector] \in Entry
    BY DEF Entry, MainTables
  <2>2. registry' \in [Names -> Entry \cup {None}]
    BY <1>5, <2>1 DEF TypeOK
  <2>3. tables' \in [SqlTables -> {"plain", "vec", "fts", None}]
    BY <1>5 DEF TypeOK, WithTables
  <2>. QED BY <1>3, <1>5, <2>2, <2>3 DEF TypeOK
<1>. QED BY <1>4, <1>5 DEF Create

LEMMA RenameType ==
    ASSUME TypeOK, NEW p \in Procs, NEW old \in Names, NEW new \in Names,
           Rename(p, old, new)
    PROVE  TypeOK'
<1> DEFINE f == Arrived("rename", new)
           g == [f EXCEPT !.pc = "fetch"]
<1>1. f \in Frame /\ f.name = new
  BY ArrivedType DEF AllOps
<1>2. "fetch" \in Labels
  BY DEF Labels
<1>3. g \in Frame /\ g.pc = "fetch" /\ g.name = new
  <2>. HIDE DEF f
  <2>. QED BY <1>1, <1>2 DEF Frame
<1>4. LocalsOK(g)
  BY <1>3 DEF LocalsOK
<1>5. (\E s \in Statuses : Answer(p, f, s)) \/ Goto(p, g)
  BY EnumStatuses DEF Rename
<1>6. /\ frame' \in [Procs -> Frame]
      /\ \A q \in Procs : LocalsOK(frame'[q])
  <2>. HIDE DEF f, g
  <2>. QED BY <1>1, <1>3, <1>4, <1>5, AnswerType, GotoType
<1>7. CASE UNCHANGED db
  BY <1>6, <1>7 DEF TypeOK, db
<1>8. CASE /\ registry' = [n \in Names |-> IF n = new THEN registry[old]
                                           ELSE IF n = old THEN None
                                           ELSE registry[n]]
           /\ refs' = Cascaded(old, new)
           /\ UNCHANGED tables
  <2>1. registry' \in [Names -> Entry \cup {None}]
    BY <1>8 DEF TypeOK
  <2>. QED BY <1>6, <1>8, <2>1, CascadedType DEF TypeOK
<1>. QED BY <1>7, <1>8 DEF Rename

\* A step of one request keeps the types.
LEMMA ServeType ==
    ASSUME TypeOK, NEW p \in Procs, Serve(p)
    PROVE  TypeOK'
<1> DEFINE f == frame[p]
           FramesOK == /\ frame' \in [Procs -> Frame]
                       /\ \A q \in Procs : LocalsOK(frame'[q])
<1>1. f \in Frame /\ LocalsOK(f)
  BY DEF TypeOK
<1>2. ASSUME db' = db, FramesOK
      PROVE  TypeOK'
  BY <1>2 DEF db, TypeOK
<1>3. CASE CreateCollection(p)
  <2>1. PICK n \in Names, vector \in BOOLEAN :
            \E decl \in Declarations(n) : Create(p, n, vector, decl)
    BY <1>3 DEF CreateCollection
  <2>2. PICK decl \in Declarations(n) : Create(p, n, vector, decl)
    BY <2>1
  <2>3. decl \in SUBSET Reference
    BY DeclType
  <2>4. TypeOK'
    BY <2>2, <2>3, CreateType
  <2>. QED BY <2>4
<1>4. CASE StartDrop(p)
  <2>1. PICK n \in Names :
            \/ Answer(p, Arrived("drop", n), 404)
            \/ /\ registry[n] # None
               /\ Goto(p, [Arrived("drop", n) EXCEPT !.pc = "drop",
                                                     !.coll = registry[n]])
    BY <1>4 DEF StartDrop
  <2> DEFINE g == [Arrived("drop", n) EXCEPT !.pc = "drop",
                                             !.coll = registry[n]]
  <2>2. Arrived("drop", n) \in Frame /\ Arrived("drop", n).name = n
    BY ArrivedType DEF AllOps
  <2>3. ASSUME registry[n] # None
        PROVE  g \in Frame /\ LocalsOK(g)
    <3>1. "drop" \in Labels /\ registry[n] \in Entry /\ "drop" \in Ops
      BY <1>4, <2>3 DEF TypeOK, StartDrop, Labels
    <3>2. g \in Frame
      BY <2>2, <3>1 DEF Frame
    <3>3. g.pc = "drop" /\ g.coll = registry[n] /\ g.name = n
      BY <2>2 DEF Frame
    <3>. QED BY <3>1, <3>2, <3>3 DEF LocalsOK
  <2>4. FramesOK
    <3>. HIDE DEF g
    <3>1. CASE Answer(p, Arrived("drop", n), 404)
      BY <2>2, <3>1, EnumStatuses, AnswerType
    <3>2. CASE registry[n] # None /\ Goto(p, g)
      BY <2>3, <3>2, GotoType
    <3>. QED BY <2>1, <3>1, <3>2 DEF g
  <2>. QED BY <1>2, <1>4, <2>4 DEF StartDrop
<1>5. CASE DropCommit(p)
  <2>1. FramesOK
    BY <1>1, <1>5, EnumStatuses, AnswerType DEF DropCommit
  <2>2. CASE UNCHANGED db
    BY <1>2, <2>1, <2>2
  <2>3. CASE /\ tables' = [t \in SqlTables |->
                           IF t \in TablesOf(f.coll) THEN None ELSE tables[t]]
             /\ registry' = [registry EXCEPT ![f.name] = None]
             /\ UNCHANGED refs
    <3>1. tables' \in [SqlTables -> {"plain", "vec", "fts", None}]
      BY <2>3 DEF TypeOK
    <3>2. registry' \in [Names -> Entry \cup {None}]
      BY <2>3 DEF TypeOK
    <3>. QED BY <2>1, <2>3, <3>1, <3>2 DEF TypeOK
  <2>. QED BY <1>5, <2>2, <2>3 DEF DropCommit
<1>6. CASE RenameCollection(p)
  BY <1>6, RenameType DEF RenameCollection
<1>7. CASE FetchRenamed(p)
  <2>1. PICK s \in {200, 500} : Answer(p, f, s)
    BY <1>7 DEF FetchRenamed
  <2>2. FramesOK
    BY <1>1, <2>1, EnumStatuses, AnswerType
  <2>. QED BY <1>2, <1>7, <2>2 DEF FetchRenamed
<1>8. CASE StatementFails(p)
  <2>1. PICK g \in Frame, s \in {400, 500} : Answer(p, g, s)
    <3>1. CASE \E op \in Ops, n \in Names :
                  Answer(p, Arrived(op, n), IF op = "create" THEN 400 ELSE 500)
      BY <3>1, ArrivedType, WorkloadAssumption
    <3>. QED BY <1>1, <1>8, <3>1 DEF StatementFails
  <2>2. FramesOK
    BY <2>1, EnumStatuses, AnswerType
  <2>. QED BY <1>2, <1>8, <2>2 DEF StatementFails
<1>9. CASE Respond(p)
  <2>1. FramesOK
    BY <1>9, IdleType, GotoType DEF Respond
  <2>. QED BY <1>2, <1>9, <2>1 DEF Respond
<1>. QED BY <1>3, <1>4, <1>5, <1>6, <1>7, <1>8, <1>9 DEF Serve

\* The registry, the tables and the handlers' locals are well typed in every
\* state, whatever clients do and whatever fails.
THEOREM CatalogTypes == Spec => []TypeOK
<1>1. Init => TypeOK
  BY IdleType DEF Init, TypeOK
<1>2. TypeOK /\ [Next]_vars => TypeOK'
  <2> SUFFICES ASSUME TypeOK, [Next]_vars
               PROVE  TypeOK'
    OBVIOUS
  <2>1. CASE Crash
    BY <2>1, IdleType DEF Crash, TypeOK, db
  <2>2. CASE UNCHANGED vars
    BY <2>2 DEF vars, TypeOK
  <2>. QED BY <2>1, <2>2, ServeType DEF Next
<1>. QED BY <1>1, <1>2, PTL DEF Spec

-----------------------------------------------------------------------------
(***************************************************************************)
(* The SQL tables of the registered collections.                           *)
(***************************************************************************)
LEMMA KindsDiffer ==
    None # "plain" /\ None # "vec" /\ None # "fts"
BY NoneAssumption

LEMMA EntryTables ==
    ASSUME NEW c \in Entry
    PROVE  /\ c.table \in MainTables /\ c.vector \in BOOLEAN
           /\ c.table \in SqlTables /\ FtsOf[c.table] \in SqlTables
           /\ TablesOf(c) \subseteq SqlTables
           /\ FtsOf[c.table] # c.table
BY TableAssumption DEF Entry, MainTables, TablesOf

\* The tables of a backed collection exist.
LEMMA BackedTables ==
    ASSUME TypeOK, NEW c \in Entry, Backed(c)
    PROVE  \A t \in TablesOf(c) : tables[t] # None
BY KindsDiffer DEF Backed, TablesOf

\* What becomes of the registry and the tables when n is created.
Creates(n, vector) ==
    /\ registry[n] = None /\ ~TableTaken(n, vector)
    /\ registry' = [registry EXCEPT
                       ![n] = [table |-> MainTable[n], vector |-> vector]]
    /\ tables' = WithTables(n, vector)

\* What becomes of the registry when old is renamed to new.
Renames(old, new) ==
    /\ registry[old] # None /\ (registry[new] = None \/ new = old)
    /\ registry' = [n \in Names |-> IF n = new THEN registry[old]
                                   ELSE IF n = old THEN None
                                   ELSE registry[n]]
    /\ tables' = tables

LEMMA CreateTables ==
    ASSUME TypeOK, TypeOK', NEW n \in Names, NEW vector \in BOOLEAN,
           Creates(n, vector), BackingTables
    PROVE  LET c == [table |-> MainTable[n], vector |-> vector] IN
           /\ registry'[n] = c /\ c \in Entry
           /\ Registered' = Registered \cup {n} /\ n \notin Registered
           /\ \A m \in Registered : registry'[m] = registry[m]
           /\ \A t \in TablesOf(c) : tables[t] = None
           /\ \A t \in SqlTables \ TablesOf(c) : tables'[t] = tables[t]
           /\ Backed(c)'
           /\ \A m \in Registered :
                 TablesOf(registry[m]) \cap TablesOf(c) = {}
<1> DEFINE c == [table |-> MainTable[n], vector |-> vector]
<1>1. c \in Entry /\ c.table = MainTable[n] /\ c.vector = vector
  BY DEF Entry, MainTables
<1>2. registry'[n] = c /\ \A m \in Names \ {n} : registry'[m] = registry[m]
  BY DEF Creates, TypeOK
<1>3. c # None
  BY <1>1, NoneAssumption
<1>4. n \notin Registered /\ Registered' = Registered \cup {n}
  BY <1>2, <1>3 DEF Registered, Creates
<1>5. \A t \in TablesOf(c) : tables[t] = None
  BY <1>1 DEF TablesOf, Creates, TableTaken
<1>6. \A t \in SqlTables \ TablesOf(c) : tables'[t] = tables[t]
  BY <1>1 DEF TablesOf, Creates, WithTables
<1>7. Backed(c)'
  <2>1. c.table \in SqlTables /\ FtsOf[c.table] \in SqlTables
        /\ FtsOf[c.table] # c.table
    BY <1>1, EntryTables
  <2>. QED BY <1>1, <2>1 DEF Backed, Creates, WithTables
<1>8. ASSUME NEW m \in Registered
      PROVE  TablesOf(registry[m]) \cap TablesOf(c) = {}
  <2>1. registry[m] \in Entry /\ Backed(registry[m])
    BY DEF Registered, TypeOK, BackingTables
  <2>. QED BY <1>5, <2>1, BackedTables
<1>9. \A m \in Registered : m \in Names \ {n}
  BY <1>4 DEF Registered
<1>. QED BY <1>1, <1>2, <1>4, <1>5, <1>6, <1>7, <1>8, <1>9

LEMMA CreateKeepsTables ==
    ASSUME TypeOK, TypeOK', NEW n \in Names, NEW vector \in BOOLEAN,
           Creates(n, vector), BackingTables, NoAliasing
    PROVE  /\ BackingTables' /\ NoAliasing'
           /\ NoOrphanTables => NoOrphanTables'
<1> DEFINE c == [table |-> MainTable[n], vector |-> vector]
<1>1. /\ registry'[n] = c /\ c \in Entry
      /\ Registered' = Registered \cup {n} /\ n \notin Registered
      /\ \A m \in Registered : registry'[m] = registry[m]
      /\ \A t \in TablesOf(c) : tables[t] = None
      /\ \A t \in SqlTables \ TablesOf(c) : tables'[t] = tables[t]
      /\ Backed(c)'
      /\ \A m \in Registered : TablesOf(registry[m]) \cap TablesOf(c) = {}
  BY CreateTables
<1> HIDE DEF c
<1>2. ASSUME NEW m \in Registered
      PROVE  Backed(registry[m])'
  <2>1. registry[m] \in Entry /\ Backed(registry[m])
    BY DEF Registered, TypeOK, BackingTables
  <2>2. \A t \in TablesOf(registry[m]) : tables'[t] = tables[t]
    BY <1>1, <2>1, EntryTables
  <2>3. registry'[m] = registry[m]
    BY <1>1
  <2>. QED BY <2>1, <2>2, <2>3 DEF Backed, TablesOf
<1>3. BackingTables'
  BY <1>1, <1>2 DEF BackingTables, Backed
<1>4. NoAliasing'
  <2>1. ASSUME NEW m \in Registered', NEW o \in Registered', m # o
        PROVE  TablesOf(registry'[m]) \cap TablesOf(registry'[o]) = {}
    <3>1. CASE m = n \/ o = n
      BY <1>1, <2>1, <3>1
    <3>2. CASE m # n /\ o # n
      BY <1>1, <2>1, <3>2 DEF NoAliasing
    <3>. QED BY <3>1, <3>2
  <2>. QED BY <2>1 DEF NoAliasing, TablesOf
<1>5. ASSUME NoOrphanTables, NEW t \in SqlTables, tables'[t] # None
      PROVE  \E m \in Registered' : t \in TablesOf(registry'[m])
  <2>1. CASE t \in TablesOf(c)
    BY <1>1, <2>1
  <2>2. CASE t \notin TablesOf(c)
    BY <1>1, <1>5, <2>2 DEF NoOrphanTables
  <2>. QED BY <2>1, <2>2
<1>. QED BY <1>3, <1>4, <1>5 DEF NoOrphanTables, TablesOf

LEMMA RenameKeepsTables ==
    ASSUME TypeOK, NEW old \in Names, NEW new \in Names, Renames(old, new),
           BackingTables, NoAliasing
    PROVE  /\ BackingTables' /\ NoAliasing'
           /\ NoOrphanTables => NoOrphanTables'
<1> DEFINE source(n) == IF n = new THEN old ELSE n
<1>1. \A n \in Registered' :
          /\ source(n) \in Registered /\ registry'[n] = registry[source(n)]
          /\ n = old => n = new
  BY DEF Renames, Registered, TypeOK
<1>2. \A m, n \in Registered' : m # n => source(m) # source(n)
  BY <1>1
<1>3. \A n \in Registered : n = old \/ n # new
  BY DEF Renames, Registered
<1>4. \A n \in Registered :
          \E m \in Registered' : registry'[m] = registry[n]
  <2> SUFFICES ASSUME NEW n \in Registered
               PROVE  \E m \in Registered' : registry'[m] = registry[n]
    OBVIOUS
  <2>1. CASE n = old
    BY <2>1 DEF Renames, Registered
  <2>2. CASE n # old
    BY <1>3, <2>2 DEF Renames, Registered
  <2>. QED BY <2>1, <2>2
<1> HIDE DEF source
<1>5. tables' = tables
  BY DEF Renames
<1>6. BackingTables'
  BY <1>1, <1>5 DEF BackingTables, Backed
<1>7. NoAliasing'
  BY <1>1, <1>2 DEF NoAliasing, TablesOf
<1>8. NoOrphanTables => NoOrphanTables'
  BY <1>4, <1>5 DEF NoOrphanTables, TablesOf
<1>. QED BY <1>6, <1>7, <1>8

-----------------------------------------------------------------------------
(***************************************************************************)
(* What a step does to the database.                                       *)
(***************************************************************************)
LEMMA ServeWrites ==
    ASSUME TypeOK, NEW p \in Procs, Serve(p)
    PROVE  \/ UNCHANGED db
           \/ \E n \in Names, vector \in BOOLEAN : \E decl \in Declarations(n) :
                 /\ "create" \in Ops
                 /\ Creates(n, vector) /\ Acceptable(n, vector, decl)
                 /\ refs' = refs \cup decl
           \/ \E old, new \in Names :
                 /\ "rename" \in Ops
                 /\ Renames(old, new) /\ refs' = Cascaded(old, new)
           \/ DropCommit(p) /\ "drop" \in Ops
<1>1. CASE CreateCollection(p)
  BY <1>1 DEF CreateCollection, Create, Creates, Acceptable
<1>2. CASE RenameCollection(p)
  BY <1>2 DEF RenameCollection, Rename, Renames
<1>3. CASE DropCommit(p)
  BY <1>3 DEF DropCommit, At, TypeOK, LocalsOK
<1>4. CASE StartDrop(p) \/ FetchRenamed(p) \/ StatementFails(p) \/ Respond(p)
  BY <1>4 DEF StartDrop, FetchRenamed, StatementFails, Respond
<1>. QED BY <1>1, <1>2, <1>3, <1>4 DEF Serve

LEMMA UnchangedTables ==
    ASSUME UNCHANGED db
    PROVE  /\ BackingTables => BackingTables'
           /\ NoAliasing => NoAliasing'
           /\ NoOrphanTables => NoOrphanTables'
BY DEF db, BackingTables, Backed, NoAliasing, NoOrphanTables, Registered,
       TablesOf

(***************************************************************************)
(* Registries nobody drops from.                                           *)
(***************************************************************************)
Closed ==
    \A r \in refs : r.owner \in Registered /\ r.target \in Registered

GrowingInv == BackingTables /\ NoAliasing /\ Closed

LEMMA GrowingInit == Init => GrowingInv
BY DEF Init, GrowingInv, BackingTables, NoAliasing, Closed, Registered

LEMMA CreateKeepsClosed ==
    ASSUME TypeOK, TypeOK', NEW n \in Names, NEW vector \in BOOLEAN,
           NEW decl \in Declarations(n), Creates(n, vector), GrowingInv,
           Acceptable(n, vector, decl), refs' = refs \cup decl
    PROVE  Closed'
<1>1. Registered' = Registered \cup {n}
  BY CreateTables DEF GrowingInv
<1>2. \A r \in decl : r.owner = n /\ r.target \in Registered
  BY DeclType DEF Acceptable, Registered, Reference
<1>. QED BY <1>1, <1>2 DEF GrowingInv, Closed

LEMMA RenamedRegistered ==
    ASSUME TypeOK, NEW old \in Names, NEW new \in Names, Renames(old, new),
           NEW n \in Registered
    PROVE  /\ Renamed(n, old, new) \in Registered'
           /\ registry'[Renamed(n, old, new)] = registry[n]
BY DEF Renames, Renamed, Registered, TypeOK

LEMMA RenameKeepsClosed ==
    ASSUME TypeOK, NEW old \in Names, NEW new \in Names, Renames(old, new),
           Closed, refs' = Cascaded(old, new)
    PROVE  Closed'
<1>1. ASSUME NEW r \in refs
      PROVE  LET s == [r EXCEPT !.owner = Renamed(@, old, new),
                                !.target = Renamed(@, old, new)]
             IN  s.owner \in Registered' /\ s.target \in Registered'
  <2>1. r \in Reference /\ r.owner \in Registered /\ r.target \in Registered
    BY DEF TypeOK, Closed
  <2>2. /\ Renamed(r.owner, old, new) \in Registered'
        /\ Renamed(r.target, old, new) \in Registered'
    BY <2>1, RenamedRegistered
  <2>. QED BY <2>1, <2>2 DEF Reference
<1>. QED BY <1>1 DEF Cascaded, Closed

LEMMA GrowingStep ==
    ASSUME TypeOK, TypeOK', GrowingInv, [Next]_vars, "drop" \notin Ops
    PROVE  GrowingInv'
<1>1. CASE UNCHANGED db
  BY <1>1, UnchangedTables DEF GrowingInv, Closed, db, Registered
<1>2. ASSUME NEW p \in Procs, Serve(p)
      PROVE  GrowingInv'
  <2>1. ASSUME NEW n \in Names, NEW vector \in BOOLEAN,
               NEW decl \in Declarations(n), Creates(n, vector),
               Acceptable(n, vector, decl), refs' = refs \cup decl
        PROVE  GrowingInv'
    BY <2>1, CreateKeepsTables, CreateKeepsClosed DEF GrowingInv
  <2>2. ASSUME NEW old \in Names, NEW new \in Names, Renames(old, new),
               refs' = Cascaded(old, new)
        PROVE  GrowingInv'
    BY <2>2, RenameKeepsTables, RenameKeepsClosed DEF GrowingInv
  <2>. QED BY <1>1, <1>2, <2>1, <2>2, ServeWrites
<1>. QED BY <1>1, <1>2 DEF Next, Crash, vars, db

\* As long as no collection is dropped, every collection has its SQL tables,
\* no two collections share one, and every reference has a registered target,
\* whatever names and table names collide and however requests interleave:
\* createCollection and renameCollection do all their checks inside their
\* transactions.
THEOREM TablesWithoutDrops ==
    ASSUME "drop" \notin Ops
    PROVE  Spec => [](BackingTables /\ NoAliasing /\ TargetsRegistered)
<1>1. GrowingInv => BackingTables /\ NoAliasing /\ TargetsRegistered
  BY DEF GrowingInv, Closed, TargetsRegistered
<1>. QED BY <1>1, GrowingInit, GrowingStep, CatalogTypes, PTL DEF Spec

-----------------------------------------------------------------------------
(***************************************************************************)
(* The graph of references.                                                *)
(***************************************************************************)
LEMMA GraphCreate ==
    ASSUME TypeOK, TypeOK', GrowingInv, Closed', NEW n \in Names,
           NEW vector \in BOOLEAN, NEW decl \in Declarations(n),
           Creates(n, vector), Acceptable(n, vector, decl),
           refs' = refs \cup decl
    PROVE  Graph!Next
<1> DEFINE t == MainTable[n]
           E == {<<t, r.field, TableOf(r.target)>> : r \in decl}
<1>1. /\ registry'[n].table = t
      /\ Registered' = Registered \cup {n} /\ n \notin Registered
      /\ \A m \in Registered : registry'[m] = registry[m]
      /\ tables[t] = None
  <2> DEFINE c == [table |-> t, vector |-> vector]
  <2>1. /\ registry'[n] = c
        /\ Registered' = Registered \cup {n} /\ n \notin Registered
        /\ \A m \in Registered : registry'[m] = registry[m]
        /\ \A u \in TablesOf(c) : tables[u] = None
    BY CreateTables DEF GrowingInv
  <2>2. c.table = t /\ t \in TablesOf(c)
    BY DEF TablesOf
  <2>. HIDE DEF c, t
  <2>. QED BY <2>1, <2>2
<1>2. t \in SqlTables
  BY TableAssumption
<1>3. t \notin GraphNodes
  <2>1. \A m \in Registered : tables[TableOf(m)] # None
    BY BackedTables
       DEF GrowingInv, BackingTables, Registered, TypeOK, TableOf, TablesOf
  <2>. QED BY <1>1, <2>1 DEF GraphNodes
<1>4. GraphNodes' = GraphNodes \cup {t}
  BY <1>1 DEF GraphNodes, TableOf
<1>5. /\ decl \subseteq Reference
      /\ \A r \in decl : r.owner = n /\ r.target \in Registered
  BY DeclType DEF Acceptable, Registered, Reference
<1>6. E \in {D \in SUBSET ({t} \X Fields \X GraphNodes) :
                 \A d, e \in D : d[2] = e[2] => d = e}
  <2>1. \A r \in decl : r.field \in Fields /\ TableOf(r.target) \in GraphNodes
    BY <1>5 DEF Reference, GraphNodes
  <2>2. \A r, s \in decl : r.field = s.field => r = s
    BY DEF Declarations
  <2>. QED BY <2>1, <2>2
<1>7. GraphEdges' = GraphEdges \cup E
  <2>1. \A r \in refs : /\ r.owner \in Registered /\ r.target \in Registered
                         /\ r.owner # n /\ r.target # n
    BY <1>1 DEF GrowingInv, Closed
  <2>2. \A r \in refs \cup decl : r.owner \in Registered' /\ r.target \in Registered'
    BY DEF Closed
  <2>3. \A r \in refs : /\ registry'[r.owner] = registry[r.owner]
                         /\ registry'[r.target] = registry[r.target]
    BY <1>1, <2>1
  <2>4. \A r \in decl : /\ registry'[r.owner].table = t
                         /\ registry'[r.target] = registry[r.target]
    BY <1>1, <1>5
  <2>5. GraphEdges = {<<registry[r.owner].table, r.field, registry[r.target].table>> :
                    r \in refs}
    BY <2>1 DEF GraphEdges, TableOf
  <2>6. GraphEdges' = {<<registry'[r.owner].table, r.field, registry'[r.target].table>> :
                     r \in refs \cup decl}
    BY <2>2 DEF GraphEdges, TableOf
  <2>. QED BY <2>3, <2>4, <2>5, <2>6 DEF TableOf
<1>8. t \notin GraphNodes /\ GraphNodes' = GraphNodes \cup {t}
      /\ \E D \in Graph!Declarations(t) : GraphEdges' = GraphEdges \cup D
  BY <1>3, <1>4, <1>6, <1>7 DEF Graph!Declarations
<1>. QED BY <1>2, <1>8 DEF Graph!Next, Graph!Add

LEMMA GraphRename ==
    ASSUME TypeOK, Closed, Closed', NEW old \in Names, NEW new \in Names,
           Renames(old, new), refs' = Cascaded(old, new)
    PROVE  UNCHANGED <<GraphNodes, GraphEdges>>
<1> DEFINE new_(r) == [r EXCEPT !.owner = Renamed(@, old, new),
                                !.target = Renamed(@, old, new)]
<1>1. GraphNodes' = GraphNodes
  <2>1. GraphNodes \subseteq GraphNodes'
    BY RenamedRegistered DEF GraphNodes, TableOf
  <2>2. \A m \in Registered' : \E n \in Registered : registry'[m] = registry[n]
    BY DEF Renames, Registered, TypeOK
  <2>3. GraphNodes' \subseteq GraphNodes
    BY <2>2 DEF GraphNodes, TableOf
  <2>. QED BY <2>1, <2>3
<1>2. GraphEdges = {<<registry[r.owner].table, r.field, registry[r.target].table>> :
                  r \in refs}
  BY DEF Closed, GraphEdges, TableOf
<1>3. GraphEdges' = {<<registry'[r.owner].table, r.field, registry'[r.target].table>> :
                   r \in refs'}
  BY DEF Closed, GraphEdges, TableOf
<1>4. ASSUME NEW r \in refs
      PROVE  /\ registry'[new_(r).owner] = registry[r.owner]
             /\ registry'[new_(r).target] = registry[r.target]
             /\ new_(r).field = r.field
  <2>1. r \in Reference /\ r.owner \in Registered /\ r.target \in Registered
    BY DEF TypeOK, Closed
  <2>2. /\ registry'[Renamed(r.owner, old, new)] = registry[r.owner]
        /\ registry'[Renamed(r.target, old, new)] = registry[r.target]
    BY <2>1, RenamedRegistered
  <2>. QED BY <2>1, <2>2 DEF Reference
<1>5. refs' = {new_(r) : r \in refs}
  BY DEF Cascaded
<1>6. GraphEdges' = GraphEdges
  <2>. HIDE DEF new_
  <2>1. GraphEdges' = {<<registry'[new_(r).owner].table, new_(r).field,
                    registry'[new_(r).target].table>> : r \in refs}
    BY <1>3, <1>5
  <2>. QED BY <1>2, <1>4, <2>1
<1>. QED BY <1>1, <1>6

\* Without drops, the registry and the references implement ReferenceGraph:
\* a rename, cascaded to both columns of collection_references, cannot be told
\* from a step that does nothing, and no reference ever appears, disappears or
\* moves to another collection after its owner's create.
THEOREM GraphImplemented ==
    ASSUME "drop" \notin Ops
    PROVE  Spec => GraphSpec
<1>1. Init => Graph!Init
  BY DEF Init, Graph!Init, GraphNodes, GraphEdges, Registered
<1>2. TypeOK /\ TypeOK' /\ GrowingInv /\ GrowingInv' /\ [Next]_vars
          => [Graph!Next]_<<GraphNodes, GraphEdges>>
  <2> SUFFICES ASSUME TypeOK, TypeOK', GrowingInv, GrowingInv', [Next]_vars
               PROVE  [Graph!Next]_<<GraphNodes, GraphEdges>>
    OBVIOUS
  <2>1. CASE UNCHANGED db
    BY <2>1 DEF db, GraphNodes, GraphEdges, Registered, TableOf
  <2>2. ASSUME NEW p \in Procs, Serve(p)
        PROVE  [Graph!Next]_<<GraphNodes, GraphEdges>>
    <3>1. ASSUME NEW n \in Names, NEW vector \in BOOLEAN,
                 NEW decl \in Declarations(n), Creates(n, vector),
                 Acceptable(n, vector, decl), refs' = refs \cup decl
          PROVE  Graph!Next
      BY <3>1, GraphCreate DEF GrowingInv
    <3>2. ASSUME NEW old \in Names, NEW new \in Names, Renames(old, new),
                 refs' = Cascaded(old, new)
          PROVE  UNCHANGED <<GraphNodes, GraphEdges>>
      BY <3>2, GraphRename DEF GrowingInv
    <3>. QED BY <2>1, <2>2, <3>1, <3>2, ServeWrites
  <2>. QED BY <2>1, <2>2 DEF Next, Crash, vars, db
<1>. QED BY <1>1, <1>2, GrowingInit, GrowingStep, CatalogTypes, PTL
     DEF Spec, GraphSpec, Graph!Spec

-----------------------------------------------------------------------------
(***************************************************************************)
(* Registries that are dropped from: requests one at a time.               *)
(***************************************************************************)
Fresh(f) == f.pc = "drop" => f.coll = registry[f.name]

SerialInv ==
    /\ BackingTables /\ NoAliasing /\ NoOrphanTables
    /\ \A p \in Procs : Fresh(frame[p])

\* A drop that still knows what the registry says finds all its tables, and
\* takes no table of another collection away.
LEMMA FreshDrop ==
    ASSUME TypeOK, NEW p \in Procs, DropCommit(p), BackingTables, NoAliasing,
           NoOrphanTables, Fresh(frame[p])
    PROVE  /\ Answer(p, frame[p], 204)
           /\ BackingTables' /\ NoAliasing' /\ NoOrphanTables'
<1> DEFINE n == frame[p].name
           c == frame[p].coll
<1>1. n \in Names /\ c \in Entry /\ c = registry[n]
  BY DEF DropCommit, At, TypeOK, LocalsOK, Fresh
<1>2. n \in Registered
  BY <1>1, NoneAssumption DEF Registered
<1>3. Backed(c)
  BY <1>1, <1>2 DEF BackingTables
<1>4. \A t \in TablesOf(c) : tables[t] # None
  BY <1>1, <1>3, BackedTables
<1>5. /\ tables' = [t \in SqlTables |->
                       IF t \in TablesOf(c) THEN None ELSE tables[t]]
      /\ registry' = [registry EXCEPT ![n] = None]
      /\ Answer(p, frame[p], 204)
  BY <1>4 DEF DropCommit
<1> HIDE DEF n, c
<1>6. Registered' = Registered \ {n}
  BY <1>1, <1>5 DEF Registered, TypeOK
<1>7. ASSUME NEW m \in Registered'
      PROVE  /\ m \in Registered /\ registry'[m] = registry[m]
             /\ registry[m] \in Entry /\ Backed(registry[m])
             /\ TablesOf(registry[m]) \cap TablesOf(c) = {}
  <2>1. m \in Registered /\ m # n
    BY <1>6
  <2>2. registry'[m] = registry[m] /\ registry[m] \in Entry
    BY <1>5, <2>1 DEF Registered, TypeOK
  <2>. QED BY <1>1, <1>2, <2>1, <2>2 DEF NoAliasing, BackingTables
<1>8. ASSUME NEW m \in Registered'
      PROVE  Backed(registry[m])'
  <2>1. \A t \in TablesOf(registry[m]) : tables'[t] = tables[t]
    BY <1>5, <1>7, EntryTables
  <2>2. Backed(registry[m]) /\ registry'[m] = registry[m]
    BY <1>7
  <2>. QED BY <2>1, <2>2 DEF Backed, TablesOf
<1>9. BackingTables'
  BY <1>8 DEF BackingTables, Backed
<1>10. NoAliasing'
  BY <1>7 DEF NoAliasing, TablesOf
<1>11. ASSUME NEW t \in SqlTables, tables'[t] # None
       PROVE  \E m \in Registered' : t \in TablesOf(registry'[m])
  <2>1. t \notin TablesOf(c) /\ tables[t] # None
    BY <1>5, <1>11
  <2>2. PICK m \in Registered : t \in TablesOf(registry[m])
    BY <2>1 DEF NoOrphanTables
  <2>3. m \in Registered'
    BY <1>1, <1>6, <2>1, <2>2
  <2>. QED BY <1>7, <2>2, <2>3
<1>. QED BY <1>5, <1>9, <1>10, <1>11 DEF NoOrphanTables, TablesOf

LEMMA FreshStep ==
    ASSUME TypeOK, NEW p \in Procs, Serve(p)
    PROVE  /\ DropCommit(p) => frame'[p].pc # "drop"
           /\ frame'[p].pc = "drop" =>
                 frame'[p].coll = registry'[frame'[p].name]
<1> DEFINE f == frame[p]
<1>1. f \in Frame
  BY DEF TypeOK
<1>2. ASSUME NEW g \in Frame, NEW s, Answer(p, g, s)
      PROVE  frame'[p].pc = "reply"
  BY <1>2 DEF Answer, Goto, TypeOK, Frame
<1>3. CASE CreateCollection(p)
  <2>1. PICK n \in Names, vector \in BOOLEAN :
            \E decl \in Declarations(n) : Create(p, n, vector, decl)
    BY <1>3 DEF CreateCollection
  <2>2. PICK decl \in Declarations(n) : Create(p, n, vector, decl)
    BY <2>1
  <2> DEFINE g == [Arrived("create", n) EXCEPT !.decl = decl]
  <2>3. g \in Frame
    BY ArrivedType, DeclType DEF AllOps
  <2>4. Answer(p, g, 409) \/ Answer(p, g, 400) \/ Answer(p, g, 201)
    BY <2>2 DEF Create
  <2>5. frame'[p].pc = "reply"
    <3>. HIDE DEF g
    <3>. QED BY <1>2, <2>3, <2>4
  <2>6. ~DropCommit(p)
    BY <1>3 DEF CreateCollection, DropCommit, At
  <2>. QED BY <2>5, <2>6
<1>4. CASE StartDrop(p)
  <2>1. PICK n \in Names :
            \/ Answer(p, Arrived("drop", n), 404)
            \/ Goto(p, [Arrived("drop", n) EXCEPT !.pc = "drop",
                                                  !.coll = registry[n]])
    BY <1>4 DEF StartDrop
  <2>2. Arrived("drop", n) \in Frame /\ Arrived("drop", n).name = n
    BY ArrivedType DEF AllOps
  <2>3. CASE Answer(p, Arrived("drop", n), 404)
    BY <1>2, <1>4, <2>2, <2>3 DEF StartDrop, DropCommit, At
  <2>4. CASE Goto(p, [Arrived("drop", n) EXCEPT !.pc = "drop",
                                                !.coll = registry[n]])
    <3>1. /\ frame'[p].coll = registry[n] /\ frame'[p].name = n
          /\ registry' = registry
      BY <1>4, <2>2, <2>4 DEF Goto, TypeOK, Frame, StartDrop, db
    <3>. QED BY <1>4, <3>1 DEF StartDrop, DropCommit, At
  <2>. QED BY <2>1, <2>3, <2>4
<1>5. CASE RenameCollection(p)
  <2>1. PICK old \in Names, new \in Names : Rename(p, old, new)
    BY <1>5 DEF RenameCollection
  <2>2. Arrived("rename", new) \in Frame
    BY ArrivedType DEF AllOps
  <2>3. CASE \E s \in {404, 409, 500} : Answer(p, Arrived("rename", new), s)
    BY <1>2, <1>5, <2>2, <2>3 DEF RenameCollection, DropCommit, At
  <2>4. CASE Goto(p, [Arrived("rename", new) EXCEPT !.pc = "fetch"])
    BY <1>5, <2>2, <2>4 DEF Goto, TypeOK, Frame, RenameCollection, DropCommit,
                            At
  <2>. QED BY <2>1, <2>3, <2>4 DEF Rename
<1>6. CASE DropCommit(p) \/ FetchRenamed(p)
  BY <1>1, <1>2, <1>6 DEF DropCommit, FetchRenamed
<1>7. CASE StatementFails(p)
  <2>1. PICK g \in Frame, s \in {400, 500} : Answer(p, g, s)
    <3>1. CASE \E op \in Ops, n \in Names :
                  Answer(p, Arrived(op, n), IF op = "create" THEN 400 ELSE 500)
      BY <3>1, ArrivedType, WorkloadAssumption
    <3>. QED BY <1>1, <1>7, <3>1 DEF StatementFails
  <2>. QED BY <1>2, <2>1
<1>8. CASE Respond(p)
  <2>1. frame'[p] = Idle
    BY <1>8 DEF Respond, Goto, TypeOK
  <2>. QED BY <2>1 DEF Idle
<1>. QED BY <1>3, <1>4, <1>5, <1>6, <1>7, <1>8 DEF Serve

LEMMA SerialStep ==
    ASSUME TypeOK, TypeOK', SerialInv, [Next]_vars,
           \A p, q \in Procs : p = q
    PROVE  SerialInv'
<1>1. CASE UNCHANGED vars
  BY <1>1, UnchangedTables DEF SerialInv, vars, db, Fresh
<1>2. CASE Crash
  BY <1>2, UnchangedTables DEF SerialInv, Crash, db, Fresh, Idle
<1>3. ASSUME NEW p \in Procs, Serve(p)
      PROVE  SerialInv'
  <2>1. \A q \in Procs : Fresh(frame[q])'
    BY <1>3, FreshStep DEF Fresh
  <2>2. BackingTables' /\ NoAliasing' /\ NoOrphanTables'
    <3>1. CASE UNCHANGED db
      BY <3>1, UnchangedTables DEF SerialInv
    <3>2. ASSUME NEW n \in Names, NEW vector \in BOOLEAN, Creates(n, vector)
          PROVE  BackingTables' /\ NoAliasing' /\ NoOrphanTables'
      BY <3>2, CreateKeepsTables DEF SerialInv
    <3>3. ASSUME NEW old \in Names, NEW new \in Names, Renames(old, new)
          PROVE  BackingTables' /\ NoAliasing' /\ NoOrphanTables'
      BY <3>3, RenameKeepsTables DEF SerialInv
    <3>4. CASE DropCommit(p)
      BY <3>4, FreshDrop DEF SerialInv
    <3>. QED BY <1>3, <3>1, <3>2, <3>3, <3>4, ServeWrites
  <2>. QED BY <2>1, <2>2 DEF SerialInv
<1>. QED BY <1>1, <1>2, <1>3 DEF Next

LEMMA SerialInit == Init => SerialInv
BY DEF Init, SerialInv, BackingTables, NoAliasing, NoOrphanTables, Registered,
       Fresh, Idle

\* Served one at a time, creates, drops and renames in any order, with any
\* failures between and inside them, leave no collection without its tables
\* and no table without its collection, whatever table names collide.
THEOREM TablesOneByOne ==
    ASSUME \A p, q \in Procs : p = q
    PROVE  Spec => [](BackingTables /\ NoAliasing /\ NoOrphanTables)
<1>1. SerialInv => BackingTables /\ NoAliasing /\ NoOrphanTables
  BY DEF SerialInv
<1>. QED BY <1>1, SerialInit, SerialStep, CatalogTypes, PTL DEF Spec

LEMMA OthersWait ==
    ASSUME TypeOK, NEW p \in Procs, Serve(p), NEW q \in Procs, q # p
    PROVE  frame'[q] = frame[q]
<1>1. frame \in [Procs -> Frame]
  BY DEF TypeOK
<1>2. \A g : Goto(p, g) => frame'[q] = frame[q]
  BY <1>1 DEF Goto
<1>3. \A g, s : Answer(p, g, s) => frame'[q] = frame[q]
  BY <1>2, Zenon DEF Answer
<1>4. CreateCollection(p) => frame'[q] = frame[q]
  <2>1. \A n, v, d : Create(p, n, v, d) => \E g, s : Answer(p, g, s)
    BY DEF Create
  <2>. QED BY <1>3, <2>1 DEF CreateCollection
<1>5. StartDrop(p) => frame'[q] = frame[q]
  BY <1>2, <1>3, Zenon DEF StartDrop
<1>6. RenameCollection(p) => frame'[q] = frame[q]
  <2>1. \A m, n : Rename(p, m, n) =>
            (\E g, s : Answer(p, g, s)) \/ (\E g : Goto(p, g))
    BY DEF Rename
  <2>. QED BY <1>2, <1>3, <2>1 DEF RenameCollection
<1>7. DropCommit(p) \/ FetchRenamed(p) \/ Respond(p) => frame'[q] = frame[q]
  BY <1>2, <1>3, Zenon DEF DropCommit, FetchRenamed, Respond
<1>8. StatementFails(p) => frame'[q] = frame[q]
  BY <1>3, Zenon DEF StatementFails
<1>. QED BY <1>4, <1>5, <1>6, <1>7, <1>8 DEF Serve

\* The statement of DropTakesItsCollection about one request.
Takes(p) ==
    (At(p, "drop") /\ frame'[p].pc = "reply") =>
        Taken(frame[p].name, frame[p].coll, frame'[p].status)

\* A drop takes its collection and no other one, in a step after which every
\* collection still has its tables; the tables of c are there only if a
\* collection is registered under the name of the drop.
LEMMA DropTakes ==
    ASSUME TypeOK, BackingTables, BackingTables', NEW p \in Procs,
           DropCommit(p) \/ StatementFails(p), At(p, "drop"),
           tables[frame[p].coll.table] # None
               => frame[p].name \in Registered
    PROVE  Taken(frame[p].name, frame[p].coll, frame'[p].status)
<1> DEFINE f == frame[p]
           n == f.name
           c == f.coll
<1>1. f \in Frame /\ n \in Names /\ c \in Entry
  BY DEF TypeOK, LocalsOK, At
<1>2. \A s : Answer(p, f, s) => frame'[p].status = s
  BY <1>1 DEF Answer, Goto, TypeOK, Frame
<1> HIDE DEF f, n, c
<1>3. CASE StatementFails(p)
  <2>1. "sql" \in Faults /\ UNCHANGED db
    BY <1>3 DEF StatementFails
  <2>2. Answer(p, f, 500)
    BY <1>3 DEF StatementFails, At, f
  <2>. QED BY <1>2, <2>1, <2>2 DEF Taken, n, c, f
<1>4. CASE /\ \A t \in TablesOf(c) : tables[t] # None
           /\ tables' = [t \in SqlTables |->
                            IF t \in TablesOf(c) THEN None ELSE tables[t]]
           /\ registry' = [registry EXCEPT ![n] = None]
           /\ Answer(p, f, 204)
  <2>1. Registered' = Registered \ {n}
    BY <1>1, <1>4 DEF Registered, TypeOK
  <2>2. n \in Registered
    BY <1>4 DEF TablesOf, n, c, f
  <2>3. \A t \in TablesOf(c) : tables'[t] = None
    BY <1>1, <1>4, EntryTables
  <2>4. ASSUME NEW m \in Registered'
        PROVE  registry'[m] = registry[m] /\ Backed(registry[m])'
    <3>1. m # n /\ m \in Names
      BY <2>1 DEF Registered
    <3>2. registry'[m] = registry[m]
      BY <1>4, <3>1 DEF TypeOK
    <3>. QED BY <3>2 DEF BackingTables, Backed
  <2>5. frame'[p].status = 204
    BY <1>2, <1>4
  <2>. QED BY <2>1, <2>2, <2>3, <2>4, <2>5 DEF Taken, n, c, f
<1>5. CASE /\ \E t \in TablesOf(c) : tables[t] = None
           /\ Answer(p, f, 500) /\ UNCHANGED db
  <2>1. registry[n] # c
    <3> SUFFICES ASSUME registry[n] = c
                 PROVE  FALSE
      OBVIOUS
    <3>1. n \in Registered
      BY <1>1, NoneAssumption DEF Registered
    <3>2. Backed(c)
      BY <3>1 DEF BackingTables
    <3>. QED BY <1>1, <1>5, <3>2, BackedTables
  <2>2. frame'[p].status = 500
    BY <1>2, <1>5
  <2>. QED BY <1>5, <2>1, <2>2 DEF Taken, n, c, f
<1>6. DropCommit(p) => \/ /\ \A t \in TablesOf(c) : tables[t] # None
                          /\ tables' = [t \in SqlTables |->
                               IF t \in TablesOf(c) THEN None ELSE tables[t]]
                          /\ registry' = [registry EXCEPT ![n] = None]
                          /\ Answer(p, f, 204)
                       \/ /\ \E t \in TablesOf(c) : tables[t] = None
                          /\ Answer(p, f, 500) /\ UNCHANGED db
  BY DEF DropCommit, f, n, c
<1>. QED BY <1>3, <1>4, <1>5, <1>6

\* The step that answers a drop is a step of that drop.
LEMMA DropAnswers ==
    ASSUME TypeOK, NEW p \in Procs, At(p, "drop"), frame'[p].pc = "reply", Next
    PROVE  DropCommit(p) \/ StatementFails(p)
<1>1. ~Crash
  BY DEF Crash, Idle
<1>2. PICK q \in Procs : Serve(q)
  BY <1>1 DEF Next
<1>3. q = p
  BY <1>2, OthersWait DEF At
<1>. QED BY <1>2, <1>3 DEF Serve, CreateCollection, StartDrop,
            RenameCollection, FetchRenamed, Respond, At

\* Served one at a time, with renames of any collection in between and
\* whatever fails, a drop that answers 204 has taken the collection that it
\* had looked up, its tables and nothing else, and any other leaves everything
\* as it was.
THEOREM DropsOneByOne ==
    ASSUME \A p, q \in Procs : p = q
    PROVE  Spec => DropTakesItsCollection
<1>1. TypeOK /\ SerialInv /\ SerialInv' /\ [Next]_vars
          => [\A p \in Procs : Takes(p)]_vars
  <2> SUFFICES ASSUME TypeOK, SerialInv, SerialInv', Next, NEW p \in Procs,
                      At(p, "drop"), frame'[p].pc = "reply"
               PROVE  Taken(frame[p].name, frame[p].coll, frame'[p].status)
    BY DEF Takes
  <2>1. DropCommit(p) \/ StatementFails(p)
    BY DropAnswers
  <2>2. frame[p].name \in Registered
    BY NoneAssumption DEF SerialInv, Fresh, At, TypeOK, LocalsOK, Registered
  <2>3. BackingTables /\ BackingTables'
    BY DEF SerialInv
  <2>. QED BY <2>1, <2>2, <2>3, DropTakes
<1>. QED BY <1>1, SerialInit, SerialStep, CatalogTypes, PTL
     DEF Spec, DropTakesItsCollection, Takes

-----------------------------------------------------------------------------
(***************************************************************************)
(* Registries nobody renames in, with table names that do not collide.     *)
(***************************************************************************)
DistinctTables ==
    \A m, n \in Names :
        /\ MainTable[m] = MainTable[n] => m = n
        /\ MainTable[m] # FtsOf[MainTable[n]]

NamedAfter(c, n) == c.table = MainTable[n]

NamedInv ==
    /\ BackingTables /\ NoAliasing
    /\ \A n \in Registered : NamedAfter(registry[n], n)
    /\ \A n \in Names : tables[MainTable[n]] # None => n \in Registered
    /\ \A p \in Procs :
        At(p, "drop") => NamedAfter(frame[p].coll, frame[p].name)

LEMMA NamedTablesDiffer ==
    ASSUME DistinctTables, NEW m \in Names, NEW n \in Names, m # n,
           NEW c \in Entry, NEW d \in Entry, NamedAfter(c, m), NamedAfter(d, n)
    PROVE  TablesOf(c) \cap TablesOf(d) = {}
<1>1. MainTable[m] \in MainTables /\ MainTable[n] \in MainTables
  BY DEF MainTables
<1>2. FtsOf[MainTable[m]] # FtsOf[MainTable[n]]
  BY <1>1, TableAssumption DEF DistinctTables
<1>. QED BY <1>2 DEF DistinctTables, NamedAfter, TablesOf

LEMMA NamedDrop ==
    ASSUME TypeOK, NEW p \in Procs, DropCommit(p), NamedInv, DistinctTables
    PROVE  BackingTables' /\ NoAliasing'
<1> DEFINE n == frame[p].name
           c == frame[p].coll
<1>1. n \in Names /\ c \in Entry /\ NamedAfter(c, n)
  BY DEF DropCommit, At, TypeOK, LocalsOK, NamedInv
<1>2. CASE UNCHANGED db
  BY <1>2, UnchangedTables DEF NamedInv
<1>3. CASE /\ tables' = [t \in SqlTables |->
                            IF t \in TablesOf(c) THEN None ELSE tables[t]]
           /\ registry' = [registry EXCEPT ![n] = None]
  <2> HIDE DEF n, c
  <2>1. Registered' = Registered \ {n}
    BY <1>1, <1>3 DEF Registered, TypeOK
  <2>2. ASSUME NEW m \in Registered'
        PROVE  /\ m \in Registered /\ registry'[m] = registry[m]
               /\ registry[m] \in Entry /\ Backed(registry[m])
               /\ TablesOf(registry[m]) \cap TablesOf(c) = {}
    <3>1. m \in Registered /\ m # n /\ m \in Names
      BY <2>1 DEF Registered
    <3>2. registry'[m] = registry[m] /\ registry[m] \in Entry
      BY <1>3, <3>1 DEF Registered, TypeOK
    <3>3. NamedAfter(registry[m], m) /\ Backed(registry[m])
      BY <3>1 DEF NamedInv, BackingTables
    <3>4. TablesOf(registry[m]) \cap TablesOf(c) = {}
      BY <1>1, <3>1, <3>2, <3>3, NamedTablesDiffer
    <3>. QED BY <3>1, <3>2, <3>3, <3>4
  <2>3. ASSUME NEW m \in Registered'
        PROVE  Backed(registry[m])'
    <3>1. \A t \in TablesOf(registry[m]) : tables'[t] = tables[t]
      BY <1>3, <2>2, EntryTables
    <3>2. Backed(registry[m]) /\ registry'[m] = registry[m]
      BY <2>2
    <3>. QED BY <3>1, <3>2 DEF Backed, TablesOf
  <2>4. BackingTables'
    BY <2>3 DEF BackingTables, Backed
  <2>5. NoAliasing'
    BY <2>2 DEF NoAliasing, NamedInv, TablesOf
  <2>. QED BY <2>4, <2>5
<1>. QED BY <1>2, <1>3 DEF DropCommit

LEMMA NamedStep ==
    ASSUME TypeOK, TypeOK', NamedInv, DistinctTables, "rename" \notin Ops,
           [Next]_vars
    PROVE  NamedInv'
<1>1. CASE UNCHANGED vars
  BY <1>1, UnchangedTables DEF NamedInv, vars, db, NamedAfter, Registered, At
<1>2. CASE Crash
  BY <1>2, UnchangedTables
     DEF NamedInv, Crash, db, NamedAfter, Registered, At, Idle
<1>3. ASSUME NEW p \in Procs, Serve(p)
      PROVE  NamedInv'
  <2>1. /\ BackingTables' /\ NoAliasing'
        /\ \A n \in Registered' : NamedAfter(registry'[n], n)
    <3>1. CASE UNCHANGED db
      BY <3>1, UnchangedTables DEF NamedInv, db, NamedAfter, Registered
    <3>2. ASSUME NEW n \in Names, NEW vector \in BOOLEAN, Creates(n, vector)
          PROVE  /\ BackingTables' /\ NoAliasing'
                 /\ \A m \in Registered' : NamedAfter(registry'[m], m)
      <4>1. BackingTables' /\ NoAliasing'
        BY <3>2, CreateKeepsTables DEF NamedInv
      <4>2. /\ registry'[n] = [table |-> MainTable[n], vector |-> vector]
            /\ Registered' = Registered \cup {n}
            /\ \A m \in Registered : registry'[m] = registry[m]
        BY <3>2, CreateTables DEF NamedInv
      <4>. QED BY <4>1, <4>2 DEF NamedInv, NamedAfter
    <3>3. CASE DropCommit(p)
      <4>1. BackingTables' /\ NoAliasing'
        BY <3>3, NamedDrop
      <4>2. \A m \in Registered' : m \in Registered /\ registry'[m] = registry[m]
        <5>1. frame[p].name \in Names
          BY <3>3 DEF DropCommit, At, TypeOK, LocalsOK
        <5>. QED BY <3>3, <5>1 DEF DropCommit, db, Registered, TypeOK
      <4>. QED BY <4>1, <4>2 DEF NamedInv
    <3>. QED BY <1>3, <3>1, <3>2, <3>3, ServeWrites
  <2>2. ASSUME NEW q \in Procs, At(q, "drop")'
        PROVE  NamedAfter(frame'[q].coll, frame'[q].name)
    <3>1. CASE q = p
      <4>1. frame'[p].coll = registry'[frame'[p].name]
        BY <1>3, <2>2, <3>1, FreshStep DEF At
      <4>2. frame'[p].coll \in Entry /\ frame'[p].name \in Names
        BY <2>2, <3>1 DEF TypeOK, LocalsOK, At
      <4>3. frame'[p].name \in Registered'
        BY <4>1, <4>2, NoneAssumption DEF Registered
      <4>. QED BY <2>1, <3>1, <4>1, <4>3
    <3>2. CASE q # p
      <4>1. frame'[q] = frame[q]
        BY <1>3, <3>2, OthersWait
      <4>. QED BY <2>2, <4>1 DEF NamedInv, At
    <3>. QED BY <3>1, <3>2
  <2>3. ASSUME NEW m \in Names, tables'[MainTable[m]] # None
        PROVE  m \in Registered'
    <3>0. MainTable[m] \in SqlTables /\ MainTable[m] \in MainTables
      BY TableAssumption DEF MainTables
    <3>1. tables[MainTable[m]] # None => m \in Registered
      BY DEF NamedInv
    <3>2. CASE UNCHANGED db
      BY <2>3, <3>1, <3>2 DEF db, Registered
    <3>3. ASSUME NEW n \in Names, NEW vector \in BOOLEAN, Creates(n, vector)
          PROVE  m \in Registered'
      <4> DEFINE c == [table |-> MainTable[n], vector |-> vector]
      <4>1. /\ Registered' = Registered \cup {n}
            /\ \A t \in SqlTables \ TablesOf(c) : tables'[t] = tables[t]
        BY <3>3, CreateTables DEF NamedInv
      <4>2. m # n => MainTable[m] \notin TablesOf(c)
        BY DEF TablesOf, DistinctTables
      <4>. QED BY <2>3, <3>0, <3>1, <4>1, <4>2
    <3>4. CASE DropCommit(p)
      <4> DEFINE n == frame[p].name
                 c == frame[p].coll
      <4>1. n \in Names /\ c.table = MainTable[n]
        BY <3>4 DEF DropCommit, At, TypeOK, LocalsOK, NamedInv, NamedAfter
      <4>2. CASE UNCHANGED db
        BY <2>3, <3>1, <4>2 DEF db, Registered
      <4>3. CASE /\ tables' = [t \in SqlTables |->
                                 IF t \in TablesOf(c) THEN None ELSE tables[t]]
                 /\ registry' = [registry EXCEPT ![n] = None]
        <5>1. m # n
          BY <2>3, <3>0, <4>1, <4>3 DEF TablesOf
        <5>2. tables[MainTable[m]] # None
          BY <2>3, <3>0, <4>3
        <5>. QED BY <3>1, <4>3, <5>1, <5>2 DEF Registered, TypeOK
      <4>. QED BY <3>4, <4>2, <4>3 DEF DropCommit
    <3>. QED BY <1>3, <3>2, <3>3, <3>4, ServeWrites
  <2>. QED BY <2>1, <2>2, <2>3 DEF NamedInv, NamedAfter
<1>. QED BY <1>1, <1>2, <1>3 DEF Next

LEMMA NamedInit == Init => NamedInv
<1>1. \A n \in Names : MainTable[n] \in SqlTables
  BY TableAssumption
<1>. QED BY <1>1
     DEF Init, NamedInv, BackingTables, NoAliasing, Registered, At, Idle

\* When names lead to tables that do not collide and nobody renames, creates
\* and drops may interleave in any way, with any failures: a registered
\* collection has its tables, and no other collection has them.
THEOREM TablesWithoutRenames ==
    ASSUME DistinctTables, "rename" \notin Ops
    PROVE  Spec => [](BackingTables /\ NoAliasing)
<1>1. NamedInv => BackingTables /\ NoAliasing
  BY DEF NamedInv
<1>. QED BY <1>1, NamedInit, NamedStep, CatalogTypes, PTL DEF Spec

\* Under the same conditions, of any number of drops and creates that overlap,
\* those that answer 204 have taken a collection that was registered under
\* their name, with its tables and nothing of another collection: of two drops
\* that found the same collection, one takes it and the other one changes
\* nothing.
THEOREM DropsWithoutRenames ==
    ASSUME DistinctTables, "rename" \notin Ops
    PROVE  Spec => DropTakesItsCollection
<1>1. TypeOK /\ NamedInv /\ NamedInv' /\ [Next]_vars
          => [\A p \in Procs : Takes(p)]_vars
  <2> SUFFICES ASSUME TypeOK, NamedInv, NamedInv', Next, NEW p \in Procs,
                      At(p, "drop"), frame'[p].pc = "reply"
               PROVE  Taken(frame[p].name, frame[p].coll, frame'[p].status)
    BY DEF Takes
  <2>1. DropCommit(p) \/ StatementFails(p)
    BY DropAnswers
  <2>2. frame[p].name \in Names /\ NamedAfter(frame[p].coll, frame[p].name)
    BY DEF NamedInv, At, TypeOK, LocalsOK
  <2>3. tables[frame[p].coll.table] # None => frame[p].name \in Registered
    BY <2>2 DEF NamedInv, NamedAfter
  <2>4. BackingTables /\ BackingTables'
    BY DEF NamedInv
  <2>. QED BY <2>1, <2>3, <2>4, DropTakes
<1>. QED BY <1>1, NamedInit, NamedStep, CatalogTypes, PTL
     DEF Spec, DropTakesItsCollection, Takes

-----------------------------------------------------------------------------
(***************************************************************************)
(* What a create declares, and the parts of the two results above that     *)
(* are about the references and the names of tables only.                  *)
(***************************************************************************)
\* The locals of an answered request.
LEMMA AnswerLocals ==
    ASSUME TypeOK, NEW p \in Procs, NEW f \in Frame, NEW s, Answer(p, f, s)
    PROVE  /\ frame'[p].status = s /\ frame'[p].op = f.op
           /\ frame'[p].name = f.name /\ frame'[p].decl = f.decl
<1>1. frame'[p] = [f EXCEPT !.pc = "reply", !.status = s]
  BY DEF Answer, Goto, TypeOK
<1>. QED BY <1>1 DEF Frame

LEMMA CreateDeclares ==
    ASSUME TypeOK, Closed, NEW p \in Procs, CreateCollection(p),
           frame'[p].status = 201
    PROVE  {r \in refs' : r.owner = frame'[p].name} = frame'[p].decl
<1>0. PICK n \in Names, vector \in BOOLEAN :
          \E decl \in Declarations(n) : Create(p, n, vector, decl)
  BY DEF CreateCollection
<1>1. PICK decl \in Declarations(n) : Create(p, n, vector, decl)
  BY <1>0
<1> DEFINE f == [Arrived("create", n) EXCEPT !.decl = decl]
<1>2. f \in Frame /\ f.name = n /\ f.decl = decl
  BY ArrivedType, DeclType DEF AllOps, Arrived, Idle
<1> HIDE DEF f
<1>3. registry[n] = None /\ refs' = refs \cup decl /\ Answer(p, f, 201)
  <2>1. \/ Answer(p, f, 409)
        \/ Answer(p, f, 400)
        \/ registry[n] = None /\ refs' = refs \cup decl /\ Answer(p, f, 201)
    BY <1>1 DEF Create, f
  <2>. QED BY <1>2, <2>1, AnswerLocals
<1>4. frame'[p].name = n /\ frame'[p].decl = decl
  BY <1>2, <1>3, AnswerLocals
<1>5. \A r \in refs : r.owner # n
  BY <1>3 DEF Closed, Registered
<1>6. \A r \in decl : r.owner = n
  BY DeclType
<1>. QED BY <1>3, <1>4, <1>5, <1>6

LEMMA OthersDoNotCreate ==
    ASSUME TypeOK, NEW p \in Procs, Serve(p), ~CreateCollection(p),
           "drop" \notin Ops, frame'[p].op = "create"
    PROVE  frame'[p].status # 201
<1>0. frame[p] \in Frame /\ LocalsOK(frame[p])
  BY DEF TypeOK
<1>1. ASSUME NEW f, NEW s, f \in Frame, Answer(p, f, s), s # 201
      PROVE  frame'[p].status # 201
  BY <1>1, AnswerLocals
<1>2. ASSUME NEW f, Goto(p, f), f.status = None \/ f.op # "create"
      PROVE  frame'[p].status # 201
  <2>1. frame'[p] = f
    BY <1>2 DEF Goto, TypeOK
  <2>. QED BY <1>2, <2>1, NoneAssumption DEF Statuses
<1>3. CASE RenameCollection(p)
  <2>1. PICK old \in Names, new \in Names : Rename(p, old, new)
    BY <1>3 DEF RenameCollection
  <2> DEFINE f == Arrived("rename", new)
  <2>2. f \in Frame /\ [f EXCEPT !.pc = "fetch"].op = "rename"
    BY ArrivedType DEF AllOps, Arrived, Idle
  <2> HIDE DEF f
  <2>3. \/ \E s \in {404, 409, 500} : Answer(p, f, s)
        \/ Goto(p, [f EXCEPT !.pc = "fetch"])
    BY <2>1 DEF Rename, f
  <2>4. CASE \E s \in {404, 409, 500} : Answer(p, f, s)
    BY <1>1, <2>2, <2>4
  <2>5. CASE Goto(p, [f EXCEPT !.pc = "fetch"])
    BY <1>2, <2>2, <2>5
  <2>. QED BY <2>3, <2>4, <2>5
<1>4. CASE FetchRenamed(p)
  BY <1>0, <1>1, <1>4 DEF FetchRenamed
<1>5. CASE StatementFails(p)
  <2>1. \E f \in Frame, s \in {400, 500} : Answer(p, f, s)
    BY <1>0, <1>5, ArrivedType, WorkloadAssumption DEF StatementFails
  <2>. QED BY <1>1, <2>1
<1>6. CASE Respond(p)
  BY <1>2, <1>6 DEF Respond, Idle
<1>7. ~StartDrop(p) /\ ~DropCommit(p)
  BY <1>0 DEF StartDrop, DropCommit, LocalsOK, At
<1>. QED BY <1>3, <1>4, <1>5, <1>6, <1>7 DEF Serve

\* Without drops, a collection that is created has exactly the references its
\* create declared: none are left over from an earlier owner of the name, and
\* none are lost in the transaction.
THEOREM DeclaredWithoutDrops ==
    ASSUME "drop" \notin Ops
    PROVE  Spec => ReferencesAsDeclared
<1> DEFINE AsDeclared ==
      \A p \in Procs :
          (frame'[p] # frame[p] /\ frame'[p].op = "create"
                                /\ frame'[p].status = 201) =>
              {r \in refs' : r.owner = frame'[p].name} = frame'[p].decl
<1>1. TypeOK /\ GrowingInv /\ [Next]_vars => AsDeclared
  <2> SUFFICES ASSUME TypeOK, GrowingInv, [Next]_vars, NEW p \in Procs,
                      frame'[p] # frame[p], frame'[p].op = "create",
                      frame'[p].status = 201
               PROVE  {r \in refs' : r.owner = frame'[p].name} = frame'[p].decl
    OBVIOUS
  <2>1. ~Crash
    BY NoneAssumption DEF Crash, Idle, Statuses
  <2>2. Serve(p)
    BY <2>1, OthersWait DEF Next, vars
  <2>3. CreateCollection(p)
    BY <2>2, OthersDoNotCreate
  <2>. QED BY <2>3, CreateDeclares DEF GrowingInv
<1>. QED BY <1>1, GrowingInit, GrowingStep, CatalogTypes, PTL
         DEF Spec, ReferencesAsDeclared

\* As long as nobody drops a collection no two of them share an SQL table, not
\* even one's items with another one's index, whatever names and renames do.
THEOREM SharedByNobody ==
    ASSUME "drop" \notin Ops
    PROVE  Spec => []NoAliasing
BY TablesWithoutDrops, PTL

\* Nor does one reference a collection that is not there: createCollection looks
\* its targets up in the transaction that registers it, and a rename cascades.
THEOREM TargetsExist ==
    ASSUME "drop" \notin Ops
    PROVE  Spec => []TargetsRegistered
BY TablesWithoutDrops, PTL

=============================================================================
