# microserver in TLA+

Specifications of [microserver](../src/README.md), an HTTP server in Go over
SQLite and sqlite-vec: TLA+ modules, TLC configurations that check them on
small instances, and TLAPS proofs for every value of the parameters.
`PROJECT.json` is the index: components, runs, hazards, theorems, and for every
definition the lines of the source that it models.

    tlc -workers 4 -config DocsSerial.cfg MCDocuments   # one run
    tlapm CatalogProofs.tla                             # one module of proofs

## 1. The program

One process. `net/http` runs every request in a goroutine of its own; two
background loops checkpoint the WAL and back the database up. SQLite is used
through two pools (`vecdb.go:44-88`): **write**, with a single connection, and
**read**, with several. A statement or a transaction on the write pool is
therefore atomic, and WAL readers see it completely or not at all. *Between* two
statements of a handler nothing is held: no lock, no transaction that spans the
pools. Most of what can go wrong in this program lives there.

| Component | State | Operations | Talks to |
|---|---|---|---|
| Documents (`collections.go` 544-815, `fulltext.go`, `http_collections.go`) | `coll_<name>` tables, `coll_<name>_fts`, `sqlite_sequence` | insert, bulk insert, update, delete with `restrict`/`set_null` | registry (schema), Ollama (embedding) |
| Registry (`collections.go` 1-540) | `collections`, `collection_references`, the SQL tables that exist | create, drop, rename | Documents, through `getCollection` at the start of every handler |
| Users and tokens (`users.go`, `auth.go`, `http_users.go`) | `users`, the signing secret in memory, the tokens clients hold | bootstrap, login, create, delete, change, reset; `requireAuth`, `requireAdmin` | every route |
| `vec_items` (`vecdb.go`, `http.go`) | one fixed virtual table | insert, bulk, update, delete, query | Ollama |
| Rate limiter (`ratelimit.go`) | a token bucket per client in a map under a mutex | allow, pruneStale | every route; a second instance for login |
| Backups, checkpoints, shutdown (`maintenance.go`, `http_admin.go`, `main.go`) | the backup directory, the WAL, the stop channel | BackupRotate from the loop, from requests and at the end; checkpoint; Shutdown with a deadline | the write pool |
| Export (`http_collections.go` 511-583) | nothing but its offset | pages with LIMIT/OFFSET | Documents |
| Search, filters, sort, aggregation (`filters.go`, `aggregate.go`, `fulltext.go`, `vecdb.go`) | none: a query string becomes SQL | parse, two-phase vector query, hybrid query | Documents |
| Middleware: gzip, CORS, metrics, body limit | counters; per-response writer state | wrap, record, render | every route |
| Health (`health.go`) | none | two probes | the read pool, Ollama |

What makes it hard, and what would make each part correct:

- **Documents.** References are validated before an embedding call of unbounded
  length and used after it; a delete checks in the read pool and removes in the
  write pool; `set_null` works through rows one commit at a time, each with a
  copy loaded earlier; `insertDocument` writes row and index in two commits.
  Correct means: no dangling reference, an index that matches the rows, all or
  nothing for the writes that promise it, no effect outside what was asked for,
  an answer to every request.
- **Registry.** Names, tables and references are three mappings that must agree
  although renames keep `table_name`, `x_fts` is both a legal name and the
  suffix of an index, SQLite ignores case, and a drop acts on the row it read
  before its transaction. Correct means: a registered collection has its tables
  and shares none; no table is left that nobody can drop; references follow.
- **Users.** The last admin is protected by a count that precedes the DELETE; a
  password is verified against a row read earlier; roles travel inside tokens.
  Correct means: an admin remains, an acknowledged reset holds, and nothing
  changes an account except those who may.
- **Handles.** Every document handler looks its collection up once and works with
  what it found. Meanwhile the collection can be dropped, created again with the
  same table, or renamed, and references are read and followed by name. Correct
  means: a write reaches a collection that exists, and references hold.
- **Export** reads pages by offset, one query each. Correct means: nothing that was
  there all the time is missing, nothing comes twice.
- **Rate limiter.** Two buckets in a row for a login, one that is pruned and one
  that is not. Correct means: no window of time admits more than its bound, and
  nobody notices the pruning.
- **Backups.** The loop, every `POST /admin/backup` and the end of `main` rotate one
  directory with nothing between them; `VACUUM INTO` leaves partial files. Correct
  means: the newest files stay, a snapshot that is announced is there, the last
  one holds every acknowledged write, and a shutdown ends.
- **Middleware, search**: see section 5.

## 2. The modules

| Module | Models | |
|---|---|---|
| `Documents` | items, full-text index, ids, the four write operations | `MCDocuments`, `DocumentsProofs`, `DeletesAloneProofs` |
| `Catalog` | registry, references, SQL tables, create/drop/rename | `MCCatalog`, `CatalogProofs` |
| `ReferenceGraph` | abstract: a growing graph of collections | implemented by `Catalog` |
| `Users` | users table, tokens, clock, restarts | `MCUsers`, `UsersProofs`, `SessionsProofs` |
| `Store` | composition: document handlers with old handles, and export, over the steps of `Catalog` | `MCStore`, `StoreProofs` |
| `RateLimits` | both limiters, as a request passes them, and pruning | `MCRateLimits`, `RateLimitsProofs` |
| `TokenBucket` | abstract: buckets that are never forgotten | implemented twice by `RateLimits` |
| `Backups` | rotation by all its callers, the shutdown, crashes and restarts | `MCBackups`, `BackupsProofs` |
| `Retention` | abstract: files leave only while the newest stay | implemented by `Backups` |

They share one layout. The tables are variables. `frame[p]` holds the local
variables of the request that `p` is serving and, in `pc`, which statement comes
next; one action is one statement or one transaction of the handler, so that
TLC and the proofs interleave requests exactly where the program can. Handlers
answer by going to `reply`, where the status can be observed, and `Respond`
frees `p`. `Ops` and `Faults` say what clients do and what can fail in an
instance. An operator under a comment `\* Defect:` is a plausible mistake in the
operator next to it: put in its place it breaks one of the properties.
`PROJECT.json` lists which one.

### Documents

`rows[c][i]`, `fts[c][i]` and `seq[c]` are the items table, its FTS table and its
row of `sqlite_sequence`. A row is a body (text, or what is not a reference),
the values of the reference fields, and the kind of its `data`: a JSON object or
`null`, which has no fields. Other data (an array, a number) is refused wherever
references are declared, and is part of the body elsewhere.

| Code | Actions |
|---|---|
| `handleInsertDocument`, `insertDocument` | `StartInsert`, `CheckReference`*, `Prepared`/`EmbedFails`, `InsertRow`/`InsertRefused`, `InsertFullText` |
| `insertDocumentBulk` | `StartBulk`, per document `CheckReference`* and `Prepared`, then `BulkCommit`/`BulkRollback` |
| `updateDocument` | `StartUpdate`, `CheckReference`*, `Prepared`, `UpdateRow` |
| `deleteDocument`, `checkReferentialDelete` | `StartDelete`, per dependent `ScanDependent`, per row `LoadReferencing`, `CheckReference`*, `Prepared`, `NullRow`; then `RemoveRow` |
| an error of SQLite; a crash | `StatementFails`; `Crash` |

The set-null path goes through `updateDocument`, so it validates the *other*
references of the row again and embeds the text again; both can refuse, and then
the delete ends with rows already nulled. Dependents and rows are taken in any
order (the queries have no ORDER BY). Ids follow AUTOINCREMENT: the largest ever
plus one, an error when the last id is taken, an explicit id only if it is free.
Vector tables behave alike, since `vec0` keeps its rowids in an AUTOINCREMENT
table of its own. `LoadReferencing` decodes the row it loads into a map and
assigns to it: a row that has become `null` since the query gives a nil map, the
assignment panics (`collections.go:352-356`), `net/http` recovers the goroutine
and closes the connection. Such a request goes to `panic` instead of `reply`: it
ends without an answer. Left out: reads (they change nothing), the wording of
errors, invalid JSON.

### Catalog

`registry`, `refs` and `tables` are `collections`, `collection_references` and the
SQL tables that exist, by kind. `MainTable` and `FtsOf` are *parameters*: any
functions such that an index differs from its own table and two indexes differ
from each other. That covers the collisions above (a name whose table is another
one's index, two names with one table). `CreateCollection` is a transaction and
one action. `dropCollection` is `StartDrop` (read) and `DropCommit` (transaction).
`renameCollection` is `RenameCollection` and the handler's second lookup
`FetchRenamed`. The 400 of a create stands for every reason the transaction can
refuse, an SQL table already there included. Names are valid ones. The shadow
tables of `vec0` and `fts5` are left out: they come and go with their table, and
what their names would add is more collisions like `x_fts`.

### Users

`users`, the clock `now`, the number of `starts` (each start draws a new signing
secret, so its number identifies it), the `tokens` that clients hold, and `lost`,
a history variable: when an account of a given role was deleted. `StartServer`
includes `ensureBootstrapAdmin`. `Callers` is `validateToken` for the tokens
around; `AdminCallers` adds `requireAdmin`. `DeleteUser`, `CountAdmins` and
`RemoveUser` are the three statements of `deleteUser`. `ChangePassword` and
`ResetPassword` read and verify, `SetPasswordHash` is the UPDATE. A hash is
modelled as the password that matches it. bcrypt's refusal of passwords beyond 72
bytes is one of the ways a statement fails. Creating an account needs no read,
so it is one step. The router is not modelled: no request for the reset of a
user named `me` is refused here, although `PUT /users/me/password` takes those.

### Store

`Schema == INSTANCE Catalog` shares its variables: its steps create, drop and
rename, and the rows of a table that comes or goes are cleared with it
(`ServeSchema`). `rows[t]` is the contents of *SQL table* `t`, not of a
collection. `work[h]` is a document handler; its `coll` is what `getCollection`
returned at the start, and every statement goes to that table whatever the
registry says by then. A statement fails (500) on a table that is gone, or of a
kind the handle does not expect.

| Code | Actions |
|---|---|
| `getCollection` in each handler | `StartWrite`, `StartDelete`, `StartExport` |
| `validateReferences`, `checkReferentialDelete` | `ReadReferences`, per reference `FindOther` and `QueryOther`, `Checked` |
| `insertDocument` | `InsertRow`, `InsertText` |
| `updateDocument`, `deleteDocument` | `ChangeRow` |
| `handleExportDocuments` | `ExportPage`, once per page |

`watch` and `misled` are history variables: what happened to the documents an
export is reading, and whether a rename has come between two lookups of a
handler: the collection has lost the name under which its references are about to
be read, or a reference about to be followed has lost the names it was read with.
It is set by the rename and not where the name is used, because by then the names
may be back on other collections. `Documents` has the rest of the document operations
over a fixed schema; here all references are `restrict`, ids are explicit, and
there are no bulk requests, which interleave with the schema as inserts do.

### RateLimits

`buckets[l][k]` is the `tokenBucket` of client `k` in limiter `l`, or `None`. `allow`
and `pruneStale` hold the mutex, so each is one action (`Pass`, `PruneStale`); a
request for `/login` passes the general limiter and then its own, `/metrics`
none. Tokens are counted in whole fractions of a request, so that `rate *
elapsed` is exact; the floats of the code round that. The order of the prune
loop and its interval are left open: it may run whenever a bucket is stale.
`AgeAssumption` says what the constants of the program satisfy by far: `maxAge`
(100 minutes) is at least the time to refill a bucket (2 seconds).

### Backups

`frame[c]` is a `BackupRotate` of caller `c`: the loop, a request, or `main`.
`StartCopy` and `EndCopy` are the two ends of `VACUUM INTO`, with a partial file in
between; `List` is the `ReadDir` and each `RemoveOldest` one `Remove`. A file is
named after the instant its rotation began. `Commit` is a write request being
committed, at any time before the process ends; `Signal`, `Shutdown` (with a
deadline, so that it may return while requests go on), `Exit` are `main`. The
final checkpoint is left out since it changes no data. `Crash` may come at any
point; `Start` follows.

## 3. What is checked

Passing runs. Every property is explained above its definition, with the line
of the code or the document it comes from.

| Run | Instance | Shows |
|---|---|---|
| `DocsWrites` | a vector collection whose items reference their parent, ids 1..2, 2 requests; insert, bulk, update; all faults | `TypeOK`; `RefIntegrity` when nothing is deleted; `IndexDrift`: a row and its index entry part for good only where an insert ends between its two commits; `InsertsIndexed`: not when it answers 201; `AtomicOutcome`: what a bulk insert or an update stores, and that a refusal stores nothing |
| `DocsSerial` | author `set_null` and editor `restrict` on the same rows, objects and nulls, 1 request, all faults | `RefIntegrity` with deletes, after every commit of a set_null; `DeleteTouchesOnlyReferences`: a delete changes its row and the fields that pointed at it, nothing else; `NoPanic`: what it loads is what it has found; `IndexDrift` with deletes and nulled rows |
| `DocsLive` | 2 requests update and delete in databases full of references, objects and nulls, failing statements and embeddings, fairness | `EveryRequestAnswered`; `NoResurrection` |
| `CatSerial` | names `x`, `x_fts`, `X`, 1 request, crashes | `BackingTables`, `NoOrphanTables`, `DropTakesItsCollection` whatever names collide: a 204 has taken the collection, its tables and nothing of another one |
| `CatRename` | 3 names, 1 reference field, 2 requests; create, rename; faults | `NoAliasing`, `TargetsRegistered`, `ReferencesAsDeclared`; `GraphSpec`: the references implement `ReferenceGraph` |
| `UsersOneDeleter` | 2 users, 2 passwords, 2 requests with every operation, only one of which deletes | `AdminRemains`, `ChangesAuthorized` |
| `UsersSessions` | 1 request with every operation, 3 seconds, 2 starts | `RoleOutlivedByTTL`, `ChangesAuthorized` |
| `BackupsShutdown` | the loop, 1 request and `main`, 3 files kept, 5 instants, 1 write, 2 starts; crashes, copies of every caller that fail; fairness of `main` | `RetentionSpec`: the rotations implement `Retention`; `FinalBackup`: a drained shutdown leaves a snapshot of every write; `LastSnapshotOvertaken`: the last snapshot is lost only to a rotation that as many others as are kept have overtaken; `AloneLeavesKeep`; `AnswerNamesSnapshot`: what a 201 names is there and complete; `ShutdownEnds` |
| `RateLimits` | 1 client, 2 requests to every path, 5 units of time | `GeneralSpec`, `LoginSpec`: each limiter implements `TokenBucket`; `WindowBound` |
| `StoreExport` | 1 name with or without vectors, ids 1..3 in pages of 2; an export and a writer; create, drop, crash | `ExportSkipsNothing` unless a document is removed meanwhile; `ExportRepeatsNothing` unless one comes or goes below another; `WritesReachable`: whatever handle is used, only tables of registered collections change |
| `StoreRename` | names `item`, `Item`, `post`, a reference field, 1 writer; create, rename | `ResolveUnlessMisled`: references resolve unless a rename fell between two lookups by name |

**Bounds.** Two ids and two requests are what the races need: one row that is
about to go and one that points at it, one request that has looked and one that
acts meanwhile. `MaxId` is also the boundary where ids run out, which stands for
2^63-1. A batch of two is the smallest in which a later document collides with
an id that an earlier one was given automatically, and the batches include that
one. Three names allow a rename onto a name that was freed,
and in `CatSerial` both kinds of collision. With `TTL = 1`, three seconds
hold a token before, at and after its expiry, and two starts a token from an
earlier process. `MaxTime`, `MaxStarts` and `MaxTokens` only stop the clock,
restarts and logins from going on for ever, so the two passing Users runs and
`BackupsShutdown` do not check deadlock: once the starts are used up and the
process has stopped, nothing can happen. All other passing runs check it.

Three ids and pages of two give an export a full page and another one after it,
and room for a document to come or go on either side. One name is enough there,
since a collection that is dropped and created again has the same table. In
`StoreRename` the second name of a table makes renames possible while two other
names are taken, without a third table. In `BackupsShutdown` three files are kept
and five instants pass, so that copies that fail and crashes do push the last
complete snapshot out, in a rotation that three others have overtaken. The
program keeps 7, with no lock around rotations: nothing but the size of the read
pool (`vecdb.go:83`) bounds how many run at once, and any of their copies can
fail. `BackupsFewKept` shows the loss with two files and no failure at all. In `RateLimits` a token takes one unit of time to refill in the
general limiter and two in the other, and a bucket is forgotten after three, so
that it is refilled, forgotten and seen again before the clock stops. Symmetry is used for
requests and bodies in runs without liveness properties, where both are model
values.

**Fairness.** In `Documents`, `FairSpec` has weak fairness of every step of a request
but one: the goroutine of a request is scheduled again and again, and a statement
returns (`busy_timeout` bounds the wait for the write connection). A step that
calls Ollama is not fair (`WaitsForOllama`): `embedding.go:38` calls `http.Post`, whose
client has no timeout. `EveryRequestAnswered` therefore lets a request wait there
for ever, and says that it ends otherwise. Nothing is assumed about clients, about
which row or dependent comes first, or about other requests.
In `Backups` only `main` is fair, from the signal on (`Shutdown`, its own
rotation, `Exit`): the deadline of `srv.Shutdown` and the copy of `VACUUM INTO` end.
Requests may hang and the loop may never be scheduled again.

**The limits of the passing runs are deliberate**: each of them stops where the
program stops being right, and the run next to it shows the counterexample.

### Counterexamples

One is a run of its own:

- `DocsRestrictRace` (`RefIntegrity`): an insert looks its target up, a `restrict`
  delete finds nobody that points at it and removes it, the insert commits. The
  delete's queries run outside its transaction (`collections.go:779`).

Others were met on the way. Their configurations are kept and can be run in the
same manner; TLC reports the property of the second column as violated.

| Configuration | Property | What happens |
|---|---|---|
| `DocsTwoDeletes` | `RefIntegrity` | two `set_null` deletes write copies of one post over each other; the second restores the reference the first one nulled (README.md:562) |
| `DocsLostUpdate` | `DeleteTouchesOnlyReferences` | the copy that `set_null` writes back undoes an update made since it was loaded (references_test.go:159-160) |
| `DocsPanic` | `NoPanic` | an update makes a referencing row `null` between the query of a delete and its load: the delete panics and its client has no answer (collections.go:352-356) |
| `DocsRefused` | `RefusedDeleteChangesNothing` | a delete nulls its `set_null` dependents and then meets a `restrict` one: 409, but "no borra nada" (README.md:669) is only true of removed rows |
| `DocsTorn` | `SettledSync` | a crash between the two commits of `insertDocument` leaves a row that full-text search never finds (fulltext.go:47-49) |
| `DocsOrphan` | `SettledSync` | a delete between those two commits leaves an index entry without a row (README.md:780) |
| `CatOldName` | `FreshNameAccepted` | after a rename, creating the old name again is refused with 400, because the table of that name still belongs to the renamed collection (README.md:564) |
| `CatStaleRefs` | `ReferencesAsDeclared` | a dropped collection's references are inherited by the next one of that name (collections.go:22) |
| `CatLostTarget` | `TargetsRegistered` | the target of a reference is dropped; every insert with that field set is then refused (http_collections.go:20-21) |
| `CatDropRename` | `BackingTables` | a drop reads the registry, a rename commits, the drop removes the tables and deletes the row *by the old name*: the collection is registered under its new name and has no table (collections.go:449-468, README.md:590) |
| `UsersTwoDeletes` | `AdminRemains` | two deletes of the last two admins both count two (users.go:138-140, 152) |
| `UsersLostReset` | `ChangeReplacesVerified` | a password change verified before an admin's reset overwrites it (users.go:191-192) |
| `UsersGoneReset` | `ResetTakesEffect` | a reset of an account that is deleted before its UPDATE answers 204 (README.md:368) |
| `RateLogin` | `LoginHasItsOwnLimit` | the general limiter wraps the router, `/login` included, and can refuse a login (main.go:19-20 and README.md:747 say otherwise) |
| `BackupsTwo` | `AtMostKeep` | one rotation lists the directory before the file of another appears: more than `keep` stay until the next one (README.md:66) |
| `BackupsFewKept` | `SnapshotStays` | with fewer files kept than rotations at the same time, the partial ones push the last complete snapshot out (maintenance.go:71) |
| `BackupsClockBack` | `FinalBackup` | the clock is set back: the newest snapshot has the smallest name and is pruned by its own rotation |
| `StoreExportDelete` | `ExportComplete` | a document removed between two pages moves the next page up by one, and a document that was there all the time is skipped (http_collections.go:514) |
| `StoreIndex` | `IndexInStep` | a collection is dropped and created again between the two commits of an insert: an index row without a document |
| `StoreMisled` | `ReferencesResolve` | a rename between `getCollection` and the lookup of references: there are none under the old name, so nothing is validated (collections.go:261) |

Three more configurations are not among the listed runs and hold: `DocsIndex`
(`IndexDrift` and `AtomicOutcome` with two requests, all four operations and every
fault), `CatDrops` (`BackingTables` with two requests that create and drop three
names) and `CatTwoDrops` (`DropTakesItsCollection` with two requests that create and
drop two names, failing statements and crashes; the second of two drops finds no
table and answers 500, README.md:582 has 404). They show `OnlyInsertsDrift`,
`TablesWithoutRenames` and `DropsWithoutRenames` on other instances than the runs do.

`ChangeReplacesVerified` and `ResetTakesEffect` belong to no passing run: where no
other request can come between the check and the UPDATE they only say what the
UPDATE does, and where one can they do not hold.

`RoleOutlivedByTTL` is checked one request at a time: a login that has read its
row when the account is deleted still gets a token, so with concurrent logins
the bound is TTL plus the duration of a login.

## 4. What is proved

For any number of collections, documents, names, requests and restarts.

| Theorem | Says | Rests on |
|---|---|---|
| `DocumentsProofs!TypeCorrect` | `TypeOK`, always | |
| `DocumentsProofs!RefIntegrityWithoutDeletes` | no dangling reference if nobody deletes | `"delete" \notin Ops` |
| `DocumentsProofs!OnlyInsertsDrift` | `IndexDrift`, deletes, faults and crashes included | nothing |
| `DocumentsProofs!SuccessIsIndexed` | `InsertsIndexed`, faults, crashes and entries missing from earlier ones included | `"delete" \notin Ops` |
| `DocumentsProofs!OutcomesAtomic` | `AtomicOutcome`, in every step, whatever races, fails or crashes | nothing |
| `DocumentsProofs!NothingComesBack` | `NoResurrection` | nothing |
| `DeletesAloneProofs!RefIntegrityDeletesAlone` | no dangling reference, deletes with restrict and set_null included | `[]DeletesAlone`: nothing else is under way while a delete is |
| `DeletesAloneProofs!DeletesAloneTouchReferences` | `DeleteTouchesOnlyReferences` | the same |
| `DeletesAloneProofs!DeletesAloneDoNotPanic` | `NoPanic` | the same |
| `CatalogProofs!CatalogTypes` | `TypeOK`, always | |
| `CatalogProofs!TablesWithoutDrops` | backing tables, no sharing, registered targets | no drops |
| `CatalogProofs!GraphImplemented` | `Catalog` implements `ReferenceGraph` | no drops |
| `CatalogProofs!SharedByNobody`, `TargetsExist` | its parts `NoAliasing` and `TargetsRegistered` | no drops |
| `CatalogProofs!DeclaredWithoutDrops` | `ReferencesAsDeclared` | no drops |
| `CatalogProofs!TablesOneByOne` | backing tables, no sharing, no orphans; drops and renames included | one request at a time |
| `CatalogProofs!DropsOneByOne` | `DropTakesItsCollection`, crashes and failing statements included | the same |
| `CatalogProofs!DropsWithoutRenames` | `DropTakesItsCollection` with concurrent creates and drops, crashes and failing statements | no renames, names with tables of their own |
| `CatalogProofs!TablesWithoutRenames` | backing tables, no sharing, with concurrent creates and drops | no renames, names with tables of their own |
| `StoreProofs!StoreTypes` | `TypeOK`, always | |
| `StoreProofs!CatalogImplemented` | the registry of `Store` is a `Catalog`: `Spec => CatP!Spec` | nothing |
| `StoreProofs!WritesOneByOne` | `WritesReachable`, for any number of document requests and any age of their handles | creates, drops and renames one at a time |
| `StoreProofs!NothingSkipped` | `ExportSkipsNothing`, for any `PageSize`, any number of exports and writers, and any creates, drops and renames | nothing |
| `StoreProofs!NothingRepeated` | `ExportRepeatsNothing`, likewise | nothing |
| `StoreProofs!RenamesAloneMislead` | `ResolveUnlessMisled`, for any names, tables that collide, concurrent creates and renames, any age of a handle, crashes and failing statements | no drops; a delete overlaps no insert or update of another request |
| `UsersProofs!UsersTypes` | `TypeOK`, always | |
| `UsersProofs!LastAdminRemains` | an admin remains | at most one request deletes |
| `UsersProofs!OnlyAuthorizedChanges` | `ChangesAuthorized` | nothing |
| `SessionsProofs!RoleEndsWithTTL` | `RoleOutlivedByTTL`, over restarts | no login overlaps a delete by another request |
| `BackupsProofs!BackupTypes` | `TypeOK`, always | |
| `BackupsProofs!RetentionImplemented` | `Backups` implements `Retention`, for any number of requests, any faults and any clock | nothing |
| `BackupsProofs!FinalBackupKept` | `FinalBackup`, whatever the loop, failed copies and crashes do | the clock moves on between two rotations, `Keep >= 2` |
| `BackupsProofs!AnswersHold` | `AnswerNamesSnapshot`, whatever `Keep`, failed copies and crashes | the clock moves on between two rotations |
| `BackupsProofs!AloneKeeps` | `AloneLeavesKeep`, for any files left before, any faults and any clock | nothing |
| `BackupsProofs!LastSnapshotKept` | `LastSnapshotOvertaken`, for any number of requests, crashes and copies that fail | the clock moves on between two rotations |
| `RateLimitsProofs!LimiterTypes` | `TypeOK`, always | |
| `RateLimitsProofs!GeneralImplemented` | the pruned limiter implements `TokenBucket` | `AgeAssumption` |
| `RateLimitsProofs!LoginImplemented` | the limiter of the login implements it | |
| `RateLimitsProofs!WindowsBounded` | `WindowBound` for every limiter, client and window | `AgeAssumption` |

Where a theorem has a hypothesis, a counterexample of section 3 shows what happens
without it: the two together say how far the code keeps its promises.

**The arguments.** A safety property of handlers that take several steps is never
inductive: one has to say what a handler *knows* between its steps.

- `RefInv` adds to `RefIntegrity` that every lookup a handler has made still holds
  (`Checked`): of the documents before `k`, all references; of document `k`, those
  not in `todo`. Without deletes a row never vanishes, so knowledge is stable
  (`CheckedStable`), and a write stores only rows whose references were all looked
  up (`GoodWrite`).
- `AloneInv` does the same for a delete that is alone (`Knows`): nothing points at
  its document through a reference it has dealt with, `ids` are exactly the rows
  it still has to null (`Pointing`), and the copy it is about to write back is that
  of the row with the one field nulled. Every other request in flight is then
  idle or answered, so nothing it knows can go stale, and a null leaves no new
  reference to resolve (`NullGood`).
- `BlankInv`, for `DeletesAloneDoNotPanic`, says that a null has no reference that
  is set, neither in the tables nor in a document on its way there: so the rows a
  delete has found are objects, and alone it finds them as they were.
- `OutcomesAtomic`, `OnlyInsertsDrift` and `SuccessIsIndexed` rest on what each write
  does to every row and entry (`BulkStep`, `ReplaceStep`, `RemoveStep`,
  `InsertRowStep`, `FullTextStep`) and on all other steps changing no table
  (`OtherSteps`). The first two need no invariant besides the types: a step that
  stores or removes a row deals with its entry as well (`KeepsEntry`), and ids are
  assigned without repetition, so that each document of a batch has a row of its
  own (`BulkLands`). `PendingInv`, for the third, says of an insert between its two
  commits that its row is there and, as long as the entry is missing, still has
  its text: without deletes the only one who writes that entry before it is an
  update, and then the insert answers 500.
- `SerialInv` adds to the three table invariants that a drop still knows what the
  registry says (`Fresh`), which is true of a single request and false of two.
  `NamedInv` replaces this by something that survives concurrency without renames:
  the collection a drop remembers has the table its *name* leads to, so that it
  cannot harm a collection of another name, and a table that is there belongs to
  the name that leads to it, so that a drop that finds its tables finds its
  collection registered. `GrowingInv` adds that references are
  between registered collections only (`Closed`), which the refinement needs.
- The refinement maps a collection to its table. A rename moves names and
  references together and changes neither nodes nor edges, so it is a stutter
  (`GraphRename`); a create adds a node and its edges (`GraphCreate`).
- `Store` is built from the steps of `Catalog`, so its registry is one
  (`CatalogImplemented`: a document request stutters), and what is proved of
  `Catalog` is used here without proving it again. `WritesOneByOne` follows from
  three invariants: a table that is not there has no rows (`StoreTypes`), before
  and after a step, so what is written is a table that is there; and that one
  belongs to a collection (`TablesOneByOne`).
- `ExportInv` states what an export between two pages relies on, in terms of
  `Rank`, the number of rows before a row: a document that was there all the
  time has been read or has at least as many rows before it as were read
  (`NoneSkipped`); and with no insert below, the k-th document read is the k-th
  row (`InOrder`). Inserts only raise ranks (`RankGrows`); a page holds the rows
  of the next ranks, because the ranks of a finite set are exactly the numbers
  below its size (`RankSurjective`, by counting and not by induction).
- `ResolveInv`, for `RenamesAloneMislead`, says of a handler that no rename has misled
  that it is *on its course*: its collection is still registered, if under another
  name, and what it has still to follow is still there under the names it read.
  Then every reference that concerns it is to be looked at, being looked at, or
  dealt with (`Covered`). What it has looked at are tables, and `Carried` says that
  creates and renames leave the rows, tables and references of every collection
  that was there alone, up to names, and add references of empty collections only.
  Two names are never one table here, because the registry is a `Catalog`.
- `AdminInv` adds what a delete has learnt when it is about to remove an account:
  there is an admin besides that account. For a read-only account that is any
  admin, for an admin it is the count (`CountedTwo`); creates, changes and resets
  keep every admin, and no other delete is under way.
- `EntitledInv` says that a handler about to write acts for an admin or, in a
  password change, for the caller's own account.
- `TokensInv` relates every token to its account: the user has the role still, or
  the token expires at most `TTL` after the user lost it (`Backed`). A restart forgets nothing of this, and a token
  signed with the key of an earlier start is refused.
- `RetentionImplemented` needs to know of a rotation that is removing files that each of
  those it has still to remove has at least `Keep` newer ones *now* (`PendingOK`),
  not only in its listing: other rotations only remove from the old end, so that
  what is above stays.
- `LastInv`, for `FinalBackupKept`, follows the file of main's rotation. Once main has
  begun only the loop can begin another one, and only with the tick that is already
  in its channel, so at most one file is newer than main's (`YoungOK`); with
  `Keep >= 2` nobody removes main's (`FewAbove`, which uses `PendingOK`), and no
  write commits any more (`MainOK`), so its content stays current (`Saved`).
- `OwnInv`, for `AnswersHold`, says that two rotations never have the same name and
  none has the name of a file that was there before (`NamesApart`, `ClockOK`): what
  `os.Stat` finds under a request's name is what that request has written
  (`OwnFile`), or nothing.
- `AloneKeeps` counts. A rotation that is alone knows that what it will leave is at
  most `Keep` files (`AloneInv`). When it lists, the names it will remove are those
  with `Keep` newer ones; the survivors have different numbers of files above them,
  all below `Keep` (`LowerHasMore`), so there are at most `Keep` (`SurplusLeaves`).
- `HeldInv`, for `LastSnapshotKept`, says that the file of a rotation is there from
  the begin of its copy to its last removal, unless `Keep` rotations have begun
  since (`Held`): to be removed it needs `Keep` files above it (`PendingOK`), and while
  the clock moves on those are of rotations begun later (`AboveClock`). A rotation
  that removes has a complete file of its own, so that what it removes is the last
  one only if it is its own file or that one is gone.
- `GeneralImplemented` maps a bucket to the level it would have now, and one that is
  not there to a full one. `allow` then is an admission or a refusal, the clock
  refills, and forgetting a bucket is a stutter, because by `AgeAssumption` its
  level is full. `WindowsBounded` adds to the types that what a limiter admitted
  since any earlier admission, plus what is in the bucket, is at most the burst
  plus what that time refilled.

Assumptions on constants are the named `ASSUME`s of each module; TLC evaluates
them in every run. They are as weak as the code allows: for instance the
databases `Documents` starts from need only be consistent, with the index in
step, and may hold any documents.

**Only model-checked.** Every invariant, action property and refinement that a
passing run checks is also a theorem, for all values of the constants.
`EveryRequestAnswered` and `ShutdownEnds` stay with TLC: the proof system used here handles neither
fairness nor ENABLED. The same holds for what a recursive definition computes
for every input, since induction theorems cannot be instantiated; no module with
a theorem uses a RECURSIVE operator.

## 5. What is not modelled, and why

- **Fixed table** (`vec_items`): one statement or one transaction per request on a
  table without references, index or registry. Whatever it can do, `Documents`
  does with more in its way.
- **Search, filters, sort, aggregation**: reads that turn a query string into one SQL
  statement. They change nothing; what could be wrong is parsing, and the
  recall of a two-phase vector query (`limit*8` candidates, `vecdb.go:333`), which
  depends on distances and not on the order of steps.
- **Middleware** (gzip, CORS, metrics, body limit): the state of one response, or
  counters under a mutex; sequential code. The table of routes is fixed, with its
  one surprise: `PUT /users/me/password` shadows the reset of a user named `me`.
- **Connection pools**: that a statement waits for the one write connection, or fails
  after `busy_timeout`, is one of the ways a statement fails. The checkpoint moves
  pages and changes no data.
- **Health** (two reads) and third-party code (SQLite, sqlite-vec, bcrypt, the Go
  runtime), except through what the statements of this code get from it; the text
  of messages, logs and OpenAPI documents.

Worth doing next: bulk requests and `set_null` in `Store`; two exports at once.
