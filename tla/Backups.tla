------------------------------- MODULE Backups -------------------------------
(***************************************************************************)
(* The snapshots of the database (maintenance.go, backupTo in vecdb.go)    *)
(* and the shutdown that takes the last one (main.go).  BackupRotate is    *)
(* called by the periodic loop, by every POST /admin/backup and, at the    *)
(* end, by main: nothing keeps these callers apart.  VACUUM INTO runs on   *)
(* the read pool, next to the writes; its target is in the directory       *)
(* before it is complete, and stays there if the process dies.             *)
(***************************************************************************)
EXTENDS Naturals, FiniteSets

CONSTANTS
    Admins,     \* the POST /admin/backup requests in flight at the same time
    Loop,       \* the goroutine of StartBackupLoop
    Main,       \* main itself, with the final backup
    Keep,       \* backupKeep
    Faults,     \* what can happen: "crash", "clock" (the wall clock stands
                \* still or is set back)
    Failing,    \* the callers whose VACUUM INTO can fail, by a full disk
    MaxName,    \* bound: the last instant the clock shows; the last ones are
                \* left to the final backups
    MaxWrites,  \* bound on the write requests of a run
    MaxStarts   \* bound on how often the process is started

Callers == Admins \cup {Loop, Main}
Names == 1..MaxName     \* a file is named after the instant of its rotation

ASSUME CallerAssumption == Loop # Main /\ {Loop, Main} \cap Admins = {}
ASSUME BoundAssumption ==
    {Keep, MaxName, MaxWrites, MaxStarts} \subseteq Nat /\ Keep # 0

VARIABLES
    stage,      \* how far main has come
    starts,     \* how often the process was started
    drained,    \* Shutdown returned nil: every request had been answered
    clock,      \* what the wall clock showed last
    tick,       \* the loop's ticker has fired (its channel holds one tick)
    pending,    \* write requests being handled
    committed,  \* writes that are committed, and acknowledged
    files,      \* files[n]: the state of the backup named n
    frame       \* frame[c]: the local variables of the rotation of c

disk == <<committed, files>>
vars == <<stage, starts, drained, clock, tick, pending, disk, frame>>

Stages == {"serving", "draining", "final", "exited", "crashed"}
Down == {"exited", "crashed"}
Labels == {"idle", "copy", "copying", "list", "remove", "stat", "reply"}

NoFile == [kind |-> "none", content |-> 0]
File == {NoFile} \cup [kind : {"partial", "complete"}, content : Nat]

Frame ==
    [pc : Labels,
     name : Nat,                \* the name of its snapshot, 0 for none
     old : SUBSET Names,        \* what pruneBackups has still to remove
     result : {"none", "ok", "failed"},  \* of BackupRotate, then of the request
     path : BOOLEAN,            \* BackupRotate returns the path of a snapshot
     since : Nat,               \* history: writes acknowledged at the start
     alone : BOOLEAN]           \* history: no other rotation ran meanwhile

Idle == [pc |-> "idle", name |-> 0, old |-> {}, result |-> "none", path |-> FALSE,
         since |-> 0, alone |-> FALSE]

Present == {n \in Names : files[n] # NoFile}
Complete == {n \in Names : files[n].kind = "complete"}

At(c, label) == frame[c].pc = label
Rotating(c) == frame[c].pc \in {"copy", "copying", "list", "remove"}
Goto(c, f) == frame' = [frame EXCEPT ![c] = f]

main == <<stage, starts, drained>>
work == <<tick, pending, committed>>

-----------------------------------------------------------------------------
Init ==
    /\ stage = "serving" /\ starts = 1 /\ drained = FALSE
    /\ clock = 0 /\ tick = FALSE
    /\ pending = 0 /\ committed = 0
    /\ files = [n \in Names |-> NoFile]
    /\ frame = [c \in Callers |-> Idle]

(***************************************************************************)
(* Write requests: they arrive while the server listens, and commit        *)
(* whenever they get to it, until the process ends.                        *)
(***************************************************************************)
Arrive ==
    /\ stage = "serving" /\ committed + pending < MaxWrites
    /\ pending' = pending + 1
    /\ UNCHANGED <<main, clock, tick, disk, frame>>

\* Defect: a request is taken off the books twice.
CommitUncounted ==
    /\ stage \notin Down
    /\ pending' = pending - 1 /\ committed' = committed + 1
    /\ UNCHANGED <<main, clock, tick, files, frame>>

Commit ==
    /\ stage \notin Down /\ pending > 0
    /\ pending' = pending - 1 /\ committed' = committed + 1
    /\ UNCHANGED <<main, clock, tick, files, frame>>

(***************************************************************************)
(* BackupRotate.  The loop's select picks any channel that is ready: with  *)
(* a tick waiting it may rotate once more although stop is closed.         *)
(***************************************************************************)
Tick ==
    /\ stage = "serving" /\ ~tick
    /\ tick' = TRUE
    /\ UNCHANGED <<main, clock, pending, disk, frame>>

\* Defect: the final backup does not wait for Shutdown.
CalledEarly(c) ==
    \/ c \in Admins /\ stage = "serving"
    \/ c = Loop /\ tick
    \/ c = Main /\ stage \in {"draining", "final"}

Called(c) ==
    \/ c \in Admins /\ stage = "serving"
    \/ c = Loop /\ tick
    \/ c = Main /\ stage = "final"

Instants(c) ==
    {now \in Names :
        /\ "clock" \in Faults \/ now = clock + 1
        /\ c = Main \/ now < MaxName - (MaxStarts - starts)}

Begin(c) ==
    /\ stage \notin Down /\ At(c, "idle") /\ Called(c)
    /\ \E now \in Instants(c) :
        /\ clock' = now
        /\ frame' = [d \in Callers |->
                IF d = c THEN [Idle EXCEPT !.pc = "copy", !.name = now,
                                           !.since = committed,
                                           !.alone = ~\E e \in Callers : Rotating(e)]
                ELSE [frame[d] EXCEPT !.alone = FALSE]]
    /\ tick' = (tick /\ c # Loop)
    /\ UNCHANGED <<main, pending, disk>>

(* VACUUM INTO fails on a name that is taken; what it has written so far   *)
(* stays where it is when it fails later on.                               *)
Returned(f, c, ok, path) ==
    [f EXCEPT !.pc = IF ok /\ c \in Admins THEN "stat" ELSE "reply",
              !.old = {}, !.result = IF ok THEN "ok" ELSE "failed",
              !.path = path]

StartCopy(c) ==
    LET f == frame[c] IN
    /\ At(c, "copy")
    /\ \/ /\ files[f.name] = NoFile
          /\ files' = [files EXCEPT ![f.name] =
                          [kind |-> "partial", content |-> committed]]
          /\ Goto(c, [f EXCEPT !.pc = "copying"])
       \/ /\ files[f.name] # NoFile
          /\ Goto(c, Returned(f, c, FALSE, FALSE))
          /\ UNCHANGED files
    /\ UNCHANGED <<main, clock, work>>

\* A file that another rotation has unlinked meanwhile stays unlinked.
EndCopy(c) ==
    LET f == frame[c] IN
    /\ At(c, "copying")
    /\ files' = IF files[f.name] = NoFile THEN files
                ELSE [files EXCEPT ![f.name].kind = "complete"]
    /\ Goto(c, [f EXCEPT !.pc = "list"])
    /\ UNCHANGED <<main, clock, work>>

\* Defect: the directory is pruned although the copy has failed.
CopyFailsPrunes(c) ==
    /\ c \in Failing
    /\ At(c, "copying")
    /\ Goto(c, [frame[c] EXCEPT !.pc = "list"])
    /\ UNCHANGED <<main, clock, work, files>>

CopyFails(c) ==
    /\ c \in Failing
    /\ At(c, "copying")
    /\ Goto(c, Returned(frame[c], c, FALSE, FALSE))
    /\ UNCHANGED <<main, clock, work, files>>

(***************************************************************************)
(* pruneBackups: one ReadDir, then one Remove after the other, oldest      *)
(* first; the first one that fails ends it, and the call.                  *)
(***************************************************************************)
\* Defect: one file too many, one too few.
SurplusTooMany(present) ==
    {n \in present : Cardinality({m \in present : m >= n}) >= Keep}
SurplusTooFew(present) ==
    {n \in present : Cardinality({m \in present : m > n}) > Keep}

Surplus(present) ==
    {n \in present : Cardinality({m \in present : m > n}) >= Keep}

List(c) ==
    LET f == frame[c]
        old == Surplus(Present)
    IN
    /\ At(c, "list")
    /\ Goto(c, IF old = {} THEN Returned(f, c, TRUE, TRUE)
                           ELSE [f EXCEPT !.pc = "remove", !.old = old])
    /\ UNCHANGED <<main, clock, work, files>>

RemoveOldest(c) ==
    LET f == frame[c] IN
    /\ At(c, "remove")
    /\ \E n \in f.old :
        /\ \A m \in f.old : n <= m
        /\ \/ /\ files[n] = NoFile
              /\ Goto(c, Returned(f, c, FALSE, TRUE))
              /\ UNCHANGED files
           \/ /\ files[n] # NoFile
              /\ files' = [files EXCEPT ![n] = NoFile]
              /\ Goto(c, IF f.old = {n} THEN Returned(f, c, TRUE, TRUE)
                                        ELSE [f EXCEPT !.old = @ \ {n}])
    /\ UNCHANGED <<main, clock, work>>

(* handleTriggerBackup looks at the file before it answers 201.            *)
\* Defect: the path of BackupRotate is trusted.
StatUnchecked(c) ==
    LET f == frame[c] IN
    /\ At(c, "stat")
    /\ Goto(c, [f EXCEPT !.pc = "reply", !.result = "ok"])
    /\ UNCHANGED <<main, clock, work, files>>

Stat(c) ==
    LET f == frame[c] IN
    /\ At(c, "stat")
    /\ Goto(c, [f EXCEPT !.pc = "reply",
                         !.result = IF files[f.name] = NoFile THEN "failed"
                                                              ELSE "ok"])
    /\ UNCHANGED <<main, clock, work, files>>

Return(c) ==
    /\ At(c, "reply") /\ c # Main
    /\ Goto(c, Idle)
    /\ UNCHANGED <<main, clock, work, files>>

Rotate(c) ==
    \/ Begin(c) \/ StartCopy(c) \/ EndCopy(c) \/ CopyFails(c)
    \/ List(c) \/ RemoveOldest(c) \/ Stat(c) \/ Return(c)

(***************************************************************************)
(* main: the signal, srv.Shutdown with its deadline of ten seconds, the    *)
(* checkpoint, which moves what is committed from the log to vec.db and    *)
(* so changes nothing here, the final backup, the end.  The goroutines     *)
(* end with the process, wherever they are.                                *)
(***************************************************************************)
Signal ==
    /\ stage = "serving"
    /\ stage' = "draining"
    /\ UNCHANGED <<starts, drained, clock, work, files, frame>>

Answered == pending = 0 /\ \A a \in Admins : At(a, "idle")

\* Defect: no deadline.
ShutdownWaits ==
    /\ stage = "draining"
    /\ drained' = TRUE /\ Answered
    /\ stage' = "final"
    /\ UNCHANGED <<starts, clock, work, files, frame>>

Shutdown ==
    /\ stage = "draining"
    /\ \/ drained' = TRUE /\ Answered
       \/ drained' = FALSE /\ ~Answered
    /\ stage' = "final"
    /\ UNCHANGED <<starts, clock, work, files, frame>>

Ends ==
    /\ pending' = 0 /\ tick' = FALSE
    /\ UNCHANGED <<starts, drained, clock, disk>>

Exit ==
    /\ At(Main, "reply")
    /\ stage' = "exited"
    /\ frame' = [c \in Callers |-> IF c = Main THEN frame[c] ELSE Idle]
    /\ Ends

Crash ==
    /\ "crash" \in Faults /\ stage \notin Down
    /\ stage' = "crashed"
    /\ frame' = [c \in Callers |-> Idle]
    /\ Ends

Start ==
    /\ stage \in Down /\ starts < MaxStarts
    /\ stage' = "serving" /\ starts' = starts + 1 /\ drained' = FALSE
    /\ frame' = [c \in Callers |-> Idle]
    /\ UNCHANGED <<clock, work, files>>

Next ==
    \/ Arrive \/ Commit \/ Tick
    \/ Signal \/ Shutdown \/ Exit \/ Crash \/ Start
    \/ \E c \in Callers : Rotate(c)

Spec == Init /\ [][Next]_vars

(***************************************************************************)
(* Only main is assumed to go on once it was told to stop: the requests    *)
(* may wait for Ollama for ever and the loop may never be scheduled.       *)
(***************************************************************************)
FairSpec == Spec /\ WF_vars(Shutdown \/ Rotate(Main) \/ Exit)

-----------------------------------------------------------------------------
(***************************************************************************)
(* Properties.                                                             *)
(***************************************************************************)
\* Every variable keeps its type.
TypeOK ==
    /\ stage \in Stages /\ starts \in Nat /\ drained \in BOOLEAN
    /\ clock \in {0} \cup Names /\ tick \in BOOLEAN
    /\ pending \in Nat /\ committed \in Nat
    /\ files \in [Names -> File]
    /\ frame \in [Callers -> Frame]

\* However many rotations list and prune the directory at the same time, a
\* file is removed only while the newest Keep files stay ("keeps the newest
\* `keep` files", maintenance.go:71).
R == INSTANCE Retention WITH shelf <- Present
RetentionSpec == R!Spec

\* A database that has a complete snapshot always has one ("keeps the newest
\* `keep` files", maintenance.go:71).  Not true of the code: copies that are
\* under way, failed or cut short count as much as complete ones.
SnapshotStays == [][Complete # {} => Complete' # {}]_vars

\* The last complete snapshot is only lost to a rotation that Keep others have
\* overtaken: pruneBackups runs when the caller's own snapshot is complete, so
\* partial files of earlier crashes cannot push the last one out, and neither
\* can fewer than Keep copies that fail or are under way.  The clock moves by
\* one at every rotation, so the clock of now counts those begun since.
LastSnapshotOvertaken ==
    [][(Complete # {} /\ Complete' = {}) =>
          \E c \in Callers : /\ At(c, "remove") /\ frame'[c] # frame[c]
                             /\ clock >= frame[c].name + Keep]_vars

\* A rotation that no other one overlapped leaves at most Keep files behind,
\* the leftovers of crashes included (README.md:66, "conserva 7").
AloneLeavesKeep ==
    [][\A c \in Callers :
          (Rotating(c) /\ frame[c].alone /\ frame'[c].result = "ok")
              => Cardinality(Present') <= Keep]_vars

\* When no rotation is running the directory holds at most Keep files.
AtMostKeep ==
    (\A c \in Callers : ~Rotating(c)) => Cardinality(Present) <= Keep

\* A 201 of POST /admin/backup comes when the directory holds a complete
\* snapshot, under the name of the answer, of everything that had been
\* acknowledged when the request came (http_admin.go:13-16).
AnswerNamesSnapshot ==
    [][\A a \in Admins :
          (At(a, "stat") /\ frame'[a].pc = "reply" /\ frame'[a].result = "ok")
              => /\ files[frame[a].name].kind = "complete"
                 /\ files[frame[a].name].content >= frame[a].since]_vars

\* After a shutdown that has waited for every request and taken its backup,
\* the directory holds a snapshot of every acknowledged write, although a
\* rotation of the loop may overlap the last one (README.md:66).
FinalBackup ==
    (stage = "exited" /\ drained /\ frame[Main].path)
        => \E n \in Complete : files[n].content = committed

\* A process that is told to stop stops, although requests may wait for
\* Ollama without end (the deadline of main.go:118).
ShutdownEnds == (stage = "draining") ~> (stage \in Down)

=============================================================================
