---------------------------- MODULE BackupsProofs ----------------------------
(***************************************************************************)
(* What holds of the backups for any number of requests, any number of     *)
(* files kept and any faults; the clock's too, where a theorem does not    *)
(* exclude them.                                                           *)
(***************************************************************************)
EXTENDS Backups, FiniteSetTheorems, TLAPS

FrameSet == [Callers -> Frame]
FilesSet == [Names -> File]

MainTypes == stage \in Stages /\ starts \in Nat /\ drained \in BOOLEAN
WorkTypes == /\ clock \in {0} \cup Names /\ tick \in BOOLEAN
             /\ pending \in Nat /\ committed \in Nat
DataTypes == files \in FilesSet /\ frame \in FrameSet

LEMMA TypeParts == TypeOK <=> MainTypes /\ WorkTypes /\ DataTypes
BY DEF TypeOK, MainTypes, WorkTypes, DataTypes, FilesSet, FrameSet

LEMMA ReturnedType ==
    ASSUME NEW f \in Frame, NEW c, NEW ok \in BOOLEAN, NEW path \in BOOLEAN
    PROVE  /\ Returned(f, c, ok, path) \in Frame
           /\ Returned(f, c, ok, path).old = {}
BY DEF Returned, Frame, Labels

LEMMA GotoType ==
    ASSUME frame \in FrameSet, NEW c \in Callers, NEW f \in Frame, Goto(c, f)
    PROVE  frame' \in FrameSet
BY DEF Goto, FrameSet

LEMMA IdleType == Idle \in Frame
BY DEF Idle, Frame, Labels

LEMMA NamesNat == Names \subseteq Nat \ {0} /\ IsFiniteSet(Names)
<1>1. MaxName \in Nat
  BY BoundAssumption
<1> QED
  BY <1>1, FS_Interval DEF Names

-----------------------------------------------------------------------------
(***************************************************************************)
(* Types.                                                                  *)
(***************************************************************************)
LEMMA InitTypes == Init => TypeOK
<1> SUFFICES ASSUME Init PROVE TypeOK
  OBVIOUS
<1>1. MainTypes
  BY DEF Init, MainTypes, Stages
<1>2. WorkTypes
  BY DEF Init, WorkTypes
<1>3. files \in FilesSet
  BY DEF Init, FilesSet, File, NoFile
<1>4. frame \in FrameSet
  BY IdleType DEF Init, FrameSet
<1> QED
  BY <1>1, <1>2, <1>3, <1>4, TypeParts DEF DataTypes

LEMMA BeginTypes ==
    ASSUME TypeOK, NEW c \in Callers, Begin(c)
    PROVE  TypeOK'
<1>1. PICK now \in Names :
          /\ clock' = now
          /\ frame' = [d \in Callers |->
                IF d = c THEN [Idle EXCEPT !.pc = "copy", !.name = now,
                                           !.since = committed,
                                           !.alone = ~\E e \in Callers : Rotating(e)]
                ELSE [frame[d] EXCEPT !.alone = FALSE]]
  BY DEF Begin, Instants
<1>2. frame' \in [Callers -> Frame]
  <2> DEFINE g(d) == IF d = c THEN [Idle EXCEPT !.pc = "copy", !.name = now,
                                           !.since = committed,
                                           !.alone = ~\E e \in Callers : Rotating(e)]
                     ELSE [frame[d] EXCEPT !.alone = FALSE]
  <2>1. ASSUME NEW d \in Callers PROVE g(d) \in Frame
    <3>1. CASE d = c
      <4>1. now \in Nat /\ committed \in Nat
        BY NamesNat DEF TypeOK
      <4> DEFINE b == ~\E e \in Callers : Rotating(e)
      <4>2. b \in BOOLEAN
        OBVIOUS
      <4> HIDE DEF b
      <4>3. [Idle EXCEPT !.pc = "copy", !.name = now,
                         !.since = committed, !.alone = b] \in Frame
        BY <4>1, <4>2, IdleType DEF Frame, Labels
      <4> QED
        BY <3>1, <4>3 DEF b
    <3>2. CASE d # c
      <4>1. frame[d] \in Frame
        BY DEF TypeOK
      <4> QED
        BY <3>2, <4>1 DEF Frame
    <3> QED
      BY <3>1, <3>2
  <2>2. frame' = [d \in Callers |-> g(d)]
    BY <1>1
  <2> HIDE DEF g
  <2> QED
    BY <2>1, <2>2
<1>3. tick' \in BOOLEAN
  BY DEF Begin, TypeOK
<1>4. clock' \in {0} \cup Names
  BY <1>1
<1> QED
  BY <1>2, <1>3, <1>4 DEF Begin, TypeOK, main, disk

LEMMA FilesType ==
    ASSUME files \in [Names -> File], NEW n \in Names, NEW k \in File,
           files' = [files EXCEPT ![n] = k]
    PROVE  files' \in [Names -> File]
OBVIOUS

LEMMA RotateTypes ==
    ASSUME TypeOK, NEW c \in Callers, Rotate(c)
    PROVE  TypeOK'
<1> DEFINE f == frame[c]
<1>0. f \in Frame /\ files \in [Names -> File] /\ frame \in FrameSet
  BY DEF TypeOK, FrameSet
<1>1. CASE Begin(c)
  BY <1>1, BeginTypes
<1> SUFFICES ASSUME ~Begin(c),
                    UNCHANGED <<main, clock, work>>
             PROVE  files' \in [Names -> File] /\ frame' \in FrameSet
  <2>1. Begin(c) \/ UNCHANGED <<main, clock, work>>
    BY DEF Rotate, StartCopy, EndCopy, CopyFails, List, RemoveOldest, Stat, Return
  <2> QED
    BY <1>1, <2>1 DEF TypeOK, FrameSet, main, work
<1> HIDE DEF f
<1>2. CASE StartCopy(c)
  <2>1. CASE Goto(c, [f EXCEPT !.pc = "copying"])
             /\ files' = [files EXCEPT ![f.name] =
                          [kind |-> "partial", content |-> committed]]
    <3>1. [f EXCEPT !.pc = "copying"] \in Frame
      BY <1>0 DEF Frame, Labels
    <3>2. [kind |-> "partial", content |-> committed] \in File
      BY DEF File, TypeOK
    <3> QED
      BY <2>1, <3>1, <3>2, <1>0, GotoType
  <2>2. CASE Goto(c, Returned(f, c, FALSE, FALSE)) /\ UNCHANGED files
    BY <2>2, <1>0, ReturnedType, GotoType
  <2> QED
    BY <1>2, <2>1, <2>2 DEF StartCopy, f
<1>3. CASE EndCopy(c)
  <2>1. [f EXCEPT !.pc = "list"] \in Frame
    BY <1>0 DEF Frame, Labels
  <2>2. frame' \in FrameSet
    BY <1>3, <1>0, <2>1, GotoType DEF EndCopy, f
  <2>3. ASSUME NEW n \in Names, files[n] # NoFile
        PROVE  [files[n] EXCEPT !.kind = "complete"] \in File
    BY <1>0, <2>3 DEF File
  <2>4. files' = files \/ (files[f.name] # NoFile
                            /\ files' = [files EXCEPT ![f.name].kind = "complete"])
    BY <1>3 DEF EndCopy, f
  <2>5. files' \in [Names -> File]
    <3>1. CASE f.name \in Names
      BY <1>0, <2>3, <2>4, <3>1
    <3>2. CASE f.name \notin Names
      BY <1>0, <2>4, <3>2
    <3> QED
      BY <3>1, <3>2
  <2> QED
    BY <2>2, <2>5
<1>4. CASE CopyFails(c)
  BY <1>4, <1>0, ReturnedType, GotoType DEF CopyFails, f
<1>5. CASE List(c)
  <2> DEFINE old == Surplus(Present)
  <2>1. old \in SUBSET Names
    BY DEF Surplus, Present
  <2>2. Goto(c, IF old = {} THEN Returned(f, c, TRUE, TRUE)
                            ELSE [f EXCEPT !.pc = "remove", !.old = old])
        /\ UNCHANGED files
    BY <1>5 DEF List, f
  <2> HIDE DEF old
  <2>3. [f EXCEPT !.pc = "remove", !.old = old] \in Frame
    BY <1>0, <2>1 DEF Frame, Labels
  <2> QED
    BY <2>2, <2>3, <1>0, ReturnedType, GotoType
<1>6. CASE RemoveOldest(c)
  <2>1. PICK n \in f.old :
          \/ Goto(c, Returned(f, c, FALSE, TRUE)) /\ UNCHANGED files
          \/ /\ files' = [files EXCEPT ![n] = NoFile]
             /\ Goto(c, IF f.old = {n} THEN Returned(f, c, TRUE, TRUE)
                                       ELSE [f EXCEPT !.old = @ \ {n}])
    BY <1>6 DEF RemoveOldest, f
  <2>2. n \in Names /\ NoFile \in File
    BY <1>0 DEF Frame, File
  <2>3. [f EXCEPT !.old = @ \ {n}] \in Frame
    BY <1>0 DEF Frame
  <2>4. frame' \in FrameSet
    BY <2>1, <2>3, <1>0, ReturnedType, GotoType
  <2>5. files' \in [Names -> File]
    BY <2>1, <2>2, <1>0
  <2> QED
    BY <2>4, <2>5
<1>7. CASE Stat(c)
  <2>1. PICK r \in {"ok", "failed"} :
          Goto(c, [f EXCEPT !.pc = "reply", !.result = r]) /\ UNCHANGED files
    BY <1>7 DEF Stat, f
  <2>2. [f EXCEPT !.pc = "reply", !.result = r] \in Frame
    BY <1>0 DEF Frame, Labels
  <2> QED
    BY <2>1, <2>2, <1>0, GotoType
<1>8. CASE Return(c)
  BY <1>8, <1>0, IdleType, GotoType DEF Return
<1> QED
  BY <1>2, <1>3, <1>4, <1>5, <1>6, <1>7, <1>8 DEF Rotate

LEMMA MainStepTypes ==
    ASSUME TypeOK, Signal \/ Shutdown \/ Exit \/ Crash \/ Start
    PROVE  TypeOK'
<1>0. MainTypes /\ WorkTypes /\ DataTypes
  BY TypeParts
<1>1. MainTypes'
  <2>1. CASE Signal \/ Shutdown \/ Exit \/ Crash
    BY <2>1, <1>0 DEF Signal, Shutdown, Exit, Crash, Ends, MainTypes, Stages
  <2>2. CASE Start
    <3>1. drained' \in BOOLEAN
      BY <2>2, Zenon DEF Start
    <3>2. stage' \in Stages /\ starts' \in Nat
      BY <2>2, <1>0 DEF Start, MainTypes, Stages
    <3> QED
      BY <3>1, <3>2 DEF MainTypes
  <2> QED
    BY <2>1, <2>2
<1>2. WorkTypes'
  <2>1. CASE Signal \/ Shutdown \/ Start
    BY <2>1, <1>0 DEF Signal, Shutdown, Start, WorkTypes, work
  <2>2. CASE Exit \/ Crash
    <3>1. Ends
      BY <2>2 DEF Exit, Crash
    <3>2. tick' \in BOOLEAN
      BY <3>1, Zenon DEF Ends
    <3>3. pending' = 0 /\ clock' = clock /\ committed' = committed
      BY <3>1 DEF Ends, disk
    <3> QED
      BY <3>2, <3>3, <1>0 DEF WorkTypes
  <2> QED
    BY <2>1, <2>2
<1>3. files' = files
  BY DEF Signal, Shutdown, Exit, Crash, Start, Ends, disk
<1>4. frame' \in FrameSet
  <2>1. CASE Signal \/ Shutdown
    BY <2>1, <1>0 DEF Signal, Shutdown, DataTypes
  <2>2. CASE Exit
    BY <2>2, <1>0, IdleType DEF Exit, DataTypes, FrameSet
  <2>3. CASE Crash \/ Start
    BY <2>3, IdleType DEF Crash, Start, FrameSet
  <2> QED
    BY <2>1, <2>2, <2>3
<1>5. DataTypes'
  BY <1>0, <1>3, <1>4 DEF DataTypes
<1>6. (MainTypes /\ WorkTypes /\ DataTypes)'
  BY <1>1, <1>2, <1>5
<1> QED
  BY <1>6, TypeParts, PTL

LEMMA RequestTypes ==
    ASSUME TypeOK, Arrive \/ Commit \/ Tick
    PROVE  TypeOK'
<1>0. MainTypes /\ WorkTypes /\ DataTypes
  BY TypeParts
<1>1. MainTypes'
  BY <1>0 DEF Arrive, Commit, Tick, MainTypes, main
<1>2. WorkTypes'
  <2>1. CASE Arrive
    BY <2>1, <1>0 DEF Arrive, WorkTypes, disk
  <2>2. CASE Commit
    BY <2>2, <1>0 DEF Commit, WorkTypes, disk
  <2>3. CASE Tick
    BY <2>3, <1>0 DEF Tick, WorkTypes, disk
  <2> QED
    BY <2>1, <2>2, <2>3
<1>3. DataTypes'
  BY <1>0 DEF Arrive, Commit, Tick, DataTypes, disk
<1>4. (MainTypes /\ WorkTypes /\ DataTypes)'
  BY <1>1, <1>2, <1>3
<1> QED
  BY <1>4, TypeParts, PTL

LEMMA NextTypes == TypeOK /\ [Next]_vars => TypeOK'
<1> SUFFICES ASSUME TypeOK, [Next]_vars PROVE TypeOK'
  OBVIOUS
<1>1. CASE Arrive \/ Commit \/ Tick
  BY <1>1, RequestTypes
<1>2. CASE Signal \/ Shutdown \/ Exit \/ Crash \/ Start
  BY <1>2, MainStepTypes
<1>3. ASSUME NEW c \in Callers, Rotate(c) PROVE TypeOK'
  BY <1>3, RotateTypes
<1>4. CASE UNCHANGED vars
  BY <1>4 DEF vars, disk, TypeOK
<1> QED
  BY <1>1, <1>2, <1>3, <1>4 DEF Next

(* Types are kept by every operation of the backups and of main.           *)
THEOREM BackupTypes == Spec => []TypeOK
BY InitTypes, NextTypes, PTL DEF Spec

-----------------------------------------------------------------------------
(***************************************************************************)
(* Retention.  What a rotation has still to remove stays below the newest  *)
(* Keep files of the directory, whatever the others do meanwhile: a new    *)
(* file only adds to those above, and a removed one had Keep files above   *)
(* it, which are all above what is below it.                               *)
(***************************************************************************)
Above(n) == {m \in Present : m > n}

PendingOK ==
    \A c \in Callers : \A n \in frame[c].old : Cardinality(Above(n)) >= Keep

IInv == TypeOK /\ PendingOK

LEMMA AboveFinite ==
    ASSUME NEW n
    PROVE  IsFiniteSet(Above(n)) /\ Cardinality(Above(n)) \in Nat
<1>1. Above(n) \subseteq Names
  BY DEF Above, Present
<1> QED
  BY <1>1, NamesNat, FS_Subset, FS_CardinalityType

LEMMA AboveGrows ==
    ASSUME NEW n, Above(n) \subseteq Above(n)', Cardinality(Above(n)) >= Keep
    PROVE  Cardinality(Above(n)') >= Keep
<1>1. Above(n)' \subseteq Names
  BY DEF Above, Present
<1>2. IsFiniteSet(Above(n)') /\ Cardinality(Above(n)') \in Nat
  BY <1>1, NamesNat, FS_Subset, FS_CardinalityType
<1>3. Cardinality(Above(n)) <= Cardinality(Above(n)')
  BY <1>2, FS_Subset
<1> QED
  BY <1>2, <1>3, AboveFinite, BoundAssumption

(* The directory loses nothing, and nobody has more to remove.             *)
LEMMA NothingRemoved ==
    ASSUME TypeOK, PendingOK, Present \subseteq Present',
           \A c \in Callers : frame'[c].old \subseteq frame[c].old
    PROVE  PendingOK'
<1> SUFFICES ASSUME NEW c \in Callers, NEW n \in frame'[c].old
             PROVE  Cardinality(Above(n)') >= Keep
  BY DEF PendingOK
<1>1. Cardinality(Above(n)) >= Keep
  BY DEF PendingOK
<1>2. Above(n) \subseteq Above(n)'
  BY DEF Above
<1> QED
  BY <1>1, <1>2, AboveGrows

(* A file leaves that has Keep files above it.                             *)
LEMMA OneRemoved ==
    ASSUME TypeOK, PendingOK, NEW k \in Names,
           Cardinality(Above(k)) >= Keep, Present' = Present \ {k},
           \A c \in Callers : frame'[c].old \subseteq frame[c].old
    PROVE  PendingOK'
<1> SUFFICES ASSUME NEW c \in Callers, NEW n \in frame'[c].old
             PROVE  Cardinality(Above(n)') >= Keep
  BY DEF PendingOK
<1>1. n \in Names /\ Cardinality(Above(n)) >= Keep
  BY DEF PendingOK, TypeOK, Frame
<1>2. n \in Nat /\ k \in Nat /\ Names \subseteq Nat
  BY <1>1, NamesNat
<1>5. Present \subseteq Nat
  BY NamesNat DEF Present
<1>3. CASE k <= n
  <2>1. Above(n) \subseteq Above(n)'
    BY <1>2, <1>3, <1>5 DEF Above
  <2> QED
    BY <2>1, <1>1, AboveGrows
<1>4. CASE k > n
  <2>1. Above(k) \subseteq Above(n)'
    <3> SUFFICES ASSUME NEW m \in Above(k) PROVE m \in Above(n)'
      OBVIOUS
    <3>1. m \in Present /\ m > k /\ m \in Nat
      BY <1>5 DEF Above
    <3>2. m > n /\ m # k
      BY <3>1, <1>2, <1>4
    <3>3. m \in Present'
      BY <3>1, <3>2
    <3> QED
      BY <3>2, <3>3 DEF Above
  <2>2. Above(n)' \subseteq Names
    BY DEF Above, Present
  <2>3. IsFiniteSet(Above(n)') /\ Cardinality(Above(n)') \in Nat
    BY <2>2, NamesNat, FS_Subset, FS_CardinalityType
  <2>4. Cardinality(Above(k)) <= Cardinality(Above(n)')
    BY <2>1, <2>3, FS_Subset
  <2> QED
    BY <2>3, <2>4, AboveFinite, BoundAssumption
<1> QED
  BY <1>2, <1>3, <1>4

(* What a step does to the directory and to what is still to be removed.   *)
Removes(k) ==
    /\ k \in Present /\ Present' = Present \ {k}
    /\ Cardinality(Above(k)) >= Keep

Adds(k) == k \in Names \ Present /\ Present' = Present \cup {k}

LEMMA GotoOld ==
    ASSUME frame \in FrameSet, NEW c \in Callers, NEW f, Goto(c, f),
           f.old \subseteq frame[c].old
    PROVE  \A d \in Callers : frame'[d].old \subseteq frame[d].old
BY DEF Goto, FrameSet

LEMMA StartCopyStep ==
    ASSUME IInv, NEW c \in Callers, StartCopy(c)
    PROVE  PendingOK' /\ (Present' = Present \/ \E k \in Names : Adds(k))
<1> DEFINE f == frame[c]
<1>0. f \in Frame /\ files \in FilesSet /\ frame \in FrameSet
  BY DEF IInv, TypeOK, FilesSet, FrameSet
<1> HIDE DEF f
<1>1. CASE Goto(c, Returned(f, c, FALSE, FALSE)) /\ UNCHANGED files
  <2>1. \A d \in Callers : frame'[d].old \subseteq frame[d].old
    BY <1>0, <1>1, ReturnedType, GotoOld
  <2>2. Present' = Present
    BY <1>1 DEF Present
  <2> QED
    BY <2>1, <2>2, NothingRemoved DEF IInv
<1>2. CASE /\ Goto(c, [f EXCEPT !.pc = "copying"])
           /\ files[f.name] = NoFile
           /\ files' = [files EXCEPT ![f.name] =
                           [kind |-> "partial", content |-> committed]]
  <2>1. [f EXCEPT !.pc = "copying"].old = f.old
    BY <1>0 DEF Frame
  <2>2. \A d \in Callers : frame'[d].old \subseteq frame[d].old
    BY <1>0, <1>2, <2>1, GotoOld DEF f
  <2>3. [kind |-> "partial", content |-> committed] # NoFile
    BY DEF NoFile
  <2>4. CASE f.name \in Names
    <3>1. Adds(f.name)
      BY <1>0, <1>2, <2>3, <2>4 DEF Adds, Present, FilesSet
    <3>2. Present \subseteq Present'
      BY <3>1 DEF Adds
    <3> QED
      BY <2>2, <2>4, <3>1, <3>2, NothingRemoved DEF IInv
  <2>5. CASE f.name \notin Names
    <3>1. Present' = Present
      BY <1>0, <1>2, <2>5 DEF Present, FilesSet
    <3> QED
      BY <2>2, <3>1, NothingRemoved DEF IInv
  <2> QED
    BY <2>4, <2>5
<1> QED
  BY <1>1, <1>2 DEF StartCopy, f

LEMMA EndCopyStep ==
    ASSUME IInv, NEW c \in Callers, EndCopy(c)
    PROVE  PendingOK' /\ Present' = Present
<1> DEFINE f == frame[c]
<1>0. f \in Frame /\ files \in FilesSet /\ frame \in FrameSet
  BY DEF IInv, TypeOK, FilesSet, FrameSet
<1> HIDE DEF f
<1>1. /\ Goto(c, [f EXCEPT !.pc = "list"])
      /\ \/ files' = files
         \/ /\ files[f.name] # NoFile
            /\ files' = [files EXCEPT ![f.name].kind = "complete"]
  BY DEF EndCopy, f
<1>2. [f EXCEPT !.pc = "list"].old = f.old
  BY <1>0 DEF Frame
<1>3. \A d \in Callers : frame'[d].old \subseteq frame[d].old
  BY <1>0, <1>1, <1>2, GotoOld DEF f
<1>4. ASSUME NEW n \in Names, files[n] # NoFile
      PROVE  [files[n] EXCEPT !.kind = "complete"] # NoFile
  BY <1>0, <1>4 DEF FilesSet, File, NoFile
<1>5. Present' = Present
  <2>1. CASE files' = files
    BY <2>1 DEF Present
  <2>2. CASE /\ files[f.name] # NoFile
             /\ files' = [files EXCEPT ![f.name].kind = "complete"]
    BY <1>0, <1>4, <2>2 DEF Present, FilesSet
  <2> QED
    BY <1>1, <2>1, <2>2
<1> QED
  BY <1>3, <1>5, NothingRemoved DEF IInv

LEMMA ListStep ==
    ASSUME IInv, NEW c \in Callers, List(c)
    PROVE  PendingOK' /\ Present' = Present
<1> DEFINE f == frame[c]
           old == Surplus(Present)
<1>0. f \in Frame /\ frame \in FrameSet
  BY DEF IInv, TypeOK, FrameSet
<1>1. /\ files' = files
      /\ Goto(c, IF old = {} THEN Returned(f, c, TRUE, TRUE)
                             ELSE [f EXCEPT !.pc = "remove", !.old = old])
  BY DEF List
<1>2. Present' = Present
  BY <1>1 DEF Present
<1>3. \A n \in old : Cardinality(Above(n)) >= Keep
  BY DEF Surplus, Above
<1> HIDE DEF f, old
<1>4. [f EXCEPT !.pc = "remove", !.old = old].old = old
  BY <1>0 DEF Frame
<1>5. frame'[c].old \in {{}, old}
  BY <1>0, <1>1, <1>4, ReturnedType DEF Goto, FrameSet
<1>6. \A d \in Callers \ {c} : frame'[d] = frame[d]
  BY <1>0, <1>1 DEF Goto, FrameSet
<1>7. PendingOK'
  <2> SUFFICES ASSUME NEW d \in Callers, NEW n \in frame'[d].old
               PROVE  Cardinality(Above(n)') >= Keep
    BY DEF PendingOK
  <2>1. Above(n)' = Above(n)
    BY <1>2 DEF Above
  <2>2. CASE d = c
    BY <1>3, <1>5, <2>1, <2>2
  <2>3. CASE d # c
    BY <1>6, <2>1, <2>3 DEF IInv, PendingOK
  <2> QED
    BY <2>2, <2>3
<1> QED
  BY <1>2, <1>7

LEMMA RemoveStep ==
    ASSUME IInv, NEW c \in Callers, RemoveOldest(c)
    PROVE  PendingOK' /\ (Present' = Present \/ \E k \in Names : Removes(k))
<1> DEFINE f == frame[c]
<1>0. f \in Frame /\ files \in FilesSet /\ frame \in FrameSet
  BY DEF IInv, TypeOK, FilesSet, FrameSet
<1> HIDE DEF f
<1>1. PICK n \in f.old :
        \/ Goto(c, Returned(f, c, FALSE, TRUE)) /\ UNCHANGED files
        \/ /\ files[n] # NoFile
           /\ files' = [files EXCEPT ![n] = NoFile]
           /\ Goto(c, IF f.old = {n} THEN Returned(f, c, TRUE, TRUE)
                                     ELSE [f EXCEPT !.old = @ \ {n}])
  BY DEF RemoveOldest, f
<1>2. n \in Names
  BY <1>0 DEF Frame
<1>3. CASE Goto(c, Returned(f, c, FALSE, TRUE)) /\ UNCHANGED files
  <2>1. \A d \in Callers : frame'[d].old \subseteq frame[d].old
    BY <1>0, <1>3, ReturnedType, GotoOld
  <2>2. Present' = Present
    BY <1>3 DEF Present
  <2> QED
    BY <2>1, <2>2, NothingRemoved DEF IInv
<1>4. CASE /\ files[n] # NoFile
           /\ files' = [files EXCEPT ![n] = NoFile]
           /\ Goto(c, IF f.old = {n} THEN Returned(f, c, TRUE, TRUE)
                                     ELSE [f EXCEPT !.old = @ \ {n}])
  <2> DEFINE g == IF f.old = {n} THEN Returned(f, c, TRUE, TRUE)
                                 ELSE [f EXCEPT !.old = @ \ {n}]
  <2>1. g.old \subseteq f.old
    <3>1. [f EXCEPT !.old = @ \ {n}].old = f.old \ {n}
      BY <1>0 DEF Frame
    <3> QED
      BY <1>0, <3>1, ReturnedType
  <2> HIDE DEF g
  <2>2. \A d \in Callers : frame'[d].old \subseteq frame[d].old
    BY <1>0, <1>4, <2>1, GotoOld DEF g, f
  <2>3. Present' = Present \ {n} /\ n \in Present
    BY <1>0, <1>2, <1>4 DEF Present, FilesSet
  <2>4. Cardinality(Above(n)) >= Keep
    BY DEF IInv, PendingOK, f
  <2>5. Removes(n)
    BY <2>3, <2>4 DEF Removes
  <2> QED
    BY <1>2, <2>2, <2>3, <2>4, <2>5, OneRemoved DEF IInv
<1> QED
  BY <1>1, <1>3, <1>4

LEMMA OtherStep ==
    ASSUME IInv, files' = files,
           \A c \in Callers : frame'[c].old \subseteq frame[c].old
    PROVE  PendingOK' /\ Present' = Present
<1>1. Present' = Present
  BY DEF Present
<1> QED
  BY <1>1, NothingRemoved DEF IInv

LEMMA IdleOld == Idle.old = {}
BY DEF Idle

LEMMA RotateStep ==
    ASSUME IInv, NEW c \in Callers, Rotate(c)
    PROVE  /\ PendingOK'
           /\ Present' = Present \/ \E k \in Names : Adds(k) \/ Removes(k)
<1>0. frame[c] \in Frame /\ frame \in FrameSet
  BY DEF IInv, TypeOK, FrameSet
<1>1. CASE StartCopy(c) \/ EndCopy(c) \/ List(c) \/ RemoveOldest(c)
  BY <1>1, StartCopyStep, EndCopyStep, ListStep, RemoveStep
<1>2. CASE Begin(c)
  <2>1. files' = files
    BY <1>2 DEF Begin, disk
  <2>2. \E now \in Names :
          frame' = [d \in Callers |->
                IF d = c THEN [Idle EXCEPT !.pc = "copy", !.name = now,
                                           !.since = committed,
                                           !.alone = ~\E e \in Callers : Rotating(e)]
                ELSE [frame[d] EXCEPT !.alone = FALSE]]
    BY <1>2 DEF Begin, Instants
  <2>3. \A d \in Callers : frame'[d].old \subseteq frame[d].old
    <3> SUFFICES ASSUME NEW d \in Callers PROVE frame'[d].old \subseteq frame[d].old
      OBVIOUS
    <3>1. CASE d = c
      BY <2>2, <3>1 DEF Idle
    <3>2. CASE d # c
      <4>1. frame'[d] = [frame[d] EXCEPT !.alone = FALSE]
        BY <2>2, <3>2
      <4>2. frame[d] \in Frame
        BY <1>0 DEF FrameSet
      <4> QED
        BY <4>1, <4>2 DEF Frame
    <3> QED
      BY <3>1, <3>2
  <2> QED
    BY <2>1, <2>3, OtherStep
<1>3. CASE CopyFails(c)
  <2>1. files' = files /\ Goto(c, Returned(frame[c], c, FALSE, FALSE))
    BY <1>3 DEF CopyFails
  <2>2. \A d \in Callers : frame'[d].old \subseteq frame[d].old
    BY <1>0, <2>1, ReturnedType, GotoOld
  <2> QED
    BY <2>1, <2>2, OtherStep
<1>4. CASE Stat(c)
  <2>1. PICK r \in {"ok", "failed"} :
          files' = files /\ Goto(c, [frame[c] EXCEPT !.pc = "reply", !.result = r])
    BY <1>4 DEF Stat
  <2>2. [frame[c] EXCEPT !.pc = "reply", !.result = r].old = frame[c].old
    BY <1>0 DEF Frame
  <2>3. \A d \in Callers : frame'[d].old \subseteq frame[d].old
    BY <1>0, <2>1, <2>2, GotoOld
  <2> QED
    BY <2>1, <2>3, OtherStep
<1>5. CASE Return(c)
  <2>1. files' = files /\ Goto(c, Idle)
    BY <1>5 DEF Return
  <2>2. \A d \in Callers : frame'[d].old \subseteq frame[d].old
    BY <1>0, <2>1, IdleOld, GotoOld
  <2> QED
    BY <2>1, <2>2, OtherStep
<1> QED
  BY <1>1, <1>2, <1>3, <1>4, <1>5 DEF Rotate

LEMMA RetentionStep ==
    ASSUME IInv, [Next]_vars
    PROVE  /\ PendingOK'
           /\ Present' = Present \/ \E k \in Names : Adds(k) \/ Removes(k)
<1>1. ASSUME NEW c \in Callers, Rotate(c)
      PROVE  /\ PendingOK'
             /\ Present' = Present \/ \E k \in Names : Adds(k) \/ Removes(k)
  BY <1>1, RotateStep
<1>2. CASE Arrive \/ Commit \/ Tick \/ Signal \/ Shutdown \/ UNCHANGED vars
  <2>1. files' = files /\ frame' = frame
    BY <1>2 DEF Arrive, Commit, Tick, Signal, Shutdown, vars, disk
  <2> QED
    BY <2>1, OtherStep
<1>3. CASE Exit \/ Crash \/ Start
  <2>1. files' = files
    BY <1>3 DEF Exit, Crash, Start, Ends, disk
  <2>2. \A c \in Callers : frame'[c] \in {frame[c], Idle}
    BY <1>3 DEF Exit, Crash, Start
  <2>3. \A c \in Callers : frame'[c].old \subseteq frame[c].old
    BY <2>2, IdleOld
  <2> QED
    BY <2>1, <2>3, OtherStep
<1> QED
  BY <1>1, <1>2, <1>3 DEF Next

LEMMA InitIInv == Init => IInv
<1>1. Init => PendingOK
  BY IdleOld DEF Init, PendingOK
<1> QED
  BY <1>1, InitTypes DEF IInv

LEMMA NextIInv == IInv /\ [Next]_vars => IInv'
BY NextTypes, RetentionStep DEF IInv

(* The instance has a Cardinality of its own.                              *)
LEMMA SameCardinality == \A S : R!Cardinality(S) = Cardinality(S)
BY DEF R!Cardinality, Cardinality

LEMMA RetentionInit == Init => R!Init
BY DEF Init, R!Init, Present

LEMMA RetentionNext == IInv /\ [Next]_vars => [R!Next]_Present
<1> SUFFICES ASSUME IInv, [Next]_vars PROVE [R!Next]_Present
  OBVIOUS
<1>1. Present' = Present \/ \E k \in Names : Adds(k) \/ Removes(k)
  BY RetentionStep
<1>2. ASSUME NEW k \in Names, Adds(k) PROVE R!Next
  BY <1>2 DEF Adds, R!Next, R!Add
<1>3. ASSUME NEW k \in Names, Removes(k) PROVE R!Next
  <2>1. R!Newer(k) = Above(k)
    BY DEF R!Newer, Above
  <2>2. R!Cardinality(R!Newer(k)) >= Keep
    BY <1>3, <2>1, SameCardinality DEF Removes
  <2> QED
    BY <1>3, <2>2 DEF Removes, R!Next, R!Remove
<1> QED
  BY <1>1, <1>2, <1>3

(* The rotation implements Retention: no interleaving of rotations, crash, *)
(* failed copy or step of the clock makes a rotation remove one of the     *)
(* newest Keep files.                                                      *)
THEOREM RetentionImplemented == Spec => RetentionSpec
<1>1. Spec => []IInv
  BY InitIInv, NextIInv, PTL DEF Spec
<1> QED
  BY <1>1, RetentionInit, RetentionNext, PTL DEF Spec, RetentionSpec, R!Spec

-----------------------------------------------------------------------------
(***************************************************************************)
(* The final backup.  At most one file of the directory can be newer than  *)
(* the one main writes: the loop may have one tick left, and nobody else   *)
(* begins a rotation any more.  So the file stays if two are kept.         *)
(***************************************************************************)
Last == frame[Main].name
Final == stage \in {"final", "exited"}

ClockOK ==
    /\ \A n \in Present : n <= clock
    /\ \A c \in Callers : frame[c].name <= clock

MainOK ==
    /\ At(Main, "idle") \/ Final
    /\ stage = "exited" => At(Main, "reply")
    /\ At(Main, "idle") \/ Last \in Names
    /\ frame[Main].path => At(Main, "reply")
    /\ (Final /\ drained) => pending = 0

Late == {n \in Present : n > Last}

YoungOK ==
    /\ \A a \in Admins : frame[a].name <= Last
    /\ \A n, m \in Late : n = m
    /\ Late # {} => ~tick
    /\ (At(Loop, "copy") /\ frame[Loop].name > Last) => Late = {} /\ ~tick

LoopLast == At(Main, "idle") \/ YoungOK

Kept == frame[Main].pc \in {"list", "remove"} \/ frame[Main].path

Saved ==
    /\ (At(Main, "copying") \/ Kept) =>
            files[Last] # NoFile /\ files[Last].content = committed
    /\ Kept => files[Last].kind = "complete"

SavedOK == (Final /\ drained) => Saved

LastInv == IInv /\ ClockOK /\ MainOK /\ LoopLast /\ SavedOK

LEMMA MainCaller == Main \in Callers /\ Loop \in Callers /\ Main \notin Admins
                    /\ Loop # Main /\ Loop \notin Admins
BY CallerAssumption DEF Callers

LEMMA InitLast == Init => LastInv
<1> SUFFICES ASSUME Init PROVE LastInv
  OBVIOUS
<1>1. frame[Main] = Idle
  BY MainCaller DEF Init
<1>2. ClockOK
  BY DEF Init, ClockOK, Present, Idle
<1>3. MainOK
  BY <1>1 DEF MainOK, At, Idle, Init, Final
<1>4. LoopLast
  BY <1>1 DEF LoopLast, At, Idle
<1>5. SavedOK
  BY DEF Init, SavedOK, Final
<1> QED
  BY <1>2, <1>3, <1>4, <1>5, InitIInv DEF LastInv

(* A rotation that has begun goes on.                                      *)
Later(c) == \/ StartCopy(c) \/ EndCopy(c) \/ CopyFails(c) \/ List(c)
            \/ RemoveOldest(c) \/ Stat(c) \/ Return(c)

NextLocals(c, f) ==
    /\ f.pc # "copy" /\ frame[c].pc # "idle"
    /\ f.name \in {frame[c].name, 0}
    /\ f.pc = "idle" \/ (f.name = frame[c].name /\ f.since = frame[c].since)
    /\ c = Main => /\ f.name = frame[c].name
                   /\ f.pc # "idle" /\ frame[c].pc # "reply"
                   /\ f.pc = "reply" \/ f.path = frame[c].path

LEMMA ReturnedLocals ==
    ASSUME NEW c \in Callers, NEW f \in Frame, f = frame[c],
           f.pc \in {"copy", "copying", "list", "remove"},
           NEW ok \in BOOLEAN, NEW path \in BOOLEAN
    PROVE  LET g == Returned(f, c, ok, path) IN
           /\ g.name = f.name /\ g.since = f.since
           /\ g.pc \in {"stat", "reply"}
           /\ c = Main => g.pc = "reply"
           /\ ~ok => g.pc = "reply"
BY MainCaller DEF Returned, Frame, Labels

LEMMA ReturnedPath ==
    ASSUME NEW f \in Frame, NEW c, NEW ok
    PROVE  Returned(f, c, ok, FALSE).path = FALSE
BY DEF Returned, Frame

LEMMA LaterFrame ==
    ASSUME TypeOK, NEW c \in Callers, Later(c)
    PROVE  /\ UNCHANGED <<main, clock, work>>
           /\ \A d \in Callers \ {c} : frame'[d] = frame[d]
           /\ NextLocals(c, frame'[c])
<1> DEFINE f == frame[c]
<1>0. f \in Frame /\ frame \in FrameSet
  BY DEF TypeOK, FrameSet
<1>1. UNCHANGED <<main, clock, work>>
  BY DEF Later, StartCopy, EndCopy, CopyFails, List, RemoveOldest, Stat, Return
<1>2. ASSUME NEW g, Goto(c, g), NextLocals(c, g)
      PROVE  /\ \A d \in Callers \ {c} : frame'[d] = frame[d]
             /\ NextLocals(c, frame'[c])
  BY <1>0, <1>2 DEF Goto, FrameSet
<1>3. ASSUME f.pc \in {"copy", "copying", "list", "remove"},
             NEW ok \in BOOLEAN, NEW path \in BOOLEAN
      PROVE  NextLocals(c, Returned(f, c, ok, path))
  <2> DEFINE g == Returned(f, c, ok, path)
  <2>1. /\ g.name = f.name /\ g.since = f.since
        /\ g.pc \in {"stat", "reply"}
        /\ c = Main => g.pc = "reply"
    BY <1>0, <1>3, ReturnedLocals
  <2>2. f.pc # "idle" /\ f.pc # "reply" /\ f = frame[c]
    BY <1>3
  <2>3. g.pc # "copy" /\ g.pc # "idle"
    BY <2>1
  <2> HIDE DEF f, g
  <2>4. NextLocals(c, g)
    BY <2>1, <2>2, <2>3, Zenon DEF NextLocals
  <2> QED
    BY <2>4 DEF g
<1>4. CASE StartCopy(c)
  <2>1. CASE Goto(c, [f EXCEPT !.pc = "copying"])
    <3>1. NextLocals(c, [f EXCEPT !.pc = "copying"])
      BY <1>0, <1>4 DEF NextLocals, StartCopy, At, Frame
    <3> QED
      BY <1>1, <1>2, <2>1, <3>1
  <2>2. CASE Goto(c, Returned(f, c, FALSE, FALSE))
    BY <1>1, <1>2, <1>3, <1>4, <2>2 DEF StartCopy, At
  <2> QED
    BY <1>1, <1>4, <2>1, <2>2 DEF StartCopy
<1>5. CASE EndCopy(c)
  <2>1. NextLocals(c, [f EXCEPT !.pc = "list"])
    BY <1>0, <1>5 DEF NextLocals, EndCopy, At, Frame
  <2> QED
    BY <1>1, <1>2, <1>5, <2>1 DEF EndCopy
<1>6. CASE CopyFails(c)
  BY <1>1, <1>2, <1>3, <1>6 DEF CopyFails, At
<1>7. CASE List(c)
  <2>1. PICK old : Goto(c, IF old = {} THEN Returned(f, c, TRUE, TRUE)
                           ELSE [f EXCEPT !.pc = "remove", !.old = old])
    BY <1>7 DEF List
  <2>2. NextLocals(c, [f EXCEPT !.pc = "remove", !.old = old])
    BY <1>0, <1>7 DEF NextLocals, List, At, Frame
  <2> QED
    BY <1>1, <1>2, <1>3, <1>7, <2>1, <2>2 DEF List, At
<1>8. CASE RemoveOldest(c)
  <2>1. PICK n \in f.old :
            \/ Goto(c, Returned(f, c, FALSE, TRUE))
            \/ Goto(c, IF f.old = {n} THEN Returned(f, c, TRUE, TRUE)
                                      ELSE [f EXCEPT !.old = @ \ {n}])
    BY <1>8 DEF RemoveOldest
  <2>2. NextLocals(c, [f EXCEPT !.old = @ \ {n}])
    BY <1>0, <1>8 DEF NextLocals, RemoveOldest, At, Frame
  <2> QED
    BY <1>1, <1>2, <1>3, <1>8, <2>1, <2>2 DEF RemoveOldest, At
<1>9. CASE Stat(c)
  <2>1. PICK r : Goto(c, [f EXCEPT !.pc = "reply", !.result = r])
    BY <1>9 DEF Stat
  <2>2. NextLocals(c, [f EXCEPT !.pc = "reply", !.result = r])
    BY <1>0, <1>9 DEF NextLocals, Stat, At, Frame
  <2> QED
    BY <1>1, <1>2, <2>1, <2>2
<1>10. CASE Return(c)
  <2>1. NextLocals(c, Idle)
    BY <1>10 DEF NextLocals, Return, At, Idle
  <2> QED
    BY <1>1, <1>2, <1>10, <2>1 DEF Return
<1> QED
  BY <1>4, <1>5, <1>6, <1>7, <1>8, <1>9, <1>10 DEF Later

(* What a rotation does to the directory: it adds the file it is about to  *)
(* write, completes one, or removes one that has Keep files above it.      *)
Stays(n) ==
    /\ files'[n] # NoFile
    /\ files'[n].content = files[n].content
    /\ files[n].kind = "complete" => files'[n].kind = "complete"

LEMMA LaterFiles ==
    ASSUME IInv, NEW c \in Callers, Later(c)
    PROVE  /\ \A n \in Present' : n \in Present \/ (At(c, "copy") /\ n = frame[c].name)
           /\ \A n \in Present : Cardinality(Above(n)) < Keep => Stays(n)
<1> DEFINE f == frame[c]
<1>0. f \in Frame /\ files \in FilesSet /\ frame \in FrameSet
  BY DEF IInv, TypeOK, FilesSet, FrameSet
<1> HIDE DEF f
<1>1. CASE files' = files
  BY <1>1 DEF Present, Stays
<1>2. CASE StartCopy(c)
  <2>1. CASE /\ files[f.name] = NoFile
             /\ files' = [files EXCEPT ![f.name] =
                            [kind |-> "partial", content |-> committed]]
    BY <1>0, <1>2, <2>1 DEF Present, Stays, FilesSet, StartCopy, f
  <2> QED
    BY <1>1, <1>2, <2>1 DEF StartCopy, f
<1>3. CASE EndCopy(c)
  <2>1. CASE /\ files[f.name] # NoFile
             /\ files' = [files EXCEPT ![f.name].kind = "complete"]
    <3>1. ASSUME NEW n \in Present
          PROVE  Stays(n)
      <4>1. /\ [files[n] EXCEPT !.kind = "complete"].content = files[n].content
            /\ [files[n] EXCEPT !.kind = "complete"].kind = "complete"
            /\ [files[n] EXCEPT !.kind = "complete"] # NoFile
        BY <1>0, <3>1 DEF FilesSet, File, NoFile, Present
      <4>2. files'[n] \in {files[n], [files[n] EXCEPT !.kind = "complete"]}
        BY <1>0, <2>1, <3>1 DEF FilesSet, Present
      <4>3. files[n] # NoFile
        BY <3>1 DEF Present
      <4> QED
        BY <4>1, <4>2, <4>3 DEF Stays
    <3>2. Present' \subseteq Present
      BY <1>0, <2>1 DEF Present, FilesSet
    <3> QED
      BY <3>1, <3>2
  <2> QED
    BY <1>1, <1>3, <2>1 DEF EndCopy, f
<1>4. CASE RemoveOldest(c)
  <2>1. PICK n \in f.old :
            \/ files' = files
            \/ files' = [files EXCEPT ![n] = NoFile]
    BY <1>4 DEF RemoveOldest, f
  <2>2. n \in Names /\ Cardinality(Above(n)) >= Keep
    BY <1>0 DEF Frame, IInv, PendingOK, f
  <2>3. CASE files' = [files EXCEPT ![n] = NoFile]
    <3>1. \A m \in Names \ {n} : files'[m] = files[m]
      BY <1>0, <2>3 DEF FilesSet
    <3>2. files'[n] = NoFile
      BY <1>0, <2>2, <2>3 DEF FilesSet
    <3>3. Present' \subseteq Present
      BY <3>1, <3>2 DEF Present
    <3>4. ASSUME NEW m \in Present, Cardinality(Above(m)) < Keep
          PROVE  Stays(m)
      <4>1. m # n
        BY <2>2, <3>4, AboveFinite, BoundAssumption
      <4> QED
        BY <3>1, <4>1 DEF Present, Stays
    <3> QED
      BY <3>3, <3>4
  <2> QED
    BY <1>1, <2>1, <2>3
<1> QED
  BY <1>1, <1>2, <1>3, <1>4
  DEF Later, CopyFails, List, Stat, Return

LEMMA LastTypes ==
    ASSUME TypeOK
    PROVE  /\ frame \in FrameSet /\ files \in FilesSet
           /\ \A c \in Callers : frame[c].name \in Nat
           /\ clock \in Nat /\ Last \in Nat
           /\ Present \subseteq Nat /\ Present' \subseteq Nat
BY NamesNat, MainCaller
DEF TypeOK, FrameSet, FilesSet, Frame, Last, Present, Names

(* Fewer than two files above main's: it is no rotation's to remove.       *)
LEMMA FewAbove ==
    ASSUME YoungOK, Keep >= 2
    PROVE  Cardinality(Above(Last)) < Keep
<1>1. Above(Last) = Late
  BY DEF Above, Late
<1>2. CASE Late = {}
  BY <1>1, <1>2, FS_EmptySet, BoundAssumption
<1>3. CASE Late # {}
  <2>1. PICK n \in Late : TRUE
    BY <1>3
  <2>2. Late = {n}
    BY <2>1 DEF YoungOK
  <2>3. Cardinality({n}) = 1
    BY FS_Singleton
  <2> QED
    BY <1>1, <2>2, <2>3, BoundAssumption
<1> QED
  BY <1>2, <1>3

LEMMA LaterSaved ==
    ASSUME LastInv, Keep >= 2, NEW c \in Callers, Later(c)
    PROVE  SavedOK'
<1> SUFFICES ASSUME Final', drained' PROVE Saved'
  BY DEF SavedOK
<1>0. IInv /\ TypeOK /\ MainOK /\ Final /\ drained /\ Saved /\ committed' = committed
  BY LaterFrame DEF LastInv, IInv, SavedOK, main, work, Final
<1>1. /\ \A d \in Callers \ {c} : frame'[d] = frame[d]
      /\ NextLocals(c, frame'[c])
  BY <1>0, LaterFrame
<1>2. Last' = Last
  BY <1>1, MainCaller DEF Last, NextLocals
<1>3. CASE ~(At(Main, "copying")' \/ Kept')
  BY <1>3 DEF Saved
<1>4. CASE c = Main /\ StartCopy(Main) /\ (At(Main, "copying")' \/ Kept')
  <2>1. ~frame[Main].path
    BY <1>0, <1>4 DEF MainOK, StartCopy, At
  <2>2. ~Kept' /\ At(Main, "copying")'
    <3>1. CASE Goto(Main, Returned(frame[Main], Main, FALSE, FALSE))
      <4>1. frame'[Main] = Returned(frame[Main], Main, FALSE, FALSE)
        BY <1>0, <3>1, LastTypes, MainCaller DEF Goto, FrameSet
      <4>2. frame[Main] \in Frame /\ frame[Main].pc = "copy"
        BY <1>0, <1>4, LastTypes, MainCaller DEF FrameSet, StartCopy, At
      <4>3. Returned(frame[Main], Main, FALSE, FALSE).path = FALSE
        BY <4>2, ReturnedPath
      <4>4. Returned(frame[Main], Main, FALSE, FALSE).pc \in {"stat", "reply"}
        BY <4>2, ReturnedLocals, MainCaller
      <4>5. ~frame'[Main].path /\ frame'[Main].pc \in {"stat", "reply"}
        BY <4>1, <4>3, <4>4
      <4> QED
        BY <1>4, <4>5 DEF Kept, At
    <3>2. CASE Goto(Main, [frame[Main] EXCEPT !.pc = "copying"])
      <4>1. frame'[Main] = [frame[Main] EXCEPT !.pc = "copying"]
        BY <1>0, <3>2, LastTypes, MainCaller DEF Goto, FrameSet
      <4>2. frame'[Main].pc = "copying" /\ frame'[Main].path = frame[Main].path
        BY <1>0, <4>1, LastTypes, MainCaller DEF FrameSet, Frame
      <4> QED
        BY <2>1, <4>2 DEF Kept, At
    <3> QED
      BY <1>4, <3>1, <3>2 DEF StartCopy
  <2>3. /\ files[Last] = NoFile
        /\ files' = [files EXCEPT ![Last] =
                        [kind |-> "partial", content |-> committed]]
    <3>1. ASSUME Goto(Main, Returned(frame[Main], Main, FALSE, FALSE))
          PROVE  FALSE
      BY <1>0, <2>2, <3>1, LastTypes, MainCaller
      DEF Goto, Returned, FrameSet, Frame, At
    <3> QED
      BY <1>4, <3>1 DEF StartCopy, Last
  <2>4. Last \in Names
    BY <1>0, <1>4 DEF MainOK, StartCopy, At
  <2>5. files'[Last] = [kind |-> "partial", content |-> committed]
    BY <1>0, <2>3, <2>4, LastTypes DEF FilesSet
  <2> QED
    BY <1>0, <1>2, <2>2, <2>5 DEF Saved, NoFile
<1>5. CASE ~(c = Main /\ StartCopy(Main)) /\ (At(Main, "copying")' \/ Kept')
  <2>1. /\ At(Main, "copying") \/ Kept
        /\ Kept' => (Kept \/ (EndCopy(c) /\ c = Main))
    <3>1. CASE c # Main
      BY <1>1, <1>5, <3>1, MainCaller DEF At, Kept
    <3>2. CASE c = Main /\ (EndCopy(c) \/ List(c) \/ RemoveOldest(c))
      BY <3>2 DEF EndCopy, List, RemoveOldest, At, Kept
    <3>3. CASE c = Main /\ CopyFails(c)
      <4>1. frame'[Main] = Returned(frame[Main], Main, FALSE, FALSE)
        BY <1>0, <3>3, LastTypes, MainCaller DEF CopyFails, Goto, FrameSet
      <4>2. frame'[Main].path = FALSE /\ frame'[Main].pc = "reply"
        BY <1>0, <4>1, LastTypes, MainCaller DEF Returned, FrameSet, Frame
      <4> QED
        BY <1>5, <4>2 DEF At, Kept
    <3>4. CASE c = Main /\ Stat(c)
      <4>1. frame'[Main].pc = "reply" /\ frame'[Main].path = frame[Main].path
        BY <1>0, <3>4, LastTypes, MainCaller DEF Stat, Goto, FrameSet, Frame
      <4>2. ~frame[Main].path
        BY <1>0, <3>4 DEF MainOK, Stat, At
      <4> QED
        BY <1>5, <4>1, <4>2 DEF At, Kept
    <3> QED
      BY <1>5, <3>1, <3>2, <3>3, <3>4 DEF Later, Return
  <2>2. files[Last] # NoFile /\ files[Last].content = committed
    BY <1>0, <2>1 DEF Saved
  <2>3. ~At(Main, "idle")
    BY <1>0, <2>1 DEF At, Kept, MainOK
  <2>4. Last \in Present
    BY <1>0, <2>2, <2>3 DEF MainOK, Present
  <2>5. Stays(Last)
    BY <1>0, <2>3, <2>4, FewAbove, LaterFiles DEF LastInv, LoopLast
  <2>6. Kept' => files'[Last].kind = "complete"
    <3>1. CASE Kept
      BY <1>0, <2>5, <3>1 DEF Saved, Stays
    <3>2. CASE EndCopy(c) /\ c = Main
      <4>1. files' = [files EXCEPT ![Last].kind = "complete"]
        BY <2>2, <3>2 DEF EndCopy, Last
      <4>2. files'[Last] = [files[Last] EXCEPT !.kind = "complete"]
        BY <1>0, <2>4, <4>1, LastTypes DEF FilesSet, Present
      <4>3. [files[Last] EXCEPT !.kind = "complete"].kind = "complete"
        BY <1>0, <2>4, <2>2, LastTypes DEF FilesSet, File, NoFile, Present
      <4> QED
        BY <4>2, <4>3
    <3> QED
      BY <2>1, <3>1, <3>2
  <2> QED
    BY <1>0, <1>2, <2>2, <2>5, <2>6 DEF Saved, Stays
<1> QED
  BY <1>3, <1>4, <1>5

LEMMA LaterClock ==
    ASSUME IInv, ClockOK, NEW c \in Callers, Later(c)
    PROVE  ClockOK'
<1>0. TypeOK
  BY DEF IInv
<1>1. clock' = clock /\ \A d \in Callers : frame'[d].name \in {frame[d].name, 0}
  BY <1>0, LaterFrame DEF NextLocals
<1>2. \A n \in Present' : n \in Present \/ (At(c, "copy") /\ n = frame[c].name)
  BY LaterFiles
<1> QED
  BY <1>0, <1>1, <1>2, LastTypes DEF ClockOK

LEMMA LaterYoung ==
    ASSUME LastInv, NEW c \in Callers, Later(c)
    PROVE  ClockOK' /\ MainOK' /\ LoopLast'
<1>0. IInv /\ TypeOK /\ ClockOK /\ MainOK /\ LoopLast
  BY DEF LastInv, IInv
<1>1. /\ UNCHANGED <<main, clock, work>>
      /\ \A d \in Callers \ {c} : frame'[d] = frame[d]
      /\ NextLocals(c, frame'[c])
  BY <1>0, LaterFrame
<1>2. \A n \in Present' : n \in Present \/ (At(c, "copy") /\ n = frame[c].name)
  BY <1>0, LaterFiles
<1>3. \A d \in Callers : frame'[d].name \in {frame[d].name, 0}
  BY <1>1 DEF NextLocals
<1>4. Last' = Last /\ (At(Main, "idle")' <=> At(Main, "idle"))
  BY <1>1, MainCaller DEF Last, NextLocals, At
<1>5. ClockOK'
  BY <1>0, LaterClock
<1>6. MainOK'
  <2>1. stage' = stage /\ drained' = drained /\ pending' = pending
    BY <1>1 DEF main, work
  <2>2. stage = "exited" => At(Main, "reply")'
    BY <1>0, <1>1, MainCaller DEF MainOK, NextLocals, At
  <2>3. frame'[Main].path => At(Main, "reply")'
    <3>1. CASE c # Main
      BY <1>0, <1>1, <3>1, MainCaller DEF MainOK, At
    <3>2. CASE c = Main
      <4>1. ~frame[Main].path
        BY <1>0, <1>1, <3>2 DEF MainOK, NextLocals, At
      <4> QED
        BY <1>1, <3>2, <4>1 DEF NextLocals, At
    <3> QED
      BY <3>1, <3>2
  <2> QED
    BY <1>0, <1>4, <2>1, <2>2, <2>3 DEF MainOK, Final
<1>7. ASSUME YoungOK PROVE YoungOK'
  <2>1. tick' = tick
    BY <1>1 DEF work
  <2>2. \A a \in Admins : frame'[a].name <= Last
    BY <1>0, <1>3, <1>7, LastTypes DEF YoungOK, Callers
  <2>3. CASE c = Loop /\ At(Loop, "copy") /\ frame[Loop].name > Last
    <3>1. Late = {} /\ ~tick
      BY <1>7, <2>3 DEF YoungOK
    <3>2. \A n \in Late' : n = frame[Loop].name
      BY <1>2, <1>4, <2>3, <3>1 DEF Late
    <3>3. ~At(Loop, "copy")'
      BY <1>1, <2>3 DEF NextLocals, At
    <3> QED
      BY <1>4, <2>1, <2>2, <3>1, <3>2, <3>3 DEF YoungOK
  <2>4. CASE ~(c = Loop /\ At(Loop, "copy") /\ frame[Loop].name > Last)
    <3>1. Late' \subseteq Late
      <4> SUFFICES ASSUME NEW n \in Late', n \notin Late PROVE FALSE
        OBVIOUS
      <4>1. n \in Present' /\ n > Last
        BY <1>4 DEF Late
      <4>2. At(c, "copy") /\ n = frame[c].name
        BY <1>2, <4>1 DEF Late
      <4>3. frame[c].name > Last
        BY <4>1, <4>2
      <4>4. c \notin Admins
        BY <1>0, <1>7, <4>3, LastTypes DEF YoungOK
      <4>5. c # Main
        BY <1>0, <4>3, LastTypes DEF Last
      <4> QED
        BY <2>4, <4>2, <4>3, <4>4, <4>5 DEF Callers
    <3>2. At(Loop, "copy")' => c # Loop
      BY <1>1 DEF NextLocals, At
    <3>3. At(Loop, "copy")' => At(Loop, "copy") /\ frame'[Loop] = frame[Loop]
      BY <1>1, <3>2, MainCaller DEF At
    <3> QED
      BY <1>4, <1>7, <2>1, <2>2, <3>1, <3>3 DEF YoungOK
  <2> QED
    BY <2>3, <2>4
<1> QED
  BY <1>0, <1>4, <1>5, <1>6, <1>7 DEF LoopLast

(* A rotation begins: at the next instant, when the clock moves on.        *)
LEMMA BeginFrame ==
    ASSUME TypeOK, "clock" \notin Faults, NEW c \in Callers, Begin(c)
    PROVE  /\ UNCHANGED <<main, pending, disk>>
           /\ clock' = clock + 1 /\ clock' \in Names
           /\ tick' = (tick /\ c # Loop)
           /\ At(c, "idle") /\ Called(c)
           /\ frame'[c].pc = "copy" /\ frame'[c].name = clock'
           /\ frame'[c].path = FALSE /\ frame'[c].since = committed
           /\ \A d \in Callers \ {c} :
                /\ frame'[d].pc = frame[d].pc
                /\ frame'[d].name = frame[d].name
                /\ frame'[d].since = frame[d].since
                /\ frame'[d].path = frame[d].path
<1>1. /\ UNCHANGED <<main, pending, disk>>
      /\ tick' = (tick /\ c # Loop)
      /\ At(c, "idle") /\ Called(c)
  BY DEF Begin
<1>2. PICK now \in Instants(c) :
        /\ clock' = now
        /\ frame' = [d \in Callers |->
                IF d = c THEN [Idle EXCEPT !.pc = "copy", !.name = now,
                                           !.since = committed,
                                           !.alone = ~\E e \in Callers : Rotating(e)]
                ELSE [frame[d] EXCEPT !.alone = FALSE]]
  BY DEF Begin
<1>3. clock' = clock + 1 /\ clock' \in Names
  BY <1>2 DEF Instants
<1>4. PICK alone :
        frame'[c] = [Idle EXCEPT !.pc = "copy", !.name = clock',
                                 !.since = committed, !.alone = alone]
  BY <1>2
<1>5. /\ frame'[c].pc = "copy" /\ frame'[c].name = clock'
      /\ frame'[c].path = FALSE /\ frame'[c].since = committed
  BY <1>4 DEF Idle
<1>6. ASSUME NEW d \in Callers \ {c}
      PROVE  /\ frame'[d].pc = frame[d].pc
             /\ frame'[d].name = frame[d].name
             /\ frame'[d].since = frame[d].since
             /\ frame'[d].path = frame[d].path
  <2>1. frame'[d] = [frame[d] EXCEPT !.alone = FALSE]
    BY <1>2, <1>6
  <2>2. frame[d] \in Frame
    BY LastTypes DEF FrameSet
  <2> QED
    BY <2>1, <2>2 DEF Frame
<1> QED
  BY <1>1, <1>3, <1>5, <1>6

LEMMA BeginLast ==
    ASSUME LastInv, "clock" \notin Faults, NEW c \in Callers, Begin(c)
    PROVE  ClockOK' /\ MainOK' /\ LoopLast' /\ SavedOK'
<1>0. IInv /\ TypeOK /\ ClockOK /\ MainOK /\ LoopLast /\ SavedOK
  BY DEF LastInv, IInv
<1>1. /\ stage' = stage /\ drained' = drained /\ pending' = pending
      /\ files' = files /\ committed' = committed
      /\ clock' = clock + 1 /\ clock' \in Names
      /\ tick' = (tick /\ c # Loop)
      /\ At(c, "idle") /\ Called(c)
  BY <1>0, BeginFrame DEF main, disk
<1>2. frame'[c].pc = "copy" /\ frame'[c].name = clock' /\ frame'[c].path = FALSE
  BY <1>0, BeginFrame
<1>3. \A d \in Callers \ {c} :
        /\ frame'[d].pc = frame[d].pc
        /\ frame'[d].name = frame[d].name
        /\ frame'[d].path = frame[d].path
  BY <1>0, BeginFrame
<1>4. Present' = Present
  BY <1>1 DEF Present
<1>5. ClockOK'
  <2>1. \A n \in Present : n <= clock'
    BY <1>0, <1>1, LastTypes DEF ClockOK
  <2>2. \A d \in Callers : frame'[d].name <= clock'
    BY <1>0, <1>1, <1>2, <1>3, LastTypes DEF ClockOK
  <2> QED
    BY <1>4, <2>1, <2>2 DEF ClockOK
<1>6. CASE c = Main
  <2>1. stage = "final" /\ ~At(Main, "idle")'
    BY <1>1, <1>2, <1>6, MainCaller DEF Called, At
  <2>2. Last' = clock'
    BY <1>2, <1>6 DEF Last
  <2>3. MainOK'
    BY <1>0, <1>1, <1>2, <1>6, <2>1, <2>2 DEF MainOK, Final
  <2>4. Late' = {}
    BY <1>1, <1>4, <1>5, <2>2, LastTypes, <1>0, NamesNat DEF Late, ClockOK
  <2>5. \A d \in Callers : frame'[d].name <= Last'
    BY <1>5, <2>2 DEF ClockOK
  <2>6. YoungOK'
    <3>1. ~(frame'[Loop].name > Last')
      <4>1. frame'[Loop].name \in Nat
        BY <1>0, <1>3, <1>6, MainCaller, LastTypes
      <4> QED
        BY <1>1, <2>2, <2>5, <4>1, MainCaller, NamesNat
    <3> QED
      BY <2>4, <2>5, <3>1 DEF YoungOK, Callers
  <2>7. SavedOK'
    BY <1>2, <1>6 DEF SavedOK, Saved, Kept, At
  <2> QED
    BY <1>5, <2>3, <2>6, <2>7 DEF LoopLast
<1>7. CASE c # Main
  <2>1. /\ frame'[Main].pc = frame[Main].pc
        /\ frame'[Main].path = frame[Main].path
        /\ Last' = Last
    BY <1>3, <1>7, MainCaller DEF Last
  <2>2. MainOK'
    BY <1>0, <1>1, <2>1 DEF MainOK, Final, At
  <2>3. SavedOK'
    BY <1>0, <1>1, <2>1 DEF SavedOK, Saved, Kept, Final, At
  <2>4. LoopLast'
    <3>1. CASE At(Main, "idle")
      BY <2>1, <3>1 DEF LoopLast, At
    <3>2. CASE ~At(Main, "idle")
      <4>1. c = Loop /\ tick /\ ~tick'
        BY <1>0, <1>1, <1>7, <3>2 DEF Called, MainOK, Final, Callers
      <4>2. YoungOK
        BY <1>0, <3>2 DEF LoopLast
      <4>3. Late' = {}
        BY <1>4, <2>1, <4>1, <4>2 DEF YoungOK, Late
      <4>4. \A a \in Admins : frame'[a].name <= Last'
        BY <1>3, <2>1, <4>1, <4>2, MainCaller DEF YoungOK, Callers
      <4> QED
        BY <4>1, <4>3, <4>4 DEF LoopLast, YoungOK
    <3> QED
      BY <3>1, <3>2
  <2> QED
    BY <1>5, <2>2, <2>3, <2>4
<1> QED
  BY <1>6, <1>7

(* The steps of main and of the requests.                                  *)
LEMMA MainLast ==
    ASSUME LastInv,
           \/ Arrive \/ Commit \/ Tick \/ Signal \/ Shutdown
           \/ Exit \/ Crash \/ Start \/ UNCHANGED vars
    PROVE  ClockOK' /\ MainOK' /\ LoopLast' /\ SavedOK'
<1>0. TypeOK /\ ClockOK /\ MainOK /\ LoopLast /\ SavedOK
  BY DEF LastInv, IInv
<1>1. clock' = clock /\ files' = files /\ Present' = Present
  BY DEF Arrive, Commit, Tick, Signal, Shutdown, Exit, Crash, Start, Ends,
         vars, disk, work, Present
<1>2. ASSUME frame' = frame PROVE ClockOK' /\ (LoopLast' \/ tick' # tick)
  <2>1. ClockOK'
    BY <1>0, <1>1, <1>2 DEF ClockOK
  <2>2. tick' = tick => LoopLast'
    BY <1>0, <1>1, <1>2 DEF LoopLast, YoungOK, Late, Last, At
  <2> QED
    BY <2>1, <2>2
<1>3. ASSUME \A c \in Callers : frame'[c] = Idle, ~Final'
      PROVE  ClockOK' /\ MainOK' /\ LoopLast' /\ SavedOK'
  <2>1. ClockOK'
    BY <1>0, <1>1, <1>3, LastTypes DEF ClockOK, Idle
  <2>2. At(Main, "idle")' /\ ~frame'[Main].path
    BY <1>3, MainCaller DEF At, Idle
  <2>3. stage' # "exited"
    BY <1>3 DEF Final
  <2> QED
    BY <1>3, <2>1, <2>2, <2>3 DEF MainOK, LoopLast, SavedOK, Final
<1>4. CASE Arrive
  <2>1. ~Final /\ stage' = stage /\ frame' = frame /\ tick' = tick
    BY <1>4 DEF Arrive, Final, main
  <2>2. MainOK' /\ SavedOK'
    BY <1>0, <2>1 DEF MainOK, SavedOK, Final, At, Last
  <2> QED
    BY <1>2, <2>1, <2>2
<1>5. CASE Commit
  <2>1. /\ pending # 0 /\ stage' = stage /\ drained' = drained
        /\ frame' = frame /\ tick' = tick
    BY <1>0, <1>5 DEF Commit, main, TypeOK
  <2>2. MainOK' /\ SavedOK'
    BY <1>0, <2>1 DEF MainOK, SavedOK, Final, At, Last
  <2> QED
    BY <1>2, <2>1, <2>2
<1>6. CASE Tick
  <2>1. ~Final /\ stage' = stage /\ frame' = frame /\ At(Main, "idle")
    BY <1>0, <1>6 DEF Tick, Final, main, MainOK
  <2>2. MainOK' /\ SavedOK' /\ LoopLast'
    BY <1>0, <2>1 DEF MainOK, SavedOK, LoopLast, Final, At, Last
  <2> QED
    BY <1>2, <2>1, <2>2
<1>7. CASE Signal
  <2>1. ~Final /\ ~Final' /\ stage' # "exited" /\ frame' = frame /\ tick' = tick
    BY <1>7 DEF Signal, Final, work
  <2>2. MainOK' /\ SavedOK'
    BY <1>0, <2>1 DEF MainOK, SavedOK, Final, At, Last
  <2> QED
    BY <1>2, <2>1, <2>2
<1>8. CASE Shutdown
  <2>1. ~Final /\ stage' = "final" /\ frame' = frame /\ tick' = tick
    BY <1>8 DEF Shutdown, Final, work
  <2>2. drained' => pending' = 0
    BY <1>8 DEF Shutdown, Answered, work
  <2>3. At(Main, "idle") /\ ~frame[Main].path
    BY <1>0, <2>1 DEF MainOK, At
  <2>4. MainOK'
    BY <2>1, <2>2, <2>3 DEF MainOK, Final, At
  <2>5. SavedOK'
    BY <2>1, <2>3 DEF SavedOK, Saved, Kept, At
  <2> QED
    BY <1>2, <2>1, <2>4, <2>5
<1>9. CASE Exit
  <2>1. /\ stage' = "exited" /\ drained' = drained /\ committed' = committed
        /\ pending' = 0 /\ ~tick' /\ At(Main, "reply")
    BY <1>9 DEF Exit, Ends, disk
  <2>2. /\ frame'[Main] = frame[Main]
        /\ \A c \in Callers \ {Main} : frame'[c] = Idle
    BY <1>9, MainCaller DEF Exit
  <2>3. Final /\ Last \in Names /\ Last' = Last
    BY <1>0, <2>1, <2>2 DEF MainOK, At, Last
  <2>4. ClockOK'
    BY <1>0, <1>1, <2>2, LastTypes DEF ClockOK, Idle
  <2>5. MainOK'
    BY <1>0, <2>1, <2>2, <2>3 DEF MainOK, At, Final
  <2>6. YoungOK'
    <3>1. YoungOK
      BY <1>0, <2>1 DEF LoopLast, At
    <3>2. Late' = Late
      BY <1>1, <2>3 DEF Late
    <3>3. \A a \in Admins : frame'[a].name <= Last'
      BY <2>2, <2>3, MainCaller, NamesNat DEF Idle, Callers
    <3>4. ~At(Loop, "copy")'
      BY <2>2, MainCaller DEF At, Idle
    <3> QED
      BY <2>1, <3>1, <3>2, <3>3, <3>4 DEF YoungOK
  <2>7. SavedOK'
    BY <1>0, <1>1, <2>1, <2>2, <2>3 DEF SavedOK, Saved, Kept, At
  <2> QED
    BY <2>4, <2>5, <2>6, <2>7 DEF LoopLast
<1>10. CASE Crash
  <2>1. (\A c \in Callers : frame'[c] = Idle) /\ ~Final'
    BY <1>10 DEF Crash, Final
  <2> QED
    BY <1>3, <2>1
<1>11. CASE Start
  <2>1. (\A c \in Callers : frame'[c] = Idle) /\ ~Final'
    BY <1>11 DEF Start, Final
  <2> QED
    BY <1>3, <2>1
<1>12. CASE UNCHANGED vars
  <2>1. /\ stage' = stage /\ drained' = drained /\ pending' = pending
        /\ committed' = committed /\ frame' = frame /\ tick' = tick
    BY <1>12 DEF vars, disk
  <2>2. MainOK' /\ SavedOK'
    BY <1>0, <1>1, <2>1
    DEF MainOK, SavedOK, Saved, Kept, Final, At, Last
  <2> QED
    BY <1>2, <2>1, <2>2
<1> QED
  BY <1>4, <1>5, <1>6, <1>7, <1>8, <1>9, <1>10, <1>11, <1>12

LEMMA NextLast ==
    ASSUME LastInv, "clock" \notin Faults, Keep >= 2, [Next]_vars
    PROVE  LastInv'
<1>1. IInv'
  BY NextIInv DEF LastInv
<1>2. ClockOK' /\ MainOK' /\ LoopLast' /\ SavedOK'
  <2>1. CASE \E c \in Callers : Rotate(c)
    <3>1. PICK c \in Callers : Begin(c) \/ Later(c)
      BY <2>1 DEF Rotate, Later
    <3> QED
      BY <3>1, BeginLast, LaterYoung, LaterSaved
  <2>2. CASE ~\E c \in Callers : Rotate(c)
    BY <2>2, MainLast DEF Next
  <2> QED
    BY <2>1, <2>2
<1> QED
  BY <1>1, <1>2 DEF LastInv

LEMMA LastFinal == LastInv => FinalBackup
<1> SUFFICES ASSUME LastInv, stage = "exited", drained, frame[Main].path
             PROVE  \E n \in Complete : files[n].content = committed
  BY DEF FinalBackup
<1>1. At(Main, "reply") /\ Last \in Names
  BY DEF LastInv, MainOK, At
<1>2. Kept /\ Saved
  BY DEF LastInv, SavedOK, Final, Kept
<1>3. Last \in Complete /\ files[Last].content = committed
  BY <1>1, <1>2 DEF Saved, Complete
<1> QED
  BY <1>3

(* With a clock that moves on between two rotations and two files kept or  *)
(* more, a shutdown that waited for every request, and says it took its    *)
(* backup, leaves a snapshot of every acknowledged write, however many     *)
(* requests and whatever the loop and crashes did before.                  *)
THEOREM FinalBackupKept ==
    ASSUME "clock" \notin Faults, Keep >= 2
    PROVE  Spec => []FinalBackup
<1>1. Init => LastInv
  BY InitLast
<1>2. LastInv /\ [Next]_vars => LastInv'
  BY NextLast
<1>3. LastInv => FinalBackup
  BY LastFinal
<1> QED
  BY <1>1, <1>2, <1>3, PTL DEF Spec

-----------------------------------------------------------------------------
(***************************************************************************)
(* The answers of POST /admin/backup.  While the clock moves on, no two    *)
(* rotations write under one name, and no rotation under the name of a     *)
(* file: whatever stat finds is what the caller has written itself.        *)
(***************************************************************************)
NamesApart ==
    \A c, d \in Callers : c # d /\ frame[c].name = frame[d].name
                             => frame[c].name = 0

Whole(n, since) ==
    files[n] = NoFile \/ (files[n].kind = "complete" /\ files[n].content >= since)

OwnFile(c) ==
    LET f == frame[c] IN
    /\ f.pc # "idle" => f.name \in Names
    /\ f.pc = "copy" => f.since <= committed
    /\ f.pc = "copying" => files[f.name] = NoFile \/ files[f.name].content >= f.since
    /\ f.pc \in {"list", "remove", "stat"} => Whole(f.name, f.since)

OwnInv == IInv /\ ClockOK /\ NamesApart /\ \A c \in Callers : OwnFile(c)

LEMMA InitOwn == Init => OwnInv
<1> SUFFICES ASSUME Init PROVE OwnInv
  OBVIOUS
<1>1. \A c \in Callers : frame[c] = Idle
  BY DEF Init
<1>2. ClockOK
  BY DEF Init, ClockOK, Present, Idle
<1>3. NamesApart
  BY <1>1 DEF NamesApart, Idle
<1>4. \A c \in Callers : OwnFile(c)
  BY <1>1 DEF OwnFile, Idle
<1> QED
  BY <1>2, <1>3, <1>4, InitIInv DEF OwnInv

(* What a rotation does to the directory, once more: only the file of its  *)
(* own name can get new content or become complete.                        *)
LEMMA LaterOwn ==
    ASSUME TypeOK, NEW c \in Callers, Later(c), NEW n \in Names
    PROVE  \/ files'[n] = files[n]
           \/ files'[n] = NoFile
           \/ n = frame[c].name /\ (StartCopy(c) \/ EndCopy(c))
<1>0. frame[c] \in Frame /\ files \in FilesSet
  BY LastTypes DEF FrameSet
<1>1. CASE files' = files
  BY <1>1
<1>2. CASE StartCopy(c) \/ EndCopy(c)
  <2>1. n # frame[c].name => files'[n] = files[n]
    BY <1>0, <1>2 DEF StartCopy, EndCopy, FilesSet
  <2> QED
    BY <1>2, <2>1
<1>3. CASE RemoveOldest(c)
  <2>1. PICK m : files' = files \/ files' = [files EXCEPT ![m] = NoFile]
    BY <1>3 DEF RemoveOldest
  <2> QED
    BY <1>0, <2>1 DEF FilesSet
<1> QED
  BY <1>1, <1>2, <1>3 DEF Later, CopyFails, List, Stat, Return

(* ... and how far it has come with it.                                    *)
LEMMA LaterPc ==
    ASSUME TypeOK, NEW c \in Callers, Later(c)
    PROVE  /\ frame'[c].pc = "copying" =>
                /\ At(c, "copy")
                /\ files' = [files EXCEPT ![frame[c].name] =
                                [kind |-> "partial", content |-> committed]]
           /\ frame'[c].pc \in {"list", "remove", "stat"} =>
                \/ EndCopy(c)
                \/ (At(c, "list") \/ At(c, "remove")) /\ ~StartCopy(c) /\ ~EndCopy(c)
<1> DEFINE f == frame[c]
<1>0. f \in Frame /\ frame \in FrameSet
  BY LastTypes DEF FrameSet
<1>1. ASSUME NEW g, Goto(c, g) PROVE frame'[c] = g
  BY <1>0, <1>1 DEF Goto, FrameSet
<1>2. ASSUME f.pc \in {"copy", "copying", "list", "remove"},
             NEW path \in BOOLEAN
      PROVE  Returned(f, c, FALSE, path).pc = "reply"
  BY <1>0, <1>2, ReturnedLocals
<1>3. ASSUME f.pc \in {"copy", "copying", "list", "remove"},
             NEW path \in BOOLEAN
      PROVE  Returned(f, c, TRUE, path).pc \in {"stat", "reply"}
  BY <1>0, <1>3, ReturnedLocals
<1>4. CASE StartCopy(c)
  <2>1. f.pc = "copy"
    BY <1>4 DEF StartCopy, At
  <2>2. CASE /\ Goto(c, [f EXCEPT !.pc = "copying"])
             /\ files' = [files EXCEPT ![f.name] =
                            [kind |-> "partial", content |-> committed]]
    <3>1. [f EXCEPT !.pc = "copying"].pc = "copying"
      BY <1>0 DEF Frame
    <3> QED
      BY <1>1, <2>1, <2>2, <3>1 DEF At
  <2>3. CASE Goto(c, Returned(f, c, FALSE, FALSE))
    <3>1. frame'[c].pc = "reply"
      BY <1>1, <1>2, <2>1, <2>3
    <3> QED
      BY <3>1
  <2> QED
    BY <1>4, <2>2, <2>3 DEF StartCopy
<1>5. CASE EndCopy(c)
  <2>1. [f EXCEPT !.pc = "list"].pc = "list"
    BY <1>0 DEF Frame
  <2>2. frame'[c].pc = "list"
    BY <1>1, <1>5, <2>1 DEF EndCopy
  <2> QED
    BY <1>5, <2>2
<1>6. CASE CopyFails(c)
  <2>1. frame'[c].pc = "reply"
    BY <1>1, <1>2, <1>6 DEF CopyFails, At
  <2> QED
    BY <2>1
<1>7. CASE List(c)
  <2>1. f.pc = "list"
    BY <1>7 DEF List, At
  <2>2. PICK old : Goto(c, IF old = {} THEN Returned(f, c, TRUE, TRUE)
                           ELSE [f EXCEPT !.pc = "remove", !.old = old])
    BY <1>7 DEF List
  <2>3. [f EXCEPT !.pc = "remove", !.old = old].pc = "remove"
    BY <1>0 DEF Frame
  <2>4. frame'[c].pc # "copying"
    BY <1>1, <1>3, <2>1, <2>2, <2>3
  <2> QED
    BY <2>1, <2>4 DEF StartCopy, EndCopy, At
<1>8. CASE RemoveOldest(c)
  <2>1. f.pc = "remove"
    BY <1>8 DEF RemoveOldest, At
  <2>2. PICK n \in f.old :
            \/ Goto(c, Returned(f, c, FALSE, TRUE))
            \/ Goto(c, IF f.old = {n} THEN Returned(f, c, TRUE, TRUE)
                                      ELSE [f EXCEPT !.old = @ \ {n}])
    BY <1>8 DEF RemoveOldest
  <2>3. [f EXCEPT !.old = @ \ {n}].pc = "remove"
    BY <1>0, <2>1 DEF Frame
  <2>4. frame'[c].pc # "copying"
    BY <1>1, <1>2, <1>3, <2>1, <2>2, <2>3
  <2> QED
    BY <2>1, <2>4 DEF StartCopy, EndCopy, At
<1>9. CASE Stat(c)
  <2>1. PICK r : Goto(c, [f EXCEPT !.pc = "reply", !.result = r])
    BY <1>9 DEF Stat
  <2>2. [f EXCEPT !.pc = "reply", !.result = r].pc = "reply"
    BY <1>0 DEF Frame
  <2>3. frame'[c].pc = "reply"
    BY <1>1, <2>1, <2>2
  <2> QED
    BY <2>3
<1>10. CASE Return(c)
  <2>1. frame'[c].pc = "idle"
    BY <1>1, <1>10 DEF Return, Idle
  <2> QED
    BY <2>1
<1> QED
  BY <1>4, <1>5, <1>6, <1>7, <1>8, <1>9, <1>10 DEF Later

LEMMA OwnLater ==
    ASSUME OwnInv, NEW c \in Callers, Later(c)
    PROVE  ClockOK' /\ NamesApart' /\ \A d \in Callers : OwnFile(d)'
<1>0. IInv /\ TypeOK /\ ClockOK /\ NamesApart /\ \A d \in Callers : OwnFile(d)
  BY DEF OwnInv, IInv
<1>1. /\ committed' = committed
      /\ \A d \in Callers \ {c} : frame'[d] = frame[d]
      /\ NextLocals(c, frame'[c])
  BY <1>0, LaterFrame DEF work
<1>2. ClockOK'
  BY <1>0, LaterClock
<1>3. NamesApart'
  <2>1. \A d \in Callers : frame'[d].name \in {frame[d].name, 0}
    BY <1>1 DEF NextLocals
  <2> QED
    BY <1>0, <2>1 DEF NamesApart
<1>4. files \in FilesSet
  BY <1>0, LastTypes
<1>5. frame[c].pc # "idle" /\ frame[c].name \in Names
  BY <1>0, <1>1 DEF NextLocals, OwnFile
<1>6. ASSUME NEW d \in Callers \ {c} PROVE OwnFile(d)'
  <2>1. OwnFile(d) /\ frame'[d] = frame[d]
    BY <1>0, <1>1
  <2>2. CASE frame[d].pc = "idle"
    BY <2>1, <2>2 DEF OwnFile
  <2>3. CASE frame[d].pc # "idle"
    <3>1. frame[d].name \in Names
      BY <2>1, <2>3 DEF OwnFile
    <3>2. frame[d].name # frame[c].name
      BY <1>0, <1>5, <3>1, NamesNat DEF NamesApart
    <3>3. files'[frame[d].name] \in {files[frame[d].name], NoFile}
      BY <1>0, <3>1, <3>2, LaterOwn
    <3> QED
      BY <1>1, <2>1, <3>3 DEF OwnFile, Whole
  <2> QED
    BY <2>2, <2>3
<1>7. OwnFile(c)'
  <2> DEFINE f == frame[c]
             g == frame'[c]
  <2>1. g.pc # "copy" /\ (g.pc # "idle" => g.name = f.name /\ g.since = f.since)
    BY <1>1 DEF NextLocals
  <2>2. ASSUME g.pc = "copying"
        PROVE  files'[f.name].content >= f.since
    <3>1. f.pc = "copy"
      BY <1>0, <2>2, LaterPc DEF At
    <3>2. files' = [files EXCEPT ![f.name] =
                       [kind |-> "partial", content |-> committed]]
      BY <1>0, <2>2, LaterPc
    <3>3. files'[f.name] = [kind |-> "partial", content |-> committed]
      BY <1>4, <1>5, <3>2 DEF FilesSet
    <3>4. f.since <= committed
      BY <1>0, <3>1 DEF OwnFile
    <3>5. f.since \in Nat /\ committed \in Nat
      BY <1>0, LastTypes DEF TypeOK, FrameSet, Frame
    <3> QED
      BY <3>3, <3>4, <3>5
  <2>3. ASSUME g.pc \in {"list", "remove", "stat"}
        PROVE  \/ files'[f.name] = NoFile
               \/ files'[f.name].kind = "complete" /\ files'[f.name].content >= f.since
    <3>1. CASE EndCopy(c)
      <4>1. files[f.name] = NoFile \/ files[f.name].content >= f.since
        BY <1>0, <3>1 DEF OwnFile, EndCopy, At
      <4>2. CASE files[f.name] = NoFile
        BY <3>1, <4>2 DEF EndCopy
      <4>3. CASE files[f.name] # NoFile
        <5>1. files'[f.name] = [files[f.name] EXCEPT !.kind = "complete"]
          BY <1>4, <1>5, <3>1, <4>3 DEF EndCopy, FilesSet
        <5>2. /\ [files[f.name] EXCEPT !.kind = "complete"].content
                    = files[f.name].content
              /\ [files[f.name] EXCEPT !.kind = "complete"].kind = "complete"
          BY <1>4, <1>5, <4>3 DEF FilesSet, File, NoFile
        <5> QED
          BY <4>1, <4>3, <5>1, <5>2
      <4> QED
        BY <4>2, <4>3
    <3>2. CASE ~EndCopy(c)
      <4>1. f.pc \in {"list", "remove"} /\ ~StartCopy(c)
        BY <1>0, <2>3, <3>2, LaterPc DEF At
      <4>2. Whole(f.name, f.since)
        BY <1>0, <4>1 DEF OwnFile
      <4>3. files'[f.name] \in {files[f.name], NoFile}
        BY <1>0, <1>5, <3>2, <4>1, LaterOwn
      <4> QED
        BY <4>2, <4>3 DEF Whole
    <3> QED
      BY <3>1, <3>2
  <2> QED
    BY <1>5, <2>1, <2>2, <2>3 DEF OwnFile, Whole
<1> QED
  BY <1>2, <1>3, <1>6, <1>7

LEMMA OwnBegin ==
    ASSUME OwnInv, "clock" \notin Faults, NEW c \in Callers, Begin(c)
    PROVE  ClockOK' /\ NamesApart' /\ \A d \in Callers : OwnFile(d)'
<1>0. IInv /\ TypeOK /\ ClockOK /\ NamesApart /\ \A d \in Callers : OwnFile(d)
  BY DEF OwnInv, IInv
<1>1. /\ files' = files /\ committed' = committed
      /\ clock' = clock + 1 /\ clock' \in Names
  BY <1>0, BeginFrame DEF disk
<1>2. /\ frame'[c].pc = "copy" /\ frame'[c].name = clock'
      /\ frame'[c].since = committed
  BY <1>0, BeginFrame
<1>3. \A d \in Callers \ {c} :
        /\ frame'[d].pc = frame[d].pc
        /\ frame'[d].name = frame[d].name
        /\ frame'[d].since = frame[d].since
  BY <1>0, BeginFrame
<1>4. \A d \in Callers \ {c} : frame'[d].name < clock'
  BY <1>0, <1>1, <1>3, LastTypes DEF ClockOK
<1>5. ClockOK'
  <2>1. \A n \in Present' : n <= clock'
    BY <1>0, <1>1, LastTypes DEF ClockOK, Present
  <2>2. \A d \in Callers : frame'[d].name <= clock'
    BY <1>0, <1>1, <1>2, <1>3, LastTypes DEF ClockOK
  <2> QED
    BY <2>1, <2>2 DEF ClockOK
<1>6. NamesApart'
  <2> SUFFICES ASSUME NEW d \in Callers, NEW e \in Callers, d # e,
                      frame'[d].name = frame'[e].name
               PROVE  frame'[d].name = 0
    BY DEF NamesApart
  <2>1. clock' \in Nat /\ \A b \in Callers \ {c} : frame'[b].name \in Nat
    BY <1>0, <1>1, <1>3, LastTypes, NamesNat
  <2>2. d # c /\ e # c
    BY <1>2, <1>4, <2>1
  <2> QED
    BY <1>0, <1>3, <2>2 DEF NamesApart
<1>7. OwnFile(c)'
  <2>1. committed <= committed'
    BY <1>0, <1>1 DEF TypeOK
  <2> QED
    BY <1>1, <1>2, <2>1 DEF OwnFile
<1>8. ASSUME NEW d \in Callers \ {c} PROVE OwnFile(d)'
  BY <1>0, <1>1, <1>3 DEF OwnFile, Whole
<1> QED
  BY <1>5, <1>6, <1>7, <1>8

LEMMA OwnMain ==
    ASSUME OwnInv,
           \/ Arrive \/ Commit \/ Tick \/ Signal \/ Shutdown
           \/ Exit \/ Crash \/ Start \/ UNCHANGED vars
    PROVE  ClockOK' /\ NamesApart' /\ \A d \in Callers : OwnFile(d)'
<1>0. TypeOK /\ ClockOK /\ NamesApart /\ \A d \in Callers : OwnFile(d)
  BY DEF OwnInv, IInv
<1>1. clock' = clock /\ files' = files /\ Present' = Present
  BY DEF Arrive, Commit, Tick, Signal, Shutdown, Exit, Crash, Start, Ends,
         vars, disk, work, Present
<1>2. committed' \in {committed, committed + 1}
  BY <1>0 DEF TypeOK, Arrive, Commit, Tick, Signal, Shutdown, Exit, Crash,
              Start, Ends, vars, disk, work
<1>3. \A d \in Callers : frame'[d] = frame[d] \/ frame'[d] = Idle
  BY DEF Arrive, Commit, Tick, Signal, Shutdown, Exit, Crash, Start, vars
<1>4. ClockOK'
  BY <1>0, <1>1, <1>3, LastTypes DEF ClockOK, Idle
<1>5. NamesApart'
  BY <1>0, <1>3 DEF NamesApart, Idle
<1>6. ASSUME NEW d \in Callers PROVE OwnFile(d)'
  <2>1. CASE frame'[d] = Idle
    BY <2>1 DEF OwnFile, Idle
  <2>2. CASE frame'[d] = frame[d]
    <3>1. frame[d].since \in Nat /\ committed \in Nat
      BY <1>0, LastTypes DEF TypeOK, FrameSet, Frame
    <3> QED
      BY <1>0, <1>1, <1>2, <2>2, <3>1 DEF OwnFile, Whole
  <2> QED
    BY <1>3, <2>1, <2>2
<1> QED
  BY <1>4, <1>5, <1>6

LEMMA NextOwn ==
    ASSUME OwnInv, "clock" \notin Faults, [Next]_vars
    PROVE  OwnInv'
<1>1. IInv'
  BY NextIInv DEF OwnInv
<1>2. CASE \E c \in Callers : Rotate(c)
  <2>1. PICK c \in Callers : Begin(c) \/ Later(c)
    BY <1>2 DEF Rotate, Later
  <2> QED
    BY <1>1, <2>1, OwnBegin, OwnLater DEF OwnInv
<1>3. CASE ~\E c \in Callers : Rotate(c)
  BY <1>1, <1>3, OwnMain DEF Next, OwnInv
<1> QED
  BY <1>2, <1>3

AnswerStep ==
    \A a \in Admins :
        (At(a, "stat") /\ frame'[a].pc = "reply" /\ frame'[a].result = "ok")
            => /\ files[frame[a].name].kind = "complete"
               /\ files[frame[a].name].content >= frame[a].since

LEMMA OwnAnswer ==
    ASSUME OwnInv, "clock" \notin Faults, [Next]_vars
    PROVE  [AnswerStep]_vars
<1> SUFFICES ASSUME NEW a \in Admins, At(a, "stat"),
                    frame'[a].pc = "reply", frame'[a].result = "ok"
             PROVE  /\ files[frame[a].name].kind = "complete"
                    /\ files[frame[a].name].content >= frame[a].since
  BY DEF AnswerStep
<1>0. TypeOK /\ a \in Callers /\ OwnFile(a)
  BY DEF OwnInv, IInv, Callers
<1>1. CASE \E c \in Callers : Rotate(c)
  <2>1. PICK c \in Callers : Begin(c) \/ Later(c)
    BY <1>1 DEF Rotate, Later
  <2>2. c = a
    <3>1. CASE Begin(c)
      BY <1>0, <3>1, BeginFrame DEF At
    <3>2. CASE Later(c)
      BY <1>0, <3>2, LaterFrame DEF At
    <3> QED
      BY <2>1, <3>1, <3>2
  <2>3. Stat(a)
    BY <2>1, <2>2 DEF Begin, Later, StartCopy, EndCopy, CopyFails, List,
                      RemoveOldest, Return, At
  <2>4. files[frame[a].name] # NoFile
    <3>1. ASSUME files[frame[a].name] = NoFile PROVE FALSE
      <4>1. frame'[a] = [frame[a] EXCEPT !.pc = "reply", !.result = "failed"]
        BY <1>0, <2>3, <3>1, LastTypes DEF Stat, Goto, FrameSet
      <4>2. frame'[a].result = "failed"
        BY <1>0, <4>1, LastTypes DEF FrameSet, Frame
      <4> QED
        BY <4>2
    <3> QED
      BY <3>1
  <2> QED
    BY <1>0, <2>4 DEF OwnFile, Whole, At
<1>2. CASE ~\E c \in Callers : Rotate(c)
  <2>1. frame'[a] = frame[a] \/ frame'[a] = Idle
    BY <1>0, <1>2 DEF Next, Arrive, Commit, Tick, Signal, Shutdown, Exit, Crash,
                      Start, vars
  <2> QED
    BY <2>1 DEF At, Idle
<1> QED
  BY <1>1, <1>2

(* While the clock moves on, a 201 of POST /admin/backup names a complete  *)
(* snapshot of everything acknowledged before, for any number of requests, *)
(* any number of files kept, any failed copies and any crashes.            *)
THEOREM AnswersHold ==
    ASSUME "clock" \notin Faults
    PROVE  Spec => AnswerNamesSnapshot
<1>1. Init => OwnInv
  BY InitOwn
<1>2. OwnInv /\ [Next]_vars => OwnInv'
  BY NextOwn
<1>3. OwnInv /\ [Next]_vars => [AnswerStep]_vars
  BY OwnAnswer
<1>4. AnswerNamesSnapshot <=> [][AnswerStep]_vars
  BY DEF AnswerNamesSnapshot, AnswerStep
<1> QED
  BY <1>1, <1>2, <1>3, <1>4, PTL DEF Spec

-----------------------------------------------------------------------------
(***************************************************************************)
(* A rotation that is alone.  What its listing leaves is at most Keep      *)
(* files; nobody else adds or removes one until it has removed the rest.   *)
(***************************************************************************)
AloneOK(c) ==
    Rotating(c) =>
        /\ frame[c].result = "none"
        /\ frame[c].alone =>
            /\ \A e \in Callers \ {c} : ~Rotating(e)
            /\ At(c, "remove") => Cardinality(Present \ frame[c].old) <= Keep

AloneInv == TypeOK /\ \A c \in Callers : AloneOK(c)

AboveIn(S, n) == {m \in S : m > n}

\* Of two names the lower one has more names above it.
LEMMA LowerHasMore ==
    ASSUME NEW S \in SUBSET Names, NEW n \in S, NEW m \in S
    PROVE  /\ Cardinality(AboveIn(S, n)) \in Nat
           /\ n < m => Cardinality(AboveIn(S, n)) # Cardinality(AboveIn(S, m))
<1>1. IsFiniteSet(S) /\ S \subseteq Nat
  BY NamesNat, FS_Subset
<1>2. AboveIn(S, n) \subseteq S /\ IsFiniteSet(AboveIn(S, n))
  BY <1>1, FS_Subset DEF AboveIn
<1>3. Cardinality(AboveIn(S, n)) \in Nat
  BY <1>2, FS_CardinalityType
<1>4. ASSUME n < m
      PROVE  /\ AboveIn(S, m) \subseteq AboveIn(S, n)
             /\ m \in AboveIn(S, n) /\ m \notin AboveIn(S, m)
  <2>1. m \in AboveIn(S, n) /\ m \notin AboveIn(S, m)
    BY <1>1, <1>4 DEF AboveIn
  <2>2. ASSUME NEW k \in AboveIn(S, m) PROVE k \in AboveIn(S, n)
    <3>1. k \in S /\ k > m /\ k \in Nat /\ n \in Nat /\ m \in Nat
      BY <1>1, <2>2 DEF AboveIn
    <3>2. k > n
      BY <1>4, <3>1
    <3> QED
      BY <3>1, <3>2 DEF AboveIn
  <2> QED
    BY <2>1, <2>2
<1> QED
  BY <1>2, <1>3, <1>4, FS_Subset

\* Of any set of names the surplus leaves Keep at the most: two of those that
\* stay have different numbers of names above them, all below Keep.
LEMMA SurplusLeaves ==
    ASSUME NEW S \in SUBSET Names
    PROVE  Cardinality(S \ Surplus(S)) <= Keep
<1> DEFINE T == S \ Surplus(S)
           r == [n \in T |-> Cardinality(AboveIn(S, n))]
           I == 0..(Keep - 1)
<1>1. S \subseteq Nat /\ Keep \in Nat /\ Keep # 0
  BY NamesNat, BoundAssumption
<1>2. \A n \in T : /\ n \in S /\ n \in Nat
                   /\ Cardinality(AboveIn(S, n)) \in Nat
                   /\ Cardinality(AboveIn(S, n)) < Keep
  BY <1>1, LowerHasMore DEF Surplus, AboveIn
<1> HIDE DEF T
<1>3. r \in [T -> I]
  <2>1. \A n \in T : Cardinality(AboveIn(S, n)) \in I
    BY <1>1, <1>2
  <2> QED
    BY <2>1
<1>4. \A n, m \in T : r[n] = r[m] => n = m
  <2> SUFFICES ASSUME NEW n \in T, NEW m \in T, n # m
               PROVE  r[n] # r[m]
    OBVIOUS
  <2>1. n < m \/ m < n
    BY <1>2
  <2> QED
    BY <1>2, <2>1, LowerHasMore
<1>5. IsFiniteSet(I) /\ Cardinality(I) = Keep
  BY <1>1, FS_Interval
<1> HIDE DEF r, I
<1>6. r \in Injection(T, I)
  BY <1>3, <1>4 DEF Injection, IsInjective
<1>7. Cardinality(T) <= Cardinality(I)
  BY <1>5, <1>6, FS_Injection
<1> QED
  BY <1>5, <1>7 DEF T

LEMMA ReturnedResult ==
    ASSUME NEW f \in Frame, NEW c, NEW ok \in BOOLEAN, NEW path
    PROVE  /\ Returned(f, c, ok, path).pc \in {"stat", "reply"}
           /\ Returned(f, c, ok, path).result = IF ok THEN "ok" ELSE "failed"
BY DEF Returned, Frame

(* How a step of a rotation leaves it: done, or going on.                  *)
Finished(c) ==
    /\ frame'[c].pc \in {"stat", "reply"}
    /\ (frame[c].alone /\ frame'[c].result = "ok") => Cardinality(Present') <= Keep

GoesOn(c) ==
    /\ frame'[c].pc \in {"copying", "list", "remove"}
    /\ frame'[c].result = frame[c].result /\ frame'[c].alone = frame[c].alone
    /\ (frame[c].alone /\ frame'[c].pc = "remove") =>
            Cardinality(Present' \ frame'[c].old) <= Keep

LEMMA RotationMoves ==
    ASSUME TypeOK, NEW c \in Callers, AloneOK(c), Rotating(c), Later(c)
    PROVE  Finished(c) \/ GoesOn(c)
<1> DEFINE f == frame[c]
<1>0. f \in Frame /\ frame \in FrameSet
  BY LastTypes DEF FrameSet
<1>1. ASSUME NEW g, Goto(c, g) PROVE frame'[c] = g
  BY <1>0, <1>1 DEF Goto, FrameSet
<1>2. ASSUME NEW path, Goto(c, Returned(f, c, FALSE, path))
      PROVE  Finished(c)
  BY <1>0, <1>1, <1>2, ReturnedResult DEF Finished
<1>3. ASSUME Goto(c, Returned(f, c, TRUE, TRUE)), f.alone => Cardinality(Present') <= Keep
      PROVE  Finished(c)
  BY <1>0, <1>1, <1>3, ReturnedResult DEF Finished
<1>4. CASE StartCopy(c)
  <2>1. CASE Goto(c, [f EXCEPT !.pc = "copying"])
    <3>1. frame'[c] = [f EXCEPT !.pc = "copying"]
      BY <1>1, <2>1
    <3> QED
      BY <1>0, <3>1 DEF GoesOn, Frame
  <2> QED
    BY <1>2, <1>4, <2>1 DEF StartCopy
<1>5. CASE EndCopy(c)
  <2>1. frame'[c] = [f EXCEPT !.pc = "list"]
    BY <1>1, <1>5 DEF EndCopy
  <2> QED
    BY <1>0, <2>1 DEF GoesOn, Frame
<1>6. CASE CopyFails(c)
  BY <1>2, <1>6 DEF CopyFails
<1>7. CASE List(c)
  <2> DEFINE old == Surplus(Present)
  <2>1. Present' = Present /\ Cardinality(Present \ old) <= Keep
    BY <1>7, SurplusLeaves DEF List, Present
  <2>2. CASE old = {}
    <3>1. Goto(c, Returned(f, c, TRUE, TRUE))
      BY <1>7, <2>2 DEF List
    <3>2. Present \ old = Present
      BY <2>2
    <3> QED
      BY <1>3, <2>1, <3>1, <3>2
  <2>3. CASE old # {}
    <3>1. frame'[c] = [f EXCEPT !.pc = "remove", !.old = old]
      BY <1>1, <1>7, <2>3 DEF List
    <3> HIDE DEF old
    <3>2. /\ frame'[c].pc = "remove" /\ frame'[c].old = old
          /\ frame'[c].result = f.result /\ frame'[c].alone = f.alone
      BY <1>0, <3>1 DEF Frame
    <3> QED
      BY <2>1, <3>2 DEF GoesOn
  <2> QED
    BY <2>2, <2>3
<1>8. CASE RemoveOldest(c)
  <2>1. f.alone => Cardinality(Present \ f.old) <= Keep
    BY <1>8 DEF AloneOK, RemoveOldest
  <2>2. PICK n \in f.old :
          \/ Goto(c, Returned(f, c, FALSE, TRUE))
          \/ /\ files' = [files EXCEPT ![n] = NoFile]
             /\ Goto(c, IF f.old = {n} THEN Returned(f, c, TRUE, TRUE)
                                       ELSE [f EXCEPT !.old = @ \ {n}])
    BY <1>8 DEF RemoveOldest
  <2>3. CASE files' = [files EXCEPT ![n] = NoFile]
    <3>1. Present' = Present \ {n}
      BY <1>0, <2>3, LastTypes DEF Present, FilesSet
    <3>2. CASE f.old = {n}
      BY <1>2, <1>3, <2>1, <2>2, <3>1, <3>2
    <3>3. CASE f.old # {n} /\ Goto(c, [f EXCEPT !.old = @ \ {n}])
      <4>1. frame'[c] = [f EXCEPT !.old = @ \ {n}]
        BY <1>1, <3>3
      <4>2. /\ frame'[c].pc = "remove" /\ frame'[c].old = f.old \ {n}
            /\ frame'[c].result = f.result /\ frame'[c].alone = f.alone
        BY <1>0, <1>8, <4>1 DEF Frame, RemoveOldest, At
      <4>3. Present' \ frame'[c].old = Present \ f.old
        BY <3>1, <4>2
      <4> QED
        BY <2>1, <4>2, <4>3 DEF GoesOn
    <3> QED
      BY <1>2, <2>2, <3>2, <3>3
  <2> QED
    BY <1>2, <2>2, <2>3
<1>9. ~Stat(c) /\ ~Return(c)
  BY DEF Rotating, Stat, Return, At
<1> QED
  BY <1>4, <1>5, <1>6, <1>7, <1>8, <1>9 DEF Later

LEMMA AloneLater ==
    ASSUME AloneInv, NEW c \in Callers, Later(c)
    PROVE  \A d \in Callers : AloneOK(d)'
<1>0. TypeOK /\ \A d \in Callers : AloneOK(d)
  BY DEF AloneInv
<1>1. /\ \A d \in Callers \ {c} : frame'[d] = frame[d]
      /\ NextLocals(c, frame'[c])
  BY <1>0, LaterFrame
<1>2. Rotating(c)' => Rotating(c)
  <2>1. CASE Stat(c) \/ Return(c)
    <3>1. frame \in FrameSet /\ Idle.pc = "idle"
      BY <1>0, LastTypes DEF Idle
    <3>2. Stat(c) => frame'[c].pc = "reply"
      <4>1. \A r : [frame[c] EXCEPT !.pc = "reply", !.result = r].pc = "reply"
        BY <3>1 DEF FrameSet, Frame
      <4>2. Stat(c) => \E r : frame'[c] = [frame[c] EXCEPT !.pc = "reply",
                                                          !.result = r]
        BY <3>1 DEF Stat, Goto, FrameSet
      <4> QED
        BY <4>1, <4>2
    <3>3. Return(c) => frame'[c].pc = "idle"
      BY <3>1 DEF Return, Goto, FrameSet
    <3> QED
      BY <2>1, <3>2, <3>3 DEF Rotating
  <2>2. CASE ~(Stat(c) \/ Return(c))
    BY <2>2 DEF Later, StartCopy, EndCopy, CopyFails, List, RemoveOldest, At, Rotating
  <2> QED
    BY <2>1, <2>2
<1>3. AloneOK(c)'
  <2> SUFFICES ASSUME Rotating(c)'
               PROVE  /\ frame'[c].result = "none"
                      /\ frame'[c].alone =>
                          /\ \A e \in Callers \ {c} : ~Rotating(e)'
                          /\ frame'[c].pc = "remove" =>
                                Cardinality(Present' \ frame'[c].old) <= Keep
    BY DEF AloneOK, At
  <2>1. Rotating(c) /\ ~Finished(c)
    BY <1>2 DEF Finished, Rotating
  <2>2. GoesOn(c)
    BY <1>0, <2>1, RotationMoves
  <2> QED
    BY <1>0, <1>1, <2>1, <2>2 DEF AloneOK, GoesOn, Rotating
<1>4. ASSUME NEW d \in Callers \ {c} PROVE AloneOK(d)'
  <2>1. frame'[d] = frame[d] /\ AloneOK(d)
    BY <1>0, <1>1
  <2>2. ASSUME Rotating(d), frame[d].alone
        PROVE  /\ \A e \in Callers \ {d} : ~Rotating(e)'
               /\ Present' = Present
    <3>1. \A e \in Callers \ {d} : ~Rotating(e)
      BY <2>1, <2>2 DEF AloneOK
    <3>2. \A e \in Callers \ {d} : ~Rotating(e)'
      BY <1>1, <1>2, <3>1 DEF Rotating
    <3>3. files' = files
      BY <3>1 DEF Later, StartCopy, EndCopy, CopyFails, List, RemoveOldest,
                  Stat, Return, At, Rotating
    <3> QED
      BY <3>2, <3>3 DEF Present
  <2> QED
    BY <2>1, <2>2 DEF AloneOK, Rotating, At
<1> QED
  BY <1>3, <1>4

LEMMA AloneBegin ==
    ASSUME AloneInv, NEW c \in Callers, Begin(c)
    PROVE  \A d \in Callers : AloneOK(d)'
<1>0. TypeOK /\ \A d \in Callers : AloneOK(d)
  BY DEF AloneInv
<1> DEFINE nobody == ~\E e \in Callers : Rotating(e)
<1>1. PICK now :
        frame' = [d \in Callers |->
                IF d = c THEN [Idle EXCEPT !.pc = "copy", !.name = now,
                                           !.since = committed,
                                           !.alone = nobody]
                ELSE [frame[d] EXCEPT !.alone = FALSE]]
  BY DEF Begin
<1> HIDE DEF nobody
<1>2. /\ frame'[c].pc = "copy" /\ frame'[c].result = "none"
      /\ frame'[c].alone = nobody
  BY <1>1 DEF Idle
<1>3. \A d \in Callers \ {c} :
        /\ frame'[d].pc = frame[d].pc /\ frame'[d].result = frame[d].result
        /\ frame'[d].alone = FALSE
  <2> TAKE d \in Callers \ {c}
  <2>1. frame'[d] = [frame[d] EXCEPT !.alone = FALSE] /\ frame[d] \in Frame
    BY <1>0, <1>1, LastTypes DEF FrameSet
  <2> QED
    BY <2>1 DEF Frame
<1>4. AloneOK(c)'
  <2>1. nobody => \A e \in Callers \ {c} : ~Rotating(e)'
    BY <1>3 DEF nobody, Rotating
  <2> QED
    BY <1>2, <2>1 DEF AloneOK, At
<1>5. \A d \in Callers \ {c} : AloneOK(d)'
  BY <1>0, <1>3 DEF AloneOK, Rotating
<1> QED
  BY <1>4, <1>5

(* The steps of main and of the requests leave frames as they are or       *)
(* drop them.                                                              *)
LEMMA AloneMain ==
    ASSUME AloneInv,
           \/ Arrive \/ Commit \/ Tick \/ Signal \/ Shutdown
           \/ Exit \/ Crash \/ Start \/ UNCHANGED vars
    PROVE  \A d \in Callers : AloneOK(d)'
<1>1. \A d \in Callers : AloneOK(d)
  BY DEF AloneInv
<1>2. Present' = Present
  BY DEF Arrive, Commit, Tick, Signal, Shutdown, Exit, Crash, Start, Ends,
         vars, disk, work, Present
<1>3. \A d \in Callers : frame'[d] = frame[d] \/ frame'[d] = Idle
  BY DEF Arrive, Commit, Tick, Signal, Shutdown, Exit, Crash, Start, vars
<1>4. Idle.pc = "idle"
  BY DEF Idle
<1> TAKE d \in Callers
<1>5. Rotating(d)' => frame'[d] = frame[d]
  BY <1>3, <1>4 DEF Rotating
<1>6. \A e \in Callers : Rotating(e)' => Rotating(e)
  BY <1>3, <1>4 DEF Rotating
<1> QED
  BY <1>1, <1>2, <1>5, <1>6 DEF AloneOK, At, Rotating

LEMMA NextAlone ==
    ASSUME AloneInv, [Next]_vars
    PROVE  AloneInv'
<1>1. TypeOK'
  BY NextTypes DEF AloneInv
<1>2. CASE \E c \in Callers : Rotate(c)
  <2>1. PICK c \in Callers : Begin(c) \/ Later(c)
    BY <1>2 DEF Rotate, Later
  <2> QED
    BY <1>1, <2>1, AloneBegin, AloneLater DEF AloneInv
<1>3. CASE ~\E c \in Callers : Rotate(c)
  BY <1>1, <1>3, AloneMain DEF Next, AloneInv
<1> QED
  BY <1>2, <1>3

LEMMA AloneOutcome ==
    ASSUME AloneInv, [Next]_vars, NEW c \in Callers,
           Rotating(c), frame[c].alone, frame'[c].result = "ok"
    PROVE  Cardinality(Present') <= Keep
<1>0. TypeOK /\ AloneOK(c) /\ frame[c].result = "none"
  BY DEF AloneInv, AloneOK
<1>1. CASE \E d \in Callers : Rotate(d)
  <2>1. PICK d \in Callers : Begin(d) \/ Later(d)
    BY <1>1 DEF Rotate, Later
  <2>2. CASE d = c /\ Later(c)
    <3>1. Finished(c)
      BY <1>0, <2>2, RotationMoves DEF GoesOn
    <3> QED
      BY <3>1 DEF Finished
  <2>3. CASE d # c /\ Later(d)
    BY <1>0, <2>3, LaterFrame
  <2>4. CASE Begin(d)
    <3>1. d # c
      BY <2>4 DEF Begin, At, Rotating
    <3>2. frame'[c] = [frame[c] EXCEPT !.alone = FALSE]
      BY <2>4, <3>1 DEF Begin
    <3> QED
      BY <1>0, <3>2, LastTypes DEF FrameSet, Frame
  <2> QED
    BY <2>1, <2>2, <2>3, <2>4
<1>2. CASE ~\E d \in Callers : Rotate(d)
  <2>1. frame'[c] = frame[c] \/ frame'[c] = Idle
    BY <1>2 DEF Next, Arrive, Commit, Tick, Signal, Shutdown, Exit, Crash,
                Start, vars
  <2> QED
    BY <1>0, <2>1 DEF Idle
<1> QED
  BY <1>1, <1>2

(* A rotation that no other one overlapped leaves at most Keep files, for  *)
(* any number of callers and whatever files crashes, failed copies and a   *)
(* clock that is set back have left before (README.md:66).                 *)
THEOREM AloneKeeps == Spec => AloneLeavesKeep
<1>1. Init => AloneInv
  <2> SUFFICES ASSUME Init PROVE AloneInv
    OBVIOUS
  <2>1. \A c \in Callers : frame[c].pc = "idle"
    BY DEF Init, Idle
  <2> QED
    BY <2>1, InitTypes DEF AloneInv, AloneOK, Rotating
<1>2. AloneInv /\ [Next]_vars => AloneInv'
  BY NextAlone
<1>3. AloneInv /\ [Next]_vars =>
        [\A c \in Callers :
            (Rotating(c) /\ frame[c].alone /\ frame'[c].result = "ok")
                => Cardinality(Present') <= Keep]_vars
  BY AloneOutcome
<1> QED
  BY <1>1, <1>2, <1>3, PTL DEF Spec, AloneLeavesKeep

-----------------------------------------------------------------------------
(***************************************************************************)
(* The last complete snapshot.  A file is removed below Keep others, and   *)
(* while the clock moves on those have been begun after it.  So the file   *)
(* of a rotation that has copied is there, and complete when the rotation  *)
(* comes to prune, unless Keep rotations have begun since; and a complete  *)
(* file is the last one only if it is the file of the rotation itself.     *)
(***************************************************************************)
Held(c) ==
    frame[c].pc \in {"copying", "list", "remove"} =>
        frame[c].name \in Present \/ clock >= frame[c].name + Keep

HeldInv == OwnInv /\ \A c \in Callers : Held(c)

LEMMA HeldTypes ==
    ASSUME HeldInv
    PROVE  /\ TypeOK /\ IInv /\ OwnInv /\ ClockOK
           /\ frame \in FrameSet /\ files \in FilesSet
           /\ clock \in Nat /\ Keep \in Nat
           /\ \A c \in Callers : frame[c].name \in Nat
<1>1. TypeOK /\ IInv /\ OwnInv /\ ClockOK
  BY DEF HeldInv, OwnInv, IInv
<1> QED
  BY <1>1, LastTypes, BoundAssumption

\* The files above another one are not newer than the clock.
LEMMA AboveClock ==
    ASSUME HeldInv, NEW n \in Present, Cardinality(Above(n)) >= Keep
    PROVE  clock >= n + Keep
<1>1. n \in Nat /\ n <= clock /\ clock \in Nat /\ Keep \in Nat \ {0}
  BY HeldTypes, NamesNat, BoundAssumption DEF ClockOK, Present
<1>2. Above(n) \subseteq (n + 1)..clock
  <2> SUFFICES ASSUME NEW m \in Above(n) PROVE m \in (n + 1)..clock
    OBVIOUS
  <2>1. m \in Present /\ m > n
    BY DEF Above
  <2>2. m \in Nat /\ m <= clock
    BY <2>1, HeldTypes, NamesNat DEF ClockOK, Present
  <2> QED
    BY <1>1, <2>1, <2>2
<1>3. /\ IsFiniteSet((n + 1)..clock)
      /\ Cardinality((n + 1)..clock) =
            IF n + 1 > clock THEN 0 ELSE clock - (n + 1) + 1
  BY <1>1, FS_Interval
<1>4. Cardinality(Above(n)) <= Cardinality((n + 1)..clock)
  BY <1>2, <1>3, FS_Subset
<1> QED
  BY <1>1, <1>3, <1>4, AboveFinite

LEMMA HeldLater ==
    ASSUME HeldInv, NEW c \in Callers, Later(c), NEW d \in Callers
    PROVE  Held(d)'
<1>0. /\ clock' = clock /\ NextLocals(c, frame'[c])
      /\ \A e \in Callers \ {c} : frame'[e] = frame[e]
  BY HeldTypes, LaterFrame
<1> SUFFICES ASSUME frame'[d].pc \in {"copying", "list", "remove"}
             PROVE  frame'[d].name \in Present' \/ clock >= frame'[d].name + Keep
  BY <1>0 DEF Held
<1>1. frame'[d].name = frame[d].name
  BY <1>0 DEF NextLocals
<1>2. CASE frame[d].pc \in {"copying", "list", "remove"}
  <2>1. CASE frame[d].name \in Present
    <3>1. CASE Cardinality(Above(frame[d].name)) >= Keep
      BY <1>1, <2>1, <3>1, AboveClock
    <3>2. CASE ~(Cardinality(Above(frame[d].name)) >= Keep)
      <4>1. Stays(frame[d].name)
        BY <2>1, <3>2, AboveFinite, HeldTypes, LaterFiles
      <4> QED
        BY <1>1, <2>1, <4>1 DEF Present, Stays
    <3> QED
      BY <3>1, <3>2
  <2> QED
    BY <1>1, <1>2, <2>1 DEF HeldInv, Held
<1>3. CASE frame[d].pc \notin {"copying", "list", "remove"}
  <2>1. d = c
    BY <1>0, <1>3
  <2>2. /\ At(c, "copy")
        /\ files' = [files EXCEPT ![frame[c].name] =
                        [kind |-> "partial", content |-> committed]]
    BY <1>3, <2>1, HeldTypes, LaterPc DEF At, EndCopy
  <2>3. frame[c].name \in Names
    BY <2>2 DEF HeldInv, OwnInv, OwnFile, At
  <2>4. files'[frame[c].name] # NoFile
    BY <2>2, <2>3, HeldTypes DEF FilesSet, NoFile
  <2> QED
    BY <1>1, <2>1, <2>3, <2>4 DEF Present
<1> QED
  BY <1>2, <1>3

LEMMA HeldBegin ==
    ASSUME HeldInv, "clock" \notin Faults, NEW c \in Callers, Begin(c),
           NEW d \in Callers
    PROVE  Held(d)'
<1>1. /\ clock' = clock + 1 /\ frame'[c].pc = "copy" /\ Present' = Present
      /\ \A e \in Callers \ {c} :
            frame'[e].pc = frame[e].pc /\ frame'[e].name = frame[e].name
  BY HeldTypes, BeginFrame DEF disk, Present
<1>2. CASE d = c
  BY <1>1, <1>2 DEF Held
<1>3. CASE d # c
  BY <1>1, <1>3, HeldTypes DEF HeldInv, Held
<1> QED
  BY <1>2, <1>3

LEMMA HeldMain ==
    ASSUME HeldInv,
           \/ Arrive \/ Commit \/ Tick \/ Signal \/ Shutdown
           \/ Exit \/ Crash \/ Start \/ UNCHANGED vars,
           NEW d \in Callers
    PROVE  Held(d)' /\ Complete' = Complete
<1>1. files' = files /\ clock' = clock
  BY DEF Arrive, Commit, Tick, Signal, Shutdown, Exit, Crash, Start, Ends,
         vars, disk, work
<1>2. Present' = Present /\ Complete' = Complete
  BY <1>1 DEF Present, Complete
<1>3. CASE frame' = frame
  BY <1>1, <1>2, <1>3 DEF HeldInv, Held
<1>4. CASE frame' # frame
  <2>1. frame'[d].pc \in {"idle", "reply"}
    BY <1>4 DEF Arrive, Commit, Tick, Signal, Shutdown, Exit, Crash, Start,
                vars, At, Idle
  <2> QED
    BY <1>2, <2>1 DEF Held
<1> QED
  BY <1>3, <1>4

LEMMA NextHeld ==
    ASSUME HeldInv, "clock" \notin Faults, [Next]_vars
    PROVE  HeldInv'
<1>0. OwnInv'
  BY NextOwn DEF HeldInv
<1>1. CASE \E c \in Callers : Rotate(c)
  <2>1. PICK c \in Callers : Begin(c) \/ Later(c)
    BY <1>1 DEF Rotate, Later
  <2> QED
    BY <1>0, <2>1, HeldBegin, HeldLater DEF HeldInv
<1>2. CASE ~\E c \in Callers : Rotate(c)
  BY <1>0, <1>2, HeldMain DEF Next, HeldInv
<1> QED
  BY <1>1, <1>2

\* Only RemoveOldest takes a complete snapshot away, and its caller has gone on.
LEMMA SnapshotRemoved ==
    ASSUME HeldInv, NEW c \in Callers, Later(c),
           NEW k \in Complete, k \notin Complete'
    PROVE  At(c, "remove") /\ frame'[c] # frame[c]
<1> DEFINE f == frame[c]
<1>0. f \in Frame /\ frame \in FrameSet /\ files \in FilesSet
  BY HeldTypes DEF FrameSet
<1>1. k \in Names /\ files[k].kind = "complete" /\ files[k] # NoFile
  BY DEF Complete, NoFile
<1>2. files'[k] # files[k]
  BY <1>1 DEF Complete
<1>3. ~StartCopy(c)
  BY <1>0, <1>1, <1>2 DEF StartCopy, FilesSet
<1>4. ~EndCopy(c)
  <2> SUFFICES ASSUME EndCopy(c) PROVE FALSE
    OBVIOUS
  <2>1. k = f.name /\ files' = [files EXCEPT ![f.name].kind = "complete"]
    BY <1>0, <1>1, <1>2 DEF EndCopy, FilesSet
  <2>2. files'[k] = [files[k] EXCEPT !.kind = "complete"]
    BY <1>0, <1>1, <2>1 DEF FilesSet
  <2>3. files'[k].kind = "complete"
    BY <1>0, <1>1, <2>2 DEF FilesSet, File
  <2> QED
    BY <1>1, <2>3 DEF Complete
<1>5. RemoveOldest(c)
  BY <1>2, <1>3, <1>4 DEF Later, CopyFails, List, Stat, Return
<1>6. PICK n \in f.old :
          \/ files' = files
          \/ Goto(c, IF f.old = {n} THEN Returned(f, c, TRUE, TRUE)
                                    ELSE [f EXCEPT !.old = @ \ {n}])
  BY <1>5 DEF RemoveOldest
<1>7. frame'[c] = (IF f.old = {n} THEN Returned(f, c, TRUE, TRUE)
                                  ELSE [f EXCEPT !.old = @ \ {n}])
  BY <1>0, <1>2, <1>6 DEF Goto, FrameSet
<1>8. frame'[c].old # f.old
  BY <1>0, <1>6, <1>7 DEF Returned, Frame
<1> QED
  BY <1>5, <1>8 DEF RemoveOldest

LEMMA LastOvertaken ==
    ASSUME HeldInv, [Next]_vars, Complete # {}, Complete' = {}
    PROVE  \E c \in Callers : /\ At(c, "remove") /\ frame'[c] # frame[c]
                              /\ clock >= frame[c].name + Keep
<1>1. PICK k \in Complete : TRUE
  OBVIOUS
<1>2. PICK c \in Callers : Rotate(c)
  BY HeldMain, MainCaller DEF Next
<1>3. ~Begin(c)
  BY DEF Begin, disk, Complete
<1>4. Later(c)
  BY <1>2, <1>3 DEF Rotate, Later
<1>5. At(c, "remove") /\ frame'[c] # frame[c]
  BY <1>1, <1>4, SnapshotRemoved
<1> DEFINE n == frame[c].name
<1>6. CASE n \in Present
  <2>1. Whole(n, frame[c].since) /\ n \in Names
    BY <1>5 DEF HeldInv, OwnInv, OwnFile, At
  <2>2. files[n].kind = "complete"
    BY <1>6, <2>1 DEF Whole, Present
  <2>3. ~Stays(n)
    BY <2>1, <2>2 DEF Stays, Complete
  <2>4. Cardinality(Above(n)) >= Keep
    BY <1>4, <1>6, <2>3, AboveFinite, HeldTypes, LaterFiles
  <2> QED
    BY <1>5, <1>6, <2>4, AboveClock
<1>7. CASE n \notin Present
  BY <1>5, <1>7 DEF HeldInv, Held, At
<1> QED
  BY <1>6, <1>7

(* While the clock moves on, for any number of requests and of files kept, *)
(* with crashes and whichever copies fail: the last complete snapshot of   *)
(* the directory is only lost to a rotation that Keep others have          *)
(* overtaken (BackupRotate prunes after its own copy, maintenance.go).     *)
THEOREM LastSnapshotKept ==
    ASSUME "clock" \notin Faults
    PROVE  Spec => LastSnapshotOvertaken
<1>1. Init => HeldInv
  <2> SUFFICES ASSUME Init PROVE HeldInv
    OBVIOUS
  <2>1. \A c \in Callers : frame[c].pc = "idle"
    BY DEF Init, Idle
  <2> QED
    BY <2>1, InitOwn DEF HeldInv, Held
<1>2. HeldInv /\ [Next]_vars => HeldInv'
  BY NextHeld
<1>3. HeldInv /\ [Next]_vars =>
         [(Complete # {} /\ Complete' = {}) =>
            \E c \in Callers : /\ At(c, "remove") /\ frame'[c] # frame[c]
                               /\ clock >= frame[c].name + Keep]_vars
  BY LastOvertaken
<1> QED
  BY <1>1, <1>2, <1>3, PTL DEF Spec, LastSnapshotOvertaken

=============================================================================
