-------------------------- MODULE RateLimitsProofs ---------------------------
(***************************************************************************)
(* What holds of the rate limiters for all rates, bursts, numbers of       *)
(* clients and of requests in flight.                                      *)
(***************************************************************************)
EXTENDS RateLimits, SequenceTheorems, TLAPS

(***************************************************************************)
(* Arithmetic.                                                             *)
(***************************************************************************)
LEMMA NatMultiply ==
    ASSUME NEW a \in Nat, NEW r \in Nat
    PROVE  a * r \in Nat
OBVIOUS

LEMMA OneMore ==
    ASSUME NEW a \in Int, NEW r \in Int
    PROVE  (a + 1) * r = a * r + r
OBVIOUS

LEMMA MultiplyMonotone ==
    ASSUME NEW a \in Nat, NEW b \in Nat, NEW r \in Nat, a <= b
    PROVE  a * r <= b * r
<1>1. PICK d \in Nat : b = a + d
  <2>1. b - a \in Nat /\ b = a + (b - a)
    OBVIOUS
  <2> QED
    BY <2>1
<1>2. b * r = a * r + d * r
  BY <1>1
<1>3. a * r \in Nat /\ d * r \in Nat
  BY NatMultiply
<1> HIDE <1>1
<1> QED
  BY <1>2, <1>3

LEMMA LeastOf ==
    ASSUME NEW a \in Int, NEW b \in Int
    PROVE  /\ Least(a, b) \in Int /\ Least(a, b) <= a /\ Least(a, b) <= b
           /\ Least(a, b) = a \/ Least(a, b) = b
BY DEF Least

LEMMA Constant ==
    ASSUME NEW l \in Limiters
    PROVE  /\ Rate[l] \in Nat /\ Full(l) \in Nat /\ Cost \in Nat \ {0}
           /\ Cost <= Full(l)
<1>1. Rate[l] \in Nat /\ Cost \in Nat \ {0} /\ Burst[l] \in Nat \ {0}
  BY RateAssumption
<1>2. Full(l) \in Nat
  BY <1>1, NatMultiply DEF Full
<1>3. 1 * Cost <= Burst[l] * Cost
  BY <1>1, MultiplyMonotone
<1> QED
  BY <1>1, <1>2, <1>3 DEF Full

-----------------------------------------------------------------------------
(***************************************************************************)
(* Types.                                                                  *)
(***************************************************************************)
BucketsSet == [Limiters -> [Clients -> Bucket \cup {None}]]
AdmittedSet == [Limiters -> [Clients -> Seq(Nat)]]
FrameSet == [Procs -> Frame]

FramesOK ==
    /\ frame \in FrameSet
    /\ \A p \in Procs : At(p, "idle") \/ frame[p].client \in Clients

BucketsOK ==
    /\ buckets \in BucketsSet
    /\ \A l \in Limiters, k \in Clients :
        buckets[l][k] # None => /\ buckets[l][k].tokens <= Full(l)
                                /\ buckets[l][k].lastCheck <= now

LEMMA TypeParts ==
    TypeOK <=> now \in Nat /\ BucketsOK /\ admitted \in AdmittedSet /\ FramesOK
BY DEF TypeOK, BucketsOK, FramesOK, BucketsSet, AdmittedSet, FrameSet

LEMMA BucketFields ==
    ASSUME TypeOK, NEW l \in Limiters, NEW k \in Clients, buckets[l][k] # None
    PROVE  /\ buckets[l][k].tokens \in Nat
           /\ buckets[l][k].lastCheck \in Nat
           /\ buckets[l][k].tokens <= Full(l)
           /\ buckets[l][k].lastCheck <= now
BY DEF TypeOK, Bucket

LEMMA TokensType ==
    ASSUME TypeOK, NEW l \in Limiters, NEW k \in Clients
    PROVE  Tokens(l, k) \in Nat /\ Tokens(l, k) <= Full(l)
<1> DEFINE b == buckets[l][k]
<1>1. Full(l) \in Nat /\ Rate[l] \in Nat
  BY Constant
<1>2. CASE b = None
  BY <1>1, <1>2 DEF Tokens
<1>3. CASE b # None
  <2>1. b.tokens \in Nat /\ now - b.lastCheck \in Nat
    BY <1>3, BucketFields DEF TypeOK
  <2> DEFINE e == (now - b.lastCheck) * Rate[l]
  <2>2. e \in Nat
    BY <1>1, <2>1, NatMultiply
  <2>3. Tokens(l, k) = Least(Full(l), b.tokens + e)
    BY <1>3 DEF Tokens
  <2> HIDE DEF e, b
  <2> QED
    BY <1>1, <2>1, <2>2, <2>3 DEF Least
<1> QED
  BY <1>2, <1>3

LEMMA GotoType ==
    ASSUME FramesOK, NEW p \in Procs, NEW f \in Frame, Goto(p, f),
           f.pc = "idle" \/ f.client \in Clients
    PROVE  FramesOK'
BY DEF FramesOK, FrameSet, Goto, At

LEMMA IdleType == Idle \in Frame /\ Idle.pc = "idle" /\ Idle.by = None
BY DEF Idle, Frame, Labels

LEMMA InitTypes == Init => TypeOK
<1> SUFFICES ASSUME Init PROVE TypeOK
  OBVIOUS
<1>1. now \in Nat
  BY DEF Init
<1>2. BucketsOK
  BY DEF Init, BucketsOK, BucketsSet
<1>3. admitted \in AdmittedSet
  BY DEF Init, AdmittedSet
<1>4. FramesOK
  BY IdleType DEF Init, FramesOK, FrameSet, At
<1> QED
  BY <1>1, <1>2, <1>3, <1>4, TypeParts

(* allow replaces one bucket, and logs what it admits.                     *)
LEMMA AllowTypes ==
    ASSUME TypeOK, now' = now, NEW l \in Limiters, NEW k \in Clients,
           NEW ok \in BOOLEAN, Allow(l, k, ok)
    PROVE  BucketsOK' /\ admitted' \in AdmittedSet
<1> DEFINE t == IF ok THEN Tokens(l, k) - Cost ELSE Tokens(l, k)
           b == [tokens |-> t, lastCheck |-> now]
<1>0. TypeOK /\ now \in Nat /\ buckets \in BucketsSet /\ admitted \in AdmittedSet
  BY DEF TypeOK, BucketsSet, AdmittedSet
<1>1. t \in Nat /\ t <= Full(l)
  BY TokensType, Constant DEF Allow
<1>2. b \in Bucket
  BY <1>0, <1>1 DEF Bucket
<1>3. buckets' = [buckets EXCEPT ![l][k] = b]
  BY DEF Allow
<1>4. b.tokens <= Full(l) /\ b.lastCheck <= now
  BY <1>0, <1>1
<1>5. BucketsOK'
  <2> HIDE DEF b
  <2>1. buckets' \in BucketsSet
    BY <1>0, <1>2, <1>3 DEF BucketsSet
  <2>2. ASSUME NEW m \in Limiters, NEW j \in Clients, buckets'[m][j] # None
        PROVE  buckets'[m][j].tokens <= Full(m) /\ buckets'[m][j].lastCheck <= now'
    <3>1. CASE m = l /\ j = k
      BY <1>0, <1>3, <1>4, <3>1 DEF BucketsSet
    <3>2. CASE ~(m = l /\ j = k)
      <4>1. buckets'[m][j] = buckets[m][j]
        BY <1>0, <1>3, <3>2 DEF BucketsSet
      <4> QED
        BY <2>2, <4>1, BucketFields
    <3> QED
      BY <3>1, <3>2
  <2> QED
    BY <2>1, <2>2 DEF BucketsOK, Full
<1>6. admitted' \in AdmittedSet
  <2> DEFINE s == Append(admitted[l][k], now)
  <2>1. s \in Seq(Nat)
    BY <1>0 DEF AdmittedSet
  <2>2. admitted' = [admitted EXCEPT ![l][k] = s] \/ admitted' = admitted
    BY DEF Allow
  <2> HIDE DEF s
  <2>3. CASE admitted' = [admitted EXCEPT ![l][k] = s]
    BY <1>0, <2>1, <2>3 DEF AdmittedSet
  <2> QED
    BY <1>0, <2>2, <2>3
<1> QED
  BY <1>5, <1>6

LEMMA AllowGuard ==
    ASSUME NEW l \in Limiters, NEW k \in Clients, NEW ok \in BOOLEAN,
           Allow(l, k, ok)
    PROVE  (ok => Tokens(l, k) >= Cost) /\ (~ok => ~(Tokens(l, k) >= Cost))
BY Zenon DEF Allow

LEMMA PassFrame ==
    ASSUME TypeOK, NEW p \in Procs, NEW l \in Limiters, Pass(p, l)
    PROVE  /\ frame[p] \in Frame /\ frame[p].client \in Clients
           /\ now' = now
           /\ FramesOK'
           /\ \E ok \in BOOLEAN : Allow(l, frame[p].client, ok)
<1> DEFINE f == frame[p]
<1>1. f \in Frame /\ f.client \in Clients /\ FramesOK
  BY TypeParts DEF Pass, At, FramesOK, FrameSet, Limiters
<1> HIDE DEF f
<1>2. PICK g \in {[f EXCEPT !.pc = "refused", !.by = l],
                  [f EXCEPT !.pc = "login"], [f EXCEPT !.pc = "serve"]} :
          Goto(p, g)
  BY DEF Pass, f
<1>3. g \in Frame /\ g.client \in Clients
  BY <1>1 DEF Frame, Labels
<1>4. FramesOK'
  BY <1>1, <1>2, <1>3, GotoType
<1> QED
  BY <1>1, <1>4 DEF Pass, f

LEMMA NextTypes == TypeOK /\ [Next]_vars => TypeOK'
<1> SUFFICES ASSUME TypeOK, [Next]_vars PROVE TypeOK'
  OBVIOUS
<1>0. now \in Nat /\ BucketsOK /\ admitted \in AdmittedSet /\ FramesOK
  BY TypeParts
<1>1. CASE Tick
  <2>1. now' \in Nat /\ now <= now' /\ UNCHANGED <<buckets, admitted, frame>>
    BY <1>0, <1>1 DEF Tick
  <2>2. BucketsOK'
    <3>1. ASSUME NEW l \in Limiters, NEW k \in Clients, buckets[l][k] # None
          PROVE  buckets[l][k].tokens <= Full(l) /\ buckets[l][k].lastCheck <= now'
      BY <1>0, <2>1, <3>1, BucketFields
    <3> QED
      BY <1>0, <2>1, <3>1 DEF BucketsOK, Full
  <2>3. FramesOK'
    BY <1>0, <2>1 DEF FramesOK, At
  <2>4. (now \in Nat /\ BucketsOK /\ admitted \in AdmittedSet /\ FramesOK)'
    BY <1>0, <2>1, <2>2, <2>3
  <2> QED
    BY <2>4, TypeParts, PTL
<1>2. CASE PruneStale
  <2>1. /\ now' = now /\ admitted' = admitted /\ frame' = frame
        /\ buckets' = [buckets EXCEPT !["general"] =
               [k \in Clients |-> IF Stale(@[k]) THEN None ELSE @[k]]]
    BY <1>2 DEF PruneStale
  <2>2. \A l \in Limiters, k \in Clients :
            buckets'[l][k] = buckets[l][k] \/ buckets'[l][k] = None
    BY <1>0, <2>1 DEF BucketsOK, BucketsSet
  <2>3. buckets' \in BucketsSet
    BY <1>0, <2>1 DEF BucketsOK, BucketsSet
  <2>4. BucketsOK'
    BY <1>0, <2>1, <2>2, <2>3 DEF BucketsOK, Full
  <2>5. FramesOK'
    BY <1>0, <2>1 DEF FramesOK, At
  <2>6. (now \in Nat /\ BucketsOK /\ admitted \in AdmittedSet /\ FramesOK)'
    BY <1>0, <2>1, <2>4, <2>5
  <2> QED
    BY <2>6, TypeParts, PTL
<1>3. ASSUME NEW p \in Procs, Arrive(p) PROVE TypeOK'
  <2>1. PICK k \in Clients, path \in Paths :
            Goto(p, [Idle EXCEPT !.client = k, !.path = path,
                             !.pc = IF path = "metrics" THEN "serve"
                                                        ELSE "general"])
    BY <1>3 DEF Arrive
  <2> DEFINE g == [Idle EXCEPT !.client = k, !.path = path,
                             !.pc = IF path = "metrics" THEN "serve"
                                                        ELSE "general"]
  <2>2. g \in Frame /\ g.client \in Clients
    BY IdleType, NoneAssumption DEF Frame, Labels, Idle
  <2> HIDE DEF g
  <2>3. FramesOK'
    BY <1>0, <2>1, <2>2, GotoType DEF g
  <2>4. now' = now /\ buckets' = buckets /\ admitted' = admitted
    BY <1>3 DEF Arrive
  <2>5. (now \in Nat /\ BucketsOK /\ admitted \in AdmittedSet /\ FramesOK)'
    BY <1>0, <2>3, <2>4 DEF BucketsOK, Full
  <2> QED
    BY <2>5, TypeParts, PTL
<1>4. ASSUME NEW p \in Procs, Respond(p) PROVE TypeOK'
  <2>1. Goto(p, Idle) /\ now' = now /\ buckets' = buckets /\ admitted' = admitted
    BY <1>4 DEF Respond
  <2>2. FramesOK'
    BY <1>0, <2>1, IdleType, GotoType
  <2>3. (now \in Nat /\ BucketsOK /\ admitted \in AdmittedSet /\ FramesOK)'
    BY <1>0, <2>1, <2>2 DEF BucketsOK, Full
  <2> QED
    BY <2>3, TypeParts, PTL
<1>5. ASSUME NEW p \in Procs, NEW l \in Limiters, Pass(p, l) PROVE TypeOK'
  <2>1. now' = now /\ FramesOK' /\ BucketsOK' /\ admitted' \in AdmittedSet
    BY <1>5, PassFrame, AllowTypes
  <2>2. (now \in Nat /\ BucketsOK /\ admitted \in AdmittedSet /\ FramesOK)'
    BY <1>0, <2>1
  <2> QED
    BY <2>2, TypeParts, PTL
<1>6. CASE UNCHANGED vars
  BY <1>6 DEF vars, TypeOK, At, Full
<1> QED
  BY <1>1, <1>2, <1>3, <1>4, <1>5, <1>6 DEF Next

(* Every variable keeps its type, and no bucket overflows.                 *)
THEOREM LimiterTypes == Spec => []TypeOK
BY InitTypes, NextTypes, PTL DEF Spec

-----------------------------------------------------------------------------
(***************************************************************************)
(* Levels.  What a bucket would hold if it were looked at now: time fills  *)
(* it, admissions take from it, and forgetting it changes nothing.         *)
(***************************************************************************)
LEMMA LevelTick ==
    ASSUME TypeOK, now' = now + 1, buckets' = buckets,
           NEW l \in Limiters, NEW k \in Clients
    PROVE  Tokens(l, k)' = Least(Full(l), Tokens(l, k) + Rate[l])
<1> DEFINE b == buckets[l][k]
           e == now - b.lastCheck
           r == Rate[l]
           F == Full(l)
<1>1. F \in Nat /\ r \in Nat
  BY Constant
<1>2. CASE b = None
  <2>1. Tokens(l, k) = F /\ Tokens(l, k)' = F
    BY <1>2 DEF Tokens, Full
  <2> QED
    BY <1>1, <2>1 DEF Least
<1>3. CASE b # None
  <2>1. b.tokens \in Nat /\ e \in Nat
    BY <1>3, BucketFields DEF TypeOK
  <2>2. Tokens(l, k) = Least(F, b.tokens + e * r)
    BY <1>3 DEF Tokens
  <2>3. now' - b.lastCheck = e + 1
    BY <1>3, BucketFields DEF TypeOK
  <2>4. Tokens(l, k)' = Least(F, b.tokens + (now' - b.lastCheck) * r)
    BY <1>3 DEF Tokens, Full, Least
  <2>5. Tokens(l, k)' = Least(F, b.tokens + (e + 1) * r)
    BY <2>3, <2>4
  <2> HIDE DEF e, b, r, F
  <2>6. (e + 1) * r = e * r + r /\ e * r \in Nat
    BY <1>1, <2>1, OneMore, NatMultiply
  <2> QED
    BY <1>1, <2>1, <2>2, <2>5, <2>6 DEF Least, F, r
<1> QED
  BY <1>2, <1>3

LEMMA LevelAllow ==
    ASSUME TypeOK, now' = now, NEW l \in Limiters, NEW k \in Clients,
           NEW ok \in BOOLEAN, Allow(l, k, ok)
    PROVE  /\ ok => Tokens(l, k)' = Tokens(l, k) - Cost
           /\ ~ok => Tokens(l, k)' = Tokens(l, k)
           /\ \A m \in Limiters, j \in Clients :
                 ~(m = l /\ j = k) => Tokens(m, j)' = Tokens(m, j)
<1> DEFINE t == IF ok THEN Tokens(l, k) - Cost ELSE Tokens(l, k)
           b == [tokens |-> t, lastCheck |-> now]
<1>0. now \in Nat /\ buckets \in BucketsSet
  BY DEF TypeOK, BucketsSet
<1>1. t \in Nat /\ t <= Full(l)
  BY TokensType, Constant DEF Allow
<1>2. buckets' = [buckets EXCEPT ![l][k] = b]
  BY DEF Allow
<1>3. buckets'[l][k] = b
  BY <1>0, <1>2 DEF BucketsSet
<1>4. b \in Bucket /\ b # None
  <2>1. b \in [tokens : Nat, lastCheck : Nat]
    BY <1>0, <1>1
  <2> QED
    BY <2>1, NoneAssumption DEF Bucket
<1>5. Tokens(l, k)' = Least(Full(l), b.tokens + (now - b.lastCheck) * Rate[l])
  BY <1>3, <1>4 DEF Tokens, Full, Least
<1>6. (now - b.lastCheck) * Rate[l] = 0
  BY <1>0, Constant
<1>7. Tokens(l, k)' = t
  BY <1>1, <1>5, <1>6, Constant DEF Least
<1>8. ASSUME NEW m \in Limiters, NEW j \in Clients, ~(m = l /\ j = k)
      PROVE  Tokens(m, j)' = Tokens(m, j)
  <2>1. buckets'[m][j] = buckets[m][j]
    BY <1>0, <1>2, <1>8 DEF BucketsSet
  <2> QED
    BY <2>1 DEF Tokens, Full, Least
<1> QED
  BY <1>7, <1>8

LEMMA LevelPrune ==
    ASSUME TypeOK, PruneStale, NEW l \in Limiters, NEW k \in Clients
    PROVE  Tokens(l, k)' = Tokens(l, k)
<1> DEFINE b == buckets[l][k]
<1>0. now' = now /\ now \in Nat /\ buckets \in BucketsSet
  BY DEF PruneStale, TypeOK, BucketsSet
<1>1. \/ buckets'[l][k] = b
      \/ l = "general" /\ Stale(b) /\ buckets'[l][k] = None
  BY <1>0 DEF PruneStale, BucketsSet
<1>2. CASE buckets'[l][k] = b
  BY <1>0, <1>2 DEF Tokens, Full, Least
<1>3. CASE l = "general" /\ Stale(b) /\ buckets'[l][k] = None
  <2>1. Tokens(l, k)' = Full(l)
    BY <1>3 DEF Tokens, Full
  <2>2. b # None /\ b.lastCheck + MaxAge < now
    BY <1>3 DEF Stale
  <2>3. b.tokens \in Nat /\ b.lastCheck \in Nat /\ MaxAge \in Nat /\ Rate[l] \in Nat
    BY <2>2, BucketFields, Constant, RateAssumption
  <2> DEFINE e == now - b.lastCheck
             F == Full(l)
  <2>4. e \in Nat /\ MaxAge <= e
    BY <1>0, <2>2, <2>3
  <2>5. Tokens(l, k) = Least(F, b.tokens + e * Rate[l])
    BY <2>2 DEF Tokens
  <2>6. F \in Nat /\ MaxAge * Rate[l] >= F
    BY <1>3, Constant, AgeAssumption
  <2> HIDE DEF e, F, b
  <2>7. MaxAge * Rate[l] <= e * Rate[l] /\ e * Rate[l] \in Nat
        /\ MaxAge * Rate[l] \in Nat
    BY <2>3, <2>4, MultiplyMonotone, NatMultiply
  <2>8. F <= b.tokens + e * Rate[l]
    BY <2>3, <2>6, <2>7
  <2>9. Tokens(l, k) = F
    BY <2>3, <2>5, <2>6, <2>7, <2>8 DEF Least
  <2> QED
    BY <2>1, <2>9 DEF F
<1> QED
  BY <1>1, <1>2, <1>3

LEMMA LevelSame ==
    ASSUME now' = now, buckets' = buckets, NEW l \in Limiters, NEW k \in Clients
    PROVE  Tokens(l, k)' = Tokens(l, k)
BY DEF Tokens, Full, Least

(***************************************************************************)
(* Refinement, one limiter at a time.                                      *)
(***************************************************************************)
SameLevels(l) == \A k \in Clients : Tokens(l, k)' = Tokens(l, k)

(* What a step looks like to limiter l.                                    *)
Refills(l) ==
    /\ now' = now + 1 /\ RefusedBy(l)' = RefusedBy(l)
    /\ \A k \in Clients : Tokens(l, k)' = Least(Full(l), Tokens(l, k) + Rate[l])
Admits(l) ==
    /\ now' = now /\ RefusedBy(l)' = RefusedBy(l)
    /\ \E k \in Clients :
        /\ Tokens(l, k) >= Cost /\ Tokens(l, k)' = Tokens(l, k) - Cost
        /\ \A j \in Clients \ {k} : Tokens(l, j)' = Tokens(l, j)
Refuses(l) ==
    /\ now' = now /\ SameLevels(l)
    /\ \E p \in Procs, k \in Clients :
        /\ Tokens(l, k) < Cost
        /\ RefusedBy(l)' = RefusedBy(l) \cup {<<p, k>>}
Responds(l) ==
    /\ now' = now /\ SameLevels(l)
    /\ \E r \in RefusedBy(l) : RefusedBy(l)' = RefusedBy(l) \ {r}
Stutters(l) ==
    now' = now /\ SameLevels(l) /\ RefusedBy(l)' = RefusedBy(l)

LimiterStep(l) ==
    Refills(l) \/ Admits(l) \/ Refuses(l) \/ Responds(l) \/ Stutters(l)

LEMMA RefusedSame ==
    ASSUME FramesOK, NEW p \in Procs, NEW f, Goto(p, f), NEW l \in Limiters,
           frame[p].by # l, f.by # l
    PROVE  RefusedBy(l)' = RefusedBy(l)
<1>1. \A q \in Procs : q # p => frame'[q] = frame[q]
  BY DEF Goto, FramesOK, FrameSet
<1>2. frame'[p] = f
  BY DEF Goto, FramesOK, FrameSet
<1>3. {q \in Procs : frame'[q].by = l} = {q \in Procs : frame[q].by = l}
  BY <1>1, <1>2
<1>4. \A q \in Procs : frame[q].by = l => frame'[q].client = frame[q].client
  BY <1>1
<1> QED
  BY <1>3, <1>4 DEF RefusedBy

LEMMA RefusedAdds ==
    ASSUME FramesOK, NEW p \in Procs, NEW f, Goto(p, f), NEW l \in Limiters,
           frame[p].by # l, f.by = l
    PROVE  RefusedBy(l)' = RefusedBy(l) \cup {<<p, f.client>>}
<1>1. \A q \in Procs : q # p => frame'[q] = frame[q]
  BY DEF Goto, FramesOK, FrameSet
<1>2. frame'[p] = f
  BY DEF Goto, FramesOK, FrameSet
<1>3. {q \in Procs : frame'[q].by = l} = {q \in Procs : frame[q].by = l} \cup {p}
  BY <1>1, <1>2
<1>4. \A q \in Procs : frame[q].by = l => frame'[q].client = frame[q].client
  BY <1>1
<1> QED
  BY <1>2, <1>3, <1>4 DEF RefusedBy

LEMMA RefusedDrops ==
    ASSUME FramesOK, NEW p \in Procs, NEW f, Goto(p, f), NEW l \in Limiters,
           frame[p].by = l, f.by # l
    PROVE  /\ <<p, frame[p].client>> \in RefusedBy(l)
           /\ RefusedBy(l)' = RefusedBy(l) \ {<<p, frame[p].client>>}
<1>1. \A q \in Procs : q # p => frame'[q] = frame[q]
  BY DEF Goto, FramesOK, FrameSet
<1>2. frame'[p] = f
  BY DEF Goto, FramesOK, FrameSet
<1>3. {q \in Procs : frame'[q].by = l} = {q \in Procs : frame[q].by = l} \ {p}
  BY <1>1, <1>2
<1>4. \A q \in Procs : q # p => frame'[q].client = frame[q].client
  BY <1>1
<1> QED
  BY <1>3, <1>4 DEF RefusedBy

(* Only a refused request has a limiter that refused it.                   *)
ByOK == \A p \in Procs : frame[p].by # None => At(p, "refused")

LEMMA ByInit == Init => ByOK
BY IdleType DEF Init, ByOK

LEMMA GotoBy ==
    ASSUME FramesOK, ByOK, NEW p \in Procs, NEW f, Goto(p, f),
           f.by # None => f.pc = "refused"
    PROVE  ByOK'
BY DEF FramesOK, FrameSet, ByOK, Goto, At

LEMMA PassChoices ==
    ASSUME TypeOK, ByOK, NEW p \in Procs, NEW l \in Limiters, Pass(p, l)
    PROVE  \E ok \in BOOLEAN, g \in Frame :
             /\ Allow(l, frame[p].client, ok) /\ Goto(p, g)
             /\ g.client = frame[p].client /\ frame[p].by = None
             /\ ok => g.by = None
             /\ ~ok => g.by = l /\ g.pc = "refused"
<1> DEFINE f == frame[p]
<1>1. f \in Frame
  BY PassFrame
<1>2. f.by = None
  BY DEF ByOK, Pass, At, Limiters
<1> HIDE DEF f
<1>3. PICK ok \in BOOLEAN :
        /\ Allow(l, f.client, ok)
        /\ Goto(p, IF ~ok THEN [f EXCEPT !.pc = "refused", !.by = l]
                   ELSE IF l = "general" /\ f.path = "login"
                        THEN [f EXCEPT !.pc = "login"]
                        ELSE [f EXCEPT !.pc = "serve"])
  BY DEF Pass, f
<1>4. /\ [f EXCEPT !.pc = "refused", !.by = l] \in Frame
      /\ [f EXCEPT !.pc = "refused", !.by = l].client = f.client
      /\ [f EXCEPT !.pc = "refused", !.by = l].by = l
      /\ [f EXCEPT !.pc = "refused", !.by = l].pc = "refused"
  BY <1>1 DEF Frame, Labels
<1>5. \A s \in {"login", "serve"} :
        /\ [f EXCEPT !.pc = s] \in Frame
        /\ [f EXCEPT !.pc = s].client = f.client
        /\ [f EXCEPT !.pc = s].by = None
  BY <1>1, <1>2 DEF Frame, Labels
<1>6. CASE ~ok
  BY <1>2, <1>3, <1>4, <1>6 DEF f
<1>7. CASE ok
  <2>1. \E s \in {"login", "serve"} : Goto(p, [f EXCEPT !.pc = s])
    BY <1>3, <1>7
  <2> QED
    BY <1>2, <1>3, <1>5, <1>7, <2>1 DEF f
<1> QED
  BY <1>6, <1>7

LEMMA PassStep ==
    ASSUME TypeOK, ByOK, NEW p \in Procs, NEW l \in Limiters, Pass(p, l),
           NEW m \in Limiters
    PROVE  ByOK' /\ LimiterStep(m)
<1>0. PICK k \in Clients : k = frame[p].client
  BY PassFrame
<1>1. PICK ok \in BOOLEAN, g \in Frame :
             /\ Allow(l, k, ok) /\ Goto(p, g)
             /\ g.client = k /\ frame[p].by = None
             /\ ok => g.by = None
             /\ ~ok => g.by = l /\ g.pc = "refused"
  BY <1>0, PassChoices
<1>2. k \in Clients /\ now' = now /\ FramesOK
  BY PassFrame, TypeParts
<1>3. ByOK'
  BY <1>1, <1>2, GotoBy
<1>4. None \notin Limiters
  BY NoneAssumption
<1>5. /\ ok => Tokens(l, k)' = Tokens(l, k) - Cost
      /\ ~ok => Tokens(l, k)' = Tokens(l, k)
      /\ \A i \in Limiters, j \in Clients :
             ~(i = l /\ j = k) => Tokens(i, j)' = Tokens(i, j)
  BY <1>1, <1>2, LevelAllow
<1>6. (ok => Tokens(l, k) >= Cost) /\ (~ok => ~(Tokens(l, k) >= Cost))
  BY <1>1, <1>2, AllowGuard
<1>7. CASE m # l
  <2>1. RefusedBy(m)' = RefusedBy(m)
    BY <1>1, <1>2, <1>4, <1>7, RefusedSame
  <2> QED
    BY <1>2, <1>3, <1>5, <1>7, <2>1 DEF LimiterStep, Stutters, SameLevels
<1>8. CASE m = l /\ ok
  <2>1. RefusedBy(m)' = RefusedBy(m)
    BY <1>1, <1>2, <1>4, <1>8, RefusedSame
  <2>2. /\ Tokens(m, k) >= Cost /\ Tokens(m, k)' = Tokens(m, k) - Cost
        /\ \A j \in Clients \ {k} : Tokens(m, j)' = Tokens(m, j)
    BY <1>5, <1>6, <1>8
  <2>3. \E j \in Clients :
          /\ Tokens(m, j) >= Cost /\ Tokens(m, j)' = Tokens(m, j) - Cost
          /\ \A i \in Clients \ {j} : Tokens(m, i)' = Tokens(m, i)
    BY <1>2, <2>2, Zenon
  <2>4. Admits(m)
    BY <1>2, <2>1, <2>3 DEF Admits
  <2> QED
    BY <1>3, <2>4 DEF LimiterStep
<1>9. CASE m = l /\ ~ok
  <2>1. RefusedBy(m)' = RefusedBy(m) \cup {<<p, k>>}
    BY <1>1, <1>2, <1>4, <1>9, RefusedAdds
  <2>2. Tokens(l, k) < Cost
    <3>1. ~(Tokens(l, k) >= Cost)
      BY <1>6, <1>9
    <3>2. Tokens(l, k) \in Nat /\ Cost \in Nat
      BY <1>2, TokensType, Constant
    <3> QED
      BY <3>1, <3>2
  <2>3. SameLevels(m)
    <3>1. Tokens(m, k)' = Tokens(m, k)
      BY <1>5, <1>9
    <3>2. \A j \in Clients : j # k => Tokens(m, j)' = Tokens(m, j)
      BY <1>5, <1>9
    <3> QED
      BY <3>1, <3>2 DEF SameLevels
  <2>4. Refuses(m)
    BY <1>2, <1>9, <2>1, <2>2, <2>3 DEF Refuses
  <2> QED
    BY <1>3, <2>4 DEF LimiterStep
<1> QED
  BY <1>7, <1>8, <1>9

LEMMA ArriveStep ==
    ASSUME TypeOK, ByOK, NEW p \in Procs, Arrive(p), NEW m \in Limiters
    PROVE  ByOK' /\ LimiterStep(m)
<1>1. PICK k \in Clients, path \in Paths :
            Goto(p, [Idle EXCEPT !.client = k, !.path = path,
                             !.pc = IF path = "metrics" THEN "serve"
                                                        ELSE "general"])
  BY DEF Arrive
<1> DEFINE g == [Idle EXCEPT !.client = k, !.path = path,
                             !.pc = IF path = "metrics" THEN "serve"
                                                        ELSE "general"]
<1>2. g.by = None
  BY DEF Idle
<1> HIDE DEF g
<1>3. Goto(p, g) /\ now' = now /\ buckets' = buckets /\ FramesOK
  BY <1>1, TypeParts DEF Arrive, g
<1>4. frame[p].by = None
  BY DEF ByOK, Arrive, At
<1>5. RefusedBy(m)' = RefusedBy(m)
  BY <1>2, <1>3, <1>4, NoneAssumption, RefusedSame
<1>6. SameLevels(m)
  BY <1>3, LevelSame DEF SameLevels
<1>7. ByOK'
  BY <1>2, <1>3, GotoBy
<1> QED
  BY <1>3, <1>5, <1>6, <1>7 DEF LimiterStep, Stutters

LEMMA RespondStep ==
    ASSUME TypeOK, ByOK, NEW p \in Procs, Respond(p), NEW m \in Limiters
    PROVE  ByOK' /\ LimiterStep(m)
<1>1. Goto(p, Idle) /\ now' = now /\ buckets' = buckets /\ FramesOK
  BY TypeParts DEF Respond
<1>2. ByOK'
  BY <1>1, IdleType, GotoBy
<1>3. SameLevels(m)
  BY <1>1, LevelSame DEF SameLevels
<1>4. CASE frame[p].by = m
  <2>1. /\ <<p, frame[p].client>> \in RefusedBy(m)
        /\ RefusedBy(m)' = RefusedBy(m) \ {<<p, frame[p].client>>}
    BY <1>1, <1>4, IdleType, NoneAssumption, RefusedDrops
  <2>2. Responds(m)
    BY <1>1, <1>3, <2>1 DEF Responds
  <2> QED
    BY <1>2, <2>2 DEF LimiterStep
<1>5. CASE frame[p].by # m
  <2>1. RefusedBy(m)' = RefusedBy(m)
    BY <1>1, <1>5, IdleType, NoneAssumption, RefusedSame
  <2> QED
    BY <1>1, <1>2, <1>3, <2>1 DEF LimiterStep, Stutters
<1> QED
  BY <1>4, <1>5

LEMMA StepOfLimiter ==
    ASSUME TypeOK, ByOK, [Next]_vars, NEW m \in Limiters
    PROVE  ByOK' /\ LimiterStep(m)
<1>1. CASE Tick
  <2>1. now' = now + 1 /\ buckets' = buckets /\ frame' = frame
    BY <1>1 DEF Tick
  <2>2. RefusedBy(m)' = RefusedBy(m) /\ ByOK'
    BY <2>1 DEF RefusedBy, ByOK, At
  <2>3. Refills(m)
    BY <2>1, <2>2, LevelTick DEF Refills
  <2> QED
    BY <2>2, <2>3 DEF LimiterStep
<1>2. CASE PruneStale
  <2>1. now' = now /\ frame' = frame
    BY <1>2 DEF PruneStale
  <2>2. RefusedBy(m)' = RefusedBy(m) /\ ByOK'
    BY <2>1 DEF RefusedBy, ByOK, At
  <2>3. SameLevels(m)
    BY <1>2, LevelPrune DEF SameLevels
  <2> QED
    BY <2>1, <2>2, <2>3 DEF LimiterStep, Stutters
<1>3. ASSUME NEW p \in Procs, Arrive(p) \/ Respond(p)
      PROVE  ByOK' /\ LimiterStep(m)
  BY <1>3, ArriveStep, RespondStep
<1>4. ASSUME NEW p \in Procs, NEW l \in Limiters, Pass(p, l)
      PROVE  ByOK' /\ LimiterStep(m)
  BY <1>4, PassStep
<1>5. CASE UNCHANGED vars
  <2>1. now' = now /\ buckets' = buckets /\ frame' = frame
    BY <1>5 DEF vars
  <2>2. RefusedBy(m)' = RefusedBy(m) /\ ByOK'
    BY <2>1 DEF RefusedBy, ByOK, At
  <2>3. SameLevels(m)
    BY <2>1, LevelSame DEF SameLevels
  <2> QED
    BY <2>1, <2>2, <2>3 DEF LimiterStep, Stutters
<1> QED
  BY <1>1, <1>2, <1>3, <1>4, <1>5 DEF Next

SafetyInv == TypeOK /\ ByOK

LEMMA SafetyInductive ==
    /\ Init => SafetyInv
    /\ SafetyInv /\ [Next]_vars => SafetyInv'
<1>1. Init => SafetyInv
  BY InitTypes, ByInit DEF SafetyInv
<1>2. ASSUME SafetyInv, [Next]_vars PROVE TypeOK' /\ ByOK'
  <2>1. "general" \in Limiters
    BY DEF Limiters
  <2> QED
    BY <1>2, <2>1, NextTypes, StepOfLimiter DEF SafetyInv
<1> QED
  BY <1>1, <1>2 DEF SafetyInv

(* Nobody has been refused at first, and every bucket is full.             *)
LEMMA InitLimiter ==
    ASSUME Init, NEW l \in Limiters
    PROVE  /\ now = 0 /\ RefusedBy(l) = {}
           /\ \A k \in Clients : Tokens(l, k) = Full(l)
<1>1. \A p \in Procs : frame[p].by # l
  BY IdleType, NoneAssumption DEF Init
<1> QED
  BY <1>1 DEF Init, RefusedBy, Tokens

(* How the levels of all clients change, as a function.                    *)
LEMMA LevelsOf ==
    ASSUME NEW l \in Limiters
    PROVE  /\ \A k \in Clients : Levels(l)[k] = Tokens(l, k)
           /\ SameLevels(l) => Levels(l)' = Levels(l)
           /\ Refills(l) => Levels(l)' = [k \in Clients |->
                                Least(Full(l), Levels(l)[k] + Rate[l])]
           /\ \A k \in Clients :
                 /\ Tokens(l, k)' = Tokens(l, k) - Cost
                 /\ \A j \in Clients \ {k} : Tokens(l, j)' = Tokens(l, j)
                 => Levels(l)' = [Levels(l) EXCEPT ![k] = @ - Cost]
<1>1. \A k \in Clients : Levels(l)[k] = Tokens(l, k)
  BY DEF Levels
<1>2. Levels(l) = [k \in Clients |-> Tokens(l, k)]
      /\ Levels(l)' = [k \in Clients |-> Tokens(l, k)']
  BY DEF Levels
<1>3. SameLevels(l) => Levels(l)' = Levels(l)
  BY <1>2 DEF SameLevels
<1>4. Refills(l) => Levels(l)' = [k \in Clients |->
                        Least(Full(l), Levels(l)[k] + Rate[l])]
  BY <1>1, <1>2 DEF Refills
<1>5. ASSUME NEW k \in Clients, Tokens(l, k)' = Tokens(l, k) - Cost,
             \A j \in Clients \ {k} : Tokens(l, j)' = Tokens(l, j)
      PROVE  Levels(l)' = [Levels(l) EXCEPT ![k] = @ - Cost]
  BY <1>1, <1>2, <1>5
<1> QED
  BY <1>1, <1>3, <1>4, <1>5

LEMMA GeneralInit == Init => G!Init
<1> SUFFICES ASSUME Init PROVE G!Init
  OBVIOUS
<1>1. /\ now = 0 /\ RefusedBy("general") = {}
      /\ \A k \in Clients : Tokens("general", k) = Full("general")
  BY InitLimiter DEF Limiters
<1>2. Levels("general") = [k \in Clients |-> Full("general")]
  BY <1>1 DEF Levels
<1> QED
  BY <1>1, <1>2 DEF G!Init

LEMMA GeneralNext ==
    SafetyInv /\ [Next]_vars
        => [G!Next]_<<now, Levels("general"), RefusedBy("general")>>
<1> SUFFICES ASSUME SafetyInv, [Next]_vars
             PROVE  [G!Next]_<<now, Levels("general"), RefusedBy("general")>>
  OBVIOUS
<1>0. "general" \in Limiters
  BY DEF Limiters
<1>1. LimiterStep("general")
  BY <1>0, StepOfLimiter DEF SafetyInv
<1>2. CASE Refills("general")
  <2>1. Levels("general")' = [k \in Clients |->
                Least(Full("general"), Levels("general")[k] + Rate["general"])]
    BY <1>0, <1>2, LevelsOf
  <2> QED
    BY <1>2, <2>1 DEF Refills, G!Next, G!Refill, G!Least, Least
<1>3. CASE Admits("general")
  <2>1. PICK k \in Clients :
          /\ Tokens("general", k) >= Cost
          /\ Tokens("general", k)' = Tokens("general", k) - Cost
          /\ \A j \in Clients \ {k} : Tokens("general", j)' = Tokens("general", j)
    BY <1>3 DEF Admits
  <2>2. /\ Levels("general")[k] >= Cost
        /\ Levels("general")' = [Levels("general") EXCEPT ![k] = @ - Cost]
    BY <1>0, <2>1, LevelsOf
  <2>3. now' = now /\ RefusedBy("general")' = RefusedBy("general")
    BY <1>3 DEF Admits
  <2> QED
    BY <2>2, <2>3 DEF G!Next, G!Admit
<1>4. CASE Refuses("general")
  <2>1. now' = now /\ Levels("general")' = Levels("general")
    BY <1>0, <1>4, LevelsOf DEF Refuses
  <2>2. PICK p \in Procs, k \in Clients :
          /\ Tokens("general", k) < Cost
          /\ RefusedBy("general")' = RefusedBy("general") \cup {<<p, k>>}
    BY <1>4 DEF Refuses
  <2>3. Levels("general")[k] < Cost
    BY <1>0, <2>2, LevelsOf
  <2> QED
    BY <2>1, <2>2, <2>3 DEF G!Next, G!Refuse
<1>5. CASE Responds("general")
  <2>1. now' = now /\ Levels("general")' = Levels("general")
    BY <1>0, <1>5, LevelsOf DEF Responds
  <2>2. \E r \in RefusedBy("general") :
            RefusedBy("general")' = RefusedBy("general") \ {r}
    BY <1>5 DEF Responds
  <2> QED
    BY <2>1, <2>2 DEF G!Next, G!Respond
<1>6. CASE Stutters("general")
  <2>1. Levels("general")' = Levels("general")
    BY <1>0, <1>6, LevelsOf DEF Stutters
  <2> QED
    BY <1>6, <2>1 DEF Stutters
<1> QED
  BY <1>1, <1>2, <1>3, <1>4, <1>5, <1>6 DEF LimiterStep

(* The general limiter admits and refuses as buckets kept for ever do.     *)
THEOREM GeneralImplemented == Spec => GeneralSpec
BY SafetyInductive, GeneralInit, GeneralNext, PTL
   DEF Spec, GeneralSpec, G!Spec

LEMMA LoginInit == Init => L!Init
<1> SUFFICES ASSUME Init PROVE L!Init
  OBVIOUS
<1>1. /\ now = 0 /\ RefusedBy("login") = {}
      /\ \A k \in Clients : Tokens("login", k) = Full("login")
  BY InitLimiter DEF Limiters
<1>2. Levels("login") = [k \in Clients |-> Full("login")]
  BY <1>1 DEF Levels
<1> QED
  BY <1>1, <1>2 DEF L!Init

LEMMA LoginNext ==
    SafetyInv /\ [Next]_vars
        => [L!Next]_<<now, Levels("login"), RefusedBy("login")>>
<1> SUFFICES ASSUME SafetyInv, [Next]_vars
             PROVE  [L!Next]_<<now, Levels("login"), RefusedBy("login")>>
  OBVIOUS
<1>0. "login" \in Limiters
  BY DEF Limiters
<1>1. LimiterStep("login")
  BY <1>0, StepOfLimiter DEF SafetyInv
<1>2. CASE Refills("login")
  <2>1. Levels("login")' = [k \in Clients |->
                Least(Full("login"), Levels("login")[k] + Rate["login"])]
    BY <1>0, <1>2, LevelsOf
  <2> QED
    BY <1>2, <2>1 DEF Refills, L!Next, L!Refill, L!Least, Least
<1>3. CASE Admits("login")
  <2>1. PICK k \in Clients :
          /\ Tokens("login", k) >= Cost
          /\ Tokens("login", k)' = Tokens("login", k) - Cost
          /\ \A j \in Clients \ {k} : Tokens("login", j)' = Tokens("login", j)
    BY <1>3 DEF Admits
  <2>2. /\ Levels("login")[k] >= Cost
        /\ Levels("login")' = [Levels("login") EXCEPT ![k] = @ - Cost]
    BY <1>0, <2>1, LevelsOf
  <2>3. now' = now /\ RefusedBy("login")' = RefusedBy("login")
    BY <1>3 DEF Admits
  <2> QED
    BY <2>2, <2>3 DEF L!Next, L!Admit
<1>4. CASE Refuses("login")
  <2>1. now' = now /\ Levels("login")' = Levels("login")
    BY <1>0, <1>4, LevelsOf DEF Refuses
  <2>2. PICK p \in Procs, k \in Clients :
          /\ Tokens("login", k) < Cost
          /\ RefusedBy("login")' = RefusedBy("login") \cup {<<p, k>>}
    BY <1>4 DEF Refuses
  <2>3. Levels("login")[k] < Cost
    BY <1>0, <2>2, LevelsOf
  <2> QED
    BY <2>1, <2>2, <2>3 DEF L!Next, L!Refuse
<1>5. CASE Responds("login")
  <2>1. now' = now /\ Levels("login")' = Levels("login")
    BY <1>0, <1>5, LevelsOf DEF Responds
  <2>2. \E r \in RefusedBy("login") :
            RefusedBy("login")' = RefusedBy("login") \ {r}
    BY <1>5 DEF Responds
  <2> QED
    BY <2>1, <2>2 DEF L!Next, L!Respond
<1>6. CASE Stutters("login")
  <2>1. Levels("login")' = Levels("login")
    BY <1>0, <1>6, LevelsOf DEF Stutters
  <2> QED
    BY <1>6, <2>1 DEF Stutters
<1> QED
  BY <1>1, <1>2, <1>3, <1>4, <1>5, <1>6 DEF LimiterStep

(* So does the limiter of the login.                                       *)
THEOREM LoginImplemented == Spec => LoginSpec
BY SafetyInductive, LoginInit, LoginNext, PTL
   DEF Spec, LoginSpec, L!Spec

-----------------------------------------------------------------------------
(***************************************************************************)
(* Windows.  What a bucket holds now, with what was admitted since some    *)
(* admission, never exceeds a full bucket and what was added since then;   *)
(* the bound on a window is the same inequality at its last admission.     *)
(***************************************************************************)
SinceEach(l, s, n, t) ==
    \A i \in 1..Len(s) :
        s[i] <= n /\ (Len(s) - i + 1) * Cost + t <= Full(l) + (n - s[i]) * Rate[l]

Bounded(l, s) ==
    \A i, j \in 1..Len(s) :
        i <= j => (j - i + 1) * Cost <= Full(l) + (s[j] - s[i]) * Rate[l]

Windows ==
    \A l \in Limiters, k \in Clients :
        /\ SinceEach(l, admitted[l][k], now, Tokens(l, k))
        /\ Bounded(l, admitted[l][k])

LEMMA SinceTick ==
    ASSUME NEW l \in Limiters, NEW s \in Seq(Nat), NEW n \in Nat,
           NEW t \in Nat, NEW u \in Nat, u <= t + Rate[l],
           SinceEach(l, s, n, t)
    PROVE  SinceEach(l, s, n + 1, u)
<1> SUFFICES ASSUME NEW i \in 1..Len(s)
             PROVE  /\ s[i] <= n + 1
                    /\ (Len(s) - i + 1) * Cost + u
                           <= Full(l) + (n + 1 - s[i]) * Rate[l]
  BY DEF SinceEach
<1> DEFINE r == Rate[l]
           F == Full(l)
           c == (Len(s) - i + 1) * Cost
           e == n - s[i]
<1>1. s[i] \in Nat /\ s[i] <= n /\ c + t <= F + e * r
  BY DEF SinceEach
<1>2. r \in Nat /\ F \in Nat /\ c \in Nat
  <2>1. Len(s) - i + 1 \in Nat
    OBVIOUS
  <2> QED
    BY <2>1, Constant, NatMultiply
<1>3. e \in Nat /\ n + 1 - s[i] = e + 1
  BY <1>1
<1>4. (e + 1) * r = e * r + r /\ e * r \in Nat
  <2> HIDE DEF e, r
  <2>1. e * r \in Nat
    BY <1>2, <1>3, NatMultiply
  <2>2. (e + 1) * r = e * r + r
    BY <1>2, <1>3, OneMore
  <2> QED
    BY <2>1, <2>2
<1>5. (n + 1 - s[i]) * r = e * r + r
  BY <1>3, <1>4
<1> DEFINE x == e * r
           y == (n + 1 - s[i]) * r
<1>6. x \in Nat /\ y = x + r /\ c + t <= F + x
  BY <1>1, <1>4, <1>5
<1> HIDE DEF x, y, c, F, e
<1>7. c + u <= F + y
  BY <1>2, <1>6 DEF r
<1> QED
  BY <1>1, <1>7 DEF y, c, F, r

LEMMA SinceAdmit ==
    ASSUME NEW l \in Limiters, NEW s \in Seq(Nat), NEW n \in Nat,
           NEW t \in Nat, Cost <= t, t <= Full(l),
           SinceEach(l, s, n, t)
    PROVE  SinceEach(l, Append(s, n), n, t - Cost)
<1> DEFINE w == Append(s, n)
           m == Len(s)
<1>1. m \in Nat /\ Len(w) = m + 1 /\ w[m + 1] = n
      /\ \A i \in 1..m : w[i] = s[i]
  OBVIOUS
<1>2. Cost \in Nat /\ Full(l) \in Nat /\ Rate[l] \in Nat
  BY Constant
<1> HIDE DEF w, m
<1> SUFFICES ASSUME NEW i \in 1..(m + 1)
             PROVE  /\ w[i] <= n
                    /\ (m + 1 - i + 1) * Cost + (t - Cost)
                           <= Full(l) + (n - w[i]) * Rate[l]
  BY <1>1 DEF SinceEach, w
<1>3. CASE i = m + 1
  <2>1. n - w[i] = 0 /\ m + 1 - i + 1 = 1
    BY <1>1, <1>3
  <2>2. (n - w[i]) * Rate[l] = 0 /\ (m + 1 - i + 1) * Cost = Cost
    BY <1>2, <2>1
  <2> QED
    BY <1>1, <1>2, <1>3, <2>2
<1>4. CASE i # m + 1
  <2>1. i \in 1..m /\ w[i] = s[i]
    BY <1>1, <1>4
  <2> DEFINE a == m - i + 1
             x == (n - s[i]) * Rate[l]
  <2>2. s[i] <= n /\ a * Cost + t <= Full(l) + x
    BY <2>1 DEF SinceEach, m
  <2>3. a \in Nat /\ m + 1 - i + 1 = a + 1
    BY <1>1, <2>1
  <2>4. (m + 1 - i + 1) * Cost = a * Cost + Cost /\ a * Cost \in Nat
    <3> HIDE DEF a
    <3>1. a * Cost \in Nat
      BY <1>2, <2>3, NatMultiply
    <3>2. (a + 1) * Cost = a * Cost + Cost
      BY <1>2, <2>3, OneMore
    <3> QED
      BY <2>3, <3>1, <3>2
  <2>5. x \in Nat
    <3>1. s[i] \in Nat /\ n - s[i] \in Nat
      BY <2>1, <2>2 DEF m
    <3> QED
      BY <1>2, <3>1, NatMultiply
  <2> HIDE DEF x
  <2>6. (m + 1 - i + 1) * Cost + (t - Cost) <= Full(l) + x
    BY <1>2, <2>2, <2>4, <2>5
  <2> QED
    BY <2>1, <2>2, <2>6 DEF x
<1> QED
  BY <1>3, <1>4

LEMMA BoundedAdmit ==
    ASSUME NEW l \in Limiters, NEW s \in Seq(Nat), NEW n \in Nat,
           NEW t \in Nat, Cost <= t, t <= Full(l),
           SinceEach(l, s, n, t), Bounded(l, s)
    PROVE  Bounded(l, Append(s, n))
<1> DEFINE w == Append(s, n)
           m == Len(s)
<1>1. m \in Nat /\ Len(w) = m + 1 /\ w[m + 1] = n
      /\ \A i \in 1..m : w[i] = s[i]
  OBVIOUS
<1>2. SinceEach(l, w, n, t - Cost)
  BY SinceAdmit
<1>3. w \in Seq(Nat)
  OBVIOUS
<1> HIDE DEF w, m
<1> SUFFICES ASSUME NEW i \in 1..(m + 1), NEW j \in 1..(m + 1), i <= j
             PROVE  (j - i + 1) * Cost <= Full(l) + (w[j] - w[i]) * Rate[l]
  BY <1>1 DEF Bounded, w
<1>4. CASE j = m + 1
  <2> DEFINE c == (j - i + 1) * Cost
             x == (n - w[i]) * Rate[l]
  <2>1. w[i] <= n /\ c + (t - Cost) <= Full(l) + x
    BY <1>1, <1>2, <1>4 DEF SinceEach
  <2>2. c \in Nat /\ x \in Nat /\ Full(l) \in Nat /\ t - Cost \in Nat
    <3>1. j - i + 1 \in Nat /\ w[i] \in Nat /\ n - w[i] \in Nat
      BY <1>1, <1>3, <2>1
    <3>2. Cost \in Nat /\ Rate[l] \in Nat /\ Full(l) \in Nat
      BY Constant
    <3>3. c \in Nat
      BY <3>1, <3>2, NatMultiply
    <3>4. x \in Nat
      BY <3>1, <3>2, NatMultiply
    <3> QED
      BY <3>2, <3>3, <3>4
  <2>3. x = (w[j] - w[i]) * Rate[l]
    BY <1>1, <1>4
  <2> HIDE DEF c, x
  <2>4. c <= Full(l) + x
    BY <2>1, <2>2
  <2> QED
    BY <2>3, <2>4 DEF c
<1>5. CASE j # m + 1
  <2>1. i \in 1..m /\ j \in 1..m /\ w[i] = s[i] /\ w[j] = s[j]
    BY <1>1, <1>5
  <2> QED
    BY <2>1 DEF Bounded, m
<1> QED
  BY <1>4, <1>5

LEMMA WindowsInit == Init => Windows
BY DEF Init, Windows, SinceEach, Bounded

LEMMA WindowsSame ==
    ASSUME Windows, now' = now, admitted' = admitted,
           \A l \in Limiters, k \in Clients : Tokens(l, k)' = Tokens(l, k)
    PROVE  Windows'
<1> SUFFICES ASSUME NEW l \in Limiters, NEW k \in Clients
             PROVE  /\ SinceEach(l, admitted[l][k], now, Tokens(l, k))'
                    /\ Bounded(l, admitted[l][k])'
  BY DEF Windows
<1>1. /\ SinceEach(l, admitted[l][k], now, Tokens(l, k))
      /\ Bounded(l, admitted[l][k])
  BY DEF Windows
<1> QED
  BY <1>1 DEF SinceEach, Bounded, Full

LEMMA WindowsPass ==
    ASSUME TypeOK, Windows, now' = now, NEW l \in Limiters, NEW k \in Clients,
           NEW ok \in BOOLEAN, Allow(l, k, ok)
    PROVE  Windows'
<1>0. now \in Nat /\ admitted \in AdmittedSet
  BY DEF TypeOK, AdmittedSet
<1>1. /\ ok => Tokens(l, k)' = Tokens(l, k) - Cost
      /\ ~ok => Tokens(l, k)' = Tokens(l, k)
      /\ \A i \in Limiters, j \in Clients :
             ~(i = l /\ j = k) => Tokens(i, j)' = Tokens(i, j)
  BY LevelAllow
<1>2. CASE ~ok
  <2>1. admitted' = admitted
    BY <1>2 DEF Allow
  <2>2. \A i \in Limiters, j \in Clients : Tokens(i, j)' = Tokens(i, j)
    BY <1>1, <1>2
  <2> QED
    BY <2>1, <2>2, WindowsSame
<1>3. CASE ok
  <2> DEFINE s == admitted[l][k]
             t == Tokens(l, k)
  <2>1. admitted' = [admitted EXCEPT ![l][k] = Append(s, now)]
    BY <1>3 DEF Allow
  <2>2. s \in Seq(Nat) /\ t \in Nat /\ Cost <= t /\ t <= Full(l)
    <3>1. t \in Nat /\ t <= Full(l) /\ Cost \in Nat
      BY TokensType, Constant
    <3>2. t >= Cost
      BY <1>3, AllowGuard
    <3> QED
      BY <1>0, <3>1, <3>2 DEF AdmittedSet
  <2>3. SinceEach(l, s, now, t) /\ Bounded(l, s)
    BY DEF Windows
  <2>4. SinceEach(l, Append(s, now), now, t - Cost) /\ Bounded(l, Append(s, now))
    BY <1>0, <2>2, <2>3, SinceAdmit, BoundedAdmit
  <2>5. admitted'[l][k] = Append(s, now) /\ Tokens(l, k)' = t - Cost
    BY <1>0, <1>1, <1>3, <2>1 DEF AdmittedSet
  <2> HIDE DEF s, t
  <2>6. /\ SinceEach(l, admitted[l][k], now, Tokens(l, k))'
        /\ Bounded(l, admitted[l][k])'
    BY <2>4, <2>5 DEF SinceEach, Bounded, Full
  <2>7. ASSUME NEW i \in Limiters, NEW j \in Clients, ~(i = l /\ j = k)
        PROVE  /\ SinceEach(i, admitted[i][j], now, Tokens(i, j))'
               /\ Bounded(i, admitted[i][j])'
    <3>1. admitted'[i][j] = admitted[i][j] /\ Tokens(i, j)' = Tokens(i, j)
      BY <1>0, <1>1, <2>1, <2>7 DEF AdmittedSet
    <3>2. SinceEach(i, admitted[i][j], now, Tokens(i, j)) /\ Bounded(i, admitted[i][j])
      BY DEF Windows
    <3> QED
      BY <3>1, <3>2 DEF SinceEach, Bounded, Full
  <2> QED
    BY <2>6, <2>7 DEF Windows
<1> QED
  BY <1>2, <1>3

LEMMA WindowsNext == TypeOK /\ Windows /\ [Next]_vars => Windows'
<1> SUFFICES ASSUME TypeOK, Windows, [Next]_vars PROVE Windows'
  OBVIOUS
<1>1. CASE Tick
  <2>1. now' = now + 1 /\ buckets' = buckets /\ admitted' = admitted
    BY <1>1 DEF Tick
  <2> SUFFICES ASSUME NEW l \in Limiters, NEW k \in Clients
               PROVE  /\ SinceEach(l, admitted[l][k], now, Tokens(l, k))'
                      /\ Bounded(l, admitted[l][k])'
    BY DEF Windows
  <2> DEFINE s == admitted[l][k]
             t == Tokens(l, k)
             u == Least(Full(l), t + Rate[l])
  <2>2. s \in Seq(Nat) /\ now \in Nat /\ t \in Nat /\ Full(l) \in Nat /\ Rate[l] \in Nat
    BY TokensType, Constant DEF TypeOK
  <2>3. u \in Nat /\ u <= t + Rate[l]
    BY <2>2 DEF Least
  <2>4. SinceEach(l, s, now, t) /\ Bounded(l, s)
    BY DEF Windows
  <2>5. Tokens(l, k)' = u
    BY <2>1, LevelTick
  <2> HIDE DEF s, t, u
  <2>6. SinceEach(l, s, now + 1, u)
    BY <2>2, <2>3, <2>4, SinceTick
  <2> QED
    BY <2>1, <2>4, <2>5, <2>6 DEF SinceEach, Bounded, Full, s
<1>2. CASE PruneStale
  <2>1. \A l \in Limiters, k \in Clients : Tokens(l, k)' = Tokens(l, k)
    BY <1>2, LevelPrune
  <2> QED
    BY <1>2, <2>1, WindowsSame DEF PruneStale
<1>3. ASSUME NEW p \in Procs, Arrive(p) \/ Respond(p) PROVE Windows'
  <2>1. now' = now /\ admitted' = admitted /\ buckets' = buckets
    BY <1>3 DEF Arrive, Respond
  <2> QED
    BY <2>1, LevelSame, WindowsSame
<1>4. ASSUME NEW p \in Procs, NEW l \in Limiters, Pass(p, l) PROVE Windows'
  <2>1. PICK k \in Clients : k = frame[p].client
    BY <1>4, PassFrame
  <2>2. now' = now /\ \E ok \in BOOLEAN : Allow(l, k, ok)
    BY <1>4, <2>1, PassFrame
  <2> QED
    BY <2>2, WindowsPass
<1>5. CASE UNCHANGED vars
  <2>1. now' = now /\ admitted' = admitted /\ buckets' = buckets
    BY <1>5 DEF vars
  <2> QED
    BY <2>1, LevelSame, WindowsSame
<1> QED
  BY <1>1, <1>2, <1>3, <1>4, <1>5 DEF Next

(* No window of time sees more than a full bucket and its refill.          *)
THEOREM WindowsBounded == Spec => []WindowBound
<1>1. Windows => WindowBound
  BY DEF Windows, Bounded, WindowBound
<1> QED
  BY <1>1, InitTypes, NextTypes, WindowsInit, WindowsNext, PTL DEF Spec

=============================================================================
