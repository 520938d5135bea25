----------------------------- MODULE RateLimits ------------------------------
(***************************************************************************)
(* The two rate limiters (ratelimit.go) and the requests that pass them:   *)
(* the general one around the router (main.go), the one of the login       *)
(* inside it (http.go).  A limiter keeps a bucket for every client         *)
(* address it has seen; its mutex makes allow and pruneStale atomic.  The  *)
(* prune loop forgets the clients of the general limiter only.             *)
(*                                                                         *)
(* Tokens are fractions of a request, so that rate * elapsed is a natural  *)
(* number: Cost of them admit a request.                                   *)
(***************************************************************************)
EXTENDS Naturals, Sequences

CONSTANTS
    Clients,    \* client addresses
    Procs,      \* the requests in flight at the same time
    Paths,      \* what clients ask for in this instance
    Cost,       \* fractions of a token that one request takes
    Rate,       \* Rate[l]: fractions that limiter l adds in a unit of time
    Burst,      \* Burst[l]: the tokens of a full bucket of l
    MaxAge,     \* pruneStale's maxAge: ten times the interval of its loop
    None,       \* no bucket yet, an unset local variable
    MaxTime     \* bound on the clock

Limiters == {"general", "login"}
AllPaths == {"api", "login", "metrics"}     \* "api" stands for /health as well
Full(l) == Burst[l] * Cost

ASSUME RateAssumption ==
    /\ Cost \in Nat \ {0} /\ MaxTime \in Nat /\ MaxAge \in Nat
    /\ Rate \in [Limiters -> Nat] /\ Burst \in [Limiters -> Nat \ {0}]
\* An untouched bucket is full before it is forgotten (2 s and 100 min).
ASSUME AgeAssumption == MaxAge * Rate["general"] >= Full("general")
ASSUME NoneAssumption ==
    /\ None \notin [tokens : Nat, lastCheck : Nat] /\ None \notin Limiters
    /\ None \notin Clients /\ None \notin AllPaths /\ Paths \subseteq AllPaths

VARIABLES
    now,        \* the clock
    buckets,    \* buckets[l][k]: the tokenBucket of client k, or None
    admitted,   \* history: when limiter l let client k through
    frame       \* frame[p]: where the request of p is

vars == <<now, buckets, admitted, frame>>

Labels == {"idle", "general", "login", "serve", "refused"}
Bucket == [tokens : Nat, lastCheck : Nat]
Frame == [pc : Labels, client : Clients \cup {None}, path : AllPaths \cup {None},
          by : Limiters \cup {None}]

Idle == [pc |-> "idle", client |-> None, path |-> None, by |-> None]

At(p, label) == frame[p].pc = label
Goto(p, f) == frame' = [frame EXCEPT ![p] = f]
Least(a, b) == IF a <= b THEN a ELSE b

-----------------------------------------------------------------------------
Init ==
    /\ now = 0
    /\ buckets = [l \in Limiters |-> [k \in Clients |-> None]]
    /\ admitted = [l \in Limiters |-> [k \in Clients |-> <<>>]]
    /\ frame = [p \in Procs |-> Idle]

Tick ==
    /\ now < MaxTime
    /\ now' = now + 1
    /\ UNCHANGED <<buckets, admitted, frame>>

(***************************************************************************)
(* allow.  A client that is not in the map has a full bucket; a refused    *)
(* request takes no token, but the bucket is refilled all the same.        *)
(***************************************************************************)
\* Defect: the refill is not capped.
TokensUncapped(l, k) ==
    LET b == buckets[l][k] IN
    IF b = None THEN Full(l) ELSE b.tokens + (now - b.lastCheck) * Rate[l]

\* Defect: lastCheck is taken for the start of the process.
TokensSinceStart(l, k) ==
    LET b == buckets[l][k] IN
    IF b = None THEN Full(l) ELSE Least(Full(l), b.tokens + now * Rate[l])

Tokens(l, k) ==
    LET b == buckets[l][k] IN
    IF b = None THEN Full(l)
    ELSE Least(Full(l), b.tokens + (now - b.lastCheck) * Rate[l])

\* Defect: a refused request loses what had been refilled.
AllowLossy(l, k, ok) ==
    /\ ok <=> Tokens(l, k) >= Cost
    /\ buckets' = [buckets EXCEPT ![l][k] =
            [tokens |-> IF ok THEN Tokens(l, k) - Cost ELSE @.tokens,
             lastCheck |-> now]]
    /\ admitted' = IF ok THEN [admitted EXCEPT ![l][k] = Append(@, now)]
                         ELSE admitted

Allow(l, k, ok) ==
    /\ ok <=> Tokens(l, k) >= Cost
    /\ buckets' = [buckets EXCEPT ![l][k] =
            [tokens |-> IF ok THEN Tokens(l, k) - Cost ELSE Tokens(l, k),
             lastCheck |-> now]]
    /\ admitted' = IF ok THEN [admitted EXCEPT ![l][k] = Append(@, now)]
                         ELSE admitted

(***************************************************************************)
(* A request: the general limiter unless it is for /metrics, then the      *)
(* router, where the login has a limiter of its own.                       *)
(***************************************************************************)
Arrive(p) ==
    /\ At(p, "idle")
    /\ \E k \in Clients, path \in Paths :
        Goto(p, [Idle EXCEPT !.client = k, !.path = path,
                             !.pc = IF path = "metrics" THEN "serve"
                                                        ELSE "general"])
    /\ UNCHANGED <<now, buckets, admitted>>

Pass(p, l) ==
    LET f == frame[p] IN
    /\ At(p, l)
    /\ \E ok \in BOOLEAN :
        /\ Allow(l, f.client, ok)
        /\ Goto(p, IF ~ok THEN [f EXCEPT !.pc = "refused", !.by = l]
                   ELSE IF l = "general" /\ f.path = "login"
                        THEN [f EXCEPT !.pc = "login"]
                        ELSE [f EXCEPT !.pc = "serve"])
    /\ UNCHANGED now

Respond(p) ==
    /\ frame[p].pc \in {"serve", "refused"}
    /\ Goto(p, Idle)
    /\ UNCHANGED <<now, buckets, admitted>>

(***************************************************************************)
(* pruneStale, from the loop of the general limiter.                       *)
(***************************************************************************)
\* Defect: buckets are forgotten as soon as they are not used for a while.
StaleSoon(b) == b # None /\ b.lastCheck < now

Stale(b) == b # None /\ b.lastCheck + MaxAge < now

PruneStale ==
    /\ \E k \in Clients : Stale(buckets["general"][k])
    /\ buckets' = [buckets EXCEPT !["general"] =
            [k \in Clients |-> IF Stale(@[k]) THEN None ELSE @[k]]]
    /\ UNCHANGED <<now, admitted, frame>>

Next ==
    \/ Tick \/ PruneStale
    \/ \E p \in Procs : \/ Arrive(p) \/ Respond(p)
                        \/ \E l \in Limiters : Pass(p, l)

Spec == Init /\ [][Next]_vars

-----------------------------------------------------------------------------
(***************************************************************************)
(* Properties.                                                             *)
(***************************************************************************)
\* Every variable keeps its type; no bucket holds more than its burst, or was
\* last used in the future.
TypeOK ==
    /\ now \in Nat
    /\ buckets \in [Limiters -> [Clients -> Bucket \cup {None}]]
    /\ admitted \in [Limiters -> [Clients -> Seq(Nat)]]
    /\ frame \in [Procs -> Frame]
    /\ \A p \in Procs : At(p, "idle") \/ frame[p].client \in Clients
    /\ \A l \in Limiters, k \in Clients :
        buckets[l][k] # None => /\ buckets[l][k].tokens <= Full(l)
                                /\ buckets[l][k].lastCheck <= now

\* In every window of time a limiter lets at most its burst and what the window
\* refills through, for each client and although buckets are forgotten in
\* between (README.md:747-748: "20 req/s por IP, ráfaga de 40").
WindowBound ==
    \A l \in Limiters, k \in Clients :
        LET s == admitted[l][k] IN
        \A i, j \in 1..Len(s) :
            i <= j => (j - i + 1) * Cost <= Full(l) + (s[j] - s[i]) * Rate[l]

(***************************************************************************)
(* Each limiter is a set of buckets that never forgets.                    *)
(***************************************************************************)
Levels(l) == [k \in Clients |-> Tokens(l, k)]

RefusedBy(l) ==
    {<<p, frame[p].client>> : p \in {q \in Procs : frame[q].by = l}}

G == INSTANCE TokenBucket
     WITH Rate <- Rate["general"], Cap <- Full("general"),
          level <- Levels("general"), refused <- RefusedBy("general")
L == INSTANCE TokenBucket
     WITH Rate <- Rate["login"], Cap <- Full("login"),
          level <- Levels("login"), refused <- RefusedBy("login")

\* What pruneStale forgets is never missed: clients are admitted and refused as
\* by buckets that are kept for ever ("drops buckets untouched for longer than
\* maxAge", ratelimit.go:67).
GeneralSpec == G!Spec

\* The same for the limiter of the login, which forgets nobody.
LoginSpec == L!Spec

\* A login is refused by its own limiter only ("applies to every request
\* (except /login, which has its own stricter limiter", main.go:19-20).
LoginHasItsOwnLimit ==
    \A p \in Procs : frame[p].path = "login" => frame[p].by # "general"

=============================================================================
