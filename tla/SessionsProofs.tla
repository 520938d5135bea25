--------------------------- MODULE SessionsProofs ---------------------------
(***************************************************************************)
(* Theorems about what changes an account, and about the role that a login *)
(* reads and puts in a token, which outlives the account.                  *)
(***************************************************************************)
EXTENDS UsersProofs

(* The account a handler found before it went to its second statement.     *)
Fetched(p, g) ==
    /\ At(p, "idle") /\ g.op \in Ops[p] /\ g.name \in Names
    /\ users[g.name] # None /\ g.row = users[g.name]
    /\ users' = users

(* The frame a step of the request p ends in.                              *)
Moved(p, g) ==
    /\ g.pc = "idle" => g.caller = None
    /\ At(p, "idle") => g.caller = None \/ g.caller \in Callers
    /\ g.pc = "login" => Fetched(p, g) /\ g.op = "login"
    /\ g.pc = "write" => Fetched(p, g)
    /\ g.pc # "reply" => g.status = None

LEMMA AnswerMoved ==
    ASSUME NEW p \in Procs, NEW g, NEW s, Answer(p, g, s),
           At(p, "idle") => g.caller = None \/ g.caller \in Callers
    PROVE  \E h : Goto(p, h) /\ Moved(p, h)
<1> DEFINE h == [Idle EXCEPT !.pc = "reply", !.op = g.op,
                             !.caller = g.caller, !.status = s]
<1>1. Goto(p, h)
  BY DEF Answer
<1>2. h.pc = "reply" /\ h.caller = g.caller
  BY DEF Idle
<1> HIDE DEF h
<1>3. Moved(p, h)
  BY <1>2 DEF Moved
<1>. QED BY <1>1, <1>3

LEMMA RefuseMoved ==
    ASSUME NEW p \in Procs, Refuse(p)
    PROVE  \E g : Goto(p, g) /\ Moved(p, g)
<1> DEFINE f(op) == [Idle EXCEPT !.op = op]
           g(op, c) == [Idle EXCEPT !.op = op, !.caller = c]
<1>1. \A op, c : f(op).caller = None /\ g(op, c).caller = c
  BY DEF Idle
<1> HIDE DEF f, g
<1>2. \/ \E op : Answer(p, f(op), 401)
      \/ \E op : \E c \in Callers : Answer(p, g(op, c), 403)
  <2>1. \E op \in AllOps \ {"login"} :
          /\ Ready(p, op)
          /\ \/ Answer(p, f(op), 401)
             \/ /\ op # "change"
                /\ \E c \in Callers \ AdminCallers : Answer(p, g(op, c), 403)
    BY Zenon DEF Refuse, f, g
  <2>. QED BY <2>1
<1>. QED BY <1>1, <1>2, AnswerMoved

LEMMA LoginMoved ==
    ASSUME NEW p \in Procs, Login(p)
    PROVE  \E g : Goto(p, g) /\ Moved(p, g)
<1> DEFINE f(n) == [Idle EXCEPT !.op = "login", !.name = n]
           g(n, w) == [f(n) EXCEPT !.pc = "login", !.row = users[n], !.given = w]
<1>1. \A n, w : /\ f(n).caller = None
                /\ g(n, w).pc = "login" /\ g(n, w).caller = None
                /\ g(n, w).op = "login" /\ g(n, w).name = n
                /\ g(n, w).row = users[n] /\ g(n, w).status = None
  BY DEF Idle
<1> HIDE DEF f, g
<1>2. PICK n \in Names, w \in Passwords :
        IF users[n] = None THEN Answer(p, f(n), 401) ELSE Goto(p, g(n, w))
  <2>1. \E n \in Names, w \in Passwords :
          IF users[n] = None THEN Answer(p, f(n), 401) ELSE Goto(p, g(n, w))
    BY Zenon DEF Login, f, g
  <2>. QED BY <2>1
<1>3. At(p, "idle") /\ "login" \in Ops[p] /\ users' = users
  BY DEF Login, Ready, UnchangedButFrame
<1>4. users[n] # None => Moved(p, g(n, w))
  BY <1>1, <1>3 DEF Moved, Fetched
<1>. QED BY <1>1, <1>2, <1>4, AnswerMoved

LEMMA DeleteMoved ==
    ASSUME NEW p \in Procs, DeleteUser(p)
    PROVE  \E g : Goto(p, g) /\ Moved(p, g)
<1> DEFINE f(c, n) == Call("delete", c, n)
           g(c, n) == [f(c, n) EXCEPT !.pc = IF users[n].role = "admin"
                                             THEN "count" ELSE "remove"]
<1>1. \A c, n : /\ f(c, n).caller = c /\ g(c, n).caller = c
                /\ g(c, n).pc \in {"count", "remove"}
                /\ g(c, n).status = None
  BY DEF Call, Idle
<1> HIDE DEF f, g
<1>2. PICK c \in AdminCallers, n \in Names :
        IF users[n] = None THEN Answer(p, f(c, n), 404) ELSE Goto(p, g(c, n))
  <2>1. \E c \in AdminCallers, n \in Names :
          IF users[n] = None THEN Answer(p, f(c, n), 404) ELSE Goto(p, g(c, n))
    BY Zenon DEF DeleteUser, f, g
  <2>. QED BY <2>1
<1>3. c \in Callers
  BY DEF AdminCallers
<1>4. Moved(p, g(c, n))
  BY <1>1, <1>3 DEF Moved
<1>. QED BY <1>1, <1>2, <1>3, <1>4, AnswerMoved

LEMMA CountMoved ==
    ASSUME TypeOK, NEW p \in Procs, CountAdmins(p),
           At(p, "count") => frame[p].status = None
    PROVE  \E g : Goto(p, g) /\ Moved(p, g)
<1> DEFINE g == [frame[p] EXCEPT !.pc = "remove"]
<1>1. Answer(p, frame[p], 409) \/ Goto(p, g)
  BY DEF CountAdmins
<1>2. ~At(p, "idle")
  BY DEF CountAdmins, At
<1>3. g.pc = "remove" /\ g.status = None
  BY FrameType DEF Frame, CountAdmins
<1> HIDE DEF g
<1>4. Moved(p, g)
  BY <1>2, <1>3 DEF Moved
<1>. QED BY <1>1, <1>2, <1>4, AnswerMoved

LEMMA ChangeMoved ==
    ASSUME TypeOK, NEW p \in Procs, ChangePassword(p)
    PROVE  \E g : Goto(p, g) /\ Moved(p, g)
<1>1. PICK c \in Callers, w \in Passwords, v \in Passwords \cup {None} :
        Change(p, c, w, v)
  BY DEF ChangePassword
<1> DEFINE f == Call("change", c, c.name)
           g == [f EXCEPT !.pc = "write", !.given = w, !.new = v,
                          !.row = users[c.name]]
<1>2. \/ Answer(p, f, 500) \/ Answer(p, f, 401) \/ Answer(p, f, 400)
      \/ users[c.name] # None /\ Goto(p, g)
  BY <1>1 DEF Change
<1>3. /\ f.caller = c /\ g.pc = "write" /\ g.op = "change"
      /\ g.caller = c /\ g.name = c.name
      /\ g.row = users[c.name] /\ g.status = None
  BY DEF Call, Idle
<1> HIDE DEF f, g
<1>4. At(p, "idle") /\ "change" \in Ops[p] /\ users' = users
  BY DEF ChangePassword, Ready, UnchangedButFrame
<1>5. c.name \in Names
  BY CallersType DEF Caller
<1>6. users[c.name] # None => Moved(p, g)
  BY <1>3, <1>4, <1>5 DEF Moved, Fetched
<1>. QED BY <1>2, <1>3, <1>6, AnswerMoved

LEMMA ResetMoved ==
    ASSUME NEW p \in Procs, ResetPassword(p)
    PROVE  \E g : Goto(p, g) /\ Moved(p, g)
<1> DEFINE f(c, n) == Call("reset", c, n)
           g(c, n, v) == [f(c, n) EXCEPT !.pc = "write", !.new = v,
                                         !.row = users[n]]
<1>1. \A c, n, v : /\ f(c, n).caller = c
                   /\ g(c, n, v).pc = "write" /\ g(c, n, v).op = "reset"
                   /\ g(c, n, v).caller = c /\ g(c, n, v).name = n
                   /\ g(c, n, v).row = users[n] /\ g(c, n, v).status = None
  BY DEF Call, Idle
<1> HIDE DEF f, g
<1>2. PICK c \in AdminCallers, n \in Names, v \in Passwords \cup {None} :
        \/ Answer(p, f(c, n), 404) \/ Answer(p, f(c, n), 400)
        \/ users[n] # None /\ Goto(p, g(c, n, v))
  <2>1. \E c \in AdminCallers, n \in Names, v \in Passwords \cup {None} :
          \/ users[n] = None /\ Answer(p, f(c, n), 404)
          \/ users[n] # None /\ v = None /\ Answer(p, f(c, n), 400)
          \/ users[n] # None /\ v # None /\ Goto(p, g(c, n, v))
    BY Zenon DEF ResetPassword, f, g
  <2>. QED BY <2>1
<1>3. At(p, "idle") /\ "reset" \in Ops[p] /\ users' = users /\ c \in Callers
  BY DEF ResetPassword, Ready, UnchangedButFrame, AdminCallers
<1>4. users[n] # None => Moved(p, g(c, n, v))
  BY <1>1, <1>3 DEF Moved, Fetched
<1>. QED BY <1>1, <1>2, <1>3, <1>4, AnswerMoved

LEMMA CreateMoved ==
    ASSUME NEW p \in Procs, CreateUser(p)
    PROVE  \E g : Goto(p, g) /\ Moved(p, g)
<1>1. PICK c \in AdminCallers, n \in Names :
        \E s \in {400, 409, 201} : Answer(p, Call("create", c, n), s)
  BY DEF CreateUser
<1>2. Call("create", c, n).caller = c
  BY DEF Call, Idle
<1>3. c \in Callers
  BY DEF AdminCallers
<1>. QED BY <1>1, <1>2, <1>3, AnswerMoved

LEMMA FailMoved ==
    ASSUME NEW p \in Procs, StatementFails(p)
    PROVE  \E g : Goto(p, g) /\ Moved(p, g)
<1> DEFINE f == [Idle EXCEPT !.op = "login"]
           g(op, c) == [Idle EXCEPT !.op = op, !.caller = c]
<1>1. /\ f.caller = None
      /\ \A op, c : g(op, c).caller = c
  BY DEF Idle
<1> HIDE DEF f, g
<1>2. \/ ~At(p, "idle") /\ Answer(p, frame[p], 500)
      \/ Answer(p, f, 500)
      \/ \E op : \E c \in Callers : Answer(p, g(op, c), 500)
  BY DEF StatementFails, At, AdminCallers, f, g
<1>. QED BY <1>1, <1>2, AnswerMoved

LEMMA ServeMoved ==
    ASSUME TypeOK, NEW p \in Procs, Serve(p),
           At(p, "count") => frame[p].status = None
    PROVE  \E g : Goto(p, g) /\ Moved(p, g)
<1>1. CASE Respond(p)
  <2>1. Goto(p, Idle)
    BY <1>1 DEF Respond
  <2>2. Idle.pc = "idle" /\ Idle.caller = None /\ Idle.status = None
    BY DEF Idle
  <2>3. Moved(p, Idle)
    BY <2>2 DEF Moved
  <2>. QED BY <2>1, <2>3
<1>2. CASE IssueToken(p) \/ RemoveUser(p) \/ SetPasswordHash(p)
  <2>1. ~At(p, "idle") /\ \E s : Answer(p, frame[p], s)
    BY <1>2 DEF IssueToken, RemoveUser, SetPasswordHash, At
  <2>. QED BY <2>1, AnswerMoved
<1>. QED
  BY <1>1, <1>2, RefuseMoved, LoginMoved, DeleteMoved, CountMoved,
     ChangeMoved, ResetMoved, CreateMoved, FailMoved DEF Serve

(***************************************************************************)
(* The three ways in which an account changes while the server is up.      *)
(***************************************************************************)
Added(q, n) ==
    "create" \in Ops[q] /\ users[n] = None /\ users'[n] \in Account

Removed(q, n) ==
    /\ At(q, "remove") /\ "delete" \in Ops[q]
    /\ users[n] \in Account /\ users'[n] = None
    /\ lost' = [lost EXCEPT ![n][users[n].role] = now]

Rewritten(q, n) ==
    /\ At(q, "write") /\ frame[q].name = n
    /\ users[n] \in Account /\ users'[n] \in Account
    /\ users'[n].role = users[n].role

LEMMA Writes ==
    ASSUME TypeOK, NEW q \in Procs, Serve(q), NEW n \in Names,
           users'[n] # users[n]
    PROVE  /\ frame'[q].pc = "reply"
           /\ Added(q, n) \/ Removed(q, n) \/ Rewritten(q, n)
<1>1. users \in [Names -> Account \cup {None}] /\ LocalsOK(frame[q])
  BY DEF TypeOK, Users
<1>0. ASSUME NEW f, NEW t, Answer(q, f, t) PROVE frame'[q].pc = "reply"
  BY <1>0 DEF Answer, Goto, Idle, TypeOK
<1>2. CASE CreateUser(q)
  <2>1. PICK m \in Names, r \in Roles, w \in Passwords :
          /\ users[m] = None
          /\ users' = [users EXCEPT ![m] = [password |-> w, role |-> r]]
    BY <1>2 DEF CreateUser
  <2>2. [password |-> w, role |-> r] \in Account
    BY DEF Account
  <2>3. users[n] = None /\ users'[n] \in Account
    BY <1>1, <2>1, <2>2
  <2>4. \E f, t : Answer(q, f, t)
    BY <1>2, Zenon DEF CreateUser
  <2>. QED BY <1>0, <1>2, <2>3, <2>4 DEF CreateUser, Ready, Added
<1>3. CASE RemoveUser(q)
  <2>1. At(q, "remove") /\ "delete" \in Ops[q] /\ frame[q].name \in Names
    BY <1>1, <1>3 DEF RemoveUser, At, LocalsOK, TypeOK
  <2>2. /\ users[frame[q].name] # None
        /\ users' = [users EXCEPT ![frame[q].name] = None]
        /\ lost' = [lost EXCEPT ![frame[q].name][users[frame[q].name].role] = now]
    BY <1>3 DEF RemoveUser
  <2>3. frame[q].name = n
    BY <1>1, <2>2
  <2>4. \E f, t : Answer(q, f, t)
    BY <1>3, Zenon DEF RemoveUser
  <2>. QED BY <1>0, <1>1, <2>1, <2>2, <2>3, <2>4 DEF Removed
<1>4. CASE SetPasswordHash(q)
  <2>1. At(q, "write") /\ frame[q].name \in Names /\ frame[q].new \in Passwords
    BY <1>1, <1>4 DEF SetPasswordHash, At, LocalsOK
  <2>2. /\ users[frame[q].name] # None
        /\ users' = [users EXCEPT ![frame[q].name].password = frame[q].new]
    BY <1>4 DEF SetPasswordHash
  <2>3. frame[q].name = n
    BY <1>1, <2>2
  <2>4. users[n] \in Account
    BY <1>1, <2>2, <2>3
  <2>5. users'[n] = [users[n] EXCEPT !.password = frame[q].new]
    BY <1>1, <2>2, <2>3
  <2>6. users'[n] \in Account /\ users'[n].role = users[n].role
    BY <2>1, <2>4, <2>5 DEF Account
  <2>7. \E f, t : Answer(q, f, t)
    BY <1>4, Zenon DEF SetPasswordHash
  <2>. QED BY <1>0, <2>1, <2>3, <2>4, <2>6, <2>7 DEF Rewritten
<1>. QED
  BY <1>2, <1>3, <1>4
     DEF Serve, Refuse, Login, IssueToken, DeleteUser, CountAdmins,
         ChangePassword, ResetPassword, StatementFails, Respond,
         UnchangedButFrame

\* An account changes by one of those writes, or when an empty table is seeded
\* and nothing is in flight.
LEMMA Changes ==
    ASSUME TypeOK, [Next]_vars, NEW n \in Names, users'[n] # users[n]
    PROVE  \/ users[n] = None /\ \A p \in Procs : frame'[p] = Idle
           \/ \E q \in Procs :
                /\ Serve(q) /\ frame'[q].pc = "reply"
                /\ Added(q, n) \/ Removed(q, n) \/ Rewritten(q, n)
<1>1. CASE StartServer
  <2>1. \A p \in Procs : frame'[p] = Idle
    BY <1>1 DEF StartServer, TypeOK
  <2>2. users[n] = None
    BY <1>1 DEF StartServer, Seeded, NoUsers
  <2>. QED BY <2>1, <2>2
<1>2. ~StartServer => \E q \in Procs : Serve(q)
  BY DEF Next, vars, StopServer, Tick
<1>. QED BY <1>1, <1>2, Writes

(* The locals of a request, and what it may do in this instance.           *)
LocalsInv ==
    \A p \in Procs :
        /\ At(p, "idle") => frame[p].caller = None
        /\ At(p, "login") => "login" \in Ops[p]
        /\ At(p, "write") => frame[p].op \in Ops[p]
        /\ ~At(p, "reply") => frame[p].status = None

(***************************************************************************)
(* What every step does to the frame of the request p: it stays, it is     *)
(* dropped when the server stops, or p is the one that moves.              *)
(***************************************************************************)
LEMMA FrameMoves ==
    ASSUME TypeOK, LocalsInv, [Next]_vars, NEW p \in Procs
    PROVE  \/ frame'[p] = frame[p]
           \/ frame'[p] = Idle /\ ~up' /\ users' = users
           \/ Serve(p) /\ Moved(p, frame'[p])
<1>1. frame \in [Procs -> Frame]
  BY DEF TypeOK
<1>2. ASSUME NEW q \in Procs, Serve(q)
      PROVE  frame'[p] = frame[p] \/ (Serve(p) /\ Moved(p, frame'[p]))
  <2>1. PICK g : Goto(q, g) /\ Moved(q, g)
    BY <1>2, ServeMoved DEF LocalsInv, At
  <2>. QED BY <1>1, <1>2, <2>1 DEF Goto
<1>3. CASE StopServer
  BY <1>3 DEF StopServer
<1>. QED BY <1>2, <1>3 DEF Next, vars, StartServer, Tick

LEMMA LocalsInit == Init => LocalsInv
  BY DEF Init, LocalsInv, At, Idle

LEMMA LocalsStep ==
    ASSUME TypeOK, LocalsInv, [Next]_vars
    PROVE  LocalsInv'
<1> SUFFICES ASSUME NEW p \in Procs
             PROVE  /\ At(p, "idle")' => frame'[p].caller = None
                    /\ At(p, "login")' => "login" \in Ops[p]
                    /\ At(p, "write")' => frame'[p].op \in Ops[p]
                    /\ ~At(p, "reply")' => frame'[p].status = None
  BY DEF LocalsInv
<1>1. CASE frame'[p] = frame[p]
  BY <1>1 DEF LocalsInv, At
<1>2. CASE frame'[p] = Idle
  BY <1>2 DEF Idle, At
<1>3. CASE Moved(p, frame'[p])
  BY <1>3 DEF Moved, Fetched, At
<1>. QED BY <1>1, <1>2, <1>3, FrameMoves

\* The locals are as they should be in every reachable state.
LEMMA LocalsHold == Spec => [](TypeOK /\ LocalsInv)
BY LocalsInit, LocalsStep, UsersTypes, PTL DEF Spec

(***************************************************************************)
(* Tokens.  Every token carries a role that its user has, or lost so       *)
(* recently that the token ends within TTL of the loss: for this no        *)
(* account may go between the check of a login and its token.              *)
(***************************************************************************)
LoginsApart ==
    \A p, q \in Procs :
        ("login" \in Ops[p] /\ "delete" \in Ops[q]) => p = q

HasRole(n, r) == users[n] # None /\ users[n].role = r

Backed(t) ==
    /\ t.expiry <= now + TTL
    /\ \/ HasRole(t.name, t.role)
       \/ /\ lost[t.name][t.role] # None
          /\ t.expiry <= lost[t.name][t.role] + TTL

TokensInv ==
    /\ \A t \in tokens : Backed(t)
    /\ \A p \in Procs :
        At(p, "login") => HasRole(frame[p].name, frame[p].row.role)

\* A role is kept, or a delete notes its loss.
LEMMA RoleKept ==
    ASSUME TypeOK, [Next]_vars, NEW n \in Names, NEW r \in Roles, HasRole(n, r)
    PROVE  \/ HasRole(n, r)'
           \/ \E q \in Procs :
                /\ "delete" \in Ops[q] /\ frame'[q].pc = "reply"
                /\ lost'[n][r] = now
<1>1. CASE users'[n] = users[n]
  BY <1>1 DEF HasRole
<1>2. CASE users'[n] # users[n]
  <2>1. PICK q \in Procs :
          /\ frame'[q].pc = "reply"
          /\ Added(q, n) \/ Removed(q, n) \/ Rewritten(q, n)
    BY <1>2, Changes DEF HasRole
  <2>2. CASE Removed(q, n)
    <3>1. lost \in [Names -> [Roles -> Nat \cup {None}]]
      BY DEF TypeOK
    <3>2. lost'[n][r] = now
      BY <2>2, <3>1 DEF Removed, HasRole
    <3>. QED BY <2>1, <2>2, <3>2 DEF Removed
  <2>3. CASE Rewritten(q, n)
    BY <2>3, NoneAssumption DEF Rewritten, HasRole
  <2>4. ~Added(q, n)
    BY DEF Added, HasRole
  <2>. QED BY <2>1, <2>2, <2>3, <2>4
<1>. QED BY <1>1, <1>2

\* The clock does not go back, and a note of a loss is only made later.
LEMMA LossesGrow ==
    ASSUME TypeOK, [Next]_vars, NEW n \in Names, NEW r \in Roles
    PROVE  /\ now' >= now /\ now' \in Nat
           /\ lost'[n][r] = lost[n][r] \/ lost'[n][r] = now
<1>1. now \in Nat /\ (now' = now \/ now' = now + 1)
  BY DEF TypeOK, Next, vars, StartServer, StopServer, Tick, Serve, Refuse,
         Login, IssueToken, CreateUser, DeleteUser, CountAdmins, RemoveUser,
         ChangePassword, ResetPassword, SetPasswordHash, StatementFails,
         Respond, UnchangedButFrame
<1>2. lost' = lost \/ \E q \in Procs : RemoveUser(q)
  BY DEF Next, vars, StartServer, StopServer, Tick, Serve, Refuse, Login,
         IssueToken, CreateUser, DeleteUser, CountAdmins, ChangePassword,
         ResetPassword, SetPasswordHash, StatementFails, Respond,
         UnchangedButFrame
<1>3. lost \in [Names -> [Roles -> Nat \cup {None}]]
  BY DEF TypeOK
<1>4. ASSUME NEW q \in Procs, RemoveUser(q)
      PROVE  lost'[n][r] = lost[n][r] \/ lost'[n][r] = now
  <2>1. \/ lost' = lost
        \/ \E m, x : lost' = [lost EXCEPT ![m][x] = now]
    BY <1>4 DEF RemoveUser
  <2>. QED BY <1>3, <2>1
<1>. QED BY <1>1, <1>2, <1>4

LEMMA BackedKept ==
    ASSUME TypeOK, [Next]_vars, NEW t \in Token, Backed(t)
    PROVE  Backed(t)'
<1>1. t.name \in Names /\ t.role \in Roles /\ t.expiry \in Nat
  BY DEF Token
<1>2. now \in Nat /\ TTL \in Nat
  BY BoundsAssumption DEF TypeOK
<1>3. /\ now' >= now /\ now' \in Nat
      /\ \/ lost'[t.name][t.role] = lost[t.name][t.role]
         \/ lost'[t.name][t.role] = now
  BY <1>1, LossesGrow
<1>4. t.expiry <= now' + TTL
  BY <1>1, <1>2, <1>3 DEF Backed
<1>5. now # None
  BY <1>2, NoneAssumption
<1>6. \/ HasRole(t.name, t.role)'
      \/ /\ lost'[t.name][t.role] # None
         /\ t.expiry <= lost'[t.name][t.role] + TTL
  <2>1. CASE lost'[t.name][t.role] = now
    BY <1>5, <2>1 DEF Backed
  <2>2. CASE HasRole(t.name, t.role) /\ lost'[t.name][t.role] # now
    BY <1>1, <2>2, RoleKept
  <2>3. CASE ~HasRole(t.name, t.role) /\ lost'[t.name][t.role] # now
    BY <1>3, <2>3 DEF Backed
  <2>. QED BY <2>1, <2>2, <2>3
<1>. QED BY <1>4, <1>6 DEF Backed

\* A token that a step issues is backed by the account that login found.
LEMMA IssuedBacked ==
    ASSUME TypeOK, LocalsInv, TokensInv, NEW p \in Procs, IssueToken(p)
    PROVE  \A t \in tokens' \ tokens : Backed(t)'
<1>1. HasRole(frame[p].name, frame[p].row.role)
  BY DEF TokensInv, IssueToken
<1>2. users' = users /\ now' = now /\ lost' = lost
  BY DEF IssueToken
<1>3. now \in Nat /\ TTL \in Nat
  BY BoundsAssumption DEF TypeOK
<1> TAKE t \in tokens' \ tokens
<1>4. /\ t.name = frame[p].name /\ t.role = frame[p].row.role
      /\ t.expiry = now + TTL
  BY DEF IssueToken
<1>. QED BY <1>1, <1>2, <1>3, <1>4 DEF Backed, HasRole

LEMMA TokensStep ==
    ASSUME LoginsApart, TypeOK, LocalsInv, TokensInv, [Next]_vars
    PROVE  TokensInv'
<1>1. ASSUME NEW t \in tokens' PROVE Backed(t)'
  <2>1. CASE t \in tokens
    BY <2>1, BackedKept DEF TokensInv, TypeOK
  <2>2. CASE t \notin tokens
    <3>1. \E p \in Procs : IssueToken(p)
      BY <2>2 DEF Next, vars, StartServer, StopServer, Tick, Serve, Refuse,
           Login, CreateUser, DeleteUser, CountAdmins, RemoveUser,
           ChangePassword, ResetPassword, SetPasswordHash, StatementFails,
           Respond, UnchangedButFrame
    <3>. QED BY <2>2, <3>1, IssuedBacked
  <2>. QED BY <2>1, <2>2
<1>2. ASSUME NEW p \in Procs, frame'[p].pc = "login"
      PROVE  users'[frame'[p].name] # None
             /\ users'[frame'[p].name].role = frame'[p].row.role
  <2>1. CASE frame'[p] = frame[p]
    <3>1. /\ frame[p].name \in Names /\ frame[p].row.role \in Roles
          /\ "login" \in Ops[p]
          /\ HasRole(frame[p].name, frame[p].row.role)
      BY <1>2, <2>1 DEF TypeOK, LocalsOK, LocalsInv, TokensInv, At, Account
    <3>2. PICK n \in Names, r \in Roles :
            n = frame[p].name /\ r = frame[p].row.role
      BY <3>1
    <3>3. HasRole(n, r)'
      <4>1. ASSUME NEW q \in Procs, "delete" \in Ops[q], frame'[q].pc = "reply"
            PROVE  FALSE
        BY <1>2, <3>1, <4>1 DEF LoginsApart
      <4>. QED BY <3>1, <3>2, <4>1, RoleKept
    <3>. QED BY <2>1, <3>2, <3>3 DEF HasRole
  <2>2. CASE frame'[p] = Idle
    BY <1>2, <2>2 DEF Idle
  <2>3. CASE Moved(p, frame'[p])
    BY <1>2, <2>3 DEF Moved, Fetched
  <2>. QED BY <2>1, <2>2, <2>3, FrameMoves
<1>. QED BY <1>1, <1>2 DEF TokensInv, At, HasRole

LEMMA AdmittedHeld ==
    ASSUME TypeOK, LocalsInv, TokensInv, [Next]_vars, NEW p \in Procs,
           Admitted(p)
    PROVE  Held(frame'[p].caller)
<1>1. At(p, "idle") /\ frame'[p].caller # None /\ frame[p].caller = None
  BY DEF Admitted, LocalsInv
<1>2. Moved(p, frame'[p])
  BY <1>1, FrameMoves DEF Idle
<1>3. frame'[p].caller \in Callers
  BY <1>1, <1>2 DEF Moved
<1>4. PICK t \in tokens : /\ Authentic(t) /\ frame'[p].caller.name = t.name
                          /\ frame'[p].caller.role = t.role
  BY <1>3 DEF Callers
<1>5. Backed(t) /\ t \in Token
  BY DEF TokensInv, TypeOK
<1>6. /\ now \in Nat /\ t.expiry \in Nat /\ TTL \in Nat
      /\ lost[t.name][t.role] \in Nat \cup {None}
  BY <1>5, BoundsAssumption DEF TypeOK, Token
<1>. QED BY <1>4, <1>5, <1>6 DEF Backed, HasRole, Held, Authentic

\* When no login overlaps a delete, a request is served under a role only if
\* its user has it or lost it at most TTL seconds ago, however many accounts
\* come and go and however often the server restarts (validateToken;
\* README.md:317).
THEOREM RoleEndsWithTTL ==
    ASSUME LoginsApart
    PROVE  Spec => RoleOutlivedByTTL
<1>1. Init => TokensInv
  BY IdleProper DEF Init, TokensInv, At
<1>2. TypeOK /\ LocalsInv /\ TokensInv /\ [Next]_vars => TokensInv'
  BY TokensStep
<1>3. TypeOK /\ LocalsInv /\ TokensInv /\ [Next]_vars =>
        [\A p \in Procs : Admitted(p) => Held(frame'[p].caller)]_vars
  BY AdmittedHeld
<1>. QED BY <1>1, <1>2, <1>3, LocalsHold, PTL DEF Spec, RoleOutlivedByTTL

=============================================================================
