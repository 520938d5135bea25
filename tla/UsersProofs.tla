----------------------------- MODULE UsersProofs -----------------------------
(***************************************************************************)
(* Theorems about Users, for any users, requests, clock and restarts.      *)
(***************************************************************************)
EXTENDS Users, FiniteSetTheorems, TLAPS

(***************************************************************************)
(* The type invariant.                                                     *)
(***************************************************************************)
FramesOK ==
    /\ frame \in [Procs -> Frame]
    /\ \A p \in Procs :
        /\ LocalsOK(frame[p]) /\ (~up => frame[p] = Idle)
        /\ frame[p].pc \in {"count", "remove"} => "delete" \in Ops[p]

TablesOK ==
    /\ users \in Users
    /\ up \in BOOLEAN /\ starts \in Nat /\ now \in Nat
    /\ tokens \in SUBSET Token
    /\ lost \in [Names -> [Roles -> Nat \cup {None}]]

(* A frame that a request p may be given while the server is up.           *)
Proper(p, f) ==
    /\ f \in Frame /\ LocalsOK(f)
    /\ f.pc \in {"count", "remove"} => "delete" \in Ops[p]

LEMMA TypeParts == TypeOK <=> TablesOK /\ FramesOK
  BY DEF TypeOK, TablesOK, FramesOK

\* A step of one request keeps the frames as they should be if the frame it
\* ends in is: the others do not move.
LEMMA FrameStep ==
    ASSUME TypeOK, NEW p \in Procs, NEW f, Proper(p, f), Goto(p, f),
           up, up' = up
    PROVE  FramesOK'
<1>1. frame' \in [Procs -> Frame]
  BY DEF TypeOK, Goto, Proper
<1>2. ASSUME NEW q \in Procs
      PROVE  /\ LocalsOK(frame'[q])
             /\ frame'[q].pc \in {"count", "remove"} => "delete" \in Ops[q]
  <2>1. frame'[q] = IF q = p THEN f ELSE frame[q]
    BY DEF TypeOK, Goto
  <2>2. LocalsOK(frame[q]) /\ (frame[q].pc \in {"count", "remove"} => "delete" \in Ops[q])
    BY DEF TypeOK
  <2>. QED BY <2>1, <2>2 DEF Proper
<1>3. \A q \in Procs : LocalsOK(frame[q])'
  BY <1>2 DEF LocalsOK
<1>. QED BY <1>1, <1>2, <1>3 DEF FramesOK

LEMMA IdleProper == Idle \in Frame /\ LocalsOK(Idle) /\ Idle.pc = "idle"
  BY NoneAssumption DEF Idle, Frame, LocalsOK, Labels, Statuses

\* The frame that an answer ends in.
LEMMA AnswerProper ==
    ASSUME NEW p, NEW f \in Frame, NEW s \in Statuses
    PROVE  Proper(p, [Idle EXCEPT !.pc = "reply", !.op = f.op,
                                  !.caller = f.caller, !.status = s])
<1>1. f.op \in AllOps \cup {None} /\ f.caller \in Caller \cup {None}
  BY DEF Frame
<1>. QED BY <1>1 DEF Proper, Idle, Frame, LocalsOK, Labels

LEMMA AnswerStep ==
    ASSUME TypeOK, NEW p \in Procs, NEW f \in Frame, NEW s \in Statuses,
           Answer(p, f, s), up, up' = up
    PROVE  FramesOK'
BY AnswerProper, FrameStep DEF Answer

LEMMA CallFrame ==
    ASSUME NEW op \in AllOps, NEW c \in Caller, NEW n \in Names
    PROVE  /\ Call(op, c, n) \in Frame
           /\ Call(op, c, n).op = op /\ Call(op, c, n).caller = c
           /\ Call(op, c, n).name = n
<1>1. "idle" \in Labels
  BY DEF Labels
<1>. QED BY <1>1 DEF Call, Idle, Frame

LEMMA CallersType ==
    ASSUME TypeOK
    PROVE  Callers \subseteq Caller /\ AdminCallers \subseteq Caller
BY DEF TypeOK, Callers, AdminCallers, Token, Caller

LEMMA TypesInit == Init => TypeOK
<1> SUFFICES ASSUME Init PROVE TypeOK
  OBVIOUS
<1>1. TablesOK
  BY DatabaseAssumption DEF Init, TablesOK
<1>2. FramesOK
  BY IdleProper DEF Init, FramesOK
<1>. QED BY <1>1, <1>2, TypeParts

\* Every request that is served is served while the server is up.
LEMMA ServeUp ==
    ASSUME TypeOK, NEW p \in Procs, Serve(p)
    PROVE  up /\ up' = up
<1>1. ~up => frame[p].pc = "idle"
  BY IdleProper DEF TypeOK
<1>. QED
  BY <1>1 DEF Serve, Refuse, Login, IssueToken, CreateUser, DeleteUser,
              CountAdmins, RemoveUser, ChangePassword, ResetPassword,
              SetPasswordHash, StatementFails, Respond, Ready, At,
              UnchangedButFrame

LEMMA FrameType ==
    ASSUME TypeOK, NEW p \in Procs
    PROVE  frame[p] \in Frame /\ LocalsOK(frame[p])
BY DEF TypeOK

LEMMA RefuseFrames ==
    ASSUME TypeOK, NEW p \in Procs, Refuse(p)
    PROVE  FramesOK'
<1> DEFINE NoToken(op) == Answer(p, [Idle EXCEPT !.op = op], 401)
           WrongRole(op, c) ==
             Answer(p, [Idle EXCEPT !.op = op, !.caller = c], 403)
<1>1. PICK op \in AllOps :
        NoToken(op) \/ \E c \in Callers \ AdminCallers : WrongRole(op, c)
  <2> HIDE DEF NoToken, WrongRole
  <2>1. \E op \in AllOps \ {"login"} :
          /\ Ready(p, op)
          /\ \/ NoToken(op)
             \/ /\ op # "change"
                /\ \E c \in Callers \ AdminCallers : WrongRole(op, c)
    BY DEF Refuse, NoToken, WrongRole
  <2>. QED BY <2>1
<1>2. up /\ up' = up
  BY ServeUp DEF Serve
<1>3. CASE NoToken(op)
  <2> DEFINE f == [Idle EXCEPT !.op = op]
  <2>1. f \in Frame
    BY IdleProper DEF Frame, Idle
  <2>2. 401 \in Statuses
    BY DEF Statuses
  <2> HIDE DEF f
  <2>3. Answer(p, f, 401)
    BY <1>3 DEF f
  <2>. QED BY <1>2, <2>1, <2>2, <2>3, AnswerStep
<1>4. ASSUME NEW c \in Callers \ AdminCallers, WrongRole(op, c)
      PROVE  FramesOK'
  <2> DEFINE f == [Idle EXCEPT !.op = op, !.caller = c]
  <2>1. f \in Frame
    BY IdleProper, CallersType DEF Frame, Idle
  <2>2. 403 \in Statuses
    BY DEF Statuses
  <2> HIDE DEF f
  <2>3. Answer(p, f, 403)
    BY <1>4 DEF f
  <2>. QED BY <1>2, <2>1, <2>2, <2>3, AnswerStep
<1> HIDE DEF NoToken, WrongRole
<1>. QED BY <1>1, <1>3, <1>4

LEMMA LoginFrames ==
    ASSUME TypeOK, NEW p \in Procs, Login(p)
    PROVE  FramesOK'
<1>1. PICK n \in Names, w \in Passwords :
        LET f == [Idle EXCEPT !.op = "login", !.name = n] IN
        IF users[n] = None
        THEN Answer(p, f, 401)
        ELSE Goto(p, [f EXCEPT !.pc = "login", !.row = users[n], !.given = w])
  BY DEF Login
<1> DEFINE f == [Idle EXCEPT !.op = "login", !.name = n]
           g == [f EXCEPT !.pc = "login", !.row = users[n], !.given = w]
<1>2. f \in Frame
  BY IdleProper DEF Frame, Idle, AllOps
<1>3. users[n] # None => Proper(p, g)
  <2> SUFFICES ASSUME users[n] # None PROVE Proper(p, g)
    OBVIOUS
  <2>1. users[n] \in Account
    BY DEF TypeOK, Users
  <2>2. g \in Frame
    BY <2>1, <1>2 DEF Frame, Labels
  <2>3. /\ g.pc = "login" /\ g.op = "login" /\ g.name = n
        /\ g.row = users[n] /\ g.given = w
    BY <1>2 DEF Frame, Idle
  <2> HIDE DEF g
  <2>. QED BY <2>1, <2>2, <2>3 DEF Proper, LocalsOK
<1>4. 401 \in Statuses /\ up /\ up' = up
  BY ServeUp DEF Serve, Statuses
<1>5. \/ Answer(p, f, 401)
      \/ users[n] # None /\ Goto(p, g)
  BY <1>1
<1> HIDE DEF f, g
<1>. QED BY <1>2, <1>3, <1>4, <1>5, AnswerStep, FrameStep

LEMMA IssueFrames ==
    ASSUME TypeOK, NEW p \in Procs, IssueToken(p)
    PROVE  FramesOK'
<1>1. Answer(p, frame[p], 401) \/ Answer(p, frame[p], 200)
  BY DEF IssueToken
<1>2. {401, 200} \subseteq Statuses /\ up /\ up' = up
  BY ServeUp DEF Serve, Statuses
<1>. QED BY <1>1, <1>2, FrameType, AnswerStep

LEMMA CreateFrames ==
    ASSUME TypeOK, NEW p \in Procs, CreateUser(p)
    PROVE  FramesOK'
<1>1. PICK c \in AdminCallers, n \in Names :
        \E s \in {400, 409, 201} : Answer(p, Call("create", c, n), s)
  BY DEF CreateUser
<1>2. {400, 409, 201} \subseteq Statuses /\ up /\ up' = up
  BY ServeUp DEF Serve, Statuses
<1>3. Call("create", c, n) \in Frame
  BY CallersType, CallFrame DEF AllOps
<1>. QED BY <1>1, <1>2, <1>3, AnswerStep

LEMMA DeleteFrames ==
    ASSUME TypeOK, NEW p \in Procs, DeleteUser(p)
    PROVE  FramesOK'
<1>1. PICK c \in AdminCallers, n \in Names :
        LET f == Call("delete", c, n) IN
        IF users[n] = None
        THEN Answer(p, f, 404)
        ELSE Goto(p, [f EXCEPT !.pc = IF users[n].role = "admin"
                                      THEN "count" ELSE "remove"])
  BY DEF DeleteUser
<1> DEFINE f == Call("delete", c, n)
           l == IF users[n].role = "admin" THEN "count" ELSE "remove"
           g == [f EXCEPT !.pc = l]
<1>2. f \in Frame /\ f.op = "delete" /\ f.caller = c /\ f.name = n
  BY CallersType, CallFrame DEF AllOps
<1>3. Answer(p, f, 404) \/ Goto(p, g)
  BY <1>1
<1>4. l \in {"count", "remove"} /\ l \in Labels
  BY DEF Labels
<1>5. c \in Caller /\ "delete" \in Ops[p] /\ 404 \in Statuses
  BY CallersType DEF DeleteUser, Ready, Statuses
<1> HIDE DEF f, l
<1>6. g \in Frame /\ g.pc = l /\ g.op = "delete" /\ g.caller = c /\ g.name = n
  BY <1>2, <1>4 DEF Frame
<1>7. Proper(p, g)
  <2> HIDE DEF g
  <2>. QED BY <1>4, <1>5, <1>6 DEF Proper, LocalsOK
<1>8. up /\ up' = up
  BY ServeUp DEF Serve
<1> HIDE DEF g
<1>. QED BY <1>2, <1>3, <1>5, <1>7, <1>8, AnswerStep, FrameStep

LEMMA CountFrames ==
    ASSUME TypeOK, NEW p \in Procs, CountAdmins(p)
    PROVE  FramesOK'
<1> DEFINE f == frame[p]
           g == [f EXCEPT !.pc = "remove"]
<1>1. f \in Frame /\ LocalsOK(f) /\ f.pc = "count" /\ "delete" \in Ops[p]
  BY DEF TypeOK, CountAdmins, At
<1>2. Answer(p, f, 409) \/ Goto(p, g)
  BY DEF CountAdmins
<1> HIDE DEF f
<1>3. g \in Frame /\ g.pc = "remove" /\ g.op = f.op
      /\ g.caller = f.caller /\ g.name = f.name
  BY <1>1 DEF Frame, Labels
<1>4. Proper(p, g)
  <2> HIDE DEF g
  <2>. QED BY <1>1, <1>3 DEF Proper, LocalsOK
<1>5. 409 \in Statuses /\ up /\ up' = up
  BY ServeUp DEF Serve, Statuses
<1> HIDE DEF g
<1>. QED BY <1>1, <1>2, <1>4, <1>5, AnswerStep, FrameStep

LEMMA PasswordProper ==
    ASSUME NEW p, NEW f \in Frame, f.op \in {"change", "reset"},
           f.name \in Names, f.caller \in Caller,
           f.op = "change" => f.name = f.caller.name,
           NEW w \in Passwords \cup {None}, NEW v \in Passwords, NEW row \in Account
    PROVE  Proper(p, [f EXCEPT !.pc = "write", !.given = w, !.new = v, !.row = row])
<1> DEFINE g == [f EXCEPT !.pc = "write", !.given = w, !.new = v, !.row = row]
<1>1. g \in Frame /\ g.pc = "write" /\ g.op = f.op /\ g.new = v
      /\ g.row = row /\ g.name = f.name /\ g.caller = f.caller
  BY DEF Frame, Labels
<1> HIDE DEF g
<1>2. Proper(p, g)
  BY <1>1 DEF Proper, LocalsOK
<1>. QED BY <1>2 DEF g

LEMMA ChangeFrames ==
    ASSUME TypeOK, NEW p \in Procs, ChangePassword(p)
    PROVE  FramesOK'
<1>1. PICK c \in Callers, w \in Passwords, v \in Passwords \cup {None} :
        Change(p, c, w, v)
  BY DEF ChangePassword
<1> DEFINE f(d) == Call("change", d, d.name)
           g(d, x, y) == [f(d) EXCEPT !.pc = "write", !.given = x, !.new = y,
                                      !.row = users[d.name]]
<1>0. \/ Answer(p, f(c), 500) \/ Answer(p, f(c), 401) \/ Answer(p, f(c), 400)
      \/ users[c.name] # None /\ v # None /\ Goto(p, g(c, w, v))
  BY <1>1 DEF Change
<1>2. c \in Caller /\ c.name \in Names
  BY CallersType DEF Caller
<1>3. f(c) \in Frame /\ f(c).op = "change" /\ f(c).caller = c
      /\ f(c).name = c.name
  BY <1>2, CallFrame DEF AllOps
<1>4. {500, 401, 400} \subseteq Statuses /\ up /\ up' = up
  BY ServeUp DEF Serve, Statuses
<1>5. users[c.name] # None => users[c.name] \in Account
  BY <1>2 DEF TypeOK, Users
<1>6. (users[c.name] # None /\ v # None) => Proper(p, g(c, w, v))
  <2> HIDE DEF f
  <2>. QED BY <1>2, <1>3, <1>5, PasswordProper
<1> HIDE DEF f, g
<1>. QED BY <1>0, <1>3, <1>4, <1>6, AnswerStep, FrameStep

LEMMA ResetFrames ==
    ASSUME TypeOK, NEW p \in Procs, ResetPassword(p)
    PROVE  FramesOK'
<1> DEFINE f(c, n) == Call("reset", c, n)
           g(c, n, v) == [f(c, n) EXCEPT !.pc = "write", !.new = v,
                                         !.row = users[n]]
<1>1. PICK c \in AdminCallers, n \in Names, v \in Passwords \cup {None} :
        \/ \E s \in {404, 400} : Answer(p, f(c, n), s)
        \/ users[n] # None /\ v # None /\ Goto(p, g(c, n, v))
  <2> HIDE DEF f, g
  <2>1. \E c \in AdminCallers, n \in Names, v \in Passwords \cup {None} :
          \/ users[n] = None /\ Answer(p, f(c, n), 404)
          \/ users[n] # None /\ v = None /\ Answer(p, f(c, n), 400)
          \/ users[n] # None /\ v # None /\ Goto(p, g(c, n, v))
    BY Zenon DEF ResetPassword, f, g
  <2>. QED BY <2>1
<1>2. c \in Caller
  BY CallersType
<1>3. f(c, n) \in Frame /\ f(c, n).op = "reset" /\ f(c, n).caller = c
      /\ f(c, n).name = n
  BY <1>2, CallFrame DEF AllOps
<1>4. {404, 400} \subseteq Statuses /\ up /\ up' = up
  BY ServeUp DEF Serve, Statuses
<1>5. users[n] # None => users[n] \in Account
  BY DEF TypeOK, Users
<1>6. (users[n] # None /\ v # None) => Proper(p, g(c, n, v))
  <2> SUFFICES ASSUME users[n] # None, v # None
               PROVE  Proper(p, g(c, n, v))
    OBVIOUS
  <2> HIDE DEF f
  <2>1. v \in Passwords /\ users[n] \in Account
    BY <1>5
  <2>2. g(c, n, v) \in Frame
    BY <1>3, <2>1 DEF Frame, Labels
  <2>3. /\ g(c, n, v).pc = "write" /\ g(c, n, v).op = "reset"
        /\ g(c, n, v).new = v /\ g(c, n, v).row = users[n]
        /\ g(c, n, v).name = n /\ g(c, n, v).caller = c
    BY <1>3 DEF Frame
  <2> HIDE DEF g
  <2>. QED BY <1>2, <2>1, <2>2, <2>3 DEF Proper, LocalsOK
<1> HIDE DEF f, g
<1>. QED BY <1>1, <1>3, <1>4, <1>6, AnswerStep, FrameStep

LEMMA SetFrames ==
    ASSUME TypeOK, NEW p \in Procs, SetPasswordHash(p) \/ RemoveUser(p)
    PROVE  FramesOK'
<1>1. \E s \in {204, 404} : Answer(p, frame[p], s)
  BY DEF SetPasswordHash, RemoveUser
<1>2. {204, 404} \subseteq Statuses /\ up /\ up' = up
  BY ServeUp DEF Serve, Statuses
<1>. QED BY <1>1, <1>2, FrameType, AnswerStep

LEMMA FailFrames ==
    ASSUME TypeOK, NEW p \in Procs, StatementFails(p)
    PROVE  FramesOK'
<1> DEFINE f(op) == [Idle EXCEPT !.op = op]
           g(op, c) == [Idle EXCEPT !.op = op, !.caller = c]
<1>1. \/ Answer(p, frame[p], 500)
      \/ Answer(p, f("login"), 500)
      \/ \E op \in AllOps, c \in AdminCallers : Answer(p, g(op, c), 500)
      \/ \E c \in Callers : Answer(p, g("change", c), 500)
  BY DEF StatementFails
<1>2. {"login", "change"} \subseteq AllOps /\ frame[p] \in Frame
  BY FrameType DEF AllOps
<1>3. f("login") \in Frame
  BY <1>2, IdleProper DEF Frame, Idle
<1>4. ASSUME NEW op \in AllOps, NEW c \in Caller PROVE g(op, c) \in Frame
  BY IdleProper DEF Frame, Idle
<1>5. 500 \in Statuses /\ up /\ up' = up
  BY ServeUp DEF Serve, Statuses
<1> HIDE DEF f, g
<1>6. \E h \in Frame : Answer(p, h, 500)
  BY <1>1, <1>2, <1>3, <1>4, CallersType
<1>. QED BY <1>5, <1>6, AnswerStep

LEMMA ServeFrames ==
    ASSUME TypeOK, NEW p \in Procs, Serve(p)
    PROVE  FramesOK'
<1>1. CASE Respond(p)
  <2>1. Goto(p, Idle) /\ up /\ up' = up
    BY <1>1, ServeUp DEF Respond, Serve
  <2>2. Proper(p, Idle)
    BY IdleProper DEF Proper
  <2>3. Idle \in Frame
    BY IdleProper
  <2>. QED BY <2>1, <2>2, <2>3, FrameStep
<1>. QED
  BY <1>1, RefuseFrames, LoginFrames, IssueFrames, CreateFrames, DeleteFrames,
     CountFrames, ChangeFrames, ResetFrames, SetFrames, FailFrames DEF Serve

\* The row that a write makes of an account.
LEMMA WriteTypes ==
    ASSUME TypeOK, NEW n \in Names, NEW a \in Account \cup {None},
           users' = [users EXCEPT ![n] = a]
    PROVE  users' \in Users
BY DEF TypeOK, Users

LEMMA IssueTypes ==
    ASSUME TypeOK, NEW p \in Procs, IssueToken(p)
    PROVE  tokens' \subseteq Token
<1> DEFINE f == frame[p]
           t == [name |-> f.name, role |-> f.row.role,
                 expiry |-> now + TTL, secret |-> starts]
<1>1. f.name \in Names /\ f.row \in Account
  BY DEF TypeOK, LocalsOK, IssueToken, At
<1>2. f.row.role \in Roles /\ now + TTL \in Nat /\ starts \in Nat
  BY <1>1, BoundsAssumption DEF TypeOK, Account
<1>3. tokens' = tokens \/ tokens' = tokens \cup {t}
  BY DEF IssueToken
<1> HIDE DEF f
<1>4. t \in Token
  BY <1>1, <1>2 DEF Token
<1> HIDE DEF t
<1>. QED BY <1>3, <1>4 DEF TypeOK

LEMMA SetTypes ==
    ASSUME TypeOK, NEW p \in Procs, SetPasswordHash(p)
    PROVE  users' \in Users
<1> DEFINE n == frame[p].name
           a == [users[n] EXCEPT !.password = frame[p].new]
<1>1. n \in Names /\ frame[p].new \in Passwords
  BY DEF TypeOK, LocalsOK, SetPasswordHash, At
<1>2. users[n] # None => a \in Account
  BY <1>1 DEF TypeOK, Users, Account
<1>3. \/ users' = users
      \/ users[n] # None /\ users' = [users EXCEPT ![n] = a]
  BY DEF SetPasswordHash
<1> HIDE DEF a, n
<1>. QED BY <1>1, <1>2, <1>3, WriteTypes DEF TypeOK

LEMMA CreateTypes ==
    ASSUME TypeOK, NEW p \in Procs, CreateUser(p)
    PROVE  users' \in Users
<1>1. \/ users' = users
      \/ \E n \in Names, r \in Roles : \E w \in Passwords :
            users' = [users EXCEPT ![n] = [password |-> w, role |-> r]]
  BY DEF CreateUser
<1>2. ASSUME NEW n \in Names, NEW r \in Roles, NEW w \in Passwords,
             users' = [users EXCEPT ![n] = [password |-> w, role |-> r]]
      PROVE  users' \in Users
  <2>1. [password |-> w, role |-> r] \in Account
    BY DEF Account
  <2>. QED BY <1>2, <2>1, WriteTypes
<1>. QED BY <1>1, <1>2 DEF TypeOK

LEMMA RemoveTypes ==
    ASSUME TypeOK, NEW p \in Procs, RemoveUser(p)
    PROVE  /\ users' \in Users
           /\ lost' \in [Names -> [Roles -> Nat \cup {None}]]
<1> DEFINE n == frame[p].name
<1>1. n \in Names
  BY DEF TypeOK, LocalsOK, RemoveUser, At
<1>2. \/ users' = users /\ lost' = lost
      \/ /\ users[n] # None
         /\ users' = [users EXCEPT ![n] = None]
         /\ lost' = [lost EXCEPT ![n][users[n].role] = now]
  BY DEF RemoveUser
<1> HIDE DEF n
<1>3. users[n] # None => users[n].role \in Roles
  BY <1>1 DEF TypeOK, Users, Account
<1>4. now \in Nat /\ lost \in [Names -> [Roles -> Nat \cup {None}]]
  BY DEF TypeOK
<1>5. lost' \in [Names -> [Roles -> Nat \cup {None}]]
  BY <1>1, <1>2, <1>3, <1>4
<1>6. users' \in Users
  BY <1>1, <1>2, WriteTypes DEF TypeOK
<1>. QED BY <1>5, <1>6

LEMMA ServeTypes ==
    ASSUME TypeOK, NEW p \in Procs, Serve(p)
    PROVE  TypeOK'
<1>1. starts' = starts /\ now' = now /\ up' = up
  BY DEF Serve, Refuse, Login, IssueToken, CreateUser, DeleteUser,
         CountAdmins, RemoveUser, ChangePassword, ResetPassword,
         SetPasswordHash, StatementFails, Respond, UnchangedButFrame
<1>2. users' \in Users
  <2>1. \/ users' = users \/ CreateUser(p) \/ RemoveUser(p)
        \/ SetPasswordHash(p)
    BY DEF Serve, Refuse, Login, IssueToken, DeleteUser, CountAdmins,
           ChangePassword, ResetPassword, StatementFails, Respond,
           UnchangedButFrame
  <2>. QED BY <2>1, CreateTypes, RemoveTypes, SetTypes DEF TypeOK
<1>3. tokens' \subseteq Token
  <2>1. tokens' = tokens \/ IssueToken(p)
    BY DEF Serve, Refuse, Login, CreateUser, DeleteUser, CountAdmins,
           RemoveUser, ChangePassword, ResetPassword, SetPasswordHash,
           StatementFails, Respond, UnchangedButFrame
  <2>. QED BY <2>1, IssueTypes DEF TypeOK
<1>4. lost' \in [Names -> [Roles -> Nat \cup {None}]]
  <2>1. lost' = lost \/ RemoveUser(p)
    BY DEF Serve, Refuse, Login, IssueToken, CreateUser, DeleteUser,
           CountAdmins, ChangePassword, ResetPassword, SetPasswordHash,
           StatementFails, Respond, UnchangedButFrame
  <2>. QED BY <2>1, RemoveTypes DEF TypeOK
<1>5. TablesOK'
  BY <1>1, <1>2, <1>3, <1>4 DEF TablesOK, TypeOK
<1>6. FramesOK'
  BY ServeFrames
<1>. QED BY <1>5, <1>6 DEF TypeOK, TablesOK, FramesOK

\* Seeding leaves a table with an admin, and a table with users as it is.
LEMMA SeededTable ==
    ASSUME NEW t \in Users, NEW c \in Credentials
    PROVE  /\ Seeded(t, c) \in Users
           /\ NoUsers(t) => AdminsOf(Seeded(t, c)) # {}
           /\ ~NoUsers(t) => Seeded(t, c) = t
<1> DEFINE a == [password |-> c.password, role |-> "admin"]
<1>1. c.name \in Names /\ c.password \in Passwords
  BY CredentialsAssumption
<1>2. a \in Account /\ a.role = "admin"
  BY <1>1 DEF Account, Roles
<1>3. a # None
  BY <1>2, NoneAssumption
<1>4. Seeded(t, c) = IF NoUsers(t) THEN [t EXCEPT ![c.name] = a] ELSE t
  BY DEF Seeded
<1> HIDE DEF a
<1>5. [t EXCEPT ![c.name] = a] \in Users
  BY <1>1, <1>2 DEF Users
<1>6. c.name \in AdminsOf([t EXCEPT ![c.name] = a])
  BY <1>1, <1>2, <1>3 DEF AdminsOf, Users
<1>. QED BY <1>4, <1>5, <1>6

LEMMA NextTypes == TypeOK /\ [Next]_vars => TypeOK'
<1> SUFFICES ASSUME TypeOK, [Next]_vars
             PROVE  TypeOK'
  OBVIOUS
<1>1. CASE UNCHANGED vars
  BY <1>1 DEF vars, TypeOK, LocalsOK
<1>2. CASE StartServer
  <2>1. users' \in Users
    <3>1. PICK c \in Credentials \cup {None} :
            users' = IF c = None THEN users ELSE Seeded(users, c)
      BY <1>2 DEF StartServer
    <3>. QED BY <3>1, SeededTable DEF TypeOK
  <2>2. TablesOK'
    BY <1>2, <2>1 DEF StartServer, TypeOK, TablesOK
  <2>3. FramesOK'
    BY <1>2 DEF StartServer, TypeOK, FramesOK, LocalsOK
  <2>. QED BY <2>2, <2>3 DEF TypeOK, TablesOK, FramesOK
<1>3. CASE StopServer
  <2>1. TablesOK'
    BY <1>3 DEF StopServer, TypeOK, TablesOK
  <2>2. frame' = [p \in Procs |-> Idle]
    BY <1>3 DEF StopServer
  <2>3. frame' \in [Procs -> Frame] /\ \A p \in Procs : frame'[p] = Idle
    BY <2>2, IdleProper
  <2>4. \A p \in Procs : LocalsOK(frame[p])'
    BY <2>3, IdleProper DEF LocalsOK
  <2>5. \A p \in Procs : frame'[p].pc = "idle"
    BY <2>3, IdleProper
  <2>6. FramesOK'
    BY <2>3, <2>4, <2>5 DEF FramesOK
  <2>. QED BY <2>1, <2>6 DEF TypeOK, TablesOK, FramesOK
<1>4. CASE Tick
  <2>1. TablesOK'
    BY <1>4 DEF Tick, TypeOK, TablesOK
  <2>2. FramesOK'
    BY <1>4 DEF Tick, TypeOK, FramesOK, LocalsOK
  <2>. QED BY <2>1, <2>2 DEF TypeOK, TablesOK, FramesOK
<1>. QED BY <1>1, <1>2, <1>3, <1>4, ServeTypes DEF Next

\* The type invariant of Users: in every state of every instance, each handler
\* holds the row and the caller that its next statement needs.
THEOREM UsersTypes == Spec => []TypeOK
BY TypesInit, NextTypes, PTL DEF Spec

(***************************************************************************)
(* The last admin.  Nothing but deletes removes admins, so it is enough    *)
(* that deletes come one after the other; what a delete has learnt when it *)
(* is about to remove an account is that an admin other than that account  *)
(* is there, and the deletes are the only ones who could undo it.          *)
(***************************************************************************)
OneDeleteAtATime ==
    \A p, q \in Procs :
        ("delete" \in Ops[p] /\ "delete" \in Ops[q]) => p = q

AdminInv ==
    /\ NoUsers(users) \/ AdminsOf(users) # {}
    /\ AdminRemains
    /\ \A p \in Procs :
        At(p, "remove") => AdminsOf(users) \ {frame[p].name} # {}

\* A count above one means that there is an admin besides any given one.
LEMMA CountedTwo ==
    ASSUME ~(Cardinality(AdminsOf(users)) <= 1), NEW n
    PROVE  AdminsOf(users) \ {n} # {}
<1>1. SUFFICES ASSUME AdminsOf(users) \ {n} = {}
               PROVE  Cardinality(AdminsOf(users)) <= 1
  OBVIOUS
<1>2. AdminsOf(users) \subseteq {n}
  BY <1>1
<1>3. IsFiniteSet({n}) /\ Cardinality({n}) = 1
  BY FS_Singleton
<1>4. Cardinality(AdminsOf(users)) <= Cardinality({n})
  BY <1>2, <1>3, FS_Subset
<1>. QED BY <1>3, <1>4

\* A step that keeps every admin keeps what the deletes rely on.
LEMMA AdminsKept ==
    ASSUME TypeOK, AdminInv, AdminsOf(users) \subseteq AdminsOf(users'),
           users' = users \/ up, up' => up,
           \A p \in Procs :
             At(p, "remove")' => At(p, "remove") /\ frame'[p].name = frame[p].name
    PROVE  AdminInv'
<1>1. NoUsers(users') \/ AdminsOf(users') # {}
  BY DEF AdminInv, AdminRemains
<1>2. AdminRemains'
  BY DEF AdminInv, AdminRemains
<1>3. ASSUME NEW p \in Procs, At(p, "remove")'
      PROVE  AdminsOf(users') \ {frame'[p].name} # {}
  <2>1. At(p, "remove") /\ frame'[p].name = frame[p].name
    BY <1>3
  <2>2. AdminsOf(users) \ {frame[p].name} # {}
    BY <2>1 DEF AdminInv
  <2>. QED BY <2>1, <2>2
<1>. QED BY <1>1, <1>2, <1>3 DEF AdminInv

\* The writes of creates and password changes keep every admin.
LEMMA WritesKeepAdmins ==
    ASSUME TypeOK, NEW p \in Procs, CreateUser(p) \/ SetPasswordHash(p)
    PROVE  AdminsOf(users) \subseteq AdminsOf(users')
<1>1. CASE CreateUser(p)
  <2>1. CASE users' = users
    BY <2>1
  <2>2. ASSUME NEW n \in Names, NEW a \in Account, users[n] = None,
               users' = [users EXCEPT ![n] = a]
        PROVE  \A m \in Names : users[m] # None => users'[m] = users[m]
    BY <2>2 DEF TypeOK, Users
  <2>3. \/ users' = users
        \/ \E n \in Names, r \in Roles :
             /\ users[n] = None
             /\ \E w \in Passwords :
                  users' = [users EXCEPT ![n] = [password |-> w, role |-> r]]
    BY <1>1 DEF CreateUser
  <2>4. \A r \in Roles, w \in Passwords : [password |-> w, role |-> r] \in Account
    BY DEF Account
  <2>5. \A m \in Names : users[m] # None => users'[m] = users[m]
    BY <2>2, <2>3, <2>4
  <2>. QED BY <2>5 DEF AdminsOf
<1>2. CASE SetPasswordHash(p)
  <2> DEFINE n == frame[p].name
  <2>1. \/ users' = users
        \/ users[n] # None /\ users' = [users EXCEPT ![n].password = frame[p].new]
    BY <1>2 DEF SetPasswordHash
  <2>2. n \in Names /\ frame[p].new \in Passwords
    BY <1>2 DEF TypeOK, LocalsOK, SetPasswordHash, At
  <2> HIDE DEF n
  <2>3. ASSUME NEW m \in Names, users[m] # None
        PROVE  users'[m] # None /\ users'[m].role = users[m].role
    <3>1. users[m] \in Account
      BY <2>3 DEF TypeOK, Users
    <3>2. users'[m] = users[m] \/ users'[m] = [users[m] EXCEPT !.password = frame[p].new]
      BY <2>1, <2>2 DEF TypeOK, Users
    <3>3. users'[m] \in Account /\ users'[m].role = users[m].role
      BY <2>2, <3>1, <3>2 DEF Account
    <3>. QED BY <3>3, NoneAssumption
  <2>. QED BY <2>3 DEF AdminsOf
<1>. QED BY <1>1, <1>2

\* A statement that fails ends its request.
LEMMA FailAnswers ==
    ASSUME NEW p \in Procs, StatementFails(p)
    PROVE  \E g, s : Answer(p, g, s)
<1> DEFINE login == [Idle EXCEPT !.op = "login"]
           call(op, c) == [Idle EXCEPT !.op = op, !.caller = c]
           change(c) == [Idle EXCEPT !.op = "change", !.caller = c]
<1>. HIDE DEF login, call, change
<1>1. \/ Answer(p, frame[p], 500)
      \/ Answer(p, login, 500)
      \/ \E op \in AllOps, c \in AdminCallers : Answer(p, call(op, c), 500)
      \/ \E c \in Callers : Answer(p, change(c), 500)
  BY DEF StatementFails, login, call, change
<1>. QED BY <1>1

\* Where a request may be after a step of its own that is not a delete's.
LEMMA NotRemoving ==
    ASSUME TypeOK, NEW p \in Procs,
           \/ Refuse(p) \/ Login(p) \/ IssueToken(p) \/ CreateUser(p)
           \/ RemoveUser(p) \/ ChangePassword(p) \/ ResetPassword(p)
           \/ SetPasswordHash(p) \/ StatementFails(p) \/ Respond(p)
    PROVE  \A q \in Procs :
             At(q, "remove")' => q # p /\ frame'[q] = frame[q]
<1>1. frame \in [Procs -> Frame]
  BY DEF TypeOK
<1>2. ASSUME NEW g, Goto(p, g), g.pc # "remove"
      PROVE  \A q \in Procs :
                At(q, "remove")' => q # p /\ frame'[q] = frame[q]
  BY <1>1, <1>2 DEF Goto, At
<1>3. ASSUME NEW g, NEW s, Answer(p, g, s)
      PROVE  \E h : Goto(p, h) /\ h.pc # "remove"
  <2> DEFINE h == [Idle EXCEPT !.pc = "reply", !.op = g.op,
                               !.caller = g.caller, !.status = s]
  <2>1. Goto(p, h)
    BY <1>3 DEF Answer
  <2>2. h.pc = "reply"
    BY DEF Idle
  <2> HIDE DEF h
  <2>. QED BY <2>1, <2>2
<1>4. \E g : Goto(p, g) /\ g.pc # "remove"
  <2>1. CASE \E g, s : Answer(p, g, s)
    BY <2>1, <1>3
  <2>2. CASE Login(p)
    <3>1. PICK n \in Names, w \in Passwords :
            LET f == [Idle EXCEPT !.op = "login", !.name = n] IN
            IF users[n] = None
            THEN Answer(p, f, 401)
            ELSE Goto(p, [f EXCEPT !.pc = "login", !.row = users[n], !.given = w])
      BY <2>2 DEF Login
    <3> DEFINE f == [Idle EXCEPT !.op = "login", !.name = n]
               g == [f EXCEPT !.pc = "login", !.row = users[n], !.given = w]
    <3>2. Answer(p, f, 401) \/ Goto(p, g)
      BY <3>1
    <3>3. g.pc = "login"
      BY DEF Idle
    <3> HIDE DEF f, g
    <3>. QED BY <3>2, <3>3, <1>3
  <2>3. CASE ChangePassword(p)
    <3>1. PICK c \in Callers, w \in Passwords, v \in Passwords \cup {None} :
            Change(p, c, w, v)
      BY <2>3 DEF ChangePassword
    <3> DEFINE f == Call("change", c, c.name)
               g == [f EXCEPT !.pc = "write", !.given = w, !.new = v,
                              !.row = users[c.name]]
    <3>2. Answer(p, f, 500) \/ Answer(p, f, 401) \/ Answer(p, f, 400) \/ Goto(p, g)
      BY <3>1 DEF Change
    <3>3. g.pc = "write"
      BY DEF Call, Idle
    <3> HIDE DEF f, g
    <3>. QED BY <3>2, <3>3, <1>3
  <2>4. CASE ResetPassword(p)
    <3> DEFINE f(c, n) == Call("reset", c, n)
               g(c, n, v) == [f(c, n) EXCEPT !.pc = "write", !.new = v,
                                             !.row = users[n]]
    <3>1. \A c, n, v : g(c, n, v).pc = "write"
      BY DEF Call, Idle
    <3> HIDE DEF f, g
    <3>2. \E c, n, v : \/ Answer(p, f(c, n), 404) \/ Answer(p, f(c, n), 400)
                       \/ Goto(p, g(c, n, v))
      <4>1. \E c \in AdminCallers, n \in Names, v \in Passwords \cup {None} :
              \/ users[n] = None /\ Answer(p, f(c, n), 404)
              \/ users[n] # None /\ v = None /\ Answer(p, f(c, n), 400)
              \/ users[n] # None /\ v # None /\ Goto(p, g(c, n, v))
        BY <2>4, Zenon DEF ResetPassword, f, g
      <4>. QED BY <4>1
    <3>3. PICK c, n, v : \/ Answer(p, f(c, n), 404) \/ Answer(p, f(c, n), 400)
                         \/ Goto(p, g(c, n, v))
      BY <3>2
    <3>. QED BY <3>1, <3>3, <1>3
  <2>5. CASE Respond(p)
    BY <2>5, IdleProper DEF Respond
  <2>6. CASE Refuse(p)
    <3>1. \E g, s : Answer(p, g, s)
      BY <2>6, Zenon DEF Refuse
    <3>. QED BY <2>1, <3>1
  <2>7. CASE StatementFails(p)
    <3>1. \E g, s : Answer(p, g, s)
      BY <2>7, FailAnswers
    <3>. QED BY <2>1, <3>1
  <2>8. CASE CreateUser(p)
    <3>1. \E g, s : Answer(p, g, s)
      BY <2>8, Zenon DEF CreateUser
    <3>. QED BY <2>1, <3>1
  <2>9. CASE IssueToken(p) \/ RemoveUser(p) \/ SetPasswordHash(p)
    <3>1. \E g, s : Answer(p, g, s)
      BY <2>9 DEF IssueToken, RemoveUser, SetPasswordHash
    <3>. QED BY <2>1, <3>1
  <2>. QED BY <2>2, <2>3, <2>4, <2>5, <2>6, <2>7, <2>8, <2>9
<1>. QED BY <1>2, <1>4

\* A step of the deletes keeps what they rely on when no other is under way.
LEMMA DeletesKeepAdmin ==
    ASSUME TypeOK, AdminInv, OneDeleteAtATime, NEW p \in Procs,
           DeleteUser(p) \/ CountAdmins(p) \/ RemoveUser(p)
    PROVE  AdminInv'
<1>1. frame \in [Procs -> Frame] /\ p \in Procs
  BY DEF TypeOK
<1>2. up /\ up' = up
  BY ServeUp DEF Serve, DeleteUser, CountAdmins, RemoveUser, UnchangedButFrame
<1>3. AdminsOf(users) # {}
  BY <1>2 DEF AdminInv, AdminRemains
<1>4. ASSUME NEW g, Goto(p, g), users' = users,
             g.pc = "remove" => AdminsOf(users) \ {g.name} # {}
      PROVE  AdminInv'
  <2>1. ASSUME NEW q \in Procs, At(q, "remove")'
        PROVE  AdminsOf(users') \ {frame'[q].name} # {}
    <3>1. CASE q = p
      <4>1. frame'[q] = g
        BY <1>1, <1>4, <3>1 DEF Goto
      <4>. QED BY <1>4, <2>1, <4>1 DEF At
    <3>2. CASE q # p
      <4>1. frame'[q] = frame[q]
        BY <1>1, <1>4, <2>1, <3>2 DEF Goto
      <4>2. At(q, "remove")
        BY <2>1, <4>1 DEF At
      <4>. QED BY <1>4, <4>1, <4>2 DEF AdminInv
    <3>. QED BY <3>1, <3>2
  <2>2. AdminsOf(users') # {}
    BY <1>3, <1>4
  <2>. QED BY <2>1, <2>2 DEF AdminInv, AdminRemains
<1>5. ASSUME NEW g, NEW s, Answer(p, g, s)
      PROVE  \E h : Goto(p, h) /\ h.pc # "remove"
  <2> DEFINE h == [Idle EXCEPT !.pc = "reply", !.op = g.op,
                               !.caller = g.caller, !.status = s]
  <2>1. Goto(p, h)
    BY <1>5 DEF Answer
  <2>2. h.pc = "reply"
    BY DEF Idle
  <2> HIDE DEF h
  <2>. QED BY <2>1, <2>2
<1>6. CASE DeleteUser(p)
  <2> DEFINE f(c, n) == Call("delete", c, n)
             g(c, n) == [f(c, n) EXCEPT !.pc = IF users[n].role = "admin"
                                               THEN "count" ELSE "remove"]
  <2>1. \A c, n : /\ g(c, n).name = n
                  /\ g(c, n).pc = "remove" => users[n].role # "admin"
    BY DEF Call, Idle
  <2> HIDE DEF f, g
  <2>2. \E c, n : Answer(p, f(c, n), 404) \/ Goto(p, g(c, n))
    <3>1. \E c \in AdminCallers, n \in Names :
            IF users[n] = None THEN Answer(p, f(c, n), 404) ELSE Goto(p, g(c, n))
      BY <1>6, Zenon DEF DeleteUser, f, g
    <3>. QED BY <3>1
  <2>3. users' = users
    BY <1>6 DEF DeleteUser, UnchangedButFrame
  <2>4. PICK c, n : Answer(p, f(c, n), 404) \/ Goto(p, g(c, n))
    BY <2>2
  <2>5. CASE Answer(p, f(c, n), 404)
    BY <1>4, <1>5, <2>3, <2>5
  <2>6. CASE Goto(p, g(c, n))
    <3>1. g(c, n).pc = "remove" => AdminsOf(users) \ {g(c, n).name} # {}
      BY <1>3, <2>1 DEF AdminsOf
    <3>. QED BY <1>4, <2>3, <2>6, <3>1
  <2>. QED BY <2>4, <2>5, <2>6
<1>7. CASE CountAdmins(p)
  <2>1. users' = users
    BY <1>7 DEF CountAdmins, UnchangedButFrame
  <2>2. CASE Cardinality(AdminsOf(users)) <= 1
    <3>1. Answer(p, frame[p], 409)
      BY <1>7, <2>2 DEF CountAdmins
    <3>. QED BY <1>4, <1>5, <2>1, <3>1
  <2>3. CASE ~(Cardinality(AdminsOf(users)) <= 1)
    <3> DEFINE g == [frame[p] EXCEPT !.pc = "remove"]
    <3>1. Goto(p, g)
      BY <1>7, <2>3 DEF CountAdmins
    <3>2. AdminsOf(users) \ {g.name} # {}
      BY <2>3, CountedTwo
    <3>. QED BY <1>4, <2>1, <3>1, <3>2
  <2>. QED BY <2>2, <2>3
<1>8. CASE RemoveUser(p)
  <2> DEFINE n == frame[p].name
  <2>1. \E g, s : Answer(p, g, s)
    BY <1>8 DEF RemoveUser
  <2>2. PICK g : Goto(p, g) /\ g.pc # "remove"
    BY <1>5, <2>1
  <2>3. CASE users' = users
    BY <1>4, <2>2, <2>3
  <2>4. CASE users' = [users EXCEPT ![n] = None]
    <3>1. At(p, "remove") /\ "delete" \in Ops[p]
      BY <1>8 DEF RemoveUser, TypeOK, At
    <3>2. AdminsOf(users) \ {n} # {}
      BY <3>1 DEF AdminInv
    <3>3. AdminsOf(users) \ {n} \subseteq AdminsOf(users')
      BY <2>4 DEF AdminsOf, TypeOK, Users
    <3>4. AdminsOf(users') # {}
      BY <3>2, <3>3
    <3>5. ASSUME NEW q \in Procs PROVE ~At(q, "remove")'
      <4>1. CASE q = p
        BY <1>1, <2>2, <4>1 DEF Goto, At
      <4>2. CASE q # p
        <5>1. ~At(q, "remove")
          BY <3>1, <4>2 DEF OneDeleteAtATime, TypeOK, At
        <5>. QED BY <1>1, <2>2, <4>2, <5>1 DEF Goto, At
      <4>. QED BY <4>1, <4>2
    <3>. QED BY <3>4, <3>5 DEF AdminInv, AdminRemains
  <2>. QED BY <1>8, <2>3, <2>4 DEF RemoveUser
<1>. QED BY <1>6, <1>7, <1>8

LEMMA AdminInit == Init => AdminInv
  BY DatabaseAssumption, IdleProper DEF Init, AdminInv, AdminRemains, At

LEMMA AdminStep ==
    ASSUME OneDeleteAtATime, TypeOK, AdminInv, [Next]_vars
    PROVE  AdminInv'
<1>1. CASE UNCHANGED vars
  BY <1>1, AdminsKept DEF vars, At
<1>2. CASE StartServer
  <2>1. frame' = frame /\ ~up
    BY <1>2 DEF StartServer
  <2>2. AdminsOf(users') # {}
    <3>1. PICK c \in Credentials \cup {None} :
            /\ c = None => ~NoUsers(users)
            /\ users' = IF c = None THEN users ELSE Seeded(users, c)
      BY <1>2 DEF StartServer
    <3>2. CASE c = None \/ ~NoUsers(users)
      BY <3>1, <3>2 DEF AdminInv, Seeded
    <3>3. CASE c # None /\ NoUsers(users)
      <4>1. users' = [users EXCEPT ![c.name] = [password |-> c.password,
                                                role |-> "admin"]]
        BY <3>1, <3>3 DEF Seeded
      <4>2. c.name \in Names /\ c.password \in Passwords
        BY <3>3, CredentialsAssumption
      <4>3. users \in [Names -> Account \cup {None}]
        BY DEF TypeOK, Users
      <4>4. users'[c.name] = [password |-> c.password, role |-> "admin"]
        BY <4>1, <4>2, <4>3
      <4>5. users'[c.name] \in Account /\ users'[c.name].role = "admin"
        BY <4>2, <4>4 DEF Account, Roles
      <4>. QED BY <4>2, <4>5, NoneAssumption DEF AdminsOf
    <3>. QED BY <3>2, <3>3
  <2>3. ASSUME NEW q \in Procs PROVE ~At(q, "remove")'
    BY <2>1, IdleProper DEF TypeOK, At
  <2>. QED BY <2>2, <2>3 DEF AdminInv, AdminRemains
<1>3. CASE StopServer
  <2>1. ASSUME NEW q \in Procs PROVE ~At(q, "remove")'
    BY <1>3, IdleProper DEF StopServer, At
  <2>2. users' = users /\ ~up'
    BY <1>3 DEF StopServer
  <2>. QED BY <2>1, <2>2 DEF AdminInv, AdminRemains
<1>4. CASE Tick
  BY <1>4, AdminsKept DEF Tick, At
<1>5. ASSUME NEW p \in Procs, Serve(p) PROVE AdminInv'
  <2>1. CASE DeleteUser(p) \/ CountAdmins(p) \/ RemoveUser(p)
    BY <2>1, DeletesKeepAdmin
  <2>2. CASE \/ Refuse(p) \/ Login(p) \/ IssueToken(p) \/ CreateUser(p)
             \/ ChangePassword(p) \/ ResetPassword(p)
             \/ SetPasswordHash(p) \/ StatementFails(p) \/ Respond(p)
    <3>1. up /\ up' = up
      BY <1>5, ServeUp
    <3>2. \A q \in Procs : At(q, "remove")' => q # p /\ frame'[q] = frame[q]
      BY <2>2, NotRemoving
    <3>3. AdminsOf(users) \subseteq AdminsOf(users')
      <4>1. CASE CreateUser(p) \/ SetPasswordHash(p)
        BY <4>1, WritesKeepAdmins
      <4>2. CASE users' = users
        BY <4>2
      <4>. QED BY <2>2, <4>1, <4>2 DEF Refuse, Login, IssueToken,
                 ChangePassword, ResetPassword, StatementFails, Respond,
                 UnchangedButFrame
    <3>4. \A q \in Procs : At(q, "remove")' =>
             At(q, "remove") /\ frame'[q].name = frame[q].name
      BY <3>2 DEF At
    <3>. QED BY <3>1, <3>3, <3>4, AdminsKept
  <2>. QED BY <1>5, <2>1, <2>2 DEF Serve
<1>. QED BY <1>1, <1>2, <1>3, <1>4, <1>5 DEF Next

\* With deletes that come one after the other, the server never runs without
\* an admin, however many creates, logins, password changes and restarts come
\* between the statements of a delete (users.go:138-140).
THEOREM LastAdminRemains ==
    ASSUME OneDeleteAtATime
    PROVE  Spec => []AdminRemains
<1>1. Init => AdminInv
  BY AdminInit
<1>2. TypeOK /\ AdminInv /\ [Next]_vars => AdminInv'
  BY AdminStep
<1>3. AdminInv => AdminRemains
  BY DEF AdminInv
<1>. QED BY <1>1, <1>2, <1>3, UsersTypes, PTL DEF Spec

(***************************************************************************)
(* Authorization.  A handler that is about to write acts for an admin, or  *)
(* is a password change of the caller's own account.                       *)
(***************************************************************************)
Entitled(f) ==
    /\ f.pc \in {"count", "remove"} => f.caller.role = "admin"
    /\ (f.pc = "write" /\ f.op = "reset") => f.caller.role = "admin"
    /\ (f.pc = "write" /\ f.op = "change") => f.caller.name = f.name

EntitledInv == \A p \in Procs : Entitled(frame[p])

LEMMA EntitledFrames ==
    ASSUME TypeOK, EntitledInv, NEW p \in Procs, Serve(p)
    PROVE  \E g : Goto(p, g) /\ Entitled(g)
<1>1. frame \in [Procs -> Frame] /\ Entitled(frame[p])
  BY DEF TypeOK, EntitledInv
<1>2. ASSUME NEW g, NEW s, Answer(p, g, s)
      PROVE  \E h : Goto(p, h) /\ Entitled(h)
  <2> DEFINE h == [Idle EXCEPT !.pc = "reply", !.op = g.op,
                               !.caller = g.caller, !.status = s]
  <2>1. Goto(p, h)
    BY <1>2 DEF Answer
  <2>2. h.pc = "reply"
    BY DEF Idle
  <2> HIDE DEF h
  <2>. QED BY <2>1, <2>2 DEF Entitled
<1>3. CASE \E g, s : Answer(p, g, s)
  BY <1>2, <1>3
<1>4. CASE Login(p)
  <2> DEFINE f(n) == [Idle EXCEPT !.op = "login", !.name = n]
             g(n, w) == [f(n) EXCEPT !.pc = "login", !.row = users[n], !.given = w]
  <2>1. \A n, w : g(n, w).pc = "login"
    BY DEF Idle
  <2> HIDE DEF f, g
  <2>2. \E n, w : Answer(p, f(n), 401) \/ Goto(p, g(n, w))
    <3>1. \E n \in Names, w \in Passwords :
            IF users[n] = None THEN Answer(p, f(n), 401) ELSE Goto(p, g(n, w))
      BY <1>4, Zenon DEF Login, f, g
    <3>. QED BY <3>1
  <2>3. PICK n, w : Answer(p, f(n), 401) \/ Goto(p, g(n, w))
    BY <2>2
  <2>. QED BY <1>2, <2>1, <2>3 DEF Entitled
<1>5. CASE DeleteUser(p)
  <2> DEFINE f(c, n) == Call("delete", c, n)
             g(c, n) == [f(c, n) EXCEPT !.pc = IF users[n].role = "admin"
                                               THEN "count" ELSE "remove"]
  <2>1. \A c, n : g(c, n).caller = c /\ g(c, n).pc \in {"count", "remove"}
    BY DEF Call, Idle
  <2> HIDE DEF f, g
  <2>2. \E c, n : c \in AdminCallers /\ (Answer(p, f(c, n), 404) \/ Goto(p, g(c, n)))
    <3>1. \E c \in AdminCallers, n \in Names :
            IF users[n] = None THEN Answer(p, f(c, n), 404) ELSE Goto(p, g(c, n))
      BY <1>5, Zenon DEF DeleteUser, f, g
    <3>. QED BY <3>1
  <2>3. PICK c, n : c \in AdminCallers /\ (Answer(p, f(c, n), 404) \/ Goto(p, g(c, n)))
    BY <2>2
  <2>4. c.role = "admin"
    BY <2>3 DEF AdminCallers
  <2>5. Entitled(g(c, n))
    BY <2>1, <2>4 DEF Entitled
  <2>. QED BY <1>2, <2>3, <2>5
<1>6. CASE CountAdmins(p)
  <2> DEFINE g == [frame[p] EXCEPT !.pc = "remove"]
  <2>1. Answer(p, frame[p], 409) \/ Goto(p, g)
    BY <1>6 DEF CountAdmins
  <2>2. frame[p].pc = "count"
    BY <1>6 DEF CountAdmins, At
  <2>3. frame[p].caller.role = "admin"
    BY <1>1, <2>2 DEF Entitled
  <2>4. g.pc = "remove" /\ g.caller = frame[p].caller
    BY <1>1 DEF Frame
  <2> HIDE DEF g
  <2>5. Entitled(g)
    BY <2>3, <2>4 DEF Entitled
  <2>. QED BY <1>2, <2>1, <2>5
<1>7. CASE ChangePassword(p)
  <2>1. PICK c \in Callers, w \in Passwords, v \in Passwords \cup {None} :
          Change(p, c, w, v)
    BY <1>7 DEF ChangePassword
  <2> DEFINE f == Call("change", c, c.name)
             g == [f EXCEPT !.pc = "write", !.given = w, !.new = v,
                            !.row = users[c.name]]
  <2>2. Answer(p, f, 500) \/ Answer(p, f, 401) \/ Answer(p, f, 400) \/ Goto(p, g)
    BY <2>1 DEF Change
  <2>3. /\ g.pc = "write" /\ g.op = "change"
        /\ g.caller = c /\ g.name = c.name
    BY DEF Call, Idle
  <2> HIDE DEF f, g
  <2>4. Entitled(g)
    BY <2>3 DEF Entitled
  <2>. QED BY <1>2, <2>2, <2>4
<1>8. CASE ResetPassword(p)
  <2> DEFINE f(c, n) == Call("reset", c, n)
             g(c, n, v) == [f(c, n) EXCEPT !.pc = "write", !.new = v,
                                           !.row = users[n]]
  <2>1. \A c, n, v : /\ g(c, n, v).pc = "write" /\ g(c, n, v).op = "reset"
                     /\ g(c, n, v).caller = c
    BY DEF Call, Idle
  <2> HIDE DEF f, g
  <2>2. \E c, n, v : /\ c \in AdminCallers
                     /\ \/ Answer(p, f(c, n), 404) \/ Answer(p, f(c, n), 400)
                        \/ Goto(p, g(c, n, v))
    <3>1. \E c \in AdminCallers, n \in Names, v \in Passwords \cup {None} :
            \/ users[n] = None /\ Answer(p, f(c, n), 404)
            \/ users[n] # None /\ v = None /\ Answer(p, f(c, n), 400)
            \/ users[n] # None /\ v # None /\ Goto(p, g(c, n, v))
      BY <1>8, Zenon DEF ResetPassword, f, g
    <3>. QED BY <3>1
  <2>3. PICK c, n, v : /\ c \in AdminCallers
                       /\ \/ Answer(p, f(c, n), 404) \/ Answer(p, f(c, n), 400)
                          \/ Goto(p, g(c, n, v))
    BY <2>2
  <2>4. c.role = "admin"
    BY <2>3 DEF AdminCallers
  <2>5. Entitled(g(c, n, v))
    BY <2>1, <2>4 DEF Entitled
  <2>. QED BY <1>2, <2>3, <2>5
<1>9. CASE Respond(p)
  <2>1. Goto(p, Idle)
    BY <1>9 DEF Respond
  <2>2. Entitled(Idle)
    BY IdleProper DEF Entitled
  <2>. QED BY <2>1, <2>2
<1>10. CASE Refuse(p) \/ StatementFails(p) \/ CreateUser(p)
  <2>1. Refuse(p) => \E g, s : Answer(p, g, s)
    BY Zenon DEF Refuse
  <2>2. StatementFails(p) => \E g, s : Answer(p, g, s)
    BY FailAnswers
  <2>3. CreateUser(p) => \E g, s : Answer(p, g, s)
    BY Zenon DEF CreateUser
  <2>. QED BY <1>3, <1>10, <2>1, <2>2, <2>3
<1>11. CASE IssueToken(p) \/ RemoveUser(p) \/ SetPasswordHash(p)
  BY <1>3, <1>11 DEF IssueToken, RemoveUser, SetPasswordHash
<1>. QED BY <1>4, <1>5, <1>6, <1>7, <1>8, <1>9, <1>10, <1>11 DEF Serve

LEMMA EntitledStep ==
    ASSUME TypeOK, EntitledInv, [Next]_vars
    PROVE  EntitledInv'
<1>1. frame \in [Procs -> Frame]
  BY DEF TypeOK
<1>2. CASE frame' = frame
  BY <1>2 DEF EntitledInv
<1>3. CASE StopServer
  BY <1>3, IdleProper DEF StopServer, EntitledInv, Entitled
<1>4. ASSUME NEW p \in Procs, Serve(p) PROVE EntitledInv'
  <2>1. PICK g : Goto(p, g) /\ Entitled(g)
    BY <1>4, EntitledFrames
  <2>2. \A q \in Procs : frame'[q] = g \/ frame'[q] = frame[q]
    BY <1>1, <2>1 DEF Goto
  <2>. QED BY <2>1, <2>2 DEF EntitledInv
<1>. QED BY <1>2, <1>3, <1>4 DEF Next, vars, StartServer, Tick

(* What ChangesAuthorized asks of a step about the account n.              *)
ByRight(n) ==
    \/ NoUsers(users)
    \/ \E p \in Procs :
          /\ frame'[p] # frame[p] /\ frame'[p].caller # None
          /\ LET c == frame'[p].caller IN
             \/ c.role = "admin"
             \/ /\ c.name = n /\ users[n] # None /\ users'[n] # None
                /\ users'[n].role = users[n].role

LEMMA Answered ==
    ASSUME TypeOK, NEW p \in Procs, NEW f, NEW s, Answer(p, f, s),
           frame[p].pc # "reply"
    PROVE  frame'[p] # frame[p] /\ frame'[p].caller = f.caller
BY DEF TypeOK, Answer, Goto, Idle

LEMMA StepByRight ==
    ASSUME TypeOK, EntitledInv, [Next]_vars,
           NEW n \in Names, users'[n] # users[n]
    PROVE  ByRight(n)
<1>1. CASE StartServer
  BY <1>1 DEF StartServer, Seeded, ByRight
<1>2. ASSUME NEW p \in Procs, CreateUser(p) PROVE ByRight(n)
  <2>1. \E c \in AdminCallers, m \in Names : \E s :
          Answer(p, Call("create", c, m), s)
    BY <1>2, Zenon DEF CreateUser
  <2>2. PICK c, m, s : c \in AdminCallers /\ Answer(p, Call("create", c, m), s)
    BY <2>1
  <2>3. Call("create", c, m).caller = c
    BY DEF Call, Idle
  <2>4. c \in Caller /\ c.role = "admin"
    BY <2>2, CallersType DEF AdminCallers
  <2>5. frame[p].pc # "reply"
    BY <1>2 DEF CreateUser, Ready, At
  <2>. QED BY <2>2, <2>3, <2>4, <2>5, Answered, NoneAssumption DEF ByRight
<1>3. ASSUME NEW p \in Procs, RemoveUser(p) PROVE ByRight(n)
  <2>1. frame[p].pc = "remove"
    BY <1>3 DEF RemoveUser, At
  <2>2. \E s : Answer(p, frame[p], s)
    BY <1>3 DEF RemoveUser
  <2>3. frame[p].caller \in Caller /\ frame[p].caller.role = "admin"
    BY <2>1 DEF TypeOK, LocalsOK, EntitledInv, Entitled
  <2>. QED BY <2>1, <2>2, <2>3, Answered, NoneAssumption DEF ByRight
<1>4. ASSUME NEW p \in Procs, SetPasswordHash(p) PROVE ByRight(n)
  <2>1. frame[p].pc = "write"
    BY <1>4 DEF SetPasswordHash, At
  <2>2. Answer(p, frame[p], 204)
    BY <1>4 DEF SetPasswordHash
  <2>3. frame[p].caller \in Caller /\ frame[p].op \in {"change", "reset"}
    BY <2>1 DEF TypeOK, LocalsOK
  <2>4. frame'[p] # frame[p] /\ frame'[p].caller = frame[p].caller
    BY <2>1, <2>2, Answered
  <2>5. CASE frame[p].op = "reset"
    BY <2>1, <2>3, <2>4, <2>5, NoneAssumption DEF ByRight, EntitledInv, Entitled
  <2>6. CASE frame[p].op = "change"
    <3>1. frame[p].caller.name = frame[p].name
      BY <2>1, <2>6 DEF EntitledInv, Entitled
    <3>2. /\ users[frame[p].name] # None
          /\ users' = [users EXCEPT ![frame[p].name].password = frame[p].new]
      BY <1>4 DEF SetPasswordHash
    <3>3. users \in [Names -> Account \cup {None}] /\ frame[p].new \in Passwords
      BY <2>1 DEF TypeOK, Users, LocalsOK
    <3>4. n = frame[p].name /\ users[n] \in Account
      BY <3>2, <3>3
    <3>5. users'[n] = [users[n] EXCEPT !.password = frame[p].new]
      BY <3>2, <3>3, <3>4
    <3>6. users'[n] \in Account /\ users'[n].role = users[n].role
      BY <3>3, <3>4, <3>5 DEF Account
    <3>. QED BY <2>3, <2>4, <3>1, <3>2, <3>4, <3>6, NoneAssumption DEF ByRight
  <2>. QED BY <2>3, <2>5, <2>6
<1>5. users' # users
  OBVIOUS
<1>. QED BY <1>1, <1>2, <1>3, <1>4, <1>5
      DEF Next, vars, StopServer, Tick, Serve, Refuse, Login, IssueToken,
          DeleteUser, CountAdmins, ChangePassword, ResetPassword,
          StatementFails, Respond, UnchangedButFrame

\* Whatever requests, logins and restarts interleave, an account changes only
\* by the doing of an admin or, its password, of its own user.
THEOREM OnlyAuthorizedChanges == Spec => ChangesAuthorized
<1>1. Init => EntitledInv
  BY IdleProper DEF Init, EntitledInv, Entitled
<1>2. TypeOK /\ EntitledInv /\ [Next]_vars => EntitledInv'
  BY EntitledStep
<1>3. TypeOK /\ EntitledInv /\ [Next]_vars =>
        \A n \in Names : users'[n] # users[n] => ByRight(n)
  BY StepByRight
<1>4. TypeOK /\ EntitledInv /\ [Next]_vars =>
        [\A n \in Names : users'[n] # users[n] =>
            \/ NoUsers(users)
            \/ \E p \in Procs :
                  /\ frame'[p] # frame[p] /\ frame'[p].caller # None
                  /\ LET c == frame'[p].caller IN
                     \/ c.role = "admin"
                     \/ /\ c.name = n /\ users[n] # None /\ users'[n] # None
                        /\ users'[n].role = users[n].role]_vars
  BY <1>3, Zenon DEF ByRight
<1>. QED BY <1>1, <1>2, <1>4, UsersTypes, PTL DEF Spec, ChangesAuthorized

=============================================================================
