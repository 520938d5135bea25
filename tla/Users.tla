-------------------------------- MODULE Users --------------------------------
(***************************************************************************)
(* The users table and the tokens (users.go, auth.go, http_users.go): how  *)
(* the first admin comes to be, who may call what, and the handlers that   *)
(* change accounts.  A handler reads the table on the read pool and writes *)
(* it on the write pool, in statements that nothing holds together, and    *)
(* between reading and writing a password there is a bcrypt computation.   *)
(* Tokens are stateless: a signature, a user, a role and an expiry.        *)
(***************************************************************************)
EXTENDS Integers, FiniteSets

CONSTANTS
    Names,        \* user names
    Passwords,    \* passwords of at least minPasswordLength characters
    None,         \* an absent row; as a new password, one that is too short
    Procs,        \* the requests that can be in flight at the same time
    Ops,          \* Ops[p]: what clients ask of p in this instance
    Faults,       \* what can fail: "sql" (a statement), "stop" (the process)
    TTL,          \* AuthConfig.TTL, in seconds
    Credentials,  \* values of AUTH_USERNAME and AUTH_PASSWORD at a start
    Databases,    \* the users tables the server may find the first time
    MaxTime,      \* bound: seconds
    MaxStarts,    \* bound: starts of the process
    MaxTokens     \* bound: tokens that clients hold when one more logs in

Roles == {"admin", "read-only"}
AllOps == {"login", "create", "delete", "change", "reset"}
Account == [password : Passwords, role : Roles]
Caller == [name : Names, role : Roles]
Token == [name : Names, role : Roles, expiry : Nat, secret : Nat]
Users == [Names -> Account \cup {None}]

AdminsOf(table) == {n \in Names : table[n] # None /\ table[n].role = "admin"}
NoUsers(table) == \A n \in Names : table[n] = None

ASSUME NamesAssumption == IsFiniteSet(Names)
ASSUME NoneAssumption ==
    None \notin Account \cup Caller \cup Passwords \cup Names \cup AllOps \cup Nat
ASSUME WorkloadAssumption ==
    Ops \in [Procs -> SUBSET AllOps] /\ Faults \subseteq {"sql", "stop"}
ASSUME BoundsAssumption ==
    TTL \in Nat /\ MaxTime \in Nat /\ MaxStarts \in Nat /\ MaxTokens \in Nat
ASSUME CredentialsAssumption ==
    Credentials \subseteq [name : Names, password : Passwords]
ASSUME DatabaseAssumption ==
    /\ Databases \subseteq Users
    /\ \A t \in Databases : NoUsers(t) \/ AdminsOf(t) # {}

VARIABLES
    users,      \* users[n]: the row of the users table named n, or None
    up,         \* whether the server is listening
    starts,     \* starts of the process: its signing secret is the latest one
    now,        \* the clock
    tokens,     \* the tokens that clients hold
    lost,       \* history: lost[n][r], when an account n of role r was deleted
    frame       \* frame[p]: the local variables of the request p is serving

vars == <<users, up, starts, now, tokens, lost, frame>>

Labels == {"idle", "login", "count", "remove", "write", "reply"}
Statuses == {200, 201, 204, 400, 401, 403, 404, 409, 500}

Frame ==
    [pc : Labels,
     op : AllOps \cup {None},
     caller : Caller \cup {None},        \* authContext
     name : Names \cup {None},           \* the account the request is about
     row : Account \cup {None},          \* what getUser returned
     given : Passwords \cup {None},      \* the password the client presents
     new : Passwords \cup {None},        \* the password to set
     status : Statuses \cup {None}]

Idle == [pc |-> "idle", op |-> None, caller |-> None, name |-> None,
         row |-> None, given |-> None, new |-> None, status |-> None]

At(p, label) == frame[p].pc = label
Goto(p, f) == frame' = [frame EXCEPT ![p] = f]
Answer(p, f, s) ==
    Goto(p, [Idle EXCEPT !.pc = "reply", !.op = f.op, !.caller = f.caller,
                         !.status = s])

-----------------------------------------------------------------------------
Init ==
    /\ users \in Databases
    /\ up = FALSE /\ starts = 0 /\ now = 0
    /\ tokens = {}
    /\ lost = [n \in Names |-> [r \in Roles |-> None]]
    /\ frame = [p \in Procs |-> Idle]

\* Defect: the account of AUTH_USERNAME is seeded at every start.
SeededAlways(table, c) ==
    [table EXCEPT ![c.name] = [password |-> c.password, role |-> "admin"]]

(* ensureBootstrapAdmin: the first admin, in an empty table only.          *)
Seeded(table, c) ==
    IF NoUsers(table)
    THEN [table EXCEPT ![c.name] = [password |-> c.password, role |-> "admin"]]
    ELSE table

(***************************************************************************)
(* The process starts, with a new random secret, and seeds the table       *)
(* before it listens; without credentials and without users it exits, and  *)
(* nothing has changed.                                                    *)
(***************************************************************************)
StartServer ==
    /\ ~up /\ starts < MaxStarts
    /\ \E c \in Credentials \cup {None} :
        /\ c = None => ~NoUsers(users)
        /\ users' = IF c = None THEN users ELSE Seeded(users, c)
    /\ up' = TRUE /\ starts' = starts + 1
    /\ UNCHANGED <<now, tokens, lost, frame>>

(* A shutdown, or a crash: the requests in flight are gone.                *)
StopServer ==
    /\ "stop" \in Faults /\ up
    /\ up' = FALSE
    /\ frame' = [p \in Procs |-> Idle]
    /\ UNCHANGED <<users, starts, now, tokens, lost>>

Tick ==
    /\ now < MaxTime
    /\ now' = now + 1
    /\ UNCHANGED <<users, up, starts, tokens, lost, frame>>

(***************************************************************************)
(* validateToken: the signature, with the secret of this process, and the  *)
(* expiry, inclusive.  requireAuth lets any such token in, requireAdmin    *)
(* those whose role is admin; neither looks at the users table.            *)
(***************************************************************************)
\* Defect: the expiry is not looked at.
AuthenticForever(t) == t.secret = starts

Authentic(t) == t.secret = starts /\ now <= t.expiry

Callers == {[name |-> t.name, role |-> t.role] :
               t \in {u \in tokens : Authentic(u)}}

\* Defect: a route registered with authOnly.
AnyCaller == Callers

AdminCallers == {c \in Callers : c.role = "admin"}

Ready(p, op) == up /\ At(p, "idle") /\ op \in Ops[p]
Call(op, c, n) == [Idle EXCEPT !.op = op, !.caller = c, !.name = n]

UnchangedButFrame == UNCHANGED <<users, up, starts, now, tokens, lost>>

(* No token, or one that does not validate; a token of the wrong role.     *)
Refuse(p) ==
    /\ \E op \in AllOps \ {"login"} :
        /\ Ready(p, op)
        /\ \/ Answer(p, [Idle EXCEPT !.op = op], 401)
           \/ /\ op # "change"
              /\ \E c \in Callers \ AdminCallers :
                    Answer(p, [Idle EXCEPT !.op = op, !.caller = c], 403)
    /\ UnchangedButFrame

(***************************************************************************)
(* handleLogin: getUser, then bcrypt on the row it returned, then a token  *)
(* with the role of that row.                                              *)
(***************************************************************************)
Login(p) ==
    /\ Ready(p, "login") /\ Cardinality(tokens) < MaxTokens
    /\ \E n \in Names, w \in Passwords :
        LET f == [Idle EXCEPT !.op = "login", !.name = n] IN
        IF users[n] = None
        THEN Answer(p, f, 401)
        ELSE Goto(p, [f EXCEPT !.pc = "login", !.row = users[n], !.given = w])
    /\ UnchangedButFrame

IssueToken(p) ==
    LET f == frame[p] IN
    /\ At(p, "login")
    /\ \/ /\ f.given # f.row.password
          /\ Answer(p, f, 401)
          /\ UNCHANGED tokens
       \/ /\ f.given = f.row.password
          /\ tokens' = tokens \cup {[name |-> f.name, role |-> f.row.role,
                                     expiry |-> now + TTL, secret |-> starts]}
          /\ Answer(p, f, 200)
    /\ UNCHANGED <<users, up, starts, now, lost>>

(***************************************************************************)
(* createUser: the checks need no table, the INSERT is one statement.      *)
(***************************************************************************)
CreateUser(p) ==
    /\ Ready(p, "create")
    /\ \E c \in AdminCallers, n \in Names, r \in Roles :
        LET f == Call("create", c, n) IN
        \/ Answer(p, f, 400) /\ UNCHANGED users
        \/ users[n] # None /\ Answer(p, f, 409) /\ UNCHANGED users
        \/ /\ users[n] = None
           /\ \E w \in Passwords :
                users' = [users EXCEPT ![n] = [password |-> w, role |-> r]]
           /\ Answer(p, f, 201)
    /\ UNCHANGED <<up, starts, now, tokens, lost>>

(***************************************************************************)
(* deleteUser: getUser; for an admin, countAdmins; then the DELETE.        *)
(***************************************************************************)
\* Defect: admins are not counted.
DeleteUserUncounted(p) ==
    /\ Ready(p, "delete")
    /\ \E c \in AdminCallers, n \in Names :
        LET f == Call("delete", c, n) IN
        IF users[n] = None
        THEN Answer(p, f, 404)
        ELSE Goto(p, [f EXCEPT !.pc = "remove"])
    /\ UnchangedButFrame

DeleteUser(p) ==
    /\ Ready(p, "delete")
    /\ \E c \in AdminCallers, n \in Names :
        LET f == Call("delete", c, n) IN
        IF users[n] = None
        THEN Answer(p, f, 404)
        ELSE Goto(p, [f EXCEPT !.pc = IF users[n].role = "admin"
                                      THEN "count" ELSE "remove"])
    /\ UnchangedButFrame

CountAdmins(p) ==
    /\ At(p, "count")
    /\ IF Cardinality(AdminsOf(users)) <= 1
       THEN Answer(p, frame[p], 409)
       ELSE Goto(p, [frame[p] EXCEPT !.pc = "remove"])
    /\ UnchangedButFrame

RemoveUser(p) ==
    LET n == frame[p].name IN
    /\ At(p, "remove")
    /\ IF users[n] = None
       THEN Answer(p, frame[p], 404) /\ UNCHANGED <<users, lost>>
       ELSE /\ users' = [users EXCEPT ![n] = None]
            /\ lost' = [lost EXCEPT ![n][users[n].role] = now]
            /\ Answer(p, frame[p], 204)
    /\ UNCHANGED <<up, starts, now, tokens>>

(***************************************************************************)
(* changePassword and resetPassword: getUser, and for the first one the    *)
(* current password; then setPasswordHash, whose UPDATE does not look at   *)
(* its effect.                                                             *)
(***************************************************************************)
Change(p, c, w, v) ==
    LET f == Call("change", c, c.name)
        row == users[c.name]
    IN
    \/ row = None /\ Answer(p, f, 500)
    \/ row # None /\ row.password # w /\ Answer(p, f, 401)
    \/ row # None /\ row.password = w /\ v = None /\ Answer(p, f, 400)
    \/ /\ row # None /\ row.password = w /\ v # None
       /\ Goto(p, [f EXCEPT !.pc = "write", !.given = w, !.new = v,
                            !.row = row])

ChangePassword(p) ==
    /\ Ready(p, "change")
    /\ \E c \in Callers, w \in Passwords, v \in Passwords \cup {None} :
        Change(p, c, w, v)
    /\ UnchangedButFrame

\* Defect: ErrUserNotFound is not checked.
ResetPasswordUnchecked(p) ==
    /\ Ready(p, "reset")
    /\ \E c \in AdminCallers, n \in Names, v \in Passwords :
        Goto(p, [Call("reset", c, n) EXCEPT !.pc = "write", !.new = v,
                                            !.row = users[n]])
    /\ UnchangedButFrame

ResetPassword(p) ==
    /\ Ready(p, "reset")
    /\ \E c \in AdminCallers, n \in Names, v \in Passwords \cup {None} :
        LET f == Call("reset", c, n) IN
        \/ users[n] = None /\ Answer(p, f, 404)
        \/ users[n] # None /\ v = None /\ Answer(p, f, 400)
        \/ /\ users[n] # None /\ v # None
           /\ Goto(p, [f EXCEPT !.pc = "write", !.new = v, !.row = users[n]])
    /\ UnchangedButFrame

SetPasswordHash(p) ==
    LET f == frame[p] IN
    /\ At(p, "write")
    /\ users' = IF users[f.name] = None THEN users
                ELSE [users EXCEPT ![f.name].password = f.new]
    /\ Answer(p, f, 204)
    /\ UNCHANGED <<up, starts, now, tokens, lost>>

(***************************************************************************)
(* A statement fails, or bcrypt refuses a password longer than 72 bytes.   *)
(***************************************************************************)
StatementFails(p) ==
    /\ "sql" \in Faults
    /\ \/ frame[p].pc \in {"count", "remove", "write"} /\ Answer(p, frame[p], 500)
       \/ Ready(p, "login") /\ Answer(p, [Idle EXCEPT !.op = "login"], 500)
       \/ \E op \in AllOps, c \in AdminCallers :
            /\ op \in {"delete", "reset"} /\ Ready(p, op)
            /\ Answer(p, [Idle EXCEPT !.op = op, !.caller = c], 500)
       \/ \E c \in Callers :
            /\ Ready(p, "change")
            /\ Answer(p, [Idle EXCEPT !.op = "change", !.caller = c], 500)
    /\ UnchangedButFrame

Respond(p) ==
    /\ At(p, "reply")
    /\ Goto(p, Idle)
    /\ UnchangedButFrame

Serve(p) ==
    \/ Refuse(p) \/ Login(p) \/ IssueToken(p)
    \/ CreateUser(p)
    \/ DeleteUser(p) \/ CountAdmins(p) \/ RemoveUser(p)
    \/ ChangePassword(p) \/ ResetPassword(p) \/ SetPasswordHash(p)
    \/ StatementFails(p) \/ Respond(p)

Next == StartServer \/ StopServer \/ Tick \/ \E p \in Procs : Serve(p)

Spec == Init /\ [][Next]_vars

-----------------------------------------------------------------------------
(***************************************************************************)
(* Properties.                                                             *)
(***************************************************************************)

(* Which locals of a handler are set, by where it is.                      *)
LocalsOK(f) ==
    /\ f.pc \in {"login", "count", "remove", "write"} => f.name \in Names
    /\ f.pc \in {"login", "write"} => f.row \in Account
    /\ f.pc \in {"count", "remove"} => f.op = "delete"
    /\ f.pc = "login" => f.op = "login" /\ f.given \in Passwords
    /\ f.pc = "write" => f.op \in {"change", "reset"} /\ f.new \in Passwords
    /\ f.pc \in {"count", "remove", "write"} => f.caller \in Caller

\* Every variable keeps its type, and every handler has set the locals its
\* next statement uses (in particular the row that getUser found).
TypeOK ==
    /\ users \in Users
    /\ up \in BOOLEAN /\ starts \in Nat /\ now \in Nat
    /\ tokens \in SUBSET Token
    /\ lost \in [Names -> [Roles -> Nat \cup {None}]]
    /\ frame \in [Procs -> Frame]
    /\ \A p \in Procs : LocalsOK(frame[p]) /\ (~up => frame[p] = Idle)
    /\ \A p \in Procs :
        frame[p].pc \in {"count", "remove"} => "delete" \in Ops[p]

\* While the server is up there is an admin: "Refuses to delete the last
\* remaining admin - there's no other recovery path if that happens"
\* (users.go:138-140), and ensureBootstrapAdmin seeds the first one.
AdminRemains == up => AdminsOf(users) # {}

\* An account changes only by the doing of an admin, or of its own user when
\* only the password changes, or when an empty table is seeded: requireAdmin
\* on the routes, the target of handleChangePassword, and "it can't silently
\* reset a password someone changed via the API" (users.go:228).
ChangesAuthorized ==
    [][\A n \in Names : users'[n] # users[n] =>
          \/ NoUsers(users)
          \/ \E p \in Procs :
                /\ frame'[p] # frame[p] /\ frame'[p].caller # None
                /\ LET c == frame'[p].caller IN
                   \/ c.role = "admin"
                   \/ /\ c.name = n /\ users[n] # None /\ users'[n] # None
                      /\ users'[n].role = users[n].role]_vars

Held(c) ==
    \/ users[c.name] # None /\ users[c.name].role = c.role
    \/ lost[c.name][c.role] # None /\ now <= lost[c.name][c.role] + TTL

Admitted(p) == At(p, "idle") /\ frame'[p].caller # None

\* A request is served under a role only if its user has that role, or lost it
\* TTL seconds ago at the most ("ese token sigue reflejando el rol viejo hasta
\* que expira (max. 1h)", README.md:317).
RoleOutlivedByTTL ==
    [][\A p \in Procs : Admitted(p) => Held(frame'[p].caller)]_vars

\* A change of password overwrites the password that the client gave as the
\* current one, and no other ("verifies currentPassword against the stored
\* hash and, if it matches, replaces it", users.go:191-192).  Not true of the
\* code when another request sets the password between the two: a reset that
\* has answered 204 is overwritten (UsersLostReset.cfg).
ChangeReplacesVerified ==
    [][\A p \in Procs :
          (frame[p].op = "change" /\ At(p, "write") /\ frame'[p].status = 204)
              => \/ users[frame[p].name] = None
                 \/ users[frame[p].name].password = frame[p].given]_vars

\* When an admin's reset answers 204 the account is there and has the new
\* password ("204 No Content. 404 si el usuario no existe", README.md:368).
\* Not true of the code when the account is deleted between the lookup and the
\* UPDATE (UsersGoneReset.cfg).
ResetTakesEffect ==
    [][\A p \in Procs :
          (frame[p].op = "reset" /\ At(p, "write") /\ frame'[p].status = 204)
              => /\ users'[frame[p].name] # None
                 /\ users'[frame[p].name].password = frame[p].new]_vars

=============================================================================
