------------------------------ MODULE Accounts ------------------------------
(***************************************************************************)
(* Team-mode accounts (handlers/auth.go, auth/auth.go, db/auth.go,         *)
(* db/users.go): first-run setup, sign-in and sign-out, passwords, API     *)
(* tokens and the administrators' user management.                         *)
(*                                                                         *)
(* Requests run concurrently, each as the goroutine of its HTTP handler,   *)
(* and a step of one is one SQL statement: nothing is done in a            *)
(* transaction.  The middleware resolves a request's token to a user once, *)
(* before the handler; what it found may be stale when it is used.         *)
(***************************************************************************)
EXTENDS Naturals, FiniteSets, Functions

CONSTANTS
  Ids,         \* of users; a uuid is never given twice
  Emails,
  Passwords,   \* of the length required
  Roles,       \* admin, editor, viewer
  Tokens,      \* secrets of sessions and API tokens, never given twice
  Callers,     \* requests under way at once
  Alone        \* sets of operations of which one is under way at a time

VARIABLES
  users,       \* rows: the email, role and password of every user
  sessions,    \* rows: the user of a session, and the password that opened it
  apiTokens,   \* rows: the user of every API token
  given,       \* the ids and tokens given so far
  call         \* what every caller's request is doing

accountVars == <<users, sessions, apiTokens, given, call>>

Anyone == {"Setup", "Login"}
OwnOps == {"Logout", "ChangePassword", "CreateToken", "DeleteToken"}
AdminOps == {"CreateUser", "UpdateUser", "DeleteUser"}
AccountOps == Anyone \cup OwnOps \cup AdminOps

ASSUME AloneAssumption == Alone \subseteq SUBSET AccountOps
ASSUME RolesAssumption == "admin" \in Roles

Nobody == [id |-> "none", email |-> "none", role |-> "none"]
NoCall == [op |-> "none", step |-> "none", by |-> Nobody, with |-> "none", id |-> "none",
           email |-> "none", password |-> "none", current |-> "none", role |-> "none",
           token |-> "none"]
Steps == {"count", "find", "get", "insert", "validate", "issue", "write", "password",
          "signout", "delete"}

\* An id or a token not given yet; which one makes no difference.
Fresh(s) == CHOOSE x \in s : x \notin given

Admins == {u \in DOMAIN users : users[u].role = "admin"}

\* A row added to a table, and rows taken out of it.
With(table, key, row) == [k \in DOMAIN table \cup {key} |-> IF k = key THEN row ELSE table[k]]
Without(table, keys) == Restrict(table, DOMAIN table \ keys)

AccountsInit ==
  /\ users = <<>> /\ sessions = <<>> /\ apiTokens = <<>>
  /\ given = {}
  /\ call = [c \in Callers |-> NoCall]

-----------------------------------------------------------------------------
(* A request arrives                                                       *)

\* Middleware: the user a token belongs to, as the row is now.
Principal(t) ==
  LET u == IF t \in DOMAIN sessions THEN sessions[t].user ELSE apiTokens[t]
  IN  [id |-> u, email |-> users[u].email, role |-> users[u].role]

NewCall(op, step) == [NoCall EXCEPT !.op = op, !.step = step]

MayArrive(op) ==
  \A group \in Alone : op \in group => \A c \in Callers : call[c].op \notin group

\* The middleware lets a request through to its handler: anyone's ...
ByAnyone(c, r) == MayArrive(r.op) /\ call' = [call EXCEPT ![c] = r]

\* ... a user's own ...
ByUser(c, r) ==
  \E t \in DOMAIN sessions \cup DOMAIN apiTokens :
    /\ MayArrive(r.op)
    /\ call' = [call EXCEPT ![c] = [r EXCEPT !.by = Principal(t), !.with = t]]

\* ... or an administrator's (RequiredRole); nobody deletes their own account.
ByAdmin(c, r) ==
  \E t \in DOMAIN sessions \cup DOMAIN apiTokens :
    /\ MayArrive(r.op) /\ Principal(t).role = "admin"
    /\ r.op = "DeleteUser" => r.id # Principal(t).id
    /\ call' = [call EXCEPT ![c] = r]

\* What is asked for, valid in form (a password may be too short for
\* UpdateUser, which looks at it late), and where its handler starts.
Arrive(c) ==
  /\ call[c] = NoCall
  /\ \/ \E e \in Emails, p \in Passwords :
          \/ ByAnyone(c, [NewCall("Setup", "count") EXCEPT !.email = e, !.password = p])
          \/ ByAnyone(c, [NewCall("Login", "validate") EXCEPT !.email = e, !.password = p])
     \/ ByUser(c, NewCall("Logout", "delete"))
     \/ \E p, q \in Passwords :
          ByUser(c, [NewCall("ChangePassword", "validate") EXCEPT !.current = p, !.password = q])
     \/ ByUser(c, NewCall("CreateToken", "insert"))
     \/ \E t \in Tokens : ByUser(c, [NewCall("DeleteToken", "delete") EXCEPT !.token = t])
     \/ \E e \in Emails, p \in Passwords, r \in Roles :
          ByAdmin(c, [NewCall("CreateUser", "find") EXCEPT !.email = e, !.password = p, !.role = r])
     \/ \E u \in Ids, r \in Roles, p \in Passwords \cup {"", "short"} :
          ByAdmin(c, [NewCall("UpdateUser", "get") EXCEPT !.id = u, !.role = r, !.password = p])
     \/ \E u \in Ids : ByAdmin(c, [NewCall("DeleteUser", "get") EXCEPT !.id = u])
  /\ UNCHANGED <<users, sessions, apiTokens, given>>

Goto(c, step) == call' = [call EXCEPT ![c] = [call[c] EXCEPT !.step = step]]
SignIn(c, u) == call' = [call EXCEPT ![c] = [call[c] EXCEPT !.step = "issue", !.id = u]]
Answer(c) == call' = [call EXCEPT ![c] = NoCall]
At(c, op, step) == call[c].op = op /\ call[c].step = step

-----------------------------------------------------------------------------
(* Setup, sign-in and sign-out                                             *)

\* Setup: an installation with users is set up already.
Setup(c) ==
  /\ At(c, "Setup", "count")
  /\ IF DOMAIN users = {} THEN Goto(c, "insert") ELSE Answer(c)
  /\ UNCHANGED <<users, sessions, apiTokens, given>>

\* UserStore.Create: an INSERT, which fails when the email is in use.  Setup
\* goes on to sign the new administrator in.
Taken(email) == \E u \in DOMAIN users : users[u].email = email

InsertUser(c) ==
  /\ At(c, "Setup", "insert") \/ At(c, "CreateUser", "insert")
  /\ IF Taken(call[c].email)
     THEN Answer(c) /\ UNCHANGED <<users, given>>
     ELSE LET u == Fresh(Ids) IN
            /\ Ids \ given # {}
            /\ users' = With(users, u, [email |-> call[c].email, password |-> call[c].password,
                               role |-> IF call[c].op = "Setup" THEN "admin" ELSE call[c].role])
            /\ given' = given \cup {u}
            /\ IF call[c].op = "Setup"
               THEN SignIn(c, u)
               ELSE Answer(c)
  /\ UNCHANGED <<sessions, apiTokens>>

\* Login: ValidatePassword reads the row and compares the hashes.
Login(c) ==
  /\ At(c, "Login", "validate")
  /\ \/ \E u \in DOMAIN users :
          /\ users[u].email = call[c].email /\ users[u].password = call[c].password
          /\ SignIn(c, u)
     \/ /\ \A u \in DOMAIN users :
             ~(users[u].email = call[c].email /\ users[u].password = call[c].password)
        /\ Answer(c)
  /\ UNCHANGED <<users, sessions, apiTokens, given>>

\* issue: CreateSession, which fails when the user is gone (foreign key).
Issue(c) ==
  /\ At(c, "Setup", "issue") \/ At(c, "Login", "issue")
  /\ IF call[c].id \in DOMAIN users
     THEN LET t == Fresh(Tokens) IN
            /\ Tokens \ given # {}
            /\ sessions' = With(sessions, t, [user |-> call[c].id, password |-> call[c].password])
            /\ given' = given \cup {t}
     ELSE UNCHANGED <<sessions, given>>
  /\ Answer(c)
  /\ UNCHANGED <<users, apiTokens>>

\* Logout deletes the session the request came with; an API token stays.
Logout(c) ==
  /\ At(c, "Logout", "delete")
  /\ sessions' = Without(sessions, {call[c].with})
  /\ Answer(c)
  /\ UNCHANGED <<users, apiTokens, given>>

\* A session outlives its time: the row stays and no query finds it.
Expire(t) ==
  /\ sessions' = Without(sessions, {t})
  /\ UNCHANGED <<users, apiTokens, given, call>>

-----------------------------------------------------------------------------
(* Passwords and API tokens                                                *)

\* ChangePassword: the current password, by the email the token stood for.
ChangePassword(c) ==
  /\ At(c, "ChangePassword", "validate")
  /\ IF \E u \in DOMAIN users : /\ users[u].email = call[c].by.email
                                /\ users[u].password = call[c].current
     THEN Goto(c, "password")
     ELSE Answer(c)
  /\ UNCHANGED <<users, sessions, apiTokens, given>>

\* SetPassword: an UPDATE, of no row when the user is gone ...
Target(c) == IF call[c].op = "ChangePassword" THEN call[c].by.id ELSE call[c].id

SetPassword(c) ==
  /\ At(c, "ChangePassword", "password") \/ At(c, "UpdateUser", "password")
  /\ users' = [u \in DOMAIN users |->
                 IF u = Target(c) THEN [users[u] EXCEPT !.password = call[c].password] ELSE users[u]]
  /\ Goto(c, "signout")
  /\ UNCHANGED <<sessions, apiTokens, given>>

SessionsOf(u) == {t \in DOMAIN sessions : sessions[t].user = u}

\* Mutant: only the session the request came with is ended.
SignOut_OwnOnly(c) ==
  /\ At(c, "ChangePassword", "signout") \/ At(c, "UpdateUser", "signout")
  /\ sessions' = Without(sessions, {call[c].with})
  /\ Answer(c)
  /\ UNCHANGED <<users, apiTokens, given>>

\* ... and a DELETE of the user's sessions.
SignOut(c) ==
  /\ At(c, "ChangePassword", "signout") \/ At(c, "UpdateUser", "signout")
  /\ sessions' = Without(sessions, SessionsOf(Target(c)))
  /\ Answer(c)
  /\ UNCHANGED <<users, apiTokens, given>>

\* CreateToken fails when the user is gone (foreign key).
CreateToken(c) ==
  /\ At(c, "CreateToken", "insert")
  /\ IF call[c].by.id \in DOMAIN users
     THEN LET t == Fresh(Tokens) IN
            /\ Tokens \ given # {}
            /\ apiTokens' = With(apiTokens, t, call[c].by.id)
            /\ given' = given \cup {t}
     ELSE UNCHANGED <<apiTokens, given>>
  /\ Answer(c)
  /\ UNCHANGED <<users, sessions>>

\* DeleteToken deletes a token of the caller's own.
DeleteToken(c) ==
  /\ At(c, "DeleteToken", "delete")
  /\ apiTokens' = Without(apiTokens, {t \in DOMAIN apiTokens :
                                        t = call[c].token /\ apiTokens[t] = call[c].by.id})
  /\ Answer(c)
  /\ UNCHANGED <<users, sessions, given>>

-----------------------------------------------------------------------------
(* User management                                                         *)

\* CreateUser looks for the email before it inserts.
FindEmail(c) ==
  /\ At(c, "CreateUser", "find")
  /\ IF Taken(call[c].email) THEN Answer(c) ELSE Goto(c, "insert")
  /\ UNCHANGED <<users, sessions, apiTokens, given>>

\* UserStore.Update and DeleteUser read the row: taking an administrator's
\* rights needs a count of the administrators first.
GetUser(c) ==
  /\ At(c, "UpdateUser", "get") \/ At(c, "DeleteUser", "get")
  /\ LET u    == call[c].id
         does == IF call[c].op = "UpdateUser" THEN "write" ELSE "delete"
     IN  IF u \notin DOMAIN users THEN Answer(c)
         ELSE IF users[u].role = "admin" /\ ~(call[c].op = "UpdateUser" /\ call[c].role = "admin")
              THEN Goto(c, "count")
              ELSE Goto(c, does)
  /\ UNCHANGED <<users, sessions, apiTokens, given>>

\* Mutant: no administrator need remain.
CountAdmins_Any(c) ==
  /\ At(c, "UpdateUser", "count") \/ At(c, "DeleteUser", "count")
  /\ IF Cardinality(Admins) < 1 THEN Answer(c)
     ELSE Goto(c, IF call[c].op = "UpdateUser" THEN "write" ELSE "delete")
  /\ UNCHANGED <<users, sessions, apiTokens, given>>

CountAdmins(c) ==
  /\ At(c, "UpdateUser", "count") \/ At(c, "DeleteUser", "count")
  /\ IF Cardinality(Admins) <= 1 THEN Answer(c)
     ELSE Goto(c, IF call[c].op = "UpdateUser" THEN "write" ELSE "delete")
  /\ UNCHANGED <<users, sessions, apiTokens, given>>

\* Update writes the role; UpdateUser then refuses a short password, or sets
\* it.
WriteRole(c) ==
  /\ At(c, "UpdateUser", "write")
  /\ users' = [u \in DOMAIN users |->
                 IF u = call[c].id THEN [users[u] EXCEPT !.role = call[c].role] ELSE users[u]]
  /\ IF call[c].password \in {"", "short"} THEN Answer(c) ELSE Goto(c, "password")
  /\ UNCHANGED <<sessions, apiTokens, given>>

\* Delete; the user's sessions and API tokens go with the row.
DeleteUser(c) ==
  /\ At(c, "DeleteUser", "delete")
  /\ users' = Without(users, {call[c].id})
  /\ sessions' = Without(sessions, SessionsOf(call[c].id))
  /\ apiTokens' = Without(apiTokens, {t \in DOMAIN apiTokens : apiTokens[t] = call[c].id})
  /\ Answer(c)
  /\ UNCHANGED given

-----------------------------------------------------------------------------
AccountsNext ==
  \/ \E c \in Callers :
       \/ Arrive(c)
       \/ Setup(c) \/ InsertUser(c) \/ Login(c) \/ Issue(c) \/ Logout(c)
       \/ ChangePassword(c) \/ SetPassword(c) \/ SignOut(c)
       \/ CreateToken(c) \/ DeleteToken(c)
       \/ FindEmail(c) \/ GetUser(c) \/ CountAdmins(c) \/ WriteRole(c) \/ DeleteUser(c)
  \/ \E t \in DOMAIN sessions : Expire(t)

AccountsSpec == AccountsInit /\ [][AccountsNext]_accountVars

-----------------------------------------------------------------------------
(* Properties                                                              *)

AccountsTypeOK ==
  /\ DOMAIN users \subseteq Ids \cap given
  /\ \A u \in DOMAIN users : users[u] \in [email : Emails, role : Roles, password : Passwords]
  /\ DOMAIN sessions \cup DOMAIN apiTokens \subseteq Tokens \cap given
  /\ \A t \in DOMAIN sessions : sessions[t] \in [user : DOMAIN users, password : Passwords]
  /\ \A t \in DOMAIN apiTokens : apiTokens[t] \in DOMAIN users
  /\ given \subseteq Ids \cup Tokens
  /\ \A c \in Callers : call[c] = NoCall \/ (call[c].op \in AccountOps /\ call[c].step \in Steps)

\* An installation that has been set up keeps an administrator, whoever
\* demotes or deletes whom (db/auth.go ErrLastAdmin "protects against removing
\* the only administrator").
AdminStays == given # {} => Admins # {}

\* The inductive form of AdminStays: whoever is about to take an administrator's
\* rights leaves another one, and an administrator's request needs a set-up.
Takes(c) ==
  \/ At(c, "UpdateUser", "write") /\ call[c].role # "admin"
  \/ At(c, "DeleteUser", "delete")

AdminInv ==
  /\ AdminStays
  /\ DOMAIN users \cup DOMAIN sessions \cup DOMAIN apiTokens \subseteq given
  /\ \A c \in Callers :
       /\ call[c].op \in AdminOps => given # {}
       /\ Takes(c) => \E a \in Admins : a # call[c].id
  /\ \A c, d \in Callers :
       call[c].op \in {"UpdateUser", "DeleteUser"} /\ call[d].op \in {"UpdateUser", "DeleteUser"} => c = d

\* What a request carries, by what it asks for.
RequestOK(r) ==
  \/ r = NoCall
  \/ /\ r.op \in AccountOps /\ r.step \in Steps
     /\ r.op \in {"Setup", "Login", "CreateUser"} => r.email \in Emails
     /\ r.op \in {"Setup", "Login", "CreateUser", "ChangePassword"} => r.password \in Passwords
     /\ r.op \in {"CreateUser", "UpdateUser"} => r.role \in Roles
     /\ r.op = "UpdateUser" => r.password \in Passwords \cup {"", "short"}
     /\ r.op = "UpdateUser" /\ r.step = "password" => r.password \in Passwords

\* When a password has been replaced, no session that the old one opened is
\* left (SetPassword "signs out their sessions"), also of a sign-in that was
\* under way.
PasswordSignsOut ==
  \A t \in DOMAIN sessions :
    LET u == sessions[t].user
    IN  \/ sessions[t].password = users[u].password
        \/ \E c \in Callers : At(c, call[c].op, "signout") /\ Target(c) = u

\* The inductive form of PasswordSignsOut, where requests that use or set a
\* password come one at a time: who is about to be signed in still has the
\* password it was checked with, or is gone for good.
PasswordOps == {"Setup", "Login", "ChangePassword", "UpdateUser"}

PasswordInv ==
  /\ PasswordSignsOut
  /\ \A c \in Callers :
       call[c].step = "issue" =>
         /\ call[c].op \in {"Setup", "Login"} /\ call[c].id \in given
         /\ call[c].id \in DOMAIN users => users[call[c].id].password = call[c].password
  /\ \A c, d \in Callers : call[c].op \in PasswordOps /\ call[d].op \in PasswordOps => c = d
=============================================================================
