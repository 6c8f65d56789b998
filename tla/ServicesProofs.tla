--------------------------- MODULE ServicesProofs ---------------------------
(***************************************************************************)
(* What surrounds a run, part by part, for any number of users, requests,  *)
(* documents and browsers: accounts and sessions, the documents and their  *)
(* stores, and the WebSocket hub.                                          *)
(***************************************************************************)
EXTENDS Accounts, Workspace, WsHub, TLAPS, FiniteSetTheorems, WellFoundedInduction, SequenceTheorems

-----------------------------------------------------------------------------
(* Accounts.  An installation keeps an administrator, as long as roles are *)
(* taken away one at a time, and a password that is replaced signs its     *)
(* sessions out, as long as passwords are used and set one at a time.      *)

\* What a call and a row are: functions with these fields.
Fields == {"op", "step", "by", "with", "id", "email", "password", "current", "role", "token"}
IsCall(r) == r = [f \in Fields |-> r[f]]
IsUser(r) == r = [f \in {"email", "role", "password"} |-> r[f]]

FormInv ==
  /\ call = [c \in Callers |-> call[c]]
  /\ \A c \in Callers : IsCall(call[c])
  /\ \A u \in DOMAIN users : IsUser(users[u])

\* More than one administrator: one besides any user.
LEMMA AnotherAdmin ==
  ASSUME NEW S, ~(Cardinality(S) <= 1), NEW u
  PROVE  \E a \in S : a # u
<1>1. SUFFICES ASSUME \A a \in S : a = u
               PROVE  FALSE
  OBVIOUS
<1>2. S = {} \/ S = {u}
  BY <1>1
<1>3. Cardinality({}) = 0 /\ Cardinality({u}) = 1
  BY FS_EmptySet, FS_Singleton
<1> QED
  BY <1>2, <1>3


\* A request that arrives takes no rights yet, signs nobody in or out, and
\* carries what its handler will use.
Request(r, op) ==
  /\ IsCall(r) /\ RequestOK(r) /\ r.op = op /\ r.step \notin {"issue", "signout"}
  /\ op \in {"UpdateUser", "DeleteUser"} => r.step = "get"

ArrivesAs(c, r) ==
  /\ call' = [call EXCEPT ![c] = r] /\ Request(r, r.op)
  /\ UNCHANGED <<users, sessions, apiTokens, given>>
  /\ r.op \in AdminOps => DOMAIN sessions \cup DOMAIN apiTokens # {}
  /\ MayArrive(r.op)

\* The three ways through the middleware.
LEMMA ThroughForm ==
  ASSUME NEW c \in Callers, NEW r, NEW op, Request(r, op), UNCHANGED <<users, sessions, apiTokens, given>>
  PROVE  /\ ByAnyone(c, r) /\ op \in Anyone => ArrivesAs(c, r)
         /\ ByUser(c, r) /\ op \in OwnOps => \E q : ArrivesAs(c, q)
         /\ ByAdmin(c, r) => ArrivesAs(c, r)
<1>1. ByAnyone(c, r) /\ op \in Anyone => ArrivesAs(c, r)
  BY DEF ByAnyone, Anyone, ArrivesAs, AdminOps, Request
<1>2. ASSUME ByUser(c, r), op \in OwnOps
      PROVE  \E q : ArrivesAs(c, q)
  <2>1. PICK t \in DOMAIN sessions \cup DOMAIN apiTokens :
               MayArrive(r.op) /\ call' = [call EXCEPT ![c] = [r EXCEPT !.by = Principal(t), !.with = t]]
    BY <1>2 DEF ByUser
  <2> DEFINE q == [r EXCEPT !.by = Principal(t), !.with = t]
  <2>2. /\ IsCall(q) /\ q.op = r.op /\ q.step = r.step /\ q.email = r.email
        /\ q.password = r.password /\ q.role = r.role
    BY DEF IsCall, Fields, Request
  <2>3. op # "none" /\ r # NoCall
    BY <1>2 DEF OwnOps, Request, NoCall
  <2>4. Request(q, op)
    BY <2>2, <2>3 DEF Request, RequestOK
  <2>5. call' = [call EXCEPT ![c] = q] /\ MayArrive(q.op)
    BY <2>1, <2>2
  <2>6. ArrivesAs(c, q)
    <3> HIDE DEF q
    <3>1. q.op = op
      BY <2>4 DEF Request
    <3> QED
      BY <1>2, <2>4, <2>5, <3>1 DEF OwnOps, ArrivesAs, AdminOps
  <2> QED
    BY <2>6
<1>3. ByAdmin(c, r) => ArrivesAs(c, r)
  BY DEF ByAdmin, ArrivesAs, AdminOps, Request
<1> QED
  BY <1>1, <1>2, <1>3

\* A new request, and one with fields of it set.
LEMMA RequestForm ==
  ASSUME NEW op, NEW step
  PROVE  IsCall(NewCall(op, step)) /\ NewCall(op, step).op = op /\ NewCall(op, step).step = step
<1>1. IsCall(NoCall)
  BY DEF IsCall, NoCall, Fields
<1> QED
  BY <1>1 DEF IsCall, Fields, NewCall

\* Each kind of request, as its handler finds it.
LEMMA RequestKinds ==
  /\ \A e \in Emails, p \in Passwords :
       /\ Request([NewCall("Setup", "count") EXCEPT !.email = e, !.password = p], "Setup")
       /\ Request([NewCall("Login", "validate") EXCEPT !.email = e, !.password = p], "Login")
  /\ \A p, n \in Passwords :
       Request([NewCall("ChangePassword", "validate") EXCEPT !.current = p, !.password = n], "ChangePassword")
  /\ \A t : Request([NewCall("DeleteToken", "delete") EXCEPT !.token = t], "DeleteToken")
  /\ \A e \in Emails, p \in Passwords, r \in Roles :
       Request([NewCall("CreateUser", "find") EXCEPT !.email = e, !.password = p, !.role = r], "CreateUser")
  /\ \A r \in Roles, w \in Passwords \cup {"", "short"} : \A u :
       Request([NewCall("UpdateUser", "get") EXCEPT !.id = u, !.role = r, !.password = w], "UpdateUser")
  /\ \A u : Request([NewCall("DeleteUser", "get") EXCEPT !.id = u], "DeleteUser")
<1> USE DEF Request, RequestOK, AccountOps, Anyone, OwnOps, AdminOps, Steps
<1>1. ASSUME NEW e \in Emails, NEW p \in Passwords, NEW op \in {"Setup", "Login"}, NEW step \in {"count", "validate"}
      PROVE  Request([NewCall(op, step) EXCEPT !.email = e, !.password = p], op)
  <2> DEFINE b == NewCall(op, step)
  <2>1. IsCall(b) /\ b.op = op /\ b.step = step
    BY RequestForm
  <2> HIDE DEF b
  <2>2. PICK q : q = [b EXCEPT !.email = e, !.password = p]
    OBVIOUS
  <2>3. IsCall(q) /\ q.op = op /\ q.step = step /\ q.email = e /\ q.password = p
    BY <2>1, <2>2 DEF IsCall, Fields
  <2>4. Request(q, op)
    BY <2>3
  <2> QED
    BY <2>2, <2>4 DEF b
<1>2. ASSUME NEW p \in Passwords, NEW n \in Passwords
      PROVE  Request([NewCall("ChangePassword", "validate") EXCEPT !.current = p, !.password = n], "ChangePassword")
  <2> DEFINE b == NewCall("ChangePassword", "validate")
  <2>1. IsCall(b) /\ b.op = "ChangePassword" /\ b.step = "validate"
    BY RequestForm
  <2> HIDE DEF b
  <2>2. PICK q : q = [b EXCEPT !.current = p, !.password = n]
    OBVIOUS
  <2>3. IsCall(q) /\ q.op = b.op /\ q.step = b.step /\ q.password = n
    BY <2>1, <2>2 DEF IsCall, Fields
  <2>4. Request(q, "ChangePassword")
    BY <2>1, <2>3
  <2> QED
    BY <2>2, <2>4 DEF b
<1>3. ASSUME NEW t
      PROVE  Request([NewCall("DeleteToken", "delete") EXCEPT !.token = t], "DeleteToken")
  <2> DEFINE b == NewCall("DeleteToken", "delete")
  <2>1. IsCall(b) /\ b.op = "DeleteToken" /\ b.step = "delete"
    BY RequestForm
  <2> HIDE DEF b
  <2>2. PICK q : q = [b EXCEPT !.token = t]
    OBVIOUS
  <2>3. IsCall(q) /\ q.op = b.op /\ q.step = b.step
    BY <2>1, <2>2 DEF IsCall, Fields
  <2>4. Request(q, "DeleteToken")
    BY <2>1, <2>3
  <2> QED
    BY <2>2, <2>4 DEF b
<1>4. ASSUME NEW e \in Emails, NEW p \in Passwords, NEW r \in Roles
      PROVE  Request([NewCall("CreateUser", "find") EXCEPT !.email = e, !.password = p, !.role = r], "CreateUser")
  <2> DEFINE b == NewCall("CreateUser", "find")
  <2>1. IsCall(b) /\ b.op = "CreateUser" /\ b.step = "find"
    BY RequestForm
  <2> HIDE DEF b
  <2>2. PICK q : q = [b EXCEPT !.email = e, !.password = p, !.role = r]
    OBVIOUS
  <2>3. IsCall(q) /\ q.op = b.op /\ q.step = b.step /\ q.email = e /\ q.password = p /\ q.role = r
    BY <2>1, <2>2 DEF IsCall, Fields
  <2>4. Request(q, "CreateUser")
    BY <2>1, <2>3
  <2> QED
    BY <2>2, <2>4 DEF b
<1>5. ASSUME NEW r \in Roles, NEW w \in Passwords \cup {"", "short"}, NEW u
      PROVE  Request([NewCall("UpdateUser", "get") EXCEPT !.id = u, !.role = r, !.password = w], "UpdateUser")
  <2> DEFINE b == NewCall("UpdateUser", "get")
  <2>1. IsCall(b) /\ b.op = "UpdateUser" /\ b.step = "get"
    BY RequestForm
  <2> HIDE DEF b
  <2>2. PICK q : q = [b EXCEPT !.id = u, !.role = r, !.password = w]
    OBVIOUS
  <2>3. IsCall(q) /\ q.op = b.op /\ q.step = b.step /\ q.role = r /\ q.password = w
    BY <2>1, <2>2 DEF IsCall, Fields
  <2>4. Request(q, "UpdateUser")
    BY <2>1, <2>3
  <2> QED
    BY <2>2, <2>4 DEF b
<1>6. ASSUME NEW u
      PROVE  Request([NewCall("DeleteUser", "get") EXCEPT !.id = u], "DeleteUser")
  <2> DEFINE b == NewCall("DeleteUser", "get")
  <2>1. IsCall(b) /\ b.op = "DeleteUser" /\ b.step = "get"
    BY RequestForm
  <2> HIDE DEF b
  <2>2. PICK q : q = [b EXCEPT !.id = u]
    OBVIOUS
  <2>3. IsCall(q) /\ q.op = b.op /\ q.step = b.step
    BY <2>1, <2>2 DEF IsCall, Fields
  <2>4. Request(q, "DeleteUser")
    BY <2>1, <2>3
  <2> QED
    BY <2>2, <2>4 DEF b
<1> HIDE DEF Request
<1> QED
  BY <1>1, <1>2, <1>3, <1>4, <1>5, <1>6

LEMMA ArriveForm ==
  ASSUME NEW c \in Callers, Arrive(c)
  PROVE  \E r : ArrivesAs(c, r)
<1>1. UNCHANGED <<users, sessions, apiTokens, given>>
  BY DEF Arrive
<1>2. ASSUME NEW e \in Emails, NEW p \in Passwords,
             \/ ByAnyone(c, [NewCall("Setup", "count") EXCEPT !.email = e, !.password = p])
             \/ ByAnyone(c, [NewCall("Login", "validate") EXCEPT !.email = e, !.password = p])
      PROVE  \E r : ArrivesAs(c, r)
  <2>1. CASE ByAnyone(c, [NewCall("Setup", "count") EXCEPT !.email = e, !.password = p])
    <3>1. Request([NewCall("Setup", "count") EXCEPT !.email = e, !.password = p], "Setup")
      BY RequestKinds
    <3> QED
      BY <1>1, <2>1, <3>1, ThroughForm DEF Anyone
  <2>2. CASE ByAnyone(c, [NewCall("Login", "validate") EXCEPT !.email = e, !.password = p])
    <3>1. Request([NewCall("Login", "validate") EXCEPT !.email = e, !.password = p], "Login")
      BY RequestKinds
    <3> QED
      BY <1>1, <2>2, <3>1, ThroughForm DEF Anyone
  <2> QED
    BY <1>2, <2>1, <2>2
<1>3. CASE ByUser(c, NewCall("Logout", "delete")) \/ ByUser(c, NewCall("CreateToken", "insert"))
  <2>1. ASSUME NEW op \in {"Logout", "CreateToken"}, NEW step \in {"delete", "insert"}
        PROVE  Request(NewCall(op, step), op)
    <3>1. PICK b : b = NewCall(op, step)
      OBVIOUS
    <3>2. IsCall(b) /\ b.op = op /\ b.step = step
      BY <3>1, RequestForm
    <3>3. Request(b, op)
      BY <3>2 DEF Request, RequestOK, AccountOps, OwnOps, Steps
    <3> QED
      BY <3>1, <3>3
  <2> QED
    BY <1>1, <1>3, <2>1, ThroughForm DEF OwnOps
<1>4. CASE \E p, q \in Passwords :
             ByUser(c, [NewCall("ChangePassword", "validate") EXCEPT !.current = p, !.password = q])
  <2>1. PICK p \in Passwords, q \in Passwords :
             ByUser(c, [NewCall("ChangePassword", "validate") EXCEPT !.current = p, !.password = q])
    BY <1>4
  <2>2. Request([NewCall("ChangePassword", "validate") EXCEPT !.current = p, !.password = q], "ChangePassword")
    BY RequestKinds
  <2> QED
    BY <1>1, <2>1, <2>2, ThroughForm DEF Anyone, OwnOps
<1>5. CASE \E t \in Tokens : ByUser(c, [NewCall("DeleteToken", "delete") EXCEPT !.token = t])
  <2>1. PICK t \in Tokens : ByUser(c, [NewCall("DeleteToken", "delete") EXCEPT !.token = t])
    BY <1>5
  <2>2. Request([NewCall("DeleteToken", "delete") EXCEPT !.token = t], "DeleteToken")
    BY RequestKinds
  <2> QED
    BY <1>1, <2>1, <2>2, ThroughForm DEF Anyone, OwnOps
<1>6. CASE \E e \in Emails, p \in Passwords, r \in Roles :
             ByAdmin(c, [NewCall("CreateUser", "find") EXCEPT !.email = e, !.password = p, !.role = r])
  <2>1. PICK e \in Emails, p \in Passwords, r \in Roles :
             ByAdmin(c, [NewCall("CreateUser", "find") EXCEPT !.email = e, !.password = p, !.role = r])
    BY <1>6
  <2>2. Request([NewCall("CreateUser", "find") EXCEPT !.email = e, !.password = p, !.role = r], "CreateUser")
    BY RequestKinds
  <2> QED
    BY <1>1, <2>1, <2>2, ThroughForm DEF Anyone, OwnOps
<1>7. CASE \E u \in Ids, r \in Roles, p \in Passwords \cup {"", "short"} :
             ByAdmin(c, [NewCall("UpdateUser", "get") EXCEPT !.id = u, !.role = r, !.password = p])
  <2>1. PICK u \in Ids, r \in Roles, p \in Passwords \cup {"", "short"} :
             ByAdmin(c, [NewCall("UpdateUser", "get") EXCEPT !.id = u, !.role = r, !.password = p])
    BY <1>7
  <2>2. Request([NewCall("UpdateUser", "get") EXCEPT !.id = u, !.role = r, !.password = p], "UpdateUser")
    BY RequestKinds
  <2> QED
    BY <1>1, <2>1, <2>2, ThroughForm DEF Anyone, OwnOps
<1>8. CASE \E u \in Ids : ByAdmin(c, [NewCall("DeleteUser", "get") EXCEPT !.id = u])
  <2>1. PICK u \in Ids : ByAdmin(c, [NewCall("DeleteUser", "get") EXCEPT !.id = u])
    BY <1>8
  <2>2. Request([NewCall("DeleteUser", "get") EXCEPT !.id = u], "DeleteUser")
    BY RequestKinds
  <2> QED
    BY <1>1, <2>1, <2>2, ThroughForm DEF Anyone, OwnOps
<1> QED
  BY <1>2, <1>3, <1>4, <1>5, <1>6, <1>7, <1>8 DEF Arrive

-----------------------------------------------------------------------------
(* What a step has to leave                                                *)

Inv == FormInv /\ AdminInv

TakesAs(r) ==
  \/ r.op = "UpdateUser" /\ r.step = "write" /\ r.role # "admin"
  \/ r.op = "DeleteUser" /\ r.step = "delete"

\* A step of a request that goes on as r: it leaves an administrator, to every
\* other request that takes rights one besides its user, and so to r.
LEMMA StepKeeps ==
  ASSUME Inv, NEW c \in Callers, NEW r, IsCall(r), call' = [call EXCEPT ![c] = r],
         r.op \in {call[c].op, "none"}, given \subseteq given',
         DOMAIN users' \cup DOMAIN sessions' \cup DOMAIN apiTokens' \subseteq given',
         \A u \in DOMAIN users' : IsUser(users'[u]),
         given' # {} => Admins' # {},
         \A d \in Callers \ {c} : Takes(d) => \E a \in Admins' : a # call[d].id,
         TakesAs(r) => \E a \in Admins' : a # r.id
  PROVE  Inv'
<1>1. /\ call' = [d \in Callers |-> call'[d]]
      /\ call'[c] = r /\ \A d \in Callers \ {c} : call'[d] = call[d]
  BY DEF Inv, FormInv
<1>2. FormInv'
  BY <1>1 DEF Inv, FormInv
<1>3. \A d \in Callers : call'[d].op \in AdminOps => given' # {}
  BY <1>1 DEF Inv, AdminInv, AdminOps
<1>4. \A d \in Callers : Takes(d)' => \E a \in Admins' : a # call'[d].id
  BY <1>1 DEF Takes, TakesAs, At
<1>5. \A d, e \in Callers :
        call'[d].op \in {"UpdateUser", "DeleteUser"} /\ call'[e].op \in {"UpdateUser", "DeleteUser"} => d = e
  BY <1>1 DEF Inv, AdminInv
<1> QED
  BY <1>2, <1>3, <1>4, <1>5 DEF Inv, AdminInv, AdminStays

\* A step that takes nobody's rights, nor is about to.
LEMMA GrowKeeps ==
  ASSUME Inv, NEW c \in Callers, NEW r, IsCall(r), call' = [call EXCEPT ![c] = r],
         r.op \in {call[c].op, "none"}, given \subseteq given',
         DOMAIN users' \cup DOMAIN sessions' \cup DOMAIN apiTokens' \subseteq given',
         \A u \in DOMAIN users' : IsUser(users'[u]),
         Admins \subseteq Admins',
         given # {} \/ given' = given \/ Admins' # {},
         ~TakesAs(r)
  PROVE  Inv'
<1>1. given' # {} => Admins' # {}
  BY DEF Inv, AdminInv, AdminStays
<1>2. \A d \in Callers \ {c} : Takes(d) => \E a \in Admins' : a # call[d].id
  BY DEF Inv, AdminInv
<1> QED
  BY <1>1, <1>2, StepKeeps

\* What Goto and Answer leave of a call.
LEMMA CallForm ==
  ASSUME Inv, NEW c \in Callers, NEW step
  PROVE  /\ IsCall(NoCall) /\ NoCall.op = "none" /\ ~TakesAs(NoCall)
         /\ LET r == [call[c] EXCEPT !.step = step]
            IN  IsCall(r) /\ r.op = call[c].op /\ r.step = step /\ r.role = call[c].role /\ r.id = call[c].id
<1>1. IsCall(NoCall) /\ NoCall.op = "none" /\ ~TakesAs(NoCall)
  BY DEF IsCall, NoCall, Fields, TakesAs
<1>2. IsCall(call[c])
  BY DEF Inv, FormInv
<1> QED
  BY <1>1, <1>2 DEF IsCall, Fields

-----------------------------------------------------------------------------
(* Every action                                                            *)

\* The rows of users, and who is an administrator, are as before.
LEMMA SameUsers ==
  ASSUME Inv, users' = users
  PROVE  Admins' = Admins /\ \A u \in DOMAIN users' : IsUser(users'[u])
BY DEF Inv, FormInv, Admins

\* A request that goes on or is answered, and takes nobody's rights next.
Quietly(c) ==
  \/ Answer(c)
  \/ \E step \in Steps \ {"write", "delete"} : Goto(c, step)
  \/ \E u : SignIn(c, u)

GoesOnAs(c, r) ==
  call' = [call EXCEPT ![c] = r] /\ IsCall(r) /\ r.op \in {call[c].op, "none"}

LEMMA QuietCall ==
  ASSUME Inv, NEW c \in Callers, Quietly(c)
  PROVE  \E r : GoesOnAs(c, r) /\ ~TakesAs(r)
<1>1. CASE Answer(c)
  BY <1>1, CallForm DEF Answer, GoesOnAs
<1>2. ASSUME NEW step \in Steps \ {"write", "delete"}, Goto(c, step)
      PROVE  \E r : GoesOnAs(c, r) /\ ~TakesAs(r)
  <2> DEFINE r == [call[c] EXCEPT !.step = step]
  <2>1. IsCall(r) /\ r.op = call[c].op /\ r.step = step
    BY CallForm
  <2>2. call' = [call EXCEPT ![c] = r]
    BY <1>2 DEF Goto
  <2>3. GoesOnAs(c, r) /\ ~TakesAs(r)
    BY <1>2, <2>1, <2>2 DEF GoesOnAs, TakesAs
  <2> QED
    BY <2>3
<1>3. ASSUME NEW u, SignIn(c, u)
      PROVE  \E r : GoesOnAs(c, r) /\ ~TakesAs(r)
  <2> DEFINE r == [call[c] EXCEPT !.step = "issue", !.id = u]
  <2>1. IsCall(r) /\ r.op = call[c].op /\ r.step = "issue"
    BY DEF Inv, FormInv, IsCall, Fields
  <2>2. call' = [call EXCEPT ![c] = r]
    BY <1>3 DEF SignIn
  <2>3. GoesOnAs(c, r) /\ ~TakesAs(r)
    BY <1>3, <2>1, <2>2 DEF GoesOnAs, TakesAs
  <2> QED
    BY <2>3
<1> QED
  BY <1>1, <1>2, <1>3 DEF Quietly

\* Requests that only look, or that change sessions and API tokens.
LEMMA LookKeeps ==
  ASSUME Inv, NEW c \in Callers,
         \/ Setup(c) \/ Login(c) \/ Logout(c) \/ ChangePassword(c) \/ SignOut(c)
         \/ DeleteToken(c) \/ FindEmail(c)
  PROVE  Inv'
<1>1. /\ users' = users /\ given' = given
      /\ DOMAIN sessions' \subseteq DOMAIN sessions /\ DOMAIN apiTokens' \subseteq DOMAIN apiTokens
  BY DEF Setup, Login, Logout, ChangePassword, SignOut, DeleteToken, FindEmail, Without, Restrict
<1>2. Quietly(c)
  BY DEF Setup, Login, Logout, ChangePassword, SignOut, DeleteToken, FindEmail, Quietly, Steps
<1> QED
  BY <1>1, <1>2, SameUsers, QuietCall, GrowKeeps DEF GoesOnAs, Inv, AdminInv

\* A session or an API token is made for a user who is there.
LEMMA TokenKeeps ==
  ASSUME Inv, NEW c \in Callers, Issue(c) \/ CreateToken(c)
  PROVE  Inv'
<1>1. users' = users /\ call' = [call EXCEPT ![c] = NoCall]
  BY DEF Issue, CreateToken, Answer
<1>2. /\ given \subseteq given' /\ DOMAIN sessions' \cup DOMAIN apiTokens' \subseteq given'
      /\ given # {} \/ given' = given
  BY DEF Issue, CreateToken, With, Inv, AdminInv
<1> QED
  BY <1>1, <1>2, SameUsers, CallForm, GrowKeeps DEF Inv, AdminInv

\* Setup makes an administrator; who else makes a user is one.
LEMMA InsertKeeps ==
  ASSUME Inv, NEW c \in Callers, InsertUser(c)
  PROVE  Inv'
<1>1. CASE Taken(call[c].email)
  BY <1>1, SameUsers, CallForm, GrowKeeps DEF InsertUser, Answer, Inv, AdminInv
<1>2. CASE ~Taken(call[c].email)
  <2> DEFINE u == Fresh(Ids)
  <2> DEFINE row == [email |-> call[c].email, password |-> call[c].password,
                     role |-> IF call[c].op = "Setup" THEN "admin" ELSE call[c].role]
  <2>1. /\ users' = With(users, u, row) /\ given' = given \cup {u} /\ Ids \ given # {}
        /\ UNCHANGED <<sessions, apiTokens>>
    BY <1>2 DEF InsertUser
  <2>2. u \notin given
    BY <2>1 DEF Fresh
  <2>3. u \notin DOMAIN users
    BY <2>2 DEF Inv, AdminInv
  <2>4. /\ DOMAIN users' = DOMAIN users \cup {u} /\ users'[u] = row
        /\ \A v \in DOMAIN users : users'[v] = users[v]
    BY <2>1, <2>3 DEF With
  <2>5. IsUser(row)
    BY DEF IsUser
  <2>6. (\A v \in DOMAIN users' : IsUser(users'[v])) /\ Admins \subseteq Admins'
    BY <2>4, <2>5 DEF Inv, FormInv, Admins
  <2>7. given # {} \/ Admins' # {}
    <3>1. CASE call[c].op = "Setup"
      BY <3>1, <2>4 DEF Admins
    <3>2. CASE call[c].op = "CreateUser"
      BY <3>2 DEF Inv, AdminInv, AdminOps
    <3> QED
      BY <3>1, <3>2 DEF InsertUser, At
  <2>8. Quietly(c)
    BY <1>2 DEF InsertUser, Quietly, Steps
  <2> QED
    BY <2>1, <2>4, <2>6, <2>7, <2>8, QuietCall, GrowKeeps DEF GoesOnAs, Inv, AdminInv
<1> QED
  BY <1>1, <1>2

\* A password is no right.
LEMMA PasswordKeeps ==
  ASSUME Inv, NEW c \in Callers, SetPassword(c)
  PROVE  Inv'
<1>1. /\ DOMAIN users' = DOMAIN users
      /\ \A u \in DOMAIN users : users'[u].role = users[u].role /\ IsUser(users'[u])
  BY DEF SetPassword, Inv, FormInv, IsUser
<1>2. Admins' = Admins
  BY <1>1 DEF Admins
<1>3. Quietly(c)
  BY DEF SetPassword, Quietly, Steps
<1> QED
  BY <1>1, <1>2, <1>3, QuietCall, GrowKeeps DEF GoesOnAs, SetPassword, Inv, AdminInv

\* A call of c that may change rights is the only one that may.
LEMMA OnlyOne ==
  ASSUME Inv, NEW c \in Callers, call[c].op \in {"UpdateUser", "DeleteUser"}, NEW d \in Callers \ {c}
  PROVE  ~Takes(d)
BY DEF Inv, AdminInv, Takes, At

\* Who is no administrator leaves one.
LEMMA GetKeeps ==
  ASSUME Inv, NEW c \in Callers, GetUser(c)
  PROVE  Inv'
<1>1. call[c].op \in {"UpdateUser", "DeleteUser"} /\ UNCHANGED <<users, sessions, apiTokens, given>>
  BY DEF GetUser, At
<1>2. Admins # {}
  BY <1>1 DEF Inv, AdminInv, AdminStays, AdminOps
<1>3. CASE Answer(c) \/ Goto(c, "count")
  <2>1. Quietly(c)
    BY <1>3 DEF Quietly, Steps
  <2> QED
    BY <1>1, <2>1, QuietCall, SameUsers, GrowKeeps DEF GoesOnAs, Inv, AdminInv
<1>4. CASE ~(Answer(c) \/ Goto(c, "count"))
  <2> DEFINE does == IF call[c].op = "UpdateUser" THEN "write" ELSE "delete"
  <2> HIDE DEF does
  <2> DEFINE r == [call[c] EXCEPT !.step = does]
  <2>1. /\ call[c].id \in DOMAIN users
        /\ users[call[c].id].role # "admin" \/ (call[c].op = "UpdateUser" /\ call[c].role = "admin")
        /\ Goto(c, does)
    BY <1>4 DEF GetUser, does
  <2>4. call' = [call EXCEPT ![c] = r]
    BY <2>1 DEF Goto
  <2>2. IsCall(r) /\ r.op = call[c].op /\ r.role = call[c].role /\ r.id = call[c].id
    BY CallForm
  <2>3. TakesAs(r) => \E a \in Admins : a # r.id
    BY <1>2, <2>1, <2>2 DEF TakesAs, Admins
  <2> QED
    BY <1>1, <1>2, <2>2, <2>3, <2>4, SameUsers, OnlyOne, StepKeeps DEF Inv, AdminInv
<1> QED
  BY <1>3, <1>4

\* Who is not the only administrator leaves another.
LEMMA CountKeeps ==
  ASSUME Inv, NEW c \in Callers, CountAdmins(c)
  PROVE  Inv'
<1>1. call[c].op \in {"UpdateUser", "DeleteUser"} /\ UNCHANGED <<users, sessions, apiTokens, given>>
  BY DEF CountAdmins, At
<1>2. Admins # {}
  BY <1>1 DEF Inv, AdminInv, AdminStays, AdminOps
<1>3. CASE Answer(c)
  <2>1. Quietly(c)
    BY <1>3 DEF Quietly
  <2> QED
    BY <1>1, <2>1, QuietCall, SameUsers, GrowKeeps DEF GoesOnAs, Inv, AdminInv
<1>4. CASE ~Answer(c)
  <2> DEFINE does == IF call[c].op = "UpdateUser" THEN "write" ELSE "delete"
  <2> HIDE DEF does
  <2> DEFINE r == [call[c] EXCEPT !.step = does]
  <2>1. ~(Cardinality(Admins) <= 1) /\ Goto(c, does)
    BY <1>4 DEF CountAdmins, does
  <2>4. call' = [call EXCEPT ![c] = r]
    BY <2>1 DEF Goto
  <2>2. IsCall(r) /\ r.op = call[c].op /\ r.role = call[c].role /\ r.id = call[c].id
    BY CallForm
  <2>3. \E a \in Admins : a # r.id
    BY <2>1, AnotherAdmin
  <2> QED
    BY <1>1, <1>2, <2>2, <2>3, <2>4, SameUsers, OnlyOne, StepKeeps DEF Inv, AdminInv
<1> QED
  BY <1>3, <1>4

\* The rights taken are one user's.
LEMMA WriteKeeps ==
  ASSUME Inv, NEW c \in Callers, WriteRole(c)
  PROVE  Inv'
<1>1. call[c].op = "UpdateUser" /\ call[c].step = "write" /\ UNCHANGED <<sessions, apiTokens, given>>
  BY DEF WriteRole, At
<1>2. /\ DOMAIN users' = DOMAIN users
      /\ \A u \in DOMAIN users : IsUser(users'[u])
      /\ \A u \in DOMAIN users : users'[u].role = IF u = call[c].id THEN call[c].role ELSE users[u].role
  BY DEF WriteRole, Inv, FormInv, IsUser
<1>3. Admins' # {}
  <2>1. CASE call[c].role = "admin"
    <3>1. Admins # {}
      BY <1>1 DEF Inv, AdminInv, AdminStays, AdminOps
    <3> QED
      BY <1>2, <2>1, <3>1 DEF Admins
  <2>2. CASE call[c].role # "admin"
    <3>1. PICK a \in Admins : a # call[c].id
      BY <1>1, <2>2 DEF Inv, AdminInv, Takes, At
    <3> QED
      BY <1>2, <3>1 DEF Admins
  <2> QED
    BY <2>1, <2>2
<1>4. Quietly(c)
  BY DEF WriteRole, Quietly, Steps
<1> QED
  BY <1>1, <1>2, <1>3, <1>4, QuietCall, OnlyOne, StepKeeps DEF GoesOnAs, Inv, AdminInv

LEMMA DeleteKeeps ==
  ASSUME Inv, NEW c \in Callers, DeleteUser(c)
  PROVE  Inv'
<1>1. call[c].op = "DeleteUser" /\ Takes(c) /\ given' = given /\ Quietly(c)
  BY DEF DeleteUser, At, Takes, Quietly
<1>2. /\ DOMAIN users' \subseteq DOMAIN users /\ DOMAIN sessions' \subseteq DOMAIN sessions
      /\ DOMAIN apiTokens' \subseteq DOMAIN apiTokens
      /\ \A u \in DOMAIN users' : users'[u] = users[u]
      /\ \A u \in DOMAIN users \ {call[c].id} : u \in DOMAIN users'
  BY DEF DeleteUser, Without, Restrict
<1>3. PICK a \in Admins : a # call[c].id
  BY <1>1 DEF Inv, AdminInv
<1>4. a \in Admins' /\ \A u \in DOMAIN users' : IsUser(users'[u])
  BY <1>2, <1>3 DEF Admins, Inv, FormInv
<1> QED
  BY <1>1, <1>2, <1>4, QuietCall, OnlyOne, StepKeeps DEF GoesOnAs, Inv, AdminInv

\* Of the requests that change rights the next arrives when the last is
\* answered; an administrator's needs one who made the session.
LEMMA ArriveKeeps ==
  ASSUME Inv, NEW c \in Callers, Arrive(c), {"UpdateUser", "DeleteUser"} \in Alone
  PROVE  Inv'
<1>1. PICK r : ArrivesAs(c, r)
  BY ArriveForm
<1>2. /\ call' = [d \in Callers |-> call'[d]]
      /\ call'[c] = r /\ \A d \in Callers \ {c} : call'[d] = call[d]
  BY <1>1 DEF Inv, FormInv, ArrivesAs
<1>3. Admins' = Admins /\ UNCHANGED <<users, sessions, apiTokens, given>>
  BY <1>1 DEF ArrivesAs, Admins
<1>4. FormInv'
  BY <1>1, <1>2, <1>3 DEF Inv, FormInv, ArrivesAs, Request
<1>5. \A d \in Callers : call'[d].op \in AdminOps => given' # {}
  BY <1>1, <1>2, <1>3 DEF Inv, AdminInv, ArrivesAs
<1>6. ~Takes(c)'
  BY <1>1, <1>2 DEF ArrivesAs, Request, Takes, At
<1>7. \A d \in Callers : Takes(d)' => \E a \in Admins' : a # call'[d].id
  BY <1>2, <1>3, <1>6 DEF Inv, AdminInv, Takes, At
<1>8. \A d, e \in Callers :
        call'[d].op \in {"UpdateUser", "DeleteUser"} /\ call'[e].op \in {"UpdateUser", "DeleteUser"} => d = e
  <2>1. r.op \in {"UpdateUser", "DeleteUser"} =>
          \A d \in Callers : call[d].op \notin {"UpdateUser", "DeleteUser"}
    BY <1>1 DEF ArrivesAs, MayArrive
  <2> QED
    BY <1>2, <2>1 DEF Inv, AdminInv
<1> QED
  BY <1>3, <1>4, <1>5, <1>7, <1>8 DEF Inv, AdminInv, AdminStays

LEMMA ExpireKeeps ==
  ASSUME Inv, NEW t \in DOMAIN sessions, Expire(t)
  PROVE  Inv'
<1>1. DOMAIN sessions' \subseteq DOMAIN sessions /\ UNCHANGED <<users, apiTokens, given, call>>
  BY DEF Expire, Without, Restrict
<1> QED
  BY <1>1 DEF Inv, FormInv, AdminInv, AdminStays, Admins, Takes, At

LEMMA InitInv == AccountsInit => Inv
<1> SUFFICES ASSUME AccountsInit PROVE Inv
  OBVIOUS
<1>1. \A c \in Callers : call[c] = NoCall
  BY DEF AccountsInit
<1>2. IsCall(NoCall) /\ NoCall.op = "none"
  BY DEF IsCall, NoCall, Fields
<1>3. DOMAIN users = {} /\ DOMAIN sessions = {} /\ DOMAIN apiTokens = {}
  BY DEF AccountsInit
<1>4. FormInv
  BY <1>1, <1>2, <1>3 DEF AccountsInit, FormInv
<1>5. AdminInv
  BY <1>1, <1>2, <1>3 DEF AccountsInit, AdminInv, AdminStays, Takes, At, AdminOps
<1> QED
  BY <1>4, <1>5 DEF Inv

LEMMA NextInv ==
  ASSUME Inv, [AccountsNext]_accountVars, {"UpdateUser", "DeleteUser"} \in Alone
  PROVE  Inv'
<1>1. CASE UNCHANGED accountVars
  BY <1>1 DEF accountVars, Inv, FormInv, AdminInv, AdminStays, Admins, Takes, At
<1>2. ASSUME NEW c \in Callers, Arrive(c) PROVE Inv'
  BY <1>2, ArriveKeeps
<1>3. ASSUME NEW c \in Callers,
             \/ Setup(c) \/ Login(c) \/ Logout(c) \/ ChangePassword(c) \/ SignOut(c)
             \/ DeleteToken(c) \/ FindEmail(c)
      PROVE  Inv'
  BY <1>3, LookKeeps
<1>4. ASSUME NEW c \in Callers, InsertUser(c) \/ Issue(c) \/ CreateToken(c) \/ SetPassword(c)
      PROVE  Inv'
  BY <1>4, InsertKeeps, TokenKeeps, PasswordKeeps
<1>5. ASSUME NEW c \in Callers, GetUser(c) \/ CountAdmins(c) \/ WriteRole(c) \/ DeleteUser(c)
      PROVE  Inv'
  BY <1>5, GetKeeps, CountKeeps, WriteKeeps, DeleteKeeps
<1>6. ASSUME NEW t \in DOMAIN sessions, Expire(t) PROVE Inv'
  BY <1>6, ExpireKeeps
<1> QED
  BY <1>1, <1>2, <1>3, <1>4, <1>5, <1>6 DEF AccountsNext

\* When demotions and deletions of users come one at a time, an installation
\* that has been set up always has an administrator (db/auth.go ErrLastAdmin),
\* however every other request interleaves with them.
THEOREM AdministratorStays ==
  ASSUME {"UpdateUser", "DeleteUser"} \in Alone
  PROVE  AccountsSpec => []AdminStays
<1>1. AccountsInit => Inv
  BY InitInv
<1>2. Inv /\ [AccountsNext]_accountVars => Inv'
  BY NextInv
<1>3. Inv => AdminStays
  BY DEF Inv, AdminInv
<1> QED
  BY <1>1, <1>2, <1>3, PTL DEF AccountsSpec
-----------------------------------------------------------------------------
(* Types                                                                   *)

\* What a handler does after its request arrived.
Handles(c) ==
  \/ Setup(c) \/ InsertUser(c) \/ Login(c) \/ Issue(c) \/ Logout(c)
  \/ ChangePassword(c) \/ SetPassword(c) \/ SignOut(c)
  \/ CreateToken(c) \/ DeleteToken(c)
  \/ FindEmail(c) \/ GetUser(c) \/ CountAdmins(c) \/ WriteRole(c) \/ DeleteUser(c)

CallsForm ==
  /\ call = [c \in Callers |-> call[c]]
  /\ \A c \in Callers : IsCall(call[c]) /\ RequestOK(call[c])

\* Everything a request carries, apart from where it is and whom it signs in.
Carries(r, q) ==
  /\ r.op = q.op /\ r.by = q.by /\ r.email = q.email /\ r.password = q.password /\ r.role = q.role

\* Where a step leaves the request of its caller.
LEMMA Leaves ==
  ASSUME CallsForm, NEW c \in Callers
  PROVE  /\ Answer(c) => call'[c] = NoCall
         /\ \A step : Goto(c, step) =>
              /\ IsCall(call'[c]) /\ Carries(call'[c], call[c])
              /\ call'[c].step = step /\ call'[c].id = call[c].id
         /\ \A u : SignIn(c, u) =>
              /\ IsCall(call'[c]) /\ Carries(call'[c], call[c])
              /\ call'[c].step = "issue" /\ call'[c].id = u
<1>1. IsCall(call[c])
  BY DEF CallsForm
<1>2. Answer(c) => call'[c] = NoCall
  BY DEF Answer, CallsForm
<1>3. ASSUME NEW step, Goto(c, step)
      PROVE  /\ IsCall(call'[c]) /\ Carries(call'[c], call[c])
             /\ call'[c].step = step /\ call'[c].id = call[c].id
  <2>1. PICK r : r = [call[c] EXCEPT !.step = step]
    OBVIOUS
  <2>2. IsCall(r) /\ Carries(r, call[c]) /\ r.step = step /\ r.id = call[c].id
    BY <1>1, <2>1 DEF IsCall, Fields, Carries
  <2>3. call'[c] = r
    BY <1>3, <2>1 DEF Goto, CallsForm
  <2> QED
    BY <2>2, <2>3
<1>4. ASSUME NEW u, SignIn(c, u)
      PROVE  /\ IsCall(call'[c]) /\ Carries(call'[c], call[c])
             /\ call'[c].step = "issue" /\ call'[c].id = u
  <2>1. PICK r : r = [call[c] EXCEPT !.step = "issue", !.id = u]
    OBVIOUS
  <2>2. IsCall(r) /\ Carries(r, call[c]) /\ r.step = "issue" /\ r.id = u
    BY <1>1, <2>1 DEF IsCall, Fields, Carries
  <2>3. call'[c] = r
    BY <1>4, <2>1 DEF SignIn, CallsForm
  <2> QED
    BY <2>2, <2>3
<1> QED
  BY <1>2, <1>3, <1>4

\* A handler only moves its own request, which stays a request.
LEMMA HandledCalls ==
  ASSUME CallsForm, NEW c \in Callers, Handles(c)
  PROVE  /\ CallsForm' /\ \A d \in Callers \ {c} : call'[d] = call[d]
         /\ call'[c] = NoCall \/ Carries(call'[c], call[c])
<1>0. call[c] # NoCall /\ RequestOK(call[c])
  <2>1. call[c].op # "none"
    BY DEF Handles, Setup, InsertUser, Login, Issue, Logout, ChangePassword, SetPassword, SignOut,
           CreateToken, DeleteToken, FindEmail, GetUser, CountAdmins, WriteRole, DeleteUser, At
  <2> QED
    BY <2>1 DEF CallsForm, NoCall
<1>9. IsCall(NoCall) /\ RequestOK(NoCall)
  BY DEF IsCall, NoCall, Fields, RequestOK
<1>1. \/ Answer(c)
      \/ \E u : SignIn(c, u)
      \/ \E step \in Steps :
           Goto(c, step) /\ (call[c].op = "UpdateUser" /\ step = "password" => call[c].password \in Passwords)
  <2>1. CASE Setup(c) \/ InsertUser(c) \/ Login(c) \/ Issue(c) \/ Logout(c) \/ SignOut(c)
             \/ CreateToken(c) \/ DeleteToken(c) \/ FindEmail(c) \/ DeleteUser(c)
    BY <2>1 DEF Setup, InsertUser, Login, Issue, Logout, SignOut, CreateToken, DeleteToken, FindEmail,
                DeleteUser, Steps
  <2>2. CASE ChangePassword(c) \/ SetPassword(c)
    BY <2>2 DEF ChangePassword, SetPassword, Steps, At
  <2>3. CASE GetUser(c) \/ CountAdmins(c)
    BY <2>3 DEF GetUser, CountAdmins, Steps
  <2>4. CASE WriteRole(c)
    <3>1. call[c].op = "UpdateUser" /\ call[c].password \in Passwords \cup {"", "short"}
      BY <1>0, <2>4 DEF WriteRole, At, RequestOK
    <3> QED
      BY <2>4, <3>1 DEF WriteRole, Steps
  <2> QED
    BY <2>1, <2>2, <2>3, <2>4 DEF Handles
<1>2. /\ call' = [d \in Callers |-> call'[d]]
      /\ \A d \in Callers \ {c} : call'[d] = call[d]
  BY <1>1 DEF Answer, SignIn, Goto, CallsForm
<1>3. /\ IsCall(call'[c]) /\ RequestOK(call'[c])
      /\ call'[c] = NoCall \/ Carries(call'[c], call[c])
  <2>1. CASE Answer(c)
    BY <1>9, <2>1, Leaves
  <2>2. CASE \E u : SignIn(c, u)
    <3>1. IsCall(call'[c]) /\ Carries(call'[c], call[c]) /\ call'[c].step = "issue"
      BY <2>2, Leaves
    <3> QED
      BY <1>0, <3>1 DEF RequestOK, Carries, Steps
  <2>3. ASSUME NEW step \in Steps, Goto(c, step),
               call[c].op = "UpdateUser" /\ step = "password" => call[c].password \in Passwords
        PROVE  /\ IsCall(call'[c]) /\ RequestOK(call'[c])
               /\ Carries(call'[c], call[c])
    <3>1. IsCall(call'[c]) /\ Carries(call'[c], call[c]) /\ call'[c].step = step
      BY <2>3, Leaves
    <3> QED
      BY <1>0, <2>3, <3>1 DEF RequestOK, Carries
  <2> QED
    BY <1>1, <2>1, <2>2, <2>3
<1> QED
  BY <1>2, <1>3 DEF CallsForm

\* The part of AccountsTypeOK about the tables.
RowsOK ==
  /\ DOMAIN users \subseteq Ids \cap given
  /\ \A u \in DOMAIN users : users[u] \in [email : Emails, role : Roles, password : Passwords]
  /\ DOMAIN sessions \cup DOMAIN apiTokens \subseteq Tokens \cap given
  /\ \A t \in DOMAIN sessions : sessions[t] \in [user : DOMAIN users, password : Passwords]
  /\ \A t \in DOMAIN apiTokens : apiTokens[t] \in DOMAIN users
  /\ given \subseteq Ids \cup Tokens

\* Rows of sessions and API tokens may go, and no user does.
LEMMA RowsGo ==
  ASSUME RowsOK, given' = given, DOMAIN users' = DOMAIN users,
         \A u \in DOMAIN users : users'[u] \in [email : Emails, role : Roles, password : Passwords],
         DOMAIN sessions' \subseteq DOMAIN sessions, \A t \in DOMAIN sessions' : sessions'[t] = sessions[t],
         DOMAIN apiTokens' \subseteq DOMAIN apiTokens, \A t \in DOMAIN apiTokens' : apiTokens'[t] = apiTokens[t]
  PROVE  RowsOK'
  BY DEF RowsOK

LEMMA RowsStep ==
  ASSUME RowsOK, CallsForm, NEW c \in Callers, Handles(c)
  PROVE  RowsOK'
<1>0. call[c].op # "none" => RequestOK(call[c]) /\ call[c] # NoCall
  BY DEF CallsForm, NoCall
<1>1. CASE \/ Setup(c) \/ Login(c) \/ Logout(c) \/ ChangePassword(c) \/ SignOut(c) \/ DeleteToken(c)
           \/ FindEmail(c) \/ GetUser(c) \/ CountAdmins(c)
  <2>1. users' = users /\ given' = given
    BY <1>1 DEF Setup, Login, Logout, ChangePassword, SignOut, DeleteToken, FindEmail, GetUser, CountAdmins
  <2>2. /\ sessions' = sessions \/ \E keys : sessions' = Without(sessions, keys)
        /\ apiTokens' = apiTokens \/ \E keys : apiTokens' = Without(apiTokens, keys)
    BY <1>1 DEF Setup, Login, Logout, ChangePassword, SignOut, DeleteToken, FindEmail, GetUser, CountAdmins
  <2>3. /\ DOMAIN sessions' \subseteq DOMAIN sessions /\ \A t \in DOMAIN sessions' : sessions'[t] = sessions[t]
        /\ DOMAIN apiTokens' \subseteq DOMAIN apiTokens /\ \A t \in DOMAIN apiTokens' : apiTokens'[t] = apiTokens[t]
    BY <2>2 DEF Without, Restrict
  <2> QED
    BY <2>1, <2>3, RowsGo DEF RowsOK
<1>2. CASE InsertUser(c)
  <2>1. /\ call[c].email \in Emails /\ call[c].password \in Passwords
        /\ call[c].op = "CreateUser" => call[c].role \in Roles
    BY <1>0, <1>2 DEF InsertUser, At, RequestOK
  <2>2. CASE UNCHANGED <<users, given>>
    BY <1>2, <2>2 DEF InsertUser, RowsOK
  <2>3. CASE ~UNCHANGED <<users, given>>
    <3>1. PICK u, row : /\ u = Fresh(Ids) /\ Ids \ given # {}
                        /\ users' = With(users, u, row) /\ given' = given \cup {u}
                        /\ row = [email |-> call[c].email, password |-> call[c].password,
                                  role |-> IF call[c].op = "Setup" THEN "admin" ELSE call[c].role]
      BY <1>2, <2>3 DEF InsertUser
    <3>2. u \in Ids /\ u \notin given
      BY <3>1 DEF Fresh
    <3>3. row \in [email : Emails, role : Roles, password : Passwords]
      BY <1>2, <2>1, <3>1, RolesAssumption DEF InsertUser, At
    <3>4. /\ DOMAIN users' = DOMAIN users \cup {u} /\ users'[u] = row
          /\ \A v \in DOMAIN users : users'[v] = users[v]
      BY <3>1, <3>2 DEF RowsOK, With
    <3>5. UNCHANGED <<sessions, apiTokens>>
      BY <1>2 DEF InsertUser
    <3> QED
      BY <3>1, <3>2, <3>3, <3>4, <3>5 DEF RowsOK
  <2> QED
    BY <2>2, <2>3
<1>3. CASE Issue(c)
  <2>1. call[c].password \in Passwords
    BY <1>0, <1>3 DEF Issue, At, RequestOK
  <2>2. CASE UNCHANGED <<sessions, given>>
    BY <1>3, <2>2 DEF Issue, RowsOK
  <2>3. CASE ~UNCHANGED <<sessions, given>>
    <3>1. PICK t, row : /\ t = Fresh(Tokens) /\ Tokens \ given # {} /\ call[c].id \in DOMAIN users
                        /\ sessions' = With(sessions, t, row) /\ given' = given \cup {t}
                        /\ row = [user |-> call[c].id, password |-> call[c].password]
      BY <1>3, <2>3 DEF Issue
    <3>2. t \in Tokens /\ t \notin given
      BY <3>1 DEF Fresh
    <3>3. row \in [user : DOMAIN users, password : Passwords]
      BY <2>1, <3>1
    <3>4. /\ DOMAIN sessions' = DOMAIN sessions \cup {t} /\ sessions'[t] = row
          /\ \A s \in DOMAIN sessions : sessions'[s] = sessions[s]
      BY <3>1, <3>2 DEF RowsOK, With
    <3>5. UNCHANGED <<users, apiTokens>>
      BY <1>3 DEF Issue
    <3> QED
      BY <3>1, <3>2, <3>3, <3>4, <3>5 DEF RowsOK
  <2> QED
    BY <2>2, <2>3
<1>4. CASE CreateToken(c)
  <2>2. CASE UNCHANGED <<apiTokens, given>>
    BY <1>4, <2>2 DEF CreateToken, RowsOK
  <2>3. CASE ~UNCHANGED <<apiTokens, given>>
    <3>1. PICK t : /\ t = Fresh(Tokens) /\ Tokens \ given # {} /\ call[c].by.id \in DOMAIN users
                   /\ apiTokens' = With(apiTokens, t, call[c].by.id) /\ given' = given \cup {t}
      BY <1>4, <2>3 DEF CreateToken
    <3>2. t \in Tokens /\ t \notin given
      BY <3>1 DEF Fresh
    <3>4. /\ DOMAIN apiTokens' = DOMAIN apiTokens \cup {t} /\ apiTokens'[t] = call[c].by.id
          /\ \A s \in DOMAIN apiTokens : apiTokens'[s] = apiTokens[s]
      BY <3>1, <3>2 DEF RowsOK, With
    <3>5. UNCHANGED <<users, sessions>>
      BY <1>4 DEF CreateToken
    <3> QED
      BY <3>1, <3>2, <3>4, <3>5 DEF RowsOK
  <2> QED
    BY <2>2, <2>3
<1>5. CASE SetPassword(c)
  <2>1. call[c].password \in Passwords
    BY <1>0, <1>5 DEF SetPassword, At, RequestOK
  <2>2. /\ users' = [u \in DOMAIN users |->
                       IF u = Target(c) THEN [users[u] EXCEPT !.password = call[c].password] ELSE users[u]]
        /\ UNCHANGED <<sessions, apiTokens, given>>
    BY <1>5 DEF SetPassword
  <2> QED
    BY <2>1, <2>2, RowsGo DEF RowsOK
<1>6. CASE WriteRole(c)
  <2>1. call[c].role \in Roles
    BY <1>0, <1>6 DEF WriteRole, At, RequestOK
  <2>2. /\ users' = [u \in DOMAIN users |->
                       IF u = call[c].id THEN [users[u] EXCEPT !.role = call[c].role] ELSE users[u]]
        /\ UNCHANGED <<sessions, apiTokens, given>>
    BY <1>6 DEF WriteRole
  <2> QED
    BY <2>1, <2>2, RowsGo DEF RowsOK
<1>7. CASE DeleteUser(c)
  <2>1. PICK u : u = call[c].id
    OBVIOUS
  <2>2. /\ users' = Without(users, {u}) /\ sessions' = Without(sessions, SessionsOf(u))
        /\ apiTokens' = Without(apiTokens, {t \in DOMAIN apiTokens : apiTokens[t] = u}) /\ given' = given
    BY <1>7, <2>1 DEF DeleteUser
  <2>3. /\ DOMAIN users' = DOMAIN users \ {u} /\ \A v \in DOMAIN users' : users'[v] = users[v]
        /\ DOMAIN sessions' = DOMAIN sessions \ SessionsOf(u) /\ \A t \in DOMAIN sessions' : sessions'[t] = sessions[t]
        /\ DOMAIN apiTokens' = DOMAIN apiTokens \ {t \in DOMAIN apiTokens : apiTokens[t] = u}
        /\ \A t \in DOMAIN apiTokens' : apiTokens'[t] = apiTokens[t]
    BY <2>2 DEF Without, Restrict
  <2>4. \A t \in DOMAIN sessions' : sessions[t].user # u
    BY <2>3 DEF SessionsOf
  <2>5. \A t \in DOMAIN sessions' : sessions'[t] \in [user : DOMAIN users', password : Passwords]
    BY <2>3, <2>4 DEF RowsOK
  <2> QED
    BY <2>2, <2>3, <2>5 DEF RowsOK
<1> QED
  BY <1>1, <1>2, <1>3, <1>4, <1>5, <1>6, <1>7 DEF Handles

\* A request that arrives is one, and no other changes.
LEMMA ArrivedCalls ==
  ASSUME CallsForm, NEW c \in Callers, NEW r, ArrivesAs(c, r)
  PROVE  CallsForm' /\ call'[c] = r /\ \A d \in Callers \ {c} : call'[d] = call[d]
  BY DEF CallsForm, ArrivesAs, Request

\* A session that expires goes.
LEMMA RowsExpire ==
  ASSUME RowsOK, NEW t \in DOMAIN sessions, Expire(t)
  PROVE  RowsOK' /\ DOMAIN sessions' \subseteq DOMAIN sessions
         /\ \A s \in DOMAIN sessions' : sessions'[s] = sessions[s]
<1>1. UNCHANGED <<users, apiTokens, given>> /\ sessions' = Without(sessions, {t})
  BY DEF Expire
<1>2. DOMAIN sessions' \subseteq DOMAIN sessions /\ \A s \in DOMAIN sessions' : sessions'[s] = sessions[s]
  BY <1>1 DEF Without, Restrict
<1> QED
  BY <1>1, <1>2, RowsGo DEF RowsOK

LEMMA TypesInit == AccountsInit => RowsOK /\ CallsForm
<1> SUFFICES ASSUME AccountsInit PROVE RowsOK /\ CallsForm
  OBVIOUS
<1>1. IsCall(NoCall) /\ RequestOK(NoCall)
  BY DEF IsCall, NoCall, Fields, RequestOK
<1>2. CallsForm
  BY <1>1 DEF AccountsInit, CallsForm
<1>3. DOMAIN users = {} /\ DOMAIN sessions = {} /\ DOMAIN apiTokens = {} /\ given = {}
  BY DEF AccountsInit
<1> QED
  BY <1>2, <1>3 DEF RowsOK

LEMMA TypesStep == RowsOK /\ CallsForm /\ [AccountsNext]_accountVars => RowsOK' /\ CallsForm'
<1> SUFFICES ASSUME RowsOK, CallsForm, [AccountsNext]_accountVars
             PROVE  RowsOK' /\ CallsForm'
  OBVIOUS
<1>1. ASSUME NEW c \in Callers, Arrive(c)
      PROVE  RowsOK' /\ CallsForm'
  <2>1. PICK r : ArrivesAs(c, r)
    BY <1>1, ArriveForm
  <2> QED
    BY <2>1, ArrivedCalls DEF ArrivesAs, RowsOK
<1>2. ASSUME NEW c \in Callers, Handles(c)
      PROVE  RowsOK' /\ CallsForm'
  BY <1>2, HandledCalls, RowsStep
<1>3. ASSUME NEW t \in DOMAIN sessions, Expire(t)
      PROVE  RowsOK' /\ CallsForm'
  BY <1>3, RowsExpire DEF Expire, CallsForm
<1>4. CASE UNCHANGED accountVars
  BY <1>4 DEF accountVars, RowsOK, CallsForm
<1> QED
  BY <1>1, <1>2, <1>3, <1>4 DEF AccountsNext, Handles

\* Rows and requests have their types, for any users, tokens and callers, and
\* every session and API token belongs to a user who is there (db/auth.go, the
\* foreign keys).
THEOREM AccountsTypeCorrect == AccountsSpec => []AccountsTypeOK
<1>1. RowsOK /\ CallsForm => AccountsTypeOK
  BY DEF RowsOK, CallsForm, RequestOK, AccountsTypeOK
<1> QED
  BY <1>1, TypesInit, TypesStep, PTL DEF AccountsSpec

-----------------------------------------------------------------------------
(* A password that is replaced signs its sessions out                      *)

\* Whom the user of a session that an old password opened waits for.
Outs(u) == {c \in Callers : call[c].step = "signout" /\ Target(c) = u}

Current(t) == sessions[t].password = users[sessions[t].user].password

PasswordParts ==
  /\ \A t \in DOMAIN sessions : Current(t) \/ Outs(sessions[t].user) # {}
  /\ \A c \in Callers :
       call[c].step = "issue" =>
         /\ call[c].op \in {"Setup", "Login"} /\ call[c].id \in given
         /\ call[c].id \in DOMAIN users => users[call[c].id].password = call[c].password
  /\ \A c, d \in Callers : call[c].op \in PasswordOps /\ call[d].op \in PasswordOps => c = d

LEMMA PasswordPartsAre ==
  PasswordParts => PasswordInv
<1> SUFFICES ASSUME PasswordParts, NEW t \in DOMAIN sessions
             PROVE  \/ sessions[t].password = users[sessions[t].user].password
                    \/ \E c \in Callers : At(c, call[c].op, "signout") /\ Target(c) = sessions[t].user
  BY DEF PasswordParts, PasswordInv, PasswordSignsOut
<1> QED
  BY DEF PasswordParts, Outs, Current, At

\* A caller who is not signing out keeps those who are.
LEMMA OutsStay ==
  ASSUME CallsForm, NEW c \in Callers, call[c].step # "signout",
         \A d \in Callers \ {c} : call'[d] = call[d], NEW u
  PROVE  Outs(u) \subseteq Outs(u)'
  BY DEF Outs, Target

\* Only SignOut acts for a caller who is signing out.
LEMMA WhoSignsOut ==
  ASSUME NEW c \in Callers, Handles(c), ~SignOut(c)
  PROVE  call[c].step # "signout"
  BY DEF Handles, Setup, InsertUser, Login, Issue, Logout, ChangePassword, SetPassword,
         CreateToken, DeleteToken, FindEmail, GetUser, CountAdmins, WriteRole, DeleteUser, At

\* Every user's password but the one a SetPassword replaces stays, as long as
\* the user does, and a new user's id is new.
LEMMA PasswordsStay ==
  ASSUME RowsOK, CallsForm, NEW c \in Callers, Handles(c)
  PROVE  /\ \A u \in DOMAIN users' \cap DOMAIN users :
              \/ users'[u].password = users[u].password
              \/ SetPassword(c) /\ u = Target(c)
         /\ DOMAIN users' \cap given \subseteq DOMAIN users
         /\ given \subseteq given'
<1>1. CASE InsertUser(c)
  <2>1. CASE UNCHANGED <<users, given>>
    BY <2>1
  <2>2. CASE ~UNCHANGED <<users, given>>
    <3>1. PICK u, row : u = Fresh(Ids) /\ Ids \ given # {} /\ users' = With(users, u, row)
                        /\ given' = given \cup {u}
      BY <1>1, <2>2 DEF InsertUser
    <3>2. u \notin given
      BY <3>1 DEF Fresh
    <3> QED
      BY <3>1, <3>2 DEF With, RowsOK
  <2> QED
    BY <2>1, <2>2
<1>2. CASE SetPassword(c)
  BY <1>2 DEF SetPassword
<1>3. CASE WriteRole(c)
  BY <1>3 DEF WriteRole, RowsOK
<1>4. CASE DeleteUser(c)
  BY <1>4 DEF DeleteUser, Without, Restrict
<1>5. CASE users' = users
  BY <1>5 DEF Handles, InsertUser, Issue, CreateToken, Setup, Login, Logout, ChangePassword, SetPassword,
              SignOut, DeleteToken, FindEmail, GetUser, CountAdmins, WriteRole, DeleteUser
<1> QED
  BY <1>1, <1>2, <1>3, <1>4, <1>5 DEF Handles, Issue, CreateToken, Setup, Login, Logout, ChangePassword,
     SignOut, DeleteToken, FindEmail, GetUser, CountAdmins

\* A session after a step was there before, as it is, or is the one Issue made.
LEMMA SessionKinds ==
  ASSUME RowsOK, CallsForm, NEW c \in Callers, Handles(c), NEW t \in DOMAIN sessions'
  PROVE  \/ t \in DOMAIN sessions /\ sessions'[t] = sessions[t]
         \/ /\ Issue(c) /\ call[c].step = "issue" /\ call[c].id \in DOMAIN users
            /\ sessions'[t] = [user |-> call[c].id, password |-> call[c].password]
<1>1. CASE Issue(c)
  BY <1>1 DEF Issue, With, At
<1>2. CASE sessions' = sessions
  BY <1>2
<1>3. CASE \E keys : sessions' = Without(sessions, keys)
  BY <1>3 DEF Without, Restrict
<1>4. (UNCHANGED sessions) \/ \E keys : sessions' = Without(sessions, keys) \/ Issue(c)
  BY DEF Handles, InsertUser, CreateToken, Setup, Login, Logout, ChangePassword, SetPassword,
         SignOut, DeleteToken, FindEmail, GetUser, CountAdmins, WriteRole, DeleteUser
<1> QED
  BY <1>1, <1>2, <1>3, <1>4

\* Who is about to be signed in has just been checked, or made.
LEMMA SignedIn ==
  ASSUME RowsOK, CallsForm, NEW c \in Callers, Handles(c), call'[c].step = "issue"
  PROVE  \E u : /\ SignIn(c, u) /\ call[c].op \in {"Setup", "Login"} /\ u \in given'
                /\ u \in DOMAIN users' => users'[u].password = call[c].password
<1>1. ~Answer(c)
  BY Leaves DEF NoCall
<1>2. \A step \in Steps \ {"issue"} : ~Goto(c, step)
  BY Leaves
<1>3. Login(c) \/ InsertUser(c)
  BY <1>1, <1>2 DEF Handles, Steps, Issue, CreateToken, Setup, Logout, ChangePassword, SetPassword,
     SignOut, DeleteToken, FindEmail, GetUser, CountAdmins, WriteRole, DeleteUser
<1>4. CASE Login(c)
  BY <1>1, <1>4 DEF Login, At, RowsOK
<1>5. CASE InsertUser(c)
  <2>1. PICK u, row : /\ u = Fresh(Ids) /\ users' = With(users, u, row) /\ given' = given \cup {u}
                      /\ row = [email |-> call[c].email, password |-> call[c].password,
                                role |-> IF call[c].op = "Setup" THEN "admin" ELSE call[c].role]
                      /\ call[c].op = "Setup" /\ SignIn(c, u)
    BY <1>1, <1>5 DEF InsertUser
  <2>2. users'[u] = row /\ row.password = call[c].password
    BY <2>1 DEF With
  <2> QED
    BY <2>1, <2>2
<1> QED
  BY <1>3, <1>4, <1>5

LEMMA PasswordHandled ==
  ASSUME RowsOK, CallsForm, RowsOK', PasswordParts, NEW c \in Callers, Handles(c)
  PROVE  PasswordParts'
<1>0. /\ \A d \in Callers \ {c} : call'[d] = call[d]
      /\ call'[c] = NoCall \/ Carries(call'[c], call[c])
      /\ CallsForm'
  BY HandledCalls
<1>1. \A u \in DOMAIN users' \cap DOMAIN users :
        \/ users'[u].password = users[u].password
        \/ SetPassword(c) /\ u = Target(c)
  BY PasswordsStay
<1>2. \A u \in DOMAIN users' : u \in given => u \in DOMAIN users
  BY PasswordsStay
<1>3. ASSUME NEW t \in DOMAIN sessions'
      PROVE  Current(t)' \/ Outs(sessions[t].user)' # {}
  <2>1. CASE /\ Issue(c) /\ call[c].step = "issue" /\ call[c].id \in DOMAIN users
             /\ sessions'[t] = [user |-> call[c].id, password |-> call[c].password]
    BY <2>1 DEF Issue, PasswordParts, Current
  <2>2. CASE t \in DOMAIN sessions /\ sessions'[t] = sessions[t]
    <3>1. PICK u : u = sessions[t].user /\ u \in DOMAIN users /\ u \in DOMAIN users'
      BY <1>3, <2>2 DEF RowsOK
    <3>2. CASE SetPassword(c) /\ u = Target(c)
      <4>1. Goto(c, "signout")
        BY <3>2 DEF SetPassword
      <4>2. call'[c].step = "signout" /\ call'[c].id = call[c].id /\ Carries(call'[c], call[c])
        BY <4>1, Leaves
      <4>3. c \in Outs(u)'
        BY <3>2, <4>2 DEF Outs, Target, Carries
      <4> QED
        BY <2>2, <3>1, <4>3
    <3>3. CASE ~(SetPassword(c) /\ u = Target(c))
      <4>1. users'[u].password = users[u].password
        BY <1>1, <3>1, <3>3
      <4>2. CASE Current(t)
        BY <2>2, <3>1, <4>1, <4>2 DEF Current
      <4>3. CASE SignOut(c) /\ ~Current(t)
        <5>1. PICK d \in Outs(u) : TRUE
          BY <2>2, <3>1, <4>3 DEF PasswordParts
        <5>2. d # c
          BY <1>3, <2>2, <3>1, <4>3, <5>1 DEF SignOut, Without, Restrict, SessionsOf, Outs
        <5>3. d \in Outs(u)'
          BY <1>0, <5>1, <5>2 DEF Outs, Target
        <5> QED
          BY <2>2, <3>1, <5>3
      <4>4. CASE ~SignOut(c) /\ ~Current(t)
        <5>1. PICK d \in Outs(u) : TRUE
          BY <2>2, <3>1, <4>4 DEF PasswordParts
        <5>2. d \in Outs(u)'
          BY <1>0, <4>4, <5>1, OutsStay, WhoSignsOut
        <5> QED
          BY <2>2, <3>1, <5>2
      <4> QED
        BY <4>2, <4>3, <4>4
    <3> QED
      BY <3>2, <3>3
  <2> QED
    BY <1>3, <2>1, <2>2, SessionKinds
<1>4. \A d, e \in Callers : call'[d].op \in PasswordOps /\ call'[e].op \in PasswordOps => d = e
  <2>1. \A d \in Callers : call'[d].op \in PasswordOps => call[d].op \in PasswordOps
    BY <1>0 DEF Carries, NoCall, PasswordOps
  <2> QED
    BY <2>1 DEF PasswordParts
<1>5. ASSUME NEW d \in Callers, call'[d].step = "issue"
      PROVE  /\ call'[d].op \in {"Setup", "Login"} /\ call'[d].id \in given'
             /\ call'[d].id \in DOMAIN users' => users'[call'[d].id].password = call'[d].password
  <2>1. CASE d # c
    <3>1. /\ call'[d] = call[d] /\ call[d].op \in {"Setup", "Login"} /\ call[d].id \in given
          /\ call[d].id \in DOMAIN users => users[call[d].id].password = call[d].password
      BY <1>0, <1>5, <2>1 DEF PasswordParts
    <3>2. ~SetPassword(c)
      BY <2>1, <3>1 DEF PasswordParts, PasswordOps, SetPassword, At
    <3> QED
      BY <1>1, <1>2, <3>1, <3>2, PasswordsStay
  <2>2. CASE d = c
    <3>1. PICK u : /\ SignIn(c, u) /\ call[c].op \in {"Setup", "Login"} /\ u \in given'
                   /\ u \in DOMAIN users' => users'[u].password = call[c].password
      BY <1>5, <2>2, SignedIn
    <3>2. call'[c].id = u /\ Carries(call'[c], call[c])
      BY <3>1, Leaves
    <3> QED
      BY <2>2, <3>1, <3>2 DEF Carries
  <2> QED
    BY <2>1, <2>2
<1> QED
  BY <1>3, <1>4, <1>5 DEF PasswordParts

LEMMA PasswordStep ==
  ASSUME PasswordOps \in Alone, RowsOK, CallsForm, RowsOK', PasswordParts, [AccountsNext]_accountVars
  PROVE  PasswordParts'
<1>1. ASSUME NEW c \in Callers, Arrive(c)
      PROVE  PasswordParts'
  <2>1. PICK r : ArrivesAs(c, r)
    BY <1>1, ArriveForm
  <2>2. /\ UNCHANGED <<users, sessions, apiTokens, given>>
        /\ call'[c] = r /\ \A d \in Callers \ {c} : call'[d] = call[d]
        /\ r.step \notin {"issue", "signout"}
    BY <2>1, ArrivedCalls DEF ArrivesAs, Request
  <2>3. call[c].step # "signout"
    <3>1. NoCall.step = "none"
      BY DEF NoCall
    <3> QED
      BY <1>1, <3>1 DEF Arrive
  <2>4. \A t \in DOMAIN sessions : Current(t)' \/ Outs(sessions[t].user)' # {}
    <3> SUFFICES ASSUME NEW t \in DOMAIN sessions, ~Current(t)
                 PROVE  Outs(sessions[t].user)' # {}
      BY <2>2 DEF Current
    <3>1. PICK d \in Outs(sessions[t].user) : TRUE
      BY DEF PasswordParts
    <3>2. d \in Outs(sessions[t].user)'
      BY <2>2, <2>3, <3>1 DEF Outs, Target
    <3> QED
      BY <3>2
  <2>5. r.op \in PasswordOps => \A d \in Callers : call[d].op \notin PasswordOps
    BY <2>1 DEF ArrivesAs, MayArrive
  <2>6. \A d, e \in Callers : call'[d].op \in PasswordOps /\ call'[e].op \in PasswordOps => d = e
    BY <2>2, <2>5 DEF PasswordParts
  <2> QED
    BY <2>2, <2>4, <2>6 DEF PasswordParts
<1>2. ASSUME NEW c \in Callers, Handles(c)
      PROVE  PasswordParts'
  BY <1>2, PasswordHandled
<1>3. ASSUME NEW t \in DOMAIN sessions, Expire(t)
      PROVE  PasswordParts'
  <2>1. /\ UNCHANGED <<users, given, call>> /\ DOMAIN sessions' \subseteq DOMAIN sessions
        /\ \A s \in DOMAIN sessions' : sessions'[s] = sessions[s]
    BY <1>3, RowsExpire DEF Expire
  <2>2. \A u : Outs(u)' = Outs(u)
    BY <2>1 DEF Outs, Target
  <2>3. \A s \in DOMAIN sessions' : Current(s)' \/ Outs(sessions[s].user)' # {}
    BY <2>1, <2>2 DEF PasswordParts, Current
  <2> QED
    BY <2>1, <2>3 DEF PasswordParts
<1>4. CASE UNCHANGED accountVars
  BY <1>4 DEF accountVars, PasswordParts, Current, Outs, Target
<1> QED
  BY <1>1, <1>2, <1>3, <1>4 DEF AccountsNext, Handles

\* When requests that use or set a password come one at a time, the sessions
\* that an old password opened are gone once it has been replaced, also those
\* of a sign-in that was under way (SetPassword "signs out their sessions"),
\* however other requests interleave.
THEOREM PasswordsSignOut ==
  ASSUME PasswordOps \in Alone
  PROVE  AccountsSpec => []PasswordSignsOut
<1>1. AccountsInit => PasswordParts
  BY DEF AccountsInit, PasswordParts, NoCall, PasswordOps
<1>2. PasswordParts => PasswordSignsOut
  BY PasswordPartsAre DEF PasswordInv
<1> QED
  BY <1>1, <1>2, TypesInit, TypesStep, PasswordStep, PTL DEF AccountsSpec

-----------------------------------------------------------------------------
(* Documents.  A list that is read page by page is whole, whoever saves    *)
(* meanwhile; and with one request at a time, secrets stay and a plan is   *)
(* what its history says it is.                                            *)

Columns == {"kind", "content", "builtIn", "version", "updated"}
Walks == [kind : ListKinds, cursor : Nat, seen : SUBSET Docs, due : SUBSET Docs, more : BOOLEAN]

\* Rows, as far as what follows depends on them.
Tables ==
  /\ DOMAIN docs \in SUBSET Docs /\ DOMAIN edit = Editors
  /\ now \in Nat /\ now <= MaxNow + 1
  /\ \A d \in DOMAIN docs :
       /\ DOMAIN docs[d] = Columns /\ docs[d].builtIn \in BOOLEAN
       /\ docs[d].updated \in Nat /\ docs[d].updated < now
       /\ docs[d].builtIn => docs[d].kind \in BuiltIns
  /\ \A e \in Editors : Edits(e, "Update", "write") =>
       "step" \in DOMAIN edit[e] /\ edit[e].at \in Nat /\ edit[e].at < now

\* No two changes have one time.
Stamped ==
  /\ \A d, f \in DOMAIN docs : d # f /\ ~docs[d].builtIn /\ ~docs[f].builtIn =>
                                 docs[d].updated # docs[f].updated
  /\ \A e \in Editors, d \in DOMAIN docs :
       Edits(e, "Update", "write") /\ ~docs[d].builtIn => docs[d].updated # edit[e].at
  /\ \A e, f \in Editors :
       e # f /\ Edits(e, "Update", "write") /\ Edits(f, "Update", "write") => edit[e].at # edit[f].at

\* What a list owes its reader has been seen or is still to come.
Owed ==
  walk = NoWalk \/ /\ walk \in Walks
                   /\ \A d \in walk.due :
                        /\ d \in DOMAIN docs /\ docs[d].kind = walk.kind
                        /\ d \in walk.seen \/ (walk.more /\ docs[d].updated < walk.cursor)

ListInv == Tables /\ Stamped /\ Owed

-----------------------------------------------------------------------------
\* The first start seeds documents of the kinds in BuiltIns.
LEMMA Seeded ==
  ASSUME WorkspaceInit
  PROVE  /\ DOMAIN docs \in SUBSET Docs
         /\ \A d \in DOMAIN docs : \E k \in BuiltIns : \E v \in Contents : docs[d] = Row(k, v, TRUE, 0)
<1> DEFINE sd == CHOOSE f \in [BuiltIns -> Docs] : IsInjective(f)
<1>1. sd \in [BuiltIns -> Docs]
  BY WorkspaceAssumption
<1>2. docs = [d \in Range(sd) |-> Row(CHOOSE k \in BuiltIns : sd[k] = d, CHOOSE v \in Contents : TRUE, TRUE, 0)]
  BY DEF WorkspaceInit
<1> HIDE DEF sd
<1>3. Range(sd) \subseteq Docs
  BY <1>1 DEF Range
<1>4. ASSUME NEW d \in Range(sd)
      PROVE  (CHOOSE k \in BuiltIns : sd[k] = d) \in BuiltIns
  BY <1>1, <1>4 DEF Range
<1>5. (CHOOSE v \in Contents : TRUE) \in Contents
  BY WorkspaceAssumption
<1> QED
  BY <1>2, <1>3, <1>4, <1>5

LEMMA ListInit == WorkspaceInit => ListInv
<1> SUFFICES ASSUME WorkspaceInit PROVE ListInv
  OBVIOUS
<1>1. \A d \in DOMAIN docs : /\ DOMAIN docs[d] = Columns /\ docs[d].builtIn = TRUE
                             /\ docs[d].updated = 0 /\ docs[d].kind \in BuiltIns
  <2> SUFFICES ASSUME NEW d \in DOMAIN docs
               PROVE  /\ DOMAIN docs[d] = Columns /\ docs[d].builtIn = TRUE
                      /\ docs[d].updated = 0 /\ docs[d].kind \in BuiltIns
    OBVIOUS
  <2>1. PICK k \in BuiltIns : \E v : docs[d] = Row(k, v, TRUE, 0)
    BY Seeded
  <2> QED
    BY <2>1 DEF Row, Columns
<1>2. edit = [e \in Editors |-> NoEdit] /\ now = 1 /\ walk = NoWalk
  BY DEF WorkspaceInit
<1>3. Tables
  <2>1. DOMAIN docs \in SUBSET Docs /\ DOMAIN edit = Editors /\ \A e \in Editors : edit[e] = NoEdit
    BY <1>2, Seeded
  <2>2. now \in Nat /\ now <= MaxNow + 1 /\ 0 < now
    BY <1>2, WorkspaceAssumption
  <2>3. \A d \in DOMAIN docs :
          /\ DOMAIN docs[d] = Columns /\ docs[d].builtIn \in BOOLEAN
          /\ docs[d].updated \in Nat /\ docs[d].updated < now
          /\ docs[d].builtIn => docs[d].kind \in BuiltIns
    <3> SUFFICES ASSUME NEW d \in DOMAIN docs
                 PROVE  /\ DOMAIN docs[d] = Columns /\ docs[d].builtIn \in BOOLEAN
                        /\ docs[d].updated \in Nat /\ docs[d].updated < now
                        /\ docs[d].builtIn => docs[d].kind \in BuiltIns
      OBVIOUS
    <3>1. docs[d].builtIn \in BOOLEAN
      BY <1>1
    <3>2. docs[d].kind \in BuiltIns
      BY <1>1
    <3> QED
      BY <1>1, <2>2, <3>1, <3>2
  <2>4. \A e \in Editors : ~Edits(e, "Update", "write")
    BY <2>1 DEF Edits
  <2> QED
    BY <2>1, <2>2, <2>3, <2>4 DEF Tables
<1>4. Stamped
  BY <1>1, <1>2 DEF Stamped, Edits
<1> QED
  BY <1>2, <1>3, <1>4 DEF ListInv, Owed

\* A request that takes a step without touching a row or taking a time.
LEMMA EditMoves ==
  ASSUME ListInv, NEW e \in Editors, NEW r, edit' = [edit EXCEPT ![e] = r],
         UNCHANGED <<docs, now>>,
         ~(r # NoEdit /\ r.op = "Update" /\ r.step = "write")
  PROVE  Tables' /\ Stamped'
<1>1. /\ ~Edits(e, "Update", "write")'
      /\ \A f \in Editors \ {e} : edit'[f] = edit[f] /\ (Edits(f, "Update", "write")' <=> Edits(f, "Update", "write"))
  BY DEF ListInv, Tables, Edits
<1>2. Tables'
  BY <1>1 DEF ListInv, Tables
<1>3. Stamped'
  BY <1>1 DEF ListInv, Stamped
<1> QED
  BY <1>2, <1>3

LEMMA OwedStays ==
  ASSUME Owed, UNCHANGED <<docs, walk>>
  PROVE  Owed'
  BY DEF Owed

LEMMA QuietEditsKeepList ==
  ASSUME ListInv, NEW e \in Editors, Ask(e) \/ SaveVersion(e) \/ CheckDelete(e)
  PROVE  ListInv'
<1>1. UNCHANGED <<docs, walk, now>>
  BY DEF Ask, SaveVersion, CheckDelete
<1>2. PICK r : edit' = [edit EXCEPT ![e] = r] /\ ~(r # NoEdit /\ r.op = "Update" /\ r.step = "write")
  <2>1. CASE Ask(e)
    BY <2>1 DEF Ask
  <2>2. CASE SaveVersion(e)
    BY <2>2 DEF SaveVersion, Reply
  <2>3. CASE CheckDelete(e)
    <3>1. edit[e].op = "Delete"
      BY <2>3 DEF CheckDelete, Edits
    <3>2. [edit[e] EXCEPT !.step = "delete"].op = "Delete"
      BY <3>1
    <3>3. \/ edit' = [edit EXCEPT ![e] = NoEdit]
          \/ edit' = [edit EXCEPT ![e] = [edit[e] EXCEPT !.step = "delete"]]
      BY <2>3 DEF CheckDelete, Reply
    <3> QED
      BY <3>2, <3>3
  <2> QED
    BY <2>1, <2>2, <2>3
<1> QED
  BY <1>1, <1>2, EditMoves, OwedStays DEF ListInv

\* GetDoc takes a time nobody has had.
LEMMA GetDocKeepsList ==
  ASSUME ListInv, NEW e \in Editors, GetDoc(e)
  PROVE  ListInv'
<1>0. Tables /\ Stamped /\ Owed
  BY DEF ListInv
<1>1. /\ UNCHANGED <<docs, walk>> /\ now' = now + 1 /\ now < MaxNow
      /\ now \in Nat /\ DOMAIN edit = Editors /\ MaxNow \in Nat
  BY <1>0, WorkspaceAssumption DEF GetDoc, Tables
<1>2. PICK r : /\ edit' = [edit EXCEPT ![e] = r]
               /\ \/ r = NoEdit
                  \/ r.at = now /\ "step" \in DOMAIN r
  BY DEF GetDoc, Reply
<1>3. /\ edit'[e] = r /\ (Edits(e, "Update", "write")' => r.at = now /\ "step" \in DOMAIN r)
      /\ \A f \in Editors \ {e} : edit'[f] = edit[f] /\ (Edits(f, "Update", "write")' <=> Edits(f, "Update", "write"))
  BY <1>1, <1>2 DEF Edits
<1>4. Tables'
  <2>1. now' \in Nat /\ now' <= MaxNow + 1 /\ now < now'
    BY <1>1
  <2>2. \A f \in Editors : Edits(f, "Update", "write")' =>
           "step" \in DOMAIN edit'[f] /\ edit'[f].at \in Nat /\ edit'[f].at < now'
    BY <1>0, <1>1, <1>3, <2>1 DEF Tables
  <2>3. \A d \in DOMAIN docs : docs[d].updated < now'
    BY <1>0, <1>1 DEF Tables
  <2>4. DOMAIN edit' = Editors
    BY <1>1, <1>2
  <2> QED
    BY <1>0, <1>1, <2>1, <2>2, <2>3, <2>4 DEF Tables
<1>5. Stamped'
  <2>1. \A d \in DOMAIN docs : docs[d].updated # now
    BY <1>0, <1>1 DEF Tables
  <2>2. \A f \in Editors : Edits(f, "Update", "write") => edit[f].at # now
    BY <1>0, <1>1 DEF Tables
  <2> QED
    BY <1>0, <1>1, <1>3, <2>1, <2>2 DEF Stamped
<1> QED
  BY <1>0, <1>1, <1>4, <1>5, OwedStays DEF ListInv

\* A new row has a new time, and an id no list owes.
LEMMA InsertKeepsList ==
  ASSUME ListInv, NEW e \in Editors, Insert(e)
  PROVE  ListInv'
<1> DEFINE d == CHOOSE f \in Free : TRUE
           row == Row(edit[e].kind, edit[e].content, FALSE, now)
<1>0. Tables /\ Stamped /\ Owed
  BY DEF ListInv
<1>1. d \in Docs /\ d \notin DOMAIN docs
  <2>1. d \in Free
    BY DEF Insert
  <2> QED
    BY <2>1 DEF Free
<1>2. /\ UNCHANGED walk /\ now' = now + 1 /\ now < MaxNow
      /\ now \in Nat /\ DOMAIN edit = Editors /\ MaxNow \in Nat
      /\ docs' = Put(docs, d, row)
  BY <1>0, WorkspaceAssumption DEF Insert, Tables
<1>3. PICK r : /\ edit' = [edit EXCEPT ![e] = r]
               /\ r = NoEdit \/ r.step = "version"
  BY DEF Insert, Reply
<1>4. /\ ~Edits(e, "Update", "write")'
      /\ \A f \in Editors \ {e} : edit'[f] = edit[f] /\ (Edits(f, "Update", "write")' <=> Edits(f, "Update", "write"))
  BY <1>2, <1>3 DEF Edits
<1>5. /\ DOMAIN row = Columns /\ row.builtIn = FALSE /\ row.updated = now
  BY DEF Row, Columns
<1> HIDE DEF d, row
<1>6. /\ DOMAIN docs' = DOMAIN docs \cup {d} /\ docs'[d] = row
      /\ \A f \in DOMAIN docs : docs'[f] = docs[f] /\ f # d
  BY <1>1, <1>2 DEF Put
<1>7. Tables'
  <2>1. now' \in Nat /\ now' <= MaxNow + 1 /\ now < now'
    BY <1>2
  <2>2. \A f \in Editors : Edits(f, "Update", "write")' =>
           "step" \in DOMAIN edit'[f] /\ edit'[f].at \in Nat /\ edit'[f].at < now'
    BY <1>0, <1>2, <1>4, <2>1 DEF Tables
  <2>3. \A f \in DOMAIN docs' :
           /\ DOMAIN docs'[f] = Columns /\ docs'[f].builtIn \in BOOLEAN
           /\ docs'[f].updated \in Nat /\ docs'[f].updated < now'
           /\ docs'[f].builtIn => docs'[f].kind \in BuiltIns
    <3>1. ASSUME NEW f \in DOMAIN docs
          PROVE  /\ DOMAIN docs'[f] = Columns /\ docs'[f].builtIn \in BOOLEAN
                 /\ docs'[f].updated \in Nat /\ docs'[f].updated < now'
                 /\ docs'[f].builtIn => docs'[f].kind \in BuiltIns
      BY <1>0, <1>2, <1>6 DEF Tables
    <3>2. /\ DOMAIN docs'[d] = Columns /\ docs'[d].builtIn = FALSE /\ docs'[d].updated = now
      BY <1>5, <1>6
    <3> QED
      BY <1>2, <1>6, <2>1, <3>1, <3>2
  <2>4. DOMAIN edit' = Editors
    BY <1>2, <1>3
  <2>5. DOMAIN docs' \in SUBSET Docs
    BY <1>0, <1>1, <1>6 DEF Tables
  <2> QED
    BY <2>1, <2>2, <2>3, <2>4, <2>5 DEF Tables
<1>8. Stamped'
  <2>1. \A f \in DOMAIN docs : docs[f].updated # now
    BY <1>0, <1>2 DEF Tables
  <2>2. \A f \in Editors : Edits(f, "Update", "write") => edit[f].at # now
    BY <1>0, <1>2 DEF Tables
  <2> QED
    BY <1>0, <1>4, <1>5, <1>6, <2>1, <2>2 DEF Stamped
<1>9. Owed'
  BY <1>0, <1>2, <1>6 DEF Owed
<1> QED
  BY <1>7, <1>8, <1>9 DEF ListInv

\* A list without the documents that changed.
LEMMA Touched ==
  ASSUME Owed, NEW d, Touch(d), walk # NoWalk
  PROVE  /\ walk' \in Walks /\ walk'.kind = walk.kind /\ walk'.cursor = walk.cursor
         /\ walk'.seen = walk.seen /\ walk'.more = walk.more /\ walk'.due = walk.due \ {d}
<1>1. walk \in Walks /\ walk' = [walk EXCEPT !.due = @ \ {d}]
  BY DEF Owed, Touch
<1> QED
  BY <1>1 DEF Walks

LEMMA WriteDocKeepsList ==
  ASSUME ListInv, NEW e \in Editors, WriteDoc(e)
  PROVE  ListInv'
<1> DEFINE d == edit[e].doc
<1>0. Tables /\ Stamped /\ Owed
  BY DEF ListInv
<1>1. CASE d \notin DOMAIN docs
  <2>1. edit' = [edit EXCEPT ![e] = NoEdit] /\ UNCHANGED <<docs, walk, now>>
    BY <1>1 DEF WriteDoc, Reply
  <2> QED
    BY <1>0, <2>1, EditMoves, OwedStays DEF ListInv
<1>2. CASE d \in DOMAIN docs
  <2> DEFINE row == [docs[d] EXCEPT !.content = Stored(docs[d].kind, Meant(e)),
                                    !.version = edit[e].version, !.updated = edit[e].at]
  <2>1. /\ docs' = [docs EXCEPT ![d] = row] /\ UNCHANGED now /\ Touch(d)
        /\ Edits(e, "Update", "write")
    BY <1>2 DEF WriteDoc
  <2>2. /\ DOMAIN row = Columns /\ row.kind = docs[d].kind /\ row.builtIn = docs[d].builtIn
        /\ row.updated = edit[e].at
    BY <1>0, <1>2 DEF Tables, Columns
  <2>3. edit[e].at \in Nat /\ edit[e].at < now /\ "step" \in DOMAIN edit[e] /\ DOMAIN edit = Editors
    BY <1>0, <2>1 DEF Tables
  <2>4. PICK r : edit' = [edit EXCEPT ![e] = r] /\ (r = NoEdit \/ r.step = "version")
    <3>1. [edit[e] EXCEPT !.step = "version"].step = "version"
      BY <2>3
    <3> QED
      BY <1>2, <3>1 DEF WriteDoc, Reply
  <2>5. /\ ~Edits(e, "Update", "write")'
        /\ \A f \in Editors \ {e} : edit'[f] = edit[f] /\ (Edits(f, "Update", "write")' <=> Edits(f, "Update", "write"))
    BY <2>3, <2>4 DEF Edits
  <2> HIDE DEF row, d
  <2>6. /\ DOMAIN docs' = DOMAIN docs /\ docs'[d] = row
        /\ \A f \in DOMAIN docs : f # d => docs'[f] = docs[f]
    BY <1>2, <2>1
  <2>7. Tables'
    BY <1>0, <2>1, <2>2, <2>3, <2>4, <2>5, <2>6 DEF Tables
  <2>8. Stamped'
    BY <1>0, <1>2, <2>1, <2>2, <2>5, <2>6 DEF Stamped
  <2>9. Owed'
    <3>1. CASE walk = NoWalk
      BY <2>1, <3>1 DEF Touch, Owed
    <3>2. CASE walk # NoWalk
      BY <1>0, <2>1, <2>6, <3>2, Touched DEF Owed
    <3> QED
      BY <3>1, <3>2
  <2> QED
    BY <2>7, <2>8, <2>9 DEF ListInv
<1> QED
  BY <1>1, <1>2

LEMMA DeleteDocKeepsList ==
  ASSUME ListInv, NEW e \in Editors, DeleteDoc(e)
  PROVE  ListInv'
<1> DEFINE d == edit[e].doc
<1>0. Tables /\ Stamped /\ Owed
  BY DEF ListInv
<1>1. /\ docs' = Drop(docs, d) /\ Touch(d) /\ UNCHANGED now
      /\ edit' = [edit EXCEPT ![e] = NoEdit]
  BY DEF DeleteDoc, Reply
<1> HIDE DEF d
<1>2. DOMAIN docs' = DOMAIN docs \ {d} /\ \A f \in DOMAIN docs' : docs'[f] = docs[f]
  BY <1>1 DEF Drop, Restrict
<1>3. /\ ~Edits(e, "Update", "write")' /\ DOMAIN edit' = Editors
      /\ \A f \in Editors \ {e} : edit'[f] = edit[f] /\ (Edits(f, "Update", "write")' <=> Edits(f, "Update", "write"))
  BY <1>0, <1>1 DEF Edits, Tables
<1>4. Tables'
  BY <1>0, <1>1, <1>2, <1>3 DEF Tables
<1>5. Stamped'
  BY <1>0, <1>2, <1>3 DEF Stamped
<1>6. Owed'
  <2>1. CASE walk = NoWalk
    BY <1>1, <2>1 DEF Touch, Owed
  <2>2. CASE walk # NoWalk
    BY <1>0, <1>1, <1>2, <2>2, Touched DEF Owed
  <2> QED
    BY <2>1, <2>2
<1> QED
  BY <1>4, <1>5, <1>6 DEF ListInv

-----------------------------------------------------------------------------
(* Reading a list                                                          *)

LEMMA StartWalkKeepsList ==
  ASSUME ListInv, NEW k \in ListKinds, StartWalk(k)
  PROVE  ListInv'
<1>0. Tables /\ Stamped /\ UNCHANGED <<docs, edit, now>>
  BY DEF ListInv, StartWalk
<1>1. Tables' /\ Stamped'
  BY <1>0 DEF Tables, Stamped, Edits
<1>2. /\ walk' = [kind |-> k, cursor |-> MaxNow + 1, seen |-> {}, due |-> OfKind(k), more |-> TRUE]
      /\ MaxNow \in Nat
  BY WorkspaceAssumption DEF StartWalk, NoCursor
<1>3. OfKind(k) \in SUBSET Docs /\ \A d \in OfKind(k) : d \in DOMAIN docs /\ docs[d].kind = k
                                                         /\ docs[d].updated < MaxNow + 1
  BY <1>0, <1>2 DEF OfKind, Tables
<1>4. walk' \in Walks
  BY <1>2, <1>3 DEF Walks
<1> QED
  BY <1>0, <1>1, <1>2, <1>3, <1>4 DEF ListInv, Owed

LEMMA LeastNatural ==
  ASSUME NEW T \in SUBSET Nat, T # {}
  PROVE  \E n \in T : \A m \in T : n <= m
<1> DEFINE R == {ss \in Nat \X Nat : ss[1] < ss[2]}
<1>1. IsWellFoundedOn(R, Nat)
  BY NatLessThanWellFounded DEF OpToRel
<1>2. PICK n \in T : \A m \in T : <<m, n>> \notin R
  BY <1>1, WFMin
<1>3. \A m \in T : ~(m < n)
  BY <1>2
<1> QED
  BY <1>3

\* The last document on a page, when documents of its kind have one order.
LEMMA CursorIs ==
  ASSUME NEW page, page # {}, NEW rest,
         \A d \in page : d \in DOMAIN docs /\ docs[d].updated \in Nat /\ docs[d].builtIn = FALSE
  PROVE  \E d \in page : Cursor(page, rest) = docs[d].updated
<1> DEFINE T == {docs[d].updated : d \in page}
           Last(d) == \A f \in page \ {d} : ~ListedBefore(d, f)
<1>1. T \in SUBSET Nat /\ T # {}
  OBVIOUS
<1>2. PICK n \in T : \A m \in T : n <= m
  BY <1>1, LeastNatural
<1>3. PICK d \in page : docs[d].updated = n
  BY <1>2
<1>4. ASSUME NEW f \in page PROVE ~ListedBefore(d, f)
  <2>1. docs[d].updated <= docs[f].updated /\ docs[f].updated \in Nat /\ docs[d].updated \in Nat
    BY <1>2, <1>3
  <2>2. ~(docs[d].updated > docs[f].updated) /\ docs[d].builtIn = FALSE
    BY <2>1
  <2> QED
    BY <2>2 DEF ListedBefore
<1>5. Last(d)
  BY <1>4
<1>6. (CHOOSE x \in page : Last(x)) \in page
  BY <1>5
<1> QED
  BY <1>6 DEF Cursor

LEMMA PageKeepsList ==
  ASSUME ListInv, ListKinds \cap BuiltIns = {}, Page
  PROVE  ListInv'
<1> DEFINE rows == {d \in OfKind(walk.kind) : docs[d].updated < walk.cursor}
<1>0. Tables /\ Stamped /\ UNCHANGED <<docs, edit, now>> /\ walk \in Walks
      /\ \A d \in walk.due : /\ d \in DOMAIN docs /\ docs[d].kind = walk.kind
                             /\ d \in walk.seen \/ (walk.more /\ docs[d].updated < walk.cursor)
  BY DEF ListInv, Owed, Page
<1>1. Tables' /\ Stamped'
  BY <1>0 DEF Tables, Stamped, Edits
<1>2. PICK page \in SUBSET rows :
        /\ Cardinality(page) = IF Cardinality(rows) > Limit THEN Limit ELSE Cardinality(rows)
        /\ \A d \in page : \A f \in rows \ page : ~ListedBefore(f, d)
        /\ walk' = [walk EXCEPT !.seen = @ \cup page, !.more = rows # page,
                                !.cursor = IF rows # page THEN Cursor(page, rows \ page) ELSE @]
  BY DEF Page
<1>3. /\ walk.kind \in ListKinds /\ walk.cursor \in Nat /\ walk.seen \in SUBSET Docs
      /\ walk.due \in SUBSET Docs
  BY <1>0 DEF Walks
<1>4. rows \subseteq Docs /\ \A d \in rows : /\ d \in DOMAIN docs /\ docs[d].updated \in Nat
                                             /\ docs[d].builtIn = FALSE
  <2>1. \A d \in rows : d \in DOMAIN docs /\ docs[d].kind = walk.kind
    BY DEF OfKind
  <2>2. \A d \in DOMAIN docs : docs[d].kind = walk.kind => ~docs[d].builtIn
    BY <1>0, <1>3 DEF Tables
  <2> QED
    BY <1>0, <2>1, <2>2 DEF Tables
<1>5. \A d \in walk.due : d \in walk.seen \/ d \in rows
  BY <1>0 DEF OfKind
<1> HIDE DEF rows
<1>6. rows # page => page # {}
  <2> SUFFICES ASSUME page = {}, rows # {} PROVE FALSE
    OBVIOUS
  <2>1. IsFiniteSet(rows) /\ Cardinality(rows) \in Nat /\ Cardinality(rows) # 0 /\ Cardinality(page) = 0
    BY <1>4, WorkspaceAssumption, FS_Subset, FS_EmptySet, FS_CardinalityType
  <2> QED
    BY <1>2, <2>1, WorkspaceAssumption
<1>7. ASSUME rows # page
      PROVE  /\ Cursor(page, rows \ page) \in Nat
             /\ \A d \in rows \ page : docs[d].updated < Cursor(page, rows \ page)
  <2>1. PICK x \in page : Cursor(page, rows \ page) = docs[x].updated
    <3>1. page # {}
      BY <1>6, <1>7
    <3>2. \A d \in page : d \in DOMAIN docs /\ docs[d].updated \in Nat /\ docs[d].builtIn = FALSE
      BY <1>2, <1>4
    <3> QED
      BY <3>1, <3>2, CursorIs
  <2>2. x \in rows /\ x \in DOMAIN docs /\ docs[x].updated \in Nat /\ docs[x].builtIn = FALSE
    BY <1>2, <1>4
  <2>3. ASSUME NEW d \in rows \ page PROVE docs[d].updated < docs[x].updated
    <3>1. d \in DOMAIN docs /\ docs[d].updated \in Nat /\ docs[d].builtIn = FALSE /\ d # x
      BY <1>4, <2>3
    <3>2. docs[d].updated # docs[x].updated
      BY <1>0, <2>2, <3>1 DEF Stamped
    <3>3. ~(docs[d].updated > docs[x].updated)
      BY <1>2, <2>2, <2>3, <3>1 DEF ListedBefore
    <3> QED
      BY <2>2, <3>1, <3>2, <3>3
  <2> QED
    BY <2>1, <2>2, <2>3
<1>8. /\ walk'.kind = walk.kind /\ walk'.due = walk.due /\ walk'.seen = walk.seen \cup page
      /\ walk'.more = (rows # page)
      /\ walk'.cursor = IF rows # page THEN Cursor(page, rows \ page) ELSE walk.cursor
      /\ walk' \in Walks
  <2>1. walk.seen \cup page \in SUBSET Docs
    BY <1>2, <1>3, <1>4
  <2>2. (IF rows # page THEN Cursor(page, rows \ page) ELSE walk.cursor) \in Nat
    BY <1>3, <1>7
  <2> QED
    BY <1>0, <1>2, <2>1, <2>2 DEF Walks
<1>9. Owed'
  <2> SUFFICES ASSUME NEW d \in walk.due
               PROVE  /\ d \in DOMAIN docs /\ docs[d].kind = walk.kind
                      /\ d \in walk'.seen \/ (walk'.more /\ docs[d].updated < walk'.cursor)
    BY <1>0, <1>8 DEF Owed
  <2>1. CASE d \in walk.seen \cup page
    BY <1>0, <1>8, <2>1
  <2>2. CASE d \notin walk.seen \cup page
    <3>1. d \in rows \ page /\ rows # page
      BY <1>5, <2>2
    <3> QED
      BY <1>0, <1>7, <1>8, <3>1
  <2> QED
    BY <2>1, <2>2
<1> QED
  BY <1>1, <1>9 DEF ListInv

\* A list read page by page has every document that was there when it was
\* begun and has not been changed since (List and its cursor), for any number
\* of editors, as long as no document of the kind is built in.
THEOREM ListsAreWhole ==
  ASSUME ListKinds \cap BuiltIns = {}
  PROVE  WorkspaceSpec => []ListIsWhole
<1>1. ListInv /\ [WorkspaceNext]_workspaceVars => ListInv'
  <2> SUFFICES ASSUME ListInv, [WorkspaceNext]_workspaceVars PROVE ListInv'
    OBVIOUS
  <2>1. CASE UNCHANGED workspaceVars \/ EndWalk
    <3>1. UNCHANGED <<docs, edit, now>> /\ walk' \in {walk, NoWalk}
      BY <2>1 DEF workspaceVars, EndWalk
    <3>2. Tables' /\ Stamped'
      BY <3>1 DEF ListInv, Tables, Stamped, Edits
    <3>3. Owed'
      BY <3>1 DEF ListInv, Owed
    <3> QED
      BY <3>2, <3>3 DEF ListInv
  <2>2. ASSUME NEW e \in Editors,
               \/ Ask(e) \/ Insert(e) \/ GetDoc(e) \/ WriteDoc(e) \/ SaveVersion(e)
               \/ CheckDelete(e) \/ DeleteDoc(e)
        PROVE  ListInv'
    BY <2>2, QuietEditsKeepList, GetDocKeepsList, InsertKeepsList, WriteDocKeepsList, DeleteDocKeepsList
  <2> QED
    BY <2>1, <2>2, StartWalkKeepsList, PageKeepsList DEF WorkspaceNext
<1>2. ListInv => ListIsWhole
  BY DEF ListInv, Owed, ListIsWhole
<1> QED
  BY ListInit, <1>1, <1>2, PTL DEF WorkspaceSpec

-----------------------------------------------------------------------------
(* Saves, one at a time                                                    *)

OneEditor == \A e, f \in Editors : e = f

Had(d) == IF d \in DOMAIN versions THEN versions[d] ELSE <<>>

Agrees(d) ==
  /\ d \in DOMAIN versions /\ DOMAIN versions[d] = 1 .. docs[d].version
  /\ versions[d][docs[d].version] = docs[d].content

\* What Update carries from one of its statements to the next.
SaveFields == {"op", "step", "doc", "content", "version"}

\* What a save under way knows of its document is still so.
Pending(e) ==
  /\ Edits(e, "Update", "get") \/ Edits(e, "Update", "write") =>
       /\ edit[e].doc \in DOMAIN docs
       /\ edit[e].content = Redacted => docs[edit[e].doc].kind = "environment"
  /\ Edits(e, "Update", "write") =>
       /\ SaveFields \subseteq DOMAIN edit[e]
       /\ edit[e].read = docs[edit[e].doc].content /\ edit[e].version = docs[edit[e].doc].version + 1
  /\ Edits(e, "Update", "version") =>
       /\ edit[e].doc \in DOMAIN docs /\ docs[edit[e].doc].kind = "plan"
       /\ edit[e].content = docs[edit[e].doc].content /\ edit[e].version = docs[edit[e].doc].version
       /\ DOMAIN Had(edit[e].doc) = 1 .. edit[e].version - 1

Kept ==
  /\ DOMAIN edit = Editors /\ DOMAIN versions \subseteq OfKind("plan")
  /\ \A d \in DOMAIN docs :
       /\ DOMAIN docs[d] = Columns /\ docs[d].version \in Nat \ {0}
       /\ docs[d].kind = "environment" => \E v : docs[d].content = Seal(v)
  /\ \A d \in OfKind("plan") :
       Agrees(d) \/ \E e \in Editors : Edits(e, "Update", "version") /\ edit[e].doc = d

SaveInv == Kept /\ \A e \in Editors : Pending(e)

LEMMA SaveInit == WorkspaceInit => SaveInv
<1> SUFFICES ASSUME WorkspaceInit PROVE SaveInv
  OBVIOUS
<1>1. ASSUME NEW d \in DOMAIN docs
      PROVE  /\ DOMAIN docs[d] = Columns /\ docs[d].version = 1 /\ docs[d].kind \in BuiltIns
  <2>1. PICK k \in BuiltIns : \E v : docs[d] = Row(k, v, TRUE, 0)
    BY Seeded
  <2> QED
    BY <2>1 DEF Row, Columns
<1>2. /\ versions = [d \in {e \in DOMAIN docs : docs[e].kind = "plan"} |-> <<docs[d].content>>]
      /\ edit = [e \in Editors |-> NoEdit]
  BY DEF WorkspaceInit
<1>3. ASSUME NEW d \in OfKind("plan") PROVE Agrees(d)
  <2>1. d \in DOMAIN docs /\ docs[d].version = 1 /\ versions[d] = <<docs[d].content>> /\ d \in DOMAIN versions
    BY <1>1, <1>2 DEF OfKind
  <2> QED
    BY <2>1 DEF Agrees
<1>4. \A d \in DOMAIN docs : docs[d].kind # "environment"
  BY <1>1, WorkspaceAssumption
<1>5. Kept
  BY <1>1, <1>2, <1>3, <1>4 DEF Kept, OfKind
<1>6. \A e \in Editors : Pending(e)
  BY <1>2 DEF Pending, Edits
<1> QED
  BY <1>5, <1>6 DEF SaveInv

\* Lists change nothing that is kept.
LEMMA ListsKeepSaves ==
  ASSUME SaveInv, UNCHANGED <<docs, versions, edit>>
  PROVE  SaveInv'
<1>1. \A d : (Agrees(d)' <=> Agrees(d)) /\ Had(d)' = Had(d)
  BY DEF Agrees, Had
<1>2. OfKind("plan")' = OfKind("plan")
  BY DEF OfKind
<1>3. ASSUME NEW e \in Editors PROVE Pending(e)'
  <2>1. Pending(e)
    BY DEF SaveInv
  <2> QED
    BY <1>1, <2>1 DEF Pending, Edits
<1> QED
  BY <1>1, <1>2, <1>3 DEF SaveInv, Kept, Edits

\* The one editor at a step that touches no row and no version.
LEMMA QuietSaves ==
  ASSUME SaveInv, OneEditor, NEW e \in Editors, NEW r, edit' = [edit EXCEPT ![e] = r],
         UNCHANGED <<docs, versions>>, ~Edits(e, "Update", "version"),
         r = NoEdit \/ ~(r.op = "Update" /\ r.step = "version"),
         Pending(e)'
  PROVE  SaveInv'
<1>1. \A f \in Editors : f = e
  BY DEF OneEditor
<1>2. \A d \in OfKind("plan") : Agrees(d)
  BY <1>1 DEF SaveInv, Kept
<1>3. \A d : Agrees(d)' <=> Agrees(d)
  BY DEF Agrees
<1>4. OfKind("plan")' = OfKind("plan")
  BY DEF OfKind
<1>5. Kept'
  BY <1>2, <1>3, <1>4 DEF SaveInv, Kept
<1> QED
  BY <1>1, <1>5 DEF SaveInv

\* What is stored for a secret is what was stored, when its text is the one
\* that was shown.
LEMMA Resealed == \A v : Seal(Open(Seal(v))) = Seal(v)
<1> TAKE v
<1>1. CASE v = ""
  BY <1>1 DEF Seal, Open
<1>2. CASE v # ""
  <2>1. Seal(v) = <<v>> /\ <<v>> # <<>> /\ <<v>>[1] = v
    BY <1>2 DEF Seal
  <2>2. Open(<<v>>) = v
    BY <2>1 DEF Open
  <2> QED
    BY <2>1, <2>2
<1> QED
  BY <1>1, <1>2

LEMMA WriteKeepsSecret ==
  ASSUME SaveInv, NEW e \in Editors, WriteDoc(e)
  PROVE  LET d == edit[e].doc
             row == [docs[d] EXCEPT !.content = Stored(docs[d].kind, Meant(e)),
                                    !.version = edit[e].version, !.updated = edit[e].at]
         IN  /\ d \in DOMAIN docs /\ docs' = [docs EXCEPT ![d] = row]
             /\ row.kind = docs[d].kind /\ row.version = docs[d].version + 1 /\ DOMAIN row = Columns
             /\ row.content = Stored(docs[d].kind, Meant(e))
             /\ docs[d].kind = "environment" /\ edit[e].content = Redacted => row.content = docs[d].content
<1> DEFINE d == edit[e].doc
           row == [docs[d] EXCEPT !.content = Stored(docs[d].kind, Meant(e)),
                                  !.version = edit[e].version, !.updated = edit[e].at]
<1>1. /\ Edits(e, "Update", "write") /\ d \in DOMAIN docs
      /\ edit[e].read = docs[d].content /\ edit[e].version = docs[d].version + 1
  BY DEF SaveInv, Pending, WriteDoc
<1>2. docs' = [docs EXCEPT ![d] = row]
  BY <1>1 DEF WriteDoc
<1>3. /\ DOMAIN docs[d] = Columns
      /\ docs[d].kind = "environment" => \E v : docs[d].content = Seal(v)
  BY <1>1 DEF SaveInv, Kept
<1>4. /\ row.kind = docs[d].kind /\ row.version = docs[d].version + 1 /\ DOMAIN row = Columns
      /\ row.content = Stored(docs[d].kind, Meant(e))
  BY <1>1, <1>3 DEF Columns
<1>5. ASSUME docs[d].kind = "environment", edit[e].content = Redacted
      PROVE  Stored(docs[d].kind, Meant(e)) = docs[d].content
  <2>1. PICK v : docs[d].content = Seal(v)
    BY <1>3, <1>5
  <2>2. Stored(docs[d].kind, Meant(e)) = Seal(Open(Seal(v)))
    BY <1>1, <1>5, <2>1 DEF Stored, Meant
  <2> QED
    BY <2>1, <2>2, Resealed
<1> QED
  BY <1>1, <1>2, <1>4, <1>5

LEMMA RequestKeepsSaves ==
  ASSUME SaveInv, OneEditor, NEW e \in Editors, Ask(e) \/ GetDoc(e) \/ CheckDelete(e)
  PROVE  SaveInv'
<1>0. DOMAIN edit = Editors /\ UNCHANGED <<docs, versions>>
  BY DEF SaveInv, Kept, Ask, GetDoc, CheckDelete
<1>1. CASE Ask(e)
  <2>1. edit[e] = NoEdit /\ ~Edits(e, "Update", "version")
    BY <1>1 DEF Ask, Edits
  <2>2. PICK r : /\ edit' = [edit EXCEPT ![e] = r]
                 /\ \/ r.op # "Update"
                    \/ /\ r.op = "Update" /\ r.step = "get" /\ r.doc \in DOMAIN docs
                       /\ r.content = Redacted => docs[r.doc].kind = "environment"
    <3>1. CASE \E k \in Kinds, v \in Contents :
                 edit' = [edit EXCEPT ![e] = [op |-> "Create", step |-> "insert", kind |-> k, content |-> v]]
      <4>1. PICK k, v : edit' = [edit EXCEPT ![e] = [op |-> "Create", step |-> "insert", kind |-> k, content |-> v]]
        BY <3>1
      <4> DEFINE r == [op |-> "Create", step |-> "insert", kind |-> k, content |-> v]
      <4>2. r.op # "Update"
        OBVIOUS
      <4> QED
        BY <4>1, <4>2
    <3>2. ASSUME NEW d \in DOMAIN docs,
                 NEW v \in Contents \cup (IF docs[d].kind = "environment" THEN {Redacted} ELSE {}),
                 edit' = [edit EXCEPT ![e] = [op |-> "Update", step |-> "get", doc |-> d, content |-> v]]
          PROVE  \E r : /\ edit' = [edit EXCEPT ![e] = r]
                        /\ \/ r.op # "Update"
                           \/ /\ r.op = "Update" /\ r.step = "get" /\ r.doc \in DOMAIN docs
                              /\ r.content = Redacted => docs[r.doc].kind = "environment"
      <4> DEFINE r == [op |-> "Update", step |-> "get", doc |-> d, content |-> v]
      <4>1. r.op = "Update" /\ r.step = "get" /\ r.doc = d /\ r.content = v
        OBVIOUS
      <4>2. v = Redacted => docs[d].kind = "environment"
        BY WorkspaceAssumption
      <4>3. edit' = [edit EXCEPT ![e] = r]
        BY <3>2
      <4> HIDE DEF r
      <4> QED
        BY <4>1, <4>2, <4>3
    <3>3. ASSUME NEW d \in DOMAIN docs,
                 edit' = [edit EXCEPT ![e] = [op |-> "Delete", step |-> "check", doc |-> d]]
          PROVE  \E r : edit' = [edit EXCEPT ![e] = r] /\ r.op # "Update"
      <4> DEFINE r == [op |-> "Delete", step |-> "check", doc |-> d]
      <4>1. r.op # "Update"
        OBVIOUS
      <4> QED
        BY <3>3, <4>1
    <3> QED
      BY <1>1, <3>1, <3>2, <3>3 DEF Ask
  <2>3. Pending(e)'
    BY <1>0, <2>2 DEF Pending, Edits
  <2> QED
    BY <1>0, <2>1, <2>2, <2>3, QuietSaves
<1>2. CASE GetDoc(e)
  <2> DEFINE d == edit[e].doc
  <2>1. /\ Edits(e, "Update", "get") /\ ~Edits(e, "Update", "version")
        /\ d \in DOMAIN docs /\ (edit[e].content = Redacted => docs[d].kind = "environment")
    BY <1>2 DEF GetDoc, Edits, SaveInv, Pending
  <2>2. PICK r : /\ edit' = [edit EXCEPT ![e] = r]
                 /\ \/ r = NoEdit
                    \/ /\ r.op = "Update" /\ r.step = "write" /\ SaveFields \subseteq DOMAIN r
                       /\ r.doc = d /\ r.content = edit[e].content
                       /\ r.read = docs[d].content /\ r.version = docs[d].version + 1
    BY <1>2 DEF GetDoc, Reply, SaveFields
  <2>3. Pending(e)'
    BY <1>0, <2>1, <2>2 DEF Pending, Edits
  <2> QED
    BY <1>0, <2>1, <2>2, <2>3, QuietSaves
<1>3. CASE CheckDelete(e)
  <2>1. edit[e].op = "Delete" /\ ~Edits(e, "Update", "version")
    BY <1>3 DEF CheckDelete, Edits
  <2>2. PICK r : edit' = [edit EXCEPT ![e] = r] /\ r.op # "Update"
    <3>1. [edit[e] EXCEPT !.step = "delete"].op = "Delete" /\ NoEdit.op # "Update"
      BY <2>1 DEF NoEdit
    <3> QED
      BY <1>3, <3>1 DEF CheckDelete, Reply
  <2>3. Pending(e)'
    BY <1>0, <2>2 DEF Pending, Edits
  <2> QED
    BY <1>0, <2>1, <2>2, <2>3, QuietSaves
<1> QED
  BY <1>1, <1>2, <1>3

LEMMA InsertKeepsSaves ==
  ASSUME SaveInv, OneEditor, NEW e \in Editors, Insert(e)
  PROVE  SaveInv'
<1>a. PICK d : d = CHOOSE f \in Free : TRUE
  OBVIOUS
<1>b. PICK row : row = Row(edit[e].kind, edit[e].content, FALSE, now)
  OBVIOUS
<1>0. Kept /\ DOMAIN edit = Editors /\ UNCHANGED versions /\ \A f \in Editors : f = e
  BY DEF SaveInv, Kept, Insert, OneEditor
<1>1. d \notin DOMAIN docs /\ d \notin DOMAIN versions
  <2>1. d \in Free
    BY <1>a DEF Insert
  <2> QED
    BY <1>0, <2>1 DEF Free, Kept, OfKind
<1>2. /\ docs' = Put(docs, d, row) /\ edit[e].op = "Create"
      /\ IF edit[e].kind = "plan"
         THEN edit' = [edit EXCEPT ![e] = [op |-> "Update", step |-> "version", doc |-> d,
                                           content |-> edit[e].content, version |-> 1]]
         ELSE edit' = [edit EXCEPT ![e] = NoEdit]
  BY <1>a, <1>b DEF Insert, Edits, Reply
<1>3. /\ DOMAIN row = Columns /\ row.version = 1 /\ row.kind = edit[e].kind
      /\ row.content = Stored(edit[e].kind, edit[e].content)
  BY <1>b DEF Row, Columns
<1>4. /\ DOMAIN docs' = DOMAIN docs \cup {d} /\ docs'[d] = row
      /\ \A f \in DOMAIN docs : docs'[f] = docs[f] /\ f # d
  BY <1>1, <1>2 DEF Put
<1>5. \A f \in OfKind("plan") : Agrees(f)
  BY <1>0, <1>2 DEF Kept, Edits
<1>6. \A f \in OfKind("plan") : f \in OfKind("plan")' /\ Agrees(f)'
  BY <1>0, <1>4, <1>5 DEF OfKind, Agrees
<1>7. \A f \in OfKind("plan")' : f \in OfKind("plan") \/ (f = d /\ edit[e].kind = "plan")
  BY <1>3, <1>4 DEF OfKind
<1>8. edit[e].kind = "plan" =>
        /\ edit'[e].op = "Update" /\ edit'[e].step = "version" /\ edit'[e].doc = d /\ edit'[e] # NoEdit
        /\ edit'[e].content = edit[e].content /\ edit'[e].version = 1
  BY <1>0, <1>2 DEF NoEdit
<1>9. Pending(e)'
  <2>1. CASE edit[e].kind = "plan"
    <3>1. d \in DOMAIN docs' /\ docs'[d].kind = "plan" /\ docs'[d].version = 1
          /\ docs'[d].content = edit[e].content
      BY <1>3, <1>4, <2>1 DEF Stored
    <3>2. Had(d)' = <<>>
      BY <1>0, <1>1 DEF Had
    <3>3. DOMAIN <<>> = 1 .. 1 - 1
      OBVIOUS
    <3> QED
      BY <1>8, <2>1, <3>1, <3>2, <3>3 DEF Pending, Edits
  <2>2. CASE edit[e].kind # "plan"
    BY <1>0, <1>2, <2>2 DEF Pending, Edits
  <2> QED
    BY <2>1, <2>2
<1>10. Kept'
  <2>1. DOMAIN edit' = Editors /\ DOMAIN versions' \subseteq OfKind("plan")'
    BY <1>0, <1>2, <1>6 DEF Kept
  <2>2. ASSUME NEW f \in DOMAIN docs'
        PROVE  /\ DOMAIN docs'[f] = Columns /\ docs'[f].version \in Nat \ {0}
               /\ docs'[f].kind = "environment" => \E v : docs'[f].content = Seal(v)
    <3>1. CASE f = d
      BY <1>3, <1>4, <3>1 DEF Stored
    <3>2. CASE f # d
      BY <1>0, <1>4, <3>2 DEF Kept
    <3> QED
      BY <3>1, <3>2
  <2>3. ASSUME NEW f \in OfKind("plan")'
        PROVE  Agrees(f)' \/ \E g \in Editors : Edits(g, "Update", "version")' /\ edit'[g].doc = f
    BY <1>6, <1>7, <1>8 DEF Edits
  <2> QED
    BY <2>1, <2>2, <2>3 DEF Kept
<1> QED
  BY <1>0, <1>9, <1>10 DEF SaveInv

LEMMA WriteKeepsSaves ==
  ASSUME SaveInv, OneEditor, NEW e \in Editors, WriteDoc(e)
  PROVE  SaveInv'
<1>a. PICK d : d = edit[e].doc
  OBVIOUS
<1>b. PICK row : row = [docs[d] EXCEPT !.content = Stored(docs[d].kind, Meant(e)),
                                       !.version = edit[e].version, !.updated = edit[e].at]
  OBVIOUS
<1>0. Kept /\ DOMAIN edit = Editors /\ UNCHANGED versions /\ \A f \in Editors : f = e
  BY DEF SaveInv, Kept, WriteDoc, OneEditor
<1>1. /\ d \in DOMAIN docs /\ docs' = [docs EXCEPT ![d] = row]
      /\ row.kind = docs[d].kind /\ row.version = docs[d].version + 1 /\ DOMAIN row = Columns
      /\ row.content = Stored(docs[d].kind, Meant(e))
  BY <1>a, <1>b, WriteKeepsSecret
<1>2. /\ Edits(e, "Update", "write") /\ SaveFields \subseteq DOMAIN edit[e]
      /\ edit[e].content = Redacted => docs[d].kind = "environment"
      /\ edit[e].version = docs[d].version + 1
  BY <1>a DEF WriteDoc, SaveInv, Pending
<1>3. docs[d].version \in Nat \ {0}
  BY <1>0, <1>1 DEF Kept
<1>4. IF docs[d].kind = "plan" THEN edit' = [edit EXCEPT ![e] = [edit[e] EXCEPT !.step = "version"]]
      ELSE edit' = [edit EXCEPT ![e] = NoEdit]
  BY <1>1, <1>a DEF WriteDoc, Reply
<1>5. /\ DOMAIN docs' = DOMAIN docs /\ docs'[d] = row
      /\ \A f \in DOMAIN docs : f # d => docs'[f] = docs[f]
  BY <1>1
<1>6. OfKind("plan")' = OfKind("plan")
  BY <1>1, <1>5 DEF OfKind
<1>7. \A f \in OfKind("plan") : Agrees(f)
  BY <1>0, <1>2 DEF Kept, Edits
<1>8. \A f \in OfKind("plan") : f # d => Agrees(f)'
  BY <1>0, <1>5, <1>7 DEF OfKind, Agrees
<1>9. docs[d].kind = "plan" =>
        /\ edit'[e].op = "Update" /\ edit'[e].step = "version" /\ edit'[e].doc = d /\ edit'[e] # NoEdit
        /\ edit'[e].content = edit[e].content /\ edit'[e].version = edit[e].version
        /\ edit[e].content # Redacted
  <2>1. edit[e].op = "Update"
    BY <1>2 DEF Edits
  <2>2. edit[e].doc = d
    BY <1>a
  <2> QED
    BY <1>0, <1>2, <1>4, <2>1, <2>2, WorkspaceAssumption DEF NoEdit, SaveFields
<1>10. Pending(e)'
  <2>1. CASE docs[d].kind = "plan"
    <3>1. /\ d \in DOMAIN docs' /\ docs'[d].kind = "plan" /\ docs'[d].version = edit[e].version
          /\ docs'[d].content = edit[e].content
      BY <1>1, <1>2, <1>5, <1>9, <2>1 DEF Stored, Meant
    <3>2. d \in OfKind("plan") /\ Had(d)' = versions[d] /\ DOMAIN versions[d] = 1 .. docs[d].version
      BY <1>0, <1>1, <1>7, <2>1 DEF OfKind, Agrees, Had
    <3>3. docs[d].version = edit[e].version - 1
      BY <1>2, <1>3
    <3> QED
      BY <1>9, <2>1, <3>1, <3>2, <3>3 DEF Pending, Edits
  <2>2. CASE docs[d].kind # "plan"
    BY <1>0, <1>4, <2>2 DEF Pending, Edits
  <2> QED
    BY <2>1, <2>2
<1>11. Kept'
  <2>1. DOMAIN edit' = Editors /\ DOMAIN versions' \subseteq OfKind("plan")'
    BY <1>0, <1>4, <1>6 DEF Kept
  <2>2. ASSUME NEW f \in DOMAIN docs'
        PROVE  /\ DOMAIN docs'[f] = Columns /\ docs'[f].version \in Nat \ {0}
               /\ docs'[f].kind = "environment" => \E v : docs'[f].content = Seal(v)
    <3>1. CASE f = d
      BY <1>1, <1>3, <1>5, <3>1 DEF Stored
    <3>2. CASE f # d
      BY <1>0, <1>5, <3>2 DEF Kept
    <3> QED
      BY <3>1, <3>2
  <2>3. ASSUME NEW f \in OfKind("plan")'
        PROVE  Agrees(f)' \/ \E g \in Editors : Edits(g, "Update", "version")' /\ edit'[g].doc = f
    <3>1. CASE f = d
      <4>1. docs[d].kind = "plan"
        BY <1>6, <2>3, <3>1 DEF OfKind
      <4> QED
        BY <1>9, <3>1, <4>1 DEF Edits
    <3>2. CASE f # d
      BY <1>6, <1>8, <2>3, <3>2
    <3> QED
      BY <3>1, <3>2
  <2> QED
    BY <2>1, <2>2, <2>3 DEF Kept
<1> QED
  BY <1>0, <1>10, <1>11 DEF SaveInv

LEMMA SaveVersionKeepsSaves ==
  ASSUME SaveInv, OneEditor, NEW e \in Editors, SaveVersion(e)
  PROVE  SaveInv'
<1>a. PICK d : d = edit[e].doc
  OBVIOUS
<1>b. PICK v : v = edit[e].version
  OBVIOUS
<1>0. Kept /\ DOMAIN edit = Editors /\ UNCHANGED docs /\ \A f \in Editors : f = e
  BY DEF SaveInv, Kept, SaveVersion, OneEditor
<1>1. /\ d \in DOMAIN docs /\ docs[d].kind = "plan" /\ v = docs[d].version
      /\ edit[e].content = docs[d].content /\ DOMAIN Had(d) = 1 .. v - 1
  BY <1>a, <1>b DEF SaveVersion, SaveInv, Pending
<1>2. v \in Nat \ {0} /\ v \notin DOMAIN Had(d) /\ DOMAIN Had(d) \cup {v} = 1 .. v
  BY <1>0, <1>1 DEF Kept
<1>3. /\ versions' = Put(versions, d, Put(Had(d), v, edit[e].content))
      /\ edit' = [edit EXCEPT ![e] = NoEdit]
  BY <1>1, <1>2, <1>a, <1>b DEF SaveVersion, Reply, Had
<1>4. /\ DOMAIN versions' = DOMAIN versions \cup {d}
      /\ versions'[d] = Put(Had(d), v, edit[e].content)
      /\ \A f \in DOMAIN versions : f # d => versions'[f] = versions[f]
  BY <1>3 DEF Put
<1>5. DOMAIN versions'[d] = 1 .. v /\ versions'[d][v] = edit[e].content
  BY <1>2, <1>4 DEF Put
<1>6. OfKind("plan")' = OfKind("plan") /\ d \in OfKind("plan")
  BY <1>0, <1>1 DEF OfKind
<1>7. \A f \in OfKind("plan") : Agrees(f)'
  <2>1. Agrees(d)'
    BY <1>0, <1>1, <1>4, <1>5 DEF Agrees
  <2>2. \A f \in OfKind("plan") : f # d => Agrees(f)
    BY <1>0, <1>a DEF Kept
  <2> QED
    BY <1>0, <1>4, <2>1, <2>2 DEF Agrees
<1>8. Kept'
  BY <1>0, <1>3, <1>4, <1>6, <1>7 DEF Kept
<1>9. Pending(e)'
  BY <1>0, <1>3 DEF Pending, Edits
<1> QED
  BY <1>0, <1>8, <1>9 DEF SaveInv

LEMMA DeleteKeepsSaves ==
  ASSUME SaveInv, OneEditor, NEW e \in Editors, DeleteDoc(e)
  PROVE  SaveInv'
<1>a. PICK d : d = edit[e].doc
  OBVIOUS
<1>0. Kept /\ DOMAIN edit = Editors /\ \A f \in Editors : f = e
  BY DEF SaveInv, Kept, OneEditor
<1>1. /\ docs' = Drop(docs, d) /\ versions' = Drop(versions, d) /\ edit[e].op = "Delete"
      /\ edit' = [edit EXCEPT ![e] = NoEdit]
  BY <1>a DEF DeleteDoc, Reply, Edits
<1>2. /\ DOMAIN docs' = DOMAIN docs \ {d} /\ \A f \in DOMAIN docs' : docs'[f] = docs[f]
      /\ DOMAIN versions' = DOMAIN versions \ {d} /\ \A f \in DOMAIN versions' : versions'[f] = versions[f]
  BY <1>1 DEF Drop, Restrict
<1>3. OfKind("plan")' = OfKind("plan") \ {d}
  BY <1>2 DEF OfKind
<1>4. \A f \in OfKind("plan") : Agrees(f)
  BY <1>0, <1>1 DEF Kept, Edits
<1>5. \A f \in OfKind("plan") \ {d} : Agrees(f)'
  BY <1>2, <1>4 DEF OfKind, Agrees
<1>6. Kept'
  BY <1>0, <1>1, <1>2, <1>3, <1>5 DEF Kept
<1>7. Pending(e)'
  BY <1>0, <1>1 DEF Pending, Edits
<1> QED
  BY <1>0, <1>6, <1>7 DEF SaveInv

LEMMA SaveStep ==
  ASSUME SaveInv, OneEditor, [WorkspaceNext]_workspaceVars
  PROVE  SaveInv'
<1>1. CASE UNCHANGED <<docs, versions, edit>>
  BY <1>1, ListsKeepSaves
<1>2. ASSUME NEW e \in Editors,
             \/ Ask(e) \/ Insert(e) \/ GetDoc(e) \/ WriteDoc(e) \/ SaveVersion(e)
             \/ CheckDelete(e) \/ DeleteDoc(e)
      PROVE  SaveInv'
  BY <1>2, RequestKeepsSaves, InsertKeepsSaves, WriteKeepsSaves, SaveVersionKeepsSaves, DeleteKeepsSaves
<1> QED
  BY <1>1, <1>2 DEF WorkspaceNext, workspaceVars, StartWalk, Page, EndWalk

\* Between saves, a plan has a version for every number up to its own, and the
\* last one holds what the plan holds (db/plans.go, Update and saveVersion),
\* when saves come one at a time.
THEOREM PlansAgreeWithHistory ==
  ASSUME OneEditor
  PROVE  WorkspaceSpec => []HistoryAgrees
<1>1. SaveInv => HistoryAgrees
  BY DEF SaveInv, Kept, Agrees, Edits, HistoryAgrees
<1> QED
  BY SaveInit, SaveStep, <1>1, PTL DEF WorkspaceSpec

\* A secret changes only by a save that brings a new value for it
\* (db/environments.go, Update), when saves come one at a time.
THEOREM SecretsStay ==
  ASSUME OneEditor
  PROVE  WorkspaceSpec => SecretStays
<1> DEFINE Stays ==
      \A d \in DOMAIN docs \cap DOMAIN docs' :
        docs[d].kind = "environment" /\ docs'[d].content # docs[d].content =>
          \E e \in Editors : Edits(e, "Update", "write") /\ edit[e].doc = d /\ edit[e].content # Redacted
<1>1. ASSUME SaveInv, [WorkspaceNext]_workspaceVars PROVE Stays
  <2>1. CASE UNCHANGED docs
    BY <2>1
  <2>2. ASSUME NEW e \in Editors, Insert(e) PROVE Stays
    <3>1. (CHOOSE f \in Free : TRUE) \notin DOMAIN docs
      <4>1. (CHOOSE f \in Free : TRUE) \in Free
        BY <2>2 DEF Insert
      <4> QED
        BY <4>1 DEF Free
    <3>2. \A d \in DOMAIN docs : docs'[d] = docs[d]
      BY <2>2, <3>1 DEF Insert, Put
    <3> QED
      BY <3>2
  <2>3. ASSUME NEW e \in Editors, DeleteDoc(e) PROVE Stays
    BY <2>3 DEF DeleteDoc, Drop, Restrict
  <2>4. ASSUME NEW e \in Editors, WriteDoc(e) PROVE Stays
    <3>1. Edits(e, "Update", "write")
      BY <2>4 DEF WriteDoc
    <3> QED
      BY <1>1, <2>4, <3>1, WriteKeepsSecret
  <2> QED
    BY <1>1, <2>1, <2>2, <2>3, <2>4
    DEF WorkspaceNext, workspaceVars, Ask, GetDoc, SaveVersion, CheckDelete, StartWalk, Page, EndWalk
<1>2. SaveInv /\ [WorkspaceNext]_workspaceVars => [Stays]_workspaceVars
  BY <1>1
<1> QED
  BY SaveInit, SaveStep, <1>2, PTL DEF WorkspaceSpec, SecretStays
-----------------------------------------------------------------------------
(* Types *)

Images(k) == {Stored(k, v) : v \in Contents}
Texts == Contents \cup {Redacted}
Rows(k) == [kind : {k}, content : Images(k), builtIn : BOOLEAN, version : Nat, updated : 0 .. MaxNow]

\* What a request may be doing, by the fields it has.
Creating == [op : {"Create"}, step : {"insert"}, kind : Kinds, content : Contents]
Asked == [op : {"Update"}, step : {"get"}, doc : Docs, content : Texts]
Writing(r) ==
  /\ DOMAIN r = {"op", "step", "doc", "content", "read", "version", "at"}
  /\ r.op = "Update" /\ r.step \in {"write", "version"} /\ r.doc \in Docs /\ r.content \in Texts
  /\ r.version \in Nat /\ r.at \in 0 .. MaxNow
Numbering == [op : {"Update"}, step : {"version"}, doc : Docs, content : Contents, version : Nat]
Deleting == [op : {"Delete"}, step : {"check", "delete"}, doc : Docs]
Plain == {NoEdit} \cup Creating \cup Asked \cup Numbering \cup Deleting
Requested(r) == r \in Plain \/ Writing(r)

\* A request keeps the kind of the document it is about: an id that it holds is
\* not given to another document.
Suits(r, k) ==
  /\ r.op = "Update" /\ r.step \in {"get", "write"} => (r.content = Redacted => k = "environment")
  /\ r.op = "Update" /\ r.step = "write" => r.read \in Images(k)
  /\ r.op = "Update" /\ r.step = "version" => k = "plan"

Suited(r) == "doc" \in DOMAIN r /\ r.doc \in DOMAIN docs => Suits(r, docs[r.doc].kind)

WalkTyped ==
  walk = NoWalk \/ /\ DOMAIN walk = {"kind", "cursor", "seen", "due", "more"}
                   /\ walk.kind \in ListKinds /\ walk.seen \in SUBSET Docs /\ walk.due \in SUBSET Docs

TypeInv ==
  /\ DOMAIN docs \in SUBSET Docs /\ DOMAIN edit = Editors /\ now \in Nat
  /\ \A d \in DOMAIN docs : docs[d].kind \in Kinds /\ docs[d] \in Rows(docs[d].kind)
  /\ DOMAIN versions \in SUBSET OfKind("plan")
  /\ \A e \in Editors : Requested(edit[e]) /\ Suited(edit[e])
  /\ WalkTyped

LEMMA NoEditIs == Requested(NoEdit) /\ ~("doc" \in DOMAIN NoEdit)
  BY DEF Requested, Plain, NoEdit

\* What a request is, by its operation and step.
LEMMA Which ==
  ASSUME TypeInv, NEW e \in Editors, edit[e] # NoEdit
  PROVE  /\ edit[e].op = "Create" => edit[e] \in Creating
         /\ edit[e].op = "Update" /\ edit[e].step = "get" => edit[e] \in Asked
         /\ edit[e].op = "Update" /\ edit[e].step = "write" => Writing(edit[e])
         /\ edit[e].op = "Update" /\ edit[e].step = "version" => Writing(edit[e]) \/ edit[e] \in Numbering
         /\ edit[e].op = "Delete" => edit[e] \in Deleting
  BY DEF TypeInv, Requested, Plain, Creating, Asked, Writing, Numbering, Deleting

LEMMA TypeInit == WorkspaceInit => TypeInv
<1> SUFFICES ASSUME WorkspaceInit PROVE TypeInv
  OBVIOUS
<1>1. edit = [e \in Editors |-> NoEdit] /\ now = 1 /\ walk = NoWalk
      /\ versions = [d \in {e \in DOMAIN docs : docs[e].kind = "plan"} |-> <<docs[d].content>>]
  BY DEF WorkspaceInit
<1>2. DOMAIN docs \in SUBSET Docs
  BY Seeded
<1>3. ASSUME NEW d \in DOMAIN docs PROVE docs[d].kind \in Kinds /\ docs[d] \in Rows(docs[d].kind)
  <2>1. PICK k \in BuiltIns, v \in Contents : docs[d] = Row(k, v, TRUE, 0)
    BY Seeded
  <2>2. k \in Kinds /\ MaxNow \in Nat
    BY WorkspaceAssumption DEF Kinds
  <2> QED
    BY <2>1, <2>2 DEF Row, Rows, Images
<1>4. \A e \in Editors : Requested(edit[e]) /\ Suited(edit[e])
  BY <1>1, NoEditIs DEF Suited
<1>5. DOMAIN versions \in SUBSET OfKind("plan")
  BY <1>1 DEF OfKind
<1> QED
  BY <1>1, <1>2, <1>3, <1>4, <1>5 DEF TypeInv, WalkTyped

\* A request that takes a step without touching a row.
LEMMA RequestMoves ==
  ASSUME TypeInv, NEW e \in Editors, NEW r, edit' = [edit EXCEPT ![e] = r],
         UNCHANGED <<docs, versions, walk>>, now' \in Nat, Requested(r), Suited(r)
  PROVE  TypeInv'
<1>1. DOMAIN edit' = Editors /\ edit'[e] = r /\ \A f \in Editors \ {e} : edit'[f] = edit[f]
  BY DEF TypeInv
<1>2. \A f \in Editors : Requested(edit'[f]) /\ Suited(edit'[f])
  BY <1>1 DEF TypeInv
<1>3. \A f \in Editors : Requested(edit[f])' /\ Suited(edit[f])'
  BY <1>2 DEF Suited, Requested
<1> QED
  BY <1>1, <1>3 DEF TypeInv, WalkTyped, OfKind

LEMMA AskTypes ==
  ASSUME TypeInv, NEW e \in Editors, Ask(e)
  PROVE  TypeInv'
<1>1. UNCHANGED <<docs, versions, walk, now>> /\ now' \in Nat
  BY DEF Ask, TypeInv
<1>2. PICK r : edit' = [edit EXCEPT ![e] = r] /\ Requested(r) /\ Suited(r)
  <2>1. CASE \E k \in Kinds, v \in Contents :
               edit' = [edit EXCEPT ![e] = [op |-> "Create", step |-> "insert", kind |-> k, content |-> v]]
    <3>1. PICK k \in Kinds, v \in Contents :
            edit' = [edit EXCEPT ![e] = [op |-> "Create", step |-> "insert", kind |-> k, content |-> v]]
      BY <2>1
    <3> DEFINE r == [op |-> "Create", step |-> "insert", kind |-> k, content |-> v]
    <3>2. r \in Creating /\ ~("doc" \in DOMAIN r)
      BY DEF Creating
    <3> QED
      BY <3>1, <3>2 DEF Requested, Plain, Suited
  <2>2. ASSUME NEW d \in DOMAIN docs,
               NEW v \in Contents \cup (IF docs[d].kind = "environment" THEN {Redacted} ELSE {}),
               edit' = [edit EXCEPT ![e] = [op |-> "Update", step |-> "get", doc |-> d, content |-> v]]
        PROVE  \E r : edit' = [edit EXCEPT ![e] = r] /\ Requested(r) /\ Suited(r)
    <3> DEFINE r == [op |-> "Update", step |-> "get", doc |-> d, content |-> v]
    <3>1. d \in Docs /\ v \in Texts /\ (v = Redacted => docs[d].kind = "environment")
      BY WorkspaceAssumption DEF TypeInv, Texts
    <3>2. r \in Asked
      BY <3>1 DEF Asked
    <3>3. Suited(r)
      BY <3>1 DEF Suited, Suits
    <3> QED
      BY <2>2, <3>2, <3>3 DEF Requested, Plain
  <2>3. ASSUME NEW d \in DOMAIN docs,
               edit' = [edit EXCEPT ![e] = [op |-> "Delete", step |-> "check", doc |-> d]]
        PROVE  \E r : edit' = [edit EXCEPT ![e] = r] /\ Requested(r) /\ Suited(r)
    <3> DEFINE r == [op |-> "Delete", step |-> "check", doc |-> d]
    <3>1. r \in Deleting
      BY DEF TypeInv, Deleting
    <3>2. Suited(r)
      BY DEF Suited, Suits
    <3> QED
      BY <2>3, <3>1, <3>2 DEF Requested, Plain
  <2> QED
    BY <2>1, <2>2, <2>3 DEF Ask
<1> QED
  BY <1>1, <1>2, RequestMoves

LEMMA GetDocTypes ==
  ASSUME TypeInv, NEW e \in Editors, GetDoc(e)
  PROVE  TypeInv'
<1> DEFINE d == edit[e].doc
           r == [op |-> "Update", step |-> "write", doc |-> d, content |-> edit[e].content,
                 read |-> docs[d].content, version |-> docs[d].version + 1, at |-> now]
<1>1. UNCHANGED <<docs, versions, walk>> /\ now' \in Nat /\ now \in 0 .. MaxNow
  BY WorkspaceAssumption DEF GetDoc, TypeInv
<1>2. edit[e] \in Asked /\ Suited(edit[e])
  BY Which DEF GetDoc, Edits, TypeInv
<1>3. CASE d \in DOMAIN docs /\ edit' = [edit EXCEPT ![e] = r]
  <2>1. docs[d] \in Rows(docs[d].kind)
    BY <1>3 DEF TypeInv
  <2>2. docs[d].version \in Nat /\ docs[d].content \in Images(docs[d].kind)
    BY <2>1 DEF Rows
  <2>3. d \in Docs /\ edit[e].content \in Texts
    BY <1>2 DEF Asked
  <2>4. Writing(r)
    BY <1>1, <2>2, <2>3 DEF Writing
  <2>5. edit[e].content = Redacted => docs[d].kind = "environment"
    BY <1>2, <1>3 DEF Suited, Suits, Asked
  <2>6. Suited(r)
    BY <2>2, <2>5 DEF Suited, Suits
  <2> HIDE DEF r, d
  <2> QED
    BY <1>1, <1>3, <2>4, <2>6, RequestMoves DEF Requested
<1>4. CASE edit' = [edit EXCEPT ![e] = NoEdit]
  BY <1>1, <1>4, NoEditIs, RequestMoves DEF Suited
<1> QED
  BY <1>3, <1>4 DEF GetDoc, Reply

\* Steps that leave the rows of documents, but for the versions.
LEMMA SaveVersionTypes ==
  ASSUME TypeInv, NEW e \in Editors, SaveVersion(e)
  PROVE  TypeInv'
<1> DEFINE d == edit[e].doc
<1>1. edit' = [edit EXCEPT ![e] = NoEdit] /\ UNCHANGED <<docs, walk, now>>
      /\ Edits(e, "Update", "version")
  BY DEF SaveVersion, Reply
<1>2. Suited(edit[e]) /\ "doc" \in DOMAIN edit[e]
  BY <1>1, Which DEF Edits, TypeInv, Writing, Numbering
<1>3. d \in DOMAIN docs => docs[d].kind = "plan"
  BY <1>1, <1>2 DEF Suited, Suits, Edits
<1>4. DOMAIN versions' \in SUBSET OfKind("plan")
  <2>1. UNCHANGED versions \/ (d \in DOMAIN docs /\ \E had : versions' = Put(versions, d, had))
    BY DEF SaveVersion
  <2> QED
    BY <1>3, <2>1 DEF TypeInv, Put, OfKind
<1>5. DOMAIN edit' = Editors /\ \A f \in Editors : Requested(edit'[f]) /\ Suited(edit'[f])
  BY <1>1, NoEditIs DEF TypeInv, Suited
<1>6. \A f \in Editors : Requested(edit[f])' /\ Suited(edit[f])'
  BY <1>1, <1>5 DEF Suited, Requested
<1> QED
  BY <1>1, <1>4, <1>5, <1>6 DEF TypeInv, WalkTyped, OfKind

LEMMA CheckDeleteTypes ==
  ASSUME TypeInv, NEW e \in Editors, CheckDelete(e)
  PROVE  TypeInv'
<1> DEFINE r == [edit[e] EXCEPT !.step = "delete"]
<1>1. UNCHANGED <<docs, versions, walk, now>> /\ now' \in Nat
      /\ (edit' = [edit EXCEPT ![e] = NoEdit] \/ edit' = [edit EXCEPT ![e] = r])
  BY DEF CheckDelete, Reply, TypeInv
<1>2. edit[e] \in Deleting
  BY Which DEF CheckDelete, Edits
<1>3. r \in Deleting /\ r.op = "Delete"
  BY <1>2 DEF Deleting
<1> HIDE DEF r
<1>4. Requested(r) /\ Suited(r)
  BY <1>3 DEF Requested, Plain, Suited, Suits
<1> QED
  BY <1>1, <1>4, NoEditIs, RequestMoves DEF Suited

\* The new row has an id that no request holds.
LEMMA InsertTypes ==
  ASSUME TypeInv, NEW e \in Editors, Insert(e)
  PROVE  TypeInv'
<1> DEFINE d == CHOOSE f \in Free : TRUE
           k == edit[e].kind
           row == Row(k, edit[e].content, FALSE, now)
           r == [op |-> "Update", step |-> "version", doc |-> d, content |-> edit[e].content, version |-> 1]
<1>1. d \in Docs /\ d \notin DOMAIN docs
      /\ \A f \in Editors : "doc" \in DOMAIN edit[f] => edit[f].doc # d
  <2>1. d \in Free
    BY DEF Insert
  <2> QED
    BY <2>1 DEF Free
<1>2. UNCHANGED <<versions, walk>> /\ now' \in Nat /\ now \in 0 .. MaxNow /\ docs' = Put(docs, d, row)
      /\ (edit' = [edit EXCEPT ![e] = NoEdit] \/ (k = "plan" /\ edit' = [edit EXCEPT ![e] = r]))
  BY WorkspaceAssumption DEF Insert, TypeInv, Reply
<1>3. k \in Kinds /\ edit[e].content \in Contents
  BY Which DEF Insert, Edits, Creating
<1>4. row \in Rows(k) /\ row.kind = k
  BY <1>2, <1>3 DEF Row, Rows, Images
<1>5. r \in Numbering /\ r.doc = d /\ (k = "plan" => Suits(r, k))
  BY <1>1, <1>3 DEF Numbering, Suits
<1> HIDE DEF d, row, r, k
<1>6. /\ DOMAIN docs' = DOMAIN docs \cup {d} /\ docs'[d] = row
      /\ \A f \in DOMAIN docs : docs'[f] = docs[f]
  BY <1>1, <1>2 DEF Put
<1>7. \A f \in DOMAIN docs' : docs'[f].kind \in Kinds /\ docs'[f] \in Rows(docs'[f].kind)
  BY <1>3, <1>4, <1>6 DEF TypeInv
<1>8. DOMAIN versions' \in SUBSET OfKind("plan")'
  BY <1>2, <1>6 DEF TypeInv, OfKind
<1>9. ASSUME NEW f \in Editors PROVE Requested(edit[f])' /\ Suited(edit[f])'
  <2>1. CASE edit'[f] = edit[f]
    BY <1>1, <1>6, <2>1 DEF TypeInv, Requested, Suited
  <2>2. CASE edit'[f] = NoEdit
    BY <2>2, NoEditIs DEF Requested, Suited
  <2>3. CASE edit'[f] = r /\ k = "plan"
    BY <1>4, <1>5, <1>6, <2>3 DEF Requested, Plain, Suited
  <2> QED
    BY <1>2, <2>1, <2>2, <2>3 DEF TypeInv
<1> QED
  BY <1>1, <1>2, <1>6, <1>7, <1>8, <1>9 DEF TypeInv, WalkTyped

LEMMA TouchTypes ==
  ASSUME WalkTyped, NEW d, Touch(d)
  PROVE  WalkTyped'
  BY DEF WalkTyped, Touch

\* What is stored is the image of a content: a secret sent back as it was shown
\* is the one that was read.
LEMMA WriteDocTypes ==
  ASSUME TypeInv, NEW e \in Editors, WriteDoc(e)
  PROVE  TypeInv'
<1> DEFINE d == edit[e].doc
           k == docs[d].kind
           row == [docs[d] EXCEPT !.content = Stored(k, Meant(e)), !.version = edit[e].version, !.updated = edit[e].at]
           r == [edit[e] EXCEPT !.step = "version"]
<1>1. Edits(e, "Update", "write") /\ UNCHANGED <<versions, now>> /\ Writing(edit[e]) /\ Suited(edit[e]) /\ now \in Nat
  BY Which DEF WriteDoc, Edits, TypeInv
<1>2. CASE d \notin DOMAIN docs
  <2>1. edit' = [edit EXCEPT ![e] = NoEdit] /\ UNCHANGED <<docs, walk>>
    BY <1>2 DEF WriteDoc, Reply
  <2> QED
    BY <1>1, <2>1, NoEditIs, RequestMoves DEF Suited
<1>3. CASE d \in DOMAIN docs
  <2>1. /\ docs' = [docs EXCEPT ![d] = row] /\ Touch(d)
        /\ edit' = [edit EXCEPT ![e] = NoEdit] \/ (k = "plan" /\ edit' = [edit EXCEPT ![e] = r])
    BY <1>3 DEF WriteDoc, Reply
  <2>2. k \in Kinds /\ docs[d] \in Rows(k)
    BY <1>3 DEF TypeInv
  <2>3. /\ edit[e].content \in Texts /\ edit[e].version \in Nat /\ edit[e].at \in 0 .. MaxNow
        /\ edit[e].content = Redacted => k = "environment"
        /\ edit[e].read \in Images(k)
    BY <1>1, <1>3 DEF Writing, Suited, Suits, Edits
  <2>4. Stored(k, Meant(e)) \in Images(k)
    <3>1. CASE edit[e].content = Redacted
      <4>1. PICK v \in Contents : edit[e].read = Seal(v)
        BY <2>3, <3>1 DEF Images, Stored
      <4>2. Stored(k, Meant(e)) = Seal(v)
        BY <2>3, <3>1, <4>1, Resealed DEF Stored, Meant
      <4> QED
        BY <2>3, <3>1, <4>2 DEF Images, Stored
    <3>2. CASE edit[e].content # Redacted
      BY <2>3, <3>2 DEF Texts, Images, Meant
    <3> QED
      BY <3>1, <3>2
  <2>5. row \in Rows(k) /\ row.kind = k
    BY <2>2, <2>3, <2>4 DEF Rows
  <2>6. Writing(r) /\ r.doc = d /\ (k = "plan" => Suits(r, k))
    BY <1>1 DEF Writing, Suits
  <2> HIDE DEF r, row
  <2>7. /\ DOMAIN docs' = DOMAIN docs /\ docs'[d] = row
        /\ \A f \in DOMAIN docs : f # d => docs'[f] = docs[f]
        /\ \A f \in DOMAIN docs : docs'[f].kind = docs[f].kind
    BY <1>3, <2>1, <2>5
  <2>8. \A f \in DOMAIN docs' : docs'[f].kind \in Kinds /\ docs'[f] \in Rows(docs'[f].kind)
    BY <2>2, <2>5, <2>7 DEF TypeInv
  <2>9. DOMAIN versions' \in SUBSET OfKind("plan")'
    BY <1>1, <2>7 DEF TypeInv, OfKind
  <2>10. ASSUME NEW f \in Editors PROVE Requested(edit[f])' /\ Suited(edit[f])'
    <3>1. CASE edit'[f] = edit[f]
      BY <2>7, <3>1 DEF TypeInv, Requested, Suited
    <3>2. CASE edit'[f] = NoEdit
      BY <3>2, NoEditIs DEF Requested, Suited
    <3>3. CASE edit'[f] = r /\ k = "plan"
      BY <2>6, <2>7, <3>3 DEF Requested, Suited
    <3> QED
      BY <2>1, <3>1, <3>2, <3>3 DEF TypeInv
  <2>11. DOMAIN edit' = Editors
    BY <2>1 DEF TypeInv
  <2>12. WalkTyped'
    BY <2>1, TouchTypes DEF TypeInv
  <2> QED
    BY <1>1, <2>7, <2>8, <2>9, <2>10, <2>11, <2>12 DEF TypeInv
<1> QED
  BY <1>2, <1>3

LEMMA DeleteDocTypes ==
  ASSUME TypeInv, NEW e \in Editors, DeleteDoc(e)
  PROVE  TypeInv'
<1> DEFINE d == edit[e].doc
<1>1. /\ docs' = Drop(docs, d) /\ versions' = Drop(versions, d) /\ Touch(d) /\ UNCHANGED now
      /\ edit' = [edit EXCEPT ![e] = NoEdit]
  BY DEF DeleteDoc, Reply
<1> HIDE DEF d
<1>2. /\ DOMAIN docs' = DOMAIN docs \ {d} /\ \A f \in DOMAIN docs' : docs'[f] = docs[f]
      /\ DOMAIN versions' = DOMAIN versions \ {d}
  BY <1>1 DEF Drop, Restrict
<1>3. DOMAIN versions' \in SUBSET OfKind("plan")'
  BY <1>2 DEF TypeInv, OfKind
<1>4. ASSUME NEW f \in Editors PROVE Requested(edit[f])' /\ Suited(edit[f])'
  <2>1. CASE edit'[f] = edit[f]
    BY <1>2, <2>1 DEF TypeInv, Requested, Suited
  <2>2. CASE edit'[f] = NoEdit
    BY <2>2, NoEditIs DEF Requested, Suited
  <2> QED
    BY <1>1, <2>1, <2>2 DEF TypeInv
<1>5. WalkTyped' /\ DOMAIN edit' = Editors
  BY <1>1, TouchTypes DEF TypeInv
<1> QED
  BY <1>1, <1>2, <1>3, <1>4, <1>5 DEF TypeInv

LEMMA ListsKeepTypes ==
  ASSUME TypeInv, UNCHANGED <<docs, versions, edit, now>>, WalkTyped'
  PROVE  TypeInv'
<1>1. \A f \in Editors : Requested(edit[f])' /\ Suited(edit[f])'
  BY DEF TypeInv, Requested, Suited
<1> QED
  BY <1>1 DEF TypeInv, OfKind

LEMMA TypeStep == TypeInv /\ [WorkspaceNext]_workspaceVars => TypeInv'
<1> SUFFICES ASSUME TypeInv, [WorkspaceNext]_workspaceVars PROVE TypeInv'
  OBVIOUS
<1>1. CASE UNCHANGED workspaceVars
  BY <1>1, ListsKeepTypes DEF workspaceVars, TypeInv, WalkTyped
<1>2. ASSUME NEW e \in Editors,
             \/ Ask(e) \/ Insert(e) \/ GetDoc(e) \/ WriteDoc(e) \/ SaveVersion(e)
             \/ CheckDelete(e) \/ DeleteDoc(e)
      PROVE  TypeInv'
  BY <1>2, AskTypes, InsertTypes, GetDocTypes, WriteDocTypes, SaveVersionTypes, CheckDeleteTypes, DeleteDocTypes
<1>3. ASSUME NEW k \in ListKinds, StartWalk(k) PROVE TypeInv'
  <2>1. OfKind(k) \in SUBSET Docs
    BY DEF TypeInv, OfKind
  <2>2. WalkTyped'
    BY <1>3, <2>1 DEF StartWalk, WalkTyped
  <2> QED
    BY <1>3, <2>2, ListsKeepTypes DEF StartWalk
<1>4. CASE Page
  <2>1. PICK page \in SUBSET OfKind(walk.kind) : \E more, cursor :
          walk' = [walk EXCEPT !.seen = @ \cup page, !.more = more, !.cursor = cursor]
    BY <1>4 DEF Page
  <2>2. walk # NoWalk /\ OfKind(walk.kind) \in SUBSET Docs
    BY <1>4 DEF Page, TypeInv, OfKind
  <2>3. WalkTyped'
    BY <2>1, <2>2 DEF TypeInv, WalkTyped
  <2> QED
    BY <1>4, <2>3, ListsKeepTypes DEF Page
<1>5. CASE EndWalk
  <2>1. WalkTyped'
    BY <1>5 DEF EndWalk, WalkTyped
  <2> QED
    BY <1>5, <2>1, ListsKeepTypes DEF EndWalk
<1> QED
  BY <1>1, <1>2, <1>3, <1>4, <1>5 DEF WorkspaceNext

\* However many requests overlap, rows have their types, versions are of plans
\* that are there, and what is stored is the image of a content somebody sent:
\* the text a secret is shown as is never stored for it (db/environments.go,
\* db/plans.go).
THEOREM WorkspaceTypes == WorkspaceSpec => []WorkspaceTypeOK
<1>1. TypeInv => WorkspaceTypeOK
  <2> SUFFICES ASSUME TypeInv PROVE WorkspaceTypeOK
    OBVIOUS
  <2>1. \A d \in DOMAIN docs :
          /\ docs[d].kind \in Kinds /\ docs[d].version \in Nat /\ docs[d].updated \in 0 .. MaxNow
          /\ docs[d].content \in {Stored(docs[d].kind, v) : v \in Contents}
    BY DEF TypeInv, Rows, Images
  <2>2. walk = NoWalk \/ (walk.due \cup walk.seen \subseteq Docs /\ walk.kind \in Kinds)
    BY WorkspaceAssumption DEF TypeInv, WalkTyped
  <2> QED
    BY <2>1, <2>2 DEF TypeInv, WorkspaceTypeOK
<1> QED
  BY TypeInit, TypeStep, <1>1, PTL DEF WorkspaceSpec

-----------------------------------------------------------------------------
(* The WebSocket hub.  What a browser gets is in order, and all that was   *)
(* not counted as dropped.                                                 *)

\* Types.
Conn == [state : {"none", "open", "leaving", "gone"}, locked : BOOLEAN, authed : BOOLEAN,
         channels : SUBSET Channels, send : Seq(Frames), got : Seq(Frames)]
Casting == [n : 0 .. MaxFrames, left : SUBSET Clients, sub : SUBSET Clients, frame : Frames \cup {<<>>}]

Typed ==
  /\ client \in [Clients -> Conn]
  /\ pub \in [Publishers -> Casting]
  /\ \A c \in Clients : due[c] \in SUBSET Frames /\ DOMAIN due = Clients
  /\ dropped \in SUBSET (Clients \X Frames)

Has(s, f) == \E i \in DOMAIN s : s[i] = f
Ordered(s) == \A i, j \in DOMAIN s : i < j /\ s[i].by = s[j].by => s[i].n < s[j].n

\* A publisher that has still to look at c has offered it nothing of the frame
\* under way.
Unoffered(c, s) ==
  \A i \in DOMAIN s : \A p \in Publishers : s[i].by = p =>
    /\ s[i].n <= pub[p].n
    /\ c \in pub[p].left => s[i].n < pub[p].n

\* The frame under way is the publisher's last; a client that was subscribed
\* when it began, and is so still, has it or will be offered it.
Underway(p) ==
  /\ pub[p].left # {} => pub[p].frame # <<>>
  /\ pub[p].frame # <<>> =>
       /\ pub[p].frame.by = p /\ pub[p].frame.n = pub[p].n
       /\ \A c \in pub[p].sub :
            IF c \in pub[p].left THEN pub[p].frame.ch \in client[c].channels
            ELSE <<c, pub[p].frame>> \in dropped \/ Has(Stream(c), pub[p].frame)

Received(c) ==
  /\ Ordered(Stream(c)) /\ Unoffered(c, Stream(c))
  /\ \A f \in due[c] : <<c, f>> \in dropped \/ Has(Stream(c), f)

HubInv == /\ Typed
          /\ \A c \in Clients : Received(c)
          /\ \A p \in Publishers : Underway(p)

-----------------------------------------------------------------------------
\* Writing a frame changes nothing in what the server has taken on for c.
LEMMA Written ==
  ASSUME NEW S, NEW got \in Seq(S), NEW send \in Seq(S), send # <<>>
  PROVE  /\ Append(got, Head(send)) \in Seq(S) /\ Tail(send) \in Seq(S)
         /\ Append(got, Head(send)) \o Tail(send) = got \o send
<1> DEFINE h == Head(send)
           t == Tail(send)
<1>1. h \in S /\ t \in Seq(S) /\ send = <<h>> \o t
  BY HeadTailProperties, ConcatProperties
<1>2. Append(got, h) = got \o <<h>> /\ <<h>> \in Seq(S)
  BY <1>1, AppendIsConcat
<1>3. (got \o <<h>>) \o t = got \o (<<h>> \o t)
  BY <1>1, <1>2, ConcatAssociative
<1>4. Append(got, h) \in Seq(S)
  BY <1>1
<1> QED
  BY <1>1, <1>2, <1>3, <1>4

\* Queueing a frame adds it at the end.
LEMMA Queued ==
  ASSUME NEW S, NEW got \in Seq(S), NEW send \in Seq(S), NEW f \in S
  PROVE  LET s == got \o send
             t == got \o Append(send, f)
         IN  /\ s \in Seq(S) /\ t \in Seq(S) /\ Append(send, f) \in Seq(S)
             /\ DOMAIN s = 1 .. Len(s) /\ DOMAIN t = 1 .. Len(s) + 1 /\ Len(s) \in Nat
             /\ \A i \in 1 .. Len(s) : t[i] = s[i]
             /\ t[Len(s) + 1] = f
  BY AppendProperties, ConcatProperties, LenProperties

\* A frame newer than all of its publisher's keeps the order.
LEMMA OrderKept ==
  ASSUME NEW s \in Seq(Frames), NEW t \in Seq(Frames), NEW f \in Frames, Len(s) \in Nat,
         DOMAIN s = 1 .. Len(s), DOMAIN t = 1 .. Len(s) + 1,
         \A i \in 1 .. Len(s) : t[i] = s[i], t[Len(s) + 1] = f,
         Ordered(s), \A i \in DOMAIN s : s[i].by = f.by => s[i].n < f.n
  PROVE  Ordered(t)
<1> SUFFICES ASSUME NEW i \in 1 .. Len(s) + 1, NEW j \in 1 .. Len(s) + 1, i < j, t[i].by = t[j].by
             PROVE  t[i].n < t[j].n
  BY DEF Ordered
<1>1. i \in 1 .. Len(s) /\ t[i] = s[i]
  OBVIOUS
<1>2. CASE j = Len(s) + 1
  BY <1>1, <1>2
<1>3. CASE j # Len(s) + 1
  BY <1>1, <1>3 DEF Ordered
<1> QED
  BY <1>2, <1>3

-----------------------------------------------------------------------------
LEMMA StreamTyped ==
  ASSUME Typed, NEW c \in Clients
  PROVE  /\ client[c] \in Conn /\ client[c].got \in Seq(Frames) /\ client[c].send \in Seq(Frames)
         /\ Stream(c) \in Seq(Frames)
<1>1. client[c] \in Conn
  BY DEF Typed
<1>2. client[c].got \in Seq(Frames) /\ client[c].send \in Seq(Frames)
  BY <1>1 DEF Conn
<1> QED
  BY <1>1, <1>2, ConcatProperties DEF Stream

LEMMA HubInit == WsInit => HubInv
<1> SUFFICES ASSUME WsInit PROVE HubInv
  OBVIOUS
<1>1. Unconnected \in Conn /\ Idle(0) \in Casting
  BY WsAssumption DEF Unconnected, Idle, Conn, Casting
<1>2. Typed
  BY <1>1 DEF WsInit, Typed
<1>3. ASSUME NEW c \in Clients PROVE Received(c)
  <2>1. Stream(c) = <<>> /\ due[c] = {}
    BY <1>3, ConcatEmptySeq, EmptySeq DEF WsInit, Unconnected, Stream
  <2> QED
    BY <2>1 DEF Received, Ordered, Unoffered
<1>4. ASSUME NEW p \in Publishers PROVE Underway(p)
  BY <1>4 DEF WsInit, Idle, Underway
<1> QED
  BY <1>2, <1>3, <1>4 DEF HubInv

\* Steps that change neither what clients have been sent nor the frames under
\* way, but for clients that give up a channel.
LEMMA StreamsStay ==
  ASSUME HubInv, Typed', UNCHANGED <<dropped, due>>,
         \A c \in Clients : Stream(c)' = Stream(c),
         \A p \in Publishers :
           /\ pub'[p].n = pub[p].n /\ pub'[p].left = pub[p].left /\ pub'[p].frame = pub[p].frame
           /\ pub'[p].sub \subseteq pub[p].sub
           /\ \A c \in pub'[p].sub :
                pub[p].frame # <<>> /\ pub[p].frame.ch \in client[c].channels =>
                  pub[p].frame.ch \in client'[c].channels
  PROVE  HubInv'
<1>1. ASSUME NEW c \in Clients PROVE Received(c)'
  <2>1. Received(c)
    BY DEF HubInv
  <2> DEFINE s == Stream(c)
  <2>2. Stream(c)' = s /\ Ordered(s) /\ Unoffered(c, s) /\ \A f \in due[c] : <<c, f>> \in dropped \/ Has(s, f)
    BY <2>1 DEF Received
  <2> HIDE DEF s
  <2>3. Unoffered(c, s)'
    BY <2>2, <2>1 DEF Unoffered, s
  <2> QED
    BY <2>2, <2>3 DEF Received, Ordered, Has, Unoffered, s
<1>2. ASSUME NEW p \in Publishers PROVE Underway(p)'
  <2>1. Underway(p)
    BY DEF HubInv
  <2>2. pub[p].sub \subseteq Clients
    BY DEF HubInv, Typed, Casting
  <2>3. \A c \in Clients : Has(Stream(c), pub[p].frame)' <=> Has(Stream(c), pub[p].frame)
    BY DEF Has
  <2> QED
    BY <2>1, <2>2, <2>3 DEF Underway
<1> QED
  BY <1>1, <1>2 DEF HubInv

\* What a connection does by itself.
LEMMA ConnectionKeeps ==
  ASSUME HubInv,
         \/ Connect
         \/ \E c \in Clients :
              \/ Auth(c) \/ Authenticated(c) \/ Disconnect(c) \/ Write(c) \/ WriteFails(c)
              \/ \E ch \in Channels : Subscribe(c, ch) \/ Unsubscribe(c, ch)
  PROVE  HubInv'
<1>0. /\ client \in [Clients -> Conn] /\ pub \in [Publishers -> Casting]
      /\ \A c \in Clients : client[c] \in Conn /\ client[c].got \in Seq(Frames) /\ client[c].send \in Seq(Frames)
  BY StreamTyped DEF HubInv, Typed
<1>1. PICK c \in Clients :
        \/ Connect /\ \E authed \in BOOLEAN : client' = [client EXCEPT ![c].state = "open", ![c].authed = authed]
        \/ Auth(c) \/ Authenticated(c) \/ Disconnect(c) \/ Write(c) \/ WriteFails(c)
        \/ \E ch \in Channels : Subscribe(c, ch) \/ Unsubscribe(c, ch)
  <2>1. CASE Connect
    <3>1. (CHOOSE d \in New : TRUE) \in New
      BY <2>1 DEF Connect
    <3>2. New \subseteq Clients
      BY DEF New
    <3> QED
      BY <2>1, <3>1, <3>2 DEF Connect
  <2>2. CASE ~Connect
    BY <2>2
  <2> QED
    BY <2>1, <2>2
<1>2. UNCHANGED <<dropped, due>>
  BY <1>1 DEF Connect, Auth, Authenticated, Disconnect, Write, WriteFails, Subscribe, Unsubscribe
<1> DEFINE Becomes(r) == /\ client' = [client EXCEPT ![c] = r]
                         /\ r.got \o r.send = client[c].got \o client[c].send
                         /\ \/ client[c].channels \subseteq r.channels /\ UNCHANGED pub
                            \/ \E ch \in Channels : /\ Unsubscribe(c, ch)
                                                    /\ r.channels = client[c].channels \ {ch}
<1>3. \E r \in Conn : Becomes(r)
  <2>1. CASE Connect /\ \E authed \in BOOLEAN : client' = [client EXCEPT ![c].state = "open", ![c].authed = authed]
    <3>1. PICK authed \in BOOLEAN : client' = [client EXCEPT ![c] = [client[c] EXCEPT !.state = "open", !.authed = authed]]
      BY <1>0, <2>1
    <3>2. [client[c] EXCEPT !.state = "open", !.authed = authed] \in Conn
      BY <1>0 DEF Conn
    <3> QED
      BY <1>0, <2>1, <3>1, <3>2 DEF Connect, Conn
  <2>2. CASE Auth(c) \/ Authenticated(c) \/ Disconnect(c) \/ WriteFails(c)
    <3> DEFINE Others == {[client[c] EXCEPT !.locked = TRUE],
                          [client[c] EXCEPT !.locked = FALSE, !.authed = TRUE],
                          [client[c] EXCEPT !.locked = FALSE, !.state = "leaving"],
                          [client[c] EXCEPT !.state = "leaving"]}
    <3>1. \E r \in Others : client' = [client EXCEPT ![c] = r]
      BY <1>0, <2>2 DEF Auth, Authenticated, Disconnect, WriteFails
    <3>2. \A r \in Others : /\ r \in Conn /\ r.got = client[c].got /\ r.send = client[c].send
                            /\ r.channels = client[c].channels
      BY <1>0 DEF Conn
    <3>3. UNCHANGED pub
      BY <2>2 DEF Auth, Authenticated, Disconnect, WriteFails
    <3> QED
      BY <3>1, <3>2, <3>3
  <2>3. CASE Write(c)
    <3> DEFINE g == Append(client[c].got, Head(client[c].send))
               t == Tail(client[c].send)
               r == [client[c] EXCEPT !.got = g, !.send = t]
    <3>1. g \in Seq(Frames) /\ t \in Seq(Frames) /\ g \o t = client[c].got \o client[c].send
      BY <1>0, <2>3, Written DEF Write
    <3>2. client' = [client EXCEPT ![c] = r]
      BY <1>0, <2>3 DEF Write
    <3> HIDE DEF g, t
    <3>3. r \in Conn /\ r.got = g /\ r.send = t /\ r.channels = client[c].channels
      BY <1>0, <3>1 DEF Conn
    <3> QED
      BY <2>3, <3>1, <3>2, <3>3 DEF Write
  <2>4. ASSUME NEW ch \in Channels, Subscribe(c, ch) \/ Unsubscribe(c, ch) PROVE \E r \in Conn : Becomes(r)
    <3>1. PICK chs \in {client[c].channels \cup {ch}, client[c].channels \ {ch}} :
            /\ client' = [client EXCEPT ![c] = [client[c] EXCEPT !.channels = chs]]
            /\ \/ chs = client[c].channels \cup {ch} /\ UNCHANGED pub
               \/ chs = client[c].channels \ {ch} /\ Unsubscribe(c, ch)
      BY <1>0, <2>4 DEF Subscribe, Unsubscribe
    <3>2. chs \in SUBSET Channels
      BY <1>0 DEF Conn
    <3>3. [client[c] EXCEPT !.channels = chs] \in Conn
      BY <1>0, <3>2 DEF Conn
    <3> QED
      BY <1>0, <3>1, <3>3 DEF Conn
  <2> QED
    BY <1>1, <2>1, <2>2, <2>3, <2>4
<1>7. PICK r \in Conn : Becomes(r)
  BY <1>3
<1> DEFINE Narrowed ==
             /\ pub' \in [Publishers -> Casting]
             /\ \A p \in Publishers :
                  /\ pub'[p].n = pub[p].n /\ pub'[p].left = pub[p].left /\ pub'[p].frame = pub[p].frame
                  /\ pub'[p].sub \subseteq pub[p].sub
                  /\ \A d \in pub'[p].sub :
                       pub[p].frame # <<>> /\ pub[p].frame.ch \in client[d].channels =>
                         pub[p].frame.ch \in client'[d].channels
<1>4. Narrowed
  <2>1. CASE client[c].channels \subseteq r.channels /\ UNCHANGED pub
    <3>1. \A p \in Publishers : pub[p].sub \subseteq Clients
      BY <1>0 DEF Casting
    <3> QED
      BY <1>0, <1>7, <2>1, <3>1
  <2>2. ASSUME NEW ch \in Channels, Unsubscribe(c, ch), r.channels = client[c].channels \ {ch}
        PROVE  Narrowed
    <3>1. \A p \in Publishers :
            pub'[p] = IF pub[p].frame # <<>> /\ pub[p].frame.ch \in {ch}
                      THEN [pub[p] EXCEPT !.sub = @ \ {c}] ELSE pub[p]
      BY <2>2 DEF Unsubscribe, NotDue
    <3>2. ASSUME NEW p \in Publishers
          PROVE  /\ pub'[p] \in Casting
                 /\ pub'[p].n = pub[p].n /\ pub'[p].left = pub[p].left /\ pub'[p].frame = pub[p].frame
                 /\ pub'[p].sub \subseteq pub[p].sub /\ pub[p].sub \subseteq Clients
                 /\ pub[p].frame # <<>> /\ pub[p].frame.ch = ch => c \notin pub'[p].sub
      <4>1. pub[p] \in Casting /\ pub[p].sub \subseteq Clients
        BY <1>0 DEF Casting
      <4>2. [pub[p] EXCEPT !.sub = @ \ {c}] \in Casting
        BY <4>1 DEF Casting
      <4> QED
        BY <3>1, <4>1, <4>2 DEF Casting
    <3>3. pub' \in [Publishers -> Casting]
      BY <2>2, <3>2 DEF Unsubscribe, NotDue
    <3>4. \A d \in Clients : client'[d].channels = IF d = c THEN client[c].channels \ {ch} ELSE client[d].channels
      BY <1>0, <1>7, <2>2
    <3> QED
      BY <3>2, <3>3, <3>4
  <2> QED
    BY <1>7, <2>1, <2>2
<1>5. \A d \in Clients : Stream(d)' = Stream(d)
  BY <1>0, <1>7 DEF Stream
<1>6. Typed'
  BY <1>0, <1>2, <1>7, <1>4 DEF HubInv, Typed
<1> QED
  BY <1>2, <1>4, <1>5, <1>6, StreamsStay

\* A client leaves while no frame is under way, and takes all with it.
LEMMA LeaveKeeps ==
  ASSUME HubInv, NEW c \in Clients, Leave(c)
  PROVE  HubInv'
<1> DEFINE r == [Unconnected EXCEPT !.state = "gone"]
<1>0. Typed /\ client \in [Clients -> Conn] /\ UNCHANGED <<pub, dropped>>
  BY DEF HubInv, Typed, Leave
<1>1. r \in Conn /\ r.got = <<>> /\ r.send = <<>>
  <2>1. Unconnected \in Conn /\ Unconnected.got = <<>> /\ Unconnected.send = <<>>
    BY DEF Unconnected, Conn
  <2> QED
    BY <2>1 DEF Conn
<1> HIDE DEF r
<1>2. /\ client'[c] = r /\ due'[c] = {}
      /\ \A d \in Clients \ {c} : client'[d] = client[d] /\ due'[d] = due[d]
  BY <1>0 DEF Leave, Typed, r
<1>3. Typed'
  BY <1>0, <1>1 DEF Leave, Typed, r
<1>4. \A p \in Publishers : pub[p].frame = <<>>
  BY DEF Leave, Reading
<1>5. ASSUME NEW d \in Clients PROVE Received(d)'
  <2>1. CASE d = c
    <3>1. Stream(d)' = <<>>
      BY <1>1, <1>2, <2>1, ConcatEmptySeq, EmptySeq DEF Stream
    <3> QED
      BY <1>2, <2>1, <3>1 DEF Received, Ordered, Unoffered
  <2>2. CASE d # c
    <3>1. Stream(d)' = Stream(d) /\ due'[d] = due[d] /\ Received(d)
      BY <1>2, <2>2 DEF Stream, HubInv
    <3> QED
      BY <1>0, <3>1 DEF Received, Ordered, Unoffered, Has
  <2> QED
    BY <2>1, <2>2
<1>6. ASSUME NEW p \in Publishers PROVE Underway(p)'
  <2>1. Underway(p)
    BY DEF HubInv
  <2> QED
    BY <1>0, <1>4, <2>1 DEF Underway
<1> QED
  BY <1>3, <1>5, <1>6 DEF HubInv

\* Of every publisher fewer frames than may be broadcast in all, while a
\* Broadcast can begin.
LEMMA RoomForOne ==
  ASSUME Typed, NEW p \in Publishers, Cardinality(Begun) < MaxFrames
  PROVE  pub[p].n + 1 \in 1 .. MaxFrames
<1>0. MaxFrames \in Nat /\ pub[p].n \in 0 .. MaxFrames
  BY WsAssumption DEF Typed, Casting
<1> SUFFICES ASSUME pub[p].n = MaxFrames PROVE FALSE
  BY <1>0
<1>1. IsFiniteSet(1 .. MaxFrames) /\ Cardinality(1 .. MaxFrames) = MaxFrames
  BY <1>0, FS_Interval
<1>2. IsFiniteSet(Publishers \X (1 .. MaxFrames))
  BY <1>1, WsAssumption, FS_Product
<1>3. IsFiniteSet(Begun)
  BY <1>2, FS_Subset DEF Begun
<1> DEFINE own == {p} \X (1 .. MaxFrames)
<1>4. Cardinality(own) = MaxFrames
  <2>1. IsFiniteSet({p}) /\ Cardinality({p}) = 1
    BY FS_Singleton
  <2>2. Cardinality(own) = 1 * MaxFrames
    BY <1>1, <2>1, FS_Product
  <2> QED
    BY <1>0, <2>2
<1>5. own \subseteq Begun
  <2>1. ASSUME NEW n \in 1 .. MaxFrames PROVE <<p, n>> \in Begun
    BY <1>0 DEF Begun
  <2> QED
    BY <2>1
<1>6. Cardinality(own) <= Cardinality(Begun)
  BY <1>3, <1>5, FS_Subset
<1>7. Cardinality(Begun) \in Nat
  BY <1>3, FS_CardinalityType
<1> QED
  BY <1>0, <1>4, <1>6, <1>7

LEMMA BeginKeeps ==
  ASSUME HubInv, NEW p \in Publishers, NEW ch \in Channels, Begin(p, ch)
  PROVE  HubInv'
<1> DEFINE f == Frame(p, pub[p].n + 1, ch)
           subs == {c \in Registered : ch \in client[c].channels}
           b == [n |-> pub[p].n + 1, left |-> Registered, frame |-> f, sub |-> subs]
<1>0. Typed /\ pub \in [Publishers -> Casting] /\ pub[p].n \in Nat /\ UNCHANGED <<client, dropped, due>>
  BY WsAssumption DEF HubInv, Typed, Casting, Begin
<1>a. pub[p].n + 1 \in 1 .. MaxFrames
  BY <1>0, RoomForOne DEF Begin
<1>1. pub' = [pub EXCEPT ![p] = b]
  BY <1>0 DEF Begin
<1>2. f \in Frames /\ f.by = p /\ f.n = pub[p].n + 1 /\ f.ch = ch
  BY <1>a DEF Frame, Frames
<1>3. f # <<>>
  <2>1. DOMAIN f = {"by", "n", "ch"} /\ DOMAIN <<>> = 1 .. 0
    BY DEF Frame
  <2> QED
    BY <2>1
<1>4. Registered \subseteq Clients /\ subs \subseteq Registered
  BY DEF Registered
<1> HIDE DEF f, subs
<1>5. b \in Casting
  BY <1>a, <1>2, <1>4 DEF Casting
<1>6. Typed'
  BY <1>0, <1>1, <1>5 DEF Typed
<1>7. ASSUME NEW c \in Clients PROVE Received(c)'
  <2>1. Stream(c)' = Stream(c) /\ Received(c)
    BY <1>0 DEF Stream, HubInv
  <2>2. Unoffered(c, Stream(c))'
    <3> SUFFICES ASSUME NEW i \in DOMAIN Stream(c), NEW q \in Publishers, Stream(c)[i].by = q
                 PROVE  /\ Stream(c)[i].n <= pub'[q].n
                        /\ c \in pub'[q].left => Stream(c)[i].n < pub'[q].n
      BY <2>1 DEF Unoffered
    <3>1. Stream(c)[i].n <= pub[q].n /\ (c \in pub[q].left => Stream(c)[i].n < pub[q].n)
      BY <2>1 DEF Received, Unoffered
    <3>2. Stream(c)[i].n \in Nat
      <4>1. Stream(c) \in Seq(Frames)
        BY <1>0, StreamTyped
      <4>2. Stream(c)[i] \in Frames
        BY <4>1, ElementOfSeq, LenProperties
      <4> QED
        BY <4>2 DEF Frames
    <3>3. CASE q = p
      BY <1>0, <1>1, <3>1, <3>2, <3>3
    <3>4. CASE q # p
      BY <1>0, <1>1, <3>1, <3>4
    <3> QED
      BY <3>3, <3>4
  <2> QED
    BY <1>0, <2>1, <2>2 DEF Received, Ordered, Has
<1>8. ASSUME NEW q \in Publishers PROVE Underway(q)'
  <2>1. CASE q = p
    <3>1. pub'[q] = b
      BY <1>0, <1>1, <2>1
    <3>2. \A c \in subs : ch \in client[c].channels
      BY DEF subs
    <3> QED
      BY <1>0, <1>2, <1>3, <1>4, <2>1, <3>1, <3>2 DEF Underway
  <2>2. CASE q # p
    <3>1. pub'[q] = pub[q] /\ Underway(q)
      BY <1>0, <1>1, <2>2 DEF HubInv
    <3>2. \A c \in Clients : Has(Stream(c), pub[q].frame)' <=> Has(Stream(c), pub[q].frame)
      BY <1>0, <3>1 DEF Has, Stream
    <3>3. pub[q].sub \subseteq Clients
      BY <1>0 DEF Casting
    <3> QED
      BY <1>0, <3>1, <3>2, <3>3 DEF Underway
  <2> QED
    BY <2>1, <2>2
<1> QED
  BY <1>6, <1>7, <1>8 DEF HubInv

LEMMA OfferKeeps ==
  ASSUME HubInv, NEW p \in Publishers, NEW c \in Clients, Offer(p, c)
  PROVE  HubInv'
<1>a. PICK f : f = pub[p].frame
  OBVIOUS
<1>b. PICK s : s = Stream(c)
  OBVIOUS
<1>c. PICK t : t = client[c].got \o Append(client[c].send, f)
  OBVIOUS
<1>d. PICK b : b = [pub[p] EXCEPT !.left = @ \ {c}]
  OBVIOUS
<1> DEFINE queued == f.ch \in client[c].channels /\ Len(client[c].send) < SendQueue
           refused == f.ch \in client[c].channels /\ ~(Len(client[c].send) < SendQueue)
<1>0. /\ Typed /\ pub \in [Publishers -> Casting] /\ client \in [Clients -> Conn]
      /\ client[c] \in Conn /\ client[c].got \in Seq(Frames) /\ client[c].send \in Seq(Frames)
      /\ s \in Seq(Frames) /\ UNCHANGED due
      /\ pub[p] \in Casting /\ pub[p].left \subseteq Clients /\ pub[p].n \in Nat
  BY <1>b, StreamTyped DEF HubInv, Typed, Casting, Offer
<1>1. /\ c \in pub[p].left
      /\ f # <<>> /\ f \in Frames /\ f.by = p /\ f.n = pub[p].n
  <2>1. Underway(p) /\ c \in pub[p].left
    BY DEF HubInv, Offer
  <2> QED
    BY <1>0, <1>a, <2>1 DEF Underway, Casting
<1>2. pub' = [pub EXCEPT ![p] = b] /\ b \in Casting
      /\ b.n = pub[p].n /\ b.left = pub[p].left \ {c} /\ b.sub = pub[p].sub /\ b.frame = f
  BY <1>0, <1>a, <1>d DEF Offer, Rest, Casting
<1>3. \/ ~queued /\ ~refused /\ UNCHANGED <<client, dropped>>
      \/ refused /\ UNCHANGED client /\ dropped' = dropped \cup {<<c, f>>}
      \/ queued /\ UNCHANGED dropped
         /\ client' = [client EXCEPT ![c] = [client[c] EXCEPT !.send = Append(@, f)]]
  BY <1>0, <1>a DEF Offer
<1>4. \A d \in Clients : d # c => Stream(d)' = Stream(d)
  BY <1>0, <1>3 DEF Stream
<1>5. /\ t \in Seq(Frames) /\ Append(client[c].send, f) \in Seq(Frames)
      /\ DOMAIN s = 1 .. Len(s) /\ DOMAIN t = 1 .. Len(s) + 1 /\ Len(s) \in Nat
      /\ \A i \in 1 .. Len(s) : t[i] = s[i]
      /\ t[Len(s) + 1] = f
  <2> DEFINE g == client[c].got
             q == client[c].send
  <2>1. s = g \o q /\ t = g \o Append(q, f)
    BY <1>b, <1>c DEF Stream
  <2>2. g \in Seq(Frames) /\ q \in Seq(Frames) /\ f \in Frames
    BY <1>0, <1>1
  <2> HIDE DEF g, q
  <2>3. /\ s \in Seq(Frames) /\ t \in Seq(Frames) /\ Append(q, f) \in Seq(Frames)
        /\ DOMAIN s = 1 .. Len(s) /\ DOMAIN t = 1 .. Len(s) + 1 /\ Len(s) \in Nat
        /\ \A i \in 1 .. Len(s) : t[i] = s[i]
        /\ t[Len(s) + 1] = f
    BY <2>1, <2>2, Queued
  <2> QED
    BY <2>3 DEF q
<1>6. Stream(c)' = IF queued THEN t ELSE s
  <2>1. CASE queued
    <3>1. client'[c] = [client[c] EXCEPT !.send = Append(@, f)]
      BY <1>0, <1>3, <2>1
    <3>2. client'[c].got = client[c].got /\ client'[c].send = Append(client[c].send, f)
      BY <1>0, <3>1 DEF Conn
    <3> QED
      BY <1>c, <2>1, <3>2 DEF Stream
  <2>2. CASE ~queued
    BY <1>3, <1>b, <2>2 DEF Stream
  <2> QED
    BY <2>1, <2>2
<1>7. \A d \in Clients : client'[d].channels = client[d].channels
  <2>1. [client[c] EXCEPT !.send = Append(@, f)].channels = client[c].channels
    BY <1>0 DEF Conn
  <2> QED
    BY <1>0, <1>3, <2>1
<1>8. Typed'
  <2>1. [client[c] EXCEPT !.send = Append(@, f)] \in Conn
    BY <1>0, <1>5 DEF Conn
  <2>2. client' \in [Clients -> Conn] /\ pub' \in [Publishers -> Casting]
    BY <1>0, <1>2, <1>3, <2>1
  <2>3. dropped' \in SUBSET (Clients \X Frames)
    <3>1. <<c, f>> \in Clients \X Frames /\ dropped \in SUBSET (Clients \X Frames)
      BY <1>0, <1>1 DEF Typed
    <3> QED
      BY <1>3, <3>1
  <2> QED
    BY <1>0, <2>2, <2>3 DEF Typed
<1>9. Received(c)
  BY DEF HubInv
<1>10. \A i \in DOMAIN s : s[i].by = p => s[i].n < f.n
  BY <1>1, <1>9, <1>b DEF Received, Unoffered
<1>11. Received(c)'
  <2>1. Ordered(s) /\ Unoffered(c, s) /\ \A g \in due[c] : <<c, g>> \in dropped \/ Has(s, g)
    BY <1>9, <1>b DEF Received
  <2>2. \A i \in DOMAIN s : s[i].n \in Nat
    <3>1. \A i \in DOMAIN s : s[i] \in Frames
      BY <1>0, <1>5, ElementOfSeq
    <3> QED
      BY <3>1 DEF Frames
  <2>3. \A q \in Publishers : pub'[q].n = pub[q].n /\ (c \in pub'[q].left => c \in pub[q].left /\ q # p)
    BY <1>0, <1>2
  <2>4. CASE queued
    <3>1. Ordered(t)
      BY <1>0, <1>1, <1>5, <1>10, <2>1, OrderKept
    <3>2. Unoffered(c, t)'
      <4> SUFFICES ASSUME NEW i \in 1 .. Len(s) + 1, NEW q \in Publishers, t[i].by = q
                   PROVE  /\ t[i].n <= pub'[q].n
                          /\ c \in pub'[q].left => t[i].n < pub'[q].n
        BY <1>5 DEF Unoffered
      <4>1. CASE i = Len(s) + 1
        BY <1>0, <1>1, <1>5, <2>3, <4>1
      <4>2. CASE i \in 1 .. Len(s)
        BY <1>5, <2>1, <2>3, <4>2 DEF Unoffered
      <4> QED
        BY <1>5, <4>1, <4>2
    <3>3. \A g : Has(s, g) => Has(t, g)
      BY <1>5 DEF Has
    <3> QED
      BY <1>0, <1>3, <1>6, <2>1, <2>4, <3>1, <3>2, <3>3 DEF Received
  <2>5. CASE ~queued
    <3>1. Unoffered(c, s)'
      BY <2>1, <2>3 DEF Unoffered
    <3> QED
      BY <1>0, <1>3, <1>6, <2>1, <2>5, <3>1 DEF Received
  <2> QED
    BY <2>4, <2>5
<1>12. ASSUME NEW d \in Clients, d # c PROVE Received(d)'
  <2>1. Stream(d)' = Stream(d) /\ Received(d)
    BY <1>4, <1>12 DEF HubInv
  <2>2. \A q \in Publishers : pub'[q].n = pub[q].n /\ (d \in pub'[q].left => d \in pub[q].left)
    BY <1>0, <1>2
  <2>3. Unoffered(d, Stream(d))'
    BY <2>1, <2>2 DEF Received, Unoffered
  <2> QED
    BY <1>0, <1>3, <2>1, <2>3 DEF Received, Ordered, Has
<1>13. \A d \in Clients : \A g : Has(Stream(d), g) => Has(Stream(d), g)'
  BY <1>4, <1>5, <1>6, <1>b DEF Has
<1>14. ASSUME NEW q \in Publishers PROVE Underway(q)'
  <2>1. Underway(q) /\ pub[q].sub \subseteq Clients
    BY <1>0 DEF HubInv, Casting
  <2>2. CASE q # p
    <3>1. pub'[q] = pub[q]
      BY <1>0, <1>2, <2>2
    <3> QED
      BY <1>3, <1>7, <1>13, <2>1, <3>1 DEF Underway
  <2>3. CASE q = p
    <3>1. pub'[q] = b /\ pub[p].frame = f
      BY <1>0, <1>2, <1>a, <2>3
    <3>2. c \in pub[p].sub => f.ch \in client[c].channels
      BY <1>a, <1>1, <2>1, <2>3, <3>1 DEF Underway
    <3>3. c \in pub[p].sub => <<c, f>> \in dropped' \/ Has(Stream(c), f)'
      <4>1. Has(t, f)
        BY <1>5 DEF Has
      <4> QED
        BY <1>3, <1>6, <3>2, <4>1 DEF Has
    <3>4. ASSUME NEW d \in pub[p].sub
          PROVE  IF d \in pub[p].left \ {c} THEN f.ch \in client'[d].channels
                 ELSE <<d, f>> \in dropped' \/ Has(Stream(d), f)'
      <4>1. IF d \in pub[p].left THEN f.ch \in client[d].channels
            ELSE <<d, f>> \in dropped \/ Has(Stream(d), f)
        BY <1>1, <2>1, <2>3, <3>1 DEF Underway
      <4> QED
        BY <1>3, <1>7, <1>13, <2>1, <2>3, <3>3, <4>1
    <3> QED
      BY <1>1, <1>2, <2>3, <3>1, <3>4 DEF Underway
  <2> QED
    BY <2>2, <2>3
<1> QED
  BY <1>8, <1>11, <1>12, <1>14 DEF HubInv

LEMMA EndKeeps ==
  ASSUME HubInv, NEW p \in Publishers, End(p)
  PROVE  HubInv'
<1>0. Typed /\ pub \in [Publishers -> Casting] /\ pub[p] \in Casting /\ UNCHANGED <<client, dropped>>
  BY DEF HubInv, Typed, End
<1>1. /\ pub' = [pub EXCEPT ![p] = Idle(pub[p].n)]
      /\ \A c \in Clients : due'[c] = IF c \in pub[p].sub THEN due[c] \cup {pub[p].frame} ELSE due[c]
      /\ DOMAIN due' = Clients /\ pub[p].frame # <<>> /\ pub[p].left = {}
  BY <1>0 DEF End
<1>2. Idle(pub[p].n) \in Casting /\ pub[p].frame \in Frames
  BY <1>0, <1>1 DEF Idle, Casting
<1>3. Typed'
  BY <1>0, <1>1, <1>2 DEF Typed
<1>4. \A q \in Publishers : pub'[q].n = pub[q].n /\ pub'[q].left = pub[q].left
  BY <1>0, <1>1 DEF Idle
<1>5. ASSUME NEW c \in Clients PROVE Received(c)'
  <2>1. Stream(c)' = Stream(c) /\ Received(c)
    BY <1>0 DEF Stream, HubInv
  <2>2. Unoffered(c, Stream(c))'
    BY <1>4, <2>1 DEF Received, Unoffered
  <2>3. c \in pub[p].sub => <<c, pub[p].frame>> \in dropped \/ Has(Stream(c), pub[p].frame)
    BY <1>1 DEF HubInv, Underway
  <2> QED
    BY <1>0, <1>1, <2>1, <2>2, <2>3 DEF Received, Ordered, Has
<1>6. ASSUME NEW q \in Publishers PROVE Underway(q)'
  <2>1. CASE q = p
    BY <1>0, <1>1, <2>1 DEF Underway, Idle
  <2>2. CASE q # p
    <3>1. pub'[q] = pub[q] /\ Underway(q) /\ pub[q].sub \subseteq Clients
      BY <1>0, <1>1, <2>2 DEF HubInv, Casting
    <3>2. \A c \in Clients : Has(Stream(c), pub[q].frame)' <=> Has(Stream(c), pub[q].frame)
      BY <1>0, <3>1 DEF Has, Stream
    <3> QED
      BY <1>0, <3>1, <3>2 DEF Underway
  <2> QED
    BY <2>1, <2>2
<1> QED
  BY <1>3, <1>5, <1>6 DEF HubInv

\* HubInv is inductive.
LEMMA HubStep == HubInv /\ [WsNext]_wsVars => HubInv'
<1> SUFFICES ASSUME HubInv, [WsNext]_wsVars PROVE HubInv'
  OBVIOUS
<1>1. CASE UNCHANGED wsVars
  <2>1. UNCHANGED <<client, pub, dropped, due>>
    BY <1>1 DEF wsVars
  <2>2. Typed' /\ \A c \in Clients : Stream(c)' = Stream(c)
    BY <2>1 DEF HubInv, Typed, Stream
  <2> QED
    BY <2>1, <2>2, StreamsStay
<1>2. CASE \E p \in Publishers :
             \/ \E ch \in Channels : Begin(p, ch)
             \/ \E c \in Clients : Offer(p, c)
             \/ End(p)
  BY <1>2, BeginKeeps, OfferKeeps, EndKeeps
<1>3. CASE \E c \in Clients : Leave(c)
  BY <1>3, LeaveKeeps
<1> QED
  BY <1>1, <1>2, <1>3, ConnectionKeeps DEF WsNext

\* No queue is ever longer than sendQueue.
Short == \A c \in Clients : Len(client[c].send) <= SendQueue

\* A frame is queued where there is room for one more, and written from the
\* front; nothing else touches a queue but the end of its connection.
LEMMA ShortStep == HubInv /\ Short /\ [WsNext]_wsVars => Short'
<1> SUFFICES ASSUME HubInv, Short, [WsNext]_wsVars, NEW c \in Clients
             PROVE  Len(client'[c].send) <= SendQueue
  BY DEF Short
<1>0. /\ Typed /\ client \in [Clients -> Conn]
      /\ \A d \in Clients : client[d] \in Conn /\ client[d].send \in Seq(Frames)
      /\ Len(client[c].send) <= SendQueue /\ Len(client[c].send) \in Nat /\ SendQueue \in Nat
  BY StreamTyped, LenProperties, WsAssumption DEF HubInv, Typed, Short
<1> DEFINE send == client[c].send
<1>1. \/ client'[c].send = send \/ client'[c].send = <<>>
      \/ send # <<>> /\ client'[c].send = Tail(send)
      \/ Len(send) < SendQueue /\ \E f \in Frames : client'[c].send = Append(send, f)
  <2>1. CASE UNCHANGED client
    BY <2>1
  <2> DEFINE Others(d) == {[client[d] EXCEPT !.locked = TRUE],
                           [client[d] EXCEPT !.locked = FALSE, !.authed = TRUE],
                           [client[d] EXCEPT !.locked = FALSE, !.state = "leaving"],
                           [client[d] EXCEPT !.state = "leaving"]}
  <2>0. ASSUME NEW d \in Clients, \E r : client' = [client EXCEPT ![d] = r] /\ r.send = client[d].send
        PROVE  client'[c].send = send
    BY <1>0, <2>0
  <2>2. CASE Connect
    <3>1. (CHOOSE d \in New : TRUE) \in New /\ New \subseteq Clients
      BY <2>2 DEF Connect, New
    <3>2. PICK d \in Clients : \E authed \in BOOLEAN :
            client' = [client EXCEPT ![d] = [client[d] EXCEPT !.state = "open", !.authed = authed]]
      BY <1>0, <2>2, <3>1 DEF Connect
    <3>3. \A authed \in BOOLEAN : [client[d] EXCEPT !.state = "open", !.authed = authed].send = client[d].send
      BY <1>0 DEF Conn
    <3> QED
      BY <2>0, <3>2, <3>3
  <2>3. ASSUME NEW d \in Clients, Auth(d) \/ Authenticated(d) \/ Disconnect(d) \/ WriteFails(d)
        PROVE  client'[c].send = send
    <3>1. \E r \in Others(d) : client' = [client EXCEPT ![d] = r]
      BY <1>0, <2>3 DEF Auth, Authenticated, Disconnect, WriteFails
    <3>2. \A r \in Others(d) : r.send = client[d].send
      BY <1>0 DEF Conn
    <3> QED
      BY <2>0, <3>1, <3>2
  <2>4. ASSUME NEW d \in Clients, NEW ch \in Channels, Subscribe(d, ch) \/ Unsubscribe(d, ch)
        PROVE  client'[c].send = send
    <3>1. \E chs : client' = [client EXCEPT ![d] = [client[d] EXCEPT !.channels = chs]]
      BY <1>0, <2>4 DEF Subscribe, Unsubscribe
    <3>2. \A chs : [client[d] EXCEPT !.channels = chs].send = client[d].send
      BY <1>0 DEF Conn
    <3> QED
      BY <2>0, <3>1, <3>2
  <2>5. ASSUME NEW d \in Clients, Leave(d)
        PROVE  client'[c].send \in {send, <<>>}
    BY <1>0, <2>5 DEF Leave, Unconnected
  <2>6. ASSUME NEW d \in Clients, Write(d)
        PROVE  client'[c].send = send \/ (send # <<>> /\ client'[c].send = Tail(send))
    <3> DEFINE g == Append(client[d].got, Head(client[d].send))
               t == Tail(client[d].send)
    <3>1. client' = [client EXCEPT ![d] = [client[d] EXCEPT !.got = g, !.send = t]] /\ client[d].send # <<>>
      BY <1>0, <2>6 DEF Write
    <3> HIDE DEF g
    <3>2. [client[d] EXCEPT !.got = g, !.send = t].send = t
      BY <1>0 DEF Conn
    <3> QED
      BY <1>0, <3>1, <3>2
  <2>7. ASSUME NEW p \in Publishers, NEW d \in Clients, Offer(p, d)
        PROVE  \/ client'[c].send = send
               \/ Len(send) < SendQueue /\ \E f \in Frames : client'[c].send = Append(send, f)
    <3>1. pub[p].frame \in Frames
      <4>1. Underway(p) /\ pub[p] \in Casting
        BY DEF HubInv, Typed
      <4> QED
        BY <2>7, <4>1 DEF Underway, Offer, Casting
    <3> DEFINE q == Append(client[d].send, pub[p].frame)
    <3>2. \/ UNCHANGED client
          \/ Len(client[d].send) < SendQueue /\ client' = [client EXCEPT ![d] = [client[d] EXCEPT !.send = q]]
      BY <1>0, <2>7 DEF Offer
    <3>3. [client[d] EXCEPT !.send = q].send = q
      BY <1>0 DEF Conn
    <3> QED
      BY <1>0, <3>1, <3>2, <3>3
  <2>8. ASSUME NEW p \in Publishers, NEW ch \in Channels, Begin(p, ch)
        PROVE  client'[c].send = send
    BY <2>8 DEF Begin
  <2>9. ASSUME NEW p \in Publishers, End(p)
        PROVE  client'[c].send = send
    BY <2>9 DEF End
  <2> QED
    BY <2>1, <2>2, <2>3, <2>4, <2>5, <2>6, <2>7, <2>8, <2>9 DEF WsNext, wsVars
<1>2. Len(<<>>) = 0
  BY EmptySeq
<1>3. send # <<>> => Len(Tail(send)) = Len(send) - 1
  BY <1>0, HeadTailProperties
<1>4. \A f \in Frames : Len(Append(send, f)) = Len(send) + 1
  BY <1>0, AppendProperties
<1>5. \/ Len(client'[c].send) \in {Len(send), 0, Len(send) - 1}
      \/ Len(send) < SendQueue /\ Len(client'[c].send) = Len(send) + 1
  BY <1>1, <1>2, <1>3, <1>4
<1>6. Len(send) \in Nat /\ SendQueue \in Nat /\ Len(send) <= SendQueue
  BY <1>0
<1>7. \A m, n, k : m \in Nat /\ k \in Nat /\ m <= k /\ (n \in {m, 0, m - 1} \/ (m < k /\ n = m + 1)) => n <= k
  OBVIOUS
<1> QED
  BY <1>5, <1>6, <1>7

\* Connections, frames and queues stay what the code declares: of frames no
\* more than were broadcast, of a queue no more than sendQueue.
THEOREM HubTypes == WsSpec => []WsTypeOK
<1>1. WsInit => Short
  BY WsAssumption, EmptySeq DEF WsInit, Unconnected, Short
<1>2. HubInv /\ Short => WsTypeOK
  BY DEF HubInv, Typed, Short, Conn, Casting, WsTypeOK
<1> QED
  BY HubInit, HubStep, ShortStep, <1>1, <1>2, PTL DEF WsSpec

\* Every client gets a publisher's frames in the order they were broadcast in
\* and none twice, and lacks of the frames it was subscribed to throughout
\* only those a full queue refused (Broadcast), whoever comes and goes.
THEOREM FramesArriveInOrder == WsSpec => []FramesInOrder
<1>1. HubInv => FramesInOrder
  BY DEF HubInv, Received, Ordered, Has, FramesInOrder
<1> QED
  BY HubInit, HubStep, <1>1, PTL DEF WsSpec
=============================================================================
