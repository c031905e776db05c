--------------------------- MODULE SessionsProofs ---------------------------
(***************************************************************************)
(* Proofs about Sessions, for any users, requests, addresses and           *)
(* lifetimes: the ban tables are used by BanLifecycle's rules, the account *)
(* a first Google login makes is found by the read that follows, and what  *)
(* a login's tokens say about its user.  The invariant follows a login     *)
(* through its reads: each stage it has reached is backed by something     *)
(* that was seen of the user on the way.                                   *)
(***************************************************************************)
EXTENDS SessionsHistory, TLAPS

\* The statements of a login's ban check are steps of BanLifecycle.
LEMMA BanCheckIsBanStep ==
    ASSUME NEW r \in Requests, task[r].user \in Users, BanCheck(r)
    PROVE  Ban!Next
BY DEF BanCheck, Ban!Next, Ban!Advance

\* Whoever a task is about is a user, once his row was found; a first Google
\* login has only an address.
TasksFit ==
    /\ task \in [Requests -> Tasks \cup {None}]
    /\ \A r \in Requests : task[r] # None =>
          /\ task[r].user \in Users <=> task[r].at \notin {"create", "reread"}
          /\ task[r].at \in {"create", "reread"} => task[r].email \in Emails
          /\ task[r].at = "update" => task[r].change \in Changes

\* Every step of Sessions is a step of BanLifecycle or leaves its tables alone.
LEMMA BanStep ==
    ASSUME TasksFit, [Next]_vars
    PROVE  [Ban!Next]_banVars
<1> USE DEF Ban!Next, Ban!Advance
<1>1. ASSUME NEW r \in Requests, Advance(r) PROVE [Ban!Next]_banVars
  <2>1. CASE LoginBan(r) \/ GoogleBan(r)
    <3>1. BanCheck(r) /\ task[r].user \in Users
      BY <2>1 DEF LoginBan, GoogleBan, At, TasksFit
    <3>2. QED BY <3>1, BanCheckIsBanStep
  <2>2. CASE AdminDelete(r)
    <3>1. task[r].user \in Users /\ (Ban!SoftDelete(task[r].user) \/ UNCHANGED banVars)
      BY <2>2 DEF AdminDelete, At, TasksFit
    <3>2. QED BY <3>1
  <2>3. CASE UNCHANGED banVars
    BY <2>3
  <2>4. QED BY <1>1, <2>1, <2>2, <2>3
        DEF Advance, LoginPassword, LoginFactor, LoginCode, GoogleCreate, GoogleReread, AdminUpdate
<1>2. ASSUME NEW r \in Requests, BanBegin(r) \/ BanGoesOn(r) \/ TaskFails(r)
      PROVE  [Ban!Next]_banVars
  BY <1>2 DEF BanBegin, BanGoesOn, TaskFails
<1>3. CASE Crash \/ Tick
  BY <1>3 DEF Crash, Tick
<1>4. CASE UNCHANGED banVars
  BY <1>4
<1>5. QED
  BY <1>1, <1>2, <1>3, <1>4
  DEF Next, vars, LoginRow, GoogleRow, AdminAsk, GoogleNobody, RegisterUser, LoginAdmin,
      CreateUserAdmin, TokenRefresh, SetVerified, SetFactor

-----------------------------------------------------------------------------
(* The account a first Google login makes.  It has no administrator's call  *)
(* about it: a call that began found an ADMIN row, and this one is a USER's. *)

AccountsFit == accounts \in [Users -> Accounts \cup {None}]

RowsFit ==
    /\ users = [u \in Users |-> [live     |-> users[u].live,
                                 isBanned |-> users[u].isBanned,
                                 banId    |-> users[u].banId]]
    /\ \A u \in Users : users[u].live \in BOOLEAN

Undrawn == \A u \in Users : ~ Exists(u) => users[u].live

TargetsExist == \A s \in Requests, u \in Users : Targets(s, u) => Exists(u)

Kept(u, e) == /\ Found(u, e) /\ accounts[u].authType = "google" /\ accounts[u].role = "USER"
              /\ \A s \in Requests : ~ Targets(s, u)

NewAccountKept == \A r \in Requests : At(r, {"reread"}) => \E u \in Users : Kept(u, task[r].email)

IInv == TasksFit /\ AccountsFit /\ RowsFit /\ Undrawn /\ TargetsExist /\ NewAccountKept

SameLive == RowsFit' /\ \A u \in Users : users'[u].live = users[u].live

\* Nobody begins or reaches a stage that touches accounts.
NoNewWork == TasksFit' /\ \A s \in Requests :
                At(s, {"update", "delete", "reread"})' => At(s, {"update", "delete", "reread"}) /\ task'[s] = task[s]

\* No account is taken away from its address, its kind of login or its role.
SameStanding == AccountsFit' /\ \A u \in Users : Exists(u) =>
    /\ Exists(u)'
    /\ accounts'[u].email = accounts[u].email
    /\ accounts'[u].authType = accounts[u].authType
    /\ accounts'[u].role = accounts[u].role

LEMMA Quiet ==
    ASSUME IInv, SameLive, NoNewWork, SameStanding
    PROVE  IInv'
<1> USE DEF IInv
<1>1. Undrawn'
  BY DEF Undrawn, SameLive, SameStanding, Exists
<1>2. \A s \in Requests, u \in Users : Targets(s, u)' => Targets(s, u)
  BY DEF Targets, NoNewWork, At
<1>3. TargetsExist'
  BY <1>2 DEF TargetsExist, SameStanding
<1>4. NewAccountKept'
  <2> SUFFICES ASSUME NEW r \in Requests, At(r, {"reread"})'
               PROVE  (\E u \in Users : Kept(u, task[r].email))'
    BY DEF NewAccountKept
  <2>1. At(r, {"reread"}) /\ task'[r] = task[r]
    BY DEF NoNewWork, At
  <2>2. PICK u \in Users : Kept(u, task[r].email)
    BY <2>1 DEF NewAccountKept
  <2>3. Kept(u, task[r].email)'
    BY <1>2, <2>2, <2>1 DEF Kept, Found, Live, SameLive, SameStanding
  <2> QED BY <2>1, <2>3
<1> QED BY <1>1, <1>3, <1>4 DEF SameLive, NoNewWork, SameStanding

\* Only a deletion changes whether a row is live.
LEMMA UpdateUserStays ==
    ASSUME RowsFit, NEW u, NEW b, NEW i, Ban!UpdateUser(u, b, i)
    PROVE  SameLive
BY DEF RowsFit, Ban!UpdateUser, SameLive

LEMMA RowsStay ==
    ASSUME RowsFit,
           \/ UNCHANGED users
           \/ \E r \in Requests, u \in Users : (\E h \in Hours : Ban!BanRow(r, u, h)) \/ Ban!Unban(r, u)
           \/ \E r \in Requests, u \in Users : Ban!CheckRow(r, u)
           \/ \E r \in Requests : Ban!Advance(r) \/ Ban!StatementFails(r)
    PROVE  SameLive
<1>1. CASE UNCHANGED users
  BY <1>1 DEF RowsFit, SameLive
<1>2. CASE \E r \in Requests, u \in Users : (\E h \in Hours : Ban!BanRow(r, u, h)) \/ Ban!Unban(r, u)
  BY <1>2, UpdateUserStays DEF Ban!BanRow, Ban!Unban
<1>3. CASE \E r \in Requests : Ban!CheckClear(r)
  BY <1>3, UpdateUserStays DEF Ban!CheckClear
<1> QED BY <1>1, <1>2, <1>3
        DEF Ban!CheckRow, Ban!Advance, Ban!BanRecord, Ban!CheckRecord, Ban!StatementFails

LEMMA BanCheckStays ==
    ASSUME RowsFit, NEW r \in Requests, task[r].user \in Users, BanCheck(r)
    PROVE  SameLive
BY RowsStay DEF BanCheck, Ban!Advance

\* A login goes from stage to stage without touching accounts.
LEMMA GoOnQuiet ==
    ASSUME IInv, NEW r \in Requests, At(r, {"ban", "password", "factor", "code", "googleBan"}),
           NEW at \in {"password", "factor", "code"}, GoOn(r, at)
    PROVE  NoNewWork
BY DEF IInv, TasksFit, Tasks, Stages, At, GoOn, NoNewWork

LEMMA EndQuiet ==
    ASSUME IInv, NEW r \in Requests, End(r)
    PROVE  NoNewWork
BY DEF IInv, TasksFit, At, End, NoNewWork

LEMMA IdleQuiet ==
    ASSUME IInv, UNCHANGED task
    PROVE  NoNewWork
BY DEF IInv, TasksFit, At, NoNewWork

LEMMA BeginQuiet ==
    ASSUME IInv, NEW r \in Requests, NEW at \in {"ban", "googleBan", "create"},
           NEW u \in Users \cup {None}, u \in Users <=> at # "create",
           NEW e \in Emails, NEW b \in BOOLEAN, Begin(r, at, u, e, b, None)
    PROVE  NoNewWork
BY DEF IInv, TasksFit, Tasks, Stages, At, Begin, NoNewWork

LEMMA UnchangedStanding == ASSUME IInv, UNCHANGED accounts PROVE SameStanding
BY DEF IInv, AccountsFit, SameStanding, Exists

LEMMA LoginQuiet ==
    ASSUME IInv, NEW r \in Requests,
           \/ LoginBan(r) \/ LoginPassword(r) \/ LoginFactor(r) \/ LoginCode(r) \/ GoogleBan(r)
           \/ GoogleReread(r) \/ TaskFails(r)
    PROVE  IInv'
<1>1. SameStanding
  BY UnchangedStanding DEF LoginBan, LoginPassword, LoginFactor, LoginCode, GoogleBan,
     GoogleReread, TaskFails
<1>2. NoNewWork
  BY GoOnQuiet, EndQuiet, IdleQuiet
  DEF LoginBan, LoginPassword, LoginFactor, LoginCode, GoogleBan, GoogleReread, TaskFails, At
<1>3. SameLive
  <2>1. CASE LoginBan(r) \/ GoogleBan(r)
    <3>1. task[r].user \in Users /\ BanCheck(r)
      BY <2>1 DEF IInv, TasksFit, LoginBan, GoogleBan, At
    <3> QED BY <3>1, BanCheckStays DEF IInv
  <2>2. CASE LoginPassword(r) \/ LoginFactor(r) \/ LoginCode(r) \/ GoogleReread(r)
    BY <2>2, RowsStay DEF IInv, banVars, LoginPassword, LoginFactor, LoginCode, GoogleReread
  <2>3. CASE TaskFails(r)
    BY <2>3, RowsStay DEF IInv, banVars, TaskFails
  <2> QED BY <2>1, <2>2, <2>3
<1> QED BY <1>1, <1>2, <1>3, Quiet

LEMMA BeginLoginQuiet ==
    ASSUME IInv, NEW r \in Requests, NEW e \in Emails,
           GoogleNobody(r, e) \/ \E u \in Users : LoginRow(r, u, e) \/ GoogleRow(r, u, e)
    PROVE  IInv'
<1>1. SameStanding /\ SameLive
  BY UnchangedStanding, RowsStay DEF IInv, banVars, GoogleNobody, LoginRow, GoogleRow
<1>2. CASE GoogleNobody(r, e)
  <2>1. None \notin Users
    BY TokenAssumption
  <2>2. NoNewWork
    BY <1>2, <2>1, BeginQuiet DEF GoogleNobody
  <2> QED BY <1>1, <2>2, Quiet
<1>3. ASSUME NEW u \in Users, LoginRow(r, u, e) PROVE IInv'
  <2>1. accounts[u].verified \in BOOLEAN
    BY <1>3 DEF IInv, AccountsFit, Accounts, LoginRow, Found, Live, Exists
  <2>2. NoNewWork
    BY <1>3, <2>1, BeginQuiet DEF LoginRow
  <2> QED BY <1>1, <2>2, Quiet
<1>4. ASSUME NEW u \in Users, GoogleRow(r, u, e) PROVE IInv'
  <2>1. NoNewWork
    BY <1>4, BeginQuiet DEF GoogleRow
  <2> QED BY <1>1, <2>1, Quiet
<1> QED BY <1>2, <1>3, <1>4

LEMMA OneStepQuiet ==
    ASSUME IInv,
           \/ \E r \in Requests : BanBegin(r) \/ BanGoesOn(r)
           \/ \E u \in Users, e \in Emails : LoginAdmin(u, e)
           \/ \E u \in Users, role \in Roles : TokenRefresh(u, role)
           \/ Crash \/ Tick \/ UNCHANGED vars
    PROVE  IInv'
<1>1. SameStanding
  BY UnchangedStanding DEF BanBegin, BanGoesOn, LoginAdmin, TokenRefresh, Crash, Tick, vars
<1>2. NoNewWork
  <2>1. CASE Crash
    BY <2>1 DEF Crash, NoNewWork, TasksFit, At
  <2> QED BY <2>1, IdleQuiet DEF BanBegin, BanGoesOn, LoginAdmin, TokenRefresh, InOneStep, Tick, vars
<1>3. SameLive
  <2>1. CASE \E r \in Requests : BanBegin(r) \/ BanGoesOn(r)
    BY <2>1, RowsStay DEF IInv, BanBegin, BanGoesOn, Ban!Advance
  <2> QED BY <2>1, RowsStay
          DEF IInv, banVars, vars, LoginAdmin, TokenRefresh, Crash, Tick, Ban!Crash, Ban!Tick
<1> QED BY <1>1, <1>2, <1>3, Quiet

\* Flags that only logins look at.
LEMMA FlagStands ==
    ASSUME IInv, NEW u \in Users, SetVerified(u) \/ SetFactor(u)
    PROVE  SameStanding
<1>1. accounts[u] \in Accounts
  BY DEF IInv, AccountsFit, SetVerified, SetFactor, Live, Exists
<1>2. PICK a \in Accounts : /\ accounts' = [accounts EXCEPT ![u] = a]
                            /\ a.email = accounts[u].email
                            /\ a.authType = accounts[u].authType
                            /\ a.role = accounts[u].role
  <2>1. CASE SetVerified(u)
    <3>1. [accounts[u] EXCEPT !.verified = ~ @] \in Accounts
      BY <1>1 DEF Accounts
    <3> QED BY <2>1, <3>1, <1>1 DEF SetVerified, Accounts
  <2>2. CASE SetFactor(u)
    <3>1. [accounts[u] EXCEPT !.factor = ~ @] \in Accounts
      BY <1>1 DEF Accounts
    <3> QED BY <2>2, <3>1, <1>1 DEF SetFactor, Accounts
  <2> QED BY <2>1, <2>2
<1> QED BY <1>2, TokenAssumption DEF IInv, AccountsFit, SameStanding, Exists

LEMMA FlagQuiet ==
    ASSUME IInv, NEW u \in Users, SetVerified(u) \/ SetFactor(u)
    PROVE  IInv'
<1>1. NoNewWork /\ SameLive
  BY IdleQuiet, RowsStay DEF IInv, banVars, SetVerified, SetFactor, InOneStep
<1> QED BY <1>1, FlagStands, Quiet

LEMMA InsertStands ==
    ASSUME IInv, NEW u \in Users, NEW e \in Emails, NEW authType \in AuthTypes, NEW role \in Roles,
           Insert(u, e, authType, role)
    PROVE  /\ SameStanding
           /\ accounts'[u] = [email |-> e, authType |-> authType, role |-> role,
                              verified |-> FALSE, factor |-> FALSE]
<1>1. [email |-> e, authType |-> authType, role |-> role, verified |-> FALSE, factor |-> FALSE]
        \in Accounts
  BY DEF Accounts
<1> QED BY <1>1, TokenAssumption DEF IInv, AccountsFit, SameStanding, Exists, Insert

LEMMA InsertQuiet ==
    ASSUME IInv, NEW u \in Users, NEW e \in Emails,
           \/ RegisterUser(u, e)
           \/ \E authType \in AuthTypes, role \in Roles : CreateUserAdmin(u, e, authType, role)
    PROVE  IInv'
<1>1. SameStanding
  BY InsertStands DEF RegisterUser, CreateUserAdmin, Roles, AuthTypes
<1>2. NoNewWork /\ SameLive
  BY IdleQuiet, RowsStay DEF IInv, banVars, RegisterUser, CreateUserAdmin, InOneStep
<1> QED BY <1>1, <1>2, Quiet

LEMMA GoogleCreateKeeps ==
    ASSUME IInv, NEW r \in Requests, GoogleCreate(r)
    PROVE  IInv'
<1> USE DEF IInv
<1>1. SameLive
  BY RowsStay DEF GoogleCreate, banVars
<1>2. CASE EmailTaken(task[r].email) /\ End(r) /\ UNCHANGED accounts
  BY <1>1, <1>2, EndQuiet, UnchangedStanding, Quiet
<1>3. ASSUME NEW u \in Users, Insert(u, task[r].email, "google", "USER"), GoOn(r, "reread")
      PROVE  IInv'
  <2> DEFINE e == task[r].email
  <2>1. e \in Emails /\ task[r] \in Tasks /\ task[r].at = "create" /\ task[r].user \notin Users
    BY TokenAssumption DEF GoogleCreate, TasksFit, At
  <2>2. /\ SameStanding
        /\ accounts'[u] = [email |-> e, authType |-> "google", role |-> "USER",
                           verified |-> FALSE, factor |-> FALSE]
    BY <1>3, <2>1, InsertStands DEF Roles, AuthTypes
  <2>3. task'[r] = [task[r] EXCEPT !.at = "reread"] /\ \A s \in Requests : s # r => task'[s] = task[s]
    BY <1>3 DEF GoOn, TasksFit
  <2>4. task'[r] \in Tasks /\ task'[r].at = "reread" /\ task'[r].email = e /\ task'[r].user \notin Users
    BY <2>1, <2>3 DEF Tasks, Stages
  <2>5. TasksFit'
    BY <1>3, <2>1, <2>3, <2>4 DEF TasksFit, GoOn
  <2>6. \A s \in Requests, v \in Users : Targets(s, v)' => Targets(s, v)
    BY <2>3, <2>4 DEF Targets, At
  <2>7. accounts'[u] # None /\ ~ Exists(u)
    <3>1. accounts'[u] \in Accounts
      BY <2>1, <2>2 DEF Accounts, Roles, AuthTypes
    <3> QED BY <1>3, <3>1, TokenAssumption DEF Insert
  <2>8. Kept(u, e)'
    BY <2>2, <2>4, <2>6, <2>7, <1>1 DEF Kept, Found, Live, Exists, TargetsExist, Undrawn, SameLive
  <2>9. NewAccountKept'
    <3> SUFFICES ASSUME NEW s \in Requests, At(s, {"reread"})'
                 PROVE  (\E v \in Users : Kept(v, task[s].email))'
      BY DEF NewAccountKept
    <3>1. CASE s = r
      BY <3>1, <2>8, <2>4 DEF Kept, Found
    <3>2. CASE s # r
      <4>1. At(s, {"reread"}) /\ task'[s] = task[s]
        BY <3>2, <2>3 DEF At
      <4>2. PICK v \in Users : Kept(v, task[s].email)
        BY <4>1 DEF NewAccountKept
      <4>3. Kept(v, task[s].email)'
        BY <4>1, <4>2, <2>2, <2>6, <1>1 DEF Kept, Found, Live, SameLive, SameStanding
      <4> QED BY <4>3
    <3> QED BY <3>1, <3>2
  <2>10. Undrawn' /\ TargetsExist'
    BY <1>1, <2>2, <2>6 DEF Undrawn, TargetsExist, SameLive, SameStanding, Exists
  <2> QED BY <1>1, <2>2, <2>5, <2>9, <2>10 DEF SameLive, SameStanding
<1> QED BY <1>2, <1>3 DEF GoogleCreate

\* An administrator's call begins on an ADMIN row, which no first login made.
LEMMA AdminAskKeeps ==
    ASSUME IInv, NEW r \in Requests, NEW u \in Users, AdminAsk(r, u)
    PROVE  IInv'
<1> USE DEF IInv
<1>1. SameLive /\ SameStanding
  BY RowsStay, UnchangedStanding DEF AdminAsk, banVars
<1>2. PICK at \in {"update", "delete"}, c \in Changes \cup {None} :
          Begin(r, at, u, None, FALSE, c) /\ (at = "update" => c \in Changes)
  BY DEF AdminAsk
<1>3. /\ task'[r] = [at |-> at, user |-> u, email |-> None, verified |-> FALSE, change |-> c]
      /\ \A s \in Requests : s # r => task'[s] = task[s]
  BY <1>2 DEF Begin, TasksFit
<1>4. task'[r] \in Tasks
  BY <1>3 DEF Tasks, Stages
<1>5. TasksFit'
  BY <1>2, <1>3, <1>4 DEF TasksFit, Begin
<1>6. \A s \in Requests, v \in Users : Targets(s, v)' => Targets(s, v) \/ v = u
  BY <1>3 DEF Targets, At
<1>7. Exists(u) /\ accounts[u].role = "ADMIN" /\ UNCHANGED accounts
  BY DEF AdminAsk, IsAdmin, Live
<1>8. Undrawn' /\ TargetsExist'
  BY <1>1, <1>6, <1>7 DEF Undrawn, TargetsExist, SameLive, SameStanding, Exists
<1>9. NewAccountKept'
  <2> SUFFICES ASSUME NEW s \in Requests, At(s, {"reread"})'
               PROVE  (\E v \in Users : Kept(v, task[s].email))'
    BY DEF NewAccountKept
  <2>1. At(s, {"reread"}) /\ task'[s] = task[s]
    BY <1>3, TokenAssumption DEF At
  <2>2. PICK v \in Users : Kept(v, task[s].email)
    BY <2>1 DEF NewAccountKept
  <2>3. v # u
    BY <2>2, <1>7 DEF Kept
  <2>4. Kept(v, task[s].email)'
    BY <1>1, <1>6, <2>1, <2>2, <2>3 DEF Kept, Found, Live, SameLive, SameStanding
  <2> QED BY <2>4
<1> QED BY <1>1, <1>5, <1>8, <1>9 DEF SameLive, SameStanding

\* His calls change nothing of an account without a call about it.
LEMMA AdminWriteKeeps ==
    ASSUME IInv, NEW r \in Requests, NEW u \in Users, Targets(r, u), NoNewWork,
           RowsFit', AccountsFit', \A v \in Users : Exists(v) => Exists(v)',
           \A v \in Users : ~ Exists(v) => ~ Exists(v)',
           \A v \in Users \ {u} : accounts'[v] = accounts[v] /\ users'[v].live = users[v].live
    PROVE  IInv'
<1> USE DEF IInv
<1>1. Undrawn'
  BY DEF Undrawn, TargetsExist
<1>2. \A s \in Requests, v \in Users : Targets(s, v)' => Targets(s, v)
  BY DEF Targets, NoNewWork, At
<1>3. TargetsExist'
  BY <1>2 DEF TargetsExist
<1>4. NewAccountKept'
  <2> SUFFICES ASSUME NEW s \in Requests, At(s, {"reread"})'
               PROVE  (\E v \in Users : Kept(v, task[s].email))'
    BY DEF NewAccountKept
  <2>1. At(s, {"reread"}) /\ task'[s] = task[s]
    BY DEF NoNewWork, At
  <2>2. PICK v \in Users : Kept(v, task[s].email)
    BY <2>1 DEF NewAccountKept
  <2>3. v # u
    BY <2>2 DEF Kept
  <2>4. Kept(v, task[s].email)'
    BY <1>2, <2>1, <2>2, <2>3 DEF Kept, Found, Live
  <2> QED BY <2>4
<1> QED BY <1>1, <1>3, <1>4 DEF NoNewWork

LEMMA AdminUpdateKeeps ==
    ASSUME IInv, NEW r \in Requests, AdminUpdate(r)
    PROVE  IInv'
<1> USE DEF IInv
<1> DEFINE u == task[r].user
           c == task[r].change
           a == [accounts[u] EXCEPT !.email = IF c.email = None THEN @ ELSE c.email,
                                    !.role  = IF c.role = None THEN @ ELSE c.role]
<1>1. At(r, {"update"}) /\ u \in Users /\ Targets(r, u) /\ task[r] \in Tasks
  BY DEF AdminUpdate, TasksFit, At, Targets
<1>2. NoNewWork /\ SameLive
  BY EndQuiet, RowsStay DEF AdminUpdate, banVars
<1>3. CASE UNCHANGED accounts
  BY <1>2, <1>3, UnchangedStanding, Quiet
<1>4. CASE Live(u) /\ accounts' = [accounts EXCEPT ![u] = a]
  <2>1. accounts[u] \in Accounts
    BY <1>1, <1>4 DEF Live, Exists, AccountsFit
  <2>2. a \in Accounts
    <3>1. c \in Changes
      BY <1>1 DEF TasksFit, At
    <3> QED BY <2>1, <3>1 DEF Accounts, Changes
  <2>3. accounts' \in [Users -> Accounts \cup {None}] /\ accounts'[u] = a
        /\ \A v \in Users \ {u} : accounts'[v] = accounts[v]
    BY <1>1, <1>4, <2>2 DEF AccountsFit
  <2>4. a # None
    BY <2>2, TokenAssumption
  <2>5. /\ RowsFit' /\ AccountsFit'
        /\ \A v \in Users : Exists(v)' <=> Exists(v)
        /\ \A v \in Users \ {u} : accounts'[v] = accounts[v] /\ users'[v].live = users[v].live
    BY <1>1, <1>2, <1>4, <2>3, <2>4 DEF AccountsFit, SameLive, Live, Exists
  <2> QED BY <1>1, <1>2, <2>5, AdminWriteKeeps
<1>5. UNCHANGED accounts \/ (Live(u) /\ accounts' = [accounts EXCEPT ![u] = a])
  BY DEF AdminUpdate
<1> QED BY <1>3, <1>4, <1>5

LEMMA NotLive ==
    ASSUME NEW b, NEW id, NEW w \in [live : BOOLEAN, isBanned : {b}, banId : {id}]
    PROVE  [w EXCEPT !.live = FALSE] \in [live : BOOLEAN, isBanned : {b}, banId : {id}]
OBVIOUS

LEMMA RowForm ==
    ASSUME NEW b, NEW id, NEW w \in [live : BOOLEAN, isBanned : {b}, banId : {id}]
    PROVE  w = [live |-> w.live, isBanned |-> b, banId |-> id]
OBVIOUS

LEMMA AdminDeleteKeeps ==
    ASSUME IInv, NEW r \in Requests, AdminDelete(r)
    PROVE  IInv'
<1> USE DEF IInv
<1> DEFINE u == task[r].user
<1>1. u \in Users /\ Targets(r, u)
  BY DEF AdminDelete, TasksFit, At, Targets
<1>2. NoNewWork /\ UNCHANGED accounts
  BY EndQuiet DEF AdminDelete
<1>3. RowsFit' /\ \A v \in Users \ {u} : users'[v].live = users[v].live
  <2>1. CASE UNCHANGED banVars
    BY <2>1, RowsStay DEF banVars, SameLive
  <2>2. CASE Ban!SoftDelete(u)
    <3> DEFINE w == [users[u] EXCEPT !.live = FALSE]
    <3>1. users[u] \in [live : BOOLEAN, isBanned : {users[u].isBanned}, banId : {users[u].banId}]
      BY <1>1 DEF RowsFit
    <3>2. w \in [live : BOOLEAN, isBanned : {users[u].isBanned}, banId : {users[u].banId}]
      BY <3>1, NotLive
    <3>3. users' = [users EXCEPT ![u] = w]
      BY <2>2 DEF Ban!SoftDelete
    <3> HIDE DEF w
    <3>4. w = [live |-> w.live, isBanned |-> users[u].isBanned, banId |-> users[u].banId]
          /\ w.live \in BOOLEAN
      BY <3>2, RowForm
    <3> QED BY <1>1, <3>3, <3>4 DEF RowsFit
  <2> QED BY <2>1, <2>2 DEF AdminDelete
<1>4. AccountsFit' /\ \A v \in Users : (Exists(v)' <=> Exists(v)) /\ accounts'[v] = accounts[v]
  BY <1>2 DEF AccountsFit, Exists
<1> QED BY <1>1, <1>2, <1>3, <1>4, AdminWriteKeeps

LEMMA IInvInit == Init => IInv
<1> SUFFICES ASSUME Init PROVE IInv
  OBVIOUS
<1>1. TasksFit /\ TargetsExist /\ NewAccountKept
  BY DEF Init, TasksFit, TargetsExist, Targets, NewAccountKept, At
<1>2. RowsFit /\ Undrawn
  BY DEF Init, Ban!Init, RowsFit, Undrawn
<1> QED BY <1>1, <1>2 DEF Init, IInv, AccountsFit

LEMMA IInvStep == IInv /\ [Next]_vars => IInv'
<1> SUFFICES ASSUME IInv, [Next]_vars PROVE IInv'
  OBVIOUS
<1>1. ASSUME NEW r \in Requests, Advance(r) PROVE IInv'
  BY <1>1, LoginQuiet, GoogleCreateKeeps, AdminUpdateKeeps, AdminDeleteKeeps DEF Advance
<1>2. ASSUME NEW r \in Requests, NEW e \in Emails,
             GoogleNobody(r, e) \/ \E u \in Users : LoginRow(r, u, e) \/ GoogleRow(r, u, e)
      PROVE  IInv'
  BY <1>2, BeginLoginQuiet
<1>3. ASSUME NEW r \in Requests, NEW u \in Users, AdminAsk(r, u) PROVE IInv'
  BY <1>3, AdminAskKeeps
<1>4. ASSUME NEW r \in Requests, TaskFails(r) PROVE IInv'
  BY <1>4, LoginQuiet
<1>5. ASSUME NEW u \in Users, NEW e \in Emails,
             \/ RegisterUser(u, e)
             \/ \E authType \in AuthTypes, role \in Roles : CreateUserAdmin(u, e, authType, role)
      PROVE  IInv'
  BY <1>5, InsertQuiet
<1>6. ASSUME NEW u \in Users, SetVerified(u) \/ SetFactor(u) PROVE IInv'
  BY <1>6, FlagQuiet
<1> QED BY <1>1, <1>2, <1>3, <1>4, <1>5, <1>6, OneStepQuiet DEF Next

LEMMA Invariance == Spec => []IInv
BY IInvInit, IInvStep, PTL DEF Spec

\* Every login, administrator's call, crash and failure uses the tables users
\* and ban_histories by BanLifecycle's rules, of whose actions it is made: what
\* BanLifecycleProofs shows of them holds here.
LEMMA BanRulesAreKept == Spec => Ban!Spec
<1>1. Init => Ban!Init
  BY DEF Init
<1>2. IInv /\ [Next]_vars => [Ban!Next]_banVars
  BY BanStep DEF IInv
<1> QED BY <1>1, <1>2, Invariance, PTL DEF Spec, Ban!Spec, banVars, Ban!vars

\* NewGoogleAccountFound: LoginWithGoogle always finds the account it made,
\* because no administrator's call can be about a USER's row and nobody else
\* takes an account away from its address.
THEOREM NewGoogleAccountsAreFound == Spec => []NewGoogleAccountFound
<1>1. IInv => NewGoogleAccountFound
  BY DEF IInv, NewAccountKept, Kept, NewGoogleAccountFound
<1> QED BY <1>1, Invariance, PTL

-----------------------------------------------------------------------------
(* The ban tables, as far as logins rest on them *)

TablesFit == /\ pc = [r \in Requests |-> pc[r]] /\ call = [r \in Requests |-> call[r]]
             /\ reply = [r \in Requests |-> reply[r]]
             /\ banHistory = [i \in BanIds |-> banHistory[i]]

\* A ban id nobody has drawn leads to no record.
RecordedIssued == /\ \A i \in BanIds : banHistory[i] # None => i \in issued
                  /\ \A r \in Requests : pc[r] = "record" => call[r].id \in issued

BInv == TablesFit /\ RecordedIssued

\* One user's request moves, the others' stay.
LEMMA OneMoves ==
    ASSUME TablesFit, NEW r \in Requests,
           (\E answer : Ban!Finish(r, answer)) \/ (\E next, c : Ban!Proceed(r, next, c))
    PROVE  /\ pc' = [s \in Requests |-> pc'[s]] /\ call' = [s \in Requests |-> call'[s]]
           /\ reply' = [s \in Requests |-> reply'[s]]
           /\ \A s \in Requests : s # r => pc'[s] = pc[s] /\ call'[s] = call[s]
BY DEF TablesFit, Ban!Finish, Ban!Proceed

LEMMA FinishedIdle ==
    ASSUME TablesFit, NEW r \in Requests, NEW answer, Ban!Finish(r, answer)
    PROVE  pc'[r] = "idle" /\ reply'[r] = answer
BY DEF TablesFit, Ban!Finish

LEMMA ProceededTo ==
    ASSUME TablesFit, NEW r \in Requests, NEW next, NEW c, Ban!Proceed(r, next, c)
    PROVE  pc'[r] = next /\ call'[r] = c
BY DEF TablesFit, Ban!Proceed

LEMMA BInvStep == BInv /\ [Ban!Next]_banVars => BInv'
<1> SUFFICES ASSUME BInv, [Ban!Next]_banVars PROVE BInv'
  OBVIOUS
<1> USE DEF BInv
<1>1. ASSUME NEW r \in Requests, NEW u \in Users, NEW h \in Hours, Ban!BanRow(r, u, h) PROVE BInv'
  <2>1. PICK i \in BanIds : /\ issued' = issued \cup {i}
                            /\ Ban!Proceed(r, "record", [user |-> u, id |-> i, hours |-> h])
    BY <1>1 DEF Ban!BanRow, Ban!FreshIds
  <2>2. pc'[r] = "record" /\ call'[r] = [user |-> u, id |-> i, hours |-> h]
    BY <2>1, ProceededTo
  <2> QED BY <1>1, <2>1, <2>2, OneMoves DEF Ban!BanRow, TablesFit, RecordedIssued
<1>2. ASSUME NEW r \in Requests, NEW u \in Users, Ban!Unban(r, u) \/ Ban!CheckRow(r, u) PROVE BInv'
  <2>1. pc'[r] \in {"idle", "judge"}
    BY <1>2, FinishedIdle, ProceededTo DEF Ban!Unban, Ban!CheckRow
  <2> QED BY <1>2, <2>1, OneMoves DEF Ban!Unban, Ban!CheckRow, TablesFit, RecordedIssued
<1>3. ASSUME NEW r \in Requests, Ban!BanRecord(r) PROVE BInv'
  <2>1. pc'[r] = "idle" /\ call[r].id \in issued
    BY <1>3, FinishedIdle DEF Ban!BanRecord, RecordedIssued
  <2>2. /\ banHistory' = [i \in BanIds |-> banHistory'[i]]
        /\ \A i \in BanIds : i # call[r].id => banHistory'[i] = banHistory[i]
    BY <1>3 DEF Ban!BanRecord, TablesFit
  <2> QED BY <1>3, <2>1, <2>2, OneMoves DEF Ban!BanRecord, TablesFit, RecordedIssued
<1>4. ASSUME NEW r \in Requests, Ban!CheckRecord(r) \/ Ban!CheckClear(r) \/ Ban!StatementFails(r)
      PROVE  BInv'
  <2>1. pc'[r] \in {"idle", "clearMissing", "clearLapsed"}
    BY <1>4, FinishedIdle, ProceededTo DEF Ban!CheckRecord, Ban!CheckClear, Ban!StatementFails
  <2> QED BY <1>4, <2>1, OneMoves
          DEF Ban!CheckRecord, Ban!CheckClear, Ban!StatementFails, TablesFit, RecordedIssued
<1>5. ASSUME NEW u \in Users, Ban!SoftDelete(u) PROVE BInv'
  BY <1>5 DEF Ban!SoftDelete, TablesFit, RecordedIssued
<1>6. CASE Ban!Crash
  BY <1>6 DEF Ban!Crash, TablesFit, RecordedIssued
<1>7. CASE Ban!Tick \/ UNCHANGED banVars
  BY <1>7 DEF Ban!Tick, banVars, TablesFit, RecordedIssued
<1> QED BY <1>1, <1>2, <1>3, <1>4, <1>5, <1>6, <1>7 DEF Ban!Next, Ban!Advance

\* A user's row changes its ban id only in a step that leaves no ban of his
\* standing: a new ban is recorded by the next statement.
LEMMA BanIdMoves ==
    ASSUME BInv, RowsFit, [Ban!Next]_banVars, NEW u \in Users
    PROVE  users'[u].banId = users[u].banId \/ ~ Ban!Effective(u)'
<1> USE DEF BInv
<1>1. ASSUME NEW r \in Requests, NEW v \in Users, NEW h \in Hours, Ban!BanRow(r, v, h)
      PROVE  users'[u].banId = users[u].banId \/ ~ Ban!Effective(u)'
  <2>1. PICK i \in BanIds \ issued : Ban!UpdateUser(v, TRUE, i)
    BY <1>1 DEF Ban!BanRow, Ban!FreshIds
  <2>2. banHistory'[i] = None
    BY <1>1, <2>1 DEF Ban!BanRow, RecordedIssued
  <2>3. users'[u].banId \in {users[u].banId, i}
    BY <2>1 DEF Ban!UpdateUser, RowsFit
  <2> QED BY <2>2, <2>3 DEF Ban!Effective
<1>2. ASSUME NEW r \in Requests, NEW v \in Users, Ban!Unban(r, v)
      PROVE  users'[u].banId = users[u].banId
  BY <1>2 DEF Ban!Unban, Ban!UpdateUser, RowsFit
<1>3. ASSUME NEW r \in Requests, Ban!CheckClear(r)
      PROVE  users'[u].banId = users[u].banId \/ ~ Ban!Effective(u)'
  <2>1. \/ users'[u].banId = users[u].banId
        \/ ~ users'[u].isBanned
    BY <1>3 DEF Ban!CheckClear, Ban!UpdateUser, RowsFit
  <2> QED BY <2>1 DEF Ban!Effective
<1>4. ASSUME NEW v \in Users, Ban!SoftDelete(v) PROVE users'[u].banId = users[u].banId
  BY <1>4 DEF Ban!SoftDelete, RowsFit
<1>5. CASE UNCHANGED users
  BY <1>5
<1> QED BY <1>1, <1>2, <1>3, <1>4, <1>5
        DEF Ban!Next, Ban!Advance, Ban!CheckRow, Ban!BanRecord, Ban!CheckRecord,
            Ban!StatementFails, Ban!Crash, Ban!Tick, banVars

-----------------------------------------------------------------------------
(* Administrators *)

AInv == /\ \A u \in Users : Admin(u) => u \in administrators
        /\ \A s \in Requests, u \in Users : Targets(s, u) /\ s \notin overtaken => Admin(u)

\* An administrator's call is begun on an administrator.
LEMMA TargetStep ==
    ASSUME IInv, [Next]_vars, NEW s \in Requests, NEW u \in Users, Targets(s, u)'
    PROVE  Targets(s, u) \/ (Admin(u) /\ UNCHANGED accounts)
<1> USE DEF IInv
<1> DEFINE Goal == Targets(s, u) \/ (Admin(u) /\ UNCHANGED accounts)
<1>1. ASSUME NEW r \in Requests, NEW v \in Users, AdminAsk(r, v) PROVE Goal
  <2>1. Admin(v) /\ (r # s => task'[s] = task[s]) /\ task'[r].user = v /\ UNCHANGED accounts
    BY <1>1 DEF AdminAsk, IsAdmin, Live, Admin, Begin, TasksFit
  <2> QED BY <2>1 DEF Targets, At
<1>2. ASSUME NEW r \in Requests, NEW at \in Stages \ {"update", "delete"}, GoOn(r, at), task[r] # None
      PROVE Goal
  <2>1. task'[r].at = at /\ (r # s => task'[s] = task[s])
    BY <1>2 DEF GoOn, TasksFit, Tasks
  <2> QED BY <2>1 DEF Targets, At
<1>3. ASSUME NEW r \in Requests, End(r) PROVE Goal
  BY <1>3 DEF End, TasksFit, Targets, At
<1>4. ASSUME NEW r \in Requests, NEW at \in Stages \ {"update", "delete"}, NEW v, NEW e, NEW b,
             Begin(r, at, v, e, b, None)
      PROVE Goal
  BY <1>4 DEF Begin, TasksFit, Targets, At
<1>5. CASE UNCHANGED task \/ Crash
  BY <1>5 DEF Crash, Targets, At
<1>6. ASSUME NEW r \in Requests, Advance(r) PROVE Goal
  BY <1>2, <1>3, <1>5, <1>6
  DEF Advance, LoginBan, LoginPassword, LoginFactor, LoginCode, GoogleBan, GoogleCreate,
      GoogleReread, AdminUpdate, AdminDelete, At, Stages
<1>7. ASSUME NEW r \in Requests, NEW e \in Emails,
             GoogleNobody(r, e) \/ \E v \in Users : LoginRow(r, v, e) \/ GoogleRow(r, v, e)
      PROVE  Goal
  BY <1>4, <1>7 DEF GoogleNobody, LoginRow, GoogleRow, Stages
<1> QED BY <1>1, <1>3, <1>5, <1>6, <1>7
        DEF Next, vars, BanBegin, BanGoesOn, TaskFails, RegisterUser, LoginAdmin, CreateUserAdmin,
            TokenRefresh, SetVerified, SetFactor, Tick, InOneStep

\* A role is changed by UpdateUserAdmin only.
LEMMA RoleMoves ==
    ASSUME IInv, [Next]_vars, NEW u \in Users, Admin(u), ~ Admin(u)'
    PROVE  \E r \in Requests : AdminUpdate(r) /\ task[r].user = u
<1> USE DEF IInv
<1>1. accounts'[u] # accounts[u] /\ accounts[u] \in Accounts /\ Exists(u)
  BY DEF Admin, Exists, AccountsFit
<1>2. ASSUME SameStanding PROVE FALSE
  BY <1>1, <1>2 DEF SameStanding, Admin, Exists
<1>3. ASSUME NEW v \in Users, NEW e, NEW authType, NEW role, Insert(v, e, authType, role) PROVE FALSE
  BY <1>1, <1>3 DEF Insert, AccountsFit
<1>4. ASSUME NEW v \in Users, SetVerified(v) \/ SetFactor(v) PROVE FALSE
  BY <1>2, <1>4, FlagStands
<1>5. ASSUME NEW r \in Requests, AdminUpdate(r) PROVE task[r].user = u
  BY <1>1, <1>5 DEF AdminUpdate, AccountsFit
<1>6. CASE UNCHANGED accounts
  BY <1>1, <1>6
<1>7. ASSUME NEW r \in Requests, Advance(r) PROVE AdminUpdate(r) /\ task[r].user = u
  <2>1. AdminUpdate(r) \/ GoogleCreate(r) \/ UNCHANGED accounts
    BY <1>7 DEF Advance, LoginBan, LoginPassword, LoginFactor, LoginCode, GoogleBan,
       GoogleReread, AdminDelete
  <2>2. ~ GoogleCreate(r)
    BY <1>1, <1>3 DEF GoogleCreate
  <2> QED BY <1>1, <1>5, <2>1, <2>2
<1> QED BY <1>3, <1>4, <1>6, <1>7
        DEF Next, vars, LoginRow, GoogleRow, AdminAsk, GoogleNobody, BanBegin, BanGoesOn, TaskFails,
            RegisterUser, LoginAdmin, CreateUserAdmin, TokenRefresh, Crash, Tick

LEMMA AInvStep == IInv /\ AInv /\ [HNext]_hvars => AInv'
<1> SUFFICES ASSUME IInv, AInv, [HNext]_hvars PROVE AInv'
  OBVIOUS
<1>1. CASE HNext
  <2>1. administrators' = administrators \cup {u \in Users : Admin(u)'}
    BY <1>1 DEF HNext
  <2>2. ASSUME NEW s \in Requests, NEW u \in Users, Targets(s, u)', s \notin overtaken'
        PROVE  Admin(u)'
    <3>1. CASE Targets(s, u)
      <4>1. s \notin overtaken /\ ~ \E r \in Requests : AdminUpdate(r) /\ task[r].user = u
        BY <1>1, <2>2, <3>1 DEF HNext
      <4>2. Admin(u)
        BY <3>1, <4>1 DEF AInv
      <4> QED BY <1>1, <4>1, <4>2, RoleMoves DEF HNext
    <3>2. CASE ~ Targets(s, u)
      <4>1. Admin(u) /\ UNCHANGED accounts
        BY <1>1, <2>2, <3>2, TargetStep DEF HNext
      <4> QED BY <4>1 DEF Admin, Exists
    <3> QED BY <3>1, <3>2
  <2> QED BY <2>1, <2>2 DEF AInv
<1>2. CASE UNCHANGED hvars
  BY <1>2 DEF hvars, vars, banVars, AInv, Admin, Exists, Targets, At
<1> QED BY <1>1, <1>2

-----------------------------------------------------------------------------
(* Tokens *)

Earned == /\ now \in Nat
          /\ validUntil \in [Users \cup {None} -> [Roles -> Nat]]
          /\ AdminTokensEarned

LEMMA Issued ==
    ASSUME Earned, NEW u \in Users \cup {None}, NEW role \in Roles, NEW life \in Nat,
           Issue(u, role, life)
    PROVE  /\ validUntil' \in [Users \cup {None} -> [Roles -> Nat]]
           /\ \A v \in Users \cup {None} :
                 v # u \/ role # "ADMIN" => validUntil'[v]["ADMIN"] = validUntil[v]["ADMIN"]
<1>1. now + life \in Nat /\ validUntil[u][role] \in Nat
  BY DEF Earned
<1>2. Later(validUntil[u][role], now + life) \in Nat
  BY <1>1 DEF Later
<1> QED BY <1>2 DEF Issue, Earned, Roles

LEMMA EarnedStep == IInv /\ AInv /\ Earned /\ [HNext]_hvars => Earned'
<1> SUFFICES ASSUME IInv, AInv, Earned, [HNext]_hvars PROVE Earned'
  OBVIOUS
<1>1. administrators \subseteq administrators'
  BY DEF HNext, hvars
<1>2. ASSUME UNCHANGED now, UNCHANGED validUntil PROVE Earned'
  BY <1>1, <1>2 DEF Earned, AdminTokensEarned
<1>3. ASSUME UNCHANGED now, NEW u \in Users \cup {None}, NEW role \in Roles, NEW life \in Nat,
             Issue(u, role, life), role = "ADMIN" => u \in administrators
      PROVE  Earned'
  <2>1. /\ validUntil' \in [Users \cup {None} -> [Roles -> Nat]]
        /\ \A v \in Users \cup {None} :
              v # u \/ role # "ADMIN" => validUntil'[v]["ADMIN"] = validUntil[v]["ADMIN"]
    BY <1>3, Issued
  <2> QED BY <1>1, <1>3, <2>1 DEF Earned, AdminTokensEarned
<1>4. CASE Tick
  <2>1. now' \in Nat
    BY <1>4 DEF Tick, Ban!Tick, Earned
  <2>2. validUntil' \in [Users \cup {None} -> [Roles -> Nat]]
    BY <1>4 DEF Tick, Earned
  <2>3. \A v \in Users \cup {None} : validUntil'[v]["ADMIN"] > 0 => validUntil[v]["ADMIN"] > 0
    BY <1>4 DEF Tick, Earned, Roles
  <2> QED BY <1>1, <2>1, <2>2, <2>3 DEF Earned, AdminTokensEarned
<1>5. AccessLife \in Nat /\ RefreshLife \in Nat
  BY TokenAssumption
<1>6. ASSUME NEW u \in Users, NEW e \in Emails, LoginAdmin(u, e) PROVE Earned'
  BY <1>3, <1>5, <1>6 DEF LoginAdmin, Found, Live, Admin, AInv, banVars, Roles
<1>7. ASSUME NEW u \in Users, NEW role \in Roles, TokenRefresh(u, role) PROVE Earned'
  <2>1. validUntil[u][role] > 0
    BY <1>7 DEF TokenRefresh, Earned
  <2> QED BY <1>3, <1>5, <1>7, <2>1 DEF TokenRefresh, Earned, AdminTokensEarned, banVars
<1>8. ASSUME NEW r \in Requests,
             LoginFactor(r) \/ LoginCode(r) \/ GoogleBan(r) \/ GoogleReread(r)
      PROVE  Earned'
  <2>1. UNCHANGED now
    BY <1>8 DEF LoginFactor, LoginCode, GoogleBan, GoogleReread, banVars, BanCheck,
       Ban!CheckRow, Ban!CheckRecord, Ban!CheckClear
  <2>2. LoginFactor(r) \/ LoginCode(r) \/ GoogleBan(r) => task[r].user \in Users
    BY DEF LoginFactor, LoginCode, GoogleBan, At, IInv, TasksFit
  <2>3. \/ UNCHANGED validUntil
        \/ \E u \in Users \cup {None} : Issue(u, "USER", RefreshLife)
    BY <1>8, <2>2 DEF LoginFactor, LoginCode, GoogleBan, GoogleReread
  <2> QED BY <1>2, <1>3, <1>5, <2>1, <2>3 DEF Roles
<1>9. ASSUME NEW r \in Requests,
             \/ LoginBan(r) \/ LoginPassword(r) \/ GoogleCreate(r) \/ AdminUpdate(r) \/ AdminDelete(r)
             \/ BanBegin(r) \/ BanGoesOn(r) \/ TaskFails(r)
      PROVE  Earned'
  BY <1>2, <1>9
  DEF LoginBan, LoginPassword, GoogleCreate, AdminUpdate, AdminDelete, BanBegin, BanGoesOn,
      TaskFails, BanCheck, banVars, Ban!CheckRow, Ban!CheckRecord, Ban!CheckClear,
      Ban!SoftDelete, Ban!BanRow, Ban!Unban, Ban!BanRecord, Ban!StatementFails
<1>10. CASE UNCHANGED <<now, validUntil>>
  BY <1>2, <1>10
<1>11. CASE Next
  BY <1>4, <1>6, <1>7, <1>8, <1>9, <1>10, <1>11
  DEF Next, Advance, LoginRow, GoogleRow, GoogleNobody, AdminAsk, RegisterUser, CreateUserAdmin,
      SetVerified, SetFactor, Crash, Ban!Crash, banVars
<1> QED BY <1>10, <1>11 DEF HNext, hvars, vars, banVars

-----------------------------------------------------------------------------
(* Addresses *)

EmailsUnique == \A u, v \in Users :
    Exists(u) /\ Exists(v) /\ accounts[u].email = accounts[v].email => u = v

LEMMA SameEmails ==
    ASSUME EmailsUnique, \A u \in Users : Exists(u)' => Exists(u) /\ accounts'[u].email = accounts[u].email
    PROVE  EmailsUnique'
BY DEF EmailsUnique

LEMMA NewEmail ==
    ASSUME IInv, EmailsUnique, NEW u \in Users, NEW e, NEW a, a.email = e,
           accounts' = [accounts EXCEPT ![u] = a],
           \A v \in Users \ {u} : Exists(v) => accounts[v].email # e
    PROVE  EmailsUnique'
BY DEF IInv, AccountsFit, EmailsUnique, Exists

LEMMA EmailsStep == IInv /\ EmailsUnique /\ [Next]_vars => EmailsUnique'
<1> SUFFICES ASSUME IInv, EmailsUnique, [Next]_vars PROVE EmailsUnique'
  OBVIOUS
<1> USE DEF IInv
<1>1. CASE UNCHANGED accounts
  BY <1>1, SameEmails DEF Exists
<1>2. ASSUME NEW u \in Users, NEW e, NEW authType, NEW role, Insert(u, e, authType, role)
      PROVE  EmailsUnique'
  <2> DEFINE a == [email |-> e, authType |-> authType, role |-> role, verified |-> FALSE, factor |-> FALSE]
  <2>1. a.email = e
    OBVIOUS
  <2>2. accounts' = [accounts EXCEPT ![u] = a]
    BY <1>2 DEF Insert
  <2>3. \A v \in Users \ {u} : Exists(v) => accounts[v].email # e
    BY <1>2 DEF Insert, EmailTaken
  <2> HIDE DEF a
  <2> QED BY <2>1, <2>2, <2>3, NewEmail
<1>3. ASSUME NEW u \in Users, SetVerified(u) \/ SetFactor(u) PROVE EmailsUnique'
  <2>1. accounts[u] \in Accounts
    BY <1>3 DEF SetVerified, SetFactor, Live, Exists, AccountsFit
  <2>2. /\ [accounts[u] EXCEPT !.verified = ~ @].email = accounts[u].email
        /\ [accounts[u] EXCEPT !.factor = ~ @].email = accounts[u].email
    BY <2>1 DEF Accounts
  <2>3. Exists(u)
    BY <1>3 DEF SetVerified, SetFactor, Live
  <2>4. CASE SetVerified(u)
    BY <2>2, <2>3, <2>4, SameEmails DEF SetVerified, AccountsFit, Exists
  <2>5. CASE SetFactor(u)
    BY <2>2, <2>3, <2>5, SameEmails DEF SetFactor, AccountsFit, Exists
  <2> QED BY <1>3, <2>4, <2>5
<1>4. ASSUME NEW r \in Requests, AdminUpdate(r) PROVE EmailsUnique'
  <2> DEFINE u == task[r].user
             c == task[r].change
             a == [accounts[u] EXCEPT !.email = IF c.email = None THEN @ ELSE c.email,
                                      !.role  = IF c.role = None THEN @ ELSE c.role]
  <2>1. u \in Users
    BY <1>4 DEF AdminUpdate, TasksFit, At
  <2>2. CASE /\ Live(u) /\ accounts' = [accounts EXCEPT ![u] = a]
             /\ ~ \E v \in Users \ {u} : Exists(v) /\ accounts[v].email = c.email
    <3>1. accounts[u] \in Accounts /\ Exists(u)
      BY <2>1, <2>2 DEF Live, Exists, AccountsFit
    <3>2. a.email = IF c.email = None THEN accounts[u].email ELSE c.email
      BY <3>1 DEF Accounts
    <3>3. \A v \in Users \ {u} : Exists(v) => accounts[v].email # a.email
      BY <2>1, <2>2, <3>1, <3>2 DEF EmailsUnique
    <3> HIDE DEF a
    <3> QED BY <2>1, <2>2, <3>3, NewEmail
  <2> QED BY <1>1, <1>4, <2>2 DEF AdminUpdate
<1>5. ASSUME NEW r \in Requests, Advance(r) PROVE EmailsUnique'
  BY <1>1, <1>2, <1>4, <1>5
  DEF Advance, LoginBan, LoginPassword, LoginFactor, LoginCode, GoogleBan, GoogleCreate,
      GoogleReread, AdminDelete
<1> QED BY <1>1, <1>2, <1>3, <1>5
        DEF Next, vars, LoginRow, GoogleRow, AdminAsk, GoogleNobody, BanBegin, BanGoesOn, TaskFails,
            RegisterUser, LoginAdmin, CreateUserAdmin, TokenRefresh, Crash, Tick

\* No statement takes a row away.
LEMMA ExistsStays ==
    ASSUME IInv, [Next]_vars, NEW u \in Users, Exists(u)
    PROVE  Exists(u)'
<1> USE DEF IInv
<1>1. CASE UNCHANGED accounts
  BY <1>1 DEF Exists
<1>2. ASSUME NEW v \in Users, NEW a, accounts' = [accounts EXCEPT ![v] = a],
             Live(v) => a \in Accounts, Live(v) \/ ~ Exists(v)
      PROVE  Exists(u)'
  BY <1>2, TokenAssumption DEF Exists, Live, AccountsFit
<1>3. ASSUME NEW v \in Users, NEW e, NEW authType, NEW role, Insert(v, e, authType, role)
      PROVE  Exists(u)'
  BY <1>2, <1>3 DEF Insert, Live
<1>4. ASSUME NEW v \in Users, SetVerified(v) \/ SetFactor(v) PROVE Exists(u)'
  <2>1. Live(v) /\ accounts[v] \in Accounts
    BY <1>4 DEF SetVerified, SetFactor, Live, Exists, AccountsFit
  <2>2. /\ [accounts[v] EXCEPT !.verified = ~ @] \in Accounts
        /\ [accounts[v] EXCEPT !.factor = ~ @] \in Accounts
    BY <2>1 DEF Accounts
  <2>3. CASE SetVerified(v)
    BY <1>2, <2>1, <2>2, <2>3 DEF SetVerified
  <2>4. CASE SetFactor(v)
    BY <1>2, <2>1, <2>2, <2>4 DEF SetFactor
  <2> QED BY <1>4, <2>3, <2>4
<1>5. ASSUME NEW r \in Requests, AdminUpdate(r) PROVE Exists(u)'
  <2> DEFINE v == task[r].user
             c == task[r].change
             a == [accounts[v] EXCEPT !.email = IF c.email = None THEN @ ELSE c.email,
                                      !.role  = IF c.role = None THEN @ ELSE c.role]
  <2>1. v \in Users /\ c \in Changes
    BY <1>5 DEF AdminUpdate, TasksFit, At
  <2>2. CASE Live(v) /\ accounts' = [accounts EXCEPT ![v] = a]
    <3>1. accounts[v] \in Accounts
      BY <2>1, <2>2 DEF Live, Exists, AccountsFit
    <3>2. a \in Accounts
      BY <2>1, <3>1 DEF Accounts, Changes
    <3> HIDE DEF a
    <3> QED BY <1>2, <2>1, <2>2, <3>2
  <2> QED BY <1>1, <1>5, <2>2 DEF AdminUpdate
<1>6. ASSUME NEW r \in Requests, Advance(r) PROVE Exists(u)'
  BY <1>1, <1>3, <1>5, <1>6
  DEF Advance, LoginBan, LoginPassword, LoginFactor, LoginCode, GoogleBan, GoogleCreate,
      GoogleReread, AdminDelete
<1> QED BY <1>1, <1>3, <1>4, <1>6
        DEF Next, vars, LoginRow, GoogleRow, AdminAsk, GoogleNobody, BanBegin, BanGoesOn, TaskFails,
            RegisterUser, LoginAdmin, CreateUserAdmin, TokenRefresh, Crash, Tick

-----------------------------------------------------------------------------
(* Logins *)

\* What each stage of the login of r rests on.
Backed(r) ==
    /\ Exists(task[r].user)
    /\ Sight(r) \subseteq seen[r]
    /\ pc[r] \in {"idle", "judge", "clearMissing", "clearLapsed"}
    /\ pc[r] # "idle" => At(r, {"ban", "googleBan"})
    /\ pc[r] = "judge" => "free" \in seen[r] \/ users[task[r].user].banId = call[r].id
    /\ pc[r] \in {"clearMissing", "clearLapsed"} => "free" \in seen[r]
    /\ At(r, {"password", "factor", "code"}) => "free" \in seen[r]
    /\ ~ At(r, {"googleBan"}) /\ task[r].verified => "verified" \in seen[r]
    /\ At(r, {"factor", "code"}) => task[r].verified

LInv == \A r \in Requests : LogsIn(r) => Backed(r)

\* A login moves by its own statements, fails, dies or stays where it is.
LEMMA LoginMoves ==
    ASSUME IInv, BInv, [Next]_vars, NEW r \in Requests, LogsIn(r), Backed(r)
    PROVE  \/ LoginBan(r) \/ LoginPassword(r) \/ LoginFactor(r) \/ LoginCode(r) \/ GoogleBan(r)
           \/ task'[r] = None /\ UNCHANGED validUntil
           \/ task'[r] = task[r] /\ pc'[r] = pc[r] /\ call'[r] = call[r]
<1> USE DEF IInv
<1> DEFINE Stays == task'[r] = task[r] /\ pc'[r] = pc[r] /\ call'[r] = call[r]
<1>1. task[r] # None /\ pc[r] # "record"
  BY DEF LogsIn, At, Backed
<1>2. ASSUME UNCHANGED <<task, pc, call>> PROVE Stays
  BY <1>2
<1>3. ASSUME NEW s \in Requests, s # r, UNCHANGED <<pc, call>>,
             \/ End(s) \/ \E at : GoOn(s, at)
             \/ \E at, u, e, b, c : Begin(s, at, u, e, b, c)
      PROVE  Stays
  BY <1>3 DEF End, GoOn, Begin, TasksFit
<1>4. ASSUME NEW s \in Requests, s # r, Advance(s) PROVE Stays
  <2>1. task'[r] = task[r]
    BY <1>4 DEF Advance, LoginBan, LoginPassword, LoginFactor, LoginCode, GoogleBan, GoogleCreate,
       GoogleReread, AdminUpdate, AdminDelete, End, GoOn, TasksFit
  <2>2. CASE LoginBan(s) \/ GoogleBan(s)
    BY <1>4, <2>1, <2>2, OneMoves DEF LoginBan, GoogleBan, BanCheck, BInv,
       Ban!CheckRow, Ban!CheckRecord, Ban!CheckClear
  <2>3. CASE UNCHANGED <<pc, call>>
    BY <2>1, <2>3
  <2> QED BY <1>4, <2>2, <2>3
          DEF Advance, LoginPassword, LoginFactor, LoginCode, GoogleCreate, GoogleReread,
              AdminUpdate, AdminDelete, banVars, Ban!SoftDelete
<1>5. CASE Advance(r)
  BY <1>5 DEF Advance, GoogleCreate, GoogleReread, AdminUpdate, AdminDelete, LogsIn, At
<1>6. ASSUME NEW s \in Requests, BanBegin(s) \/ BanGoesOn(s) PROVE Stays
  <2>1. s # r /\ UNCHANGED task
    BY <1>1, <1>6 DEF BanBegin, BanGoesOn, Free
  <2> QED BY <1>6, <2>1, OneMoves
          DEF BanBegin, BanGoesOn, BInv, Ban!BanRow, Ban!Unban, Ban!BanRecord, Ban!StatementFails
<1>7. ASSUME NEW s \in Requests, s # r, TaskFails(s) PROVE Stays
  <2>1. task'[r] = task[r]
    BY <1>7 DEF TaskFails, End, TasksFit
  <2> QED BY <1>7, <2>1, OneMoves DEF TaskFails, BInv, banVars, Ban!StatementFails
<1>8. CASE TaskFails(r) \/ Crash
  BY <1>8 DEF TaskFails, End, TasksFit, Crash
<1>9. ASSUME NEW s \in Requests, NEW e \in Emails,
             GoogleNobody(s, e) \/ \E u \in Users : LoginRow(s, u, e) \/ GoogleRow(s, u, e)
      PROVE  Stays
  BY <1>1, <1>3, <1>9 DEF GoogleNobody, LoginRow, GoogleRow, Free, banVars
<1>10. ASSUME NEW s \in Requests, NEW u \in Users, AdminAsk(s, u) PROVE Stays
  BY <1>1, <1>3, <1>10 DEF AdminAsk, Free, banVars
<1> QED BY <1>2, <1>4, <1>5, <1>6, <1>7, <1>8, <1>9, <1>10
        DEF Next, vars, banVars, RegisterUser, LoginAdmin, CreateUserAdmin, TokenRefresh,
            SetVerified, SetFactor, InOneStep, Tick, Ban!Tick

\* A login has seen what there is to see of its user now.
LEMMA SeenNow ==
    ASSUME HNext, NEW r \in Requests, LogsIn(r)'
    PROVE  Sight(r)' \subseteq seen'[r] /\ seen[r] \subseteq seen'[r]
BY DEF HNext

\* A login that stays where it is keeps what it rests on.
LEMMA StaysBacked ==
    ASSUME IInv, BInv, HNext, NEW r \in Requests, LogsIn(r), Backed(r),
           task'[r] = task[r], pc'[r] = pc[r], call'[r] = call[r]
    PROVE  Backed(r)'
<1>1. LogsIn(r)' /\ task[r].user \in Users
  BY DEF LogsIn, At, IInv, TasksFit
<1>2. Sight(r)' \subseteq seen'[r] /\ seen[r] \subseteq seen'[r]
  BY <1>1, SeenNow
<1>3. [Ban!Next]_banVars
  BY BanStep DEF HNext, IInv
<1>4. pc[r] = "judge" => "free" \in seen'[r] \/ users'[task[r].user].banId = call[r].id
  <2>1. users'[task[r].user].banId = users[task[r].user].banId \/ ~ Ban!Effective(task[r].user)'
    BY <1>1, <1>3, BanIdMoves DEF IInv
  <2>2. ~ Ban!Effective(task[r].user)' => "free" \in Sight(r)'
    BY DEF Sight, Sights
  <2> QED BY <1>2, <2>1, <2>2 DEF Backed
<1>5. Exists(task[r].user)'
  BY <1>1, ExistsStays DEF HNext, Backed, Exists
<1> QED BY <1>1, <1>2, <1>4, <1>5 DEF Backed, At

\* The answer "not banned" is given when no ban stands or none stood.
LEMMA FreeAnswer ==
    ASSUME IInv, BInv, HNext, NEW r \in Requests, At(r, {"ban", "googleBan"}), Backed(r), BanCheck(r)
    PROVE  /\ pc'[r] = "idle" /\ reply'[r] = "free" => "free" \in seen[r]
           /\ pc'[r] \in {"idle", "judge", "clearMissing", "clearLapsed"}
           /\ pc'[r] = "judge" => users'[task[r].user].banId = call'[r].id
           /\ pc'[r] \in {"clearMissing", "clearLapsed"} => "free" \in seen[r]
<1> DEFINE u == task[r].user
<1> USE DEF BInv
<1>1. u \in Users /\ (~ Ban!Effective(u) => "free" \in seen[r])
  BY DEF At, IInv, TasksFit, Backed, Sight, Sights
<1>2. CASE Ban!CheckRow(r, u)
  <2>1. CASE \E answer : Ban!Finish(r, answer)
    <3>1. pc'[r] = "idle"
      BY <2>1, FinishedIdle
    <3>2. ~ Ban!Effective(u)
      BY <1>2, <3>1, ProceededTo DEF Ban!CheckRow, Ban!Effective
    <3> QED BY <1>1, <3>1, <3>2
  <2>2. CASE Ban!Proceed(r, "judge", [user |-> u, id |-> users[u].banId, hours |-> 0])
    <3>1. pc'[r] = "judge" /\ call'[r] = [user |-> u, id |-> users[u].banId, hours |-> 0]
      BY <2>2, ProceededTo
    <3> QED BY <1>2, <3>1 DEF Ban!CheckRow
  <2> QED BY <1>2, <2>1, <2>2 DEF Ban!CheckRow
<1>3. CASE Ban!CheckRecord(r)
  <2>1. pc[r] = "judge"
    BY <1>3 DEF Ban!CheckRecord
  <2>2. CASE Ban!Finish(r, "banned")
    <3>1. pc'[r] = "idle" /\ reply'[r] # "free"
      BY <2>2, FinishedIdle
    <3> QED BY <3>1
  <2>3. CASE /\ Ban!Proceed(r, "clearMissing", call[r]) \/ Ban!Proceed(r, "clearLapsed", call[r])
             /\ banHistory[call[r].id] = None \/ Ban!Lapsed(call[r].id)
    <3>1. pc'[r] \in {"clearMissing", "clearLapsed"}
      BY <2>3, ProceededTo
    <3>2. users[u].banId = call[r].id => ~ Ban!Effective(u)
      BY <2>3 DEF Ban!Effective
    <3> QED BY <1>1, <2>1, <3>1, <3>2 DEF Backed
  <2> QED BY <1>3, <2>2, <2>3 DEF Ban!CheckRecord
<1>4. CASE Ban!CheckClear(r)
  <2>1. pc'[r] = "idle" /\ "free" \in seen[r]
    BY <1>4, FinishedIdle DEF Ban!CheckClear, Backed
  <2> QED BY <2>1
<1> QED BY <1>2, <1>3, <1>4 DEF BanCheck

\* A login begins with the read of the row by email.
LEMMA LoginBegins ==
    ASSUME IInv, [Next]_vars, NEW r \in Requests, ~ LogsIn(r), LogsIn(r)'
    PROVE  \E u \in Users, e \in Emails : LoginRow(r, u, e) \/ GoogleRow(r, u, e)
<1> USE DEF IInv, LogsIn
<1>1. ~ UNCHANGED task /\ task'[r] # task[r]
  BY DEF At
<1>2. ASSUME NEW s \in Requests, s # r,
             \/ End(s) \/ \E at : GoOn(s, at)
             \/ \E at, u, e, b, c : Begin(s, at, u, e, b, c)
      PROVE  FALSE
  BY <1>1, <1>2 DEF End, GoOn, Begin, TasksFit
<1>3. ~ End(r)
  BY DEF End, TasksFit, At
<1>4. ASSUME NEW s \in Requests, Advance(s) PROVE FALSE
  <2>1. s = r
    BY <1>1, <1>2, <1>4
    DEF Advance, LoginBan, LoginPassword, LoginFactor, LoginCode, GoogleBan, GoogleCreate,
        GoogleReread, AdminUpdate, AdminDelete
  <2>2. GoogleCreate(r) /\ GoOn(r, "reread")
    BY <1>3, <1>4, <2>1
    DEF Advance, LoginBan, LoginPassword, LoginFactor, LoginCode, GoogleBan, GoogleCreate,
        GoogleReread, AdminUpdate, AdminDelete, At
  <2> QED BY <2>2 DEF GoogleCreate, GoOn, TasksFit, Tasks, At
<1>5. ASSUME NEW s \in Requests, NEW u \in Users, AdminAsk(s, u) PROVE FALSE
  <2>1. task'[r].at \in {"update", "delete"}
    BY <1>2, <1>5 DEF AdminAsk, Begin, TasksFit
  <2> QED BY <2>1 DEF At
<1>6. ASSUME NEW s \in Requests, NEW e \in Emails, GoogleNobody(s, e) PROVE FALSE
  <2>1. task'[r].at = "create"
    BY <1>2, <1>6 DEF GoogleNobody, Begin, TasksFit
  <2> QED BY <2>1 DEF At
<1>7. ASSUME NEW s \in Requests, NEW u \in Users, NEW e \in Emails, LoginRow(s, u, e) \/ GoogleRow(s, u, e)
      PROVE  s = r
  BY <1>2, <1>7 DEF LoginRow, GoogleRow
<1>8. ASSUME NEW s \in Requests, TaskFails(s) PROVE FALSE
  BY <1>2, <1>3, <1>8 DEF TaskFails
<1>9. ~ Crash
  BY DEF Crash, At
<1> QED BY <1>1, <1>4, <1>5, <1>6, <1>7, <1>8, <1>9
        DEF Next, vars, BanBegin, BanGoesOn, RegisterUser, LoginAdmin, CreateUserAdmin,
            TokenRefresh, SetVerified, SetFactor, InOneStep, Tick

LEMMA BegunBacked ==
    ASSUME IInv, HNext, NEW r \in Requests, NEW u \in Users, NEW e \in Emails,
           LoginRow(r, u, e) \/ GoogleRow(r, u, e), LogsIn(r)'
    PROVE  Backed(r)'
<1>1. pc'[r] = "idle" /\ UNCHANGED accounts
  BY DEF LoginRow, GoogleRow, Free, banVars
<1>2. task'[r].at \in {"ban", "googleBan"} /\ task'[r].user = u
  BY DEF LoginRow, GoogleRow, Begin, IInv, TasksFit
<1>3. ASSUME task'[r].at = "ban", task'[r].verified PROVE "verified" \in Sight(r)'
  <2>1. LoginRow(r, u, e)
    BY <1>3 DEF GoogleRow, Begin, IInv, TasksFit
  <2>2. task'[r].verified = accounts[u].verified
    BY <2>1 DEF LoginRow, Begin, IInv, TasksFit
  <2>3. accounts[u].verified
    BY <1>3, <2>2
  <2> QED BY <1>1, <1>2, <2>3 DEF Sight, Sights
<1>4. Sight(r)' \subseteq seen'[r] /\ task'[r] # None
  BY SeenNow DEF LogsIn, At
<1>5. ~ At(r, {"password", "factor", "code"})' /\ Exists(task[r].user)'
  BY <1>1, <1>2 DEF At, LoginRow, GoogleRow, Found, Live, Exists
<1> QED BY <1>1, <1>2, <1>3, <1>4, <1>5 DEF Backed, At

LEMMA MovedBacked ==
    ASSUME IInv, BInv, HNext, NEW r \in Requests, LogsIn(r), LogsIn(r)', Backed(r),
           LoginBan(r) \/ LoginPassword(r) \/ LoginFactor(r) \/ GoogleBan(r)
    PROVE  Backed(r)'
<1>1. /\ Sight(r)' \subseteq seen'[r] /\ seen[r] \subseteq seen'[r]
      /\ task[r] \in Tasks /\ accounts'[task[r].user] # None
  <2>1. task[r].user \in Users /\ task[r] \in Tasks
    BY DEF LogsIn, At, IInv, TasksFit
  <2> QED BY <2>1, SeenNow, ExistsStays DEF HNext, Backed, Exists
<1>2. ~ End(r)
  BY DEF End, LogsIn, At, IInv, TasksFit
<1>3. ASSUME NEW at \in Stages, GoOn(r, at)
      PROVE  /\ task'[r].at = at /\ task'[r].user = task[r].user
             /\ task'[r].verified = task[r].verified /\ task'[r] # None
  BY <1>1, <1>3, TokenAssumption DEF GoOn, IInv, TasksFit, Tasks
<1>4. CASE LoginBan(r)
  <2>1. At(r, {"ban"}) /\ BanCheck(r)
    BY <1>4 DEF LoginBan
  <2>2. /\ pc'[r] = "idle" /\ reply'[r] = "free" => "free" \in seen[r]
        /\ pc'[r] \in {"idle", "judge", "clearMissing", "clearLapsed"}
        /\ pc'[r] = "judge" => users'[task[r].user].banId = call'[r].id
        /\ pc'[r] \in {"clearMissing", "clearLapsed"} => "free" \in seen[r]
    BY <2>1, FreeAnswer DEF At
  <2>3. CASE pc'[r] # "idle" /\ UNCHANGED task
    BY <1>1, <2>1, <2>2, <2>3 DEF Backed, Exists, At
  <2>4. CASE pc'[r] = "idle" /\ reply'[r] = "free" /\ GoOn(r, "password")
    BY <1>1, <1>3, <2>1, <2>2, <2>4 DEF Backed, Exists, At, Stages
  <2> QED BY <1>2, <1>4, <2>3, <2>4 DEF LoginBan
<1>5. CASE LoginPassword(r)
  <2>1. /\ At(r, {"password"}) /\ task[r].verified /\ GoOn(r, "factor") /\ UNCHANGED banVars
    BY <1>2, <1>5 DEF LoginPassword
  <2> QED BY <1>1, <1>3, <2>1 DEF Backed, Exists, At, Stages, banVars
<1>6. CASE LoginFactor(r)
  <2>1. /\ At(r, {"factor"}) /\ GoOn(r, "code") /\ UNCHANGED banVars
    BY <1>2, <1>6 DEF LoginFactor
  <2> QED BY <1>1, <1>3, <2>1 DEF Backed, Exists, At, Stages, banVars
<1>7. CASE GoogleBan(r)
  <2>1. At(r, {"googleBan"}) /\ BanCheck(r) /\ pc'[r] # "idle" /\ UNCHANGED task
    BY <1>2, <1>7 DEF GoogleBan
  <2>2. /\ pc'[r] \in {"judge", "clearMissing", "clearLapsed"}
        /\ pc'[r] = "judge" => users'[task[r].user].banId = call'[r].id
        /\ pc'[r] \in {"clearMissing", "clearLapsed"} => "free" \in seen[r]
    BY <2>1, FreeAnswer DEF At
  <2> QED BY <1>1, <2>1, <2>2 DEF Backed, Exists, At
<1> QED BY <1>4, <1>5, <1>6, <1>7

HInv == IInv /\ BInv /\ AInv /\ Earned /\ EmailsUnique /\ LInv

LEMMA LInvStep == HInv /\ [HNext]_hvars => LInv'
<1> SUFFICES ASSUME HInv, [HNext]_hvars, NEW r \in Requests, LogsIn(r)' PROVE Backed(r)'
  BY DEF LInv
<1> USE DEF HInv
<1>1. CASE UNCHANGED hvars
  BY <1>1 DEF hvars, vars, banVars, LInv, Backed, Exists, LogsIn, At, Sight, Ban!Effective, Ban!Lapsed
<1>2. CASE HNext /\ LogsIn(r)
  <2>1. Backed(r) /\ task'[r] # None
    BY <1>2 DEF LInv, LogsIn, At
  <2>2. ~ LoginCode(r)
    BY <2>1 DEF LoginCode, End, IInv, TasksFit
  <2>3. \/ LoginBan(r) \/ LoginPassword(r) \/ LoginFactor(r) \/ GoogleBan(r)
        \/ task'[r] = task[r] /\ pc'[r] = pc[r] /\ call'[r] = call[r]
    BY <1>2, <2>1, <2>2, LoginMoves DEF HNext
  <2> QED BY <1>2, <2>1, <2>3, MovedBacked, StaysBacked
<1>3. CASE HNext /\ ~ LogsIn(r)
  <2>1. PICK u \in Users, e \in Emails : LoginRow(r, u, e) \/ GoogleRow(r, u, e)
    BY <1>3, LoginBegins DEF HNext
  <2> QED BY <1>3, <2>1, BegunBacked
<1> QED BY <1>1, <1>2, <1>3

LEMMA HInvInit == HInit => HInv
<1> SUFFICES ASSUME HInit PROVE HInv
  OBVIOUS
<1>1. IInv /\ EmailsUnique
  BY IInvInit DEF HInit, Init, EmailsUnique
<1>2. BInv
  BY DEF HInit, Init, Ban!Init, BInv, TablesFit, RecordedIssued
<1>3. AInv /\ LInv
  BY DEF HInit, Init, AInv, Targets, LInv, LogsIn, At
<1>4. Earned
  BY DEF HInit, Init, Ban!Init, Earned, AdminTokensEarned, Roles
<1> QED BY <1>1, <1>2, <1>3, <1>4 DEF HInv

LEMMA HInvStep == HInv /\ [HNext]_hvars => HInv'
<1> SUFFICES ASSUME HInv, [HNext]_hvars PROVE HInv'
  OBVIOUS
<1>1. [Next]_vars
  BY DEF HNext, hvars
<1>2. IInv' /\ EmailsUnique'
  BY <1>1, IInvStep, EmailsStep DEF HInv
<1>3. BInv'
  BY <1>1, BanStep, BInvStep DEF HInv, IInv
<1> QED BY <1>2, <1>3, AInvStep, EarnedStep, LInvStep DEF HInv

LEMMA HInvariance == HSpec => []HInv
BY HInvInit, HInvStep, PTL DEF HSpec

-----------------------------------------------------------------------------

\* Tokens are given by the login's own last statement.
LEMMA OpensBy ==
    ASSUME HInv, HNext, NEW r \in Requests, Opens(r)
    PROVE  LoginFactor(r) \/ LoginCode(r) \/ GoogleBan(r)
<1>1. LogsIn(r) /\ Backed(r) /\ task[r] # None /\ task'[r] = None /\ validUntil' # validUntil
  BY DEF Opens, HInv, LInv, LogsIn, At
<1>2. \/ LoginBan(r) \/ LoginPassword(r) \/ LoginFactor(r) \/ LoginCode(r) \/ GoogleBan(r)
      \/ task'[r] = task[r] /\ pc'[r] = pc[r] /\ call'[r] = call[r]
  BY <1>1, LoginMoves DEF HInv, HNext
<1> QED BY <1>1, <1>2 DEF LoginBan, LoginPassword

\* BannedKeptOut: however the reads of a login interleave with bans, their end,
\* deletions, failures and crashes, whoever gets tokens was seen without a
\* standing ban at some moment of that login.
THEOREM BannedAreKeptOut == HSpec => BannedKeptOut
<1> DEFINE Step == \A r \in Requests : Opens(r) => "free" \in seen[r]
<1>1. ASSUME HInv, [HNext]_hvars PROVE Step \/ UNCHANGED hvars
  <2> SUFFICES ASSUME HNext, NEW r \in Requests, Opens(r) PROVE "free" \in seen[r]
    BY <1>1
  <2>1. Backed(r)
    BY <1>1 DEF Opens, HInv, LInv
  <2>2. CASE LoginFactor(r) \/ LoginCode(r)
    BY <2>1, <2>2 DEF LoginFactor, LoginCode, Backed, At
  <2>3. CASE GoogleBan(r)
    <3>1. /\ At(r, {"googleBan"}) /\ BanCheck(r)
          /\ pc'[r] = "idle" /\ reply'[r] = "free"
      BY <2>3 DEF GoogleBan, Opens
    <3> QED BY <1>1, <2>1, <3>1, FreeAnswer DEF At, HInv
  <2> QED BY <1>1, <2>2, <2>3, OpensBy
<1>2. ASSUME HInv, UNCHANGED hvars PROVE Step
  BY <1>2 DEF hvars, vars, Opens
<1> QED BY <1>1, <1>2, HInvariance, PTL DEF HSpec, BannedKeptOut

\* UnverifiedKeptOut: LoginUser judges is_verified on the row read first, and
\* that row was what it says at some moment of the login.
THEOREM UnverifiedAreKeptOut == HSpec => UnverifiedKeptOut
<1> DEFINE Step == \A r \in Requests :
                      Opens(r) /\ ~ At(r, {"googleBan"}) => "verified" \in seen[r]
<1>1. ASSUME HInv, [HNext]_hvars PROVE Step \/ UNCHANGED hvars
  <2> SUFFICES ASSUME HNext, NEW r \in Requests, Opens(r), ~ At(r, {"googleBan"})
               PROVE  "verified" \in seen[r]
    BY <1>1
  <2>1. Backed(r)
    BY <1>1 DEF Opens, HInv, LInv
  <2>2. At(r, {"factor", "code"})
    BY <1>1, OpensBy DEF LoginFactor, LoginCode, GoogleBan, At
  <2> QED BY <2>1, <2>2 DEF Backed
<1>2. ASSUME HInv, UNCHANGED hvars PROVE Step
  BY <1>2 DEF hvars, vars, Opens
<1> QED BY <1>1, <1>2, HInvariance, PTL DEF HSpec, UnverifiedKeptOut

\* FactorAskedFor: GetTwoFactorAuthStatus asks by address, and no two rows
\* have one, so a login that needs no code has seen its own user without a
\* second factor or under another address.
THEOREM FactorsAreAskedFor == HSpec => FactorAskedFor
<1> DEFINE Step == \A r \in Requests : Opens(r) /\ At(r, {"factor"}) =>
                      "factorless" \in seen[r] \/ "moved" \in seen[r]
<1>1. ASSUME HInv, [HNext]_hvars PROVE Step \/ UNCHANGED hvars
  <2> SUFFICES ASSUME HNext, NEW r \in Requests, Opens(r), At(r, {"factor"})
               PROVE  "factorless" \in seen[r] \/ "moved" \in seen[r]
    BY <1>1
  <2> DEFINE u == task[r].user
  <2>1. Sight(r) \subseteq seen[r] /\ u \in Users /\ Exists(u)
    BY <1>1 DEF Opens, HInv, LInv, Backed, IInv, TasksFit, At
  <2>2. LoginFactor(r)
    BY <1>1, OpensBy DEF LoginCode, GoogleBan, At
  <2>3. PICK v \in Users : Found(v, task[r].email) /\ ~ accounts[v].factor
    BY <2>2 DEF LoginFactor, FactorKnown, Opens, GoOn, At
  <2>4. CASE v = u
    BY <2>1, <2>3, <2>4 DEF Sight, Sights
  <2>5. CASE accounts[u].email # task[r].email
    BY <2>1, <2>5 DEF Sight, Sights
  <2> QED BY <1>1, <2>1, <2>3, <2>4, <2>5 DEF HInv, EmailsUnique, Found, Live
<1>2. ASSUME HInv, UNCHANGED hvars PROVE Step
  BY <1>2 DEF hvars, vars, Opens
<1> QED BY <1>1, <1>2, HInvariance, PTL DEF HSpec, FactorAskedFor

\* AdminTokensEarned: no renewal and no login turns anybody's token into an
\* administrator's.
THEOREM AdminTokensAreEarned == HSpec => []AdminTokensEarned
<1>1. HInv => AdminTokensEarned
  BY DEF HInv, Earned
<1> QED BY <1>1, HInvariance, PTL

\* A live row goes, or its address or role changes, by an administrator's
\* call about it only.
LEMMA LiveGoes ==
    ASSUME IInv, [Next]_vars, NEW u \in Users, users[u].live, ~ users'[u].live
    PROVE  \E r \in Requests : Targets(r, u) /\ task'[r] = None
<1> USE DEF IInv
<1>1. ASSUME SameLive PROVE FALSE
  BY <1>1 DEF SameLive
<1>2. ASSUME NEW r \in Requests, AdminDelete(r) PROVE Targets(r, u) /\ task'[r] = None
  BY <1>1, <1>2, RowsStay DEF AdminDelete, Ban!SoftDelete, RowsFit, Targets, At, banVars, End, TasksFit
<1>3. ASSUME NEW r \in Requests, LoginBan(r) \/ GoogleBan(r) PROVE FALSE
  <2>1. BanCheck(r) /\ task[r].user \in Users
    BY <1>3 DEF LoginBan, GoogleBan, TasksFit, At
  <2> QED BY <1>1, <2>1, BanCheckStays
<1>4. ASSUME NEW r \in Requests, BanBegin(r) \/ BanGoesOn(r) \/ TaskFails(r) PROVE FALSE
  BY <1>1, <1>4, RowsStay DEF BanBegin, BanGoesOn, TaskFails, Ban!Advance, banVars
<1>5. CASE UNCHANGED users
  BY <1>5
<1>6. ASSUME NEW r \in Requests, Advance(r) PROVE Targets(r, u) /\ task'[r] = None
  BY <1>2, <1>3, <1>5, <1>6
  DEF Advance, LoginPassword, LoginFactor, LoginCode, GoogleCreate, GoogleReread, AdminUpdate, banVars
<1>7. CASE Crash \/ Tick \/ UNCHANGED vars
  BY <1>5, <1>7 DEF Crash, Ban!Crash, Tick, Ban!Tick, vars, banVars
<1> QED BY <1>4, <1>5, <1>6, <1>7
        DEF Next, banVars, LoginRow, GoogleRow, AdminAsk, GoogleNobody, RegisterUser, LoginAdmin,
            CreateUserAdmin, TokenRefresh, SetVerified, SetFactor

LEMMA AccountChanges ==
    ASSUME IInv, [Next]_vars, NEW u \in Users, Live(u),
           \/ accounts'[u].email # accounts[u].email
           \/ accounts'[u].role # accounts[u].role
    PROVE  \E r \in Requests : Targets(r, u) /\ task'[r] = None
<1> USE DEF IInv
<1>1. Exists(u) /\ accounts'[u] # accounts[u] /\ accounts[u] \in Accounts
  BY DEF Live, Exists, AccountsFit
<1>2. ASSUME NEW v \in Users, NEW e, NEW authType, NEW role, Insert(v, e, authType, role) PROVE FALSE
  BY <1>1, <1>2 DEF Insert, AccountsFit
<1>3. ASSUME NEW v \in Users, SetVerified(v) \/ SetFactor(v) PROVE FALSE
  <2>1. /\ [accounts[u] EXCEPT !.verified = ~ @].email = accounts[u].email
        /\ [accounts[u] EXCEPT !.verified = ~ @].role = accounts[u].role
        /\ [accounts[u] EXCEPT !.factor = ~ @].email = accounts[u].email
        /\ [accounts[u] EXCEPT !.factor = ~ @].role = accounts[u].role
    BY <1>1 DEF Accounts
  <2>2. v = u
    BY <1>1, <1>3 DEF SetVerified, SetFactor, AccountsFit
  <2>3. CASE SetVerified(v)
    BY <1>1, <2>1, <2>2, <2>3 DEF SetVerified, AccountsFit
  <2>4. CASE SetFactor(v)
    BY <1>1, <2>1, <2>2, <2>4 DEF SetFactor, AccountsFit
  <2> QED BY <1>3, <2>3, <2>4
<1>4. ASSUME NEW r \in Requests, AdminUpdate(r) PROVE Targets(r, u) /\ task'[r] = None
  <2>1. task[r].user = u
    BY <1>1, <1>4 DEF AdminUpdate, AccountsFit
  <2> QED BY <1>4, <2>1 DEF AdminUpdate, Targets, At, End, TasksFit
<1>5. CASE UNCHANGED accounts
  BY <1>1, <1>5
<1>6. ASSUME NEW r \in Requests, Advance(r) PROVE Targets(r, u) /\ task'[r] = None
  BY <1>2, <1>4, <1>5, <1>6
  DEF Advance, LoginBan, LoginPassword, LoginFactor, LoginCode, GoogleBan, GoogleCreate,
      GoogleReread, AdminDelete
<1> QED BY <1>2, <1>3, <1>5, <1>6
        DEF Next, vars, LoginRow, GoogleRow, AdminAsk, GoogleNobody, BanBegin, BanGoesOn, TaskFails,
            RegisterUser, LoginAdmin, CreateUserAdmin, TokenRefresh, Crash, Tick

\* OnlyAdminsTouched: an administrator's call is begun on an administrator,
\* nothing but UpdateUserAdmin takes the role from him, and nothing else takes a
\* live account away or changes whose it is.
THEOREM OnlyAdminsAreTouched == HSpec => OnlyAdminsTouched
<1> DEFINE Touched(u) == \E r \in overtaken : Targets(r, u) /\ task'[r] = None
           Step == \A u \in Users : Live(u) /\ ~ Admin(u) =>
              \/ /\ users'[u].live
                 /\ accounts'[u].email = accounts[u].email /\ accounts'[u].role = accounts[u].role
              \/ Touched(u)
<1>1. ASSUME HInv, [HNext]_hvars PROVE Step \/ UNCHANGED hvars
  <2>1. IInv /\ AInv /\ [Next]_vars
    BY <1>1 DEF HInv, HNext, hvars
  <2>2. ASSUME NEW u \in Users, Live(u), ~ Admin(u),
               ~ (/\ users'[u].live
                  /\ accounts'[u].email = accounts[u].email /\ accounts'[u].role = accounts[u].role)
        PROVE  Touched(u)
    <3>1. PICK r \in Requests : Targets(r, u) /\ task'[r] = None
      BY <2>1, <2>2, LiveGoes, AccountChanges DEF Live
    <3> QED BY <2>1, <2>2, <3>1 DEF AInv
  <2> QED BY <2>2
<1>2. ASSUME HInv, UNCHANGED hvars PROVE Step
  BY <1>2 DEF hvars, vars, banVars, Live
<1> QED BY <1>1, <1>2, HInvariance, PTL DEF HSpec, OnlyAdminsTouched

-----------------------------------------------------------------------------
(* What BanLifecycleProofs shows of the ban tables holds beside logins and  *)
(* administrators' calls.                                                   *)

BanFacts == INSTANCE BanLifecycleProofs WITH asked <- {}

LEMMA SameBanRules == Ban!Spec => BanFacts!Spec
<1>1. Ban!Init => BanFacts!Init
  BY DEF Ban!Init, BanFacts!Init
<1>2. Ban!Next => BanFacts!Next
  BY DEF Ban!Next, Ban!Advance, Ban!BanRow, Ban!FreshIds, Ban!UpdateUser, Ban!Proceed, Ban!Finish,
         Ban!BanRecord, Ban!Span, Ban!Unban, Ban!CheckRow, Ban!CheckRecord, Ban!Lapsed,
         Ban!CheckClear, Ban!SoftDelete, Ban!StatementFails, Ban!Crash, Ban!Tick,
         BanFacts!Next, BanFacts!Advance, BanFacts!BanRow, BanFacts!FreshIds,
         BanFacts!UpdateUser, BanFacts!Proceed, BanFacts!Finish, BanFacts!BanRecord,
         BanFacts!Span, BanFacts!Unban, BanFacts!CheckRow, BanFacts!CheckRecord,
         BanFacts!Lapsed, BanFacts!CheckClear, BanFacts!SoftDelete,
         BanFacts!StatementFails, BanFacts!Crash, BanFacts!Tick
<1> QED BY <1>1, <1>2, PTL DEF Ban!Spec, BanFacts!Spec, Ban!vars, BanFacts!vars

LEMMA BanTypesHold == Spec => []Ban!TypeOK
<1>1. BanFacts!Spec => []BanFacts!TypeOK
  BY BanFacts!TypeCorrect, BanAssumption, PTL DEF Ban!Records, BanFacts!Records
<1>2. BanFacts!TypeOK => Ban!TypeOK
  BY DEF BanFacts!TypeOK, BanFacts!TypesFit, BanFacts!FlaggedHasId, BanFacts!Rows, BanFacts!Records, BanFacts!Calls, BanFacts!PCs,
         BanFacts!Replies, Ban!TypeOK, Ban!TypesFit, Ban!FlaggedHasId, Ban!Rows, Ban!Records, Ban!Calls, Ban!PCs, Ban!Replies
<1> QED BY <1>1, <1>2, BanRulesAreKept, SameBanRules, PTL

\* Also with logins, deletions and administrators' calls around them, a ban id
\* leads to a record of its own user, "banned" is answered only for a user with
\* an unexpired record of his own, and no stale check takes down the ban it
\* judged while that ban stands.
THEOREM BansStayTrueBesideLogins ==
    Spec => /\ []Ban!RecordNamesUser
            /\ Ban!BannedAnswerJustified
            /\ Ban!LapseVerdictSound
<1>1. BanFacts!Spec => []BanFacts!RecordNamesUser
  BY BanFacts!RecordsNameTheirUser, BanAssumption, PTL DEF Ban!Records, BanFacts!Records
<1>2. BanFacts!Spec => BanFacts!BannedAnswerJustified
  BY BanFacts!BannedAnswersAreJustified, BanAssumption, PTL DEF Ban!Records, BanFacts!Records
<1>3. BanFacts!Spec => BanFacts!LapseVerdictSound
  BY BanFacts!LapseVerdictsAreSound, BanAssumption, PTL DEF Ban!Records, BanFacts!Records
<1>4. BanFacts!RecordNamesUser => Ban!RecordNamesUser
  BY DEF BanFacts!RecordNamesUser, Ban!RecordNamesUser
<1>5. BanFacts!BannedAnswerJustified => Ban!BannedAnswerJustified
  BY PTL DEF BanFacts!BannedAnswerJustified, Ban!BannedAnswerJustified, Ban!vars, BanFacts!vars
<1>6. BanFacts!LapseVerdictSound => Ban!LapseVerdictSound
  BY PTL DEF BanFacts!LapseVerdictSound, Ban!LapseVerdictSound, Ban!vars, BanFacts!vars,
             Ban!Effective, BanFacts!Effective, Ban!Lapsed, BanFacts!Lapsed
<1> QED BY <1>1, <1>2, <1>3, <1>4, <1>5, <1>6, BanRulesAreKept, SameBanRules, PTL

-----------------------------------------------------------------------------
(* Types *)

\* A task of the administrator's, and a first Google login, has no statement of
\* the ban tables under way.
WorkFits == /\ \A r \in Requests : task[r] # None /\ pc[r] # "idle" => At(r, {"ban", "googleBan"})
            /\ calls \in Nat

LEMMA WorkStep == IInv /\ BInv /\ WorkFits /\ [Next]_vars => WorkFits'
<1> SUFFICES ASSUME IInv, BInv, WorkFits, [Next]_vars PROVE WorkFits'
  OBVIOUS
<1> USE DEF IInv
<1> DEFINE Fits(r) == task[r] # None /\ pc[r] # "idle" => At(r, {"ban", "googleBan"})
<1>1. ASSUME NEW r \in Requests, UNCHANGED <<task[r], pc[r]>> \/ task'[r] = None \/ pc'[r] = "idle"
      PROVE  Fits(r)'
  BY <1>1 DEF WorkFits, At
<1>2. ASSUME NEW s \in Requests, pc[s] = "idle", UNCHANGED pc,
             \/ End(s) \/ \E at : GoOn(s, at)
             \/ \E at, u, e, b, c : Begin(s, at, u, e, b, c)
      PROVE  \A r \in Requests : Fits(r)'
  BY <1>1, <1>2 DEF End, GoOn, Begin, TasksFit
<1>3. ASSUME NEW s \in Requests, LoginBan(s) \/ GoogleBan(s) PROVE \A r \in Requests : Fits(r)'
  <2>1. \A r \in Requests : r # s => UNCHANGED <<task[r], pc[r]>>
    <3>1. \A r \in Requests : r # s => UNCHANGED task[r]
      BY <1>3 DEF LoginBan, GoogleBan, End, GoOn, TasksFit
    <3>2. \A r \in Requests : r # s => UNCHANGED pc[r]
      BY <1>3, OneMoves DEF LoginBan, GoogleBan, BanCheck, BInv,
         Ban!CheckRow, Ban!CheckRecord, Ban!CheckClear
    <3> QED BY <3>1, <3>2
  <2>2. Fits(s)'
    BY <1>3 DEF LoginBan, GoogleBan, At
  <2> QED BY <1>1, <2>1, <2>2
<1>4. ASSUME NEW s \in Requests, Advance(s), ~ LoginBan(s), ~ GoogleBan(s)
      PROVE  \A r \in Requests : Fits(r)'
  <2>1. pc[s] = "idle"
    BY <1>4 DEF WorkFits, Advance, LoginPassword, LoginFactor, LoginCode, GoogleCreate,
       GoogleReread, AdminUpdate, AdminDelete, At
  <2>2. UNCHANGED pc
    BY <1>4 DEF Advance, LoginPassword, LoginFactor, LoginCode, GoogleCreate,
       GoogleReread, AdminUpdate, AdminDelete, banVars, Ban!SoftDelete
  <2> QED BY <1>2, <1>4, <2>1, <2>2
          DEF Advance, LoginPassword, LoginFactor, LoginCode, GoogleCreate,
              GoogleReread, AdminUpdate, AdminDelete
<1>5. ASSUME NEW s \in Requests, NEW e \in Emails,
             GoogleNobody(s, e) \/ \E u \in Users : LoginRow(s, u, e) \/ GoogleRow(s, u, e)
      PROVE  \A r \in Requests : Fits(r)'
  BY <1>2, <1>5 DEF GoogleNobody, LoginRow, GoogleRow, Free, banVars
<1>6. ASSUME NEW s \in Requests, NEW u \in Users, AdminAsk(s, u) PROVE \A r \in Requests : Fits(r)'
  BY <1>2, <1>6 DEF AdminAsk, Free, banVars
<1>7. ASSUME NEW s \in Requests, BanBegin(s) \/ BanGoesOn(s) PROVE \A r \in Requests : Fits(r)'
  <2>1. UNCHANGED task /\ task[s] = None
    BY <1>7 DEF BanBegin, BanGoesOn, Free
  <2>2. \A r \in Requests : r # s => UNCHANGED pc[r]
    BY <1>7, OneMoves DEF BanBegin, BanGoesOn, BInv, Ban!BanRow, Ban!Unban, Ban!BanRecord,
       Ban!StatementFails
  <2> QED BY <1>1, <2>1, <2>2
<1>8. ASSUME NEW s \in Requests, TaskFails(s) PROVE \A r \in Requests : Fits(r)'
  <2>1. task'[s] = None /\ \A r \in Requests : r # s => UNCHANGED task[r]
    BY <1>8 DEF TaskFails, End, TasksFit
  <2>2. \A r \in Requests : r # s => UNCHANGED pc[r]
    BY <1>8, OneMoves DEF TaskFails, BInv, banVars, Ban!StatementFails
  <2> QED BY <1>1, <2>1, <2>2
<1>9. ASSUME Crash PROVE \A r \in Requests : Fits(r)'
  BY <1>1, <1>9 DEF Crash
<1>10. ASSUME UNCHANGED <<task, pc>> PROVE \A r \in Requests : Fits(r)'
  BY <1>1, <1>10
<1>11. calls' \in Nat
  <2>1. calls' = calls + 1 \/ calls' = calls
    BY DEF Next, vars, Called, Advance, LoginRow, GoogleRow, GoogleNobody, AdminAsk, LoginBan,
       LoginPassword, LoginFactor, LoginCode, GoogleBan, GoogleCreate, GoogleReread, AdminUpdate,
       AdminDelete, BanBegin, BanGoesOn, TaskFails, RegisterUser, LoginAdmin, CreateUserAdmin,
       TokenRefresh, SetVerified, SetFactor, Crash, Tick
  <2> QED BY <2>1 DEF WorkFits
<1>12. \A r \in Requests : Fits(r)'
  BY <1>3, <1>4, <1>5, <1>6, <1>7, <1>8, <1>9, <1>10
     DEF Next, vars, banVars, RegisterUser, LoginAdmin, CreateUserAdmin, TokenRefresh,
         SetVerified, SetFactor, InOneStep, Tick, Ban!Tick
<1> QED BY <1>11, <1>12 DEF WorkFits

LEMMA WorkInvariance == Spec => []WorkFits
<1>1. Init => WorkFits
  BY DEF Init, WorkFits
<1>2. IInv /\ BInv /\ [Next]_vars => BInv'
  BY BanStep, BInvStep DEF IInv
<1>3. Init => BInv
  BY DEF Init, Ban!Init, BInv, TablesFit, RecordedIssued
<1> QED BY <1>1, <1>2, <1>3, WorkStep, Invariance, PTL DEF Spec

\* Accounts, logins and tokens keep their types, the ban tables theirs, and a
\* login or administrator's call has at most one statement under way.
THEOREM TypeCorrect == HSpec => []TypeOK
<1>1. HInv /\ IInv /\ WorkFits /\ Ban!TypeOK => TypeOK
  BY DEF HInv, Earned, IInv, AccountsFit, TasksFit, WorkFits, TypeOK
<1>2. HInit => Init
  BY DEF HInit
<1>3. [HNext]_hvars => [Next]_vars
  BY DEF HNext, hvars
<1>4. HSpec => Spec
  BY <1>2, <1>3, PTL DEF HSpec, Spec
<1> QED BY <1>1, <1>4, BanTypesHold, WorkInvariance, Invariance, HInvariance, PTL
=============================================================================
