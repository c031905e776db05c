------------------------------ MODULE Sessions ------------------------------
(***************************************************************************)
(* Logins and the tokens they give, next to the calls that change what a   *)
(* login asks about.  A login is a chain of reads, each of its own moment: *)
(* the row by email, CheckBanStatus (BanLifecycle's actions, on the same   *)
(* variables), the password, the second factor by email, its code.  The    *)
(* administrator's calls read the role of their target, then write.        *)
(*                                                                         *)
(* A JWT holds a user id, a role and its end, so access and refresh tokens *)
(* are alike; of a user's tokens of one role the last to end is kept.      *)
(* Whether a password or a code is right is Credentials' and TwoFactor's   *)
(* matter: here either answer may come.                                    *)
(*                                                                         *)
(* The process starts on tables it finds: any accounts, no bans.           *)
(*                                                                         *)
(* Bounds: the clock stops at Horizon, MaxCalls calls are begun, Users is  *)
(* the supply of user ids.                                                 *)
(***************************************************************************)
EXTENDS Integers

CONSTANTS Users, Requests, BanIds, None, Hours, HourLength, Word, Horizon,
          Emails,
          AccessLife, RefreshLife,  \* one day and seven, in clock units
          MaxCalls

\* Both are free text; what is neither of the two kinds of login, or not ADMIN,
\* is told apart from them and from nothing else.
AuthTypes == {"email", "google", "other"}
Roles     == {"USER", "ADMIN"}
Accounts == [email : Emails, authType : AuthTypes, role : Roles,
             verified : BOOLEAN, factor : BOOLEAN]
Changes  == [email : Emails \cup {None}, role : Roles \cup {None}]
Stages   == {"ban", "password", "factor", "code", "googleBan", "create", "reread",
              "update", "delete"}
Tasks    == [at : Stages, user : Users \cup {None}, email : Emails \cup {None},
             verified : BOOLEAN, change : Changes \cup {None}]

ASSUME TokenAssumption ==
    /\ AccessLife \in Nat \ {0} /\ RefreshLife \in Nat \ {0} /\ MaxCalls \in Nat
    /\ None \notin Users \cup Emails \cup Roles \cup Accounts \cup Tasks

VARIABLES now, users, banHistory, issued, pc, call, reply,  \* BanLifecycle's
          accounts,     \* table users, the columns only logins ask for
          task,         \* task[r]: the login or administrator's call of r
          validUntil,   \* the last end of a token, by user id and role
          calls         \* calls begun so far, renewals of tokens apart

banVars == <<now, users, banHistory, issued, pc, call, reply>>
vars    == <<banVars, accounts, task, validUntil, calls>>

Ban == INSTANCE BanLifecycle

ASSUME BanAssumption ==
    /\ Hours \subseteq Int
    /\ HourLength \in Nat \ {0} /\ Word \in Nat \ {0} /\ Horizon \in Nat \ {0}
    /\ None \notin BanIds \cup Ban!Records

\* An id not drawn yet can be named by nobody: it may count as a live row.
Exists(u)     == accounts[u] # None
Live(u)       == Exists(u) /\ users[u].live
Found(u, e)   == Live(u) /\ accounts[u].email = e
EmailTaken(e) == \E u \in Users : Exists(u) /\ accounts[u].email = e   \* deleted rows too

Init == /\ Ban!Init /\ \A u \in Users : users[u].live
        /\ accounts \in [Users -> Accounts \cup {None}]
        /\ \A u, v \in Users : Exists(u) /\ Exists(v) /\ accounts[u].email = accounts[v].email => u = v
        /\ task = [r \in Requests |-> None]
        /\ validUntil = [u \in Users \cup {None} |-> [role \in Roles |-> 0]]
        /\ calls = 0

Called  == calls < MaxCalls /\ calls' = calls + 1
Free(r) == pc[r] = "idle" /\ task[r] = None
InOneStep == (\E r \in Requests : Free(r)) /\ UNCHANGED task

Begin(r, at, u, e, verified, change) ==
    task' = [task EXCEPT ![r] = [at |-> at, user |-> u, email |-> e,
                                 verified |-> verified, change |-> change]]
GoOn(r, at) == task' = [task EXCEPT ![r].at = at]
End(r)      == task' = [task EXCEPT ![r] = None]

At(r, stages) == task[r] # None /\ task[r].at \in stages

-----------------------------------------------------------------------------
(* Tokens *)

Later(a, b) == IF a > b THEN a ELSE b

\* GenerateJWT.
Issue(u, role, life) ==
    validUntil' = [validUntil EXCEPT ![u][role] = Later(@, now + life)]

\* Mutant: the claims' role is not copied.
TokenRefreshAdmin(u, role) ==
    /\ validUntil[u][role] > now
    /\ Issue(u, "ADMIN", AccessLife)
    /\ InOneStep /\ UNCHANGED <<banVars, accounts, calls>>

\* Any token not past its end is renewed; nobody is asked about the account.
TokenRefresh(u, role) ==
    /\ validUntil[u][role] > now
    /\ Issue(u, role, AccessLife)
    /\ InOneStep /\ UNCHANGED <<banVars, accounts, calls>>

-----------------------------------------------------------------------------
(* LoginUser *)

LoginRow(r, u, e) ==
    /\ Called /\ Free(r)
    /\ Found(u, e) /\ accounts[u].authType = "email"
    /\ Begin(r, "ban", u, e, accounts[u].verified, None)
    /\ UNCHANGED <<banVars, accounts, validUntil>>

\* The statements of CheckBanStatus(task[r].user).
BanCheck(r) == Ban!CheckRow(r, task[r].user) \/ Ban!CheckRecord(r) \/ Ban!CheckClear(r)

\* Mutant: the login goes on before the check has answered.
LoginBanUnawaited(r) ==
    /\ At(r, {"ban"}) /\ BanCheck(r)
    /\ IF reply'[r] \in {"none", "free"} THEN GoOn(r, "password") ELSE End(r)
    /\ UNCHANGED <<accounts, validUntil, calls>>

LoginBan(r) ==
    /\ At(r, {"ban"}) /\ BanCheck(r)
    /\ \/ pc'[r] # "idle" /\ UNCHANGED task
       \/ pc'[r] = "idle" /\ reply'[r] = "free" /\ GoOn(r, "password")
       \/ pc'[r] = "idle" /\ reply'[r] # "free" /\ End(r)
    /\ UNCHANGED <<accounts, validUntil, calls>>

\* Mutant: nobody looks at is_verified.
LoginPasswordOnly(r) ==
    /\ At(r, {"password"})
    /\ (Live(task[r].user) /\ GoOn(r, "factor")) \/ End(r)
    /\ UNCHANGED <<banVars, accounts, validUntil, calls>>

\* CheckUserPassword reads the row again; is_verified is that of the first read.
LoginPassword(r) ==
    /\ At(r, {"password"})
    /\ \/ Live(task[r].user) /\ task[r].verified /\ GoOn(r, "factor")
       \/ End(r)
    /\ UNCHANGED <<banVars, accounts, validUntil, calls>>

\* Mutant: whether the factor is on does not matter.
LoginFactorOptional(r) ==
    /\ At(r, {"factor"})
    /\ \/ GoOn(r, "code") /\ UNCHANGED validUntil
       \/ Issue(task[r].user, "USER", RefreshLife) /\ End(r)
    /\ UNCHANGED <<banVars, accounts, calls>>

\* GetTwoFactorAuthStatus asks by the address that was typed.
FactorKnown(v, e) == Found(v, e) /\ accounts[v].authType = "email"

LoginFactor(r) ==
    /\ At(r, {"factor"})
    /\ \/ /\ \E v \in Users : FactorKnown(v, task[r].email) /\ accounts[v].factor
          /\ GoOn(r, "code") /\ UNCHANGED validUntil
       \/ /\ \E v \in Users : FactorKnown(v, task[r].email) /\ ~ accounts[v].factor
          /\ Issue(task[r].user, "USER", RefreshLife) /\ End(r)
       \/ /\ ~ \E v \in Users : FactorKnown(v, task[r].email)
          /\ End(r) /\ UNCHANGED validUntil
    /\ UNCHANGED <<banVars, accounts, calls>>

\* A row that is gone counts as an empty one, whose secret has codes too.
LoginCode(r) ==
    /\ At(r, {"code"})
    /\ Issue(task[r].user, "USER", RefreshLife) \/ UNCHANGED validUntil
    /\ End(r)
    /\ UNCHANGED <<banVars, accounts, calls>>

-----------------------------------------------------------------------------
(* LoginWithGoogle: nobody asks for verification or a second factor *)

GoogleRow(r, u, e) ==
    /\ Called /\ Free(r)
    /\ Found(u, e) /\ accounts[u].authType = "google"
    /\ Begin(r, "googleBan", u, e, FALSE, None)
    /\ UNCHANGED <<banVars, accounts, validUntil>>

GoogleNobody(r, e) ==
    /\ Called /\ Free(r)
    /\ ~ \E u \in Users : Found(u, e)
    /\ Begin(r, "create", None, e, FALSE, None)
    /\ UNCHANGED <<banVars, accounts, validUntil>>

GoogleBan(r) ==
    /\ At(r, {"googleBan"}) /\ BanCheck(r)
    /\ \/ pc'[r] # "idle" /\ UNCHANGED <<task, validUntil>>
       \/ pc'[r] = "idle" /\ reply'[r] = "free"
          /\ Issue(task[r].user, "USER", RefreshLife) /\ End(r)
       \/ pc'[r] = "idle" /\ reply'[r] # "free"
          /\ UNCHANGED validUntil /\ End(r)
    /\ UNCHANGED <<accounts, calls>>

Insert(u, e, authType, role) ==
    /\ ~ Exists(u) /\ ~ EmailTaken(e)
    /\ accounts' = [accounts EXCEPT ![u] =
          [email |-> e, authType |-> authType, role |-> role, verified |-> FALSE, factor |-> FALSE]]

\* The address of a deleted account is refused: the column is unique.
GoogleCreate(r) ==
    /\ At(r, {"create"})
    /\ \/ \E u \in Users : Insert(u, task[r].email, "google", "USER") /\ GoOn(r, "reread")
       \/ EmailTaken(task[r].email) /\ End(r) /\ UNCHANGED accounts
    /\ UNCHANGED <<banVars, validUntil, calls>>

\* The new row is looked up by email; were it not found, the empty row's id
\* would be signed: None.
GoogleReread(r) ==
    /\ At(r, {"reread"})
    /\ \/ \E u \in Users : Found(u, task[r].email) /\ Issue(u, "USER", RefreshLife)
       \/ (~ \E u \in Users : Found(u, task[r].email)) /\ Issue(None, "USER", RefreshLife)
    /\ End(r)
    /\ UNCHANGED <<banVars, accounts, calls>>

-----------------------------------------------------------------------------
(* LoginAdmin: one read, and nobody asks for a ban or a second factor *)

LoginAdmin(u, e) ==
    /\ Called /\ Found(u, e) /\ accounts[u].role = "ADMIN" /\ accounts[u].verified
    /\ Issue(u, "ADMIN", AccessLife)
    /\ InOneStep /\ UNCHANGED <<banVars, accounts>>

-----------------------------------------------------------------------------
(* What changes accounts *)

RegisterUser(u, e) ==
    /\ Called /\ Insert(u, e, "email", "USER")
    /\ InOneStep /\ UNCHANGED <<banVars, validUntil>>

\* The role and the kind of login are the request's.
CreateUserAdmin(u, e, authType, role) ==
    /\ Called /\ Insert(u, e, authType, role)
    /\ InOneStep /\ UNCHANGED <<banVars, validUntil>>

\* EmailVerification's and TwoFactor's writers, by the columns they are about.
\* SetUpTwoFactorAuth, which may write a whole row of before back, is left out
\* here: TwoFactor, EmailVerification and Profiles have it.
SetVerified(u) ==
    /\ Called /\ Live(u)
    /\ accounts' = [accounts EXCEPT ![u].verified = ~ @]
    /\ InOneStep /\ UNCHANGED <<banVars, validUntil>>

SetFactor(u) ==
    /\ Called /\ Live(u)
    /\ accounts' = [accounts EXCEPT ![u].factor = ~ @]
    /\ InOneStep /\ UNCHANGED <<banVars, validUntil>>

\* Mutant: the role is not part of the question.
IsAnybody(u) == Live(u)

\* UpdateUserAdmin and SoftDeleteUserAdmin ask IsAdmin of their target; an
\* empty field of the request changes nothing.
IsAdmin(u) == Live(u) /\ accounts[u].role = "ADMIN"

AdminAsk(r, u) ==
    /\ Called /\ Free(r) /\ IsAdmin(u)
    /\ \/ \E c \in Changes : Begin(r, "update", u, None, FALSE, c)
       \/ Begin(r, "delete", u, None, FALSE, None)
    /\ UNCHANGED <<banVars, accounts, validUntil>>

\* Neither write looks at the role again.
AdminUpdate(r) ==
    /\ At(r, {"update"})
    /\ LET u == task[r].user
           c == task[r].change
           taken == \E v \in Users \ {u} : Exists(v) /\ accounts[v].email = c.email
       IN accounts' = IF Live(u) /\ ~ taken
                      THEN [accounts EXCEPT
                              ![u].email = IF c.email = None THEN @ ELSE c.email,
                              ![u].role  = IF c.role = None THEN @ ELSE c.role]
                      ELSE accounts
    /\ End(r)
    /\ UNCHANGED <<banVars, validUntil, calls>>

AdminDelete(r) ==
    /\ At(r, {"delete"})
    /\ Ban!SoftDelete(task[r].user) \/ (~ Live(task[r].user) /\ UNCHANGED banVars)
    /\ End(r)
    /\ UNCHANGED <<accounts, validUntil, calls>>

-----------------------------------------------------------------------------
(* Bans, failures and time.  A CheckBanStatus of its own is a login's check  *)
(* with nothing after it.                                                    *)

BanBegin(r) ==
    /\ Called /\ Free(r)
    /\ \E u \in Users : Exists(u) /\ ((\E h \in Hours : Ban!BanRow(r, u, h)) \/ Ban!Unban(r, u))
    /\ UNCHANGED <<accounts, task, validUntil>>

BanGoesOn(r) ==
    /\ task[r] = None
    /\ Ban!BanRecord(r) \/ Ban!StatementFails(r)
    /\ UNCHANGED <<accounts, task, validUntil, calls>>

\* A statement fails and the handler gives up.
TaskFails(r) ==
    /\ task[r] # None /\ End(r)
    /\ Ban!StatementFails(r) \/ (pc[r] = "idle" /\ UNCHANGED banVars)
    /\ UNCHANGED <<accounts, validUntil, calls>>

Crash ==
    /\ \E r \in Requests : ~ Free(r)
    /\ Ban!Crash \/ ((\A r \in Requests : pc[r] = "idle") /\ UNCHANGED banVars)
    /\ task' = [r \in Requests |-> None]
    /\ UNCHANGED <<accounts, validUntil, calls>>

\* A token past its end is good for nothing and forgotten.
Tick ==
    /\ Ban!Tick
    /\ validUntil' = [u \in Users \cup {None} |-> [role \in Roles |->
                        IF validUntil[u][role] > now' THEN validUntil[u][role] ELSE 0]]
    /\ UNCHANGED <<accounts, task, calls>>

Advance(r) == \/ LoginBan(r) \/ LoginPassword(r) \/ LoginFactor(r) \/ LoginCode(r)
              \/ GoogleBan(r) \/ GoogleCreate(r) \/ GoogleReread(r)
              \/ AdminUpdate(r) \/ AdminDelete(r)

Next ==
    \/ \E r \in Requests, u \in Users :
          \/ \E e \in Emails : LoginRow(r, u, e) \/ GoogleRow(r, u, e)
          \/ AdminAsk(r, u)
    \/ \E r \in Requests, e \in Emails : GoogleNobody(r, e)
    \/ \E r \in Requests : Advance(r) \/ BanBegin(r) \/ BanGoesOn(r) \/ TaskFails(r)
    \/ \E u \in Users, e \in Emails :
          \/ RegisterUser(u, e) \/ LoginAdmin(u, e)
          \/ \E authType \in AuthTypes, role \in Roles : CreateUserAdmin(u, e, authType, role)
    \/ \E u \in Users, role \in Roles : TokenRefresh(u, role)
    \/ \E u \in Users : SetVerified(u) \/ SetFactor(u)
    \/ Crash
    \/ Tick

Spec == Init /\ [][Next]_vars

-----------------------------------------------------------------------------
(* Properties *)

TypeOK ==
    /\ Ban!TypeOK
    /\ accounts \in [Users -> Accounts \cup {None}]
    /\ task \in [Requests -> Tasks \cup {None}]
    /\ validUntil \in [Users \cup {None} -> [Roles -> Nat]]
    /\ calls \in Nat
    /\ \A r \in Requests : task[r] # None /\ pc[r] # "idle" => At(r, {"ban", "googleBan"})

\* Between CreateGoogleUser and the look-up by email that follows it, nothing
\* takes the new account away from its address: LoginWithGoogle signs the id
\* it made, never the empty id of a row not found, although any call may run
\* in between.
NewGoogleAccountFound ==
    \A r \in Requests : At(r, {"reread"}) =>
        \E u \in Users : Found(u, task[r].email) /\ accounts[u].authType = "google" /\ accounts[u].role = "USER"
=============================================================================
