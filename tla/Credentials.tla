----------------------------- MODULE Credentials -----------------------------
(***************************************************************************)
(* Passwords, salts and reset tokens: how accounts are created and how     *)
(* ForgotPassword, FinishForgotPassword, ChangePassword and                *)
(* UpdateUserAdmin write credentials.  A bcrypt hash is the pair of the    *)
(* password and the salt that were hashed, and it is checked against the   *)
(* salt column.  One action is one statement with the code up to the next. *)
(*                                                                         *)
(* Left out: the rules for well-formed passwords and emails, the columns   *)
(* no credential depends on, and SetUpTwoFactorAuth, whose Save may put a  *)
(* whole row of before back (TwoFactor has it).                            *)
(*                                                                         *)
(* Bounds: the clock stops at Horizon; Salts and Tokens are the UUIDs.     *)
(***************************************************************************)
EXTENDS Integers

CONSTANTS Users, Emails, Passwords, Salts, Tokens,
          Requests,     \* requests the server handles at once
          None,         \* NULL, the empty string, no row, nothing asked
          Updates,      \* what UpdateUserAdmin is asked to write
          TokenLife,    \* one hour, in clock units
          Horizon       \* bound on the clock

ASSUME ConstantsAssumption ==
    /\ TokenLife \in Nat /\ Horizon \in Nat
    /\ Updates \subseteq [email : Emails \cup {None}, pw : Passwords \cup {None},
                          role : {"USER", "ADMIN", None}]
    /\ None \notin Emails \cup Passwords \cup Salts \cup Tokens \cup Users

VARIABLES now, 
          accounts,         \* table users: identity, role and credentials
          forgotPasswords,  \* table forgot_passwords, by token
          issuedTo,         \* whom a token was made for (rows get deleted)
          salts,            \* salts drawn so far
          pc, call          \* each request's next statement and values

vars == <<now, accounts, forgotPasswords, issuedTo, salts, pc, call>>

Roles    == {"USER", "ADMIN"}       \* any role but ADMIN counts as USER
Hashes   == [pw : Passwords, salt : Salts \cup {None}]
Accounts == [state : {"none", "live", "deleted"}, role : Roles,
             email : Emails \cup {None}, salt : Salts \cup {None}, hash : Hashes \cup {None}]
Resets   == [user : Users, expiry : Int, used : BOOLEAN]
Calls    == [user : Users, email : Emails \cup {None}, token : Tokens \cup {None},
             salt : Salts \cup {None}, pw : Passwords \cup {None},
             role : Roles \cup {None}]
PCs      == {"idle", "purge", "issue", "findToken", "reset", "store", "update", "delete"}

\* What a request asks for, besides the user: nothing.
Ask(u) == [user |-> u, email |-> None, token |-> None, salt |-> None, pw |-> None,
           role |-> None]

Live(u) == accounts[u].state = "live"

\* Mutant: the column has no unique index, as user_name has none.
EmailUnindexed(e) == FALSE

EmailTaken(e) == \E u \in Users : accounts[u].email = e       \* unique, deleted rows included
Matches(u, p) == accounts[u].hash = [pw |-> p, salt |-> accounts[u].salt]
Usable(t)     == /\ forgotPasswords[t] # None
                 /\ ~ forgotPasswords[t].used /\ forgotPasswords[t].expiry > now

Init == /\ now = 0
        /\ accounts = [u \in Users |-> [state |-> "none", role |-> "USER", email |-> None,
                                        salt |-> None, hash |-> None]]
        /\ forgotPasswords = [t \in Tokens |-> None]
        /\ issuedTo = [t \in Tokens |-> None]
        /\ salts = {}
        /\ pc = [r \in Requests |-> "idle"]
        /\ call = [r \in Requests |-> None]

Finish(r) == pc' = [pc EXCEPT ![r] = "idle"] /\ call' = [call EXCEPT ![r] = None]

Proceed(r, next, c) == pc' = [pc EXCEPT ![r] = next] /\ call' = [call EXCEPT ![r] = c]

\* A call of one statement begins and ends in a step of a free request.
InOneStep == (\E r \in Requests : pc[r] = "idle") /\ UNCHANGED <<pc, call>>

-----------------------------------------------------------------------------
(* Accounts come to be *)

Insert(u, e, role, salt, hash) ==
    /\ accounts[u].state = "none"
    /\ ~ EmailTaken(e)
    /\ accounts' = [accounts EXCEPT ![u] = [state |-> "live", role |-> role, email |-> e,
                                            salt |-> salt, hash |-> hash]]
    /\ InOneStep /\ UNCHANGED <<now, forgotPasswords, issuedTo>>

\* CreateUser: hash of password + salt.
CreateUser(u, e, p) ==
    \E s \in Salts \ salts :
        /\ Insert(u, e, "USER", s, [pw |-> p, salt |-> s])
        /\ salts' = salts \cup {s}

\* CreateUserAdmin: the role asked for, hash of the bare password, no salt.
CreateUserAdmin(u, e, p, role) ==
    /\ Insert(u, e, role, None, [pw |-> p, salt |-> None])
    /\ UNCHANGED salts

\* Mutant: the missing password is hashed all the same.
CreateGoogleUserHashed(u, e) ==
    /\ Insert(u, e, "USER", None, [pw |-> None, salt |-> None])
    /\ UNCHANGED salts

\* A first login with Google: no password at all.
CreateGoogleUser(u, e) ==
    /\ Insert(u, e, "USER", None, None)
    /\ UNCHANGED salts

-----------------------------------------------------------------------------
(* ForgotPassword: find the user, delete his usable tokens, insert one *)

ForgotRow(r, u, e) ==
    /\ pc[r] = "idle"
    /\ Live(u) /\ accounts[u].email = e
    /\ Proceed(r, "purge", Ask(u))
    /\ UNCHANGED <<now, accounts, forgotPasswords, issuedTo, salts>>

\* Mutant: the usable tokens of before stay.
ForgotPurgeNothing(r) ==
    /\ pc[r] = "purge"
    /\ Proceed(r, "issue", call[r])
    /\ UNCHANGED <<now, accounts, forgotPasswords, issuedTo, salts>>

ForgotPurge(r) ==
    /\ pc[r] = "purge"
    /\ forgotPasswords' = [t \in Tokens |->
          IF Usable(t) /\ forgotPasswords[t].user = call[r].user THEN None ELSE forgotPasswords[t]]
    /\ Proceed(r, "issue", call[r])
    /\ UNCHANGED <<now, accounts, issuedTo, salts>>

ForgotIssue(r) ==
    /\ pc[r] = "issue"
    /\ \E t \in Tokens :
          /\ issuedTo[t] = None
          /\ issuedTo' = [issuedTo EXCEPT ![t] = call[r].user]
          /\ forgotPasswords' = [forgotPasswords EXCEPT ![t] =
                [user |-> call[r].user, expiry |-> now + TokenLife, used |-> FALSE]]
    /\ Finish(r)
    /\ UNCHANGED <<now, accounts, salts>>

-----------------------------------------------------------------------------
(* FinishForgotPassword: find the user, find the token, then one transaction *)

FinishRow(r, u, e, t, p) ==
    /\ pc[r] = "idle"
    /\ Live(u) /\ accounts[u].email = e
    /\ Proceed(r, "findToken", [Ask(u) EXCEPT !.token = t, !.pw = p])
    /\ UNCHANGED <<now, accounts, forgotPasswords, issuedTo, salts>>

\* Mutants: a token is good for whoever brings it; good however often and late.
FinishTokenAnyone(r) ==
    /\ pc[r] = "findToken"
    /\ IF Usable(call[r].token) THEN Proceed(r, "reset", call[r]) ELSE Finish(r)
    /\ UNCHANGED <<now, accounts, forgotPasswords, issuedTo, salts>>

FinishTokenForever(r) ==
    /\ pc[r] = "findToken"
    /\ IF \E row \in {forgotPasswords[call[r].token]} : row # None /\ row.user = call[r].user
       THEN Proceed(r, "reset", call[r])
       ELSE Finish(r)
    /\ UNCHANGED <<now, accounts, forgotPasswords, issuedTo, salts>>

FinishToken(r) ==
    /\ pc[r] = "findToken"
    /\ IF Usable(call[r].token) /\ forgotPasswords[call[r].token].user = call[r].user
       THEN Proceed(r, "reset", call[r])
       ELSE Finish(r)
    /\ UNCHANGED <<now, accounts, forgotPasswords, issuedTo, salts>>

\* Mutant: the new hash is stored without its salt.
FinishResetOldSalt(r) ==
    /\ pc[r] = "reset" /\ forgotPasswords[call[r].token] # None
    /\ \E s \in Salts \ salts :
          /\ salts' = salts \cup {s}
          /\ accounts' = [accounts EXCEPT ![call[r].user].hash = [pw |-> call[r].pw, salt |-> s]]
    /\ forgotPasswords' = [forgotPasswords EXCEPT ![call[r].token].used = TRUE]
    /\ Finish(r)
    /\ UNCHANGED <<now, issuedTo>>

\* Neither update looks again: a row gone meanwhile is zero rows, not an error.
FinishReset(r) ==
    /\ pc[r] = "reset"
    /\ LET u == call[r].user
           t == call[r].token
       IN \E s \in Salts \ salts :
             /\ salts' = salts \cup {s}
             /\ accounts' = IF Live(u)
                            THEN [accounts EXCEPT ![u].salt = s,
                                                  ![u].hash = [pw |-> call[r].pw, salt |-> s]]
                            ELSE accounts
             /\ forgotPasswords' = IF forgotPasswords[t] # None
                                   THEN [forgotPasswords EXCEPT ![t].used = TRUE]
                                   ELSE forgotPasswords
    /\ Finish(r)
    /\ UNCHANGED <<now, issuedTo>>

-----------------------------------------------------------------------------
(* ChangePassword: compare and hash with the row read, then write by email *)

ChangeRow(r, u, old, new) ==
    /\ pc[r] = "idle"
    /\ Live(u) /\ Matches(u, old)
    /\ Proceed(r, "store", [Ask(u) EXCEPT !.email = accounts[u].email,
                                          !.salt = accounts[u].salt, !.pw = new])
    /\ UNCHANGED <<now, accounts, forgotPasswords, issuedTo, salts>>

ChangeStore(r) ==
    /\ pc[r] = "store"
    /\ accounts' = [u \in Users |->
          IF Live(u) /\ accounts[u].email = call[r].email
          THEN [accounts[u] EXCEPT !.hash = [pw |-> call[r].pw, salt |-> call[r].salt]]
          ELSE accounts[u]]
    /\ Finish(r)
    /\ UNCHANGED <<now, forgotPasswords, issuedTo, salts>>

-----------------------------------------------------------------------------
(* UpdateUserAdmin and SoftDeleteUserAdmin: IsAdmin, then the write by id   *)

\* Mutant: nobody asks whether the account is an administrator's.
AnybodyRow(r, u, next, c) ==
    /\ pc[r] = "idle"
    /\ Live(u)
    /\ Proceed(r, next, c)
    /\ UNCHANGED <<now, accounts, forgotPasswords, issuedTo, salts>>

AdminRow(r, u, next, c) ==
    /\ pc[r] = "idle"
    /\ Live(u) /\ accounts[u].role = "ADMIN"
    /\ Proceed(r, next, c)
    /\ UNCHANGED <<now, accounts, forgotPasswords, issuedTo, salts>>

AskUpdate(u, w) == [Ask(u) EXCEPT !.email = w.email, !.pw = w.pw, !.role = w.role]

UpdateRow(r, u) == \E w \in Updates : AdminRow(r, u, "update", AskUpdate(u, w))

DeleteRow(r, u) == AdminRow(r, u, "delete", Ask(u))

\* Empty fields are left as they are.  The new password is hashed bare, the
\* salt column stays.
AsAsked(a, c) ==
    [a EXCEPT !.role  = IF c.role = None THEN @ ELSE c.role,
              !.email = IF c.email = None THEN @ ELSE c.email,
              !.hash  = IF c.pw = None THEN @ ELSE [pw |-> c.pw, salt |-> None]]

\* All fields of one row, or none when the address is another's already.
UpdateStore(r) ==
    /\ pc[r] = "update"
    /\ LET u == call[r].user
           a == AsAsked(accounts[u], call[r])
       IN accounts' = IF Live(u) /\ (a.email = accounts[u].email \/ ~ EmailTaken(a.email))
                      THEN [accounts EXCEPT ![u] = a] ELSE accounts
    /\ Finish(r)
    /\ UNCHANGED <<now, forgotPasswords, issuedTo, salts>>

DeleteStore(r) ==
    /\ pc[r] = "delete"
    /\ accounts' = IF Live(call[r].user)
                   THEN [accounts EXCEPT ![call[r].user].state = "deleted"] ELSE accounts
    /\ Finish(r)
    /\ UNCHANGED <<now, forgotPasswords, issuedTo, salts>>

-----------------------------------------------------------------------------

\* A statement fails, or the process dies: the rest of the call is not run.
GivesUp(r) ==
    /\ pc[r] # "idle"
    /\ Finish(r)
    /\ UNCHANGED <<now, accounts, forgotPasswords, issuedTo, salts>>

Tick == /\ now < Horizon
        /\ now' = now + 1
        /\ UNCHANGED <<accounts, forgotPasswords, issuedTo, salts, pc, call>>

Advance(r) == \/ ForgotPurge(r) \/ ForgotIssue(r) \/ FinishToken(r) \/ FinishReset(r)
              \/ ChangeStore(r) \/ UpdateStore(r) \/ DeleteStore(r)

Create(u, e) == \/ \E p \in Passwords : CreateUser(u, e, p)
                \/ \E p \in Passwords, role \in Roles : CreateUserAdmin(u, e, p, role)
                \/ CreateGoogleUser(u, e)

Begin(r, u) == \/ \E e \in Emails : ForgotRow(r, u, e)
               \/ \E e \in Emails, t \in Tokens, p \in Passwords : FinishRow(r, u, e, t, p)
               \/ \E old, new \in Passwords : ChangeRow(r, u, old, new)
               \/ UpdateRow(r, u) \/ DeleteRow(r, u)

Next == \/ \E u \in Users, e \in Emails : Create(u, e)
        \/ \E r \in Requests, u \in Users : Begin(r, u)
        \/ \E r \in Requests : Advance(r) \/ GivesUp(r)
        \/ Tick

Spec == Init /\ [][Next]_vars

-----------------------------------------------------------------------------
(* Properties *)

TypeOK ==
    /\ now \in Nat
    /\ accounts \in [Users -> Accounts]
    /\ forgotPasswords \in [Tokens -> Resets \cup {None}]
    /\ issuedTo \in [Tokens -> Users \cup {None}]
    /\ salts \subseteq Salts
    /\ pc \in [Requests -> PCs]
    /\ call \in [Requests -> Calls \cup {None}]

\* No password opens the account: its hash was made with another salt than
\* the one that stands beside it, which CheckUserPassword appends.
LockedOut(u) == Live(u) /\ accounts[u].hash # None /\ \A p \in Passwords : ~ Matches(u, p)

\* A reset writes the account its token was made for and no other, although
\* the user, the token and the write are three statements and the user is
\* named by an email that may pass to another account in between.
ResetHitsTokenOwner ==
    [][\A r \in Requests, u \in Users :
          FinishReset(r) /\ accounts'[u] # accounts[u] => issuedTo[call[r].token] = u]_vars

\* A reset is only carried out with a token that is there and not used yet.
TokenGoodWhenSpentStep ==
    \A r \in Requests : FinishReset(r) =>
        /\ forgotPasswords[call[r].token] # None
        /\ ~ forgotPasswords[call[r].token].used

\* Asking again voids the token asked for before: a user has one usable token.
OneUsableToken ==
    \A s, t \in Tokens :
        Usable(s) /\ Usable(t) /\ forgotPasswords[s].user = forgotPasswords[t].user => s = t
=============================================================================
