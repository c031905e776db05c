-------------------------- MODULE CredentialsProofs --------------------------
(***************************************************************************)
(* What Credentials guarantees for any users, addresses, passwords, salts, *)
(* tokens and requests.  The invariant ties a reset token to one user all  *)
(* the way: the row made for it, the request that has found that row, and  *)
(* the account that request is about to write.                             *)
(***************************************************************************)
EXTENDS CredentialsHistory, TLAPS

TokenRowsNameOwner == \A t \in Tokens : forgotPasswords[t] # None => issuedTo[t] = forgotPasswords[t].user

\* Whoever has an account has an address.
HasEmail == \A u \in Users : Live(u) => accounts[u].email \in Emails

CallFits(r) ==
    /\ pc[r] # "idle" => call[r] \in Calls
    /\ pc[r] \in {"findToken", "reset", "store"} => call[r].pw \in Passwords
    /\ pc[r] \in {"findToken", "reset"} => call[r].token \in Tokens

HoldsOwnToken(r) == pc[r] = "reset" => issuedTo[call[r].token] = call[r].user

IInv == TypeOK /\ TokenRowsNameOwner /\ HasEmail
        /\ \A r \in Requests : CallFits(r) /\ HoldsOwnToken(r)

\* A token once made stays its user's.
IssuedStays == \A t \in Tokens : issuedTo[t] # None => issuedTo'[t] = issuedTo[t]

-----------------------------------------------------------------------------
(* Requests *)

Moves == /\ pc' \in [Requests -> PCs] /\ call' \in [Requests -> Calls \cup {None}]
         /\ \A s \in Requests : CallFits(s)' /\ HoldsOwnToken(s)'

LEMMA OthersKeep ==
    ASSUME IInv, IssuedStays, NEW r \in Requests, pc'[r] = pc[r], call'[r] = call[r]
    PROVE  CallFits(r)' /\ HoldsOwnToken(r)'
BY ConstantsAssumption DEF IInv, IssuedStays, CallFits, HoldsOwnToken, Calls

LEMMA FinishMoves ==
    ASSUME IInv, IssuedStays, NEW r \in Requests, Finish(r)
    PROVE  Moves
<1>1. pc' \in [Requests -> PCs] /\ call' \in [Requests -> Calls \cup {None}]
  BY DEF Finish, IInv, TypeOK, PCs
<1>2. pc'[r] = "idle" /\ \A s \in Requests : s # r => pc'[s] = pc[s] /\ call'[s] = call[s]
  BY DEF Finish, IInv, TypeOK
<1>3. CallFits(r)' /\ HoldsOwnToken(r)'
  BY <1>2 DEF CallFits, HoldsOwnToken
<1>4. ASSUME NEW s \in Requests PROVE CallFits(s)' /\ HoldsOwnToken(s)'
  BY <1>2, <1>3, OthersKeep
<1> QED BY <1>1, <1>4 DEF Moves

LEMMA ProceedMoves ==
    ASSUME IInv, IssuedStays, NEW r \in Requests, NEW next \in PCs, NEW c \in Calls,
           Proceed(r, next, c),
           next \in {"findToken", "reset", "store"} => c.pw \in Passwords,
           next \in {"findToken", "reset"} => c.token \in Tokens,
           next = "reset" => issuedTo'[c.token] = c.user
    PROVE  Moves
<1>1. pc' \in [Requests -> PCs] /\ call' \in [Requests -> Calls \cup {None}]
  BY DEF Proceed, IInv, TypeOK
<1>2. /\ pc'[r] = next /\ call'[r] = c
      /\ \A s \in Requests : s # r => pc'[s] = pc[s] /\ call'[s] = call[s]
  BY DEF Proceed, IInv, TypeOK
<1>3. CallFits(r)' /\ HoldsOwnToken(r)'
  BY <1>2 DEF CallFits, HoldsOwnToken
<1>4. ASSUME NEW s \in Requests PROVE CallFits(s)' /\ HoldsOwnToken(s)'
  BY <1>2, <1>3, OthersKeep
<1> QED BY <1>1, <1>4 DEF Moves

LEMMA IdleMoves == ASSUME IInv, IssuedStays, UNCHANGED <<pc, call>> PROVE Moves
BY OthersKeep DEF IInv, TypeOK, Moves

-----------------------------------------------------------------------------
(* Accounts *)

AccountsKept == accounts' \in [Users -> Accounts] /\ HasEmail'

TokensKept == /\ forgotPasswords' \in [Tokens -> Resets \cup {None}]
              /\ issuedTo' \in [Tokens -> Users \cup {None}]
              /\ TokenRowsNameOwner'

LEMMA Together ==
    ASSUME now' \in Nat, salts' \subseteq Salts, AccountsKept, TokensKept, Moves
    PROVE  IInv'
BY DEF IInv, TypeOK, AccountsKept, TokensKept, Moves

LEMMA SameAccounts == ASSUME IInv, UNCHANGED accounts PROVE AccountsKept
BY DEF IInv, TypeOK, AccountsKept, HasEmail, Live

LEMMA SameTokens == ASSUME IInv, UNCHANGED <<forgotPasswords, issuedTo>> PROVE TokensKept /\ IssuedStays
BY DEF IInv, TypeOK, TokensKept, TokenRowsNameOwner, IssuedStays

LEMMA AccountWritten ==
    ASSUME IInv, NEW u \in Users, NEW a \in Accounts, a.state = "live" => a.email \in Emails,
           accounts' = [accounts EXCEPT ![u] = a]
    PROVE  AccountsKept
BY DEF IInv, TypeOK, AccountsKept, HasEmail, Live

\* A call of one statement that writes an account.
LEMMA OneStepKeeps ==
    ASSUME IInv, AccountsKept, salts' \subseteq Salts, InOneStep,
           UNCHANGED <<now, forgotPasswords, issuedTo>>
    PROVE  IInv'
BY SameTokens, IdleMoves, Together DEF IInv, TypeOK, InOneStep

LEMMA InsertKeeps ==
    ASSUME IInv, NEW u \in Users, NEW e \in Emails, NEW role \in Roles,
           NEW s \in Salts \cup {None}, NEW h \in Hashes \cup {None},
           Insert(u, e, role, s, h), salts' \subseteq Salts
    PROVE  IInv'
<1>1. [state |-> "live", role |-> role, email |-> e, salt |-> s, hash |-> h] \in Accounts
  BY DEF Accounts
<1>2. AccountsKept
  BY <1>1, AccountWritten DEF Insert
<1> QED BY <1>2, OneStepKeeps DEF Insert

LEMMA CreateKeeps ==
    ASSUME IInv, NEW u \in Users, NEW e \in Emails, Create(u, e)
    PROVE  IInv'
<1>1. ASSUME NEW p \in Passwords, CreateUser(u, e, p) PROVE IInv'
  <2>1. PICK s \in Salts \ salts : /\ Insert(u, e, "USER", s, [pw |-> p, salt |-> s])
                                   /\ salts' = salts \cup {s}
    BY <1>1 DEF CreateUser
  <2>2. [pw |-> p, salt |-> s] \in Hashes /\ salts' \subseteq Salts
    BY <2>1 DEF Hashes, IInv, TypeOK
  <2> QED BY <2>1, <2>2, InsertKeeps DEF Roles
<1>2. ASSUME NEW p \in Passwords, NEW role \in Roles, CreateUserAdmin(u, e, p, role) PROVE IInv'
  <2>1. [pw |-> p, salt |-> None] \in Hashes
    BY DEF Hashes
  <2> QED BY <1>2, <2>1, InsertKeeps DEF CreateUserAdmin, IInv, TypeOK
<1>3. CASE CreateGoogleUser(u, e)
  BY <1>3, InsertKeeps DEF CreateGoogleUser, IInv, TypeOK, Roles
<1> QED BY <1>1, <1>2, <1>3 DEF Create

-----------------------------------------------------------------------------
(* The calls of several statements *)

LEMMA BeginKeeps ==
    ASSUME IInv, NEW r \in Requests, NEW u \in Users, Begin(r, u)
    PROVE  IInv'
<1> SUFFICES Moves /\ UNCHANGED <<now, accounts, forgotPasswords, issuedTo, salts>>
  BY SameAccounts, SameTokens, Together DEF IInv, TypeOK
<1>1. IssuedStays /\ UNCHANGED <<now, accounts, forgotPasswords, issuedTo, salts>>
  BY SameTokens DEF Begin, ForgotRow, FinishRow, ChangeRow, UpdateRow, DeleteRow, AdminRow
<1>2. Ask(u) \in Calls
  BY DEF Ask, Calls
<1>3. ASSUME NEW e \in Emails, ForgotRow(r, u, e) PROVE Moves
  BY <1>1, <1>2, <1>3, ProceedMoves DEF ForgotRow, PCs
<1>4. ASSUME NEW e \in Emails, NEW t \in Tokens, NEW p \in Passwords, FinishRow(r, u, e, t, p)
      PROVE  Moves
  <2> DEFINE c == [Ask(u) EXCEPT !.token = t, !.pw = p]
  <2>1. c \in Calls /\ c.pw = p /\ c.token = t
    BY <1>2 DEF Calls, Ask
  <2>2. Proceed(r, "findToken", c)
    BY <1>4 DEF FinishRow
  <2> HIDE DEF c
  <2> QED BY <1>1, <2>1, <2>2, ProceedMoves DEF PCs
<1>5. ASSUME NEW old \in Passwords, NEW new \in Passwords, ChangeRow(r, u, old, new)
      PROVE  Moves
  <2> DEFINE c == [Ask(u) EXCEPT !.email = accounts[u].email, !.salt = accounts[u].salt, !.pw = new]
  <2>1. accounts[u].email \in Emails /\ accounts[u].salt \in Salts \cup {None}
    BY <1>5 DEF ChangeRow, IInv, TypeOK, HasEmail, Accounts
  <2>2. c \in Calls /\ c.pw = new
    BY <1>2, <2>1 DEF Calls, Ask
  <2>3. Proceed(r, "store", c)
    BY <1>5 DEF ChangeRow
  <2> HIDE DEF c
  <2> QED BY <1>1, <2>2, <2>3, ProceedMoves DEF PCs
<1>6. ASSUME NEW w \in Updates, AdminRow(r, u, "update", AskUpdate(u, w)) PROVE Moves
  <2>1. /\ w.email \in Emails \cup {None} /\ w.pw \in Passwords \cup {None}
        /\ w.role \in Roles \cup {None}
    BY ConstantsAssumption DEF Roles
  <2>2. AskUpdate(u, w) \in Calls
    BY <1>2, <2>1 DEF Calls, Ask, AskUpdate
  <2> QED BY <1>1, <1>6, <2>2, ProceedMoves DEF AdminRow, PCs
<1>7. CASE DeleteRow(r, u)
  BY <1>1, <1>2, <1>7, ProceedMoves DEF DeleteRow, AdminRow, PCs
<1>8. CASE UpdateRow(r, u)
  BY <1>1, <1>6, <1>8 DEF UpdateRow
<1> QED BY <1>1, <1>3, <1>4, <1>5, <1>7, <1>8 DEF Begin

LEMMA ForgotKeeps ==
    ASSUME IInv, NEW r \in Requests, ForgotPurge(r) \/ ForgotIssue(r)
    PROVE  IInv'
<1>1. call[r] \in Calls /\ call[r].user \in Users
  BY DEF ForgotPurge, ForgotIssue, IInv, CallFits, Calls
<1>2. AccountsKept /\ now' \in Nat /\ salts' \subseteq Salts
  BY SameAccounts DEF ForgotPurge, ForgotIssue, IInv, TypeOK
<1>3. CASE ForgotPurge(r)
  <2>1. TokensKept /\ IssuedStays
    BY <1>3 DEF ForgotPurge, IInv, TypeOK, TokensKept, TokenRowsNameOwner, IssuedStays
  <2>2. Moves
    BY <1>1, <1>3, <2>1, ProceedMoves DEF ForgotPurge, PCs
  <2> QED BY <1>2, <2>1, <2>2, Together
<1>4. CASE ForgotIssue(r)
  <2>1. PICK t \in Tokens :
          /\ issuedTo[t] = None
          /\ issuedTo' = [issuedTo EXCEPT ![t] = call[r].user]
          /\ forgotPasswords' = [forgotPasswords EXCEPT ![t] =
                [user |-> call[r].user, expiry |-> now + TokenLife, used |-> FALSE]]
    BY <1>4 DEF ForgotIssue
  <2>2. [user |-> call[r].user, expiry |-> now + TokenLife, used |-> FALSE] \in Resets
    BY <1>1, ConstantsAssumption DEF IInv, TypeOK, Resets
  <2>3. TokensKept /\ IssuedStays
    BY <1>1, <2>1, <2>2 DEF IInv, TypeOK, TokensKept, TokenRowsNameOwner, IssuedStays
  <2>4. Moves
    BY <1>4, <2>3, FinishMoves DEF ForgotIssue
  <2> QED BY <1>2, <2>3, <2>4, Together
<1> QED BY <1>3, <1>4

\* The look-up binds the token to the user the request was begun for.
LEMMA FinishTokenKeeps ==
    ASSUME IInv, NEW r \in Requests, FinishToken(r)
    PROVE  IInv'
<1>1. /\ call[r] \in Calls /\ call[r].pw \in Passwords /\ call[r].token \in Tokens
      /\ IssuedStays /\ UNCHANGED <<now, accounts, forgotPasswords, issuedTo, salts>>
  BY SameTokens DEF FinishToken, IInv, CallFits
<1>2. Moves
  <2>1. CASE Finish(r)
    BY <1>1, <2>1, FinishMoves
  <2>2. CASE /\ Usable(call[r].token) /\ forgotPasswords[call[r].token].user = call[r].user
             /\ Proceed(r, "reset", call[r])
    <3>1. issuedTo'[call[r].token] = call[r].user
      BY <1>1, <2>2 DEF Usable, IInv, TokenRowsNameOwner
    <3> QED BY <1>1, <2>2, <3>1, ProceedMoves DEF PCs
  <2> QED BY <2>1, <2>2 DEF FinishToken
<1> QED BY <1>1, <1>2, SameAccounts, SameTokens, Together DEF IInv, TypeOK

LEMMA FinishResetKeeps ==
    ASSUME IInv, NEW r \in Requests, FinishReset(r)
    PROVE  IInv'
<1> DEFINE u == call[r].user
           t == call[r].token
<1>1. u \in Users /\ t \in Tokens /\ call[r].pw \in Passwords /\ issuedTo' = issuedTo /\ now' \in Nat
  BY DEF FinishReset, IInv, TypeOK, CallFits, Calls
<1>2. PICK s \in Salts :
          /\ salts' = salts \cup {s}
          /\ accounts' = accounts \/ (Live(u) /\ accounts' =
                [accounts EXCEPT ![u].salt = s, ![u].hash = [pw |-> call[r].pw, salt |-> s]])
  BY DEF FinishReset
<1>3. AccountsKept
  <2>1. CASE accounts' = accounts
    BY <2>1, SameAccounts
  <2>2. CASE Live(u) /\ accounts' =
                [accounts EXCEPT ![u].salt = s, ![u].hash = [pw |-> call[r].pw, salt |-> s]]
    <3> DEFINE a == [accounts[u] EXCEPT !.salt = s, !.hash = [pw |-> call[r].pw, salt |-> s]]
    <3>1. accounts[u] \in Accounts /\ accounts[u].email \in Emails
      BY <1>1, <2>2 DEF IInv, TypeOK, HasEmail
    <3>2. [pw |-> call[r].pw, salt |-> s] \in Hashes
      BY <1>1 DEF Hashes
    <3>3. a \in Accounts /\ a.email = accounts[u].email
      BY <3>1, <3>2 DEF Accounts
    <3>4. accounts' = [accounts EXCEPT ![u] = a]
      BY <1>1, <2>2 DEF IInv, TypeOK
    <3> HIDE DEF a
    <3> QED BY <1>1, <3>1, <3>3, <3>4, AccountWritten
  <2> QED BY <1>2, <2>1, <2>2
<1>4. TokensKept /\ IssuedStays
  <2>1. CASE forgotPasswords' = forgotPasswords
    BY <1>1, <2>1, SameTokens
  <2>2. CASE /\ forgotPasswords[t] # None
             /\ forgotPasswords' = [forgotPasswords EXCEPT ![t].used = TRUE]
    <3>1. /\ [forgotPasswords[t] EXCEPT !.used = TRUE] \in Resets
          /\ [forgotPasswords[t] EXCEPT !.used = TRUE].user = forgotPasswords[t].user
      BY <1>1, <2>2 DEF IInv, TypeOK, Resets
    <3> QED BY <1>1, <2>2, <3>1 DEF IInv, TypeOK, TokensKept, TokenRowsNameOwner, IssuedStays
  <2> QED BY <2>1, <2>2 DEF FinishReset
<1>5. Moves /\ salts' \subseteq Salts
  BY <1>2, <1>4, FinishMoves DEF FinishReset, IInv, TypeOK
<1> QED BY <1>1, <1>3, <1>4, <1>5, Together

LEMMA ChangeStoreKeeps ==
    ASSUME IInv, NEW r \in Requests, ChangeStore(r)
    PROVE  IInv'
<1>1. call[r] \in Calls /\ call[r].pw \in Passwords
  BY DEF ChangeStore, IInv, CallFits
<1> DEFINE h == [pw |-> call[r].pw, salt |-> call[r].salt]
<1>2. h \in Hashes
  BY <1>1 DEF Hashes, Calls
<1> HIDE DEF h
<1>3. \A u \in Users : /\ [accounts[u] EXCEPT !.hash = h] \in Accounts
                       /\ [accounts[u] EXCEPT !.hash = h].email = accounts[u].email
                       /\ [accounts[u] EXCEPT !.hash = h].state = accounts[u].state
  BY <1>2 DEF IInv, TypeOK, Accounts
<1>4. accounts' = [u \in Users |-> IF Live(u) /\ accounts[u].email = call[r].email
                                   THEN [accounts[u] EXCEPT !.hash = h] ELSE accounts[u]]
  BY DEF ChangeStore, h
<1>5. AccountsKept
  BY <1>3, <1>4 DEF IInv, TypeOK, AccountsKept, HasEmail, Live
<1>6. Moves /\ TokensKept
  BY SameTokens, FinishMoves DEF ChangeStore
<1> QED BY <1>5, <1>6, Together DEF ChangeStore, IInv, TypeOK

\* What UpdateUserAdmin may be asked to write is written into one row.
LEMMA AsAskedType ==
    ASSUME IInv, NEW r \in Requests, NEW u \in Users, pc[r] = "update"
    PROVE  /\ AsAsked(accounts[u], call[r]) \in Accounts
           /\ AsAsked(accounts[u], call[r]).state = accounts[u].state
           /\ AsAsked(accounts[u], call[r]).salt = accounts[u].salt
           /\ AsAsked(accounts[u], call[r]).hash =
                 IF call[r].pw = None THEN accounts[u].hash ELSE [pw |-> call[r].pw, salt |-> None]
           /\ AsAsked(accounts[u], call[r]).email \in {accounts[u].email} \cup Emails
<1>1. call[r] \in Calls /\ accounts[u] \in Accounts
  BY DEF IInv, CallFits, TypeOK
<1>2. call[r].pw # None => [pw |-> call[r].pw, salt |-> None] \in Hashes
  BY <1>1 DEF Calls, Hashes
<1> QED BY <1>1, <1>2 DEF AsAsked, Accounts, Calls

LEMMA UpdateStoreKeeps ==
    ASSUME IInv, NEW r \in Requests, UpdateStore(r)
    PROVE  IInv'
<1> DEFINE u == call[r].user
           a == AsAsked(accounts[u], call[r])
<1>1. u \in Users
  BY DEF UpdateStore, IInv, CallFits, Calls
<1>2. accounts' = accounts \/ (Live(u) /\ accounts' = [accounts EXCEPT ![u] = a])
  BY DEF UpdateStore
<1>3. /\ a \in Accounts /\ a.email \in {accounts[u].email} \cup Emails
  BY <1>1, AsAskedType DEF UpdateStore
<1>4. Live(u) => accounts[u].email \in Emails
  BY <1>1 DEF IInv, HasEmail
<1> HIDE DEF u, a
<1>5. AccountsKept
  BY <1>1, <1>2, <1>3, <1>4, SameAccounts, AccountWritten
<1>6. Moves /\ TokensKept
  BY SameTokens, FinishMoves DEF UpdateStore
<1> QED BY <1>5, <1>6, Together DEF UpdateStore, IInv, TypeOK

LEMMA DeleteStoreKeeps ==
    ASSUME IInv, NEW r \in Requests, DeleteStore(r)
    PROVE  IInv'
<1> DEFINE u == call[r].user
           a == [accounts[u] EXCEPT !.state = "deleted"]
<1>1. u \in Users /\ accounts[u] \in Accounts
  BY DEF DeleteStore, IInv, CallFits, Calls, TypeOK
<1>2. accounts' = accounts \/ accounts' = [accounts EXCEPT ![u] = a]
  BY DEF DeleteStore
<1>3. a \in Accounts /\ a.state = "deleted"
  BY <1>1 DEF Accounts
<1> HIDE DEF u, a
<1>4. AccountsKept
  BY <1>1, <1>2, <1>3, SameAccounts, AccountWritten
<1>5. Moves /\ TokensKept
  BY SameTokens, FinishMoves DEF DeleteStore
<1> QED BY <1>4, <1>5, Together DEF DeleteStore, IInv, TypeOK

LEMMA IInvInit == Init => IInv
BY DEF Init, IInv, TypeOK, Accounts, Roles, PCs, TokenRowsNameOwner, HasEmail, Live, CallFits, HoldsOwnToken

LEMMA IInvStep == IInv /\ [Next]_vars => IInv'
<1> SUFFICES ASSUME IInv, [Next]_vars PROVE IInv'
  OBVIOUS
<1>1. ASSUME NEW r \in Requests, GivesUp(r) PROVE IInv'
  BY <1>1, SameAccounts, SameTokens, FinishMoves, Together DEF GivesUp, IInv, TypeOK
<1>2. CASE Tick \/ UNCHANGED vars
  BY <1>2, SameAccounts, SameTokens, IdleMoves, Together DEF Tick, vars, IInv, TypeOK
<1>3. ASSUME NEW r \in Requests, Advance(r) PROVE IInv'
  BY <1>3, ForgotKeeps, FinishTokenKeeps, FinishResetKeeps, ChangeStoreKeeps,
     UpdateStoreKeeps, DeleteStoreKeeps DEF Advance
<1> QED BY <1>1, <1>2, <1>3, CreateKeeps, BeginKeeps DEF Next

LEMMA Invariance == Spec => []IInv
BY IInvInit, IInvStep, PTL DEF Spec

\* TypeOK: accounts, token rows and requests keep their shape.
THEOREM TypeCorrect == Spec => []TypeOK
<1>1. IInv => TypeOK
  BY DEF IInv
<1> QED BY <1>1, Invariance, PTL

\* ResetHitsTokenOwner: FinishForgotPassword writes the account its token was
\* made for, however many calls, renamed addresses, failures and crashes come
\* between its three statements.
THEOREM ResetsHitTokenOwner == Spec => ResetHitsTokenOwner
<1> DEFINE Hits == \A r \in Requests, u \in Users :
                      FinishReset(r) /\ accounts'[u] # accounts[u] => issuedTo[call[r].token] = u
<1>1. IInv => Hits
  <2> SUFFICES ASSUME IInv, NEW r \in Requests, NEW u \in Users,
                      FinishReset(r), accounts'[u] # accounts[u]
               PROVE  issuedTo[call[r].token] = u
    OBVIOUS
  <2>1. issuedTo[call[r].token] = call[r].user
    BY DEF FinishReset, IInv, HoldsOwnToken
  <2>2. u = call[r].user
    BY DEF FinishReset, IInv, TypeOK
  <2> QED BY <2>1, <2>2
<1> QED BY <1>1, Invariance, PTL DEF Spec, ResetHitsTokenOwner

-----------------------------------------------------------------------------
(* Addresses *)

EmailsUnique == \A u, v \in Users :
    accounts[u].email # None /\ accounts[u].email = accounts[v].email => u = v

LEMMA SameEmails ==
    ASSUME EmailsUnique, \A u \in Users : accounts'[u].email = accounts[u].email
    PROVE  EmailsUnique'
BY DEF EmailsUnique

LEMMA NewEmail ==
    ASSUME IInv, EmailsUnique, NEW u \in Users, NEW a, ~ EmailTaken(a.email),
           accounts' = [accounts EXCEPT ![u] = a]
    PROVE  EmailsUnique'
BY DEF IInv, TypeOK, EmailsUnique, EmailTaken

LEMMA EmailsStep == IInv /\ EmailsUnique /\ [Next]_vars => EmailsUnique'
<1> SUFFICES ASSUME IInv, EmailsUnique, [Next]_vars PROVE EmailsUnique'
  OBVIOUS
<1>1. CASE UNCHANGED accounts
  BY <1>1, SameEmails
<1>2. ASSUME NEW u \in Users, NEW e, NEW role, NEW s, NEW h, Insert(u, e, role, s, h)
      PROVE  EmailsUnique'
  <2> DEFINE a == [state |-> "live", role |-> role, email |-> e, salt |-> s, hash |-> h]
  <2>1. ~ EmailTaken(a.email) /\ accounts' = [accounts EXCEPT ![u] = a]
    BY <1>2 DEF Insert
  <2> HIDE DEF a
  <2> QED BY <2>1, NewEmail
<1>3. ASSUME NEW r \in Requests, UpdateStore(r) PROVE EmailsUnique'
  <2> DEFINE u == call[r].user
             a == AsAsked(accounts[u], call[r])
  <2>1. u \in Users /\ pc[r] = "update"
    BY <1>3 DEF UpdateStore, IInv, CallFits, Calls
  <2>2. \/ accounts' = accounts
        \/ /\ a.email = accounts[u].email \/ ~ EmailTaken(a.email)
           /\ accounts' = [accounts EXCEPT ![u] = a]
    BY <1>3 DEF UpdateStore
  <2> HIDE DEF u, a
  <2>3. CASE a.email = accounts[u].email /\ accounts' = [accounts EXCEPT ![u] = a]
    BY <2>1, <2>3, SameEmails DEF IInv, TypeOK
  <2> QED BY <1>1, <2>1, <2>2, <2>3, NewEmail
<1>4. ASSUME NEW r \in Requests, DeleteStore(r) PROVE EmailsUnique'
  <2>1. \A v \in Users : accounts'[v].email = accounts[v].email
    BY <1>4 DEF DeleteStore, IInv, TypeOK, Accounts
  <2> QED BY <2>1, SameEmails
<1>5. ASSUME NEW r \in Requests, FinishReset(r) PROVE EmailsUnique'
  <2>1. \A u \in Users : accounts'[u].email = accounts[u].email
    BY <1>5 DEF FinishReset, IInv, TypeOK, Accounts
  <2> QED BY <2>1, SameEmails
<1>6. ASSUME NEW r \in Requests, ChangeStore(r) PROVE EmailsUnique'
  <2>1. \A u \in Users : accounts'[u].email = accounts[u].email
    BY <1>6 DEF ChangeStore, IInv, TypeOK, Accounts
  <2> QED BY <2>1, SameEmails
<1>7. ASSUME NEW u \in Users, NEW e \in Emails, Create(u, e) PROVE EmailsUnique'
  BY <1>2, <1>7 DEF Create, CreateUser, CreateUserAdmin, CreateGoogleUser
<1> QED BY <1>1, <1>3, <1>4, <1>5, <1>6, <1>7
        DEF Next, vars, Begin, ForgotRow, FinishRow, ChangeRow, UpdateRow, DeleteRow, AdminRow,
            Advance, ForgotPurge, ForgotIssue, FinishToken, GivesUp, Tick

-----------------------------------------------------------------------------
(* Whose step it is *)

MovesOne(r) == /\ now' = now
               /\ \E next, c : /\ pc[r] # next
                              /\ pc' = [pc EXCEPT ![r] = next] /\ call' = [call EXCEPT ![r] = c]

LEMMA WhoMoves ==
    ASSUME IInv, [Next]_vars
    PROVE  UNCHANGED <<pc, call>> \/ \E r \in Requests : MovesOne(r)
<1>1. ASSUME NEW s \in Requests, Finish(s), pc[s] # "idle", now' = now PROVE MovesOne(s)
  BY <1>1 DEF Finish, MovesOne
<1>2. ASSUME NEW s \in Requests, NEW next, NEW c, Proceed(s, next, c), pc[s] # next, now' = now
      PROVE  MovesOne(s)
  BY <1>2 DEF Proceed, MovesOne
<1>3. ASSUME NEW u \in Users, NEW e \in Emails, Create(u, e) PROVE UNCHANGED <<pc, call>>
  BY <1>3 DEF Create, CreateUser, CreateUserAdmin, CreateGoogleUser, Insert, InOneStep
<1>4. ASSUME NEW s \in Requests, NEW u \in Users, Begin(s, u) PROVE MovesOne(s)
  <2>1. now' = now /\ pc[s] = "idle"
    BY <1>4 DEF Begin, ForgotRow, FinishRow, ChangeRow, UpdateRow, DeleteRow, AdminRow
  <2>2. \E next : next \in {"purge", "findToken", "store", "update", "delete"} /\ \E c : Proceed(s, next, c)
    BY <1>4 DEF Begin, ForgotRow, FinishRow, ChangeRow, UpdateRow, DeleteRow, AdminRow
  <2> QED BY <1>2, <2>1, <2>2
<1>5. ASSUME NEW s \in Requests, Advance(s) \/ GivesUp(s) PROVE MovesOne(s)
  <2>1. now' = now /\ pc[s] # "idle"
    BY <1>5 DEF Advance, ForgotPurge, ForgotIssue, FinishToken, FinishReset, ChangeStore,
                UpdateStore, DeleteStore, GivesUp
  <2>2. Finish(s) \/ \E next, c : Proceed(s, next, c) /\ pc[s] # next
    BY <1>5 DEF Advance, ForgotPurge, ForgotIssue, FinishToken, FinishReset, ChangeStore,
                UpdateStore, DeleteStore, GivesUp
  <2> QED BY <1>1, <1>2, <2>1, <2>2
<1>6. Tick \/ UNCHANGED vars => UNCHANGED <<pc, call>>
  BY DEF Tick, vars
<1> QED BY <1>3, <1>4, <1>5, <1>6 DEF Next

LEMMA WaitsUnchanged ==
    ASSUME IInv, [Next]_vars, NEW r \in Requests, pc'[r] = pc[r]
    PROVE  call'[r] = call[r]
BY WhoMoves DEF MovesOne, IInv, TypeOK

-----------------------------------------------------------------------------
(* Hash and salt *)

SaltStands(a) == a.hash # None => a.hash.salt = a.salt

\* Hashed without the salt beside it, by UpdateUserAdmin.
Bared(u) == ~ unforced /\ u \in admins /\ accounts[u].hash.salt = None

\* What ChangePassword has read is still so, but for those who were crossed.
StoreSound(r) == pc[r] = "store" =>
    /\ call[r].user \notin crossed => accounts[call[r].user].salt = call[r].salt
    /\ \A u \in Users \ crossed : accounts[u].email = call[r].email => u = call[r].user

AdminSound(r) == pc[r] = "update" => call[r].user \in admins

CInv == /\ \A r \in Requests : StoreSound(r) /\ AdminSound(r)
        /\ \A u \in Users : accounts[u].role = "ADMIN" => u \in admins
        /\ \A u \in Users \ crossed : SaltStands(accounts[u]) \/ Bared(u)

\* A request that has just come to its write has just read what that relies on.
LEMMA WriteBegins ==
    ASSUME IInv, EmailsUnique, CInv, HNext, NEW r \in Requests, pc'[r] # pc[r]
    PROVE  StoreSound(r)' /\ AdminSound(r)'
<1>1. ASSUME NEW s \in Requests, Finish(s) PROVE StoreSound(r)' /\ AdminSound(r)'
  BY <1>1 DEF Finish, IInv, TypeOK, StoreSound, AdminSound
<1>2. ASSUME NEW s \in Requests, NEW next, NEW c, Proceed(s, next, c)
      PROVE  s = r /\ pc'[r] = next /\ call'[r] = c
  BY <1>2 DEF Proceed, IInv, TypeOK
<1>3. ASSUME NEW u \in Users, NEW e \in Emails, Create(u, e) PROVE FALSE
  BY <1>3 DEF Create, CreateUser, CreateUserAdmin, CreateGoogleUser, Insert, InOneStep
<1>4. ASSUME NEW s \in Requests, NEW u \in Users, NEW old, NEW new, ChangeRow(s, u, old, new)
      PROVE  StoreSound(r)' /\ AdminSound(r)'
  <2>1. s = r /\ pc'[r] = "store" /\ accounts' = accounts
    BY <1>2, <1>4 DEF ChangeRow
  <2> DEFINE c == [Ask(u) EXCEPT !.email = accounts[u].email, !.salt = accounts[u].salt, !.pw = new]
  <2>2. call'[r].user = u /\ call'[r].email = accounts[u].email /\ call'[r].salt = accounts[u].salt
    <3>1. c.user = u /\ c.email = accounts[u].email /\ c.salt = accounts[u].salt
      BY DEF Ask
    <3>2. Proceed(s, "store", c)
      BY <1>4 DEF ChangeRow
    <3> HIDE DEF c
    <3> QED BY <1>2, <3>1, <3>2
  <2> HIDE DEF c
  <2>3. accounts[u].email # None
    BY <1>4, ConstantsAssumption DEF ChangeRow, IInv, HasEmail
  <2> QED BY <2>1, <2>2, <2>3 DEF StoreSound, AdminSound, EmailsUnique
<1>5. ASSUME NEW s \in Requests, NEW u \in Users, NEW next \in {"update", "delete"}, NEW c,
             AdminRow(s, u, next, c), c.user = u
      PROVE  StoreSound(r)' /\ AdminSound(r)'
  <2>1. pc'[r] = next /\ call'[r].user = u /\ accounts[u].role = "ADMIN"
    BY <1>2, <1>5 DEF AdminRow
  <2>2. u \in admins'
    BY <2>1 DEF CInv, HNext
  <2> QED BY <2>1, <2>2 DEF StoreSound, AdminSound
<1>6. ASSUME NEW s \in Requests, NEW u \in Users, Begin(s, u)
      PROVE  StoreSound(r)' /\ AdminSound(r)'
  <2>1. ASSUME NEW e, ForgotRow(s, u, e) PROVE StoreSound(r)' /\ AdminSound(r)'
    BY <1>2, <2>1 DEF ForgotRow, StoreSound, AdminSound
  <2>2. ASSUME NEW e, NEW t, NEW p, FinishRow(s, u, e, t, p) PROVE StoreSound(r)' /\ AdminSound(r)'
    <3>1. \E c : Proceed(s, "findToken", c)
      BY <2>2 DEF FinishRow
    <3> QED BY <1>2, <3>1 DEF StoreSound, AdminSound
  <2>3. CASE UpdateRow(s, u)
    <3>1. ASSUME NEW w PROVE AskUpdate(u, w).user = u
      BY DEF AskUpdate, Ask
    <3> QED BY <1>5, <2>3, <3>1 DEF UpdateRow
  <2>4. CASE DeleteRow(s, u)
    <3>1. Ask(u).user = u
      BY DEF Ask
    <3> QED BY <1>5, <2>4, <3>1 DEF DeleteRow
  <2> QED BY <1>4, <1>6, <2>1, <2>2, <2>3, <2>4 DEF Begin
<1>7. ASSUME NEW s \in Requests, Advance(s) \/ GivesUp(s)
      PROVE  StoreSound(r)' /\ AdminSound(r)'
  <2>1. Finish(s) \/ \E next \in {"issue", "reset"} : \E c : Proceed(s, next, c)
    BY <1>7 DEF Advance, ForgotPurge, ForgotIssue, FinishToken, FinishReset, ChangeStore,
                UpdateStore, DeleteStore, GivesUp
  <2> QED BY <1>1, <1>2, <2>1 DEF StoreSound, AdminSound
<1>8. ~ Tick
  BY DEF Tick
<1> QED BY <1>3, <1>6, <1>7, <1>8 DEF Next, HNext

\* What is written while a request waits before its write is noted in crossed.
LEMMA WriteWaits ==
    ASSUME IInv, CInv, HNext, NEW r \in Requests, pc'[r] = pc[r]
    PROVE  StoreSound(r)' /\ AdminSound(r)'
<1>1. call'[r] = call[r]
  BY WaitsUnchanged DEF HNext
<1>2. AdminSound(r)'
  BY <1>1 DEF CInv, AdminSound, HNext
<1>3. CASE pc[r] = "store"
  <2>1. Held(r) /\ call[r].user \in Users
    BY <1>3 DEF Held, IInv, CallFits, Calls
  <2>2. ASSUME NEW u \in Users, u \notin crossed'
        PROVE  /\ u \notin crossed
               /\ u = call[r].user => accounts'[u].salt = accounts[u].salt
               /\ accounts'[u].email = call[r].email => accounts'[u].email = accounts[u].email
    BY <2>1, <2>2 DEF HNext, Crosses
  <2>3. StoreSound(r)
    BY DEF CInv
  <2>4. call[r].user \notin crossed' => accounts'[call[r].user].salt = call[r].salt
    BY <1>3, <2>1, <2>2, <2>3 DEF StoreSound
  <2>5. ASSUME NEW u \in Users \ crossed', accounts'[u].email = call[r].email
        PROVE  u = call[r].user
    BY <1>3, <2>2, <2>3, <2>5 DEF StoreSound
  <2> QED BY <1>1, <1>2, <2>4, <2>5 DEF StoreSound
<1> QED BY <1>2, <1>3 DEF StoreSound

\* What a step does to an account's hash and salt.
Written(u) ==
    \/ accounts'[u].hash = accounts[u].hash /\ accounts'[u].salt = accounts[u].salt
    \/ SaltStands(accounts'[u])
    \/ PasswordForced /\ u \in admins /\ accounts'[u].hash.salt = None
    \/ u \in crossed

LEMMA OneWritten ==
    ASSUME IInv, NEW v \in Users, NEW a, accounts' = [accounts EXCEPT ![v] = a], NEW u \in Users,
           \/ a.hash = accounts[v].hash /\ a.salt = accounts[v].salt
           \/ SaltStands(a)
           \/ PasswordForced /\ v \in admins /\ a.hash.salt = None
    PROVE  Written(u)
<1>1. accounts'[u] = IF u = v THEN a ELSE accounts[u]
  BY DEF IInv, TypeOK
<1>2. CASE u = v
  BY <1>1, <1>2 DEF Written
<1>3. CASE u # v
  BY <1>1, <1>3 DEF Written
<1> QED BY <1>2, <1>3

LEMMA InsertWrites ==
    ASSUME IInv, NEW v \in Users, NEW e \in Emails, Create(v, e), NEW u \in Users
    PROVE  Written(u)
<1>1. PICK role, s, h : Insert(v, e, role, s, h) /\ (h # None => h.salt = s)
  BY DEF Create, CreateUser, CreateUserAdmin, CreateGoogleUser
<1> DEFINE a == [state |-> "live", role |-> role, email |-> e, salt |-> s, hash |-> h]
<1>2. accounts' = [accounts EXCEPT ![v] = a] /\ SaltStands(a)
  BY <1>1 DEF Insert, SaltStands
<1> HIDE DEF a
<1> QED BY <1>2, OneWritten

LEMMA UpdateWrites ==
    ASSUME IInv, CInv, NEW r \in Requests, UpdateStore(r), NEW u \in Users
    PROVE  Written(u)
<1> DEFINE v == call[r].user
           a == AsAsked(accounts[v], call[r])
<1>1. v \in Users /\ v \in admins /\ pc[r] = "update"
  BY DEF UpdateStore, IInv, CallFits, Calls, CInv, AdminSound
<1>2. accounts' = accounts \/ accounts' = [accounts EXCEPT ![v] = a]
  BY DEF UpdateStore
<1>3. /\ a.salt = accounts[v].salt
      /\ a.hash = IF call[r].pw = None THEN accounts[v].hash ELSE [pw |-> call[r].pw, salt |-> None]
  BY <1>1, AsAskedType
<1>4. call[r].pw # None => PasswordForced
  BY DEF PasswordForced
<1>5. CASE accounts' = accounts
  BY <1>5 DEF Written
<1> HIDE DEF v, a
<1> QED BY <1>1, <1>2, <1>3, <1>4, <1>5, OneWritten

LEMMA DeleteWrites ==
    ASSUME IInv, NEW r \in Requests, DeleteStore(r), NEW u \in Users
    PROVE  Written(u)
BY DEF DeleteStore, Written, IInv, TypeOK, Accounts

LEMMA ResetWrites ==
    ASSUME IInv, NEW r \in Requests, FinishReset(r), NEW u \in Users
    PROVE  Written(u)
<1> DEFINE v == call[r].user
<1>1. v \in Users
  BY DEF FinishReset, IInv, CallFits, Calls
<1>2. PICK s \in Salts : accounts' = accounts \/ accounts' =
                [accounts EXCEPT ![v].salt = s, ![v].hash = [pw |-> call[r].pw, salt |-> s]]
  BY DEF FinishReset
<1>3. CASE accounts' = accounts
  BY <1>3 DEF Written
<1>4. CASE accounts' = [accounts EXCEPT ![v].salt = s, ![v].hash = [pw |-> call[r].pw, salt |-> s]]
  <2> DEFINE a == [accounts[v] EXCEPT !.salt = s, !.hash = [pw |-> call[r].pw, salt |-> s]]
  <2>1. SaltStands(a)
    BY <1>1 DEF SaltStands, IInv, TypeOK, Accounts
  <2>2. accounts' = [accounts EXCEPT ![v] = a]
    BY <1>1, <1>4 DEF IInv, TypeOK
  <2> HIDE DEF a
  <2> QED BY <1>1, <2>1, <2>2, OneWritten
<1> QED BY <1>2, <1>3, <1>4

\* Whom ChangePassword writes: its caller, or somebody crossed.
LEMMA StoreHits ==
    ASSUME IInv, CInv, NEW r \in Requests, ChangeStore(r), NEW u \in Users \ crossed,
           accounts'[u] # accounts[u]
    PROVE  u = call[r].user /\ accounts[u].salt = call[r].salt
<1>1. pc[r] = "store" /\ accounts[u].email = call[r].email
  BY DEF ChangeStore
<1> QED BY <1>1 DEF CInv, StoreSound

LEMMA StoreWrites ==
    ASSUME IInv, CInv, NEW r \in Requests, ChangeStore(r), NEW u \in Users
    PROVE  Written(u)
<1> DEFINE a == [accounts[u] EXCEPT !.hash = [pw |-> call[r].pw, salt |-> call[r].salt]]
<1>1. accounts[u] \in Accounts
  BY DEF IInv, TypeOK
<1>2. accounts'[u] = a \/ accounts'[u] = accounts[u]
  BY DEF ChangeStore
<1>3. a.salt = accounts[u].salt /\ a.hash.salt = call[r].salt
  BY <1>1 DEF Accounts
<1>4. CASE u \notin crossed /\ accounts'[u] # accounts[u]
  <2>1. accounts[u].salt = call[r].salt
    BY <1>4, StoreHits
  <2> HIDE DEF a
  <2> QED BY <1>2, <1>3, <1>4, <2>1 DEF Written, SaltStands
<1> QED BY <1>4 DEF Written

LEMMA StepWrites ==
    ASSUME IInv, CInv, Next, NEW u \in Users
    PROVE  Written(u)
<1>1. UNCHANGED accounts => Written(u)
  BY DEF Written
<1> QED BY <1>1, InsertWrites, UpdateWrites, DeleteWrites, ResetWrites, StoreWrites
        DEF Next, Begin, ForgotRow, FinishRow, ChangeRow, UpdateRow, DeleteRow, AdminRow,
            Advance, ForgotPurge, ForgotIssue, FinishToken, GivesUp, Tick

LEMMA CInvStep == IInv /\ EmailsUnique /\ CInv /\ [HNext]_hvars => CInv'
<1> SUFFICES ASSUME IInv, EmailsUnique, CInv, [HNext]_hvars PROVE CInv'
  OBVIOUS
<1>1. CASE UNCHANGED hvars
  BY <1>1 DEF hvars, vars, CInv, StoreSound, AdminSound, Bared
<1>2. CASE HNext
  <2>1. \A r \in Requests : StoreSound(r)' /\ AdminSound(r)'
    BY <1>2, WriteBegins, WriteWaits
  <2>2. \A u \in Users : accounts'[u].role = "ADMIN" => u \in admins'
    BY <1>2 DEF HNext
  <2>3. ASSUME NEW u \in Users, u \notin crossed' PROVE SaltStands(accounts'[u]) \/ Bared(u)'
    <3>1. Written(u) /\ u \notin crossed /\ (u \in admins => u \in admins')
      BY <1>2, <2>3, StepWrites DEF HNext
    <3>2. (PasswordForced \/ ~ unforced) => ~ unforced'
      BY <1>2 DEF HNext
    <3>3. SaltStands(accounts[u]) \/ Bared(u)
      BY <3>1 DEF CInv
    <3> QED BY <3>1, <3>2, <3>3 DEF Written, SaltStands, Bared
  <2> QED BY <2>1, <2>2, <2>3 DEF CInv
<1> QED BY <1>1, <1>2

LEMMA CInvariance == HSpec => [](IInv /\ EmailsUnique /\ CInv)
<1>1. HInit => IInv /\ EmailsUnique /\ CInv
  BY IInvInit DEF HInit, Init, EmailsUnique, CInv, StoreSound, AdminSound, SaltStands
<1>2. IInv /\ EmailsUnique /\ CInv /\ [HNext]_hvars => (IInv /\ EmailsUnique /\ CInv)'
  <2>1. [HNext]_hvars => [Next]_vars
    BY DEF HNext, hvars
  <2> QED BY <2>1, IInvStep, EmailsStep, CInvStep
<1> QED BY <1>1, <1>2, PTL DEF HSpec

LEMMA StandingOpens ==
    ASSUME IInv, NEW u \in Users, SaltStands(accounts[u])
    PROVE  ~ LockedOut(u)
<1> SUFFICES ASSUME accounts[u].hash # None PROVE \E p \in Passwords : Matches(u, p)
  BY DEF LockedOut
<1>1. accounts[u].hash \in Hashes /\ accounts[u].hash.salt = accounts[u].salt
  BY DEF IInv, TypeOK, Accounts, SaltStands
<1>2. accounts[u].hash.pw \in Passwords /\ Matches(u, accounts[u].hash.pw)
  BY <1>1 DEF Hashes, Matches
<1> QED BY <1>2

\* NobodyLockedOutUnforced: as long as UpdateUserAdmin sets no password, whoever
\* has a password and whose ChangePassword nothing crossed can log in with it.
THEOREM NobodyLockedOutsUnforced == HSpec => []NobodyLockedOutUnforced
<1>1. IInv /\ CInv => NobodyLockedOutUnforced
  BY StandingOpens DEF CInv, Bared, NobodyLockedOutUnforced
<1> QED BY <1>1, CInvariance, PTL

\* OnlyAdminsLockedOut: whom no password opens was an administrator whose hash
\* UpdateUserAdmin made without the salt, or a ChangePassword was crossed; in
\* every interleaving, roles and addresses changing.
THEOREM OnlyAdminsAreLockedOut == HSpec => []OnlyAdminsLockedOut
<1>1. IInv /\ CInv => OnlyAdminsLockedOut
  BY StandingOpens DEF CInv, Bared, OnlyAdminsLockedOut
<1> QED BY <1>1, CInvariance, PTL

\* ChangeHitsCaller: ChangePassword changes the password of its caller, or of
\* those to whom the address it read passed meanwhile, in every interleaving.
THEOREM ChangesHitCaller == HSpec => ChangeHitsCaller
<1> DEFINE Hits == \A r \in Requests, u \in Users :
          ChangeStore(r) /\ accounts'[u].hash # accounts[u].hash =>
              u = call[r].user \/ u \in crossed
<1>1. IInv /\ CInv => Hits
  BY StoreHits
<1> QED BY <1>1, CInvariance, PTL DEF HSpec, ChangeHitsCaller

-----------------------------------------------------------------------------
(* Calls that do not overlap *)

\* What a statement has found stays true until the one that relies on it.
ReadStillTrue(r) ==
    /\ pc[r] = "issue" => \A t \in Tokens : Usable(t) => forgotPasswords[t].user # call[r].user
    /\ pc[r] = "reset" => /\ forgotPasswords[call[r].token] # None
                          /\ ~ forgotPasswords[call[r].token].used

OneBusy == \A r, s \in Requests : pc[r] # "idle" /\ pc[s] # "idle" => r = s

AInv == alone => OneBusy /\ OneUsableToken /\ \A r \in Requests : ReadStillTrue(r)

\* No token becomes usable or another user's.
NoneUsable == \A t \in Tokens :
    Usable(t)' => Usable(t) /\ forgotPasswords'[t].user = forgotPasswords[t].user

LEMMA BusyStep ==
    ASSUME IInv, OneBusy, [Next]_vars, UNCHANGED vars \/ ~ Overtaken
    PROVE  OneBusy'
<1>1. CASE UNCHANGED pc
  BY <1>1 DEF OneBusy
<1>2. ASSUME NEW r \in Requests, MovesOne(r), ~ UNCHANGED pc
      PROVE  OneBusy'
  <2>0. PICK next : pc' = [pc EXCEPT ![r] = next] /\ now' = now
    BY <1>2 DEF MovesOne
  <2>1. \A s \in Requests : s # r => pc'[s] = pc[s] /\ pc[s] \in PCs
    BY <2>0 DEF IInv, TypeOK
  <2>2. \A s \in Requests : s # r => pc'[s] = "idle"
    BY <1>2, <2>0, <2>1 DEF Overtaken, vars
  <2> QED BY <2>2 DEF OneBusy
<1> QED BY <1>1, <1>2, WhoMoves

LEMMA TokenStep ==
    ASSUME IInv, [Next]_vars
    PROVE  NoneUsable \/ \E r \in Requests : ForgotIssue(r)
<1>1. CASE UNCHANGED <<now, forgotPasswords>>
  BY <1>1 DEF NoneUsable, Usable
<1>2. ASSUME NEW r \in Requests, ForgotPurge(r) PROVE NoneUsable
  BY <1>2 DEF ForgotPurge, NoneUsable, Usable
<1>3. ASSUME NEW r \in Requests, FinishReset(r) PROVE NoneUsable
  <2>. now' = now
    BY <1>3 DEF FinishReset
  <2>1. CASE UNCHANGED forgotPasswords
    BY <2>1 DEF NoneUsable, Usable
  <2>2. CASE ~ UNCHANGED forgotPasswords
    <3> DEFINE o == call[r].token
    <3>1. o \in Tokens /\ forgotPasswords[o] # None
          /\ forgotPasswords' = [forgotPasswords EXCEPT ![o].used = TRUE]
      BY <1>3, <2>2 DEF FinishReset, IInv, CallFits
    <3>2. forgotPasswords[o] \in Resets
      BY <3>1 DEF IInv, TypeOK
    <3>3. forgotPasswords'[o].used /\ \A t \in Tokens : t # o => forgotPasswords'[t] = forgotPasswords[t]
      BY <3>1, <3>2 DEF IInv, TypeOK, Resets
    <3> HIDE DEF o
    <3> QED BY <3>3 DEF NoneUsable, Usable
  <2> QED BY <2>1, <2>2
<1>4. CASE Tick
  <2>1. now \in Nat /\ now' = now + 1 /\ forgotPasswords' = forgotPasswords
    BY <1>4 DEF Tick, IInv, TypeOK
  <2>2. \A t \in Tokens : forgotPasswords[t] # None => forgotPasswords[t].expiry \in Int
    BY DEF IInv, TypeOK, Resets
  <2> QED BY <2>1, <2>2 DEF NoneUsable, Usable
<1>5. ASSUME NEW u \in Users, NEW e \in Emails, Create(u, e)
      PROVE  UNCHANGED <<now, forgotPasswords>>
  BY <1>5 DEF Create, CreateUser, CreateUserAdmin, CreateGoogleUser, Insert
<1>6. ASSUME NEW s \in Requests, NEW u \in Users, Begin(s, u) PROVE UNCHANGED <<now, forgotPasswords>>
  BY <1>6 DEF Begin, ForgotRow, FinishRow, ChangeRow, UpdateRow, DeleteRow, AdminRow
<1>7. ASSUME NEW s \in Requests,
             FinishToken(s) \/ ChangeStore(s) \/ UpdateStore(s) \/ DeleteStore(s) \/ GivesUp(s)
      PROVE  UNCHANGED <<now, forgotPasswords>>
  BY <1>7 DEF FinishToken, ChangeStore, UpdateStore, DeleteStore, GivesUp
<1> QED BY <1>1, <1>2, <1>3, <1>4, <1>5, <1>6, <1>7 DEF Next, vars, Advance

LEMMA OneUsableStep ==
    ASSUME IInv, OneUsableToken, [Next]_vars, \A r \in Requests : ReadStillTrue(r)
    PROVE  OneUsableToken'
<1>1. CASE NoneUsable
  BY <1>1 DEF NoneUsable, OneUsableToken
<1>2. ASSUME NEW r \in Requests, ForgotIssue(r) PROVE OneUsableToken'
  <2>1. PICK o \in Tokens : forgotPasswords' = [forgotPasswords EXCEPT ![o] =
                [user |-> call[r].user, expiry |-> now + TokenLife, used |-> FALSE]]
    BY <1>2 DEF ForgotIssue
  <2>2. /\ \A t \in Tokens : t # o => forgotPasswords'[t] = forgotPasswords[t]
        /\ forgotPasswords'[o].user = call[r].user /\ now' = now
    BY <1>2, <2>1 DEF IInv, TypeOK, ForgotIssue
  <2>3. \A t \in Tokens : Usable(t) => forgotPasswords[t].user # call[r].user
    BY <1>2 DEF ForgotIssue, ReadStillTrue
  <2> QED BY <2>2, <2>3 DEF OneUsableToken, Usable
<1> QED BY <1>1, <1>2, TokenStep

\* Who has come to its last statement has just found what that relies on.
LEMMA ReadBegins ==
    ASSUME IInv, [Next]_vars, NEW r \in Requests, pc'[r] # pc[r]
    PROVE  ReadStillTrue(r)'
<1>1. ASSUME NEW s \in Requests, NEW next, NEW c, Proceed(s, next, c)
      PROVE  s = r /\ pc'[r] = next /\ call'[r] = c
  BY <1>1 DEF Proceed, IInv, TypeOK
<1>2. ASSUME NEW s \in Requests, Finish(s) PROVE ReadStillTrue(r)'
  BY <1>2 DEF Finish, IInv, TypeOK, ReadStillTrue
<1>3. ASSUME NEW u \in Users, NEW e \in Emails, Create(u, e) PROVE FALSE
  BY <1>3 DEF Create, CreateUser, CreateUserAdmin, CreateGoogleUser, Insert, InOneStep
<1>5. ASSUME NEW s \in Requests, NEW u \in Users, Begin(s, u) PROVE ReadStillTrue(r)'
  <2>1. \E next : next \in {"purge", "findToken", "store", "update", "delete"} /\ \E c : Proceed(s, next, c)
    BY <1>5 DEF Begin, ForgotRow, FinishRow, ChangeRow, UpdateRow, DeleteRow, AdminRow
  <2> QED BY <1>1, <2>1 DEF ReadStillTrue
<1>6. ASSUME NEW s \in Requests, ForgotPurge(s) PROVE ReadStillTrue(r)'
  <2>1. s = r /\ pc'[r] = "issue" /\ call'[r] = call[r] /\ now' = now
    BY <1>1, <1>6 DEF ForgotPurge
  <2>2. \A t \in Tokens : forgotPasswords'[t] =
           IF Usable(t) /\ forgotPasswords[t].user = call[r].user THEN None ELSE forgotPasswords[t]
    BY <1>6, <2>1 DEF ForgotPurge
  <2> QED BY <2>1, <2>2 DEF ReadStillTrue, Usable
<1>7. ASSUME NEW s \in Requests, FinishToken(s) PROVE ReadStillTrue(r)'
  <2>1. CASE Finish(s)
    BY <1>2, <2>1
  <2>2. CASE Usable(call[s].token) /\ Proceed(s, "reset", call[s])
    BY <1>1, <1>7, <2>2 DEF FinishToken, ReadStillTrue, Usable
  <2> QED BY <1>7, <2>1, <2>2 DEF FinishToken
<1>8. ASSUME NEW s \in Requests, \/ ForgotIssue(s) \/ FinishReset(s) \/ ChangeStore(s)
                                \/ UpdateStore(s) \/ DeleteStore(s) \/ GivesUp(s)
      PROVE  ReadStillTrue(r)'
  BY <1>2, <1>8 DEF ForgotIssue, FinishReset, ChangeStore, UpdateStore, DeleteStore, GivesUp
<1>9. ~ (Tick \/ UNCHANGED vars)
  BY DEF Tick, vars
<1> QED BY <1>3, <1>5, <1>6, <1>7, <1>8, <1>9 DEF Next, Advance

LEMMA TickOrNow == Next => Tick \/ now' = now
BY DEF Next, Create, CreateUser, CreateUserAdmin, CreateGoogleUser, Insert, Begin, ForgotRow,
       FinishRow, ChangeRow, UpdateRow, DeleteRow, AdminRow, Advance, ForgotPurge, ForgotIssue,
       FinishToken, FinishReset, ChangeStore, UpdateStore, DeleteStore, GivesUp

LEMMA AInvStep == IInv /\ AInv /\ [HNext]_hvars => AInv'
<1> SUFFICES ASSUME IInv, AInv, [HNext]_hvars, alone' PROVE AInv'
  BY DEF AInv
<1>1. [Next]_vars /\ alone /\ (UNCHANGED vars \/ ~ Overtaken)
  BY DEF HNext, hvars
<1>2. OneBusy' /\ OneUsableToken'
  BY <1>1, BusyStep, OneUsableStep DEF AInv
<1>3. ASSUME NEW r \in Requests PROVE ReadStillTrue(r)'
  <2>1. CASE pc'[r] # pc[r]
    BY <1>1, <2>1, ReadBegins
  <2>2. CASE Tick \/ UNCHANGED vars
    <3>1. UNCHANGED <<pc, call, forgotPasswords>>
      BY <2>2 DEF Tick, vars
    <3>2. ~ \E s \in Requests : ForgotIssue(s) /\ pc'[s] = pc[s]
      BY DEF ForgotIssue, Finish, IInv, TypeOK
    <3> QED BY <1>1, <3>1, <3>2, TokenStep DEF AInv, ReadStillTrue, NoneUsable
  <2>3. CASE pc'[r] = pc[r] /\ now' = now /\ ~ UNCHANGED vars
    <3>1. pc[r] = "idle"
      BY <1>1, <2>3 DEF Overtaken, IInv, TypeOK
    <3> QED BY <2>3, <3>1 DEF ReadStillTrue
  <2> QED BY <1>1, <2>1, <2>2, <2>3, TickOrNow
<1> QED BY <1>2, <1>3 DEF AInv

LEMMA AInvariance == HSpec => [](IInv /\ AInv)
<1>1. HInit => IInv /\ AInv
  <2> SUFFICES ASSUME HInit PROVE AInv
    BY IInvInit DEF HInit
  <2>1. (\A t \in Tokens : ~ Usable(t)) /\ (\A r \in Requests : pc[r] = "idle")
    BY DEF HInit, Init, Usable
  <2> QED BY <2>1 DEF AInv, OneBusy, OneUsableToken, ReadStillTrue
<1>2. IInv /\ AInv /\ [HNext]_hvars => (IInv /\ AInv)'
  <2>1. [HNext]_hvars => [Next]_vars
    BY DEF HNext, hvars
  <2> QED BY <2>1, IInvStep, AInvStep
<1> QED BY <1>1, <1>2, PTL DEF HSpec

\* OneUsableTokenAlone: when calls do not overlap, ForgotPassword leaves a user
\* one usable token.
THEOREM OneUsableTokensAlone == HSpec => []OneUsableTokenAlone
<1>1. AInv => OneUsableTokenAlone
  BY DEF AInv, OneUsableTokenAlone
<1> QED BY <1>1, AInvariance, PTL

\* TokenGoodWhenSpentAlone: when calls do not overlap, the transaction of
\* FinishForgotPassword finds the token it looked up, still unused.
THEOREM TokensGoodWhenSpentAlone == HSpec => TokenGoodWhenSpentAlone
<1>1. AInv /\ [HNext]_hvars => (alone' => TokenGoodWhenSpentStep) \/ UNCHANGED hvars
  <2> SUFFICES ASSUME AInv, HNext, alone', NEW r \in Requests, FinishReset(r)
               PROVE  /\ forgotPasswords[call[r].token] # None
                      /\ ~ forgotPasswords[call[r].token].used
    BY DEF TokenGoodWhenSpentStep
  <2> QED BY DEF HNext, AInv, ReadStillTrue, FinishReset
<1> QED BY <1>1, AInvariance, PTL DEF HSpec, TokenGoodWhenSpentAlone
=============================================================================
