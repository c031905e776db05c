------------------------------ MODULE TwoFactor ------------------------------
(***************************************************************************)
(* Two-factor authentication: SetUpTwoFactorAuth, VerifyTwoFactorAuth and  *)
(* DisableTwoFactorAuth over a user's row, next to the other writers of    *)
(* that row.  SetUpTwoFactorAuth is the one call that writes the row back  *)
(* whole (gorm's Save) instead of the columns it is about.  One action is  *)
(* one statement with the code up to the next.  A code is the TOTP secret  *)
(* that generated it.                                                      *)
(*                                                                         *)
(* Bounds: Secrets is the supply of TOTP secrets.                          *)
(***************************************************************************)
EXTENDS Integers

CONSTANTS Users, Secrets, Requests,
          None          \* the empty secret, an app without one, no arguments

ASSUME ConstantsAssumption == None \notin Secrets \cup Users

VARIABLES users,        \* table users
          madeFor,      \* whom a secret was generated for
          apps,         \* the secret in each user's authenticator app
          pc, call      \* each request's next statement and values

vars == <<users, madeFor, apps, pc, call>>

Rows  == [live : BOOLEAN, isBanned : BOOLEAN,
          twoFactorEnabled : BOOLEAN, twoFactorSecret : Secrets \cup {None}]
Calls == [user : Users, row : Rows]
PCs   == {"idle", "save", "enable", "disable"}

NewRow == [live |-> TRUE, isBanned |-> FALSE, twoFactorEnabled |-> FALSE, twoFactorSecret |-> None]

Init == /\ users = [u \in Users |-> NewRow]
        /\ madeFor = [s \in Secrets |-> None]
        /\ apps = [u \in Users |-> None]
        /\ pc = [r \in Requests |-> "idle"]
        /\ call = [r \in Requests |-> None]

Finish(r) == pc' = [pc EXCEPT ![r] = "idle"] /\ call' = [call EXCEPT ![r] = None]

\* The request goes on with the row it has read, whatever becomes of the table.
Proceed(r, next, u, row) ==
    /\ pc' = [pc EXCEPT ![r] = next]
    /\ call' = [call EXCEPT ![r] = [user |-> u, row |-> row]]

\* UPDATE users SET enabled, secret WHERE id = u AND deleted_at IS NULL.
UpdateUser(u, enabled, secret) ==
    users' = IF users[u].live
             THEN [users EXCEPT ![u] = [@ EXCEPT !.twoFactorEnabled = enabled,
                                                 !.twoFactorSecret = secret]]
             ELSE users

-----------------------------------------------------------------------------
(* SetUpTwoFactorAuth *)

\* Mutants: secrets are not drawn anew; a second factor in use is replaced.
SetUpRowOldSecret(r, u) ==
    /\ pc[r] = "idle"
    /\ users[u].live /\ ~ users[u].twoFactorEnabled
    /\ \E s \in Secrets :
          /\ madeFor' = [madeFor EXCEPT ![s] = u]
          /\ Proceed(r, "save", u, [users[u] EXCEPT !.twoFactorSecret = s])
    /\ UNCHANGED <<users, apps>>

SetUpRowAgain(r, u) ==
    /\ pc[r] = "idle"
    /\ users[u].live
    /\ \E s \in Secrets :
          /\ madeFor[s] = None
          /\ madeFor' = [madeFor EXCEPT ![s] = u]
          /\ Proceed(r, "save", u, [users[u] EXCEPT !.twoFactorSecret = s])
    /\ UNCHANGED <<users, apps>>

SetUpRow(r, u) ==
    /\ pc[r] = "idle"
    /\ users[u].live /\ ~ users[u].twoFactorEnabled
    /\ \E s \in Secrets :
          /\ madeFor[s] = None
          /\ madeFor' = [madeFor EXCEPT ![s] = u]
          /\ Proceed(r, "save", u, [users[u] EXCEPT !.twoFactorSecret = s])
    /\ UNCHANGED <<users, apps>>

\* Mutant: Save is given a new row that carries the secret only.
SetUpSaveNewRow(r) ==
    LET u == call[r].user IN
    /\ pc[r] = "save"
    /\ users' = [users EXCEPT ![u] = [NewRow EXCEPT !.twoFactorSecret = call[r].row.twoFactorSecret]]
    /\ apps' = [apps EXCEPT ![u] = call[r].row.twoFactorSecret]
    /\ Finish(r)
    /\ UNCHANGED madeFor

\* Save updates every column of the row as it was read; if no live row has the
\* id any more, gorm inserts the row, on conflict updating every column.  The
\* caller scans the QR code unless the answer is lost.
SetUpSave(r) ==
    LET u == call[r].user IN
    /\ pc[r] = "save"
    /\ users' = [users EXCEPT ![u] = call[r].row]
    /\ apps' \in {apps, [apps EXCEPT ![u] = call[r].row.twoFactorSecret]}
    /\ Finish(r)
    /\ UNCHANGED madeFor

-----------------------------------------------------------------------------
(* VerifyTwoFactorAuth.  The code comes from the user's app, or is one of    *)
(* the empty secret, which the row holds as long as nothing was set up (and   *)
(* which the call accepts) and whose codes anybody can compute.               *)

\* A deleted user's row is read as an empty one, for which gorm then refuses an
\* update that has no WHERE.
VerifyRow(r, u) ==
    /\ pc[r] = "idle"
    /\ users[u].live
    /\ users[u].twoFactorSecret \in {None, apps[u]}
    /\ Proceed(r, "enable", u, users[u])
    /\ UNCHANGED <<users, madeFor, apps>>

\* Mutant: the two columns are given each other's values.
VerifyEnableSwapped(r) ==
    LET u == call[r].user IN
    /\ pc[r] = "enable"
    /\ UpdateUser(u, users[u].twoFactorSecret, TRUE)
    /\ Finish(r)
    /\ UNCHANGED <<madeFor, apps>>

VerifyEnable(r) ==
    LET u == call[r].user IN
    /\ pc[r] = "enable"
    /\ UpdateUser(u, TRUE, users[u].twoFactorSecret)
    /\ Finish(r)
    /\ UNCHANGED <<madeFor, apps>>

-----------------------------------------------------------------------------
(* DisableTwoFactorAuth, the caller's password having been checked *)

DisableRow(r, u) ==
    /\ pc[r] = "idle"
    /\ users[u].live /\ users[u].twoFactorEnabled
    /\ Proceed(r, "disable", u, users[u])
    /\ UNCHANGED <<users, madeFor, apps>>

DisableWrite(r) ==
    /\ pc[r] = "disable"
    /\ UpdateUser(call[r].user, FALSE, None)
    /\ Finish(r)
    /\ UNCHANGED <<madeFor, apps>>

-----------------------------------------------------------------------------
(* Other writers: BanUser's and UnbanUser's update, SoftDeleteUserAdmin's *)

InOneStep == (\E r \in Requests : pc[r] = "idle") /\ UNCHANGED <<madeFor, apps, pc, call>>

SwitchBan(u) == /\ users[u].live
                /\ users' = [users EXCEPT ![u].isBanned = ~ @]
                /\ InOneStep

SoftDelete(u) == /\ users[u].live
                 /\ users' = [users EXCEPT ![u] = [@ EXCEPT !.live = FALSE]]
                 /\ InOneStep

\* A statement fails, or the process dies: the rest of the call is not run.
GivesUp(r) == /\ pc[r] # "idle"
              /\ Finish(r)
              /\ UNCHANGED <<users, madeFor, apps>>

Next == \/ \E r \in Requests, u \in Users : SetUpRow(r, u) \/ VerifyRow(r, u) \/ DisableRow(r, u)
        \/ \E r \in Requests : SetUpSave(r) \/ VerifyEnable(r) \/ DisableWrite(r) \/ GivesUp(r)
        \/ \E u \in Users : SwitchBan(u) \/ SoftDelete(u)

Spec == Init /\ [][Next]_vars

-----------------------------------------------------------------------------
(* Properties *)

TypeOK ==
    /\ users \in [Users -> Rows]
    /\ madeFor \in [Secrets -> Users \cup {None}]
    /\ apps \in [Users -> Secrets \cup {None}]
    /\ pc \in [Requests -> PCs]
    /\ call \in [Requests -> Calls \cup {None}]

\* Rows written back whole never carry one user's secret into another's row,
\* nor into another's app.
SecretsNotMixed ==
    \A u \in Users : /\ users[u].twoFactorSecret # None => madeFor[users[u].twoFactorSecret] = u
                     /\ apps[u] # None => madeFor[apps[u]] = u

\* Setting up a second factor changes the secret and nothing else of the row.
SavesSecretOnly ==
    \A r \in Requests : SetUpSave(r) =>
        LET u == call[r].user IN
            users'[u] = [users[u] EXCEPT !.twoFactorSecret = call[r].row.twoFactorSecret]

\* An account that SoftDeleteUserAdmin deleted stays deleted.
DeletedStaysDeleted == [][\A u \in Users : ~ users[u].live => ~ users'[u].live]_vars
=============================================================================
