-------------------------- MODULE EmailVerification --------------------------
(***************************************************************************)
(* Email verification: ResendEmailVerification makes one-time passwords,   *)
(* VerifyUserToken spends them, LogoutUser and the administrators' calls   *)
(* take the result back.  One action is one statement with the code up to  *)
(* the next.  Users and OTPs are looked up by address, and flags written   *)
(* by address or by id, as the statements do, while UpdateUserAdmin moves  *)
(* addresses, SoftDeleteUserAdmin deletes and SetUpTwoFactorAuth saves a   *)
(* whole row read earlier.  An OTP stands for its row in verifications:    *)
(* equal codes for one address within a minute are left out.               *)
(*                                                                         *)
(* Bounds: the clock stops at Horizon; Otps is the supply of codes.        *)
(***************************************************************************)
EXTENDS Integers

CONSTANTS Users, Emails, Otps, Requests, None,
          Updates,      \* what UpdateUserAdmin is asked to write
          OtpLife,      \* what ResendEmailVerification adds to now
          StatedLife,   \* the lifetime the mail tells the user
          LookupFails,  \* may the look for an existing OTP return an error?
          Horizon       \* bound on the clock

Roles   == {"USER", "ADMIN"}       \* any role but ADMIN counts as USER
Rows    == [email : Emails, role : Roles, deleted : BOOLEAN,
            isVerified : BOOLEAN, twoFactorEnabled : BOOLEAN]
OtpRows == [user : Users, email : Emails, made : Nat, expiry : Nat, used : BOOLEAN]

ASSUME ConstantsAssumption ==
    /\ OtpLife \in Nat /\ StatedLife \in Nat /\ Horizon \in Nat
    /\ LookupFails \in BOOLEAN
    /\ Updates \subseteq [email : Emails \cup {None}, role : Roles \cup {None}]
    /\ None \notin Rows \cup OtpRows \cup Otps \cup Emails \cup Roles

VARIABLES now,
          users,          \* table users: None before registration
          verifications,  \* table verifications, by OTP
          pc, call        \* each request's next statement and values

vars == <<now, users, verifications, pc, call>>

Calls   == [user : Users, email : Emails \cup {None}, otp : Otps \cup {None},
            role : Roles \cup {None}, row : Rows \cup {None}]
PCs     == {"idle", "resendFind", "resendInsert", "verifyFind", "verifyMark", "verifySet",
            "logoutWrite", "update", "delete", "save"}

\* What a request holds, besides the user it has read: nothing.
Ask(u) == [user |-> u, email |-> None, otp |-> None, role |-> None, row |-> None]

Live(u) == users[u] # None /\ ~ users[u].deleted
EmailTaken(e) == \E u \in Users : users[u] # None /\ users[u].email = e   \* unique, deleted rows included
Usable(o)     == /\ verifications[o] # None
                 /\ ~ verifications[o].used /\ verifications[o].expiry > now

Init == /\ now = 0
        /\ users = [u \in Users |-> None]
        /\ verifications = [o \in Otps |-> None]
        /\ pc = [r \in Requests |-> "idle"]
        /\ call = [r \in Requests |-> None]

Finish(r) == pc' = [pc EXCEPT ![r] = "idle"] /\ call' = [call EXCEPT ![r] = None]

Proceed(r, next, c) == pc' = [pc EXCEPT ![r] = next] /\ call' = [call EXCEPT ![r] = c]

\* A call of one statement begins and ends in a step of a free request.
InOneStep == (\E r \in Requests : pc[r] = "idle") /\ UNCHANGED <<pc, call>>

\* UPDATE users SET is_verified for these rows; gorm adds deleted_at IS NULL.
SetVerified(U, v) ==
    users' = [u \in Users |-> IF u \in U /\ Live(u) THEN [users[u] EXCEPT !.isVerified = v]
                                                   ELSE users[u]]

-----------------------------------------------------------------------------

\* RegisterUser and a first LoginWithGoogle insert a USER, CreateUserAdmin
\* whatever role it is asked for; none of them sets is_verified.
CreateUser(u, e, role) ==
    /\ users[u] = None /\ ~ EmailTaken(e)
    /\ users' = [users EXCEPT ![u] = [email |-> e, role |-> role, deleted |-> FALSE,
                                      isVerified |-> FALSE, twoFactorEnabled |-> FALSE]]
    /\ InOneStep /\ UNCHANGED <<now, verifications>>

(* ResendEmailVerification *)

\* Mutant: nobody looks whether an OTP is there already.
ResendRowInserts(r, u) ==
    /\ pc[r] = "idle" /\ Live(u) /\ ~ users[u].isVerified
    /\ Proceed(r, "resendInsert", [Ask(u) EXCEPT !.email = users[u].email])
    /\ UNCHANGED <<now, users, verifications>>

ResendRow(r, u) ==
    /\ pc[r] = "idle" /\ Live(u) /\ ~ users[u].isVerified
    /\ Proceed(r, "resendFind", [Ask(u) EXCEPT !.email = users[u].email])
    /\ UNCHANGED <<now, users, verifications>>

\* Any error of this look-up, not only "no such record", counts as none there.
ResendFind(r) ==
    /\ pc[r] = "resendFind"
    /\ \/ /\ \E o \in Otps : Usable(o) /\ verifications[o].user = call[r].user
          /\ Finish(r)
       \/ /\ \/ LookupFails
             \/ \A o \in Otps : Usable(o) => verifications[o].user # call[r].user
          /\ Proceed(r, "resendInsert", call[r])
    /\ UNCHANGED <<now, users, verifications>>

\* Mutant: the lifetime is taken off the clock.
ResendInsertBackdated(r) ==
    /\ pc[r] = "resendInsert"
    /\ \E o \in Otps :
          /\ verifications[o] = None
          /\ verifications' = [verifications EXCEPT ![o] =
                [user |-> call[r].user, email |-> call[r].email,
                 made |-> now, expiry |-> now - OtpLife, used |-> FALSE]]
    /\ Finish(r)
    /\ UNCHANGED <<now, users>>

\* Whether the mail goes out makes no difference to what follows.
ResendInsert(r) ==
    /\ pc[r] = "resendInsert"
    /\ \E o \in Otps :
          /\ verifications[o] = None
          /\ verifications' = [verifications EXCEPT ![o] =
                [user |-> call[r].user, email |-> call[r].email,
                 made |-> now, expiry |-> now + OtpLife, used |-> FALSE]]
    /\ Finish(r)
    /\ UNCHANGED <<now, users>>

(* VerifyUserToken: three statements after the user's row, no transaction *)

VerifyRow(r, u, o) ==
    /\ pc[r] = "idle" /\ Live(u) /\ ~ users[u].isVerified
    /\ Proceed(r, "verifyFind", [Ask(u) EXCEPT !.email = users[u].email, !.otp = o])
    /\ UNCHANGED <<now, users, verifications>>

\* Mutant: an OTP that was used will do.
RejectedUnlessFresh(r) ==
    ~ \E o \in {verifications[call[r].otp]} : o # None /\ o.expiry > now /\ o.email = call[r].email

\* The row is asked for by address, not by user.
Rejected(r) == ~ (Usable(call[r].otp) /\ verifications[call[r].otp].email = call[r].email)

VerifyFind(r) ==
    /\ pc[r] = "verifyFind"
    /\ IF Rejected(r) THEN Finish(r) ELSE Proceed(r, "verifyMark", call[r])
    /\ UNCHANGED <<now, users, verifications>>

VerifyMark(r) ==
    /\ pc[r] = "verifyMark"
    /\ verifications' = [verifications EXCEPT ![call[r].otp].used = TRUE]
    /\ Proceed(r, "verifySet", call[r])
    /\ UNCHANGED <<now, users>>

\* Mutant: the flag is written by the id of the row read first.
VerifySetById(r) ==
    /\ pc[r] = "verifySet"
    /\ SetVerified({call[r].user}, TRUE)
    /\ Finish(r)
    /\ UNCHANGED <<now, verifications>>

\* Whoever has the address by now.
VerifySet(r) ==
    /\ pc[r] = "verifySet"
    /\ SetVerified({u \in Users : Live(u) /\ users[u].email = call[r].email}, TRUE)
    /\ Finish(r)
    /\ UNCHANGED <<now, verifications>>

(* LogoutUser: a user with two factors has to verify his email anew *)

LogoutRow(r, u) ==
    /\ pc[r] = "idle" /\ Live(u) /\ users[u].twoFactorEnabled
    /\ Proceed(r, "logoutWrite", Ask(u))
    /\ UNCHANGED <<now, users, verifications>>

LogoutWrite(r) ==
    /\ pc[r] = "logoutWrite"
    /\ SetVerified({call[r].user}, FALSE)
    /\ Finish(r)
    /\ UNCHANGED <<now, verifications>>

(* Single statements, of no effect without a row: VerifyAdminUser,         *)
(* UnverifyUser, and what VerifyTwoFactorAuth, DisableTwoFactorAuth end in *)

AdminVerify(u) == /\ SetVerified({u}, TRUE)
                  /\ InOneStep /\ UNCHANGED <<now, verifications>>

AdminUnverify(u) == /\ SetVerified({u}, FALSE)
                    /\ InOneStep /\ UNCHANGED <<now, verifications>>

SwitchTwoFactor(u) ==
    /\ Live(u)
    /\ users' = [users EXCEPT ![u].twoFactorEnabled = ~ @]
    /\ InOneStep /\ UNCHANGED <<now, verifications>>

(* UpdateUserAdmin and SoftDeleteUserAdmin: IsAdmin, then the write by id  *)

AdminRow(r, u, next, c) ==
    /\ pc[r] = "idle" /\ Live(u) /\ users[u].role = "ADMIN"
    /\ Proceed(r, next, c)
    /\ UNCHANGED <<now, users, verifications>>

UpdateRow(r, u) ==
    \E w \in Updates : AdminRow(r, u, "update", [Ask(u) EXCEPT !.email = w.email, !.role = w.role])

DeleteRow(r, u) == AdminRow(r, u, "delete", Ask(u))

\* Empty fields are left as they are; is_verified is none of the fields.
AsAsked(row, c) == [row EXCEPT !.email = IF c.email = None THEN @ ELSE c.email,
                               !.role  = IF c.role = None THEN @ ELSE c.role]

\* A row as a statement leaves it, unless its address is another's already:
\* then the index refuses it.
Write(u, row) ==
    users' = IF users[u].email = row.email \/ ~ EmailTaken(row.email)
             THEN [users EXCEPT ![u] = row] ELSE users

UpdateStore(r) ==
    /\ pc[r] = "update"
    /\ IF Live(call[r].user)
       THEN Write(call[r].user, AsAsked(users[call[r].user], call[r]))
       ELSE UNCHANGED users
    /\ Finish(r)
    /\ UNCHANGED <<now, verifications>>

DeleteStore(r) ==
    /\ pc[r] = "delete"
    /\ users' = IF Live(call[r].user)
                THEN [users EXCEPT ![call[r].user].deleted = TRUE] ELSE users
    /\ Finish(r)
    /\ UNCHANGED <<now, verifications>>

(* SetUpTwoFactorAuth: Save puts back the row as it was read, all of it,   *)
(* deleted meanwhile or not                                                *)

SetUpRow(r, u) ==
    /\ pc[r] = "idle" /\ Live(u) /\ ~ users[u].twoFactorEnabled
    /\ Proceed(r, "save", [Ask(u) EXCEPT !.row = users[u]])
    /\ UNCHANGED <<now, users, verifications>>

SetUpSave(r) ==
    /\ pc[r] = "save"
    /\ Write(call[r].user, call[r].row)
    /\ Finish(r)
    /\ UNCHANGED <<now, verifications>>

-----------------------------------------------------------------------------

\* A statement fails, or the process dies: the rest of the call is not run.
GivesUp(r) ==
    /\ pc[r] # "idle"
    /\ Finish(r)
    /\ UNCHANGED <<now, users, verifications>>

Tick == /\ now < Horizon
        /\ now' = now + 1
        /\ UNCHANGED <<users, verifications, pc, call>>

Advance(r) == \/ ResendFind(r) \/ ResendInsert(r)
              \/ VerifyFind(r) \/ VerifyMark(r) \/ VerifySet(r)
              \/ LogoutWrite(r) \/ UpdateStore(r) \/ DeleteStore(r) \/ SetUpSave(r)

Begin(r, u) == \/ ResendRow(r, u)
               \/ \E o \in Otps : VerifyRow(r, u, o)
               \/ LogoutRow(r, u) \/ UpdateRow(r, u) \/ DeleteRow(r, u) \/ SetUpRow(r, u)

OneStatement(u) == \/ \E e \in Emails, role \in Roles : CreateUser(u, e, role)
                   \/ AdminVerify(u) \/ AdminUnverify(u) \/ SwitchTwoFactor(u)

Next == \/ \E u \in Users : OneStatement(u)
        \/ \E r \in Requests, u \in Users : Begin(r, u)
        \/ \E r \in Requests : Advance(r) \/ GivesUp(r)
        \/ Tick

Spec == Init /\ [][Next]_vars

-----------------------------------------------------------------------------
(* Properties *)

TypeOK ==
    /\ now \in Nat
    /\ users \in [Users -> Rows \cup {None}]
    /\ verifications \in [Otps -> OtpRows \cup {None}]
    /\ pc \in [Requests -> PCs]
    /\ call \in [Requests -> Calls \cup {None}]

\* ResendEmailVerification makes no second OTP while one can still be used.
OneUsableOtp ==
    \A o, p \in Otps :
        Usable(o) /\ Usable(p) /\ verifications[o].user = verifications[p].user => o = p

\* VerifyUserToken spends no OTP a second time.
SpendsUnused == \A r \in Requests : VerifyMark(r) => ~ verifications[call[r].otp].used

\* An OTP is turned down only when it is not the address's, was used before or is
\* older than the mail that brought it said.
GoodAsLongAsStated ==
    [][\A r \in Requests :
          VerifyFind(r) /\ Rejected(r) =>
             LET o == verifications[call[r].otp] IN
                \/ o = None \/ o.used \/ o.email # call[r].email
                \/ now >= o.made + StatedLife]_vars
=============================================================================
