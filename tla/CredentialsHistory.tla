-------------------------- MODULE CredentialsHistory -------------------------
(***************************************************************************)
(* Credentials with history variables that name what some properties need: *)
(*   alone     every call so far ran without another's step between its    *)
(*             own;                                                        *)
(*   unforced  UpdateUserAdmin has set no password yet;                    *)
(*   admins    who is or was an administrator;                             *)
(*   crossed   whose salt or address another call wrote while a            *)
(*             ChangePassword held the old salt, or that address, between  *)
(*             its read and its write.                                     *)
(***************************************************************************)
EXTENDS Credentials

VARIABLES alone, unforced, admins, crossed

hvars == <<vars, alone, unforced, admins, crossed>>

\* A step went between two steps of a call.
Overtaken == now' = now /\ \E r \in Requests : pc[r] # "idle" /\ pc'[r] = pc[r]

PasswordForced == \E r \in Requests : UpdateStore(r) /\ call[r].pw # None

\* The request stands between the two statements of ChangePassword.
Held(r) == pc[r] = "store" /\ pc'[r] = "store"

Crosses(u) ==
    \E r \in Requests : Held(r) /\
        \/ call[r].user = u /\ accounts'[u].salt # accounts[u].salt
        \/ call[r].email = accounts'[u].email /\ accounts'[u].email # accounts[u].email

HInit == Init /\ alone = TRUE /\ unforced = TRUE /\ admins = {} /\ crossed = {}
HNext == /\ Next
         /\ alone' = (alone /\ ~ Overtaken)
         /\ unforced' = (unforced /\ ~ PasswordForced)
         /\ admins' = admins \cup {u \in Users : accounts'[u].role = "ADMIN"}
         /\ crossed' = crossed \cup {u \in Users : Crosses(u)}
HSpec == HInit /\ [][HNext]_hvars

-----------------------------------------------------------------------------
(* Properties *)

\* Some password opens every account that has one, whatever resets, deletions
\* and moving addresses interleave, as long as only owners set
\* passwords and nobody's change of password was crossed.
NobodyLockedOutUnforced == unforced => \A u \in Users \ crossed : ~ LockedOut(u)

\* Two things lock somebody out, and nothing else does: UpdateUserAdmin hashing
\* an administrator's password without the salt beside it (he may have lost
\* the role since, in the same update even), or a ChangePassword crossed by a
\* new salt or a moved address.  Whoever registered himself and was never made
\* an administrator is locked out by a crossing alone.
OnlyAdminsLockedOut ==
    \A u \in Users \ crossed : LockedOut(u) => u \in admins /\ accounts[u].hash.salt = None

\* When calls do not overlap, ForgotPassword leaves a user one usable token.
OneUsableTokenAlone == alone => OneUsableToken

\* When calls do not overlap, FinishForgotPassword spends a token that is
\* there, once.
TokenGoodWhenSpentAlone == [][alone' => TokenGoodWhenSpentStep]_hvars

\* ChangePassword writes by the address it read.  Whatever interleaves, it
\* changes the password of nobody but its caller and those to whom that very
\* address passed while the call was under way.
ChangeHitsCaller ==
    [][\A r \in Requests, u \in Users :
          ChangeStore(r) /\ accounts'[u].hash # accounts[u].hash =>
              u = call[r].user \/ u \in crossed]_hvars
=============================================================================
