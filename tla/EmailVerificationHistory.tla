----------------------- MODULE EmailVerificationHistory ----------------------
(***************************************************************************)
(* EmailVerification with history variables that name what some properties *)
(* need:                                                                   *)
(*   alone    every call so far ran without another's step between its own *)
(*            and no look-up failed;                                       *)
(*   holders  who has, or had, an address.                                 *)
(***************************************************************************)
EXTENDS EmailVerification

VARIABLES alone, holders

hvars == <<vars, alone, holders>>

LookupFailed == \E r \in Requests, o \in Otps :
    /\ pc[r] = "resendFind" /\ pc'[r] = "resendInsert"
    /\ Usable(o) /\ verifications[o].user = call[r].user

Disturbed == now' = now /\ \E r \in Requests : pc[r] # "idle" /\ pc'[r] = pc[r]

HInit == Init /\ alone = TRUE /\ holders = [e \in Emails |-> {}]
HNext == /\ Next
         /\ alone' = (alone /\ ~ Disturbed /\ ~ LookupFailed)
         /\ holders' = [e \in Emails |-> holders[e] \cup
                {u \in Users : users'[u] # None /\ users'[u].email = e}]
HSpec == HInit /\ [][HNext]_hvars

-----------------------------------------------------------------------------
(* Properties *)

\* VerifyUserToken reads the user, finds the OTP, marks it and sets the flag in
\* four statements, all by address, while addresses move, accounts are deleted
\* and whole rows are saved back.  Nobody becomes verified but by an
\* administrator, by a Save that puts back what he was, or by an OTP that was
\* spent and had been sent to the address he has at that moment; and it was
\* made for him unless the address was another's once.
VerifiedByOwnOtp ==
    [][\A u \in Users :
          users[u] # None /\ ~ users[u].isVerified /\ users'[u].isVerified =>
             \/ AdminVerify(u)
             \/ \E r \in Requests :
                   \/ SetUpSave(r) /\ call[r].user = u /\ call[r].row.isVerified
                   \/ /\ VerifySet(r) /\ Live(u)
                      /\ \E o \in Otps :
                            /\ verifications[o] # None /\ verifications[o].used
                            /\ call[r].otp = o /\ verifications[o].email = users[u].email
                            /\ holders[users[u].email] = {u} => verifications[o].user = u]_hvars

\* Calls that do not overlap leave a user one usable OTP (ResendEmailVerification
\* refuses while there is one).
OneUsableOtpAlone == alone => OneUsableOtp

\* Calls that do not overlap spend no OTP twice (VerifyUserToken).
OtpSpentOnceAlone == [][alone' => SpendsUnused]_hvars
=============================================================================
