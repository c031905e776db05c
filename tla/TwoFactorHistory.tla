--------------------------- MODULE TwoFactorHistory --------------------------
(***************************************************************************)
(* TwoFactor with history variables that some properties need: alone is    *)
(* true while every call so far ran without another's step between its     *)
(* own; overtaken has the verifications for whose user a set-up was saved  *)
(* since they checked the code, and unproved the users whose second factor *)
(* such a verification was the last to switch on.                          *)
(***************************************************************************)
EXTENDS TwoFactor

VARIABLES alone, overtaken, unproved

hvars == <<vars, alone, overtaken, unproved>>

Disturbed == \E r \in Requests : pc[r] # "idle" /\ pc'[r] = pc[r]

Saved(u) == \E s \in Requests : SetUpSave(s) /\ call[s].user = u

Overtake == overtaken' = {r \in Requests : pc'[r] = "enable" /\ (r \in overtaken \/ Saved(call[r].user))}

\* Whether the factor that is switched on is still the one whose code was checked.
Judge == unproved' = {u \in Users : IF \E r \in Requests : VerifyEnable(r) /\ call[r].user = u
                                    THEN \E r \in overtaken : VerifyEnable(r) /\ call[r].user = u
                                    ELSE u \in unproved}

HInit == Init /\ alone = TRUE /\ overtaken = {} /\ unproved = {}
HNext == Next /\ alone' = (alone /\ ~ Disturbed) /\ Overtake /\ Judge
HSpec == HInit /\ [][HNext]_hvars

-----------------------------------------------------------------------------
(* Properties *)

\* However set-ups, verifications and disablings of one user interleave, and
\* whichever answers get lost: a second factor that is asked for has its secret
\* in the user's app, or has the empty one, unless a set-up was saved between
\* the check of his code and the switching on.
EnabledMatchesApp ==
    \A u \in Users : users[u].twoFactorEnabled /\ u \notin unproved =>
        users[u].twoFactorSecret \in {None, apps[u]}

\* When calls do not overlap, SetUpTwoFactorAuth's Save changes the secret only:
\* no ban is lifted by it and no deleted account brought back.
SavesSecretOnlyAlone == [][alone' => SavesSecretOnly]_hvars
=============================================================================
