--------------------------- MODULE SessionsHistory --------------------------
(***************************************************************************)
(* Sessions with history variables, for the properties that look back:     *)
(* seen[r], what has been true of the user at some moment of the login r   *)
(* is at; administrators, the users who have been one; and overtaken, the  *)
(* administrator's calls whose account another UpdateUserAdmin has written *)
(* since they asked for its role.                                          *)
(***************************************************************************)
EXTENDS Sessions

VARIABLES seen, administrators, overtaken

hvars == <<vars, seen, administrators, overtaken>>

LogsIn(r) == At(r, {"ban", "password", "factor", "code", "googleBan"})

Sights == {"free", "verified", "factorless", "moved"}

Sight(r) == {s \in Sights : LET u == task[r].user IN
    \/ s = "free"       /\ ~ Ban!Effective(u)
    \/ s = "verified"   /\ accounts[u].verified
    \/ s = "factorless" /\ ~ accounts[u].factor
    \/ s = "moved"      /\ accounts[u].email # task[r].email}

Admin(u) == Exists(u) /\ accounts[u].role = "ADMIN"

Targets(r, u) == At(r, {"update", "delete"}) /\ task[r].user = u

HInit == /\ Init
         /\ seen = [r \in Requests |-> {}]
         /\ administrators = {u \in Users : Admin(u)}
         /\ overtaken = {}

HNext == /\ Next
         /\ seen' = [r \in Requests |-> IF LogsIn(r)' THEN seen[r] \cup Sight(r)' ELSE {}]
         /\ administrators' = administrators \cup {u \in Users : Admin(u)'}
         /\ overtaken' = {r \in Requests : \E u \in Users :
                /\ Targets(r, u) /\ Targets(r, u)'
                /\ r \in overtaken \/ \E s \in Requests : AdminUpdate(s) /\ task[s].user = u}

HSpec == HInit /\ [][HNext]_hvars

\* The step in which the login of r gives its tokens.
Opens(r) == LogsIn(r) /\ task'[r] = None /\ validUntil' # validUntil

-----------------------------------------------------------------------------
(* Properties *)

\* Nobody whose ban stood all through his login gets tokens, although the ban
\* is asked for before everything else (LoginUser, LoginWithGoogle).
BannedKeptOut == [][\A r \in Requests : Opens(r) => "free" \in seen[r]]_hvars

\* Nobody who was unverified all through his LoginUser gets tokens.
UnverifiedKeptOut ==
    [][\A r \in Requests : Opens(r) /\ ~ At(r, {"googleBan"}) => "verified" \in seen[r]]_hvars

\* Whoever had a second factor all through his login gets tokens for a code
\* only, unless his address changed while he logged in: the factor is asked
\* for by address, everything else by id.
FactorAskedFor ==
    [][\A r \in Requests : Opens(r) /\ At(r, {"factor"}) =>
          "factorless" \in seen[r] \/ "moved" \in seen[r]]_hvars

\* A token with the role ADMIN is somebody's who has been an administrator,
\* however it was renewed.
AdminTokensEarned ==
    \A u \in Users \cup {None} : validUntil[u]["ADMIN"] > 0 => u \in administrators

\* Nothing takes a live account away, moves its address or changes its role
\* that is no administrator's, but a call of UpdateUserAdmin or
\* SoftDeleteUserAdmin that found the role ADMIN and was then overtaken by
\* another UpdateUserAdmin of the same account.
OnlyAdminsTouched ==
    [][\A u \in Users : Live(u) /\ ~ Admin(u) =>
          \/ /\ users'[u].live
             /\ accounts'[u].email = accounts[u].email /\ accounts'[u].role = accounts[u].role
          \/ \E r \in overtaken : Targets(r, u) /\ task'[r] = None]_hvars
=============================================================================
