--------------------------- MODULE ProfilesHistory --------------------------
(***************************************************************************)
(* Profiles with three history variables, for what the cache and the       *)
(* usernames may be while calls interleave, fail and die:                  *)
(*   overtaken  the requests for which the database has changed what they  *)
(*              read: the profile a reader brings to the cache, the row an *)
(*              UpdateProfile or a SetUpTwoFactorAuth has read, the answer *)
(*              that a username was free                                   *)
(*   missed     the keys whose profile in the cache a writer did not get   *)
(*              to: Redis refused the delete, the call died first, the     *)
(*              writer deletes no key or the wrong one, or an overtaken    *)
(*              reader put it there                                        *)
(*   unasked    the users who got their username without a valid answer    *)
(*              that it was free                                           *)
(***************************************************************************)
EXTENDS Profiles

VARIABLES overtaken, missed, unasked

hvars == <<vars, overtaken, missed, unasked>>

\* The request takes this step.
Moves(r) == <<pc[r], call[r]>>' # <<pc[r], call[r]>>

\* What tells who goes by a username.
Naming(u) == <<Live(u), IF users[u] = None THEN None ELSE users[u].name>>

Goes(u, n)  == Live(u) /\ users[u].name = n
Takes(u, n) == Goes(u, n)' /\ ~ Goes(u, n)

\* The step changes what a waiting request has read.
Overtakes(r) ==
    /\ ~ Moves(r)
    /\ \/ /\ pc[r] = "fill"
          /\ LET u == call[r].profile.user IN users'[u] # users[u]
       \/ /\ pc[r] \in {"available", "update", "save"}
          /\ LET u == call[r].user IN Naming(u)' # Naming(u)
       \/ /\ pc[r] = "update"
          /\ \E v \in Users \ {call[r].user} : Takes(v, call[r].name)

\* A key that r does not get to: Redis refuses the delete, or the call dies.
Skips(r, k) ==
    /\ Moves(r)
    /\ \/ /\ pc[r] = "clean"
          /\ k = Head(call[r]) \/ (pc'[r] = "idle" /\ \E i \in DOMAIN call[r] : call[r][i] = k)
       \/ pc[r] = "again" /\ pc'[r] = "idle" /\ k \in Users /\ Addressed(k, call[r])

\* A username r takes from its owner and does not delete: it has read another
\* one, or the one it deletes is in lower case.
Leaves(r, n) ==
    /\ Moves(r) /\ pc[r] \in {"update", "save"}
    /\ LET u == call[r].user
       IN /\ users[u] # None /\ users[u].name = n /\ users'[u].name # n
          /\ r \in overtaken \/ Lower(n) # n

\* The step leaves an outdated profile under the key.
Misses(k) ==
    \/ \E r \in Requests : Skips(r, k) \/ Leaves(r, k)
    \/ k \in Users /\ \E r \in Requests : SilentWrite(r, k)

Fills(r, k) == Moves(r) /\ pc[r] = "fill" /\ call[r].key = k /\ cache'[k] # cache[k]

\* The user goes by a username, from this step on, that nobody asked about, or
\* that was asked about too long ago.
NamedUnasked(u) ==
    /\ Live(u)' /\ Naming(u)' # Naming(u)
    /\ \/ users[u] = None
       \/ \E r \in Requests :
             /\ Moves(r) /\ pc[r] \in {"update", "save"} /\ call[r].user = u
             /\ r \in overtaken \/ Lower(users[u].name) = call[r].name

NamedAsked(u) == Naming(u)' # Naming(u) /\ Live(u)'

HInit == /\ Init
         /\ overtaken = {} /\ missed = {}
         /\ unasked = {u \in Users : users[u] # None}

Recorded ==
    /\ overtaken' = {r \in Requests : pc'[r] # "idle" /\ (r \in overtaken \/ Overtakes(r))}
    /\ missed' = {k \in Keys : /\ cache'[k] # None
                               /\ IF \E r \in Requests : Fills(r, k)
                                  THEN \E r \in overtaken : Fills(r, k)
                                  ELSE k \in missed \/ Misses(k)}
    /\ unasked' = {u \in Users : NamedUnasked(u) \/ (u \in unasked /\ ~ NamedAsked(u))}

HNext == Next /\ Recorded
HSpec == HInit /\ [][HNext]_hvars

-----------------------------------------------------------------------------
(* Properties *)

\* r is going to delete the key; somebody is.
PendingBy(r, k) == \/ pc[r] = "clean" /\ \E i \in DOMAIN call[r] : call[r][i] = k
                   \/ pc[r] = "again" /\ k \in Users /\ Addressed(k, call[r])
Pending(k)      == \E r \in Requests : PendingBy(r, k)

\* An outdated profile is kept under a user's id only for as long as a writer is
\* still to delete it, or because the one that should have did not get to it
\* (UpdateProfile, the administrators' calls and VerifyUser delete that key,
\* beside whatever else goes on).
IdKeysFresh == \A u \in Users : Fresh(u) \/ Pending(u) \/ u \in missed

\* Nobody is kept under a username he gave up, but for the same two reasons
\* (UpdateProfile deletes the username it has read and the new one).
NameKeysFollow == \A n \in Names :
    \/ cache[n] # None => users[cache[n].profile.user].name = n
    \/ Pending(n) \/ n \in missed

\* Of two accounts with one username, one got it from registration, or from a
\* call whose reading was overtaken: who asks is not given a taken one
\* (UpdateProfile and UserAvailable).
AskedNamesUnique == \A u, v \in Users :
    Live(u) /\ Live(v) /\ users[u].name = users[v].name => u = v \/ u \in unasked \/ v \in unasked
=============================================================================
