----------------------------- MODULE FollowGraph ----------------------------
(***************************************************************************)
(* Who follows whom, and the cached lists of it.  GetFollowing asks the    *)
(* cache, then the table followings, then users for those still there,     *)
(* then fills the cache; FollowUser and UnfollowUser write followings and  *)
(* delete the lists of both ends.  Every call that writes a user's row     *)
(* deletes his lists, and nobody's in which he is.                         *)
(*                                                                         *)
(* Table followers, which GetFollowers and GetFollowFollowingCheck read,   *)
(* is written by no statement: a list of followers is empty.  Left out are *)
(* the keys follow_check:..., deleted and never set.                       *)
(*                                                                         *)
(* Bounds: MaxCalls writing calls are begun.                               *)
(***************************************************************************)
EXTENDS Integers, Sequences

CONSTANTS Users, Requests, None,
          Failures,    \* may Redis refuse a command, and a call die half way?
          Life,        \* two minutes, in clock units
          MaxCalls

ASSUME FollowAssumption ==
    /\ Life \in Nat \ {0} /\ MaxCalls \in Nat /\ Failures \in BOOLEAN

VARIABLES live,         \* table users: the rows that are not deleted
          followings,   \* table followings: pairs of follower and followee
          lists,        \* Redis: the list under a key, and how long it lives
          calls,        \* writing calls begun so far
          pc, call      \* each request's next step and values

vars == <<live, followings, lists, calls, pc, call>>

Keys == {"following", "followers"} \X Users
Both(u, v) == <<<<"following", u>>, <<"followers", v>>>>

Followees(u) == {v \in Users : <<u, v>> \in followings}
Listed(k)    == IF k[1] = "following" THEN Followees(k[2]) ELSE {}

Init == /\ live = Users
        /\ followings \in SUBSET (Users \X Users)
        /\ lists = [k \in Keys |-> None]
        /\ calls = 0
        /\ pc = [r \in Requests |-> "idle"]
        /\ call = [r \in Requests |-> None]

Finish(r) == pc' = [pc EXCEPT ![r] = "idle"] /\ call' = [call EXCEPT ![r] = None]

Proceed(r, next, c) == pc' = [pc EXCEPT ![r] = next] /\ call' = [call EXCEPT ![r] = c]

-----------------------------------------------------------------------------
(* GetFollowing and GetFollowers; a hit changes nothing *)

Miss(r, k) ==
    /\ pc[r] = "idle"
    /\ lists[k] = None \/ Failures
    /\ Proceed(r, "rows", [key |-> k])
    /\ UNCHANGED <<live, followings, lists, calls>>

\* Without rows, the users are not asked for.
Rows(r) ==
    /\ pc[r] = "rows"
    /\ LET found == Listed(call[r].key)
       IN Proceed(r, IF found = {} THEN "fill" ELSE "people", [key |-> call[r].key, list |-> found])
    /\ UNCHANGED <<live, followings, lists, calls>>

\* Mutant: deleted users are listed.
PeopleUnscoped(r) ==
    /\ pc[r] = "people"
    /\ Proceed(r, "fill", call[r])
    /\ UNCHANGED <<live, followings, lists, calls>>

People(r) ==
    /\ pc[r] = "people"
    /\ Proceed(r, "fill", [call[r] EXCEPT !.list = @ \cap live])
    /\ UNCHANGED <<live, followings, lists, calls>>

Fill(r) ==
    /\ pc[r] = "fill"
    /\ \/ lists' = [lists EXCEPT ![call[r].key] = [users |-> call[r].list, ttl |-> Life]]
       \/ Failures /\ UNCHANGED lists
    /\ Finish(r)
    /\ UNCHANGED <<live, followings, calls>>

-----------------------------------------------------------------------------
(* The writers: one statement, then the keys, deleted one by one *)

Deletes(r, keys) == Proceed(r, "clean", [keys |-> keys])

Begins(r) == /\ calls < MaxCalls /\ calls' = calls + 1
             /\ pc[r] = "idle"

\* Whom one follows already one cannot follow again: the key is taken.
Follow(r, u, v) ==
    /\ Begins(r)
    /\ IF v \in Followees(u)
       THEN UNCHANGED <<followings, pc, call>>
       ELSE /\ followings' = followings \cup {<<u, v>>}
            /\ Deletes(r, Both(u, v))
    /\ UNCHANGED <<live, lists>>

\* Mutant: the keys of the wrong ends.
UnfollowOtherEnds(r, u, v) ==
    /\ Begins(r)
    /\ followings' = followings \ {<<u, v>>}
    /\ Deletes(r, Both(v, u))
    /\ UNCHANGED <<live, lists>>

\* Not having followed is no error.
Unfollow(r, u, v) ==
    /\ Begins(r)
    /\ followings' = followings \ {<<u, v>>}
    /\ Deletes(r, Both(u, v))
    /\ UNCHANGED <<live, lists>>

\* SoftDeleteUserAdmin: whom the user followed and who followed him stays.
SoftDelete(r, u) ==
    /\ Begins(r)
    /\ u \in live
    /\ live' = live \ {u}
    /\ Deletes(r, Both(u, u))
    /\ UNCHANGED <<followings, lists>>

\* RegisterUser, VerifyUser, UpdateProfile, BanUser... change no follow. What a
\* list shows of a user beside his id (779-790: name, email, role, socials) is
\* not modelled: such a write changes it and deletes u's own two lists only.
OtherWrite(r, u) ==
    /\ Begins(r)
    /\ Deletes(r, Both(u, u))
    /\ UNCHANGED <<live, followings, lists>>

\* An error of Delete is ignored.
Clean(r) ==
    /\ pc[r] = "clean"
    /\ \/ lists' = [lists EXCEPT ![Head(call[r].keys)] = None]
       \/ Failures /\ UNCHANGED lists
    /\ IF Len(call[r].keys) = 1 THEN Finish(r) ELSE Deletes(r, Tail(call[r].keys))
    /\ UNCHANGED <<live, followings, calls>>

-----------------------------------------------------------------------------

\* A statement fails, or the process dies: the rest of the call is not run.
GivesUp(r) ==
    /\ Failures /\ pc[r] # "idle"
    /\ Finish(r)
    /\ UNCHANGED <<live, followings, lists, calls>>

\* Time passes in Redis.
Tick ==
    /\ \E k \in Keys : lists[k] # None
    /\ lists' = [k \in Keys |->
          IF lists[k] = None \/ lists[k].ttl = 1 THEN None
          ELSE [lists[k] EXCEPT !.ttl = @ - 1]]
    /\ UNCHANGED <<live, followings, calls, pc, call>>

Advance(r) == Rows(r) \/ People(r) \/ Fill(r) \/ Clean(r)

Next == \/ \E r \in Requests :
             \/ \E k \in Keys : Miss(r, k)
             \/ \E u, v \in Users : Follow(r, u, v) \/ Unfollow(r, u, v)
             \/ \E u \in Users : SoftDelete(r, u) \/ OtherWrite(r, u)
             \/ Advance(r) \/ GivesUp(r)
        \/ Tick

Spec == Init /\ [][Next]_vars

-----------------------------------------------------------------------------
(* Properties *)

\* The values a request holds are those its next step works with.
CallFits(next, c) ==
    \/ next = "idle" /\ c = None
    \/ next = "rows" /\ c \in [key : Keys]
    \/ next \in {"people", "fill"} /\ c \in [key : Keys, list : SUBSET Users]
    \/ next = "clean" /\ c \in [keys : Seq(Keys)] /\ c.keys # <<>>

TypeOK ==
    /\ live \subseteq Users
    /\ followings \subseteq Users \X Users
    /\ lists \in [Keys -> [users : SUBSET Users, ttl : 1..Life] \cup {None}]
    /\ calls \in Nat
    /\ DOMAIN pc = Requests /\ DOMAIN call = Requests
    /\ \A r \in Requests : CallFits(pc[r], call[r])

\* A cached list of the users somebody follows names those of them who are
\* there; who was deleted since may be left in it.
ListsKept ==
    \A u \in Users : LET l == lists[<<"following", u>>] IN
        l # None => l.users \cap live = Followees(u) \cap live

\* Every cached list is what the tables would answer now.
ListsRight ==
    \A k \in Keys : lists[k] # None => lists[k].users = Listed(k) \cap live
=============================================================================
