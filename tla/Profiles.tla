------------------------------ MODULE Profiles ------------------------------
(***************************************************************************)
(* Profiles and the Redis cache before them.  GetUserProfile asks the      *)
(* cache, then the database, then fills the cache; every writer updates    *)
(* the row and then deletes the keys it thinks of, one by one.  Nothing    *)
(* orders a reader's fill after a writer's delete.  UpdateProfile also     *)
(* looks whether the new username is free before it writes.                *)
(*                                                                         *)
(* One action is one statement or one Redis command with the code up to    *)
(* the next.  flag stands for the columns a profile shows besides the name *)
(* (banned, verified, two factors, bio...), email for how VerifyUser finds *)
(* a row.  A key is a user id or a username.  Roles and passwords are left *)
(* out: a call that may be refused for them may be made here of anybody.   *)
(* UpdateProfileImage names a column that does not exist: it never writes. *)
(*                                                                         *)
(* Bounds: MaxCalls writing calls are begun.                               *)
(***************************************************************************)
EXTENDS Integers, Sequences

CONSTANTS Users, Names, Emails,
          Unnamed,      \* the empty username, which CreateUserAdmin gives
          Given,        \* it, and those that are made up for other accounts
          Lower(_),     \* strings.ToLower
          Requests, None,
          Operations,   \* the kinds of writing call made
          Failures,     \* may Redis refuse a command, and a call die half way?
          Life,         \* two minutes, in clock units
          MaxCalls

Kinds == {"register", "profile", "admin", "move", "own", "silent", "setup", "delete"}

ASSUME ConstantsAssumption ==
    /\ Life \in Nat \ {0} /\ MaxCalls \in Nat
    /\ Operations \subseteq Kinds /\ Failures \in BOOLEAN
    /\ Users \cap Names = {} /\ None \notin Users \cup Names /\ Unnamed \in Names
    /\ Given \subseteq Names
    /\ \A n \in Names : Lower(n) \in Names
    /\ None \notin [live : BOOLEAN, name : Names, email : Emails, flag : BOOLEAN]

VARIABLES users,        \* table users: None before registration
          cache,        \* Redis: the profile under a key, and how long it lives
          calls,        \* writing calls begun so far
          pc, call      \* each request's next step and values

vars == <<users, cache, calls, pc, call>>

Keys     == Users \cup Names
Rows     == [live : BOOLEAN, name : Names, email : Emails, flag : BOOLEAN]
Profiles == [user : Users, name : Names, flag : BOOLEAN]
Entries  == [profile : Profiles, ttl : 1..Life]
PCs      == {"idle", "load", "fill", "available", "update", "again", "save", "clean"}

Live(u) == users[u] # None /\ users[u].live
EmailTaken(e) == \E u \in Users : users[u] # None /\ users[u].email = e   \* unique, deleted rows included
NewRow(n, e) == [live |-> TRUE, name |-> n, email |-> e, flag |-> FALSE]

ProfileOf(u) == [user |-> u, name |-> users[u].name, flag |-> users[u].flag]

\* Mutant: usernames are found whatever their case.
AnswersAnyCase(k) ==
    {ProfileOf(u) : u \in {v \in Users : Live(v) /\ (k = v \/ Lower(k) = Lower(users[v].name))}}

\* What the database answers for a key now.
Answers(k) == {ProfileOf(u) : u \in {v \in Users : Live(v) /\ (k = v \/ k = users[v].name)}}

\* Some accounts are there, and nothing is cached yet.
Init == /\ users \in [Users -> {NewRow(n, e) : n \in Names, e \in Emails} \cup {None}]
        /\ \A u, v \in Users :
              users[u] # None /\ users[v] # None /\ users[u].email = users[v].email => u = v
        /\ cache = [k \in Keys |-> None]
        /\ calls = 0
        /\ pc = [r \in Requests |-> "idle"]
        /\ call = [r \in Requests |-> None]

Finish(r) == pc' = [pc EXCEPT ![r] = "idle"] /\ call' = [call EXCEPT ![r] = None]

Proceed(r, next, c) == pc' = [pc EXCEPT ![r] = next] /\ call' = [call EXCEPT ![r] = c]

-----------------------------------------------------------------------------
(* GetUserProfile; a hit changes nothing, an error of Redis is a miss *)

Miss(r, k) ==
    /\ pc[r] = "idle" /\ k # Unnamed
    /\ cache[k] = None \/ Failures
    /\ Proceed(r, "load", k)
    /\ UNCHANGED <<users, cache, calls>>

\* A profile that is not found is not cached.
Load(r) ==
    /\ pc[r] = "load"
    /\ \/ /\ Answers(call[r]) = {}
          /\ Finish(r)
       \/ \E p \in Answers(call[r]) : Proceed(r, "fill", [key |-> call[r], profile |-> p])
    /\ UNCHANGED <<users, cache, calls>>

\* Mutant: the expiration is left out.
FillForGood(r) ==
    /\ pc[r] = "fill"
    /\ cache' = [cache EXCEPT ![call[r].key] = [profile |-> call[r].profile, ttl |-> 0]]
    /\ Finish(r)
    /\ UNCHANGED <<users, calls>>

Fill(r) ==
    /\ pc[r] = "fill"
    /\ \/ cache' = [cache EXCEPT ![call[r].key] = [profile |-> call[r].profile, ttl |-> Life]]
       \/ Failures /\ UNCHANGED cache
    /\ Finish(r)
    /\ UNCHANGED <<users, calls>>

-----------------------------------------------------------------------------
(* The end of every writing call: delete the keys, whether it works or not *)

\* The request has written the row and goes on to delete keys.
ThenClean(r, keys) == IF keys = <<>> THEN Finish(r) ELSE Proceed(r, "clean", keys)

Clean(r) ==
    /\ pc[r] = "clean"
    /\ \/ cache' = [cache EXCEPT ![Head(call[r])] = None]
       \/ Failures /\ UNCHANGED cache
    /\ ThenClean(r, Tail(call[r]))
    /\ UNCHANGED <<users, calls>>

-----------------------------------------------------------------------------
(* The writers *)

Begins(r, kind) == /\ kind \in Operations /\ calls < MaxCalls /\ calls' = calls + 1
                   /\ pc[r] = "idle"

\* UPDATE users ... WHERE id = u AND deleted_at IS NULL.
UpdateUser(u, row) == users' = IF Live(u) THEN [users EXCEPT ![u] = row] ELSE users

\* RegisterUser, a first LoginWithGoogle and CreateUserAdmin: a new id, and a
\* username nobody asks about.
Register(r, u, n, e) ==
    /\ Begins(r, "register")
    /\ users[u] = None /\ ~ EmailTaken(e)
    /\ users' = [users EXCEPT ![u] = NewRow(n, e)]
    /\ ThenClean(r, <<u>>)
    /\ UNCHANGED cache

\* Mutants: the username left behind is not deleted; nobody asks whether the
\* new one is free.
ProfileRowNewKeyOnly(r, u, n) ==
    /\ Begins(r, "profile") /\ n # Unnamed
    /\ LET new == Lower(n)
       IN Proceed(r, IF Live(u) /\ Lower(users[u].name) = new THEN "update" ELSE "available",
                  [user |-> u, name |-> new, keys |-> <<u, new>>])
    /\ UNCHANGED <<users, cache>>

ProfileRowUnasked(r, u, n) ==
    /\ Begins(r, "profile") /\ n # Unnamed
    /\ LET old == IF Live(u) THEN <<Lower(users[u].name)>> ELSE <<>>
           new == Lower(n)
       IN Proceed(r, "update", [user |-> u, name |-> new, keys |-> <<u>> \o old \o <<new>>])
    /\ UNCHANGED <<users, cache>>

\* UpdateProfile: a user who is not found is an empty row, not an error.
ProfileRow(r, u, n) ==
    /\ Begins(r, "profile") /\ n # Unnamed
    /\ LET old == IF Live(u) THEN <<Lower(users[u].name)>> ELSE <<>>
           new == Lower(n)
       IN Proceed(r, IF old = <<new>> THEN "update" ELSE "available",
                  [user |-> u, name |-> new, keys |-> <<u>> \o old \o <<new>>])
    /\ UNCHANGED <<users, cache>>

ProfileAvailable(r) ==
    /\ pc[r] = "available"
    /\ IF \E v \in Users : Live(v) /\ users[v].name = call[r].name
       THEN Finish(r)
       ELSE Proceed(r, "update", call[r])
    /\ UNCHANGED <<users, cache, calls>>

\* Mutant: only the usernames are deleted from the cache.
ProfileUpdateKeepsId(r) ==
    /\ pc[r] = "update"
    /\ \E f \in BOOLEAN :
          UpdateUser(call[r].user, [users[call[r].user] EXCEPT !.name = call[r].name, !.flag = f])
    /\ ThenClean(r, Tail(call[r].keys))
    /\ UNCHANGED <<cache, calls>>

\* The username and, as asked, the other columns.
ProfileUpdate(r) ==
    /\ pc[r] = "update"
    /\ \E f \in BOOLEAN :
          UpdateUser(call[r].user, [users[call[r].user] EXCEPT !.name = call[r].name, !.flag = f])
    /\ ThenClean(r, call[r].keys)
    /\ UNCHANGED <<cache, calls>>

\* BanUser, UnbanUser, VerifyAdminUser, UnverifyUser, VerifyTwoFactorAuth and
\* DisableTwoFactorAuth: the profile by id is deleted, the one by username stays.
AdminWrite(r, u) ==
    /\ Begins(r, "admin")
    /\ UpdateUser(u, [users[u] EXCEPT !.flag = ~ @])
    /\ ThenClean(r, <<u>>)
    /\ UNCHANGED cache

\* UpdateUserAdmin may also pass the account to another address.
AdminMove(r, u, e) ==
    /\ Begins(r, "move")
    /\ ~ EmailTaken(e)
    /\ UpdateUser(u, [users[u] EXCEPT !.email = e, !.flag = ~ @])
    /\ ThenClean(r, <<u>>)
    /\ UNCHANGED cache

\* VerifyUser: the row is written by its address, and read again by it, for
\* the id and the username to delete.
OwnWrite(r, u) ==
    /\ Begins(r, "own")
    /\ Live(u)
    /\ UpdateUser(u, [users[u] EXCEPT !.flag = ~ @])
    /\ Proceed(r, "again", users[u].email)
    /\ UNCHANGED cache

Addressed(u, e) == Live(u) /\ users[u].email = e

OwnRow(r) ==
    /\ pc[r] = "again"
    /\ \/ \E u \in Users : Addressed(u, call[r]) /\ ThenClean(r, <<u, Lower(users[u].name)>>)
       \/ ~ (\E u \in Users : Addressed(u, call[r])) /\ Finish(r)
    /\ UNCHANGED <<users, cache, calls>>

\* LogoutUser, and CheckBanStatus on its own or in a login, when it lifts a
\* ban: they write the row and leave the cache alone.
SilentWrite(r, u) ==
    /\ Begins(r, "silent")
    /\ UpdateUser(u, [users[u] EXCEPT !.flag = ~ @])
    /\ ThenClean(r, <<>>)
    /\ UNCHANGED cache

\* SetUpTwoFactorAuth reads a row, and saves all of it with the new secret.
SetUpRow(r, u) ==
    /\ Begins(r, "setup")
    /\ Live(u)
    /\ Proceed(r, "save", [user |-> u, row |-> users[u]])
    /\ UNCHANGED <<users, cache>>

SetUpSave(r) ==
    /\ pc[r] = "save"
    /\ LET u   == call[r].user
           row == call[r].row
       IN IF \E v \in Users \ {u} : users[v] # None /\ users[v].email = row.email
          THEN Finish(r) /\ UNCHANGED users
          ELSE users' = [users EXCEPT ![u] = row] /\ ThenClean(r, <<u>>)
    /\ UNCHANGED <<cache, calls>>

SoftDelete(r, u) ==
    /\ Begins(r, "delete")
    /\ Live(u)
    /\ UpdateUser(u, [users[u] EXCEPT !.live = FALSE])
    /\ ThenClean(r, <<u>>)
    /\ UNCHANGED cache

-----------------------------------------------------------------------------

\* A statement fails, or the process dies: the rest of the call is not run.
GivesUp(r) ==
    /\ Failures /\ pc[r] # "idle"
    /\ Finish(r)
    /\ UNCHANGED <<users, cache, calls>>

\* Mutant: nothing in Redis ever expires.
TickWithoutExpiry == UNCHANGED vars

\* Time passes in Redis: what has lived long enough is gone.
Tick ==
    /\ \E k \in Keys : cache[k] # None
    /\ cache' = [k \in Keys |->
          IF cache[k] = None \/ cache[k].ttl = 1 THEN None
          ELSE [cache[k] EXCEPT !.ttl = @ - 1]]
    /\ UNCHANGED <<users, calls, pc, call>>

Advance(r) == \/ Load(r) \/ Fill(r) \/ Clean(r)
              \/ ProfileAvailable(r) \/ ProfileUpdate(r) \/ OwnRow(r) \/ SetUpSave(r)

Begin(r) == \/ \E k \in Keys : Miss(r, k)
            \/ \E u \in Users :
                  \/ \E n \in Given, e \in Emails : Register(r, u, n, e)
                  \/ \E n \in Names : ProfileRow(r, u, n)
                  \/ \E e \in Emails : AdminMove(r, u, e)
                  \/ AdminWrite(r, u) \/ OwnWrite(r, u) \/ SilentWrite(r, u)
                  \/ SetUpRow(r, u) \/ SoftDelete(r, u)

Next == \/ \E r \in Requests : Begin(r) \/ Advance(r) \/ GivesUp(r)
        \/ Tick

Spec == Init /\ [][Next]_vars

\* Time goes by.  Nothing is asked of the requests: one may stop for ever.
FairSpec == Spec /\ WF_vars(Tick)

-----------------------------------------------------------------------------
(* Properties *)

\* The values a request holds are those its next step works with.
CallFits(next, c) ==
    \/ next = "idle" /\ c = None
    \/ next = "load" /\ c \in Keys
    \/ next = "fill" /\ c \in [key : Keys, profile : Profiles]
    \/ next \in {"available", "update"} /\ c \in [user : Users, name : Names, keys : Seq(Keys)]
    \/ next = "again" /\ c \in Emails
    \/ next = "save" /\ c \in [user : Users, row : Rows]
    \/ next = "clean" /\ c \in Seq(Keys) /\ c # <<>>

TypeOK ==
    /\ users \in [Users -> Rows \cup {None}]
    /\ cache \in [Keys -> Entries \cup {None}]
    /\ calls \in Nat
    /\ pc \in [Requests -> PCs]
    /\ call = [r \in Requests |-> call[r]]
    /\ \A r \in Requests : CallFits(pc[r], call[r])

\* GetUserProfile never answers from the cache with somebody else's profile:
\* what is kept under an id is that user's, what is kept under a username
\* carries that username, however fills, renames and deletes interleave.
KeyMatchesProfile ==
    \A k \in Keys : cache[k] # None => k \in {cache[k].profile.user, cache[k].profile.name}

Fresh(k) == cache[k] # None => cache[k].profile \in Answers(k)

\* No two accounts go by one username: UpdateProfile refuses a taken one, and
\* registration makes one up.
NamesUnique ==
    \A u, v \in Users : Live(u) /\ Live(v) /\ users[u].name = users[v].name => u = v

\* Whatever fills came late, deletes failed or were never sent, and calls died
\* half way: when the writing stops, the cache ends up right and stays right.
SettlesFresh == <>[](\A k \in Keys : Fresh(k))
=============================================================================
