---------------------------- MODULE BanLifecycle ----------------------------
(***************************************************************************)
(* Bans: UserRepository.BanUser, UnbanUser and CheckBanStatus over the     *)
(* tables users and ban_histories.  Every request runs in a goroutine of   *)
(* its own and every statement commits by itself (db.Connect skips the     *)
(* default transaction), so an action is one statement together with the   *)
(* code that follows it up to the next one.                                *)
(*                                                                         *)
(* Left out: SetUpTwoFactorAuth, whose Save puts a whole row of before     *)
(* back, its ban included (TwoFactor has it).                              *)
(*                                                                         *)
(* Bounds: the clock stops at Horizon, and BanIds is the supply of UUIDs.  *)
(***************************************************************************)
EXTENDS Integers

CONSTANTS Users,        \* user ids a request may name
          Requests,     \* requests the server handles at once
          BanIds,       \* UUIDs for bans
          None,         \* SQL NULL, a missing row, no arguments
          Hours,        \* values of BanUserRequest.BanExpiry
          HourLength,   \* time.Hour, in clock units
          Word,         \* how many values a time.Duration has
          Horizon       \* bound on the clock

Records == [userId : Users, bannedAt : Int, banExpiry : Int]

ASSUME ConstantsAssumption ==
    /\ Hours \subseteq Int
    /\ HourLength \in Nat \ {0}
    /\ Word \in Nat \ {0}
    /\ Horizon \in Nat \ {0}
    /\ None \notin BanIds \cup Records

VARIABLES now,          \* time.Now().Unix()
          users,        \* table users, the columns bans read and write
          banHistory,   \* table ban_histories
          issued,       \* UUIDs drawn so far
          pc,           \* pc[r]: the next statement of request r
          call,         \* call[r]: the values request r works with
          reply         \* reply[r]: what its caller saw last

vars == <<now, users, banHistory, issued, pc, call, reply>>

Rows    == [live : BOOLEAN, isBanned : BOOLEAN, banId : BanIds \cup {None}]
Calls   == [user : Users, id : BanIds \cup {None}, hours : Hours \cup {0}]
PCs     == {"idle", "record", "judge", "clearMissing", "clearLapsed"}
Replies == {"none", "ok", "notFound", "free", "banned", "error", "lost"}

\* time.Duration(h) * time.Hour, which wraps around like any signed product.
Span(h) == ((h * HourLength + Word \div 2) % Word) - Word \div 2

\* Hours a time.Duration can hold; nobody checks that those asked for are.
FitsDuration(h) == h * HourLength \in -(Word \div 2) .. Word - Word \div 2 - 1

Lapsed(i) == banHistory[i] # None /\ banHistory[i].banExpiry < now

\* u's ban stands: flagged, recorded and not past its end.
Effective(u) == /\ users[u].live /\ users[u].isBanned
                /\ users[u].banId \in BanIds
                /\ banHistory[users[u].banId] # None
                /\ ~ Lapsed(users[u].banId)

Init == /\ now = 1
        /\ users \in [Users -> [live : BOOLEAN, isBanned : {FALSE}, banId : {None}]]
        /\ banHistory = [i \in BanIds |-> None]
        /\ issued = {}
        /\ pc = [r \in Requests |-> "idle"]
        /\ call = [r \in Requests |-> None]
        /\ reply = [r \in Requests |-> "none"]

Finish(r, answer) == /\ pc' = [pc EXCEPT ![r] = "idle"]
                     /\ call' = [call EXCEPT ![r] = None]
                     /\ reply' = [reply EXCEPT ![r] = answer]

Proceed(r, next, c) == /\ pc' = [pc EXCEPT ![r] = next]
                       /\ call' = [call EXCEPT ![r] = c]
                       /\ reply' = [reply EXCEPT ![r] = "none"]

\* UPDATE users SET ... WHERE id = u AND deleted_at IS NULL: no row, no error.
UpdateUser(u, banned, id) ==
    users' = IF users[u].live
             THEN [users EXCEPT ![u] = [live |-> TRUE, isBanned |-> banned, banId |-> id]]
             ELSE users

-----------------------------------------------------------------------------
(* BanUser *)

\* Mutant: ids are not drawn anew for every ban.
ReusedIds == BanIds

FreshIds == BanIds \ issued

BanRow(r, u, h) ==
    /\ pc[r] = "idle"
    /\ \E i \in FreshIds :
          /\ issued' = issued \cup {i}
          /\ UpdateUser(u, TRUE, i)
          /\ Proceed(r, "record", [user |-> u, id |-> i, hours |-> h])
    /\ UNCHANGED <<now, banHistory>>

\* Mutant: the end is the span alone, not counted from now.
BanRecordRelative(r) ==
    /\ pc[r] = "record"
    /\ banHistory' = [banHistory EXCEPT ![call[r].id] =
                        [userId    |-> call[r].user,
                         bannedAt  |-> now,
                         banExpiry |-> Span(call[r].hours)]]
    /\ Finish(r, "ok")
    /\ UNCHANGED <<now, users, issued>>

BanRecord(r) ==
    /\ pc[r] = "record"
    /\ banHistory' = [banHistory EXCEPT ![call[r].id] =
                        [userId    |-> call[r].user,
                         bannedAt  |-> now,
                         banExpiry |-> now + Span(call[r].hours)]]
    /\ Finish(r, "ok")
    /\ UNCHANGED <<now, users, issued>>

-----------------------------------------------------------------------------
(* UnbanUser: the ban id and its record stay behind *)

\* Mutant: the id is cleared and the flag stays.
UnbanIdOnly(r, u) ==
    /\ pc[r] = "idle"
    /\ UpdateUser(u, users[u].isBanned, None)
    /\ Finish(r, "ok")
    /\ UNCHANGED <<now, banHistory, issued>>

Unban(r, u) ==
    /\ pc[r] = "idle"
    /\ UpdateUser(u, FALSE, users[u].banId)
    /\ Finish(r, "ok")
    /\ UNCHANGED <<now, banHistory, issued>>

-----------------------------------------------------------------------------
(* CheckBanStatus *)

CheckRow(r, u) ==
    /\ pc[r] = "idle"
    /\ \/ /\ ~ users[u].live
          /\ Finish(r, "notFound")
       \/ /\ users[u].live /\ ~ users[u].isBanned
          /\ Finish(r, "free")
       \/ /\ users[u].live /\ users[u].isBanned
          /\ Proceed(r, "judge", [user |-> u, id |-> users[u].banId, hours |-> 0])
    /\ UNCHANGED <<now, users, banHistory, issued>>

\* CheckRecord with some other test of whether the record has lapsed.
Judge(r, lapsed) ==
    /\ pc[r] = "judge"
    /\ \/ /\ banHistory[call[r].id] = None
          /\ Proceed(r, "clearMissing", call[r])
       \/ /\ banHistory[call[r].id] # None /\ lapsed
          /\ Proceed(r, "clearLapsed", call[r])
       \/ /\ banHistory[call[r].id] # None /\ ~ lapsed
          /\ Finish(r, "banned")
    /\ UNCHANGED <<now, users, banHistory, issued>>

\* Mutants: no ban lapses; the ban's start is compared in place of its end; a
\* ban lapses a moment early.
CheckRecordNoLapse(r)  == Judge(r, FALSE)
CheckRecordByStart(r)  == Judge(r, banHistory[call[r].id].bannedAt < now)
CheckRecordEarly(r)    == Judge(r, banHistory[call[r].id].banExpiry <= now)

\* The record is looked up by the ban id the first read returned.
CheckRecord(r) ==
    /\ pc[r] = "judge"
    /\ LET i == call[r].id IN
          \/ /\ banHistory[i] = None
             /\ Proceed(r, "clearMissing", call[r])
          \/ /\ banHistory[i] # None
             /\ banHistory[i].banExpiry # 0 /\ Lapsed(i)
             /\ Proceed(r, "clearLapsed", call[r])
          \/ /\ banHistory[i] # None
             /\ banHistory[i].banExpiry = 0 \/ ~ Lapsed(i)
             /\ Finish(r, "banned")
    /\ UNCHANGED <<now, users, banHistory, issued>>

\* Mutant: the ban id stays.
CheckClearFlagOnly(r) ==
    /\ pc[r] \in {"clearMissing", "clearLapsed"}
    /\ UpdateUser(call[r].user, FALSE, users[call[r].user].banId)
    /\ Finish(r, "free")
    /\ UNCHANGED <<now, banHistory, issued>>

\* The row is cleared by user id alone, whatever ban it carries by now.
CheckClear(r) ==
    /\ pc[r] \in {"clearMissing", "clearLapsed"}
    /\ UpdateUser(call[r].user, FALSE, None)
    /\ Finish(r, "free")
    /\ UNCHANGED <<now, banHistory, issued>>

-----------------------------------------------------------------------------
(* The rest of the world *)

\* The statement of SoftDeleteUserAdmin; an account deleted keeps its row.
SoftDelete(u) ==
    /\ users[u].live
    /\ users' = [users EXCEPT ![u] = [@ EXCEPT !.live = FALSE]]
    /\ UNCHANGED <<now, banHistory, issued, pc, call, reply>>

\* A statement returns an error and the handler gives up.
StatementFails(r) ==
    /\ pc[r] # "idle"
    /\ Finish(r, "error")
    /\ UNCHANGED <<now, users, banHistory, issued>>

\* The process dies and is restarted; the tables survive, the calls do not.
Crash ==
    /\ \E r \in Requests : pc[r] # "idle"
    /\ pc' = [r \in Requests |-> "idle"]
    /\ call' = [r \in Requests |-> None]
    /\ reply' = [r \in Requests |-> IF pc[r] = "idle" THEN reply[r] ELSE "lost"]
    /\ UNCHANGED <<now, users, banHistory, issued>>

Tick ==
    /\ now < Horizon
    /\ now' = now + 1
    /\ UNCHANGED <<users, banHistory, issued, pc, call, reply>>

\* What a goroutine does next once its call has begun.
Advance(r) == BanRecord(r) \/ CheckRecord(r) \/ CheckClear(r)

Next ==
    \/ \E r \in Requests, u \in Users :
          \/ \E h \in Hours : BanRow(r, u, h)
          \/ Unban(r, u)
          \/ CheckRow(r, u)
    \/ \E r \in Requests : Advance(r) \/ StatementFails(r)
    \/ \E u \in Users : SoftDelete(u)
    \/ Crash
    \/ Tick

Spec == Init /\ [][Next]_vars

\* Go runs every runnable goroutine; nothing obliges a caller to call.
FairSpec == Spec /\ \A r \in Requests : WF_vars(Advance(r))

-----------------------------------------------------------------------------
(* Properties *)

TypesFit ==
    /\ now \in Nat
    /\ users \in [Users -> Rows]
    /\ banHistory \in [BanIds -> Records \cup {None}]
    /\ issued \subseteq BanIds
    /\ pc \in [Requests -> PCs]
    /\ call \in [Requests -> Calls \cup {None}]
    /\ reply \in [Requests -> Replies]
    /\ \A r \in Requests : pc[r] # "idle" => call[r] \in Calls

FlaggedHasId == \A u \in Users : users[u].isBanned => users[u].banId \in BanIds

\* Every variable keeps its type, and a row flagged as banned carries the id
\* of a ban for CheckBanStatus to look up.
TypeOK == TypesFit /\ FlaggedHasId

\* A ban is never recorded against somebody else: the record a user's ban id
\* leads to (the one CheckBanStatus judges and reports) names that user,
\* whatever calls interleave, fail or die between BanUser's two statements.
RecordNamesUser ==
    \A u \in Users : LET i == users[u].banId IN
        i # None /\ banHistory[i] # None => banHistory[i].userId = u

\* "User is currently banned" is only answered, by CheckBanStatus, for a user
\* who has an unexpired ban record of his own at that moment.
BannedAnswerJustified ==
    [][\A r \in Requests :
          pc[r] = "judge" /\ pc'[r] = "idle" /\ reply'[r] = "banned" =>
             /\ banHistory[call[r].id] # None
             /\ banHistory[call[r].id].userId = call[r].user
             /\ banHistory[call[r].id].banExpiry >= now \/ banHistory[call[r].id].banExpiry = 0]_vars

\* CheckBanStatus decides on a read that may be stale by the time it clears
\* the row.  Even so a check that found a ban past its end never takes down
\* that ban while it stands: what it can hit is a ban placed since it looked.
LapseVerdictSound ==
    [][\A u \in Users, r \in Requests :
          /\ Effective(u) /\ ~ users'[u].isBanned
          /\ pc[r] = "clearLapsed" /\ call[r].user = u
          => users[u].banId # call[r].id]_vars

\* A check that found the ban past its end is answered in the end, and once
\* it has answered "free" the user no longer carries that ban.
LapsedCheckEnds ==
    \A r \in Requests, u \in Users, i \in BanIds :
        (pc[r] = "clearLapsed" /\ call[r].user = u /\ call[r].id = i)
        ~> (pc[r] = "idle" /\ (reply[r] = "free" => ~ (users[u].live /\ users[u].banId = i)))

-----------------------------------------------------------------------------
(* What the tables amount to for an administrator *)

StandingBan == [u \in Users |->
    CASE ~ users[u].live -> [state |-> "gone", until |-> 0]
      [] users[u].live /\ ~ users[u].isBanned ->
            [state |-> IF users[u].banId = None THEN "free" ELSE "lifted", until |-> 0]
      [] users[u].live /\ users[u].isBanned ->
            IF banHistory[users[u].banId] = None THEN [state |-> "claimed", until |-> 0]
            ELSE [state |-> "live", until |-> banHistory[users[u].banId].banExpiry]]

BeingRecorded == {u \in Users :
    /\ users[u].live /\ users[u].isBanned
    /\ \E r \in Requests : pc[r] = "record" /\ call[r].user = u /\ call[r].id = users[u].banId}

Promise == INSTANCE BanPromise WITH ban <- StandingBan, working <- BeingRecorded

\* A ban an administrator placed is taken down by an administrator or by its
\* end, and a ban being placed is not taken down by anyone else.
BanKept == Promise!Spec
=============================================================================
