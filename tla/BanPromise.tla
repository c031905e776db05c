----------------------------- MODULE BanPromise -----------------------------
(***************************************************************************)
(* What an administrator is promised of a ban, without tables or           *)
(* statements: a ban is first claimed and then recorded with its end; a    *)
(* recorded ban is lifted by hand or by its end, and a claim somebody is   *)
(* still recording is lifted by hand only.                                 *)
(***************************************************************************)
EXTENDS Integers

CONSTANTS Users

VARIABLES now,      \* the wall clock
          ban,      \* ban[u]: what stands against user u
          working   \* the users whose claimed ban is being recorded

vars == <<now, ban, working>>

Free    == [state |-> "free", until |-> 0]      \* nothing stands
Lifted  == [state |-> "lifted", until |-> 0]    \* an administrator lifted it
Gone    == [state |-> "gone", until |-> 0]      \* no such account
Claimed == [state |-> "claimed", until |-> 0]   \* announced, end not known
Live(t) == [state |-> "live", until |-> t]

Init == /\ now \in Nat
        /\ ban \in [Users -> {Free, Gone}]
        /\ working = {}

\* A ban is announced; whatever stood against u is replaced by it.
Claim(u) == /\ ban[u] # Gone
            /\ ban' = [ban EXCEPT ![u] = Claimed]
            /\ working' = working \cup {u}
            /\ UNCHANGED now

\* The announced ban gets its end.
Record(u) == /\ u \in working
             /\ ban' = [ban EXCEPT ![u] = Live(ban'[u].until)]
             /\ working' = working \ {u}
             /\ UNCHANGED now

\* Calls that announced bans are gone before they recorded them: one of them
\* fails, or all of them die.
Abandon(gone) == /\ gone # {} /\ gone \subseteq working
                 /\ working' = working \ gone
                 /\ UNCHANGED <<now, ban>>

\* An administrator lifts what stands against u.
Lift(u) == /\ ban[u].state \in {"claimed", "live"}
           /\ ban' = [ban EXCEPT ![u] = Lifted]
           /\ working' = working \ {u}
           /\ UNCHANGED now

\* An administrator removes the account.
Remove(u) == /\ ban[u] # Gone
             /\ ban' = [ban EXCEPT ![u] = Gone]
             /\ working' = working \ {u}
             /\ UNCHANGED now

\* A ban past its end is taken down.
Expire(u) == /\ ban[u].state = "live"
             /\ ban[u].until < now
             /\ ban' = [ban EXCEPT ![u] = Free]
             /\ UNCHANGED <<now, working>>

\* A claim nobody is recording any more is taken down.
Forget(u) == /\ ban[u].state = "claimed"
             /\ u \notin working
             /\ ban' = [ban EXCEPT ![u] = Free]
             /\ UNCHANGED <<now, working>>

\* The trace of a lifted ban is wiped.
Tidy(u) == /\ ban[u] = Lifted
           /\ ban' = [ban EXCEPT ![u] = Free]
           /\ UNCHANGED <<now, working>>

Tick == /\ now' = now + 1
        /\ UNCHANGED <<ban, working>>

Next == \/ Tick
        \/ \E gone \in SUBSET Users : Abandon(gone)
        \/ \E u \in Users : \/ Claim(u) \/ Record(u)
                            \/ Lift(u) \/ Remove(u) \/ Expire(u) \/ Forget(u) \/ Tidy(u)

Spec == Init /\ [][Next]_vars
=============================================================================
