------------------------- MODULE BanLifecycleProofs -------------------------
(***************************************************************************)
(* What BanLifecycle guarantees for any number of users, requests, ban ids *)
(* and durations.  The invariant says who may hold a ban id: an id is held *)
(* by a user's row, by a request in flight or by a ban record, and all the *)
(* holders of one id speak of one user.                                    *)
(* BanPromise is kept when nobody else writes the row and the record a     *)
(* call is at work on.                                                     *)
(***************************************************************************)
EXTENDS BanLifecycleHistory, TLAPS

Checking(r) == pc[r] \in {"judge", "clearMissing", "clearLapsed"}

\* Ban id i is in somebody's hands as a ban of u.
Holds(i, u) == \/ users[u].banId = i
               \/ \E r \in Requests : pc[r] # "idle" /\ call[r].id = i /\ call[r].user = u
               \/ banHistory[i] # None /\ banHistory[i].userId = u

OneHolder == \A i \in BanIds : \A u, v \in Users : Holds(i, u) /\ Holds(i, v) => u = v

HeldIssued == \A i \in BanIds, u \in Users : Holds(i, u) => i \in issued

CallHasId == \A r \in Requests : pc[r] # "idle" => call[r].id \in BanIds

\* An id is recorded once: whoever is about to record it is alone with it.
RecordPending ==
    /\ \A r \in Requests : pc[r] = "record" => banHistory[call[r].id] = None
    /\ \A r, s \in Requests :
          pc[r] = "record" /\ pc[s] = "record" /\ call[r].id = call[s].id => r = s

\* A verdict "past its end" stays true.
LapsedJudged == \A r \in Requests : pc[r] = "clearLapsed" => Lapsed(call[r].id)

IInv == /\ TypesFit /\ OneHolder /\ HeldIssued /\ FlaggedHasId /\ CallHasId
        /\ RecordPending /\ LapsedJudged

-----------------------------------------------------------------------------

LEMMA SpanIsInt == ASSUME NEW h \in Int PROVE Span(h) \in Int
  BY ConstantsAssumption DEF Span

LEMMA HoursZero == Hours \cup {0} \subseteq Int
  BY ConstantsAssumption

\* The type invariant, action by action.
LEMMA TypeStep == TypesFit /\ FlaggedHasId /\ CallHasId /\ [Next]_vars => TypesFit'
<1> SUFFICES ASSUME TypesFit, FlaggedHasId, CallHasId, [Next]_vars PROVE TypesFit'
  OBVIOUS
<1> USE DEF TypesFit, Rows, Records, Calls, PCs, Replies
<1>1. ASSUME NEW r \in Requests, NEW u \in Users, NEW h \in Hours, BanRow(r, u, h) PROVE TypesFit'
  BY <1>1 DEF BanRow, FreshIds, UpdateUser, Proceed
<1>2. ASSUME NEW r \in Requests, NEW u \in Users, Unban(r, u) PROVE TypesFit'
  BY <1>2 DEF Unban, UpdateUser, Finish
<1>3. ASSUME NEW r \in Requests, NEW u \in Users, CheckRow(r, u) PROVE TypesFit'
  BY <1>3 DEF CheckRow, Finish, Proceed
<1>4. ASSUME NEW r \in Requests, BanRecord(r) PROVE TypesFit'
  <2>1. call[r] \in Calls
    BY <1>4 DEF BanRecord
  <2>2. now + Span(call[r].hours) \in Int
    BY <2>1, SpanIsInt, HoursZero
  <2>3. [userId |-> call[r].user, bannedAt |-> now,
         banExpiry |-> now + Span(call[r].hours)] \in Records
    BY <2>1, <2>2
  <2>4. banHistory' \in [BanIds -> Records \cup {None}]
    BY <1>4, <2>3 DEF BanRecord
  <2> QED BY <1>4, <2>4 DEF BanRecord, Finish
<1>5. ASSUME NEW r \in Requests, CheckRecord(r) PROVE TypesFit'
  BY <1>5 DEF CheckRecord, Finish, Proceed
<1>6. ASSUME NEW r \in Requests, CheckClear(r) PROVE TypesFit'
  BY <1>6 DEF CheckClear, UpdateUser, Finish
<1>7. ASSUME NEW r \in Requests, StatementFails(r) PROVE TypesFit'
  BY <1>7 DEF StatementFails, Finish
<1>8. ASSUME NEW u \in Users, SoftDelete(u) PROVE TypesFit'
  <2>1. users[u] \in Rows
    OBVIOUS
  <2>2. [users[u] EXCEPT !.live = FALSE] \in Rows
    BY <2>1
  <2> QED BY <1>8, <2>2 DEF SoftDelete
<1>9. CASE Crash
  BY <1>9 DEF Crash
<1>10. CASE Tick
  BY <1>10 DEF Tick
<1>11. CASE UNCHANGED vars
  BY <1>11 DEF vars
<1> QED BY <1>1, <1>2, <1>3, <1>4, <1>5, <1>6, <1>7, <1>8, <1>9, <1>10, <1>11 DEF Next, Advance

-----------------------------------------------------------------------------

\* A step that hands no id to anybody keeps every id with one user.
LEMMA NoNewHolder ==
    ASSUME OneHolder, HeldIssued, issued' = issued,
           \A i \in BanIds, v \in Users : Holds(i, v)' => Holds(i, v)
    PROVE  OneHolder' /\ HeldIssued'
  BY DEF OneHolder, HeldIssued

LEMMA BanRowKeeps ==
    ASSUME IInv, NEW r \in Requests, NEW u \in Users, NEW h \in Hours, BanRow(r, u, h)
    PROVE  OneHolder' /\ HeldIssued' /\ FlaggedHasId' /\ CallHasId' /\ RecordPending' /\ LapsedJudged'
<1> USE DEF IInv
<1>1. PICK i \in FreshIds :
          /\ issued' = issued \cup {i}
          /\ UpdateUser(u, TRUE, i)
          /\ Proceed(r, "record", [user |-> u, id |-> i, hours |-> h])
  BY DEF BanRow
<1>2. i \in BanIds /\ i \notin issued /\ \A v \in Users : ~ Holds(i, v)
  BY <1>1 DEF FreshIds, HeldIssued
<1>3. UNCHANGED <<now, banHistory>> /\ pc[r] = "idle"
  BY DEF BanRow
<1>4. \A v \in Users : users'[v].banId = users[v].banId \/ (v = u /\ users'[v].banId = i)
  BY <1>1 DEF UpdateUser, TypesFit, Rows
<1>5. /\ \A s \in Requests : s # r => pc'[s] = pc[s] /\ call'[s] = call[s]
      /\ pc'[r] = "record" /\ call'[r] = [user |-> u, id |-> i, hours |-> h]
  BY <1>1 DEF Proceed, TypesFit
<1>6. \A j \in BanIds, v \in Users : Holds(j, v)' => Holds(j, v) \/ (j = i /\ v = u)
  BY <1>3, <1>4, <1>5 DEF Holds
<1>7. OneHolder' /\ HeldIssued'
  BY <1>1, <1>2, <1>6 DEF OneHolder, HeldIssued
<1>8. FlaggedHasId'
  BY <1>1, <1>2 DEF FlaggedHasId, UpdateUser, TypesFit, Rows
<1>9. CallHasId'
  BY <1>2, <1>5 DEF CallHasId
<1>10. banHistory[i] = None
  <2>1. banHistory[i] # None => banHistory[i] \in Records /\ banHistory[i].userId \in Users
    BY <1>2 DEF TypesFit, Records
  <2> QED BY <1>2, <2>1 DEF Holds
<1>11. \A s \in Requests : pc[s] # "idle" => call[s].id # i
  <2> SUFFICES ASSUME NEW s \in Requests, pc[s] # "idle" PROVE call[s].id # i
    OBVIOUS
  <2>1. call[s].user \in Users
    BY DEF TypesFit, Calls
  <2> QED BY <1>2, <2>1 DEF Holds
<1>12. RecordPending'
  BY <1>3, <1>5, <1>10, <1>11 DEF RecordPending
<1>13. LapsedJudged'
  BY <1>3, <1>5 DEF LapsedJudged, Lapsed
<1> QED BY <1>7, <1>8, <1>9, <1>12, <1>13

\* Clearing, lifting and deleting only take ids away from rows.
LEMMA RowWriteKeeps ==
    ASSUME IInv, NEW u \in Users, NEW b \in Rows,
           users' = [users EXCEPT ![u] = b],
           b.banId \in {None, users[u].banId},
           b.isBanned => users[u].isBanned /\ b.banId = users[u].banId,
           UNCHANGED <<now, banHistory, issued>>,
           \A s \in Requests : pc'[s] = "idle" \/ (pc'[s] = pc[s] /\ call'[s] = call[s])
    PROVE  OneHolder' /\ HeldIssued' /\ FlaggedHasId' /\ CallHasId' /\ RecordPending' /\ LapsedJudged'
<1> USE DEF IInv
<1>1. \A v \in Users : users'[v].banId = users[v].banId \/ users'[v].banId = None
  BY DEF TypesFit, Rows
<1>2. \A i \in BanIds, v \in Users : Holds(i, v)' => Holds(i, v)
  BY <1>1, ConstantsAssumption DEF Holds
<1>3. OneHolder' /\ HeldIssued'
  BY <1>2, NoNewHolder
<1>4. FlaggedHasId'
  BY DEF FlaggedHasId, TypesFit, Rows
<1>5. CallHasId' /\ RecordPending' /\ LapsedJudged'
  BY DEF CallHasId, RecordPending, LapsedJudged, Lapsed
<1> QED BY <1>3, <1>4, <1>5

\* The same for a step that writes no row.
LEMMA NoRowWriteKeeps ==
    ASSUME IInv, UNCHANGED <<users, banHistory, issued>>, now' \in Nat, now' >= now,
           \A s \in Requests :
              \/ pc'[s] = "idle"
              \/ pc'[s] = pc[s] /\ call'[s] = call[s]
              \/ Checking(s) /\ call'[s] = call[s] /\ pc'[s] # "record"
                 /\ (pc'[s] = "clearLapsed" => Lapsed(call[s].id))
    PROVE  OneHolder' /\ HeldIssued' /\ FlaggedHasId' /\ CallHasId' /\ RecordPending' /\ LapsedJudged'
<1> USE DEF IInv
<1>1. \A i \in BanIds, v \in Users : Holds(i, v)' => Holds(i, v)
  BY DEF Holds, Checking
<1>2. OneHolder' /\ HeldIssued'
  BY <1>1, NoNewHolder
<1>3. FlaggedHasId' /\ CallHasId' /\ RecordPending'
  BY DEF FlaggedHasId, CallHasId, RecordPending, Checking
<1>4. LapsedJudged'
  <2> SUFFICES ASSUME NEW s \in Requests, pc'[s] = "clearLapsed" PROVE Lapsed(call[s].id)' 
    BY DEF LapsedJudged
  <2>1. Lapsed(call[s].id) /\ call'[s] = call[s] /\ call[s].id \in BanIds
    BY DEF LapsedJudged, CallHasId, Checking
  <2>2. banHistory[call[s].id].banExpiry \in Int
    BY <2>1 DEF Lapsed, TypesFit, Records
  <2> QED BY <2>1, <2>2 DEF Lapsed, TypesFit
<1> QED BY <1>2, <1>3, <1>4

LEMMA CheckRowKeeps ==
    ASSUME IInv, NEW r \in Requests, NEW u \in Users, CheckRow(r, u)
    PROVE  OneHolder' /\ HeldIssued' /\ FlaggedHasId' /\ CallHasId' /\ RecordPending' /\ LapsedJudged'
<1> USE DEF IInv
<1>1. UNCHANGED <<now, users, banHistory, issued>> /\ pc[r] = "idle"
  BY DEF CheckRow
<1>2. /\ \A s \in Requests \ {r} : pc'[s] = pc[s] /\ call'[s] = call[s]
      /\ \/ pc'[r] = "idle"
         \/ /\ pc'[r] = "judge" /\ users[u].isBanned
            /\ call'[r].user = u /\ call'[r].id = users[u].banId
  BY DEF CheckRow, Finish, Proceed, TypesFit
<1>3. \A i \in BanIds, v \in Users : Holds(i, v)' => Holds(i, v)
  BY <1>1, <1>2 DEF Holds
<1>4. OneHolder' /\ HeldIssued'
  BY <1>1, <1>3, NoNewHolder
<1>5. FlaggedHasId' /\ CallHasId'
  BY <1>1, <1>2 DEF FlaggedHasId, CallHasId
<1>6. RecordPending' /\ LapsedJudged'
  BY <1>1, <1>2 DEF RecordPending, LapsedJudged, Lapsed
<1> QED BY <1>4, <1>5, <1>6

\* Recording moves an id from the request to its record: same id, same user.
LEMMA BanRecordKeeps ==
    ASSUME IInv, NEW r \in Requests, BanRecord(r)
    PROVE  OneHolder' /\ HeldIssued' /\ FlaggedHasId' /\ CallHasId' /\ RecordPending' /\ LapsedJudged'
<1> USE DEF IInv
<1> DEFINE i == call[r].id
<1>1. /\ pc[r] = "record" /\ i \in BanIds /\ call[r].user \in Users
      /\ UNCHANGED <<now, users, issued>>
  BY DEF BanRecord, CallHasId, TypesFit, Calls
<1>2. /\ \A j \in BanIds \ {i} : banHistory'[j] = banHistory[j]
      /\ banHistory'[i].userId = call[r].user
  BY <1>1 DEF BanRecord, TypesFit
<1>3. /\ pc'[r] = "idle"
      /\ \A s \in Requests \ {r} : pc'[s] = pc[s] /\ call'[s] = call[s]
  BY DEF BanRecord, Finish, TypesFit
<1>4. \A j \in BanIds, v \in Users : Holds(j, v)' => Holds(j, v)
  BY <1>1, <1>2, <1>3 DEF Holds
<1>5. OneHolder' /\ HeldIssued'
  BY <1>1, <1>4, NoNewHolder
<1>6. FlaggedHasId' /\ CallHasId'
  BY <1>1, <1>3 DEF FlaggedHasId, CallHasId
<1>7. RecordPending'
  <2>1. \A s \in Requests : pc'[s] = "record" => s # r /\ call[s].id # i
    BY <1>1, <1>3 DEF RecordPending
  <2> QED BY <2>1, <1>1, <1>2, <1>3 DEF RecordPending, CallHasId
<1>8. LapsedJudged'
  <2>1. banHistory[i] = None
    BY <1>1 DEF RecordPending
  <2>2. \A s \in Requests : pc'[s] = "clearLapsed" => s # r /\ call[s].id # i
    BY <1>3, <2>1 DEF LapsedJudged, Lapsed
  <2> QED BY <2>2, <1>1, <1>2, <1>3 DEF LapsedJudged, Lapsed, CallHasId
<1> QED BY <1>5, <1>6, <1>7, <1>8

\* UpdateUser with the row's own ban id, or with none, and a flag taken down.
LEMMA UpdateUserKeeps ==
    ASSUME IInv, NEW u \in Users, NEW id \in {None, users[u].banId},
           UpdateUser(u, FALSE, id), UNCHANGED <<now, banHistory, issued>>,
           \A s \in Requests : pc'[s] = "idle" \/ (pc'[s] = pc[s] /\ call'[s] = call[s])
    PROVE  OneHolder' /\ HeldIssued' /\ FlaggedHasId' /\ CallHasId' /\ RecordPending' /\ LapsedJudged'
<1> USE DEF IInv
<1>1. CASE users[u].live
  <2> DEFINE b == [live |-> TRUE, isBanned |-> FALSE, banId |-> id]
  <2>1. b \in Rows /\ b.banId = id /\ ~ b.isBanned
    BY DEF Rows, TypesFit
  <2>2. users' = [users EXCEPT ![u] = b]
    BY <1>1 DEF UpdateUser
  <2> HIDE DEF b
  <2> QED BY <2>1, <2>2, RowWriteKeeps
<1>2. CASE ~ users[u].live
  <2>1. users' = users /\ now' \in Nat /\ now' >= now
    BY <1>2 DEF UpdateUser, TypesFit
  <2> QED BY <2>1, NoRowWriteKeeps
<1> QED BY <1>1, <1>2

LEMMA InvInit == Init => IInv
<1> SUFFICES ASSUME Init PROVE IInv
  OBVIOUS
<1>1. TypesFit
  BY DEF Init, TypesFit, Rows, PCs, Replies
<1>2. \A i \in BanIds, u \in Users : ~ Holds(i, u)
  BY ConstantsAssumption DEF Init, Holds
<1> QED BY <1>1, <1>2 DEF Init, IInv, OneHolder, HeldIssued, FlaggedHasId, CallHasId, RecordPending, LapsedJudged

LEMMA InvStep == IInv /\ [Next]_vars => IInv'
<1> SUFFICES ASSUME IInv, [Next]_vars PROVE IInv'
  OBVIOUS
<1> DEFINE Rest == OneHolder /\ HeldIssued /\ FlaggedHasId /\ CallHasId /\ RecordPending /\ LapsedJudged
<1>0. TypesFit'
  BY TypeStep DEF IInv
<1>1. ASSUME NEW r \in Requests, NEW u \in Users, NEW h \in Hours, BanRow(r, u, h) PROVE Rest'
  BY <1>1, BanRowKeeps
<1>2. ASSUME NEW r \in Requests, NEW u \in Users, Unban(r, u) PROVE Rest'
  <2>1. UpdateUser(u, FALSE, users[u].banId) /\ UNCHANGED <<now, banHistory, issued>>
    BY <1>2 DEF Unban
  <2>2. \A s \in Requests : pc'[s] = "idle" \/ (pc'[s] = pc[s] /\ call'[s] = call[s])
    BY <1>2 DEF Unban, Finish, IInv, TypesFit
  <2> QED BY <2>1, <2>2, UpdateUserKeeps
<1>3. ASSUME NEW r \in Requests, NEW u \in Users, CheckRow(r, u) PROVE Rest'
  BY <1>3, CheckRowKeeps
<1>4. ASSUME NEW r \in Requests, BanRecord(r) PROVE Rest'
  BY <1>4, BanRecordKeeps
<1>5. ASSUME NEW r \in Requests, CheckRecord(r) PROVE Rest'
  <2>1. UNCHANGED <<users, banHistory, issued>> /\ now' \in Nat /\ now' >= now
    BY <1>5 DEF CheckRecord, IInv, TypesFit
  <2>2. /\ \A s \in Requests \ {r} : pc'[s] = pc[s] /\ call'[s] = call[s]
        /\ pc[r] = "judge"
        /\ \/ pc'[r] = "idle"
           \/ /\ pc'[r] \in {"clearMissing", "clearLapsed"} /\ call'[r] = call[r]
              /\ pc'[r] = "clearLapsed" => Lapsed(call[r].id)
    BY <1>5 DEF CheckRecord, Finish, Proceed, IInv, TypesFit
  <2> QED BY <2>1, <2>2, NoRowWriteKeeps DEF Checking
<1>6. ASSUME NEW r \in Requests, CheckClear(r) PROVE Rest'
  <2>1. call[r].user \in Users
    BY <1>6 DEF CheckClear, IInv, TypesFit, Calls
  <2>2. UpdateUser(call[r].user, FALSE, None) /\ UNCHANGED <<now, banHistory, issued>>
    BY <1>6 DEF CheckClear
  <2>3. \A s \in Requests : pc'[s] = "idle" \/ (pc'[s] = pc[s] /\ call'[s] = call[s])
    BY <1>6 DEF CheckClear, Finish, IInv, TypesFit
  <2> QED BY <2>1, <2>2, <2>3, UpdateUserKeeps
<1>7. ASSUME NEW r \in Requests, StatementFails(r) PROVE Rest'
  <2>1. UNCHANGED <<users, banHistory, issued>> /\ now' \in Nat /\ now' >= now
    BY <1>7 DEF StatementFails, IInv, TypesFit
  <2>2. \A s \in Requests : pc'[s] = "idle" \/ (pc'[s] = pc[s] /\ call'[s] = call[s])
    BY <1>7 DEF StatementFails, Finish, IInv, TypesFit
  <2> QED BY <2>1, <2>2, NoRowWriteKeeps
<1>8. ASSUME NEW u \in Users, SoftDelete(u) PROVE Rest'
  <2> DEFINE b == [users[u] EXCEPT !.live = FALSE]
  <2>0. users[u] \in Rows
    BY DEF IInv, TypesFit
  <2>1. b \in Rows /\ b.banId = users[u].banId /\ b.isBanned = users[u].isBanned
    BY <2>0 DEF Rows
  <2>2. users' = [users EXCEPT ![u] = b] /\ UNCHANGED <<now, banHistory, issued, pc, call>>
    BY <1>8 DEF SoftDelete
  <2> HIDE DEF b
  <2> QED BY <2>1, <2>2, RowWriteKeeps
<1>9. ASSUME Crash PROVE Rest'
  <2>1. UNCHANGED <<users, banHistory, issued>> /\ now' \in Nat /\ now' >= now
    BY <1>9 DEF Crash, IInv, TypesFit
  <2>2. \A s \in Requests : pc'[s] = "idle" \/ (pc'[s] = pc[s] /\ call'[s] = call[s])
    BY <1>9 DEF Crash
  <2> QED BY <2>1, <2>2, NoRowWriteKeeps
<1>10. ASSUME Tick PROVE Rest'
  <2>1. UNCHANGED <<users, banHistory, issued>> /\ now' \in Nat /\ now' >= now
    BY <1>10 DEF Tick, IInv, TypesFit
  <2>2. \A s \in Requests : pc'[s] = "idle" \/ (pc'[s] = pc[s] /\ call'[s] = call[s])
    BY <1>10 DEF Tick
  <2> QED BY <2>1, <2>2, NoRowWriteKeeps
<1>11. ASSUME UNCHANGED vars PROVE Rest'
  <2>1. UNCHANGED <<users, banHistory, issued>> /\ now' \in Nat /\ now' >= now
    BY <1>11 DEF vars, IInv, TypesFit
  <2>2. \A s \in Requests : pc'[s] = "idle" \/ (pc'[s] = pc[s] /\ call'[s] = call[s])
    BY <1>11 DEF vars
  <2> QED BY <2>1, <2>2, NoRowWriteKeeps
<1> QED
  BY <1>0, <1>1, <1>2, <1>3, <1>4, <1>5, <1>6, <1>7, <1>8, <1>9, <1>10, <1>11
  DEF Next, Advance, IInv

\* The invariant holds in every reachable state.
THEOREM Invariance == Spec => []IInv
  BY InvInit, InvStep, PTL DEF Spec

-----------------------------------------------------------------------------

\* Every variable keeps its type, and a flagged row its ban id, for any number
\* of users and requests.
THEOREM TypeCorrect == Spec => []TypeOK
<1>1. IInv => TypeOK
  BY DEF IInv, TypeOK
<1> QED BY <1>1, Invariance, PTL

\* A ban id leads to a record of the user whose row carries it: the answer and
\* the reason CheckBanStatus gives are never those of somebody else's ban.
THEOREM RecordsNameTheirUser == Spec => []RecordNamesUser
<1>1. IInv => RecordNamesUser
  <2> SUFFICES ASSUME IInv, NEW u \in Users, users[u].banId # None,
                      banHistory[users[u].banId] # None
               PROVE  banHistory[users[u].banId].userId = u
    BY DEF RecordNamesUser
  <2> DEFINE i == users[u].banId
  <2>1. i \in BanIds
    BY DEF IInv, TypesFit, Rows
  <2>2. banHistory[i].userId \in Users
    BY <2>1 DEF IInv, TypesFit, Records
  <2>3. Holds(i, u) /\ Holds(i, banHistory[i].userId)
    BY DEF Holds
  <2> QED BY <2>1, <2>2, <2>3 DEF IInv, OneHolder
<1> QED BY <1>1, Invariance, PTL

\* CheckBanStatus answers "banned" only for a user with an unexpired record of
\* his own, whatever ran between its two reads.
THEOREM BannedAnswersAreJustified == Spec => BannedAnswerJustified
<1> DEFINE Good(r) == /\ banHistory[call[r].id] # None
                      /\ banHistory[call[r].id].userId = call[r].user
                      /\ banHistory[call[r].id].banExpiry >= now \/ banHistory[call[r].id].banExpiry = 0
<1>1. ASSUME IInv, [Next]_vars, NEW r \in Requests,
             pc[r] = "judge", pc'[r] = "idle", reply'[r] = "banned"
      PROVE  Good(r)
  <2> DEFINE i == call[r].id
  <2>1. ASSUME NEW s \in Requests, NEW u \in Users PROVE /\ ~ Unban(s, u) /\ ~ CheckRow(s, u)
                                                        /\ \A h \in Hours : ~ BanRow(s, u, h)
    BY <1>1 DEF Unban, CheckRow, BanRow, Finish, Proceed, IInv, TypesFit
  <2>2. ASSUME NEW s \in Requests PROVE ~ BanRecord(s) /\ ~ CheckClear(s) /\ ~ StatementFails(s)
    BY <1>1 DEF BanRecord, CheckClear, StatementFails, Finish, IInv, TypesFit
  <2>3. ~ Crash /\ ~ Tick /\ ~ UNCHANGED vars /\ \A u \in Users : ~ SoftDelete(u)
    BY <1>1 DEF Crash, Tick, vars, SoftDelete
  <2>4. CheckRecord(r)
    <3>1. PICK s \in Requests : CheckRecord(s)
      BY <1>1, <2>1, <2>2, <2>3 DEF Next, Advance
    <3>2. s = r
      BY <1>1, <3>1 DEF CheckRecord, Finish, Proceed, IInv, TypesFit
    <3> QED BY <3>1, <3>2
  <2>5. banHistory[i] # None /\ (banHistory[i].banExpiry = 0 \/ ~ Lapsed(i))
    BY <1>1, <2>4 DEF CheckRecord, Finish, Proceed, IInv, TypesFit
  <2>6. /\ i \in BanIds /\ banHistory[i] \in Records /\ call[r].user \in Users /\ now \in Int
        /\ banHistory[i].banExpiry \in Int /\ banHistory[i].userId \in Users
    BY <1>1, <2>5 DEF IInv, CallHasId, TypesFit, Records, Calls
  <2>7. Holds(i, call[r].user) /\ Holds(i, banHistory[i].userId)
    BY <1>1, <2>5 DEF Holds
  <2>8. banHistory[i].userId = call[r].user
    BY <1>1, <2>6, <2>7 DEF IInv, OneHolder
  <2> QED BY <2>5, <2>6, <2>8 DEF Lapsed
<1>2. IInv /\ [Next]_vars =>
        [\A r \in Requests : pc[r] = "judge" /\ pc'[r] = "idle" /\ reply'[r] = "banned" =>
            Good(r)]_vars
  BY <1>1
<1> QED BY <1>2, Invariance, PTL DEF Spec, BannedAnswerJustified

\* However stale its read, a check that found a ban past its end never takes
\* that very ban down while it stands.
THEOREM LapseVerdictsAreSound == Spec => LapseVerdictSound
<1>1. ASSUME IInv, NEW u \in Users, NEW r \in Requests,
             Effective(u), pc[r] = "clearLapsed"
      PROVE  users[u].banId # call[r].id
  BY <1>1 DEF IInv, LapsedJudged, Effective
<1>2. IInv => [\A u \in Users, r \in Requests :
          /\ Effective(u) /\ ~ users'[u].isBanned
          /\ pc[r] = "clearLapsed" /\ call[r].user = u
          => users[u].banId # call[r].id]_vars
  BY <1>1
<1> QED BY <1>2, Invariance, PTL DEF Spec, LapseVerdictSound

\* A check that will take down what it found past its end, and what it leaves.
Clears(r, u, i)  == pc[r] = "clearLapsed" /\ call[r].user = u /\ call[r].id = i
Cleared(r, u, i) == pc[r] = "idle" /\ (reply[r] = "free" => ~ (users[u].live /\ users[u].banId = i))

\* A check that found the ban past its end has one step left, and if it answers
\* "free" the user no longer carries that ban: all of LapsedCheckEnds but that
\* the step comes.
THEOREM LapsedChecksEndRight ==
    Spec => [][\A r \in Requests, u \in Users, i \in BanIds :
                  Clears(r, u, i) => Clears(r, u, i)' \/ Cleared(r, u, i)']_vars
<1>1. ASSUME IInv, Next, NEW r \in Requests, NEW u \in Users, NEW i \in BanIds, Clears(r, u, i)
      PROVE  Clears(r, u, i)' \/ Cleared(r, u, i)'
  <2> USE <1>1 DEF IInv, TypesFit
  <2>1. ASSUME NEW s \in Requests, pc[s] = "idle" \/ s # r,
               (\E answer : Finish(s, answer)) \/ (\E next, c : Proceed(s, next, c))
        PROVE  Clears(r, u, i)'
    BY <2>1 DEF Finish, Proceed, Clears
  <2>2. ASSUME NEW s \in Requests, NEW v \in Users,
               (\E h \in Hours : BanRow(s, v, h)) \/ Unban(s, v) \/ CheckRow(s, v)
        PROVE  Clears(r, u, i)'
    BY <2>1, <2>2 DEF BanRow, Unban, CheckRow
  <2>3. ASSUME NEW s \in Requests, s # r,
               BanRecord(s) \/ CheckRecord(s) \/ CheckClear(s) \/ StatementFails(s)
        PROVE  Clears(r, u, i)'
    BY <2>1, <2>3 DEF BanRecord, CheckRecord, CheckClear, StatementFails
  <2>4. ~ BanRecord(r) /\ ~ CheckRecord(r)
    BY DEF BanRecord, CheckRecord, Clears
  <2>5. CASE CheckClear(r)
    <3>1. pc'[r] = "idle"
      BY <2>5 DEF CheckClear, Finish
    <3>2. ~ users'[u].live \/ users'[u].banId = None
      BY <2>5 DEF CheckClear, UpdateUser, Clears
    <3>3. i # None
      BY ConstantsAssumption
    <3> QED BY <3>1, <3>2, <3>3 DEF Cleared
  <2>6. CASE StatementFails(r)
    BY <2>6 DEF StatementFails, Finish, Cleared
  <2>7. CASE Crash
    BY <2>7 DEF Crash, Cleared, Clears
  <2>8. CASE Tick \/ \E v \in Users : SoftDelete(v)
    BY <2>8 DEF Tick, SoftDelete, Clears
  <2> QED BY <2>2, <2>3, <2>4, <2>5, <2>6, <2>7, <2>8 DEF Next, Advance
<1>2. IInv /\ [Next]_vars =>
        [\A r \in Requests, u \in Users, i \in BanIds :
            Clears(r, u, i) => Clears(r, u, i)' \/ Cleared(r, u, i)']_vars
  BY <1>1
<1> QED BY <1>2, Invariance, PTL DEF Spec

-----------------------------------------------------------------------------
(***************************************************************************)
(* Rows held: while nobody else writes the row and the record a request is *)
(* about, as when requests come one at a time, a check's read is still     *)
(* true when it clears.  Deletions may come at any time.                   *)
(***************************************************************************)

RowsHeld ==
    \A r \in Requests : pc[r] # "idle" /\ pc'[r] = pc[r] =>
        LET u == call[r].user
            i == users[u].banId
        IN /\ users'[u].isBanned = users[u].isBanned /\ users'[u].banId = i
           /\ i # None => banHistory'[i] = banHistory[i]

HeldSpec == Init /\ [][Next /\ RowsHeld]_vars

ReadStillTrue(r) ==
    Checking(r) =>
       LET u == call[r].user IN
          /\ users[u].isBanned /\ users[u].banId = call[r].id
          /\ pc[r] = "clearMissing" => banHistory[call[r].id] = None

ReadsStillTrue == \A r \in Requests : ReadStillTrue(r)

LEMMA OthersWait ==
    ASSUME IInv, NEW r \in Requests, ReadStillTrue(r), RowsHeld, pc'[r] = pc[r], call'[r] = call[r]
    PROVE  ReadStillTrue(r)'
<1>1. Checking(r) => call[r].id # None
  BY ConstantsAssumption DEF Checking, IInv, CallHasId
<1> QED BY <1>1 DEF ReadStillTrue, Checking, RowsHeld

\* What request s holds is left alone by a step of r.
LEMMA OthersStay ==
    ASSUME IInv, NEW r \in Requests,
           (\E answer : Finish(r, answer)) \/ (\E next, c : Proceed(r, next, c))
    PROVE  \A s \in Requests \ {r} : pc'[s] = pc[s] /\ call'[s] = call[s]
BY DEF Finish, Proceed, IInv, TypesFit

LEMMA Idle ==
    ASSUME IInv, NEW r \in Requests, NEW answer, Finish(r, answer)
    PROVE  pc'[r] = "idle"
BY DEF Finish, IInv, TypesFit

LEMMA ReadStillTrueStep ==
    ASSUME IInv, ReadsStillTrue, NEW r \in Requests, (Next /\ RowsHeld) \/ UNCHANGED vars
    PROVE  ReadStillTrue(r)'
<1> USE DEF IInv, TypesFit
<1>1. ASSUME RowsHeld, NEW s \in Requests, s # r,
             (\E answer : Finish(s, answer)) \/ (\E next, c : Proceed(s, next, c))
      PROVE  ReadStillTrue(r)'
  BY <1>1, OthersStay, OthersWait DEF ReadsStillTrue
<1>2. ASSUME RowsHeld, NEW s \in Requests, s # r,
             \/ \E u \in Users : (\E h \in Hours : BanRow(s, u, h)) \/ Unban(s, u) \/ CheckRow(s, u)
             \/ BanRecord(s) \/ CheckRecord(s) \/ CheckClear(s) \/ StatementFails(s)
      PROVE  ReadStillTrue(r)'
  BY <1>1, <1>2 DEF BanRow, Unban, CheckRow, BanRecord, CheckRecord, CheckClear, StatementFails
<1>3. ASSUME NEW u \in Users, NEW h \in Hours, BanRow(r, u, h) PROVE ReadStillTrue(r)'
  BY <1>3 DEF BanRow, Proceed, ReadStillTrue, Checking
<1>4. ASSUME NEW u \in Users, CheckRow(r, u) PROVE ReadStillTrue(r)'
  BY <1>4 DEF CheckRow, Finish, Proceed, ReadStillTrue, Checking
<1>5. CASE CheckRecord(r)
  BY <1>5 DEF CheckRecord, Finish, Proceed, ReadsStillTrue, ReadStillTrue, Checking
<1>6. ASSUME pc'[r] = "idle" PROVE ReadStillTrue(r)'
  BY <1>6 DEF ReadStillTrue, Checking
<1>7. CASE (\E u \in Users : Unban(r, u)) \/ BanRecord(r) \/ CheckClear(r) \/ StatementFails(r)
  BY <1>6, <1>7, Idle DEF Unban, BanRecord, CheckClear, StatementFails
<1>8. CASE Crash
  BY <1>6, <1>8 DEF Crash
<1>9. ASSUME RowsHeld, (\E u \in Users : SoftDelete(u)) \/ Tick PROVE ReadStillTrue(r)'
  BY <1>9, OthersWait DEF SoftDelete, Tick, ReadsStillTrue
<1>10. CASE UNCHANGED vars
  BY <1>10 DEF vars, ReadsStillTrue, ReadStillTrue, Checking
<1> QED BY <1>2, <1>3, <1>4, <1>5, <1>7, <1>8, <1>9, <1>10 DEF Next, Advance

LEMMA PromiseInit == Init => Promise!Init
<1> SUFFICES ASSUME Init PROVE Promise!Init
  OBVIOUS
<1>1. BeingRecorded = {}
  BY DEF Init, BeingRecorded
<1>2. \A u \in Users : StandingBan[u] \in {Promise!Free, Promise!Gone}
  BY DEF Init, StandingBan, Promise!Free, Promise!Gone
<1>3. StandingBan \in [Users -> {Promise!Free, Promise!Gone}]
  BY <1>2 DEF StandingBan
<1> QED BY <1>1, <1>3 DEF Init, Promise!Init

\* The row of u and the record it leads to decide what stands against u.
LEMMA SameStanding ==
    ASSUME NEW u \in Users, users'[u] = users[u],
           users[u].isBanned => banHistory'[users[u].banId] = banHistory[users[u].banId]
    PROVE  StandingBan'[u] = StandingBan[u]
  BY DEF StandingBan

\* A step that changes neither what stands nor who is recording stutters.
LEMMA Stutter ==
    ASSUME now' = now, BeingRecorded' = BeingRecorded,
           \A u \in Users : StandingBan'[u] = StandingBan[u]
    PROVE  UNCHANGED Promise!vars
<1>1. StandingBan' = StandingBan
  BY DEF StandingBan
<1> QED BY <1>1 DEF Promise!vars

\* A step that changes what stands against u alone.
LEMMA OnlyU ==
    ASSUME NEW u \in Users, \A v \in Users \ {u} : StandingBan'[v] = StandingBan[v]
    PROVE  StandingBan' = [StandingBan EXCEPT ![u] = StandingBan'[u]]
<1> DEFINE S == StandingBan
           T == StandingBan'
<1>1. S = [v \in Users |-> S[v]] /\ T = [v \in Users |-> T[v]]
  BY DEF StandingBan
<1> HIDE DEF S, T
<1>2. (\A v \in Users \ {u} : T[v] = S[v]) => T = [S EXCEPT ![u] = T[u]]
  BY <1>1
<1> QED BY <1>2 DEF S, T

\* As long as no row changes, whoever is being recorded still is, but for the
\* one the moving request speaks of.
Recording(r, u) == /\ users[u].live /\ users[u].isBanned
                   /\ pc[r] = "record" /\ call[r].user = u /\ call[r].id = users[u].banId

LEMMA RecordedBySome == BeingRecorded = {u \in Users : \E r \in Requests : Recording(r, u)}
BY DEF BeingRecorded, Recording

LEMMA RecordedBySomeNext == BeingRecorded' = {u \in Users : \E r \in Requests : Recording(r, u)'}
BY DEF BeingRecorded, Recording

LEMMA SameRecorders ==
    ASSUME NEW u \in Users, \A r \in Requests : Recording(r, u)' <=> Recording(r, u)
    PROVE  u \in BeingRecorded' <=> u \in BeingRecorded
BY RecordedBySome, RecordedBySomeNext

LEMMA PromiseBanRow ==
    ASSUME IInv, NEW r \in Requests, NEW u \in Users, NEW h \in Hours, BanRow(r, u, h)
    PROVE  [Promise!Next]_Promise!vars
<1>1. PICK i \in FreshIds : UpdateUser(u, TRUE, i) /\ Proceed(r, "record", [user |-> u, id |-> i, hours |-> h])
  BY DEF BanRow
<1>2. /\ UNCHANGED <<now, banHistory>> /\ pc[r] = "idle"
      /\ pc'[r] = "record" /\ call'[r] = [user |-> u, id |-> i, hours |-> h]
  BY <1>1 DEF BanRow, Proceed, IInv, TypesFit
<1>3. \A v \in Users \ {u} : users'[v] = users[v]
  BY <1>1 DEF UpdateUser, IInv, TypesFit
<1>4. \A s \in Requests \ {r} : pc'[s] = pc[s] /\ call'[s] = call[s]
  BY <1>1, OthersStay
<1>5. ASSUME NEW v \in Users \ {u} PROVE v \in BeingRecorded' <=> v \in BeingRecorded
  <2>1. \A s \in Requests : Recording(s, v)' <=> Recording(s, v)
    BY <1>2, <1>3, <1>4 DEF Recording
  <2> QED BY <2>1, SameRecorders
<1>6. BeingRecorded \subseteq Users /\ BeingRecorded' \subseteq Users
  BY DEF BeingRecorded
<1>7. CASE ~ users[u].live
  <2>1. users' = users
    BY <1>1, <1>7 DEF UpdateUser
  <2>2. \A s \in Requests : Recording(s, u)' <=> Recording(s, u)
    BY <1>7, <2>1 DEF Recording
  <2>3. BeingRecorded' = BeingRecorded
    BY <1>5, <1>6, <2>2, SameRecorders
  <2> QED BY <1>2, <2>1, <2>3, SameStanding, Stutter
<1>8. CASE users[u].live
  <2>1. users'[u] = [live |-> TRUE, isBanned |-> TRUE, banId |-> i]
    BY <1>1, <1>8 DEF UpdateUser, IInv, TypesFit
  <2>2. banHistory[i] = None
    <3>1. i \in BanIds /\ i \notin issued
      BY <1>1 DEF FreshIds
    <3>2. banHistory[i] # None => banHistory[i].userId \in Users
      BY <3>1 DEF IInv, TypesFit, Records
    <3> QED BY <3>1, <3>2 DEF IInv, HeldIssued, Holds
  <2>3. StandingBan'[u] = Promise!Claimed
    BY <1>2, <2>1, <2>2 DEF StandingBan, Promise!Claimed
  <2>4. \A v \in Users \ {u} : StandingBan'[v] = StandingBan[v]
    BY <1>2, <1>3, SameStanding
  <2>5. u \in BeingRecorded'
    BY <1>2, <2>1 DEF BeingRecorded
  <2>6. BeingRecorded' = BeingRecorded \cup {u}
    BY <1>5, <1>6, <2>5
  <2>7. StandingBan[u] # Promise!Gone
    BY <1>8 DEF StandingBan, Promise!Gone, IInv, TypesFit, Rows
  <2>8. Promise!Claim(u)
    BY <1>2, <2>3, <2>4, <2>6, <2>7, OnlyU DEF Promise!Claim
  <2> QED BY <2>8 DEF Promise!Next
<1> QED BY <1>7, <1>8

LEMMA PromiseRecord ==
    ASSUME IInv, NEW r \in Requests, BanRecord(r)
    PROVE  [Promise!Next]_Promise!vars
<1> SUFFICES ASSUME NEW u, u = call[r].user, NEW i, i = call[r].id
             PROVE  [Promise!Next]_Promise!vars
  OBVIOUS
<1>1. /\ u \in Users /\ i \in BanIds /\ pc[r] = "record" /\ UNCHANGED <<now, users>>
      /\ \A j \in BanIds \ {i} : banHistory'[j] = banHistory[j]
      /\ banHistory'[i] = [userId |-> u, bannedAt |-> now, banExpiry |-> now + Span(call[r].hours)]
  BY DEF BanRecord, IInv, CallHasId, TypesFit, Calls
<1>2. banHistory'[i] # None
  <2>1. now + Span(call[r].hours) \in Int
    BY <1>1, SpanIsInt, HoursZero DEF IInv, TypesFit, Calls
  <2>2. banHistory'[i] \in Records
    BY <1>1, <2>1 DEF Records, IInv, TypesFit
  <2> QED BY <2>2, ConstantsAssumption
<1>3. pc'[r] = "idle" /\ \A s \in Requests \ {r} : pc'[s] = pc[s] /\ call'[s] = call[s]
  BY Idle, OthersStay DEF BanRecord
<1>4. ASSUME NEW v \in Users \ {u} PROVE StandingBan'[v] = StandingBan[v]
  <2>1. users[v].banId # i
    BY <1>1 DEF IInv, OneHolder, Holds
  <2>2. users[v].isBanned => users[v].banId \in BanIds
    BY DEF IInv, FlaggedHasId
  <2> QED BY <1>1, <2>1, <2>2, SameStanding
<1>5. ASSUME NEW v \in Users \ {u} PROVE v \in BeingRecorded' <=> v \in BeingRecorded
  <2>1. \A s \in Requests : Recording(s, v)' <=> Recording(s, v)
    BY <1>1, <1>3 DEF Recording
  <2> QED BY <2>1, SameRecorders
<1>6. BeingRecorded \subseteq Users /\ BeingRecorded' \subseteq Users
  BY DEF BeingRecorded
<1>7. CASE users[u].live /\ users[u].isBanned /\ users[u].banId = i
  <2>1. u \in BeingRecorded
    BY <1>1, <1>7 DEF BeingRecorded
  <2>2. u \notin BeingRecorded'
    <3>1. ASSUME NEW s \in Requests, Recording(s, u)' PROVE FALSE
      <4>1. s # r /\ pc[s] = "record" /\ call[s].id = i
        BY <1>1, <1>3, <1>7, <3>1 DEF Recording
      <4> QED BY <1>1, <4>1 DEF IInv, RecordPending
    <3> QED BY <3>1, RecordedBySomeNext
  <2>3. BeingRecorded' = BeingRecorded \ {u}
    BY <1>5, <1>6, <2>2
  <2>4. StandingBan'[u] = Promise!Live(banHistory'[i].banExpiry)
    BY <1>1, <1>2, <1>7 DEF StandingBan, Promise!Live
  <2>5. Promise!Record(u)
    BY <1>1, <1>4, <2>1, <2>3, <2>4, OnlyU DEF Promise!Record, Promise!Live
  <2> QED BY <1>1, <2>5 DEF Promise!Next
<1>8. CASE ~ (users[u].live /\ users[u].isBanned /\ users[u].banId = i)
  <2>1. \A s \in Requests : Recording(s, u)' <=> Recording(s, u)
    BY <1>1, <1>3, <1>8 DEF Recording
  <2>2. BeingRecorded' = BeingRecorded
    BY <1>1, <1>5, <1>6, <2>1, SameRecorders
  <2>3. StandingBan'[u] = StandingBan[u]
    <3>1. CASE users[u].banId # i
      <4>1. users[u].isBanned => users[u].banId \in BanIds
        BY <1>1 DEF IInv, FlaggedHasId
      <4> QED BY <1>1, <3>1, <4>1, SameStanding
    <3>2. CASE ~ users[u].isBanned
      BY <1>1, <3>2, SameStanding
    <3>3. CASE ~ users[u].live
      BY <1>1, <3>3 DEF StandingBan
    <3> QED BY <1>8, <3>1, <3>2, <3>3
  <2> QED BY <1>1, <1>4, <2>2, <2>3, Stutter
<1> QED BY <1>7, <1>8

\* A row is cleared by a request that records nothing: who else is recorded
\* still is.
LEMMA ClearedRow ==
    ASSUME IInv, NEW r \in Requests, NEW u \in Users, NEW id, UpdateUser(u, FALSE, id),
           NEW answer, Finish(r, answer), pc[r] # "record"
    PROVE  /\ \A v \in Users \ {u} : users'[v] = users[v]
           /\ users[u].live => users'[u] = [live |-> TRUE, isBanned |-> FALSE, banId |-> id]
           /\ ~ users[u].live => users' = users
           /\ BeingRecorded' = BeingRecorded \ {u}
<1>1. /\ \A v \in Users \ {u} : users'[v] = users[v]
      /\ users[u].live => users'[u] = [live |-> TRUE, isBanned |-> FALSE, banId |-> id]
      /\ ~ users[u].live => users' = users
  BY DEF UpdateUser, IInv, TypesFit
<1>2. pc'[r] = "idle" /\ \A s \in Requests \ {r} : pc'[s] = pc[s] /\ call'[s] = call[s]
  BY Idle, OthersStay
<1>3. ASSUME NEW v \in Users \ {u} PROVE v \in BeingRecorded' <=> v \in BeingRecorded
  <2>1. \A s \in Requests : Recording(s, v)' <=> Recording(s, v)
    BY <1>1, <1>2 DEF Recording
  <2> QED BY <2>1, SameRecorders
<1>4. ~ users'[u].live \/ ~ users'[u].isBanned
  BY <1>1
<1>5. BeingRecorded \subseteq Users /\ BeingRecorded' \subseteq Users /\ u \notin BeingRecorded'
  BY <1>4 DEF BeingRecorded
<1> QED BY <1>1, <1>3, <1>5

\* UnbanUser: a user who is not banned, or has no account, sees nothing;
\* otherwise what stood against u is lifted.
LEMMA PromiseUnban ==
    ASSUME IInv, NEW r \in Requests, NEW u \in Users, Unban(r, u)
    PROVE  [Promise!Next]_Promise!vars
<1>1. /\ UNCHANGED <<now, banHistory>>
      /\ \A v \in Users \ {u} : users'[v] = users[v]
      /\ users[u].live => users'[u] = [live |-> TRUE, isBanned |-> FALSE, banId |-> users[u].banId]
      /\ ~ users[u].live => users' = users
      /\ BeingRecorded' = BeingRecorded \ {u}
  BY ClearedRow DEF Unban
<1>2. ASSUME NEW v \in Users \ {u} PROVE StandingBan'[v] = StandingBan[v]
  BY <1>1, SameStanding
<1>3. CASE users[u].live /\ users[u].isBanned
  <2>1. users[u].banId # None
    BY ConstantsAssumption, <1>3 DEF IInv, FlaggedHasId
  <2>2. StandingBan'[u] = Promise!Lifted
    BY <1>1, <1>3, <2>1 DEF StandingBan, Promise!Lifted
  <2>3. StandingBan[u].state \in {"claimed", "live"}
    BY <1>3 DEF StandingBan
  <2>4. Promise!Lift(u)
    BY <1>1, <1>2, <2>2, <2>3, OnlyU DEF Promise!Lift
  <2> QED BY <2>4 DEF Promise!Next
<1>4. CASE ~ (users[u].live /\ users[u].isBanned)
  <2>1. StandingBan'[u] = StandingBan[u]
    <3>1. CASE users[u].live
      BY <1>1, <1>4, <3>1 DEF StandingBan
    <3>2. CASE ~ users[u].live
      BY <1>1, <3>2, SameStanding
    <3> QED BY <3>1, <3>2
  <2>2. u \notin BeingRecorded
    BY <1>4 DEF BeingRecorded
  <2> QED BY <1>1, <1>2, <2>1, <2>2, Stutter
<1> QED BY <1>3, <1>4

\* The clearing write of a check: nobody is recording the ban it takes down.
LEMMA PromiseClear ==
    ASSUME IInv, NEW r \in Requests, ReadStillTrue(r), RowsHeld, CheckClear(r)
    PROVE  [Promise!Next]_Promise!vars
<1> SUFFICES ASSUME NEW u, u = call[r].user, NEW i, i = call[r].id
             PROVE  [Promise!Next]_Promise!vars
  OBVIOUS
<1>1. /\ UNCHANGED <<now, banHistory>> /\ u \in Users /\ i \in BanIds
      /\ pc[r] \in {"clearMissing", "clearLapsed"}
  BY DEF CheckClear, IInv, CallHasId, TypesFit, Calls
<1>2. /\ \A v \in Users \ {u} : users'[v] = users[v]
      /\ users[u].live => users'[u] = [live |-> TRUE, isBanned |-> FALSE, banId |-> None]
      /\ ~ users[u].live => users' = users
      /\ BeingRecorded' = BeingRecorded \ {u}
  <2>1. UpdateUser(u, FALSE, None) /\ pc[r] # "record" /\ Finish(r, "free") /\ u \in Users
    BY <1>1 DEF CheckClear
  <2>2. \A v \in Users \ {u} : users'[v] = users[v]
    BY <2>1, ClearedRow
  <2>3. users[u].live => users'[u] = [live |-> TRUE, isBanned |-> FALSE, banId |-> None]
    BY <2>1 DEF UpdateUser, IInv, TypesFit
  <2>4. ~ users[u].live => users' = users
    BY <2>1, ClearedRow
  <2>5. BeingRecorded' = BeingRecorded \ {u}
    BY <2>1, ClearedRow
  <2> QED BY <2>2, <2>3, <2>4, <2>5
<1>3. users[u].isBanned /\ users[u].banId = i
  BY <1>1 DEF ReadStillTrue, Checking
<1>4. u \notin BeingRecorded
  <2> SUFFICES ASSUME users[u].live, NEW s \in Requests, Recording(s, u) PROVE FALSE
    BY RecordedBySome DEF Recording
  <2>1. s # r /\ pc[s] = "record" /\ call[s].user = u
    BY <1>1 DEF Recording
  <2>2. pc'[s] = pc[s]
    BY <2>1, OthersStay DEF CheckClear
  <2>3. users'[u].isBanned = users[u].isBanned
    BY <2>1, <2>2 DEF RowsHeld
  <2>4. u \in Users /\ users[u].live /\ users[u].isBanned
    BY <1>1, <1>3
  <2>5. users'[u].isBanned = FALSE
    BY <1>2, <2>4
  <2> QED BY <2>3, <2>4, <2>5
<1>5. ASSUME NEW v \in Users \ {u} PROVE StandingBan'[v] = StandingBan[v]
  BY <1>1, <1>2, SameStanding
<1>6. CASE ~ users[u].live
  <2>1. StandingBan'[u] = StandingBan[u]
    BY <1>1, <1>2, <1>6, SameStanding
  <2> QED BY <1>1, <1>2, <1>4, <1>5, <2>1, Stutter
<1>7. CASE users[u].live
  <2>1. StandingBan'[u] = Promise!Free
    BY <1>1, <1>2, <1>7 DEF StandingBan, Promise!Free
  <2>2. CASE pc[r] = "clearMissing"
    <3>1. StandingBan[u].state = "claimed"
      BY <1>1, <1>3, <1>7, <2>2 DEF ReadStillTrue, Checking, StandingBan
    <3>2. Promise!Forget(u)
      BY <1>1, <1>2, <1>4, <1>5, <2>1, <3>1, OnlyU DEF Promise!Forget
    <3> QED BY <1>1, <3>2 DEF Promise!Next
  <2>3. CASE pc[r] = "clearLapsed"
    <3>1. banHistory[i] # None /\ banHistory[i].banExpiry < now
      BY <2>3 DEF IInv, LapsedJudged, Lapsed
    <3>2. StandingBan[u].state = "live" /\ StandingBan[u].until = banHistory[i].banExpiry
      BY <1>1, <1>3, <1>7, <3>1 DEF StandingBan
    <3>3. Promise!Expire(u)
      BY <1>1, <1>2, <1>4, <1>5, <2>1, <3>1, <3>2, OnlyU DEF Promise!Expire
    <3> QED BY <1>1, <3>3 DEF Promise!Next
  <2> QED BY <1>1, <2>2, <2>3
<1> QED BY <1>6, <1>7

\* Calls that fail, or all that die, give up the bans they were recording.
LEMMA PromiseDies ==
    ASSUME UNCHANGED <<now, users, banHistory>>,
           \A s \in Requests : pc'[s] = "record" => pc[s] = "record" /\ call'[s] = call[s]
    PROVE  [Promise!Next]_Promise!vars
<1> DEFINE gone == BeingRecorded \ BeingRecorded'
<1>1. BeingRecorded' \subseteq BeingRecorded /\ BeingRecorded \subseteq Users
  BY DEF BeingRecorded
<1>2. \A v \in Users : StandingBan'[v] = StandingBan[v]
  BY SameStanding
<1>3. StandingBan' = StandingBan
  BY DEF StandingBan
<1>4. CASE gone = {}
  BY <1>1, <1>2, <1>4, Stutter
<1>5. CASE gone # {}
  <2>1. gone \subseteq BeingRecorded /\ BeingRecorded' = BeingRecorded \ gone /\ gone \in SUBSET Users
    BY <1>1
  <2> HIDE DEF gone
  <2>2. Promise!Abandon(gone)
    BY <1>3, <1>5, <2>1 DEF Promise!Abandon
  <2> QED BY <2>1, <2>2 DEF Promise!Next
<1> QED BY <1>4, <1>5

LEMMA PromiseRemove ==
    ASSUME IInv, NEW u \in Users, SoftDelete(u)
    PROVE  [Promise!Next]_Promise!vars
<1>1. UNCHANGED <<now, banHistory, pc, call>> /\ users[u].live
  BY DEF SoftDelete
<1>2. /\ \A v \in Users \ {u} : users'[v] = users[v]
      /\ ~ users'[u].live
  BY DEF SoftDelete, IInv, TypesFit, Rows
<1>3. \A v \in Users \ {u} : StandingBan'[v] = StandingBan[v]
  BY <1>1, <1>2, SameStanding
<1>4. StandingBan'[u] = Promise!Gone
  BY <1>2 DEF StandingBan, Promise!Gone
<1>5. StandingBan[u] # Promise!Gone
  BY <1>1 DEF StandingBan, Promise!Gone, IInv, TypesFit, Rows
<1>6. BeingRecorded' = BeingRecorded \ {u}
  BY <1>1, <1>2 DEF BeingRecorded
<1>7. Promise!Remove(u)
  BY <1>1, <1>3, <1>4, <1>5, <1>6, OnlyU DEF Promise!Remove
<1> QED BY <1>7 DEF Promise!Next

LEMMA PromiseStep ==
    ASSUME IInv, ReadsStillTrue, (Next /\ RowsHeld) \/ UNCHANGED vars
    PROVE  [Promise!Next]_Promise!vars
<1>1. ASSUME NEW r \in Requests, NEW u \in Users, NEW h \in Hours, BanRow(r, u, h)
      PROVE  [Promise!Next]_Promise!vars
  BY <1>1, PromiseBanRow
<1>2. ASSUME NEW r \in Requests, NEW u \in Users, Unban(r, u) PROVE [Promise!Next]_Promise!vars
  BY <1>2, PromiseUnban
<1>3. ASSUME NEW r \in Requests, UNCHANGED <<now, users, banHistory>>, pc'[r] # "record",
             \A s \in Requests \ {r} : pc'[s] = pc[s] /\ call'[s] = call[s]
      PROVE  [Promise!Next]_Promise!vars
  BY <1>3, PromiseDies
<1>4. ASSUME NEW r \in Requests, NEW u \in Users, CheckRow(r, u) PROVE [Promise!Next]_Promise!vars
  <2>1. pc'[r] # "record" /\ UNCHANGED <<now, users, banHistory>>
    BY <1>4 DEF CheckRow, Finish, Proceed, IInv, TypesFit
  <2> QED BY <1>3, <1>4, <2>1, OthersStay DEF CheckRow
<1>5. ASSUME NEW r \in Requests, CheckRecord(r) PROVE [Promise!Next]_Promise!vars
  <2>1. pc'[r] # "record" /\ UNCHANGED <<now, users, banHistory>>
    BY <1>5 DEF CheckRecord, Finish, Proceed, IInv, TypesFit
  <2> QED BY <1>3, <1>5, <2>1, OthersStay DEF CheckRecord
<1>6. ASSUME NEW r \in Requests, BanRecord(r) PROVE [Promise!Next]_Promise!vars
  BY <1>6, PromiseRecord
<1>7. ASSUME NEW r \in Requests, CheckClear(r), RowsHeld PROVE [Promise!Next]_Promise!vars
  BY <1>7, PromiseClear DEF ReadsStillTrue
<1>8. ASSUME NEW r \in Requests, StatementFails(r) PROVE [Promise!Next]_Promise!vars
  <2>1. pc'[r] # "record" /\ UNCHANGED <<now, users, banHistory>>
    BY <1>8, Idle DEF StatementFails
  <2> QED BY <1>3, <1>8, <2>1, OthersStay DEF StatementFails
<1>9. ASSUME Crash PROVE [Promise!Next]_Promise!vars
  BY <1>9, PromiseDies DEF Crash
<1>10. ASSUME NEW u \in Users, SoftDelete(u) PROVE [Promise!Next]_Promise!vars
  BY <1>10, PromiseRemove
<1>11. ASSUME Tick PROVE Promise!Next
  <2>1. UNCHANGED <<users, banHistory, pc, call>> /\ now' = now + 1
    BY <1>11 DEF Tick
  <2>2. StandingBan' = StandingBan /\ BeingRecorded' = BeingRecorded
    BY <2>1 DEF StandingBan, BeingRecorded
  <2> QED BY <2>1, <2>2 DEF Promise!Next, Promise!Tick
<1>12. ASSUME UNCHANGED vars PROVE UNCHANGED Promise!vars
  <2>1. UNCHANGED <<now, users, banHistory, pc, call>>
    BY <1>12 DEF vars
  <2>2. StandingBan' = StandingBan /\ BeingRecorded' = BeingRecorded
    BY <2>1 DEF StandingBan, BeingRecorded
  <2> QED BY <2>1, <2>2 DEF Promise!vars
<1> QED BY <1>1, <1>2, <1>4, <1>5, <1>6, <1>7, <1>8, <1>9, <1>10, <1>11, <1>12 DEF Next, Advance

\* Requests that nobody gets in between of keep what BanPromise promises.
LEMMA HeldBansAreKept == HeldSpec => BanKept
<1>1. Init => ReadsStillTrue
  BY DEF Init, ReadsStillTrue, ReadStillTrue, Checking
<1>2. IInv /\ ReadsStillTrue /\ [Next /\ RowsHeld]_vars => ReadsStillTrue'
  BY ReadStillTrueStep DEF ReadsStillTrue
<1>3. IInv /\ ReadsStillTrue /\ [Next /\ RowsHeld]_vars => [Promise!Next]_Promise!vars
  BY PromiseStep
<1>4. Init => Promise!Init
  BY PromiseInit
<1>5. HeldSpec => Spec
  BY PTL DEF HeldSpec, Spec
<1>6. Spec => []IInv
  BY Invariance
<1> QED BY <1>1, <1>2, <1>3, <1>4, <1>5, <1>6, PTL DEF HeldSpec, BanKept, Promise!Spec

\* BanKept, with one request at a time: nobody else is there to write.
THEOREM SerialBansAreKept ==
    ASSUME NEW r \in Requests, Requests = {r}
    PROVE  Spec => BanKept
<1>1. ASSUME IInv, Next, pc[r] # "idle", pc'[r] = pc[r]
      PROVE  UNCHANGED users \/ \E u \in Users : SoftDelete(u)
  <2>1. ASSUME NEW u \in Users,
               Unban(r, u) \/ CheckRow(r, u) \/ \E h \in Hours : BanRow(r, u, h)
        PROVE  FALSE
    BY <1>1, <2>1 DEF Unban, CheckRow, BanRow
  <2>2. ~ BanRecord(r) /\ ~ CheckClear(r) /\ ~ StatementFails(r)
    BY <1>1, Idle DEF BanRecord, CheckClear, StatementFails
  <2> QED BY <1>1, <2>1, <2>2 DEF Next, Advance, CheckRecord, Crash, Tick
<1>2. ASSUME IInv, Next, pc[r] # "idle", pc'[r] = pc[r] PROVE UNCHANGED banHistory
  <2>1. ~ BanRecord(r)
    BY <1>2, Idle DEF BanRecord
  <2> QED BY <1>2, <2>1 DEF Next, Advance, BanRow, Unban, CheckRow, CheckRecord, CheckClear,
          StatementFails, SoftDelete, Crash, Tick
<1>3. IInv /\ [Next]_vars => [Next /\ RowsHeld]_vars
  <2> SUFFICES ASSUME IInv, Next, pc[r] # "idle", pc'[r] = pc[r]
               PROVE  LET u == call[r].user IN
                        users'[u].isBanned = users[u].isBanned /\ users'[u].banId = users[u].banId
    BY <1>2 DEF RowsHeld
  <2>1. call[r].user \in Users
    BY DEF IInv, TypesFit, Calls
  <2>2. ASSUME NEW u \in Users, SoftDelete(u), NEW v \in Users
        PROVE  users'[v].isBanned = users[v].isBanned /\ users'[v].banId = users[v].banId
    BY <2>2 DEF SoftDelete, IInv, TypesFit, Rows
  <2> QED BY <1>1, <2>1, <2>2
<1> QED BY <1>3, Invariance, HeldBansAreKept, PTL DEF Spec, HeldSpec

-----------------------------------------------------------------------------
(* Hours *)

LEMMA ModSmall == ASSUME NEW w \in Nat \ {0}, NEW x \in 0 .. w - 1 PROVE x % w = x
  OBVIOUS

LEMMA ModRange == ASSUME NEW w \in Nat \ {0}, NEW x \in Int PROVE x % w \in 0 .. w - 1
  OBVIOUS

\* The product is what the caller meant when a Duration holds it, and only then.
LEMMA SpanExact ==
    ASSUME NEW h \in Int
    PROVE  FitsDuration(h) <=> Span(h) = h * HourLength
<1> DEFINE x == h * HourLength
           half == Word \div 2
<1>1. x \in Int /\ half \in Nat /\ Word \in Nat \ {0}
  BY ConstantsAssumption
<1>2. Span(h) = ((x + half) % Word) - half
  BY DEF Span
<1>3. FitsDuration(h) <=> x \in -half .. Word - half - 1
  BY DEF FitsDuration
<1> HIDE DEF x, half
<1>4. ASSUME x \in -half .. Word - half - 1 PROVE Span(h) = x
  <2>1. x + half \in 0 .. Word - 1
    BY <1>1, <1>4
  <2>2. (x + half) % Word = x + half
    BY <1>1, <2>1, ModSmall
  <2> QED BY <1>1, <1>2, <2>2
<1>5. ASSUME Span(h) = x PROVE x \in -half .. Word - half - 1
  <2>1. (x + half) % Word \in 0 .. Word - 1
    BY <1>1, ModRange
  <2>2. (x + half) % Word = x + half
    BY <1>1, <1>2, <1>5, <2>1
  <2>3. x + half \in 0 .. Word - 1
    BY <2>1, <2>2
  <2> QED BY <1>1, <2>3
<1>6. FitsDuration(h) <=> Span(h) = x
  BY <1>3, <1>4, <1>5
<1> QED BY <1>6 DEF x

\* A record holds the span of the hours asked for with its ban.
AskedInv ==
    /\ \A r \in Requests : pc[r] = "record" =>
          call[r].hours \in Hours /\ <<call[r].id, call[r].hours>> \in asked
    /\ \A i \in BanIds : banHistory[i] # None => \E h \in Hours :
          <<i, h>> \in asked /\ banHistory[i].banExpiry = banHistory[i].bannedAt + Span(h)

LEMMA AskedGrows ==
    ASSUME HNext
    PROVE  /\ asked \subseteq asked'
           /\ \A r \in Requests : pc'[r] = "record" => <<call'[r].id, call'[r].hours>> \in asked'
BY DEF HNext

LEMMA AskedStep == IInv /\ AskedInv /\ [HNext]_hvars => AskedInv'
<1> SUFFICES ASSUME IInv, AskedInv, [HNext]_hvars PROVE AskedInv'
  OBVIOUS
<1>1. CASE UNCHANGED hvars
  BY <1>1 DEF hvars, vars, AskedInv
<1>2. CASE HNext
  <2>1. ASSUME NEW r \in Requests, pc'[r] = "record" PROVE call'[r].hours \in Hours
    <3>1. CASE pc'[r] = pc[r] /\ call'[r] = call[r]
      BY <2>1, <3>1 DEF AskedInv
    <3>2. ASSUME NEW s \in Requests, NEW u \in Users, NEW h \in Hours, BanRow(s, u, h)
          PROVE  call'[r].hours \in Hours
      <4>1. PICK i \in BanIds : Proceed(s, "record", [user |-> u, id |-> i, hours |-> h])
        BY <3>2 DEF BanRow, FreshIds
      <4>2. CASE r = s
        BY <4>1, <4>2 DEF Proceed, IInv, TypesFit
      <4>3. CASE r # s
        <5>1. pc'[r] = pc[r] /\ call'[r] = call[r]
          BY <4>1, <4>3 DEF Proceed, IInv, TypesFit
        <5> QED BY <3>1, <5>1
      <4> QED BY <4>2, <4>3
    <3>3. ASSUME NEW s \in Requests, Advance(s) \/ StatementFails(s)
          PROVE  pc'[r] = pc[r] /\ call'[r] = call[r]
      BY <2>1, <3>3 DEF Advance, BanRecord, CheckRecord, CheckClear, StatementFails, Finish,
                        Proceed, IInv, TypesFit
    <3>4. ASSUME NEW s \in Requests, NEW u \in Users, Unban(s, u) \/ CheckRow(s, u)
          PROVE  pc'[r] = pc[r] /\ call'[r] = call[r]
      BY <2>1, <3>4 DEF Unban, CheckRow, Finish, Proceed, IInv, TypesFit
    <3>5. CASE (\E u \in Users : SoftDelete(u)) \/ Crash \/ Tick
      BY <2>1, <3>1, <3>5 DEF SoftDelete, Crash, Tick
    <3> QED BY <1>2, <3>1, <3>2, <3>3, <3>4, <3>5 DEF HNext, Next
  <2>2. ASSUME NEW i \in BanIds, banHistory'[i] # None
        PROVE  \E h \in Hours :
                  <<i, h>> \in asked' /\ banHistory'[i].banExpiry = banHistory'[i].bannedAt + Span(h)
    <3>1. CASE banHistory'[i] = banHistory[i]
      BY <1>2, <2>2, <3>1, AskedGrows DEF AskedInv
    <3>2. ASSUME NEW r \in Requests, BanRecord(r), i = call[r].id
          PROVE  \E h \in Hours :
                    <<i, h>> \in asked' /\ banHistory'[i].banExpiry = banHistory'[i].bannedAt + Span(h)
      <4>1. call[r].hours \in Hours /\ <<i, call[r].hours>> \in asked'
        BY <1>2, <3>2, AskedGrows DEF BanRecord, AskedInv
      <4>2. banHistory'[i] = [userId |-> call[r].user, bannedAt |-> now,
                              banExpiry |-> now + Span(call[r].hours)]
        BY <3>2 DEF BanRecord, IInv, TypesFit
      <4> QED BY <4>1, <4>2
    <3>3. banHistory'[i] = banHistory[i] \/ \E r \in Requests : BanRecord(r) /\ i = call[r].id
      BY <1>2 DEF HNext, Next, Advance, BanRow, Unban, CheckRow, CheckRecord, CheckClear, BanRecord,
                  StatementFails, SoftDelete, Crash, Tick, IInv, TypesFit
    <3> QED BY <3>1, <3>2, <3>3
  <2> QED BY <1>2, <2>1, <2>2, AskedGrows DEF AskedInv
<1> QED BY <1>1, <1>2

\* VerdictAsAsked: a check takes a ban for over exactly when the hours asked for
\* have passed, for the hours a Duration holds; and every other number of hours
\* ends its ban at another time than was asked.
THEOREM VerdictsAreAsAsked == HSpec => VerdictAsAsked
<1>1. HInit => IInv /\ AskedInv
  BY InvInit DEF HInit, Init, AskedInv
<1>2. IInv /\ AskedInv /\ [HNext]_hvars => (IInv /\ AskedInv)'
  BY InvStep, AskedStep DEF HNext, hvars
<1>3. ASSUME IInv, AskedInv, NEW r \in Requests, CheckRecord(r), banHistory[call[r].id] # None
      PROVE  AsAsked(r)
  <2> DEFINE i == call[r].id
             ban == banHistory[i]
  <2>1. i \in BanIds /\ ban \in Records
    BY <1>3 DEF CheckRecord, IInv, TypesFit, CallHasId
  <2>2. PICK h \in Hours : <<i, h>> \in asked /\ ban.banExpiry = ban.bannedAt + Span(h)
    BY <1>3, <2>1 DEF AskedInv
  <2> DEFINE x == h * HourLength
  <2>3. /\ h \in Int /\ x \in Int /\ Span(h) \in Int /\ ban.bannedAt \in Int /\ now \in Int
        /\ FitsDuration(h) <=> Span(h) = x
    BY <1>3, <2>1, SpanExact, SpanIsInt, ConstantsAssumption DEF Records, IInv, TypesFit
  <2> HIDE DEF x
  <2>4. FitsDuration(h) <=> ban.banExpiry = ban.bannedAt + x
    <3> DEFINE start == ban.bannedAt
    <3>1. start \in Int /\ ban.banExpiry = start + Span(h)
      BY <2>2, <2>3
    <3> HIDE DEF ban, start
    <3>2. ban.banExpiry = start + x <=> Span(h) = x
      BY <2>3, <3>1
    <3> QED BY <2>3, <3>2 DEF start
  <2>5. ban.banExpiry # 0 => (pc'[r] = "clearLapsed" <=> ban.banExpiry < now)
    BY <1>3, <2>2, <2>3 DEF CheckRecord, Lapsed, Proceed, Finish, IInv, TypesFit
  <2>6. FitsDuration(h) /\ ban.bannedAt + x # 0 =>
           (pc'[r] = "clearLapsed" <=> ban.bannedAt + x < now)
    BY <2>4, <2>5
  <2> QED BY <2>2, <2>4, <2>6 DEF x, AsAsked
<1>4. IInv /\ AskedInv => \A r \in Requests : AsAsked(r)
  BY <1>3 DEF AsAsked
<1>5. IInv /\ AskedInv /\ [HNext]_hvars => [\A r \in Requests : AsAsked(r)]_hvars
  BY <1>4
<1> QED BY <1>1, <1>2, <1>5, PTL DEF HSpec, VerdictAsAsked
=============================================================================
