--------------------------- MODULE TwoFactorProofs ---------------------------
(***************************************************************************)
(* What TwoFactor guarantees for any users, secrets and requests.  The     *)
(* invariant follows the secret from SetUpTwoFactorAuth's read to the      *)
(* write of the whole row: wherever it is (a row, an app, a row a request  *)
(* is about to save), it is with the user it was generated for.            *)
(***************************************************************************)
EXTENDS TwoFactorHistory, TLAPS

CallFits(r) == pc[r] # "idle" => call[r] \in Calls

\* The row a request is about to write back has its own user's secret.
SavesOwnSecret(r) == pc[r] = "save" => madeFor[call[r].row.twoFactorSecret] = call[r].user
                                       /\ call[r].row.twoFactorSecret \in Secrets

IInv == TypeOK /\ SecretsNotMixed /\ \A r \in Requests : CallFits(r) /\ SavesOwnSecret(r)

\* A secret once generated stays its user's.
MadeForStays == \A s \in Secrets : madeFor[s] # None => madeFor'[s] = madeFor[s]

-----------------------------------------------------------------------------

LEMMA OthersKeep ==
    ASSUME IInv, MadeForStays, NEW r \in Requests, pc'[r] = pc[r], call'[r] = call[r]
    PROVE  CallFits(r)' /\ SavesOwnSecret(r)'
BY ConstantsAssumption DEF IInv, MadeForStays, CallFits, SavesOwnSecret, Calls

Moves == /\ pc' \in [Requests -> PCs] /\ call' \in [Requests -> Calls \cup {None}]
         /\ \A s \in Requests : CallFits(s)' /\ SavesOwnSecret(s)'

LEMMA FinishMoves ==
    ASSUME IInv, MadeForStays, NEW r \in Requests, Finish(r)
    PROVE  Moves
<1>1. pc' \in [Requests -> PCs] /\ call' \in [Requests -> Calls \cup {None}]
  BY DEF Finish, IInv, TypeOK, PCs
<1>2. pc'[r] = "idle" /\ \A s \in Requests : s # r => pc'[s] = pc[s] /\ call'[s] = call[s]
  BY DEF Finish, IInv, TypeOK
<1>3. CallFits(r)' /\ SavesOwnSecret(r)'
  BY <1>2 DEF CallFits, SavesOwnSecret
<1>4. ASSUME NEW s \in Requests PROVE CallFits(s)' /\ SavesOwnSecret(s)'
  BY <1>2, <1>3, OthersKeep
<1> QED BY <1>1, <1>4 DEF Moves

LEMMA ProceedMoves ==
    ASSUME IInv, MadeForStays, NEW r \in Requests, NEW next \in PCs, NEW u \in Users,
           NEW row \in Rows, Proceed(r, next, u, row),
           next = "save" => madeFor'[row.twoFactorSecret] = u /\ row.twoFactorSecret \in Secrets
    PROVE  Moves
<1>1. [user |-> u, row |-> row] \in Calls
  BY DEF Calls
<1>2. pc' \in [Requests -> PCs] /\ call' \in [Requests -> Calls \cup {None}]
  BY <1>1 DEF Proceed, IInv, TypeOK
<1>3. /\ pc'[r] = next /\ call'[r] = [user |-> u, row |-> row]
      /\ \A s \in Requests : s # r => pc'[s] = pc[s] /\ call'[s] = call[s]
  BY DEF Proceed, IInv, TypeOK
<1>4. CallFits(r)' /\ SavesOwnSecret(r)'
  BY <1>1, <1>3 DEF CallFits, SavesOwnSecret
<1>5. ASSUME NEW s \in Requests PROVE CallFits(s)' /\ SavesOwnSecret(s)'
  BY <1>3, <1>4, OthersKeep
<1> QED BY <1>2, <1>5 DEF Moves

LEMMA IdleMoves == ASSUME IInv, MadeForStays, UNCHANGED <<pc, call>> PROVE Moves
BY OthersKeep DEF IInv, TypeOK, Moves

\* A row keeps its secret, loses it or gets one of its user's.
LEMMA RowKeeps ==
    ASSUME IInv, NEW u \in Users, NEW row \in Rows,
           row.twoFactorSecret # None => madeFor[row.twoFactorSecret] = u,
           users' = users \/ users' = [users EXCEPT ![u] = row],
           apps' = apps \/ apps' = [apps EXCEPT ![u] = row.twoFactorSecret],
           UNCHANGED madeFor, Moves
    PROVE  IInv'
<1>1. row.twoFactorSecret \in Secrets \cup {None}
  BY DEF Rows
<1>2. TypeOK'
  BY <1>1 DEF IInv, TypeOK, Moves
<1>3. SecretsNotMixed'
  BY <1>1 DEF IInv, TypeOK, SecretsNotMixed
<1> QED BY <1>2, <1>3 DEF IInv, Moves

-----------------------------------------------------------------------------

LEMMA SetUpRowKeeps ==
    ASSUME IInv, NEW r \in Requests, NEW u \in Users, SetUpRow(r, u)
    PROVE  IInv'
<1>1. PICK s \in Secrets :
          /\ madeFor[s] = None
          /\ madeFor' = [madeFor EXCEPT ![s] = u]
          /\ Proceed(r, "save", u, [users[u] EXCEPT !.twoFactorSecret = s])
  BY DEF SetUpRow
<1>2. MadeForStays /\ madeFor'[s] = u /\ madeFor' \in [Secrets -> Users \cup {None}]
  BY <1>1 DEF MadeForStays, IInv, TypeOK
<1>3. /\ [users[u] EXCEPT !.twoFactorSecret = s] \in Rows
      /\ [users[u] EXCEPT !.twoFactorSecret = s].twoFactorSecret = s
  BY DEF IInv, TypeOK, Rows
<1>4. Moves
  BY <1>1, <1>2, <1>3, ProceedMoves DEF PCs
<1>5. SecretsNotMixed'
  BY <1>2, ConstantsAssumption DEF SetUpRow, IInv, TypeOK, Rows, SecretsNotMixed, MadeForStays
<1> QED BY <1>2, <1>4, <1>5 DEF IInv, TypeOK, Moves, SetUpRow

LEMMA ReadKeeps ==
    ASSUME IInv, NEW r \in Requests, NEW u \in Users, VerifyRow(r, u) \/ DisableRow(r, u)
    PROVE  IInv'
<1>1. users[u] \in Rows /\ MadeForStays /\ UNCHANGED <<users, madeFor, apps>>
  BY DEF IInv, TypeOK, MadeForStays, VerifyRow, DisableRow
<1>2. Moves
  BY <1>1, ProceedMoves DEF VerifyRow, DisableRow, PCs
<1> QED BY <1>1, <1>2 DEF IInv, TypeOK, SecretsNotMixed, Moves

LEMMA SetUpSaveKeeps ==
    ASSUME IInv, NEW r \in Requests, SetUpSave(r)
    PROVE  IInv'
<1>1. /\ call[r].user \in Users /\ call[r].row \in Rows
      /\ madeFor[call[r].row.twoFactorSecret] = call[r].user
  BY DEF SetUpSave, IInv, CallFits, SavesOwnSecret, Calls
<1>2. Moves
  BY FinishMoves DEF SetUpSave, MadeForStays
<1> QED BY <1>1, <1>2, RowKeeps DEF SetUpSave

\* What is not SetUpTwoFactorAuth's writes no secret but the row's own or none.
LEMMA UpdateKeeps ==
    ASSUME IInv, NEW u \in Users, NEW row \in Rows,
           row.twoFactorSecret \in {None, users[u].twoFactorSecret},
           users' = users \/ users' = [users EXCEPT ![u] = row],
           UNCHANGED <<madeFor, apps>>, Moves
    PROVE  IInv'
BY RowKeeps DEF IInv, SecretsNotMixed

LEMMA FactorWriteKeeps ==
    ASSUME IInv, NEW r \in Requests, VerifyEnable(r) \/ DisableWrite(r)
    PROVE  IInv'
<1> DEFINE u == call[r].user
           on == [users[u] EXCEPT !.twoFactorEnabled = TRUE, !.twoFactorSecret = users[u].twoFactorSecret]
           off == [users[u] EXCEPT !.twoFactorEnabled = FALSE, !.twoFactorSecret = None]
<1>1. u \in Users /\ users[u] \in Rows
  BY DEF VerifyEnable, DisableWrite, IInv, TypeOK, CallFits, Calls
<1>2. /\ on \in Rows /\ on.twoFactorSecret = users[u].twoFactorSecret
      /\ off \in Rows /\ off.twoFactorSecret = None
  BY <1>1 DEF Rows
<1>3. Moves
  BY FinishMoves DEF VerifyEnable, DisableWrite, MadeForStays
<1>4. users' = users \/ users' = [users EXCEPT ![u] = on] \/ users' = [users EXCEPT ![u] = off]
  BY DEF VerifyEnable, DisableWrite, UpdateUser
<1> QED BY <1>1, <1>2, <1>3, <1>4, UpdateKeeps DEF VerifyEnable, DisableWrite

LEMMA OtherWriteKeeps ==
    ASSUME IInv, NEW u \in Users, SwitchBan(u) \/ SoftDelete(u)
    PROVE  IInv'
<1> DEFINE banned == [users[u] EXCEPT !.isBanned = ~ @]
           gone == [users[u] EXCEPT !.live = FALSE]
<1>1. users[u] \in Rows
  BY DEF IInv, TypeOK
<1>2. /\ banned \in Rows /\ banned.twoFactorSecret = users[u].twoFactorSecret
      /\ gone \in Rows /\ gone.twoFactorSecret = users[u].twoFactorSecret
  BY <1>1 DEF Rows
<1>3. Moves
  BY IdleMoves DEF SwitchBan, SoftDelete, InOneStep, MadeForStays
<1>4. CASE SwitchBan(u)
  <2>1. users' = [users EXCEPT ![u] = banned] /\ UNCHANGED <<madeFor, apps>>
    BY <1>4 DEF SwitchBan, InOneStep
  <2> HIDE DEF banned
  <2> QED BY <1>2, <1>3, <2>1, UpdateKeeps
<1>5. CASE SoftDelete(u)
  <2>1. users' = [users EXCEPT ![u] = gone] /\ UNCHANGED <<madeFor, apps>>
    BY <1>5 DEF SoftDelete, InOneStep
  <2> HIDE DEF gone
  <2> QED BY <1>2, <1>3, <2>1, UpdateKeeps
<1> QED BY <1>4, <1>5

LEMMA IInvInit == Init => IInv
BY DEF Init, IInv, TypeOK, NewRow, Rows, PCs, SecretsNotMixed, CallFits, SavesOwnSecret

LEMMA IInvStep == IInv /\ [Next]_vars => IInv'
<1> SUFFICES ASSUME IInv, [Next]_vars PROVE IInv'
  OBVIOUS
<1>1. ASSUME NEW r \in Requests, GivesUp(r) PROVE IInv'
  <2>1. Moves
    BY <1>1, FinishMoves DEF GivesUp, MadeForStays
  <2> QED BY <1>1, <2>1 DEF GivesUp, IInv, TypeOK, SecretsNotMixed, Moves
<1>2. CASE UNCHANGED vars
  <2>1. Moves
    BY <1>2, IdleMoves DEF vars, MadeForStays
  <2> QED BY <1>2, <2>1 DEF vars, IInv, TypeOK, SecretsNotMixed, Moves
<1> QED BY <1>1, <1>2, SetUpRowKeeps, ReadKeeps, SetUpSaveKeeps, FactorWriteKeeps,
           OtherWriteKeeps DEF Next

LEMMA Invariance == Spec => []IInv
BY IInvInit, IInvStep, PTL DEF Spec

\* TypeOK: rows, apps and the rows requests hold keep their shape.
THEOREM TypeCorrect == Spec => []TypeOK
<1>1. IInv => TypeOK
  BY DEF IInv
<1> QED BY <1>1, Invariance, PTL

\* SecretsNotMixed: although SetUpTwoFactorAuth writes back a row it read
\* earlier, over whatever others wrote since, no user ever gets a secret that
\* was generated for another one.
THEOREM SecretsAreNotMixed == Spec => []SecretsNotMixed
<1>1. IInv => SecretsNotMixed
  BY DEF IInv
<1> QED BY <1>1, Invariance, PTL

-----------------------------------------------------------------------------
(* Which secret is in the app when a factor is switched on *)

\* A row about to be saved whole has its factor off.
SavesDisabled(r) == pc[r] = "save" => ~ call[r].row.twoFactorEnabled

\* A verification no set-up has overtaken can still rely on the code it checked.
ChecksStands(r) == pc[r] = "enable" /\ r \notin overtaken =>
                      users[call[r].user].twoFactorSecret \in {None, apps[call[r].user]}

FInv == /\ EnabledMatchesApp
        /\ \A r \in Requests : SavesDisabled(r) /\ ChecksStands(r)

FactorRow(u) == users[u].twoFactorEnabled /\ u \notin unproved =>
                    users[u].twoFactorSecret \in {None, apps[u]}

\* The row a request reads goes with it.
LEMMA ReadsRow ==
    ASSUME IInv, NEW r \in Requests, NEW next, NEW u, NEW row, Proceed(r, next, u, row)
    PROVE  /\ pc'[r] = next /\ call'[r].user = u /\ call'[r].row = row
           /\ \A s \in Requests : s # r => pc'[s] = pc[s] /\ call'[s] = call[s]
BY DEF Proceed, IInv, TypeOK

LEMMA Finishes ==
    ASSUME IInv, NEW r \in Requests, Finish(r)
    PROVE  pc'[r] = "idle" /\ \A s \in Requests : s # r => pc'[s] = pc[s] /\ call'[s] = call[s]
BY DEF Finish, IInv, TypeOK

\* A step that saves nothing and switches nothing on leaves both sets, the
\* verifications apart that begin or end with it.
LEMMA SetsStay ==
    ASSUME Overtake, Judge, \A s \in Requests : ~ SetUpSave(s) /\ ~ VerifyEnable(s)
    PROVE  /\ \A u \in Users : u \in unproved => u \in unproved'
           /\ \A s \in Requests : pc'[s] = "enable" /\ s \notin overtaken' => s \notin overtaken
BY DEF Overtake, Judge, Saved

LEMMA SaveFactor ==
    ASSUME IInv, FInv, Overtake, Judge, NEW r \in Requests, SetUpSave(r)
    PROVE  FInv'
<1> DEFINE u == call[r].user
<1>1. u \in Users /\ call[r].row \in Rows /\ ~ call[r].row.twoFactorEnabled
  BY DEF SetUpSave, IInv, CallFits, Calls, FInv, SavesDisabled
<1>2. /\ users'[u] = call[r].row
      /\ \A v \in Users : v # u => users'[v] = users[v] /\ apps'[v] = apps[v]
  BY <1>1 DEF SetUpSave, IInv, TypeOK
<1>3. pc'[r] = "idle" /\ \A s \in Requests : s # r => pc'[s] = pc[s] /\ call'[s] = call[s]
  BY Finishes DEF SetUpSave
<1>4. \A s \in Requests : ~ VerifyEnable(s)
  <2> SUFFICES ASSUME NEW s \in Requests, VerifyEnable(s) PROVE FALSE
    OBVIOUS
  <2>1. pc[r] = "save" /\ pc[s] = "enable" /\ pc'[s] = "idle"
    BY DEF SetUpSave, VerifyEnable, Finish, IInv, TypeOK
  <2> QED BY <1>3, <2>1
<1>5. \A v \in Users : v \in unproved => v \in unproved'
  BY <1>4 DEF Judge
<1>6. ASSUME NEW s \in Requests, pc'[s] = "enable", s \notin overtaken'
      PROVE  s # r /\ call[s].user # u /\ s \notin overtaken /\ call[s].user \in Users
  BY <1>3, <1>6 DEF Overtake, Saved, IInv, CallFits, Calls
<1>7. EnabledMatchesApp'
  BY <1>1, <1>2, <1>5 DEF FInv, EnabledMatchesApp
<1>8. \A s \in Requests : SavesDisabled(s)' /\ ChecksStands(s)'
  BY <1>2, <1>3, <1>6 DEF FInv, SavesDisabled, ChecksStands
<1> QED BY <1>7, <1>8 DEF FInv

LEMMA EnableFactor ==
    ASSUME IInv, FInv, Overtake, Judge, NEW r \in Requests, VerifyEnable(r)
    PROVE  FInv'
<1> DEFINE u == call[r].user
<1>1. u \in Users /\ users[u] \in Rows
  BY DEF VerifyEnable, IInv, TypeOK, CallFits, Calls
<1>2. /\ \A v \in Users : users'[v].twoFactorSecret = users[v].twoFactorSecret
      /\ \A v \in Users : v # u => users'[v] = users[v]
      /\ UNCHANGED apps
  BY <1>1 DEF VerifyEnable, UpdateUser, IInv, TypeOK, Rows
<1>3. pc'[r] = "idle" /\ \A s \in Requests : s # r => pc'[s] = pc[s] /\ call'[s] = call[s]
  BY Finishes DEF VerifyEnable
<1>4. \A s \in Requests : s # r => ~ VerifyEnable(s)
  <2> SUFFICES ASSUME NEW s \in Requests, s # r, VerifyEnable(s) PROVE FALSE
    OBVIOUS
  <2>1. pc[s] = "enable" /\ pc'[s] = "idle"
    BY DEF VerifyEnable, Finish, IInv, TypeOK
  <2> QED BY <1>3, <2>1
<1>5. /\ u \notin unproved' => r \notin overtaken
      /\ \A v \in Users : v # u => (v \in unproved <=> v \in unproved')
  BY <1>1, <1>4 DEF Judge
<1>6. \A s \in Requests : pc'[s] = "enable" /\ s \notin overtaken' =>
          s # r /\ s \notin overtaken /\ call[s].user \in Users
  BY <1>3 DEF Overtake, IInv, CallFits, Calls
<1>7. ASSUME NEW v \in Users, v \notin unproved', users'[v].twoFactorEnabled
      PROVE  users'[v].twoFactorSecret \in {None, apps'[v]}
  <2>1. CASE v = u
    BY <1>2, <1>5, <1>7, <2>1 DEF FInv, ChecksStands, VerifyEnable
  <2>2. CASE v # u
    BY <1>2, <1>5, <1>7, <2>2 DEF FInv, EnabledMatchesApp
  <2> QED BY <2>1, <2>2
<1>8. \A s \in Requests : SavesDisabled(s)' /\ ChecksStands(s)'
  BY <1>2, <1>3, <1>6 DEF FInv, SavesDisabled, ChecksStands
<1> QED BY <1>7, <1>8 DEF FInv, EnabledMatchesApp

\* The other writers leave a row's secret or empty it, and switch nothing on.
LEMMA WriteFactor ==
    ASSUME IInv, FInv, Overtake, Judge, \A s \in Requests : ~ SetUpSave(s) /\ ~ VerifyEnable(s),
           \A u \in Users : /\ users'[u].twoFactorSecret \in {None, users[u].twoFactorSecret}
                            /\ users'[u].twoFactorEnabled => users[u].twoFactorEnabled,
           UNCHANGED apps,
           \A s \in Requests : pc'[s] = "idle" \/ (pc'[s] = pc[s] /\ call'[s] = call[s])
    PROVE  FInv'
<1>1. EnabledMatchesApp'
  BY SetsStay DEF FInv, EnabledMatchesApp
<1>2. \A s \in Requests : SavesDisabled(s)'
  BY DEF FInv, SavesDisabled
<1>3. ASSUME NEW s \in Requests PROVE ChecksStands(s)'
  <2> SUFFICES ASSUME pc'[s] = "enable", s \notin overtaken'
               PROVE  users'[call'[s].user].twoFactorSecret \in {None, apps'[call'[s].user]}
    BY DEF ChecksStands
  <2>1. pc[s] = "enable" /\ call'[s] = call[s] /\ s \notin overtaken /\ call[s].user \in Users
    BY SetsStay DEF IInv, CallFits, Calls
  <2> QED BY <2>1 DEF FInv, ChecksStands
<1> QED BY <1>1, <1>2, <1>3 DEF FInv

\* A read leaves the tables, and a verification starts with a code that passed.
LEMMA ReadFactor ==
    ASSUME IInv, FInv, Overtake, Judge, \A s \in Requests : ~ SetUpSave(s) /\ ~ VerifyEnable(s),
           NEW r \in Requests, NEW next, NEW u, NEW row, Proceed(r, next, u, row),
           UNCHANGED <<users, apps>>, next = "save" => ~ row.twoFactorEnabled,
           next = "enable" => users[u].twoFactorSecret \in {None, apps[u]}
    PROVE  FInv'
<1>1. EnabledMatchesApp'
  BY SetsStay DEF FInv, EnabledMatchesApp
<1>2. ASSUME NEW s \in Requests PROVE SavesDisabled(s)' /\ ChecksStands(s)'
  <2>1. CASE s = r
    BY <2>1, ReadsRow DEF SavesDisabled, ChecksStands
  <2>2. CASE s # r
    BY <2>2, ReadsRow, SetsStay DEF FInv, SavesDisabled, ChecksStands
  <2> QED BY <2>1, <2>2
<1> QED BY <1>1, <1>2 DEF FInv

\* The two writing steps are told apart by where their requests stand.
LEMMA NoSave ==
    ASSUME IInv, \A s \in Requests : pc[s] \in {"save", "enable"} => pc'[s] # "idle"
    PROVE  \A s \in Requests : ~ SetUpSave(s) /\ ~ VerifyEnable(s)
BY DEF SetUpSave, VerifyEnable, Finish, IInv, TypeOK

\* A step of r other than a save or a switching on is nobody else's either.
LEMMA StepOf ==
    ASSUME IInv, NEW r \in Requests, pc[r] \in {"idle", "disable"},
           \A s \in Requests : s # r => pc'[s] = pc[s]
    PROVE  \A s \in Requests : ~ SetUpSave(s) /\ ~ VerifyEnable(s)
<1> SUFFICES ASSUME NEW s \in Requests, pc[s] \in {"save", "enable"}, pc'[s] = "idle" PROVE FALSE
  BY DEF SetUpSave, VerifyEnable, Finish, IInv, TypeOK
<1>1. s = r
  OBVIOUS
<1> QED BY <1>1

LEMMA FInvStep == IInv /\ FInv /\ [HNext]_hvars => FInv'
<1> SUFFICES ASSUME IInv, FInv, [HNext]_hvars PROVE FInv'
  OBVIOUS
<1>1. CASE UNCHANGED hvars
  BY <1>1 DEF hvars, vars, FInv, EnabledMatchesApp, SavesDisabled, ChecksStands
<1>2. CASE HNext
  <2>1. Next /\ Overtake /\ Judge
    BY <1>2 DEF HNext
  <2>2. ASSUME NEW r \in Requests, NEW u \in Users,
               SetUpRow(r, u) \/ VerifyRow(r, u) \/ DisableRow(r, u)
        PROVE  FInv'
    <3>1. PICK next, row : /\ Proceed(r, next, u, row)
                           /\ next = "save" => ~ row.twoFactorEnabled
                           /\ next = "enable" => users[u].twoFactorSecret \in {None, apps[u]}
      <4>1. CASE SetUpRow(r, u)
        <5>1. PICK s \in Secrets : Proceed(r, "save", u, [users[u] EXCEPT !.twoFactorSecret = s])
          BY <4>1 DEF SetUpRow
        <5>2. ~ [users[u] EXCEPT !.twoFactorSecret = s].twoFactorEnabled
          BY <4>1 DEF SetUpRow, IInv, TypeOK, Rows
        <5> DEFINE held == [users[u] EXCEPT !.twoFactorSecret = s]
        <5>3. Proceed(r, "save", u, held) /\ ~ held.twoFactorEnabled
          BY <5>1, <5>2
        <5> HIDE DEF held
        <5> QED BY <5>3
      <4>2. CASE VerifyRow(r, u)
        BY <4>2 DEF VerifyRow
      <4>3. CASE DisableRow(r, u)
        BY <4>3 DEF DisableRow
      <4> QED BY <2>2, <4>1, <4>2, <4>3
    <3>2. pc[r] = "idle" /\ UNCHANGED <<users, apps>>
      BY <2>2 DEF SetUpRow, VerifyRow, DisableRow
    <3>3. \A s \in Requests : ~ SetUpSave(s) /\ ~ VerifyEnable(s)
      BY <3>1, <3>2, ReadsRow, StepOf
    <3> QED BY <2>1, <3>1, <3>2, <3>3, ReadFactor
  <2>3. ASSUME NEW r \in Requests, SetUpSave(r) \/ VerifyEnable(r) PROVE FInv'
    BY <2>1, <2>3, SaveFactor, EnableFactor
  <2>4. ASSUME NEW r \in Requests, DisableWrite(r) PROVE FInv'
    <3>1. /\ \A u \in Users : /\ users'[u].twoFactorSecret \in {None, users[u].twoFactorSecret}
                              /\ users'[u].twoFactorEnabled => users[u].twoFactorEnabled
          /\ UNCHANGED apps
      BY <2>4 DEF DisableWrite, UpdateUser, IInv, TypeOK, Rows, CallFits, Calls
    <3>2. Finish(r) /\ pc[r] = "disable"
      BY <2>4 DEF DisableWrite
    <3>3. \A s \in Requests : ~ SetUpSave(s) /\ ~ VerifyEnable(s)
      BY <3>2, Finishes, StepOf
    <3> QED BY <2>1, <3>1, <3>2, <3>3, Finishes, WriteFactor
  <2>5. ASSUME NEW r \in Requests, GivesUp(r) PROVE FInv'
    <3>1. Finish(r) /\ UNCHANGED <<users, apps>>
      BY <2>5 DEF GivesUp
    <3>2. ASSUME \E s \in Requests : SetUpSave(s) \/ VerifyEnable(s) PROVE FInv'
      BY <2>1, <3>2, SaveFactor, EnableFactor
    <3> QED BY <2>1, <3>1, <3>2, Finishes, WriteFactor
  <2>6. ASSUME NEW u \in Users, SwitchBan(u) \/ SoftDelete(u) PROVE FInv'
    <3>1. /\ \A v \in Users : /\ users'[v].twoFactorSecret \in {None, users[v].twoFactorSecret}
                              /\ users'[v].twoFactorEnabled => users[v].twoFactorEnabled
          /\ UNCHANGED <<apps, pc, call>>
      BY <2>6 DEF SwitchBan, SoftDelete, InOneStep, IInv, TypeOK, Rows
    <3>2. \A s \in Requests : ~ SetUpSave(s) /\ ~ VerifyEnable(s)
      BY <3>1, NoSave
    <3> QED BY <2>1, <3>1, <3>2, WriteFactor
  <2> QED BY <2>1, <2>2, <2>3, <2>4, <2>5, <2>6 DEF Next
<1> QED BY <1>1, <1>2

\* EnabledMatchesApp: of users and requests as many as may be, in every
\* interleaving, whoever is asked for a second factor can make its codes, unless
\* a set-up overtook the verification that switched it on.
THEOREM EnabledMatchesApps == HSpec => []EnabledMatchesApp
<1>1. HInit => IInv /\ FInv
  BY IInvInit DEF HInit, Init, NewRow, FInv, EnabledMatchesApp, SavesDisabled, ChecksStands
<1>2. IInv /\ FInv /\ [HNext]_hvars => (IInv /\ FInv)'
  BY IInvStep, FInvStep DEF HNext, hvars
<1>3. FInv => EnabledMatchesApp
  BY DEF FInv
<1> QED BY <1>1, <1>2, <1>3, PTL DEF HSpec

-----------------------------------------------------------------------------
(* Calls that do not overlap *)

\* The row a set-up is about to write back still stands, its secret apart.
ReadStillTrue(r) == pc[r] = "save" =>
    call[r].row = [users[call[r].user] EXCEPT !.twoFactorSecret = call[r].row.twoFactorSecret]

AInv == alone => /\ \A r, s \in Requests : pc[r] # "idle" /\ pc[s] # "idle" => r = s
                 /\ \A r \in Requests : ReadStillTrue(r)

\* The only busy request is the one that has moved.
LEMMA MoverAlone ==
    ASSUME IInv, AInv, alone, ~ Disturbed, NEW r \in Requests,
           \A s \in Requests : s # r => pc'[s] = pc[s]
    PROVE  /\ \A s, t \in Requests : pc'[s] # "idle" /\ pc'[t] # "idle" => s = t
           /\ ReadStillTrue(r)' => \A s \in Requests : ReadStillTrue(s)'
BY DEF Disturbed, ReadStillTrue

LEMMA FinishAlone ==
    ASSUME IInv, AInv, alone, ~ Disturbed, NEW r \in Requests, Finish(r)
    PROVE  AInv'
BY Finishes, MoverAlone DEF AInv, ReadStillTrue

LEMMA ProceedAlone ==
    ASSUME IInv, AInv, alone, ~ Disturbed, NEW r \in Requests, NEW next, NEW u, NEW row,
           Proceed(r, next, u, row), UNCHANGED users,
           next = "save" => row = [users[u] EXCEPT !.twoFactorSecret = row.twoFactorSecret]
    PROVE  AInv'
<1>1. ReadStillTrue(r)'
  BY ReadsRow DEF ReadStillTrue
<1> QED BY <1>1, ReadsRow, MoverAlone DEF AInv

LEMMA AInvStep == IInv /\ AInv /\ [HNext]_hvars => AInv'
<1> SUFFICES ASSUME IInv, AInv, [HNext]_hvars, alone' PROVE AInv'
  BY DEF AInv
<1>1. CASE UNCHANGED hvars
  BY <1>1 DEF hvars, vars, AInv, ReadStillTrue
<1>2. CASE HNext
  <2>1. alone /\ ~ Disturbed
    BY <1>2 DEF HNext
  <2>2. ASSUME NEW r \in Requests, NEW u \in Users, SetUpRow(r, u) PROVE AInv'
    <3>1. PICK s \in Secrets : Proceed(r, "save", u, [users[u] EXCEPT !.twoFactorSecret = s])
      BY <2>2 DEF SetUpRow
    <3>2. [users[u] EXCEPT !.twoFactorSecret = s].twoFactorSecret = s
      BY DEF IInv, TypeOK, Rows
    <3> QED BY <2>1, <2>2, <3>1, <3>2, ProceedAlone DEF SetUpRow
  <2>3. ASSUME NEW r \in Requests, NEW u \in Users, VerifyRow(r, u) \/ DisableRow(r, u) PROVE AInv'
    BY <2>1, <2>3, ProceedAlone DEF VerifyRow, DisableRow
  <2>4. ASSUME NEW r \in Requests, SetUpSave(r) \/ VerifyEnable(r) \/ DisableWrite(r) \/ GivesUp(r)
        PROVE  AInv'
    BY <2>1, <2>4, FinishAlone DEF SetUpSave, VerifyEnable, DisableWrite, GivesUp
  <2>5. ASSUME NEW u \in Users, SwitchBan(u) \/ SoftDelete(u) PROVE AInv'
    <3>1. pc' = pc /\ \A r \in Requests : pc[r] = "idle"
      BY <2>1, <2>5 DEF SwitchBan, SoftDelete, InOneStep, Disturbed
    <3> QED BY <3>1 DEF AInv, ReadStillTrue
  <2> QED BY <1>2, <2>2, <2>3, <2>4, <2>5 DEF HNext, Next
<1> QED BY <1>1, <1>2

LEMMA AInvariance == HSpec => [](IInv /\ AInv)
<1>1. HInit => IInv /\ AInv
  BY IInvInit DEF HInit, Init, AInv, ReadStillTrue
<1>2. IInv /\ AInv /\ [HNext]_hvars => (IInv /\ AInv)'
  BY IInvStep, AInvStep DEF HNext, hvars
<1> QED BY <1>1, <1>2, PTL DEF HSpec

\* SavesSecretOnlyAlone: a row nobody wrote since it was read is the row that
\* stands, the new secret apart.
THEOREM SavesSecretsOnlyAlone == HSpec => SavesSecretOnlyAlone
<1>1. IInv /\ AInv /\ [HNext]_hvars => (alone' => SavesSecretOnly) \/ UNCHANGED hvars
  <2> SUFFICES ASSUME IInv, AInv, HNext, alone', NEW r \in Requests, SetUpSave(r)
               PROVE  LET u == call[r].user IN
                        users'[u] = [users[u] EXCEPT !.twoFactorSecret = call[r].row.twoFactorSecret]
    BY DEF SavesSecretOnly
  <2>1. call[r].user \in Users /\ alone
    BY DEF HNext, SetUpSave, IInv, CallFits, Calls
  <2> QED BY <2>1 DEF AInv, ReadStillTrue, SetUpSave, IInv, TypeOK
<1> QED BY <1>1, AInvariance, PTL DEF HSpec, SavesSecretOnlyAlone
=============================================================================
