----------------------- MODULE EmailVerificationProofs -----------------------
(***************************************************************************)
(* What EmailVerification guarantees for any users, addresses, codes,      *)
(* requests and lifetimes.  The invariant follows a code through           *)
(* VerifyUserToken: a request past the look-up holds a code that was sent  *)
(* to its address, and no statement of anybody sends a code elsewhere or   *)
(* unspends it.                                                            *)
(***************************************************************************)
EXTENDS EmailVerificationHistory, TLAPS

\* What a request at statement p works with.
Fits(p, c) ==
    /\ p # "idle" => c \in Calls
    /\ p \in {"resendFind", "resendInsert", "verifyFind", "verifyMark", "verifySet"} =>
          c.email \in Emails
    /\ p \in {"verifyFind", "verifyMark", "verifySet"} => c.otp \in Otps
    /\ p = "save" => c.row \in Rows

\* The code it has found, in the table otps.
OwnOtp(otps, p, c) ==
    /\ p \in {"verifyMark", "verifySet"} => otps[c.otp] # None /\ otps[c.otp].email = c.email
    /\ p = "verifySet" => otps[c.otp].used

IInv == TypeOK /\ \A r \in Requests : Fits(pc[r], call[r]) /\ OwnOtp(verifications, pc[r], call[r])

\* Codes stay, and so does whom and where they were sent to, and that they were spent.
Grows ==
    \A o \in Otps : verifications[o] # None =>
        /\ verifications'[o] # None
        /\ verifications'[o].user = verifications[o].user
        /\ verifications'[o].email = verifications[o].email
        /\ verifications[o].used => verifications'[o].used

TablesKept == /\ now' \in Nat /\ users' \in [Users -> Rows \cup {None}]
              /\ verifications' \in [Otps -> OtpRows \cup {None}] /\ Grows

Moves == /\ pc' \in [Requests -> PCs] /\ call' \in [Requests -> Calls \cup {None}]
         /\ \A s \in Requests : Fits(pc'[s], call'[s]) /\ OwnOtp(verifications', pc'[s], call'[s])

-----------------------------------------------------------------------------
(* Requests *)

\* A request that a step leaves alone keeps what it holds.
LEMMA OthersKeep ==
    ASSUME IInv, Grows, NEW r \in Requests, pc'[r] = pc[r], call'[r] = call[r]
    PROVE  Fits(pc'[r], call'[r]) /\ OwnOtp(verifications', pc'[r], call'[r])
BY DEF IInv, Grows, Fits, OwnOtp

LEMMA FinishKeeps ==
    ASSUME IInv, Grows, NEW r \in Requests, Finish(r)
    PROVE  Moves
<1>1. pc' \in [Requests -> PCs] /\ call' \in [Requests -> Calls \cup {None}]
  BY DEF Finish, IInv, TypeOK, PCs
<1>2. pc'[r] = "idle" /\ \A s \in Requests : s # r => pc'[s] = pc[s] /\ call'[s] = call[s]
  BY DEF Finish, IInv, TypeOK
<1>3. Fits(pc'[r], call'[r]) /\ OwnOtp(verifications', pc'[r], call'[r])
  BY <1>2 DEF Fits, OwnOtp
<1> QED BY <1>1, <1>2, <1>3, OthersKeep DEF Moves

LEMMA ProceedKeeps ==
    ASSUME IInv, Grows, NEW r \in Requests, NEW next \in PCs, NEW c \in Calls, Proceed(r, next, c),
           Fits(next, c), OwnOtp(verifications', next, c)
    PROVE  Moves
<1>1. pc' \in [Requests -> PCs] /\ call' \in [Requests -> Calls \cup {None}]
  BY DEF Proceed, IInv, TypeOK
<1>2. /\ pc'[r] = next /\ call'[r] = c
      /\ \A s \in Requests : s # r => pc'[s] = pc[s] /\ call'[s] = call[s]
  BY DEF Proceed, IInv, TypeOK
<1> QED BY <1>1, <1>2, OthersKeep DEF Moves

LEMMA IdleKeeps ==
    ASSUME IInv, Grows, UNCHANGED <<pc, call>>
    PROVE  Moves
BY OthersKeep DEF IInv, TypeOK, Moves

LEMMA KeptTogether == ASSUME TablesKept, Moves PROVE IInv'
BY DEF IInv, TypeOK, TablesKept, Moves

-----------------------------------------------------------------------------
(* Tables *)

LEMMA SameTables ==
    ASSUME IInv, UNCHANGED <<users, verifications>>, now' \in Nat
    PROVE  TablesKept
BY DEF IInv, TypeOK, TablesKept, Grows

LEMMA UsersWritten ==
    ASSUME IInv, users' \in [Users -> Rows \cup {None}], UNCHANGED <<now, verifications>>
    PROVE  TablesKept
BY DEF IInv, TypeOK, TablesKept, Grows

LEMMA LiveIsRow == ASSUME IInv, NEW u \in Users, Live(u) PROVE users[u] \in Rows
BY DEF IInv, TypeOK, Live

LEMMA VerifiedWritten ==
    ASSUME IInv, NEW U, NEW v \in BOOLEAN, SetVerified(U, v)
    PROVE  users' \in [Users -> Rows \cup {None}]
<1>1. ASSUME NEW u \in Users, Live(u) PROVE [users[u] EXCEPT !.isVerified = v] \in Rows
  BY <1>1, LiveIsRow DEF Rows
<1> QED BY <1>1 DEF SetVerified, IInv, TypeOK

LEMMA RowWritten ==
    ASSUME IInv, NEW u \in Users, NEW row \in Rows, Write(u, row)
    PROVE  users' \in [Users -> Rows \cup {None}]
BY DEF IInv, TypeOK, Write

\* UpdateUserAdmin writes a row that differs from the one it found by address
\* and role.
LEMMA AsAskedFits ==
    ASSUME NEW row \in Rows, NEW c \in Calls
    PROVE  AsAsked(row, c) \in Rows /\ AsAsked(row, c).isVerified = row.isVerified
BY DEF AsAsked, Rows, Calls

LEMMA DeletedFits ==
    ASSUME NEW row \in Rows
    PROVE  /\ [row EXCEPT !.deleted = TRUE] \in Rows
           /\ [row EXCEPT !.deleted = TRUE].isVerified = row.isVerified
BY DEF Rows

\* A code is made for the user and the address that were read.
LEMMA InsertKeepsTables ==
    ASSUME IInv, NEW r \in Requests, ResendInsert(r)
    PROVE  TablesKept
<1>1. call[r].user \in Users /\ call[r].email \in Emails
  BY DEF ResendInsert, IInv, Fits, Calls
<1>2. PICK o \in Otps :
          /\ verifications[o] = None
          /\ verifications' = [verifications EXCEPT ![o] =
                [user |-> call[r].user, email |-> call[r].email,
                 made |-> now, expiry |-> now + OtpLife, used |-> FALSE]]
  BY DEF ResendInsert
<1>3. [user |-> call[r].user, email |-> call[r].email,
       made |-> now, expiry |-> now + OtpLife, used |-> FALSE] \in OtpRows
  BY <1>1, ConstantsAssumption DEF IInv, TypeOK, OtpRows
<1>4. verifications' \in [Otps -> OtpRows \cup {None}]
  BY <1>2, <1>3 DEF IInv, TypeOK
<1>5. Grows
  BY <1>2 DEF IInv, TypeOK, Grows
<1> QED BY <1>4, <1>5 DEF IInv, TypeOK, TablesKept, ResendInsert

LEMMA MarkKeepsTables ==
    ASSUME IInv, NEW r \in Requests, VerifyMark(r)
    PROVE  /\ TablesKept /\ call[r].otp \in Otps
           /\ verifications'[call[r].otp].used
           /\ verifications'[call[r].otp] # None
           /\ verifications'[call[r].otp].email = call[r].email
<1> DEFINE o == call[r].otp
           row == [verifications[o] EXCEPT !.used = TRUE]
<1>1. o \in Otps /\ verifications[o] \in OtpRows /\ verifications[o].email = call[r].email
  BY DEF VerifyMark, IInv, TypeOK, Fits, OwnOtp
<1>2. /\ row \in OtpRows /\ row.user = verifications[o].user
      /\ row.email = verifications[o].email /\ row.used
  BY <1>1 DEF OtpRows
<1>3. verifications' = [verifications EXCEPT ![o] = row]
  BY DEF VerifyMark
<1> HIDE DEF row
<1>4. verifications' \in [Otps -> OtpRows \cup {None}] /\ verifications'[o] = row
  BY <1>1, <1>2, <1>3 DEF IInv, TypeOK
<1>5. row # None
  BY <1>2, ConstantsAssumption
<1>6. Grows
  BY <1>1, <1>2, <1>3, <1>4, <1>5 DEF IInv, TypeOK, Grows
<1> QED BY <1>1, <1>2, <1>4, <1>5, <1>6 DEF IInv, TypeOK, TablesKept, VerifyMark

-----------------------------------------------------------------------------
(* Steps *)

\* What becomes of a request whose call begins: it holds what the call needs.
Begun(r, u) ==
    \E next \in PCs \ {"idle", "resendInsert", "verifyMark", "verifySet"}, c \in Calls :
       /\ Proceed(r, next, c) /\ Fits(next, c) /\ c.user = u
       /\ next = "resendFind" => c.email = users[u].email

LEMMA BeginHolds ==
    ASSUME IInv, NEW r \in Requests, NEW u \in Users, Begin(r, u)
    PROVE  Live(u) /\ Begun(r, u) /\ pc[r] = "idle" /\ UNCHANGED <<now, users, verifications>>
<1> USE DEF ResendRow, VerifyRow, LogoutRow, UpdateRow, DeleteRow, AdminRow, SetUpRow
<1>1. Live(u) /\ pc[r] = "idle" /\ UNCHANGED <<now, users, verifications>>
  BY DEF Begin
<1>2. users[u] \in Rows /\ users[u].email \in Emails
  BY <1>1, LiveIsRow DEF Rows
<1>3. ASSUME NEW next \in PCs \ {"idle", "resendInsert", "verifyMark", "verifySet"},
             NEW c \in Calls, Proceed(r, next, c), Fits(next, c), c.user = u,
             next = "resendFind" => c.email = users[u].email
      PROVE  Begun(r, u)
  BY <1>3 DEF Begun
<1>4. ASSUME ResendRow(r, u) PROVE Begun(r, u)
  <2> DEFINE c == [Ask(u) EXCEPT !.email = users[u].email]
  <2>1. c \in Calls /\ c.user = u /\ c.email = users[u].email
    BY <1>2 DEF Ask, Calls
  <2>2. Proceed(r, "resendFind", c)
    BY <1>4
  <2> HIDE DEF c
  <2>3. Fits("resendFind", c)
    BY <1>2, <2>1 DEF Fits
  <2> QED BY <2>1, <2>2, <2>3 DEF Begun, PCs
<1>5. ASSUME NEW o \in Otps, VerifyRow(r, u, o) PROVE Begun(r, u)
  <2> DEFINE c == [Ask(u) EXCEPT !.email = users[u].email, !.otp = o]
  <2>1. c \in Calls /\ c.user = u /\ c.email = users[u].email /\ c.otp = o
    BY <1>2 DEF Ask, Calls
  <2>2. Proceed(r, "verifyFind", c)
    BY <1>5
  <2> HIDE DEF c
  <2>3. Fits("verifyFind", c)
    BY <1>2, <2>1 DEF Fits
  <2> QED BY <1>3, <2>1, <2>2, <2>3 DEF PCs
<1>6. ASSUME LogoutRow(r, u) \/ DeleteRow(r, u) PROVE Begun(r, u)
  <2>1. Ask(u) \in Calls /\ Ask(u).user = u
    BY DEF Ask, Calls
  <2>2. Fits("logoutWrite", Ask(u)) /\ Fits("delete", Ask(u))
    BY <2>1 DEF Fits
  <2> QED BY <1>3, <1>6, <2>1, <2>2 DEF PCs
<1>7. ASSUME NEW w \in Updates,
             Proceed(r, "update", [Ask(u) EXCEPT !.email = w.email, !.role = w.role])
      PROVE  Begun(r, u)
  <2> DEFINE c == [Ask(u) EXCEPT !.email = w.email, !.role = w.role]
  <2>1. c \in Calls /\ c.user = u
    BY ConstantsAssumption DEF Ask, Calls
  <2>2. Proceed(r, "update", c)
    BY <1>7
  <2> HIDE DEF c
  <2>3. Fits("update", c)
    BY <2>1 DEF Fits
  <2> QED BY <1>3, <2>1, <2>2, <2>3 DEF PCs
<1>8. ASSUME SetUpRow(r, u) PROVE Begun(r, u)
  <2> DEFINE c == [Ask(u) EXCEPT !.row = users[u]]
  <2>1. c \in Calls /\ c.user = u /\ c.row = users[u]
    BY <1>2 DEF Ask, Calls
  <2>2. Proceed(r, "save", c)
    BY <1>8
  <2> HIDE DEF c
  <2>3. Fits("save", c)
    BY <1>2, <2>1 DEF Fits
  <2> QED BY <2>1, <2>2, <2>3 DEF Begun, PCs
<1>9. Begun(r, u)
  BY <1>4, <1>5, <1>6, <1>7, <1>8 DEF Begin
<1> QED BY <1>1, <1>9

LEMMA BeginKeeps ==
    ASSUME IInv, NEW r \in Requests, NEW u \in Users, Begin(r, u)
    PROVE  IInv'
<1>1. PICK next \in PCs \ {"idle", "resendInsert", "verifyMark", "verifySet"}, c \in Calls :
         Proceed(r, next, c) /\ Fits(next, c)
  BY BeginHolds DEF Begun
<1>2. TablesKept
  BY BeginHolds, SameTables DEF IInv, TypeOK
<1>3. OwnOtp(verifications', next, c)
  BY DEF OwnOtp
<1>4. Moves
  BY <1>1, <1>2, <1>3, ProceedKeeps DEF TablesKept
<1> QED BY <1>2, <1>4, KeptTogether

LEMMA AdvanceKeeps ==
    ASSUME IInv, NEW r \in Requests, Advance(r) \/ GivesUp(r)
    PROVE  IInv'
<1> USE DEF ResendFind, VerifyFind, VerifySet, LogoutWrite, UpdateStore, DeleteStore, SetUpSave,
            GivesUp
<1>1. pc[r] # "idle" /\ call[r] \in Calls /\ call[r].user \in Users
  BY DEF Advance, ResendInsert, VerifyMark, IInv, Fits, Calls
<1>2. TablesKept
  <2>1. CASE ResendFind(r) \/ VerifyFind(r) \/ GivesUp(r)
    BY <2>1, SameTables DEF IInv, TypeOK
  <2>2. CASE VerifySet(r) \/ LogoutWrite(r)
    BY <2>2, VerifiedWritten, UsersWritten
  <2>3. CASE UpdateStore(r)
    <3>1. CASE Live(call[r].user)
      <4>1. AsAsked(users[call[r].user], call[r]) \in Rows
        BY <1>1, <3>1, LiveIsRow, AsAskedFits
      <4> QED BY <1>1, <2>3, <3>1, <4>1, RowWritten, UsersWritten
    <3> QED BY <2>3, <3>1, SameTables DEF IInv, TypeOK
  <2>4. CASE DeleteStore(r)
    <3>1. users' \in [Users -> Rows \cup {None}]
      <4>1. Live(call[r].user) => [users[call[r].user] EXCEPT !.deleted = TRUE] \in Rows
        BY <1>1, LiveIsRow, DeletedFits
      <4> QED BY <1>1, <2>4, <4>1 DEF IInv, TypeOK
    <3> QED BY <2>4, <3>1, UsersWritten
  <2>5. CASE SetUpSave(r)
    <3>1. call[r].row \in Rows
      BY <2>5 DEF IInv, Fits
    <3> QED BY <1>1, <2>5, <3>1, RowWritten, UsersWritten
  <2> QED BY <2>1, <2>2, <2>3, <2>4, <2>5, InsertKeepsTables, MarkKeepsTables DEF Advance
<1>3. Moves
  <2>1. CASE Finish(r)
    BY <1>2, <2>1, FinishKeeps DEF TablesKept
  <2>2. CASE ResendFind(r) /\ Proceed(r, "resendInsert", call[r])
    <3>1. Fits("resendInsert", call[r]) /\ OwnOtp(verifications', "resendInsert", call[r])
      BY <2>2 DEF IInv, Fits, OwnOtp
    <3> QED BY <1>1, <1>2, <2>2, <3>1, ProceedKeeps DEF TablesKept, PCs
  <2>3. CASE VerifyFind(r) /\ ~ Rejected(r) /\ Proceed(r, "verifyMark", call[r])
    <3>1. Fits("verifyMark", call[r])
      BY <2>3 DEF IInv, Fits
    <3>2. OwnOtp(verifications', "verifyMark", call[r])
      BY <2>3 DEF Rejected, Usable, OwnOtp
    <3> QED BY <1>1, <1>2, <2>3, <3>1, <3>2, ProceedKeeps DEF TablesKept, PCs
  <2>4. CASE VerifyMark(r)
    <3>1. Fits("verifySet", call[r])
      BY <2>4 DEF VerifyMark, IInv, Fits
    <3>2. OwnOtp(verifications', "verifySet", call[r])
      BY <2>4, MarkKeepsTables DEF OwnOtp
    <3> QED BY <1>1, <1>2, <2>4, <3>1, <3>2, ProceedKeeps DEF VerifyMark, TablesKept, PCs
  <2>5. CASE ResendInsert(r)
    BY <1>2, <2>5, FinishKeeps DEF ResendInsert, TablesKept
  <2> QED BY <2>1, <2>2, <2>3, <2>4, <2>5 DEF Advance
<1> QED BY <1>2, <1>3, KeptTogether

LEMMA OneStatementKeeps ==
    ASSUME IInv, NEW u \in Users, OneStatement(u)
    PROVE  IInv'
<1>1. ASSUME NEW e \in Emails, NEW role \in Roles, CreateUser(u, e, role) PROVE TablesKept
  <2>1. [email |-> e, role |-> role, deleted |-> FALSE,
         isVerified |-> FALSE, twoFactorEnabled |-> FALSE] \in Rows
    BY DEF Rows
  <2> QED BY <1>1, <2>1, UsersWritten DEF CreateUser, IInv, TypeOK
<1>2. ASSUME AdminVerify(u) \/ AdminUnverify(u) PROVE TablesKept
  <2>1. PICK v \in BOOLEAN : SetVerified({u}, v) /\ UNCHANGED <<now, verifications>>
    BY <1>2 DEF AdminVerify, AdminUnverify
  <2>2. users' \in [Users -> Rows \cup {None}]
    BY <2>1, VerifiedWritten
  <2> QED BY <2>1, <2>2, UsersWritten
<1>3. ASSUME SwitchTwoFactor(u) PROVE TablesKept
  <2>1. [users[u] EXCEPT !.twoFactorEnabled = ~ @] \in Rows
    BY <1>3, LiveIsRow DEF SwitchTwoFactor, Rows
  <2>2. users' = [users EXCEPT ![u] = [users[u] EXCEPT !.twoFactorEnabled = ~ @]]
    BY <1>3 DEF SwitchTwoFactor
  <2>3. users' \in [Users -> Rows \cup {None}]
    BY <2>1, <2>2 DEF IInv, TypeOK
  <2> QED BY <1>3, <2>3, UsersWritten DEF SwitchTwoFactor
<1>4. TablesKept
  BY <1>1, <1>2, <1>3 DEF OneStatement
<1>5. UNCHANGED <<pc, call>>
  BY DEF OneStatement, CreateUser, AdminVerify, AdminUnverify, SwitchTwoFactor, InOneStep
<1> QED BY <1>4, <1>5, IdleKeeps, KeptTogether DEF TablesKept

LEMMA IInvInit == Init => IInv
BY DEF Init, IInv, TypeOK, PCs, Fits, OwnOtp

LEMMA IInvStep == IInv /\ [Next]_vars => IInv'
<1> SUFFICES ASSUME IInv, [Next]_vars PROVE IInv'
  OBVIOUS
<1>1. CASE Tick \/ UNCHANGED vars
  <2>1. TablesKept /\ UNCHANGED <<pc, call>>
    BY <1>1, SameTables DEF Tick, vars, IInv, TypeOK
  <2> QED BY <2>1, IdleKeeps, KeptTogether DEF TablesKept
<1> QED BY <1>1, BeginKeeps, AdvanceKeeps, OneStatementKeeps DEF Next

LEMMA Invariance == Spec => []IInv
BY IInvInit, IInvStep, PTL DEF Spec

\* TypeOK: the tables and the requests in flight keep their shape.
THEOREM TypeCorrect == Spec => []TypeOK
<1>1. IInv => TypeOK
  BY DEF IInv
<1> QED BY <1>1, Invariance, PTL

-----------------------------------------------------------------------------
(* Whose code it was *)

\* Whom a code was made for had the address it was sent to, and so does, or
\* did, whom a request is about to make one for.
HoldInv ==
    /\ holders \in [Emails -> SUBSET Users]
    /\ \A u \in Users : users[u] # None => u \in holders[users[u].email]
    /\ \A o \in Otps : verifications[o] # None =>
          verifications[o].user \in holders[verifications[o].email]
    /\ \A r \in Requests : pc[r] \in {"resendFind", "resendInsert"} =>
          call[r].user \in holders[call[r].email]

\* The tables after a step, as the history sees them.
LEMMA HoldersGrow ==
    ASSUME IInv, IInv', HoldInv, HNext
    PROVE  /\ holders' \in [Emails -> SUBSET Users]
           /\ \A u \in Users : users'[u] # None => u \in holders'[users'[u].email]
           /\ \A e \in Emails : holders[e] \subseteq holders'[e]
<1>1. \A u \in Users : users'[u] # None => users'[u].email \in Emails
  BY DEF IInv, TypeOK, Rows
<1> QED BY <1>1 DEF HNext, HoldInv

LEMMA HoldStep == IInv /\ HoldInv /\ [HNext]_hvars => HoldInv'
<1> SUFFICES ASSUME IInv, HoldInv, [HNext]_hvars PROVE HoldInv'
  OBVIOUS
<1>1. CASE UNCHANGED hvars
  BY <1>1 DEF hvars, vars, HoldInv
<1>2. CASE HNext
  <2>1. IInv'
    BY <1>2, IInvStep DEF HNext
  <2>2. /\ holders' \in [Emails -> SUBSET Users]
        /\ \A u \in Users : users'[u] # None => u \in holders'[users'[u].email]
        /\ \A e \in Emails : holders[e] \subseteq holders'[e]
    BY <1>2, <2>1, HoldersGrow
  <2>3. \A o \in Otps : verifications[o] # None => verifications[o].email \in Emails
    BY DEF IInv, TypeOK, OtpRows
  <2>4. \A r \in Requests : pc[r] \in {"resendFind", "resendInsert"} => call[r].email \in Emails
    BY DEF IInv, Fits
  <2>5. ASSUME NEW o \in Otps, verifications'[o] # None
        PROVE  verifications'[o].user \in holders'[verifications'[o].email]
    <3>1. CASE verifications[o] # None /\ verifications'[o].user = verifications[o].user
               /\ verifications'[o].email = verifications[o].email
      BY <2>2, <2>3, <3>1 DEF HoldInv
    <3>2. CASE \E r \in Requests : ResendInsert(r)
      <4>1. PICK r \in Requests : ResendInsert(r)
        BY <3>2
      <4>2. \/ verifications'[o] = verifications[o]
            \/ verifications'[o].user = call[r].user /\ verifications'[o].email = call[r].email
        BY <4>1 DEF ResendInsert, IInv, TypeOK
      <4>3. CASE verifications'[o] = verifications[o]
        BY <2>5, <3>1, <4>3
      <4>4. CASE verifications'[o].user = call[r].user /\ verifications'[o].email = call[r].email
        BY <2>2, <2>4, <4>1, <4>4 DEF HoldInv, ResendInsert
      <4> QED BY <4>2, <4>3, <4>4
    <3>3. CASE \E r \in Requests : VerifyMark(r)
      <4>1. PICK r \in Requests : VerifyMark(r)
        BY <3>3
      <4>2. Grows /\ call[r].otp \in Otps
        BY <4>1, MarkKeepsTables DEF TablesKept
      <4>3. verifications[o] # None
        BY <2>5, <4>1, <4>2 DEF VerifyMark, IInv, TypeOK, OwnOtp
      <4> QED BY <3>1, <4>2, <4>3 DEF Grows
    <3>4. CASE verifications' = verifications
      BY <2>5, <3>1, <3>4
    <3> QED BY <1>2, <3>2, <3>3, <3>4, BeginHolds
            DEF HNext, Next, Advance, OneStatement, ResendFind, VerifyFind, VerifySet, LogoutWrite,
                UpdateStore, DeleteStore, SetUpSave, GivesUp, Tick, CreateUser, AdminVerify,
                AdminUnverify, SwitchTwoFactor
  <2>6. ASSUME NEW r \in Requests, pc'[r] \in {"resendFind", "resendInsert"}
        PROVE  call'[r].user \in holders'[call'[r].email]
    <3>1. CASE pc[r] \in {"resendFind", "resendInsert"} /\ call'[r] = call[r]
      BY <2>2, <2>4, <3>1 DEF HoldInv
    <3>2. ASSUME NEW s \in Requests, NEW u \in Users, Begin(s, u)
          PROVE  call'[r].user \in holders'[call'[r].email]
      <4>1. PICK next \in PCs \ {"idle", "resendInsert", "verifyMark", "verifySet"}, c \in Calls :
               Proceed(s, next, c) /\ c.user = u /\ (next = "resendFind" => c.email = users[u].email)
        BY <3>2, BeginHolds DEF Begun
      <4>2. CASE r = s
        <5>1. pc'[r] = next /\ call'[r] = c
          BY <4>1, <4>2 DEF Proceed, IInv, TypeOK
        <5>2. users[u] # None /\ users' = users
          BY <3>2, BeginHolds DEF Live
        <5> QED BY <2>2, <2>6, <4>1, <5>1, <5>2
      <4>3. CASE r # s
        <5>1. pc'[r] = pc[r] /\ call'[r] = call[r]
          BY <4>1, <4>3 DEF Proceed, IInv, TypeOK
        <5> QED BY <2>6, <3>1, <5>1
      <4> QED BY <4>2, <4>3
    <3>3. ASSUME NEW s \in Requests, Advance(s) \/ GivesUp(s)
          PROVE  call'[r].user \in holders'[call'[r].email]
      <4>1. \/ Finish(s)
            \/ \E next \in {"verifyMark", "verifySet"} : Proceed(s, next, call[s])
            \/ pc[s] = "resendFind" /\ Proceed(s, "resendInsert", call[s])
        BY <3>3 DEF Advance, GivesUp, ResendFind, ResendInsert, VerifyFind, VerifyMark, VerifySet,
                    LogoutWrite, UpdateStore, DeleteStore, SetUpSave
      <4>2. pc[r] \in {"resendFind", "resendInsert"} /\ call'[r] = call[r]
        BY <2>6, <4>1 DEF Finish, Proceed, IInv, TypeOK
      <4> QED BY <3>1, <4>2
    <3>4. CASE UNCHANGED <<pc, call>>
      BY <2>6, <3>1, <3>4
    <3> QED BY <1>2, <3>2, <3>3, <3>4
            DEF HNext, Next, OneStatement, Tick, CreateUser, AdminVerify, AdminUnverify,
                SwitchTwoFactor, InOneStep
  <2> QED BY <2>2, <2>5, <2>6 DEF HoldInv
<1> QED BY <1>1, <1>2

LEMMA HoldInvariance == HSpec => [](IInv /\ HoldInv)
<1>1. HInit => IInv /\ HoldInv
  BY IInvInit DEF HInit, Init, HoldInv
<1>2. IInv /\ HoldInv /\ [HNext]_hvars => (IInv /\ HoldInv)'
  BY IInvStep, HoldStep DEF HNext, hvars
<1> QED BY <1>1, <1>2, PTL DEF HSpec

\* How u may become verified: see VerifiedByOwnOtp.
OwnWay(u) ==
    \/ AdminVerify(u)
    \/ \E r \in Requests :
          \/ SetUpSave(r) /\ call[r].user = u /\ call[r].row.isVerified
          \/ /\ VerifySet(r) /\ Live(u)
             /\ \E o \in Otps :
                   /\ verifications[o] # None /\ verifications[o].used
                   /\ call[r].otp = o /\ verifications[o].email = users[u].email
                   /\ holders[users[u].email] = {u} => verifications[o].user = u

Becomes(u) == users[u] # None /\ ~ users[u].isVerified /\ users'[u].isVerified

\* Whom the flag is set for, by whom.
LEMMA SetForWhom ==
    ASSUME IInv, NEW U, NEW v \in BOOLEAN, SetVerified(U, v), NEW u \in Users, Becomes(u)
    PROVE  u \in U /\ Live(u) /\ v
<1>1. u \in U /\ Live(u)
  BY DEF SetVerified, Becomes
<1>2. [users[u] EXCEPT !.isVerified = v].isVerified = v
  BY <1>1, LiveIsRow DEF Rows
<1> QED BY <1>1, <1>2 DEF SetVerified, Becomes

LEMMA VerifySetOwn ==
    ASSUME IInv, HoldInv, NEW r \in Requests, VerifySet(r), NEW u \in Users, Becomes(u)
    PROVE  OwnWay(u)
<1> DEFINE o == call[r].otp
<1>1. Live(u) /\ users[u].email = call[r].email
  <2> DEFINE U == {v \in Users : Live(v) /\ users[v].email = call[r].email}
  <2>1. SetVerified(U, TRUE)
    BY DEF VerifySet
  <2>2. u \in U
    <3> HIDE DEF U
    <3> QED BY <2>1, SetForWhom
  <2> QED BY <2>2
<1>2. /\ o \in Otps /\ verifications[o] # None /\ verifications[o].email = call[r].email
      /\ verifications[o].used
  BY DEF VerifySet, IInv, Fits, OwnOtp
<1>3. verifications[o].user \in holders[users[u].email]
  BY <1>1, <1>2 DEF HoldInv
<1> QED BY <1>1, <1>2, <1>3 DEF OwnWay

\* VerifiedByOwnOtp: however calls, failures, moving addresses, deletions and
\* saved rows interleave, an OTP verifies whoever has the address it was sent
\* to, and nobody else.
THEOREM VerifiedOnlyByOwnOtp == HSpec => VerifiedByOwnOtp
<1>1. ASSUME IInv, HoldInv, [Next]_vars, NEW u \in Users, Becomes(u) PROVE OwnWay(u)
  <2>1. users'[u] # users[u] /\ users[u] \in Rows
    BY <1>1 DEF Becomes, IInv, TypeOK
  <2>2. ASSUME NEW r \in Requests, VerifySet(r) PROVE OwnWay(u)
    BY <1>1, <2>2, VerifySetOwn
  <2>3. ASSUME NEW r \in Requests, LogoutWrite(r) PROVE FALSE
    BY <1>1, <2>3, SetForWhom DEF LogoutWrite
  <2>4. ASSUME NEW v \in Users, AdminUnverify(v) PROVE FALSE
    BY <1>1, <2>4, SetForWhom DEF AdminUnverify
  <2>5. ASSUME NEW v \in Users, AdminVerify(v) PROVE OwnWay(u)
    <3>1. SetVerified({v}, TRUE)
      BY <2>5 DEF AdminVerify
    <3>2. u \in {v}
      BY <1>1, <3>1, SetForWhom
    <3> QED BY <2>5, <3>2 DEF OwnWay
  <2>6. ASSUME NEW v \in Users, NEW e \in Emails, NEW role \in Roles, CreateUser(v, e, role)
        PROVE  FALSE
    BY <1>1, <2>1, <2>6 DEF CreateUser, Becomes, IInv, TypeOK
  <2>7. ASSUME NEW v \in Users, SwitchTwoFactor(v) PROVE FALSE
    <3>1. users' = [users EXCEPT ![v] = [users[v] EXCEPT !.twoFactorEnabled = ~ @]]
      BY <2>7 DEF SwitchTwoFactor
    <3>2. u = v
      BY <1>1, <2>1, <3>1 DEF IInv, TypeOK
    <3>3. [users[u] EXCEPT !.twoFactorEnabled = ~ @].isVerified = users[u].isVerified
      BY <2>1 DEF Rows
    <3> QED BY <1>1, <3>1, <3>2, <3>3 DEF Becomes, IInv, TypeOK
  <2>8. ASSUME NEW r \in Requests, UpdateStore(r) PROVE FALSE
    <3> DEFINE v == call[r].user
               row == AsAsked(users[v], call[r])
    <3>1. v \in Users /\ call[r] \in Calls
      BY <1>1, <2>8 DEF UpdateStore, IInv, Fits, Calls
    <3>2. Live(v) /\ users' = [users EXCEPT ![v] = row]
      BY <2>1, <2>8 DEF UpdateStore, Write
    <3>3. u = v
      BY <1>1, <2>1, <3>2 DEF IInv, TypeOK
    <3>4. row.isVerified = users[u].isVerified
      BY <2>1, <3>1, <3>3, AsAskedFits
    <3> HIDE DEF row
    <3> QED BY <1>1, <3>1, <3>2, <3>3, <3>4 DEF Becomes, IInv, TypeOK
  <2>9. ASSUME NEW r \in Requests, DeleteStore(r) PROVE FALSE
    <3> DEFINE v == call[r].user
    <3>1. v \in Users
      BY <1>1, <2>9 DEF DeleteStore, IInv, Fits, Calls
    <3>2. users' = [users EXCEPT ![v] = [users[v] EXCEPT !.deleted = TRUE]]
      BY <2>1, <2>9 DEF DeleteStore
    <3>3. u = v
      BY <1>1, <2>1, <3>2 DEF IInv, TypeOK
    <3> QED BY <1>1, <2>1, <3>1, <3>2, <3>3, DeletedFits DEF Becomes, IInv, TypeOK
  <2>10. ASSUME NEW r \in Requests, SetUpSave(r) PROVE OwnWay(u)
    <3> DEFINE v == call[r].user
    <3>1. v \in Users
      BY <1>1, <2>10 DEF SetUpSave, IInv, Fits, Calls
    <3>2. users' = [users EXCEPT ![v] = call[r].row]
      BY <2>1, <2>10 DEF SetUpSave, Write
    <3>3. u = v
      BY <1>1, <2>1, <3>2 DEF IInv, TypeOK
    <3>4. call[r].row.isVerified
      BY <1>1, <3>1, <3>2, <3>3 DEF Becomes, IInv, TypeOK
    <3> QED BY <2>10, <3>3, <3>4 DEF OwnWay
  <2>11. ASSUME NEW r \in Requests, NEW v \in Users, Begin(r, v) PROVE FALSE
    BY <1>1, <2>1, <2>11, BeginHolds
  <2> QED BY <1>1, <2>1, <2>2, <2>3, <2>4, <2>5, <2>6, <2>7, <2>8, <2>9, <2>10, <2>11
          DEF Next, vars, Advance, OneStatement, GivesUp, Tick, ResendFind, ResendInsert,
              VerifyFind, VerifyMark
<1>2. IInv /\ HoldInv /\ [HNext]_hvars => [\A u \in Users : Becomes(u) => OwnWay(u)]_hvars
  BY <1>1 DEF HNext
<1> QED BY <1>2, HoldInvariance, PTL DEF HSpec, VerifiedByOwnOtp, OwnWay, Becomes

-----------------------------------------------------------------------------
(* Calls that do not overlap *)

\* What a look-up has found stays true until the statement that relies on it.
ReadStillTrue(r) ==
    /\ pc[r] = "resendInsert" =>
          \A o \in Otps : Usable(o) => verifications[o].user # call[r].user
    /\ pc[r] = "verifyMark" => ~ verifications[call[r].otp].used

AInv == alone => /\ OneUsableOtp
                 /\ \A r, s \in Requests : pc[r] # "idle" /\ pc[s] # "idle" => r = s
                 /\ \A r \in Requests : ReadStillTrue(r)

\* No OTP becomes usable or another user's, and none is spent.
NoneUsable == \A o \in Otps :
    /\ Usable(o)' => Usable(o) /\ verifications'[o].user = verifications[o].user
    /\ verifications[o] # None /\ ~ verifications[o].used => ~ verifications'[o].used

LEMMA SameUsable == ASSUME UNCHANGED <<now, verifications>> PROVE NoneUsable
BY DEF NoneUsable, Usable

\* The only busy request is the one that has moved.
LEMMA MoverAlone ==
    ASSUME IInv, AInv, alone, ~ Disturbed, now' = now, NEW r \in Requests, OneUsableOtp',
           \A s \in Requests : s # r => pc'[s] = pc[s], ReadStillTrue(r)'
    PROVE  AInv'
<1>1. \A s \in Requests : s # r => pc'[s] = "idle"
  BY DEF Disturbed
<1> QED BY <1>1 DEF AInv, ReadStillTrue

LEMMA FinishAlone ==
    ASSUME IInv, AInv, alone, ~ Disturbed, now' = now, NEW r \in Requests, Finish(r), OneUsableOtp'
    PROVE  AInv'
<1>1. pc'[r] = "idle" /\ \A s \in Requests : s # r => pc'[s] = pc[s]
  BY DEF Finish, IInv, TypeOK
<1>2. ReadStillTrue(r)'
  BY <1>1 DEF ReadStillTrue
<1> QED BY <1>1, <1>2, MoverAlone

LEMMA ProceedAlone ==
    ASSUME IInv, AInv, alone, ~ Disturbed, NEW r \in Requests, NEW next, NEW c,
           Proceed(r, next, c), UNCHANGED <<now, verifications>>,
           next = "resendInsert" => \A o \in Otps : Usable(o) => verifications[o].user # c.user,
           next = "verifyMark" => ~ verifications[c.otp].used
    PROVE  AInv'
<1>1. pc'[r] = next /\ call'[r] = c /\ \A s \in Requests : s # r => pc'[s] = pc[s]
  BY DEF Proceed, IInv, TypeOK
<1>2. ReadStillTrue(r)' /\ OneUsableOtp'
  BY <1>1 DEF ReadStillTrue, Usable, AInv, OneUsableOtp
<1> QED BY <1>1, <1>2, MoverAlone

\* Time, and calls of one statement.
LEMMA IdleAlone ==
    ASSUME IInv, AInv, alone, NoneUsable, UNCHANGED <<pc, call>>,
           UNCHANGED verifications
    PROVE  AInv'
<1>1. OneUsableOtp'
  BY DEF AInv, OneUsableOtp, NoneUsable
<1>2. ASSUME NEW r \in Requests PROVE ReadStillTrue(r)'
  BY DEF AInv, ReadStillTrue, NoneUsable
<1> QED BY <1>1, <1>2 DEF AInv

LEMMA InsertAlone ==
    ASSUME IInv, AInv, alone, ~ Disturbed, NEW r \in Requests, ResendInsert(r)
    PROVE  AInv'
<1>1. PICK o \in Otps :
          /\ verifications[o] = None
          /\ verifications' = [verifications EXCEPT ![o] =
                [user |-> call[r].user, email |-> call[r].email,
                 made |-> now, expiry |-> now + OtpLife, used |-> FALSE]]
  BY DEF ResendInsert
<1>2. \A p \in Otps : p # o => verifications'[p] = verifications[p]
  BY <1>1 DEF IInv, TypeOK
<1>3. verifications'[o].user = call[r].user /\ now' = now
  BY <1>1 DEF IInv, TypeOK, ResendInsert
<1>4. \A p \in Otps : Usable(p) => verifications[p].user # call[r].user
  BY DEF ResendInsert, AInv, ReadStillTrue
<1>5. OneUsableOtp'
  BY <1>2, <1>3, <1>4 DEF OneUsableOtp, Usable, AInv
<1> QED BY <1>3, <1>5, FinishAlone DEF ResendInsert

LEMMA MarkAlone ==
    ASSUME IInv, AInv, alone, ~ Disturbed, NEW r \in Requests, VerifyMark(r)
    PROVE  AInv'
<1> DEFINE o == call[r].otp
<1>1. /\ o \in Otps /\ verifications'[o].used /\ now' = now
      /\ \A p \in Otps : p # o => verifications'[p] = verifications[p]
  BY MarkKeepsTables DEF VerifyMark, IInv, TypeOK
<1>2. OneUsableOtp'
  BY <1>1 DEF OneUsableOtp, Usable, AInv
<1>3. pc'[r] = "verifySet" /\ \A s \in Requests : s # r => pc'[s] = pc[s]
  BY DEF VerifyMark, Proceed, IInv, TypeOK
<1>4. ReadStillTrue(r)'
  BY <1>3 DEF ReadStillTrue
<1> QED BY <1>1, <1>2, <1>3, <1>4, MoverAlone

LEMMA AInvStep == IInv /\ AInv /\ [HNext]_hvars => AInv'
<1> SUFFICES ASSUME IInv, AInv, [HNext]_hvars, alone' PROVE AInv'
  BY DEF AInv
<1>1. CASE UNCHANGED hvars
  BY <1>1, IdleAlone, SameUsable DEF hvars, vars
<1>2. CASE HNext
  <2>1. alone /\ ~ Disturbed /\ ~ LookupFailed
    BY <1>2 DEF HNext
  <2>2. ASSUME NEW r \in Requests, NEW u \in Users, Begin(r, u) PROVE AInv'
    <3>1. PICK next \in PCs \ {"idle", "resendInsert", "verifyMark", "verifySet"}, c \in Calls :
             Proceed(r, next, c)
      BY <2>2, BeginHolds DEF Begun
    <3>2. UNCHANGED <<now, verifications>>
      BY <2>2, BeginHolds
    <3> QED BY <2>1, <3>1, <3>2, ProceedAlone
  <2>3. ASSUME NEW r \in Requests, ResendFind(r) PROVE AInv'
    <3>1. CASE Finish(r)
      BY <2>1, <2>3, <3>1, FinishAlone DEF ResendFind, AInv, OneUsableOtp, Usable
    <3>2. CASE Proceed(r, "resendInsert", call[r])
      <4>1. pc'[r] = "resendInsert" /\ pc[r] = "resendFind"
        BY <2>3, <3>2 DEF ResendFind, Proceed, IInv, TypeOK
      <4>2. \A o \in Otps : Usable(o) => verifications[o].user # call[r].user
        BY <2>1, <4>1 DEF LookupFailed
      <4> QED BY <2>1, <2>3, <3>2, <4>2, ProceedAlone DEF ResendFind
    <3> QED BY <2>3, <3>1, <3>2 DEF ResendFind
  <2>4. ASSUME NEW r \in Requests, VerifyFind(r) PROVE AInv'
    <3>1. CASE Finish(r)
      BY <2>1, <2>4, <3>1, FinishAlone DEF VerifyFind, AInv, OneUsableOtp, Usable
    <3>2. CASE ~ Rejected(r) /\ Proceed(r, "verifyMark", call[r])
      BY <2>1, <2>4, <3>2, ProceedAlone DEF VerifyFind, Rejected, Usable
    <3> QED BY <2>4, <3>1, <3>2 DEF VerifyFind
  <2>5. ASSUME NEW r \in Requests,
               \/ VerifySet(r) \/ LogoutWrite(r) \/ UpdateStore(r) \/ DeleteStore(r)
               \/ SetUpSave(r) \/ GivesUp(r)
        PROVE  AInv'
    <3>1. Finish(r) /\ UNCHANGED <<now, verifications>>
      BY <2>5 DEF VerifySet, LogoutWrite, UpdateStore, DeleteStore, SetUpSave, GivesUp
    <3> QED BY <2>1, <3>1, FinishAlone DEF AInv, OneUsableOtp, Usable
  <2>6. ASSUME NEW u \in Users, OneStatement(u) PROVE AInv'
    BY <2>1, <2>6, IdleAlone, SameUsable
       DEF OneStatement, CreateUser, AdminVerify, AdminUnverify, SwitchTwoFactor, InOneStep
  <2>7. CASE Tick
    <3>1. NoneUsable
      <4>1. now \in Nat /\ now' = now + 1 /\ verifications' = verifications
        BY <2>7 DEF Tick, IInv, TypeOK
      <4>2. \A o \in Otps : verifications[o] # None => verifications[o].expiry \in Nat
        BY DEF IInv, TypeOK, OtpRows
      <4> QED BY <4>1, <4>2 DEF NoneUsable, Usable
    <3> QED BY <2>1, <2>7, <3>1, IdleAlone DEF Tick
  <2> QED BY <1>2, <2>1, <2>2, <2>3, <2>4, <2>5, <2>6, <2>7, InsertAlone, MarkAlone
          DEF HNext, Next, Advance
<1> QED BY <1>1, <1>2

LEMMA AInvariance == HSpec => [](IInv /\ AInv)
<1>1. HInit => IInv /\ AInv
  <2> SUFFICES ASSUME HInit PROVE IInv /\ AInv
    OBVIOUS
  <2>1. /\ \A o \in Otps : ~ Usable(o)
        /\ \A r \in Requests : pc[r] = "idle"
    BY DEF HInit, Init, Usable
  <2>2. IInv
    BY IInvInit DEF HInit
  <2> QED BY <2>1, <2>2 DEF AInv, OneUsableOtp, ReadStillTrue
<1>2. IInv /\ AInv /\ [HNext]_hvars => (IInv /\ AInv)'
  BY IInvStep, AInvStep DEF HNext, hvars
<1> QED BY <1>1, <1>2, PTL DEF HSpec

\* OneUsableOtpAlone: as long as calls do not overlap and look-ups work,
\* ResendEmailVerification makes no second OTP while one can be used.
THEOREM OneUsableOtpsAlone == HSpec => []OneUsableOtpAlone
<1>1. AInv => OneUsableOtpAlone
  BY DEF AInv, OneUsableOtpAlone
<1> QED BY <1>1, AInvariance, PTL

\* OtpSpentOnceAlone: what VerifyUserToken marks used was not used, as long as
\* nobody comes between its look-up and its mark.
THEOREM OtpsAreSpentOnceAlone == HSpec => OtpSpentOnceAlone
<1>1. IInv /\ AInv /\ [HNext]_hvars => (alone' => SpendsUnused) \/ UNCHANGED hvars
  <2> SUFFICES ASSUME AInv, HNext, alone', NEW r \in Requests, VerifyMark(r)
               PROVE  ~ verifications[call[r].otp].used
    BY DEF SpendsUnused
  <2> QED BY DEF HNext, AInv, ReadStillTrue, VerifyMark
<1> QED BY <1>1, AInvariance, PTL DEF HSpec, OtpSpentOnceAlone
=============================================================================
