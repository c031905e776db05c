--------------------------- MODULE ProfilesProofs ---------------------------
(***************************************************************************)
(* Proofs about Profiles, for every set of users, names and requests, every *)
(* ToLower and every lifetime: types, that a cached profile belongs to the  *)
(* key it is under, that a cache nobody writes for only heals, and in which *)
(* cases alone a profile by id is outdated, a username leads to who gave it *)
(* up, and two accounts share one.                                          *)
(***************************************************************************)
EXTENDS ProfilesHistory, SequenceTheorems, TLAPS

\* What a reader brings to the cache belongs under the key it looked up.
FillsMatch ==
    \A r \in Requests : pc[r] = "fill" =>
        call[r].key \in {call[r].profile.user, call[r].profile.name}

\* No address is two accounts', deleted ones included.
EmailsUnique == \A u, v \in Users :
    users[u] # None /\ users[v] # None /\ users[u].email = users[v].email => u = v

IInv == TypeOK /\ KeyMatchesProfile /\ FillsMatch /\ EmailsUnique

\* A request that ends leaves every request with fitting values, and no new fill.
LEMMA FinishKeeps ==
    ASSUME TypeOK, FillsMatch, NEW r \in Requests, Finish(r)
    PROVE  /\ pc' \in [Requests -> PCs]
           /\ call' = [q \in Requests |-> call'[q]]
           /\ \A q \in Requests : CallFits(pc'[q], call'[q])
           /\ FillsMatch'
BY DEF TypeOK, FillsMatch, Finish, CallFits, PCs

\* So does a request that goes on with values that fit its next step.
LEMMA ProceedKeeps ==
    ASSUME TypeOK, FillsMatch, NEW r \in Requests, NEW next \in PCs, NEW c,
           CallFits(next, c),
           next = "fill" => c.key \in {c.profile.user, c.profile.name},
           Proceed(r, next, c)
    PROVE  /\ pc' \in [Requests -> PCs]
           /\ call' = [q \in Requests |-> call'[q]]
           /\ \A q \in Requests : CallFits(pc'[q], call'[q])
           /\ FillsMatch'
<1>1. pc' = [pc EXCEPT ![r] = next] /\ call' = [call EXCEPT ![r] = c]
  BY DEF Proceed
<1>2. pc' \in [Requests -> PCs] /\ call' = [q \in Requests |-> call'[q]]
  BY <1>1 DEF TypeOK
<1>3. \A q \in Requests : pc'[q] = (IF q = r THEN next ELSE pc[q])
                          /\ call'[q] = (IF q = r THEN c ELSE call[q])
  BY <1>1 DEF TypeOK
<1>4. \A q \in Requests : CallFits(pc'[q], call'[q])
  <2>1. TAKE q \in Requests
  <2>2. CASE q = r
    BY <2>2, <1>3
  <2>3. CASE q # r
    <3>1. CallFits(pc[q], call[q]) /\ pc'[q] = pc[q] /\ call'[q] = call[q]
      BY <2>3, <1>3 DEF TypeOK
    <3>2. QED BY <3>1
  <2>4. QED BY <2>2, <2>3
<1>5. FillsMatch'
  BY <1>3 DEF FillsMatch
<1>6. QED BY <1>2, <1>4, <1>5

\* What is left of the keys is a sequence of keys, or the call is over.
LEMMA ThenCleanKeeps ==
    ASSUME TypeOK, FillsMatch, NEW r \in Requests, NEW keys \in Seq(Keys), ThenClean(r, keys)
    PROVE  /\ pc' \in [Requests -> PCs]
           /\ call' = [q \in Requests |-> call'[q]]
           /\ \A q \in Requests : CallFits(pc'[q], call'[q])
           /\ FillsMatch'
<1>1. CASE keys = <<>>
  BY <1>1, FinishKeeps DEF ThenClean
<1>2. CASE keys # <<>>
  <2>1. Proceed(r, "clean", keys)
    BY <1>2 DEF ThenClean
  <2>2. "clean" \in PCs /\ CallFits("clean", keys)
    BY <1>2 DEF PCs, CallFits
  <2>3. QED BY <2>1, <2>2, ProceedKeeps
<1>3. QED BY <1>1, <1>2

\* An update of a live row writes a row, and another address only if it is free.
LEMMA UpdateKeepsRows ==
    ASSUME IInv, NEW u \in Users, NEW row,
           Live(u) => /\ row \in Rows
                      /\ row.email = users[u].email \/ ~ EmailTaken(row.email),
           UpdateUser(u, row)
    PROVE  users' \in [Users -> Rows \cup {None}] /\ EmailsUnique'
<1>1. CASE ~ Live(u)
  BY <1>1 DEF UpdateUser, IInv, TypeOK, EmailsUnique
<1>2. CASE Live(u)
  <2>1. users' = [users EXCEPT ![u] = row] /\ row \in Rows /\ users \in [Users -> Rows \cup {None}]
    BY <1>2 DEF UpdateUser, IInv, TypeOK
  <2>2. users[u] # None /\ \A v, w \in Users :
            users[v] # None /\ users[w] # None /\ users[v].email = users[w].email => v = w
    BY <1>2 DEF Live, IInv, EmailsUnique
  <2>3. \A v \in Users \ {u} : users[v] # None => users[v].email # row.email
    BY <1>2, <2>2 DEF EmailTaken
  <2>4. EmailsUnique'
    BY <2>1, <2>2, <2>3 DEF EmailsUnique
  <2> QED BY <2>1, <2>4
<1> QED BY <1>1, <1>2

\* The database answers with a profile of the key that was asked for.
LEMMA AnswersMatch ==
    ASSUME users \in [Users -> Rows \cup {None}], NEW k \in Keys, NEW p \in Answers(k)
    PROVE  p \in Profiles /\ k \in {p.user, p.name}
BY DEF Answers, ProfileOf, Profiles, Rows, Live

\* A step that leaves the cache alone keeps what it holds.
LEMMA CacheUntouched ==
    ASSUME IInv, UNCHANGED cache
    PROVE  cache' \in [Keys -> Entries \cup {None}] /\ KeyMatchesProfile'
BY DEF IInv, TypeOK, KeyMatchesProfile

-----------------------------------------------------------------------------

LEMMA InitEstablishes == Init => IInv
<1>1. SUFFICES ASSUME Init PROVE IInv
  OBVIOUS
<1>2. users \in [Users -> Rows \cup {None}] /\ EmailsUnique
  <2>1. {NewRow(n, e) : n \in Names, e \in Emails} \subseteq Rows
    <3>1. \A n \in Names, e \in Emails : NewRow(n, e) \in Rows
      BY DEF Rows, NewRow
    <3> QED BY <3>1
  <2>2. users \in [Users -> {NewRow(n, e) : n \in Names, e \in Emails} \cup {None}] /\ EmailsUnique
    BY <1>1 DEF Init, EmailsUnique
  <2> QED BY <2>1, <2>2
<1>3. cache \in [Keys -> Entries \cup {None}] /\ KeyMatchesProfile
  BY <1>1 DEF Init, KeyMatchesProfile
<1>4. calls \in Nat /\ pc \in [Requests -> PCs] /\ call = [r \in Requests |-> call[r]]
  BY <1>1 DEF Init, PCs
<1>5. \A r \in Requests : CallFits(pc[r], call[r])
  BY <1>1 DEF Init, CallFits
<1>6. FillsMatch
  BY <1>1 DEF Init, FillsMatch
<1>7. QED BY <1>2, <1>3, <1>4, <1>5, <1>6 DEF IInv, TypeOK

LEMMA ReadersPreserve ==
    ASSUME IInv, NEW r \in Requests, (\E k \in Keys : Miss(r, k)) \/ Load(r) \/ Fill(r)
    PROVE  IInv'
<1>1. TypeOK /\ FillsMatch
  BY DEF IInv
<1>2. ASSUME NEW k \in Keys, Miss(r, k) PROVE IInv'
  <2>1. Proceed(r, "load", k) /\ UNCHANGED <<users, cache, calls>>
    BY <1>2 DEF Miss
  <2>2. "load" \in PCs /\ CallFits("load", k)
    BY DEF PCs, CallFits
  <2>3. QED BY <2>1, <2>2, <1>1, ProceedKeeps, CacheUntouched DEF IInv, TypeOK, EmailsUnique
<1>3. CASE Load(r)
  <2>1. UNCHANGED <<users, cache, calls>> /\ pc[r] = "load"
    BY <1>3 DEF Load
  <2>2. call[r] \in Keys
    BY <2>1, <1>1 DEF TypeOK, CallFits
  <2>3. CASE Finish(r)
    BY <2>1, <2>3, <1>1, FinishKeeps, CacheUntouched DEF IInv, TypeOK, EmailsUnique
  <2>4. ASSUME NEW p \in Answers(call[r]), Proceed(r, "fill", [key |-> call[r], profile |-> p])
        PROVE  IInv'
    <3>1. p \in Profiles /\ call[r] \in {p.user, p.name}
      BY <2>2, <2>4, <1>1, AnswersMatch DEF TypeOK
    <3>2. "fill" \in PCs /\ CallFits("fill", [key |-> call[r], profile |-> p])
      BY <3>1, <2>2 DEF PCs, CallFits
    <3>3. QED BY <3>1, <3>2, <2>1, <2>4, <1>1, ProceedKeeps, CacheUntouched DEF IInv, TypeOK, EmailsUnique
  <2>5. QED BY <2>3, <2>4, <1>3 DEF Load
<1>4. CASE Fill(r)
  <2>1. pc[r] = "fill" /\ Finish(r) /\ UNCHANGED <<users, calls>>
    BY <1>4 DEF Fill
  <2>2. call[r] \in [key : Keys, profile : Profiles]
        /\ call[r].key \in {call[r].profile.user, call[r].profile.name}
    BY <2>1, <1>1 DEF TypeOK, CallFits, FillsMatch
  <2>3. CASE UNCHANGED cache
    BY <2>1, <2>3, <1>1, FinishKeeps, CacheUntouched DEF IInv, TypeOK, EmailsUnique
  <2>4. CASE cache' = [cache EXCEPT ![call[r].key] = [profile |-> call[r].profile, ttl |-> Life]]
    <3>1. [profile |-> call[r].profile, ttl |-> Life] \in Entries
      BY <2>2, ConstantsAssumption DEF Entries
    <3>2. cache' \in [Keys -> Entries \cup {None}]
      BY <2>4, <3>1, <1>1 DEF TypeOK
    <3>3. KeyMatchesProfile'
      BY <2>4, <2>2, <1>1 DEF IInv, TypeOK, KeyMatchesProfile
    <3>4. QED BY <3>2, <3>3, <2>1, <1>1, FinishKeeps DEF IInv, TypeOK, EmailsUnique
  <2>5. QED BY <2>3, <2>4, <1>4 DEF Fill
<1>5. QED BY <1>2, <1>3, <1>4

LEMMA CleanPreserves ==
    ASSUME IInv, NEW r \in Requests, Clean(r)
    PROVE  IInv'
<1>1. TypeOK /\ FillsMatch
  BY DEF IInv
<1>2. pc[r] = "clean" /\ ThenClean(r, Tail(call[r])) /\ UNCHANGED <<users, calls>>
  BY DEF Clean
<1>3. call[r] \in Seq(Keys) /\ call[r] # <<>>
  BY <1>2, <1>1 DEF TypeOK, CallFits
<1>4. Tail(call[r]) \in Seq(Keys) /\ Head(call[r]) \in Keys
  BY <1>3, HeadTailProperties
<1>5. cache' \in [Keys -> Entries \cup {None}] /\ KeyMatchesProfile'
  <2>1. CASE UNCHANGED cache
    BY <2>1, CacheUntouched
  <2>2. CASE cache' = [cache EXCEPT ![Head(call[r])] = None]
    BY <2>2, <1>4 DEF IInv, TypeOK, KeyMatchesProfile
  <2>3. QED BY <2>1, <2>2 DEF Clean
<1>6. QED BY <1>1, <1>2, <1>4, <1>5, ThenCleanKeeps DEF IInv, TypeOK, EmailsUnique

LEMMA UpdateProfilePreserves ==
    ASSUME IInv, NEW r \in Requests,
           \/ \E u \in Users, n \in Names : ProfileRow(r, u, n)
           \/ ProfileAvailable(r)
           \/ ProfileUpdate(r)
    PROVE  IInv'
<1>1. TypeOK /\ FillsMatch
  BY DEF IInv
<1>2. ASSUME NEW u \in Users, NEW n \in Names, ProfileRow(r, u, n) PROVE IInv'
  <2> DEFINE old  == IF Live(u) THEN <<Lower(users[u].name)>> ELSE <<>>
             new  == Lower(n)
             next == IF old = <<new>> THEN "update" ELSE "available"
             c    == [user |-> u, name |-> new, keys |-> <<u>> \o old \o <<new>>]
  <2>1. UNCHANGED <<users, cache>> /\ calls' = calls + 1 /\ Proceed(r, next, c)
    BY <1>2 DEF ProfileRow, Begins
  <2>2. new \in Names /\ (Live(u) => Lower(users[u].name) \in Names)
    BY <1>1, ConstantsAssumption DEF TypeOK, Rows, Live
  <2>3. c.keys \in Seq(Keys)
    <3>1. u \in Keys /\ new \in Keys /\ (Live(u) => Lower(users[u].name) \in Keys)
      BY <2>2 DEF Keys
    <3>2. \A k \in Keys : <<k>> \in Seq(Keys)
      OBVIOUS
    <3>3. old \in Seq(Keys)
      <4>1. CASE Live(u)
        BY <4>1, <3>1, <3>2
      <4>2. CASE ~ Live(u)
        BY <4>2, EmptySeq
      <4>3. QED BY <4>1, <4>2
    <3>4. <<u>> \in Seq(Keys) /\ <<new>> \in Seq(Keys)
      BY <3>1, <3>2
    <3> HIDE DEF old, new
    <3>5. <<u>> \o old \in Seq(Keys)
      BY <3>3, <3>4, ConcatProperties
    <3>6. <<u>> \o old \o <<new>> \in Seq(Keys)
      BY <3>4, <3>5, ConcatProperties
    <3>7. QED BY <3>6 DEF c
  <2>4. next \in PCs /\ next \in {"available", "update"}
    BY DEF PCs
  <2>5. CallFits(next, c)
    BY <2>2, <2>3, <2>4 DEF CallFits
  <2>6. calls' \in Nat
    BY <2>1, <1>1 DEF TypeOK
  <2> HIDE DEF next, c
  <2>7. next # "fill"
    BY <2>4
  <2>8. QED BY <2>1, <2>4, <2>5, <2>6, <2>7, <1>1, ProceedKeeps, CacheUntouched DEF IInv, TypeOK, EmailsUnique
<1>3. CASE ProfileAvailable(r)
  <2>1. pc[r] = "available" /\ UNCHANGED <<users, cache, calls>>
    BY <1>3 DEF ProfileAvailable
  <2>2. "update" \in PCs /\ CallFits("update", call[r])
    BY <2>1, <1>1 DEF TypeOK, CallFits, PCs
  <2>3. Finish(r) \/ Proceed(r, "update", call[r])
    BY <1>3 DEF ProfileAvailable
  <2>4. QED BY <2>1, <2>2, <2>3, <1>1, FinishKeeps, ProceedKeeps, CacheUntouched DEF IInv, TypeOK, EmailsUnique
<1>4. CASE ProfileUpdate(r)
  <2> DEFINE u == call[r].user
  <2>0. PICK f \in BOOLEAN : UpdateUser(u, [users[u] EXCEPT !.name = call[r].name, !.flag = f])
    BY <1>4 DEF ProfileUpdate
  <2>1. pc[r] = "update" /\ UNCHANGED <<cache, calls>> /\ ThenClean(r, call[r].keys)
    BY <1>4 DEF ProfileUpdate
  <2>2. call[r] \in [user : Users, name : Names, keys : Seq(Keys)]
    BY <2>1, <1>1 DEF TypeOK, CallFits
  <2> DEFINE row == [users[u] EXCEPT !.name = call[r].name, !.flag = f]
  <2>3. Live(u) => row \in Rows /\ row.email = users[u].email
    BY <2>2, <1>1 DEF TypeOK, Rows, Live
  <2>4. UpdateUser(u, row) /\ u \in Users
    BY <2>0, <2>2
  <2> HIDE DEF row, u
  <2>5. users' \in [Users -> Rows \cup {None}] /\ EmailsUnique'
    BY <2>3, <2>4, UpdateKeepsRows
  <2>6. QED BY <2>1, <2>2, <2>5, <1>1, ThenCleanKeeps, CacheUntouched DEF IInv, TypeOK
<1>5. QED BY <1>2, <1>3, <1>4

LEMMA RegisterPreserves ==
    ASSUME IInv, NEW r \in Requests, NEW u \in Users, NEW n \in Given, NEW e \in Emails,
           Register(r, u, n, e)
    PROVE  IInv'
<1>1. /\ calls' = calls + 1 /\ UNCHANGED cache /\ ThenClean(r, <<u>>)
      /\ users[u] = None /\ ~ EmailTaken(e) /\ users' = [users EXCEPT ![u] = NewRow(n, e)]
  BY DEF Register, Begins
<1>2. NewRow(n, e) \in Rows /\ NewRow(n, e).email = e
  BY ConstantsAssumption DEF NewRow, Rows
<1>3. users' \in [Users -> Rows \cup {None}]
  BY <1>1, <1>2 DEF IInv, TypeOK
<1>4. EmailsUnique'
  BY <1>1, <1>2 DEF IInv, TypeOK, EmailsUnique, EmailTaken
<1>5. <<u>> \in Seq(Keys) /\ calls' \in Nat
  BY <1>1 DEF Keys, IInv, TypeOK
<1> QED BY <1>1, <1>3, <1>4, <1>5, ThenCleanKeeps, CacheUntouched DEF IInv, TypeOK

LEMMA OtherWritersPreserve ==
    ASSUME IInv, NEW r \in Requests,
           \/ \E u \in Users : \/ AdminWrite(r, u) \/ OwnWrite(r, u) \/ SilentWrite(r, u)
                             \/ SoftDelete(r, u) \/ \E e \in Emails : AdminMove(r, u, e)
           \/ OwnRow(r)
    PROVE  IInv'
<1>1. TypeOK /\ FillsMatch
  BY DEF IInv
<1>2. <<>> \in Seq(Keys) /\ \A u \in Users : <<u>> \in Seq(Keys)
  BY DEF Keys
<1>3. ASSUME NEW u \in Users, Live(u)
      PROVE  /\ [users[u] EXCEPT !.flag = ~ @] \in Rows
             /\ [users[u] EXCEPT !.flag = ~ @].email = users[u].email
             /\ [users[u] EXCEPT !.live = FALSE] \in Rows
             /\ [users[u] EXCEPT !.live = FALSE].email = users[u].email
  BY <1>1, <1>3 DEF TypeOK, Rows, Live
<1>4. ASSUME NEW u \in Users,
             AdminWrite(r, u) \/ SilentWrite(r, u) \/ SoftDelete(r, u) \/ \E e \in Emails : AdminMove(r, u, e)
      PROVE  IInv'
  <2>1. calls' = calls + 1 /\ UNCHANGED cache
        /\ (ThenClean(r, <<>>) \/ ThenClean(r, <<u>>))
    BY <1>4 DEF AdminWrite, SilentWrite, SoftDelete, AdminMove, Begins
  <2>2. users' \in [Users -> Rows \cup {None}] /\ EmailsUnique'
    <3>1. CASE UpdateUser(u, [users[u] EXCEPT !.flag = ~ @])
      BY <3>1, <1>3, UpdateKeepsRows
    <3>2. CASE UpdateUser(u, [users[u] EXCEPT !.live = FALSE])
      BY <3>2, <1>3, UpdateKeepsRows
    <3>3. ASSUME NEW e \in Emails, AdminMove(r, u, e)
          PROVE  users' \in [Users -> Rows \cup {None}] /\ EmailsUnique'
      <4> DEFINE row == [users[u] EXCEPT !.email = e, !.flag = ~ @]
      <4>1. UpdateUser(u, row) /\ ~ EmailTaken(e)
        BY <3>3 DEF AdminMove
      <4>2. Live(u) => row \in Rows /\ row.email = e
        BY <1>1 DEF TypeOK, Rows, Live
      <4> HIDE DEF row
      <4> QED BY <4>1, <4>2, UpdateKeepsRows
    <3> QED BY <1>4, <3>1, <3>2, <3>3 DEF AdminWrite, SilentWrite, SoftDelete
  <2>3. calls' \in Nat
    BY <2>1, <1>1 DEF TypeOK
  <2>4. QED BY <2>1, <2>2, <2>3, <1>1, <1>2, ThenCleanKeeps, CacheUntouched DEF IInv, TypeOK
<1>5. ASSUME NEW u \in Users, OwnWrite(r, u) PROVE IInv'
  <2>1. calls' = calls + 1 /\ UNCHANGED cache /\ Proceed(r, "again", users[u].email)
        /\ UpdateUser(u, [users[u] EXCEPT !.flag = ~ @]) /\ Live(u)
    BY <1>5 DEF OwnWrite, Begins
  <2>2. users' \in [Users -> Rows \cup {None}] /\ EmailsUnique'
    BY <2>1, <1>3, UpdateKeepsRows
  <2>3. "again" \in PCs /\ CallFits("again", users[u].email) /\ calls' \in Nat
    BY <2>1, <1>1 DEF PCs, CallFits, TypeOK, Rows, Live
  <2>4. QED BY <2>1, <2>2, <2>3, <1>1, ProceedKeeps, CacheUntouched DEF IInv, TypeOK
<1>6. CASE OwnRow(r)
  <2>1. pc[r] = "again" /\ UNCHANGED <<users, cache, calls>>
    BY <1>6 DEF OwnRow
  <2>2. CASE Finish(r)
    BY <2>1, <2>2, <1>1, FinishKeeps, CacheUntouched DEF IInv, TypeOK, EmailsUnique
  <2>3. ASSUME NEW u \in Users, Addressed(u, call[r]), ThenClean(r, <<u, Lower(users[u].name)>>)
        PROVE  IInv'
    <3>1. Lower(users[u].name) \in Names
      BY <2>3, <1>1, ConstantsAssumption DEF TypeOK, Rows, Addressed, Live
    <3>2. <<u, Lower(users[u].name)>> \in Seq(Keys)
      BY <3>1 DEF Keys
    <3> QED BY <2>1, <2>3, <3>2, <1>1, ThenCleanKeeps, CacheUntouched DEF IInv, TypeOK, EmailsUnique
  <2> QED BY <1>6, <2>2, <2>3 DEF OwnRow
<1>7. QED BY <1>4, <1>5, <1>6

LEMMA SetUpPreserves ==
    ASSUME IInv, NEW r \in Requests, (\E u \in Users : SetUpRow(r, u)) \/ SetUpSave(r)
    PROVE  IInv'
<1>1. TypeOK /\ FillsMatch
  BY DEF IInv
<1>2. ASSUME NEW u \in Users, SetUpRow(r, u) PROVE IInv'
  <2>1. /\ calls' = calls + 1 /\ UNCHANGED <<users, cache>>
        /\ Live(u) /\ Proceed(r, "save", [user |-> u, row |-> users[u]])
    BY <1>2 DEF SetUpRow, Begins
  <2>2. "save" \in PCs /\ CallFits("save", [user |-> u, row |-> users[u]]) /\ calls' \in Nat
    BY <2>1, <1>1 DEF PCs, CallFits, TypeOK, Live
  <2> QED BY <2>1, <2>2, <1>1, ProceedKeeps, CacheUntouched DEF IInv, TypeOK, EmailsUnique
<1>3. CASE SetUpSave(r)
  <2> DEFINE u == call[r].user
             row == call[r].row
  <2>1. pc[r] = "save" /\ UNCHANGED <<cache, calls>>
        /\ \/ Finish(r) /\ UNCHANGED users
           \/ /\ \A v \in Users \ {u} : users[v] # None => users[v].email # row.email
              /\ users' = [users EXCEPT ![u] = row] /\ ThenClean(r, <<u>>)
    BY <1>3 DEF SetUpSave
  <2>2. u \in Users /\ row \in Rows /\ <<u>> \in Seq(Keys)
    BY <2>1, <1>1 DEF TypeOK, CallFits, Keys
  <2> HIDE DEF u, row
  <2>3. CASE Finish(r) /\ UNCHANGED users
    BY <2>1, <2>3, <1>1, FinishKeeps, CacheUntouched DEF IInv, TypeOK, EmailsUnique
  <2>4. CASE /\ \A v \in Users \ {u} : users[v] # None => users[v].email # row.email
             /\ users' = [users EXCEPT ![u] = row] /\ ThenClean(r, <<u>>)
    <3>1. users' \in [Users -> Rows \cup {None}] /\ EmailsUnique'
      BY <2>2, <2>4 DEF IInv, TypeOK, EmailsUnique
    <3> QED BY <2>1, <2>2, <2>4, <3>1, <1>1, ThenCleanKeeps, CacheUntouched DEF IInv, TypeOK
  <2> QED BY <2>1, <2>3, <2>4
<1> QED BY <1>2, <1>3

LEMMA TickPreserves ==
    ASSUME IInv, Tick
    PROVE  IInv'
<1>1. UNCHANGED <<users, calls, pc, call>>
      /\ cache' = [k \in Keys |-> IF cache[k] = None \/ cache[k].ttl = 1 THEN None
                                  ELSE [cache[k] EXCEPT !.ttl = @ - 1]]
  BY DEF Tick
<1>2. \A k \in Keys : cache[k] = None \/ cache[k] \in Entries
  BY DEF IInv, TypeOK
<1>3. \A k \in Keys :
         \/ cache'[k] = None
         \/ cache'[k] \in Entries /\ cache[k] # None /\ cache'[k].profile = cache[k].profile
  <2>1. TAKE k \in Keys
  <2>2. CASE cache[k] = None \/ cache[k].ttl = 1
    BY <1>1, <2>2
  <2>3. CASE cache[k] # None /\ cache[k].ttl # 1
    <3>1. cache[k] \in Entries /\ cache[k].ttl - 1 \in 1..Life
      BY <1>2, <2>3, ConstantsAssumption DEF Entries
    <3>2. cache'[k] = [cache[k] EXCEPT !.ttl = @ - 1]
      BY <1>1, <2>3
    <3>3. QED BY <3>1, <3>2, <2>3 DEF Entries
  <2>4. QED BY <2>2, <2>3
<1>4. cache' \in [Keys -> Entries \cup {None}]
  BY <1>1, <1>3
<1>5. KeyMatchesProfile'
  BY <1>3 DEF IInv, KeyMatchesProfile
<1>6. QED BY <1>1, <1>4, <1>5 DEF IInv, TypeOK, FillsMatch, EmailsUnique

LEMMA NextPreserves == IInv /\ [Next]_vars => IInv'
<1>1. SUFFICES ASSUME IInv, [Next]_vars PROVE IInv'
  OBVIOUS
<1>2. ASSUME NEW r \in Requests, Begin(r) PROVE IInv'
  BY <1>1, <1>2, ReadersPreserve, UpdateProfilePreserves, RegisterPreserves, OtherWritersPreserve,
     SetUpPreserves DEF Begin
<1>3. ASSUME NEW r \in Requests, Advance(r) PROVE IInv'
  BY <1>1, <1>3, ReadersPreserve, CleanPreserves, UpdateProfilePreserves, OtherWritersPreserve,
     SetUpPreserves DEF Advance
<1>4. ASSUME NEW r \in Requests, GivesUp(r) PROVE IInv'
  <2>1. Finish(r) /\ UNCHANGED <<users, cache, calls>>
    BY <1>4 DEF GivesUp
  <2>2. QED BY <2>1, <1>1, FinishKeeps, CacheUntouched DEF IInv, TypeOK, EmailsUnique
<1>5. CASE Tick
  BY <1>1, <1>5, TickPreserves
<1>6. CASE UNCHANGED vars
  BY <1>1, <1>6 DEF vars, IInv, TypeOK, KeyMatchesProfile, FillsMatch, EmailsUnique
<1>7. QED BY <1>1, <1>2, <1>3, <1>4, <1>5, <1>6 DEF Next

-----------------------------------------------------------------------------

\* The strengthened invariant holds in every reachable state.
THEOREM Invariance == Spec => []IInv
BY InitEstablishes, NextPreserves, PTL DEF Spec

\* Types: rows, cached entries and the values requests carry (users, cache, pc).
THEOREM TypeCorrect == Spec => []TypeOK
<1>1. IInv => TypeOK
  BY DEF IInv
<1>2. QED BY <1>1, Invariance, PTL

\* GetUserProfile's cache never holds a profile under a key that is not its own,
\* whatever fills, renames, deletes and failures interleave.
THEOREM CachedProfilesMatchTheirKey == Spec => []KeyMatchesProfile
<1>1. IInv => KeyMatchesProfile
  BY DEF IInv
<1>2. QED BY <1>1, Invariance, PTL

-----------------------------------------------------------------------------
(* A cache that only heals: what SettlesFresh rests on besides fairness *)

\* No reader brings a profile to key k that the row no longer shows.
FillsRight(k) == \A r \in Requests : pc[r] = "fill" /\ call[r].key = k => call[r].profile \in Answers(k)

\* What was right under k still is; what was wrong is as it was, or one unit of
\* time closer to its end.
Heals(k) == \/ Fresh(k)'
            \/ /\ ~ Fresh(k)
               /\ cache'[k] = cache[k] \/ cache'[k] = [cache[k] EXCEPT !.ttl = @ - 1]

LEMMA SameAnswers == users' = users => \A k : Answers(k)' = Answers(k)
BY DEF Answers, ProfileOf, Live

\* A request that ends, or goes on to anything but a fill, brings nothing.
LEMMA OthersFill ==
    ASSUME TypeOK, users' = users, NEW k \in Keys, FillsRight(k), NEW r \in Requests,
           NEW next, NEW c, Proceed(r, next, c),
           next = "fill" /\ c.key = k => c.profile \in Answers(k)
    PROVE  FillsRight(k)'
<1>1. ASSUME NEW s \in Requests, pc'[s] = "fill", call'[s].key = k PROVE call'[s].profile \in Answers(k)
  BY <1>1 DEF TypeOK, Proceed, FillsRight
<1> QED BY <1>1, SameAnswers DEF FillsRight

LEMMA FinishBringsNothing ==
    ASSUME TypeOK, users' = users, NEW k \in Keys, FillsRight(k), NEW r \in Requests, Finish(r)
    PROVE  FillsRight(k)'
BY OthersFill DEF Finish, Proceed

LEMMA CleanBringsNothing ==
    ASSUME TypeOK, users' = users, NEW k \in Keys, FillsRight(k), NEW r \in Requests,
           NEW keys, ThenClean(r, keys)
    PROVE  FillsRight(k)'
BY OthersFill, FinishBringsNothing DEF ThenClean

LEMMA SameEntry ==
    ASSUME users' = users, NEW k \in Keys, cache'[k] = cache[k]
    PROVE  Heals(k)
BY SameAnswers DEF Heals, Fresh

LEMMA StepHeals ==
    ASSUME TypeOK, Next, users' = users, NEW k \in Keys, FillsRight(k)
    PROVE  FillsRight(k)' /\ Heals(k)
<1>1. ASSUME NEW r \in Requests, NEW j \in Keys, Miss(r, j) PROVE FillsRight(k)' /\ Heals(k)
  BY <1>1, OthersFill, SameEntry DEF Miss
<1>2. ASSUME NEW r \in Requests, Load(r) PROVE FillsRight(k)' /\ Heals(k)
  <2>1. CASE Finish(r)
    BY <1>2, <2>1, FinishBringsNothing, SameEntry DEF Load
  <2>2. ASSUME NEW p \in Answers(call[r]), Proceed(r, "fill", [key |-> call[r], profile |-> p])
        PROVE  FillsRight(k)' /\ Heals(k)
    BY <1>2, <2>2, OthersFill, SameEntry DEF Load
  <2> QED BY <1>2, <2>1, <2>2 DEF Load
<1>3. ASSUME NEW r \in Requests, Fill(r) PROVE FillsRight(k)' /\ Heals(k)
  <2>1. FillsRight(k)'
    BY <1>3, FinishBringsNothing DEF Fill
  <2>2. CASE cache' = [cache EXCEPT ![call[r].key] = [profile |-> call[r].profile, ttl |-> Life]]
    <3>1. CASE call[r].key = k
      <4>1. cache'[k].profile = call[r].profile
        BY <2>2, <3>1 DEF TypeOK
      <4>2. cache'[k].profile \in Answers(k)'
        BY <1>3, <3>1, <4>1, SameAnswers DEF Fill, FillsRight
      <4> QED BY <2>1, <4>2 DEF Heals, Fresh
    <3>2. CASE call[r].key # k
      BY <2>1, <2>2, <3>2, SameEntry DEF TypeOK
    <3> QED BY <3>1, <3>2
  <2> QED BY <1>3, <2>1, <2>2, SameEntry DEF Fill
<1>4. ASSUME NEW r \in Requests, Clean(r) PROVE FillsRight(k)' /\ Heals(k)
  <2>1. FillsRight(k)'
    BY <1>4, CleanBringsNothing DEF Clean
  <2>2. cache'[k] = None \/ cache'[k] = cache[k]
    BY <1>4 DEF Clean, TypeOK
  <2> QED BY <2>1, <2>2, SameEntry DEF Heals, Fresh
<1>5. ASSUME NEW r \in Requests, NEW u \in Users, NEW n \in Names, ProfileRow(r, u, n)
      PROVE  FillsRight(k)' /\ Heals(k)
  <2>1. \E next \in {"update", "available"} : \E c : Proceed(r, next, c)
    BY <1>5 DEF ProfileRow
  <2> QED BY <1>5, <2>1, OthersFill, SameEntry DEF ProfileRow
<1>6. ASSUME NEW r \in Requests, ProfileAvailable(r) PROVE FillsRight(k)' /\ Heals(k)
  BY <1>6, OthersFill, FinishBringsNothing, SameEntry DEF ProfileAvailable
<1>7. ASSUME NEW r \in Requests, ProfileUpdate(r) \/ OwnRow(r) \/ SetUpSave(r)
      PROVE  FillsRight(k)' /\ Heals(k)
  <2>1. UNCHANGED cache /\ (Finish(r) \/ \E keys : ThenClean(r, keys))
    BY <1>7 DEF ProfileUpdate, OwnRow, SetUpSave
  <2> QED BY <2>1, CleanBringsNothing, FinishBringsNothing, SameEntry
<1>8. ASSUME NEW r \in Requests, NEW u \in Users,
             \/ AdminWrite(r, u) \/ SilentWrite(r, u) \/ SoftDelete(r, u)
             \/ (\E n \in Given, e \in Emails : Register(r, u, n, e))
             \/ (\E e \in Emails : AdminMove(r, u, e))
      PROVE  FillsRight(k)' /\ Heals(k)
  <2>1. UNCHANGED cache /\ \E keys : ThenClean(r, keys)
    BY <1>8 DEF AdminWrite, SilentWrite, SoftDelete, Register, AdminMove
  <2> QED BY <2>1, CleanBringsNothing, SameEntry
<1>9. ASSUME NEW r \in Requests, NEW u \in Users, OwnWrite(r, u) \/ SetUpRow(r, u)
      PROVE  FillsRight(k)' /\ Heals(k)
  <2>1. UNCHANGED cache /\ \E next \in {"again", "save"} : \E c : Proceed(r, next, c)
    BY <1>9 DEF OwnWrite, SetUpRow
  <2> QED BY <2>1, OthersFill, SameEntry
<1>10. ASSUME NEW r \in Requests, GivesUp(r) PROVE FillsRight(k)' /\ Heals(k)
  BY <1>10, FinishBringsNothing, SameEntry DEF GivesUp
<1>11. CASE Tick
  <2>1. FillsRight(k)'
    BY <1>11, SameAnswers DEF Tick, FillsRight
  <2>2. \/ cache'[k] = None
        \/ cache'[k] = [cache[k] EXCEPT !.ttl = @ - 1] /\ cache[k] \in Entries /\ cache[k] # None
    BY <1>11 DEF Tick, TypeOK
  <2>3. cache'[k] = None => Heals(k)
    BY DEF Heals, Fresh
  <2>4. ASSUME cache'[k] = [cache[k] EXCEPT !.ttl = @ - 1], cache[k] \in Entries, cache[k] # None
        PROVE  Heals(k)
    <3>1. cache'[k].profile = cache[k].profile
      BY <2>4 DEF Entries
    <3> QED BY <2>4, <3>1, SameAnswers DEF Heals, Fresh
  <2> QED BY <2>1, <2>2, <2>3, <2>4
<1> QED BY <1>1, <1>2, <1>3, <1>4, <1>5, <1>6, <1>7, <1>8, <1>9, <1>10, <1>11 DEF Next, Begin, Advance

\* While no row changes, a key that no stale profile is on its way to gets none:
\* a right entry is never replaced by a wrong one, and a wrong one is never given
\* new life, so that two minutes later it is gone.  Deletes that fail, readers
\* that overtake them and calls that die do not matter (GetUserProfile and the
\* InvalidateCache calls of the writers).
THEOREM CacheOnlyHeals ==
    Spec => [][users' = users => \A k \in Keys : FillsRight(k) => FillsRight(k)' /\ Heals(k)]_vars
<1>1. TypeOK /\ [Next]_vars =>
        [users' = users => \A k \in Keys : FillsRight(k) => FillsRight(k)' /\ Heals(k)]_vars
  BY StepHeals
<1> QED BY <1>1, TypeCorrect, PTL DEF Spec

-----------------------------------------------------------------------------
(* Whatever interleaves: what a request has read is true unless overtaken, and *)
(* what is cached is right unless a delete is pending or was missed            *)

\* What a request holds, overtaken or not.
Held(r) ==
    /\ pc[r] = "fill" => users[call[r].profile.user] # None
    /\ pc[r] \in {"available", "update"} => 1 \in DOMAIN call[r].keys /\ call[r].keys[1] = call[r].user
    /\ pc[r] = "save" => call[r].row.live /\ users[call[r].user] # None

\* The keys UpdateProfile will delete: the username left behind is one of them.
KeysFit(c) == Live(c.user) => \E i \in DOMAIN c.keys : c.keys[i] = Lower(users[c.user].name)

\* Nobody else goes by the new username, or it is the own one in lower case.
Free(c) == \/ \A v \in Users : Goes(v, c.name) => v = c.user
           \/ users[c.user] # None /\ Lower(users[c.user].name) = c.name

ReadIsTrue(r) ==
    /\ pc[r] = "fill" => LET p == call[r].profile IN Live(p.user) /\ p = ProfileOf(p.user)
    /\ pc[r] \in {"available", "update"} => KeysFit(call[r])
    /\ pc[r] = "update" => Free(call[r])
    /\ pc[r] = "save" => Live(call[r].user) /\ users[call[r].user].name = call[r].row.name

RequestOk(r) == Held(r) /\ (r \in overtaken \/ ReadIsTrue(r))

Right(k) == IF k \in Users THEN Live(k) /\ cache[k].profile = ProfileOf(k)
                           ELSE users[cache[k].profile.user].name = k

KeyOk(k) == \/ cache[k] = None
            \/ /\ users[cache[k].profile.user] # None
               /\ Right(k) \/ k \in missed \/ Pending(k)

HInv == /\ \A r \in Requests : RequestOk(r)
        /\ \A k \in Keys : KeyOk(k)
        /\ AskedNamesUnique

\* Ids stay given out.
RowsStay == \A v \in Users : users[v] # None => users'[v] # None

\* Only r may have moved.
OthersWait(r) == \A s \in Requests : s # r => pc'[s] = pc[s] /\ call'[s] = call[s]

LEMMA FinishMoves ==
    ASSUME IInv, NEW r \in Requests, Finish(r)
    PROVE  pc'[r] = "idle" /\ OthersWait(r) /\ (pc[r] # "idle" => Moves(r))
BY DEF IInv, TypeOK, Finish, Moves, OthersWait

LEMMA ProceedMoves ==
    ASSUME IInv, NEW r \in Requests, NEW next, NEW c, Proceed(r, next, c)
    PROVE  pc'[r] = next /\ call'[r] = c /\ OthersWait(r) /\ (next # pc[r] \/ c # call[r] => Moves(r))
BY DEF IInv, TypeOK, Proceed, Moves, OthersWait

\* What stays the same of who goes by which username.
LEMMA SameNaming ==
    ASSUME IInv, NEW v \in Users, Naming(v)' = Naming(v)
    PROVE  /\ Live(v)' <=> Live(v)
           /\ users[v] # None => users'[v] # None /\ users'[v].name = users[v].name
           /\ \A n : Goes(v, n)' <=> Goes(v, n)
<1>1. users[v] # None => users[v].name # None
  BY ConstantsAssumption DEF IInv, TypeOK, Rows
<1>2. /\ Live(v)' <=> Live(v)
      /\ (IF users'[v] = None THEN None ELSE users'[v].name) = (IF users[v] = None THEN None ELSE users[v].name)
  BY DEF Naming
<1>3. users[v] # None => users'[v] # None /\ users'[v].name = users[v].name
  BY <1>1, <1>2
<1> QED BY <1>2, <1>3 DEF Goes, Live

LEMMA SameRowSameNaming ==
    ASSUME NEW v \in Users, users'[v] = users[v]
    PROVE  Naming(v)' = Naming(v)
BY DEF Naming, Live

\* A waiting request: its reading is true, or it is overtaken from now on.
LEMMA WaitingKeeps ==
    ASSUME IInv, HInv, Recorded, RowsStay, NEW s \in Requests, pc'[s] = pc[s], call'[s] = call[s]
    PROVE  RequestOk(s)'
<1>1. ~ Moves(s) /\ RequestOk(s)
  BY DEF Moves, HInv
<1>2. CASE pc[s] \notin {"fill", "available", "update", "save"}
  BY <1>2 DEF RequestOk, Held, ReadIsTrue
<1>3. CASE pc[s] = "fill"
  <2> DEFINE p == call[s].profile
  <2>1. p.user \in Users
    BY <1>3 DEF IInv, TypeOK, CallFits, Profiles
  <2>2. users'[p.user] # None
    BY <1>1, <1>3, <2>1 DEF RequestOk, Held, RowsStay
  <2>3. s \in overtaken' \/ (s \notin overtaken /\ users'[p.user] = users[p.user])
    BY <1>1, <1>3 DEF Recorded, Overtakes
  <2>4. s \notin overtaken' => Live(p.user)' /\ p = ProfileOf(p.user)'
    BY <1>1, <1>3, <2>3 DEF RequestOk, ReadIsTrue, Live, ProfileOf
  <2> QED BY <1>3, <2>2, <2>4 DEF RequestOk, Held, ReadIsTrue
<1>4. CASE pc[s] \in {"available", "update", "save"}
  <2> DEFINE c == call[s]
             u == c.user
  <2>1. u \in Users
    BY <1>4 DEF IInv, TypeOK, CallFits
  <2>2. Held(s)'
    BY <1>1, <1>4, <2>1 DEF RequestOk, Held, RowsStay
  <2>3. ASSUME s \notin overtaken' PROVE ReadIsTrue(s)'
    <3>1. s \notin overtaken /\ ~ Overtakes(s)
      BY <2>3, <1>4 DEF Recorded
    <3>2. Naming(u)' = Naming(u) /\ ReadIsTrue(s)
      BY <1>1, <1>4, <3>1 DEF Overtakes, RequestOk
    <3>3. /\ Live(u)' <=> Live(u)
          /\ users[u] # None => users'[u] # None /\ users'[u].name = users[u].name
      BY <2>1, <3>2, SameNaming
    <3>4. Live(u) => users[u] # None
      BY DEF Live
    <3>5. pc[s] \in {"available", "update"} => KeysFit(c)'
      BY <3>2, <3>3, <3>4 DEF ReadIsTrue, KeysFit
    <3>6. pc[s] = "save" => Live(u)' /\ users'[u].name = c.row.name
      BY <3>2, <3>3, <3>4 DEF ReadIsTrue
    <3>7. ASSUME pc[s] = "update" PROVE Free(c)'
      <4>1. \A v \in Users \ {u} : Goes(v, c.name)' => Goes(v, c.name)
        BY <1>1, <3>1, <3>7 DEF Overtakes, Takes
      <4>2. Free(c)
        BY <3>2, <3>7 DEF ReadIsTrue
      <4> QED BY <4>1, <4>2, <3>3 DEF Free
    <3> QED BY <1>4, <3>5, <3>6, <3>7 DEF ReadIsTrue
  <2> QED BY <2>2, <2>3 DEF RequestOk
<1> QED BY <1>2, <1>3, <1>4

LEMMA MissedStays ==
    ASSUME Recorded, NEW k \in Keys, cache'[k] # None, \A s \in Requests : ~ Fills(s, k),
           k \in missed \/ Misses(k)
    PROVE  k \in missed'
BY DEF Recorded

\* A key whose entry is at most forgotten or older, while no row changes.
LEMMA KeyKept ==
    ASSUME IInv, HInv, Recorded, users' = users, NEW k \in Keys,
           cache'[k] = None \/ (cache[k] # None /\ cache'[k].profile = cache[k].profile),
           \A s \in Requests : ~ Fills(s, k),
           Pending(k) => Pending(k)' \/ cache'[k] = None \/ Misses(k)
    PROVE  KeyOk(k)'
<1>1. SUFFICES ASSUME cache'[k] # None PROVE KeyOk(k)'
  BY DEF KeyOk
<1>2. cache[k] # None /\ cache'[k].profile = cache[k].profile /\ KeyOk(k)
  BY <1>1 DEF HInv
<1>3. users'[cache'[k].profile.user] # None
  BY <1>2 DEF KeyOk
<1>4. Right(k) => Right(k)'
  BY <1>2 DEF Right, Live, ProfileOf
<1>5. k \in missed \/ Misses(k) => k \in missed'
  BY <1>1, MissedStays
<1> QED BY <1>1, <1>2, <1>3, <1>4, <1>5 DEF KeyOk

\* A request that waits is still going to delete the key of a row that stays.
LEMMA WaitingStillDeletes ==
    ASSUME NEW s \in Requests, NEW k, PendingBy(s, k), pc'[s] = pc[s], call'[s] = call[s],
           k \in Users => users'[k] = users[k]
    PROVE  PendingBy(s, k)'
BY DEF PendingBy, Addressed, Live

\* A request r writes u's row, and deletes u's profile by id next.
LEMMA RowWritten ==
    ASSUME IInv, HInv, Recorded, UNCHANGED cache,
           NEW r \in Requests, OthersWait(r), pc[r] \in {"idle", "update", "save"},
           NEW u \in Users, \A v \in Users : v # u => users'[v] = users[v],
           RowsStay,
           cache[u] # None => Misses(u) \/ Pending(u)',
           \A n \in Names : users[u] # None /\ users[u].name = n /\ users'[u].name # n
                              => Misses(n) \/ Pending(n)',
           NEW k \in Keys
    PROVE  KeyOk(k)'
<1>1. SUFFICES ASSUME cache'[k] # None PROVE KeyOk(k)'
  BY DEF KeyOk
<1>2. cache[k] # None /\ cache'[k] = cache[k] /\ KeyOk(k)
  BY <1>1 DEF HInv
<1>3. cache[k].profile.user \in Users
  BY <1>2 DEF IInv, TypeOK, Entries, Profiles
<1>4. users'[cache'[k].profile.user] # None
  BY <1>2, <1>3 DEF KeyOk, RowsStay
<1>5. \A s \in Requests : ~ Fills(s, k)
  BY <1>2 DEF Fills
<1>6. k \in missed \/ Misses(k) => k \in missed'
  BY <1>1, <1>5, MissedStays
<1>7. CASE k = u
  BY <1>2, <1>4, <1>6, <1>7 DEF KeyOk
<1>8. ASSUME k # u PROVE Pending(k) => Pending(k)'
  <2>1. SUFFICES ASSUME NEW s \in Requests, PendingBy(s, k) PROVE PendingBy(s, k)'
    BY DEF Pending
  <2>2. s # r
    BY <2>1 DEF PendingBy
  <2> QED BY <2>1, <2>2, <1>8, WaitingStillDeletes DEF OthersWait
<1>9. ASSUME k # u, Right(k) PROVE KeyOk(k)'
  <2>1. CASE k \in Users
    BY <2>1, <1>2, <1>4, <1>9 DEF KeyOk, Right, Live, ProfileOf
  <2>2. CASE k \notin Users
    <3>1. k \in Names /\ users[cache[k].profile.user].name = k
      BY <2>2, <1>9 DEF Right, Keys
    <3>2. CASE cache[k].profile.user # u
      BY <2>2, <3>1, <3>2, <1>2, <1>3, <1>4 DEF KeyOk, Right
    <3>3. CASE cache[k].profile.user = u
      <4>1. users[u] # None
        BY <1>2, <3>3 DEF KeyOk
      <4>2. CASE users'[u].name = k
        BY <2>2, <3>3, <4>2, <1>2, <1>4 DEF KeyOk, Right
      <4>3. CASE users'[u].name # k
        BY <3>1, <3>3, <4>1, <4>3, <1>4, <1>6 DEF KeyOk
      <4> QED BY <4>2, <4>3
    <3> QED BY <3>2, <3>3
  <2> QED BY <2>1, <2>2
<1>10. CASE k # u
  BY <1>2, <1>4, <1>6, <1>8, <1>9, <1>10 DEF KeyOk
<1> QED BY <1>7, <1>10

\* One user may get a username: nobody else goes by it, or it is noted that
\* nobody asked.
LEMMA NamesKept ==
    ASSUME IInv, HInv, Recorded, NEW u \in Users,
           \A v \in Users : v # u => Naming(v)' = Naming(v),
           \/ Naming(u)' = Naming(u) \/ ~ Live(u)' \/ NamedUnasked(u)
           \/ \A v \in Users : v # u => ~ Goes(v, users'[u].name)
    PROVE  AskedNamesUnique'
<1>1. \A v \in Users : Naming(v)' = Naming(v) /\ v \in unasked => v \in unasked'
  BY DEF Recorded, NamedAsked
<1>2. NamedUnasked(u) => u \in unasked'
  BY DEF Recorded
<1>3. ASSUME NEW v \in Users, v # u, Live(u)', Live(v)', users'[u].name = users'[v].name
      PROVE  u \in unasked' \/ v \in unasked'
  <2>1. Goes(v, users'[u].name)
    <3>1. Live(v) /\ users'[v].name = users[v].name
      BY <1>3, SameNaming DEF Live
    <3> QED BY <1>3, <3>1 DEF Goes
  <2>2. CASE Naming(u)' = Naming(u)
    <3>1. Live(u) /\ users'[u].name = users[u].name
      BY <1>3, <2>2, SameNaming DEF Live
    <3>2. u \in unasked \/ v \in unasked
      BY <1>3, <2>1, <3>1 DEF HInv, AskedNamesUnique, Goes
    <3> QED BY <3>2, <2>2, <1>1, <1>3
  <2> QED BY <2>1, <2>2, <1>2, <1>3
<1>4. ASSUME NEW v \in Users, NEW w \in Users, v # u, w # u,
             Live(v)', Live(w)', users'[v].name = users'[w].name
      PROVE  v = w \/ v \in unasked' \/ w \in unasked'
  <2>1. Live(v) /\ Live(w) /\ users[v].name = users[w].name
    BY <1>4, SameNaming DEF Live
  <2> QED BY <2>1, <1>1, <1>4 DEF HInv, AskedNamesUnique
<1> QED BY <1>3, <1>4 DEF AskedNamesUnique

LEMMA NamesStill ==
    ASSUME IInv, HInv, Recorded, users' = users
    PROVE  AskedNamesUnique'
<1>1. CASE Users = {}
  BY <1>1 DEF AskedNamesUnique
<1>2. ASSUME NEW u \in Users PROVE AskedNamesUnique'
  <2>1. \A v \in Users : Naming(v)' = Naming(v)
    BY SameRowSameNaming
  <2> QED BY <2>1, NamesKept
<1> QED BY <1>1, <1>2

\* The pieces of a step by r.
LEMMA Pieces ==
    ASSUME IInv, HInv, Recorded, RowsStay, NEW r \in Requests, OthersWait(r), RequestOk(r)',
           \A k \in Keys : KeyOk(k)', AskedNamesUnique'
    PROVE  HInv'
<1>1. \A s \in Requests : s # r => RequestOk(s)'
  BY WaitingKeeps DEF OthersWait
<1> QED BY <1>1 DEF HInv

\* A step that writes neither table nor cache, of a request that was not about
\* to delete.
LEMMA NothingWritten ==
    ASSUME IInv, HInv, Recorded, UNCHANGED <<users, cache>>,
           NEW r \in Requests, OthersWait(r), RequestOk(r)',
           \A k \in Keys : PendingBy(r, k) => PendingBy(r, k)' \/ Misses(k)
    PROVE  HInv'
<1>1. RowsStay
  BY DEF RowsStay
<1>2. ASSUME NEW k \in Keys PROVE KeyOk(k)'
  <2>1. \A s \in Requests : ~ Fills(s, k)
    BY DEF Fills
  <2>2. Pending(k) => Pending(k)' \/ Misses(k)
    BY WaitingStillDeletes DEF Pending, OthersWait
  <2> QED BY <2>1, <2>2, KeyKept DEF KeyOk
<1> QED BY <1>1, <1>2, NamesStill, Pieces

-----------------------------------------------------------------------------

LEMMA ReadersKeep ==
    ASSUME IInv, HInv, Recorded, NEW r \in Requests,
           (\E k \in Keys : Miss(r, k)) \/ Load(r) \/ Fill(r)
    PROVE  HInv'
<1>1. ASSUME NEW k \in Keys, Miss(r, k) PROVE HInv'
  <2>1. pc[r] = "idle" /\ pc'[r] = "load" /\ OthersWait(r) /\ UNCHANGED <<users, cache>>
    BY <1>1, ProceedMoves DEF Miss
  <2>2. RequestOk(r)' /\ \A j : ~ PendingBy(r, j)
    BY <2>1 DEF RequestOk, Held, ReadIsTrue, PendingBy
  <2> QED BY <2>1, <2>2, NothingWritten
<1>2. CASE Load(r)
  <2>1. pc[r] = "load" /\ UNCHANGED <<users, cache>> /\ \A j : ~ PendingBy(r, j)
    BY <1>2 DEF Load, PendingBy
  <2>2. CASE Finish(r)
    <3>1. RequestOk(r)' /\ OthersWait(r)
      BY <2>2, FinishMoves DEF RequestOk, Held, ReadIsTrue
    <3> QED BY <2>1, <3>1, NothingWritten
  <2>3. ASSUME NEW p \in Answers(call[r]), Proceed(r, "fill", [key |-> call[r], profile |-> p])
        PROVE  HInv'
    <3>1. pc'[r] = "fill" /\ call'[r].profile = p /\ OthersWait(r)
      BY <2>3, ProceedMoves
    <3>2. Live(p.user) /\ p = ProfileOf(p.user)
      BY DEF Answers, ProfileOf
    <3>3. users'[p.user] # None /\ Live(p.user)' /\ p = ProfileOf(p.user)'
      BY <2>1, <3>2 DEF ProfileOf, Live
    <3>4. RequestOk(r)'
      BY <3>1, <3>3 DEF RequestOk, Held, ReadIsTrue
    <3> QED BY <2>1, <3>1, <3>4, NothingWritten
  <2> QED BY <1>2, <2>2, <2>3 DEF Load
<1>3. CASE Fill(r)
  <2>0. PICK j, p : j = call[r].key /\ p = call[r].profile
    OBVIOUS
  <2>1. /\ pc[r] = "fill" /\ UNCHANGED users /\ OthersWait(r) /\ pc'[r] = "idle" /\ Moves(r)
        /\ UNCHANGED cache \/ cache' = [cache EXCEPT ![j] = [profile |-> p, ttl |-> Life]]
    BY <1>3, <2>0, FinishMoves DEF Fill
  <2>2. j \in Keys /\ p \in Profiles /\ j \in {p.user, p.name}
    BY <2>0, <2>1 DEF IInv, TypeOK, CallFits, FillsMatch
  <2>3. /\ users[p.user] # None
        /\ r \in overtaken \/ (Live(p.user) /\ p = ProfileOf(p.user))
    BY <2>0, <2>1 DEF HInv, RequestOk, Held, ReadIsTrue
  <2>4. RowsStay /\ RequestOk(r)' /\ AskedNamesUnique'
    BY <2>1, NamesStill DEF RowsStay, RequestOk, Held, ReadIsTrue
  <2>5. ASSUME NEW k \in Keys, cache'[k] = cache[k] PROVE KeyOk(k)'
    <3>1. \A s \in Requests : ~ Fills(s, k)
      BY <2>5 DEF Fills
    <3>2. Pending(k) => Pending(k)'
      <4>1. ~ PendingBy(r, k)
        BY <2>1 DEF PendingBy
      <4> QED BY <2>1, <4>1, WaitingStillDeletes DEF Pending, OthersWait
    <3> QED BY <2>1, <2>5, <3>1, <3>2, KeyKept DEF KeyOk
  <2>6. ASSUME cache'[j] # cache[j], cache'[j] # None PROVE KeyOk(j)'
    <3>1. cache'[j].profile = p
      BY <2>1, <2>2, <2>6 DEF IInv, TypeOK
    <3>2. Fills(r, j)
      BY <2>0, <2>1, <2>6 DEF Fills
    <3>3. CASE r \in overtaken
      <4>1. j \in missed'
        BY <2>2, <2>6, <3>2, <3>3 DEF Recorded
      <4> QED BY <2>1, <2>3, <3>1, <4>1 DEF KeyOk
    <3>4. CASE Live(p.user) /\ p = ProfileOf(p.user)
      <4>1. p.name = users[p.user].name /\ p.user \in Users /\ p.name \in Names
        BY <2>2, <3>4 DEF ProfileOf, Profiles
      <4>2. j \in Users => j = p.user
        BY <2>2, <4>1, ConstantsAssumption
      <4>3. j \notin Users => j = p.name
        BY <2>2, <4>1
      <4>4. Right(j)'
        BY <2>1, <3>1, <3>4, <4>1, <4>2, <4>3 DEF Right, Live, ProfileOf
      <4> QED BY <2>1, <2>3, <3>1, <4>4 DEF KeyOk
    <3> QED BY <2>3, <3>3, <3>4
  <2>7. \A k \in Keys : k # j => cache'[k] = cache[k]
    BY <2>1, <2>2 DEF IInv, TypeOK
  <2>8. \A k \in Keys : KeyOk(k)'
    BY <2>5, <2>6, <2>7 DEF KeyOk
  <2> QED BY <2>1, <2>4, <2>8, Pieces
<1> QED BY <1>1, <1>2, <1>3

\* A key a writer goes past is out of the cache, or noted.
LEMMA CleanKeeps ==
    ASSUME IInv, HInv, Recorded, NEW r \in Requests, Clean(r)
    PROVE  HInv'
<1>0. PICK s, t : s = call[r] /\ t = Tail(call[r])
  OBVIOUS
<1>1. /\ pc[r] = "clean" /\ s \in Seq(Keys) /\ s # <<>> /\ UNCHANGED users
      /\ t \in Seq(Keys) /\ Len(t) = Len(s) - 1 /\ Len(s) \in Nat \ {0} /\ Head(s) = s[1]
      /\ \A i \in 1..Len(t) : t[i] = s[i + 1]
  BY <1>0, HeadTailProperties DEF Clean, IInv, TypeOK, CallFits
<1>2. /\ OthersWait(r) /\ Moves(r)
      /\ (t = <<>> /\ pc'[r] = "idle") \/ (t # <<>> /\ pc'[r] = "clean" /\ call'[r] = t)
  <2>1. CASE t = <<>>
    BY <1>0, <1>1, <2>1, FinishMoves DEF Clean, ThenClean
  <2>2. CASE t # <<>>
    <3>1. t # s
      BY <1>1
    <3>2. Proceed(r, "clean", t)
      BY <1>0, <2>2 DEF Clean, ThenClean
    <3> QED BY <1>0, <2>2, <3>1, <3>2, ProceedMoves
  <2> QED BY <2>1, <2>2
<1>3. \A k \in Keys : cache'[k] = cache[k] \/ cache'[k] = None
  BY <1>0, <1>1 DEF Clean, IInv, TypeOK
<1>4. ASSUME NEW k \in Keys, PendingBy(r, k) PROVE PendingBy(r, k)' \/ Misses(k)
  <2>1. PICK i \in 1..Len(s) : s[i] = k
    BY <1>0, <1>1, <1>4 DEF PendingBy
  <2>2. CASE i = 1
    BY <1>0, <1>1, <1>2, <2>1, <2>2 DEF Misses, Skips
  <2>3. CASE i # 1
    <3>1. i - 1 \in 1..Len(t) /\ t[i - 1] = k
      BY <1>1, <2>1, <2>3
    <3>2. Len(t) # 0 /\ t # <<>>
      BY <1>1, <2>1, <2>3
    <3>3. pc'[r] = "clean" /\ call'[r] = t /\ i - 1 \in DOMAIN t
      BY <1>1, <1>2, <3>1, <3>2
    <3> QED BY <3>1, <3>3 DEF PendingBy
  <2> QED BY <2>2, <2>3
<1>5. \A q \in Requests, k \in Keys : ~ Fills(q, k)
  BY <1>1, <1>2 DEF Fills, OthersWait, Moves
<1>6. ASSUME NEW k \in Keys PROVE KeyOk(k)'
  <2>1. Pending(k) => Pending(k)' \/ Misses(k)
    BY <1>1, <1>2, <1>4, WaitingStillDeletes DEF Pending, OthersWait
  <2>2. CASE cache'[k] = None
    BY <2>2 DEF KeyOk
  <2>3. CASE cache'[k] # None
    BY <1>1, <1>3, <1>5, <2>1, <2>3, KeyKept
  <2> QED BY <2>2, <2>3
<1>7. RowsStay /\ RequestOk(r)' /\ AskedNamesUnique'
  BY <1>1, <1>2, NamesStill DEF RowsStay, RequestOk, Held, ReadIsTrue
<1> QED BY <1>2, <1>6, <1>7, Pieces

LEMMA TickKeeps ==
    ASSUME IInv, HInv, Recorded, Tick
    PROVE  HInv'
<1>1. UNCHANGED <<users, pc, call>>
  BY DEF Tick
<1>2. \A k \in Keys : cache'[k] = None \/ (cache[k] # None /\ cache'[k].profile = cache[k].profile)
  BY DEF Tick, IInv, TypeOK, Entries
<1>3. \A k \in Keys : (Pending(k) => Pending(k)') /\ \A s \in Requests : ~ Fills(s, k)
  BY <1>1 DEF Pending, PendingBy, Addressed, Live, Fills, Moves
<1>4. \A k \in Keys : KeyOk(k)'
  BY <1>1, <1>2, <1>3, KeyKept
<1>5. RowsStay /\ AskedNamesUnique'
  BY <1>1, NamesStill DEF RowsStay
<1>6. \A s \in Requests : RequestOk(s)'
  BY <1>1, <1>5, WaitingKeeps
<1> QED BY <1>4, <1>5, <1>6 DEF HInv

\* Who gives up leaves the keys he was going to delete, which is noted.
LEMMA GivesUpKeeps ==
    ASSUME IInv, HInv, Recorded, NEW r \in Requests, GivesUp(r)
    PROVE  HInv'
<1>1. /\ OthersWait(r) /\ Moves(r) /\ pc'[r] = "idle" /\ UNCHANGED <<users, cache>>
  BY FinishMoves DEF GivesUp
<1>2. \A k \in Keys : PendingBy(r, k) => Misses(k)
  BY <1>1 DEF PendingBy, Misses, Skips
<1>3. RequestOk(r)'
  BY <1>1 DEF RequestOk, Held, ReadIsTrue
<1> QED BY <1>1, <1>2, <1>3, NothingWritten

\* What an update of one row leaves.
LEMMA UpdateIs ==
    ASSUME IInv, NEW u \in Users, NEW row, UpdateUser(u, row)
    PROVE  /\ \A v \in Users : v # u => users'[v] = users[v]
           /\ users'[u] = IF Live(u) THEN row ELSE users[u]
BY DEF UpdateUser, IInv, TypeOK

LEMMA ProfileRowKeeps ==
    ASSUME IInv, HInv, Recorded, NEW r \in Requests, NEW u \in Users, NEW n \in Names, ProfileRow(r, u, n)
    PROVE  HInv'
<1> DEFINE old  == IF Live(u) THEN <<Lower(users[u].name)>> ELSE <<>>
           new  == Lower(n)
           next == IF old = <<new>> THEN "update" ELSE "available"
           keys == <<u>> \o old \o <<new>>
<1>1. /\ UNCHANGED <<users, cache>> /\ pc[r] = "idle"
      /\ Proceed(r, next, [user |-> u, name |-> new, keys |-> keys])
  BY DEF ProfileRow, Begins
<1>2. /\ 1 \in DOMAIN keys /\ keys[1] = u
      /\ Live(u) => 2 \in DOMAIN keys /\ keys[2] = Lower(users[u].name)
  OBVIOUS
<1>3. next \in {"update", "available"} /\ (next = "update" => Live(u) /\ new = Lower(users[u].name))
  OBVIOUS
<1> HIDE DEF old, new, next, keys
<1> DEFINE c == [user |-> u, name |-> new, keys |-> keys]
<1>4. pc'[r] = next /\ call'[r] = c /\ OthersWait(r)
  BY <1>1, ProceedMoves
<1>5. KeysFit(c) /\ 1 \in DOMAIN c.keys /\ c.keys[1] = c.user
  BY <1>2 DEF KeysFit
<1>6. next = "update" => Free(c)
  BY <1>3 DEF Free, Live
<1>7. c.user = u
  OBVIOUS
<1>8. PICK d : d = c
  OBVIOUS
<1>9. KeysFit(d)' /\ (next = "update" => Free(d)')
  BY <1>1, <1>5, <1>6, <1>8 DEF KeysFit, Free, Live, Goes
<1>10. RequestOk(r)'
  BY <1>3, <1>4, <1>5, <1>8, <1>9 DEF RequestOk, Held, ReadIsTrue
<1>11. \A k : ~ PendingBy(r, k)
  BY <1>1 DEF PendingBy
<1> QED BY <1>1, <1>4, <1>10, <1>11, NothingWritten

LEMMA ProfileAvailableKeeps ==
    ASSUME IInv, HInv, Recorded, NEW r \in Requests, ProfileAvailable(r)
    PROVE  HInv'
<1>1. pc[r] = "available" /\ UNCHANGED <<users, cache>> /\ \A k : ~ PendingBy(r, k)
  BY DEF ProfileAvailable, PendingBy
<1>2. CASE Finish(r)
  <2>1. RequestOk(r)' /\ OthersWait(r)
    BY <1>2, FinishMoves DEF RequestOk, Held, ReadIsTrue
  <2> QED BY <1>1, <2>1, NothingWritten
<1>3. CASE /\ ~ \E v \in Users : Live(v) /\ users[v].name = call[r].name
           /\ Proceed(r, "update", call[r])
  <2>0. PICK c : c = call[r]
    OBVIOUS
  <2>1. pc'[r] = "update" /\ call'[r] = c /\ OthersWait(r)
    BY <1>3, <2>0, ProceedMoves
  <2>2. /\ 1 \in DOMAIN c.keys /\ c.keys[1] = c.user
        /\ r \in overtaken \/ KeysFit(c)
    BY <1>1, <2>0 DEF HInv, RequestOk, Held, ReadIsTrue
  <2>3. Free(c)' /\ (KeysFit(c) => KeysFit(c)')
    BY <1>1, <1>3, <2>0 DEF Free, Goes, KeysFit, Live
  <2>4. r \in overtaken => r \in overtaken'
    BY <2>1 DEF Recorded
  <2>5. RequestOk(r)'
    BY <2>1, <2>2, <2>3, <2>4 DEF RequestOk, Held, ReadIsTrue
  <2> QED BY <1>1, <2>1, <2>5, NothingWritten
<1> QED BY <1>2, <1>3 DEF ProfileAvailable

LEMMA ProfileUpdateKeeps ==
    ASSUME IInv, HInv, Recorded, NEW r \in Requests, ProfileUpdate(r)
    PROVE  HInv'
<1>0. PICK c, u : c = call[r] /\ u = c.user
  OBVIOUS
<1>1. PICK f \in BOOLEAN : UpdateUser(u, [users[u] EXCEPT !.name = c.name, !.flag = f])
  BY <1>0 DEF ProfileUpdate
<1>2. pc[r] = "update" /\ UNCHANGED cache /\ ThenClean(r, c.keys)
  BY <1>0 DEF ProfileUpdate
<1>3. u \in Users /\ c.name \in Names /\ (Live(u) => users[u] \in Rows)
  BY <1>0, <1>2 DEF IInv, TypeOK, CallFits, Live
<1>4. /\ 1 \in DOMAIN c.keys /\ c.keys[1] = u
      /\ r \in overtaken \/ (KeysFit(c) /\ Free(c))
  BY <1>0, <1>2 DEF HInv, RequestOk, Held, ReadIsTrue
<1>5. Proceed(r, "clean", c.keys)
  BY <1>2, <1>4 DEF ThenClean
<1>6. pc'[r] = "clean" /\ call'[r] = c.keys /\ OthersWait(r) /\ Moves(r)
  BY <1>2, <1>5, ProceedMoves
<1> DEFINE row == [users[u] EXCEPT !.name = c.name, !.flag = f]
<1>7. Live(u) => /\ row # None /\ row.live /\ row.name = c.name
                 /\ users[u] # None
  <2>1. Live(u) => row \in Rows
    BY <1>3 DEF Rows
  <2>2. None \notin Rows
    BY ConstantsAssumption DEF Rows
  <2> QED BY <1>3, <2>1, <2>2 DEF Rows, Live
<1>8. UpdateUser(u, row)
  BY <1>1
<1> HIDE DEF row
<1>9. /\ \A v \in Users : v # u => users'[v] = users[v]
      /\ users'[u] = IF Live(u) THEN row ELSE users[u]
  BY <1>3, <1>8, UpdateIs
<1>10. RowsStay
  BY <1>3, <1>7, <1>9 DEF RowsStay
<1>11. \A k : (\E i \in DOMAIN c.keys : c.keys[i] = k) => Pending(k)'
  BY <1>6 DEF Pending, PendingBy
<1>12. Pending(u)'
  BY <1>4, <1>11
<1>13. ASSUME NEW n \in Names, users[u] # None, users[u].name = n, users'[u].name # n
       PROVE  Misses(n) \/ Pending(n)'
  <2>1. Live(u)
    BY <1>9, <1>13
  <2>2. CASE r \in overtaken \/ Lower(n) # n
    BY <1>0, <1>2, <1>6, <1>13, <2>2 DEF Misses, Leaves
  <2>3. CASE r \notin overtaken /\ Lower(n) = n
    BY <1>0, <1>4, <1>11, <1>13, <2>1, <2>3 DEF KeysFit
  <2> QED BY <2>2, <2>3
<1>14. ASSUME NEW k \in Keys PROVE KeyOk(k)'
  BY <1>2, <1>3, <1>6, <1>9, <1>10, <1>12, <1>13, RowWritten
<1>15. AskedNamesUnique'
  <2>1. \A v \in Users : v # u => Naming(v)' = Naming(v)
    BY <1>9, SameRowSameNaming
  <2>2. CASE Naming(u)' = Naming(u) \/ ~ Live(u)'
    BY <1>3, <2>1, <2>2, NamesKept
  <2>3. ASSUME Naming(u)' # Naming(u), Live(u)' PROVE AskedNamesUnique'
    <3>1. Live(u)
      BY <1>9, <2>3 DEF Naming, Live
    <3>2. users'[u].name = c.name
      BY <3>1, <1>7, <1>9
    <3>3. CASE r \in overtaken \/ Lower(users[u].name) = c.name
      <4>1. NamedUnasked(u)
        BY <1>0, <1>2, <1>6, <2>3, <3>3 DEF NamedUnasked
      <4> QED BY <1>3, <2>1, <4>1, NamesKept
    <3>4. CASE r \notin overtaken /\ Lower(users[u].name) # c.name
      <4>1. \A v \in Users : v # u => ~ Goes(v, users'[u].name)
        BY <1>0, <1>4, <3>2, <3>4 DEF Free
      <4> QED BY <1>3, <2>1, <4>1, NamesKept
    <3> QED BY <3>3, <3>4
  <2> QED BY <2>2, <2>3
<1>16. RequestOk(r)'
  BY <1>6 DEF RequestOk, Held, ReadIsTrue
<1> QED BY <1>6, <1>10, <1>14, <1>15, <1>16, Pieces

LEMMA RegisterKeeps ==
    ASSUME IInv, HInv, Recorded, NEW r \in Requests, NEW u \in Users, NEW n \in Given, NEW e \in Emails,
           Register(r, u, n, e)
    PROVE  HInv'
<1>1. /\ pc[r] = "idle" /\ UNCHANGED cache /\ Proceed(r, "clean", <<u>>)
      /\ users[u] = None /\ users' = [users EXCEPT ![u] = NewRow(n, e)]
  BY DEF Register, Begins, ThenClean
<1>2. pc'[r] = "clean" /\ call'[r] = <<u>> /\ OthersWait(r)
  BY <1>1, ProceedMoves
<1>3. NewRow(n, e) # None /\ NewRow(n, e).live
  <2>1. n \in Names
    BY ConstantsAssumption
  <2>2. NewRow(n, e) \in Rows
    BY <2>1 DEF NewRow, Rows
  <2>3. None \notin Rows
    BY ConstantsAssumption DEF Rows
  <2>4. NewRow(n, e).live
    BY DEF NewRow
  <2> QED BY <2>2, <2>3, <2>4
<1>4. /\ \A v \in Users : v # u => users'[v] = users[v]
      /\ users'[u] = NewRow(n, e)
  BY <1>1 DEF IInv, TypeOK
<1>5. RowsStay /\ Pending(u)'
  BY <1>1, <1>2, <1>4 DEF RowsStay, Pending, PendingBy
<1>6. \A k \in Keys : KeyOk(k)'
  BY <1>1, <1>2, <1>4, <1>5, RowWritten
<1>7. NamedUnasked(u)
  <2>1. Live(u)' /\ ~ Live(u)
    BY <1>1, <1>3, <1>4 DEF Live
  <2> QED BY <1>1, <2>1 DEF NamedUnasked, Naming
<1>8. AskedNamesUnique'
  BY <1>4, <1>7, SameRowSameNaming, NamesKept
<1>9. RequestOk(r)'
  BY <1>2 DEF RequestOk, Held, ReadIsTrue
<1> QED BY <1>2, <1>5, <1>6, <1>8, <1>9, Pieces

\* An update of u's row that leaves the username, by a call that goes on to
\* delete the profile by id, or is noted not to.
LEMMA ColumnsWritten ==
    ASSUME IInv, HInv, Recorded, UNCHANGED cache,
           NEW r \in Requests, pc[r] = "idle", OthersWait(r), RequestOk(r)',
           NEW u \in Users, NEW row, UpdateUser(u, row),
           Live(u) => row \in Rows /\ row.name = users[u].name,
           cache[u] # None => Misses(u) \/ Pending(u)'
    PROVE  HInv'
<1>1. /\ \A v \in Users : v # u => users'[v] = users[v]
      /\ users'[u] = IF Live(u) THEN row ELSE users[u]
  BY UpdateIs
<1>2. None \notin Rows
  BY ConstantsAssumption DEF Rows
<1>3. RowsStay /\ (users[u] # None => users'[u].name = users[u].name)
  BY <1>1, <1>2 DEF RowsStay
<1>4. \A k \in Keys : KeyOk(k)'
  BY <1>1, <1>3, RowWritten
<1>5. Naming(u)' = Naming(u) \/ ~ Live(u)'
  <2>1. CASE ~ Live(u)
    BY <1>1, <2>1, SameRowSameNaming
  <2>2. CASE Live(u) /\ Live(u)'
    BY <1>3, <2>2 DEF Naming, Live
  <2> QED BY <2>1, <2>2
<1>6. AskedNamesUnique'
  BY <1>1, <1>5, SameRowSameNaming, NamesKept
<1> QED BY <1>3, <1>4, <1>6, Pieces

LEMMA OtherWritersKeep ==
    ASSUME IInv, HInv, Recorded, NEW r \in Requests, NEW u \in Users,
           \/ AdminWrite(r, u) \/ OwnWrite(r, u) \/ SilentWrite(r, u) \/ SoftDelete(r, u)
           \/ \E e \in Emails : AdminMove(r, u, e)
    PROVE  HInv'
<1>1. pc[r] = "idle" /\ UNCHANGED cache
  BY DEF AdminWrite, OwnWrite, SilentWrite, SoftDelete, AdminMove, Begins
<1>2. Live(u) => users[u] \in Rows
  BY DEF IInv, TypeOK, Live
<1>3. PICK flagged, deleted : /\ flagged = [users[u] EXCEPT !.flag = ~ @]
                             /\ deleted = [users[u] EXCEPT !.live = FALSE]
  OBVIOUS
<1>4. Live(u) => /\ flagged \in Rows /\ flagged.name = users[u].name
                 /\ flagged.live /\ flagged.email = users[u].email
                 /\ deleted \in Rows /\ deleted.name = users[u].name
  BY <1>2, <1>3 DEF Rows, Live
<1>5. ASSUME Proceed(r, "clean", <<u>>) PROVE OthersWait(r) /\ RequestOk(r)' /\ Pending(u)'
  <2>1. pc'[r] = "clean" /\ call'[r] = <<u>> /\ OthersWait(r)
    BY <1>5, ProceedMoves
  <2> QED BY <2>1 DEF RequestOk, Held, ReadIsTrue, Pending, PendingBy
<1>6. CASE AdminWrite(r, u)
  <2>1. UpdateUser(u, flagged) /\ Proceed(r, "clean", <<u>>)
    BY <1>3, <1>6 DEF AdminWrite, ThenClean
  <2> QED BY <1>1, <1>4, <1>5, <2>1, ColumnsWritten
<1>7. CASE SoftDelete(r, u)
  <2>1. UpdateUser(u, deleted) /\ Proceed(r, "clean", <<u>>)
    BY <1>3, <1>7 DEF SoftDelete, ThenClean
  <2> QED BY <1>1, <1>4, <1>5, <2>1, ColumnsWritten
<1>8. ASSUME NEW e \in Emails, AdminMove(r, u, e) PROVE HInv'
  <2>1. PICK row : row = [users[u] EXCEPT !.email = e, !.flag = ~ @]
    OBVIOUS
  <2>2. UpdateUser(u, row) /\ Proceed(r, "clean", <<u>>)
    BY <1>8, <2>1 DEF AdminMove, ThenClean
  <2>3. Live(u) => row \in Rows /\ row.name = users[u].name
    BY <1>2, <2>1 DEF Rows
  <2> QED BY <1>1, <1>5, <2>2, <2>3, ColumnsWritten
<1>9. CASE OwnWrite(r, u)
  <2>1. UpdateUser(u, flagged) /\ Live(u) /\ Proceed(r, "again", users[u].email)
    BY <1>3, <1>9 DEF OwnWrite
  <2>2. pc'[r] = "again" /\ call'[r] = users[u].email /\ OthersWait(r)
    BY <2>1, ProceedMoves
  <2>3. users'[u] = flagged
    BY <2>1, UpdateIs
  <2>4. Live(u)' /\ users'[u].email = users[u].email
    <3>1. flagged # None
      BY <1>4, <2>1, ConstantsAssumption DEF Rows
    <3> QED BY <1>4, <2>1, <2>3, <3>1 DEF Live
  <2>5. Pending(u)' /\ RequestOk(r)'
    BY <2>2, <2>4 DEF Pending, PendingBy, Addressed, RequestOk, Held, ReadIsTrue
  <2> QED BY <1>1, <1>4, <2>1, <2>2, <2>5, ColumnsWritten
<1>10. CASE SilentWrite(r, u)
  <2>1. UpdateUser(u, flagged) /\ Finish(r)
    BY <1>3, <1>10 DEF SilentWrite, ThenClean
  <2>2. OthersWait(r) /\ RequestOk(r)'
    BY <2>1, FinishMoves DEF RequestOk, Held, ReadIsTrue
  <2>3. Misses(u)
    BY <1>10 DEF Misses
  <2> QED BY <1>1, <1>4, <2>1, <2>2, <2>3, ColumnsWritten
<1> QED BY <1>6, <1>7, <1>8, <1>9, <1>10

LEMMA OwnRowKeeps ==
    ASSUME IInv, HInv, Recorded, NEW r \in Requests, OwnRow(r)
    PROVE  HInv'
<1>1. pc[r] = "again" /\ UNCHANGED <<users, cache>>
  BY DEF OwnRow
<1>2. ASSUME NEW u \in Users, Addressed(u, call[r]), ThenClean(r, <<u, Lower(users[u].name)>>)
      PROVE  HInv'
  <2>1. PICK keys : keys = <<u, Lower(users[u].name)>>
    OBVIOUS
  <2>2. pc'[r] = "clean" /\ call'[r] = keys /\ OthersWait(r)
    BY <1>2, <2>1, ProceedMoves DEF ThenClean
  <2>3. ASSUME NEW k \in Keys, PendingBy(r, k) PROVE PendingBy(r, k)'
    <3>1. k = u
      BY <1>1, <1>2, <2>3 DEF PendingBy, Addressed, Live, IInv, EmailsUnique
    <3>2. 1 \in DOMAIN keys /\ keys[1] = k
      BY <2>1, <3>1
    <3> QED BY <2>2, <3>2 DEF PendingBy
  <2>4. RequestOk(r)'
    BY <2>2 DEF RequestOk, Held, ReadIsTrue
  <2> QED BY <1>1, <2>2, <2>3, <2>4, NothingWritten
<1>3. CASE ~ (\E u \in Users : Addressed(u, call[r])) /\ Finish(r)
  <2>1. OthersWait(r) /\ RequestOk(r)'
    BY <1>3, FinishMoves DEF RequestOk, Held, ReadIsTrue
  <2>2. \A k \in Keys : ~ PendingBy(r, k)
    BY <1>1, <1>3 DEF PendingBy
  <2> QED BY <1>1, <2>1, <2>2, NothingWritten
<1> QED BY <1>2, <1>3 DEF OwnRow

LEMMA SetUpKeeps ==
    ASSUME IInv, HInv, Recorded, NEW r \in Requests, (\E u \in Users : SetUpRow(r, u)) \/ SetUpSave(r)
    PROVE  HInv'
<1>1. ASSUME NEW u \in Users, SetUpRow(r, u) PROVE HInv'
  <2>1. PICK c : c = [user |-> u, row |-> users[u]]
    OBVIOUS
  <2>2. pc[r] = "idle" /\ Live(u) /\ UNCHANGED <<users, cache>> /\ Proceed(r, "save", c)
    BY <1>1, <2>1 DEF SetUpRow, Begins
  <2>3. pc'[r] = "save" /\ call'[r] = c /\ OthersWait(r) /\ \A k : ~ PendingBy(r, k)
    BY <2>2, ProceedMoves DEF PendingBy
  <2>4. /\ c.user = u /\ c.row.live /\ c.row.name = users[u].name
        /\ users'[u] # None /\ Live(u)' /\ users'[u].name = users[u].name
    BY <2>1, <2>2 DEF Live
  <2>5. RequestOk(r)'
    BY <2>3, <2>4 DEF RequestOk, Held, ReadIsTrue
  <2> QED BY <2>2, <2>3, <2>5, NothingWritten
<1>2. CASE SetUpSave(r)
  <2>0. PICK u, row : u = call[r].user /\ row = call[r].row
    OBVIOUS
  <2>1. /\ pc[r] = "save" /\ UNCHANGED cache
        /\ \/ Finish(r) /\ UNCHANGED users
           \/ users' = [users EXCEPT ![u] = row] /\ Proceed(r, "clean", <<u>>)
    BY <1>2, <2>0 DEF SetUpSave, ThenClean
  <2>2. u \in Users /\ row \in Rows /\ row # None
    BY <2>0, <2>1, ConstantsAssumption DEF IInv, TypeOK, CallFits, Rows
  <2>3. /\ row.live /\ users[u] # None
        /\ r \in overtaken \/ (Live(u) /\ users[u].name = row.name)
    BY <2>0, <2>1 DEF HInv, RequestOk, Held, ReadIsTrue
  <2>4. CASE Finish(r) /\ UNCHANGED users
    <3>1. OthersWait(r) /\ RequestOk(r)' /\ \A k : ~ PendingBy(r, k)
      BY <2>1, <2>4, FinishMoves DEF RequestOk, Held, ReadIsTrue, PendingBy
    <3> QED BY <2>1, <2>4, <3>1, NothingWritten
  <2>5. CASE users' = [users EXCEPT ![u] = row] /\ Proceed(r, "clean", <<u>>)
    <3>1. pc'[r] = "clean" /\ call'[r] = <<u>> /\ OthersWait(r) /\ Moves(r)
      BY <2>1, <2>5, ProceedMoves
    <3>2. users'[u] = row /\ \A v \in Users : v # u => users'[v] = users[v]
      BY <2>2, <2>5 DEF IInv, TypeOK
    <3>3. RowsStay /\ Pending(u)' /\ RequestOk(r)'
      BY <2>2, <3>1, <3>2 DEF RowsStay, Pending, PendingBy, RequestOk, Held, ReadIsTrue
    <3>4. ASSUME NEW n \in Names, users[u].name = n, users'[u].name # n PROVE Misses(n)
      BY <2>0, <2>1, <2>3, <3>1, <3>2, <3>4 DEF Misses, Leaves
    <3>5. \A k \in Keys : KeyOk(k)'
      BY <2>1, <2>2, <3>1, <3>2, <3>3, <3>4, RowWritten
    <3>6. Naming(u)' = Naming(u) \/ NamedUnasked(u)
      <4>1. CASE r \in overtaken
        BY <2>0, <2>1, <2>2, <2>3, <3>1, <3>2, <4>1 DEF NamedUnasked, Live
      <4>2. CASE Live(u) /\ users[u].name = row.name
        BY <2>2, <2>3, <3>2, <4>2 DEF Naming, Live
      <4> QED BY <2>3, <4>1, <4>2
    <3>7. AskedNamesUnique'
      BY <2>2, <3>2, <3>6, SameRowSameNaming, NamesKept
    <3> QED BY <3>1, <3>3, <3>5, <3>7, Pieces
  <2> QED BY <2>1, <2>4, <2>5
<1> QED BY <1>1, <1>2

-----------------------------------------------------------------------------

LEMMA HInitHolds == HInit => HInv
<1>1. SUFFICES ASSUME HInit PROVE HInv
  OBVIOUS
<1>2. \A r \in Requests : RequestOk(r)
  BY <1>1 DEF HInit, Init, RequestOk, Held, ReadIsTrue
<1>3. \A k \in Keys : KeyOk(k)
  BY <1>1 DEF HInit, Init, KeyOk
<1>4. AskedNamesUnique
  BY <1>1 DEF HInit, AskedNamesUnique, Live
<1> QED BY <1>2, <1>3, <1>4 DEF HInv

LEMMA HStepKeeps == IInv /\ HInv /\ [HNext]_hvars => HInv'
<1>1. SUFFICES ASSUME IInv, HInv, [HNext]_hvars PROVE HInv'
  OBVIOUS
<1>2. CASE UNCHANGED hvars
  BY <1>1, <1>2 DEF hvars, vars, HInv, RequestOk, Held, ReadIsTrue, KeysFit, Free, Goes, KeyOk, Right,
                    Pending, PendingBy, Addressed, AskedNamesUnique, ProfileOf, Live
<1>3. CASE HNext
  <2>1. Next /\ Recorded
    BY <1>3 DEF HNext
  <2>2. ASSUME NEW r \in Requests, Begin(r) PROVE HInv'
    BY <1>1, <2>1, <2>2, ReadersKeep, RegisterKeeps, ProfileRowKeeps, OtherWritersKeep, SetUpKeeps
    DEF Begin
  <2>3. ASSUME NEW r \in Requests, Advance(r) PROVE HInv'
    BY <1>1, <2>1, <2>3, ReadersKeep, CleanKeeps, ProfileAvailableKeeps, ProfileUpdateKeeps,
       OwnRowKeeps, SetUpKeeps DEF Advance
  <2> QED BY <1>1, <2>1, <2>2, <2>3, GivesUpKeeps, TickKeeps DEF Next
<1> QED BY <1>1, <1>2, <1>3

LEMMA HInvariance == HSpec => [](IInv /\ HInv)
<1>1. HInit => IInv /\ HInv
  BY InitEstablishes, HInitHolds DEF HInit
<1>2. IInv /\ HInv /\ [HNext]_hvars => IInv' /\ HInv'
  <2>1. [HNext]_hvars => [Next]_vars
    BY DEF HNext, hvars
  <2> QED BY <2>1, NextPreserves, HStepKeeps
<1> QED BY <1>1, <1>2, PTL DEF HSpec

\* Beside whatever else goes on, GetUserProfile's cache holds an outdated profile
\* by id only while a writer is still to delete it, or because one of four things
\* happened: a delete was refused, a call died before it, the writer deletes no
\* key (LogoutUser, CheckBanStatus), or a reader put back what it had read before.
THEOREM IdKeysAreFresh == HSpec => []IdKeysFresh
<1>1. ASSUME IInv, HInv, NEW u \in Users PROVE Fresh(u) \/ Pending(u) \/ u \in missed
  <2>1. u \in Keys /\ KeyOk(u)
    BY <1>1 DEF Keys, HInv
  <2>2. ASSUME Live(u), cache[u].profile = ProfileOf(u) PROVE Fresh(u)
    BY <2>2 DEF Fresh, Answers
  <2> QED BY <1>1, <2>1, <2>2 DEF KeyOk, Right, Fresh
<1>2. IInv /\ HInv => IdKeysFresh
  BY <1>1 DEF IdKeysFresh
<1> QED BY <1>2, HInvariance, PTL

\* And a username leads to somebody who gave it up only while UpdateProfile is
\* still to delete it, or after such a miss: among them an UpdateProfile that had
\* read an older username, and a username with capitals.
THEOREM NameKeysAreFollowed == HSpec => []NameKeysFollow
<1>1. ASSUME HInv, NEW n \in Names
      PROVE  (cache[n] # None => users[cache[n].profile.user].name = n) \/ Pending(n) \/ n \in missed
  <2>1. n \in Keys /\ n \notin Users /\ KeyOk(n)
    BY <1>1, ConstantsAssumption DEF Keys, HInv
  <2> QED BY <2>1 DEF KeyOk, Right
<1>2. HInv => NameKeysFollow
  BY <1>1 DEF NameKeysFollow
<1> QED BY <1>2, HInvariance, PTL

\* Two accounts share a username only if one of them got it from registration, or
\* from a call for which it, or the row it had read, had changed meanwhile
\* (UpdateProfile, UserAvailable, SetUpTwoFactorAuth's Save).
THEOREM AskedNamesAreUnique == HSpec => []AskedNamesUnique
<1>1. HInv => AskedNamesUnique
  BY DEF HInv
<1> QED BY <1>1, HInvariance, PTL
=============================================================================
