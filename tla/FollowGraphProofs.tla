-------------------------- MODULE FollowGraphProofs --------------------------
(***************************************************************************)
(* What FollowGraph guarantees for any users, requests and lifetime: types, *)
(* that calls that do not overlap leave no wrong list in the cache, and     *)
(* that a cache nobody writes for only heals; and, of FollowGraph and       *)
(* Listing side by side (MCLists), what each of them keeps alone.           *)
(***************************************************************************)
EXTENDS MCLists, SequenceTheorems, TLAPS

Lists == [users : SUBSET Users, ttl : 1..Life]

\* Requests and what they hold; the rest of TypeOK is about tables and cache.
RequestsFit == /\ DOMAIN pc = Requests /\ DOMAIN call = Requests
               /\ \A r \in Requests : CallFits(pc[r], call[r])

TablesFit == /\ live \subseteq Users /\ followings \subseteq Users \X Users
             /\ lists \in [Keys -> Lists \cup {None}] /\ calls \in Nat

IInv == RequestsFit /\ TablesFit

LEMMA FinishKeeps == ASSUME RequestsFit, NEW r \in Requests, Finish(r) PROVE RequestsFit'
BY DEF RequestsFit, Finish, CallFits

LEMMA ProceedKeeps ==
    ASSUME RequestsFit, NEW r \in Requests, NEW next, NEW c, Proceed(r, next, c), CallFits(next, c)
    PROVE  RequestsFit'
<1>1. /\ DOMAIN pc' = Requests /\ DOMAIN call' = Requests
      /\ pc'[r] = next /\ call'[r] = c
      /\ \A s \in Requests : s # r => pc'[s] = pc[s] /\ call'[s] = call[s]
  BY DEF RequestsFit, Proceed
<1>2. ASSUME NEW s \in Requests PROVE CallFits(pc'[s], call'[s])
  <2>1. CASE s = r
    BY <1>1, <2>1
  <2>2. CASE s # r
    <3>1. CallFits(pc[s], call[s])
      BY DEF RequestsFit
    <3> QED BY <1>1, <2>2, <3>1
  <2> QED BY <2>1, <2>2
<1> QED BY <1>1, <1>2 DEF RequestsFit

LEMMA DeletesKeeps ==
    ASSUME RequestsFit, NEW r \in Requests, NEW keys \in Seq(Keys), keys # <<>>, Deletes(r, keys)
    PROVE  RequestsFit'
BY ProceedKeeps DEF Deletes, CallFits

LEMMA BothAreKeys == \A u, v \in Users : Both(u, v) \in Seq(Keys) /\ Both(u, v) # <<>>
BY DEF Both, Keys

LEMMA ReadersKeep ==
    ASSUME IInv, NEW r \in Requests, (\E k \in Keys : Miss(r, k)) \/ Rows(r) \/ People(r) \/ Fill(r)
    PROVE  IInv'
<1> USE DEF IInv
<1>1. ASSUME NEW k \in Keys, Miss(r, k) PROVE IInv'
  <2>1. CallFits("rows", [key |-> k])
    BY DEF CallFits
  <2> QED BY <1>1, <2>1, ProceedKeeps DEF Miss, TablesFit
<1>2. CASE Rows(r)
  <2> DEFINE found == Listed(call[r].key)
             next  == IF found = {} THEN "fill" ELSE "people"
  <2>1. call[r].key \in Keys /\ found \subseteq Users
    BY <1>2 DEF Rows, RequestsFit, CallFits, Listed, Followees
  <2>2. CallFits(next, [key |-> call[r].key, list |-> found])
    BY <2>1 DEF CallFits
  <2>3. Proceed(r, next, [key |-> call[r].key, list |-> found])
    BY <1>2 DEF Rows
  <2> HIDE DEF found, next
  <2>4. RequestsFit'
    BY <2>2, <2>3, ProceedKeeps
  <2> QED BY <1>2, <2>4 DEF Rows, TablesFit
<1>3. CASE People(r)
  <2>1. call[r] \in [key : Keys, list : SUBSET Users]
    BY <1>3 DEF People, RequestsFit, CallFits
  <2>2. CallFits("fill", [call[r] EXCEPT !.list = @ \cap live])
    BY <2>1 DEF CallFits
  <2>3. RequestsFit'
    BY <1>3, <2>2, ProceedKeeps DEF People
  <2> QED BY <1>3, <2>3 DEF People, TablesFit
<1>4. CASE Fill(r)
  <2>1. call[r] \in [key : Keys, list : SUBSET Users]
    BY <1>4 DEF Fill, RequestsFit, CallFits
  <2>2. [users |-> call[r].list, ttl |-> Life] \in Lists
    BY <2>1, FollowAssumption DEF Lists
  <2>3. lists' \in [Keys -> Lists \cup {None}]
    BY <1>4, <2>1, <2>2 DEF Fill, TablesFit
  <2> QED BY <1>4, <2>3, FinishKeeps DEF Fill, TablesFit
<1> QED BY <1>1, <1>2, <1>3, <1>4

LEMMA WritersKeep ==
    ASSUME IInv, NEW r \in Requests,
           \/ \E u, v \in Users : Follow(r, u, v) \/ Unfollow(r, u, v)
           \/ \E u \in Users : SoftDelete(r, u) \/ OtherWrite(r, u)
    PROVE  IInv'
<1> USE DEF IInv
<1>1. PICK u \in Users, v \in Users :
         \/ Follow(r, u, v) \/ Unfollow(r, u, v)
         \/ u = v /\ (SoftDelete(r, u) \/ OtherWrite(r, u))
  OBVIOUS
<1>2. UNCHANGED <<pc, call>> \/ Deletes(r, Both(u, v))
  BY <1>1 DEF Follow, Unfollow, SoftDelete, OtherWrite
<1>3. RequestsFit'
  <2>1. CASE UNCHANGED <<pc, call>>
    BY <2>1 DEF RequestsFit
  <2>2. CASE Deletes(r, Both(u, v))
    BY <2>2, BothAreKeys, DeletesKeeps
  <2> QED BY <1>2, <2>1, <2>2
<1>4. TablesFit'
  BY <1>1 DEF Follow, Unfollow, SoftDelete, OtherWrite, Begins, TablesFit
<1> QED BY <1>3, <1>4

LEMMA CleanKeeps == ASSUME IInv, NEW r \in Requests, Clean(r) PROVE IInv'
<1> USE DEF IInv
<1>0. PICK s, t : s = call[r].keys /\ t = Tail(s)
  OBVIOUS
<1>1. s \in Seq(Keys) /\ s # <<>> /\ Head(s) \in Keys /\ t \in Seq(Keys) /\ Len(t) = Len(s) - 1
  BY <1>0, HeadTailProperties DEF Clean, RequestsFit, CallFits
<1>2. lists' \in [Keys -> Lists \cup {None}]
  BY <1>0, <1>1 DEF Clean, TablesFit
<1>3. CASE Finish(r)
  BY <1>2, <1>3, FinishKeeps DEF Clean, TablesFit
<1>4. CASE Len(s) # 1 /\ Deletes(r, t)
  <2>1. t # <<>>
    BY <1>1, <1>4
  <2> QED BY <1>1, <1>2, <1>4, <2>1, DeletesKeeps DEF Clean, TablesFit
<1> QED BY <1>0, <1>3, <1>4 DEF Clean

LEMMA IInvStep == IInv /\ [Next]_vars => IInv'
<1> SUFFICES ASSUME IInv, [Next]_vars PROVE IInv'
  OBVIOUS
<1>1. ASSUME NEW r \in Requests, GivesUp(r) PROVE IInv'
  BY <1>1, FinishKeeps DEF GivesUp, IInv, TablesFit
<1>2. CASE Tick
  <2>1. ASSUME NEW k \in Keys, lists[k] # None, lists[k].ttl # 1
        PROVE  [lists[k] EXCEPT !.ttl = @ - 1] \in Lists
    BY <2>1, FollowAssumption DEF IInv, TablesFit, Lists
  <2>2. lists' \in [Keys -> Lists \cup {None}]
    BY <1>2, <2>1 DEF Tick
  <2> QED BY <1>2, <2>2 DEF Tick, IInv, TablesFit, RequestsFit
<1>3. CASE UNCHANGED vars
  BY <1>3 DEF vars, IInv, TablesFit, RequestsFit
<1> QED BY <1>1, <1>2, <1>3, ReadersKeep, WritersKeep, CleanKeeps DEF Next, Advance

LEMMA IInvInit == Init => IInv
BY DEF Init, IInv, RequestsFit, TablesFit, CallFits

\* TypeOK: tables, cached lists and what requests hold keep their shape.
THEOREM TypeCorrect == Spec => []TypeOK
<1>1. IInv => TypeOK
  BY DEF IInv, TypeOK, RequestsFit, TablesFit, Lists
<1> QED BY <1>1, IInvInit, IInvStep, PTL DEF Spec

-----------------------------------------------------------------------------
(* A cache that only heals: what ListsSettle rests on besides fairness *)

Unwritten == live' = live /\ followings' = followings

ListRight(k) == lists[k] # None => lists[k].users = Listed(k) \cap live

\* What a reader holds for key k is what the tables would answer now.
Brings(k, next, c) == /\ next = "people" /\ c.key = k => c.list = Listed(k)
                      /\ next = "fill" /\ c.key = k => c.list = Listed(k) \cap live

FillsRight(k) == \A r \in Requests : Brings(k, pc[r], call[r])

\* What was right under k still is; what was wrong is as it was, or one unit of
\* time closer to its end.
Heals(k) == \/ ListRight(k)'
            \/ /\ ~ ListRight(k)
               /\ lists'[k] = lists[k] \/ lists'[k] = [lists[k] EXCEPT !.ttl = @ - 1]

LEMMA SameListed == Unwritten => \A k : Listed(k)' = Listed(k)
BY DEF Unwritten, Listed, Followees

LEMMA SameList == ASSUME Unwritten, NEW k \in Keys, lists'[k] = lists[k] PROVE Heals(k)
BY SameListed DEF Heals, ListRight, Unwritten

LEMMA ProceedFillsRight ==
    ASSUME TypeOK, Unwritten, NEW k \in Keys, FillsRight(k), NEW r \in Requests, NEW next, NEW c,
           Proceed(r, next, c), Brings(k, next, c)
    PROVE  FillsRight(k)'
<1>1. \A s \in Requests : IF s = r THEN pc'[s] = next /\ call'[s] = c
                                    ELSE pc'[s] = pc[s] /\ call'[s] = call[s]
  BY DEF TypeOK, Proceed
<1>2. \A s \in Requests : Brings(k, pc'[s], call'[s])
  BY <1>1 DEF FillsRight
<1>3. \A s \in Requests : Brings(k, pc[s], call[s])'
  BY <1>2, SameListed DEF Brings, Unwritten
<1> QED BY <1>3 DEF FillsRight

LEMMA FinishFillsRight ==
    ASSUME TypeOK, Unwritten, NEW k \in Keys, FillsRight(k), NEW r \in Requests, Finish(r)
    PROVE  FillsRight(k)'
BY ProceedFillsRight DEF Finish, Proceed, Brings

LEMMA DeletesFillsRight ==
    ASSUME TypeOK, Unwritten, NEW k \in Keys, FillsRight(k), NEW r \in Requests,
           NEW keys, Deletes(r, keys)
    PROVE  FillsRight(k)'
BY ProceedFillsRight DEF Deletes, Brings

LEMMA SameFillsRight ==
    ASSUME Unwritten, NEW k \in Keys, FillsRight(k), UNCHANGED <<pc, call>>
    PROVE  FillsRight(k)'
BY SameListed DEF FillsRight, Brings, Unwritten

LEMMA StepHeals ==
    ASSUME TypeOK, Next, Unwritten, NEW k \in Keys, FillsRight(k)
    PROVE  FillsRight(k)' /\ Heals(k)
<1>1. ASSUME NEW r \in Requests, NEW j \in Keys, Miss(r, j) PROVE FillsRight(k)' /\ Heals(k)
  <2>1. Brings(k, "rows", [key |-> j])
    BY DEF Brings
  <2> QED BY <1>1, <2>1, ProceedFillsRight, SameList DEF Miss
<1>2. ASSUME NEW r \in Requests, Rows(r) PROVE FillsRight(k)' /\ Heals(k)
  <2>1. PICK found : found = Listed(call[r].key)
    OBVIOUS
  <2>2. ASSUME NEW next \in {"fill", "people"}, found = {} \/ next = "people"
        PROVE  Brings(k, next, [key |-> call[r].key, list |-> found])
    BY <2>1, <2>2 DEF Brings
  <2>3. Proceed(r, IF found = {} THEN "fill" ELSE "people", [key |-> call[r].key, list |-> found])
    BY <1>2, <2>1 DEF Rows
  <2>4. FillsRight(k)'
    BY <2>2, <2>3, ProceedFillsRight
  <2> QED BY <1>2, <2>4, SameList DEF Rows
<1>3. ASSUME NEW r \in Requests, People(r) PROVE FillsRight(k)' /\ Heals(k)
  <2>1. PICK c : c = [call[r] EXCEPT !.list = @ \cap live]
    OBVIOUS
  <2>2. call[r] \in [key : Keys, list : SUBSET Users]
    BY <1>3 DEF People, TypeOK, CallFits
  <2>3. Brings(k, "fill", c)
    BY <1>3, <2>1, <2>2 DEF People, FillsRight, Brings
  <2>4. FillsRight(k)'
    BY <1>3, <2>1, <2>3, ProceedFillsRight DEF People
  <2> QED BY <1>3, <2>4, SameList DEF People
<1>4. ASSUME NEW r \in Requests, Fill(r) PROVE FillsRight(k)' /\ Heals(k)
  <2>1. FillsRight(k)'
    BY <1>4, FinishFillsRight DEF Fill
  <2>2. CASE lists' = [lists EXCEPT ![call[r].key] = [users |-> call[r].list, ttl |-> Life]]
    <3>1. CASE call[r].key = k
      <4>1. lists'[k].users = call[r].list
        BY <2>2, <3>1 DEF TypeOK
      <4>2. lists'[k].users = Listed(k)' \cap live'
        BY <1>4, <3>1, <4>1, SameListed DEF Fill, FillsRight, Brings, Unwritten
      <4> QED BY <2>1, <4>2 DEF Heals, ListRight
    <3>2. CASE call[r].key # k
      BY <2>1, <2>2, <3>2, SameList DEF TypeOK
    <3> QED BY <3>1, <3>2
  <2> QED BY <1>4, <2>1, <2>2, SameList DEF Fill
<1>5. ASSUME NEW r \in Requests, Clean(r) PROVE FillsRight(k)' /\ Heals(k)
  <2>1. FillsRight(k)'
    BY <1>5, FinishFillsRight, DeletesFillsRight DEF Clean
  <2>2. lists'[k] = None \/ lists'[k] = lists[k]
    BY <1>5 DEF Clean, TypeOK
  <2> QED BY <2>1, <2>2, SameList DEF Heals, ListRight
<1>6. ASSUME NEW r \in Requests, NEW u \in Users, NEW v \in Users,
             \/ Follow(r, u, v) \/ Unfollow(r, u, v) \/ SoftDelete(r, u) \/ OtherWrite(r, u)
      PROVE  FillsRight(k)' /\ Heals(k)
  <2>1. lists' = lists /\ (UNCHANGED <<pc, call>> \/ \E keys : Deletes(r, keys))
    BY <1>6 DEF Follow, Unfollow, SoftDelete, OtherWrite
  <2> QED BY <2>1, DeletesFillsRight, SameFillsRight, SameList
<1>7. ASSUME NEW r \in Requests, GivesUp(r) PROVE FillsRight(k)' /\ Heals(k)
  BY <1>7, FinishFillsRight, SameList DEF GivesUp
<1>8. CASE Tick
  <2>1. FillsRight(k)'
    BY <1>8, SameFillsRight DEF Tick
  <2>2. \/ lists'[k] = None
        \/ lists'[k] = [lists[k] EXCEPT !.ttl = @ - 1] /\ lists[k] \in Lists /\ lists[k] # None
    BY <1>8 DEF Tick, TypeOK, Lists
  <2>3. lists'[k] = None => Heals(k)
    BY DEF Heals, ListRight
  <2>4. ASSUME lists'[k] = [lists[k] EXCEPT !.ttl = @ - 1], lists[k] \in Lists, lists[k] # None
        PROVE  Heals(k)
    <3>1. lists'[k].users = lists[k].users
      BY <2>4 DEF Lists
    <3> QED BY <2>4, <3>1, SameListed DEF Heals, ListRight, Unwritten
  <2> QED BY <2>1, <2>2, <2>3, <2>4
<1> QED BY <1>1, <1>2, <1>3, <1>4, <1>5, <1>6, <1>7, <1>8 DEF Next, Advance

\* While nobody follows, unfollows or is deleted, a key that no stale list is on
\* its way to gets none: a right list is never replaced by a wrong one, and a
\* wrong one is never given new life (GetFollowing and GetFollowers beside the
\* deletes of FollowUser and UnfollowUser, in whatever order, some of them lost).
THEOREM ListsOnlyHeal ==
    Spec => [][Unwritten => \A k \in Keys : FillsRight(k) => FillsRight(k)' /\ Heals(k)]_vars
<1>1. TypeOK /\ [Next]_vars =>
        [Unwritten => \A k \in Keys : FillsRight(k) => FillsRight(k)' /\ Heals(k)]_vars
  BY StepHeals
<1> QED BY <1>1, TypeCorrect, PTL DEF Spec

-----------------------------------------------------------------------------
(* Calls that do not overlap *)

OneBusy == \A r, s \in Requests : pc[r] # "idle" /\ pc[s] # "idle" => r = s

\* What a reader brings to the cache is still true.
ReadStillTrue(r) == pc[r] \in {"people", "fill"} /\ call[r].key[1] = "following" =>
    LET followees == Followees(call[r].key[2])
    IN call[r].list = IF pc[r] = "fill" THEN followees \cap live ELSE followees

Key(u)  == <<"following", u>>
Kept(u) == lists[Key(u)] # None => lists[Key(u)].users \cap live = Followees(u) \cap live

\* The request is going to delete the list of whom u follows.
PendingAt(r, u) == pc[r] = "clean" /\ \E i \in DOMAIN call[r].keys : call[r].keys[i] = Key(u)
Pending(u)      == \E r \in Requests : PendingAt(r, u)

AInv == alone => /\ OneBusy
                 /\ \A r \in Requests : ReadStillTrue(r)
                 /\ \A u \in Users : Kept(u) \/ Pending(u)

Undisturbed == alone /\ ~ Overlapped /\ ~ LeftBehind

\* The step was r's.
Moved(r) == /\ <<pc[r], call[r]>>' # <<pc[r], call[r]>>
            /\ \A s \in Requests : s # r => pc'[s] = pc[s] /\ call'[s] = call[s]

LEMMA FinishMoves == ASSUME IInv, NEW r \in Requests, pc[r] # "idle", Finish(r)
                     PROVE  Moved(r) /\ pc'[r] = "idle"
BY DEF IInv, RequestsFit, Finish, Moved

LEMMA ProceedMoves ==
    ASSUME IInv, NEW r \in Requests, NEW next, NEW c, Proceed(r, next, c), next # pc[r] \/ c # call[r]
    PROVE  Moved(r) /\ pc'[r] = next /\ call'[r] = c
<1>1. pc'[r] = next /\ call'[r] = c
  BY DEF IInv, RequestsFit, Proceed
<1>2. \A s \in Requests : s # r => pc'[s] = pc[s] /\ call'[s] = call[s]
  BY DEF IInv, RequestsFit, Proceed
<1> QED BY <1>1, <1>2 DEF Moved

LEMMA OthersIdle ==
    ASSUME IInv, Undisturbed, NEW r \in Requests, \A s \in Requests : s # r => pc'[s] = pc[s] /\ call'[s] = call[s]
    PROVE  \A s \in Requests : s # r => pc[s] = "idle" /\ pc'[s] = "idle"
BY DEF Undisturbed, Overlapped

\* Nothing is pending but what r is to do.
LEMMA KeptOrOwn ==
    ASSUME IInv, AInv, Undisturbed, NEW r \in Requests, Moved(r)
    PROVE  \A u \in Users : Kept(u) \/ PendingAt(r, u)
BY OthersIdle DEF Moved, AInv, Undisturbed, Pending, PendingAt

LEMMA AInvKept ==
    ASSUME IInv, AInv, Undisturbed, NEW r \in Requests, Moved(r), ReadStillTrue(r)',
           \A u \in Users : Kept(u)' \/ PendingAt(r, u)'
    PROVE  AInv'
<1>1. \A s \in Requests : s # r => pc'[s] = "idle"
  BY OthersIdle DEF Moved
<1>2. OneBusy' /\ \A s \in Requests : ReadStillTrue(s)'
  BY <1>1 DEF OneBusy, ReadStillTrue
<1> QED BY <1>2 DEF AInv, Pending

\* A step of a request that was to delete nothing, and writes nothing.
LEMMA NothingWritten ==
    ASSUME IInv, AInv, Undisturbed, NEW r \in Requests, Moved(r), pc[r] # "clean",
           UNCHANGED <<live, followings, lists>>, ReadStillTrue(r)'
    PROVE  AInv'
<1>1. \A u \in Users : Kept(u)'
  BY KeptOrOwn DEF PendingAt, Kept, Followees
<1> QED BY <1>1, AInvKept

LEMMA ReadersAlone ==
    ASSUME IInv, AInv, Undisturbed, NEW r \in Requests,
           (\E k \in Keys : Miss(r, k)) \/ Rows(r) \/ People(r) \/ Fill(r)
    PROVE  AInv'
<1>1. ASSUME NEW k \in Keys, Miss(r, k) PROVE AInv'
  <2>1. Moved(r) /\ pc'[r] = "rows"
    BY <1>1, ProceedMoves DEF Miss
  <2> QED BY <1>1, <2>1, NothingWritten DEF Miss, ReadStillTrue
<1>2. CASE Rows(r)
  <2>0. PICK k, found : k = call[r].key /\ found = Listed(k)
    OBVIOUS
  <2> DEFINE next == IF found = {} THEN "fill" ELSE "people"
  <2>1. /\ pc[r] = "rows" /\ UNCHANGED <<live, followings, lists>>
        /\ Proceed(r, next, [key |-> k, list |-> found])
    BY <1>2, <2>0 DEF Rows
  <2>2. Moved(r) /\ pc'[r] = next /\ call'[r] = [key |-> k, list |-> found]
    BY <2>1, ProceedMoves
  <2>3. k[1] = "following" => found = Followees(k[2]) /\ found = Followees(k[2])'
    BY <2>0, <2>1 DEF Listed, Followees
  <2>4. ReadStillTrue(r)'
    BY <2>2, <2>3 DEF ReadStillTrue
  <2> QED BY <2>1, <2>2, <2>4, NothingWritten
<1>3. CASE People(r)
  <2>0. PICK k, l : k = call[r].key /\ l = call[r].list
    OBVIOUS
  <2>1. /\ pc[r] = "people" /\ UNCHANGED <<live, followings, lists>>
        /\ call[r] \in [key : Keys, list : SUBSET Users]
        /\ Proceed(r, "fill", [call[r] EXCEPT !.list = @ \cap live])
    BY <1>3 DEF People, IInv, RequestsFit, CallFits
  <2>2. /\ [call[r] EXCEPT !.list = @ \cap live].key = k
        /\ [call[r] EXCEPT !.list = @ \cap live].list = l \cap live
    BY <2>0, <2>1
  <2>3. Moved(r) /\ pc'[r] = "fill" /\ call'[r].key = k /\ call'[r].list = l \cap live
    BY <2>1, <2>2, ProceedMoves
  <2>4. k[1] = "following" => l = Followees(k[2]) /\ l = Followees(k[2])'
    BY <2>0, <2>1 DEF AInv, Undisturbed, ReadStillTrue, Followees
  <2>5. ReadStillTrue(r)'
    BY <2>1, <2>3, <2>4 DEF ReadStillTrue
  <2> QED BY <2>1, <2>3, <2>5, NothingWritten
<1>4. CASE Fill(r)
  <2>0. PICK k, l : k = call[r].key /\ l = call[r].list
    OBVIOUS
  <2>1. pc[r] = "fill" /\ UNCHANGED <<live, followings>> /\ Moved(r) /\ pc'[r] = "idle"
    BY <1>4, FinishMoves DEF Fill
  <2>2. ReadStillTrue(r)'
    BY <2>1 DEF ReadStillTrue
  <2>3. CASE UNCHANGED lists
    BY <2>1, <2>2, <2>3, NothingWritten
  <2>4. CASE lists' = [lists EXCEPT ![k] = [users |-> l, ttl |-> Life]]
    <3>1. ASSUME NEW u \in Users PROVE Kept(u)'
      <4>1. Key(u) \in Keys
        BY DEF Key, Keys
      <4>2. CASE k = Key(u)
        <5>1. k[1] = "following" /\ k[2] = u
          BY <4>2 DEF Key
        <5>2. l = Followees(u) \cap live
          BY <2>0, <2>1, <5>1 DEF AInv, Undisturbed, ReadStillTrue
        <5>3. lists'[Key(u)].users = l
          BY <2>4, <4>1, <4>2 DEF IInv, TablesFit
        <5> QED BY <2>1, <5>2, <5>3 DEF Kept, Followees
      <4>3. CASE k # Key(u)
        <5>1. lists'[Key(u)] = lists[Key(u)]
          BY <2>4, <4>1, <4>3 DEF IInv, TablesFit
        <5>2. Kept(u)
          BY <2>1, KeptOrOwn DEF PendingAt
        <5> QED BY <2>1, <5>1, <5>2 DEF Kept, Followees
      <4> QED BY <4>2, <4>3
    <3> QED BY <2>1, <2>2, <3>1, AInvKept
  <2> QED BY <1>4, <2>0, <2>3, <2>4 DEF Fill
<1> QED BY <1>1, <1>2, <1>3, <1>4

LEMMA WritersAlone ==
    ASSUME IInv, AInv, Undisturbed, NEW r \in Requests,
           \/ \E u, v \in Users : Follow(r, u, v) \/ Unfollow(r, u, v)
           \/ \E u \in Users : SoftDelete(r, u) \/ OtherWrite(r, u)
    PROVE  AInv'
<1>1. PICK u \in Users, v \in Users :
         \/ Follow(r, u, v) \/ Unfollow(r, u, v)
         \/ u = v /\ (SoftDelete(r, u) \/ OtherWrite(r, u))
  OBVIOUS
<1>2. /\ pc[r] = "idle" /\ UNCHANGED lists /\ live' \subseteq live
      /\ \A w \in Users : w # u => Followees(w)' = Followees(w)
  BY <1>1 DEF Follow, Unfollow, SoftDelete, OtherWrite, Begins, Followees
<1>3. CASE Deletes(r, Both(u, v))
  <2>1. Moved(r) /\ pc'[r] = "clean" /\ call'[r].keys = Both(u, v)
    BY <1>2, <1>3, ProceedMoves DEF Deletes
  <2>2. PendingAt(r, u)'
    BY <2>1 DEF PendingAt, Both, Key
  <2>3. \A w \in Users : w # u => Kept(w)'
    BY <1>2, <2>1, KeptOrOwn DEF PendingAt, Kept
  <2>4. ReadStillTrue(r)'
    BY <2>1 DEF ReadStillTrue
  <2> QED BY <2>1, <2>2, <2>3, <2>4, AInvKept
<1>4. CASE UNCHANGED <<live, followings, pc, call>>
  <2>1. \A s \in Requests : pc[s] = "idle"
    BY <1>4 DEF Undisturbed, Overlapped
  <2> QED BY <1>2, <1>4, <2>1
          DEF AInv, Undisturbed, OneBusy, ReadStillTrue, Kept, Pending, PendingAt, Followees
<1> QED BY <1>1, <1>3, <1>4 DEF Follow, Unfollow, SoftDelete, OtherWrite

\* A list a writer has gone past is out of the cache.
LEMMA CleanAlone ==
    ASSUME IInv, AInv, Undisturbed, NEW r \in Requests, Clean(r)
    PROVE  AInv'
<1>0. PICK s, t : s = call[r].keys /\ t = Tail(s)
  OBVIOUS
<1>1. /\ pc[r] = "clean" /\ s \in Seq(Keys) /\ s # <<>> /\ UNCHANGED <<live, followings>>
      /\ t \in Seq(Keys) /\ Len(t) = Len(s) - 1 /\ Len(s) \in Nat \ {0} /\ Head(s) = s[1]
      /\ \A i \in 1..Len(t) : t[i] = s[i + 1]
  BY <1>0, HeadTailProperties DEF Clean, IInv, RequestsFit, CallFits
<1>2. \/ Len(s) = 1 /\ Moved(r) /\ pc'[r] = "idle"
      \/ Moved(r) /\ pc'[r] = "clean" /\ call'[r].keys = t
  <2>1. CASE Finish(r) /\ Len(s) = 1
    BY <1>1, <2>1, FinishMoves
  <2>2. CASE Proceed(r, "clean", [keys |-> t])
    <3>1. t # s
      BY <1>1
    <3>2. [keys |-> t].keys # call[r].keys
      BY <1>0, <3>1
    <3> QED BY <2>2, <3>2, ProceedMoves
  <2> QED BY <1>0, <2>1, <2>2 DEF Clean, Deletes
<1>3. lists'[s[1]] = None
  BY <1>0, <1>1, <1>2 DEF Undisturbed, LeftBehind, Moved
<1>4. \A k \in Keys : lists'[k] = lists[k] \/ lists'[k] = None
  BY <1>0, <1>1 DEF Clean, IInv, TablesFit
<1>5. ASSUME NEW u \in Users, PendingAt(r, u), lists'[Key(u)] # None PROVE PendingAt(r, u)'
  <2>1. PICK i \in 1..Len(s) : s[i] = Key(u)
    BY <1>0, <1>1, <1>5 DEF PendingAt
  <2>2. i # 1
    BY <1>3, <1>5, <2>1
  <2>3. i - 1 \in 1..Len(t) /\ t[i - 1] = Key(u) /\ Len(s) # 1
    BY <1>1, <2>1, <2>2
  <2>4. pc'[r] = "clean" /\ call'[r].keys = t /\ i - 1 \in DOMAIN t
    BY <1>1, <1>2, <2>3
  <2> QED BY <2>3, <2>4 DEF PendingAt
<1>6. \A u \in Users : Kept(u)' \/ PendingAt(r, u)'
  <2>1. \A u \in Users : Key(u) \in Keys
    BY DEF Key, Keys
  <2> QED BY <1>1, <1>2, <1>4, <1>5, <2>1, KeptOrOwn DEF Kept, Followees
<1>7. ReadStillTrue(r)'
  BY <1>2 DEF ReadStillTrue
<1> QED BY <1>2, <1>6, <1>7, AInvKept

\* Who gives up was reading, or leaves no list behind.
LEMMA GivesUpAlone ==
    ASSUME IInv, AInv, Undisturbed, NEW r \in Requests, GivesUp(r)
    PROVE  AInv'
<1>1. Moved(r) /\ pc'[r] = "idle" /\ UNCHANGED <<live, followings, lists>>
  BY FinishMoves DEF GivesUp
<1>2. \A u \in Users : PendingAt(r, u) => lists[Key(u)] = None
  BY <1>1 DEF Undisturbed, LeftBehind, PendingAt, Moved
<1>3. \A u \in Users : Kept(u)'
  BY <1>1, <1>2, KeptOrOwn DEF Kept, Followees
<1>4. ReadStillTrue(r)'
  BY <1>1 DEF ReadStillTrue
<1> QED BY <1>1, <1>3, <1>4, AInvKept

LEMMA TickAlone ==
    ASSUME IInv, AInv, alone, Tick
    PROVE  AInv'
<1>1. UNCHANGED <<live, followings, pc, call>>
  BY DEF Tick
<1>2. \A k \in Keys : lists'[k] = None \/ (lists[k] # None /\ lists'[k].users = lists[k].users)
  BY DEF Tick, IInv, TablesFit, Lists
<1>3. ASSUME NEW u \in Users PROVE Kept(u)' \/ Pending(u)'
  <2>1. Key(u) \in Keys /\ (Kept(u) \/ Pending(u))
    BY DEF AInv, Key, Keys
  <2>2. Pending(u) => Pending(u)'
    BY <1>1 DEF Pending, PendingAt
  <2> QED BY <1>1, <1>2, <2>1, <2>2 DEF Kept, Followees
<1> QED BY <1>1, <1>3 DEF AInv, OneBusy, ReadStillTrue, Followees

LEMMA AInvStep == IInv /\ AInv /\ [HNext]_hvars => AInv'
<1> SUFFICES ASSUME IInv, AInv, [HNext]_hvars, alone' PROVE AInv'
  BY DEF AInv
<1>1. CASE UNCHANGED hvars
  BY <1>1 DEF hvars, vars, AInv, OneBusy, ReadStillTrue, Kept, Pending, PendingAt, Followees
<1>2. CASE HNext /\ Tick
  BY <1>2, TickAlone DEF HNext
<1>3. CASE HNext /\ ~ Tick
  <2>1. Next /\ Undisturbed
    BY <1>3 DEF HNext, Undisturbed
  <2> QED BY <1>3, <2>1, ReadersAlone, WritersAlone, CleanAlone, GivesUpAlone DEF Next, Advance
<1> QED BY <1>1, <1>2, <1>3

LEMMA AInvariance == HSpec => [](IInv /\ AInv)
<1>1. HInit => IInv /\ AInv
  <2> SUFFICES ASSUME HInit PROVE AInv
    BY IInvInit DEF HInit
  <2>1. (\A r \in Requests : pc[r] = "idle") /\ \A u \in Users : lists[Key(u)] = None
    BY DEF HInit, Init, Key, Keys
  <2> QED BY <2>1 DEF AInv, OneBusy, ReadStillTrue, Kept
<1>2. IInv /\ AInv /\ [HNext]_hvars => (IInv /\ AInv)'
  <2>1. [HNext]_hvars => [Next]_vars
    BY DEF HNext, hvars
  <2> QED BY <2>1, IInvStep, AInvStep
<1> QED BY <1>1, <1>2, PTL DEF HSpec

\* ListsKeptAlone: between calls that do not overlap and are carried through, a
\* cached list of the users somebody follows names those of them who are there.
THEOREM ListsAreKeptAlone == HSpec => []ListsKeptAlone
<1>1. AInv => ListsKeptAlone
  BY DEF AInv, ListsKeptAlone, ListsKept, Pending, PendingAt, Kept, Key
<1> QED BY <1>1, AInvariance, PTL

-----------------------------------------------------------------------------
(* The lists beside the pages *)

PageFacts == INSTANCE ListingProofs

LEMMA SamePageRules == Pages!HInit /\ [][Pages!HNext]_(Pages!hvars) => PageFacts!HSpec
<1>0. \A S : Pages!Cardinality(S) = PageFacts!Cardinality(S)
  BY DEF Pages!Cardinality, PageFacts!Cardinality
<1>1. Pages!HInit => PageFacts!HInit
  BY DEF Pages!HInit, Pages!Init, Pages!Ids, Pages!Keys, Pages!Tokens,
      PageFacts!HInit, PageFacts!Init, PageFacts!Ids, PageFacts!Keys, PageFacts!Tokens
<1>2. /\ Pages!Ids = PageFacts!Ids /\ Pages!Tokens = PageFacts!Tokens /\ Pages!Kinds = PageFacts!Kinds
      /\ Pages!Keys = PageFacts!Keys
  BY DEF Pages!Ids, Pages!Tokens, Pages!Kinds, Pages!Keys,
      PageFacts!Ids, PageFacts!Tokens, PageFacts!Kinds, PageFacts!Keys
<1>3. \A n, S : Pages!Lowest(n, S) = PageFacts!Lowest(n, S) /\ Pages!Highest(n, S) = PageFacts!Highest(n, S)
  BY <1>0 DEF Pages!Lowest, Pages!Highest,
      PageFacts!Lowest, PageFacts!Highest
<1>4. \A t : Pages!Rows(t) = PageFacts!Rows(t)
  BY DEF Pages!Rows,
      PageFacts!Rows
<1>5. \A S : Pages!Max(S) = PageFacts!Max(S) /\ Pages!Min(S) = PageFacts!Min(S)
  BY DEF Pages!Max, Pages!Min,
      PageFacts!Max, PageFacts!Min
<1>6. \A t, limit : /\ Pages!SearchPage(t, limit) = PageFacts!SearchPage(t, limit)
                    /\ Pages!PageOnwards(t, limit) = PageFacts!PageOnwards(t, limit)
                    /\ Pages!PageBackwards(t, limit) = PageFacts!PageBackwards(t, limit)
                    /\ Pages!Panics(t, limit) <=> PageFacts!Panics(t, limit)
  BY <1>0, <1>3, <1>4, <1>5
  DEF Pages!SearchPage, Pages!PageOnwards, Pages!PageBackwards, Pages!Panics, Pages!Bound,
      PageFacts!SearchPage, PageFacts!PageOnwards, PageFacts!PageBackwards, PageFacts!Panics, PageFacts!Bound
<1>7. \A S : Pages!InOrder(S) = PageFacts!InOrder(S)
  BY <1>0 DEF Pages!InOrder,
      PageFacts!InOrder
<1>8. \A r, p : Pages!Show(r, p) => PageFacts!Show(r, p)
  BY <1>7 DEF Pages!Show,
      PageFacts!Show
<1>9. \A r, step : /\ Pages!At(r, step) <=> PageFacts!At(r, step)
                   /\ Pages!KeyOf(r) = PageFacts!KeyOf(r)
  BY DEF Pages!At, Pages!KeyOf,
      PageFacts!At, PageFacts!KeyOf
<1>10. \A R : Pages!CutOff(R) => PageFacts!CutOff(R)
  BY <1>9 DEF Pages!CutOff,
      PageFacts!CutOff
<1>11. ASSUME NEW r \in Requests
       PROVE  /\ Pages!List(r) => PageFacts!List(r)
              /\ Pages!Hit(r) => PageFacts!Hit(r)
              /\ Pages!Miss(r) => PageFacts!Miss(r)
              /\ Pages!Load(r) => PageFacts!Load(r)
              /\ Pages!Fill(r) => PageFacts!Fill(r)
              /\ Pages!Fails(r) => PageFacts!Fails(r)
              /\ Pages!Stop(r) => PageFacts!Stop(r)
              /\ \A kind, t, limit : Pages!Start(r, kind, t, limit) => PageFacts!Start(r, kind, t, limit)
  <2>1. Pages!List(r) => PageFacts!List(r)
    <3>1. /\ Pages!PageOnwards(walk[r].token, walk[r].limit)
                = PageFacts!PageOnwards(walk[r].token, walk[r].limit)
          /\ Pages!PageBackwards(walk[r].token, walk[r].limit)
                = PageFacts!PageBackwards(walk[r].token, walk[r].limit)
      BY <1>6
    <3> QED BY <1>8, <1>9, <3>1 DEF Pages!List, PageFacts!List
  <2>2. Pages!Hit(r) => PageFacts!Hit(r)
    BY <1>8, <1>9 DEF Pages!Hit,
      PageFacts!Hit
  <2>3. Pages!Miss(r) => PageFacts!Miss(r)
    BY <1>9 DEF Pages!Miss,
      PageFacts!Miss
  <2>4. Pages!Load(r) => PageFacts!Load(r)
    <3>1. Pages!SearchPage(walk[r].token, walk[r].limit) = PageFacts!SearchPage(walk[r].token, walk[r].limit)
      BY <1>6
    <3>2. Pages!Panics(walk[r].token, walk[r].limit) <=> PageFacts!Panics(walk[r].token, walk[r].limit)
      BY <1>6
    <3> QED BY <1>9, <3>1, <3>2 DEF Pages!Load, PageFacts!Load
  <2>5. Pages!Fill(r) => PageFacts!Fill(r)
    BY <1>8, <1>9 DEF Pages!Fill,
      PageFacts!Fill
  <2>6. Pages!Fails(r) => PageFacts!Fails(r)
    BY <1>9, <1>10 DEF Pages!Fails,
      PageFacts!Fails
  <2>7. Pages!Stop(r) => PageFacts!Stop(r)
    BY DEF Pages!Stop,
      PageFacts!Stop
  <2>8. \A kind, t, limit : Pages!Start(r, kind, t, limit) => PageFacts!Start(r, kind, t, limit)
    BY DEF Pages!Start,
      PageFacts!Start
  <2> QED BY <2>1, <2>2, <2>3, <2>4, <2>5, <2>6, <2>7, <2>8
<1>12. Pages!Dies => PageFacts!Dies
  <2>1. \A r : Pages!Panics(walk[r].token, walk[r].limit) <=> PageFacts!Panics(walk[r].token, walk[r].limit)
    BY <1>6
  <2> QED BY <1>9, <1>10, <2>1 DEF Pages!Dies, PageFacts!Dies
<1>13. (Pages!Tick => PageFacts!Tick) /\ \A u : Pages!Change(u) => PageFacts!Change(u)
  BY <1>2 DEF Pages!Tick, Pages!Change,
      PageFacts!Tick, PageFacts!Change
<1>14. Pages!Next => PageFacts!Next
  BY <1>2, <1>11, <1>12, <1>13 DEF Pages!Next, Pages!Advance,
      PageFacts!Next, PageFacts!Advance
<1>15. Pages!HNext => PageFacts!HNext
  BY <1>14 DEF Pages!HNext, Pages!AsksTable,
      PageFacts!HNext, PageFacts!AsksTable
<1> QED BY <1>1, <1>15, PTL DEF PageFacts!HSpec, Pages!hvars, PageFacts!hvars, Pages!vars, PageFacts!vars

LEMMA FollowPart == MCSpec => HSpec
<1>1. MCInit => HInit
  BY DEF MCInit
<1>2. [MCNext]_mcvars => [HNext]_hvars
  BY DEF MCNext, FollowNext, PagesNext, mcvars, hvars
<1> QED BY <1>1, <1>2, PTL DEF MCSpec, HSpec

LEMMA PagesPart == MCSpec => PageFacts!HSpec
<1>1. MCInit => Pages!HInit
  BY DEF MCInit
<1>2. [MCNext]_mcvars => [Pages!HNext]_(Pages!hvars)
  BY DEF MCNext, FollowNext, PagesNext, mcvars, pageVars, Pages!hvars, Pages!vars
<1> QED BY <1>1, <1>2, SamePageRules, PTL DEF MCSpec

\* Side by side in one Redis, FollowGraph and Listing keep what each of them
\* keeps alone: their types, the lists of calls that do not overlap (FollowUser
\* and UnfollowUser delete the right ones) and the walks of clients who page
\* through GetAllUsers and SearchUsers.
THEOREM ListsStandTogether == MCSpec => [](TypesOK /\ ListsKeptAlone /\ WalksShowEverybody)
<1>1. MCSpec => [](TypeOK /\ ListsKeptAlone)
  <2>1. HInit => Init
    BY DEF HInit
  <2>2. [HNext]_hvars => [Next]_vars
    BY DEF HNext, hvars
  <2>3. HSpec => Spec
    BY <2>1, <2>2, PTL DEF HSpec, Spec
  <2> QED BY <2>3, FollowPart, TypeCorrect, ListsAreKeptAlone, PTL
<1>2. PageFacts!ConstantsFit
  BY ListingAssumption
  DEF Pages!ConstantsFit, Pages!Page, Pages!Entries, Pages!Walks, Pages!Ids, Pages!Tokens, Pages!Kinds,
      PageFacts!ConstantsFit, PageFacts!Page, PageFacts!Entries, PageFacts!Walks, PageFacts!Ids,
      PageFacts!Tokens, PageFacts!Kinds
<1>3. PageFacts!HSpec => []PageFacts!TypeOK /\ []PageFacts!WalksShowEverybody
  BY <1>2, PageFacts!TypeCorrect, PageFacts!WalksAreComplete, PTL
<1>4. PageFacts!TypeOK => Pages!TypeOK
  BY DEF Pages!TypeOK, Pages!Page, Pages!Entries, Pages!Walks, Pages!Ids, Pages!Tokens, Pages!Kinds,
      Pages!Keys, PageFacts!TypeOK, PageFacts!Page, PageFacts!Entries, PageFacts!Walks,
      PageFacts!Ids, PageFacts!Tokens, PageFacts!Kinds, PageFacts!Keys
<1>5. PageFacts!WalksShowEverybody => WalksShowEverybody
  BY DEF WalksShowEverybody, Pages!WalksShowEverybody, PageFacts!WalksShowEverybody,
         Pages!ToSet, PageFacts!ToSet
<1> QED BY <1>1, <1>3, <1>4, <1>5, PagesPart, PTL DEF TypesOK

\* In particular a client who pages through GetAllUsers or SearchUsers sees
\* everybody who was there all along, whatever the calls about lists do meanwhile.
THEOREM WalksAreCompleteBesideLists == MCSpec => []WalksShowEverybody
BY ListsStandTogether, PTL
=============================================================================
