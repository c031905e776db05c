------------------------------ MODULE Listing -------------------------------
(***************************************************************************)
(* Users page by page.  A walk is a client's: it asks for a page, takes    *)
(* the token of the answer and asks for the next, until an answer brings   *)
(* no token.  SearchUsers keeps every page it made for two minutes and     *)
(* nobody ever deletes one, so a walk may see pages of different ages;     *)
(* GetAllUsers asks the table each time, onwards or backwards.             *)
(*                                                                         *)
(* Ids are ordered, a token is the id before (or after) which a page       *)
(* begins, 0 is no token: a garbled one counts as the lowest id.  matching *)
(* stands for the rows that pass the query or the filters, which are the   *)
(* same all along; left out are the count of all rows, an answer's         *)
(* TotalCount, and limits below 0, of which SearchUsers always panics.     *)
(*                                                                         *)
(* Bounds: MaxChanges times a user comes to match or ceases to, Number is  *)
(* the supply of ids.                                                      *)
(***************************************************************************)
EXTENDS Integers, SequencesExt

CONSTANTS Number, Requests, None,
          Limits,      \* the limits asked for
          Failures,    \* may Redis refuse a command, and a call fail?
          Life,        \* two minutes, in clock units
          MaxChanges

VARIABLES matching,   \* the rows of users that match
          pages,      \* Redis: the page under a token and a limit
          changes,    \* changes of matching so far
          walk        \* each request's walk

vars == <<matching, pages, changes, walk>>

Ids    == 1..Number
Tokens == 0..Number
Page   == [users : SUBSET Ids, token : Tokens]
Keys   == Tokens \X Limits
Entries == [page : Page, ttl : 1..Life]
Kinds  == {"search", "onwards", "backwards"}

Walks == [kind : Kinds, limit : Limits, from : Tokens, token : Tokens,
          at : {"ask", "load", "fill", "done"},
          shown : Seq(Ids),     \* on the screen, the earlier pages above
          page : Page \cup {None}]

ConstantsFit ==
    /\ Number \in Nat /\ Life \in Nat \ {0} /\ MaxChanges \in Nat
    /\ Limits \subseteq Nat /\ Failures \in BOOLEAN
    /\ None \notin Requests \cup Page \cup Entries \cup Walks

Init == /\ matching \in SUBSET Ids
        /\ pages = [k \in Keys |-> None]
        /\ changes = 0
        /\ walk = [r \in Requests |-> None]

Lowest(n, S)  == {u \in S : Cardinality({v \in S : v < u}) < n}
Highest(n, S) == {u \in S : Cardinality({v \in S : v > u}) < n}

At(r, step) == walk[r] # None /\ walk[r].at = step
KeyOf(r)    == <<walk[r].token, walk[r].limit>>

-----------------------------------------------------------------------------
(* The pages the table gives now *)

Rows(t) == {u \in matching : u > t}

\* Mutant: the token is the first row that is not shown.
SearchPageSkipping(t, limit) ==
    LET rows == Lowest(limit + 1, Rows(t))
    IN IF Cardinality(rows) > limit
       THEN [users |-> Lowest(limit, rows), token |-> Max(rows)]
       ELSE [users |-> rows, token |-> 0]

\* One row more than asked for tells whether there are others.
SearchPage(t, limit) ==
    LET rows == Lowest(limit + 1, Rows(t))
        here == Lowest(limit, rows)
    IN [users |-> here, token |-> IF Cardinality(rows) > limit THEN Max(here) ELSE 0]

\* Of no rows at most, none is the last: profiles[:0][-1].
Panics(t, limit) == limit = 0 /\ Rows(t) # {}

Bound(limit) == IF limit = 0 THEN 10 ELSE limit

\* A full page has a token even when there is nobody after it.
PageOnwards(t, limit) ==
    LET here == Lowest(Bound(limit), Rows(t))
    IN [users |-> here, token |-> IF Cardinality(here) = Bound(limit) THEN Max(here) ELSE 0]

PageBackwards(t, limit) ==
    LET here == Highest(Bound(limit), {u \in matching : u < t})
    IN [users |-> here, token |-> IF here = {} THEN 0 ELSE Min(here)]

-----------------------------------------------------------------------------
(* A walk *)

\* It begins without a token, backwards with one of an earlier answer.
Start(r, kind, t, limit) ==
    /\ walk[r] = None
    /\ kind = "backwards" <=> t # 0
    /\ walk' = [walk EXCEPT ![r] = [kind |-> kind, limit |-> limit, from |-> t, token |-> t,
                                    at |-> "ask", shown |-> <<>>, page |-> None]]
    /\ UNCHANGED <<matching, pages, changes>>

Stop(r) ==
    /\ walk[r] # None
    /\ walk' = [walk EXCEPT ![r] = None]
    /\ UNCHANGED <<matching, pages, changes>>

\* ORDER BY id, and the loop that turns a page read backwards.
InOrder(S) == CHOOSE s \in [1..Cardinality(S) -> S] :
                  \A i, j \in 1..Cardinality(S) : i < j => s[i] < s[j]

\* The client has got a page.
Show(r, p) ==
    LET w == walk[r]
        names == InOrder(p.users)
    IN walk' = [walk EXCEPT ![r] = [w EXCEPT
           !.token = p.token, !.page = None,
           !.at = IF p.token = 0 THEN "done" ELSE "ask",
           !.shown = IF w.kind = "backwards" THEN names \o @ ELSE @ \o names]]

\* GetAllUsers.
List(r) ==
    /\ At(r, "ask") /\ walk[r].kind # "search"
    /\ LET w == walk[r] IN Show(r, IF w.kind = "onwards" THEN PageOnwards(w.token, w.limit)
                                                          ELSE PageBackwards(w.token, w.limit))
    /\ UNCHANGED <<matching, pages, changes>>

\* SearchUsers: ask the cache, the table, and fill the cache.
Hit(r) ==
    /\ At(r, "ask") /\ walk[r].kind = "search"
    /\ pages[KeyOf(r)] # None
    /\ Show(r, pages[KeyOf(r)].page)
    /\ UNCHANGED <<matching, pages, changes>>

Miss(r) ==
    /\ At(r, "ask") /\ walk[r].kind = "search"
    /\ pages[KeyOf(r)] = None \/ Failures
    /\ walk' = [walk EXCEPT ![r].at = "load"]
    /\ UNCHANGED <<matching, pages, changes>>

Load(r) ==
    /\ At(r, "load") /\ ~ Panics(walk[r].token, walk[r].limit)
    /\ walk' = [walk EXCEPT ![r].at = "fill", ![r].page = SearchPage(walk[r].token, walk[r].limit)]
    /\ UNCHANGED <<matching, pages, changes>>

\* Mutant: the expiration is left out.
FillForGood(r) ==
    /\ At(r, "fill")
    /\ pages' = [pages EXCEPT ![KeyOf(r)] = [page |-> walk[r].page, ttl |-> 0]]
    /\ Show(r, walk[r].page)
    /\ UNCHANGED <<matching, changes>>

Fill(r) ==
    /\ At(r, "fill")
    /\ \/ pages' = [pages EXCEPT ![KeyOf(r)] = [page |-> walk[r].page, ttl |-> Life]]
       \/ Failures /\ UNCHANGED pages
    /\ Show(r, walk[r].page)
    /\ UNCHANGED <<matching, changes>>

\* Calls that are cut off bring no page; their clients may ask again.
CutOff(R) == walk' = [r \in Requests |->
    IF r \in R /\ (At(r, "load") \/ At(r, "fill"))
    THEN [walk[r] EXCEPT !.at = "ask", !.page = None] ELSE walk[r]]

Fails(r) ==
    /\ Failures /\ (At(r, "load") \/ At(r, "fill"))
    /\ CutOff({r})
    /\ UNCHANGED <<matching, pages, changes>>

\* The process dies: of a panic, or of two writes at once of existingCache,
\* the map RedisCache.Set notes its keys in.
Dies ==
    /\ \/ \E r \in Requests : At(r, "load") /\ Panics(walk[r].token, walk[r].limit)
       \/ \E r, s \in Requests : r # s /\ At(r, "fill") /\ At(s, "fill")
    /\ CutOff(Requests)
    /\ UNCHANGED <<matching, pages, changes>>

-----------------------------------------------------------------------------
(* Around the walks *)

\* A user registers, is renamed, verified, banned, deleted...: whether he
\* matches changes, and no page is deleted.
Change(u) ==
    /\ changes < MaxChanges
    /\ matching' = IF u \in matching THEN matching \ {u} ELSE matching \cup {u}
    /\ changes' = changes + 1
    /\ UNCHANGED <<pages, walk>>

Tick ==
    /\ \E k \in Keys : pages[k] # None
    /\ pages' = [k \in Keys |->
          IF pages[k] = None \/ pages[k].ttl = 1 THEN None
          ELSE [pages[k] EXCEPT !.ttl = @ - 1]]
    /\ UNCHANGED <<matching, changes, walk>>

Advance(r) == Load(r) \/ Fill(r)

Next ==
    \/ \E r \in Requests :
         \/ \E kind \in Kinds, t \in Tokens, limit \in Limits : Start(r, kind, t, limit)
         \/ List(r) \/ Hit(r) \/ Miss(r) \/ Advance(r) \/ Fails(r) \/ Stop(r)
    \/ Dies \/ Tick
    \/ \E u \in Ids : Change(u)

Spec == Init /\ [][Next]_vars

-----------------------------------------------------------------------------
(* Properties *)

TypeOK ==
    /\ matching \subseteq Ids
    /\ pages \in [Keys -> Entries \cup {None}]
    /\ changes \in Nat
    /\ \A r \in Requests : walk[r] # None =>
          walk[r] \in Walks /\ (walk[r].page # None <=> walk[r].at = "fill")

\* Every page SearchUsers keeps is what the table would answer now.
PagesRight ==
    \A k \in Keys : pages[k] # None =>
        ~ Panics(k[1], k[2]) /\ pages[k].page = SearchPage(k[1], k[2])
=============================================================================
