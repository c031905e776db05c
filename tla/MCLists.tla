------------------------------- MODULE MCLists ------------------------------
(***************************************************************************)
(* FollowGraph and Listing on small instances.  They share Redis and no    *)
(* key of it, and each of them may see its calls cut off at any moment:    *)
(* a behaviour of the one needs nothing of the other, so that in each      *)
(* behaviour one of them, the stage, moves.                                *)
(*                                                                         *)
(* Bounds: as a walk of GetAllUsers shares nothing with others, none is on *)
(* beside it; at first one user follows the others.                        *)
(***************************************************************************)
EXTENDS FollowGraphHistory

CONSTANTS Number, Limits, MaxChanges

VARIABLES matching, pages, changes, walk, stage, there

Pages == INSTANCE ListingHistory

ASSUME ListingAssumption == Pages!ConstantsFit

pageVars == <<matching, pages, changes, walk>>
mcvars   == <<hvars, pageVars, there, stage>>

MCInit ==
    /\ HInit
    /\ Pages!HInit
    /\ \/ /\ stage = "follow" /\ matching = {}
          /\ \E u \in Users : followings = {u} \X (Users \ {u})
       \/ stage = "pages" /\ followings = {}

FollowNext == stage = "follow" /\ HNext /\ UNCHANGED <<pageVars, there, stage>>

ListsOneByOne == \A r, s \in Requests : Pages!AsksTable(r) /\ walk[s] # None => r = s
PagesNext     == stage = "pages" /\ Pages!HNext /\ ListsOneByOne' /\ UNCHANGED <<hvars, stage>>

MCNext == FollowNext \/ PagesNext
\* Go runs every runnable goroutine, and time goes by.
MCSpec == /\ MCInit /\ [][MCNext]_mcvars
          /\ WF_vars(Tick) /\ \A r \in Requests : WF_vars(Advance(r))
          /\ WF_pageVars(Pages!Tick) /\ \A r \in Requests : WF_pageVars(Pages!Advance(r))

\* The type invariants of both.
TypesOK == TypeOK /\ Pages!TypeOK

\* Clients see everybody who was there all along (what that says is said in
\* ListingHistory).
WalksShowEverybody == Pages!WalksShowEverybody

\* Whatever fills came late, deletes failed and calls died: when nobody writes
\* any more, the lists and pages in the cache end up right and stay right.
ListsSettle == <>[](ListsRight /\ Pages!PagesRight)
=============================================================================
