-------------------------- MODULE FollowGraphHistory -------------------------
(***************************************************************************)
(* FollowGraph with a history variable: alone is true while every call so  *)
(* far ran to its end, without another's step between its own.             *)
(***************************************************************************)
EXTENDS FollowGraph

VARIABLE alone

hvars == <<vars, alone>>

\* Some call waited while another one's step was taken.
Overlapped == \E r \in Requests : pc[r] # "idle" /\ <<pc[r], call[r]>>' = <<pc[r], call[r]>>

\* A writer went past a list that is still there, or never got to it.
LeftBehind == \E r \in Requests :
    /\ pc[r] = "clean" /\ <<pc[r], call[r]>>' # <<pc[r], call[r]>>
    /\ \E i \in DOMAIN call[r].keys : lists'[call[r].keys[i]] # None /\ (i = 1 \/ pc'[r] = "idle")

HInit == Init /\ alone = TRUE
HNext == Next /\ alone' = (alone /\ (Tick \/ ~ Overlapped) /\ ~ LeftBehind)
HSpec == HInit /\ [][HNext]_hvars

-----------------------------------------------------------------------------
(* Properties *)

\* Calls that do not overlap and are carried through leave no list in the
\* cache that misses somebody followed or names somebody no longer followed
\* (FollowUser and UnfollowUser delete the lists of the right ends).
ListsKeptAlone == alone /\ (\A r \in Requests : pc[r] = "idle") => ListsKept
=============================================================================
