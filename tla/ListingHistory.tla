--------------------------- MODULE ListingHistory ---------------------------
(***************************************************************************)
(* Listing with a history variable: there[r] holds whoever matched all     *)
(* along the walk r is at, if it asks the table, and from the very start,  *)
(* if it may see pages that are older than itself; there[None] is whoever  *)
(* matched from the very start.                                            *)
(***************************************************************************)
EXTENDS Listing

VARIABLE there

hvars == <<vars, there>>

AsksTable(r) == walk[r] # None /\ walk[r].kind # "search"

HInit == Init /\ there = [r \in Requests \cup {None} |-> matching]
HNext ==
    /\ Next
    /\ there' = [r \in Requests \cup {None} |-> matching' \cap
          IF r = None THEN there[r]
          ELSE IF walk'[r] = None THEN there[None]
          ELSE IF walk[r] = None /\ AsksTable(r)' THEN matching
          ELSE there[r]]
HSpec == HInit /\ [][HNext]_hvars

-----------------------------------------------------------------------------
(* Properties *)

\* A client who walks through SearchUsers or GetAllUsers sees users in the
\* order of their ids, nobody twice, and at the end he has seen everybody who
\* was there all along, whatever came and went, expired, failed or died.
WalksShowEverybody ==
    \A r \in Requests : walk[r] # None =>
        LET w == walk[r]
            due == {u \in there[r] : IF w.kind = "backwards" THEN u < w.from ELSE u > w.from}
        IN /\ \A i, j \in DOMAIN w.shown : i < j => w.shown[i] < w.shown[j]
           /\ w.at = "done" => due \subseteq ToSet(w.shown)
=============================================================================
