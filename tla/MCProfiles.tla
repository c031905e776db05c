----------------------------- MODULE MCProfiles -----------------------------
(* ProfilesHistory on small instances, with the fairness of FairSpec. *)
EXTENDS ProfilesHistory, TLC

\* Names of which one is another in lower case.
AnnInLowerCase(n) == IF n = "Ann" THEN "ann" ELSE n

\* Two accounts are there, one of them unnamed; or one is there with a capital
\* in its name, and an address is free to register or to move to.
MCInit == /\ HInit
          /\ \E u, v \in Users : \E e, f \in Emails :
                \/ users = [w \in Users |-> IF w = u THEN NewRow("", e) ELSE NewRow("bob", f)]
                \/ users = [w \in Users |-> IF w = u THEN NewRow("Ann", e) ELSE None]
          /\ LET first == CHOOSE u \in Users : TRUE
             IN /\ users[first] # None /\ users[first].name # "bob"
                /\ users[first].email = CHOOSE e \in Emails : TRUE

\* Bound: one reader at a time, beside whom the other request writes.
OneReader == LET reader == CHOOSE r \in Requests : TRUE
             IN \A r \in Requests \ {reader} : pc'[r] # "load"

MCNext == HNext /\ OneReader
MCSpec == MCInit /\ [][MCNext]_hvars /\ WF_vars(Tick)
=============================================================================
