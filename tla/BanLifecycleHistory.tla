------------------------- MODULE BanLifecycleHistory -------------------------
(***************************************************************************)
(* BanLifecycle with a history variable: the hours that were asked for     *)
(* with each ban, which no table keeps.                                    *)
(***************************************************************************)
EXTENDS BanLifecycle

VARIABLE asked      \* pairs of a ban id and the BanExpiry of its request

hvars == <<vars, asked>>

HInit == Init /\ asked = {}
HNext == /\ Next
         /\ asked' = asked \cup {<<call'[r].id, call'[r].hours>> :
                               r \in {s \in Requests : pc'[s] = "record"}}
HSpec == HInit /\ [][HNext]_hvars

-----------------------------------------------------------------------------
(* Properties *)

\* The verdict of a check on a record is the one that was asked for.
AsAsked(r) ==
    CheckRecord(r) /\ banHistory[call[r].id] # None =>
        LET ban == banHistory[call[r].id] IN
        \E h \in Hours :
           LET end == ban.bannedAt + h * HourLength IN
           /\ <<call[r].id, h>> \in asked
           /\ FitsDuration(h) <=> ban.banExpiry = end
           /\ FitsDuration(h) /\ end # 0 => (pc'[r] = "clearLapsed" <=> end < now)

\* CheckBanStatus takes a ban for over exactly when the hours asked for with it
\* have passed since it was recorded.  This is so of the hours that fit a
\* time.Duration and of no others: those, which nobody refuses, end their ban
\* at another time, before it starts perhaps.  And an end that falls on the
\* very second 0 is none.
VerdictAsAsked == [][\A r \in Requests : AsAsked(r)]_hvars
=============================================================================
