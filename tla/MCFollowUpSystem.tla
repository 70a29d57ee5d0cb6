--------------------------- MODULE MCFollowUpSystem ---------------------------
(* One person, one Beat, two time settings, one pass and one worker.          *)
EXTENDS FollowUpSystem, ScheduleTime

CONSTANTS p1, w1

MCContacts == {"ann"}
MCBeats == {"b1"}
MCRules == {"PREVIOUS_FRIDAY", "KEEP"}
MCWordings == {"w"}
MCAt == [x \in MCBeats \X MCRules |-> ShiftWeekend(2, x[2])]
MCPasses == {p1}
MCWorkers == {w1}

\* Nothing races: passes, workers, the owner and time take turns.  Every behaviour of
\* TakingTurns is one of SystemSpec, so what it breaks is broken without any two of
\* them interleaving.
UnderWay == {p \in Passes : pass[p].pc # "idle"} \cup {w \in Workers : worker[w].pc # "idle"}

TakingTurns ==
    /\ SystemInit
    /\ [][/\ SystemNext
          /\ Cardinality(UnderWay') <= 1
          /\ <<clock, edits>>' # <<clock, edits>> => UnderWay = {}]_systemVars

=============================================================================
