---------------------------- MODULE MCPreparation ----------------------------
(* Preparation on small instances: one person, one Beat, two time settings.   *)
(* The Beat falls on Saturday, day 2 of ScheduleTime, which the settings keep *)
(* or move to Friday; the model's clock counts days.                          *)
EXTENDS Preparation, MCScheduleTime

CONSTANTS p1, p2

MCContacts == {"ann"}
MCBeats == {"b1"}
MCRules == {"PREVIOUS_FRIDAY", "KEEP"}
MCWordings == {"w1", "w2"}
MCAt == [x \in MCBeats \X MCRules |-> ShiftWeekend(2, x[2])]
OneWording == {"w1"}
OnePass == {p1}
TwoPasses == {p1, p2}

=============================================================================
