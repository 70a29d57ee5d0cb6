-------------------------- MODULE MCAutomaticSending --------------------------
(* AutomaticSending on small instances: one person with two Beats, or two     *)
(* people with one, and two workers.                                          *)
EXTENDS AutomaticSending, TLC

CONSTANTS w1, w2

OnePerson == {"ann"}
TwoBeats == {"b1", "b2"}
OneBeat == {"b1"}
OneRule == {"r"}
OneWording == {"w"}
OneBeatAt == [x \in OneBeat \X OneRule |-> 1]
TwoBeatsAt == [x \in TwoBeats \X OneRule |-> 1]
OneWorker == {w1}
TwoWorkers == {w1, w2}
WorkerSymmetry == Permutations(TwoWorkers)

=============================================================================
