---------------------------- MODULE MCPresence ----------------------------
(* A window of two turbulences.  The first scenario is about the detector, *)
(* two are about the sensors and two about the threshold.                  *)
EXTENDS Presence

MCMaxOf == [mvs |-> 4, ml |-> 2]

Base == [kind |-> "mvs", threshold |-> 2, mode |-> "none", turbulences |-> {0, 2},
         still |-> {FALSE}, channels |-> {1}, thresholds |-> {}, publishing |-> TRUE,
         link |-> FALSE]

Detecting == [Base EXCEPT !.turbulences = {0, 1, 2}, !.channels = {1, 2},
                          !.thresholds = {2, 3}, !.mode = "manual", !.publishing = FALSE]
Still == [Base EXCEPT !.still = BOOLEAN]
Linked == [Base EXCEPT !.link = TRUE]
Tuning == [Base EXCEPT !.thresholds = {3}, !.mode = "auto"]
Network == [Base EXCEPT !.kind = "ml", !.threshold = 1, !.thresholds = {3}]

MCScenarios == {Detecting, Still, Linked, Tuning, Network}
=============================================================================
