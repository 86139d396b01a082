-------------------------- MODULE MCPhaseExecution --------------------------
(* Instances of PhaseExecution for TLC. *)
EXTENDS PhaseExecution

join     == [Blank EXCEPT !.action = "join", !.group = "g", !.count = 1]
joins    == [join EXCEPT !.count = 2, !.parallel = TRUE, !.await = FALSE, !.job = 1]
single   == [join EXCEPT !.repeat = 2, !.placement = "single-agent", !.job = 2, !.await = FALSE]
random   == [join EXCEPT !.count = 2, !.parallel = TRUE, !.parallelism = 1, !.placement = "random"]
leave    == [Blank EXCEPT !.action = "leave", !.group = "g", !.count = 2]
publish  == [Blank EXCEPT !.action = "publish", !.group = "g", !.count = 2, !.onError = "continue"]
strict   == [publish EXCEPT !.onError = "fail", !.await = FALSE, !.parallel = TRUE, !.job = 3]
ready    == [Blank EXCEPT !.action = "wait-ready", !.min = 1]
readyFor == [Blank EXCEPT !.action = "wait-ready", !.jobs = {1}]
jobs     == [Blank EXCEPT !.action = "wait-jobs"]
jobsOf   == [jobs EXCEPT !.jobs = {1}]
stop     == [Blank EXCEPT !.action = "reset"]
sleep    == [Blank EXCEPT !.action = "sleep", !.duration = 1]

again    == [stop EXCEPT !.action = "stop-all", !.repeat = 2]
one      == [joins EXCEPT !.count = 1]

(* The second plan of Either waits for a job that stop-all has reset: it   *)
(* is not valid.                                                           *)
Either  == {<<single, jobs, ready>>, <<joins, stop, jobsOf>>,
            <<join, leave, join>>, <<join, sleep, again, one>>}
Drained == {<<one, strict>>, <<random, strict, jobs>>}
Dropped == {<<joins, readyFor, publish>>, <<one, leave>>, <<random, strict, stop>>, <<one, stop, one>>}

PlansOf(sequences, ends) == [phases : sequences, onExit : ends]

LongPlans ==
  PlansOf(Either, {"cancel", "drain"}) \cup PlansOf(Drained, {"drain"}) \cup PlansOf(Dropped, {"cancel"})

Anything == {"g"}
=============================================================================
