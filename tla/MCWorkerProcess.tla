--------------------------- MODULE MCWorkerProcess ---------------------------
(* Instances of WorkerProcess for TLC. *)
EXTENDS WorkerProcess

CONSTANTS a, p

OneTask     == {a}
OneSchedule == {p}
OneForks    == {a}

Call(c, d, i) == [concurrency |-> c, drain_timeout |-> d, poll_interval |-> i]

\* Both loops; a drain that is skipped, as long as a pause, or longer.
BothLoops == {Call(1, 0, 1), Call(1, 2, 1), Call(2, 1, 2)}
=============================================================================
