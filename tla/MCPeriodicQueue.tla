--------------------------- MODULE MCPeriodicQueue ---------------------------
(* Instances of PeriodicQueue for TLC. *)
EXTENDS PeriodicQueue

CONSTANTS w1, w2, k1

TwoWorkers == {w1, w2}
OneKey     == {k1}

\* The defaults of schedule(), and calls that differ from them.
Every1 == [run_every |-> 1, cron |-> 0, priority |-> 0, active |-> TRUE,
           max_concurrent |-> 1, max_runtime |-> NULL]
Every2   == [Every1 EXCEPT !.run_every = 2]
Cron2    == [Every1 EXCEPT !.run_every = 0, !.cron = 2]
Paused   == [Every1 EXCEPT !.active = FALSE]
Parallel == [Cron2 EXCEPT !.max_concurrent = NULL]

OnlyEvery   == {Every1}
EveryOrCron == {Every2, Cron2}
LeasedOrNot == {Every2, Paused, Parallel}

ServeAll == [w \in Worker |-> {0, 1}]

OneSlot  == [w \in Worker |-> 1]
OneOrTwo == [w \in Worker |-> IF w = w1 THEN 1 ELSE 2]

\* Clients whose statement waited a tick for a claim, or did not wait.
AtOnceOrLate == {-1, 0}

InSync == [w \in Worker |-> 0]
Ahead  == [w \in Worker |-> IF w = w1 THEN 0 ELSE 1]
=============================================================================
