----------------------------- MODULE MCTaskQueue -----------------------------
(* Instances of TaskQueue for TLC. *)
EXTENDS TaskQueue, TLC

CONSTANTS w1, w2, c1

TwoWorkers == {w1, w2}
OneWorker  == {w1}
OneClient  == {c1}

\* A plain submission; two that ask for their own cap; an urgent one; a later one.
Plain  == [priority |-> 0, delay |-> 0, max_runtime |-> NULL]
Capped == [Plain EXCEPT !.max_runtime = 1]
Long   == [Plain EXCEPT !.max_runtime = 2]
Urgent == [Plain EXCEPT !.priority = 1]
Later  == [Plain EXCEPT !.delay = 1]

PlainOnly   == {Plain}
CappedOnly  == {Capped}
PlainOrLong == {Plain, Long}
SoonOrLater == {Urgent, Later}

ServeAll   == [w \in Worker |-> {0, 1}]
ServeSplit == [w \in Worker |-> IF w = w1 THEN {0, 1} ELSE {1}]

InSync    == [w \in Worker |-> 0]
Drifting  == [w \in Worker |-> IF w = w1 THEN 0 ELSE -1]

Workers == Permutations(Worker)
=============================================================================
