---------------------------- MODULE MCUpsertMany -----------------------------
(* Instances of UpsertMany for TLC. *)
EXTENDS UpsertMany

CONSTANTS b1, b2, reaper, cleanup

TwoKeys    == {1, 2}
TwoBatches == {b1, b2}
OneReaper  == {reaper}
OneCleanup == {cleanup}

\* Input orders that differ, and a client_id that is given twice.
Overlapping == [b \in TwoBatches |-> IF b = b1 THEN <<2, 1>> ELSE <<1, 2, 1>>]
=============================================================================
