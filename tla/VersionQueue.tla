----------------------------- MODULE VersionQueue -----------------------------
(***************************************************************************)
(* What the one-off queue promises about the versions of a task.  A task   *)
(* is a mailbox for one version: a submission replaces the version that    *)
(* waits, never the one in work; a version is begun at most once, and only *)
(* while it is the last one accepted; and work on a task is closed only    *)
(* when no newer version waits, otherwise the task waits again.            *)
(***************************************************************************)
EXTENDS Naturals

CONSTANT Task

VARIABLES
    stage,      \* where each task is in its life
    accepted,   \* the last version each task accepted, 0 without one
    begun,      \* the versions of each task some worker has begun
    clock       \* the next version number

vars == <<stage, accepted, begun, clock>>

Verdict == {"completed", "failed"}
Stage == {"new", "waiting", "active", "gone"} \cup Verdict

Init ==
    /\ stage = [t \in Task |-> "new"]
    /\ accepted = [t \in Task |-> 0]
    /\ begun = [t \in Task |-> {}]
    /\ clock = 1

Accept(t) ==
    /\ stage[t] # "gone"
    /\ stage' = [stage EXCEPT ![t] = IF @ = "active" THEN @ ELSE "waiting"]
    /\ accepted' = [accepted EXCEPT ![t] = clock]
    /\ clock' = clock + 1
    /\ UNCHANGED begun

Begin(t) ==
    /\ stage[t] = "waiting"
    /\ accepted[t] \notin begun[t]
    /\ stage' = [stage EXCEPT ![t] = "active"]
    /\ begun' = [begun EXCEPT ![t] = @ \cup {accepted[t]}]
    /\ UNCHANGED <<accepted, clock>>

\* The reaper settles several tasks at once.
Settle(T) ==
    /\ \A t \in T : stage[t] = "active"
    /\ \E verdict \in [T -> Verdict] :
          stage' = [t \in Task |-> IF t \notin T THEN stage[t]
                                   ELSE IF accepted[t] \in begun[t] THEN verdict[t]
                                   ELSE "waiting"]
    /\ UNCHANGED <<accepted, begun, clock>>

Withdraw(T) ==
    /\ \A t \in T : stage[t] # "new"
    /\ stage' = [t \in Task |-> IF t \in T THEN "gone" ELSE stage[t]]
    /\ accepted' = [t \in Task |-> IF t \in T THEN 0 ELSE accepted[t]]
    /\ UNCHANGED <<begun, clock>>

Next == \/ \E t \in Task : Accept(t) \/ Begin(t)
        \/ \E T \in SUBSET Task : Settle(T) \/ Withdraw(T)

Spec == Init /\ [][Next]_vars
=============================================================================
