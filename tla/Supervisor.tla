------------------------------ MODULE Supervisor ------------------------------
(***************************************************************************)
(* What run_worker promises of the tasks it takes.  At most `limit' of     *)
(* them are in progress at once.  Each is judged once, after its process   *)
(* is gone, and by the way it went.  Asked to stop, the worker starts one  *)
(* more at most, and leaves when nothing is in progress.  An error may end *)
(* it at any time, and only with several slots does that abandon what is   *)
(* in progress.                                                            *)
(***************************************************************************)
EXTENDS Integers, FiniteSets

CONSTANTS Task, NULL

VARIABLES
    limit,    \* how many tasks may be in progress
    status,   \* per task: pending, claimed, started, or the verdict
    fate,     \* per task: how its process went, NULL before
    asked,    \* the worker was asked to stop
    spent,    \* it started a task after that
    gone      \* how it left: done, failed, NULL before

vars == <<limit, status, fate, asked, spent, gone>>

Started  == {t \in Task : status[t] = "started"}
Claimed  == {t \in Task : status[t] = "claimed"}
InHand   == Claimed \cup Started

Init ==
    /\ limit \in Nat \ {0}
    /\ status = [t \in Task |-> "pending"] /\ fate = [t \in Task |-> NULL]
    /\ asked = FALSE /\ spent = FALSE /\ gone = NULL

Become(t, from, to) == status[t] = from /\ status' = [status EXCEPT ![t] = to]

Claim(t) ==
    /\ gone = NULL /\ Claimed = {} /\ Become(t, "pending", "claimed")
    /\ UNCHANGED <<limit, fate, asked, spent, gone>>

Start(t) ==
    /\ gone = NULL /\ Become(t, "claimed", "started")
    /\ Cardinality(Started) < limit
    /\ ~spent /\ spent' = asked
    /\ UNCHANGED <<limit, fate, asked, gone>>

Refuse(t) ==
    /\ gone = NULL /\ Become(t, "claimed", "nostart")
    /\ UNCHANGED <<limit, fate, asked, spent, gone>>

\* The processes of a worker that left may still end.
Go(t, way) ==
    /\ status[t] = "started" /\ fate[t] = NULL
    /\ way = "drainkill" => asked
    /\ fate' = [fate EXCEPT ![t] = way]
    /\ UNCHANGED <<limit, status, asked, spent, gone>>

\* What may be said of a task whose process went this way.
Fits(verdict, way) ==
    \/ verdict = "shutdown" /\ asked /\ way \in {"oomkill", "drainkill"}
    \/ <<verdict, way>> \in {<<"success", "success">>, <<"timeout", "timeout">>,
                             <<"error", "failure">>, <<"killed", "signal">>, <<"oom", "oomkill">>}

\* The last verdict may be the last thing the worker does.
Judge(t, verdict) ==
    /\ gone = NULL /\ fate[t] # NULL /\ Fits(verdict, fate[t])
    /\ Become(t, "started", verdict)
    /\ gone' \in {NULL, "done"} /\ (gone' = "done" => asked /\ InHand = {t})
    /\ UNCHANGED <<limit, fate, asked, spent>>

Ask ==
    /\ gone = NULL /\ asked' = TRUE
    /\ UNCHANGED <<limit, status, fate, spent, gone>>

Leave ==
    /\ gone = NULL /\ asked /\ InHand = {} /\ gone' = "done"
    /\ UNCHANGED <<limit, status, fate, asked, spent>>

Break ==
    /\ gone = NULL /\ gone' = "failed"
    /\ IF limit = 1 THEN InHand = {} ELSE Claimed = {}
    /\ UNCHANGED <<limit, status, fate, asked, spent>>

Code    == {"success", "failure", "timeout", "signal", "oomkill", "drainkill"}
Verdict == {"success", "timeout", "oom", "killed", "error", "shutdown"}

Next == \/ \E t \in Task : \/ Claim(t) \/ Start(t) \/ Refuse(t)
                           \/ \E way \in Code : Go(t, way)
                           \/ \E verdict \in Verdict : Judge(t, verdict)
        \/ Ask \/ Leave \/ Break

Spec == Init /\ [][Next]_vars
=============================================================================
