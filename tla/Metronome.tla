------------------------------ MODULE Metronome ------------------------------
(***************************************************************************)
(* What the periodic queue promises.  A plan says when its next beat is    *)
(* due.  A beat fires once, not before it is due, and the next one is due  *)
(* later than the time it fired: what was missed is skipped.  A plan set   *)
(* anew starts no earlier than the time its caller read, which `Lag'       *)
(* bounds: what fired before that time does not fire again.  It keeps its  *)
(* identity until it is dropped.  A leased beat fires only while no other  *)
(* leased beat of the plan is in progress, unless one of them outlasted    *)
(* its lease.                                                              *)
(***************************************************************************)
EXTENDS Integers

CONSTANTS
    Key,
    Lag,     \* what a caller may have read for the time, minus the time
    NULL

VARIABLES
    clock,   \* the time
    plan,    \* the plan of each key, or NoPlan
    beats,   \* every beat that fired, and whether it is over
    calls    \* the next version number

vars == <<clock, plan, beats, calls>>

\* A plan has an identity, a version, and the time of its next beat.
NoPlan == [id |-> NULL, ver |-> NULL, next |-> NULL]

RanOut(until, t) == until # NULL /\ until <= t

Init ==
    /\ clock = 0
    /\ plan = [k \in Key |-> NoPlan]
    /\ beats = << >>
    /\ calls = 1

Set(k) ==
    /\ plan' = [plan EXCEPT ![k] = [id |-> IF @ = NoPlan THEN calls ELSE @.id,
                                    ver |-> calls, next |-> plan'[k].next]]
    /\ \E lag \in Lag : plan'[k].next >= clock + lag
    /\ calls' = calls + 1
    /\ UNCHANGED <<clock, beats>>

Drop(K) ==
    /\ plan' = [k \in Key |-> IF k \in K THEN NoPlan ELSE plan[k]]
    /\ UNCHANGED <<clock, beats, calls>>

\* The beats of plan i keep a leased one of it from firing.
Busy(i) == /\ \E b \in DOMAIN beats : /\ beats[b].id = i /\ beats[b].until # NULL
                                      /\ ~beats[b].over
           /\ \A b \in DOMAIN beats : beats[b].id = i => ~beats[b].late

\* Whoever fires the beat looked at the clock a moment before.
Fire(k) ==
    /\ plan[k] # NoPlan
    /\ \E n \in DOMAIN beats' \ DOMAIN beats :
         LET b == beats'[n]
         IN  /\ beats' = [m \in DOMAIN beats \cup {n} |-> IF m = n THEN b ELSE beats[m]]
             /\ b.id = plan[k].id /\ b.ver = plan[k].ver /\ b.due = plan[k].next
             /\ b.due <= b.at /\ b.at <= clock /\ b.at < plan'[k].next
             /\ b.late = RanOut(b.until, clock)
             /\ b.until # NULL => ~Busy(b.id)
    /\ plan' = [plan EXCEPT ![k].next = plan'[k].next]
    /\ UNCHANGED <<clock, calls>>

\* A worker that dies ends several beats at once.
End(B) ==
    /\ beats' = [b \in DOMAIN beats |-> [beats[b] EXCEPT !.over = @ \/ b \in B]]
    /\ UNCHANGED <<clock, plan, calls>>

Tick ==
    /\ clock' = clock + 1
    /\ beats' = [b \in DOMAIN beats |->
                   [beats[b] EXCEPT !.late = @ \/ (/\ ~beats[b].over
                                                   /\ RanOut(beats[b].until, clock'))]]
    /\ UNCHANGED <<plan, calls>>

Next == \/ \E k \in Key : Set(k) \/ Fire(k)
        \/ \E K \in SUBSET Key : Drop(K)
        \/ \E B \in SUBSET DOMAIN beats : End(B)
        \/ Tick

Spec == Init /\ [][Next]_vars
=============================================================================
