------------------------- MODULE WorkerProcessProofs -------------------------
(***************************************************************************)
(* The safety properties of WorkerProcess for every number of tasks, every *)
(* setting of the worker and every moment of the signals.                  *)
(***************************************************************************)
EXTENDS WorkerProcess, FiniteSetTheorems, TLAPS

Waiting == {"wait", "check", "doze", "read"}

\* The task in hand: claimed, or a child that is waited for.
InHand ==
    /\ cur # NULL <=> pc \in Waiting \cup {"start"}
    /\ pc = "start" => row[cur] = "running" /\ proc[cur].phase = "none"
    /\ pc \in {"wait", "check", "doze"} =>
         row[cur] = "running" /\ proc[cur].phase \in {"forked", "running", "closing", "zombie"}
    /\ pc = "read" => row[cur] = "running" /\ proc[cur].phase = "reaped"
    /\ cur \notin slots

\* The children in the slots wait for their turn.
InSlots ==
    /\ \A t \in slots : /\ row[t] = "running"
                        /\ proc[t].phase \in {"forked", "running", "closing", "zombie"}
    /\ todo \subseteq slots
    /\ pc \notin Waiting => todo = {}
    /\ draining => todo = slots /\ pc \in Waiting \cup {"stopped"}
    /\ Sequential => slots = {} /\ ~draining /\ pc \notin {"fill", "select", "drain"}
    /\ pc = "stopped" => slots = {}

\* A row and the process of its task.
RowAndProcess == \A t \in Task :
    /\ row[t] \in {"pending", "nostart"} => proc[t].phase = "none"
    /\ row[t] = "running" => Held(t)
    /\ row[t] \in Verdict \ {"nostart"} => proc[t].phase = "reaped"
    /\ proc[t].phase \in {"closing", "zombie", "reaped"} => proc[t].code # NULL

\* What the drain killed, it killed after the deadline, and remembers it until
\* it has its verdict.
DrainKills ==
    /\ killed /\ pc \in Waiting => DeadlinePassed
    /\ \A t \in Task : proc[t].code = "drainkill" =>
         row[t] = "shutdown" \/ (row[t] = "running" /\ t = cur /\ pc \in Waiting /\ killed)

\* A task forked after the signal was the last one.
Last ==
    /\ \A t, u \in late : t = u
    /\ late # {} => Requested /\ pc \notin {"oneoff", "periodic", "start"}

\* The longest a child may live on after the signal.
Bound == IF conf.drain_timeout > LongestPause THEN conf.drain_timeout ELSE LongestPause

\* What is left of the pause in hand, and of the drain.  A loop that goes on
\* claiming after the signal has not paused since.
InTime ==
    /\ asked # NULL <=> deadline # NULL
    /\ Requested => deadline = conf.drain_timeout
    /\ pc = "select" => timer <= conf.poll_interval
    /\ pc = "doze" => timer <= 1
    /\ Requested /\ pc \in {"fill", "oneoff", "periodic", "start"} => asked <= lost
    /\ Requested => /\ asked <= lost + Bound
                    /\ pc \in {"select", "doze"} => asked + timer <= lost + Bound

IInv == /\ TypeOK /\ InHand /\ InSlots /\ RowAndProcess
        /\ DrainKills /\ Last /\ InTime /\ HonestVerdict

USE TaskAssumption, SettingAssumption, BoundsAssumption, NullAssumption
-----------------------------------------------------------------------------
LEMMA InitInv == Init => IInv
<1> SUFFICES ASSUME Init PROVE IInv
  OBVIOUS
<1>1. TypeOK
  BY DEF Init, TypeOK, Process, NoProcess
<1>2. InHand /\ InSlots /\ RowAndProcess
  BY DEF Init, InHand, InSlots, RowAndProcess, Waiting, Verdict, NoProcess
<1>3. DrainKills /\ Last /\ InTime /\ HonestVerdict
  BY DEF Init, DrainKills, Last, InTime, HonestVerdict, Waiting, Verdict, Code, NoProcess, Requested
<1> QED
  BY <1>1, <1>2, <1>3 DEF IInv
-----------------------------------------------------------------------------
(* The signal and the children *)

LEMMA SignalStep == ASSUME IInv, Signal PROVE IInv'
<1> USE DEF IInv, Signal, loop
<1>1. TypeOK'
  BY DEF TypeOK
<1>2. InHand' /\ InSlots' /\ RowAndProcess'
  BY DEF InHand, InSlots, RowAndProcess, Held, Sequential
<1>3. DrainKills'
  BY DEF DrainKills, DeadlinePassed, Requested, TypeOK
<1>4. Last'
  BY DEF Last, Requested
<1>5. InTime'
  BY DEF InTime, Bound, LongestPause, Sequential, Requested, TypeOK
<1>6. HonestVerdict'
  BY DEF HonestVerdict, DeadlinePassed, Requested
<1> QED
  BY <1>1, <1>2, <1>3, <1>4, <1>5, <1>6

\* A process p of task t changes, but does not start, is not collected, and
\* is not killed by the drain.
Alike(p, q) ==
    /\ q.phase = "none" <=> p.phase = "none"
    /\ q.phase = "reaped" <=> p.phase = "reaped"
    /\ q.phase = "reaped" => q.code = p.code
    /\ q.phase \in {"closing", "zombie"} => q.code # NULL
    /\ q.code = "drainkill" => p.code = "drainkill"

LEMMA ProcessStep ==
    ASSUME IInv, NEW t \in Task, NEW q \in Process, Alike(proc[t], q),
           proc' = [proc EXCEPT ![t] = q],
           UNCHANGED <<conf, asked, deadline, row, loop, late, lost>>
    PROVE  IInv'
<1> USE DEF IInv, loop
<1>0. \A u \in Task : proc'[u] = IF u = t THEN q ELSE proc[u]
  BY DEF TypeOK
<1>1. TypeOK'
  BY DEF TypeOK
<1>2. InHand'
  BY <1>0 DEF InHand, TypeOK, Process, Alike, Waiting
<1>3. InSlots'
  BY <1>0 DEF InSlots, TypeOK, Process, Alike, Waiting, Sequential
<1>4. RowAndProcess'
  BY <1>0 DEF RowAndProcess, Held, TypeOK, Process, Alike, Waiting, Verdict
<1>5. DrainKills'
  BY <1>0 DEF DrainKills, DeadlinePassed, Requested, Alike
<1>6. Last' /\ InTime'
  BY DEF Last, InTime, Bound, LongestPause, Sequential, Requested
<1>7. HonestVerdict'
  BY <1>0 DEF HonestVerdict, RowAndProcess, Verdict, DeadlinePassed, Requested, Alike
<1> QED
  BY <1>1, <1>2, <1>3, <1>4, <1>5, <1>6, <1>7

LEMMA ChildStep == ASSUME IInv, Child PROVE IInv'
<1> USE DEF IInv
<1>0. PICK t \in Task : \/ SetUp(t) \/ ForkHelper(t) \/ HelperEnds(t)
                         \/ Exit(t) \/ Alarm(t)
                         \/ \E c \in {"success", "failure", "timeout"} : Finish(t, c)
                         \/ \E k \in {"signal", "oomkill"} : Killed(t, k)
  BY DEF Child
<1>a. UNCHANGED <<conf, asked, deadline, row, loop, late, lost>>
  BY DEF Child
<1>1. CASE SetUp(t)
  <2> DEFINE q == [proc[t] EXCEPT !.phase = "running"]
  <2>1. q \in Process /\ Alike(proc[t], q) /\ proc' = [proc EXCEPT ![t] = q]
    BY <1>1 DEF SetUp, TypeOK, Process, Alike
  <2> QED
    BY <1>a, <2>1, ProcessStep
<1>2. CASE ForkHelper(t) \/ HelperEnds(t)
  <2>1. PICK b \in BOOLEAN : proc' = [proc EXCEPT ![t].helper = b]
    BY <1>2 DEF ForkHelper, HelperEnds
  <2> DEFINE q == [proc[t] EXCEPT !.helper = b]
  <2>2. q \in Process /\ Alike(proc[t], q) /\ proc' = [proc EXCEPT ![t] = q]
    BY <2>1 DEF TypeOK, Process, Alike, RowAndProcess
  <2> QED
    BY <1>a, <2>2, ProcessStep
<1>3. CASE \E c \in {"success", "failure", "timeout"} : Finish(t, c)
  <2>1. PICK c \in {"success", "failure", "timeout"} : Finish(t, c)
    BY <1>3
  <2> DEFINE q == [proc[t] EXCEPT !.phase = "closing", !.code = c, !.said = c = "failure"]
  <2>2. q \in Process /\ Alike(proc[t], q) /\ proc' = [proc EXCEPT ![t] = q]
    <3>1. proc[t] \in Process /\ proc[t].phase = "running" /\ c \in Code
      BY <2>1 DEF Finish, TypeOK, Code
    <3>2. proc' = [proc EXCEPT ![t].phase = "closing", ![t].code = c, ![t].said = c = "failure"]
      BY <2>1 DEF Finish
    <3>3. proc' = [proc EXCEPT ![t] = q]
      BY <3>2 DEF TypeOK
    <3>4. /\ q \in Process /\ q.phase = "closing" /\ q.code = c
      BY <3>1 DEF Process
    <3>5. c # NULL /\ c # "drainkill"
      BY <2>1, NullAssumption DEF Code
    <3> QED
      BY <3>1, <3>3, <3>4, <3>5 DEF Alike
  <2> QED
    BY <1>a, <2>2, ProcessStep
<1>4. CASE Exit(t) \/ Alarm(t) \/ \E c \in {"signal", "oomkill"} : Killed(t, c)
  <2>1. PICK c \in Code : /\ Die(t, c) /\ Live(t)
                          /\ c = "drainkill" => proc[t].code = "drainkill"
    <3>1. CASE Exit(t)
      BY <3>1 DEF Exit, Live, RowAndProcess, TypeOK, Process
    <3>2. CASE Alarm(t)
      BY <3>2 DEF Alarm, Live, Code
    <3>3. CASE \E c \in {"signal", "oomkill"} : Killed(t, c)
      BY <3>3 DEF Killed, Code
    <3> QED
      BY <1>4, <3>1, <3>2, <3>3
  <2> DEFINE q == [proc[t] EXCEPT !.phase = "zombie", !.code = c]
  <2>2. c # NULL
    BY <2>1
  <2>3. q \in Process /\ Alike(proc[t], q) /\ proc' = [proc EXCEPT ![t] = q]
    <3>1. proc' = [proc EXCEPT ![t] = q]
      BY <2>1 DEF Die, TypeOK
    <3>2. proc[t] \in Process
      BY DEF TypeOK
    <3> QED
      BY <2>1, <2>2, <3>1, <3>2 DEF Live, Process, Alike
  <2> QED
    BY <1>a, <2>3, ProcessStep
<1> QED
  BY <1>0, <1>1, <1>2, <1>3, <1>4
-----------------------------------------------------------------------------
(* The loops *)

LEMMA TopStep == ASSUME IInv, Top PROVE IInv'
<1> USE DEF IInv, Top, loop
<1>1. TypeOK'
  BY DEF TypeOK, Goto
<1>2. InHand'
  BY DEF InHand, Waiting, Goto
<1>3. InSlots'
  BY DEF InSlots, Waiting, Sequential, Goto
<1>4. RowAndProcess'
  BY DEF RowAndProcess, Held, Goto
<1>5. DrainKills'
  BY DEF DrainKills, Waiting, Goto
<1>6. Last'
  BY DEF Last, Requested, Goto
<1>7. InTime'
  BY DEF InTime, Bound, LongestPause, Requested, Sequential, Goto
<1>8. HonestVerdict'
  BY DEF HonestVerdict, DeadlinePassed, Requested
<1> QED
  BY <1>1, <1>2, <1>3, <1>4, <1>5, <1>6, <1>7, <1>8

LEMMA FillStep == ASSUME IInv, Fill PROVE IInv'
<1> USE DEF IInv, Fill, loop
<1>1. TypeOK'
  BY DEF TypeOK, Goto, Pause
<1>2. InHand'
  BY DEF InHand, Waiting, Goto, Pause
<1>3. InSlots'
  BY DEF InSlots, Waiting, Sequential, Goto, Pause
<1>4. RowAndProcess'
  BY DEF RowAndProcess, Held, Goto
<1>5. DrainKills'
  BY DEF DrainKills, Waiting, Goto, Pause
<1>6. Last'
  BY DEF Last, Requested, Pause
<1>7. InTime'
  BY DEF InTime, InSlots, Bound, LongestPause, TypeOK, Requested, Sequential, Pause
<1>8. HonestVerdict'
  BY DEF HonestVerdict, DeadlinePassed, Requested
<1> QED
  BY <1>1, <1>2, <1>3, <1>4, <1>5, <1>6, <1>7, <1>8

LEMMA ClaimStep == ASSUME IInv, NEW t \in Task, Claim(t) PROVE IInv'
<1> USE DEF IInv, Claim, loop
<1>1. TypeOK'
  BY DEF TypeOK
<1>2. InHand'
  BY DEF InHand, InSlots, RowAndProcess, TypeOK
<1>3. InSlots'
  BY DEF InSlots, Waiting, Sequential
<1>4. RowAndProcess'
  BY DEF RowAndProcess, InHand, Held, Waiting, Verdict
<1>5. DrainKills'
  BY DEF DrainKills, Waiting
<1>6. Last'
  BY DEF Last
<1>7. InTime'
  BY DEF InTime, Bound, LongestPause, Requested, Sequential
<1>8. HonestVerdict'
  BY DEF HonestVerdict, DeadlinePassed, Verdict, Requested
<1> QED
  BY <1>1, <1>2, <1>3, <1>4, <1>5, <1>6, <1>7, <1>8

LEMMA ClaimNothingStep == ASSUME IInv, ClaimNothing PROVE IInv'
<1> USE DEF IInv, ClaimNothing, loop
<1>1. TypeOK'
  BY DEF TypeOK, Goto, Pause
<1>2. InHand'
  BY DEF InHand, Waiting, Goto, Pause
<1>3. InSlots'
  BY DEF InSlots, Waiting, Sequential, Goto, Pause
<1>4. RowAndProcess'
  BY DEF RowAndProcess, Held, Goto
<1>5. DrainKills'
  BY DEF DrainKills, Waiting, Goto, Pause
<1>6. Last'
  BY DEF Last
<1>7. InTime'
  BY DEF InTime, Bound, LongestPause, TypeOK, Requested, Sequential, Goto, Pause
<1>8. HonestVerdict'
  BY DEF HonestVerdict, DeadlinePassed, Requested
<1> QED
  BY <1>1, <1>2, <1>3, <1>4, <1>5, <1>6, <1>7, <1>8

LEMMA ForkStep == ASSUME IInv, Fork PROVE IInv'
<1> USE DEF IInv, Fork, loop
<1>0. /\ cur \in Task /\ proc' \in [Task -> Process]
      /\ \A u \in Task :
            proc'[u] = IF u = cur THEN [proc[u] EXCEPT !.phase = "forked"] ELSE proc[u]
  <2>1. cur \in Task /\ [proc[cur] EXCEPT !.phase = "forked"] \in Process
    BY DEF InHand, TypeOK, Process
  <2> QED
    BY <2>1 DEF TypeOK
<1>1. TypeOK'
  <2>1. late' \subseteq Task /\ slots' \subseteq Task /\ cur' \in Task \cup {NULL}
    BY <1>0 DEF TypeOK
  <2>2. killed' \in BOOLEAN /\ pc' \in {"wait", "fill"}
    BY DEF TypeOK
  <2> QED
    BY <1>0, <2>1, <2>2 DEF TypeOK
<1>2. InHand'
  BY <1>0 DEF InHand, TypeOK, Waiting
<1>3. InSlots'
  BY <1>0 DEF InSlots, InHand, Waiting, Sequential
<1>4. RowAndProcess'
  BY <1>0 DEF RowAndProcess, InHand, Held
<1>5. DrainKills'
  BY <1>0 DEF DrainKills, Waiting
<1>6. Last'
  BY DEF Last, Requested
<1>7. InTime'
  BY DEF InTime, Bound, LongestPause, Requested, Sequential
<1>8. HonestVerdict'
  BY <1>0 DEF HonestVerdict, DeadlinePassed, Requested
<1> QED
  BY <1>1, <1>2, <1>3, <1>4, <1>5, <1>6, <1>7, <1>8

LEMMA StartFailStep == ASSUME IInv, StartFail PROVE IInv'
<1> USE DEF IInv, StartFail, loop
<1>1. TypeOK'
  <2>1. row' \in [Task -> {"pending", "running"} \cup Verdict]
    BY DEF TypeOK, Verdict
  <2>2. pc' \in {"top", "periodic", "sleep", "select"} /\ timer' \in Nat
    BY DEF TypeOK, Pause
  <2> QED
    BY <2>1, <2>2 DEF TypeOK
<1>2. InHand'
  BY DEF InHand, TypeOK, Waiting, Pause
<1>3. InSlots'
  BY DEF InSlots, InHand, Waiting, Sequential, Pause
<1>4. RowAndProcess'
  BY DEF RowAndProcess, InHand, Held, TypeOK
<1>5. DrainKills'
  BY DEF DrainKills, InHand, Waiting, Pause
<1>6. Last'
  BY DEF Last
<1>7. InTime'
  BY DEF InTime, Bound, LongestPause, TypeOK, Requested, Sequential, Pause
<1>8. HonestVerdict'
  BY DEF HonestVerdict, DrainKills, Waiting, InHand, DeadlinePassed, Requested
<1> QED
  BY <1>1, <1>2, <1>3, <1>4, <1>5, <1>6, <1>7, <1>8

LEMMA WakeStep == ASSUME IInv, Wake PROVE IInv'
<1> USE DEF IInv, Wake, loop
<1>1. TypeOK'
  BY DEF TypeOK, GoOn
<1>2. InHand'
  BY DEF InHand, Waiting, GoOn
<1>3. InSlots'
  BY DEF InSlots, Waiting, Sequential, GoOn
<1>4. RowAndProcess'
  BY DEF RowAndProcess, Held, GoOn
<1>5. DrainKills'
  BY DEF DrainKills, Waiting, GoOn
<1>6. Last'
  BY DEF Last, Requested, GoOn
<1>7. InTime'
  BY DEF InTime, Bound, LongestPause, Requested, Sequential, GoOn
<1>8. HonestVerdict'
  BY DEF HonestVerdict, DeadlinePassed, Requested
<1> QED
  BY <1>1, <1>2, <1>3, <1>4, <1>5, <1>6, <1>7, <1>8

LEMMA SelectStep == ASSUME IInv, SelectReturns PROVE IInv'
<1> USE DEF IInv, SelectReturns, loop
<1>1. TypeOK'
  <2>1. /\ pc' \in {"wait", "maintain"} /\ timer' = 0 /\ draining' = draining
        /\ slots' \subseteq slots /\ todo' \subseteq slots \cup todo
    BY DEF GoOn, Collect, Ready
  <2>2. cur' \in slots \cup {cur} /\ killed' \in BOOLEAN
    BY DEF TypeOK, GoOn, Collect, Ready
  <2> QED
    BY <2>1, <2>2 DEF TypeOK
<1>2. InHand'
  BY DEF InHand, InSlots, Waiting, GoOn, Collect, Ready
<1>3. InSlots'
  BY DEF InSlots, Waiting, Sequential, GoOn, Collect, Ready
<1>4. RowAndProcess'
  BY DEF RowAndProcess, InHand, Held, Waiting, GoOn, Collect
<1>5. DrainKills'
  BY DEF DrainKills, Waiting, GoOn, Collect
<1>6. Last'
  BY DEF Last, Requested, GoOn, Collect
<1>7. InTime'
  BY DEF InTime, Bound, LongestPause, Requested, Sequential, GoOn, Collect
<1>8. HonestVerdict'
  BY DEF HonestVerdict, DeadlinePassed, Requested
<1> QED
  BY <1>1, <1>2, <1>3, <1>4, <1>5, <1>6, <1>7, <1>8

LEMMA MaintainStep == ASSUME IInv, Maintain PROVE IInv'
<1> USE DEF IInv, Maintain, loop
<1>1. TypeOK'
  BY DEF TypeOK, Goto
<1>2. InHand'
  BY DEF InHand, Waiting, Goto
<1>3. InSlots'
  BY DEF InSlots, Waiting, Sequential, Goto
<1>4. RowAndProcess'
  BY DEF RowAndProcess, Held, Goto
<1>5. DrainKills'
  BY DEF DrainKills, Waiting, Goto
<1>6. Last'
  BY DEF Last, Requested, Goto
<1>7. InTime'
  BY DEF InTime, Bound, LongestPause, TypeOK, Requested, Sequential, Goto
<1>8. HonestVerdict'
  BY DEF HonestVerdict, DeadlinePassed, Requested
<1> QED
  BY <1>1, <1>2, <1>3, <1>4, <1>5, <1>6, <1>7, <1>8

LEMMA CleanStep == ASSUME IInv, Clean PROVE IInv'
<1> USE DEF IInv, Clean, loop
<1>1. TypeOK'
  BY DEF TypeOK, Goto, Pause
<1>2. InHand'
  BY DEF InHand, Waiting, Goto, Pause
<1>3. InSlots'
  BY DEF InSlots, Waiting, Sequential, Goto, Pause
<1>4. RowAndProcess'
  BY DEF RowAndProcess, Held, Goto
<1>5. DrainKills'
  BY DEF DrainKills, Waiting, Goto, Pause
<1>6. Last'
  BY DEF Last, Requested, Goto, Pause
<1>7. InTime'
  BY DEF InTime, InSlots, Bound, LongestPause, TypeOK, Requested, Sequential, Goto, Pause
<1>8. HonestVerdict'
  BY DEF HonestVerdict, DeadlinePassed, Requested
<1> QED
  BY <1>1, <1>2, <1>3, <1>4, <1>5, <1>6, <1>7, <1>8

LEMMA CleanupRaisesStep == ASSUME IInv, CleanupRaises PROVE IInv'
<1> USE DEF IInv, CleanupRaises, loop
<1>1. TypeOK'
  BY DEF TypeOK, Goto
<1>2. InHand'
  BY DEF InHand, Waiting, Goto
<1>3. InSlots'
  BY DEF InSlots, Waiting, Sequential, Goto
<1>4. RowAndProcess'
  BY DEF RowAndProcess, Held, Goto
<1>5. DrainKills'
  BY DEF DrainKills, Waiting, Goto
<1>6. Last'
  BY DEF Last, Requested, Goto
<1>7. InTime'
  BY DEF InTime, Bound, LongestPause, Sequential, Requested, Goto
<1>8. HonestVerdict'
  BY DEF HonestVerdict, DeadlinePassed, Requested
<1> QED
  BY <1>1, <1>2, <1>3, <1>4, <1>5, <1>6, <1>7, <1>8

LEMMA DrainStep == ASSUME IInv, Drain PROVE IInv'
<1> USE DEF IInv, Drain, loop
<1>1. TypeOK'
  BY DEF TypeOK, Collect
<1>2. InHand'
  BY DEF InHand, InSlots, Waiting, Collect
<1>3. InSlots'
  BY DEF InSlots, Waiting, Sequential, Collect
<1>4. RowAndProcess'
  BY DEF RowAndProcess, InHand, Held, Waiting, Collect
<1>5. DrainKills'
  BY DEF DrainKills, Waiting, Collect
<1>6. Last'
  BY DEF Last, Requested, Collect
<1>7. InTime'
  BY DEF InTime, Bound, LongestPause, Requested, Sequential, Collect
<1>8. HonestVerdict'
  BY DEF HonestVerdict, DeadlinePassed, Requested
<1> QED
  BY <1>1, <1>2, <1>3, <1>4, <1>5, <1>6, <1>7, <1>8

LEMMA Wait4Step == ASSUME IInv, Wait4 PROVE IInv'
<1> USE DEF IInv, Wait4, loop
<1>0. cur \in Task /\ proc' \in [Task -> Process] /\ \A u \in Task : 
        /\ u # cur => proc'[u] = proc[u]
        /\ proc'[u].code = proc[u].code
        /\ pc' = "read" => proc'[cur].phase = "reaped" /\ proc[cur].phase = "zombie"
        /\ pc' # "read" => pc' = "check" /\ proc' = proc
  BY DEF TypeOK, InHand, Waiting, Zombie, Goto, Process
<1>1. TypeOK'
  BY <1>0 DEF TypeOK, Goto
<1>2. InHand'
  BY <1>0 DEF InHand, Waiting, Goto
<1>3. InSlots'
  BY <1>0 DEF InSlots, InHand, TypeOK, Waiting, Sequential, Goto
<1>4. RowAndProcess'
  BY <1>0 DEF RowAndProcess, Held, Goto
<1>5. DrainKills'
  BY <1>0 DEF DrainKills, DeadlinePassed, Waiting, Requested, Goto
<1>6. Last'
  BY DEF Last, Requested, Goto
<1>7. InTime'
  BY DEF InTime, Bound, LongestPause, Requested, Sequential, Goto
<1>8. HonestVerdict'
  BY <1>0 DEF HonestVerdict, DeadlinePassed, Requested
<1> QED
  BY <1>1, <1>2, <1>3, <1>4, <1>5, <1>6, <1>7, <1>8

LEMMA CheckStep == ASSUME IInv, Check PROVE IInv'
<1> USE DEF IInv, Check, loop
<1>0. /\ cur \in Task /\ proc' \in [Task -> Process]
      /\ \A u \in Task : u # cur => proc'[u] = proc[u]
      /\ proc'[cur].phase \in {"forked", "running", "closing", "zombie"}
      /\ proc'[cur].phase \in {"closing", "zombie"} => proc'[cur].code # NULL
      /\ proc'[cur].code = "drainkill" => killed' \/ proc[cur].code = "drainkill"
  <2>1. cur \in Task /\ proc[cur] \in Process
    BY DEF InHand, Waiting, TypeOK
  <2>2. proc[cur].phase \in {"forked", "running", "closing", "zombie"}
    BY DEF InHand
  <2>3. proc[cur].phase \in {"closing", "zombie"} => proc[cur].code # NULL
    BY <2>1 DEF RowAndProcess
  <2>4. CASE proc' = proc
    BY <2>1, <2>2, <2>3, <2>4 DEF TypeOK
  <2>5. CASE KillGroup(cur) /\ killed' = TRUE
    BY <2>1, <2>2, <2>3, <2>5 DEF KillGroup, Live, TypeOK, Process, Code
  <2> QED
    BY <2>4, <2>5
<1>1. TypeOK'
  <2>1. Nap \in {0, 1}
    BY DEF Nap, TypeOK
  <2>2. killed' \in BOOLEAN
    BY DEF TypeOK
  <2>3. timer' \in Nat /\ pc' = "doze"
    BY <2>1
  <2> QED
    BY <1>0, <2>2, <2>3 DEF TypeOK
<1>2. InHand'
  BY <1>0 DEF InHand, Waiting
<1>3. InSlots'
  BY <1>0 DEF InSlots, TypeOK, Waiting, Sequential
<1>4. RowAndProcess'
  BY <1>0 DEF RowAndProcess, InHand, Held
<1>5. DrainKills'
  BY <1>0 DEF DrainKills, InHand, DeadlinePassed, Waiting, Requested, DeadlinePassed
<1>6. Last'
  BY DEF Last, Requested
<1>7. InTime'
  BY DEF InTime, Bound, LongestPause, TypeOK, Requested, Sequential, Nap
<1>8. HonestVerdict'
  BY <1>0 DEF HonestVerdict, InHand, RowAndProcess, DeadlinePassed, Requested, DeadlinePassed
<1> QED
  BY <1>1, <1>2, <1>3, <1>4, <1>5, <1>6, <1>7, <1>8

LEMMA DozeStep == ASSUME IInv, Doze PROVE IInv'
<1> USE DEF IInv, Doze, loop
<1>0. proc' \in [Task -> Process]
  <2>1. proc[cur] \in Process => [proc[cur] EXCEPT !.said = FALSE] \in Process
    BY DEF Process
  <2> QED
    BY <2>1 DEF TypeOK, InHand, Waiting
<1>1. TypeOK'
  BY <1>0 DEF TypeOK, GoOn
<1>2. InHand'
  BY DEF InHand, Waiting, GoOn
<1>3. InSlots'
  BY DEF InSlots, Waiting, Sequential, GoOn
<1>4. RowAndProcess'
  BY DEF RowAndProcess, Held, GoOn
<1>5. DrainKills'
  BY DEF DrainKills, DeadlinePassed, Waiting, Requested, GoOn
<1>6. Last'
  BY DEF Last, Requested, GoOn
<1>7. InTime'
  BY DEF InTime, Bound, LongestPause, Requested, Sequential, GoOn
<1>8. HonestVerdict'
  BY DEF HonestVerdict, DeadlinePassed, Requested
<1> QED
  BY <1>1, <1>2, <1>3, <1>4, <1>5, <1>6, <1>7, <1>8

\* What a verdict says of the code.
LEMMA Judged ==
    ASSUME NEW c \in Code
    PROVE  /\ Judge(c) \in Verdict \ {"nostart"}
           /\ Judge(c) = "success" <=> c = "success"
           /\ Judge(c) = "shutdown" <=> c \in {"oomkill", "drainkill"} /\ killed
BY DEF Judge, Code, Verdict

LEMMA RecordStep == ASSUME IInv, Record PROVE IInv'
<1> USE DEF IInv
<1> DEFINE v == Judge(proc[cur].code)
<1>0. /\ cur \in Task /\ row[cur] = "running" /\ proc[cur].phase = "reaped"
      /\ proc[cur].code \in Code
  BY DEF Record, InHand, Waiting, RowAndProcess, TypeOK, Process
<1>a. /\ v \in Verdict \ {"nostart"}
      /\ v = "success" <=> proc[cur].code = "success"
      /\ v = "shutdown" <=> proc[cur].code \in {"oomkill", "drainkill"} /\ killed
  BY <1>0, Judged
<1> HIDE DEF v
<1>b. /\ row' \in [Task -> {"pending", "running"} \cup Verdict]
      /\ \A u \in Task : row'[u] = IF u = cur THEN v ELSE row[u]
  BY <1>0, <1>a DEF Record, TypeOK, v
<1>c. /\ proc' \in [Task -> Process]
      /\ \A u \in Task : proc'[u].phase = proc[u].phase /\ proc'[u].code = proc[u].code
  <2>1. proc[cur] \in Process
    BY <1>0 DEF TypeOK
  <2>2. [proc[cur] EXCEPT !.said = FALSE] \in Process
    BY <2>1 DEF Process
  <2> QED
    BY <1>0, <2>1, <2>2 DEF Record, TypeOK
<1>d. UNCHANGED <<conf, asked, deadline, timer, draining, late, lost>>
  BY DEF Record
<1>e. \/ /\ cur' \in todo /\ todo' = todo \ {cur'} /\ slots' = slots \ {cur'}
         /\ pc' = "wait" /\ killed' = FALSE
      \/ /\ todo = {} /\ cur' = NULL
         /\ pc' = IF Sequential THEN "top" ELSE IF draining THEN "stopped" ELSE "maintain"
         /\ killed' = FALSE /\ UNCHANGED <<slots, todo>>
  BY DEF Record, Collect
<1>f. pc = "read"
  BY DEF Record
<1>1. TypeOK'
  BY <1>b, <1>c, <1>d, <1>e DEF TypeOK
<1>2. InHand'
  BY <1>0, <1>b, <1>c, <1>e DEF InHand, InSlots, TypeOK, Waiting
<1>3. InSlots'
  <2>1. \A u \in slots' : u \in slots /\ row'[u] = row[u] /\ proc'[u].phase = proc[u].phase
    BY <1>b, <1>c, <1>e DEF InHand, TypeOK
  <2>2. draining => todo = slots
    BY DEF InSlots
  <2>3. CASE todo = {}
    BY <2>1, <2>2, <2>3, <1>d, <1>e, <1>f DEF InSlots, Sequential
  <2>4. CASE todo # {}
    <3>1. /\ cur' \in todo /\ todo' = todo \ {cur'} /\ slots' = slots \ {cur'} /\ pc' = "wait"
      BY <1>e, <2>4
    <3>2. ~Sequential /\ conf' = conf /\ draining' = draining
      BY <1>d, <3>1 DEF InSlots
    <3> QED
      BY <2>1, <2>2, <3>1, <3>2 DEF InSlots, Waiting, Sequential
  <2> QED
    BY <2>3, <2>4
<1>4. RowAndProcess'
  BY <1>0, <1>a, <1>b, <1>c, <1>e DEF RowAndProcess, Held, Verdict
<1>5. DrainKills'
  BY <1>0, <1>a, <1>b, <1>c, <1>d, <1>e, <1>f DEF DrainKills, Waiting
<1>6. Last'
  BY <1>d, <1>e DEF Last, Requested
<1>7. InTime'
  BY <1>d, <1>e DEF InTime, Bound, LongestPause, Sequential, Requested
<1>8. HonestVerdict'
  BY <1>0, <1>a, <1>b, <1>c, <1>d, <1>f DEF HonestVerdict, DrainKills, DeadlinePassed, Waiting, Requested
<1> QED
  BY <1>1, <1>2, <1>3, <1>4, <1>5, <1>6, <1>7, <1>8

LEMMA TickStep == ASSUME IInv, Tick PROVE IInv'
<1> USE DEF IInv, Tick, loop
<1>1. TypeOK'
  BY DEF TypeOK
<1>2. InHand'
  BY DEF InHand
<1>3. InSlots'
  BY DEF InSlots, Sequential
<1>4. RowAndProcess'
  BY DEF RowAndProcess, Held
<1>5. DrainKills'
  BY DEF DrainKills, DeadlinePassed, TypeOK, Requested
<1>6. Last'
  BY DEF Last, Requested
<1>7. InTime'
  <2>1. CASE ~Requested
    BY <2>1 DEF InTime, Requested, TypeOK
  <2>2. CASE Requested
    <3>1. /\ asked \in Nat /\ timer \in Nat /\ lost \in Nat /\ Bound \in Int /\ Bound' = Bound
          /\ asked <= lost + Bound
      BY <2>2 DEF InTime, TypeOK, Requested, Bound, LongestPause, Sequential
    <3>2. CASE pc \in {"select", "doze"}
      <4>1. timer > 0 /\ asked + timer <= lost + Bound
        BY <2>2, <3>2 DEF Blocked, InDatabase, InTime
      <4>2. timer' = timer - 1 /\ asked' \in {asked, asked + 1} /\ lost' = lost
        BY <2>2, <3>2, <4>1 DEF InDatabase
      <4> QED
        BY <2>2, <3>1, <3>2, <4>1, <4>2 DEF InTime, TypeOK, Requested
    <3>3. CASE pc \notin {"select", "doze"}
      <4>1. InDatabase \/ pc = "read"
        BY <2>2, <3>3 DEF Blocked
      <4>2. \/ asked' = asked /\ lost' = lost
            \/ asked' = asked + 1 /\ lost' = lost + 1
        BY <2>2, <4>1
      <4> QED
        BY <2>2, <3>1, <3>3, <4>2 DEF InTime, TypeOK, Requested
    <3> QED
      BY <3>2, <3>3
  <2> QED
    BY <2>1, <2>2
<1>8. HonestVerdict'
  BY DEF HonestVerdict, DeadlinePassed, TypeOK, Requested
<1> QED
  BY <1>1, <1>2, <1>3, <1>4, <1>5, <1>6, <1>7, <1>8
-----------------------------------------------------------------------------
(* The invariant *)

LEMMA NextInv == IInv /\ [Next]_vars => IInv'
<1> SUFFICES ASSUME IInv, [Next]_vars PROVE IInv'
  OBVIOUS
<1>1. CASE Parent
  BY <1>1, TopStep, FillStep, ClaimStep, ClaimNothingStep, ForkStep, StartFailStep, WakeStep,
     SelectStep, MaintainStep, CleanStep, CleanupRaisesStep, DrainStep, Wait4Step, CheckStep, DozeStep,
     RecordStep DEF Parent
<1>2. CASE Child
  BY <1>2, ChildStep
<1>3. CASE Signal
  BY <1>3, SignalStep
<1>4. CASE Tick
  BY <1>4, TickStep
<1>5. CASE UNCHANGED vars
  BY <1>5 DEF vars, loop, IInv, TypeOK, InHand, InSlots, RowAndProcess, DrainKills, Last, InTime,
              HonestVerdict, Held, Sequential, Requested, DeadlinePassed, Bound, LongestPause
<1> QED
  BY <1>1, <1>2, <1>3, <1>4, <1>5 DEF Next

LEMMA Invariance == Spec => []IInv
BY InitInv, NextInv, PTL DEF Spec
-----------------------------------------------------------------------------
(* The worker as a Supervisor *)

\* A claim has its slot, and the drain was asked for.
Room ==
    /\ pc \in {"oneoff", "periodic", "start"} /\ ~Sequential => Cardinality(slots) < conf.concurrency
    /\ draining \/ pc = "drain" => Requested

LEMMA InitRoom == Init => Room
BY DEF Init, Room

LEMMA RoomStep == ASSUME IInv, Room, [Next]_vars PROVE Room'
<1> USE DEF Room, Sequential, Requested, loop
<1>1. CASE Top \/ Fill \/ Wake \/ Maintain \/ Clean \/ CleanupRaises \/ ClaimNothing
  BY <1>1 DEF Top, Fill, Wake, Maintain, Clean, CleanupRaises, ClaimNothing, Goto, GoOn, Pause
<1>2. CASE Fork \/ StartFail \/ \E t \in Task : Claim(t)
  BY <1>2 DEF Fork, StartFail, Claim, Pause
<1>3. CASE SelectReturns \/ Drain \/ Wait4 \/ Check \/ Doze \/ Record
  BY <1>3 DEF SelectReturns, Drain, Wait4, Check, Doze, Record, Goto, GoOn, Collect
<1>4. CASE Child \/ Signal \/ UNCHANGED vars
  BY <1>4 DEF Child, Signal, vars
<1>5. CASE Tick
  BY <1>5, TickStep DEF Tick, IInv, TypeOK
<1> QED
  BY <1>1, <1>2, <1>3, <1>4, <1>5 DEF Next, Parent

LEMMA Bars ==
    ASSUME IInv, NEW t \in Task
    PROVE  /\ statusBar[t] = "claimed" <=> pc = "start" /\ t = cur
           /\ statusBar[t] = "started" <=> t \in slots \/ (pc \in Waiting /\ t = cur)
           /\ row[t] = "running" <=> statusBar[t] \in {"claimed", "started"}
           /\ row[t] # "running" => statusBar[t] = row[t]
<1>1. row[t] \in {"pending", "running"} \cup Verdict
  BY DEF IInv, TypeOK
<1>2. statusBar[t] = IF row[t] # "running" THEN row[t]
                     ELSE IF proc[t].phase = "none" THEN "claimed" ELSE "started"
  BY DEF statusBar
<1>3. row[t] = "running" => t \in slots \/ (t = cur /\ pc \in Waiting \cup {"start"})
  BY DEF IInv, RowAndProcess, Held, InHand
<1>4. t \in slots => row[t] = "running" /\ proc[t].phase # "none"
  BY DEF IInv, InSlots
<1>5. t = cur /\ pc \in Waiting => row[t] = "running" /\ proc[t].phase # "none"
  BY DEF IInv, InHand, Waiting
<1>6. t = cur /\ pc = "start" => row[t] = "running" /\ proc[t].phase = "none" /\ t \notin slots
  BY DEF IInv, InHand
<1> QED
  BY <1>1, <1>2, <1>3, <1>4, <1>5, <1>6 DEF Verdict, Waiting

LEMMA HandSets ==
    ASSUME IInv
    PROVE  /\ Contract!Claimed = IF pc = "start" THEN {cur} ELSE {}
           /\ Contract!Started = slots \cup (IF pc \in Waiting THEN {cur} ELSE {})
<1>1. pc \in Waiting \cup {"start"} => cur \in Task
  BY DEF IInv, InHand, TypeOK
<1>2. slots \subseteq Task
  BY DEF IInv, TypeOK
<1> QED
  BY <1>1, <1>2, Bars DEF Contract!Claimed, Contract!Started, Waiting

\* A step that a Supervisor does not see.
LEMMA Unseen ==
    ASSUME UNCHANGED <<conf, row, late>>, Requested <=> Requested', exitBar' = exitBar,
           \A t \in Task : proc'[t].phase = "none" <=> proc[t].phase = "none",
           fateBar' = fateBar
    PROVE  UNCHANGED Contract!vars
<1>1. statusBar' = statusBar
  BY DEF statusBar
<1>2. Requested' = Requested
  BY DEF Requested
<1> QED
  BY <1>1, <1>2 DEF Contract!vars

\* A step of the loop that touches no child: it may be the last one.
LEMMA LoopStep ==
    ASSUME IInv, IInv', exitBar = NULL, UNCHANGED <<conf, asked, row, proc, late>>,
           pc' = "stopped" => Requested,
           pc' = "raised" => pc = "clean"
    PROVE  [Contract!Leave \/ Contract!Break]_(Contract!vars)
<1>1. statusBar' = statusBar /\ fateBar' = fateBar /\ Requested' = Requested
  BY DEF statusBar, fateBar, Requested
<1>2. CASE exitBar' = NULL
  BY <1>1, <1>2, Unseen
<1>3. CASE pc' = "stopped"
  <2>1. \A t \in Task : row[t] # "running"
    BY <1>3 DEF IInv, InSlots, InHand, RowAndProcess, Held, Waiting
  <2>2. \A t \in Task : statusBar[t] \notin {"claimed", "started"}
    BY <2>1, Bars
  <2>3. Contract!InHand = {} /\ exitBar' = "done"
    BY <1>3, <2>2 DEF Contract!InHand, Contract!Claimed, Contract!Started, exitBar
  <2> QED
    BY <1>1, <1>3, <2>3 DEF Contract!Leave
<1>4. CASE pc' = "raised"
  <2>1. pc = "clean" /\ (Sequential => slots = {}) /\ exitBar' = "failed"
    BY <1>4 DEF IInv, InSlots, exitBar
  <2>2. Contract!Claimed = {} /\ Contract!Started = slots
    BY <2>1, HandSets DEF Waiting
  <2> QED
    BY <1>1, <2>1, <2>2 DEF Contract!Break, Contract!InHand, Sequential
<1> QED
  BY <1>2, <1>3, <1>4 DEF exitBar

LEMMA ClaimSeen == ASSUME IInv, NEW t \in Task, Claim(t) PROVE Contract!Claim(t)
<1>1. /\ row' = [row EXCEPT ![t] = "running"] /\ row[t] = "pending" /\ proc[t].phase = "none"
      /\ pc \in {"oneoff", "periodic"} /\ pc' = "start"
      /\ UNCHANGED <<conf, asked, proc, late>> /\ row \in [Task -> {"pending", "running"} \cup Verdict]
  BY DEF Claim, IInv, RowAndProcess, TypeOK
<1>2. statusBar[t] = "pending" /\ statusBar' = [statusBar EXCEPT ![t] = "claimed"]
  BY <1>1 DEF statusBar
<1>3. Contract!Claimed = {}
  BY <1>1, HandSets
<1>4. fateBar' = fateBar /\ Requested' = Requested /\ exitBar = NULL /\ exitBar' = NULL
  BY <1>1 DEF fateBar, Requested, exitBar
<1> QED
  BY <1>1, <1>2, <1>3, <1>4 DEF Contract!Claim, Contract!Become

LEMMA ForkSeen == ASSUME IInv, Room, Fork PROVE Contract!Start(cur)
<1>1. /\ cur \in Task /\ row[cur] = "running" /\ proc[cur].phase = "none" /\ pc = "start"
      /\ pc' \in {"wait", "fill"} /\ UNCHANGED <<conf, asked, row>> /\ proc \in [Task -> Process]
  BY DEF Fork, IInv, InHand, TypeOK
<1>2. /\ proc'[cur].phase = "forked"
      /\ \A u \in Task \ {cur} : proc'[u] = proc[u]
  BY <1>1 DEF Fork, Process
<1>3. statusBar[cur] = "claimed" /\ statusBar' = [statusBar EXCEPT ![cur] = "started"]
  BY <1>1, <1>2 DEF statusBar
<1>4. fateBar' = fateBar
  BY <1>1, <1>2 DEF fateBar
<1>5. Cardinality(Contract!Started) < conf.concurrency
  <2>1. Contract!Started = slots
    BY <1>1, HandSets DEF Waiting
  <2>2. CASE Sequential
    <3>1. slots = {} /\ Cardinality({}) = 0
      BY <2>2, FS_EmptySet DEF IInv, InSlots
    <3> QED
      BY <2>1, <2>2, <3>1 DEF Sequential
  <2>3. CASE ~Sequential
    BY <1>1, <2>1, <2>3 DEF Room
  <2> QED
    BY <2>2, <2>3
<1>6. late = {} /\ (late' # {} <=> Requested)
  BY <1>1 DEF IInv, Last, Fork
<1>7. Requested' = Requested /\ exitBar = NULL /\ exitBar' = NULL
  BY <1>1 DEF Requested, exitBar
<1>8. (late' # {}) = Requested
  BY <1>6 DEF Requested
<1>9. Contract!Cardinality(Contract!Started) < conf.concurrency
  <2>1. Contract!Cardinality(Contract!Started) = Cardinality(Contract!Started)
    BY DEF Contract!Cardinality, Cardinality
  <2> QED
    BY <1>5, <2>1
<1> QED
  BY <1>1, <1>3, <1>4, <1>6, <1>7, <1>8, <1>9 DEF Contract!Start, Contract!Become

LEMMA StartFailSeen == ASSUME IInv, StartFail PROVE Contract!Refuse(cur)
<1>1. /\ cur \in Task /\ row[cur] = "running" /\ proc[cur].phase = "none" /\ pc = "start"
      /\ row' = [row EXCEPT ![cur] = "nostart"] /\ row \in [Task -> {"pending", "running"} \cup Verdict]
      /\ pc' \in {"top", "periodic", "sleep", "select"} /\ UNCHANGED <<conf, asked, proc, late>>
  BY DEF StartFail, Pause, IInv, InHand, TypeOK
<1>2. statusBar[cur] = "claimed" /\ statusBar' = [statusBar EXCEPT ![cur] = "nostart"]
  BY <1>1 DEF statusBar
<1>3. fateBar' = fateBar /\ Requested' = Requested /\ exitBar = NULL /\ exitBar' = NULL
  BY <1>1 DEF fateBar, Requested, exitBar
<1> QED
  BY <1>1, <1>2, <1>3 DEF Contract!Refuse, Contract!Become

\* The process of t is gone, in the way c.
LEMMA DeathSeen ==
    ASSUME IInv, NEW t \in Task, Live(t), NEW c \in Code, c = "drainkill" => Requested,
           proc'[t].phase = "zombie", proc'[t].code = c,
           \A u \in Task \ {t} : proc'[u] = proc[u],
           UNCHANGED <<conf, asked, row, late>>, exitBar' = exitBar
    PROVE  Contract!Go(t, c)
<1>1. row[t] = "running" /\ proc[t].phase \notin {"none", "zombie", "reaped"}
  BY DEF IInv, TypeOK, RowAndProcess, Live, Verdict
<1>2. statusBar[t] = "started" /\ statusBar' = statusBar
  BY <1>1 DEF statusBar
<1>3. fateBar[t] = NULL /\ fateBar' = [fateBar EXCEPT ![t] = c]
  BY <1>1 DEF fateBar
<1>4. Requested' = Requested
  BY DEF Requested
<1> QED
  BY <1>2, <1>3, <1>4 DEF Contract!Go

LEMMA ChildSeen == ASSUME IInv, Child PROVE [Contract!Next]_(Contract!vars)
<1>1. PICK t \in Task : \/ SetUp(t) \/ ForkHelper(t) \/ HelperEnds(t)
                         \/ Exit(t) \/ Alarm(t)
                         \/ \E c \in {"success", "failure", "timeout"} : Finish(t, c)
                         \/ \E k \in {"signal", "oomkill"} : Killed(t, k)
  BY DEF Child
<1>2. /\ UNCHANGED <<conf, asked, row, late>> /\ exitBar' = exitBar /\ (Requested <=> Requested')
      /\ proc \in [Task -> Process]
  BY DEF Child, loop, exitBar, Requested, IInv, TypeOK
<1>3. CASE SetUp(t) \/ ForkHelper(t) \/ HelperEnds(t)
           \/ \E c \in {"success", "failure", "timeout"} : Finish(t, c)
  <2>1. \A u \in Task : \/ /\ proc'[u].phase = proc[u].phase
                            /\ proc'[u].code = proc[u].code
                         \/ /\ proc[u].phase \in {"forked", "running"}
                            /\ proc'[u].phase \in {"running", "closing"}
    BY <1>2, <1>3 DEF SetUp, ForkHelper, HelperEnds, Finish, Process
  <2>2. fateBar' = fateBar
    BY <2>1 DEF fateBar
  <2> QED
    BY <1>2, <2>1, <2>2, Unseen
<1>4. CASE Exit(t) \/ Alarm(t) \/ \E c \in {"signal", "oomkill"} : Killed(t, c)
  <2>1. PICK c \in Code : Die(t, c) /\ Live(t) /\ (c = "drainkill" => Requested)
    <3>1. CASE Exit(t)
      <4>1. proc[t].code \in Code /\ Live(t) /\ row[t] # "shutdown"
        BY <3>1 DEF Exit, Live, IInv, RowAndProcess, TypeOK, Process, Verdict
      <4>2. proc[t].code = "drainkill" => Requested
        BY <4>1 DEF IInv, DrainKills, DeadlinePassed
      <4> QED
        BY <3>1, <4>1, <4>2 DEF Exit
    <3>2. CASE Alarm(t)
      BY <3>2 DEF Alarm, Live, Code
    <3>3. CASE \E c \in {"signal", "oomkill"} : Killed(t, c)
      BY <3>3 DEF Killed, Code
    <3> QED
      BY <1>4, <3>1, <3>2, <3>3
  <2>2. /\ proc'[t].phase = "zombie" /\ proc'[t].code = c
        /\ \A u \in Task \ {t} : proc'[u] = proc[u]
    BY <1>2, <2>1 DEF Die, Process
  <2>3. Contract!Go(t, c)
    BY <1>2, <2>1, <2>2, DeathSeen
  <2> QED
    BY <2>3 DEF Contract!Next, Contract!Code, Code
<1> QED
  BY <1>1, <1>3, <1>4

LEMMA WaitSeen ==
    ASSUME IInv, Wait4 \/ Check \/ Doze
    PROVE  [Contract!Next]_(Contract!vars)
<1>1. /\ cur \in Task /\ UNCHANGED <<conf, asked, row, late>> /\ exitBar = NULL /\ exitBar' = NULL
      /\ (Requested <=> Requested') /\ proc \in [Task -> Process]
  BY DEF Wait4, Check, Doze, Goto, GoOn, IInv, InHand, TypeOK, Waiting, exitBar, Requested
<1>2. CASE Check /\ Live(cur) /\ ~killed /\ DeadlinePassed
  <2>1. /\ proc'[cur].phase = "zombie" /\ proc'[cur].code = "drainkill"
        /\ \A u \in Task \ {cur} : proc'[u] = proc[u]
    BY <1>1, <1>2 DEF Check, KillGroup, Process
  <2>2. Contract!Go(cur, "drainkill")
    BY <1>1, <1>2, <2>1, DeathSeen DEF DeadlinePassed, Code
  <2> QED
    BY <1>1, <2>2 DEF Contract!Next, Contract!Code
<1>3. CASE ~(Check /\ Live(cur) /\ ~killed /\ DeadlinePassed)
  <2>1. \A u \in Task : /\ proc'[u].code = proc[u].code
                         /\ \/ proc'[u].phase = proc[u].phase
                            \/ proc[u].phase = "zombie" /\ proc'[u].phase = "reaped"
    <3>1. CASE Check
      <4>1. proc[cur].phase \in {"forked", "running", "closing", "zombie"}
        BY <3>1 DEF Check, IInv, InHand
      <4>2. proc[cur].phase = "zombie" \/ UNCHANGED proc
        BY <1>3, <3>1, <4>1 DEF Check, Live
      <4> QED
        BY <1>1, <3>1, <4>2 DEF Check, KillGroup, Live, Process
    <3>2. CASE Wait4 \/ Doze
      BY <1>1, <3>2 DEF Wait4, Doze, Goto, GoOn, Zombie, Process
    <3> QED
      BY <3>1, <3>2
  <2>2. fateBar' = fateBar
    BY <2>1 DEF fateBar
  <2> QED
    BY <1>1, <2>1, <2>2, Unseen
<1> QED
  BY <1>2, <1>3

LEMMA RecordSeen == ASSUME IInv, IInv', Room, Record PROVE [Contract!Next]_(Contract!vars)
<1> DEFINE c == proc[cur].code
           v == Judge(c)
<1>1. /\ cur \in Task /\ row[cur] = "running" /\ proc[cur].phase = "reaped" /\ pc = "read"
      /\ c \in Code /\ UNCHANGED <<conf, asked, late>> /\ (Requested <=> Requested')
      /\ row \in [Task -> {"pending", "running"} \cup Verdict] /\ proc \in [Task -> Process]
  BY DEF Record, IInv, InHand, Waiting, RowAndProcess, TypeOK, Process, Requested
<1>2. (killed => Requested) /\ (c = "drainkill" => killed)
  BY <1>1 DEF IInv, DrainKills, DeadlinePassed, Waiting
<1>3. v \in Contract!Verdict /\ Contract!Fits(v, c) /\ v # "running"
  BY <1>1, <1>2 DEF Judge, Code, Contract!Verdict, Contract!Fits
<1> HIDE DEF v
<1>4. statusBar[cur] = "started" /\ statusBar' = [statusBar EXCEPT ![cur] = v]
  <2>1. row' = [row EXCEPT ![cur] = v] /\ \A u \in Task : proc'[u].phase = proc[u].phase
    BY <1>1 DEF Record, Process, v
  <2> QED
    BY <1>1, <1>3, <2>1 DEF statusBar
<1>5. fateBar[cur] = c /\ c # NULL /\ fateBar' = fateBar
  <2>1. \A u \in Task : proc'[u].phase = proc[u].phase /\ proc'[u].code = proc[u].code
    BY <1>1 DEF Record, Process
  <2> QED
    BY <1>1, <2>1 DEF fateBar
<1>6. exitBar' # NULL => Requested /\ Contract!InHand = {cur}
  <2> SUFFICES ASSUME exitBar' # NULL PROVE Requested /\ Contract!InHand = {cur}
    OBVIOUS
  <2>1. draining /\ todo = {}
    BY DEF Record, exitBar, Collect
  <2>2. slots = {} /\ Requested
    BY <2>1 DEF IInv, InSlots, Room
  <2> QED
    BY <1>1, <2>2, HandSets DEF Contract!InHand, Waiting
<1>7. exitBar = NULL /\ exitBar' \in {NULL, "done"} /\ Requested' = Requested
  BY <1>1 DEF Record, Collect, exitBar, Requested
<1>8. Contract!Judge(cur, v)
  BY <1>1, <1>3, <1>4, <1>5, <1>6, <1>7 DEF Contract!Judge, Contract!Become
<1> QED
  BY <1>1, <1>3, <1>8 DEF Contract!Next

LEMMA InitSupervises == Init => Contract!Init
<1> SUFFICES ASSUME Init PROVE Contract!Init
  OBVIOUS
<1>1. conf.concurrency \in Nat \ {0} /\ late = {} /\ Requested = FALSE /\ exitBar = NULL
  BY DEF Init, Requested, exitBar
<1>2. statusBar = [t \in Task |-> "pending"] /\ fateBar = [t \in Task |-> NULL]
  BY DEF Init, statusBar, fateBar, NoProcess
<1> QED
  BY <1>1, <1>2 DEF Contract!Init

LEMMA SupervisesStep ==
    ASSUME IInv, IInv', Room, [Next]_vars
    PROVE  [Contract!Next]_(Contract!vars)
<1>1. CASE Top \/ Fill \/ ClaimNothing \/ Wake \/ SelectReturns \/ Maintain \/ Clean
           \/ CleanupRaises \/ Drain
  <2>1. /\ exitBar = NULL /\ UNCHANGED <<conf, asked, row, proc, late>>
        /\ pc' = "stopped" => Requested
        /\ pc' = "raised" => pc = "clean"
    BY <1>1 DEF Top, Fill, ClaimNothing, Wake, SelectReturns, Maintain, Clean, CleanupRaises,
                Drain, Goto, GoOn, Pause, Collect, exitBar, Room
  <2> QED
    BY <2>1, LoopStep DEF Contract!Next
<1>2. CASE \E t \in Task : Claim(t)
  BY <1>2, ClaimSeen DEF Contract!Next
<1>3. CASE Fork \/ StartFail
  <2>1. cur \in Task
    BY <1>3 DEF Fork, StartFail, IInv, InHand, TypeOK
  <2> QED
    BY <1>3, <2>1, ForkSeen, StartFailSeen DEF Contract!Next
<1>4. CASE Wait4 \/ Check \/ Doze
  BY <1>4, WaitSeen
<1>5. CASE Record
  BY <1>5, RecordSeen
<1>6. CASE Child
  BY <1>6, ChildSeen
<1>7. CASE Signal
  <2>1. /\ UNCHANGED <<conf, row, proc, late>> /\ exitBar = NULL /\ exitBar' = NULL /\ Requested' = TRUE
    BY <1>7 DEF Signal, loop, exitBar, Requested
  <2>2. statusBar' = statusBar /\ fateBar' = fateBar
    BY <2>1 DEF statusBar, fateBar
  <2> QED
    BY <2>1, <2>2 DEF Contract!Next, Contract!Ask
<1>8. CASE Tick \/ UNCHANGED vars
  <2>1. /\ UNCHANGED <<conf, row, proc, late>> /\ (Requested <=> Requested') /\ exitBar' = exitBar
    BY <1>8 DEF Tick, vars, loop, exitBar, Requested, IInv, TypeOK
  <2>2. fateBar' = fateBar
    BY <2>1 DEF fateBar
  <2> QED
    BY <2>1, <2>2, Unseen
<1> QED
  BY <1>1, <1>2, <1>3, <1>4, <1>5, <1>6, <1>7, <1>8 DEF Next, Parent
-----------------------------------------------------------------------------
(* The theorems *)

\* Every variable of WorkerProcess keeps its type.
THEOREM ProcessTyped == Spec => []TypeOK
<1>1. IInv => TypeOK
  BY DEF IInv
<1> QED
  BY <1>1, Invariance, PTL

\* No child is lost: while its run is open the loop has it in hand or in a
\* slot, and a worker that stopped has recorded every run (_run_concurrent).
THEOREM ChildrenAreCollected == Spec => []Collected
<1>1. IInv => Collected
  <2> SUFFICES ASSUME IInv PROVE Collected
    OBVIOUS
  <2>1. \A t \in Task : row[t] = "running" => Held(t)
    BY DEF IInv, RowAndProcess
  <2>2. \A t \in Task : Live(t) => row[t] = "running"
    BY DEF IInv, TypeOK, RowAndProcess, Live, Verdict
  <2>3. pc = "stopped" \/ (pc = "raised" /\ Sequential) => \A t \in Task : row[t] # "running"
    BY <2>1 DEF IInv, InHand, InSlots, Held, Waiting
  <2> QED
    BY <2>1, <2>2, <2>3 DEF Collected
<1> QED
  BY <1>1, Invariance, PTL

\* The status that is recorded is the one the child ended with
\* (_wait_for_child), also when the drain kills it at that moment.
THEOREM VerdictsAreHonest == Spec => []HonestVerdict
<1>1. IInv => HonestVerdict
  BY DEF IInv
<1> QED
  BY <1>1, Invariance, PTL

\* At most one task is forked after the first signal (run_worker,
\* _run_concurrent), however many slots are free.
THEOREM OneForkIsLate == Spec => []OneLateFork
<1>1. IInv => OneLateFork
  <2> SUFFICES ASSUME IInv PROVE Cardinality(late) <= 1
    BY DEF OneLateFork
  <2>1. CASE late = {}
    BY <2>1, FS_EmptySet
  <2>2. CASE late # {}
    <3>1. PICK t : t \in late
      BY <2>2
    <3>2. late = {t}
      BY <3>1 DEF IInv, Last
    <3>3. Cardinality({t}) = 1
      BY FS_Singleton
    <3> QED
      BY <3>2, <3>3
  <2> QED
    BY <2>1, <2>2
<1> QED
  BY <1>1, Invariance, PTL

\* After the signal no child outlives the longer of the drain budget and the
\* pause of the loop by more than the loop spent in database calls and on pipes
\* that helpers kept open, unless the cleanup failed.
THEOREM ChildrenAreKilledInTime == Spec => []KilledInTime
<1>1. IInv => KilledInTime
  BY DEF IInv, InTime, Bound, KilledInTime
<1> QED
  BY <1>1, Invariance, PTL

\* The process implements Supervisor for every number of tasks and slots: its
\* children never exceed concurrency, each has one verdict, the one its exit
\* calls for, and the worker leaves a task behind only when its cleanup fails.
THEOREM WorkerSupervises == Spec => Supervises
<1>1. Init => IInv /\ Room /\ Contract!Init
  BY InitInv, InitRoom, InitSupervises
<1>2. IInv /\ Room /\ [Next]_vars => IInv' /\ Room' /\ [Contract!Next]_(Contract!vars)
  BY NextInv, RoomStep, SupervisesStep
<1> QED
  BY <1>1, <1>2, PTL DEF Spec, Supervises, Contract!Spec
=============================================================================
