---------------------------- MODULE WorkerProcess ----------------------------
(***************************************************************************)
(* The process of run_worker (src/pq/worker.py): its sequential and its    *)
(* concurrent loop, the children it forks, and its graceful shutdown.      *)
(*                                                                         *)
(* The signal handler runs between any two steps of the loop and only sets *)
(* the request and the deadline.  Everything else about the shutdown is    *)
(* the loop looking at them in time.  What the tables do with a claim or   *)
(* with a recorded end is TaskQueue's and PeriodicQueue's: here a claim    *)
(* succeeds or not, and a recorded end is the verdict the worker formed.   *)
(*                                                                         *)
(* A tick is one second, the bound of every select() of _wait_for_child.   *)
(* Timers count down.  The loop's database calls take any time: they may   *)
(* wait for row locks.  Its other steps take none.  Children and their     *)
(* helpers take any time, and a child may never end: a handler that does   *)
(* not return to the interpreter does not see its alarm.                   *)
(***************************************************************************)
EXTENDS Integers, FiniteSets

CONSTANTS
    OneOff,     \* due rows of pq_tasks
    Periodic,   \* due rows of pq_periodic
    Forks,      \* the tasks whose handler may fork a helper that keeps the pipe
    Setting,    \* the arguments of run_worker that matter
    Horizon,    \* bound: ticks counted after the first signal
    NULL

Task == OneOff \cup Periodic

\* How a child ended: its exit code or the signal.  The last two look alike
\* to wait4().
Code == {"success", "failure", "timeout", "signal", "oomkill", "drainkill"}

ASSUME TaskAssumption == OneOff \cap Periodic = {} /\ Forks \subseteq Task

ASSUME SettingAssumption ==
    Setting \subseteq [concurrency : Nat \ {0}, drain_timeout : Nat, poll_interval : Nat \ {0}]

ASSUME BoundsAssumption == Horizon \in Nat

ASSUME NullAssumption == NULL \notin Task \cup Int \cup Code \cup {"done", "failed"}

VARIABLES
    conf,      \* how run_worker was called
    asked,     \* _shutdown.signum: ticks since the first signal, NULL before
    deadline,  \* _shutdown.deadline, in ticks after the first signal
    row,       \* pending, running, or the verdict recorded for the run
    proc,      \* the child of each task, and its error pipe
    pc,        \* where the loop stands
    slots,     \* the children of the concurrent loop
    todo,      \* those it is about to collect
    cur,       \* the task in hand: claimed, or waited for
    killed,    \* killed_by_drain, of the wait in hand
    timer,     \* ticks until the sleep or select() in hand times out, 0 without one
    draining,  \* the loop is over: the children in flight are collected
    late,      \* history: the tasks forked after the first signal
    lost       \* history: ticks since the first signal in which the loop did not
               \* look at its deadline: in the database, or reading a pipe

loop == <<pc, slots, todo, cur, killed, timer, draining>>
vars == <<conf, asked, deadline, row, proc, loop, late, lost>>

Verdict == {"success", "timeout", "oom", "killed", "error", "shutdown", "nostart"}

\* `said': an error message nobody read; `helper': a process the handler forked
\* is alive, in the child's process group, and holds the pipe open.
Process == [phase : {"none", "forked", "running", "closing", "zombie", "reaped"},
            code : Code \cup {NULL}, said : BOOLEAN, helper : BOOLEAN]

NoProcess == [phase |-> "none", code |-> NULL, said |-> FALSE, helper |-> FALSE]

Live(t)     == proc[t].phase \in {"forked", "running", "closing"}
Zombie(t)   == proc[t].phase = "zombie"

\* Broken form: the parent keeps the write end, and never sees the end of the pipe.
ReadableKeptOpen(t) == proc[t].said

\* The pipe of t has a message, or its end: nobody holds the write end.
Readable(t) == proc[t].said \/ (Zombie(t) /\ ~proc[t].helper)

Sequential == conf.concurrency = 1
Requested  == asked # NULL

\* _ShutdownState.deadline_passed()
DeadlinePassed == Requested /\ asked >= deadline
-----------------------------------------------------------------------------
(* The signal handler *)

\* Broken form: every signal sets the deadline anew.
SignalRestarts ==
    /\ pc \notin {"stopped", "raised"}
    /\ asked' = IF Requested THEN asked ELSE 0
    /\ deadline' = conf.drain_timeout + asked'
    /\ UNCHANGED <<conf, row, proc, loop, late, lost>>

\* Repeat signals are ignored.
Signal ==
    /\ pc \notin {"stopped", "raised"} /\ ~Requested
    /\ asked' = 0 /\ deadline' = conf.drain_timeout
    /\ UNCHANGED <<conf, row, proc, loop, late, lost>>
-----------------------------------------------------------------------------
(* The child: _run_in_child *)

Die(t, code) == proc' = [proc EXCEPT ![t].phase = "zombie", ![t].code = code]

\* setpgrp(), default signal dispositions, the alarm.
SetUp(t) ==
    /\ proc[t].phase = "forked"
    /\ proc' = [proc EXCEPT ![t].phase = "running"]

ForkHelper(t) ==
    /\ t \in Forks /\ proc[t].phase = "running"
    /\ proc' = [proc EXCEPT ![t].helper = TRUE]

HelperEnds(t) ==
    /\ proc[t].helper
    /\ proc' = [proc EXCEPT ![t].helper = FALSE]

\* The handler and the hooks are over; the message of an exception is sent
\* before the child closes its pools and exits.
Finish(t, code) ==
    /\ proc[t].phase = "running"
    /\ proc' = [proc EXCEPT ![t].phase = "closing", ![t].code = code,
                            ![t].said = code = "failure"]

Exit(t) == proc[t].phase = "closing" /\ Die(t, proc[t].code)

\* The alarm is armed until the process is gone.
Alarm(t) == proc[t].phase \in {"running", "closing"} /\ Die(t, "timeout")

\* By the kernel or an operator, at any point.
Killed(t, code) == Live(t) /\ Die(t, code)

Child == /\ \E t \in Task : \/ SetUp(t) \/ ForkHelper(t) \/ HelperEnds(t)
                            \/ Exit(t) \/ Alarm(t)
                            \/ \E c \in {"success", "failure", "timeout"} : Finish(t, c)
                            \/ \E c \in {"signal", "oomkill"} : Killed(t, c)
         /\ UNCHANGED <<conf, asked, deadline, row, loop, late, lost>>
-----------------------------------------------------------------------------
(* The loops: claim and fork *)

Goto(to) == pc' = to /\ UNCHANGED <<slots, todo, cur, killed, timer, draining>>

\* To sleep, or to wait for a pipe, for at most poll_interval.
Pause == /\ pc' = IF slots = {} THEN "sleep" ELSE "select"
         /\ timer' = conf.poll_interval

\* The pause is over, early or not.
GoOn(to) == pc' = to /\ timer' = 0 /\ UNCHANGED <<slots, todo, cur, killed, draining>>

Top ==
    /\ pc = "top"
    /\ Goto(IF Requested THEN (IF Sequential THEN "stopped" ELSE "drain")
            ELSE (IF Sequential THEN "oneoff" ELSE "fill"))
    /\ UNCHANGED <<conf, asked, deadline, row, proc, late, lost>>

\* Broken form: slots are filled whether or not a shutdown was requested.
FillAnyway ==
    /\ pc = "fill"
    /\ IF Cardinality(slots) < conf.concurrency
       THEN Goto("oneoff")
       ELSE Pause /\ UNCHANGED <<slots, todo, cur, killed, draining>>
    /\ UNCHANGED <<conf, asked, deadline, row, proc, late, lost>>

Fill ==
    /\ pc = "fill"
    /\ IF Cardinality(slots) < conf.concurrency /\ ~Requested
       THEN Goto("oneoff")
       ELSE Pause /\ UNCHANGED <<slots, todo, cur, killed, draining>>
    /\ UNCHANGED <<conf, asked, deadline, row, proc, late, lost>>

\* One-off tasks first, then periodic ones.
Claim(t) ==
    /\ \/ pc = "oneoff" /\ t \in OneOff
       \/ pc = "periodic" /\ t \in Periodic
    /\ row[t] = "pending"
    /\ row' = [row EXCEPT ![t] = "running"]
    /\ cur' = t /\ pc' = "start"
    /\ UNCHANGED <<conf, asked, deadline, proc, slots, todo, killed, timer, draining, late, lost>>

\* Nothing is due, other workers have it, or the transaction failed.
ClaimNothing ==
    /\ \/ pc = "oneoff" /\ Goto("periodic")
       \/ pc = "periodic" /\ Sequential /\ Goto("maintain")
       \/ /\ pc = "periodic" /\ ~Sequential
          /\ Pause /\ UNCHANGED <<slots, todo, cur, killed, draining>>
    /\ UNCHANGED <<conf, asked, deadline, row, proc, late, lost>>

Fork ==
    /\ pc = "start"
    /\ proc' = [proc EXCEPT ![cur].phase = "forked"]
    /\ late' = IF Requested THEN late \cup {cur} ELSE late
    /\ IF Sequential
       THEN pc' = "wait" /\ killed' = FALSE /\ UNCHANGED <<slots, cur>>
       ELSE pc' = "fill" /\ slots' = slots \cup {cur} /\ cur' = NULL /\ UNCHANGED killed
    /\ UNCHANGED <<conf, asked, deadline, row, todo, timer, draining, lost>>

\* The handler, its arguments or the fork fail.  The concurrent loop takes a
\* one-off task that did not start for none, and tries a periodic one.
StartFail ==
    /\ pc = "start"
    /\ row' = [row EXCEPT ![cur] = "nostart"]
    /\ cur' = NULL
    /\ \/ Sequential /\ pc' = "top" /\ UNCHANGED timer
       \/ ~Sequential /\ cur \in OneOff /\ pc' = "periodic" /\ UNCHANGED timer
       \/ ~Sequential /\ cur \in Periodic /\ Pause
    /\ UNCHANGED <<conf, asked, deadline, proc, slots, todo, killed, draining, late, lost>>
-----------------------------------------------------------------------------
(* The loops: pauses and maintenance *)

\* _interruptible_sleep
Wake ==
    /\ pc = "sleep" /\ (Requested \/ timer = 0)
    /\ GoOn(IF Sequential THEN "top" ELSE "maintain")
    /\ UNCHANGED <<conf, asked, deadline, row, proc, late, lost>>

\* Take the next of the children ts, in any order, and wait for it.
Collect(ts) == \E t \in ts :
    /\ cur' = t /\ todo' = ts \ {t} /\ slots' = slots \ {t}
    /\ pc' = "wait" /\ killed' = FALSE

Ready == {t \in slots : Readable(t)}

\* select() on the pipes: not woken by a signal, whose handler does not raise.
SelectReturns ==
    /\ pc = "select" /\ (Ready # {} \/ timer = 0)
    /\ IF Ready # {}
       THEN Collect(Ready) /\ timer' = 0 /\ UNCHANGED draining
       ELSE GoOn("maintain")
    /\ UNCHANGED <<conf, asked, deadline, row, proc, late, lost>>

\* Broken form: the concurrent loop ends like the sequential one, without a drain.
MaintainStops ==
    /\ pc = "maintain"
    /\ Goto(IF ~Requested THEN "clean" ELSE "stopped")
    /\ UNCHANGED <<conf, asked, deadline, row, proc, late, lost>>

Maintain ==
    /\ pc = "maintain"
    /\ Goto(IF ~Requested THEN "clean" ELSE IF Sequential THEN "stopped" ELSE "drain")
    /\ UNCHANGED <<conf, asked, deadline, row, proc, late, lost>>

\* Retention cleanup and reaper, each when its interval has passed.
Clean ==
    /\ pc = "clean"
    /\ IF Sequential THEN Pause /\ UNCHANGED <<slots, todo, cur, killed, draining>>
       ELSE Goto("top")
    /\ UNCHANGED <<conf, asked, deadline, row, proc, late, lost>>

\* A database error of the cleanup is not caught: it ends run_worker.
CleanupRaises ==
    /\ pc = "clean"
    /\ Goto("raised")
    /\ UNCHANGED <<conf, asked, deadline, row, proc, late, lost>>

Drain ==
    /\ pc = "drain"
    /\ draining' = TRUE
    /\ IF slots = {} THEN pc' = "stopped" /\ UNCHANGED <<slots, todo, cur, killed>>
       ELSE Collect(slots)
    /\ UNCHANGED <<conf, asked, deadline, row, proc, timer, late, lost>>
-----------------------------------------------------------------------------
(* _wait_for_child and what follows it *)

Wait4 ==
    /\ pc = "wait"
    /\ IF Zombie(cur)
       THEN proc' = [proc EXCEPT ![cur].phase = "reaped"] /\ Goto("read")
       ELSE Goto("check") /\ UNCHANGED proc
    /\ UNCHANGED <<conf, asked, deadline, row, late, lost>>

\* Broken form: only the group is killed, which does not exist before setpgrp().
KillGroupOnly(t) ==
    IF proc[t].phase = "forked" THEN UNCHANGED proc
    ELSE proc' = [proc EXCEPT ![t].phase = "zombie", ![t].helper = FALSE,
                              ![t].code = IF Live(t) THEN "drainkill" ELSE @]

\* SIGKILL for the group, or for the child that has no group yet.  A child
\* that exited already keeps its status.
KillGroup(t) ==
    proc' = [proc EXCEPT ![t].phase = "zombie", ![t].helper = FALSE,
                         ![t].code = IF Live(t) THEN "drainkill" ELSE @]

\* Broken form: the time left is negative once the deadline has passed.
NapSigned == IF ~Requested \/ deadline - asked > 1 THEN 1 ELSE deadline - asked

\* The timeout of the select(): a second, or what is left of the drain.
Nap == IF ~Requested \/ deadline - asked > 1 THEN 1
       ELSE IF deadline > asked THEN deadline - asked ELSE 0

Check ==
    /\ pc = "check"
    /\ IF ~killed /\ DeadlinePassed THEN KillGroup(cur) /\ killed' = TRUE
       ELSE UNCHANGED <<proc, killed>>
    /\ timer' = Nap /\ pc' = "doze"
    /\ UNCHANGED <<conf, asked, deadline, row, slots, todo, cur, draining, late, lost>>

Doze ==
    /\ pc = "doze" /\ (Readable(cur) \/ timer = 0)
    /\ proc' = [proc EXCEPT ![cur].said = FALSE]
    /\ GoOn("wait")
    /\ UNCHANGED <<conf, asked, deadline, row, late, lost>>

\* Broken form: whoever was killed by the drain was interrupted by it.
JudgeByKill(code) ==
    IF killed THEN "shutdown"
    ELSE CASE code \in {"oomkill", "drainkill"} -> "oom"
           [] code = "signal"  -> "killed"
           [] code = "failure" -> "error"
           [] OTHER            -> code

\* From the status of wait4() to the verdict.
Judge(code) ==
    CASE code \in {"oomkill", "drainkill"} -> IF killed THEN "shutdown" ELSE "oom"
      [] code = "signal"  -> "killed"
      [] code = "failure" -> "error"
      [] OTHER            -> code

\* Broken form: the children that were ready with this one are forgotten.
RecordForgets ==
    /\ pc = "read" /\ ~proc[cur].helper
    /\ row' = [row EXCEPT ![cur] = Judge(proc[cur].code)]
    /\ proc' = [proc EXCEPT ![cur].said = FALSE]
    /\ cur' = NULL /\ todo' = {} /\ killed' = FALSE
    /\ pc' = IF Sequential THEN "top" ELSE IF draining THEN "stopped" ELSE "maintain"
    /\ UNCHANGED <<conf, asked, deadline, slots, timer, draining, late, lost>>

\* The pipe is read to its end, which comes when nobody holds it open; then
\* the end of the run is recorded and the next child is taken in hand.
Record ==
    /\ pc = "read" /\ ~proc[cur].helper
    /\ row' = [row EXCEPT ![cur] = Judge(proc[cur].code)]
    /\ proc' = [proc EXCEPT ![cur].said = FALSE]
    /\ IF todo # {} THEN Collect(todo)
       ELSE /\ cur' = NULL /\ killed' = FALSE
            /\ pc' = IF Sequential THEN "top" ELSE IF draining THEN "stopped" ELSE "maintain"
            /\ UNCHANGED <<slots, todo>>
    /\ UNCHANGED <<conf, asked, deadline, timer, draining, late, lost>>
-----------------------------------------------------------------------------
(* Time, and the whole process *)

\* The loop is in a database call: a claim, the end of a claim that did not
\* start, the cleanup or the reaper, or (once the pipe is read) the end of a run.
InDatabase == pc \in {"oneoff", "periodic", "start", "clean"} \/ (pc = "read" /\ ~proc[cur].helper)

\* The loop is not ready to go on, or its database call may last.
Blocked == \/ InDatabase
           \/ pc = "sleep"  /\ timer > 0 /\ ~Requested
           \/ pc = "select" /\ timer > 0 /\ Ready = {}
           \/ pc = "doze"   /\ timer > 0 /\ ~Readable(cur)
           \/ pc = "read"   /\ proc[cur].helper

Tick ==
    /\ Blocked
    /\ timer' = IF timer > 0 THEN timer - 1 ELSE 0
    /\ asked' = IF Requested /\ asked < Horizon THEN asked + 1 ELSE asked
    /\ lost' = IF Requested /\ asked < Horizon /\ (InDatabase \/ pc = "read") THEN lost + 1 ELSE lost
    /\ UNCHANGED <<conf, deadline, row, proc, pc, slots, todo, cur, killed, draining, late>>

Init ==
    /\ conf \in Setting
    /\ asked = NULL /\ deadline = NULL
    /\ row = [t \in Task |-> "pending"]
    /\ proc = [t \in Task |-> NoProcess]
    /\ pc = "top" /\ slots = {} /\ todo = {} /\ cur = NULL
    /\ killed = FALSE /\ timer = 0 /\ draining = FALSE
    /\ late = {} /\ lost = 0

Parent == \/ Top \/ Fill \/ ClaimNothing \/ Fork \/ StartFail
          \/ \E t \in Task : Claim(t)
          \/ Wake \/ SelectReturns \/ Maintain \/ Clean \/ CleanupRaises \/ Drain
          \/ Wait4 \/ Check \/ Doze \/ Record

Next == Parent \/ Child \/ Signal \/ Tick

Spec == Init /\ [][Next]_vars

\* The loop goes on, its database calls included (whoever holds a row lock ends
\* or is ended), and time passes; a child whose handler is over exits, at the
\* latest by its alarm.  Nothing is assumed of handlers and helpers.
LiveSpec == /\ Spec
            /\ WF_vars(Parent) /\ WF_vars(Tick)
            /\ \A t \in Task : WF_vars((Exit(t) \/ Alarm(t))
                                       /\ proc[t].phase = "closing"
                                       /\ UNCHANGED <<conf, asked, deadline, row, loop, late, lost>>)
-----------------------------------------------------------------------------
(* Properties *)

\* The type of every variable.
TypeOK ==
    /\ conf \in Setting
    /\ asked \in 0 .. Horizon \cup {NULL} /\ deadline \in Nat \cup {NULL}
    /\ row \in [Task -> {"pending", "running"} \cup Verdict]
    /\ proc \in [Task -> Process]
    /\ pc \in {"top", "fill", "oneoff", "periodic", "start", "sleep", "select", "maintain",
               "clean", "drain", "wait", "check", "doze", "read", "stopped", "raised"}
    /\ slots \subseteq Task /\ todo \subseteq Task
    /\ cur \in Task \cup {NULL}
    /\ killed \in BOOLEAN /\ draining \in BOOLEAN
    /\ timer \in Nat
    /\ late \in SUBSET Task /\ lost \in Nat

Held(t) == t = cur \/ t \in slots

\* Every child is watched: while its run is open its task is in hand or in a
\* slot, and when the worker has stopped no child lives and every claimed run
\* has its verdict (_run_concurrent, run_worker: "waits ... for in-flight
\* tasks to finish").  Only the concurrent loop, by an error of its cleanup,
\* leaves children behind.
Collected ==
    /\ \A t \in Task : row[t] = "running" => Held(t)
    /\ \A t \in Task : Live(t) => row[t] = "running"
    /\ pc = "stopped" \/ (pc = "raised" /\ Sequential) => \A t \in Task : row[t] # "running"

\* COMPLETED is recorded of a child that exited with 0 and of no other, even
\* when the drain kills it at that moment; "shutdown" is said of a killed child
\* after the deadline, and a child the drain killed is never taken for one
\* that ran out of memory (_wait_for_child).
HonestVerdict == \A t \in Task :
    /\ row[t] \in Verdict \ {"nostart"} =>
         (row[t] = "success" <=> proc[t].code = "success")
    /\ row[t] = "shutdown" => DeadlinePassed /\ proc[t].code \in {"oomkill", "drainkill"}
    /\ proc[t].code = "drainkill" /\ row[t] # "running" => row[t] = "shutdown"

\* "stops claiming new tasks": a signal may find a claim under way, but one at most
\* is forked after it.
OneLateFork == Cardinality(late) <= 1

\* The helper of a child that exited keeps the loop from going on.
Stuck == pc = "read" /\ proc[cur].helper

LongestPause == IF Sequential \/ conf.poll_interval < 1 THEN 1 ELSE conf.poll_interval

\* A child lives on after the drain budget ("waits up to drain_timeout seconds
\* ... then SIGKILLs", run_worker) only until the pause the signal found the
\* loop in is over, and as much longer as the loop spent in database calls and
\* on a pipe that a helper held; unless a cleanup error left it.
KilledInTime == \A t \in Task :
    Live(t) /\ Requested /\ pc # "raised" =>
        asked <= lost + (IF conf.drain_timeout > LongestPause THEN conf.drain_timeout ELSE LongestPause)

\* After a signal the worker stops, whatever its handlers do, even if none of
\* them ever ends, unless a helper keeps a pipe open.
Stops == Requested ~> (pc \in {"stopped", "raised"} \/ Stuck)

\* A child that exited is collected, however long its siblings run.
Reaped == \A t \in Task :
    (Zombie(t) /\ ~proc[t].helper) ~> (proc[t].phase = "reaped" \/ Stuck \/ pc = "raised")
-----------------------------------------------------------------------------
(* The promise of Supervisor, read off the rows and the processes. *)

statusBar == [t \in Task |-> IF row[t] # "running" THEN row[t]
                             ELSE IF proc[t].phase = "none" THEN "claimed" ELSE "started"]

fateBar == [t \in Task |-> IF proc[t].phase \in {"zombie", "reaped"} THEN proc[t].code ELSE NULL]

exitBar == CASE pc = "stopped" -> "done" [] pc = "raised" -> "failed" [] OTHER -> NULL

Contract == INSTANCE Supervisor
            WITH limit <- conf.concurrency, status <- statusBar, fate <- fateBar,
                 asked <- Requested, spent <- late # {}, gone <- exitBar

\* The worker keeps the promise of Supervisor: never more children than
\* concurrency, each judged once and by its exit, one late start at most, and
\* no exit with a task in hand but by an error of the concurrent loop's
\* cleanup (run_worker, _run_concurrent, _wait_for_child).
Supervises == Contract!Spec
=============================================================================
