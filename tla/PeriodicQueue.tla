---------------------------- MODULE PeriodicQueue ----------------------------
(***************************************************************************)
(* The periodic schedules of pq: the rows of the table pq_periodic, the    *)
(* clients that schedule and unschedule them (src/pq/client.py), and the   *)
(* workers that claim a due one, advance it, run it in a forked child and  *)
(* clear its lock (src/pq/worker.py).  Overlap is meant to be prevented by *)
(* locked_until, a lease in the row that the claim takes and the end of    *)
(* the run clears.                                                         *)
(*                                                                         *)
(* `ver' stands for what one schedule() call stores as name, payload and   *)
(* arguments; client_id and last_run, which no decision reads, are left    *)
(* out.  Time is the clock of the database, in ticks.                      *)
(***************************************************************************)
EXTENDS Integers, FiniteSets, Sequences

CONSTANTS
    Worker,         \* the worker processes
    Key,            \* the unique pairs (name, key)
    Option,         \* what a schedule() call may ask for
    Serves,         \* per worker: the priorities it claims
    Skew,           \* per worker: its clock minus the clock of the database
    Lag,            \* what a client read on its clock, minus the clock of the
                    \* database when the client's row is written
    Concurrency,    \* per worker: run_worker(concurrency=...)
    MaxRuntime,     \* the workers' default for max_runtime
    DefaultLock,    \* the lease when max_runtime is 0: 3600 s
    StartDelay,     \* bound: ticks from the start of a claim to the fork
    MaxCalls,       \* bound: schedule() calls
    MaxTime,        \* bound: the clock
    MaxFaults,      \* bound: worker crashes and database errors
    NULL

Call == 1 .. MaxCalls

ASSUME BoundsAssumption ==
    /\ {MaxCalls, DefaultLock} \subseteq Nat \ {0}
    /\ {MaxFaults, StartDelay, MaxRuntime, MaxTime} \subseteq Nat

\* Exactly one of run_every and cron; max_concurrent is 1 or None.
ASSUME OptionAssumption ==
    Option \subseteq [run_every : Nat, cron : Nat, priority : Int, active : BOOLEAN,
                      max_concurrent : {1, NULL}, max_runtime : Nat \cup {NULL}]
    /\ \A o \in Option : (o.run_every = 0) # (o.cron = 0)

ASSUME WorkerAssumption ==
    /\ Concurrency \in [Worker -> Nat \ {0}]
    /\ Serves \in [Worker -> SUBSET Int]
    /\ Skew \in [Worker -> Int]

ASSUME ClientAssumption == Lag \subseteq Int

ASSUME NullAssumption == NULL \notin Int /\ NULL \notin Worker

VARIABLES
    now,      \* the clock of the database
    row,      \* pq_periodic: the row of each key, or Absent
    nextVer,  \* the number the next schedule() call gets
    run,      \* every claim that committed, in commit order
    pc,       \* where each worker stands in its loop
    tx,       \* the row each worker's claim has locked, as it read it, or NULL
    since,    \* now() of the claim in hand, NULL without one
    faults    \* crashes and database errors so far

loop == <<pc, tx, since>>
vars == <<now, row, nextVer, run, loop, faults>>

Time == Int \cup {NULL}

\* `id' is the number of the call that inserted the row.
Row == [id : Call \cup {NULL}, ver : Call \cup {NULL}, opt : Option \cup {NULL},
        next_run : Time, locked_until : Time]

Absent == [id |-> NULL, ver |-> NULL, opt |-> NULL, next_run |-> NULL, locked_until |-> NULL]

ASSUME RowAssumption == NULL \notin Row

Run == [id : Call, ver : Call, limit : Nat,
        due : Int,                      \* the next_run it was claimed for
        claimed : Int, at : Int,        \* when the claim began; when the child was forked
        until : Time,                   \* its lease, NULL without max_concurrent
        late : BOOLEAN,                 \* history: it was not over when its lease ran out
        parent : Worker \cup {NULL},
        phase : {"claimed", "running", "exited", "over"}]

Runs     == DOMAIN run
Mine(w)  == {r \in Runs : run[r].parent = w}
Alive(r) == run[r].phase = "running"

Locks(k) == \E w \in Worker : tx[w] # NULL /\ tx[w].id = row[k].id

\* The first instant of the cron expression after t.
NextInstant(period, t) == t - (t % period) + period

\* schedule() starts an interval at once, cron at the next instant, both by the
\* client's clock.
FirstRun(o, t) == IF o.cron # 0 THEN NextInstant(o.cron, t) ELSE t

Effective(o) == IF o.max_runtime = NULL THEN MaxRuntime ELSE o.max_runtime
Lease(o)     == IF Effective(o) > 0 THEN Effective(o) ELSE DefaultLock

\* signal.alarm(int(max_runtime) + 1), set in the child right after the fork.
Deadline(r) == run[r].at + run[r].limit + 1
-----------------------------------------------------------------------------
(* Clients *)

\* Broken form: the tick of the schedule that is replaced stays.
ScheduleKeepsTick(k, o, lag) ==
    /\ nextVer \in Call
    /\ ~Locks(k)
    /\ row' = [row EXCEPT ![k] =
                 [id |-> IF @ = Absent THEN nextVer ELSE @.id, ver |-> nextVer, opt |-> o,
                  next_run |-> IF @ = Absent THEN FirstRun(o, now + lag) ELSE @.next_run,
                  locked_until |-> @.locked_until]]
    /\ nextVer' = nextVer + 1
    /\ UNCHANGED <<now, run, loop, faults>>

\* INSERT ... ON CONFLICT (name, key) DO UPDATE, which keeps id and locked_until.
\* next_run is a parameter of the statement: the client read its clock before,
\* and the statement may have waited since, for a claim that fired that instant.
Schedule(k, o, lag) ==
    /\ nextVer \in Call
    /\ ~Locks(k)
    /\ row' = [row EXCEPT ![k] =
                 [id |-> IF @ = Absent THEN nextVer ELSE @.id, ver |-> nextVer, opt |-> o,
                  next_run |-> FirstRun(o, now + lag), locked_until |-> @.locked_until]]
    /\ nextVer' = nextVer + 1
    /\ UNCHANGED <<now, run, loop, faults>>

\* unschedule(), and clear_all() for every key.
Remove(K) ==
    /\ \A k \in K : row[k] # Absent /\ ~Locks(k)
    /\ row' = [k \in Key |-> IF k \in K THEN Absent ELSE row[k]]
    /\ UNCHANGED <<now, nextVer, run, loop, faults>>

Unschedule(k) == Remove({k})
ClearAll      == Remove({k \in Key : row[k] # Absent})
-----------------------------------------------------------------------------
(* Workers *)

Goto(w, to) == pc' = [pc EXCEPT ![w] = to]
Hold(w, seen, at) == tx' = [tx EXCEPT ![w] = seen] /\ since' = [since EXCEPT ![w] = at]
Fault == faults < MaxFaults /\ faults' = faults + 1

HasSlot(w) == Cardinality(Mine(w)) < Concurrency[w]

\* Broken form: the claim query does not look at locked_until.
DueLocked(w) == {k \in Key :
    /\ row[k] # Absent /\ ~Locks(k)
    /\ row[k].opt.active /\ row[k].opt.priority \in Serves[w]
    /\ row[k].next_run <= now}

\* Broken form: a lease never runs out.
DueForever(w) == {k \in Key :
    /\ row[k] # Absent /\ ~Locks(k)
    /\ row[k].opt.active /\ row[k].opt.priority \in Serves[w]
    /\ row[k].next_run <= now
    /\ row[k].opt.max_concurrent = NULL \/ row[k].locked_until = NULL}

Due(w) == {k \in Key :
    /\ row[k] # Absent /\ ~Locks(k)
    /\ row[k].opt.active /\ row[k].opt.priority \in Serves[w]
    /\ row[k].next_run <= now
    /\ \/ row[k].opt.max_concurrent = NULL
       \/ row[k].locked_until = NULL
       \/ row[k].locked_until <= now}

\* ORDER BY priority DESC, next_run
NoLater(j, k) == \/ row[j].opt.priority > row[k].opt.priority
                 \/ /\ row[j].opt.priority = row[k].opt.priority
                    /\ row[j].next_run <= row[k].next_run

AfterNoClaim(w) == IF Concurrency[w] = 1 THEN "poll" ELSE "select"

ClaimSelect(w) ==
    /\ pc[w] = "poll" /\ HasSlot(w)
    /\ \E k \in Due(w) : (\A j \in Due(w) : NoLater(k, j)) /\ Hold(w, row[k], now)
    /\ Goto(w, "claim")
    /\ UNCHANGED <<now, row, nextVer, run, faults>>

\* No slot or nothing due; the sequential loop sleeps and polls again.
PollEmpty(w) ==
    /\ pc[w] = "poll"
    /\ HasSlot(w) => Due(w) = {}
    /\ Goto(w, AfterNoClaim(w))
    /\ UNCHANGED <<now, row, nextVer, run, tx, since, faults>>

\* Broken form: the schedule is advanced from the tick that was missed.
AdvancedFromDue(w, o) == IF o.cron # 0 THEN NextInstant(o.cron, tx[w].next_run)
                         ELSE tx[w].next_run + o.run_every

\* run_every counts from the database's clock, cron from the worker's.
Advanced(w, o) == IF o.cron # 0 THEN NextInstant(o.cron, since[w] + Skew[w])
                  ELSE since[w] + o.run_every

LeaseEnd(w, o) == IF o.max_concurrent = NULL THEN NULL ELSE since[w] + Lease(o)

RanOut(until, t) == until # NULL /\ until <= t

\* The lease is taken and the schedule advanced before the handler runs.
Advance(w) ==
    LET seen == tx[w]
    IN  row' = [k \in Key |->
                  IF row[k].id # seen.id THEN row[k]
                  ELSE [row[k] EXCEPT !.next_run = Advanced(w, seen.opt),
                                      !.locked_until = IF seen.opt.max_concurrent = NULL
                                                       THEN @ ELSE LeaseEnd(w, seen.opt)]]

Claimed(w) ==
    LET seen == tx[w]
    IN  [id |-> seen.id, ver |-> seen.ver, limit |-> Effective(seen.opt),
         due |-> seen.next_run, claimed |-> since[w], at |-> since[w],
         until |-> LeaseEnd(w, seen.opt), late |-> RanOut(LeaseEnd(w, seen.opt), now),
         parent |-> w, phase |-> "claimed"]

ClaimCommit(w) ==
    /\ pc[w] = "claim"
    /\ Advance(w)
    /\ run' = Append(run, Claimed(w))
    /\ Hold(w, NULL, since[w]) /\ Goto(w, "start")
    /\ UNCHANGED <<now, nextVer, faults>>

ClaimAbort(w) ==
    /\ pc[w] = "claim" /\ Fault
    /\ Hold(w, NULL, NULL) /\ Goto(w, AfterNoClaim(w))
    /\ UNCHANGED <<now, row, nextVer, run>>

\* The claim committed but its answer was lost: nobody runs it or clears its lease.
ClaimLost(w) ==
    /\ pc[w] = "claim" /\ Fault
    /\ Advance(w)
    /\ run' = Append(run, [Claimed(w) EXCEPT !.parent = NULL, !.phase = "over"])
    /\ Hold(w, NULL, NULL) /\ Goto(w, AfterNoClaim(w))
    /\ UNCHANGED <<now, nextVer>>

Fork(w, r) ==
    /\ pc[w] = "start" /\ r \in Mine(w) /\ run[r].phase = "claimed"
    /\ run' = [run EXCEPT ![r].phase = "running", ![r].at = now]
    /\ Hold(w, NULL, NULL) /\ Goto(w, IF Concurrency[w] = 1 THEN "select" ELSE "poll")
    /\ UNCHANGED <<now, row, nextVer, faults>>

\* Broken form: the failed start leaves the claim in hand.
StartFailHeld(w, r) ==
    /\ pc[w] = "start" /\ r \in Mine(w) /\ run[r].phase = "claimed"
    /\ run' = [run EXCEPT ![r].phase = "exited"]
    /\ Goto(w, "failed")
    /\ UNCHANGED <<now, row, nextVer, tx, since, faults>>

\* The handler cannot be imported, its arguments cannot be read, or fork()
\* fails; the worker clears the lease before anything else.
StartFail(w, r) ==
    /\ pc[w] = "start" /\ r \in Mine(w) /\ run[r].phase = "claimed"
    /\ run' = [run EXCEPT ![r].phase = "exited"]
    /\ Hold(w, NULL, NULL) /\ Goto(w, "failed")
    /\ UNCHANGED <<now, row, nextVer, faults>>

ChildExit(r) ==
    /\ Alive(r)
    /\ run' = [run EXCEPT ![r].phase = IF run[r].parent = NULL THEN "over" ELSE "exited"]
    /\ UNCHANGED <<now, row, nextVer, loop, faults>>

Over(r)   == run' = [run EXCEPT ![r].phase = "over", ![r].parent = NULL]
AfterRun(w) == IF Concurrency[w] = 1 THEN {"poll"} ELSE {"select", "poll"}

\* The runs whose lease worker w may clear now: those whose pipe select() found
\* closed, or the claim, its newest, that failed to start.
Ended(w) == {r \in Mine(w) : /\ run[r].phase = "exited"
                             /\ \/ pc[w] = "select"
                                \/ pc[w] = "failed" /\ \A s \in Mine(w) : s <= r}

\* UPDATE ... SET locked_until = NULL WHERE id = ..., whoever took the lease.
Unlock(w, r) ==
    /\ r \in Ended(w)
    /\ IF run[r].until = NULL THEN UNCHANGED row
       ELSE /\ \A k \in Key : row[k].id = run[r].id => ~Locks(k)
            /\ row' = [k \in Key |-> IF row[k].id # run[r].id THEN row[k]
                                     ELSE [row[k] EXCEPT !.locked_until = NULL]]
    /\ Over(r) /\ \E to \in AfterRun(w) : Goto(w, to)
    /\ UNCHANGED <<now, nextVer, tx, since, faults>>

\* A database error is logged; the lease stays until it runs out.
UnlockFail(w, r) ==
    /\ r \in Ended(w) /\ Fault
    /\ run[r].until # NULL
    /\ Over(r) /\ \E to \in AfterRun(w) : Goto(w, to)
    /\ UNCHANGED <<now, row, nextVer, tx, since>>

SelectTimeout(w) ==
    /\ pc[w] = "select" /\ Concurrency[w] > 1
    /\ \A r \in Mine(w) : run[r].phase # "exited"
    /\ Goto(w, "poll")
    /\ UNCHANGED <<now, row, nextVer, run, tx, since, faults>>
-----------------------------------------------------------------------------
(* Crashes, time, and the whole system *)

\* The worker is killed and started again: what it claimed is never forked, its
\* leases stay, and its children run on unwatched.  They inherited the sockets of
\* its pool, so a claim that is open may outlive it.
Crash(w) ==
    /\ pc[w] # "down" /\ Fault
    /\ run' = [r \in Runs |->
                 IF run[r].parent # w THEN run[r]
                 ELSE [run[r] EXCEPT !.parent = NULL,
                                     !.phase = IF @ = "running" THEN @ ELSE "over"]]
    /\ Hold(w, tx[w], NULL) /\ Goto(w, IF tx[w] = NULL THEN "poll" ELSE "down")
    /\ UNCHANGED <<now, row, nextVer>>

\* The last process that holds the socket is gone: the claim rolls back.
SessionEnds(w) ==
    /\ pc[w] = "down"
    /\ Hold(w, NULL, NULL) /\ Goto(w, "poll")
    /\ UNCHANGED <<now, row, nextVer, run, faults>>

\* Time does not pass the alarm of a child that runs, nor StartDelay in a claim.
Tick ==
    /\ now < MaxTime
    /\ \A r \in Runs : Alive(r) => now < Deadline(r)
    /\ \A w \in Worker : pc[w] \in {"claim", "start"} => now < since[w] + StartDelay
    /\ now' = now + 1
    /\ run' = [r \in Runs |-> [run[r] EXCEPT !.late = @ \/ (/\ run[r].phase # "over"
                                                           /\ RanOut(run[r].until, now'))]]
    /\ UNCHANGED <<row, nextVer, loop, faults>>

Init ==
    /\ now = 0
    /\ row = [k \in Key |-> Absent]
    /\ nextVer = 1
    /\ run = << >>
    /\ pc = [w \in Worker |-> "poll"]
    /\ tx = [w \in Worker |-> NULL]
    /\ since = [w \in Worker |-> NULL]
    /\ faults = 0

Work(w) == \/ ClaimSelect(w) \/ PollEmpty(w) \/ ClaimCommit(w) \/ SelectTimeout(w)
           \/ \E r \in Runs : Fork(w, r) \/ StartFail(w, r) \/ Unlock(w, r)

Break(w) == \/ ClaimAbort(w) \/ ClaimLost(w) \/ Crash(w) \/ SessionEnds(w)
            \/ \E r \in Runs : UnlockFail(w, r)

Exit == \E r \in Runs : ChildExit(r)

Next == \/ \E k \in Key, o \in Option, lag \in Lag : Schedule(k, o, lag)
        \/ \E k \in Key : Unschedule(k)
        \/ ClearAll /\ row # [k \in Key |-> Absent]
        \/ Exit \/ Tick
        \/ \E w \in Worker : Work(w) \/ Break(w)

Spec == Init /\ [][Next]_vars

\* A worker's loop goes on, a child returns or meets its alarm and takes its
\* sockets with it, time passes.
LiveSpec == /\ Spec
            /\ \A w \in Worker : WF_vars(Work(w) \/ SessionEnds(w))
            /\ WF_vars(Exit) /\ WF_vars(Tick)
-----------------------------------------------------------------------------
(* Properties *)

\* The type of every variable; a row is locked exactly while a claim or its
\* session is open, and a worker has a claim in hand exactly until it forks.
TypeOK ==
    /\ now \in 0 .. MaxTime
    /\ row \in [Key -> Row]
    /\ nextVer \in 1 .. MaxCalls + 1
    /\ run \in Seq(Run)
    /\ pc \in [Worker -> {"poll", "claim", "start", "failed", "select", "down"}]
    /\ tx \in [Worker -> Row \cup {NULL}]
    /\ since \in [Worker -> Time]
    /\ \A w \in Worker : /\ tx[w] # NULL <=> pc[w] \in {"claim", "down"}
                         /\ since[w] # NULL <=> pc[w] \in {"claim", "start"}
    /\ faults \in 0 .. MaxFaults

\* Between two schedule() calls each tick of a schedule fires at most once,
\* and ticks that passed before a claim are skipped, never made up (the
\* schedule is advanced from now(), in the transaction that claims it).
TicksSkipped == \A r, s \in Runs :
    r < s /\ run[r].ver = run[s].ver => /\ run[r].claimed < run[s].due
                                        /\ run[s].due <= run[s].claimed

Overlapping(r, s) == r # s /\ Alive(r) /\ Alive(s) /\ run[r].id = run[s].id

\* max_concurrent=1: "if an instance is still running when the next tick
\* arrives, the tick is skipped" (README).
NoOverlap == \A r, s \in Runs :
    Overlapping(r, s) => run[r].until = NULL \/ run[s].until = NULL

\* What the lease does give: two leased runs of a schedule overlap only after
\* some run of it outlived its lease before its worker cleared it.
OverlapNeedsOverrun == \A r, s \in Runs :
    Overlapping(r, s) /\ run[r].until # NULL /\ run[s].until # NULL =>
        \E q \in Runs : run[q].id = run[r].id /\ run[q].late

\* A due, active schedule fires, even when the worker that held its lease
\* died: a lease runs out, unless the clock of the instance stops before it.
Overdue(k) == /\ row[k] # Absent /\ row[k].opt.active
              /\ row[k].next_run <= MaxTime
              /\ row[k].locked_until # NULL => row[k].locked_until <= MaxTime
DueFires == \A k \in Key : []<>~Overdue(k)
-----------------------------------------------------------------------------
(* The promise of Metronome, read off the rows and the claims. *)

planBar == [k \in Key |-> [id |-> row[k].id, ver |-> row[k].ver, next |-> row[k].next_run]]

beatsBar == [r \in Runs |-> [id |-> run[r].id, ver |-> run[r].ver, due |-> run[r].due,
                             at |-> run[r].claimed, until |-> run[r].until,
                             late |-> run[r].late, over |-> run[r].phase = "over"]]

Promise == INSTANCE Metronome
           WITH clock <- now, plan <- planBar, beats <- beatsBar, calls <- nextVer

\* Between two schedule() calls every tick fires at most once and in time
\* order, a schedule() call starts no earlier than the time its client read
\* (what fired since may fire again), and leased runs stay apart: the schedules
\* implement Metronome under every interleaving, lost answer and crash
\* (_process_periodic_task, _reap_and_update, schedule()).
KeepsTime == Promise!Spec
=============================================================================
