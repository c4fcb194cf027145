------------------------------ MODULE TaskQueue ------------------------------
(***************************************************************************)
(* The one-off task queue of pq: the rows of the table pq_tasks, the       *)
(* clients that submit and delete them (src/pq/client.py), and the workers *)
(* that claim, run, finish and reap them (src/pq/worker.py).               *)
(*                                                                         *)
(* A client call is one SQL statement in one transaction, so it is one     *)
(* step; it waits while the row it writes is locked.  A worker transaction *)
(* that reads rows FOR UPDATE and writes them later is two or more steps,  *)
(* and it holds the rows it read between them.  The handler of a task runs *)
(* in a forked child of its own process group: it outlives a worker that   *)
(* crashes, and only its own alarm stops it.                               *)
(*                                                                         *)
(* Name, payload and error text are abstracted: `ver' stands for the name  *)
(* and the payload one submission stores, a new number for each            *)
(* submission.  Time is the clock of the database, in ticks.               *)
(***************************************************************************)
EXTENDS Integers, FiniteSets, Sequences

CONSTANTS
    Worker,         \* the worker processes
    ClientId,       \* values of the unique column client_id
    Option,         \* what a submission may ask for: priority, delay, max_runtime
    Serves,         \* per worker: the priorities it claims
    Skew,           \* per worker: its clock minus the clock of the database
    Concurrency,    \* run_worker(concurrency=...), the same for all workers
    MaxRuntime,     \* the workers' default for max_runtime
    StaleTimeout,   \* the workers' stale_task_timeout
    StartDelay,     \* bound: ticks from the start of a claim to the fork
    MaxTasks,       \* bound: rows ever inserted
    MaxVersions,    \* bound: submissions
    MaxFaults,      \* bound: worker crashes and database errors
    NULL

TaskId  == 1 .. MaxTasks
Version == 1 .. MaxVersions

ASSUME BoundsAssumption ==
    /\ {MaxTasks, MaxVersions, Concurrency} \subseteq Nat \ {0}
    /\ {MaxFaults, StartDelay, MaxRuntime, StaleTimeout} \subseteq Nat

ASSUME OptionAssumption ==
    Option \subseteq [priority : Int, delay : Int, max_runtime : Nat \cup {NULL}]

ASSUME WorkerAssumption ==
    /\ Serves \in [Worker -> SUBSET Int]
    /\ Skew \in [Worker -> Int]

ASSUME NullAssumption ==
    NULL \notin Int \cup Worker \cup ClientId \cup {"completed", "failed"}

VARIABLES
    now,      \* the clock of the database
    row,      \* pq_tasks: the row of each task id, Absent before and after its life
    nextId,   \* the identity column: the id the next insert gets
    nextVer,  \* the number the next submission gets
    run,      \* every claim that committed, in commit order
    pc,       \* where each worker stands in its loop
    tx,       \* the rows each worker's open transaction has locked, as it read them
    since,    \* now() of the transaction or the claim in hand, NULL without one
    faults    \* crashes and database errors so far

queue == <<row, nextId, nextVer>>
loop  == <<pc, tx, since>>
vars  == <<now, queue, run, loop, faults>>
-----------------------------------------------------------------------------
(* Rows *)

Time == Int \cup {NULL}

Submission == [ver : Version, priority : Int, run_at : Int, max_runtime : Nat \cup {NULL}]

ASSUME SubmissionAssumption == NULL \notin Submission

Row == [status       : {"absent", "pending", "running", "completed", "failed"},
        client       : ClientId \cup {NULL},
        spec         : Submission \cup {NULL},
        started_at   : Time,
        completed_at : Time,
        attempts     : Nat,
        requeue      : Submission \cup {NULL}]

Absent == [status |-> "absent", client |-> NULL, spec |-> NULL, started_at |-> NULL,
           completed_at |-> NULL, attempts |-> 0, requeue |-> NULL]

\* What a submission stores; run_at defaults to now.
Submitted(o) == [ver |-> nextVer, priority |-> o.priority, run_at |-> now + o.delay,
                 max_runtime |-> o.max_runtime]

Fresh(c, s) == [Absent EXCEPT !.status = "pending", !.client = c, !.spec = s]

\* Broken form: the row is queued again with the version that just ran.
ApplyRequeueOld(r) == Fresh(r.client, r.spec)

\* Task.apply_requeue(): the parked version becomes a fresh PENDING task.
ApplyRequeue(r) == Fresh(r.client, r.requeue)

Closed(status, at, r) == [r EXCEPT !.status = status, !.completed_at = at]

Owner(c) == {t \in TaskId : row[t].status # "absent" /\ row[t].client = c}

\* Broken form: _finish_one_off without FOR UPDATE.
FreeOfFinish(t) == \A w \in Worker : t \in DOMAIN tx[w] => pc[w] = "finish"

\* No open transaction holds a lock on row t.
Free(t) == \A w \in Worker : t \notin DOMAIN tx[w]

NoTx == [t \in {} |-> Absent]
Read(T) == [t \in T |-> row[t]]
-----------------------------------------------------------------------------
(* Runs: a committed claim and what became of it. *)

Run == [task : TaskId, client : ClientId \cup {NULL}, ver : Version, limit : Nat,
        started_at : Time,              \* identifies the run, see _finish_one_off
        at : Time,                      \* when the claim began, then when the child was forked
        parent : Worker \cup {NULL},    \* NULL once no worker waits for it
        phase : {"claimed", "running", "exited", "recording", "over"},
        result : {"completed", "failed", NULL}]

Runs     == DOMAIN run
Mine(w)  == {r \in Runs : run[r].parent = w}
Alive(r) == run[r].phase = "running"
Live(r)  == run[r].phase \in {"claimed", "running"}

\* Per-task max_runtime_seconds when set, otherwise the worker's default.
Effective(s) == IF s.max_runtime = NULL THEN MaxRuntime ELSE s.max_runtime

\* signal.alarm(int(max_runtime) + 1), set in the child right after the fork.
Deadline(r) == run[r].at + run[r].limit + 1

\* Broken form: the row's own budget forgotten.
WindowFlat(s) == StaleTimeout

\* The reaper's window for a row: max(threshold, 2 * max_runtime_seconds).
Window(s) == IF s.max_runtime # NULL /\ 2 * s.max_runtime > StaleTimeout
             THEN 2 * s.max_runtime ELSE StaleTimeout

\* Broken form: <= for <.
StaleAtLimit(t, at) ==
    row[t].status = "running" /\ row[t].started_at + Window(row[t].spec) <= at

Stale(t, at) == row[t].status = "running" /\ row[t].started_at + Window(row[t].spec) < at

\* What is left of a run that is over: history, which no code reads.
Over(r, res) == [r EXCEPT !.phase = "over", !.parent = NULL, !.result = res,
                          !.started_at = NULL, !.at = NULL]

Done(r, res) == [run EXCEPT ![r] = Over(@, res)]
-----------------------------------------------------------------------------
(* Clients *)

\* Broken form: client_id without its unique constraint.
EnqueueTwin(o, c) ==
    /\ nextVer \in Version /\ nextId \in TaskId
    /\ row' = [row EXCEPT ![nextId] = Fresh(c, Submitted(o))]
    /\ nextId' = nextId + 1
    /\ nextVer' = nextVer + 1
    /\ UNCHANGED <<now, run, loop, faults>>

Enqueue(o, c) ==
    /\ nextVer \in Version /\ nextId \in TaskId
    /\ c # NULL => Owner(c) = {}            \* else IntegrityError
    /\ row' = [row EXCEPT ![nextId] = Fresh(c, Submitted(o))]
    /\ nextId' = nextId + 1
    /\ nextVer' = nextVer + 1
    /\ UNCHANGED <<now, run, loop, faults>>

\* Broken form: the plain overwrite, which restarts a RUNNING row.
UpsertRestarts(o, t) ==
    /\ nextVer \in Version
    /\ Free(t)
    /\ row' = [row EXCEPT ![t] = Fresh(@.client, Submitted(o))]
    /\ nextVer' = nextVer + 1
    /\ UNCHANGED <<now, nextId, run, loop, faults>>

\* Broken form: the new version replaces that of the run in progress.
UpsertInPlace(o, t) ==
    /\ nextVer \in Version
    /\ Free(t)
    /\ row' = [row EXCEPT ![t] = IF @.status = "running"
                                 THEN [@ EXCEPT !.spec = Submitted(o)]
                                 ELSE Fresh(@.client, Submitted(o))]
    /\ nextVer' = nextVer + 1
    /\ UNCHANGED <<now, nextId, run, loop, faults>>

\* INSERT ... ON CONFLICT (client_id) DO UPDATE: a RUNNING row keeps every
\* column and parks the new version, any other row is overwritten.
UpsertConflict(o, t) ==
    /\ nextVer \in Version
    /\ Free(t)
    /\ row' = [row EXCEPT ![t] = IF @.status = "running"
                                 THEN [@ EXCEPT !.requeue = Submitted(o)]
                                 ELSE Fresh(@.client, Submitted(o))]
    /\ nextVer' = nextVer + 1
    /\ UNCHANGED <<now, nextId, run, loop, faults>>

Upsert(o, c) ==
    \/ Owner(c) = {} /\ Enqueue(o, c)
    \/ \E t \in Owner(c) : UpsertConflict(o, t)

Delete(T) ==
    /\ T # {} /\ \A t \in T : Free(t)
    /\ row' = [t \in TaskId |-> IF t \in T THEN Absent ELSE row[t]]
    /\ UNCHANGED <<now, nextId, nextVer, run, loop, faults>>

\* cancel() deletes the row whatever its status; a child that runs goes on.
Cancel(t) == row[t].status # "absent" /\ Delete({t})

ClearAll == Delete({t \in TaskId : row[t].status # "absent"})

\* clear_completed() and clear_failed(), before = NULL clearing every such
\* row; a worker's retention cleanup calls both.
Clear(status, before) ==
    Delete({t \in TaskId : /\ row[t].status = status
                           /\ before = NULL \/ row[t].completed_at < before})
-----------------------------------------------------------------------------
(* Workers: claim and fork *)

Goto(w, to) == pc' = [pc EXCEPT ![w] = to]

Lock(w, T)   == tx' = [tx EXCEPT ![w] = Read(T)]
Unlock(w)    == tx' = [tx EXCEPT ![w] = NoTx]
Mark(w, at)  == since' = [since EXCEPT ![w] = at]

Fault == faults < MaxFaults /\ faults' = faults + 1

HasSlot(w) == Cardinality(Mine(w)) < Concurrency

\* Broken form: the claim query without FOR UPDATE SKIP LOCKED.
DueUnlocked(w) == {t \in TaskId : /\ row[t].status = "pending"
                                  /\ row[t].spec.run_at <= now
                                  /\ row[t].spec.priority \in Serves[w]}

\* The rows the claim query of w finds; SKIP LOCKED leaves out the others.
Due(w) == {t \in TaskId : /\ row[t].status = "pending"
                          /\ row[t].spec.run_at <= now
                          /\ row[t].spec.priority \in Serves[w]
                          /\ Free(t)}

\* ORDER BY priority DESC, run_at
NoLater(t, u) == \/ row[t].spec.priority > row[u].spec.priority
                 \/ /\ row[t].spec.priority = row[u].spec.priority
                    /\ row[t].spec.run_at <= row[u].spec.run_at

\* Broken form: no maintenance in an idle loop.
AfterNoClaimPoll == "poll"

\* Where the loop goes when a claim returned nothing: the sequential loop to
\* its maintenance, the concurrent one to select().
AfterNoClaim == IF Concurrency = 1 THEN "idle" ELSE "select"

ClaimSelect(w) ==
    /\ pc[w] = "poll" /\ HasSlot(w)
    /\ \E t \in Due(w) : (\A u \in Due(w) : NoLater(t, u)) /\ Lock(w, {t})
    /\ Mark(w, now) /\ Goto(w, "claim")
    /\ UNCHANGED <<now, queue, run, faults>>

PollEmpty(w) ==
    /\ pc[w] = "poll"
    /\ HasSlot(w) => Due(w) = {}
    /\ Goto(w, AfterNoClaim)
    /\ UNCHANGED <<now, queue, run, tx, since, faults>>

\* The run of a claim of row t, which the claim read as `seen'.
Claimed(w, t, seen) ==
    [task |-> t, client |-> seen.client, ver |-> seen.spec.ver, limit |-> Effective(seen.spec),
     started_at |-> since[w] + Skew[w], at |-> since[w],
     parent |-> w, phase |-> "claimed", result |-> NULL]

\* The claim's UPDATE and COMMIT.
Take(w, t) == row' = [row EXCEPT ![t].status = "running",
                                 ![t].started_at = since[w] + Skew[w],
                                 ![t].attempts = tx[w][t].attempts + 1]

ClaimCommit(w) ==
    /\ pc[w] = "claim"
    /\ \E t \in DOMAIN tx[w] : /\ Take(w, t)
                              /\ run' = Append(run, Claimed(w, t, tx[w][t]))
    /\ Unlock(w) /\ Goto(w, "start")
    /\ UNCHANGED <<now, nextId, nextVer, since, faults>>

\* A database error rolls the claim back ...
ClaimAbort(w) ==
    /\ pc[w] = "claim" /\ Fault
    /\ Unlock(w) /\ Mark(w, NULL) /\ Goto(w, AfterNoClaim)
    /\ UNCHANGED <<now, queue, run>>

\* ... or hides that it committed: the row is RUNNING and nobody runs it.
ClaimLost(w) ==
    /\ pc[w] = "claim" /\ Fault
    /\ \E t \in DOMAIN tx[w] : /\ Take(w, t)
                              /\ run' = Append(run, Over(Claimed(w, t, tx[w][t]), NULL))
    /\ Unlock(w) /\ Mark(w, NULL) /\ Goto(w, AfterNoClaim)
    /\ UNCHANGED <<now, nextId, nextVer>>

Fork(w, r) ==
    /\ pc[w] = "start" /\ r \in Mine(w) /\ run[r].phase = "claimed"
    /\ run' = [run EXCEPT ![r].phase = "running", ![r].at = now]
    /\ Mark(w, NULL) /\ Goto(w, IF Concurrency = 1 THEN "select" ELSE "poll")
    /\ UNCHANGED <<now, queue, tx, faults>>

\* Broken form: the failed start leaves no result.
StartFailSilent(w, r) ==
    /\ pc[w] = "start" /\ r \in Mine(w) /\ run[r].phase = "claimed"
    /\ run' = [run EXCEPT ![r].phase = "exited"]
    /\ Mark(w, NULL) /\ Goto(w, "failed")
    /\ UNCHANGED <<now, queue, tx, faults>>

\* The handler cannot be imported, its arguments cannot be read, or fork()
\* fails; the worker records that before anything else.
StartFail(w, r) ==
    /\ pc[w] = "start" /\ r \in Mine(w) /\ run[r].phase = "claimed"
    /\ run' = [run EXCEPT ![r].phase = "exited", ![r].result = "failed"]
    /\ Mark(w, NULL) /\ Goto(w, "failed")
    /\ UNCHANGED <<now, queue, tx, faults>>

\* The handler returns, raises, is killed, or meets its alarm.
ChildExit(r, res) ==
    /\ Alive(r)
    /\ run' = IF run[r].parent = NULL
              THEN Done(r, res)
              ELSE [run EXCEPT ![r].phase = "exited", ![r].result = res]
    /\ UNCHANGED <<now, queue, loop, faults>>
-----------------------------------------------------------------------------
(* Workers: record the end of a run *)

\* Broken form: any run of the row matches.
MatchesAnyRun(r) == row[run[r].task].status = "running"

\* The row _finish_one_off selects: still RUNNING with this run's started_at.
Matches(r) == LET t == run[r].task
              IN  row[t].status = "running" /\ row[t].started_at = run[r].started_at

\* The runs whose end worker w may record now: those whose pipe select() found
\* closed, or the claim, its newest, that failed to start.
Ended(w) == {r \in Mine(w) : /\ run[r].phase = "exited"
                             /\ \/ pc[w] = "select"
                                \/ pc[w] = "failed" /\ \A s \in Mine(w) : s <= r}

AfterFinish == IF Concurrency = 1 THEN {"poll"} ELSE {"select", "idle"}

FinishSelect(w, r) ==
    /\ r \in Ended(w)
    /\ IF Matches(r)
       THEN /\ Free(run[r].task)
            /\ Lock(w, {run[r].task})
            /\ run' = [run EXCEPT ![r].phase = "recording"]
            /\ Goto(w, "finish")
       ELSE /\ run' = Done(r, run[r].result)
            /\ \E to \in AfterFinish : Goto(w, to)
            /\ UNCHANGED tx
    /\ UNCHANGED <<now, queue, since, faults>>

\* Broken form: the outcome of another slot is recorded.
FinishCommitMixed(w, r) ==
    /\ pc[w] = "finish" /\ r \in Mine(w) /\ run[r].phase = "recording"
    /\ LET t    == run[r].task
           seen == tx[w][t]
       IN  \E s \in Mine(w) :
             /\ run[s].result # NULL
             /\ row' = [row EXCEPT ![t] = IF seen.requeue # NULL THEN ApplyRequeue(seen)
                                          ELSE Closed(run[s].result, now + Skew[w], @)]
    /\ run' = Done(r, run[r].result)
    /\ Unlock(w) /\ \E to \in AfterFinish : Goto(w, to)
    /\ UNCHANGED <<now, nextId, nextVer, since, faults>>

FinishCommit(w, r) ==
    /\ pc[w] = "finish" /\ r \in Mine(w) /\ run[r].phase = "recording"
    /\ LET t    == run[r].task
           seen == tx[w][t]
       IN  row' = [row EXCEPT ![t] = IF seen.requeue # NULL THEN ApplyRequeue(seen)
                                     ELSE Closed(run[r].result, now + Skew[w], @)]
    /\ run' = Done(r, run[r].result)
    /\ Unlock(w) /\ \E to \in AfterFinish : Goto(w, to)
    /\ UNCHANGED <<now, nextId, nextVer, since, faults>>

\* A database error is logged; the row stays RUNNING for the reaper.
FinishAbort(w, r) ==
    /\ pc[w] = "finish" /\ r \in Mine(w) /\ run[r].phase = "recording" /\ Fault
    /\ run' = Done(r, run[r].result)
    /\ Unlock(w) /\ \E to \in AfterFinish : Goto(w, to)
    /\ UNCHANGED <<now, queue, since>>

\* select() timed out with no child ready; only the concurrent loop comes here.
SelectTimeout(w) ==
    /\ pc[w] = "select" /\ Concurrency > 1
    /\ \A r \in Mine(w) : run[r].phase # "exited"
    /\ Goto(w, "idle")
    /\ UNCHANGED <<now, queue, run, tx, since, faults>>
-----------------------------------------------------------------------------
(* Workers: the stale-task reaper, one transaction of two statements *)

\* Broken form: the second statement of the reaper is missing.
StaleRowsUnparked(w, parked) == {t \in TaskId : /\ ~parked /\ Stale(t, since[w])
                                                /\ row[t].requeue = NULL}

StaleRows(w, parked) == {t \in TaskId : Stale(t, since[w]) /\ (row[t].requeue # NULL) = parked}

ReapBegin(w) ==
    /\ pc[w] = "idle"
    /\ Mark(w, now) /\ Goto(w, "reap")
    /\ UNCHANGED <<now, queue, run, tx, faults>>

\* UPDATE ... SET status = FAILED WHERE requeue IS NULL
ReapUpdate(w) ==
    /\ pc[w] = "reap"
    /\ \A t \in StaleRows(w, FALSE) : Free(t)
    /\ Lock(w, StaleRows(w, FALSE)) /\ Goto(w, "requeue")
    /\ UNCHANGED <<now, queue, run, since, faults>>

\* SELECT ... WHERE requeue IS NOT NULL FOR UPDATE, after which only this
\* transaction can change the rows of either statement until it commits.
ReapSelect(w) ==
    /\ pc[w] = "requeue"
    /\ \A t \in StaleRows(w, TRUE) : Free(t)
    /\ tx' = [tx EXCEPT ![w] = [t \in DOMAIN @ \cup StaleRows(w, TRUE) |-> row[t]]]
    /\ Goto(w, "apply")
    /\ UNCHANGED <<now, queue, run, since, faults>>

\* Broken form: a stale row with a parked version is failed like the others.
ReapCommitFailsAll(w) ==
    /\ pc[w] = "apply"
    /\ row' = [t \in TaskId |-> IF t \notin DOMAIN tx[w] THEN row[t]
                                ELSE Closed("failed", since[w] + Skew[w], row[t])]
    /\ Unlock(w) /\ Mark(w, NULL) /\ Goto(w, "poll")
    /\ UNCHANGED <<now, nextId, nextVer, run, faults>>

ReapCommit(w) ==
    /\ pc[w] = "apply"
    /\ row' = [t \in TaskId |->
                 IF t \notin DOMAIN tx[w] THEN row[t]
                 ELSE IF tx[w][t].requeue # NULL THEN ApplyRequeue(tx[w][t])
                 ELSE Closed("failed", since[w] + Skew[w], row[t])]
    /\ Unlock(w) /\ Mark(w, NULL) /\ Goto(w, "poll")
    /\ UNCHANGED <<now, nextId, nextVer, run, faults>>

\* _maybe_reap_stale logs a database error and goes on.
ReapAbort(w) ==
    /\ pc[w] \in {"reap", "requeue", "apply"} /\ Fault
    /\ Unlock(w) /\ Mark(w, NULL) /\ Goto(w, "poll")
    /\ UNCHANGED <<now, queue, run>>

\* The reaper's interval has not passed.
ReapNotDue(w) ==
    /\ pc[w] = "idle"
    /\ Goto(w, "poll")
    /\ UNCHANGED <<now, queue, run, tx, since, faults>>
-----------------------------------------------------------------------------
(* Crashes, time, and the whole system *)

\* The worker is killed, and started again as another process.  The claim it was
\* about to fork is never run, and its children run on unwatched.  A child
\* inherited the socket of every pooled connection (the hook drops it and does not
\* close it), so a transaction that is open may outlive its worker.
Crash(w) ==
    /\ pc[w] # "down" /\ Fault
    /\ run' = [r \in Runs |->
                 IF run[r].parent # w THEN run[r]
                 ELSE IF Alive(r) THEN [run[r] EXCEPT !.parent = NULL]
                 ELSE Over(run[r], run[r].result)]
    /\ Mark(w, NULL) /\ Goto(w, IF DOMAIN tx[w] = {} THEN "poll" ELSE "down")
    /\ UNCHANGED <<now, queue, tx>>

\* The last process that holds the socket is gone: the transaction rolls back.
SessionEnds(w) ==
    /\ pc[w] = "down"
    /\ Unlock(w) /\ Goto(w, "poll")
    /\ UNCHANGED <<now, queue, run, since, faults>>

\* Time passes only while something waits for it, not past the alarm of a
\* child that still runs, and not past StartDelay in a claim.
Awaited ==
    \/ \E t \in TaskId : row[t].status = "pending" /\ row[t].spec.run_at > now
    \/ \E t \in TaskId : row[t].status = "running" /\ ~Stale(t, now)
    \/ \E r \in Runs : Live(r)

Tick ==
    /\ Awaited
    /\ \A r \in Runs : Alive(r) => now < Deadline(r)
    /\ \A w \in Worker : pc[w] \in {"claim", "start"} => now < since[w] + StartDelay
    /\ now' = now + 1
    /\ UNCHANGED <<queue, run, loop, faults>>

Init ==
    /\ now = 0
    /\ row = [t \in TaskId |-> Absent]
    /\ nextId = 1
    /\ nextVer = 1
    /\ run = << >>
    /\ pc = [w \in Worker |-> "poll"]
    /\ tx = [w \in Worker |-> NoTx]
    /\ since = [w \in Worker |-> NULL]
    /\ faults = 0

Submit == \E o \in Option, c \in ClientId \cup {NULL} :
              \/ Enqueue(o, c)
              \/ c # NULL /\ Upsert(o, c)

Remove == \/ \E t \in TaskId : Cancel(t)
          \/ ClearAll
          \/ \E s \in {"completed", "failed"}, before \in (0 .. now) \cup {NULL} : Clear(s, before)

Claim(w)  == \/ ClaimSelect(w) \/ PollEmpty(w) \/ ClaimCommit(w)
             \/ \E r \in Runs : Fork(w, r) \/ StartFail(w, r)
Finish(w) == SelectTimeout(w) \/ \E r \in Runs : FinishSelect(w, r) \/ FinishCommit(w, r)
Reap(w)   == \/ ReapBegin(w) \/ ReapUpdate(w) \/ ReapSelect(w) \/ ReapCommit(w)
             \/ ReapNotDue(w)
Work(w)   == Claim(w) \/ Finish(w) \/ Reap(w)

Exit == \E r \in Runs, res \in {"completed", "failed"} : ChildExit(r, res)

Break(w) == \/ ClaimAbort(w) \/ ClaimLost(w) \/ ReapAbort(w) \/ Crash(w) \/ SessionEnds(w)
            \/ \E r \in Runs : FinishAbort(w, r)

Next == \/ Submit \/ Remove \/ Exit \/ Tick
        \/ \E w \in Worker : Work(w) \/ Break(w)

Spec == Init /\ [][Next]_vars
-----------------------------------------------------------------------------
(* Fairness.  A worker's loop always goes on, the reaper's interval passes *)
(* again and again, a child returns or meets its alarm and takes its       *)
(* sockets with it, and time passes.                                       *)

Fairness == /\ \A w \in Worker : WF_vars(Work(w) \/ SessionEnds(w)) /\ SF_vars(ReapBegin(w))
            /\ WF_vars(Exit) /\ WF_vars(Tick)

LiveSpec == Spec /\ Fairness
-----------------------------------------------------------------------------
(* Properties *)

\* The type of every variable.
TypeOK ==
    /\ now \in Nat
    /\ row \in [TaskId -> Row]
    /\ nextId \in 1 .. MaxTasks + 1
    /\ nextVer \in 1 .. MaxVersions + 1
    /\ run \in Seq(Run)
    /\ pc \in [Worker -> {"poll", "claim", "start", "failed", "select", "finish",
                          "idle", "reap", "requeue", "apply", "down"}]
    /\ DOMAIN tx = Worker
    /\ \A w \in Worker : DOMAIN tx[w] \subseteq TaskId /\ tx[w] \in [DOMAIN tx[w] -> Row]
    /\ since \in [Worker -> Time]
    /\ faults \in 0 .. MaxFaults

\* A PENDING row carries nothing of an earlier run, and only a RUNNING row
\* holds a parked version: a closed row with one would never run it
\* (Task.requeue in models.py).
RowShape == \A t \in TaskId :
    LET q == row[t]
    IN  /\ q.status = "pending" => q = Fresh(q.client, q.spec)
        /\ q.requeue # NULL => q.status = "running"
        /\ q.status \in {"running", "completed", "failed"} => q.attempts = 1

\* Each claim of a row takes a newer version than the claims before it: no
\* version is claimed twice, whatever fails, and none runs after a later one
\* (FOR UPDATE SKIP LOCKED in the claim, the parked version in upsert()).
RunsInOrder == \A r, s \in Runs :
    r < s /\ run[r].task = run[s].task => run[r].ver < run[s].ver

\* A worker records an end only on the row of its own run: when the row was
\* reaped, requeued and claimed again meanwhile, the late worker holds
\* nothing (the started_at guard of _finish_one_off).
RecordsOwnRun == \A r \in Runs : run[r].phase = "recording" =>
    \A s \in Runs : s > r => run[s].task # run[r].task

\* A row is COMPLETED only if a child ran the version it shows to success.
HonestVerdict == \A t \in TaskId : row[t].status = "completed" =>
    \E r \in Runs : /\ run[r].task = t
                    /\ run[r].ver = row[t].spec.ver
                    /\ run[r].result = "completed"

\* The reaper never takes a row whose run is about to be forked or alive, as
\* long as a run's worst case fits its window (docstring of reap_stale_tasks).
ReapsOnlyDead == \A w \in Worker : \A r \in Runs :
    pc[w] \in {"requeue", "apply"} /\ Live(r) => run[r].task \notin DOMAIN tx[w]

\* Two children never run for one row at the same time.
NoOverlap == \A r, s \in Runs : Alive(r) /\ Alive(s) /\ run[r].task = run[s].task => r = s

\* The same for a client_id, which upsert() says of one client_id.
NoClientOverlap == \A r, s \in Runs :
    Alive(r) /\ Alive(s) /\ run[r].client = run[s].client /\ run[r].client # NULL => r = s

\* Where it fails, the row of the older child was deleted under it: as long as
\* nobody cancels or clears a RUNNING row, upsert() keeps what it says.
OverlapMeansDeleted == \A r, s \in Runs :
    /\ r < s /\ Alive(r) /\ Alive(s)
    /\ run[r].client = run[s].client /\ run[r].client # NULL
    => row[run[r].task].status = "absent"

\* Once submissions and faults stop, no row stays PENDING or RUNNING: neither
\* a dead worker nor a lost write leaves a row behind for good.
Drains == <>[](\A t \in TaskId : row[t].status \notin {"pending", "running"})

\* A parked version is claimed unless a newer one replaces it or the row is
\* deleted; its worker dying does not lose it.
ParkedRuns == \A t \in TaskId, v \in Version :
    (row[t].requeue # NULL /\ row[t].requeue.ver = v)
        ~> \/ row[t].status = "absent"
           \/ nextVer > v + 1
           \/ \E r \in Runs : run[r].task = t /\ run[r].ver = v
-----------------------------------------------------------------------------
(* The promise of VersionQueue, read off the rows and the claims. *)

stageBar == [t \in TaskId |->
    CASE row[t].status = "absent"  -> IF t < nextId THEN "gone" ELSE "new"
      [] row[t].status = "pending" -> "waiting"
      [] row[t].status = "running" -> "active"
      [] OTHER -> row[t].status]

acceptedBar == [t \in TaskId |->
    IF row[t].status = "absent" THEN 0
    ELSE IF row[t].requeue # NULL THEN row[t].requeue.ver
    ELSE row[t].spec.ver]

begunBar == [t \in TaskId |-> {run[r].ver : r \in {s \in Runs : run[s].task = t}}]

Promise == INSTANCE VersionQueue
           WITH Task <- TaskId, stage <- stageBar, accepted <- acceptedBar,
                begun <- begunBar, clock <- nextVer

\* No upsert is lost, none runs twice, no verdict changes: the queue
\* implements VersionQueue under every interleaving of clients, workers and
\* reapers (_upsert_statement, _finish_one_off, reap_stale_tasks).
ImplementsVersionQueue == Promise!Spec
=============================================================================
