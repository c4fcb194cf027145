# pq in TLA+

Formal models of [pq](../README.md), a Postgres-backed task queue with fork
isolation. Paths below are relative to the repository; `client.py`,
`worker.py` and `models.py` are in `src/pq/`.

    tlc -workers 2 -config TQSafety.cfg MCTaskQueue.tla
    tlc -workers 2 -config PQLease.cfg MCPeriodicQueue.tla
    tlapm TaskQueueProofs.tla

Each `.cfg` belongs to the MC module of its prefix: `TQ*` to `MCTaskQueue`,
`PQ*` to `MCPeriodicQueue`, `WP*` to `MCWorkerProcess`, `UM*` to
`MCUpsertMany`, `FP*` to `MCForkPools`.

## The system

| Component | State | Operations | Talks to | Correct when |
|---|---|---|---|---|
| One-off queue (`client.py`, `Task` in `models.py`) | table `pq_tasks` | `enqueue`, `upsert`, `upsert_many`, `cancel`, `clear_all`, `clear_completed`, `clear_failed`, `reap_stale_tasks` | workers, through rows and row locks | no version is lost or run twice; a RUNNING row is left alone; a closed row says what happened |
| One-off execution (`worker.py`) | the run in hand, or the slots of the concurrent loop | claim, fork, wait, `_finish_one_off`, `_maybe_reap_stale` | the table, child processes | an outcome goes to its own run; a dead worker leaves nothing behind |
| Periodic schedules (`client.py`, `Periodic`, `worker.py`) | table `pq_periodic` | `schedule`, `unschedule`, claim and advance, lease, unlock | the table, child processes | one tick fires once; missed ticks are skipped; overlap control; a dead worker's lease ends |
| Worker process (`worker.py`) | `_ShutdownState`, children, pipes | signal handlers, drain, `_wait_for_child`, `_kill_child_group` | the OS | every claimed run is collected; the drain ends; no child outlives it |
| Child (`_run_in_child`) | alarm, process group | hooks, handler, exit | the parent, through pipe and exit status | never returns into the parent's loop; never outlives its alarm |
| Batch upserts (`upsert_many`) | row locks held for a batch | | reaper, cleanup, other batches | no deadlock, all or nothing |
| Retention cleanup | `last_cleanup` | two DELETEs | the table | deletes only old closed rows; an error does not stop the loop |
| Pools across fork (`client.py`) | SQLAlchemy pools | at-fork hook, close at exit | the OS, Postgres | parent and child never share a session |
| Registry, serialization | none | path and payload conversions | importlib, json, dill | what is stored resolves to what was given |
| Migrations | the schema | `upgrade`, `downgrade` | Alembic | the schema matches `models.py` |
| Priorities, config, logging | none | | | |

What is hard: several workers and clients change the same row, each in a
transaction of its own; claim, execution and recording of one task are three
transactions with a process of unbounded behaviour in between; a worker may
die between any two of them and its child lives on; a commit may succeed and
report an error; and the timeouts that tell a dead run from a slow one are
measured by three clocks (the alarm of the child, the worker's wall clock that
writes `started_at` and cron instants, the database's `now()`). A client's clock
is a fourth, for `run_at` and the first run of a schedule.
`PROJECT.json` lists each hazard at its line with the properties that cover it.

## Modules

| Module | Models |
|---|---|
| `VersionQueue` | what the one-off queue promises, without rows, locks, workers or time |
| `TaskQueue` | `pq_tasks`, the clients and the workers that claim, run, finish and reap its rows |
| `TaskQueueProofs` | the proofs about `TaskQueue`: its types, and the order in which versions run |
| `TaskQueueRowProofs` | what its rows say: their shape, whose end they record, that COMPLETED is true |
| `TaskQueueTimeProofs` | that the reaper and a living run never meet on a row |
| `TaskQueueRefinement` | the proof that `TaskQueue` implements `VersionQueue` |
| `Metronome` | what the periodic queue promises, without rows, locks or workers |
| `PeriodicQueue` | `pq_periodic`, the clients, and the workers that claim, run and unlock its schedules |
| `PeriodicQueueProofs` | the proofs about `PeriodicQueue` |
| `Supervisor` | what a worker promises of the tasks it takes, without a loop, pipes or signals |
| `WorkerProcess` | the process of `run_worker`: both loops, the signal handler, the children it supervises, the drain |
| `WorkerProcessProofs` | the proofs about `WorkerProcess` |
| `AtomicBatches` | what `upsert_many` promises: a batch at once, in input order, or not at all |
| `UpsertMany` | transactions that lock several rows of `pq_tasks` one by one: batches, the reaper, the cleanup |
| `UpsertManyProofs` | the proofs that batches do not deadlock among themselves and are all or nothing |
| `ForkPools` | connection pools, sockets and server sessions of a process, its children and theirs |
| `ForkPoolsProofs` | the proofs about `ForkPools` |
| `MC...` | values of the constants for TLC |

`TaskQueue` and `PeriodicQueue` have many processes and the database between
them, and of a process only what the tables see. `WorkerProcess` is one process
from inside: what the tables do with a claim or an outcome is a step there.
`UpsertMany` is the table again, with the row locks of one statement taken one
after the other; `TaskQueue` takes the rows of a statement at once, which
is right for everything but deadlock.

Operators called "Broken form" are wrong versions of the definition that
follows them, as a plausible mistake in the code would have it. They are used
by no specification: each shows that a property notices the mistake.

### TaskQueue

*State.* `row` is the table, `Absent` where there is no row; `nextId` the
identity column; `nextVer` numbers the submissions, and a number (`ver`)
stands for the name and the payload one submission stores. `run` has one
record for each committed claim: the code has no such list, it has the locals
of `_process_one_off_task`, a `_ChildSlot`, and the child itself. A run that is
over is history that only properties read. `pc`, `tx` and `since` are a worker's place in its loop, the rows
its open transaction has locked (with the values it read), and the `now()` of
that transaction.

*Steps and atomicity.* A client call is one SQL statement in one transaction,
hence one step, enabled while the rows it writes are not locked. A worker
transaction that reads rows `FOR UPDATE` and writes them later is several
steps with the rows locked in between. Nothing of a transaction is visible
before it commits (READ COMMITTED). A statement that waits for a lock
re-evaluates its condition when it gets it, so waiting is a guard.

| Code | Actions |
|---|---|
| `enqueue`, `upsert` | `Enqueue`, `Upsert`, `UpsertConflict` |
| `cancel`, `clear_all`, `clear_completed`, `clear_failed`, retention cleanup | `Cancel`, `ClearAll`, `Clear` |
| `_process_one_off_task`, `_claim_and_fork_one_off` | `ClaimSelect`, `PollEmpty`, `ClaimCommit`, `ClaimAbort`, `ClaimLost`, `Fork`, `StartFail` |
| `_run_in_child` | `ChildExit` |
| `_wait_for_child`, `select()`, `_finish_one_off` | `FinishSelect`, `FinishCommit`, `FinishAbort`, `SelectTimeout` |
| `_maybe_reap_stale`, `reap_stale_tasks` | `ReapBegin`, `ReapUpdate`, `ReapSelect`, `ReapCommit`, `ReapAbort`, `ReapNotDue` |
| SIGKILL of a worker | `Crash`, `SessionEnds` |

Both loops are one model. With `Concurrency = 1` a worker waits for its one
child (`run_worker_once`) and comes to its maintenance only when a poll found
nothing; with more it fills its slots, selects, and passes its maintenance in
every iteration (`_run_concurrent`). `Crash` also stands for the restart: the
restarted worker is another process with the same settings. The transaction a
killed worker had open may outlive it: its children hold the socket, as
`_reset_pools_after_fork` drops an inherited connection without closing it
(client.py:82). The worker is then `down`, its row locks stay and other workers
go on around them, until `SessionEnds` rolls back, once no process has the socket.
The replacement is taken to poll only after that, which leaves out its steps
beside the locks; another worker's steps beside them are the same.

*Time* is the clock of the database. `Skew[w]` is what worker `w`'s clock
shows more, and `started_at` and `completed_at` are written with it. On
`pq_tasks` a client's clock enters only in `run_at`, covered by the `delay` of a
submission.
`Deadline` is the alarm: one tick after the cap, counted from the fork.
`StartDelay` bounds the time from the start of a claim to the fork, which the
code does not bound.

### PeriodicQueue

`row` holds the schedule of each `(name, key)`. `Schedule` keeps `id` and
`locked_until` of an existing row, as the `ON CONFLICT` clause does. Its `next_run`
is a parameter that the client computed by its own clock before the session
opened (client.py:546-551), and the statement may wait for the row lock of a claim
before it writes: `lag`, a member of `Lag`, is what the client had read minus the
database's time at the write, so skew and wait together. A claim
takes the lease and advances the schedule in one transaction (`Advance`);
`Unlock` clears the lease by id whoever took it. A cron expression is a period:
its instants are the multiples of `cron` (`croniter` is external). `late` marks
a run that was not over when its lease ran out; only properties read it.
`Concurrency` is a setting of each worker: one of `run_worker`'s two loops.
`Crash` and `SessionEnds` are those of `TaskQueue`.

In the program one loop tries `pq_tasks` first and `pq_periodic` second. The
two tables share no row, so the modules are separate; what one table's work
costs the other is time, which both leave arbitrary. `clear_all` deletes from
both and is an action of each.

### VersionQueue

A task is a mailbox for one version: `Accept` replaces the version that waits
and leaves the one in work alone, `Begin` takes the last accepted version and
never the same one twice, `Settle` closes a task only if no newer version
waits and otherwise lets it wait again, `Withdraw` deletes. `TaskQueue`
implements it (`ImplementsVersionQueue`) with the mapping at its end: the stage
is read off the row's status, the accepted version is `requeue`'s if there is one, and
the begun versions are those of the claims of the row.

### Metronome

A plan is the promise of a schedule's next run. `Set` gives it a new version and a
time no earlier than its caller read (by `Lag`, the time itself or one that is
past or ahead), and keeps its identity as long as it exists; `Drop` ends it. A
caller that waited for a beat to fire may so set the instant of that beat
again, and it fires once more, under the new version: this is what `schedule()`
does, and the promise that each beat fires once is one between two calls. `Fire` takes
what the plan has due, at a time the clock has reached, and moves the plan past that
time, so a missed beat is skipped and none fires twice; a leased beat does not
fire while another leased one of the plan goes on, unless one outlasted its
lease. `PeriodicQueue` implements it (`KeepsTime`): the plans are read off the
rows (`planBar`), the beats are the committed claims (`beatsBar`). A claim's `at` is the
`now()` of its transaction, which began a moment before its commit.

### Supervisor

A task is claimed, started if one of the worker's slots is free, goes some way,
and is judged by the way it went. A worker that was asked to stop starts one task more at
most, and leaves (`Leave`) with nothing in hand. An error may end it at any time
(`Break`), and only with several slots does that leave tasks in progress. `WorkerProcess` implements it
(`Supervises`): `statusBar` is the row, with a running one split by whether its
child was forked, and `fateBar` the exit of a child that ended. The verdict
`shutdown` needs a child that a SIGKILL ended after the signal. The deadline, and
with it when the drain may kill, is in `HonestVerdict` and `KilledInTime`.

### WorkerProcess

*State.* `asked` and `deadline` are `_shutdown`: the time since the first
signal, and the deadline in that time. `slots` is the dictionary `children`,
`todo` the part of it the loop is about to collect, `cur` the task in hand,
`killed` the local `killed_by_drain`. `proc` has for each task its child, the
status it ended with, and two facts of its pipe: whether a message is unread
(`said`) and whether a process the handler forked holds the write end
(`helper`). `row` is what the worker knows and does of the task's row.

| Code | Actions |
|---|---|
| `_handle_shutdown_signal` | `Signal`, between any two other steps |
| `_run_in_child` | `SetUp`, `Finish`, `Exit`; `Alarm` for `_child_timeout_handler`; `ForkHelper`, `HelperEnds` for what a handler does |
| the OOM killer, other signals | `Killed` |
| the loops of `run_worker` and `_run_concurrent` | `Top`, `Fill`, `Claim`, `ClaimNothing`, `Fork`, `StartFail`, `Wake`, `SelectReturns`, `Maintain` (the test of the request), `Clean`, `CleanupRaises`, `Drain` |
| `_wait_for_child` | `Wait4`, `Check` (with `_kill_child_group`), `Doze`, the read of `Record` |
| `_reap_and_update` | `Record` |

Any number of steps of children and a signal may come between two steps of the
loop. `Tick` is possible when the loop waits for something that has not come
(`Blocked`), which includes its database calls: a claim, the end of a run or of a
start that failed, the cleanup and the reaper may wait for row locks, as long
as other transactions like (`InDatabase`). The other steps of the loop take no
time. `lost` counts the ticks after the signal in which the loop was in such a call
or read a pipe, so did not look at its deadline. `select()` of the concurrent loop
is not woken by the signal, as PEP 475 restarts it; the sleep is, by its slices.
Children in `select()` are taken in any order, where the code has that of its
list.

### UpsertMany and AtomicBatches

A transaction has a `plan`, the rows it has still to lock, and `written`, what
it wrote and did not commit. `holder` has the lock of each key; an uncommitted
insert locks its key as a row does. A batch makes its plan in `Open` (`sorted`
by `client_id`, stable), a sweep in `Scan`, in any order. `Fail` is an error
or the end of the process at any point; `BreakDeadlock` is the database, which fails
one transaction of a cycle. Claims, ends of runs and cancels lock one row and hold
nothing while they wait: one step each.

`UpsertMany` implements `AtomicBatches`: a batch that is open has done
nothing, and its commit applies all its items with the meaning of `upsert()` to
the rows as they are at that moment.

### ForkPools

`pool`, `out` and `holds` are, for each process, its idle connections, those in
an open `session()`, and the sockets it has open, which include those that its
pool has forgotten. `Fork` copies everything and runs the hook
(`Reset`); `Exit` is the end of `_run_in_child`; `Kill` is every other end. A
connection that comes back after a fork inside its session goes to the pool
that the hook replaced, not to the new one (`Return`). `server` is what
Postgres thinks of the session.

## What is checked

| Run | Instance | Shows |
|---|---|---|
| `TQSafety` | 2 sequential workers, 1 row with its own budget, 3 submissions, 1 fault | `TypeOK`, `RowShape`, `RunsInOrder`, `RecordsOwnRun`, `HonestVerdict`, `ReapsOnlyDead`, `NoOverlap` |
| `TQConcurrent` | 1 worker with 2 slots, 2 rows, 2 submissions, 1 fault | `HonestVerdict`, `ReapsOnlyDead`, `OverlapMeansDeleted`, `ImplementsVersionQueue` in the concurrent loop, with several rows in one reaping, one deletion, one poll |
| `TQSkew` | a worker one tick behind, claims that take a tick, rows with their own budget, 1 fault | `RecordsOwnRun`, `RunsInOrder` although live runs are reaped |
| `TQLive` | fairness, 2 submissions of 2 priorities, one delayed, a worker that serves only one of them, 1 fault | `Drains`, `ParkedRuns` |
| `PQLease` | a sequential and a concurrent worker, one a tick ahead, leased schedules, interval and cron, replacement and removal, clients at once or a tick late, claims that take a tick | `TypeOK`, `OverlapNeedsOverrun`, `TicksSkipped` |
| `PQLive` | fairness, 2 workers, a schedule that is leased, paused or (with cron) not leased, clients at once or a tick late, 1 fault | `DueFires`, `OverlapNeedsOverrun`, `KeepsTime` |
| `WPDrain` | both loops, 1 one-off and 1 periodic task, drains of 0 to 2 ticks, fairness | `TypeOK`, `Collected`, `HonestVerdict`, `OneLateFork`, `KilledInTime`, `Stops`, `Reaped`, `Supervises` |
| `UMBatches` | 2 batches with 2 `client_id`s in opposite order, one twice; a reaper, a cleanup; fairness | `TypeOK`, `NoBatchDeadlock`, `ImplementsAtomicBatches`, `BatchEnds` |
| `FPFork` | 3 processes, 2 instances, 3 connections | `TypeOK`, `NoSharedSession`, `SessionsSurvive`, `CleanExit` |

`ReapsOnlyDead` and `NoOverlap` need the timeouts the docstring of
`reap_stale_tasks` asks for: a window longer than the alarm plus the time from
claim to fork. `TQSafety` and `TQConcurrent` are at that limit (window 2, from
the row's own budget, and alarm 2; window 1 and alarm 1), so one tick less
breaks them. `TQSkew` goes past it on purpose, which is where `RecordsOwnRun`
matters.

Four properties state an exception that the code has:

- `Collected`: a database error of the retention cleanup ends the concurrent
  loop and leaves its children to nobody (worker.py:585; the reaper catches its
  errors for this reason).
- `Stops` and `Reaped`: a process the handler forked and that outlives the child
  holds the pipe open, and the worker reads on (worker.py:437). The drain does
  not end it: once `wait4` has found the child, its group is not killed.
- `KilledInTime`: the bound is the larger of `drain_timeout` and, with several
  slots, `poll_interval` (worker.py:1499), plus `lost`: while the worker records
  one child it may wait for a row lock, such as that of a batch (client.py:444-446),
  and reads a pipe without a timeout, and its other children live on meanwhile.
- `NoSharedSession`: a session that was open at the fork is shared, as
  `_reset_pools_after_fork` says.

Three runs end in a counterexample: they check what a document or a comment
says and the code does not do.

| Run | Said | Done |
|---|---|---|
| `TQCancel` | one `client_id` does not run twice at a time if `stale_task_timeout` exceeds the longest run (docs/architecture.md:240, README.md:110) | `cancel()` deletes a RUNNING row, its child runs on, and a new row with the `client_id` is claimed |
| `TQDefaultBudget` | worker and reaper "stay in sync without the worker having to coordinate" (worker.py:930-933) | the reaper knows a row's own budget, not the worker's default `max_runtime`, and reaps a live run |
| `PQOverlap` | a tick is skipped while an instance still runs; the lease "doesn't expire while a legitimately-long execution is still running" (README.md:160, worker.py:1063-1067) | the lease is `max_runtime` from the claim, the alarm `int(max_runtime) + 1` from the fork: the next tick starts beside a run in its last second |

*Bounds.* Three submissions on one row give every chain the code
distinguishes: run, parked version, parked version replaced, re-queued, claimed
again while the first run still lives. Two workers suffice for a claim, a
finish or a reaping against another worker's step on the same row; with one
fault, one of them is dead or its answer is lost. Two rows are the least at which one
statement has several; `TQConcurrent` gives them two submissions, so it does not
replace a parked version while a run lives, which `TQSafety` does and which
`QueueKeepsPromise` covers for the refinement. Time in `TaskQueue` is bounded by what is awaited (a
`run_at`, a window, an alarm), in `PeriodicQueue` by `MaxTime`, which leaves
room for a lease to run out and for a tick after it; a lease that outlasts it
is not waited for (`Overdue`). A `Lag` of -1 is a client that waited a tick, enough
to write back the instant that the claim it waited for fired, also a cron one;
0 is one that did not. `MaxFaults` counts crashes
and database errors together. Symmetry of the workers is used only where they have
equal settings, and in no run with a liveness property.

In `WPDrain` one task of each kind gives the loop a child in hand beside a child
in a slot. The settings are the sequential loop with a drain that is skipped and
with one longer than its pause, and the concurrent loop with a drain shorter
than its pause. `Horizon` stops the count of ticks one beyond the
longest of them. Two tasks pass the bound of `Supervisor` on children only when
there is one slot; `WorkerSupervises` covers every number. In `UMBatches` two keys are the least that two transactions
can lock in opposite orders, and a batch can deadlock with either sweep, or with
both. A batch is called once; sweeps and the transactions of one row go on
for ever. In `FPFork` a connection is opened once and a process starts once;
three processes have both shapes of the tree of forks, and three connections
give a process two and another one its own.

`WPDrain` and `FPFork` may come to an end (a worker stops, processes exit), so
their configurations do not take that for a deadlock.

*Fairness* (`LiveSpec`): each worker's loop goes on (it never exits while the
worker lives); the reaper's interval passes again and again (strong
fairness of `ReapBegin`, since the loop may pass the same point before the interval
is over); a child ends, because its alarm ends it; time passes while
something waits for it; the transaction of a killed worker ends, because the
children that keep its socket open meet their alarms. Nothing is assumed of clients, faults, or of which due
row is claimed. In `WorkerProcess` the loop and time go on, and a child whose
handler is over exits, at the latest by its alarm; nothing is assumed of
handlers (a C extension may keep the alarm from being handled), helpers or
signals. Its database calls take any time and return: a lock is given back, at the latest
when the transaction that has it ends or is ended. In `UpsertMany` an open transaction goes on, with strong fairness since
Postgres serves those who wait for a row in order, and a deadlock is
detected; nothing is assumed of when sweeps and calls begin.

## What is proved

`TaskQueueProofs` proves, for every number of workers, rows, submissions and
faults, every clock skew and every timeout (assumptions: only the types of the
constants, and that `NULL` is none of the values it stands for the absence of):

- `TypeCorrect`: `Spec => []TypeOK`.
- `AtMostOnceInOrder`: `Spec => []RunsInOrder`. Each claim of a row takes a
  newer version than every earlier claim of it. So no version is claimed twice, no
  version is claimed after a newer one, and neither depends on any timeout.

`RunsInOrder` is not inductive: that a claim takes a new version depends on
what the row holds when it commits. The inductive invariant `IInv` adds

- `Newer`: what waits in a row, as its PENDING version or in `requeue`, is
  newer than every version claimed from the row;
- `RowInv`: only a RUNNING row has a parked version, so that a claim cannot
  carry one over;
- `Held`: a locked row is as its holder read it, is held by nobody else, and
  is PENDING for a claim, RUNNING for a finish or a reaping. So the
  read-then-write of claim, finish and reaper acts on the row as it is now;
- `Recording`: a worker that records an end holds the row of that run and of
  no other.

The argument of each step is one lemma. `Release` and `Acquire` settle what a
step does to the locks of the other workers, `RowsKept` what it does to the
rows, `ClaimStep` and `SubmitNewer` are the two steps that extend the history.

`TaskQueueRowProofs` goes on from `IInv`. `RowsAreShaped` (`RowShape`) needs
nothing more. `EndsAreOwn` (`RecordsOwnRun`) and `CompletedIsTrue`
(`HonestVerdict`) have one assumption, `ClocksInWindow`: no worker's clock is
behind the database by more than `stale_task_timeout`. Their invariant `OInv`
says in `OwnOrStray` that the row of a run that is not over is deleted, or the run's
own (`Owns`: RUNNING, with its `started_at` and its version, and no later claim),
or was reaped from it (`Stray`). A reaped row was stale, so whoever claims it
again begins later than the old `started_at` plus `stale_task_timeout`, and writes
a later `started_at` even with a clock that is behind by that much: the guard of
`_finish_one_off` tells the two apart. `Moved` says what every step but a claim
may do to workers, runs and rows, so that the invariant is argued once for it
(`MovedInv`) and once for claims (`TakeOwns`). The assumption is tight: with a
skew of -2 and a timeout of 1, TLC finds both properties violated.

`TaskQueueTimeProofs` proves `ReaperSparesTheLiving` (`ReapsOnlyDead`),
`RowsRunAlone` (`NoOverlap`) and `OverlapNeedsDelete` (`OverlapMeansDeleted`) from `WindowsFit`: for each row, the run's cap, one
tick of alarm and `StartDelay` do not exceed the reaper's window plus the skew of
the worker. `TInv` follows a claim in time: it is forked before its `StartDelay`
is over (`Started`, `Timely`), so its alarm is set no later than the
row's `started_at` plus the delay and corrected for the skew, so its row is not stale
as long as it lives (`NotStale`), so nobody takes it (`LiveOwns`) and no second run of
the row can begin (`Alone`). `OverlapNeedsDelete` adds `CInv`: a `client_id` has
one row (`OneOwner`) and a run that of its row (`SameClient`), so when a newer
row with it is claimed, the row of an older live run is gone (`OldDeleted`). This
is what the documents say of one `client_id`, with the exception `TQCancel`
shows. `WindowsFitFrom` gives two inequalities between the
settings under which `WindowsFit` holds of every submission: for clocks in time,
`stale_task_timeout` is at least `max_runtime + 1 + StartDelay` and at least
`2 + 2 * StartDelay`.

`WorkerProcessProofs` proves all safety properties of `WorkerProcess`, for
every set of tasks and every `concurrency`, `drain_timeout` and `poll_interval`
(assumptions: the types of the settings; one-off and periodic tasks are
different things): `ProcessTyped`, `ChildrenAreCollected`, `VerdictsAreHonest`,
`OneForkIsLate`, `ChildrenAreKilledInTime`. Its invariant has a part for
each: `InHand`, `InSlots` and `RowAndProcess` tie the place of the loop to the
state of rows and children (a child in a slot was not collected, the child in
hand was not before `Wait4`); `DrainKills` says that who was killed by the
drain is in hand with `killed` set, or has its verdict; `Last` that after a late
fork no claim follows; `InTime` that the ticks since the signal and what is
left of the pause in hand do not exceed the bound by more than `lost`. So a tick
beyond the bound is one in which the loop was in the database or read a
pipe, and counts for both.

`WorkerSupervises` is `Spec => Supervises`: the same invariant with `Room` (while
the loop claims, its slots are not full; it drains only after a signal). The
children in progress are those in the slots and the one in hand (`HandSets`,
`Unseen`), so a fork finds fewer than `concurrency`. Claim, fork and a failed
start are `Claim`, `Start` and `Refuse`; the end of a child, by whatever means, is
`Go`; `Record` is `Judge`, and in the last round of a drain also the exit. The
other steps of the loop change nothing that `Supervisor` sees, or end it: in
order (`Leave`), or by an error of the cleanup (`Break`), which finds no task in
hand but those in slots.

`UpsertManyProofs` proves `BatchesCannotDeadlock`: `Spec => []NoBatchDeadlock`,
for any batches, items, sweeps and other clients (assumption: `Key` is a finite
set of integers, as `client_id`s are strings with a total order). The invariant
`LocksInOrder` says that a batch has what it will lock in order and in front of
everything it holds. From a circle of waiting batches, `NoCircle` takes the
one that waits for the greatest key (`Greatest`): its holder waits for a key that
is not smaller, and cannot hold it.

The same module proves `BatchesTyped` (`TypeOK`) and `BatchesAreWhole`:
`Spec => ImplementsAtomicBatches` (assumption besides: `NULL` is no row). A plan is
the rest of what a batch has to do, so the invariant `AInv` says in `Progress` what the
part already done has left: each key it wrote has the value that some item of the
batch makes of the row as it is now, and what the rest of the plan writes to a key
ends with the last item for it (`sorted` loses no item and keeps the order of
equal keys, `OrderType`). `Swept` says the same of sweeps. The row cannot have
changed, since nobody else writes a row that is locked (`TxnKept`), and a parked
version that replaces another one leaves the row as if it had come alone
(`UpsertedTwice`). So at the commit all the keys have what `Apply` gives them.

`ForkPoolsProofs` proves the four properties of `ForkPools` for any number of
processes, instances and connections and any tree of forks: `PoolsTyped`,
`SessionsAreNotShared`, `SessionsAreNotBroken`, `ExitsAreClean`. The invariant
adds `Owned` (a process pools and closes only what it opened), `Alive` (a
session is alive as long as its owner holds it) and `Alone` (only the owner
speaks on a session that no fork found open).

`TaskQueueRefinement` proves `QueueKeepsPromise`: `Spec => ImplementsVersionQueue`,
with no condition on clocks or timeouts. The end of a run may close its task in
`VersionQueue` only if its version was begun and none waits, so `IInv` is joined
by `ShowsClaim`: what a RUNNING row shows as its version was claimed. Then each step
is mapped: a submission is `Accept`, the commit of a claim (answered or lost)
`Begin`, the commit of an end or of a reaping `Settle`, a deletion `Withdraw`,
and everything else is a stutter. A reaping, a deletion or a batch of either
settles several tasks at once, and does for each of them what it does for one.

`PeriodicQueueProofs` proves the three safety invariants of `PeriodicQueue`
and that it implements `Metronome`, for every
number of workers, schedules, `schedule()` calls and faults (assumptions: the types
of the constants, and that `NULL` is none of the values). `SInv` is what all
three need: a row's id and version belong to no other row (`Rows`) and to calls
that were made (`Known`); a claim's row is as the claim read it, was due, and had
no lease left (`HeldBy`). `Steps` shows that each step keeps it and is a
claim, an unlock, a tick of the clock, or `Calm`: neither a schedule's next run
nor its lease changes unless its row is new. On it rest

- `PeriodicTyped` (`TypeOK`);
- `EachTickOnce` (`TicksSkipped`) from `ClocksNotBehind`: a schedule is later than
  every run of its version (`Advancing`). The assumption is needed for cron
  only: a worker that is behind the database computes an instant that is already due, and
  its next poll fires it again;
- `LeaseSeparates` (`OverlapNeedsOverrun`), with any clocks: as long as no run
  of a row has outlived its lease, the row shows the lease of the run that has
  one, it is not over, and no other leased run of the row is left (`Leased`). The end of a
  run clears by id, so this is where an expired lease would let it clear another's;
- `SchedulesKeepTime` (`KeepsTime`), from `ClocksNotBehind` again, which a cron plan
  needs to move past the time it fired: `ScheduleSets`, `RemoveDrops`,
  `CommitFires`, `EndsBeats` and `TickKeepsTime` map each step to its action of
  `Metronome`. That a leased beat is not `Busy` when it fires is `Leased` and the
  claim's guard that no lease is left (`LeaseFree`). Of clients nothing is assumed
  but `ClientAssumption` (`Lag` is any set of integers): a new version starts no
  earlier than its client read (`FirstRunType`), and what a late reading
  sets again fires once again.

All safety invariants that a passing run checks are theorems, under the conditions
named above, and so are the four refinements: `VersionQueue`, `Metronome`,
`Supervisor` and `AtomicBatches`. Only model-checked is liveness, which
the prover does not handle together with fairness: `Drains`, `ParkedRuns`,
`DueFires`, `Stops`, `Reaped`, `BatchEnds`.

## Not modelled

- Handlers, hooks, error texts and logging.
- Reads (`get_task`, counts, lists) and the values of priorities.
- `stale_task_timeout=None`: the reaper never runs. Safety is covered by runs
  where it does not; liveness is not claimed.
- The registry and argument serialization keep no state: they are one pass
  over importlib, json, pydantic and dill, and a model of them would be
  a model of those libraries. What their failures do is `StartFail`.
- Migrations are DDL that Alembic runs in one order with no worker beside it.
- A worker outside the main thread, which has no signal handlers; connections
  a pool drops for their age (`pool_recycle`) or health (`pool_pre_ping`).
- A child that unwinds into the parent's loop (worker.py:305) and descriptors that
  leak when `fork` fails (worker.py:369): hazards without a property, with
  the reason in `PROJECT.json`.

## Plan

One loop with both tables: what a claim from `pq_tasks` delays in `pq_periodic`.
