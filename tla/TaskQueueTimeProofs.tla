------------------------- MODULE TaskQueueTimeProofs -------------------------
(***************************************************************************)
(* The reaper of TaskQueue takes no run for dead that lives, for every     *)
(* number of workers, rows and submissions, when its window is not shorter *)
(* than a run can last: its cap and its alarm, the time from claim to      *)
(* fork, and the drift of the clock that wrote started_at.                 *)
(***************************************************************************)
EXTENDS TaskQueueRowProofs

\* "stale_task_timeout must be greater than the maximum task runtime"
\* (docstring of reap_stale_tasks), for the window of every row.
WindowsFit == \A w \in Worker, s \in Submission :
    Effective(s) + 1 + StartDelay <= Window(s) + Skew[w]

\* A claim is forked in time, by the worker that made it ...
Started == \A w \in Worker : pc[w] \in {"claim", "start"} => now <= since[w] + StartDelay

Waits(r) == /\ run[r].parent \in Worker /\ pc[run[r].parent] = "start"
            /\ run[r].at = since[run[r].parent]
            /\ run[r].started_at = run[r].at + Skew[run[r].parent]

\* ... and its child ends in time.
EndsInTime(r) == /\ run[r].at \in Int /\ now <= Deadline(r)
            /\ \E w \in Worker : run[r].at + Skew[w] <= run[r].started_at + StartDelay

Timely == \A r \in Runs : /\ run[r].phase = "claimed" => Waits(r)
                          /\ Alive(r) => EndsInTime(r)

OneClaimed == \A r, s \in Runs :
    run[r].phase = "claimed" /\ run[s].phase = "claimed" /\ run[r].parent = run[s].parent => r = s

\* So a row is never taken from a run that lives, unless it is deleted.
OwnsCapped(r) == Owns(r) /\ run[r].limit = Effective(row[run[r].task].spec)

LiveOwns == \A r \in Runs :
    Live(r) => row[run[r].task].status = "absent" \/ OwnsCapped(r)

Alone == \A r, s \in Runs : Live(r) /\ Live(s) /\ run[r].task = run[s].task => r = s

\* A client_id has one row, and a run that of its row.
OneOwner == \A t, u \in TaskId :
    /\ row[t].status # "absent" /\ row[u].status # "absent"
    /\ row[t].client = row[u].client /\ row[t].client # NULL
    => t = u

SameClient == \A r \in Runs :
    row[run[r].task].status # "absent" => row[run[r].task].client = run[r].client

\* A row that lost its child's client_id to a newer row is gone.
OldDeleted == \A r, s \in Runs :
    /\ r < s /\ Live(r) /\ Live(s) /\ run[r].client = run[s].client /\ run[r].client # NULL
    => row[run[r].task].status = "absent"

CInv == OneOwner /\ SameClient /\ OldDeleted

TInv == Started /\ Timely /\ OneClaimed /\ LiveOwns /\ Alone
-----------------------------------------------------------------------------
LEMMA WindowsCoverDrift == ASSUME WindowsFit PROVE ClocksInWindow
<1> SUFFICES ASSUME NEW w \in Worker PROVE Skew[w] + StaleTimeout >= 0
  BY DEF ClocksInWindow
<1> DEFINE s == [ver |-> 1, priority |-> 0, run_at |-> 0, max_runtime |-> NULL]
<1>1. s \in Submission /\ s.max_runtime = NULL
  BY BoundsAssumption DEF Submission, Version
<1> HIDE DEF s
<1>2. Effective(s) = MaxRuntime /\ Window(s) = StaleTimeout
  BY <1>1 DEF Effective, Window
<1>3. Effective(s) + 1 + StartDelay <= Window(s) + Skew[w]
  BY <1>1 DEF WindowsFit
<1> QED BY <1>2, <1>3, BoundsAssumption, WorkerAssumption

\* The row of a run that lives is not stale.
LEMMA NotStale ==
    ASSUME WindowsFit, IInv, OInv, TInv, NEW r \in Runs, Live(r), OwnsCapped(r),
           NEW x \in Int, x <= now
    PROVE  ~Stale(run[r].task, x)
<1> DEFINE t == run[r].task
           s == row[t].spec
<1>1. /\ row[t].status = "running" /\ row[t].started_at = run[r].started_at
      /\ run[r].limit = Effective(s) /\ t \in TaskId /\ run[r].started_at \in Int
      /\ run[r] \in Run
  BY RunType DEF OwnsCapped, Owns, IInv, OInv, Dated, Live
<1>2. s \in Submission /\ Effective(s) \in Nat
  BY <1>1, RowType, EffectiveType DEF IInv
<1> HIDE DEF t, s
<1>3. Window(s) \in Int /\ StartDelay \in Nat /\ now \in Int
  BY <1>2, BoundsAssumption DEF Window, Submission, IInv, TypeOK
<1>4. \A w \in Worker : Skew[w] \in Int /\ Effective(s) + 1 + StartDelay <= Window(s) + Skew[w]
  BY <1>2, WorkerAssumption DEF WindowsFit
<1>5. now <= run[r].started_at + Window(s)
  <2>1. CASE run[r].phase = "claimed"
    <3>1. Waits(r) /\ now <= since[run[r].parent] + StartDelay
          /\ since[run[r].parent] \in Int
      BY <2>1, ClockTypes DEF TInv, Timely, Started, Waits, InTx
    <3> QED BY <1>1, <1>2, <1>3, <1>4, <3>1 DEF Waits
  <2>2. CASE run[r].phase = "running"
    <3>1. EndsInTime(r)
      BY <2>2 DEF TInv, Timely, Alive
    <3>2. PICK w \in Worker : run[r].at + Skew[w] <= run[r].started_at + StartDelay
      BY <3>1 DEF EndsInTime
    <3>3. run[r].at \in Int /\ now <= run[r].at + Effective(s) + 1
      BY <1>1, <3>1 DEF EndsInTime, Deadline
    <3> QED BY <1>1, <1>2, <1>3, <1>4, <3>2, <3>3
  <2> QED BY <2>1, <2>2 DEF Live
<1> QED BY <1>1, <1>3, <1>5 DEF Stale, s, t
-----------------------------------------------------------------------------
(* A step that starts no run *)

Stands(w) == pc'[w] = pc[w] /\ since'[w] = since[w]

RunStays(r) ==
    /\ run'[r].phase = run[r].phase /\ run'[r].at = run[r].at
    /\ run[r].phase = "claimed" =>
          /\ run'[r].parent = run[r].parent
          /\ run[r].parent \in Worker => Stands(run[r].parent)

Forked(r) == run[r].phase = "claimed" /\ run'[r].phase = "running" /\ run'[r].at = now

RunLives(r) ==
    Live(r)' => (RunStays(r) \/ Forked(r)) /\ run'[r].limit = run[r].limit

LEMMA OwnersLive ==
    ASSUME WindowsFit, IInv, IInv', OInv, TInv, Moved, \A r \in Runs : RunLives(r)
    PROVE  LiveOwns' /\ Alone'
<1>1. ASSUME NEW r \in Runs, Live(r)'
      PROVE  /\ Live(r) /\ RunMoves(r) /\ run'[r].limit = run[r].limit
             /\ run'[r].phase # "over"
  BY <1>1 DEF RunLives, RunStays, Forked, Live, Moved
<1>2. Alone'
  BY <1>1 DEF Alone, TInv, RunMoves, Moved, Runs
<1>3. LiveOwns'
  <2> SUFFICES ASSUME NEW r \in Runs, Live(r)', row'[run'[r].task].status # "absent"
               PROVE  OwnsCapped(r)'
    BY DEF LiveOwns, Moved, Runs
  <2> DEFINE t == run[r].task
  <2>1. /\ Live(r) /\ run'[r].limit = run[r].limit /\ run'[r].phase # "over"
        /\ run'[r].task = t /\ run'[r].ver = run[r].ver /\ t \in TaskId
        /\ run'[r].started_at = run[r].started_at
    BY <1>1, RunType DEF RunMoves, IInv
  <2>2. row[t].status = "absent" \/ OwnsCapped(r)
    BY <2>1 DEF TInv, LiveOwns
  <2> HIDE DEF t
  <2>3. CASE Alike(t)
    <3>1. OwnsCapped(r)
      BY <2>1, <2>2, <2>3 DEF Alike
    <3>2. Newest(r)'
      BY <3>1 DEF OwnsCapped, Owns, Newest, Moved, RunMoves, Runs
    <3> QED BY <2>1, <2>3, <3>1, <3>2 DEF OwnsCapped, Owns, Alike, t
  <2>4. CASE Inserted(t)
    <3>1. t < nextId
      BY DEF IInv, Newer, t
    <3>2. t \in Int /\ nextId \in Int
      BY <2>1, BoundsAssumption DEF IInv, TypeOK, TaskId
    <3> QED BY <2>4, <3>1, <3>2 DEF Inserted
  <2>5. CASE Replaced(t)
    BY <2>2, <2>5 DEF Replaced, OwnsCapped, Owns, t
  <2>6. CASE Taken(t)
    <3>1. PICK w \in Worker : pc[w] = "apply" /\ Stale(t, since[w])
      BY <2>6 DEF Taken
    <3>2. since[w] \in Int /\ since[w] <= now
      BY <3>1, ClockTypes DEF OInv, Clocked, InTx
    <3> QED BY <2>1, <2>2, <2>6, <3>1, <3>2, NotStale DEF Taken, t
  <2>7. CASE Settled(t)
    <3>1. PICK q \in Runs : run[q].task = t /\ Owns(q) /\ run'[q].phase = "over"
      BY <2>7 DEF Settled
    <3>2. q # r /\ q \in Int /\ r \in Int
      BY <2>1, <3>1, RunsDomain DEF IInv, TypeOK
    <3> QED BY <2>2, <2>7, <3>1, <3>2 DEF OwnsCapped, Owns, Newest, Settled, t
  <2> QED BY <2>1, <2>3, <2>4, <2>5, <2>6, <2>7 DEF Moved, RowMoves
<1> QED BY <1>2, <1>3

LEMMA TimesKept ==
    ASSUME IInv, IInv', OInv, TInv, Moved, UNCHANGED now, \A r \in Runs : RunLives(r)
    PROVE  Started' /\ Timely' /\ OneClaimed'
<1>1. now \in Int /\ StartDelay \in Nat
  BY BoundsAssumption DEF IInv, TypeOK
<1>2. Started'
  <2> SUFFICES ASSUME NEW w \in Worker, pc'[w] \in {"claim", "start"}
               PROVE  now <= since'[w] + StartDelay
    BY DEF Started
  <2>1. \/ pc[w] \in {"claim", "start"} /\ since'[w] = since[w]
        \/ since'[w] = now
    BY DEF Moved, WorkerMoves, Steady, InTx
  <2> QED BY <1>1, <2>1 DEF TInv, Started
<1>3. ASSUME NEW r \in Runs, run'[r].phase = "claimed"
      PROVE  RunStays(r) /\ run[r].phase = "claimed" /\ RunMoves(r)
  BY <1>3 DEF RunLives, RunStays, Forked, Live, Moved
<1>4. OneClaimed'
  BY <1>3 DEF OneClaimed, TInv, RunStays, Moved, Runs
<1>5. Timely'
  <2>1. ASSUME NEW r \in Runs, run'[r].phase = "claimed" PROVE Waits(r)'
    <3>1. /\ Waits(r) /\ RunStays(r) /\ run[r].phase = "claimed"
          /\ run'[r].started_at = run[r].started_at
      BY <1>3, <2>1 DEF TInv, Timely, RunMoves
    <3> QED BY <3>1 DEF Waits, RunStays, Stands
  <2>2. ASSUME NEW r \in Runs, run'[r].phase = "running" PROVE EndsInTime(r)'
    <3>1. /\ RunStays(r) \/ Forked(r)
          /\ run'[r].limit = run[r].limit /\ run'[r].started_at = run[r].started_at
      BY <2>2 DEF RunLives, Live, Moved, RunMoves
    <3>2. CASE RunStays(r)
      <4>1. EndsInTime(r) /\ run'[r].at = run[r].at
        BY <2>2, <3>2 DEF RunStays, TInv, Timely, Alive
      <4> QED BY <3>1, <4>1 DEF EndsInTime, Deadline
    <3>3. CASE Forked(r)
      <4>1. Waits(r) /\ run[r].limit \in Nat /\ run[r].started_at \in Int
        BY <3>3, RunType DEF Forked, TInv, Timely, Run, OInv, Dated, IInv
      <4>2. /\ now <= since[run[r].parent] + StartDelay /\ since[run[r].parent] \in Int
            /\ Skew[run[r].parent] \in Int
        BY <4>1, ClockTypes, WorkerAssumption DEF Waits, TInv, Started, InTx
      <4>3. now + Skew[run[r].parent] <= run[r].started_at + StartDelay
        BY <1>1, <4>1, <4>2 DEF Waits
      <4>4. \E w \in Worker : run'[r].at + Skew[w] <= run'[r].started_at + StartDelay
        BY <3>1, <3>3, <4>1, <4>3 DEF Forked, Waits
      <4> QED BY <1>1, <3>1, <3>3, <4>1, <4>4 DEF EndsInTime, Deadline, Forked
    <3> QED BY <3>1, <3>2, <3>3
  <2> QED BY <2>1, <2>2 DEF Timely, Alive, Moved, Runs
<1> QED BY <1>2, <1>4, <1>5

LEMMA StillTimely ==
    ASSUME WindowsFit, IInv, IInv', OInv, TInv, Moved, UNCHANGED now, \A r \in Runs : RunLives(r)
    PROVE  TInv'
BY OwnersLive, TimesKept DEF TInv
-----------------------------------------------------------------------------
(* The steps *)

LEMMA LivesOn ==
    ASSUME TInv, NEW w \in Worker, \A v \in Worker \ {w} : Stands(v),
           \A r \in Runs : Live(r)' =>
               /\ \/ run'[r] = run[r] /\ (run[r].phase = "claimed" => run[r].parent # w)
                  \/ Alive(r) /\ Alive(r)' /\ run'[r].at = run[r].at
                  \/ Forked(r)
               /\ run'[r].limit = run[r].limit
    PROVE  \A r \in Runs : RunLives(r)
BY DEF RunLives, RunStays, Alive

\* A claimed run waits for its parent, so the others have other parents.
LEMMA OtherParents ==
    ASSUME TInv, NEW w \in Worker, NEW r \in Runs, run[r].phase = "claimed"
    PROVE  /\ pc[w] # "start" => run[r].parent # w
           /\ \A q \in Runs : run[q].phase = "claimed" /\ run[q].parent = w /\ r # q =>
                                  run[r].parent # w
BY DEF TInv, Timely, Waits, OneClaimed

LEMMA WorkerGoes ==
    ASSUME IInv, NEW w \in Worker, Work(w) \/ Break(w)
    PROVE  UNCHANGED now /\ \A v \in Worker \ {w} : Stands(v)
<1>1. /\ UNCHANGED now /\ \E p : Goto(w, p)
      /\ UNCHANGED since \/ \E at : Mark(w, at)
  BY DEF Work, Break, Claim, Finish, Reap, ClaimSelect, PollEmpty, ClaimCommit, Fork, StartFail,
         SelectTimeout, FinishSelect, FinishCommit, ReapBegin, ReapUpdate, ReapSelect, ReapCommit,
         ReapNotDue, ClaimAbort, ClaimLost, ReapAbort, Crash, SessionEnds, FinishAbort
<1>2. \A v \in Worker \ {w} : pc'[v] = pc[v]
  BY <1>1 DEF Goto, IInv, TypeOK
<1>3. \A v \in Worker \ {w} : since'[v] = since[v]
  BY <1>1 DEF Mark, IInv, TypeOK
<1> QED BY <1>1, <1>2, <1>3 DEF Stands

LEMMA WorkerLives ==
    ASSUME IInv, TInv, NEW w \in Worker, Work(w) \/ Break(w), ~ClaimCommit(w), ~ClaimLost(w)
    PROVE  \A r \in Runs : RunLives(r)
<1>1. \A v \in Worker \ {w} : Stands(v)
  BY WorkerGoes
<1>2. ASSUME NEW q \in Runs, Fork(w, q) PROVE \A r \in Runs : RunLives(r)
  <2>1. /\ run[q].phase = "claimed" /\ run[q].parent = w /\ run[q] \in Run
        /\ run' = [run EXCEPT ![q].phase = "running", ![q].at = now]
    BY <1>2, RunType DEF Fork, Mine, IInv
  <2>2. Forked(q) /\ run'[q].limit = run[q].limit
    BY <2>1 DEF Forked, Runs, Run
  <2>3. \A r \in Runs \ {q} : run'[r] = run[r]
    BY <2>1 DEF Runs
  <2>4. \A r \in Runs \ {q} : run[r].phase = "claimed" => run[r].parent # w
    BY <2>1, OtherParents
  <2>5. \A r \in Runs :
            /\ \/ run'[r] = run[r] /\ (run[r].phase = "claimed" => run[r].parent # w)
               \/ Forked(r)
            /\ run'[r].limit = run[r].limit
    BY <2>2, <2>3, <2>4
  <2> QED BY <1>1, <2>5, LivesOn
<1>3. ASSUME NEW q \in Runs, StartFail(w, q) PROVE \A r \in Runs : RunLives(r)
  <2>1. /\ run[q].phase = "claimed" /\ run[q].parent = w /\ run[q] \in Run
        /\ run' = [run EXCEPT ![q].phase = "exited", ![q].result = "failed"]
    BY <1>3, RunType DEF StartFail, Mine, IInv
  <2>2. run'[q].phase = "exited"
    BY <2>1 DEF Runs, Run
  <2>3. ~Live(q)'
    BY <2>2 DEF Live
  <2>4. \A r \in Runs \ {q} : run'[r] = run[r]
    BY <2>1 DEF Runs
  <2> QED BY <1>1, <2>1, <2>3, <2>4, OtherParents, LivesOn
<1>4. ASSUME NEW q \in Runs,
             FinishSelect(w, q) \/ FinishCommit(w, q) \/ FinishAbort(w, q)
      PROVE  \A r \in Runs : RunLives(r)
  <2>1. pc[w] # "start" /\ run[q] \in Run
    BY <1>4, RunType DEF FinishSelect, Ended, FinishCommit, FinishAbort, IInv
  <2>2. run' = Done(q, run[q].result) \/ run' = [run EXCEPT ![q].phase = "recording"]
    BY <1>4 DEF FinishSelect, FinishCommit, FinishAbort
  <2>3. run'[q].phase \in {"over", "recording"} /\ \A r \in Runs \ {q} : run'[r] = run[r]
    BY <2>1, <2>2 DEF Done, Over, Runs, Run
  <2>4. ~Live(q)'
    BY <2>3 DEF Live
  <2> QED BY <1>1, <2>1, <2>3, <2>4, OtherParents, LivesOn
<1>5. CASE Crash(w)
  <2>1. ASSUME NEW r \in Runs, Live(r)'
        PROVE  /\ \/ run'[r] = run[r] /\ run[r].parent # w
                  \/ Alive(r) /\ Alive(r)' /\ run'[r].at = run[r].at
               /\ run'[r].limit = run[r].limit
    <3>1. run[r] \in Run
      BY RunType DEF IInv
    <3>2. run'[r] = IF run[r].parent # w THEN run[r]
                    ELSE IF Alive(r) THEN [run[r] EXCEPT !.parent = NULL]
                    ELSE Over(run[r], run[r].result)
      BY <1>5 DEF Crash
    <3>3. Over(run[r], run[r].result).phase = "over"
      BY <3>1 DEF Over, Run
    <3> QED BY <2>1, <3>1, <3>2, <3>3 DEF Live, Alive, Run
  <2> QED BY <1>1, <2>1, LivesOn
<1>6. CASE UNCHANGED run /\ pc[w] # "start"
  BY <1>1, <1>6, OtherParents, LivesOn
<1> QED BY <1>2, <1>3, <1>4, <1>5, <1>6
        DEF Work, Break, Claim, Finish, Reap, ClaimSelect, PollEmpty, SelectTimeout, ReapBegin,
            ReapUpdate, ReapSelect, ReapCommit, ReapNotDue, ClaimAbort, ReapAbort, SessionEnds

LEMMA OthersLive ==
    ASSUME IInv, Submit \/ Remove \/ Exit \/ Tick \/ UNCHANGED vars
    PROVE  \A r \in Runs : RunLives(r)
<1>1. \A v \in Worker : Stands(v)
  BY DEF Submit, Upsert, Enqueue, UpsertConflict, Remove, Cancel, ClearAll, Clear, Delete,
         Exit, ChildExit, Tick, loop, vars, Stands
<1>2. CASE UNCHANGED run
  BY <1>1, <1>2 DEF RunLives, RunStays
<1>3. CASE Exit
  <2>1. PICK q \in Runs, res \in {"completed", "failed"} : ChildExit(q, res)
    BY <1>3 DEF Exit
  <2>2. run[q] \in Run
    BY RunType DEF IInv
  <2>3. run' = Done(q, res) \/ run' = [run EXCEPT ![q].phase = "exited", ![q].result = res]
    BY <2>1 DEF ChildExit
  <2>4. run'[q].phase \in {"over", "exited"} /\ \A r \in Runs \ {q} : run'[r] = run[r]
    <3>1. CASE run' = Done(q, res)
      BY <2>2, <3>1 DEF Done, Over, Runs, Run
    <3>2. CASE run' = [run EXCEPT ![q].phase = "exited", ![q].result = res]
      BY <2>2, <3>2 DEF Runs, Run
    <3> QED BY <2>3, <3>1, <3>2
  <2> QED BY <1>1, <2>4 DEF RunLives, RunStays, Live
<1> QED BY <1>2, <1>3 DEF Submit, Upsert, Enqueue, UpsertConflict, Remove, Cancel, ClearAll,
                          Clear, Delete, Tick, vars

LEMMA TickTimely ==
    ASSUME WindowsFit, IInv, IInv', OInv, TInv, Tick
    PROVE  TInv'
<1>1. /\ now' = now + 1 /\ now \in Int /\ UNCHANGED <<run, pc, since>>
      /\ \A r \in Runs : Alive(r) => now < Deadline(r)
      /\ \A w \in Worker : pc[w] \in {"claim", "start"} => now < since[w] + StartDelay
  BY DEF Tick, loop, IInv, TypeOK
<1>2. LiveOwns' /\ Alone'
  BY OthersMoved, OthersLive, OwnersLive
<1>3. OneClaimed'
  BY <1>1 DEF OneClaimed, TInv, Runs
<1>4. Started'
  <2> SUFFICES ASSUME NEW w \in Worker, pc[w] \in {"claim", "start"}
               PROVE  now + 1 <= since[w] + StartDelay
    BY <1>1 DEF Started
  <2>1. since[w] \in Int /\ StartDelay \in Int
    BY ClockTypes, BoundsAssumption DEF InTx
  <2> QED BY <1>1, <2>1
<1>5. Timely'
  <2>1. ASSUME NEW r \in Runs, run[r].phase = "claimed" PROVE Waits(r)'
    <3>1. Waits(r)
      BY <2>1 DEF TInv, Timely
    <3> QED BY <1>1, <3>1 DEF Waits
  <2>2. ASSUME NEW r \in Runs, Alive(r) PROVE EndsInTime(r)'
    <3>1. EndsInTime(r) /\ run[r] \in Run /\ now < Deadline(r)
      BY <1>1, <2>2, RunType DEF TInv, Timely, IInv
    <3>2. run[r].at \in Int /\ run[r].limit \in Int
      BY <3>1 DEF EndsInTime, Run
    <3>3. now + 1 <= Deadline(r)
      BY <1>1, <3>1, <3>2 DEF Deadline
    <3> QED BY <1>1, <3>1, <3>3 DEF EndsInTime, Deadline
  <2> QED BY <1>1, <2>1, <2>2 DEF Timely, Alive, Runs
<1> QED BY <1>2, <1>3, <1>4, <1>5 DEF TInv

\* A claim takes a PENDING row, so no run of it lives.
LEMMA TakeTimely ==
    ASSUME IInv, TInv, NEW w \in Worker, NEW p, pc[w] = "claim",
           NEW t \in DOMAIN tx[w], NEW e \in Run, Take(w, t), run' = Append(run, e),
           e.task = t, e.ver = tx[w][t].spec.ver, e.phase \in {"claimed", "over"},
           e.phase = "claimed" =>
               /\ e.started_at = since[w] + Skew[w] /\ e.at = since[w] /\ e.parent = w
               /\ e.limit = Effective(tx[w][t].spec) /\ p = "start",
           UNCHANGED now, Goto(w, p), \A v \in Worker \ {w} : Stands(v),
           p = "start" => since' = since, p # "claim"
    PROVE  TInv'
<1> DEFINE n  == Len(run) + 1
           at == since[w] + Skew[w]
<1>1. /\ t \in TaskId /\ row \in [TaskId -> Row] /\ row[t] \in Row
      /\ tx[w][t] = row[t] /\ row[t].status = "pending"
      /\ pc'[w] = p
  BY DEF IInv, TypeOK, Held, HeldBy, Goto
<1>2. /\ row'[t].status = "running" /\ row'[t].started_at = at /\ row'[t].spec = row[t].spec
      /\ \A u \in TaskId \ {t} : row'[u] = row[u]
  BY <1>1 DEF Take, Row
<1>3. /\ n \in Nat /\ Runs = 1 .. Len(run) /\ Len(run) \in Nat /\ n \notin Runs
      /\ DOMAIN run' = Runs \cup {n} /\ run'[n] = e /\ \A r \in Runs : run'[r] = run[r]
  BY RunAppend DEF IInv, TypeOK
<1> HIDE DEF n, at
<1>4. \A r \in Runs : run[r].phase = "claimed" => run[r].parent \in Worker \ {w}
  BY DEF TInv, Timely, Waits
<1>5. \A r \in Runs : Live(r) => run[r].task # t
  BY <1>1 DEF TInv, LiveOwns, OwnsCapped, Owns
<1>6. Started'
  BY <1>1 DEF Started, TInv, Stands
<1>7. Timely'
  <2>1. ASSUME NEW r \in Runs, run[r].phase = "claimed" PROVE Waits(r)'
    BY <1>3, <1>4, <2>1 DEF TInv, Timely, Waits, Stands
  <2>2. ASSUME NEW r \in Runs, Alive(r) PROVE EndsInTime(r)'
    BY <1>3, <2>2 DEF TInv, Timely, EndsInTime, Deadline
  <2>3. ASSUME NEW r \in DOMAIN run'
        PROVE  /\ run'[r].phase = "claimed" => Waits(r)'
               /\ run'[r].phase = "running" => EndsInTime(r)'
    <3>1. CASE r = n
      BY <1>1, <1>3, <3>1 DEF Waits
    <3>2. CASE r \in Runs
      BY <1>3, <2>1, <2>2, <3>2 DEF Alive
    <3> QED BY <1>3, <3>1, <3>2
  <2> QED BY <2>3 DEF Timely, Alive, Runs
<1>8. OneClaimed'
  BY <1>3, <1>4 DEF OneClaimed, TInv, Runs
<1>9. Alone'
  BY <1>3, <1>5 DEF Alone, TInv, Live, Runs
<1>10. LiveOwns'
  <2> SUFFICES ASSUME NEW r \in DOMAIN run', Live(r)', row'[run'[r].task].status # "absent"
               PROVE  OwnsCapped(r)'
    BY DEF LiveOwns, Runs
  <2>1. CASE r = n
    <3>1. Newest(r)'
      BY <1>3, <2>1 DEF Newest, Runs, n
    <3>2. e.phase = "claimed"
      BY <1>3, <2>1 DEF Live
    <3> QED BY <1>1, <1>2, <1>3, <2>1, <3>1, <3>2 DEF OwnsCapped, Owns, at
  <2>2. CASE r \in Runs
    <3>1. run'[r] = run[r] /\ run[r].task \in TaskId /\ Live(r)
      BY <1>3, <2>2, RunType DEF IInv, Live
    <3>2. run[r].task # t /\ row'[run[r].task] = row[run[r].task]
      BY <1>2, <1>5, <2>2, <3>1
    <3>3. OwnsCapped(r)
      BY <2>2, <3>1, <3>2 DEF TInv, LiveOwns
    <3>4. Newest(r)'
      BY <1>3, <3>2, <3>3 DEF OwnsCapped, Owns, Newest, Runs
    <3> QED BY <3>1, <3>2, <3>3, <3>4 DEF OwnsCapped, Owns
  <2> QED BY <1>3, <2>1, <2>2
<1> QED BY <1>6, <1>7, <1>8, <1>9, <1>10 DEF TInv

LEMMA ClaimTimely ==
    ASSUME IInv, TInv, NEW w \in Worker, ClaimCommit(w) \/ ClaimLost(w)
    PROVE  TInv'
<1>1. pc[w] = "claim" /\ UNCHANGED now /\ \A v \in Worker \ {w} : Stands(v)
  BY WorkerGoes DEF ClaimCommit, ClaimLost, Work, Claim, Break
<1>2. ASSUME NEW t \in DOMAIN tx[w]
      PROVE  /\ Claimed(w, t, tx[w][t]) \in Run /\ Claimed(w, t, tx[w][t]).task = t
             /\ Claimed(w, t, tx[w][t]).ver = tx[w][t].spec.ver
             /\ Claimed(w, t, tx[w][t]).phase = "claimed"
  <2>1. /\ t \in TaskId /\ tx[w][t] = row[t] /\ row[t].status = "pending"
        /\ since[w] \in Int
    BY <1>1 DEF IInv, TypeOK, Held, HeldBy
  <2>2. tx[w][t] \in Row /\ tx[w][t].spec \in Submission
    BY <2>1, RowType DEF IInv
  <2> QED BY <2>1, <2>2, ClaimedType
<1>3. CASE ClaimCommit(w)
  <2>1. PICK t \in DOMAIN tx[w] : Take(w, t) /\ run' = Append(run, Claimed(w, t, tx[w][t]))
    BY <1>3 DEF ClaimCommit
  <2> DEFINE e == Claimed(w, t, tx[w][t])
  <2>2. /\ e \in Run /\ e.task = t /\ e.ver = tx[w][t].spec.ver /\ e.phase = "claimed"
        /\ run' = Append(run, e)
    BY <1>2, <2>1
  <2>3. /\ e.started_at = since[w] + Skew[w] /\ e.at = since[w] /\ e.parent = w
        /\ e.limit = Effective(tx[w][t].spec)
    BY DEF Claimed
  <2>4. Goto(w, "start") /\ since' = since
    BY <1>3 DEF ClaimCommit
  <2> HIDE DEF e
  <2> QED BY <1>1, <2>1, <2>2, <2>3, <2>4, TakeTimely
<1>4. CASE ClaimLost(w)
  <2>1. PICK t \in DOMAIN tx[w] :
           Take(w, t) /\ run' = Append(run, Over(Claimed(w, t, tx[w][t]), NULL))
    BY <1>4 DEF ClaimLost
  <2> DEFINE e == Over(Claimed(w, t, tx[w][t]), NULL)
  <2>2. /\ e \in Run /\ e.task = t /\ e.ver = tx[w][t].spec.ver /\ e.phase = "over"
        /\ run' = Append(run, e)
    BY <1>2, <2>1, OverType
  <2>3. Goto(w, AfterNoClaim) /\ AfterNoClaim \notin {"claim", "start"}
    BY <1>4 DEF ClaimLost, AfterNoClaim
  <2> HIDE DEF e
  <2> QED BY <1>1, <2>1, <2>2, <2>3, TakeTimely
<1> QED BY <1>3, <1>4
-----------------------------------------------------------------------------
(* The invariant *)

LEMMA TimeNext ==
    WindowsFit /\ IInv /\ IInv' /\ OInv /\ TInv /\ [Next]_vars => TInv'
<1> SUFFICES ASSUME WindowsFit, IInv, IInv', OInv, TInv, [Next]_vars PROVE TInv'
  OBVIOUS
<1>1. CASE \E w \in Worker : ClaimCommit(w) \/ ClaimLost(w)
  BY <1>1, ClaimTimely
<1>2. CASE \E w \in Worker : (Work(w) \/ Break(w)) /\ ~ClaimCommit(w) /\ ~ClaimLost(w)
  BY <1>2, WorkerMoved, WorkerGoes, WorkerLives, StillTimely
<1>3. CASE Tick
  BY <1>3, TickTimely
<1>4. CASE Submit \/ Remove \/ Exit \/ UNCHANGED vars
  <2>1. UNCHANGED now
    BY <1>4 DEF Submit, Upsert, Enqueue, UpsertConflict, Remove, Cancel, ClearAll, Clear, Delete,
                Exit, ChildExit, vars
  <2> QED BY <1>4, <2>1, OthersMoved, OthersLive, StillTimely
<1> QED BY <1>1, <1>2, <1>3, <1>4 DEF Next

LEMMA TimeInit == Init => TInv
<1> SUFFICES ASSUME Init PROVE TInv
  OBVIOUS
<1>1. Runs = {} /\ \A w \in Worker : pc[w] = "poll"
  BY EmptySeq DEF Init, Runs
<1> QED BY <1>1 DEF TInv, Started, Timely, OneClaimed, LiveOwns, Alone

LEMMA Timeliness == ASSUME WindowsFit PROVE Spec => [](IInv /\ OInv /\ TInv)
<1>1. IInv /\ IInv' /\ OInv /\ TInv /\ [Next]_vars => TInv'
  BY TimeNext
<1>2. ClocksInWindow
  BY WindowsCoverDrift
<1>3. Spec => []OInv
  BY <1>2, Ownership
<1> QED BY <1>1, <1>3, TimeInit, Invariance, PTL DEF Spec

\* The reaper takes no row whose child is about to be forked or runs, as
\* reap_stale_tasks asks of stale_task_timeout: every window covers the cap of
\* its row, one second of alarm, the start and the drift of the clocks.
THEOREM ReaperSparesTheLiving == ASSUME WindowsFit PROVE Spec => []ReapsOnlyDead
<1>1. ASSUME IInv, OInv, TInv PROVE ReapsOnlyDead
  <2> SUFFICES ASSUME NEW w \in Worker, NEW r \in Runs, pc[w] \in {"requeue", "apply"}, Live(r),
                      run[r].task \in DOMAIN tx[w]
               PROVE  FALSE
    BY DEF ReapsOnlyDead
  <2>1. Stale(run[r].task, since[w]) /\ row[run[r].task].status = "running"
    BY <1>1 DEF OInv, StaleHeld, IInv, Held, HeldBy
  <2>2. since[w] \in Int /\ since[w] <= now
    BY <1>1, ClockTypes DEF OInv, Clocked, InTx
  <2>3. OwnsCapped(r)
    BY <1>1, <2>1 DEF TInv, LiveOwns
  <2> QED BY <1>1, <2>1, <2>2, <2>3, NotStale
<1> QED BY <1>1, Timeliness, PTL

\* Under the same condition two children never run for one row at the same
\* time, whatever crashes, parked versions and reapers do in between.
THEOREM RowsRunAlone == ASSUME WindowsFit PROVE Spec => []NoOverlap
<1>1. TInv => NoOverlap
  BY DEF TInv, Alone, NoOverlap, Alive, Live
<1> QED BY <1>1, Timeliness, PTL

-----------------------------------------------------------------------------
(* The rows and the runs of one client_id *)

\* Only an insert gives a row its client_id, and then no other row has it.
LEMMA OwnersKept ==
    ASSUME IInv, OneOwner, \A t \in TaskId : RowMoves(t)
    PROVE  OneOwner'
<1> SUFFICES ASSUME NEW t \in TaskId, NEW u \in TaskId, t # u,
                    row'[t].status # "absent", row'[u].status # "absent",
                    row'[t].client = row'[u].client, row'[t].client # NULL
             PROVE  FALSE
  BY DEF OneOwner
<1>1. ASSUME NEW v \in TaskId, row'[v].status # "absent", ~Inserted(v)
      PROVE  row[v].status # "absent" /\ row'[v].client = row[v].client
  BY <1>1 DEF RowMoves, Alike, Replaced, Taken, Settled
<1>2. ASSUME NEW v \in TaskId, NEW x \in TaskId, Inserted(v), x # v, row'[x].status # "absent",
             row'[v].client # NULL
      PROVE  row'[x].client # row'[v].client
  BY <1>1, <1>2 DEF Inserted, Owner
<1> QED BY <1>1, <1>2 DEF OneOwner

LEMMA ClientsKept ==
    ASSUME IInv, CInv, Moved, \A r \in Runs : RunLives(r)
    PROVE  CInv'
<1>1. OneOwner'
  BY OwnersKept DEF CInv, Moved
<1>2. ASSUME NEW r \in Runs
      PROVE  /\ run'[r].task = run[r].task /\ run'[r].client = run[r].client
             /\ row'[run[r].task].status # "absent" =>
                   /\ row[run[r].task].status # "absent"
                   /\ row'[run[r].task].client = row[run[r].task].client
             /\ Live(r)' => Live(r)
  <2> DEFINE t == run[r].task
  <2>1. t \in TaskId /\ t < nextId
    BY RunType DEF IInv, Newer
  <2>2. ~Inserted(t)
    BY <2>1, BoundsAssumption DEF Inserted, TaskId, IInv, TypeOK
  <2>3. /\ run'[r].task = t /\ run'[r].client = run[r].client /\ RowMoves(t)
        /\ Live(r)' => Live(r)
    BY <2>1 DEF Moved, RunMoves, RunLives, RunStays, Forked, Live
  <2> QED BY <2>2, <2>3 DEF RowMoves, Alike, Replaced, Taken, Settled
<1>3. DOMAIN run' = Runs
  BY DEF Moved
<1>4. SameClient'
  BY <1>2, <1>3 DEF SameClient, CInv, Runs
<1>5. OldDeleted'
  BY <1>2, <1>3 DEF OldDeleted, CInv, Runs
<1> QED BY <1>1, <1>4, <1>5 DEF CInv

\* A claim: an older child of the client_id that still has its row would be a
\* child of this row, which is PENDING.
LEMMA TakeClient ==
    ASSUME IInv, TInv, CInv, NEW w \in Worker, pc[w] = "claim", NEW t \in DOMAIN tx[w],
           NEW e \in Run, Take(w, t), run' = Append(run, e),
           e.task = t, e.client = tx[w][t].client
    PROVE  CInv'
<1> DEFINE n == Len(run) + 1
<1>1. /\ t \in TaskId /\ row \in [TaskId -> Row] /\ row[t] \in Row
      /\ tx[w][t] = row[t] /\ row[t].status = "pending"
  BY DEF IInv, TypeOK, Held, HeldBy
<1>2. /\ row'[t].status = "running" /\ row'[t].client = row[t].client
      /\ \A u \in TaskId \ {t} : row'[u] = row[u]
  BY <1>1 DEF Take, Row
<1>3. /\ n \in Nat /\ Runs = 1 .. Len(run) /\ Len(run) \in Nat /\ n \notin Runs
      /\ DOMAIN run' = Runs \cup {n} /\ run'[n] = e /\ \A r \in Runs : run'[r] = run[r]
  BY RunAppend DEF IInv, TypeOK
<1>4. \A r \in Runs : n > r /\ ~(n < r) /\ run[r].task \in TaskId
  BY <1>3, RunType DEF IInv
<1> HIDE DEF n
<1>5. \A u \in TaskId : /\ row'[u].status # "absent" <=> row[u].status # "absent"
                        /\ row'[u].client = row[u].client
  BY <1>1, <1>2
<1>6. OneOwner'
  BY <1>5 DEF OneOwner, CInv
<1>7. SameClient'
  <2> SUFFICES ASSUME NEW r \in DOMAIN run', row'[run'[r].task].status # "absent"
               PROVE  row'[run'[r].task].client = run'[r].client
    BY DEF SameClient, Runs
  <2>1. CASE r = n
    BY <1>1, <1>3, <1>5, <2>1
  <2>2. CASE r \in Runs
    BY <1>3, <1>4, <1>5, <2>2 DEF SameClient, CInv
  <2> QED BY <1>3, <2>1, <2>2
<1>8. OldDeleted'
  <2> SUFFICES ASSUME NEW r \in DOMAIN run', NEW s \in DOMAIN run', r < s, Live(r)', Live(s)',
                      run'[r].client = run'[s].client, run'[r].client # NULL
               PROVE  row'[run'[r].task].status = "absent"
    BY DEF OldDeleted, Runs
  <2>1. r \in Runs /\ run'[r] = run[r] /\ run[r].task \in TaskId /\ Live(r)
    BY <1>3, <1>4 DEF Live
  <2>2. CASE s \in Runs
    BY <1>3, <1>5, <2>1, <2>2 DEF OldDeleted, CInv, Live
  <2>3. CASE s = n
    <3>1. run[r].client = row[t].client /\ row[t].client # NULL
      BY <1>1, <1>3, <2>1, <2>3
    <3>2. row[run[r].task].status # "absent" => run[r].task = t
      BY <1>1, <2>1, <3>1 DEF OneOwner, SameClient, CInv
    <3>3. run[r].task # t
      BY <1>1, <2>1 DEF TInv, LiveOwns, OwnsCapped, Owns
    <3> QED BY <1>5, <2>1, <3>2, <3>3
  <2> QED BY <1>3, <2>2, <2>3
<1> QED BY <1>6, <1>7, <1>8 DEF CInv

LEMMA ClaimClient ==
    ASSUME IInv, TInv, CInv, NEW w \in Worker, ClaimCommit(w) \/ ClaimLost(w)
    PROVE  CInv'
<1>1. pc[w] = "claim"
  BY DEF ClaimCommit, ClaimLost
<1>2. PICK t \in DOMAIN tx[w] :
         /\ Take(w, t)
         /\ \/ run' = Append(run, Claimed(w, t, tx[w][t]))
            \/ run' = Append(run, Over(Claimed(w, t, tx[w][t]), NULL))
  BY DEF ClaimCommit, ClaimLost
<1> DEFINE c == Claimed(w, t, tx[w][t])
           o == Over(c, NULL)
<1>3. /\ t \in TaskId /\ tx[w][t] = row[t] /\ row[t].status = "pending"
      /\ since[w] \in Int
  BY <1>1, <1>2 DEF IInv, TypeOK, Held, HeldBy
<1>4. tx[w][t] \in Row /\ tx[w][t].spec \in Submission
  BY <1>3, RowType DEF IInv
<1>5. c \in Run /\ c.task = t /\ c.client = tx[w][t].client
  BY <1>3, <1>4, ClaimedType DEF Claimed
<1>6. o \in Run /\ o.task = t /\ o.client = tx[w][t].client
  BY <1>5, OverType DEF Over, Run
<1> HIDE DEF c, o
<1>7. run' = Append(run, c) \/ run' = Append(run, o)
  BY <1>2 DEF c, o
<1> QED BY <1>1, <1>2, <1>5, <1>6, <1>7, TakeClient

LEMMA ClientNext == IInv /\ OInv /\ TInv /\ CInv /\ [Next]_vars => CInv'
<1> SUFFICES ASSUME IInv, OInv, TInv, CInv, [Next]_vars PROVE CInv'
  OBVIOUS
<1>1. CASE \E w \in Worker : ClaimCommit(w) \/ ClaimLost(w)
  BY <1>1, ClaimClient
<1>2. CASE \E w \in Worker : (Work(w) \/ Break(w)) /\ ~ClaimCommit(w) /\ ~ClaimLost(w)
  BY <1>2, WorkerMoved, WorkerLives, ClientsKept
<1>3. CASE Submit \/ Remove \/ Exit \/ Tick \/ UNCHANGED vars
  BY <1>3, OthersMoved, OthersLive, ClientsKept
<1> QED BY <1>1, <1>2, <1>3 DEF Next

LEMMA ClientInit == Init => CInv
<1> SUFFICES ASSUME Init PROVE CInv
  OBVIOUS
<1>1. Runs = {} /\ \A t \in TaskId : row[t].status = "absent"
  BY AbsentType, EmptySeq DEF Init, Runs
<1> QED BY <1>1 DEF CInv, OneOwner, SameClient, OldDeleted

\* Two children of one client_id run at the same time only if the row of the
\* older was deleted while it ran: what upsert() says of a client_id holds
\* wherever no RUNNING row is cancelled or cleared.
THEOREM OverlapNeedsDelete == ASSUME WindowsFit PROVE Spec => []OverlapMeansDeleted
<1>1. IInv /\ OInv /\ TInv /\ CInv /\ [Next]_vars => CInv'
  BY ClientNext
<1>2. CInv => OverlapMeansDeleted
  BY DEF CInv, OldDeleted, OverlapMeansDeleted, Alive, Live
<1> QED BY <1>1, <1>2, ClientInit, Timeliness, PTL DEF Spec

\* The condition holds of every row a client can submit once
\* stale_task_timeout covers the workers' own max_runtime and twice the
\* start and the drift.
THEOREM WindowsFitFrom ==
    ASSUME \A w \in Worker : /\ MaxRuntime + 1 + StartDelay <= StaleTimeout + Skew[w]
                             /\ 2 * (1 + StartDelay - Skew[w]) <= StaleTimeout
    PROVE  WindowsFit
<1> SUFFICES ASSUME NEW w \in Worker, NEW s \in Submission
             PROVE  Effective(s) + 1 + StartDelay <= Window(s) + Skew[w]
  BY DEF WindowsFit
<1>1. /\ MaxRuntime \in Nat /\ StaleTimeout \in Nat /\ StartDelay \in Nat /\ Skew[w] \in Int
      /\ MaxRuntime + 1 + StartDelay <= StaleTimeout + Skew[w]
      /\ 2 * (1 + StartDelay - Skew[w]) <= StaleTimeout
  BY BoundsAssumption, WorkerAssumption
<1>2. CASE s.max_runtime = NULL
  BY <1>1, <1>2 DEF Effective, Window
<1>3. CASE s.max_runtime # NULL
  <2>1. s.max_runtime \in Nat
    BY <1>3 DEF Submission
  <2> QED BY <1>1, <1>3, <2>1 DEF Effective, Window
<1> QED BY <1>2, <1>3
=============================================================================
