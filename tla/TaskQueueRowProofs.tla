------------------------- MODULE TaskQueueRowProofs -------------------------
(***************************************************************************)
(* What the rows of TaskQueue say: their shape, whose end they record, and *)
(* that a COMPLETED row is true, for every number of workers, rows and     *)
(* submissions.  The last two need the clocks of the workers not to be     *)
(* behind the database by more than the reaper waits.                      *)
(***************************************************************************)
EXTENDS TaskQueueProofs

\* Skew[w] is negative for a worker whose clock is behind.
ClocksInWindow == \A w \in Worker : Skew[w] + StaleTimeout >= 0

Past(r)   == run[r].started_at + StaleTimeout
Newest(r) == \A s \in Runs : s > r => run[s].task # run[r].task

\* The row of a run that is not over is its own ...
Owns(r) ==
    /\ row[run[r].task].status = "running"
    /\ row[run[r].task].started_at = run[r].started_at
    /\ row[run[r].task].spec.ver = run[r].ver
    /\ Newest(r)

\* ... or was reaped from it: then whoever claims it again writes a later
\* started_at, even with a slow clock.
Stray(r) ==
    /\ Past(r) < now
    /\ row[run[r].task].status = "running" => run[r].started_at < row[run[r].task].started_at
    /\ \A w \in Worker : pc[w] = "claim" /\ run[r].task \in DOMAIN tx[w] => Past(r) < since[w]
    /\ run[r].phase # "recording"

OwnOrStray == \A r \in Runs :
    run[r].phase # "over" => row[run[r].task].status = "absent" \/ Owns(r) \/ Stray(r)

InTx == {"claim", "start", "reap", "requeue", "apply"}

\* A transaction began in the past, and what the reaper holds was stale then.
Clocked   == \A w \in Worker : pc[w] \in InTx => since[w] <= now
StaleHeld == \A w \in Worker : pc[w] \in {"requeue", "apply"} =>
                 \A t \in DOMAIN tx[w] : Stale(t, since[w])

Dated == /\ \A t \in TaskId : row[t].status = "running" => row[t].started_at \in Int
         /\ \A r \in Runs : run[r].phase # "over" => run[r].started_at \in Int

\* The child that a COMPLETED row speaks of is over.
Shown(t, r) == /\ run[r].task = t /\ run[r].ver = row[t].spec.ver
               /\ run[r].result = "completed" /\ run[r].phase = "over"
Verdicts == \A t \in TaskId : row[t].status = "completed" => \E r \in Runs : Shown(t, r)

OInv == Clocked /\ StaleHeld /\ Dated /\ OwnOrStray /\ Verdicts
-----------------------------------------------------------------------------
(* The shape of a row *)

Shaped(q) ==
    /\ q.status = "pending" => q = Fresh(q.client, q.spec)
    /\ q.requeue # NULL => q.status = "running"
    /\ q.status \in {"running", "completed", "failed"} => q.attempts = 1

LEMMA ShapeKept ==
    ASSUME RowShape, \A t \in TaskId : row'[t] = row[t] \/ Shaped(row'[t])
    PROVE  RowShape'
BY DEF RowShape, Shaped

LEMMA FreshShaped == ASSUME NEW c, NEW s PROVE Shaped(Fresh(c, s)) /\ Fresh(c, s).attempts = 0
BY DEF Shaped, Fresh, Absent

LEMMA AbsentShaped == Shaped(Absent)
BY DEF Shaped, Absent

LEMMA RequeueShaped == ASSUME NEW q PROVE Shaped(ApplyRequeue(q))
BY FreshShaped DEF ApplyRequeue

LEMMA ClosedShaped ==
    ASSUME NEW q \in Row, Shaped(q), q.status = "running", q.requeue = NULL,
           NEW s \in {"completed", "failed"}, NEW at
    PROVE  Shaped(Closed(s, at, q))
BY DEF Shaped, Closed, Row

LEMMA TakenShaped ==
    ASSUME NEW q \in Row, Shaped(q), q.status = "pending", NEW at
    PROVE  Shaped([q EXCEPT !.status = "running", !.started_at = at, !.attempts = q.attempts + 1])
<1>1. q.attempts = 0
  BY FreshShaped DEF Shaped
<1> QED BY <1>1 DEF Shaped, Row

LEMMA SubmitShape == ASSUME IInv, RowShape, Submit PROVE RowShape'
<1>1. row \in [TaskId -> Row]
  BY DEF IInv, TypeOK
<1>2. PICK o \in Option, c \in ClientId \cup {NULL} :
         Enqueue(o, c) \/ \E t \in Owner(c) : UpsertConflict(o, t)
  BY DEF Submit, Upsert
<1>3. CASE Enqueue(o, c)
  <2> DEFINE q == Fresh(c, Submitted(o))
  <2>1. row' = [row EXCEPT ![nextId] = q] /\ Shaped(q)
    BY <1>3, FreshShaped DEF Enqueue
  <2> HIDE DEF q
  <2> QED BY <1>1, <2>1, ShapeKept
<1>4. CASE \E t \in Owner(c) : UpsertConflict(o, t)
  <2>1. PICK t \in TaskId : UpsertConflict(o, t)
    BY <1>4 DEF Owner
  <2> DEFINE s == Submitted(o)
  <2>2. row' = [row EXCEPT ![t] = IF row[t].status = "running"
                                  THEN [row[t] EXCEPT !.requeue = s]
                                  ELSE Fresh(row[t].client, s)]
    BY <2>1 DEF UpsertConflict
  <2> HIDE DEF s
  <2>3. Shaped(row[t]) /\ row[t] \in Row
    BY <1>1 DEF RowShape, Shaped
  <2>4. row[t].status = "running" => Shaped([row[t] EXCEPT !.requeue = s])
    BY <2>3 DEF Shaped, Row
  <2>5. Shaped(Fresh(row[t].client, s))
    BY FreshShaped
  <2> QED BY <1>1, <2>2, <2>4, <2>5, ShapeKept
<1> QED BY <1>2, <1>3, <1>4

LEMMA RemoveShape == ASSUME IInv, RowShape, Remove PROVE RowShape'
<1>1. PICK T : row' = [t \in TaskId |-> IF t \in T THEN Absent ELSE row[t]]
  BY DEF Remove, Cancel, ClearAll, Clear, Delete
<1> QED BY <1>1, AbsentShaped, ShapeKept

LEMMA TakeShape ==
    ASSUME IInv, RowShape, NEW w \in Worker, pc[w] = "claim", NEW t \in DOMAIN tx[w], Take(w, t)
    PROVE  RowShape'
<1>1. t \in TaskId /\ row \in [TaskId -> Row] /\ tx[w][t] = row[t] /\ row[t].status = "pending"
  BY DEF IInv, TypeOK, Held, HeldBy
<1> DEFINE q  == row[t]
           at == since[w] + Skew[w]
<1>2. row' = [row EXCEPT ![t] = [q EXCEPT !.status = "running", !.started_at = at,
                                          !.attempts = q.attempts + 1]]
  BY <1>1 DEF Take
<1>3. Shaped(q) /\ q \in Row /\ q.status = "pending"
  BY <1>1 DEF RowShape, Shaped
<1> HIDE DEF q, at
<1>4. Shaped([q EXCEPT !.status = "running", !.started_at = at, !.attempts = q.attempts + 1])
  BY <1>3, TakenShaped
<1> QED BY <1>1, <1>2, <1>4, ShapeKept

LEMMA FinishShape ==
    ASSUME IInv, RowShape, NEW w \in Worker, NEW r \in Runs, FinishCommit(w, r)
    PROVE  RowShape'
<1> DEFINE t  == run[r].task
           at == now + Skew[w]
<1>1. /\ pc[w] = "finish" /\ run[r].parent = w /\ run[r].phase = "recording"
      /\ row' = [row EXCEPT ![t] = IF tx[w][t].requeue # NULL THEN ApplyRequeue(tx[w][t])
                                   ELSE Closed(run[r].result, at, row[t])]
  BY DEF FinishCommit, Mine
<1>2. /\ t \in TaskId /\ t \in DOMAIN tx[w] /\ run[r].result \in {"completed", "failed"}
  BY <1>1, RunType DEF IInv, Recording
<1>3. tx[w][t] = row[t] /\ row[t].status = "running" /\ row \in [TaskId -> Row]
  BY <1>1, <1>2 DEF IInv, TypeOK, Held, HeldBy
<1> HIDE DEF t, at
<1>4. Shaped(row[t]) /\ row[t] \in Row
  BY <1>2, <1>3 DEF RowShape, Shaped
<1>5. row[t].requeue = NULL => Shaped(Closed(run[r].result, at, row[t]))
  BY <1>2, <1>3, <1>4, ClosedShaped
<1>6. Shaped(ApplyRequeue(row[t]))
  BY RequeueShaped
<1> QED BY <1>1, <1>2, <1>3, <1>5, <1>6, ShapeKept

LEMMA ReapShape ==
    ASSUME IInv, RowShape, NEW w \in Worker, ReapCommit(w)
    PROVE  RowShape'
<1> DEFINE at == since[w] + Skew[w]
<1>1. /\ pc[w] = "apply"
      /\ row' = [t \in TaskId |-> IF t \notin DOMAIN tx[w] THEN row[t]
                                  ELSE IF tx[w][t].requeue # NULL THEN ApplyRequeue(tx[w][t])
                                  ELSE Closed("failed", at, row[t])]
  BY DEF ReapCommit
<1> HIDE DEF at
<1>2. ASSUME NEW t \in TaskId, t \in DOMAIN tx[w] PROVE Shaped(row'[t])
  <2>1. tx[w][t] = row[t] /\ row[t].status = "running" /\ row[t] \in Row /\ Shaped(row[t])
    BY <1>1, <1>2 DEF IInv, TypeOK, Held, HeldBy, RowShape, Shaped
  <2>2. row[t].requeue = NULL => Shaped(Closed("failed", at, row[t]))
    BY <2>1, ClosedShaped
  <2> QED BY <1>1, <1>2, <2>1, <2>2, RequeueShaped
<1>3. \A t \in TaskId : t \notin DOMAIN tx[w] => row'[t] = row[t]
  BY <1>1
<1> QED BY <1>2, <1>3, ShapeKept

LEMMA ShapeNext == IInv /\ RowShape /\ [Next]_vars => RowShape'
<1> SUFFICES ASSUME IInv, RowShape, [Next]_vars PROVE RowShape'
  OBVIOUS
<1>1. CASE Submit \/ Remove
  BY <1>1, SubmitShape, RemoveShape
<1>2. ASSUME NEW w \in Worker, Work(w) \/ Break(w) PROVE RowShape'
  <2>1. CASE ClaimCommit(w) \/ ClaimLost(w)
    BY <2>1, TakeShape DEF ClaimCommit, ClaimLost
  <2>2. CASE ReapCommit(w) \/ \E r \in Runs : FinishCommit(w, r)
    BY <2>2, ReapShape, FinishShape
  <2>3. CASE UNCHANGED row
    BY <2>3, ShapeKept
  <2> QED BY <1>2, <2>1, <2>2, <2>3
          DEF Work, Break, Claim, Finish, Reap, ClaimSelect, PollEmpty, Fork, StartFail,
              SelectTimeout, FinishSelect, ReapBegin, ReapUpdate, ReapSelect, ReapNotDue,
              ClaimAbort, ReapAbort, Crash, SessionEnds, FinishAbort, queue
<1>3. CASE Exit \/ Tick \/ UNCHANGED vars
  BY <1>3, ShapeKept DEF Exit, ChildExit, Tick, vars, queue
<1> QED BY <1>1, <1>2, <1>3 DEF Next

LEMMA ShapeInit == Init => RowShape
BY AbsentShaped DEF Init, RowShape, Shaped

\* A PENDING row is as a submission writes it, only a RUNNING row has a parked
\* version, and every claim starts from no attempts (apply_requeue, upsert).
THEOREM RowsAreShaped == Spec => []RowShape
BY ShapeInit, ShapeNext, Invariance, PTL DEF Spec
-----------------------------------------------------------------------------
(* How a step may move the workers, the runs and the rows *)

Steady(w) == pc'[w] = pc[w] /\ tx'[w] = tx[w] /\ since'[w] = since[w]

WorkerMoves(w) ==
    \/ Steady(w)
    \/ pc'[w] \notin InTx
    \/ pc'[w] = "start" /\ pc[w] = "claim" /\ since'[w] = since[w]
    \/ pc'[w] \in {"claim", "reap"} /\ since'[w] = now
    \/ /\ pc'[w] \in {"requeue", "apply"} /\ pc[w] \in InTx /\ since'[w] = since[w]
       /\ UNCHANGED row /\ \A t \in DOMAIN tx'[w] : Stale(t, since[w])

RunMoves(r) ==
    /\ run'[r].task = run[r].task /\ run'[r].ver = run[r].ver /\ run'[r].client = run[r].client
    /\ run'[r].phase # "over" => run[r].phase # "over" /\ run'[r].started_at = run[r].started_at
    /\ run[r].phase = "over" => run'[r].phase = "over" /\ run'[r].result = run[r].result
    /\ run'[r].phase = "recording" =>
          run[r].phase = "recording" \/ (Matches(r) /\ UNCHANGED row)

\* Row t stays in the hands it is in.
Alike(t) == /\ row'[t].status = row[t].status /\ row'[t].client = row[t].client
            /\ row'[t].started_at = row[t].started_at /\ row'[t].spec = row[t].spec

Inserted(t) == /\ row[t] = Absent /\ t = nextId /\ row'[t].status = "pending"
               /\ row'[t].client # NULL => Owner(row'[t].client) = {}

Replaced(t) == /\ row[t].status \notin {"absent", "running"} /\ row'[t].status = "pending"
               /\ row'[t].client = row[t].client

\* The reaper, or the end of the run it belongs to, takes it.
Taken(t) ==
    /\ row[t].status = "running" /\ row'[t].status \in {"pending", "failed"}
    /\ row'[t].client = row[t].client
    /\ \E w \in Worker : t \in DOMAIN tx[w] /\ pc[w] = "apply" /\ Stale(t, since[w])

Settled(t) ==
    /\ row[t].status = "running" /\ row'[t].status \in {"pending", "completed", "failed"}
    /\ row'[t].client = row[t].client
    /\ \E r \in Runs : /\ run[r].task = t /\ Owns(r) /\ run'[r].phase = "over"
                       /\ row'[t].status = "completed" =>
                             run'[r].result = "completed" /\ row'[t].spec = row[t].spec

RowMoves(t) == \/ Alike(t) \/ row'[t].status = "absent" \/ Inserted(t) \/ Replaced(t)
               \/ Taken(t) \/ Settled(t)

\* Every step but a claim.
Moved == /\ now <= now'
         /\ \A w \in Worker : WorkerMoves(w)
         /\ DOMAIN run' = Runs /\ \A r \in Runs : RunMoves(r)
         /\ \A t \in TaskId : RowMoves(t)

LEMMA ClockTypes ==
    ASSUME IInv, OInv
    PROVE  /\ now \in Int /\ StaleTimeout \in Nat
           /\ \A w \in Worker : pc[w] \in InTx => since[w] \in Int
           /\ \A w \in Worker : \A t \in DOMAIN tx[w] : t \in TaskId
BY BoundsAssumption DEF IInv, TypeOK, Held, HeldBy, InTx

LEMMA LoopMoved ==
    ASSUME IInv, IInv', OInv, now <= now', \A w \in Worker : WorkerMoves(w)
    PROVE  Clocked' /\ StaleHeld'
<1>1. Clocked'
  <2> SUFFICES ASSUME NEW w \in Worker, pc'[w] \in InTx PROVE since'[w] <= now'
    BY DEF Clocked
  <2>1. since'[w] = now \/ (pc[w] \in InTx /\ since'[w] = since[w])
    BY DEF WorkerMoves, Steady, InTx
  <2>2. now \in Int /\ now' \in Int
    BY DEF IInv, TypeOK
  <2> QED BY <2>1, <2>2, ClockTypes DEF OInv, Clocked
<1>2. StaleHeld'
  <2> SUFFICES ASSUME NEW w \in Worker, pc'[w] \in {"requeue", "apply"}, NEW t \in DOMAIN tx'[w]
               PROVE  Stale(t, since[w])'
    BY DEF StaleHeld
  <2>1. CASE Steady(w)
    <3>1. row'[t] = row[t] /\ Stale(t, since[w]) /\ since'[w] = since[w]
      BY <2>1 DEF Steady, IInv, Held, HeldBy, OInv, StaleHeld
    <3> QED BY <3>1 DEF Stale
  <2>2. CASE UNCHANGED row /\ since'[w] = since[w] /\ Stale(t, since[w])
    BY <2>2 DEF Stale
  <2> QED BY <2>1, <2>2 DEF WorkerMoves, InTx
<1> QED BY <1>1, <1>2

\* A row that was reaped from a run stays so.
LEMMA StrayKept ==
    ASSUME IInv, IInv', OInv, Moved, NEW r \in Runs, Stray(r), run'[r].phase # "over",
           row'[run[r].task].status = "running" => Alike(run[r].task)
    PROVE  Stray(r)'
<1> DEFINE t == run[r].task
<1>1. /\ run'[r].task = t /\ run'[r].started_at = run[r].started_at /\ run[r].phase # "over"
      /\ run'[r].phase = "recording" => Matches(r)
  BY DEF Moved, RunMoves, Stray
<1>2. /\ run[r].started_at \in Int /\ now \in Int /\ now' \in Int /\ Past(r) \in Int
      /\ Past(r)' = Past(r)
  BY <1>1, ClockTypes DEF OInv, Dated, Past, IInv, TypeOK
<1>3. Past(r) < now' /\ Past(r) < now
  BY <1>2 DEF Moved, Stray
<1>4. row'[t].status = "running" => run[r].started_at < row'[t].started_at
  BY DEF Stray, Alike
<1>5. ASSUME NEW w \in Worker, pc'[w] = "claim", t \in DOMAIN tx'[w] PROVE Past(r) < since'[w]
  <2>1. CASE Steady(w)
    BY <1>5, <2>1 DEF Stray, Steady
  <2>2. CASE since'[w] = now
    BY <1>3, <2>2
  <2> QED BY <1>5, <2>1, <2>2 DEF Moved, WorkerMoves, InTx
<1>6. run'[r].phase # "recording"
  <2> SUFFICES ASSUME Matches(r) PROVE FALSE
    BY <1>1
  <2>1. row[t].status = "running" /\ row[t].started_at = run[r].started_at
    BY DEF Matches
  <2> QED BY <1>2, <2>1 DEF Stray
<1> HIDE DEF t
<1>7. t = run'[r].task
  BY <1>1
<1> QED BY <1>1, <1>2, <1>3, <1>4, <1>5, <1>6, <1>7 DEF Stray

LEMMA OwnMoved == ASSUME IInv, IInv', OInv, Moved PROVE OwnOrStray'
<1> SUFFICES ASSUME NEW r \in Runs, run'[r].phase # "over", row'[run'[r].task].status # "absent"
             PROVE  Owns(r)' \/ Stray(r)'
  BY DEF OwnOrStray, Moved, Runs
<1> DEFINE t == run[r].task
<1>1. /\ run'[r].task = t /\ run'[r].ver = run[r].ver /\ t \in TaskId
      /\ run'[r].started_at = run[r].started_at /\ run[r].phase # "over"
  BY RunType DEF Moved, RunMoves, IInv
<1>2. run[r].started_at \in Int /\ now \in Int /\ now' \in Int /\ row'[t].status # "absent"
  BY <1>1 DEF OInv, Dated, IInv, TypeOK
<1>3. Newest(r) => Newest(r)'
  BY DEF Newest, Moved, RunMoves, Runs
<1>4. row[t].status = "absent" \/ Owns(r) \/ Stray(r)
  BY <1>1 DEF OInv, OwnOrStray
<1> HIDE DEF t
<1>5. CASE Alike(t)
  <2>1. CASE Owns(r)
    BY <1>1, <1>3, <1>5, <2>1 DEF Owns, Alike, t
  <2>2. CASE Stray(r)
    BY <1>5, <2>2, StrayKept DEF t
  <2> QED BY <1>2, <1>4, <1>5, <2>1, <2>2 DEF Alike
<1>6. CASE Inserted(t)
  <2>1. t < nextId
    BY DEF IInv, Newer, t
  <2>2. t \in Int /\ nextId \in Int
    BY <1>1, BoundsAssumption DEF IInv, TypeOK, TaskId
  <2> QED BY <1>6, <2>1, <2>2 DEF Inserted
<1>7. CASE Replaced(t)
  <2>1. row[t].status = "absent" \/ Stray(r)
    BY <1>4, <1>7 DEF Replaced, Owns, t
  <2> QED BY <1>7, <2>1, StrayKept DEF Replaced, t
<1>8. CASE Taken(t)
  <2>1. CASE Stray(r)
    BY <1>8, <2>1, StrayKept DEF Taken, t
  <2>2. CASE Owns(r)
    <3>1. PICK w \in Worker : t \in DOMAIN tx[w] /\ pc[w] = "apply" /\ Stale(t, since[w])
      BY <1>8 DEF Taken
    <3>2. Past(r) < since[w] /\ since[w] <= now /\ since[w] \in Int /\ Past(r) \in Int
      <4>1. row[t].spec \in Submission /\ row[t].started_at = run[r].started_at
        BY <1>1, <1>8, <2>2, RowType DEF IInv, Taken, Owns, t
      <4>2. Window(row[t].spec) \in Int /\ StaleTimeout <= Window(row[t].spec)
        BY <4>1, BoundsAssumption DEF Window, Submission
      <4> QED BY <1>2, <3>1, <4>1, <4>2, ClockTypes DEF Stale, Past, OInv, Clocked, InTx
    <3>3. Past(r)' = Past(r) /\ Past(r) < now /\ Past(r) < now'
      BY <1>1, <1>2, <3>2 DEF Past, Moved
    <3>4. ASSUME NEW v \in Worker, pc'[v] = "claim", t \in DOMAIN tx'[v]
          PROVE  Past(r) < since'[v]
      <4>1. CASE Steady(v)
        BY <3>1, <3>4, <4>1 DEF Steady, IInv, Held, HeldBy
      <4>2. CASE since'[v] = now
        BY <3>3, <4>2
      <4> QED BY <3>4, <4>1, <4>2 DEF Moved, WorkerMoves, InTx
    <3>5. run'[r].phase # "recording"
      <4>1. ~UNCHANGED row
        BY <1>8 DEF Taken
      <4>2. run[r].phase = "recording" => FALSE
        BY <3>1 DEF IInv, Recording, Held, HeldBy, t
      <4> QED BY <4>1, <4>2 DEF Moved, RunMoves
    <3> QED BY <1>1, <1>8, <3>3, <3>4, <3>5 DEF Stray, Taken
  <2> QED BY <1>4, <1>8, <2>1, <2>2 DEF Taken
<1>9. CASE Settled(t)
  <2>1. PICK q \in Runs : run[q].task = t /\ Owns(q) /\ run'[q].phase = "over"
    BY <1>9 DEF Settled
  <2>2. q # r /\ q \in Int /\ r \in Int
    BY <2>1, RunsDomain DEF IInv, TypeOK
  <2>3. ~Owns(r)
    BY <2>1, <2>2 DEF Owns, Newest, t
  <2> QED BY <1>4, <1>9, <2>3, StrayKept DEF Settled, t
<1> QED BY <1>1, <1>2, <1>5, <1>6, <1>7, <1>8, <1>9 DEF Moved, RowMoves

LEMMA MovedInv == ASSUME IInv, IInv', OInv, Moved PROVE OInv'
<1>1. Dated'
  <2>1. ASSUME NEW t \in TaskId, row'[t].status = "running" PROVE row'[t].started_at \in Int
    BY <2>1 DEF Moved, RowMoves, Alike, Inserted, Replaced, Taken, Settled, OInv, Dated
  <2>2. ASSUME NEW r \in Runs, run'[r].phase # "over" PROVE run'[r].started_at \in Int
    BY <2>2 DEF Moved, RunMoves, OInv, Dated
  <2> QED BY <2>1, <2>2 DEF Dated, Moved, Runs
<1>2. Verdicts'
  <2> SUFFICES ASSUME NEW t \in TaskId, row'[t].status = "completed"
               PROVE  \E r \in Runs : Shown(t, r)'
    BY DEF Verdicts, Moved, Runs
  <2>1. CASE Alike(t)
    <3>1. PICK r \in Runs : Shown(t, r)
      BY <2>1 DEF OInv, Verdicts, Alike
    <3>2. RunMoves(r)
      BY DEF Moved
    <3> QED BY <2>1, <3>1, <3>2 DEF Shown, Alike, RunMoves
  <2>2. CASE Settled(t)
    <3>1. PICK r \in Runs : /\ run[r].task = t /\ Owns(r) /\ run'[r].phase = "over"
                            /\ run'[r].result = "completed" /\ row'[t].spec = row[t].spec
      BY <2>2 DEF Settled
    <3>2. RunMoves(r)
      BY DEF Moved
    <3> QED BY <3>1, <3>2 DEF Shown, Owns, RunMoves
  <2> QED BY <2>1, <2>2 DEF Moved, RowMoves, Inserted, Replaced, Taken
<1> QED BY <1>1, <1>2, LoopMoved, OwnMoved DEF OInv, Moved
-----------------------------------------------------------------------------
(* The steps *)

\* A step that moves no worker and no clock.
LEMMA ClientMoved ==
    ASSUME IInv, UNCHANGED <<now, run, loop>>, \A t \in TaskId : RowMoves(t)
    PROVE  Moved
<1>1. now \in Int /\ \A w \in Worker : WorkerMoves(w)
  BY DEF loop, WorkerMoves, Steady, IInv, TypeOK
<1> QED BY <1>1 DEF Moved, RunMoves, Runs

LEMMA SubmitMoved == ASSUME IInv, Submit PROVE Moved
<1>1. PICK o \in Option, c \in ClientId \cup {NULL} :
         Enqueue(o, c) \/ \E t \in Owner(c) : UpsertConflict(o, t)
  BY DEF Submit, Upsert
<1>2. row \in [TaskId -> Row] /\ UNCHANGED <<now, run, loop>>
  BY <1>1 DEF Enqueue, UpsertConflict, IInv, TypeOK
<1> DEFINE s == Submitted(o)
<1>3. CASE Enqueue(o, c)
  <2>1. nextId \in TaskId /\ row' = [row EXCEPT ![nextId] = Fresh(c, s)]
    BY <1>3 DEF Enqueue
  <2> HIDE DEF s
  <2>2. row[nextId] = Absent /\ (c # NULL => Owner(c) = {})
    BY <1>3, <2>1, BoundsAssumption DEF Enqueue, IInv, RowInv, TypeOK, TaskId
  <2>3. Fresh(c, s).status = "pending" /\ Fresh(c, s).client = c
    BY DEF Fresh, Absent
  <2>4. RowMoves(nextId)
    BY <1>2, <2>1, <2>2, <2>3 DEF RowMoves, Inserted
  <2>5. \A t \in TaskId \ {nextId} : Alike(t)
    BY <2>1 DEF Alike
  <2> QED BY <1>2, <2>4, <2>5, ClientMoved DEF RowMoves
<1>4. CASE \E t \in Owner(c) : UpsertConflict(o, t)
  <2>1. PICK t \in TaskId : UpsertConflict(o, t) /\ row[t].status # "absent"
    BY <1>4 DEF Owner
  <2>2. row' = [row EXCEPT ![t] = IF row[t].status = "running"
                                  THEN [row[t] EXCEPT !.requeue = s]
                                  ELSE Fresh(row[t].client, s)]
    BY <2>1 DEF UpsertConflict
  <2> HIDE DEF s
  <2>3. RowMoves(t)
    <3>1. row[t] \in Row
      BY <1>2
    <3>2. CASE row[t].status = "running"
      BY <1>2, <2>2, <3>1, <3>2 DEF RowMoves, Alike, Row
    <3>3. CASE row[t].status # "running"
      <4>1. row'[t].status = "pending" /\ row'[t].client = row[t].client
        BY <1>2, <2>2, <3>3 DEF Fresh, Absent
      <4> QED BY <2>1, <3>3, <4>1 DEF RowMoves, Replaced
    <3> QED BY <3>2, <3>3
  <2>4. \A u \in TaskId \ {t} : Alike(u)
    BY <2>2 DEF Alike
  <2> QED BY <1>2, <2>3, <2>4, ClientMoved DEF RowMoves
<1> QED BY <1>1, <1>3, <1>4

LEMMA RemoveMoved == ASSUME IInv, Remove PROVE Moved
<1>1. PICK T : /\ row' = [t \in TaskId |-> IF t \in T THEN Absent ELSE row[t]]
               /\ UNCHANGED <<now, run, loop>>
  BY DEF Remove, Cancel, ClearAll, Clear, Delete
<1>2. \A t \in TaskId : RowMoves(t)
  BY <1>1, AbsentType DEF RowMoves, Alike
<1> QED BY <1>1, <1>2, ClientMoved

\* A step of one worker.
LEMMA OthersSteady ==
    ASSUME IInv, NEW w \in Worker, NEW p, Goto(w, p),
           UNCHANGED since \/ \E at : Mark(w, at),
           UNCHANGED tx \/ \E h : tx' = [tx EXCEPT ![w] = h]
    PROVE  pc'[w] = p /\ \A v \in Worker \ {w} : Steady(v)
<1>1. pc'[w] = p /\ \A v \in Worker \ {w} : pc'[v] = pc[v]
  BY DEF Goto, IInv, TypeOK
<1>2. \A v \in Worker \ {w} : since'[v] = since[v]
  BY DEF Mark, IInv, TypeOK
<1>3. \A v \in Worker \ {w} : tx'[v] = tx[v]
  BY DEF IInv, TypeOK
<1> QED BY <1>1, <1>2, <1>3 DEF Steady

LEMMA OneMoves ==
    ASSUME IInv, NEW w \in Worker, \A v \in Worker \ {w} : Steady(v), UNCHANGED now,
           WorkerMoves(w), DOMAIN run' = Runs, \A r \in Runs : RunMoves(r),
           \A t \in TaskId : RowMoves(t)
    PROVE  Moved
BY DEF Moved, WorkerMoves, IInv, TypeOK

LEMMA RunsSame == ASSUME UNCHANGED run PROVE DOMAIN run' = Runs /\ \A r \in Runs : RunMoves(r)
BY DEF RunMoves, Runs

LEMMA RowsSame == ASSUME UNCHANGED row PROVE \A t \in TaskId : RowMoves(t)
BY DEF RowMoves, Alike

\* One run changes, and it is not recorded yet or no longer.
LEMMA OneRunMoves ==
    ASSUME IInv, NEW r \in Runs, NEW e, run' = [run EXCEPT ![r] = e],
           e.task = run[r].task, e.ver = run[r].ver, e.client = run[r].client,
           run[r].phase # "over", e.phase # "over" => e.started_at = run[r].started_at,
           e.phase = "recording" => Matches(r) /\ UNCHANGED row
    PROVE  DOMAIN run' = Runs /\ \A s \in Runs : RunMoves(s)
BY DEF RunMoves, Runs

\* A worker that leaves its transaction, or has none.
LEMMA LeavesMoved ==
    ASSUME IInv, NEW w \in Worker, NEW p, p \notin InTx, Goto(w, p),
           UNCHANGED since \/ \E at : Mark(w, at),
           UNCHANGED tx \/ \E h : tx' = [tx EXCEPT ![w] = h], UNCHANGED now,
           DOMAIN run' = Runs, \A r \in Runs : RunMoves(r), \A t \in TaskId : RowMoves(t)
    PROVE  Moved
<1>1. pc'[w] = p /\ \A v \in Worker \ {w} : Steady(v)
  BY OthersSteady
<1> QED BY <1>1, OneMoves DEF WorkerMoves

LEMMA QuietMoved ==
    ASSUME IInv, NEW w \in Worker,
           \/ PollEmpty(w) \/ SelectTimeout(w) \/ ReapNotDue(w)
           \/ ClaimAbort(w) \/ ReapAbort(w) \/ SessionEnds(w)
    PROVE  Moved
<1>1. UNCHANGED <<now, row, run>>
  BY DEF PollEmpty, SelectTimeout, ReapNotDue, ClaimAbort, ReapAbort, SessionEnds, queue
<1>2. PICK p \in {"poll", "idle", "select"} : Goto(w, p)
  BY DEF PollEmpty, SelectTimeout, ReapNotDue, ClaimAbort, ReapAbort, SessionEnds, AfterNoClaim
<1>3. UNCHANGED since \/ \E at : Mark(w, at)
  BY DEF PollEmpty, SelectTimeout, ReapNotDue, ClaimAbort, ReapAbort, SessionEnds
<1>4. UNCHANGED tx \/ \E h : tx' = [tx EXCEPT ![w] = h]
  BY DEF PollEmpty, SelectTimeout, ReapNotDue, ClaimAbort, ReapAbort, SessionEnds, Unlock
<1>5. p \notin InTx
  BY DEF InTx
<1> QED BY <1>1, <1>2, <1>3, <1>4, <1>5, RunsSame, RowsSame, LeavesMoved

LEMMA LockMoved ==
    ASSUME IInv, OInv, NEW w \in Worker,
           ClaimSelect(w) \/ ReapBegin(w) \/ ReapUpdate(w) \/ ReapSelect(w)
    PROVE  Moved
<1>1. UNCHANGED <<now, row, run>>
  BY DEF ClaimSelect, ReapBegin, ReapUpdate, ReapSelect, queue
<1>2. PICK p \in {"claim", "reap", "requeue", "apply"} : Goto(w, p)
  BY DEF ClaimSelect, ReapBegin, ReapUpdate, ReapSelect
<1>3. UNCHANGED since \/ \E at : Mark(w, at)
  BY DEF ClaimSelect, ReapBegin, ReapUpdate, ReapSelect
<1>4. UNCHANGED tx \/ \E h : tx' = [tx EXCEPT ![w] = h]
  BY DEF ClaimSelect, ReapBegin, ReapUpdate, ReapSelect, Lock
<1>5. pc'[w] = p /\ \A v \in Worker \ {w} : Steady(v)
  BY <1>2, <1>3, <1>4, OthersSteady
<1>6. WorkerMoves(w)
  <2>0. DOMAIN tx = Worker /\ since \in [Worker -> Time] /\ pc \in [Worker -> Pc]
    BY DEF IInv, TypeOK, Pc
  <2>1. CASE ClaimSelect(w) \/ ReapBegin(w)
    BY <2>0, <2>1 DEF ClaimSelect, ReapBegin, WorkerMoves, Goto, Mark
  <2>2. CASE ReapUpdate(w)
    <3>1. DOMAIN tx'[w] = StaleRows(w, FALSE)
      BY <2>0, <2>2 DEF ReapUpdate, Lock, Read
    <3> QED BY <1>1, <2>0, <2>2, <3>1 DEF ReapUpdate, WorkerMoves, StaleRows, Goto, InTx
  <2>3. CASE ReapSelect(w)
    <3>1. DOMAIN tx'[w] = DOMAIN tx[w] \cup StaleRows(w, TRUE)
      BY <2>0, <2>3 DEF ReapSelect
    <3>2. \A t \in DOMAIN tx[w] : Stale(t, since[w])
      BY <2>3 DEF ReapSelect, OInv, StaleHeld
    <3> QED BY <1>1, <2>0, <2>3, <3>1, <3>2 DEF ReapSelect, WorkerMoves, StaleRows, Goto, InTx
  <2> QED BY <2>1, <2>2, <2>3
<1> QED BY <1>1, <1>5, <1>6, RunsSame, RowsSame, OneMoves

LEMMA StartMoved ==
    ASSUME IInv, NEW w \in Worker, NEW r \in Runs, Fork(w, r) \/ StartFail(w, r)
    PROVE  Moved
<1>1. /\ UNCHANGED <<now, row, tx>> /\ Mark(w, NULL) /\ run[r].phase = "claimed"
      /\ run[r] \in Run
  BY RunType DEF Fork, StartFail, queue, IInv
<1>2. PICK p \in {"select", "poll", "failed"} : Goto(w, p)
  BY DEF Fork, StartFail
<1>3. DOMAIN run' = Runs /\ \A s \in Runs : RunMoves(s)
  <2>1. CASE Fork(w, r)
    <3> DEFINE e == [run[r] EXCEPT !.phase = "running", !.at = now]
    <3>1. run' = [run EXCEPT ![r] = e]
      BY <2>1 DEF Fork
    <3>2. /\ e.task = run[r].task /\ e.ver = run[r].ver /\ e.phase = "running"
          /\ e.client = run[r].client /\ e.started_at = run[r].started_at
      BY <1>1 DEF Run
    <3> HIDE DEF e
    <3> QED BY <1>1, <3>1, <3>2, OneRunMoves
  <2>2. CASE StartFail(w, r)
    <3> DEFINE e == [run[r] EXCEPT !.phase = "exited", !.result = "failed"]
    <3>1. run' = [run EXCEPT ![r] = e]
      BY <2>2 DEF StartFail
    <3>2. /\ e.task = run[r].task /\ e.ver = run[r].ver /\ e.phase = "exited"
          /\ e.client = run[r].client /\ e.started_at = run[r].started_at
      BY <1>1 DEF Run
    <3> HIDE DEF e
    <3> QED BY <1>1, <3>1, <3>2, OneRunMoves
  <2> QED BY <2>1, <2>2
<1>4. p \notin InTx
  BY DEF InTx
<1> QED BY <1>1, <1>2, <1>3, <1>4, RowsSame, LeavesMoved

LEMMA ExitMoved == ASSUME IInv, Exit PROVE Moved
<1>1. PICK r \in Runs, res \in {"completed", "failed"} : ChildExit(r, res)
  BY DEF Exit
<1>2. UNCHANGED <<now, row, loop>> /\ run[r].phase = "running" /\ run[r] \in Run
  BY <1>1, RunType DEF ChildExit, Alive, queue, IInv
<1> DEFINE e == IF run[r].parent = NULL THEN Over(run[r], res)
                ELSE [run[r] EXCEPT !.phase = "exited", !.result = res]
<1>3. run' = [run EXCEPT ![r] = e]
  BY <1>1 DEF ChildExit, Done
<1>4. /\ e.task = run[r].task /\ e.ver = run[r].ver /\ e.client = run[r].client
      /\ e.phase \in {"over", "exited"}
      /\ e.phase # "over" => e.started_at = run[r].started_at
  BY <1>2 DEF Run, Over
<1> HIDE DEF e
<1>5. DOMAIN run' = Runs /\ \A s \in Runs : RunMoves(s)
  BY <1>2, <1>3, <1>4, OneRunMoves
<1>6. now \in Int /\ \A w \in Worker : WorkerMoves(w)
  BY <1>2 DEF loop, WorkerMoves, Steady, IInv, TypeOK
<1> QED BY <1>2, <1>5, <1>6, RowsSame DEF Moved

LEMMA TickMoved == ASSUME IInv, Tick PROVE Moved
<1>1. now < now' /\ UNCHANGED <<row, run, loop>>
  BY DEF Tick, queue, IInv, TypeOK
<1>2. \A w \in Worker : WorkerMoves(w)
  BY <1>1 DEF loop, WorkerMoves, Steady
<1>3. now \in Int /\ now' \in Int
  BY DEF Tick, IInv, TypeOK
<1> QED BY <1>1, <1>2, <1>3, RunsSame, RowsSame DEF Moved

LEMMA CrashMoved == ASSUME IInv, NEW w \in Worker, Crash(w) PROVE Moved
<1>1. UNCHANGED <<now, row, tx>> /\ Mark(w, NULL)
  BY DEF Crash, queue
<1>2. PICK p \in {"poll", "down"} : Goto(w, p)
  BY DEF Crash
<1>3. ASSUME NEW r \in Runs PROVE RunMoves(r)
  <2>1. run[r] \in Run
    BY RunType DEF IInv
  <2>2. run'[r] = IF run[r].parent # w THEN run[r]
                  ELSE IF Alive(r) THEN [run[r] EXCEPT !.parent = NULL]
                  ELSE Over(run[r], run[r].result)
    BY DEF Crash
  <2>3. CASE run[r].parent # w
    BY <2>2, <2>3 DEF RunMoves
  <2>4. CASE run[r].parent = w /\ Alive(r)
    BY <2>1, <2>2, <2>4 DEF RunMoves, Alive, Run
  <2>5. CASE run[r].parent = w /\ ~Alive(r)
    BY <2>1, <2>2, <2>5 DEF RunMoves, Over, Run
  <2> QED BY <2>3, <2>4, <2>5
<1>4. DOMAIN run' = Runs /\ p \notin InTx
  BY DEF Crash, InTx, Runs
<1> QED BY <1>1, <1>2, <1>3, <1>4, RowsSame, LeavesMoved

\* What a worker that records an end relies on.
LEMMA RecordingOwns ==
    ASSUME IInv, OwnOrStray, NEW r \in Runs, run[r].phase = "recording"
    PROVE  Owns(r)
<1>1. row[run[r].task].status = "running"
  BY DEF IInv, Recording, Held, HeldBy
<1> QED BY <1>1 DEF OwnOrStray, Stray

LEMMA FinishSelectMoved ==
    ASSUME IInv, NEW w \in Worker, NEW r \in Runs, FinishSelect(w, r)
    PROVE  Moved
<1>1. /\ UNCHANGED <<now, row, since>> /\ run[r].phase = "exited" /\ run[r] \in Run
  BY RunType DEF FinishSelect, Ended, queue, IInv
<1>2. PICK p \in {"finish", "poll", "select", "idle"} : Goto(w, p)
  BY AfterFinishType DEF FinishSelect
<1>3. UNCHANGED tx \/ \E h : tx' = [tx EXCEPT ![w] = h]
  BY DEF FinishSelect, Lock
<1>4. DOMAIN run' = Runs /\ \A s \in Runs : RunMoves(s)
  <2>1. CASE Matches(r)
    <3> DEFINE e == [run[r] EXCEPT !.phase = "recording"]
    <3>1. run' = [run EXCEPT ![r] = e]
      BY <2>1 DEF FinishSelect
    <3>2. /\ e.task = run[r].task /\ e.ver = run[r].ver /\ e.client = run[r].client
          /\ e.started_at = run[r].started_at
      BY <1>1 DEF Run
    <3> HIDE DEF e
    <3> QED BY <1>1, <2>1, <3>1, <3>2, OneRunMoves
  <2>2. CASE ~Matches(r)
    <3> DEFINE e == Over(run[r], run[r].result)
    <3>1. run' = [run EXCEPT ![r] = e]
      BY <2>2 DEF FinishSelect, Done
    <3>2. /\ e.task = run[r].task /\ e.ver = run[r].ver /\ e.client = run[r].client
          /\ e.phase = "over"
      BY <1>1 DEF Over, Run
    <3> HIDE DEF e
    <3> QED BY <1>1, <3>1, <3>2, OneRunMoves
  <2> QED BY <2>1, <2>2
<1>5. p \notin InTx
  BY DEF InTx
<1> QED BY <1>1, <1>2, <1>3, <1>4, <1>5, RowsSame, LeavesMoved

LEMMA FinishMoved ==
    ASSUME IInv, OInv, NEW w \in Worker, NEW r \in Runs, FinishCommit(w, r) \/ FinishAbort(w, r)
    PROVE  Moved
<1> DEFINE t  == run[r].task
           at == now + Skew[w]
           e  == Over(run[r], run[r].result)
<1>1. /\ UNCHANGED <<now, since>> /\ run[r].phase = "recording" /\ run[r] \in Run
      /\ run' = [run EXCEPT ![r] = e] /\ pc[w] = "finish" /\ run[r].parent = w
  BY RunType DEF FinishCommit, FinishAbort, Mine, Done, queue, IInv
<1>2. PICK p \in {"poll", "select", "idle"} : Goto(w, p)
  BY AfterFinishType DEF FinishCommit, FinishAbort
<1>3. \E h : tx' = [tx EXCEPT ![w] = h]
  BY DEF FinishCommit, FinishAbort, Unlock
<1>4. /\ e.task = run[r].task /\ e.ver = run[r].ver /\ e.client = run[r].client
      /\ e.phase = "over" /\ e.result = run[r].result
  BY <1>1 DEF Over, Run
<1> HIDE DEF e
<1>5. DOMAIN run' = Runs /\ \A s \in Runs : RunMoves(s)
  BY <1>1, <1>4, OneRunMoves
<1>6. run'[r] = e
  BY <1>1 DEF Runs
<1>7. \A u \in TaskId : RowMoves(u)
  <2>1. CASE FinishAbort(w, r)
    BY <2>1, RowsSame DEF FinishAbort, queue
  <2>2. CASE FinishCommit(w, r)
    <3>1. /\ t \in TaskId /\ t \in DOMAIN tx[w]
          /\ run[r].result \in {"completed", "failed"}
      BY <1>1, RunType DEF IInv, Recording
    <3>2. /\ tx[w][t] = row[t] /\ row[t].status = "running" /\ row \in [TaskId -> Row]
          /\ row[t] \in Row
      BY <1>1, <3>1 DEF IInv, TypeOK, Held, HeldBy
    <3>3. row' = [row EXCEPT ![t] = IF row[t].requeue # NULL THEN ApplyRequeue(row[t])
                                    ELSE Closed(run[r].result, at, row[t])]
      BY <2>2, <3>2 DEF FinishCommit
    <3>4. run[r].task = t /\ Owns(r)
      BY <1>1, RecordingOwns DEF OInv
    <3> HIDE DEF t, at
    <3>5. /\ row'[t].client = row[t].client
          /\ \/ row'[t].status = "pending"
             \/ row'[t].status = run[r].result /\ row'[t].spec = row[t].spec
      <4>1. CASE row[t].requeue # NULL
        BY <3>1, <3>2, <3>3, <4>1 DEF ApplyRequeue, Fresh, Absent
      <4>2. CASE row[t].requeue = NULL
        BY <3>1, <3>2, <3>3, <4>2 DEF Closed, Row
      <4> QED BY <4>1, <4>2
    <3>6. Settled(t)
      BY <1>4, <1>6, <3>1, <3>2, <3>4, <3>5 DEF Settled
    <3>7. \A u \in TaskId \ {t} : Alike(u)
      BY <3>3 DEF Alike
    <3> QED BY <3>6, <3>7 DEF RowMoves
  <2> QED BY <2>1, <2>2
<1>8. p \notin InTx
  BY DEF InTx
<1> QED BY <1>1, <1>2, <1>3, <1>5, <1>7, <1>8, LeavesMoved

LEMMA ReapMoved ==
    ASSUME IInv, OInv, NEW w \in Worker, ReapCommit(w)
    PROVE  Moved
<1> DEFINE at == since[w] + Skew[w]
<1>1. /\ UNCHANGED <<now, run>> /\ pc[w] = "apply" /\ Goto(w, "poll") /\ Mark(w, NULL)
      /\ \E h : tx' = [tx EXCEPT ![w] = h]
      /\ row' = [t \in TaskId |-> IF t \notin DOMAIN tx[w] THEN row[t]
                                  ELSE IF tx[w][t].requeue # NULL THEN ApplyRequeue(tx[w][t])
                                  ELSE Closed("failed", at, row[t])]
  BY DEF ReapCommit, Unlock
<1> HIDE DEF at
<1>2. ASSUME NEW t \in TaskId PROVE RowMoves(t)
  <2>1. CASE t \notin DOMAIN tx[w]
    BY <1>1, <2>1 DEF RowMoves, Alike
  <2>2. CASE t \in DOMAIN tx[w]
    <3>1. row[t].status = "running" /\ row[t] \in Row /\ Stale(t, since[w])
      BY <1>1, <2>2 DEF IInv, TypeOK, Held, HeldBy, OInv, StaleHeld
    <3>2. row'[t].status \in {"pending", "failed"} /\ row'[t].client = row[t].client
      <4>1. tx[w][t] = row[t]
        BY <1>1, <2>2 DEF IInv, Held, HeldBy
      <4>2. CASE row[t].requeue # NULL
        BY <1>1, <2>2, <4>1, <4>2 DEF ApplyRequeue, Fresh, Absent
      <4>3. CASE row[t].requeue = NULL
        BY <1>1, <2>2, <3>1, <4>1, <4>3 DEF Closed, Row
      <4> QED BY <4>2, <4>3
    <3> QED BY <1>1, <2>2, <3>1, <3>2 DEF RowMoves, Taken
  <2> QED BY <2>1, <2>2
<1>3. "poll" \notin InTx
  BY DEF InTx
<1> QED BY <1>1, <1>2, <1>3, RunsSame, LeavesMoved

\* A claim: what was reaped from older runs was before it began, so they are
\* stray whatever its worker's clock shows.
LEMMA TakeOwns ==
    ASSUME ClocksInWindow, IInv, IInv', OInv, NEW w \in Worker, NEW p, pc[w] = "claim",
           NEW t \in DOMAIN tx[w], NEW e \in Run, Take(w, t), run' = Append(run, e),
           e.task = t, e.ver = tx[w][t].spec.ver, e.phase # "recording",
           e.phase # "over" => e.started_at = since[w] + Skew[w],
           UNCHANGED now, Goto(w, p), Unlock(w), p = "start" \/ p \notin InTx,
           since' = since \/ Mark(w, NULL), p = "start" => since' = since
    PROVE  OInv'
<1> DEFINE n  == Len(run) + 1
           at == since[w] + Skew[w]
<1>1. /\ t \in TaskId /\ row \in [TaskId -> Row] /\ row[t] \in Row
      /\ tx[w][t] = row[t] /\ row[t].status = "pending"
      /\ since[w] \in Int /\ at \in Int
  BY WorkerAssumption DEF IInv, TypeOK, Held, HeldBy
<1>2. /\ row'[t].status = "running" /\ row'[t].started_at = at /\ row'[t].spec = row[t].spec
      /\ \A u \in TaskId \ {t} : row'[u] = row[u]
  BY <1>1 DEF Take, Row
<1>3. /\ n \in Nat /\ Runs = 1 .. Len(run) /\ Len(run) \in Nat
      /\ DOMAIN run' = Runs \cup {n} /\ run'[n] = e /\ \A r \in Runs : run'[r] = run[r]
  BY RunAppend DEF IInv, TypeOK
<1>4. pc'[w] = p /\ \A v \in Worker \ {w} : Steady(v)
  BY OthersSteady DEF Unlock
<1>5. Clocked' /\ StaleHeld'
  <2>1. \A v \in Worker : WorkerMoves(v)
    BY <1>4 DEF WorkerMoves
  <2>2. now <= now'
    BY DEF IInv, TypeOK
  <2> QED BY <2>1, <2>2, LoopMoved
<1> HIDE DEF n, at
<1>6. Dated'
  BY <1>1, <1>2, <1>3 DEF Dated, OInv, Runs, at
<1>7. Verdicts'
  <2> SUFFICES ASSUME NEW u \in TaskId, row'[u].status = "completed"
               PROVE  \E r \in Runs : Shown(u, r)'
    BY <1>3 DEF Verdicts, Runs
  <2>1. u # t /\ row'[u] = row[u]
    BY <1>2
  <2>2. PICK r \in Runs : Shown(u, r)
    BY <2>1 DEF OInv, Verdicts
  <2> QED BY <1>3, <2>1, <2>2 DEF Shown
<1>8. OwnOrStray'
  <2> SUFFICES ASSUME NEW r \in DOMAIN run', run'[r].phase # "over",
                      row'[run'[r].task].status # "absent"
               PROVE  Owns(r)' \/ Stray(r)'
    BY DEF OwnOrStray, Runs
  <2>1. CASE r = n
    <3>1. Newest(r)'
      BY <1>3, <2>1 DEF Newest, Runs, n
    <3> QED BY <1>1, <1>2, <1>3, <2>1, <3>1 DEF Owns, at
  <2>2. CASE r \in Runs
    <3>1. run'[r] = run[r] /\ run[r].started_at \in Int /\ run[r].task \in TaskId
      BY <1>3, <2>2, RunType DEF OInv, Dated, IInv
    <3>2. Past(r)' = Past(r) /\ Past(r) \in Int
      BY <3>1, ClockTypes DEF Past
    <3>3. ASSUME Stray(r)
          PROVE  \A v \in Worker : pc'[v] = "claim" /\ run[r].task \in DOMAIN tx'[v] =>
                                      Past(r) < since'[v]
      BY <1>4, <3>3 DEF Stray, Steady, InTx
    <3>4. CASE run[r].task = t
      <4>1. Stray(r)
        BY <1>1, <2>2, <3>1, <3>4 DEF OInv, OwnOrStray, Owns
      <4>2. run[r].started_at < at
        <5>1. Past(r) < since[w]
          BY <3>4, <4>1 DEF Stray
        <5>2. Skew[w] \in Int /\ Skew[w] + StaleTimeout >= 0 /\ StaleTimeout \in Int
          BY WorkerAssumption, ClockTypes DEF ClocksInWindow
        <5> QED BY <1>1, <3>1, <5>1, <5>2 DEF Past, at
      <4> QED BY <1>2, <3>1, <3>2, <3>3, <3>4, <4>1, <4>2 DEF Stray
    <3>5. CASE run[r].task # t
      <4>1. row'[run[r].task] = row[run[r].task]
        BY <1>2, <3>1, <3>5
      <4>2. CASE Owns(r)
        <5>1. Newest(r)'
          BY <1>3, <3>5, <4>2 DEF Owns, Newest, Runs
        <5> QED BY <3>1, <4>1, <4>2, <5>1 DEF Owns
      <4>3. CASE Stray(r)
        BY <3>1, <3>2, <3>3, <4>1, <4>3 DEF Stray
      <4> QED BY <2>2, <3>1, <4>1, <4>2, <4>3 DEF OInv, OwnOrStray
    <3> QED BY <3>4, <3>5
  <2> QED BY <1>3, <2>1, <2>2
<1> QED BY <1>5, <1>6, <1>7, <1>8 DEF OInv

LEMMA ClaimOwns ==
    ASSUME ClocksInWindow, IInv, IInv', OInv, NEW w \in Worker, ClaimCommit(w) \/ ClaimLost(w)
    PROVE  OInv'
<1>1. pc[w] = "claim" /\ Unlock(w) /\ UNCHANGED now
  BY DEF ClaimCommit, ClaimLost
<1>2. ASSUME NEW t \in DOMAIN tx[w]
      PROVE  /\ Claimed(w, t, tx[w][t]) \in Run /\ Claimed(w, t, tx[w][t]).task = t
             /\ Claimed(w, t, tx[w][t]).ver = tx[w][t].spec.ver
             /\ Claimed(w, t, tx[w][t]).phase = "claimed"
             /\ Claimed(w, t, tx[w][t]).started_at = since[w] + Skew[w]
  <2>1. /\ t \in TaskId /\ tx[w][t] = row[t] /\ row[t].status = "pending"
        /\ since[w] \in Int
    BY <1>1 DEF IInv, TypeOK, Held, HeldBy
  <2>2. tx[w][t] \in Row /\ tx[w][t].spec \in Submission
    BY <2>1, RowType DEF IInv
  <2>3. Claimed(w, t, tx[w][t]).started_at = since[w] + Skew[w]
    BY DEF Claimed
  <2> QED BY <2>1, <2>2, <2>3, ClaimedType
<1>3. CASE ClaimCommit(w)
  <2>1. PICK t \in DOMAIN tx[w] : Take(w, t) /\ run' = Append(run, Claimed(w, t, tx[w][t]))
    BY <1>3 DEF ClaimCommit
  <2> DEFINE e == Claimed(w, t, tx[w][t])
  <2>2. /\ e \in Run /\ e.task = t /\ e.ver = tx[w][t].spec.ver /\ e.phase = "claimed"
        /\ e.started_at = since[w] + Skew[w] /\ run' = Append(run, e)
    BY <1>2, <2>1
  <2>3. Goto(w, "start") /\ since' = since
    BY <1>3 DEF ClaimCommit
  <2> HIDE DEF e
  <2> QED BY <1>1, <2>1, <2>2, <2>3, TakeOwns
<1>4. CASE ClaimLost(w)
  <2>1. PICK t \in DOMAIN tx[w] :
           Take(w, t) /\ run' = Append(run, Over(Claimed(w, t, tx[w][t]), NULL))
    BY <1>4 DEF ClaimLost
  <2> DEFINE e == Over(Claimed(w, t, tx[w][t]), NULL)
  <2>2. /\ e \in Run /\ e.task = t /\ e.ver = tx[w][t].spec.ver /\ e.phase = "over"
        /\ run' = Append(run, e)
    BY <1>2, <2>1, OverType
  <2>3. /\ Goto(w, AfterNoClaim) /\ Mark(w, NULL)
        /\ AfterNoClaim \notin InTx /\ AfterNoClaim # "start"
    BY <1>4 DEF ClaimLost, AfterNoClaim, InTx
  <2> HIDE DEF e
  <2> QED BY <1>1, <2>1, <2>2, <2>3, TakeOwns
<1> QED BY <1>3, <1>4
-----------------------------------------------------------------------------
(* The invariant *)

LEMMA WorkerMoved ==
    ASSUME IInv, OInv, NEW w \in Worker, Work(w) \/ Break(w), ~ClaimCommit(w), ~ClaimLost(w)
    PROVE  Moved
<1>1. CASE Claim(w)
  BY <1>1, QuietMoved, LockMoved, StartMoved DEF Claim
<1>2. CASE Finish(w)
  BY <1>2, QuietMoved, FinishSelectMoved, FinishMoved DEF Finish
<1>3. CASE Reap(w)
  BY <1>3, QuietMoved, LockMoved, ReapMoved DEF Reap
<1>4. CASE Break(w)
  BY <1>4, QuietMoved, CrashMoved, FinishMoved DEF Break
<1> QED BY <1>1, <1>2, <1>3, <1>4 DEF Work

LEMMA OthersMoved ==
    ASSUME IInv, Submit \/ Remove \/ Exit \/ Tick \/ UNCHANGED vars
    PROVE  Moved
<1>1. CASE Submit \/ Remove \/ Exit \/ Tick
  BY <1>1, SubmitMoved, RemoveMoved, ExitMoved, TickMoved
<1>2. CASE UNCHANGED vars
  <2>1. UNCHANGED <<now, row, run, loop>>
    BY <1>2 DEF vars, queue
  <2> QED BY <2>1, RowsSame, ClientMoved
<1> QED BY <1>1, <1>2

LEMMA OwnNext == ClocksInWindow /\ IInv /\ IInv' /\ OInv /\ [Next]_vars => OInv'
<1> SUFFICES ASSUME ClocksInWindow, IInv, IInv', OInv, [Next]_vars PROVE OInv'
  OBVIOUS
<1>1. CASE \E w \in Worker : ClaimCommit(w) \/ ClaimLost(w)
  BY <1>1, ClaimOwns
<1>2. CASE ~\E w \in Worker : ClaimCommit(w) \/ ClaimLost(w)
  BY <1>2, WorkerMoved, OthersMoved, MovedInv DEF Next
<1> QED BY <1>1, <1>2

LEMMA OwnInit == Init => OInv
<1> SUFFICES ASSUME Init PROVE OInv
  OBVIOUS
<1>1. Runs = {} /\ \A t \in TaskId : row[t].status = "absent"
  BY AbsentType, EmptySeq DEF Init, Runs
<1>2. \A w \in Worker : pc[w] = "poll"
  BY DEF Init
<1> QED BY <1>1, <1>2 DEF OInv, Clocked, StaleHeld, Dated, OwnOrStray, Verdicts, InTx

LEMMA Ownership == ASSUME ClocksInWindow PROVE Spec => []OInv
<1>1. IInv /\ IInv' /\ OInv /\ [Next]_vars => OInv'
  BY OwnNext
<1> QED BY <1>1, OwnInit, Invariance, PTL DEF Spec

\* A worker that records an end holds the row of its own run, also when the
\* row was reaped and claimed again: started_at tells the two apart
\* (_finish_one_off) as long as no worker's clock is behind the database by
\* more than stale_task_timeout.
THEOREM EndsAreOwn == ASSUME ClocksInWindow PROVE Spec => []RecordsOwnRun
<1>1. IInv /\ OInv => RecordsOwnRun
  BY RecordingOwns DEF OInv, RecordsOwnRun, Owns, Newest
<1> QED BY <1>1, Invariance, Ownership, PTL

\* Under the same condition, a COMPLETED row is one whose version a child ran
\* to success (_finish_one_off, reap_stale_tasks).
THEOREM CompletedIsTrue == ASSUME ClocksInWindow PROVE Spec => []HonestVerdict
<1>1. OInv => HonestVerdict
  BY DEF OInv, Verdicts, Shown, HonestVerdict
<1> QED BY <1>1, Ownership, PTL
=============================================================================
