--------------------------- MODULE TaskQueueProofs ---------------------------
(***************************************************************************)
(* Proofs about TaskQueue for every number of workers, rows, submissions,  *)
(* faults and every setting of the timeouts.                               *)
(***************************************************************************)
EXTENDS TaskQueue, SequenceTheorems, TLAPS

\* What a lock means: the holder's copy is the row, nobody else holds it, and
\* the row is still in the state the holder selected.
HeldBy(w) ==
    /\ \A t \in DOMAIN tx[w] : tx[w][t] = row[t]
    /\ \A v \in Worker : v # w => DOMAIN tx[w] \cap DOMAIN tx[v] = {}
    /\ DOMAIN tx[w] # {} => pc[w] \in {"claim", "finish", "requeue", "apply", "down"}
    /\ pc[w] = "claim" => \A t \in DOMAIN tx[w] : row[t].status = "pending"
    /\ pc[w] = "down" => \A t \in DOMAIN tx[w] : row[t].status \in {"pending", "running"}
    /\ pc[w] \notin {"claim", "down"} => \A t \in DOMAIN tx[w] : row[t].status = "running"
    /\ pc[w] \in {"claim", "start", "reap", "requeue", "apply"} => since[w] \in Int

Held == \A w \in Worker : HeldBy(w)

\* What a worker that records an end holds.
Recording == \A r \in Runs :
    /\ run[r].phase \in {"exited", "recording"} => run[r].result # NULL
    /\ run[r].phase = "recording" =>
          /\ run[r].parent \in Worker
          /\ pc[run[r].parent] = "finish"
          /\ run[r].task \in DOMAIN tx[run[r].parent]
          /\ \A s \in Runs :
                run[s].phase = "recording" /\ run[s].parent = run[r].parent => s = r

RowInv == \A t \in TaskId :
    /\ row[t].status # "absent" => row[t].spec \in Submission
    /\ row[t].requeue # NULL => row[t].status = "running"
    /\ t >= nextId => row[t] = Absent

\* What is waiting is newer than all that was claimed.
Newer ==
    /\ \A r \in Runs : run[r].task < nextId /\ run[r].ver < nextVer
    /\ \A t \in TaskId :
          /\ row[t].status # "absent" => row[t].spec.ver < nextVer
          /\ row[t].requeue # NULL => row[t].requeue.ver < nextVer
    /\ \A t \in TaskId, r \in Runs : run[r].task = t =>
          /\ row[t].status = "pending" => run[r].ver < row[t].spec.ver
          /\ row[t].requeue # NULL => run[r].ver < row[t].requeue.ver

IInv == TypeOK /\ Held /\ Recording /\ RowInv /\ Newer /\ RunsInOrder
-----------------------------------------------------------------------------
(* Types of the rows the operators build *)

USE DEF Time

LEMMA SubmittedType ==
    ASSUME NEW o \in Option, nextVer \in Version, now \in Nat
    PROVE  Submitted(o) \in Submission /\ Submitted(o).ver = nextVer
BY OptionAssumption DEF Submitted, Submission

LEMMA FreshType ==
    ASSUME NEW c \in ClientId \cup {NULL}, NEW s \in Submission
    PROVE  /\ Fresh(c, s) \in Row
           /\ Fresh(c, s).status = "pending" /\ Fresh(c, s).requeue = NULL
           /\ Fresh(c, s).spec = s /\ Fresh(c, s).client = c
BY DEF Fresh, Absent, Row

LEMMA AbsentType == Absent \in Row /\ Absent.status = "absent" /\ Absent.requeue = NULL
BY DEF Absent, Row

LEMMA ApplyRequeueType ==
    ASSUME NEW q \in Row, q.requeue # NULL
    PROVE  /\ ApplyRequeue(q) \in Row
           /\ ApplyRequeue(q).status = "pending" /\ ApplyRequeue(q).requeue = NULL
           /\ ApplyRequeue(q).spec = q.requeue
<1>1. q.client \in ClientId \cup {NULL} /\ q.requeue \in Submission
  BY DEF Row
<1> QED BY <1>1, FreshType DEF ApplyRequeue

LEMMA ClosedType ==
    ASSUME NEW q \in Row, NEW status \in {"completed", "failed"}, NEW at \in Int
    PROVE  /\ Closed(status, at, q) \in Row
           /\ Closed(status, at, q).status = status
           /\ Closed(status, at, q).requeue = q.requeue
           /\ Closed(status, at, q).spec = q.spec
BY DEF Closed, Row

LEMMA EffectiveType == ASSUME NEW s \in Submission PROVE Effective(s) \in Nat
BY BoundsAssumption DEF Effective, Submission

LEMMA ClaimedType ==
    ASSUME NEW w \in Worker, NEW t \in TaskId, NEW q \in Row, q.spec \in Submission,
           since[w] \in Int
    PROVE  /\ Claimed(w, t, q) \in Run
           /\ Claimed(w, t, q).task = t /\ Claimed(w, t, q).ver = q.spec.ver
           /\ Claimed(w, t, q).phase = "claimed"
<1>1. Effective(q.spec) \in Nat /\ q.spec.ver \in Version
  BY EffectiveType DEF Submission
<1>2. since[w] + Skew[w] \in Int /\ since[w] \in Time
  BY WorkerAssumption
<1>3. q.client \in ClientId \cup {NULL}
  BY DEF Row
<1> QED BY <1>1, <1>2, <1>3 DEF Claimed, Run

LEMMA OverType ==
    ASSUME NEW q \in Run, NEW res \in {"completed", "failed", NULL}
    PROVE  /\ Over(q, res) \in Run
           /\ Over(q, res).task = q.task /\ Over(q, res).ver = q.ver
           /\ Over(q, res).phase = "over"
BY DEF Over, Run
-----------------------------------------------------------------------------
(* How a step may change the claims *)

\* No claim is added or forgotten.
SameHistory == /\ run' \in Seq(Run)
               /\ DOMAIN run' = DOMAIN run
               /\ \A r \in Runs : run'[r].task = run[r].task /\ run'[r].ver = run[r].ver

LEMMA RunsDomain == ASSUME run \in Seq(Run) PROVE Runs = 1 .. Len(run) /\ \A r \in Runs : run[r] \in Run
BY DEF Runs

LEMMA RunType ==
    ASSUME TypeOK, NEW r \in Runs
    PROVE  /\ run[r] \in Run
           /\ run[r].task \in TaskId /\ run[r].ver \in Version
           /\ run[r].task \in Nat /\ run[r].ver \in Nat
           /\ run[r].result \in {"completed", "failed", NULL}
<1>1. run[r] \in Run
  BY RunsDomain DEF TypeOK
<1>2. run[r].task \in TaskId /\ run[r].ver \in Version
      /\ run[r].result \in {"completed", "failed", NULL}
  BY <1>1 DEF Run
<1>3. TaskId \subseteq Nat /\ Version \subseteq Nat
  BY BoundsAssumption DEF TaskId, Version
<1> QED BY <1>1, <1>2, <1>3

LEMMA RowType ==
    ASSUME TypeOK, RowInv, NEW t \in TaskId
    PROVE  /\ row[t] \in Row
           /\ row[t].status # "absent" =>
                 row[t].spec \in Submission /\ row[t].spec.ver \in Nat
           /\ row[t].requeue # NULL =>
                 row[t].requeue \in Submission /\ row[t].requeue.ver \in Nat
<1>1. row[t] \in Row
  BY DEF TypeOK
<1>2. /\ row[t].status # "absent" => row[t].spec \in Submission
      /\ row[t].requeue # NULL => row[t].requeue \in Submission
  BY <1>1 DEF RowInv, Row
<1>3. \A s \in Submission : s.ver \in Nat
  BY BoundsAssumption DEF Submission, Version
<1> QED BY <1>1, <1>2, <1>3

LEMMA RunExcept ==
    ASSUME run \in Seq(Run), NEW r \in Runs, NEW e \in Run,
           run' = [run EXCEPT ![r] = e], e.task = run[r].task, e.ver = run[r].ver
    PROVE  /\ SameHistory
           /\ \A s \in Runs : run'[s] = IF s = r THEN e ELSE run[s]
<1>1. r \in 1 .. Len(run)
  BY RunsDomain
<1>2. /\ run' \in Seq(Run)
      /\ Len(run') = Len(run)
      /\ \A s \in 1 .. Len(run) : run'[s] = IF s = r THEN e ELSE run[s]
  BY <1>1, ExceptSeq
<1>3. DOMAIN run' = 1 .. Len(run) /\ DOMAIN run = 1 .. Len(run)
  BY <1>2
<1> QED BY <1>2, <1>3 DEF SameHistory, Runs

LEMMA RunAppend ==
    ASSUME run \in Seq(Run), NEW e \in Run, run' = Append(run, e)
    PROVE  /\ run' \in Seq(Run)
           /\ DOMAIN run' = Runs \cup {Len(run) + 1}
           /\ Len(run) \in Nat /\ Runs = 1 .. Len(run)
           /\ run'[Len(run) + 1] = e
           /\ \A s \in Runs : run'[s] = run[s]
<1>1. /\ run' \in Seq(Run)
      /\ Len(run') = Len(run) + 1
      /\ \A s \in 1 .. Len(run) : run'[s] = run[s]
      /\ run'[Len(run) + 1] = e
  BY AppendProperties
<1>2. Len(run) \in Nat /\ DOMAIN run = 1 .. Len(run) /\ DOMAIN run' = 1 .. Len(run) + 1
  BY <1>1
<1> QED BY <1>1, <1>2 DEF Runs

\* The order of the claims depends on nothing else.
LEMMA OrderKept == ASSUME RunsInOrder, SameHistory PROVE RunsInOrder'
BY DEF RunsInOrder, SameHistory, Runs

\* How every step but a submission and a claim may change a row.
RowStep(t) ==
    \/ row'[t] = row[t]
    \/ row'[t] = Absent
    \/ /\ row[t].status = "running" /\ row'[t].status \in {"completed", "failed"}
       /\ row'[t].requeue = NULL /\ row'[t].spec = row[t].spec
    \/ /\ row[t].requeue # NULL /\ row'[t].status = "pending"
       /\ row'[t].requeue = NULL /\ row'[t].spec = row[t].requeue

LEMMA RowsKept ==
    ASSUME IInv, SameHistory, UNCHANGED <<nextId, nextVer>>, \A t \in TaskId : RowStep(t)
    PROVE  RowInv' /\ Newer' /\ RunsInOrder'
<1>1. RunsInOrder'
  BY OrderKept DEF IInv
<1>2. RowInv'
  <2> SUFFICES ASSUME NEW t \in TaskId
               PROVE  /\ row'[t].status # "absent" => row'[t].spec \in Submission
                      /\ row'[t].requeue # NULL => row'[t].status = "running"
                      /\ t >= nextId => row'[t] = Absent
    BY DEF RowInv
  <2>1. RowStep(t)
    OBVIOUS
  <2>2. /\ row[t].status # "absent" => row[t].spec \in Submission
        /\ row[t].requeue # NULL => row[t].status = "running" /\ row[t].requeue \in Submission
        /\ t >= nextId => row[t] = Absent
    BY RowType DEF IInv, RowInv
  <2> QED BY <2>1, <2>2, AbsentType DEF RowStep
<1>3. Newer'
  <2>1. ASSUME NEW t \in TaskId
        PROVE  /\ row'[t].status # "absent" => row'[t].spec.ver < nextVer
               /\ row'[t].requeue # NULL => row'[t].requeue.ver < nextVer
    <3>1. RowStep(t)
      OBVIOUS
    <3>2. /\ row[t].status # "absent" => row[t].spec.ver < nextVer
          /\ row[t].requeue # NULL => row[t].requeue.ver < nextVer
      BY DEF IInv, Newer
    <3> QED BY <3>1, <3>2, AbsentType DEF RowStep
  <2>2. ASSUME NEW t \in TaskId, NEW r \in Runs, run[r].task = t
        PROVE  /\ row'[t].status = "pending" => run[r].ver < row'[t].spec.ver
               /\ row'[t].requeue # NULL => run[r].ver < row'[t].requeue.ver
    <3>1. RowStep(t)
      OBVIOUS
    <3>2. /\ row[t].status = "pending" => run[r].ver < row[t].spec.ver
          /\ row[t].requeue # NULL => run[r].ver < row[t].requeue.ver
      BY <2>2 DEF IInv, Newer
    <3> QED BY <3>1, <3>2, AbsentType DEF RowStep
  <2>3. \A r \in Runs : run[r].task < nextId /\ run[r].ver < nextVer
    BY DEF IInv, Newer
  <2> QED BY <2>1, <2>2, <2>3 DEF Newer, SameHistory, Runs
<1> QED BY <1>1, <1>2, <1>3

\* The rows do not change at all.
LEMMA HistoryKept ==
    ASSUME IInv, SameHistory, UNCHANGED queue
    PROVE  RowInv' /\ Newer' /\ RunsInOrder'
BY RowsKept DEF queue, RowStep

LEMMA UnchangedHistory == ASSUME TypeOK, UNCHANGED run PROVE SameHistory
BY DEF TypeOK, SameHistory, Runs
-----------------------------------------------------------------------------
(* What the workers hold, when only those of W move *)

LEMMA HeldKept ==
    ASSUME IInv, NEW W \in SUBSET Worker,
           \A v \in Worker \ W : tx'[v] = tx[v] /\ pc'[v] = pc[v] /\ since'[v] = since[v],
           \A v \in Worker \ W : \A t \in DOMAIN tx[v] : row'[t] = row[t],
           \A w \in W : HeldBy(w)'
    PROVE  Held'
<1> SUFFICES ASSUME NEW v \in Worker, v \notin W PROVE HeldBy(v)'
  BY DEF Held
<1>1. HeldBy(v) /\ tx'[v] = tx[v] /\ pc'[v] = pc[v] /\ since'[v] = since[v]
  BY DEF IInv, Held
<1>2. \A t \in DOMAIN tx[v] : row'[t] = row[t]
  OBVIOUS
<1>3. ASSUME NEW u \in Worker, u # v PROVE DOMAIN tx'[v] \cap DOMAIN tx'[u] = {}
  <2>1. CASE u \in W
    BY <2>1, <1>3 DEF HeldBy
  <2>2. CASE u \notin W
    BY <2>2, <1>1, <1>3 DEF HeldBy
  <2> QED BY <2>1, <2>2
<1> QED BY <1>1, <1>2, <1>3 DEF HeldBy

LEMMA RecordingKept ==
    ASSUME IInv, NEW W \in SUBSET Worker,
           \A v \in Worker \ W : tx'[v] = tx[v] /\ pc'[v] = pc[v],
           \A r \in DOMAIN run' :
              \/ /\ r \in Runs /\ run'[r] = run[r]
                 /\ run[r].phase = "recording" => run[r].parent \notin W
              \/ /\ run'[r].phase # "recording"
                 /\ run'[r].phase = "exited" => run'[r].result # NULL
    PROVE  Recording'
<1>1. ASSUME NEW r \in DOMAIN run'
      PROVE  run'[r].phase \in {"exited", "recording"} => run'[r].result # NULL
  BY <1>1 DEF IInv, Recording
<1>2. ASSUME NEW r \in DOMAIN run', run'[r].phase = "recording"
      PROVE  /\ r \in Runs /\ run'[r] = run[r]
             /\ run[r].parent \in Worker \ W
             /\ pc[run[r].parent] = "finish"
             /\ run[r].task \in DOMAIN tx[run[r].parent]
             /\ \A s \in Runs :
                   run[s].phase = "recording" /\ run[s].parent = run[r].parent => s = r
  BY <1>2 DEF IInv, Recording
<1>3. ASSUME NEW r \in DOMAIN run', run'[r].phase = "recording"
      PROVE  /\ run'[r].parent \in Worker
             /\ pc'[run'[r].parent] = "finish"
             /\ run'[r].task \in DOMAIN tx'[run'[r].parent]
  BY <1>2, <1>3
<1>4. ASSUME NEW r \in DOMAIN run', run'[r].phase = "recording",
             NEW s \in DOMAIN run', run'[s].phase = "recording", run'[s].parent = run'[r].parent
      PROVE  s = r
  <2>1. /\ run'[r] = run[r] /\ run'[s] = run[s] /\ s \in Runs
        /\ \A q \in Runs :
              run[q].phase = "recording" /\ run[q].parent = run[r].parent => q = r
    BY <1>4, <1>2
  <2> QED BY <2>1, <1>4
<1> QED BY <1>1, <1>3, <1>4 DEF Recording, Runs

\* The same when no worker moves.
LEMMA LoopKept ==
    ASSUME IInv, UNCHANGED loop,
           \A w \in Worker : \A t \in DOMAIN tx[w] : row'[t] = row[t]
    PROVE  Held' /\ (UNCHANGED run => Recording')
<1>1. \A v \in Worker \ {} : tx'[v] = tx[v] /\ pc'[v] = pc[v] /\ since'[v] = since[v]
  BY DEF loop
<1>2. {} \in SUBSET Worker /\ \A w \in {} : HeldBy(w)'
  OBVIOUS
<1>3. Held'
  BY <1>1, <1>2, HeldKept
<1>4. UNCHANGED run => Recording'
  BY <1>1, <1>2, RecordingKept DEF Runs
<1> QED BY <1>3, <1>4

\* A worker leaves its transaction, or had none.
LEMMA HoldsNothing ==
    ASSUME NEW w \in Worker, DOMAIN tx'[w] = {},
           pc'[w] \in {"claim", "start", "reap", "requeue", "apply"} => since'[w] \in Int
    PROVE  HeldBy(w)'
BY DEF HeldBy

Pc == {"poll", "claim", "start", "failed", "select", "finish", "idle", "reap", "requeue", "apply",
       "down"}

LEMMA TypeKept ==
    ASSUME IInv, NEW w \in Worker,
           row' \in [TaskId -> Row], run' \in Seq(Run),
           UNCHANGED <<now, nextId, nextVer>>, faults' \in 0 .. MaxFaults,
           pc' \in [Worker -> Pc], since' \in [Worker -> Time], DOMAIN tx' = Worker,
           \A v \in Worker : v # w => tx'[v] = tx[v],
           DOMAIN tx'[w] \subseteq TaskId, tx'[w] \in [DOMAIN tx'[w] -> Row]
    PROVE  TypeOK'
<1>1. \A v \in Worker : DOMAIN tx'[v] \subseteq TaskId /\ tx'[v] \in [DOMAIN tx'[v] -> Row]
  BY DEF IInv, TypeOK
<1> QED BY <1>1 DEF IInv, TypeOK, Pc
-----------------------------------------------------------------------------
(* Clients *)

\* A submission is newer than everything so far.
LEMMA SubmitNewer ==
    ASSUME IInv, NEW t \in TaskId, UNCHANGED run,
           nextVer \in Version, nextVer' = nextVer + 1, nextId' \in {nextId, nextId + 1},
           \A u \in TaskId : u # t => row'[u] = row[u],
           \/ /\ row'[t].status = "pending" /\ row'[t].requeue = NULL
              /\ row'[t].spec.ver = nextVer
           \/ /\ row'[t].status = "running" /\ row'[t].requeue.ver = nextVer
              /\ row'[t].spec = row[t].spec /\ row[t].status = "running"
    PROVE  Newer'
<1>1. /\ {nextVer, nextId, nextVer', nextId'} \subseteq Nat
      /\ nextVer < nextVer' /\ nextId <= nextId'
  BY BoundsAssumption DEF IInv, TypeOK, Version
<1>2. \A r \in Runs : run[r].task \in Nat /\ run[r].ver \in Nat
  BY RunType DEF IInv
<1>3. \A u \in TaskId : /\ row[u].status # "absent" => row[u].spec.ver \in Nat
                        /\ row[u].requeue # NULL => row[u].requeue.ver \in Nat
  BY RowType DEF IInv
<1>4. \A r \in Runs : run'[r].task < nextId' /\ run'[r].ver < nextVer'
  BY <1>1, <1>2 DEF IInv, Newer
<1>5. ASSUME NEW u \in TaskId
      PROVE  /\ row'[u].status # "absent" => row'[u].spec.ver < nextVer'
             /\ row'[u].requeue # NULL => row'[u].requeue.ver < nextVer'
  <2>1. CASE u # t
    <3>1. row'[u] = row[u]
      BY <2>1
    <3>2. /\ row[u].status # "absent" => row[u].spec.ver < nextVer
          /\ row[u].requeue # NULL => row[u].requeue.ver < nextVer
      BY DEF IInv, Newer
    <3> QED BY <1>1, <1>3, <3>1, <3>2
  <2>2. CASE u = t
    <3>1. row[t].status = "running" => row[t].spec.ver < nextVer
      BY DEF IInv, Newer
    <3>4. row[t].status = "running" => row[t].spec.ver \in Nat
      BY <1>3
    <3>2. row'[t].spec.ver < nextVer'
      BY <1>1, <3>1, <3>4
    <3>3. row'[t].requeue # NULL => row'[t].requeue.ver < nextVer'
      BY <1>1
    <3> QED BY <2>2, <3>2, <3>3
  <2> QED BY <2>1, <2>2
<1>6. ASSUME NEW u \in TaskId, NEW r \in Runs, run[r].task = u
      PROVE  /\ row'[u].status = "pending" => run[r].ver < row'[u].spec.ver
             /\ row'[u].requeue # NULL => run[r].ver < row'[u].requeue.ver
  BY <1>1, <1>2, <1>3, <1>6 DEF IInv, Newer
<1>7. Runs' = Runs
  BY DEF Runs
<1> QED BY <1>4, <1>5, <1>6, <1>7 DEF Newer

LEMMA EnqueueStep ==
    ASSUME IInv, NEW o \in Option, NEW c \in ClientId \cup {NULL}, Enqueue(o, c)
    PROVE  IInv'
<1> DEFINE q == Fresh(c, Submitted(o))
<1>1. /\ nextVer \in Version /\ nextId \in TaskId /\ now \in Nat
      /\ row' = [row EXCEPT ![nextId] = q] /\ row \in [TaskId -> Row]
      /\ nextId' = nextId + 1 /\ nextVer' = nextVer + 1
      /\ UNCHANGED <<now, run, loop, faults>>
  BY DEF Enqueue, IInv, TypeOK
<1>2. Submitted(o) \in Submission /\ Submitted(o).ver = nextVer
  BY <1>1, SubmittedType
<1>3. /\ q \in Row /\ q.status = "pending" /\ q.requeue = NULL
      /\ q.spec = Submitted(o)
  BY <1>2, FreshType
<1>4. row' \in [TaskId -> Row] /\ row'[nextId] = q
      /\ \A t \in TaskId : t # nextId => row'[t] = row[t]
  BY <1>1, <1>3
<1>5. TypeOK'
  BY <1>1, <1>4, BoundsAssumption DEF IInv, TypeOK, loop, TaskId, Version
<1>6. Held'
  <2>1. \A w \in Worker : nextId \notin DOMAIN tx[w]
    <3>1. row[nextId].status = "absent"
      BY <1>1, AbsentType, BoundsAssumption DEF IInv, RowInv, TaskId
    <3> QED BY <3>1 DEF IInv, Held, HeldBy
  <2>2. \A w \in Worker : DOMAIN tx[w] \subseteq TaskId
    BY DEF IInv, TypeOK
  <2> QED BY <2>1, <2>2, <1>1, <1>4, LoopKept
<1>7. Recording'
  BY <1>1 DEF IInv, Recording, loop, Runs
<1>8. RowInv'
  BY <1>1, <1>2, <1>3, <1>4, BoundsAssumption DEF IInv, RowInv, TaskId
<1>9. Newer'
  <2> QED BY <1>1, <1>2, <1>3, <1>4, SubmitNewer DEF IInv
<1>10. RunsInOrder'
  BY <1>1, UnchangedHistory, OrderKept DEF IInv
<1> QED BY <1>5, <1>6, <1>7, <1>8, <1>9, <1>10 DEF IInv

LEMMA UpsertStep ==
    ASSUME IInv, NEW o \in Option, NEW c \in ClientId, NEW t \in Owner(c), UpsertConflict(o, t)
    PROVE  IInv'
<1> DEFINE new == IF row[t].status = "running"
                  THEN [row[t] EXCEPT !.requeue = Submitted(o)]
                  ELSE Fresh(row[t].client, Submitted(o))
<1>1. /\ t \in TaskId /\ row[t].status # "absent"
      /\ nextVer \in Version /\ now \in Nat /\ Free(t)
      /\ row \in [TaskId -> Row] /\ row' = [row EXCEPT ![t] = new]
      /\ nextVer' = nextVer + 1 /\ UNCHANGED <<now, nextId, run, loop, faults>>
  BY DEF Owner, UpsertConflict, IInv, TypeOK
<1>2. Submitted(o) \in Submission /\ Submitted(o).ver = nextVer
  BY <1>1, SubmittedType
<1>3. /\ row[t] \in Row /\ row[t].spec \in Submission
      /\ row[t].client \in ClientId \cup {NULL}
      /\ t < nextId /\ t \in Nat /\ nextId \in Nat
  <2>1. row[t] \in Row /\ row[t].spec \in Submission
    BY <1>1, RowType DEF IInv
  <2>2. t \in Nat /\ nextId \in Nat
    BY <1>1, BoundsAssumption DEF IInv, TypeOK, TaskId
  <2>3. ~(t >= nextId)
    BY <1>1, AbsentType DEF IInv, RowInv
  <2> QED BY <2>1, <2>2, <2>3 DEF Row
<1>4. /\ new \in Row
      /\ \/ new.status = "pending" /\ new.requeue = NULL /\ new.spec = Submitted(o)
         \/ /\ new.status = "running" /\ new.requeue = Submitted(o)
            /\ new.spec = row[t].spec /\ row[t].status = "running"
  <2>1. CASE row[t].status = "running"
    BY <2>1, <1>2, <1>3 DEF Row
  <2>2. CASE row[t].status # "running"
    BY <2>2, <1>2, <1>3, FreshType
  <2> QED BY <2>1, <2>2
<1>5. /\ row' \in [TaskId -> Row] /\ row'[t] = new
      /\ \A u \in TaskId : u # t => row'[u] = row[u]
  BY <1>1, <1>4
<1>6. TypeOK'
  BY <1>1, <1>5, BoundsAssumption DEF IInv, TypeOK, loop, Version
<1>7. Held' /\ Recording'
  <2>1. \A w \in Worker : t \notin DOMAIN tx[w] /\ DOMAIN tx[w] \subseteq TaskId
    BY <1>1 DEF Free, IInv, TypeOK
  <2> QED BY <2>1, <1>1, <1>5, LoopKept
<1>8. RowInv'
  BY <1>1, <1>2, <1>3, <1>4, <1>5 DEF IInv, RowInv
<1>9. Newer'
  BY <1>1, <1>2, <1>4, <1>5, SubmitNewer
<1>10. RunsInOrder'
  BY <1>1, UnchangedHistory, OrderKept DEF IInv
<1> QED BY <1>6, <1>7, <1>8, <1>9, <1>10 DEF IInv

LEMMA DeleteStep ==
    ASSUME IInv, NEW T \in SUBSET TaskId, Delete(T)
    PROVE  IInv'
<1>1. /\ \A t \in T : Free(t)
      /\ row' = [t \in TaskId |-> IF t \in T THEN Absent ELSE row[t]]
      /\ UNCHANGED <<now, nextId, nextVer, run, loop, faults>>
      /\ row \in [TaskId -> Row]
  BY DEF Delete, IInv, TypeOK
<1>2. row' \in [TaskId -> Row] /\ \A t \in TaskId : RowStep(t)
  BY <1>1, AbsentType DEF RowStep
<1>3. TypeOK'
  BY <1>1, <1>2 DEF IInv, TypeOK, loop
<1>4. Held' /\ Recording'
  <2>1. \A w \in Worker : \A t \in DOMAIN tx[w] : t \in TaskId /\ t \notin T
    BY <1>1 DEF Free, IInv, TypeOK
  <2> QED BY <2>1, <1>1, LoopKept
<1>5. RowInv' /\ Newer' /\ RunsInOrder'
  <2>1. SameHistory
    BY <1>1, UnchangedHistory DEF IInv
  <2> QED BY <2>1, <1>1, <1>2, RowsKept
<1> QED BY <1>3, <1>4, <1>5 DEF IInv

LEMMA RemoveStep == ASSUME IInv, Remove PROVE IInv'
<1>1. \E T \in SUBSET TaskId : Delete(T)
  <2>1. ASSUME NEW t \in TaskId, Cancel(t) PROVE \E T \in SUBSET TaskId : Delete(T)
    BY <2>1 DEF Cancel
  <2>2. ASSUME ClearAll PROVE \E T \in SUBSET TaskId : Delete(T)
    BY <2>2 DEF ClearAll
  <2>3. ASSUME NEW s, NEW before, Clear(s, before) PROVE \E T \in SUBSET TaskId : Delete(T)
    BY <2>3 DEF Clear
  <2> QED BY <2>1, <2>2, <2>3 DEF Remove
<1> QED BY <1>1, DeleteStep

LEMMA SubmitStep == ASSUME IInv, Submit PROVE IInv'
<1>1. PICK o \in Option, c \in ClientId \cup {NULL} :
         Enqueue(o, c) \/ (c # NULL /\ Upsert(o, c))
  BY DEF Submit
<1>2. CASE Enqueue(o, c)
  BY <1>2, EnqueueStep
<1>3. CASE c # NULL /\ Upsert(o, c)
  <2>1. c \in ClientId
    BY <1>3
  <2>2. Enqueue(o, c) \/ \E t \in Owner(c) : UpsertConflict(o, t)
    BY <1>3 DEF Upsert
  <2> QED BY <2>1, <2>2, EnqueueStep, UpsertStep
<1> QED BY <1>1, <1>2, <1>3
-----------------------------------------------------------------------------
(* Worker steps that move no row and no claim *)

LEMMA NoTxType == DOMAIN NoTx = {} /\ NoTx \in [{} -> Row]
BY DEF NoTx

LEMMA NoTxHeld == ASSUME IInv, NEW w \in Worker,
                         pc[w] \notin {"claim", "finish", "requeue", "apply", "down"}
                  PROVE  DOMAIN tx[w] = {}
BY DEF IInv, Held, HeldBy

\* A worker that is not recording moves its pc and its clock reading only.
LEMMA MoveStep ==
    ASSUME IInv, NEW w \in Worker, NEW p \in Pc, NEW at \in Time,
           pc[w] \notin {"claim", "finish", "requeue", "apply", "down"},
           Goto(w, p), Mark(w, at),
           p \in {"claim", "start", "reap", "requeue", "apply"} => at \in Int,
           UNCHANGED <<now, queue, run, tx, faults>>
    PROVE  IInv'
<1>1. /\ pc \in [Worker -> Pc] /\ since \in [Worker -> Time] /\ DOMAIN tx = Worker
      /\ DOMAIN tx[w] \subseteq TaskId /\ tx[w] \in [DOMAIN tx[w] -> Row]
      /\ row \in [TaskId -> Row] /\ run \in Seq(Run) /\ faults \in 0 .. MaxFaults
  BY DEF IInv, TypeOK, Pc
<1>2. /\ pc' \in [Worker -> Pc] /\ pc'[w] = p /\ \A v \in Worker : v # w => pc'[v] = pc[v]
      /\ since' \in [Worker -> Time] /\ since'[w] = at
      /\ \A v \in Worker : v # w => since'[v] = since[v]
  BY <1>1 DEF Goto, Mark
<1>3. TypeOK'
  BY <1>1, <1>2, TypeKept DEF queue
<1>4. Held'
  <2>1. HeldBy(w)'
    BY <1>2, NoTxHeld, HoldsNothing
  <2>2. \A v \in Worker \ {w} : tx'[v] = tx[v] /\ pc'[v] = pc[v] /\ since'[v] = since[v]
    BY <1>2
  <2>3. \A v \in Worker \ {w} : \A t \in DOMAIN tx[v] : row'[t] = row[t]
    BY DEF queue
  <2>4. {w} \in SUBSET Worker /\ \A u \in {w} : HeldBy(u)'
    BY <2>1
  <2> QED BY <2>2, <2>3, <2>4, HeldKept
<1>5. Recording'
  <2>1. \A r \in Runs : run[r].phase = "recording" => run[r].parent # w
    BY DEF IInv, Recording
  <2>2. \A v \in Worker \ {w} : tx'[v] = tx[v] /\ pc'[v] = pc[v]
    BY <1>2
  <2>3. \A r \in DOMAIN run' : /\ r \in Runs /\ run'[r] = run[r]
                               /\ run[r].phase = "recording" => run[r].parent \notin {w}
    BY <2>1 DEF Runs
  <2> QED BY <2>2, <2>3, RecordingKept
<1>6. RowInv' /\ Newer' /\ RunsInOrder'
  BY UnchangedHistory, HistoryKept DEF IInv
<1> QED BY <1>3, <1>4, <1>5, <1>6 DEF IInv

LEMMA SinceSame == ASSUME IInv, NEW w \in Worker, UNCHANGED since
                   PROVE  Mark(w, since[w]) /\ since[w] \in Time
BY DEF IInv, TypeOK, Mark

LEMMA IdleSteps ==
    ASSUME IInv, NEW w \in Worker,
           PollEmpty(w) \/ SelectTimeout(w) \/ ReapBegin(w) \/ ReapNotDue(w)
    PROVE  IInv'
<1>1. CASE PollEmpty(w)
  <2>1. AfterNoClaim \in {"idle", "select"}
    BY DEF AfterNoClaim
  <2> QED BY <1>1, <2>1, SinceSame, MoveStep DEF PollEmpty, Pc
<1>2. CASE SelectTimeout(w)
  BY <1>2, SinceSame, MoveStep DEF SelectTimeout, Pc
<1>3. CASE ReapBegin(w)
  <2>1. now \in Int /\ now \in Time
    BY DEF IInv, TypeOK
  <2> QED BY <1>3, <2>1, MoveStep DEF ReapBegin, Pc
<1>4. CASE ReapNotDue(w)
  BY <1>4, SinceSame, MoveStep DEF ReapNotDue, Pc
<1> QED BY <1>1, <1>2, <1>3, <1>4

LEMMA TickStep == ASSUME IInv, Tick PROVE IInv'
<1>1. now' = now + 1 /\ now \in Nat /\ UNCHANGED <<queue, run, loop, faults>>
  BY DEF Tick, IInv, TypeOK
<1>2. TypeOK'
  BY <1>1 DEF IInv, TypeOK, queue, loop
<1>3. Held' /\ Recording'
  BY <1>1, LoopKept DEF queue
<1>4. RowInv' /\ Newer' /\ RunsInOrder'
  BY <1>1, UnchangedHistory, HistoryKept DEF IInv
<1> QED BY <1>2, <1>3, <1>4 DEF IInv
-----------------------------------------------------------------------------
(* Worker steps that take or release row locks *)

\* Worker w moves to p, holding h; the others stay where they are.
Moves(w, p, at, h) ==
    /\ p \in Pc /\ at \in Time
    /\ Goto(w, p) /\ Mark(w, at) /\ tx' = [tx EXCEPT ![w] = h]

LEMMA MovesFrame ==
    ASSUME IInv, NEW w \in Worker, NEW p, NEW at, NEW h, Moves(w, p, at, h)
    PROVE  /\ pc' \in [Worker -> Pc] /\ since' \in [Worker -> Time] /\ DOMAIN tx' = Worker
           /\ pc'[w] = p /\ since'[w] = at /\ tx'[w] = h
           /\ \A v \in Worker \ {w} : tx'[v] = tx[v] /\ pc'[v] = pc[v] /\ since'[v] = since[v]
BY DEF IInv, TypeOK, Moves, Goto, Mark, Pc

\* It writes only rows that no other worker has locked.
LEMMA MovesStep ==
    ASSUME IInv, NEW w \in Worker, NEW p, NEW at, NEW h, Moves(w, p, at, h),
           DOMAIN h \subseteq TaskId, h \in [DOMAIN h -> Row],
           row' \in [TaskId -> Row], run' \in Seq(Run),
           UNCHANGED <<now, nextId, nextVer>>, faults' \in 0 .. MaxFaults,
           \A v \in Worker \ {w} : \A t \in DOMAIN tx[v] : row'[t] = row[t],
           HeldBy(w)'
    PROVE  TypeOK' /\ Held'
<1>1. /\ pc' \in [Worker -> Pc] /\ since' \in [Worker -> Time] /\ DOMAIN tx' = Worker
      /\ tx'[w] = h
      /\ \A v \in Worker \ {w} : tx'[v] = tx[v] /\ pc'[v] = pc[v] /\ since'[v] = since[v]
  BY MovesFrame
<1>2. TypeOK'
  BY <1>1, TypeKept
<1>3. {w} \in SUBSET Worker /\ \A u \in {w} : HeldBy(u)'
  OBVIOUS
<1>4. Held'
  BY <1>1, <1>3, HeldKept
<1> QED BY <1>2, <1>4

LEMMA NotRecording ==
    ASSUME IInv, NEW w \in Worker, pc[w] # "finish"
    PROVE  \A r \in Runs : run[r].phase = "recording" => run[r].parent # w
BY DEF IInv, Recording

\* A step of a worker that records nothing and claims nothing.
LEMMA RecordingSame ==
    ASSUME IInv, NEW w \in Worker, NEW p, NEW at, NEW h, Moves(w, p, at, h),
           pc[w] # "finish", UNCHANGED run
    PROVE  Recording'
<1>1. \A v \in Worker \ {w} : tx'[v] = tx[v] /\ pc'[v] = pc[v]
  BY MovesFrame
<1>2. \A r \in DOMAIN run' : /\ r \in Runs /\ run'[r] = run[r]
                             /\ run[r].phase = "recording" => run[r].parent \notin {w}
  BY NotRecording DEF Runs
<1>3. {w} \in SUBSET Worker
  OBVIOUS
<1> QED BY <1>1, <1>2, <1>3, RecordingKept

\* The transaction ends: it wrote only rows it held.
LEMMA Release ==
    ASSUME IInv, NEW w \in Worker, NEW p, NEW at, Moves(w, p, at, NoTx),
           p \in {"claim", "start", "reap", "requeue", "apply"} => at \in Int,
           row' \in [TaskId -> Row], run' \in Seq(Run),
           UNCHANGED <<now, nextId, nextVer>>, faults' \in 0 .. MaxFaults,
           \A t \in TaskId \ DOMAIN tx[w] : row'[t] = row[t]
    PROVE  TypeOK' /\ Held'
<1>1. pc'[w] = p /\ since'[w] = at /\ tx'[w] = NoTx
  BY MovesFrame
<1>2. HeldBy(w)'
  BY <1>1, NoTxType, HoldsNothing
<1>3. \A v \in Worker \ {w} : \A t \in DOMAIN tx[v] : row'[t] = row[t]
  BY DEF IInv, Held, HeldBy, TypeOK
<1>4. DOMAIN NoTx \subseteq TaskId /\ NoTx \in [DOMAIN NoTx -> Row]
  BY NoTxType
<1> QED BY <1>2, <1>3, <1>4, MovesStep

LEMMA ReleaseStep ==
    ASSUME IInv, NEW w \in Worker, NEW p, NEW at, Moves(w, p, at, NoTx),
           p \in {"claim", "start", "reap", "requeue", "apply"} => at \in Int,
           pc[w] # "finish", row' \in [TaskId -> Row],
           UNCHANGED <<now, nextId, nextVer, run>>, faults' \in 0 .. MaxFaults,
           \A t \in TaskId \ DOMAIN tx[w] : row'[t] = row[t],
           \A t \in DOMAIN tx[w] : RowStep(t)
    PROVE  IInv'
<1>1. run' \in Seq(Run) /\ SameHistory
  BY UnchangedHistory DEF IInv, TypeOK
<1>2. TypeOK' /\ Held'
  BY <1>1, Release
<1>3. Recording'
  BY RecordingSame
<1>4. RowInv' /\ Newer' /\ RunsInOrder'
  <2>1. \A t \in TaskId : RowStep(t)
    BY DEF RowStep
  <2> QED BY <1>1, <2>1, RowsKept
<1> QED BY <1>2, <1>3, <1>4 DEF IInv

\* The transaction locks free rows, or keeps those it has.
LEMMA Acquire ==
    ASSUME IInv, NEW w \in Worker, NEW p, NEW at, NEW T \in SUBSET TaskId,
           Moves(w, p, at, Read(T)),
           \A t \in T : Free(t) \/ t \in DOMAIN tx[w],
           p \in {"claim", "finish", "requeue", "apply"}, p # "finish" => at \in Int,
           \A t \in T : row[t].status = IF p = "claim" THEN "pending" ELSE "running",
           UNCHANGED queue, faults' = faults, now' = now, run' \in Seq(Run)
    PROVE  TypeOK' /\ Held'
<1>1. DOMAIN Read(T) = T /\ \A t \in T : Read(T)[t] = row[t]
  BY DEF Read
<1>2. T \subseteq TaskId /\ Read(T) \in [T -> Row] /\ row' = row
      /\ row' \in [TaskId -> Row] /\ UNCHANGED <<now, nextId, nextVer>>
      /\ faults' \in 0 .. MaxFaults
  BY DEF Read, IInv, TypeOK, queue
<1>3. /\ pc'[w] = p /\ since'[w] = at /\ tx'[w] = Read(T)
      /\ \A v \in Worker \ {w} : tx'[v] = tx[v]
  BY MovesFrame
<1>4. ASSUME NEW v \in Worker, v # w PROVE DOMAIN tx'[w] \cap DOMAIN tx'[v] = {}
  <2>1. \A t \in T : t \notin DOMAIN tx[v]
    BY <1>4 DEF Free, IInv, Held, HeldBy
  <2> QED BY <2>1, <1>1, <1>3, <1>4
<1>5. HeldBy(w)'
  BY <1>1, <1>2, <1>3, <1>4 DEF HeldBy
<1>6. \A v \in Worker \ {w} : \A t \in DOMAIN tx[v] : row'[t] = row[t]
  BY <1>2
<1> QED BY <1>1, <1>2, <1>5, <1>6, MovesStep

LEMMA AcquireStep ==
    ASSUME IInv, NEW w \in Worker, NEW p, NEW at, NEW T \in SUBSET TaskId,
           Moves(w, p, at, Read(T)),
           \A t \in T : Free(t) \/ t \in DOMAIN tx[w],
           p \in {"claim", "requeue", "apply"}, at \in Int, pc[w] # "finish",
           \A t \in T : row[t].status = IF p = "claim" THEN "pending" ELSE "running",
           UNCHANGED <<now, queue, run, faults>>
    PROVE  IInv'
<1>1. run' \in Seq(Run) /\ SameHistory
  BY UnchangedHistory DEF IInv, TypeOK
<1>2. TypeOK' /\ Held'
  BY <1>1, Acquire
<1>3. Recording'
  BY RecordingSame
<1>4. RowInv' /\ Newer' /\ RunsInOrder'
  BY <1>1, HistoryKept
<1> QED BY <1>2, <1>3, <1>4 DEF IInv

LEMMA LockSteps ==
    ASSUME IInv, NEW w \in Worker, ClaimSelect(w) \/ ReapUpdate(w) \/ ReapSelect(w)
    PROVE  IInv'
<1>1. CASE ClaimSelect(w)
  <2>1. PICK t \in Due(w) : Lock(w, {t})
    BY <1>1 DEF ClaimSelect
  <2>2. {t} \in SUBSET TaskId /\ \A u \in {t} : Free(u) /\ row[u].status = "pending"
    BY <2>1 DEF Due
  <2>3. now \in Int
    BY DEF IInv, TypeOK
  <2>4. Moves(w, "claim", now, Read({t}))
    BY <1>1, <2>1, <2>3 DEF ClaimSelect, Moves, Lock, Pc
  <2>5. pc[w] # "finish" /\ UNCHANGED <<now, queue, run, faults>>
    BY <1>1 DEF ClaimSelect
  <2> QED BY <2>2, <2>3, <2>4, <2>5, AcquireStep
<1>2. CASE ReapUpdate(w)
  <2> DEFINE T == StaleRows(w, FALSE)
  <2>1. T \in SUBSET TaskId /\ \A t \in T : Free(t) /\ row[t].status = "running"
    BY <1>2 DEF ReapUpdate, StaleRows, Stale
  <2>2. since[w] \in Int /\ Mark(w, since[w])
    BY <1>2, SinceSame DEF ReapUpdate, IInv, Held, HeldBy
  <2>3. Moves(w, "requeue", since[w], Read(T))
    BY <1>2, <2>2 DEF ReapUpdate, Moves, Lock, Pc
  <2>4. pc[w] # "finish" /\ UNCHANGED <<now, queue, run, faults>>
    BY <1>2 DEF ReapUpdate
  <2> HIDE DEF T
  <2> QED BY <2>1, <2>2, <2>3, <2>4, AcquireStep
<1>3. CASE ReapSelect(w)
  <2> DEFINE T == DOMAIN tx[w] \cup StaleRows(w, TRUE)
  <2>1. /\ T \in SUBSET TaskId
        /\ \A t \in T : (Free(t) \/ t \in DOMAIN tx[w]) /\ row[t].status = "running"
    BY <1>3 DEF ReapSelect, StaleRows, Stale, IInv, TypeOK, Held, HeldBy
  <2>2. since[w] \in Int /\ Mark(w, since[w])
    BY <1>3, SinceSame DEF ReapSelect, IInv, Held, HeldBy
  <2>3. Moves(w, "apply", since[w], Read(T))
    BY <1>3, <2>2 DEF ReapSelect, Moves, Read, Pc, IInv, TypeOK
  <2>4. pc[w] # "finish" /\ UNCHANGED <<now, queue, run, faults>>
    BY <1>3 DEF ReapSelect
  <2> HIDE DEF T
  <2> QED BY <2>1, <2>2, <2>3, <2>4, AcquireStep
<1> QED BY <1>1, <1>2, <1>3
-----------------------------------------------------------------------------
(* Claims and runs *)

\* A claim: the new run is the newest of its row, and nothing newer was there.
LEMMA ClaimStep ==
    ASSUME IInv, NEW w \in Worker, NEW p \in Pc, NEW at \in Time, pc[w] = "claim",
           NEW t \in DOMAIN tx[w], NEW e \in Run,
           e.task = t, e.ver = row[t].spec.ver, e.phase \in {"claimed", "over"},
           Take(w, t), run' = Append(run, e), Moves(w, p, at, NoTx),
           p \in {"claim", "start", "reap", "requeue", "apply"} => at \in Int,
           UNCHANGED <<now, nextId, nextVer>>, faults' \in 0 .. MaxFaults
    PROVE  IInv'
<1> DEFINE n == Len(run) + 1
<1>1. /\ t \in TaskId /\ row \in [TaskId -> Row] /\ row[t] \in Row
      /\ tx[w][t] = row[t] /\ row[t].status = "pending" /\ row[t].requeue = NULL
      /\ since[w] + Skew[w] \in Int /\ row[t].attempts + 1 \in Nat
  <2>1. t \in TaskId /\ row \in [TaskId -> Row]
    BY DEF IInv, TypeOK
  <2>2. tx[w][t] = row[t] /\ row[t].status = "pending" /\ since[w] \in Int
    BY DEF IInv, Held, HeldBy
  <2>3. row[t].requeue = NULL
    BY <2>1, <2>2 DEF IInv, RowInv
  <2> QED BY <2>1, <2>2, <2>3, WorkerAssumption DEF Row
<1>2. /\ row' \in [TaskId -> Row]
      /\ row'[t].status = "running" /\ row'[t].requeue = NULL /\ row'[t].spec = row[t].spec
      /\ \A u \in TaskId : u # t => row'[u] = row[u]
  BY <1>1 DEF Take, Row
<1>3. /\ run' \in Seq(Run) /\ n \in Nat /\ Runs = 1 .. Len(run) /\ Len(run) \in Nat
      /\ DOMAIN run' = Runs \cup {n} /\ run'[n] = e
      /\ \A s \in Runs : run'[s] = run[s]
  BY RunAppend DEF IInv, TypeOK
<1>4. TypeOK' /\ Held'
  <2>1. \A u \in TaskId \ DOMAIN tx[w] : row'[u] = row[u]
    BY <1>2
  <2> QED BY <1>2, <1>3, <2>1, Release
<1> HIDE DEF n
<1>5. Recording'
  <2>1. \A v \in Worker \ {w} : tx'[v] = tx[v] /\ pc'[v] = pc[v]
    BY MovesFrame
  <2>2. ASSUME NEW r \in DOMAIN run'
        PROVE  \/ /\ r \in Runs /\ run'[r] = run[r]
                  /\ run[r].phase = "recording" => run[r].parent \notin {w}
               \/ /\ run'[r].phase # "recording"
                  /\ run'[r].phase = "exited" => run'[r].result # NULL
    <3>1. CASE r \in Runs
      BY <1>3, <3>1, NotRecording
    <3>2. CASE r = n
      BY <1>3, <3>2
    <3> QED BY <1>3, <3>1, <3>2
  <2>3. {w} \in SUBSET Worker
    OBVIOUS
  <2> QED BY <2>1, <2>2, <2>3, RecordingKept
<1>6. RowInv'
  BY <1>1, <1>2, AbsentType DEF IInv, RowInv
<1>7. t < nextId /\ row[t].spec.ver < nextVer
  <2>1. t \in Nat /\ nextId \in Nat
    BY <1>1, BoundsAssumption DEF IInv, TypeOK, TaskId
  <2>2. ~(t >= nextId)
    BY <1>1, AbsentType DEF IInv, RowInv
  <2> QED BY <1>1, <2>1, <2>2 DEF IInv, Newer
<1>8. Newer'
  <2>1. \A r \in DOMAIN run' : run'[r].task < nextId /\ run'[r].ver < nextVer
    BY <1>3, <1>7 DEF IInv, Newer
  <2>2. \A u \in TaskId : /\ row'[u].status # "absent" => row'[u].spec.ver < nextVer
                          /\ row'[u].requeue # NULL => row'[u].requeue.ver < nextVer
    BY <1>2, <1>7 DEF IInv, Newer
  <2>3. ASSUME NEW u \in TaskId, NEW r \in DOMAIN run', run'[r].task = u
        PROVE  /\ row'[u].status = "pending" => run'[r].ver < row'[u].spec.ver
               /\ row'[u].requeue # NULL => run'[r].ver < row'[u].requeue.ver
    <3>1. CASE u = t
      BY <1>2, <3>1
    <3>2. CASE u # t
      <4>1. r \in Runs /\ run'[r] = run[r] /\ row'[u] = row[u]
        BY <1>2, <1>3, <2>3, <3>2
      <4> QED BY <4>1, <2>3 DEF IInv, Newer
    <3> QED BY <3>1, <3>2
  <2> QED BY <2>1, <2>2, <2>3 DEF Newer, Runs
<1>9. RunsInOrder'
  <2> SUFFICES ASSUME NEW r \in DOMAIN run', NEW s \in DOMAIN run',
                      r < s, run'[r].task = run'[s].task
               PROVE  run'[r].ver < run'[s].ver
    BY DEF RunsInOrder, Runs
  <2>1. r \in Runs /\ run'[r] = run[r]
    BY <1>3 DEF n
  <2>2. CASE s \in Runs
    BY <1>3, <2>1, <2>2 DEF IInv, RunsInOrder
  <2>3. CASE s = n
    BY <1>1, <1>3, <2>1, <2>3 DEF IInv, Newer
  <2> QED BY <1>3, <2>2, <2>3
<1> QED BY <1>4, <1>5, <1>6, <1>8, <1>9 DEF IInv

LEMMA FaultType == ASSUME IInv, Fault PROVE faults' \in 0 .. MaxFaults
BY BoundsAssumption DEF IInv, TypeOK, Fault

LEMMA ClaimSteps ==
    ASSUME IInv, NEW w \in Worker, ClaimCommit(w) \/ ClaimLost(w)
    PROVE  IInv'
<1>1. pc[w] = "claim"
  BY DEF ClaimCommit, ClaimLost
<1>2. ASSUME NEW t \in DOMAIN tx[w]
      PROVE  /\ Claimed(w, t, tx[w][t]) \in Run
             /\ Claimed(w, t, tx[w][t]).task = t
             /\ Claimed(w, t, tx[w][t]).ver = row[t].spec.ver
             /\ Claimed(w, t, tx[w][t]).phase = "claimed"
  <2>1. t \in TaskId /\ tx[w][t] = row[t] /\ row[t].status = "pending" /\ since[w] \in Int
    BY <1>1 DEF IInv, TypeOK, Held, HeldBy
  <2>2. row[t] \in Row /\ row[t].spec \in Submission
    BY <2>1, RowType DEF IInv
  <2> QED BY <2>1, <2>2, ClaimedType
<1>3. CASE ClaimCommit(w)
  <2>1. PICK t \in DOMAIN tx[w] : Take(w, t) /\ run' = Append(run, Claimed(w, t, tx[w][t]))
    BY <1>3 DEF ClaimCommit
  <2>2. since[w] \in Int
    BY <1>1 DEF IInv, Held, HeldBy
  <2>3. Moves(w, "start", since[w], NoTx)
    BY <1>3, <2>2, SinceSame DEF ClaimCommit, Moves, Unlock, Pc
  <2>4. UNCHANGED <<now, nextId, nextVer>> /\ faults' \in 0 .. MaxFaults
    BY <1>3 DEF ClaimCommit, IInv, TypeOK
  <2>5. "start" \in Pc /\ since[w] \in Time
    BY <2>2 DEF Pc
  <2> QED BY <1>1, <1>2, <2>1, <2>2, <2>3, <2>4, <2>5, ClaimStep
<1>4. CASE ClaimLost(w)
  <2>1. PICK t \in DOMAIN tx[w] :
           Take(w, t) /\ run' = Append(run, Over(Claimed(w, t, tx[w][t]), NULL))
    BY <1>4 DEF ClaimLost
  <2> DEFINE e == Over(Claimed(w, t, tx[w][t]), NULL)
  <2>2. e \in Run /\ e.task = t /\ e.ver = row[t].spec.ver /\ e.phase = "over"
    BY <1>2, OverType
  <2>3. AfterNoClaim \in Pc \ {"claim", "start", "reap", "requeue", "apply"}
    BY DEF AfterNoClaim, Pc
  <2>4. Moves(w, AfterNoClaim, NULL, NoTx)
    BY <1>4, <2>3 DEF ClaimLost, Moves, Unlock
  <2>5. UNCHANGED <<now, nextId, nextVer>> /\ faults' \in 0 .. MaxFaults
    BY <1>4, FaultType DEF ClaimLost
  <2> HIDE DEF e
  <2>6. run' = Append(run, e) /\ NULL \in Time
    BY <2>1 DEF e
  <2> QED BY <1>1, <2>1, <2>2, <2>3, <2>4, <2>5, <2>6, ClaimStep
<1> QED BY <1>3, <1>4

LEMMA AbortSteps ==
    ASSUME IInv, NEW w \in Worker, ClaimAbort(w) \/ ReapAbort(w)
    PROVE  IInv'
<1>1. PICK p \in Pc \ {"claim", "start", "reap", "requeue", "apply"} : Goto(w, p)
  BY DEF ClaimAbort, ReapAbort, AfterNoClaim, Pc
<1>2. Moves(w, p, NULL, NoTx)
  BY <1>1 DEF Moves, ClaimAbort, ReapAbort, Unlock
<1>3. /\ row' = row /\ row' \in [TaskId -> Row] /\ UNCHANGED <<now, nextId, nextVer, run>>
      /\ faults' \in 0 .. MaxFaults /\ pc[w] # "finish"
  BY FaultType DEF ClaimAbort, ReapAbort, queue, IInv, TypeOK
<1>4. \A t \in TaskId : RowStep(t)
  BY <1>3 DEF RowStep
<1>5. DOMAIN tx[w] \subseteq TaskId
  BY DEF IInv, TypeOK
<1> QED BY <1>1, <1>2, <1>3, <1>4, <1>5, ReleaseStep

LEMMA ReapCommitStep ==
    ASSUME IInv, NEW w \in Worker, ReapCommit(w)
    PROVE  IInv'
<1>1. Moves(w, "poll", NULL, NoTx)
  BY DEF ReapCommit, Moves, Unlock, Pc
<1>2. /\ row \in [TaskId -> Row] /\ DOMAIN tx[w] \subseteq TaskId
      /\ since[w] + Skew[w] \in Int
      /\ UNCHANGED <<now, nextId, nextVer, run, faults>> /\ faults \in 0 .. MaxFaults
      /\ pc[w] = "apply"
  BY WorkerAssumption DEF ReapCommit, IInv, TypeOK, Held, HeldBy
<1>3. \A t \in DOMAIN tx[w] : tx[w][t] = row[t] /\ row[t].status = "running"
  BY <1>2 DEF IInv, Held, HeldBy
<1>4. ASSUME NEW t \in TaskId
      PROVE  row'[t] = IF t \notin DOMAIN tx[w] THEN row[t]
                       ELSE IF row[t].requeue # NULL THEN ApplyRequeue(row[t])
                       ELSE Closed("failed", since[w] + Skew[w], row[t])
  BY <1>3 DEF ReapCommit
<1>5. ASSUME NEW t \in TaskId PROVE row'[t] \in Row /\ RowStep(t)
  <2>1. row[t] \in Row
    BY <1>2
  <2>2. CASE t \notin DOMAIN tx[w]
    BY <1>4, <2>1, <2>2 DEF RowStep
  <2>3. CASE t \in DOMAIN tx[w] /\ row[t].requeue # NULL
    BY <1>4, <2>1, <2>3, ApplyRequeueType DEF RowStep
  <2>4. CASE t \in DOMAIN tx[w] /\ row[t].requeue = NULL
    <3>1. row'[t] = Closed("failed", since[w] + Skew[w], row[t])
      BY <1>4, <2>4
    <3>2. /\ row'[t] \in Row /\ row'[t].status = "failed"
          /\ row'[t].requeue = row[t].requeue /\ row'[t].spec = row[t].spec
      <4> DEFINE at == since[w] + Skew[w]
      <4>1. at \in Int /\ row'[t] = Closed("failed", at, row[t])
        BY <1>2, <3>1
      <4> HIDE DEF at
      <4> QED BY <2>1, <4>1, ClosedType
    <3>3. NULL = row'[t].requeue /\ row[t].status = "running"
      BY <1>3, <2>4, <3>2
    <3> QED BY <3>2, <3>3 DEF RowStep
  <2> QED BY <2>2, <2>3, <2>4
<1>6. row' \in [TaskId -> Row]
  <2>1. row' = [t \in TaskId |-> row'[t]]
    BY DEF ReapCommit
  <2> QED BY <1>5, <2>1
<1> QED BY <1>1, <1>2, <1>4, <1>5, <1>6, ReleaseStep

\* A worker that holds nothing moves on, and one of its runs changes.
LEMMA RunStep ==
    ASSUME IInv, NEW w \in Worker, NEW p \in Pc, NEW at \in Time,
           pc[w] \in {"start", "failed", "select"}, p \notin {"claim", "start", "reap", "requeue", "apply"},
           NEW r \in Runs, NEW e \in Run, run' = [run EXCEPT ![r] = e],
           e.task = run[r].task, e.ver = run[r].ver,
           e.phase # "recording", e.phase = "exited" => e.result # NULL,
           Goto(w, p), Mark(w, at), UNCHANGED <<now, queue, tx, faults>>
    PROVE  IInv'
<1>1. SameHistory /\ run' \in Seq(Run) /\ \A s \in Runs : run'[s] = IF s = r THEN e ELSE run[s]
  <2>1. run \in Seq(Run)
    BY DEF IInv, TypeOK
  <2> QED BY <2>1, RunExcept DEF SameHistory
<1>2. /\ pc' \in [Worker -> Pc] /\ pc'[w] = p /\ \A v \in Worker \ {w} : pc'[v] = pc[v]
      /\ since' \in [Worker -> Time] /\ since'[w] = at
      /\ \A v \in Worker \ {w} : since'[v] = since[v]
  BY DEF IInv, TypeOK, Pc, Goto, Mark
<1>3. /\ tx' = tx /\ DOMAIN tx = Worker /\ DOMAIN tx[w] = {}
      /\ DOMAIN tx[w] \subseteq TaskId /\ tx[w] \in [DOMAIN tx[w] -> Row]
  BY NoTxHeld DEF IInv, TypeOK
<1>4. /\ row' = row /\ row' \in [TaskId -> Row] /\ UNCHANGED <<now, nextId, nextVer>>
      /\ faults' \in 0 .. MaxFaults
  BY DEF queue, IInv, TypeOK
<1>5. TypeOK' /\ Held'
  <2>1. TypeOK'
    BY <1>1, <1>2, <1>3, <1>4, TypeKept
  <2>2. HeldBy(w)'
    BY <1>2, <1>3, HoldsNothing
  <2>3. /\ \A v \in Worker \ {w} : tx'[v] = tx[v] /\ pc'[v] = pc[v] /\ since'[v] = since[v]
        /\ \A v \in Worker \ {w} : \A t \in DOMAIN tx[v] : row'[t] = row[t]
        /\ {w} \in SUBSET Worker /\ \A u \in {w} : HeldBy(u)'
    BY <1>2, <1>3, <1>4, <2>2
  <2>4. Held'
    BY <2>3, HeldKept
  <2> QED BY <2>1, <2>4
<1>6. Recording'
  <2>1. \A v \in Worker \ {w} : tx'[v] = tx[v] /\ pc'[v] = pc[v]
    BY <1>2, <1>3
  <2>2. ASSUME NEW s \in DOMAIN run'
        PROVE  \/ /\ s \in Runs /\ run'[s] = run[s]
                  /\ run[s].phase = "recording" => run[s].parent \notin {w}
               \/ /\ run'[s].phase # "recording"
                  /\ run'[s].phase = "exited" => run'[s].result # NULL
    <3>1. s \in Runs
      BY <1>1 DEF SameHistory, Runs
    <3> QED BY <1>1, <3>1, NotRecording
  <2>3. {w} \in SUBSET Worker
    OBVIOUS
  <2> QED BY <2>1, <2>2, <2>3, RecordingKept
<1>7. RowInv' /\ Newer' /\ RunsInOrder'
  BY <1>1, HistoryKept
<1> QED BY <1>5, <1>6, <1>7 DEF IInv

LEMMA StartSteps ==
    ASSUME IInv, NEW w \in Worker, NEW r \in Runs, Fork(w, r) \/ StartFail(w, r)
    PROVE  IInv'
<1>1. run[r] \in Run /\ now \in Time /\ NULL \in Time /\ run \in Seq(Run)
  BY RunType DEF IInv, TypeOK
<1>2. CASE Fork(w, r)
  <2> DEFINE e == [run[r] EXCEPT !.phase = "running", !.at = now]
  <2>1. run' = [run EXCEPT ![r] = e]
    BY <1>1, <1>2 DEF Fork
  <2>2. e \in Run /\ e.task = run[r].task /\ e.ver = run[r].ver /\ e.phase = "running"
    BY <1>1 DEF Run
  <2>3. PICK p \in {"select", "poll"} : Goto(w, p)
    BY <1>2 DEF Fork
  <2>4. pc[w] = "start" /\ Mark(w, NULL) /\ UNCHANGED <<now, queue, tx, faults>>
    BY <1>2 DEF Fork
  <2> HIDE DEF e
  <2> QED BY <1>1, <2>1, <2>2, <2>3, <2>4, RunStep DEF Pc
<1>3. CASE StartFail(w, r)
  <2> DEFINE e == [run[r] EXCEPT !.phase = "exited", !.result = "failed"]
  <2>1. run' = [run EXCEPT ![r] = e]
    BY <1>1, <1>3 DEF StartFail
  <2>2. /\ e \in Run /\ e.task = run[r].task /\ e.ver = run[r].ver
        /\ e.phase = "exited" /\ e.result # NULL
    BY <1>1, NullAssumption DEF Run
  <2>4. /\ pc[w] = "start" /\ Goto(w, "failed") /\ Mark(w, NULL)
        /\ UNCHANGED <<now, queue, tx, faults>>
    BY <1>3 DEF StartFail
  <2> HIDE DEF e
  <2> QED BY <1>1, <2>1, <2>2, <2>4, RunStep DEF Pc
<1> QED BY <1>2, <1>3

LEMMA ExitStep ==
    ASSUME IInv, NEW r \in Runs, NEW res \in {"completed", "failed"}, ChildExit(r, res)
    PROVE  IInv'
<1> DEFINE e == IF run[r].parent = NULL THEN Over(run[r], res)
                ELSE [run[r] EXCEPT !.phase = "exited", !.result = res]
<1>1. run[r] \in Run /\ run \in Seq(Run) /\ run[r].phase = "running"
  BY RunType DEF IInv, TypeOK, ChildExit, Alive
<1>2. run' = [run EXCEPT ![r] = e] /\ UNCHANGED <<now, queue, loop, faults>>
  BY DEF ChildExit, Done
<1>3. /\ e \in Run /\ e.task = run[r].task /\ e.ver = run[r].ver
      /\ e.phase \in {"over", "exited"} /\ (e.phase = "exited" => e.result # NULL)
  <2>1. CASE run[r].parent = NULL
    BY <1>1, <2>1, OverType
  <2>2. CASE run[r].parent # NULL
    BY <1>1, <2>2, NullAssumption DEF Run
  <2> QED BY <2>1, <2>2
<1> HIDE DEF e
<1>4. SameHistory /\ \A s \in Runs : run'[s] = IF s = r THEN e ELSE run[s]
  BY <1>1, <1>2, <1>3, RunExcept
<1>5. TypeOK'
  BY <1>2, <1>4 DEF IInv, TypeOK, queue, loop, SameHistory
<1>6. Held'
  BY <1>2, LoopKept DEF queue
<1>7. Recording'
  <2>1. \A v \in Worker \ {} : tx'[v] = tx[v] /\ pc'[v] = pc[v]
    BY <1>2 DEF loop
  <2>2. ASSUME NEW s \in DOMAIN run'
        PROVE  \/ /\ s \in Runs /\ run'[s] = run[s]
                  /\ run[s].phase = "recording" => run[s].parent \notin {}
               \/ /\ run'[s].phase # "recording"
                  /\ run'[s].phase = "exited" => run'[s].result # NULL
    <3>1. s \in Runs
      BY <1>4 DEF SameHistory, Runs
    <3> QED BY <1>3, <1>4, <3>1
  <2>3. {} \in SUBSET Worker
    OBVIOUS
  <2> QED BY <2>1, <2>2, <2>3, RecordingKept
<1>8. RowInv' /\ Newer' /\ RunsInOrder'
  BY <1>2, <1>4, HistoryKept
<1> QED BY <1>5, <1>6, <1>7, <1>8 DEF IInv
-----------------------------------------------------------------------------
(* Recording the end of a run *)

LEMMA AfterFinishType == AfterFinish \subseteq {"poll", "select", "idle"}
BY DEF AfterFinish

LEMMA FinishSelectStep ==
    ASSUME IInv, NEW w \in Worker, NEW r \in Runs, FinishSelect(w, r)
    PROVE  IInv'
<1>1. /\ pc[w] \in {"failed", "select"} /\ run[r].phase = "exited" /\ run[r].parent = w
      /\ UNCHANGED <<now, queue, since, faults>>
  BY DEF FinishSelect, Ended, Mine
<1>2. /\ run[r] \in Run /\ run \in Seq(Run) /\ run[r].task \in TaskId
      /\ run[r].result # NULL /\ run[r].result \in {"completed", "failed", NULL}
      /\ Mark(w, since[w]) /\ since[w] \in Time
  BY <1>1, RunType, SinceSame DEF IInv, TypeOK, Recording
<1>3. CASE Matches(r)
  <2> DEFINE t == run[r].task
             e == [run[r] EXCEPT !.phase = "recording"]
  <2>1. Free(t) /\ Lock(w, {t}) /\ run' = [run EXCEPT ![r] = e] /\ Goto(w, "finish")
    BY <1>2, <1>3 DEF FinishSelect
  <2>2. row[t].status = "running" /\ t \in TaskId
    BY <1>2, <1>3 DEF Matches
  <2>3. /\ e \in Run /\ e.task = t /\ e.ver = run[r].ver /\ e.phase = "recording"
        /\ e.result = run[r].result /\ e.parent = w
    BY <1>1, <1>2 DEF Run
  <2> HIDE DEF t, e
  <2>4. SameHistory /\ \A s \in Runs : run'[s] = IF s = r THEN e ELSE run[s]
    <3>1. e.task = run[r].task /\ e.ver = run[r].ver
      BY <2>3 DEF t
    <3> QED BY <1>2, <2>1, <2>3, <3>1, RunExcept
  <2>5. Moves(w, "finish", since[w], Read({t}))
    BY <1>2, <2>1 DEF Moves, Lock, Pc
  <2>6. TypeOK' /\ Held'
    <3>1. {t} \in SUBSET TaskId /\ \A u \in {t} : Free(u) /\ row[u].status = "running"
      BY <2>1, <2>2
    <3>2. run' \in Seq(Run) /\ UNCHANGED queue /\ faults' = faults /\ now' = now
      BY <1>1, <2>4 DEF SameHistory
    <3> QED BY <2>5, <3>1, <3>2, Acquire
  <2>7. Recording'
    <3>1. /\ pc'[w] = "finish" /\ tx'[w] = Read({t})
          /\ \A v \in Worker \ {w} : tx'[v] = tx[v] /\ pc'[v] = pc[v]
      BY <2>5, MovesFrame
    <3>2. t \in DOMAIN tx'[w]
      BY <3>1 DEF Read
    <3>3. \A s \in Runs : run[s].phase = "recording" => run[s].parent # w
      BY <1>1, NotRecording
    <3>4. ASSUME NEW s \in Runs
          PROVE  /\ run'[s].phase \in {"exited", "recording"} => run'[s].result # NULL
                 /\ run'[s].phase = "recording" =>
                       /\ run'[s].parent \in Worker
                       /\ pc'[run'[s].parent] = "finish"
                       /\ run'[s].task \in DOMAIN tx'[run'[s].parent]
      <4>1. CASE s = r
        BY <1>2, <2>3, <2>4, <3>1, <3>2, <4>1
      <4>2. CASE s # r
        BY <2>4, <3>1, <3>3, <4>2 DEF IInv, Recording
      <4> QED BY <4>1, <4>2
    <3>5. ASSUME NEW s \in Runs, NEW q \in Runs, run'[s].phase = "recording",
                 run'[q].phase = "recording", run'[q].parent = run'[s].parent
          PROVE  q = s
      BY <2>3, <2>4, <3>3, <3>5 DEF IInv, Recording
    <3>6. DOMAIN run' = Runs
      BY <2>4 DEF SameHistory, Runs
    <3> QED BY <3>4, <3>5, <3>6 DEF Recording, Runs
  <2>8. RowInv' /\ Newer' /\ RunsInOrder'
    BY <1>1, <2>4, HistoryKept
  <2> QED BY <2>6, <2>7, <2>8 DEF IInv
<1>4. CASE ~Matches(r)
  <2> DEFINE e == Over(run[r], run[r].result)
  <2>1. run' = [run EXCEPT ![r] = e] /\ UNCHANGED tx
    BY <1>4 DEF FinishSelect, Done
  <2>2. PICK p \in {"poll", "select", "idle"} : Goto(w, p)
    BY <1>4, AfterFinishType DEF FinishSelect
  <2>3. e \in Run /\ e.task = run[r].task /\ e.ver = run[r].ver /\ e.phase = "over"
    BY <1>2, OverType
  <2> HIDE DEF e
  <2> QED BY <1>1, <1>2, <2>1, <2>2, <2>3, RunStep DEF Pc
<1> QED BY <1>3, <1>4

\* The end is written, or given up: the worker lets go of the row.
LEMMA FinishEnd ==
    ASSUME IInv, NEW w \in Worker, NEW r \in Runs, pc[w] = "finish", run[r].parent = w,
           run[r].phase = "recording", run' = Done(r, run[r].result),
           NEW p \in {"poll", "select", "idle"}, Goto(w, p), Unlock(w), UNCHANGED since,
           row' \in [TaskId -> Row], RowStep(run[r].task),
           \A t \in TaskId : t # run[r].task => row'[t] = row[t],
           UNCHANGED <<now, nextId, nextVer>>, faults' \in 0 .. MaxFaults
    PROVE  IInv'
<1> DEFINE e == Over(run[r], run[r].result)
<1>1. /\ run[r] \in Run /\ run \in Seq(Run) /\ run[r].result \in {"completed", "failed", NULL}
      /\ run[r].task \in DOMAIN tx[w] /\ run' = [run EXCEPT ![r] = e]
  BY RunType DEF IInv, TypeOK, Recording, Done
<1>2. e \in Run /\ e.task = run[r].task /\ e.ver = run[r].ver /\ e.phase = "over"
  BY <1>1, OverType
<1> HIDE DEF e
<1>3. SameHistory /\ \A s \in Runs : run'[s] = IF s = r THEN e ELSE run[s]
  BY <1>1, <1>2, RunExcept
<1>4. Moves(w, p, since[w], NoTx)
  BY SinceSame DEF Moves, Unlock, Pc
<1>5. TypeOK' /\ Held'
  <2>1. run' \in Seq(Run) /\ \A t \in TaskId \ DOMAIN tx[w] : row'[t] = row[t]
    BY <1>1, <1>3 DEF SameHistory
  <2> QED BY <1>4, <2>1, Release
<1>6. Recording'
  <2>1. \A v \in Worker \ {w} : tx'[v] = tx[v] /\ pc'[v] = pc[v]
    BY <1>4, MovesFrame
  <2>2. ASSUME NEW s \in DOMAIN run'
        PROVE  \/ /\ s \in Runs /\ run'[s] = run[s]
                  /\ run[s].phase = "recording" => run[s].parent \notin {w}
               \/ /\ run'[s].phase # "recording"
                  /\ run'[s].phase = "exited" => run'[s].result # NULL
    <3>1. s \in Runs
      BY <1>3 DEF SameHistory, Runs
    <3>2. run[s].phase = "recording" /\ run[s].parent = w => s = r
      BY <3>1 DEF IInv, Recording
    <3> QED BY <1>2, <1>3, <3>1, <3>2
  <2>3. {w} \in SUBSET Worker
    OBVIOUS
  <2> QED BY <2>1, <2>2, <2>3, RecordingKept
<1>7. RowInv' /\ Newer' /\ RunsInOrder'
  <2>1. \A t \in TaskId : RowStep(t)
    BY DEF RowStep
  <2> QED BY <1>3, <2>1, RowsKept
<1> QED BY <1>5, <1>6, <1>7 DEF IInv

LEMMA FinishSteps ==
    ASSUME IInv, NEW w \in Worker, NEW r \in Runs, FinishCommit(w, r) \/ FinishAbort(w, r)
    PROVE  IInv'
<1> DEFINE t == run[r].task
<1>1. /\ pc[w] = "finish" /\ run[r].parent = w /\ run[r].phase = "recording"
      /\ run' = Done(r, run[r].result) /\ Unlock(w) /\ UNCHANGED <<now, nextId, nextVer, since>>
  BY DEF FinishCommit, FinishAbort, Mine, queue
<1>2. PICK p \in {"poll", "select", "idle"} : Goto(w, p)
  BY AfterFinishType DEF FinishCommit, FinishAbort
<1>3. /\ t \in TaskId /\ t \in DOMAIN tx[w] /\ tx[w][t] = row[t] /\ row[t].status = "running"
      /\ row \in [TaskId -> Row] /\ row[t] \in Row
      /\ run[r].result \in {"completed", "failed"}
  <2>1. t \in TaskId /\ run[r].result \in {"completed", "failed", NULL}
    BY RunType DEF IInv
  <2>2. t \in DOMAIN tx[w] /\ run[r].result # NULL
    BY <1>1 DEF IInv, Recording
  <2>3. tx[w][t] = row[t] /\ row[t].status = "running"
    BY <1>1, <2>2 DEF IInv, Held, HeldBy
  <2> QED BY <2>1, <2>2, <2>3 DEF IInv, TypeOK
<1>4. CASE FinishCommit(w, r)
  <2> DEFINE at  == now + Skew[w]
             new == IF row[t].requeue # NULL THEN ApplyRequeue(row[t])
                    ELSE Closed(run[r].result, at, row[t])
  <2>1. at \in Int
    BY WorkerAssumption DEF IInv, TypeOK
  <2>2. row' = [row EXCEPT ![t] = new]
    BY <1>3, <1>4 DEF FinishCommit
  <2> HIDE DEF t, at
  <2>3. /\ new \in Row
        /\ \/ /\ row[t].requeue # NULL /\ new.status = "pending" /\ new.requeue = NULL
              /\ new.spec = row[t].requeue
           \/ /\ new.status \in {"completed", "failed"} /\ new.requeue = NULL
              /\ new.spec = row[t].spec
    <3>1. CASE row[t].requeue # NULL
      BY <1>3, <3>1, ApplyRequeueType
    <3>2. CASE row[t].requeue = NULL
      BY <1>3, <2>1, <3>2, ClosedType
    <3> QED BY <3>1, <3>2
  <2> HIDE DEF new
  <2>4. /\ row' \in [TaskId -> Row] /\ row'[t] = new
        /\ \A u \in TaskId : u # t => row'[u] = row[u]
    BY <1>3, <2>2, <2>3
  <2>5. RowStep(t)
    BY <1>3, <2>3, <2>4 DEF RowStep
  <2>6. faults' \in 0 .. MaxFaults
    BY <1>4 DEF FinishCommit, IInv, TypeOK
  <2> USE DEF t
  <2> QED BY <1>1, <1>2, <2>4, <2>5, <2>6, FinishEnd
<1>5. CASE FinishAbort(w, r)
  <2>1. row' = row /\ row' \in [TaskId -> Row] /\ faults' \in 0 .. MaxFaults
    BY <1>3, <1>5, FaultType DEF FinishAbort, queue
  <2>2. RowStep(t) /\ \A u \in TaskId : u # t => row'[u] = row[u]
    BY <2>1 DEF RowStep
  <2> QED BY <1>1, <1>2, <2>1, <2>2, FinishEnd
<1> QED BY <1>4, <1>5
-----------------------------------------------------------------------------
(* Crashes *)

LEMMA CrashStep ==
    ASSUME IInv, NEW w \in Worker, Crash(w)
    PROVE  IInv'
<1> DEFINE e(r) == IF run[r].parent # w THEN run[r]
                   ELSE IF Alive(r) THEN [run[r] EXCEPT !.parent = NULL]
                   ELSE Over(run[r], run[r].result)
<1>1. /\ run \in Seq(Run) /\ Len(run) \in Nat /\ Runs = 1 .. Len(run)
      /\ run' = [r \in 1 .. Len(run) |-> e(r)]
  BY RunsDomain, LenProperties DEF Crash, IInv, TypeOK
<1>2. ASSUME NEW r \in Runs
      PROVE  /\ e(r) \in Run /\ e(r).task = run[r].task /\ e(r).ver = run[r].ver
             /\ \/ e(r) = run[r] /\ run[r].parent # w
                \/ e(r).phase \in {"running", "over"}
  <2>1. run[r] \in Run /\ run[r].result \in {"completed", "failed", NULL}
    BY RunType DEF IInv
  <2>2. CASE run[r].parent # w
    BY <2>1, <2>2
  <2>3. CASE run[r].parent = w /\ Alive(r)
    BY <2>1, <2>3 DEF Run, Alive
  <2>4. CASE run[r].parent = w /\ ~Alive(r)
    BY <2>1, <2>4, OverType
  <2> QED BY <2>2, <2>3, <2>4
<1> HIDE DEF e
<1>3. SameHistory /\ \A r \in Runs : run'[r] = e(r)
  <2>1. run' \in Seq(Run)
    BY <1>1, <1>2, IsASeq
  <2> QED BY <1>1, <1>2, <2>1 DEF SameHistory, Runs
<1>4. PICK p \in {"poll", "down"} : Goto(w, p) /\ (p = "poll" => DOMAIN tx[w] = {})
  BY DEF Crash
<1>5. /\ row' = row /\ row' \in [TaskId -> Row] /\ UNCHANGED <<now, nextId, nextVer, queue>>
      /\ faults' \in 0 .. MaxFaults
  BY FaultType DEF Crash, queue, IInv, TypeOK
<1>6. TypeOK' /\ Held'
  <2>1. /\ pc' \in [Worker -> Pc] /\ since' \in [Worker -> Time] /\ tx' = tx
        /\ pc'[w] = p /\ \A v \in Worker \ {w} : pc'[v] = pc[v] /\ since'[v] = since[v]
    BY <1>4 DEF Crash, Goto, Mark, Pc, IInv, TypeOK
  <2>2. DOMAIN tx = Worker /\ DOMAIN tx[w] \subseteq TaskId /\ tx[w] \in [DOMAIN tx[w] -> Row]
    BY DEF IInv, TypeOK
  <2>3. HeldBy(w)'
    BY <1>4, <1>5, <2>1 DEF HeldBy, IInv, Held
  <2>4. TypeOK'
    BY <1>3, <1>5, <2>1, <2>2, TypeKept DEF SameHistory
  <2>5. {w} \in SUBSET Worker /\ \A u \in {w} : HeldBy(u)'
    BY <2>3
  <2> QED BY <1>5, <2>1, <2>4, <2>5, HeldKept
<1>7. Recording'
  <2>1. \A v \in Worker \ {w} : tx'[v] = tx[v] /\ pc'[v] = pc[v]
    BY <1>4 DEF Crash, Goto, IInv, TypeOK
  <2>2. ASSUME NEW s \in DOMAIN run'
        PROVE  \/ /\ s \in Runs /\ run'[s] = run[s]
                  /\ run[s].phase = "recording" => run[s].parent \notin {w}
               \/ /\ run'[s].phase # "recording"
                  /\ run'[s].phase = "exited" => run'[s].result # NULL
    <3>1. s \in Runs
      BY <1>3 DEF SameHistory, Runs
    <3> QED BY <1>2, <1>3, <3>1
  <2>3. {w} \in SUBSET Worker
    OBVIOUS
  <2> QED BY <2>1, <2>2, <2>3, RecordingKept
<1>8. RowInv' /\ Newer' /\ RunsInOrder'
  BY <1>3, <1>5, HistoryKept
<1> QED BY <1>6, <1>7, <1>8 DEF IInv

LEMMA SessionEndsStep == ASSUME IInv, NEW w \in Worker, SessionEnds(w) PROVE IInv'
<1>1. Mark(w, since[w])
  BY SinceSame DEF SessionEnds, IInv
<1>2. Moves(w, "poll", since[w], NoTx)
  BY <1>1 DEF SessionEnds, Moves, Unlock, Pc, IInv, TypeOK
<1>3. /\ pc[w] # "finish" /\ row' = row /\ row' \in [TaskId -> Row]
      /\ UNCHANGED <<now, nextId, nextVer, run>> /\ faults' \in 0 .. MaxFaults
      /\ \A t \in TaskId : RowStep(t)
  BY DEF SessionEnds, queue, IInv, TypeOK, RowStep
<1> QED BY <1>2, <1>3, ReleaseStep DEF IInv, TypeOK
-----------------------------------------------------------------------------
(* The invariant *)

LEMMA InitInv == Init => IInv
<1> SUFFICES ASSUME Init PROVE IInv
  OBVIOUS
<1>1. /\ run = << >> /\ run \in Seq(Run) /\ Runs = {}
      /\ \A t \in TaskId : row[t] = Absent
      /\ \A w \in Worker : tx[w] = NoTx /\ pc[w] = "poll" /\ since[w] = NULL
  <2>1. run = << >> /\ run \in Seq(Run)
    BY EmptySeq DEF Init
  <2>2. Runs = {}
    BY <2>1 DEF Runs
  <2> QED BY <2>1, <2>2 DEF Init
<1>2. TypeOK
  <2>1. /\ now \in Nat /\ faults \in 0 .. MaxFaults
        /\ nextId \in 1 .. MaxTasks + 1 /\ nextVer \in 1 .. MaxVersions + 1
    BY BoundsAssumption DEF Init
  <2>2. row \in [TaskId -> Row]
    BY AbsentType DEF Init
  <2>3. /\ DOMAIN tx = Worker
        /\ \A w \in Worker : DOMAIN tx[w] \subseteq TaskId /\ tx[w] \in [DOMAIN tx[w] -> Row]
    BY <1>1, NoTxType DEF Init
  <2> QED BY <1>1, <2>1, <2>2, <2>3 DEF Init, TypeOK
<1>3. Held
  BY <1>1, NoTxType DEF Held, HeldBy
<1>4. Recording /\ RunsInOrder
  BY <1>1 DEF Recording, RunsInOrder
<1>5. RowInv /\ Newer
  BY <1>1, AbsentType DEF RowInv, Newer
<1> QED BY <1>2, <1>3, <1>4, <1>5 DEF IInv

LEMMA StutterInv == ASSUME IInv, UNCHANGED vars PROVE IInv'
<1>1. UNCHANGED <<now, queue, run, loop, faults>>
  BY DEF vars
<1>2. TypeOK'
  BY <1>1 DEF IInv, TypeOK, queue, loop
<1>3. Held' /\ Recording'
  BY <1>1, LoopKept DEF queue
<1>4. RowInv' /\ Newer' /\ RunsInOrder'
  BY <1>1, UnchangedHistory, HistoryKept DEF IInv
<1> QED BY <1>2, <1>3, <1>4 DEF IInv

LEMMA WorkInv == ASSUME IInv, NEW w \in Worker, Work(w) PROVE IInv'
<1>1. CASE Claim(w)
  BY <1>1, LockSteps, IdleSteps, ClaimSteps, StartSteps DEF Claim
<1>2. CASE Finish(w)
  BY <1>2, IdleSteps, FinishSelectStep, FinishSteps DEF Finish
<1>3. CASE Reap(w)
  BY <1>3, IdleSteps, LockSteps, ReapCommitStep DEF Reap
<1> QED BY <1>1, <1>2, <1>3 DEF Work

LEMMA BreakInv == ASSUME IInv, NEW w \in Worker, Break(w) PROVE IInv'
BY AbortSteps, ClaimSteps, CrashStep, SessionEndsStep, FinishSteps DEF Break

LEMMA NextInv == IInv /\ [Next]_vars => IInv'
<1> SUFFICES ASSUME IInv, [Next]_vars PROVE IInv'
  OBVIOUS
<1>1. CASE Submit
  BY <1>1, SubmitStep
<1>2. CASE Remove
  BY <1>2, RemoveStep
<1>3. CASE Exit
  BY <1>3, ExitStep DEF Exit
<1>4. CASE Tick
  BY <1>4, TickStep
<1>5. CASE \E w \in Worker : Work(w) \/ Break(w)
  BY <1>5, WorkInv, BreakInv
<1>6. CASE UNCHANGED vars
  BY <1>6, StutterInv
<1> QED BY <1>1, <1>2, <1>3, <1>4, <1>5, <1>6 DEF Next

LEMMA Invariance == Spec => []IInv
BY InitInv, NextInv, PTL DEF Spec

\* The type of every variable, for every number of workers and every setting.
THEOREM TypeCorrect == Spec => []TypeOK
<1>1. IInv => TypeOK
  BY DEF IInv
<1> QED BY Invariance, <1>1, PTL

\* No version of a task is claimed twice and none after a later one, whatever
\* the timeouts, the clocks of the workers and the failures: the guarantee
\* rests on the row locks and on the parked version alone.
THEOREM AtMostOnceInOrder == Spec => []RunsInOrder
<1>1. IInv => RunsInOrder
  BY DEF IInv
<1> QED BY Invariance, <1>1, PTL
=============================================================================
