------------------------- MODULE TaskQueueRefinement -------------------------
(***************************************************************************)
(* TaskQueue implements VersionQueue, for every number of workers, rows    *)
(* and submissions: the mapping at the end of TaskQueue takes every step   *)
(* of the rows to a step of the mailbox, and every other step to none.     *)
(***************************************************************************)
EXTENDS TaskQueueProofs

\* The version a RUNNING row shows is one that was claimed, so the end of its
\* run may close the task.
ShowsClaim == \A t \in TaskId : row[t].status = "running" =>
    \E r \in Runs : run[r].task = t /\ run[r].ver = row[t].spec.ver

RInv == IInv /\ ShowsClaim

Ran(t, v) == \E r \in Runs : run[r].task = t /\ run[r].ver = v
-----------------------------------------------------------------------------
(* The mapping, value by value *)

LEMMA SameFunction ==
    ASSUME NEW S, NEW f, NEW g, f = [x \in S |-> f[x]], g = [x \in S |-> g[x]],
           \A x \in S : f[x] = g[x]
    PROVE  f = g
OBVIOUS

LEMMA Domains ==
    /\ stageBar = [t \in TaskId |-> stageBar[t]] /\ stageBar' = [t \in TaskId |-> stageBar'[t]]
    /\ acceptedBar = [t \in TaskId |-> acceptedBar[t]]
    /\ acceptedBar' = [t \in TaskId |-> acceptedBar'[t]]
    /\ begunBar = [t \in TaskId |-> begunBar[t]] /\ begunBar' = [t \in TaskId |-> begunBar'[t]]
BY DEF stageBar, acceptedBar, begunBar

LEMMA Stages ==
    ASSUME NEW t \in TaskId
    PROVE  /\ row[t].status = "absent" => stageBar[t] = IF t < nextId THEN "gone" ELSE "new"
           /\ row[t].status = "pending" => stageBar[t] = "waiting"
           /\ row[t].status = "running" => stageBar[t] = "active"
           /\ row[t].status \in {"completed", "failed"} => stageBar[t] = row[t].status
BY DEF stageBar

LEMMA StagesNext ==
    ASSUME NEW t \in TaskId
    PROVE  /\ row'[t].status = "absent" => stageBar'[t] = IF t < nextId' THEN "gone" ELSE "new"
           /\ row'[t].status = "pending" => stageBar'[t] = "waiting"
           /\ row'[t].status = "running" => stageBar'[t] = "active"
           /\ row'[t].status \in {"completed", "failed"} => stageBar'[t] = row'[t].status
BY DEF stageBar

LEMMA Accepted ==
    ASSUME NEW t \in TaskId
    PROVE  /\ row[t].status = "absent" => acceptedBar[t] = 0
           /\ row[t].status # "absent" =>
                 acceptedBar[t] = IF row[t].requeue # NULL THEN row[t].requeue.ver
                                  ELSE row[t].spec.ver
           /\ row'[t].status = "absent" => acceptedBar'[t] = 0
           /\ row'[t].status # "absent" =>
                 acceptedBar'[t] = IF row'[t].requeue # NULL THEN row'[t].requeue.ver
                                   ELSE row'[t].spec.ver
BY DEF acceptedBar

LEMMA Begun ==
    ASSUME NEW t \in TaskId
    PROVE  \A v : /\ v \in begunBar[t] <=> Ran(t, v)
                  /\ v \in begunBar'[t] <=> Ran(t, v)'
BY DEF begunBar, Ran, Runs

LEMMA BegunSame == ASSUME SameHistory PROVE begunBar' = begunBar
<1>1. ASSUME NEW t \in TaskId PROVE begunBar'[t] = begunBar[t]
  <2>1. \A v : Ran(t, v)' <=> Ran(t, v)
    BY DEF Ran, SameHistory, Runs
  <2> QED BY <2>1, Begun
<1> QED BY <1>1, Domains, SameFunction

\* A row that stays keeps its stage and what it accepted.
LEMMA RowSame ==
    ASSUME IInv, NEW t \in TaskId, row'[t] = row[t], row[t].status # "absent" \/ nextId' = nextId
    PROVE  stageBar'[t] = stageBar[t] /\ acceptedBar'[t] = acceptedBar[t]
<1>1. row[t].status \in {"absent", "pending", "running", "completed", "failed"}
  BY DEF IInv, TypeOK, Row
<1> QED BY <1>1, Stages, StagesNext, Accepted

LEMMA Stutters ==
    ASSUME IInv, UNCHANGED queue, SameHistory
    PROVE  UNCHANGED Promise!vars
<1>1. UNCHANGED <<row, nextId, nextVer>>
  BY DEF queue
<1>2. stageBar' = stageBar
  BY <1>1, RowSame, Domains, SameFunction
<1>3. acceptedBar' = acceptedBar
  BY <1>1, RowSame, Domains, SameFunction
<1> QED BY <1>1, <1>2, <1>3, BegunSame DEF Promise!vars
-----------------------------------------------------------------------------
(* Submissions and deletions *)

LEMMA Accepts ==
    ASSUME IInv, NEW t \in TaskId, NEW q \in Row, UNCHANGED run,
           row' = [row EXCEPT ![t] = q], nextVer' = nextVer + 1,
           \/ row[t].status # "absent" /\ nextId' = nextId
           \/ t = nextId /\ nextId' = nextId + 1,
           \/ q.status = "pending" /\ q.requeue = NULL /\ q.spec.ver = nextVer
              /\ row[t].status # "running"
           \/ q.status = "running" /\ q.requeue # NULL /\ q.requeue.ver = nextVer
              /\ row[t].status = "running"
    PROVE  Promise!Accept(t)
<1>1. /\ row'[t] = q /\ \A u \in TaskId \ {t} : row'[u] = row[u]
      /\ row[t].status \in {"absent", "pending", "running", "completed", "failed"}
      /\ nextId \in Int /\ t \in Int
  BY BoundsAssumption DEF IInv, TypeOK, Row, TaskId
<1>2. /\ stageBar[t] # "gone"
      /\ stageBar'[t] = IF stageBar[t] = "active" THEN stageBar[t] ELSE "waiting"
  BY <1>1, Stages, StagesNext
<1>3. acceptedBar'[t] = nextVer
  BY <1>1, Accepted
<1>4. ASSUME NEW u \in TaskId \ {t}
      PROVE  stageBar'[u] = stageBar[u] /\ acceptedBar'[u] = acceptedBar[u]
  <2>1. CASE nextId' = nextId
    BY <1>1, <2>1, RowSame
  <2>2. CASE t = nextId /\ nextId' = nextId + 1
    <3>1. u < nextId <=> u < nextId'
      BY <1>1, <2>2, BoundsAssumption DEF TaskId
    <3>2. row[u].status \in {"absent", "pending", "running", "completed", "failed"}
      BY DEF IInv, TypeOK, Row
    <3> QED BY <1>1, <3>1, <3>2, Stages, StagesNext, Accepted
  <2> QED BY <2>1, <2>2
<1>5. stageBar' = [stageBar EXCEPT ![t] = IF stageBar[t] = "active" THEN stageBar[t] ELSE "waiting"]
  BY <1>2, <1>4, Domains
<1>6. acceptedBar' = [acceptedBar EXCEPT ![t] = nextVer]
  BY <1>3, <1>4, Domains
<1>7. begunBar' = begunBar
  BY UnchangedHistory, BegunSame DEF IInv
<1> QED BY <1>2, <1>5, <1>6, <1>7 DEF Promise!Accept

LEMMA SubmitAccepts == ASSUME IInv, Submit PROVE \E t \in TaskId : Promise!Accept(t)
<1>1. PICK o \in Option, c \in ClientId \cup {NULL} :
         Enqueue(o, c) \/ \E t \in Owner(c) : UpsertConflict(o, t)
  BY DEF Submit, Upsert
<1> DEFINE s == Submitted(o)
<1>2. /\ s \in Submission /\ s.ver = nextVer /\ UNCHANGED run /\ nextVer' = nextVer + 1
  BY <1>1, SubmittedType DEF Enqueue, UpsertConflict, IInv, TypeOK, loop
<1>3. CASE Enqueue(o, c)
  <2> DEFINE q == Fresh(c, s)
  <2>1. /\ nextId \in TaskId /\ nextId' = nextId + 1 /\ row' = [row EXCEPT ![nextId] = q]
    BY <1>3 DEF Enqueue
  <2>2. q \in Row /\ q.status = "pending" /\ q.requeue = NULL /\ q.spec = s
    BY <1>2, FreshType
  <2>3. row[nextId].status # "running"
    <3>1. nextId >= nextId
      BY <2>1, BoundsAssumption DEF TaskId
    <3>2. row[nextId] = Absent
      BY <2>1, <3>1 DEF IInv, RowInv
    <3> QED BY <3>2, AbsentType
  <2> HIDE DEF q, s
  <2>4. Promise!Accept(nextId)
    BY <1>2, <2>1, <2>2, <2>3, Accepts
  <2> QED BY <2>1, <2>4
<1>4. CASE \E t \in Owner(c) : UpsertConflict(o, t)
  <2>1. PICK t \in TaskId : UpsertConflict(o, t) /\ row[t].status # "absent"
    BY <1>4 DEF Owner
  <2> DEFINE q == IF row[t].status = "running" THEN [row[t] EXCEPT !.requeue = s]
                  ELSE Fresh(row[t].client, s)
  <2>2. row' = [row EXCEPT ![t] = q] /\ nextId' = nextId /\ row[t] \in Row
    BY <2>1 DEF UpsertConflict, IInv, TypeOK
  <2>3. CASE row[t].status = "running"
    <3>1. /\ q \in Row /\ q.status = "running" /\ q.requeue = s /\ s # NULL
      <4>1. s # NULL
        BY <1>2, SubmissionAssumption
      <4> HIDE DEF s
      <4> QED BY <1>2, <2>2, <2>3, <4>1 DEF Row
    <3> HIDE DEF q, s
    <3>2. Promise!Accept(t)
      BY <1>2, <2>1, <2>2, <2>3, <3>1, Accepts
    <3> QED BY <3>2
  <2>4. CASE row[t].status # "running"
    <3>1. row[t].client \in ClientId \cup {NULL}
      BY <2>2 DEF Row
    <3>2. /\ q \in Row /\ q.status = "pending" /\ q.requeue = NULL /\ q.spec = s
      BY <1>2, <2>4, <3>1, FreshType
    <3> HIDE DEF q, s
    <3>3. Promise!Accept(t)
      BY <1>2, <2>1, <2>2, <2>4, <3>2, Accepts
    <3> QED BY <3>3
  <2> QED BY <2>3, <2>4
<1> QED BY <1>1, <1>3, <1>4

LEMMA RemoveWithdraws == ASSUME IInv, Remove PROVE \E T \in SUBSET TaskId : Promise!Withdraw(T)
<1>1. PICK T \in SUBSET TaskId : Delete(T) /\ \A t \in T : row[t].status # "absent"
  <2>1. ASSUME NEW t \in TaskId, Cancel(t)
        PROVE  \E T \in SUBSET TaskId : Delete(T) /\ \A u \in T : row[u].status # "absent"
    BY <2>1 DEF Cancel
  <2>2. ASSUME NEW s \in {"completed", "failed"}, NEW b, Clear(s, b)
        PROVE  \E T \in SUBSET TaskId : Delete(T) /\ \A t \in T : row[t].status # "absent"
    BY <2>2 DEF Clear
  <2>3. CASE ClearAll
    BY <2>3 DEF ClearAll
  <2> QED BY <2>1, <2>2, <2>3 DEF Remove
<1>2. /\ row' = [t \in TaskId |-> IF t \in T THEN Absent ELSE row[t]]
      /\ UNCHANGED <<nextId, nextVer, run>>
  BY <1>1 DEF Delete
<1>3. ASSUME NEW t \in T PROVE stageBar[t] # "new" /\ stageBar'[t] = "gone" /\ acceptedBar'[t] = 0
  <2>0. t \in TaskId /\ row[t] \in Row /\ nextId \in Int
    BY <1>1, BoundsAssumption DEF IInv, TypeOK
  <2>1. /\ t \in TaskId /\ row[t].status \in {"pending", "running", "completed", "failed"}
        /\ nextId \in Int /\ t \in Int
    BY <1>1, <2>0, BoundsAssumption DEF Row, TaskId
  <2>2. t < nextId
    BY <1>1, <2>1, AbsentType DEF IInv, RowInv
  <2>3. row'[t].status = "absent"
    BY <1>2, <2>1, AbsentType
  <2> QED BY <1>2, <2>1, <2>2, <2>3, Stages, StagesNext, Accepted
<1>4. ASSUME NEW t \in TaskId \ T
      PROVE  stageBar'[t] = stageBar[t] /\ acceptedBar'[t] = acceptedBar[t]
  BY <1>2, RowSame
<1>5. stageBar' = [t \in TaskId |-> IF t \in T THEN "gone" ELSE stageBar[t]]
  BY <1>3, <1>4, Domains
<1>6. acceptedBar' = [t \in TaskId |-> IF t \in T THEN 0 ELSE acceptedBar[t]]
  BY <1>3, <1>4, Domains
<1>7. begunBar' = begunBar
  BY <1>2, UnchangedHistory, BegunSame DEF IInv
<1>8. Promise!Withdraw(T)
  BY <1>2, <1>3, <1>5, <1>6, <1>7 DEF Promise!Withdraw
<1> QED BY <1>8
-----------------------------------------------------------------------------
(* Claims *)

LEMMA Begins ==
    ASSUME RInv, NEW w \in Worker, pc[w] = "claim", NEW t \in DOMAIN tx[w], NEW e \in Run,
           Take(w, t), run' = Append(run, e), e.task = t, e.ver = tx[w][t].spec.ver,
           UNCHANGED <<nextId, nextVer>>
    PROVE  Promise!Begin(t) /\ t \in TaskId /\ ShowsClaim'
<1> DEFINE n == Len(run) + 1
<1>1. /\ t \in TaskId /\ tx[w][t] = row[t] /\ row[t].status = "pending"
      /\ row \in [TaskId -> Row] /\ row[t] \in Row /\ row[t].requeue = NULL
  BY DEF RInv, IInv, TypeOK, Held, HeldBy, RowInv
<1>2. /\ row'[t].status = "running" /\ row'[t].spec = row[t].spec /\ row'[t].requeue = NULL
      /\ \A u \in TaskId \ {t} : row'[u] = row[u]
  BY <1>1 DEF Take, Row
<1>3. /\ Runs' = Runs \cup {n} /\ run'[n] = e /\ \A r \in Runs : run'[r] = run[r]
  BY RunAppend DEF RInv, IInv, TypeOK, Runs
<1> DEFINE v == row[t].spec.ver
<1>4. /\ stageBar[t] = "waiting" /\ acceptedBar[t] = v
      /\ stageBar'[t] = "active" /\ acceptedBar'[t] = v
  BY <1>1, <1>2, Stages, StagesNext, Accepted
<1>5. \A u \in TaskId \ {t} : stageBar'[u] = stageBar[u] /\ acceptedBar'[u] = acceptedBar[u]
  BY <1>2, RowSame DEF RInv
<1>6. v \notin begunBar[t]
  <2>1. ~Ran(t, v)
    <3> SUFFICES ASSUME NEW r \in Runs, run[r].task = t, run[r].ver = v PROVE FALSE
      BY DEF Ran
    <3>1. run[r].ver < v /\ run[r].ver \in Nat
      BY <1>1, RunType DEF RInv, IInv, Newer
    <3> QED BY <3>1
  <2> QED BY <1>1, <2>1, Begun
<1> HIDE DEF n, v
<1>7. ASSUME NEW u \in TaskId
      PROVE  begunBar'[u] = IF u = t THEN begunBar[t] \cup {v} ELSE begunBar[u]
  <2>1. ASSUME NEW x PROVE Ran(u, x)' <=> Ran(u, x) \/ (u = t /\ x = v)
    <3>1. run'[n].task = t /\ run'[n].ver = v
      BY <1>1, <1>3 DEF v
    <3> QED BY <1>3, <3>1 DEF Ran
  <2> QED BY <2>1, Begun
<1>8. /\ stageBar' = [stageBar EXCEPT ![t] = "active"]
      /\ acceptedBar' = acceptedBar
      /\ begunBar' = [begunBar EXCEPT ![t] = begunBar[t] \cup {acceptedBar[t]}]
  <2>1. stageBar' = [stageBar EXCEPT ![t] = "active"]
    BY <1>1, <1>4, <1>5, Domains
  <2>2. acceptedBar' = acceptedBar
    BY <1>4, <1>5, Domains, SameFunction
  <2>3. begunBar' = [begunBar EXCEPT ![t] = begunBar[t] \cup {v}]
    BY <1>1, <1>7, Domains
  <2> QED BY <1>4, <2>1, <2>2, <2>3
<1>9. ShowsClaim'
  <2> SUFFICES ASSUME NEW u \in TaskId, row'[u].status = "running"
               PROVE  \E r \in Runs' : run'[r].task = u /\ run'[r].ver = row'[u].spec.ver
    BY DEF ShowsClaim
  <2>1. CASE u = t
    <3>1. n \in Runs' /\ run'[n].task = t /\ run'[n].ver = row'[t].spec.ver
      BY <1>1, <1>2, <1>3
    <3> QED BY <2>1, <3>1
  <2>2. CASE u # t
    <3>1. PICK r \in Runs : run[r].task = u /\ run[r].ver = row[u].spec.ver
      BY <1>2, <2>2 DEF RInv, ShowsClaim
    <3> QED BY <1>2, <1>3, <2>2, <3>1
  <2> QED BY <2>1, <2>2
<1> QED BY <1>1, <1>4, <1>6, <1>8, <1>9 DEF Promise!Begin

LEMMA ClaimBegins ==
    ASSUME RInv, NEW w \in Worker, ClaimCommit(w) \/ ClaimLost(w)
    PROVE  ShowsClaim' /\ \E t \in TaskId : Promise!Begin(t)
<1>1. pc[w] = "claim" /\ UNCHANGED <<nextId, nextVer>>
  BY DEF ClaimCommit, ClaimLost
<1>2. ASSUME NEW t \in DOMAIN tx[w]
      PROVE  /\ Claimed(w, t, tx[w][t]) \in Run /\ Claimed(w, t, tx[w][t]).task = t
             /\ Claimed(w, t, tx[w][t]).ver = tx[w][t].spec.ver
  <2>1. /\ t \in TaskId /\ tx[w][t] = row[t] /\ row[t].status = "pending"
        /\ since[w] \in Int
    BY <1>1 DEF RInv, IInv, TypeOK, Held, HeldBy
  <2>2. tx[w][t] \in Row /\ tx[w][t].spec \in Submission
    BY <2>1, RowType DEF RInv, IInv
  <2> QED BY <2>1, <2>2, ClaimedType
<1>3. PICK t \in DOMAIN tx[w], e \in Run :
         /\ Take(w, t) /\ run' = Append(run, e) /\ e.task = t /\ e.ver = tx[w][t].spec.ver
  <2>1. CASE ClaimCommit(w)
    BY <1>2, <2>1 DEF ClaimCommit
  <2>2. CASE ClaimLost(w)
    <3>1. PICK t \in DOMAIN tx[w] :
             Take(w, t) /\ run' = Append(run, Over(Claimed(w, t, tx[w][t]), NULL))
      BY <2>2 DEF ClaimLost
    <3> DEFINE e == Over(Claimed(w, t, tx[w][t]), NULL)
    <3>2. e \in Run /\ e.task = t /\ e.ver = tx[w][t].spec.ver
      BY <1>2, OverType
    <3> QED BY <3>1, <3>2
  <2> QED BY <2>1, <2>2
<1> QED BY <1>1, <1>3, Begins
-----------------------------------------------------------------------------
(* Ends and reaping *)

\* A row in work is closed, or waits again if a version was parked.
Settles(t) ==
    /\ row[t].status = "running"
    /\ \/ /\ row[t].requeue = NULL /\ row'[t].status \in {"completed", "failed"}
          /\ row'[t].spec = row[t].spec /\ row'[t].requeue = NULL
       \/ /\ row[t].requeue # NULL /\ row'[t].status = "pending"
          /\ row'[t].spec = row[t].requeue /\ row'[t].requeue = NULL

LEMMA SettlesAll ==
    ASSUME RInv, NEW T \in SUBSET TaskId, \A t \in T : Settles(t),
           \A t \in TaskId \ T : row'[t] = row[t],
           UNCHANGED <<nextId, nextVer>>, SameHistory
    PROVE  Promise!Settle(T) /\ ShowsClaim'
<1>1. begunBar' = begunBar
  BY BegunSame
<1>2. ASSUME NEW t \in T
      PROVE  /\ stageBar[t] = "active" /\ acceptedBar'[t] = acceptedBar[t]
             /\ acceptedBar[t] \in begunBar[t] =>
                   stageBar'[t] = row'[t].status /\ row'[t].status \in {"completed", "failed"}
             /\ acceptedBar[t] \notin begunBar[t] => stageBar'[t] = "waiting"
  <2>1. t \in TaskId /\ Settles(t) /\ row[t].status = "running"
    BY DEF Settles
  <2>2. stageBar[t] = "active" /\ acceptedBar'[t] = acceptedBar[t]
    BY <2>1, Stages, Accepted DEF Settles
  <2>3. CASE row[t].requeue = NULL
    <3>1. acceptedBar[t] \in begunBar[t]
      <4>1. acceptedBar[t] = row[t].spec.ver /\ Ran(t, row[t].spec.ver)
        BY <2>1, <2>3, Accepted DEF RInv, ShowsClaim, Ran
      <4> QED BY <2>1, <4>1, Begun
    <3> QED BY <2>1, <2>2, <2>3, <3>1, StagesNext DEF Settles
  <2>4. CASE row[t].requeue # NULL
    <3>1. acceptedBar[t] \notin begunBar[t]
      <4>1. acceptedBar[t] = row[t].requeue.ver
        BY <2>1, <2>4, Accepted
      <4>2. ASSUME NEW r \in Runs, run[r].task = t, run[r].ver = row[t].requeue.ver PROVE FALSE
        <5>1. run[r].ver < row[t].requeue.ver /\ run[r].ver \in Nat
          BY <2>1, <2>4, <4>2, RunType DEF RInv, IInv, Newer
        <5> QED BY <4>2, <5>1
      <4> QED BY <2>1, <4>1, <4>2, Begun DEF Ran
    <3> QED BY <2>1, <2>2, <2>4, <3>1, StagesNext DEF Settles
  <2> QED BY <2>2, <2>3, <2>4
<1>3. ASSUME NEW t \in TaskId \ T
      PROVE  stageBar'[t] = stageBar[t] /\ acceptedBar'[t] = acceptedBar[t]
  BY RowSame DEF RInv
<1>4. acceptedBar' = acceptedBar
  BY <1>2, <1>3, Domains, SameFunction
<1> DEFINE verdict == [t \in T |-> IF row'[t].status \in {"completed", "failed"}
                                   THEN row'[t].status ELSE "failed"]
<1>5. verdict \in [T -> Promise!Verdict]
  BY DEF Promise!Verdict
<1>6. stageBar' = [t \in TaskId |-> IF t \notin T THEN stageBar[t]
                                    ELSE IF acceptedBar[t] \in begunBar[t] THEN verdict[t]
                                    ELSE "waiting"]
  <2>1. \A t \in T : acceptedBar[t] \in begunBar[t] => stageBar'[t] = verdict[t]
    BY <1>2
  <2> HIDE DEF verdict
  <2> QED BY <1>2, <1>3, <2>1, Domains
<1>7. Promise!Settle(T)
  <2> HIDE DEF verdict
  <2> QED BY <1>1, <1>2, <1>4, <1>5, <1>6 DEF Promise!Settle
<1>8. ShowsClaim'
  <2> SUFFICES ASSUME NEW t \in TaskId, row'[t].status = "running"
               PROVE  \E r \in Runs' : run'[r].task = t /\ run'[r].ver = row'[t].spec.ver
    BY DEF ShowsClaim
  <2>1. row'[t] = row[t]
    BY DEF Settles
  <2> QED BY <2>1 DEF RInv, ShowsClaim, SameHistory, Runs
<1> QED BY <1>7, <1>8

LEMMA ApplyRequeueSettles ==
    ASSUME NEW q \in Row, q.requeue # NULL
    PROVE  /\ ApplyRequeue(q).status = "pending" /\ ApplyRequeue(q).spec = q.requeue
           /\ ApplyRequeue(q).requeue = NULL
BY DEF ApplyRequeue, Fresh, Absent, Row

LEMMA ClosedSettles ==
    ASSUME NEW q \in Row, NEW s, NEW at
    PROVE  /\ Closed(s, at, q).status = s /\ Closed(s, at, q).spec = q.spec
           /\ Closed(s, at, q).requeue = q.requeue
BY DEF Closed, Row

LEMMA FinishSettles ==
    ASSUME RInv, NEW w \in Worker, NEW r \in Runs, FinishCommit(w, r), SameHistory
    PROVE  ShowsClaim' /\ \E T \in SUBSET TaskId : Promise!Settle(T)
<1> DEFINE t  == run[r].task
           at == now + Skew[w]
<1>1. /\ pc[w] = "finish" /\ run[r].parent = w /\ run[r].phase = "recording"
      /\ row' = [row EXCEPT ![t] = IF tx[w][t].requeue # NULL THEN ApplyRequeue(tx[w][t])
                                   ELSE Closed(run[r].result, at, row[t])]
      /\ UNCHANGED <<nextId, nextVer>>
  BY DEF FinishCommit, Mine
<1>2. /\ t \in TaskId /\ t \in DOMAIN tx[w] /\ run[r].result \in {"completed", "failed"}
  BY <1>1, RunType DEF RInv, IInv, Recording
<1>3. tx[w][t] = row[t] /\ row[t].status = "running" /\ row \in [TaskId -> Row] /\ row[t] \in Row
  BY <1>1, <1>2 DEF RInv, IInv, TypeOK, Held, HeldBy
<1> HIDE DEF t, at
<1>4. Settles(t) /\ \A u \in TaskId \ {t} : row'[u] = row[u]
  BY <1>1, <1>2, <1>3, ApplyRequeueSettles, ClosedSettles DEF Settles
<1>5. Promise!Settle({t}) /\ ShowsClaim'
  BY <1>1, <1>2, <1>4, SettlesAll
<1> QED BY <1>2, <1>5

LEMMA ReapSettles ==
    ASSUME RInv, NEW w \in Worker, ReapCommit(w)
    PROVE  ShowsClaim' /\ \E T \in SUBSET TaskId : Promise!Settle(T)
<1> DEFINE at == since[w] + Skew[w]
<1>1. /\ pc[w] = "apply" /\ UNCHANGED <<nextId, nextVer, run>>
      /\ row' = [t \in TaskId |-> IF t \notin DOMAIN tx[w] THEN row[t]
                                  ELSE IF tx[w][t].requeue # NULL THEN ApplyRequeue(tx[w][t])
                                  ELSE Closed("failed", at, row[t])]
  BY DEF ReapCommit
<1> HIDE DEF at
<1>2. DOMAIN tx[w] \in SUBSET TaskId /\ SameHistory
  BY <1>1, UnchangedHistory DEF RInv, IInv, TypeOK
<1>3. ASSUME NEW t \in DOMAIN tx[w] PROVE Settles(t)
  <2>1. t \in TaskId /\ tx[w][t] = row[t] /\ row[t].status = "running" /\ row[t] \in Row
    BY <1>1, <1>2 DEF RInv, IInv, TypeOK, Held, HeldBy
  <2> QED BY <1>1, <2>1, ApplyRequeueSettles, ClosedSettles DEF Settles
<1>4. \A t \in TaskId \ DOMAIN tx[w] : row'[t] = row[t]
  BY <1>1
<1>5. Promise!Settle(DOMAIN tx[w]) /\ ShowsClaim'
  BY <1>1, <1>2, <1>3, <1>4, SettlesAll
<1> QED BY <1>2, <1>5
-----------------------------------------------------------------------------
(* All steps *)

LEMMA ExceptHistory ==
    ASSUME IInv, NEW r \in Runs, NEW e \in Run, run' = [run EXCEPT ![r] = e],
           e.task = run[r].task, e.ver = run[r].ver
    PROVE  SameHistory
BY RunExcept DEF IInv, TypeOK

\* No step but a claim adds to the history of claims.
LEMMA RunHistory ==
    ASSUME IInv, NEW r \in Runs,
           \/ \E w \in Worker : \/ Fork(w, r) \/ StartFail(w, r) \/ FinishSelect(w, r)
                                \/ FinishCommit(w, r) \/ FinishAbort(w, r)
           \/ \E res \in {"completed", "failed"} : ChildExit(r, res)
    PROVE  SameHistory
<1>1. run[r] \in Run /\ now \in Time /\ run[r].result \in {"completed", "failed", NULL}
  <2>1. now \in Int
    BY DEF IInv, TypeOK
  <2> QED BY <2>1, RunType DEF IInv, Time
<1>2. CASE run' = [run EXCEPT ![r].phase = "running", ![r].at = now]
  <2> DEFINE e == [run[r] EXCEPT !.phase = "running", !.at = now]
  <2>1. e \in Run /\ e.task = run[r].task /\ e.ver = run[r].ver /\ run' = [run EXCEPT ![r] = e]
    BY <1>1, <1>2 DEF Run
  <2> HIDE DEF e
  <2> QED BY <2>1, ExceptHistory
<1>3. ASSUME NEW res \in {"completed", "failed"},
             run' = [run EXCEPT ![r].phase = "exited", ![r].result = res]
      PROVE  SameHistory
  <2> DEFINE e == [run[r] EXCEPT !.phase = "exited", !.result = res]
  <2>1. e \in Run /\ e.task = run[r].task /\ e.ver = run[r].ver /\ run' = [run EXCEPT ![r] = e]
    BY <1>1, <1>3 DEF Run
  <2> HIDE DEF e
  <2> QED BY <2>1, ExceptHistory
<1>4. CASE run' = [run EXCEPT ![r].phase = "recording"]
  <2> DEFINE e == [run[r] EXCEPT !.phase = "recording"]
  <2>1. e \in Run /\ e.task = run[r].task /\ e.ver = run[r].ver /\ run' = [run EXCEPT ![r] = e]
    BY <1>1, <1>4 DEF Run
  <2> HIDE DEF e
  <2> QED BY <2>1, ExceptHistory
<1>5. ASSUME NEW res \in {"completed", "failed", NULL}, run' = Done(r, res)
      PROVE  SameHistory
  BY <1>1, <1>5, OverType, ExceptHistory DEF Done
<1> QED BY <1>1, <1>2, <1>3, <1>4, <1>5
        DEF Fork, StartFail, FinishSelect, FinishCommit, FinishAbort, ChildExit

LEMMA CrashHistory == ASSUME IInv, NEW w \in Worker, Crash(w) PROVE SameHistory
<1>1. run' \in Seq(Run)
  BY CrashStep DEF IInv, TypeOK
<1>2. ASSUME NEW r \in Runs PROVE run'[r].task = run[r].task /\ run'[r].ver = run[r].ver
  <2>1. run[r] \in Run
    BY RunType DEF IInv
  <2>2. run'[r] = IF run[r].parent # w THEN run[r]
                  ELSE IF Alive(r) THEN [run[r] EXCEPT !.parent = NULL]
                  ELSE Over(run[r], run[r].result)
    BY DEF Crash
  <2>3. [run[r] EXCEPT !.parent = NULL].task = run[r].task
        /\ [run[r] EXCEPT !.parent = NULL].ver = run[r].ver
    BY <2>1 DEF Run
  <2>4. Over(run[r], run[r].result).task = run[r].task
        /\ Over(run[r], run[r].result).ver = run[r].ver
    BY <2>1 DEF Run, Over
  <2> QED BY <2>2, <2>3, <2>4
<1> QED BY <1>1, <1>2 DEF SameHistory, Crash, Runs

LEMMA ShowsKept ==
    ASSUME RInv, SameHistory,
           \A t \in TaskId : row'[t].status = "running" =>
               row[t].status = "running" /\ row'[t].spec = row[t].spec
    PROVE  ShowsClaim'
BY DEF RInv, ShowsClaim, SameHistory, Runs

LEMMA ClientShows == ASSUME RInv, Submit \/ Remove PROVE ShowsClaim'
<1>1. row \in [TaskId -> Row] /\ UNCHANGED run
  BY DEF Submit, Upsert, Enqueue, UpsertConflict, Remove, Cancel, ClearAll, Clear, Delete,
         RInv, IInv, TypeOK
<1>2. SameHistory
  BY <1>1, UnchangedHistory DEF RInv, IInv
<1>3. CASE Submit
  <2>1. PICK o \in Option, c \in ClientId \cup {NULL} :
           Enqueue(o, c) \/ \E t \in Owner(c) : UpsertConflict(o, t)
    BY <1>3 DEF Submit, Upsert
  <2> DEFINE s == Submitted(o)
  <2>2. CASE Enqueue(o, c)
    <3>1. row' = [row EXCEPT ![nextId] = Fresh(c, s)] /\ Fresh(c, s).status = "pending"
      BY <2>2 DEF Enqueue, Fresh, Absent
    <3> HIDE DEF s
    <3> QED BY <1>1, <1>2, <3>1, ShowsKept
  <2>3. CASE \E t \in Owner(c) : UpsertConflict(o, t)
    <3>1. PICK t \in TaskId : UpsertConflict(o, t)
      BY <2>3 DEF Owner
    <3>2. row' = [row EXCEPT ![t] = IF row[t].status = "running"
                                    THEN [row[t] EXCEPT !.requeue = s]
                                    ELSE Fresh(row[t].client, s)]
      BY <3>1 DEF UpsertConflict
    <3> HIDE DEF s
    <3>3. Fresh(row[t].client, s).status = "pending"
      BY DEF Fresh, Absent
    <3>4. row[t] \in Row
      BY <1>1
    <3>5. LET q == [row[t] EXCEPT !.requeue = s]
          IN  q.status = row[t].status /\ q.spec = row[t].spec
      BY <3>4 DEF Row
    <3> QED BY <1>1, <1>2, <3>2, <3>3, <3>5, ShowsKept
  <2> QED BY <2>1, <2>2, <2>3
<1>4. CASE Remove
  <2>1. PICK T : row' = [t \in TaskId |-> IF t \in T THEN Absent ELSE row[t]]
    BY <1>4 DEF Remove, Cancel, ClearAll, Clear, Delete
  <2> QED BY <1>2, <2>1, AbsentType, ShowsKept
<1> QED BY <1>3, <1>4

LEMMA QuietStep ==
    ASSUME RInv, UNCHANGED queue, SameHistory
    PROVE  ShowsClaim' /\ UNCHANGED Promise!vars
<1>1. UNCHANGED row
  BY DEF queue
<1> QED BY <1>1, ShowsKept, Stutters DEF RInv

LEMMA WorkerRefines ==
    ASSUME RInv, NEW w \in Worker, Work(w) \/ Break(w)
    PROVE  ShowsClaim' /\ [Promise!Next]_Promise!vars
<1>1. CASE ClaimCommit(w) \/ ClaimLost(w)
  BY <1>1, ClaimBegins DEF Promise!Next
<1>2. CASE ReapCommit(w)
  BY <1>2, ReapSettles DEF Promise!Next
<1>3. ASSUME NEW r \in Runs, FinishCommit(w, r) PROVE ShowsClaim' /\ [Promise!Next]_Promise!vars
  BY <1>3, RunHistory, FinishSettles DEF RInv, Promise!Next
<1>4. ASSUME NEW r \in Runs,
             Fork(w, r) \/ StartFail(w, r) \/ FinishSelect(w, r) \/ FinishAbort(w, r)
      PROVE  ShowsClaim' /\ UNCHANGED Promise!vars
  <2>1. UNCHANGED queue
    BY <1>4 DEF Fork, StartFail, FinishSelect, FinishAbort
  <2> QED BY <1>4, <2>1, RunHistory, QuietStep DEF RInv
<1>5. CASE Crash(w)
  <2>1. UNCHANGED queue
    BY <1>5 DEF Crash
  <2> QED BY <1>5, <2>1, CrashHistory, QuietStep DEF RInv
<1>6. CASE UNCHANGED queue /\ UNCHANGED run
  BY <1>6, UnchangedHistory, QuietStep DEF RInv, IInv
<1> QED BY <1>1, <1>2, <1>3, <1>4, <1>5, <1>6
        DEF Work, Break, Claim, Finish, Reap, ClaimSelect, PollEmpty, SelectTimeout, ReapBegin,
            ReapUpdate, ReapSelect, ReapNotDue, ClaimAbort, ReapAbort, SessionEnds

LEMMA NextRefines == RInv /\ [Next]_vars => ShowsClaim' /\ [Promise!Next]_Promise!vars
<1> SUFFICES ASSUME RInv, [Next]_vars PROVE ShowsClaim' /\ [Promise!Next]_Promise!vars
  OBVIOUS
<1>1. CASE Submit \/ Remove
  BY <1>1, ClientShows, SubmitAccepts, RemoveWithdraws DEF RInv, Promise!Next
<1>2. CASE Exit
  <2>1. PICK r \in Runs, res \in {"completed", "failed"} : ChildExit(r, res)
    BY <1>2 DEF Exit
  <2>2. UNCHANGED queue
    BY <2>1 DEF ChildExit
  <2> QED BY <2>1, <2>2, RunHistory, QuietStep DEF RInv
<1>3. CASE Tick \/ UNCHANGED vars
  <2>1. UNCHANGED queue /\ UNCHANGED run
    BY <1>3 DEF Tick, vars
  <2> QED BY <2>1, UnchangedHistory, QuietStep DEF RInv, IInv
<1>4. CASE \E w \in Worker : Work(w) \/ Break(w)
  BY <1>4, WorkerRefines
<1> QED BY <1>1, <1>2, <1>3, <1>4 DEF Next

LEMMA InitRefines == Init => ShowsClaim /\ Promise!Init
<1> SUFFICES ASSUME Init PROVE ShowsClaim /\ Promise!Init
  OBVIOUS
<1>1. /\ Runs = {} /\ nextId = 1 /\ nextVer = 1
      /\ \A t \in TaskId : row[t].status = "absent" /\ ~(t < nextId)
  <2>1. \A t \in TaskId : ~(t < 1)
    BY BoundsAssumption DEF TaskId
  <2> QED BY <2>1, AbsentType, EmptySeq DEF Init, Runs
<1>2. \A t \in TaskId : stageBar[t] = "new" /\ acceptedBar[t] = 0
  BY <1>1, Stages, Accepted
<1>3. \A t \in TaskId : begunBar[t] = {}
  BY <1>1, Begun DEF Ran
<1> QED BY <1>1, <1>2, <1>3, Domains DEF ShowsClaim, Promise!Init

\* The mailbox VersionQueue is what a client may think pq_tasks is: no upsert
\* is lost or run twice, no verdict changes and a closed task has no newer
\* version, whatever workers, reapers and clients do to the rows in between
\* (_upsert_statement, _finish_one_off, reap_stale_tasks).
THEOREM QueueKeepsPromise == Spec => ImplementsVersionQueue
<1>1. Init => RInv /\ Promise!Init
  BY InitInv, InitRefines DEF RInv
<1>2. RInv /\ [Next]_vars => RInv' /\ [Promise!Next]_Promise!vars
  BY NextInv, NextRefines DEF RInv
<1> QED BY <1>1, <1>2, PTL DEF Spec, ImplementsVersionQueue, Promise!Spec
=============================================================================
