------------------------- MODULE PeriodicQueueProofs -------------------------
(***************************************************************************)
(* Proofs about PeriodicQueue for every number of workers, schedules,      *)
(* calls and faults, every setting of the workers and every clock.         *)
(***************************************************************************)
EXTENDS PeriodicQueue, SequenceTheorems, TLAPS

\* A row's id and version are those of a call, and of no other row.
Rows == \A k \in Key :
    /\ row[k].id = NULL => row[k] = Absent
    /\ row[k].id # NULL =>
          /\ row[k].ver \in Call /\ row[k].opt \in Option /\ row[k].next_run \in Int
          /\ row[k].id < nextVer /\ row[k].ver < nextVer
          /\ \A j \in Key : row[j].id = row[k].id \/ row[j].ver = row[k].ver => j = k

Known == \A r \in Runs : run[r].id < nextVer /\ run[r].ver < nextVer

\* What a claim relies on: the row is still as it read it, also in a transaction
\* that outlives its worker, it was due, and no lease was on it.
HeldBy(w) ==
    /\ tx[w] # NULL => /\ tx[w].id # NULL /\ \E k \in Key : row[k] = tx[w]
                       /\ \A v \in Worker \ {w} : tx[v] # NULL => tx[v].id # tx[w].id
    /\ pc[w] = "claim" => /\ since[w] <= now /\ tx[w].next_run <= since[w]
                          /\ \/ tx[w].opt.max_concurrent = NULL
                             \/ tx[w].locked_until = NULL
                             \/ tx[w].locked_until <= since[w]

Held == \A w \in Worker : HeldBy(w)

SInv == TypeOK /\ Rows /\ Known /\ Held

\* A schedule is ahead of every run of its version.
Advancing == \A k \in Key, r \in Runs :
    row[k].id # NULL /\ run[r].ver = row[k].ver => run[r].claimed < row[k].next_run

\* The lease of a run lies in its row until the run is over, so that no other
\* leased run of the row begins, unless it or another has outlived it.
Holding(r) == run[r].phase # "over" /\ run[r].until # NULL
Punctual(i) == \A q \in Runs : run[q].id = i => ~run[q].late

Leased == \A r \in Runs : Holding(r) /\ Punctual(run[r].id) =>
    /\ now < run[r].until
    /\ \A k \in Key : row[k].id = run[r].id => row[k].locked_until = run[r].until
    /\ \A s \in Runs : Holding(s) /\ run[s].id = run[r].id => s = r

Pc == {"poll", "claim", "start", "failed", "select", "down"}
-----------------------------------------------------------------------------
(* What the operators return *)

LEMMA NextInstantLater ==
    ASSUME NEW p \in Nat \ {0}, NEW t \in Int
    PROVE  NextInstant(p, t) \in Int /\ t < NextInstant(p, t)
<1>1. t % p \in 0 .. p - 1
  OBVIOUS
<1> QED BY <1>1 DEF NextInstant

LEMMA OptionType ==
    ASSUME NEW o \in Option
    PROVE  /\ o.run_every \in Nat /\ o.cron \in Nat /\ (o.run_every = 0) # (o.cron = 0)
           /\ Effective(o) \in Nat /\ Lease(o) \in Nat
BY OptionAssumption, BoundsAssumption DEF Effective, Lease

LEMMA FirstRunType ==
    ASSUME NEW o \in Option, NEW t \in Int
    PROVE  FirstRun(o, t) \in Int /\ t <= FirstRun(o, t)
BY OptionType, NextInstantLater DEF FirstRun

LEMMA AdvancedType ==
    ASSUME NEW w \in Worker, NEW o \in Option, since[w] \in Int
    PROVE  /\ Advanced(w, o) \in Int /\ LeaseEnd(w, o) \in Time
           /\ o.max_concurrent = NULL => LeaseEnd(w, o) = NULL
           /\ o.max_concurrent # NULL => LeaseEnd(w, o) \in Int
<1>1. /\ Effective(o) \in Nat /\ Lease(o) \in Nat /\ o.run_every \in Nat
      /\ o.cron # 0 => o.cron \in Nat \ {0}
      /\ since[w] + Skew[w] \in Int
  BY OptionType, WorkerAssumption
<1>2. o.cron # 0 => NextInstant(o.cron, since[w] + Skew[w]) \in Int
  BY <1>1, NextInstantLater
<1>3. since[w] + Lease(o) \in Int
  BY <1>1
<1> QED BY <1>1, <1>2, <1>3 DEF Advanced, LeaseEnd, Time

LEMMA RunsDomain == ASSUME run \in Seq(Run)
                    PROVE  /\ Runs = 1 .. Len(run) /\ Len(run) \in Nat
                           /\ \A r \in Runs : run[r] \in Run
BY DEF Runs

LEMMA RunType ==
    ASSUME TypeOK, NEW r \in Runs
    PROVE  /\ run[r] \in Run /\ run[r].id \in Call /\ run[r].ver \in Call
           /\ run[r].id \in Nat /\ run[r].ver \in Nat
           /\ run[r].claimed \in Int /\ run[r].due \in Int /\ run[r].until \in Time
           /\ run[r].late \in BOOLEAN
<1>1. run[r] \in Run
  BY RunsDomain DEF TypeOK
<1>2. run[r].id \in Call /\ run[r].ver \in Call /\ run[r].until \in Time
      /\ run[r].claimed \in Int /\ run[r].due \in Int /\ run[r].late \in BOOLEAN
  BY <1>1 DEF Run
<1>3. Call \subseteq Nat
  BY BoundsAssumption DEF Call
<1> QED BY <1>1, <1>2, <1>3

LEMMA AbsentType == Absent \in Row /\ Absent.id = NULL
BY DEF Absent, Row, Time

LEMMA IdType ==
    ASSUME TypeOK, Rows, NEW k \in Key
    PROVE  /\ row[k] \in Row /\ row[k] # NULL /\ (row[k] = Absent <=> row[k].id = NULL)
           /\ row[k].id # NULL => row[k].id \in Call /\ row[k].id \in Nat /\ row[k].ver \in Nat
<1>1. row[k] \in Row
  BY DEF TypeOK
<1>2. row[k].id \in Call \cup {NULL}
  BY <1>1 DEF Row
<1>3. Call \subseteq Nat
  BY BoundsAssumption DEF Call
<1> QED BY <1>1, <1>2, <1>3, AbsentType, RowAssumption DEF Rows
-----------------------------------------------------------------------------
(* How a step may change the runs *)

\* No claim is added, and a run that is over or late stays so.
SameRuns ==
    /\ run' \in Seq(Run) /\ DOMAIN run' = Runs
    /\ \A r \in Runs :
          /\ run'[r].id = run[r].id /\ run'[r].ver = run[r].ver /\ run'[r].due = run[r].due
          /\ run'[r].claimed = run[r].claimed /\ run'[r].until = run[r].until
          /\ run[r].late => run'[r].late
          /\ now' = now => run'[r].late = run[r].late
          /\ run'[r].phase # "over" => run[r].phase # "over"

LEMMA UnchangedRuns == ASSUME TypeOK, UNCHANGED run PROVE SameRuns
BY DEF TypeOK, SameRuns, Runs

LEMMA OneRun ==
    ASSUME TypeOK, NEW r \in Runs, NEW e \in Run, run' = [run EXCEPT ![r] = e],
           e.id = run[r].id, e.ver = run[r].ver, e.due = run[r].due,
           e.claimed = run[r].claimed, e.until = run[r].until, e.late = run[r].late,
           run[r].phase # "over"
    PROVE  SameRuns /\ run'[r] = e /\ \A s \in Runs \ {r} : run'[s] = run[s]
<1>1. run \in Seq(Run) /\ r \in 1 .. Len(run) /\ Runs = 1 .. Len(run)
  BY RunsDomain DEF TypeOK
<1>2. /\ run' \in Seq(Run) /\ Len(run') = Len(run)
      /\ \A s \in 1 .. Len(run) : run'[s] = IF s = r THEN e ELSE run[s]
  BY <1>1, ExceptSeq
<1>3. DOMAIN run' = Runs
  BY <1>1, <1>2, LenProperties
<1> QED BY <1>1, <1>2, <1>3 DEF SameRuns

LEMMA NewRun ==
    ASSUME run \in Seq(Run), NEW e \in Run, run' = Append(run, e)
    PROVE  /\ run' \in Seq(Run) /\ DOMAIN run' = Runs \cup {Len(run) + 1}
           /\ Len(run) \in Nat /\ Runs = 1 .. Len(run) /\ Len(run) + 1 \notin Runs
           /\ run'[Len(run) + 1] = e /\ \A s \in Runs : run'[s] = run[s]
<1>1. /\ run' \in Seq(Run) /\ Len(run') = Len(run) + 1
      /\ \A s \in 1 .. Len(run) : run'[s] = run[s]
      /\ run'[Len(run) + 1] = e
  BY AppendProperties
<1> QED BY <1>1, LenProperties, RunsDomain

LEMMA KnownKept == ASSUME TypeOK, Known, SameRuns, nextVer' \in {nextVer, nextVer + 1} PROVE Known'
<1>1. nextVer \in Nat
  BY BoundsAssumption DEF TypeOK
<1>2. ASSUME NEW r \in Runs PROVE run'[r].id < nextVer' /\ run'[r].ver < nextVer'
  BY <1>1, RunType DEF Known, SameRuns
<1> QED BY <1>2 DEF Known, SameRuns, Runs

LEMMA MapRuns ==
    ASSUME TypeOK, run' = [r \in Runs |-> run'[r]], \A r \in Runs : run'[r] \in Run
    PROVE  run' \in Seq(Run) /\ DOMAIN run' = Runs
<1>1. Runs = 1 .. Len(run) /\ Len(run) \in Nat
  BY RunsDomain DEF TypeOK
<1> QED BY <1>1
-----------------------------------------------------------------------------
(* How a step may change the rows and the workers *)

LEMMA RowsKept ==
    ASSUME TypeOK, Rows, nextVer' = nextVer,
           \A k \in Key :
              \/ row'[k] = row[k]
              \/ row'[k] = Absent
              \/ /\ row[k].id # NULL /\ row'[k].id = row[k].id /\ row'[k].ver = row[k].ver
                 /\ row'[k].opt = row[k].opt /\ row'[k].next_run \in Int
    PROVE  Rows'
<1> SUFFICES ASSUME NEW k \in Key
             PROVE  /\ row'[k].id = NULL => row'[k] = Absent
                    /\ row'[k].id # NULL =>
                          /\ row'[k].ver \in Call /\ row'[k].opt \in Option
                          /\ row'[k].next_run \in Int
                          /\ row'[k].id < nextVer /\ row'[k].ver < nextVer
                          /\ \A j \in Key :
                                row'[j].id = row'[k].id \/ row'[j].ver = row'[k].ver => j = k
  BY DEF Rows
<1>1. CASE row'[k].id = NULL
  BY <1>1, AbsentType DEF Rows
<1>2. CASE row'[k].id # NULL
  <2>1. /\ row[k].id # NULL /\ row'[k].id = row[k].id /\ row'[k].ver = row[k].ver
        /\ row'[k].opt = row[k].opt /\ row'[k].next_run \in Int
    BY <1>2, AbsentType DEF Rows
  <2>2. row[k].ver # NULL
    BY <2>1, IdType, NullAssumption
  <2>3. ASSUME NEW j \in Key, row'[j].id = row'[k].id \/ row'[j].ver = row'[k].ver PROVE j = k
    <3>1. row'[j] # Absent
      BY <1>2, <2>1, <2>2, <2>3 DEF Absent
    <3> QED BY <2>1, <2>3, <3>1 DEF Rows
  <2> QED BY <2>1, <2>3 DEF Rows
<1> QED BY <1>1, <1>2

Stands(w) == pc'[w] = pc[w] /\ tx'[w] = tx[w] /\ since'[w] = since[w]

LoopOK == /\ pc \in [Worker -> Pc] /\ tx \in [Worker -> Row \cup {NULL}]
          /\ since \in [Worker -> Time]
          /\ \A w \in Worker : /\ tx[w] # NULL <=> pc[w] \in {"claim", "down"}
                               /\ since[w] # NULL <=> pc[w] \in {"claim", "start"}

LEMMA LoopType == ASSUME TypeOK PROVE LoopOK
BY DEF TypeOK, LoopOK, Pc

LEMMA Moves ==
    ASSUME TypeOK, NEW w \in Worker, NEW p \in Pc, NEW q \in Row \cup {NULL}, NEW at \in Time,
           Goto(w, p), Hold(w, q, at), q # NULL <=> p \in {"claim", "down"},
           at # NULL <=> p \in {"claim", "start"}
    PROVE  /\ LoopOK'
           /\ pc'[w] = p /\ tx'[w] = q /\ since'[w] = at
           /\ \A v \in Worker \ {w} : Stands(v)
<1>1. LoopOK
  BY LoopType
<1>2. /\ pc' \in [Worker -> Pc] /\ tx' \in [Worker -> Row \cup {NULL}]
      /\ since' \in [Worker -> Time]
      /\ pc'[w] = p /\ tx'[w] = q /\ since'[w] = at
  BY <1>1 DEF LoopOK, Goto, Hold
<1>3. \A v \in Worker \ {w} : Stands(v)
  BY <1>1 DEF LoopOK, Goto, Hold, Stands
<1> QED BY <1>1, <1>2, <1>3 DEF LoopOK, Stands

LEMMA SameHold ==
    ASSUME TypeOK, NEW w \in Worker, UNCHANGED <<tx, since>>, pc[w] \notin {"claim", "start", "down"}
    PROVE  Hold(w, NULL, NULL)
<1>1. tx[w] = NULL /\ since[w] = NULL
  BY DEF TypeOK
<1> QED BY <1>1 DEF TypeOK, Hold

\* Only the workers of W move; nobody writes a row another one has locked.
LEMMA HeldKept ==
    ASSUME TypeOK, TypeOK', Held, NEW W \in SUBSET Worker, \A v \in Worker \ W : Stands(v),
           now <= now',
           \A v \in Worker \ W, k \in Key :
               row[k] = tx[v] => row'[k] = row[k],
           \A w \in W : HeldBy(w)'
    PROVE  Held'
<1> SUFFICES ASSUME NEW v \in Worker \ W PROVE HeldBy(v)'
  BY DEF Held
<1>1. /\ HeldBy(v) /\ tx'[v] = tx[v] /\ pc'[v] = pc[v] /\ since'[v] = since[v]
  BY DEF Held, Stands
<1>2. tx[v] # NULL => \E k \in Key : row'[k] = tx'[v]
  BY <1>1 DEF HeldBy
<1>3. pc[v] = "claim" => since'[v] <= now'
  <2>1. (pc[v] = "claim" => since[v] \in Int) /\ now \in Int /\ now' \in Int
    BY DEF TypeOK, Time
  <2> QED BY <1>1, <2>1 DEF HeldBy
<1>4. ASSUME NEW u \in Worker \ {v}, tx'[u] # NULL, tx'[v] # NULL PROVE tx'[u].id # tx'[v].id
  <2>1. CASE u \in W
    BY <1>1, <1>4, <2>1 DEF HeldBy
  <2>2. CASE u \notin W
    BY <1>1, <1>4, <2>2 DEF HeldBy, Stands
  <2> QED BY <2>1, <2>2
<1> QED BY <1>1, <1>2, <1>3, <1>4 DEF HeldBy

LEMMA NotHolding == ASSUME NEW w \in Worker, tx'[w] = NULL, pc'[w] # "claim" PROVE HeldBy(w)'
BY DEF HeldBy

\* A worker that moves on without a claim in its transaction.
LEMMA MovesOn ==
    ASSUME SInv, NEW w \in Worker, NEW p \in Pc \ {"claim", "down"}, NEW at \in Time,
           Goto(w, p), Hold(w, NULL, at), at # NULL <=> p = "start",
           UNCHANGED <<now, nextVer>>, faults' \in 0 .. MaxFaults,
           row' \in [Key -> Row], run' \in Seq(Run),
           \A v \in Worker \ {w}, k \in Key :
               row[k] = tx[v] => row'[k] = row[k]
    PROVE  TypeOK' /\ Held'
<1>1. LoopOK' /\ pc'[w] = p /\ tx'[w] = NULL /\ \A v \in Worker \ {w} : Stands(v)
  BY Moves DEF SInv
<1>2. TypeOK'
  BY <1>1 DEF SInv, TypeOK, LoopOK, Pc
<1>3. HeldBy(w)' /\ now <= now'
  BY <1>1, NotHolding DEF SInv, TypeOK
<1>4. {w} \in SUBSET Worker /\ \A u \in {w} : HeldBy(u)'
  BY <1>3
<1>5. TypeOK /\ Held
  BY DEF SInv
<1> HIDE DEF SInv
<1> QED BY <1>1, <1>2, <1>3, <1>4, <1>5, HeldKept

\* Nobody moves, and nobody writes a row that a claim has locked.
LEMMA NobodyMoves ==
    ASSUME SInv, UNCHANGED loop, TypeOK', now <= now',
           \A v \in Worker, k \in Key :
               row[k] = tx[v] => row'[k] = row[k]
    PROVE  Held'
<1>1. \A v \in Worker \ {} : Stands(v)
  BY DEF loop, Stands
<1>2. {} \in SUBSET Worker /\ \A u \in {} : HeldBy(u)'
  OBVIOUS
<1>3. TypeOK /\ Held
  BY DEF SInv
<1> QED BY <1>1, <1>2, <1>3, HeldKept

\* A step that neither claims nor unlocks nor lets time pass.
SameRows == \A k \in Key : row'[k].id # NULL =>
    \/ row'[k] = row[k]
    \/ /\ row'[k].ver = nextVer
       /\ \/ row'[k].id = nextVer
          \/ row'[k].id = row[k].id /\ row'[k].locked_until = row[k].locked_until

Calm == SameRuns /\ SameRows /\ now' = now
-----------------------------------------------------------------------------
(* The structure: one lemma per action *)

LEMMA LocksRow ==
    ASSUME SInv, NEW k \in Key, NEW v \in Worker, row[k] = tx[v]
    PROVE  Locks(k)
BY IdType, RowAssumption DEF SInv, TypeOK, Locks

LEMMA SInvSchedule ==
    ASSUME SInv, NEW k \in Key, NEW o \in Option, NEW lag \in Lag, Schedule(k, o, lag)
    PROVE  SInv' /\ Calm
<1>1. /\ TypeOK /\ Rows /\ Known /\ Held /\ nextVer \in Call /\ nextVer' = nextVer + 1
      /\ UNCHANGED <<now, run, loop, faults>> /\ ~Locks(k)
      /\ now \in Int /\ nextVer \in Nat
  BY BoundsAssumption DEF SInv, Schedule, TypeOK, Call
<1>2. /\ row'[k] = [id |-> IF row[k] = Absent THEN nextVer ELSE row[k].id, ver |-> nextVer,
                    opt |-> o, next_run |-> FirstRun(o, now + lag),
                    locked_until |-> row[k].locked_until]
      /\ \A j \in Key \ {k} : row'[j] = row[j]
      /\ row' = [row EXCEPT ![k] = row'[k]]
  BY <1>1 DEF Schedule, TypeOK
<1>3. FirstRun(o, now + lag) \in Int
  <2>1. now + lag \in Int
    BY <1>1, ClientAssumption
  <2> QED BY <2>1, FirstRunType
<1>4. row'[k] \in Row
  <2>1. row[k].id \in Call \cup {NULL} /\ row[k].locked_until \in Time
    BY <1>1 DEF TypeOK, Row
  <2>2. ASSUME NEW i \in Call \cup {NULL}, NEW u \in Time, NEW t \in Time
        PROVE  [id |-> i, ver |-> nextVer, opt |-> o, next_run |-> t, locked_until |-> u] \in Row
    BY <1>1 DEF Row
  <2>3. /\ (IF row[k] = Absent THEN nextVer ELSE row[k].id) \in Call \cup {NULL}
        /\ FirstRun(o, now + lag) \in Time
    BY <1>1, <1>3, <2>1 DEF Time
  <2> QED BY <1>2, <2>1, <2>2, <2>3
<1>5. row' \in [Key -> Row]
  BY <1>1, <1>2, <1>4 DEF TypeOK
<1>6. TypeOK'
  BY <1>1, <1>5, BoundsAssumption DEF TypeOK, loop, Call
<1>7. /\ row'[k].ver = nextVer /\ row'[k].opt = o /\ row'[k].next_run \in Int
      /\ row'[k].locked_until = row[k].locked_until
      /\ \/ row'[k].id = nextVer
         \/ /\ row[k].id # NULL /\ row'[k].id = row[k].id /\ row[k].id < nextVer
            /\ row'[k].id \in Nat
  <2>1. row[k] # Absent => /\ row[k].id # NULL /\ row[k].id < nextVer /\ row[k].id \in Nat
    BY <1>1, IdType DEF Rows
  <2> QED BY <1>2, <1>3, <2>1
<1>8. Rows'
  <2>1. \A j \in Key \ {k} : row[j].id # NULL =>
            /\ row[j].id \in Nat /\ row[j].ver \in Nat
            /\ row[j].id < nextVer /\ row[j].ver < nextVer
            /\ row[j].id # row[k].id
    BY <1>1, IdType DEF Rows
  <2>2. nextVer # NULL
    BY <1>1, NullAssumption
  <2>3. row'[k].id # NULL
    BY <1>7, <2>2
  <2>4. \A j \in Key \ {k} : row[j].id = NULL => row[j].ver = NULL
    BY <1>1, IdType DEF Absent
  <2>5. \A j \in Key \ {k} : row'[j].id # row'[k].id /\ row'[j].ver # row'[k].ver
    BY <1>1, <1>2, <1>7, <2>1, <2>2, <2>3, <2>4
  <2>6. /\ row'[k].ver \in Call /\ row'[k].opt \in Option /\ row'[k].next_run \in Int
        /\ row'[k].id < nextVer' /\ row'[k].ver < nextVer'
    BY <1>1, <1>7
  <2>7. ASSUME NEW i \in Key \ {k}
        PROVE  /\ row'[i].id = NULL => row'[i] = Absent
               /\ row'[i].id # NULL =>
                     /\ row'[i].ver \in Call /\ row'[i].opt \in Option /\ row'[i].next_run \in Int
                     /\ row'[i].id < nextVer' /\ row'[i].ver < nextVer'
                     /\ \A j \in Key : row'[j].id = row'[i].id \/ row'[j].ver = row'[i].ver => j = i
    BY <1>1, <1>2, <2>1, <2>5 DEF Rows
  <2> QED BY <2>3, <2>5, <2>6, <2>7 DEF Rows
<1>9. SameRuns /\ Known'
  BY <1>1, UnchangedRuns, KnownKept
<1>10. Held'
  <2>1. \A v \in Worker, j \in Key : row[j] = tx[v] => row'[j] = row[j]
    BY <1>1, <1>2, LocksRow
  <2>2. now <= now'
    BY <1>1
  <2> QED BY <1>1, <1>6, <2>1, <2>2, NobodyMoves
<1>11. SameRows
  BY <1>2, <1>7 DEF SameRows
<1> QED BY <1>1, <1>6, <1>8, <1>9, <1>10, <1>11 DEF SInv, Calm

LEMMA SInvRemove ==
    ASSUME SInv, NEW K \in SUBSET Key, Remove(K)
    PROVE  SInv' /\ Calm
<1>1. /\ TypeOK /\ Rows /\ Known /\ Held
      /\ UNCHANGED <<now, nextVer, run, loop, faults>>
      /\ \A k \in Key : row'[k] = IF k \in K THEN Absent ELSE row[k]
      /\ row' = [k \in Key |-> IF k \in K THEN Absent ELSE row[k]]
      /\ \A k \in K : ~Locks(k)
      /\ now \in Int
  BY DEF SInv, Remove, TypeOK
<1>2. TypeOK'
  BY <1>1, AbsentType DEF TypeOK, loop
<1>3. Rows'
  BY <1>1, RowsKept
<1>4. SameRuns /\ Known'
  BY <1>1, UnchangedRuns, KnownKept
<1>5. Held'
  <2>1. \A v \in Worker, j \in Key : row[j] = tx[v] => row'[j] = row[j]
    BY <1>1, LocksRow
  <2>2. now <= now'
    BY <1>1
  <2> QED BY <1>1, <1>2, <2>1, <2>2, NobodyMoves
<1>6. SameRows
  BY <1>1, AbsentType DEF SameRows
<1> QED BY <1>1, <1>2, <1>3, <1>4, <1>5, <1>6 DEF SInv, Calm

LEMMA SInvClaimSelect ==
    ASSUME SInv, NEW w \in Worker, ClaimSelect(w)
    PROVE  SInv' /\ Calm
<1>1. PICK k \in Due(w) : Hold(w, row[k], now)
  BY DEF ClaimSelect
<1>2. /\ TypeOK /\ Rows /\ Known /\ Held /\ Goto(w, "claim")
      /\ UNCHANGED <<now, row, nextVer, run, faults>>
      /\ now \in Int
  BY DEF SInv, ClaimSelect, TypeOK
<1>3. /\ k \in Key /\ row[k] \in Row /\ row[k] # NULL /\ row[k].id # NULL /\ ~Locks(k)
      /\ row[k].next_run <= now
      /\ \/ row[k].opt.max_concurrent = NULL
         \/ row[k].locked_until = NULL
         \/ row[k].locked_until <= now
  BY <1>1, <1>2, IdType DEF Due
<1>4. /\ LoopOK' /\ pc'[w] = "claim" /\ tx'[w] = row[k] /\ since'[w] = now
      /\ \A v \in Worker \ {w} : Stands(v)
  <2>1. now \in Time /\ now # NULL /\ "claim" \in Pc
    BY <1>2, NullAssumption DEF Time, Pc
  <2> QED BY <1>1, <1>2, <1>3, <2>1, Moves
<1>5. TypeOK'
  BY <1>2, <1>4 DEF TypeOK, LoopOK, Pc
<1>6. HeldBy(w)'
  <2>1. ASSUME NEW v \in Worker \ {w}, tx'[v] # NULL PROVE tx'[v].id # tx'[w].id
    <3>1. tx'[v] = tx[v] /\ tx[v] # NULL
      BY <1>2, <1>4, <2>1 DEF Stands, TypeOK
    <3> QED BY <1>3, <1>4, <3>1 DEF Locks
  <2> QED BY <1>2, <1>3, <1>4, <2>1 DEF HeldBy
<1>7. Held'
  <2>1. {w} \in SUBSET Worker /\ (\A u \in {w} : HeldBy(u)') /\ now <= now'
    BY <1>2, <1>6
  <2>2. \A v \in Worker \ {w}, j \in Key : row'[j] = row[j]
    BY <1>2
  <2> QED BY <1>2, <1>4, <1>5, <2>1, <2>2, HeldKept
<1>8. SameRuns /\ Known' /\ Rows'
  BY <1>2, UnchangedRuns, KnownKept, RowsKept
<1> QED BY <1>2, <1>5, <1>7, <1>8 DEF SInv, Calm, SameRows

\* A worker that moves on, the rows as they were.
LEMMA SInvMovesOn ==
    ASSUME SInv, NEW w \in Worker, NEW p \in Pc \ {"claim", "down"}, NEW at \in Time,
           Goto(w, p), Hold(w, NULL, at), at # NULL <=> p = "start",
           UNCHANGED <<now, row, nextVer>>, faults' \in 0 .. MaxFaults, SameRuns
    PROVE  SInv' /\ Calm
<1>1. TypeOK /\ Rows /\ Known
  BY DEF SInv
<1>2. row' \in [Key -> Row] /\ run' \in Seq(Run)
  BY <1>1 DEF TypeOK, SameRuns
<1>3. \A v \in Worker \ {w}, k \in Key :
          row[k] = tx[v] => row'[k] = row[k]
  OBVIOUS
<1>4. TypeOK' /\ Held'
  BY <1>2, <1>3, MovesOn
<1>5. Rows' /\ Known'
  BY <1>1, RowsKept, KnownKept
<1> QED BY <1>4, <1>5 DEF SInv, Calm, SameRows

LEMMA PcNames == /\ "poll" \in Pc \ {"claim", "down"} /\ "failed" \in Pc \ {"claim", "down"}
                 /\ "select" \in Pc \ {"claim", "down"} /\ "start" \in Pc \ {"claim", "down"}
                 /\ NULL \in Time /\ \A w \in Worker : AfterNoClaim(w) \in {"poll", "select"}
                 /\ \A w \in Worker : AfterRun(w) \subseteq {"poll", "select"}
BY DEF Pc, Time, AfterNoClaim, AfterRun

LEMMA FaultType == ASSUME TypeOK, Fault PROVE faults' \in 0 .. MaxFaults
BY BoundsAssumption DEF TypeOK, Fault

LEMMA SInvPollEmpty ==
    ASSUME SInv, NEW w \in Worker, PollEmpty(w)
    PROVE  SInv' /\ Calm
<1>1. /\ TypeOK /\ pc[w] = "poll" /\ Goto(w, AfterNoClaim(w)) /\ UNCHANGED <<tx, since>>
      /\ UNCHANGED <<now, row, nextVer, run, faults>> /\ faults' \in 0 .. MaxFaults
  BY DEF SInv, PollEmpty, TypeOK
<1>2. Hold(w, NULL, NULL) /\ SameRuns
  BY <1>1, SameHold, UnchangedRuns
<1> QED BY <1>1, <1>2, PcNames, SInvMovesOn

LEMMA SInvClaimAbort ==
    ASSUME SInv, NEW w \in Worker, ClaimAbort(w)
    PROVE  SInv' /\ Calm
<1>1. /\ TypeOK /\ Goto(w, AfterNoClaim(w)) /\ Hold(w, NULL, NULL)
      /\ UNCHANGED <<now, row, nextVer, run>> /\ Fault
  BY DEF SInv, ClaimAbort
<1>2. faults' \in 0 .. MaxFaults /\ SameRuns
  BY <1>1, FaultType, UnchangedRuns
<1> QED BY <1>1, <1>2, PcNames, SInvMovesOn

LEMMA SInvSelectTimeout ==
    ASSUME SInv, NEW w \in Worker, SelectTimeout(w)
    PROVE  SInv' /\ Calm
<1>1. /\ TypeOK /\ pc[w] = "select" /\ Goto(w, "poll") /\ UNCHANGED <<tx, since>>
      /\ UNCHANGED <<now, row, nextVer, run, faults>> /\ faults' \in 0 .. MaxFaults
  BY DEF SInv, SelectTimeout, TypeOK
<1>2. Hold(w, NULL, NULL) /\ SameRuns
  BY <1>1, SameHold, UnchangedRuns
<1> QED BY <1>1, <1>2, PcNames, SInvMovesOn

LEMMA SInvFork ==
    ASSUME SInv, NEW w \in Worker, NEW r \in Runs, Fork(w, r)
    PROVE  SInv' /\ Calm
<1>1. /\ TypeOK /\ run[r].phase = "claimed" /\ Hold(w, NULL, NULL)
      /\ Goto(w, IF Concurrency[w] = 1 THEN "select" ELSE "poll")
      /\ UNCHANGED <<now, row, nextVer>> /\ faults' \in 0 .. MaxFaults
      /\ run' = [run EXCEPT ![r].phase = "running", ![r].at = now]
      /\ now \in Int
  BY DEF SInv, Fork, TypeOK
<1>2. run[r] \in Run
  BY <1>1, RunType
<1> DEFINE e == [run[r] EXCEPT !.phase = "running", !.at = now]
<1>3. /\ e \in Run /\ e.id = run[r].id /\ e.ver = run[r].ver /\ e.due = run[r].due
      /\ e.claimed = run[r].claimed /\ e.until = run[r].until /\ e.late = run[r].late
  BY <1>1, <1>2 DEF Run
<1>4. run' = [run EXCEPT ![r] = e] /\ run[r].phase # "over"
  BY <1>1, <1>2 DEF Run
<1> HIDE DEF e
<1>5. SameRuns
  BY <1>1, <1>3, <1>4, OneRun
<1> QED BY <1>1, <1>5, PcNames, SInvMovesOn

LEMMA SInvStartFail ==
    ASSUME SInv, NEW w \in Worker, NEW r \in Runs, StartFail(w, r)
    PROVE  SInv' /\ Calm
<1>1. /\ TypeOK /\ run[r].phase = "claimed" /\ Hold(w, NULL, NULL) /\ Goto(w, "failed")
      /\ UNCHANGED <<now, row, nextVer>> /\ faults' \in 0 .. MaxFaults
      /\ run' = [run EXCEPT ![r].phase = "exited"]
  BY DEF SInv, StartFail, TypeOK
<1>2. run[r] \in Run
  BY <1>1, RunType
<1> DEFINE e == [run[r] EXCEPT !.phase = "exited"]
<1>3. /\ e \in Run /\ e.id = run[r].id /\ e.ver = run[r].ver /\ e.due = run[r].due
      /\ e.claimed = run[r].claimed /\ e.until = run[r].until /\ e.late = run[r].late
  BY <1>2 DEF Run
<1>4. run' = [run EXCEPT ![r] = e] /\ run[r].phase # "over"
  BY <1>1
<1> HIDE DEF e
<1>5. SameRuns
  BY <1>1, <1>3, <1>4, OneRun
<1> QED BY <1>1, <1>5, PcNames, SInvMovesOn

\* Nothing but the runs and the clock changes.
LEMMA SInvStill ==
    ASSUME SInv, UNCHANGED <<row, nextVer, loop, faults>>, now <= now', now' \in 0 .. MaxTime,
           SameRuns
    PROVE  SInv'
<1>1. TypeOK /\ Rows /\ Known
  BY DEF SInv
<1>2. TypeOK'
  BY <1>1 DEF TypeOK, loop, SameRuns
<1>3. Held'
  BY <1>2, NobodyMoves
<1>4. Rows' /\ Known'
  BY <1>1, RowsKept, KnownKept
<1> QED BY <1>2, <1>3, <1>4 DEF SInv

LEMMA SInvChildExit ==
    ASSUME SInv, NEW r \in Runs, ChildExit(r)
    PROVE  SInv' /\ Calm
<1>1. /\ TypeOK /\ run[r].phase = "running" /\ now \in 0 .. MaxTime /\ now <= now
      /\ UNCHANGED <<now, row, nextVer, loop, faults>>
      /\ run' = [run EXCEPT ![r].phase = IF run[r].parent = NULL THEN "over" ELSE "exited"]
  BY BoundsAssumption DEF SInv, ChildExit, Alive, TypeOK
<1>2. run[r] \in Run
  BY <1>1, RunType
<1> DEFINE e == [run[r] EXCEPT !.phase = IF run[r].parent = NULL THEN "over" ELSE "exited"]
<1>3. /\ e \in Run /\ e.id = run[r].id /\ e.ver = run[r].ver /\ e.due = run[r].due
      /\ e.claimed = run[r].claimed /\ e.until = run[r].until /\ e.late = run[r].late
  BY <1>2 DEF Run
<1>4. run' = [run EXCEPT ![r] = e] /\ run[r].phase # "over"
  BY <1>1
<1> HIDE DEF e
<1>5. SameRuns
  BY <1>1, <1>3, <1>4, OneRun
<1> QED BY <1>1, <1>5, SInvStill DEF Calm, SameRows

\* The run whose lease is cleared, or was to be, is over.
LEMMA OverRuns ==
    ASSUME TypeOK, NEW w \in Worker, NEW r \in Ended(w), Over(r)
    PROVE  /\ SameRuns /\ r \in Runs /\ run'[r].phase = "over"
           /\ \A s \in Runs \ {r} : run'[s] = run[s]
<1>1. /\ r \in Runs /\ run[r].phase = "exited"
      /\ run' = [run EXCEPT ![r].phase = "over", ![r].parent = NULL]
  BY DEF Ended, Mine, Over
<1>2. run[r] \in Run
  BY <1>1, RunType
<1> DEFINE e == [run[r] EXCEPT !.phase = "over", !.parent = NULL]
<1>3. /\ e \in Run /\ e.id = run[r].id /\ e.ver = run[r].ver /\ e.due = run[r].due
      /\ e.claimed = run[r].claimed /\ e.until = run[r].until /\ e.late = run[r].late
      /\ e.phase = "over"
  BY <1>2 DEF Run
<1>4. run' = [run EXCEPT ![r] = e] /\ run[r].phase # "over"
  BY <1>1, <1>2 DEF Run
<1> HIDE DEF e
<1> QED BY <1>1, <1>3, <1>4, OneRun

LEMMA SInvUnlockFail ==
    ASSUME SInv, NEW w \in Worker, NEW r \in Runs, UnlockFail(w, r)
    PROVE  SInv' /\ Calm
<1>1. /\ TypeOK /\ r \in Ended(w) /\ Fault /\ Over(r) /\ UNCHANGED <<tx, since>>
      /\ UNCHANGED <<now, row, nextVer>> /\ pc[w] \notin {"claim", "start", "down"}
  BY DEF SInv, UnlockFail, Ended
<1>2. PICK to \in AfterRun(w) : Goto(w, to)
  BY DEF UnlockFail
<1>3. Hold(w, NULL, NULL) /\ SameRuns /\ faults' \in 0 .. MaxFaults
  BY <1>1, SameHold, OverRuns, FaultType
<1> QED BY <1>1, <1>2, <1>3, PcNames, SInvMovesOn

\* What an unlock writes: the lease of the run's row, if it had one.
LEMMA UnlockRows ==
    ASSUME SInv, NEW w \in Worker, NEW r \in Runs, Unlock(w, r)
    PROVE  /\ row' \in [Key -> Row]
           /\ \A k \in Key : \/ row'[k] = row[k]
                             \/ /\ ~Locks(k) /\ row[k].id = run[r].id /\ run[r].until # NULL
                                /\ row[k].id # NULL /\ row'[k].id = row[k].id
                                /\ row'[k].ver = row[k].ver /\ row'[k].opt = row[k].opt
                                /\ row'[k].next_run = row[k].next_run
                                /\ row'[k].next_run \in Int
<1>1. TypeOK /\ Rows /\ row \in [Key -> Row] /\ run[r].id # NULL
  BY RunType, NullAssumption DEF SInv, TypeOK
<1>2. CASE run[r].until = NULL
  BY <1>1, <1>2 DEF Unlock
<1>3. CASE run[r].until # NULL
  <2>1. /\ \A k \in Key : row[k].id = run[r].id => ~Locks(k)
        /\ row' = [k \in Key |-> IF row[k].id # run[r].id THEN row[k]
                                 ELSE [row[k] EXCEPT !.locked_until = NULL]]
    BY <1>3 DEF Unlock
  <2>2. ASSUME NEW k \in Key
        PROVE  LET u == [row[k] EXCEPT !.locked_until = NULL]
               IN  /\ u \in Row /\ u.id = row[k].id /\ u.ver = row[k].ver
                   /\ u.opt = row[k].opt /\ u.next_run = row[k].next_run
    BY <1>1 DEF Row, Time
  <2>3. row' \in [Key -> Row]
    BY <1>1, <2>1, <2>2
  <2>4. ASSUME NEW k \in Key, row'[k] # row[k]
        PROVE  /\ ~Locks(k) /\ row[k].id = run[r].id /\ run[r].until # NULL
               /\ row[k].id # NULL /\ row'[k].id = row[k].id
               /\ row'[k].ver = row[k].ver /\ row'[k].opt = row[k].opt
               /\ row'[k].next_run = row[k].next_run
               /\ row'[k].next_run \in Int
    BY <1>1, <1>3, <2>1, <2>2, <2>4 DEF Rows
  <2> QED BY <2>3, <2>4
<1> QED BY <1>2, <1>3

LEMMA SInvUnlock ==
    ASSUME SInv, NEW w \in Worker, NEW r \in Runs, Unlock(w, r)
    PROVE  SInv' /\ SameRuns
<1>1. /\ TypeOK /\ Rows /\ Known /\ r \in Ended(w) /\ Over(r) /\ UNCHANGED <<tx, since>>
      /\ UNCHANGED <<now, nextVer, faults>> /\ pc[w] \notin {"claim", "start", "down"}
      /\ faults' \in 0 .. MaxFaults
  BY DEF SInv, Unlock, Ended, TypeOK
<1>2. PICK to \in AfterRun(w) : Goto(w, to)
  BY DEF Unlock
<1>3. Hold(w, NULL, NULL) /\ SameRuns
  BY <1>1, SameHold, OverRuns
<1>4. run' \in Seq(Run)
  BY <1>3 DEF SameRuns
<1>5. \A v \in Worker \ {w}, k \in Key : row[k] = tx[v] => row'[k] = row[k]
  BY UnlockRows, LocksRow
<1>6. row' \in [Key -> Row]
  BY UnlockRows
<1>7. to \in Pc \ {"claim", "down"} /\ to # "start" /\ NULL \in Time
  BY <1>2, PcNames
<1>8. TypeOK' /\ Held'
  BY <1>1, <1>2, <1>3, <1>4, <1>5, <1>6, <1>7, MovesOn
<1>9. Rows'
  <2>1. \A k \in Key :
              \/ row'[k] = row[k]
              \/ row'[k] = Absent
              \/ /\ row[k].id # NULL /\ row'[k].id = row[k].id /\ row'[k].ver = row[k].ver
                 /\ row'[k].opt = row[k].opt /\ row'[k].next_run \in Int
    BY UnlockRows
  <2> QED BY <1>1, <2>1, RowsKept
<1>10. Known'
  BY <1>1, <1>3, KnownKept
<1> QED BY <1>3, <1>8, <1>9, <1>10 DEF SInv

LEMMA SInvCrash ==
    ASSUME SInv, NEW w \in Worker, Crash(w)
    PROVE  SInv' /\ Calm
<1>1. /\ TypeOK /\ Rows /\ Known /\ Held /\ Hold(w, tx[w], NULL)
      /\ Goto(w, IF tx[w] = NULL THEN "poll" ELSE "down")
      /\ UNCHANGED <<now, row, nextVer>> /\ Fault
      /\ run' = [r \in Runs |->
                   IF run[r].parent # w THEN run[r]
                   ELSE [run[r] EXCEPT !.parent = NULL,
                                       !.phase = IF @ = "running" THEN @ ELSE "over"]]
  BY DEF SInv, Crash
<1>2. ASSUME NEW r \in Runs
      PROVE  /\ run'[r] \in Run
             /\ run'[r].id = run[r].id /\ run'[r].ver = run[r].ver /\ run'[r].due = run[r].due
             /\ run'[r].claimed = run[r].claimed /\ run'[r].until = run[r].until
             /\ run'[r].late = run[r].late
             /\ run'[r].phase # "over" => run[r].phase # "over"
  <2>1. run[r] \in Run
    BY <1>1, RunType
  <2> DEFINE e == [run[r] EXCEPT
                     !.parent = NULL,
                     !.phase = IF run[r].phase = "running" THEN run[r].phase ELSE "over"]
  <2>2. /\ e \in Run /\ e.id = run[r].id /\ e.ver = run[r].ver /\ e.due = run[r].due
        /\ e.claimed = run[r].claimed /\ e.until = run[r].until /\ e.late = run[r].late
        /\ e.phase # "over" => run[r].phase # "over"
    BY <2>1 DEF Run
  <2>3. run'[r] = run[r] \/ run'[r] = e
    BY <1>1
  <2> HIDE DEF e
  <2> QED BY <2>1, <2>2, <2>3
<1>3. SameRuns
  BY <1>1, <1>2, MapRuns DEF SameRuns
<1>4. faults' \in 0 .. MaxFaults
  BY <1>1, FaultType
<1>5. CASE tx[w] = NULL
  BY <1>1, <1>3, <1>4, <1>5, PcNames, SInvMovesOn
<1>6. CASE tx[w] # NULL
  <2>1. LoopOK' /\ tx'[w] = tx[w] /\ pc'[w] = "down" /\ \A v \in Worker \ {w} : Stands(v)
    <3>1. "down" \in Pc /\ NULL \in Time /\ tx[w] \in Row \cup {NULL} /\ Goto(w, "down")
      BY <1>1, <1>6 DEF Pc, Time, TypeOK
    <3> QED BY <1>1, <1>6, <3>1, Moves
  <2>2. TypeOK' /\ now <= now'
    <3>1. run' \in Seq(Run)
      BY <1>3 DEF SameRuns
    <3>2. UNCHANGED <<now, row, nextVer>>
      BY DEF Crash
    <3>3. now \in 0 .. MaxTime /\ nextVer \in 1 .. MaxCalls + 1 /\ row \in [Key -> Row]
      BY DEF SInv, TypeOK
    <3>4. now <= now' /\ now' \in 0 .. MaxTime
      BY <3>2, <3>3, BoundsAssumption
    <3> QED BY <1>4, <2>1, <3>1, <3>2, <3>3, <3>4 DEF TypeOK, LoopOK, Pc
  <2>3. HeldBy(w)'
    <3>1. HeldBy(w) /\ pc'[w] # "claim" /\ \A v \in Worker \ {w} : tx'[v] = tx[v]
      BY <1>1, <2>1 DEF Held, Stands
    <3> QED BY <1>1, <2>1, <3>1 DEF HeldBy
  <2>4. {w} \in SUBSET Worker /\ (\A u \in {w} : HeldBy(u)') /\ \A j \in Key : row'[j] = row[j]
    BY <1>1, <2>3
  <2>5. Held'
    BY <1>1, <2>1, <2>2, <2>4, HeldKept
  <2>6. Rows' /\ Known'
    BY <1>1, <1>3, RowsKept, KnownKept
  <2> QED BY <1>1, <1>3, <2>2, <2>5, <2>6 DEF SInv, Calm, SameRows
<1> QED BY <1>5, <1>6

LEMMA SInvSessionEnds ==
    ASSUME SInv, NEW w \in Worker, SessionEnds(w)
    PROVE  SInv' /\ Calm
<1>1. /\ TypeOK /\ Goto(w, "poll") /\ Hold(w, NULL, NULL)
      /\ UNCHANGED <<now, row, nextVer, run>> /\ faults' \in 0 .. MaxFaults
  BY DEF SInv, TypeOK, SessionEnds
<1> QED BY <1>1, UnchangedRuns, PcNames, SInvMovesOn

LEMMA SInvTick ==
    ASSUME SInv, Tick
    PROVE  /\ SInv' /\ SameRuns /\ UNCHANGED row
           /\ \A r \in Runs : run'[r].phase = run[r].phase
           /\ \A r \in Runs : run[r].phase # "over" /\ RanOut(run[r].until, now') => run'[r].late
<1>1. /\ TypeOK /\ now \in 0 .. MaxTime /\ now < MaxTime /\ now' = now + 1
      /\ UNCHANGED <<row, nextVer, loop, faults>>
      /\ run' = [r \in Runs |-> [run[r] EXCEPT !.late =
                    run[r].late \/ (run[r].phase # "over" /\ RanOut(run[r].until, now'))]]
  BY DEF SInv, Tick, TypeOK
<1>2. now <= now' /\ now' \in 0 .. MaxTime
  BY <1>1, BoundsAssumption
<1>3. ASSUME NEW r \in Runs
      PROVE  /\ run'[r] \in Run
             /\ run'[r].id = run[r].id /\ run'[r].ver = run[r].ver /\ run'[r].due = run[r].due
             /\ run'[r].claimed = run[r].claimed /\ run'[r].until = run[r].until
             /\ run'[r].phase = run[r].phase
             /\ run[r].late => run'[r].late
             /\ run[r].phase # "over" /\ RanOut(run[r].until, now') => run'[r].late
  <2> DEFINE l == run[r].late \/ (run[r].phase # "over" /\ RanOut(run[r].until, now'))
  <2>1. run[r] \in Run /\ l \in BOOLEAN
    BY <1>1, RunType
  <2>2. /\ run[r].late => l
        /\ run[r].phase # "over" /\ RanOut(run[r].until, now') => l
    OBVIOUS
  <2>3. run'[r] = [run[r] EXCEPT !.late = l]
    BY <1>1
  <2> HIDE DEF l
  <2>4. run'[r].late = l
    BY <2>1, <2>3 DEF Run
  <2>5. /\ run'[r] \in Run
        /\ run'[r].id = run[r].id /\ run'[r].ver = run[r].ver /\ run'[r].due = run[r].due
        /\ run'[r].claimed = run[r].claimed /\ run'[r].until = run[r].until
        /\ run'[r].phase = run[r].phase
    BY <2>1, <2>3 DEF Run
  <2> QED BY <2>2, <2>4, <2>5, Zenon
<1>4. SameRuns
  <2>1. now' # now
    BY <1>1
  <2> QED BY <1>1, <1>3, <2>1, MapRuns DEF SameRuns
<1>5. SInv'
  BY <1>1, <1>2, <1>4, SInvStill
<1> QED BY <1>1, <1>3, <1>4, <1>5

\* What a claim writes: the row it has locked, as it read it but for the next
\* run and the lease.
ClaimWrites(w, k) ==
    /\ row[k] = tx[w] /\ row[k].id # NULL
    /\ row'[k].id = row[k].id /\ row'[k].ver = row[k].ver /\ row'[k].opt = row[k].opt
    /\ row'[k].next_run = Advanced(w, row[k].opt)
    /\ row'[k].locked_until = IF row[k].opt.max_concurrent = NULL THEN row[k].locked_until
                              ELSE LeaseEnd(w, row[k].opt)
    /\ \A j \in Key \ {k} : row'[j] = row[j] /\ row[j].id # row[k].id

LEMMA ClaimType ==
    ASSUME SInv, NEW w \in Worker, pc[w] = "claim"
    PROVE  /\ tx[w] \in Row /\ tx[w].id \in Call /\ tx[w].ver \in Call /\ tx[w].opt \in Option
           /\ tx[w].next_run \in Int /\ since[w] \in Int /\ now \in Int
           /\ Advanced(w, tx[w].opt) \in Int /\ LeaseEnd(w, tx[w].opt) \in Time
           /\ Effective(tx[w].opt) \in Nat
           /\ tx[w].id < nextVer /\ tx[w].ver < nextVer
           /\ tx[w].opt.max_concurrent = NULL => LeaseEnd(w, tx[w].opt) = NULL
<1>1. TypeOK /\ Rows /\ HeldBy(w) /\ tx[w] # NULL
  BY DEF SInv, Held, TypeOK
<1>2. PICK k \in Key : row[k] = tx[w]
  BY <1>1 DEF HeldBy
<1>3. since[w] \in Int /\ now \in Int
  BY <1>1 DEF TypeOK, Time
<1>4. /\ row[k] \in Row /\ row[k].id \in Call /\ row[k].ver \in Call /\ row[k].opt \in Option
      /\ row[k].next_run \in Int /\ row[k].id < nextVer /\ row[k].ver < nextVer
  BY <1>1, <1>2, IdType DEF HeldBy, Rows
<1> QED BY <1>2, <1>3, <1>4, AdvancedType, OptionType

LEMMA AdvanceRows ==
    ASSUME SInv, NEW w \in Worker, pc[w] = "claim", Advance(w)
    PROVE  row' \in [Key -> Row] /\ \E k \in Key : ClaimWrites(w, k)
<1>1. TypeOK /\ Rows /\ HeldBy(w) /\ tx[w] # NULL /\ row \in [Key -> Row]
  BY DEF SInv, Held, TypeOK
<1>2. PICK k \in Key : row[k] = tx[w] /\ row[k].id # NULL
  BY <1>1 DEF HeldBy
<1>3. \A j \in Key \ {k} : row[j].id # row[k].id
  BY <1>1, <1>2 DEF Rows
<1> DEFINE o == tx[w].opt
           until == IF o.max_concurrent = NULL THEN row[k].locked_until ELSE LeaseEnd(w, o)
           e == [row[k] EXCEPT !.next_run = Advanced(w, o), !.locked_until = until]
<1>4. row' = [j \in Key |-> IF j = k THEN e ELSE row[j]]
  BY <1>2, <1>3 DEF Advance
<1>5. Advanced(w, o) \in Time /\ until \in Time
  BY <1>1, ClaimType DEF Time, Row
<1> HIDE DEF until
<1>6. /\ e \in Row /\ e.id = row[k].id /\ e.ver = row[k].ver /\ e.opt = row[k].opt
      /\ e.next_run = Advanced(w, o) /\ e.locked_until = until
  BY <1>1, <1>5 DEF Row
<1> HIDE DEF e
<1>7. row' \in [Key -> Row] /\ row'[k] = e /\ \A j \in Key \ {k} : row'[j] = row[j]
  BY <1>1, <1>4, <1>6
<1>8. ClaimWrites(w, k)
  BY <1>2, <1>3, <1>6, <1>7 DEF ClaimWrites, until
<1> QED BY <1>7, <1>8

\* The run a claim adds.
NewClaim(w, e) ==
    /\ e \in Run /\ e.id = tx[w].id /\ e.ver = tx[w].ver /\ e.due = tx[w].next_run
    /\ e.claimed = since[w] /\ e.until = LeaseEnd(w, tx[w].opt)
    /\ e.late = RanOut(e.until, now)

LEMMA NewClaimType ==
    ASSUME SInv, NEW w \in Worker, pc[w] = "claim"
    PROVE  /\ NewClaim(w, Claimed(w))
           /\ NewClaim(w, [Claimed(w) EXCEPT !.parent = NULL, !.phase = "over"])
<1> DEFINE l == RanOut(LeaseEnd(w, tx[w].opt), now)
           c == [id |-> tx[w].id, ver |-> tx[w].ver, limit |-> Effective(tx[w].opt),
                 due |-> tx[w].next_run, claimed |-> since[w], at |-> since[w],
                 until |-> LeaseEnd(w, tx[w].opt), late |-> l,
                 parent |-> w, phase |-> "claimed"]
           d == [c EXCEPT !.parent = NULL, !.phase = "over"]
<1>1. Claimed(w) = c
  BY DEF Claimed
<1>2. l \in BOOLEAN
  BY DEF RanOut
<1> HIDE DEF l
<1>3. /\ c \in Run /\ c.id = tx[w].id /\ c.ver = tx[w].ver /\ c.due = tx[w].next_run
      /\ c.claimed = since[w] /\ c.until = LeaseEnd(w, tx[w].opt)
  BY <1>2, ClaimType DEF Run
<1>4. c.late = l
  BY Zenon
<1> HIDE DEF c
<1>5. /\ d \in Run /\ d.id = tx[w].id /\ d.ver = tx[w].ver /\ d.due = tx[w].next_run
      /\ d.claimed = since[w] /\ d.until = LeaseEnd(w, tx[w].opt) /\ d.late = c.late
  BY <1>3 DEF Run
<1> HIDE DEF d
<1>6. c.late = RanOut(c.until, now) /\ d.late = RanOut(d.until, now)
  BY <1>3, <1>4, <1>5 DEF l
<1>7. NewClaim(w, c) /\ NewClaim(w, d)
  BY <1>3, <1>5, <1>6 DEF NewClaim
<1> QED BY <1>1, <1>7 DEF d

\* The claim commits, whether or not the worker learns of it.
Commits(w) ==
    /\ pc[w] = "claim" /\ Advance(w) /\ UNCHANGED <<now, nextVer>>
    /\ \E e \in Run : NewClaim(w, e) /\ run' = Append(run, e)

LEMMA SInvCommits ==
    ASSUME SInv, NEW w \in Worker, Commits(w), NEW p \in Pc \ {"claim", "down"}, NEW at \in Time,
           Goto(w, p), Hold(w, NULL, at), at # NULL <=> p = "start", faults' \in 0 .. MaxFaults
    PROVE  SInv'
<1>1. /\ TypeOK /\ Rows /\ Known /\ Held /\ pc[w] = "claim" /\ Advance(w)
      /\ UNCHANGED <<now, nextVer>> /\ run \in Seq(Run)
  BY DEF SInv, Commits, TypeOK
<1>2. PICK e \in Run : NewClaim(w, e) /\ run' = Append(run, e)
  BY DEF Commits
<1>3. /\ run' \in Seq(Run) /\ DOMAIN run' = Runs \cup {Len(run) + 1}
      /\ run'[Len(run) + 1] = e /\ \A s \in Runs : run'[s] = run[s]
  BY <1>1, <1>2, NewRun
<1>4. row' \in [Key -> Row]
  BY <1>1, AdvanceRows
<1>5. PICK k \in Key : ClaimWrites(w, k)
  BY <1>1, AdvanceRows
<1>6. \A v \in Worker \ {w}, j \in Key : row[j] = tx[v] => row'[j] = row[j]
  <2>1. tx[w] # NULL /\ \A j \in Key : row[j] # NULL
    BY <1>1, RowAssumption DEF TypeOK
  <2> QED BY <1>1, <1>5, <2>1 DEF Held, HeldBy, ClaimWrites
<1>7. TypeOK' /\ Held'
  BY <1>1, <1>3, <1>4, <1>6, MovesOn
<1>8. Rows'
  <2>1. Advanced(w, row[k].opt) \in Int
    BY <1>1, <1>5, ClaimType DEF ClaimWrites
  <2>2. \A j \in Key :
              \/ row'[j] = row[j]
              \/ row'[j] = Absent
              \/ /\ row[j].id # NULL /\ row'[j].id = row[j].id /\ row'[j].ver = row[j].ver
                 /\ row'[j].opt = row[j].opt /\ row'[j].next_run \in Int
    BY <1>5, <2>1 DEF ClaimWrites
  <2> QED BY <1>1, <2>2, RowsKept
<1>9. Known'
  <2>1. e.id < nextVer /\ e.ver < nextVer
    BY <1>1, <1>2, ClaimType DEF NewClaim
  <2>2. ASSUME NEW r \in Runs' PROVE run'[r].id < nextVer' /\ run'[r].ver < nextVer'
    BY <1>1, <1>3, <2>1, <2>2 DEF Known, Runs
  <2> QED BY <2>2 DEF Known
<1> QED BY <1>7, <1>8, <1>9 DEF SInv

LEMMA SInvClaimCommit ==
    ASSUME SInv, NEW w \in Worker, ClaimCommit(w)
    PROVE  SInv' /\ Commits(w)
<1>1. /\ pc[w] = "claim" /\ Advance(w) /\ run' = Append(run, Claimed(w))
      /\ Hold(w, NULL, since[w]) /\ Goto(w, "start") /\ UNCHANGED <<now, nextVer, faults>>
      /\ faults' \in 0 .. MaxFaults
  BY DEF SInv, TypeOK, ClaimCommit
<1>2. Commits(w)
  BY <1>1, NewClaimType DEF Commits, NewClaim
<1>3. since[w] \in Time /\ since[w] # NULL
  BY <1>1, ClaimType, NullAssumption DEF Time
<1> QED BY <1>1, <1>2, <1>3, PcNames, SInvCommits

LEMMA SInvClaimLost ==
    ASSUME SInv, NEW w \in Worker, ClaimLost(w)
    PROVE  SInv' /\ Commits(w)
<1>1. /\ pc[w] = "claim" /\ Advance(w) /\ Fault /\ UNCHANGED <<now, nextVer>>
      /\ run' = Append(run, [Claimed(w) EXCEPT !.parent = NULL, !.phase = "over"])
      /\ Hold(w, NULL, NULL) /\ Goto(w, AfterNoClaim(w)) /\ TypeOK
  BY DEF SInv, ClaimLost
<1>2. Commits(w)
  BY <1>1, NewClaimType DEF Commits, NewClaim
<1>3. faults' \in 0 .. MaxFaults
  BY <1>1, FaultType
<1> QED BY <1>1, <1>2, <1>3, PcNames, SInvCommits

LEMMA InitSInv == Init => SInv
<1> SUFFICES ASSUME Init PROVE SInv
  OBVIOUS
<1>1. /\ now = 0 /\ nextVer = 1 /\ faults = 0 /\ run = << >>
      /\ row \in [Key -> Row] /\ \A k \in Key : row[k] = Absent
      /\ pc \in [Worker -> Pc] /\ \A w \in Worker : pc[w] = "poll"
      /\ tx \in [Worker -> Row \cup {NULL}] /\ \A w \in Worker : tx[w] = NULL
      /\ since \in [Worker -> Time] /\ \A w \in Worker : since[w] = NULL
  BY AbsentType DEF Init, Pc, Time
<1>2. run \in Seq(Run) /\ Runs = {}
  BY <1>1 DEF Runs
<1>3. now \in 0 .. MaxTime /\ nextVer \in 1 .. MaxCalls + 1 /\ faults \in 0 .. MaxFaults
  BY <1>1, BoundsAssumption
<1>4. TypeOK
  BY <1>1, <1>2, <1>3 DEF TypeOK, Pc
<1>5. Rows
  BY <1>1, AbsentType DEF Rows
<1>6. Known /\ Held
  BY <1>1, <1>2 DEF Known, Held, HeldBy
<1> QED BY <1>4, <1>5, <1>6 DEF SInv

\* Every step keeps the structure, and is one of four kinds.
LEMMA Steps ==
    ASSUME SInv, [Next]_vars
    PROVE  /\ SInv'
           /\ \/ Calm
              \/ SameRuns /\ \E w \in Worker, r \in Runs : Unlock(w, r)
              \/ Tick
              \/ \E w \in Worker : Commits(w)
<1>1. CASE UNCHANGED vars
  <2>1. /\ UNCHANGED <<row, nextVer, loop, faults>> /\ now' = now /\ run' = run
        /\ now \in 0 .. MaxTime /\ now <= now /\ TypeOK
    BY <1>1, BoundsAssumption DEF vars, SInv, TypeOK
  <2>2. SameRuns
    BY <2>1, UnchangedRuns
  <2> QED BY <2>1, <2>2, SInvStill DEF Calm, SameRows
<1>2. ASSUME NEW k \in Key, NEW o \in Option, NEW lag \in Lag, Schedule(k, o, lag) PROVE SInv' /\ Calm
  BY <1>2, SInvSchedule
<1>3. ASSUME NEW k \in Key, Unschedule(k) PROVE SInv' /\ Calm
  BY <1>3, SInvRemove DEF Unschedule
<1>4. CASE ClearAll
  <2>1. {k \in Key : row[k] # Absent} \in SUBSET Key
    OBVIOUS
  <2> QED BY <1>4, <2>1, SInvRemove DEF ClearAll
<1>5. CASE Exit
  BY <1>5, SInvChildExit DEF Exit
<1>6. CASE Tick
  BY <1>6, SInvTick
<1>7. ASSUME NEW w \in Worker, Work(w)
      PROVE  SInv' /\ (Calm \/ (SameRuns /\ \E r \in Runs : Unlock(w, r)) \/ Commits(w))
  <2>1. CASE ClaimSelect(w)
    BY <2>1, SInvClaimSelect
  <2>2. CASE PollEmpty(w)
    BY <2>2, SInvPollEmpty
  <2>3. CASE ClaimCommit(w)
    BY <2>3, SInvClaimCommit
  <2>4. CASE SelectTimeout(w)
    BY <2>4, SInvSelectTimeout
  <2>5. ASSUME NEW r \in Runs, Fork(w, r) PROVE SInv' /\ Calm
    BY <2>5, SInvFork
  <2>6. ASSUME NEW r \in Runs, StartFail(w, r) PROVE SInv' /\ Calm
    BY <2>6, SInvStartFail
  <2>7. ASSUME NEW r \in Runs, Unlock(w, r) PROVE SInv' /\ SameRuns
    BY <2>7, SInvUnlock
  <2> QED BY <1>7, <2>1, <2>2, <2>3, <2>4, <2>5, <2>6, <2>7 DEF Work
<1>8. ASSUME NEW w \in Worker, Break(w) PROVE SInv' /\ (Calm \/ Commits(w))
  <2>1. CASE ClaimAbort(w)
    BY <2>1, SInvClaimAbort
  <2>2. CASE ClaimLost(w)
    BY <2>2, SInvClaimLost
  <2>3. CASE Crash(w)
    BY <2>3, SInvCrash
  <2>4. CASE SessionEnds(w)
    BY <2>4, SInvSessionEnds
  <2>5. ASSUME NEW r \in Runs, UnlockFail(w, r) PROVE SInv' /\ Calm
    BY <2>5, SInvUnlockFail
  <2> QED BY <1>8, <2>1, <2>2, <2>3, <2>4, <2>5 DEF Break
<1> QED BY <1>1, <1>2, <1>3, <1>4, <1>5, <1>6, <1>7, <1>8 DEF Next
-----------------------------------------------------------------------------
(* The schedules move ahead of their runs *)

LEMMA AdvancingKept ==
    ASSUME SInv, Advancing, TicksSkipped, SameRuns,
           \A k \in Key : row'[k].id # NULL =>
              \/ /\ row[k].id # NULL /\ row'[k].ver = row[k].ver
                 /\ row'[k].next_run = row[k].next_run
              \/ row'[k].ver = nextVer
    PROVE  Advancing' /\ TicksSkipped'
<1>1. TypeOK /\ Known /\ Runs' = Runs /\ nextVer \in Nat
  BY BoundsAssumption DEF SInv, SameRuns, Runs, TypeOK
<1>2. ASSUME NEW k \in Key, NEW r \in Runs, row'[k].id # NULL, run'[r].ver = row'[k].ver
      PROVE  run'[r].claimed < row'[k].next_run
  <2>1. run'[r].ver = run[r].ver /\ run'[r].claimed = run[r].claimed
    BY DEF SameRuns
  <2>2. run[r].ver # nextVer
    BY <1>1, RunType DEF Known
  <2> QED BY <1>2, <2>1, <2>2 DEF Advancing
<1>3. TicksSkipped'
  BY <1>1 DEF TicksSkipped, SameRuns
<1> QED BY <1>1, <1>2, <1>3 DEF Advancing

\* No worker's clock is behind the database's.
ClocksNotBehind == \A w \in Worker : Skew[w] >= 0

LEMMA AdvancedLater ==
    ASSUME ClocksNotBehind, NEW w \in Worker, NEW o \in Option, since[w] \in Int
    PROVE  Advanced(w, o) \in Int /\ since[w] < Advanced(w, o)
<1>1. /\ o.run_every \in Nat /\ o.cron \in Nat /\ (o.run_every = 0) # (o.cron = 0)
      /\ Skew[w] \in Int /\ Skew[w] >= 0
  BY OptionType, WorkerAssumption DEF ClocksNotBehind
<1>2. CASE o.cron = 0
  BY <1>1, <1>2 DEF Advanced
<1>3. CASE o.cron # 0
  <2>1. o.cron \in Nat \ {0} /\ since[w] + Skew[w] \in Int /\ since[w] <= since[w] + Skew[w]
    BY <1>1, <1>3
  <2>2. /\ NextInstant(o.cron, since[w] + Skew[w]) \in Int
        /\ since[w] + Skew[w] < NextInstant(o.cron, since[w] + Skew[w])
    BY <2>1, NextInstantLater
  <2>3. Advanced(w, o) = NextInstant(o.cron, since[w] + Skew[w])
    BY <1>3 DEF Advanced
  <2> QED BY <2>1, <2>2, <2>3
<1> QED BY <1>2, <1>3

LEMMA AdvancingCommits ==
    ASSUME SInv, Advancing, TicksSkipped, ClocksNotBehind, NEW w \in Worker, Commits(w)
    PROVE  Advancing' /\ TicksSkipped'
<1>1. /\ TypeOK /\ Rows /\ Known /\ HeldBy(w) /\ pc[w] = "claim" /\ run \in Seq(Run)
      /\ Advance(w)
  BY DEF SInv, Held, Commits, TypeOK
<1>2. PICK e \in Run : NewClaim(w, e) /\ run' = Append(run, e)
  BY DEF Commits
<1>3. PICK m \in Nat : m = Len(run) + 1
  BY <1>1, NewRun, <1>2
<1>4. /\ Runs' = Runs \cup {m} /\ run'[m] = e /\ \A s \in Runs : run'[s] = run[s] /\ s < m
  BY <1>1, <1>2, <1>3, NewRun DEF Runs
<1>5. PICK k \in Key : ClaimWrites(w, k)
  BY <1>1, AdvanceRows
<1>6. /\ since[w] \in Int /\ tx[w].next_run \in Int /\ tx[w].opt \in Option
      /\ tx[w].next_run <= since[w]
  BY <1>1, ClaimType DEF HeldBy
<1>7. since[w] < row'[k].next_run /\ row'[k].next_run \in Int
  BY <1>5, <1>6, AdvancedLater DEF ClaimWrites
<1>8. ASSUME NEW r \in Runs, run[r].ver = tx[w].ver PROVE run[r].claimed < tx[w].next_run
  BY <1>5, <1>8 DEF Advancing, ClaimWrites
<1>9. e.ver = tx[w].ver /\ e.due = tx[w].next_run /\ e.claimed = since[w]
  BY <1>2 DEF NewClaim
<1>10. ASSUME NEW j \in Key, NEW r \in Runs \cup {m}, row'[j].id # NULL,
              run'[r].ver = row'[j].ver
       PROVE  run'[r].claimed < row'[j].next_run
  <2>1. CASE j # k /\ r \in Runs
    BY <1>4, <1>5, <1>10, <2>1 DEF ClaimWrites, Advancing
  <2>2. CASE j # k /\ r = m
    <3>1. row[j].id # NULL /\ row[j].ver = row[k].ver
      BY <1>4, <1>5, <1>9, <1>10, <2>2 DEF ClaimWrites
    <3> QED BY <1>1, <2>2, <3>1 DEF Rows
  <2>3. CASE j = k /\ r \in Runs
    <3>1. run'[r] = run[r] /\ run[r].ver = tx[w].ver /\ run[r].claimed \in Int
      BY <1>1, <1>4, <1>5, <1>10, <2>3, RunType DEF ClaimWrites
    <3> QED BY <1>6, <1>7, <1>8, <2>3, <3>1
  <2>4. CASE j = k /\ r = m
    BY <1>4, <1>7, <1>9, <2>4
  <2> QED BY <1>10, <2>1, <2>2, <2>3, <2>4
<1>11. Advancing'
  BY <1>4, <1>10 DEF Advancing
<1>12. ASSUME NEW r \in Runs \cup {m}, NEW s \in Runs \cup {m}, r < s,
              run'[r].ver = run'[s].ver
       PROVE  run'[r].claimed < run'[s].due /\ run'[s].due <= run'[s].claimed
  <2>1. r \in Runs
    <3>1. \A q \in Runs : q \in Nat /\ ~(m < q)
      BY <1>1, <1>3, <1>4, RunsDomain
    <3> QED BY <1>3, <1>12, <3>1
  <2>2. CASE s \in Runs
    BY <1>4, <1>12, <2>1, <2>2 DEF TicksSkipped
  <2>3. CASE s = m
    BY <1>4, <1>6, <1>8, <1>9, <1>12, <2>1, <2>3
  <2> QED BY <1>12, <2>2, <2>3
<1>13. TicksSkipped'
  BY <1>4, <1>12 DEF TicksSkipped
<1> QED BY <1>11, <1>13

LEMMA AdvancingStep ==
    ASSUME ClocksNotBehind, SInv, Advancing, TicksSkipped, [Next]_vars
    PROVE  Advancing' /\ TicksSkipped'
<1>1. CASE Calm
  <2>1. SameRuns /\ SameRows
    BY <1>1 DEF Calm
  <2> QED BY <2>1, AdvancingKept DEF SameRows
<1>2. CASE SameRuns /\ \E w \in Worker, r \in Runs : Unlock(w, r)
  BY <1>2, UnlockRows, AdvancingKept
<1>3. CASE Tick
  BY <1>3, SInvTick, AdvancingKept
<1>4. CASE \E w \in Worker : Commits(w)
  BY <1>4, AdvancingCommits
<1> QED BY <1>1, <1>2, <1>3, <1>4, Steps
-----------------------------------------------------------------------------
(* The lease of a run that has not outlived it stands *)

\* What a step keeps of the runs that hold a lease nobody has outlived.
LEMMA HoldingKept ==
    ASSUME SameRuns, NEW r \in Runs, Holding(r)', Punctual(run[r].id)'
    PROVE  Holding(r) /\ Punctual(run[r].id)
BY DEF SameRuns, Holding, Punctual, Runs

LEMMA LeasedCalm ==
    ASSUME SInv, Leased, Calm
    PROVE  Leased'
<1>1. /\ TypeOK /\ Known /\ SameRuns /\ SameRows /\ now' = now /\ Runs' = Runs
      /\ nextVer \in Nat
  BY BoundsAssumption DEF SInv, Calm, SameRuns, Runs, TypeOK
<1>2. ASSUME NEW r \in Runs, Holding(r)', Punctual(run[r].id)'
      PROVE  /\ now' < run'[r].until
             /\ \A k \in Key : row'[k].id = run'[r].id => row'[k].locked_until = run'[r].until
             /\ \A s \in Runs : Holding(s)' /\ run'[s].id = run'[r].id => s = r
  <2>1. run'[r].id = run[r].id /\ run'[r].until = run[r].until
    BY <1>1 DEF SameRuns
  <2>2. Holding(r) /\ Punctual(run[r].id)
    BY <1>1, <1>2, <2>1, HoldingKept
  <2>3. /\ now < run[r].until
        /\ \A k \in Key : row[k].id = run[r].id => row[k].locked_until = run[r].until
        /\ \A s \in Runs : Holding(s) /\ run[s].id = run[r].id => s = r
    BY <2>2 DEF Leased
  <2>4. run[r].id # NULL /\ run[r].id # nextVer
    BY <1>1, RunType, NullAssumption DEF Known
  <2>5. ASSUME NEW k \in Key, row'[k].id = run[r].id PROVE row'[k].locked_until = run[r].until
    BY <1>1, <2>3, <2>4, <2>5 DEF SameRows
  <2>6. ASSUME NEW s \in Runs, Holding(s)', run'[s].id = run[r].id PROVE s = r
    BY <1>1, <2>3, <2>6 DEF SameRuns, Holding
  <2> QED BY <1>1, <2>1, <2>3, <2>5, <2>6
<1> QED BY <1>1, <1>2 DEF Leased

LEMMA LeasedTick ==
    ASSUME SInv, Leased, Tick
    PROVE  Leased'
<1>1. /\ TypeOK /\ SameRuns /\ Runs' = Runs /\ row' = row /\ now' \in Int
      /\ \A r \in Runs : run'[r].phase = run[r].phase
      /\ \A r \in Runs : run[r].phase # "over" /\ RanOut(run[r].until, now') => run'[r].late
  BY SInvTick DEF SInv, SameRuns, Runs, TypeOK
<1>2. ASSUME NEW r \in Runs, Holding(r)', Punctual(run[r].id)'
      PROVE  /\ now' < run'[r].until
             /\ \A k \in Key : row'[k].id = run'[r].id => row'[k].locked_until = run'[r].until
             /\ \A s \in Runs : Holding(s)' /\ run'[s].id = run'[r].id => s = r
  <2>1. run'[r].id = run[r].id /\ run'[r].until = run[r].until
    BY <1>1 DEF SameRuns
  <2>2. Holding(r) /\ Punctual(run[r].id)
    BY <1>1, <1>2, <2>1, HoldingKept
  <2>3. /\ \A k \in Key : row[k].id = run[r].id => row[k].locked_until = run[r].until
        /\ \A s \in Runs : Holding(s) /\ run[s].id = run[r].id => s = r
    BY <2>2 DEF Leased
  <2>4. ~run'[r].late
    BY <1>1, <1>2, <2>1 DEF Punctual
  <2>5. now' < run[r].until
    <3>1. ~RanOut(run[r].until, now')
      BY <1>1, <2>2, <2>4 DEF Holding
    <3>2. run[r].until \in Int
      BY <1>1, <2>2, RunType DEF Holding, Time
    <3> QED BY <1>1, <3>1, <3>2, NullAssumption DEF RanOut
  <2>6. ASSUME NEW s \in Runs, Holding(s)', run'[s].id = run[r].id PROVE s = r
    BY <1>1, <2>3, <2>6 DEF SameRuns, Holding
  <2> QED BY <1>1, <2>1, <2>3, <2>5, <2>6
<1> QED BY <1>1, <1>2 DEF Leased

LEMMA LeasedUnlock ==
    ASSUME SInv, Leased, NEW w \in Worker, NEW q \in Runs, Unlock(w, q)
    PROVE  Leased'
<1>1. /\ TypeOK /\ Known /\ q \in Ended(w) /\ Over(q) /\ now' = now
  BY DEF SInv, Unlock
<1>2. /\ SameRuns /\ run'[q].phase = "over" /\ run[q].phase = "exited" /\ Runs' = Runs
  BY <1>1, OverRuns DEF Ended, SameRuns, Runs
<1>3. ASSUME NEW r \in Runs, Holding(r)', Punctual(run[r].id)'
      PROVE  /\ now' < run'[r].until
             /\ \A k \in Key : row'[k].id = run'[r].id => row'[k].locked_until = run'[r].until
             /\ \A s \in Runs : Holding(s)' /\ run'[s].id = run'[r].id => s = r
  <2>1. run'[r].id = run[r].id /\ run'[r].until = run[r].until
    BY <1>2 DEF SameRuns
  <2>2. Holding(r) /\ Punctual(run[r].id) /\ r # q
    BY <1>2, <1>3, <2>1, HoldingKept DEF Holding
  <2>3. /\ now < run[r].until
        /\ \A k \in Key : row[k].id = run[r].id => row[k].locked_until = run[r].until
        /\ \A s \in Runs : Holding(s) /\ run[s].id = run[r].id => s = r
    BY <2>2 DEF Leased
  <2>4. ~(run[q].id = run[r].id /\ run[q].until # NULL)
    BY <1>2, <2>2, <2>3 DEF Holding
  <2>5. ASSUME NEW k \in Key, row'[k].id = run[r].id PROVE row'[k].locked_until = run[r].until
    <3>1. row'[k] = row[k]
      BY <2>4, <2>5, UnlockRows
    <3> QED BY <2>3, <2>5, <3>1
  <2>6. ASSUME NEW s \in Runs, Holding(s)', run'[s].id = run[r].id PROVE s = r
    BY <1>2, <2>3, <2>6 DEF SameRuns, Holding
  <2> QED BY <1>1, <2>1, <2>3, <2>5, <2>6
<1> QED BY <1>2, <1>3 DEF Leased

\* A claim that takes a lease finds no other on its row, but one outlived.
LEMMA LeaseFree ==
    ASSUME SInv, Leased, NEW w \in Worker, pc[w] = "claim",
           NEW s \in Runs, Holding(s), run[s].id = tx[w].id, Punctual(tx[w].id)
    PROVE  tx[w].opt.max_concurrent = NULL
<1>1. /\ TypeOK /\ HeldBy(w) /\ tx[w] # NULL /\ since[w] \in Int /\ now \in Int
  BY ClaimType DEF SInv, Held, TypeOK
<1>2. PICK k \in Key : row[k] = tx[w]
  BY <1>1 DEF HeldBy
<1>3. now < run[s].until /\ row[k].locked_until = run[s].until
  BY <1>2 DEF Leased
<1>4. run[s].until \in Int
  BY <1>1, RunType DEF Holding, Time
<1>5. ~(tx[w].locked_until = NULL \/ tx[w].locked_until <= since[w]) /\ since[w] <= now
  BY <1>1, <1>2, <1>3, <1>4, NullAssumption DEF HeldBy
<1> QED BY <1>1, <1>5 DEF HeldBy

LEMMA LeasedCommits ==
    ASSUME SInv, Leased, NEW w \in Worker, Commits(w)
    PROVE  Leased'
<1>1. /\ TypeOK /\ Rows /\ Known /\ HeldBy(w) /\ pc[w] = "claim" /\ run \in Seq(Run)
      /\ Advance(w) /\ now' = now /\ now \in Int /\ since[w] \in Int
  BY ClaimType DEF SInv, Held, Commits, TypeOK
<1>2. PICK e \in Run : NewClaim(w, e) /\ run' = Append(run, e)
  BY DEF Commits
<1>3. PICK m \in Nat : m = Len(run) + 1
  BY <1>1, NewRun, <1>2
<1>4. /\ Runs' = Runs \cup {m} /\ run'[m] = e /\ \A s \in Runs : run'[s] = run[s]
      /\ m \notin Runs
  BY <1>1, <1>2, <1>3, NewRun DEF Runs
<1>5. PICK k \in Key : ClaimWrites(w, k)
  BY <1>1, AdvanceRows
<1>6. /\ e.id = tx[w].id /\ row[k] = tx[w]
      /\ tx[w].opt.max_concurrent = NULL => e.until = NULL
      /\ e.until = LeaseEnd(w, tx[w].opt)
      /\ ~e.late => e.until = NULL \/ now < e.until
  <2>1. /\ e.id = tx[w].id /\ row[k] = tx[w] /\ e.until = LeaseEnd(w, tx[w].opt)
        /\ tx[w].opt.max_concurrent = NULL => e.until = NULL
    BY <1>1, <1>2, <1>5, ClaimType DEF NewClaim, ClaimWrites
  <2>2. ~e.late => ~RanOut(e.until, now)
    BY <1>2, Zenon DEF NewClaim
  <2>3. e.until \in Int \cup {NULL}
    BY <1>1, <2>1, ClaimType DEF Time
  <2> QED BY <1>1, <2>1, <2>2, <2>3 DEF RanOut
<1>7. ASSUME NEW s \in Runs, Holding(s), run[s].id = tx[w].id, Punctual(tx[w].id)
      PROVE  e.until = NULL
  BY <1>1, <1>6, <1>7, LeaseFree
<1>8. ASSUME NEW r \in Runs', Holding(r)', Punctual(run[r].id)'
      PROVE  /\ now' < run'[r].until
             /\ \A j \in Key : row'[j].id = run'[r].id => row'[j].locked_until = run'[r].until
             /\ \A s \in Runs' : Holding(s)' /\ run'[s].id = run'[r].id => s = r
  <2>1. Punctual(run'[r].id)
    BY <1>4, <1>8 DEF Punctual
  <2>2. CASE r = m
    <3>1. e.until # NULL /\ ~e.late /\ now < e.until
      BY <1>4, <1>6, <1>8, <2>2 DEF Holding, Punctual
    <3>2. ASSUME NEW j \in Key, row'[j].id = e.id PROVE row'[j].locked_until = e.until
      <4>1. j = k
        BY <1>5, <1>6, <3>2 DEF ClaimWrites
      <4> QED BY <1>5, <1>6, <3>1, <4>1 DEF ClaimWrites
    <3>3. ASSUME NEW s \in Runs', Holding(s)', run'[s].id = e.id PROVE s = m
      <4>1. CASE s \in Runs
        <5>1. Holding(s) /\ run[s].id = tx[w].id /\ Punctual(tx[w].id)
          BY <1>4, <1>6, <2>1, <2>2, <3>3, <4>1 DEF Holding
        <5> QED BY <1>7, <3>1, <4>1, <5>1
      <4> QED BY <1>4, <3>3, <4>1
    <3> QED BY <1>1, <1>4, <2>2, <3>1, <3>2, <3>3
  <2>3. CASE r \in Runs
    <3>1. run'[r] = run[r] /\ Holding(r) /\ Punctual(run[r].id)
      BY <1>4, <1>8, <2>1, <2>3 DEF Holding
    <3>2. /\ now < run[r].until
          /\ \A j \in Key : row[j].id = run[r].id => row[j].locked_until = run[r].until
          /\ \A s \in Runs : Holding(s) /\ run[s].id = run[r].id => s = r
      BY <2>3, <3>1 DEF Leased
    <3>3. run[r].id = tx[w].id => e.until = NULL
      BY <1>7, <2>3, <3>1
    <3>4. ASSUME NEW j \in Key, row'[j].id = run[r].id PROVE row'[j].locked_until = run[r].until
      <4>1. CASE j # k
        BY <1>5, <3>2, <3>4, <4>1 DEF ClaimWrites
      <4>2. CASE j = k
        <5>1. row[k].id = run[r].id /\ e.until = NULL
          BY <1>5, <1>6, <3>3, <3>4, <4>2 DEF ClaimWrites
        <5>2. row'[k].locked_until = row[k].locked_until
          <6>1. tx[w].opt.max_concurrent # NULL => LeaseEnd(w, tx[w].opt) # NULL
            BY <1>1, ClaimType, AdvancedType, NullAssumption
          <6> QED BY <1>5, <1>6, <5>1, <6>1 DEF ClaimWrites
        <5> QED BY <3>2, <4>2, <5>1, <5>2
      <4> QED BY <4>1, <4>2
    <3>5. ASSUME NEW s \in Runs', Holding(s)', run'[s].id = run[r].id PROVE s = r
      <4>1. CASE s \in Runs
        BY <1>4, <3>2, <3>5, <4>1 DEF Holding
      <4>2. CASE s = m
        BY <1>4, <1>6, <3>3, <3>5, <4>2 DEF Holding
      <4> QED BY <1>4, <3>5, <4>1, <4>2
    <3> QED BY <1>1, <3>1, <3>2, <3>4, <3>5
  <2> QED BY <1>4, <1>8, <2>2, <2>3
<1> QED BY <1>8 DEF Leased

LEMMA LeasedStep == ASSUME SInv, Leased, [Next]_vars PROVE Leased'
BY Steps, LeasedCalm, LeasedUnlock, LeasedTick, LeasedCommits

\* Two alive leased runs of one schedule would both hold its lease.
LEMMA LeasedOverlap == ASSUME SInv, Leased PROVE OverlapNeedsOverrun
<1> SUFFICES ASSUME NEW r \in Runs, NEW s \in Runs, Overlapping(r, s), run[r].until # NULL,
                    run[s].until # NULL, \A q \in Runs : ~(run[q].id = run[r].id /\ run[q].late)
             PROVE  FALSE
  BY DEF OverlapNeedsOverrun
<1>1. Holding(r) /\ Holding(s) /\ run[r].id = run[s].id /\ r # s
  BY DEF Overlapping, Alive, Holding
<1>2. Punctual(run[r].id)
  BY DEF Punctual
<1> QED BY <1>1, <1>2 DEF Leased
-----------------------------------------------------------------------------
(* The schedules keep time *)

LEMMA BeatRuns ==
    DOMAIN beatsBar = Runs /\
    \A r \in Runs : /\ beatsBar[r].id = run[r].id /\ beatsBar[r].ver = run[r].ver
                    /\ beatsBar[r].due = run[r].due /\ beatsBar[r].at = run[r].claimed
                    /\ beatsBar[r].until = run[r].until /\ beatsBar[r].late = run[r].late
                    /\ beatsBar[r].over = (run[r].phase = "over")
BY DEF beatsBar

LEMMA PlanRows ==
    ASSUME SInv, NEW k \in Key
    PROVE  /\ planBar[k].id = row[k].id /\ planBar[k].ver = row[k].ver
           /\ planBar[k].next = row[k].next_run
           /\ planBar[k] = Promise!NoPlan <=> row[k] = Absent
<1>1. planBar[k] = [id |-> row[k].id, ver |-> row[k].ver, next |-> row[k].next_run]
  BY DEF planBar
<1>2. row[k] = Absent <=> row[k].id = NULL
  BY IdType DEF SInv
<1>3. planBar[k] = Promise!NoPlan <=> row[k] = Absent
  BY <1>1, <1>2 DEF Promise!NoPlan, Absent
<1> QED BY <1>1, <1>3

LEMMA InitKeepsTime == ASSUME Init PROVE Promise!Init
<1>1. planBar = [k \in Key |-> Promise!NoPlan]
  BY DEF Init, planBar, Promise!NoPlan, Absent
<1>2. beatsBar = << >>
  BY DEF Init, Runs, beatsBar
<1> QED BY <1>1, <1>2 DEF Init, Promise!Init

\* The runs that a step ends are the beats that end.
LEMMA EndsBeats ==
    ASSUME SameRuns, now' = now, nextVer' = nextVer, planBar' = planBar
    PROVE  \E B \in SUBSET DOMAIN beatsBar : Promise!End(B)
<1> DEFINE B == {r \in Runs : run'[r].phase = "over"}
<1>1. ASSUME NEW r \in Runs
      PROVE  /\ run'[r].id = run[r].id /\ run'[r].ver = run[r].ver /\ run'[r].due = run[r].due
             /\ run'[r].claimed = run[r].claimed /\ run'[r].until = run[r].until
             /\ run'[r].late = run[r].late
             /\ (run'[r].phase = "over") = (run[r].phase = "over" \/ r \in B)
  BY DEF SameRuns
<1> HIDE DEF B
<1>2. beatsBar' = [r \in DOMAIN beatsBar |-> [beatsBar[r] EXCEPT !.over = @ \/ r \in B]]
  <2>1. DOMAIN run' = Runs
    BY DEF SameRuns
  <2> QED BY <1>1, <2>1 DEF beatsBar, Runs
<1>3. B \in SUBSET DOMAIN beatsBar
  BY BeatRuns DEF B
<1> QED BY <1>2, <1>3 DEF Promise!End

LEMMA ScheduleSets ==
    ASSUME SInv, NEW k \in Key, NEW o \in Option, NEW lag \in Lag, Schedule(k, o, lag)
    PROVE  Promise!Set(k)
<1>1. /\ row'[k] = [id |-> IF row[k] = Absent THEN nextVer ELSE row[k].id, ver |-> nextVer,
                    opt |-> o, next_run |-> FirstRun(o, now + lag),
                    locked_until |-> row[k].locked_until]
      /\ \A j \in Key \ {k} : row'[j] = row[j]
      /\ nextVer' = nextVer + 1 /\ UNCHANGED <<now, run>> /\ now \in Int
  BY DEF SInv, TypeOK, Schedule
<1>2. now + lag <= FirstRun(o, now + lag)
  <2>1. now + lag \in Int
    BY <1>1, ClientAssumption
  <2> QED BY <2>1, FirstRunType
<1> DEFINE p == [id |-> IF planBar[k] = Promise!NoPlan THEN nextVer ELSE planBar[k].id,
                 ver |-> nextVer, next |-> FirstRun(o, now + lag)]
<1>3. p = [id |-> IF row[k] = Absent THEN nextVer ELSE row[k].id,
           ver |-> nextVer, next |-> FirstRun(o, now + lag)]
  <2>1. planBar[k].id = row[k].id /\ (planBar[k] = Promise!NoPlan <=> row[k] = Absent)
    BY PlanRows
  <2> QED BY <2>1
<1> HIDE DEF p
<1>4. planBar' = [planBar EXCEPT ![k] = p]
  <2>1. planBar'[k] = p
    BY <1>1, <1>3 DEF planBar
  <2>2. \A j \in Key \ {k} : planBar'[j] = planBar[j]
    BY <1>1 DEF planBar
  <2>3. planBar = [j \in Key |-> planBar[j]] /\ planBar' = [j \in Key |-> planBar'[j]]
    BY DEF planBar
  <2> HIDE DEF planBar
  <2> QED BY <2>1, <2>2, <2>3
<1>5. planBar'[k].next = FirstRun(o, now + lag)
  BY <1>1 DEF planBar
<1>6. beatsBar' = beatsBar
  BY <1>1 DEF beatsBar, Runs
<1> QED BY <1>1, <1>2, <1>4, <1>5, <1>6 DEF p, Promise!Set

LEMMA RemoveDrops ==
    ASSUME NEW K \in SUBSET Key, Remove(K)
    PROVE  Promise!Drop(K)
<1>1. planBar' = [k \in Key |-> IF k \in K THEN Promise!NoPlan ELSE planBar[k]]
  BY DEF Remove, planBar, Promise!NoPlan, Absent
<1>2. beatsBar' = beatsBar
  BY DEF Remove, beatsBar, Runs
<1> QED BY <1>1, <1>2 DEF Remove, Promise!Drop

LEMMA TickKeepsTime == ASSUME SInv, Tick PROVE Promise!Tick
<1>1. /\ SameRuns /\ row' = row /\ nextVer' = nextVer /\ now' = now + 1
      /\ \A r \in Runs : run'[r].phase = run[r].phase
  BY SInvTick DEF Tick
<1>2. ASSUME NEW r \in Runs
      PROVE  run'[r].late = (run[r].late \/ (/\ ~(run[r].phase = "over")
                                             /\ RanOut(run[r].until, now')))
  <2> DEFINE l == run[r].late \/ (run[r].phase # "over" /\ RanOut(run[r].until, now'))
  <2>1. run[r] \in Run /\ run'[r] = [run[r] EXCEPT !.late = l]
    BY RunType DEF SInv, Tick
  <2> HIDE DEF l
  <2>2. run'[r].late = l
    BY <2>1 DEF Run
  <2> QED BY <2>2, Zenon DEF l
<1>3. beatsBar' = [r \in DOMAIN beatsBar |->
                     [beatsBar[r] EXCEPT !.late = @ \/ (/\ ~beatsBar[r].over
                                                        /\ RanOut(beatsBar[r].until, now'))]]
  <2>1. DOMAIN run' = Runs
    BY <1>1 DEF SameRuns
  <2> QED BY <1>1, <1>2, <2>1 DEF SameRuns, beatsBar, Runs
<1>4. planBar' = planBar
  BY <1>1 DEF planBar
<1> QED BY <1>1, <1>3, <1>4 DEF RanOut, Promise!RanOut, Promise!Tick

LEMMA CommitFires ==
    ASSUME ClocksNotBehind, SInv, Leased, NEW w \in Worker, Commits(w)
    PROVE  \E k \in Key : Promise!Fire(k)
<1>1. /\ TypeOK /\ HeldBy(w) /\ pc[w] = "claim" /\ run \in Seq(Run) /\ Advance(w)
      /\ now' = now /\ nextVer' = nextVer
  BY DEF SInv, Held, Commits, TypeOK
<1>2. PICK e \in Run : NewClaim(w, e) /\ run' = Append(run, e)
  BY DEF Commits
<1>3. PICK m \in Nat : m = Len(run) + 1
  BY <1>1, <1>2, NewRun
<1>4. /\ Runs' = Runs \cup {m} /\ run'[m] = e /\ \A s \in Runs : run'[s] = run[s]
      /\ m \notin Runs
  BY <1>1, <1>2, <1>3, NewRun DEF Runs
<1>5. PICK k \in Key : ClaimWrites(w, k)
  BY <1>1, AdvanceRows
<1>6. /\ row[k] = tx[w] /\ row[k].id # NULL /\ tx[w].next_run <= since[w] /\ since[w] <= now
      /\ since[w] < row'[k].next_run
  BY <1>1, <1>5, ClaimType, AdvancedLater DEF ClaimWrites, HeldBy
<1> DEFINE b == beatsBar'[m]
<1>7. /\ b.id = e.id /\ b.ver = e.ver /\ b.due = e.due /\ b.at = e.claimed
      /\ b.until = e.until /\ b.late = e.late
  BY <1>4 DEF beatsBar
<1>8. beatsBar' = [n \in DOMAIN beatsBar \cup {m} |-> IF n = m THEN b ELSE beatsBar[n]]
  BY <1>4 DEF beatsBar
<1> HIDE DEF b
<1>9. planBar' = [planBar EXCEPT ![k].next = planBar'[k].next] /\ planBar'[k].next = row'[k].next_run
  BY <1>5 DEF ClaimWrites, planBar
<1>10. /\ planBar[k] # Promise!NoPlan /\ planBar[k].id = tx[w].id /\ planBar[k].ver = tx[w].ver
       /\ planBar[k].next = tx[w].next_run
  <2>1. row[k] # Absent
    BY <1>6, AbsentType
  <2>2. /\ planBar[k].id = row[k].id /\ planBar[k].ver = row[k].ver
        /\ planBar[k].next = row[k].next_run
        /\ planBar[k] = Promise!NoPlan <=> row[k] = Absent
    BY PlanRows
  <2> QED BY <1>6, <2>1, <2>2
<1>11. b.until # NULL => ~Promise!Busy(b.id)
  <2>1. b.id = tx[w].id /\ (tx[w].opt.max_concurrent = NULL => b.until = NULL)
    BY <1>1, <1>2, <1>7, ClaimType DEF NewClaim
  <2>2. ASSUME NEW s \in Runs, beatsBar[s].id = b.id, beatsBar[s].until # NULL, ~beatsBar[s].over,
               \A q \in Runs : beatsBar[q].id = b.id => ~beatsBar[q].late
        PROVE  b.until = NULL
    <3>1. Holding(s) /\ run[s].id = tx[w].id /\ Punctual(tx[w].id)
      BY <2>1, <2>2, BeatRuns DEF Holding, Punctual
    <3> QED BY <1>1, <2>1, <3>1, LeaseFree
  <2> QED BY <2>2, BeatRuns DEF Promise!Busy
<1>12. /\ b.id = planBar[k].id /\ b.ver = planBar[k].ver /\ b.due = planBar[k].next
       /\ b.due <= b.at /\ b.at <= now /\ b.at < planBar'[k].next
       /\ b.late = Promise!RanOut(b.until, now)
  BY <1>2, <1>6, <1>7, <1>9, <1>10 DEF NewClaim, RanOut, Promise!RanOut
<1>13. m \in DOMAIN beatsBar' \ DOMAIN beatsBar
  BY <1>4, <1>8, BeatRuns
<1> QED BY <1>1, <1>8, <1>9, <1>10, <1>11, <1>12, <1>13 DEF Promise!Fire, b

\* What writes the rows: schedule(), unschedule(), an unlock, a claim.
LEMMA RowWriters ==
    ASSUME SInv, Next
    PROVE  \/ UNCHANGED <<now, row, nextVer>>
           \/ \E k \in Key, o \in Option, lag \in Lag : Schedule(k, o, lag)
           \/ \E K \in SUBSET Key : Remove(K)
           \/ \E w \in Worker, r \in Runs : Unlock(w, r)
           \/ Tick
           \/ \E w \in Worker : Commits(w)
<1>1. ASSUME NEW w \in Worker, Work(w)
      PROVE  UNCHANGED <<now, row, nextVer>> \/ (\E r \in Runs : Unlock(w, r)) \/ Commits(w)
  BY <1>1, SInvClaimCommit DEF Work, ClaimSelect, PollEmpty, SelectTimeout, Fork, StartFail
<1>2. ASSUME NEW w \in Worker, Break(w) PROVE UNCHANGED <<now, row, nextVer>> \/ Commits(w)
  BY <1>2, SInvClaimLost DEF Break, ClaimAbort, Crash, SessionEnds, UnlockFail
<1>3. Exit => UNCHANGED <<now, row, nextVer>>
  BY DEF Exit, ChildExit
<1>4. ASSUME NEW k \in Key, Unschedule(k) PROVE \E K \in SUBSET Key : Remove(K)
  BY <1>4 DEF Unschedule
<1>5. ClearAll => \E K \in SUBSET Key : Remove(K)
  BY DEF ClearAll
<1> QED BY <1>1, <1>2, <1>3, <1>4, <1>5 DEF Next

LEMMA KeepsTimeStep ==
    ASSUME ClocksNotBehind, SInv, Leased, [Next]_vars
    PROVE  [Promise!Next]_(Promise!vars)
<1>1. CASE UNCHANGED vars
  BY <1>1 DEF vars, Promise!vars, planBar, beatsBar, Runs
<1>2. CASE Next
  <2>1. CASE UNCHANGED <<now, row, nextVer>> /\ SameRuns
    <3>1. planBar' = planBar
      BY <2>1 DEF planBar
    <3> QED BY <2>1, <3>1, EndsBeats DEF Promise!Next
  <2>2. CASE \E k \in Key, o \in Option, lag \in Lag : Schedule(k, o, lag)
    BY <2>2, ScheduleSets DEF Promise!Next
  <2>3. CASE \E K \in SUBSET Key : Remove(K)
    BY <2>3, RemoveDrops DEF Promise!Next
  <2>4. CASE \E w \in Worker, r \in Runs : Unlock(w, r)
    <3>1. PICK w \in Worker, r \in Runs : Unlock(w, r)
      BY <2>4
    <3>2. planBar' = planBar
      BY <3>1, UnlockRows DEF planBar
    <3>3. SameRuns /\ now' = now /\ nextVer' = nextVer
      BY <3>1, SInvUnlock DEF Unlock
    <3> QED BY <3>2, <3>3, EndsBeats DEF Promise!Next
  <2>5. CASE Tick
    BY <2>5, TickKeepsTime DEF Promise!Next
  <2>6. CASE \E w \in Worker : Commits(w)
    BY <2>6, CommitFires DEF Promise!Next
  <2> QED BY <1>2, <2>1, <2>2, <2>3, <2>4, <2>5, <2>6, RowWriters, Steps DEF Calm
<1> QED BY <1>1, <1>2
-----------------------------------------------------------------------------
(* The theorems *)

\* The type of every variable and the row lock of a claim in hand: a worker
\* has a row locked exactly from its SELECT to the end of its transaction.
THEOREM PeriodicTyped == Spec => []TypeOK
<1>1. Init => SInv
  BY InitSInv
<1>2. SInv /\ [Next]_vars => SInv'
  BY Steps
<1>3. SInv => TypeOK
  BY DEF SInv
<1> QED BY <1>1, <1>2, <1>3, PTL DEF Spec

\* Where no worker's clock is behind the database's, no tick of a schedule
\* fires twice and none that was missed is made up, with every number of
\* workers, and whatever claims abort, commit unanswered or die.
THEOREM EachTickOnce == ASSUME ClocksNotBehind PROVE Spec => []TicksSkipped
<1>1. Init => SInv /\ Advancing /\ TicksSkipped
  <2>1. Init => SInv
    BY InitSInv
  <2>2. Init => Runs = {}
    BY DEF Init, Runs
  <2> QED BY <2>1, <2>2 DEF Advancing, TicksSkipped
<1>2. SInv /\ Advancing /\ TicksSkipped /\ [Next]_vars
        => SInv' /\ Advancing' /\ TicksSkipped'
  BY Steps, AdvancingStep
<1> QED BY <1>1, <1>2, PTL DEF Spec

\* The lease keeps two leased runs of a schedule apart until one of them
\* outlives its own: no fault, lost answer, schedule() call or clock does it.
THEOREM LeaseSeparates == Spec => []OverlapNeedsOverrun
<1>1. Init => SInv /\ Leased
  <2>1. Init => SInv
    BY InitSInv
  <2>2. Init => Runs = {}
    BY DEF Init, Runs
  <2> QED BY <2>1, <2>2 DEF Leased
<1>2. SInv /\ Leased /\ [Next]_vars => SInv' /\ Leased'
  BY Steps, LeasedStep
<1>3. SInv /\ Leased => OverlapNeedsOverrun
  BY LeasedOverlap
<1> QED BY <1>1, <1>2, <1>3, PTL DEF Spec

\* Where no worker's clock is behind the database's, the schedules implement
\* Metronome, whatever the clocks of the clients and however long their
\* statements wait: each claim fires the beat its row had due and moves the plan
\* past the time it looked, a leased one only beside no other that is within its
\* lease; nothing else moves a plan but schedule(), which starts it no earlier
\* than the time its client read, and unschedule().
THEOREM SchedulesKeepTime == ASSUME ClocksNotBehind PROVE Spec => KeepsTime
<1>1. Init => SInv /\ Leased /\ Promise!Init
  <2>1. Init => SInv
    BY InitSInv
  <2>2. Init => Runs = {}
    BY DEF Init, Runs
  <2> QED BY <2>1, <2>2, InitKeepsTime DEF Leased
<1>2. SInv /\ Leased /\ [Next]_vars => SInv' /\ Leased' /\ [Promise!Next]_(Promise!vars)
  BY Steps, LeasedStep, KeepsTimeStep
<1> QED BY <1>1, <1>2, PTL DEF Spec, KeepsTime, Promise!Spec
=============================================================================
