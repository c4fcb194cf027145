----------------------------- MODULE UpsertMany ------------------------------
(***************************************************************************)
(* Transactions that lock several rows of pq_tasks, one row after the      *)
(* other: upsert_many (src/pq/client.py), the stale reaper and the         *)
(* retention cleanup.  The locks are held until the transaction ends.      *)
(*                                                                         *)
(* A batch writes its rows in client_id order.  The reaper and the cleanup *)
(* lock theirs in the order of the scan, which nobody controls: they can   *)
(* deadlock with a batch, and the database then fails one of them.         *)
(*                                                                         *)
(* A key is a client_id.  An insert that is not committed locks its key:   *)
(* another insert waits to see how it ends.  Transactions of one row hold  *)
(* nothing while they wait, so they are one step.  How old a run or a      *)
(* closed row must be is TaskQueue's: here a row grows old at any time.    *)
(***************************************************************************)
EXTENDS Integers, FiniteSets, SequencesExt

CONSTANTS
    Key,      \* client_ids, ordered as Python orders them
    Batch,    \* calls of upsert_many
    Items,    \* the client_ids each call is given, in input order
    Reaper,   \* calls of reap_stale_tasks
    Cleanup,  \* calls of clear_completed and clear_failed
    NULL

ASSUME KeyAssumption == Key \subseteq Int /\ IsFiniteSet(Key)

ASSUME ItemsAssumption == Items \in [Batch -> Seq(Key)]

ASSUME TxnAssumption ==
    /\ Batch \cap Reaper = {} /\ Batch \cap Cleanup = {} /\ Reaper \cap Cleanup = {}
    /\ NULL \notin Batch \cup Reaper \cup Cleanup

VARIABLES
    row,      \* the committed rows, by client_id
    old,      \* keys of runs past their stale window, of closed rows past retention
    phase,    \* new, open, committed or failed; a sweep goes back to new
    plan,     \* the rows a transaction has still to lock, in order
    written,  \* what it wrote and did not commit
    holder    \* the transaction that holds the lock of a row

tx   == <<phase, plan, written, holder>>
vars == <<row, old, tx>>

Sweep == Reaper \cup Cleanup
Txn   == Batch \cup Sweep

\* A version is named by the batch and the index of its item; NULL is the
\* version of an earlier call.
Version == Batch \X (Nat \ {0})

Row == {r \in [status : {"pending", "running", "closed"}, version : Version \cup {NULL},
               parked : Version \cup {NULL}] : r.parked # NULL => r.status = "running"}

ASSUME RowAssumption == NULL \notin Row

Pending(v) == [status |-> "pending", version |-> v, parked |-> NULL]

\* Broken form: requeue is set whatever the status is.
UpsertedAlways(r, v) ==
    IF r = NULL THEN Pending(v)
    ELSE IF r.status = "running" THEN [r EXCEPT !.parked = v]
    ELSE [Pending(v) EXCEPT !.parked = v]

\* _upsert_statement
Upserted(r, v) ==
    IF r # NULL /\ r.status = "running" THEN [r EXCEPT !.parked = v] ELSE Pending(v)

\* The end of a run: a parked version is applied.
Ended(r) == IF r.parked # NULL THEN Pending(r.parked) ELSE [r EXCEPT !.status = "closed"]

Nothing == [k \in {} |-> NULL]

\* The row as transaction t sees it.
Seen(t, k) == IF k \in DOMAIN written[t] THEN written[t][k] ELSE row[k]
-----------------------------------------------------------------------------
(* Locks *)

\* The transaction t waits for: the holder of the next row it must lock.
BlockedBy(t) ==
    IF plan[t] = << >> THEN NULL
    ELSE LET h == holder[Head(plan[t]).key] IN IF h = t THEN NULL ELSE h

\* Everyone in S waits for somebody in S.
Deadlocked(S) == S # {} /\ \A t \in S : BlockedBy(t) \in S

Cycle(S) == Deadlocked(S) /\ \A R \in SUBSET S : Deadlocked(R) => R = S

\* Broken form: a failed transaction is not rolled back.
EndKeeps(t, to) ==
    /\ phase' = [phase EXCEPT ![t] = IF t \in Batch THEN to ELSE "new"]
    /\ plan' = [plan EXCEPT ![t] = << >>]
    /\ written' = [written EXCEPT ![t] = Nothing]
    /\ holder' = IF to = "failed" THEN holder
                 ELSE [k \in Key |-> IF holder[k] = t THEN NULL ELSE holder[k]]

\* COMMIT or ROLLBACK: session()
End(t, to) ==
    /\ phase' = [phase EXCEPT ![t] = IF t \in Batch THEN to ELSE "new"]
    /\ plan' = [plan EXCEPT ![t] = << >>]
    /\ written' = [written EXCEPT ![t] = Nothing]
    /\ holder' = [k \in Key |-> IF holder[k] = t THEN NULL ELSE holder[k]]

\* Store r as the row of key k, the next of the plan, and keep it locked.
Write(t, k, r) ==
    /\ written' = [written EXCEPT ![t] = [j \in DOMAIN @ \cup {k} |-> IF j = k THEN r ELSE @[j]]]
    /\ holder' = [holder EXCEPT ![k] = t]
    /\ plan' = [plan EXCEPT ![t] = Tail(@)]

\* A row that is not the same run or the same closed row any more is not old.
Replace(new) ==
    /\ row' = new
    /\ old' = {k \in old : new[k] # NULL /\ new[k].status = row[k].status}
-----------------------------------------------------------------------------
(* upsert_many *)

Item(b, i) == [key |-> Items[b][i], version |-> <<b, i>>]

\* Broken form: the rows are written in input order.
InputOrder(b) == {[n \in DOMAIN Items[b] |-> n]}

\* Broken form: repeated ids are not kept in input order.
UnstableOrder(b) == {o \in SetToSeqs(DOMAIN Items[b]) : \A m, n \in DOMAIN o : m < n =>
    Items[b][o[m]] <= Items[b][o[n]]}

\* The items in client_id order.  sorted() is stable, so there is one.
Order(b) == {o \in SetToSeqs(DOMAIN Items[b]) : \A m, n \in DOMAIN o : m < n =>
    /\ Items[b][o[m]] <= Items[b][o[n]]
    /\ Items[b][o[m]] = Items[b][o[n]] => o[m] < o[n]}

\* Every item is checked before the transaction begins.
Reject(b) ==
    /\ phase[b] = "new"
    /\ phase' = [phase EXCEPT ![b] = "failed"]
    /\ UNCHANGED <<row, old, plan, written, holder>>

Open(b) ==
    /\ phase[b] = "new"
    /\ phase' = [phase EXCEPT ![b] = "open"]
    /\ \E o \in Order(b) : plan' = [plan EXCEPT ![b] = [n \in DOMAIN o |-> Item(b, o[n])]]
    /\ UNCHANGED <<row, old, written, holder>>

Upsert(b) ==
    /\ phase[b] = "open" /\ plan[b] # << >> /\ BlockedBy(b) = NULL
    /\ LET i == Head(plan[b]) IN Write(b, i.key, Upserted(Seen(b, i.key), i.version))
    /\ UNCHANGED <<row, old, phase>>
-----------------------------------------------------------------------------
(* The reaper and the cleanup *)

\* The rows of each statement: the reaper fails stale runs, then re-queues
\* those with a parked version; the cleanup deletes old closed rows.
Matches(t, ph, k, r) ==
    /\ r # NULL /\ k \in old
    /\ IF t \in Cleanup THEN r.status = "closed"
       ELSE r.status = "running" /\ (r.parked # NULL <=> ph = "second")

\* A statement finds its rows when it begins, and meets them in any order.
Scan(t, ph) ==
    /\ phase' = [phase EXCEPT ![t] = ph]
    /\ \E s \in SetToSeqs({k \in Key : Matches(t, ph, k, Seen(t, k))}) :
          plan' = [plan EXCEPT ![t] = [n \in DOMAIN s |-> [key |-> s[n], version |-> NULL]]]
    /\ UNCHANGED <<row, old, written, holder>>

Begin(t) == phase[t] = "new" /\ Scan(t, "first")

Second(t) == t \in Reaper /\ phase[t] = "first" /\ plan[t] = << >> /\ Scan(t, "second")

\* A row that changed while the statement waited for it is looked at again.
Visit(t) ==
    /\ plan[t] # << >> /\ BlockedBy(t) = NULL
    /\ LET k == Head(plan[t]).key
       IN IF Matches(t, phase[t], k, Seen(t, k))
          THEN Write(t, k, IF t \in Cleanup THEN NULL ELSE Ended(Seen(t, k)))
          ELSE plan' = [plan EXCEPT ![t] = Tail(@)] /\ UNCHANGED <<written, holder>>
    /\ UNCHANGED <<row, old, phase>>
-----------------------------------------------------------------------------
(* The end of a transaction *)

LastPhase(t) == IF t \in Batch THEN "open" ELSE IF t \in Reaper THEN "second" ELSE "first"

Commit(t) ==
    /\ phase[t] = LastPhase(t) /\ plan[t] = << >>
    /\ Replace([k \in Key |-> Seen(t, k)])
    /\ End(t, "committed")

IsOpen(t) == phase[t] \in {"open", "first", "second"}

\* A database error, or the end of the process.
Fail(t) == IsOpen(t) /\ End(t, "failed") /\ UNCHANGED <<row, old>>

\* The database ends a deadlock by failing somebody in the cycle.
BreakDeadlock(t) ==
    /\ BlockedBy(t) # NULL /\ \E S \in SUBSET Txn : t \in S /\ Cycle(S)
    /\ Fail(t)
-----------------------------------------------------------------------------
(* Transactions of one row *)

Free(k) == row[k] # NULL /\ holder[k] = NULL

\* A claim skips locked rows.
Claim(k) ==
    /\ Free(k) /\ row[k].status = "pending"
    /\ Replace([row EXCEPT ![k].status = "running"])
    /\ UNCHANGED tx

\* _finish_one_off waits for the lock.
Finish(k) ==
    /\ Free(k) /\ row[k].status = "running"
    /\ Replace([row EXCEPT ![k] = Ended(@)])
    /\ UNCHANGED tx

Cancel(k) == Free(k) /\ Replace([row EXCEPT ![k] = NULL]) /\ UNCHANGED tx

Age(k) ==
    /\ row[k] # NULL /\ row[k].status # "pending"
    /\ old' = old \cup {k}
    /\ UNCHANGED <<row, tx>>

Init ==
    /\ row \in [Key -> {NULL} \cup [status : {"pending", "running", "closed"},
                                    version : {NULL}, parked : {NULL}]]
    /\ old = {}
    /\ phase = [t \in Txn |-> "new"]
    /\ plan = [t \in Txn |-> << >>]
    /\ written = [t \in Txn |-> Nothing]
    /\ holder = [k \in Key |-> NULL]

\* An open transaction goes on.
Proceed(t) == \/ t \in Batch /\ Upsert(t)
              \/ t \in Sweep /\ (Visit(t) \/ Second(t))
              \/ Commit(t)

Next ==
    \/ \E b \in Batch : Reject(b) \/ Open(b)
    \/ \E t \in Sweep : Begin(t)
    \/ \E t \in Txn : Proceed(t) \/ Fail(t) \/ BreakDeadlock(t)
    \/ \E k \in Key : Claim(k) \/ Finish(k) \/ Cancel(k) \/ Age(k)

Spec == Init /\ [][Next]_vars

\* Strong fairness, as the database serves those who wait for a row in their order.
LiveSpec == /\ Spec
            /\ \A t \in Txn : SF_vars(Proceed(t))
            /\ WF_vars(\E t \in Txn : BreakDeadlock(t))
-----------------------------------------------------------------------------
(* Properties *)

\* The type of every variable; a version is parked on a running row only.
TypeOK ==
    /\ \A k \in Key : row[k] \in Row \cup {NULL}
    /\ old \subseteq {k \in Key : row[k] # NULL /\ row[k].status # "pending"}
    /\ phase \in [Txn -> {"new", "open", "first", "second", "committed", "failed"}]
    /\ \A t \in Txn : /\ plan[t] \in Seq([key : Key, version : Version \cup {NULL}])
                      /\ DOMAIN written[t] \subseteq Key
                      /\ \A k \in DOMAIN written[t] : /\ written[t][k] \in Row \cup {NULL}
                                                      /\ holder[k] = t
    /\ holder \in [Key -> Txn \cup {NULL}]

\* Batches lock in the same order: whatever they share and whoever else takes
\* part, they never wait for each other in a circle.
NoBatchDeadlock == \A S \in SUBSET Batch : ~Deadlocked(S)

outcomeBar == [b \in Batch |-> IF phase[b] \in {"new", "open"} THEN "waiting" ELSE phase[b]]

Whole == INSTANCE AtomicBatches WITH outcome <- outcomeBar

\* The rows change as if each batch were applied at once, in input order, at
\* its commit.
ImplementsAtomicBatches == Whole!Spec

\* Every batch ends, although sweeps can deadlock with it.
BatchEnds == \A b \in Batch : phase[b] = "open" ~> phase[b] \in {"committed", "failed"}
=============================================================================
