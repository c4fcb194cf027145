-------------------------- MODULE UpsertManyProofs ---------------------------
(***************************************************************************)
(* Batches of upsert_many never wait for each other in a circle and take   *)
(* effect as a whole, for every number of batches, items, reapers and      *)
(* cleanups (UpsertMany).                                                  *)
(***************************************************************************)
EXTENDS UpsertMany, FiniteSetTheorems, WellFoundedInduction, TLAPS

Step == [key : Key, version : Version \cup {NULL}]

\* The locks are where the plans say: a batch has its rows before it in
\* order, and those it holds behind it.
LocksInOrder ==
    /\ phase \in [Txn -> {"new", "open", "first", "second", "committed", "failed"}]
    /\ plan \in [Txn -> Seq(Step)]
    /\ holder \in [Key -> Txn \cup {NULL}]
    /\ \A b \in Batch : \A m, n \in DOMAIN plan[b] : m < n => plan[b][m].key <= plan[b][n].key
    /\ \A b \in Batch, k \in Key : holder[k] = b => \A n \in DOMAIN plan[b] : k <= plan[b][n].key
    /\ \A b \in Batch, k \in Key : phase[b] = "new" => holder[k] # b

-----------------------------------------------------------------------------
(* Of any keys some are the greatest *)

\* The keys above k.
Above(k) == {j \in Key : j > k}

\* Key is finite: no set of keys climbs for ever.
LEMMA Greatest ==
    ASSUME NEW W, W \subseteq Key, W # {}
    PROVE  \E k \in W : \A j \in W : j <= k
<1> DEFINE T == {Cardinality(Above(k)) : k \in W}
<1>1. ASSUME NEW k \in Key
      PROVE  IsFiniteSet(Above(k)) /\ Cardinality(Above(k)) \in Nat
  <2>1. Above(k) \in SUBSET Key
    BY DEF Above
  <2> QED
    BY <2>1, KeyAssumption, FS_Subset, FS_CardinalityType
<1>2. T \subseteq Nat /\ T # {}
  BY <1>1
<1>3. \E m \in T : \A n \in T : ~(n < m)
  <2>1. \E m \in T : \A n \in T : <<n, m>> \notin OpToRel(<, Nat)
    BY <1>2, NatLessThanWellFounded, WFMin
  <2>2. \A n, m \in Nat : n < m => <<n, m>> \in OpToRel(<, Nat)
    BY DEF OpToRel
  <2> QED
    BY <1>2, <2>1, <2>2
<1>4. PICK k \in W : \A j \in W : ~(Cardinality(Above(j)) < Cardinality(Above(k)))
  BY <1>3
<1>5. ASSUME NEW j \in W, j > k
      PROVE  FALSE
  <2> j \in Int /\ k \in Int /\ j \in Key
    BY KeyAssumption
  <2>1. Above(j) \in SUBSET Above(k)
    <3> SUFFICES ASSUME NEW i \in Key, i > j PROVE i > k
      BY DEF Above
    <3> QED
      BY <1>5, KeyAssumption
  <2>2. j \in Above(k) /\ j \notin Above(j)
    BY <1>5, KeyAssumption DEF Above
  <2>3. Cardinality(Above(j)) < Cardinality(Above(k))
    BY <1>1, <2>1, <2>2, FS_Subset
  <2> QED
    BY <1>4, <2>3
<1> QED
  BY <1>5, KeyAssumption

\* The next row of a plan.
LEMMA NextStep ==
    ASSUME LocksInOrder, NEW t \in Txn, plan[t] # << >>
    PROVE  /\ Len(plan[t]) \in Nat \ {0} /\ DOMAIN plan[t] = 1 .. Len(plan[t])
           /\ Head(plan[t]) = plan[t][1] /\ Head(plan[t]) \in Step
           /\ Head(plan[t]).key \in Key
           /\ Tail(plan[t]) \in Seq(Step)
<1>1. plan[t] \in Seq(Step)
  BY DEF LocksInOrder
<1>2. Len(plan[t]) \in Nat \ {0} /\ Head(plan[t]) \in Step /\ Tail(plan[t]) \in Seq(Step)
  BY <1>1
<1> QED
  BY <1>1, <1>2 DEF Step

\* Locks in order: somebody in S waits for the greatest of the keys S waits
\* for, and whoever holds it waits for a greater one.
LEMMA NoCircle == LocksInOrder => NoBatchDeadlock
<1> SUFFICES ASSUME LocksInOrder, NEW S \in SUBSET Batch, Deadlocked(S)
             PROVE  FALSE
  BY DEF NoBatchDeadlock
<1> DEFINE next(t) == Head(plan[t]).key
<1>1. ASSUME NEW t \in S
      PROVE  next(t) \in Key /\ \E u \in S : next(u) > next(t)
  <2>1. BlockedBy(t) \in S /\ BlockedBy(t) # NULL
    BY TxnAssumption DEF Deadlocked
  <2>2. plan[t] # << >> /\ holder[next(t)] \in S /\ holder[next(t)] # t
    BY <2>1 DEF BlockedBy
  <2>3. next(t) \in Key
    BY <2>2, NextStep DEF Txn
  <2>4. PICK u \in S : u = holder[next(t)]
    BY <2>2
  <2>5. BlockedBy(u) \in S /\ BlockedBy(u) # NULL
    BY TxnAssumption DEF Deadlocked
  <2>6. plan[u] # << >> /\ holder[next(u)] # u
    BY <2>5 DEF BlockedBy
  <2>7. 1 \in DOMAIN plan[u] /\ next(u) = plan[u][1].key /\ next(u) \in Key
    BY <2>6, NextStep DEF Txn
  <2>8. next(t) <= next(u)
    BY <2>3, <2>4, <2>7 DEF LocksInOrder
  <2>9. next(t) # next(u)
    BY <2>4, <2>6
  <2>10. next(u) > next(t)
    <3>1. \A i, j \in Int : i <= j /\ i # j => j > i
      OBVIOUS
    <3>2. next(t) \in Int /\ next(u) \in Int
      BY <2>3, <2>7, KeyAssumption
    <3> HIDE DEF next
    <3> QED
      BY <2>8, <2>9, <3>1, <3>2
  <2> QED
    BY <2>3, <2>10
<1> DEFINE W == {next(t) : t \in S}
<1>2. W \subseteq Key /\ W # {}
  BY <1>1 DEF Deadlocked
<1>3. PICK k \in W : \A j \in W : j <= k
  BY <1>2, Greatest
<1>4. PICK t \in S : k = next(t)
  BY <1>3
<1>5. PICK u \in S : next(u) > next(t)
  BY <1>1
<1>6. next(u) <= k /\ next(t) \in Int /\ next(u) \in Int
  BY <1>1, <1>3, KeyAssumption
<1> QED
  BY <1>4, <1>5, <1>6
-----------------------------------------------------------------------------
(* The steps keep the locks in order *)

LEMMA InitLocks == Init => LocksInOrder
BY TxnAssumption DEF Init, LocksInOrder, Txn, Sweep

\* Transactions of one row, and the rows themselves, do not matter.
LEMMA SameLocks == ASSUME LocksInOrder, UNCHANGED tx PROVE LocksInOrder'
BY DEF LocksInOrder, tx

\* Who ends lets go of everything.
LEMMA EndStep ==
    ASSUME LocksInOrder, NEW t \in Txn, NEW to \in {"committed", "failed"}, End(t, to)
    PROVE  LocksInOrder'
<1>1. phase' \in [Txn -> {"new", "open", "first", "second", "committed", "failed"}]
  BY DEF LocksInOrder, End
<1>2. plan' \in [Txn -> Seq(Step)] /\ holder' \in [Key -> Txn \cup {NULL}]
  BY DEF LocksInOrder, End
<1>3. \A b \in Txn : plan'[b] = plan[b] \/ plan'[b] = << >>
  BY DEF LocksInOrder, End
<1>4. ASSUME NEW b \in Batch, NEW k \in Key, holder'[k] = b
      PROVE  holder[k] = b /\ b # t
  BY <1>4, TxnAssumption DEF LocksInOrder, End, Txn, Sweep
<1>5. \A b \in Batch : phase'[b] = "new" => phase[b] = "new"
  BY DEF LocksInOrder, End, Txn
<1>6. \A b \in Batch : b \in Txn
  BY DEF Txn
<1>7. \A b \in Batch : \A m, n \in DOMAIN plan'[b] : m < n => plan'[b][m].key <= plan'[b][n].key
  BY <1>3, <1>6 DEF LocksInOrder
<1>8. \A b \in Batch, k \in Key : holder'[k] = b => \A n \in DOMAIN plan'[b] : k <= plan'[b][n].key
  <2> SUFFICES ASSUME NEW b \in Batch, NEW k \in Key, holder'[k] = b, NEW n \in DOMAIN plan'[b]
               PROVE  k <= plan'[b][n].key
    OBVIOUS
  <2>1. holder[k] = b
    BY <1>4
  <2>2. plan'[b] = plan[b]
    BY <1>3, <1>6
  <2> QED
    BY <2>1, <2>2 DEF LocksInOrder
<1> QED
  BY <1>1, <1>2, <1>4, <1>5, <1>7, <1>8 DEF LocksInOrder

\* Who locks the next row of its plan goes on to rows that are not before it.
LEMMA WriteStep ==
    ASSUME LocksInOrder, NEW t \in Txn, plan[t] # << >>, NEW r,
           Write(t, Head(plan[t]).key, r), UNCHANGED phase, t \in Batch => phase[t] # "new"
    PROVE  LocksInOrder'
<1> DEFINE k0 == Head(plan[t]).key
<1>1. k0 \in Key /\ Tail(plan[t]) \in Seq(Step)
  BY NextStep
<1>2. plan' = [plan EXCEPT ![t] = Tail(@)] /\ holder' = [holder EXCEPT ![k0] = t]
  BY DEF Write
<1>3. plan' \in [Txn -> Seq(Step)] /\ holder' \in [Key -> Txn \cup {NULL}]
  BY <1>1, <1>2 DEF LocksInOrder
<1>4. \A n \in DOMAIN Tail(plan[t]) : /\ n + 1 \in DOMAIN plan[t] /\ n + 1 > 1 /\ n \in Int
                                     /\ Tail(plan[t])[n] = plan[t][n + 1]
  <2>1. plan[t] \in Seq(Step) /\ Len(plan[t]) \in Nat \ {0}
    BY NextStep DEF LocksInOrder
  <2> QED
    BY <2>1
<1>5. 1 \in DOMAIN plan[t] /\ k0 = plan[t][1].key
  BY NextStep
<1>6. plan'[t] = Tail(plan[t]) /\ \A b \in Txn : b # t => plan'[b] = plan[b]
  BY <1>2 DEF LocksInOrder
<1>7. ASSUME NEW b \in Batch
      PROVE  \A m, n \in DOMAIN plan'[b] : m < n => plan'[b][m].key <= plan'[b][n].key
  <2>1. CASE b = t
    <3> SUFFICES ASSUME NEW m \in DOMAIN Tail(plan[t]), NEW n \in DOMAIN Tail(plan[t]), m < n
                 PROVE  Tail(plan[t])[m].key <= Tail(plan[t])[n].key
      BY <1>6, <2>1
    <3>1. m + 1 < n + 1
      BY <1>4
    <3> QED
      BY <1>4, <2>1, <3>1 DEF LocksInOrder
  <2>2. CASE b # t
    BY <1>6, <2>2 DEF LocksInOrder, Txn
  <2> QED
    BY <2>1, <2>2
<1>8. ASSUME NEW b \in Batch, NEW k \in Key, holder'[k] = b
      PROVE  \A n \in DOMAIN plan'[b] : k <= plan'[b][n].key
  <2>1. CASE b # t
    <3>1. holder[k] = b
      BY <1>2, <1>8, <2>1 DEF LocksInOrder
    <3> QED
      BY <1>6, <2>1, <3>1 DEF LocksInOrder, Txn
  <2>2. CASE b = t
    <3> SUFFICES ASSUME NEW n \in DOMAIN Tail(plan[t])
                 PROVE  k <= Tail(plan[t])[n].key
      BY <1>6, <2>2
    <3>1. CASE k = k0
      BY <1>4, <1>5, <2>2, <3>1 DEF LocksInOrder
    <3>2. CASE k # k0
      <4>1. holder[k] = b
        BY <1>2, <1>8, <3>2 DEF LocksInOrder
      <4> QED
        BY <1>4, <2>2, <4>1 DEF LocksInOrder
    <3> QED
      BY <3>1, <3>2
  <2> QED
    BY <2>1, <2>2
<1>9. ASSUME NEW b \in Batch, NEW k \in Key, phase'[b] = "new"
      PROVE  holder'[k] # b
  <2>1. phase[b] = "new" /\ b # t
    BY <1>9
  <2> QED
    BY <1>2, <2>1 DEF LocksInOrder
<1>10. phase' \in [Txn -> {"new", "open", "first", "second", "committed", "failed"}]
  BY DEF LocksInOrder
<1> QED
  BY <1>3, <1>7, <1>8, <1>9, <1>10 DEF LocksInOrder

\* A plan that starts: of a batch in the order of its keys, before it holds any.
LEMMA OpenStep == ASSUME LocksInOrder, NEW b \in Batch, Open(b) PROVE LocksInOrder'
<1> b \in Txn
  BY DEF Txn
<1>1. PICK o \in Order(b) : plan' = [plan EXCEPT ![b] = [n \in DOMAIN o |-> Item(b, o[n])]]
  BY DEF Open
<1>2. Items[b] \in Seq(Key)
  BY ItemsAssumption
<1>3. IsFiniteSet(DOMAIN Items[b]) /\ DOMAIN Items[b] = 1 .. Len(Items[b]) /\ Len(Items[b]) \in Nat
  BY <1>2, FS_Interval
<1> DEFINE N == Cardinality(DOMAIN Items[b])
<1>4. N \in Nat
  BY <1>3, FS_CardinalityType
<1>5. o \in [1 .. N -> DOMAIN Items[b]]
  BY DEF Order, SetToSeqs
<1>6. \A m, n \in DOMAIN o : m < n => Items[b][o[m]] <= Items[b][o[n]]
  BY DEF Order
<1> DEFINE p == [n \in DOMAIN o |-> Item(b, o[n])]
<1>7. ASSUME NEW n \in 1 .. N
      PROVE  p[n] = Item(b, o[n]) /\ p[n] \in Step /\ p[n].key = Items[b][o[n]]
  <2>1. o[n] \in DOMAIN Items[b] /\ o[n] \in Nat \ {0}
    BY <1>3, <1>5
  <2>2. Items[b][o[n]] \in Key
    BY <1>2, <2>1
  <2> QED
    BY <1>5, <2>1, <2>2 DEF Item, Step, Version
<1>8. DOMAIN p = 1 .. N /\ p \in Seq(Step)
  <2>1. DOMAIN p = 1 .. N
    BY <1>5
  <2>2. p \in [1 .. N -> Step]
    BY <1>7, <2>1
  <2> QED
    BY <1>4, <2>1, <2>2
<1>9. \A m, n \in DOMAIN p : m < n => p[m].key <= p[n].key
  BY <1>5, <1>6, <1>7, <1>8
<1> HIDE DEF p
<1>10. plan' = [plan EXCEPT ![b] = p]
  BY <1>1 DEF p
<1>11. plan' \in [Txn -> Seq(Step)] /\ plan'[b] = p /\ \A c \in Txn : c # b => plan'[c] = plan[c]
  BY <1>8, <1>10 DEF LocksInOrder
<1>12. phase' = [phase EXCEPT ![b] = "open"] /\ holder' = holder /\ phase[b] = "new"
  BY DEF Open
<1>13. \A k \in Key : holder[k] # b
  BY <1>12 DEF LocksInOrder
<1>14. ASSUME NEW c \in Batch
       PROVE  \A m, n \in DOMAIN plan'[c] : m < n => plan'[c][m].key <= plan'[c][n].key
  <2>1. CASE c = b
    BY <1>9, <1>11, <2>1
  <2>2. CASE c # b
    BY <1>11, <2>2 DEF LocksInOrder, Txn
  <2> QED
    BY <2>1, <2>2
<1>15. ASSUME NEW c \in Batch, NEW k \in Key, holder'[k] = c
       PROVE  \A n \in DOMAIN plan'[c] : k <= plan'[c][n].key
  BY <1>11, <1>12, <1>13, <1>15 DEF LocksInOrder, Txn
<1>16. phase' \in [Txn -> {"new", "open", "first", "second", "committed", "failed"}]
  BY <1>12 DEF LocksInOrder
<1>17. \A c \in Batch, k \in Key : phase'[c] = "new" => holder'[k] # c
  BY <1>12 DEF LocksInOrder, Txn
<1> QED
  BY <1>11, <1>12, <1>14, <1>15, <1>16, <1>17 DEF LocksInOrder

\* The scans of the sweeps start plans in any order: they hold no batch's locks.
LEMMA ScanStep ==
    ASSUME LocksInOrder, NEW t \in Sweep, NEW ph \in {"first", "second"}, Scan(t, ph)
    PROVE  LocksInOrder'
<1> t \in Txn /\ t \notin Batch
  BY TxnAssumption DEF Txn, Sweep
<1> DEFINE C == {k \in Key : Matches(t, ph, k, Seen(t, k))}
<1>1. PICK s \in SetToSeqs(C) :
        plan' = [plan EXCEPT ![t] = [n \in DOMAIN s |-> [key |-> s[n], version |-> NULL]]]
  BY DEF Scan
<1>2. IsFiniteSet(C) /\ C \subseteq Key
  BY KeyAssumption, FS_Subset
<1> HIDE DEF C
<1>3. Cardinality(C) \in Nat
  BY <1>2, FS_CardinalityType
<1>4. s \in [1 .. Cardinality(C) -> Key]
  BY <1>2 DEF SetToSeqs
<1> DEFINE p == [n \in DOMAIN s |-> [key |-> s[n], version |-> NULL]]
<1>5. p \in [1 .. Cardinality(C) -> Step]
  BY <1>4 DEF Step
<1>6. p \in Seq(Step)
  BY <1>3, <1>5
<1> HIDE DEF p
<1>7. plan' = [plan EXCEPT ![t] = p]
  BY <1>1 DEF p
<1>8. plan' \in [Txn -> Seq(Step)] /\ \A b \in Batch : plan'[b] = plan[b]
  BY <1>6, <1>7 DEF LocksInOrder, Txn
<1>9. phase' = [phase EXCEPT ![t] = ph] /\ holder' = holder
  BY DEF Scan
<1>10. /\ phase' \in [Txn -> {"new", "open", "first", "second", "committed", "failed"}]
       /\ \A b \in Batch : phase'[b] = phase[b]
  BY <1>9 DEF LocksInOrder, Txn
<1> QED
  BY <1>8, <1>9, <1>10 DEF LocksInOrder

LEMMA RejectStep == ASSUME LocksInOrder, NEW b \in Batch, Reject(b) PROVE LocksInOrder'
BY DEF LocksInOrder, Reject, Txn

LEMMA UpsertStep == ASSUME LocksInOrder, NEW b \in Batch, Upsert(b) PROVE LocksInOrder'
<1>1. b \in Txn /\ plan[b] # << >> /\ BlockedBy(b) = NULL /\ UNCHANGED phase
  BY DEF Upsert, Txn
<1>2. Write(b, Head(plan[b]).key, Upserted(Seen(b, Head(plan[b]).key), Head(plan[b]).version))
  BY DEF Upsert
<1>3. phase[b] # "new"
  BY DEF Upsert
<1> QED
  BY <1>1, <1>2, <1>3, WriteStep

LEMMA VisitStep == ASSUME LocksInOrder, NEW t \in Sweep, Visit(t) PROVE LocksInOrder'
<1> t \in Txn /\ t \notin Batch
  BY TxnAssumption DEF Txn, Sweep
<1>1. plan[t] # << >> /\ UNCHANGED phase
  BY DEF Visit
<1> DEFINE k == Head(plan[t]).key
<1>2. CASE Matches(t, phase[t], k, Seen(t, k))
  <2>1. Write(t, k, IF t \in Cleanup THEN NULL ELSE Ended(Seen(t, k)))
    BY <1>2 DEF Visit
  <2> QED
    BY <1>1, <2>1, WriteStep
<1>3. CASE ~Matches(t, phase[t], k, Seen(t, k))
  <2>1. plan' = [plan EXCEPT ![t] = Tail(@)] /\ holder' = holder
    BY <1>3 DEF Visit
  <2>2. Tail(plan[t]) \in Seq(Step)
    BY <1>1, NextStep
  <2>3. plan' \in [Txn -> Seq(Step)] /\ \A b \in Batch : plan'[b] = plan[b]
    BY <2>1, <2>2 DEF LocksInOrder, Txn
  <2> QED
    BY <1>1, <2>1, <2>3 DEF LocksInOrder
<1> QED
  BY <1>2, <1>3

LEMMA FailStep == ASSUME LocksInOrder, NEW t \in Txn, Fail(t) PROVE LocksInOrder'
BY EndStep DEF Fail

LEMMA LocksKept == LocksInOrder /\ [Next]_vars => LocksInOrder'
<1> SUFFICES ASSUME LocksInOrder, [Next]_vars PROVE LocksInOrder'
  OBVIOUS
<1>1. CASE UNCHANGED vars
  BY <1>1, SameLocks DEF vars
<1>2. CASE \E b \in Batch : Reject(b) \/ Open(b)
  BY <1>2, RejectStep, OpenStep
<1>3. CASE \E t \in Sweep : Begin(t)
  BY <1>3, ScanStep DEF Begin
<1>4. ASSUME NEW t \in Txn, Proceed(t)
      PROVE  LocksInOrder'
  <2>1. CASE t \in Batch /\ Upsert(t)
    BY <2>1, UpsertStep
  <2>2. CASE t \in Sweep /\ Visit(t)
    BY <2>2, VisitStep
  <2>3. CASE t \in Sweep /\ Second(t)
    BY <2>3, ScanStep DEF Second
  <2>4. CASE Commit(t)
    BY <2>4, EndStep DEF Commit
  <2> QED
    BY <1>4, <2>1, <2>2, <2>3, <2>4 DEF Proceed
<1>5. CASE \E t \in Txn : Fail(t) \/ BreakDeadlock(t)
  BY <1>5, FailStep DEF BreakDeadlock
<1>6. CASE \E k \in Key : Claim(k) \/ Finish(k) \/ Cancel(k) \/ Age(k)
  BY <1>6, SameLocks DEF Claim, Finish, Cancel, Age
<1> QED
  BY <1>1, <1>2, <1>3, <1>4, <1>5, <1>6 DEF Next

-----------------------------------------------------------------------------
(* What the open transactions have written *)

\* The index of the last item of a batch for key k.
LastOf(b, k, i) == /\ i \in DOMAIN Items[b] /\ Items[b][i] = k
                 /\ \A j \in DOMAIN Items[b] : Items[b][j] = k => j <= i

Planned(b, k) == \E n \in DOMAIN plan[b] : plan[b][n].key = k

\* An open batch has written what its items make of the rows as they are, up
\* to where it stands, and of what it has still to write the last item is last.
Progress(b) ==
    /\ \A n \in DOMAIN plan[b] : \E i \in DOMAIN Items[b] :
          /\ plan[b][n] = Item(b, i)
          /\ \/ LastOf(b, Items[b][i], i)
             \/ \E m \in DOMAIN plan[b] : m > n /\ plan[b][m].key = Items[b][i]
    /\ \A k \in DOMAIN written[b] : \E i \in DOMAIN Items[b] :
          Items[b][i] = k /\ written[b][k] = Upserted(row[k], <<b, i>>)
    /\ \A i \in DOMAIN Items[b] :
          \/ Planned(b, Items[b][i])
          \/ /\ Items[b][i] \in DOMAIN written[b]
             /\ \E j : /\ LastOf(b, Items[b][i], j)
                       /\ written[b][Items[b][i]] = Upserted(row[Items[b][i]], <<b, j>>)

\* A sweep has ended runs, or deleted closed rows, as they are now.
Swept(t) == \A k \in DOMAIN written[t] :
    /\ row[k] # NULL
    /\ row[k].status = IF t \in Cleanup THEN "closed" ELSE "running"
    /\ written[t][k] = IF t \in Cleanup THEN NULL ELSE Ended(row[k])

TxnOK(t) ==
    /\ DOMAIN written[t] \subseteq Key
    /\ \A k \in DOMAIN written[t] : written[t][k] \in Row \cup {NULL} /\ holder[k] = t
    /\ t \in Batch => /\ phase[t] \in {"new", "open", "committed", "failed"}
                      /\ phase[t] = "open" => Progress(t)
                      /\ phase[t] # "open" => DOMAIN written[t] = {}
    /\ t \in Sweep => Swept(t)

RowsOK == /\ row \in [Key -> Row \cup {NULL}]
          /\ old \subseteq {k \in Key : row[k] # NULL /\ row[k].status # "pending"}

AInv == /\ LocksInOrder /\ RowsOK
        /\ written = [t \in Txn |-> written[t]]
        /\ \A t \in Txn : TxnOK(t)
-----------------------------------------------------------------------------
(* The rows, value by value *)

LEMMA RowType ==
    ASSUME NEW r \in Row
    PROVE  /\ r # NULL /\ r.status \in {"pending", "running", "closed"}
           /\ r.version \in Version \cup {NULL} /\ r.parked \in Version \cup {NULL}
           /\ r.parked # NULL => r.status = "running"
           /\ Ended(r) \in Row /\ Ended(r).status # "running"
BY RowAssumption DEF Row, Ended, Pending

LEMMA UpsertedType ==
    ASSUME NEW r \in Row \cup {NULL}, NEW v \in Version
    PROVE  Upserted(r, v) \in Row
BY RowAssumption DEF Row, Upserted, Pending

LEMMA UpsertedTwice ==
    ASSUME NEW r \in Row \cup {NULL}, NEW u \in Version, NEW v \in Version
    PROVE  Upserted(Upserted(r, u), v) = Upserted(r, v)
<1>1. CASE r # NULL /\ r.status = "running"
  <2>1. /\ Upserted(r, u) = [r EXCEPT !.parked = u] /\ Upserted(r, u) # NULL
        /\ r \in Row /\ Upserted(r, v) = [r EXCEPT !.parked = v]
    BY <1>1, UpsertedType, RowType DEF Upserted
  <2> DEFINE s == [r EXCEPT !.parked = u]
  <2>2. /\ s.status = "running" /\ [s EXCEPT !.parked = v] = [r EXCEPT !.parked = v]
    BY <1>1, <2>1 DEF Row
  <2> QED BY <2>1, <2>2 DEF Upserted
<1>2. CASE ~(r # NULL /\ r.status = "running")
  BY <1>2 DEF Upserted, Pending
<1> QED BY <1>1, <1>2

LEMMA WholeRows ==
    /\ \A r, v : Whole!Put(r, v) = Upserted(r, v)
    /\ \A r : Whole!End(r) = Ended(r)
BY DEF Whole!Put, Whole!End, Whole!Pending, Upserted, Ended, Pending

LEMMA LastItem ==
    ASSUME NEW b \in Batch, NEW k, NEW i, LastOf(b, k, i)
    PROVE  Whole!LastItem(Items[b], k) = i
<1>1. DOMAIN Items[b] \subseteq Int
  BY ItemsAssumption
<1> QED BY <1>1 DEF LastOf, Whole!LastItem

\* What the promise allows others to do.
LEMMA Deletes ==
    ASSUME NEW k \in Key, row[k] # NULL, row[k].status \in {"pending", "running", "closed"},
           row' = [j \in Key |-> IF j \in {k} THEN NULL ELSE row[j]], UNCHANGED phase
    PROVE  Whole!Next
BY DEF Whole!Next, Whole!Others, outcomeBar

LEMMA Ends ==
    ASSUME NEW K \in SUBSET Key, \A k \in K : row[k] # NULL /\ row[k].status = "running",
           row' = [j \in Key |-> IF j \in K THEN Ended(row[j]) ELSE row[j]], UNCHANGED outcomeBar
    PROVE  Whole!Next
<1>1. \A k \in K : row[k] # NULL /\ row[k].status \in {"running"}
  OBVIOUS
<1>2. row' = [j \in Key |-> IF j \in K THEN Whole!End(row[j]) ELSE row[j]]
  BY WholeRows
<1>3. Whole!Others(K, {"running"}, Whole!End)
  BY <1>1, <1>2 DEF Whole!Others
<1> QED BY <1>3 DEF Whole!Next

LEMMA Purges ==
    ASSUME NEW K \in SUBSET Key, \A k \in K : row[k] # NULL /\ row[k].status = "closed",
           row' = [j \in Key |-> IF j \in K THEN NULL ELSE row[j]], UNCHANGED outcomeBar
    PROVE  Whole!Next
<1>1. \A k \in K : row[k] # NULL /\ row[k].status \in {"closed"}
  OBVIOUS
<1>2. Whole!Others(K, {"closed"}, LAMBDA r : NULL)
  BY <1>1 DEF Whole!Others
<1> QED BY <1>2 DEF Whole!Next

LEMMA Starts ==
    ASSUME NEW k \in Key, row[k] # NULL, row[k].status = "pending",
           row' = [j \in Key |-> IF j \in {k} THEN [row[j] EXCEPT !.status = "running"]
                                 ELSE row[j]],
           UNCHANGED phase
    PROVE  Whole!Next
<1>1. Whole!Others({k}, {"pending"}, LAMBDA r : [r EXCEPT !.status = "running"])
  BY DEF Whole!Others, outcomeBar
<1> QED BY <1>1 DEF Whole!Next

LEMMA Rejects ==
    ASSUME LocksInOrder, NEW b \in Batch, phase[b] \in {"new", "open"},
           phase' = [phase EXCEPT ![b] = "failed"], UNCHANGED row
    PROVE  Whole!Next
<1>1. b \in Txn /\ Batch \subseteq Txn
  BY DEF Txn
<1>2. /\ outcomeBar[b] = "waiting"
      /\ outcomeBar' = [outcomeBar EXCEPT ![b] = "failed"]
  BY <1>1 DEF outcomeBar, LocksInOrder
<1> QED BY <1>2 DEF Whole!Next, Whole!Reject

LEMMA Stutters ==
    ASSUME UNCHANGED row, \A b \in Batch : \/ phase'[b] = phase[b]
                                           \/ {phase[b], phase'[b]} \subseteq {"new", "open"}
    PROVE  UNCHANGED Whole!vars
BY DEF Whole!vars, outcomeBar
-----------------------------------------------------------------------------
(* A transaction that does not move *)

\* Nobody else writes the rows it has locked.
LEMMA TxnKept ==
    ASSUME NEW t \in Txn, TxnOK(t), phase'[t] = phase[t], plan'[t] = plan[t],
           written'[t] = written[t],
           \A k \in DOMAIN written[t] : row'[k] = row[k] /\ holder'[k] = holder[k]
    PROVE  TxnOK(t)'
<1>1. ASSUME t \in Batch, phase[t] = "open" PROVE Progress(t)'
  <2>1. Progress(t)
    BY <1>1 DEF TxnOK
  <2>2. \A n \in DOMAIN plan'[t] : \E i \in DOMAIN Items[t] :
            /\ plan'[t][n] = Item(t, i)
            /\ \/ LastOf(t, Items[t][i], i)
               \/ \E m \in DOMAIN plan'[t] : m > n /\ plan'[t][m].key = Items[t][i]
    BY <2>1 DEF Progress
  <2>3. \A k \in DOMAIN written'[t] : \E i \in DOMAIN Items[t] :
            Items[t][i] = k /\ written'[t][k] = Upserted(row'[k], <<t, i>>)
    BY <2>1 DEF Progress
  <2>4. ASSUME NEW i \in DOMAIN Items[t], ~Planned(t, Items[t][i])'
        PROVE  /\ Items[t][i] \in DOMAIN written'[t]
               /\ \E j : /\ LastOf(t, Items[t][i], j)
                         /\ written'[t][Items[t][i]] = Upserted(row'[Items[t][i]], <<t, j>>)
    <3>1. ~Planned(t, Items[t][i])
      BY <2>4 DEF Planned
    <3> QED BY <2>1, <3>1 DEF Progress
  <2> QED BY <2>2, <2>3, <2>4 DEF Progress, Item, LastOf, Upserted, Pending
<1>2. ASSUME t \in Sweep PROVE Swept(t)'
  BY <1>2 DEF TxnOK, Swept
<1> QED BY <1>1, <1>2 DEF TxnOK

\* The rows change where nobody has locked them.
LEMMA TxnsKept ==
    ASSUME AInv, UNCHANGED tx, \A k \in Key : row'[k] = row[k] \/ holder[k] = NULL
    PROVE  /\ \A t \in Txn : TxnOK(t)'
           /\ (written = [t \in Txn |-> written[t]])'
<1>1. UNCHANGED <<phase, plan, written, holder>>
  BY DEF tx
<1>2. ASSUME NEW t \in Txn, NEW k \in DOMAIN written[t] PROVE row'[k] = row[k]
  BY <1>2, TxnAssumption DEF AInv, TxnOK, Txn, Sweep
<1> QED BY <1>1, <1>2, TxnKept DEF AInv

LEMMA ReplaceOK ==
    ASSUME RowsOK, NEW new \in [Key -> Row \cup {NULL}], Replace(new)
    PROVE  RowsOK'
BY DEF RowsOK, Replace

LEMMA OneRow ==
    ASSUME AInv, NEW k \in Key, NEW r \in Row \cup {NULL}, holder[k] = NULL, UNCHANGED tx,
           Replace([row EXCEPT ![k] = r])
    PROVE  AInv'
<1>1. LocksInOrder'
  BY SameLocks DEF AInv
<1>2. [row EXCEPT ![k] = r] \in [Key -> Row \cup {NULL}]
  BY DEF AInv, RowsOK
<1>3. RowsOK'
  BY <1>2, ReplaceOK DEF AInv
<1>4. \A j \in Key : row'[j] = row[j] \/ holder[j] = NULL
  BY DEF Replace, AInv, RowsOK
<1> QED BY <1>1, <1>3, <1>4, TxnsKept DEF AInv

LEMMA ClaimStep ==
    ASSUME AInv, NEW k \in Key, Claim(k)
    PROVE  AInv' /\ Whole!Next
<1>1. /\ row[k] \in Row /\ row[k] # NULL /\ row[k].status = "pending" /\ holder[k] = NULL
      /\ UNCHANGED tx /\ row \in [Key -> Row \cup {NULL}]
      /\ Replace([row EXCEPT ![k].status = "running"])
  BY DEF Claim, Free, AInv, RowsOK
<1>2. [row[k] EXCEPT !.status = "running"] \in Row
  BY <1>1 DEF Row
<1>3. AInv'
  BY <1>1, <1>2, OneRow
<1>4. row' = [j \in Key |-> IF j \in {k} THEN [row[j] EXCEPT !.status = "running"] ELSE row[j]]
  BY <1>1 DEF Replace
<1> QED BY <1>1, <1>3, <1>4, Starts DEF tx

LEMMA FinishStep ==
    ASSUME AInv, NEW k \in Key, Finish(k)
    PROVE  AInv' /\ Whole!Next
<1>1. /\ row[k] \in Row /\ row[k] # NULL /\ row[k].status = "running" /\ holder[k] = NULL
      /\ UNCHANGED tx /\ row \in [Key -> Row \cup {NULL}]
      /\ Replace([row EXCEPT ![k] = Ended(row[k])])
  BY DEF Finish, Free, AInv, RowsOK
<1>2. AInv'
  BY <1>1, RowType, OneRow
<1>3. row' = [j \in Key |-> IF j \in {k} THEN Ended(row[j]) ELSE row[j]]
  BY <1>1 DEF Replace
<1>4. {k} \in SUBSET Key
  OBVIOUS
<1> QED BY <1>1, <1>2, <1>3, <1>4, Ends DEF tx, outcomeBar

LEMMA CancelStep ==
    ASSUME AInv, NEW k \in Key, Cancel(k)
    PROVE  AInv' /\ Whole!Next
<1>1. /\ row[k] \in Row /\ row[k] # NULL /\ holder[k] = NULL
      /\ UNCHANGED tx /\ row \in [Key -> Row \cup {NULL}]
      /\ Replace([row EXCEPT ![k] = NULL])
  BY DEF Cancel, Free, AInv, RowsOK
<1>2. AInv'
  BY <1>1, OneRow
<1>3. row' = [j \in Key |-> IF j \in {k} THEN NULL ELSE row[j]]
  BY <1>1 DEF Replace
<1> QED BY <1>1, <1>2, <1>3, RowType, Deletes DEF tx

LEMMA AgeStep ==
    ASSUME AInv, NEW k \in Key, Age(k)
    PROVE  AInv' /\ UNCHANGED Whole!vars
<1>1. /\ UNCHANGED <<row, tx>> /\ old' = old \cup {k} /\ row[k] # NULL
      /\ row[k].status # "pending"
  BY DEF Age
<1>2. RowsOK'
  BY <1>1 DEF AInv, RowsOK
<1>3. LocksInOrder'
  BY <1>1, SameLocks DEF AInv
<1>4. AInv'
  BY <1>1, <1>2, <1>3, TxnsKept DEF AInv
<1>5. UNCHANGED Whole!vars
  BY <1>1, Stutters DEF tx
<1> QED BY <1>4, <1>5
-----------------------------------------------------------------------------
(* A transaction that moves *)

LEMMA OneMoves ==
    ASSUME AInv, NEW t \in Txn, TxnOK(t)',
           \A u \in Txn \ {t} : /\ phase'[u] = phase[u] /\ plan'[u] = plan[u]
                                /\ written'[u] = written[u]
                                /\ \A k \in DOMAIN written[u] :
                                      row'[k] = row[k] /\ holder'[k] = holder[k]
    PROVE  \A u \in Txn : TxnOK(u)'
<1> SUFFICES ASSUME NEW u \in Txn \ {t} PROVE TxnOK(u)'
  OBVIOUS
<1> QED BY TxnKept DEF AInv

\* A plan that begins, or goes on without a write.
LEMMA Replans ==
    ASSUME AInv, LocksInOrder', UNCHANGED <<row, old, written, holder>>, NEW t \in Txn, TxnOK(t)',
           \A u \in Txn \ {t} : phase'[u] = phase[u] /\ plan'[u] = plan[u]
    PROVE  AInv'
<1>1. \A u \in Txn : TxnOK(u)'
  BY OneMoves
<1>2. RowsOK' /\ (written = [u \in Txn |-> written[u]])'
  BY DEF AInv, RowsOK
<1> QED BY <1>1, <1>2 DEF AInv

LEMMA RejectWhole ==
    ASSUME AInv, NEW b \in Batch, Reject(b)
    PROVE  AInv' /\ Whole!Next
<1>1. /\ b \in Txn /\ LocksInOrder /\ TxnOK(b) /\ phase[b] = "new"
      /\ phase' = [phase EXCEPT ![b] = "failed"] /\ phase'[b] = "failed" /\ b \notin Sweep
      /\ UNCHANGED <<row, old, plan, written, holder>>
      /\ \A u \in Txn \ {b} : phase'[u] = phase[u] /\ plan'[u] = plan[u]
  BY TxnAssumption DEF AInv, Reject, Txn, Sweep, LocksInOrder
<1>2. TxnOK(b)'
  BY <1>1 DEF TxnOK
<1>3. AInv'
  BY <1>1, <1>2, RejectStep, Replans
<1> QED BY <1>1, <1>3, Rejects

\* The order of a batch: every item once, items of one key as they were given.
LEMMA OrderType ==
    ASSUME NEW b \in Batch, NEW o \in Order(b)
    PROVE  /\ DOMAIN Items[b] \subseteq Nat \ {0} /\ DOMAIN o \subseteq Int
           /\ \A n \in DOMAIN o : o[n] \in DOMAIN Items[b] /\ Items[b][o[n]] \in Key
           /\ \A i \in DOMAIN Items[b] : \E n \in DOMAIN o : o[n] = i
           /\ \A m, n \in DOMAIN o : m < n /\ Items[b][o[m]] = Items[b][o[n]] => o[m] < o[n]
<1> DEFINE D == DOMAIN Items[b]
           P == 1 .. Cardinality(D)
<1>1. Items[b] \in Seq(Key)
  BY ItemsAssumption
<1>2. IsFiniteSet(D) /\ D \subseteq Nat \ {0} /\ \A i \in D : Items[b][i] \in Key
  <2>1. D = 1 .. Len(Items[b]) /\ Len(Items[b]) \in Nat
    BY <1>1
  <2>2. IsFiniteSet(1 .. Len(Items[b]))
    BY <2>1, FS_Interval
  <2> QED BY <1>1, <2>1, <2>2
<1>3. Cardinality(D) \in Nat
  BY <1>2, FS_CardinalityType
<1>4. o \in [P -> D] /\ \A i, j \in P : i # j => o[i] # o[j]
  BY DEF Order, SetToSeqs
<1>5. o \in Injection(P, D)
  BY <1>4 DEF Injection, IsInjective
<1>6. IsFiniteSet(P) /\ Cardinality(P) = Cardinality(D)
  BY <1>3, FS_Interval
<1>7. o \in Surjection(P, D)
  BY <1>2, <1>5, <1>6, FS_Injection
<1>8. \A i \in D : \E n \in P : o[n] = i
  BY <1>7 DEF Surjection
<1> QED BY <1>2, <1>3, <1>4, <1>8 DEF Order

LEMMA OpenWhole ==
    ASSUME AInv, NEW b \in Batch, Open(b)
    PROVE  AInv' /\ UNCHANGED Whole!vars
<1>1. /\ b \in Txn /\ LocksInOrder /\ TxnOK(b) /\ phase[b] = "new"
      /\ phase' = [phase EXCEPT ![b] = "open"] /\ phase'[b] = "open" /\ b \notin Sweep
      /\ UNCHANGED <<row, old, written, holder>>
      /\ DOMAIN written[b] = {}
      /\ \A u \in Txn \ {b} : phase'[u] = phase[u]
  BY TxnAssumption DEF AInv, Open, Txn, Sweep, LocksInOrder, TxnOK
<1>2. PICK o \in Order(b) : plan' = [plan EXCEPT ![b] = [n \in DOMAIN o |-> Item(b, o[n])]]
  BY DEF Open
<1>3. /\ plan'[b] = [n \in DOMAIN o |-> Item(b, o[n])]
      /\ \A u \in Txn \ {b} : plan'[u] = plan[u]
  BY <1>1, <1>2 DEF LocksInOrder
<1>4. ASSUME NEW n \in DOMAIN plan'[b]
      PROVE  \E i \in DOMAIN Items[b] :
                /\ plan'[b][n] = Item(b, i)
                /\ \/ LastOf(b, Items[b][i], i)
                   \/ \E m \in DOMAIN plan'[b] : m > n /\ plan'[b][m].key = Items[b][i]
  <2>1. n \in DOMAIN o /\ plan'[b][n] = Item(b, o[n]) /\ o[n] \in DOMAIN Items[b] /\ n \in Int
    BY <1>3, <1>4, OrderType
  <2>2. ASSUME NEW j \in DOMAIN Items[b], Items[b][j] = Items[b][o[n]], ~(j <= o[n])
        PROVE  \E m \in DOMAIN plan'[b] : m > n /\ plan'[b][m].key = Items[b][o[n]]
    <3>1. PICK m \in DOMAIN o : o[m] = j
      BY OrderType
    <3>2. m \in Int /\ o[m] \in Nat /\ o[n] \in Nat
      BY <2>1, OrderType
    <3>3. m > n
      BY <2>1, <2>2, <3>1, <3>2, OrderType
    <3>4. m \in DOMAIN plan'[b] /\ plan'[b][m].key = Items[b][j]
      BY <1>3, <3>1 DEF Item
    <3> QED BY <2>2, <3>3, <3>4
  <2> QED BY <2>1, <2>2 DEF LastOf
<1>5. ASSUME NEW i \in DOMAIN Items[b] PROVE Planned(b, Items[b][i])'
  <2>1. PICK n \in DOMAIN o : o[n] = i
    BY OrderType
  <2>2. n \in DOMAIN plan'[b] /\ plan'[b][n].key = Items[b][i]
    BY <1>3, <2>1 DEF Item
  <2> QED BY <2>2 DEF Planned
<1>6. Progress(b)'
  BY <1>1, <1>4, <1>5 DEF Progress, Item, LastOf
<1>7. TxnOK(b)'
  BY <1>1, <1>6 DEF TxnOK
<1>8. AInv'
  BY <1>1, <1>3, <1>7, OpenStep, Replans
<1>9. UNCHANGED Whole!vars
  BY <1>1, Stutters DEF Txn
<1> QED BY <1>8, <1>9

LEMMA ScanWhole ==
    ASSUME AInv, NEW t \in Sweep, NEW ph \in {"first", "second"}, Scan(t, ph)
    PROVE  AInv' /\ UNCHANGED Whole!vars
<1>1. /\ t \in Txn /\ t \notin Batch /\ LocksInOrder /\ TxnOK(t)
      /\ UNCHANGED <<row, old, written, holder>>
      /\ \A u \in Txn \ {t} : phase'[u] = phase[u] /\ plan'[u] = plan[u]
  BY TxnAssumption DEF AInv, Scan, Txn, Sweep, LocksInOrder
<1>2. TxnOK(t)'
  BY <1>1 DEF TxnOK, Swept
<1>3. AInv'
  BY <1>1, <1>2, ScanStep, Replans
<1>4. UNCHANGED Whole!vars
  BY <1>1, Stutters DEF Txn
<1> QED BY <1>3, <1>4

LEMMA Writes ==
    ASSUME AInv, NEW t \in Txn, plan[t] # << >>, BlockedBy(t) = NULL, NEW k \in Key, NEW r,
           k = Head(plan[t]).key, Write(t, k, r)
    PROVE  /\ DOMAIN written'[t] = DOMAIN written[t] \cup {k}
           /\ written'[t][k] = r
           /\ \A j \in DOMAIN written[t] \ {k} : written'[t][j] = written[t][j]
           /\ (written = [u \in Txn |-> written[u]])'
           /\ plan'[t] = Tail(plan[t])
           /\ \A j \in DOMAIN written[t] \cup {k} : j \in Key => holder'[j] = t
           /\ \A u \in Txn \ {t} : /\ plan'[u] = plan[u] /\ written'[u] = written[u]
                                   /\ \A j \in DOMAIN written[u] : holder'[j] = holder[j]
<1>1. /\ written = [u \in Txn |-> written[u]] /\ plan \in [Txn -> Seq(Step)]
      /\ holder \in [Key -> Txn \cup {NULL}]
      /\ \A u \in Txn : \A j \in DOMAIN written[u] : holder[j] = u
  BY DEF AInv, LocksInOrder, TxnOK
<1>2. /\ written' = [written EXCEPT ![t] =
            [j \in DOMAIN written[t] \cup {k} |-> IF j = k THEN r ELSE written[t][j]]]
      /\ holder' = [holder EXCEPT ![k] = t]
      /\ plan' = [plan EXCEPT ![t] = Tail(plan[t])]
  BY DEF Write
<1>3. holder[k] \in {t, NULL}
  BY DEF BlockedBy
<1>4. NULL \notin Txn
  BY TxnAssumption DEF Txn, Sweep
<1>5. /\ written'[t] = [j \in DOMAIN written[t] \cup {k} |-> IF j = k THEN r ELSE written[t][j]]
      /\ (written = [u \in Txn |-> written[u]])'
      /\ \A u \in Txn \ {t} : written'[u] = written[u]
  BY <1>1, <1>2
<1>6. \A u \in Txn \ {t} : plan'[u] = plan[u] /\ \A j \in DOMAIN written[u] : holder'[j] = holder[j]
  BY <1>1, <1>2, <1>3, <1>4
<1>7. plan'[t] = Tail(plan[t]) /\ \A j \in DOMAIN written[t] \cup {k} : j \in Key => holder'[j] = t
  BY <1>1, <1>2
<1> QED BY <1>5, <1>6, <1>7

\* A transaction that writes the next row of its plan.
LEMMA WritesOK ==
    ASSUME AInv, LocksInOrder', NEW t \in Txn, plan[t] # << >>, BlockedBy(t) = NULL, NEW k \in Key,
           NEW r, k = Head(plan[t]).key, Write(t, k, r), UNCHANGED <<row, old, phase>>,
           TxnOK(t)'
    PROVE  AInv' /\ UNCHANGED Whole!vars
<1>1. \A u \in Txn \ {t} : /\ phase'[u] = phase[u] /\ plan'[u] = plan[u]
                           /\ written'[u] = written[u]
                           /\ \A j \in DOMAIN written[u] :
                                 row'[j] = row[j] /\ holder'[j] = holder[j]
  BY Writes
<1>2. \A u \in Txn : TxnOK(u)'
  BY <1>1, OneMoves
<1>3. RowsOK' /\ (written = [u \in Txn |-> written[u]])'
  BY Writes DEF AInv, RowsOK
<1>4. UNCHANGED Whole!vars
  BY Stutters
<1> QED BY <1>2, <1>3, <1>4 DEF AInv

LEMMA TailType ==
    ASSUME LocksInOrder, NEW t \in Txn, plan[t] # << >>
    PROVE  /\ 1 \in DOMAIN plan[t] /\ Head(plan[t]) = plan[t][1]
           /\ \A n \in DOMAIN plan[t] : n \in Nat
           /\ \A n \in DOMAIN Tail(plan[t]) :
                 n \in Nat /\ n + 1 \in DOMAIN plan[t] /\ Tail(plan[t])[n] = plan[t][n + 1]
           /\ \A n \in DOMAIN plan[t] :
                 n > 1 => n - 1 \in DOMAIN Tail(plan[t]) /\ Tail(plan[t])[n - 1] = plan[t][n]
<1>1. plan[t] \in Seq(Step) /\ Len(plan[t]) \in Nat \ {0}
  BY NextStep DEF LocksInOrder
<1> QED BY <1>1

LEMMA UpsertWhole ==
    ASSUME AInv, NEW b \in Batch, Upsert(b)
    PROVE  AInv' /\ UNCHANGED Whole!vars
<1> DEFINE k == Head(plan[b]).key
           v == Head(plan[b]).version
           r == Upserted(Seen(b, k), v)
<1>1. /\ b \in Txn /\ b \notin Sweep /\ LocksInOrder /\ TxnOK(b) /\ phase[b] = "open"
      /\ plan[b] # << >> /\ BlockedBy(b) = NULL /\ Write(b, k, r)
      /\ UNCHANGED <<row, old, phase>> /\ Progress(b) /\ k \in Key
      /\ row[k] \in Row \cup {NULL}
  BY TxnAssumption, NextStep DEF AInv, Upsert, Txn, Sweep, TxnOK, RowsOK
<1>2. PICK i \in DOMAIN Items[b] :
         /\ plan[b][1] = Item(b, i)
         /\ \/ LastOf(b, Items[b][i], i)
            \/ \E m \in DOMAIN plan[b] : m > 1 /\ plan[b][m].key = Items[b][i]
  BY <1>1, TailType DEF Progress
<1>3. k = Items[b][i] /\ v = <<b, i>>
  BY <1>1, <1>2, TailType DEF Item
<1>4. \A j \in DOMAIN Items[b] : <<b, j>> \in Version
  BY ItemsAssumption DEF Version
<1>5. r = Upserted(row[k], <<b, i>>) /\ r \in Row
  <2>1. CASE k \in DOMAIN written[b]
    <3>1. PICK j \in DOMAIN Items[b] : written[b][k] = Upserted(row[k], <<b, j>>)
      BY <1>1, <2>1 DEF Progress
    <3> HIDE DEF k, v
    <3> QED BY <1>1, <1>3, <1>4, <2>1, <3>1, UpsertedTwice, UpsertedType DEF Seen
  <2>2. CASE k \notin DOMAIN written[b]
    BY <1>1, <1>3, <1>4, <2>2, UpsertedType DEF Seen
  <2> QED BY <2>1, <2>2
<1> HIDE DEF k, v, r
<1>6. /\ DOMAIN written'[b] = DOMAIN written[b] \cup {k} /\ written'[b][k] = r
      /\ \A j \in DOMAIN written[b] \ {k} : written'[b][j] = written[b][j]
      /\ plan'[b] = Tail(plan[b])
      /\ \A j \in DOMAIN written[b] \cup {k} : j \in Key => holder'[j] = b
  BY <1>1, Writes DEF k
<1>7. ASSUME NEW n \in DOMAIN plan'[b]
      PROVE  \E j \in DOMAIN Items[b] :
                /\ plan'[b][n] = Item(b, j)
                /\ \/ LastOf(b, Items[b][j], j)
                   \/ \E m \in DOMAIN plan'[b] : m > n /\ plan'[b][m].key = Items[b][j]
  <2>1. n \in Nat /\ n + 1 \in DOMAIN plan[b] /\ plan'[b][n] = plan[b][n + 1]
    BY <1>1, <1>6, <1>7, TailType
  <2>2. PICK j \in DOMAIN Items[b] :
           /\ plan[b][n + 1] = Item(b, j)
           /\ \/ LastOf(b, Items[b][j], j)
              \/ \E m \in DOMAIN plan[b] : m > n + 1 /\ plan[b][m].key = Items[b][j]
    BY <1>1, <2>1 DEF Progress
  <2>3. ASSUME NEW m \in DOMAIN plan[b], m > n + 1
        PROVE  m - 1 \in DOMAIN plan'[b] /\ m - 1 > n /\ plan'[b][m - 1] = plan[b][m]
    <3>1. m \in Nat /\ m > 1
      BY <1>1, <2>1, <2>3, TailType
    <3> QED BY <1>1, <1>6, <2>1, <2>3, <3>1, TailType
  <2> QED BY <2>1, <2>2, <2>3
<1>8. \A j \in DOMAIN written'[b] : \E l \in DOMAIN Items[b] :
          Items[b][l] = j /\ written'[b][j] = Upserted(row'[j], <<b, l>>)
  BY <1>1, <1>3, <1>5, <1>6 DEF Progress
<1>9. ASSUME NEW l \in DOMAIN Items[b], ~Planned(b, Items[b][l])'
      PROVE  /\ Items[b][l] \in DOMAIN written'[b]
             /\ \E j : /\ LastOf(b, Items[b][l], j)
                       /\ written'[b][Items[b][l]] = Upserted(row'[Items[b][l]], <<b, j>>)
  <2>1. \A m \in DOMAIN plan[b] : m > 1 => plan[b][m].key # Items[b][l]
    BY <1>1, <1>6, <1>9, TailType DEF Planned
  <2>2. CASE Items[b][l] = k
    <3>1. LastOf(b, k, i)
      BY <1>2, <1>3, <2>1, <2>2
    <3>2. row' = row
      BY <1>1
    <3> QED BY <1>5, <1>6, <2>2, <3>1, <3>2
  <2>3. CASE Items[b][l] # k
    <3>1. \A m \in DOMAIN plan[b] : m \in Nat /\ (m > 1 \/ m = 1)
      <4>1. plan[b] \in Seq(Step)
        BY <1>1 DEF LocksInOrder
      <4> QED BY <4>1
    <3>2. plan[b][1].key = k
      BY <1>2, <1>3 DEF Item
    <3>3. ~Planned(b, Items[b][l])
      BY <2>1, <2>3, <3>1, <3>2 DEF Planned
    <3> QED BY <1>1, <1>6, <2>3, <3>3 DEF Progress
  <2> QED BY <2>2, <2>3
<1>10. Progress(b)'
  BY <1>7, <1>8, <1>9 DEF Progress, Item, LastOf, Upserted, Pending
<1>11. \A j \in DOMAIN written'[b] : written'[b][j] \in Row \cup {NULL}
  BY <1>1, <1>5, <1>6 DEF TxnOK
<1>12. DOMAIN written'[b] \subseteq Key /\ \A j \in DOMAIN written'[b] : holder'[j] = b
  BY <1>1, <1>6 DEF TxnOK
<1>13. TxnOK(b)'
  BY <1>1, <1>10, <1>11, <1>12 DEF TxnOK
<1>14. LocksInOrder'
  BY <1>1, UpsertStep
<1> QED BY <1>1, <1>13, <1>14, WritesOK DEF k

LEMMA VisitWhole ==
    ASSUME AInv, NEW t \in Sweep, Visit(t)
    PROVE  AInv' /\ UNCHANGED Whole!vars
<1> DEFINE k == Head(plan[t]).key
           r == IF t \in Cleanup THEN NULL ELSE Ended(Seen(t, k))
<1>1. /\ t \in Txn /\ t \notin Batch /\ LocksInOrder /\ TxnOK(t) /\ Swept(t)
      /\ plan[t] # << >> /\ BlockedBy(t) = NULL /\ k \in Key /\ row[k] \in Row \cup {NULL}
      /\ UNCHANGED <<row, old, phase>> /\ LocksInOrder'
  BY TxnAssumption, NextStep, VisitStep DEF AInv, Visit, Txn, Sweep, TxnOK, RowsOK
<1>2. CASE ~Matches(t, phase[t], k, Seen(t, k))
  <2>1. /\ plan' = [plan EXCEPT ![t] = Tail(plan[t])] /\ UNCHANGED <<written, holder>>
        /\ \A u \in Txn \ {t} : plan'[u] = plan[u]
    BY <1>1, <1>2 DEF Visit, LocksInOrder
  <2>2. TxnOK(t)'
    BY <1>1, <2>1 DEF TxnOK, Swept
  <2>3. AInv'
    BY <1>1, <2>1, <2>2, Replans
  <2>4. UNCHANGED Whole!vars
    BY <1>1, Stutters
  <2> QED BY <2>3, <2>4
<1>3. CASE Matches(t, phase[t], k, Seen(t, k))
  <2>1. Write(t, k, r)
    BY <1>3 DEF Visit
  <2>2. /\ Seen(t, k) # NULL
        /\ Seen(t, k).status = IF t \in Cleanup THEN "closed" ELSE "running"
    BY <1>3 DEF Matches
  <2>3. k \notin DOMAIN written[t]
    <3> SUFFICES ASSUME k \in DOMAIN written[t] PROVE FALSE
      OBVIOUS
    <3>1. Seen(t, k) = IF t \in Cleanup THEN NULL ELSE Ended(row[k])
      BY <1>1 DEF Seen, Swept
    <3>2. row[k] \in Row
      BY <1>1 DEF Swept
    <3> QED BY <2>2, <3>1, <3>2, RowType
  <2>4. /\ Seen(t, k) = row[k] /\ row[k] \in Row
        /\ r = IF t \in Cleanup THEN NULL ELSE Ended(row[k])
        /\ r \in Row \cup {NULL}
    BY <1>1, <2>2, <2>3, RowType DEF Seen
  <2> HIDE DEF k, r
  <2>5. /\ DOMAIN written'[t] = DOMAIN written[t] \cup {k} /\ written'[t][k] = r
        /\ \A j \in DOMAIN written[t] \ {k} : written'[t][j] = written[t][j]
        /\ \A j \in DOMAIN written[t] \cup {k} : j \in Key => holder'[j] = t
    BY <1>1, <2>1, Writes DEF k
  <2>6. Swept(t)'
    BY <1>1, <2>2, <2>4, <2>5 DEF Swept, Ended, Pending
  <2>7. TxnOK(t)'
    BY <1>1, <2>4, <2>5, <2>6 DEF TxnOK
  <2> QED BY <1>1, <2>1, <2>7, WritesOK DEF k
<1> QED BY <1>2, <1>3
-----------------------------------------------------------------------------
(* The end of a transaction *)

LEMMA EndOK ==
    ASSUME AInv, NEW t \in Txn, NEW to \in {"committed", "failed"}, End(t, to), RowsOK',
           \A k \in Key : row'[k] = row[k] \/ k \in DOMAIN written[t]
    PROVE  AInv'
<1>1. /\ written = [u \in Txn |-> written[u]] /\ plan \in [Txn -> Seq(Step)]
      /\ holder \in [Key -> Txn \cup {NULL}] /\ TxnOK(t)
      /\ \A u \in Txn : \A j \in DOMAIN written[u] : holder[j] = u /\ j \in Key
      /\ phase \in [Txn -> {"new", "open", "first", "second", "committed", "failed"}]
  BY DEF AInv, LocksInOrder, TxnOK
<1>2. /\ written'[t] = Nothing /\ (written = [u \in Txn |-> written[u]])'
      /\ t \in Batch => phase'[t] = to
      /\ \A u \in Txn \ {t} : /\ phase'[u] = phase[u] /\ plan'[u] = plan[u]
                              /\ written'[u] = written[u]
                              /\ \A j \in DOMAIN written[u] : holder'[j] = holder[j]
  BY <1>1 DEF End
<1>3. DOMAIN written'[t] = {}
  BY <1>2 DEF Nothing
<1>4. TxnOK(t)'
  BY <1>2, <1>3 DEF TxnOK, Swept
<1>5. ASSUME NEW u \in Txn \ {t}, NEW j \in DOMAIN written[u] PROVE row'[j] = row[j]
  BY <1>1, <1>5
<1>6. \A u \in Txn : TxnOK(u)'
  BY <1>2, <1>4, <1>5, OneMoves
<1>7. LocksInOrder'
  BY EndStep DEF AInv
<1> QED BY <1>2, <1>6, <1>7 DEF AInv

LEMMA FailWhole ==
    ASSUME AInv, NEW t \in Txn, Fail(t)
    PROVE  AInv' /\ [Whole!Next]_Whole!vars
<1>1. /\ IsOpen(t) /\ End(t, "failed") /\ UNCHANGED <<row, old>> /\ TxnOK(t) /\ LocksInOrder
      /\ phase \in [Txn -> {"new", "open", "first", "second", "committed", "failed"}]
  BY DEF Fail, AInv, LocksInOrder
<1>2. RowsOK'
  BY <1>1 DEF AInv, RowsOK
<1>3. AInv'
  BY <1>1, <1>2, EndOK
<1>4. CASE t \in Batch
  <2>1. phase[t] = "open" /\ phase' = [phase EXCEPT ![t] = "failed"]
    BY <1>1, <1>4 DEF IsOpen, TxnOK, End
  <2> QED BY <1>1, <1>3, <1>4, <2>1, Rejects
<1>5. CASE t \notin Batch
  <2>1. \A b \in Batch : phase'[b] = phase[b]
    BY <1>1, <1>5 DEF End, Txn
  <2> QED BY <1>1, <1>3, <2>1, Stutters
<1> QED BY <1>4, <1>5

LEMMA CommitOK ==
    ASSUME AInv, NEW t \in Txn, Commit(t)
    PROVE  /\ AInv' /\ row' = [k \in Key |-> Seen(t, k)]
           /\ End(t, "committed") /\ TxnOK(t) /\ DOMAIN written[t] \subseteq Key
<1>1. /\ TxnOK(t) /\ RowsOK /\ End(t, "committed")
      /\ Replace([k \in Key |-> Seen(t, k)])
  BY DEF AInv, Commit
<1>2. [k \in Key |-> Seen(t, k)] \in [Key -> Row \cup {NULL}]
  <2> SUFFICES ASSUME NEW k \in Key PROVE Seen(t, k) \in Row \cup {NULL}
    OBVIOUS
  <2> QED BY <1>1 DEF Seen, TxnOK, RowsOK
<1>3. RowsOK'
  BY <1>1, <1>2, ReplaceOK
<1>4. row' = [k \in Key |-> Seen(t, k)]
  BY <1>1 DEF Replace
<1>5. \A k \in Key : row'[k] = row[k] \/ k \in DOMAIN written[t]
  BY <1>4 DEF Seen
<1> QED BY <1>1, <1>3, <1>4, <1>5, EndOK DEF TxnOK

\* The commit of a batch applies all its items to the rows as they are.
LEMMA CommitApplies ==
    ASSUME AInv, NEW b \in Batch, Commit(b)
    PROVE  AInv' /\ Whole!Next
<1>1. /\ b \in Txn /\ AInv' /\ row' = [k \in Key |-> Seen(b, k)] /\ End(b, "committed")
      /\ TxnOK(b) /\ phase[b] = "open" /\ plan[b] = << >>
      /\ phase \in [Txn -> {"new", "open", "first", "second", "committed", "failed"}]
  BY CommitOK DEF Commit, LastPhase, Txn, AInv, LocksInOrder
<1>2. Progress(b) /\ ~\E k : Planned(b, k)
  BY <1>1 DEF TxnOK, Planned
<1>3. /\ outcomeBar[b] = "waiting"
      /\ outcomeBar' = [outcomeBar EXCEPT ![b] = "committed"]
  <2>1. phase' = [phase EXCEPT ![b] = "committed"] /\ Batch \subseteq Txn
    BY <1>1 DEF End, Txn
  <2> QED BY <1>1, <2>1 DEF outcomeBar
<1>4. ASSUME NEW k \in Key
      PROVE  Seen(b, k) = IF \E i \in DOMAIN Items[b] : Items[b][i] = k
                          THEN Whole!Put(row[k], <<b, Whole!LastItem(Items[b], k)>>)
                          ELSE row[k]
  <2>1. CASE \E i \in DOMAIN Items[b] : Items[b][i] = k
    <3>1. PICK i \in DOMAIN Items[b] : Items[b][i] = k
      BY <2>1
    <3>2. PICK j : /\ k \in DOMAIN written[b] /\ LastOf(b, k, j)
                   /\ written[b][k] = Upserted(row[k], <<b, j>>)
      BY <1>2, <3>1 DEF Progress
    <3>3. Whole!LastItem(Items[b], k) = j
      BY <3>2, LastItem
    <3>4. Whole!Put(row[k], <<b, j>>) = Upserted(row[k], <<b, j>>)
      BY WholeRows
    <3> QED BY <2>1, <3>2, <3>3, <3>4 DEF Seen
  <2>2. CASE ~\E i \in DOMAIN Items[b] : Items[b][i] = k
    <3>1. k \notin DOMAIN written[b]
      BY <1>2, <2>2 DEF Progress
    <3> QED BY <2>2, <3>1 DEF Seen
  <2> QED BY <2>1, <2>2
<1>5. Whole!Apply(b)
  <2>1. row' = [k \in Key |-> IF \E i \in DOMAIN Items[b] : Items[b][i] = k
                              THEN Whole!Put(row[k], <<b, Whole!LastItem(Items[b], k)>>)
                              ELSE row[k]]
    BY <1>1, <1>4
  <2> QED BY <1>3, <2>1 DEF Whole!Apply
<1> QED BY <1>1, <1>5 DEF Whole!Next

LEMMA CommitSweeps ==
    ASSUME AInv, NEW t \in Sweep, Commit(t)
    PROVE  AInv' /\ Whole!Next
<1>1. /\ t \in Txn /\ t \notin Batch /\ AInv' /\ row' = [k \in Key |-> Seen(t, k)]
      /\ End(t, "committed") /\ TxnOK(t) /\ DOMAIN written[t] \in SUBSET Key
      /\ phase \in [Txn -> {"new", "open", "first", "second", "committed", "failed"}]
  BY TxnAssumption, CommitOK DEF Txn, Sweep, AInv, LocksInOrder
<1>2. Swept(t)
  BY <1>1 DEF TxnOK
<1>3. UNCHANGED outcomeBar
  <2>1. phase' = [phase EXCEPT ![t] = "new"]
    BY <1>1 DEF End
  <2> QED BY <1>1, <2>1 DEF outcomeBar, Txn
<1>4. CASE t \in Cleanup
  <2>1. row' = [k \in Key |-> IF k \in DOMAIN written[t] THEN NULL ELSE row[k]]
    BY <1>1, <1>2, <1>4 DEF Seen, Swept
  <2>2. \A k \in DOMAIN written[t] : row[k] # NULL /\ row[k].status = "closed"
    BY <1>2, <1>4 DEF Swept
  <2> QED BY <1>1, <1>3, <2>1, <2>2, Purges
<1>5. CASE t \notin Cleanup
  <2>1. row' = [k \in Key |-> IF k \in DOMAIN written[t] THEN Ended(row[k]) ELSE row[k]]
    BY <1>1, <1>2, <1>5 DEF Seen, Swept
  <2>2. \A k \in DOMAIN written[t] : row[k] # NULL /\ row[k].status = "running"
    BY <1>2, <1>5 DEF Swept
  <2> QED BY <1>1, <1>3, <2>1, <2>2, Ends
<1> QED BY <1>4, <1>5
-----------------------------------------------------------------------------
(* The whole system *)

LEMMA InitWhole == Init => AInv /\ Whole!Init
<1> SUFFICES ASSUME Init PROVE AInv /\ Whole!Init
  OBVIOUS
<1>1. /\ LocksInOrder /\ old = {} /\ written = [t \in Txn |-> Nothing] /\ DOMAIN Nothing = {}
      /\ \A t \in Txn : phase[t] = "new"
      /\ row \in [Key -> {NULL} \cup [status : {"pending", "running", "closed"},
                                      version : {NULL}, parked : {NULL}]]
  BY InitLocks DEF Init, Nothing
<1>2. [status : {"pending", "running", "closed"}, version : {NULL}, parked : {NULL}] \subseteq Row
  BY DEF Row
<1>3. RowsOK
  BY <1>1, <1>2 DEF RowsOK
<1>4. ASSUME NEW t \in Txn PROVE TxnOK(t)
  BY <1>1 DEF TxnOK, Swept
<1>5. Whole!Init
  BY <1>1 DEF Whole!Init, outcomeBar, Txn
<1> QED BY <1>1, <1>3, <1>4, <1>5 DEF AInv

LEMMA NextWhole == AInv /\ [Next]_vars => AInv' /\ [Whole!Next]_Whole!vars
<1> SUFFICES ASSUME AInv, [Next]_vars PROVE AInv' /\ [Whole!Next]_Whole!vars
  OBVIOUS
<1>1. CASE UNCHANGED vars
  <2>1. UNCHANGED tx /\ UNCHANGED <<row, old, phase>> /\ LocksInOrder' /\ RowsOK'
    BY <1>1, SameLocks DEF vars, tx, AInv, RowsOK
  <2>2. AInv'
    BY <2>1, TxnsKept DEF AInv
  <2> QED BY <2>1, <2>2, Stutters
<1>2. CASE \E b \in Batch : Reject(b) \/ Open(b)
  BY <1>2, RejectWhole, OpenWhole
<1>3. CASE \E t \in Sweep : Begin(t)
  BY <1>3, ScanWhole DEF Begin
<1>4. ASSUME NEW t \in Txn, Proceed(t)
      PROVE  AInv' /\ [Whole!Next]_Whole!vars
  <2>1. CASE t \in Batch /\ Upsert(t)
    BY <2>1, UpsertWhole
  <2>2. CASE t \in Sweep /\ Visit(t)
    BY <2>2, VisitWhole
  <2>3. CASE t \in Sweep /\ Second(t)
    BY <2>3, ScanWhole DEF Second
  <2>4. CASE Commit(t)
    BY <2>4, CommitApplies, CommitSweeps DEF Txn
  <2> QED BY <1>4, <2>1, <2>2, <2>3, <2>4 DEF Proceed
<1>5. CASE \E t \in Txn : Fail(t) \/ BreakDeadlock(t)
  BY <1>5, FailWhole DEF BreakDeadlock
<1>6. CASE \E k \in Key : Claim(k) \/ Finish(k) \/ Cancel(k) \/ Age(k)
  BY <1>6, ClaimStep, FinishStep, CancelStep, AgeStep
<1> QED BY <1>1, <1>2, <1>3, <1>4, <1>5, <1>6 DEF Next

\* The type of every variable: what a transaction has written it has locked,
\* and a version is parked on a running row only.
THEOREM BatchesTyped == Spec => []TypeOK
<1>1. Init => AInv
  BY InitWhole
<1>2. AInv /\ [Next]_vars => AInv'
  BY NextWhole
<1>3. AInv => TypeOK
  BY DEF AInv, LocksInOrder, RowsOK, TxnOK, TypeOK, Step
<1> QED BY <1>1, <1>2, <1>3, PTL DEF Spec

\* upsert_many is all or nothing: whatever is locked, swept, ended or claimed
\* between its first write and its commit, the commit applies every item to
\* the rows as they are then, in input order, and a batch that fails has done
\* nothing.
THEOREM BatchesAreWhole == Spec => ImplementsAtomicBatches
<1>1. Init => AInv /\ Whole!Init
  BY InitWhole
<1>2. AInv /\ [Next]_vars => AInv' /\ [Whole!Next]_Whole!vars
  BY NextWhole
<1> QED BY <1>1, <1>2, PTL DEF Spec, ImplementsAtomicBatches, Whole!Spec

\* upsert_many: "two batches with overlapping ids lock rows in the same order
\* and cannot deadlock", for any number of batches of any items, whatever
\* reapers, cleanups and workers do between their steps.
THEOREM BatchesCannotDeadlock == Spec => []NoBatchDeadlock
<1>1. Init => LocksInOrder
  BY InitLocks
<1>2. LocksInOrder /\ [Next]_vars => LocksInOrder'
  BY LocksKept
<1>3. LocksInOrder => NoBatchDeadlock
  BY NoCircle
<1> QED
  BY <1>1, <1>2, <1>3, PTL DEF Spec
=============================================================================
