--------------------------- MODULE ForkPoolsProofs ---------------------------
(***************************************************************************)
(* The properties of ForkPools for every number of processes, of instances *)
(* and of connections, and every shape of the tree of forks.               *)
(***************************************************************************)
EXTENDS ForkPools, FiniteSetTheorems, TLAPS

\* Which process has which connection, and what is known of its session.
Owned ==
    /\ \A c \in Conn : owner[c] # NULL <=> server[c] # "none"
    /\ \A c \in Conn : owner[c] # NULL => up[owner[c]] # "none"
    /\ \A p \in Proc : \A c \in holds[p] : server[c] # "none"
    /\ \A p \in Proc : \A c \in holds[p] : owner[c] = p => c \in pool[p] \cup out[p]
    /\ \A p \in Proc : up[p] # "running" => holds[p] = {}
    /\ \A p \in Proc : \A c \in pool[p] \cup out[p] : of[c] \in live[p]

\* A session is alive as long as its owner holds it, or was killed.
Alive == \A c \in Conn : server[c] = "alive" =>
    \/ up[owner[c]] = "running" /\ c \in holds[owner[c]]
    \/ up[owner[c]] = "killed"

\* Only its owner speaks on a session no fork found open.
Alone ==
    /\ \A p \in Proc : \A c \in out[p] \ shared : owner[c] = p
    /\ \A c \in Conn \ shared : spoke[c] \subseteq {owner[c]}

IInv == TypeOK /\ Owned /\ Alive /\ Alone /\ SessionsSurvive /\ CleanExit

USE ProcAssumption
-----------------------------------------------------------------------------
LEMMA InitInv == Init => IInv
BY DEF Init, IInv, TypeOK, Owned, Alive, Alone, SessionsSurvive, CleanExit

LEMMA CreateStep ==
    ASSUME IInv, NEW p \in Proc, NEW i \in Instance, Create(p, i) PROVE IInv'
<1>1. TypeOK'
  BY DEF IInv, TypeOK, Create
<1>2. Owned'
  BY DEF IInv, TypeOK, Owned, Create
<1>3. Alive' /\ Alone' /\ SessionsSurvive' /\ CleanExit'
  BY DEF IInv, Alive, Alone, SessionsSurvive, CleanExit, Create
<1> QED
  BY <1>1, <1>2, <1>3 DEF IInv

LEMMA CheckOutStep ==
    ASSUME IInv, NEW p \in Proc, NEW i \in Instance, CheckOut(p, i) PROVE IInv'
<1> DEFINE Old(c) == c \in Idle(p, i) /\ UNCHANGED <<holds, of, owner, server>>
           New(c) == /\ server[c] = "none"
                     /\ holds' = [holds EXCEPT ![p] = @ \cup {c}]
                     /\ of' = [of EXCEPT ![c] = i]
                     /\ owner' = [owner EXCEPT ![c] = p]
                     /\ server' = [server EXCEPT ![c] = "alive"]
<1>1. PICK c \in Conn :
        /\ Old(c) \/ New(c)
        /\ pool' = [pool EXCEPT ![p] = @ \ {c}]
        /\ out' = [out EXCEPT ![p] = @ \cup {c}]
        /\ spoke' = [spoke EXCEPT ![c] = @ \cup {p}]
  BY DEF CheckOut
<1>2. UNCHANGED <<up, live, shared>> /\ up[p] = "running" /\ i \in live[p]
  BY DEF CheckOut, Running
<1>3. CASE Old(c)
  <2>1. c \in pool[p] /\ owner[c] = p /\ c \in holds[p]
    BY <1>3 DEF Idle, IInv, TypeOK
  <2>2. TypeOK'
    BY <1>1, <1>2, <1>3, <2>1 DEF IInv, TypeOK
  <2>3. Owned'
    BY <1>1, <1>2, <1>3, <2>1 DEF IInv, TypeOK, Owned
  <2>4. Alive' /\ CleanExit'
    BY <1>2, <1>3 DEF IInv, Alive, CleanExit
  <2>5. Alone'
    BY <1>1, <1>2, <1>3, <2>1 DEF IInv, TypeOK, Alone
  <2>6. SessionsSurvive'
    BY <1>1, <1>2, <1>3, <2>1 DEF IInv, TypeOK, SessionsSurvive
  <2> QED
    BY <2>2, <2>3, <2>4, <2>5, <2>6 DEF IInv
<1>4. CASE New(c)
  <2>1. \A q \in Proc : c \notin holds[q] /\ c \notin pool[q] \cup out[q]
    BY <1>4 DEF IInv, TypeOK, Owned
  <2>2. owner[c] = NULL
    BY <1>4 DEF IInv, Owned
  <2>3. TypeOK'
    BY <1>1, <1>2, <1>4, <2>1 DEF IInv, TypeOK
  <2>4. Owned'
    BY <1>1, <1>2, <1>4, <2>1 DEF IInv, TypeOK, Owned
  <2>5. Alive'
    BY <1>1, <1>2, <1>4, <2>1 DEF IInv, TypeOK, Alive
  <2>6. CleanExit'
    BY <1>1, <1>2, <1>4 DEF IInv, TypeOK, CleanExit
  <2>7. Alone'
    BY <1>1, <1>2, <1>4, <2>1, <2>2 DEF IInv, TypeOK, Alone
  <2>8. SessionsSurvive'
    BY <1>1, <1>2, <1>4, <2>1 DEF IInv, TypeOK, SessionsSurvive
  <2> QED
    BY <2>3, <2>4, <2>5, <2>6, <2>7, <2>8 DEF IInv
<1> QED
  BY <1>1, <1>3, <1>4

LEMMA ReturnStep ==
    ASSUME IInv, NEW p \in Proc, NEW c \in Conn, Return(p, c) PROVE IInv'
<1>1. TypeOK'
  BY DEF IInv, TypeOK, Owned, Return
<1>2. Owned'
  BY DEF IInv, TypeOK, Owned, Return
<1>3. Alive' /\ SessionsSurvive' /\ CleanExit'
  BY DEF IInv, TypeOK, Alive, SessionsSurvive, CleanExit, Return
<1>4. Alone'
  BY DEF IInv, TypeOK, Alone, Return
<1> QED
  BY <1>1, <1>2, <1>3, <1>4 DEF IInv

LEMMA CloseStep ==
    ASSUME IInv, NEW p \in Proc, NEW i \in Instance, Close(p, i) PROVE IInv'
<1>1. TypeOK'
  BY DEF IInv, TypeOK, Close, Idle, Goodbye
<1>2. Owned'
  BY DEF IInv, TypeOK, Owned, Close, Idle, Goodbye
<1>3. Alive'
  BY DEF IInv, TypeOK, Owned, Alive, Close, Idle, Goodbye
<1>4. Alone'
  BY DEF IInv, TypeOK, Alone, Close, Idle
<1>5. SessionsSurvive'
  BY DEF IInv, TypeOK, SessionsSurvive, Close, Idle, Goodbye
<1>6. CleanExit'
  BY DEF IInv, TypeOK, CleanExit, Close, Idle, Goodbye
<1> QED
  BY <1>1, <1>2, <1>3, <1>4, <1>5, <1>6 DEF IInv

\* The hook leaves the child no pooled connection.
LEMMA ForkStep ==
    ASSUME IInv, NEW p \in Proc, NEW q \in Proc, Fork(p, q) PROVE IInv'
<1>1. Reset(p) = {}
  BY DEF IInv, Owned, Reset
<1>2. \A c \in Conn : owner[c] # q
  BY DEF IInv, Owned, Fork
<1>3. TypeOK'
  BY <1>1 DEF IInv, TypeOK, Fork, Running
<1>4. Owned'
  BY <1>1, <1>2 DEF IInv, TypeOK, Owned, Fork, Running
<1>5. Alive'
  BY <1>2 DEF IInv, TypeOK, Owned, Alive, Fork, Running
<1>6. Alone'
  BY <1>1 DEF IInv, TypeOK, Alone, Fork
<1>7. SessionsSurvive'
  BY <1>1, <1>2 DEF IInv, TypeOK, SessionsSurvive, Fork
<1>8. CleanExit'
  BY DEF IInv, TypeOK, CleanExit, Fork
<1> QED
  BY <1>3, <1>4, <1>5, <1>6, <1>7, <1>8 DEF IInv

\* A process that is gone ends no session of another: those it says goodbye on
\* are its own, and those it abandons nobody else holds.
LEMMA GoneStep ==
    ASSUME IInv, NEW p \in Proc, Running(p), NEW how \in {"exited", "killed"},
           NEW C \in SUBSET pool[p], Gone(p, how, C),
           how = "exited" => C = pool[p] /\ out[p] = {}
    PROVE  IInv'
<1>1. \A c \in Conn : server'[c] \in {server[c], "ended", "abandoned"}
  BY DEF IInv, TypeOK, Gone, AfterDeath, Goodbye
<1>2. \A c \in Conn : server'[c] # server[c] =>
        /\ server[c] # "none" /\ \A q \in Proc \ {p} : c \in holds[q] => owner[c] = p /\ c \in pool[p]
  BY DEF IInv, TypeOK, Owned, Gone, AfterDeath, Goodbye
<1>3. TypeOK'
  BY <1>1 DEF IInv, TypeOK, Gone, AfterDeath, Goodbye
<1>4. Owned'
  BY <1>1, <1>2 DEF IInv, TypeOK, Owned, Gone
<1>5. ASSUME NEW c \in Conn, server'[c] = "alive"
      PROVE  \/ up'[owner[c]] = "running" /\ c \in holds'[owner[c]]
             \/ up'[owner[c]] = "killed"
  <2>1. server[c] = "alive" /\ c \notin C
    BY <1>5 DEF IInv, TypeOK, Gone, AfterDeath, Goodbye
  <2>2. owner[c] \in Proc
    BY <2>1 DEF IInv, TypeOK, Owned
  <2>3. CASE owner[c] = p
    <3>1. c \in pool[p] \cup out[p]
      BY <2>1, <2>3 DEF IInv, Owned, Alive, Running
    <3>2. how = "killed"
      BY <2>1, <3>1
    <3> QED
      BY <2>3, <3>2 DEF IInv, TypeOK, Gone
  <2>4. CASE owner[c] # p
    BY <2>1, <2>2, <2>4 DEF IInv, TypeOK, Alive, Gone
  <2> QED
    BY <2>3, <2>4
<1>6. Alone'
  BY DEF IInv, TypeOK, Alone, Gone
<1>7. SessionsSurvive'
  BY <1>2 DEF IInv, TypeOK, SessionsSurvive, Gone
<1>8. CleanExit'
  BY <1>1, <1>2 DEF IInv, TypeOK, Owned, Alive, CleanExit, Gone, AfterDeath, Goodbye, Running
<1>9. Alive'
  BY <1>5 DEF Alive, Gone
<1> QED
  BY <1>3, <1>4, <1>6, <1>7, <1>8, <1>9 DEF IInv

LEMMA ExitStep == ASSUME IInv, NEW p \in Proc, Exit(p) PROVE IInv'
<1>1. {c \in pool[p] : of[c] \in live[p]} = pool[p]
  BY DEF IInv, Owned
<1> QED
  BY <1>1, GoneStep DEF Exit

LEMMA KillStep == ASSUME IInv, NEW p \in Proc, Kill(p) PROVE IInv'
BY GoneStep DEF Kill

LEMMA NextInv == IInv /\ [Next]_vars => IInv'
<1> SUFFICES ASSUME IInv, [Next]_vars PROVE IInv'
  OBVIOUS
<1>1. CASE UNCHANGED vars
  BY <1>1 DEF vars, IInv, TypeOK, Owned, Alive, Alone, SessionsSurvive, CleanExit
<1>2. CASE Next
  BY <1>2, CreateStep, CheckOutStep, ReturnStep, CloseStep, ForkStep, ExitStep, KillStep DEF Next
<1> QED
  BY <1>1, <1>2

LEMMA Invariance == Spec => []IInv
BY InitInv, NextInv, PTL DEF Spec
-----------------------------------------------------------------------------
(* Theorems *)

\* Every variable of ForkPools keeps its type, and a process pools only
\* connections it opened itself.
THEOREM PoolsTyped == Spec => []TypeOK
<1>1. IInv => TypeOK
  BY DEF IInv
<1> QED
  BY <1>1, Invariance, PTL

\* No two processes use one Postgres session that was not open at a fork, in
\* any tree of forks and with any instances (_reset_pools_after_fork).
THEOREM SessionsAreNotShared == Spec => []NoSharedSession
<1>1. IInv => NoSharedSession
  <2> SUFFICES ASSUME IInv, NEW c \in Conn \ shared
               PROVE  Cardinality(spoke[c]) <= 1
    BY DEF NoSharedSession
  <2>1. spoke[c] \in SUBSET {owner[c]}
    BY DEF IInv, Alone
  <2>2. IsFiniteSet({owner[c]}) /\ Cardinality({owner[c]}) = 1
    BY FS_Singleton
  <2> QED
    BY <2>1, <2>2, FS_Subset
<1> QED
  BY <1>1, Invariance, PTL

\* No process ends a session of another, by closing, by exiting or by being
\* killed (_reset_pools_after_fork, _close_pools_before_exit).
THEOREM SessionsAreNotBroken == Spec => []SessionsSurvive
<1>1. IInv => SessionsSurvive
  BY DEF IInv
<1> QED
  BY <1>1, Invariance, PTL

\* A child that exits in good order leaves no session abandoned
\* (_close_pools_before_exit).
THEOREM ExitsAreClean == Spec => []CleanExit
<1>1. IInv => CleanExit
  BY DEF IInv
<1> QED
  BY <1>1, Invariance, PTL
=============================================================================
