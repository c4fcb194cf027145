------------------------------ MODULE ForkPools ------------------------------
(***************************************************************************)
(* The connection pools of the PQ instances across fork()                  *)
(* (src/pq/client.py): the hook that empties the pools of a forked process *)
(* and the close of its pools before a task child exits.                   *)
(*                                                                         *)
(* A fork copies the pools, and the sockets they refer to.  Two processes  *)
(* that speak on one socket break its Postgres session, and so does one    *)
(* that says goodbye on a socket it inherited.                             *)
(*                                                                         *)
(* A connection stands for its socket and for its session on the server,   *)
(* which ends by a goodbye, or is abandoned when the last process that     *)
(* holds the socket is gone.  Pools have room for every connection.        *)
(***************************************************************************)
EXTENDS Integers, FiniteSets

CONSTANTS
    Proc,      \* processes
    Main,      \* the first one
    Instance,  \* PQ instances
    Conn,      \* connections; bound: each is opened once
    NULL

ASSUME ProcAssumption == Main \in Proc /\ NULL \notin Proc \cup Instance

VARIABLES
    up,      \* not started, running, exited (a child, in good order) or killed
    live,    \* _live_instances of each process
    pool,    \* its idle connections
    out,     \* its connections in an open session()
    holds,   \* the sockets it holds open, pooled or not
    of,      \* the instance whose pool opened the connection
    owner,   \* the process that opened it
    server,  \* its session: none, alive, ended by a goodbye, abandoned
    spoke,   \* the processes that used the session
    shared   \* history: connections some session() had out during a fork

vars == <<up, live, pool, out, holds, of, owner, server, spoke, shared>>

Running(p) == up[p] = "running"

Idle(p, i) == {c \in pool[p] : of[c] = i}

\* Say goodbye on the connections C.
Goodbye(C) == [c \in Conn |-> IF c \in C THEN "ended" ELSE server[c]]

\* The sessions s after process p is gone: who is alone with a socket abandons
\* the session.
AfterDeath(p, s) == [c \in Conn |->
    IF s[c] = "alive" /\ c \in holds[p] /\ \A q \in Proc \ {p} : c \notin holds[q]
    THEN "abandoned" ELSE s[c]]

\* PQ()
Create(p, i) ==
    /\ Running(p) /\ i \notin live[p]
    /\ live' = [live EXCEPT ![p] = @ \cup {i}]
    /\ UNCHANGED <<up, pool, out, holds, of, owner, server, spoke, shared>>

\* The beginning of a session(): a pooled connection, or a new one.
CheckOut(p, i) ==
    /\ Running(p) /\ i \in live[p]
    /\ \E c \in Conn :
          /\ \/ /\ c \in Idle(p, i)
                /\ UNCHANGED <<holds, of, owner, server>>
             \/ /\ Idle(p, i) = {} /\ server[c] = "none"
                /\ holds' = [holds EXCEPT ![p] = @ \cup {c}]
                /\ of' = [of EXCEPT ![c] = i]
                /\ owner' = [owner EXCEPT ![c] = p]
                /\ server' = [server EXCEPT ![c] = "alive"]
          /\ pool' = [pool EXCEPT ![p] = @ \ {c}]
          /\ out' = [out EXCEPT ![p] = @ \cup {c}]
          /\ spoke' = [spoke EXCEPT ![c] = @ \cup {p}]
    /\ UNCHANGED <<up, live, shared>>

\* The end of a session(): COMMIT or ROLLBACK, and back to the pool it came
\* from.  For a connection inherited in an open session that is the pool the
\* hook has replaced.
Return(p, c) ==
    /\ Running(p) /\ c \in out[p]
    /\ out' = [out EXCEPT ![p] = @ \ {c}]
    /\ pool' = [pool EXCEPT ![p] = IF owner[c] = p THEN @ \cup {c} ELSE @]
    /\ spoke' = [spoke EXCEPT ![c] = @ \cup {p}]
    /\ UNCHANGED <<up, live, holds, of, owner, server, shared>>

\* Broken form: the pool keeps what was closed.
CloseKeeps(p, i) ==
    /\ Running(p) /\ i \in live[p] /\ \A c \in out[p] : of[c] # i
    /\ server' = Goodbye(Idle(p, i))
    /\ holds' = [holds EXCEPT ![p] = @ \ Idle(p, i)]
    /\ UNCHANGED <<up, live, pool, out, of, owner, spoke, shared>>

\* PQ.close(), outside its sessions.  The instance may be used again.
Close(p, i) ==
    /\ Running(p) /\ i \in live[p] /\ \A c \in out[p] : of[c] # i
    /\ server' = Goodbye(Idle(p, i))
    /\ holds' = [holds EXCEPT ![p] = @ \ Idle(p, i)]
    /\ pool' = [pool EXCEPT ![p] = @ \ Idle(p, i)]
    /\ UNCHANGED <<up, live, out, of, owner, spoke, shared>>

\* Broken form: the hook is not installed.
NotReset(p) == pool[p]

\* _reset_pools_after_fork: what is left of the pools p hands down.
Reset(p) == {c \in pool[p] : of[c] \notin live[p]}

\* Broken form: the hook closes what it drops.
ForkCloses(p, q) ==
    /\ Running(p) /\ up[q] = "none"
    /\ up' = [up EXCEPT ![q] = "running"]
    /\ live' = [live EXCEPT ![q] = live[p]]
    /\ pool' = [pool EXCEPT ![q] = Reset(p)]
    /\ out' = [out EXCEPT ![q] = out[p]]
    /\ holds' = [holds EXCEPT ![q] = holds[p]]
    /\ shared' = shared \cup out[p]
    /\ server' = Goodbye(pool[p] \ Reset(p))
    /\ UNCHANGED <<of, owner, spoke>>

\* os.fork(), and the hook in the child.
Fork(p, q) ==
    /\ Running(p) /\ up[q] = "none"
    /\ up' = [up EXCEPT ![q] = "running"]
    /\ live' = [live EXCEPT ![q] = live[p]]
    /\ pool' = [pool EXCEPT ![q] = Reset(p)]
    /\ out' = [out EXCEPT ![q] = out[p]]
    /\ holds' = [holds EXCEPT ![q] = holds[p]]
    /\ shared' = shared \cup out[p]
    /\ UNCHANGED <<of, owner, server, spoke>>

Gone(p, how, said) ==
    /\ up' = [up EXCEPT ![p] = how]
    /\ server' = AfterDeath(p, Goodbye(said))
    /\ pool' = [pool EXCEPT ![p] = {}] /\ out' = [out EXCEPT ![p] = {}]
    /\ holds' = [holds EXCEPT ![p] = {}] /\ live' = [live EXCEPT ![p] = {}]
    /\ UNCHANGED <<of, owner, spoke, shared>>

\* Broken form: os._exit() and nothing before it.
ExitAtOnce(p) == Running(p) /\ p # Main /\ out[p] = {} /\ Gone(p, "exited", {})

\* _close_pools_before_exit and os._exit() at the end of _run_in_child, when
\* the handler has left its sessions.
Exit(p) ==
    /\ Running(p) /\ p # Main /\ out[p] = {}
    /\ Gone(p, "exited", {c \in pool[p] : of[c] \in live[p]})

\* A signal, the alarm, or an exit with a session open.
Kill(p) == Running(p) /\ Gone(p, "killed", {})

Init ==
    /\ up = [p \in Proc |-> IF p = Main THEN "running" ELSE "none"]
    /\ live = [p \in Proc |-> {}]
    /\ pool = [p \in Proc |-> {}] /\ out = [p \in Proc |-> {}] /\ holds = [p \in Proc |-> {}]
    /\ of = [c \in Conn |-> NULL] /\ owner = [c \in Conn |-> NULL]
    /\ server = [c \in Conn |-> "none"] /\ spoke = [c \in Conn |-> {}]
    /\ shared = {}

Next == \/ \E p \in Proc, i \in Instance : Create(p, i) \/ CheckOut(p, i) \/ Close(p, i)
        \/ \E p \in Proc, c \in Conn : Return(p, c)
        \/ \E p, q \in Proc : Fork(p, q)
        \/ \E p \in Proc : Exit(p) \/ Kill(p)

Spec == Init /\ [][Next]_vars
-----------------------------------------------------------------------------
(* Properties *)

\* The type of every variable; what a process pools it opened itself, and its
\* socket is open.
TypeOK ==
    /\ up \in [Proc -> {"none", "running", "exited", "killed"}]
    /\ live \in [Proc -> SUBSET Instance]
    /\ pool \in [Proc -> SUBSET Conn] /\ out \in [Proc -> SUBSET Conn]
    /\ holds \in [Proc -> SUBSET Conn]
    /\ of \in [Conn -> Instance \cup {NULL}] /\ owner \in [Conn -> Proc \cup {NULL}]
    /\ server \in [Conn -> {"none", "alive", "ended", "abandoned"}]
    /\ spoke \in [Conn -> SUBSET Proc]
    /\ shared \subseteq Conn
    /\ \A p \in Proc : /\ pool[p] \cap out[p] = {} /\ pool[p] \cup out[p] \subseteq holds[p]
                       /\ \A c \in pool[p] : owner[c] = p

\* No two processes use one Postgres session, unless it was open at a fork
\* (_reset_pools_after_fork): also with several instances, with one that was
\* closed and is used again, and when a child forks.
NoSharedSession == \A c \in Conn \ shared : Cardinality(spoke[c]) <= 1

\* The sessions a process opened and has not closed are alive: nothing another
\* process does, its end included, ends them, not even when they were open at
\* the fork ("break the parent's sessions", _reset_pools_after_fork).
SessionsSurvive == \A p \in Proc : \A c \in pool[p] \cup out[p] :
    owner[c] = p => server[c] = "alive"

\* A child that exits in good order abandons no session of its own ("Postgres
\* counts the session as abandoned", _close_pools_before_exit).
CleanExit == \A c \in Conn :
    server[c] = "abandoned" => \E p \in Proc : owner[c] = p /\ up[p] = "killed"
=============================================================================
