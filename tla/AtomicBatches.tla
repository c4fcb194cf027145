---------------------------- MODULE AtomicBatches ----------------------------
(***************************************************************************)
(* What PQ.upsert_many promises (src/pq/client.py): a batch takes effect   *)
(* as a whole or not at all, each item as upsert() would, and a repeated   *)
(* client_id ends with its last version.  In what order the rows are       *)
(* written, and what waits for what, is not part of the promise.           *)
(***************************************************************************)
EXTENDS Integers, Sequences

CONSTANTS Key, Batch, Items, NULL

VARIABLES row, outcome

vars == <<row, outcome>>

Pending(v) == [status |-> "pending", version |-> v, parked |-> NULL]

\* upsert(): a run in progress keeps its version.
Put(r, v) == IF r # NULL /\ r.status = "running" THEN [r EXCEPT !.parked = v] ELSE Pending(v)

\* The end of a run.
End(r) == IF r.parked # NULL THEN Pending(r.parked) ELSE [r EXCEPT !.status = "closed"]

LastItem(s, k) == CHOOSE i \in DOMAIN s : s[i] = k /\ \A j \in DOMAIN s : s[j] = k => j <= i

Apply(b) ==
    /\ outcome[b] = "waiting"
    /\ outcome' = [outcome EXCEPT ![b] = "committed"]
    /\ row' = [k \in Key |->
                 IF \E i \in DOMAIN Items[b] : Items[b][i] = k
                 THEN Put(row[k], <<b, LastItem(Items[b], k)>>)
                 ELSE row[k]]

Reject(b) ==
    /\ outcome[b] = "waiting"
    /\ outcome' = [outcome EXCEPT ![b] = "failed"]
    /\ UNCHANGED row

\* What others do to rows of status s: each of the keys in K becomes F(row).
Others(K, s, F(_)) ==
    /\ \A k \in K : row[k] # NULL /\ row[k].status \in s
    /\ row' = [k \in Key |-> IF k \in K THEN F(row[k]) ELSE row[k]]
    /\ UNCHANGED outcome

Init ==
    /\ outcome = [b \in Batch |-> "waiting"]
    /\ row \in [Key -> {NULL} \cup [status : {"pending", "running", "closed"},
                                    version : {NULL}, parked : {NULL}]]

Next ==
    \/ \E b \in Batch : Apply(b) \/ Reject(b)
    \/ \E k \in Key : \/ Others({k}, {"pending"}, LAMBDA r : [r EXCEPT !.status = "running"])
                      \/ Others({k}, {"pending", "running", "closed"}, LAMBDA r : NULL)
    \/ \E K \in SUBSET Key : \/ Others(K, {"running"}, End)
                             \/ Others(K, {"closed"}, LAMBDA r : NULL)

Spec == Init /\ [][Next]_vars
=============================================================================
