----------------------------- MODULE JobService -----------------------------
(***************************************************************************)
(* What the durable job queue and its workers promise the gateway, without *)
(* leases, locks or loops: a submitted job stays pending until some worker *)
(* that took it settles it; a worker may lose its job (it was cancelled or *)
(* died), and then another may take it; a settled job is never taken       *)
(* again.                                                                  *)
(***************************************************************************)
CONSTANTS Job, Worker, None

VARIABLES
    job,   \* "absent", "pending" or "settled"
    busy   \* the job each worker took and has not let go of

svars == <<job, busy>>

ServiceInit ==
    /\ job = [j \in Job |-> "absent"]
    /\ busy = [w \in Worker |-> None]

Submit(j) ==
    /\ job[j] = "absent"
    /\ job' = [job EXCEPT ![j] = "pending"]
    /\ UNCHANGED busy

Take(w, j) ==
    /\ busy[w] = None
    /\ job[j] = "pending"
    /\ busy' = [busy EXCEPT ![w] = j]
    /\ UNCHANGED job

Settle(w) ==
    /\ busy[w] # None
    /\ job' = [job EXCEPT ![busy[w]] = "settled"]
    /\ busy' = [busy EXCEPT ![w] = None]

Abandon(W) ==
    /\ busy' = [w \in Worker |-> IF w \in W THEN None ELSE busy[w]]
    /\ UNCHANGED job

ServiceNext ==
    \/ \E j \in Job : Submit(j)
    \/ \E w \in Worker, j \in Job : Take(w, j)
    \/ \E w \in Worker : Settle(w)
    \/ \E W \in SUBSET Worker : Abandon(W)

ServiceSpec == ServiceInit /\ [][ServiceNext]_svars
=============================================================================
