------------------------------ MODULE JobQueue ------------------------------
(***************************************************************************)
(* The SQLite table queue_jobs (umabot/storage/db.py) behind               *)
(* umabot/storage/queue.py.  Every Database method runs under one          *)
(* threading.Lock and one transaction, so each of them is one atomic       *)
(* operator here.  A row is addressed by its AUTOINCREMENT id; the lease   *)
(* is kept as the time it has left, in ticks, rather than as an absolute   *)
(* deadline, so that the model needs no clock and no bound on it.          *)
(***************************************************************************)
EXTENDS Naturals

CONSTANTS
    MaxJobs,     \* bound: the number of rows ever inserted
    Kinds,       \* payload types: "message", "confirm", "task_run", ...
    Chats,       \* the chat_id column
    LeaseTicks   \* lease_seconds of claim_job, in ticks of the model

ASSUME JobQueueAssumption == /\ MaxJobs \in Nat
                             /\ LeaseTicks \in Nat \ {0}

VARIABLES
    status,    \* the status column; "absent" for an id not handed out yet
    lease,     \* ticks left before lease_until is in the past
    attempts,  \* the attempts column
    payload    \* what the row carries: its kind and its chat

queueVars == <<status, lease, attempts, payload>>

JobId == 1..MaxJobs
NoPayload == [kind |-> "none", chat |-> "none"]
Payloads == [kind : Kinds, chat : Chats] \cup {NoPayload}
Settled == {"done", "failed"}

QueueTypeOK ==
    /\ status \in [JobId -> {"absent", "queued", "leased"} \cup Settled]
    /\ lease \in [JobId -> 0..LeaseTicks]
    /\ attempts \in [JobId -> Nat]
    /\ payload \in [JobId -> Payloads]

QueueInit ==
    /\ status = [j \in JobId |-> "absent"]
    /\ lease = [j \in JobId |-> 0]
    /\ attempts = [j \in JobId |-> 0]
    /\ payload = [j \in JobId |-> NoPayload]

-----------------------------------------------------------------------------
(* enqueue_job: the next free id gets a queued row without a lease.        *)
EnqueueJob(j, kind, chat) ==
    /\ status[j] = "absent"
    /\ \A i \in JobId : i < j => status[i] # "absent"
    /\ status' = [status EXCEPT ![j] = "queued"]
    /\ payload' = [payload EXCEPT ![j] = [kind |-> kind, chat |-> chat]]
    /\ UNCHANGED <<lease, attempts>>

(* Mutations of Claimable: an expired lease is never, a running one always *)
(* taken over, a failed job is tried again.                                *)
Claimable_NoExpiry(j) == status[j] = "queued"
Claimable_Leased(j) == status[j] \in {"queued", "leased"}
Claimable_Failed(j) == status[j] \in {"queued", "failed"}

(* The WHERE clause of claim_job.                                          *)
Claimable(j) ==
    \/ status[j] = "queued"
    \/ status[j] = "leased" /\ lease[j] = 0

(* claim_job: the claimable row with the lowest id is leased anew.         *)
ClaimJob(j) ==
    /\ Claimable(j)
    /\ \A i \in JobId : Claimable(i) => j <= i
    /\ status' = [status EXCEPT ![j] = "leased"]
    /\ lease' = [lease EXCEPT ![j] = LeaseTicks]
    /\ attempts' = [attempts EXCEPT ![j] = @ + 1]
    /\ UNCHANGED payload

(* complete_job and fail_job update by id, whatever the row's status and   *)
(* whoever holds its lease.                                                *)
SettleJob(j, outcome) ==
    /\ status' = [status EXCEPT ![j] = outcome]
    /\ UNCHANGED <<lease, attempts, payload>>

CompleteJob(j) == SettleJob(j, "done")

FailJob(j) == SettleJob(j, "failed")

(* One tick of wall-clock time brings every lease nearer to its end.       *)
LeasesAge ==
    /\ lease' = [j \in JobId |-> IF lease[j] = 0 THEN 0 ELSE lease[j] - 1]
    /\ UNCHANGED <<status, attempts, payload>>

=============================================================================
