----------------------------- MODULE WorkerPool -----------------------------
(***************************************************************************)
(* umabot/worker.py: the Worker object and its `concurrency` loop tasks,   *)
(* which claim rows of the job queue, serialise the messages of one chat   *)
(* with an asyncio.Lock, process the payload and settle the row.  The      *)
(* gateway starts the pool, stops it (SIGTERM, reload) and may die with    *)
(* it.  What a job does while it is processed is abstracted to the phase   *)
(* "running"; modules that extend this one refine that phase.              *)
(***************************************************************************)
EXTENDS JobQueue, FiniteSets

CONSTANTS
    NumWorkers,   \* Worker._concurrency
    LockKinds,    \* payload types processed under the chat's lock
    MaxRestarts,  \* bound: how often the pool is started again
    MaxDbFaults   \* bound: Queue calls that raise (e.g. "database is locked")

ASSUME WorkerPoolAssumption == /\ NumWorkers \in Nat \ {0}
                               /\ LockKinds \subseteq Kinds
                               /\ MaxRestarts \in Nat
                               /\ MaxDbFaults \in Nat

VARIABLES
    gateway,   \* "running", "stopping" (Worker.stop under way), "aborting"
               \* (stop raised, asyncio.run unwinds) or "down"
    pc,        \* phase of each worker loop
    holds,     \* the job each loop took from its last claim, NoJob if none
    term,      \* history: ticks left of the lease under which holds was taken
    ahead,     \* per loop, those before it in the queue of the chat lock it is in
    restarts,
    faults

poolVars == <<gateway, pc, holds, term, ahead, restarts, faults>>
vars == <<queueVars, poolVars>>

Worker == 1..NumWorkers
NoJob == 0
Gone == {"off", "dead"}       \* the asyncio task has ended
Phases == {"idle", "claimed", "lockwait", "running", "completing", "failing"}

TypeOK ==
    /\ QueueTypeOK
    /\ gateway \in {"running", "stopping", "aborting", "down"}
    /\ pc \in [Worker -> Phases \cup Gone]
    /\ holds \in [Worker -> JobId \cup {NoJob}]
    /\ term \in [Worker -> 0..LeaseTicks]
    /\ ahead \in [Worker -> SUBSET Worker]
    /\ restarts \in 0..MaxRestarts
    /\ faults \in 0..MaxDbFaults

Init ==
    /\ QueueInit
    /\ gateway = "running"
    /\ pc = [w \in Worker |-> "idle"]
    /\ holds = [w \in Worker |-> NoJob]
    /\ term = [w \in Worker |-> 0]
    /\ ahead = [w \in Worker |-> {}]
    /\ restarts = 0
    /\ faults = 0

-----------------------------------------------------------------------------
ChatOf(w) == payload[holds[w]].chat

(* Mutation of UnderLock: jobs of every type are processed under the lock. *)
UnderLock_Always(w) == TRUE

UnderLock(w) == payload[holds[w]].kind \in LockKinds

(* The loops inside `async with lock` of a chat: its owner and the waiters *)
(* behind it, in the order they came.                                      *)
InLock(w) == pc[w] = "lockwait" \/ (pc[w] = "running" /\ UnderLock(w))
LockQueue(chat) == {w \in Worker : InLock(w) /\ ChatOf(w) = chat}

Become(w, phase) == pc' = [pc EXCEPT ![w] = phase]

(* A loop that settled its job tests `while not self._stop.is_set()`.      *)
LoopAgain(w) ==
    /\ Become(w, IF gateway = "running" THEN "idle" ELSE "off")
    /\ holds' = [holds EXCEPT ![w] = NoJob]
    /\ term' = [term EXCEPT ![w] = 0]

(* Mutation of LeaveLock: the waiters are not woken.                       *)
LeaveLock_NoWakeUp(w) == ahead' = [ahead EXCEPT ![w] = {}]

(* Leaving `async with lock`, by return, exception or cancellation: those  *)
(* behind move up, and the first of them is the next owner.                *)
LeaveLock(w) ==
    ahead' = [v \in Worker |-> IF v = w THEN {} ELSE ahead[v] \ {w}]

(* A Queue call raises instead of taking effect.                           *)
DbFault == /\ faults < MaxDbFaults
           /\ faults' = faults + 1

-----------------------------------------------------------------------------
(* The websocket gateway comes up before a new worker does, in start and   *)
(* in reload, and in stop it closes after the pool has stopped: connectors *)
(* enqueue while there is no worker, too.                                  *)
Enqueue(j, kind, chat) ==
    /\ EnqueueJob(j, kind, chat)
    /\ UNCHANGED poolVars

(* `await self.queue.claim()`.  A claim issued before _stop was set may    *)
(* still return a job while the pool is stopping.                          *)
Claim(w, j) ==
    /\ pc[w] = "idle"
    /\ ClaimJob(j)
    /\ Become(w, "claimed")
    /\ holds' = [holds EXCEPT ![w] = j]
    /\ term' = [term EXCEPT ![w] = LeaseTicks]
    /\ UNCHANGED <<gateway, ahead, restarts, faults>>

(* The claim is made outside the loop's try block: if it raises, the task  *)
(* ends and nothing starts it again.                                       *)
ClaimRaises(w) ==
    /\ pc[w] = "idle"
    /\ DbFault
    /\ Become(w, "dead")
    /\ UNCHANGED <<queueVars, gateway, holds, term, ahead, restarts>>

(* _process_job dispatches on the payload type; _process_message queues up *)
(* for the lock of its chat, the other handlers take none.                 *)
Dispatch(w) ==
    /\ pc[w] = "claimed"
    /\ IF UnderLock(w)
       THEN /\ ahead' = [ahead EXCEPT ![w] = LockQueue(ChatOf(w))]
            /\ Become(w, "lockwait")
       ELSE /\ Become(w, "running")
            /\ UNCHANGED ahead
    /\ UNCHANGED <<queueVars, gateway, holds, term, restarts, faults>>

(* Mutation of Acquire: each loop creates a lock of its own.               *)
Acquire_OwnLock(w) ==
    /\ pc[w] = "lockwait"
    /\ Become(w, "running")
    /\ UNCHANGED <<queueVars, gateway, holds, term, ahead, restarts, faults>>

Acquire(w) ==
    /\ pc[w] = "lockwait"
    /\ ahead[w] = {}
    /\ Become(w, "running")
    /\ UNCHANGED <<queueVars, gateway, holds, term, ahead, restarts, faults>>

(* _process_job returns, or raises an Exception.  (What _process_message   *)
(* does before its lock raises only for payloads the gateway never makes.) *)
FinishJob(w, phase) ==
    /\ pc[w] = "running"
    /\ LeaveLock(w)
    /\ Become(w, phase)
    /\ UNCHANGED <<queueVars, gateway, holds, term, restarts, faults>>

Return(w) == FinishJob(w, "completing")

Raise(w) == FinishJob(w, "failing")

(* Mutation of Complete: the job is failed as well, as in a finally block. *)
Complete_ThenFail(w) ==
    /\ pc[w] = "completing"
    /\ CompleteJob(holds[w])
    /\ Become(w, "failing")
    /\ UNCHANGED <<gateway, holds, term, ahead, restarts, faults>>

(* `await self.queue.complete(...)` is inside the try block, so raising it *)
(* leads to queue.fail; `queue.fail` is in the handler, so raising it ends *)
(* the task.                                                               *)
Complete(w) ==
    /\ pc[w] = "completing"
    /\ CompleteJob(holds[w])
    /\ LoopAgain(w)
    /\ UNCHANGED <<gateway, ahead, restarts, faults>>

CompleteRaises(w) ==
    /\ pc[w] = "completing"
    /\ DbFault
    /\ Become(w, "failing")
    /\ UNCHANGED <<queueVars, gateway, holds, term, ahead, restarts>>

Fail(w) ==
    /\ pc[w] = "failing"
    /\ FailJob(holds[w])
    /\ LoopAgain(w)
    /\ UNCHANGED <<gateway, ahead, restarts, faults>>

FailRaises(w) ==
    /\ pc[w] = "failing"
    /\ DbFault
    /\ Become(w, "dead")
    /\ holds' = [holds EXCEPT ![w] = NoJob]
    /\ term' = [term EXCEPT ![w] = 0]
    /\ UNCHANGED <<queueVars, gateway, ahead, restarts>>

-----------------------------------------------------------------------------
(* Worker.stop sets _stop, then cancels and awaits its tasks in the order  *)
(* they were created.  CancelledError is not an Exception: the job is      *)
(* neither completed nor failed and keeps its lease.  To await a task that *)
(* died raises what it died of: stop (or reload) does not get any further, *)
(* main raises, and asyncio.run cancels whatever is left and ends.         *)
StopBegin ==
    /\ gateway = "running"
    /\ gateway' = "stopping"
    /\ UNCHANGED <<queueVars, pc, holds, term, ahead, restarts, faults>>

(* The Queue call a cancelled task awaits runs on in its thread: it may or *)
(* may not take effect, with nobody to see its result.  It is one short    *)
(* transaction, and taken to be over before anything else is done.         *)
OrphanedCall(w) ==
    \/ UNCHANGED queueVars
    \/ pc[w] = "idle" /\ \E j \in JobId : ClaimJob(j)
    \/ pc[w] = "completing" /\ CompleteJob(holds[w])
    \/ pc[w] = "failing" /\ FailJob(holds[w])

Reached(w) ==
    /\ gateway = "stopping"
    /\ \A v \in Worker : v < w => pc[v] = "off"

CancelWorker(w) ==
    /\ Reached(w) \/ gateway = "aborting"
    /\ pc[w] \notin Gone
    /\ OrphanedCall(w)
    /\ LeaveLock(w)
    /\ Become(w, "off")
    /\ holds' = [holds EXCEPT ![w] = NoJob]
    /\ term' = [term EXCEPT ![w] = 0]
    /\ UNCHANGED <<gateway, restarts, faults>>

StopRaises(w) ==
    /\ Reached(w)
    /\ pc[w] = "dead"
    /\ gateway' = "aborting"
    /\ UNCHANGED <<queueVars, pc, holds, term, ahead, restarts, faults>>

Stopped ==
    /\ \/ gateway = "stopping" /\ \A w \in Worker : pc[w] = "off"
       \/ gateway = "aborting" /\ \A w \in Worker : pc[w] \in Gone
    /\ gateway' = "down"
    /\ UNCHANGED <<queueVars, pc, holds, term, ahead, restarts, faults>>

(* The process dies: everything but the table is lost.                     *)
Crash ==
    /\ gateway # "down"
    /\ gateway' = "down"
    /\ pc' = [w \in Worker |-> "off"]
    /\ holds' = [w \in Worker |-> NoJob]
    /\ term' = [w \in Worker |-> 0]
    /\ ahead' = [w \in Worker |-> {}]
    /\ UNCHANGED <<queueVars, restarts, faults>>

(* Worker.start on a new Worker object: new loops, no chat locks.          *)
Start ==
    /\ gateway = "down"
    /\ restarts < MaxRestarts
    /\ gateway' = "running"
    /\ restarts' = restarts + 1
    /\ pc' = [w \in Worker |-> "idle"]
    /\ UNCHANGED <<queueVars, holds, term, ahead, faults>>

Tick ==
    /\ \E j \in JobId : lease[j] > 0
    /\ LeasesAge
    /\ term' = [w \in Worker |-> IF term[w] = 0 THEN 0 ELSE term[w] - 1]
    /\ UNCHANGED <<gateway, pc, holds, ahead, restarts, faults>>

WorkerStep(w) ==
    \/ \E j \in JobId : Claim(w, j)
    \/ Dispatch(w)
    \/ Acquire(w)
    \/ Return(w)
    \/ Raise(w)
    \/ Complete(w)
    \/ Fail(w)

Next ==
    \/ \E j \in JobId, kind \in Kinds, chat \in Chats : Enqueue(j, kind, chat)
    \/ \E w \in Worker : \/ WorkerStep(w)
                         \/ ClaimRaises(w)
                         \/ CompleteRaises(w)
                         \/ FailRaises(w)
                         \/ CancelWorker(w)
                         \/ StopRaises(w)
    \/ StopBegin
    \/ Stopped
    \/ Crash
    \/ Start
    \/ Tick

(* The event loop keeps scheduling tasks, stop() runs to its end and time  *)
(* passes.  Nothing obliges a process to be stopped, to crash, to be       *)
(* started again or to receive work.                                       *)
Fairness ==
    /\ WF_vars(Tick)
    /\ WF_vars(Stopped)
    /\ \A w \in Worker : /\ WF_vars(WorkerStep(w))
                         /\ WF_vars(CancelWorker(w))
                         /\ WF_vars(StopRaises(w))

Spec == Init /\ [][Next]_vars

FairSpec == Spec /\ Fairness

-----------------------------------------------------------------------------
(* Messages of one chat are processed one at a time, also when an expired  *)
(* lease makes a second loop claim a message that is still being worked on *)
(* (_process_message under _chat_locks).                                   *)
ChatSerial ==
    \A v, w \in Worker :
        /\ pc[v] = "running" /\ UnderLock(v)
        /\ pc[w] = "running" /\ UnderLock(w)
        /\ ChatOf(v) = ChatOf(w)
        => v = w

(* While the lease of a claim lasts, the loop that made the claim is the   *)
(* only one that got the job under a lasting lease: a second holder exists *)
(* only when the first one's 30 seconds are over (claim_job).              *)
LeaseExclusive ==
    \A v, w \in Worker :
        v # w /\ holds[v] = holds[w] /\ holds[v] # NoJob
        => term[v] = 0 \/ term[w] = 0

(* Whatever is waited for on a chat lock is a loop that is still inside    *)
(* the lock of the same chat: cancelling tasks in Worker.stop and raising  *)
(* handlers never leave a lock owned by nobody.                            *)
NoOrphanedLock ==
    \A w \in Worker : \A v \in ahead[w] :
        v # w /\ InLock(v) /\ InLock(w) /\ ChatOf(v) = ChatOf(w)

(* complete_job and fail_job do not check who holds the row, so a late     *)
(* holder may overwrite the outcome; but a row that was claimed only once  *)
(* keeps the outcome it got.                                               *)
SingleClaimKeepsOutcome ==
    [][\A j \in JobId :
           status[j] \in Settled /\ status'[j] # status[j] => attempts[j] > 1]_vars

(* A job handed to Queue.enqueue is settled sooner or later, whatever      *)
(* stops, crashes and database errors came before, provided the pool runs  *)
(* from some time on with a loop that is alive.                            *)
PoolKeepsRunning == gateway = "running" /\ \E w \in Worker : pc[w] # "dead"

JobsSettle ==
    <>[]PoolKeepsRunning =>
        \A j \in JobId : (status[j] # "absent") ~> (status[j] \in Settled)

(* The pool implements the durable queue of JobService: whatever stops and *)
(* crashes, a settled job is never claimed again, an unsettled one is      *)
(* never lost, and only a loop that claimed a job settles it.              *)
jobView == [j \in JobId |-> CASE status[j] = "absent" -> "absent"
                              [] status[j] \in {"queued", "leased"} -> "pending"
                              [] OTHER -> "settled"]

Service == INSTANCE JobService
           WITH Job <- JobId, Worker <- Worker, None <- NoJob,
                job <- jobView, busy <- holds

ImplementsJobService == Service!ServiceSpec
=============================================================================
