-------------------------- MODULE TaskRuns_proofs --------------------------
(* Rows of task_runs, cancelled tasks and stuck ones, for any number of    *)
(* tasks, jobs, loops, restarts and errors.  The pool's own invariant      *)
(* still holds when its loops run tasks.  At the end, the next moment of a *)
(* schedule, in any zone and for any lengths of the hour and the day.      *)
EXTENDS TaskRuns, Schedule, WorkerPool_proofs

Stage == {"none", "seen", "working", "reporting"}
Row == [task : Tasks \cup {AnyTask}, job : JobId \cup {NoJob},
        born : 0..MaxRestarts, status : RowStatuses]

Types ==
    /\ now \in 0..MaxNow
    /\ tstatus \in [Tasks -> {"absent", "active", "completed", "cancelled"}]
    /\ nextRun \in [Tasks -> Slots \cup {Never}]
    /\ sched \subseteq Tasks
    /\ runs \in [RunId -> Row]
    /\ stage \in [Worker -> Stage]
    /\ runOf \in [Worker -> RunId \cup {NoRun}]

(* A row of the queue names a task; a loop is in the handler only while it *)
(* runs a job.                                                             *)
Present(j) == status[j] # "absent"
Filled == \A j \in JobId : Present(j) => payload[j].chat \in Tasks
Handling == \A w \in Worker : stage[w] # "none" => pc[w] = "running"

(* A task that was ever leased has a row in the queue or is about to get   *)
(* one, and is there; a task that has run has had a job.                   *)
Touched(t) == t \in sched \/ \E j \in JobId : Present(j) /\ payload[j].chat = t
Known == \A t \in Tasks : Touched(t) => tstatus[t] # "absent"

Recorded ==
    \A r \in RunId : runs[r].status # "none" =>
        LET j == runs[r].job IN
        /\ j \in JobId /\ Present(j) /\ attempts[j] >= 1
        /\ payload[j].chat = runs[r].task

(* A loop at work has an open row of its task, and no other loop has it.   *)
Working(w) == stage[w] = "working"
Own ==
    /\ \A w \in Worker : Working(w) =>
           /\ runOf[w] \in RunId
           /\ runs[runOf[w]].status = "running"
           /\ runs[runOf[w]].task = ChatOf(w)
           /\ runs[runOf[w]].job = holds[w]
    /\ \A v, w \in Worker : v # w /\ Working(v) /\ Working(w) => runOf[v] # runOf[w]

Born == \A r \in RunId : runs[r].born <= restarts

(* A leased task without a next moment has had a run that ended.           *)
Closed(r) == runs[r].status \notin {"none", "running"}
Spent ==
    \A t \in Tasks :
        nextRun[t] = Never /\ Touched(t) =>
            \E r \in RunId : Closed(r) /\ runs[r].task = t

(* The job of a run that was given up, if nobody claimed it again, is      *)
(* being failed, has failed, or lies there since a stop, crash or error.   *)
GivenUp(r) == runs[r].status = "running" /\ ~WorkedOn(r)
Held(j) == \E w \in Worker : holds[w] = j
Excused(r) == runs[r].born < restarts \/ gateway # "running" \/ faults > 0
Abandoned(r) ==
    LET j == runs[r].job IN
    attempts[j] = 1 =>
        /\ status[j] \in {"leased", "failed"}
        /\ \A w \in Worker : holds[w] = j => pc[w] = "failing"
        /\ status[j] = "leased" => Held(j) \/ Excused(r)
Orphans == \A r \in RunId : GivenUp(r) => Abandoned(r)

TInv ==
    /\ IInv /\ Types /\ Filled /\ Handling /\ Known /\ Recorded /\ Own /\ Born
    /\ Spent /\ NoSingleRunSticks /\ Orphans

LEMMA Numbers ==
    /\ MaxNow \in Nat /\ MaxRuns \in Nat /\ MaxRestarts \in Nat /\ MaxDbFaults \in Nat
    /\ Slots = 0..(MaxNow + 1) /\ Never = MaxNow + 2 /\ Never \notin Slots
    /\ RunId = 1..MaxRuns /\ NoRun = 0 /\ NoRun \notin RunId
    /\ JobId \subseteq Nat /\ NoJob = 0 /\ NoJob \notin JobId
    /\ LockKinds = {} /\ Chats = Tasks /\ Kinds = {"task_run"} /\ Periodic \subseteq Tasks
BY TaskRunsAssumption, WorkerPoolAssumption, JobQueueAssumption
   DEF Slots, Never, RunId, NoRun, JobId, NoJob

LEMMA TaskInv == TaskInit => TInv
<1> SUFFICES ASSUME TaskInit PROVE TInv
  OBVIOUS
<1> USE Numbers DEF TaskInit
<1>1. IInv
  BY InitIInv
<1>2. NoRow \in Row
  BY DEF NoRow, Row, RowStatuses
<1>3. Types
  BY <1>2 DEF Types, Stage
<1>4. Filled
  BY DEF Init, QueueInit, Filled, Present
<1>5. \A r \in RunId : runs[r].status = "none" /\ runs[r].born = 0
  BY DEF NoRow
<1>9. \A t \in Tasks : ~Touched(t)
  BY DEF Touched, Present, Init, QueueInit
<1>6. Handling /\ Known /\ Own
  BY <1>9 DEF Handling, Known, Own, Working
<1>10. Recorded
  BY <1>5 DEF Recorded
<1>8. Born
  <2>1. restarts = 0
    BY DEF Init
  <2> QED  BY <1>5, <2>1 DEF Born
<1>7. Spent /\ Orphans
  BY <1>5, <1>9 DEF Spent, Orphans, GivenUp
<1>11. NoSingleRunSticks
  BY <1>5 DEF NoSingleRunSticks, RunsOf
<1> QED  BY <1>1, <1>3, <1>4, <1>6, <1>7, <1>8, <1>10, <1>11 DEF TInv

-----------------------------------------------------------------------------
(* Steps of the pool.                                                      *)

(* With no kinds under a lock nobody waits for one.                        *)
LEMMA NoLocks ==
    ASSUME IInv
    PROVE  \A w \in Worker : ~UnderLock(w) /\ pc[w] # "lockwait" /\ ahead[w] = {} /\ ~InLock(w)
BY Numbers DEF IInv, LockQueued, UnderLock, InLock

(* An error outside the calls that WorkerPool knows of.                    *)
LEMMA ErrorsKeep ==
    ASSUME IInv, EnqueueRaises \/ \E w \in Worker : RunRaises(w), Handling
    PROVE  IInv'
<1>1. CASE EnqueueRaises
  BY <1>1, WorkerPoolAssumption
  DEF EnqueueRaises, DbFault, queueVars, IInv, TypeOK, QueueTypeOK, HoldsInPhase, HeldWasClaimed,
      LeaseExclusive, HoldersCounted, NoOrphanedLock, LockQueued, InLock, ChatOf, UnderLock
<1>2. ASSUME NEW w \in Worker, RunRaises(w) PROVE IInv'
  <2>1. pc[w] = "running" /\ pc' = [pc EXCEPT ![w] = "failing"]
        /\ faults < MaxDbFaults /\ faults' = faults + 1
        /\ UNCHANGED <<status, lease, attempts, payload, gateway, holds, term, ahead, restarts>>
    BY <1>2 DEF RunRaises, InHandler, Handling, Become, queueVars
  <2>2. TypeOK' /\ HoldsInPhase'
    BY <2>1, WorkerPoolAssumption
    DEF IInv, TypeOK, QueueTypeOK, HoldsInPhase, Phases, Gone, AtWork
  <2>3. HeldWasClaimed' /\ LeaseExclusive' /\ HoldersCounted'
    BY <2>1 DEF IInv, HeldWasClaimed, LeaseExclusive, HoldersCounted
  <2>4. \A v \in Worker : ahead'[v] = {} /\ pc'[v] # "lockwait" /\ ~InLock(v)'
    BY <2>1, NoLocks DEF InLock, UnderLock, IInv, TypeOK
  <2>5. NoOrphanedLock' /\ LockQueued'
    BY <2>4 DEF NoOrphanedLock, LockQueued
  <2> QED  BY <2>2, <2>3, <2>5 DEF IInv
<1> QED  BY <1>1, <1>2

LEMMA AgeKeeps == ASSUME IInv, Age PROVE IInv'
<1>1. CASE Tick
  BY <1>1, TypeStep, PhaseStep, ClaimsStep, LocksStep DEF IInv, Claims, Locks, Next
<1>2. CASE ~Tick
  <2>1. /\ \A j \in JobId : ~(lease[j] > 0)
        /\ lease' = [j \in JobId |-> IF lease[j] = 0 THEN 0 ELSE lease[j] - 1]
        /\ term' = [w \in Worker |-> IF term[w] = 0 THEN 0 ELSE term[w] - 1]
        /\ UNCHANGED <<status, attempts, payload, gateway, pc, holds, ahead, restarts, faults>>
    BY <1>2 DEF Age, Tick, LeasesAge
  <2>2. lease' = lease
    <3>1. \A j \in JobId : lease[j] = 0
      BY <2>1, JobQueueAssumption DEF IInv, TypeOK, QueueTypeOK
    <3> QED  BY <2>1, <3>1 DEF IInv, TypeOK, QueueTypeOK
  <2>3. term' \in [Worker -> 0..LeaseTicks] /\ \A w \in Worker : term'[w] <= term[w] /\ (term[w] = 0 => term'[w] = 0)
    BY <2>1, JobQueueAssumption DEF IInv, TypeOK
  <2>4. TypeOK' /\ HoldsInPhase'
    BY <2>1, <2>2, <2>3 DEF IInv, TypeOK, QueueTypeOK, HoldsInPhase
  <2>5. HeldWasClaimed'
    <3> SUFFICES ASSUME NEW w \in Worker, holds'[w] # NoJob
                 PROVE  status'[holds'[w]] \in {"leased"} \cup Settled /\ term'[w] <= lease'[holds'[w]]
      BY DEF HeldWasClaimed
    <3>1. holds'[w] = holds[w] /\ holds[w] \in JobId /\ term[w] \in Nat /\ lease[holds[w]] \in Nat
      BY <2>1, JobQueueAssumption DEF IInv, TypeOK, QueueTypeOK
    <3>2. term'[w] \in Nat
      BY <2>3, JobQueueAssumption
    <3> QED  BY <3>1, <3>2, <2>1, <2>2, <2>3 DEF IInv, HeldWasClaimed
  <2>6. LeaseExclusive' /\ HoldersCounted'
    BY <2>1, <2>3 DEF IInv, LeaseExclusive, HoldersCounted
  <2>7. NoOrphanedLock' /\ LockQueued'
    BY <2>1 DEF IInv, NoOrphanedLock, LockQueued, InLock, UnderLock, ChatOf
  <2> QED  BY <2>4, <2>5, <2>6, <2>7 DEF IInv
<1> QED  BY <1>1, <1>2

LEMMA PoolStep == IInv /\ [Next]_vars => IInv'
BY TypeStep, PhaseStep, ClaimsStep, LocksStep DEF IInv, Claims, Locks

(* What a step of the pool, of its end or of the clock does to the tasks.  *)
Kept(w) ==
    /\ stage'[w] = stage[w] /\ runOf'[w] = runOf[w]
    /\ stage[w] # "none" => pc'[w] = pc[w] /\ holds'[w] = holds[w]
Left(w) ==
    /\ stage'[w] = "none" /\ runOf'[w] = NoRun
    /\ stage[w] = "working" =>
        \/ holds'[w] = NoJob /\ (gateway' # "running" \/ faults' > 0)
        \/ holds'[w] = holds[w] /\ pc'[w] = "failing"
FilledStays ==
    \A j \in JobId : Present(j)' =>
        \/ Present(j) /\ payload'[j] = payload[j]
        \/ ~Present(j) /\ payload'[j].chat \in sched
RowsStay == \A j \in JobId : Present(j) => Present(j)' /\ payload'[j] = payload[j]

(* A job in its first claim is settled by its one holder, in the phase for *)
(* it, and is let go unsettled only in a stop, a crash or an error.        *)
FirstClaim(j) ==
    /\ \A w \in Worker : holds'[w] = j =>
           holds[w] = j /\ (pc[w] = "failing" => pc'[w] = "failing")
    /\ \/ status'[j] = status[j]
       \/ \E w \in Worker :
              /\ holds[w] = j
              /\ \/ pc[w] = "completing" /\ status'[j] = "done"
                 \/ pc[w] = "failing" /\ status'[j] = "failed"
    /\ status'[j] = "leased" /\ Held(j) =>
           Held(j)' \/ gateway' # "running" \/ faults' > 0
JobsMove ==
    \A j \in JobId : Present(j) /\ attempts[j] >= 1 =>
        /\ attempts'[j] >= attempts[j]
        /\ attempts'[j] = 1 => FirstClaim(j)

PoolMoves ==
    /\ UNCHANGED <<now, tstatus, nextRun, runs>>
    /\ sched' \subseteq sched
    /\ DOMAIN stage' = Worker /\ DOMAIN runOf' = Worker
    /\ stage' = [w \in Worker |-> stage'[w]] /\ runOf' = [w \in Worker |-> runOf'[w]]
    /\ \A w \in Worker : Kept(w) \/ Left(w)
    /\ FilledStays /\ RowsStay /\ JobsMove
    /\ faults' >= faults
    /\ \/ restarts' = restarts /\ (gateway' = "running" => gateway = "running")
       \/ restarts' > restarts

(* The queue's operations: only an enqueued row is new, and only rows in   *)
(* a loop's hand are settled.                                              *)
LEMMA QueueFills ==
    ASSUME TInv
    PROVE  /\ queueVars' = queueVars => FilledStays /\ RowsStay
           /\ \A j \in JobId : ClaimJob(j) => FilledStays /\ RowsStay
           /\ \A w \in Worker : pc[w] \in {"completing", "failing"} =>
                  (CompleteJob(holds[w]) \/ FailJob(holds[w]) => FilledStays /\ RowsStay)
           /\ \A j \in JobId, t \in sched :
                  EnqueueJob(j, "task_run", t) => FilledStays /\ RowsStay
<1> USE Numbers DEF TInv, FilledStays, RowsStay, Present
<1>1. queueVars' = queueVars => FilledStays /\ RowsStay
  BY DEF queueVars
<1>2. ASSUME NEW j \in JobId, ClaimJob(j) PROVE FilledStays /\ RowsStay
  BY <1>2 DEF ClaimJob, Claimable, IInv, TypeOK, QueueTypeOK
<1>3. ASSUME NEW w \in Worker, pc[w] \in {"completing", "failing"},
             CompleteJob(holds[w]) \/ FailJob(holds[w])
      PROVE  FilledStays /\ RowsStay
  <2>1. holds[w] \in JobId /\ status[holds[w]] # "absent"
    BY <1>3 DEF IInv, TypeOK, HoldsInPhase, HeldWasClaimed, AtWork, Settled
  <2> QED  BY <1>3, <2>1 DEF CompleteJob, FailJob, SettleJob, IInv, TypeOK, QueueTypeOK
<1>4. ASSUME NEW j \in JobId, NEW t \in sched, EnqueueJob(j, "task_run", t)
      PROVE  FilledStays /\ RowsStay
  BY <1>4 DEF EnqueueJob, IInv, TypeOK, QueueTypeOK
<1> QED  BY <1>1, <1>2, <1>3, <1>4

(* How the jobs move when the queue is left alone, or a job is claimed or  *)
(* settled, and the other loops keep what they hold.                       *)
StaysInPhase(v) == holds'[v] = holds[v] /\ (pc[v] = "failing" => pc'[v] = "failing")
LetGo(v) == holds'[v] = NoJob /\ (gateway' # "running" \/ faults' > 0)

LEMMA JobsRest ==
    ASSUME TInv,
           \A j \in JobId : Present(j) => status'[j] = status[j] /\ attempts'[j] = attempts[j],
           \A v \in Worker : StaysInPhase(v) \/ LetGo(v)
    PROVE  JobsMove
<1> SUFFICES ASSUME NEW j \in JobId, Present(j), attempts[j] >= 1
             PROVE  attempts'[j] >= attempts[j] /\ FirstClaim(j)
  BY DEF JobsMove
<1>1. attempts'[j] >= attempts[j] /\ status'[j] = status[j]
  BY DEF TInv, IInv, TypeOK, QueueTypeOK
<1>2. \A v \in Worker : holds'[v] = j => StaysInPhase(v)
  BY Numbers DEF LetGo
<1>3. Held(j) => Held(j)' \/ gateway' # "running" \/ faults' > 0
  BY DEF Held, StaysInPhase, LetGo
<1> QED  BY <1>1, <1>2, <1>3 DEF FirstClaim, StaysInPhase

LEMMA JobClaimed ==
    ASSUME TInv, NEW w \in Worker, pc[w] = "idle", NEW i \in JobId, ClaimJob(i),
           holds'[w] \in {NoJob, i}, \A v \in Worker : v # w => StaysInPhase(v)
    PROVE  JobsMove
<1> SUFFICES ASSUME NEW j \in JobId, Present(j), attempts[j] >= 1
             PROVE  attempts'[j] >= attempts[j] /\ (attempts'[j] = 1 => FirstClaim(j))
  BY DEF JobsMove
<1>1. /\ attempts[j] \in Nat
      /\ IF j = i THEN attempts'[j] = attempts[j] + 1
                  ELSE attempts'[j] = attempts[j] /\ status'[j] = status[j]
  BY DEF ClaimJob, TInv, IInv, TypeOK, QueueTypeOK
<1>2. holds[w] = NoJob
  BY DEF TInv, IInv, HoldsInPhase, AtWork
<1>3. ASSUME j # i PROVE FirstClaim(j)
  <2>1. \A v \in Worker : holds'[v] = j => StaysInPhase(v)
    BY <1>3, Numbers
  <2>2. \A v \in Worker : holds[v] = j => holds'[v] = j
    BY <1>2, Numbers DEF StaysInPhase
  <2> QED  BY <1>1, <1>3, <2>1, <2>2 DEF FirstClaim, StaysInPhase, Held
<1> QED  BY <1>1, <1>3

LEMMA JobSettled ==
    ASSUME TInv, NEW w \in Worker,
           \/ pc[w] = "completing" /\ CompleteJob(holds[w])
           \/ pc[w] = "failing" /\ FailJob(holds[w]),
           holds'[w] = NoJob, \A v \in Worker : v # w => StaysInPhase(v)
    PROVE  JobsMove
<1> SUFFICES ASSUME NEW j \in JobId, Present(j), attempts[j] >= 1
             PROVE  attempts'[j] >= attempts[j] /\ FirstClaim(j)
  BY DEF JobsMove
<1>1. attempts'[j] = attempts[j] /\ attempts[j] \in Nat
  BY DEF CompleteJob, FailJob, SettleJob, TInv, IInv, TypeOK, QueueTypeOK
<1>2. \A v \in Worker : holds'[v] = j => StaysInPhase(v)
  BY Numbers
<1>3. IF j = holds[w]
      THEN \/ pc[w] = "completing" /\ status'[j] = "done"
           \/ pc[w] = "failing" /\ status'[j] = "failed"
      ELSE status'[j] = status[j]
  BY DEF CompleteJob, FailJob, SettleJob, TInv, IInv, TypeOK, QueueTypeOK
<1>4. status'[j] = "leased" /\ Held(j) => Held(j)'
  BY <1>3 DEF Held, StaysInPhase
<1> QED  BY <1>1, <1>2, <1>3, <1>4 DEF FirstClaim, StaysInPhase

LEMMA PoolActions ==
    ASSUME TInv,
           \/ \E t \in Tasks, j \in JobId : EnqueueTaskRun(t, j)
           \/ EnqueueRaises
           \/ \E w \in Worker : \/ LoopStep(w) \/ ReturnRun(w) \/ LoopFault(w)
                               \/ RunRaises(w) \/ CancelRun(w)
           \/ StopAll \/ CrashAll \/ RestartPool \/ Age
    PROVE  IInv' /\ PoolMoves
<1> USE Numbers
<1>0. /\ pc \in [Worker -> Phases \cup Gone] /\ holds \in [Worker -> JobId \cup {NoJob}]
      /\ stage \in [Worker -> Stage] /\ runOf \in [Worker -> RunId \cup {NoRun}]
      /\ restarts \in Nat /\ faults \in Nat /\ IInv
      /\ \A w \in Worker : stage[w] # "none" => pc[w] = "running"
  BY DEF TInv, IInv, TypeOK, Types, Handling
<1>1. ASSUME NEW t \in Tasks, NEW j \in JobId, EnqueueTaskRun(t, j) PROVE IInv' /\ PoolMoves
  <2>1. IInv'
    BY <1>0, <1>1, PoolStep DEF EnqueueTaskRun, Next
  <2>2. FilledStays /\ RowsStay
    BY <1>1, QueueFills DEF EnqueueTaskRun, Enqueue
  <2>9. JobsMove
    <3>1. \A i \in JobId : Present(i) => status'[i] = status[i] /\ attempts'[i] = attempts[i]
      BY <1>0, <1>1 DEF EnqueueTaskRun, Enqueue, EnqueueJob, Present, IInv, TypeOK, QueueTypeOK
    <3>2. \A v \in Worker : StaysInPhase(v)
      BY <1>1 DEF EnqueueTaskRun, Enqueue, poolVars, StaysInPhase
    <3> QED  BY <3>1, <3>2, JobsRest
  <2> QED  BY <1>0, <1>1, <2>1, <2>2, <2>9 DEF EnqueueTaskRun, Enqueue, poolVars, PoolMoves, Kept
<1>2. CASE EnqueueRaises
  <2>1. IInv'
    BY <1>0, <1>2, ErrorsKeep DEF TInv
  <2>2. FilledStays /\ RowsStay
    BY <1>2, QueueFills DEF EnqueueRaises
  <2>9. JobsMove
    <3>1. UNCHANGED <<status, attempts>> /\ \A v \in Worker : StaysInPhase(v) \/ LetGo(v)
      BY <1>0, <1>2 DEF EnqueueRaises, queueVars, StaysInPhase, LetGo
    <3> QED  BY <3>1, JobsRest
  <2> QED  BY <1>0, <1>2, <2>1, <2>2, <2>9 DEF EnqueueRaises, DbFault, PoolMoves, Kept
<1>3. ASSUME NEW w \in Worker, LoopStep(w) PROVE IInv' /\ PoolMoves
  <2>1. IInv'
    BY <1>0, <1>3, PoolStep DEF LoopStep, Next, WorkerStep
  <2>2. FilledStays /\ RowsStay
    BY <1>3, QueueFills DEF LoopStep, Claim, Dispatch, Complete, Fail
  <2>3. /\ UNCHANGED taskVars /\ restarts' = restarts /\ gateway' = gateway /\ faults' = faults
        /\ pc[w] # "running"
        /\ \A v \in Worker : v # w => pc'[v] = pc[v] /\ holds'[v] = holds[v]
    BY <1>0, <1>3 DEF LoopStep, Claim, Dispatch, Complete, Fail, LoopAgain, Become
  <2>4. \A v \in Worker : Kept(v)
    BY <1>0, <2>3 DEF taskVars, Kept
  <2>9. JobsMove
    <3>1. ASSUME NEW i \in JobId, Claim(w, i) PROVE JobsMove
      <4>1. holds'[w] = i /\ \A v \in Worker : v # w => StaysInPhase(v)
        BY <1>0, <3>1 DEF Claim, Become, StaysInPhase
      <4> QED  BY <3>1, <4>1, JobClaimed DEF Claim
    <3>2. ASSUME Dispatch(w) PROVE JobsMove
      <4>1. UNCHANGED <<status, attempts>> /\ \A v \in Worker : StaysInPhase(v)
        BY <1>0, <3>2 DEF Dispatch, Become, queueVars, StaysInPhase
      <4> QED  BY <4>1, JobsRest
    <3>3. ASSUME Complete(w) \/ Fail(w) PROVE JobsMove
      <4>1. holds'[w] = NoJob /\ \A v \in Worker : v # w => StaysInPhase(v)
        BY <1>0, <3>3 DEF Complete, Fail, LoopAgain, Become, StaysInPhase
      <4> QED  BY <3>3, <4>1, JobSettled DEF Complete, Fail
    <3> QED  BY <1>3, <3>1, <3>2, <3>3 DEF LoopStep
  <2> QED  BY <1>0, <2>1, <2>2, <2>3, <2>4, <2>9 DEF taskVars, PoolMoves
<1>4. ASSUME NEW w \in Worker, ReturnRun(w) PROVE IInv' /\ PoolMoves
  <2>1. IInv'
    BY <1>0, <1>4, PoolStep DEF ReturnRun, Next, WorkerStep
  <2>2. FilledStays /\ RowsStay
    BY <1>4, QueueFills DEF ReturnRun, Return, FinishJob
  <2>3. \A v \in Worker : IF v = w THEN Left(v) ELSE Kept(v)
    BY <1>0, <1>4 DEF ReturnRun, Return, FinishJob, Become, Step, Left, Kept
  <2>5. \A v \in Worker : Kept(v) \/ Left(v)
    BY <2>3
  <2>6. /\ UNCHANGED <<now, tstatus, nextRun, sched, runs, restarts, gateway>> /\ faults' >= faults
        /\ stage' \in [Worker -> Stage] /\ runOf' \in [Worker -> RunId \cup {NoRun}]
    BY <1>0, <1>4 DEF ReturnRun, Return, FinishJob, Step, Stage
  <2>9. JobsMove
    <3>1. UNCHANGED <<status, attempts>> /\ \A v \in Worker : StaysInPhase(v) \/ LetGo(v)
      BY <1>0, <1>4 DEF ReturnRun, Return, FinishJob, Become, IInv, HoldsInPhase, queueVars, StaysInPhase, LetGo
    <3> QED  BY <3>1, JobsRest
  <2> QED  BY <2>1, <2>2, <2>5, <2>6, <2>9 DEF PoolMoves
<1>5. ASSUME NEW w \in Worker, LoopFault(w) PROVE IInv' /\ PoolMoves
  <2>1. IInv'
    BY <1>0, <1>5, PoolStep DEF LoopFault, Next
  <2>2. FilledStays /\ RowsStay
    BY <1>5, QueueFills DEF LoopFault, ClaimRaises, CompleteRaises, FailRaises
  <2>3. /\ UNCHANGED taskVars /\ restarts' = restarts /\ gateway' = gateway /\ faults' = faults + 1
        /\ pc[w] # "running"
        /\ \A v \in Worker : v # w => pc'[v] = pc[v] /\ holds'[v] = holds[v]
    BY <1>0, <1>5 DEF LoopFault, ClaimRaises, CompleteRaises, FailRaises, Become, DbFault
  <2>4. \A v \in Worker : Kept(v)
    BY <1>0, <2>3 DEF taskVars, Kept
  <2>9. JobsMove
    <3>1. UNCHANGED <<status, attempts>> /\ \A v \in Worker : StaysInPhase(v) \/ LetGo(v)
      BY <1>0, <1>5 DEF LoopFault, ClaimRaises, CompleteRaises, FailRaises, DbFault, Become, queueVars, StaysInPhase, LetGo
    <3> QED  BY <3>1, JobsRest
  <2> QED  BY <1>0, <2>1, <2>2, <2>3, <2>4, <2>9 DEF taskVars, PoolMoves
<1>6. ASSUME NEW w \in Worker, RunRaises(w) PROVE IInv' /\ PoolMoves
  <2>1. IInv'
    BY <1>0, <1>6, ErrorsKeep DEF TInv
  <2>2. FilledStays /\ RowsStay
    BY <1>6, QueueFills DEF RunRaises
  <2>3. \A v \in Worker : IF v = w THEN Left(v) ELSE Kept(v)
    BY <1>0, <1>6 DEF RunRaises, Become, Step, Left, Kept
  <2>5. \A v \in Worker : Kept(v) \/ Left(v)
    BY <2>3
  <2>6. /\ UNCHANGED <<now, tstatus, nextRun, sched, runs, restarts, gateway>> /\ faults' >= faults
        /\ stage' \in [Worker -> Stage] /\ runOf' \in [Worker -> RunId \cup {NoRun}]
    BY <1>0, <1>6 DEF RunRaises, Step, Stage
  <2>9. JobsMove
    <3>1. UNCHANGED <<status, attempts>> /\ \A v \in Worker : StaysInPhase(v) \/ LetGo(v)
      BY <1>0, <1>6 DEF RunRaises, Become, queueVars, StaysInPhase, LetGo
    <3> QED  BY <3>1, JobsRest
  <2> QED  BY <2>1, <2>2, <2>5, <2>6, <2>9 DEF PoolMoves
<1>7. ASSUME NEW w \in Worker, CancelRun(w) PROVE IInv' /\ PoolMoves
  <2>1. IInv'
    BY <1>0, <1>7, PoolStep DEF CancelRun, Next
  <2>2. FilledStays /\ RowsStay
    BY <1>7, QueueFills DEF CancelRun, CancelWorker, OrphanedCall
  <2>3. gateway' # "running" /\ gateway' = gateway
    BY <1>7 DEF CancelRun, CancelWorker, Reached
  <2>4. \A v \in Worker : IF v = w THEN Left(v) ELSE Kept(v)
    BY <1>0, <1>7, <2>3 DEF CancelRun, CancelWorker, Become, Step, Left, Kept
  <2>5. \A v \in Worker : Kept(v) \/ Left(v)
    BY <2>4
  <2>6. /\ UNCHANGED <<now, tstatus, nextRun, sched, runs, restarts, gateway>> /\ faults' >= faults
        /\ stage' \in [Worker -> Stage] /\ runOf' \in [Worker -> RunId \cup {NoRun}]
    BY <1>0, <1>7, <2>3 DEF CancelRun, CancelWorker, Step, Stage
  <2>9. JobsMove
    <3>1. holds'[w] = NoJob /\ \A v \in Worker : v # w => StaysInPhase(v)
      BY <1>0, <1>7 DEF CancelRun, CancelWorker, Become, StaysInPhase
    <3>2. ASSUME queueVars' = queueVars PROVE JobsMove
      <4>1. UNCHANGED <<status, attempts>> /\ \A v \in Worker : StaysInPhase(v) \/ LetGo(v)
        BY <2>3, <3>1, <3>2 DEF queueVars, LetGo
      <4> QED  BY <4>1, JobsRest
    <3>3. ASSUME pc[w] = "idle", NEW i \in JobId, ClaimJob(i) PROVE JobsMove
      BY <3>1, <3>3, JobClaimed
    <3>4. ASSUME \/ pc[w] = "completing" /\ CompleteJob(holds[w])
                 \/ pc[w] = "failing" /\ FailJob(holds[w])
          PROVE  JobsMove
      BY <3>1, <3>4, JobSettled
    <3> QED  BY <1>7, <3>2, <3>3, <3>4 DEF CancelRun, CancelWorker, OrphanedCall
  <2> QED  BY <2>1, <2>2, <2>5, <2>6, <2>9 DEF PoolMoves
<1>8. CASE StopAll
  <2>1. IInv'
    BY <1>0, <1>8, PoolStep DEF StopAll, Next
  <2>2. FilledStays /\ RowsStay
    BY <1>8, QueueFills DEF StopAll, StopBegin
  <2>9. JobsMove
    <3>1. UNCHANGED <<status, attempts>> /\ \A v \in Worker : StaysInPhase(v) \/ LetGo(v)
      BY <1>0, <1>8 DEF StopAll, StopBegin, queueVars, StaysInPhase, LetGo
    <3> QED  BY <3>1, JobsRest
  <2> QED  BY <1>0, <1>8, <2>1, <2>2, <2>9 DEF StopAll, StopBegin, PoolMoves, Kept
<1>9. CASE CrashAll
  <2>1. IInv'
    BY <1>0, <1>9, PoolStep DEF CrashAll, Next
  <2>2. FilledStays /\ RowsStay
    BY <1>9, QueueFills DEF CrashAll, Crash
  <2>3. \A v \in Worker : Left(v)
    BY <1>0, <1>9 DEF CrashAll, Crash, Left
  <2>9. JobsMove
    <3>1. UNCHANGED <<status, attempts>> /\ \A v \in Worker : StaysInPhase(v) \/ LetGo(v)
      BY <1>0, <1>9 DEF CrashAll, Crash, queueVars, StaysInPhase, LetGo
    <3> QED  BY <3>1, JobsRest
  <2> QED  BY <1>0, <1>9, <2>1, <2>2, <2>3, <2>9 DEF CrashAll, Crash, PoolMoves
<1>10. CASE RestartPool
  <2>1. IInv'
    BY <1>0, <1>10, PoolStep DEF RestartPool, Next
  <2>2. FilledStays /\ RowsStay
    BY <1>10, QueueFills DEF RestartPool, Stopped, Start, StopRaises
  <2>3. /\ UNCHANGED <<taskVars, faults>> /\ holds' = holds
        /\ \/ restarts' = restarts /\ gateway' # "running" /\ pc' = pc
           \/ restarts' = restarts + 1 /\ gateway = "down"
    BY <1>10 DEF RestartPool, Stopped, Start, StopRaises
  <2>4. gateway = "down" => \A v \in Worker : stage[v] = "none"
    BY <1>0 DEF IInv, HoldsInPhase, Gone
  <2>5. \A v \in Worker : Kept(v)
    BY <2>3, <2>4 DEF Kept, taskVars
  <2>9. JobsMove
    <3>1. UNCHANGED <<status, attempts, holds>>
      BY <1>10 DEF RestartPool, Stopped, Start, StopRaises, queueVars
    <3>2. gateway = "down" => \A v \in Worker : pc[v] # "failing"
      BY <1>0 DEF IInv, HoldsInPhase, Gone
    <3>3. \A v \in Worker : StaysInPhase(v)
      BY <2>3, <3>1, <3>2, <1>10 DEF RestartPool, Stopped, Start, StopRaises, StaysInPhase
    <3> QED  BY <3>1, <3>3, JobsRest
  <2> QED  BY <1>0, <2>1, <2>2, <2>3, <2>5, <2>9 DEF PoolMoves, taskVars
<1>11. CASE Age
  <2>1. IInv'
    BY <1>0, <1>11, AgeKeeps
  <2>2. FilledStays /\ RowsStay
    BY <1>11 DEF Age, LeasesAge, FilledStays, RowsStay, Present
  <2>9. JobsMove
    <3>1. UNCHANGED <<status, attempts>> /\ \A v \in Worker : StaysInPhase(v) \/ LetGo(v)
      BY <1>0, <1>11 DEF Age, LeasesAge, queueVars, StaysInPhase, LetGo
    <3> QED  BY <3>1, JobsRest
  <2> QED  BY <1>0, <1>11, <2>1, <2>2, <2>9 DEF Age, PoolMoves, Kept
<1> QED  BY <1>1, <1>2, <1>3, <1>4, <1>5, <1>6, <1>7, <1>8, <1>9, <1>10, <1>11

(* What a loop in the handler has in its hand.                             *)
LEMMA InHandler1 ==
    ASSUME TInv, NEW w \in Worker, stage[w] # "none"
    PROVE  /\ pc[w] = "running" /\ holds[w] \in JobId /\ Present(holds[w])
           /\ ChatOf(w) \in Tasks /\ Touched(ChatOf(w))
           /\ attempts[holds[w]] >= 1
           /\ attempts[holds[w]] = 1 =>
                  /\ status[holds[w]] = "leased"
                  /\ \A v \in Worker : holds[v] = holds[w] => v = w
<1>1. holds[w] \in JobId /\ holds[w] # NoJob /\ Present(holds[w]) /\ pc[w] = "running"
  BY Numbers DEF TInv, Handling, IInv, TypeOK, HoldsInPhase, HeldWasClaimed, AtWork, Settled, Present
<1>2. ChatOf(w) \in Tasks /\ Touched(ChatOf(w))
  BY <1>1 DEF TInv, Filled, ChatOf, Touched
<1>3. attempts[holds[w]] >= 1 /\ attempts[holds[w]] \in Nat
  BY <1>1 DEF TInv, IInv, TypeOK, QueueTypeOK, HoldersCounted
<1>4. ASSUME attempts[holds[w]] = 1
      PROVE  status[holds[w]] = "leased" /\ \A v \in Worker : holds[v] = holds[w] => v = w
  BY <1>1, <1>4 DEF TInv, IInv, HoldersCounted, HeldWasClaimed
<1> QED  BY <1>1, <1>2, <1>3, <1>4

LEMMA ChatStays ==
    ASSUME TInv, PoolMoves, NEW w \in Worker, stage'[w] # "none"
    PROVE  /\ stage'[w] = stage[w] /\ runOf'[w] = runOf[w] /\ pc'[w] = "running"
           /\ holds'[w] = holds[w] /\ ChatOf(w)' = ChatOf(w)
<1>1. /\ stage'[w] = stage[w] /\ runOf'[w] = runOf[w] /\ pc'[w] = pc[w] /\ holds'[w] = holds[w]
      /\ stage[w] # "none"
  BY DEF PoolMoves, Kept, Left
<1>2. payload'[holds[w]] = payload[holds[w]]
  BY <1>1, InHandler1 DEF PoolMoves, RowsStay
<1> QED  BY <1>1, <1>2, InHandler1 DEF ChatOf

LEMMA TouchedStays ==
    ASSUME TInv, PoolMoves, NEW t \in Tasks, Touched(t)'
    PROVE  Touched(t)
BY DEF Touched, PoolMoves, FilledStays

(* A run that was given up stays so, or is given up in this step.          *)
LEMMA OrphansKeep ==
    ASSUME TInv, PoolMoves, IInv'
    PROVE  Orphans'
<1> USE Numbers
<1> SUFFICES ASSUME NEW r \in RunId, GivenUp(r)', (attempts[runs[r].job] = 1)'
             PROVE  Abandoned(r)'
  BY DEF Orphans, Abandoned
<1> DEFINE j == runs[r].job
<1>1. runs' = runs /\ runs[r].status = "running" /\ j \in JobId /\ Present(j) /\ attempts[j] >= 1
  BY DEF GivenUp, TInv, Recorded, PoolMoves
<1>2. attempts[j] = 1 /\ attempts'[j] = 1 /\ FirstClaim(j)
  <2>1. attempts[j] \in Nat
    BY <1>1 DEF TInv, IInv, TypeOK, QueueTypeOK
  <2>2. attempts'[j] = 1 /\ attempts'[j] >= attempts[j] /\ FirstClaim(j)
    BY <1>1 DEF PoolMoves, JobsMove
  <2> QED  BY <1>1, <2>1, <2>2
<1>3. /\ runs[r].born \in Nat /\ runs[r].born <= restarts
      /\ restarts \in Nat /\ restarts' \in Nat /\ faults \in Nat /\ faults' \in Nat /\ faults' >= faults
  BY DEF TInv, IInv, TypeOK, Types, Row, Born, PoolMoves
<1>4. CASE WorkedOn(r)
  <2>1. PICK w \in Worker : stage[w] = "working" /\ runOf[w] = r
    BY <1>4 DEF WorkedOn
  <2>2. holds[w] = j
    BY <2>1 DEF TInv, Own, Working
  <2>3. status[j] = "leased" /\ pc[w] = "running" /\ \A v \in Worker : holds[v] = j => v = w
    BY <2>1, <2>2, <1>2, InHandler1
  <2>4. \/ holds'[w] = NoJob /\ (gateway' # "running" \/ faults' > 0)
        \/ holds'[w] = j /\ pc'[w] = "failing"
    <3>1. ~(stage'[w] = "working" /\ runOf'[w] = r)
      BY DEF GivenUp, WorkedOn
    <3> QED  BY <2>1, <2>2, <3>1 DEF PoolMoves, Kept, Left
  <2>5. status'[j] = "leased"
    BY <1>2, <2>3 DEF FirstClaim
  <2>6. \A v \in Worker : holds'[v] = j => v = w
    BY <1>2, <2>3 DEF FirstClaim
  <2>7. \A v \in Worker : holds'[v] = j => pc'[v] = "failing"
    BY <1>1, <2>4, <2>6
  <2>8. Held(j)' \/ Excused(r)'
    BY <1>1, <2>4 DEF Held, Excused
  <2> QED  BY <1>1, <2>5, <2>7, <2>8 DEF Abandoned
<1>5. CASE ~WorkedOn(r)
  <2>1. /\ status[j] \in {"leased", "failed"}
        /\ \A w \in Worker : holds[w] = j => pc[w] = "failing"
        /\ status[j] = "leased" => Held(j) \/ Excused(r)
    BY <1>1, <1>2, <1>5 DEF TInv, Orphans, GivenUp, Abandoned
  <2>2. status'[j] \in {"leased", "failed"} /\ (status'[j] = "leased" => status[j] = "leased")
    BY <1>2, <2>1 DEF FirstClaim
  <2>3. \A w \in Worker : holds'[w] = j => pc'[w] = "failing"
    BY <1>2, <2>1 DEF FirstClaim
  <2>4. ASSUME status'[j] = "leased" PROVE Held(j)' \/ Excused(r)'
    <3>1. CASE Held(j)
      BY <3>1, <2>4, <1>2 DEF FirstClaim, Excused
    <3>2. CASE Excused(r)
      <4>1. \/ restarts' = restarts /\ (gateway' = "running" => gateway = "running")
            \/ restarts' > restarts
        BY DEF PoolMoves
      <4> QED  BY <1>1, <1>3, <3>2, <4>1 DEF Excused
    <3> QED  BY <2>1, <2>2, <2>4, <3>1, <3>2
  <2> QED  BY <1>1, <2>2, <2>3, <2>4 DEF Abandoned
<1> QED  BY <1>4, <1>5

LEMMA PoolKeeps ==
    ASSUME TInv, PoolMoves, IInv'
    PROVE  TInv'
<1> USE Numbers
<1>1. Types'
  BY DEF TInv, Types, PoolMoves, Kept, Left, Stage
<1>2. Filled'
  BY DEF TInv, Types, Filled, PoolMoves, FilledStays
<1>3. Handling'
  BY ChatStays DEF Handling
<1>4. Known'
  BY TouchedStays DEF TInv, Known, PoolMoves
<1>5. Own'
  BY ChatStays DEF TInv, Own, Working, PoolMoves
<1>6. Born'
  <2>1. restarts \in Nat /\ restarts' \in Nat /\ restarts <= restarts' /\ runs' = runs
    BY DEF TInv, IInv, TypeOK, PoolMoves
  <2>2. \A r \in RunId : runs[r].born \in Nat
    BY DEF TInv, Types, Row
  <2> QED  BY <2>1, <2>2 DEF TInv, Born
<1>7. Spent'
  BY TouchedStays DEF TInv, Spent, Closed, PoolMoves
<1>8. NoSingleRunSticks'
  BY DEF TInv, NoSingleRunSticks, RunsOf, PoolMoves
<1>9. Recorded'
  <2> SUFFICES ASSUME NEW r \in RunId, runs[r].status # "none", NEW j, j = runs[r].job
               PROVE  /\ j \in JobId /\ Present(j)' /\ attempts'[j] >= 1
                      /\ payload'[j].chat = runs[r].task
    BY DEF Recorded, PoolMoves
  <2>1. j \in JobId /\ Present(j) /\ attempts[j] >= 1 /\ payload[j].chat = runs[r].task
    BY DEF TInv, Recorded
  <2>2. Present(j)' /\ payload'[j] = payload[j] /\ attempts'[j] >= attempts[j]
    BY <2>1 DEF PoolMoves, RowsStay, JobsMove
  <2>3. attempts[j] \in Nat /\ attempts'[j] \in Nat
    BY <2>1 DEF TInv, IInv, TypeOK, QueueTypeOK
  <2> QED  BY <2>1, <2>2, <2>3
<1> QED  BY <1>1, <1>2, <1>3, <1>4, <1>5, <1>6, <1>7, <1>8, <1>9, OrphansKeep DEF TInv

-----------------------------------------------------------------------------
(* Steps of the scheduler, of other processes and of the handler.          *)

LEMMA Resting ==
    ASSUME TInv, UNCHANGED vars
    PROVE  /\ IInv' /\ Filled'
           /\ UNCHANGED <<pc, holds, status, attempts, payload, restarts, gateway, faults>>
           /\ \A w \in Worker : ChatOf(w)' = ChatOf(w)
<1>1. UNCHANGED <<pc, holds, status, attempts, payload, restarts, gateway, faults>>
  BY DEF vars, poolVars, queueVars
<1> QED  BY <1>1, PoolStep DEF TInv, Filled, ChatOf, Present

(* Nothing but the tasks and their leases changes, ...                     *)
LEMMA TasksKeep ==
    ASSUME TInv, UNCHANGED <<vars, runs, stage, runOf>>,
           Types', Known', Spent', NoSingleRunSticks'
    PROVE  TInv'
<1>1. /\ IInv' /\ Filled' /\ UNCHANGED <<runs, stage, runOf>>
      /\ UNCHANGED <<pc, holds, status, attempts, payload, restarts, gateway, faults>>
      /\ \A w \in Worker : ChatOf(w)' = ChatOf(w)
  BY Resting
<1>2. Handling' /\ Own' /\ Born' /\ Recorded'
  BY <1>1 DEF TInv, Handling, Own, Working, Born, Recorded, Present
<1>3. Orphans'
  BY <1>1 DEF TInv, Orphans, GivenUp, WorkedOn, Abandoned, Held, Excused
<1> QED  BY <1>1, <1>2, <1>3 DEF TInv

LEMMA TaskActions ==
    ASSUME TInv,
           \/ \E t \in Tasks, at \in Slots \cup {Never} : CreateTask(t, at)
           \/ \E t \in Tasks : CancelTask(t)
           \/ LeaseDueTasks \/ NextSlot
    PROVE  TInv'
<1> USE Numbers
<1>1. ASSUME NEW t \in Tasks, NEW at \in Slots \cup {Never}, CreateTask(t, at) PROVE TInv'
  <2>1. UNCHANGED <<vars, sched, runs, stage, runOf>>
    BY <1>1 DEF CreateTask
  <2>2. Types'
    BY <1>1 DEF CreateTask, TInv, Types
  <2>3. \A u \in Tasks : IF u = t THEN tstatus[u] = "absent" /\ tstatus'[u] = "active"
                          ELSE nextRun'[u] = nextRun[u] /\ tstatus'[u] = tstatus[u]
    BY <1>1 DEF CreateTask, TInv, Types
  <2>4. \A u \in Tasks : Touched(u)' <=> Touched(u)
    BY <2>1, Resting DEF Touched, Present
  <2>5. ~Touched(t)
    BY <1>1, <2>3 DEF TInv, Known
  <2>6. Known' /\ Spent'
    BY <2>1, <2>3, <2>4, <2>5 DEF TInv, Known, Spent, Closed
  <2>7. RunsOf(t) = {}
    BY <2>5 DEF RunsOf, TInv, Recorded, Touched
  <2>8. NoSingleRunSticks'
    BY <2>1, <2>3, <2>7 DEF TInv, NoSingleRunSticks, RunsOf
  <2> QED  BY <2>1, <2>2, <2>6, <2>8, TasksKeep
<1>2. ASSUME NEW t \in Tasks, CancelTask(t) PROVE TInv'
  <2>1. UNCHANGED <<vars, sched, runs, stage, runOf>>
    BY <1>2 DEF CancelTask
  <2>2. Types'
    BY <1>2 DEF CancelTask, TInv, Types
  <2>3. nextRun' = nextRun
        /\ \A u \in Tasks : IF u = t THEN tstatus[u] # "absent" /\ tstatus'[u] = "cancelled"
                              ELSE tstatus'[u] = tstatus[u]
    BY <1>2 DEF CancelTask, TInv, Types
  <2>4. \A u \in Tasks : Touched(u)' <=> Touched(u)
    BY <2>1, Resting DEF Touched, Present
  <2>5. Known' /\ Spent'
    BY <2>1, <2>3, <2>4 DEF TInv, Known, Spent, Closed
  <2>6. NoSingleRunSticks'
    BY <2>1, <2>3 DEF TInv, NoSingleRunSticks, RunsOf
  <2> QED  BY <2>1, <2>2, <2>5, <2>6, TasksKeep
<1>3. CASE LeaseDueTasks
  <2>1. UNCHANGED <<vars, runs, stage, runOf, tstatus, nextRun>> /\ Types'
    BY <1>3 DEF LeaseDueTasks, TInv, Types
  <2>2. \A u \in Tasks : Touched(u)' => Touched(u) \/ Due(u)
    BY <2>1, <1>3, Resting DEF Touched, Present, LeaseDueTasks
  <2>3. \A u \in Tasks : Due(u) => tstatus[u] = "active" /\ nextRun[u] # Never
    BY DEF Due, TInv, Types
  <2>4. Known' /\ Spent' /\ NoSingleRunSticks'
    BY <2>1, <2>2, <2>3 DEF TInv, Known, Spent, Closed, NoSingleRunSticks, RunsOf
  <2> QED  BY <2>1, <2>4, TasksKeep
<1>4. CASE NextSlot
  <2>1. UNCHANGED <<vars, sched, runs, stage, runOf, tstatus, nextRun>> /\ Types'
    BY <1>4 DEF NextSlot, TInv, Types
  <2>2. \A u \in Tasks : Touched(u)' <=> Touched(u)
    BY <2>1, Resting DEF Touched, Present
  <2>3. Known' /\ Spent' /\ NoSingleRunSticks'
    BY <2>1, <2>2 DEF TInv, Known, Spent, Closed, NoSingleRunSticks, RunsOf
  <2> QED  BY <2>1, <2>3, TasksKeep
<1> QED  BY <1>1, <1>2, <1>3, <1>4

(* ... or a loop looks at the task, ...                                    *)
LEMMA LookKeeps ==
    ASSUME TInv, NEW w \in Worker, SeeActive(w) \/ NotActive(w)
    PROVE  TInv'
<1>1. /\ UNCHANGED <<vars, now, tstatus, nextRun, sched, runs, runOf>>
      /\ stage[w] = "none" /\ pc[w] = "running"
      /\ stage' \in [Worker -> Stage] /\ stage'[w] \in {"seen", "reporting"}
      /\ \A v \in Worker : v # w => stage'[v] = stage[v]
  BY DEF SeeActive, NotActive, InHandler, Step, TInv, Types, Stage
<1>2. /\ IInv' /\ Filled'
      /\ UNCHANGED <<pc, holds, status, attempts, payload, restarts, gateway, faults>>
      /\ \A v \in Worker : ChatOf(v)' = ChatOf(v)
  BY <1>1, Resting
<1>3. (\A v \in Worker : Working(v)' <=> Working(v)) /\ \A t \in Tasks : Touched(t)' <=> Touched(t)
  BY <1>1, <1>2 DEF Working, Touched, Present
<1>4. Types' /\ Handling'
  BY <1>1, <1>2 DEF TInv, Types, Handling
<1>5. Own' /\ Born' /\ Recorded'
  BY <1>1, <1>2, <1>3 DEF TInv, Own, Born, Recorded, Present
<1>6. Known' /\ Spent' /\ NoSingleRunSticks'
  BY <1>1, <1>3 DEF TInv, Known, Spent, Closed, NoSingleRunSticks, RunsOf
<1>7. Orphans'
  BY <1>1, <1>2, <1>3 DEF TInv, Orphans, GivenUp, WorkedOn, Working, Abandoned, Held, Excused
<1> QED  BY <1>2, <1>4, <1>5, <1>6, <1>7 DEF TInv

(* ... opens a row, ...                                                    *)
Opened(w, r) ==
    /\ stage[w] = "seen" /\ runs[r].status = "none" /\ runs' \in [RunId -> Row]
    /\ runs'[r] = [task |-> ChatOf(w), job |-> holds[w],
                   born |-> restarts, status |-> "running"]
    /\ \A q \in RunId : q # r => runs'[q] = runs[q]
    /\ \A q \in RunId : Closed(q) => Closed(q)' /\ runs'[q] = runs[q]
    /\ \A v \in Worker : Working(v) => v # w /\ runOf[v] # r /\ runOf[v] \in RunId

LEMMA OpenedRow ==
    ASSUME TInv, NEW w \in Worker, NEW r \in RunId, OpenRow(w, r)
    PROVE  Opened(w, r)
<1> USE Numbers
<1> DEFINE row == [task |-> ChatOf(w), job |-> holds[w], born |-> restarts, status |-> "running"]
<1>1. stage[w] = "seen" /\ runs[r].status = "none" /\ runs' = [runs EXCEPT ![r] = row]
  BY DEF OpenRow
<1>2. row \in Row
  BY <1>1, InHandler1 DEF TInv, Row, RowStatuses, IInv, TypeOK
<1>3. runs' \in [RunId -> Row] /\ runs'[r] = row /\ \A q \in RunId : q # r => runs'[q] = runs[q]
  BY <1>1, <1>2 DEF TInv, Types
<1>4. \A q \in RunId : Closed(q) => Closed(q)' /\ runs'[q] = runs[q]
  BY <1>1, <1>3 DEF Closed
<1>5. \A v \in Worker : Working(v) => v # w /\ runOf[v] # r /\ runOf[v] \in RunId
  BY <1>1 DEF TInv, Own, Working
<1> QED  BY <1>1, <1>3, <1>4, <1>5 DEF Opened

(* The rows and the tasks after a row was opened.                          *)
LEMMA OpenKeeps ==
    ASSUME TInv, NEW w \in Worker, NEW r \in RunId, OpenRow(w, r),
           UNCHANGED <<queueVars, restarts, tstatus, nextRun, sched>>
    PROVE  Filled' /\ Known' /\ Recorded' /\ Born' /\ Spent' /\ NoSingleRunSticks'
<1>o. Opened(w, r)
  BY OpenedRow
<1>1. UNCHANGED <<status, attempts, payload, restarts, tstatus, nextRun, sched>>
  BY DEF queueVars
<1>2. (\A t \in Tasks : Touched(t)' <=> Touched(t)) /\ \A j \in JobId : Present(j)' <=> Present(j)
  BY <1>1 DEF Touched, Present
<1>3. Filled' /\ Known'
  BY <1>1, <1>2 DEF TInv, Filled, Known
<1>4. Spent'
  BY <1>1, <1>2, <1>o DEF Opened, TInv, Spent
<1>5. /\ runs'[r].task = ChatOf(w) /\ runs'[r].job = holds[w] /\ runs'[r].born = restarts
      /\ runs'[r].status = "running" /\ ChatOf(w) = payload[holds[w]].chat
      /\ holds[w] \in JobId /\ Present(holds[w]) /\ attempts[holds[w]] >= 1
      /\ Touched(ChatOf(w)) /\ ChatOf(w) \in Tasks
  BY <1>o, InHandler1 DEF Opened, ChatOf
<1>6. Recorded'
  BY <1>1, <1>2, <1>5, <1>o DEF Opened, TInv, Recorded
<1>7. Born'
  <2>1. restarts <= restarts
    BY DEF TInv, IInv, TypeOK
  <2> QED  BY <2>1, <1>1, <1>5, <1>o DEF Opened, TInv, Born
<1>8. NoSingleRunSticks'
  <2> SUFFICES ASSUME NEW t \in Tasks, tstatus[t] = "active", nextRun[t] = Never,
                      NEW q \in RunId, runs'[q].status # "none", runs'[q].task = t
               PROVE  \E x, y \in RunId : /\ x # y /\ runs'[x].status # "none" /\ runs'[x].task = t
                                         /\ runs'[y].status # "none" /\ runs'[y].task = t
    BY <1>1 DEF NoSingleRunSticks, RunsOf
  <2>1. CASE q = r
    <3>1. t = ChatOf(w)
      BY <2>1, <1>5
    <3>2. PICK x \in RunId : Closed(x) /\ runs[x].task = t
      BY <3>1, <1>5 DEF TInv, Spent
    <3> QED  BY <2>1, <3>2, <1>o DEF Opened, Closed
  <2>2. CASE q # r
    <3>1. runs[q].status # "none" /\ runs[q].task = t
      BY <2>2, <1>o DEF Opened
    <3>2. PICK x \in RunId, y \in RunId : /\ x # y /\ runs[x].status # "none" /\ runs[x].task = t
                                         /\ runs[y].status # "none" /\ runs[y].task = t
      BY <3>1 DEF TInv, NoSingleRunSticks, RunsOf
    <3>3. x # r /\ y # r
      BY <3>2, <1>o DEF Opened
    <3> QED  BY <3>2, <3>3, <1>o DEF Opened
  <2> QED  BY <2>1, <2>2
<1> QED  BY <1>3, <1>4, <1>6, <1>7, <1>8

LEMMA RecordKeeps ==
    ASSUME TInv, NEW w \in Worker, NEW r \in RunId, RecordRun(w, r)
    PROVE  TInv'
<1> USE Numbers
<1>1. /\ UNCHANGED <<vars, now, tstatus, nextRun, sched>> /\ OpenRow(w, r)
      /\ runOf' = [runOf EXCEPT ![w] = r]
      /\ stage' = [stage EXCEPT ![w] = "working"]
  BY DEF RecordRun, Step
<1>o. Opened(w, r)
  BY <1>1, OpenedRow
<1>2. /\ IInv' /\ UNCHANGED <<queueVars, pc, holds, status, attempts, payload, restarts, gateway, faults>>
      /\ \A v \in Worker : ChatOf(v)' = ChatOf(v)
  BY <1>1, Resting DEF vars
<1>3. Filled' /\ Known' /\ Recorded' /\ Born' /\ Spent' /\ NoSingleRunSticks'
  BY <1>1, <1>2, OpenKeeps
<1>4. /\ runOf'[w] = r /\ stage'[w] = "working" /\ pc[w] = "running"
      /\ \A v \in Worker : v # w => stage'[v] = stage[v] /\ runOf'[v] = runOf[v]
  BY <1>1, <1>o, InHandler1 DEF Opened, TInv, Types
<1>5. Types' /\ Handling'
  BY <1>1, <1>2, <1>4, <1>o DEF Opened, TInv, Types, Handling, Stage
<1>6. Own'
  <2>1. \A v \in Worker : Working(v)' => v = w \/ Working(v)
    BY <1>4 DEF Working
  <2> QED  BY <1>1, <1>2, <1>4, <2>1, <1>o DEF Opened, TInv, Own, Working
<1>7. Orphans'
  <2> SUFFICES ASSUME NEW q \in RunId, GivenUp(q)' PROVE GivenUp(q) /\ runs'[q] = runs[q]
    BY <1>2 DEF TInv, Orphans, Abandoned, Held, Excused
  <2>1. q # r
    BY <1>4 DEF GivenUp, WorkedOn
  <2> QED  BY <2>1, <1>1, <1>4, <1>o DEF Opened, GivenUp, WorkedOn, Working
<1> QED  BY <1>2, <1>3, <1>5, <1>6, <1>7 DEF TInv

(* ... or opens a row and raises, ...                                      *)
LEMMA RaiseKeeps ==
    ASSUME TInv, NEW w \in Worker, NEW r \in RunId, PreparationRaises(w, r)
    PROVE  TInv'
<1> USE Numbers
<1>1. /\ OpenRow(w, r) /\ Raise(w)
      /\ UNCHANGED <<now, tstatus, nextRun, sched, runOf>>
      /\ stage' = [stage EXCEPT ![w] = "none"]
  BY DEF PreparationRaises, Step
<1>o. Opened(w, r)
  BY <1>1, OpenedRow
<1>2. /\ UNCHANGED <<queueVars, status, attempts, payload, restarts, gateway, faults, holds>>
      /\ pc' = [pc EXCEPT ![w] = "failing"]
  BY <1>1 DEF Raise, FinishJob, Become, queueVars
<1>3. IInv'
  BY <1>1, PoolStep DEF TInv, Next, WorkerStep
<1>4. Filled' /\ Known' /\ Recorded' /\ Born' /\ Spent' /\ NoSingleRunSticks'
  BY <1>1, <1>2, OpenKeeps
<1>5. /\ stage'[w] = "none" /\ stage[w] = "seen" /\ pc'[w] = "failing"
      /\ \A v \in Worker : v # w => stage'[v] = stage[v] /\ pc'[v] = pc[v]
      /\ \A v \in Worker : ChatOf(v)' = ChatOf(v)
  BY <1>1, <1>2, <1>o DEF Opened, TInv, Types, IInv, TypeOK, ChatOf
<1>6. Types' /\ Handling'
  BY <1>1, <1>5, <1>o DEF Opened, TInv, Types, Handling, Stage
<1>7. \A v \in Worker : Working(v)' <=> Working(v)
  BY <1>5 DEF Working
<1>8. Own'
  BY <1>1, <1>2, <1>5, <1>7, <1>o DEF Opened, TInv, Own
<1>9. Orphans'
  <2> SUFFICES ASSUME NEW q \in RunId, GivenUp(q)', (attempts[runs[q].job] = 1)'
               PROVE  Abandoned(q)'
    BY DEF Orphans, Abandoned
  <2>1. CASE q = r
    <3>1. runs'[q].job = holds[w]
      BY <2>1, <1>1, <1>o DEF Opened
    <3>2. status[holds[w]] = "leased" /\ \A v \in Worker : holds[v] = holds[w] => v = w
      BY <1>2, <1>5, <3>1, InHandler1
    <3> QED  BY <1>2, <1>5, <3>1, <3>2 DEF Abandoned, Held
  <2>2. CASE q # r
    <3>1. GivenUp(q) /\ runs'[q] = runs[q]
      BY <2>2, <1>1, <1>5, <1>o DEF Opened, GivenUp, WorkedOn, Working
    <3>2. Abandoned(q)
      BY <3>1 DEF TInv, Orphans
    <3> QED  BY <1>2, <1>5, <3>1, <3>2 DEF Abandoned, Held, Excused
  <2> QED  BY <2>1, <2>2
<1> QED  BY <1>3, <1>4, <1>6, <1>8, <1>9 DEF TInv

(* ... and closes it, with what becomes of the task.                       *)
LEMMA CloseKeeps ==
    ASSUME TInv, NEW w \in Worker,
           CompleteRun(w) \/ (\E s \in {"failed", "skipped"} : FailRun(w, s))
    PROVE  TInv'
<1> USE Numbers
<1> DEFINE t == ChatOf(w)
<1> DEFINE r == runOf[w]
<1>1. PICK s \in {"success", "failed", "skipped"} :
          /\ UNCHANGED <<vars, now, sched, runOf>>
          /\ stage[w] = "working"
          /\ runs' = [runs EXCEPT ![r].status = s]
          /\ stage' = [stage EXCEPT ![w] = "reporting"]
  BY DEF CompleteRun, FailRun, CloseRow, Step
<1>2. /\ IInv' /\ Filled'
      /\ UNCHANGED <<pc, holds, status, attempts, payload, restarts, gateway, faults>>
      /\ \A v \in Worker : ChatOf(v)' = ChatOf(v)
  BY <1>1, Resting
<1>3. pc[w] = "running" /\ t \in Tasks /\ Touched(t)
  BY <1>1, InHandler1
<1>4. r \in RunId /\ runs[r].status = "running" /\ runs[r].task = t
  BY <1>1 DEF TInv, Own, Working
<1>5. /\ runs' \in [RunId -> Row]
      /\ runs'[r].status = s /\ runs'[r].task = t /\ runs'[r].born = runs[r].born
      /\ runs'[r].job = runs[r].job
      /\ \A q \in RunId : q # r => runs'[q] = runs[q]
      /\ \A v \in Worker : v # w => stage'[v] = stage[v]
      /\ stage'[w] = "reporting" /\ stage' \in [Worker -> Stage] /\ runOf' = runOf
  <2>1. runs \in [RunId -> Row] /\ stage \in [Worker -> Stage]
    BY DEF TInv, Types
  <2>2. [runs[r] EXCEPT !.status = s] \in Row
        /\ [runs[r] EXCEPT !.status = s].status = s
        /\ [runs[r] EXCEPT !.status = s].task = runs[r].task
        /\ [runs[r] EXCEPT !.status = s].born = runs[r].born
        /\ [runs[r] EXCEPT !.status = s].job = runs[r].job
    BY SMTT(30), <2>1, <1>4 DEF Row, RowStatuses
  <2>3. runs' = [runs EXCEPT ![r] = [runs[r] EXCEPT !.status = s]]
    BY <1>1
  <2>4. runs' \in [RunId -> Row] /\ runs'[r] = [runs[r] EXCEPT !.status = s]
        /\ \A q \in RunId : q # r => runs'[q] = runs[q]
    BY <2>1, <2>2, <2>3, <1>4
  <2>5. /\ stage'[w] = "reporting" /\ stage' \in [Worker -> Stage] /\ runOf' = runOf
        /\ \A v \in Worker : v # w => stage'[v] = stage[v]
    BY <1>1, <2>1 DEF Stage
  <2> QED  BY <2>2, <2>4, <2>5, <1>4
<1>6. /\ tstatus[t] # "absent"
      /\ tstatus' \in [Tasks -> {"absent", "active", "completed", "cancelled"}]
      /\ nextRun' \in [Tasks -> Slots \cup {Never}]
      /\ \A u \in Tasks : u # t => tstatus'[u] = tstatus[u] /\ nextRun'[u] = nextRun[u]
      /\ \/ tstatus'[t] = "completed"
         \/ tstatus'[t] = "active" /\ nextRun'[t] # Never
         \/ tstatus'[t] = "active" /\ nextRun'[t] = nextRun[t]
  <2>1. now + 1 \in Slots /\ now + 1 # Never
    BY DEF TInv, Types
  <2>2. tstatus[t] # "absent"
    BY <1>3 DEF TInv, Known
  <2>3. CASE CompleteRun(w)
    BY <2>1, <2>2, <2>3, <1>3 DEF CompleteRun, TInv, Types
  <2>4. CASE \E x \in {"failed", "skipped"} : FailRun(w, x)
    BY <2>2, <2>4, <1>3 DEF FailRun, TInv, Types
  <2> QED  BY <2>3, <2>4
<1>7. Types' /\ Handling'
  BY <1>1, <1>2, <1>3, <1>5, <1>6 DEF TInv, Types, Handling
<1>8. \A v \in Worker : Working(v)' => Working(v) /\ v # w /\ runOf[v] # r /\ runOf[v] \in RunId
  BY <1>1, <1>5 DEF TInv, Own, Working
<1>9. Own'
  BY <1>2, <1>5, <1>8 DEF TInv, Own, Working
<1>10. Born'
  BY <1>2, <1>4, <1>5 DEF TInv, Born
<1>11. Closed(r)' /\ \A q \in RunId : Closed(q) => Closed(q)' /\ q # r /\ runs'[q] = runs[q]
  BY <1>4, <1>5 DEF Closed
<1>16. \A u \in Tasks : Touched(u)' <=> Touched(u)
  BY <1>1, <1>2 DEF Touched, Present
<1>12. Spent'
  BY <1>3, <1>4, <1>5, <1>6, <1>11, <1>16 DEF TInv, Spent
<1>13. NoSingleRunSticks'
  <2> SUFFICES ASSUME NEW u \in Tasks, tstatus'[u] = "active", nextRun'[u] = Never,
                      NEW x \in RunId, runs'[x].status # "none", runs'[x].task = u
               PROVE  \E p, q \in RunId : /\ p # q /\ runs'[p].status # "none" /\ runs'[p].task = u
                                         /\ runs'[q].status # "none" /\ runs'[q].task = u
    BY DEF NoSingleRunSticks, RunsOf
  <2>1. CASE u # t
    <3>1. x # r /\ runs[x].status # "none" /\ runs[x].task = u
      BY <2>1, <1>5
    <3>2. PICK p \in RunsOf(u), q \in RunsOf(u) : p # q
      BY <2>1, <3>1, <1>6 DEF TInv, NoSingleRunSticks, RunsOf
    <3>3. p \in RunId /\ q \in RunId /\ p # r /\ q # r
      BY <2>1, <1>4, <3>2 DEF RunsOf
    <3> QED  BY <3>2, <3>3, <1>5 DEF RunsOf
  <2>2. CASE u = t
    <3>1. nextRun[t] = Never
      BY <2>2, <1>6
    <3>2. PICK p \in RunId : Closed(p) /\ runs[p].task = t
      BY <3>1, <1>3 DEF TInv, Spent
    <3> QED  BY <3>2, <2>2, <1>4, <1>5, <1>11 DEF Closed
  <2> QED  BY <2>1, <2>2
<1>15. Known' /\ Recorded'
  <2>1. Known'
    BY <1>6, <1>16 DEF TInv, Known
  <2>2. Recorded'
    BY <1>2, <1>4, <1>5 DEF TInv, Recorded, Present
  <2> QED  BY <2>1, <2>2
<1>14. Orphans'
  <2> SUFFICES ASSUME NEW q \in RunId, GivenUp(q)' PROVE GivenUp(q) /\ runs'[q] = runs[q]
    BY <1>2 DEF TInv, Orphans, Abandoned, Held, Excused
  <2>1. q # r
    BY <1>1, <1>5 DEF GivenUp
  <2> QED  BY <2>1, <1>1, <1>5 DEF GivenUp, WorkedOn
<1> QED  BY <1>2, <1>7, <1>9, <1>10, <1>12, <1>13, <1>14, <1>15 DEF TInv

-----------------------------------------------------------------------------
LEMMA HandlerActions ==
    ASSUME TInv, NEW w \in Worker, HandlerStep(w)
    PROVE  TInv'
<1>1. CASE ReturnRun(w)
  BY <1>1, PoolActions, PoolKeeps
<1>2. CASE SeeActive(w) \/ NotActive(w)
  BY <1>2, LookKeeps
<1>3. ASSUME NEW r \in RunId, RecordRun(w, r) PROVE TInv'
  BY <1>3, RecordKeeps
<1>4. CASE CompleteRun(w) \/ FailRun(w, "failed") \/ FailRun(w, "skipped")
  BY <1>4, CloseKeeps
<1> QED  BY <1>1, <1>2, <1>3, <1>4 DEF HandlerStep

LEMMA TaskStep == TInv /\ [TaskNext]_allVars => TInv'
<1> SUFFICES ASSUME TInv, [TaskNext]_allVars PROVE TInv'
  OBVIOUS
<1>1. ASSUME \/ \E t \in Tasks, j \in JobId : EnqueueTaskRun(t, j)
             \/ EnqueueRaises
             \/ \E w \in Worker : LoopStep(w) \/ LoopFault(w) \/ RunRaises(w) \/ CancelRun(w)
             \/ StopAll \/ CrashAll \/ RestartPool \/ Age
      PROVE  TInv'
  BY <1>1, PoolActions, PoolKeeps
<1>2. ASSUME NEW w \in Worker, HandlerStep(w) \/ \E r \in RunId : PreparationRaises(w, r)
      PROVE  TInv'
  BY <1>2, HandlerActions, RaiseKeeps
<1>3. ASSUME \/ \E t \in Tasks, at \in Slots \cup {Never} : CreateTask(t, at)
             \/ \E t \in Tasks : CancelTask(t)
             \/ LeaseDueTasks \/ NextSlot
      PROVE  TInv'
  BY <1>3, TaskActions
<1>4. CASE UNCHANGED allVars
  <2>1. UNCHANGED <<vars, runs, stage, runOf, now, tstatus, nextRun, sched>>
    BY <1>4 DEF allVars, taskVars
  <2>2. \A u \in Tasks : Touched(u)' <=> Touched(u)
    BY <2>1, Resting DEF Touched, Present
  <2>3. Types' /\ Known' /\ Spent' /\ NoSingleRunSticks'
    BY <2>1, <2>2 DEF TInv, Types, Known, Spent, Closed, NoSingleRunSticks, RunsOf
  <2> QED  BY <2>1, <2>3, TasksKeep
<1> QED  BY <1>1, <1>2, <1>3, <1>4 DEF TaskNext, SchedulerStep

(* The pool's invariant, the stages of the handler and the rows of the two *)
(* tables belong together in every state.                                  *)
THEOREM TasksHold == TaskSpec => []TInv
BY TaskInv, TaskStep, PTL DEF TaskSpec

(* The pool is no weaker for running tasks, nor for the errors and the     *)
(* clock that come with them: leases of task_run jobs are exclusive.       *)
THEOREM LeasesHoldForTasks == TaskSpec => []LeaseExclusive
<1>1. TInv => LeaseExclusive
  BY DEF TInv, IInv
<1> QED  BY TasksHold, <1>1, PTL

(* A run that was given up can be told from the queue: its job has failed, *)
(* was claimed again, or lies there since a stop, a crash or an error.     *)
THEOREM OrphansAreOnRecord == TaskSpec => []OrphanRunsAreOnRecord
<1>1. TInv => OrphanRunsAreOnRecord
  <2> SUFFICES ASSUME TInv, NEW r \in RunId, GivenUp(r), NEW j, j = runs[r].job, ~(attempts[j] > 1)
               PROVE  \/ status[j] = "failed"
                      \/ /\ status[j] = "leased"
                         /\ \/ \E w \in Worker : holds[w] = j /\ pc[w] = "failing"
                            \/ Excused(r)
    BY DEF OrphanRunsAreOnRecord, GivenUp, Excused
  <2>1. j \in JobId /\ attempts[j] >= 1
    BY DEF TInv, Recorded, GivenUp
  <2>2. attempts[j] = 1
    BY <2>1 DEF TInv, IInv, TypeOK, QueueTypeOK
  <2>3. Abandoned(r)
    BY DEF TInv, Orphans
  <2> QED  BY <2>2, <2>3 DEF Abandoned, Held
<1> QED  BY TasksHold, <1>1, PTL

(* An active task that is never due again has not run or has run twice.    *)
THEOREM OneRunNeverSticks == TaskSpec => []NoSingleRunSticks
<1>1. TInv => NoSingleRunSticks
  BY DEF TInv
<1> QED  BY TasksHold, <1>1, PTL

(* A task cancelled while no run of it is in progress stays cancelled: a   *)
(* run begins only after a look at the task, and only a run that has begun *)
(* writes its status.                                                      *)
THEOREM CancelIsFinal == TaskSpec => QuietCancelIsFinal
<1> DEFINE Q == \A t \in Tasks : QuietCancel(t) => QuietCancel(t)'
<1>1. TInv /\ TInv' /\ [TaskNext]_allVars => Q \/ UNCHANGED allVars
  <2> SUFFICES ASSUME TInv, TInv', TaskNext, NEW t \in Tasks,
                      tstatus[t] = "cancelled", ~InProgress(t)
               PROVE  tstatus'[t] = "cancelled" /\ ~InProgress(t)'
    BY DEF QuietCancel
  <2> DEFINE Begun(v) == stage[v] \in {"seen", "working"}
  <2>0. \A v \in Worker : Begun(v) => ChatOf(v) \in Tasks /\ ChatOf(v) # t
    BY InHandler1 DEF InProgress
  <2>1. ASSUME PoolMoves PROVE tstatus'[t] = "cancelled" /\ ~InProgress(t)'
    <3>1. \A v \in Worker : Begun(v)' => Begun(v) /\ ChatOf(v)' = ChatOf(v)
      BY <2>1, ChatStays DEF TInv
    <3> QED  BY <2>0, <2>1, <3>1 DEF PoolMoves, InProgress
  <2>2. ASSUME UNCHANGED vars, tstatus'[t] = "cancelled",
               \A v \in Worker : Begun(v)' => Begun(v) \/ ChatOf(v) # t
        PROVE  tstatus'[t] = "cancelled" /\ ~InProgress(t)'
    BY <2>0, <2>2, Resting DEF InProgress
  <2>3. CASE \/ \E u \in Tasks, at \in Slots \cup {Never} : CreateTask(u, at)
             \/ \E u \in Tasks : CancelTask(u)
             \/ LeaseDueTasks \/ NextSlot
    <3>1. UNCHANGED <<vars, stage>> /\ tstatus'[t] = "cancelled"
      BY <2>3 DEF CreateTask, CancelTask, LeaseDueTasks, NextSlot, TInv, Types
    <3> QED  BY <3>1, <2>2
  <2>4. ASSUME NEW w \in Worker, SeeActive(w) \/ NotActive(w)
        PROVE  tstatus'[t] = "cancelled" /\ ~InProgress(t)'
    <3>1. UNCHANGED <<vars, tstatus>>
          /\ (stage'[w] = "seen" => ChatOf(w) # t)
          /\ (stage'[w] # "working")
          /\ \A v \in Worker : v # w => stage'[v] = stage[v]
      BY <2>4 DEF SeeActive, NotActive, Step, TInv, Types
    <3> QED  BY <3>1, <2>2
  <2>5. ASSUME NEW w \in Worker, NEW r \in RunId, RecordRun(w, r)
        PROVE  tstatus'[t] = "cancelled" /\ ~InProgress(t)'
    <3>1. UNCHANGED <<vars, tstatus>> /\ Begun(w)
          /\ \A v \in Worker : v # w => stage'[v] = stage[v]
      BY <2>5 DEF RecordRun, OpenRow, Step, TInv, Types
    <3> QED  BY <3>1, <2>2
  <2>7. ASSUME NEW w \in Worker, NEW r \in RunId, PreparationRaises(w, r)
        PROVE  tstatus'[t] = "cancelled" /\ ~InProgress(t)'
    <3>1. UNCHANGED <<holds, payload, tstatus>> /\ \A v \in Worker : Begun(v)' => Begun(v)
      BY <2>7 DEF PreparationRaises, Raise, FinishJob, queueVars, Step, TInv, Types
    <3> QED  BY <3>1, <2>0 DEF InProgress, ChatOf
  <2>6. ASSUME NEW w \in Worker, CompleteRun(w) \/ (\E s \in {"failed", "skipped"} : FailRun(w, s))
        PROVE  tstatus'[t] = "cancelled" /\ ~InProgress(t)'
    <3>1. UNCHANGED vars /\ stage[w] = "working" /\ stage' = [stage EXCEPT ![w] = "reporting"]
      BY <2>6 DEF CompleteRun, FailRun, CloseRow, Step
    <3>2. ChatOf(w) # t /\ \A v \in Worker : v # w => stage'[v] = stage[v]
      BY <3>1, <2>0 DEF TInv, Types
    <3>3. tstatus'[t] = tstatus[t]
      BY <2>6, <3>2 DEF CompleteRun, FailRun, TInv, Types
    <3> QED  BY <3>1, <3>2, <3>3, <2>2
  <2> QED  BY <2>1, <2>3, <2>4, <2>5, <2>6, <2>7, PoolActions DEF TaskNext, SchedulerStep, HandlerStep
<1> QED  BY <1>1, TasksHold, PTL DEF TaskSpec, QuietCancelIsFinal

-----------------------------------------------------------------------------
(* Schedules.                                                              *)
USE ScheduleAssumption

(* The clock is read back as the moment it was read at.                    *)
LEMMA RoundTrip ==
    ASSUME NEW zone \in Zone, NEW moment \in Int
    PROVE  ToUtc(zone, ToLocal(zone, moment)) = moment
BY DEF ToUtc, ToLocal, Turn, Zone

(* A time that the wall shows later is later, if it has the same fold or   *)
(* the clock has not been put back in between.                             *)
LEMMA LaterOnTheWall ==
    ASSUME NEW zone \in Zone, NEW moment \in Int, NEW wall \in Int, NEW fold \in {0, 1},
           wall > ToLocal(zone, moment).wall,
           \/ fold = ToLocal(zone, moment).fold
           \/ fold = 0 /\ wall >= zone.at + zone.before
    PROVE  ToUtc(zone, [wall |-> wall, fold |-> fold]) > moment
BY DEF ToUtc, ToLocal, Turn, Zone

(* A slot of the hour or day is less than one of them away.                *)
LEMMA SlotNear ==
    ASSUME NEW span \in Nat \ {0}, NEW slot \in 0..(span - 1), NEW wall \in Int,
           NEW l, l = [wall |-> wall, fold |-> l.fold]
    PROVE  /\ SlotOf(span, slot, l).wall \in Int
           /\ SlotOf(span, slot, l).wall > wall - span
           /\ SlotOf(span, slot, l).wall >= wall - (wall % span)
           /\ SlotOf(span, slot, l).fold = l.fold
<1>1. wall % span \in 0..(span - 1)
  OBVIOUS
<1>2. l.wall = wall
  OBVIOUS
<1> QED  BY <1>1, <1>2 DEF SlotOf

(* The beginning of the span that a time is in.                            *)
LEMMA FloorIsMonotone ==
    ASSUME NEW d \in Nat \ {0}, NEW x \in Int, NEW y \in Int, x <= y
    PROVE  x - (x % d) <= y - (y % d)
<1>1. PICK a \in Int, r \in 0..(d - 1) : x = d * a + r /\ r = x % d
  <2> WITNESS x \div d \in Int, x % d \in 0..(d - 1)
  <2> QED  OBVIOUS
<1>2. PICK b \in Int, q \in 0..(d - 1) : y = d * b + q /\ q = y % d
  <2> WITNESS y \div d \in Int, y % d \in 0..(d - 1)
  <2> QED  OBVIOUS
<1>3. a <= b
  <2> SUFFICES ASSUME a >= b + 1 PROVE FALSE
    OBVIOUS
  <2>1. d * a >= d * (b + 1)
    OBVIOUS
  <2>2. d * (b + 1) = d * b + d
    OBVIOUS
  <2>3. d * a \in Int /\ d * b \in Int
    OBVIOUS
  <2> QED  BY <1>1, <1>2, <2>1, <2>2, <2>3
<1>4. d * a <= d * b
  BY <1>3
<1>5. d * a \in Int /\ d * b \in Int
  OBVIOUS
<1> QED  BY <1>1, <1>2, <1>4, <1>5

(* compute_next_run_at: the next moment is after the present, whatever the *)
(* zone, as long as its clock is not put back over the end of an hour; but *)
(* for weekly tasks in the time that the clock shows twice.                *)
THEOREM NextIsLater ==
    ASSUME NEW zone \in Zone, StaysInHour(zone), NEW s \in Periodical,
           s.slot < IF s.kind = "hourly" THEN Hour ELSE Day,
           NEW moment \in Int, ~Unsafe(s, zone, moment)
    PROVE  NextMoment(s, zone, moment, TRUE) > moment
<1>l. PICK l : l = ToLocal(zone, moment)
  OBVIOUS
<1>c. PICK c : c = Candidate(s, l)
  OBVIOUS
<1> DEFINE span == Span(s.kind)
<1>1. l.wall \in Int /\ l.fold \in {0, 1} /\ l = [wall |-> l.wall, fold |-> l.fold]
  BY <1>l DEF ToLocal, Zone
<1>2. l.fold = 1 => /\ l.wall >= zone.at + zone.after
                    /\ l.wall < zone.at + zone.before
  BY <1>l DEF ToLocal, Zone
<1>n. ASSUME c.wall \in Int
      PROVE  /\ c.wall > l.wall => NextMoment(s, zone, moment, TRUE) = ToUtc(zone, c)
             /\ c.wall <= l.wall =>
                  NextMoment(s, zone, moment, TRUE) =
                      ToUtc(zone, [wall |-> c.wall + span, fold |-> 0])
  BY <1>1, <1>l, <1>c, <1>n DEF NextMoment, Shifted
<1> HIDE DEF span
<1>w. ASSUME NEW wall \in Int, NEW fold \in {0, 1}, wall > l.wall,
             fold = l.fold \/ (fold = 0 /\ wall >= zone.at + zone.before)
      PROVE  ToUtc(zone, [wall |-> wall, fold |-> fold]) > moment
  BY <1>l, <1>w, LaterOnTheWall
<1>3. ASSUME NEW d \in {Hour, Day}, c = SlotOf(d, s.slot, l), span = d, s.slot < d
      PROVE  NextMoment(s, zone, moment, TRUE) > moment
  <2>1. /\ c.wall \in Int /\ c.wall > l.wall - d /\ c.wall >= l.wall - (l.wall % d)
        /\ c.fold = l.fold
    BY <1>1, <1>3, SlotNear DEF Periodical
  <2>2. c = [wall |-> c.wall, fold |-> c.fold]
    BY <1>3 DEF SlotOf
  <2>3. CASE c.wall > l.wall
    <3>1. NextMoment(s, zone, moment, TRUE) = ToUtc(zone, c)
      BY <1>1, <1>n, <2>1, <2>3
    <3>2. ToUtc(zone, [wall |-> c.wall, fold |-> c.fold]) > moment
      BY <1>1, <1>w, <2>1, <2>3
    <3> QED  BY <2>2, <3>1, <3>2
  <2>4. CASE c.wall <= l.wall
    <3>1. NextMoment(s, zone, moment, TRUE) = ToUtc(zone, [wall |-> c.wall + d, fold |-> 0])
      BY <1>n, <1>3, <2>1, <2>4
    <3>2. l.fold = 1 => c.wall + d >= zone.at + zone.before
      <4> SUFFICES ASSUME l.fold = 1 PROVE c.wall + d >= zone.at + zone.before
        OBVIOUS
      <4> DEFINE first == zone.at + zone.after
      <4>1. first - (first % d) + d >= zone.at + zone.before
        BY DEF StaysInHour
      <4>2. first \in Int /\ first <= l.wall /\ d \in Nat \ {0}
        BY <1>2 DEF Zone
      <4> HIDE DEF first
      <4>3. l.wall - (l.wall % d) >= first - (first % d)
        BY <1>1, <4>2, FloorIsMonotone
      <4> QED  BY <1>1, <2>1, <4>1, <4>2, <4>3 DEF Zone
    <3>3. c.wall + d > l.wall /\ c.wall + d \in Int
      BY <1>1, <2>1
    <3> QED  BY <1>1, <1>w, <3>1, <3>2, <3>3
  <2>5. c.wall > l.wall \/ c.wall <= l.wall
    BY <1>1, <2>1
  <2> QED  BY <2>3, <2>4, <2>5
<1>4. CASE s.kind = "hourly"
  BY <1>c, <1>3, <1>4 DEF Candidate, Span, span
<1>5. CASE s.kind = "daily"
  BY <1>c, <1>3, <1>5 DEF Candidate, Span, span
<1>6. CASE s.kind = "weekly"
  <2>0. l.fold = 0
    BY <1>1, <1>l, <1>6 DEF Unsafe
  <2> DEFINE days == (s.day - Weekday(l.wall)) % 7
             slot == SlotOf(Day, s.slot, l)
  <2>1. days \in 0..6
    BY <1>1 DEF Weekday, Periodical
  <2>2. slot.wall \in Int /\ slot.wall > l.wall - Day
    BY <1>1, <1>6, SlotNear DEF Periodical
  <2>3. Day * days \in Nat
    BY <2>1
  <2>4. c = [wall |-> slot.wall + Day * days, fold |-> 0]
    BY <1>c, <1>6 DEF Candidate, Shifted
  <2> HIDE DEF slot, days
  <2>5. c.wall \in Int /\ c.wall > l.wall - 7 * Day /\ c.fold = 0
    BY <1>1, <2>2, <2>3, <2>4
  <2>6. CASE c.wall > l.wall
    <3>1. NextMoment(s, zone, moment, TRUE) = ToUtc(zone, c)
      BY <1>1, <1>n, <2>5, <2>6
    <3>2. c = [wall |-> c.wall, fold |-> 0]
      BY <2>4
    <3>3. ToUtc(zone, [wall |-> c.wall, fold |-> 0]) > moment
      BY <1>1, <1>w, <2>0, <2>5, <2>6
    <3> QED  BY <3>1, <3>2, <3>3
  <2>7. CASE c.wall <= l.wall
    <3>1. NextMoment(s, zone, moment, TRUE) = ToUtc(zone, [wall |-> c.wall + 7 * Day, fold |-> 0])
      BY <1>n, <1>6, <2>5, <2>7 DEF Span, span
    <3>2. c.wall + 7 * Day \in Int /\ c.wall + 7 * Day > l.wall
      BY <1>1, <2>5
    <3>3. ToUtc(zone, [wall |-> c.wall + 7 * Day, fold |-> 0]) > moment
      BY <1>w, <2>0, <3>2
    <3> QED  BY <3>1, <3>3
  <2>8. c.wall > l.wall \/ c.wall <= l.wall
    BY <1>1, <2>5
  <2> QED  BY <2>6, <2>7, <2>8
<1> QED  BY <1>4, <1>5, <1>6 DEF Periodical, Periods
=============================================================================
