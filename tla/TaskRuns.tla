------------------------------ MODULE TaskRuns ------------------------------
(***************************************************************************)
(* Scheduled tasks: the tables tasks and task_runs (umabot/storage/db.py), *)
(* the TaskScheduler loop (umabot/scheduler.py), which leases due tasks    *)
(* and enqueues a "task_run" job for each, and Worker._process_task_run,   *)
(* which the worker loops of WorkerPool run for such a job.  Tasks are     *)
(* created and cancelled by control messages, the panel and the CLI; the   *)
(* last two write to the database while the gateway is up or down.         *)
(* Time is read off a calendar of schedule slots: a task is due when its   *)
(* next_run_at is not after `now`.  The chat of a task_run job is the task.*)
(***************************************************************************)
EXTENDS WorkerPool

CONSTANTS
    Tasks,           \* rows of the table tasks
    Periodic,        \* those with task_type "periodic"; the others run once
    TaskLeaseTicks,  \* lease_seconds of lease_due_tasks, in ticks
    MaxRuns,         \* bound: rows of task_runs
    MaxNow           \* bound: slots of the calendar

ASSUME TaskRunsAssumption == /\ Kinds = {"task_run"}
                             /\ LockKinds = {}
                             /\ Chats = Tasks
                             /\ Periodic \subseteq Tasks
                             /\ TaskLeaseTicks \in Nat \ {0}
                             /\ MaxRuns \in Nat
                             /\ MaxNow \in Nat

VARIABLES
    now,
    tstatus,   \* tasks.status, "absent" before the row exists
    nextRun,   \* tasks.next_run_at: a slot, or Never for NULL
    tlease,    \* ticks left of tasks.lease_until, 0 when NULL or expired
    sched,     \* tasks the scheduler leased and has still to enqueue
    runs,      \* the table task_runs; history: the job that opened a row,
               \* and how often the pool had been started again by then
    stage,     \* per loop, its place in _process_task_run
    runOf      \* per loop: the row of task_runs it works on

taskVars == <<now, tstatus, nextRun, tlease, sched, runs, stage, runOf>>
allVars == <<vars, taskVars>>

Slots == 0..(MaxNow + 1)
Never == MaxNow + 2
RunId == 1..MaxRuns
NoRun == 0
AnyTask == CHOOSE t \in Tasks : TRUE
NoRow == [task |-> AnyTask, job |-> NoJob, born |-> 0, status |-> "none"]

\* "skipped" is a failed run whose error text says "Skipping run."
RowStatuses == {"none", "running", "success", "failed", "skipped"}

TaskTypeOK ==
    /\ TypeOK
    /\ now \in 0..MaxNow
    /\ tstatus \in [Tasks -> {"absent", "active", "completed", "cancelled"}]
    /\ nextRun \in [Tasks -> Slots \cup {Never}]
    /\ tlease \in [Tasks -> 0..TaskLeaseTicks]
    /\ sched \subseteq Tasks
    /\ runs \in [RunId -> [task : Tasks, job : JobId \cup {NoJob},
                           born : 0..MaxRestarts, status : RowStatuses]]
    /\ stage \in [Worker -> {"none", "seen", "working", "reporting"}]
    /\ runOf \in [Worker -> RunId \cup {NoRun}]

TaskInit ==
    /\ Init
    /\ now = 0
    /\ tstatus = [t \in Tasks |-> "absent"]
    /\ nextRun = [t \in Tasks |-> Never]
    /\ tlease = [t \in Tasks |-> 0]
    /\ sched = {}
    /\ runs = [r \in RunId |-> NoRow]
    /\ stage = [w \in Worker |-> "none"]
    /\ runOf = [w \in Worker |-> NoRun]

-----------------------------------------------------------------------------
Due(t) == tstatus[t] = "active" /\ nextRun[t] <= now

(* create_task.  The panel passes on whatever next_run_at it is given, for *)
(* either type of task: any moment, or none (its default).  The CLI and a  *)
(* control message create no task without one.                             *)
CreateTask(t, at) ==
    /\ tstatus[t] = "absent"
    /\ tstatus' = [tstatus EXCEPT ![t] = "active"]
    /\ nextRun' = [nextRun EXCEPT ![t] = at]
    /\ UNCHANGED <<vars, now, tlease, sched, runs, stage, runOf>>

(* cancel_task, whatever the task is doing.                                *)
CancelTask(t) ==
    /\ tstatus[t] \in {"active", "completed"}
    /\ tstatus' = [tstatus EXCEPT ![t] = "cancelled"]
    /\ tlease' = [tlease EXCEPT ![t] = 0]
    /\ UNCHANGED <<vars, now, nextRun, sched, runs, stage, runOf>>

(* lease_due_tasks: every due task whose lease is NULL or has run out.     *)
LeaseDueTasks ==
    /\ gateway = "running"
    /\ sched = {}
    /\ sched' = {t \in Tasks : Due(t) /\ tlease[t] = 0}
    /\ sched' # {}
    /\ tlease' = [t \in Tasks |-> IF t \in sched' THEN TaskLeaseTicks
                                                  ELSE tlease[t]]
    /\ UNCHANGED <<vars, now, tstatus, nextRun, runs, stage, runOf>>

(* One iteration of the scheduler's for loop.                              *)
EnqueueTaskRun(t, j) ==
    /\ gateway = "running"
    /\ t \in sched
    /\ Enqueue(j, "task_run", t)
    /\ sched' = sched \ {t}
    /\ UNCHANGED <<now, tstatus, nextRun, tlease, runs, stage, runOf>>

(* An enqueue raises: the loop drops the tasks it had still to enqueue.    *)
EnqueueRaises ==
    /\ gateway = "running"
    /\ sched # {}
    /\ DbFault
    /\ sched' = {}
    /\ UNCHANGED <<queueVars, gateway, pc, holds, term, ahead, restarts, now,
                   tstatus, nextRun, tlease, runs, stage, runOf>>

-----------------------------------------------------------------------------
(* _process_task_run.  A task that is not active only gets its lease       *)
(* released; otherwise the run is recorded and the model is called.  The   *)
(* CLI and the panel are processes of their own, so that a cancel may fall *)
(* between get_task and create_task_run.                                   *)
InHandler(w) == pc[w] = "running" /\ stage[w] = "none"
Step(w, s) == stage' = [stage EXCEPT ![w] = s]

(* Mutation of SeeActive: the task's status is not looked at.              *)
SeeActive_Unchecked(w) ==
    /\ InHandler(w)
    /\ Step(w, "seen")
    /\ UNCHANGED <<vars, now, tstatus, nextRun, tlease, sched, runs, runOf>>

SeeActive(w) ==
    /\ InHandler(w)
    /\ tstatus[ChatOf(w)] = "active"
    /\ Step(w, "seen")
    /\ UNCHANGED <<vars, now, tstatus, nextRun, tlease, sched, runs, runOf>>

NotActive(w) ==
    /\ InHandler(w)
    /\ tstatus[ChatOf(w)] # "active"
    /\ tlease' = [tlease EXCEPT ![ChatOf(w)] = 0]
    /\ Step(w, "reporting")
    /\ UNCHANGED <<vars, now, tstatus, nextRun, sched, runs, runOf>>

OpenRow(w, r) ==
    /\ stage[w] = "seen"
    /\ runs[r].status = "none"
    /\ \A q \in RunId : q < r => runs[q].status # "none"
    /\ runs' = [runs EXCEPT ![r] = [task |-> ChatOf(w), job |-> holds[w],
                                    born |-> restarts, status |-> "running"]]

RecordRun(w, r) ==
    /\ OpenRow(w, r)
    /\ runOf' = [runOf EXCEPT ![w] = r]
    /\ Step(w, "working")
    /\ UNCHANGED <<vars, now, tstatus, nextRun, tlease, sched>>

CloseRow(w, status1) ==
    /\ stage[w] = "working"
    /\ runs' = [runs EXCEPT ![runOf[w]].status = status1]
    /\ tlease' = [tlease EXCEPT ![ChatOf(w)] = 0]
    /\ Step(w, "reporting")
    /\ UNCHANGED <<vars, now, sched, runOf>>

(* complete_task_run: neither the task's status nor who leases it is       *)
(* looked at.  compute_next_run_at gives a slot that is strictly later.    *)
CompleteRun(w) ==
    /\ CloseRow(w, "success")
    /\ LET t == ChatOf(w) IN
       IF t \in Periodic
       THEN /\ tstatus' = [tstatus EXCEPT ![t] = "active"]
            /\ nextRun' = [nextRun EXCEPT ![t] = now + 1]
       ELSE /\ tstatus' = [tstatus EXCEPT ![t] = "completed"]
            /\ nextRun' = [nextRun EXCEPT ![t] = Never]

(* Mutations of FailRun: the row stays open; next_run_at is overwritten    *)
(* with the NULL that was passed.                                          *)
FailRun_RowOpen(w, status1) ==
    /\ stage[w] = "working"
    /\ tstatus' = [tstatus EXCEPT ![ChatOf(w)] = "active"]
    /\ tlease' = [tlease EXCEPT ![ChatOf(w)] = 0]
    /\ Step(w, "reporting")
    /\ UNCHANGED <<vars, now, sched, nextRun, runs, runOf>>

FailRun_NullNext(w, status1) ==
    /\ CloseRow(w, status1)
    /\ tstatus' = [tstatus EXCEPT ![ChatOf(w)] = "active"]
    /\ nextRun' = [nextRun EXCEPT ![ChatOf(w)] = Never]

(* fail_task_run without a next_run_at: the old one is kept.  Called when  *)
(* the run raised or a tool was denied or missing ("failed"), and when a   *)
(* tool needs a confirmation ("skipped").                                  *)
FailRun(w, status1) ==
    /\ CloseRow(w, status1)
    /\ tstatus' = [tstatus EXCEPT ![ChatOf(w)] = "active"]
    /\ UNCHANGED nextRun

(* What is done between create_task_run and the try raises: the session    *)
(* and its messages, the skills, which are read anew (a SKILL.md that is   *)
(* no YAML raises each time), the rules.  The job fails, and the row stays *)
(* open.  There is no await between the two, so it is one step.            *)
PreparationRaises(w, r) ==
    /\ OpenRow(w, r)
    /\ Raise(w)
    /\ Step(w, "none")
    /\ UNCHANGED <<now, tstatus, nextRun, tlease, sched, runOf>>

(* get_task or create_task_run raises, or fail_task_run in the except      *)
(* clause: the job fails and neither the row nor the task is touched.      *)
RunRaises(w) ==
    /\ InHandler(w) \/ stage[w] \in {"seen", "working"}
    /\ faults < MaxDbFaults
    /\ Become(w, "failing")
    /\ Step(w, "none")
    /\ runOf' = [runOf EXCEPT ![w] = NoRun]
    /\ faults' = faults + 1
    /\ UNCHANGED <<queueVars, gateway, holds, term, ahead, restarts,
                   now, tstatus, nextRun, tlease, sched, runs>>

(* The report to the panels is sent; the handler returns.                  *)
ReturnRun(w) ==
    /\ stage[w] = "reporting"
    /\ Return(w)
    /\ Step(w, "none")
    /\ runOf' = [runOf EXCEPT ![w] = NoRun]
    /\ UNCHANGED <<now, tstatus, nextRun, tlease, sched, runs>>

-----------------------------------------------------------------------------
(* Steps of the loops outside the handler.                                 *)
LoopStep(w) ==
    /\ \/ \E j \in JobId : Claim(w, j)
       \/ Dispatch(w)
       \/ Complete(w)
       \/ Fail(w)
    /\ UNCHANGED taskVars

LoopFault(w) ==
    /\ ClaimRaises(w) \/ CompleteRaises(w) \/ FailRaises(w)
    /\ UNCHANGED taskVars

(* Gateway.stop and reload cancel the scheduler before the worker pool.    *)
StopAll ==
    /\ StopBegin
    /\ sched' = {}
    /\ UNCHANGED <<now, tstatus, nextRun, tlease, runs, stage, runOf>>

CancelRun(w) ==
    /\ CancelWorker(w)
    /\ Step(w, "none")
    /\ runOf' = [runOf EXCEPT ![w] = NoRun]
    /\ UNCHANGED <<now, tstatus, nextRun, tlease, sched, runs>>

CrashAll ==
    /\ Crash
    /\ sched' = {}
    /\ stage' = [w \in Worker |-> "none"]
    /\ runOf' = [w \in Worker |-> NoRun]
    /\ UNCHANGED <<now, tstatus, nextRun, tlease, runs>>

RestartPool ==
    /\ Stopped \/ Start \/ \E w \in Worker : StopRaises(w)
    /\ UNCHANGED taskVars

(* Mutation of Age: the lease of a task never runs out.                    *)
Age_LeaseKept ==
    /\ \E j \in JobId : lease[j] > 0
    /\ LeasesAge
    /\ term' = [w \in Worker |-> IF term[w] = 0 THEN 0 ELSE term[w] - 1]
    /\ UNCHANGED <<gateway, pc, holds, ahead, restarts, faults, taskVars>>

(* The clock: leases of jobs and tasks run down together.                  *)
Age ==
    /\ (\E j \in JobId : lease[j] > 0) \/ (\E t \in Tasks : tlease[t] > 0)
    /\ LeasesAge
    /\ term' = [w \in Worker |-> IF term[w] = 0 THEN 0 ELSE term[w] - 1]
    /\ tlease' = [t \in Tasks |-> IF tlease[t] = 0 THEN 0 ELSE tlease[t] - 1]
    /\ UNCHANGED <<gateway, pc, holds, ahead, restarts, faults, now, tstatus,
                   nextRun, sched, runs, stage, runOf>>

NextSlot ==
    /\ now < MaxNow
    /\ now' = now + 1
    /\ UNCHANGED <<vars, tstatus, nextRun, tlease, sched, runs, stage, runOf>>

HandlerStep(w) ==
    \/ SeeActive(w)
    \/ NotActive(w)
    \/ \E r \in RunId : RecordRun(w, r)
    \/ CompleteRun(w)
    \/ FailRun(w, "failed")
    \/ FailRun(w, "skipped")
    \/ ReturnRun(w)

SchedulerStep ==
    \/ LeaseDueTasks
    \/ \E t \in Tasks, j \in JobId : EnqueueTaskRun(t, j)

TaskNext ==
    \/ \E t \in Tasks, at \in Slots \cup {Never} : CreateTask(t, at)
    \/ \E t \in Tasks : CancelTask(t)
    \/ SchedulerStep
    \/ EnqueueRaises
    \/ \E w \in Worker : \/ LoopStep(w)
                         \/ HandlerStep(w)
                         \/ LoopFault(w)
                         \/ RunRaises(w)
                         \/ \E r \in RunId : PreparationRaises(w, r)
                         \/ CancelRun(w)
    \/ StopAll
    \/ CrashAll
    \/ RestartPool
    \/ Age
    \/ NextSlot

TaskSpec == TaskInit /\ [][TaskNext]_allVars

(* As in WorkerPool: the event loop schedules the scheduler and the loops, *)
(* stop() runs to its end and time passes.                                 *)
TaskFairSpec ==
    /\ TaskSpec
    /\ WF_allVars(Age)
    /\ WF_allVars(SchedulerStep)
    /\ WF_allVars(RestartPool /\ gateway # "down")
    /\ \A w \in Worker : /\ WF_allVars(LoopStep(w) \/ HandlerStep(w))
                         /\ WF_allVars(CancelRun(w))
-----------------------------------------------------------------------------
WorkedOn(r) == \E w \in Worker : stage[w] = "working" /\ runOf[w] = r
RunsOf(t) == {r \in RunId : runs[r].status # "none" /\ runs[r].task = t}
InProgress(t) ==
    \E w \in Worker : stage[w] \in {"seen", "working"} /\ ChatOf(w) = t

(* A row of task_runs that says "running" while no loop works on it (and   *)
(* nothing sweeps the table) can be told from the queue: unless its job    *)
(* was claimed again, the job has failed or is about to, or it is still    *)
(* leased because the pool was stopped or died or a database call raised.  *)
(* A job that is done after its only claim has left no run open.           *)
OrphanRunsAreOnRecord ==
    \A r \in RunId :
        runs[r].status = "running" /\ ~WorkedOn(r) =>
            LET j == runs[r].job IN
            \/ attempts[j] > 1
            \/ status[j] = "failed"
            \/ /\ status[j] = "leased"
               /\ \/ \E w \in Worker : holds[w] = j /\ pc[w] = "failing"
                  \/ runs[r].born < restarts
                  \/ gateway # "running"
                  \/ faults > 0

(* An active task without next_run_at is never due: it is stuck, and       *)
(* `umabot tasks` shows it as active.  The panel can create one so, which  *)
(* then has no run at all; but no single run leaves its task stuck: only   *)
(* two runs of one task do (one completes it, the other fails afterwards). *)
NoSingleRunSticks ==
    \A t \in Tasks :
        tstatus[t] = "active" /\ nextRun[t] = Never
        => RunsOf(t) = {} \/ \E q, r \in RunsOf(t) : q # r

(* Once a task is cancelled and no run of it is in progress, it is never   *)
(* run again and stays cancelled, whatever jobs for it are still queued,   *)
(* leased or claimed again after a restart (_process_task_run looks at the *)
(* task's status before it records a run).                                 *)
QuietCancel(t) == tstatus[t] = "cancelled" /\ ~InProgress(t)

QuietCancelIsFinal ==
    [][\A t \in Tasks : QuietCancel(t) => QuietCancel(t)']_allVars

(* A task that is due is run, cancelled or rescheduled sooner or later,    *)
(* provided the pool runs from some time on with a loop that is alive (and *)
(* the bounds of the model leave an id for the job and the row).           *)
Exhausted == status[MaxJobs] # "absent" \/ runs[MaxRuns].status # "none"

DueTaskRuns ==
    <>[]PoolKeepsRunning =>
        \A t \in Tasks : Due(t) ~> ~Due(t) \/ InProgress(t) \/ Exhausted

=============================================================================
