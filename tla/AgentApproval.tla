---------------------------- MODULE AgentApproval ----------------------------
(***************************************************************************)
(* Approvals that the dynamic orchestrator asks for in the middle of a     *)
(* message (request_approval in Worker._run_with_orchestrator): the loop   *)
(* that processes the message waits for a future, 300 seconds at most; the *)
(* admin's answer comes in by the websocket, is enqueued as a job of the   *)
(* type "agent_approve" (Gateway._on_ws_event) and resolves the future     *)
(* when some loop of the same pool processes it                            *)
(* (Worker.resolve_orchestrator_approval).  The pool is WorkerPool, with   *)
(* its leases, which a waiting message outlives ten times over.            *)
(* Time: a tick is the lease of a job.  What a loop does between two waits *)
(* takes no time next to that, so a tick passes only when every loop waits *)
(* for something.                                                          *)
(***************************************************************************)
EXTENDS WorkerPool

CONSTANTS
    Admin,          \* the chat_id that answers are enqueued with
    ApprovalTicks,  \* timeout of asyncio.wait_for, in ticks
    MaxAsks         \* bound: requests for approval

(* "confirm" stands for the jobs that take no lock and run for as long as  *)
(* a message does: confirm and task_run.                                   *)
ASSUME AgentApprovalAssumption == /\ Kinds = {"message", "confirm", "agent_approve"}
                                  /\ LockKinds = {"message"}
                                  /\ Admin \in Chats
                                  /\ ApprovalTicks \in Nat \ {0}
                                  /\ MaxAsks \in Nat

VARIABLES
    asker,    \* the loop that waits for a request's future, Nobody if none
    future,   \* "none" before the request is made
    timer,    \* ticks left of a request's timeout
    verdict,  \* what request_approval returned, "lost" if its loop was ended
    answer    \* what a job of type "agent_approve" carries

askVars == <<asker, future, timer, verdict, answer>>
approvalVars == <<vars, askVars>>

Request == 1..MaxAsks    \* tokens, in the order they are made
Nobody == 0
NoAnswer == [request |-> 0, approved |-> FALSE]
Answers == [request : Request, approved : BOOLEAN]

ApprovalTypeOK ==
    /\ TypeOK
    /\ asker \in [Request -> Worker \cup {Nobody}]
    /\ future \in [Request -> {"none", "pending", "approved", "denied"}]
    /\ timer \in [Request -> 0..ApprovalTicks]
    /\ verdict \in [Request -> {"none", "approved", "denied", "timeout", "lost"}]
    /\ answer \in [JobId -> Answers \cup {NoAnswer}]

ApprovalInit ==
    /\ Init
    /\ asker = [a \in Request |-> Nobody]
    /\ future = [a \in Request |-> "none"]
    /\ timer = [a \in Request |-> 0]
    /\ verdict = [a \in Request |-> "none"]
    /\ answer = [j \in JobId |-> NoAnswer]

-----------------------------------------------------------------------------
Waiting(w) == \E a \in Request : asker[a] = w
Processing(w, kind) == pc[w] = "running" /\ payload[holds[w]].kind = kind

(* request_approval: a token and a future are put into the table of        *)
(* pending approvals, the panels are told and the future is awaited.       *)
AskApproval(w, a) ==
    /\ Processing(w, "message")
    /\ ~Waiting(w)
    /\ future[a] = "none"
    /\ \A b \in Request : b < a => future[b] # "none"
    /\ asker' = [asker EXCEPT ![a] = w]
    /\ future' = [future EXCEPT ![a] = "pending"]
    /\ timer' = [timer EXCEPT ![a] = ApprovalTicks]
    /\ UNCHANGED <<vars, verdict, answer>>

(* AGENT_APPROVE:<token> or AGENT_DENY:<token> from a panel, which may     *)
(* have several windows, at any time after the request was shown.          *)
AnswerRequest(a, approved, j) ==
    /\ future[a] # "none"
    /\ Enqueue(j, "agent_approve", Admin)
    /\ answer' = [answer EXCEPT ![j] = [request |-> a, approved |-> approved]]
    /\ UNCHANGED <<asker, future, timer, verdict>>

(* Mutation of ResolveApproval: the token is not looked at, the answer     *)
(* goes to whatever request is pending.                                    *)
ResolveApproval_Any(w) ==
    /\ Processing(w, "agent_approve")
    /\ Return(w)
    /\ future' = [a \in Request |->
                     IF asker[a] # Nobody /\ future[a] = "pending"
                     THEN IF answer[holds[w]].approved THEN "approved" ELSE "denied"
                     ELSE future[a]]
    /\ UNCHANGED <<asker, timer, verdict, answer>>

(* resolve_orchestrator_approval: the first answer to a request in the     *)
(* table is its result, any other is ignored.                              *)
ResolveApproval(w) ==
    /\ Processing(w, "agent_approve")
    /\ Return(w)
    /\ LET a == answer[holds[w]].request IN
       future' = IF asker[a] # Nobody /\ future[a] = "pending"
                 THEN [future EXCEPT ![a] = IF answer[holds[w]].approved
                                            THEN "approved" ELSE "denied"]
                 ELSE future
    /\ UNCHANGED <<asker, timer, verdict, answer>>

LeaveTable(a, outcome) ==
    /\ asker' = [asker EXCEPT ![a] = Nobody]
    /\ verdict' = [verdict EXCEPT ![a] = outcome]
    /\ UNCHANGED <<vars, future, timer, answer>>

Proceed(a) ==
    /\ asker[a] # Nobody
    /\ future[a] \in {"approved", "denied"}
    /\ LeaveTable(a, future[a])

(* A loop that has something to do does it before the next tick, and       *)
(* before a timeout that this tick brought.                                *)
Busy(w) ==
    \/ pc[w] \in {"claimed", "completing", "failing"}
    \/ pc[w] = "idle" /\ \E j \in JobId : Claimable(j)
    \/ pc[w] = "lockwait" /\ ahead[w] = {}
    \/ Processing(w, "agent_approve")

(* Mutation of TimeOut: the future is awaited without a timeout.           *)
TimeOut_Never(a) == FALSE /\ UNCHANGED approvalVars

(* asyncio.TimeoutError: the request counts as denied.                     *)
TimeOut(a) ==
    /\ asker[a] # Nobody
    /\ future[a] = "pending"
    /\ timer[a] = 0
    /\ \A w \in Worker : ~Busy(w)
    /\ LeaveTable(a, "timeout")

-----------------------------------------------------------------------------
(* The steps of the pool.  A job returns or raises once nothing that it    *)
(* asked for is awaited; an answer is processed by ResolveApproval.        *)
PoolStep(w) ==
    /\ \/ \E j \in JobId : Claim(w, j)
       \/ Dispatch(w)
       \/ Acquire(w)
       \/ Complete(w)
       \/ Fail(w)
    /\ UNCHANGED askVars

EndWork(w) ==
    /\ Processing(w, "message") \/ Processing(w, "confirm")
    /\ ~Waiting(w)
    /\ Return(w) \/ Raise(w)
    /\ UNCHANGED askVars

PoolFault(w) ==
    /\ ClaimRaises(w) \/ CompleteRaises(w) \/ FailRaises(w)
    /\ UNCHANGED askVars

EnqueueWork(j, kind, chat) ==
    /\ Enqueue(j, kind, chat)
    /\ UNCHANGED askVars

(* The loops of W are ended: `finally` pops their requests.                *)
Forget(W) ==
    /\ asker' = [a \in Request |-> IF asker[a] \in W THEN Nobody ELSE asker[a]]
    /\ verdict' = [a \in Request |-> IF asker[a] \in W THEN "lost" ELSE verdict[a]]
    /\ UNCHANGED <<future, timer, answer>>

CancelAsker(w) == CancelWorker(w) /\ Forget({w})

CrashAsking == Crash /\ Forget(Worker)

TurnPool ==
    /\ StopBegin \/ Stopped \/ Start \/ \E w \in Worker : StopRaises(w)
    /\ UNCHANGED askVars

TimePasses ==
    /\ (\E j \in JobId : lease[j] > 0) \/ (\E a \in Request : asker[a] # Nobody)
    /\ \A w \in Worker : ~Busy(w)
    /\ \A a \in Request :
          asker[a] # Nobody => future[a] = "pending" /\ timer[a] > 0
    /\ LeasesAge
    /\ term' = [w \in Worker |-> IF term[w] = 0 THEN 0 ELSE term[w] - 1]
    /\ timer' = [a \in Request |-> IF asker[a] = Nobody THEN timer[a]
                                                      ELSE timer[a] - 1]
    /\ UNCHANGED <<gateway, pc, holds, ahead, restarts, faults, asker, future,
                   verdict, answer>>

LoopStep(w) == PoolStep(w) \/ EndWork(w) \/ ResolveApproval(w)

RequestStep(a) == Proceed(a) \/ TimeOut(a)

ApprovalNext ==
    \/ \E j \in JobId, kind \in {"message", "confirm"}, chat \in Chats : EnqueueWork(j, kind, chat)
    \/ \E a \in Request : \/ \E w \in Worker : AskApproval(w, a)
                          \/ \E j \in JobId, approved \in BOOLEAN :
                                AnswerRequest(a, approved, j)
                          \/ RequestStep(a)
    \/ \E w \in Worker : LoopStep(w) \/ PoolFault(w) \/ CancelAsker(w)
    \/ CrashAsking
    \/ TurnPool
    \/ TimePasses

ApprovalSpec == ApprovalInit /\ [][ApprovalNext]_approvalVars

(* Time passes and the event loop goes on with whatever can go on.         *)
ApprovalFairSpec ==
    /\ ApprovalSpec
    /\ WF_approvalVars(TimePasses)
    /\ \A a \in Request : WF_approvalVars(RequestStep(a))
    /\ \A w \in Worker : WF_approvalVars(LoopStep(w)) /\ WF_approvalVars(CancelAsker(w))
    /\ WF_approvalVars(TurnPool /\ gateway \in {"stopping", "aborting"})

-----------------------------------------------------------------------------
Answered(a) == {j \in JobId : answer[j].request = a}

(* An action goes on as approved only if the admin approved this very      *)
(* request: an answer to another one, or to one that has timed out in the  *)
(* meantime, never counts (resolve_orchestrator_approval by token).        *)
ApprovedOnlyOnYes ==
    \A a \in Request :
        verdict[a] = "approved" => \E j \in Answered(a) : answer[j].approved

(* A row whose loop has ended under the lease: nobody claims it before the *)
(* lease is over.                                                          *)
Stranded(j) ==
    status[j] = "leased" /\ lease[j] > 0 /\ \A w \in Worker : holds[w] # j

(* A request times out although an answer to it is waiting in the queue    *)
(* only if there is no loop left to process the answer: each one holds     *)
(* other work or has ended, or the one that took the answer ended with it     *)
(* (cancelled, or of an error) and left it leased.  (One loop is the       *)
(* default; with more of them, the expired lease of the waiting message    *)
(* draws them in one by one.)                                              *)
MissedOnlyWhenNoLoopIsFree ==
    [][\A a \in Request : \A j \in Answered(a) :
          verdict[a] = "none" /\ verdict'[a] = "timeout"
          => \/ status[j] \in Settled \/ Stranded(j)
             \/ \A w \in Worker :
                   \/ pc[w] \in Gone
                   \/ holds[w] # NoJob /\ payload[holds[w]].kind # "agent_approve"]_approvalVars

(* A request that is waited for is given up or answered sooner or later:   *)
(* a loop never waits for good for an answer that only a loop could        *)
(* deliver (asyncio.wait_for with its timeout).                            *)
RequestsEnd ==
    \A a \in Request : (asker[a] # Nobody) ~> (asker[a] = Nobody)

=============================================================================
