------------------------ MODULE AgentApproval_proofs -------------------------
(* Approvals in the middle of a message, for any number of loops, jobs,    *)
(* requests, restarts and errors, and any lease and timeout.  The pool of  *)
(* WorkerPool is implemented, so what is proved of it holds here.          *)
EXTENDS AgentApproval, WorkerPool_proofs

(* A loop without a job has no lease.                                      *)
NoTerm == \A w \in Worker : holds[w] = NoJob => term[w] = 0

(* A row has a type, and those of the type "agent_approve", and no others,  *)
(* carry an answer.                                                        *)
Addressed ==
    \A j \in JobId :
        /\ status[j] = "absent" => answer[j] = NoAnswer
        /\ status[j] # "absent" => payload[j].kind \in Kinds
        /\ payload[j].kind = "agent_approve" => answer[j] \in Answers
        /\ answer[j] \in Answers => payload[j].kind = "agent_approve"

(* A loop that waits for a request is in the middle of a message, and of   *)
(* no other request.                                                       *)
Asking ==
    /\ \A a \in Request : asker[a] # Nobody => Processing(asker[a], "message")
    /\ \A a, b \in Request : asker[a] # Nobody /\ asker[a] = asker[b] => a = b

(* A future is resolved to a yes by an answer to it.                       *)
Granted ==
    \A a \in Request :
        future[a] = "approved" \/ verdict[a] = "approved"
        => \E j \in Answered(a) : answer[j].approved

PoolInv == IInv /\ NoTerm

AskInv == PoolInv /\ ApprovalTypeOK /\ Addressed /\ Asking /\ Granted

LEMMA Numbers ==
    /\ MaxAsks \in Nat /\ ApprovalTicks \in Nat \ {0} /\ Request \subseteq Nat \ {0}
    /\ NoAnswer \notin Answers /\ Nobody = 0 /\ Nobody \notin Worker
    /\ Admin \in Chats /\ Kinds = {"message", "confirm", "agent_approve"} /\ LockKinds = {"message"}
    /\ JobId \subseteq Nat \ {0} /\ NoJob = 0 /\ LeaseTicks \in Nat \ {0}
BY AgentApprovalAssumption, WorkerPoolAssumption, JobQueueAssumption
   DEF Request, NoAnswer, Answers, Nobody, Worker, JobId, NoJob

-----------------------------------------------------------------------------
(* Every step is one of the pool, or leaves it alone.                      *)

LEMMA TermStep == PoolInv /\ [Next]_vars => NoTerm'
<1> SUFFICES ASSUME PoolInv, [Next]_vars PROVE NoTerm'
  OBVIOUS
<1> USE Numbers DEF PoolInv, IInv, TypeOK, QueueTypeOK, NoTerm
<1>1. ASSUME NEW w \in Worker,
             \/ \E j \in JobId : Claim(w, j)
             \/ Complete(w) \/ Fail(w) \/ FailRaises(w) \/ CancelWorker(w)
      PROVE  NoTerm'
  <2>1. CASE \E j \in JobId : Claim(w, j)
    BY <2>1 DEF Claim
  <2>2. CASE Complete(w) \/ Fail(w)
    BY <2>2 DEF Complete, Fail, LoopAgain
  <2>3. CASE FailRaises(w) \/ CancelWorker(w)
    BY <2>3 DEF FailRaises, CancelWorker
  <2> QED  BY <1>1, <2>1, <2>2, <2>3
<1>2. ASSUME NEW w \in Worker,
             \/ ClaimRaises(w) \/ Dispatch(w) \/ Acquire(w) \/ Return(w) \/ Raise(w)
             \/ CompleteRaises(w) \/ StopRaises(w)
      PROVE  NoTerm'
  BY <1>2 DEF ClaimRaises, Dispatch, Acquire, Return, Raise, FinishJob, CompleteRaises, StopRaises
<1>3. ASSUME NEW j \in JobId, NEW kind \in Kinds, NEW chat \in Chats, Enqueue(j, kind, chat)
      PROVE  NoTerm'
  BY <1>3 DEF Enqueue, poolVars
<1>4. CASE StopBegin \/ Stopped \/ Start \/ Crash
  BY <1>4 DEF StopBegin, Stopped, Start, Crash
<1>5. CASE Tick \/ UNCHANGED vars
  BY <1>5 DEF Tick, vars, poolVars
<1> QED  BY <1>1, <1>2, <1>3, <1>4, <1>5 DEF Next, WorkerStep

LEMMA PoolInvStep == PoolInv /\ [Next]_vars => PoolInv'
BY TermStep, TypeStep, PhaseStep, ClaimsStep, LocksStep DEF PoolInv, IInv, Claims, Locks

(* Time that passes when no lease is left changes nothing in the pool.     *)
LEMMA IdleTime == ASSUME PoolInv, TimePasses PROVE Tick \/ UNCHANGED vars
<1>1. SUFFICES ASSUME \A j \in JobId : ~(lease[j] > 0) PROVE UNCHANGED vars
  BY DEF TimePasses, Tick
<1> USE Numbers DEF PoolInv, IInv, TypeOK, QueueTypeOK
<1>2. \A j \in JobId : lease[j] = 0
  BY <1>1
<1>3. lease' = lease
  BY <1>2 DEF TimePasses, LeasesAge
<1>4. \A w \in Worker : term[w] = 0
  <2> TAKE w \in Worker
  <2>1. CASE holds[w] = NoJob
    BY <2>1 DEF NoTerm
  <2>2. CASE holds[w] # NoJob
    <3>1. holds[w] \in JobId /\ lease[holds[w]] = 0
      BY <2>2, <1>2
    <3>2. term[w] <= lease[holds[w]] /\ term[w] \in Nat
      BY <2>2 DEF HeldWasClaimed
    <3> QED  BY <3>1, <3>2
  <2> QED  BY <2>1, <2>2
<1>5. term' = term
  BY <1>4 DEF TimePasses
<1> QED  BY <1>3, <1>5 DEF TimePasses, LeasesAge, vars, queueVars, poolVars

LEMMA PoolRefines == PoolInv /\ [ApprovalNext]_approvalVars => [Next]_vars
<1> SUFFICES ASSUME PoolInv, ApprovalNext PROVE Next \/ UNCHANGED vars
  BY DEF approvalVars
<1> USE Numbers DEF Next, WorkerStep
<1>1. ASSUME NEW j \in JobId, NEW kind \in {"message", "confirm"}, NEW chat \in Chats,
           EnqueueWork(j, kind, chat)
      PROVE  Next
  BY <1>1 DEF EnqueueWork
<1>2. ASSUME NEW a \in Request, NEW j \in JobId, NEW approved \in BOOLEAN,
             AnswerRequest(a, approved, j)
      PROVE  Next
  BY <1>2 DEF AnswerRequest
<1>3. ASSUME NEW a \in Request, RequestStep(a) \/ \E w \in Worker : AskApproval(w, a)
      PROVE  UNCHANGED vars
  BY <1>3 DEF RequestStep, Proceed, TimeOut, LeaveTable, AskApproval
<1>4. ASSUME NEW w \in Worker, LoopStep(w) \/ PoolFault(w) \/ CancelAsker(w)
      PROVE  Next
  BY <1>4 DEF LoopStep, PoolStep, EndWork, ResolveApproval, PoolFault, CancelAsker
<1>5. CASE CrashAsking \/ TurnPool
  BY <1>5 DEF CrashAsking, TurnPool
<1>6. CASE TimePasses
  BY <1>6, IdleTime
<1> QED  BY <1>1, <1>2, <1>3, <1>4, <1>5, <1>6 DEF ApprovalNext

LEMMA PoolInvInit == Init => PoolInv
BY InitIInv DEF PoolInv, NoTerm, Init

(* The loops that wait for approvals are a pool as WorkerPool describes    *)
(* it: asking, answering and waiting add nothing to what it may do.        *)
THEOREM ApprovalsUseThePool == ApprovalSpec => Spec
<1>1. ApprovalInit => Init /\ PoolInv
  BY PoolInvInit DEF ApprovalInit
<1>2. PoolInv /\ [ApprovalNext]_approvalVars => PoolInv'
  BY PoolRefines, PoolInvStep
<1> QED  BY <1>1, <1>2, PoolRefines, PTL DEF ApprovalSpec, Spec

(* So the guarantees of the pool hold while its loops wait for approvals:  *)
(* its chats stay serial, its leases exclusive, its locks owned, and it    *)
(* keeps the promise of the job service.                                   *)
THEOREM ThePoolIsKept ==
    ApprovalSpec => [](ChatSerial /\ LeaseExclusive /\ NoOrphanedLock) /\ ImplementsJobService
BY ApprovalsUseThePool, ChatsAreSerial, LeasesAreExclusive, LocksAreOwned,
   PoolImplementsService, PTL

-----------------------------------------------------------------------------
(* What a step of the pool may do to a row.                                *)
LEMMA RowsStay ==
    ASSUME PoolInv, [Next]_vars, NEW j \in JobId
    PROVE  /\ status'[j] = "absent" => status[j] = "absent"
           /\ status[j] # "absent" => payload'[j] = payload[j]
           /\ status[j] = "absent" => status'[j] = "absent" \/ payload'[j].kind \in Kinds
<1> USE Numbers DEF PoolInv, IInv, TypeOK, QueueTypeOK, Settled
<1>1. ASSUME NEW i \in JobId, NEW kind \in Kinds, NEW chat \in Chats, Enqueue(i, kind, chat)
      PROVE  /\ status'[j] = "absent" => status[j] = "absent"
             /\ status[j] # "absent" => payload'[j] = payload[j]
             /\ status[j] = "absent" => status'[j] = "absent" \/ payload'[j].kind \in Kinds
  BY <1>1 DEF Enqueue, EnqueueJob
<1>2. ASSUME \/ UNCHANGED queueVars
             \/ \E i \in JobId : ClaimJob(i)
             \/ LeasesAge
             \/ \E w \in Worker : pc[w] \in {"completing", "failing"}
                                  /\ (CompleteJob(holds[w]) \/ FailJob(holds[w]))
      PROVE  /\ status'[j] = "absent" <=> status[j] = "absent"
             /\ payload' = payload
  <2>1. CASE UNCHANGED queueVars \/ LeasesAge
    BY <2>1 DEF queueVars, LeasesAge
  <2>2. CASE \E i \in JobId : ClaimJob(i)
    BY <2>2 DEF ClaimJob, Claimable
  <2>3. CASE \E w \in Worker : pc[w] \in {"completing", "failing"}
                              /\ (CompleteJob(holds[w]) \/ FailJob(holds[w]))
    BY <2>3 DEF CompleteJob, FailJob, SettleJob, HoldsInPhase, HeldWasClaimed, AtWork
  <2> QED  BY <1>2, <2>1, <2>2, <2>3
<1>3. ASSUME NEW w \in Worker,
             \/ WorkerStep(w) \/ ClaimRaises(w) \/ CompleteRaises(w) \/ FailRaises(w)
             \/ CancelWorker(w) \/ StopRaises(w)
      PROVE  \/ UNCHANGED queueVars
             \/ \E i \in JobId : ClaimJob(i)
             \/ pc[w] \in {"completing", "failing"} /\ (CompleteJob(holds[w]) \/ FailJob(holds[w]))
  BY <1>3 DEF WorkerStep, Claim, Dispatch, Acquire, Return, Raise, FinishJob, Complete, Fail,
              ClaimRaises, CompleteRaises, FailRaises, CancelWorker, OrphanedCall, StopRaises
<1>4. ASSUME StopBegin \/ Stopped \/ Crash \/ Start \/ Tick \/ UNCHANGED vars
      PROVE  UNCHANGED queueVars \/ LeasesAge
  BY <1>4 DEF StopBegin, Stopped, Crash, Start, Tick, vars
<1> QED  BY <1>1, <1>2, <1>3, <1>4 DEF Next

(* A loop that keeps its job keeps what the job is.                        *)
LEMMA StillProcessing ==
    ASSUME PoolInv, [Next]_vars, NEW w \in Worker, NEW kind, Processing(w, kind),
           pc'[w] = pc[w], holds'[w] = holds[w]
    PROVE  Processing(w, kind)'
<1>1. holds[w] \in JobId /\ status[holds[w]] # "absent"
  BY Numbers DEF Processing, PoolInv, IInv, TypeOK, HoldsInPhase, HeldWasClaimed, AtWork, Settled
<1>2. payload'[holds[w]] = payload[holds[w]]
  BY <1>1, RowsStay
<1> QED  BY <1>2 DEF Processing

LEMMA AskTypesStep ==
    ASSUME AskInv, [ApprovalNext]_approvalVars, TypeOK'
    PROVE  ApprovalTypeOK'
<1> USE Numbers DEF AskInv, ApprovalTypeOK
<1>1. ASSUME NEW j \in JobId, NEW kind \in {"message", "confirm"}, NEW chat \in Chats,
           EnqueueWork(j, kind, chat)
      PROVE  ApprovalTypeOK'
  BY <1>1 DEF EnqueueWork, askVars
<1>2. ASSUME NEW a \in Request, NEW j \in JobId, NEW approved \in BOOLEAN,
             AnswerRequest(a, approved, j)
      PROVE  ApprovalTypeOK'
  BY <1>2 DEF AnswerRequest, Answers
<1>3. ASSUME NEW a \in Request, NEW w \in Worker, AskApproval(w, a)
      PROVE  ApprovalTypeOK'
  BY <1>3 DEF AskApproval
<1>4. ASSUME NEW a \in Request, RequestStep(a)
      PROVE  ApprovalTypeOK'
  BY <1>4 DEF RequestStep, Proceed, TimeOut, LeaveTable
<1>5. ASSUME NEW w \in Worker, PoolStep(w) \/ EndWork(w) \/ PoolFault(w)
      PROVE  ApprovalTypeOK'
  BY <1>5 DEF PoolStep, EndWork, PoolFault, askVars
<1>6. ASSUME NEW w \in Worker, ResolveApproval(w)
      PROVE  ApprovalTypeOK'
  BY <1>6 DEF ResolveApproval
<1>7. ASSUME NEW W, Forget(W)
      PROVE  ApprovalTypeOK'
  BY <1>7 DEF Forget
<1>8. CASE TurnPool \/ UNCHANGED approvalVars
  BY <1>8 DEF TurnPool, askVars, approvalVars
<1>9. CASE TimePasses
  <2>1. \A a \in Request : asker[a] # Nobody => timer[a] - 1 \in 0..ApprovalTicks
    BY <1>9 DEF TimePasses
  <2>2. timer' \in [Request -> 0..ApprovalTicks]
    BY <1>9, <2>1 DEF TimePasses
  <2>3. UNCHANGED <<asker, future, verdict, answer>>
    BY <1>9 DEF TimePasses
  <2> QED  BY <2>2, <2>3
<1> HIDE DEF AskInv, ApprovalTypeOK
<1> QED  BY <1>1, <1>2, <1>3, <1>4, <1>5, <1>6, <1>7, <1>8, <1>9
         DEF ApprovalNext, LoopStep, CancelAsker, CrashAsking

LEMMA AddressedStep ==
    ASSUME AskInv, [ApprovalNext]_approvalVars, [Next]_vars
    PROVE  Addressed'
<1> USE Numbers DEF AskInv, ApprovalTypeOK, TypeOK, QueueTypeOK
<1>1. ASSUME NEW j \in JobId, NEW kind \in {"message", "confirm"}, NEW chat \in Chats,
           EnqueueWork(j, kind, chat)
      PROVE  Addressed'
  BY <1>1 DEF EnqueueWork, Enqueue, EnqueueJob, askVars, Addressed
<1>2. ASSUME NEW a \in Request, NEW j \in JobId, NEW approved \in BOOLEAN,
             AnswerRequest(a, approved, j)
      PROVE  Addressed'
  BY <1>2 DEF AnswerRequest, Enqueue, EnqueueJob, Addressed, Answers
<1>3. ASSUME answer' = answer, payload' = payload
      PROVE  Addressed'
  BY <1>3, RowsStay DEF Addressed
<1>4. ASSUME NEW a \in Request, RequestStep(a) \/ \E w \in Worker : AskApproval(w, a)
      PROVE  answer' = answer /\ payload' = payload
  BY <1>4 DEF AskApproval, RequestStep, Proceed, TimeOut, LeaveTable, vars, queueVars
<1>5. ASSUME NEW w \in Worker, LoopStep(w) \/ PoolFault(w) \/ CancelAsker(w)
      PROVE  answer' = answer /\ payload' = payload
  BY <1>5 DEF LoopStep, PoolStep, EndWork, ResolveApproval, PoolFault, CancelAsker, Forget,
     askVars, Claim, ClaimJob, Dispatch, Acquire, Return, Raise, FinishJob, Complete, Fail,
     CompleteJob, FailJob, SettleJob, ClaimRaises, CompleteRaises, FailRaises, CancelWorker,
     OrphanedCall, queueVars
<1>6. ASSUME CrashAsking \/ TurnPool \/ TimePasses \/ UNCHANGED approvalVars
      PROVE  answer' = answer /\ payload' = payload
  BY <1>6 DEF CrashAsking, Crash, Forget, TurnPool, StopBegin, Stopped, Start, StopRaises,
     TimePasses, LeasesAge, askVars, approvalVars, vars, queueVars
<1> QED  BY <1>1, <1>2, <1>3, <1>4, <1>5, <1>6 DEF ApprovalNext

LEMMA AskingStep ==
    ASSUME AskInv, [ApprovalNext]_approvalVars, [Next]_vars, ApprovalTypeOK'
    PROVE  Asking'
<1> USE Numbers DEF AskInv, ApprovalTypeOK
<1> DEFINE Stays(a) == asker'[a] = asker[a] /\ Processing(asker[a], "message")'
(* Whoever goes on waiting waited before, and is in its message still.     *)
<1>1. ASSUME \A a \in Request : asker'[a] # Nobody => Stays(a)
      PROVE  Asking'
  BY <1>1 DEF Asking
<1>2. ASSUME NEW a \in Request, asker[a] # Nobody, asker'[a] = asker[a],
             pc'[asker[a]] = pc[asker[a]], holds'[asker[a]] = holds[asker[a]]
      PROVE  Processing(asker[a], "message")'
  <2>1. asker[a] \in Worker /\ Processing(asker[a], "message")
    BY <1>2 DEF Asking
  <2>2. ASSUME NEW w \in Worker, w = asker[a] PROVE Processing(w, "message")'
    <3>1. Processing(w, "message") /\ pc'[w] = pc[w] /\ holds'[w] = holds[w]
      BY <2>1, <2>2, <1>2
    <3> QED  BY <3>1, StillProcessing
  <2>3. PICK w \in Worker : w = asker[a]
    BY <2>1
  <2>4. Processing(w, "message")'
    BY <2>2, <2>3
  <2> QED  BY <1>2, <2>3, <2>4 DEF Processing
<1>3. ASSUME asker' = asker,
             \A w \in Worker : Waiting(w) => pc'[w] = pc[w] /\ holds'[w] = holds[w]
      PROVE  Asking'
  <2>1. ASSUME NEW a \in Request, asker'[a] # Nobody PROVE Stays(a)
    <3>1. asker[a] \in Worker /\ Waiting(asker[a])
      BY <1>3, <2>1 DEF Waiting
    <3> QED  BY <1>2, <1>3, <2>1, <3>1
  <2> QED  BY <1>1, <2>1
<1>4. ASSUME NEW a \in Request, NEW w \in Worker, AskApproval(w, a)
      PROVE  Asking'
  <2>1. /\ asker' = [asker EXCEPT ![a] = w] /\ Processing(w, "message") /\ ~Waiting(w)
        /\ UNCHANGED <<pc, holds, payload>>
    BY <1>4 DEF AskApproval, vars, poolVars, queueVars
  <2> QED  BY <2>1 DEF Asking, Waiting, Processing
<1>5. ASSUME NEW w \in Worker, NEW W \in SUBSET Worker, Forget(W),
             \A v \in Worker \ W : pc'[v] = pc[v] /\ holds'[v] = holds[v]
      PROVE  Asking'
  <2>1. ASSUME NEW a \in Request, asker'[a] # Nobody PROVE Stays(a)
    <3>1. asker[a] \in Worker \ W /\ asker'[a] = asker[a]
      BY <1>5, <2>1 DEF Forget
    <3> QED  BY <1>2, <1>5, <3>1
  <2> QED  BY <1>1, <2>1
<1>6. ASSUME NEW w \in Worker, LoopStep(w) \/ PoolFault(w)
      PROVE  Asking'
  <2>1. asker' = asker
    BY <1>6 DEF LoopStep, PoolStep, EndWork, ResolveApproval, PoolFault, askVars
  <2>2. \A v \in Worker : v # w => pc'[v] = pc[v] /\ holds'[v] = holds[v]
    BY <1>6 DEF LoopStep, PoolStep, EndWork, ResolveApproval, PoolFault, Become, LoopAgain,
       Claim, Dispatch, Acquire, Return, Raise, FinishJob, Complete, Fail, ClaimRaises,
       CompleteRaises, FailRaises, PoolInv, IInv, TypeOK
  <2>3. ~Waiting(w)
    <3>1. SUFFICES ASSUME Processing(w, "message") PROVE ~Waiting(w)
      BY DEF Asking, Waiting
    <3>2. EndWork(w)
      BY <1>6, <3>1 DEF LoopStep, PoolStep, ResolveApproval, PoolFault, Processing,
         Claim, Dispatch, Acquire, Complete, Fail, ClaimRaises, CompleteRaises, FailRaises
    <3> QED  BY <3>2 DEF EndWork
  <2> QED  BY <1>3, <2>1, <2>2, <2>3
<1>7. ASSUME NEW w \in Worker, CancelAsker(w)
      PROVE  Asking'
  <2>1. \A v \in Worker \ {w} : pc'[v] = pc[v] /\ holds'[v] = holds[v]
    BY <1>7 DEF CancelAsker, CancelWorker, Become, PoolInv, IInv, TypeOK
  <2> QED  BY <1>5, <1>7, <2>1 DEF CancelAsker
<1>8. CASE CrashAsking
  <2>1. \A a \in Request : asker'[a] = Nobody
    BY <1>8 DEF CrashAsking, Forget
  <2> QED  BY <1>1, <2>1
<1>9. CASE TurnPool
  <2>1. asker' = asker /\ holds' = holds
    BY <1>9 DEF TurnPool, askVars, StopBegin, Stopped, Start, StopRaises
  <2>2. CASE Start
    <3>1. \A w \in Worker : ~Waiting(w)
      BY <2>2 DEF Start, Waiting, Asking, Processing, PoolInv, IInv, HoldsInPhase, Gone
    <3> QED  BY <1>3, <2>1, <3>1
  <2>3. CASE ~Start
    <3>1. pc' = pc
      BY <1>9, <2>3 DEF TurnPool, StopBegin, Stopped, StopRaises
    <3> QED  BY <1>3, <2>1, <3>1
  <2> QED  BY <2>2, <2>3
<1>10. ASSUME \/ \E j \in JobId, kind \in {"message", "confirm"}, chat \in Chats :
                      EnqueueWork(j, kind, chat)
              \/ \E a \in Request, j \in JobId, approved \in BOOLEAN : AnswerRequest(a, approved, j)
              \/ TimePasses \/ UNCHANGED approvalVars
       PROVE  Asking'
  <2>1. UNCHANGED <<asker, pc, holds>>
    BY <1>10 DEF EnqueueWork, AnswerRequest, Enqueue, TimePasses, approvalVars, askVars,
       vars, poolVars
  <2> QED  BY <1>3, <2>1
<1>11. ASSUME NEW a \in Request, RequestStep(a)
       PROVE  Asking'
  <2>1. asker' = [asker EXCEPT ![a] = Nobody] /\ UNCHANGED <<pc, holds>>
    BY <1>11 DEF RequestStep, Proceed, TimeOut, LeaveTable, vars, poolVars
  <2>2. ASSUME NEW b \in Request, asker'[b] # Nobody PROVE Stays(b)
    BY <1>2, <2>1, <2>2
  <2> QED  BY <1>1, <2>2
<1> QED  BY <1>4, <1>6, <1>7, <1>8, <1>9, <1>10, <1>11 DEF ApprovalNext

LEMMA GrantedStep ==
    ASSUME AskInv, [ApprovalNext]_approvalVars
    PROVE  Granted'
<1> USE Numbers DEF AskInv, ApprovalTypeOK, Answered
<1> DEFINE Yes(a) == \E j \in JobId : answer[j].request = a /\ answer[j].approved
(* Answers that are there stay as they are.                                *)
<1>1. ASSUME NEW a \in Request, Yes(a) PROVE Yes(a)'
  <2>1. PICK j \in JobId : answer[j].request = a /\ answer[j].approved
    BY <1>1
  <2>2. answer[j] \in Answers /\ status[j] # "absent"
    <3>1. answer[j] # NoAnswer
      BY <2>1 DEF NoAnswer
    <3> QED  BY <3>1 DEF Addressed
  <2>3. answer' = answer \/ \E i \in JobId : status[i] = "absent"
                              /\ \E new : answer' = [answer EXCEPT ![i] = new]
    BY DEF ApprovalNext, EnqueueWork, AnswerRequest, Enqueue, EnqueueJob, AskApproval,
       RequestStep, Proceed, TimeOut, LeaveTable, LoopStep, PoolStep, EndWork,
       ResolveApproval, PoolFault, CancelAsker, CrashAsking, Forget, TurnPool, TimePasses,
       askVars, approvalVars
  <2>4. answer'[j] = answer[j]
    BY <2>2, <2>3
  <2> QED  BY <2>1, <2>4
<1>2. ASSUME \A a \in Request :
                 /\ future'[a] = "approved" => future[a] = "approved"
                 /\ verdict'[a] = "approved" => verdict[a] = "approved" \/ future[a] = "approved"
      PROVE  Granted'
  BY <1>1, <1>2 DEF Granted
<1>3. ASSUME NEW w \in Worker, ResolveApproval(w)
      PROVE  Granted'
  <2> DEFINE r == answer[holds[w]]
  <2>1. holds[w] \in JobId /\ r \in Answers /\ UNCHANGED <<answer, verdict>>
    <3>1. Processing(w, "agent_approve") /\ UNCHANGED <<answer, verdict>>
      BY <1>3 DEF ResolveApproval
    <3>2. holds[w] \in JobId
      BY <3>1 DEF Processing, PoolInv, IInv, TypeOK, HoldsInPhase, AtWork
    <3>3. payload[holds[w]].kind = "agent_approve"
      BY <3>1 DEF Processing
    <3>4. r \in Answers
      BY <3>2, <3>3 DEF Addressed
    <3> QED  BY <3>1, <3>2, <3>4
  <2>2. \A a \in Request : future'[a] = "approved" => future[a] = "approved" \/ (a = r.request /\ r.approved)
    BY <1>3, <2>1 DEF ResolveApproval, Answers
  <2>3. \A a \in Request : a = r.request /\ r.approved => Yes(a)'
    BY <2>1
  <2> QED  BY <1>1, <2>1, <2>2, <2>3 DEF Granted
<1>4. ASSUME NEW a \in Request, RequestStep(a) \/ \E w \in Worker : AskApproval(w, a)
      PROVE  Granted'
  <2>1. \A b \in Request :
            /\ future'[b] = "approved" => future[b] = "approved"
            /\ verdict'[b] = "approved" => verdict[b] = "approved" \/ future[b] = "approved"
    BY <1>4 DEF RequestStep, Proceed, TimeOut, LeaveTable, AskApproval
  <2> QED  BY <1>2, <2>1
<1>5. ASSUME NEW W, Forget(W)
      PROVE  Granted'
  <2>1. \A b \in Request : future'[b] = future[b] /\ (verdict'[b] = "approved" => verdict[b] = "approved")
    BY <1>5 DEF Forget
  <2> QED  BY <1>2, <2>1
<1>6. ASSUME \/ \E j \in JobId, kind \in {"message", "confirm"}, chat \in Chats :
                      EnqueueWork(j, kind, chat)
             \/ \E a \in Request, j \in JobId, approved \in BOOLEAN : AnswerRequest(a, approved, j)
             \/ \E w \in Worker : PoolStep(w) \/ EndWork(w) \/ PoolFault(w)
             \/ TurnPool \/ TimePasses \/ UNCHANGED approvalVars
      PROVE  Granted'
  <2>1. UNCHANGED <<future, verdict>>
    BY <1>6 DEF EnqueueWork, AnswerRequest, PoolStep, EndWork, PoolFault, TurnPool,
       TimePasses, askVars, approvalVars
  <2> QED  BY <1>2, <2>1
<1> QED  BY <1>3, <1>4, <1>5, <1>6 DEF ApprovalNext, LoopStep, CancelAsker, CrashAsking

LEMMA AskInit == ApprovalInit => AskInv
<1> SUFFICES ASSUME ApprovalInit PROVE AskInv
  OBVIOUS
<1> USE Numbers DEF ApprovalInit
<1>1. PoolInv /\ TypeOK
  BY PoolInvInit DEF PoolInv, IInv
<1>2. ApprovalTypeOK
  BY <1>1 DEF ApprovalTypeOK
<1>3. Addressed
  BY DEF Addressed, Init, QueueInit, NoPayload
<1>4. Asking /\ Granted
  BY DEF Asking, Granted
<1> QED  BY <1>1, <1>2, <1>3, <1>4 DEF AskInv

LEMMA AskStep == AskInv /\ [ApprovalNext]_approvalVars => AskInv'
<1> SUFFICES ASSUME AskInv, [ApprovalNext]_approvalVars PROVE AskInv'
  OBVIOUS
<1>1. [Next]_vars
  BY PoolRefines DEF AskInv
<1>2. PoolInv' /\ TypeOK'
  BY <1>1, PoolInvStep DEF AskInv, PoolInv, IInv
<1>3. ApprovalTypeOK'
  BY <1>2, AskTypesStep
<1> QED  BY <1>1, <1>2, <1>3, AddressedStep, AskingStep, GrantedStep DEF AskInv

(* The inductive invariant of the pool with its approvals.                 *)
THEOREM ApprovalsHold == ApprovalSpec => []AskInv
BY AskInit, AskStep, PTL DEF ApprovalSpec

(* An action goes on as approved only on a yes to its own request, however *)
(* late, lost or repeated the answers are and whoever processes them.      *)
THEOREM YesIsForTheRequest == ApprovalSpec => []ApprovedOnlyOnYes
<1>1. AskInv => ApprovedOnlyOnYes
  BY DEF AskInv, Granted, ApprovedOnlyOnYes
<1> QED  BY ApprovalsHold, <1>1, PTL

(* The requests of a chat do not overlap: whoever answers in a chat has at *)
(* most one open request to answer (_process_message under _chat_locks).   *)
OneOpenRequestPerChat ==
    \A a, b \in Request :
        asker[a] # Nobody /\ asker[b] # Nobody /\ ChatOf(asker[a]) = ChatOf(asker[b])
        => a = b

THEOREM RequestsOfAChatAreSerial == ApprovalSpec => []OneOpenRequestPerChat
<1>1. AskInv => OneOpenRequestPerChat
  <2> SUFFICES ASSUME AskInv, NEW a \in Request, NEW b \in Request,
                      asker[a] # Nobody, asker[b] # Nobody,
                      ChatOf(asker[a]) = ChatOf(asker[b])
               PROVE  a = b
    BY DEF OneOpenRequestPerChat
  <2>1. asker[a] \in Worker /\ asker[b] \in Worker
    BY DEF AskInv, ApprovalTypeOK
  <2>2. Processing(asker[a], "message") /\ Processing(asker[b], "message")
    BY DEF AskInv, Asking
  <2>3. ChatSerial
    BY DEF AskInv, PoolInv, IInv, ChatSerial, LockQueued, InLock
  <2>4. asker[a] = asker[b]
    BY Numbers, <2>1, <2>2, <2>3 DEF ChatSerial, Processing, UnderLock
  <2> QED  BY <2>4 DEF AskInv, Asking
<1> QED  BY ApprovalsHold, <1>1, PTL

(* A timeout passes over an answer that is there only if every loop is     *)
(* taken up by other work or gone, or the loop that took it is gone.        *)
LEMMA TimeOutMisses ==
    ASSUME AskInv, NEW a \in Request, TimeOut(a), NEW j \in Answered(a),
           status[j] \notin Settled, ~Stranded(j), NEW w \in Worker, pc[w] \notin Gone
    PROVE  holds[w] # NoJob /\ payload[holds[w]].kind # "agent_approve"
<1> USE Numbers DEF AskInv, ApprovalTypeOK, PoolInv, IInv, TypeOK, QueueTypeOK
<1>1. j \in JobId /\ answer[j].request = a
  BY DEF Answered
<1>2. answer[j] \in Answers /\ status[j] # "absent" /\ payload[j].kind = "agent_approve"
  <2>1. answer[j] # NoAnswer
    BY <1>1 DEF NoAnswer
  <2> QED  BY <1>1, <2>1 DEF Addressed
<1>3. \A v \in Worker : ~Busy(v)
  BY DEF TimeOut
(* Whoever holds the answer's row is about to move on.                     *)
<1>4. ASSUME NEW v \in Worker, holds[v] = j PROVE FALSE
  <2>1. pc[v] \in AtWork
    BY <1>1, <1>4 DEF HoldsInPhase
  <2>2. pc[v] # "lockwait"
    BY <1>2, <1>4 DEF LockQueued, UnderLock
  <2>3. ~Processing(v, "agent_approve") /\ pc[v] \notin {"claimed", "completing", "failing"}
    BY <1>3 DEF Busy
  <2> QED  BY <1>2, <1>4, <2>1, <2>2, <2>3 DEF AtWork, Processing
<1>5. Claimable(j)
  BY <1>1, <1>2, <1>4 DEF Stranded, Claimable, Settled
<1>6. pc[w] \in {"lockwait", "running"}
  BY <1>1, <1>3, <1>5 DEF Busy, Phases
<1>7. holds[w] \in JobId
  BY <1>6 DEF HoldsInPhase, AtWork
<1>8. CASE pc[w] = "lockwait"
  BY <1>7, <1>8 DEF LockQueued, UnderLock
<1>9. CASE pc[w] = "running"
  <2>1. payload[holds[w]].kind # "agent_approve"
    BY <1>3, <1>9 DEF Busy, Processing
  <2> QED  BY <1>7, <2>1
<1> QED  BY <1>6, <1>7, <1>8, <1>9

THEOREM AnswersAreMissedForCause == ApprovalSpec => MissedOnlyWhenNoLoopIsFree
<1> DEFINE Cause ==
        \A a \in Request : \A j \in Answered(a) :
            verdict[a] = "none" /\ verdict'[a] = "timeout"
            => \/ status[j] \in Settled \/ Stranded(j)
               \/ \A w \in Worker :
                     \/ pc[w] \in Gone
                     \/ holds[w] # NoJob /\ payload[holds[w]].kind # "agent_approve"
<1>1. AskInv /\ [ApprovalNext]_approvalVars => [Cause]_approvalVars
  <2> SUFFICES ASSUME AskInv, ApprovalNext, NEW a \in Request,
                      verdict[a] = "none", verdict'[a] = "timeout"
               PROVE  TimeOut(a)
    BY TimeOutMisses
  <2> USE DEF AskInv, ApprovalTypeOK
  <2>1. ASSUME NEW b \in Request, RequestStep(b) PROVE TimeOut(a)
    <3>1. a = b
      BY <2>1 DEF RequestStep, Proceed, TimeOut, LeaveTable
    <3> QED  BY <2>1, <3>1 DEF RequestStep, Proceed, LeaveTable
  <2>2. ASSUME NEW W, Forget(W) PROVE FALSE
    BY <2>2 DEF Forget
  <2> QED  BY <2>1, <2>2 DEF ApprovalNext, EnqueueWork, AskApproval, AnswerRequest, LoopStep,
           PoolStep, EndWork, ResolveApproval, PoolFault, CancelAsker, CrashAsking, TurnPool,
           TimePasses, askVars
<1> QED  BY ApprovalsHold, <1>1, PTL DEF ApprovalSpec, MissedOnlyWhenNoLoopIsFree
=============================================================================
