------------------------- MODULE WorkerPool_proofs --------------------------
(***************************************************************************)
(* Proofs about WorkerPool for every number of jobs, workers, chats, lease *)
(* length, restarts and database errors.  IInv is the inductive invariant; *)
(* the properties the runs check on small instances follow from it.        *)
(***************************************************************************)
EXTENDS WorkerPool, TLAPS

AtWork == {"claimed", "lockwait", "running", "completing", "failing"}

(* A loop has a job exactly in the phases that work on one, and none is    *)
(* left when the gateway is down.                                          *)
HoldsInPhase ==
    /\ \A w \in Worker : (holds[w] # NoJob) <=> pc[w] \in AtWork
    /\ gateway = "down" => \A w \in Worker : pc[w] \in Gone

(* A held row was claimed, and its lease is at least as long as what is    *)
(* left of the lease of any claim that is still being worked on.           *)
HeldWasClaimed ==
    \A w \in Worker : holds[w] # NoJob =>
        /\ status[holds[w]] \in {"leased"} \cup Settled
        /\ term[w] <= lease[holds[w]]

(* The attempts column counts every holder and, once the row is settled,   *)
(* the loop that settled it.                                               *)
HoldersCounted ==
    /\ \A w \in Worker : holds[w] # NoJob =>
           /\ attempts[holds[w]] >= 1
           /\ status[holds[w]] \in Settled => attempts[holds[w]] >= 2
    /\ \A v, w \in Worker :
           v # w /\ holds[v] # NoJob /\ holds[v] = holds[w]
           => attempts[holds[w]] >= 2

(* Two loops inside the lock of one chat are queued one behind the other,  *)
(* only a waiter has anybody ahead of it, and a waiter's job is of a kind  *)
(* that takes the lock.                                                    *)
LockQueued ==
    /\ \A v, w \in Worker :
           v # w /\ InLock(v) /\ InLock(w) /\ ChatOf(v) = ChatOf(w)
           => v \in ahead[w] \/ w \in ahead[v]
    /\ \A w \in Worker : IF pc[w] = "lockwait" THEN UnderLock(w)
                                               ELSE ahead[w] = {}

IInv ==
    /\ TypeOK
    /\ HoldsInPhase
    /\ HeldWasClaimed
    /\ LeaseExclusive
    /\ HoldersCounted
    /\ NoOrphanedLock
    /\ LockQueued

-----------------------------------------------------------------------------
(* The first state of the pool and of an empty table is well typed.        *)
LEMMA TypeInit == Init => TypeOK
  BY JobQueueAssumption, WorkerPoolAssumption
  DEF Init, TypeOK, QueueInit, QueueTypeOK, NoPayload, Payloads, Settled,
      Phases, Gone, NoJob

(* What the queue operations do to the types of the table.                 *)
LEMMA QueueTypes ==
  ASSUME QueueTypeOK
  PROVE  /\ \A j \in JobId, kind \in Kinds, chat \in Chats :
                EnqueueJob(j, kind, chat) => QueueTypeOK'
         /\ \A j \in JobId : ClaimJob(j) => QueueTypeOK'
         /\ \A j \in JobId : CompleteJob(j) \/ FailJob(j) => QueueTypeOK'
         /\ LeasesAge => QueueTypeOK'
         /\ UNCHANGED queueVars => QueueTypeOK'
<1> USE JobQueueAssumption DEF QueueTypeOK
<1>1. ASSUME NEW j \in JobId, NEW kind \in Kinds, NEW chat \in Chats,
             EnqueueJob(j, kind, chat)
      PROVE  QueueTypeOK'
  BY <1>1 DEF EnqueueJob, Payloads
<1>2. ASSUME NEW j \in JobId, ClaimJob(j)
      PROVE  QueueTypeOK'
  BY <1>2 DEF ClaimJob
<1>3. ASSUME NEW j \in JobId, CompleteJob(j) \/ FailJob(j)
      PROVE  QueueTypeOK'
  BY <1>3 DEF CompleteJob, FailJob, SettleJob, Settled
<1>4. ASSUME LeasesAge
      PROVE  QueueTypeOK'
  BY <1>4 DEF LeasesAge
<1>5. ASSUME UNCHANGED queueVars
      PROVE  QueueTypeOK'
  BY <1>5 DEF queueVars
<1>6. QED
  BY <1>1, <1>2, <1>3, <1>4, <1>5

(* Every step of the pool keeps the types, one action at a time.           *)
LEMMA TypeStep == IInv /\ [Next]_vars => TypeOK'
<1> SUFFICES ASSUME IInv, [Next]_vars
             PROVE  TypeOK'
  OBVIOUS
<1> USE WorkerPoolAssumption, JobQueueAssumption, QueueTypes
    DEF IInv, TypeOK, Become, Phases, Gone
<1> QueueTypeOK
  OBVIOUS
<1>1. ASSUME NEW j \in JobId, NEW kind \in Kinds, NEW chat \in Chats,
             Enqueue(j, kind, chat)
      PROVE  TypeOK'
  BY <1>1 DEF Enqueue, poolVars
<1>2. ASSUME NEW w \in Worker, NEW j \in JobId, Claim(w, j)
      PROVE  TypeOK'
  BY <1>2 DEF Claim
<1>3. ASSUME NEW w \in Worker, ClaimRaises(w)
      PROVE  TypeOK'
  BY <1>3 DEF ClaimRaises, DbFault
<1>4. ASSUME NEW w \in Worker, Dispatch(w)
      PROVE  TypeOK'
  BY <1>4 DEF Dispatch, LockQueue
<1>5. ASSUME NEW w \in Worker, Acquire(w)
      PROVE  TypeOK'
  BY <1>5 DEF Acquire
<1>6. ASSUME NEW w \in Worker, Return(w) \/ Raise(w)
      PROVE  TypeOK'
  BY <1>6 DEF Return, Raise, FinishJob, LeaveLock
<1>7. ASSUME NEW w \in Worker, Complete(w) \/ Fail(w)
      PROVE  TypeOK'
  <2>1. holds[w] \in JobId
    BY <1>7 DEF Complete, Fail, HoldsInPhase, AtWork, NoJob
  <2>2. QED
    BY <1>7, <2>1 DEF Complete, Fail, LoopAgain
<1>8. ASSUME NEW w \in Worker,
             CompleteRaises(w) \/ FailRaises(w) \/ StopRaises(w)
      PROVE  TypeOK'
  BY <1>8 DEF CompleteRaises, FailRaises, StopRaises, DbFault
<1>9. ASSUME NEW w \in Worker, CancelWorker(w)
      PROVE  TypeOK'
  <2>1. pc[w] \in {"completing", "failing"} => holds[w] \in JobId
    BY DEF HoldsInPhase, AtWork, NoJob
  <2>2. QueueTypeOK'
    BY <1>9, <2>1 DEF CancelWorker, OrphanedCall
  <2>3. QED
    BY <1>9, <2>2 DEF CancelWorker, LeaveLock
<1>10. ASSUME StopBegin \/ Stopped \/ Crash \/ Start
       PROVE  TypeOK'
  BY <1>10 DEF StopBegin, Stopped, Crash, Start
<1>11. ASSUME Tick
       PROVE  TypeOK'
  BY <1>11 DEF Tick
<1>12. ASSUME UNCHANGED vars
       PROVE  TypeOK'
  BY <1>12 DEF vars, poolVars
<1>13. QED
  BY <1>1, <1>2, <1>3, <1>4, <1>5, <1>6, <1>7, <1>8, <1>9, <1>10, <1>11, <1>12
  DEF Next, WorkerStep

-----------------------------------------------------------------------------
(* Loops take and give back jobs only where their phase says so.           *)
LEMMA PhaseStep == IInv /\ [Next]_vars => HoldsInPhase'
<1> SUFFICES ASSUME IInv, [Next]_vars
             PROVE  HoldsInPhase'
  OBVIOUS
<1> USE DEF IInv, TypeOK, HoldsInPhase, Become, AtWork, Phases, Gone
<1>1. ASSUME NEW j \in JobId, NEW kind \in Kinds, NEW chat \in Chats,
             Enqueue(j, kind, chat)
      PROVE  HoldsInPhase'
  BY <1>1 DEF Enqueue, poolVars
<1>2. ASSUME NEW w \in Worker, NEW j \in JobId, Claim(w, j)
      PROVE  HoldsInPhase'
  BY <1>2, JobQueueAssumption DEF Claim, JobId, NoJob
<1>3. ASSUME NEW w \in Worker,
             \/ ClaimRaises(w) \/ Dispatch(w) \/ Acquire(w)
             \/ Return(w) \/ Raise(w) \/ CompleteRaises(w) \/ StopRaises(w)
      PROVE  HoldsInPhase'
  BY <1>3 DEF ClaimRaises, Dispatch, Acquire, Return, Raise, FinishJob,
              CompleteRaises, StopRaises, Reached
<1>4. ASSUME NEW w \in Worker, Complete(w) \/ Fail(w) \/ FailRaises(w)
      PROVE  HoldsInPhase'
  BY <1>4 DEF Complete, Fail, FailRaises, LoopAgain
<1>5. ASSUME NEW w \in Worker, CancelWorker(w)
      PROVE  HoldsInPhase'
  BY <1>5 DEF CancelWorker
<1>6. ASSUME StopBegin \/ Stopped \/ Crash \/ Start \/ Tick \/ UNCHANGED vars
      PROVE  HoldsInPhase'
  BY <1>6 DEF StopBegin, Stopped, Crash, Start, Tick, vars, poolVars
<1>7. QED
  BY <1>1, <1>2, <1>3, <1>4, <1>5, <1>6 DEF Next, WorkerStep

-----------------------------------------------------------------------------
Claims == HeldWasClaimed /\ LeaseExclusive /\ HoldersCounted

(* A row can only be claimed away from loops whose lease has run out.      *)
LEMMA ClaimFindsExpired ==
  ASSUME IInv, NEW j \in JobId, ClaimJob(j), NEW v \in Worker, holds[v] = j
  PROVE  term[v] = 0 /\ attempts[j] >= 1
<1>1. holds[v] # NoJob
  BY JobQueueAssumption DEF JobId, NoJob
<1>2. lease[j] = 0
  BY <1>1 DEF ClaimJob, Claimable, IInv, HeldWasClaimed, Settled
<1>3. term[v] \in Nat
  BY JobQueueAssumption DEF IInv, TypeOK
<1>4. QED
  BY <1>1, <1>2, <1>3 DEF IInv, HeldWasClaimed, HoldersCounted

(* Claims: what the loops hold, under which lease, and what the attempts   *)
(* column knows of it.  A claim disturbs it, and so does a settled row.    *)
LEMMA ClaimsStep == IInv /\ [Next]_vars => Claims'
<1> SUFFICES ASSUME IInv, [Next]_vars
             PROVE  Claims'
  OBVIOUS
<1> USE DEF Claims, IInv, TypeOK, QueueTypeOK, HeldWasClaimed, LeaseExclusive,
            HoldersCounted, HoldsInPhase, AtWork, Gone, Phases, Settled, NoJob
<1>1. ASSUME NEW j \in JobId, NEW kind \in Kinds, NEW chat \in Chats,
             Enqueue(j, kind, chat)
      PROVE  Claims'
  <2>1. ASSUME NEW w \in Worker, holds[w] = j
        PROVE  FALSE
    <3>1. j # NoJob
      BY JobQueueAssumption DEF JobId
    <3>2. status[j] = "absent"
      BY <1>1 DEF Enqueue, EnqueueJob
    <3>3. QED
      BY <2>1, <3>1, <3>2
  <2>2. QED
    BY <1>1, <2>1 DEF Enqueue, EnqueueJob, poolVars
<1>2. ASSUME NEW w \in Worker, NEW j \in JobId, Claim(w, j)
      PROVE  Claims'
  <2>1. \A v \in Worker : holds[v] = j => term[v] = 0 /\ attempts[j] >= 1
    BY <1>2, ClaimFindsExpired DEF Claim
  <2>2. /\ status' = [status EXCEPT ![j] = "leased"]
        /\ lease' = [lease EXCEPT ![j] = LeaseTicks]
        /\ attempts' = [attempts EXCEPT ![j] = @ + 1]
        /\ holds' = [holds EXCEPT ![w] = j]
        /\ term' = [term EXCEPT ![w] = LeaseTicks]
    BY <1>2 DEF Claim, ClaimJob
  <2>3. HeldWasClaimed'
    BY <2>1, <2>2, JobQueueAssumption
  <2>4. LeaseExclusive'
    BY <2>1, <2>2
  <2>5. HoldersCounted'
    <3>1. attempts[j] \in Nat /\ attempts'[j] = attempts[j] + 1
      BY <2>2
    <3>2. \A i \in JobId : i # j => attempts'[i] = attempts[i]
                                    /\ status'[i] = status[i]
      BY <2>2
    <3>3. status'[j] = "leased"
      BY <2>2
    <3>4. \A v \in Worker : v # w => holds'[v] = holds[v]
      BY <2>2
    <3>5. holds'[w] = j
      BY <2>2
    <3>6. \A v \in Worker : holds[v] # 0 => holds[v] \in JobId
      OBVIOUS
    <3>7. \A v \in Worker : v # w /\ holds[v] = j => attempts'[j] >= 2
      BY <2>1, <3>1
    <3>8. attempts'[j] >= 1
      BY <3>1
    <3>9. QED
      BY <3>1, <3>2, <3>3, <3>4, <3>5, <3>6, <3>7, <3>8
  <2>6. QED
    BY <2>3, <2>4, <2>5
<1>3. ASSUME NEW w \in Worker,
             \/ ClaimRaises(w) \/ Dispatch(w) \/ Acquire(w)
             \/ Return(w) \/ Raise(w) \/ CompleteRaises(w) \/ StopRaises(w)
      PROVE  Claims'
  BY <1>3 DEF ClaimRaises, Dispatch, Acquire, Return, Raise, FinishJob,
              CompleteRaises, StopRaises, queueVars
<1>4. ASSUME NEW w \in Worker, Complete(w) \/ Fail(w)
      PROVE  Claims'
  BY <1>4 DEF Complete, Fail, LoopAgain, CompleteJob, FailJob, SettleJob
<1>5. ASSUME NEW w \in Worker, FailRaises(w)
      PROVE  Claims'
  BY <1>5 DEF FailRaises, queueVars
<1>6. ASSUME NEW w \in Worker, CancelWorker(w)
      PROVE  Claims'
  <2>1. /\ holds' = [holds EXCEPT ![w] = NoJob]
        /\ term' = [term EXCEPT ![w] = 0]
    BY <1>6 DEF CancelWorker
  <2>2. CASE UNCHANGED queueVars
    BY <2>1, <2>2 DEF queueVars
  <2>3. CASE \E j \in JobId : ClaimJob(j)
    <3> PICK j \in JobId : ClaimJob(j)
      BY <2>3
    <3>1. \A v \in Worker : holds[v] = j => term[v] = 0 /\ attempts[j] >= 1
      BY ClaimFindsExpired
    <3>2. /\ status' = [status EXCEPT ![j] = "leased"]
          /\ lease' = [lease EXCEPT ![j] = LeaseTicks]
          /\ attempts' = [attempts EXCEPT ![j] = @ + 1]
      BY DEF ClaimJob
    <3>3. HeldWasClaimed' /\ LeaseExclusive'
      BY <2>1, <3>1, <3>2, JobQueueAssumption
    <3>4. HoldersCounted'
      BY <2>1, <3>1, <3>2
    <3>5. QED
      BY <3>3, <3>4
  <2>4. CASE /\ pc[w] \in {"completing", "failing"}
             /\ CompleteJob(holds[w]) \/ FailJob(holds[w])
    BY <2>1, <2>4 DEF CompleteJob, FailJob, SettleJob
  <2>5. QED
    BY <1>6, <2>2, <2>3, <2>4 DEF CancelWorker, OrphanedCall
<1>7. ASSUME StopBegin \/ Stopped \/ Start \/ UNCHANGED vars
      PROVE  Claims'
  BY <1>7 DEF StopBegin, Stopped, Start, vars, poolVars, queueVars
<1>8. ASSUME Crash
      PROVE  Claims'
  BY <1>8 DEF Crash
<1>9. ASSUME Tick
      PROVE  Claims'
  BY <1>9, JobQueueAssumption DEF Tick, LeasesAge
<1>10. QED
  BY <1>1, <1>2, <1>3, <1>4, <1>5, <1>6, <1>7, <1>8, <1>9 DEF Next, WorkerStep

-----------------------------------------------------------------------------
Locks == NoOrphanedLock /\ LockQueued

(* The queues of the chat locks: joining, moving up, being cancelled.      *)
LEMMA LocksStep == IInv /\ [Next]_vars => Locks'
<1> SUFFICES ASSUME IInv, [Next]_vars
             PROVE  Locks'
  OBVIOUS
<1> USE DEF Locks, IInv, TypeOK, NoOrphanedLock, LockQueued, InLock, ChatOf,
            UnderLock, HoldsInPhase, AtWork, Gone, Phases, NoJob, Become
<1>1. ASSUME NEW j \in JobId, NEW kind \in Kinds, NEW chat \in Chats,
             Enqueue(j, kind, chat)
      PROVE  Locks'
  <2>1. ASSUME NEW w \in Worker, holds[w] # NoJob
        PROVE  payload'[holds[w]] = payload[holds[w]]
    <3>1. status[holds[w]] # "absent"
      BY <2>1 DEF HeldWasClaimed, Settled
    <3>2. status[j] = "absent"
      BY <1>1 DEF Enqueue, EnqueueJob
    <3>3. QED
      BY <1>1, <2>1, <3>1, <3>2 DEF Enqueue, EnqueueJob, QueueTypeOK
  <2>2. UNCHANGED <<pc, holds, ahead>>
    BY <1>1 DEF Enqueue, poolVars
  <2>3. \A w \in Worker : InLock(w) => holds[w] # NoJob
    OBVIOUS
  <2>4. \A w \in Worker : pc[w] \in {"lockwait", "running"} => holds[w] # NoJob
    OBVIOUS
  <2>5. \A w \in Worker : /\ InLock(w)' <=> InLock(w)
                          /\ InLock(w) => ChatOf(w)' = ChatOf(w)
    BY <2>1, <2>2, <2>4
  <2>6. \A w \in Worker : pc[w] = "lockwait" => UnderLock(w)' = UnderLock(w)
    BY <2>1, <2>2, <2>4
  <2>7. NoOrphanedLock'
    BY <2>2, <2>5
  <2>8. LockQueued'
    BY <2>2, <2>5, <2>6
  <2>9. QED
    BY <2>7, <2>8
<1>2. ASSUME NEW w \in Worker, NEW j \in JobId, Claim(w, j)
      PROVE  Locks'
  BY <1>2 DEF Claim, ClaimJob
<1>3. ASSUME NEW w \in Worker, \/ ClaimRaises(w) \/ CompleteRaises(w)
                               \/ FailRaises(w) \/ StopRaises(w)
      PROVE  Locks'
  BY <1>3 DEF ClaimRaises, CompleteRaises, FailRaises, StopRaises, queueVars
<1>4. ASSUME NEW w \in Worker, Dispatch(w)
      PROVE  Locks'
  <2>1. UNCHANGED <<payload, holds>>
    BY <1>4 DEF Dispatch, queueVars
  <2>2. CASE UnderLock(w)
    <3>1. /\ ahead' = [ahead EXCEPT ![w] = LockQueue(ChatOf(w))]
          /\ pc' = [pc EXCEPT ![w] = "lockwait"]
      BY <1>4, <2>2 DEF Dispatch
    <3>2. \A v \in Worker : v # w => (InLock(v)' <=> InLock(v))
      BY <2>1, <3>1
    <3>3. InLock(w)' /\ ~InLock(w) /\ pc[w] = "claimed"
      BY <1>4, <3>1 DEF Dispatch
    <3>4. \A v \in Worker : ChatOf(v)' = ChatOf(v)
      BY <2>1
    <3>5. \A v \in Worker : v # w => ahead'[v] = ahead[v] /\ w \notin ahead[v]
      BY <3>1, <3>3
    <3>6. ahead'[w] = {v \in Worker : InLock(v) /\ ChatOf(v) = ChatOf(w)}
      BY <3>1 DEF LockQueue
    <3>7. NoOrphanedLock'
      BY <3>2, <3>3, <3>4, <3>5, <3>6 DEF NoOrphanedLock
    <3>8. \A v \in Worker : UnderLock(v)' = UnderLock(v)
      BY <2>1
    <3>9. LockQueued'
      <4>1. \A v \in Worker : IF pc'[v] = "lockwait" THEN UnderLock(v)'
                                                     ELSE ahead'[v] = {}
        BY <2>2, <3>1, <3>5, <3>8
      <4>2. ASSUME NEW u \in Worker, NEW v \in Worker, u # v,
                   InLock(u)', InLock(v)', ChatOf(u)' = ChatOf(v)'
            PROVE  u \in ahead'[v] \/ v \in ahead'[u]
        <5>1. CASE u = w
          BY <3>2, <3>4, <3>6, <4>2, <5>1
        <5>2. CASE v = w
          BY <3>2, <3>4, <3>6, <4>2, <5>2
        <5>3. CASE u # w /\ v # w
          BY <3>2, <3>4, <3>5, <4>2, <5>3
        <5>4. QED
          BY <5>1, <5>2, <5>3
      <4>3. QED
        BY <4>1, <4>2
    <3>10. QED
      BY <3>7, <3>9
  <2>3. CASE ~UnderLock(w)
    BY <1>4, <2>1, <2>3 DEF Dispatch
  <2>4. QED
    BY <2>2, <2>3
<1>5. ASSUME NEW w \in Worker, Acquire(w)
      PROVE  Locks'
  BY <1>5 DEF Acquire, queueVars
<1>6. ASSUME NEW w \in Worker, Return(w) \/ Raise(w)
      PROVE  Locks'
  BY <1>6 DEF Return, Raise, FinishJob, LeaveLock, queueVars
<1>7. ASSUME NEW w \in Worker, Complete(w) \/ Fail(w)
      PROVE  Locks'
  BY <1>7 DEF Complete, Fail, LoopAgain, CompleteJob, FailJob, SettleJob
<1>8. ASSUME NEW w \in Worker, CancelWorker(w)
      PROVE  Locks'
  <2>1. payload' = payload
    BY <1>8 DEF CancelWorker, OrphanedCall, ClaimJob, CompleteJob, FailJob,
                SettleJob, queueVars
  <2>2. QED
    BY <1>8, <2>1 DEF CancelWorker, LeaveLock
<1>9. ASSUME StopBegin \/ Stopped \/ Crash \/ Start \/ Tick \/ UNCHANGED vars
      PROVE  Locks'
  BY <1>9 DEF StopBegin, Stopped, Crash, Start, Tick, LeasesAge, vars,
              poolVars, queueVars
<1>10. QED
  BY <1>1, <1>2, <1>3, <1>4, <1>5, <1>6, <1>7, <1>8, <1>9 DEF Next, WorkerStep

-----------------------------------------------------------------------------
(* The first state satisfies the inductive invariant.                      *)
LEMMA InitIInv == Init => IInv
<1> SUFFICES ASSUME Init
             PROVE  IInv
  OBVIOUS
<1>1. TypeOK
  BY TypeInit
<1>2. HoldsInPhase /\ HeldWasClaimed /\ LeaseExclusive /\ HoldersCounted
  BY DEF Init, HoldsInPhase, HeldWasClaimed, LeaseExclusive, HoldersCounted,
         AtWork, NoJob
<1>3. NoOrphanedLock /\ LockQueued
  BY DEF Init, NoOrphanedLock, LockQueued, InLock
<1>4. QED
  BY <1>1, <1>2, <1>3 DEF IInv

(* The inductive invariant holds in every state of the pool.               *)
THEOREM Invariance == Spec => []IInv
<1>1. IInv /\ [Next]_vars => IInv'
  BY TypeStep, PhaseStep, ClaimsStep, LocksStep DEF IInv, Claims, Locks
<1>2. QED
  BY InitIInv, <1>1, PTL DEF Spec

(* The pool's variables keep their types.                                  *)
THEOREM TypeCorrect == Spec => []TypeOK
<1>1. IInv => TypeOK
  BY DEF IInv
<1>2. QED
  BY Invariance, <1>1, PTL

(* Messages of one chat are processed one at a time, for any number of     *)
(* workers, jobs and chats, lease length, stops, crashes and errors: the   *)
(* two loops would be queued one behind the other in the chat's lock, but  *)
(* neither has anybody ahead of it.                                        *)
THEOREM ChatsAreSerial == Spec => []ChatSerial
<1>1. IInv => ChatSerial
  BY DEF IInv, ChatSerial, LockQueued, InLock
<1>2. QED
  BY Invariance, <1>1, PTL

(* No two loops hold one job under leases that both still run.             *)
THEOREM LeasesAreExclusive == Spec => []LeaseExclusive
<1>1. IInv => LeaseExclusive
  BY DEF IInv
<1>2. QED
  BY Invariance, <1>1, PTL

(* A chat lock is only ever waited for behind a loop that is inside it.    *)
THEOREM LocksAreOwned == Spec => []NoOrphanedLock
<1>1. IInv => NoOrphanedLock
  BY DEF IInv
<1>2. QED
  BY Invariance, <1>1, PTL

(* A row whose outcome is overwritten was claimed more than once: whoever  *)
(* overwrites it still held it when it was settled, and HoldersCounted     *)
(* says that such a row has two attempts.                                  *)
THEOREM OutcomesAreKept == Spec => SingleClaimKeepsOutcome
<1> DEFINE Kept == \A j \in JobId :
                       status[j] \in Settled /\ status'[j] # status[j]
                       => attempts[j] > 1
<1>1. IInv /\ [Next]_vars => [Kept]_vars
  <2> SUFFICES ASSUME IInv, Next, NEW j \in JobId,
                      status[j] \in Settled, status'[j] # status[j]
               PROVE  attempts[j] > 1
    BY DEF vars
  <2>1. PICK w \in Worker : holds[w] = j /\ pc[w] \in AtWork
    <3>1. \/ \E w \in Worker : /\ pc[w] \in {"completing", "failing"}
                               /\ CompleteJob(holds[w]) \/ FailJob(holds[w])
          \/ \E i \in JobId : ClaimJob(i)
          \/ \E i \in JobId, kind \in Kinds, chat \in Chats :
                 EnqueueJob(i, kind, chat)
          \/ UNCHANGED status
      BY DEF Next, WorkerStep, Enqueue, Claim, ClaimRaises, Dispatch, Acquire,
             Return, Raise, FinishJob, Complete, CompleteRaises, Fail,
             FailRaises, StopRaises, StopBegin, OrphanedCall, CancelWorker, Stopped,
             Crash, Start, Tick, LeasesAge, queueVars
    <3>2. \A i \in JobId : ~ClaimJob(i)
      BY DEF ClaimJob, Claimable, Settled, IInv, TypeOK, QueueTypeOK
    <3>3. \A i \in JobId, kind \in Kinds, chat \in Chats :
             ~EnqueueJob(i, kind, chat)
      BY DEF EnqueueJob, Settled, IInv, TypeOK, QueueTypeOK
    <3>4. QED
      BY <3>1, <3>2, <3>3
      DEF CompleteJob, FailJob, SettleJob, AtWork, IInv, TypeOK, QueueTypeOK
  <2>2. attempts[j] >= 2
    BY <2>1 DEF IInv, HoldsInPhase, HoldersCounted
  <2>3. attempts[j] \in Nat
    BY DEF IInv, TypeOK, QueueTypeOK
  <2>4. QED
    BY <2>2, <2>3
<1>2. QED
  BY Invariance, <1>1, PTL DEF Spec, SingleClaimKeepsOutcome

-----------------------------------------------------------------------------
(* The pool implements the durable queue of JobService: every step of the  *)
(* pool is a step of the service, or leaves its variables alone.           *)
THEOREM PoolImplementsService == Spec => ImplementsJobService
<1>1. Init => Service!ServiceInit
  BY DEF Init, QueueInit, Service!ServiceInit, jobView
<1>2. IInv /\ [Next]_vars => [Service!ServiceNext]_Service!svars
  <2> SUFFICES ASSUME IInv, [Next]_vars
               PROVE  Service!ServiceNext \/ UNCHANGED Service!svars
    OBVIOUS
  <2> USE DEF IInv, TypeOK, QueueTypeOK, Service!svars, jobView
  <2>1. ASSUME NEW j \in JobId, NEW kind \in Kinds, NEW chat \in Chats,
               Enqueue(j, kind, chat)
        PROVE  Service!ServiceNext
    <3>1. Service!Submit(j)
      BY <2>1 DEF Enqueue, EnqueueJob, poolVars, Service!Submit
    <3>2. QED
      BY <3>1 DEF Service!ServiceNext
  <2>2. ASSUME NEW w \in Worker, NEW j \in JobId, Claim(w, j)
        PROVE  Service!ServiceNext
    <3>1. Service!Take(w, j)
      BY <2>2 DEF Claim, ClaimJob, Claimable, Service!Take, HoldsInPhase, AtWork
    <3>2. QED
      BY <3>1 DEF Service!ServiceNext
  <2>3. ASSUME NEW w \in Worker,
               \/ ClaimRaises(w) \/ Dispatch(w) \/ Acquire(w)
               \/ Return(w) \/ Raise(w) \/ CompleteRaises(w) \/ StopRaises(w)
        PROVE  UNCHANGED Service!svars
    BY <2>3 DEF ClaimRaises, Dispatch, Acquire, Return, Raise, FinishJob,
                CompleteRaises, StopRaises, queueVars
  <2>4. ASSUME NEW w \in Worker, pc[w] \in {"completing", "failing"},
               CompleteJob(holds[w]) \/ FailJob(holds[w]),
               holds' = [holds EXCEPT ![w] = NoJob]
        PROVE  Service!ServiceNext
    <3>1. holds[w] # NoJob /\ holds[w] \in JobId
      BY <2>4 DEF HoldsInPhase, AtWork
    <3>2. Service!Settle(w)
      BY <2>4, <3>1 DEF CompleteJob, FailJob, SettleJob, Service!Settle
    <3>3. QED
      BY <3>2 DEF Service!ServiceNext
  <2>5. ASSUME NEW W \in SUBSET Worker, UNCHANGED jobView,
               holds' = [w \in Worker |-> IF w \in W THEN NoJob ELSE holds[w]]
        PROVE  Service!ServiceNext
    <3>1. Service!Abandon(W)
      BY <2>5 DEF Service!Abandon
    <3>2. QED
      BY <3>1 DEF Service!ServiceNext
  <2>6. ASSUME NEW w \in Worker, UNCHANGED jobView,
               holds' = [holds EXCEPT ![w] = NoJob]
        PROVE  Service!ServiceNext
    <3>1. holds' = [v \in Worker |-> IF v \in {w} THEN NoJob ELSE holds[v]]
      BY <2>6
    <3>2. {w} \in SUBSET Worker
      OBVIOUS
    <3>3. QED
      BY <2>5, <2>6, <3>1, <3>2
  <2>7. ASSUME NEW w \in Worker, Complete(w) \/ Fail(w)
        PROVE  Service!ServiceNext
    BY <2>4, <2>7 DEF Complete, Fail, LoopAgain
  <2>8. ASSUME NEW w \in Worker, FailRaises(w)
        PROVE  Service!ServiceNext
    <3>1. holds' = [holds EXCEPT ![w] = NoJob] /\ UNCHANGED status
      BY <2>8 DEF FailRaises, queueVars
    <3>2. UNCHANGED jobView
      BY <3>1
    <3>3. QED
      BY <2>6, <3>1, <3>2
  <2>9. ASSUME NEW w \in Worker, CancelWorker(w)
        PROVE  Service!ServiceNext
    <3>1. holds' = [holds EXCEPT ![w] = NoJob]
      BY <2>9 DEF CancelWorker
    <3>2. CASE UNCHANGED queueVars
      BY <2>6, <3>1, <3>2 DEF queueVars
    <3>3. CASE \E j \in JobId : ClaimJob(j)
      <4>1. UNCHANGED jobView
        BY <3>3 DEF ClaimJob, Claimable
      <4>2. QED
        BY <2>6, <3>1, <4>1
    <3>4. CASE /\ pc[w] \in {"completing", "failing"}
               /\ CompleteJob(holds[w]) \/ FailJob(holds[w])
      BY <2>4, <3>1, <3>4
    <3>5. QED
      BY <2>9, <3>2, <3>3, <3>4 DEF CancelWorker, OrphanedCall
  <2>10. ASSUME StopBegin \/ Stopped \/ Start \/ Tick \/ UNCHANGED vars
        PROVE  UNCHANGED Service!svars
    BY <2>10 DEF StopBegin, Stopped, Start, Tick, LeasesAge, vars, poolVars,
                queueVars
  <2>11. ASSUME Crash
         PROVE  Service!ServiceNext
    <3>1. holds' = [w \in Worker |-> IF w \in Worker THEN NoJob ELSE holds[w]]
      BY <2>11 DEF Crash
    <3>2. QED
      BY <2>5, <2>11, <3>1 DEF Crash, queueVars
  <2>12. QED
    BY <2>1, <2>2, <2>3, <2>7, <2>8, <2>9, <2>10, <2>11 DEF Next, WorkerStep
<1>3. QED
  BY <1>1, <1>2, Invariance, PTL
  DEF Spec, ImplementsJobService, Service!ServiceSpec
=============================================================================
