---------------------------- MODULE LLMScheduler ----------------------------
(***************************************************************************)
(* umabot/llm/scheduler.py: the priority queue in front of a model client, *)
(* with its single consumer task, and the order in which Worker.start and  *)
(* Worker.stop (umabot/worker.py) start and end its callers, the worker    *)
(* loops.  A caller has one call under way at a time.  The entries of one  *)
(* priority leave the queue in the order of their sequence numbers, so the *)
(* PriorityQueue is a sequence per priority.  A call of the client ends    *)
(* with an answer, a transient error or another error; it always ends, as  *)
(* the HTTP session has a total timeout (LLMClient._http_post).            *)
(***************************************************************************)
EXTENDS Naturals, Sequences

CONSTANTS
    NumCallers,  \* worker loops
    Gap          \* p2_min_gap, in ticks

ASSUME LLMSchedulerAssumption == /\ NumCallers \in Nat \ {0}
                                 /\ Gap \in Nat \ {0}

VARIABLES
    up,        \* the Worker: "running", "stopping" or "stopped"
    gone,      \* callers that have ended
    future,    \* what each caller awaits: "none", "pending" or the outcome
    prio,      \* the priority of a caller's call, the default if it has none
    queue,     \* per priority, the entries in the queue: callers in order
    consumer,  \* what the consumer does
    current,   \* the caller of the entry it took, NoCaller if none
    attempt,   \* which of three attempts it makes
    cool,      \* ticks until p2_min_gap is over
    delay,     \* ticks left of a retry's delay
    overtaken  \* history: calls of lower priority begun while one waits

lvars == <<up, gone, future, prio, queue, consumer, current, attempt, cool,
           delay, overtaken>>

Caller == 1..NumCallers
NoCaller == 0
P0 == 0
P1 == 1
P2 == 2
Priority == {P0, P1, P2}
Attempts == 3
Pause == [a \in 1..Attempts |-> 2 ^ (a - 1)]
OvertakenCap == 2   \* bound: the history counts no further

SchedulerTypeOK ==
    /\ up \in {"running", "stopping", "stopped"}
    /\ gone \subseteq Caller
    /\ future \in [Caller -> {"none", "pending", "answer", "error"}]
    /\ prio \in [Caller -> Priority]
    /\ queue \in [Priority -> Seq(Caller \cup {NoCaller})]
    /\ consumer \in {"idle", "gap", "calling", "pause", "off"}
    /\ current \in Caller \cup {NoCaller}
    /\ attempt \in 1..Attempts
    /\ cool \in 0..Gap
    /\ delay \in 0..2
    /\ overtaken \in [Caller -> 0..OvertakenCap]

(* _last_p2 is 0.0 on a clock whose origin is arbitrary.                   *)
SchedulerInit ==
    /\ up = "running"
    /\ gone = {}
    /\ future = [c \in Caller |-> "none"]
    /\ prio = [c \in Caller |-> P1]
    /\ queue = [p \in Priority |-> <<>>]
    /\ consumer = "idle"
    /\ current = NoCaller
    /\ attempt = 1
    /\ cool \in 0..Gap
    /\ delay = 0
    /\ overtaken = [c \in Caller |-> 0]

-----------------------------------------------------------------------------
(* generate: a new future is put into the queue and awaited.               *)
Generate(c, p) ==
    /\ c \notin gone
    /\ future[c] = "none"
    /\ future' = [future EXCEPT ![c] = "pending"]
    /\ prio' = [prio EXCEPT ![c] = p]
    /\ queue' = [queue EXCEPT ![p] = Append(@, c)]
    /\ UNCHANGED <<up, gone, consumer, current, attempt, cool, delay,
                   overtaken>>

(* The awaiting caller goes on with what its future holds.                 *)
Resume(c) ==
    /\ future[c] \in {"answer", "error"}
    /\ future' = [future EXCEPT ![c] = "none"]
    /\ prio' = [prio EXCEPT ![c] = P1]
    /\ UNCHANGED <<up, gone, queue, consumer, current, attempt, cool,
                   delay, overtaken>>

-----------------------------------------------------------------------------
InQueue(c) == \E p \in Priority : \E i \in DOMAIN queue[p] : queue[p][i] = c

(* Mutation of First: the queue is a plain one, priorities do not count.   *)
First_Any(p) == queue[p] # <<>>

(* PriorityQueue.get hands out the oldest entry of the first priority.     *)
First(p) == queue[p] # <<>> /\ \A q \in Priority : q < p => queue[q] = <<>>

(* _last_p2 is set and, unless the caller is gone, the client is called.   *)
Begin(c, p) ==
    /\ cool' = IF p = P2 THEN Gap ELSE cool
    /\ IF c = NoCaller
       THEN /\ consumer' = "idle"
            /\ current' = NoCaller
            /\ UNCHANGED <<attempt, overtaken>>
       ELSE /\ consumer' = "calling"
            /\ current' = c
            /\ attempt' = 1
            /\ overtaken' = [d \in Caller |->
                                CASE d = c -> 0
                                  [] InQueue(d) /\ prio[d] < p
                                     /\ overtaken[d] < OvertakenCap
                                        -> overtaken[d] + 1
                                  [] OTHER -> overtaken[d]]

(* The consumer takes an entry; a P2 one may have to wait out the gap, and *)
(* the consumer sleeps for it with the entry in its hand.                  *)
Get(p) ==
    /\ consumer = "idle"
    /\ First(p)
    /\ queue' = [queue EXCEPT ![p] = Tail(@)]
    /\ IF p = P2 /\ cool > 0
       THEN /\ consumer' = "gap"
            /\ current' = Head(queue[p])
            /\ UNCHANGED <<attempt, cool, overtaken>>
       ELSE Begin(Head(queue[p]), p)
    /\ UNCHANGED <<up, gone, future, prio, delay>>

GapOver ==
    /\ consumer = "gap"
    /\ cool = 0
    /\ Begin(current, P2)
    /\ UNCHANGED <<up, gone, future, prio, queue, delay>>

(* Mutation of Resolve: an error is logged and the future forgotten.       *)
Resolve_LogOnly(outcome) ==
    /\ future' = [c \in Caller |-> IF c = current /\ outcome = "answer"
                                   THEN outcome ELSE future[c]]
    /\ consumer' = "idle"
    /\ current' = NoCaller
    /\ UNCHANGED <<up, gone, prio, queue, attempt, cool, delay, overtaken>>

(* set_result or set_exception, if the future is not done.                 *)
Resolve(outcome) ==
    /\ future' = [c \in Caller |-> IF c = current THEN outcome ELSE future[c]]
    /\ consumer' = "idle"
    /\ current' = NoCaller
    /\ UNCHANGED <<up, gone, prio, queue, attempt, cool, delay, overtaken>>

Answered == consumer = "calling" /\ Resolve("answer")

(* An error that is not transient, or the third one that is.               *)
Failed == consumer = "calling" /\ Resolve("error")

Retry ==
    /\ consumer = "calling"
    /\ attempt < Attempts
    /\ consumer' = "pause"
    /\ delay' = Pause[attempt]
    /\ UNCHANGED <<up, gone, future, prio, queue, current, attempt, cool, overtaken>>

PauseOver ==
    /\ consumer = "pause"
    /\ delay = 0
    /\ consumer' = "calling"
    /\ attempt' = attempt + 1
    /\ UNCHANGED <<up, gone, future, prio, queue, current, cool, delay, overtaken>>

-----------------------------------------------------------------------------
(* Worker.stop: the loops are cancelled one after the other, which cancels *)
(* the future a loop awaits, and then the consumer.                        *)
StopBegin ==
    /\ up = "running"
    /\ up' = "stopping"
    /\ UNCHANGED <<gone, future, prio, queue, consumer, current, attempt,
                   cool, delay, overtaken>>

CancelCaller(c) ==
    /\ up = "stopping"
    /\ c \notin gone
    /\ \A d \in Caller : d < c => d \in gone
    /\ gone' = gone \cup {c}
    /\ future' = [future EXCEPT ![c] = "none"]
    /\ queue' = [p \in Priority |->
                    [i \in DOMAIN queue[p] |-> IF queue[p][i] = c THEN NoCaller
                                                                  ELSE queue[p][i]]]
    /\ current' = IF current = c THEN NoCaller ELSE current
    /\ prio' = [prio EXCEPT ![c] = P1]
    /\ overtaken' = [overtaken EXCEPT ![c] = 0]
    /\ UNCHANGED <<up, consumer, attempt, cool, delay>>

(* Mutation of CancelConsumer: it is stopped before the loops have ended.  *)
CancelConsumer_First ==
    /\ up = "stopping"
    /\ up' = "stopped"
    /\ consumer' = "off"
    /\ current' = NoCaller
    /\ UNCHANGED <<gone, future, prio, queue, attempt, cool, delay, overtaken>>

CancelConsumer ==
    /\ up = "stopping"
    /\ gone = Caller
    /\ up' = "stopped"
    /\ consumer' = "off"
    /\ current' = NoCaller
    /\ UNCHANGED <<gone, future, prio, queue, attempt, cool, delay, overtaken>>

SchedulerTick ==
    /\ cool > 0 \/ delay > 0
    /\ cool' = IF cool = 0 THEN 0 ELSE cool - 1
    /\ delay' = IF delay = 0 THEN 0 ELSE delay - 1
    /\ UNCHANGED <<up, gone, future, prio, queue, consumer, current, attempt,
                   overtaken>>

ClientReturns == Answered \/ Failed \/ Retry

Consume ==
    \/ \E p \in Priority : Get(p)
    \/ GapOver
    \/ ClientReturns
    \/ PauseOver

SchedulerNext ==
    \/ \E c \in Caller : \/ \E p \in Priority : Generate(c, p)
                         \/ Resume(c)
                         \/ CancelCaller(c)
    \/ Consume
    \/ StopBegin
    \/ CancelConsumer
    \/ SchedulerTick

(* The event loop schedules the consumer and the callers, calls of the     *)
(* client end and time passes; nobody has to make a call or to stop.       *)
SchedulerSpec == SchedulerInit /\ [][SchedulerNext]_lvars

SchedulerFairSpec ==
    /\ SchedulerSpec
    /\ WF_lvars(Consume)
    /\ WF_lvars(SchedulerTick)
    /\ WF_lvars(CancelConsumer)
    /\ \A c \in Caller : WF_lvars(Resume(c)) /\ WF_lvars(CancelCaller(c))

-----------------------------------------------------------------------------
Waits(c) == future[c] = "pending"

(* Priority inversion is bounded: a call is overtaken by at most one call  *)
(* of lower priority, the one the consumer had taken before it came and    *)
(* held back for the gap.  (ARCHITECTURE.md:268 promises a P0 call "no     *)
(* delay"; it waits while the consumer sleeps that gap out.)               *)
OvertakenAtMostOnce == \A c \in Caller : overtaken[c] <= 1

(* Every pending future has one entry, in the queue or in the consumer's   *)
(* hand, so that no call is dropped or answered twice; once the consumer   *)
(* has stopped nobody is left waiting ("drain in-flight futures" of stop,  *)
(* which holds because Worker.stop ends the loops first).                  *)
NobodyStranded ==
    \A c \in Caller :
        Waits(c) <=> consumer # "off" /\ (InQueue(c) \/ current = c)

(* A call is answered if calls of higher priority cease, however many      *)
(* others of its own or a lower priority there are.                        *)
CallsAnswered ==
    \A p \in Priority :
        <>[](\A c \in Caller : Waits(c) => prio[c] >= p) =>
            \A c \in Caller : (Waits(c) /\ prio[c] = p) ~> ~Waits(c)
=============================================================================
