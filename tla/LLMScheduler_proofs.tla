------------------------ MODULE LLMScheduler_proofs ------------------------
(* For any number of callers: a call is overtaken at most once, and every  *)
(* call that waits has one entry.                                          *)
EXTENDS LLMScheduler, SequenceTheorems, TLAPS

(* Entries stand in the queue of their priority, one for each call.        *)
Filed ==
    \A p \in Priority : \A i \in DOMAIN queue[p] :
        queue[p][i] \in Caller =>
            /\ prio[queue[p][i]] = p
            /\ \A j \in DOMAIN queue[p] : queue[p][j] = queue[p][i] => j = i

(* An entry in the consumer's hand is not in the queue.                    *)
InHand ==
    /\ current \in Caller => ~InQueue(current)
    /\ consumer \in {"idle", "off"} => current = NoCaller

(* The consumer outlives the loops.                                        *)
Order ==
    /\ consumer = "off" <=> up = "stopped"
    /\ up = "stopped" => gone = Caller
    /\ \A c \in gone : future[c] = "none"

(* Who was overtaken is in the queue, before all that may be held back for *)
(* the gap, and so none of these is in the consumer's hand.                *)
Ahead ==
    \A c \in Caller :
        overtaken[c] > 0 =>
            /\ overtaken[c] = 1
            /\ InQueue(c)
            /\ prio[c] < P2
            /\ consumer # "gap"

IInv == SchedulerTypeOK /\ Filed /\ InHand /\ Order /\ Ahead /\ NobodyStranded

LEMMA Constants ==
    /\ NumCallers \in Nat \ {0} /\ Gap \in Nat \ {0}
    /\ Caller \subseteq Nat \ {0} /\ NoCaller = 0 /\ NoCaller \notin Caller
    /\ Priority = {0, 1, 2} /\ P0 = 0 /\ P1 = 1 /\ P2 = 2
    /\ OvertakenCap = 2 /\ Attempts = 3
    /\ \A a \in 1..2 : Pause[a] \in 0..2
<1>1. Pause[1] = 2 ^ 0 /\ Pause[2] = 2 ^ 1
  BY DEF Pause, Attempts
<1>2. 2 ^ 0 = 1 /\ 2 ^ 1 = 2
  OBVIOUS
<1>3. \A a \in 1..2 : a = 1 \/ a = 2
  OBVIOUS
<1>4. \A a \in 1..2 : Pause[a] \in 0..2
  BY <1>1, <1>2, <1>3
<1> QED  BY <1>4, LLMSchedulerAssumption DEF Caller, NoCaller, Priority, P0, P1, P2, OvertakenCap, Attempts

-----------------------------------------------------------------------------
(* The queue when an entry is added, taken or cancelled.                   *)

LEMMA AppendedTo ==
    ASSUME NEW q \in Seq(Caller \cup {NoCaller}), NEW e \in Caller
    PROVE  /\ Append(q, e) \in Seq(Caller \cup {NoCaller})
           /\ DOMAIN Append(q, e) = DOMAIN q \cup {Len(q) + 1}
           /\ Len(q) + 1 \notin DOMAIN q
           /\ \A i \in DOMAIN q : Append(q, e)[i] = q[i]
           /\ Append(q, e)[Len(q) + 1] = e
OBVIOUS

LEMMA TakenFrom ==
    ASSUME NEW q \in Seq(Caller \cup {NoCaller}), q # <<>>
    PROVE  /\ Tail(q) \in Seq(Caller \cup {NoCaller})
           /\ 1 \in DOMAIN q /\ Head(q) = q[1] /\ Head(q) \in Caller \cup {NoCaller}
           /\ \A i \in DOMAIN Tail(q) :
                  /\ i + 1 \in DOMAIN q /\ i + 1 # 1 /\ i \in Nat
                  /\ Tail(q)[i] = q[i + 1]
           /\ \A i \in DOMAIN q : i = 1 \/ (i - 1 \in DOMAIN Tail(q) /\ Tail(q)[i - 1] = q[i])
OBVIOUS

LEMMA InvInit == SchedulerInit => IInv
<1> SUFFICES ASSUME SchedulerInit PROVE IInv
  OBVIOUS
<1> USE Constants DEF SchedulerInit
<1>1. \A p \in Priority : queue[p] = <<>> /\ DOMAIN queue[p] = {}
  OBVIOUS
<1>2. \A c \in Caller : ~InQueue(c) /\ future[c] = "none" /\ overtaken[c] = 0
  BY <1>1 DEF InQueue
<1>3. SchedulerTypeOK
  BY DEF SchedulerTypeOK
<1>4. Filed /\ InHand /\ Order
  BY <1>1, <1>2 DEF Filed, InHand, Order
<1>5. Ahead /\ NobodyStranded
  BY <1>2 DEF Ahead, NobodyStranded, Waits
<1> QED  BY <1>3, <1>4, <1>5 DEF IInv

(* What an entry of the queue is, and where a waiting caller stands.       *)
LEMMA Standing ==
    ASSUME IInv
    PROVE  /\ \A p \in Priority : queue[p] \in Seq(Caller \cup {NoCaller})
           /\ \A p \in Priority : \A i \in DOMAIN queue[p] : queue[p][i] \in Caller => InQueue(queue[p][i])
           /\ \A c \in Caller : InQueue(c) =>
                  \E i \in DOMAIN queue[prio[c]] : queue[prio[c]][i] = c
BY Constants DEF IInv, SchedulerTypeOK, Filed, InQueue

LEMMA GenerateKeeps ==
    ASSUME IInv, NEW c \in Caller, NEW p \in Priority, Generate(c, p)
    PROVE  IInv'
<1> USE Constants
<1> DEFINE e == Len(queue[p]) + 1
<1>1. /\ queue[p] \in Seq(Caller \cup {NoCaller})
      /\ queue' = [queue EXCEPT ![p] = Append(queue[p], c)]
      /\ prio' = [prio EXCEPT ![c] = p] /\ future' = [future EXCEPT ![c] = "pending"]
      /\ \A q \in Priority : q # p => queue'[q] = queue[q]
      /\ queue'[p] = Append(queue[p], c)
  BY DEF Generate, IInv, SchedulerTypeOK
<1>2. ~InQueue(c) /\ current # c /\ consumer # "off" /\ overtaken[c] = 0
  <2>1. future[c] = "none" /\ c \notin gone
    BY DEF Generate
  <2>2. consumer # "off"
    BY <2>1 DEF IInv, Order
  <2> QED  BY <2>1, <2>2 DEF IInv, NobodyStranded, Waits, Ahead, SchedulerTypeOK
<1>3. /\ DOMAIN queue'[p] = DOMAIN queue[p] \cup {e} /\ e \notin DOMAIN queue[p]
      /\ queue'[p][e] = c
      /\ \A i \in DOMAIN queue[p] : queue'[p][i] = queue[p][i]
  BY <1>1, AppendedTo
<1>4. \A q \in Priority : \A i \in DOMAIN queue[q] : queue[q][i] # c
  BY <1>2 DEF InQueue
<1>5. InQueue(c)' /\ \A d \in Caller : d # c => (InQueue(d)' <=> InQueue(d))
  BY <1>1, <1>3 DEF InQueue
<1>6. SchedulerTypeOK'
  BY SMTT(30), <1>1, AppendedTo DEF Generate, IInv, SchedulerTypeOK
<1>7. Filed'
  <2> SUFFICES ASSUME NEW q \in Priority, NEW i \in DOMAIN queue'[q], queue'[q][i] \in Caller
               PROVE  /\ prio'[queue'[q][i]] = q
                      /\ \A j \in DOMAIN queue'[q] : queue'[q][j] = queue'[q][i] => j = i
    BY DEF Filed
  <2>1. CASE q # p
    BY <2>1, <1>1, <1>4 DEF IInv, Filed, SchedulerTypeOK
  <2>2. CASE q = p /\ i = e
    BY <2>2, <1>1, <1>3, <1>4 DEF IInv, SchedulerTypeOK
  <2>3. CASE q = p /\ i \in DOMAIN queue[p]
    BY <2>3, <1>1, <1>3, <1>4 DEF IInv, Filed, SchedulerTypeOK
  <2> QED  BY <2>1, <2>2, <2>3, <1>3
<1>8. InHand' /\ Order'
  BY <1>1, <1>2, <1>5 DEF Generate, IInv, InHand, Order, SchedulerTypeOK
<1>9. Ahead'
  BY <1>1, <1>2, <1>5 DEF Generate, IInv, Ahead, SchedulerTypeOK
<1>10. NobodyStranded'
  BY <1>1, <1>2, <1>5 DEF Generate, IInv, NobodyStranded, Waits, SchedulerTypeOK
<1> QED  BY <1>6, <1>7, <1>8, <1>9, <1>10 DEF IInv

(* A step that leaves the queue alone.                                     *)
LEMMA SameQueue ==
    ASSUME IInv, queue' = queue
    PROVE  /\ \A c \in Caller : InQueue(c)' <=> InQueue(c)
           /\ prio' = prio => Filed'
BY DEF InQueue, IInv, Filed

LEMMA ResumeKeeps ==
    ASSUME IInv, NEW c \in Caller, Resume(c)
    PROVE  IInv'
<1> USE Constants DEF Resume
<1>1. \A d \in Caller : InQueue(d)' <=> InQueue(d)
  BY SameQueue
<1>2. ~InQueue(c) /\ ~Waits(c)
  <2>1. ~Waits(c)
    BY DEF Waits
  <2>2. CASE consumer = "off"
    <3>1. c \in gone
      BY <2>2 DEF IInv, Order
    <3> QED  BY <3>1 DEF IInv, Order
  <2>3. CASE consumer # "off"
    BY <2>1, <2>3 DEF IInv, NobodyStranded
  <2> QED  BY <2>1, <2>2, <2>3
<1>3. SchedulerTypeOK'
  BY DEF IInv, SchedulerTypeOK
<1>4. Filed'
  BY <1>2 DEF IInv, Filed, SchedulerTypeOK, InQueue
<1>5. InHand' /\ Order'
  BY <1>1 DEF IInv, InHand, Order, SchedulerTypeOK
<1>6. Ahead'
  BY <1>1, <1>2 DEF IInv, Ahead, SchedulerTypeOK
<1>7. NobodyStranded'
  BY <1>1 DEF IInv, NobodyStranded, Waits, SchedulerTypeOK
<1> QED  BY <1>3, <1>4, <1>5, <1>6, <1>7 DEF IInv

(* Steps of the consumer that only change its phase.                       *)
LEMMA PhaseKeeps ==
    ASSUME IInv, consumer \in {"calling", "pause"}, Retry \/ PauseOver
    PROVE  IInv'
<1> USE Constants
<1>1. /\ UNCHANGED <<up, gone, future, prio, queue, current, cool, overtaken>>
      /\ consumer' \in {"calling", "pause"} /\ attempt' \in 1..Attempts /\ delay' \in 0..2
  BY DEF Retry, PauseOver, IInv, SchedulerTypeOK
<1>2. (\A d \in Caller : InQueue(d)' <=> InQueue(d)) /\ Filed'
  BY <1>1, SameQueue
<1>3. SchedulerTypeOK'
  BY <1>1 DEF IInv, SchedulerTypeOK
<1>4. InHand' /\ Order'
  BY <1>1, <1>2 DEF IInv, InHand, Order
<1>5. Ahead' /\ NobodyStranded'
  BY <1>1, <1>2 DEF IInv, Ahead, NobodyStranded, Waits
<1> QED  BY <1>2, <1>3, <1>4, <1>5 DEF IInv

LEMMA ResolveKeeps ==
    ASSUME IInv, consumer = "calling", NEW o \in {"answer", "error"}, Resolve(o)
    PROVE  IInv'
<1> USE Constants DEF Resolve
<1>1. (\A d \in Caller : InQueue(d)' <=> InQueue(d)) /\ Filed'
  BY SameQueue
<1>2. current \in Caller => current \notin gone
  BY DEF IInv, NobodyStranded, Order, Waits
<1>3. SchedulerTypeOK'
  BY DEF IInv, SchedulerTypeOK
<1>4. InHand' /\ Order'
  BY <1>1, <1>2 DEF IInv, InHand, Order, SchedulerTypeOK
<1>5. Ahead'
  BY <1>1 DEF IInv, Ahead
<1>6. NobodyStranded'
  BY <1>1 DEF IInv, NobodyStranded, InHand, Waits, SchedulerTypeOK
<1> QED  BY <1>1, <1>3, <1>4, <1>5, <1>6 DEF IInv

LEMMA EndsKeep ==
    ASSUME IInv, StopBegin \/ CancelConsumer \/ SchedulerTick
    PROVE  IInv'
<1> USE Constants
<1>1. (\A d \in Caller : InQueue(d)' <=> InQueue(d)) /\ Filed'
  BY SameQueue DEF StopBegin, CancelConsumer, SchedulerTick
<1>2. CASE StopBegin
  BY <1>1, <1>2 DEF StopBegin, IInv, SchedulerTypeOK, InHand, Order, Ahead, NobodyStranded, Waits
<1>3. CASE SchedulerTick
  BY <1>1, <1>3 DEF SchedulerTick, IInv, SchedulerTypeOK, InHand, Order, Ahead, NobodyStranded, Waits
<1>4. CASE CancelConsumer
  BY <1>1, <1>4 DEF CancelConsumer, IInv, SchedulerTypeOK, InHand, Order, Ahead, NobodyStranded, Waits
<1> QED  BY <1>2, <1>3, <1>4

LEMMA CancelCallerKeeps ==
    ASSUME IInv, NEW c \in Caller, CancelCaller(c)
    PROVE  IInv'
<1> USE Constants
<1>1. /\ \A p \in Priority : /\ queue'[p] \in Seq(Caller \cup {NoCaller})
                            /\ DOMAIN queue'[p] = DOMAIN queue[p]
                            /\ \A i \in DOMAIN queue[p] :
                                   queue'[p][i] = IF queue[p][i] = c THEN NoCaller ELSE queue[p][i]
      /\ queue' \in [Priority -> Seq(Caller \cup {NoCaller})]
  <2> DEFINE T(q) == [i \in DOMAIN q |-> IF q[i] = c THEN NoCaller ELSE q[i]]
  <2>1. queue \in [Priority -> Seq(Caller \cup {NoCaller})]
    BY DEF IInv, SchedulerTypeOK
  <2>2. queue' = [p \in Priority |-> T(queue[p])]
    BY DEF CancelCaller
  <2>3. ASSUME NEW q \in Seq(Caller \cup {NoCaller})
        PROVE  T(q) \in Seq(Caller \cup {NoCaller})
    <3>1. Len(q) \in Nat /\ DOMAIN q = 1..Len(q)
      OBVIOUS
    <3>2. \A i \in 1..Len(q) : T(q)[i] \in Caller \cup {NoCaller}
      OBVIOUS
    <3> QED  BY <3>1, <3>2
  <2> QED  BY <2>1, <2>2, <2>3
<1>2. ~InQueue(c)' /\ \A d \in Caller : d # c => (InQueue(d)' <=> InQueue(d))
  BY <1>1 DEF InQueue
<1>3. SchedulerTypeOK'
  BY <1>1 DEF CancelCaller, IInv, SchedulerTypeOK
<1>4. Filed'
  <2> SUFFICES ASSUME NEW q \in Priority, NEW i \in DOMAIN queue'[q], queue'[q][i] \in Caller
               PROVE  /\ prio'[queue'[q][i]] = q
                      /\ \A j \in DOMAIN queue'[q] : queue'[q][j] = queue'[q][i] => j = i
    BY DEF Filed
  <2>1. i \in DOMAIN queue[q] /\ queue'[q][i] = queue[q][i] /\ queue[q][i] # c
    BY <1>1
  <2>2. prio'[queue[q][i]] = prio[queue[q][i]]
    BY <2>1 DEF CancelCaller, IInv, SchedulerTypeOK
  <2>3. \A j \in DOMAIN queue'[q] : queue'[q][j] = queue[q][i] => queue[q][j] = queue[q][i]
    BY <2>1, <1>1
  <2> QED  BY <2>1, <2>2, <2>3, <1>1 DEF IInv, Filed
<1>5. InHand' /\ Order'
  BY <1>2 DEF CancelCaller, IInv, InHand, Order, SchedulerTypeOK
<1>6. Ahead'
  BY <1>2 DEF CancelCaller, IInv, Ahead, SchedulerTypeOK
<1>7. NobodyStranded'
  BY <1>2 DEF CancelCaller, IInv, NobodyStranded, Waits, SchedulerTypeOK
<1> QED  BY <1>3, <1>4, <1>5, <1>6, <1>7 DEF IInv

(* A call begins with the queue as it will be, in which nobody of a higher *)
(* priority has been overtaken but those that stay before it.              *)
LEMMA BeginKeeps ==
    ASSUME IInv, NEW e \in Caller \cup {NoCaller}, NEW p \in Priority, Begin(e, p),
           consumer \in {"idle", "gap"},
           UNCHANGED <<up, gone, future, prio, delay>>,
           queue' \in [Priority -> Seq(Caller \cup {NoCaller})], Filed',
           e \in Caller => (InQueue(e) \/ current = e) /\ ~InQueue(e)',
           current \in {NoCaller, e},
           \A d \in Caller : d # e => (InQueue(d)' <=> InQueue(d)),
           \A d \in Caller : InQueue(d) /\ prio[d] < p => overtaken[d] = 0
    PROVE  IInv'
<1> USE Constants
<1>1. consumer' \in {"idle", "calling"} /\ current' = e
  BY DEF Begin
<1>2. \A d \in Caller :
          overtaken'[d] = IF e = NoCaller THEN overtaken[d]
                          ELSE CASE d = e -> 0
                                 [] d # e /\ InQueue(d) /\ prio[d] < p -> 1
                                 [] OTHER -> overtaken[d]
  <2>1. CASE e = NoCaller
    BY <2>1 DEF Begin
  <2>2. CASE e # NoCaller
    <3> SUFFICES ASSUME NEW d \in Caller
                 PROVE  overtaken'[d] = CASE d = e -> 0
                                          [] d # e /\ InQueue(d) /\ prio[d] < p -> 1
                                          [] OTHER -> overtaken[d]
      BY <2>2
    <3>1. overtaken'[d] = CASE d = e -> 0
                            [] InQueue(d) /\ prio[d] < p /\ overtaken[d] < OvertakenCap
                                 -> overtaken[d] + 1
                            [] OTHER -> overtaken[d]
      BY <2>2 DEF Begin
    <3>2. CASE d = e
      BY <3>1, <3>2
    <3>3. CASE d # e /\ InQueue(d) /\ prio[d] < p
      <4>1. overtaken[d] = 0
        BY <3>3
      <4> QED  BY <3>1, <3>3, <4>1
    <3>4. CASE d # e /\ ~(InQueue(d) /\ prio[d] < p)
      BY <3>1, <3>4
    <3> QED  BY <3>2, <3>3, <3>4
  <2> QED  BY <2>1, <2>2
<1>3. SchedulerTypeOK'
  <2>1. overtaken' \in [Caller -> 0..OvertakenCap]
    <3>1. overtaken' = [d \in Caller |-> overtaken'[d]]
      BY DEF Begin, IInv, SchedulerTypeOK
    <3>2. \A d \in Caller : overtaken'[d] \in 0..OvertakenCap
      BY <1>2 DEF IInv, SchedulerTypeOK
    <3> QED  BY <3>1, <3>2
  <2> QED  BY <2>1, <1>1 DEF Begin, IInv, SchedulerTypeOK
<1>4. InHand' /\ Order'
  BY <1>1 DEF Begin, IInv, InHand, Order
<1>5. Ahead'
  <2> SUFFICES ASSUME NEW d \in Caller, overtaken'[d] > 0
               PROVE  overtaken'[d] = 1 /\ InQueue(d)' /\ prio'[d] < P2 /\ consumer' # "gap"
    BY DEF Ahead
  <2>1. d # e
    <3>1. CASE e = NoCaller
      BY <3>1
    <3>2. CASE e # NoCaller
      BY <3>2, <1>2
    <3> QED  BY <3>1, <3>2
  <2>2. CASE e # NoCaller /\ InQueue(d) /\ prio[d] < p
    <3>1. overtaken'[d] = 1
      BY <2>1, <2>2, <1>2
    <3>2. InQueue(d)' /\ consumer' # "gap"
      BY <2>1, <2>2, <1>1
    <3>3. prio'[d] < P2
      <4>1. prio' = prio
        OBVIOUS
      <4>2. prio[d] \in {0, 1, 2} /\ p \in {0, 1, 2} /\ prio[d] < p
        BY <2>2 DEF IInv, SchedulerTypeOK
      <4> QED  BY <4>1, <4>2
    <3> QED  BY <3>1, <3>2, <3>3
  <2>3. CASE ~(e # NoCaller /\ InQueue(d) /\ prio[d] < p)
    <3>1. overtaken'[d] = overtaken[d]
      BY <2>1, <2>3, <1>2
    <3> QED  BY <3>1, <2>1, <1>1 DEF IInv, Ahead
  <2> QED  BY <2>2, <2>3
<1>6. NobodyStranded'
  BY <1>1 DEF IInv, NobodyStranded, Waits
<1> QED  BY <1>3, <1>4, <1>5, <1>6 DEF IInv

LEMMA GapOverKeeps == ASSUME IInv, GapOver PROVE IInv'
<1> USE Constants
<1>1. /\ consumer = "gap" /\ Begin(current, P2) /\ current \in Caller \cup {NoCaller}
      /\ UNCHANGED <<up, gone, future, prio, queue, delay>>
  BY DEF GapOver, IInv, SchedulerTypeOK
<1>2. (\A d \in Caller : InQueue(d)' <=> InQueue(d)) /\ Filed'
  BY <1>1, SameQueue
<1>3. \A d \in Caller : overtaken[d] = 0
  BY <1>1 DEF IInv, Ahead, SchedulerTypeOK
<1>4. current \in Caller => ~InQueue(current)
  BY DEF IInv, InHand
<1>5. queue' \in [Priority -> Seq(Caller \cup {NoCaller})]
  BY <1>1 DEF IInv, SchedulerTypeOK
<1>6. P2 \in Priority
  OBVIOUS
<1> QED  BY <1>1, <1>2, <1>3, <1>4, <1>5, <1>6, BeginKeeps

LEMMA GetKeeps ==
    ASSUME IInv, NEW p \in Priority, Get(p)
    PROVE  IInv'
<1> USE Constants
<1> PICK e : e = Head(queue[p])
  OBVIOUS
<1>1. /\ queue[p] \in Seq(Caller \cup {NoCaller}) /\ queue[p] # <<>>
      /\ queue' = [queue EXCEPT ![p] = Tail(queue[p])]
      /\ \A q \in Priority : q # p => queue'[q] = queue[q]
      /\ queue'[p] = Tail(queue[p])
      /\ \A q \in Priority : q < p => queue[q] = <<>>
      /\ consumer = "idle" /\ current = NoCaller
      /\ UNCHANGED <<up, gone, future, prio, delay>>
  BY DEF Get, First, IInv, SchedulerTypeOK, InHand
<1>2. /\ queue'[p] \in Seq(Caller \cup {NoCaller})
      /\ 1 \in DOMAIN queue[p] /\ e = queue[p][1] /\ e \in Caller \cup {NoCaller}
      /\ \A i \in DOMAIN queue'[p] : /\ i + 1 \in DOMAIN queue[p] /\ i + 1 # 1 /\ i \in Nat
                                     /\ queue'[p][i] = queue[p][i + 1]
      /\ \A i \in DOMAIN queue[p] :
             i = 1 \/ (i - 1 \in DOMAIN queue'[p] /\ queue'[p][i - 1] = queue[p][i])
  <2> DEFINE q == queue[p]
  <2> HIDE DEF q
  <2>1. q \in Seq(Caller \cup {NoCaller}) /\ q # <<>>
    BY <1>1 DEF q
  <2>2. queue'[p] = Tail(q)
    BY <1>1 DEF q
  <2> QED  BY <2>1, <2>2, TakenFrom DEF q
<1>3. e \in Caller => InQueue(e) /\ ~InQueue(e)' /\ prio[e] = p
  <2> SUFFICES ASSUME e \in Caller PROVE InQueue(e) /\ ~InQueue(e)' /\ prio[e] = p
    OBVIOUS
  <2>1. InQueue(e)
    BY <1>2 DEF InQueue
  <2>2. prio[e] = p /\ \A j \in DOMAIN queue[p] : queue[p][j] = e => j = 1
    BY <1>2 DEF IInv, Filed
  <2>3. \A q \in Priority : \A i \in DOMAIN queue[q] : queue[q][i] = e => q = p
    BY <2>2 DEF IInv, Filed
  <2>4. \A q \in Priority : \A i \in DOMAIN queue'[q] : queue'[q][i] # e
    <3> SUFFICES ASSUME NEW q \in Priority, NEW i \in DOMAIN queue'[q], queue'[q][i] = e
                 PROVE  FALSE
      OBVIOUS
    <3>1. CASE q = p
      BY <3>1, <2>2, <1>2
    <3>2. CASE q # p
      BY <3>2, <2>3, <1>1
    <3> QED  BY <3>1, <3>2
  <2> QED  BY <2>1, <2>2, <2>4 DEF InQueue
<1>4. ASSUME NEW d \in Caller, d # e PROVE InQueue(d)' <=> InQueue(d)
  <2>1. ASSUME NEW q \in Priority, NEW i \in DOMAIN queue[q], queue[q][i] = d PROVE InQueue(d)'
    <3>1. CASE q # p
      BY <2>1, <3>1, <1>1 DEF InQueue
    <3>2. CASE q = p
      <4>1. i # 1
        BY <2>1, <3>2, <1>2, <1>4
      <4> QED  BY <2>1, <3>2, <4>1, <1>2 DEF InQueue
    <3> QED  BY <3>1, <3>2
  <2>2. ASSUME NEW q \in Priority, NEW i \in DOMAIN queue'[q], queue'[q][i] = d PROVE InQueue(d)
    <3>1. CASE q # p
      BY <2>2, <3>1, <1>1 DEF InQueue
    <3>2. CASE q = p
      BY <2>2, <3>2, <1>2 DEF InQueue
    <3> QED  BY <3>1, <3>2
  <2>3. InQueue(d) => InQueue(d)'
    <3> SUFFICES ASSUME InQueue(d) PROVE InQueue(d)'
      OBVIOUS
    <3>1. PICK q \in Priority : \E i \in DOMAIN queue[q] : queue[q][i] = d
      BY DEF InQueue
    <3> QED  BY <3>1, <2>1
  <2>4. InQueue(d)' => InQueue(d)
    <3> SUFFICES ASSUME InQueue(d)' PROVE InQueue(d)
      OBVIOUS
    <3>1. PICK q \in Priority : \E i \in DOMAIN queue'[q] : queue'[q][i] = d
      BY DEF InQueue
    <3> QED  BY <3>1, <2>2
  <2> QED  BY <2>3, <2>4
<1>5. Filed'
  <2> SUFFICES ASSUME NEW q \in Priority, NEW i \in DOMAIN queue'[q], queue'[q][i] \in Caller
               PROVE  /\ prio'[queue'[q][i]] = q
                      /\ \A j \in DOMAIN queue'[q] : queue'[q][j] = queue'[q][i] => j = i
    BY DEF Filed
  <2>1. CASE q # p
    BY <2>1, <1>1 DEF IInv, Filed
  <2>2. CASE q = p
    <3>1. prio[queue[p][i + 1]] = p
      BY <2>2, <1>2 DEF IInv, Filed
    <3>2. ASSUME NEW j \in DOMAIN queue'[p], queue'[p][j] = queue'[p][i] PROVE j = i
      <4>1. j + 1 \in DOMAIN queue[p] /\ i + 1 \in DOMAIN queue[p] /\ i \in Nat /\ j \in Nat
            /\ queue[p][j + 1] = queue[p][i + 1] /\ queue[p][i + 1] \in Caller
        BY <2>2, <3>2, <1>2
      <4>2. j + 1 = i + 1
        BY <4>1 DEF IInv, Filed
      <4> QED  BY <4>1, <4>2
    <3> QED  BY <2>2, <3>1, <3>2, <1>1, <1>2
  <2> QED  BY <2>1, <2>2
<1>6. \A d \in Caller : InQueue(d) => ~(prio[d] < p)
  <2> SUFFICES ASSUME NEW d \in Caller, InQueue(d), prio[d] < p PROVE FALSE
    OBVIOUS
  <2>1. prio[d] \in Priority /\ \E i \in DOMAIN queue[prio[d]] : queue[prio[d]][i] = d
    BY Standing DEF IInv, SchedulerTypeOK
  <2>2. queue[prio[d]] = <<>>
    BY <2>1, <1>1
  <2> QED  BY <2>1, <2>2
<1>7. queue' \in [Priority -> Seq(Caller \cup {NoCaller})]
  BY <1>1, <1>2 DEF IInv, SchedulerTypeOK
<1>8. CASE p = P2 /\ cool > 0
  <2>1. /\ consumer' = "gap" /\ current' = e
        /\ UNCHANGED <<attempt, cool, overtaken>>
    BY <1>8 DEF Get
  <2>2. SchedulerTypeOK'
    BY <2>1, <1>1, <1>2, <1>7 DEF IInv, SchedulerTypeOK
  <2>3. InHand' /\ Order'
    BY <2>1, <1>1, <1>3 DEF IInv, InHand, Order
  <2>4. \A d \in Caller : overtaken[d] = 0
    BY <1>6, <1>8 DEF IInv, Ahead, SchedulerTypeOK
  <2>5. Ahead'
    BY <2>1, <2>4 DEF Ahead
  <2>6. NobodyStranded'
    BY <2>1, <1>1, <1>3, <1>4 DEF IInv, NobodyStranded, Waits
  <2> QED  BY <2>2, <2>3, <2>5, <2>6, <1>5 DEF IInv
<1>9. CASE ~(p = P2 /\ cool > 0)
  <2>1. Begin(e, p)
    BY <1>9 DEF Get
  <2> QED  BY <2>1, <1>1, <1>2, <1>3, <1>4, <1>5, <1>6, <1>7, BeginKeeps
<1> QED  BY <1>8, <1>9

LEMMA InvNext == IInv /\ [SchedulerNext]_lvars => IInv'
<1> SUFFICES ASSUME IInv, [SchedulerNext]_lvars PROVE IInv'
  OBVIOUS
<1>1. ASSUME NEW c \in Caller, NEW p \in Priority, Generate(c, p) PROVE IInv'
  BY <1>1, GenerateKeeps
<1>2. ASSUME NEW c \in Caller, Resume(c) PROVE IInv'
  BY <1>2, ResumeKeeps
<1>3. ASSUME NEW c \in Caller, CancelCaller(c) PROVE IInv'
  BY <1>3, CancelCallerKeeps
<1>4. ASSUME NEW p \in Priority, Get(p) PROVE IInv'
  BY <1>4, GetKeeps
<1>5. CASE GapOver
  BY <1>5, GapOverKeeps
<1>6. CASE ClientReturns \/ PauseOver
  BY <1>6, ResolveKeeps, PhaseKeeps DEF ClientReturns, Answered, Failed, Retry, PauseOver
<1>7. CASE StopBegin \/ CancelConsumer \/ SchedulerTick
  BY <1>7, EndsKeep
<1>8. CASE UNCHANGED lvars
  <2>1. (\A d \in Caller : InQueue(d)' <=> InQueue(d)) /\ Filed'
    BY <1>8, SameQueue DEF lvars
  <2> QED  BY <1>8, <2>1 DEF lvars, IInv, SchedulerTypeOK, InHand, Order, Ahead, NobodyStranded, Waits
<1> QED  BY <1>1, <1>2, <1>3, <1>4, <1>5, <1>6, <1>7, <1>8 DEF SchedulerNext, Consume

-----------------------------------------------------------------------------
(* The queue, the consumer's hand and the callers' futures belong together *)
(* in every state of the scheduler.                                        *)
THEOREM Invariance == SchedulerSpec => []IInv
BY InvInit, InvNext, PTL DEF SchedulerSpec

(* A call is overtaken by at most one call of lower priority, for any      *)
(* number of callers and any gap.                                          *)
THEOREM OvertakingIsBounded == SchedulerSpec => []OvertakenAtMostOnce
<1>1. IInv => OvertakenAtMostOnce
  <2> SUFFICES ASSUME IInv, NEW c \in Caller PROVE overtaken[c] <= 1
    BY DEF OvertakenAtMostOnce
  <2>1. overtaken[c] \in Nat
    BY Constants DEF IInv, SchedulerTypeOK
  <2> QED  BY <2>1 DEF IInv, Ahead
<1> QED  BY Invariance, <1>1, PTL

(* Who waits has one entry with the consumer still to come, also while the *)
(* worker stops.                                                           *)
THEOREM CallsAreKept == SchedulerSpec => []NobodyStranded
<1>1. IInv => NobodyStranded
  BY DEF IInv
<1> QED  BY Invariance, <1>1, PTL
=============================================================================
