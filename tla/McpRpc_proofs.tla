---------------------------- MODULE McpRpc_proofs ----------------------------
(* A caller never gets the answer to another request, for any number of    *)
(* servers, callers and requests.                                          *)
EXTENDS McpRpc, SequenceTheorems, TLAPS

(* A line answers the request whose id it bears, or answers nothing and    *)
(* bears an id of the server's own or none.                                *)
LineOK(m) ==
    /\ m \in Line
    /\ m.what \in {"result", "error"} => m.of = m.id
    /\ m.what = "request" => m.id \in ServerIds /\ m.of = None
    /\ m.what \in {"note", "junk"} => m.id = None

OutOK ==
    /\ out \in [Server -> Seq(Line)]
    /\ \A s \in Server : \A i \in DOMAIN out[s] : LineOK(out[s][i])

(* A request that was sent has one of the client's ids; got is settled     *)
(* only when the call is over.                                             *)
CallOK(r) ==
    /\ r \in [pc : {"idle", "wait", "write", "sent"}, on : Server \cup {None},
              id : Id \cup {None}, got : {"none", "result", "error"},
              of : Id \cup {None}]
    /\ r.pc \in {"write", "sent"} => r.id \in Id
    /\ r.pc # "idle" => r.got = "none" /\ r.on \in Server
    /\ r.got = "result" => r.of = r.id \/ (r.of = None /\ r.id \in ServerIds)

IInv ==
    /\ call \in [Task -> [pc : {"idle", "wait", "write", "sent"}, on : Server \cup {None},
                          id : Id \cup {None}, got : {"none", "result", "error"},
                          of : Id \cup {None}]]
    /\ \A t \in Task : CallOK(call[t])
    /\ requests \in 0..MaxRequests
    /\ asked \in [Server -> SUBSET Id] /\ unread \in [Server -> SUBSET Id]
    /\ OutOK

(* The constants.                                                          *)
LEMMA Ids ==
    /\ MaxRequests \in Nat /\ None = 0 /\ Id \subseteq Nat \ {0}
    /\ None \notin Id /\ None \notin ServerIds /\ None \notin Server
BY McpAssumption DEF Id, None

LEMMA InitHolds == Init => IInv
<1> SUFFICES ASSUME Init PROVE IInv
  OBVIOUS
<1>1. CallOK(Idle) /\ Idle \in [pc : {"idle", "wait", "write", "sent"}, on : Server \cup {None},
                          id : Id \cup {None}, got : {"none", "result", "error"},
                          of : Id \cup {None}]
  BY DEF CallOK, Idle, Calling
<1>2. OutOK
  BY DEF Init, OutOK
<1> QED  BY <1>1, <1>2, Ids DEF Init, IInv

(* What joins the line of a server is in order, and so is what is left.    *)
LEMMA Appended ==
    ASSUME NEW s \in Server, NEW m, LineOK(m), OutOK,
           out' = [out EXCEPT ![s] = Append(@, m)]
    PROVE  OutOK'
<1>1. m \in Line
  BY DEF LineOK
<1>2. out[s] \in Seq(Line)
  BY DEF OutOK
<1>3. out' \in [Server -> Seq(Line)]
  BY <1>1, <1>2 DEF OutOK
<1>4. ASSUME NEW r \in Server, NEW i \in DOMAIN out'[r]
      PROVE  LineOK(out'[r][i])
  <2>1. CASE r # s
    BY <1>4, <2>1 DEF OutOK
  <2>2. CASE r = s
    <3>1. out'[s] = Append(out[s], m)
      BY DEF OutOK
    <3>2. CASE i = Len(out[s]) + 1
      <4>1. out'[r][i] = m
        BY <1>2, <2>2, <3>1, <3>2
      <4> QED  BY <4>1
    <3>3. CASE i \in DOMAIN out[s]
      <4>1. out'[r][i] = out[s][i]
        BY <1>2, <2>2, <3>1, <3>3
      <4> QED  BY <4>1, <3>3 DEF OutOK
    <3> QED  BY <1>1, <1>2, <1>4, <2>2, <3>1, <3>2, <3>3
  <2> QED  BY <2>1, <2>2
<1> QED  BY <1>3, <1>4 DEF OutOK

LEMMA Taken ==
    ASSUME NEW s \in Server, OutOK, out[s] # <<>>,
           out' = [out EXCEPT ![s] = Tail(@)]
    PROVE  OutOK' /\ LineOK(Head(out[s]))
<1>2. out[s] \in Seq(Line)
  BY DEF OutOK
<1>3. out' \in [Server -> Seq(Line)]
  BY <1>2 DEF OutOK
<1>4. ASSUME NEW r \in Server, NEW i \in DOMAIN out'[r]
      PROVE  LineOK(out'[r][i])
  <2>1. CASE r # s
    BY <1>4, <2>1 DEF OutOK
  <2>2. CASE r = s
    <3>1. out'[s] = Tail(out[s])
      BY DEF OutOK
    <3>2. i + 1 \in DOMAIN out[s] /\ out'[r][i] = out[s][i + 1]
      <4>1. out[r] \in Seq(Line) /\ out[r] # <<>> /\ i \in DOMAIN Tail(out[r])
        BY <1>2, <1>4, <2>2, <3>1
      <4>2. i \in 1..(Len(out[r]) - 1) /\ Tail(out[r])[i] = out[r][i + 1]
        BY <4>1, HeadTailProperties
      <4>3. DOMAIN out[r] = 1..Len(out[r]) /\ Len(out[r]) \in Nat
        BY <4>1
      <4>4. i + 1 \in DOMAIN out[r]
        BY <4>2, <4>3
      <4>5. out'[r][i] = out[r][i + 1]
        BY <4>2, <2>2, <3>1
      <4> QED  BY <4>4, <4>5, <2>2
    <3> QED  BY <3>2 DEF OutOK
  <2> QED  BY <2>1, <2>2
<1>5. 1 \in DOMAIN out[s] /\ Head(out[s]) = out[s][1]
  BY <1>2
<1> QED  BY <1>3, <1>4, <1>5 DEF OutOK

(* One call changes.                                                       *)
LEMMA Changed ==
    ASSUME NEW t \in Task, NEW r, IInv, CallOK(r), call' = [call EXCEPT ![t] = r],
           requests' \in 0..MaxRequests, asked' \in [Server -> SUBSET Id],
           unread' \in [Server -> SUBSET Id], OutOK'
    PROVE  IInv'
<1>1. r \in [pc : {"idle", "wait", "write", "sent"}, on : Server \cup {None},
             id : Id \cup {None}, got : {"none", "result", "error"},
             of : Id \cup {None}]
  BY DEF CallOK
<1>2. call' \in [Task -> [pc : {"idle", "wait", "write", "sent"}, on : Server \cup {None},
                          id : Id \cup {None}, got : {"none", "result", "error"},
                          of : Id \cup {None}]]
  BY <1>1 DEF IInv
<1>3. \A u \in Task : call'[u] = IF u = t THEN r ELSE call[u]
  BY DEF IInv
<1>4. \A u \in Task : CallOK(call'[u])
  BY <1>3 DEF IInv
<1> QED  BY <1>2, <1>4 DEF IInv

LEMMA QueuesKeeps ==
    ASSUME NEW t \in Task, NEW s \in Server, IInv, Queues(t, s),
           UNCHANGED <<requests, asked, unread, out>>
    PROVE  IInv'
<1> DEFINE r == Calling("wait", s, None)
<1>1. CallOK(r)
  BY DEF CallOK, Calling
<1>2. OutOK'
  BY DEF IInv, OutOK
<1>3. call' = [call EXCEPT ![t] = r]
  BY DEF Queues
<1> HIDE DEF r
<1> QED  BY <1>1, <1>2, <1>3, Changed DEF IInv

(* A call that ends without a result, or with one that may be taken for    *)
(* the answer to its request.                                              *)
LEMMA ReturnsKeeps ==
    ASSUME NEW t \in Task, NEW got \in {"result", "error"}, NEW of \in Id \cup {None},
           IInv, call[t].pc # "idle", Returns(t, got, of),
           \/ got = "error"
           \/ of = call[t].id
           \/ of = None /\ call[t].id \in ServerIds,
           UNCHANGED <<requests, unread>>, asked' \in [Server -> SUBSET Id], OutOK'
    PROVE  IInv'
<1> DEFINE r == [pc |-> "idle", on |-> IF t = Starter THEN call[t].on ELSE None,
                 id |-> IF got = "result" THEN call[t].id ELSE None,
                 got |-> got, of |-> of]
<1>1. call[t].on \in Server /\ call[t].id \in Id \cup {None}
  BY DEF IInv, CallOK
<1>2. CallOK(r)
  BY <1>1 DEF CallOK
<1>3. call' = [call EXCEPT ![t] = r]
  BY DEF Returns
<1> HIDE DEF r
<1> QED  BY <1>2, <1>3, Changed DEF IInv

LEMMA FailsKeeps ==
    ASSUME NEW t \in Task, IInv, call[t].pc # "idle", Returns(t, "error", None),
           UNCHANGED <<requests, asked, unread>>, OutOK'
    PROVE  IInv'
BY ReturnsKeeps DEF IInv

LEMMA IdleKeeps ==
    ASSUME NEW t \in Task, IInv, call' = [call EXCEPT ![t] = Idle],
           UNCHANGED <<requests, asked, unread, out>>
    PROVE  IInv'
<1>1. CallOK(Idle) /\ OutOK'
  BY DEF CallOK, Idle, Calling, IInv, OutOK
<1> QED  BY <1>1, Changed DEF IInv

LEMMA RpcKeeps ==
    ASSUME NEW t \in Task, IInv, RpcStep(t)
    PROVE  IInv'
<1>0. OutOK /\ CallOK(call[t]) /\ requests \in 0..MaxRequests
      /\ asked \in [Server -> SUBSET Id] /\ unread \in [Server -> SUBSET Id]
  BY DEF IInv
<1>1. ASSUME Asks(t) PROVE IInv'
  <2> DEFINE s == call[t].on
             r(pc) == Calling(pc, s, requests')
  <2>1. call[t].pc = "wait" /\ s \in Server
    BY <1>0, <1>1 DEF Asks, First, CallOK
  <2>2. requests' \in Id /\ requests' \in 0..MaxRequests
    BY <1>0, <1>1, Ids DEF Asks, Id
  <2>3. asked' \in [Server -> SUBSET Id] /\ unread' \in [Server -> SUBSET Id]
    BY <1>0, <1>1, <2>1, <2>2 DEF Asks
  <2>4. CallOK(r("sent")) /\ CallOK(r("write"))
    BY <2>1, <2>2 DEF CallOK, Calling
  <2>5. \/ call' = [call EXCEPT ![t] = r("sent")]
        \/ call' = [call EXCEPT ![t] = r("write")]
    BY <1>1 DEF Asks
  <2>6. OutOK'
    BY <1>0, <1>1 DEF Asks, OutOK
  <2> HIDE DEF r
  <2> QED  BY <2>2, <2>3, <2>4, <2>5, <2>6, Changed
<1>2. ASSUME AskFails(t) PROVE IInv'
  <2>1. call[t].pc # "idle" /\ OutOK'
    BY <1>0, <1>2 DEF AskFails, First, OutOK
  <2> QED  BY <1>2, <2>1, FailsKeeps DEF AskFails, pipes
<1>3. ASSUME Reads(t)
      PROVE  /\ call[t].pc = "sent" /\ OutOK' /\ LineOK(Head(out[call[t].on]))
             /\ UNCHANGED <<requests, asked, unread>>
  <2>1. call[t].pc = "sent" /\ call[t].on \in Server
    BY <1>0, <1>3 DEF Reads, Awaits, CallOK
  <2> QED  BY <1>0, <1>3, <2>1, Taken DEF Reads, pipes
<1>4. ASSUME TakesAnswer(t) PROVE IInv'
  <2> DEFINE m == Head(out[call[t].on])
             got == IF m.what = "error" THEN "error" ELSE "result"
  <2>1. Reads(t) /\ m.id = call[t].id /\ Returns(t, got, m.of)
    BY <1>4 DEF TakesAnswer, Matches
  <2>2. LineOK(m) /\ call[t].id \in Id
    BY <1>0, <1>3, <2>1 DEF CallOK
  <2>3. /\ m.of \in Id \cup {None}
        /\ m.of = m.id \/ (m.of = None /\ m.id \in ServerIds)
    BY <2>1, <2>2, Ids DEF LineOK, Line
  <2> HIDE DEF m
  <2> QED  BY <1>0, <1>3, <2>1, <2>2, <2>3, ReturnsKeeps
<1>5. ASSUME PassesOver(t) PROVE IInv'
  <2>1. Reads(t) /\ (call' = call \/ Returns(t, "error", None))
    BY <1>5 DEF PassesOver
  <2>2. CASE call' = call
    BY <1>3, <2>1, <2>2 DEF IInv
  <2>3. CASE Returns(t, "error", None)
    BY <1>3, <2>1, <2>3, FailsKeeps
  <2> QED  BY <2>1, <2>2, <2>3
<1>6. ASSUME ReadsJunk(t) PROVE IInv'
  BY <1>3, <1>6, FailsKeeps DEF ReadsJunk
<1>7. ASSUME Posted(t) PROVE IInv'
  <2>1. /\ call[t].pc = "sent" /\ call[t].id \in Id /\ OutOK'
        /\ UNCHANGED <<requests, unread>>
    BY <1>0, <1>7 DEF Posted, Awaits, CallOK, OutOK, pipes
  <2>2. asked' \in [Server -> SUBSET Id]
    BY <1>0, <1>7 DEF Posted
  <2>3. PICK got \in {"result", "error"} :
            Returns(t, got, IF got = "result" THEN call[t].id ELSE None)
    BY <1>7 DEF Posted
  <2> QED  BY <2>1, <2>2, <2>3, ReturnsKeeps
<1>8. ASSUME GivesUp(t) PROVE IInv'
  <2>1. call[t].pc # "idle" /\ OutOK'
    BY <1>0, <1>8 DEF GivesUp, Awaits, OutOK
  <2> QED  BY <1>8, <2>1, FailsKeeps DEF GivesUp, pipes
<1>9. ASSUME Drains(t) PROVE IInv'
  <2>1. call[t].pc = "write" /\ UNCHANGED <<requests, asked, unread>> /\ OutOK'
    BY <1>0, <1>9 DEF Drains, OutOK, pipes
  <2>2. CASE call' = [call EXCEPT ![t].pc = "sent"]
    <3> DEFINE r == [call[t] EXCEPT !.pc = "sent"]
    <3>1. CallOK(r)
      BY <1>0, <2>1 DEF CallOK
    <3>2. call' = [call EXCEPT ![t] = r]
      BY <2>2
    <3> HIDE DEF r
    <3> QED  BY <1>0, <2>1, <3>1, <3>2, Changed
  <2>3. CASE Returns(t, "error", None)
    BY <2>1, <2>3, FailsKeeps
  <2> QED  BY <1>9, <2>2, <2>3 DEF Drains
<1> QED  BY <1>1, <1>2, <1>4, <1>5, <1>6, <1>7, <1>8, <1>9 DEF RpcStep

LEMMA ServerKeeps ==
    ASSUME NEW s \in Server, NEW id, NEW what, IInv,
           \/ id \in Id /\ what \in {"result", "error"} /\ Answers(s, id, what)
           \/ /\ id \in ServerIds \cup {None} /\ what \in {"note", "request", "junk"}
              /\ MakesNoise(s, id, what)
    PROVE  IInv'
<1>1. CASE id \in Id /\ what \in {"result", "error"} /\ Answers(s, id, what)
  <2> DEFINE m == [id |-> id, of |-> id, what |-> what]
  <2>1. LineOK(m)
    BY <1>1 DEF LineOK, Line
  <2>2. out' = [out EXCEPT ![s] = Append(@, m)]
    BY <1>1 DEF Answers
  <2> HIDE DEF m
  <2>3. OutOK'
    BY <2>1, <2>2, Appended DEF IInv
  <2>4. asked' \in [Server -> SUBSET Id] /\ UNCHANGED <<call, requests, unread>>
    BY <1>1 DEF Answers, IInv, pipes
  <2> QED  BY <2>3, <2>4 DEF IInv
<1>2. CASE /\ id \in ServerIds \cup {None} /\ what \in {"note", "request", "junk"}
           /\ MakesNoise(s, id, what)
  <2> DEFINE m == [id |-> id, of |-> None, what |-> what]
  <2>1. id # None <=> what = "request"
    BY <1>2 DEF MakesNoise
  <2>2. LineOK(m)
    BY <1>2, <2>1 DEF LineOK, Line
  <2>3. out' = [out EXCEPT ![s] = Append(@, m)]
    BY <1>2 DEF MakesNoise
  <2> HIDE DEF m
  <2>4. OutOK'
    BY <2>2, <2>3, Appended DEF IInv
  <2> QED  BY <1>2, <2>4 DEF IInv, MakesNoise, pipes
<1> QED  BY <1>1, <1>2

LEMMA StepHolds == IInv /\ [Next]_vars => IInv'
<1> SUFFICES ASSUME IInv, [Next]_vars PROVE IInv'
  OBVIOUS
<1>0. Starter \in Task
  BY DEF Task
<1>1. CASE UNCHANGED <<call, requests, asked, unread, out>>
  BY <1>1 DEF IInv, OutOK
<1>2. ASSUME NEW s \in Server, Spawns(s) \/ Discovers(s) PROVE IInv'
  BY <1>0, <1>2, QueuesKeeps DEF Spawns, Discovers, pipes
<1>3. ASSUME NEW s \in Server, Started(s) \/ StartFails(s) PROVE IInv'
  BY <1>0, <1>3, IdleKeeps DEF Started, StartFails, pipes
<1>4. ASSUME NEW s \in Server, Terminates(s) \/ Dies(s) PROVE IInv'
  BY <1>1, <1>4 DEF Terminates, Dies, pipes
<1>5. ASSUME NEW s \in Server, NEW c \in Caller, CallTool(c, s) PROVE IInv'
  BY <1>5, QueuesKeeps DEF CallTool, Task, pipes
<1>6. ASSUME NEW s \in Server, NEW id \in Id, NEW what \in {"result", "error"},
             Answers(s, id, what)
      PROVE  IInv'
  BY <1>6, ServerKeeps
<1>7. ASSUME NEW s \in Server, NEW id \in ServerIds \cup {None},
             NEW what \in {"note", "request", "junk"}, MakesNoise(s, id, what)
      PROVE  IInv'
  BY <1>7, ServerKeeps
<1>8. CASE Up \/ StopBegins \/ Stopped
  BY <1>1, <1>8 DEF Up, StopBegins, Stopped, pipes
<1>9. ASSUME NEW t \in Task, RpcStep(t) PROVE IInv'
  BY <1>9, RpcKeeps
<1>10. ASSUME NEW c \in Caller, Cancelled(c) PROVE IInv'
  <2>1. OutOK' /\ c \in Task
    BY <1>10 DEF Cancelled, IInv, OutOK, Task
  <2> QED  BY <1>10, <2>1, FailsKeeps DEF Cancelled, pipes
<1>11. CASE UNCHANGED vars
  BY <1>1, <1>11 DEF vars, pipes
<1>12. ASSUME NEW s \in Server, StopsReading(s) PROVE IInv'
  BY <1>1, <1>12 DEF StopsReading
<1>13. ASSUME NEW s \in Server, ReadsAgain(s) PROVE IInv'
  <2>1. asked' \in [Server -> SUBSET Id] /\ unread' \in [Server -> SUBSET Id]
    BY <1>13 DEF ReadsAgain, IInv
  <2>2. OutOK' /\ UNCHANGED <<call, requests>>
    BY <1>13 DEF ReadsAgain, IInv, OutOK
  <2> QED  BY <2>1, <2>2 DEF IInv
<1> QED
  BY <1>2, <1>3, <1>4, <1>5, <1>6, <1>7, <1>8, <1>9, <1>10, <1>11,
     <1>12, <1>13 DEF Next

(* AnswerIsOwn for every number of servers, callers and requests: an       *)
(* answer that comes after its caller gave up is never handed to the next. *)
(* Nothing is assumed of the ids that servers choose: what a request of    *)
(* theirs can be taken for is part of the property.                        *)
THEOREM OwnAnswers == Spec => []AnswerIsOwn
<1>1. Init => IInv
  BY InitHolds
<1>2. IInv /\ [Next]_vars => IInv'
  BY StepHolds
<1>3. IInv => AnswerIsOwn
  BY DEF IInv, CallOK, AnswerIsOwn
<1> QED  BY <1>1, <1>2, <1>3, PTL DEF Spec
=============================================================================
