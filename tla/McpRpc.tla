------------------------------- MODULE McpRpc -------------------------------
(***************************************************************************)
(* umabot/tools/mcp_registry.py: one MCPRegistry from start to stop.  The  *)
(* servers are started one after the other by the registry itself (Starter *)
(* below), which asks each to initialize and for its tools; then the loops *)
(* and agents of the worker call the tools.  One request at a time is made *)
(* of a server, under its asyncio.Lock, which is granted in order.  A      *)
(* stdio server has one stream of lines for all answers, late ones too; an *)
(* http server answers each POST by itself.                                *)
(* External: a server answers what it was asked, in any order, late or     *)
(* never, and may add notifications, requests of its own and noise; it may *)
(* stop reading what is written to it, for a while or for good.            *)
(***************************************************************************)
EXTENDS Naturals, Sequences, SequencesExt

CONSTANTS
    Server,      \* the enabled servers, in the order 1, 2, ... of start
    Http,        \* those with the http transport
    Required,    \* those without which start fails
    Caller,      \* tasks that call tools
    Starter,     \* the task that starts the registry
    ServerIds,   \* ids that servers give to requests of their own
    MaxRequests, \* bound: requests made
    MaxNoise     \* bound: lines that answer nothing, stops of reading

ASSUME McpAssumption ==
    /\ Server \subseteq Nat \ {0} /\ Http \subseteq Server
    /\ Required \subseteq Server
    /\ Starter \notin Caller
    /\ ServerIds \subseteq Nat \ {0}
    /\ MaxRequests \in Nat /\ MaxNoise \in Nat

VARIABLES
    phase,       \* of the registry
    proc,        \* the child process, or the session
    greeted,     \* servers that answered initialize
    tools,       \* servers whose tools are known
    line,        \* who holds the lock of a server (first) or waits for it
    call,        \* what a task is doing
    requests,    \* _request_id
    asked,       \* requests a server has read and not answered
    deaf,        \* stdio servers that do not read, their pipe filling up
    unread,      \* requests written to them meanwhile
    out,         \* lines of a server nobody has read
    noise        \* noise so far

pipes == <<deaf, unread>>
vars == <<phase, proc, greeted, tools, line, call, requests, asked, pipes, out, noise>>

Task == Caller \cup {Starter}
Id == 1..MaxRequests
None == 0

(* A line: the id it bears, the request it answers (None for none), and    *)
(* what it is.                                                             *)
Line == [id : Id \cup ServerIds \cup {None}, of : Id \cup {None},
         what : {"result", "error", "note", "request", "junk"}]

(* A call that has got nothing yet.                                        *)
Calling(pc, s, id) ==
    [pc |-> pc, on |-> s, id |-> id, got |-> "none", of |-> None]
Idle == Calling("idle", None, None)

TypeOK ==
    /\ phase \in {"start", "up", "failed", "stopping", "stopped"}
    /\ proc \in [Server -> {"none", "alive", "dead"}]
    /\ tools \subseteq greeted /\ greeted \subseteq Server
    /\ line \in [Server -> Seq(Task)]
    /\ call \in [Task -> [pc : {"idle", "wait", "write", "sent"},
                          on : Server \cup {None}, id : Id \cup {None},
                          got : {"none", "result", "error"},
                          of : Id \cup {None}]]
    /\ requests \in 0..MaxRequests
    /\ {asked, unread} \subseteq [Server -> SUBSET Id]
    /\ deaf \subseteq Server \ Http
    /\ out \in [Server -> Seq(Line)]
    /\ noise \in 0..MaxNoise

Init ==
    /\ phase = "start"
    /\ proc = [s \in Server |-> "none"]
    /\ greeted = {} /\ tools = {}
    /\ line = [s \in Server |-> <<>>]
    /\ call = [t \in Task |-> Idle]
    /\ requests = 0
    /\ asked = [s \in Server |-> {}]
    /\ deaf = {} /\ unread = [s \in Server |-> {}]
    /\ out = [s \in Server |-> <<>>]
    /\ noise = 0

Queues(t, s) ==
    /\ call' = [call EXCEPT ![t] = Calling("wait", s, None)]
    /\ line' = [line EXCEPT ![s] = Append(@, t)]

(* Mutation of Released: only a request that was answered gives the lock   *)
(* back.                                                                   *)
Released_OnResult(t, got) ==
    IF got = "result" THEN SelectSeq(line[call[t].on], LAMBDA u : u # t)
    ELSE line[call[t].on]

Released(t, got) == SelectSeq(line[call[t].on], LAMBDA u : u # t)

(* The end of _rpc, by a result, an exception or a cancellation.           *)
Returns(t, got, of) ==
    /\ line' = [line EXCEPT ![call[t].on] = Released(t, got)]
    /\ call' = [call EXCEPT ![t] =
           [pc |-> "idle", on |-> IF t = Starter THEN @.on ELSE None,
            id |-> IF got = "result" THEN @.id ELSE None, got |-> got, of |-> of]]

-----------------------------------------------------------------------------
(* start: the next server is spawned, or its session made, and asked.      *)
Spawns(s) ==
    /\ phase = "start" /\ call[Starter] = Idle
    /\ proc[s] = "none" /\ \A r \in Server : r < s => proc[r] # "none"
    /\ proc' = [proc EXCEPT ![s] = "alive"]
    /\ Queues(Starter, s)
    /\ UNCHANGED <<phase, greeted, tools, requests, asked, pipes, out, noise>>

StartedWith(s, got) ==
    /\ phase = "start" /\ call[Starter].pc = "idle"
    /\ call[Starter].on = s /\ call[Starter].got = got

(* initialize has been answered: tools/list is asked for.  The notice that *)
(* goes out between the two waits like the request after it, see Asks.     *)
Discovers(s) ==
    /\ StartedWith(s, "result") /\ s \notin greeted
    /\ greeted' = greeted \cup {s}
    /\ Queues(Starter, s)
    /\ UNCHANGED <<phase, proc, tools, requests, asked, pipes, out, noise>>

(* tools/list has been answered.                                           *)
Started(s) ==
    /\ StartedWith(s, "result") /\ s \in greeted
    /\ tools' = tools \cup {s}
    /\ call' = [call EXCEPT ![Starter] = Idle]
    /\ UNCHANGED <<phase, proc, greeted, line, requests, asked, pipes, out, noise>>

(* A server that could not be started is left without tools, its process   *)
(* running; without one that is required the gateway does not start.       *)
StartFails(s) ==
    /\ StartedWith(s, "error")
    /\ phase' = IF s \in Required THEN "failed" ELSE "start"
    /\ call' = [call EXCEPT ![Starter] = Idle]
    /\ UNCHANGED <<proc, greeted, tools, line, requests, asked, pipes, out, noise>>

Up ==
    /\ phase = "start" /\ call[Starter] = Idle
    /\ \A s \in Server : proc[s] # "none"
    /\ phase' = "up"
    /\ UNCHANGED <<proc, greeted, tools, line, call, requests, asked, pipes, out,
                   noise>>

(* stop: each process is terminated, then every table is cleared, the      *)
(* locks too; those who wait keep theirs.                                  *)
StopBegins ==
    /\ phase = "up"
    /\ phase' = "stopping"
    /\ UNCHANGED <<proc, greeted, tools, line, call, requests, asked, pipes, out,
                   noise>>

Terminates(s) ==
    /\ phase = "stopping" /\ proc[s] = "alive"
    /\ proc' = [proc EXCEPT ![s] = "dead"]
    /\ UNCHANGED <<phase, greeted, tools, line, call, requests, asked, pipes, out,
                   noise>>

Stopped ==
    /\ phase = "stopping" /\ \A s \in Server : proc[s] = "dead"
    /\ phase' = "stopped"
    /\ tools' = {}
    /\ UNCHANGED <<proc, greeted, line, call, requests, asked, pipes, out, noise>>

-----------------------------------------------------------------------------
(* call_tool: a tool that is known; its server is one that was started.    *)
CallTool(c, s) ==
    /\ call[c].pc = "idle" /\ s \in tools /\ phase \in {"up", "stopping"}
    /\ requests < MaxRequests
    /\ Queues(c, s)
    /\ UNCHANGED <<phase, proc, greeted, tools, requests, asked, pipes, out, noise>>

First(t) == call[t].pc = "wait" /\ Head(line[call[t].on]) = t

(* The server lives and does not read.                                     *)
Blocks(s) == s \in deaf /\ proc[s] = "alive"

(* Under the lock: a new id, and the line is written.  A process that has  *)
(* gone does not take it.  If the server does not read, it stays in the    *)
(* pipe, and the caller waits in drain() once the buffers are full.        *)
Asks(t) ==
    LET s == call[t].on
        Adds(to) == [to EXCEPT ![s] = @ \cup {requests'}]
    IN
    /\ First(t) /\ phase # "stopped" /\ requests < MaxRequests
    /\ requests' = requests + 1
    /\ asked' = IF proc[s] = "alive" /\ ~Blocks(s) THEN Adds(asked) ELSE asked
    /\ unread' = IF Blocks(s) THEN Adds(unread) ELSE unread
    /\ \E pc \in {"sent"} \cup (IF Blocks(s) THEN {"write"} ELSE {}) :
           call' = [call EXCEPT ![t] = Calling(pc, s, requests')]
    /\ UNCHANGED <<phase, proc, greeted, tools, line, deaf, out, noise>>

(* drain() has no timeout: it returns when the server reads again, and     *)
(* raises when it dies.                                                    *)
Drains(t) ==
    /\ call[t].pc = "write" /\ ~Blocks(call[t].on)
    /\ IF proc[call[t].on] = "alive"
       THEN call' = [call EXCEPT ![t].pc = "sent"] /\ UNCHANGED line
       ELSE Returns(t, "error", None)
    /\ UNCHANGED <<phase, proc, greeted, tools, requests, asked, pipes, out, noise>>

(* The pipe is broken, or the tables have been cleared meanwhile.  (Bound: *)
(* or there are no more requests.)                                         *)
AskFails(t) ==
    /\ First(t)
    /\ \/ phase = "stopped" \/ proc[call[t].on] = "dead"
       \/ requests = MaxRequests
    /\ Returns(t, "error", None)
    /\ UNCHANGED <<phase, proc, greeted, tools, requests, asked, pipes, out, noise>>

Awaits(t) == call[t].pc = "sent"
Reads(t) ==
    LET s == call[t].on IN
    /\ Awaits(t) /\ s \notin Http /\ out[s] # <<>>
    /\ out' = [out EXCEPT ![s] = Tail(@)]
    /\ UNCHANGED <<phase, proc, greeted, tools, requests, asked, pipes, noise>>

(* Mutation of Matches: the next answer is taken for its own.              *)
Matches_Any(t, m) == m.id # None

Matches(t, m) == m.id = call[t].id

(* _rpc_stdio: a line with its id is taken for the answer, whatever else   *)
(* is in it: an error raises, a line without a result returns None.        *)
TakesAnswer(t) ==
    LET m == Head(out[call[t].on]) IN
    /\ Reads(t) /\ m.what # "junk" /\ Matches(t, m)
    /\ Returns(t, IF m.what = "error" THEN "error" ELSE "result", m.of)

(* A notification, or an answer to somebody who has given up.  The process *)
(* is looked up again for the next line: a stop has taken it away.         *)
PassesOver(t) ==
    LET m == Head(out[call[t].on]) IN
    /\ Reads(t) /\ m.what # "junk" /\ ~Matches(t, m)
    /\ IF phase = "stopped" THEN Returns(t, "error", None)
       ELSE UNCHANGED <<line, call>>

(* A line that is not JSON raises; the answer is still to come.            *)
ReadsJunk(t) ==
    /\ Reads(t) /\ Head(out[call[t].on]).what = "junk"
    /\ Returns(t, "error", None)

(* _rpc_http: the answer of its own POST, plain or in a stream of events   *)
(* of which those with another id are passed over.                         *)
Posted(t) ==
    LET s == call[t].on IN
    /\ Awaits(t) /\ s \in Http /\ call[t].id \in asked[s]
    /\ asked' = [asked EXCEPT ![s] = @ \ {call[t].id}]
    /\ \E got \in {"result", "error"} :
           Returns(t, got, IF got = "result" THEN call[t].id ELSE None)
    /\ UNCHANGED <<phase, proc, greeted, tools, requests, pipes, out, noise>>

(* No line in time (the timeout starts again with each), the end of stdout *)
(* or of the session.                                                      *)
GivesUp(t) ==
    /\ Awaits(t)
    /\ call[t].on \in Http \/ out[call[t].on] = <<>>
    /\ Returns(t, "error", None)
    /\ UNCHANGED <<phase, proc, greeted, tools, requests, asked, pipes, out, noise>>

(* The task is cancelled, in the line, while it writes or with its request *)
(* made.                                                                   *)
Cancelled(c) ==
    /\ call[c].pc # "idle"
    /\ Returns(c, "error", None)
    /\ UNCHANGED <<phase, proc, greeted, tools, requests, asked, pipes, out, noise>>

-----------------------------------------------------------------------------
(* External: what a stdio server writes, and that it may die.              *)
Answers(s, id, what) ==
    /\ proc[s] = "alive" /\ s \notin Http /\ id \in asked[s]
    /\ asked' = [asked EXCEPT ![s] = @ \ {id}]
    /\ out' = [out EXCEPT ![s] = Append(@, [id |-> id, of |-> id, what |-> what])]
    /\ UNCHANGED <<phase, proc, greeted, tools, line, call, requests, pipes, noise>>

MakesNoise(s, id, what) ==
    /\ proc[s] = "alive" /\ s \notin Http /\ noise < MaxNoise
    /\ id # None <=> what = "request"
    /\ noise' = noise + 1
    /\ out' = [out EXCEPT ![s] = Append(@, [id |-> id, of |-> None, what |-> what])]
    /\ UNCHANGED <<phase, proc, greeted, tools, line, call, requests, asked, pipes>>

(* It turns to something else, or waits itself for its stderr to be read,  *)
(* which nobody does.                                                      *)
StopsReading(s) ==
    /\ proc[s] = "alive" /\ s \notin Http \cup deaf /\ noise < MaxNoise
    /\ noise' = noise + 1
    /\ deaf' = deaf \cup {s}
    /\ UNCHANGED <<phase, proc, greeted, tools, line, call, requests, asked,
                   unread, out>>

ReadsAgain(s) ==
    /\ Blocks(s)
    /\ deaf' = deaf \ {s}
    /\ asked' = [asked EXCEPT ![s] = @ \cup unread[s]]
    /\ unread' = [unread EXCEPT ![s] = {}]
    /\ UNCHANGED <<phase, proc, greeted, tools, line, call, requests, out, noise>>

Dies(s) ==
    /\ proc[s] = "alive"
    /\ proc' = [proc EXCEPT ![s] = "dead"]
    /\ UNCHANGED <<phase, greeted, tools, line, call, requests, asked, pipes, out,
                   noise>>

RpcStep(t) ==
    \/ Asks(t) \/ Drains(t) \/ AskFails(t) \/ TakesAnswer(t) \/ PassesOver(t)
    \/ ReadsJunk(t) \/ Posted(t) \/ GivesUp(t)

Next ==
    \/ \E s \in Server :
           \/ Spawns(s) \/ Discovers(s) \/ Started(s) \/ StartFails(s)
           \/ Terminates(s) \/ Dies(s) \/ StopsReading(s) \/ ReadsAgain(s)
           \/ \E c \in Caller : CallTool(c, s)
           \/ \E id \in Id, what \in {"result", "error"} : Answers(s, id, what)
           \/ \E id \in ServerIds \cup {None}, what \in {"note", "request", "junk"} :
                  MakesNoise(s, id, what)
    \/ Up \/ StopBegins \/ Stopped
    \/ \E t \in Task : RpcStep(t)
    \/ \E c \in Caller : Cancelled(c)

(* The tasks go on and time passes.  Nothing is assumed of a server.       *)
Spec ==
    /\ Init /\ [][Next]_vars
    /\ \A t \in Task : WF_vars(RpcStep(t))
    /\ WF_vars(\E s \in Server : Spawns(s) \/ Discovers(s) \/ Started(s)
                                 \/ StartFails(s))
-----------------------------------------------------------------------------
(* A result is the server's answer to the very request of the one who gets *)
(* it, never to an earlier one that timed out, was cancelled or met noise. *)
(* Only a request of the server's own can be taken for it, if it bears the *)
(* same number: the id is all that is compared.                            *)
AnswerIsOwn ==
    \A t \in Task :
        call[t].got = "result" =>
            \/ call[t].of = call[t].id
            \/ call[t].of = None /\ call[t].id \in ServerIds

(* Whoever has called a tool of a server gets something in the end, though *)
(* the server answers nothing, dies or is stopped: the lock is passed on   *)
(* whatever becomes of the one who held it.  The one condition is that the *)
(* server does not stop reading for good while it lives; if it does, those *)
(* who call it wait for ever, and the callers of the others do not.        *)
CallsReturn ==
    \A s \in Server :
        <>[]~Blocks(s) =>
            \A t \in Task :
                call[t].pc # "idle" /\ call[t].on = s ~> call[t].pc = "idle"
=============================================================================
