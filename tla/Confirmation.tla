---------------------------- MODULE Confirmation ----------------------------
(***************************************************************************)
(* Confirmation of RED tools: a worker loop that meets such a tool call    *)
(* leaves a PendingConfirmation in its PolicyEngine and prompts the admin  *)
(* (umabot/policy/engine.py, Worker._request_tool_confirmation); an        *)
(* admin's YES is matched by the MessageRouter (umabot/router.py), popped  *)
(* from the engine the router was created with and enqueued as a "confirm" *)
(* job (Gateway._on_ws_event); a loop that takes the job calls the tool    *)
(* (Worker._process_confirmation).  The engine lives in memory; reload     *)
(* replaces the worker and its engine, a restart everything but the queue. *)
(* The queue and its loops are those of JobService, which WorkerPool is    *)
(* shown to implement: a job may be taken again while somebody works on it.*)
(* Only confirm jobs are modelled; whatever the router does not pop, a NO  *)
(* among it, becomes a message job and leaves this state alone.            *)
(***************************************************************************)
EXTENDS JobService, Naturals

CONSTANTS
    Chats,        \* chats with an admin: chat_id of the request and the reply
    MaxRequests,  \* bound: tool calls that need a confirmation
    MaxTakes,     \* bound: how often a loop takes one job
    MaxReloads,   \* bound: Gateway.reload
    MaxRestarts,  \* bound: ends of the process followed by a new one
    MaxFaults     \* bound: Queue.enqueue raises or its caller is cancelled

ASSUME ConfirmationAssumption == /\ None \notin Job
                                 /\ None \notin Chats \cup {"token"}
                                 /\ "token" \notin Chats
                                 /\ MaxRequests \in Nat
                                 /\ MaxTakes \in Nat
                                 /\ MaxReloads \in Nat
                                 /\ MaxRestarts \in Nat
                                 /\ MaxFaults \in Nat

VARIABLES
    chatOf,     \* the chat a request was made for, None if not made yet
    home,       \* the engine whose _pending holds it, NoEngine if none does
    prompt,     \* what the admin sees of it: "none", "text" or "buttons"
    accepting,  \* popped from _pending, its queue.enqueue is awaited
    carries,    \* the request a confirm job carries
    takes,      \* history: how often the job was taken
    called,     \* per loop: has it called the tool of the job it took?
    calls,      \* history: how often the tool of a request was called
    yes,        \* history: the YES that popped it: a chat (plain) or "token"
    engine,     \* the PolicyEngine of the current Worker
    routerEngine, \* the PolicyEngine of the MessageRouter
    reloads,
    restarts,
    faults

requestVars == <<chatOf, home, prompt, accepting>>
historyVars == <<calls, yes>>
workVars == <<carries, takes, called>>
gatewayVars == <<engine, routerEngine, reloads, restarts, faults>>
cvars == <<svars, requestVars, historyVars, workVars, gatewayVars>>

Request == 1..MaxRequests  \* in the order of creation, as in a dict
NoRequest == 0
Engine == 1..(1 + MaxReloads + MaxRestarts)
NoEngine == 0

ConfirmationTypeOK ==
    /\ job \in [Job -> {"absent", "pending", "settled"}]
    /\ busy \in [Worker -> Job \cup {None}]
    /\ chatOf \in [Request -> Chats \cup {None}]
    /\ home \in [Request -> Engine \cup {NoEngine}]
    /\ prompt \in [Request -> {"none", "text", "buttons"}]
    /\ accepting \subseteq Request
    /\ carries \in [Job -> Request \cup {NoRequest}]
    /\ takes \in [Job -> 0..MaxTakes]
    /\ called \in [Worker -> BOOLEAN]
    /\ calls \in [Request -> Nat]
    /\ yes \in [Request -> Chats \cup {None, "token"}]
    /\ engine \in Engine
    /\ routerEngine \in Engine
    /\ reloads \in 0..MaxReloads
    /\ restarts \in 0..MaxRestarts
    /\ faults \in 0..MaxFaults

ConfirmationInit ==
    /\ ServiceInit
    /\ chatOf = [r \in Request |-> None]
    /\ home = [r \in Request |-> NoEngine]
    /\ prompt = [r \in Request |-> "none"]
    /\ accepting = {}
    /\ carries = [j \in Job |-> NoRequest]
    /\ takes = [j \in Job |-> 0]
    /\ called = [w \in Worker |-> FALSE]
    /\ calls = [r \in Request |-> 0]
    /\ yes = [r \in Request |-> None]
    /\ engine = 1
    /\ routerEngine = 1
    /\ reloads = 0
    /\ restarts = 0
    /\ faults = 0

-----------------------------------------------------------------------------
(* request_confirmation, or evaluate of a RED tool, in a loop that         *)
(* processes a message of chat c: the engine of the Worker gets an entry.  *)
RequestConfirmation(r, c) ==
    /\ chatOf[r] = None
    /\ \A q \in Request : q < r => chatOf[q] # None
    /\ chatOf' = [chatOf EXCEPT ![r] = c]
    /\ home' = [home EXCEPT ![r] = engine]
    /\ UNCHANGED <<svars, prompt, accepting, historyVars, workVars, gatewayVars>>

(* The prompt reaches the admin, with buttons that carry the token or, as  *)
(* the fallback when the connector is not there, as a text without it.     *)
(* It may also be lost, or dropped by a panel, which knows no such payload.*)
ShowPrompt(r, how) ==
    /\ chatOf[r] # None
    /\ prompt[r] = "none"
    /\ prompt' = [prompt EXCEPT ![r] = how]
    /\ UNCHANGED <<svars, chatOf, home, accepting, historyVars, workVars, gatewayVars>>

(* Mutation of Findable: the chat the YES came from is not compared.       *)
Findable_AnyChat(c) == {r \in Request : home[r] = routerEngine}

(* What a plain YES from chat c can find: entries of the router's engine.  *)
Findable(c) == {r \in Request : home[r] = routerEngine /\ chatOf[r] = c}

(* Mutation of Pop: the entry is read and left where it is.                *)
Pop_Get(r) == home' = home

Pop(r) == home' = [home EXCEPT ![r] = NoEngine]

Accept(r, how) ==
    /\ Pop(r)
    /\ accepting' = accepting \cup {r}
    /\ yes' = [yes EXCEPT ![r] = how]
    /\ UNCHANGED <<svars, chatOf, prompt, calls, workVars, gatewayVars>>

(* consume_confirmation of a plain "Y" or "YES": the most recent entry of  *)
(* the chat it came from.  With no entry it is a message like any other.   *)
PlainYes(c) ==
    \E r \in Findable(c) : /\ \A q \in Findable(c) : q <= r
                           /\ Accept(r, c)

(* consume_confirmation of "YES <token>": the entry with this token, of    *)
(* the chat it came from or of any other.  Buttons can be pressed twice    *)
(* and at any later time.                                                  *)
TokenYes(r) ==
    /\ prompt[r] = "buttons"
    /\ home[r] = routerEngine
    /\ Accept(r, "token")

(* Mutation of EnqueueConfirm: what was popped is handled as a message.    *)
EnqueueConfirm_Message(r, j) ==
    /\ r \in accepting
    /\ accepting' = accepting \ {r}
    /\ UNCHANGED <<svars, chatOf, home, prompt, historyVars, workVars, gatewayVars>>

(* _on_ws_event enqueues what the router popped.                           *)
EnqueueConfirm(r, j) ==
    /\ r \in accepting
    /\ Submit(j)
    /\ accepting' = accepting \ {r}
    /\ carries' = [carries EXCEPT ![j] = r]
    /\ UNCHANGED <<chatOf, home, prompt, historyVars, takes, called, gatewayVars>>

(* queue.enqueue raises, or reload's _stop_ws_gateway cancels the handler  *)
(* that awaits it.                                                         *)
LoseAccepted(r) ==
    /\ r \in accepting
    /\ faults < MaxFaults
    /\ faults' = faults + 1
    /\ accepting' = accepting \ {r}
    /\ UNCHANGED <<svars, chatOf, home, prompt, historyVars, workVars,
                   engine, routerEngine, reloads, restarts>>

-----------------------------------------------------------------------------
(* _process_confirmation in a loop of the pool: the tool is called at most *)
(* once (it may be missing), then the model is asked; an error after the   *)
(* call fails the job, which settles it as well.                           *)
TakeConfirm(w, j) ==
    /\ Take(w, j)
    /\ takes[j] < MaxTakes
    /\ takes' = [takes EXCEPT ![j] = @ + 1]
    /\ called' = [called EXCEPT ![w] = FALSE]
    /\ UNCHANGED <<requestVars, historyVars, carries, gatewayVars>>

CallConfirmed(w) ==
    /\ busy[w] # None
    /\ ~called[w]
    /\ called' = [called EXCEPT ![w] = TRUE]
    /\ calls' = [calls EXCEPT ![carries[busy[w]]] = @ + 1]
    /\ UNCHANGED <<svars, requestVars, yes, carries, takes, gatewayVars>>

SettleConfirm(w) ==
    /\ Settle(w)
    /\ UNCHANGED <<requestVars, historyVars, workVars, gatewayVars>>

(* A loop ends without settling its job: its queue.fail raised.            *)
LoopEnds(w) ==
    /\ busy[w] # None
    /\ Abandon({w})
    /\ UNCHANGED <<requestVars, historyVars, workVars, gatewayVars>>

(* Gateway.reload: a new Worker with a new engine; the router only gets a  *)
(* new ControlConfig.                                                      *)
Reload ==
    /\ reloads < MaxReloads
    /\ Abandon(Worker)
    /\ reloads' = reloads + 1
    /\ engine' = 1 + reloads' + restarts
    /\ UNCHANGED <<requestVars, historyVars, workVars, routerEngine, restarts, faults>>

(* The process ends, by a stop or a crash, and another one is started.     *)
Restart ==
    /\ restarts < MaxRestarts
    /\ Abandon(Worker)
    /\ restarts' = restarts + 1
    /\ engine' = 1 + reloads + restarts'
    /\ routerEngine' = engine'
    /\ home' = [r \in Request |-> NoEngine]
    /\ accepting' = {}
    /\ UNCHANGED <<chatOf, prompt, historyVars, workVars, reloads, faults>>

ConfirmationNext ==
    \/ \E r \in Request : \/ \E c \in Chats : RequestConfirmation(r, c)
                          \/ \E how \in {"text", "buttons"} : ShowPrompt(r, how)
                          \/ TokenYes(r)
                          \/ \E j \in Job : EnqueueConfirm(r, j)
                          \/ LoseAccepted(r)
    \/ \E c \in Chats : PlainYes(c)
    \/ \E w \in Worker : \/ \E j \in Job : TakeConfirm(w, j)
                         \/ CallConfirmed(w)
                         \/ SettleConfirm(w)
                         \/ LoopEnds(w)
    \/ Reload
    \/ Restart

ConfirmationSpec == ConfirmationInit /\ [][ConfirmationNext]_cvars

-----------------------------------------------------------------------------
(* A confirmation is single-use (ARCHITECTURE.md:314): an entry is in the  *)
(* engine, or on its way into the queue, or in one job, however often and  *)
(* in whatever form the admin answers, reloads and restarts included.      *)
CarriedBy(r) == {j \in Job : carries[j] = r}

SingleUse ==
    \A r \in Request :
        /\ home[r] # NoEngine => r \notin accepting /\ CarriedBy(r) = {}
        /\ r \in accepting => CarriedBy(r) = {}
        /\ \A i, j \in CarriedBy(r) : i = j

(* A RED tool is only called for a request that an admin accepted, by a    *)
(* plain YES in the chat the request came from or with its own token, and  *)
(* that no engine can hand out a second time.                              *)
CallsAreApproved ==
    \A r \in Request :
        calls[r] > 0 => /\ \/ yes[r] = chatOf[r]
                           \/ yes[r] = "token" /\ prompt[r] = "buttons"
                        /\ yes[r] # None
                        /\ home[r] = NoEngine

(* An accepted request reaches the queue or is on its way, unless the      *)
(* enqueue failed or the process ended in between: _on_ws_event pops the   *)
(* entry from memory first and writes the job afterwards.                  *)
ApprovalNotLost ==
    \A r \in Request :
        yes[r] # None =>
            \/ r \in accepting
            \/ CarriedBy(r) # {}
            \/ faults > 0
            \/ restarts > 0

=============================================================================
