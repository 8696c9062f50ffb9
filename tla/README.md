# umaBot in TLA+

umaBot is a personal assistant: connectors (Telegram, Gmail, a web panel) send
messages over websockets to a gateway, which writes jobs into a SQLite queue;
a pool of asyncio loops takes the jobs, asks a language model, calls tools and
answers. Tools of risk level RED need a confirmation from an admin.

This directory holds a model of the program's concurrent parts and of the pure
algorithms they rest on, the TLC runs that check it on small instances and
proofs for all instances. `PROJECT.json` lists
the components, runs, mutants, findings, hazards and theorems, and for every
definition the source lines it was translated from.

    tlc -config MCWorkerPool.cfg MCWorkerPool        # any run of PROJECT.json
    tlapm WorkerPool_proofs.tla                      # any *_proofs module

## 1. The system

| component | state | operations | talks to |
|---|---|---|---|
| job queue (`storage/db.py`, `storage/queue.py`) | table `queue_jobs`: status, lease, attempts, payload | enqueue, claim, complete, fail; each one transaction under one lock | gateway, scheduler, worker loops |
| worker pool (`worker.py`) | loops, `_stop`, `_chat_locks` | start, stop, loop: claim, dispatch, lock, process, settle | queue, model, tools |
| gateway (`gateway.py`, `router.py`) | worker, policy engine, router, hub | websocket event to job; reload; start and stop | all |
| confirmation (`policy/engine.py`, `router.py`) | `_pending`, in memory | evaluate, request, consume by plain YES or by token | worker writes, router reads |
| message turn (`worker.py`, `intent.py`) | session rows, `_FALLBACK`, messages of a round | intent, rules, model, gates, tool call, follow-up | LLM scheduler, policy, tools |
| scheduled tasks (`scheduler.py`, `storage/db.py`, `tasks/`) | `tasks`, `task_runs` | create, cancel, lease, enqueue, run, complete, fail | queue, worker, CLI and panel |
| LLM scheduler (`llm/scheduler.py`) | priority queue, futures, `_last_p2` | generate, consume, retry, stop | worker loops, client |
| orchestrator approvals (`worker.py`, `agents/orchestrator.py`) | table of futures by token | ask, answer, time out | queue, panel |
| dynamic orchestrator and agents (`agents/orchestrator.py`, `agents/agent.py`, `worker.py`) | loops, nodes, active workspace per asyncio task | spawn, call, cut off, reply | LLM clients, tools, approvals |
| team executor (`agents/team_executor.py`) | row of `agent_team_runs`, checkpoints, telemetry, fingerprints | run members, judge, verify, retry, finish | agents, tools, database |
| team registry (`agents/team_registry.py`, `controlpanel/routers/agent_teams.py`) | TEAM.md and RULES.md on disk, `_teams` | create, update, delete, install, select | panel and worker, two processes |
| connectors (`connectors/`) | offset, `last_uid`, websocket, circuit per chat | poll, search, forward, send | Telegram, IMAP, hub |
| websocket gateway and hub (`gateway.py`, `ws.py`) | sockets by name, handlers | register, send, unregister | connectors, panel |
| control panel (`controlpanel/`) | link status, browsers | connect, broadcast, answer | hub, browsers |
| MCP registry (`tools/mcp_registry.py`) | request ids, lock per server, stream | start, rpc, stop | tool servers |
| declarative rules (`policy/rules.py`), schedules (`tasks/schedule.py`) | none | decide, filter; next moment | message turn, tasks |
| rate limiter, model clients, tools, skills, configuration, CLI | windows, files | pure functions, file and process work | |

What is hard, and what makes each part correct:

* **Several loops, one event loop.** Everything runs in one process, but each
  `await` is a point where another loop may go on, and database calls run in
  threads that a cancelled loop no longer waits for. Messages of a chat must
  stay serial; a chat lock must never be left owned by nobody.
* **Leases without renewal.** A job is leased for 30 s and a job may take
  minutes, so it is claimed again while it is being worked on. Settling does not
  ask who holds the lease. What is still true of exclusivity and of outcomes
  is not obvious.
* **Two places of truth.** Confirmations live in memory, jobs on disk. An
  approval goes from one to the other in two steps; a reload replaces
  half of what is in memory.
* **Loops that wait for loops.** An orchestrator's approval is answered by a
  job of the pool that waits for it.
* **Several writers of a task.** CLI and panel are processes of their own and
  cancel a task while it runs.
* **Ends.** SIGTERM, reload and power failures come between any two steps; a
  database error ends a loop for good.
* **Many gates with early returns.** A tool call passes guards, rules, the
  security policy, the list of allowed tools and the risk level, in this order.
* **State of a task, not of an agent.** The active workspace is a variable of
  the asyncio task; agents of an orchestrator share one task, members of a
  parallel team do not.
* **A verdict built up over a run.** Rejected replies, failed commands, retries,
  repeated failures and verification decide what row and chat are told.
* **Cursors that move first.** The bot's offset and Gmail's `last_uid` move
  whether or not an item was handed over; sockets break without a word.
* **Streams shared by requests.** A late answer of an MCP server is in the stream
  when the next request reads it.
* **Files without locks.** The panel writes the files of a team while the worker
  reads them, one by one.
* **Clocks.** Schedules are computed on the clock on the wall, which is turned.

`hazards` in `PROJECT.json` has these one by one, at their lines.

## 2. The modules

```
JobService                         what the queue and its loops promise
   ^ implemented by (refinement)
JobQueue <- WorkerPool <- TaskRuns           tables tasks, task_runs
                       <- AgentApproval      futures that loops wait for
JobService <- Confirmation         uses the promise, not the pool
LLMScheduler                       one consumer, callers = loops
MessageTurn                        one chat; relies on ChatSerial
SpawnedAgent <- Orchestrator <- TeamRun      one message run by agents
                    TeamTools <-
ConnectorLink <- BotPoll, GmailWatch, UserEvents <- Connectors
                                    TelegramSend <-
ChannelHub <- PanelLink            hub, panel and browsers
McpRpc                             one registry of MCP servers
TeamRegistry                       files, panel and worker
PolicyRules, Schedule              pure operators
```

`A <- B` means that B extends A. The proofs are in modules of their own:

| proofs | of |
|---|---|
| WorkerPool_proofs | JobQueue, WorkerPool, the refinement of JobService |
| TaskRuns_proofs, on WorkerPool_proofs | TaskRuns, Schedule |
| AgentApproval_proofs, on WorkerPool_proofs | AgentApproval |
| Messages_proofs | MessageTurn, Confirmation |
| LLMScheduler_proofs | LLMScheduler |
| Teams_proofs | TeamRegistry, TeamRun with Orchestrator and SpawnedAgent |
| McpRpc_proofs | McpRpc |
| Links_proofs | the connectors, PanelLink with ChannelHub |

**JobQueue** is the table. One operator per method of `Database`: `EnqueueJob`,
`ClaimJob` (with `Claimable` for its WHERE clause), `CompleteJob`, `FailJob`. A
lease is kept as the ticks it has left, so the model needs no clock.

**WorkerPool** is `Worker.start`, `stop` and `_worker_loop`. `pc[w]` is where a
loop is between two awaits: `idle` (claiming), `claimed`, `lockwait` and
`running` (inside `async with lock`), `completing`, `failing`, and `off` or
`dead` for a task that has ended. `ahead[w]` is the loops before `w` in the FIFO
of an asyncio.Lock. A Queue call may raise (`ClaimRaises`, `CompleteRaises`,
`FailRaises`); a cancelled loop's call may take effect all the same
(`OrphanedCall`); `stop` cancels loops in order and raises at a dead one
(`StopRaises`, gateway `aborting`). `Crash` is the end of the process at any
point. `term` is a history variable: what is left of the lease of *this* loop's
claim, as opposed to the row's lease, which a later claim renews.

**JobService** is the abstract specification: a submitted job is pending until
a worker that took it settles it; workers may lose a job; a settled job is never
taken. No lease, lock or loop is left. The mapping is `job <- jobView` (queued
and leased are both pending), `busy <- holds`.

**TaskRuns** extends the pool: for a job of kind `task_run` the phase `running` is
refined by `stage` into the steps of `_process_task_run` (look at the task, record the
run, work, close the row and the task, report). The row is opened before the `try` that
closes it, and what stands in between may raise (`PreparationRaises`). A task has a next
moment or none (`Never`), from its creation on: the panel writes what it is given. Task
and job leases run down together. Slots of a calendar stand for times:
`compute_next_run_at` gives a later slot, which is what **Schedule** is about.

**Schedule** has the arithmetic of `compute_next_run_at` and of the initial
moment: a moment is an integer, a zone a clock that is turned once, and the
comparison with the present is made on the wall, as the code's aware datetimes
of one tzinfo do. `IsSlot` is the reference definition.

**Confirmation** is one request's life: in an engine (`home`), popped and not yet
in the queue (`accepting`), in a job (`carries`), called (`calls`). It is built on
JobService, because all it needs of the pool is that a job may be taken
more than once. `engine` and `routerEngine` are two variables because they are
two references in the code.

**MessageTurn** follows the messages of one chat through `_on_ws_event` and
`_process_message`. Each `return` of the handler is an `EndWith` (the admin is told
something) or an `EndSilently` with its reason. Exceptions that no `try` of the
handler catches are `TurnRaises`, before the intent, and `JobRaises`, at any later
point; they fail the job, and the admin is told nothing. Turns are sequential, which is
ChatSerial of WorkerPool; `Confirm` takes no lock and falls anywhere. The rules
are the constant `Rule`, so the proofs hold for any set of rules.

**PolicyRules** is where `Rule` comes from: normalisation (a list that names
only unknown values becomes empty and so matches all), order (priority, then
place), matching, `decide_tool`, `filter_tools`, intent overrides. The loop of
the code is the reference for `DecideTool`.

**LLMScheduler** is the priority queue and its consumer. Entries of one
priority are a sequence, since sequence numbers only grow. The consumer takes an
entry, perhaps sleeps the P2 gap with it in its hand, tries three times.

**AgentApproval** extends the pool with `request_approval`. Its kinds of jobs are
messages, which ask; `confirm`, standing for all other work that holds a loop without
a chat lock; and the answers. A tick is one lease;
what a loop does between two waits takes no time next to that, so a tick only
passes when every loop waits. This is what makes "in time" meaningful.

**SpawnedAgent** is `AgentRunner.run` with the guard of its tools and
`ToolRuns`; `active[task]` is the workspace that the guard reads and `agent[a].home`
the one its agent was given, `last` and `lastIn` what it last called and where.
**Orchestrator** adds `DynamicOrchestrator.run`: calls that spawn agents in its
own asyncio task, the limit, the reply. **TeamTools** says which tools a team
gets. **TeamRun** is `TeamExecutor.execute` and the part of the worker that starts
it: chain, parallel and orchestrated teams and runs without a team, with
checkpoints, completion policy (`Accepts`, `Rejection`), verification,
fingerprints of failures, retries, the row and what the chat is told.

**ConnectorLink** has what connectors share: items a service numbers, the
websocket, breaks and restarts, and the history `got` and `lost`. **BotPoll**,
**GmailWatch** and **UserEvents** are the three intakes (Gmail's `skipped` is the mail
that the first snapshot passed over, `late` what a later one did), **TelegramSend** the
sending half with its CircuitBreaker. **Connectors** puts them side by side: they
are processes that share nothing, so a behaviour is one of them (`which`).

**ChannelHub** is `ws.py` with the handlers of `gateway.py`: a socket registers
with hello, serves events, is unregistered at the end, or is left in the hub
when an event raises or a reload cancels the handler (`leaked`). **PanelLink** adds
the panel's websocket client and the browsers it tells of the link.

**McpRpc** is one registry from start to stop: servers started in turn, calls
under the lock of their server, ids, timeouts, the stream of a stdio server with
late answers, notifications and requests of its own, HTTP servers without one. A
stdio server may stop reading (`deaf`); what is written to it then stays in the pipe
(`unread`), and a caller may be held in `drain()` (`write`), with the lock.

**TeamRegistry** has the files of teams as versions, written by panel handlers
one file at a time and read by the worker one file at a time, for a selection or for
the refresh at the head of a turn (`RefreshEnds`); a file may go between the test for
it and its reading (`FileVanishes`). An id is not a directory: an installed TEAM.md
bears what id it likes, and several directories may bear one. `reported` is what the
panel last said of an id, `trust` the ids of which something was said when a selection
began and no request has begun to change since.

Modules whose name begins with MC give constants; definitions whose name is
that of an operator with a suffix (`Claimable_Failed`) are mutations: the
operator with a plausible mistake, used to see that a property can fail. The
`*TypeOK` operators document the types of each module's variables and are part
of the inductive invariants.

## 3. What the runs check

| run | bounds | what it shows |
|---|---|---|
| `workerpool` | 2 loops, 2 jobs, kinds message and confirm, 2 chats, lease 1, 1 restart, 1 error; 1 M states | ChatSerial, LeaseExclusive, NoOrphanedLock, SingleClaimKeepsOutcome, the refinement of JobService, JobsSettle |
| `taskruns` | 1 one-time task, 2 jobs, 2 runs, 2 loops, 1 restart, 1 error; 7.6 M states | OrphanRunsAreOnRecord, NoSingleRunSticks, QuietCancelIsFinal |
| `taskruns_live` | 1 periodic task, 1 loop, 2 slots; 240 k states | DueTaskRuns |
| `confirmation` | 2 requests, 2 chats, 2 jobs, 2 loops, 2 takes, a reload, a restart, a lost enqueue | SingleUse, CallsAreApproved, ApprovalNotLost |
| `llm_scheduler` | 3 callers, gap 2, 3 attempts; 76 k states | OvertakenAtMostOnce, NobodyStranded, CallsAnswered |
| `message_turn` | 2 messages, 2 calls per answer, 8 tools; 82 k states | RedRunsOnlyOnYes, GmailNeverFetches, AnsweredOnce, GmailDroppedOnlyByRule, FollowUpComplete |
| `agent_approval` | 2 loops, 2 jobs, 2 chats, 2 requests, 3 kinds, lease 1, timeout 2, 1 error; 420 k states | ApprovedOnlyOnYes, MissedOnlyWhenNoLoopIsFree, RequestsEnd |
| `agent_runs` | 2 agents, 2 workspaces, a RED tool and a shell command, all team types, 2 retries, 5 replies; 1.9 M states | RedOnlyAtHome, ChainInOrder, EndingsAgree, CompletedIsEarned, RunEnds |
| `connectors` | 4 items, 3 breaks, threshold 2, cooldown 2, 3 chunks; 480 k states | Accounted, RepeatsBounded, CatchUp, BreakerRecovers, OpenIsQuiet |
| `channel` | 2 connectors, 3 sockets, 2 faults, 1 browser; 470 k states | Settles, BrowserKnows |
| `mcp` | 2 servers (one HTTP and required), 2 callers, 6 requests, a request of the server's own with the id 5, 1 noise or stop of reading; 185 k states | AnswerIsOwn, CallsReturn |
| `teams` | 2 team ids, 1 shared directory, 2 writes; 520 k states | ReportedIsTaken, TeamsAreKept |

Why the bounds are enough to be interesting. Two loops and two jobs give every
pair of jobs (same chat or not, one kind with the lock and one without) and the
case of one job claimed by both; a restart lets a job survive a crash; one
error is enough to lose a loop, and with two loops the other has to go on. Two
requests in two chats are the least with a "most recent" one. Three callers are the
least in which one overtakes another while a third is in the consumer's hand.
Two agents are the least for an order in a chain, for two tasks of a parallel
team and for a workspace that is changed and changed back; a RED tool eligible in
one workspace only tells whose workspace the guard asks; two retries are the
least in which a failure can be seen again. An agent has one request with tools
before its last one; a longer loop repeats that step, and the proofs are for any
length. Four items with a button and an item without text give the bot a batch
of more than one and a restart in between. Three sockets let an old one, a new
one and one of another connector be in the hub. Six requests are what two
starts and two calls take, with a timed-out one before the next. Two writes are
a team that is read while it is replaced, or one id in two directories; a run with
three passed as well. Where a number is 1, larger ones were
only left out for size. The bounds matter for the liveness properties; every
safety and action property of the table is proved for all values (section 4).

One case is beyond the bounds of its run. MissedOnlyWhenNoLoopIsFree has the
clause `Stranded`: the loop that took the answer's row is cancelled, or ends of an
error, and leaves the row leased while another loop is idle. It takes three loops,
the one that asks, the one that ends and the idle one, and the run has two. The
clause was found missing when the proof for any number of loops failed; a run with
three loops then showed the behaviour.

`MaxJobs`, `MaxRuns`, `MaxRequests`, `MaxAsks`, `MaxMessages`, `MaxCalls`, `MaxTakes`,
`MaxReloads`, `MaxRestarts`, `MaxDbFaults`, `MaxFaults`, `MaxNow`, `MaxItems`,
`MaxBreaks`, `MaxChunks`, `MaxSockets`, `MaxNoise`, `MaxWrites` and `OvertakenCap`
are bounds of the model; none is in the code. DueTaskRuns has the
disjunct `Exhausted` because a task cannot be run when the model has no job id
or row left.

Runs with CHECK_DEADLOCK FALSE are those whose system may come to rest: the
process may be stopped for good, the queue may be empty for good and the bounds
are used up in the end. That nobody is stuck before is what the liveness
properties are for. `agent_runs` and `teams` check for deadlock.

Symmetry is used in `confirmation` (chats, jobs, loops), where all properties
are safety properties and the constants are only compared.

Assumptions that TLC evaluates before a run check pure operators against their
reference definition on small inputs: in MCTeamRun `DecideToolIsTheScan` (all
triples of small rules) and `TheRulesSaySo`; in MCTaskRuns `NextIsFirstSlot` (the
result is the first slot after the present) and `NextIsLaterButThere` (it is
later in every zone, but for weekly schedules in the hour that is shown
twice, and there it fails), over every moment of a week.

`findings` in `PROJECT.json` quotes the lines where the code does something
else than a doc, comment or test of the repository says, or than it plainly
means to; they came up while translating, and each says which operator of the
model has the behaviour.

### Fairness

Weak fairness only. Of the event loop: a task that can go on does so
(`WorkerStep`, `LoopStep`, `HandlerStep`, `Consume`, `Resume`, `RpcStep`, `PanelStep`,
`PageStep`, the steps of each connector). Of `stop`: once begun it goes through
the loops. Of time: it passes, and TCP notices in the end that a peer is gone.
Of processing: a job returns or raises, as model requests have a total timeout
and tool handlers are taken to end; `Work` of a team run is fair for the same
reason. Nobody has to send, answer, cancel, stop, crash, restart or raise.
JobsSettle and DueTaskRuns are conditional on the pool running from some
time on with a live loop, since nothing obliges anyone to start it again and
nothing revives a dead loop. CallsAnswered is, for each priority, conditional on
calls of higher priority ceasing: the queue really starves lower ones.
BreakerRecovers is conditional on Telegram being well again, and takes it that
texts keep being sent, as the breaker is only looked at by a send. Settles is
conditional on a connector staying on one socket, and on no leaked handler.
CallsReturn is, for each MCP server, conditional on it not ceasing to read for good
while it lives; nothing obliges it to read again (ReadsAgain has no fairness), and
nothing in the code would end the wait.

## 4. What is proved

TLAPS checks the following for all values of the constants that satisfy the
modules' assumptions (numbers are natural, lease and loops positive, lock kinds
are kinds, and so on).

**WorkerPool_proofs.** `ChatSerial` alone is not inductive: that two loops are
not inside one lock depends on the order in which they queued. IInv adds
HoldsInPhase (a loop has a job exactly in the phases that work on one),
HeldWasClaimed (a row that is held is leased or settled, and `term` of a holder
is at most the row's lease), HoldersCounted (`attempts` counts all holders, plus
the loop that settled the row) and LockQueued (of two loops in a lock one is in
the other's `ahead`). LeaseExclusive then follows from ClaimFindsExpired: a row
is only claimed away from loops whose `term` is 0, as `term <= lease = 0`.
SingleClaimKeepsOutcome follows from HoldersCounted in the state before the
step. PoolImplementsService maps each action to a step of JobService or to a
stutter. Theorems: TypeCorrect, ChatsAreSerial, LeasesAreExclusive, LocksAreOwned,
OutcomesAreKept, PoolImplementsService.

**TaskRuns_proofs** builds on it: TInv holds IInv itself, so the pool's guarantees carry
over to a pool that runs tasks, although the clock, enqueues that raise and handlers
that raise are new steps (AgeKeeps, ErrorsKeep). Steps of the pool are summed up once,
in PoolMoves: each loop either keeps its stage, its row and its job or leaves the
handler; and a job in its first claim is settled by its one holder only, or let go by a
stop, a crash or an error (FirstClaim). Own says that
a loop at work has an open row of its task and no other loop has it; Spent that a task
without a next moment has had a run that ended, if it was ever leased. A second run that
fails must then have another row, which is NoSingleRunSticks. Orphans relates an open
row that no loop has to its job (each row keeps the job that opened it): the job was
claimed again, has failed, or is still leased, and then it is about to fail, or a stop,
a crash or an error came. That a job done after one claim leaves no row open is what an
operator can rely on, as the table alone tells nothing. Theorems: TasksHold,
LeasesHoldForTasks, OrphansAreOnRecord, OneRunNeverSticks, CancelIsFinal.

**LLMScheduler_proofs.** OvertakenAtMostOnce needs to know why there is no
second time: who was overtaken is in the queue before everything that may be
held back for the gap (Ahead), so the consumer cannot take such an entry before
it. Filed (an entry stands in the queue of its priority, one for each call) and
InHand make entries and futures correspond. Theorems: Invariance,
OvertakingIsBounded, CallsAreKept.

**AgentApproval_proofs.** A pool whose loops wait for answers is still a pool
(ApprovalsUseThePool: ApprovalSpec => Spec of WorkerPool). Each step that asks, answers
or times out is a stutter of the pool; a tick that ages no lease is one, as a loop
without a job has `term` 0 (NoTerm). ChatSerial, LeaseExclusive, NoOrphanedLock and the
refinement of JobService carry over (ThePoolIsKept). AskInv adds that the rows of type
`agent_approve`, and no others, carry answers (Addressed), that a loop waits for at most
one request, in the middle of a message (Asking), and that a future is resolved to a yes
by an answer to it (Granted). That an answer is missed only when no loop is free is
proved at the timeout: it comes when no loop has anything left to do, so that a loop
which neither holds a message nor has ended is idle and finds nothing to claim. Two
requests of one chat are never open together, by ChatSerial. Theorems:
ApprovalsUseThePool, ThePoolIsKept, ApprovalsHold, YesIsForTheRequest,
RequestsOfAChatAreSerial, AnswersAreMissedForCause.

**Messages_proofs** has the turn and the confirmation. TInv adds to the
properties of a turn that one which has not ended told nothing, that
`left + results = asked` within a round, and that no confirmation pending would
fetch mail for a Gmail message, which is why the guards must stand before the
rules. There is one lemma per action, and one (EndKeeps) for all ways to end a
turn. CInv says where a request is: nothing is known of it before it is made, what
left the engine was approved and what is in it was not, jobs carry a request from
their submission on. Theorems: TurnsHold, TurnTypes, RedNeedsYes, GmailIsNotFetched,
TurnsAreAnswered, GmailIsNotDropped, FollowUpsAreComplete; ConfirmationsHold,
ConfirmationTypes, ConfirmationsAreSingleUse, CallsNeedApproval, ApprovalsAreKept.

**Teams_proofs** begins with the registry. RegistryInv relates disk, report,
request and selection: what is reported of an id is what every directory that bears it
holds, and nothing is reported of the id a request is changing (Promised); a request
has done its work in the files that are not left to do, and a directory that is gone
holds nothing (Worked); a selection has read each directory of an id it may trust as
it is (ReadSoFar). ReportedIsTaken follows although panel and worker go file by file
and in any order: a request that begins takes the report back, and with it the trust,
and an answer promises nothing of an id that a second directory bears.
Of a run there are two invariants. AgentInv: who is at work is where the run
has placed it (Alone: the next member of a chain, each member of a parallel team
in a task of its own, the agent the orchestrator waits for), and the workspace
of its task is its own (AtHome). RedOnlyAtHome follows, for any number of agents
and any way they take turns. ControlInv, on top of it: members before the next
are done (Chained), what is known of a reply on its way to the verdict (Judged),
what the row says when the chat is told (Rows). Theorems: RegistryHolds,
ReportsAreTaken, InstalledTeamsAreKept; AgentsHold, RedAtHome, ControlHolds,
ChainsInOrder, EndsAgree, CompletionEarned.

**Links_proofs** has the two ends of the websockets. PanelInv: a browser that is told of
changes was subscribed before it was told the status, and a broadcast says what the flag
says (Told). SendInv is a budget: the calls made since the breaker opened and those the
job at hand may still make add up to what the chunks after the one that opened it come
to (Quiet); it gives the bound of OpenIsQuiet for any number of chunks and any cooldown.
IntakeInv is the cursor's part. Each connector has a cursor, what no later poll or
search will bring again (`Cursor` of the bot, `Reached` of Gmail, `posted` of the user's
events), and two facts about it. What is behind the cursor is accounted for: read, on
the wire, lost with a socket, there at the first snapshot, or still in hand; a later
snapshot passes mail over only if the first found nothing and a fault came
(SnapshotShape). And how often an item was read or will be is paid for: once by the
cursor having passed it, and once by each fault that took the cursor back, a restart for
the bot and a break for Gmail. The second counts the places of an item on the wire, for
which OccursAppend and OccursTail are the lemmas. Theorems: BrowsersKnow,
OpenBreakerIsQuiet, ItemsAreAccounted, RepeatsAreBounded.

**McpRpc_proofs.** Every line in a stream bears the id of the request it answers,
or it answers none and bears no id or one the server has for requests of its own
(OutOK), which is what makes AnswerIsOwn hold in spite of late answers. Nothing is
assumed of the server's ids: where one is equal to that of a waiting call, the call
ends with None, and AnswerIsOwn says that this is all that can happen. Theorem:
OwnAnswers.

**NextIsLater**, at the end of TaskRuns_proofs: the next moment of a periodic schedule
is after the present, for every zone whose clock, when it is put back, still shows an
hour and a day that end no earlier than the time it left (StaysInHour), every slot and
every moment that is not Unsafe; Unsafe are the moments of the hour that is shown twice
for a weekly schedule, where the result may be in the past.

TLC checked each of these inductive invariants on the small instances before it
was proved.

Only model-checked, as out of the prover's reach: liveness under
fairness (JobsSettle, DueTaskRuns, CallsAnswered, RequestsEnd, RunEnds, CatchUp,
BreakerRecovers, Settles, CallsReturn), and what the loop of
`decide_tool` computes for rules of any number (induction over data).

## 5. What is left out, and the plan

Not modelled, with the reason, in `components`. In particular:

* the text of messages and prompts, the model's behaviour (any answer), the
  insides of tools, skills, configuration, the CLI's set-up dialogues, the
  panel's user interface: pure I/O or sequential programs without shared state;
* `llm/rate_limiter.py`: off by default; to LLMScheduler its wait is part of a
  call. That its lock is released in the sleep, and its error for a request above
  the limit, are in `hazards` and `findings`;
* `connectors/telegram_resilience.py`, TelegramRateLimiter: the pace of sends.

Inside what is modelled: sessions hold nothing but how often a message was stored; a
team or orchestrator run is one step of MessageTurn, and TeamRun has its inside; a
task's tool calls are one outcome of a run; the gateway's tasks other than the scheduler
and the loops are not cancelled one by one; MessageTurn takes the policy's default
strictness, `normal`; TeamRun leaves out budgets, attachments and database errors;
lease_due_tasks leases all that is due (LIMIT 20, db.py:547, matters with more tasks
than that); TeamRegistry takes scores of routes as values, has no configured `team_dirs`
behind the install directory (team_registry.py:1083-1086), and takes RULES.md for
whatever file the frontmatter names (team_registry.py:623-631), so that TeamsAreKept
speaks of teams whose files lie in their own directory. Of a job that raises before it
has its chat lock WorkerPool knows nothing: the payloads that do so are none the gateway
writes. A call that outlives its cancelled loop (`OrphanedCall`) is one short
transaction and is taken to be over with the cancel.

What would add most from here:

1. AgentApproval and TaskRuns in one pool with message turns whose phases are
   those of TeamRun, to see approvals, leases and runs meet.
2. An abstract specification of a run (a row that opens and ends once, with one
   reply) and TeamRun shown to implement it.
3. The token bucket, with its waiters and the window, when it is used.
