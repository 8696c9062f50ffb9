------------------------------ MODULE TeamRun ------------------------------
(***************************************************************************)
(* umabot/agents/team_executor.py and the part of umabot/worker.py that    *)
(* starts it: one message, run by a team or by the dynamic orchestrator.   *)
(* A chain runs its members one after the other in the task of the worker  *)
(* loop, a parallel team in a task for each; the other teams orchestrate,  *)
(* and do so again, with the same agent numbers, while the completion      *)
(* policy rejects the reply.  The worker loop may be cancelled at any      *)
(* await.  Errors of the database, budgets and attachments are left out.   *)
(***************************************************************************)
EXTENDS Orchestrator, TeamTools, FiniteSets

CONSTANTS
    Teams,           \* definitions, as _prepare_team_for_runtime reads them
    Fallback,        \* whether a run without a team may be made: fallback_to_dynamic
    MaxRetries,      \* and the other fields of the retry policy
    FailOnDefer,
    RequireBlockers,
    EnforceShell,
    Verified,        \* members of a chain with a verification_command
    TeamVerifies,    \* the team has one
    Category,        \* of failures: _classify_failure_text
    FailureOf,       \* the category of a failed shell command's output
    Detail           \* what the exit codes and the order of failures may be

VARIABLES
    run,        \* the control state of execute
    row,        \* agent_team_runs.status
    checkpoints,
    seen,       \* _run_failure_fingerprints
    told        \* what the chat was told at the end

teamVars == <<run, row, checkpoints, seen, told>>
vars == <<mode, agentVars, orchVars, teamVars>>

Structured == {"chain", "parallel"}
Orchestrated == {"orchestrator_worker", "hybrid"}
TeamTypes == Structured \cup Orchestrated
VerifyCommand == "verification_command"
Command == Shell \cup {VerifyCommand}

(* A reply: the status of its team_result block ("none" without a block,   *)
(* an absent one is "completed"), whether the lists that this status       *)
(* calls for are there, the failed commands and what the blockers are.     *)
ReplyKind == [status : {"empty", "none", "completed", "blocked", "odd"},
              full : BOOLEAN, failed : SUBSET Command,
              about : SUBSET Category]

ASSUME TeamAssumption ==
    /\ \A team \in Teams : team.kind \in TeamTypes
    /\ Fallback \subseteq BOOLEAN
    /\ MaxRetries \in Nat
    /\ {FailOnDefer, RequireBlockers, EnforceShell, TeamVerifies}
           \subseteq BOOLEAN
    /\ Verified \subseteq Agent
    /\ {"unknown", "test_failure"} \subseteq Category
    /\ FailureOf \in [Shell -> Category]
    /\ Reply \subseteq ReplyKind
    /\ {r \in Reply : r.status = "empty"} = {Empty}

Steps == {"idle", "started", "work", "check", "judge", "verify", "again",
          "finish", "tell", "ended", "cancelled"}
NoRun == [kind |-> "none", pc |-> "idle", attempt |-> 0, next |-> 1,
          able |-> TRUE, verdict |-> "failed", error |-> FALSE]

ContractError == [status |-> "completed", full |-> TRUE, failed |-> {},
                  about |-> {}]
BlockedReply(commands, about) ==
    [status |-> "blocked", full |-> TRUE, failed |-> commands,
     about |-> about]

TeamTypeOK ==
    /\ AgentTypeOK /\ OrchTypeOK
    /\ reply \in ReplyKind \cup {NoReply}
    /\ run \in [kind : TeamTypes \cup {"dynamic", "none"}, pc : Steps,
                attempt : 0..MaxRetries, next : Nat \ {0}, able : BOOLEAN,
                verdict : {"completed", "failed"}, error : BOOLEAN]
    /\ row \in {"none", "running", "completed", "failed"}
    /\ checkpoints \subseteq {"agent", "chain", "parallel"} \X Agent
    /\ \A f \in seen : f.ran \subseteq Shell /\ f.reported \subseteq Command
    /\ told \in {"", "reply", "error", "nothing"}

Init ==
    /\ AgentInit /\ OrchInit
    /\ run = NoRun
    /\ row = "none"
    /\ checkpoints = {}
    /\ seen = {}
    /\ told = ""

GoTo(pc) == run' = [run EXCEPT !.pc = pc]
NoTelemetry == [c \in Shell |-> "none"]

(* create_agent_team_run, complete_agent_team_run                          *)
RowBegins == row' = "running"
RowEnds(status) == row' = status

(* _record_agent_checkpoint: at every node that is now shown "completed"   *)
(* (once more for one that was), except in a run without a team.           *)
Checkpoint ==
    checkpoints' = checkpoints \cup
        {<<"agent", a>> : a \in {b \in Agent :
             /\ run.kind # "dynamic"
             /\ node[b] # "completed" /\ node'[b] = "completed"}}

-----------------------------------------------------------------------------
(* _process_message and _run_with_orchestrator: no team, and a fallback.   *)
StartDynamic ==
    /\ run.pc = "idle" /\ TRUE \in Fallback
    /\ run' = [run EXCEPT !.kind = "dynamic", !.pc = "work"]
    /\ RowBegins
    /\ Orchestrate
    /\ UNCHANGED <<mode, reply, node, active, telemetry, checkpoints, seen,
                   told>>

(* No team, and no fallback to the dynamic orchestrator.                   *)
NoTeam ==
    /\ run.pc = "idle" /\ FALSE \in Fallback
    /\ GoTo("ended")
    /\ told' = "error"
    /\ UNCHANGED <<mode, orchVars, agentVars, row, checkpoints, seen>>

(* The team that was selected, with the tools the run may use; whether it  *)
(* is able to work is settled here, and the row is created.                *)
StartTeam(team) ==
    /\ run.pc = "idle"
    /\ run' = [run EXCEPT !.kind = team.kind, !.pc = "started",
                          !.able = Able(team, Allowed)]
    /\ RowBegins
    /\ UNCHANGED <<mode, orchVars, agentVars, checkpoints, seen, told>>

(* _capability_preflight_error                                             *)
PreflightReply == BlockedReply({}, {"unknown"})

(* execute: a team that is not able to work is told so at once.            *)
PreflightFails ==
    /\ run.pc = "started" /\ ~run.able
    /\ reply' = PreflightReply
    /\ RowEnds("failed")
    /\ GoTo("tell")
    /\ UNCHANGED <<mode, orch, agentVars, checkpoints, seen, told>>

BeginWork ==
    /\ run.pc = "started" /\ run.able
    /\ GoTo("work")
    /\ telemetry' = NoTelemetry
    /\ seen' = {}
    /\ IF run.kind \in Orchestrated THEN Orchestrate
       ELSE UNCHANGED <<orch, agent>>
    /\ UNCHANGED <<mode, reply, node, active, row, checkpoints, told>>

(* A step of the orchestrator or of one of its agents.                     *)
OrchestratorWorks ==
    /\ run.pc = "work" /\ run.kind \notin Structured
    /\ OrchStep
    /\ Checkpoint
    /\ UNCHANGED <<run, row, seen, told>>

(* Its end.  Without a team a reply completes the row and an exception     *)
(* leaves it as it is; in a team the reply is judged.                      *)
OrchestratorEnds ==
    /\ run.pc = "work" /\ run.kind \notin Structured
    /\ orch.pc \in OrchEnded
    /\ run' = [run EXCEPT
                  !.error = orch.pc = "raised",
                  !.pc = IF run.kind = "dynamic" THEN "tell"
                         ELSE IF orch.pc = "raised" THEN "finish"
                              ELSE "judge"]
    /\ IF run.kind = "dynamic" /\ orch.pc = "replied"
       THEN RowEnds("completed") ELSE UNCHANGED row
    /\ UNCHANGED <<mode, orchVars, agentVars, checkpoints, seen, told>>

-----------------------------------------------------------------------------
(* _run_member: in a chain the next one, in the task of the worker loop;   *)
(* in a parallel team any of them, in the task that gather made for it.    *)
StartMember(a, ws) ==
    /\ run.pc = "work" /\ run.kind \in Structured
    /\ agent[a].pc = "none"
    /\ run.kind = "chain" => a = run.next
    /\ StartAgent(a, IF run.kind = "chain" THEN Main ELSE a, ws)
    /\ UNCHANGED <<mode, orchVars, telemetry, teamVars>>

MemberWorks(a) ==
    /\ run.pc = "work" /\ run.kind \in Structured
    /\ AgentStep(a)
    /\ Checkpoint
    /\ UNCHANGED <<orchVars, run, row, seen, told>>

ChainAt(a) ==
    /\ run.pc = "work" /\ run.kind = "chain" /\ a = run.next
    /\ agent[a].pc \in Returned

(* Mutation of Failed: a member that raised is taken for one that is done. *)
Failed_Never(a) == FALSE

(* _run_member turns an exception of its agent into result.failed.         *)
Failed(a) == agent[a].pc = "raised"

(* ChainMemberFailedError ends the run.                                    *)
ChainBreaks(a) ==
    /\ \/ ChainAt(a) /\ Failed(a)
       \/ run.pc = "check" /\ a = run.next
    /\ run' = [run EXCEPT !.pc = "finish", !.error = TRUE]
    /\ UNCHANGED <<mode, orchVars, agentVars, row, checkpoints, seen, told>>

CheckMember(a) ==
    /\ ChainAt(a) /\ ~Failed(a) /\ a \in Verified
    /\ GoTo("check")
    /\ UNCHANGED <<mode, orchVars, agentVars, row, checkpoints, seen, told>>

(* The member is done; what the last one said is the reply.                *)
ChainGoesOn(a) ==
    /\ \/ ChainAt(a) /\ ~Failed(a) /\ a \notin Verified
       \/ run.pc = "check" /\ a = run.next
    /\ checkpoints' = checkpoints \cup {<<"chain", a>>}
    /\ IF a + 1 \in Agent
       THEN /\ run' = [run EXCEPT !.pc = "work", !.next = a + 1]
            /\ UNCHANGED reply
       ELSE GoTo("judge") /\ reply' \in Reply
    /\ UNCHANGED <<mode, orch, agentVars, row, seen, told>>

(* gather: all have returned; a member that failed is "completed" too.     *)
AllReturn ==
    /\ run.pc = "work" /\ run.kind = "parallel"
    /\ \A a \in Agent : agent[a].pc \in Returned
    /\ checkpoints' = checkpoints \cup {<<"parallel", a>> : a \in Agent}
    /\ reply' \in Reply \ {Empty}
    /\ GoTo("judge")
    /\ UNCHANGED <<mode, orch, agentVars, row, seen, told>>

-----------------------------------------------------------------------------
Unresolved == {c \in Shell : telemetry[c] = "bad"}
Unread(kind) ==
    /\ ~EnforceShell
    /\ kind \in Structured \/ {FailOnDefer, RequireBlockers} = {FALSE}

(* Mutation of Accepts: commands that failed in the block are not seen.    *)
Accepts_AnyBlock(r) ==
    /\ r.status # "empty"
    /\ \/ Unread(run.kind)
       \/ /\ r.status = "none" => ~FailOnDefer /\ ~RequireBlockers
          /\ r.status \notin {"odd", "blocked"}
          /\ RequireBlockers => r.full
          /\ EnforceShell => Unresolved = {}

(* _apply_completion_policy: whether the run is completed, ...             *)
Accepts(r) ==
    /\ r.status # "empty"
    /\ \/ Unread(run.kind)
       \/ /\ r.status = "none" => ~FailOnDefer /\ ~RequireBlockers
          /\ r.status \notin {"odd", "blocked"}
          /\ RequireBlockers => r.full
          /\ r.failed = {}
          /\ EnforceShell => Unresolved = {}

(* ... and what is said in place of a reply that it rejects.               *)
Rejection(r) ==
    CASE r.status = "blocked" /\ (RequireBlockers => r.full /\ r.failed # {})
           -> r
      [] r.status = "completed" /\ (RequireBlockers => r.full) /\ r.failed # {}
           -> BlockedReply(r.failed, {"test_failure"})
      [] r.status \in {"none", "completed"} /\ r.failed = {}
         /\ Unresolved # {}
         /\ (r.status = "none" => ~FailOnDefer /\ ~RequireBlockers)
         /\ (RequireBlockers => r.full)
           -> BlockedReply(Unresolved, {"unknown"})
      [] OTHER -> ContractError

Judge ==
    /\ run.pc = "judge"
    /\ IF Accepts(reply)
       THEN /\ run' = [run EXCEPT !.verdict = "completed",
                           !.pc = IF TeamVerifies THEN "verify" ELSE "finish"]
            /\ UNCHANGED reply
       ELSE run' = [run EXCEPT !.pc = "again"] /\ reply' = Rejection(reply)
    /\ UNCHANGED <<mode, orch, agentVars, row, checkpoints, seen, told>>

(* _run_verification_command of the team; an end in time is not needed.    *)
VerifyTeam(ok) ==
    /\ run.pc = "verify"
    /\ IF ok THEN GoTo("finish") /\ UNCHANGED reply
       ELSE /\ run' = [run EXCEPT !.verdict = "failed", !.pc = "again"]
            /\ reply' = BlockedReply({VerifyCommand}, {"test_failure"})
    /\ UNCHANGED <<mode, orch, agentVars, row, checkpoints, seen, told>>

(* _classify_failure_text, for the blockers and the output of commands.    *)
Categories ==
    LET kinds == reply.about \cup {FailureOf[c] : c \in Unresolved}
    IN  IF kinds = {} THEN {"unknown"} ELSE kinds

(* _build_failure_snapshot and _failure_fingerprint.  Exit codes and the   *)
(* order of the commands belong to it.                                     *)
Fingerprints ==
    {[ran |-> Unresolved, reported |-> reply.failed, about |-> Categories,
      detail |-> d] :
        d \in IF Unresolved = {} THEN {CHOOSE d \in Detail : TRUE} ELSE Detail}

MayRetry ==
    /\ run.pc = "again"
    /\ run.kind \in Orchestrated
    /\ run.attempt < MaxRetries

GiveUp ==
    /\ run.pc = "again" /\ ~MayRetry
    /\ GoTo("finish")
    /\ UNCHANGED <<mode, orchVars, agentVars, row, checkpoints, seen, told>>

RepeatFound ==
    /\ MayRetry
    /\ Fingerprints \cap seen # {}
    /\ reply' = ContractError
    /\ GoTo("finish")
    /\ UNCHANGED <<mode, orch, agentVars, row, checkpoints, seen, told>>

Retry ==
    /\ MayRetry
    /\ \E f \in Fingerprints \ seen : seen' = seen \cup {f}
    /\ run' = [run EXCEPT !.attempt = @ + 1, !.pc = "work"]
    /\ telemetry' = NoTelemetry
    /\ Orchestrate
    /\ UNCHANGED <<mode, reply, node, active, row, checkpoints, told>>

(* Mutation of Outcome: the verdict of the attempt before counts.          *)
Outcome_Blind == "completed"

Outcome == IF run.error THEN "failed" ELSE run.verdict

(* After the try: the row is settled, and an exception is raised again.    *)
Finish ==
    /\ run.pc = "finish"
    /\ RowEnds(Outcome)
    /\ telemetry' = NoTelemetry
    /\ seen' = {}
    /\ GoTo("tell")
    /\ UNCHANGED <<mode, orchVars, agent, node, active, checkpoints, told>>

(* _process_message: an error is told, and a reply unless it is empty.     *)
Tell ==
    /\ run.pc = "tell"
    /\ told' = IF run.error THEN "error"
               ELSE IF reply = Empty THEN "nothing" ELSE "reply"
    /\ GoTo("ended")
    /\ UNCHANGED <<mode, orchVars, agentVars, row, checkpoints, seen>>

(* Worker.stop cancels the loop; the `finally` forgets the telemetry.      *)
Cancel ==
    /\ run.pc \notin {"idle", "ended", "cancelled"}
    /\ GoTo("cancelled")
    /\ telemetry' = NoTelemetry
    /\ seen' = {}
    /\ UNCHANGED <<mode, orchVars, agent, node, active, row, checkpoints,
                   told>>

Work ==
    \/ PreflightFails \/ BeginWork \/ OrchestratorWorks \/ OrchestratorEnds
    \/ \E a \in Agent :
           \/ \E ws \in Workspaces : StartMember(a, ws)
           \/ MemberWorks(a) \/ ChainBreaks(a) \/ CheckMember(a)
           \/ ChainGoesOn(a)
    \/ AllReturn \/ Judge \/ (\E ok \in BOOLEAN : VerifyTeam(ok))
    \/ GiveUp \/ RepeatFound \/ Retry \/ Finish \/ Tell

Done == run.pc \in {"ended", "cancelled"}
Rest == Done /\ UNCHANGED vars

Next ==
    \/ StartDynamic \/ NoTeam
    \/ \E team \in Teams : StartTeam(team)
    \/ Work \/ Cancel \/ Rest

(* Requests, tools and commands end; a message need not come.              *)
Spec == Init /\ [][Next]_vars /\ WF_vars(Work)
-----------------------------------------------------------------------------
(* What a row may be completed by, at the moment it is: the orchestrator's *)
(* reply; all members of a chain, each with its checkpoint; and where the  *)
(* policy reads replies, one that says so, has its evidence, names no      *)
(* failed command, and, if that is asked for, no shell command of the last *)
(* attempt that ended badly.                                               *)
Earned ==
    /\ run.kind \in Orchestrated \cup {"dynamic"} => orch.pc = "replied"
    /\ run.kind = "chain" =>
           \A a \in Agent : /\ agent[a].pc \in {"ok", "cut"}
                            /\ <<"chain", a>> \in checkpoints
    /\ run.kind \in TeamTypes /\ ~Unread(run.kind) =>
           /\ reply.status \in {"completed", "none"}
           /\ FailOnDefer \/ RequireBlockers => reply.status = "completed"
           /\ RequireBlockers => reply.full
           /\ reply.failed = {}
           /\ EnforceShell => Unresolved = {}

(* agent_team_runs says "completed" only of a run that earned it, whatever *)
(* the order of failures, retries, verifications and cancellations.        *)
CompletedIsEarned == [][row' = "completed" /\ row # row' => Earned]_vars

(* A member of a chain starts only after each one before it has come back  *)
(* without an exception and its checkpoint is written: the output of a     *)
(* member that failed is never the input of the next.                      *)
ChainInOrder ==
    run.kind = "chain" =>
        \A a \in Agent : agent[a].pc # "none" =>
            \A b \in 1..(a - 1) : /\ agent[b].pc \in {"ok", "cut"}
                                  /\ <<"chain", b>> \in checkpoints

(* At the end the row and what the chat was told agree: "running" is left  *)
(* only by an exception without a team; the chat is told of every          *)
(* exception; only an empty reply without a team is passed over, and a     *)
(* team run always tells something.                                        *)
EndingsAgree ==
    run.pc = "ended" =>
        /\ row = "running" <=> run.kind = "dynamic" /\ run.error
        /\ run.error => told = "error" /\ row # "completed"
        /\ told = "nothing" => run.kind = "dynamic" /\ row = "completed"
        /\ told = "reply" /\ reply.status = "blocked" => row # "running"
        /\ told # ""

(* Every run that has begun ends: the iterations, retries and members are  *)
(* counted, and no answer of a model prolongs it for ever.                 *)
RunEnds == run.pc # "idle" ~> Done
=============================================================================
