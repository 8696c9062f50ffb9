---------------------------- MODULE MessageTurn ----------------------------
(***************************************************************************)
(* One chat's messages on their way through Gateway._on_ws_event and       *)
(* Worker._process_message (umabot/gateway.py, umabot/worker.py): the      *)
(* intent of listener messages, the rules that apply to it, the model's    *)
(* answer and the gates every tool call of it has to pass, up to the call  *)
(* itself or a request for confirmation, and Worker._process_confirmation  *)
(* for what the admin said YES to.  The chat lock makes turns of one chat  *)
(* sequential (ChatSerial of WorkerPool); confirmations take no lock and   *)
(* fall between any two steps of a turn.  A turn is one run of a job; that *)
(* a job can be run again, or cut off, is WorkerPool's.                    *)
(***************************************************************************)
EXTENDS Naturals, Sequences

CONSTANTS
    MaxMessages,  \* bound: messages of the chat
    MaxCalls,     \* bound: tool calls in one answer of the model
    Tools,        \* tool names the model may write, registered or not
    Registered,   \* names in the tool registry
    Red,          \* those of risk level RED
    Gmail,        \* gmail.* and google.authorize
    Eligible,     \* eligible for auto approval in the active workspace
    Rule          \* decide_tool: "allow", "deny" or "require_confirmation"

ASSUME MessageTurnAssumption == /\ MaxMessages \in Nat
                                /\ MaxCalls \in Nat
                                /\ Registered \subseteq Tools
                                /\ Red \subseteq Registered
                                /\ Rule \in [Tools -> {"allow", "deny",
                                                       "require_confirmation"}]

VARIABLES
    origin,    \* whom a message comes from, "none" if it has not arrived
    stored,    \* how often the session holds the message as a user turn
    turn,      \* the message being processed, or processed last
    phase,     \* where its turn is, "free" between turns
    orchestrated, \* is the dynamic orchestrator configured?
    fallback,  \* intent._FALLBACK, one object that all failed detections share
    asked,     \* tool calls of the model's answer
    left,      \* those of them still to be looked at
    results,   \* how many have a result
    pending,   \* confirmations asked for, as in PolicyEngine._pending
    heard,     \* history: what the admin was told in the turn of a message
    excuse,    \* history: why the admin was told nothing, "none" if no reason
    ran        \* history: tool handlers called, and on whose word

roundVars == <<asked, left, results>>
mvars == <<origin, stored, turn, phase, orchestrated, fallback, roundVars,
           pending, heard, excuse, ran>>

Message == 1..MaxMessages
Origins == {"admin", "listener", "gmail"}

\* should_skip asks of an intent whether it is low and says ignore.
Intents == [low : BOOLEAN, ignore : BOOLEAN]
Medium == [low |-> FALSE, ignore |-> FALSE]
ShouldSkip(i) == i.low /\ i.ignore

Notices == {"reply", "error", "refused", "prompt", "not approved"}
Excuses == {"none", "intent", "fallback", "rule", "empty", "failed"}
Calls == [msg : Message, tool : Tools]
Runs == [msg : Message, tool : Tools, word : {"model", "admin"}]

TurnTypeOK ==
    /\ origin \in [Message -> Origins \cup {"none"}]
    /\ stored \in [Message -> Nat]
    /\ turn \in 0..MaxMessages
    /\ phase \in {"free", "intent", "agents", "asking", "gates", "followup"}
    /\ phase # "free" => turn \in Message
    /\ orchestrated \in BOOLEAN
    /\ fallback \in Intents
    /\ asked \in 0..MaxCalls
    /\ left \in 0..asked
    /\ results \in 0..asked
    /\ pending \subseteq Calls
    /\ heard \in [Message -> Seq(Notices)]
    /\ excuse \in [Message -> Excuses]
    /\ ran \subseteq Runs

TurnInit ==
    /\ origin = [m \in Message |-> "none"]
    /\ stored = [m \in Message |-> 0]
    /\ turn = 0
    /\ phase = "free"
    /\ orchestrated \in BOOLEAN
    /\ fallback = Medium
    /\ asked = 0
    /\ left = 0
    /\ results = 0
    /\ pending = {}
    /\ heard = [m \in Message |-> <<>>]
    /\ excuse = [m \in Message |-> "none"]
    /\ ran = {}

-----------------------------------------------------------------------------
FromGmail == origin[turn] = "gmail"

Tell(notice) == heard' = [heard EXCEPT ![turn] = Append(@, notice)]

(* `return`, after the admin was told something, or nothing and why.       *)
EndWith(notice) ==
    /\ phase' = "free"
    /\ Tell(notice)
    /\ UNCHANGED excuse
EndSilently(why) ==
    /\ phase' = "free"
    /\ excuse' = [excuse EXCEPT ![turn] = why]
    /\ UNCHANGED heard

-----------------------------------------------------------------------------
(* _on_ws_event: an admin's message is stored in the session before it is  *)
(* queued, a listener's is not.                                            *)
Receive(m, o) ==
    /\ origin[m] = "none"
    /\ \A n \in Message : n < m => origin[n] # "none"
    /\ origin' = [origin EXCEPT ![m] = o]
    /\ stored' = [stored EXCEPT ![m] = IF o = "admin" THEN 1 ELSE 0]
    /\ UNCHANGED <<turn, phase, orchestrated, fallback, roundVars, pending,
                   heard, excuse, ran>>

NextMessage == phase = "free" /\ turn + 1 \in Message /\ turn' = turn + 1

(* A listener's message has its intent detected first; one of an admin is  *)
(* stored, once more, before the session is read for the model.            *)
BeginTurn ==
    /\ NextMessage
    /\ \/ /\ origin[turn'] \in {"listener", "gmail"}
          /\ phase' = "intent"
          /\ UNCHANGED stored
       \/ /\ origin[turn'] = "admin"
          /\ phase' = IF orchestrated THEN "agents" ELSE "asking"
          /\ stored' = [stored EXCEPT ![turn'] = @ + 1]
    /\ UNCHANGED <<origin, orchestrated, fallback, roundVars, pending, heard,
                   excuse, ran>>

(* What stands before the intent may raise as well: the registries' own    *)
(* refresh, the commands for tasks, the session's queries.  A message of   *)
(* an admin may have been stored by then.                                  *)
TurnRaises ==
    /\ NextMessage
    /\ origin[turn'] # "none"
    /\ excuse' = [excuse EXCEPT ![turn'] = "failed"]
    /\ \/ UNCHANGED stored
       \/ /\ origin[turn'] = "admin"
          /\ stored' = [stored EXCEPT ![turn'] = @ + 1]
    /\ UNCHANGED <<origin, phase, orchestrated, fallback, roundVars, pending,
                   heard, ran>>

(* _handle_control_task_commands answers itself.                           *)
TaskCommand ==
    /\ NextMessage
    /\ origin[turn'] = "admin"
    /\ heard' = [heard EXCEPT ![turn'] = Append(@, "reply")]
    /\ UNCHANGED <<origin, stored, phase, orchestrated, fallback, roundVars,
                   pending, excuse, ran>>

-----------------------------------------------------------------------------
(* Mutation of Upheld: Gmail is a listener like any other.                 *)
Upheld_Any(i) == i

(* The safety override for Gmail: at least a summary.                      *)
Upheld(i) == IF FromGmail /\ ShouldSkip(i) THEN Medium ELSE i

(* What follows detect_intent, up to the next await.  A rule may drop the  *)
(* message or set importance and action; it sets them on the object that   *)
(* detect_intent returned.                                                 *)
Decide(found, failed, ruled) ==
    /\ fallback' = IF failed THEN ruled ELSE fallback
    /\ IF ShouldSkip(ruled)
       THEN EndSilently(IF ruled # Upheld(found) THEN "rule"
                        ELSE IF failed THEN "fallback" ELSE "intent")
       ELSE /\ phase' = IF orchestrated /\ ~FromGmail THEN "agents" ELSE "asking"
            /\ UNCHANGED <<heard, excuse>>

DropByRule(found, failed) ==
    /\ fallback' = IF failed THEN Upheld(found) ELSE fallback
    /\ EndSilently("rule")

DetectIntent ==
    /\ phase = "intent"
    /\ \/ \E found, ruled \in Intents : Decide(found, FALSE, ruled)
       \/ \E found \in Intents : DropByRule(found, FALSE)
       \/ \E ruled \in Intents : Decide(fallback, TRUE, ruled)
       \/ DropByRule(fallback, TRUE)
    /\ UNCHANGED <<origin, stored, turn, orchestrated, roundVars, pending, ran>>

-----------------------------------------------------------------------------
(* _run_with_team and _run_with_orchestrator: a reply, none, or an error   *)
(* (no team matched, the run raised) that the admin is told of; the team   *)
(* is selected outside the try, see JobRaises.                             *)
RunAgents ==
    /\ phase = "agents"
    /\ EndWith("reply") \/ EndWith("error") \/ EndSilently("empty")
    /\ UNCHANGED <<origin, stored, turn, orchestrated, fallback, roundVars,
                   pending, ran>>

(* The model is asked: it answers with words, with nothing or with tool    *)
(* calls, or the request fails.                                            *)
AskModel ==
    /\ phase = "asking"
    /\ \/ /\ EndWith("reply") \/ EndWith("error") \/ EndSilently("empty")
          /\ UNCHANGED roundVars
       \/ \E n \in 1..MaxCalls :
             /\ phase' = "gates"
             /\ asked' = n
             /\ left' = n
             /\ results' = 0
             /\ UNCHANGED <<heard, excuse>>
    /\ UNCHANGED <<origin, stored, turn, orchestrated, fallback, pending, ran>>

-----------------------------------------------------------------------------
(* The gates, in their order: guards for Gmail, the rules, the security    *)
(* policy (which may refuse anything), the list of allowed tools and the   *)
(* validation of arguments, the risk level.                                *)
AllowedTools ==
    IF FromGmail THEN {} ELSE {t \in Registered : Rule[t] # "deny"}
AutoApproved(t) == t \in Eligible /\ t \in AllowedTools

(* Mutation of Guarded: the allowed tools are relied upon to be empty.     *)
Guarded_Not(t) == FALSE

Guarded(t) == FromGmail /\ t \in Gmail
Denied(t) == Guarded(t) \/ Rule[t] = "deny"
ConfirmByRule(t) ==
    ~Denied(t) /\ Rule[t] = "require_confirmation" /\ ~AutoApproved(t)
ReachesRisk(t) == ~Denied(t) /\ ~ConfirmByRule(t) /\ t \in AllowedTools

AtGate == phase = "gates" /\ left > 0

(* gmail.search is stopped before the rules unless the admin asked for it; *)
(* the security policy and bad arguments can stop any call that no rule    *)
(* sent to confirmation before.                                            *)
Refusable(t) == ConfirmByRule(t) => t \in Gmail

(* Mutations of Refuse: the other calls are still made; nobody is told.    *)
Refuse_Continue(t) ==
    /\ AtGate
    /\ Refusable(t)
    /\ left' = left - 1
    /\ phase' = IF left = 1 THEN "followup" ELSE "gates"
    /\ UNCHANGED <<origin, stored, turn, orchestrated, fallback, asked,
                   results, pending, heard, excuse, ran>>
Refuse_Silently(t) ==
    /\ AtGate
    /\ Refusable(t)
    /\ phase' = "free"
    /\ UNCHANGED <<origin, stored, turn, orchestrated, fallback, roundVars,
                   pending, heard, excuse, ran>>

(* A gate says no.                                                         *)
Refuse(t) ==
    /\ AtGate
    /\ Refusable(t)
    /\ EndWith("refused")
    /\ UNCHANGED <<origin, stored, turn, orchestrated, fallback, roundVars,
                   pending, ran>>

Ask(t) == pending' = pending \cup {[msg |-> turn, tool |-> t]}

AskByRule(t) ==
    /\ AtGate
    /\ ConfirmByRule(t)
    /\ Ask(t)
    /\ EndWith("prompt")
    /\ UNCHANGED <<origin, stored, turn, orchestrated, fallback, roundVars, ran>>

(* evaluate makes the entry whether or not the call is approved of itself; *)
(* if it is, no prompt is sent, but its `allowed` is still False.  The     *)
(* audit of such an approval may raise, with the entry made.               *)
AskByRisk(t) ==
    /\ AtGate
    /\ ReachesRisk(t)
    /\ t \in Red
    /\ Ask(t)
    /\ IF AutoApproved(t) THEN EndWith("not approved") \/ EndSilently("failed")
                          ELSE EndWith("prompt")
    /\ UNCHANGED <<origin, stored, turn, orchestrated, fallback, roundVars, ran>>

CallHandler(t) ==
    /\ ran' = ran \cup {[msg |-> turn, tool |-> t, word |-> "model"]}
    /\ \/ /\ EndWith("error") \/ EndSilently("failed")
          /\ UNCHANGED <<left, results>>
       \/ /\ left' = left - 1
          /\ results' = results + 1
          /\ phase' = IF left = 1 THEN "followup" ELSE "gates"
          /\ UNCHANGED <<heard, excuse>>
    /\ UNCHANGED <<origin, stored, turn, orchestrated, fallback, asked, pending>>

(* Mutation of CallTool: the risk level is not looked at.                  *)
CallTool_AnyRisk(t) == AtGate /\ ReachesRisk(t) /\ CallHandler(t)

(* The handler of a tool is called.  The admin is told if it raises, not   *)
(* if the recording of the call or of its result does.                     *)
CallTool(t) == AtGate /\ ReachesRisk(t) /\ t \notin Red /\ CallHandler(t)

(* The model is asked again, outside any try: an error is JobRaises.       *)
FollowUp ==
    /\ phase = "followup"
    /\ EndWith("reply") \/ EndSilently("empty")
    /\ UNCHANGED <<origin, stored, turn, orchestrated, fallback, roundVars,
                   pending, ran>>

(* An exception that no try of _process_message catches ends the job, and  *)
(* the loop notes it in the queue and the log only.  Every phase has such  *)
(* a place: the lookup of the rules, the selection of a team, the history  *)
(* read for the model, the audits between the gates, the follow-up.        *)
JobRaises ==
    /\ phase # "free"
    /\ EndSilently("failed")
    /\ UNCHANGED <<origin, stored, turn, orchestrated, fallback, roundVars,
                   pending, ran>>

(* The admin says YES and _process_confirmation calls the handler, if the  *)
(* tool is registered.                                                     *)
Confirm(c) ==
    /\ c \in pending
    /\ pending' = pending \ {c}
    /\ ran' = IF c.tool \in Registered
              THEN ran \cup {[msg |-> c.msg, tool |-> c.tool, word |-> "admin"]}
              ELSE ran
    /\ UNCHANGED <<origin, stored, turn, phase, orchestrated, fallback,
                   roundVars, heard, excuse>>

TurnNext ==
    \/ \E m \in Message, o \in Origins : Receive(m, o)
    \/ BeginTurn
    \/ TurnRaises
    \/ TaskCommand
    \/ DetectIntent
    \/ RunAgents
    \/ AskModel
    \/ \E t \in Tools : Refuse(t) \/ AskByRule(t) \/ AskByRisk(t) \/ CallTool(t)
    \/ FollowUp
    \/ JobRaises
    \/ \E c \in Calls : Confirm(c)

TurnSpec == TurnInit /\ [][TurnNext]_mvars

-----------------------------------------------------------------------------
Finished(m) == m < turn \/ (m = turn /\ phase = "free")

(* The handler of a RED tool is only called for a confirmed request, never *)
(* on the model's word, whichever gates the calls before it passed.        *)
RedRunsOnlyOnYes == \A r \in ran : r.tool \in Red => r.word = "admin"

(* "Listener-origin Gmail summaries must not trigger additional Gmail API  *)
(* fetches" (worker.py:389): not at once, and not by way of a confirmation *)
(* that a rule asks for, which comes before the allowed tools are looked   *)
(* at.                                                                     *)
GmailNeverFetches ==
    \A r \in ran : origin[r.msg] = "gmail" => r.tool \notin Gmail

(* A turn ends with exactly one notice to the admin, or with none for a    *)
(* reason: the intent, a rule, a model that says nothing, or an exception  *)
(* outside any try, which fails the job.  A refused call, a first request  *)
(* or a run of agents that fails and a handler that raises are no such     *)
(* reason: they are told.                                                  *)
AnsweredOnce ==
    \A m \in Message :
        Finished(m) => IF excuse[m] = "none" THEN Len(heard[m]) = 1
                                             ELSE heard[m] = <<>>

(* "never silently drop inbound Gmail listener emails" (worker.py:263): a  *)
(* Gmail message may be passed over because a rule says so, but never      *)
(* because of an intent, be it detected or left behind in the shared       *)
(* fallback.                                                               *)
GmailDroppedOnlyByRule ==
    \A m \in Message :
        origin[m] = "gmail" => excuse[m] \notin {"intent", "fallback"}

(* The model is asked to go on only when each call of its answer has its   *)
(* result: a refused or failed call ends the round.                        *)
FollowUpComplete == phase = "followup" => left = 0 /\ results = asked

=============================================================================
