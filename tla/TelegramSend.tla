--------------------------- MODULE TelegramSend ---------------------------
(***************************************************************************)
(* Outbound, to one chat: _recv_loop of either Telegram connector handles  *)
(* one command of the gateway at a time: a text in chunks, an attachment,  *)
(* a request for approval (the bot only, with a text to fall back on).     *)
(* Each looks at the chat's CircuitBreaker of                              *)
(* umabot/connectors/telegram_resilience.py once, before its first call;   *)
(* the calls report to it.  The pace of TelegramRateLimiter is left out.   *)
(***************************************************************************)
EXTENDS Integers

CONSTANTS
    Threshold,   \* failure_threshold
    Cooldown,    \* cooldown_seconds, in ticks
    MaxChunks    \* bound: chunks of a text

Retries == 3     \* _SEND_MAX_RETRIES, max_retries

ASSUME SendAssumption ==
    Threshold \in Nat \ {0} /\ Cooldown \in Nat \ {0} /\ MaxChunks \in Nat

VARIABLES
    connector,   \* whose rules hold, "bot" or "user"
    breaker,     \* CBState
    failures,    \* _failure_count
    age,         \* ticks since _opened_at, up to Cooldown
    job,         \* the command at hand: what it is, chunks left, attempt
    outage,      \* Telegram fails calls, or asks to wait
    calls        \* made while the breaker is open

sendVars == <<connector, breaker, failures, age, job, outage, calls>>

NoJob == [what |-> "none", chunks |-> 0, attempt |-> 0]

SendTypeOK ==
    /\ connector \in {"bot", "user"}
    /\ breaker \in {"closed", "open", "half_open"}
    /\ failures \in Nat
    /\ age \in 0..Cooldown
    /\ job \in [what : {"none", "text", "attachment", "confirm"},
                chunks : 0..(MaxChunks + 1), attempt : 0..(Retries - 1)]
    /\ outage \in BOOLEAN
    /\ calls \in Nat

SendInit ==
    /\ connector \in {"bot", "user"}
    /\ breaker = "closed" /\ failures = 0 /\ age = 0
    /\ job = NoJob
    /\ outage = FALSE
    /\ calls = 0

Tick ==
    /\ age < Cooldown
    /\ age' = age + 1
    /\ UNCHANGED <<connector, breaker, failures, job, outage, calls>>

OutageTurns ==
    /\ outage' = ~outage
    /\ UNCHANGED <<connector, breaker, failures, age, job, calls>>

(* Mutation of CooledDown: the breaker never lets a probe through.         *)
CooledDown_Never == FALSE

CooledDown == age = Cooldown

(* Mutation of Admits: the breaker is not asked.                           *)
Admits_Always == TRUE

(* is_open, once for a command: it is dropped, or begun.                   *)
Admits == breaker = "open" => CooledDown
Probing == IF breaker = "open" /\ CooledDown THEN "half_open" ELSE breaker

Begin(what, chunks) ==
    /\ job = NoJob
    /\ what = "confirm" => connector = "bot"
    /\ what # "text" => chunks = 1
    /\ IF Admits
       THEN /\ breaker' = Probing
            /\ job' = IF chunks = 0 THEN NoJob
                      ELSE [what |-> what, chunks |-> chunks, attempt |-> 0]
       ELSE UNCHANGED <<breaker, job>>
    /\ UNCHANGED <<connector, failures, age, outage, calls>>

NextChunk ==
    IF job.chunks > 1 THEN [job EXCEPT !.chunks = @ - 1, !.attempt = 0]
    ELSE NoJob

(* record_success                                                          *)
Success == breaker' = "closed" /\ failures' = 0 /\ calls' = 0 /\ UNCHANGED age

(* record_failure                                                          *)
Opens == breaker = "half_open" \/ failures + 1 >= Threshold

(* Bound: the count is kept up to Threshold, beyond which it is not read.  *)
Failure(made) ==
    /\ failures' = IF failures < Threshold THEN failures + 1 ELSE failures
    /\ IF Opens THEN breaker' = "open" /\ age' = 0
       ELSE UNCHANGED <<breaker, age>>
    /\ calls' = IF breaker = "open" THEN calls + made ELSE 0

Unreported(made) ==
    /\ calls' = IF breaker = "open" THEN calls + made ELSE calls
    /\ UNCHANGED <<breaker, failures, age>>

(* A call, or the plain text that is tried after it, is accepted.          *)
CallSucceeds ==
    /\ job # NoJob
    /\ Success
    /\ job' = NextChunk
    /\ UNCHANGED <<connector, outage>>

(* Telegram asks to wait: the text is tried again after that, three times  *)
(* in all.  The user's attachment is given up without a report; the bot    *)
(* takes 429 for a failure of an attachment or a request.                  *)
ToldToWait(made) ==
    /\ job # NoJob /\ outage
    /\ made = 2 => connector = "user" /\ job.what = "text"
    /\ IF job.what = "text" /\ job.attempt + 1 < Retries
       THEN Unreported(made) /\ job' = [job EXCEPT !.attempt = @ + 1]
       ELSE /\ job' = NextChunk
            /\ IF connector = "user" /\ job.what = "attachment"
               THEN Unreported(made) ELSE Failure(made)
    /\ UNCHANGED <<connector, outage>>

(* An error: the plain text is tried (by the bot with its first attempt    *)
(* only, and not when no answer came) and fails too.                       *)
CallFails(made) ==
    /\ job # NoJob /\ job.what # "confirm" /\ outage
    /\ made = 2 => job.what = "text" /\ (connector = "bot" => job.attempt = 0)
    /\ made = 1 => connector = "bot" \/ job.what = "attachment"
    /\ Failure(made)
    /\ job' = NextChunk
    /\ UNCHANGED <<connector, outage>>

(* A request that fails becomes a text, for which the breaker is asked.    *)
RequestFails ==
    /\ job.what = "confirm" /\ outage
    /\ Failure(1)
    /\ job' = IF breaker' = "open" THEN NoJob ELSE [job EXCEPT !.what = "text"]
    /\ UNCHANGED <<connector, outage>>

Works ==
    \/ CallSucceeds
    \/ \E made \in 1..2 : ToldToWait(made) \/ CallFails(made)
    \/ RequestFails

SendStep ==
    \/ Tick \/ OutageTurns \/ Works
    \/ \E what \in {"text", "attachment", "confirm"}, n \in 0..MaxChunks :
           Begin(what, n)
=============================================================================
