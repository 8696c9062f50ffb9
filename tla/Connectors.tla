----------------------------- MODULE Connectors -----------------------------
(***************************************************************************)
(* The connector processes, each on its own: three that take items in and  *)
(* the sending half of the Telegram connectors.  They share nothing but    *)
(* the gateway, so a behaviour is one of them.                             *)
(***************************************************************************)
EXTENDS BotPoll, GmailWatch, UserEvents, TelegramSend

VARIABLE which      \* the process this behaviour is about

vars == <<which, linkVars, botVars, gmailVars, userVars, sendVars>>

Intakes == {"bot", "gmail", "user"}

ConnectorsTypeOK ==
    /\ which \in Intakes \cup {"sender"}
    /\ LinkTypeOK /\ BotTypeOK /\ GmailTypeOK /\ UserTypeOK /\ SendTypeOK

Init ==
    /\ which \in Intakes \cup {"sender"}
    /\ LinkInit /\ BotInit /\ GmailInit /\ UserInit /\ SendInit
    /\ which \in Intakes => connector = "bot"

(* An update is made, or a mail comes.                                     *)
Posts ==
    /\ posted < MaxItems
    /\ posted' = posted + 1
    /\ UNCHANGED <<link, wire, got, lost, breaks, restarts, userVars>>

Bot(step) ==
    /\ which = "bot" /\ step
    /\ UNCHANGED <<gmailVars, userVars, sendVars, which>>
Gmail(step) ==
    /\ which = "gmail" /\ step
    /\ UNCHANGED <<botVars, userVars, sendVars, which>>
User(step) ==
    /\ which = "user" /\ step
    /\ UNCHANGED <<botVars, gmailVars, sendVars, which>>
Sender(step) ==
    /\ which = "sender" /\ step
    /\ UNCHANGED <<linkVars, botVars, gmailVars, userVars, which>>

ItemComes ==
    /\ which \in Intakes
    /\ IF which = "user" THEN UserPosts ELSE Posts
    /\ UNCHANGED <<which, botVars, gmailVars, sendVars>>

LinkMoves ==
    /\ which \in Intakes
    /\ GatewayReads \/ LinkBreaks
    /\ UNCHANGED <<which, botVars, gmailVars, userVars, sendVars>>

Next ==
    \/ ItemComes \/ LinkMoves
    \/ Bot(BotStep) \/ Bot(BotFault)
    \/ Gmail(GmailStep) \/ Gmail(GmailFault)
    \/ User(UserStep) \/ User(UserFault)
    \/ Sender(SendStep)

TextComes == \E n \in 1..MaxChunks : Begin("text", n)

(* The gateway reads, the loops go on, time passes; no item need come and  *)
(* nothing need break.  That texts keep being sent is what the recovery of *)
(* the breaker is stated under: without one it is not even looked at.      *)
Fairness ==
    /\ WF_vars(LinkMoves /\ link' = link)
    /\ WF_vars(Bot(BotStep))
    /\ WF_vars(Gmail(GmailStep))
    /\ WF_vars(User(UserConnects))
    /\ \A i \in Item : WF_vars(User(OnNewMessage(i)))
    /\ WF_vars(Sender(Works)) /\ WF_vars(Sender(Tick))
    /\ WF_vars(Sender(TextComes))

Spec == Init /\ [][Next]_vars /\ Fairness
-----------------------------------------------------------------------------
(* No item is passed over without a reason: one that is behind the cursor  *)
(* of its connector (Telegram's offset, last_uid, an event that was        *)
(* raised) was read by the gateway, is on its way, or fell to a socket, a  *)
(* service or a process that ended.  For Gmail two more reasons: the mail  *)
(* was there at the first snapshot, or, the mailbox being empty then and a *)
(* fault having ended that session, at the next one.                       *)
Accounted ==
    CASE which = "bot" -> BotAccounts
      [] which = "gmail" -> GmailAccounts
      [] which = "user" -> UserAccounts
      [] OTHER -> TRUE

(* An item is handed to the gateway again only after a fault that the      *)
(* cursor does not outlive: for the bot a restart, for Gmail any fault at  *)
(* all (one that ends its loop before the batch was stored, of which the   *)
(* bound counts each), for the user none.                                  *)
RepeatsBounded ==
    \A i \in Item :
        got[i] <= 1 + CASE which = "bot" -> restarts
                        [] which = "gmail" -> breaks
                        [] OTHER -> 0

(* Every item is read by the gateway in the end, unless it was lost as     *)
(* above, carries no text, or was passed over by a snapshot: the first     *)
(* one, or a later one of a mailbox that was empty at the first.           *)
CatchUp ==
    \A i \in Item :
        which \in Intakes /\ posted >= i ~>
            got[i] > 0 \/ i \in lost \cup skipped \cup late \cup Silent

(* Once Telegram is well again and texts keep coming, the breaker closes   *)
(* for good: a failed probe, an empty text or a request does not leave it  *)
(* half open or open for ever.                                             *)
BreakerRecovers == <>[](~outage) => <>[](breaker = "closed")

(* While it is open the chat gets only the calls of the text that opened   *)
(* it, for the chunks that were left.                                      *)
OpenIsQuiet ==
    breaker = "open" =>
        calls <= (MaxChunks - 1) * (IF connector = "bot" THEN 1 ELSE 2) * Retries
=============================================================================
