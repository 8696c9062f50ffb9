------------------------------ MODULE BotPoll ------------------------------
(***************************************************************************)
(* umabot/connectors/telegram_bot_connector.py, inbound: _poll_loop asks   *)
(* getUpdates with an offset that is kept in memory only and that confirms *)
(* to Telegram every update before it; the offset moves on before an       *)
(* update is handed to the gateway.                                        *)
(***************************************************************************)
EXTENDS ConnectorLink

CONSTANTS
    Buttons,     \* updates that are presses of an approval button
    Silent       \* updates that the loop passes over: they carry no text

ASSUME BotAssumption == Buttons \subseteq Item /\ Silent \subseteq Item

VARIABLES
    offset,      \* _offset, 0 for None
    acked,       \* the updates Telegram has forgotten: 1..acked
    batch,       \* the answer of getUpdates, what is left of it
    hand,        \* the update being handed over, 0 for none
    poll         \* where _poll_loop is

botVars == <<offset, acked, batch, hand, poll>>

BotTypeOK ==
    /\ offset \in 0..(MaxItems + 1) /\ acked \in 0..MaxItems
    /\ batch \in Seq(Item) /\ hand \in {0} \cup Item
    /\ poll \in {"off", "ask", "each", "button", "send"}

BotInit == offset = 0 /\ acked = 0 /\ batch = <<>> /\ hand = 0 /\ poll = "off"

(* run: connected, said hello, got "ready"; a failure backs off and leaves *)
(* nothing.                                                                *)
BotConnects ==
    /\ poll = "off" /\ link = "none"
    /\ link' = "up"
    /\ poll' = "ask"
    /\ UNCHANGED <<posted, wire, got, lost, breaks, restarts, offset, acked,
                   batch, hand>>

(* Mutation of AfterError: the error ends the loop unnoticed.              *)
AfterError_Ends == "off"

(* A poll that fails or times out is made again, at once or after a pause. *)
AfterError == "ask"

(* getUpdates: Telegram forgets what lies before the offset.  The answer   *)
(* may get lost, or be thrown away with the cancelled task.                *)
GetUpdates(answered) ==
    /\ poll = "ask"
    /\ acked' = IF offset > acked + 1 THEN offset - 1 ELSE acked
    /\ IF answered
       THEN batch' = Between(acked', posted) /\ poll' = "each"
            /\ UNCHANGED breaks
       ELSE Fault /\ poll' = AfterError /\ UNCHANGED batch
    /\ UNCHANGED <<posted, link, wire, got, lost, restarts, offset, hand>>

(* Mutation of OffsetAfter: the last update is asked for again.            *)
OffsetAfter_Same(updates) == Head(updates)
(* Mutation of OffsetAfter: the whole answer is confirmed at once.         *)
OffsetAfter_Batch(updates) == Last(updates) + 1

OffsetAfter(updates) == Head(updates) + 1

(* The next update of the answer: the offset moves on, a text or a button  *)
(* is taken in hand.                                                       *)
Take ==
    /\ poll = "each" /\ batch # <<>>
    /\ offset' = OffsetAfter(batch)
    /\ batch' = Tail(batch)
    /\ IF Head(batch) \in Silent THEN UNCHANGED <<hand, poll>>
       ELSE /\ hand' = Head(batch)
            /\ poll' = IF Head(batch) \in Buttons THEN "button" ELSE "send"
    /\ UNCHANGED <<linkVars, acked>>

BatchDone ==
    /\ poll = "each" /\ batch = <<>>
    /\ poll' = "ask"
    /\ UNCHANGED <<linkVars, offset, acked, batch, hand>>

(* _handle_callback_query: answerCallbackQuery may fail; the press is      *)
(* forwarded all the same.                                                 *)
AnswerButton ==
    /\ poll = "button"
    /\ poll' = "send"
    /\ UNCHANGED <<linkVars, offset, acked, batch, hand>>

(* send_json; if it raises, the poll loop ends and with it the socket.     *)
Forward(raises) ==
    /\ poll = "send"
    /\ raises => MayRaise
    /\ Writes(hand)
    /\ hand' = 0
    /\ IF raises THEN poll' = "off" /\ batch' = <<>> /\ link' = "none"
       ELSE poll' = "each" /\ UNCHANGED <<batch, link>>
    /\ UNCHANGED <<posted, got, breaks, restarts, offset, acked>>

(* _recv_loop sees the closed socket; run cancels the poll loop wherever   *)
(* it waits and connects anew.                                             *)
RecvEnds ==
    /\ poll # "off" /\ link = "dead"
    /\ lost' = lost \cup (IF hand = 0 THEN {} ELSE {hand})
    /\ hand' = 0
    /\ batch' = <<>>
    /\ poll' = "off"
    /\ link' = "none"
    /\ UNCHANGED <<posted, wire, got, breaks, restarts, offset, acked>>

(* _recv_loop raises on a socket that is well: a frame it cannot decode, a *)
(* failure outside the try of a send.  run ends both loops and the socket. *)
RecvRaises ==
    /\ poll # "off" /\ link = "up" /\ Fault
    /\ lost' = lost \cup (IF hand = 0 THEN {} ELSE {hand})
    /\ hand' = 0
    /\ batch' = <<>>
    /\ poll' = "off"
    /\ link' = "none"
    /\ UNCHANGED <<posted, wire, got, restarts, offset, acked>>

(* The process ends and is started again; the offset is None once more.    *)
BotRestarts ==
    /\ StackEnds(IF hand = 0 THEN {} ELSE {hand})
    /\ offset' = 0 /\ batch' = <<>> /\ hand' = 0 /\ poll' = "off"
    /\ UNCHANGED acked

BotStep ==
    \/ BotConnects \/ GetUpdates(TRUE) \/ Take \/ BatchDone \/ AnswerButton
    \/ (\E raises \in BOOLEAN : Forward(raises)) \/ RecvEnds

BotFault == GetUpdates(FALSE) \/ RecvRaises \/ BotRestarts

(* Behind the cursor are the updates that no later poll will bring: each   *)
(* that carries something was read, is on the wire or in hand, or fell to  *)
(* a broken socket.                                                        *)
BotAccounts ==
    \A i \in Upto(IF offset > acked THEN offset - 1 ELSE acked) :
        got[i] > 0 \/ i \in ToSet(wire) \cup {hand} \cup lost \cup Silent
=============================================================================
