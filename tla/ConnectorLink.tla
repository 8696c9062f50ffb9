--------------------------- MODULE ConnectorLink ---------------------------
(***************************************************************************)
(* What the connectors of umabot/connectors have in common: items that a   *)
(* service (Telegram, an IMAP server) numbers as they come, and the        *)
(* websocket over which they are handed to the gateway, which reads it in  *)
(* order (umabot/ws.py, _handle_ws).  A socket may break under the         *)
(* connector; what is still on the wire then is gone.  The stack as a      *)
(* whole may also end and be started again: umabot/orchestrator.py stops   *)
(* every process as soon as one exits.                                     *)
(***************************************************************************)
EXTENDS Integers, Sequences, SequencesExt, FiniteSets

CONSTANTS
    MaxItems,    \* bound: items that come
    MaxBreaks    \* bound: broken sockets, lost services and restarts

ASSUME LinkAssumption == MaxItems \in Nat /\ MaxBreaks \in Nat

VARIABLES
    posted,      \* items the service has numbered, 1..posted
    link,        \* the websocket: "none", "up", or "dead" and not noticed
    wire,        \* written and not yet read by the gateway
    got,         \* how often the gateway has read an item
    lost,        \* items that a broken socket or service has cost
    breaks,      \* faults so far
    restarts     \* those that ended the processes

linkVars == <<posted, link, wire, got, lost, breaks, restarts>>

Item == 1..MaxItems

LinkTypeOK ==
    /\ posted \in 0..MaxItems
    /\ link \in {"none", "up", "dead"}
    /\ wire \in Seq(Item)
    /\ got \in [Item -> Nat]
    /\ lost \subseteq Item
    /\ breaks \in 0..MaxBreaks /\ restarts \in 0..breaks

LinkInit ==
    /\ posted = 0
    /\ link = "none"
    /\ wire = <<>>
    /\ got = [i \in Item |-> 0]
    /\ lost = {}
    /\ breaks = 0 /\ restarts = 0

Upto(n) == {i \in Item : i <= n}
Between(m, n) == [k \in 1..(IF n > m THEN n - m ELSE 0) |-> m + k]

(* A fault of the environment uses up one of MaxBreaks.                    *)
Fault == breaks < MaxBreaks /\ breaks' = breaks + 1

(* _handle_ws: the events of a socket are handled one after the other.     *)
GatewayReads ==
    /\ wire # <<>>
    /\ got' = [got EXCEPT ![Head(wire)] = @ + 1]
    /\ wire' = Tail(wire)
    /\ UNCHANGED <<posted, link, lost, breaks, restarts>>

(* The socket breaks, or a reload of the gateway closes it.                *)
LinkBreaks ==
    /\ link = "up" /\ Fault
    /\ link' = "dead"
    /\ wire' = <<>>
    /\ lost' = lost \cup ToSet(wire)
    /\ UNCHANGED <<posted, got, restarts>>

(* ws.send_json: on a socket that has died it raises, or what it writes is *)
(* never read.                                                             *)
Writes(i) ==
    IF link = "up" THEN wire' = Append(wire, i) /\ UNCHANGED lost
    ELSE lost' = lost \cup {i} /\ UNCHANGED wire
MayRaise == link # "up"

(* All processes end; `held` is what this one had in its hands.            *)
StackEnds(held) ==
    /\ Fault
    /\ restarts' = restarts + 1
    /\ link' = "none"
    /\ wire' = <<>>
    /\ lost' = lost \cup ToSet(wire) \cup held
    /\ UNCHANGED <<posted, got>>
=============================================================================
