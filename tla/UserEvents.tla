---------------------------- MODULE UserEvents ----------------------------
(***************************************************************************)
(* umabot/connectors/telegram_user_connector.py, inbound: Telegram calls   *)
(* _on_new_message in a task of its own for each message that comes while  *)
(* the client is connected.  When the websocket closes _recv_loop ends,    *)
(* but run goes on waiting for Telegram to disconnect.                     *)
(***************************************************************************)
EXTENDS ConnectorLink

VARIABLES
    client,      \* the Telegram client is connected
    handlers     \* messages whose handler has not written yet

userVars == <<client, handlers>>

UserTypeOK == client \in BOOLEAN /\ handlers \subseteq Item
UserInit == client = FALSE /\ handlers = {}

(* run: the websocket, then the client, whose session is stored.           *)
UserConnects ==
    /\ ~client /\ link = "none"
    /\ link' = "up"
    /\ client' = TRUE
    /\ UNCHANGED <<posted, wire, got, lost, breaks, restarts, handlers>>

(* A message comes.  Without a client nobody takes it.                     *)
UserPosts ==
    /\ posted < MaxItems
    /\ posted' = posted + 1
    /\ IF client THEN handlers' = handlers \cup {posted'} /\ UNCHANGED lost
       ELSE lost' = lost \cup {posted'} /\ UNCHANGED handlers
    /\ UNCHANGED <<link, wire, got, breaks, restarts, client>>

(* _on_new_message: without a websocket it returns, on a dead one it       *)
(* raises in a task that nobody waits for.                                 *)
OnNewMessage(i) ==
    /\ i \in handlers
    /\ Writes(i)
    /\ handlers' = handlers \ {i}
    /\ UNCHANGED <<posted, link, got, breaks, restarts, client>>

(* run_until_disconnected returns: the websocket is closed, whether it was *)
(* alive or not, and run connects both anew.                               *)
ClientEnds ==
    /\ client /\ Fault
    /\ client' = FALSE
    /\ link' = "none"
    /\ UNCHANGED <<posted, wire, got, lost, restarts, handlers>>

UserRestarts ==
    /\ StackEnds(handlers)
    /\ client' = FALSE /\ handlers' = {}

UserStep == UserConnects \/ \E i \in Item : OnNewMessage(i)
UserFault == ClientEnds \/ UserRestarts

UserAccounts ==
    \A i \in Upto(posted) : got[i] > 0 \/ i \in ToSet(wire) \cup lost \cup handlers
=============================================================================
