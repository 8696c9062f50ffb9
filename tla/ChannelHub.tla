----------------------------- MODULE ChannelHub -----------------------------
(***************************************************************************)
(* umabot/ws.py and what umabot/gateway.py does with it: ChannelHub holds  *)
(* the sockets on which connectors said hello, in the order they came, and *)
(* send takes the first that bears the connector's name; a handler per     *)
(* socket takes it out again when it ends as it should, and leaves it      *)
(* there for good when an event raises or a reload cancels it.             *)
(***************************************************************************)
EXTENDS Naturals, Sequences, SequencesExt

CONSTANTS
    Connector,   \* names of connectors
    MaxSockets,  \* bound: connections made
    MaxFaults    \* bound: losses, exceptions and reloads

ASSUME HubAssumption == MaxSockets \in Nat /\ MaxFaults \in Nat

Socket == 1..MaxSockets
Nobody == "nobody"

VARIABLES
    owner,       \* the connector of a socket, Nobody before it is opened
    net,         \* the transport; "deaf" when the peer is gone unnoticed
    handler,     \* _handle_ws of the socket
    clients,     \* ChannelHub._clients, in the order of registration
    cur,         \* the socket a connector lives on, 0 for none
    status,      \* the latest row of connector_status
    faults

hubVars == <<owner, net, handler, clients, cur, status, faults>>

HubTypeOK ==
    /\ owner \in [Socket -> Connector \cup {Nobody}]
    /\ net \in [Socket -> {"none", "open", "deaf", "closed"}]
    /\ handler \in [Socket -> {"none", "hello", "serving", "event", "done",
                               "leaked"}]
    /\ clients \in Seq(Socket)
    /\ cur \in [Connector -> Socket \cup {0}]
    /\ status \in [Connector -> {"none", "connected", "disconnected"}]
    /\ faults \in 0..MaxFaults

HubInit ==
    /\ owner = [s \in Socket |-> Nobody]
    /\ net = [s \in Socket |-> "none"]
    /\ handler = [s \in Socket |-> "none"]
    /\ clients = <<>>
    /\ cur = [c \in Connector |-> 0]
    /\ status = [c \in Connector |-> "none"]
    /\ faults = 0

HubFault == faults < MaxFaults /\ faults' = faults + 1

(* A connector opens a socket and says hello; the handler begins.          *)
OpensSocket(c, s) ==
    /\ cur[c] = 0
    /\ owner[s] = Nobody /\ \A t \in Socket : t < s => owner[t] # Nobody
    /\ owner' = [owner EXCEPT ![s] = c]
    /\ net' = [net EXCEPT ![s] = "open"]
    /\ handler' = [handler EXCEPT ![s] = "hello"]
    /\ cur' = [cur EXCEPT ![c] = s]
    /\ UNCHANGED <<clients, status, faults>>

(* _handle_ws: hello read and found valid, register, "ready".              *)
Registers(s) ==
    /\ handler[s] = "hello" /\ net[s] # "closed"
    /\ clients' = Append(clients, s)
    /\ status' = [status EXCEPT ![owner[s]] = "connected"]
    /\ handler' = [handler EXCEPT ![s] = "serving"]
    /\ UNCHANGED <<owner, net, cur, faults>>

(* The socket is closed already: hello was never read, or it was and the   *)
(* "ready" after register raises.                                          *)
HelloFails(s) ==
    /\ handler[s] = "hello" /\ net[s] = "closed"
    /\ \/ /\ handler' = [handler EXCEPT ![s] = "done"]
          /\ UNCHANGED <<clients, status>>
       \/ /\ handler' = [handler EXCEPT ![s] = "leaked"]
          /\ clients' = Append(clients, s)
          /\ status' = [status EXCEPT ![owner[s]] = "connected"]
    /\ UNCHANGED <<owner, net, cur, faults>>

(* An event is read and handled in place.                                  *)
EventBegins(s) ==
    /\ handler[s] = "serving" /\ net[s] = "open"
    /\ handler' = [handler EXCEPT ![s] = "event"]
    /\ UNCHANGED <<owner, net, clients, cur, status, faults>>

EventEnds(s) ==
    /\ handler[s] = "event"
    /\ handler' = [handler EXCEPT ![s] = "serving"]
    /\ UNCHANGED <<owner, net, clients, cur, status, faults>>

Without(s) == SelectSeq(clients, LAMBDA t : t # s)

(* Mutation of AtTheEnd: a handler that ends does not unregister.          *)
AtTheEnd_Nothing(s) == clients

AtTheEnd(s) == Without(s)

(* The closed socket ends the loop of its handler, which unregisters it.   *)
Unregisters(s) ==
    /\ handler[s] = "serving" /\ net[s] = "closed"
    /\ clients' = AtTheEnd(s)
    /\ status' = [status EXCEPT ![owner[s]] = "disconnected"]
    /\ handler' = [handler EXCEPT ![s] = "done"]
    /\ UNCHANGED <<owner, net, cur, faults>>

(* on_event raises, or the text is not JSON: the handler is left at once,  *)
(* the socket closed, and the client stays where it is.                    *)
EventRaises(s) ==
    /\ handler[s] = "event" /\ HubFault
    /\ handler' = [handler EXCEPT ![s] = "leaked"]
    /\ net' = [net EXCEPT ![s] = "closed"]
    /\ UNCHANGED <<owner, clients, cur, status>>

(* Gateway.reload, _stop_ws_gateway: the handlers are cancelled where they *)
(* wait.  The hub is kept.                                                 *)
Reload ==
    /\ HubFault
    /\ handler' = [s \in Socket |->
           CASE handler[s] \in {"serving", "event"} -> "leaked"
             [] handler[s] = "hello" -> "done"
             [] OTHER -> handler[s]]
    /\ net' = [s \in Socket |-> IF net[s] = "none" THEN "none" ELSE "closed"]
    /\ UNCHANGED <<owner, clients, cur, status>>

(* The connector closes its socket, or vanishes without a word.            *)
Leaves(c) ==
    /\ cur[c] # 0 /\ HubFault
    /\ \E how \in {"closed", "deaf"} :
           net' = [net EXCEPT ![cur[c]] = IF @ = "open" THEN how ELSE @]
    /\ cur' = [cur EXCEPT ![c] = 0]
    /\ UNCHANGED <<owner, handler, clients, status>>

(* A connector sees that its socket is closed.                             *)
SeesClosed(c) ==
    /\ cur[c] # 0 /\ net[cur[c]] = "closed"
    /\ cur' = [cur EXCEPT ![c] = 0]
    /\ UNCHANGED <<owner, net, handler, clients, status, faults>>

(* Retransmission, or the keepalive of TCP, finds that the peer is gone.   *)
NoticesDeaf(s) ==
    /\ net[s] = "deaf"
    /\ net' = [net EXCEPT ![s] = "closed"]
    /\ UNCHANGED <<owner, handler, clients, cur, status, faults>>

-----------------------------------------------------------------------------
Of(c) == SelectSeq(clients, LAMBDA s : owner[s] = c)

(* ChannelHub.send and send_payload: the first socket of the connector is  *)
(* picked under the lock and written to without it.  That a write failed   *)
(* or was given up after 5 seconds changes nothing in the hub.             *)
Picked(c) == IF Of(c) = <<>> THEN 0 ELSE Head(Of(c))

HandlerStep(s) ==
    \/ Registers(s) \/ HelloFails(s) \/ EventEnds(s) \/ Unregisters(s)
    \/ NoticesDeaf(s)

Leaked == \E s \in Socket : handler[s] = "leaked"
=============================================================================
