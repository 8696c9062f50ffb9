----------------------------- MODULE PanelLink -----------------------------
(***************************************************************************)
(* umabot/controlpanel/connector.py, events.py and the chat websocket of   *)
(* routers/chat.py: the panel process is the connector Web of the hub; it  *)
(* tells the browsers, by broadcast and to each once at its start, whether *)
(* the gateway is connected.                                               *)
(***************************************************************************)
EXTENDS ChannelHub

CONSTANTS
    Web,         \* PANEL_CONNECTOR
    Browser      \* windows of the panel

ASSUME PanelAssumption == Web \in Connector

VARIABLES
    panel,       \* where _connect_loop is
    connected,   \* PanelStore.gateway_connected
    subscribed,  \* EventBroadcaster._clients
    page,        \* chat_ws of a browser
    shows        \* the status a browser was last told

panelVars == <<panel, connected, subscribed, page, shows>>
webVars == <<hubVars, panelVars>>

PanelTypeOK ==
    /\ panel \in {"away", "hello", "tell_up", "up", "lost", "tell_down"}
    /\ connected \in BOOLEAN
    /\ subscribed \subseteq Browser
    /\ page \in [Browser -> {"closed", "accepted", "subscribed", "open",
                             "gone"}]
    /\ shows \in [Browser -> BOOLEAN]

PanelInit ==
    /\ HubInit
    /\ panel = "away"
    /\ connected = FALSE
    /\ subscribed = {}
    /\ page = [b \in Browser |-> "closed"]
    /\ shows = [b \in Browser |-> FALSE]

(* _connect: the socket is opened; an error of it is a Leaves or a loss.   *)
PanelOpens(s) ==
    /\ panel = "away"
    /\ OpensSocket(Web, s)
    /\ panel' = "hello"
    /\ UNCHANGED <<connected, subscribed, page, shows>>

(* "ready" has come: the flag first, then the browsers.                    *)
Ready ==
    /\ panel = "hello" /\ cur[Web] # 0
    /\ handler[cur[Web]] \notin {"hello", "none"}
    /\ panel' = "tell_up"
    /\ connected' = TRUE
    /\ UNCHANGED <<hubVars, subscribed, page, shows>>

(* The loop over the socket ends, or the handshake fails.                  *)
ConnectionLost ==
    /\ panel \in {"hello", "up"} /\ cur[Web] = 0
    /\ panel' = "lost"
    /\ UNCHANGED <<hubVars, connected, subscribed, page, shows>>

(* Mutation of AfterLoss: the flag is left as it was.                      *)
AfterLoss_Kept == connected

AfterLoss == FALSE

Forgets ==
    /\ panel = "lost"
    /\ connected' = AfterLoss
    /\ panel' = "tell_down"
    /\ UNCHANGED <<hubVars, subscribed, page, shows>>

(* broadcast holds the lock of the set while it sends to each; a browser   *)
(* that is gone is taken out.                                              *)
Broadcasts ==
    /\ panel \in {"tell_up", "tell_down"}
    /\ shows' = [b \in Browser |->
           IF b \in subscribed /\ page[b] # "gone" THEN panel = "tell_up"
           ELSE shows[b]]
    /\ subscribed' = {b \in subscribed : page[b] # "gone"}
    /\ panel' = IF panel = "tell_up" THEN "up" ELSE "away"
    /\ UNCHANGED <<hubVars, connected, page>>

-----------------------------------------------------------------------------
PageOpens(b) ==
    /\ page[b] = "closed" /\ b \notin subscribed
    /\ page' = [page EXCEPT ![b] = "accepted"]
    /\ UNCHANGED <<hubVars, panel, connected, subscribed, shows>>

(* chat_ws subscribes, which waits for a broadcast under way, ...          *)
Subscribes(b) ==
    /\ page[b] = "accepted"
    /\ subscribed' = subscribed \cup {b}
    /\ page' = [page EXCEPT ![b] = "subscribed"]
    /\ UNCHANGED <<hubVars, panel, connected, shows>>

(* ... and then sends the flag as it is now.                               *)
SendsStatus(b) ==
    /\ page[b] = "subscribed"
    /\ shows' = [shows EXCEPT ![b] = connected]
    /\ page' = [page EXCEPT ![b] = "open"]
    /\ UNCHANGED <<hubVars, panel, connected, subscribed>>

PageGoes(b) ==
    /\ page[b] \in {"accepted", "subscribed", "open"}
    /\ page' = [page EXCEPT ![b] = "gone"]
    /\ UNCHANGED <<hubVars, panel, connected, subscribed, shows>>

(* `finally`: unsubscribe.                                                 *)
Unsubscribes(b) ==
    /\ page[b] = "gone"
    /\ subscribed' = subscribed \ {b}
    /\ page' = [page EXCEPT ![b] = "closed"]
    /\ UNCHANGED <<hubVars, panel, connected, shows>>

PanelStep == Ready \/ ConnectionLost \/ Forgets \/ Broadcasts
PageStep(b) == Subscribes(b) \/ SendsStatus(b) \/ Unsubscribes(b)

HubMoves ==
    /\ \/ \E c \in Connector :
              \/ c # Web /\ \E s \in Socket : OpensSocket(c, s)
              \/ Leaves(c) \/ SeesClosed(c)
       \/ \E s \in Socket : HandlerStep(s) \/ EventBegins(s) \/ EventRaises(s)
       \/ Reload
    /\ UNCHANGED panelVars

PanelNext ==
    \/ HubMoves
    \/ \E s \in Socket : PanelOpens(s)
    \/ PanelStep
    \/ \E b \in Browser : PageOpens(b) \/ PageStep(b) \/ PageGoes(b)

(* Handlers, tasks and the network go on; TCP notices a peer that is gone. *)
PanelFairness ==
    /\ \A s \in Socket : WF_webVars(HandlerStep(s) /\ UNCHANGED panelVars)
    /\ \A c \in Connector : WF_webVars(SeesClosed(c) /\ UNCHANGED panelVars)
    /\ WF_webVars(PanelStep) /\ \A b \in Browser : WF_webVars(PageStep(b))

PanelSpec == PanelInit /\ [][PanelNext]_webVars /\ PanelFairness
-----------------------------------------------------------------------------
(* When a connector stays on a socket, send comes to pick that one for     *)
(* good, whatever older sockets of its broke before or after it was        *)
(* registered; except when a handler was left without unregistering, by an *)
(* exception or by a reload.                                               *)
Settles ==
    \A c \in Connector, s \in Socket :
        <>[](cur[c] = s) => <>[](Picked(c) = s \/ Leaked)

(* A browser that has been told the status is right about it, or is about  *)
(* to be corrected: no change falls between the status it is sent at its   *)
(* start and the broadcasts it gets from then on.                          *)
BrowserKnows ==
    \A b \in Browser :
        page[b] = "open" =>
            shows[b] = connected \/ panel \in {"tell_up", "tell_down"}
=============================================================================
