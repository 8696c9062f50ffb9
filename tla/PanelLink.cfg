SPECIFICATION PanelSpec
CONSTANTS
    Connector = {"bot", "web-panel"}
    Web = "web-panel"
    Browser = {b1}
    MaxSockets = 3
    MaxFaults = 2
INVARIANTS
    BrowserKnows
PROPERTIES
    Settles
CHECK_DEADLOCK FALSE
