---------------------- MODULE CellularConnectionHandler ----------------------
(***************************************************************************)
(* The hooks of CellularConnectionHandler.                                 *)
(***************************************************************************)
EXTENDS ConnectionHandlerObject

Cellular_ConstructedDefault == Constructed("CELL", TRUE, FALSE, NoSetting)

Cellular_Constructed(keep_alive, s) ==
    Constructed("CELL", keep_alive, FALSE, s)

\* unlockSIM() is tried only when there is a PIN; connect() registers.
Cellular_update_handleInit(h, next) ==
    \/ /\ dev.fault /\ h.settings # NoSetting
       /\ next = "ERROR"
       /\ UNCHANGED dev
    \/ /\ ~dev.fault \/ h.settings = NoSetting
       /\ Began(h.settings, Admits(h.settings))
       /\ next = IF Admits(h.settings) THEN "CONNECTING" ELSE "ERROR"

\* The check is the network's time, which the modem may or may not have: it does
\* not depend on the Internet being reachable.
Cellular_update_handleConnecting(h, next) ==
    /\ \E timeKnown \in BOOLEAN :
          next = IF ~dev.link THEN "INIT"
                 ELSE IF h.check_internet /\ ~timeKnown THEN "CONNECTING"
                 ELSE "CONNECTED"
    /\ UNCHANGED dev

Cellular_update_handleConnected(h, next) ==
    /\ next = IF dev.link THEN "CONNECTED" ELSE "DISCONNECTED"
    /\ UNCHANGED dev

\* Nothing is asked of the modem.
Cellular_update_handleDisconnecting(h, next) ==
    /\ next = "DISCONNECTED"
    /\ UNCHANGED dev

Cellular_update_handleDisconnected(h, next) ==
    /\ UNCHANGED dev
    /\ next = IF h.keep_alive THEN "INIT" ELSE "CLOSED"

=============================================================================
