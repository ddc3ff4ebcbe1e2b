--------------------- MODULE ConnectionHandlerInterface ---------------------
(***************************************************************************)
(* The class ConnectionHandler over all its adapters: the constructors, the*)
(* virtual hooks, and updateConnectionState and updateCallback, which use  *)
(* them.  A hook is a relation between the object h, the state it returns  *)
(* (next), and the driver before and after.                                *)
(***************************************************************************)
EXTENDS WiFiConnectionHandler, EthernetConnectionHandler,
        LoRaConnectionHandler, GSMConnectionHandler, NBConnectionHandler,
        CatM1ConnectionHandler, CellularConnectionHandler

\* The objects the constructors leave.
DefaultObjects ==
    {WiFi_ConstructedDefault, GSM_ConstructedDefault, NB_ConstructedDefault,
     CatM1_ConstructedDefault, Cellular_ConstructedDefault}

ConstructedObjects ==
    DefaultObjects
    \cup {WiFi_Constructed(k, s) : k \in BOOLEAN, s \in Settings}
    \cup {Ethernet_Constructed(k, s) : k \in BOOLEAN, s \in Settings}
    \cup {LoRa_Constructed(s) : s \in Settings}
    \cup {GSM_Constructed(k, s) : k \in BOOLEAN, s \in Settings}
    \cup {NB_Constructed(k, s) : k \in BOOLEAN, s \in Settings}
    \cup {CatM1_Constructed(k, s) : k \in BOOLEAN, s \in Settings}
    \cup {Cellular_Constructed(k, s) : k \in BOOLEAN, s \in Settings}

-----------------------------------------------------------------------------
(* The virtual hooks, dispatched on the interface.                         *)

update_handleInit(h, next) ==
    \/ h.interface = "WIFI"     /\ WiFi_update_handleInit(h, next)
    \/ h.interface = "ETHERNET" /\ Ethernet_update_handleInit(h, next)
    \/ h.interface = "LORA"     /\ LoRa_update_handleInit(h, next)
    \/ h.interface = "GSM"      /\ GSM_update_handleInit(h, next)
    \/ h.interface = "NB"       /\ NB_update_handleInit(h, next)
    \/ h.interface = "CATM1"    /\ CatM1_update_handleInit(h, next)
    \/ h.interface = "CELL"     /\ Cellular_update_handleInit(h, next)

update_handleConnecting(h, next) ==
    \/ h.interface = "WIFI"     /\ WiFi_update_handleConnecting(h, next)
    \/ h.interface = "ETHERNET" /\ Ethernet_update_handleConnecting(h, next)
    \/ h.interface = "LORA"     /\ LoRa_update_handleConnecting(h, next)
    \/ h.interface = "GSM"      /\ GSM_update_handleConnecting(h, next)
    \/ h.interface = "NB"       /\ NB_update_handleConnecting(h, next)
    \/ h.interface = "CATM1"    /\ CatM1_update_handleConnecting(h, next)
    \/ h.interface = "CELL"     /\ Cellular_update_handleConnecting(h, next)

update_handleConnected(h, next) ==
    \/ h.interface = "WIFI"     /\ WiFi_update_handleConnected(h, next)
    \/ h.interface = "ETHERNET" /\ Ethernet_update_handleConnected(h, next)
    \/ h.interface = "LORA"     /\ LoRa_update_handleConnected(h, next)
    \/ h.interface = "GSM"      /\ GSM_update_handleConnected(h, next)
    \/ h.interface = "NB"       /\ NB_update_handleConnected(h, next)
    \/ h.interface = "CATM1"    /\ CatM1_update_handleConnected(h, next)
    \/ h.interface = "CELL"     /\ Cellular_update_handleConnected(h, next)

update_handleDisconnecting(h, next) ==
    \/ h.interface = "WIFI"     /\ WiFi_update_handleDisconnecting(h, next)
    \/ h.interface = "ETHERNET" /\ Ethernet_update_handleDisconnecting(h, next)
    \/ h.interface = "LORA"     /\ LoRa_update_handleDisconnecting(h, next)
    \/ h.interface = "GSM"      /\ GSM_update_handleDisconnecting(h, next)
    \/ h.interface = "NB"       /\ NB_update_handleDisconnecting(h, next)
    \/ h.interface = "CATM1"    /\ CatM1_update_handleDisconnecting(h, next)
    \/ h.interface = "CELL"     /\ Cellular_update_handleDisconnecting(h, next)

update_handleDisconnected(h, next) ==
    \/ h.interface = "WIFI"     /\ WiFi_update_handleDisconnected(h, next)
    \/ h.interface = "ETHERNET" /\ Ethernet_update_handleDisconnected(h, next)
    \/ h.interface = "LORA"     /\ LoRa_update_handleDisconnected(h, next)
    \/ h.interface = "GSM"      /\ GSM_update_handleDisconnected(h, next)
    \/ h.interface = "NB"       /\ NB_update_handleDisconnected(h, next)
    \/ h.interface = "CATM1"    /\ CatM1_update_handleDisconnected(h, next)
    \/ h.interface = "CELL"     /\ Cellular_update_handleDisconnected(h, next)

\* The switch of updateConnectionState: ERROR and CLOSED do nothing.  Its caller
\* assigns next to the member.
updateConnectionState(h, next) ==
    \/ h.state = "INIT"          /\ update_handleInit(h, next)
    \/ h.state = "CONNECTING"    /\ update_handleConnecting(h, next)
    \/ h.state = "CONNECTED"     /\ update_handleConnected(h, next)
    \/ h.state = "DISCONNECTING" /\ update_handleDisconnecting(h, next)
    \/ h.state = "DISCONNECTED"  /\ update_handleDisconnected(h, next)
    \/ /\ h.state \in {"ERROR", "CLOSED"}
       /\ next = h.state
       /\ UNCHANGED dev

\* Mutants: updateCallback() forgets the error event; or does not look whether a
\* callback is there.
callsBack_NoError(h, next) ==
    next # h.state /\ next \in h.callbacks \ {"ERROR"}

callsBack_Unregistered(h, next) == next # h.state

\* updateCallback(next) calls the user's function: check() calls it on a change of
\* state only, and a null callback is not called.
callsBack(h, next) == next # h.state /\ next \in h.callbacks

=============================================================================
