---------------------- MODULE EthernetConnectionHandler ----------------------
(***************************************************************************)
(* The hooks of EthernetConnectionHandler.  Ethernet.linkStatus() reports  *)
(* the cable (dev.coverage), not whether begin() obtained an address       *)
(* (dev.link).                                                             *)
(***************************************************************************)
EXTENDS ConnectionHandlerObject

\* DHCP and static addresses alike: every constructor leaves complete settings.
Ethernet_Constructed(keep_alive, s) ==
    Constructed("ETHERNET", keep_alive, FALSE, s)

\* begin() blocks for its timeout: with the static address or with DHCP it returns
\* 0 when it could not configure the interface, because the cable is out or because
\* no DHCP server answered in time.  Associates is the server that answers later.
Ethernet_update_handleInit(h, next) ==
    \/ /\ dev.fault
       /\ next = "ERROR"
       /\ UNCHANGED dev
    \/ /\ ~dev.fault
       /\ \E up \in {dev.link, Admits(h.settings)} :
             /\ Began(h.settings, up)
             /\ next = IF up THEN "CONNECTING" ELSE "INIT"

Ethernet_update_handleConnecting(h, next) ==
    /\ next = IF ~dev.coverage THEN "INIT"
              ELSE IF h.check_internet /\ ~PingOk THEN "CONNECTING"
              ELSE "CONNECTED"
    /\ UNCHANGED dev

Ethernet_update_handleConnected(h, next) ==
    /\ next = IF dev.coverage THEN "CONNECTED" ELSE "DISCONNECTED"
    /\ UNCHANGED dev

\* Mutant: the hook waits for the cable to go.
Ethernet_update_handleDisconnecting_Waits(h, next) ==
    /\ Stopped
    /\ next = IF dev.coverage THEN "DISCONNECTING" ELSE "DISCONNECTED"

Ethernet_update_handleDisconnecting(h, next) ==
    /\ Stopped
    /\ next = "DISCONNECTED"

Ethernet_update_handleDisconnected(h, next) ==
    /\ UNCHANGED dev
    /\ next = IF h.keep_alive THEN "INIT" ELSE "CLOSED"

=============================================================================
