------------------------ MODULE WiFiConnectionHandler ------------------------
(***************************************************************************)
(* The hooks of WiFiConnectionHandler.  h is the handler object, next the  *)
(* state the hook returns; the calls to the driver are constraints on dev'.*)
(***************************************************************************)
EXTENDS ConnectionHandlerObject

WiFi_ConstructedDefault == Constructed("WIFI", TRUE, FALSE, NoSetting)

WiFi_Constructed(keep_alive, s) ==
    Constructed("WIFI", keep_alive, FALSE, s)

\* An ESP build has no hardware test.  begin() starts an association that may
\* be complete when it returns or not; it is skipped when WiFi.status() already
\* says connected, and the last status() may then see the network gone.
WiFi_update_handleInit(h, next) ==
    \/ /\ ~EspCore /\ dev.fault
       /\ next = "ERROR"
       /\ UNCHANGED dev
    \/ /\ EspCore \/ ~dev.fault
       /\ \/ /\ ~dev.link
             /\ \E up \in {FALSE, Admits(h.settings)} :
                   /\ Began(h.settings, up)
                   /\ next = IF up THEN "CONNECTING" ELSE "INIT"
          \/ /\ dev.link
             /\ next = "CONNECTING"
             /\ UNCHANGED dev
          \/ /\ dev.link
             /\ next = "INIT"
             /\ LoseNetwork

WiFi_update_handleConnecting(h, next) ==
    /\ next = IF ~dev.link THEN "INIT"
              ELSE IF h.check_internet /\ ~EspCore /\ ~PingOk THEN "CONNECTING"
              ELSE "CONNECTED"
    /\ UNCHANGED dev

WiFi_update_handleConnected(h, next) ==
    /\ next = IF dev.link THEN "CONNECTED" ELSE "DISCONNECTED"
    /\ UNCHANGED dev

\* Mutant: the hook reports DISCONNECTED without telling the driver.
WiFi_update_handleDisconnecting_Silent(h, next) ==
    /\ next = "DISCONNECTED"
    /\ UNCHANGED dev

WiFi_update_handleDisconnecting(h, next) ==
    /\ Stopped
    /\ next = "DISCONNECTED"

WiFi_update_handleDisconnected(h, next) ==
    /\ IF EspCore THEN UNCHANGED dev ELSE Stopped
    /\ next = IF h.keep_alive THEN "INIT" ELSE "CLOSED"

=============================================================================
