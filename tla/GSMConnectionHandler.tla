------------------------ MODULE GSMConnectionHandler ------------------------
(***************************************************************************)
(* The hooks of GSMConnectionHandler.                                      *)
(***************************************************************************)
EXTENDS ConnectionHandlerObject

\* The constructor with settings turns the Internet check on, the other does not.
GSM_ConstructedDefault == Constructed("GSM", TRUE, FALSE, NoSetting)

GSM_Constructed(keep_alive, s) ==
    Constructed("GSM", keep_alive, TRUE, s)

\* begin() needs the SIM, which may accept an empty PIN; attachGPRS() is synchronous
\* and needs the network.  Of its answers only ERROR is tested: an attempt that ends
\* with another status, unattached, goes on to CONNECTING.
GSM_update_handleInit(h, next) ==
    \/ /\ dev.fault \/ h.settings = NoSetting
       /\ next = "ERROR"
       /\ UNCHANGED dev
    \/ /\ ~dev.fault
       /\ Began(h.settings, Admits(h.settings))
       /\ next \in IF Admits(h.settings) THEN {"CONNECTING"} ELSE {"CONNECTING", "ERROR"}

\* Mutant: the failed ping is not looked at.
GSM_update_handleConnecting_NoCheck(h, next) ==
    /\ next = "CONNECTED"
    /\ UNCHANGED dev

\* No test of the attachment: a link lost here is noticed in CONNECTED only.
GSM_update_handleConnecting(h, next) ==
    /\ next = IF h.check_internet /\ ~PingOk THEN "CONNECTING" ELSE "CONNECTED"
    /\ UNCHANGED dev

GSM_update_handleConnected(h, next) ==
    /\ next = IF dev.link THEN "CONNECTED" ELSE "DISCONNECTED"
    /\ UNCHANGED dev

GSM_update_handleDisconnecting(h, next) ==
    /\ Stopped
    /\ next = "DISCONNECTED"

\* Mutant: the hook does not look at _keep_alive and attaches again.
GSM_update_handleDisconnected_Reattaches(h, next) ==
    /\ UNCHANGED dev
    /\ next = "INIT"

GSM_update_handleDisconnected(h, next) ==
    /\ UNCHANGED dev
    /\ next = IF h.keep_alive THEN "INIT" ELSE "CLOSED"

=============================================================================
