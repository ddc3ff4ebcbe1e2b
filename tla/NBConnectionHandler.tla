------------------------- MODULE NBConnectionHandler -------------------------
(***************************************************************************)
(* The hooks of NBConnectionHandler: registration in INIT, attachment in   *)
(* CONNECTING.  No hook reads _check_internet_availability.                *)
(***************************************************************************)
EXTENDS ConnectionHandlerObject

NB_ConstructedDefault == Constructed("NB", TRUE, FALSE, NoSetting)

NB_Constructed(keep_alive, s) ==
    Constructed("NB", keep_alive, FALSE, s)

\* Mutant: a SIM that answers is taken for a connection.
NB_update_handleInit_Connected(h, next) ==
    \/ /\ ~Admits(h.settings)
       /\ next = "ERROR"
       /\ UNCHANGED dev
    \/ /\ dev.coverage /\ ~dev.fault
       /\ Began(h.settings, FALSE)
       /\ next = "CONNECTED"

\* begin() needs a SIM, which may accept an empty PIN, and the network.
NB_update_handleInit(h, next) ==
    \/ /\ ~Admits(h.settings)
       /\ next = "ERROR"
       /\ UNCHANGED dev
    \/ /\ dev.coverage /\ ~dev.fault
       /\ Began(h.settings, FALSE)
       /\ next = "CONNECTING"

\* attachGPRS(true) blocks until it attaches or gives up.  Only NB_ERROR is tested:
\* an attempt that ends with another status counts as a connection.
NB_update_handleConnecting(h, next) ==
    /\ Began(dev.cfg, Admits(dev.cfg))
    /\ next \in IF Admits(dev.cfg) THEN {"CONNECTED"} ELSE {"CONNECTED", "ERROR"}

NB_update_handleConnected(h, next) ==
    /\ next = IF dev.link THEN "CONNECTED" ELSE "DISCONNECTED"
    /\ UNCHANGED dev

NB_update_handleDisconnecting(h, next) ==
    /\ Stopped
    /\ next = "DISCONNECTED"

NB_update_handleDisconnected(h, next) ==
    /\ UNCHANGED dev
    /\ next = IF h.keep_alive THEN "INIT" ELSE "CLOSED"

=============================================================================
