------------------------ MODULE LoRaConnectionHandler ------------------------
(***************************************************************************)
(* The hooks of LoRaConnectionHandler: begin() only sets the radio up, the *)
(* join to the network is a call of its own, and nothing leaves it again.  *)
(***************************************************************************)
EXTENDS ConnectionHandlerObject

\* There is no keep_alive argument: a LoRa connection is not kept alive.
LoRa_Constructed(s) == Constructed("LORA", FALSE, FALSE, s)

\* The test before sendMask() is of an array, which is true of every mask: the mask
\* is always sent.
LoRa_update_handleInit(h, next) ==
    \/ /\ dev.fault
       /\ next = "ERROR"
       /\ UNCHANGED dev
    \/ /\ ~dev.fault
       /\ dev' = [dev EXCEPT !.started = TRUE, !.cfg = h.settings, !.link = FALSE,
                             !.mask = h.settings]
       /\ next = "CONNECTING"

\* joinOTAA() blocks until the network accepts or the attempt times out.  A
\* failed join starts over, in INIT.
LoRa_update_handleConnecting(h, next) ==
    /\ Began(h.settings, Admits(h.settings))
    /\ next = IF Admits(h.settings) THEN "CONNECTED" ELSE "INIT"

LoRa_update_handleConnected(h, next) ==
    /\ next = IF dev.link THEN "CONNECTED" ELSE "DISCONNECTED"
    /\ UNCHANGED dev

\* Nothing is asked of the modem.
LoRa_update_handleDisconnecting(h, next) ==
    /\ next = "DISCONNECTED"
    /\ UNCHANGED dev

LoRa_update_handleDisconnected(h, next) ==
    /\ UNCHANGED dev
    /\ next = IF h.keep_alive THEN "INIT" ELSE "CLOSED"

=============================================================================
