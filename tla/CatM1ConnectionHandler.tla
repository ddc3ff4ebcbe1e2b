----------------------- MODULE CatM1ConnectionHandler -----------------------
(***************************************************************************)
(* The hooks of CatM1ConnectionHandler.  GSM.begin() takes _reset as its   *)
(* restart argument: a modem that hangs (dev.fault) is brought back by a   *)
(* restart and by nothing else, so the handler remembers a failed begin()  *)
(* and restarts the modem with the next one.                               *)
(***************************************************************************)
EXTENDS ConnectionHandlerObject

\* The constructor with settings turns the Internet check on and clears _reset; the
\* other does neither.
CatM1_ConstructedDefault == Constructed("CATM1", TRUE, FALSE, NoSetting)

CatM1_Constructed(keep_alive, s) ==
    Constructed("CATM1", keep_alive, TRUE, s)

\* Mutant: a failed begin() is not remembered in _reset.
CatM1_update_handleInit_NoReset(h, next) ==
    LET up == dev.coverage /\ (dev.reset \/ ~dev.fault) /\ h.settings # NoSetting
    IN  /\ dev' = [dev EXCEPT !.started = TRUE, !.cfg = h.settings, !.link = up,
                              !.fault = @ /\ ~dev.reset, !.reset = FALSE]
        /\ next = IF up THEN "CONNECTING" ELSE "DISCONNECTED"

CatM1_update_handleInit(h, next) ==
    LET up == dev.coverage /\ (dev.reset \/ ~dev.fault) /\ h.settings # NoSetting
    IN  /\ dev' = [dev EXCEPT !.started = TRUE, !.cfg = h.settings, !.link = up,
                              !.fault = @ /\ ~dev.reset, !.reset = ~up]
        /\ next = IF up THEN "CONNECTING" ELSE "DISCONNECTED"

CatM1_update_handleConnecting(h, next) ==
    /\ next = IF ~dev.link THEN "DISCONNECTED"
              ELSE IF h.check_internet /\ ~PingOk THEN "CONNECTING"
              ELSE "CONNECTED"
    /\ UNCHANGED dev

\* Mutant: the hook asks whether the modem runs, not whether it is connected.
CatM1_update_handleConnected_Running(h, next) ==
    /\ next = IF dev.started THEN "CONNECTED" ELSE "DISCONNECTED"
    /\ UNCHANGED dev

CatM1_update_handleConnected(h, next) ==
    /\ next = IF dev.link THEN "CONNECTED" ELSE "DISCONNECTED"
    /\ UNCHANGED dev

CatM1_update_handleDisconnecting(h, next) ==
    /\ Stopped
    /\ next = "DISCONNECTED"

CatM1_update_handleDisconnected(h, next) ==
    /\ Stopped
    /\ next = IF h.keep_alive THEN "INIT" ELSE "CLOSED"

=============================================================================
