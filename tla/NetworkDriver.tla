---------------------------- MODULE NetworkDriver ----------------------------
(***************************************************************************)
(* The network stack below a connection handler, reduced to what the hooks *)
(* of the handlers call and test: the driver library of the board (WiFi,   *)
(* Ethernet, GSM/GPRS, NB, LoRaModem, ArduinoCellular), the hardware under *)
(* it and the network around it.  None of it is in the repository: its     *)
(* operators are modelled from how the handlers use them.                  *)
(*                                                                         *)
(* What a driver call answers depends on the moment it is made.  The       *)
(* environment may change the network between any two steps of the         *)
(* program, so an answer computed from the current network is as           *)
(* unpredictable to the handler as the real one.                           *)
(***************************************************************************)
EXTENDS ConnectionHandlerDefinitions

CONSTANTS
    Settings,   \* the settings (credentials) an application may provide
    NoSetting,  \* the value of _settings before any were provided
    EspCore,    \* TRUE iff built for ARDUINO_ARCH_ESP8266 or _ESP32
    CanPing     \* FALSE where ping() is a stub that returns 0 (Zephyr)

VARIABLE dev

Device ==
    [fault    : BOOLEAN,   \* hardware, SIM or modem does not answer
     coverage : BOOLEAN,   \* the network can be reached: signal or cable
     internet : BOOLEAN,   \* the network reaches the Internet
     started  : BOOLEAN,   \* begin() was called and nothing stopped it since
     link     : BOOLEAN,   \* associated, attached or joined
     cfg      : Settings \cup {NoSetting},  \* the settings begin() was given
     mask     : Settings \cup {NoSetting},  \* those whose channel mask LoRa sent
     reset    : BOOLEAN]   \* CatM1's _reset, the one member a hook writes

\* A board that has just been powered on, under any network.
PoweredOn ==
    /\ dev \in Device
    /\ ~dev.started /\ ~dev.link
    /\ dev.cfg = NoSetting /\ dev.mask = NoSetting

\* The network would admit a device that uses the settings s.
Admits(s) == dev.coverage /\ ~dev.fault /\ s # NoSetting

\* begin(s) returned, with the link up or not.
Began(s, up) ==
    dev' = [dev EXCEPT !.started = TRUE, !.cfg = s, !.link = up]

\* disconnect(), shutdown() or end() returned.
Stopped == dev' = [dev EXCEPT !.started = FALSE, !.link = FALSE]

\* ping("time.arduino.cc") >= 0
PingOk == CanPing => dev.link /\ dev.internet

-----------------------------------------------------------------------------
(* The environment.                                                        *)

\* A started driver associates on its own once the network admits it.
Associate ==
    /\ dev.started /\ ~dev.link
    /\ Admits(dev.cfg)
    /\ dev' = [dev EXCEPT !.link = TRUE]

LoseNetwork ==
    /\ dev.coverage
    /\ dev' = [dev EXCEPT !.coverage = FALSE, !.link = FALSE]

FindNetwork ==
    /\ ~dev.coverage
    /\ dev' = [dev EXCEPT !.coverage = TRUE]

\* The network stays, its route to the Internet comes or goes.
ToggleInternet == dev' = [dev EXCEPT !.internet = ~@]

HardwareFails ==
    /\ ~dev.fault
    /\ dev' = [dev EXCEPT !.fault = TRUE, !.link = FALSE]

=============================================================================
