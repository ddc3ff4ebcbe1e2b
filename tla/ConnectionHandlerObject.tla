----------------------- MODULE ConnectionHandlerObject -----------------------
(***************************************************************************)
(* The members of the class ConnectionHandler and the methods that write   *)
(* nothing else.  An object is a record; a method is an operator from the  *)
(* object to the object after the call.                                    *)
(***************************************************************************)
EXTENDS Naturals, NetworkDriver

CONSTANTS
    DefaultTimeoutTable  \* the interval a handler waits in each state

Handler ==
    [interface      : NetworkAdapter,
     state          : NetworkConnectionState,
     keep_alive     : BOOLEAN,
     check_internet : BOOLEAN,
     settings       : Settings \cup {NoSetting},
     timeoutTable   : [NetworkConnectionState -> Nat],
     callbacks      : SUBSET NetworkConnectionEvent]

\* What the constructor of the base class leaves, with the two members that the
\* constructors of the adapters set after it: settings and check_internet.
Constructed(interface, keep_alive, check_internet, settings) ==
    [interface      |-> interface,
     state          |-> "INIT",
     keep_alive     |-> keep_alive,
     check_internet |-> check_internet,
     settings       |-> settings,
     timeoutTable   |-> DefaultTimeoutTable,
     callbacks      |-> {}]

-----------------------------------------------------------------------------
(* Methods that write members only.                                        *)

connect(h) ==
    IF h.state \in {"INIT", "CONNECTING"}
    THEN h
    ELSE [h EXCEPT !.keep_alive = TRUE, !.state = "INIT"]

\* Mutant: disconnect() leaves _keep_alive alone.
disconnect_KeepsAlive(h) == [h EXCEPT !.state = "DISCONNECTING"]

disconnect(h) ==
    [h EXCEPT !.keep_alive = FALSE, !.state = "DISCONNECTING"]

setKeepAlive(h, keep_alive) == [h EXCEPT !.keep_alive = keep_alive]

enableCheckInternetAvailability(h, enable) ==
    [h EXCEPT !.check_internet = enable]

\* Mutant: updateSetting() accepts settings in every state.
acceptsSetting_AnyState(h, type) == type = h.interface

\* The settings are of some type of interface; the method returns TRUE iff it
\* copied them.
acceptsSetting(h, type) == h.state = "INIT" /\ type = h.interface

updateSetting(h, type, s) ==
    IF acceptsSetting(h, type) THEN [h EXCEPT !.settings = s] ELSE h

updateTimeoutInterval(h, state, interval) ==
    [h EXCEPT !.timeoutTable[state] = interval]

updateTimeoutTable(h, table) == [h EXCEPT !.timeoutTable = table]

\* A null callback unregisters.
addCallback(h, event, registered) ==
    [h EXCEPT !.callbacks = IF registered THEN @ \cup {event} ELSE @ \ {event}]

=============================================================================
