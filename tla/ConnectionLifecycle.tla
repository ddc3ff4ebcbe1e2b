------------------------- MODULE ConnectionLifecycle -------------------------
(***************************************************************************)
(* What a connection handler promises a sketch, whatever the adapter and   *)
(* the network: the states a tick or a call may lead to, and the events    *)
(* the sketch is told on the way.  ERROR and CLOSED are left by a call     *)
(* only; a loss goes through DISCONNECTED, where keep_alive alone decides; *)
(* CONNECTED is reached through CONNECTING; no change into a state that    *)
(* has an event goes untold, and nothing else is told.                     *)
(***************************************************************************)
EXTENDS ConnectionHandlerDefinitions

VARIABLES
    state,       \* the state the handler reports
    keep_alive,  \* whether it reopens a connection that is gone
    told         \* the last event it told the sketch

vars == <<state, keep_alive, told>>

Init ==
    /\ state = "INIT"
    /\ keep_alive \in BOOLEAN
    /\ told = None

-----------------------------------------------------------------------------
(* Ticks: the handler moves by itself and tells.                           *)

MovesTo(next) ==
    /\ state' = next
    /\ told' = IF next \in NetworkConnectionEvent THEN next ELSE told
    /\ UNCHANGED keep_alive

Attempt ==
    /\ state = "INIT"
    /\ \E next \in {"CONNECTING", "DISCONNECTED", "ERROR"} : MovesTo(next)

Confirm ==
    /\ state = "CONNECTING"
    /\ \E next \in {"CONNECTED", "INIT", "DISCONNECTED", "ERROR"} : MovesTo(next)

Lose == state = "CONNECTED" /\ MovesTo("DISCONNECTED")

Release == state = "DISCONNECTING" /\ MovesTo("DISCONNECTED")

Settle ==
    /\ state = "DISCONNECTED"
    /\ MovesTo(IF keep_alive THEN "INIT" ELSE "CLOSED")

-----------------------------------------------------------------------------
(* Calls: they take effect at once, and tell nothing.                      *)

Connect ==
    /\ state \notin {"INIT", "CONNECTING"}
    /\ state' = "INIT" /\ keep_alive' = TRUE
    /\ UNCHANGED told

Disconnect ==
    /\ state' = "DISCONNECTING" /\ keep_alive' = FALSE
    /\ UNCHANGED told

SetKeepAlive ==
    /\ keep_alive' \in BOOLEAN
    /\ UNCHANGED <<state, told>>

-----------------------------------------------------------------------------

Next ==
    \/ Attempt \/ Confirm \/ Lose \/ Release \/ Settle
    \/ Connect \/ Disconnect \/ SetKeepAlive

Spec == Init /\ [][Next]_vars

=============================================================================
