------------------------- MODULE MCConnectionHandler -------------------------
(***************************************************************************)
(* ConnectionHandler with the constants of the TLC runs.  The intervals    *)
(* keep the order of the default table, not its milliseconds: one unit of  *)
(* the clock is enough where a run does not ask about time, and the        *)
(* liveness run keeps "connected" the longest interval and "disconnecting" *)
(* the shortest.                                                           *)
(***************************************************************************)
EXTENDS ConnectionHandler

\* Every state is due at each tick of the clock.
EveryTick == [st \in NetworkConnectionState |-> 0]

\* The shape of DefaultTimeoutTable, scaled down.
ShortTable ==
    [st \in NetworkConnectionState |->
        CASE st = "CONNECTED" -> 2
          [] st = "DISCONNECTING" -> 0
          [] OTHER -> 1]

OneTable == {EveryTick}

=============================================================================
