----------------------- MODULE MCConnectionHandlerDemo -----------------------
(***************************************************************************)
(* ConnectionHandlerDemo with the constants of the TLC runs.  The units of *)
(* the clock keep the order of the intervals and of the toggle.            *)
(***************************************************************************)
EXTENDS ConnectionHandlerDemo

\* The shape of DefaultTimeoutTable, and the sketch's table, twice as long.
ShortTable ==
    [st \in NetworkConnectionState |->
        CASE st = "CONNECTED" -> 2
          [] st = "DISCONNECTING" -> 0
          [] OTHER -> 1]

LongTable == [st \in NetworkConnectionState |-> 2 * ShortTable[st]]

\* INIT blocks as long as a period of the toggle, a shutdown for less.
BlockingHooks ==
    [st \in NetworkConnectionState |->
        CASE st = "INIT" -> 5
          [] st = "DISCONNECTING" -> 2
          [] OTHER -> 0]

NoSetting_ == [type |-> None, text |-> <<>>]

StoredSettings ==
    {Stored(type, Secrets(type), g) : type \in NetworkAdapter, g \in Garbage}

=============================================================================
