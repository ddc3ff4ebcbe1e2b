-------------------- MODULE ConnectionHandlerDefinitions --------------------
(***************************************************************************)
(* The enumerations of ConnectionHandlerDefinitions.h.  The members of an  *)
(* enum are strings; NetworkConnectionEvent shares three of them with      *)
(* NetworkConnectionState because updateCallback pairs them by name.       *)
(***************************************************************************)

\* enum class NetworkConnectionState
NetworkConnectionState ==
    {"INIT", "CONNECTING", "CONNECTED",
     "DISCONNECTING", "DISCONNECTED", "CLOSED", "ERROR"}

\* enum class NetworkConnectionEvent: what a callback can be registered for
NetworkConnectionEvent == {"CONNECTED", "DISCONNECTED", "ERROR"}

\* enum class NetworkAdapter without NONE, which no concrete handler carries
NetworkAdapter ==
    {"WIFI", "ETHERNET", "NB", "GSM", "LORA", "CATM1", "CELL"}

\* The value of a variable that holds none of the above
None == "NONE"

=============================================================================
