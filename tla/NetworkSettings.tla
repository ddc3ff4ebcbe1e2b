--------------------------- MODULE NetworkSettings ---------------------------
(***************************************************************************)
(* models::NetworkSetting: one fixed buffer per text, tagged with the type *)
(* of the interface.  A text is its length, or NULL; what it says is left  *)
(* out, and so are the members that are numbers (bands, timeouts).         *)
(***************************************************************************)
EXTENDS Naturals, ConnectionHandlerDefinitions

CONSTANT NULL

ASSUME NULLAssumption == NULL \notin Nat

Cellular == {"NB", "GSM", "CATM1", "CELL"}

\* The sizes of the buffers, terminator included.
Buffers(type) ==
    CASE type = "WIFI" -> [ssid |-> 33, pwd |-> 64]
      [] type \in Cellular -> [pin |-> 9, apn |-> 101, login |-> 65, pass |-> 65]
      [] type = "LORA" -> [appeui |-> 17, appkey |-> 33, channelMask |-> 13]
      [] type = "ETHERNET" -> <<>>

\* The longest texts that the comments on those sizes allow; a PIN, a login and a
\* mask have no comment and may fill their buffer.
Longest(type) ==
    CASE type = "WIFI" -> [ssid |-> 32, pwd |-> 63]
      [] type \in Cellular -> [pin |-> 8, apn |-> 100, login |-> 64, pass |-> 64]
      [] type = "LORA" -> [appeui |-> 16, appkey |-> 32, channelMask |-> 12]
      [] type = "ETHERNET" -> <<>>

settingsDefault(type) ==
    [type |-> type, text |-> [b \in DOMAIN Buffers(type) |-> 0]]

\* Mutant: one byte too few.
strncpy_Short(text, size, garbage) ==
    IF text = NULL THEN garbage
    ELSE IF text < size - 2 THEN text ELSE size - 2

\* strncpy(buffer, text, sizeof(buffer) - 1) into a buffer of zeros, as that of a
\* global object is.  A copy from NULL is undefined: it leaves some garbage.
strncpy(text, size, garbage) ==
    IF text = NULL THEN garbage
    ELSE IF text < size - 1 THEN text ELSE size - 1

\* The settings that a constructor given the texts leaves.
Stored(type, texts, garbage) ==
    [type |-> type,
     text |-> [b \in DOMAIN texts |-> strncpy(texts[b], Buffers(type)[b], garbage)]]

=============================================================================
