\* Callbacks that call the generic handler.
SPECIFICATION Spec
CONSTANTS
    Settings = {"home"}
    NoSetting = "UNSET"
    EspCore = FALSE
    CanPing = TRUE
    DefaultTimeoutTable <- EveryTick
    Supported = {"WIFI", "CATM1"}
    Requested = {"WIFI", "CATM1"}
    FaultyAdapters = {"WIFI", "CATM1"}
    TimeoutChoices = {0}
    RetimedStates = {}
    TimeoutTables = {}
    MaxElapsed = 1
    LoopCalls = {"connect", "disconnect", "updateSetting"}
    CallbackCalls = {"check", "connect", "disconnect", "updateSetting", "addCallback"}
    SetUpCallbacks = {"CONNECTED", "DISCONNECTED", "ERROR"}
    MaxNesting = 2
INVARIANTS
    DisconnectHonoured
