\* WiFi, new settings while an association is up.
SPECIFICATION Spec
CONSTANTS
    Settings = {"home", "field"}
    NoSetting = "UNSET"
    EspCore = FALSE
    CanPing = TRUE
    DefaultTimeoutTable <- EveryTick
    Adapters = {"WIFI"}
    FaultyAdapters = {}
    TimeoutChoices = {0}
    RetimedStates = {}
    TimeoutTables = {}
    MaxElapsed = 1
    LoopCalls = {"connect", "updateSetting"}
    CallbackCalls = {}
    SetUpCallbacks = {"CONNECTED", "DISCONNECTED", "ERROR"}
    MaxNesting = 1
INVARIANTS
    WiFiSettingsInForce
