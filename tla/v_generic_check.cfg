\* The Internet check, enabled after the settings were provided.
SPECIFICATION Spec
CONSTANTS
    Settings = {"home"}
    NoSetting = "UNSET"
    EspCore = FALSE
    CanPing = TRUE
    DefaultTimeoutTable <- EveryTick
    Supported = {"WIFI"}
    Requested = {"WIFI"}
    FaultyAdapters = {}
    TimeoutChoices = {0}
    RetimedStates = {}
    TimeoutTables = {}
    MaxElapsed = 1
    LoopCalls = {"updateSetting", "enableCheckInternetAvailability"}
    CallbackCalls = {}
    SetUpCallbacks = {"CONNECTED", "DISCONNECTED", "ERROR"}
    MaxNesting = 1
PROPERTIES
    ChecksInternetOnceEnabled
