\* Callbacks that call the handler, and come and go.
SPECIFICATION Spec
CONSTANTS
    Settings = {"home"}
    NoSetting = "UNSET"
    EspCore = FALSE
    CanPing = TRUE
    DefaultTimeoutTable <- EveryTick
    Adapters = {"WIFI", "ETHERNET", "NB", "GSM", "LORA", "CATM1", "CELL"}
    FaultyAdapters = {"WIFI", "ETHERNET", "NB", "GSM", "LORA", "CATM1", "CELL"}
    TimeoutChoices = {0}
    RetimedStates = {}
    TimeoutTables = {}
    MaxElapsed = 1
    LoopCalls = {"connect", "disconnect", "addCallback"}
    CallbackCalls = {"check", "connect", "disconnect", "setKeepAlive", "addCallback"}
    SetUpCallbacks = {}
    MaxNesting = 2
PROPERTIES
    NeverReopens
