\* A board with two adapters, settings of a third; callbacks only look.
SPECIFICATION Spec
CONSTANTS
    Settings = {"home"}
    NoSetting = "UNSET"
    EspCore = FALSE
    CanPing = TRUE
    DefaultTimeoutTable <- SlowInit
    Supported = {"WIFI", "CATM1"}
    Requested = {"WIFI", "CATM1", "LORA"}
    FaultyAdapters = {"WIFI"}
    TimeoutChoices = {1}
    RetimedStates = {"CONNECTED"}
    TimeoutTables <- OneTable
    MaxElapsed = 2
    LoopCalls = {"connect", "disconnect", "setKeepAlive",
                 "enableCheckInternetAvailability", "updateSetting",
                 "updateTimeoutInterval", "updateTimeoutTable"}
    CallbackCalls = {}
    SetUpCallbacks = {"CONNECTED", "DISCONNECTED", "ERROR"}
    MaxNesting = 1
INVARIANTS
    TypeOK
    InSync
    DisconnectHonoured
    EventsExplainState
PROPERTIES
    WrapsHandler
    ImplementsLifecycle
