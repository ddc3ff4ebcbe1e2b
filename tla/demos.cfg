\* The sketches with a concrete handler, on a board whose millis() wraps at 13.
SPECIFICATION DemoSpec
CONSTANTS
    Settings <- StoredSettings
    NoSetting <- NoSetting_
    EspCore = FALSE
    CanPing = TRUE
    DefaultTimeoutTable <- ShortTable
    Adapters = {"WIFI", "ETHERNET", "LORA", "GSM", "NB", "CATM1", "CELL"}
    FaultyAdapters = {}
    TimeoutChoices = {0, 2, 4}
    RetimedStates = {"INIT", "CONNECTING", "CONNECTED", "DISCONNECTING",
                     "DISCONNECTED", "CLOSED", "ERROR"}
    TimeoutTables = {}
    MaxElapsed = 7
    LoopCalls = {"connect", "disconnect", "enableCheckInternetAvailability",
                 "updateTimeoutInterval", "addCallback"}
    CallbackCalls = {}
    SetUpCallbacks = {}
    MaxNesting = 1
    Sketches = {"ConnectionHandlerDemo", "CheckInternetAvailabilityDemo",
                "ConnectionHandlerTimeoutTable"}
    CONN_TOGGLE_MS = 5
    SketchTable <- LongTable
    MillisModulus = 13
    IntModulus = 13
    LongestLoop = 1
    HookTime <- BlockingHooks
    LongestHook = 5
    NULL = NULL
    Garbage = {0, 12}
INVARIANTS
    DemoTypeOK
    NoTickLost
    ToggleFindsClosed
    CredentialsArrive
PROPERTIES
    ImplementsConnectionHandler
