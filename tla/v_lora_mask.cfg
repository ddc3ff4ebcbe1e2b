\* A LoRa sketch gives no channel mask.
SPECIFICATION DemoSpec
CONSTANTS
    Settings <- StoredSettings
    NoSetting <- NoSetting_
    EspCore = FALSE
    CanPing = TRUE
    DefaultTimeoutTable <- ShortTable
    Adapters = {"LORA"}
    FaultyAdapters = {}
    TimeoutChoices = {0, 2, 4}
    RetimedStates = {"INIT", "CONNECTING", "CONNECTED", "DISCONNECTING",
                     "DISCONNECTED", "CLOSED", "ERROR"}
    TimeoutTables = {}
    MaxElapsed = 7
    LoopCalls = {"connect", "disconnect", "enableCheckInternetAvailability",
                 "updateTimeoutInterval", "addCallback"}
    CallbackCalls = {}
    SetUpCallbacks = {}
    MaxNesting = 1
    Sketches = {"ConnectionHandlerDemo"}
    CONN_TOGGLE_MS = 5
    SketchTable <- LongTable
    MillisModulus = 13
    IntModulus = 13
    LongestLoop = 1
    HookTime <- BlockingHooks
    LongestHook = 5
    NULL = NULL
    Garbage = {0, 12}
INVARIANTS
    MaskOnlyIfConfigured
