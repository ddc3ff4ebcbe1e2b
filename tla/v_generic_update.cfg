\* Settings of a type the board does not have.
SPECIFICATION Spec
CONSTANTS
    Settings = {"home"}
    NoSetting = "UNSET"
    EspCore = FALSE
    CanPing = TRUE
    DefaultTimeoutTable <- EveryTick
    Supported = {"WIFI"}
    Requested = {"WIFI", "LORA"}
    FaultyAdapters = {}
    TimeoutChoices = {0}
    RetimedStates = {}
    TimeoutTables = {}
    MaxElapsed = 1
    LoopCalls = {"updateSetting"}
    CallbackCalls = {}
    SetUpCallbacks = {"CONNECTED", "DISCONNECTED", "ERROR"}
    MaxNesting = 1
PROPERTIES
    FailedUpdateChangesNothing
