\* Every adapter; loop() calls the methods, the callbacks only look.
SPECIFICATION Spec
CONSTANTS
    Settings = {"home", "field"}
    NoSetting = "UNSET"
    EspCore = FALSE
    CanPing = TRUE
    DefaultTimeoutTable <- EveryTick
    Adapters = {"WIFI", "ETHERNET", "NB", "GSM", "LORA", "CATM1", "CELL"}
    FaultyAdapters = {"WIFI", "ETHERNET", "NB", "GSM", "LORA", "CATM1", "CELL"}
    TimeoutChoices = {0}
    RetimedStates = {}
    TimeoutTables = {}
    MaxElapsed = 1
    LoopCalls = {"connect", "disconnect", "setKeepAlive",
                 "enableCheckInternetAvailability", "updateSetting"}
    CallbackCalls = {}
    SetUpCallbacks = {"CONNECTED", "DISCONNECTED", "ERROR"}
    MaxNesting = 1
INVARIANTS
    TypeOK
    EventsExplainState
    DisconnectHonoured
    DisconnectReleasesLink
    SettingsInForce
PROPERTIES
    InternetCheckedBeforeConnected
    ImplementsLifecycle
