\* Fair behaviours of every adapter; the modem of CatM1 may hang.
SPECIFICATION FairSpec
CONSTANTS
    Settings = {"home"}
    NoSetting = "UNSET"
    EspCore = FALSE
    CanPing = TRUE
    DefaultTimeoutTable <- ShortTable
    Adapters = {"WIFI", "ETHERNET", "NB", "GSM", "LORA", "CATM1", "CELL"}
    FaultyAdapters = {"CATM1"}
    TimeoutChoices = {0, 2}
    RetimedStates = {"CONNECTED"}
    TimeoutTables <- OneTable
    MaxElapsed = 3
    LoopCalls = {"connect", "disconnect", "setKeepAlive", "updateSetting",
                 "updateTimeoutInterval", "updateTimeoutTable"}
    CallbackCalls = {}
    SetUpCallbacks = {"CONNECTED", "DISCONNECTED", "ERROR"}
    MaxNesting = 1
PROPERTIES
    Reconnects
    DisconnectCompletes
    LossDetected
