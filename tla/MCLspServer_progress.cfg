SPECIFICATION Spec
CONSTANTS
    a = a
    b = b
    l = l
    cfg = cfg
    Uris <- const_Uris
    LocsUri = l
    FppUris <- const_FppUris
    Missing = Missing
    TextsOf <- const_TextsOf
    InitDisk <- const_InitDisk
    Configs <- all_Configs
    ConfigUri = cfg
    MaxInbox = 2
    MaxEvents = 2
    HurriedIncludeEdits = TRUE
    Batches = TRUE
    DiskFaults = TRUE
PROPERTIES
    ComesToRest
    ReloadsAreAnswered
CHECK_DEADLOCK FALSE
