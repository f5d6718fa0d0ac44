SPECIFICATION Spec
CONSTANTS
    a = a
    b = b
    l = l
    cfg = cfg
    Uris <- const_Uris
    LocsUri = l
    FppUris <- const_FppUris
    Missing = Missing
    TextsOf <- const_TextsOf
    InitDisk <- const_InitDisk
    Configs <- full_AndLocs
    ConfigUri = cfg
    MaxInbox = 2
    MaxEvents = 4
    HurriedIncludeEdits = FALSE
    Batches = TRUE
    DiskFaults = FALSE
INVARIANTS
    PanicsOnlyOnStaleNodes
CHECK_DEADLOCK FALSE
