SPECIFICATION Spec
CONSTANTS
    a = a
    b = b
    l = l
    cfg = cfg
    Uris <- const_Uris
    LocsUri = l
    FppUris <- const_FppUris
    Missing = Missing
    TextsOf <- const_TextsOf
    InitDisk <- const_InitDisk
    Configs <- all_Configs
    ConfigUri = cfg
    MaxInbox = 2
    MaxEvents = 3
    HurriedIncludeEdits = TRUE
    Batches = TRUE
    DiskFaults = TRUE
INVARIANTS
    TypeOK
    UnitsApart
    OpenDocumentsReachTheServer
    StopsWithNothingOwed
CHECK_DEADLOCK FALSE
