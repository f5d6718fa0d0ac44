SPECIFICATION MCSpec
CONSTANTS
    x = x
    y = y
    z = z
    p = p
    l = l
    o = o
    c = c
    d = d
    e = e
    g = g
    h = h
    docA = docA
    docB = docB
    t1 = t1
    t2 = t2
    Definitions <- const_Definitions
    Root = Root
    States <- const_States
    ChoiceDefs <- const_ChoiceDefs
    Signals <- const_Signals
    TopLevel = TopLevel
    Stay = Stay
    Types <- const_Types
    hub = hub
    fan = fan
    rx = rx
    ry = ry
    hout = hout
    hin = hin
    f1 = f1
    f2 = f2
    f3 = f3
    xout = xout
    xin = xin
    yout = yout
    yin = yin
    sIn = sIn
    sOut = sOut
    tIn = tIn
    NoNumber = NoNumber
    Endpoints <- const_Endpoints
    Ports <- const_Ports
    SideOf <- const_SideOf
    SizeOf <- const_SizeOf
    InstanceOf <- const_InstanceOf
    Matchings <- const_Matchings
    Instances <- const_Instances
    TopologyOf <- const_TopologyOf
    PortsOfKind <- const_PortsOfKind
    Uris <- const_Uris
    Units <- const_Units
    Nobody = Nobody
    Analysis = Analysis
    MaxIds = 4
INVARIANTS
    PassedMeansGrounded
    StoppedMeansCycle
    ErrorShowsAPath
    BlockedIffCyclic
    ReportedCyclesAreCycles
    RecursionEnds
    ActionsRunInContext
    ValuesSuitTheirSites
    NumbersSolve
    RefusedHasNone
    EverythingArrives
    PatternsConnectOnce
    TypeOK
    NoOrphans
    ShownIsRemembered
PROPERTIES
    AnalysisEnds
    ReactionsEnd
    OnlyTheOwnersAreRemoved
    PushIsAuthoritative
CHECK_DEADLOCK FALSE
