SPECIFICATION Spec
CONSTANTS
    CallIds = {c1, c2}
    KindsOf <- MCKindsOf
    Keys = {k1}
    Ports = {p1}
    Threads = {c1, c2, main}
    Creds = {c1, c2}
    NoKey = NoKey
    NoPort = NoPort
    NoThread = NoThread
    NoCred = NoCred
    Lost = Lost
    Main = main
    OldFile = OldFile
    NoFile = NoFile
    c1 = c1
    c2 = c2
    main = main
    k1 = k1
    p1 = p1
INVARIANTS
    DeviceUnderMutex
    EnrolledKeyExists
PROPERTIES
    EveryCallEnds
CHECK_DEADLOCK FALSE
