SPECIFICATION FairSpec
CONSTANTS
    Clients = {c1, c2}
    Platforms = {"windows", "posix"}
INVARIANTS
    TypeOK
    ShutdownIsFinal
    RegistryOutlivesSweep
    CrashNeedsInterruptedRun
    ExposureNeedsHandler
PROPERTY
    SignalEndsProcess
CHECK_DEADLOCK FALSE
