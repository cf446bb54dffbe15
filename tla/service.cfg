SPECIFICATION FairSpec
CONSTANTS
    Environs <- MCEnvirons
    Accesses = {1, 2}
    MaxRestarts = 2
    MaxOutages = 1
INVARIANTS
    LoopHasTicker
    AckedDurable
PROPERTIES
    KeepsSchedule
    ShutdownEnds
    ReadyIffConfigured
    SweepsRecur
