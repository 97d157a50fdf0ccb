SPECIFICATION Spec
CONSTANTS
    MaxSaves = 4
    MaxFaults = 2
    MaxStatFaults = 0
    MaxCrashes = 2
    MaxPowerLosses = 0
PROPERTY
    ImplementsAtomicStore
