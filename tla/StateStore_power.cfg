SPECIFICATION Spec
CONSTANTS
    MaxSaves = 4
    MaxFaults = 1
    MaxStatFaults = 1
    MaxCrashes = 0
    MaxPowerLosses = 1
PROPERTY
    PowerLossSparesAFlushedFile
