SPECIFICATION Spec
CONSTANTS
    Manifest <- ResetManifest
    MaxValue = 1
    Faults = {"read", "save", "delete"}
    LegacyBands = {0, 5}
    Regions = {"EU_868"}
    Absent = Absent
    Corrupt = Corrupt
    Unloaded = Unloaded
    Unknown = Unknown
INVARIANTS CachesConsistent
PROPERTIES ResetIsComplete JoinKeepsCredentials
VIEW ResetView
