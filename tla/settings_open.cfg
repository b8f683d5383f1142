SPECIFICATION Spec
CONSTANTS
    Manifest <- ResetManifest
    MaxValue = 1
    Faults = {"delete"}
    LegacyBands = {5}
    Regions = {"EU_868"}
    Absent = Absent
    Corrupt = Corrupt
    Unloaded = Unloaded
    Unknown = Unknown
INVARIANTS WriteIsDurable
PROPERTIES LegacyStaysSuperseded
