SPECIFICATION Spec
CONSTANTS
    Manifest <- PolicyManifest
    MaxValue = 1
    Faults = {"read", "save"}
    LegacyBands = {0, 5}
    Regions = {"EU_868"}
    Absent = Absent
    Corrupt = Corrupt
    Unloaded = Unloaded
    Unknown = Unknown
INVARIANTS RebootRestores
