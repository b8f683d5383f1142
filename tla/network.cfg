SPECIFICATION Spec
CONSTANTS
    t1 = t1
    t2 = t2
    Threads = {t1, t2}
    Clients <- AllClients
    MaxCalls = 4
    MaxEvents = 3
    MaskInputs <- Masks
    CheInputs <- Ches
    ChsInputs <- Frequencies
    SubBandInputs = {0, 2, 9}
    RawInputs <- Raws
    BandInputs = {"US_915", "AU_915", "EU_868"}
    Activations = {"OTAA"}
    StoredIdentities = {101, 102}
    LinkModes = {"disabled", "once", "every"}
    Addrs = {"a1", "a2"}
    McGroups = {0, 1, 2}
    Rates = {0, 3}
    Thresholds <- TheThresholds
    ScanTimes = {0, 9}
SYMMETRY Perms
CHECK_DEADLOCK FALSE
INVARIANTS MaskKept LinkKept IdentityReads RequestsKept SessionsKept
