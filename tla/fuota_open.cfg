SPECIFICATION Spec
CONSTANTS
    a1 = a1
    a2 = a2
    Appliers = {a1}
    Chunks = 2
    Scenarios <- Open
CHECK_DEADLOCK FALSE
INVARIANTS ApplyingIsReal CompleteHasImage ReadyImageStays TransferringIsActive SizeIsCurrent ApplyHoldsFlash UpgradeAlwaysWhole KeepaliveWaits
PROPERTIES BackendSizeWins
