SPECIFICATION Spec
CONSTANTS
    SlowCmds = {"FLUSH"}
    EqFullAt = 2
    MaxQueue = 3
    MaxResets = 2
INVARIANTS
    HeldIsReleasable
PROPERTIES
    DataServed
    OneTransfer
    SrstServed
