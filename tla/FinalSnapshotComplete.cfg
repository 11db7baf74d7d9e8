SPECIFICATION Spec
CONSTANTS
    Requests = {"r1", "r2", "r3"}
    Payload <- MCPayload
    Names = {"a", "n"}
    low = low
    NaN = NaN
    GaugeVals = {low, NaN}
    Nil = Nil
    HalfRange = 4
    Readers <- MCReaders
    None = None
    Saver = "saver"
    Main = "main"
    Mode = "sync"
    Restore = TRUE
    ByRPC = {}
    IOFails = {}
    MaxEpoch = 1
    NoFile = NoFile
    Torn = Torn
INVARIANTS FinalSnapshotComplete
