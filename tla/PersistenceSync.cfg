SPECIFICATION Spec
CONSTANTS
    Requests = {"r1", "r2", "r3"}
    Payload <- NaNPayload
    Names = {"a", "n"}
    low = low
    NaN = NaN
    GaugeVals = {low, NaN}
    Nil = Nil
    HalfRange = 2
    Readers <- MCReaders
    None = None
    Saver = "saver"
    Main = "main"
    Mode = "sync"
    Restore = TRUE
    ByRPC = {"r1"}
    IOFails = {}
    MaxEpoch = 2
    NoFile = NoFile
    Torn = Torn
INVARIANTS MemTypeOK NoHalfBatch SyncDurability
PROPERTIES KeepsItsPromise FileNeverRegresses UpdatesAnswered SignalStops
