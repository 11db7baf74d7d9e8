SPECIFICATION Spec
CONSTANTS
    Requests = {"r1", "r3"}
    Payload <- RefusedNaNPayload
    Names = {"a", "n"}
    low = low
    NaN = NaN
    GaugeVals = {low, NaN}
    Nil = Nil
    HalfRange = 4
    Readers <- MCReaders
    None = None
    Saver = "saver"
    Main = "main"
    Mode = "periodic"
    Restore = TRUE
    ByRPC = {"r1"}
    IOFails = {"load", "create", "write", "rename"}
    MaxEpoch = 2
    NoFile = NoFile
    Torn = Torn
INVARIANTS FileIsSnapshot
PROPERTIES PeriodicSaves UpdatesAnswered
