SPECIFICATION StorageSpec
CONSTANTS
    Requests = {"r1", "r2"}
    Payload <- MCPayload
    Names = {"a", "n"}
    low = low
    GaugeVals = {low}
    NaN = NaN
    Nil = Nil
    HalfRange = 4
    Readers = {"p1"}
    None = None
INVARIANT BatchIsAtomic
