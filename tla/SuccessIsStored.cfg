SPECIFICATION Spec
CONSTANTS
    Requests = {"agent", "bare", "wrong", "path", "batch", "halfBatch", "value", "pathValue", "page", "rpc", "badRPC"}
    Payload <- MCPayload
    Names = {"a", "n"}
    GaugeVals = {low, NaN}
    NaN = NaN
    Nil = Nil
    HalfRange = 4
    low = low
    Bad = Bad
    NoConfig = NoConfig
    NoHeader = NoHeader
    Inside <- MCInside
    Call <- MCCall
    Starts <- MCStarts
    MaxReceived = 1
INVARIANT SuccessIsStored
CHECK_DEADLOCK FALSE
