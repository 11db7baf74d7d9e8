SPECIFICATION Spec
CONSTANTS
    Requests = {"r1", "r2", "r3"}
    Payload <- MCPayload
    Names = {"n", "m"}
    low = low
    high = high
    GaugeVals = {low, high}
    NaN = NaN
    Nil = Nil
    HalfRange = 4
    Batches = {"r1", "r2"}
    Retries = 1
    MaxConns = 2
INVARIANTS NeverStuck Serializable AnswersTell CountedOnce RefusedIsRolledBack NothingLeaks
PROPERTIES CallsReturn
CHECK_DEADLOCK FALSE
