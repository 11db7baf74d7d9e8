SPECIFICATION Spec
CONSTANTS
    Metrics = {"m1", "m2", "m3", "m4"}
    NaNs = {"m4"}
    BatchSize = 2
    Retries = 1
    MaxWaiting = 2
    MaxFailures = 4
INVARIANTS KeptUntilAnswered AcceptedIsNotResent
PROPERTIES AddReturns AllAnswered
CHECK_DEADLOCK FALSE
