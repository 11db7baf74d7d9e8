SPECIFICATION Spec
CONSTANTS
    PollCount = "PollCount"
    Runtime = {}
    Memory = {}
    Cpu = {}
    Workers = {w1}
    Retries = 1
    NoJob = NoJob
    Transports = {"http", "grpc"}
    Database = TRUE
    MaxPolls = 1
    MaxReports = 2
    MaxLate = 0
INVARIANTS JobsConserved SentIsServed CountedByAttempt OldestFirst NoLossBeforeSignal GracefulIsComplete
PROPERTIES SignalStops JobsSettle
CHECK_DEADLOCK FALSE
