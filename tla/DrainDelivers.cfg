SPECIFICATION Spec
CONSTANTS
    PollCount = "PollCount"
    Runtime = {}
    Memory = {}
    Cpu = {}
    Workers = {w1}
    Retries = 1
    NoJob = NoJob
    Transports = {"http"}
    Database = FALSE
    MaxPolls = 1
    MaxReports = 1
    MaxLate = 0
INVARIANTS DrainDelivers
CHECK_DEADLOCK FALSE
