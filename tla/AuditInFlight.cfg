SPECIFICATION Spec
CONSTANTS
    Events = {"e1", "e2", "e3", "e4"}
    Cap = 2
    Observers <- MCObservers
    File = "file"
    Failing = {"url"}
    Nothing = "nothing"
INVARIANT InFlightDelivered
