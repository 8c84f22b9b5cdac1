SPECIFICATION FairLifeSpec
CONSTANTS
    Worker = {w1, w2, w3}
    Producer = {Main}
    Main = Main
    MaxTasks = 2
    MaxSignals = 2
INVARIANTS LifeTypeOK RunOnce NoLostWakeup HandlersHaveDatabase
PROPERTIES ImplementsTaskService AcceptedRuns SignalHeeded
CHECK_DEADLOCK FALSE
