SPECIFICATION FairSpec
CONSTANTS
    a = a
    b = b
    None = None
    Clients = {a, b}
    Owner = b
    MaxWorkers = 2
    Tasks = {1, 2, 4, 10, 11}
    Nested = {1}
    Recursive = TRUE
    BusyFactor = 0
    InitialSizes = {0, 1, 2}
    Sizes = {0, 2}
    MaxResizes = 1
    Careful = FALSE
    Bounds = {0, 3, 8}
    AskedSizes = {0, 2, 9}
    MinItems = {1, 2}
    Work <- MCWork
    Fired <- MCFired
    Subtasks <- MCSubtasks
INVARIANTS TypeOK EachTaskOnce DestructorRunsAll
PROPERTIES ChunksCoverOnce LoopsEnd FiredTasksRun OwnerReturns
