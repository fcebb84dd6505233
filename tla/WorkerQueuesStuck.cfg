\* A replay against a worker that is killed while it holds a batch.
SPECIFICATION FairSpec
CONSTANTS
    NumWorkers = 1
    QueueSize = 1
    MaxBytes = 4
    Batches <- SmallAndLarge
    MaxReads = 2
    MaxDeaths = 1
PROPERTIES
    ReplayNeverStuck
