SPECIFICATION FairSpec
CONSTANTS
    BufferSize = 2
    BatchSize = 2
    Attempts = 2
    MaxSaves = 4
INVARIANTS
    Accounting
    DropCountSound
    DrainComplete
PROPERTIES
    ImplementsSink
    CloseReturns
    RowsSettle
