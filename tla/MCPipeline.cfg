\* Three records, a ring and a queue that overflow, with one sink or none.
CONSTANTS
    Header <- Headers
    Config = {{}, {"collector"}, {"otlp"}}
    RingCap = 1
    QueueCap = 2
    SpanCap = 2
    MaxRecords = 3
SPECIFICATION FairSpec
INVARIANTS QueueOpenWhileReading CloseDrainsQueue InOrderUnlessLate
PROPERTIES StoresAtMostOnce StopsAfterSignal
CHECK_DEADLOCK FALSE
