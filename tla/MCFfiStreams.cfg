\* Three threads on one stream and two clients, or two threads on two streams;
\* three hosts on two clients and two streams of one binding.
SPECIFICATION MCSpec
CONSTANTS
    Threads = {t1, t2, t3}
    ClientAddrs = {ca}
    StreamAddrs = {sa}
    ReportsUsage = {TRUE, FALSE}
    MaxClients = 2
    MaxStreams = 2
    MaxChunks = 2
    Languages = {"go", "node", "python"}
    Hosts = {t1, t2, t3}
    ClientHandles = {ch}
    StreamHandles = {sh}
    Null = Null
    Unmade = Unmade
    ClientObjects = {1, 2}
    StreamObjects = {3, 4}
CHECK_DEADLOCK FALSE
SYMMETRY Symmetry
INVARIANTS
    HandlesSound
    NoOrphanStream
    BindingsSound
PROPERTIES
    ImplementsEventStream
