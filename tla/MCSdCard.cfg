\* All kinds of SD cards, left alone or exchanged at any time, in sockets with and
\* without power control.  The other devices are not in use.
CONSTANTS
    Page = 2
    Sector = 4
    Size = 8
    Contents <- MCContents
    Buffers <- MCBuffers
    MaxCalls = 2
    MaxFailures = 1
    Depth = 2
    AdSizes = {0, 1, 3}
    PayloadSizes = {1, 5}
    FopenMax = 5
    Handles = {5, 6}
    Files = {f1, f2}
    MaxLength = 2
    Flags <- MCFlags
    Whences = {"SEEK_SET", "SEEK_END"}
    Kinds = {"mmc", "sd1", "sd2", "sd2block"}
    MaxSector = 3
    MaxCount = 2
    MaxEvents = 2
    CsrValues = 1
    Events = {e1}
    NCounters = 1
    MaxSeen = 0
    Orderly = TRUE
SPECIFICATION CardSpec
INVARIANTS
    TransferIsExact
    CardIsAtRest
    CardIsFound
PROPERTY
    CardCallsReturn
\* A read waits for ever if the card has gone, and MaxEvents bounds its return.
CHECK_DEADLOCK FALSE
