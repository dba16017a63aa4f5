\* A flash chip of two sectors of two pages of two bytes, written twice, with one
\* failure.  FIFOs of two blocks, for commands of up to five: more than both hold.
\* Two descriptors, files and handles, of which one has the number of a descriptor.
\* Words of three values; two counters for three events, up to two of each.  The SD
\* card is not in use.  The calls of the flash and the handles of the host run out.
CONSTANTS
    Page = 2
    Sector = 4
    Size = 8
    Contents <- MCContents
    Buffers <- MCBuffers
    MaxCalls = 2
    MaxFailures = 1
    Depth = 2
    AdSizes = {0, 1, 3}
    PayloadSizes = {1, 5}
    FopenMax = 5
    Handles = {4, 5}
    Files = {f1, f2}
    MaxLength = 2
    Flags <- MCFlags
    Whences = {"SEEK_SET", "SEEK_CUR", "SEEK_END"}
    Kinds = {"sd2"}
    MaxSector = 0
    MaxCount = 1
    MaxEvents = 0
    CsrValues = 3
    Events = {e1, e2, e3}
    NCounters = 2
    MaxSeen = 2
    Orderly = TRUE
SPECIFICATION DevicesSpec
INVARIANTS
    WritesAreExact
    DamageIsLocal
    CommandIsExact
    DescriptorsAreExact
    EventsAreCounted
PROPERTIES
    CallsReturn
    ReadIsAccurate
CHECK_DEADLOCK FALSE
