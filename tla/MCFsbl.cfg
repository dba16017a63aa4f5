\* Every configuration of at most two entries out of eight, and the menu; any
\* call to the card may fail, and any hart may be late.
CONSTANTS
    Files = {"small", "big", "huge"}
    MaxOpen = 3
    Faulty = TRUE
    N = 3
    Size <- MCSize
    Step = 2
    Ram <- MCRam
    FsblRam <- MCFsblRam
    Memory <- MCMemory
    Configs <- MCConfigs
    Switches <- MCSwitches
    ReadErrors = FALSE
SPECIFICATION FairSpec
INVARIANTS
    ConfigStaysReadable
    CardIsReleased
    LoadedAsConfigured
    FsblIsIntact
PROPERTY
    BootEnds
CHECK_DEADLOCK FALSE
