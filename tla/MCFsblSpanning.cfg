\* One payload of the configuration, which encloses the loader's RAM.
CONSTANTS
    Files = {"huge"}
    MaxOpen = 3
    Faulty = FALSE
    N = 2
    Size <- MCSize
    Step = 2
    Ram <- MCRam
    FsblRam <- MCFsblRam
    Memory <- MCMemory
    Configs <- MCSpanning
    Switches <- MCSwitches
    ReadErrors = FALSE
SPECIFICATION Spec
INVARIANT
    OverlapsAreRefused
CHECK_DEADLOCK FALSE
