\* One payload, and harts that may be late for their examination.
CONSTANTS
    Files = {"small"}
    MaxOpen = 3
    Faulty = FALSE
    N = 3
    Size <- MCSize
    Step = 2
    Ram <- MCRam
    FsblRam <- MCFsblRam
    Memory <- MCMemory
    Configs <- MCOneBoot
    Switches <- MCSwitches
    ReadErrors = FALSE
SPECIFICATION Spec
INVARIANT
    EveryHartIsStarted
CHECK_DEADLOCK FALSE
