\* One hart that changes modes, with its interrupts enabled or not.
CONSTANTS
    W = 9
    Delay = 12
    Target = 2
    MaxTime = 71
    Harts = {h0}
    Demos = {"pic_interrupts"}
    MaxFlips = 0
    StaleIrq = FALSE
    PicEdge = FALSE
SPECIFICATION TrapsSpec
INVARIANT LevelIsCurrent
