\* Two harts that change modes.
CONSTANTS
    W = 9
    Delay = 12
    Target = 2
    MaxTime = 71
    Harts = {h0, h1}
    Demos = {"pic_interrupts"}
    MaxFlips = 0
    StaleIrq = FALSE
    PicEdge = FALSE
SPECIFICATION TrapsSpec
INVARIANT LevelIsCurrent
