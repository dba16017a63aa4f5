\* wfi-demo on a 32-bit hart that reads MTIME by halves.
CONSTANTS
    W = 9
    Delay = 12
    Target = 2
    MaxTime = 71
    Harts = {h0}
    Demos = {"pic_interrupts"}
    MaxFlips = 0
    StaleIrq = FALSE
    PicEdge = FALSE
SPECIFICATION TrapsSpec
INVARIANT ArmedFromNow
