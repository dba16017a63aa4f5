\* wfi-demo on 32 and 64-bit harts, with and without wfi; two harts that change
\* modes, all nestings of traps; every demo of external interrupts, switches
\* flipped twice.
CONSTANTS
    W = 9
    Delay = 12
    Target = 2
    MaxTime = 71
    Harts = {h0, h1}
    Demos = {"plic_interrupts", "plic_priority", "pic_interrupts",
             "clic_interrupts", "clic_priority", "gpio_plic", "gpio_pic", "gpio_clic"}
    MaxFlips = 2
    StaleIrq = FALSE
    PicEdge = FALSE
SPECIFICATION TrapsSpec
INVARIANTS
    NoStrayInterrupt
    NoDrift
    ModeIsAccurate
    EachRequestIsHandledOnce
    HandlersRunAsAnnounced
PROPERTIES
    TimerMeasurementEnds
    EveryRequestIsServed
