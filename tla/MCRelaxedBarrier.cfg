\* Two harts that use the barrier again and again.
CONSTANTS
    Harts = {h0, h1}
    W = 3
SPECIFICATION RelaxedLoopSpec
PROPERTY
    NobodyIsStuck
CHECK_DEADLOCK FALSE
