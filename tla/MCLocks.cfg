\* clint-ipi with three harts in a ring; mutex-demo with three harts and two
\* rounds.  The demos end, and stop.
CONSTANTS
    N = 3
    W = 4
    Clients = {h0, h1, h2}
    Rounds = 2
SPECIFICATION LocksSpec
INVARIANTS
    MutualExclusion
    SendsPrecedeReceives
PROPERTY
    DemosEnd
CHECK_DEADLOCK FALSE
