\* Three harts that use the barrier again and again: a last one, a slow one and
\* a fast one that comes back.  Counters modulo 3 wrap around out of phase with
\* the two halves of a use.
CONSTANTS
    Harts = {h0, h1, h2}
    W = 3
SPECIFICATION LoopSpec
INVARIANTS
    WaitingIsExact
PROPERTIES
    IsALiveBarrier
