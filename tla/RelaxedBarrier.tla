--------------------------- MODULE RelaxedBarrier ---------------------------
(***************************************************************************)
(* The barrier of lib/src/barrier.c under the RISC-V weak memory model.    *)
(* The two plain stores of the release branch, waiting = 0 and done++, are *)
(* to different addresses and no fence is between them, so RVWMO lets them *)
(* become visible to the other harts in either order, up to the fence that *)
(* follows them.  The store of waiting may stay in the hart's store buffer *)
(* meanwhile.  All other accesses are as in Barrier: each of them is an    *)
(* atomic, is private to its hart, or reads the single word it waits for.  *)
(***************************************************************************)
EXTENDS Barrier

VARIABLE buffered   \* harts whose store waiting = 0 is not visible yet

relaxedVars == <<vars, buffered>>

RelaxedInit == Init /\ buffered = {}

\* waiting = 0 is executed: it enters the store buffer ...
IssueReset(h) ==
    /\ Goto(h, "reset", "load")
    /\ buffered' = buffered \cup {h}
    /\ UNCHANGED <<waiting, done, counter, loaded>>

\* ... and becomes visible at some point before the fence completes.
DrainReset(h) ==
    /\ h \in buffered
    /\ buffered' = buffered \ {h}
    /\ waiting' = 0
    /\ UNCHANGED <<done, counter, pc, loaded>>

FenceDrained(h) ==
    /\ h \notin buffered
    /\ Fence(h)
    /\ UNCHANGED buffered

InOrder(h) ==
    /\ Enter(h) \/ Arrive(h) \/ LoadDone(h) \/ StoreDone(h) \/ SpinExit(h)
    /\ UNCHANGED buffered

RelaxedStep(h) == IssueReset(h) \/ FenceDrained(h) \/ InOrder(h)

RelaxedNext == \E h \in Harts : RelaxedStep(h) \/ DrainReset(h)

\* Harts that use the barrier again and again, store buffers that drain.
RelaxedLoopSpec ==
    /\ RelaxedInit /\ [][RelaxedNext]_relaxedVars
    /\ \A h \in Harts : WF_relaxedVars(RelaxedStep(h)) /\ WF_relaxedVars(DrainReset(h))
=============================================================================
