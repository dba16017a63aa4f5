------------------------------ MODULE MCLocks ------------------------------
(***************************************************************************)
(* Small instances of the two demos that use the lock, for TLC: one of     *)
(* them runs, mutex-demo (MutexDemo) or clint-ipi (ClintIpi).              *)
(***************************************************************************)
EXTENDS MutexDemo

CONSTANTS N, W

ASSUME IpiAssumption == N \in Nat \ {0} /\ W \in Nat /\ W >= 2

VARIABLES which,                            \* the demo that runs
          iwaiting, idone, icounter, ibpc, iloaded, imutex, impc, istep, iisr,
          imie, imsip, idone_ctr, ioutput   \* clint-ipi

I == INSTANCE ClintIpi WITH
        waiting <- iwaiting, done <- idone, counter <- icounter, bpc <- ibpc,
        loaded <- iloaded, mutex <- imutex, mpc <- impc, step <- istep, isr <- iisr,
        mie <- imie, msip <- imsip, done_ctr <- idone_ctr, output <- ioutput

ivars == <<iwaiting, idone, icounter, ibpc, iloaded, imutex, impc, istep, iisr, imie,
           imsip, idone_ctr, ioutput>>
dvars == <<vars, demo>>
all == <<which, ivars, dvars>>

IpiDemo(A) == which = "clint_ipi" /\ A /\ UNCHANGED <<which, dvars>>
LockDemo(A) == which = "mutex_demo" /\ A /\ UNCHANGED <<which, ivars>>

LocksInit == which \in {"clint_ipi", "mutex_demo"} /\ I!Init /\ DemoInit
LocksNext == IpiDemo(I!Next) \/ LockDemo(DemoNext)

\* Every hart has a core of its own.
LocksSpec ==
    /\ LocksInit /\ [][LocksNext]_all
    /\ \A h \in I!Harts : WF_all(IpiDemo(I!HartStep(h))) /\ WF_all(IpiDemo(I!IsrStep(h)))
    /\ \A c \in Clients : WF_all(LockDemo(HartStep(c)))

\* clint-ipi: all the harts print that they send before any of them prints that
\* it has received, as the example output of its README shows.
SendsPrecedeReceives == I!SendsPrecedeReceives

\* clint-ipi: a handler does not wait for the lock that its own program holds.
HandlerNeverBlocksOnItself == I!HandlerNeverBlocksOnItself

\* clint-ipi says goodbye when each hart has printed both of its lines once, and
\* in mutex-demo every hart gets its turns, though bm_mutex_lock() is not fair.
DemosEnd ==
    /\ which = "clint_ipi" => I!DemoEnds
    /\ which = "mutex_demo" => EveryHartFinishes
=============================================================================
