-------------------------- MODULE AbstractBarrier --------------------------
(***************************************************************************)
(* What bm_barrier_wait() promises (barrier.h: "Wait until all harts call  *)
(* this function"): the harts meet.  Nobody gets past the barrier before   *)
(* everybody has called it, and once everybody has called it everybody     *)
(* gets past it, as often as the barrier is used.                          *)
(***************************************************************************)
CONSTANT Harts

VARIABLE st     \* st[h]: "out" of the barrier, waiting "in" it, or set "free"

vars == st

Init == st = [h \in Harts |-> "out"]

\* Hart h calls bm_barrier_wait().
Arrive(h) ==
    /\ st[h] = "out"
    /\ st' = [st EXCEPT ![h] = "in"]

\* All harts are inside: the barrier opens for all of them at once.
Open ==
    /\ \A h \in Harts : st[h] = "in"
    /\ st' = [h \in Harts |-> "free"]

\* Hart h returns from bm_barrier_wait().
Leave(h) ==
    /\ st[h] = "free"
    /\ st' = [st EXCEPT ![h] = "out"]

Next ==
    \/ Open
    \/ \E h \in Harts : Arrive(h) \/ Leave(h)

Spec == Init /\ [][Next]_vars

\* A full barrier opens and a hart set free leaves; nothing makes a hart call
\* the barrier in the first place.
FairSpec ==
    /\ Spec
    /\ WF_vars(Open)
    /\ \A h \in Harts : WF_vars(Leave(h))
=============================================================================
