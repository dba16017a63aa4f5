------------------------------ MODULE Barrier ------------------------------
(***************************************************************************)
(* The sense-counting barrier of lib/src/barrier.c.  Every load and store  *)
(* of a location that another hart accesses is a step of its own.  The     *)
(* memory is sequentially consistent here.                                 *)
(***************************************************************************)
EXTENDS Integers, FiniteSets

CONSTANTS Harts,    \* the harts of the target, TARGET_NUM_HARTS of them
          W         \* modulus of the uint32_t counters (2^32 in the code)

ASSUME HartsAssumption == IsFiniteSet(Harts) /\ Harts # {}
ASSUME WAssumption == W \in Nat /\ W >= 2

VARIABLES waiting,  \* bm_barrier_t.waiting
          done,     \* bm_barrier_t.done
          counter,  \* bm_barrier_t.counter[]
          pc,       \* where each hart is in bm_barrier_wait(), "out" if not in it
          loaded    \* per hart: the register holding the value of done++'s load

vars == <<waiting, done, counter, pc, loaded>>

NumHarts == Cardinality(Harts)

Succ(c) == (c + 1) % W      \* ++ on a uint32_t

Goto(h, from, to) ==
    /\ pc[h] = from
    /\ pc' = [pc EXCEPT ![h] = to]

\* bm_barrier_init(), run once before any hart uses the barrier.
Init ==
    /\ waiting = 0
    /\ done = 0
    /\ counter = [h \in Harts |-> 0]
    /\ pc = [h \in Harts |-> "out"]
    /\ loaded = [h \in Harts |-> 0]

\* Mutant: no per-hart counter, every hart waits for done = 0.
Enter_NoSense(h) ==
    /\ Goto(h, "out", "arrive")
    /\ UNCHANGED <<waiting, done, counter, loaded>>

\* barrier->counter[hartid]++
Enter(h) ==
    /\ Goto(h, "out", "arrive")
    /\ counter' = [counter EXCEPT ![h] = Succ(@)]
    /\ UNCHANGED <<waiting, done, loaded>>

\* bm_amoadd_w(old, 1, &barrier->waiting) and the test of old.
Arrive(h) ==
    /\ Goto(h, "arrive", IF waiting = NumHarts - 1 THEN "reset" ELSE "spin")
    /\ waiting' = waiting + 1
    /\ UNCHANGED <<done, counter, loaded>>

\* Mutant: the releasing hart only takes itself off the count.
ResetWaiting_Decrement(h) ==
    /\ Goto(h, "reset", "load")
    /\ waiting' = waiting - 1
    /\ UNCHANGED <<done, counter, loaded>>

\* barrier->waiting = 0
ResetWaiting(h) ==
    /\ Goto(h, "reset", "load")
    /\ waiting' = 0
    /\ UNCHANGED <<done, counter, loaded>>

\* barrier->done++ is a load of done ...
LoadDone(h) ==
    /\ Goto(h, "load", "store")
    /\ loaded' = [loaded EXCEPT ![h] = done]
    /\ UNCHANGED <<waiting, done, counter>>

\* ... and a store of it.
StoreDone(h) ==
    /\ Goto(h, "store", "fence")
    /\ done' = Succ(loaded[h])
    /\ UNCHANGED <<waiting, counter, loaded>>

\* bm_exec_fence() and return: no effect under sequential consistency.
Fence(h) ==
    /\ Goto(h, "fence", "out")
    /\ UNCHANGED <<waiting, done, counter, loaded>>

\* The read of barrier->done that ends the loop.
SpinExit(h) ==
    /\ counter[h] = done
    /\ Goto(h, "spin", "out")
    /\ UNCHANGED <<waiting, done, counter, loaded>>

\* What a hart inside bm_barrier_wait() does next; an iteration of the loop
\* that does not leave it changes nothing.
Continue(h) ==
    \/ Arrive(h)
    \/ ResetWaiting(h)
    \/ LoadDone(h)
    \/ StoreDone(h)
    \/ Fence(h)
    \/ SpinExit(h)

Next == \E h \in Harts : Enter(h) \/ Continue(h)

Spec == Init /\ [][Next]_vars

\* Every hart runs on a core of its own and is never descheduled.
FairSpec == Spec /\ \A h \in Harts : WF_vars(Continue(h))

\* Besides, every hart calls the barrier again and again.
LoopSpec == FairSpec /\ \A h \in Harts : WF_vars(Enter(h))

-----------------------------------------------------------------------------
Locations == {"out", "arrive", "reset", "load", "store", "fence", "spin"}

\* waiting and done keep their ranges, and each hart is at one place.
TypeOK ==
    /\ waiting \in 0 .. NumHarts
    /\ done \in 0 .. W - 1
    /\ counter \in [Harts -> 0 .. W - 1]
    /\ pc \in [Harts -> Locations]
    /\ loaded \in [Harts -> 0 .. W - 1]

\* The harts executing the release branch up to the store of done.
Releasing == {h \in Harts : pc[h] \in {"reset", "load", "store"}}

\* The harts counted by waiting in the current use of the barrier.
Arrived == Releasing \cup {h \in Harts : pc[h] = "spin" /\ counter[h] # done}

\* barrier->waiting = 0 and barrier->done++ are plain accesses of shared
\* memory: they are only safe because while one hart executes them no other
\* hart can be in the release branch or about to update waiting.
ReleaseIsExclusive ==
    \A h \in Releasing : \A g \in Harts \ {h} : pc[g] = "spin" /\ counter[g] # done

\* No hart gets a use of the barrier ahead of another one: each per-hart
\* counter is done (its last use is released) or one more (it is in a use
\* that is not), whatever the counters wrap around to.
InStep ==
    \A h \in Harts :
       /\ pc[h] \in {"out", "fence"} => counter[h] = done
       /\ pc[h] \in {"arrive", "reset", "load", "store"} => counter[h] = Succ(done)
       /\ pc[h] = "spin" => counter[h] \in {done, Succ(done)}

\* The count of waiting harts is exact until the releasing hart zeroes it.
WaitingIsExact ==
    waiting = IF \E h \in Harts : pc[h] \in {"load", "store"}
                 THEN 0
                 ELSE Cardinality(Arrived)

\* The value StoreDone() increments is the current one.
LoadedIsCurrent == \A h \in Harts : pc[h] = "store" => loaded[h] = done

IInv ==
    /\ TypeOK
    /\ ReleaseIsExclusive
    /\ InStep
    /\ WaitingIsExact
    /\ LoadedIsCurrent

-----------------------------------------------------------------------------
\* A hart whose use of the barrier is released is already free to go, though
\* it may not have read done yet.
stBar == [h \in Harts |->
             IF pc[h] = "out" THEN "out"
             ELSE IF pc[h] = "fence" \/ (pc[h] = "spin" /\ counter[h] = done)
                  THEN "free"
                  ELSE "in"]

Abs == INSTANCE AbstractBarrier WITH st <- stBar

\* bm_barrier_wait() is a barrier: nobody leaves it before everybody is in it.
IsABarrier == Abs!Spec

\* ... and when everybody is in it everybody leaves it.
IsALiveBarrier == Abs!FairSpec

\* barrier.c:38-41 "a hart can enter the next barrier while others are still
\* spinning in the previous one, causing deadlock. This barrier avoids that":
\* harts that call the barrier again and again all keep getting through it.
NobodyIsStuck == \A h \in Harts : []<>(pc[h] = "out")
=============================================================================
