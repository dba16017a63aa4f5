---------------------------- MODULE BarrierProof ----------------------------
(***************************************************************************)
(* The barrier's invariants and its refinement of AbstractBarrier, for     *)
(* every finite set of harts and every counter width.                      *)
(***************************************************************************)
EXTENDS Barrier, FiniteSetTheorems, TLAPS

\* There is at least one hart.
LEMMA NumHartsType == NumHarts \in Nat /\ NumHarts >= 1
<1>1. NumHarts \in Nat
  BY HartsAssumption, FS_CardinalityType DEF NumHarts
<1>2. NumHarts # 0
  BY HartsAssumption, FS_EmptySet DEF NumHarts
<1> QED  BY <1>1, <1>2

\* Incrementing a wrapping counter yields another counter value.
LEMMA SuccType ==
  ASSUME NEW c \in 0 .. W - 1
  PROVE  Succ(c) \in 0 .. W - 1 /\ Succ(c) # c
<1>1. CASE c = W - 1
  <2>1. (c + 1) % W = 0
    BY <1>1, WAssumption
  <2> QED  BY <1>1, <2>1, WAssumption DEF Succ
<1>2. CASE c < W - 1
  <2>1. (c + 1) % W = c + 1
    BY <1>2, WAssumption
  <2> QED  BY <1>2, <2>1, WAssumption DEF Succ
<1> QED  BY <1>1, <1>2, WAssumption

\* While a hart is about to enter or to arrive nobody is releasing.
LEMMA NoReleaser ==
  ASSUME ReleaseIsExclusive, NEW h \in Harts, pc[h] \in {"out", "arrive", "fence"}
  PROVE  Releasing = {}
BY DEF ReleaseIsExclusive, Releasing

\* The hart about to arrive is not counted yet, so there is room for it, and
\* it is the last one exactly when all the others are counted.
LEMMA LastArrival ==
  ASSUME IInv, NEW h \in Harts, pc[h] = "arrive"
  PROVE  /\ waiting \in 0 .. NumHarts - 1
         /\ waiting = Cardinality(Arrived)
         /\ Cardinality(Arrived \cup {h}) = waiting + 1
         /\ waiting = NumHarts - 1 => Arrived = Harts \ {h}
<1>1. Releasing = {}
  BY NoReleaser DEF IInv
<1>2. waiting = Cardinality(Arrived)
  <2>1. ~ \E g \in Harts : pc[g] \in {"load", "store"}
    BY <1>1 DEF Releasing
  <2> QED  BY <2>1 DEF IInv, WaitingIsExact
<1>3. Arrived \in SUBSET (Harts \ {h})
  BY <1>1 DEF Arrived, Releasing
<1>4. IsFiniteSet(Harts \ {h}) /\ Cardinality(Harts \ {h}) = NumHarts - 1
  BY HartsAssumption, FS_RemoveElement DEF NumHarts
<1>5. /\ IsFiniteSet(Arrived)
      /\ Cardinality(Arrived) <= NumHarts - 1
      /\ Cardinality(Arrived) = NumHarts - 1 => Arrived = Harts \ {h}
  <2>1. /\ IsFiniteSet(Arrived)
        /\ Cardinality(Arrived) <= Cardinality(Harts \ {h})
        /\ Cardinality(Harts \ {h}) = Cardinality(Arrived) => Harts \ {h} = Arrived
    BY <1>3, <1>4, FS_Subset
  <2> QED  BY <2>1, <1>4
<1>6. Cardinality(Arrived) \in Nat
  BY <1>5, FS_CardinalityType
<1>7. Cardinality(Arrived \cup {h}) = Cardinality(Arrived) + 1
  BY <1>3, <1>5, FS_AddElement
<1> QED  BY <1>2, <1>5, <1>6, <1>7, NumHartsType

-----------------------------------------------------------------------------
\* Barrier initialisation establishes the inductive invariant.
LEMMA InitIInv == Init => IInv
<1> SUFFICES ASSUME Init PROVE IInv
  OBVIOUS
<1> USE DEF Init
<1>1. TypeOK
  BY NumHartsType, WAssumption DEF TypeOK, Locations
<1>2. ReleaseIsExclusive
  BY DEF ReleaseIsExclusive, Releasing
<1>3. InStep
  BY DEF InStep
<1>4. WaitingIsExact
  <2>1. Arrived = {}
    BY DEF Arrived, Releasing
  <2> QED  BY <2>1, FS_EmptySet DEF WaitingIsExact
<1>5. LoadedIsCurrent
  BY DEF LoadedIsCurrent
<1> QED  BY <1>1, <1>2, <1>3, <1>4, <1>5 DEF IInv

\* Every step of a hart preserves the inductive invariant.
LEMMA StepIInv == IInv /\ [Next]_vars => IInv'
<1> SUFFICES ASSUME IInv, [Next]_vars PROVE IInv'
  OBVIOUS
<1> USE DEF Goto, Locations
<1>1. ASSUME NEW h \in Harts, Enter(h) PROVE IInv'
  <2> USE <1>1 DEF Enter
  <2>1. Releasing = {} /\ Releasing' = {}
    BY NoReleaser DEF IInv, TypeOK, Releasing
  <2>2. counter[h] = done /\ counter'[h] = Succ(done) /\ Succ(done) # done
    BY SuccType DEF IInv, TypeOK, InStep
  <2>3. Arrived' = Arrived
    BY <2>1 DEF IInv, TypeOK, Arrived, Releasing
  <2>4. TypeOK'
    BY <2>2, SuccType DEF IInv, TypeOK
  <2>5. ReleaseIsExclusive' /\ LoadedIsCurrent'
    BY <2>1 DEF IInv, TypeOK, ReleaseIsExclusive, LoadedIsCurrent
  <2>6. InStep'
    BY <2>2 DEF IInv, TypeOK, InStep
  <2>7. WaitingIsExact'
    BY <2>3 DEF IInv, TypeOK, WaitingIsExact
  <2> QED  BY <2>4, <2>5, <2>6, <2>7 DEF IInv
<1>2. ASSUME NEW h \in Harts, Arrive(h) PROVE IInv'
  <2> USE <1>2 DEF Arrive
  <2>1. Releasing = {}
    BY NoReleaser DEF IInv
  <2>2. counter[h] = Succ(done) /\ Succ(done) # done
    BY SuccType DEF IInv, TypeOK, InStep
  <2>3. /\ waiting \in 0 .. NumHarts - 1
        /\ waiting = Cardinality(Arrived)
        /\ Cardinality(Arrived \cup {h}) = waiting + 1
        /\ waiting = NumHarts - 1 => Arrived = Harts \ {h}
    BY LastArrival
  <2>4. Arrived' = Arrived \cup {h}
    BY <2>1, <2>2 DEF IInv, TypeOK, Arrived, Releasing
  <2>5. TypeOK'
    BY <2>3, NumHartsType DEF IInv, TypeOK
  <2>6. ReleaseIsExclusive'
    <3>1. CASE waiting = NumHarts - 1
      <4>1. \A g \in Harts \ {h} : pc[g] = "spin" /\ counter[g] # done
        BY <2>1, <2>3, <3>1 DEF Arrived
      <4> QED  BY <4>1, <2>1 DEF IInv, TypeOK, ReleaseIsExclusive, Releasing
    <3>2. CASE waiting # NumHarts - 1
      <4>1. Releasing' = {}
        BY <2>1, <3>2 DEF IInv, TypeOK, Releasing
      <4> QED  BY <4>1 DEF ReleaseIsExclusive
    <3> QED  BY <3>1, <3>2
  <2>7. InStep'
    BY <2>2 DEF IInv, TypeOK, InStep
  <2>8. WaitingIsExact'
    <3>1. ~ \E g \in Harts : pc'[g] \in {"load", "store"}
      BY <2>1 DEF IInv, TypeOK, Releasing
    <3> QED  BY <3>1, <2>3, <2>4 DEF WaitingIsExact
  <2>9. LoadedIsCurrent'
    BY <2>1 DEF IInv, TypeOK, LoadedIsCurrent
  <2> QED  BY <2>5, <2>6, <2>7, <2>8, <2>9 DEF IInv
<1>3. ASSUME NEW h \in Harts, ResetWaiting(h) PROVE IInv'
  <2> USE <1>3 DEF ResetWaiting
  <2>1. TypeOK'
    BY NumHartsType DEF IInv, TypeOK
  <2>2. Releasing' = Releasing
    BY DEF IInv, TypeOK, Releasing
  <2>3. ReleaseIsExclusive' /\ InStep' /\ LoadedIsCurrent'
    BY <2>2 DEF IInv, TypeOK, ReleaseIsExclusive, InStep, LoadedIsCurrent, Releasing
  <2>4. WaitingIsExact'
    BY DEF IInv, TypeOK, WaitingIsExact
  <2> QED  BY <2>1, <2>3, <2>4 DEF IInv
<1>4. ASSUME NEW h \in Harts, LoadDone(h) PROVE IInv'
  <2> USE <1>4 DEF LoadDone
  <2>1. TypeOK'
    BY DEF IInv, TypeOK
  <2>2. Releasing' = Releasing
    BY DEF IInv, TypeOK, Releasing
  <2>3. ReleaseIsExclusive' /\ InStep' /\ LoadedIsCurrent'
    BY <2>2 DEF IInv, TypeOK, ReleaseIsExclusive, InStep, LoadedIsCurrent, Releasing
  <2>4. WaitingIsExact'
    BY DEF IInv, TypeOK, WaitingIsExact
  <2> QED  BY <2>1, <2>3, <2>4 DEF IInv
<1>5. ASSUME NEW h \in Harts, StoreDone(h) PROVE IInv'
  <2> USE <1>5 DEF StoreDone
  <2>1. done' = Succ(done) /\ Succ(done) # done /\ Succ(done) \in 0 .. W - 1
    BY SuccType DEF IInv, TypeOK, LoadedIsCurrent
  <2>2. \A g \in Harts \ {h} : pc[g] = "spin" /\ counter[g] # done
    BY DEF IInv, ReleaseIsExclusive, Releasing
  <2>3. \A g \in Harts : counter[g] = Succ(done)
    BY <2>2 DEF IInv, InStep
  <2>4. Releasing' = {} /\ Arrived' = {}
    BY <2>1, <2>2, <2>3 DEF IInv, TypeOK, Releasing, Arrived
  <2>5. TypeOK'
    BY <2>1 DEF IInv, TypeOK
  <2>6. InStep'
    BY <2>1, <2>2, <2>3 DEF IInv, TypeOK, InStep
  <2>7. WaitingIsExact'
    <3>1. waiting = 0
      BY DEF IInv, WaitingIsExact
    <3> QED  BY <3>1, <2>4, FS_EmptySet DEF WaitingIsExact
  <2>8. ReleaseIsExclusive' /\ LoadedIsCurrent'
    BY <2>4 DEF ReleaseIsExclusive, LoadedIsCurrent, Releasing
  <2> QED  BY <2>5, <2>6, <2>7, <2>8 DEF IInv
<1>6. ASSUME NEW h \in Harts, Fence(h) PROVE IInv'
  <2> USE <1>6 DEF Fence
  <2>1. Releasing' = Releasing /\ Arrived' = Arrived
    BY DEF IInv, TypeOK, Releasing, Arrived
  <2>2. TypeOK'
    BY DEF IInv, TypeOK
  <2>3. ReleaseIsExclusive' /\ InStep' /\ LoadedIsCurrent'
    BY <2>1 DEF IInv, TypeOK, ReleaseIsExclusive, InStep, LoadedIsCurrent, Releasing
  <2>4. WaitingIsExact'
    BY <2>1 DEF IInv, TypeOK, WaitingIsExact
  <2> QED  BY <2>2, <2>3, <2>4 DEF IInv
<1>7. ASSUME NEW h \in Harts, SpinExit(h) PROVE IInv'
  <2> USE <1>7 DEF SpinExit
  <2>1. Releasing' = Releasing /\ Arrived' = Arrived
    BY DEF IInv, TypeOK, Releasing, Arrived
  <2>2. TypeOK'
    BY DEF IInv, TypeOK
  <2>3. ReleaseIsExclusive' /\ InStep' /\ LoadedIsCurrent'
    BY <2>1 DEF IInv, TypeOK, ReleaseIsExclusive, InStep, LoadedIsCurrent, Releasing
  <2>4. WaitingIsExact'
    BY <2>1 DEF IInv, TypeOK, WaitingIsExact
  <2> QED  BY <2>2, <2>3, <2>4 DEF IInv
<1>8. CASE UNCHANGED vars
  BY <1>8 DEF vars, IInv, TypeOK, ReleaseIsExclusive, InStep, WaitingIsExact,
              LoadedIsCurrent, Releasing, Arrived
<1> QED
  BY <1>1, <1>2, <1>3, <1>4, <1>5, <1>6, <1>7, <1>8 DEF Next, Continue

\* For every number of harts and every counter width: the barrier's memory is
\* well typed (barrier.c, bm_barrier_t).
THEOREM TypeCorrect == Spec => []TypeOK
<1>1. IInv => TypeOK
  BY DEF IInv
<1> QED  BY InitIInv, StepIInv, <1>1, PTL DEF Spec

\* The plain stores of the release branch (barrier.c:56-57) are made by one
\* hart at a time, while all the others spin in the same use of the barrier.
THEOREM ReleaseExclusive == Spec => []ReleaseIsExclusive
<1>1. IInv => ReleaseIsExclusive
  BY DEF IInv
<1> QED  BY InitIInv, StepIInv, <1>1, PTL DEF Spec

\* No hart gets a use of the barrier ahead of another, whatever the uint32_t
\* counters wrap around to.
THEOREM HartsInStep == Spec => []InStep
<1>1. IInv => InStep
  BY DEF IInv
<1> QED  BY InitIInv, StepIInv, <1>1, PTL DEF Spec

\* The number of waiting harts is exact although it is zeroed by a plain store.
THEOREM WaitingExact == Spec => []WaitingIsExact
<1>1. IInv => WaitingIsExact
  BY DEF IInv
<1> QED  BY InitIInv, StepIInv, <1>1, PTL DEF Spec

-----------------------------------------------------------------------------
\* The initial memory is an abstract barrier nobody is in.
LEMMA InitRefines == Init => Abs!Init
BY DEF Init, Abs!Init, stBar

\* Every step of a hart is a step of the abstract barrier or leaves it alone.
LEMMA StepRefines == IInv /\ [Next]_vars => [Abs!Next]_(Abs!vars)
<1> SUFFICES ASSUME IInv, [Next]_vars PROVE [Abs!Next]_(Abs!vars)
  OBVIOUS
<1> USE DEF Goto, Locations
<1>1. ASSUME NEW h \in Harts, Enter(h) PROVE Abs!Arrive(h)
  <2>1. counter'[h] # done
    BY <1>1, SuccType DEF Enter, IInv, TypeOK, InStep
  <2> QED  BY <1>1, <2>1 DEF Enter, IInv, TypeOK, Abs!Arrive, stBar
<1>2. ASSUME NEW h \in Harts, Arrive(h) PROVE UNCHANGED stBar
  <2>1. counter[h] # done
    BY <1>2, SuccType DEF Arrive, IInv, TypeOK, InStep
  <2> QED  BY <1>2, <2>1 DEF Arrive, IInv, TypeOK, stBar
<1>3. ASSUME NEW h \in Harts, ResetWaiting(h) \/ LoadDone(h) PROVE UNCHANGED stBar
  BY <1>3 DEF ResetWaiting, LoadDone, IInv, TypeOK, stBar
<1>4. ASSUME NEW h \in Harts, StoreDone(h) PROVE Abs!Open
  <2>1. done' = Succ(done)
    BY <1>4 DEF StoreDone, IInv, LoadedIsCurrent
  <2>2. \A g \in Harts \ {h} : pc[g] = "spin" /\ counter[g] = Succ(done) /\ counter[g] # done
    BY <1>4 DEF StoreDone, IInv, ReleaseIsExclusive, Releasing, InStep
  <2>3. \A g \in Harts : stBar[g] = "in"
    BY <1>4, <2>2 DEF StoreDone, stBar
  <2>4. stBar' = [g \in Harts |-> "free"]
    BY <1>4, <2>1, <2>2 DEF StoreDone, IInv, TypeOK, stBar
  <2> QED  BY <2>3, <2>4 DEF Abs!Open
<1>5. ASSUME NEW h \in Harts, Fence(h) PROVE Abs!Leave(h)
  BY <1>5 DEF Fence, IInv, TypeOK, Abs!Leave, stBar
<1>6. ASSUME NEW h \in Harts, SpinExit(h) PROVE Abs!Leave(h)
  BY <1>6 DEF SpinExit, IInv, TypeOK, Abs!Leave, stBar
<1>7. CASE UNCHANGED vars
  BY <1>7 DEF vars, Abs!vars, stBar
<1> QED
  BY <1>1, <1>2, <1>3, <1>4, <1>5, <1>6, <1>7
  DEF Next, Continue, Abs!Next, Abs!vars

\* bm_barrier_wait() is a barrier (barrier.h: "Wait until all harts call this
\* function"), for every set of harts and every counter width.
THEOREM BarrierCorrect == Spec => IsABarrier
BY InitIInv, StepIInv, InitRefines, StepRefines, PTL
DEF Spec, IsABarrier, Abs!Spec
=============================================================================
