----------------------------- MODULE LocksProof -----------------------------
(***************************************************************************)
(* Mutual exclusion of the spin lock, for every set of clients, and the    *)
(* order of what clint-ipi prints, for every number of harts.              *)
(***************************************************************************)
EXTENDS MCLocks, FiniteSetTheorems, TLAPS
-----------------------------------------------------------------------------
(* the lock *)

IInv == TypeOK /\ MutualExclusion /\ WordIsAccurate

USE DEF IInv, TypeOK, MutualExclusion, WordIsAccurate

\* bm_mutex_init() establishes the invariant.
LEMMA InitIInv == Init => IInv
BY DEF Init

\* bm_amoswap_w() lets a client in only when nobody is in, and then the word
\* says so; any other outcome leaves the word at 1.
LEMMA SwapIInv ==
  ASSUME IInv, NEW c \in Clients, NEW to \in {"out", "spin"},
         mpc[c] # "in", Swap(c, to)
  PROVE  IInv'
<1>1. CASE mutex = 0
  <2>1. \A d \in Clients : mpc[d] # "in"
    BY <1>1
  <2> QED  BY <1>1, <2>1 DEF Swap, Move
<1>2. CASE mutex = 1
  BY <1>2 DEF Swap, Move
<1> QED  BY <1>1, <1>2

\* Every operation preserves the invariant.
LEMMA StepIInv == IInv /\ [Next]_vars => IInv'
<1> SUFFICES ASSUME IInv, [Next]_vars PROVE IInv'
  OBVIOUS
<1>1. ASSUME NEW c \in Clients, TryLock(c) PROVE IInv'
  BY <1>1, SwapIInv DEF TryLock
<1>2. ASSUME NEW c \in Clients, Lock(c) PROVE IInv'
  BY <1>2 DEF Lock, Move
<1>3. ASSUME NEW c \in Clients, Spin(c) PROVE IInv'
  BY <1>3, SwapIInv DEF Spin
<1>4. ASSUME NEW c \in Clients, Unlock(c) PROVE IInv'
  <2>1. \A d \in Clients \ {c} : mpc[d] # "in"
    BY <1>4 DEF Unlock
  <2> QED  BY <1>4, <2>1 DEF Unlock, Move
<1>5. CASE UNCHANGED vars
  BY <1>5 DEF vars
<1> QED  BY <1>1, <1>2, <1>3, <1>4, <1>5 DEF Next

\* The lock of mutex.c excludes: of any clients, at most one is between
\* bm_mutex_lock() or a successful bm_mutex_trylock() and bm_mutex_unlock().
THEOREM LockExcludes == Spec => []MutualExclusion
<1>1. IInv => MutualExclusion
  OBVIOUS
<1> QED  BY InitIInv, StepIInv, <1>1, PTL DEF Spec

\* The lock is free when nobody holds it: it is never lost.
THEOREM LockNeverLost == Spec => []WordIsAccurate
<1>1. IInv => WordIsAccurate
  OBVIOUS
<1> QED  BY InitIInv, StepIInv, <1>1, PTL DEF Spec
-----------------------------------------------------------------------------
(* clint-ipi: the inductive invariant *)

HIDE DEF IInv, TypeOK, MutualExclusion, WordIsAccurate

\* The barrier of clint-ipi, with what is proved about it.
BP == INSTANCE BarrierProof WITH Harts <- I!Harts, W <- W, waiting <- iwaiting,
         done <- idone, counter <- icounter, pc <- ibpc, loaded <- iloaded

IsrPlaces == {"none", "clear", "lock", "spin", "print", "unlock", "count", "return"}

IpiTypes ==
    /\ istep \in [I!Harts -> 1 .. 12]
    /\ iisr \in [I!Harts -> IsrPlaces]
    /\ imsip \in [I!Harts -> BOOLEAN]
    /\ ioutput \in Seq({"send", "receive"} \X I!Harts)

\* How many uses of the barrier a hart has left; one that the barrier has set free
\* has one use more behind it than it has left.
Left(h) == IF istep[h] <= 3 THEN 0 ELSE IF istep[h] <= 8 THEN 1 ELSE 2

Meets ==
    /\ \A h \in I!Harts : BP!stBar[h] # "out" => istep[h] \in {3, 8}
    /\ \E r \in 0 .. 2 : \A h \in I!Harts :
          Left(h) = IF BP!stBar[h] = "free" THEN r - 1 ELSE r

\* Some hart has sent its interrupt, which it does after the second barrier.
Sent == \E h \in I!Harts : istep[h] >= 11

Received ==
    /\ \A h \in I!Harts : imsip[h] \/ iisr[h] # "none" => Sent
    /\ \A k \in DOMAIN ioutput : ioutput[k][1] = "receive" => Sent

IpiInv == BP!IInv /\ IpiTypes /\ Meets /\ Received /\ SendsPrecedeReceives
-----------------------------------------------------------------------------
(* clint-ipi: the barrier *)

\* What the proofs of the barrier assume.
LEMMA BarrierAssumptions == BP!HartsAssumption /\ BP!WAssumption
<1>1. I!Harts = 0 .. N - 1 /\ N - 1 \in Int /\ 0 \in I!Harts
  BY IpiAssumption DEF I!Harts
<1>2. IsFiniteSet(I!Harts)
  BY <1>1, FS_Interval
<1> QED  BY <1>1, <1>2, IpiAssumption
         DEF BP!HartsAssumption, BP!WAssumption, BP!IsFiniteSet, IsFiniteSet

LEMMA BarrierStart ==
  ASSUME I!B!Init
  PROVE  BP!IInv /\ BP!stBar = [h \in I!Harts |-> "out"]
<1>1. BP!Init
  BY DEF I!B!Init, BP!Init
<1>2. BP!IInv
  BY <1>1, BarrierAssumptions, BP!InitIInv
<1> QED  BY <1>1, <1>2 DEF BP!Init, BP!stBar

LEMMA BarrierSame ==
  ASSUME BP!IInv, UNCHANGED I!barrier
  PROVE  BP!IInv' /\ BP!stBar' = BP!stBar
<1>1. UNCHANGED BP!vars
  BY DEF I!barrier, BP!vars
<1>2. BP!IInv'
  BY <1>1, BarrierAssumptions, BP!StepIInv
<1> QED  BY <1>1, <1>2 DEF BP!vars, BP!stBar

\* A step of bm_barrier_wait() is a step of a barrier, of this hart if it goes in
\* or out.
LEMMA BarrierMove ==
  ASSUME BP!IInv, NEW h \in I!Harts, I!B!Enter(h) \/ I!B!Continue(h)
  PROVE  /\ BP!IInv' /\ [BP!Abs!Next]_(BP!Abs!vars)
         /\ \A g \in I!Harts \ {h} : ibpc'[g] = ibpc[g]
         /\ ibpc'[h] = "out" => ibpc[h] # "out"
<1> USE DEF I!B!Enter, I!B!Continue, BP!Enter, BP!Continue, I!B!Arrive, BP!Arrive,
            I!B!ResetWaiting, BP!ResetWaiting, I!B!LoadDone, BP!LoadDone,
            I!B!StoreDone, BP!StoreDone, I!B!Fence, BP!Fence, I!B!SpinExit, BP!SpinExit,
            I!B!Goto, BP!Goto
<1>1. BP!Next
  BY DEF BP!Next, I!B!NumHarts, BP!NumHarts, I!B!Succ, BP!Succ, I!B!Cardinality, BP!Cardinality
<1>2. BP!IInv'
  BY <1>1, BarrierAssumptions, BP!StepIInv
<1>3. [BP!Abs!Next]_(BP!Abs!vars)
  BY <1>1, BarrierAssumptions, BP!StepRefines
<1>4. ibpc \in [I!Harts -> BP!Locations]
  BY DEF BP!IInv, BP!TypeOK
<1>5. \A g \in I!Harts \ {h} : ibpc'[g] = ibpc[g]
  BY <1>4
<1>6. ibpc'[h] = "out" => ibpc[h] # "out"
  BY <1>4
<1> QED  BY <1>2, <1>3, <1>5, <1>6
-----------------------------------------------------------------------------
(* clint-ipi: the steps *)

LEMMA ProgramIs ==
  /\ Len(I!Program) = 11
  /\ I!Program[3] = "barrier" /\ I!Program[8] = "barrier"
  /\ \A k \in 1 .. 11 : /\ I!Program[k] = "barrier" => k \in {3, 8}
                        /\ I!Program[k] = "print" => k = 6
                        /\ I!Program[k] = "send" => k = 10
BY DEF I!Program

\* When a hart is past the second barrier no hart has yet to print that it sends.
LEMMA SecondBarrier ==
  ASSUME IpiTypes, Meets, NEW g \in I!Harts, istep[g] >= 9, NEW h \in I!Harts
  PROVE  istep[h] >= 8
<1>1. PICK r \in 0 .. 2 : \A f \in I!Harts : Left(f) = IF BP!stBar[f] = "free" THEN r - 1 ELSE r
  BY DEF Meets
<1>2. istep[g] \in 1 .. 12 /\ istep[h] \in 1 .. 12
  BY DEF IpiTypes
<1>3. Left(g) = 2 /\ BP!stBar[g] = "out"
  BY <1>2 DEF Left, Meets
<1>4. r = 2
  BY <1>1, <1>3
<1>5. CASE BP!stBar[h] = "out"
  <2>1. Left(h) = 2
    BY <1>1, <1>4, <1>5
  <2> QED  BY <1>2, <2>1 DEF Left
<1>6. CASE BP!stBar[h] # "out"
  <2>1. istep[h] \in {3, 8} /\ Left(h) >= 1
    BY <1>1, <1>4, <1>6 DEF Meets
  <2> QED  BY <1>2, <2>1 DEF Left
<1> QED  BY <1>5, <1>6

LEMMA IpiStart ==
  ASSUME I!Init
  PROVE  IpiInv
<1> USE DEF I!Init
<1>1. BP!IInv /\ BP!stBar = [h \in I!Harts |-> "out"]
  BY BarrierStart
<1>2. IpiTypes
  BY DEF IpiTypes, IsrPlaces
<1>3. \A h \in I!Harts : Left(h) = 0
  BY DEF Left
<1>4. Meets
  BY <1>1, <1>3 DEF Meets
<1>5. Received /\ SendsPrecedeReceives
  BY DEF Received, SendsPrecedeReceives, I!SendsPrecedeReceives
<1> QED  BY <1>1, <1>2, <1>4, <1>5 DEF IpiInv

\* A hart goes on with its program, without the barrier, or stays where it is.
LEMMA Moves ==
  ASSUME BP!IInv, IpiTypes, Meets, UNCHANGED I!barrier, NEW h \in I!Harts,
         \/ istep' = istep
         \/ istep[h] \in (1 .. 11) \ {3, 8} /\ istep' = [istep EXCEPT ![h] = @ + 1]
  PROVE  BP!IInv' /\ Meets' /\ istep' \in [I!Harts -> 1 .. 12] /\ (Sent => Sent')
<1>1. BP!IInv' /\ BP!stBar' = BP!stBar
  BY BarrierSame
<1>2. istep \in [I!Harts -> 1 .. 12]
  BY DEF IpiTypes
<1>3. CASE istep' = istep
  BY <1>1, <1>2, <1>3 DEF Meets, Left, Sent
<1>4. CASE istep[h] \in (1 .. 11) \ {3, 8} /\ istep' = [istep EXCEPT ![h] = @ + 1]
  <2>1. istep' \in [I!Harts -> 1 .. 12]
    BY <1>2, <1>4
  <2>2. istep'[h] = istep[h] + 1 /\ \A g \in I!Harts \ {h} : istep'[g] = istep[g]
    BY <1>2, <1>4
  <2>3. \A g \in I!Harts : Left(g)' = Left(g)
    BY <1>2, <1>4, <2>2 DEF Left
  <2>4. \A g \in I!Harts : BP!stBar[g] # "out" => g # h
    BY <1>4 DEF Meets
  <2>5. Meets'
    BY <1>1, <2>2, <2>3, <2>4 DEF Meets
  <2>6. \A g \in I!Harts : istep'[g] >= istep[g]
    BY <1>2, <2>2
  <2>7. Sent => Sent'
    BY <1>2, <2>1, <2>6 DEF Sent
  <2> QED  BY <1>1, <2>1, <2>5, <2>7
<1> QED  BY <1>3, <1>4

\* A hart takes a step of bm_barrier_wait().
LEMMA IpiBarrier ==
  ASSUME IpiInv, NEW h \in I!Harts, I!BarrierWait(h)
  PROVE  IpiInv'
<1> DEFINE st == BP!stBar
<1>1. /\ I!B!Enter(h) \/ I!B!Continue(h)
      /\ IF ibpc'[h] = "out" THEN istep' = [istep EXCEPT ![h] = @ + 1] ELSE istep' = istep
      /\ UNCHANGED <<iisr, imsip, ioutput>>
      /\ istep[h] <= Len(I!Program) /\ I!Program[istep[h]] = "barrier"
  BY DEF I!BarrierWait, I!Advance, I!At, I!intr
<1>2. BP!IInv /\ IpiTypes /\ Meets /\ Received /\ SendsPrecedeReceives
  BY DEF IpiInv
<1>3. istep \in [I!Harts -> 1 .. 12]
  BY <1>2 DEF IpiTypes
<1>4. istep[h] \in {3, 8}
  BY <1>1, <1>3, ProgramIs
<1>5. /\ BP!IInv' /\ [BP!Abs!Next]_(BP!Abs!vars)
      /\ \A g \in I!Harts \ {h} : ibpc'[g] = ibpc[g]
      /\ ibpc'[h] = "out" => ibpc[h] # "out"
  BY <1>1, <1>2, BarrierMove
<1>6. \A g \in I!Harts : /\ st[g] = "out" <=> ibpc[g] = "out"
                         /\ st'[g] = "out" <=> ibpc'[g] = "out"
  BY DEF BP!stBar
<1>7. DOMAIN st = I!Harts
  BY DEF BP!stBar
<1>8. PICK r \in 0 .. 2 : \A g \in I!Harts : Left(g) = IF st[g] = "free" THEN r - 1 ELSE r
  BY <1>2 DEF Meets
<1>9. \A g \in I!Harts : st[g] # "out" => istep[g] \in {3, 8}
  BY <1>2 DEF Meets
<1>10. \/ st' = st
       \/ \A g \in I!Harts : st[g] = "in" /\ st' = [f \in I!Harts |-> "free"]
       \/ \E g \in I!Harts : st[g] = "out" /\ st' = [st EXCEPT ![g] = "in"]
       \/ \E g \in I!Harts : st[g] = "free" /\ st' = [st EXCEPT ![g] = "out"]
  BY <1>5 DEF BP!Abs!Next, BP!Abs!vars, BP!Abs!Open, BP!Abs!Arrive, BP!Abs!Leave
<1> HIDE DEF st
<1>11. CASE st' = st
  <2>1. istep' = istep
    BY <1>1, <1>5, <1>6, <1>11
  <2> QED  BY <1>1, <1>2, <1>5, <1>11, <2>1
           DEF IpiInv, IpiTypes, Meets, Left, Received, Sent, SendsPrecedeReceives,
               I!SendsPrecedeReceives, st
<1>12. CASE \A g \in I!Harts : st[g] = "in" /\ st' = [f \in I!Harts |-> "free"]
  <2>1. istep' = istep
    BY <1>1, <1>6, <1>12
  <2>2. \A g \in I!Harts : Left(g) = r /\ Left(g)' = Left(g) /\ istep'[g] \in {3, 8}
    BY <1>8, <1>9, <1>12, <2>1 DEF Left
  <2>3. Left(h) \in {0, 1}
    BY <1>4 DEF Left
  <2>4. r + 1 \in 0 .. 2 /\ r = (r + 1) - 1
    BY <2>2, <2>3
  <2>5. \A g \in I!Harts : Left(g)' = IF st'[g] = "free" THEN (r + 1) - 1 ELSE r + 1
    BY <1>12, <2>2, <2>4
  <2>6. Meets'
    BY <2>2, <2>4, <2>5 DEF Meets, st
  <2> QED  BY <1>1, <1>2, <1>5, <2>1, <2>6
           DEF IpiInv, IpiTypes, Received, Sent, SendsPrecedeReceives, I!SendsPrecedeReceives
<1>13. CASE \E g \in I!Harts : st[g] = "out" /\ st' = [st EXCEPT ![g] = "in"]
  <2>1. PICK g \in I!Harts : st[g] = "out" /\ st' = [st EXCEPT ![g] = "in"]
    BY <1>13
  <2>2. st'[g] = "in" /\ \A f \in I!Harts \ {g} : st'[f] = st[f]
    BY <1>7, <2>1
  <2>3. g = h
    BY <1>5, <1>6, <2>1, <2>2
  <2>4. istep' = istep
    BY <1>1, <1>6, <2>2, <2>3
  <2>5. \A f \in I!Harts : Left(f)' = IF st'[f] = "free" THEN r - 1 ELSE r
    BY <1>8, <2>1, <2>2, <2>4 DEF Left
  <2>6. Meets'
    BY <1>4, <1>9, <2>2, <2>3, <2>4, <2>5 DEF Meets, st
  <2> QED  BY <1>1, <1>2, <1>5, <2>4, <2>6
           DEF IpiInv, IpiTypes, Received, Sent, SendsPrecedeReceives, I!SendsPrecedeReceives
<1>14. CASE \E g \in I!Harts : st[g] = "free" /\ st' = [st EXCEPT ![g] = "out"]
  <2>1. PICK g \in I!Harts : st[g] = "free" /\ st' = [st EXCEPT ![g] = "out"]
    BY <1>14
  <2>2. st'[g] = "out" /\ \A f \in I!Harts \ {g} : st'[f] = st[f]
    BY <1>7, <2>1
  <2>3. g = h
    BY <1>5, <1>6, <2>1, <2>2
  <2>4. istep' = [istep EXCEPT ![h] = @ + 1]
    BY <1>1, <1>6, <2>2, <2>3
  <2>5. /\ istep' \in [I!Harts -> 1 .. 12] /\ istep'[h] = istep[h] + 1
        /\ \A f \in I!Harts \ {h} : istep'[f] = istep[f]
    BY <1>3, <1>4, <2>4
  <2>6. Left(h)' = Left(h) + 1 /\ \A f \in I!Harts \ {h} : Left(f)' = Left(f)
    BY <1>4, <2>5 DEF Left
  <2>7. \A f \in I!Harts : Left(f)' = IF st'[f] = "free" THEN r - 1 ELSE r
    BY <1>8, <2>1, <2>2, <2>3, <2>6
  <2>8. Meets'
    BY <1>9, <2>2, <2>3, <2>5, <2>7 DEF Meets, st
  <2>9. Sent => Sent'
    BY <1>3, <1>4, <2>5 DEF Sent
  <2> QED  BY <1>1, <1>2, <1>5, <2>5, <2>8, <2>9
           DEF IpiInv, IpiTypes, Received, SendsPrecedeReceives, I!SendsPrecedeReceives
<1> QED  BY <1>10, <1>11, <1>12, <1>13, <1>14

\* The other statements of hart_job() and main().
LEMMA IpiProgram ==
  ASSUME IpiInv, NEW h \in I!Harts,
         \/ I!InitJob(h) \/ I!InterruptDisable(h) \/ I!LockMutex(h) \/ I!SpinMutex(h)
         \/ I!UnlockMutex(h) \/ I!InterruptEnable(h) \/ (h = 0 /\ I!Bye)
  PROVE  IpiInv'
<1>1. BP!IInv /\ IpiTypes /\ Meets /\ Received /\ SendsPrecedeReceives
  BY DEF IpiInv
<1> USE DEF I!InitJob, I!InterruptDisable, I!LockMutex, I!SpinMutex, I!UnlockMutex,
            I!InterruptEnable, I!Bye, I!SetMie, I!intr
<1>2. UNCHANGED <<iisr, imsip, ioutput>> /\ UNCHANGED I!barrier
  OBVIOUS
<1>3. istep[h] <= Len(I!Program) /\ I!Program[istep[h]] # "barrier"
  BY DEF I!At
<1>4. istep[h] \in (1 .. 11) \ {3, 8}
  BY <1>1, <1>3, ProgramIs DEF IpiTypes
<1>5. istep' = istep \/ istep' = [istep EXCEPT ![h] = @ + 1]
  BY DEF I!Advance
<1>6. BP!IInv' /\ Meets' /\ istep' \in [I!Harts -> 1 .. 12] /\ (Sent => Sent')
  BY <1>1, <1>2, <1>4, <1>5, Moves
<1> QED  BY <1>1, <1>2, <1>6
         DEF IpiInv, IpiTypes, Received, SendsPrecedeReceives, I!SendsPrecedeReceives

\* A hart that prints that it sends is before the second barrier: nobody has
\* received yet.
LEMMA IpiPrint ==
  ASSUME IpiInv, NEW h \in I!Harts, I!PrintSend(h)
  PROVE  IpiInv'
<1>1. BP!IInv /\ IpiTypes /\ Meets /\ Received /\ SendsPrecedeReceives
  BY DEF IpiInv
<1>2. /\ UNCHANGED <<iisr, imsip>> /\ UNCHANGED I!barrier
      /\ istep' = [istep EXCEPT ![h] = @ + 1] /\ ioutput' = Append(ioutput, <<"send", h>>)
      /\ istep[h] <= Len(I!Program) /\ I!Program[istep[h]] = "print"
  BY DEF I!PrintSend, I!At, I!Advance, I!intr
<1>3. istep[h] = 6 /\ istep[h] \in (1 .. 11) \ {3, 8}
  BY <1>1, <1>2, ProgramIs DEF IpiTypes
<1>4. BP!IInv' /\ Meets' /\ istep' \in [I!Harts -> 1 .. 12] /\ (Sent => Sent')
  BY <1>1, <1>2, <1>3, Moves
<1>5. ~ Sent
  <2>1. SUFFICES ASSUME NEW g \in I!Harts, istep[g] >= 11 PROVE FALSE
    BY DEF Sent
  <2>2. istep[g] \in 1 .. 12
    BY <1>1 DEF IpiTypes
  <2>3. istep[h] >= 8
    BY <1>1, <2>1, <2>2, SecondBarrier
  <2> QED  BY <1>3, <2>3
<1>6. /\ ioutput' \in Seq({"send", "receive"} \X I!Harts)
      /\ DOMAIN ioutput' = 1 .. Len(ioutput) + 1 /\ DOMAIN ioutput = 1 .. Len(ioutput)
      /\ ioutput'[Len(ioutput) + 1] = <<"send", h>> /\ Len(ioutput) \in Nat
      /\ \A k \in 1 .. Len(ioutput) : ioutput'[k] = ioutput[k]
  BY <1>1, <1>2 DEF IpiTypes
<1>7. ASSUME NEW k \in DOMAIN ioutput' PROVE ioutput'[k][1] # "receive"
  <2>1. CASE k = Len(ioutput) + 1
    BY <1>6, <2>1
  <2>2. CASE k # Len(ioutput) + 1
    <3>1. k \in DOMAIN ioutput /\ ioutput'[k] = ioutput[k]
      BY <1>6, <2>2
    <3> QED  BY <1>1, <1>5, <3>1 DEF Received
  <2> QED  BY <2>1, <2>2
<1>8. Received' /\ SendsPrecedeReceives'
  BY <1>1, <1>2, <1>4, <1>7 DEF Received, SendsPrecedeReceives, I!SendsPrecedeReceives
<1> QED  BY <1>1, <1>2, <1>4, <1>6, <1>8 DEF IpiInv, IpiTypes

\* A hart sends its interrupt.
LEMMA IpiSend ==
  ASSUME IpiInv, NEW h \in I!Harts, I!SendIpi(h)
  PROVE  IpiInv'
<1>1. BP!IInv /\ IpiTypes /\ Meets /\ Received /\ SendsPrecedeReceives
  BY DEF IpiInv
<1>2. /\ UNCHANGED <<iisr, ioutput>> /\ UNCHANGED I!barrier
      /\ istep' = [istep EXCEPT ![h] = @ + 1]
      /\ imsip' = [imsip EXCEPT ![I!Next_hart(h)] = TRUE]
      /\ istep[h] <= Len(I!Program) /\ I!Program[istep[h]] = "send"
  BY DEF I!SendIpi, I!At, I!Advance
<1>3. istep[h] = 10 /\ istep[h] \in (1 .. 11) \ {3, 8}
  BY <1>1, <1>2, ProgramIs DEF IpiTypes
<1>4. BP!IInv' /\ Meets' /\ istep' \in [I!Harts -> 1 .. 12] /\ (Sent => Sent')
  BY <1>1, <1>2, <1>3, Moves
<1>5. Sent'
  <2>1. istep'[h] = 11
    BY <1>1, <1>2, <1>3 DEF IpiTypes
  <2> QED  BY <2>1 DEF Sent
<1>6. imsip' \in [I!Harts -> BOOLEAN]
  BY <1>1, <1>2 DEF IpiTypes
<1> QED  BY <1>1, <1>2, <1>4, <1>5, <1>6
         DEF IpiInv, IpiTypes, Received, SendsPrecedeReceives, I!SendsPrecedeReceives

\* msip_handler(), which runs only when an interrupt has been sent.
LEMMA IpiHandler ==
  ASSUME IpiInv, NEW h \in I!Harts, I!IsrStep(h)
  PROVE  IpiInv'
<1>1. BP!IInv /\ IpiTypes /\ Meets /\ Received /\ SendsPrecedeReceives
  BY DEF IpiInv
<1> USE DEF I!IsrStep, I!TakeTrap, I!ClearIpi, I!IsrLock, I!IsrSpin, I!IsrPrint, I!IsrUnlock,
            I!IsrCount, I!IsrReturn, I!IsrMove
<1>2. UNCHANGED I!barrier /\ istep' = istep
  OBVIOUS
<1>3. BP!IInv' /\ Meets' /\ istep' \in [I!Harts -> 1 .. 12] /\ Sent' = Sent
  BY <1>1, <1>2, Moves DEF Sent
<1>4. imsip[h] \/ iisr[h] # "none"
  OBVIOUS
<1>5. Sent
  BY <1>1, <1>4 DEF Received
<1>6. iisr' \in [I!Harts -> IsrPlaces] /\ imsip' \in [I!Harts -> BOOLEAN]
  BY <1>1 DEF IpiTypes, IsrPlaces
<1>7. CASE ioutput' = ioutput
  BY <1>1, <1>3, <1>5, <1>6, <1>7
  DEF IpiInv, IpiTypes, Received, SendsPrecedeReceives, I!SendsPrecedeReceives
<1>8. CASE ioutput' = Append(ioutput, <<"receive", h>>)
  <2>1. /\ ioutput' \in Seq({"send", "receive"} \X I!Harts)
        /\ DOMAIN ioutput' = 1 .. Len(ioutput) + 1 /\ DOMAIN ioutput = 1 .. Len(ioutput)
        /\ ioutput'[Len(ioutput) + 1] = <<"receive", h>> /\ Len(ioutput) \in Nat
        /\ \A k \in 1 .. Len(ioutput) : ioutput'[k] = ioutput[k]
    BY <1>1, <1>8 DEF IpiTypes
  <2>2. ASSUME NEW k \in DOMAIN ioutput', NEW l \in DOMAIN ioutput',
               ioutput'[k][1] = "receive", ioutput'[l][1] = "send"
        PROVE  l < k
    <3>1. l \in 1 .. Len(ioutput)
      BY <2>1, <2>2
    <3>2. CASE k = Len(ioutput) + 1
      BY <2>1, <3>1, <3>2
    <3>3. CASE k # Len(ioutput) + 1
      <4>1. k \in 1 .. Len(ioutput)
        BY <2>1, <3>3
      <4> QED  BY <1>1, <2>1, <2>2, <3>1, <4>1 DEF SendsPrecedeReceives, I!SendsPrecedeReceives
    <3> QED  BY <3>2, <3>3
  <2>3. SendsPrecedeReceives'
    BY <2>2 DEF SendsPrecedeReceives, I!SendsPrecedeReceives
  <2>4. Received'
    BY <1>3, <1>5 DEF Received
  <2> QED  BY <1>3, <1>6, <2>1, <2>3, <2>4 DEF IpiInv, IpiTypes
<1> QED  BY <1>7, <1>8

LEMMA IpiStep ==
  ASSUME IpiInv, [I!Next]_(I!vars)
  PROVE  IpiInv'
<1>1. CASE UNCHANGED I!vars
  <2>1. UNCHANGED <<iisr, imsip, ioutput, istep>> /\ UNCHANGED I!barrier
    BY <1>1 DEF I!vars, I!intr
  <2>2. BP!IInv' /\ BP!stBar' = BP!stBar
    BY <2>1, BarrierSame DEF IpiInv
  <2>3. Meets'
    BY <2>1, <2>2 DEF IpiInv, Meets, Left
  <2> QED  BY <2>1, <2>2, <2>3 DEF IpiInv, IpiTypes, Received, Sent,
              SendsPrecedeReceives, I!SendsPrecedeReceives
<1>2. CASE I!Next
  <2>1. PICK h \in I!Harts : I!HartStep(h) \/ I!IsrStep(h)
    BY <1>2 DEF I!Next
  <2> QED  BY <2>1, IpiBarrier, IpiProgram, IpiPrint, IpiSend, IpiHandler DEF I!HartStep
<1> QED  BY <1>1, <1>2

\* clint-ipi prints that all harts send before it prints that one of them receives,
\* for any number of harts and any width of the barrier's counters: a handler
\* prints only when a hart has left the second barrier, which no hart reaches
\* before it has printed that it sends.
THEOREM SendsPrecede == I!Spec => []SendsPrecedeReceives
<1>1. IpiInv => SendsPrecedeReceives
  BY DEF IpiInv
<1>2. IpiInv /\ [I!Next]_(I!vars) => IpiInv'
  BY IpiStep
<1> QED  BY <1>1, <1>2, IpiStart, PTL DEF I!Spec
-----------------------------------------------------------------------------
(* clint-ipi: the handler and the lock *)

\* A hart's program and its handler hold or want the lock where their code says so,
\* and a handler is not in a hart that is between bm_interrupt_disable() and
\* bm_interrupt_enable().
HandlerInv ==
    /\ istep \in [I!Harts -> 1 .. 12]
    /\ iisr \in [I!Harts -> IsrPlaces]
    /\ imie \in [I!Harts -> BOOLEAN]
    /\ impc \in [{I!Job(h) : h \in I!Harts} \cup {I!Isr(h) : h \in I!Harts}
                    -> {"out", "spin", "in"}]
    /\ \A h \in I!Harts :
          /\ impc[I!Job(h)] = "in" => istep[h] \in {6, 7}
          /\ iisr[h] # "none" => ~ imie[h]
          /\ istep[h] \in 3 .. 9 => ~ imie[h] /\ iisr[h] = "none"
          /\ iisr[h] \notin {"spin", "print", "unlock"} => impc[I!Isr(h)] = "out"

\* The clients of the lock are all different.
LEMMA ClientsDiffer ==
  ASSUME NEW h \in I!Harts
  PROVE  /\ \A g \in I!Harts : I!Job(h) # I!Isr(g) /\ (I!Job(h) = I!Job(g) => h = g)
                               /\ (I!Isr(h) = I!Isr(g) => h = g)
         /\ I!Job(h) \in {I!Job(g) : g \in I!Harts} \cup {I!Isr(g) : g \in I!Harts}
         /\ I!Isr(h) \in {I!Job(g) : g \in I!Harts} \cup {I!Isr(g) : g \in I!Harts}
  BY DEF I!Job, I!Isr

LEMMA LockPlaces ==
  /\ \A k \in 1 .. 11 : /\ I!Program[k] = "init" <=> k = 1
                        /\ I!Program[k] = "disable" <=> k = 2
                        /\ I!Program[k] = "lock" <=> k = 4
                        /\ I!Program[k] = "spin" <=> k = 5
                        /\ I!Program[k] = "unlock" <=> k = 7
                        /\ I!Program[k] = "enable" <=> k = 9
                        /\ I!Program[k] = "wait" <=> k = 11
BY DEF I!Program

\* hart_job() and main() go on in a hart that no handler has interrupted.
LEMMA HandlerProgram ==
  ASSUME HandlerInv, NEW h \in I!Harts, I!HartStep(h)
  PROVE  HandlerInv'
<1>1. istep[h] \in 1 .. 11 /\ iisr[h] = "none" /\ UNCHANGED iisr
  BY ProgramIs
     DEF HandlerInv, I!HartStep, I!InitJob, I!InterruptDisable, I!BarrierWait, I!LockMutex,
         I!SpinMutex, I!PrintSend, I!UnlockMutex, I!InterruptEnable, I!SendIpi, I!Bye, I!At,
         I!SetMie, I!intr
<1>2. istep' = istep \/ istep' = [istep EXCEPT ![h] = @ + 1]
  BY DEF I!HartStep, I!InitJob, I!InterruptDisable, I!BarrierWait, I!LockMutex,
         I!SpinMutex, I!PrintSend, I!UnlockMutex, I!InterruptEnable, I!SendIpi, I!Bye,
         I!SetMie, I!Advance
<1>3. istep' \in [I!Harts -> 1 .. 12]
  BY <1>1, <1>2 DEF HandlerInv
<1>4. CASE I!InitJob(h) \/ I!InterruptDisable(h) \/ I!InterruptEnable(h)
  <2>1. /\ istep' = [istep EXCEPT ![h] = @ + 1] /\ UNCHANGED impc
        /\ \/ istep[h] \in {1, 9} /\ imie' = [imie EXCEPT ![h] = TRUE]
           \/ istep[h] = 2 /\ imie' = [imie EXCEPT ![h] = FALSE]
    BY <1>1, <1>4, LockPlaces
       DEF I!InitJob, I!InterruptDisable, I!InterruptEnable, I!SetMie, I!At, I!Advance, I!lock
  <2>2. /\ imie' \in [I!Harts -> BOOLEAN]
        /\ istep[h] = 2 => imie'[h] = FALSE
        /\ \A g \in I!Harts \ {h} : imie'[g] = imie[g]
    <3>1. imie \in [I!Harts -> BOOLEAN]
      BY DEF HandlerInv
    <3>2. CASE imie' = [imie EXCEPT ![h] = TRUE] /\ istep[h] # 2
      BY <3>1, <3>2
    <3>3. CASE imie' = [imie EXCEPT ![h] = FALSE]
      BY <3>1, <3>3
    <3>4. \/ imie' = [imie EXCEPT ![h] = TRUE] /\ istep[h] # 2
          \/ imie' = [imie EXCEPT ![h] = FALSE]
      BY <2>1
    <3> QED  BY <3>2, <3>3, <3>4
  <2>3. istep'[h] \in {2, 10} \/ (istep'[h] = 3 /\ imie'[h] = FALSE)
    BY <2>1, <2>2 DEF HandlerInv
  <2>4. \A g \in I!Harts \ {h} : istep'[g] = istep[g]
    BY <2>1 DEF HandlerInv
  <2> QED  BY <1>1, <1>3, <2>1, <2>2, <2>3, <2>4 DEF HandlerInv
<1>5. CASE I!LockMutex(h) \/ I!SpinMutex(h) \/ I!UnlockMutex(h)
  <2>1. UNCHANGED imie
    BY <1>5 DEF I!LockMutex, I!SpinMutex, I!UnlockMutex, I!intr
  <2>2. \/ istep[h] = 4 /\ istep' = [istep EXCEPT ![h] = @ + 1]
           /\ impc' = [impc EXCEPT ![I!Job(h)] = "spin"]
        \/ istep[h] = 5 /\ impc' = [impc EXCEPT ![I!Job(h)] = "spin"] /\ istep' = istep
        \/ istep[h] = 5 /\ impc' = [impc EXCEPT ![I!Job(h)] = "in"]
           /\ istep' = [istep EXCEPT ![h] = @ + 1]
        \/ istep[h] = 7 /\ istep' = [istep EXCEPT ![h] = @ + 1]
           /\ impc' = [impc EXCEPT ![I!Job(h)] = "out"]
    <3>1. CASE I!LockMutex(h)
      BY <1>1, <3>1, LockPlaces DEF I!LockMutex, I!At, I!Advance, I!M!Lock, I!M!Move
    <3>2. CASE I!UnlockMutex(h)
      BY <1>1, <3>2, LockPlaces DEF I!UnlockMutex, I!At, I!Advance, I!M!Unlock, I!M!Move
    <3>3. CASE I!SpinMutex(h)
      <4>1. /\ istep[h] = 5
            /\ impc' = [impc EXCEPT ![I!Job(h)] = IF imutex = 0 THEN "in" ELSE "spin"]
            /\ IF impc'[I!Job(h)] = "in" THEN istep' = [istep EXCEPT ![h] = @ + 1]
               ELSE istep' = istep
        BY <1>1, <3>3, LockPlaces
           DEF I!SpinMutex, I!At, I!Advance, I!M!Spin, I!M!Swap, I!M!Move
      <4> QED  BY <4>1, ClientsDiffer DEF HandlerInv
    <3> QED  BY <1>5, <3>1, <3>2, <3>3
  <2> QED  BY <1>1, <1>3, <2>1, <2>2, ClientsDiffer DEF HandlerInv
<1>6. CASE \/ I!BarrierWait(h) \/ I!PrintSend(h) \/ I!SendIpi(h) \/ (h = 0 /\ I!Bye)
  <2>1. UNCHANGED <<imie, impc>>
    BY <1>6 DEF I!BarrierWait, I!PrintSend, I!SendIpi, I!Bye, I!intr, I!lock
  <2>2. istep[h] \in {3, 6, 8, 10, 11}
    BY <1>1, <1>6, ProgramIs, LockPlaces DEF I!BarrierWait, I!PrintSend, I!SendIpi, I!Bye, I!At
  <2> QED  BY <1>1, <1>2, <1>3, <2>1, <2>2 DEF HandlerInv
<1> QED  BY <1>4, <1>5, <1>6 DEF I!HartStep

\* msip_handler() runs in a hart that does not hold the lock.
LEMMA HandlerHandler ==
  ASSUME HandlerInv, NEW h \in I!Harts, I!IsrStep(h)
  PROVE  HandlerInv'
<1>1. UNCHANGED istep
  BY DEF I!IsrStep, I!TakeTrap, I!ClearIpi, I!IsrLock, I!IsrSpin, I!IsrPrint, I!IsrUnlock,
         I!IsrCount, I!IsrReturn
<1>2. CASE I!TakeTrap(h)
  BY <1>1, <1>2 DEF HandlerInv, I!TakeTrap, I!IsrMove, I!lock, IsrPlaces
<1>3. CASE I!IsrReturn(h)
  BY <1>1, <1>3 DEF HandlerInv, I!IsrReturn, I!IsrMove, I!lock, IsrPlaces
<1>4. CASE I!ClearIpi(h) \/ I!IsrPrint(h) \/ I!IsrCount(h)
  BY <1>1, <1>4 DEF HandlerInv, I!ClearIpi, I!IsrPrint, I!IsrCount, I!IsrMove, I!lock, IsrPlaces
<1>5. CASE I!IsrLock(h) \/ I!IsrSpin(h) \/ I!IsrUnlock(h)
  <2>1. UNCHANGED imie
    BY <1>5 DEF I!IsrLock, I!IsrSpin, I!IsrUnlock
  <2>2. /\ iisr[h] # "none"
        /\ \/ iisr' = [iisr EXCEPT ![h] = "spin"] /\ impc' = [impc EXCEPT ![I!Isr(h)] = "spin"]
           \/ iisr' = [iisr EXCEPT ![h] = "print"] /\ impc' = [impc EXCEPT ![I!Isr(h)] = "in"]
           \/ iisr' = [iisr EXCEPT ![h] = "count"] /\ impc' = [impc EXCEPT ![I!Isr(h)] = "out"]
    BY <1>5, ClientsDiffer
       DEF I!IsrLock, I!IsrSpin, I!IsrUnlock, I!IsrMove, I!M!Lock, I!M!Spin, I!M!Swap,
           I!M!Unlock, I!M!Move, HandlerInv
  <2> QED  BY <1>1, <2>1, <2>2, ClientsDiffer DEF HandlerInv, IsrPlaces
<1> QED  BY <1>2, <1>3, <1>4, <1>5 DEF I!IsrStep

\* clint-ipi.c:86, the lock is taken with interrupts disabled: no handler waits for
\* the lock that its own hart's program holds, for any number of harts.
THEOREM HandlersDoNotBlock == I!Spec => []HandlerNeverBlocksOnItself
<1>1. I!Init => HandlerInv
  BY DEF I!Init, I!M!Init, HandlerInv, IsrPlaces
<1>2. HandlerInv /\ [I!Next]_(I!vars) => HandlerInv'
  <2> SUFFICES ASSUME HandlerInv, [I!Next]_(I!vars) PROVE HandlerInv'
    OBVIOUS
  <2>1. CASE UNCHANGED I!vars
    BY <2>1 DEF HandlerInv, I!vars, I!lock, I!intr
  <2>2. CASE I!Next
    BY <2>2, HandlerProgram, HandlerHandler DEF I!Next
  <2> QED  BY <2>1, <2>2
<1>3. HandlerInv => HandlerNeverBlocksOnItself
  BY DEF HandlerInv, HandlerNeverBlocksOnItself, I!HandlerNeverBlocksOnItself
<1> QED  BY <1>1, <1>2, <1>3, PTL DEF I!Spec
=============================================================================
