------------------------------ MODULE ClintIpi ------------------------------
(***************************************************************************)
(* software/clint-ipi: every hart sends an inter-processor interrupt to    *)
(* the next one.  The barrier (Barrier), the lock (Mutex), the software    *)
(* interrupts of the CLINT and the harts' interrupt enables work together. *)
(* The jobs are already running: HartPool has started them.                *)
(***************************************************************************)
EXTENDS Integers, Sequences, FiniteSets

CONSTANTS N,        \* TARGET_NUM_HARTS, at least 2
          W         \* modulus of the barrier's counters

Harts == 0 .. N - 1
Job(h) == <<h, "job">>      \* hart h running hart_job() or main()
Isr(h) == <<h, "isr">>      \* hart h running msip_handler()

VARIABLES
    waiting, done, counter, bpc, loaded,    \* the barrier
    mutex, mpc,                             \* the lock
    step,       \* per hart: where in Program it is
    isr,        \* per hart: where in msip_handler() it is, "none" if not in it
    mie,        \* per hart: mstatus.MIE
    msip,       \* per hart: the CLINT's software interrupt pending bit
    done_ctr,   \* handlers that have finished
    output      \* history: the lines printed, <<"send" or "receive", hart>>

barrier == <<waiting, done, counter, bpc, loaded>>
lock == <<mutex, mpc>>
intr == <<isr, mie, msip, done_ctr>>
vars == <<barrier, lock, step, intr, output>>

B == INSTANCE Barrier WITH pc <- bpc
M == INSTANCE Mutex WITH Clients <- {Job(h) : h \in Harts} \cup {Isr(h) : h \in Harts}

\* Mutant: the interrupt is enabled before the critical section, and there is
\* no second barrier.
Program_EnableFirst ==
    <<"init", "disable", "barrier", "enable", "lock", "spin", "print", "unlock",
      "send", "wait">>

\* Mutant: the IPI is sent without waiting at the second barrier.
Program_OneBarrier ==
    <<"init", "disable", "barrier", "lock", "spin", "print", "unlock", "enable",
      "send", "wait">>

\* hart_job(), then what follows on the hart: main()'s join and its wait for
\* done_ctr on hart 0, bm_park_hart() on the others.
Program ==
    <<"init", "disable", "barrier", "lock", "spin", "print", "unlock", "barrier",
      "enable", "send", "wait">>

Init ==
    /\ B!Init
    /\ M!Init
    /\ step = [h \in Harts |-> 1]
    /\ isr = [h \in Harts |-> "none"]
    /\ mie = [h \in Harts |-> FALSE]
    /\ msip = [h \in Harts |-> FALSE]
    /\ done_ctr = 0
    /\ output = <<>>

Next_hart(h) == (h + 1) % N
-----------------------------------------------------------------------------
(* hart_job() *)

\* The hart h is at the statement s and may execute it.
At(h, s) ==
    /\ isr[h] = "none"
    /\ step[h] <= Len(Program)
    /\ Program[step[h]] = s

Advance(h) == step' = [step EXCEPT ![h] = @ + 1]

SetMie(h, value) ==
    /\ mie' = [mie EXCEPT ![h] = value]
    /\ Advance(h)
    /\ UNCHANGED <<barrier, lock, isr, msip, done_ctr, output>>

\* bm_interrupt_init() enables the hart's interrupts besides installing the
\* handlers; the source is enabled afterwards.
InitJob(h) == At(h, "init") /\ SetMie(h, TRUE)

InterruptDisable(h) == At(h, "disable") /\ SetMie(h, FALSE)

\* A step of bm_barrier_wait(); the last one returns.
BarrierWait(h) ==
    /\ At(h, "barrier")
    /\ B!Enter(h) \/ B!Continue(h)
    /\ IF bpc'[h] = "out" THEN Advance(h) ELSE UNCHANGED step
    /\ UNCHANGED <<lock, intr, output>>

LockMutex(h) ==
    /\ At(h, "lock") /\ M!Lock(Job(h)) /\ Advance(h)
    /\ UNCHANGED <<barrier, intr, output>>

SpinMutex(h) ==
    /\ At(h, "spin") /\ M!Spin(Job(h))
    /\ IF mpc'[Job(h)] = "in" THEN Advance(h) ELSE UNCHANGED step
    /\ UNCHANGED <<barrier, intr, output>>

PrintSend(h) ==
    /\ At(h, "print")
    /\ output' = Append(output, <<"send", h>>)
    /\ Advance(h)
    /\ UNCHANGED <<barrier, lock, intr>>

UnlockMutex(h) ==
    /\ At(h, "unlock") /\ M!Unlock(Job(h)) /\ Advance(h)
    /\ UNCHANGED <<barrier, intr, output>>

InterruptEnable(h) == At(h, "enable") /\ SetMie(h, TRUE)

SendIpi(h) ==
    /\ At(h, "send")
    /\ msip' = [msip EXCEPT ![Next_hart(h)] = TRUE]
    /\ Advance(h)
    /\ UNCHANGED <<barrier, lock, isr, mie, done_ctr, output>>

\* main(): bm_hart_join() of every other hart, then the loop on done_ctr.
Bye ==
    /\ At(0, "wait")
    /\ \A h \in Harts : step[h] >= Len(Program)
    /\ done_ctr = N
    /\ Advance(0)
    /\ UNCHANGED <<barrier, lock, intr, output>>

HartStep(h) ==
    \/ InitJob(h)
    \/ InterruptDisable(h)
    \/ BarrierWait(h)
    \/ LockMutex(h)
    \/ SpinMutex(h)
    \/ PrintSend(h)
    \/ UnlockMutex(h)
    \/ InterruptEnable(h)
    \/ SendIpi(h)
    \/ h = 0 /\ Bye
-----------------------------------------------------------------------------
(* msip_handler() *)

IsrMove(h, from, to) ==
    /\ isr[h] = from
    /\ isr' = [isr EXCEPT ![h] = to]

\* The interrupt is taken between two instructions; the hardware clears MIE.
TakeTrap(h) ==
    /\ mie[h] /\ msip[h]
    /\ IsrMove(h, "none", "clear")
    /\ mie' = [mie EXCEPT ![h] = FALSE]
    /\ UNCHANGED <<barrier, lock, step, msip, done_ctr, output>>

\* bm_clint_clear_ipi()
ClearIpi(h) ==
    /\ IsrMove(h, "clear", "lock")
    /\ msip' = [msip EXCEPT ![h] = FALSE]
    /\ UNCHANGED <<barrier, lock, step, mie, done_ctr, output>>

IsrLock(h) ==
    /\ IsrMove(h, "lock", "spin") /\ M!Lock(Isr(h))
    /\ UNCHANGED <<barrier, step, mie, msip, done_ctr, output>>

IsrSpin(h) ==
    /\ isr[h] = "spin" /\ M!Spin(Isr(h))
    /\ isr' = [isr EXCEPT ![h] = IF mpc'[Isr(h)] = "in" THEN "print" ELSE "spin"]
    /\ UNCHANGED <<barrier, step, mie, msip, done_ctr, output>>

IsrPrint(h) ==
    /\ IsrMove(h, "print", "unlock")
    /\ output' = Append(output, <<"receive", h>>)
    /\ UNCHANGED <<barrier, lock, step, mie, msip, done_ctr>>

IsrUnlock(h) ==
    /\ IsrMove(h, "unlock", "count") /\ M!Unlock(Isr(h))
    /\ UNCHANGED <<barrier, step, mie, msip, done_ctr, output>>

\* bm_amoadd_w(rd, 1, &done_ctr)
IsrCount(h) ==
    /\ IsrMove(h, "count", "return")
    /\ done_ctr' = done_ctr + 1
    /\ UNCHANGED <<barrier, lock, step, mie, msip, output>>

\* mret restores MIE.
IsrReturn(h) ==
    /\ IsrMove(h, "return", "none")
    /\ mie' = [mie EXCEPT ![h] = TRUE]
    /\ UNCHANGED <<barrier, lock, step, msip, done_ctr, output>>

IsrStep(h) ==
    \/ TakeTrap(h)
    \/ ClearIpi(h)
    \/ IsrLock(h)
    \/ IsrSpin(h)
    \/ IsrPrint(h)
    \/ IsrUnlock(h)
    \/ IsrCount(h)
    \/ IsrReturn(h)

Next == \E h \in Harts : HartStep(h) \/ IsrStep(h)

Spec == Init /\ [][Next]_vars

\* Every hart has a core of its own, and a pending interrupt that is enabled
\* is taken.
FairSpec == Spec /\ \A h \in Harts : WF_vars(HartStep(h)) /\ WF_vars(IsrStep(h))
-----------------------------------------------------------------------------
\* The IPIs, the lock, the barrier and each hart's place stay well formed.
TypeOK ==
    /\ B!TypeOK
    /\ M!TypeOK
    /\ step \in [Harts -> 1 .. Len(Program) + 1]
    /\ isr \in [Harts -> {"none", "clear", "lock", "spin", "print", "unlock",
                          "count", "return"}]
    /\ mie \in [Harts -> BOOLEAN]
    /\ msip \in [Harts -> BOOLEAN]
    /\ done_ctr \in 0 .. N
    /\ output \in Seq({"send", "receive"} \X Harts)

MutualExclusion == M!MutualExclusion

\* clint-ipi.c:86: the handler must not wait for the lock that the job it has
\* interrupted holds, which would deadlock the hart.
HandlerNeverBlocksOnItself ==
    \A h \in Harts : ~ (mpc[Job(h)] = "in" /\ mpc[Isr(h)] = "spin")

\* The README's example output: all the harts print that they send before any
\* of them prints that it has received.
SendsPrecedeReceives ==
    \A i, j \in DOMAIN output :
       output[i][1] = "receive" /\ output[j][1] = "send" => j < i

\* The demo ends, and when it says goodbye each hart has printed both of its
\* lines once.
DemoEnds ==
    <>( /\ step[0] = Len(Program) + 1
        /\ Len(output) = 2 * N
        /\ \A l \in {"send", "receive"} \X Harts : \E i \in DOMAIN output : output[i] = l)
=============================================================================
