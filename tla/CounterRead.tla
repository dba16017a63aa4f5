---------------------------- MODULE CounterRead ----------------------------
(***************************************************************************)
(* bm_counter_read(), bm_counter_clear(), bm_counter_pause() and           *)
(* bm_counter_resume() of lib/src/counter.c on a 32-bit hart: a 64-bit     *)
(* counter in two CSRs that counts while the program accesses them one at  *)
(* a time.  An interrupt handler may run between any two accesses, for any *)
(* time.  Words have W values; a counter is written <<high, low>>, and     *)
(* does not count past the largest value, which takes centuries.           *)
(***************************************************************************)
EXTENDS Integers

CONSTANT W      \* number of values of a CSR, at least one

Word == 0 .. W - 1
Count == Word \X Word

VARIABLES
    count,      \* the counter
    paused,     \* its bit of mcountinhibit
    pc,         \* the next CSR access of the program
    high_tmp, low, high,
    result,     \* what bm_counter_read() returned last
    \* history
    called,     \* the counter when bm_counter_read() or _clear() was called
    steady      \* has the counter been paused since then?

locals == <<high_tmp, low, high, result>>
vars == <<count, paused, pc, locals, called, steady>>

\* The counter c comes no later than d.
Leq(c, d) == c[1] < d[1] \/ (c[1] = d[1] /\ c[2] <= d[2])

Init ==
    /\ count \in Count
    /\ paused \in BOOLEAN
    /\ pc = "main"
    /\ high_tmp = 0 /\ low = 0 /\ high = 0
    /\ result = count /\ called = count
    /\ steady = FALSE

Last == count = <<W - 1, W - 1>>

Tick ==
    /\ ~ paused /\ ~ Last
    /\ count' = IF count[2] = W - 1 THEN <<count[1] + 1, 0>>
                                    ELSE <<count[1], count[2] + 1>>
    /\ UNCHANGED <<paused, pc, locals, called, steady>>

Call(to) ==
    /\ pc = "main"
    /\ pc' = to
    /\ called' = count
    /\ steady' = paused
    /\ UNCHANGED <<count, paused, locals>>

Access(from, to) ==
    /\ pc = from
    /\ pc' = to
    /\ UNCHANGED <<called, steady>>

\* bm_counter_pause() and bm_counter_resume(), from machine mode, in the program
\* or in a handler that interrupts it.
Inhibit(on) ==
    /\ paused' = on
    /\ steady' = (steady /\ on)
    /\ UNCHANGED <<count, pc, locals, called>>
-----------------------------------------------------------------------------
(* bm_counter_read() *)

CallRead == Call("high_tmp")

ReadHighTmp ==
    /\ Access("high_tmp", "low")
    /\ high_tmp' = count[1]
    /\ UNCHANGED <<count, paused, low, high, result>>

ReadLow ==
    /\ Access("low", "high")
    /\ low' = count[2]
    /\ UNCHANGED <<count, paused, high_tmp, high, result>>

ReadHigh ==
    /\ Access("high", "compare")
    /\ high' = count[1]
    /\ UNCHANGED <<count, paused, high_tmp, low, result>>

\* Mutant: the words are taken as they are.
Compare_Never ==
    /\ Access("compare", "main")
    /\ result' = <<high, low>>
    /\ UNCHANGED <<count, paused, high_tmp, low, high>>

\* while (high_tmp != high)
Compare ==
    /\ Access("compare", IF high_tmp = high THEN "main" ELSE "high_tmp")
    /\ result' = IF high_tmp = high THEN <<high, low>> ELSE result
    /\ UNCHANGED <<count, paused, high_tmp, low, high>>
-----------------------------------------------------------------------------
(* bm_counter_clear() *)

CallClear == Call("clear_low")

ClearLow ==
    /\ Access("clear_low", "clear_high")
    /\ count' = <<count[1], 0>>
    /\ UNCHANGED <<paused, locals>>

ClearHigh ==
    /\ Access("clear_high", "cleared")
    /\ count' = <<0, count[2]>>
    /\ UNCHANGED <<paused, locals>>

ReturnFromClear ==
    /\ Access("cleared", "main")
    /\ UNCHANGED <<count, paused, locals>>
-----------------------------------------------------------------------------
Program ==
    \/ CallRead \/ ReadHighTmp \/ ReadLow \/ ReadHigh \/ Compare
    \/ CallClear \/ ClearLow \/ ClearHigh \/ ReturnFromClear

Next == Program \/ Tick \/ \E on \in BOOLEAN : Inhibit(on)

\* The program gets on with a call it has made; it need not make any.
InCall == ReadHighTmp \/ ReadLow \/ ReadHigh \/ Compare
             \/ ClearLow \/ ClearHigh \/ ReturnFromClear

Spec == Init /\ [][Next]_vars

FairSpec == Spec /\ WF_vars(InCall)
-----------------------------------------------------------------------------
ReadStages == {"high_tmp", "low", "high", "compare"}

\* The counter and the words read from it stay in their ranges.
TypeOK ==
    /\ count \in Count
    /\ paused \in BOOLEAN
    /\ pc \in {"main", "clear_low", "clear_high", "cleared"} \cup ReadStages
    /\ high_tmp \in Word /\ low \in Word /\ high \in Word
    /\ result \in Count
    /\ called \in Count
    /\ steady \in BOOLEAN

\* counter.c, "the following sequence ensures correct reading even if the
\* counter increments in between the CSR accesses": the value returned is one
\* the counter had during the call.
ReadIsAccurate ==
    [][Compare /\ pc' = "main" => Leq(called, result') /\ Leq(result', count)]_vars

\* bm_counter_clear() of a paused counter leaves it at zero.
ClearIsComplete ==
    pc = "cleared" /\ steady => count = <<0, 0>>

\* bm_counter_read() returns: only a counter that carries into its high word
\* each time makes the loop go round again.
ReadReturns ==
    pc \in ReadStages ~> pc = "main"
=============================================================================
