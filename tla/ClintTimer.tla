----------------------------- MODULE ClintTimer -----------------------------
(***************************************************************************)
(* The CLINT timer: bm_clint_get_mtime(), bm_clint_set_mtimecmp(),         *)
(* bm_clint_arm_timer() and bm_clint_rearm_timer() of lib/src/clint.c, used *)
(* by one hart as software/wfi-demo does: the program arms the timer, the  *)
(* interrupt handler re-arms it, and measure_intr() waits until Target     *)
(* interrupts have been handled, with or without the wfi instruction.      *)
(*                                                                         *)
(* MTIME and MTIMECMP are 64-bit registers.  A hart with 32-bit registers  *)
(* accesses them by words of W values, low and high, one at a time.        *)
(***************************************************************************)
EXTENDS Integers

CONSTANTS W,          \* number of values of a word
          Delay,      \* clint_tics_in_hundred_ms
          Target,     \* 10 in the code
          MaxTime     \* bound on MTIME

ASSUME ParamAssumption ==
    /\ W \in Nat \ {0} /\ Delay \in Nat \ {0} /\ Target \in Nat /\ MaxTime \in Nat
    /\ W <= MaxTime            \* MTIME may start at W
    /\ MaxTime < (W - 1) * W   \* a high word of all ones is never reached

VARIABLES
    rv32,       \* is it a build with RISCV_XLEN == 32?
    use_wfi,    \* the argument of measure_intr()
    mtime,      \* MTIME
    mtimecmp,   \* MTIMECMP of this hart
    stepped,    \* has the hart made a step since the last tick?
    enabled,    \* are interrupts enabled?
    counter,    \* mtip_counter
    pc,         \* where main() is
    half,       \* the word of MTIME it has loaded: "low" or "high"
    word,       \* ... and its value
    value,      \* time_value in main()'s call of bm_clint_set_mtimecmp()
    ipc,        \* where mtip_handler() is, "none" if it does not run
    ivalue,     \* time_value in its call of bm_clint_set_mtimecmp()
    \* history
    called,     \* MTIME when main() last called bm_clint_arm_timer()
    due,        \* the time the last finished bm_clint_set_mtimecmp() asked for
    rearmed,    \* how often the handler re-armed since main() armed
    torn        \* did MTIME carry into its high word between the two loads of
                \* main()'s last bm_clint_get_mtime()?

config == <<rv32, use_wfi>>
regs == <<mtime, mtimecmp, stepped>>
program == <<pc, half, word, value, enabled>>
handler == <<ipc, ivalue>>
history == <<called, due, rearmed, torn>>
vars == <<config, regs, program, handler, counter, history>>

Low(t) == t % W
High(t) == t \div W
Join(low, high) == high * W + low

\* After reset MTIMECMP holds the largest value, MTIME anything.
Init ==
    /\ rv32 \in BOOLEAN /\ use_wfi \in BOOLEAN
    /\ mtime \in 0 .. W
    /\ mtimecmp = W * W - 1
    /\ stepped = TRUE
    /\ enabled = FALSE
    /\ counter = 0
    /\ pc = "arm_first"
    /\ half = "low" /\ word = 0 /\ value = 0
    /\ ipc = "none" /\ ivalue = 0
    /\ called = 0 /\ due = W * W - 1 /\ rearmed = 0 /\ torn = FALSE

Pending == mtime >= mtimecmp    \* MTIP

\* A hart makes a step at least once a tick, except where it waits: in wfi,
\* and in the calls of puts(), which take up to Delay ticks.
Tick ==
    /\ mtime < MaxTime
    /\ stepped \/ (ipc = "none" /\ pc = "asleep" /\ ~ Pending)
               \/ (ipc = "none" /\ pc = "puts" /\ mtime < called + Delay)
    /\ mtime' = mtime + 1
    /\ stepped' = FALSE
    /\ torn' = (torn \/ (pc = "load" /\ Low(mtime) = W - 1))
    /\ UNCHANGED <<config, mtimecmp, program, handler, counter, called, due, rearmed>>

HartStep == stepped' = TRUE /\ UNCHANGED <<config, mtime>>
-----------------------------------------------------------------------------
(* bm_clint_set_mtimecmp(v), one store at a time *)

SetStart == IF rv32 THEN "high_safe" ELSE "store"

\* Mutant: the words are written in order, with no safe value first.
SetStep_NoSafeValue(stage, v) ==
    mtimecmp' = IF stage = "store" THEN v
                ELSE IF stage = "high_safe" THEN mtimecmp
                ELSE IF stage = "low" THEN Join(Low(v), High(mtimecmp))
                ELSE Join(Low(mtimecmp), High(v))

SetStep(stage, v) ==
    mtimecmp' = IF stage = "store" THEN v
                ELSE IF stage = "high_safe" THEN Join(Low(mtimecmp), W - 1)
                ELSE IF stage = "low" THEN Join(Low(v), High(mtimecmp))
                ELSE Join(Low(mtimecmp), High(v))

SetStages == {"store", "high_safe", "low", "high"}
LastStages == {"store", "high"}
NextStage(stage) == IF stage = "high_safe" THEN "low" ELSE "high"
-----------------------------------------------------------------------------
(* main() *)

\* A step of the program: pending interrupts are taken before its next one.
Main(from, to) ==
    /\ ipc = "none"
    /\ ~ (Pending /\ enabled)
    /\ pc = from
    /\ pc' = to
    /\ HartStep
    /\ UNCHANGED handler

\* bm_clint_get_mtime(): one load for a 64-bit hart.
GetMtime ==
    /\ ~ rv32
    /\ \E from \in {"arm_first", "arm"} : Main(from, SetStart)
    /\ called' = mtime
    /\ value' = mtime + Delay
    /\ UNCHANGED <<mtimecmp, half, word, enabled, counter, due, rearmed, torn>>

\* For a 32-bit hart, two loads in the order of the compiler's choice.
GetMtimeWord ==
    /\ rv32
    /\ \E from \in {"arm_first", "arm"} : Main(from, "load")
    /\ called' = mtime
    /\ half' \in {"low", "high"}
    /\ word' = IF half' = "low" THEN Low(mtime) ELSE High(mtime)
    /\ torn' = FALSE
    /\ UNCHANGED <<mtimecmp, value, enabled, counter, due, rearmed>>

GetMtimeOtherWord ==
    /\ Main("load", SetStart)
    /\ value' = Delay + IF half = "low" THEN Join(word, High(mtime))
                                        ELSE Join(Low(mtime), word)
    /\ UNCHANGED <<mtimecmp, half, word, enabled, counter, history>>

\* A store of bm_clint_set_mtimecmp(); the first arming is done with the
\* interrupts disabled.
ArmStore ==
    /\ \E stage \in SetStages :
          /\ Main(stage, IF stage \notin LastStages THEN NextStage(stage)
                         ELSE IF enabled THEN "reset" ELSE "enable")
          /\ SetStep(stage, value)
          /\ due' = IF stage \in LastStages THEN value ELSE due
          /\ rearmed' = IF stage \in LastStages THEN 0 ELSE rearmed
    /\ UNCHANGED <<half, word, value, enabled, counter, called, torn>>

\* Mutant: the timer interrupt is not enabled.
Enable_Forgotten ==
    /\ Main("enable", "puts")
    /\ UNCHANGED <<mtimecmp, half, word, value, enabled, counter, history>>

\* bm_interrupt_init() and bm_interrupt_enable_source()
Enable ==
    /\ Main("enable", "puts")
    /\ enabled' = TRUE
    /\ UNCHANGED <<mtimecmp, half, word, value, counter, history>>

\* puts() returns and measure_intr() is called.
Measure ==
    /\ Main("puts", "arm")
    /\ UNCHANGED <<mtimecmp, half, word, value, enabled, counter, history>>

ResetCounter ==
    /\ Main("reset", "check")
    /\ counter' = 0
    /\ UNCHANGED <<mtimecmp, half, word, value, enabled, history>>

\* while (mtip_counter < 10) ...
CheckCounter ==
    /\ Main("check", IF counter >= Target THEN "done"
                     ELSE IF use_wfi THEN "wfi" ELSE "check")
    /\ UNCHANGED <<mtimecmp, half, word, value, enabled, counter, history>>

\* wfi stalls the hart until the next interrupt.
Sleep ==
    /\ Main("wfi", "asleep")
    /\ UNCHANGED <<mtimecmp, half, word, value, enabled, counter, history>>

-----------------------------------------------------------------------------
(* mtip_handler() *)

Handler(from, to) ==
    /\ ipc = from
    /\ ipc' = to
    /\ HartStep
    /\ UNCHANGED program

\* The trap is taken, and ends a wfi; mtip_counter++.
TakeTrap ==
    /\ Pending
    /\ enabled
    /\ pc # "done"
    /\ ipc = "none"
    /\ ipc' = "rearm"
    /\ pc' = IF pc = "asleep" THEN "check" ELSE pc
    /\ HartStep
    /\ counter' = counter + 1
    /\ UNCHANGED <<mtimecmp, half, word, value, enabled, ivalue, history>>

\* Mutant: the timer is re-armed relative to the time of the handler.
Rearm_FromNow ==
    /\ Handler("rearm", SetStart)
    /\ ivalue' = mtime + Delay
    /\ UNCHANGED <<mtimecmp, counter, history>>

\* bm_clint_rearm_timer() reads MTIMECMP, which only this hart writes.
Rearm ==
    /\ Handler("rearm", SetStart)
    /\ ivalue' = mtimecmp + Delay
    /\ UNCHANGED <<mtimecmp, counter, history>>

RearmStore ==
    /\ \E stage \in SetStages :
          /\ Handler(stage, IF stage \in LastStages THEN "none" ELSE NextStage(stage))
          /\ SetStep(stage, ivalue)
          /\ due' = IF stage \in LastStages THEN ivalue ELSE due
          /\ rearmed' = IF stage \in LastStages THEN rearmed + 1 ELSE rearmed
    /\ UNCHANGED <<ivalue, counter, called, torn>>
-----------------------------------------------------------------------------
MainStep ==
    \/ GetMtime \/ GetMtimeWord \/ GetMtimeOtherWord \/ ArmStore \/ Enable
    \/ Measure \/ ResetCounter \/ CheckCounter \/ Sleep

Hart == MainStep \/ TakeTrap \/ Rearm \/ RearmStore

Done == pc = "done" /\ UNCHANGED vars

Next == Tick \/ Hart \/ Done

\* The clock runs, and the hart executes instructions.
Fairness == WF_vars(Tick) /\ WF_vars(Hart)

Spec == Init /\ [][Next]_vars /\ Fairness
-----------------------------------------------------------------------------
\* The two registers of the CLINT and the driver's counters keep their widths.
TypeOK ==
    /\ rv32 \in BOOLEAN /\ use_wfi \in BOOLEAN
    /\ mtime \in 0 .. MaxTime
    /\ mtimecmp \in 0 .. W * W - 1
    /\ stepped \in BOOLEAN /\ enabled \in BOOLEAN
    /\ counter \in 0 .. Target + 2
    /\ pc \in SetStages \cup {"arm_first", "arm", "load", "enable", "puts",
                              "reset", "check", "wfi", "asleep", "done"}
    /\ half \in {"low", "high"} /\ word \in 0 .. W
    /\ value \in 0 .. W * W - 1 /\ ivalue \in 0 .. W * W - 1
    /\ ipc \in SetStages \cup {"none", "rearm"}
    /\ called \in 0 .. MaxTime /\ due \in 0 .. W * W - 1
    /\ rearmed \in 0 .. Target + 2 /\ torn \in BOOLEAN

\* The comment of bm_clint_set_mtimecmp(), "Write a safe value to high word
\* first to eliminate possible interrupt occurring in the middle": an interrupt
\* is pending only from a time some call asked for.
NoStrayInterrupt ==
    Pending => mtime >= due

\* clint.h, "How many ticks from now should the timer trigger": the time that
\* bm_clint_arm_timer() sets is that many ticks after some moment of the call.
ArmedFromNow ==
    pc \in SetStages => value \in called + Delay .. mtime + Delay

\* clint.h, bm_clint_rearm_timer(), "so that it triggers after a specific delay
\* from the last trigger": however late the handler runs, the triggers are
\* Delay apart.
NoDrift ==
    pc \in {"reset", "check", "wfi", "asleep", "done"} /\ ipc = "none"
       => mtimecmp = value + rearmed * Delay

\* wfi-demo, "Wait until 10 interrupts are triggered": the measurement ends, and
\* with the tenth interrupt since the timer was armed for it, unless MTIME carried
\* while a 32-bit hart read it by halves, which arms the timer for another time.
\* In particular no interrupt comes between the loop's test and the wfi, which
\* would then sleep on to a later one.
MeasurementEnds ==
    <>(pc = "done" /\ (torn \/ (counter = Target /\ rearmed = Target)))
=============================================================================
