------------------------------ MODULE MCTraps ------------------------------
(***************************************************************************)
(* Small instances of what traps do to a program, for TLC: one of the      *)
(* three is explored, mode changes (PrivMode), timer interrupts in         *)
(* wfi-demo (ClintTimer) or external interrupts in their demos (ExtIrq).   *)
(***************************************************************************)
EXTENDS ClintTimer, Sequences, FiniteSets

CONSTANTS Harts,                                \* PrivMode
          Demos, MaxFlips, StaleIrq, PicEdge    \* ExtIrq

VARIABLES
    which,
    cur, priv, ie, pie, pp, epc, stack, wrote, dropped, hit,    \* PrivMode
    demo, xpc, xhalf, reg, mie, meie, stage, irq, table, xenabled, prio, threshold,
    generating, ipisr, pending, serving, shadow, leds, flips, raised, log   \* ExtIrq

P == INSTANCE PrivMode
X == INSTANCE ExtIrq WITH pc <- xpc, half <- xhalf, enabled <- xenabled

ASSUME ExtIrqAssumption ==
    /\ Demos \subseteq DOMAIN X!Program
    /\ MaxFlips \in Nat /\ StaleIrq \in BOOLEAN /\ PicEdge \in BOOLEAN

pvars == <<cur, priv, ie, pie, pp, epc, stack, wrote, dropped, hit>>
xvars == <<demo, xpc, xhalf, reg, mie, meie, stage, irq, table, xenabled, prio, threshold,
           generating, ipisr, pending, serving, shadow, leds, flips, raised, log>>
all == <<which, vars, pvars, xvars>>

TimerOnly(A) == which = "clint_timer" /\ A /\ UNCHANGED <<which, pvars, xvars>>
ModesOnly(A) == which = "priv_mode" /\ A /\ UNCHANGED <<which, vars, xvars>>
ExtIrqOnly(A) == which = "ext_irq" /\ A /\ UNCHANGED <<which, vars, pvars>>

\* Two harts of mode changes are explored as long as ModeIsAccurate says something
\* about one of them: when it does not any more, it never does again.
Telling == (\E h \in Harts : wrote \subseteq {h}) \/ ~ dropped

\* What is not explored stays in one of its initial states.
TrapsInit ==
    /\ which \in {"clint_timer", "priv_mode", "ext_irq"}
    /\ Init /\ P!Init /\ X!Init
    /\ which = "clint_timer" \/ (rv32 /\ use_wfi /\ mtime = 0)
    /\ which = "ext_irq" \/ (demo = "pic_interrupts" /\ ipisr = {})

TrapsNext == TimerOnly(Next) \/ ModesOnly(P!Next /\ Telling') \/ ExtIrqOnly(X!Next)

\* The clock runs, the hart executes instructions, and it takes interrupts.
TrapsSpec ==
    /\ TrapsInit /\ [][TrapsNext]_all
    /\ WF_all(TimerOnly(Tick)) /\ WF_all(TimerOnly(Hart))
    /\ WF_all(ExtIrqOnly(X!Main)) /\ WF_all(ExtIrqOnly(X!Isr))

\* See PrivMode: bm_get_priv_mode() is right in any nesting of traps, and
\* bm_priv_enter_mode() enters the mode it was asked for, while one hart changes
\* modes or none; if a trap comes amid its last CSR writes, the handlers still are.
ModeIsAccurate == P!ModeIsAccurate

\* See PrivMode: what priv.h says of the two, with no reservation.
LevelIsCurrent == P!LevelIsCurrent

\* See ClintTimer: wfi-demo's measurement ends, and with the tenth interrupt.
TimerMeasurementEnds == which = "clint_timer" => MeasurementEnds

\* See ExtIrq: a handler runs once for a request, in the demos in the order they
\* announce, and no request is stuck in a device or a controller.
EachRequestIsHandledOnce == X!EachRequestIsHandledOnce
HandlersRunAsAnnounced == X!HandlersRunAsAnnounced
EveryRequestIsServed == X!EveryRequestIsServed

\* See ExtIrq: a LED goes off only when the program clears that one.
OnlyClearedLedsGoOff == X!OnlyClearedLedsGoOff
=============================================================================
