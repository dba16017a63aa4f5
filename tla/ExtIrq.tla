------------------------------- MODULE ExtIrq -------------------------------
(***************************************************************************)
(* External interrupts: the GPIO peripherals that raise them (gpio.c), the *)
(* interrupt controllers (plic.c, pic.c, clic.c), the dispatcher of        *)
(* interrupt.c and the demos that use them, each a program of statements   *)
(* run by one hart and interrupted between any two accesses.               *)
(*                                                                         *)
(* The devices are external: an AXI GPIO whose status bit IPISR is toggled *)
(* by writing 1, a PLIC whose gateway lets one request of a source through *)
(* until it is completed, a PIC with a flag per source, and a CLIC that    *)
(* looks at the level of its inputs.                                       *)
(***************************************************************************)
EXTENDS Integers, Sequences, FiniteSets

CONSTANTS
    Demos,      \* the demos that may run
    MaxFlips,   \* bound: how often the switches of gpio-interrupt-demo are flipped
    StaleIrq,   \* TRUE if IPISR may be set before bm_gpio_init_irq()
    PicEdge     \* TRUE if the PIC latches edges of its inputs, FALSE if levels

Sources == {0, 1}       \* gpio0 and gpio1, or their ext_irq_id
Leds == {0, 1}          \* LED0 and one of the others

VARIABLES
    demo,       \* the program that runs
    pc, half,   \* its statement, and how many of its accesses are done
    reg,        \* the value the statement has read
    mie, meie,  \* mstatus.MIE, mie.MEIE
    stage,      \* where the handler is, "none" if it does not run
    irq,        \* the source it handles
    table,      \* sources with a handler in bm_ext_irq_handler_table
    generating, ipisr,              \* per GPIO: GIER and IPIER are set; IPISR
    enabled, prio, threshold,       \* of the controller
    pending, serving,               \* latched requests; claimed, not completed
    shadow, leds,                   \* gpio->shadow and GPIO_DATA
    flips,      \* bound
    raised, log \* history: requests raised per source; sources handled

main == <<demo, pc, half, reg>>
hart == <<mie, meie, stage, irq, table>>
ctl == <<enabled, prio, threshold>>
line == <<generating, ipisr, pending, serving>>
led == <<shadow, leds>>
hist == <<flips, raised, log>>
vars == <<main, hart, ctl, line, led, hist>>

Plic == demo \in {"plic_interrupts", "plic_priority", "gpio_plic"}
Pic == demo \in {"pic_interrupts", "gpio_pic"}
Clic == ~ Plic /\ ~ Pic
GpioDemo == demo \in {"gpio_plic", "gpio_pic", "gpio_clic"}
-----------------------------------------------------------------------------
(* The programs *)

\* bm_ext_irq_enable(): a PLIC source gets priority 1 besides.
ExtIrqEnable(s, plic) ==
    <<<<"enable", s>>>> \o IF plic THEN <<<<"priority", s, 1>>>> ELSE <<>>

\* bm_gpio_init_irq()
GpioInitIrq(s, plic) == <<<<"generate", s>>, <<"clear", s>>>> \o ExtIrqEnable(s, plic)

\* plic-interrupts and clic-interrupts
Interrupts(enable) ==
    enable \o <<<<"fire", 0>>, <<"disable", 0>>, <<"fire", 0>>>> \o enable

\* fire_interrupt() of the priority demos
FireBoth == <<<<"fire", 0>>, <<"fire", 1>>, <<"mie", TRUE>>, <<"mie", FALSE>>>>

\* Mutant: the priorities are exchanged.
TestPriority_Exchanged(p, q, t) ==
    <<<<"threshold", t>>, <<"priority", 0, q>>, <<"priority", 1, p>>>> \o FireBoth

\* test_priority(); bm_clic_set_level() is the CLIC's priority.
TestPriority(p, q, t) ==
    <<<<"threshold", t>>, <<"priority", 0, p>>, <<"priority", 1, q>>>> \o FireBoth

\* main() of gpio-interrupt-demo; it ends in a loop of four statements.
GpioMain(plic) ==
    <<<<"mie", TRUE>>, <<"handler", 0>>, <<"meie", TRUE>>>> \o GpioInitIrq(0, plic) \o
    <<<<"fire", 0>>, <<"led_on", 0>>, <<"led_off", 0>>, <<"led_off", 1>>, <<"loop">>>>

Program ==
    [plic_interrupts |->
        <<<<"mie", TRUE>>>> \o GpioInitIrq(0, TRUE) \o <<<<"meie", TRUE>>>>
        \o Interrupts(ExtIrqEnable(0, TRUE)),
     plic_priority |->
        <<<<"mie", TRUE>>>> \o GpioInitIrq(0, TRUE) \o GpioInitIrq(1, TRUE)
        \o <<<<"meie", TRUE>>>>
        \o TestPriority(1, 1, 0) \o TestPriority(1, 2, 1)
        \o TestPriority(2, 1, 0) \o TestPriority(1, 2, 0),
     pic_interrupts |->
        <<<<"mie", TRUE>>, <<"meie", TRUE>>, <<"enable", 0>>, <<"flag", 0>>,
          <<"disable", 0>>, <<"flag", 0>>, <<"enable", 0>>>>,
     clic_interrupts |->
        <<<<"clic_init">>>> \o GpioInitIrq(0, FALSE) \o <<<<"mie", TRUE>>>>
        \o Interrupts(ExtIrqEnable(0, FALSE)),
     clic_priority |->
        <<<<"clic_init">>>> \o GpioInitIrq(0, FALSE) \o GpioInitIrq(1, FALSE)
        \o <<<<"enable", 0>>, <<"enable", 1>>>>
        \o TestPriority(255, 127, 0) \o TestPriority(127, 255, 0),
     gpio_plic |-> GpioMain(TRUE),
     gpio_pic |-> GpioMain(FALSE),
     gpio_clic |-> <<<<"clic_init">>>> \o GpioMain(FALSE)]

Init ==
    /\ demo \in Demos
    /\ pc = 1 /\ half = 0 /\ reg = {}
    /\ mie = FALSE /\ meie = FALSE /\ stage = "none" /\ irq = 0 /\ table = {}
    /\ enabled = {} /\ prio = [s \in Sources |-> 1] /\ threshold = 0
    /\ generating = {} /\ ipisr \in SUBSET (IF StaleIrq THEN Sources ELSE {})
    /\ pending = {} /\ serving = {}
    /\ shadow = {} /\ leds = {}
    /\ flips = 0 /\ raised = [s \in Sources |-> 0] /\ log = <<>>
-----------------------------------------------------------------------------
(* The devices *)

\* The requests the controller holds when the lines become high, a set of
\* sources, and the sources in srv have been claimed.
Latch(high, pend, srv) ==
    IF Plic THEN pend \cup (high \ srv)
    ELSE IF Clic THEN high
    ELSE pend \cup (IF PicEdge THEN high \ (ipisr \cap generating) ELSE high)

\* The status bits of the GPIOs change.
SetIpisr(ip) ==
    /\ ipisr' = ip
    /\ pending' = Latch(ip \cap generating, pending, serving)
    /\ raised' = [s \in Sources |-> raised[s] + (IF s \in ip \ ipisr THEN 1 ELSE 0)]

Toggled(s) == IF s \in ipisr THEN ipisr \ {s} ELSE ipisr \cup {s}

\* What interrupts the hart, and the request that goes first: the lowest
\* number among the highest priorities on a PLIC, the highest on a CLIC.
Active == {s \in pending \cap enabled : Pic \/ prio[s] > threshold}
Deliverable == mie /\ (meie \/ Clic) /\ stage = "none" /\ Active # {}

First(S) ==
    LET top == {s \in S : Pic \/ \A t \in S : prio[t] <= prio[s]}
    IN CHOOSE s \in top : \A t \in top : IF Clic THEN t <= s ELSE s <= t

\* A user of the board flips a switch.
Flip ==
    /\ GpioDemo /\ flips < MaxFlips
    /\ flips' = flips + 1
    /\ SetIpisr(ipisr \cup {0})
    /\ UNCHANGED <<main, hart, ctl, generating, serving, led, log>>
-----------------------------------------------------------------------------
(* The statements of the program *)

Statement == Program[demo][pc]
Arg == Statement[2]

\* The program makes access number k of a statement op; an interrupt is taken
\* at the latest before a statement, which begins with output, a delay or, if
\* it clears MIE, directly after the write that has set it.
At(op, k) ==
    /\ stage = "none"
    /\ pc <= Len(Program[demo])
    /\ Statement[1] = op /\ half = k
    /\ k = 0 => ~ Deliverable

More == half' = half + 1 /\ UNCHANGED <<demo, pc>>
GoTo(to) == pc' = to /\ half' = 0 /\ reg' = {} /\ UNCHANGED demo
Done == GoTo(pc + 1)

\* bm_interrupt_enable(), bm_interrupt_disable(), bm_interrupt_enable_source()
SetMie ==
    /\ At("mie", 0) /\ mie' = Arg /\ Done
    /\ UNCHANGED <<meie, stage, irq, table, ctl, line, led, hist>>

SetMeie ==
    /\ At("meie", 0) /\ meie' = Arg /\ Done
    /\ UNCHANGED <<mie, stage, irq, table, ctl, line, led, hist>>

\* bm_ext_irq_set_handler()
SetHandler ==
    /\ At("handler", 0) /\ table' = table \cup {Arg} /\ Done
    /\ UNCHANGED <<mie, meie, stage, irq, ctl, line, led, hist>>

\* GIER and IPIER
Generate ==
    /\ At("generate", 0)
    /\ generating' = generating \cup {Arg}
    /\ pending' = Latch(ipisr \cap generating', pending, serving)
    /\ Done
    /\ UNCHANGED <<hart, ctl, ipisr, serving, led, hist>>

\* bm_gpio_set_irq() and bm_gpio_clear_irq(): IPISR is read ...
ReadIpisr ==
    /\ At("fire", 0) \/ At("clear", 0)
    /\ reg' = ipisr /\ More
    /\ UNCHANGED <<hart, ctl, line, led, hist>>

\* ... and toggled unless it had the value already.
ToggleIpisr ==
    /\ \/ At("fire", 1) /\ SetIpisr(IF Arg \in reg THEN ipisr ELSE Toggled(Arg))
       \/ At("clear", 1) /\ SetIpisr(IF Arg \in reg THEN Toggled(Arg) ELSE ipisr)
    /\ Done
    /\ UNCHANGED <<hart, ctl, generating, serving, led, flips, log>>

\* bm_plic_set_enable(): the register is read ...
ReadEnables ==
    /\ Plic /\ (At("enable", 0) \/ At("disable", 0))
    /\ reg' = enabled /\ More
    /\ UNCHANGED <<hart, ctl, line, led, hist>>

\* ... and written; bm_clic_set_enable(), bm_pic_enable_source() and
\* bm_pic_disable_source() only write.
WriteEnables ==
    LET old == IF Plic THEN reg ELSE enabled
        k == IF Plic THEN 1 ELSE 0
    IN /\ \/ At("enable", k) /\ enabled' = old \cup {Arg}
          \/ At("disable", k) /\ enabled' = old \ {Arg}
       /\ Done
       /\ UNCHANGED <<hart, prio, threshold, line, led, hist>>

\* bm_plic_set_priority(), bm_clic_set_level()
SetPriority ==
    /\ At("priority", 0)
    /\ prio' = [prio EXCEPT ![Arg] = Statement[3]]
    /\ Done
    /\ UNCHANGED <<hart, enabled, threshold, line, led, hist>>

SetThreshold ==
    /\ At("threshold", 0) /\ threshold' = Arg /\ Done
    /\ UNCHANGED <<hart, enabled, prio, line, led, hist>>

\* bm_clic_init(): every input is disabled, at level 1.
ClicInit ==
    /\ At("clic_init", 0)
    /\ enabled' = {} /\ prio' = [s \in Sources |-> 1] /\ Done
    /\ UNCHANGED <<hart, threshold, line, led, hist>>

\* fire_interrupt() of pic-interrupts sets the flag itself.
SetFlag ==
    /\ At("flag", 0)
    /\ pending' = pending \cup {Arg}
    /\ raised' = [raised EXCEPT ![Arg] = @ + 1]
    /\ Done
    /\ UNCHANGED <<hart, ctl, generating, ipisr, serving, led, flips, log>>

\* bm_gpio_set() and bm_gpio_clear(): the shadow is loaded, stored, and copied
\* to the pins, which the compiler does from a register.
LoadShadow ==
    /\ \/ At("led_on", 0) /\ reg' = shadow \cup {Arg}
       \/ At("led_off", 0) /\ reg' = shadow \ {Arg}
    /\ More
    /\ UNCHANGED <<hart, ctl, line, led, hist>>

StoreShadow ==
    /\ At("led_on", 1) \/ At("led_off", 1)
    /\ shadow' = reg /\ More
    /\ UNCHANGED <<reg, hart, ctl, line, leds, hist>>

StoreData ==
    /\ At("led_on", 2) \/ At("led_off", 2)
    /\ leds' = reg /\ Done
    /\ UNCHANGED <<hart, ctl, line, shadow, hist>>

Loop ==
    /\ At("loop", 0) /\ GoTo(pc - 3)
    /\ UNCHANGED <<hart, ctl, line, led, hist>>

Main ==
    \/ SetMie \/ SetMeie \/ SetHandler \/ Generate \/ ReadIpisr \/ ToggleIpisr
    \/ ReadEnables \/ WriteEnables \/ SetPriority \/ SetThreshold \/ ClicInit
    \/ SetFlag \/ LoadShadow \/ StoreShadow \/ StoreData \/ Loop
-----------------------------------------------------------------------------
(* The handlers: my_handler() of the demos, or bm_ext_irq_handler() and the *)
(* interrupt_handler() of gpio-interrupt-demo                               *)

Handler(from, to) == stage = from /\ stage' = to /\ UNCHANGED <<main, meie, table>>

\* The hart enters the handler; a CLIC names the source in mcause.
Trap ==
    /\ Deliverable
    /\ Handler("none", IF Clic THEN "handle" ELSE "claim")
    /\ mie' = FALSE
    /\ irq' = IF Clic THEN First(Active) ELSE irq
    /\ UNCHANGED <<ctl, line, led, hist>>

\* bm_plic_claim() takes the request, bm_pic_get_irq() only looks for it.
Claim ==
    /\ pending \cap enabled # {}
    /\ Handler("claim", "handle")
    /\ irq' = First(pending \cap enabled)
    /\ IF Plic THEN pending' = pending \ {irq'} /\ serving' = serving \cup {irq'}
       ELSE UNCHANGED <<pending, serving>>
    /\ UNCHANGED <<mie, ctl, generating, ipisr, led, hist>>

\* The source's handler prints, and lights the LEDs in gpio-interrupt-demo;
\* a source without one is fatal in the framework.
Handle ==
    /\ IF GpioDemo /\ irq \notin table
       THEN Handler("handle", "fatal") /\ UNCHANGED <<led, log>>
       ELSE /\ Handler("handle", IF demo = "pic_interrupts" THEN "complete" ELSE "read")
            /\ log' = Append(log, irq)
            /\ IF GpioDemo THEN shadow' = Leds /\ leds' = Leds ELSE UNCHANGED led
    /\ UNCHANGED <<mie, irq, ctl, line, flips, raised>>

\* bm_gpio_clear_irq()
ClearIpisr ==
    \/ /\ irq \in ipisr /\ Handler("read", "toggle")
       /\ UNCHANGED <<mie, irq, ctl, line, led, hist>>
    \/ /\ irq \notin ipisr /\ Handler("read", "complete")
       /\ UNCHANGED <<mie, irq, ctl, line, led, hist>>
    \/ /\ Handler("toggle", "complete")
       /\ SetIpisr(Toggled(irq))
       /\ UNCHANGED <<mie, irq, ctl, generating, serving, led, flips, log>>

\* Mutant: the PLIC is not told.
Complete_Forgotten ==
    /\ Handler("complete", "none")
    /\ mie' = TRUE
    /\ UNCHANGED <<serving, pending, irq, ctl, generating, ipisr, led, hist>>

\* Mutant: the PIC's flag is not cleared.
Complete_FlagStays ==
    /\ Handler("complete", "none")
    /\ mie' = TRUE
    /\ serving' = IF irq \in enabled THEN serving \ {irq} ELSE serving
    /\ pending' = IF Clic THEN pending ELSE Latch(ipisr \cap generating, pending, serving')
    /\ UNCHANGED <<irq, ctl, generating, ipisr, led, hist>>

\* bm_plic_complete() opens the gateway, if the source is enabled;
\* bm_pic_clear_irq() clears the flag.  Then the hart returns.
Complete ==
    /\ Handler("complete", "none")
    /\ mie' = TRUE
    /\ serving' = IF irq \in enabled THEN serving \ {irq} ELSE serving
    /\ pending' = IF Plic THEN Latch(ipisr \cap generating, pending, serving')
                  ELSE IF Clic THEN pending
                  ELSE Latch(ipisr \cap generating, pending \ {irq}, {})
    /\ UNCHANGED <<irq, ctl, generating, ipisr, led, hist>>

Isr == Trap \/ Claim \/ Handle \/ ClearIpisr \/ Complete

Ended == pc > Len(Program[demo]) /\ stage = "none" /\ ~ Deliverable
Next == Main \/ Isr \/ Flip \/ (Ended /\ UNCHANGED vars)

Spec == Init /\ [][Next]_vars

\* The hart runs, and takes interrupts.
FairSpec == Spec /\ WF_vars(Main) /\ WF_vars(Isr)
-----------------------------------------------------------------------------
\* What the demos say they show: the handlers that run, in their order.
Announced ==
    [plic_interrupts |-> <<0, 0>>, pic_interrupts |-> <<0, 0>>,
     clic_interrupts |-> <<0, 0>>,
     plic_priority |-> <<0, 1, 1, 0, 1, 1, 0>>, clic_priority |-> <<0, 1, 1, 0>>]

Handled(s) == Cardinality({i \in DOMAIN log : log[i] = s})

\* A handler runs for a request that was raised and only once for it, also when the
\* program clears IPISR at the same time or the switch is flipped again meanwhile.
EachRequestIsHandledOnce == \A s \in Sources : Handled(s) <= raised[s]

\* When a demo ends the handlers have run in the order its text announces: none
\* while the source is disabled or below the threshold, the higher priority
\* first (plic-priority.c:104-114).
HandlersRunAsAnnounced ==
    ~ GpioDemo =>
        /\ Len(log) <= Len(Announced[demo])
        /\ log = SubSeq(Announced[demo], 1, Len(log))
        /\ Ended => log = Announced[demo]

\* No request stays in a device or in the controller for ever, so that later
\* ones of its source are not held up behind it.
EveryRequestIsServed ==
    \A s \in Sources : s \in ipisr \cup pending \cup serving
                       ~> s \notin ipisr \cup pending \cup serving

\* A LED goes off only when the program clears that one: interrupting
\* bm_gpio_set() or bm_gpio_clear() must not undo what the handler has set.
OnlyClearedLedsGoOff ==
    [][\A l \in leds \ leds' : Statement = <<"led_off", l>>]_vars
=============================================================================
