------------------------------ MODULE PrivMode ------------------------------
(***************************************************************************)
(* Privilege modes and the managed trap handlers: bm_current_mode and      *)
(* bm_priv_enter_mode() of lib/src/priv.c, bm_managed_handler_inner() and  *)
(* the trap vectors of lib/src/interrupt.c.  bm_current_mode is a software *)
(* copy of the privilege mode, one variable for all harts; it selects the  *)
(* CSRs the handlers read.  The hardware's traps and xRET instructions are *)
(* those of the RISC-V privileged architecture, on a target with S and U   *)
(* modes: an interrupt is handled in M mode, or in S mode if delegated.    *)
(***************************************************************************)
EXTENDS Integers, Sequences

CONSTANT Harts

\* bm_priv_mode_t
U == 0
S == 1
M == 3
Modes == {U, S, M}
TrapModes == {M, S}     \* the modes that have trap handlers and an xRET

BitOr(m, n) == IF m > n THEN m ELSE n   \* of the bit patterns 00, 01 and 11

VARIABLES
    cur,        \* bm_current_mode
    priv,       \* per hart: the privilege mode it really is in
    ie,         \* per hart and trap mode x: xstatus.xIE
    pie,        \* ... xstatus.xPIE
    pp,         \* ... xstatus.xPP
    epc,        \* ... xepc: "entry", or the depth of the frame to resume, or -1
    stack,      \* per hart: the program, then the handlers that interrupt it
    (* history, read by the properties only *)
    wrote,      \* the harts that have assigned bm_current_mode
    dropped,    \* has any hart called bm_priv_enter_mode()?
    hit         \* per hart: has a trap overwritten what bm_priv_enter_mode() had
                \* already put into the trap CSRs for its xret?

csrs == <<ie, pie, pp, epc>>
history == <<wrote, dropped, hit>>
vars == <<cur, priv, csrs, stack, history>>

Entry == 0      \* xepc holds the entry function of bm_priv_enter_mode()
Garbage == -1   \* xepc holds an address nobody has set up

\* What a level of the hart's stack is doing: "at" is its next statement, "mode"
\* the mode it was asked to run in, "prev" its local variable prev_mode.
Frame(at, mode, prev) == [at |-> at, mode |-> mode, prev |-> prev]

Init ==
    /\ cur = M
    /\ priv = [h \in Harts |-> M]
    /\ ie = [h \in Harts |-> [x \in TrapModes |-> FALSE]]
    /\ pie = [h \in Harts |-> [x \in TrapModes |-> FALSE]]
    /\ pp = [h \in Harts |-> [x \in TrapModes |-> U]]
    /\ epc = [h \in Harts |-> [x \in TrapModes |-> Garbage]]
    /\ stack = [h \in Harts |-> <<Frame("run", M, M)>>]
    /\ wrote = {} /\ dropped = FALSE /\ hit = [h \in Harts |-> FALSE]

Depth(h) == Len(stack[h])
Top(h) == stack[h][Depth(h)]

SetTop(h, f) == stack' = [stack EXCEPT ![h][Depth(h)] = f]
Goto(h, from, to) == Top(h).at = from /\ SetTop(h, [Top(h) EXCEPT !.at = to])
Put(csr, h, x, v) == [csr EXCEPT ![h][x] = v]

\* The hart h assigns bm_current_mode.
SetCur(h, m) == cur' = m /\ wrote' = wrote \cup {h}
-----------------------------------------------------------------------------
(* the hardware *)

\* bm_priv_enter_mode() is past the write of xPP or xepc, and its xret still needs
\* what was written: a trap to the same mode leaves U and its own xepc behind.
Exposed(h, x) ==
    /\ Top(h).prev = x
    /\ \/ Top(h).at = "write_epc" /\ Top(h).mode # U
       \/ Top(h).at = "enter"

\* The hart h takes a trap to mode x between two instructions: an interrupt
\* that x does not mask, or an exception of code in a lower mode.
Trap(h, x) ==
    /\ priv[h] < x \/ (priv[h] = x /\ ie[h][x])
    /\ pie' = Put(pie, h, x, ie[h][x])
    /\ ie' = Put(ie, h, x, FALSE)
    /\ pp' = Put(pp, h, x, priv[h])
    /\ epc' = Put(epc, h, x, Depth(h))
    /\ priv' = [priv EXCEPT ![h] = x]
    /\ stack' = [stack EXCEPT ![h] = Append(@, Frame("save", x, U))]
    /\ hit' = [hit EXCEPT ![h] = @ \/ Exposed(h, x)]
    /\ UNCHANGED <<cur, wrote, dropped>>

\* mret or sret: what the CSRs and the mode become.
Xret(h, x) ==
    /\ priv' = [priv EXCEPT ![h] = pp[h][x]]
    /\ ie' = Put(ie, h, x, pie[h][x])
    /\ pie' = Put(pie, h, x, TRUE)
    /\ pp' = Put(pp, h, x, U)
    /\ UNCHANGED epc
-----------------------------------------------------------------------------
(* bm_managed_handler_inner(x) on top of the stack of h *)

\* prev_mode = bm_current_mode
SavePrevMode(h) ==
    /\ Top(h).at = "save"
    /\ SetTop(h, Frame("set", Top(h).mode, cur))
    /\ UNCHANGED <<cur, priv, csrs, history>>

\* bm_current_mode = new_mode
SetNewMode(h) ==
    /\ Goto(h, "set", "cause")
    /\ SetCur(h, Top(h).mode)
    /\ UNCHANGED <<priv, csrs, dropped, hit>>

\* The handler that is called is looked up with the cause CSR of the mode that
\* bm_get_priv_mode() returns; a hart that reads the CSR of a higher mode than
\* its own takes an illegal instruction exception: "fault".
ReadCause(h) ==
    /\ Goto(h, "cause", IF cur > priv[h] THEN "fault"
                        ELSE IF cur = priv[h] THEN "call" ELSE "wrong_cause")
    /\ UNCHANGED <<cur, priv, csrs, history>>

\* The registered handler runs and returns.
CallHandler(h) ==
    /\ Goto(h, "call", "restore")
    /\ UNCHANGED <<cur, priv, csrs, history>>

\* Mutant: the software copy of the mode is not restored.
RestoreMode_Forgotten(h) ==
    /\ Goto(h, "restore", "xret")
    /\ UNCHANGED <<cur, priv, csrs, history>>

\* bm_current_mode = prev_mode
RestoreMode(h) ==
    /\ Goto(h, "restore", "xret")
    /\ SetCur(h, Top(h).prev)
    /\ UNCHANGED <<priv, csrs, dropped, hit>>

\* The trap vector's mret or sret resumes the interrupted code.
HandlerReturn(h) ==
    LET x == Top(h).mode IN
    /\ Top(h).at = "xret"
    /\ epc[h][x] = Depth(h) - 1
    /\ Xret(h, x)
    /\ stack' = [stack EXCEPT ![h] = SubSeq(@, 1, Depth(h) - 1)]
    /\ UNCHANGED <<cur, history>>

Handler(h) ==
    \/ SavePrevMode(h)
    \/ SetNewMode(h)
    \/ ReadCause(h)
    \/ CallHandler(h)
    \/ RestoreMode(h)
    \/ HandlerReturn(h)
-----------------------------------------------------------------------------
(* the program, in mode priv[h] *)

\* bm_interrupt_enable() and bm_interrupt_disable() for the program's own mode.
SetInterrupts(h, on) ==
    /\ Top(h).at = "run"
    /\ priv[h] \in TrapModes
    /\ ie' = Put(ie, h, priv[h], on)
    /\ UNCHANGED <<cur, priv, pie, pp, epc, stack, history>>

\* bm_priv_enter_mode(mode, entry, stack): the check, fatal if it fails, then
\* prev_mode = bm_current_mode; bm_current_mode = mode.
EnterMode(h, mode) ==
    /\ Top(h).at = "run"
    /\ mode < cur
    /\ SetTop(h, Frame("clear_pp", mode, cur))
    /\ SetCur(h, mode)
    /\ dropped' = TRUE
    /\ UNCHANGED <<priv, csrs, hit>>

\* BM_CSR_CLEAR of xstatus.xPP, of the mode that prev_mode says: another illegal
\* instruction if that is higher than the hart's own.
ClearPp(h) ==
    /\ IF Top(h).prev > priv[h]
       THEN Goto(h, "clear_pp", "fault") /\ UNCHANGED pp
       ELSE Goto(h, "clear_pp", "set_pp") /\ pp' = Put(pp, h, Top(h).prev, U)
    /\ UNCHANGED <<cur, priv, ie, pie, epc, history>>

\* BM_CSR_SET of xstatus.xPP: a bitwise or.
SetPp(h) ==
    /\ Goto(h, "set_pp", "write_epc")
    /\ pp' = Put(pp, h, Top(h).prev, BitOr(pp[h][Top(h).prev], Top(h).mode))
    /\ UNCHANGED <<cur, priv, ie, pie, epc, history>>

WriteEpc(h) ==
    /\ Goto(h, "write_epc", "enter")
    /\ epc' = Put(epc, h, Top(h).prev, Entry)
    /\ UNCHANGED <<cur, priv, ie, pie, pp, history>>

\* The mret or sret at the end jumps to wherever xepc points: "run" is the
\* entry function, "lost" anywhere else.
EnterXret(h) ==
    LET x == Top(h).prev IN
    /\ Goto(h, "enter", IF epc[h][x] = Entry THEN "run" ELSE "lost")
    /\ Xret(h, x)
    /\ UNCHANGED <<cur, history>>

Program(h) ==
    \/ \E on \in BOOLEAN : SetInterrupts(h, on)
    \/ \E mode \in {U, S} : EnterMode(h, mode)
    \/ ClearPp(h)
    \/ SetPp(h)
    \/ WriteEpc(h)
    \/ EnterXret(h)

Next == \E h \in Harts :
    \/ Program(h)
    \/ Handler(h)
    \/ \E x \in TrapModes : Trap(h, x)

Spec == Init /\ [][Next]_vars
-----------------------------------------------------------------------------
MaxDepth == 3   \* the program, an S mode and an M mode handler

Places == {"run", "clear_pp", "set_pp", "write_epc", "enter", "lost", "save",
           "set", "cause", "fault", "wrong_cause", "call", "restore", "xret"}

\* The modes, the status bits and the saved modes stay in their ranges.
TypeOK ==
    /\ cur \in Modes
    /\ priv \in [Harts -> Modes]
    /\ ie \in [Harts -> [TrapModes -> BOOLEAN]]
    /\ pie \in [Harts -> [TrapModes -> BOOLEAN]]
    /\ pp \in [Harts -> [TrapModes -> Modes]]
    /\ epc \in [Harts -> [TrapModes -> -1 .. MaxDepth]]
    /\ wrote \subseteq Harts /\ dropped \in BOOLEAN /\ hit \in [Harts -> BOOLEAN]
    /\ \A h \in Harts :
          /\ Depth(h) \in 1 .. MaxDepth
          /\ \A d \in 1 .. Depth(h) :
                stack[h][d] \in [at : Places, mode : Modes, prev : Modes]

\* The program or a registered handler runs, in the mode that bm_current_mode says
\* and that was asked for, or the library is at work in between.
Accurate(h) ==
    /\ Top(h).at \notin {"lost", "fault", "wrong_cause"}
    /\ Top(h).at \in {"run", "call"} => cur = priv[h] /\ priv[h] = Top(h).mode

\* priv.h: bm_get_priv_mode() "Get the current privilege level", and
\* bm_priv_enter_mode() "Enter a lower privilege level", with "Privilege level to
\* drop the privilege to".  Both do, on all harts in any nesting of traps ...
LevelIsCurrent == \A h \in Harts : Accurate(h)

\* ... but for two things that nothing in the code excludes: another hart sets
\* the variable, after one of them has dropped its level, and a trap comes
\* while bm_priv_enter_mode() has the trap CSRs set up.  Even after that one, the
\* handlers run by the mode of their own.
ModeIsAccurate ==
    \A h \in Harts :
       wrote \subseteq {h} \/ ~ dropped =>
          \/ Accurate(h)
          \/ hit[h] /\ Depth(h) = 1
=============================================================================
