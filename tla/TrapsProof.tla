----------------------------- MODULE TrapsProof -----------------------------
(***************************************************************************)
(* Proofs about what traps do to a program: bm_current_mode is the mode of *)
(* the code that runs, in any nesting of traps (PrivMode), the timer       *)
(* interrupts come when they were asked for (ClintTimer), and a handler    *)
(* runs once for an external request (ExtIrq).                             *)
(*                                                                         *)
(* The argument for the modes: the handlers under way have ever higher     *)
(* modes, because a trap masks its own mode and nobody unmasks it; so each *)
(* finds the trap CSRs of its mode as its own trap left them, its xret     *)
(* returns to the level below it, and bm_current_mode, which it has set    *)
(* back by then, is again what that level had set.  bm_current_mode is one *)
(* variable, so this is said of a hart that alone has assigned it, or of   *)
(* all of them while none has left M mode.  bm_priv_enter_mode() uses the  *)
(* trap CSRs of its mode; a handler of that mode leaves U mode and its own *)
(* return address in them, and the program then goes on in U mode.         *)
(*                                                                         *)
(* The argument for the timer: from the store of the safe high word to the *)
(* store of the new one MTIMECMP is beyond any time that MTIME reaches, so *)
(* no handler comes in between, and what the three stores make is the      *)
(* value that was asked for.                                               *)
(*                                                                         *)
(* The argument for the external interrupts: a request is passed on from   *)
(* the device to the controller to the handler, and each of them lets go   *)
(* of it before the one behind it can be asked again.                      *)
(***************************************************************************)
EXTENDS MCTraps, FiniteSetTheorems, TLAPS

-----------------------------------------------------------------------------
(* bm_current_mode: the inductive invariant.                               *)

\* The program and the handlers that are under way, from the bottom.
Levels(h) == 1 .. P!Depth(h)

Entering == {"clear_pp", "set_pp", "write_epc", "enter"}
ProgramPlaces == {"run", "lost", "fault"} \cup Entering
HandlerPlaces == {"save", "set", "cause", "call", "restore", "xret"}

\* The mode that the program really runs in: bm_priv_enter_mode() runs in the mode
\* it was called in until its xret, which goes to U mode if a trap has hit it.
BaseMode(h) == LET f == stack[h][1] IN
    IF hit[h] /\ f.at \notin {"write_epc", "enter"} THEN P!U
    ELSE IF f.at \in Entering THEN f.prev ELSE f.mode

RunsIn(h, d) == IF d = 1 THEN BaseMode(h) ELSE stack[h][d].mode

\* Has the level set bm_current_mode, and not yet set it back?
Sets(f) == f.at \notin {"save", "set", "xret"}

\* m is the mode set last by the levels up to d.
LastSet(s, d, m) ==
    \E k \in 1 .. d :
       /\ Sets(s[k]) /\ s[k].mode = m
       /\ \A j \in k + 1 .. d : ~ Sets(s[j])

FrameType == [at : ProgramPlaces \cup HandlerPlaces, mode : P!Modes, prev : P!Modes]

HartTypes(h) ==
    /\ cur \in P!Modes
    /\ priv[h] \in P!Modes
    /\ ie[h] \in [P!TrapModes -> BOOLEAN]
    /\ pie[h] \in [P!TrapModes -> BOOLEAN]
    /\ pp[h] \in [P!TrapModes -> P!Modes]
    /\ epc[h] \in [P!TrapModes -> Int]
    /\ stack[h] \in Seq(FrameType)
    /\ hit[h] \in BOOLEAN

\* The program is below, and above it are handlers, of ever higher modes: only the
\* first may be of the mode that it interrupts.
Nesting(h) ==
    /\ P!Depth(h) >= 1
    /\ stack[h][1].at \in ProgramPlaces
    /\ \A d \in Levels(h) \ {1} :
          /\ stack[h][d].at \in HandlerPlaces
          /\ stack[h][d].mode \in P!TrapModes
          /\ BaseMode(h) <= stack[h][d].mode
          /\ \A c \in Levels(h) \ {1} : c < d => stack[h][c].mode < stack[h][d].mode

\* The trap CSRs of a handler that is under way are those of its trap, and it is
\* not interrupted by its like.
Saved(h) ==
    \A d \in Levels(h) \ {1} : LET x == stack[h][d].mode IN
       /\ pp[h][x] = RunsIn(h, d - 1)
       /\ epc[h][x] = d - 1
       /\ ~ ie[h][x]

\* Is a handler of the mode x under way?
Busy(h, x) == \E d \in Levels(h) \ {1} : stack[h][d].mode = x

\* The CSRs hold what bm_priv_enter_mode() has put into them so far ...
Prepared(h) == LET f == stack[h][1] IN
    /\ f.at = "set_pp" => pp[h][f.prev] = P!U
    /\ f.at \in {"write_epc", "enter"} =>
          pp[h][f.prev] = IF hit[h] THEN P!U ELSE f.mode
    /\ f.at = "enter" /\ ~ hit[h] => epc[h][f.prev] = P!Entry

\* ... but when a handler of its mode uses them, which does no harm where it leaves
\* behind what they held.
Spared(h) == LET f == stack[h][1] IN
    \/ hit[h]
    \/ f.at \in {"clear_pp", "set_pp"}
    \/ f.at = "write_epc" /\ f.mode = P!U

Entered(h) == LET f == stack[h][1] IN
    /\ hit[h] => f.at # "set_pp"
    /\ ~ hit[h] => f.at \notin {"lost", "fault"}
    /\ f.at \in Entering =>
          /\ f.prev \in P!TrapModes /\ f.mode < f.prev
          /\ Busy(h, f.prev) => Spared(h)
          /\ ~ Busy(h, f.prev) => Prepared(h)

\* bm_current_mode is the mode set last, and a handler that sets it back restores
\* the mode that was set before.
Current(h) ==
    /\ LastSet(stack[h], P!Depth(h), cur)
    /\ \A d \in Levels(h) \ {1} :
          stack[h][d].at # "save" => LastSet(stack[h], d - 1, stack[h][d].prev)

HartInv(h) ==
    /\ HartTypes(h)
    /\ priv[h] = RunsIn(h, P!Depth(h))
    /\ Nesting(h) /\ Saved(h) /\ Entered(h) /\ Current(h)

\* What is kept per hart.
Domains ==
    /\ priv = [h \in Harts |-> priv[h]]
    /\ ie = [h \in Harts |-> ie[h]]
    /\ pie = [h \in Harts |-> pie[h]]
    /\ pp = [h \in Harts |-> pp[h]]
    /\ epc = [h \in Harts |-> epc[h]]
    /\ stack = [h \in Harts |-> stack[h]]
    /\ hit = [h \in Harts |-> hit[h]]

\* Before any bm_priv_enter_mode(), nobody leaves M mode.
Machine(h) ==
    /\ cur = P!M /\ ~ hit[h]
    /\ stack[h][1].at = "run"
    /\ \A d \in Levels(h) : stack[h][d].mode = P!M

ModesInv ==
    /\ Domains
    /\ \A h \in Harts : wrote \subseteq {h} \/ ~ dropped => HartInv(h)
    /\ ~ dropped => \A h \in Harts : Machine(h)
-----------------------------------------------------------------------------
(* Lemmas about the levels.                                                *)

USE DEF P!U, P!S, P!M, P!Modes, P!TrapModes
\* Which mode was set last depends on the levels up to d only.
LEMMA LastSetOfPrefix ==
    ASSUME NEW s, NEW t, NEW d \in Nat, NEW m,
           \A k \in 1 .. d : s[k] = t[k],
           LastSet(s, d, m)
    PROVE  LastSet(t, d, m)
<1>1. PICK k \in 1 .. d : /\ Sets(s[k]) /\ s[k].mode = m
                          /\ \A j \in k + 1 .. d : ~ Sets(s[j])
  BY DEF LastSet
<1>2. \A j \in k + 1 .. d : j \in 1 .. d
  OBVIOUS
<1> QED
  BY <1>1, <1>2 DEF LastSet

\* A level that has set the mode hides those below.
LEMMA LastSetAtTop ==
    ASSUME NEW s, NEW d \in Nat \ {0}, NEW m, Sets(s[d])
    PROVE  LastSet(s, d, m) <=> s[d].mode = m
<1>1. d \in 1 .. d /\ d + 1 .. d = {}
  OBVIOUS
<1>2. ASSUME s[d].mode = m
      PROVE  LastSet(s, d, m)
  BY <1>1, <1>2 DEF LastSet
<1>3. ASSUME LastSet(s, d, m)
      PROVE  s[d].mode = m
  <2>1. PICK k \in 1 .. d : /\ s[k].mode = m
                            /\ \A j \in k + 1 .. d : ~ Sets(s[j])
    BY <1>3 DEF LastSet
  <2>2. k = d
    BY <2>1
  <2> QED
    BY <2>1, <2>2
<1> QED
  BY <1>2, <1>3

\* One that has not, or has set it back, shows those below.
LEMMA LastSetBelow ==
    ASSUME NEW s, NEW d \in Nat \ {0}, NEW m, ~ Sets(s[d])
    PROVE  LastSet(s, d, m) <=> LastSet(s, d - 1, m)
<1>1. ASSUME LastSet(s, d, m)
      PROVE  LastSet(s, d - 1, m)
  <2>1. PICK k \in 1 .. d : /\ Sets(s[k]) /\ s[k].mode = m
                            /\ \A j \in k + 1 .. d : ~ Sets(s[j])
    BY <1>1 DEF LastSet
  <2>2. k # d
    BY <2>1
  <2>3. k \in 1 .. d - 1 /\ \A j \in k + 1 .. d - 1 : j \in k + 1 .. d
    BY <2>2
  <2> QED
    BY <2>1, <2>3 DEF LastSet
<1>2. ASSUME LastSet(s, d - 1, m)
      PROVE  LastSet(s, d, m)
  <2>1. PICK k \in 1 .. d - 1 : /\ Sets(s[k]) /\ s[k].mode = m
                                /\ \A j \in k + 1 .. d - 1 : ~ Sets(s[j])
    BY <1>2 DEF LastSet
  <2>2. k \in 1 .. d /\ \A j \in k + 1 .. d : j = d \/ j \in k + 1 .. d - 1
    OBVIOUS
  <2> QED
    BY <2>1, <2>2 DEF LastSet
<1> QED
  BY <1>1, <1>2

\* What a step that replaces the top level leaves of the stack.
LEMMA SetTopIs ==
    ASSUME Domains, NEW h \in Harts, stack[h] \in Seq(FrameType), P!Depth(h) >= 1,
           NEW f \in FrameType, P!SetTop(h, f)
    PROVE  /\ stack'[h] \in Seq(FrameType)
           /\ P!Depth(h) \in Nat \ {0}
           /\ P!Depth(h)' = P!Depth(h)
           /\ stack'[h][P!Depth(h)] = f
           /\ \A k \in 1 .. P!Depth(h) - 1 : stack'[h][k] = stack[h][k]
<1> DEFINE s == stack[h]
<1>1. s \in Seq(FrameType) /\ h \in DOMAIN stack
  BY DEF Domains
<1>2. stack' = [stack EXCEPT ![h] = [s EXCEPT ![Len(s)] = f]]
  BY DEF P!SetTop, P!Depth
<1>3. Len(s) >= 1
  BY DEF P!Depth
<1> HIDE DEF s
<1>4. Len(s) \in Nat /\ DOMAIN s = 1 .. Len(s)
  BY <1>1
<1>5. /\ [s EXCEPT ![Len(s)] = f] \in Seq(FrameType)
      /\ Len([s EXCEPT ![Len(s)] = f]) = Len(s)
  BY <1>1, <1>3
<1>6. /\ [s EXCEPT ![Len(s)] = f][Len(s)] = f
      /\ \A k \in 1 .. Len(s) - 1 : [s EXCEPT ![Len(s)] = f][k] = s[k]
  <2>1. Len(s) \in DOMAIN s /\ \A k \in 1 .. Len(s) - 1 : k \in DOMAIN s /\ k # Len(s)
    <3>1. Len(s) \in 1 .. Len(s)
      BY <1>3, <1>4
    <3>2. \A n \in Nat : \A k \in 1 .. n - 1 : k \in 1 .. n /\ k # n
      OBVIOUS
    <3> QED
      BY <3>1, <3>2, <1>4
  <2> QED
    BY <2>1
<1>7. stack'[h] = [s EXCEPT ![Len(s)] = f]
  BY <1>1, <1>2
<1> QED
  BY <1>3, <1>4, <1>5, <1>6, <1>7 DEF P!Depth, s

\* Where the top level is tells whether it is the program or a handler.
LEMMA TopIs ==
    ASSUME NEW h \in Harts, HartInv(h)
    PROVE  /\ P!Depth(h) \in Nat \ {0}
           /\ P!Top(h) = stack[h][P!Depth(h)]
           /\ P!Top(h) \in FrameType
           /\ P!Top(h).at \in ProgramPlaces => P!Depth(h) = 1
           /\ P!Top(h).at \in HandlerPlaces =>
                 P!Depth(h) > 1 /\ P!Top(h).mode \in P!TrapModes
           /\ P!Depth(h) > 1 => P!Top(h).at \in HandlerPlaces
<1>1. stack[h] \in Seq(FrameType) /\ P!Depth(h) >= 1
  BY DEF HartInv, HartTypes, Nesting
<1>2. P!Depth(h) \in Nat \ {0} /\ P!Top(h) \in FrameType
  BY <1>1 DEF P!Depth, P!Top
<1>3. P!Depth(h) # 1 => P!Depth(h) \in Levels(h) \ {1}
  BY <1>2 DEF Levels
<1>4. /\ stack[h][1].at \in ProgramPlaces
      /\ \A d \in Levels(h) \ {1} :
            stack[h][d].at \in HandlerPlaces /\ stack[h][d].mode \in P!TrapModes
  BY DEF HartInv, Nesting
<1>5. ProgramPlaces \cap HandlerPlaces = {}
  BY DEF ProgramPlaces, Entering, HandlerPlaces
<1>6. P!Depth(h) = 1 => P!Top(h).at \in ProgramPlaces
  BY <1>4 DEF P!Top
<1>7. P!Depth(h) # 1 => P!Top(h).at \in HandlerPlaces /\ P!Top(h).mode \in P!TrapModes
  BY <1>3, <1>4 DEF P!Top
<1> QED
  BY <1>2, <1>5, <1>6, <1>7 DEF P!Top

\* A step of the handler on top that changes neither its mode nor the hardware
\* keeps the invariant, if it keeps track of bm_current_mode.
LEMMA HandlerMoves ==
    ASSUME Domains, NEW h \in Harts, HartInv(h), P!Top(h).at \in HandlerPlaces,
           NEW f \in FrameType, P!SetTop(h, f),
           f.mode = P!Top(h).mode, f.at \in HandlerPlaces,
           UNCHANGED <<priv, ie, pie, pp, epc, hit>>, cur' \in P!Modes,
           LastSet(stack'[h], P!Depth(h), cur'),
           f.at # "save" => LastSet(stack'[h], P!Depth(h) - 1, f.prev)
    PROVE  HartInv(h)'
<1> DEFINE D == P!Depth(h)
<1>1. D \in Nat \ {0} /\ D > 1 /\ P!Top(h) = stack[h][D]
  BY TopIs
<1>2. /\ stack'[h] \in Seq(FrameType)
      /\ P!Depth(h)' = D
      /\ stack'[h][D] = f
      /\ \A k \in 1 .. D - 1 : stack'[h][k] = stack[h][k]
  BY <1>1, SetTopIs DEF HartInv, HartTypes
<1>3. \A k \in 1 .. D : k \in 1 .. D - 1 \/ k = D
  <2>1. \A n \in Nat : \A k \in 1 .. n : k \in 1 .. n - 1 \/ k = n
    OBVIOUS
  <2> QED
    BY <2>1, <1>1
<1>4. stack'[h][1] = stack[h][1] /\ 1 \in 1 .. D
  BY <1>1, <1>2
<1>5. \A k \in 1 .. D : stack'[h][k].mode = stack[h][k].mode
  BY <1>1, <1>2, <1>3
<1>6. Levels(h)' = 1 .. D /\ Levels(h) = 1 .. D
  BY <1>2 DEF Levels
<1>7. BaseMode(h)' = BaseMode(h)
  BY <1>4 DEF BaseMode
<1>8. \A k \in 1 .. D : RunsIn(h, k)' = RunsIn(h, k)
  BY <1>5, <1>7 DEF RunsIn
<1> HIDE DEF D
<1>9. HartTypes(h)'
  BY <1>2 DEF HartInv, HartTypes
<1>10. priv'[h] = RunsIn(h, P!Depth(h))'
  <2>1. PICK d : d = D
    OBVIOUS
  <2>2. priv[h] = RunsIn(h, d) /\ d \in 1 .. D
    BY <2>1, <1>1 DEF HartInv, D
  <2>3. RunsIn(h, P!Depth(h))' = RunsIn(h, d)'
    BY <2>1, <1>2 DEF RunsIn
  <2> QED
    BY <2>2, <2>3, <1>8
<1>11. Nesting(h)'
  <2> SUFFICES ASSUME NEW d \in 1 .. D, d # 1
               PROVE  /\ stack'[h][d].at \in HandlerPlaces
                      /\ stack'[h][d].mode \in P!TrapModes
                      /\ BaseMode(h) <= stack'[h][d].mode
                      /\ \A c \in (1 .. D) \ {1} :
                            c < d => stack'[h][c].mode < stack'[h][d].mode
    BY <1>1, <1>2, <1>4, <1>6, <1>7 DEF Nesting, HartInv, D
  <2>1. /\ stack[h][d].at \in HandlerPlaces
        /\ stack[h][d].mode \in P!TrapModes
        /\ BaseMode(h) <= stack[h][d].mode
        /\ \A c \in (1 .. D) \ {1} : c < d => stack[h][c].mode < stack[h][d].mode
    BY <1>6 DEF Nesting, HartInv
  <2>2. stack'[h][d].at \in HandlerPlaces
    BY <2>1, <1>2, <1>3
  <2> QED
    BY <2>1, <2>2, <1>5
<1>12. Saved(h)'
  <2> SUFFICES ASSUME NEW d \in 1 .. D, d # 1
               PROVE  /\ pp[h][stack'[h][d].mode] = RunsIn(h, d - 1)'
                      /\ epc[h][stack'[h][d].mode] = d - 1
                      /\ ~ ie[h][stack'[h][d].mode]
    BY <1>6 DEF Saved
  <2>1. d - 1 \in 1 .. D
    BY <1>1
  <2>2. /\ pp[h][stack[h][d].mode] = RunsIn(h, d - 1)
        /\ epc[h][stack[h][d].mode] = d - 1
        /\ ~ ie[h][stack[h][d].mode]
    BY <1>6 DEF Saved, HartInv
  <2>3. stack'[h][d].mode = stack[h][d].mode /\ RunsIn(h, d - 1)' = RunsIn(h, d - 1)
    BY <1>5, <1>8, <2>1
  <2> QED
    BY <2>2, <2>3
<1>13. Entered(h)'
  <2>1. \A x : Busy(h, x)' <=> Busy(h, x)
    BY <1>5, <1>6 DEF Busy
  <2> QED
    BY <2>1, <1>4 DEF Entered, Spared, Prepared, HartInv
<1>14. Current(h)'
  <2> SUFFICES ASSUME NEW d \in 1 .. D, d # 1, stack'[h][d].at # "save"
               PROVE  LastSet(stack'[h], d - 1, stack'[h][d].prev)
    BY <1>2, <1>6 DEF Current, D
  <2>2. CASE d = D
    BY <2>2, <1>2 DEF D
  <2>3. CASE d # D
    <3>1. stack'[h][d] = stack[h][d]
      BY <2>3, <1>2, <1>3
    <3>2. LastSet(stack[h], d - 1, stack[h][d].prev)
      BY <3>1, <1>6 DEF Current, HartInv
    <3>3. d - 1 \in Nat /\ \A k \in 1 .. d - 1 : k \in 1 .. D - 1
      BY <1>1, <2>3
    <3> QED
      BY <3>1, <3>2, <3>3, <1>2, LastSetOfPrefix
  <2> QED
    BY <2>2, <2>3
<1> QED
  BY <1>9, <1>10, <1>11, <1>12, <1>13, <1>14 DEF HartInv

\* A step of the program with no handler under way keeps the invariant, if what it
\* does to the hardware is what it says to have come to.
LEMMA ProgramMoves ==
    ASSUME Domains, NEW h \in Harts, HartInv(h), P!Depth(h) = 1,
           NEW f \in FrameType, P!SetTop(h, f),
           f.at \in ProgramPlaces, cur' = f.mode, hit' = hit,
           priv'[h] = (IF hit[h] /\ f.at \notin {"write_epc", "enter"} THEN P!U
                       ELSE IF f.at \in Entering THEN f.prev ELSE f.mode),
           priv'[h] \in P!Modes,
           ie'[h] \in [P!TrapModes -> BOOLEAN],
           pie'[h] \in [P!TrapModes -> BOOLEAN],
           pp'[h] \in [P!TrapModes -> P!Modes],
           epc'[h] \in [P!TrapModes -> Int],
           hit[h] => f.at # "set_pp",
           ~ hit[h] => f.at \notin {"lost", "fault"},
           f.at \in Entering => f.prev \in P!TrapModes /\ f.mode < f.prev,
           f.at = "set_pp" => pp'[h][f.prev] = P!U,
           f.at \in {"write_epc", "enter"} =>
              pp'[h][f.prev] = IF hit[h] THEN P!U ELSE f.mode,
           f.at = "enter" /\ ~ hit[h] => epc'[h][f.prev] = P!Entry
    PROVE  HartInv(h)'
<1>1. /\ stack'[h] \in Seq(FrameType)
      /\ P!Depth(h)' = 1
      /\ stack'[h][1] = f
  <2>1. stack[h] \in Seq(FrameType) /\ P!Depth(h) >= 1
    BY DEF HartInv, HartTypes
  <2>2. stack'[h] \in Seq(FrameType) /\ P!Depth(h)' = P!Depth(h)
    BY <2>1, SetTopIs
  <2>3. stack'[h][P!Depth(h)] = f
    BY <2>1, SetTopIs
  <2> QED
    BY <2>2, <2>3
<1>2. Levels(h)' \ {1} = {}
  BY <1>1 DEF Levels
<1>3. HartTypes(h)'
  BY <1>1 DEF HartInv, HartTypes, FrameType
<1>4. Nesting(h)' /\ Saved(h)'
  BY <1>1, <1>2 DEF Nesting, Saved
<1>5. Entered(h)'
  <2>1. \A x : ~ Busy(h, x)'
    BY <1>2 DEF Busy
  <2>2. Prepared(h)'
    BY <1>1 DEF Prepared
  <2> QED
    BY <2>1, <2>2, <1>1 DEF Entered
<1>6. Current(h)'
  <2>1. Sets(stack'[h][1])
    BY <1>1 DEF Sets, ProgramPlaces, Entering
  <2>2. LastSet(stack'[h], 1, cur')
    BY <2>1, <1>1, LastSetAtTop
  <2> QED
    BY <2>2, <1>1, <1>2 DEF Current
<1>7. priv'[h] = RunsIn(h, P!Depth(h))'
  BY <1>1 DEF RunsIn, BaseMode
<1> QED
  BY <1>3, <1>4, <1>5, <1>6, <1>7 DEF HartInv

\* A trap interrupts levels of lower modes, or the program in its own.
LEMMA TrapInterrupts ==
    ASSUME NEW h \in Harts, HartInv(h), NEW x \in P!TrapModes,
           priv[h] < x \/ (priv[h] = x /\ ie[h][x])
    PROVE  /\ BaseMode(h) <= x
           /\ \A c \in Levels(h) \ {1} : stack[h][c].mode < x
<1> DEFINE D == P!Depth(h)
<1>1. D \in Nat \ {0} /\ stack[h] \in Seq(FrameType) /\ Levels(h) = 1 .. D
  BY TopIs DEF HartInv, HartTypes, Levels
<1>2. priv[h] \in P!Modes /\ priv[h] = RunsIn(h, D)
  BY DEF HartInv, HartTypes
<1>3. CASE D = 1
  <2>1. Levels(h) \ {1} = {} /\ priv[h] = BaseMode(h)
    BY <1>1, <1>2, <1>3 DEF RunsIn
  <2> QED
    BY <2>1, <1>2
<1>4. CASE D # 1
  <2> DEFINE m == stack[h][D].mode
  <2>1. D \in Levels(h) \ {1} /\ priv[h] = m
    BY <1>1, <1>2, <1>4 DEF RunsIn
  <2>2. m \in P!TrapModes /\ ~ ie[h][m] /\ BaseMode(h) <= m
    BY <2>1 DEF HartInv, Nesting, Saved
  <2>3. priv[h] < x
    BY <2>1, <2>2
  <2>4. /\ stack[h][1].mode \in P!Modes /\ stack[h][1].prev \in P!Modes
    <3>1. stack[h][1] \in FrameType
      BY <1>1 DEF P!Depth
    <3> QED
      BY <3>1 DEF FrameType
  <2>5. BaseMode(h) \in P!Modes
    BY <2>4 DEF BaseMode
  <2>6. BaseMode(h) <= x
    BY <2>1, <2>2, <2>3, <2>5
  <2>7. ASSUME NEW c \in Levels(h) \ {1}
        PROVE  stack[h][c].mode < x
    <3>1. stack[h][c].mode \in P!TrapModes
      BY DEF HartInv, Nesting
    <3>2. c < D => stack[h][c].mode < m
      BY <2>1 DEF HartInv, Nesting
    <3>3. c < D \/ c = D
      BY <1>1
    <3> QED
      BY <3>1, <3>2, <3>3, <2>1, <2>2, <2>3
  <2> QED
    BY <2>6, <2>7
<1> QED
  BY <1>3, <1>4

\* The hart takes a trap.
LEMMA TrapKeepsHartInv ==
    ASSUME Domains, NEW h \in Harts, HartInv(h), NEW x \in P!TrapModes, P!Trap(h, x)
    PROVE  HartInv(h)'
<1> DEFINE D == P!Depth(h)
           f == P!Frame("save", x, P!U)
           s == stack[h]
<1>1. D \in Nat \ {0} /\ s \in Seq(FrameType) /\ D = Len(s) /\ HartTypes(h)
  BY TopIs DEF HartInv, HartTypes, P!Depth
<1>2. f \in FrameType /\ f.at = "save" /\ f.mode = x
  BY DEF P!Frame, FrameType, HandlerPlaces
<1>3. stack' = [stack EXCEPT ![h] = Append(s, f)]
  BY DEF P!Trap
<1> HIDE DEF f
<1>4. stack'[h] = Append(s, f)
  BY <1>3 DEF Domains
<1> HIDE DEF D, s
<1>5. /\ Append(s, f) \in Seq(FrameType) /\ Len(Append(s, f)) = D + 1
      /\ Append(s, f)[D + 1] = f
  BY <1>1, <1>2
<1>6. \A k \in 1 .. D : stack'[h][k] = s[k]
  BY <1>1, <1>4
<1>7. /\ stack'[h] \in Seq(FrameType)
      /\ P!Depth(h)' = D + 1
      /\ stack'[h][D + 1] = f
  BY <1>4, <1>5 DEF P!Depth
<1>8. Levels(h)' = 1 .. D + 1 /\ Levels(h) = 1 .. D
  BY <1>7 DEF Levels, D
<1>9. \A k \in 1 .. D + 1 : k \in 1 .. D \/ k = D + 1
  BY <1>1
<1>10. 1 \in 1 .. D /\ stack'[h][1] = s[1]
  BY <1>1, <1>6
<1>11. priv'[h] = x /\ cur' = cur
  BY DEF P!Trap, Domains
<1>12. /\ ie'[h] \in [P!TrapModes -> BOOLEAN]
       /\ ~ ie'[h][x]
       /\ \A y \in P!TrapModes \ {x} : ie'[h][y] = ie[h][y]
  <2>1. ie[h] \in [P!TrapModes -> BOOLEAN] /\ ie' = P!Put(ie, h, x, FALSE)
    BY <1>1 DEF HartTypes, P!Trap
  <2>2. ie'[h] = [ie[h] EXCEPT ![x] = FALSE]
    BY <2>1 DEF P!Put, Domains
  <2> QED
    BY <2>1, <2>2
<1>13. pie'[h] \in [P!TrapModes -> BOOLEAN]
  <2>1. /\ pie[h] \in [P!TrapModes -> BOOLEAN] /\ ie[h][x] \in BOOLEAN
        /\ pie' = P!Put(pie, h, x, ie[h][x])
    BY <1>1 DEF HartTypes, P!Trap
  <2>2. pie'[h] = [pie[h] EXCEPT ![x] = ie[h][x]]
    BY <2>1 DEF P!Put, Domains
  <2> QED
    BY <2>1, <2>2
<1>14. /\ pp'[h] \in [P!TrapModes -> P!Modes]
       /\ pp'[h][x] = RunsIn(h, D)
       /\ \A y \in P!TrapModes \ {x} : pp'[h][y] = pp[h][y]
  <2>1. /\ pp[h] \in [P!TrapModes -> P!Modes] /\ priv[h] \in P!Modes
        /\ pp' = P!Put(pp, h, x, priv[h])
        /\ priv[h] = RunsIn(h, D)
    BY <1>1 DEF HartInv, HartTypes, P!Trap, D
  <2>2. pp'[h] = [pp[h] EXCEPT ![x] = priv[h]]
    BY <2>1 DEF P!Put, Domains
  <2> QED
    BY <2>1, <2>2
<1>15. /\ epc'[h] \in [P!TrapModes -> Int]
       /\ epc'[h][x] = D
       /\ \A y \in P!TrapModes \ {x} : epc'[h][y] = epc[h][y]
  <2>1. /\ epc[h] \in [P!TrapModes -> Int] /\ D \in Int
        /\ epc' = P!Put(epc, h, x, D)
    BY <1>1 DEF HartTypes, P!Trap, D
  <2>2. epc'[h] = [epc[h] EXCEPT ![x] = D]
    BY <2>1 DEF P!Put, Domains
  <2> QED
    BY <2>1, <2>2
<1>16. /\ hit'[h] \in BOOLEAN
       /\ hit[h] => hit'[h]
       /\ hit'[h] => hit[h] \/ P!Exposed(h, x)
       /\ P!Exposed(h, x) => hit'[h]
  <2>1. hit' = [hit EXCEPT ![h] = hit[h] \/ P!Exposed(h, x)]
    BY DEF P!Trap
  <2>2. hit'[h] = (hit[h] \/ P!Exposed(h, x))
    BY <2>1, Zenon DEF Domains
  <2>3. hit[h] \in BOOLEAN /\ (hit[h] \/ P!Exposed(h, x)) \in BOOLEAN
    BY <1>1 DEF HartTypes
  <2> QED
    BY <2>2, <2>3
<1>17. P!Exposed(h, x) =>
          D = 1 /\ s[1].prev = x /\ s[1].at \in {"write_epc", "enter"}
  <2>1. P!Top(h).at \in {"write_epc", "enter"} => P!Depth(h) = 1
    BY TopIs DEF ProgramPlaces, Entering
  <2> QED
    BY <2>1, TopIs DEF P!Exposed, D, s
<1>18. BaseMode(h)' = BaseMode(h)
  BY <1>10, <1>16, <1>17 DEF BaseMode, s
<1>19. \A k \in 1 .. D : RunsIn(h, k)' = RunsIn(h, k)
  BY <1>6, <1>18 DEF RunsIn, s
<1>20. HartTypes(h)'
  BY <1>1, <1>7, <1>11, <1>12, <1>13, <1>14, <1>15, <1>16 DEF HartTypes
<1>21. /\ BaseMode(h) <= x
       /\ \A c \in (1 .. D) \ {1} : s[c].mode < x
  <2>1. priv[h] < x \/ (priv[h] = x /\ ie[h][x])
    BY DEF P!Trap
  <2> QED
    BY <2>1, <1>8, TrapInterrupts DEF s
<1>22. \A d \in (1 .. D) \ {1} :
          /\ s[d].at \in HandlerPlaces
          /\ s[d].mode \in P!TrapModes
          /\ s[d].mode # x
          /\ BaseMode(h) <= s[d].mode
          /\ \A c \in (1 .. D) \ {1} : c < d => s[c].mode < s[d].mode
  <2>1. \A d \in (1 .. D) \ {1} :
          /\ s[d].at \in HandlerPlaces
          /\ s[d].mode \in P!TrapModes
          /\ BaseMode(h) <= s[d].mode
          /\ \A c \in (1 .. D) \ {1} : c < d => s[c].mode < s[d].mode
    BY <1>8 DEF HartInv, Nesting, s
  <2> QED
    BY <2>1, <1>21
<1>23. Nesting(h)'
  <2>1. stack'[h][1].at \in ProgramPlaces
    BY <1>10 DEF HartInv, Nesting, s
  <2>2. ASSUME NEW d \in 1 .. D + 1, d # 1
        PROVE  /\ stack'[h][d].at \in HandlerPlaces
               /\ stack'[h][d].mode \in P!TrapModes
               /\ BaseMode(h) <= stack'[h][d].mode
               /\ \A c \in (1 .. D + 1) \ {1} :
                     c < d => stack'[h][c].mode < stack'[h][d].mode
    <3>1. \A c \in (1 .. D + 1) \ {1} : c < d => c \in (1 .. D) \ {1}
      BY <1>1
    <3>2. CASE d \in 1 .. D
      <4>1. stack'[h][d] = s[d] /\ \A c \in 1 .. D : stack'[h][c] = s[c]
        BY <3>2, <1>6
      <4> QED
        BY <2>2, <3>1, <3>2, <4>1, <1>22
    <3>3. CASE d = D + 1
      <4>1. stack'[h][d] = f /\ \A c \in 1 .. D : stack'[h][c] = s[c]
        BY <3>3, <1>6, <1>7
      <4>2. f.at \in HandlerPlaces
        BY <1>2 DEF HandlerPlaces
      <4> QED
        BY <3>1, <4>1, <4>2, <1>2, <1>21
    <3> QED
      BY <3>2, <3>3, <1>9
  <2> QED
    BY <2>1, <2>2, <1>1, <1>7, <1>8, <1>18 DEF Nesting
<1>24. Saved(h)'
  <2> SUFFICES ASSUME NEW d \in 1 .. D + 1, d # 1
               PROVE  /\ pp'[h][stack'[h][d].mode] = RunsIn(h, d - 1)'
                      /\ epc'[h][stack'[h][d].mode] = d - 1
                      /\ ~ ie'[h][stack'[h][d].mode]
    BY <1>8 DEF Saved
  <2>1. d - 1 \in 1 .. D
    BY <1>1
  <2>2. RunsIn(h, d - 1)' = RunsIn(h, d - 1)
    BY <2>1, <1>19
  <2>3. CASE d \in 1 .. D
    <3>1. /\ pp[h][s[d].mode] = RunsIn(h, d - 1)
          /\ epc[h][s[d].mode] = d - 1
          /\ ~ ie[h][s[d].mode]
      BY <2>3, <1>8 DEF HartInv, Saved, s
    <3>2. s[d].mode \in P!TrapModes \ {x} /\ stack'[h][d] = s[d]
      BY <2>3, <1>6, <1>22
    <3> QED
      BY <2>2, <3>1, <3>2, <1>12, <1>14, <1>15
  <2>4. CASE d = D + 1
    <3>1. stack'[h][d].mode = x /\ d - 1 = D
      BY <1>1, <1>2, <1>7, <2>4
    <3>2. RunsIn(h, d - 1)' = RunsIn(h, D)
      BY <2>2, <3>1
    <3> QED
      BY <3>1, <3>2, <1>12, <1>14, <1>15
  <2> QED
    BY <2>3, <2>4, <1>9
<1>25. \A y : Busy(h, y)' <=> Busy(h, y) \/ y = x
  <2> SUFFICES ASSUME NEW y
               PROVE  Busy(h, y)' <=> Busy(h, y) \/ y = x
    OBVIOUS
  <2>1. ASSUME Busy(h, y)'
        PROVE  Busy(h, y) \/ y = x
    <3>1. PICK d \in (1 .. D + 1) \ {1} : stack'[h][d].mode = y
      BY <2>1, <1>8 DEF Busy
    <3>2. CASE d \in 1 .. D
      BY <3>1, <3>2, <1>6, <1>8 DEF Busy, s
    <3>3. CASE d = D + 1
      BY <3>1, <3>3, <1>2, <1>7
    <3> QED
      BY <3>2, <3>3, <1>9
  <2>2. ASSUME Busy(h, y)
        PROVE  Busy(h, y)'
    <3>1. PICK d \in (1 .. D) \ {1} : s[d].mode = y
      BY <2>2, <1>8 DEF Busy, s
    <3>2. d \in (1 .. D + 1) \ {1} /\ stack'[h][d].mode = y
      BY <3>1, <1>1, <1>6
    <3> QED
      BY <3>2, <1>8 DEF Busy
  <2>3. Busy(h, x)'
    <3>1. D + 1 \in (1 .. D + 1) \ {1} /\ stack'[h][D + 1].mode = x
      BY <1>1, <1>2, <1>7
    <3> QED
      BY <3>1, <1>8 DEF Busy
  <2> QED
    BY <2>1, <2>2, <2>3
<1>26. Entered(h)'
  <2>0. PICK b : b = s[1]
    OBVIOUS
  <2>1. /\ hit[h] => b.at # "set_pp"
        /\ ~ hit[h] => b.at \notin {"lost", "fault"}
        /\ b.at \in Entering =>
              /\ b.prev \in P!TrapModes /\ b.mode < b.prev
              /\ Busy(h, b.prev) => Spared(h)
              /\ ~ Busy(h, b.prev) => Prepared(h)
    BY <2>0 DEF HartInv, Entered, s
  <2>2. /\ hit'[h] => b.at # "set_pp"
        /\ ~ hit'[h] => b.at \notin {"lost", "fault"}
    BY <2>0, <2>1, <1>16, <1>17
  <2>3. ASSUME b.at \in Entering, b.prev = x
        PROVE  Spared(h)'
    <3>1. CASE hit[h]
      BY <3>1, <1>16 DEF Spared
    <3>2. CASE ~ hit[h] /\ D = 1
      <4>1. P!Top(h) = b
        BY <2>0, <3>2 DEF P!Top, D, s
      <4>2. b.at = "enter" \/ (b.at = "write_epc" /\ b.mode # P!U) => hit'[h]
        BY <2>3, <4>1, <1>16 DEF P!Exposed
      <4> QED
        BY <2>0, <2>3, <4>2, <1>10 DEF Spared, Entering
    <3>3. CASE ~ hit[h] /\ D # 1
      <4>1. D \in (1 .. D) \ {1}
        BY <3>3, <1>1
      <4>2. BaseMode(h) = x
        BY <2>0, <2>3, <3>3 DEF BaseMode, s
      <4>3. x <= s[D].mode /\ s[D].mode < x /\ s[D].mode \in P!TrapModes
        BY <4>1, <4>2, <1>21, <1>22
      <4> QED
        BY <4>3
    <3> QED
      BY <3>1, <3>2, <3>3
  <2>4. ASSUME b.at \in Entering, b.prev # x
        PROVE  /\ Busy(h, b.prev)' => Spared(h)'
               /\ ~ Busy(h, b.prev)' => Prepared(h)'
    <3>1. hit'[h] <=> hit[h]
      BY <2>0, <2>4, <1>16, <1>17
    <3>2. (Busy(h, b.prev)' <=> Busy(h, b.prev)) /\ b.prev \in P!TrapModes \ {x}
      BY <2>1, <2>4, <1>25
    <3>3. Spared(h)' <=> Spared(h)
      BY <2>0, <3>1, <1>10 DEF Spared, s
    <3>4. Prepared(h) => Prepared(h)'
      BY <2>0, <3>1, <3>2, <1>10, <1>14, <1>15 DEF Prepared, s
    <3> QED
      BY <2>1, <2>4, <3>2, <3>3, <3>4
  <2>5. Busy(h, x)'
    BY <1>25
  <2> QED
    BY <2>0, <2>1, <2>2, <2>3, <2>4, <2>5, <1>10 DEF Entered
<1>27. Current(h)'
  <2>1. ASSUME NEW d \in 1 .. D, NEW m, LastSet(s, d, m)
        PROVE  LastSet(stack'[h], d, m)
    <3>1. d \in Nat /\ \A k \in 1 .. d : k \in 1 .. D
      BY <1>1
    <3> QED
      BY <2>1, <3>1, <1>6, LastSetOfPrefix
  <2>2. LastSet(stack'[h], D + 1, cur)
    <3>1. LastSet(s, D, cur)
      BY DEF HartInv, Current, s, D
    <3>2. D \in 1 .. D /\ D + 1 \in Nat \ {0} /\ (D + 1) - 1 = D
      BY <1>1
    <3>3. LastSet(stack'[h], D, cur)
      BY <2>1, <3>1, <3>2
    <3>4. ~ Sets(stack'[h][D + 1])
      BY <1>2, <1>7 DEF Sets
    <3> QED
      BY <3>2, <3>3, <3>4, LastSetBelow
  <2>3. ASSUME NEW d \in 1 .. D + 1, d # 1, stack'[h][d].at # "save"
        PROVE  LastSet(stack'[h], d - 1, stack'[h][d].prev)
    <3>1. d \in 1 .. D
      BY <2>3, <1>2, <1>7, <1>9
    <3>2. LastSet(s, d - 1, s[d].prev)
      BY <2>3, <3>1, <1>6, <1>8 DEF HartInv, Current, s
    <3>3. d - 1 \in 1 .. D
      BY <2>3, <3>1, <1>1
    <3> QED
      BY <2>1, <3>1, <3>2, <3>3, <1>6
  <2> QED
    BY <2>2, <2>3, <1>7, <1>8, <1>11 DEF Current
<1>28. priv'[h] = RunsIn(h, P!Depth(h))'
  <2>1. P!Depth(h)' # 1 /\ stack'[h][P!Depth(h)'].mode = x
    BY <1>1, <1>2, <1>7
  <2> QED
    BY <2>1, <1>11 DEF RunsIn
<1> QED
  BY <1>20, <1>23, <1>24, <1>26, <1>27, <1>28 DEF HartInv

\* A handler returns to the level below it.
LEMMA ReturnKeepsHartInv ==
    ASSUME Domains, NEW h \in Harts, HartInv(h), P!HandlerReturn(h)
    PROVE  HartInv(h)'
<1> DEFINE s == stack[h]
<1>0. PICK D, x : D = P!Depth(h) /\ x = s[D].mode
  OBVIOUS
<1>1. P!Top(h) = s[D] /\ s[D].at = "xret" /\ HartTypes(h)
  BY <1>0 DEF P!HandlerReturn, P!Top, HartInv
<1>2. D \in Nat /\ D > 1 /\ D - 1 \in Nat \ {0} /\ x \in P!TrapModes
  BY <1>0, <1>1, TopIs DEF HandlerPlaces
<1>3. s \in Seq(FrameType) /\ D = Len(s)
  BY <1>0, <1>1 DEF HartTypes, P!Depth
<1>4. /\ priv' = [priv EXCEPT ![h] = pp[h][x]]
      /\ ie' = P!Put(ie, h, x, pie[h][x])
      /\ pie' = P!Put(pie, h, x, TRUE)
      /\ pp' = P!Put(pp, h, x, P!U)
      /\ epc' = epc /\ cur' = cur /\ hit' = hit
      /\ stack' = [stack EXCEPT ![h] = SubSeq(s, 1, D - 1)]
  BY <1>0, <1>1 DEF P!HandlerReturn, P!Xret, P!history
<1>5. stack'[h] = SubSeq(s, 1, D - 1)
  BY <1>4 DEF Domains
<1>6. Levels(h) = 1 .. D /\ D \in (1 .. D) \ {1}
  BY <1>0, <1>2 DEF Levels
<1>7. pp[h][x] = RunsIn(h, D - 1)
  BY <1>0, <1>6 DEF HartInv, Saved
<1> HIDE DEF s
<1>8. /\ SubSeq(s, 1, D - 1) \in Seq(FrameType)
      /\ Len(SubSeq(s, 1, D - 1)) = D - 1
      /\ \A k \in 1 .. D - 1 : SubSeq(s, 1, D - 1)[k] = s[k]
  BY <1>2, <1>3
<1>9. /\ stack'[h] \in Seq(FrameType)
      /\ P!Depth(h)' = D - 1
      /\ \A k \in 1 .. D - 1 : stack'[h][k] = s[k]
  BY <1>5, <1>8 DEF P!Depth
<1>10. Levels(h)' = 1 .. D - 1
  BY <1>9 DEF Levels
<1>11. \A k \in 1 .. D - 1 : k \in 1 .. D /\ k < D
  <2>1. \A n \in Nat : \A k \in 1 .. n - 1 : k \in 1 .. n /\ k < n
    OBVIOUS
  <2> QED
    BY <2>1, <1>2
<1>12. 1 \in 1 .. D - 1 /\ stack'[h][1] = s[1]
  BY <1>2, <1>9
<1>13. BaseMode(h)' = BaseMode(h)
  <2>1. hit'[h] = hit[h] /\ stack'[h][1] = stack[h][1]
    BY <1>4, <1>12 DEF s
  <2> QED
    BY <2>1 DEF BaseMode
<1>14. \A k \in 1 .. D - 1 : RunsIn(h, k)' = RunsIn(h, k)
  BY <1>9, <1>13 DEF RunsIn, s
<1>15. priv'[h] = RunsIn(h, D - 1) /\ priv'[h] \in P!Modes
  <2>1. pp[h][x] \in P!Modes
    BY <1>1, <1>2 DEF HartTypes
  <2> QED
    BY <2>1, <1>4, <1>7 DEF Domains
<1>16. /\ ie'[h] \in [P!TrapModes -> BOOLEAN]
       /\ \A y \in P!TrapModes \ {x} : ie'[h][y] = ie[h][y]
  <2>1. ie[h] \in [P!TrapModes -> BOOLEAN] /\ pie[h][x] \in BOOLEAN
    BY <1>1, <1>2 DEF HartTypes
  <2>2. ie'[h] = [ie[h] EXCEPT ![x] = pie[h][x]]
    BY <1>4 DEF P!Put, Domains
  <2> QED
    BY <2>1, <2>2
<1>17. pie'[h] \in [P!TrapModes -> BOOLEAN]
  <2>1. pie[h] \in [P!TrapModes -> BOOLEAN]
    BY <1>1 DEF HartTypes
  <2>2. pie'[h] = [pie[h] EXCEPT ![x] = TRUE]
    BY <1>4 DEF P!Put, Domains
  <2> QED
    BY <2>1, <2>2
<1>18. /\ pp'[h] \in [P!TrapModes -> P!Modes]
       /\ pp'[h][x] = P!U
       /\ \A y \in P!TrapModes \ {x} : pp'[h][y] = pp[h][y]
  <2>1. pp[h] \in [P!TrapModes -> P!Modes]
    BY <1>1 DEF HartTypes
  <2>2. pp'[h] = [pp[h] EXCEPT ![x] = P!U]
    BY <1>4 DEF P!Put, Domains
  <2> QED
    BY <2>1, <2>2, <1>2
<1>19. HartTypes(h)'
  BY <1>1, <1>4, <1>9, <1>15, <1>16, <1>17, <1>18 DEF HartTypes
<1>20. \A d \in (1 .. D) \ {1} :
          /\ s[d].at \in HandlerPlaces
          /\ s[d].mode \in P!TrapModes
          /\ BaseMode(h) <= s[d].mode
          /\ \A c \in (1 .. D) \ {1} : c < d => s[c].mode < s[d].mode
  BY <1>6 DEF HartInv, Nesting, s
\* The other handlers under way are of other modes.
<1>21. \A d \in (1 .. D - 1) \ {1} : d \in (1 .. D) \ {1} /\ s[d].mode \in P!TrapModes \ {x}
  <2> SUFFICES ASSUME NEW d \in (1 .. D - 1) \ {1}
               PROVE  d \in (1 .. D) \ {1} /\ s[d].mode \in P!TrapModes \ {x}
    OBVIOUS
  <2>1. d \in (1 .. D) \ {1} /\ d < D
    BY <1>11
  <2>2. s[d].mode \in P!TrapModes /\ s[d].mode < x
    BY <1>0, <2>1, <1>6, <1>20
  <2> QED
    BY <2>1, <2>2
<1>22. Nesting(h)'
  <2>1. stack'[h][1].at \in ProgramPlaces
    BY <1>12 DEF HartInv, Nesting, s
  <2>2. ASSUME NEW d \in (1 .. D - 1) \ {1}
        PROVE  /\ stack'[h][d].at \in HandlerPlaces
               /\ stack'[h][d].mode \in P!TrapModes
               /\ BaseMode(h) <= stack'[h][d].mode
               /\ \A c \in (1 .. D - 1) \ {1} :
                     c < d => stack'[h][c].mode < stack'[h][d].mode
    BY <1>9, <1>20, <1>21
  <2> QED
    BY <2>1, <2>2, <1>2, <1>9, <1>10, <1>13 DEF Nesting
<1>23. Saved(h)'
  <2> SUFFICES ASSUME NEW d \in (1 .. D - 1) \ {1}
               PROVE  /\ pp'[h][stack'[h][d].mode] = RunsIn(h, d - 1)'
                      /\ epc'[h][stack'[h][d].mode] = d - 1
                      /\ ~ ie'[h][stack'[h][d].mode]
    BY <1>10 DEF Saved
  <2>1. d - 1 \in 1 .. D - 1 /\ d \in (1 .. D) \ {1}
    BY <1>2, <1>21
  <2>2. /\ pp[h][s[d].mode] = RunsIn(h, d - 1)
        /\ epc[h][s[d].mode] = d - 1
        /\ ~ ie[h][s[d].mode]
    BY <2>1, <1>6 DEF HartInv, Saved, s
  <2>3. s[d].mode \in P!TrapModes \ {x}
    BY <1>21
  <2>4. stack'[h][d] = s[d] /\ RunsIn(h, d - 1)' = RunsIn(h, d - 1)
    BY <2>1, <1>9, <1>14
  <2> QED
    BY <2>2, <2>3, <2>4, <1>4, <1>16, <1>18
<1>24. /\ \A y \in P!TrapModes \ {x} : Busy(h, y)' <=> Busy(h, y)
       /\ Busy(h, x) /\ ~ Busy(h, x)'
  <2>1. Busy(h, x)
    BY <1>0, <1>6 DEF Busy, s
  <2>2. \A d \in (1 .. D - 1) \ {1} : stack'[h][d].mode = s[d].mode /\ s[d].mode # x
    BY <1>9, <1>21
  <2>3. ~ Busy(h, x)'
    BY <2>2, <1>10 DEF Busy
  <2>4. ASSUME NEW y \in P!TrapModes \ {x}
        PROVE  Busy(h, y)' <=> Busy(h, y)
    <3>1. ASSUME Busy(h, y)
          PROVE  Busy(h, y)'
      <4>1. PICK d \in (1 .. D) \ {1} : s[d].mode = y
        BY <3>1, <1>6 DEF Busy, s
      <4>2. d # D
        BY <1>0, <4>1
      <4>3. d \in (1 .. D - 1) \ {1}
        BY <4>1, <4>2, <1>2
      <4> QED
        BY <4>1, <4>3, <2>2, <1>10 DEF Busy
    <3>2. ASSUME Busy(h, y)'
          PROVE  Busy(h, y)
      <4>1. PICK d \in (1 .. D - 1) \ {1} : stack'[h][d].mode = y
        BY <3>2, <1>10 DEF Busy
      <4>2. s[d].mode = y /\ d \in (1 .. D) \ {1}
        BY <4>1, <2>2, <1>21
      <4> QED
        BY <4>2, <1>6 DEF Busy, s
    <3> QED
      BY <3>1, <3>2
  <2> QED
    BY <2>1, <2>3, <2>4
<1>25. Entered(h)'
  <2>0. PICK b : b = s[1]
    OBVIOUS
  <2>1. /\ hit[h] => b.at # "set_pp"
        /\ ~ hit[h] => b.at \notin {"lost", "fault"}
        /\ b.at \in Entering =>
              /\ b.prev \in P!TrapModes /\ b.mode < b.prev
              /\ Busy(h, b.prev) => Spared(h)
              /\ ~ Busy(h, b.prev) => Prepared(h)
    BY <2>0 DEF HartInv, Entered, s
  <2>2. Spared(h)' <=> Spared(h)
    BY <2>0, <1>4, <1>12 DEF Spared, s
  <2>3. ASSUME b.at \in Entering, b.prev = x
        PROVE  Prepared(h)'
    <3>1. Spared(h)
      BY <2>1, <2>3, <1>24
    <3>2. pp'[h][b.prev] = P!U
      BY <2>3, <1>18
    <3> QED
      BY <2>0, <3>1, <3>2, <1>4, <1>12 DEF Spared, Prepared, s
  <2>4. ASSUME b.at \in Entering, b.prev # x
        PROVE  /\ Busy(h, b.prev)' => Spared(h)'
               /\ ~ Busy(h, b.prev)' => Prepared(h)'
    <3>1. b.prev \in P!TrapModes \ {x}
      BY <2>1, <2>4
    <3>2. Prepared(h) => Prepared(h)'
      BY <2>0, <3>1, <1>4, <1>12, <1>18 DEF Prepared, s
    <3> QED
      BY <2>1, <2>2, <2>4, <3>1, <3>2, <1>24
  <2> QED
    BY <2>0, <2>1, <2>2, <2>3, <2>4, <1>4, <1>12, <1>24 DEF Entered
<1>26. Current(h)'
  <2>1. ASSUME NEW d \in 1 .. D - 1, NEW m, LastSet(s, d, m)
        PROVE  LastSet(stack'[h], d, m)
    <3>1. d \in Nat /\ \A k \in 1 .. d : k \in 1 .. D - 1
      BY <1>2
    <3> QED
      BY <2>1, <3>1, <1>9, LastSetOfPrefix
  <2>2. LastSet(stack'[h], D - 1, cur)
    <3>1. LastSet(s, D, cur) /\ ~ Sets(s[D])
      BY <1>0, <1>1 DEF HartInv, Current, s, Sets
    <3>2. D - 1 \in 1 .. D - 1 /\ D \in Nat \ {0}
      BY <1>2
    <3>3. LastSet(s, D - 1, cur)
      BY <3>1, <3>2, LastSetBelow
    <3> QED
      BY <2>1, <3>2, <3>3
  <2>3. ASSUME NEW d \in (1 .. D - 1) \ {1}, stack'[h][d].at # "save"
        PROVE  LastSet(stack'[h], d - 1, stack'[h][d].prev)
    <3>1. stack'[h][d] = s[d]
      BY <1>9
    <3>2. LastSet(s, d - 1, s[d].prev)
      BY <2>3, <3>1, <1>6, <1>21 DEF HartInv, Current, s
    <3>3. d - 1 \in 1 .. D - 1
      BY <2>3, <1>2
    <3> QED
      BY <2>1, <3>1, <3>2, <3>3
  <2> QED
    BY <2>2, <2>3, <1>4, <1>9, <1>10 DEF Current
<1>27. priv'[h] = RunsIn(h, P!Depth(h))'
  <2>1. PICK d : d = D - 1
    OBVIOUS
  <2>2. RunsIn(h, P!Depth(h))' = RunsIn(h, d)'
    BY <2>1, <1>9 DEF RunsIn
  <2>3. d \in 1 .. D - 1
    BY <2>1, <1>2
  <2> QED
    BY <2>1, <2>2, <2>3, <1>14, <1>15
<1> QED
  BY <1>19, <1>22, <1>23, <1>25, <1>26, <1>27 DEF HartInv

\* What the handler on top knows of bm_current_mode, and what remains of it after
\* a step of the handler.
LEMMA HandlerLevels ==
    ASSUME Domains, NEW h \in Harts, HartInv(h), P!Top(h).at \in HandlerPlaces
    PROVE  /\ P!Top(h).at # "save" => LastSet(stack[h], P!Depth(h) - 1, P!Top(h).prev)
           /\ ~ Sets(P!Top(h)) => LastSet(stack[h], P!Depth(h) - 1, cur)
           /\ Sets(P!Top(h)) => cur = P!Top(h).mode
           /\ \A f \in FrameType, m \in P!Modes :
                 P!SetTop(h, f) /\ LastSet(stack[h], P!Depth(h) - 1, m) =>
                    /\ LastSet(stack'[h], P!Depth(h) - 1, m)
                    /\ ~ Sets(f) => LastSet(stack'[h], P!Depth(h), m)
           /\ \A f \in FrameType :
                 P!SetTop(h, f) /\ Sets(f) => LastSet(stack'[h], P!Depth(h), f.mode)
<1> DEFINE D == P!Depth(h)
<1>1. D \in Nat \ {0} /\ D > 1
  BY TopIs
<1>2. D \in Levels(h) \ {1} /\ P!Top(h) = stack[h][D]
  BY <1>1 DEF Levels, P!Top
<1>3. P!Top(h).at # "save" => LastSet(stack[h], D - 1, P!Top(h).prev)
  BY <1>2 DEF HartInv, Current
<1>4. LastSet(stack[h], D, cur)
  BY DEF HartInv, Current
<1>5. ~ Sets(P!Top(h)) => LastSet(stack[h], D - 1, cur)
  BY <1>1, <1>2, <1>4, LastSetBelow
<1>6. Sets(P!Top(h)) => cur = P!Top(h).mode
  BY <1>1, <1>2, <1>4, LastSetAtTop
<1>7. ASSUME NEW f \in FrameType, P!SetTop(h, f)
      PROVE  stack'[h][D] = f /\ \A k \in 1 .. D - 1 : stack[h][k] = stack'[h][k]
  <2>1. stack[h] \in Seq(FrameType) /\ P!Depth(h) >= 1
    BY <1>1 DEF HartInv, HartTypes
  <2> QED
    BY <1>7, <2>1, SetTopIs
<1>8. ASSUME NEW f \in FrameType, P!SetTop(h, f), Sets(f)
      PROVE  LastSet(stack'[h], D, f.mode)
  BY <1>1, <1>7, <1>8, LastSetAtTop
<1>9. ASSUME NEW f \in FrameType, NEW m \in P!Modes, P!SetTop(h, f),
             LastSet(stack[h], D - 1, m)
      PROVE  /\ LastSet(stack'[h], D - 1, m)
             /\ ~ Sets(f) => LastSet(stack'[h], D, m)
  <2>1. D - 1 \in Nat
    BY <1>1
  <2>2. LastSet(stack'[h], D - 1, m)
    BY <1>7, <1>9, <2>1, LastSetOfPrefix
  <2> QED
    BY <1>1, <1>7, <1>9, <2>2, LastSetBelow
<1> QED
  BY <1>3, <1>5, <1>6, <1>8, <1>9

\* The steps of a handler.
LEMMA HandlerKeepsHartInv ==
    ASSUME Domains, NEW h \in Harts, HartInv(h), P!Handler(h)
    PROVE  HartInv(h)'
<1> DEFINE f == P!Top(h)
           D == P!Depth(h)
<1>1. cur \in P!Modes /\ f \in FrameType
  BY TopIs DEF HartInv, HartTypes
<1>2. CASE P!SavePrevMode(h)
  <2> DEFINE g == P!Frame("set", f.mode, cur)
  <2>1. f.at = "save" /\ P!SetTop(h, g) /\ UNCHANGED <<cur, priv, ie, pie, pp, epc, hit>>
    BY <1>2 DEF P!SavePrevMode, P!csrs, P!history
  <2>2. /\ g \in FrameType /\ g.mode = f.mode /\ g.prev = cur /\ g.at = "set"
        /\ f.at \in HandlerPlaces /\ g.at \in HandlerPlaces
        /\ ~ Sets(g) /\ ~ Sets(f)
    BY <1>1, <2>1 DEF P!Frame, FrameType, HandlerPlaces, Sets
  <2> HIDE DEF g, f, D
  <2>3. LastSet(stack[h], D - 1, cur)
    BY <1>1, <2>2, HandlerLevels DEF f, D
  <2>4. LastSet(stack'[h], D - 1, cur) /\ LastSet(stack'[h], D, cur)
    BY <1>1, <2>1, <2>2, <2>3, HandlerLevels DEF f, D
  <2> QED
    BY <1>1, <2>1, <2>2, <2>4, HandlerMoves DEF f, D
<1>3. CASE P!SetNewMode(h)
  <2> DEFINE g == [f EXCEPT !.at = "cause"]
  <2>1. /\ f.at = "set" /\ P!SetTop(h, g)
        /\ cur' = f.mode /\ UNCHANGED <<priv, ie, pie, pp, epc, hit>>
    BY <1>3 DEF P!SetNewMode, P!SetCur, P!Goto, P!csrs
  <2>2. /\ g \in FrameType /\ g.mode = f.mode /\ g.prev = f.prev /\ g.at = "cause"
        /\ f.at \in HandlerPlaces /\ g.at \in HandlerPlaces
        /\ Sets(g) /\ f.prev \in P!Modes /\ f.mode \in P!Modes
    BY <1>1, <2>1 DEF FrameType, HandlerPlaces, Sets
  <2> HIDE DEF g, f, D
  <2>3. LastSet(stack[h], D - 1, f.prev)
    BY <1>1, <2>1, <2>2, HandlerLevels DEF f, D
  <2>4. LastSet(stack'[h], D - 1, f.prev) /\ LastSet(stack'[h], D, g.mode)
    BY <1>1, <2>1, <2>2, <2>3, HandlerLevels DEF f, D
  <2> QED
    BY <1>1, <2>1, <2>2, <2>4, HandlerMoves DEF f, D
<1>4. CASE P!ReadCause(h) \/ P!CallHandler(h)
  <2>1. PICK to : /\ to \in {"fault", "call", "wrong_cause", "restore"}
                  /\ f.at \in {"cause", "call"}
                  /\ to \in {"fault", "wrong_cause"} => cur # priv[h]
                  /\ P!SetTop(h, [f EXCEPT !.at = to])
                  /\ UNCHANGED <<cur, priv, ie, pie, pp, epc, hit>>
    <3>1. cur \in Int /\ priv[h] \in Int
      BY <1>1 DEF HartInv, HartTypes
    <3>2. CASE P!ReadCause(h)
      BY <3>1, <3>2 DEF P!ReadCause, P!Goto, P!csrs, P!history
    <3>3. CASE P!CallHandler(h)
      BY <3>3 DEF P!CallHandler, P!Goto, P!csrs, P!history
    <3> QED
      BY <1>4, <3>2, <3>3
  <2> DEFINE g == [f EXCEPT !.at = to]
  <2>2. f.at \in HandlerPlaces /\ Sets(f) /\ f.at # "save" /\ f.prev \in P!Modes
    BY <1>1, <2>1 DEF HandlerPlaces, Sets, FrameType
  <2>3. cur = f.mode /\ priv[h] = f.mode
    <3>1. cur = f.mode
      BY <2>2, HandlerLevels
    <3>2. priv[h] = RunsIn(h, D) /\ D > 1 /\ f = stack[h][D]
      BY <2>2, TopIs DEF HartInv
    <3> QED
      BY <3>1, <3>2 DEF RunsIn
  <2>4. to \in {"call", "restore"}
    BY <2>1, <2>3
  <2>5. /\ g \in FrameType /\ g.mode = f.mode /\ g.prev = f.prev
        /\ g.at \in HandlerPlaces /\ Sets(g)
    BY <1>1, <2>4 DEF FrameType, HandlerPlaces, Sets
  <2>6. P!SetTop(h, g)
    BY <2>1
  <2> HIDE DEF g, f, D
  <2>7. LastSet(stack[h], D - 1, f.prev)
    BY <1>1, <2>2, HandlerLevels DEF f, D
  <2>8. LastSet(stack'[h], D - 1, f.prev) /\ LastSet(stack'[h], D, g.mode)
    BY <1>1, <2>2, <2>5, <2>6, <2>7, HandlerLevels DEF f, D
  <2> QED
    BY <1>1, <2>1, <2>2, <2>3, <2>5, <2>6, <2>8, HandlerMoves DEF f, D
<1>5. CASE P!RestoreMode(h)
  <2> DEFINE g == [f EXCEPT !.at = "xret"]
  <2>1. /\ f.at = "restore" /\ P!SetTop(h, g)
        /\ cur' = f.prev /\ UNCHANGED <<priv, ie, pie, pp, epc, hit>>
    BY <1>5 DEF P!RestoreMode, P!SetCur, P!Goto, P!csrs
  <2>2. /\ g \in FrameType /\ g.mode = f.mode /\ g.prev = f.prev /\ g.at = "xret"
        /\ f.at \in HandlerPlaces /\ g.at \in HandlerPlaces
        /\ ~ Sets(g) /\ f.prev \in P!Modes
    BY <1>1, <2>1 DEF FrameType, HandlerPlaces, Sets
  <2> HIDE DEF g, f, D
  <2>3. LastSet(stack[h], D - 1, f.prev)
    BY <1>1, <2>1, <2>2, HandlerLevels DEF f, D
  <2>4. LastSet(stack'[h], D - 1, f.prev) /\ LastSet(stack'[h], D, f.prev)
    BY <1>1, <2>1, <2>2, <2>3, HandlerLevels DEF f, D
  <2> QED
    BY <1>1, <2>1, <2>2, <2>4, HandlerMoves DEF f, D
<1>6. CASE P!HandlerReturn(h)
  BY <1>6, ReturnKeepsHartInv
<1> QED
  BY <1>2, <1>3, <1>4, <1>5, <1>6 DEF P!Handler

\* The steps of the program.
LEMMA ProgramKeepsHartInv ==
    ASSUME Domains, NEW h \in Harts, HartInv(h), P!Program(h)
    PROVE  HartInv(h)'
<1> DEFINE f == P!Top(h)
<1>1. f.at \in ProgramPlaces
  BY DEF P!Program, P!SetInterrupts, P!EnterMode, P!ClearPp, P!SetPp, P!WriteEpc,
         P!EnterXret, P!Goto, ProgramPlaces, Entering
<1>2. P!Depth(h) = 1 /\ f \in FrameType /\ f = stack[h][1] /\ HartTypes(h)
  BY <1>1, TopIs DEF P!Top, HartInv
<1>3. Levels(h) \ {1} = {} /\ \A x : ~ Busy(h, x)
  BY <1>2 DEF Levels, Busy
<1>4. /\ f.mode \in P!Modes /\ f.prev \in P!Modes
      /\ hit[h] => f.at # "set_pp"
      /\ ~ hit[h] => f.at \notin {"lost", "fault"}
      /\ f.at \in Entering =>
            /\ f.prev \in P!TrapModes /\ f.mode < f.prev
            /\ f.at = "set_pp" => pp[h][f.prev] = P!U
            /\ f.at \in {"write_epc", "enter"} =>
                  pp[h][f.prev] = IF hit[h] THEN P!U ELSE f.mode
            /\ f.at = "enter" /\ ~ hit[h] => epc[h][f.prev] = P!Entry
  BY <1>2, <1>3 DEF HartInv, Entered, Prepared, FrameType
<1>5. /\ cur = f.mode
      /\ priv[h] = IF hit[h] /\ f.at \notin {"write_epc", "enter"} THEN P!U
                   ELSE IF f.at \in Entering THEN f.prev ELSE f.mode
  <2>1. Sets(f) /\ LastSet(stack[h], 1, cur)
    BY <1>1, <1>2 DEF HartInv, Current, Sets, ProgramPlaces, Entering
  <2>2. priv[h] = BaseMode(h)
    BY <1>2 DEF HartInv, RunsIn
  <2> QED
    BY <1>2, <2>1, <2>2, LastSetAtTop DEF BaseMode
<1>6. /\ priv[h] \in P!Modes
      /\ ie[h] \in [P!TrapModes -> BOOLEAN]
      /\ pie[h] \in [P!TrapModes -> BOOLEAN]
      /\ pp[h] \in [P!TrapModes -> P!Modes]
      /\ epc[h] \in [P!TrapModes -> Int]
      /\ hit[h] \in BOOLEAN
  BY <1>2 DEF HartTypes
<1> HIDE DEF f
<1>7. CASE \E on \in BOOLEAN : P!SetInterrupts(h, on)
  <2>1. PICK on \in BOOLEAN : P!SetInterrupts(h, on)
    BY <1>7
  <2>2. /\ f.at = "run" /\ priv[h] \in P!TrapModes
        /\ ie' = [ie EXCEPT ![h][priv[h]] = on]
        /\ UNCHANGED <<cur, priv, pie, pp, epc, stack, hit>>
    BY <2>1 DEF P!SetInterrupts, P!Put, P!history, f
  <2>3. ie'[h] \in [P!TrapModes -> BOOLEAN]
    <3>1. ie'[h] = [ie[h] EXCEPT ![priv[h]] = on]
      BY <2>2 DEF Domains
    <3> QED
      BY <1>6, <2>2, <3>1
  <2>4. P!Depth(h)' = P!Depth(h) /\ Levels(h)' \ {1} = {}
    BY <1>3, <2>2 DEF P!Depth, Levels
  <2>5. HartTypes(h)' /\ Nesting(h)' /\ Saved(h)' /\ Current(h)'
    BY <2>2, <2>3, <2>4
       DEF HartInv, HartTypes, Nesting, Saved, Current, P!Depth
  <2>6. Entered(h)'
    BY <1>2, <1>4, <2>2 DEF Entered, Entering
  <2>7. priv'[h] = RunsIn(h, P!Depth(h))'
    BY <2>2, <2>4 DEF HartInv, RunsIn, BaseMode
  <2> QED
    BY <2>5, <2>6, <2>7 DEF HartInv
<1>8. CASE \E mode \in {P!U, P!S} : P!EnterMode(h, mode)
  <2>1. PICK mode \in {P!U, P!S} : P!EnterMode(h, mode)
    BY <1>8
  <2> DEFINE g == P!Frame("clear_pp", mode, cur)
  <2>2. /\ f.at = "run" /\ mode < cur
        /\ P!SetTop(h, g) /\ cur' = mode
        /\ UNCHANGED <<priv, ie, pie, pp, epc, hit>>
    BY <2>1 DEF P!EnterMode, P!SetCur, P!csrs, f
  <2>3. cur \in P!TrapModes
    BY <1>4, <1>5, <2>1, <2>2
  <2>4. /\ g \in FrameType /\ g.at = "clear_pp" /\ g.mode = mode /\ g.prev = cur
        /\ g.at \in Entering /\ g.at \in ProgramPlaces
    BY <2>3 DEF P!Frame, FrameType, ProgramPlaces, Entering
  <2>5. priv[h] = IF hit[h] THEN P!U ELSE cur
    BY <1>5, <2>2 DEF Entering
  <2> HIDE DEF g
  <2> QED
    BY <1>2, <1>6, <2>2, <2>3, <2>4, <2>5, ProgramMoves
<1>9. CASE P!ClearPp(h)
  <2> DEFINE to == IF f.prev > priv[h] THEN "fault" ELSE "set_pp"
             g == [f EXCEPT !.at = to]
  <2>1. /\ f.at = "clear_pp" /\ f.at \in Entering /\ P!SetTop(h, g)
        /\ UNCHANGED <<cur, priv, ie, pie, epc, hit>>
    BY <1>9 DEF P!ClearPp, P!Goto, P!history, f, Entering
  <2>2. /\ g \in FrameType /\ g.at = to /\ g.mode = f.mode /\ g.prev = f.prev
        /\ to \in {"fault", "set_pp"}
        /\ to \in ProgramPlaces
    BY <1>2 DEF FrameType, ProgramPlaces, Entering
  <2>3. hit[h] <=> to = "fault"
    BY <1>4, <1>5, <2>1
  <2>4. /\ pp'[h] \in [P!TrapModes -> P!Modes]
        /\ to = "set_pp" => pp'[h][f.prev] = P!U
    <3>1. CASE to = "fault"
      BY <1>6, <1>9, <3>1 DEF P!ClearPp, f
    <3>2. CASE to = "set_pp"
      <4>1. pp' = [pp EXCEPT ![h][f.prev] = P!U]
        BY <1>9, <3>2 DEF P!ClearPp, P!Put, f
      <4>2. pp'[h] = [pp[h] EXCEPT ![f.prev] = P!U]
        BY <4>1 DEF Domains
      <4> QED
        BY <1>4, <1>6, <2>1, <4>2
    <3> QED
      BY <3>1, <3>2, <2>2
  <2>5. /\ to = "set_pp" => to \in Entering
        /\ to = "fault" => to \notin Entering
        /\ to \notin {"write_epc", "enter", "lost"}
    BY <2>2 DEF Entering
  <2> HIDE DEF g, to
  <2>6. priv'[h] = IF hit[h] /\ g.at \notin {"write_epc", "enter"} THEN P!U
                   ELSE IF g.at \in Entering THEN g.prev ELSE g.mode
    BY <1>5, <2>1, <2>2, <2>3, <2>5
  <2> QED
    BY <1>2, <1>4, <1>5, <1>6, <2>1, <2>2, <2>3, <2>4, <2>5, <2>6, ProgramMoves
<1>10. CASE P!SetPp(h)
  <2> DEFINE g == [f EXCEPT !.at = "write_epc"]
  <2>1. /\ f.at = "set_pp" /\ P!SetTop(h, g)
        /\ pp' = [pp EXCEPT ![h][f.prev] = P!BitOr(pp[h][f.prev], f.mode)]
        /\ UNCHANGED <<cur, priv, ie, pie, epc, hit>>
    BY <1>10 DEF P!SetPp, P!Goto, P!Put, P!history, f
  <2>2. /\ g \in FrameType /\ g.at = "write_epc" /\ g.mode = f.mode /\ g.prev = f.prev
        /\ g.at \in Entering /\ g.at \in ProgramPlaces /\ f.at \in Entering
        /\ ~ hit[h] /\ priv[h] = f.prev
    BY <1>2, <1>4, <1>5, <2>1 DEF FrameType, ProgramPlaces, Entering
  <2>3. P!BitOr(pp[h][f.prev], f.mode) = f.mode
    BY <1>4, <2>1, <2>2 DEF P!BitOr
  <2>4. pp'[h] \in [P!TrapModes -> P!Modes] /\ pp'[h][f.prev] = f.mode
    <3>1. pp'[h] = [pp[h] EXCEPT ![f.prev] = f.mode]
      BY <2>1, <2>3 DEF Domains
    <3> QED
      BY <1>4, <1>6, <2>2, <3>1
  <2> HIDE DEF g
  <2> QED
    BY <1>2, <1>4, <1>5, <1>6, <2>1, <2>2, <2>4, ProgramMoves
<1>11. CASE P!WriteEpc(h)
  <2> DEFINE g == [f EXCEPT !.at = "enter"]
  <2>1. /\ f.at = "write_epc" /\ P!SetTop(h, g)
        /\ epc' = [epc EXCEPT ![h][f.prev] = P!Entry]
        /\ UNCHANGED <<cur, priv, ie, pie, pp, hit>>
    BY <1>11 DEF P!WriteEpc, P!Goto, P!Put, P!history, f
  <2>2. /\ g \in FrameType /\ g.at = "enter" /\ g.mode = f.mode /\ g.prev = f.prev
        /\ g.at \in Entering /\ g.at \in ProgramPlaces /\ f.at \in Entering
        /\ priv[h] = f.prev
    BY <1>2, <1>5, <2>1 DEF FrameType, ProgramPlaces, Entering
  <2>3. epc'[h] \in [P!TrapModes -> Int] /\ epc'[h][f.prev] = P!Entry
    <3>1. epc'[h] = [epc[h] EXCEPT ![f.prev] = P!Entry]
      BY <2>1 DEF Domains
    <3> QED
      BY <1>4, <1>6, <2>2, <3>1 DEF P!Entry
  <2> HIDE DEF g
  <2> QED
    BY <1>2, <1>4, <1>5, <1>6, <2>1, <2>2, <2>3, ProgramMoves
<1>12. CASE P!EnterXret(h)
  <2> DEFINE x == f.prev
             to == IF epc[h][x] = P!Entry THEN "run" ELSE "lost"
             g == [f EXCEPT !.at = to]
  <2>1. f.at = "enter" /\ f.at \in Entering
    BY <1>12 DEF P!EnterXret, P!Goto, Entering, f
  <2>2. /\ x \in P!TrapModes
        /\ pp[h][x] = IF hit[h] THEN P!U ELSE f.mode
        /\ ~ hit[h] => to = "run"
    BY <1>4, <2>1
  <2>3. /\ P!SetTop(h, g) /\ cur' = cur /\ hit' = hit
        /\ priv' = [priv EXCEPT ![h] = pp[h][x]]
        /\ ie' = P!Put(ie, h, x, pie[h][x])
        /\ pie' = P!Put(pie, h, x, TRUE)
        /\ pp' = P!Put(pp, h, x, P!U)
        /\ epc' = epc
    BY <1>12 DEF P!EnterXret, P!Goto, P!Xret, P!history, f
  <2>4. /\ g \in FrameType /\ g.at = to /\ g.mode = f.mode
        /\ to \in {"run", "lost"} /\ to \notin Entering /\ to \in ProgramPlaces
    BY <1>2 DEF FrameType, ProgramPlaces, Entering
  <2>5. priv'[h] = pp[h][x] /\ priv'[h] \in P!Modes
    BY <1>6, <2>2, <2>3 DEF Domains
  <2>6. ie'[h] \in [P!TrapModes -> BOOLEAN]
    <3>1. ie'[h] = [ie[h] EXCEPT ![x] = pie[h][x]]
      BY <2>3 DEF P!Put, Domains
    <3> QED
      BY <1>6, <2>2, <3>1
  <2>7. pie'[h] \in [P!TrapModes -> BOOLEAN]
    <3>1. pie'[h] = [pie[h] EXCEPT ![x] = TRUE]
      BY <2>3 DEF P!Put, Domains
    <3> QED
      BY <1>6, <2>2, <3>1
  <2>8. pp'[h] \in [P!TrapModes -> P!Modes]
    <3>1. pp'[h] = [pp[h] EXCEPT ![x] = P!U]
      BY <2>3 DEF P!Put, Domains
    <3> QED
      BY <1>6, <2>2, <3>1
  <2> HIDE DEF g, to, x
  <2>9. priv'[h] = IF hit[h] /\ g.at \notin {"write_epc", "enter"} THEN P!U
                   ELSE IF g.at \in Entering THEN g.prev ELSE g.mode
    BY <2>2, <2>4, <2>5
  <2>10. cur' = g.mode /\ epc'[h] \in [P!TrapModes -> Int]
    BY <1>5, <1>6, <2>3, <2>4
  <2> QED
    BY <1>2, <2>2, <2>3, <2>4, <2>5, <2>6, <2>7, <2>8, <2>9, <2>10, ProgramMoves
<1> QED
  BY <1>7, <1>8, <1>9, <1>10, <1>11, <1>12 DEF P!Program

-----------------------------------------------------------------------------
(* The other harts.                                                        *)

\* The hart h is left alone.
Untouched(h) ==
    /\ priv'[h] = priv[h] /\ ie'[h] = ie[h] /\ pie'[h] = pie[h]
    /\ pp'[h] = pp[h] /\ epc'[h] = epc[h]
    /\ stack'[h] = stack[h] /\ hit'[h] = hit[h]

HartSteps(g) == P!Program(g) \/ P!Handler(g) \/ \E x \in P!TrapModes : P!Trap(g, x)

LEMMA OneChanges ==
    ASSUME NEW F, F = [h \in Harts |-> F[h]], NEW g \in Harts, NEW e
    PROVE  /\ [F EXCEPT ![g] = e] = [h \in Harts |-> [F EXCEPT ![g] = e][h]]
           /\ \A h \in Harts \ {g} : [F EXCEPT ![g] = e][h] = F[h]
OBVIOUS

\* A hart changes its own registers and stack, and says so when it assigns
\* bm_current_mode.
LEMMA OneMoves ==
    ASSUME Domains, NEW g \in Harts, HartSteps(g)
    PROVE  /\ Domains'
           /\ \A h \in Harts \ {g} : Untouched(h)
           /\ wrote \subseteq wrote' /\ (dropped => dropped')
           /\ cur' # cur => g \in wrote'
<1> DEFINE Changed(F, G) == G = F \/ \E e : G = [F EXCEPT ![g] = e]
<1>1. SUFFICES /\ Changed(priv, priv') /\ Changed(ie, ie') /\ Changed(pie, pie')
               /\ Changed(pp, pp') /\ Changed(epc, epc') /\ Changed(stack, stack')
               /\ Changed(hit, hit')
               /\ wrote \subseteq wrote' /\ (dropped => dropped')
               /\ cur' # cur => g \in wrote'
  <2>1. ASSUME NEW F, NEW G, F = [h \in Harts |-> F[h]], Changed(F, G)
        PROVE  G = [h \in Harts |-> G[h]] /\ \A h \in Harts \ {g} : G[h] = F[h]
    BY <2>1, OneChanges
  <2> HIDE DEF Changed
  <2>2. ASSUME Changed(priv, priv'), Changed(ie, ie'), Changed(pie, pie'),
               Changed(pp, pp'), Changed(epc, epc'), Changed(stack, stack'),
               Changed(hit, hit')
        PROVE  Domains' /\ \A h \in Harts \ {g} : Untouched(h)
    <3>1. priv' = [h \in Harts |-> priv'[h]] /\ \A h \in Harts \ {g} : priv'[h] = priv[h]
      BY <2>1, <2>2 DEF Domains
    <3>2. ie' = [h \in Harts |-> ie'[h]] /\ \A h \in Harts \ {g} : ie'[h] = ie[h]
      BY <2>1, <2>2 DEF Domains
    <3>3. pie' = [h \in Harts |-> pie'[h]] /\ \A h \in Harts \ {g} : pie'[h] = pie[h]
      BY <2>1, <2>2 DEF Domains
    <3>4. pp' = [h \in Harts |-> pp'[h]] /\ \A h \in Harts \ {g} : pp'[h] = pp[h]
      BY <2>1, <2>2 DEF Domains
    <3>5. epc' = [h \in Harts |-> epc'[h]] /\ \A h \in Harts \ {g} : epc'[h] = epc[h]
      BY <2>1, <2>2 DEF Domains
    <3>6. stack' = [h \in Harts |-> stack'[h]] /\ \A h \in Harts \ {g} : stack'[h] = stack[h]
      BY <2>1, <2>2 DEF Domains
    <3>7. hit' = [h \in Harts |-> hit'[h]] /\ \A h \in Harts \ {g} : hit'[h] = hit[h]
      BY <2>1, <2>2 DEF Domains
    <3> QED
      BY <3>1, <3>2, <3>3, <3>4, <3>5, <3>6, <3>7 DEF Domains, Untouched
  <2> QED
    BY <2>2
<1>2. CASE P!Program(g)
  <2>1. CASE \E on \in BOOLEAN : P!SetInterrupts(g, on)
    <3>1. PICK on \in BOOLEAN : ie' = [ie EXCEPT ![g] = [ie[g] EXCEPT ![priv[g]] = on]]
      BY <2>1, Zenon DEF P!SetInterrupts, P!Put
    <3>2. Changed(ie, ie')
      BY <3>1, Zenon
    <3>3. UNCHANGED <<cur, priv, pie, pp, epc, stack, hit, wrote, dropped>>
      BY <2>1 DEF P!SetInterrupts, P!history
    <3> QED
      BY <3>2, <3>3
  <2>2. CASE \E mode \in {P!U, P!S} : P!EnterMode(g, mode)
    BY <2>2 DEF P!EnterMode, P!SetTop, P!SetCur, P!csrs
  <2>3. CASE P!ClearPp(g)
    BY <2>3 DEF P!ClearPp, P!Goto, P!SetTop, P!Put, P!history
  <2>4. CASE P!SetPp(g)
    BY <2>4 DEF P!SetPp, P!Goto, P!SetTop, P!Put, P!history
  <2>5. CASE P!WriteEpc(g)
    BY <2>5 DEF P!WriteEpc, P!Goto, P!SetTop, P!Put, P!history
  <2>6. CASE P!EnterXret(g)
    BY <2>6 DEF P!EnterXret, P!Xret, P!Goto, P!SetTop, P!Put, P!history
  <2> QED
    BY <1>2, <2>1, <2>2, <2>3, <2>4, <2>5, <2>6 DEF P!Program
<1>3. CASE P!Handler(g)
  <2>1. CASE P!SavePrevMode(g)
    BY <2>1 DEF P!SavePrevMode, P!SetTop, P!csrs, P!history
  <2>2. CASE P!SetNewMode(g)
    BY <2>2 DEF P!SetNewMode, P!Goto, P!SetTop, P!SetCur, P!csrs
  <2>3. CASE P!ReadCause(g)
    BY <2>3 DEF P!ReadCause, P!Goto, P!SetTop, P!csrs, P!history
  <2>4. CASE P!CallHandler(g)
    BY <2>4 DEF P!CallHandler, P!Goto, P!SetTop, P!csrs, P!history
  <2>5. CASE P!RestoreMode(g)
    BY <2>5 DEF P!RestoreMode, P!Goto, P!SetTop, P!SetCur, P!csrs
  <2>6. CASE P!HandlerReturn(g)
    BY <2>6 DEF P!HandlerReturn, P!Xret, P!Put, P!history
  <2> QED
    BY <1>3, <2>1, <2>2, <2>3, <2>4, <2>5, <2>6 DEF P!Handler
<1>4. CASE \E x \in P!TrapModes : P!Trap(g, x)
  <2>1. PICK x \in P!TrapModes : P!Trap(g, x)
    BY <1>4
  <2>2. Changed(hit, hit')
    BY <2>1, Zenon DEF P!Trap
  <2>3. /\ Changed(priv, priv') /\ Changed(stack, stack')
        /\ cur' = cur /\ wrote' = wrote /\ dropped' = dropped
    BY <2>1, Zenon DEF P!Trap
  <2>4. Changed(ie, ie') /\ Changed(pie, pie') /\ Changed(pp, pp') /\ Changed(epc, epc')
    <3>1. /\ ie' = [ie EXCEPT ![g] = [ie[g] EXCEPT ![x] = FALSE]]
          /\ pie' = [pie EXCEPT ![g] = [pie[g] EXCEPT ![x] = ie[g][x]]]
          /\ pp' = [pp EXCEPT ![g] = [pp[g] EXCEPT ![x] = priv[g]]]
          /\ epc' = [epc EXCEPT ![g] = [epc[g] EXCEPT ![x] = P!Depth(g)]]
      BY <2>1, Zenon DEF P!Trap, P!Put
    <3> QED
      BY <3>1, Zenon
  <2> QED
    BY <2>2, <2>3, <2>4
<1> QED
  BY <1>2, <1>3, <1>4 DEF HartSteps

\* A hart that is left alone keeps its invariant.
LEMMA OthersKeepHartInv ==
    ASSUME NEW h \in Harts, HartInv(h), Untouched(h), cur' = cur
    PROVE  HartInv(h)'
<1>1. P!Depth(h)' = P!Depth(h) /\ Levels(h)' = Levels(h) /\ BaseMode(h)' = BaseMode(h)
  BY DEF P!Depth, Levels, BaseMode, Untouched
<1>2. \A d : RunsIn(h, d)' = RunsIn(h, d) /\ (Busy(h, d)' <=> Busy(h, d))
  BY <1>1 DEF RunsIn, Busy, Untouched
<1>3. HartTypes(h)' /\ Nesting(h)'
  BY <1>1 DEF HartInv, HartTypes, Nesting, Untouched
<1>4. Saved(h)'
  BY <1>1, <1>2 DEF HartInv, Saved, Untouched
<1>5. Entered(h)'
  <2>1. (Spared(h)' <=> Spared(h)) /\ (Prepared(h)' <=> Prepared(h))
    BY DEF Spared, Prepared, Untouched
  <2> QED
    BY <2>1, <1>2 DEF HartInv, Entered, Untouched
<1>6. Current(h)'
  BY <1>1 DEF HartInv, Current, Untouched
<1>7. priv'[h] = RunsIn(h, P!Depth(h))'
  <2>1. PICK d : d = P!Depth(h)
    OBVIOUS
  <2>2. RunsIn(h, P!Depth(h))' = RunsIn(h, d)'
    BY <2>1, <1>1
  <2> QED
    BY <2>1, <2>2, <1>2 DEF HartInv, Untouched
<1> QED
  BY <1>3, <1>4, <1>5, <1>6, <1>7 DEF HartInv

\* As long as no program has dropped its level, everything runs in M mode.
LEMMA AllStayInMachineMode ==
    ASSUME Domains, NEW g \in Harts, HartInv(g), Machine(g), HartSteps(g), ~ dropped'
    PROVE  Machine(g)'
<1> DEFINE D == P!Depth(g)
<1>1. /\ D \in Nat \ {0} /\ stack[g] \in Seq(FrameType)
      /\ P!Top(g) = stack[g][D] /\ P!Top(g) \in FrameType
      /\ P!Top(g).at \in ProgramPlaces => D = 1
      /\ P!Top(g).at \in HandlerPlaces => D > 1
      /\ D > 1 => P!Top(g).at \in HandlerPlaces
  BY TopIs DEF HartInv, HartTypes
<1>2. /\ cur = P!M /\ ~ hit[g] /\ stack[g][1].at = "run"
      /\ \A d \in 1 .. D : stack[g][d].mode = P!M
  BY DEF Machine, Levels
<1>3. D \in 1 .. D /\ P!Top(g).mode = P!M
  BY <1>1, <1>2
<1>4. P!Top(g).at \notin Entering
  BY <1>1, <1>2 DEF ProgramPlaces, Entering
\* What a step of the handler on top leaves.
<1>5. ASSUME NEW f \in FrameType, P!SetTop(g, f), f.mode = P!M, D > 1, hit'[g] = hit[g]
      PROVE  cur' = P!M => Machine(g)'
  <2>1. /\ P!Depth(g)' = D
        /\ stack'[g][D] = f
        /\ \A k \in 1 .. D - 1 : stack'[g][k] = stack[g][k]
    BY <1>1, <1>5, SetTopIs
  <2>2. Levels(g)' = 1 .. D
    BY <2>1 DEF Levels
  <2>3. 1 \in 1 .. D - 1 /\ \A k \in 1 .. D : k \in 1 .. D - 1 \/ k = D
    BY <1>1, <1>5
  <2>4. stack'[g][1].at = "run" /\ \A k \in 1 .. D : stack'[g][k].mode = P!M
    BY <1>2, <1>5, <2>1, <2>3
  <2> QED
    BY <1>2, <1>5, <2>2, <2>4 DEF Machine
<1>6. CASE P!Program(g)
  <2>1. CASE \E on \in BOOLEAN : P!SetInterrupts(g, on)
    BY <2>1 DEF P!SetInterrupts, P!history, Machine, Levels, P!Depth
  <2>2. CASE \E mode \in {P!U, P!S} : P!EnterMode(g, mode)
    BY <2>2 DEF P!EnterMode
  <2>3. CASE P!ClearPp(g) \/ P!SetPp(g) \/ P!WriteEpc(g) \/ P!EnterXret(g)
    BY <2>3, <1>4 DEF P!ClearPp, P!SetPp, P!WriteEpc, P!EnterXret, P!Goto, Entering
  <2> QED
    BY <1>6, <2>1, <2>2, <2>3 DEF P!Program
<1>7. CASE P!Handler(g)
  <2> DEFINE f == P!Top(g)
  <2>0. /\ \A to \in HandlerPlaces \cup {"fault"} :
              [f EXCEPT !.at = to] \in FrameType /\ [f EXCEPT !.at = to].mode = f.mode
        /\ f.prev \in P!Modes
    BY <1>1 DEF FrameType, ProgramPlaces
  <2>1. CASE P!SavePrevMode(g)
    <3>1. P!Frame("set", P!M, cur) \in FrameType /\ P!Frame("set", P!M, cur).mode = P!M
      BY <1>2 DEF P!Frame, FrameType, HandlerPlaces
    <3>2. /\ P!SetTop(g, P!Frame("set", P!M, cur)) /\ cur' = cur /\ hit'[g] = hit[g]
          /\ f.at \in HandlerPlaces
      BY <2>1, <1>3 DEF P!SavePrevMode, P!history, HandlerPlaces
    <3> QED
      BY <3>1, <3>2, <1>1, <1>2, <1>5
  <2>2. CASE P!SetNewMode(g)
    <3>1. /\ P!SetTop(g, [f EXCEPT !.at = "cause"]) /\ cur' = P!M /\ hit'[g] = hit[g]
          /\ f.at \in HandlerPlaces /\ "cause" \in HandlerPlaces
      BY <2>2, <1>3 DEF P!SetNewMode, P!Goto, P!SetCur, HandlerPlaces
    <3> QED
      BY <3>1, <2>0, <1>1, <1>3, <1>5
  <2>3. CASE P!ReadCause(g) \/ P!CallHandler(g)
    <3>1. PICK to : /\ to \in HandlerPlaces \cup {"fault", "wrong_cause"}
                    /\ to = "wrong_cause" => cur # priv[g]
                    /\ P!SetTop(g, [f EXCEPT !.at = to]) /\ cur' = cur /\ hit'[g] = hit[g]
                    /\ f.at \in HandlerPlaces
      BY <2>3 DEF P!ReadCause, P!CallHandler, P!Goto, P!history, HandlerPlaces
    <3>2. D > 1 /\ priv[g] = P!M
      BY <3>1, <1>1, <1>3 DEF HartInv, RunsIn
    <3>3. to \in HandlerPlaces \cup {"fault"}
      BY <3>1, <3>2, <1>2
    <3> QED
      BY <3>1, <3>2, <3>3, <2>0, <1>1, <1>2, <1>3, <1>5
  <2>4. CASE P!RestoreMode(g)
    <3>1. /\ P!SetTop(g, [f EXCEPT !.at = "xret"]) /\ cur' = f.prev /\ hit'[g] = hit[g]
          /\ f.at \in HandlerPlaces /\ "xret" \in HandlerPlaces /\ f.at # "save"
      BY <2>4 DEF P!RestoreMode, P!Goto, P!SetCur, HandlerPlaces
    <3>2. LastSet(stack[g], D - 1, f.prev)
      BY <3>1, HandlerLevels
    <3>3. PICK k \in 1 .. D - 1 : stack[g][k].mode = f.prev
      BY <3>2 DEF LastSet
    <3>4. k \in 1 .. D
      BY <1>1
    <3> QED
      BY <3>1, <3>3, <3>4, <2>0, <1>1, <1>2, <1>3, <1>5
  <2>5. CASE P!HandlerReturn(g)
    <3>1. f.at = "xret" /\ f.at \in HandlerPlaces
      BY <2>5 DEF P!HandlerReturn, HandlerPlaces
    <3>2. /\ stack' = [stack EXCEPT ![g] = SubSeq(stack[g], 1, D - 1)]
          /\ cur' = cur /\ hit' = hit
      BY <2>5 DEF P!HandlerReturn, P!history
    <3>3. stack'[g] = SubSeq(stack[g], 1, D - 1) /\ D > 1 /\ D = Len(stack[g])
      BY <3>1, <3>2, <1>1 DEF Domains, P!Depth
    <3>4. /\ Len(stack'[g]) = D - 1
          /\ \A k \in 1 .. D - 1 : stack'[g][k] = stack[g][k]
      BY <3>3, <1>1
    <3>5. Levels(g)' = 1 .. D - 1 /\ \A k \in 1 .. D - 1 : k \in 1 .. D
      BY <3>4, <1>1 DEF Levels, P!Depth
    <3>6. 1 \in 1 .. D - 1
      BY <3>3, <1>1
    <3> QED
      BY <3>2, <3>4, <3>5, <3>6, <1>2 DEF Machine
  <2> QED
    BY <1>7, <2>1, <2>2, <2>3, <2>4, <2>5 DEF P!Handler
<1>8. CASE \E x \in P!TrapModes : P!Trap(g, x)
  <2>1. PICK x \in P!TrapModes : P!Trap(g, x)
    BY <1>8
  <2>2. priv[g] = P!M
    <3>1. priv[g] = RunsIn(g, D)
      BY DEF HartInv
    <3> QED
      BY <3>1, <1>2, <1>3 DEF RunsIn, BaseMode, Entering
  <2>3. x = P!M
    BY <2>1, <2>2 DEF P!Trap
  <2> DEFINE f == P!Frame("save", x, P!U)
  <2>4. f \in FrameType /\ f.mode = P!M
    BY <2>3 DEF P!Frame, FrameType, HandlerPlaces
  <2>5. stack' = [stack EXCEPT ![g] = Append(stack[g], f)] /\ cur' = cur
    BY <2>1 DEF P!Trap
  <2>6. ~ hit'[g]
    <3>1. hit' = [hit EXCEPT ![g] = hit[g] \/ P!Exposed(g, x)]
      BY <2>1 DEF P!Trap
    <3>2. hit'[g] = (hit[g] \/ P!Exposed(g, x))
      BY <3>1, Zenon DEF Domains
    <3>3. ~ P!Exposed(g, x)
      BY <1>4 DEF P!Exposed, Entering
    <3> QED
      BY <3>2, <3>3, <1>2
  <2> HIDE DEF f
  <2>7. stack'[g] = Append(stack[g], f)
    BY <2>5 DEF Domains
  <2>8. D = Len(stack[g])
    BY DEF P!Depth
  <2>9. /\ Len(stack'[g]) = D + 1 /\ stack'[g][D + 1] = f
        /\ \A k \in 1 .. D : stack'[g][k] = stack[g][k]
    BY <2>4, <2>7, <2>8, <1>1
  <2>10. Levels(g)' = 1 .. D + 1 /\ \A k \in 1 .. D + 1 : k \in 1 .. D \/ k = D + 1
    BY <2>9, <1>1 DEF Levels, P!Depth
  <2>11. 1 \in 1 .. D
    BY <1>1
  <2> QED
    BY <2>4, <2>5, <2>6, <2>9, <2>10, <2>11, <1>2 DEF Machine
<1> QED
  BY <1>6, <1>7, <1>8 DEF HartSteps

\* At the start every hart runs its program in M mode.
LEMMA ModesInvInit ==
    P!Init => ModesInv
<1> SUFFICES ASSUME P!Init
             PROVE  ModesInv
  OBVIOUS
<1>1. Domains
  BY DEF P!Init, Domains
<1> SUFFICES ASSUME NEW h \in Harts
             PROVE  HartInv(h) /\ Machine(h)
  BY <1>1 DEF ModesInv
<1> DEFINE f == P!Frame("run", P!M, P!M)
<1>2. /\ cur = P!M /\ priv[h] = P!M /\ ~ hit[h] /\ hit[h] \in BOOLEAN
      /\ ie[h] = [x \in P!TrapModes |-> FALSE]
      /\ pie[h] = [x \in P!TrapModes |-> FALSE]
      /\ pp[h] = [x \in P!TrapModes |-> P!U]
      /\ epc[h] = [x \in P!TrapModes |-> P!Garbage]
      /\ stack[h] = <<f>>
  BY DEF P!Init
<1>3. f \in FrameType /\ f.at = "run" /\ f.mode = P!M
  BY DEF P!Frame, FrameType, ProgramPlaces
<1> HIDE DEF f
<1>4. stack[h] \in Seq(FrameType) /\ P!Depth(h) = 1 /\ stack[h][1] = f
  BY <1>2, <1>3 DEF P!Depth
<1>5. Levels(h) \ {1} = {} /\ \A d \in Levels(h) : d = 1
  BY <1>4 DEF Levels
<1>6. HartTypes(h)
  BY <1>2, <1>4 DEF HartTypes, P!Garbage
<1>7. Nesting(h) /\ Saved(h)
  BY <1>3, <1>4, <1>5 DEF Nesting, Saved, ProgramPlaces
<1>8. Entered(h)
  BY <1>2, <1>3, <1>4 DEF Entered, Entering
<1>9. Current(h)
  <2>1. Sets(stack[h][1])
    BY <1>3, <1>4 DEF Sets
  <2>2. LastSet(stack[h], 1, cur)
    BY <2>1, <1>2, <1>3, <1>4, LastSetAtTop
  <2> QED
    BY <2>2, <1>4, <1>5 DEF Current
<1>10. priv[h] = RunsIn(h, P!Depth(h))
  BY <1>2, <1>3, <1>4 DEF RunsIn, BaseMode, Entering
<1>11. Machine(h)
  BY <1>2, <1>3, <1>4, <1>5 DEF Machine
<1> QED
  BY <1>6, <1>7, <1>8, <1>9, <1>10, <1>11 DEF HartInv

LEMMA ModesInvStep ==
    ModesInv /\ [P!Next]_(P!vars) => ModesInv'
<1> SUFFICES ASSUME ModesInv, [P!Next]_(P!vars)
             PROVE  ModesInv'
  OBVIOUS
<1>1. CASE P!Next
  <2>1. PICK g \in Harts : HartSteps(g)
    BY <1>1 DEF P!Next, HartSteps
  <2>2. Domains
    BY DEF ModesInv
  <2>3. /\ Domains'
        /\ \A h \in Harts \ {g} : Untouched(h)
        /\ wrote \subseteq wrote' /\ (dropped => dropped')
        /\ cur' # cur => g \in wrote'
    BY <2>1, <2>2, OneMoves
  <2>4. ASSUME ~ dropped'
        PROVE  cur' = cur /\ \A h \in Harts : Machine(h)'
    <3>1. HartInv(g) /\ \A h \in Harts : Machine(h)
      BY <2>3, <2>4 DEF ModesInv
    <3>2. Machine(g)'
      BY <2>1, <2>2, <2>4, <3>1, AllStayInMachineMode
    <3>3. cur' = cur
      BY <3>1, <3>2 DEF Machine
    <3>4. ASSUME NEW h \in Harts \ {g}
          PROVE  Machine(h)'
      <4>1. Machine(h) /\ Untouched(h)
        BY <2>3, <3>1
      <4> QED
        BY <4>1, <3>3 DEF Machine, Untouched, Levels, P!Depth
    <3> QED
      BY <3>2, <3>3, <3>4
  <2>5. ASSUME NEW h \in Harts, wrote' \subseteq {h} \/ ~ dropped'
        PROVE  HartInv(h)'
    <3>1. HartInv(h)
      BY <2>3, <2>5 DEF ModesInv
    <3>2. CASE h = g
      <4>1. CASE P!Program(g)
        BY <2>2, <3>1, <3>2, <4>1, ProgramKeepsHartInv
      <4>2. CASE P!Handler(g)
        BY <2>2, <3>1, <3>2, <4>2, HandlerKeepsHartInv
      <4>3. CASE \E x \in P!TrapModes : P!Trap(g, x)
        BY <2>2, <3>1, <3>2, <4>3, TrapKeepsHartInv
      <4> QED
        BY <2>1, <4>1, <4>2, <4>3 DEF HartSteps
    <3>3. CASE h # g
      <4>1. cur' = cur
        BY <2>3, <2>4, <2>5, <3>3
      <4> QED
        BY <2>3, <3>1, <3>3, <4>1, OthersKeepHartInv
    <3> QED
      BY <3>2, <3>3
  <2> QED
    BY <2>3, <2>4, <2>5 DEF ModesInv
<1>2. CASE UNCHANGED P!vars
  <2>1. /\ UNCHANGED <<cur, wrote, dropped>> /\ Domains' /\ \A h \in Harts : Untouched(h)
    BY <1>2 DEF P!vars, P!csrs, P!history, ModesInv, Domains, Untouched
  <2>2. \A h \in Harts : HartInv(h) => HartInv(h)'
    BY <2>1, OthersKeepHartInv
  <2>3. \A h \in Harts : Machine(h) => Machine(h)'
    BY <2>1 DEF Machine, Untouched, Levels, P!Depth
  <2> QED
    BY <2>1, <2>2, <2>3 DEF ModesInv
<1> QED
  BY <1>1, <1>2

\* bm_get_priv_mode() and bm_priv_enter_mode(): whatever code runs, the program or
\* a registered handler, in any nesting of traps and on any number of harts, runs
\* in the mode that bm_current_mode says and that was asked for, and its handlers
\* read the CSRs of their own mode, as long as no other hart sets the variable after
\* a drop; the program may be in the wrong mode, but no handler, if a trap came
\* while bm_priv_enter_mode() had the trap CSRs set up.
THEOREM ModesAccurate ==
    P!Spec => []ModeIsAccurate
<1>1. ASSUME ModesInv
      PROVE  ModeIsAccurate
  <2> SUFFICES ASSUME NEW h \in Harts, wrote \subseteq {h} \/ ~ dropped,
                      ~ (hit[h] /\ P!Depth(h) = 1)
               PROVE  P!Accurate(h)
    BY DEF ModeIsAccurate, P!ModeIsAccurate
  <2>1. HartInv(h)
    BY <1>1 DEF ModesInv
  <2> DEFINE f == P!Top(h)
  <2>2. /\ P!Depth(h) \in Nat \ {0} /\ f = stack[h][P!Depth(h)]
        /\ P!Depth(h) > 1 => f.at \in HandlerPlaces
    BY <2>1, TopIs
  <2>3. LastSet(stack[h], P!Depth(h), cur) /\ priv[h] = RunsIn(h, P!Depth(h))
    BY <2>1 DEF HartInv, Current
  <2>4. Sets(f) => cur = f.mode
    BY <2>2, <2>3, LastSetAtTop
  <2>5. CASE P!Depth(h) = 1
    <3>1. ~ hit[h] /\ f.at \in ProgramPlaces /\ f.at \notin {"lost", "fault"}
      BY <2>1, <2>2, <2>5 DEF HartInv, Nesting, Entered
    <3>2. f.at = "run" => priv[h] = f.mode
      BY <3>1, <2>2, <2>3, <2>5 DEF RunsIn, BaseMode, Entering
    <3> QED
      BY <3>1, <3>2, <2>4 DEF P!Accurate, Sets, ProgramPlaces, Entering
  <2>6. CASE P!Depth(h) # 1
    <3>1. f.at \in HandlerPlaces /\ priv[h] = f.mode
      BY <2>2, <2>3, <2>6 DEF RunsIn
    <3> QED
      BY <3>1, <2>4 DEF P!Accurate, Sets, HandlerPlaces
  <2> QED
    BY <2>5, <2>6
<1> QED
  BY <1>1, ModesInvInit, ModesInvStep, PTL DEF P!Spec

-----------------------------------------------------------------------------
(* The timer of wfi-demo: the inductive invariant.                         *)

Armed == {"reset", "check", "wfi", "asleep", "done"}

TimerTypes ==
    /\ rv32 \in BOOLEAN
    /\ mtime \in 0 .. MaxTime
    /\ mtimecmp \in Nat
    /\ pc \in SetStages \cup Armed \cup {"arm_first", "arm", "load", "enable", "puts"}
    /\ ipc \in SetStages \cup {"none", "rearm"}
    /\ half \in {"low", "high"} /\ word \in Nat
    /\ value \in Nat /\ ivalue \in Nat
    /\ due \in Nat /\ rearmed \in Nat

\* While the words of MTIMECMP are written, the value it holds is safe.
Storing(place, v) ==
    /\ place \in {"low", "high"} => High(mtimecmp) = W - 1
    /\ place = "high" => Low(mtimecmp) = Low(v)

TimerInv ==
    /\ TimerTypes
    /\ pc \in {"low", "high"} => ipc = "none"
    /\ Storing(pc, value) /\ Storing(ipc, ivalue)
    /\ pc \notin {"low", "high"} /\ ipc \notin {"low", "high"} => mtimecmp = due
    /\ pc \in Armed /\ ipc \in {"none", "rearm"} => mtimecmp = value + rearmed * Delay
    /\ pc \in Armed /\ ipc \in SetStages => ivalue = value + rearmed * Delay + Delay
-----------------------------------------------------------------------------
(* Lemmas about the two words of a register.                               *)

\* The words of a value are its words.
LEMMA WordsOfJoin ==
    ASSUME NEW l \in 0 .. W - 1, NEW u \in Nat
    PROVE  Join(l, u) \in Nat /\ Low(Join(l, u)) = l /\ High(Join(l, u)) = u
  BY ParamAssumption DEF Join, Low, High

\* A value is made of its words.
LEMMA JoinOfWords ==
    ASSUME NEW t \in Nat
    PROVE  Low(t) \in 0 .. W - 1 /\ High(t) \in Nat /\ Join(Low(t), High(t)) = t
  BY ParamAssumption DEF Join, Low, High

\* The safe high word is beyond any time that MTIME reaches.
LEMMA SafeIsSafe ==
    ASSUME TimerTypes, High(mtimecmp) = W - 1
    PROVE  ~ Pending
<1>1. mtimecmp \in Nat /\ mtime \in Nat /\ mtime <= MaxTime
  BY ParamAssumption DEF TimerTypes
<1>2. Low(mtimecmp) \in Nat /\ mtimecmp = High(mtimecmp) * W + Low(mtimecmp)
  BY <1>1, JoinOfWords DEF Join
<1>3. (W - 1) * W \in Int /\ MaxTime \in Int
  BY ParamAssumption
<1>4. mtimecmp >= (W - 1) * W
  BY <1>2, <1>3
<1> QED
  BY <1>1, <1>3, <1>4, ParamAssumption DEF Pending

\* The stores of bm_clint_set_mtimecmp(v): the last one leaves v, and those
\* before it a value that is safe.
LEMMA StoreStep ==
    ASSUME mtimecmp \in Nat, NEW v \in Nat, NEW place \in SetStages,
           Storing(place, v), SetStep(place, v)
    PROVE  /\ mtimecmp' \in Nat
           /\ place \in LastStages => mtimecmp' = v
           /\ place \notin LastStages =>
                 /\ NextStage(place) \in {"low", "high"}
                 /\ High(mtimecmp') = W - 1
                 /\ NextStage(place) = "high" => Low(mtimecmp') = Low(v)
<1> USE DEF SetStages, LastStages
<1>1. Low(mtimecmp) \in 0 .. W - 1 /\ Low(v) \in 0 .. W - 1
      /\ High(mtimecmp) \in Nat /\ High(v) \in Nat /\ W - 1 \in Nat
  BY JoinOfWords, ParamAssumption
<1>2. CASE place = "store"
  BY <1>2 DEF SetStep
<1>3. CASE place = "high_safe"
  <2>1. mtimecmp' = Join(Low(mtimecmp), W - 1)
    BY <1>3 DEF SetStep
  <2>2. mtimecmp' \in Nat /\ High(mtimecmp') = W - 1
    BY <2>1, <1>1, WordsOfJoin
  <2> QED
    BY <1>3, <2>2 DEF NextStage
<1>4. CASE place = "low"
  <2>1. mtimecmp' = Join(Low(v), High(mtimecmp)) /\ High(mtimecmp) = W - 1
    BY <1>4 DEF SetStep, Storing
  <2>2. mtimecmp' \in Nat /\ High(mtimecmp') = W - 1 /\ Low(mtimecmp') = Low(v)
    BY <2>1, <1>1, WordsOfJoin
  <2> QED
    BY <1>4, <2>2 DEF NextStage
<1>5. CASE place = "high"
  <2>1. mtimecmp' = Join(Low(v), High(v))
    BY <1>5 DEF SetStep, Storing
  <2> QED
    BY <1>5, <2>1, JoinOfWords
<1> QED
  BY <1>2, <1>3, <1>4, <1>5

\* Steps of main() that leave MTIMECMP alone.
LEMMA MainKeepsTimerInv ==
    ASSUME TimerInv,
           GetMtime \/ GetMtimeWord \/ GetMtimeOtherWord \/ Enable \/ Measure
              \/ ResetCounter \/ CheckCounter \/ Sleep
    PROVE  TimerInv'
<1>1. /\ ipc = "none" /\ pc \notin {"low", "high"}
      /\ pc' \notin {"low", "high"}
      /\ pc' \in Armed => pc \in Armed /\ value' = value
      /\ UNCHANGED <<rv32, mtime, mtimecmp, ipc, ivalue, due, rearmed>>
  BY DEF GetMtime, GetMtimeWord, GetMtimeOtherWord, Enable, Measure, ResetCounter,
         CheckCounter, Sleep, Main, HartStep, Armed, SetStart, config, handler, history
<1>2. TimerTypes'
  <2>1. /\ Low(mtime) \in Nat /\ High(mtime) \in Nat /\ mtime \in Nat
        /\ word \in Nat /\ value \in Nat
    <3>1. mtime \in Nat
      BY ParamAssumption DEF TimerInv, TimerTypes
    <3> QED
      BY <3>1, JoinOfWords DEF TimerInv, TimerTypes
  <2>2. value' \in Nat
    <3>1. Join(word, High(mtime)) \in Nat /\ Join(Low(mtime), word) \in Nat
      BY <2>1, ParamAssumption DEF Join
    <3> QED
      BY <2>1, <3>1, ParamAssumption
         DEF GetMtime, GetMtimeWord, GetMtimeOtherWord, Enable, Measure, ResetCounter,
             CheckCounter, Sleep
  <2>3. word' \in Nat /\ half' \in {"low", "high"}
    BY <2>1 DEF GetMtime, GetMtimeWord, GetMtimeOtherWord, Enable, Measure,
                ResetCounter, CheckCounter, Sleep, TimerInv, TimerTypes
  <2>4. pc' \in SetStages \cup Armed \cup {"arm_first", "arm", "load", "enable", "puts"}
    BY DEF GetMtime, GetMtimeWord, GetMtimeOtherWord, Enable, Measure,
           ResetCounter, CheckCounter, Sleep, Main, SetStart, SetStages, Armed
  <2> QED
    BY <1>1, <2>2, <2>3, <2>4 DEF TimerInv, TimerTypes
<1> QED
  BY <1>1, <1>2 DEF TimerInv, Storing, SetStages

\* A store of the first or the second arming.
LEMMA ArmStoreKeepsTimerInv ==
    ASSUME TimerInv, ArmStore
    PROVE  TimerInv'
<1>1. PICK place \in SetStages :
        /\ Main(place, IF place \notin LastStages THEN NextStage(place)
                       ELSE IF enabled THEN "reset" ELSE "enable")
        /\ SetStep(place, value)
        /\ due' = IF place \in LastStages THEN value ELSE due
        /\ rearmed' = IF place \in LastStages THEN 0 ELSE rearmed
  BY Zenon DEF ArmStore
<1>2. /\ pc = place /\ ipc = "none"
      /\ UNCHANGED <<rv32, mtime, ipc, ivalue, half, word, value>>
  BY <1>1 DEF ArmStore, Main, HartStep, config, handler
<1>3. TimerTypes /\ mtimecmp \in Nat /\ value \in Nat /\ Storing(place, value)
  BY <1>2 DEF TimerInv, TimerTypes
<1>4. /\ mtimecmp' \in Nat
      /\ place \in LastStages => mtimecmp' = value
      /\ place \notin LastStages =>
            /\ NextStage(place) \in {"low", "high"}
            /\ High(mtimecmp') = W - 1
            /\ NextStage(place) = "high" => Low(mtimecmp') = Low(value)
  BY <1>1, <1>3, StoreStep
<1>5. CASE place \in LastStages
  <2>1. pc' \in {"reset", "enable"} /\ due' = value /\ rearmed' = 0
    BY <1>1, <1>5 DEF Main
  <2>2. mtimecmp' = value
    BY <1>4, <1>5
  <2>3. value + 0 * Delay = value
    BY <1>3, ParamAssumption
  <2>4. TimerTypes'
    BY <1>2, <1>3, <2>1, <2>2 DEF TimerTypes, Armed
  <2> QED
    BY <1>2, <2>1, <2>2, <2>3, <2>4 DEF TimerInv, Storing, SetStages
<1>6. CASE place \notin LastStages
  <2>1. pc' = NextStage(place) /\ due' = due /\ rearmed' = rearmed
    BY <1>1, <1>6 DEF Main
  <2>2. pc' \in {"low", "high"} /\ Storing(pc, value)'
    BY <2>1, <1>2, <1>4, <1>6 DEF Storing, High, Low
  <2>3. TimerTypes'
    BY <1>2, <1>3, <1>4, <2>1, <2>2 DEF TimerTypes, SetStages
  <2> QED
    BY <1>2, <2>2, <2>3 DEF TimerInv, Storing, Armed
<1> QED
  BY <1>5, <1>6

\* The trap, which the safe value keeps away while the words are written.
LEMMA TakeTrapKeepsTimerInv ==
    ASSUME TimerInv, TakeTrap
    PROVE  TimerInv'
<1>1. /\ Pending /\ ipc = "none" /\ ipc' = "rearm"
      /\ pc' = IF pc = "asleep" THEN "check" ELSE pc
      /\ UNCHANGED <<rv32, mtime, mtimecmp, half, word, value, ivalue, due, rearmed>>
  BY DEF TakeTrap, HartStep, config, history
<1>2. pc \notin {"low", "high"}
  BY <1>1, SafeIsSafe DEF TimerInv, Storing
<1>3. pc' \notin {"low", "high"} /\ (pc' \in Armed <=> pc \in Armed)
  BY <1>1, <1>2 DEF Armed
<1>4. TimerTypes'
  BY <1>1 DEF TimerInv, TimerTypes, Armed
<1> QED
  BY <1>1, <1>2, <1>3, <1>4 DEF TimerInv, Storing, SetStages

\* The handler reads MTIMECMP and adds the delay.
LEMMA RearmKeepsTimerInv ==
    ASSUME TimerInv, Rearm
    PROVE  TimerInv'
<1>1. /\ ipc = "rearm" /\ ipc' \in {"high_safe", "store"}
      /\ ivalue' = mtimecmp + Delay
      /\ UNCHANGED <<rv32, mtime, mtimecmp, pc, half, word, value, due, rearmed>>
  BY DEF Rearm, Handler, HartStep, SetStart, config, history, program
<1>2. TimerTypes' /\ Delay \in Nat /\ mtimecmp \in Nat
  BY <1>1, ParamAssumption DEF TimerInv, TimerTypes, SetStages
<1>3. pc \in Armed => ivalue' = value + rearmed * Delay + Delay
  BY <1>1 DEF TimerInv
<1>4. pc \notin {"low", "high"}
  BY <1>1 DEF TimerInv
<1> QED
  BY <1>1, <1>2, <1>3, <1>4 DEF TimerInv, Storing

\* A store of the re-arming.
LEMMA RearmStoreKeepsTimerInv ==
    ASSUME TimerInv, RearmStore
    PROVE  TimerInv'
<1>1. PICK place \in SetStages :
        /\ Handler(place, IF place \in LastStages THEN "none" ELSE NextStage(place))
        /\ SetStep(place, ivalue)
        /\ due' = IF place \in LastStages THEN ivalue ELSE due
        /\ rearmed' = IF place \in LastStages THEN rearmed + 1 ELSE rearmed
  BY Zenon DEF RearmStore
<1>2. /\ ipc = place
      /\ UNCHANGED <<rv32, mtime, pc, ivalue, half, word, value>>
  BY <1>1 DEF RearmStore, Handler, HartStep, config, program
<1>3. /\ TimerTypes /\ mtimecmp \in Nat /\ ivalue \in Nat /\ Storing(place, ivalue)
      /\ value \in Nat /\ rearmed \in Nat /\ Delay \in Nat
  BY <1>2, ParamAssumption DEF TimerInv, TimerTypes
<1>4. /\ mtimecmp' \in Nat
      /\ place \in LastStages => mtimecmp' = ivalue
      /\ place \notin LastStages =>
            /\ NextStage(place) \in {"low", "high"}
            /\ High(mtimecmp') = W - 1
            /\ NextStage(place) = "high" => Low(mtimecmp') = Low(ivalue)
  BY <1>1, <1>3, StoreStep
<1>5. pc \notin {"low", "high"}
  BY <1>2 DEF TimerInv, SetStages
<1>6. CASE place \in LastStages
  <2>1. ipc' = "none" /\ due' = ivalue /\ rearmed' = rearmed + 1
    BY <1>1, <1>6 DEF Handler
  <2>2. mtimecmp' = ivalue
    BY <1>4, <1>6
  <2>3. pc \in Armed => ivalue = value + rearmed * Delay + Delay
    BY <1>2 DEF TimerInv
  <2>4. (rearmed + 1) * Delay = rearmed * Delay + Delay /\ rearmed * Delay \in Nat
    BY <1>3
  <2>5. pc \in Armed => mtimecmp' = value + rearmed' * Delay
    BY <1>3, <2>1, <2>2, <2>3, <2>4
  <2>6. TimerTypes'
    BY <1>2, <1>3, <2>1, <2>2 DEF TimerTypes
  <2> QED
    BY <1>2, <1>5, <2>1, <2>2, <2>5, <2>6 DEF TimerInv, Storing, SetStages
<1>7. CASE place \notin LastStages
  <2>1. ipc' = NextStage(place) /\ due' = due /\ rearmed' = rearmed
    BY <1>1, <1>7 DEF Handler
  <2>2. ipc' \in {"low", "high"} /\ Storing(ipc, ivalue)'
    BY <2>1, <1>2, <1>4, <1>7 DEF Storing, High, Low
  <2>3. TimerTypes'
    BY <1>2, <1>3, <1>4, <2>1, <2>2 DEF TimerTypes, SetStages
  <2>4. pc \in Armed => ivalue = value + rearmed * Delay + Delay
    BY <1>2 DEF TimerInv
  <2> QED
    BY <1>2, <1>5, <2>1, <2>2, <2>3, <2>4 DEF TimerInv, Storing, SetStages
<1> QED
  BY <1>6, <1>7

\* The invariant holds on every execution.
LEMMA TimerInvHolds == Spec => []TimerInv
<1>1. Init => TimerInv
  <2> SUFFICES ASSUME Init
               PROVE  TimerInv
    OBVIOUS
  <2>1. W * W - 1 \in Nat
    BY ParamAssumption
  <2>2. TimerTypes
    BY <2>1, ParamAssumption DEF Init, TimerTypes
  <2> QED
    BY <2>2 DEF Init, TimerInv, Storing, Armed
<1>2. TimerInv /\ [Next]_vars => TimerInv'
  <2> SUFFICES ASSUME TimerInv, [Next]_vars
               PROVE  TimerInv'
    OBVIOUS
  <2>1. CASE Tick
    <3>1. /\ mtime' \in 0 .. MaxTime
          /\ UNCHANGED <<rv32, mtimecmp, pc, half, word, value, ipc, ivalue, due, rearmed>>
      BY <2>1, ParamAssumption
         DEF Tick, TimerInv, TimerTypes, config, program, handler, history
    <3> QED
      BY <3>1 DEF TimerInv, TimerTypes, Storing, High, Low
  <2>2. CASE MainStep
    BY <2>2, MainKeepsTimerInv, ArmStoreKeepsTimerInv DEF MainStep
  <2>3. CASE TakeTrap \/ Rearm \/ RearmStore
    BY <2>3, TakeTrapKeepsTimerInv, RearmKeepsTimerInv, RearmStoreKeepsTimerInv
  <2>4. CASE UNCHANGED vars
    BY <2>4 DEF vars, config, regs, program, handler, history, TimerInv, TimerTypes,
                Storing, High, Low
  <2> QED
    BY <2>1, <2>2, <2>3, <2>4 DEF Next, Hart, Done
<1> QED
  BY <1>1, <1>2, PTL DEF Spec

\* The comment of bm_clint_set_mtimecmp(), "Write a safe value to high word first
\* to eliminate possible interrupt occurring in the middle": an interrupt is
\* pending only from a time some call asked for, on any width of the words and
\* however the two calls of main() and those of the handler interleave.
THEOREM InterruptsAreDue == Spec => []NoStrayInterrupt
<1>1. TimerInv => NoStrayInterrupt
  <2> SUFFICES ASSUME TimerInv, Pending
               PROVE  mtime >= due
    BY DEF NoStrayInterrupt
  <2>1. pc \notin {"low", "high"} /\ ipc \notin {"low", "high"}
    BY SafeIsSafe DEF TimerInv, Storing
  <2> QED
    BY <2>1 DEF TimerInv, Pending
<1> QED
  BY <1>1, TimerInvHolds, PTL

\* clint.h, bm_clint_rearm_timer(), "so that it triggers after a specific delay
\* from the last trigger": the triggers are Delay apart, however late the handler
\* comes, for any Delay.
THEOREM TriggersDoNotDrift == Spec => []NoDrift
<1>1. TimerInv => NoDrift
  BY DEF TimerInv, NoDrift, Armed
<1> QED
  BY <1>1, TimerInvHolds, PTL
-----------------------------------------------------------------------------
(* External interrupts: the inductive invariant.                           *)

InHandler == stage \in {"handle", "read", "toggle", "complete"}

\* The statements of the demos: that of the PIC raises its requests itself, the
\* others by way of a GPIO.
Commands(ops) == {<<op, s>> : op \in ops, s \in X!Sources}
Settings == {<<"mie", b>> : b \in BOOLEAN} \cup {<<"meie", TRUE>>}
Priorities == {<<"priority", s, n>> : s \in X!Sources, n \in Nat}
FlagStatements == Settings \cup Commands({"enable", "disable", "flag"})
GpioStatements ==
    Settings \cup Priorities \cup {<<"threshold", n>> : n \in Nat} \cup
    Commands({"handler", "generate", "fire", "clear", "enable", "disable", "led_on", "led_off"})
    \cup {<<"clic_init">>}
StatementsOf(d) == IF d = "pic_interrupts" THEN FlagStatements ELSE GpioStatements

\* Is there a request of s whose handler has still to run?  One whose handler is
\* past its output is not, until IPISR has been cleared; the flag of a PIC stays
\* until the handler returns.
Flagged(s) == s \in pending /\ ~ (X!Pic /\ stage = "complete" /\ irq = s)
Owed(s) ==
    \/ stage = "handle" /\ irq = s
    \/ (s \in ipisr \/ Flagged(s)) /\ ~ (stage \in {"read", "toggle"} /\ irq = s)

IrqTypes ==
    /\ demo \in Demos /\ xpc \in Nat \ {0}
    /\ stage \in {"none", "claim", "handle", "read", "toggle", "complete", "fatal"}
    /\ irq \in X!Sources
    /\ prio \in [X!Sources -> Nat]
    /\ pending \subseteq X!Sources /\ ipisr \subseteq X!Sources
    /\ raised \in [X!Sources -> Nat]
    /\ log \in Seq(X!Sources)

\* What the controller and the device hold, at each place of the handler.
Latched ==
    /\ X!Plic => pending \cap serving = {} /\ (InHandler => irq \in serving)
    /\ X!Clic => pending = ipisr \cap generating
    /\ demo = "pic_interrupts" => ipisr = {}
    /\ stage = "toggle" => irq \in ipisr

Counted(s) == X!Handled(s) + (IF Owed(s) THEN 1 ELSE 0) <= raised[s]

IrqInv == IrqTypes /\ Latched /\ \A s \in X!Sources : Counted(s)
-----------------------------------------------------------------------------
LEMMA SeqConcat ==
    ASSUME NEW S, NEW s \in Seq(S), NEW t \in Seq(S)
    PROVE  s \o t \in Seq(S)
OBVIOUS

LEMMA GpioInitTyped ==
    ASSUME NEW s \in X!Sources, NEW plic \in BOOLEAN
    PROVE  /\ X!ExtIrqEnable(s, plic) \in Seq(GpioStatements)
           /\ X!GpioInitIrq(s, plic) \in Seq(GpioStatements)
<1> DEFINE e == <<"enable", s>>
           p == <<"priority", s, 1>>
           g == <<"generate", s>>
           c == <<"clear", s>>
<1>1. {e, g, c} \subseteq GpioStatements
  BY DEF GpioStatements, Commands
<1>2. p \in GpioStatements
  BY DEF GpioStatements, Priorities
<1> HIDE DEF e, p, g, c
<1>3. <<e>> \in Seq(GpioStatements) /\ <<p>> \in Seq(GpioStatements) /\ <<>> \in Seq(GpioStatements)
      /\ <<g, c>> \in Seq(GpioStatements)
  BY <1>1, <1>2
<1>4. <<e>> \o (IF plic THEN <<p>> ELSE <<>>) \in Seq(GpioStatements)
  BY <1>3, SeqConcat
<1>5. X!ExtIrqEnable(s, plic) \in Seq(GpioStatements)
  BY <1>4 DEF X!ExtIrqEnable, e, p
<1>6. X!GpioInitIrq(s, plic) = <<g, c>> \o X!ExtIrqEnable(s, plic)
  BY DEF X!GpioInitIrq, g, c
<1> QED
  BY <1>3, <1>5, <1>6, SeqConcat

LEMMA InterruptsTyped ==
    ASSUME NEW e \in Seq(GpioStatements)
    PROVE  X!Interrupts(e) \in Seq(GpioStatements)
<1> DEFINE f == <<"fire", 0>>
           d == <<"disable", 0>>
<1>1. f \in GpioStatements /\ d \in GpioStatements
  BY DEF GpioStatements, Commands, X!Sources
<1> HIDE DEF f, d
<1>2. <<f, d, f>> \in Seq(GpioStatements)
  BY <1>1
<1>3. e \o <<f, d, f>> \in Seq(GpioStatements)
  BY <1>2, SeqConcat
<1>4. e \o <<f, d, f>> \o e \in Seq(GpioStatements)
  BY <1>3, SeqConcat
<1> QED
  BY <1>4 DEF X!Interrupts, f, d

LEMMA TestPriorityTyped ==
    ASSUME NEW n \in Nat, NEW m \in Nat, NEW t \in Nat
    PROVE  X!TestPriority(n, m, t) \in Seq(GpioStatements)
<1> DEFINE a == <<"threshold", t>>
           b == <<"priority", 0, n>>
           c == <<"priority", 1, m>>
           d == <<"fire", 0>>
           e == <<"fire", 1>>
           f == <<"mie", TRUE>>
           g == <<"mie", FALSE>>
<1>1. a \in GpioStatements
  BY DEF GpioStatements
<1>2. b \in GpioStatements /\ c \in GpioStatements
  BY DEF GpioStatements, Priorities, X!Sources
<1>3. d \in GpioStatements /\ e \in GpioStatements
  BY DEF GpioStatements, Commands, X!Sources
<1>4. f \in GpioStatements /\ g \in GpioStatements
  BY DEF GpioStatements, Settings
<1> HIDE DEF a, b, c, d, e, f, g
<1>5. <<a, b, c>> \in Seq(GpioStatements) /\ <<d, e, f, g>> \in Seq(GpioStatements)
  BY <1>1, <1>2, <1>3, <1>4
<1>6. <<a, b, c>> \o <<d, e, f, g>> \in Seq(GpioStatements)
  BY <1>5, SeqConcat
<1> QED
  BY <1>6 DEF X!TestPriority, X!FireBoth, a, b, c, d, e, f, g

\* The loop of gpio-interrupt-demo is its last statement.
LEMMA GpioMainTyped ==
    ASSUME NEW plic \in BOOLEAN
    PROVE  \E body \in Seq(GpioStatements) :
              X!GpioMain(plic) = body \o <<<<"loop">>>> /\ Len(body) >= 3
<1> DEFINE a == <<"mie", TRUE>>
           b == <<"handler", 0>>
           c == <<"meie", TRUE>>
           d == <<"fire", 0>>
           e == <<"led_on", 0>>
           f == <<"led_off", 0>>
           g == <<"led_off", 1>>
           l == <<"loop">>
           i == X!GpioInitIrq(0, plic)
           body == <<a, b, c>> \o i \o <<d, e, f, g>>
<1>1. a \in GpioStatements /\ c \in GpioStatements
  BY DEF GpioStatements, Settings
<1>2. {b, d, e, f, g} \subseteq GpioStatements
  BY DEF GpioStatements, Commands, X!Sources
<1>3. i \in Seq(GpioStatements)
  BY GpioInitTyped DEF X!Sources
<1>4. X!GpioMain(plic) = <<a, b, c>> \o i \o <<d, e, f, g, l>>
  BY DEF X!GpioMain
<1> HIDE DEF a, b, c, d, e, f, g, i, l
<1>5. <<a, b, c>> \in Seq(GpioStatements) /\ <<d, e, f, g>> \in Seq(GpioStatements)
  BY <1>1, <1>2
<1>6. <<a, b, c>> \o i \in Seq(GpioStatements) /\ Len(<<a, b, c>> \o i) = 3 + Len(i)
  BY <1>3, <1>5
<1>7. body \in Seq(GpioStatements) /\ Len(body) = 3 + Len(i) + 4
  BY <1>5, <1>6
<1>8. <<d, e, f, g, l>> = <<d, e, f, g>> \o <<l>>
  OBVIOUS
<1>9. ASSUME NEW S, NEW r \in Seq(S), NEW s \in Seq(S), NEW t \in Seq(S)
      PROVE  r \o (s \o t) = (r \o s) \o t
  OBVIOUS
<1>10. /\ <<a, b, c>> \o i \in Seq(GpioStatements \cup {l})
       /\ <<d, e, f, g>> \in Seq(GpioStatements \cup {l})
       /\ <<l>> \in Seq(GpioStatements \cup {l})
  BY <1>5, <1>6
<1>11. (<<a, b, c>> \o i) \o (<<d, e, f, g>> \o <<l>>) = body \o <<l>>
  BY <1>9, <1>10
<1>12. Len(i) \in Nat
  BY <1>3
<1>13. X!GpioMain(plic) = body \o <<l>>
  BY <1>4, <1>8, <1>11
<1>14. Len(body) >= 3
  BY <1>7, <1>12
<1> HIDE DEF body
<1> QED
  BY <1>7, <1>13, <1>14 DEF l

\* The statements of every demo are of the kinds above; only that of
\* gpio-interrupt-demo has a loop.
LEMMA ProgramTyped ==
    ASSUME NEW d \in DOMAIN X!Program
    PROVE  \/ X!Program[d] \in Seq(StatementsOf(d))
           \/ /\ d # "pic_interrupts"
              /\ \E body \in Seq(GpioStatements) :
                    X!Program[d] = body \o <<<<"loop">>>> /\ Len(body) >= 3
<1> DEFINE on == <<"mie", TRUE>>
           ext == <<"meie", TRUE>>
           clic == <<"clic_init">>
<1>1. on \in GpioStatements /\ ext \in GpioStatements /\ clic \in GpioStatements
  BY DEF GpioStatements, Settings
<1>2. /\ X!GpioInitIrq(0, TRUE) \in Seq(GpioStatements)
      /\ X!GpioInitIrq(1, TRUE) \in Seq(GpioStatements)
      /\ X!GpioInitIrq(0, FALSE) \in Seq(GpioStatements)
      /\ X!GpioInitIrq(1, FALSE) \in Seq(GpioStatements)
      /\ X!ExtIrqEnable(0, TRUE) \in Seq(GpioStatements)
      /\ X!ExtIrqEnable(0, FALSE) \in Seq(GpioStatements)
  BY GpioInitTyped DEF X!Sources
<1>3. /\ X!Interrupts(X!ExtIrqEnable(0, TRUE)) \in Seq(GpioStatements)
      /\ X!Interrupts(X!ExtIrqEnable(0, FALSE)) \in Seq(GpioStatements)
  BY <1>2, InterruptsTyped
<1> DEFINE G == Seq(GpioStatements)
<1>4. <<on>> \in G /\ <<ext>> \in G /\ <<clic>> \in G
  BY <1>1
<1>5. CASE d = "plic_interrupts"
  <2>1. X!Program[d] = <<on>> \o X!GpioInitIrq(0, TRUE) \o <<ext>>
                       \o X!Interrupts(X!ExtIrqEnable(0, TRUE))
    BY <1>5 DEF X!Program
  <2> HIDE DEF on, ext, clic
  <2>2. <<on>> \o X!GpioInitIrq(0, TRUE) \in G
    BY <1>2, <1>4, SeqConcat
  <2>3. <<on>> \o X!GpioInitIrq(0, TRUE) \o <<ext>> \in G
    BY <1>4, <2>2, SeqConcat
  <2>4. X!Program[d] \in G
    BY <1>3, <2>1, <2>3, SeqConcat
  <2> QED
    BY <1>5, <2>4 DEF StatementsOf
<1>6. CASE d = "plic_priority"
  <2> DEFINE i == <<on>> \o X!GpioInitIrq(0, TRUE)
             j == i \o X!GpioInitIrq(1, TRUE)
             k == j \o <<ext>>
             t1 == k \o X!TestPriority(1, 1, 0)
             t2 == t1 \o X!TestPriority(1, 2, 1)
             t3 == t2 \o X!TestPriority(2, 1, 0)
             t4 == t3 \o X!TestPriority(1, 2, 0)
  <2>1. X!Program[d] = t4
    BY <1>6 DEF X!Program
  <2> HIDE DEF on, ext, clic
  <2>2. /\ X!TestPriority(1, 1, 0) \in G /\ X!TestPriority(1, 2, 1) \in G
        /\ X!TestPriority(2, 1, 0) \in G /\ X!TestPriority(1, 2, 0) \in G
    BY TestPriorityTyped
  <2>3. i \in G
    BY <1>2, <1>4, SeqConcat
  <2> HIDE DEF i
  <2>4. j \in G
    BY <1>2, <2>3, SeqConcat
  <2> HIDE DEF j
  <2>5. k \in G
    BY <1>4, <2>4, SeqConcat
  <2> HIDE DEF k
  <2>6. t1 \in G
    BY <2>2, <2>5, SeqConcat
  <2> HIDE DEF t1
  <2>7. t2 \in G
    BY <2>2, <2>6, SeqConcat
  <2> HIDE DEF t2
  <2>8. t3 \in G
    BY <2>2, <2>7, SeqConcat
  <2> HIDE DEF t3
  <2>9. t4 \in G
    BY <2>2, <2>8, SeqConcat
  <2> QED
    BY <1>6, <2>1, <2>9 DEF StatementsOf
<1>7. CASE d = "pic_interrupts"
  <2> DEFINE e == <<"enable", 0>>
             f == <<"flag", 0>>
             o == <<"disable", 0>>
  <2>1. X!Program[d] = <<on, ext, e, f, o, f, e>>
    BY <1>7 DEF X!Program
  <2>2. on \in FlagStatements /\ ext \in FlagStatements
    BY DEF FlagStatements, Settings
  <2>3. e \in FlagStatements /\ f \in FlagStatements /\ o \in FlagStatements
    BY DEF FlagStatements, Commands, X!Sources
  <2> HIDE DEF on, ext, e, f, o
  <2>4. <<on, ext, e, f, o, f, e>> \in Seq(FlagStatements)
    BY <2>2, <2>3
  <2> QED
    BY <1>7, <2>1, <2>4 DEF StatementsOf
<1>8. CASE d = "clic_interrupts"
  <2>1. X!Program[d] = <<clic>> \o X!GpioInitIrq(0, FALSE) \o <<on>>
                       \o X!Interrupts(X!ExtIrqEnable(0, FALSE))
    BY <1>8 DEF X!Program
  <2> HIDE DEF on, ext, clic
  <2>2. <<clic>> \o X!GpioInitIrq(0, FALSE) \in G
    BY <1>2, <1>4, SeqConcat
  <2>3. <<clic>> \o X!GpioInitIrq(0, FALSE) \o <<on>> \in G
    BY <1>4, <2>2, SeqConcat
  <2>4. X!Program[d] \in G
    BY <1>3, <2>1, <2>3, SeqConcat
  <2> QED
    BY <1>8, <2>4 DEF StatementsOf
<1>9. CASE d = "clic_priority"
  <2> DEFINE e == <<"enable", 0>>
             f == <<"enable", 1>>
             i == <<clic>> \o X!GpioInitIrq(0, FALSE)
             j == i \o X!GpioInitIrq(1, FALSE)
             k == j \o <<e, f>>
             t1 == k \o X!TestPriority(255, 127, 0)
             t2 == t1 \o X!TestPriority(127, 255, 0)
  <2>1. X!Program[d] = t2
    BY <1>9 DEF X!Program
  <2>2. e \in GpioStatements /\ f \in GpioStatements
    BY DEF GpioStatements, Commands, X!Sources
  <2> HIDE DEF on, ext, clic, e, f
  <2>3. <<e, f>> \in G
    BY <2>2
  <2>4. X!TestPriority(255, 127, 0) \in G /\ X!TestPriority(127, 255, 0) \in G
    BY TestPriorityTyped
  <2>5. i \in G
    BY <1>2, <1>4, SeqConcat
  <2> HIDE DEF i
  <2>6. j \in G
    BY <1>2, <2>5, SeqConcat
  <2> HIDE DEF j
  <2>7. k \in G
    BY <2>3, <2>6, SeqConcat
  <2> HIDE DEF k
  <2>8. t1 \in G
    BY <2>4, <2>7, SeqConcat
  <2> HIDE DEF t1
  <2>9. t2 \in G
    BY <2>4, <2>8, SeqConcat
  <2> QED
    BY <1>9, <2>1, <2>9 DEF StatementsOf
<1>10. CASE d = "gpio_plic"
  <2>1. X!Program[d] = X!GpioMain(TRUE)
    BY <1>10 DEF X!Program
  <2> QED
    BY <1>10, <2>1, GpioMainTyped
<1>11. CASE d = "gpio_pic"
  <2>1. X!Program[d] = X!GpioMain(FALSE)
    BY <1>11 DEF X!Program
  <2> QED
    BY <1>11, <2>1, GpioMainTyped
<1>12. CASE d = "gpio_clic"
  <2>1. X!Program[d] = <<clic>> \o X!GpioMain(FALSE)
    BY <1>12 DEF X!Program
  <2>2. PICK body \in G : X!GpioMain(FALSE) = body \o <<<<"loop">>>> /\ Len(body) >= 3
    BY GpioMainTyped
  <2> DEFINE l == <<"loop">>
  <2> HIDE DEF on, ext, clic, l
  <2>3. <<clic>> \o body \in G /\ Len(<<clic>> \o body) >= 3
    BY <1>4, <2>2
  <2>4. ASSUME NEW S, NEW r \in Seq(S), NEW s \in Seq(S), NEW t \in Seq(S)
        PROVE  r \o (s \o t) = (r \o s) \o t
    OBVIOUS
  <2>5. /\ <<clic>> \in Seq(GpioStatements \cup {l}) /\ body \in Seq(GpioStatements \cup {l})
        /\ <<l>> \in Seq(GpioStatements \cup {l})
    BY <1>1
  <2>6. <<clic>> \o (body \o <<l>>) = (<<clic>> \o body) \o <<l>>
    BY <2>4, <2>5
  <2>7. X!Program[d] = (<<clic>> \o body) \o <<l>>
    BY <2>1, <2>2, <2>6 DEF l
  <2> QED
    BY <1>12, <2>3, <2>7 DEF l
<1> QED
  BY <1>5, <1>6, <1>7, <1>8, <1>9, <1>10, <1>11, <1>12 DEF X!Program

\* What a statement that runs is, and what it can be about.
LEMMA StatementTyped ==
    ASSUME IrqTypes, NEW op, NEW k, X!At(op, k)
    PROVE  /\ stage = "none" /\ X!Statement[1] = op
           /\ \/ X!Statement \in StatementsOf(demo)
              \/ X!Statement = <<"loop">> /\ xpc > 3 /\ demo # "pic_interrupts"
<1>1. /\ stage = "none" /\ X!Statement[1] = op /\ xpc \in Nat \ {0}
      /\ xpc <= Len(X!Program[demo]) /\ demo \in DOMAIN X!Program
  BY ExtIrqAssumption DEF X!At, IrqTypes
<1>2. CASE X!Program[demo] \in Seq(StatementsOf(demo))
  <2>1. X!Program[demo][xpc] \in StatementsOf(demo)
    BY <1>1, <1>2
  <2> QED
    BY <1>1, <2>1 DEF X!Statement
<1>3. CASE /\ demo # "pic_interrupts"
           /\ \E body \in Seq(GpioStatements) :
                 X!Program[demo] = body \o <<<<"loop">>>> /\ Len(body) >= 3
  <2> DEFINE l == <<"loop">>
  <2>1. PICK body \in Seq(GpioStatements) :
               X!Program[demo] = body \o <<l>> /\ Len(body) >= 3
    BY <1>3
  <2> HIDE DEF l
  <2>2. Len(X!Program[demo]) = Len(body) + 1 /\ Len(body) \in Nat
    BY <2>1
  <2>3. CASE xpc <= Len(body)
    <3>1. X!Program[demo][xpc] = body[xpc] /\ body[xpc] \in GpioStatements
      BY <1>1, <2>1, <2>3
    <3> QED
      BY <1>1, <1>3, <3>1 DEF X!Statement, StatementsOf
  <2>4. CASE xpc = Len(body) + 1
    <3>1. X!Program[demo][xpc] = l
      BY <1>1, <2>1, <2>4
    <3> QED
      BY <1>1, <1>3, <2>1, <2>2, <2>4, <3>1 DEF X!Statement, l
  <2> QED
    BY <1>1, <2>2, <2>3, <2>4
<1> QED
  BY <1>1, <1>2, <1>3, ProgramTyped

LEMMA Operands ==
    ASSUME IrqTypes, NEW op, NEW k, X!At(op, k)
    PROVE  /\ op \in {"enable", "disable", "generate", "fire", "clear", "flag", "priority"} =>
                 X!Arg \in X!Sources
           /\ op = "priority" => X!Statement[3] \in Nat
           /\ op \in {"generate", "fire", "clear"} => demo # "pic_interrupts"
           /\ op = "flag" => demo = "pic_interrupts"
           /\ op = "loop" => xpc > 3
<1>1. X!Statement[1] = op
  BY StatementTyped
<1>2. CASE \E ops : /\ X!Statement \in Commands(ops) /\ "priority" \notin ops /\ "loop" \notin ops
                    /\ "flag" \in ops => demo = "pic_interrupts"
                    /\ ops \cap {"generate", "fire", "clear"} # {} => demo # "pic_interrupts"
  <2>1. PICK ops : /\ X!Statement \in Commands(ops)
                   /\ "priority" \notin ops /\ "loop" \notin ops
                   /\ "flag" \in ops => demo = "pic_interrupts"
                   /\ ops \cap {"generate", "fire", "clear"} # {} => demo # "pic_interrupts"
    BY <1>2
  <2>2. PICK o \in ops, s \in X!Sources : X!Statement = <<o, s>>
    BY <2>1 DEF Commands
  <2>3. op = o /\ X!Arg = s
    BY <1>1, <2>2 DEF X!Arg
  <2> QED
    BY <2>1, <2>3
<1>3. CASE X!Statement \in Settings \cup {<<"clic_init">>} \cup {<<"threshold", n>> : n \in Nat}
  <2>1. CASE X!Statement \in Settings
    <3>1. X!Statement = <<"meie", TRUE>> \/ \E b \in BOOLEAN : X!Statement = <<"mie", b>>
      BY <2>1 DEF Settings
    <3>2. CASE X!Statement = <<"meie", TRUE>>
      BY <1>1, <3>2
    <3>3. CASE \E b \in BOOLEAN : X!Statement = <<"mie", b>>
      <4>1. PICK b \in BOOLEAN : X!Statement = <<"mie", b>>
        BY <3>3
      <4> QED
        BY <1>1, <4>1
    <3> QED
      BY <3>1, <3>2, <3>3
  <2>2. CASE X!Statement = <<"clic_init">>
    <3>1. op = "clic_init"
      BY <1>1, <2>2
    <3> QED
      BY <3>1
  <2>3. CASE X!Statement \in {<<"threshold", n>> : n \in Nat}
    <3>1. op = "threshold"
      BY <1>1, <2>3
    <3> QED
      BY <3>1
  <2> QED
    BY <1>3, <2>1, <2>2, <2>3
<1>4. CASE X!Statement \in Priorities
  <2>1. PICK s \in X!Sources, n \in Nat : X!Statement = <<"priority", s, n>>
    BY <1>4 DEF Priorities
  <2> QED
    BY <1>1, <2>1 DEF X!Arg
<1>5. CASE X!Statement = <<"loop">> /\ xpc > 3 /\ demo # "pic_interrupts"
  BY <1>1, <1>5
<1>6. CASE X!Statement \in FlagStatements /\ demo = "pic_interrupts"
  BY <1>2, <1>3, <1>6 DEF FlagStatements
<1>7. CASE X!Statement \in GpioStatements /\ demo # "pic_interrupts"
  <2>1. "flag" \notin {"handler", "generate", "fire", "clear", "enable", "disable",
                       "led_on", "led_off"}
    OBVIOUS
  <2> QED
    BY <1>2, <1>3, <1>4, <1>7, <2>1 DEF GpioStatements
<1> QED
  BY <1>5, <1>6, <1>7, StatementTyped DEF StatementsOf

\* What the controller answers is one of the sources asked about.
LEMMA FirstIsOne ==
    ASSUME IrqTypes, NEW S \in SUBSET X!Sources, S # {}
    PROVE  X!First(S) \in S
<1> DEFINE top == {s \in S : X!Pic \/ \A t \in S : prio[t] <= prio[s]}
<1>1. prio[0] \in Nat /\ prio[1] \in Nat
  BY DEF IrqTypes, X!Sources
<1>2. S = {0} \/ S = {1} \/ S = {0, 1}
  BY DEF X!Sources
<1>3. top # {} /\ top \subseteq S
  BY <1>1, <1>2
<1> HIDE DEF top
<1>4. top = {0} \/ top = {1} \/ top = {0, 1}
  BY <1>2, <1>3
<1>5. \E s \in top : \A t \in top : IF X!Clic THEN t <= s ELSE s <= t
  BY <1>4
<1>6. X!First(S) = CHOOSE s \in top : \A t \in top : IF X!Clic THEN t <= s ELSE s <= t
  BY DEF X!First, top
<1>7. X!First(S) \in top
  BY <1>5, <1>6
<1> QED
  BY <1>3, <1>7

LEMMA HandledTyped ==
    ASSUME log \in Seq(X!Sources), NEW s
    PROVE  X!Handled(s) \in Nat
<1> DEFINE T == {i \in DOMAIN log : log[i] = s}
<1>1. DOMAIN log = 1 .. Len(log) /\ Len(log) \in Nat
  OBVIOUS
<1>2. IsFiniteSet(1 .. Len(log)) /\ T \subseteq 1 .. Len(log)
  BY <1>1, FS_Interval
<1>3. IsFiniteSet(T)
  BY <1>2, FS_Subset
<1>4. X!Handled(s) = Cardinality(T)
  <2>1. \A S : X!Cardinality(S) = Cardinality(S)
    BY DEF X!Cardinality, Cardinality, X!IsFiniteSet, IsFiniteSet
  <2> QED
    BY <2>1, Zenon DEF X!Handled
<1> QED
  BY <1>3, <1>4, FS_CardinalityType

\* One more handler has run.
LEMMA HandledOnce ==
    ASSUME log \in Seq(X!Sources), irq \in X!Sources, log' = Append(log, irq)
    PROVE  \A s \in X!Sources :
              /\ X!Handled(s) \in Nat
              /\ X!Handled(s)' = IF s = irq THEN X!Handled(s) + 1 ELSE X!Handled(s)
<1> TAKE s \in X!Sources
<1> DEFINE T == {i \in DOMAIN log : log[i] = s}
           U == {i \in DOMAIN log' : log'[i] = s}
           n == Len(log) + 1
<1>1. DOMAIN log = 1 .. Len(log) /\ DOMAIN log' = 1 .. n /\ Len(log) \in Nat
  OBVIOUS
<1>2. \A i \in 1 .. Len(log) : log'[i] = log[i]
  OBVIOUS
<1>3. log'[n] = irq
  OBVIOUS
<1>4. T \subseteq 1 .. Len(log)
  BY <1>1
<1>5. IsFiniteSet(T) /\ n \notin T
  <2>1. IsFiniteSet(1 .. Len(log))
    BY <1>1, FS_Interval
  <2> QED
    BY <1>1, <1>4, <2>1, FS_Subset
<1>6. U = IF s = irq THEN T \cup {n} ELSE T
  BY <1>1, <1>2, <1>3
<1>7. X!Handled(s) = Cardinality(T) /\ X!Handled(s)' = Cardinality(U)
  <2>1. \A S : X!Cardinality(S) = Cardinality(S)
    BY DEF X!Cardinality, Cardinality, X!IsFiniteSet, IsFiniteSet
  <2> QED
    BY <2>1, Zenon DEF X!Handled
<1> HIDE DEF T, U, n
<1> QED
  BY <1>5, <1>6, <1>7, FS_AddElement, FS_CardinalityType

\* A step that has nothing to do with a request.
LEMMA QuietStep ==
    ASSUME IrqInv,
           UNCHANGED <<demo, stage, irq, pending, ipisr, serving, generating, raised, log>>,
           xpc' \in Nat \ {0}, prio' \in [X!Sources -> Nat]
    PROVE  IrqInv'
<1>1. IrqTypes'
  BY DEF IrqInv, IrqTypes
<1>2. Latched'
  BY DEF IrqInv, Latched, InHandler, X!Plic, X!Clic, X!Pic
<1>3. \A s \in X!Sources : Counted(s)'
  BY DEF IrqInv, Counted, Owed, Flagged, X!Pic, X!Handled
<1> QED
  BY <1>1, <1>2, <1>3 DEF IrqInv

LEMMA QuietStatements ==
    ASSUME IrqInv,
           \/ X!SetMie \/ X!SetMeie \/ X!SetHandler \/ X!ReadIpisr \/ X!ReadEnables
           \/ X!WriteEnables \/ X!SetPriority \/ X!SetThreshold \/ X!ClicInit
           \/ X!LoadShadow \/ X!StoreShadow \/ X!StoreData \/ X!Loop
    PROVE  IrqInv'
<1> DEFINE Quiet == /\ UNCHANGED <<demo, stage, irq, pending, ipisr, serving, generating, raised, log>>
                    /\ xpc' \in Nat \ {0} /\ prio' \in [X!Sources -> Nat]
<1>1. xpc \in Nat \ {0} /\ xpc + 1 \in Nat \ {0} /\ prio \in [X!Sources -> Nat]
  BY DEF IrqInv, IrqTypes
<1> USE DEF X!GoTo, X!Done, X!More, X!vars, X!main, X!hart, X!ctl, X!line, X!led, X!hist
<1>2. CASE X!SetMie \/ X!SetMeie \/ X!SetHandler
  <2>1. Quiet
    BY <1>1, <1>2 DEF X!SetMie, X!SetMeie, X!SetHandler
  <2> QED
    BY <2>1, QuietStep
<1>3. CASE X!ReadIpisr \/ X!ReadEnables \/ X!WriteEnables
  <2>1. Quiet
    BY <1>1, <1>3 DEF X!ReadIpisr, X!ReadEnables, X!WriteEnables
  <2> QED
    BY <2>1, QuietStep
<1>4. CASE X!SetPriority
  <2>1. X!Arg \in X!Sources /\ X!Statement[3] \in Nat
    BY <1>4, Operands DEF X!SetPriority, IrqInv
  <2>2. prio' \in [X!Sources -> Nat]
    BY <1>1, <1>4, <2>1 DEF X!SetPriority
  <2>3. Quiet
    BY <1>1, <1>4, <2>2 DEF X!SetPriority
  <2> QED
    BY <2>3, QuietStep
<1>5. CASE X!SetThreshold \/ X!ClicInit
  <2>1. Quiet
    BY <1>1, <1>5 DEF X!SetThreshold, X!ClicInit
  <2> QED
    BY <2>1, QuietStep
<1>6. CASE X!LoadShadow \/ X!StoreShadow \/ X!StoreData
  <2>1. Quiet
    BY <1>1, <1>6 DEF X!LoadShadow, X!StoreShadow, X!StoreData
  <2> QED
    BY <2>1, QuietStep
<1>7. CASE X!Loop
  <2>1. xpc > 3
    BY <1>7, Operands DEF X!Loop, IrqInv
  <2>2. Quiet
    BY <1>1, <1>7, <2>1 DEF X!Loop
  <2> QED
    BY <2>2, QuietStep
<1> QED
  BY <1>2, <1>3, <1>4, <1>5, <1>6, <1>7

\* The controller latches requests of the lines only.
LEMMA LatchedFrom ==
    ASSUME NEW high \in SUBSET X!Sources, NEW pend \in SUBSET X!Sources, NEW srv
    PROVE  /\ X!Latch(high, pend, srv) \subseteq pend \cup high
           /\ X!Plic => X!Latch(high, pend, srv) = pend \cup (high \ srv)
           /\ X!Clic => X!Latch(high, pend, srv) = high
BY DEF X!Latch, X!Clic

\* The status bits change, at any place but one that has just found its bit set.
LEMMA IpisrChanges ==
    ASSUME IrqInv, NEW ip \in SUBSET X!Sources, X!SetIpisr(ip), demo # "pic_interrupts",
           stage = "toggle" => irq \in ip,
           UNCHANGED <<demo, stage, irq, prio, serving, generating, log>>, xpc' \in Nat \ {0}
    PROVE  IrqInv'
<1> DEFINE high == ip \cap generating
<1>1. /\ ipisr' = ip /\ pending' = X!Latch(high, pending, serving)
      /\ raised' = [s \in X!Sources |-> raised[s] + (IF s \in ip \ ipisr THEN 1 ELSE 0)]
  BY DEF X!SetIpisr
<1>2. high \subseteq X!Sources /\ pending \subseteq X!Sources /\ high \subseteq ip
  BY DEF IrqInv, IrqTypes
<1> HIDE DEF high
<1>3. /\ pending' \subseteq pending \cup high
      /\ X!Plic => pending' = pending \cup (high \ serving)
      /\ X!Clic => pending' = high
  BY <1>1, <1>2, LatchedFrom
<1>4. IrqTypes'
  BY <1>1, <1>2, <1>3 DEF IrqInv, IrqTypes
<1>5. Latched'
  BY <1>1, <1>3 DEF IrqInv, Latched, InHandler, X!Plic, X!Clic, X!Pic, high
<1>6. ASSUME NEW s \in X!Sources
      PROVE  Counted(s)'
  <2>1. /\ Counted(s) /\ X!Handled(s)' = X!Handled(s)
        /\ X!Handled(s) \in Nat /\ raised[s] \in Nat
    BY HandledTyped DEF IrqInv, IrqTypes, X!Handled
  <2>2. X!Pic' = X!Pic
    BY DEF X!Pic
  <2>3. CASE s \in ip \ ipisr
    <3>1. raised'[s] = raised[s] + 1
      BY <1>1, <2>3
    <3> QED
      BY <2>1, <3>1 DEF Counted
  <2>4. CASE s \notin ip \ ipisr
    <3>1. raised'[s] = raised[s]
      BY <1>1, <2>4 DEF IrqInv, IrqTypes
    <3>2. Owed(s)' => Owed(s)
      BY <1>1, <1>2, <1>3, <2>2, <2>4 DEF Owed, Flagged
    <3> QED
      BY <2>1, <3>1, <3>2 DEF Counted
  <2> QED
    BY <2>3, <2>4
<1> QED
  BY <1>4, <1>5, <1>6 DEF IrqInv

\* Requests and handlers have been counted before; the count of s stays right if
\* no request of it is owed anew.
LEMMA CountStays ==
    ASSUME IrqInv, NEW s \in X!Sources, Owed(s)' => Owed(s),
           X!Handled(s)' = X!Handled(s), raised'[s] = raised[s]
    PROVE  Counted(s)'
<1>1. Counted(s) /\ X!Handled(s) \in Nat /\ raised[s] \in Nat
  BY HandledTyped DEF IrqInv, IrqTypes
<1> QED
  BY <1>1 DEF Counted

LEMMA GenerateKeepsIrqInv ==
    ASSUME IrqInv, X!Generate
    PROVE  IrqInv'
<1> DEFINE high == ipisr \cap generating'
<1>1. /\ pending' = X!Latch(high, pending, serving)
      /\ UNCHANGED <<demo, stage, irq, prio, ipisr, serving, raised, log>>
      /\ xpc' = xpc + 1
  BY DEF X!Generate, X!Done, X!GoTo, X!hart, X!ctl, X!led, X!hist
<1>2. high \subseteq X!Sources /\ pending \subseteq X!Sources /\ high \subseteq ipisr
  BY DEF IrqInv, IrqTypes
<1>3. stage = "none" /\ demo # "pic_interrupts"
  BY StatementTyped, Operands DEF X!Generate, IrqInv
<1> HIDE DEF high
<1>4. /\ pending' \subseteq pending \cup high
      /\ X!Plic => pending' = pending \cup (high \ serving)
      /\ X!Clic => pending' = high
  BY <1>1, <1>2, LatchedFrom
<1>5. IrqTypes'
  BY <1>1, <1>2, <1>4 DEF IrqInv, IrqTypes
<1>6. Latched'
  BY <1>1, <1>3, <1>4 DEF IrqInv, Latched, InHandler, X!Plic, X!Clic, X!Pic, high
<1>7. ASSUME NEW s \in X!Sources
      PROVE  Counted(s)'
  <2>1. Owed(s)' => Owed(s)
    BY <1>1, <1>2, <1>3, <1>4 DEF Owed, Flagged
  <2>2. X!Handled(s)' = X!Handled(s)
    BY <1>1 DEF X!Handled
  <2> QED
    BY <1>1, <2>1, <2>2, CountStays
<1> QED
  BY <1>5, <1>6, <1>7 DEF IrqInv

LEMMA ToggleIpisrKeepsIrqInv ==
    ASSUME IrqInv, X!ToggleIpisr
    PROVE  IrqInv'
<1> DEFINE fired == IF X!Arg \in reg THEN ipisr ELSE X!Toggled(X!Arg)
           cleared == IF X!Arg \in reg THEN X!Toggled(X!Arg) ELSE ipisr
<1>1. \/ X!At("fire", 1) /\ X!SetIpisr(fired)
      \/ X!At("clear", 1) /\ X!SetIpisr(cleared)
  BY Zenon DEF X!ToggleIpisr
<1>2. UNCHANGED <<demo, stage, irq, prio, serving, generating, log>> /\ xpc' = xpc + 1
  BY DEF X!ToggleIpisr, X!Done, X!GoTo, X!hart, X!ctl, X!led
<1>3. stage = "none" /\ demo # "pic_interrupts" /\ X!Arg \in X!Sources
  BY <1>1, StatementTyped, Operands DEF IrqInv
<1>4. X!Toggled(X!Arg) \subseteq X!Sources /\ ipisr \subseteq X!Sources /\ xpc' \in Nat \ {0}
  BY <1>2, <1>3 DEF X!Toggled, IrqInv, IrqTypes
<1>5. fired \in SUBSET X!Sources /\ cleared \in SUBSET X!Sources
  BY <1>4
<1> HIDE DEF fired, cleared
<1>6. PICK ip \in SUBSET X!Sources : X!SetIpisr(ip)
  BY <1>1, <1>5
<1> QED
  BY <1>2, <1>3, <1>4, <1>6, IpisrChanges

LEMMA SetFlagKeepsIrqInv ==
    ASSUME IrqInv, X!SetFlag
    PROVE  IrqInv'
<1>1. /\ pending' = pending \cup {X!Arg} /\ raised' = [raised EXCEPT ![X!Arg] = @ + 1]
      /\ UNCHANGED <<demo, stage, irq, prio, ipisr, serving, generating, log>> /\ xpc' = xpc + 1
  BY DEF X!SetFlag, X!Done, X!GoTo, X!hart, X!ctl, X!led
<1>2. stage = "none" /\ demo = "pic_interrupts" /\ X!Arg \in X!Sources
  BY StatementTyped, Operands DEF X!SetFlag, IrqInv
<1>3. IrqTypes'
  BY <1>1, <1>2 DEF IrqInv, IrqTypes
<1>4. Latched'
  BY <1>1, <1>2 DEF IrqInv, Latched, InHandler, X!Plic, X!Clic, X!Pic
<1>5. ASSUME NEW s \in X!Sources
      PROVE  Counted(s)'
  <2>1. X!Handled(s)' = X!Handled(s) /\ X!Handled(s) \in Nat /\ raised[s] \in Nat /\ Counted(s)
    BY <1>1, HandledTyped DEF X!Handled, IrqInv, IrqTypes
  <2>2. CASE s = X!Arg
    <3>1. raised'[s] = raised[s] + 1
      BY <1>1, <2>2 DEF IrqInv, IrqTypes
    <3> QED
      BY <2>1, <3>1 DEF Counted
  <2>3. CASE s # X!Arg
    <3>1. raised'[s] = raised[s]
      BY <1>1, <2>3 DEF IrqInv, IrqTypes
    <3>2. Owed(s)' => Owed(s)
      BY <1>1, <1>2, <2>3 DEF Owed, Flagged
    <3> QED
      BY <2>1, <3>1, <3>2, CountStays
  <2> QED
    BY <2>2, <2>3
<1> QED
  BY <1>3, <1>4, <1>5 DEF IrqInv

LEMMA FlipKeepsIrqInv ==
    ASSUME IrqInv, X!Flip
    PROVE  IrqInv'
<1>1. /\ X!SetIpisr(ipisr \cup {0}) /\ demo # "pic_interrupts"
      /\ UNCHANGED <<demo, xpc, stage, irq, prio, serving, generating, log>>
  BY DEF X!Flip, X!GpioDemo, X!main, X!hart, X!ctl, X!led
<1>2. ipisr \cup {0} \in SUBSET X!Sources /\ xpc' \in Nat \ {0}
  BY <1>1 DEF IrqInv, IrqTypes, X!Sources
<1>3. stage = "toggle" => irq \in ipisr \cup {0}
  BY DEF IrqInv, Latched
<1> QED
  BY <1>1, <1>2, <1>3, IpisrChanges

LEMMA TrapKeepsIrqInv ==
    ASSUME IrqInv, X!Trap
    PROVE  IrqInv'
<1>1. /\ stage = "none" /\ stage' = IF X!Clic THEN "handle" ELSE "claim"
      /\ irq' = IF X!Clic THEN X!First(X!Active) ELSE irq
      /\ UNCHANGED <<demo, xpc, prio, pending, ipisr, serving, generating, raised, log>>
  BY DEF X!Trap, X!Handler, X!main, X!ctl, X!line, X!led, X!hist
<1>2. X!Active # {} /\ X!Active \subseteq pending /\ pending \subseteq X!Sources
  BY DEF X!Trap, X!Deliverable, X!Active, IrqInv, IrqTypes
<1>3. X!First(X!Active) \in pending
  BY <1>2, FirstIsOne DEF IrqInv
<1>4. IrqTypes'
  BY <1>1, <1>2, <1>3 DEF IrqInv, IrqTypes
<1>5. Latched'
  BY <1>1 DEF IrqInv, Latched, InHandler, X!Plic, X!Clic, X!Pic
<1>6. ASSUME NEW s \in X!Sources
      PROVE  Counted(s)'
  <2>1. Owed(s)' => Owed(s)
    BY <1>1, <1>3 DEF Owed, Flagged, X!Clic, X!Plic, X!Pic
  <2>2. X!Handled(s)' = X!Handled(s)
    BY <1>1 DEF X!Handled
  <2> QED
    BY <1>1, <2>1, <2>2, CountStays
<1> QED
  BY <1>4, <1>5, <1>6 DEF IrqInv

LEMMA ClaimKeepsIrqInv ==
    ASSUME IrqInv, X!Claim
    PROVE  IrqInv'
<1>1. /\ stage = "claim" /\ stage' = "handle" /\ irq' = X!First(pending \cap xenabled)
      /\ IF X!Plic THEN pending' = pending \ {irq'} /\ serving' = serving \cup {irq'}
         ELSE UNCHANGED <<pending, serving>>
      /\ UNCHANGED <<demo, xpc, prio, ipisr, generating, raised, log>>
  BY DEF X!Claim, X!Handler, X!main, X!ctl, X!led, X!hist
<1>2. pending \cap xenabled # {} /\ pending \subseteq X!Sources
  BY DEF X!Claim, IrqInv, IrqTypes
<1>3. irq' \in pending
  BY <1>1, <1>2, FirstIsOne DEF IrqInv
<1>4. IrqTypes'
  BY <1>1, <1>2, <1>3 DEF IrqInv, IrqTypes
<1>5. Latched'
  BY <1>1 DEF IrqInv, Latched, InHandler, X!Plic, X!Clic, X!Pic
<1>6. ASSUME NEW s \in X!Sources
      PROVE  Counted(s)'
  <2>1. Owed(s)' => Owed(s)
    BY <1>1, <1>3 DEF Owed, Flagged, X!Pic
  <2>2. X!Handled(s)' = X!Handled(s)
    BY <1>1 DEF X!Handled
  <2> QED
    BY <1>1, <2>1, <2>2, CountStays
<1> QED
  BY <1>4, <1>5, <1>6 DEF IrqInv

LEMMA HandleKeepsIrqInv ==
    ASSUME IrqInv, X!Handle
    PROVE  IrqInv'
<1>1. /\ stage = "handle"
      /\ UNCHANGED <<demo, xpc, irq, prio, pending, ipisr, serving, generating, raised>>
  BY DEF X!Handle, X!Handler, X!main, X!ctl, X!line
<1>2. CASE stage' = "fatal" /\ log' = log
  <2>1. IrqTypes'
    BY <1>1, <1>2 DEF IrqInv, IrqTypes
  <2>2. Latched'
    BY <1>1, <1>2 DEF IrqInv, Latched, InHandler, X!Plic, X!Clic, X!Pic
  <2>3. ASSUME NEW s \in X!Sources
        PROVE  Counted(s)'
    <3>1. Owed(s)' => Owed(s)
      BY <1>1, <1>2 DEF Owed, Flagged
    <3>2. X!Handled(s)' = X!Handled(s)
      BY <1>2 DEF X!Handled
    <3> QED
      BY <1>1, <3>1, <3>2, CountStays
  <2> QED
    BY <2>1, <2>2, <2>3 DEF IrqInv
<1>3. CASE /\ stage' = IF demo = "pic_interrupts" THEN "complete" ELSE "read"
           /\ log' = Append(log, irq)
  <2>1. IrqTypes'
    BY <1>1, <1>3 DEF IrqInv, IrqTypes
  <2>2. Latched'
    BY <1>1, <1>3 DEF IrqInv, Latched, InHandler, X!Plic, X!Clic, X!Pic
  <2>3. ASSUME NEW s \in X!Sources
        PROVE  Counted(s)'
    <3>1. /\ X!Handled(s) \in Nat /\ raised[s] \in Nat /\ Counted(s) /\ raised'[s] = raised[s]
          /\ X!Handled(s)' = IF s = irq THEN X!Handled(s) + 1 ELSE X!Handled(s)
      BY <1>1, <1>3, HandledOnce DEF IrqInv, IrqTypes
    <3>2. CASE s = irq
      <4>1. Owed(s)
        BY <1>1, <3>2 DEF Owed
      <4>2. ~ Owed(s)'
        BY <1>1, <1>3, <3>2 DEF Owed, Flagged, IrqInv, Latched, X!Pic
      <4> QED
        BY <3>1, <3>2, <4>1, <4>2 DEF Counted
    <3>3. CASE s # irq
      <4>1. Owed(s)' => Owed(s)
        BY <1>1, <1>3, <3>3 DEF Owed, Flagged
      <4> QED
        BY <3>1, <3>3, <4>1, CountStays
    <3> QED
      BY <3>2, <3>3
  <2> QED
    BY <2>1, <2>2, <2>3 DEF IrqInv
<1> QED
  BY <1>2, <1>3 DEF X!Handle, X!Handler

LEMMA ClearIpisrKeepsIrqInv ==
    ASSUME IrqInv, X!ClearIpisr
    PROVE  IrqInv'
<1>1. CASE /\ stage = "read" /\ UNCHANGED <<demo, xpc, irq, prio, pending, ipisr, serving, generating, raised, log>>
           /\ \/ irq \in ipisr /\ stage' = "toggle"
              \/ irq \notin ipisr /\ stage' = "complete"
  <2>1. IrqTypes'
    BY <1>1 DEF IrqInv, IrqTypes
  <2>2. Latched'
    BY <1>1 DEF IrqInv, Latched, InHandler, X!Plic, X!Clic, X!Pic
  <2>3. ASSUME NEW s \in X!Sources
        PROVE  Counted(s)'
    <3>1. Owed(s)' => Owed(s)
      BY <1>1 DEF Owed, Flagged, IrqInv, Latched, InHandler, X!Clic, X!Plic, X!Pic
    <3>2. X!Handled(s)' = X!Handled(s)
      BY <1>1 DEF X!Handled
    <3> QED
      BY <1>1, <3>1, <3>2, CountStays
  <2> QED
    BY <2>1, <2>2, <2>3 DEF IrqInv
<1>2. CASE /\ stage = "toggle" /\ stage' = "complete" /\ X!SetIpisr(X!Toggled(irq))
           /\ UNCHANGED <<demo, xpc, irq, prio, serving, generating, log>>
  <2> DEFINE ip == ipisr \ {irq}
             high == ip \cap generating
  <2>1. X!Toggled(irq) = ip
    BY <1>2 DEF X!Toggled, IrqInv, Latched
  <2>2. /\ ipisr' = ip /\ pending' = X!Latch(high, pending, serving)
        /\ raised' = [s \in X!Sources |-> raised[s] + (IF s \in ip \ ipisr THEN 1 ELSE 0)]
    BY <1>2, <2>1 DEF X!SetIpisr
  <2>3. ASSUME NEW s \in X!Sources
        PROVE  raised'[s] = raised[s] /\ raised[s] \in Nat
    BY <2>2 DEF IrqInv, IrqTypes
  <2>4. high \subseteq X!Sources /\ pending \subseteq X!Sources /\ high \subseteq ip
    BY DEF IrqInv, IrqTypes
  <2> HIDE DEF high, ip
  <2>5. /\ pending' \subseteq pending \cup high
        /\ X!Plic => pending' = pending \cup (high \ serving)
        /\ X!Clic => pending' = high
    BY <2>2, <2>4, LatchedFrom
  <2>6. raised' \in [X!Sources -> Nat]
    BY <2>2, <2>3
  <2> USE DEF ip
  <2>7. IrqTypes'
    BY <1>2, <2>2, <2>4, <2>5, <2>6 DEF IrqInv, IrqTypes
  <2>8. Latched'
    BY <1>2, <2>2, <2>5 DEF IrqInv, Latched, InHandler, X!Plic, X!Clic, X!Pic, high
  <2>9. ASSUME NEW s \in X!Sources
        PROVE  Counted(s)'
    <3>1. Owed(s)' => Owed(s)
      BY <1>2, <2>2, <2>4, <2>5 DEF Owed, Flagged, IrqInv, Latched, InHandler, X!Clic, X!Pic
    <3>2. X!Handled(s)' = X!Handled(s)
      BY <1>2 DEF X!Handled
    <3> QED
      BY <2>3, <3>1, <3>2, CountStays
  <2> QED
    BY <2>7, <2>8, <2>9 DEF IrqInv
<1> QED
  BY <1>1, <1>2 DEF X!ClearIpisr, X!Handler, X!main, X!ctl, X!line, X!led, X!hist

LEMMA CompleteKeepsIrqInv ==
    ASSUME IrqInv, X!Complete
    PROVE  IrqInv'
<1> DEFINE high == ipisr \cap generating
<1>1. /\ stage = "complete" /\ stage' = "none"
      /\ serving' = IF irq \in xenabled THEN serving \ {irq} ELSE serving
      /\ pending' = IF X!Plic THEN X!Latch(high, pending, serving')
                    ELSE IF X!Clic THEN pending
                    ELSE X!Latch(high, pending \ {irq}, {})
      /\ UNCHANGED <<demo, xpc, irq, prio, ipisr, generating, raised, log>>
  BY DEF X!Complete, X!Handler, X!main, X!ctl, X!led, X!hist
<1>2. high \subseteq X!Sources /\ pending \subseteq X!Sources /\ high \subseteq ipisr
  BY DEF IrqInv, IrqTypes
<1> HIDE DEF high
<1>3. /\ X!Plic => pending' = pending \cup (high \ serving')
      /\ X!Clic => pending' = pending
      /\ X!Pic => pending' \subseteq (pending \ {irq}) \cup high
  BY <1>1, <1>2, LatchedFrom DEF X!Plic, X!Clic, X!Pic
<1>4. pending' \subseteq pending \cup high
  BY <1>3 DEF X!Plic, X!Clic, X!Pic
<1>5. IrqTypes'
  BY <1>1, <1>2, <1>4 DEF IrqInv, IrqTypes
<1>6. Latched'
  BY <1>1, <1>3 DEF IrqInv, Latched, InHandler, X!Plic, X!Clic, X!Pic
<1>7. ASSUME NEW s \in X!Sources
      PROVE  Counted(s)'
  <2>1. Owed(s)' => Owed(s)
    BY <1>1, <1>2, <1>3, <1>4 DEF Owed, Flagged, X!Pic
  <2>2. X!Handled(s)' = X!Handled(s)
    BY <1>1 DEF X!Handled
  <2> QED
    BY <1>1, <2>1, <2>2, CountStays
<1> QED
  BY <1>5, <1>6, <1>7 DEF IrqInv

\* The invariant holds on every execution that starts with no request left over.
LEMMA IrqInvHolds ==
    ASSUME StaleIrq = FALSE
    PROVE  X!Spec => []IrqInv
<1>1. X!Init => IrqInv
  <2> SUFFICES ASSUME X!Init
               PROVE  IrqInv
    OBVIOUS
  <2>1. /\ demo \in Demos /\ xpc = 1 /\ stage = "none" /\ irq = 0 /\ log = <<>>
        /\ prio = [s \in X!Sources |-> 1] /\ raised = [s \in X!Sources |-> 0]
        /\ ipisr = {} /\ pending = {} /\ serving = {}
    BY DEF X!Init
  <2>2. IrqTypes
    BY <2>1 DEF IrqTypes, X!Sources
  <2>3. Latched
    BY <2>1 DEF Latched, InHandler
  <2>4. ASSUME NEW s \in X!Sources
        PROVE  Counted(s)
    <3>1. ~ Owed(s) /\ raised[s] = 0
      BY <2>1 DEF Owed, Flagged
    <3>2. DOMAIN log = {}
      BY <2>1
    <3>3. X!Handled(s) = X!Cardinality({})
      BY <3>2 DEF X!Handled
    <3>4. X!Cardinality({}) = Cardinality({})
      BY DEF X!Cardinality, Cardinality, X!IsFiniteSet, IsFiniteSet
    <3> QED
      BY <3>1, <3>3, <3>4, FS_EmptySet DEF Counted
  <2> QED
    BY <2>2, <2>3, <2>4 DEF IrqInv
<1>2. IrqInv /\ [X!Next]_(X!vars) => IrqInv'
  <2> SUFFICES ASSUME IrqInv, [X!Next]_(X!vars)
               PROVE  IrqInv'
    OBVIOUS
  <2>1. CASE X!Main
    BY <2>1, QuietStatements, GenerateKeepsIrqInv, ToggleIpisrKeepsIrqInv, SetFlagKeepsIrqInv
       DEF X!Main
  <2>2. CASE X!Isr
    BY <2>2, TrapKeepsIrqInv, ClaimKeepsIrqInv, HandleKeepsIrqInv, ClearIpisrKeepsIrqInv,
       CompleteKeepsIrqInv DEF X!Isr
  <2>3. CASE X!Flip
    BY <2>3, FlipKeepsIrqInv
  <2>4. CASE UNCHANGED X!vars
    <3>1. /\ UNCHANGED <<demo, stage, irq, pending, ipisr, serving, generating, raised, log>>
          /\ UNCHANGED <<xpc, prio>>
      BY <2>4 DEF X!vars, X!main, X!hart, X!ctl, X!line, X!led, X!hist
    <3> QED
      BY <3>1, QuietStep DEF IrqInv, IrqTypes
  <2> QED
    BY <2>1, <2>2, <2>3, <2>4 DEF X!Next
<1> QED
  BY <1>1, <1>2, PTL DEF X!Spec

\* bm_ext_irq_handler(), bm_gpio_clear_irq() and the controllers together: a handler
\* runs for a request that was raised and only once for it, in every demo, for any
\* number of flips of the switches and with a PIC that latches levels or edges, if
\* no request is left over when the program starts.
THEOREM RequestsAreHandledOnce ==
    ASSUME StaleIrq = FALSE
    PROVE  X!Spec => []EachRequestIsHandledOnce
<1>1. IrqInv => EachRequestIsHandledOnce
  <2> SUFFICES ASSUME IrqInv, NEW s \in X!Sources
               PROVE  X!Handled(s) <= raised[s]
    BY DEF EachRequestIsHandledOnce, X!EachRequestIsHandledOnce
  <2>1. X!Handled(s) \in Nat /\ raised[s] \in Nat /\ Counted(s)
    BY HandledTyped DEF IrqInv, IrqTypes
  <2> QED
    BY <2>1 DEF Counted
<1> QED
  BY <1>1, IrqInvHolds, PTL
=============================================================================
