----------------------------- MODULE UartDriver -----------------------------
(***************************************************************************)
(* The UART driver, lib/src/uart.c: a program that transmits, receives and *)
(* flushes, the interrupt handler that shares the driver's two software    *)
(* FIFOs with it, the 16550 device behind it and the PLIC between them     *)
(* (lib/src/plic.c and bm_ext_irq_handler() of lib/src/interrupt.c).  The  *)
(* program is one like that of software/uart-demo; the handler runs        *)
(* between any two of its accesses to memory or to the device.             *)
(*                                                                         *)
(* The n-th byte passed to bm_uart_transmit_byte() and the n-th byte that  *)
(* arrives on the line are both called n.                                  *)
(***************************************************************************)
EXTENDS Integers, Sequences

CONSTANTS Size,      \* UART_FIFO_SIZE
          HwSize,    \* TX_FIFO_SIZE, also the depth of the receive FIFO
          MaxTx,     \* bound on the bytes transmitted
          MaxRx      \* bound on the bytes that arrive

ASSUME SizeAssumption == Size \in Nat /\ Size >= 2 /\ HwSize \in Nat \ {0}
ASSUME BoundAssumption == MaxTx \in Nat /\ MaxRx \in Nat

VARIABLES
    use_irq,     \* as the configuration passed to bm_uart_init() says
    tx, rx,      \* the software FIFOs
    txHw, rxHw,  \* the device's FIFOs
    shift,       \* the byte in its transmit shift register, 0 for none
    thri,        \* its transmitter holding register empty interrupt
    rxi,         \* its received data interrupt
    ier,         \* are its interrupts enabled?
    irqOn,       \* is its interrupt enabled in the controller?
    irqPending,  \* ... pending there?
    irqActive,   \* ... claimed and not yet completed?
    pc,          \* where the program and the handler are
    left,        \* how many more bytes their fill_tx_fifo() may write
    hold,        \* the byte it has popped and not yet written, if any
    byte,        \* number of bytes the program has wanted to transmit
    got,         \* what bm_uart_receive_byte() has returned
    \* history
    sent,        \* what has left the shift register
    arrived,     \* number of bytes that have arrived
    lost         \* those no FIFO had room for, and those the reset discarded

fifos == <<tx, rx>>
line == <<sent, arrived, lost>>
device == <<txHw, rxHw, shift, thri, rxi, ier>>
controller == <<irqOn, irqPending, irqActive>>
software == <<use_irq, pc, left, hold, byte, got>>
vars == <<fifos, device, controller, software, line>>
-----------------------------------------------------------------------------
(* bm_uart_fifo_t *)

fifo_init == [start |-> 0, pos |-> 0, buffer |-> [i \in 0 .. Size - 1 |-> 0]]

fifo_empty(f) == f.start = f.pos

\* Mutant: the slot that tells a full FIFO from an empty one is used.
fifo_full_AllSlots(f) == f.pos - f.start = Size

fifo_full(f) == f.start = (f.pos + 1) % Size

fifo_push(f, b) ==
    IF fifo_full(f) THEN f
    ELSE [f EXCEPT !.buffer[f.pos] = b, !.pos = (f.pos + 1) % Size]

\* What fifo_pop() returns of a FIFO that is not empty, and leaves.
fifo_front(f) == f.buffer[f.start]
fifo_pop(f) == [f EXCEPT !.start = (f.start + 1) % Size]

\* The bytes in f, oldest first.
Contents(f) ==
    [i \in 1 .. (f.pos - f.start) % Size |-> f.buffer[(f.start + i - 1) % Size]]
-----------------------------------------------------------------------------
(* the 16550 *)

THRE == txHw = <<>>
TEMT == txHw = <<>> /\ shift = 0
DR == rxHw # <<>>
Irq == ier /\ (thri \/ rxi)     \* the interrupt line

Init ==
    /\ use_irq \in BOOLEAN
    /\ tx = fifo_init /\ rx = fifo_init
    /\ txHw = <<>> /\ rxHw = <<>> /\ shift = 0
    /\ thri = FALSE /\ rxi = FALSE /\ ier = FALSE
    /\ irqOn = FALSE /\ irqPending = FALSE /\ irqActive = FALSE
    /\ pc = [main |-> "init", isr |-> "none"]
    /\ left = [main |-> 0, isr |-> 0]
    /\ hold = [main |-> <<>>, isr |-> <<>>]
    /\ byte = 0 /\ got = <<>>
    /\ sent = <<>> /\ arrived = 0 /\ lost = {}

\* The next byte moves to the shift register; the last one to do so raises the
\* transmitter holding register empty interrupt.
ShiftIn ==
    /\ shift = 0 /\ txHw # <<>>
    /\ shift' = Head(txHw)
    /\ txHw' = Tail(txHw)
    /\ thri' = (thri \/ Len(txHw) = 1)
    /\ UNCHANGED <<fifos, rxHw, rxi, ier, controller, software, line>>

ShiftOut ==
    /\ shift # 0
    /\ sent' = Append(sent, shift)
    /\ shift' = 0
    /\ UNCHANGED <<fifos, txHw, rxHw, thri, rxi, ier, controller, software, arrived, lost>>

\* A byte arrives; the device has room for HwSize of them.
Arrive ==
    /\ arrived < MaxRx
    /\ arrived' = arrived + 1
    /\ rxHw' = IF Len(rxHw) < HwSize THEN Append(rxHw, arrived') ELSE rxHw
    /\ lost' = IF Len(rxHw) < HwSize THEN lost ELSE lost \cup {arrived'}
    /\ UNCHANGED <<fifos, txHw, shift, thri, rxi, ier, controller, software, sent>>

\* The trigger level is reached, or the timeout for fewer bytes expires.
RaiseRx ==
    /\ rxHw # <<>> /\ ~ rxi
    /\ rxi' = TRUE
    /\ UNCHANGED <<fifos, txHw, rxHw, shift, thri, ier, controller, software, line>>

\* A write to THR; the device drops what it has no room for.
WriteThr(b) ==
    /\ txHw' = IF Len(txHw) < HwSize THEN Append(txHw, b) ELSE txHw
    /\ thri' = FALSE

\* A read of RBR.
ReadRbr ==
    /\ rxHw' = Tail(rxHw)
    /\ rxi' = (rxi /\ Len(rxHw) > 1)

Device == ShiftIn \/ ShiftOut \/ Arrive \/ RaiseRx
-----------------------------------------------------------------------------
(* the PLIC *)

\* The gateway samples the line when no interrupt is in service.
Latch ==
    /\ Irq /\ ~ irqPending /\ ~ irqActive
    /\ irqPending' = TRUE
    /\ UNCHANGED <<fifos, device, irqOn, irqActive, software, line>>

Claimable == irqPending /\ irqOn

\* bm_plic_claim(): the interrupt, or none.
Claim ==
    /\ irqPending' = (irqPending /\ ~ irqOn)
    /\ irqActive' = (irqActive \/ Claimable)
    /\ UNCHANGED irqOn

\* bm_plic_complete(), which the PLIC ignores for an interrupt not enabled.
Complete ==
    /\ irqActive' = (irqActive /\ ~ irqOn)
    /\ UNCHANGED <<irqOn, irqPending>>
-----------------------------------------------------------------------------
(* the steps of the program and of the handler: c is "main" or "isr" *)

Step(c, from, to) ==
    /\ pc[c] = from
    /\ c = "main" => pc["isr"] = "none"
    /\ pc' = [pc EXCEPT ![c] = to]
    /\ UNCHANGED use_irq

\* Mutant: the test is for an empty transmitter, not for an empty FIFO.
FillTest_Temt(c, after) ==
    /\ Step(c, "fill_test", IF TEMT THEN "fill" ELSE after)
    /\ left' = [left EXCEPT ![c] = HwSize]
    /\ UNCHANGED <<fifos, device, controller, byte, got, hold, line>>

\* fill_tx_fifo(): the test of LSR_THRE,
FillTest(c, after) ==
    /\ Step(c, "fill_test", IF THRE THEN "fill" ELSE after)
    /\ left' = [left EXCEPT ![c] = HwSize]
    /\ UNCHANGED <<fifos, device, controller, byte, got, hold, line>>

\* then, as often as there is room and a byte, fifo_pop()
FillPop(c, after) ==
    LET more == left[c] > 0 /\ ~ fifo_empty(tx) IN
    /\ Step(c, "fill", IF more THEN "fill_thr" ELSE after)
    /\ IF more THEN /\ tx' = fifo_pop(tx)
                    /\ hold' = [hold EXCEPT ![c] = <<fifo_front(tx)>>]
                    /\ left' = [left EXCEPT ![c] = @ - 1]
               ELSE UNCHANGED <<tx, hold, left>>
    /\ UNCHANGED <<rx, device, controller, byte, got, line>>

\* and the write of THR.
FillThr(c) ==
    /\ Step(c, "fill_thr", "fill")
    /\ WriteThr(hold[c][1])
    /\ hold' = [hold EXCEPT ![c] = <<>>]
    /\ UNCHANGED <<fifos, rxHw, shift, rxi, ier, controller, left, byte, got, line>>

Fill(c, after) == FillTest(c, after) \/ FillPop(c, after) \/ FillThr(c)
-----------------------------------------------------------------------------
(* the program *)

\* A step that leaves the driver's FIFOs and the device as they are.
MainStep(from, to) ==
    /\ Step("main", from, to)
    /\ UNCHANGED <<fifos, device, left, hold, line>>

\* bm_uart_init()
InitBuffers ==
    /\ Step("main", "init", "init_fcr")
    /\ tx' = fifo_init /\ rx' = fifo_init
    /\ UNCHANGED <<device, controller, left, hold, byte, got, line>>

ResetFifos ==
    /\ Step("main", "init_fcr", "init_ier")
    /\ txHw' = <<>> /\ rxHw' = <<>> /\ rxi' = FALSE
    /\ lost' = lost \cup {rxHw[i] : i \in 1 .. Len(rxHw)}
    /\ UNCHANGED <<fifos, shift, thri, ier, controller, left, hold, byte, got, sent, arrived>>

\* IIR is read, IER written; a device whose holding register is empty then
\* raises the interrupt for that.
InitIer ==
    /\ Step("main", "init_ier", "init_enable")
    /\ ier' = use_irq
    /\ thri' = use_irq
    /\ UNCHANGED <<fifos, txHw, rxHw, shift, rxi, controller, left, hold, byte, got, line>>

InitEnable ==
    /\ MainStep("init_enable", "app")
    /\ irqOn' = use_irq
    /\ UNCHANGED <<irqPending, irqActive, byte, got>>

\* The program calls bm_uart_transmit_byte(), bm_uart_receive_byte() and, at
\* the end, bm_uart_flush().
CallTransmit ==
    /\ byte < MaxTx
    /\ MainStep("app", "transmit")
    /\ byte' = byte + 1
    /\ UNCHANGED <<controller, got>>

CallReceive ==
    /\ MainStep("app", "receive")
    /\ UNCHANGED <<controller, byte, got>>

CallFlush ==
    /\ byte = MaxTx
    /\ MainStep("app", "flush")
    /\ UNCHANGED <<controller, byte, got>>

\* The loop that waits for room.
WaitToTransmit ==
    /\ IF use_irq THEN ~ fifo_full(tx) ELSE THRE
    /\ MainStep("transmit", IF use_irq THEN "disable" ELSE "thr")
    /\ UNCHANGED <<controller, byte, got>>

PutThr ==
    /\ Step("main", "thr", "app")
    /\ WriteThr(byte)
    /\ UNCHANGED <<fifos, rxHw, shift, rxi, ier, controller, left, hold, byte, got, line>>

\* Mutant: the interrupt stays enabled.
Disable_Forgotten ==
    /\ \E p \in {<<"disable", "push">>, <<"rx_disable", "rx_pop">>} : MainStep(p[1], p[2])
    /\ UNCHANGED <<controller, byte, got>>

\* bm_ext_irq_disable()
Disable ==
    /\ \E p \in {<<"disable", "push">>, <<"rx_disable", "rx_pop">>} : MainStep(p[1], p[2])
    /\ irqOn' = FALSE
    /\ UNCHANGED <<irqPending, irqActive, byte, got>>

PushByte ==
    /\ Step("main", "push", "fill_test")
    /\ tx' = fifo_push(tx, byte)
    /\ UNCHANGED <<rx, device, controller, left, hold, byte, got, line>>

\* bm_ext_irq_enable()
Enable ==
    /\ \E from \in {"enable", "rx_enable"} : MainStep(from, "app")
    /\ irqOn' = TRUE
    /\ UNCHANGED <<irqPending, irqActive, byte, got>>

\* bm_uart_receive_byte() returns -1 if there is nothing to receive.
TestReceive ==
    /\ MainStep("receive", IF use_irq THEN IF fifo_empty(rx) THEN "app" ELSE "rx_disable"
                                     ELSE IF DR THEN "rbr" ELSE "app")
    /\ UNCHANGED <<controller, byte, got>>

GetRbr ==
    /\ Step("main", "rbr", "app")
    /\ ReadRbr
    /\ got' = Append(got, Head(rxHw))
    /\ UNCHANGED <<fifos, txHw, shift, thri, ier, controller, left, hold, byte, line>>

PopByte ==
    /\ Step("main", "rx_pop", "rx_enable")
    /\ rx' = fifo_pop(rx)
    /\ got' = Append(got, fifo_front(rx))
    /\ UNCHANGED <<tx, device, controller, left, hold, byte, line>>

\* bm_uart_flush(): the FIFO is empty before the device is.
FlushFifo ==
    /\ MainStep("flush", IF fifo_empty(tx) THEN "flush_temt"
                         ELSE IF use_irq THEN "flush" ELSE "fill_test")
    /\ UNCHANGED <<controller, byte, got>>

\* Mutant: the shift register is not waited for.
FlushDevice_Thre ==
    /\ MainStep("flush_temt", IF THRE THEN "done" ELSE "flush")
    /\ UNCHANGED <<controller, byte, got>>

FlushDevice ==
    /\ MainStep("flush_temt", IF TEMT THEN "done" ELSE "flush")
    /\ UNCHANGED <<controller, byte, got>>

AfterFill == IF use_irq THEN "enable" ELSE "flush"

Call == CallTransmit \/ CallReceive \/ CallFlush

InCall ==
    \/ InitBuffers \/ ResetFifos \/ InitIer \/ InitEnable
    \/ WaitToTransmit \/ PutThr \/ Disable \/ PushByte \/ Enable
    \/ Fill("main", AfterFill)
    \/ TestReceive \/ GetRbr \/ PopByte
    \/ FlushFifo \/ FlushDevice
-----------------------------------------------------------------------------
(* bm_ext_irq_handler() and bm_uart_handle_irq() *)

IsrStep(from, to) ==
    /\ Step("isr", from, to)
    /\ UNCHANGED <<left, hold, byte, got>>

\* The external interrupt is taken between two steps of the program.
TakeTrap ==
    /\ Claimable
    /\ IsrStep("none", "claim")
    /\ UNCHANGED <<fifos, device, controller, line>>

IsrClaim ==
    /\ IsrStep("claim", IF Claimable THEN "iir" ELSE "none")
    /\ Claim
    /\ UNCHANGED <<fifos, device, line>>

\* The read of IIR reports the interrupt of the highest priority, and clears it
\* if it is that of the transmitter.
IsrReadIir ==
    /\ IsrStep("iir", IF Irq THEN "clean" ELSE "complete")
    /\ thri' = (thri /\ rxi)
    /\ UNCHANGED <<fifos, txHw, rxHw, shift, rxi, ier, controller, line>>

\* One round of clean_rx_fifo()'s loop: a byte there is no room for is dropped.
CleanRxFifo ==
    /\ IsrStep("clean", IF DR THEN "clean" ELSE "fill_test")
    /\ IF DR
       THEN /\ ReadRbr
            /\ rx' = fifo_push(rx, Head(rxHw))
            /\ lost' = IF fifo_full(rx) THEN lost \cup {Head(rxHw)} ELSE lost
       ELSE UNCHANGED <<rx, rxHw, rxi, lost>>
    /\ UNCHANGED <<tx, txHw, shift, thri, ier, controller, sent, arrived>>

IsrComplete ==
    /\ IsrStep("complete", "none")
    /\ Complete
    /\ UNCHANGED <<fifos, device, line>>

Isr ==
    \/ TakeTrap \/ IsrClaim \/ IsrReadIir \/ CleanRxFifo
    \/ Fill("isr", "complete") \/ IsrComplete
-----------------------------------------------------------------------------
Next == Device \/ Latch \/ Call \/ InCall \/ Isr

Spec == Init /\ [][Next]_vars

\* The device and the controller work, the handler runs when it is called, and
\* the program gets on with a call it has made.  It need not make any.
FairSpec ==
    /\ Spec
    /\ WF_vars(ShiftIn) /\ WF_vars(ShiftOut) /\ WF_vars(RaiseRx)
    /\ WF_vars(Latch) /\ WF_vars(Isr)
    /\ WF_vars(InCall)
-----------------------------------------------------------------------------
Fifo(B) == [start : 0 .. Size - 1, pos : 0 .. Size - 1, buffer : [0 .. Size - 1 -> B]]

\* The two FIFOs keep their indices in the buffer, the device its depth.
TypeOK ==
    /\ tx \in Fifo(0 .. MaxTx) /\ rx \in Fifo(0 .. MaxRx)
    /\ txHw \in Seq(1 .. MaxTx) /\ Len(txHw) <= HwSize
    /\ rxHw \in Seq(1 .. MaxRx) /\ Len(rxHw) <= HwSize
    /\ shift \in 0 .. MaxTx
    /\ {use_irq, thri, rxi, ier, irqOn, irqPending, irqActive} \subseteq BOOLEAN
    /\ left \in [{"main", "isr"} -> 0 .. HwSize]
    /\ hold \in [{"main", "isr"} -> {<<>>} \cup {<<b>> : b \in 1 .. MaxTx}]
    /\ byte \in 0 .. MaxTx /\ got \in Seq(1 .. MaxRx)
    /\ sent \in Seq(1 .. MaxTx) /\ arrived \in 0 .. MaxRx
    /\ lost \subseteq 1 .. MaxRx

\* The number of bytes bm_uart_transmit_byte() has taken over.
Taken == IF pc["main"] \in {"transmit", "disable", "push", "thr"} THEN byte - 1 ELSE byte

\* Every byte transmitted is on its way, once, and in order, whatever the
\* program and the handler do to the FIFOs: the device, which cannot say that
\* it is full, is never given more than it takes.
TransmitInOrder ==
    sent \o (IF shift = 0 THEN <<>> ELSE <<shift>>) \o txHw \o hold["main"] \o hold["isr"] \o Contents(tx)
       = [i \in 1 .. Taken |-> i]

\* bytes received, waiting in the driver and waiting in the device
Received == got \o Contents(rx) \o rxHw

\* Every byte that arrived is received once, and in order, or was lost.
ReceiveInOrder ==
    /\ \A i, j \in 1 .. Len(Received) : i < j => Received[i] < Received[j]
    /\ {Received[i] : i \in 1 .. Len(Received)} = (1 .. arrived) \ lost

\* bm_uart_flush(), "Wait for characters to transmit": all have left the device
\* when it returns.
FlushIsComplete ==
    pc["main"] = "done" => Len(sent) = MaxTx

\* Every call returns: of those that wait in a loop, one that transmits finds
\* room in the end, and one that flushes finds the FIFOs empty.
CallsReturn ==
    pc["main"] # "app" ~> pc["main"] \in {"app", "done"}

\* Every byte transmitted leaves the device: no interrupt is missed.
EveryByteIsSent ==
    \A n \in 1 .. MaxTx : Taken >= n ~> Len(sent) >= n

\* With interrupts, every byte that arrives reaches the driver or is lost: the
\* device never waits for a handler that does not come.
EveryByteIsNoticed ==
    use_irq => (rxHw # <<>> /\ pc["main"] = "app" ~> rxHw = <<>>)
=============================================================================
