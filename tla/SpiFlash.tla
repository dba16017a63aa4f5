------------------------------ MODULE SpiFlash ------------------------------
(***************************************************************************)
(* The driver of the SPI flash, software/spi-demo/src/s25fl128s.c, over    *)
(* lib/src/spi.c.  A command is what the driver sends between the assert   *)
(* and the deassert of the chip select: the chip takes it as a whole.  The *)
(* chip is external: it programs by clearing bits, going round in a page,  *)
(* erases a whole sector, both only after a write enable, and ignores what *)
(* comes while it works, except a read of its status.  It may fail, and    *)
(* the power may fail at any time.                                         *)
(***************************************************************************)
EXTENDS Integers, Sequences

CONSTANTS Page,         \* FLASH_PAGE_PROGRAM_SIZE
          Sector,       \* FLASH_ERASE_SECTOR_SIZE, some pages
          Size,         \* of the chip, some sectors
          Contents,     \* what the chip may hold at first
          Buffers,      \* what the program writes
          MaxCalls,     \* bound on the calls of the program
          MaxFailures   \* bound on the failures of the chip and of the power

Addresses == 0 .. Size - 1
Erased == 1             \* a byte is 0 or 1, which stand for its bits

ASSUME FlashAssumption ==
    /\ Page \in Nat \ {0} /\ Sector \in Nat \ {0}
    /\ Size \in Nat /\ Size % Sector = 0
    /\ Contents \subseteq [Addresses -> {0, Erased}]
    /\ Buffers \subseteq Seq({0, Erased})

VARIABLES
    pc, outcome,            \* the program: where it is, what its call returned
    address, buffer,        \* flash_write(): what is left to write
    paddress, pbuffer,      \* flash_page_program(): what is left to program
    mem, wel, busy, failed, \* the chip: contents, write enable, work, error bits
    call, before,           \* history: the call, and the contents it found
    calls, failures

program == <<address, buffer, paddress, pbuffer>>
chip == <<mem, wel, busy, failed>>
history == <<call, before, calls, failures>>
vars == <<pc, outcome, program, chip, history>>

Lost == 1               \* the outcome of a call that the power interrupted
Rest == [op |-> "none"]
Work(op, a, data) == [op |-> op, address |-> a, data |-> data]
From(a, n) == a .. a + n - 1
PageOf(a) == a - (a % Page)
SectorOf(a) == a - (a % Sector)

Init ==
    /\ pc = "idle" /\ outcome = 0
    /\ address = 0 /\ buffer = <<>> /\ paddress = 0 /\ pbuffer = <<>>
    /\ mem \in Contents /\ wel = FALSE /\ busy = Rest /\ failed = FALSE
    /\ call = Work("write", 0, <<>>) /\ before = mem
    /\ calls = 0 /\ failures = 0
-----------------------------------------------------------------------------
(* The chip *)

\* The bytes that a piece of work changes, and what it makes of them.
Place(work, i) == PageOf(work.address) + ((work.address + i - 1) % Page)
Cleared(work) == {Place(work, i) : i \in {j \in DOMAIN work.data : work.data[j] # Erased}}
Changed(work) ==
    CASE work.op = "erase" -> From(SectorOf(work.address), Sector)
      [] work.op = "program" -> Cleared(work)
      [] OTHER -> {}

Worked(done) ==
    [a \in Addresses |-> IF a \notin done THEN mem[a]
                         ELSE IF busy.op = "erase" THEN Erased ELSE 0]

\* The chip gets a command to program or to erase.
Accept(work) ==
    /\ busy' = IF wel /\ busy = Rest THEN work ELSE busy
    /\ UNCHANGED <<mem, wel, failed>>

Finish ==
    /\ busy # Rest
    /\ busy' = Rest /\ wel' = FALSE
    /\ \/ mem' = Worked(Changed(busy)) /\ failed' = FALSE /\ UNCHANGED failures
       \/ /\ failures < MaxFailures
          /\ failures' = failures + 1
          /\ failed' = TRUE
          /\ \E done \in SUBSET Changed(busy) : mem' = Worked(done)
    /\ UNCHANGED <<pc, outcome, program, call, before, calls>>

\* The power fails, and main() starts again: flash_init() resets the chip.
LosePower ==
    /\ failures < MaxFailures
    /\ failures' = failures + 1
    /\ \E done \in SUBSET Changed(busy) : mem' = Worked(done)
    /\ wel' = FALSE /\ busy' = Rest /\ failed' = FALSE
    /\ pc' = "idle" /\ outcome' = Lost
    /\ address' = 0 /\ buffer' = <<>> /\ paddress' = 0 /\ pbuffer' = <<>>
    /\ UNCHANGED <<call, before, calls>>
-----------------------------------------------------------------------------
(* The driver *)

Goto(from, to) == pc = from /\ pc' = to /\ UNCHANGED <<history, outcome>>

\* while (flash_get_status() & FLASH_STATUS_WIP)
Polled == busy = Rest

Return(from, value) ==
    /\ pc = from /\ pc' = "idle" /\ outcome' = value
    /\ UNCHANGED <<program, chip, history>>

\* flash_simple_cmd(FLASH_OP_WREN), up to its first poll.
Enable(from, to) ==
    /\ Goto(from, to)
    /\ wel' = (wel \/ busy = Rest)
    /\ UNCHANGED <<program, mem, busy, failed>>

\* The program calls flash_write(), flash_sector_erase() or flash_page_program().
Call(op, a, data) ==
    /\ pc = "idle" /\ calls < MaxCalls
    /\ calls' = calls + 1
    /\ call' = Work(op, a, data) /\ before' = mem
    /\ pc' = IF op = "write" THEN "write" ELSE IF op = "erase" THEN "erase" ELSE "page"
    /\ address' = a /\ buffer' = data /\ paddress' = a /\ pbuffer' = data
    /\ UNCHANGED <<outcome, chip, failures>>

\* What flash_write() makes of a sector: its contents, which flash_read() gets if
\* the data do not fill it, with the data in their place.
Image(start) ==
    [i \in 1 .. Sector |->
        LET a == start + i - 1
        IN IF a \in From(address, Len(buffer)) THEN buffer[a - address + 1] ELSE mem[a]]

\* The head of the loop of flash_write(), and flash_read().
NextSector ==
    LET start == SectorOf(address)
        room == start + Sector - address
        n == IF Len(buffer) < room THEN Len(buffer) ELSE room
    IN /\ buffer # <<>>
       /\ Goto("write", "erase")
       /\ paddress' = start
       /\ pbuffer' = Image(start)
       /\ address' = address + n
       /\ buffer' = SubSeq(buffer, n + 1, Len(buffer))
       /\ UNCHANGED chip

WriteEnds == buffer = <<>> /\ Return("write", 0)

\* flash_sector_erase()
EnableErase == Enable("erase", "erase_command")

Erase ==
    /\ Polled
    /\ Goto("erase_command", "erase_wait")
    /\ Accept(Work("erase", paddress, <<>>))
    /\ UNCHANGED program

\* FLASH_STATUS_E_ERR
EraseFails == Polled /\ failed /\ Return("erase_wait", -1)

\* Mutant: the driver does not wait for the end of the erase.
EraseEnds_Early ==
    IF call.op = "write"
    THEN ~ failed /\ Goto("erase_wait", "page") /\ UNCHANGED <<program, chip>>
    ELSE ~ failed /\ Return("erase_wait", 0)

EraseEnds ==
    /\ Polled /\ ~ failed
    /\ IF call.op = "write"
       THEN Goto("erase_wait", "page") /\ UNCHANGED <<program, chip>>
       ELSE Return("erase_wait", 0)

\* flash_page_program()
EnableProgram == pbuffer # <<>> /\ Enable("page", "page_command")

\* Mutant: a page is programmed from wherever the data start.
WriteSize_NoBoundary == IF Len(pbuffer) < Page THEN Len(pbuffer) ELSE Page

\* write_size: what is left of the page.
WriteSize ==
    LET room == Page - (paddress % Page)
    IN IF Len(pbuffer) < room THEN Len(pbuffer) ELSE room

Program ==
    /\ Polled
    /\ Goto("page_command", "page_wait")
    /\ Accept(Work("program", paddress, SubSeq(pbuffer, 1, WriteSize)))
    /\ UNCHANGED program

\* FLASH_STATUS_P_ERR, which flash_write() turns into -2.
ProgramFails ==
    Polled /\ failed /\ Return("page_wait", IF call.op = "write" THEN -2 ELSE -1)

ProgramGoesOn ==
    /\ Polled /\ ~ failed
    /\ Goto("page_wait", "page")
    /\ paddress' = paddress + WriteSize
    /\ pbuffer' = SubSeq(pbuffer, WriteSize + 1, Len(pbuffer))
    /\ UNCHANGED <<address, buffer, chip>>

ProgramEnds ==
    /\ pbuffer = <<>>
    /\ IF call.op = "write"
       THEN Goto("page", "write") /\ UNCHANGED <<program, chip>>
       ELSE Return("page", 0)
-----------------------------------------------------------------------------
Driver ==
    \/ NextSector \/ WriteEnds
    \/ EnableErase \/ Erase \/ EraseFails \/ EraseEnds
    \/ EnableProgram \/ Program \/ ProgramFails \/ ProgramGoesOn \/ ProgramEnds

Calls ==
    \/ \E a \in Addresses, data \in Buffers, op \in {"write", "program"} :
          a + Len(data) <= Size /\ Call(op, a, data)
    \/ \E a \in Addresses : Call("erase", a, <<>>)

Next == Calls \/ Driver \/ Finish \/ LosePower

\* The chip comes to an end with what it does, and the program goes on.
FairSpec == Init /\ [][Next]_vars /\ WF_vars(Driver) /\ WF_vars(Finish)
-----------------------------------------------------------------------------
\* What the call is to make of byte a.
Expected(a) ==
    LET i == a - call.address + 1
    IN CASE call.op = "erase" ->
                IF a \in Changed(call) THEN Erased ELSE before[a]
         [] call.op = "write" ->
                IF i \in DOMAIN call.data THEN call.data[i] ELSE before[a]
         [] call.op = "program" ->
                IF i \in DOMAIN call.data /\ call.data[i] # Erased THEN 0 ELSE before[a]

\* A call that returns 0 has done what it is for, over the ends of pages and of
\* sectors, and has changed nothing else: flash_write() has written its data,
\* flash_sector_erase() erased a sector, flash_page_program() cleared the bits
\* that are clear in its data.
WritesAreExact ==
    pc = "idle" /\ outcome = 0 => \A a \in Addresses : mem[a] = Expected(a)

\* The bytes a call may leave in any state: those of the sectors it writes, of
\* the sector it erases, of the data it programs.
Exposed ==
    LET data == From(call.address, Len(call.data))
    IN CASE call.op = "erase" -> Changed(call)
         [] call.op = "write" -> {a \in Addresses : \E b \in data : SectorOf(a) = SectorOf(b)}
         [] call.op = "program" -> data

\* Nothing outside is ever disturbed, when the chip fails, when the power does,
\* and on the way.
DamageIsLocal ==
    \A a \in Addresses \ Exposed : mem[a] = before[a]

\* A call returns, or the power fails.
FlashCallsReturn == []<>(pc = "idle")
=============================================================================
