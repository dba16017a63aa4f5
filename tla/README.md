# Verification of the bare-metal HAL and its boot loader

TLA+ modules for the multi-hart, interrupt and boot code of this repository:
a library that runs on RISC-V cores without an operating system
(`src/lib`), the file system and the card driver that come with it
(`src/lib/fatfs`), the first stage boot loader (`src/software/fsbl`), and the
demos under `src/software` that show how the parts are meant to be used
together. TLC checks the modules on small instances; TLAPS proves nearly all of
the safety properties for every value of the constants: those of the barrier, the
locks, the hart pool, the timer, the modes, the external interrupts, the counters,
the UART, the boot loader, the SD card, the flash, the AEAD core, the file calls and
the file system's volume.

Run `tlc -config X.cfg M` for a run of `PROJECT.json`, and `tlapm M.tla` for one
of the proof modules.

## 1. Inventory

There is no scheduler. Concurrency has three sources: several **harts** that
share memory (`mp.c`, `barrier.c`, `mutex.c`), **traps** that interrupt the
program of a hart anywhere (`interrupt.c`, `priv.c`), and **devices** that go on
by themselves (CLINT, GPIO, interrupt controllers, UART, SD card, flash chip,
AEAD core, performance counters). There is no allocation and almost no error
recovery; most of what can go wrong is an order of steps. Two parts keep state
over a power failure: the file system and the flash driver.

| Component | State | Operations | Interacts with | Hard behaviour |
|---|---|---|---|---|
| Barrier `barrier.c` | `waiting`, `done`, each hart's sense | init, wait | harts through memory | a fast hart reuses the barrier while a slow one is still spinning; wrap-around; store order |
| Mutex `mutex.c` | one word | init, trylock, lock, unlock | harts, handlers | mutual exclusion, lost unlock, handler that blocks on its own program |
| Hart pool `mp.c`, `crt0.S` | `ready`, `func`, `arg` per hart; `.bss` | park, start, running, join, execute_all | `crt0.S` starts every hart, FSBL and demos start jobs | hand-over through three words without a lock; boot order |
| CLINT `clint.c` | `MTIME`, `MTIMECMP`, `MSIP` | get_mtime, set_mtimecmp, arm, rearm, set/clear IPI | timer and software interrupts | 64 bit registers in two halves, interrupt in between |
| Trap handling `interrupt.c`, `priv.c` | `bm_current_mode`, `mstatus`, `xepc`, `xcause` | managed handler, enter_mode | every handler | nested traps, mode changes, one variable for all harts |
| Counters `counter.c` | a 64 bit counter in two CSRs | read, clear, pause, resume | the running clock | carry between two reads |
| UART `uart.c` | software FIFOs, device FIFOs, IER/IIR/LSR | init, tx, rx, flush, try variants, handler | PLIC, console system calls | program and handler share FIFOs; an interrupt cause that is consumed by reading it |
| PLIC, PIC, CLIC `plic.c`, `pic.c`, `clic.c` | enables, priorities, claims, flags | enable, disable, claim, complete | handler table of `interrupt.c` | read-modify-write against a handler, lost requests |
| SD card `mmc.c` | `Stat`, `CardType`, the card's own state | initialize, status, read, write, ioctl | SPI, GPIO, FatFs | removal and exchange of the card, errors in the middle of a transfer, retries |
| FSBL files `sys_hw.c`, `file.h` | file table, mount | open, close, lseek, read, size | FatFs, C library | the last close unmounts; error paths that leak |
| FSBL `main.c`, `loader.c`, `parser.c` | configuration, RAM, harts | parse, load, check harts, start | files, hart pool, CLINT clock | overlap with itself, partial failure, late harts |
| GPIO `gpio.c` | shadow of the outputs, IPISR | set, clear, init_irq, set_irq, clear_irq | interrupt controllers, a handler | a status bit that toggles; a shadow shared with a handler |
| HPM events `target_hpm.c` | table of claimed counters, event CSRs | start, stop, pause, resume, read | `counter.c` | more events than counters, what a counter keeps from its last event |
| Flash `s25fl128s.c`, `spi.c` | none; the chip's contents, write enable and work in progress | read, sector_erase, page_program, write | the chip over SPI | waits, page and sector boundaries, failures and power loss in a rewrite |
| AEAD `aead.c` | none; the core's two FIFOs | run | the core | feeding one bounded FIFO while the other one fills |
| FatFs `ff.c` | sector window, FAT and directory on the card, free count, file object and its buffer | mount, open, read, write, lseek, truncate, sync, close, unlink, rename, getfree | `mmc.c`, FSBL, `sd-card-demo` | order of writes when the card or the power fails; three copies of a sector |
| I2C, TRNG, PMP, ID registers | device registers | | their demos | see section 6 |
| System calls `sys_semihost.c` | `open_fd`, `fp` (handle and position per descriptor) | open, close, read, write, lseek | C library, the host that runs the debugger | descriptors, handles and positions that must agree on both sides |
| System calls, others | heap pointer; the UART | sbrk, exit, UART read and write | C library | see section 6 |
| tiny printf | third party | | | not modelled |
| RTOS, memory and other demos | | | | applications; not modelled |

What makes each of them correct:

* **Barrier**: nobody leaves before all have entered; uses do not overlap by
  more than one; nobody is stuck.
* **Mutex**: one holder; the word is set exactly while there is a holder;
  everybody who waits gets it in the demo.
* **Hart pool**: a worker calls the function and the argument of one and the
  same call, once; a join waits for it; execute_all reaches all harts.
* **CLINT**: no interrupt before the time asked for; no drift; no lost wake-up.
  For IPIs, the ring of the demo prints everything in order and ends.
* **Traps**: `bm_current_mode` equals the hart's mode whenever somebody reads it;
  a handler reads the cause of its own trap; an entry reaches what was asked.
* **Counters**: a value read is one the counter had during the call.
* **External interrupts**: a request runs its handler once, the higher priority
  first, none below the threshold or while disabled, and no request gets stuck in
  a device or a controller.
* **HPM events**: what is read for a started event is how often it came.
* **Flash**: a call that succeeds has written its data and nothing else; a failure
  damages only what the call was to write.
* **AEAD**: all blocks of the result, the tag of the whole command, no deadlock.
* **FatFs**: no cluster has two users, none in use is free; what a call has
  reported as done survives any failure; reads see what was written.
* **System calls**: a descriptor reaches the file it was opened for, at the position
  the program counts along.
* **UART**: bytes leave and arrive in order, none is lost inside the driver, none
  is forgotten in it, `flush` means that everything is out.
* **SD card**: the sectors asked for and no others; a card at rest after every
  call, also a failed one; a card that is there is found.
* **FSBL**: a payload is started only over a complete image of the
  configuration, on all harts, with the FSBL's own memory untouched and the card
  released.

`PROJECT.json` lists the hazards at their lines, with the properties that cover
each of them or the reason why none does yet.

## 2. Modules

One action is one access to shared memory, to a device register or to a CSR,
wherever another actor may come in between; what nobody can observe is part of
the action it belongs to. The program counters (`pc`, `mpc`, `bpc`, `step`, `isr`)
name the place in the function. Variables named *history* in their comments are
read by properties only. Definitions named `Operation_Variant` are mutants: the
operation with a bug, used to see that a property can fail.

| Module | Models | State and actions |
|---|---|---|
| `AbstractBarrier` | what a barrier promises | the number of uses each hart has entered and left |
| `Barrier` | `bm_barrier_init`, `bm_barrier_wait` | `waiting`, `done`, `counter[h]`; `Enter` (lines 42-48), `Arrive` (the `amoadd`), `ResetWaiting`, `LoadDone`, `StoreDone`, `Fence`, `SpinExit`. Counters are modulo `W`, the width of the `unsigned` |
| `RelaxedBarrier` | the same under RVWMO | adds `buffered`: the store `waiting = 0` may become visible after `done++`, up to the fence |
| `Mutex` | `bm_mutex_*` | the word; `TryLock`, `Lock`/`Spin`, `Unlock` |
| `MutexDemo` | `mutex-demo.c` | `Mutex` with the lines each hart prints |
| `HartPool` | `mp.c`, start of `crt0.S`, callers | per hart `ready`, `func`, `arg` and the registers of `bm_park_hart`; the main hart's calls. Worker actions `Park`, `Awake`, `FetchArg`, `FetchFunc`, `RunJob`, `JobReturns`, `ClearReady`; main's `StartBusy`, `StartFree`, `StoreArg`, `StoreFunc`, `SetReady`, `RunOwn`, `Joined` |
| `ClintIpi` | `clint-ipi.c` | instances of `Barrier` and of `Mutex` whose clients are the harts *and* their handlers; `msip`, `mie`, the handler as a second thread of its hart |
| `PrivMode` | `bm_priv_enter_mode`, `bm_managed_handler_inner` | `cur` (`bm_current_mode`, one for all harts); per hart its real mode, xIE/xPIE/xPP, xepc, and a stack of the program and its handlers |
| `ClintTimer` | `clint.c`, `wfi-demo.c` | MTIME and MTIMECMP as two words of base `W`; program, handler and clock |
| `CounterRead` | `bm_counter_read`, `bm_counter_clear`, `bm_counter_pause`, `bm_counter_resume` | the counter as two words of base `W`, running at any rate |
| `UartDriver` | `uart.c`, the part of `interrupt.c` and `plic.c` it runs under | software FIFOs as ring buffers, device FIFOs, interrupt causes, gateway; program calls interleaved with the handler |
| `SdCard` | `mmc.c` | `Stat`, `CardType`; the card (external) as a state machine per kind that answers commands and may be busy for any time; removal and insertion |
| `SdFiles` | `sys_hw.c`, `file.h` | file table, positions, mount; every call may fail if `Faulty` |
| `Fsbl` | `main.c`, `loader.c`, `parser.c` | extends `SdFiles`; RAM as cells that remember which byte of which file they hold; menu, configuration, harts |
| `ExtIrq` | `plic.c`, `pic.c`, `clic.c`, `gpio.c`, the external part of `interrupt.c`, and the five interrupt demos and `gpio-interrupt-demo` as programs | the hart's statement and access (`pc`, `half`), its handler (`stage`, `irq`); the controller's enables, priorities, threshold, pending and claimed requests; IPISR, shadow and LEDs. A register access is an action; `Trap`, `Claim`, `Handle`, `ClearIpisr`, `Complete` are the handler |
| `Hpm` | `target_hpm.c` of L730, A730, X730, V730 (the same file) | `claimed`, the event CSRs, the counters and `mcountinhibit`; one action per call |
| `SpiFlash` | `s25fl128s.c` | what is left to write and to program; the chip: contents, write enable, work, error bits. One action per SPI command |
| `Aead` | `bm_aead_run`, `aead_data_in_out` | counts of blocks, the value of `FIFO_STATUS` that was read; the core's FIFOs. One action per register access |
| `FatFs` | `ff.c` | one record `fs`: the card, the window (`win`, `at`, `wflag`), free count and hint, the file object with its buffer. Each internal function of `ff.c` is an operator from `fs` to `fs`, a loop the fold of its rounds (`Repeat`), each API call an action |
| `SemiHost` | `sys_semihost.c`, `_open` to `_lseek` | `open_fd`, `fp`; the host's handles and lengths of files (external); `want`, what the program may expect of each descriptor; one action per call |
| `MC...` | instances for TLC | constants; `MCLocks`, `MCTraps` and `MCDevices` put several small modules in one run, of which `which` picks one initially; the configuration `MCSdCard` of `MCDevices` is a run about the SD card alone. `MCTrapOnEntry`, `MCTwoHartsModes`, `MCTornRead`, `MCFsblSpanning` and `MCFsblLateHart` are configurations for section 5 |
| `...Proof` | proofs | `BarrierProof`, `HartPoolProof`, `UartProof`, `FsblProof` and `FatFsProof` about the module they are named after; `LocksProof`, `TrapsProof` and `DevicesProof` about those that the `MC` module of that name puts together |

Composition: `MutexDemo` and `ClintIpi` instantiate `Mutex` (and `Barrier`),
`RelaxedBarrier` extends `Barrier`, `Fsbl` extends `SdFiles`, `MCBarrier`
instantiates `AbstractBarrier` through `Barrier`'s refinement mapping. In `ExtIrq`
the devices, the controller, the dispatcher and the demo's program are composed
in one state, because every hazard there is between two of them.

### Abstractions a reader should know of

* Memory is sequentially consistent, except in `RelaxedBarrier`. `mutex.c` and
  `mp.c` use no `aq`/`rl` bits or fences either; what RVWMO makes of them is not
  modelled yet.
* `HartPool` has the constant `LateBoot`: with `FALSE`, hart 0 enters `main()` only
  when every other hart has parked, which nothing in `crt0.S` ensures; the passing
  run and the theorems are about that case, and `MCHartPoolLateBoot` shows the
  other one.
* `PrivMode`: a program may enable and disable its interrupts anywhere, as
  `privilege-interrupts.c`, which enters a mode with interrupts enabled, and others do.
  Every hart has one program; the harts share `bm_current_mode` and nothing else.
* `ClintTimer`: a hart makes at least one step per tick of MTIME except where it
  waits, and any number of steps between two ticks. MTIME may carry between the two
  loads of a 32 bit read; `torn` remembers that it did.
* `UartDriver` takes the interrupt line as latched by the PLIC gateway while
  the cause is pending; the PIC behaves alike for a level that stays up.
* `ExtIrq`: an interrupt may be taken between any two accesses of a statement; it
  is taken at the latest before the next statement, since each begins with
  output, a delay, or a write of MIE. The handler is not interrupted. Priorities
  are levels 1, 2, 127, 255 as the demos use them.
* `Hpm`: a counter is read and cleared as a whole (`CounterRead` takes that apart).
  With `Orderly`, the program pauses only events it has started, and resumes an
  event before it stops it.
* `SemiHost`: a file is its length, what is written to it is left out. The host may
  refuse to open and may write less than asked. It gives any free one of its
  `Handles`, which may equal descriptors, as on a host that hands out small numbers.
  `_close()` then closes what has the descriptor's number, and `SEEK_CUR` is relative
  to `fp[fd].pos`, as in the code. The history `want` says what the program may
  expect of a descriptor, and stops where the code is known to go wrong: for the
  descriptors whose handle a close of another one has hit (`Cut`) until they are opened
  again, and for the position after a seek relative to a transfer (`Unknown`) until the
  next `SEEK_SET` or `SEEK_END`.
* `SpiFlash`: a byte is one bit, erased or cleared. The chip programs by clearing,
  wraps round in a page, erases by sectors, ignores commands while it works, and
  may fail halfway.
* `FatFs`: a cluster is one sector, the data of a file is its own name, so that
  data of another file are recognised. Each call has a number of accesses to the
  card after which the card fails (`fuel`); then the code's error path runs
  and returns the error, or that was the power going off. As everything
  else is sequential this explores all places a call can be cut at.
* `SdCard`: SPI exchanges of one command are one step. The card's reaction is
  modelled from what `mmc.c` expects of it. A card that stores a block holds its output
  low for as long as it likes, so that each `wait_ready()` may time out: the command,
  the block or the stop token is then not sent. After a reset of the hart the card is
  not storing any more: that takes it a fraction of a second. ACMD23 (a hint) and
  `MMC_disk_ioctl` are left out.
* `Fsbl`: a line of `config.txt` is the entry `parse_entry()` makes of it; the
  hand-over of the payload's job to a hart is one step (`HartPool` has the
  details). A hart may be late by any time, in its boot and at its jobs. Payloads of the
  menu go through the same loader, which does not test for overlaps. A boot loader that
  has written over its own memory is `lost`: nothing more is said of it.

## 3. Runs

| Run | Bounds | Question and answer |
|---|---|---|
| `barrier` | 3 harts, counters mod 3 | Is it a barrier, and is a hart in it ever stuck? It implements `AbstractBarrier` with its liveness, and counts arrivals exactly. Three harts are a last one, a slow one and a fast one that comes back; an odd modulus wraps out of phase with the two halves of a use |
| `barrier_relaxed` (violation) | 2 harts, mod 3 | Stuck, if the store of `waiting` is seen after that of `done` |
| `hart_pool` | 3 harts, 3 calls | Jobs whole, once, waited for. Three calls are needed to start, find busy and start again while the other worker is anywhere |
| `hart_pool_late_boot` (violation) | 3 harts, 1 call | A hart that boots late drops a job that was given to it |
| `locks` | `clint-ipi` with 3 harts in a ring; `mutex-demo` with 3 harts, 2 rounds | Exclusion; sends before receives; both demos end, so no handler spins on the lock of the program it interrupted. A second round lets a hart compete with those still in their first |
| `traps` | `wfi-demo`: words of base 9, 71 ticks, 2 interrupts; 2 harts of mode changes, traps nested as deep as they go; all external interrupt demos, switches flipped twice | Timer: no stray interrupt, no drift, no lost wake-up, for 32 and 64 bit harts, polling and `wfi`; the delay crosses a carry, and MTIME may carry while it is read. The measurement ends also after a torn read, but not with the interrupts it was to count. Modes: right in every nesting, which the program, an S and an M mode handler bound, with interrupts enabled or not, while one hart has the variable to itself or none has dropped its level (`Telling`: what comes after that is not explored, since the property is silent for good); a trap amid the last CSR writes of `bm_priv_enter_mode()` spoils its own program, not the handlers. External interrupts: a handler runs once for a request, those of the demos in the order announced, and no request gets stuck; a second flip comes while the first is handled |
| `trap_on_entry` (violation) | 1 hart of mode changes | With interrupts enabled, `bm_priv_enter_mode()` may enter another mode or place than it was asked for |
| `uart` | FIFOs of 2, device of 1, 3 bytes out, 3 in | With interrupts and without, chosen by `Init`: order, no loss, `flush`, every byte gets out. More bytes than a FIFO holds, so that it wraps and fills |
| `sd_card` (`MCDevices`) | 4 kinds, 4 sectors, transfers of 1-2, 2 exchanges | With and without power control, chosen by `Init`, and a card busy for any time: sectors exact, card found, calls return while nobody takes the card, and the card at rest after every call but a write whose stop token timed out, which is the exception the code makes. Two events are the card out and another one in, within one call |
| `fsbl` | configurations of up to 2 entries out of 8, menu, 3 harts late by any time, any call but a read of `config.txt` fails (`ReadErrors = FALSE`, section 5) | A payload is started only over a complete image, card released; FSBL intact but for payloads that enclose its RAM, of which there is one, and for the menu; the boot ends, with every hart in the payload that is not still at the job that examines it when it is to be started. Payloads of 2 and 3 cells touch the 3 cells of the FSBL's RAM from both sides, and one of 5 reaches over both ends |
| `fatfs` | 2 files, 5 clusters, files of up to 2 sectors, FAT of 2 sectors; 9 calls with a failure anywhere, or 10 without one in a directory that must grow | Clusters have one user; promises are kept; reads are exact; the free count is right. Nine calls mount, write and close two files and delete or overwrite one; two FAT sectors let links of a chain reach the card at different times |
| `devices` | flash of 2 sectors of 2 pages of 2 bytes, 2 calls, 1 failure; FIFOs of 2, commands of up to 3 + 5 blocks; 2 descriptors, files and handles, one handle with the number of a descriptor; words of base 3; 3 events, 2 counters, counts to 2 | Flash: writes exact over all boundaries, damage local; data of 0, 1, 3 and 6 bytes start anywhere. AEAD: commands exact; 5 blocks are more than both FIFOs hold. Files: a descriptor reaches its file at the right position, also when it or its handle is reused while the other one is open. Counters: a value read is one of the call; events are counted exactly, three of them on two counters make each change hands. The calls of flash and AEAD return |

Deadlock is checked wherever the program never ends. `CHECK_DEADLOCK FALSE` is
set for the demos and the boot, which end; for the UART, which stops after
`MaxTx` and `MaxRx` bytes; for `FatFs` and the flash, whose calls
are bounded, and `SemiHost`, whose host runs out of handles (`_close()` frees only one whose number is a descriptor's); for `RelaxedBarrier`, whose point is the deadlock; and
for the SD card, where a read from an absent card waits for ever.

Some more properties are stated next to these and hold when they are added to the
run's configuration: `Barrier` `TypeOK`, `ReleaseIsExclusive`, `InStep` (all proved),
`HartPool` `TypeOK` (proved) and `JobsAreRun`, `HandlerNeverBlocksOnItself` (proved)
and `LinesInPairs` of the locks, `ClearIsComplete` (proved) and `ReadReturns` (with
`FairSpec`) of the counters, `CallsReturn` and `EveryByteIsNoticed` of the UART.

### Fairness

* Weak fairness of each hart's steps: harts are cores of their own, nothing
  preempts them for good. `Barrier` distinguishes being inside a call (`FairSpec`)
  from calling again and again (`LoopSpec`, which is checked).
* Weak fairness of a handler whose interrupt is pending and enabled: the core
  takes it. Nothing makes a program call a driver: `InCall` is fair, the first
  step of a call is not.
* Devices: the UART shifts bytes in and out, the clock ticks, the flash chip ends
  what it does, the AEAD core works off its input; a counter need not run, a
  switch need not be flipped.
* `MutexDemo` needs weak fairness only: test-and-set promises no order, but every
  hart has a bounded number of rounds, so in the end the lock stays free for the
  one that still wants it.
* `SdCard` uses strong fairness for a card that leaves its idle state: the SD
  specification promises it, the code only asks again.

## 4. Proofs

All proofs are checked by `tlapm` with SMT, Zenon and LS4 and rest on the
assumptions on constants that the modules state (`NAssumption`, `WAssumption`,
...), which TLC evaluates in the runs.

* **Barrier** (`BarrierProof`), any finite non-empty set of harts, any width of
  at least 2. The inductive invariant `IInv` is `TypeOK`, `ReleaseIsExclusive`
  (at most one hart is past the last arrival, and all others spin),
  `InStep` (senses differ from `done` by one step at most), `WaitingIsExact`
  (`waiting` is the number of harts that have arrived) and `LoadedIsCurrent`.
  `WaitingIsExact` alone is not inductive: the reset is right only if no hart can
  arrive meanwhile, which is `ReleaseIsExclusive`, which in turn needs the count.
  From it `BarrierCorrect`: every step is a step of `AbstractBarrier` or stutters.
* **Mutex** (`LocksProof`), any set of clients: exclusion is inductive together
  with the statement that the word is set exactly while somebody holds it.
* **IPIs** (`LocksProof`), any number of harts in the ring and any width of the
  barrier's counters: `IpiInv` is the barrier's own `IInv`, which every step of
  the demo preserves because it is a step of `Barrier` or leaves it alone; that
  all harts have left the barrier equally often but for the use that is being
  left (`Meets`); and that an interrupt is pending, handled or printed only after
  a hart has left the second barrier (`Received`), which no hart reaches before
  it has printed that it sends. `StepRefines` of `BarrierProof` gives the proof
  what it needs of the barrier: what `AbstractBarrier` promises. `HandlerInv` says
  where a hart's program and its handler hold the lock and that interrupts are
  disabled from one statement to the other, so that no handler waits for its
  own program.
* **Hart pool** (`HartPoolProof`), any number of harts and calls, under
  `LateBoot = FALSE`. `IInv` says for each hart what has happened before `main()`
  (`Booting`), that the three fields and the worker's copies belong to one call from
  the end of `bm_hart_start` to the end of the job (`Handover`), and which jobs it
  has run (`Runs`); for the main hart that it writes only the fields of a hart
  that is free (`StartInv`) and how far `bm_hart_execute_all` has come
  (`ExecuteAllInv`). The theorems read the four safety properties off it.
* **Counter** (`DevicesProof`), any word size. A read in progress keeps each
  word it has read between the counter's value at the call and its value now;
  that both reads of the upper word agree then pins the lower one.
* **HPM events** (`DevicesProof`), any number of events and counters, under
  `Orderly = TRUE`: no event has two counters, a counter that is paused belongs
  to an event that the program has paused, and each counts what it should since
  it was claimed.
* **Modes** (`TrapsProof`), any number of harts, any nesting of handlers, with
  interrupts enabled or not; what is excepted is in the property, `ModeIsAccurate`,
  and section 5 shows that it cannot be left out. `ModesInv` relates the stack of
  handlers to the hart: the mode it runs in is the one of the topmost handler's
  place (`RunsIn`), each level has saved the mode it interrupted (`Saved`), and
  `bm_current_mode` is the mode that was set last on the way up or down
  (`Current`). For a hart that shares the variable these say less, and for
  a program that a trap has hit between its writes of the CSRs they are kept for the
  levels above it.
* **Timer** (`TrapsProof`), any width of the words and any delay, MTIME carrying
  at any moment of its being read: `TimerInv` says what the two words of MTIMECMP hold between the three
  stores of program or handler (`Storing`), and that it is a multiple of the delay
  after the first trigger when no call is storing it.
* **External interrupts** (`TrapsProof`), all demos on all three controllers, any
  number of flips, with `StaleIrq = FALSE` (section 5): a request that has been
  raised is in one of the places from the device's IPISR over the controller to the
  handler, and not in two of them as one to be handled (`Owed`), so that what has
  been handled and what is owed is never more than what was raised (`Counted`).
  `Latched` says what the controller and the device hold at each place of the
  handler: the PLIC gives no second claim before the completion, the CLIC's
  pending bits are the device's, and IPISR is toggled only while it is set.
* **UART** (`UartProof`), any sizes of the FIFOs and any number of bytes, with
  interrupts and without: program and handler never use the FIFOs at a time
  (`Exclusion`), a byte in a local variable counts as in its place of the order
  (`Holding`), and what the program has tested before the handler ran is still true
  (`StillTrue`); only with these is the order of the bytes inductive.
* **Boot loader** (`FsblProof`), any number of harts, any sizes of files, memories
  and buffers, any configuration, any calls failing. `Descriptors` says which files
  are open at which place of the code, `HartsWait` that no hart enters the payload
  before hart 0 has finished, `Progress` what `parse()`, `process_entry()` and
  `load()` have done so far of the lines read. `LoadedAsConfigured` needs
  `ReadErrors = FALSE`; the others need nothing. `FsblIsIntact` rests on `Spared`:
  while `config.txt` is being read, each byte still to be copied goes to a cell outside
  the loader's RAM, unless the entry encloses it, which is what the two comparisons
  of `process_entry()` leave open.
* **AEAD** (`DevicesProof`), any depth of the FIFOs and any number of blocks, at
  least one of them payload: `AeadInv` lays all blocks of the command out in one
  line and says how far the driver, the input FIFO, the core, the output FIFO and
  the result have come in it; that what `FIFO_STATUS` said is still enough when
  the driver acts on it is `StatusHolds`.
* **File calls over the debugger** (`DevicesProof`), any number of files, descriptors
  and handles, equal or not, all three ways to seek: descriptors of which something
  is claimed have handles of their own (`Apart`), the host has for each of these the
  file and the position that the program expects (`Reaches`), and a position that
  `fp` keeps is right until the descriptor is used.
* **Flash** (`DevicesProof`), any sizes of pages, sectors and data, any failures:
  `FlashInv` says for each place of the code which part of the chip holds already
  what the call is to leave there, which part is erased and which untouched. The
  chip consists of whole sectors, and so does the code.
* **SD card** (`DevicesProof`), any number of sectors, any number of removals and
  insertions of cards of all kinds, with and without power control. `CardInv` says
  where a card that is still there can be at each place of the driver: what
  `MMC_disk_initialize()` has come to is how the card is addressed, unless it is a
  new one that has not been woken (`Identified`); the card transfers data only
  where the driver expects it (`InTransfer`), or since it has missed a stop token, and
  then nothing it answers lets a call succeed; what has been moved is the
  first part of the request, with the card at the next sector (`Progressing`); and
  why the second attempt finds a card that has stayed (`Stays`).
* **FatFs** (`FatFsProof`), any number of clusters, of FAT and directory entries per
  sector, of names and of sizes, any number of calls in any order, the card or
  the power failing at any access: `VolumeIsSound`. Its hypotheses are those of
  the first volume of the run, of any size: the directory has room for all the names
  (`Room`), which is shown to suffice because no name is in it twice and names are
  as many as entries at most (`RoomLeft`); failures may still come (`faults > 0`); and
  `f_truncate()` and `f_rename()` are not called then, for they do break the volume
  (section 5), and so does stretching a directory. The invariant speaks of two
  cards: the card as it is, which the power may leave, and with the sector that the
  window has still to write (`Seen`), for the code changes one and writes the
  other later. Both are `Sound`, which is local: about one link, or two
  entries. Without the second card the invariant is not inductive, and that the files'
  chains never meet follows from links that are not doubled (`Linked`) and first
  clusters that nobody is linked to (`Owned`). `FileStands` relates the file
  object to the directory, so that neither the entry written by `f_sync()` nor the
  file's buffer can hit something else. For each function of `ff.c` there is a lemma
  about all of its outcomes, and for each loop one about a round of it: the
  order of the two writes of `create_chain()` and of the entry and the chain in
  `f_open()` and `f_unlink()` is what these lemmas rest on.

Only model-checked, and why:

* every liveness property, and the refinement of `AbstractBarrier`'s fairness:
  out of the prover's reach;
* `VolumeIsSound` where no failure is to come, with `f_truncate()`, `f_rename()` and
  a directory that grows: that nothing fails there is a matter of how many accesses
  a call makes, which the proof leaves open on purpose;
* `PromisesAreKept`, `ReadsAreExact` and `FreeCountIsExact` of `FatFs`: they are about
  whole chains, the content of a file in the order of its clusters and the number of
  clusters that are free, which take induction over the length of a chain in every
  step, and the first two need the file's size against that length as well;
* `HandlersRunAsAnnounced` of `ExtIrq`: it is about the order of the handlers in five
  given demo programs, which end; TLC explores them completely.

## 5. Where the code and its documents disagree

The first three are runs of `PROJECT.json`, which quotes the lines. The others are
seen with the third column's configuration, a file of its own or the named run's,
changed as it says and with the property added if it is not in it; TLC then
reports the property as violated.

| Source | What happens | Configuration | Property |
|---|---|---|---|
| `barrier.c:56` | no fence between `waiting = 0` and `done++`: under RVWMO the barrier can deadlock, which its comment (38-40) excludes | `MCRelaxedBarrier` | `NobodyIsStuck` |
| `mp.c:30` | a hart that reaches `bm_park_hart()` after `main()` has started a job on it clears the flag; the job is lost, the join returns | `MCHartPoolLateBoot` | `ExecuteAllReachesAll` |
| `priv.c:496` | a trap between the CSR writes and the `xret` of `bm_priv_enter_mode()` sends the hart elsewhere; `privilege-interrupts.c` calls it with interrupts enabled | `MCTrapOnEntry` | `LevelIsCurrent` |
| `mp.c:95` | `bm_hart_execute_all()` leaves out a hart that is busy | `MCHartPool`, `MaxCalls = 2` | `ExecuteAllAlwaysReachesAll` |
| `priv.c:14` | all harts share `bm_current_mode` | `MCTwoHartsModes` | `LevelIsCurrent` |
| `clint.c:23` | a 32 bit hart reads MTIME in two halves while it carries, and arms the timer far too late | `MCTornRead` | `ArmedFromNow` |
| `pic.c:288` | the flag of a source is cleared after its handler: if the PIC latches edges, a switch flipped in between leaves IPISR set with no interrupt to come | `MCTraps`, `PicEdge = TRUE` | `EveryRequestIsServed` |
| `gpio.c:45` | `bm_gpio_init_irq()` enables the interrupt of a GPIO before it clears an old request: the handler may run for it | `MCTraps`, `StaleIrq = TRUE` | `EachRequestIsHandledOnce` |
| `gpio.c:19` | `bm_gpio_set()` is interrupted between load and store, and undoes what the handler has lit | `MCTraps` | `OnlyClearedLedsGoOff` |
| `target_hpm.c:131` | a counter that is paused when its event is stopped stays paused for the next event | `MCDevices`, `Orderly = FALSE` | `EventsAreCounted` |
| `aead.c:155` | without a payload, the tag is read before the core has worked off the additional data | `MCDevices`, `PayloadSizes = {0}` | `CommandIsExact` |
| `ff.c:4865` | `f_truncate()` frees clusters before the entry is written | `MCFatFs`, `Calls = {"truncate"}` | `VolumeIsSound` |
| `ff.c:5130` | `f_rename()` has two entries for one chain on the way, or none | `MCFatFs`, `Calls = {"rename"}` | `VolumeIsSound` |
| `ff.c:4124` | a failed `f_sync()` or `f_close()` that is tried again reports success though the sectors may not be written | `MCFatFs`, `Calls = {"retry"}` | `PromisesAreKept` |
| `ff.c:1745` | a directory that is stretched links its new cluster before it is known to be cleared on the card | `MCFatFs`, `Volumes <- StretchAndFailure` | `VolumeIsSound` |
| `mmc.c:390` | `STA_NOINIT` is never set again, so the drive still counts as initialized after a re-initialization that failed | `MCDevices` with `MCSdCard.cfg`, `Kinds = {"sd2"}`, `MaxEvents = 1` | `InitReportsFailure` |
| `mmc.c:202` | the "timeout of 200ms" for a data block does not exist | the same, with `DataWaitEnds` | `DataWaitEnds` |
| FSBL `main.c:353` | the last `BOOT` entry wins, the README says the first | `MCFsbl`, `Configs <- MCTwoBoots`, `Faulty = FALSE`, `MaxOpen = 2` | `FirstBootWins` |
| FSBL `main.c:335` | a payload around the FSBL's RAM passes the overlap test | `MCFsblSpanning` | `OverlapsAreRefused` |
| FSBL `main.c:337` | a payload that ends just below it does not | `MCFsbl`, `Configs <- MCTouching` | `OnlyOverlapsAreRefused` |
| FSBL `main.c:586` | a hart that is late for the check is never started | `MCFsblLateHart` | `EveryHartIsStarted` |
| FSBL `parser.c:73` | a read error in `config.txt` counts as its end; it takes a file larger than the C library's buffer | `MCFsbl`, `Configs <- MCLinux`, `ReadErrors = TRUE` | `LoadedAsConfigured` |

Four more places are part of what the runs above explore. Their properties say
what holds in spite of them:

* `sys_semihost.c:186`: `_close()` gives the host the descriptor, not its handle.
  Where that is the handle of another descriptor, the other one's file is closed;
  where it is nobody's, the program's own stays open. `DescriptorsAreExact` claims
  nothing for a descriptor whose handle was closed under it, and holds for all
  others.
* `sys_semihost.c:220`: `SEEK_CUR` is relative to the last seek, not to what has been
  read or written since. `DescriptorsAreExact` claims no position between such a
  seek and the next absolute one, but still the file.
* `mmc.c:484` with 226-227: the stop token of a multiple write is not sent when the
  card stays busy for the 500 ms of `wait_ready()`; the card is left receiving.
  `CardIsAtRest` names this as the only such way out of a call, `CardIsFound` says
  that the next initialization copes with it.
* `mmc.c:390` once more: when the CMD0 of a re-initialization times out on a busy
  card, `CardType` is 0 and the drive still counts as initialized. A card addressed
  in blocks is then accessed as if in bytes. `TransferIsExact` claims transfers of
  a card whose type is known.

## 6. Not modelled

* Third-party code other than FatFs: tiny printf, the RTOS kernels (their sources
  are not in the repository) and their configuration headers.
* Tables: CSR numbers (`encoding.h`, `priv.c` 16-470, most of `counter.c`, `pic.c`
  1-243), addresses (targets and platforms), code pages and case conversion
  (`ffunicode.c`). They are half of the lines of the repository and have no
  behaviour. What they select is modelled as a whole register.
* Of FatFs: sub-directories and long names, FAT12/16, the second FAT (which is
  written and never read), the partition table, `f_stat`, `f_mkdir` and the
  directory calls, and everything that `ffconf.h` disables (exFAT, locking, code
  pages, `f_mkfs`, `f_expand`, string functions).
* I2C, TRNG: polling loops on the status bits of a device. When those bits change
  and how a NACK is reported is not visible in the repository, and every property
  would be about that.
* PMP, ID registers: pure packing, and reads of constants. The system calls over
  the UART are its polled calls in a loop, those of the simulator keep nothing;
  `sbrk` moves one pointer. Memory demos: sequential tests whose results depend only
  on the memory. RTOS demos: tasks over a kernel whose source is not in the
  repository, and which would be most of the model.
* Formatting, baud rates, console output.
* What RVWMO makes of `mutex.c` and `mp.c`.

## 7. Plan

Order: what the rest depends on first, then what is shared between harts, then
handlers, then devices, then the boot loader which uses all of it, then the file
system below it. All modules of the plan are written. What is left:

1. Theorems: `VolumeIsSound` for volumes without failures, from a bound on the
   accesses of each call; `FreeCountIsExact` from the lemmas of `FatFsProof` that say
   which links a call changes; `PromisesAreKept` from a `FileStands` that follows the
   whole chain of a file.
2. Abstract specifications: a bounded queue that the UART's ring buffers implement;
   a hand-over (start, run, join) that `HartPool` implements; a file system that
   `FatFs` implements where `PromisesAreKept` is about single files, and of which
   `SdFiles` is a user.
3. Store-buffer versions of `mp.c` and `mutex.c` along the lines of
   `RelaxedBarrier`.
