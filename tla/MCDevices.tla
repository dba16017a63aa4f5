----------------------------- MODULE MCDevices -----------------------------
(***************************************************************************)
(* Small instances of drivers that work with something that has a state of *)
(* its own, for TLC: the SPI flash (SpiFlash), the AEAD core (Aead), the   *)
(* files of the host (SemiHost), a counter that is read word by word       *)
(* (CounterRead), counters of events (Hpm) or, in a run of its own, the SD *)
(* card (SdCard) is in use.                                                *)
(***************************************************************************)
EXTENDS SpiFlash

CONSTANTS Depth, AdSizes, PayloadSizes,                             \* Aead
          FopenMax, Handles, Files, MaxLength, Flags, Whences,      \* SemiHost
          Kinds, MaxSector, MaxCount, MaxEvents,                    \* SdCard
          CsrValues,                                                \* CounterRead
          Events, NCounters, MaxSeen, Orderly                       \* Hpm

VARIABLES which,        \* the device in use
          stage, num, part, written, read, ready, data_out, tag,  \* Aead
          input, output, absorbed,
          open_fd, fp, host, length, want, used,                \* SemiHost
          power_control, kind, present, powered, card, at, programming, moved,
          events, unstopped, known, noinit, CardType, step, ty, write, sect, count, got, result,
          tries,                                                \* SdCard
          counter, paused, csr, high_tmp, low, high, returned, called, steady,  \* CounterRead
          claimed, selected, hcount, inhibited, wanted, seen    \* Hpm

ASSUME AeadAssumption == Depth \in Nat /\ AdSizes \subseteq Nat /\ PayloadSizes \subseteq Nat
ASSUME CardAssumption ==
    /\ Kinds \subseteq {"mmc", "sd1", "sd2", "sd2block"}
    /\ MaxSector \in Nat /\ MaxCount \in Nat /\ MaxEvents \in Nat

ASSUME FilesAssumption ==
    "cut" \notin Files /\ Whences \subseteq {"SEEK_SET", "SEEK_CUR", "SEEK_END"}

A == INSTANCE Aead
H == INSTANCE SemiHost
C == INSTANCE SdCard WITH pc <- step, written <- moved
R == INSTANCE CounterRead WITH W <- CsrValues, count <- counter, pc <- csr, result <- returned
E == INSTANCE Hpm WITH MaxCount <- MaxSeen, count <- hcount

ASSUME CounterAssumption == CsrValues \in Nat \ {0} /\ E!None \notin Events

avars == <<stage, num, part, written, read, ready, data_out, tag,
           input, output, absorbed>>
hvars == <<open_fd, fp, host, length, want, used>>
cvars == <<power_control, kind, present, powered, card, at, programming, moved,
           events, unstopped, known, noinit, CardType, step, ty, write, sect, count, got, result,
           tries>>
rvars == <<counter, paused, csr, high_tmp, low, high, returned, called, steady>>
evars == <<claimed, selected, hcount, inhibited, wanted, seen>>
others == <<rvars, evars>>
all == <<which, vars, avars, hvars, cvars, others>>

\* What the chip holds first, and what is written: every third byte is clear.
Pattern(n, k) == [i \in 1 .. n |-> IF i % 3 = k THEN 0 ELSE Erased]
MCContents == {[a \in Addresses |-> IF a % 3 = 0 THEN 0 ELSE Erased]}
MCFlags ==
    {{"O_WRONLY"}, {"O_RDWR"}, {"O_WRONLY", "O_CREAT", "O_TRUNC"},
     {"O_RDWR", "O_CREAT", "O_APPEND"}}
MCBuffers == {Pattern(n, k) : n \in {0, 1, 3, 6}, k \in {1, 2}}

Flash(action) == which = "flash" /\ action /\ UNCHANGED <<which, avars, hvars, cvars, others>>
Crypt(action) == which = "aead" /\ action /\ UNCHANGED <<which, vars, hvars, cvars, others>>
Debugger(action) == which = "semihost" /\ action /\ UNCHANGED <<which, vars, avars, cvars, others>>
Socket(action) == which = "sd_card" /\ action /\ UNCHANGED <<which, vars, avars, hvars, others>>
Csrs(action) ==
    which = "counter" /\ action /\ UNCHANGED <<which, vars, avars, hvars, cvars, evars>>
HpmEvents(action) ==
    which = "hpm" /\ action /\ UNCHANGED <<which, vars, avars, hvars, cvars, rvars>>

\* What is not explored stays in one of its initial states.
PartsInit ==
    /\ Init /\ A!Init /\ H!Init /\ C!Init /\ R!Init /\ E!Init
    /\ which = "semihost" \/ length = [f \in Files |-> 1]
    /\ which = "sd_card" \/ (~ power_control /\ ~ present /\ kind = CHOOSE k \in Kinds : TRUE)
    /\ which = "counter" \/ (counter = <<0, 0>> /\ ~ paused)

DevicesInit == which \in {"flash", "aead", "semihost", "counter", "hpm"} /\ PartsInit
DevicesNext ==
    \/ Flash(Next)
    \/ Crypt(A!Next)
    \/ Debugger(H!Next)
    \/ Csrs(R!Next)
    \/ HpmEvents(E!Next)

\* Nothing makes a program open a file or read a counter.
DevicesSpec ==
    /\ DevicesInit /\ [][DevicesNext]_all
    /\ WF_all(Flash(Driver)) /\ WF_all(Flash(Finish))
    /\ WF_all(Crypt(A!Driver)) /\ WF_all(Crypt(A!Absorb))

\* The SD card takes a run of its own.
CardInit == which = "sd_card" /\ PartsInit

CardSpec ==
    /\ CardInit /\ [][Socket(C!Next)]_all
    /\ WF_all(Socket(C!Driver))
    /\ SF_all(Socket(C!SendOpCond2 /\ card' = "ready"))
    /\ SF_all(Socket(C!LeaveIdle /\ card' = "ready"))

\* bm_aead_run() gets all blocks of the result in their order, and the tag of the
\* whole command.
CommandIsExact == A!CommandIsExact

\* See SemiHost: an open descriptor reaches its own file, where the calls left it.
DescriptorsAreExact == H!DescriptorsAreExact

\* flash_write() and the other calls return or the power fails, and bm_aead_run()
\* returns: neither waits for a device that waits for it.
CallsReturn ==
    /\ which = "flash" => FlashCallsReturn
    /\ which = "aead" => A!RunReturns

\* See SdCard: a transfer moves the sectors asked for, on any card, exchanged at
\* any time; no call leaves the card in the middle of one; a card that stays in
\* its socket is mounted; and then every call returns.
TransferIsExact == C!TransferIsExact
CardIsAtRest == C!CardIsAtRest
CardIsFound == C!CardIsFound
CardCallsReturn == C!CallsReturn

\* See SdCard: what the documents say and the code does not do.
InitReportsFailure == C!InitReportsFailure
DataWaitEnds == C!DataWaitEnds

\* See CounterRead: a counter that runs while it is read in two halves had the
\* value returned; a paused one that is cleared is zero.
ReadIsAccurate == R!ReadIsAccurate
ClearIsComplete == R!ClearIsComplete

\* hpm.h:27: the value read for a started event is the number of times it came
\* since, the time it was paused left out.
EventsAreCounted == E!EventsAreCounted
=============================================================================
