------------------------------- MODULE SdCard -------------------------------
(***************************************************************************)
(* The SD card driver, lib/fatfs/mmc.c, as the boot loader's file layer    *)
(* uses it: _open() of software/fsbl/src/sys_hw.c mounts the card, which   *)
(* initializes it, and reads and writes follow.  One step of the driver is *)
(* one command with its response, or one data block; the card is removed,  *)
(* replaced or resets itself in between.                                   *)
(*                                                                         *)
(* A response is "ok" (0), "idle" (1), "illegal" (an error bit) or "none"  *)
(* (bit 7 still set after ten attempts).  A sector is addressed by its     *)
(* number on a block-addressed card and by Unit times that on others.      *)
(***************************************************************************)
EXTENDS Integers, Sequences

CONSTANTS Kinds,        \* the kinds of cards in use
          MaxSector,    \* the sectors are 0 .. MaxSector
          MaxCount,     \* bound on the sectors of one call
          MaxEvents     \* bound on the removals and insertions

Unit == 2               \* 512 bytes in the code

VARIABLES
    power_control,  \* does the socket of the platform have it?
    \* the card
    kind, present, powered,
    card,       \* "raw" after power-up, "confused" in the middle of something
                \* that a reset of the hart did not end, or "idle", "ready",
                \* "sending" or "receiving"
    at,         \* the sector it sends or receives next
    programming,    \* is it storing what it has received?  It holds its output low
    written,    \* the sectors written since the last call of MMC_disk_write()
    events,     \* removals and insertions so far
    unstopped,  \* history: has it missed the stop token of a write, and not been
                \* started again since?
    \* the driver
    known,      \* are sd_gpio and sd_spi set?
    noinit,     \* STA_NOINIT of Stat
    CardType,   \* "none" or a kind
    pc,
    ty,         \* the card type MMC_disk_initialize() has come to
    write, sect, count, \* which function, and its arguments
    got,        \* the sectors that MMC_disk_read() has read
    result,     \* what the last call returned
    \* the file layer
    tries       \* calls of f_mount() by this call of _open()

env == <<power_control, kind, present, events>>
args == <<write, sect, count>>
status == <<known, noinit, CardType>>
wait == <<programming, unstopped>>
vars == <<env, powered, card, at, wait, written, status, pc, ty, args, got, result, tries>>

\* After a reset of the hart, which need not have reset the card; but it is not
\* programming any more.
Init ==
    /\ power_control \in BOOLEAN
    /\ kind \in Kinds
    /\ present \in BOOLEAN
    /\ powered = ~ power_control
    /\ card = IF power_control THEN "raw" ELSE "confused"
    /\ at = 0 /\ written = {} /\ events = 0
    /\ programming = FALSE /\ unstopped = FALSE
    /\ known = FALSE /\ noinit = TRUE /\ CardType = "none"
    /\ pc = "app" /\ ty = "none" /\ got = <<>> /\ tries = 0
    /\ write = FALSE /\ sect = 0 /\ count = 1
    /\ result = "none"

Alive == present /\ powered

\* The sector that the address a names on the card in the socket.
SectorAt(a) == IF kind = "sd2block" THEN a ELSE a \div Unit
-----------------------------------------------------------------------------
(* the card *)

Swap ==
    /\ events < MaxEvents
    /\ events' = events + 1
    /\ UNCHANGED <<power_control, powered, at, written, status, pc, ty, args, got, result,
                   tries>>

Remove ==
    /\ Swap
    /\ present /\ present' = FALSE
    /\ UNCHANGED <<kind, card, wait>>

Insert ==
    /\ Swap
    /\ ~ present /\ present' = TRUE
    /\ kind' \in Kinds
    /\ card' = "raw"
    /\ programming' = FALSE /\ unstopped' = FALSE

Responses == {"ok", "idle", "illegal", "none"}

\* Where the driver goes after each response: to one place after these, and to
\* another after the others.
Branch(these, place, other) == [r \in Responses |-> IF r \in these THEN place ELSE other]

\* What the card answers to a command, with its next state.
Answers(cmd) ==
    IF ~ Alive \/ (card = "raw" /\ cmd # "CMD0") THEN {<<"none", card>>}
    ELSE IF card = "confused" THEN {<<"illegal", "raw">>}
    ELSE IF cmd = "CMD0" THEN {<<"idle", "idle">>}
    ELSE IF cmd = "CMD12" /\ card = "sending" THEN {<<"ok", "ready">>}
    ELSE IF card = "idle" /\ cmd = "CMD8" /\ kind \in {"sd2", "sd2block"}
         THEN {<<"idle", "idle">>}
    ELSE IF card \in {"idle", "ready"} /\ cmd = (IF kind = "mmc" THEN "CMD1" ELSE "ACMD41")
         THEN {<<"ok", "ready">>} \cup ({<<card, card>>} \ {<<"ready", "ready">>})
    ELSE IF card = "ready" /\ cmd \in {"CMD58", "CMD16"} THEN {<<"ok", "ready">>}
    ELSE IF card = "ready" /\ cmd \in {"CMD17", "CMD18"} THEN {<<"ok", "sending">>}
    ELSE IF card = "ready" /\ cmd \in {"CMD24", "CMD25"} THEN {<<"ok", "receiving">>}
    ELSE {<<"illegal", card>>}

\* wait_ready(): there are half a second's worth of attempts to read 0xFF, which a
\* card does not send while it programs.
WaitReady == programming' = FALSE
WaitTimesOut == Alive /\ programming /\ programming' = TRUE

\* send_cmd(cmd, a) as the step from one place to After[response].  A card that
\* is not ready in time is sent nothing; the stop command goes to one that sends.
SendCmd(cmd, a, from, After) ==
    /\ pc = from
    /\ \/ /\ WaitReady
          /\ \E answer \in Answers(cmd) :
                card' = answer[2] /\ pc' = After[answer[1]]
       \/ /\ WaitTimesOut
          /\ cmd # "CMD12"
          /\ card' = card /\ pc' = After["none"]
    /\ unstopped' = (unstopped /\ card' = card)
    /\ at' = IF card' # card /\ card' \in {"sending", "receiving"} THEN SectorAt(a) ELSE at
    /\ UNCHANGED <<env, powered, args>>
-----------------------------------------------------------------------------
(* MMC_disk_initialize() *)

InitCmd(cmd, from, After) ==
    /\ SendCmd(cmd, 0, from, After)
    /\ UNCHANGED <<written, status, got, result, tries>>

\* The first call finds the peripherals, turns the socket power off and, after
\* a while, on.
PowerUp ==
    /\ pc = "init" /\ pc' = "detect"
    /\ known' = TRUE
    /\ powered' = (powered \/ ~ known)
    /\ card' = IF power_control /\ ~ known THEN "raw" ELSE card
    /\ UNCHANGED <<env, at, wait, written, noinit, CardType, ty, args, got, result, tries>>

\* An empty socket ends the call.
Detect ==
    /\ pc = "detect"
    /\ pc' = IF present THEN "cmd0" ELSE "opened"
    /\ UNCHANGED <<env, powered, card, at, wait, written, status, ty, args, got, result,
                   tries>>

GoIdle ==
    /\ InitCmd("CMD0", "cmd0", Branch({"idle"}, "cmd8", "finish"))
    /\ ty' = "none"

SendIfCond ==
    /\ InitCmd("CMD8", "cmd8", Branch({"idle"}, "acmd41", "probe"))
    /\ UNCHANGED ty

\* A card that knows CMD8: ACMD41 until it leaves the idle state, then the type.
SendOpCond2 ==
    /\ InitCmd("ACMD41", "acmd41", Branch({"ok"}, "cmd58", "acmd41"))
    /\ UNCHANGED ty

\* Mutant: the card capacity is not read.
ReadOcr_NoCcs ==
    /\ InitCmd("CMD58", "cmd58", Branch(Responses, "finish", "finish"))
    /\ ty' = IF Alive /\ card = "ready" /\ ~ programming' THEN "sd2" ELSE "none"

ReadOcr ==
    /\ InitCmd("CMD58", "cmd58", Branch(Responses, "finish", "finish"))
    /\ ty' = IF Alive /\ card = "ready" /\ ~ programming' THEN kind ELSE "none"

\* An older one: ACMD41 tells an SD card from an MMC.
Probe ==
    /\ InitCmd("ACMD41", "probe",
               Branch({"ok", "idle"}, "sd_leave_idle", "mmc_leave_idle"))
    /\ ty' = IF pc' = "sd_leave_idle" THEN "sd1" ELSE "mmc"

\* Mutant: an MMC is polled as an SD card is.
LeaveIdle_Acmd41 ==
    /\ \/ InitCmd("ACMD41", "sd_leave_idle",
                  Branch({"ok"}, "cmd16", "sd_leave_idle"))
       \/ InitCmd("ACMD41", "mmc_leave_idle",
                  Branch({"ok"}, "cmd16", "mmc_leave_idle"))
    /\ UNCHANGED ty

LeaveIdle ==
    /\ \/ InitCmd("ACMD41", "sd_leave_idle",
                  Branch({"ok"}, "cmd16", "sd_leave_idle"))
       \/ InitCmd("CMD1", "mmc_leave_idle",
                  Branch({"ok"}, "cmd16", "mmc_leave_idle"))
    /\ UNCHANGED ty

SetBlockLength ==
    /\ InitCmd("CMD16", "cmd16", Branch({"ok"}, "finish", "bad_length"))
    /\ UNCHANGED ty

\* CardType = ty; a card whose type is not known is turned off.
Finish ==
    /\ pc \in {"finish", "bad_length"}
    /\ LET type == IF pc = "finish" THEN ty ELSE "none" IN
          /\ CardType' = type
          /\ noinit' = (noinit /\ type = "none")
          /\ powered' = (powered /\ (type # "none" \/ ~ power_control))
    /\ card' = IF powered' THEN card ELSE "raw"
    /\ programming' = (programming /\ powered') /\ unstopped' = (unstopped /\ powered')
    /\ pc' = "opened"
    /\ UNCHANGED <<env, at, written, known, ty, args, got, result, tries>>

Initialize ==
    \/ PowerUp \/ Detect \/ GoIdle \/ SendIfCond \/ SendOpCond2 \/ ReadOcr
    \/ Probe \/ LeaveIdle \/ SetBlockLength \/ Finish
-----------------------------------------------------------------------------
(* _open(): f_mount(), which calls MMC_disk_initialize() *)

Open ==
    /\ pc = "app" /\ pc' = "init"
    /\ tries' = 1
    /\ UNCHANGED <<env, powered, card, at, wait, written, status, ty, args, got, result>>

\* Mutant: f_mount() is not called again.
Opened_NoRetry ==
    /\ pc = "opened" /\ pc' = "app"
    /\ result' = IF noinit THEN "no_device" ELSE "mounted"
    /\ tries' = 0
    /\ UNCHANGED <<env, powered, card, at, wait, written, status, ty, args, got>>

\* A second f_mount() if the first found the drive not ready.
Opened ==
    /\ pc = "opened"
    /\ IF noinit /\ tries = 1
       THEN pc' = "init" /\ tries' = 2 /\ UNCHANGED result
       ELSE /\ pc' = "app" /\ tries' = 0
            /\ result' = IF noinit THEN "no_device" ELSE "mounted"
    /\ UNCHANGED <<env, powered, card, at, wait, written, status, ty, args, got>>
-----------------------------------------------------------------------------
(* MMC_disk_read() and MMC_disk_write() *)

Transfer(from, to) ==
    /\ pc = from /\ pc' = to
    /\ UNCHANGED <<env, powered, status, ty, args, tries>>

\* The check of STA_NOINIT comes first.
CallTransfer ==
    /\ pc = "app"
    /\ write' \in BOOLEAN
    /\ pc' = IF noinit THEN "app" ELSE IF write' THEN "write" ELSE "read"
    /\ result' = IF noinit THEN "not_ready" ELSE "none"
    /\ sect' \in 0 .. MaxSector
    /\ count' \in 1 .. MaxCount /\ sect' + count' - 1 <= MaxSector
    /\ got' = <<>> /\ written' = {}
    /\ UNCHANGED <<env, powered, card, at, wait, status, ty, tries>>

\* sect *= 512 unless the card is block-addressed.
Address(s) == IF CardType = "sd2block" THEN s ELSE s * Unit

StartRead ==
    /\ SendCmd(IF count > 1 THEN "CMD18" ELSE "CMD17", Address(sect), "read",
               Branch({"ok"}, "read_block", "failed"))
    /\ UNCHANGED <<written, status, ty, got, result, tries>>

Multiple == count > 1
Done == Len(got) = count
End == IF Done THEN "succeeded" ELSE "failed"

\* rcvr_datablock(): it waits for a token, for ever if the card is gone; an
\* error token ends the loop.
ReadBlock ==
    /\ Alive /\ card = "sending"
    /\ \E error \in BOOLEAN :
          /\ Transfer("read_block",
                      IF Multiple THEN IF error \/ Len(got) + 1 = count THEN "read_stop"
                                       ELSE "read_block"
                      ELSE IF error THEN "failed" ELSE "succeeded")
          /\ got' = IF error THEN got ELSE Append(got, at)
    /\ at' = at + 1
    /\ card' = IF Multiple THEN card ELSE "ready"
    /\ UNCHANGED <<wait, written, result>>

StopRead ==
    /\ SendCmd("CMD12", 0, "read_stop", Branch(Responses, End, End))
    /\ UNCHANGED <<written, status, ty, got, result, tries>>

\* ACMD23, which only tells the card to erase ahead, is left out.
StartWrite ==
    /\ SendCmd(IF count > 1 THEN "CMD25" ELSE "CMD24", Address(sect), "write",
               Branch({"ok"}, "write_block", "failed"))
    /\ UNCHANGED <<written, status, ty, got, result, tries>>

\* xmit_datablock(): the card is ready for the block in time and accepts it, or
\* refuses it, or there is none to respond.
SendBlock(accepted) ==
    /\ accepted => Alive /\ card = "receiving"
    /\ Transfer("write_block",
                IF Multiple THEN IF accepted /\ Len(got) + 1 < count THEN "write_block"
                                 ELSE "write_stop"
                ELSE IF accepted THEN "succeeded" ELSE "failed")
    /\ written' = IF accepted THEN written \cup {at} ELSE written
    /\ got' = IF accepted THEN Append(got, at) ELSE got   \* blocks sent
    /\ at' = IF accepted THEN at + 1 ELSE at
    /\ card' = IF Multiple \/ ~ Alive \/ card # "receiving" THEN card ELSE "ready"
    /\ programming' = accepted
    /\ UNCHANGED <<result, unstopped>>

\* The card is still programming the block before.
BlockTimesOut ==
    /\ WaitTimesOut
    /\ Transfer("write_block", IF Multiple THEN "write_stop" ELSE "failed")
    /\ UNCHANGED <<card, at, unstopped, written, got, result>>

WriteBlock == BlockTimesOut \/ \E accepted \in BOOLEAN : SendBlock(accepted)

\* The stop token, also after an error.
SendStop ==
    /\ Transfer("write_stop", End)
    /\ card' = IF Alive /\ card = "receiving" THEN "ready" ELSE card
    /\ programming' = (card' # card)
    /\ UNCHANGED <<at, unstopped, written, got, result>>

\* A card that is not ready for it in time is not sent it, and left as it is.
StopTimesOut ==
    /\ WaitTimesOut
    /\ Transfer("write_stop", "failed")
    /\ unstopped' = (card = "receiving")
    /\ UNCHANGED <<card, at, written, got, result>>

\* Mutant: a token that was not sent is no error.
StopWrite_Unchecked ==
    \/ SendStop
    \/ /\ WaitTimesOut
       /\ Transfer("write_stop", End)
       /\ unstopped' = (card = "receiving")
       /\ UNCHANGED <<card, at, written, got, result>>

StopWrite == SendStop \/ StopTimesOut

Return ==
    /\ \/ Transfer("succeeded", "app") /\ result' = "ok"
       \/ Transfer("failed", "app") /\ result' = "error"
    /\ UNCHANGED <<card, at, wait, written, got>>

ReadWrite ==
    StartRead \/ ReadBlock \/ StopRead \/ StartWrite \/ WriteBlock \/ StopWrite \/ Return
-----------------------------------------------------------------------------
Driver == Initialize \/ Opened \/ ReadWrite

Next == Driver \/ Open \/ CallTransfer \/ Remove \/ Insert

Spec == Init /\ [][Next]_vars

\* The driver runs, and a card that is asked for long enough leaves its idle
\* state.
FairSpec ==
    /\ Spec
    /\ WF_vars(Driver)
    /\ SF_vars(SendOpCond2 /\ card' = "ready")
    /\ SF_vars(LeaveIdle /\ card' = "ready")
-----------------------------------------------------------------------------
\* The card is in one of its states, and the driver in one of its places.
TypeOK ==
    /\ kind \in Kinds
    /\ {power_control, present, powered, programming, unstopped, known, noinit, write}
          \subseteq BOOLEAN
    /\ card \in {"raw", "confused", "idle", "ready", "sending", "receiving"}
    /\ at \in Nat /\ written \subseteq Nat
    /\ events \in 0 .. MaxEvents
    /\ {CardType, ty} \subseteq {"none", "mmc", "sd1", "sd2", "sd2block"}
    /\ sect \in 0 .. MaxSector /\ count \in 1 .. MaxCount
    /\ got \in Seq(Nat) /\ Len(got) <= MaxCount
    /\ tries \in 0 .. 2
    /\ result \in {"none", "mounted", "no_device", "not_ready", "ok", "error"}

Requested == sect .. sect + count - 1

\* A read that succeeds returns the sectors asked for, in order, and a write that
\* succeeds has written them all: of whatever kind the card is, and even if it
\* has been replaced by one of another kind since it was mounted.  One that fails
\* may have written some of its sectors, but no other.  This is said of a drive
\* whose last initialization came to a type: see InitReportsFailure.
TransferIsExact ==
    CardType # "none" =>
       /\ pc = "succeeded" => /\ got = [i \in 1 .. count |-> sect + i - 1]
                              /\ write => written = Requested
       /\ pc = "failed" => written \subseteq Requested

\* No call leaves the card sending data, however it ends, nor waiting for them,
\* except a write whose stop token the card was not ready for in time; the card
\* then waits on, and no call succeeds until it has been started again.
CardIsAtRest ==
    pc \in {"app", "succeeded"} /\ Alive /\ card \in {"sending", "receiving"} =>
       pc = "app" /\ card = "receiving" /\ unstopped

\* _open(), "Retry to increase reliability in case of missing SD_nRESET signal":
\* a card that has been in the socket all along is mounted, whatever state the
\* reset of the hart left it in.
CardIsFound ==
    result = "no_device" => ~ present \/ events > 0

\* diskio.h, STA_NOINIT, "Drive not initialized"; ff.c, which tests it after
\* disk_initialize(): "Failed to initialize due to no medium or hard error".
InitReportsFailure ==
    [][pc # "opened" /\ pc' = "opened" =>
          noinit' \/ (pc = "finish" /\ ty # "none")]_vars

\* With a card that stays where it is, or none, every call of the driver
\* returns, whatever state the reset of the hart left the card in.
CallsReturn ==
    [](events = 0) => (pc # "app" ~> pc = "app")

\* rcvr_datablock(), "Wait for data packet in timeout of 200ms".
DataWaitEnds ==
    pc = "read_block" ~> pc # "read_block"
=============================================================================
