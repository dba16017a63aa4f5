-------------------------------- MODULE Fsbl --------------------------------
(***************************************************************************)
(* The first stage boot loader (software/fsbl): it clears the RAM, loads   *)
(* the payloads config.txt names, or one that the user picks from a menu,  *)
(* and starts the boot payload on every hart.                              *)
(*                                                                         *)
(* An address is a cell, a file is Size[f] cells, an fread() asks for Step *)
(* of them.  A line of config.txt is an entry as parse_entry() returns it. *)
(* How a job reaches a secondary hart is HartPool's subject: here the hart *)
(* takes it in one step.                                                   *)
(***************************************************************************)
EXTENDS SdFiles, Sequences

CONSTANTS
    N,              \* TARGET_NUM_HARTS
    Size,           \* the size of each file, in cells
    Step,           \* STEP_SIZE
    Ram, FsblRam,   \* the main RAM, and the RAM of the FSBL itself
    Memory,         \* every writable cell
    Configs,        \* the entries config.txt may hold
    Switches,       \* the positions the GPIO switches may be in
    ReadErrors      \* BOOLEAN: may a read of config.txt fail?

ConfigFile == "config.txt"
Null == 0           \* no address, and no file
Idle == "idle"
Own == <<"fsbl">>   \* what the cells of the FSBL's own RAM hold
Blank == <<>>       \* a cell that holds zero, or no payload
Secondaries == 1 .. N - 1
NoEntry == [gpio |-> -1, path |-> NoFile, addr |-> Null, flag |-> "none"]
Entry == [gpio : Int, path : Files, addr : Nat, flag : {"BOOT", "FDT", "NXT", "none"}]
RamStart == Min(Ram)
BootRamStart == Min(FsblRam)
BootRamEnd == Max(FsblRam) + 1

ASSUME FsblAssumption ==
    /\ N \in Nat \ {0}
    /\ Size \in [Files -> Nat]
    /\ Step \in Nat \ {0}
    /\ Memory \subseteq Nat \ {Null}
    /\ \E lo, hi \in Memory : lo <= hi /\ Ram = lo .. hi
    /\ \E lo, hi \in Memory : lo <= hi /\ FsblRam = lo .. hi
    /\ Ram \cup FsblRam \subseteq Memory
    /\ \A es \in Configs : es \in Seq(Entry)
    /\ MaxOpen > 1
    /\ ReadErrors \in BOOLEAN

VARIABLES
    pc,             \* where hart 0 is
    hasConfig,      \* is there a config.txt?
    entries,        \* its lines
    switches,       \* the switches that are on
    mem,            \* what each cell holds: <<file, offset>>, Own or Blank
    entry,          \* the entry being processed, see parse_entry()
    parser,         \* the parser's file descriptor, or Null
    fp,             \* the loader's file descriptor, or Null
    config,         \* boot_config_t, on hart 0's stack
    i,              \* the hart that main() examines or starts
    ready, job,     \* the mailbox of each secondary hart, see HartPool
    hart            \* "booting", "parked" or "payload"

loader == <<entry, parser, fp, config>>
harts == <<i, ready, job, hart>>
disk == <<hasConfig, entries, switches>>
vars == <<files, pc, disk, mem, loader, harts>>

Init ==
    /\ FilesInit
    /\ pc = "clear"
    /\ hasConfig \in BOOLEAN
    /\ entries \in Configs
    /\ switches \in Switches
    /\ mem = [a \in Memory |-> IF a \in FsblRam THEN Own ELSE Blank]
    /\ entry = NoEntry /\ parser = Null /\ fp = Null
    /\ config = [boot |-> Null, fdt |-> Null, next |-> Null]
    /\ i = 1
    /\ ready = [h \in Secondaries |-> FALSE]
    /\ job = [h \in Secondaries |-> Idle]
    /\ hart \in [Secondaries -> {"booting", "parked"}]

Main(from, to) == pc = from /\ pc' = to
-----------------------------------------------------------------------------
(* load_payloads() and the parser                                          *)

\* main() zeroes the RAM below its own
Clear ==
    /\ Main("clear", "open")
    /\ mem' = [a \in Memory |-> IF a \in RamStart .. BootRamStart - 1 THEN Blank ELSE mem[a]]
    /\ UNCHANGED <<files, disk, loader, harts>>

\* init_parser(); without a configuration, load_via_uart_menu()
OpenConfig ==
    /\ pc = "open"
    /\ \/ /\ hasConfig
          /\ \E fd \in Fds : Opens(ConfigFile, fd) /\ parser' = fd
          /\ pc' = "parse"
       \/ /\ hasConfig => Faulty
          /\ OpenFails
          /\ pc' = "menu"
          /\ UNCHANGED parser
    /\ UNCHANGED <<disk, mem, entry, fp, config, harts>>

MenuEntry(f) == [gpio |-> -1, path |-> f, addr |-> RamStart, flag |-> "BOOT"]

\* the user picks one of the files get_bin_files() found, if it found any
Menu ==
    /\ pc = "menu"
    /\ \/ \E f \in Files : entry' = MenuEntry(f) /\ pc' = "size"
       \/ Faulty /\ pc' = "stopped" /\ UNCHANGED entry
    /\ UNCHANGED <<files, disk, mem, parser, fp, config, harts>>

\* parse_entry() returns the next entry
ParseEntry ==
    /\ Main("parse", "entry")
    /\ pos[parser] < Len(entries)
    /\ Reads(parser, 1)
    /\ entry' = entries[pos[parser] + 1]
    /\ UNCHANGED <<disk, mem, parser, fp, config, harts>>

\* parse_entry() returns 0: fgets() is at the end of the file, or it failed
EndOfConfig ==
    /\ Main("parse", "boot")
    /\ pos[parser] = Len(entries) \/ ReadErrors
    /\ Closes(parser)
    /\ parser' = Null
    /\ UNCHANGED <<disk, mem, entry, fp, config, harts>>

Selected(e) == e.gpio < 0 \/ e.gpio \in switches

\* process_entry(): the switch of the entry
SelectEntry ==
    /\ pc = "entry"
    /\ pc' = IF Selected(entry) THEN "size" ELSE "parse"
    /\ UNCHANGED <<files, disk, mem, loader, harts>>

\* process_entry(): does an end of the payload lie in the FSBL's RAM?
Overlaps_StartOnly(e) == e.addr \in FsblRam

Overlaps(e) ==
    LET end == e.addr + Size[e.path]
    IN  \/ e.addr >= BootRamStart /\ e.addr < BootRamEnd
        \/ end >= BootRamStart /\ end < BootRamEnd

\* the caller's get_file_size(); the menu does not look for an overlap
SizeEntry ==
    /\ pc = "size"
    /\ \/ /\ SizeKnown(entry.path)
          /\ pc' = IF parser # Null /\ Overlaps(entry) THEN "fail" ELSE "load"
       \/ SizeUnknown(entry.path) /\ pc' = "fail"
    /\ UNCHANGED <<disk, mem, loader, harts>>
-----------------------------------------------------------------------------
(* load_sdcard_payload() and do_load_file()                                *)

\* load_sdcard_payload(): get_file_size() once more
SizeAgain ==
    /\ pc = "load"
    /\ \/ SizeKnown(entry.path) /\ pc' = "fopen"
       \/ SizeUnknown(entry.path) /\ pc' = "fail"
    /\ UNCHANGED <<disk, mem, loader, harts>>

OpenPayload ==
    /\ pc = "fopen"
    /\ \/ \E fd \in Fds : Opens(entry.path, fd) /\ fp' = fd /\ pc' = "copy"
       \/ Faulty /\ OpenFails /\ pc' = "fail" /\ UNCHANGED fp
    /\ UNCHANGED <<disk, mem, entry, parser, config, harts>>

\* one fread(); a short one, at the end or after an error, is the last
Chunk(e) == Min({Step, Size[e.path] - pos[fp]})

\* the cells that the next n bytes go to
Target(n) == entry.addr + pos[fp] .. entry.addr + pos[fp] + n - 1

CopyStep(n) == [a \in Memory |-> IF a \in Target(n) THEN <<entry.path, a - entry.addr>>
                                 ELSE mem[a]]

\* A loader that has written into its own RAM is lost: what it does from then on
\* is anybody's guess, and no step is modelled.
Copy ==
    /\ pc = "copy"
    /\ \E n \in 0 .. Chunk(entry) :
          /\ n = Chunk(entry) \/ Faulty
          /\ Reads(fp, n)
          /\ mem' = CopyStep(n)
          /\ pc' = IF Target(n) \cap FsblRam # {} THEN "lost"
                   ELSE IF n = Step THEN "copy" ELSE "close"
    /\ UNCHANGED <<disk, loader, harts>>

\* do_load_file() compares the sizes, load_sdcard_payload() closes the file
Whole_Any == TRUE
Whole == pos[fp] = Size[entry.path]

CloseFile ==
    /\ Main("close", IF Whole THEN "flag" ELSE "fail")
    /\ Closes(fp)
    /\ fp' = Null
    /\ UNCHANGED <<disk, mem, entry, parser, config, harts>>

\* process_entry() and load_via_uart_menu(): what the payload is for
SetConfig ==
    /\ Main("flag", IF parser = Null THEN "boot" ELSE "parse")
    /\ config' = [boot |-> IF entry.flag = "BOOT" THEN entry.addr ELSE config.boot,
                  fdt  |-> IF entry.flag = "FDT" THEN entry.addr ELSE config.fdt,
                  next |-> IF entry.flag = "NXT" THEN entry.addr ELSE config.next]
    /\ UNCHANGED <<files, disk, mem, entry, parser, fp, harts>>

\* an entry failed: finish_parser() and exit_with_error()
Fail ==
    /\ Main("fail", "stopped")
    /\ IF parser = Null THEN UNCHANGED files ELSE Closes(parser)
    /\ parser' = Null
    /\ UNCHANGED <<disk, mem, entry, fp, config, harts>>

CheckBoot ==
    /\ Main("boot", IF config.boot = Null THEN "stopped"
                    ELSE IF N > 1 THEN "examine" ELSE "jump")
    /\ UNCHANGED <<files, disk, mem, loader, harts>>
-----------------------------------------------------------------------------
(* Starting the payload                                                    *)

\* bm_hart_start(i, func): refused, and main() does not notice, while i is busy
HartStart_Unchecked(func) ==
    /\ job' = [job EXCEPT ![i] = func]
    /\ ready' = [ready EXCEPT ![i] = TRUE]

HartStart(func) ==
    /\ job' = IF ready[i] THEN job ELSE [job EXCEPT ![i] = func]
    /\ ready' = [ready EXCEPT ![i] = TRUE]

Examine ==
    /\ Main("examine", "wait")
    /\ HartStart("check_ready")
    /\ UNCHANGED <<files, disk, mem, loader, i, hart>>

\* until the hart is done or a second has passed, which may be at any time; a hart
\* that has not answered is reported and kept
Wait ==
    /\ pc = "wait"
    /\ IF i < N - 1 THEN i' = i + 1 /\ pc' = "examine"
                    ELSE i' = 1 /\ pc' = "start"
    /\ UNCHANGED <<files, disk, mem, loader, ready, job, hart>>

StartHart ==
    /\ pc = "start"
    /\ HartStart("start_payload")
    /\ IF i < N - 1 THEN i' = i + 1 /\ UNCHANGED pc
                    ELSE pc' = "jump" /\ UNCHANGED i
    /\ UNCHANGED <<files, disk, mem, loader, hart>>

\* start_payload() on hart 0: execute_jump() does not return
Jump ==
    /\ Main("jump", "payload")
    /\ UNCHANGED <<files, disk, mem, loader, harts>>

\* bm_park_hart() on hart h: reach the loop, and take a job
Park(h) ==
    /\ hart[h] = "booting"
    /\ hart' = [hart EXCEPT ![h] = "parked"]
    /\ ready' = [ready EXCEPT ![h] = FALSE]
    /\ UNCHANGED <<files, pc, disk, mem, loader, i, job>>

CheckReady(h) ==
    /\ hart[h] = "parked" /\ ready[h] /\ job[h] = "check_ready"
    /\ ready' = [ready EXCEPT ![h] = FALSE]
    /\ UNCHANGED <<files, pc, disk, mem, loader, i, job, hart>>

StartPayload(h) ==
    /\ hart[h] = "parked" /\ ready[h] /\ job[h] = "start_payload"
    /\ hart' = [hart EXCEPT ![h] = "payload"]
    /\ UNCHANGED <<files, pc, disk, mem, loader, i, ready, job>>

Load == \/ Clear \/ OpenConfig \/ Menu \/ ParseEntry \/ EndOfConfig \/ SelectEntry
        \/ SizeEntry \/ SizeAgain \/ OpenPayload \/ Copy \/ CloseFile \/ SetConfig
        \/ Fail \/ CheckBoot

Start == Examine \/ Wait \/ StartHart \/ Jump

Worker(h) == Park(h) \/ CheckReady(h) \/ StartPayload(h)

Next == Load \/ Start \/ \E h \in Secondaries : Worker(h)

Spec == Init /\ [][Next]_vars

\* each hart runs its own instruction stream; the user answers the menu
FairSpec == /\ Spec
            /\ WF_vars(Load \/ Start)
            /\ \A h \in Secondaries : WF_vars(Worker(h))
-----------------------------------------------------------------------------
Contents == {<<f, k>> : f \in Files, k \in 0 .. Max({Size[g] : g \in Files}) - 1}
Addresses == Memory \cup {Null}
Jobs == {"check_ready", "start_payload"}

\* Every variable has its type; a file is read up to its end.
TypeOK ==
    /\ pc \in {"clear", "open", "menu", "parse", "entry", "size", "load", "fopen",
               "copy", "close", "flag", "fail", "boot", "examine", "wait", "start",
               "jump", "payload", "stopped", "lost"}
    /\ open \in [Fds -> Files \cup {ConfigFile, NoFile}]
    /\ \A fd \in Fds : pos[fd] \in 0 .. (IF open[fd] \in Files THEN Size[open[fd]]
                                         ELSE IF open[fd] = ConfigFile THEN Len(entries)
                                         ELSE 0)
    /\ mounted \in BOOLEAN
    /\ mem \in [Memory -> Contents \cup {Own, Blank}]
    /\ parser \in Fds \cup {Null} /\ fp \in Fds \cup {Null}
    /\ config \in [boot : Addresses, fdt : Addresses, next : Addresses]
    /\ i \in 1 .. N
    /\ ready \in [Secondaries -> BOOLEAN]
    /\ job \in [Secondaries -> Jobs \cup {Idle}]
    /\ hart \in [Secondaries -> {"booting", "parked", "payload"}]

InPayload == pc = "payload" \/ \E h \in Secondaries : hart[h] = "payload"

\* The selected lines of es that satisfy a test.
Lines(es, Test(_)) == {k \in DOMAIN es : Selected(es[k]) /\ Test(es[k])}

\* v is the address of one of the entries with this flag, if there are any
Names(es, flag, v) ==
    LET HasFlag(e) == e.flag = flag
        K == Lines(es, HasFlag)
    IN  IF K = {} THEN v = Null ELSE \E k \in K : v = es[k].addr

\* Memory holds the selected entries of es, loaded whole and in their order.
Holds(es) ==
    /\ \A a \in Memory :
          LET Covers(e) == a \in e.addr .. e.addr + Size[e.path] - 1
              K == Lines(es, Covers)
          IN  IF K = {} THEN mem[a] \in {Own, Blank}
              ELSE LET e == es[Max(K)] IN mem[a] = <<e.path, a - e.addr>>
    /\ Names(es, "BOOT", config.boot)
    /\ Names(es, "FDT", config.fdt)
    /\ Names(es, "NXT", config.next)

(* No hart enters the payload unless every selected entry is in memory,    *)
(* whole, in the order of the configuration file, and the boot registers   *)
(* name entries of their kind; or the file picked from the menu is.        *)
LoadedAsConfigured ==
    InPayload => \/ hasConfig /\ Holds(entries)
                 \/ \E f \in Files : Holds(<<MenuEntry(f)>>)

(* The parser's file stays open under its descriptor, on a mounted volume: *)
(* a payload that is closed meanwhile must not unmount the card.           *)
ConfigStaysReadable == parser # Null => open[parser] = ConfigFile /\ mounted

(* The payload takes over a card no file of which is open. *)
CardIsReleased == InPayload => InUse = {} /\ ~mounted

\* The payload reaches from below the FSBL's RAM to its end or beyond.
Encloses(e) == e.addr < BootRamStart /\ e.addr + Size[e.path] >= BootRamEnd

(* Nothing is loaded over the boot loader's own memory but by the two ways *)
(* that process_entry() does not look at: an entry that encloses it, and   *)
(* the menu.                                                               *)
FsblIsIntact ==
    (\E a \in FsblRam : mem[a] # Own) => pc = "lost" /\ (parser = Null \/ Encloses(entry))

(* "Failed to load payload [...] due to overlap with FSBL RAM address      *)
(* space": no entry of the configuration is loaded over that RAM.          *)
OverlapsAreRefused == parser # Null => \A a \in FsblRam : mem[a] = Own

(* "Failed to load payload [...] due to overlap with FSBL RAM address      *)
(* space": when no call fails, an entry is given up for an overlap.        *)
OnlyOverlapsAreRefused ==
    pc = "fail" => (entry.addr .. entry.addr + Size[entry.path] - 1) \cap FsblRam # {}

(* README: "Start execution on the address of first entry denoted `BOOT`". *)
FirstBootWins ==
    LET IsBoot(e) == e.flag = "BOOT"
    IN  InPayload /\ hasConfig => config.boot = entries[Min(Lines(entries, IsBoot))].addr

(* "start job on each hart": once hart 0 is in the payload, every hart is  *)
(* there or has been told to go there.                                     *)
EveryHartIsStarted ==
    pc = "payload" => \A h \in Secondaries : ready[h] /\ job[h] = "start_payload"

(* The boot loader stops with an error, or is lost, or enters the payload  *)
(* and brings every hart there, however late: except one that has still    *)
(* not taken the job that examines it when it is to be started.            *)
BootEnds == <>(\/ pc \in {"stopped", "lost"}
               \/ /\ pc = "payload"
                  /\ \A h \in Secondaries : hart[h] = "payload" \/ job[h] = "check_ready")
=============================================================================
