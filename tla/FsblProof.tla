------------------------------ MODULE FsblProof ------------------------------
(***************************************************************************)
(* The boot loader, for any number of harts, files, configurations and     *)
(* failures of the card: the configuration stays readable while payloads   *)
(* are loaded, memory holds what it names when a hart enters the payload,  *)
(* no file is open then, and the loader overwrites itself in two ways only.*)
(***************************************************************************)
EXTENDS Fsbl, TLAPS
-----------------------------------------------------------------------------
(* the inductive invariant *)

\* Hart 0 is loading a payload, or has loaded all of them.
Loading == {"size", "load", "fopen", "copy", "close", "flag"}
Loaded == {"boot", "examine", "wait", "start", "jump", "payload"}

Places == {"clear", "open", "menu", "parse", "entry", "fail", "stopped", "lost"} \cup Loading
          \cup Loaded

FileTypes ==
    /\ open \in [Fds -> Files \cup {ConfigFile, NoFile}]
    /\ pos \in [Fds -> Nat]
    /\ mounted \in BOOLEAN

Types ==
    /\ pc \in Places
    /\ FileTypes
    /\ entries \in Seq(Entry)
    /\ job \in [Secondaries -> {"check_ready", "start_payload", Idle}]
    /\ hart \in [Secondaries -> {"booting", "parked", "payload"}]

\* The open files are those of the parser and of the loader, unless a call has
\* failed, and the card is mounted for them.
Descriptors ==
    /\ parser # Null => parser \in Fds /\ open[parser] = ConfigFile /\ mounted
    /\ fp # Null <=> pc \in {"copy", "close", "lost"}
    /\ fp # Null => fp \in Fds /\ fp # parser /\ open[fp] = entry.path
    /\ pc \in {"parse", "entry"} => parser # Null
    /\ pc \notin {"parse", "entry", "fail", "lost"} \cup Loading => parser = Null
    /\ pc \notin {"fail", "stopped"} => InUse = {parser, fp} \ {Null}
    /\ pc \notin {"fail", "stopped", "menu", "size"} => (mounted <=> InUse # {})

\* No secondary hart is sent to the payload before hart 0 has loaded it.
HartsWait ==
    \A h \in Secondaries :
       job[h] = "start_payload" \/ hart[h] = "payload" => pc \in {"start", "jump", "payload"}

Cells(e) == e.addr .. e.addr + Size[e.path] - 1

\* Selected(), for the switches sw.
Chosen(sw, e) == e.gpio < 0 \/ e.gpio \in sw

\* The chosen ones of the first n lines of es that cover a cell, or have a flag.
Covering(sw, es, n, a) == {k \in 1 .. n : Chosen(sw, es[k]) /\ a \in Cells(es[k])}
Flagged(sw, es, n, flag) == {k \in 1 .. n : Chosen(sw, es[k]) /\ es[k].flag = flag}

\* A memory m and a configuration c are as the first n lines of es have it.
CellHolds(m, sw, es, n, a) ==
    IF Covering(sw, es, n, a) = {} THEN m[a] \in {Own, Blank}
    ELSE LET e == es[Max(Covering(sw, es, n, a))] IN m[a] = <<e.path, a - e.addr>>

MemHolds(m, sw, es, n) == \A a \in Memory : CellHolds(m, sw, es, n, a)

NamesFirst(sw, es, n, flag, v) ==
    IF Flagged(sw, es, n, flag) = {} THEN v = Null
    ELSE \E k \in Flagged(sw, es, n, flag) : v = es[k].addr

ConfigHolds(c, sw, es, n) ==
    /\ NamesFirst(sw, es, n, "BOOT", c.boot)
    /\ NamesFirst(sw, es, n, "FDT", c.fdt)
    /\ NamesFirst(sw, es, n, "NXT", c.next)

\* The first n bytes of a payload are in m, which is else as before it.
CopiedTo(m, sw, es, k, n) ==
    \A a \in Memory : IF a \in es[k].addr .. es[k].addr + n - 1
                      THEN m[a] = <<es[k].path, a - es[k].addr>>
                      ELSE CellHolds(m, sw, es, k - 1, a)

AllHold(m, c, sw, es) == MemHolds(m, sw, es, Len(es)) /\ ConfigHolds(c, sw, es, Len(es))

\* The lines that are being loaded, and the number of the current one.
Lst == IF parser = Null THEN <<entry>> ELSE entries
Nth == IF parser = Null THEN 1 ELSE pos[parser]

\* How far the lines have been loaded.
Progress ==
    /\ pc \in {"clear", "open", "menu"} =>
          /\ \A a \in Memory : mem[a] \in {Own, Blank}
          /\ config = [boot |-> Null, fdt |-> Null, next |-> Null]
    /\ parser # Null => hasConfig
    /\ pc = "parse" =>
          /\ pos[parser] \in 0 .. Len(entries)
          /\ MemHolds(mem, switches, entries, pos[parser])
          /\ ConfigHolds(config, switches, entries, pos[parser])
    /\ pc \in {"entry"} \cup Loading =>
          /\ Nth \in 1 .. Len(Lst) /\ entry = Lst[Nth] /\ entry \in Entry
          /\ ConfigHolds(config, switches, Lst, Nth - 1)
          /\ parser = Null => \E f \in Files : entry = MenuEntry(f)
    /\ pc \in {"entry", "size", "load", "fopen"} => MemHolds(mem, switches, Lst, Nth - 1)
    /\ pc \in Loading => Chosen(switches, entry)
    /\ pc \in {"copy", "close"} =>
          /\ pos[fp] \in 0 .. Size[entry.path]
          /\ CopiedTo(mem, switches, Lst, Nth, pos[fp])
    /\ pc = "flag" => MemHolds(mem, switches, Lst, Nth)
    /\ pc \in Loaded => \/ ReadErrors
                        \/ hasConfig /\ AllHold(mem, config, switches, entries)
                        \/ \E f \in Files : AllHold(mem, config, switches, <<MenuEntry(f)>>)

\* The places where a payload is loaded that has passed the check for an overlap:
\* it encloses the loader's RAM, or comes from the menu, or it spares the loader.
Writing == {"load", "fopen", "copy", "close"}

Spared ==
    /\ pc # "lost" => \A a \in FsblRam : mem[a] = Own
    /\ pc = "lost" => parser = Null \/ Encloses(entry)
    /\ pc \in Writing => parser = Null \/ Encloses(entry) \/ Cells(entry) \cap FsblRam = {}

\* An invariant that every step preserves.
IInv == Types /\ Descriptors /\ HartsWait /\ Progress /\ Spared
-----------------------------------------------------------------------------
(* numbers and files *)

\* The greatest and the least element of a set, where there is one.
LEMMA MaxIs ==
  ASSUME NEW S \in SUBSET Int, NEW n \in S, \A x \in S : x <= n
  PROVE  Max(S) = n
<1>1. \A x \in S : (\A y \in S : x >= y) => x = n
  OBVIOUS
<1> QED  BY <1>1 DEF Max

LEMMA MinIs ==
  ASSUME NEW S \in SUBSET Int, NEW n \in S, \A x \in S : n <= x
  PROVE  Min(S) = n
<1>1. \A x \in S : (\A y \in S : x =< y) => x = n
  OBVIOUS
<1> QED  BY <1>1 DEF Min

\* The RAM of the loader, and that it loads the menu's payloads to.
LEMMA RamBounds ==
  /\ RamStart \in Nat /\ BootRamStart \in Nat /\ BootRamEnd \in Nat
  /\ FsblRam = BootRamStart .. BootRamEnd - 1
<1>1. PICK lo \in Memory, hi \in Memory : lo <= hi /\ Ram = lo .. hi
  BY FsblAssumption
<1>2. PICK flo \in Memory, fhi \in Memory : flo <= fhi /\ FsblRam = flo .. fhi
  BY FsblAssumption
<1>3. lo \in Nat /\ hi \in Nat /\ flo \in Nat /\ fhi \in Nat
  BY FsblAssumption
<1>4. ASSUME NEW a \in Nat, NEW b \in Nat, a <= b
      PROVE  Min(a .. b) = a /\ Max(a .. b) = b
  <2>1. a .. b \in SUBSET Int /\ a \in a .. b /\ b \in a .. b
    BY <1>4
  <2>2. \A x \in a .. b : a <= x /\ x <= b
    BY <1>4
  <2>3. Min(a .. b) = a
    BY <2>1, <2>2, MinIs
  <2>4. Max(a .. b) = b
    BY <2>1, <2>2, MaxIs
  <2> QED  BY <2>3, <2>4
<1>5. Min(Ram) = lo /\ Min(FsblRam) = flo /\ Max(FsblRam) = fhi
  BY <1>1, <1>2, <1>3, <1>4
<1> QED  BY <1>2, <1>3, <1>4, <1>5 DEF RamStart, BootRamStart, BootRamEnd

\* A chunk is at most what is left of the file.
LEMMA ChunkIs ==
  ASSUME NEW e \in Entry, pos[fp] \in 0 .. Size[e.path]
  PROVE  Chunk(e) \in Nat /\ pos[fp] + Chunk(e) <= Size[e.path]
<1> DEFINE r == Size[e.path] - pos[fp]
<1>1. Size[e.path] \in Nat /\ Step \in Nat /\ pos[fp] \in Nat
  BY FsblAssumption DEF Entry
<1>2. r \in Nat
  BY <1>1
<1>3. Chunk(e) = Min({Step, r})
  BY DEF Chunk
<1> HIDE DEF r
<1>4. Chunk(e) = (IF Step <= r THEN Step ELSE r)
  <2>1. CASE Step <= r
    BY <1>1, <1>2, <1>3, <2>1, MinIs
  <2>2. CASE ~ (Step <= r)
    BY <1>1, <1>2, <1>3, <2>2, MinIs
  <2> QED  BY <2>1, <2>2
<1>5. Chunk(e) \in Nat /\ Chunk(e) <= r
  BY <1>1, <1>2, <1>4
<1> QED  BY <1>1, <1>5 DEF r

\* No descriptor and no name stands for nothing.
LEMMA Nothing ==
  /\ Null \notin Fds /\ Fds \subseteq Nat
  /\ NoFile \notin Files /\ ConfigFile # NoFile
BY SdFilesAssumption DEF Null, Fds, NoFile, ConfigFile

\* _open() uses a free descriptor, _close() frees one and unmounts with the last.
LEMMA OpensIs ==
  ASSUME FileTypes, NEW f, f # NoFile, NEW fd \in Fds, Opens(f, fd)
  PROVE  /\ fd \notin InUse /\ InUse' = InUse \cup {fd} /\ mounted' = TRUE
         /\ open'[fd] = f /\ pos'[fd] = 0
         /\ \A d \in Fds \ {fd} : open'[d] = open[d] /\ pos'[d] = pos[d]
BY DEF FileTypes, Opens, InUse

LEMMA ClosesIs ==
  ASSUME FileTypes, NEW fd \in Fds, fd \in InUse, Closes(fd)
  PROVE  /\ InUse' = InUse \ {fd} /\ mounted' = (InUse' # {})
         /\ \A d \in Fds \ {fd} : open'[d] = open[d] /\ pos'[d] = pos[d]
<1>1. InUse' = InUse \ {fd}
  BY DEF FileTypes, Closes, InUse
<1>2. (InUse # {fd}) <=> (InUse \ {fd} # {})
  OBVIOUS
<1> QED  BY <1>1, <1>2 DEF FileTypes, Closes
-----------------------------------------------------------------------------
(* memory as the lines have it *)

\* A line that is not chosen changes nothing.
LEMMA SkipLine ==
  ASSUME NEW m, NEW c, NEW sw, NEW es, NEW n \in Nat, n >= 1, ~ Chosen(sw, es[n]),
         MemHolds(m, sw, es, n - 1), ConfigHolds(c, sw, es, n - 1)
  PROVE  MemHolds(m, sw, es, n) /\ ConfigHolds(c, sw, es, n)
<1>1. 1 .. n = 1 .. n - 1 \cup {n}
  OBVIOUS
<1>2. \A a : Covering(sw, es, n, a) = Covering(sw, es, n - 1, a)
  BY <1>1 DEF Covering
<1>3. \A flag : Flagged(sw, es, n, flag) = Flagged(sw, es, n - 1, flag)
  BY <1>1 DEF Flagged
<1> QED  BY <1>2, <1>3 DEF MemHolds, CellHolds, ConfigHolds, NamesFirst

\* A line whose payload is there whole is the last that covers its cells.
LEMMA LoadLine ==
  ASSUME NEW m, NEW sw, NEW es, NEW n \in Nat, n >= 1, Chosen(sw, es[n]),
         CopiedTo(m, sw, es, n, Size[es[n].path])
  PROVE  MemHolds(m, sw, es, n)
<1>1. 1 .. n = 1 .. n - 1 \cup {n}
  OBVIOUS
<1>2. ASSUME NEW a \in Memory, a \in Cells(es[n]) PROVE CellHolds(m, sw, es, n, a)
  <2> DEFINE K == Covering(sw, es, n, a)
  <2>1. n \in K /\ K \in SUBSET Int /\ \A x \in K : x <= n
    BY <1>1, <1>2 DEF Covering
  <2>2. Max(K) = n
    BY <2>1, MaxIs
  <2>3. m[a] = <<es[n].path, a - es[n].addr>>
    BY <1>2 DEF CopiedTo, Cells
  <2> QED  BY <2>1, <2>2, <2>3 DEF CellHolds
<1>3. ASSUME NEW a \in Memory, a \notin Cells(es[n]) PROVE CellHolds(m, sw, es, n, a)
  <2>1. Covering(sw, es, n, a) = Covering(sw, es, n - 1, a)
    BY <1>1, <1>3 DEF Covering
  <2>2. CellHolds(m, sw, es, n - 1, a)
    BY <1>3 DEF CopiedTo, Cells
  <2> QED  BY <2>1, <2>2 DEF CellHolds
<1> QED  BY <1>2, <1>3 DEF MemHolds

\* Its flag says which part of the boot configuration it sets.
LEMMA ConfigLine ==
  ASSUME NEW c, NEW sw, NEW es, NEW n \in Nat, n >= 1, Chosen(sw, es[n]),
         ConfigHolds(c, sw, es, n - 1)
  PROVE  ConfigHolds([boot |-> IF es[n].flag = "BOOT" THEN es[n].addr ELSE c.boot,
                      fdt  |-> IF es[n].flag = "FDT" THEN es[n].addr ELSE c.fdt,
                      next |-> IF es[n].flag = "NXT" THEN es[n].addr ELSE c.next], sw, es, n)
<1>1. 1 .. n = 1 .. n - 1 \cup {n}
  OBVIOUS
<1>2. ASSUME NEW flag, NEW v, NamesFirst(sw, es, n - 1, flag, v)
      PROVE  NamesFirst(sw, es, n, flag, IF es[n].flag = flag THEN es[n].addr ELSE v)
  <2>1. CASE es[n].flag = flag
    <3>1. n \in Flagged(sw, es, n, flag)
      BY <1>1, <2>1 DEF Flagged
    <3> QED  BY <2>1, <3>1 DEF NamesFirst
  <2>2. CASE es[n].flag # flag
    <3>1. Flagged(sw, es, n, flag) = Flagged(sw, es, n - 1, flag)
      BY <1>1, <2>2 DEF Flagged
    <3> QED  BY <1>2, <2>2, <3>1 DEF NamesFirst
  <2> QED  BY <2>1, <2>2
<1> QED  BY <1>2 DEF ConfigHolds
-----------------------------------------------------------------------------
(* the files and the mailboxes *)

\* The calls keep the table of open files in shape.
LEMMA CallTypes ==
  ASSUME FileTypes, NEW f \in Files \cup {ConfigFile}, NEW fd, NEW n \in Nat,
         \/ Opens(f, fd) \/ Closes(fd) \/ Reads(fd, n)
         \/ OpenFails \/ SizeKnown(f) \/ SizeUnknown(f) \/ UNCHANGED files
  PROVE  FileTypes'
<1>1. CASE Opens(f, fd)
  BY <1>1 DEF FileTypes, Opens
<1>2. CASE Closes(fd)
  BY <1>2 DEF FileTypes, Closes
<1>3. CASE Reads(fd, n)
  BY <1>3 DEF FileTypes, Reads, InUse
<1>4. CASE OpenFails \/ SizeKnown(f) \/ UNCHANGED files
  BY <1>4 DEF FileTypes, OpenFails, SizeKnown, files
<1>5. CASE SizeUnknown(f)
  <2>1. ASSUME NEW d \in Fds, Opens(f, d) PROVE FileTypes'
    BY <2>1 DEF FileTypes, Opens
  <2> QED  BY <1>4, <1>5, <2>1 DEF SizeUnknown
<1> QED  BY <1>1, <1>2, <1>3, <1>4, <1>5

\* get_file_size() disturbs no open file.
LEMMA SizeIs ==
  ASSUME FileTypes, NEW f \in Files, SizeKnown(f) \/ SizeUnknown(f)
  PROVE  /\ \A d \in InUse : open'[d] = open[d]
         /\ InUse # {} /\ mounted => mounted'
         /\ SizeKnown(f) => open' = open /\ pos' = pos /\ mounted' = (InUse # {})
<1>1. CASE SizeKnown(f)
  BY <1>1 DEF SizeKnown, InUse
<1>2. CASE OpenFails
  BY <1>2 DEF OpenFails, SizeKnown
<1>3. ASSUME NEW fd \in Fds, Opens(f, fd) PROVE \A d \in InUse : open'[d] = open[d]
  BY <1>3 DEF Opens, FileTypes, InUse
<1>4. ASSUME NEW fd \in Fds, Opens(f, fd) PROVE mounted' /\ ~ SizeKnown(f)
  <2>1. open'[fd] = f /\ open[fd] = NoFile
    BY <1>4 DEF Opens, FileTypes, InUse
  <2> QED  BY <1>4, <2>1, Nothing DEF Opens, SizeKnown
<1> QED  BY <1>1, <1>2, <1>3, <1>4 DEF SizeUnknown

\* A payload's entry names a file.
LEMMA NamesFile ==
  ASSUME Progress, pc \in {"entry"} \cup Loading
  PROVE  entry \in Entry /\ entry.path \in Files /\ entry.path # NoFile
         /\ Size[entry.path] \in Nat
BY Nothing, FsblAssumption DEF Progress, Entry

\* Every step keeps the variables in their types.
LEMMA TypesStep ==
  ASSUME IInv, Next
  PROVE  Types'
<1>1. Types /\ Progress
  BY DEF IInv
<1>2. entries' \in Seq(Entry)
  <2>1. UNCHANGED entries
    BY DEF Next, Load, Start, Worker, Clear, OpenConfig, Menu, ParseEntry, EndOfConfig,
           SelectEntry, SizeEntry, SizeAgain, OpenPayload, Copy, CloseFile, SetConfig, Fail,
           CheckBoot, Examine, Wait, StartHart, Jump, Park, CheckReady, StartPayload, disk, vars
  <2> QED  BY <1>1, <2>1 DEF Types
<1>3. pc' \in Places
  <2>1. CASE Load
    BY <2>1 DEF Load, Clear, OpenConfig, Menu, ParseEntry, EndOfConfig, SelectEntry, SizeEntry,
           SizeAgain, OpenPayload, Copy, CloseFile, SetConfig, Fail, CheckBoot, Main, Places,
           Loading, Loaded
  <2>2. CASE Start
    BY <1>1, <2>2 DEF Start, Examine, Wait, StartHart, Jump, Main, Places, Loaded, Types
  <2>3. CASE \E h \in Secondaries : Worker(h)
    BY <1>1, <2>3 DEF Worker, Park, CheckReady, StartPayload, Types
  <2> QED  BY <2>1, <2>2, <2>3 DEF Next
<1>4. /\ job' \in [Secondaries -> {"check_ready", "start_payload", Idle}]
      /\ hart' \in [Secondaries -> {"booting", "parked", "payload"}]
  <2>1. CASE Load \/ Jump \/ Wait
    BY <1>1, <2>1 DEF Load, Clear, OpenConfig, Menu, ParseEntry, EndOfConfig, SelectEntry,
           SizeEntry, SizeAgain, OpenPayload, Copy, CloseFile, SetConfig, Fail, CheckBoot, Jump,
           Wait, harts, Types
  <2>2. CASE Examine \/ StartHart
    BY <1>1, <2>2 DEF Examine, StartHart, HartStart, Types
  <2>3. CASE \E h \in Secondaries : Worker(h)
    BY <1>1, <2>3 DEF Worker, Park, CheckReady, StartPayload, Types
  <2> QED  BY <2>1, <2>2, <2>3 DEF Next, Start
<1>5. FileTypes'
  <2>1. CASE Clear \/ Menu \/ SelectEntry \/ SetConfig \/ CheckBoot \/ Start
             \/ \E h \in Secondaries : Worker(h)
    <3>1. UNCHANGED files
      BY <2>1 DEF Clear, Menu, SelectEntry, SetConfig, CheckBoot, Start, Examine, Wait,
             StartHart, Jump, Worker, Park, CheckReady, StartPayload
    <3> QED  BY <1>1, <3>1 DEF Types, FileTypes, files
  <2>2. CASE OpenConfig
    BY <1>1, <2>2, CallTypes DEF Types, OpenConfig
  <2>3. CASE ParseEntry \/ EndOfConfig
    BY <1>1, <2>3, CallTypes DEF Types, ParseEntry, EndOfConfig
  <2>4. CASE SizeEntry \/ SizeAgain
    <3>1. entry.path \in Files
      BY <1>1, <2>4, NamesFile DEF SizeEntry, SizeAgain, Loading
    <3> QED  BY <1>1, <2>4, <3>1, CallTypes DEF Types, SizeEntry, SizeAgain
  <2>5. CASE OpenPayload
    <3>1. entry.path \in Files
      BY <1>1, <2>5, NamesFile DEF OpenPayload, Loading
    <3> QED  BY <1>1, <2>5, <3>1, CallTypes DEF Types, OpenPayload
  <2>6. CASE Copy
    <3>1. PICK n \in 0 .. Chunk(entry) : Reads(fp, n)
      BY <2>6 DEF Copy
    <3>2. n \in Nat /\ ConfigFile \in Files \cup {ConfigFile}
      OBVIOUS
    <3> QED  BY <1>1, <3>1, <3>2, CallTypes DEF Types
  <2>7. CASE CloseFile \/ Fail
    BY <1>1, <2>7, CallTypes DEF Types, CloseFile, Fail
  <2> QED  BY <2>1, <2>2, <2>3, <2>4, <2>5, <2>6, <2>7 DEF Next, Load
<1> QED  BY <1>2, <1>3, <1>4, <1>5 DEF Types

\* No step sends a hart to the payload early.
LEMMA HartsStep ==
  ASSUME IInv, Next
  PROVE  HartsWait'
<1>1. Types /\ HartsWait
  BY DEF IInv
<1>2. CASE Load \/ Jump \/ Wait
  <2>1. job' = job /\ hart' = hart
    BY <1>2 DEF Load, Clear, OpenConfig, Menu, ParseEntry, EndOfConfig, SelectEntry, SizeEntry,
           SizeAgain, OpenPayload, Copy, CloseFile, SetConfig, Fail, CheckBoot, Jump, Wait, harts
  <2>2. pc \in {"start", "jump", "payload"} => pc' \in {"start", "jump", "payload"}
    BY <1>2 DEF Load, Clear, OpenConfig, Menu, ParseEntry, EndOfConfig, SelectEntry, SizeEntry,
           SizeAgain, OpenPayload, Copy, CloseFile, SetConfig, Fail, CheckBoot, Jump, Wait, Main
  <2> QED  BY <1>1, <2>1, <2>2 DEF HartsWait
<1>3. CASE Examine
  BY <1>1, <1>3 DEF Examine, HartStart, Main, HartsWait, Types
<1>4. CASE StartHart
  BY <1>4 DEF StartHart, HartsWait
<1>5. ASSUME NEW h \in Secondaries, Worker(h) PROVE HartsWait'
  BY <1>1, <1>5 DEF Worker, Park, CheckReady, StartPayload, HartsWait, Types
<1> QED  BY <1>2, <1>3, <1>4, <1>5 DEF Next, Start
-----------------------------------------------------------------------------
(* the descriptors *)

\* What is known where a file is loaded.
LEMMA AtLoading ==
  ASSUME IInv
  PROVE  /\ FileTypes /\ Descriptors /\ pc \in Places
         /\ pc \in {"entry"} \cup Loading =>
               entry \in Entry /\ entry.path \in Files /\ entry.path # NoFile
         /\ InUse \in SUBSET Fds /\ Null \notin InUse
         /\ parser # Null => parser \in InUse
         /\ fp # Null => fp \in InUse
<1>1. FileTypes /\ Descriptors /\ Progress /\ pc \in Places
  BY DEF IInv, Types
<1>2. InUse \in SUBSET Fds /\ Null \notin InUse
  BY Nothing DEF InUse
<1>3. parser # Null => parser \in InUse
  BY <1>1, Nothing DEF Descriptors, InUse
<1>4. fp # Null => fp \in InUse
  BY <1>1, NamesFile, Nothing DEF Descriptors, InUse, Loading
<1> QED  BY <1>1, <1>2, <1>3, <1>4, NamesFile

\* Every step keeps the open files those of the parser and of the loader.
LEMMA DescriptorsStep ==
  ASSUME IInv, Next
  PROVE  Descriptors'
<1> USE DEF Main
<1>1. FileTypes /\ Descriptors
  BY DEF IInv, Types
<1>2. ASSUME UNCHANGED <<files, parser, fp>>, fp # Null => UNCHANGED entry, pc' # pc,
             \/ pc \in {"clear", "open"} \cup Loaded /\ pc' \in {"open", "stopped"} \cup Loaded
             \/ pc = "menu" /\ pc' \in {"size", "stopped"}
             \/ pc = "entry" /\ pc' \in {"size", "parse"}
             \/ pc = "flag" /\ pc' = (IF parser = Null THEN "boot" ELSE "parse")
      PROVE  Descriptors'
  <2>1. InUse' = InUse
    BY <1>2 DEF InUse, files
  <2> QED  BY <1>1, <1>2, <2>1 DEF Descriptors, files, Loading, Loaded
<1>3. CASE Clear \/ Menu \/ SelectEntry \/ SetConfig \/ CheckBoot
  <2>1. fp = Null
    BY <1>1, <1>3 DEF Clear, Menu, SelectEntry, SetConfig, CheckBoot, Descriptors
  <2> QED  BY <1>2, <1>3, <2>1 DEF Clear, Menu, SelectEntry, SetConfig, CheckBoot, loader, Loaded
<1>4. CASE Start
  <2>1. CASE pc' = pc
    <3>1. UNCHANGED <<files, parser, fp, entry>>
      BY <1>4 DEF Start, Examine, Wait, StartHart, Jump, loader
    <3>2. InUse' = InUse
      BY <3>1 DEF InUse, files
    <3> QED  BY <1>1, <2>1, <3>1, <3>2 DEF Descriptors, files
  <2> QED  BY <1>2, <1>4, <2>1 DEF Start, Examine, Wait, StartHart, Jump, loader, Loaded
<1>5. CASE \E h \in Secondaries : Worker(h)
  <2>1. UNCHANGED <<files, parser, fp, entry, pc>>
    BY <1>5 DEF Worker, Park, CheckReady, StartPayload, loader
  <2>2. InUse' = InUse
    BY <2>1 DEF InUse, files
  <2> QED  BY <1>1, <2>1, <2>2 DEF Descriptors, files
<1>6. CASE OpenConfig
  <2>1. parser = Null /\ fp = Null /\ InUse = {} /\ fp' = Null /\ entry' = entry
    BY <1>1, <1>6 DEF OpenConfig, Descriptors, Loading
  <2>2. ASSUME NEW fd \in Fds, Opens(ConfigFile, fd), parser' = fd, pc' = "parse"
        PROVE  Descriptors'
    <3>1. fd # Null /\ InUse' = {fd} /\ mounted' /\ open'[fd] = ConfigFile
      BY <1>1, <2>1, <2>2, Nothing, OpensIs
    <3> QED  BY <2>1, <2>2, <3>1 DEF Descriptors, Loading
  <2>3. CASE OpenFails /\ pc' = "menu" /\ UNCHANGED parser
    <3>1. InUse' = InUse
      BY <2>3 DEF OpenFails, InUse
    <3> QED  BY <2>1, <2>3, <3>1 DEF Descriptors, Loading
  <2> QED  BY <1>6, <2>2, <2>3 DEF OpenConfig
<1>7. CASE ParseEntry \/ Copy
  <2>1. open' = open /\ mounted' = mounted /\ InUse' = InUse /\ parser' = parser /\ fp' = fp
    BY <1>7 DEF ParseEntry, Copy, Reads, InUse, loader
  <2>2. CASE ParseEntry
    BY <1>1, <2>1, <2>2 DEF ParseEntry, Descriptors, Loading
  <2>3. CASE Copy
    <3>1. pc = "copy" /\ pc' \in {"copy", "close", "lost"} /\ entry' = entry
      BY <2>3 DEF Copy, loader
    <3> QED  BY <1>1, <2>1, <3>1 DEF Descriptors, Loading
  <2> QED  BY <1>7, <2>2, <2>3
<1>8. CASE EndOfConfig
  <2>1. parser \in Fds /\ parser \in InUse /\ fp = Null /\ InUse = {parser}
    BY <1>1, <1>8, AtLoading DEF EndOfConfig, Descriptors
  <2>2. InUse' = {} /\ mounted' = FALSE
    BY <1>1, <1>8, <2>1, ClosesIs DEF EndOfConfig
  <2> QED  BY <1>8, <2>1, <2>2 DEF EndOfConfig, Descriptors, Loading
<1>9. CASE SizeEntry \/ SizeAgain
  <2>1. /\ SizeKnown(entry.path) \/ (SizeUnknown(entry.path) /\ pc' = "fail")
        /\ pc \in {"size", "load"} /\ pc' \in {"load", "fopen", "fail"}
        /\ UNCHANGED <<parser, fp, entry>>
    <3>1. CASE SizeEntry
      <4>1. UNCHANGED loader
        BY <3>1 DEF SizeEntry
      <4> QED  BY <3>1, <4>1 DEF SizeEntry, loader
    <3>2. CASE SizeAgain
      BY <3>2 DEF SizeAgain, loader
    <3> QED  BY <1>9, <3>1, <3>2
  <2>2. fp = Null
    BY <1>1, <2>1 DEF Descriptors
  <2>3. entry.path \in Files
    BY <2>1, AtLoading DEF Loading
  <2>4. parser # Null => parser \in Fds /\ open'[parser] = ConfigFile /\ mounted'
    BY <1>1, <2>1, <2>3, SizeIs, AtLoading DEF Descriptors
  <2>5. CASE pc' = "fail"
    BY <2>1, <2>2, <2>4, <2>5 DEF Descriptors, Loading
  <2>6. CASE SizeKnown(entry.path) /\ pc' # "fail"
    <3>1. open' = open /\ mounted' = (InUse # {}) /\ InUse' = InUse
      BY <2>6 DEF SizeKnown, InUse
    <3> QED  BY <1>1, <2>1, <2>2, <2>4, <2>6, <3>1 DEF Descriptors, Loading
  <2> QED  BY <2>1, <2>5, <2>6
<1>10. CASE OpenPayload
  <2>1. fp = Null /\ entry' = entry /\ parser' = parser /\ pc = "fopen"
    BY <1>1, <1>10 DEF OpenPayload, Descriptors
  <2>2. entry.path # NoFile
    BY <2>1, AtLoading DEF Loading
  <2>3. ASSUME NEW fd \in Fds, Opens(entry.path, fd), fp' = fd, pc' = "copy"
        PROVE  Descriptors'
    <3>1. /\ fd # Null /\ fd \notin InUse /\ InUse' = InUse \cup {fd} /\ mounted' = TRUE
          /\ open'[fd] = entry.path /\ \A d \in Fds \ {fd} : open'[d] = open[d]
      BY <1>1, <2>2, <2>3, Nothing, OpensIs
    <3>2. parser # fd
      BY <3>1, AtLoading
    <3>3. InUse = {parser} \ {Null}
      BY <1>1, <2>1 DEF Descriptors
    <3> QED  BY <1>1, <2>1, <2>3, <3>1, <3>2, <3>3 DEF Descriptors, Loading
  <2>4. CASE OpenFails /\ pc' = "fail" /\ UNCHANGED fp
    <3>1. mounted => mounted'
      BY <2>4 DEF OpenFails
    <3> QED  BY <1>1, <2>1, <2>4, <3>1 DEF Descriptors, OpenFails, Loading
  <2> QED  BY <1>10, <2>3, <2>4 DEF OpenPayload
<1>11. CASE CloseFile
  <2>1. fp \in Fds /\ fp \in InUse /\ fp # parser /\ InUse = {parser, fp} \ {Null}
    BY <1>1, <1>11, AtLoading DEF CloseFile, Descriptors
  <2>2. /\ InUse' = {parser} \ {Null} /\ mounted' = (InUse' # {})
        /\ \A d \in Fds \ {fp} : open'[d] = open[d]
    BY <1>1, <1>11, <2>1, ClosesIs, Nothing DEF CloseFile
  <2>3. /\ pc' \in {"flag", "fail"} /\ fp' = Null /\ parser' = parser
    BY <1>11 DEF CloseFile
  <2> QED  BY <1>1, <2>1, <2>2, <2>3 DEF Descriptors, Loading
<1>12. CASE Fail
  BY <1>1, <1>12 DEF Fail, Descriptors, Loading
<1> QED  BY <1>3, <1>4, <1>5, <1>6, <1>7, <1>8, <1>9, <1>10, <1>11, <1>12 DEF Next, Load
-----------------------------------------------------------------------------
(* the progress of the loader *)

\* Before the first line, nothing is loaded.
LEMMA NoLines ==
  ASSUME NEW m, NEW c, NEW sw, NEW es, \A a \in Memory : m[a] \in {Own, Blank},
         c = [boot |-> Null, fdt |-> Null, next |-> Null]
  PROVE  MemHolds(m, sw, es, 0) /\ ConfigHolds(c, sw, es, 0)
<1>1. 1 .. 0 = {}
  OBVIOUS
<1>2. \A a : Covering(sw, es, 0, a) = {}
  BY <1>1 DEF Covering
<1>3. \A flag : Flagged(sw, es, 0, flag) = {}
  BY <1>1 DEF Flagged
<1> QED  BY <1>2, <1>3 DEF MemHolds, CellHolds, ConfigHolds, NamesFirst

\* A chunk continues what is there of the payload.
LEMMA CopyIs ==
  ASSUME NEW sw, NEW es, NEW k, NEW n \in Nat, es[k] = entry, entry \in Entry,
         pos[fp] \in Nat, CopiedTo(mem, sw, es, k, pos[fp])
  PROVE  CopiedTo(CopyStep(n), sw, es, k, pos[fp] + n)
<1> DEFINE p == pos[fp]
<1>1. entry.addr \in Nat /\ p \in Nat
  BY DEF Entry
<1>2. ASSUME NEW a \in Memory, a \in entry.addr + p .. entry.addr + p + n - 1
      PROVE  CopyStep(n)[a] = <<entry.path, a - entry.addr>>
  BY <1>2 DEF CopyStep, Target
<1>3. ASSUME NEW a \in Memory, a \notin entry.addr + p .. entry.addr + p + n - 1
      PROVE  CopyStep(n)[a] = mem[a] /\ \A j : CellHolds(mem, sw, es, j, a) =>
                                               CellHolds(CopyStep(n), sw, es, j, a)
  <2>1. CopyStep(n)[a] = mem[a]
    BY <1>3 DEF CopyStep, Target
  <2> QED  BY <2>1 DEF CellHolds
<1>4. entry.addr .. entry.addr + p - 1 \cup entry.addr + p .. entry.addr + p + n - 1
        = entry.addr .. entry.addr + (p + n) - 1
  BY <1>1
<1> QED  BY <1>2, <1>3, <1>4 DEF CopiedTo

\* Every step keeps memory and the configuration as the lines so far have them.
LEMMA ProgressStep ==
  ASSUME IInv, Next
  PROVE  Progress'
<1> USE DEF Main
<1>1. FileTypes /\ Descriptors /\ Progress /\ entries \in Seq(Entry)
  BY DEF IInv, Types
<1>2. CASE Clear
  <2>1. parser' = Null /\ pc = "clear" /\ pc' = "open" /\ config' = config
    BY <1>1, <1>2 DEF Clear, Descriptors, Loading, loader
  <2>2. \A a \in Memory : mem'[a] \in {Own, Blank}
    BY <1>1, <1>2 DEF Clear, Progress
  <2> QED  BY <1>1, <2>1, <2>2 DEF Progress, Loading, Loaded
<1>3. CASE OpenConfig
  <2>1. /\ \A a \in Memory : mem[a] \in {Own, Blank}
        /\ config = [boot |-> Null, fdt |-> Null, next |-> Null]
        /\ parser = Null
    BY <1>1, <1>3 DEF OpenConfig, Progress, Descriptors, Loading
  <2>2. UNCHANGED <<mem, config, hasConfig, entries, switches>>
    BY <1>3 DEF OpenConfig, disk
  <2>3. ASSUME hasConfig, NEW fd \in Fds, Opens(ConfigFile, fd), parser' = fd, pc' = "parse"
        PROVE  Progress'
    <3>1. pos'[fd] = 0
      BY <1>1, <2>3, Nothing, OpensIs
    <3>2. Len(entries) \in Nat
      BY <1>1
    <3> QED  BY <2>1, <2>2, <2>3, <3>1, <3>2, NoLines DEF Progress, Loading, Loaded
  <2>4. CASE pc' = "menu" /\ UNCHANGED parser
    BY <2>1, <2>2, <2>4 DEF Progress, Loading, Loaded
  <2> QED  BY <1>3, <2>3, <2>4 DEF OpenConfig
<1>4. CASE Menu
  <2>1. /\ \A a \in Memory : mem[a] \in {Own, Blank}
        /\ config = [boot |-> Null, fdt |-> Null, next |-> Null]
        /\ parser = Null
    BY <1>1, <1>4 DEF Menu, Progress, Descriptors, Loading
  <2>2. UNCHANGED <<mem, config, hasConfig, entries, switches, parser>>
    BY <1>4 DEF Menu, disk
  <2>3. ASSUME NEW f \in Files, entry' = MenuEntry(f), pc' = "size"
        PROVE  Progress'
    <3>1. entry' \in Entry /\ entry'.gpio = -1
      BY <2>3, RamBounds DEF MenuEntry, Entry
    <3>2. Nth' = 1 /\ Lst' = <<entry'>>
      BY <2>1, <2>2 DEF Nth, Lst
    <3>3. Chosen(switches, entry')
      BY <3>1 DEF Chosen
    <3>4. MemHolds(mem, switches, Lst', 0) /\ ConfigHolds(config, switches, Lst', 0)
      BY <2>1, NoLines
    <3> QED  BY <2>1, <2>2, <2>3, <3>1, <3>2, <3>3, <3>4 DEF Progress, Loading, Loaded
  <2>4. CASE pc' = "stopped"
    BY <2>1, <2>2, <2>4 DEF Progress, Loading, Loaded
  <2> QED  BY <1>4, <2>3, <2>4 DEF Menu
<1>5. CASE ParseEntry
  <2>1. /\ pos[parser] \in 0 .. Len(entries) /\ pos[parser] < Len(entries)
        /\ MemHolds(mem, switches, entries, pos[parser])
        /\ ConfigHolds(config, switches, entries, pos[parser])
        /\ parser \in Fds /\ parser # Null /\ hasConfig
    BY <1>1, <1>5 DEF ParseEntry, Progress, Descriptors
  <2>2. /\ UNCHANGED <<mem, config, hasConfig, entries, switches, parser>>
        /\ pos'[parser] = pos[parser] + 1
    BY <1>1, <1>5, <2>1 DEF ParseEntry, Reads, FileTypes, disk
  <2>3. Nth' = pos[parser] + 1 /\ Nth' - 1 = pos[parser] /\ Nth' \in 1 .. Len(entries)
    BY <1>1, <2>1, <2>2 DEF Nth
  <2>4. Lst' = entries
    BY <2>1, <2>2 DEF Lst
  <2>5. entry' = entries[Nth'] /\ entry' \in Entry /\ pc' = "entry"
    BY <1>1, <1>5, <2>3 DEF ParseEntry
  <2> QED  BY <2>1, <2>2, <2>3, <2>4, <2>5 DEF Progress, Loading, Loaded
<1>6. CASE EndOfConfig
  <2>1. UNCHANGED <<mem, config, hasConfig, entries, switches>> /\ parser' = Null /\ pc' = "boot"
    BY <1>6 DEF EndOfConfig, disk
  <2>2. \/ ReadErrors
        \/ hasConfig /\ AllHold(mem, config, switches, entries)
    BY <1>1, <1>6 DEF EndOfConfig, Progress, Descriptors, AllHold
  <2> QED  BY <2>1, <2>2 DEF Progress, Loading, Loaded
<1>7. CASE SelectEntry
  <2>1. /\ Nth \in 1 .. Len(Lst) /\ entry = Lst[Nth] /\ entry \in Entry
        /\ ConfigHolds(config, switches, Lst, Nth - 1) /\ MemHolds(mem, switches, Lst, Nth - 1)
        /\ Lst = entries /\ Nth = pos[parser] /\ parser # Null /\ hasConfig
    BY <1>1, <1>7 DEF SelectEntry, Progress, Descriptors, Lst, Nth
  <2>2. UNCHANGED <<mem, config, hasConfig, entries, switches, parser, entry, pos>>
    BY <1>7 DEF SelectEntry, loader, disk, files
  <2>3. Lst' = Lst /\ Nth' = Nth
    BY <2>2 DEF Lst, Nth
  <2>4. CASE Chosen(switches, entry)
    <3>1. pc' = "size"
      BY <1>7, <2>4 DEF SelectEntry, Selected, Chosen
    <3> QED  BY <2>1, <2>2, <2>3, <2>4, <3>1 DEF Progress, Loading, Loaded
  <2>5. CASE ~ Chosen(switches, entry)
    <3>1. pc' = "parse"
      BY <1>7, <2>5 DEF SelectEntry, Selected, Chosen
    <3>2. Nth \in Nat /\ Nth >= 1 /\ Nth \in 0 .. Len(entries)
      BY <1>1, <2>1
    <3>3. MemHolds(mem, switches, Lst, Nth) /\ ConfigHolds(config, switches, Lst, Nth)
      BY <2>1, <2>5, <3>2, SkipLine
    <3> QED  BY <2>1, <2>2, <3>1, <3>2, <3>3 DEF Progress, Loading, Loaded
  <2> QED  BY <2>4, <2>5
<1>8. CASE SizeEntry \/ SizeAgain
  <2>1. UNCHANGED <<mem, config, hasConfig, entries, switches, parser, entry>>
    <3>1. UNCHANGED <<disk, mem, loader>>
      BY <1>8 DEF SizeEntry, SizeAgain
    <3> QED  BY <3>1 DEF disk, loader
  <2>2. pc \in {"size", "load"} /\ (pc' = "fail" \/ (pos' = pos /\ pc' \in {"load", "fopen"}))
    BY <1>8 DEF SizeEntry, SizeAgain, SizeKnown
  <2>3. CASE pc' = "fail"
    BY <1>1, <2>1, <2>3 DEF Progress, Loading, Loaded
  <2>4. CASE pos' = pos /\ pc' \in {"load", "fopen"}
    <3>1. Lst' = Lst /\ Nth' = Nth
      BY <2>1, <2>4 DEF Lst, Nth
    <3> QED  BY <1>1, <2>1, <2>2, <2>4, <3>1 DEF Progress, Loading, Loaded
  <2> QED  BY <2>2, <2>3, <2>4
<1>9. CASE OpenPayload
  <2>1. UNCHANGED <<mem, config, hasConfig, entries, switches, parser, entry>> /\ pc = "fopen"
    BY <1>9 DEF OpenPayload, disk
  <2>2. CASE pc' = "fail"
    BY <1>1, <2>1, <2>2 DEF Progress, Loading, Loaded
  <2>3. ASSUME NEW fd \in Fds, Opens(entry.path, fd), fp' = fd, pc' = "copy"
        PROVE  Progress'
    <3>1. entry \in Entry /\ entry.path # NoFile /\ (parser # Null => parser \in InUse)
      BY <2>1, AtLoading DEF Loading
    <3>2. pos'[fd] = 0 /\ (parser # Null => pos'[parser] = pos[parser])
      BY <1>1, <2>3, <3>1, OpensIs DEF Descriptors
    <3>3. Lst' = Lst /\ Nth' = Nth
      BY <2>1, <3>2 DEF Lst, Nth
    <3>4. entry.addr \in Nat /\ Size[entry.path] \in Nat
      BY <3>1, FsblAssumption DEF Entry
    <3>5. entry = Lst[Nth] /\ MemHolds(mem, switches, Lst, Nth - 1)
      BY <1>1, <2>1 DEF Progress, Loading
    <3>6. CopiedTo(mem, switches, Lst, Nth, 0)
      BY <3>4, <3>5 DEF CopiedTo, MemHolds
    <3> QED  BY <1>1, <2>1, <2>3, <3>2, <3>3, <3>4, <3>6 DEF Progress, Loading, Loaded
  <2> QED  BY <1>9, <2>2, <2>3 DEF OpenPayload
<1>10. CASE Copy
  <2>1. PICK n \in 0 .. Chunk(entry) : Reads(fp, n) /\ mem' = CopyStep(n)
    BY <1>10 DEF Copy
  <2>2. /\ UNCHANGED <<config, hasConfig, entries, switches, parser, entry, fp>>
        /\ pc = "copy" /\ pc' \in {"copy", "close", "lost"}
    BY <1>10 DEF Copy, loader, disk
  <2>3. /\ entry \in Entry /\ entry = Lst[Nth] /\ pos[fp] \in 0 .. Size[entry.path]
        /\ CopiedTo(mem, switches, Lst, Nth, pos[fp])
    BY <1>1, <2>2 DEF Progress, Loading
  <2>4. fp \in Fds /\ fp # parser /\ (parser # Null => parser \in Fds)
    BY <1>1, <2>2 DEF Descriptors, Null
  <2>5. pos'[fp] = pos[fp] + n /\ (parser # Null => pos'[parser] = pos[parser])
    BY <1>1, <2>1, <2>4 DEF Reads, FileTypes
  <2>6. Lst' = Lst /\ Nth' = Nth
    BY <2>2, <2>5 DEF Lst, Nth
  <2>7. n \in Nat /\ pos[fp] \in Nat /\ pos[fp] + n \in 0 .. Size[entry.path]
    <3>1. Chunk(entry) \in Nat /\ pos[fp] + Chunk(entry) <= Size[entry.path]
      BY <2>3, ChunkIs
    <3>2. Size[entry.path] \in Nat
      BY <2>3, FsblAssumption DEF Entry
    <3> QED  BY <2>1, <2>3, <3>1, <3>2
  <2>8. CopiedTo(mem', switches, Lst, Nth, pos[fp] + n)
    BY <2>1, <2>3, <2>7, CopyIs
  <2> QED  BY <1>1, <2>2, <2>5, <2>6, <2>7, <2>8 DEF Progress, Loading, Loaded
<1>11. CASE CloseFile
  <2>1. /\ UNCHANGED <<mem, config, hasConfig, entries, switches, parser, entry>>
        /\ pc = "close" /\ pc' = (IF Whole THEN "flag" ELSE "fail")
    BY <1>11 DEF CloseFile, disk
  <2>2. CASE ~ Whole
    BY <1>1, <2>1, <2>2 DEF Progress, Loading, Loaded
  <2>3. CASE Whole
    <3>1. /\ Nth \in 1 .. Len(Lst) /\ entry = Lst[Nth] /\ Chosen(switches, entry)
          /\ CopiedTo(mem, switches, Lst, Nth, Size[entry.path])
      BY <1>1, <2>1, <2>3 DEF Progress, Loading, Whole
    <3>2. Nth \in Nat /\ Nth >= 1
      BY <3>1
    <3>3. MemHolds(mem, switches, Lst, Nth)
      BY <3>1, <3>2, LoadLine
    <3>4. parser # Null => pos'[parser] = pos[parser]
      BY <1>1, <1>11, <2>1 DEF CloseFile, Closes, FileTypes, Descriptors
    <3>5. Lst' = Lst /\ Nth' = Nth
      BY <2>1, <3>4 DEF Lst, Nth
    <3> QED  BY <1>1, <2>1, <2>3, <3>3, <3>5 DEF Progress, Loading, Loaded
  <2> QED  BY <2>2, <2>3
<1>12. CASE SetConfig
  <2>1. /\ UNCHANGED <<mem, hasConfig, entries, switches, parser, entry, pos>>
        /\ pc = "flag" /\ pc' = (IF parser = Null THEN "boot" ELSE "parse")
    BY <1>12 DEF SetConfig, disk, files
  <2>2. /\ Nth \in 1 .. Len(Lst) /\ entry = Lst[Nth] /\ Chosen(switches, entry)
        /\ MemHolds(mem, switches, Lst, Nth) /\ ConfigHolds(config, switches, Lst, Nth - 1)
        /\ parser # Null => hasConfig
        /\ parser = Null => \E f \in Files : entry = MenuEntry(f)
    BY <1>1, <2>1 DEF Progress, Loading
  <2>3. Nth \in Nat /\ Nth >= 1
    BY <2>2
  <2>4. ConfigHolds(config', switches, Lst, Nth)
    BY <1>12, <2>2, <2>3, ConfigLine DEF SetConfig
  <2>5. CASE parser = Null
    <3>1. Lst = <<entry>> /\ Nth = 1 /\ Len(Lst) = 1
      BY <2>5 DEF Lst, Nth
    <3>2. AllHold(mem, config', switches, <<entry>>)
      BY <2>2, <2>4, <3>1 DEF AllHold
    <3> QED  BY <2>1, <2>2, <2>5, <3>2 DEF Progress, Loading, Loaded
  <2>6. CASE parser # Null
    <3>1. Lst = entries /\ Nth = pos[parser]
      BY <2>6 DEF Lst, Nth
    <3> QED  BY <1>1, <2>1, <2>2, <2>3, <2>4, <2>6, <3>1 DEF Progress, Loading, Loaded
  <2> QED  BY <2>5, <2>6
<1>13. CASE Fail
  BY <1>13 DEF Fail, Progress, Loading, Loaded
<1>14. CASE CheckBoot \/ Start \/ \E h \in Secondaries : Worker(h)
  <2>1. UNCHANGED <<files, mem, disk, loader>>
    BY <1>14 DEF CheckBoot, Start, Examine, Wait, StartHart, Jump, Worker, Park, CheckReady,
           StartPayload
  <2>2. UNCHANGED <<pos, mem, hasConfig, entries, switches, entry, parser, fp, config>>
    BY <2>1 DEF files, disk, loader
  <2>3. pc' = pc \/ (pc \in Loaded /\ pc' \in Loaded \cup {"stopped"})
    BY <1>14 DEF CheckBoot, Start, Examine, Wait, StartHart, Jump, Worker, Park, CheckReady,
           StartPayload, Loaded
  <2>4. Lst' = Lst /\ Nth' = Nth
    BY <2>2 DEF Lst, Nth
  <2>5. CASE pc' = pc
    BY <1>1, <2>2, <2>4, <2>5 DEF Progress
  <2>6. CASE pc \in Loaded /\ pc' \in Loaded \cup {"stopped"}
    BY <1>1, <2>2, <2>6 DEF Progress, Loading, Loaded
  <2> QED  BY <2>3, <2>5, <2>6
<1> QED  BY <1>2, <1>3, <1>4, <1>5, <1>6, <1>7, <1>8, <1>9, <1>10, <1>11, <1>12, <1>13, <1>14
         DEF Next, Load
-----------------------------------------------------------------------------
(* the loader's own memory *)

\* No step writes to the RAM of the loader unless the payload encloses it or comes
\* from the menu.
LEMMA SparedStep ==
  ASSUME IInv, Next
  PROVE  Spared'
<1> USE DEF Main
<1>1. FileTypes /\ Descriptors /\ Progress /\ Spared
  BY DEF IInv, Types
<1>2. ASSUME UNCHANGED mem, pc # "lost" => pc' # "lost",
             pc = "lost" => pc' = "lost" /\ UNCHANGED <<parser, entry>>,
             pc' \in Writing => UNCHANGED <<parser, entry>> /\ pc \in Writing
      PROVE  Spared'
  BY <1>1, <1>2 DEF Spared, Cells, Encloses, Writing
<1>3. CASE Clear
  <2>1. pc = "clear" /\ pc' = "open"
    BY <1>3 DEF Clear
  <2>2. ASSUME NEW a \in FsblRam PROVE mem'[a] = Own
    <3>1. a \in Memory /\ a \notin RamStart .. BootRamStart - 1
      <4>1. a \in Nat /\ BootRamStart <= a
        BY RamBounds
      <4> QED  BY <4>1, FsblAssumption, RamBounds
    <3> QED  BY <1>1, <1>3, <2>1, <3>1 DEF Clear, Spared
  <2> QED  BY <2>1, <2>2 DEF Spared, Writing
<1>4. CASE OpenConfig \/ Menu \/ ParseEntry \/ EndOfConfig \/ SelectEntry \/ SetConfig \/ Fail
           \/ CheckBoot
  <2>1. UNCHANGED mem /\ pc # "lost" /\ pc' \notin Writing \cup {"lost"}
    BY <1>4 DEF OpenConfig, Menu, ParseEntry, EndOfConfig, SelectEntry, SetConfig, Fail, CheckBoot,
           disk, Writing
  <2> QED  BY <1>2, <2>1
<1>5. CASE Start \/ \E h \in Secondaries : Worker(h)
  <2>1. UNCHANGED <<disk, mem, loader>>
    BY <1>5 DEF Start, Examine, Wait, StartHart, Jump, Worker, Park, CheckReady, StartPayload
  <2>2. pc' = pc \/ (pc # "lost" /\ pc' \notin Writing \cup {"lost"})
    BY <1>5 DEF Start, Examine, Wait, StartHart, Jump, Worker, Park, CheckReady, StartPayload,
           Writing
  <2> QED  BY <1>2, <2>1, <2>2 DEF disk, loader
<1>6. CASE SizeAgain \/ OpenPayload
  <2>1. UNCHANGED <<mem, entry, parser>> /\ pc \in Writing /\ pc # "lost" /\ pc' # "lost"
    BY <1>6 DEF SizeAgain, OpenPayload, disk, loader, Writing
  <2> QED  BY <1>2, <2>1
<1>7. CASE CloseFile
  <2>1. UNCHANGED mem /\ pc # "lost" /\ pc' \notin Writing \cup {"lost"}
    BY <1>7 DEF CloseFile, disk, Writing
  <2> QED  BY <1>2, <2>1
<1>8. CASE SizeEntry
  <2>1. UNCHANGED <<mem, loader>> /\ pc = "size"
    BY <1>8 DEF SizeEntry
  <2>2. CASE pc' = "fail"
    BY <1>2, <2>1, <2>2 DEF loader, Writing
  <2>3. CASE pc' = "load" /\ ~ (parser # Null /\ Overlaps(entry))
    <3> DEFINE from == entry.addr
               to == entry.addr + Size[entry.path]
    <3>1. entry \in Entry /\ entry.path \in Files
      BY <2>1, AtLoading DEF Loading
    <3>2. from \in Nat /\ to \in Nat
      BY <3>1, FsblAssumption DEF Entry
    <3>3. /\ BootRamStart \in Nat /\ BootRamEnd \in Nat
          /\ FsblRam = BootRamStart .. BootRamEnd - 1
      BY RamBounds
    <3>4. ASSUME parser # Null, ~ Encloses(entry)
          PROVE  to <= BootRamStart \/ BootRamEnd <= from
      <4>1. /\ ~ (from >= BootRamStart /\ from < BootRamEnd)
            /\ ~ (to >= BootRamStart /\ to < BootRamEnd)
            /\ ~ (from < BootRamStart /\ to >= BootRamEnd)
        BY <2>3, <3>4 DEF Overlaps, Encloses
      <4> HIDE DEF from, to
      <4> QED  BY <3>2, <3>3, <4>1
    <3>5. Cells(entry) = from .. to - 1
      BY <3>1, FsblAssumption DEF Cells, Entry
    <3> HIDE DEF from, to
    <3>6. parser = Null \/ Encloses(entry) \/ Cells(entry) \cap FsblRam = {}
      BY <3>2, <3>3, <3>4, <3>5
    <3>7. Cells(entry)' = Cells(entry) /\ Encloses(entry)' = Encloses(entry) /\ parser' = parser
      BY <2>1 DEF Cells, Encloses, loader
    <3> QED  BY <1>1, <2>1, <2>3, <3>6, <3>7 DEF Spared
  <2> QED  BY <1>8, <2>2, <2>3 DEF SizeEntry
<1>9. CASE Copy
  <2>1. PICK n \in 0 .. Chunk(entry) :
           /\ mem' = CopyStep(n)
           /\ pc' = IF Target(n) \cap FsblRam # {} THEN "lost"
                    ELSE IF n = Step THEN "copy" ELSE "close"
    BY <1>9 DEF Copy
  <2>2. UNCHANGED <<parser, entry>> /\ pc = "copy"
    BY <1>9 DEF Copy, loader
  <2>3. /\ entry \in Entry /\ pos[fp] \in 0 .. Size[entry.path]
        /\ parser = Null \/ Encloses(entry) \/ Cells(entry) \cap FsblRam = {}
        /\ \A a \in FsblRam : mem[a] = Own
    BY <1>1, <2>2 DEF Progress, Loading, Spared, Writing
  <2>4. entry.addr \in Nat /\ Size[entry.path] \in Nat
    BY <2>3, FsblAssumption DEF Entry
  <2>5. n \in Nat /\ pos[fp] + n <= Size[entry.path]
    <3>1. Chunk(entry) \in Nat /\ pos[fp] + Chunk(entry) <= Size[entry.path]
      BY <2>3, ChunkIs
    <3> QED  BY <2>1, <2>3, <2>4, <3>1
  <2>6. Target(n) \subseteq Cells(entry)
    BY <2>3, <2>4, <2>5 DEF Cells, Target
  <2>7. Encloses(entry)' = Encloses(entry) /\ Cells(entry)' = Cells(entry)
    BY <2>2 DEF Encloses, Cells
  <2>8. CASE Target(n) \cap FsblRam # {}
    BY <2>1, <2>2, <2>3, <2>6, <2>7, <2>8 DEF Spared, Writing
  <2>9. CASE Target(n) \cap FsblRam = {}
    <3>1. ASSUME NEW a \in FsblRam PROVE mem'[a] = mem[a]
      <4>1. a \in Memory /\ a \notin Target(n)
        BY <2>9, FsblAssumption
      <4> QED  BY <2>1, <4>1 DEF CopyStep
    <3>2. pc' \in {"copy", "close"}
      BY <2>1, <2>9
    <3> QED  BY <2>2, <2>3, <2>7, <3>1, <3>2 DEF Spared
  <2> QED  BY <2>8, <2>9
<1> QED  BY <1>3, <1>4, <1>5, <1>6, <1>7, <1>8, <1>9 DEF Next, Load
-----------------------------------------------------------------------------
(* the theorems *)

\* The boot loader starts in the invariant.
LEMMA InitIInv ==
  ASSUME Init
  PROVE  IInv
<1> USE DEF Init, FilesInit
<1>1. Types
  BY FsblAssumption DEF Types, FileTypes, Places
<1>2. Descriptors
  BY DEF Descriptors, Loading, InUse
<1>3. HartsWait
  BY DEF HartsWait, Idle
<1>4. Progress
  BY DEF Progress, Loading, Loaded
<1>5. Spared
  BY FsblAssumption DEF Spared, Writing
<1> QED  BY <1>1, <1>2, <1>3, <1>4, <1>5 DEF IInv

\* Every step preserves it.
LEMMA StepIInv ==
  ASSUME IInv, [Next]_vars
  PROVE  IInv'
<1>1. CASE Next
  <2>1. Spared'
    BY <1>1, SparedStep
  <2>2. Types' /\ Descriptors' /\ HartsWait' /\ Progress'
    BY <1>1, TypesStep, DescriptorsStep, HartsStep, ProgressStep
  <2> QED  BY <2>1, <2>2 DEF IInv
<1>2. CASE UNCHANGED vars
  <2>1. UNCHANGED <<open, pos, mounted, pc, hasConfig, entries, switches, mem, entry, parser, fp,
                    config, job, hart>>
    BY <1>2 DEF vars, files, disk, loader, harts
  <2>2. Types' /\ Descriptors' /\ HartsWait'
    BY <2>1 DEF IInv, Types, FileTypes, Descriptors, HartsWait, InUse
  <2>3. Progress'
    BY <2>1 DEF IInv, Progress, Lst, Nth
  <2>4. Spared'
    BY <2>1 DEF IInv, Spared, Cells, Encloses, Writing
  <2> QED  BY <2>2, <2>3, <2>4 DEF IInv
<1> QED  BY <1>1, <1>2

\* The invariant that every step preserves holds throughout, whatever calls fail.
THEOREM Invariance == Spec => []IInv
BY InitIInv, StepIInv, PTL DEF Spec

\* While entries are processed, the parser's file is open on a mounted volume,
\* whatever payloads are opened and closed meanwhile and whatever calls fail.
THEOREM ConfigurationStays == Spec => []ConfigStaysReadable
<1>1. IInv => ConfigStaysReadable
  BY DEF IInv, Descriptors, ConfigStaysReadable
<1> QED  BY <1>1, Invariance, PTL

\* No hart is in the payload before hart 0 has loaded everything.
LEMMA EnterLoaded ==
  ASSUME IInv, InPayload
  PROVE  pc \in Loaded
BY DEF IInv, HartsWait, InPayload, Loaded

\* Every file is closed and the card unmounted before a hart is sent to the
\* payload, whether the payloads came from the configuration or the menu.
THEOREM CardReleased == Spec => []CardIsReleased
<1>1. ASSUME IInv, InPayload PROVE InUse = {} /\ ~ mounted
  <2>1. pc \in Loaded /\ pc # "boot"
    BY <1>1, EnterLoaded DEF IInv, HartsWait, InPayload
  <2> QED  BY <1>1, <2>1 DEF IInv, Descriptors, Loading, Loaded
<1> QED  BY <1>1, Invariance, PTL DEF CardIsReleased

\* AllHold() is what the property says of memory and of the configuration.
LEMMA HoldsIs ==
  ASSUME NEW es, Len(es) \in Nat, DOMAIN es = 1 .. Len(es),
         AllHold(mem, config, switches, es)
  PROVE  Holds(es)
<1> DEFINE n == Len(es)
<1>1. \A e : Selected(e) <=> Chosen(switches, e)
  BY DEF Selected, Chosen
<1>2. ASSUME NEW a \in Memory
      PROVE  LET Covers(e) == a \in e.addr .. e.addr + Size[e.path] - 1
                 K == Lines(es, Covers)
             IN  IF K = {} THEN mem[a] \in {Own, Blank}
                 ELSE LET e == es[Max(K)] IN mem[a] = <<e.path, a - e.addr>>
  <2> DEFINE Covers(e) == a \in e.addr .. e.addr + Size[e.path] - 1
  <2>1. Lines(es, Covers) = Covering(switches, es, n, a)
    BY <1>1 DEF Lines, Covering, Cells
  <2>2. CellHolds(mem, switches, es, n, a)
    BY DEF AllHold, MemHolds
  <2> QED  BY <2>1, <2>2 DEF CellHolds
<1>3. ASSUME NEW flag, NEW v, NamesFirst(switches, es, n, flag, v)
      PROVE  Names(es, flag, v)
  <2> DEFINE HasFlag(e) == e.flag = flag
  <2>1. Lines(es, HasFlag) = Flagged(switches, es, n, flag)
    BY <1>1 DEF Lines, Flagged
  <2> QED  BY <1>3, <2>1 DEF Names, NamesFirst
<1>4. ConfigHolds(config, switches, es, n)
  BY DEF AllHold
<1> QED  BY <1>2, <1>3, <1>4 DEF Holds, ConfigHolds

\* Unless a read of the configuration fails, no hart enters the payload before
\* each chosen payload is in memory, whole, in the order of its lines, and the
\* boot registers name entries of their kind; or the file from the menu is.
THEOREM LoadsAsConfigured ==
  ASSUME ReadErrors = FALSE
  PROVE  Spec => []LoadedAsConfigured
<1>1. ASSUME IInv, InPayload
      PROVE  \/ hasConfig /\ Holds(entries)
             \/ \E f \in Files : Holds(<<MenuEntry(f)>>)
  <2>1. \/ hasConfig /\ AllHold(mem, config, switches, entries)
        \/ \E f \in Files : AllHold(mem, config, switches, <<MenuEntry(f)>>)
    BY <1>1, EnterLoaded DEF IInv, Progress
  <2>2. Len(entries) \in Nat /\ DOMAIN entries = 1 .. Len(entries)
    BY <1>1 DEF IInv, Types
  <2>3. \A f \in Files : /\ Len(<<MenuEntry(f)>>) = 1
                         /\ DOMAIN <<MenuEntry(f)>> = 1 .. 1
    OBVIOUS
  <2> QED  BY <2>1, <2>2, <2>3, HoldsIs
<1>2. IInv => LoadedAsConfigured
  BY <1>1 DEF LoadedAsConfigured
<1> QED  BY <1>2, Invariance, PTL

\* Whatever the configuration, the sizes of the files and the failures, nothing is
\* ever loaded over the loader's own RAM except a payload that encloses it, or one
\* from the menu: what the check in process_entry() does not look at is all there is.
THEOREM FsblStaysIntact == Spec => []FsblIsIntact
<1>1. IInv => FsblIsIntact
  BY DEF IInv, Spared, FsblIsIntact
<1> QED  BY <1>1, Invariance, PTL
=============================================================================
