------------------------------ MODULE SdFiles ------------------------------
(***************************************************************************)
(* The file system calls of the boot loader (software/fsbl/src/sys_hw.c):  *)
(* a table of open files over one FatFs volume, which the first _open()    *)
(* mounts and the last _close() unmounts.  FatFs and the card are outside: *)
(* a call that reaches them may fail when Faulty holds.                    *)
(***************************************************************************)
EXTENDS Integers, FiniteSetsExt

CONSTANTS
    Files,      \* the files on the card
    MaxOpen,    \* FOPEN_MAX - 3
    Faulty      \* BOOLEAN: may the card or the file system fail?

ASSUME SdFilesAssumption ==
    /\ MaxOpen \in Nat \ {0}
    /\ Faulty \in BOOLEAN
    /\ "none" \notin Files

Fds == 3 .. 2 + MaxOpen
NoFile == "none"

VARIABLES
    open,       \* open_fd and fp[]: the file behind each descriptor, or NoFile
    pos,        \* how far each open file has been read
    mounted     \* sd_init_done

files == <<open, pos, mounted>>

FilesInit ==
    /\ open = [fd \in Fds |-> NoFile]
    /\ pos = [fd \in Fds |-> 0]
    /\ mounted = FALSE

InUse == {fd \in Fds : open[fd] # NoFile}
-----------------------------------------------------------------------------
\* _open(): the lowest free descriptor
Opens_First(f, fd) ==
    /\ fd = 3
    /\ open' = [open EXCEPT ![fd] = f]
    /\ pos' = [pos EXCEPT ![fd] = 0]
    /\ mounted' = TRUE

Opens(f, fd) ==
    /\ fd \notin InUse
    /\ \A other \in Fds \ InUse : fd <= other
    /\ open' = [open EXCEPT ![fd] = f]
    /\ pos' = [pos EXCEPT ![fd] = 0]
    /\ mounted' = TRUE

\* _open() returns -1: f_mount() failed (twice when the card was not ready),
\* or the volume is mounted and f_open() failed or no descriptor is free
OpenFails ==
    /\ \/ ~mounted /\ UNCHANGED mounted
       \/ mounted' = TRUE
    /\ UNCHANGED <<open, pos>>

\* _close(); the last one unmounts
Closes(fd) ==
    /\ open' = [open EXCEPT ![fd] = NoFile]
    /\ pos' = [pos EXCEPT ![fd] = 0]
    /\ mounted' = (InUse # {fd})

\* _read() of n units; it needs the volume the file was opened on
Reads(fd, n) ==
    /\ fd \in InUse /\ mounted
    /\ pos' = [pos EXCEPT ![fd] = @ + n]
    /\ UNCHANGED <<open, mounted>>

\* get_file_size(): fopen(), fseek() to the end, ftell(), fclose()
SizeKnown_Leaks(f) == \E fd \in Fds : Opens(f, fd)

SizeKnown(f) ==
    /\ InUse # Fds
    /\ mounted' = (InUse # {})
    /\ UNCHANGED <<open, pos>>

\* get_file_size() returns -1; when it is fseek() that fails, the file stays open
SizeUnknown(f) ==
    /\ Faulty
    /\ \/ OpenFails
       \/ \E fd \in Fds : Opens(f, fd)
=============================================================================
