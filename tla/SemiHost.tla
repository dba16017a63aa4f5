------------------------------ MODULE SemiHost ------------------------------
(***************************************************************************)
(* The file calls of lib/syscalls/sys_semihost.c: descriptors of the       *)
(* program, each of which stands for a handle of a file on the host that   *)
(* runs the debugger.  Calls with a descriptor that is not open change     *)
(* nothing and are left out.  What the host does is external.              *)
(***************************************************************************)
EXTENDS Integers, FiniteSets

CONSTANTS FopenMax,     \* FOPEN_MAX; descriptors 0 to 2 are not in the table
          Handles,      \* the handles that the host gives to opened files
          Files,
          MaxLength,    \* room for a file on the host
          Flags,        \* what _open() is called with, as sets of O_ flags
          Whences       \* what _lseek() is called with

Fds == 3 .. FopenMax - 1

VARIABLES
    open_fd,    \* the descriptors whose bit is set
    fp,         \* per descriptor: handle and pos
    host,       \* per handle: file, mode and position, or Closed
    length,     \* per file: its length on the host, -1 if there is none
    want,       \* history, per descriptor: the file and the position that follow
                \* from the calls and what they have returned, as far as known
    used        \* history: the descriptors with which data have been transferred
                \* since they were opened or last sought

vars == <<open_fd, fp, host, length, want, used>>

Closed == [file |-> "none", mode |-> "none", pos |-> 0]

\* No claim is made about a descriptor whose handle has been closed as the number of
\* another one (see Close), nor about one that is given that handle next.  Nor is
\* one made about the position after a seek that went wrong (see Asked).
Unknown == -1
Cut == [file |-> "cut", mode |-> "none", pos |-> Unknown]
Appends(mode) == mode \in {"A", "APLUS"}

Init ==
    /\ open_fd = {}
    /\ fp = [fd \in Fds |-> [handle |-> 0, pos |-> 0]]
    /\ host = [h \in Handles |-> Closed]
    /\ length \in [Files -> {-1, 1}]
    /\ want = [fd \in Fds |-> Closed]
    /\ used = {}
-----------------------------------------------------------------------------
(* _open() *)

\* The first descriptor that is not in use; without one the call fails.
FreeFd(fd) == fd \in Fds \ open_fd /\ \A e \in Fds : e < fd => e \in open_fd

Mode(flags) ==
    IF {"O_WRONLY", "O_RDWR"} \cap flags = {} THEN "R"
    ELSE IF {"O_WRONLY", "O_CREAT", "O_TRUNC"} \subseteq flags THEN "W"
    ELSE IF {"O_WRONLY", "O_CREAT", "O_APPEND"} \subseteq flags THEN "A"
    ELSE IF {"O_RDWR", "O_CREAT", "O_TRUNC"} \subseteq flags THEN "WPLUS"
    ELSE IF {"O_RDWR", "O_CREAT", "O_APPEND"} \subseteq flags THEN "APLUS"
    ELSE IF "O_RDWR" \in flags THEN "RPLUS"
    ELSE "EINVAL"

\* SEMIHOSTING_SYS_OPEN, like fopen(): the host gives a handle that is free, or
\* refuses, which changes nothing.
HostOpen(h, file, mode) ==
    /\ host[h] = Closed
    /\ mode \in {"R", "RPLUS"} => length[file] >= 0
    /\ host' = [host EXCEPT ![h] = [file |-> file, mode |-> mode, pos |-> 0]]
    /\ length' = [length EXCEPT ![file] =
                     IF mode \in {"W", "WPLUS"} \/ @ = -1 THEN 0 ELSE @]

\* The descriptors that stand for the handle h.
Owners(h) == {fd \in open_fd : fp[fd].handle = h}

\* Mutant: the position of the file that the descriptor was open for before is kept.
Open_KeepsPos(file, flags) == \E fd \in Fds, h \in Handles :
    /\ FreeFd(fd)
    /\ Mode(flags) # "EINVAL"
    /\ HostOpen(h, file, Mode(flags))
    /\ open_fd' = open_fd \cup {fd}
    /\ fp' = [fp EXCEPT ![fd].handle = h]
    /\ want' = [want EXCEPT ![fd] = IF Owners(h) # {} THEN Cut
                                   ELSE [file |-> file, mode |-> Mode(flags), pos |-> 0]]
    /\ used' = used \ {fd}

Open(file, flags) == \E fd \in Fds, h \in Handles :
    /\ FreeFd(fd)
    /\ Mode(flags) # "EINVAL"
    /\ HostOpen(h, file, Mode(flags))
    /\ open_fd' = open_fd \cup {fd}
    /\ fp' = [fp EXCEPT ![fd] = [handle |-> h, pos |-> 0]]
    /\ want' = [want EXCEPT ![fd] = IF Owners(h) # {} THEN Cut
                                   ELSE [file |-> file, mode |-> Mode(flags), pos |-> 0]]
    /\ used' = used \ {fd}
-----------------------------------------------------------------------------
(* _close(): the host is told the descriptor, not its handle *)

Close(fd) ==
    /\ fd \in open_fd
    /\ host' = [h \in Handles |-> IF h = fd THEN Closed ELSE host[h]]
    /\ open_fd' = open_fd \ {fd}
    /\ want' = [e \in Fds |-> IF e = fd THEN Closed
                             ELSE IF e \in Owners(fd) THEN Cut ELSE want[e]]
    /\ UNCHANGED <<fp, length, used>>
-----------------------------------------------------------------------------
(* _read() and _write(): the host reports how much it has not transferred *)

Returned(len, ret) == len - ret

\* The program counts the position along with what is returned to it.
Counted(fd, start, count) ==
    /\ want' = [want EXCEPT ![fd].pos = IF count = 0 \/ @ = Unknown THEN @ ELSE start + count]
    /\ used' = IF count = 0 THEN used ELSE used \cup {fd}

\* SEMIHOSTING_SYS_READ of a handle that may be read: up to the end of the file.
Readable(h) ==
    IF host[h].mode \in {"R", "RPLUS", "WPLUS", "APLUS"} /\ host[h].pos < length[host[h].file]
    THEN length[host[h].file] - host[h].pos ELSE 0

Read(fd, len) ==
    LET h == fp[fd].handle
        n == IF len < Readable(h) THEN len ELSE Readable(h) IN
    /\ fd \in open_fd
    /\ host' = [host EXCEPT ![h].pos = @ + n]
    /\ Counted(fd, want[fd].pos, Returned(len, len - n))
    /\ UNCHANGED <<open_fd, fp, length>>

\* SEMIHOSTING_SYS_WRITE: all, or as much as the host has room for.
Write(fd, len) ==
    LET h == fp[fd].handle
        file == host[h].file
        start == IF Appends(host[h].mode) THEN length[file] ELSE host[h].pos IN
    \E n \in 0 .. len :
       /\ fd \in open_fd
       /\ n > 0 => host[h].mode \notin {"R", "none"} /\ start + n <= MaxLength
       /\ IF n = 0 THEN UNCHANGED <<host, length>>
          ELSE /\ host' = [host EXCEPT ![h].pos = start + n]
               /\ length' = [length EXCEPT ![file] = IF @ < start + n THEN start + n ELSE @]
       /\ Counted(fd, IF Appends(want[fd].mode) THEN length[want[fd].file] ELSE want[fd].pos,
                  Returned(len, len - n))
       /\ UNCHANGED <<open_fd, fp>>
-----------------------------------------------------------------------------
(* _lseek() *)

\* fp[fd].pos is what the last _lseek() returned: it does not move with _read()
\* and _write().
Target(fd, offset, whence) ==
    CASE whence = "SEEK_SET" -> offset
      [] whence = "SEEK_CUR" -> fp[fd].pos + offset
      [] whence = "SEEK_END" -> length[host[fp[fd].handle].file] + offset

\* Where the program asks to go: a seek relative to where _read() or _write() has got
\* to goes elsewhere.
Asked(fd, offset, whence) ==
    IF want[fd].file = "cut" THEN Unknown
    ELSE CASE whence = "SEEK_SET" -> offset
           [] whence = "SEEK_CUR" -> IF fd \in used \/ want[fd].pos = Unknown THEN Unknown
                                     ELSE want[fd].pos + offset
           [] whence = "SEEK_END" -> length[want[fd].file] + offset

\* SEMIHOSTING_SYS_SEEK within the file; elsewhere the host refuses.
Lseek(fd, offset, whence) ==
    LET h == fp[fd].handle IN
    /\ fd \in open_fd
    /\ host[h] # Closed
    /\ Target(fd, offset, whence) \in 0 .. length[host[h].file]
    /\ host' = [host EXCEPT ![h].pos = Target(fd, offset, whence)]
    /\ fp' = [fp EXCEPT ![fd].pos = Target(fd, offset, whence)]
    /\ want' = [want EXCEPT ![fd].pos = Asked(fd, offset, whence)]
    /\ used' = used \ {fd}
    /\ UNCHANGED <<open_fd, length>>

Next ==
    \/ \E file \in Files, flags \in Flags : Open(file, flags)
    \/ \E fd \in Fds :
          \/ Close(fd)
          \/ \E len \in 1 .. MaxLength : Read(fd, len) \/ Write(fd, len)
          \/ \E offset \in -MaxLength .. MaxLength, whence \in Whences :
                Lseek(fd, offset, whence)

Spec == Init /\ [][Next]_vars
-----------------------------------------------------------------------------
\* The descriptors in use have handles, and the files fit the host.
TypeOK ==
    /\ open_fd \subseteq Fds
    /\ \A fd \in open_fd : fp[fd].handle \in Handles
    /\ \A h \in Handles : host[h].file \in Files \cup {"none"} /\ host[h].pos \in 0 .. MaxLength
    /\ length \in [Files -> -1 .. MaxLength]
    /\ used \subseteq Fds
    /\ \A fd \in Fds : want[fd].file \in Files \cup {"none", "cut"}
                      /\ want[fd].pos \in Unknown .. MaxLength

\* Every open descriptor reaches the file it was opened for, at the position that
\* the calls have left it at according to what they returned.  A _close() that hits
\* the file of another descriptor damages only those that stand for its handle, and
\* a wrong seek only its own position, until the next SEEK_SET or SEEK_END.
DescriptorsAreExact ==
    \A fd \in open_fd :
       LET f == host[fp[fd].handle] IN
       want[fd].file # "cut" =>
          f.file = want[fd].file /\ want[fd].pos \in {f.pos, Unknown}
=============================================================================
