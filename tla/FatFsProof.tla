----------------------------- MODULE FatFsProof -----------------------------
(***************************************************************************)
(* The card stays a sound volume under the calls of FatFs, for volumes of  *)
(* any size, wherever the card or the power fails.                         *)
(*                                                                         *)
(* The sectors change one at a time, and the last change may still be in   *)
(* the window.  So the invariant speaks of two cards: the card as it is,   *)
(* which the power may leave, and as it is seen through the window (Seen), *)
(* which the next write makes of it.  Both are Sound: what is linked to is *)
(* not free, nothing is linked to twice, the first cluster of an entry is  *)
(* linked to by nobody, and the table of entries has no gap and no name    *)
(* twice.  That is local, about one link or two entries, so a write needs  *)
(* an argument about the links and entries it changes only; that no two    *)
(* chains ever meet follows from it.                                       *)
(*                                                                         *)
(* Each function of ff.c gets a lemma about the state before and after it: *)
(* it keeps the tables (Keeps), frees a chain that belongs to nobody       *)
(* (Frees), extends one (Extends), sets an entry (Sets), or changes the    *)
(* file's buffer at most (Buffers).  Loops are folds of their rounds,      *)
(* about which Induction is stated once.                                   *)
(*                                                                         *)
(* The directory has room for all the names (Room), so that a free entry   *)
(* is always found and it is never stretched: dir_next() links a cluster   *)
(* to the directory before it clears it, and the power that goes off in    *)
(* between leaves a directory of data (StretchAndFailure in MCFatFs).      *)
(***************************************************************************)
EXTENDS FatFs, FiniteSetTheorems, WellFoundedInduction, TLAPS

\* A directory of k clusters, which are 2 .. k + 1, and the sectors of its volume
\* that hold the FAT or the directory.
Directory(k) == Root .. k + 1
Places(k) == Directory(k) \X (1 .. PerDir)
Tables(k) == {Fat(c) : c \in Clusters} \cup {Clu(c) : c \in Directory(k)}
Sectors == {Fat(c) : c \in Clusters} \cup {Clu(c) : c \in Clusters} \cup {Info}

\* What the FAT and the directory of a card D hold.
Link(D, c) == D[Fat(c)][c]
EntryAt(D, p) == D[Clu(p[1])][p[2]]
Before(p, q) == p[1] < q[1] \/ (p[1] = q[1] /\ p[2] < q[2])

\* The entry at p is the one of a file with data.
Owns(D, p) == EntryAt(D, p).name \in Names /\ EntryAt(D, p).clu # 0

\* Nothing refers to cluster c, except perhaps the entry at p.
Loose(k, D, c, p) ==
    /\ c \in Clusters \ {Root}
    /\ \A d \in Clusters : Link(D, d) # c
    /\ \A q \in Places(k) : Owns(D, q) /\ EntryAt(D, q).clu = c => q = p

\* No entry.
NoPlace == <<0, 0>>

\* The card has its sectors, and its tables the values that the code writes.
Shaped(k, D) ==
    /\ DOMAIN D = Sectors
    /\ \A c \in Clusters : c \in DOMAIN D[Fat(c)] /\ Link(D, c) \in {0, EOC} \cup Clusters
    /\ \A c \in Directory(k) : D[Clu(c)] = [i \in 1 .. PerDir |-> D[Clu(c)][i]]

\* The chain of the directory is the one it was formatted with.
Rooted(k, D) ==
    /\ \A c \in Root .. k : Link(D, c) = c + 1
    /\ Link(D, k + 1) = EOC

\* A cluster that another one is linked to is not free, and not linked to twice.
Linked(D) ==
    \A c \in Clusters : Link(D, c) \in Clusters =>
       /\ Link(D, c) # Root /\ Link(D, Link(D, c)) # 0
       /\ \A d \in Clusters : Link(D, d) = Link(D, c) => d = c

\* The cluster of an entry is not free, and belongs to no other file.
Owned(k, D) ==
    \A p \in Places(k) : Owns(D, p) =>
       Loose(k, D, EntryAt(D, p).clu, p) /\ Link(D, EntryAt(D, p).clu) # 0

\* The table of entries: no name is in it twice, and behind a free entry there
\* are only free ones.
Entered(k, D) ==
    \A p \in Places(k) :
       /\ DOMAIN EntryAt(D, p) = {"name", "clu", "size"}
       /\ EntryAt(D, p).name \in Names \cup {Free, Deleted}
       /\ EntryAt(D, p).size \in Nat
       /\ EntryAt(D, p).name \in Names /\ EntryAt(D, p).size # 0 => EntryAt(D, p).clu # 0
       /\ \A q \in Places(k) :
             /\ EntryAt(D, p).name \in Names /\ EntryAt(D, q).name = EntryAt(D, p).name => p = q
             /\ EntryAt(D, p).name = Free /\ Before(p, q) => EntryAt(D, q).name = Free

\* What the card keeps whenever it may lose its power.
Sound(k, D) ==
    Shaped(k, D) /\ Rooted(k, D) /\ Linked(D) /\ Owned(k, D) /\ Entered(k, D)

\* The card with the changes that are still in the window.
Seen(v) == IF v.wflag THEN [v.disk EXCEPT ![v.at] = v.win] ELSE v.disk

\* The fields of the file system record, and of an open file.
Fields == {"disk", "fuel", "res", "val", "pos", "type", "win", "at", "wflag", "free",
           "last", "fsi", "nofsi", "f"}
FileFields == {"open", "name", "read", "sclust", "size", "modified", "dirty", "err",
               "sect", "buf", "fptr", "clust", "dir"}

IsFs(v) == DOMAIN v = Fields /\ v.fuel \in Int /\ v.wflag \in BOOLEAN

\* The window holds the sector it is said to; only a sector of the tables is dirty.
InWindow(k, v) ==
    /\ v.at \in Tables(k) \cup {Info, Nowhere}
    /\ v.wflag => v.at \in Tables(k)
    /\ v.at \in Tables(k) => v.win = Seen(v)[v.at]

\* The card is sound, and stays so when the window is written back.
Stands(k, v) == IsFs(v) /\ InWindow(k, v) /\ Sound(k, v.disk) /\ Sound(k, Seen(v))

\* The open file f: its entry is in the directory, its first cluster belongs to
\* nobody else, and its buffer is not written over the tables.
FileIn(k, D, f) ==
    /\ DOMAIN f = FileFields
    /\ f.open = TRUE /\ f.dirty \in BOOLEAN
    /\ f.dir \in Places(k) /\ EntryAt(D, f.dir).name \in Names
    /\ f.size \in Nat /\ f.fptr \in Nat
    /\ f.size # 0 \/ f.fptr # 0 => f.sclust # 0
    /\ f.sclust # 0 => Loose(k, D, f.sclust, f.dir) /\ Link(D, f.sclust) # 0
    /\ f.clust \notin Directory(k)
    /\ f.sect \notin Tables(k) \cup {Info}

\* There is no open file, or it is in order.
FileStands(k, v) == v.f = Closed \/ FileIn(k, Seen(v), v.f)

\* The inductive invariant, as far as it speaks of a single state of fs.
VolumeInv(k) == Stands(k, fs) /\ FileStands(k, fs)
-----------------------------------------------------------------------------
(* Induction over the rounds of a loop *)

\* The order of the numbers.
Below == {p \in Nat \X Nat : p[1] < p[2]}

\* A set of numbers that is not empty has a least one.
LEMMA LeastOf ==
  ASSUME NEW T, T \subseteq Nat, T # {}
  PROVE  \E x \in T : \A y \in T : x <= y
<1>1. IsWellFoundedOn(Below, Nat)
  BY NatLessThanWellFounded DEF OpToRel, Below
<1>2. PICK x \in T : \A y \in T : ~ (<<y, x>> \in Below)
  BY <1>1, WFMin, Zenon
<1>3. ASSUME NEW y \in T, ~ (x <= y)
      PROVE  FALSE
  <2>1. <<y, x>> \in Nat \X Nat /\ <<y, x>>[1] < <<y, x>>[2]
    BY <1>3
  <2> QED
    BY <1>2, <1>3, <2>1, Zenon DEF Below
<1> QED
  BY <1>3

\* What holds at first and after every round of a loop holds after all of them.
LEMMA Induction ==
  ASSUME NEW n \in Nat, NEW S, 0 \in S, \A j \in 1 .. n : j - 1 \in S => j \in S
  PROVE  \A j \in 0 .. n : j \in S
<1> DEFINE T == {j \in 0 .. n : j \notin S}
<1> SUFFICES ASSUME T # {}
             PROVE  FALSE
  OBVIOUS
<1>1. T \subseteq Nat
  OBVIOUS
<1> HIDE DEF T
<1>2. PICK m \in T : \A j \in T : m <= j
  BY <1>1, LeastOf
<1>3. m \in 1 .. n /\ m - 1 \in T
  BY <1>2 DEF T
<1> QED
  BY <1>1, <1>2, <1>3
-----------------------------------------------------------------------------
(* Sectors and places *)

\* The sectors of the FAT, of the directory and of the data, and FSInfo, differ.
LEMMA SectorFacts ==
  ASSUME NEW k \in 1 .. NFat - 2
  PROVE  /\ Directory(k) \subseteq Clusters /\ Root \in Directory(k)
         /\ Tables(k) \subseteq Sectors
         /\ Info \notin Tables(k) /\ Nowhere \notin Tables(k)
         /\ \A c \in Clusters : Fat(c) \in Tables(k)
         /\ \A c \in Directory(k) : Clu(c) \in Tables(k)
         /\ \A c, d : Fat(c) # Clu(d)
         /\ \A c, d : Clu(c) = Clu(d) => c = d
         /\ \A c : Fat(c) # Info /\ Clu(c) # Info
         /\ \A c : Clu(c) \in Tables(k) => c \in Directory(k)
         /\ EOC \notin Clusters /\ EOC # 0 /\ 0 \notin Clusters /\ 1 \notin Clusters /\ Bad \notin Clusters
         /\ Clusters \subseteq Nat
  BY ParamAssumption DEF Directory, Clusters, Root, Tables, Sectors, Info, Nowhere, Fat, Clu, EOC, Bad

\* D and E hold the same FAT and the same directory.
SameTables(k, D, E) == \A s \in Tables(k) : E[s] = D[s]

\* Cards with the same tables hold the same links and entries,
LEMMA SameHolds ==
  ASSUME NEW k \in 1 .. NFat - 2, NEW D, NEW E, SameTables(k, D, E)
  PROVE  /\ \A c \in Clusters : E[Fat(c)] = D[Fat(c)] /\ Link(E, c) = Link(D, c)
         /\ \A c \in Directory(k) : E[Clu(c)] = D[Clu(c)]
         /\ \A p \in Places(k) : EntryAt(E, p) = EntryAt(D, p)
  BY SectorFacts DEF SameTables, Link, EntryAt, Places

\* ... are both sound,
LEMMA SameSound ==
  ASSUME NEW k \in 1 .. NFat - 2, NEW D, NEW E, SameTables(k, D, E),
         DOMAIN E = Sectors, Sound(k, D)
  PROVE  Sound(k, E)
<1> USE SameHolds, SectorFacts DEF Sound
<1>1. Shaped(k, E)
  BY DEF Shaped
<1>2. Rooted(k, E)
  BY DEF Rooted, Directory, Clusters, Root
<1>3. Linked(E)
  BY DEF Linked
<1>4. \A c \in Clusters, p \in Places(k) : Loose(k, D, c, p) => Loose(k, E, c, p)
  BY DEF Loose, Owns
<1>5. Owned(k, E)
  <2> SUFFICES ASSUME NEW p \in Places(k), Owns(E, p)
               PROVE  Loose(k, E, EntryAt(E, p).clu, p) /\ Link(E, EntryAt(E, p).clu) # 0
    BY DEF Owned
  <2>1. Owns(D, p) /\ EntryAt(E, p).clu = EntryAt(D, p).clu
    BY DEF Owns
  <2>2. Loose(k, D, EntryAt(D, p).clu, p) /\ Link(D, EntryAt(D, p).clu) # 0
    BY <2>1 DEF Owned
  <2>3. EntryAt(D, p).clu \in Clusters
    BY <2>2 DEF Loose
  <2> QED
    BY <1>4, <2>1, <2>2, <2>3
<1>6. Entered(k, E)
  BY DEF Entered
<1> QED
  BY <1>1, <1>2, <1>3, <1>5, <1>6 DEF Sound

\* ... and the open file stands on both.
LEMMA SameFile ==
  ASSUME NEW k \in 1 .. NFat - 2, NEW D, NEW E, SameTables(k, D, E), NEW f,
         FileIn(k, D, f)
  PROVE  FileIn(k, E, f)
<1>1. \A c \in Clusters, p \in Places(k) : Loose(k, D, c, p) => Loose(k, E, c, p)
  BY SameHolds, SectorFacts DEF Loose, Owns
<1>2. f.sclust # 0 => Loose(k, E, f.sclust, f.dir) /\ Link(E, f.sclust) # 0
  <2> HAVE f.sclust # 0
  <2>1. Loose(k, D, f.sclust, f.dir) /\ Link(D, f.sclust) # 0 /\ f.dir \in Places(k)
    BY DEF FileIn
  <2>2. f.sclust \in Clusters
    BY <2>1 DEF Loose
  <2> QED
    BY <1>1, <2>1, <2>2, SameHolds
<1>3. EntryAt(E, f.dir) = EntryAt(D, f.dir)
  BY SameHolds DEF FileIn
<1> QED
  BY <1>2, <1>3 DEF FileIn
-----------------------------------------------------------------------------
(* The card and the window *)

\* Nothing of what v stands for is lost in w.
Keeps(k, v, w) ==
    /\ Stands(k, w) /\ SameTables(k, Seen(v), Seen(w))
    /\ w.f = v.f /\ w.pos = v.pos

\* A step that does nothing keeps the card,
LEMMA KeepsItself ==
  ASSUME NEW k, NEW v, Stands(k, v)
  PROVE  Keeps(k, v, v)
  BY DEF Keeps, SameTables

\* ... and so do two steps that do, one after the other;
LEMMA KeepsOn ==
  ASSUME NEW k, NEW v, NEW w, NEW x, Keeps(k, v, w), Keeps(k, w, x)
  PROVE  Keeps(k, v, x)
  BY DEF Keeps, SameTables

\* ... the open file stands after them.
LEMMA KeepsFile ==
  ASSUME NEW k \in 1 .. NFat - 2, NEW v, NEW w, Keeps(k, v, w), FileStands(k, v)
  PROVE  FileStands(k, w)
  BY SameFile DEF Keeps, FileStands

\* Any change of a record but of the card and the window.
LEMMA KeepsRest ==
  ASSUME NEW k \in 1 .. NFat - 2, NEW v, NEW w, Stands(k, v), IsFs(w),
         w.disk = v.disk, w.win = v.win, w.at = v.at, w.wflag = v.wflag
  PROVE  Stands(k, w) /\ SameTables(k, Seen(v), Seen(w)) /\ Seen(w) = Seen(v)
  BY DEF Stands, InWindow, Seen, SameTables

\* An access uses up fuel, and may fail.
LEMMA OfAccess ==
  ASSUME NEW v, IsFs(v)
  PROVE  /\ IsFs(Access(v))
         /\ Access(v).disk = v.disk /\ Access(v).win = v.win /\ Access(v).at = v.at
         /\ Access(v).wflag = v.wflag /\ Access(v).f = v.f /\ Access(v).pos = v.pos
         /\ Access(v).val = v.val /\ Access(v).res \in {v.res, "disk"}
  BY DEF Access, Fail, IsFs, Fields

\* sync_window() writes the window back, or fails and leaves the card alone.
LEMMA OfSyncWindow ==
  ASSUME NEW v, IsFs(v)
  PROVE  LET w == SyncWindow(v)
         IN /\ IsFs(w) /\ w.win = v.win /\ w.at = v.at
            /\ w.f = v.f /\ w.pos = v.pos /\ w.val = v.val /\ w.res \in {v.res, "disk"}
            /\ Ok(w) => ~ w.wflag
            /\ \/ w.disk = v.disk /\ w.wflag = v.wflag
               \/ w.disk = Seen(v) /\ ~ w.wflag
<1> DEFINE a == Access(v)
           d == [a EXCEPT !.disk[v.at] = v.win]
<1>1. CASE ~ v.wflag
  BY <1>1 DEF SyncWindow
<1>2. CASE v.wflag
  <2>1. /\ IsFs(a) /\ a.disk = v.disk /\ a.win = v.win /\ a.at = v.at /\ a.wflag = v.wflag
        /\ a.f = v.f /\ a.pos = v.pos /\ a.val = v.val /\ a.res \in {v.res, "disk"}
    BY OfAccess
  <2>2. /\ d.disk = Seen(v) /\ d.res = a.res /\ d.wflag = v.wflag
        /\ d.win = v.win /\ d.at = v.at /\ d.f = v.f /\ d.pos = v.pos /\ d.val = v.val
        /\ IsFs(d)
    BY <2>1, <1>2 DEF IsFs, Fields, Seen
  <2>3. CASE Ok(a)
    <3>1. SyncWindow(v) = [d EXCEPT !.wflag = FALSE]
      BY <1>2, <2>2, <2>3 DEF SyncWindow, DiskWrite, Then, Ok
    <3> HIDE DEF a, d
    <3> QED
      BY <2>1, <2>2, <3>1 DEF IsFs, Fields
  <2>4. CASE ~ Ok(a)
    <3>1. SyncWindow(v) = a
      BY <1>2, <2>4 DEF SyncWindow, DiskWrite, Then
    <3> QED
      BY <2>1, <2>4, <3>1
  <2> QED
    BY <2>3, <2>4
<1> QED
  BY <1>1, <1>2

\* sync_window() keeps the card as it is seen through the window.
LEMMA SyncWindowKeeps ==
  ASSUME NEW k \in 1 .. NFat - 2, NEW v, Stands(k, v)
  PROVE  /\ Keeps(k, v, SyncWindow(v)) /\ SyncWindow(v).val = v.val
         /\ SyncWindow(v).res \in {v.res, "disk"}
         /\ Ok(SyncWindow(v)) => ~ SyncWindow(v).wflag
<1> DEFINE w == SyncWindow(v)
<1>1. /\ IsFs(w) /\ w.win = v.win /\ w.at = v.at /\ w.f = v.f /\ w.pos = v.pos /\ w.val = v.val
      /\ w.res \in {v.res, "disk"}
      /\ Ok(w) => ~ w.wflag
      /\ \/ w.disk = v.disk /\ w.wflag = v.wflag
         \/ w.disk = Seen(v) /\ ~ w.wflag
  BY OfSyncWindow DEF Stands
<1> HIDE DEF w
<1>2. Seen(w) = Seen(v)
  BY <1>1 DEF Seen
<1>3. Stands(k, w)
  BY <1>1, <1>2 DEF Stands, InWindow
<1> QED
  BY <1>1, <1>2, <1>3 DEF Keeps, SameTables, w

\* So does loading a sector into a window that is not dirty,
LEMMA LoadWindowKeeps ==
  ASSUME NEW k \in 1 .. NFat - 2, NEW v, Stands(k, v), ~ v.wflag, NEW s \in Tables(k) \cup {Info}
  PROVE  /\ Keeps(k, v, LoadWindow(v, s)) /\ LoadWindow(v, s).val = v.val
         /\ LoadWindow(v, s).res \in {v.res, "disk"}
         /\ Ok(LoadWindow(v, s)) => LoadWindow(v, s).at = s
         /\ ~ LoadWindow(v, s).wflag
<1> DEFINE a == Access(v)
           w == IF Ok(a) THEN [a EXCEPT !.win = a.disk[s], !.at = s] ELSE [a EXCEPT !.at = Nowhere]
<1>1. LoadWindow(v, s) = w
  BY DEF LoadWindow, Either
<1>2. /\ IsFs(a) /\ a.disk = v.disk /\ a.wflag = v.wflag
      /\ a.f = v.f /\ a.pos = v.pos /\ a.val = v.val /\ a.res \in {v.res, "disk"}
  BY OfAccess DEF Stands
<1> HIDE DEF a
<1>3. /\ IsFs(w) /\ w.disk = v.disk /\ ~ w.wflag /\ w.f = v.f /\ w.pos = v.pos /\ w.val = v.val
      /\ w.res \in {v.res, "disk"}
      /\ \/ w.at = s /\ w.win = v.disk[s]
         \/ w.at = Nowhere /\ ~ Ok(w)
  BY <1>2 DEF IsFs, Fields, Ok
<1> HIDE DEF w
<1>4. Seen(w) = v.disk /\ Seen(v) = v.disk
  BY <1>3 DEF Seen
<1>5. Ok(w) => w.at = s
  BY <1>3
<1>6. InWindow(k, w)
  BY <1>3, <1>4, SectorFacts DEF InWindow
<1>7. Stands(k, w)
  BY <1>3, <1>4, <1>6 DEF Stands
<1> QED
  BY <1>1, <1>3, <1>4, <1>5, <1>7 DEF Keeps, SameTables

\* ... and move_window(), which leaves the sector asked for in the window.
LEMMA MoveWindowKeeps ==
  ASSUME NEW k \in 1 .. NFat - 2, NEW v, Stands(k, v), NEW s \in Tables(k) \cup {Info}
  PROVE  /\ Keeps(k, v, MoveWindow(v, s)) /\ MoveWindow(v, s).val = v.val
         /\ MoveWindow(v, s).res \in {v.res, "disk"}
         /\ Ok(MoveWindow(v, s)) => MoveWindow(v, s).at = s
<1> DEFINE w == SyncWindow(v)
<1>1. CASE s = v.at
  BY <1>1, KeepsItself DEF MoveWindow
<1>2. CASE s # v.at /\ ~ Ok(w)
  <2>1. MoveWindow(v, s) = w
    BY <1>2 DEF MoveWindow, Then
  <2> QED
    BY <1>2, <2>1, SyncWindowKeeps
<1>3. CASE s # v.at /\ Ok(w)
  <2>1. MoveWindow(v, s) = LoadWindow(w, s)
    BY <1>3 DEF MoveWindow, Then
  <2>2. Keeps(k, v, w) /\ w.val = v.val /\ ~ w.wflag /\ w.res \in {v.res, "disk"}
    BY <1>3, SyncWindowKeeps
  <2> HIDE DEF w
  <2>3. /\ Keeps(k, w, LoadWindow(w, s)) /\ LoadWindow(w, s).val = w.val
        /\ LoadWindow(w, s).res \in {w.res, "disk"}
        /\ (Ok(LoadWindow(w, s)) => LoadWindow(w, s).at = s)
    BY <2>2, LoadWindowKeeps DEF Keeps
  <2> QED
    BY <2>1, <2>2, <2>3, KeepsOn
<1> QED
  BY <1>1, <1>2, <1>3

\* What is in the window after a successful move.
LEMMA WindowHolds ==
  ASSUME NEW k \in 1 .. NFat - 2, NEW v, NEW w, Keeps(k, v, w), w.at \in Tables(k)
  PROVE  w.win = Seen(v)[w.at] /\ w.win = Seen(w)[w.at]
  BY DEF Keeps, Stands, InWindow, SameTables

\* A write past the tables.
LEMMA DiskWriteKeeps ==
  ASSUME NEW k \in 1 .. NFat - 2, NEW v, Stands(k, v), NEW s, s \notin Tables(k), NEW data
  PROVE  Keeps(k, v, DiskWrite(v, s, data)) /\ DiskWrite(v, s, data).val = v.val
<1> DEFINE a == Access(v)
           w == [a EXCEPT !.disk[s] = data]
<1>1. CASE ~ Ok(a)
  <2>1. DiskWrite(v, s, data) = a
    BY <1>1 DEF DiskWrite, Then
  <2> QED
    BY <2>1, OfAccess, KeepsRest DEF Keeps, Stands
<1>2. CASE Ok(a)
  <2>1. DiskWrite(v, s, data) = w
    BY <1>2 DEF DiskWrite, Then
  <2>2. /\ IsFs(a) /\ a.disk = v.disk /\ a.win = v.win /\ a.at = v.at /\ a.wflag = v.wflag
        /\ a.f = v.f /\ a.pos = v.pos /\ a.val = v.val
    BY OfAccess DEF Stands
  <2> HIDE DEF a
  <2>3. /\ IsFs(w) /\ w.disk = [v.disk EXCEPT ![s] = data] /\ w.win = v.win /\ w.at = v.at
        /\ w.wflag = v.wflag /\ w.f = v.f /\ w.pos = v.pos /\ w.val = v.val
    BY <2>2 DEF IsFs, Fields
  <2> HIDE DEF w
  <2>4. DOMAIN v.disk = Sectors /\ DOMAIN Seen(v) = Sectors
    BY DEF Stands, Sound, Shaped
  <2>5. DOMAIN w.disk = Sectors /\ DOMAIN Seen(w) = Sectors
    BY <2>3, <2>4 DEF Seen
  <2>6. SameTables(k, v.disk, w.disk)
    BY <2>3, <2>4, SectorFacts DEF SameTables
  <2>7. SameTables(k, Seen(v), Seen(w))
    BY <2>3, <2>4, <2>6, SectorFacts DEF SameTables, Seen
  <2>8. Sound(k, w.disk) /\ Sound(k, Seen(w))
    BY <2>5, <2>6, <2>7, SameSound DEF Stands
  <2>9. InWindow(k, w)
    BY <2>3, <2>7 DEF Stands, InWindow, SameTables
  <2> QED
    BY <2>1, <2>3, <2>7, <2>8, <2>9 DEF Keeps, Stands
<1> QED
  BY <1>1, <1>2

\* The FSInfo sector is none of the tables,
LEMMA WriteInfoKeeps ==
  ASSUME NEW k \in 1 .. NFat - 2, NEW v, Stands(k, v), ~ v.wflag
  PROVE  Keeps(k, v, WriteInfo(v))
<1> DEFINE info == [free |-> v.free, last |-> v.last]
           d == DiskWrite(v, Info, info)
           w == [d EXCEPT !.res = "ok", !.win = info, !.at = Info, !.fsi = FALSE]
<1>1. WriteInfo(v) = w
  BY DEF WriteInfo
<1>2. Keeps(k, v, d)
  BY SectorFacts, DiskWriteKeeps
<1>3. ~ d.wflag
  BY OfAccess DEF DiskWrite, Then, Stands, IsFs, Fields
<1> HIDE DEF d, info
<1>4. /\ IsFs(w) /\ w.disk = d.disk /\ w.at = Info /\ ~ w.wflag /\ w.f = d.f /\ w.pos = d.pos
  BY <1>2, <1>3 DEF Keeps, Stands, IsFs, Fields
<1> HIDE DEF w
<1>5. Seen(w) = Seen(d)
  BY <1>3, <1>4 DEF Seen
<1>6. InWindow(k, w)
  BY <1>4, SectorFacts DEF InWindow
<1> QED
  BY <1>1, <1>2, <1>4, <1>5, <1>6 DEF Keeps, Stands

\* ... so sync_fs() keeps the card too.
LEMMA SyncFsKeeps ==
  ASSUME NEW k \in 1 .. NFat - 2, NEW v, Stands(k, v)
  PROVE  Keeps(k, v, SyncFs(v))
<1> DEFINE w == SyncWindow(v)
           i == IF w.fsi /\ ~ w.nofsi THEN WriteInfo(w) ELSE w
<1>1. Keeps(k, v, w) /\ (Ok(w) => ~ w.wflag)
  BY SyncWindowKeeps
<1>2. CASE ~ Ok(w)
  <2>1. SyncFs(v) = w
    BY <1>2 DEF SyncFs, Then
  <2> QED
    BY <1>1, <2>1
<1>3. CASE Ok(w)
  <2>1. SyncFs(v) = Access(i)
    BY <1>3 DEF SyncFs, Then
  <2> HIDE DEF w
  <2>2. Keeps(k, w, i)
    BY <1>1, <1>3, WriteInfoKeeps, KeepsItself DEF Keeps
  <2>3. Keeps(k, v, i)
    BY <1>1, <2>2, KeepsOn
  <2> HIDE DEF i
  <2>4. Keeps(k, i, Access(i))
    BY <2>3, OfAccess, KeepsRest DEF Keeps, Stands
  <2> QED
    BY <2>1, <2>3, <2>4, KeepsOn
<1> QED
  BY <1>2, <1>3
-----------------------------------------------------------------------------
(* The FAT *)

\* An error code changes nothing else,
LEMMA FailKeeps ==
  ASSUME NEW k \in 1 .. NFat - 2, NEW v, Stands(k, v), NEW r
  PROVE  /\ Keeps(k, v, Fail(v, r)) /\ Fail(v, r).val = v.val /\ Fail(v, r).res = r
         /\ Fail(v, r).at = v.at /\ Fail(v, r).win = v.win
<1> DEFINE w == Fail(v, r)
<1>1. /\ IsFs(w) /\ w.disk = v.disk /\ w.at = v.at /\ w.win = v.win /\ w.wflag = v.wflag
      /\ w.f = v.f /\ w.pos = v.pos /\ w.val = v.val /\ w.res = r
  BY DEF Stands, IsFs, Fields, Fail
<1> HIDE DEF w
<1> QED
  BY <1>1, KeepsRest DEF Keeps, w

\* The value of a cluster is told, or why it cannot be.
LEMMA GetFatKeeps ==
  ASSUME NEW k \in 1 .. NFat - 2, NEW v, Stands(k, v), NEW c
  PROVE  LET w == GetFat(v, c)
         IN /\ Keeps(k, v, w)
            /\ c \in Clusters => w.val = Bad \/ w.val = Link(Seen(v), c)
            /\ c \notin Clusters => w.val = 1
<1> DEFINE m == MoveWindow(v, Fat(c))
           w == GetFat(v, c)
<1>1. CASE c \notin Clusters
  <2>1. w = [v EXCEPT !.val = 1]
    BY <1>1 DEF GetFat
  <2>2. /\ IsFs(w) /\ w.disk = v.disk /\ w.at = v.at /\ w.win = v.win /\ w.wflag = v.wflag
        /\ w.f = v.f /\ w.pos = v.pos /\ w.val = 1
    BY <2>1 DEF Stands, IsFs, Fields
  <2> HIDE DEF w
  <2> QED
    BY <1>1, <2>2, KeepsRest DEF Keeps, w
<1>2. CASE c \in Clusters
  <2>1. w = IF Ok(m) THEN [m EXCEPT !.val = m.win[c]] ELSE [m EXCEPT !.val = Bad, !.res = "ok"]
    BY <1>2 DEF GetFat, Either
  <2>2. Keeps(k, v, m) /\ (Ok(m) => m.at = Fat(c))
    BY <1>2, SectorFacts, MoveWindowKeeps
  <2> HIDE DEF m
  <2>3. /\ IsFs(w) /\ w.disk = m.disk /\ w.at = m.at /\ w.win = m.win /\ w.wflag = m.wflag
        /\ w.f = m.f /\ w.pos = m.pos
        /\ w.val = IF Ok(m) THEN m.win[c] ELSE Bad
    BY <2>1, <2>2 DEF Keeps, Stands, IsFs, Fields
  <2> HIDE DEF w
  <2>4. Keeps(k, v, w)
    BY <2>2, <2>3, KeepsRest, KeepsOn DEF Keeps
  <2>5. Ok(m) => m.win[c] = Link(Seen(v), c)
    BY <1>2, <2>2, WindowHolds, SectorFacts DEF Link
  <2> QED
    BY <1>2, <2>3, <2>4, <2>5 DEF w
<1> QED
  BY <1>1, <1>2

\* ... and a value that passes the check is no error value.
LEMMA CheckedKeeps ==
  ASSUME NEW k \in 1 .. NFat - 2, NEW v, Stands(k, v)
  PROVE  /\ Keeps(k, v, Checked(v)) /\ Checked(v).val = v.val
         /\ Ok(Checked(v)) => v.val # Bad /\ v.val # 1
  BY FailKeeps DEF Checked, Ok

\* D becomes E when x is put into the FAT for cluster n.
Puts(k, D, E, n, x) ==
    /\ \A c \in Clusters : Link(E, c) = IF c = n THEN x ELSE Link(D, c)
    /\ \A p \in Places(k) : EntryAt(E, p) = EntryAt(D, p)

\* If the FAT that results is sound, put_fat() stands; it fails and
\* changes nothing, or succeeds and changes the one value.
LEMMA PutFatKeeps ==
  ASSUME NEW k \in 1 .. NFat - 2, NEW v, Stands(k, v), NEW n \in Clusters,
         NEW x \in {0, EOC} \cup Clusters,
         \A E : Shaped(k, E) /\ Puts(k, Seen(v), E, n, x) => Sound(k, E)
  PROVE  LET w == PutFat(v, n, x)
         IN /\ Stands(k, w) /\ w.f = v.f /\ w.pos = v.pos /\ w.val = v.val
            /\ Ok(w) => Puts(k, Seen(v), Seen(w), n, x)
            /\ ~ Ok(w) => Keeps(k, v, w)
<1> DEFINE m == MoveWindow(v, Fat(n))
           w == [m EXCEPT !.win[n] = x, !.wflag = TRUE]
<1>1. Keeps(k, v, m) /\ m.val = v.val /\ (Ok(m) => m.at = Fat(n))
  BY SectorFacts, MoveWindowKeeps
<1>2. CASE ~ Ok(m)
  <2>1. PutFat(v, n, x) = m
    BY <1>2 DEF PutFat, Then
  <2> QED
    BY <1>1, <1>2, <2>1 DEF Keeps
<1>3. CASE Ok(m)
  <2>1. PutFat(v, n, x) = w
    BY <1>3 DEF PutFat, Then
  <2> HIDE DEF m
  <2>2. /\ IsFs(w) /\ w.disk = m.disk /\ w.at = Fat(n) /\ w.win = [m.win EXCEPT ![n] = x] /\ w.wflag
        /\ w.f = v.f /\ w.pos = v.pos /\ w.val = v.val /\ w.res = m.res
    BY <1>1, <1>3 DEF Keeps, Stands, IsFs, Fields
  <2> HIDE DEF w
  <2>3. Seen(w) = [m.disk EXCEPT ![Fat(n)] = w.win]
    BY <2>2 DEF Seen
  <2>4. m.win = Seen(m)[Fat(n)] /\ Fat(n) \in Tables(k)
    BY <1>1, <1>3, WindowHolds, SectorFacts
  <2>5. Shaped(k, Seen(m)) /\ Shaped(k, m.disk)
    BY <1>1 DEF Keeps, Stands, Sound
  <2>6. \A s \in Tables(k) : Seen(w)[s] = IF s = Fat(n) THEN w.win ELSE Seen(m)[s]
    <3>1. \A s \in Tables(k) : s # Fat(n) => m.disk[s] = Seen(m)[s]
      BY <1>1, <1>3, <2>5, SectorFacts DEF Seen, Shaped
    <3> QED
      BY <2>3, <2>5, <3>1, SectorFacts DEF Shaped
  <2>7. \A c \in Clusters :
          /\ c \in DOMAIN Seen(w)[Fat(c)]
          /\ Link(Seen(w), c) = IF c = n THEN x ELSE Link(Seen(m), c)
    BY <2>2, <2>4, <2>5, <2>6, SectorFacts DEF Link, Shaped
  <2>8. \A c \in Directory(k) : Seen(w)[Clu(c)] = Seen(m)[Clu(c)]
    BY <2>6, SectorFacts
  <2>9. Shaped(k, Seen(w))
    <3>1. DOMAIN Seen(w) = Sectors
      BY <2>3, <2>5 DEF Shaped
    <3> QED
      BY <2>5, <2>7, <2>8, <3>1 DEF Shaped
  <2>10. Puts(k, Seen(v), Seen(w), n, x)
    <3>1. \A p \in Places(k) : EntryAt(Seen(w), p) = EntryAt(Seen(m), p)
      BY <2>8 DEF EntryAt, Places
    <3>2. SameTables(k, Seen(v), Seen(m))
      BY <1>1 DEF Keeps
    <3> QED
      BY <2>7, <3>1, <3>2, SameHolds DEF Puts
  <2>11. Sound(k, Seen(w)) /\ Sound(k, w.disk)
    BY <1>1, <2>2, <2>9, <2>10 DEF Keeps, Stands
  <2>12. InWindow(k, w)
    BY <2>2, <2>4, <2>6 DEF InWindow
  <2> QED
    BY <1>3, <2>1, <2>2, <2>10, <2>11, <2>12 DEF Stands, Ok
<1> QED
  BY <1>2, <1>3

\* Shape and directory of a card depend on the values of the FAT as follows.
LEMMA PutsEntered ==
  ASSUME NEW k \in 1 .. NFat - 2, NEW D, NEW E, NEW n \in Clusters, NEW x,
         Sound(k, D), Puts(k, D, E, n, x)
  PROVE  /\ Entered(k, E)
         /\ \A p \in Places(k) : (Owns(E, p) <=> Owns(D, p)) /\ EntryAt(E, p) = EntryAt(D, p)
  BY DEF Sound, Entered, Owns, Puts

\* A free cluster is marked as the end of a chain.
LEMMA MarkSound ==
  ASSUME NEW k \in 1 .. NFat - 2, NEW D, NEW E, NEW n \in Clusters,
         Sound(k, D), Link(D, n) = 0, Shaped(k, E), Puts(k, D, E, n, EOC)
  PROVE  Sound(k, E)
<1>0. /\ Entered(k, E)
      /\ \A p \in Places(k) : (Owns(E, p) <=> Owns(D, p)) /\ EntryAt(E, p) = EntryAt(D, p)
  BY PutsEntered
<1> USE SectorFacts DEF Sound
<1>1. \A c \in Clusters : Link(E, c) = IF c = n THEN EOC ELSE Link(D, c)
  BY DEF Puts
<1>2. n \notin Directory(k)
  BY DEF Rooted, Directory, Root
<1>3. Rooted(k, E)
  BY <1>1, <1>2 DEF Rooted, Directory, Root, Clusters
<1>4. Linked(E)
  BY <1>1 DEF Linked
<1>5. Owned(k, E)
  <2> SUFFICES ASSUME NEW p \in Places(k), Owns(E, p)
               PROVE  Loose(k, E, EntryAt(E, p).clu, p) /\ Link(E, EntryAt(E, p).clu) # 0
    BY DEF Owned
  <2>1. Owns(D, p) /\ EntryAt(E, p) = EntryAt(D, p)
    BY <1>0
  <2>2. Loose(k, D, EntryAt(D, p).clu, p) /\ Link(D, EntryAt(D, p).clu) # 0
    BY <2>1 DEF Owned
  <2>3. Loose(k, E, EntryAt(D, p).clu, p)
    BY <1>1, <2>2, <1>0 DEF Loose
  <2>4. EntryAt(D, p).clu \in Clusters
    BY <2>2 DEF Loose
  <2> QED
    BY <1>1, <2>1, <2>2, <2>3, <2>4
<1> QED
  BY <1>3, <1>4, <1>5, <1>0 DEF Sound

\* Cluster n, which nothing refers to, is linked behind the end c of a chain.
LEMMA LinkSound ==
  ASSUME NEW k \in 1 .. NFat - 2, NEW D, NEW E, NEW n \in Clusters, NEW c \in Clusters,
         Sound(k, D), Link(D, c) = EOC, c \notin Directory(k),
         Loose(k, D, n, NoPlace), Link(D, n) # 0, Shaped(k, E), Puts(k, D, E, c, n)
  PROVE  Sound(k, E)
<1>0. /\ Entered(k, E)
      /\ \A p \in Places(k) : (Owns(E, p) <=> Owns(D, p)) /\ EntryAt(E, p) = EntryAt(D, p)
  BY PutsEntered
<1> USE SectorFacts DEF Sound
<1>1. \A d \in Clusters : Link(E, d) = IF d = c THEN n ELSE Link(D, d)
  BY DEF Puts
<1>2. n # Root /\ n # 0 /\ \A d \in Clusters : Link(D, d) # n
  BY DEF Loose
<1>3. Rooted(k, E)
  BY <1>1 DEF Rooted, Directory, Root, Clusters
<1>4. Linked(E)
  BY <1>1, <1>2 DEF Linked
<1>5. \A p \in Places(k) : Owns(D, p) => EntryAt(D, p).clu # n
  BY SMT DEF Loose, Places, NoPlace, Directory, Root
<1>6. Owned(k, E)
  <2> SUFFICES ASSUME NEW p \in Places(k), Owns(E, p)
               PROVE  Loose(k, E, EntryAt(E, p).clu, p) /\ Link(E, EntryAt(E, p).clu) # 0
    BY DEF Owned
  <2>1. Owns(D, p) /\ EntryAt(E, p) = EntryAt(D, p)
    BY <1>0
  <2>2. Loose(k, D, EntryAt(D, p).clu, p) /\ Link(D, EntryAt(D, p).clu) # 0
    BY <2>1 DEF Owned
  <2>3. Loose(k, E, EntryAt(D, p).clu, p)
    BY <1>1, <1>5, <2>1, <2>2, <1>0 DEF Loose
  <2>4. EntryAt(D, p).clu \in Clusters
    BY <2>2 DEF Loose
  <2> QED
    BY <1>1, <1>2, <2>1, <2>2, <2>3, <2>4
<1> QED
  BY <1>3, <1>4, <1>6, <1>0 DEF Sound

\* Cluster n, which nothing refers to, is freed.
LEMMA FreeSound ==
  ASSUME NEW k \in 1 .. NFat - 2, NEW D, NEW E, NEW n \in Clusters,
         Sound(k, D), n \notin Directory(k), Loose(k, D, n, NoPlace),
         Shaped(k, E), Puts(k, D, E, n, 0)
  PROVE  Sound(k, E)
<1>0. /\ Entered(k, E)
      /\ \A p \in Places(k) : (Owns(E, p) <=> Owns(D, p)) /\ EntryAt(E, p) = EntryAt(D, p)
  BY PutsEntered
<1> USE SectorFacts DEF Sound
<1>1. \A d \in Clusters : Link(E, d) = IF d = n THEN 0 ELSE Link(D, d)
  BY DEF Puts
<1>2. \A d \in Clusters : Link(D, d) # n
  BY DEF Loose
<1>3. Rooted(k, E)
  BY <1>1 DEF Rooted, Directory, Root, Clusters
<1>4. Linked(E)
  BY <1>1, <1>2 DEF Linked
<1>5. \A p \in Places(k) : Owns(D, p) => EntryAt(D, p).clu # n
  BY SMT DEF Loose, Places, NoPlace, Directory, Root
<1>6. Owned(k, E)
  <2> SUFFICES ASSUME NEW p \in Places(k), Owns(E, p)
               PROVE  Loose(k, E, EntryAt(E, p).clu, p) /\ Link(E, EntryAt(E, p).clu) # 0
    BY DEF Owned
  <2>1. Owns(D, p) /\ EntryAt(E, p) = EntryAt(D, p)
    BY <1>0
  <2>2. Loose(k, D, EntryAt(D, p).clu, p) /\ Link(D, EntryAt(D, p).clu) # 0
    BY <2>1 DEF Owned
  <2>3. EntryAt(D, p).clu \in Clusters /\ EntryAt(D, p).clu # n
    BY <1>5, <2>1, <2>2 DEF Loose
  <2>4. Loose(k, E, EntryAt(D, p).clu, p)
    BY <1>1, <2>2, <1>0 DEF Loose
  <2> QED
    BY <1>1, <2>1, <2>2, <2>3, <2>4
<1> QED
  BY <1>3, <1>4, <1>6, <1>0 DEF Sound

\* The cluster behind one that is not the directory's is not the directory's.
LEMMA LinkLeaves ==
  ASSUME NEW k \in 1 .. NFat - 2, NEW D, Sound(k, D), NEW c \in Clusters \ Directory(k)
  PROVE  Link(D, c) \notin Directory(k)
<1> SUFFICES ASSUME Link(D, c) \in Directory(k)
             PROVE  FALSE
  OBVIOUS
<1>1. Link(D, c) \in Clusters /\ Link(D, c) # Root
  BY SectorFacts DEF Sound, Linked
<1>2. Link(D, c) - 1 \in Root .. k
  BY <1>1, ParamAssumption DEF Directory, Root
<1>3. /\ Link(D, Link(D, c) - 1) = Link(D, c)
      /\ Link(D, c) - 1 \in Clusters /\ Link(D, c) - 1 \in Directory(k)
  BY <1>2, ParamAssumption DEF Sound, Rooted, Root, Clusters, Directory
<1> QED
  BY <1>1, <1>3 DEF Sound, Linked

\* Cluster c may be freed: no entry or cluster refers to it, and it is not the
\* directory's.
Removable(k, v, c) == c \in Clusters => c \notin Directory(k) /\ Loose(k, Seen(v), c, NoPlace)

\* remove_chain() in rounds.
LEMMA FreeRounds ==
  ASSUME NEW v, NEW c
  PROVE  \E g : /\ g[0] = [v EXCEPT !.val = c]
                /\ FreeFrom(v, c) = g[NFat]
                /\ \A j \in 1 .. NFat : g[j] = FreeNext(g[j - 1])
<1> DEFINE n == NFat
           start == [v EXCEPT !.val = c]
<1>1. n \in Nat
  BY ParamAssumption
<1>2. FreeFrom(v, c) = LET after[j \in 0 .. n] == IF j = 0 THEN start ELSE FreeNext(after[j - 1])
      IN after[n]
  BY DEF FreeFrom, Repeat
<1> HIDE DEF n, start
<1> USE <1>1
<1> DEFINE Is(m, g) == g[0] = start /\ \A j \in 1 .. m : g[j] = FreeNext(g[j - 1])
           S == {m \in 0 .. n : \E g : Is(m, g)}
           Full(g) == g = [j \in 0 .. n |-> IF j = 0 THEN start ELSE FreeNext(g[j - 1])]
<1>3. 0 \in S
  <2>1. Is(0, [j \in 0 .. 0 |-> start])
    OBVIOUS
  <2> HIDE DEF Is
  <2> QED
    BY <2>1
<1>4. ASSUME NEW j \in 1 .. n, j - 1 \in S
      PROVE  j \in S
  <2>1. PICK g : Is(j - 1, g)
    BY <1>4
  <2> DEFINE h == [i \in 0 .. j |-> IF i = j THEN FreeNext(g[j - 1]) ELSE g[i]]
  <2>2. Is(j, h)
    BY <2>1
  <2> HIDE DEF h, Is
  <2> QED
    BY <2>2
<1>5. \E g : Is(n, g)
  <2> HIDE DEF S
  <2>1. n \in S
    BY <1>3, <1>4, Induction
  <2> QED
    BY <2>1 DEF S
<1>6. PICK g : Is(n, g)
  BY <1>5
<1>7. Full([j \in 0 .. n |-> g[j]])
  BY <1>6
<1> DEFINE after == CHOOSE h : Full(h)
<1>8. Full(after)
  <2> HIDE DEF Full
  <2> QED
    BY <1>7
<1>9. FreeFrom(v, c) = after[n]
  BY <1>2
<1> HIDE DEF after
<1>10. Is(n, after)
  BY <1>8
<1> QED
  BY <1>9, <1>10 DEF n, start

\* What freeing a chain leaves of v, and what it needs to go on.
Frees(k, v, w) ==
    /\ Stands(k, w) /\ w.f = v.f /\ w.pos = v.pos
    /\ \A p \in Places(k) : EntryAt(Seen(w), p) = EntryAt(Seen(v), p)
    /\ Ok(w) => Removable(k, w, w.val)

\* The free count is in memory.
LEMMA OneMoreFreeKeeps ==
  ASSUME NEW k \in 1 .. NFat - 2, NEW v, Stands(k, v)
  PROVE  Keeps(k, v, OneMoreFree(v)) /\ OneMoreFree(v).val = v.val /\ OneMoreFree(v).res = v.res
<1> DEFINE w == OneMoreFree(v)
<1>1. /\ IsFs(w) /\ w.disk = v.disk /\ w.at = v.at /\ w.win = v.win /\ w.wflag = v.wflag
      /\ w.f = v.f /\ w.pos = v.pos /\ w.val = v.val /\ w.res = v.res
  BY DEF Stands, IsFs, Fields, OneMoreFree
<1> HIDE DEF w
<1> QED
  BY <1>1, KeepsRest DEF Keeps, w

\* A round of remove_chain() frees a cluster nothing refers to,
\* and nothing refers to the one behind it then.
LEMMA FreeNextFrees ==
  ASSUME NEW k \in 1 .. NFat - 2, NEW v, Stands(k, v), Ok(v) => Removable(k, v, v.val)
  PROVE  Frees(k, v, FreeNext(v))
<1> DEFINE n == v.val
           g == GetFat(v, n)
           c == Checked(g)
           p == PutFat(c, n, 0)
<1>1. CASE ~ Ok(v) \/ n \notin Clusters
  BY <1>1 DEF FreeNext, Frees
<1>2. CASE Ok(v) /\ n \in Clusters
  <2>1. FreeNext(v) = IF Ok(c) THEN IF c.val = 0 THEN c ELSE IF Ok(p) THEN OneMoreFree(p) ELSE p ELSE c
    BY <1>2 DEF FreeNext, Then
  <2>2. Keeps(k, v, g) /\ (g.val = Bad \/ g.val = Link(Seen(v), n))
    BY <1>2, GetFatKeeps
  <2>3. Keeps(k, g, c) /\ c.val = g.val /\ (Ok(c) => g.val # Bad)
    BY <2>2, CheckedKeeps DEF Keeps
  <2>4. Keeps(k, v, c) /\ (Ok(c) => c.val = Link(Seen(v), n))
    BY <2>2, <2>3, KeepsOn
  <2> HIDE DEF c, g
  <2>5. SameTables(k, Seen(v), Seen(c))
    BY <2>4 DEF Keeps
  <2>6. /\ \A d \in Clusters : Link(Seen(c), d) = Link(Seen(v), d)
        /\ \A q \in Places(k) : EntryAt(Seen(c), q) = EntryAt(Seen(v), q)
    BY <2>5, SameHolds
  <2>7. CASE ~ Ok(c)
    BY <2>1, <2>4, <2>6, <2>7 DEF Frees, Keeps
  <2>8. CASE Ok(c) /\ c.val = 0
    BY <2>1, <2>4, <2>6, <2>8, SectorFacts DEF Frees, Keeps, Removable
  <2>9. CASE Ok(c) /\ c.val # 0
    <3>1. n \notin Directory(k) /\ Loose(k, Seen(c), n, NoPlace)
      BY <1>2, <2>6, SectorFacts DEF Removable, Loose, Owns
    <3>2. Sound(k, Seen(c)) /\ Stands(k, c)
      BY <2>4 DEF Keeps, Stands
    <3>3. \A E : Shaped(k, E) /\ Puts(k, Seen(c), E, n, 0) => Sound(k, E)
      BY <1>2, <3>1, <3>2, FreeSound
    <3>4. /\ Stands(k, p) /\ p.f = c.f /\ p.pos = c.pos /\ p.val = c.val
          /\ Ok(p) => Puts(k, Seen(c), Seen(p), n, 0)
          /\ ~ Ok(p) => Keeps(k, c, p)
      BY <1>2, <3>2, <3>3, PutFatKeeps
    <3> HIDE DEF p
    <3>5. CASE ~ Ok(p)
      <4>1. SameTables(k, Seen(c), Seen(p))
        BY <3>4, <3>5 DEF Keeps
      <4> QED
        BY <2>1, <2>4, <2>6, <2>9, <3>4, <3>5, <4>1, SameHolds DEF Frees, Keeps
    <3>6. CASE Ok(p)
      <4> DEFINE o == OneMoreFree(p)
                 x == Link(Seen(v), n)
      <4>1. Keeps(k, p, o) /\ o.val = x
        BY <2>4, <2>9, <3>4, OneMoreFreeKeeps
      <4>2. FreeNext(v) = o
        BY <2>1, <2>9, <3>6
      <4> HIDE DEF o
      <4>3. SameTables(k, Seen(p), Seen(o))
        BY <4>1 DEF Keeps
      <4>4. /\ \A d \in Clusters : Link(Seen(o), d) = IF d = n THEN 0 ELSE Link(Seen(v), d)
            /\ \A q \in Places(k) : EntryAt(Seen(o), q) = EntryAt(Seen(v), q)
        BY <2>6, <3>4, <3>6, <4>3, SameHolds DEF Puts
      <4>5. ASSUME x \in Clusters
            PROVE  x \notin Directory(k) /\ Loose(k, Seen(o), x, NoPlace)
        <5> HIDE DEF x
        <5>1. /\ x = Link(Seen(v), n) /\ x # Root
              /\ \A d \in Clusters : Link(Seen(v), d) = x => d = n
              /\ \A q \in Places(k) : Owns(Seen(v), q) => EntryAt(Seen(v), q).clu # x
          BY <1>2, <4>5 DEF Stands, Sound, Linked, Owned, Loose, x
        <5>2. x \notin Directory(k)
          BY <1>2, <5>1, LinkLeaves DEF Stands, Removable
        <5>3. \A d \in Clusters : Link(Seen(o), d) # x
          BY <4>4, <4>5, <5>1, SectorFacts
        <5>4. \A q \in Places(k) : Owns(Seen(o), q) => EntryAt(Seen(o), q).clu # x
          BY <4>4, <5>1 DEF Owns
        <5> QED
          BY <4>5, <5>1, <5>2, <5>3, <5>4 DEF Loose
      <4>6. Stands(k, o) /\ o.f = v.f /\ o.pos = v.pos
        BY <2>4, <3>4, <4>1 DEF Keeps
      <4> QED
        BY <4>1, <4>2, <4>4, <4>5, <4>6 DEF Frees, Removable
    <3> QED
      BY <3>5, <3>6
  <2> QED
    BY <2>7, <2>8, <2>9
<1> QED
  BY <1>1, <1>2

\* So all rounds free only clusters that belong to nobody else,
LEMMA FreeFromFrees ==
  ASSUME NEW k \in 1 .. NFat - 2, NEW v, Stands(k, v), NEW c, Removable(k, v, c)
  PROVE  Frees(k, v, FreeFrom(v, c))
<1> DEFINE u == [v EXCEPT !.val = c]
<1>1. /\ IsFs(u) /\ u.disk = v.disk /\ u.at = v.at /\ u.win = v.win /\ u.wflag = v.wflag
      /\ u.f = v.f /\ u.pos = v.pos /\ u.val = c
  BY DEF Stands, IsFs, Fields
<1> HIDE DEF u
<1>3. Stands(k, u) /\ Seen(u) = Seen(v)
  BY <1>1, KeepsRest
<1>4. Frees(k, v, u)
  BY <1>1, <1>3 DEF Frees, Removable
<1>5. PICK g : /\ g[0] = u /\ g[NFat] = FreeFrom(v, c)
               /\ \A j \in 1 .. NFat : g[j] = FreeNext(g[j - 1])
  BY FreeRounds DEF u
<1> DEFINE S == {j \in 0 .. NFat : Frees(k, v, g[j])}
<1>6. 0 \in S
  BY <1>4, <1>5, ParamAssumption
<1>7. ASSUME NEW j \in 1 .. NFat, j - 1 \in S
      PROVE  j \in S
  <2>1. Frees(k, v, g[j - 1])
    BY <1>7
  <2>2. Frees(k, g[j - 1], g[j])
    BY <1>5, <2>1, FreeNextFrees DEF Frees
  <2>3. Frees(k, v, g[j])
    BY <2>1, <2>2 DEF Frees
  <2> QED
    BY <2>3
<1> HIDE DEF S
<1>8. NFat \in S
  BY <1>6, <1>7, Induction, ParamAssumption
<1> QED
  BY <1>5, <1>8 DEF S

\* ... and so does remove_chain(), wherever the card fails.
LEMMA RemoveChainFrees ==
  ASSUME NEW k \in 1 .. NFat - 2, NEW v, Stands(k, v), NEW c, Removable(k, v, c)
  PROVE  Frees(k, v, RemoveChain(v, c, 0))
<1>1. CASE c \notin Clusters
  <2>1. RemoveChain(v, c, 0) = Fail(v, "int")
    BY <1>1 DEF RemoveChain
  <2>2. Keeps(k, v, Fail(v, "int")) /\ ~ Ok(Fail(v, "int"))
    BY FailKeeps DEF Ok
  <2>3. SameTables(k, Seen(v), Seen(Fail(v, "int")))
    BY <2>2 DEF Keeps
  <2> QED
    BY <2>1, <2>2, <2>3, SameHolds DEF Frees, Keeps
<1>2. CASE c \in Clusters /\ ~ Ok(v)
  <2>1. RemoveChain(v, c, 0) = v
    BY <1>2 DEF RemoveChain, Then
  <2> QED
    BY <1>2, <2>1 DEF Frees
<1>3. CASE c \in Clusters /\ Ok(v)
  <2>1. RemoveChain(v, c, 0) = FreeFrom(v, c)
    BY <1>3 DEF RemoveChain, Then
  <2> QED
    BY <2>1, FreeFromFrees
<1> QED
  BY <1>1, <1>2, <1>3

\* The scan of create_chain() in rounds.
LEMMA ScanRounds ==
  ASSUME NEW v, NEW scl
  PROVE  \E g : /\ g[0] = [fs |-> v, n |-> scl, on |-> TRUE]
                /\ Scan(v, scl) = IF g[NFat].on THEN [g[NFat].fs EXCEPT !.val = 0] ELSE g[NFat].fs
                /\ \A j \in 1 .. NFat : g[j] = ScanNext(g[j - 1], scl)
<1> DEFINE n == NFat
           start == [fs |-> v, n |-> scl, on |-> TRUE]
<1>1. n \in Nat
  BY ParamAssumption
<1>2. Scan(v, scl) = LET after[j \in 0 .. n] == IF j = 0 THEN start ELSE ScanNext(after[j - 1], scl)
      IN IF after[n].on THEN [after[n].fs EXCEPT !.val = 0] ELSE after[n].fs
  BY DEF Scan, Repeat
<1> HIDE DEF n, start
<1> USE <1>1
<1> DEFINE Is(m, g) == g[0] = start /\ \A j \in 1 .. m : g[j] = ScanNext(g[j - 1], scl)
           S == {m \in 0 .. n : \E g : Is(m, g)}
           Full(g) == g = [j \in 0 .. n |-> IF j = 0 THEN start ELSE ScanNext(g[j - 1], scl)]
<1>3. 0 \in S
  <2>1. Is(0, [j \in 0 .. 0 |-> start])
    OBVIOUS
  <2> HIDE DEF Is
  <2> QED
    BY <2>1
<1>4. ASSUME NEW j \in 1 .. n, j - 1 \in S
      PROVE  j \in S
  <2>1. PICK g : Is(j - 1, g)
    BY <1>4
  <2> DEFINE h == [i \in 0 .. j |-> IF i = j THEN ScanNext(g[j - 1], scl) ELSE g[i]]
  <2>2. Is(j, h)
    BY <2>1
  <2> HIDE DEF h, Is
  <2> QED
    BY <2>2
<1>5. \E g : Is(n, g)
  <2> HIDE DEF S
  <2>1. n \in S
    BY <1>3, <1>4, Induction
  <2> QED
    BY <2>1 DEF S
<1>6. PICK g : Is(n, g)
  BY <1>5
<1>7. Full([j \in 0 .. n |-> g[j]])
  BY <1>6
<1> DEFINE after == CHOOSE h : Full(h)
<1>8. Full(after)
  <2> HIDE DEF Full
  <2> QED
    BY <1>7
<1>9. Scan(v, scl) = IF after[n].on THEN [after[n].fs EXCEPT !.val = 0] ELSE after[n].fs
  BY <1>2
<1> HIDE DEF after
<1>10. Is(n, after)
  BY <1>8
<1> QED
  BY <1>9, <1>10 DEF n, start

\* The scan has come to cluster n, or to its end: val is a free cluster, or tells
\* that there is none.
Scanning(k, v, s) ==
    /\ DOMAIN s = {"fs", "n", "on"} /\ s.on \in BOOLEAN
    /\ Keeps(k, v, s.fs)
    /\ s.n \in Nat \ {0}
    /\ ~ s.on => \/ s.fs.val \in {0, 1, Bad}
                 \/ s.fs.val \in Clusters /\ Link(Seen(v), s.fs.val) = 0

\* A result changes nothing else.
LEMMA SetVal ==
  ASSUME NEW k \in 1 .. NFat - 2, NEW v, NEW w, Keeps(k, v, w), NEW x
  PROVE  Keeps(k, v, [w EXCEPT !.val = x]) /\ [w EXCEPT !.val = x].val = x
<1> DEFINE u == [w EXCEPT !.val = x]
<1>1. /\ IsFs(u) /\ u.disk = w.disk /\ u.at = w.at /\ u.win = w.win /\ u.wflag = w.wflag
      /\ u.f = w.f /\ u.pos = w.pos /\ u.val = x
  BY DEF Keeps, Stands, IsFs, Fields
<1> HIDE DEF u
<1>2. Stands(k, w)
  BY DEF Keeps
<1>3. Keeps(k, w, u)
  BY <1>1, <1>2, KeepsRest DEF Keeps
<1> QED
  BY <1>1, <1>3, KeepsOn DEF u

\* The scan stays within the clusters of the volume.
LEMMA BehindIn ==
  ASSUME NEW c \in Nat \ {0}
  PROVE  Behind(c) \in Clusters
  BY ParamAssumption DEF Behind, Clusters

\* A round of the scan ends with a free cluster, an error value, or goes on.
LEMMA ScanNextScans ==
  ASSUME NEW k \in 1 .. NFat - 2, NEW v, NEW s, Scanning(k, v, s), NEW scl
  PROVE  Scanning(k, v, ScanNext(s, scl))
<1> DEFINE n == Behind(s.n)
           g == GetFat(s.fs, n)
           Found(x) == [s EXCEPT !.fs = [g EXCEPT !.val = x], !.on = FALSE]
<1>1. ScanNext(s, scl) =
        IF ~ s.on THEN s
        ELSE IF s.n + 1 >= NFat /\ n > scl THEN [s EXCEPT !.fs = [s.fs EXCEPT !.val = 0], !.on = FALSE]
        ELSE IF g.val = 0 THEN Found(n)
        ELSE IF g.val \in {1, Bad} THEN Found(g.val)
        ELSE IF n = scl THEN Found(0)
        ELSE [s EXCEPT !.fs = g, !.n = n]
  BY DEF ScanNext
<1>2. n \in Clusters /\ n \in Nat \ {0}
  BY BehindIn, SectorFacts DEF Scanning
<1>3. Keeps(k, v, s.fs) /\ Stands(k, s.fs)
  BY DEF Scanning, Keeps
<1>4. Keeps(k, s.fs, g) /\ (g.val = Bad \/ g.val = Link(Seen(s.fs), n))
  BY <1>2, <1>3, GetFatKeeps
<1>5. Keeps(k, v, g)
  BY <1>3, <1>4, KeepsOn
<1>6. Link(Seen(s.fs), n) = Link(Seen(v), n)
  BY <1>2, <1>3, SameHolds DEF Keeps
<1> HIDE DEF n, g
<1>7. ASSUME NEW x, x \in {0, 1, Bad} \/ (x \in Clusters /\ Link(Seen(v), x) = 0)
      PROVE  Scanning(k, v, Found(x))
  <2>1. Keeps(k, v, [g EXCEPT !.val = x]) /\ [g EXCEPT !.val = x].val = x
    BY <1>5, SetVal
  <2> QED
    BY <1>7, <2>1 DEF Scanning
<1>8. Scanning(k, v, [s EXCEPT !.fs = [s.fs EXCEPT !.val = 0], !.on = FALSE])
  <2>1. Keeps(k, v, [s.fs EXCEPT !.val = 0]) /\ [s.fs EXCEPT !.val = 0].val = 0
    BY <1>3, SetVal
  <2> QED
    BY <2>1 DEF Scanning
<1>9. g.val = 0 => Link(Seen(v), n) = 0
  BY <1>4, <1>6 DEF Bad
<1>10. s.on => Scanning(k, v, [s EXCEPT !.fs = g, !.n = n])
  BY <1>2, <1>5 DEF Scanning
<1> HIDE DEF Found
<1> QED
  BY <1>1, <1>2, <1>7, <1>8, <1>9, <1>10

\* Nothing is lost, and val is a free cluster if it is one.
Finds(k, v, w) ==
    /\ Keeps(k, v, w)
    /\ w.val \in {0, 1, Bad} \/ (w.val \in Clusters /\ Link(Seen(v), w.val) = 0)

\* The scan of create_chain() returns a free cluster, 0 or an error value.
LEMMA ScanFinds ==
  ASSUME NEW k \in 1 .. NFat - 2, NEW v, Stands(k, v), NEW scl \in Nat \ {0}
  PROVE  Finds(k, v, Scan(v, scl))
<1>1. PICK g : /\ g[0] = [fs |-> v, n |-> scl, on |-> TRUE]
               /\ Scan(v, scl) = IF g[NFat].on THEN [g[NFat].fs EXCEPT !.val = 0] ELSE g[NFat].fs
               /\ \A j \in 1 .. NFat : g[j] = ScanNext(g[j - 1], scl)
  BY ScanRounds
<1> DEFINE S == {j \in 0 .. NFat : Scanning(k, v, g[j])}
<1>2. 0 \in S
  <2>1. Scanning(k, v, [fs |-> v, n |-> scl, on |-> TRUE])
    BY KeepsItself DEF Scanning
  <2> QED
    BY <1>1, <2>1, ParamAssumption
<1>3. ASSUME NEW j \in 1 .. NFat, j - 1 \in S
      PROVE  j \in S
  BY <1>1, <1>3, ScanNextScans
<1> HIDE DEF S
<1>4. NFat \in S
  BY <1>2, <1>3, Induction, ParamAssumption
<1>5. Scanning(k, v, g[NFat])
  BY <1>4 DEF S
<1>6. Keeps(k, v, g[NFat].fs)
  BY <1>5 DEF Scanning
<1>7. Keeps(k, v, [g[NFat].fs EXCEPT !.val = 0]) /\ [g[NFat].fs EXCEPT !.val = 0].val = 0
  BY <1>6, SetVal
<1> QED
  BY <1>1, <1>5, <1>6, <1>7 DEF Scanning, Finds

\* So does the choice that takes the cluster behind the chain's end first.
LEMMA FindFreeFinds ==
  ASSUME NEW k \in 1 .. NFat - 2, NEW v, Stands(k, v), NEW c \in Clusters \cup {0}
  PROVE  Finds(k, v, FindFree(v, c))
<1> DEFINE hint(none) == IF v.last \in Clusters THEN v.last ELSE none
           n == Behind(c)
           p == GetFat(v, n)
<1>1. \A none \in Nat \ {0} : hint(none) \in Nat \ {0}
  BY SectorFacts
<1>2. CASE c = 0
  <2>1. FindFree(v, c) = Scan(v, hint(1))
    BY <1>2 DEF FindFree
  <2> QED
    BY <1>1, <2>1, ScanFinds
<1>3. CASE c # 0
  <2> DEFINE found == [p EXCEPT !.val = n]
             scl == IF p.last \in Clusters THEN p.last ELSE c
  <2>1. FindFree(v, c) = IF p.val = 0 THEN found
                         ELSE IF p.val \in {1, Bad} THEN p ELSE Scan(p, hint(c))
    BY <1>3 DEF FindFree, With
  <2>2. c \in Nat \ {0} /\ n \in Clusters
    BY <1>3, BehindIn, SectorFacts
  <2>3. Keeps(k, v, p) /\ (p.val = Bad \/ p.val = Link(Seen(v), n))
    BY <2>2, GetFatKeeps
  <2> HIDE DEF n, p
  <2>4. Keeps(k, v, found) /\ found.val = n
    <3>1. Keeps(k, v, p)
      BY <2>3
    <3> HIDE DEF hint
    <3> QED
      BY <3>1, SetVal
  <2>5. Finds(k, p, Scan(p, hint(c)))
    BY <1>1, <2>2, <2>3, ScanFinds DEF Keeps
  <2>6. Finds(k, v, Scan(p, hint(c)))
    <3>1. \A d \in Clusters : Link(Seen(p), d) = Link(Seen(v), d)
      BY <2>3, SameHolds DEF Keeps
    <3> QED
      BY <2>3, <2>5, <3>1, KeepsOn DEF Finds
  <2> HIDE DEF found, hint
  <2> QED
    BY <2>1, <2>2, <2>3, <2>4, <2>6 DEF Finds, Bad
<1> QED
  BY <1>2, <1>3

\* At most clusters that were free are in use in w, as the end of a chain or
\* behind one.
Extends(k, v, w) ==
    /\ Stands(k, w) /\ w.f = v.f /\ w.pos = v.pos
    /\ \A p \in Places(k) : EntryAt(Seen(w), p) = EntryAt(Seen(v), p)
    /\ \A c \in Clusters :
          /\ Link(Seen(v), c) # 0 => Link(Seen(w), c) # 0
          /\ Link(Seen(w), c) \in Clusters => \/ Link(Seen(w), c) = Link(Seen(v), c)
                                              \/ Link(Seen(v), Link(Seen(w), c)) = 0

\* A step that keeps the card may follow one that extends a chain,
LEMMA KeepsExtends ==
  ASSUME NEW k \in 1 .. NFat - 2, NEW v, NEW w, NEW x, Extends(k, v, w), Keeps(k, w, x)
  PROVE  Extends(k, v, x)
<1>1. SameTables(k, Seen(w), Seen(x))
  BY DEF Keeps
<1> QED
  BY <1>1, SameHolds DEF Keeps, Extends

\* ... and doing nothing extends none.
LEMMA ExtendsItself ==
  ASSUME NEW k \in 1 .. NFat - 2, NEW v, Stands(k, v)
  PROVE  Extends(k, v, v)
  BY DEF Extends

\* The open file stands when a chain has been extended, in part or as a whole.
LEMMA ExtendsFile ==
  ASSUME NEW k \in 1 .. NFat - 2, NEW v, NEW w, Extends(k, v, w), FileStands(k, v)
  PROVE  FileStands(k, w)
<1> DEFINE f == v.f
<1>1. CASE f = Closed
  BY <1>1 DEF FileStands, Extends
<1>2. CASE FileIn(k, Seen(v), f)
  <2>1. EntryAt(Seen(w), f.dir) = EntryAt(Seen(v), f.dir)
    BY <1>2 DEF FileIn, Extends
  <2>2. ASSUME f.sclust # 0
        PROVE  Loose(k, Seen(w), f.sclust, f.dir) /\ Link(Seen(w), f.sclust) # 0
    <3>1. Loose(k, Seen(v), f.sclust, f.dir) /\ Link(Seen(v), f.sclust) # 0
      BY <1>2, <2>2 DEF FileIn
    <3>2. \A d \in Clusters : Link(Seen(w), d) # f.sclust
      BY <3>1 DEF Loose, Extends
    <3> QED
      BY <3>1, <3>2 DEF Loose, Owns, Extends
  <2>3. FileIn(k, Seen(w), f)
    BY <1>2, <2>1, <2>2 DEF FileIn
  <2> QED
    BY <2>3 DEF FileStands, Extends
<1> QED
  BY <1>1, <1>2 DEF FileStands

\* The cluster that create_chain() has found, or why it has none.
New(k, D, n, c) ==
    \/ n \in {0, 1, Bad}
    \/ /\ n \in Clusters \ Directory(k)
       /\ c = 0 => Loose(k, D, n, NoPlace) /\ Link(D, n) # 0

\* A free cluster is nobody's.
LEMMA FreeIsLoose ==
  ASSUME NEW k \in 1 .. NFat - 2, NEW D, Sound(k, D), NEW n \in Clusters, Link(D, n) = 0
  PROVE  n \notin Directory(k) /\ Loose(k, D, n, NoPlace)
<1>1. n \notin Directory(k)
  BY SectorFacts DEF Sound, Rooted, Directory, Root
<1>2. \A d \in Clusters : Link(D, d) # n
  BY DEF Sound, Linked
<1>3. \A q \in Places(k) : Owns(D, q) => EntryAt(D, q).clu # n
  BY DEF Sound, Owned
<1> QED
  BY <1>1, <1>2, <1>3, SectorFacts DEF Loose

\* create_chain() marks a cluster in use and then links it: the card is sound at
\* each of the two writes, and between them.
LEMMA AllocateExtends ==
  ASSUME NEW k \in 1 .. NFat - 2, NEW v, Stands(k, v), NEW n \in Clusters, Link(Seen(v), n) = 0,
         NEW c, c = 0 \/ (c \in Clusters \ Directory(k) /\ Link(Seen(v), c) = EOC)
  PROVE  LET w == Allocate(v, n, c)
         IN /\ Extends(k, v, w) /\ w.val = v.val
            /\ Ok(w) => New(k, Seen(w), n, c)
<1> DEFINE D == Seen(v)
           a == PutFat(v, n, EOC)
           b == PutFat(a, c, n)
<1>1. n \notin Directory(k) /\ Loose(k, D, n, NoPlace)
  BY FreeIsLoose DEF Stands
<1>2. /\ Stands(k, a) /\ a.f = v.f /\ a.pos = v.pos /\ a.val = v.val
      /\ Ok(a) => Puts(k, D, Seen(a), n, EOC)
      /\ ~ Ok(a) => Keeps(k, v, a)
  <2>1. \A E : Shaped(k, E) /\ Puts(k, D, E, n, EOC) => Sound(k, E)
    BY MarkSound DEF Stands
  <2> QED
    BY <2>1, PutFatKeeps
<1>3. Allocate(v, n, c) = IF Ok(a) THEN IF c # 0 THEN b ELSE a ELSE a
  BY DEF Allocate, Then
<1> HIDE DEF a
<1>4. CASE ~ Ok(a)
  BY <1>2, <1>3, <1>4, KeepsExtends, ExtendsItself
<1>5. CASE Ok(a)
  <2> DEFINE E == Seen(a)
  <2> HIDE DEF D, E
  <2>1. /\ \A d \in Clusters : Link(E, d) = IF d = n THEN EOC ELSE Link(D, d)
        /\ \A p \in Places(k) : EntryAt(E, p) = EntryAt(D, p)
    BY <1>2, <1>5 DEF Puts, E
  <2>2. Extends(k, v, a)
    BY <1>2, <2>1, SectorFacts DEF Extends, D, E
  <2>3. Loose(k, E, n, NoPlace) /\ Link(E, n) = EOC
    BY <1>1, <2>1, SectorFacts DEF Loose, Owns
  <2>4. CASE c = 0
    BY <1>1, <1>2, <1>3, <1>5, <2>2, <2>3, <2>4, SectorFacts DEF New, E
  <2>5. CASE c # 0
    <3>1. c \in Clusters \ Directory(k) /\ Link(D, c) = EOC /\ Link(D, n) = 0
      BY <2>5 DEF D
    <3>2. Link(E, c) = EOC /\ c # n
      BY <2>1, <3>1, SectorFacts
    <3>3. \A F : Shaped(k, F) /\ Puts(k, E, F, c, n) => Sound(k, F)
      <4>1. Sound(k, E)
        BY <1>2 DEF E, Stands
      <4> QED
        BY <2>3, <3>1, <3>2, <4>1, LinkSound, SectorFacts
    <3>4. /\ Stands(k, b) /\ b.f = a.f /\ b.pos = a.pos /\ b.val = a.val
          /\ Ok(b) => Puts(k, E, Seen(b), c, n)
          /\ ~ Ok(b) => Keeps(k, a, b)
      BY <1>2, <3>1, <3>3, PutFatKeeps DEF E
    <3>5. Allocate(v, n, c) = b
      BY <1>3, <1>5, <2>5
    <3> HIDE DEF b
    <3>6. CASE ~ Ok(b)
      BY <1>2, <2>2, <3>4, <3>5, <3>6, KeepsExtends
    <3>7. CASE Ok(b)
      <4>1. /\ \A d \in Clusters : Link(Seen(b), d) = IF d = c THEN n ELSE Link(E, d)
            /\ \A p \in Places(k) : EntryAt(Seen(b), p) = EntryAt(E, p)
        BY <3>4, <3>7 DEF Puts
      <4>2. Extends(k, v, b)
        BY <1>2, <2>1, <3>1, <3>4, <4>1, SectorFacts DEF Extends, D
      <4> QED
        BY <1>1, <1>2, <2>5, <3>4, <3>5, <4>2 DEF New
    <3> QED
      BY <3>6, <3>7
  <2> QED
    BY <2>4, <2>5
<1> QED
  BY <1>4, <1>5

\* So it is when the search found no cluster, or failed.
LEMMA TakeFreeExtends ==
  ASSUME NEW k \in 1 .. NFat - 2, NEW v, Stands(k, v),
         v.val \in {0, 1, Bad} \/ (v.val \in Clusters /\ Link(Seen(v), v.val) = 0),
         NEW c, c = 0 \/ (c \in Clusters \ Directory(k) /\ Link(Seen(v), c) = EOC)
  PROVE  LET w == TakeFree(v, c)
         IN Extends(k, v, w) /\ New(k, Seen(w), w.val, c)
<1> DEFINE a == Allocate(v, v.val, c)
           w == TakeFree(v, c)
           w1 == [a EXCEPT !.last = a.val, !.fsi = TRUE,
                           !.free = IF @ <= NFat - 2 THEN @ - 1 ELSE @]
           w2 == [a EXCEPT !.val = IF a.res = "disk" THEN Bad ELSE 1, !.res = "ok"]
<1>1. CASE v.val < 2
  <2>1. w = v
    BY <1>1 DEF TakeFree
  <2>2. v.val \in {0, 1, Bad}
    BY <1>1 DEF Clusters
  <2> QED
    BY <2>1, <2>2, ExtendsItself DEF New
<1>2. CASE ~ (v.val < 2)
  <2>1. w = IF Ok(a) THEN w1 ELSE w2
    BY <1>2 DEF TakeFree, Either
  <2>2. v.val \in Clusters /\ Link(Seen(v), v.val) = 0
    BY <1>2 DEF Bad
  <2>3. /\ Extends(k, v, a) /\ a.val = v.val
        /\ Ok(a) => New(k, Seen(a), v.val, c)
    BY <2>2, AllocateExtends
  <2> HIDE DEF a
  <2>4. Stands(k, a)
    BY <2>3 DEF Extends
  <2>5. /\ IsFs(w1) /\ w1.disk = a.disk /\ w1.at = a.at /\ w1.win = a.win /\ w1.wflag = a.wflag
        /\ w1.f = a.f /\ w1.pos = a.pos /\ w1.val = a.val
    BY <2>4 DEF Stands, IsFs, Fields
  <2>6. /\ IsFs(w2) /\ w2.disk = a.disk /\ w2.at = a.at /\ w2.win = a.win /\ w2.wflag = a.wflag
        /\ w2.f = a.f /\ w2.pos = a.pos /\ w2.val \in {1, Bad}
    BY <2>4 DEF Stands, IsFs, Fields
  <2> HIDE DEF w1, w2
  <2>7. Keeps(k, a, w1) /\ Seen(w1) = Seen(a)
    BY <2>4, <2>5, KeepsRest DEF Keeps
  <2>8. Keeps(k, a, w2)
    BY <2>4, <2>6, KeepsRest DEF Keeps
  <2>9. Extends(k, v, w1) /\ Extends(k, v, w2)
    BY <2>3, <2>7, <2>8, KeepsExtends
  <2>10. CASE Ok(a)
    BY <2>1, <2>3, <2>5, <2>7, <2>9, <2>10
  <2>11. CASE ~ Ok(a)
    BY <2>1, <2>6, <2>9, <2>11 DEF New
  <2> QED
    BY <2>10, <2>11
<1> QED
  BY <1>1, <1>2

\* create_chain() keeps the card sound, and the cluster it returns is one that
\* nothing else refers to.
LEMMA CreateChainExtends ==
  ASSUME NEW k \in 1 .. NFat - 2, NEW v, Stands(k, v), NEW c, c \notin Directory(k)
  PROVE  LET w == CreateChain(v, c)
         IN Extends(k, v, w) /\ New(k, Seen(w), w.val, c)
<1> DEFINE Grown(x) == IF x.free = 0 THEN [x EXCEPT !.val = 0] ELSE TakeFree(FindFree(x, c), c)
<1>1. ASSUME NEW x, Keeps(k, v, x),
             c = 0 \/ (c \in Clusters \ Directory(k) /\ Link(Seen(v), c) = EOC)
      PROVE  Extends(k, v, Grown(x)) /\ New(k, Seen(Grown(x)), Grown(x).val, c)
  <2> DEFINE p == FindFree(x, c)
             t == TakeFree(p, c)
             z == [x EXCEPT !.val = 0]
  <2>1. Keeps(k, v, z) /\ z.val = 0
    BY <1>1, SetVal
  <2>2. Extends(k, v, z)
    BY <2>1, ExtendsItself, KeepsExtends
  <2>3. Finds(k, x, p)
    BY <1>1, FindFreeFinds DEF Keeps
  <2> HIDE DEF p
  <2>4. Keeps(k, v, p)
    BY <1>1, <2>3, KeepsOn DEF Finds
  <2>5. \A d \in Clusters : Link(Seen(p), d) = Link(Seen(v), d) /\ Link(Seen(x), d) = Link(Seen(v), d)
    BY <1>1, <2>4, SameHolds DEF Keeps
  <2>6. Extends(k, p, t) /\ New(k, Seen(t), t.val, c)
    <3>1. p.val \in {0, 1, Bad} \/ (p.val \in Clusters /\ Link(Seen(p), p.val) = 0)
      BY <2>3, <2>5 DEF Finds
    <3>2. c = 0 \/ (c \in Clusters \ Directory(k) /\ Link(Seen(p), c) = EOC)
      BY <1>1, <2>5
    <3>3. Stands(k, p)
      BY <2>4 DEF Keeps
    <3> QED
      BY <3>1, <3>2, <3>3, TakeFreeExtends
  <2> HIDE DEF t
  <2>7. Extends(k, v, t)
    <3>1. /\ Stands(k, t) /\ t.f = v.f /\ t.pos = v.pos
          /\ \A q \in Places(k) : EntryAt(Seen(t), q) = EntryAt(Seen(v), q)
      BY <2>4, <2>6, SameHolds DEF Keeps, Extends
    <3>2. \A d \in Clusters :
            /\ Link(Seen(v), d) # 0 => Link(Seen(t), d) # 0
            /\ Link(Seen(t), d) \in Clusters => \/ Link(Seen(t), d) = Link(Seen(v), d)
                                                \/ Link(Seen(v), Link(Seen(t), d)) = 0
      BY <2>5, <2>6 DEF Extends
    <3> QED
      BY <3>1, <3>2 DEF Extends
  <2>8. CASE x.free = 0
    <3>1. Grown(x) = z
      BY <2>8
    <3> QED
      BY <2>1, <2>2, <3>1 DEF New
  <2>9. CASE x.free # 0
    <3>1. Grown(x) = t
      BY <2>9 DEF t, p
    <3> QED
      BY <2>6, <2>7, <3>1
  <2> QED
    BY <2>8, <2>9
<1>2. CASE c = 0
  <2>1. CreateChain(v, c) = Grown(v)
    BY <1>2 DEF CreateChain
  <2> HIDE DEF Grown
  <2> QED
    BY <1>1, <1>2, <2>1, KeepsItself
<1>3. CASE c # 0
  <2> DEFINE g == GetFat(v, c)
             one == [g EXCEPT !.val = 1]
  <2>1. CreateChain(v, c) = IF g.val \in {0, 1} THEN one
                            ELSE IF g.val < EOC THEN g ELSE Grown(g)
    BY <1>3 DEF CreateChain, With
  <2>2. /\ Keeps(k, v, g)
        /\ c \in Clusters => g.val = Bad \/ g.val = Link(Seen(v), c)
        /\ c \notin Clusters => g.val = 1
    BY GetFatKeeps
  <2> HIDE DEF g
  <2>3. Keeps(k, v, one) /\ one.val = 1
    BY <2>2, SetVal
  <2>4. Extends(k, v, one) /\ Extends(k, v, g)
    BY <2>2, <2>3, ExtendsItself, KeepsExtends
  <2> HIDE DEF one, Grown
  <2>5. CASE g.val \in {0, 1}
    BY <2>1, <2>3, <2>4, <2>5 DEF New
  <2>6. CASE g.val = Bad
    <3>1. Bad < EOC
      BY ParamAssumption DEF Bad, EOC
    <3> QED
      BY <1>3, <2>1, <2>4, <2>5, <2>6, <3>1 DEF New
  <2>7. CASE g.val \notin {0, 1, Bad}
    <3>1. c \in Clusters /\ g.val = Link(Seen(v), c) /\ g.val \in {EOC} \cup Clusters
      BY <2>2, <2>7 DEF Stands, Sound, Shaped
    <3>2. CASE g.val \in Clusters
      <4>1. g.val < EOC
        BY <3>2, ParamAssumption DEF Clusters, EOC
      <4>2. g.val \notin Directory(k)
        BY <3>1, LinkLeaves DEF Stands
      <4> QED
        BY <1>3, <2>1, <2>4, <2>7, <3>2, <4>1, <4>2 DEF New
    <3>3. CASE g.val = EOC
      <4>1. ~ (g.val < EOC)
        BY <3>3, ParamAssumption DEF EOC
      <4> QED
        BY <1>1, <2>1, <2>2, <2>7, <3>1, <3>3, <4>1
    <3> QED
      BY <3>1, <3>2, <3>3
  <2> QED
    BY <2>5, <2>6, <2>7
<1> QED
  BY <1>2, <1>3

\* dir_sdi()
AtStart(v) == [v EXCEPT !.pos = <<Root, 1>>]

\* A walk through the directory in rounds.
LEMMA WalkRounds ==
  ASSUME NEW v, NEW hits, NEW stretch, NEW n, n = NFat * PerDir
  PROVE  \E g : /\ g[0] = AtStart(v)
                /\ Walk(v, hits, stretch) = g[n]
                /\ \A j \in 1 .. n : g[j] = WalkNext(g[j - 1], hits, stretch)
<1> DEFINE start == AtStart(v)
<1>1. n \in Nat
  BY ParamAssumption
<1>2. Walk(v, hits, stretch) = LET after[j \in 0 .. n] == IF j = 0 THEN start ELSE WalkNext(after[j - 1], hits, stretch)
      IN after[n]
  BY DEF Walk, Repeat, AtStart
<1> HIDE DEF start
<1> USE <1>1
<1> DEFINE Is(m, g) == g[0] = start /\ \A j \in 1 .. m : g[j] = WalkNext(g[j - 1], hits, stretch)
           S == {m \in 0 .. n : \E g : Is(m, g)}
           Full(g) == g = [j \in 0 .. n |-> IF j = 0 THEN start ELSE WalkNext(g[j - 1], hits, stretch)]
<1>3. 0 \in S
  <2>1. Is(0, [j \in 0 .. 0 |-> start])
    OBVIOUS
  <2> HIDE DEF Is
  <2> QED
    BY <2>1
<1>4. ASSUME NEW j \in 1 .. n, j - 1 \in S
      PROVE  j \in S
  <2>1. PICK g : Is(j - 1, g)
    BY <1>4
  <2> DEFINE h == [i \in 0 .. j |-> IF i = j THEN WalkNext(g[j - 1], hits, stretch) ELSE g[i]]
  <2>2. Is(j, h)
    BY <2>1
  <2> HIDE DEF h, Is
  <2> QED
    BY <2>2
<1>5. \E g : Is(n, g)
  <2> HIDE DEF S
  <2>1. n \in S
    BY <1>3, <1>4, Induction
  <2> QED
    BY <2>1 DEF S
<1>6. PICK g : Is(n, g)
  BY <1>5
<1>7. Full([j \in 0 .. n |-> g[j]])
  BY <1>6
<1> DEFINE after == CHOOSE h : Full(h)
<1>8. Full(after)
  <2> HIDE DEF Full
  <2> QED
    BY <1>7
<1>9. Walk(v, hits, stretch) = after[n]
  BY <1>2
<1> HIDE DEF after
<1>10. Is(n, after)
  BY <1>8
<1> QED
  BY <1>9, <1>10 DEF start

-----------------------------------------------------------------------------
(* The directory *)

\* D becomes E when e is put at place p of the directory.
Sets(k, D, E, p, e) ==
    /\ \A c \in Clusters : Link(E, c) = Link(D, c)
    /\ \A q \in Places(k) : EntryAt(E, q) = IF q = p THEN e ELSE EntryAt(D, q)

\* The window is at the sector of place p, and its entry there becomes e.
LEMMA PutEntry ==
  ASSUME NEW k \in 1 .. NFat - 2, NEW v, Stands(k, v), NEW p \in Places(k), v.at = Clu(p[1]),
         NEW e, NEW w, IsFs(w), w.disk = v.disk, w.at = v.at, w.wflag,
         w.win = [v.win EXCEPT ![p[2]] = e],
         \A E : Shaped(k, E) /\ Sets(k, Seen(v), E, p, e) => Sound(k, E)
  PROVE  Stands(k, w) /\ Sets(k, Seen(v), Seen(w), p, e)
<1>1. p[1] \in Directory(k) /\ p[2] \in 1 .. PerDir /\ p = <<p[1], p[2]>>
  BY DEF Places
<1>2. v.at \in Tables(k) /\ v.win = Seen(v)[v.at]
  BY <1>1, SectorFacts DEF Stands, InWindow
<1>3. Shaped(k, Seen(v)) /\ Shaped(k, v.disk)
  BY DEF Stands, Sound
<1>4. Seen(w) = [v.disk EXCEPT ![v.at] = w.win]
  BY DEF Seen
<1>5. \A s \in Tables(k) : Seen(w)[s] = IF s = v.at THEN w.win ELSE Seen(v)[s]
  <2>1. \A s \in Tables(k) : s # v.at => v.disk[s] = Seen(v)[s]
    BY <1>3, SectorFacts DEF Seen, Shaped
  <2> QED
    BY <1>3, <1>4, <2>1, SectorFacts DEF Shaped
<1>6. \A c \in Clusters : Seen(w)[Fat(c)] = Seen(v)[Fat(c)]
  BY <1>5, SectorFacts
<1>7. v.win = [i \in 1 .. PerDir |-> v.win[i]]
  BY <1>1, <1>2, <1>3 DEF Shaped
<1>8. /\ w.win = [i \in 1 .. PerDir |-> w.win[i]]
      /\ \A i \in 1 .. PerDir : w.win[i] = IF i = p[2] THEN e ELSE v.win[i]
  BY <1>7
<1>9. Shaped(k, Seen(w))
  <2>1. DOMAIN Seen(w) = Sectors
    BY <1>3, <1>4 DEF Shaped
  <2>2. \A c \in Directory(k) : Seen(w)[Clu(c)] = [i \in 1 .. PerDir |-> Seen(w)[Clu(c)][i]]
    <3> SUFFICES ASSUME NEW c \in Directory(k)
                 PROVE  Seen(w)[Clu(c)] = [i \in 1 .. PerDir |-> Seen(w)[Clu(c)][i]]
      OBVIOUS
    <3>1. Clu(c) \in Tables(k)
      BY SectorFacts
    <3>2. CASE Clu(c) = v.at
      <4>1. Seen(w)[Clu(c)] = w.win
        BY <1>5, <3>1, <3>2
      <4> QED
        BY <1>8, <4>1
    <3>3. CASE Clu(c) # v.at
      <4>1. Seen(w)[Clu(c)] = Seen(v)[Clu(c)]
        BY <1>5, <3>1, <3>3
      <4> QED
        BY <1>3, <4>1 DEF Shaped
    <3> QED
      BY <3>2, <3>3
  <2> QED
    BY <1>3, <1>6, <2>1, <2>2 DEF Shaped, Link
<1>10. Sets(k, Seen(v), Seen(w), p, e)
  <2>1. ASSUME NEW q \in Places(k)
        PROVE  EntryAt(Seen(w), q) = IF q = p THEN e ELSE EntryAt(Seen(v), q)
    <3>1. q[1] \in Directory(k) /\ q[2] \in 1 .. PerDir /\ q = <<q[1], q[2]>>
      BY DEF Places
    <3>2. CASE q[1] = p[1]
      <4>1. Seen(w)[Clu(q[1])] = w.win /\ Seen(v)[Clu(q[1])] = v.win
        BY <1>2, <1>5, <3>2
      <4>2. q = p <=> q[2] = p[2]
        BY <1>1, <3>1, <3>2
      <4> QED
        BY <1>8, <3>1, <4>1, <4>2 DEF EntryAt
    <3>3. CASE q[1] # p[1]
      BY <1>1, <1>5, <3>1, <3>3, SectorFacts DEF EntryAt
    <3> QED
      BY <3>2, <3>3
  <2> QED
    BY <1>6, <2>1 DEF Sets, Link
<1>11. Sound(k, Seen(w)) /\ Sound(k, w.disk)
  BY <1>9, <1>10 DEF Stands
<1>12. InWindow(k, w)
  BY <1>2, <1>5 DEF InWindow
<1> QED
  BY <1>10, <1>11, <1>12 DEF Stands

\* The entry of a file is put at p, where it takes a cluster of its own.
LEMMA EntrySound ==
  ASSUME NEW k \in 1 .. NFat - 2, NEW D, NEW E, NEW p \in Places(k), NEW e,
         Sound(k, D), Shaped(k, E), Sets(k, D, E, p, e),
         DOMAIN e = {"name", "clu", "size"}, e.name \in Names, e.size \in Nat,
         e.size # 0 => e.clu # 0,
         e.clu # 0 => Loose(k, D, e.clu, p) /\ Link(D, e.clu) # 0,
         \A q \in Places(k) : q # p => EntryAt(D, q).name # e.name,
         \A q \in Places(k) : Before(q, p) => EntryAt(D, q).name # Free
  PROVE  Sound(k, E)
<1>1. /\ \A c \in Clusters : Link(E, c) = Link(D, c)
      /\ \A q \in Places(k) : EntryAt(E, q) = IF q = p THEN e ELSE EntryAt(D, q)
  BY DEF Sets
<1>2. Rooted(k, E) /\ Linked(E)
  BY <1>1, SectorFacts DEF Sound, Rooted, Linked, Directory, Root, Clusters
<1>3. Owned(k, E)
  <2> SUFFICES ASSUME NEW q \in Places(k), Owns(E, q)
               PROVE  Loose(k, E, EntryAt(E, q).clu, q) /\ Link(E, EntryAt(E, q).clu) # 0
    BY DEF Owned
  <2> DEFINE c == EntryAt(E, q).clu
  <2>1. Loose(k, D, c, q) /\ Link(D, c) # 0
    <3>1. CASE q = p
      BY <1>1, <3>1 DEF Owns
    <3>2. CASE q # p
      <4>1. EntryAt(E, q) = EntryAt(D, q) /\ Owns(D, q)
        BY <1>1, <3>2 DEF Owns
      <4> QED
        BY <4>1 DEF Sound, Owned
    <3> QED
      BY <3>1, <3>2
  <2>2. \A r \in Places(k) : Owns(E, r) /\ EntryAt(E, r).clu = c => r = q
    <3> SUFFICES ASSUME NEW r \in Places(k), Owns(E, r), EntryAt(E, r).clu = c
                 PROVE  r = q
      OBVIOUS
    <3>1. CASE r # p
      BY <1>1, <2>1, <3>1 DEF Loose, Owns
    <3>2. CASE r = p /\ q # p
      <4>1. Loose(k, D, c, p)
        BY <1>1, <3>2 DEF Owns
      <4>2. Owns(D, q) /\ EntryAt(D, q).clu = c
        BY <1>1, <3>2 DEF Owns
      <4> HIDE DEF c
      <4> QED
        BY <3>2, <4>1, <4>2 DEF Loose
    <3> QED
      BY <3>1, <3>2
  <2> HIDE DEF c
  <2>3. Loose(k, E, c, q) /\ Link(E, c) # 0
    BY <1>1, <2>1, <2>2 DEF Loose
  <2> QED
    BY <2>3 DEF c
<1>4. Entered(k, E)
  <2> SUFFICES ASSUME NEW q \in Places(k)
               PROVE  /\ DOMAIN EntryAt(E, q) = {"name", "clu", "size"}
                      /\ EntryAt(E, q).name \in Names \cup {Free, Deleted}
                      /\ EntryAt(E, q).size \in Nat
                      /\ EntryAt(E, q).name \in Names /\ EntryAt(E, q).size # 0 => EntryAt(E, q).clu # 0
                      /\ \A r \in Places(k) :
                           /\ EntryAt(E, q).name \in Names /\ EntryAt(E, r).name = EntryAt(E, q).name => q = r
                           /\ EntryAt(E, q).name = Free /\ Before(q, r) => EntryAt(E, r).name = Free
    BY DEF Entered
  <2>1. e.name # Free
    BY ParamAssumption DEF Free
  <2> QED
    BY <1>1, <2>1 DEF Sound, Entered
<1> QED
  BY <1>2, <1>3, <1>4 DEF Sound

\* The entry at p is marked as deleted.
LEMMA DeleteSound ==
  ASSUME NEW k \in 1 .. NFat - 2, NEW D, NEW E, NEW p \in Places(k), NEW e,
         Sound(k, D), Shaped(k, E), Sets(k, D, E, p, e), EntryAt(D, p).name \in Names,
         DOMAIN e = {"name", "clu", "size"}, e.name = Deleted, e.size \in Nat
  PROVE  Sound(k, E)
<1>1. /\ \A c \in Clusters : Link(E, c) = Link(D, c)
      /\ \A q \in Places(k) : EntryAt(E, q) = IF q = p THEN e ELSE EntryAt(D, q)
  BY DEF Sets
<1>2. e.name \notin Names /\ e.name # Free /\ EntryAt(D, p).name # Free
  BY ParamAssumption DEF Deleted, Free
<1>3. Rooted(k, E) /\ Linked(E)
  BY <1>1, SectorFacts DEF Sound, Rooted, Linked, Directory, Root, Clusters
<1>4. Owned(k, E)
  <2> SUFFICES ASSUME NEW q \in Places(k), Owns(E, q)
               PROVE  Loose(k, E, EntryAt(E, q).clu, q) /\ Link(E, EntryAt(E, q).clu) # 0
    BY DEF Owned
  <2>1. q # p /\ EntryAt(E, q) = EntryAt(D, q) /\ Owns(D, q)
    BY <1>1, <1>2 DEF Owns
  <2>2. Loose(k, D, EntryAt(D, q).clu, q) /\ Link(D, EntryAt(D, q).clu) # 0
    BY <2>1 DEF Sound, Owned
  <2>3. \A r \in Places(k) : Owns(E, r) => r # p /\ Owns(D, r) /\ EntryAt(E, r) = EntryAt(D, r)
    BY <1>1, <1>2 DEF Owns
  <2> QED
    BY <1>1, <2>1, <2>2, <2>3 DEF Loose
<1>5. Entered(k, E)
  <2> SUFFICES ASSUME NEW q \in Places(k)
               PROVE  /\ DOMAIN EntryAt(E, q) = {"name", "clu", "size"}
                      /\ EntryAt(E, q).name \in Names \cup {Free, Deleted}
                      /\ EntryAt(E, q).size \in Nat
                      /\ EntryAt(E, q).name \in Names /\ EntryAt(E, q).size # 0 => EntryAt(E, q).clu # 0
                      /\ \A r \in Places(k) :
                           /\ EntryAt(E, q).name \in Names /\ EntryAt(E, r).name = EntryAt(E, q).name => q = r
                           /\ EntryAt(E, q).name = Free /\ Before(q, r) => EntryAt(E, r).name = Free
    BY DEF Entered
  <2> QED
    BY <1>1, <1>2 DEF Sound, Entered
<1> QED
  BY <1>3, <1>4, <1>5 DEF Sound
-----------------------------------------------------------------------------
(* The walk through the directory *)

\* The places in their order.
Number(p) == (p[1] - Root) * PerDir + p[2]

\* The number of a place,
LEMMA NumberOf ==
  ASSUME NEW c \in Int, NEW i \in Int, NEW p, p = <<c, i>>
  PROVE  Number(p) = (c - Root) * PerDir + i
BY DEF Number

\* ... what a place is,
LEMMA PlaceIs ==
  ASSUME NEW k \in 1 .. NFat - 2, NEW p \in Places(k)
  PROVE  /\ p = <<p[1], p[2]>> /\ p[1] \in Directory(k) /\ p[1] \in Clusters /\ p[1] \in Nat
         /\ p[2] \in 1 .. PerDir /\ p[2] \in Nat /\ Clu(p[1]) \in Tables(k)
<1>1. p = <<p[1], p[2]>> /\ p[1] \in Directory(k) /\ p[2] \in 1 .. PerDir
  BY DEF Places
<1> QED
  BY <1>1, SectorFacts, ParamAssumption

\* ... and the order of two places.
LEMMA PlacesDiffer ==
  ASSUME NEW k \in 1 .. NFat - 2, NEW p \in Places(k), NEW q \in Places(k)
  PROVE  q = p \/ Before(q, p) \/ Before(p, q)
<1>1. p = <<p[1], p[2]>> /\ p[1] \in Nat /\ p[2] \in Nat
  BY PlaceIs
<1>2. q = <<q[1], q[2]>> /\ q[1] \in Nat /\ q[2] \in Nat
  BY PlaceIs
<1>3. p[1] = q[1] /\ p[2] = q[2] => p = q
  BY <1>1, <1>2
<1> QED
  BY <1>1, <1>2, <1>3 DEF Before

\* The walk has as many rounds as there may be places.
LEMMA NumberIs ==
  ASSUME NEW k \in 1 .. NFat - 2, NEW p \in Places(k)
  PROVE  Number(p) \in Nat /\ Number(p) <= NFat * PerDir
<1> DEFINE a == p[1] - Root
<1>1. a \in 0 .. NFat - 3
  BY PlaceIs, ParamAssumption DEF Directory, Root
<1>2. p[2] \in 1 .. PerDir /\ PerDir \in Nat \ {0} /\ NFat \in Nat
  BY PlaceIs, ParamAssumption
<1>3. Number(p) = a * PerDir + p[2]
  BY DEF Number
<1> HIDE DEF a
<1>4. a * PerDir \in Nat /\ a * PerDir <= (NFat - 3) * PerDir /\ (NFat - 3) * PerDir \in Int
  BY <1>1, <1>2
<1>5. (NFat - 3) * PerDir + 3 * PerDir = NFat * PerDir /\ 3 * PerDir >= PerDir
  BY <1>2
<1>6. NFat * PerDir \in Nat
  BY <1>2
<1> QED
  BY <1>2, <1>3, <1>4, <1>5, <1>6

\* dir_next() within a sector,
LEMMA NextPlace ==
  ASSUME NEW k \in 1 .. NFat - 2, NEW p \in Places(k), p[2] < PerDir
  PROVE  LET n == <<p[1], p[2] + 1>>
         IN /\ n \in Places(k) /\ Number(n) = Number(p) + 1
            /\ \A q \in Places(k) : Before(q, n) => q = p \/ Before(q, p)
<1> DEFINE n == <<p[1], p[2] + 1>>
<1>1. p[1] \in Directory(k) /\ p[1] \in Nat /\ p[2] \in Nat /\ p[2] + 1 \in 1 .. PerDir /\ PerDir \in Nat
  BY PlaceIs, ParamAssumption
<1>2. n \in Places(k)
  BY <1>1 DEF Places
<1>3. Number(n) = Number(p) + 1
  <2>1. (p[1] - Root) * PerDir \in Int
    BY <1>1 DEF Root
  <2> QED
    BY <1>1, <2>1 DEF Number
<1>4. ASSUME NEW q \in Places(k), Before(q, n)
      PROVE  q = p \/ Before(q, p)
  <2>1. ~ Before(p, q)
    <3>1. n[1] = p[1] /\ n[2] = p[2] + 1
      OBVIOUS
    <3>2. q[1] \in Nat /\ q[2] \in Nat
      BY PlaceIs
    <3> HIDE DEF n
    <3> QED
      BY <1>1, <1>4, <3>1, <3>2 DEF Before
  <2> QED
    BY <2>1, PlacesDiffer
<1> QED
  BY <1>2, <1>3, <1>4

\* ... to the next cluster of the directory,
LEMMA NextCluster ==
  ASSUME NEW k \in 1 .. NFat - 2, NEW p \in Places(k), p[2] = PerDir, p[1] # k + 1
  PROVE  LET n == <<p[1] + 1, 1>>
         IN /\ n \in Places(k) /\ Number(n) = Number(p) + 1
            /\ \A q \in Places(k) : Before(q, n) => q = p \/ Before(q, p)
<1> DEFINE n == <<p[1] + 1, 1>>
           a == p[1] - Root
<1>1. /\ p[1] \in Directory(k) /\ p[1] \in Nat /\ PerDir \in Nat \ {0} /\ 1 \in 1 .. PerDir
  BY PlaceIs, ParamAssumption
<1>2. p[1] + 1 \in Directory(k) /\ a \in Int /\ p[1] + 1 - Root = a + 1
  BY <1>1, ParamAssumption DEF Directory, Root
<1>3. n \in Places(k)
  BY <1>1, <1>2 DEF Places
<1>4. Number(n) = Number(p) + 1
  <2> DEFINE r == p[1] + 1
  <2>a. r \in Int
    BY <1>1
  <2>b. n = <<r, 1>>
    OBVIOUS
  <2>c. r - Root = a + 1
    BY <1>1 DEF Root
  <2> HIDE DEF r, n
  <2>1. r \in Int /\ n = <<r, 1>> /\ r - Root = a + 1
    BY <2>a, <2>b, <2>c
  <2>2. Number(n) = (r - Root) * PerDir + 1
    BY <2>1, NumberOf
  <2>4. Number(n) = (a + 1) * PerDir + 1
    BY <2>1, <2>2
  <2>5. Number(p) = a * PerDir + PerDir
    BY DEF Number
  <2> HIDE DEF a
  <2>3. (a + 1) * PerDir = a * PerDir + PerDir /\ a * PerDir \in Int
    BY <1>1, <1>2
  <2> QED
    BY <1>1, <2>3, <2>4, <2>5
<1>5. ASSUME NEW q \in Places(k), Before(q, n)
      PROVE  q = p \/ Before(q, p)
  <2>1. ~ Before(p, q)
    <3>1. n[1] = p[1] + 1 /\ n[2] = 1
      OBVIOUS
    <3>2. q[1] \in Nat /\ q[2] \in 1 .. PerDir
      BY PlaceIs
    <3> HIDE DEF n
    <3> QED
      BY <1>1, <1>5, <3>1, <3>2 DEF Before
  <2> QED
    BY <2>1, PlacesDiffer
<1> QED
  BY <1>3, <1>4, <1>5

\* ... and at the end of the last one.
LEMMA LastPlace ==
  ASSUME NEW k \in 1 .. NFat - 2, NEW p \in Places(k), p[2] = PerDir, p[1] = k + 1,
         NEW q \in Places(k)
  PROVE  q = p \/ Before(q, p)
<1>1. q[1] \in Directory(k) /\ q[2] \in 1 .. PerDir /\ PerDir \in Nat
  BY PlaceIs, ParamAssumption
<1>2. ~ Before(p, q)
  BY <1>1, ParamAssumption DEF Before, Directory, Root
<1> QED
  BY <1>2, PlacesDiffer

\* The walk begins at the first place.
LEMMA FirstPlace ==
  ASSUME NEW k \in 1 .. NFat - 2
  PROVE  /\ <<Root, 1>> \in Places(k) /\ Number(<<Root, 1>>) = 1
         /\ \A q \in Places(k) : ~ Before(q, <<Root, 1>>)
<1>1. Root \in Directory(k) /\ 1 \in 1 .. PerDir
  BY SectorFacts, ParamAssumption
<1>2. Number(<<Root, 1>>) = 1
  <2>1. 0 * PerDir = 0
    BY ParamAssumption
  <2> QED
    BY <2>1 DEF Number, Root
<1>3. ASSUME NEW q \in Places(k)
      PROVE  ~ Before(q, <<Root, 1>>)
  <2>1. q[1] \in Directory(k) /\ q[2] \in 1 .. PerDir
    BY PlaceIs
  <2> QED
    BY <2>1, ParamAssumption DEF Before, Directory, Root
<1> QED
  BY <1>1, <1>2, <1>3 DEF Places

\* Nothing is lost but the place of the walk.
Preserves(k, v, w) == Stands(k, w) /\ SameTables(k, Seen(v), Seen(w)) /\ w.f = v.f

\* Two steps that preserve the volume, one after the other.
LEMMA PreservesOn ==
  ASSUME NEW k, NEW v, NEW w, NEW x, Preserves(k, v, w), Preserves(k, w, x)
  PROVE  Preserves(k, v, x)
  BY DEF Preserves, SameTables

\* The position in the directory is in memory.
LEMMA SetPos ==
  ASSUME NEW k \in 1 .. NFat - 2, NEW v, Stands(k, v), NEW p
  PROVE  LET w == [v EXCEPT !.pos = p]
         IN /\ Preserves(k, v, w) /\ w.pos = p /\ w.res = v.res /\ w.val = v.val
            /\ w.at = v.at /\ w.win = v.win
<1> DEFINE w == [v EXCEPT !.pos = p]
<1>1. /\ IsFs(w) /\ w.disk = v.disk /\ w.at = v.at /\ w.win = v.win /\ w.wflag = v.wflag
      /\ w.f = v.f /\ w.pos = p /\ w.val = v.val /\ w.res = v.res
  BY DEF Stands, IsFs, Fields
<1> HIDE DEF w
<1> QED
  BY <1>1, KeepsRest DEF Preserves, w

\* No entry has one of these names; the places before p have none of them.
NoneIn(k, D, hits) == \A q \in Places(k) : EntryAt(D, q).name \notin hits
Passed(k, D, hits, p) ==
    \A q \in Places(k) : Before(q, p) => EntryAt(D, q).name \notin hits \cup {Free}

\* The walk that began at v has come to the place pos, past others; j rounds
\* have been made unless it is the one.
Walking(k, v, hits, w, j) ==
    /\ Preserves(k, v, w)
    /\ Ok(w) => /\ w.pos \in Places(k) /\ Passed(k, Seen(v), hits, w.pos)
                /\ \/ w.at = Clu(w.pos[1]) /\ EntryAt(Seen(v), w.pos).name \in hits
                   \/ Number(w.pos) = j + 1
    /\ w.res = "nofile" => NoneIn(k, Seen(v), hits)

\* dir_next() comes to the next place, or finds none; it stretches no directory in
\* which there is what the walk looks for.
LEMMA DirNextWalks ==
  ASSUME NEW k \in 1 .. NFat - 2, NEW v, NEW hits, NEW stretch \in BOOLEAN,
         stretch => ~ NoneIn(k, Seen(v), hits),
         NEW w, Preserves(k, v, w), Ok(w), w.pos \in Places(k),
         Passed(k, Seen(v), hits, w.pos), EntryAt(Seen(v), w.pos).name \notin hits \cup {Free}
  PROVE  LET x == DirNext(w, stretch)
         IN /\ Preserves(k, v, x)
            /\ Ok(x) => /\ x.pos \in Places(k) /\ Passed(k, Seen(v), hits, x.pos)
                        /\ Number(x.pos) = Number(w.pos) + 1
            /\ x.res = "nofile" => NoneIn(k, Seen(v), hits)
<1> DEFINE c == w.pos[1]
           i == w.pos[2]
           x == DirNext(w, stretch)
<1>1. /\ w.pos = <<c, i>> /\ c \in Directory(k) /\ c \in Clusters /\ c \in Nat /\ i \in 1 .. PerDir
      /\ PerDir \in Nat
  BY PlaceIs, SectorFacts, ParamAssumption
<1>2. Stands(k, w)
  BY DEF Preserves
<1>3. CASE i < PerDir
  <2>1. x = [w EXCEPT !.pos = <<c, i + 1>>]
    <3>1. [w.pos EXCEPT ![2] = @ + 1] = <<c, i + 1>>
      BY <1>1
    <3>2. x = [w EXCEPT !.pos = [w.pos EXCEPT ![2] = @ + 1]]
      BY <1>3 DEF DirNext
    <3> QED
      BY <3>1, <3>2
  <2>2. Preserves(k, v, x) /\ x.pos = <<c, i + 1>> /\ x.res = w.res
    BY <1>2, <2>1, SetPos, PreservesOn
  <2>3. /\ <<c, i + 1>> \in Places(k) /\ Number(<<c, i + 1>>) = Number(w.pos) + 1
        /\ \A q \in Places(k) : Before(q, <<c, i + 1>>) => q = w.pos \/ Before(q, w.pos)
    BY <1>3, NextPlace
  <2>4. Passed(k, Seen(v), hits, <<c, i + 1>>)
    BY <2>3 DEF Passed
  <2> QED
    BY <2>2, <2>3, <2>4 DEF Ok
<1>4. CASE ~ (i < PerDir)
  <2> DEFINE g == Checked(GetFat(w, c))
             start == [g EXCEPT !.pos = <<g.val, 1>>]
  <2>1. i = PerDir
    BY <1>1, <1>4
  <2>2. /\ ~ Ok(g) => x = g
        /\ Ok(g) /\ g.val \in Clusters => x = start
        /\ Ok(g) /\ g.val # 0 /\ g.val \notin Clusters /\ ~ stretch => x = Fail(g, "nofile")
    BY <1>4, SectorFacts DEF DirNext, Then
  <2>3. Preserves(k, w, g) /\ (Ok(g) => g.val = Link(Seen(w), c)) /\ g.res \in {"ok", "disk", "int"}
    <3> DEFINE h == GetFat(w, c)
    <3>1. Keeps(k, w, h) /\ (h.val = Bad \/ h.val = Link(Seen(w), c))
      BY <1>1, <1>2, GetFatKeeps
    <3> HIDE DEF h
    <3>2. Keeps(k, h, Checked(h)) /\ Checked(h).val = h.val /\ (Ok(Checked(h)) => h.val # Bad)
      BY <3>1, CheckedKeeps DEF Keeps
    <3>3. Checked(h).res \in {"ok", "disk", "int"}
      BY <3>1, FailKeeps DEF Checked, Keeps
    <3> QED
      BY <3>1, <3>2, <3>3, KeepsOn DEF Keeps, Preserves, h
  <2> HIDE DEF g
  <2>4. Preserves(k, v, g)
    BY <2>3, PreservesOn
  <2>5. CASE ~ Ok(g)
    BY <2>2, <2>3, <2>4, <2>5 DEF Ok
  <2>6. CASE Ok(g) /\ c # k + 1
    <3>1. g.val = c + 1 /\ g.val \in Clusters
      <4>1. c \in Root .. k /\ c + 1 \in Clusters
        BY <1>1, <2>6, ParamAssumption DEF Directory, Root, Clusters
      <4> QED
        BY <1>2, <2>3, <2>6, <4>1 DEF Stands, Sound, Rooted
    <3>2. x = start
      BY <2>2, <2>6, <3>1
    <3>3. Preserves(k, g, start) /\ start.pos = <<c + 1, 1>> /\ start.res = g.res
      BY <2>4, <3>1, SetPos DEF Preserves
    <3> HIDE DEF start
    <3>4. Preserves(k, v, x) /\ x.pos = <<c + 1, 1>> /\ Ok(x)
      BY <2>4, <2>6, <3>2, <3>3, PreservesOn DEF Ok
    <3>5. /\ <<c + 1, 1>> \in Places(k) /\ Number(<<c + 1, 1>>) = Number(w.pos) + 1
          /\ \A q \in Places(k) : Before(q, <<c + 1, 1>>) => q = w.pos \/ Before(q, w.pos)
      BY <2>1, <2>6, NextCluster
    <3>6. Passed(k, Seen(v), hits, <<c + 1, 1>>)
      BY <3>5 DEF Passed
    <3> QED
      BY <3>4, <3>5, <3>6 DEF Ok
  <2>7. CASE Ok(g) /\ c = k + 1
    <3>1. g.val = EOC
      BY <1>2, <2>3, <2>7 DEF Stands, Sound, Rooted
    <3>2. NoneIn(k, Seen(v), hits)
      BY <2>1, <2>7, LastPlace DEF Passed, NoneIn
    <3>3. x = Fail(g, "nofile")
      BY <2>2, <2>7, <3>1, <3>2, SectorFacts
    <3>4. Preserves(k, v, Fail(g, "nofile")) /\ ~ Ok(Fail(g, "nofile"))
      <4>1. Keeps(k, g, Fail(g, "nofile")) /\ ~ Ok(Fail(g, "nofile"))
        BY <2>4, FailKeeps DEF Preserves, Ok
      <4> QED
        BY <2>4, <4>1, PreservesOn DEF Keeps, Preserves
    <3> QED
      BY <3>2, <3>3, <3>4
  <2> QED
    BY <2>5, <2>6, <2>7
<1> QED
  BY <1>3, <1>4

\* A round of a walk passes one place that it does not look for.
LEMMA WalkNextWalks ==
  ASSUME NEW k \in 1 .. NFat - 2, NEW v, NEW hits, NEW stretch \in BOOLEAN,
         stretch => ~ NoneIn(k, Seen(v), hits), Sound(k, Seen(v)),
         NEW j \in Nat, NEW w, Walking(k, v, hits, w, j)
  PROVE  Walking(k, v, hits, WalkNext(w, hits, stretch), j + 1)
<1> DEFINE m == MoveWindow(w, Clu(w.pos[1]))
           x == WalkNext(w, hits, stretch)
<1>1. CASE ~ Ok(w)
  BY <1>1 DEF WalkNext, Walking
<1>2. CASE Ok(w)
  <2> DEFINE p == w.pos
  <2>1. /\ p \in Places(k) /\ Passed(k, Seen(v), hits, p)
        /\ \/ w.at = Clu(p[1]) /\ EntryAt(Seen(v), p).name \in hits
           \/ Number(p) = j + 1
        /\ Preserves(k, v, w)
    BY <1>2 DEF Walking
  <2>2. p[1] \in Directory(k) /\ p[2] \in 1 .. PerDir /\ Clu(p[1]) \in Tables(k)
    BY <2>1, PlaceIs
  <2>3. /\ Keeps(k, w, m) /\ m.res \in {w.res, "disk"}
        /\ Ok(m) => m.at = Clu(p[1])
    BY <2>1, <2>2, MoveWindowKeeps DEF Preserves
  <2>4. w.at = Clu(p[1]) => m = w
    BY DEF MoveWindow
  <2>5. x = IF Ok(m) THEN IF Here(m).name \in hits THEN m
                          ELSE IF Here(m).name = Free THEN Fail(m, "nofile")
                          ELSE DirNext(m, stretch)
            ELSE m
    BY <1>2 DEF WalkNext, Then
  <2> HIDE DEF m
  <2>6. Preserves(k, v, m) /\ m.pos = p
    BY <2>1, <2>3, PreservesOn DEF Keeps, Preserves
  <2>7. CASE ~ Ok(m)
    BY <1>2, <2>3, <2>5, <2>6, <2>7 DEF Walking, Ok
  <2>8. CASE Ok(m)
    <3>1. Here(m) = EntryAt(Seen(v), p)
      <4>1. m.win = Seen(m)[Clu(p[1])]
        BY <2>2, <2>3, <2>8, WindowHolds
      <4>2. EntryAt(Seen(m), p) = EntryAt(Seen(v), p)
        BY <2>1, <2>6, SameHolds DEF Preserves
      <4> QED
        BY <2>6, <4>1, <4>2 DEF Here, EntryAt
    <3>2. CASE Here(m).name \in hits
      BY <2>1, <2>3, <2>5, <2>6, <2>8, <3>1, <3>2 DEF Walking, Ok
    <3>3. CASE Here(m).name \notin hits /\ Here(m).name = Free
      <4>1. x = Fail(m, "nofile")
        BY <2>5, <2>8, <3>3
      <4>2. NoneIn(k, Seen(v), hits)
        <5> SUFFICES ASSUME NEW q \in Places(k)
                     PROVE  EntryAt(Seen(v), q).name \notin hits
          BY DEF NoneIn
        <5>1. q = p \/ Before(q, p) \/ Before(p, q)
          BY <2>1, PlacesDiffer
        <5>2. Before(p, q) => EntryAt(Seen(v), q).name = Free
          BY <2>1, <3>1, <3>3 DEF Sound, Entered
        <5> QED
          BY <2>1, <3>1, <3>3, <5>1, <5>2 DEF Passed
      <4>3. Preserves(k, v, Fail(m, "nofile")) /\ ~ Ok(Fail(m, "nofile"))
        <5>1. Keeps(k, m, Fail(m, "nofile")) /\ ~ Ok(Fail(m, "nofile"))
          BY <2>6, FailKeeps DEF Preserves, Ok
        <5> QED
          BY <2>6, <5>1, PreservesOn DEF Keeps, Preserves
      <4> QED
        BY <4>1, <4>2, <4>3 DEF Walking
    <3>4. CASE Here(m).name \notin hits /\ Here(m).name # Free
      <4>1. x = DirNext(m, stretch)
        BY <2>5, <2>8, <3>4
      <4>2. Number(p) = j + 1
        BY <2>1, <3>1, <3>4
      <4>3. /\ Preserves(k, v, x)
            /\ Ok(x) => /\ x.pos \in Places(k) /\ Passed(k, Seen(v), hits, x.pos)
                        /\ Number(x.pos) = Number(p) + 1
            /\ x.res = "nofile" => NoneIn(k, Seen(v), hits)
        <5>1. /\ m.pos \in Places(k) /\ Passed(k, Seen(v), hits, m.pos)
              /\ EntryAt(Seen(v), m.pos).name \notin hits \cup {Free}
          BY <2>1, <2>6, <3>1, <3>4
        <5> HIDE DEF x
        <5>2. LET y == DirNext(m, stretch)
              IN /\ Preserves(k, v, y)
                 /\ Ok(y) => /\ y.pos \in Places(k) /\ Passed(k, Seen(v), hits, y.pos)
                             /\ Number(y.pos) = Number(m.pos) + 1
                 /\ y.res = "nofile" => NoneIn(k, Seen(v), hits)
          BY <2>6, <2>8, <5>1, DirNextWalks
        <5> QED
          BY <2>6, <4>1, <5>2
      <4> QED
        BY <4>2, <4>3 DEF Walking
    <3> QED
      BY <3>2, <3>3, <3>4
  <2> QED
    BY <2>7, <2>8
<1> QED
  BY <1>1, <1>2

\* dir_find() and dir_alloc(): pos is the place of the first entry that was
\* looked for, and the window is there; or there is none.
Found(k, v, hits, w) ==
    /\ Preserves(k, v, w)
    /\ Ok(w) => /\ w.pos \in Places(k) /\ Passed(k, Seen(v), hits, w.pos)
                /\ w.at = Clu(w.pos[1]) /\ EntryAt(Seen(v), w.pos).name \in hits
                /\ Here(w) = EntryAt(Seen(v), w.pos)
    /\ w.res = "nofile" => NoneIn(k, Seen(v), hits)

\* A walk through the directory finds the first entry it looks for, or passes all of
\* them.
LEMMA WalkFinds ==
  ASSUME NEW k \in 1 .. NFat - 2, NEW v, Stands(k, v), Ok(v), NEW hits, NEW stretch \in BOOLEAN,
         stretch => ~ NoneIn(k, Seen(v), hits)
  PROVE  Found(k, v, hits, Walk(v, hits, stretch))
<1> DEFINE N == NFat * PerDir
           first == AtStart(v)
<1>1. N \in Nat
  BY ParamAssumption
<1>2. N = NFat * PerDir
  OBVIOUS
<1> HIDE DEF N
<1>a. PICK g : /\ g[0] = first
               /\ Walk(v, hits, stretch) = g[N]
               /\ \A j \in 1 .. N : g[j] = WalkNext(g[j - 1], hits, stretch)
  BY <1>2, WalkRounds
<1> HIDE DEF first
<1> DEFINE S == {j \in 0 .. N : Walking(k, v, hits, g[j], j)}
<1>3. 0 \in S
  <2>1. Preserves(k, v, first) /\ first.pos = <<Root, 1>> /\ first.res = v.res
    BY SetPos DEF first, AtStart
  <2>2. <<Root, 1>> \in Places(k) /\ Number(<<Root, 1>>) = 1
    BY FirstPlace
  <2>3. \A q \in Places(k) : ~ Before(q, <<Root, 1>>)
    BY FirstPlace
  <2>4. Walking(k, v, hits, first, 0)
    BY <2>1, <2>2, <2>3 DEF Walking, Passed, Ok
  <2> QED
    BY <1>1, <1>a, <2>4
<1>4. ASSUME NEW j \in 1 .. N, j - 1 \in S
      PROVE  j \in S
  <2>1. Walking(k, v, hits, g[j - 1], j - 1) /\ j - 1 \in Nat /\ (j - 1) + 1 = j
    BY <1>4
  <2>2. Sound(k, Seen(v))
    BY DEF Stands
  <2>3. Walking(k, v, hits, WalkNext(g[j - 1], hits, stretch), (j - 1) + 1)
    BY <2>1, <2>2, WalkNextWalks
  <2> QED
    BY <1>a, <2>1, <2>3
<1> HIDE DEF S
<1>5. N \in S
  BY <1>1, <1>3, <1>4, Induction
<1> DEFINE w == g[N]
<1>6. Walking(k, v, hits, w, N)
  BY <1>5 DEF S
<1> HIDE DEF w
<1>7. ASSUME Ok(w)
      PROVE  w.at = Clu(w.pos[1]) /\ EntryAt(Seen(v), w.pos).name \in hits /\ w.pos \in Places(k)
  <2>1. w.pos \in Places(k)
    BY <1>6, <1>7 DEF Walking
  <2>2. Number(w.pos) # N + 1
    BY <1>1, <2>1, NumberIs DEF N
  <2> QED
    BY <1>6, <1>7, <2>1, <2>2 DEF Walking
<1>8. Ok(w) => Here(w) = EntryAt(Seen(v), w.pos)
  <2> HAVE Ok(w)
  <2>1. w.at \in Tables(k) /\ w.pos \in Places(k) /\ w.at = Clu(w.pos[1])
    BY <1>7, PlaceIs
  <2>2. Preserves(k, v, w) /\ Stands(k, w)
    BY <1>6 DEF Walking, Preserves
  <2>3. w.win = Seen(w)[w.at]
    BY <2>1, <2>2 DEF Stands, InWindow
  <2>4. EntryAt(Seen(w), w.pos) = EntryAt(Seen(v), w.pos)
    BY <2>1, <2>2, SameHolds DEF Preserves
  <2> QED
    BY <2>1, <2>3, <2>4 DEF Here, EntryAt
<1> QED
  BY <1>a, <1>6, <1>7, <1>8 DEF Found, Walking, w
\* The directory need not be stretched: it has a place for every name.
Room(k) == IsFiniteSet(Names) /\ Cardinality(Names) <= k * PerDir

\* If no entry has the name n, one is free or deleted: otherwise the names in the
\* places, which differ, would be too many.
LEMMA RoomLeft ==
  ASSUME NEW k \in 1 .. NFat - 2, Room(k), NEW D, Sound(k, D), NEW n \in Names, NoneIn(k, D, {n})
  PROVE  ~ NoneIn(k, D, {Free, Deleted})
<1> SUFFICES ASSUME NoneIn(k, D, {Free, Deleted})
             PROVE  FALSE
  OBVIOUS
<1> DEFINE Rest == Names \ {n}
           f == [p \in Places(k) |-> EntryAt(D, p).name]
<1>1. IsFiniteSet(Rest) /\ Cardinality(Rest) = Cardinality(Names) - 1 /\ Cardinality(Rest) \in Nat
  BY FS_RemoveElement, FS_CardinalityType DEF Room
<1>2. IsFiniteSet(Places(k)) /\ Cardinality(Places(k)) = k * PerDir
  <2>1. IsFiniteSet(Directory(k)) /\ Cardinality(Directory(k)) = k
    BY FS_Interval, ParamAssumption DEF Directory, Root
  <2>2. IsFiniteSet(1 .. PerDir) /\ Cardinality(1 .. PerDir) = PerDir
    <3>1. PerDir \in Nat /\ PerDir > 0
      BY ParamAssumption
    <3> QED
      BY <3>1, FS_Interval
  <2> QED
    BY <2>1, <2>2, FS_Product DEF Places
<1>a. Cardinality(Names) <= Cardinality(Places(k)) /\ Cardinality(Places(k)) \in Nat
  BY <1>2, FS_CardinalityType DEF Room
<1>b. Cardinality(Names) \in Nat
  BY FS_CardinalityType DEF Room
<1>4. f \in [Places(k) -> Rest]
  BY DEF Sound, Entered, NoneIn
<1>5. Cardinality(Rest) < Cardinality(Places(k))
  BY <1>1, <1>a, <1>b
<1> HIDE DEF Rest
<1>6. PICK p \in Places(k), q \in Places(k) : p # q /\ f[p] = f[q]
  <2> HIDE DEF f
  <2> QED
    BY <1>1, <1>2, <1>4, <1>5, FS_PigeonHole
<1>7. EntryAt(D, p).name \in Names /\ EntryAt(D, q).name = EntryAt(D, p).name
  BY <1>4, <1>6 DEF Rest
<1> QED
  BY <1>6, <1>7 DEF Sound, Entered

\* dir_find()
LEMMA DirFindFinds ==
  ASSUME NEW k \in 1 .. NFat - 2, NEW v, Stands(k, v), Ok(v), NEW n
  PROVE  Found(k, v, {n}, DirFind(v, n))
BY WalkFinds DEF DirFind

\* dir_alloc()
LEMMA DirAllocFinds ==
  ASSUME NEW k \in 1 .. NFat - 2, Room(k), NEW v, Stands(k, v), Ok(v),
         NEW n \in Names, NoneIn(k, Seen(v), {n})
  PROVE  Found(k, v, {Free, Deleted}, DirAlloc(v))
<1>1. ~ NoneIn(k, Seen(v), {Free, Deleted})
  BY RoomLeft DEF Stands
<1> QED
  BY <1>1, WalkFinds DEF DirAlloc

-----------------------------------------------------------------------------
(* Changes of the directory *)

\* An entry is changed in the window; the card is sound with it if the changed
\* directory is.
LEMMA SetHereSets ==
  ASSUME NEW k \in 1 .. NFat - 2, NEW v, Stands(k, v), v.pos \in Places(k), v.at = Clu(v.pos[1]),
         NEW e, \A E : Shaped(k, E) /\ Sets(k, Seen(v), E, v.pos, e) => Sound(k, E)
  PROVE  LET w == SetHere(v, e)
         IN /\ Stands(k, w) /\ Sets(k, Seen(v), Seen(w), v.pos, e)
            /\ w.f = v.f /\ w.pos = v.pos /\ w.val = v.val /\ w.res = v.res /\ w.at = v.at
            /\ Here(w) = e
<1> DEFINE w == SetHere(v, e)
           p == v.pos
<1>1. /\ IsFs(w) /\ w.disk = v.disk /\ w.at = v.at /\ w.wflag = TRUE
      /\ w.win = [v.win EXCEPT ![p[2]] = e]
      /\ w.f = v.f /\ w.pos = p /\ w.val = v.val /\ w.res = v.res
  BY DEF SetHere, Stands, IsFs, Fields
<1> HIDE DEF w
<1>2. Stands(k, w) /\ Sets(k, Seen(v), Seen(w), p, e)
  BY <1>1, PutEntry
<1>3. Here(w) = e
  <2>1. w.at \in Tables(k) /\ w.at = Clu(p[1])
    BY <1>1, PlaceIs
  <2>2. w.win = Seen(w)[Clu(p[1])]
    BY <1>2, <2>1 DEF Stands, InWindow
  <2>3. EntryAt(Seen(w), p) = e
    BY <1>2 DEF Sets
  <2> QED
    BY <1>1, <2>2, <2>3 DEF Here, EntryAt
<1> QED
  BY <1>1, <1>2, <1>3 DEF w

\* A cluster nothing is linked to is not the directory's.
LEMMA LooseOutside ==
  ASSUME NEW k \in 1 .. NFat - 2, NEW D, Sound(k, D), NEW c, NEW p, Loose(k, D, c, p)
  PROVE  c \notin Directory(k)
<1> SUFFICES ASSUME c \in Directory(k)
             PROVE  FALSE
  OBVIOUS
<1>1. c \in Nat /\ c # Root /\ c - 1 \in Root .. k /\ c - 1 \in Clusters
  BY ParamAssumption DEF Loose, Directory, Root, Clusters
<1>2. Link(D, c - 1) = (c - 1) + 1
  BY <1>1 DEF Sound, Rooted
<1> QED
  BY <1>1, <1>2 DEF Loose

\* When the entry of a file is deleted or reset, its clusters are nobody's.
LEMMA Disowned ==
  ASSUME NEW k \in 1 .. NFat - 2, NEW D, Sound(k, D), NEW p \in Places(k), NEW E, NEW e,
         Sound(k, E), Sets(k, D, E, p, e), EntryAt(D, p).name \in Names, EntryAt(D, p).clu # 0,
         e.name \notin Names \/ e.clu = 0
  PROVE  /\ EntryAt(D, p).clu \notin Directory(k)
         /\ Loose(k, E, EntryAt(D, p).clu, NoPlace)
<1> DEFINE c == EntryAt(D, p).clu
<1>1. Loose(k, D, c, p)
  BY DEF Sound, Owned, Owns
<1>2. EntryAt(E, p) = e /\ ~ Owns(E, p)
  BY DEF Sets, Owns
<1> HIDE DEF c
<1>3. Loose(k, E, c, NoPlace)
  <2>1. \A d \in Clusters : Link(E, d) # c
    BY <1>1 DEF Sets, Loose
  <2>2. ASSUME NEW q \in Places(k), Owns(E, q), EntryAt(E, q).clu = c
        PROVE  FALSE
    <3>1. q # p
      BY <1>2, <2>2
    <3>2. Owns(D, q) /\ EntryAt(D, q).clu = c
      BY <2>2, <3>1 DEF Sets, Owns
    <3> QED
      BY <1>1, <3>1, <3>2 DEF Loose
  <2> QED
    BY <1>1, <2>1, <2>2 DEF Loose
<1>4. c \notin Directory(k)
  BY <1>3, LooseOutside
<1> QED
  BY <1>3, <1>4 DEF c

\* dir_register(): the name is entered, or the call has failed.
LEMMA DirRegisterStands ==
  ASSUME NEW k \in 1 .. NFat - 2, Room(k), NEW v, Stands(k, v), Ok(v),
         NEW n \in Names, NoneIn(k, Seen(v), {n})
  PROVE  LET w == DirRegister(v, n)
         IN /\ Stands(k, w) /\ w.f = v.f
            /\ Ok(w) => /\ w.pos \in Places(k) /\ EntryAt(Seen(w), w.pos).name = n
                        /\ Here(w) = EntryAt(Seen(w), w.pos)
<1> DEFINE a == DirAlloc(v)
           e == Entry(n, 0, 0)
           p == a.pos
           w == DirRegister(v, n)
<1>1. Found(k, v, {Free, Deleted}, a)
  BY DirAllocFinds
<1>2. w = Then(a, LAMBDA x : Then(MoveWindow(x, Clu(x.pos[1])), LAMBDA y : SetHere(y, Entry(n, 0, 0))))
  BY DEF DirRegister
<1> HIDE DEF a, w
<1>3. CASE ~ Ok(a)
  <2>1. w = a
    BY <1>2, <1>3 DEF Then
  <2> QED
    BY <1>1, <1>3, <2>1 DEF Found, Preserves, w
<1>4. CASE Ok(a)
  <2>1. /\ Preserves(k, v, a) /\ p \in Places(k) /\ Passed(k, Seen(v), {Free, Deleted}, p)
        /\ a.at = Clu(p[1])
    BY <1>1, <1>4 DEF Found
  <2>2. w = SetHere(a, e)
    BY <1>2, <1>4, <2>1 DEF Then, MoveWindow
  <2>3. Stands(k, a) /\ a.f = v.f /\ \A q \in Places(k) : EntryAt(Seen(a), q) = EntryAt(Seen(v), q)
    BY <2>1, SameHolds DEF Preserves
  <2>4. ASSUME NEW E, Shaped(k, E), Sets(k, Seen(a), E, p, e)
        PROVE  Sound(k, E)
    <3>1. DOMAIN e = {"name", "clu", "size"} /\ e.name = n /\ e.size = 0 /\ e.clu = 0
      BY DEF Entry
    <3>2. \A q \in Places(k) : /\ EntryAt(Seen(a), q).name # n
                               /\ Before(q, p) => EntryAt(Seen(a), q).name # Free
      BY <2>1, <2>3 DEF NoneIn, Passed
    <3> HIDE DEF e
    <3> QED
      BY <2>1, <2>3, <2>4, <3>1, <3>2, EntrySound DEF Stands
  <2> HIDE DEF e
  <2>5. LET x == SetHere(a, e)
        IN /\ Stands(k, x) /\ Sets(k, Seen(a), Seen(x), p, e)
           /\ x.f = a.f /\ x.pos = p /\ Here(x) = e
    BY <2>1, <2>3, <2>4, SetHereSets
  <2>6. EntryAt(Seen(w), p) = e
    BY <2>1, <2>2, <2>5 DEF Sets
  <2>7. e.name = n
    BY DEF e, Entry
  <2> QED
    BY <2>1, <2>2, <2>3, <2>5, <2>6, <2>7 DEF w
<1> QED
  BY <1>3, <1>4

\* An existing file is created anew: its entry is reset, its chain is freed.
LEMMA OverwriteStands ==
  ASSUME NEW k \in 1 .. NFat - 2, NEW u, NEW v, NEW n \in Names, Found(k, u, {n}, v), Ok(v)
  PROVE  LET w == Overwrite(v)
         IN /\ Stands(k, w) /\ w.f = v.f
            /\ Ok(w) => /\ w.pos \in Places(k) /\ EntryAt(Seen(w), w.pos).name = n
                        /\ Here(w) = EntryAt(Seen(w), w.pos)
<1> DEFINE old == Here(v)
           p == v.pos
           new == Entry(old.name, 0, 0)
           e == SetHere(v, new)
           w == Overwrite(v)
<1>1. /\ Stands(k, v) /\ p \in Places(k) /\ v.at = Clu(p[1])
      /\ EntryAt(Seen(v), p) = old /\ old.name = n
  <2>1. \A q \in Places(k) : EntryAt(Seen(v), q) = EntryAt(Seen(u), q)
    BY SameHolds DEF Found, Preserves
  <2> QED
    BY <2>1 DEF Found, Preserves
<1>2. DOMAIN new = {"name", "clu", "size"} /\ new.name = n /\ new.size = 0 /\ new.clu = 0
  BY <1>1 DEF Entry
<1> HIDE DEF old, new
<1>3. ASSUME NEW E, Shaped(k, E), Sets(k, Seen(v), E, p, new)
      PROVE  Sound(k, E)
  <2>1. Sound(k, Seen(v))
    BY <1>1 DEF Stands
  <2>2. \A q \in Places(k) : /\ q # p => EntryAt(Seen(v), q).name # n
                             /\ Before(q, p) => EntryAt(Seen(v), q).name # Free
    BY <1>1, <2>1, ParamAssumption DEF Sound, Entered, Free
  <2> QED
    BY <1>1, <1>2, <1>3, <2>1, <2>2, EntrySound
<1>4. /\ Stands(k, e) /\ Sets(k, Seen(v), Seen(e), p, new) /\ e.f = v.f /\ e.pos = p
      /\ e.res = v.res /\ Here(e) = new
  BY <1>1, <1>3, SetHereSets
<1>5. w = IF old.clu = 0 THEN e
          ELSE Then(RemoveChain(e, old.clu, 0),
                    LAMBDA r : [MoveWindow(r, Clu(p[1])) EXCEPT !.last = old.clu - 1])
  BY DEF Overwrite, old, new
<1> HIDE DEF e
<1>6. EntryAt(Seen(e), p) = new
  BY <1>1, <1>4 DEF Sets
<1>7. CASE old.clu = 0
  BY <1>1, <1>2, <1>4, <1>5, <1>6, <1>7
<1>8. CASE old.clu # 0
  <2> DEFINE r == RemoveChain(e, old.clu, 0)
             m == MoveWindow(r, Clu(p[1]))
             x == [m EXCEPT !.last = old.clu - 1]
  <2>1. Removable(k, e, old.clu)
    BY <1>1, <1>2, <1>4, <1>8, Disowned DEF Removable, Stands
  <2>2. Frees(k, e, r)
    BY <1>4, <2>1, RemoveChainFrees
  <2>3. w = IF Ok(r) THEN x ELSE r
    BY <1>5, <1>8 DEF Then
  <2> HIDE DEF r
  <2>4. CASE ~ Ok(r)
    BY <1>4, <2>2, <2>3, <2>4 DEF Frees
  <2>5. CASE Ok(r)
    <3>1. Keeps(k, r, m) /\ (Ok(m) => m.at = Clu(p[1]))
      BY <1>1, <2>2, MoveWindowKeeps, PlaceIs DEF Frees
    <3> HIDE DEF m
    <3>2. /\ IsFs(x) /\ x.disk = m.disk /\ x.win = m.win /\ x.at = m.at /\ x.wflag = m.wflag
          /\ x.f = m.f /\ x.pos = m.pos /\ x.res = m.res
      BY <3>1 DEF Keeps, Stands, IsFs, Fields
    <3> HIDE DEF x
    <3>3. Stands(k, x) /\ Seen(x) = Seen(m)
      BY <3>1, <3>2, KeepsRest DEF Keeps
    <3>4. x.f = v.f /\ x.pos = p
      BY <1>4, <2>2, <3>1, <3>2 DEF Frees, Keeps
    <3>5. EntryAt(Seen(x), p) = new
      BY <1>1, <1>6, <2>2, <3>1, <3>3, SameHolds DEF Frees, Keeps
    <3>6. Ok(x) => Here(x) = EntryAt(Seen(x), p)
      <4>1. Ok(x) => m.win = Seen(m)[Clu(p[1])]
        BY <1>1, <3>1, <3>2, WindowHolds, PlaceIs DEF Ok
      <4> QED
        BY <3>2, <3>3, <3>4, <4>1 DEF Here, EntryAt
    <3> QED
      BY <1>1, <1>2, <2>3, <2>5, <3>3, <3>4, <3>5, <3>6
  <2> QED
    BY <2>4, <2>5
<1> QED
  BY <1>7, <1>8

\* The file object of an entry that the walk has found or made.
LEMMA FileObjectIn ==
  ASSUME NEW k \in 1 .. NFat - 2, NEW v, Stands(k, v), v.pos \in Places(k),
         Here(v) = EntryAt(Seen(v), v.pos), Here(v).name \in Names, NEW create \in BOOLEAN
  PROVE  FileIn(k, Seen(v), FileObject(v, create))
<1> DEFINE f == FileObject(v, create)
           p == v.pos
<1>1. /\ DOMAIN f = FileFields /\ f.open = TRUE /\ f.dirty \in BOOLEAN /\ f.dir = p
      /\ f.sclust = EntryAt(Seen(v), p).clu /\ f.size = EntryAt(Seen(v), p).size
      /\ f.fptr = 0 /\ f.clust = 0 /\ f.sect = Nowhere
  BY DEF FileObject, FileFields
<1> HIDE DEF f
<1>2. Entered(k, Seen(v)) /\ Owned(k, Seen(v))
  BY DEF Stands, Sound
<1>3. f.size \in Nat /\ (f.size # 0 => f.sclust # 0)
  BY <1>1, <1>2 DEF Entered
<1>4. f.sclust # 0 => Loose(k, Seen(v), f.sclust, p) /\ Link(Seen(v), f.sclust) # 0
  BY <1>1, <1>2 DEF Owned, Owns
<1>5. 0 \notin Directory(k) /\ Nowhere \notin Tables(k) \cup {Info}
  BY SectorFacts DEF Info, Nowhere
<1>6. f.dir \in Places(k) /\ EntryAt(Seen(v), f.dir).name \in Names
  BY <1>1
<1>7. f.clust \notin Directory(k) /\ f.sect \notin Tables(k) \cup {Info}
  BY <1>1, <1>5
<1>8. FileIn(k, Seen(v), f)
  BY <1>1, <1>3, <1>4, <1>6, <1>7 DEF FileIn
<1> QED
  BY <1>8 DEF f

\* f_open()
LEMMA OpenStands ==
  ASSUME NEW k \in 1 .. NFat - 2, Room(k), NEW v, Stands(k, v), Ok(v), v.f = Closed,
         NEW n \in Names, NEW create \in BOOLEAN
  PROVE  LET w == Open(v, n, create) IN Stands(k, w) /\ FileStands(k, w)
<1> DEFINE d == DirFind(v, n)
           c == IF create THEN IF d.res = "nofile" THEN DirRegister(Fail(d, "ok"), n)
                               ELSE Then(d, Overwrite)
                ELSE d
           w == Open(v, n, create)
<1>1. w = Then(c, LAMBDA x : [x EXCEPT !.f = FileObject(x, create)])
  BY DEF Open
<1>2. Found(k, v, {n}, d)
  BY DirFindFinds
<1>3. /\ Stands(k, c) /\ c.f = v.f
      /\ Ok(c) => /\ c.pos \in Places(k) /\ EntryAt(Seen(c), c.pos).name = n
                  /\ Here(c) = EntryAt(Seen(c), c.pos)
  <2> HIDE DEF d
  <2>1. CASE create /\ d.res = "nofile"
    <3> DEFINE e == Fail(d, "ok")
    <3>1. Keeps(k, d, e) /\ Ok(e)
      BY <1>2, FailKeeps DEF Found, Preserves, Ok
    <3>2. NoneIn(k, Seen(e), {n})
      <4>1. \A p \in Places(k) : EntryAt(Seen(e), p) = EntryAt(Seen(v), p)
        BY <1>2, <3>1, SameHolds DEF Found, Preserves, Keeps
      <4> QED
        BY <1>2, <2>1, <4>1 DEF Found, NoneIn
    <3> HIDE DEF e
    <3>3. c = DirRegister(e, n)
      BY <2>1 DEF e
    <3>4. e.f = v.f /\ Stands(k, e)
      BY <1>2, <3>1 DEF Found, Preserves, Keeps
    <3> HIDE DEF c
    <3> QED
      BY <3>1, <3>2, <3>3, <3>4, DirRegisterStands
  <2>2. CASE Ok(d)
    <3>1. \A p \in Places(k) : EntryAt(Seen(d), p) = EntryAt(Seen(v), p)
      BY <1>2, SameHolds DEF Found, Preserves
    <3>2. d.f = v.f
      BY <1>2 DEF Found, Preserves
    <3>3. CASE create
      <4>1. c = Overwrite(d)
        BY <2>2, <3>3 DEF Then, Ok
      <4> HIDE DEF c
      <4> QED
        BY <1>2, <2>2, <3>2, <4>1, OverwriteStands
    <3>4. CASE ~ create
      BY <1>2, <2>2, <3>1, <3>2, <3>4 DEF Found, Preserves
    <3> QED
      BY <3>3, <3>4
  <2>3. CASE ~ Ok(d) /\ ~ (create /\ d.res = "nofile")
    <3>1. c = d
      BY <2>3 DEF Then
    <3> QED
      BY <1>2, <2>3, <3>1 DEF Found, Preserves
  <2> QED
    BY <2>1, <2>2, <2>3
<1> HIDE DEF c, d, w
<1>4. CASE ~ Ok(c)
  BY <1>1, <1>3, <1>4 DEF Then, FileStands, w
<1>5. CASE Ok(c)
  <2> DEFINE x == [c EXCEPT !.f = FileObject(c, create)]
  <2>1. w = x
    BY <1>1, <1>5 DEF Then
  <2>2. /\ IsFs(x) /\ x.disk = c.disk /\ x.win = c.win /\ x.at = c.at /\ x.wflag = c.wflag
        /\ x.f = FileObject(c, create)
    BY <1>3 DEF Stands, IsFs, Fields
  <2> HIDE DEF x
  <2>3. Stands(k, x) /\ Seen(x) = Seen(c)
    BY <1>3, <2>2, KeepsRest
  <2>4. FileIn(k, Seen(c), FileObject(c, create))
    BY <1>3, <1>5, FileObjectIn
  <2> QED
    BY <2>1, <2>2, <2>3, <2>4 DEF FileStands, w
<1> QED
  BY <1>4, <1>5

\* dir_remove() of the entry that the walk has found
LEMMA DirRemoveStands ==
  ASSUME NEW k \in 1 .. NFat - 2, NEW u, NEW v, NEW n \in Names, Found(k, u, {n}, v), Ok(v)
  PROVE  LET w == DirRemove(v, v.pos)
             c == Here(v).clu
         IN /\ Stands(k, w) /\ w.f = v.f
            /\ c # 0 => Removable(k, w, c)
<1> DEFINE old == Here(v)
           p == v.pos
           a == [v EXCEPT !.pos = p]
           e == [old EXCEPT !.name = Deleted]
           w == DirRemove(v, p)
<1>1. /\ Stands(k, v) /\ p \in Places(k) /\ v.at = Clu(p[1])
      /\ EntryAt(Seen(v), p) = old /\ old.name = n
  <2>1. \A q \in Places(k) : EntryAt(Seen(v), q) = EntryAt(Seen(u), q)
    BY SameHolds DEF Found, Preserves
  <2> QED
    BY <2>1 DEF Found, Preserves
<1>2. Preserves(k, v, a) /\ a.pos = p /\ a.res = v.res /\ a.at = v.at /\ a.win = v.win
  <2> HIDE DEF p
  <2> QED
    BY <1>1, SetPos
<1>3. w = SetHere(a, [Here(a) EXCEPT !.name = Deleted])
  BY <1>1, <1>2 DEF DirRemove, Then, Ok, MoveWindow
<1> HIDE DEF a
<1>4. Here(a) = old
  BY <1>2 DEF Here
<1> HIDE DEF w, old
<1>5. Stands(k, a) /\ a.f = v.f /\ \A q \in Places(k) : EntryAt(Seen(a), q) = EntryAt(Seen(v), q)
  BY <1>2, SameHolds DEF Preserves
<1>6. DOMAIN e = {"name", "clu", "size"} /\ e.name = Deleted /\ e.size \in Nat
  BY <1>1 DEF Stands, Sound, Entered
<1> HIDE DEF e
<1>7. ASSUME NEW E, Shaped(k, E), Sets(k, Seen(a), E, p, e)
      PROVE  Sound(k, E)
  <2>1. EntryAt(Seen(a), p).name \in Names
    BY <1>1, <1>5
  <2> QED
    BY <1>1, <1>5, <1>6, <1>7, <2>1, DeleteSound DEF Stands
<1>8. LET x == SetHere(a, e)
      IN Stands(k, x) /\ Sets(k, Seen(a), Seen(x), p, e) /\ x.f = a.f
  BY <1>1, <1>2, <1>5, <1>7, SetHereSets
<1>9. w = SetHere(a, e)
  BY <1>3, <1>4 DEF e
<1>10. old.clu # 0 => Removable(k, w, old.clu)
  <2>1. EntryAt(Seen(a), p) = old /\ e.name \notin Names
    BY <1>1, <1>5, <1>6, ParamAssumption DEF Deleted
  <2> QED
    BY <1>1, <1>5, <1>8, <1>9, <2>1, Disowned DEF Removable, Stands
<1> QED
  BY <1>5, <1>8, <1>9, <1>10 DEF w, old

\* f_unlink()
LEMMA UnlinkStands ==
  ASSUME NEW k \in 1 .. NFat - 2, NEW v, Stands(k, v), Ok(v), NEW n \in Names
  PROVE  Stands(k, Unlink(v, n)) /\ Unlink(v, n).f = v.f
<1> DEFINE d == DirFind(v, n)
           r == DirRemove(d, d.pos)
           c == Here(d).clu
           t == IF c = 0 THEN r ELSE RemoveChain(r, c, 0)
           w == Unlink(v, n)
<1>1. Found(k, v, {n}, d)
  BY DirFindFinds
<1>2. w = IF ~ Ok(d) THEN d ELSE IF ~ Ok(r) THEN r ELSE IF ~ Ok(t) THEN t ELSE SyncFs(t)
  BY DEF Unlink, Then
<1> HIDE DEF d, w
<1>3. CASE ~ Ok(d)
  BY <1>1, <1>2, <1>3 DEF Found, Preserves, w
<1>4. CASE Ok(d)
  <2>1. Stands(k, r) /\ r.f = v.f /\ (c # 0 => Removable(k, r, c))
    BY <1>1, <1>4, DirRemoveStands DEF Found, Preserves
  <2> HIDE DEF r, c
  <2>2. Stands(k, t) /\ t.f = v.f
    <3>1. CASE c = 0
      BY <2>1, <3>1
    <3>2. CASE c # 0
      BY <2>1, <3>2, RemoveChainFrees DEF Frees
    <3> QED
      BY <3>1, <3>2
  <2> HIDE DEF t
  <2>3. Stands(k, SyncFs(t)) /\ SyncFs(t).f = v.f
    BY <2>2, SyncFsKeeps DEF Keeps
  <2> QED
    BY <1>2, <1>4, <2>1, <2>2, <2>3 DEF w
<1> QED
  BY <1>3, <1>4

\* f_lseek() along a chain in rounds,
LEMMA FollowRounds ==
  ASSUME NEW v, NEW c, NEW k \in Nat
  PROVE  \E g : /\ g[0] = [v EXCEPT !.val = c]
                /\ Follow(v, c, k) = g[k]
                /\ \A j \in 1 .. k : g[j] = FollowNext(g[j - 1])
<1> DEFINE n == k
           start == [v EXCEPT !.val = c]
<1>1. n \in Nat
  BY DEF n
<1>2. Follow(v, c, k) = LET after[j \in 0 .. n] == IF j = 0 THEN start ELSE FollowNext(after[j - 1])
      IN after[n]
  BY DEF Follow, Repeat
<1> HIDE DEF n, start
<1> USE <1>1
<1> DEFINE Is(m, g) == g[0] = start /\ \A j \in 1 .. m : g[j] = FollowNext(g[j - 1])
           S == {m \in 0 .. n : \E g : Is(m, g)}
           Full(g) == g = [j \in 0 .. n |-> IF j = 0 THEN start ELSE FollowNext(g[j - 1])]
<1>3. 0 \in S
  <2>1. Is(0, [j \in 0 .. 0 |-> start])
    OBVIOUS
  <2> HIDE DEF Is
  <2> QED
    BY <2>1
<1>4. ASSUME NEW j \in 1 .. n, j - 1 \in S
      PROVE  j \in S
  <2>1. PICK g : Is(j - 1, g)
    BY <1>4
  <2> DEFINE h == [i \in 0 .. j |-> IF i = j THEN FollowNext(g[j - 1]) ELSE g[i]]
  <2>2. Is(j, h)
    BY <2>1
  <2> HIDE DEF h, Is
  <2> QED
    BY <2>2
<1>5. \E g : Is(n, g)
  <2> HIDE DEF S
  <2>1. n \in S
    BY <1>3, <1>4, Induction
  <2> QED
    BY <2>1 DEF S
<1>6. PICK g : Is(n, g)
  BY <1>5
<1>7. Full([j \in 0 .. n |-> g[j]])
  BY <1>6
<1> DEFINE after == CHOOSE h : Full(h)
<1>8. Full(after)
  <2> HIDE DEF Full
  <2> QED
    BY <1>7
<1>9. Follow(v, c, k) = after[n]
  BY <1>2
<1> HIDE DEF after
<1>10. Is(n, after)
  BY <1>8
<1> QED
  BY <1>9, <1>10 DEF n, start

\* ... f_read(),
LEMMA ReadRounds ==
  ASSUME NEW v, NEW k \in Nat
  PROVE  \E g : /\ g[0] = [fs |-> v, left |-> k, data |-> <<>>]
                /\ Read(v, k) = Then(g[k].fs, LAMBDA w : [w EXCEPT !.val = g[k].data])
                /\ \A j \in 1 .. k : g[j] = ReadNext(g[j - 1])
<1> DEFINE n == k
           start == [fs |-> v, left |-> k, data |-> <<>>]
<1>1. n \in Nat
  BY DEF n
<1>2. Read(v, k) = LET after[j \in 0 .. n] == IF j = 0 THEN start ELSE ReadNext(after[j - 1])
      IN Then(after[n].fs, LAMBDA w : [w EXCEPT !.val = after[n].data])
  BY DEF Read, Repeat
<1> HIDE DEF n, start
<1> USE <1>1
<1> DEFINE Is(m, g) == g[0] = start /\ \A j \in 1 .. m : g[j] = ReadNext(g[j - 1])
           S == {m \in 0 .. n : \E g : Is(m, g)}
           Full(g) == g = [j \in 0 .. n |-> IF j = 0 THEN start ELSE ReadNext(g[j - 1])]
<1>3. 0 \in S
  <2>1. Is(0, [j \in 0 .. 0 |-> start])
    OBVIOUS
  <2> HIDE DEF Is
  <2> QED
    BY <2>1
<1>4. ASSUME NEW j \in 1 .. n, j - 1 \in S
      PROVE  j \in S
  <2>1. PICK g : Is(j - 1, g)
    BY <1>4
  <2> DEFINE h == [i \in 0 .. j |-> IF i = j THEN ReadNext(g[j - 1]) ELSE g[i]]
  <2>2. Is(j, h)
    BY <2>1
  <2> HIDE DEF h, Is
  <2> QED
    BY <2>2
<1>5. \E g : Is(n, g)
  <2> HIDE DEF S
  <2>1. n \in S
    BY <1>3, <1>4, Induction
  <2> QED
    BY <2>1 DEF S
<1>6. PICK g : Is(n, g)
  BY <1>5
<1>7. Full([j \in 0 .. n |-> g[j]])
  BY <1>6
<1> DEFINE after == CHOOSE h : Full(h)
<1>8. Full(after)
  <2> HIDE DEF Full
  <2> QED
    BY <1>7
<1>9. Read(v, k) = Then(after[n].fs, LAMBDA w : [w EXCEPT !.val = after[n].data])
  BY <1>2
<1> HIDE DEF after
<1>10. Is(n, after)
  BY <1>8
<1> QED
  BY <1>9, <1>10 DEF n, start

\* ... f_write(),
LEMMA WriteRounds ==
  ASSUME NEW v, NEW k \in Nat, NEW x
  PROVE  \E g : /\ g[0] = [fs |-> v, left |-> k]
                /\ Write(v, k, x) = Then(g[k].fs, LAMBDA w : [w EXCEPT !.f.modified = TRUE])
                /\ \A j \in 1 .. k : g[j] = WriteNext(g[j - 1], x)
<1> DEFINE n == k
           start == [fs |-> v, left |-> k]
<1>1. n \in Nat
  BY DEF n
<1>2. Write(v, k, x) = LET after[j \in 0 .. n] == IF j = 0 THEN start ELSE WriteNext(after[j - 1], x)
      IN Then(after[n].fs, LAMBDA w : [w EXCEPT !.f.modified = TRUE])
  BY DEF Write, Repeat
<1> HIDE DEF n, start
<1> USE <1>1
<1> DEFINE Is(m, g) == g[0] = start /\ \A j \in 1 .. m : g[j] = WriteNext(g[j - 1], x)
           S == {m \in 0 .. n : \E g : Is(m, g)}
           Full(g) == g = [j \in 0 .. n |-> IF j = 0 THEN start ELSE WriteNext(g[j - 1], x)]
<1>3. 0 \in S
  <2>1. Is(0, [j \in 0 .. 0 |-> start])
    OBVIOUS
  <2> HIDE DEF Is
  <2> QED
    BY <2>1
<1>4. ASSUME NEW j \in 1 .. n, j - 1 \in S
      PROVE  j \in S
  <2>1. PICK g : Is(j - 1, g)
    BY <1>4
  <2> DEFINE h == [i \in 0 .. j |-> IF i = j THEN WriteNext(g[j - 1], x) ELSE g[i]]
  <2>2. Is(j, h)
    BY <2>1
  <2> HIDE DEF h, Is
  <2> QED
    BY <2>2
<1>5. \E g : Is(n, g)
  <2> HIDE DEF S
  <2>1. n \in S
    BY <1>3, <1>4, Induction
  <2> QED
    BY <2>1 DEF S
<1>6. PICK g : Is(n, g)
  BY <1>5
<1>7. Full([j \in 0 .. n |-> g[j]])
  BY <1>6
<1> DEFINE after == CHOOSE h : Full(h)
<1>8. Full(after)
  <2> HIDE DEF Full
  <2> QED
    BY <1>7
<1>9. Write(v, k, x) = Then(after[n].fs, LAMBDA w : [w EXCEPT !.f.modified = TRUE])
  BY <1>2
<1> HIDE DEF after
<1>10. Is(n, after)
  BY <1>8
<1> QED
  BY <1>9, <1>10 DEF n, start

\* ... and f_getfree().
LEMMA CountRounds ==
  ASSUME NEW v
  PROVE  \E g : /\ g[0] = [fs |-> v, c |-> Root, free |-> 0]
                /\ GetFree(v) = IF v.free <= NFat - 2 THEN v ELSE Then(g[(NFat - 2)].fs, LAMBDA w : [w EXCEPT !.free = g[(NFat - 2)].free, !.fsi = TRUE])
                /\ \A j \in 1 .. (NFat - 2) : g[j] = CountNext(g[j - 1])
<1> DEFINE n == (NFat - 2)
           start == [fs |-> v, c |-> Root, free |-> 0]
<1>1. n \in Nat
  BY ParamAssumption
<1>2. GetFree(v) = LET after[j \in 0 .. n] == IF j = 0 THEN start ELSE CountNext(after[j - 1])
      IN IF v.free <= NFat - 2 THEN v ELSE Then(after[n].fs, LAMBDA w : [w EXCEPT !.free = after[n].free, !.fsi = TRUE])
  BY DEF GetFree, Repeat
<1> HIDE DEF n, start
<1> USE <1>1
<1> DEFINE Is(m, g) == g[0] = start /\ \A j \in 1 .. m : g[j] = CountNext(g[j - 1])
           S == {m \in 0 .. n : \E g : Is(m, g)}
           Full(g) == g = [j \in 0 .. n |-> IF j = 0 THEN start ELSE CountNext(g[j - 1])]
<1>3. 0 \in S
  <2>1. Is(0, [j \in 0 .. 0 |-> start])
    OBVIOUS
  <2> HIDE DEF Is
  <2> QED
    BY <2>1
<1>4. ASSUME NEW j \in 1 .. n, j - 1 \in S
      PROVE  j \in S
  <2>1. PICK g : Is(j - 1, g)
    BY <1>4
  <2> DEFINE h == [i \in 0 .. j |-> IF i = j THEN CountNext(g[j - 1]) ELSE g[i]]
  <2>2. Is(j, h)
    BY <2>1
  <2> HIDE DEF h, Is
  <2> QED
    BY <2>2
<1>5. \E g : Is(n, g)
  <2> HIDE DEF S
  <2>1. n \in S
    BY <1>3, <1>4, Induction
  <2> QED
    BY <2>1 DEF S
<1>6. PICK g : Is(n, g)
  BY <1>5
<1>7. Full([j \in 0 .. n |-> g[j]])
  BY <1>6
<1> DEFINE after == CHOOSE h : Full(h)
<1>8. Full(after)
  <2> HIDE DEF Full
  <2> QED
    BY <1>7
<1>9. GetFree(v) = IF v.free <= NFat - 2 THEN v ELSE Then(after[n].fs, LAMBDA w : [w EXCEPT !.free = after[n].free, !.fsi = TRUE])
  BY <1>2
<1> HIDE DEF after
<1>10. Is(n, after)
  BY <1>8
<1> QED
  BY <1>9, <1>10 DEF n, start

-----------------------------------------------------------------------------
(* The mount, the end of a call, and the free count *)

\* An access keeps the card.
LEMMA AccessKeeps ==
  ASSUME NEW k \in 1 .. NFat - 2, NEW v, Stands(k, v)
  PROVE  Keeps(k, v, Access(v)) /\ Access(v).val = v.val /\ Access(v).res \in {v.res, "disk"}
BY OfAccess, KeepsRest DEF Keeps, Stands

\* The window is forgotten.
LEMMA Forgets ==
  ASSUME NEW k \in 1 .. NFat - 2, NEW v, Stands(k, v), NEW w, IsFs(w), w.disk = v.disk,
         w.wflag = FALSE, w.at = Nowhere
  PROVE  Stands(k, w)
<1>1. Seen(w) = v.disk
  BY DEF Seen
<1>2. InWindow(k, w)
  BY SectorFacts DEF InWindow
<1> QED
  BY <1>1, <1>2 DEF Stands

\* f_mount()
LEMMA MountStands ==
  ASSUME NEW k \in 1 .. NFat - 2, NEW v, Stands(k, v)
  PROVE  Stands(k, Mount(v)) /\ Mount(v).f = Closed
<1> DEFINE a == [v EXCEPT !.type = FALSE, !.f = Closed, !.wflag = FALSE, !.at = Nowhere,
                          !.free = Unknown, !.last = Unknown, !.fsi = FALSE, !.nofsi = TRUE]
           b == Access(Access(a))
           m == MoveWindow(b, Info)
           i == [m EXCEPT !.type = TRUE, !.nofsi = FALSE, !.free = m.win.free, !.last = m.win.last]
           j == [m EXCEPT !.res = "ok", !.type = TRUE]
<1>1. Stands(k, a) /\ a.f = Closed
  <2>1. IsFs(a) /\ a.disk = v.disk /\ a.wflag = FALSE /\ a.at = Nowhere /\ a.f = Closed
    BY DEF Stands, IsFs, Fields
  <2> HIDE DEF a
  <2> QED
    BY <2>1, Forgets
<1>2. Mount(v) = IF Ok(b) THEN IF Ok(m) THEN i ELSE j ELSE b
  BY DEF Mount, Then, Either
<1> HIDE DEF a
<1>3. Stands(k, b) /\ b.f = Closed
  <2>1. Keeps(k, a, Access(a))
    BY <1>1, AccessKeeps
  <2>2. Keeps(k, Access(a), b)
    BY <2>1, AccessKeeps DEF Keeps
  <2> QED
    BY <1>1, <2>1, <2>2 DEF Keeps
<1> HIDE DEF b
<1>4. Stands(k, m) /\ m.f = Closed
  BY <1>3, MoveWindowKeeps DEF Keeps
<1> HIDE DEF m
<1>5. /\ IsFs(i) /\ i.disk = m.disk /\ i.win = m.win /\ i.at = m.at /\ i.wflag = m.wflag /\ i.f = m.f
      /\ IsFs(j) /\ j.disk = m.disk /\ j.win = m.win /\ j.at = m.at /\ j.wflag = m.wflag /\ j.f = m.f
  BY <1>4 DEF Stands, IsFs, Fields
<1> HIDE DEF i, j
<1>6. Stands(k, i) /\ Stands(k, j)
  BY <1>4, <1>5, KeepsRest
<1> QED
  BY <1>2, <1>3, <1>4, <1>5, <1>6

\* The power goes off, or the volume is unmounted.
LEMMA LostStands ==
  ASSUME NEW k \in 1 .. NFat - 2, NEW v, Stands(k, v)
  PROVE  Stands(k, Lost(v)) /\ Lost(v).f = Closed
<1> DEFINE w == Lost(v)
<1>1. IsFs(w) /\ w.disk = v.disk /\ w.wflag = FALSE /\ w.at = Nowhere /\ w.f = Closed
  BY DEF Lost, Stands, IsFs, Fields
<1> HIDE DEF w
<1>2. Stands(k, w) /\ w.f = Closed
  BY <1>1, Forgets
<1> QED
  BY <1>2 DEF w

\* A call begins, and ends.
LEMMA SettledStands ==
  ASSUME NEW k \in 1 .. NFat - 2, NEW v, Stands(k, v), FileStands(k, v)
  PROVE  Stands(k, Settled(v)) /\ FileStands(k, Settled(v)) /\ Settled(v).f = v.f
<1> DEFINE w == Settled(v)
<1>1. /\ IsFs(w) /\ w.disk = v.disk /\ w.win = v.win /\ w.at = v.at /\ w.wflag = v.wflag
      /\ w.f = v.f
  BY DEF Settled, Plenty, Stands, IsFs, Fields
<1> HIDE DEF w
<1>2. Stands(k, w) /\ Seen(w) = Seen(v)
  BY <1>1, KeepsRest
<1>3. FileStands(k, w)
  BY <1>1, <1>2 DEF FileStands
<1> QED
  BY <1>1, <1>2, <1>3 DEF w

\* A call begins as the one before has ended.
LEMMA FueledStands ==
  ASSUME NEW k \in 1 .. NFat - 2, VolumeInv(k), Ok(fs), NEW n \in Int
  PROVE  /\ Stands(k, Fueled(n)) /\ FileStands(k, Fueled(n)) /\ Ok(Fueled(n))
         /\ Fueled(n).f = fs.f
<1> DEFINE w == Fueled(n)
<1>1. /\ IsFs(w) /\ w.disk = fs.disk /\ w.win = fs.win /\ w.at = fs.at /\ w.wflag = fs.wflag
      /\ w.f = fs.f /\ w.res = fs.res
  BY DEF Fueled, VolumeInv, Stands, IsFs, Fields
<1> HIDE DEF w
<1>2. Stands(k, w) /\ Seen(w) = Seen(fs)
  BY <1>1, KeepsRest DEF VolumeInv
<1>3. FileStands(k, w) /\ Ok(w)
  BY <1>1, <1>2 DEF VolumeInv, FileStands, Ok
<1> QED
  BY <1>1, <1>2, <1>3 DEF w

\* The free clusters are counted, j of them so far.
Counting(k, v, s, j) ==
    DOMAIN s = {"fs", "c", "free"} /\ Keeps(k, v, s.fs) /\ (Ok(s.fs) => s.c = Root + j)

\* A round of f_getfree() looks at one entry of the FAT.
LEMMA CountNextCounts ==
  ASSUME NEW k \in 1 .. NFat - 2, NEW v, NEW j \in 1 .. NFat - 2, NEW s, Counting(k, v, s, j - 1)
  PROVE  Counting(k, v, CountNext(s), j)
<1> DEFINE w == MoveWindow(s.fs, Fat(s.c))
<1>1. CASE ~ Ok(s.fs)
  BY <1>1 DEF CountNext, Counting
<1>2. CASE Ok(s.fs)
  <2>1. s.c = Root + (j - 1) /\ s.c \in Clusters /\ s.c + 1 = Root + j
    BY <1>2, ParamAssumption DEF Counting, Clusters, Root
  <2>2. Keeps(k, s.fs, w)
    BY <2>1, MoveWindowKeeps, SectorFacts DEF Counting, Keeps
  <2>3. /\ CountNext(s).fs = w /\ CountNext(s).c = s.c + 1
        /\ DOMAIN CountNext(s) = {"fs", "c", "free"}
    BY <1>2 DEF CountNext
  <2> HIDE DEF w
  <2>4. Keeps(k, v, w)
    BY <2>2, KeepsOn DEF Counting
  <2> QED
    BY <2>1, <2>3, <2>4 DEF Counting
<1> QED
  BY <1>1, <1>2

\* f_getfree()
LEMMA GetFreeKeeps ==
  ASSUME NEW k \in 1 .. NFat - 2, NEW v, Stands(k, v)
  PROVE  Keeps(k, v, GetFree(v))
<1> DEFINE N == NFat - 2
<1>1. N \in Nat
  BY ParamAssumption
<1>2. PICK g : /\ g[0] = [fs |-> v, c |-> Root, free |-> 0]
               /\ GetFree(v) = IF v.free <= NFat - 2 THEN v
                               ELSE Then(g[(NFat - 2)].fs,
                                         LAMBDA w : [w EXCEPT !.free = g[(NFat - 2)].free, !.fsi = TRUE])
               /\ \A j \in 1 .. (NFat - 2) : g[j] = CountNext(g[j - 1])
  BY CountRounds
<1> DEFINE S == {j \in 0 .. N : Counting(k, v, g[j], j)}
<1>3. 0 \in S
  BY <1>1, <1>2, KeepsItself DEF Counting, Root
<1>4. ASSUME NEW j \in 1 .. N, j - 1 \in S
      PROVE  j \in S
  BY <1>2, <1>4, CountNextCounts
<1>5. N \in S
  <2> HIDE DEF S, N
  <2> QED
    BY <1>1, <1>3, <1>4, Induction
<1> DEFINE u == g[NFat - 2].fs
           x == [u EXCEPT !.free = g[NFat - 2].free, !.fsi = TRUE]
<1>6. Keeps(k, v, u)
  BY <1>5 DEF Counting
<1>7. GetFree(v) \in {v, u, x}
  BY <1>2 DEF Then
<1> HIDE DEF u
<1>8. /\ IsFs(x) /\ x.disk = u.disk /\ x.win = u.win /\ x.at = u.at /\ x.wflag = u.wflag
      /\ x.f = u.f /\ x.pos = u.pos
  BY <1>6 DEF Keeps, Stands, IsFs, Fields
<1> HIDE DEF x
<1>9. Keeps(k, u, x)
  BY <1>6, <1>8, KeepsRest DEF Keeps
<1> QED
  BY <1>6, <1>7, <1>9, KeepsItself, KeepsOn

-----------------------------------------------------------------------------
(* The calls on an open file *)

\* A file is open, and it and the card stand.
Works(k, v) == Stands(k, v) /\ FileIn(k, Seen(v), v.f)

\* Steps that keep the card leave the open file usable,
LEMMA WorksKeeps ==
  ASSUME NEW k \in 1 .. NFat - 2, NEW v, NEW w, Works(k, v), Keeps(k, v, w)
  PROVE  Works(k, w) /\ w.f = v.f
BY SameFile DEF Works, Keeps

\* ... and so do those that extend a chain.
LEMMA WorksExtends ==
  ASSUME NEW k \in 1 .. NFat - 2, NEW v, NEW w, Works(k, v), Extends(k, v, w)
  PROVE  Works(k, w) /\ w.f = v.f
<1>1. FileStands(k, w) /\ Stands(k, w) /\ w.f = v.f
  BY ExtendsFile DEF Works, FileStands, Extends
<1>2. w.f # Closed
  BY <1>1 DEF Works, FileIn, FileFields, Closed
<1> QED
  BY <1>1, <1>2 DEF Works, FileStands

\* A change of the file object only.
LEMMA WorksRest ==
  ASSUME NEW k \in 1 .. NFat - 2, NEW v, NEW w, Works(k, v), IsFs(w), w.disk = v.disk,
         w.win = v.win, w.at = v.at, w.wflag = v.wflag, FileIn(k, Seen(v), w.f)
  PROVE  Works(k, w) /\ SameTables(k, Seen(v), Seen(w)) /\ Seen(w) = Seen(v)
BY KeepsRest DEF Works

\* Only the buffer of the file has changed.
Buffers(k, v, w) ==
    /\ Works(k, w) /\ SameTables(k, Seen(v), Seen(w))
    /\ \A x \in FileFields \ {"dirty", "sect", "buf"} : w.f[x] = v.f[x]

\* Steps that change no more than the file's buffer: none,
LEMMA BuffersItself ==
  ASSUME NEW k, NEW v, Works(k, v)
  PROVE  Buffers(k, v, v)
BY DEF Buffers, SameTables

\* ... two of them,
LEMMA BuffersOn ==
  ASSUME NEW k, NEW v, NEW w, NEW x, Buffers(k, v, w), Buffers(k, w, x)
  PROVE  Buffers(k, v, x)
BY DEF Buffers, SameTables

\* ... those that keep the card.
LEMMA KeepsBuffers ==
  ASSUME NEW k \in 1 .. NFat - 2, NEW v, NEW w, Works(k, v), Keeps(k, v, w)
  PROVE  Buffers(k, v, w)
BY WorksKeeps DEF Buffers, Keeps

\* What the calls do with the file's buffer.
LEMMA SetBuffer ==
  ASSUME NEW k \in 1 .. NFat - 2, NEW v, Works(k, v), NEW w, IsFs(w), w.disk = v.disk,
         w.win = v.win, w.at = v.at, w.wflag = v.wflag, DOMAIN w.f = FileFields,
         w.f.dirty \in BOOLEAN, w.f.sect \notin Tables(k) \cup {Info},
         \A x \in FileFields \ {"dirty", "sect", "buf"} : w.f[x] = v.f[x]
  PROVE  Buffers(k, v, w)
<1>1. /\ w.f.open = v.f.open /\ w.f.dir = v.f.dir /\ w.f.size = v.f.size /\ w.f.fptr = v.f.fptr
      /\ w.f.sclust = v.f.sclust /\ w.f.clust = v.f.clust
  BY DEF FileFields
<1>2. FileIn(k, Seen(v), w.f)
  BY <1>1 DEF Works, FileIn
<1> QED
  BY <1>2, WorksRest DEF Buffers

\* The buffer is written back to a sector outside the tables,
LEMMA FlushBufferBuffers ==
  ASSUME NEW k \in 1 .. NFat - 2, NEW v, Works(k, v)
  PROVE  Buffers(k, v, FlushBuffer(v)) /\ FlushBuffer(v).val = v.val
<1> DEFINE d == DiskWrite(v, v.f.sect, v.f.buf)
           w == [d EXCEPT !.f.dirty = FALSE]
<1>1. v.f.sect \notin Tables(k)
  BY DEF Works, FileIn
<1>2. Keeps(k, v, d) /\ d.val = v.val
  BY <1>1, DiskWriteKeeps DEF Works
<1>3. FlushBuffer(v) \in {v, d, w}
  BY DEF FlushBuffer, Then
<1> HIDE DEF d
<1>4. Works(k, d) /\ Buffers(k, v, d)
  BY <1>2, WorksKeeps, KeepsBuffers
<1>5. /\ IsFs(w) /\ w.disk = d.disk /\ w.win = d.win /\ w.at = d.at /\ w.wflag = d.wflag
      /\ w.val = d.val /\ w.f = [d.f EXCEPT !.dirty = FALSE]
  BY <1>4 DEF Works, Stands, IsFs, Fields
<1> HIDE DEF w
<1>6. DOMAIN d.f = FileFields /\ d.f.sect \notin Tables(k) \cup {Info}
  BY <1>4 DEF Works, FileIn
<1>7. /\ DOMAIN w.f = FileFields /\ w.f.dirty \in BOOLEAN /\ w.f.sect = d.f.sect
      /\ \A x \in FileFields \ {"dirty", "sect", "buf"} : w.f[x] = d.f[x]
  BY <1>5, <1>6 DEF FileFields
<1>8. Buffers(k, d, w)
  BY <1>4, <1>5, <1>6, <1>7, SetBuffer
<1>9. Buffers(k, v, v)
  BY BuffersItself
<1> QED
  BY <1>2, <1>3, <1>4, <1>5, <1>8, <1>9, BuffersOn

\* ... or filled from one,
LEMMA ReadBufferBuffers ==
  ASSUME NEW k \in 1 .. NFat - 2, NEW v, Works(k, v), NEW s, s \notin Tables(k) \cup {Info}
  PROVE  Buffers(k, v, ReadBuffer(v, s)) /\ ReadBuffer(v, s).val = v.val
<1> DEFINE a == Access(v)
           w == [a EXCEPT !.f.buf = a.disk[s], !.f.sect = s]
<1>1. Keeps(k, v, a) /\ a.val = v.val
  BY AccessKeeps DEF Works
<1>2. ReadBuffer(v, s) \in {a, w}
  BY DEF ReadBuffer, Then
<1> HIDE DEF a
<1>3. Works(k, a) /\ Buffers(k, v, a)
  BY <1>1, WorksKeeps, KeepsBuffers
<1>4. /\ IsFs(w) /\ w.disk = a.disk /\ w.win = a.win /\ w.at = a.at /\ w.wflag = a.wflag
      /\ w.val = a.val /\ w.f = [a.f EXCEPT !.buf = a.disk[s], !.sect = s]
  BY <1>3 DEF Works, Stands, IsFs, Fields
<1> HIDE DEF w
<1>5. DOMAIN a.f = FileFields /\ a.f.dirty \in BOOLEAN
  BY <1>3 DEF Works, FileIn
<1>6. /\ DOMAIN w.f = FileFields /\ w.f.dirty \in BOOLEAN /\ w.f.sect = s
      /\ \A x \in FileFields \ {"dirty", "sect", "buf"} : w.f[x] = a.f[x]
  BY <1>4, <1>5 DEF FileFields
<1>7. Buffers(k, a, w)
  BY <1>3, <1>4, <1>6, SetBuffer
<1> QED
  BY <1>1, <1>2, <1>3, <1>4, <1>7, BuffersOn

\* ... or both.
LEMMA LoadBufferBuffers ==
  ASSUME NEW k \in 1 .. NFat - 2, NEW v, Works(k, v), NEW s, s \notin Tables(k) \cup {Info}
  PROVE  Buffers(k, v, LoadBuffer(v, s))
<1> DEFINE b == FlushBuffer(v)
<1>1. LoadBuffer(v, s) \in {v, b, ReadBuffer(b, s)}
  BY DEF LoadBuffer, Then
<1>2. Buffers(k, v, v)
  BY BuffersItself
<1>3. Buffers(k, v, b)
  BY FlushBufferBuffers
<1> HIDE DEF b
<1>4. Buffers(k, b, ReadBuffer(b, s))
  BY <1>3, ReadBufferBuffers DEF Buffers
<1> QED
  BY <1>1, <1>2, <1>3, <1>4, BuffersOn

\* ABORT()
LEMMA OrAbortWorks ==
  ASSUME NEW k \in 1 .. NFat - 2, NEW v, Works(k, v)
  PROVE  Works(k, OrAbort(v))
<1> DEFINE w == [v EXCEPT !.f.err = v.res]
<1>1. /\ IsFs(w) /\ w.disk = v.disk /\ w.win = v.win /\ w.at = v.at /\ w.wflag = v.wflag
      /\ w.f = [v.f EXCEPT !.err = v.res]
  BY DEF Works, Stands, IsFs, Fields
<1> HIDE DEF w
<1>2. DOMAIN v.f = FileFields
  BY DEF Works, FileIn
<1>3. FileIn(k, Seen(v), w.f)
  <2>1. /\ DOMAIN w.f = FileFields /\ w.f.dirty = v.f.dirty /\ w.f.sect = v.f.sect
        /\ w.f.open = v.f.open /\ w.f.dir = v.f.dir /\ w.f.size = v.f.size /\ w.f.fptr = v.f.fptr
        /\ w.f.sclust = v.f.sclust /\ w.f.clust = v.f.clust
    BY <1>1, <1>2 DEF FileFields
  <2> HIDE DEF FileFields
  <2> QED
    BY <2>1 DEF Works, FileIn
<1>4. Works(k, w)
  BY <1>1, <1>3, WorksRest
<1> QED
  BY <1>4 DEF OrAbort, w

\* The directory's clusters are not the file's.
LEMMA FileOutside ==
  ASSUME NEW k \in 1 .. NFat - 2, NEW v, Works(k, v)
  PROVE  v.f.sclust \notin Directory(k) /\ v.f.clust \notin Directory(k)
<1>1. v.f.sclust # 0 => Loose(k, Seen(v), v.f.sclust, v.f.dir)
  BY DEF Works, FileIn
<1>2. Sound(k, Seen(v))
  BY DEF Works, Stands
<1> QED
  BY <1>1, <1>2, LooseOutside, SectorFacts DEF Works, FileIn

\* A cluster that is not the directory's is in no table.
LEMMA OutsideTables ==
  ASSUME NEW k \in 1 .. NFat - 2, NEW c, c \notin Directory(k)
  PROVE  Clu(c) \notin Tables(k) \cup {Info}
BY SectorFacts

\* Following a chain from outside of the directory, one stays outside.
Follows(k, v, w) == Keeps(k, v, w) /\ w.val \notin Directory(k)

\* The cluster behind one outside the directory is outside the directory,
LEMMA LinkOutside ==
  ASSUME NEW k \in 1 .. NFat - 2, NEW v, Stands(k, v), NEW c, c \notin Directory(k)
  PROVE  Follows(k, v, Checked(GetFat(v, c)))
<1> DEFINE g == GetFat(v, c)
<1>1. /\ Keeps(k, v, g)
      /\ c \in Clusters => g.val = Bad \/ g.val = Link(Seen(v), c)
      /\ c \notin Clusters => g.val = 1
  BY GetFatKeeps
<1> HIDE DEF g
<1>2. g.val \notin Directory(k)
  <2>1. c \in Clusters => Link(Seen(v), c) \notin Directory(k)
    BY LinkLeaves DEF Stands
  <2> QED
    BY <1>1, <2>1, SectorFacts
<1>3. Keeps(k, g, Checked(g)) /\ Checked(g).val = g.val
  BY <1>1, CheckedKeeps DEF Keeps
<1> QED
  BY <1>1, <1>2, <1>3, KeepsOn DEF Follows, g

\* ... and so is the cluster any number of links further.
LEMMA FollowFollows ==
  ASSUME NEW k \in 1 .. NFat - 2, NEW v, Stands(k, v), NEW c, c \notin Directory(k), NEW n \in Nat
  PROVE  Follows(k, v, Follow(v, c, n))
<1>1. PICK g : /\ g[0] = [v EXCEPT !.val = c]
               /\ Follow(v, c, n) = g[n]
               /\ \A j \in 1 .. n : g[j] = FollowNext(g[j - 1])
  BY FollowRounds
<1> DEFINE S == {j \in 0 .. n : Follows(k, v, g[j])}
<1>2. 0 \in S
  <2> DEFINE s == [v EXCEPT !.val = c]
  <2>1. Keeps(k, v, v)
    BY KeepsItself
  <2>2. Keeps(k, v, s) /\ s.val = c
    BY <2>1, SetVal
  <2>3. g[0] = s
    BY <1>1
  <2> HIDE DEF s
  <2> QED
    BY <2>2, <2>3 DEF Follows
<1>3. ASSUME NEW j \in 1 .. n, j - 1 \in S
      PROVE  j \in S
  <2> DEFINE u == g[j - 1]
             w == Checked(GetFat(u, u.val))
  <2>1. Follows(k, v, u)
    BY <1>3
  <2>2. g[j] \in {u, w, Fail(w, "int")}
    BY <1>1 DEF FollowNext, Then
  <2> HIDE DEF u
  <2>3. Follows(k, u, w)
    BY <2>1, LinkOutside DEF Follows, Keeps
  <2> HIDE DEF w
  <2>4. Keeps(k, w, Fail(w, "int")) /\ Fail(w, "int").val = w.val
    BY <2>3, FailKeeps DEF Follows, Keeps
  <2>5. Follows(k, v, w) /\ Follows(k, v, Fail(w, "int"))
    BY <2>1, <2>3, <2>4, KeepsOn DEF Follows
  <2> QED
    BY <2>1, <2>2, <2>5
<1> HIDE DEF S
<1>4. n \in S
  BY <1>2, <1>3, Induction
<1> QED
  BY <1>1, <1>4 DEF S

\* Changes of the file object.
LEMMA SetClust ==
  ASSUME NEW k \in 1 .. NFat - 2, NEW v, Works(k, v), NEW x, x \notin Directory(k)
  PROVE  LET w == [v EXCEPT !.f.clust = x]
         IN /\ Works(k, w) /\ w.f.clust = x /\ w.f.sclust = v.f.sclust /\ w.f.fptr = v.f.fptr
            /\ w.f.size = v.f.size
<1> DEFINE w == [v EXCEPT !.f.clust = x]
<1>1. /\ IsFs(w) /\ w.disk = v.disk /\ w.win = v.win /\ w.at = v.at /\ w.wflag = v.wflag
      /\ w.f = [v.f EXCEPT !.clust = x]
  BY DEF Works, Stands, IsFs, Fields
<1> HIDE DEF w
<1>2. DOMAIN v.f = FileFields
  BY DEF Works, FileIn
<1>3. /\ DOMAIN w.f = FileFields /\ w.f.dirty = v.f.dirty /\ w.f.sect = v.f.sect
      /\ w.f.open = v.f.open /\ w.f.dir = v.f.dir /\ w.f.size = v.f.size /\ w.f.fptr = v.f.fptr
      /\ w.f.sclust = v.f.sclust /\ w.f.clust = x
  BY <1>1, <1>2 DEF FileFields
<1>4. FileIn(k, Seen(v), w.f)
  BY <1>3 DEF Works, FileIn
<1>5. Works(k, w)
  BY <1>1, <1>4, WorksRest
<1> QED
  BY <1>3, <1>5 DEF w

\* The file pointer and the size move, if the file has a cluster;
LEMMA SetPlace ==
  ASSUME NEW k \in 1 .. NFat - 2, NEW v, Works(k, v), NEW n \in Nat, NEW m \in Nat,
         n # 0 \/ m # 0 => v.f.sclust # 0
  PROVE  /\ Works(k, [v EXCEPT !.f.fptr = n])
         /\ Works(k, [v EXCEPT !.f.fptr = n, !.f.size = m])
<1>1. ASSUME NEW w, w = [v EXCEPT !.f.fptr = n] \/ w = [v EXCEPT !.f.fptr = n, !.f.size = m]
      PROVE  Works(k, w)
  <2>1. /\ IsFs(w) /\ w.disk = v.disk /\ w.win = v.win /\ w.at = v.at /\ w.wflag = v.wflag
        /\ \/ w.f = [v.f EXCEPT !.fptr = n]
           \/ w.f = [v.f EXCEPT !.fptr = n, !.size = m]
    BY <1>1 DEF Works, Stands, IsFs, Fields
  <2>2. DOMAIN v.f = FileFields
    BY DEF Works, FileIn
  <2>3. /\ DOMAIN w.f = FileFields /\ w.f.dirty = v.f.dirty /\ w.f.sect = v.f.sect
        /\ w.f.open = v.f.open /\ w.f.dir = v.f.dir /\ w.f.size \in {v.f.size, m} /\ w.f.fptr = n
        /\ w.f.sclust = v.f.sclust /\ w.f.clust = v.f.clust
    BY <2>1, <2>2 DEF FileFields
  <2>4. FileIn(k, Seen(v), w.f)
    BY <2>3 DEF Works, FileIn
  <2> QED
    BY <2>1, <2>4, WorksRest
<1> QED
  BY <1>1

\* ... the content of the buffer changes,
LEMMA SetBuf ==
  ASSUME NEW k \in 1 .. NFat - 2, NEW v, Works(k, v), NEW b, NEW d \in BOOLEAN
  PROVE  Buffers(k, v, [v EXCEPT !.f.buf = b, !.f.dirty = d])
<1> DEFINE w == [v EXCEPT !.f.buf = b, !.f.dirty = d]
<1>1. /\ IsFs(w) /\ w.disk = v.disk /\ w.win = v.win /\ w.at = v.at /\ w.wflag = v.wflag
      /\ w.f = [v.f EXCEPT !.buf = b, !.dirty = d]
  BY DEF Works, Stands, IsFs, Fields
<1> HIDE DEF w
<1>2. DOMAIN v.f = FileFields /\ v.f.sect \notin Tables(k) \cup {Info}
  BY DEF Works, FileIn
<1>3. /\ DOMAIN w.f = FileFields /\ w.f.dirty \in BOOLEAN /\ w.f.sect = v.f.sect
      /\ \A x \in FileFields \ {"dirty", "sect", "buf"} : w.f[x] = v.f[x]
  BY <1>1, <1>2 DEF FileFields
<1>4. Buffers(k, v, w)
  BY <1>1, <1>2, <1>3, SetBuffer
<1> QED
  BY <1>4 DEF w

\* ... or the sector it is of.
LEMMA SetSect ==
  ASSUME NEW k \in 1 .. NFat - 2, NEW v, Works(k, v), NEW s, s \notin Tables(k) \cup {Info}
  PROVE  Buffers(k, v, [v EXCEPT !.f.sect = s])
<1> DEFINE w == [v EXCEPT !.f.sect = s]
<1>1. /\ IsFs(w) /\ w.disk = v.disk /\ w.win = v.win /\ w.at = v.at /\ w.wflag = v.wflag
      /\ w.f = [v.f EXCEPT !.sect = s]
  BY DEF Works, Stands, IsFs, Fields
<1> HIDE DEF w
<1>2. DOMAIN v.f = FileFields /\ v.f.dirty \in BOOLEAN
  BY DEF Works, FileIn
<1>3. /\ DOMAIN w.f = FileFields /\ w.f.dirty \in BOOLEAN /\ w.f.sect = s
      /\ \A x \in FileFields \ {"dirty", "sect", "buf"} : w.f[x] = v.f[x]
  BY <1>1, <1>2 DEF FileFields
<1>4. Buffers(k, v, w)
  BY <1>1, <1>3, SetBuffer
<1> QED
  BY <1>4 DEF w

\* The rest of the file object stays as it is.
LEMMA BuffersSame ==
  ASSUME NEW k, NEW v, NEW w, Buffers(k, v, w)
  PROVE  /\ w.f.sclust = v.f.sclust /\ w.f.clust = v.f.clust /\ w.f.fptr = v.f.fptr
         /\ w.f.size = v.f.size /\ w.f.dir = v.f.dir /\ w.f.name = v.f.name
BY DEF Buffers, FileFields

\* How many units a round takes.
LEMMA Portion ==
  ASSUME NEW p \in Nat, NEW left \in Nat
  PROVE  /\ p % SS \in 0 .. SS - 1 /\ (p = 0 => p % SS = 0)
         /\ Limit(SS - (p % SS), left) \in Nat
         /\ left - Limit(SS - (p % SS), left) \in Nat
<1>1. SS \in Nat /\ SS > 0
  BY ParamAssumption
<1>2. p % SS \in 0 .. SS - 1 /\ (p = 0 => p % SS = 0)
  BY <1>1
<1> DEFINE off == p % SS
<1> HIDE DEF off
<1>3. Limit(SS - off, left) \in Nat /\ left - Limit(SS - off, left) \in Nat
  <2>1. off \in 0 .. SS - 1
    BY <1>2 DEF off
  <2> QED
    BY <1>1, <2>1 DEF Limit
<1> QED
  BY <1>2, <1>3 DEF off

\* The state of f_read() and of f_write() between two rounds.
Reading(k, s) == DOMAIN s = {"fs", "left", "data"} /\ Works(k, s.fs) /\ s.left \in Nat

\* A round of f_read(), in which a new sector may be loaded.
LEMMA ReadNextReads ==
  ASSUME NEW k \in 1 .. NFat - 2, NEW s, Reading(k, s)
  PROVE  Reading(k, ReadNext(s))
<1> DEFINE v == s.fs
           off == v.f.fptr % SS
           n == Limit(SS - off, s.left)
           At(c) == IF c.f.clust \notin Clusters THEN Fail(c, "int")
                    ELSE IF n = SS THEN Access(c) ELSE LoadBuffer(c, Clu(c.f.clust))
           a == [v EXCEPT !.f.clust = v.f.sclust]
           g == Checked(GetFat(v, v.f.clust))
           b == [g EXCEPT !.f.clust = g.val]
           found == IF off # 0 THEN v ELSE IF v.f.fptr = 0 THEN At(a)
                    ELSE IF Ok(g) THEN At(b) ELSE g
           moved == [found EXCEPT !.f.fptr = @ + n]
<1>1. Works(k, v) /\ v.f.fptr \in Nat /\ s.left \in Nat /\ (v.f.fptr # 0 => v.f.sclust # 0)
  BY DEF Reading, Works, FileIn
<1>2. off \in 0 .. SS - 1 /\ n \in Nat /\ s.left - n \in Nat /\ (off # 0 => v.f.fptr # 0)
  BY <1>1, Portion
<1>3. /\ DOMAIN ReadNext(s) = {"fs", "left", "data"}
      /\ \/ ReadNext(s) = s
         \/ ReadNext(s) = [s EXCEPT !.fs = found]
         \/ Ok(found) /\ ReadNext(s).fs = moved /\ ReadNext(s).left = s.left - n
  BY DEF ReadNext, Then, Reading
<1> HIDE DEF n, off
<1>4. ASSUME NEW c, Works(k, c)
      PROVE  Buffers(k, c, At(c)) /\ (Ok(At(c)) => c.f.clust \in Clusters)
  <2>1. CASE c.f.clust \notin Clusters
    <3>1. Keeps(k, c, Fail(c, "int")) /\ Fail(c, "int").res = "int"
      BY <1>4, FailKeeps DEF Works
    <3> QED
      BY <1>4, <2>1, <3>1, KeepsBuffers DEF Ok
  <2>2. CASE c.f.clust \in Clusters
    <3>1. Buffers(k, c, Access(c))
      BY <1>4, AccessKeeps, KeepsBuffers DEF Works
    <3>2. Buffers(k, c, LoadBuffer(c, Clu(c.f.clust)))
      BY <1>4, FileOutside, OutsideTables, LoadBufferBuffers
    <3> QED
      BY <2>2, <3>1, <3>2
  <2> QED
    BY <2>1, <2>2
<1> HIDE DEF At
<1>5. Works(k, found) /\ found.f.fptr = v.f.fptr /\ (Ok(found) => found.f.sclust # 0)
  <2>1. CASE off # 0
    BY <1>1, <1>2, <2>1
  <2>2. CASE off = 0 /\ v.f.fptr = 0
    <3>1. /\ Works(k, a) /\ a.f.clust = v.f.sclust /\ a.f.sclust = v.f.sclust
          /\ a.f.fptr = v.f.fptr
      <4> DEFINE x == v.f.sclust
      <4>1. x \notin Directory(k) /\ a = [v EXCEPT !.f.clust = x]
        BY <1>1, FileOutside
      <4> HIDE DEF x, a
      <4>2. /\ Works(k, a) /\ a.f.clust = x /\ a.f.sclust = v.f.sclust
            /\ a.f.fptr = v.f.fptr
        BY <1>1, <4>1, SetClust
      <4> QED
        BY <4>2 DEF x
    <3>2. found = At(a)
      BY <2>2
    <3> HIDE DEF a, found
    <3>3. Buffers(k, a, At(a)) /\ (Ok(At(a)) => a.f.clust \in Clusters)
      BY <3>1, <1>4
    <3>4. Works(k, At(a)) /\ At(a).f.fptr = v.f.fptr /\ At(a).f.sclust = v.f.sclust
      BY <3>1, <3>3, BuffersSame DEF Buffers
    <3> QED
      BY <3>1, <3>2, <3>3, <3>4, SectorFacts
  <2>3. CASE off = 0 /\ v.f.fptr # 0
    <3>1. Follows(k, v, g)
      BY <1>1, FileOutside, LinkOutside DEF Works
    <3> HIDE DEF g
    <3>2. Works(k, g) /\ g.f = v.f
      BY <1>1, <3>1, WorksKeeps DEF Follows
    <3>3. Works(k, b) /\ b.f.sclust = v.f.sclust /\ b.f.fptr = v.f.fptr
      BY <3>1, <3>2, SetClust DEF Follows
    <3> HIDE DEF b
    <3>4. Works(k, At(b)) /\ At(b).f.fptr = v.f.fptr /\ At(b).f.sclust = v.f.sclust
      BY <1>4, <3>3, BuffersSame DEF Buffers
    <3> QED
      BY <1>1, <2>3, <3>2, <3>4
  <2> QED
    BY <2>1, <2>2, <2>3
<1> HIDE DEF found
<1>6. Ok(found) => Works(k, moved)
  <2> HAVE Ok(found)
  <2>1. moved = [found EXCEPT !.f.fptr = found.f.fptr + n] /\ found.f.fptr + n \in Nat
    BY <1>1, <1>2, <1>5
  <2> HIDE DEF moved
  <2> DEFINE m == found.f.fptr + n
  <2>2. moved = [found EXCEPT !.f.fptr = m] /\ m \in Nat
    BY <2>1
  <2> HIDE DEF m
  <2> QED
    BY <1>5, <2>2, SetPlace
<1> HIDE DEF moved
<1> QED
  BY <1>1, <1>2, <1>3, <1>5, <1>6 DEF Reading

\* f_read()
LEMMA ReadWorks ==
  ASSUME NEW k \in 1 .. NFat - 2, NEW v, Works(k, v), NEW n \in Nat
  PROVE  Works(k, Read(v, n))
<1>1. PICK g : /\ g[0] = [fs |-> v, left |-> n, data |-> <<>>]
               /\ Read(v, n) = Then(g[n].fs, LAMBDA w : [w EXCEPT !.val = g[n].data])
               /\ \A j \in 1 .. n : g[j] = ReadNext(g[j - 1])
  BY ReadRounds
<1> DEFINE S == {j \in 0 .. n : Reading(k, g[j])}
<1>2. 0 \in S
  BY <1>1 DEF Reading
<1>3. ASSUME NEW j \in 1 .. n, j - 1 \in S
      PROVE  j \in S
  BY <1>1, <1>3, ReadNextReads
<1> HIDE DEF S
<1>4. n \in S
  BY <1>2, <1>3, Induction
<1> DEFINE w == g[n].fs
           x == [w EXCEPT !.val = g[n].data]
<1>5. Works(k, w)
  BY <1>4 DEF S, Reading
<1>6. Read(v, n) \in {w, x}
  BY <1>1 DEF Then
<1> HIDE DEF w
<1>7. Keeps(k, w, x)
  BY <1>5, KeepsItself, SetVal DEF Works
<1> HIDE DEF x
<1>8. Works(k, x)
  BY <1>5, <1>7, WorksKeeps
<1> QED
  BY <1>5, <1>6, <1>8

\* The cluster the file is extended by: one that it has, or a new one.
LEMMA ClusterWorks ==
  ASSUME NEW k \in 1 .. NFat - 2, NEW v, Works(k, v), NEW w,
         w = IF v.f.fptr = 0 /\ v.f.sclust # 0 THEN [v EXCEPT !.val = v.f.sclust]
             ELSE Checked(CreateChain(v, IF v.f.fptr = 0 THEN 0 ELSE v.f.clust))
  PROVE  /\ Works(k, w) /\ w.f = v.f
         /\ Ok(w) /\ w.val # 0 =>
               /\ w.val \in Clusters \ Directory(k)
               /\ w.f.sclust = 0 => Loose(k, Seen(w), w.val, NoPlace) /\ Link(Seen(w), w.val) # 0
<1>1. v.f.fptr \in Nat /\ (v.f.fptr # 0 => v.f.sclust # 0)
  BY DEF Works, FileIn
<1>2. CASE v.f.fptr = 0 /\ v.f.sclust # 0
  <2> DEFINE x == v.f.sclust
  <2>1. w = [v EXCEPT !.val = x]
    BY <1>2
  <2>2. x \in Clusters
    BY <1>2 DEF Works, FileIn, Loose
  <2>3. x \notin Directory(k)
    BY FileOutside
  <2>4. Keeps(k, v, w) /\ w.val = x
    <3> HIDE DEF x
    <3>1. Keeps(k, v, v)
      BY KeepsItself DEF Works
    <3>2. Keeps(k, v, [v EXCEPT !.val = x]) /\ [v EXCEPT !.val = x].val = x
      BY <3>1, SetVal
    <3> QED
      BY <2>1, <3>2
  <2> HIDE DEF x
  <2>5. Works(k, w) /\ w.f = v.f
    BY <2>4, WorksKeeps
  <2> QED
    BY <1>2, <2>2, <2>3, <2>4, <2>5
<1>3. CASE ~ (v.f.fptr = 0 /\ v.f.sclust # 0)
  <2> DEFINE c == IF v.f.fptr = 0 THEN 0 ELSE v.f.clust
             n == CreateChain(v, c)
  <2>1. w = Checked(n)
    BY <1>3
  <2>2. c \notin Directory(k)
    BY FileOutside, SectorFacts
  <2>3. v.f.sclust = 0 => c = 0
    BY <1>1
  <2> HIDE DEF c
  <2>4. Extends(k, v, n) /\ New(k, Seen(n), n.val, c)
    BY <2>2, CreateChainExtends DEF Works
  <2> HIDE DEF n
  <2>5. Works(k, n) /\ n.f = v.f
    BY <2>4, WorksExtends
  <2>6. Keeps(k, n, w) /\ w.val = n.val /\ (Ok(w) => n.val # Bad /\ n.val # 1)
    <3>1. Stands(k, n)
      BY <2>5 DEF Works
    <3>2. /\ Keeps(k, n, Checked(n)) /\ Checked(n).val = n.val
          /\ Ok(Checked(n)) => n.val # Bad /\ n.val # 1
      BY <3>1, CheckedKeeps
    <3> QED
      BY <2>1, <3>2
  <2>7. Works(k, w) /\ w.f = v.f
    BY <2>5, <2>6, WorksKeeps
  <2>8. ASSUME Ok(w), w.val # 0
        PROVE  /\ w.val \in Clusters \ Directory(k)
               /\ w.f.sclust = 0 => Loose(k, Seen(w), w.val, NoPlace) /\ Link(Seen(w), w.val) # 0
    <3>1. /\ n.val \in Clusters \ Directory(k)
          /\ c = 0 => Loose(k, Seen(n), n.val, NoPlace) /\ Link(Seen(n), n.val) # 0
      BY <2>4, <2>6, <2>8 DEF New
    <3>2. /\ \A d \in Clusters : Link(Seen(w), d) = Link(Seen(n), d)
          /\ \A p \in Places(k) : EntryAt(Seen(w), p) = EntryAt(Seen(n), p)
      BY <2>6, SameHolds DEF Keeps
    <3>3. Loose(k, Seen(n), n.val, NoPlace) => Loose(k, Seen(w), n.val, NoPlace)
      BY <3>2 DEF Loose, Owns
    <3> QED
      BY <2>3, <2>6, <2>7, <3>1, <3>2, <3>3
  <2> QED
    BY <2>7, <2>8
<1> QED
  BY <1>2, <1>3

\* The file takes the cluster, as its first one if it has none.
LEMMA TakenWorks ==
  ASSUME NEW k \in 1 .. NFat - 2, NEW v, Works(k, v), v.val \in Clusters \ Directory(k),
         v.f.sclust = 0 => Loose(k, Seen(v), v.val, NoPlace) /\ Link(Seen(v), v.val) # 0
  PROVE  LET w == [v EXCEPT !.f.clust = v.val, !.f.sclust = IF @ = 0 THEN v.val ELSE @]
         IN Works(k, w) /\ w.f.sclust # 0 /\ w.f.fptr = v.f.fptr /\ w.f.size = v.f.size
<1> DEFINE w == [v EXCEPT !.f.clust = v.val, !.f.sclust = IF @ = 0 THEN v.val ELSE @]
           x == IF v.f.sclust = 0 THEN v.val ELSE v.f.sclust
<1>1. /\ IsFs(w) /\ w.disk = v.disk /\ w.win = v.win /\ w.at = v.at /\ w.wflag = v.wflag
      /\ w.f = [v.f EXCEPT !.clust = v.val, !.sclust = x]
  BY DEF Works, Stands, IsFs, Fields
<1>2. x # 0 /\ (v.f.sclust = 0 => x = v.val) /\ (v.f.sclust # 0 => x = v.f.sclust)
  BY SectorFacts
<1> HIDE DEF w, x
<1>3. DOMAIN v.f = FileFields
  BY DEF Works, FileIn
<1>4. /\ DOMAIN w.f = FileFields /\ w.f.dirty = v.f.dirty /\ w.f.sect = v.f.sect
      /\ w.f.open = v.f.open /\ w.f.dir = v.f.dir /\ w.f.size = v.f.size /\ w.f.fptr = v.f.fptr
      /\ w.f.sclust = x /\ w.f.clust = v.val
  BY <1>1, <1>3 DEF FileFields
<1>5. Loose(k, Seen(v), x, v.f.dir) /\ Link(Seen(v), x) # 0
  <2>1. CASE v.f.sclust = 0
    <3>1. \A q \in Places(k) : q # NoPlace
      BY SectorFacts, PlaceIs, ParamAssumption DEF NoPlace, Directory, Root
    <3> QED
      BY <1>2, <2>1, <3>1 DEF Loose
  <2>2. CASE v.f.sclust # 0
    BY <1>2, <2>2 DEF Works, FileIn
  <2> QED
    BY <2>1, <2>2
<1>6. FileIn(k, Seen(v), w.f)
  BY <1>2, <1>4, <1>5 DEF Works, FileIn
<1>7. Works(k, w)
  BY <1>1, <1>6, WorksRest
<1> QED
  BY <1>2, <1>4, <1>7 DEF w

Writing(k, s) == DOMAIN s = {"fs", "left"} /\ Works(k, s.fs) /\ s.left \in Nat

\* A round of f_write(), in which the file may get a new cluster.
LEMMA WriteNextWrites ==
  ASSUME NEW k \in 1 .. NFat - 2, NEW s, Writing(k, s), NEW x
  PROVE  Writing(k, WriteNext(s, x))
<1> DEFINE v == s.fs
           off == v.f.fptr % SS
           n == Limit(SS - off, s.left)
           Replaced(w) == IF w.f.sect # Clu(w.f.clust) THEN w
                          ELSE [w EXCEPT !.f.buf = Fill(@, 1, SS, x), !.f.dirty = FALSE]
           Copied(w) == [w EXCEPT !.f.buf = Fill(@, off + 1, off + n, x), !.f.dirty = TRUE]
           Fetched(b) == IF b.f.sect = Clu(b.f.clust) \/ b.f.fptr >= b.f.size
                         THEN [b EXCEPT !.f.sect = Clu(b.f.clust)] ELSE ReadBuffer(b, Clu(b.f.clust))
           Put(b) == DiskWrite(b, Clu(b.f.clust), [i \in 1 .. SS |-> x])
           At(b) == IF n = SS THEN IF Ok(Put(b)) THEN Replaced(Put(b)) ELSE Put(b)
                    ELSE IF Ok(Fetched(b)) THEN Copied(Fetched(b)) ELSE Fetched(b)
           Taken(g) == [g EXCEPT !.f.clust = g.val, !.f.sclust = IF @ = 0 THEN g.val ELSE @]
           Flushed(g) == FlushBuffer(Taken(g))
           Entered1(g) == IF Ok(Flushed(g)) THEN At(Flushed(g)) ELSE Flushed(g)
           cluster == IF v.f.fptr = 0 /\ v.f.sclust # 0 THEN [v EXCEPT !.val = v.f.sclust]
                      ELSE Checked(CreateChain(v, IF v.f.fptr = 0 THEN 0 ELSE v.f.clust))
           full == off = 0 /\ Ok(cluster) /\ cluster.val = 0
           done == IF off # 0 THEN Copied(v) ELSE IF Ok(cluster) THEN Entered1(cluster) ELSE cluster
<1>1. Works(k, v) /\ v.f.fptr \in Nat /\ s.left \in Nat /\ (v.f.fptr # 0 => v.f.sclust # 0)
  BY DEF Writing, Works, FileIn
<1>2. off \in 0 .. SS - 1 /\ n \in Nat /\ s.left - n \in Nat /\ (off # 0 => v.f.fptr # 0)
  BY <1>1, Portion
<1>3. WriteNext(s, x) = IF s.left = 0 \/ ~ Ok(v) THEN s
                        ELSE IF full THEN [fs |-> cluster, left |-> 0]
                        ELSE IF ~ Ok(done) THEN [s EXCEPT !.fs = done]
                        ELSE [fs |-> Moved(done, n), left |-> s.left - n]
  <2> DEFINE Done(w) == IF ~ Ok(w) THEN [s EXCEPT !.fs = w]
                        ELSE [fs |-> Moved(w, n), left |-> s.left - n]
             linked == IF Ok(cluster) THEN Entered1(cluster) ELSE cluster
  <2>1. WriteNext(s, x) = IF s.left = 0 \/ ~ Ok(v) THEN s
                          ELSE IF off # 0 THEN Done(Copied(v))
                          ELSE IF Ok(cluster) /\ cluster.val = 0 THEN [fs |-> cluster, left |-> 0]
                          ELSE Done(linked)
    BY DEF WriteNext, Then
  <2>2. done = IF off # 0 THEN Copied(v) ELSE linked
    OBVIOUS
  <2> HIDE DEF linked, done, cluster, Copied, off, n
  <2> QED
    BY <2>1, <2>2
<1> HIDE DEF n, off
<1>4. ASSUME NEW w, Works(k, w)
      PROVE  Buffers(k, w, Replaced(w)) /\ Buffers(k, w, Copied(w))
  <2> DEFINE a == Fill(w.f.buf, 1, SS, x)
             b == Fill(w.f.buf, off + 1, off + n, x)
  <2>1. Buffers(k, w, w)
    BY <1>4, BuffersItself
  <2>2. /\ Replaced(w) \in {w, [w EXCEPT !.f.buf = a, !.f.dirty = FALSE]}
        /\ Copied(w) = [w EXCEPT !.f.buf = b, !.f.dirty = TRUE]
    OBVIOUS
  <2> HIDE DEF a, b, Replaced, Copied
  <2>3. /\ Buffers(k, w, [w EXCEPT !.f.buf = a, !.f.dirty = FALSE])
        /\ Buffers(k, w, [w EXCEPT !.f.buf = b, !.f.dirty = TRUE])
    BY <1>4, SetBuf
  <2> QED
    BY <2>1, <2>2, <2>3
<1> HIDE DEF Replaced, Copied
<1>5. ASSUME NEW b, Works(k, b)
      PROVE  Buffers(k, b, At(b))
  <2> DEFINE c == Clu(b.f.clust)
  <2>1. c \notin Tables(k) \cup {Info}
    BY <1>5, FileOutside, OutsideTables
  <2>2. Buffers(k, b, Put(b))
    BY <1>5, <2>1, DiskWriteKeeps, KeepsBuffers DEF Works
  <2>3. Buffers(k, b, Fetched(b))
    <3>1. Fetched(b) \in {[b EXCEPT !.f.sect = c], ReadBuffer(b, c)}
      OBVIOUS
    <3> HIDE DEF c, Fetched
    <3> QED
      BY <1>5, <2>1, <3>1, SetSect, ReadBufferBuffers
  <2>4. At(b) \in {Put(b), Replaced(Put(b)), Fetched(b), Copied(Fetched(b))}
    OBVIOUS
  <2> HIDE DEF At, Put, Fetched
  <2>5. Buffers(k, b, Replaced(Put(b))) /\ Buffers(k, b, Copied(Fetched(b)))
    BY <1>4, <2>2, <2>3, BuffersOn DEF Buffers
  <2> QED
    BY <2>2, <2>3, <2>4, <2>5
<1> HIDE DEF At, Put, Fetched
<1>6. /\ Works(k, cluster) /\ cluster.f = v.f
      /\ Ok(cluster) /\ cluster.val # 0 =>
            /\ cluster.val \in Clusters \ Directory(k)
            /\ cluster.f.sclust = 0 => /\ Loose(k, Seen(cluster), cluster.val, NoPlace)
                                       /\ Link(Seen(cluster), cluster.val) # 0
  <2> HIDE DEF cluster
  <2>1. cluster = IF v.f.fptr = 0 /\ v.f.sclust # 0 THEN [v EXCEPT !.val = v.f.sclust]
                  ELSE Checked(CreateChain(v, IF v.f.fptr = 0 THEN 0 ELSE v.f.clust))
    BY DEF cluster
  <2> QED
    BY <1>1, <2>1, ClusterWorks
<1> HIDE DEF cluster
<1>7. ASSUME ~ full
      PROVE  /\ Works(k, done)
             /\ Ok(done) => done.f.sclust # 0 /\ done.f.fptr = v.f.fptr /\ done.f.size \in Nat
  <2>1. CASE off # 0
    <3>1. Buffers(k, v, done)
      BY <1>1, <1>4, <2>1
    <3>2. Works(k, done) /\ done.f.size \in Nat
      BY <3>1 DEF Buffers, Works, FileIn
    <3> QED
      BY <1>1, <1>2, <2>1, <3>1, <3>2, BuffersSame
  <2>2. CASE off = 0 /\ ~ Ok(cluster)
    BY <1>6, <2>2
  <2>3. CASE off = 0 /\ Ok(cluster)
    <3> DEFINE t == Taken(cluster)
               e == FlushBuffer(t)
    <3>1. cluster.val # 0
      BY <1>7, <2>3
    <3>2. Works(k, t) /\ t.f.sclust # 0 /\ t.f.fptr = v.f.fptr
      BY <1>6, <2>3, <3>1, TakenWorks
    <3>3. done \in {e, At(e)}
      BY <2>3
    <3> HIDE DEF t, done
    <3>4. Buffers(k, t, e)
      BY <3>2, FlushBufferBuffers
    <3> HIDE DEF e
    <3>5. Buffers(k, t, At(e))
      BY <1>5, <3>4, BuffersOn DEF Buffers
    <3>6. Buffers(k, t, done)
      BY <3>3, <3>4, <3>5
    <3>7. Works(k, done) /\ done.f.size \in Nat
      BY <3>6 DEF Buffers, Works, FileIn
    <3> QED
      BY <3>2, <3>6, <3>7, BuffersSame
  <2> QED
    BY <2>1, <2>2, <2>3
<1> HIDE DEF done
<1>8. ASSUME ~ full, Ok(done)
      PROVE  Works(k, Moved(done, n))
  <2> DEFINE p == v.f.fptr + n
             z == IF p > done.f.size THEN p ELSE done.f.size
  <2>1. Works(k, done) /\ done.f.sclust # 0 /\ done.f.fptr = v.f.fptr /\ done.f.size \in Nat
    BY <1>7, <1>8
  <2>2. p \in Nat /\ z \in Nat
    BY <1>1, <1>2, <2>1
  <2>3. Moved(done, n) = [done EXCEPT !.f.fptr = p, !.f.size = z]
    BY <2>1 DEF Moved
  <2> HIDE DEF p, z
  <2>4. Works(k, [done EXCEPT !.f.fptr = p, !.f.size = z])
    BY <2>1, <2>2, SetPlace
  <2> QED
    BY <2>3, <2>4
<1>9. CASE s.left = 0 \/ ~ Ok(v)
  BY <1>3, <1>9
<1>10. CASE ~ (s.left = 0 \/ ~ Ok(v)) /\ full
  BY <1>3, <1>6, <1>10 DEF Writing
<1>11. CASE ~ (s.left = 0 \/ ~ Ok(v)) /\ ~ full /\ ~ Ok(done)
  BY <1>1, <1>3, <1>7, <1>11 DEF Writing
<1>12. CASE ~ (s.left = 0 \/ ~ Ok(v)) /\ ~ full /\ Ok(done)
  BY <1>2, <1>3, <1>8, <1>12 DEF Writing
<1> QED
  BY <1>9, <1>10, <1>11, <1>12

\* f_write()
LEMMA WriteWorks ==
  ASSUME NEW k \in 1 .. NFat - 2, NEW v, Works(k, v), NEW n \in Nat, NEW x
  PROVE  Works(k, Write(v, n, x))
<1>1. PICK g : /\ g[0] = [fs |-> v, left |-> n]
               /\ Write(v, n, x) = Then(g[n].fs, LAMBDA w : [w EXCEPT !.f.modified = TRUE])
               /\ \A j \in 1 .. n : g[j] = WriteNext(g[j - 1], x)
  BY WriteRounds
<1> DEFINE S == {j \in 0 .. n : Writing(k, g[j])}
<1>2. 0 \in S
  BY <1>1 DEF Writing
<1>3. ASSUME NEW j \in 1 .. n, j - 1 \in S
      PROVE  j \in S
  BY <1>1, <1>3, WriteNextWrites
<1> HIDE DEF S
<1>4. n \in S
  BY <1>2, <1>3, Induction
<1> DEFINE w == g[n].fs
           y == [w EXCEPT !.f.modified = TRUE]
<1>5. Works(k, w)
  BY <1>4 DEF S, Writing
<1>6. Write(v, n, x) \in {w, y}
  BY <1>1 DEF Then
<1> HIDE DEF w
<1>7. /\ IsFs(y) /\ y.disk = w.disk /\ y.win = w.win /\ y.at = w.at /\ y.wflag = w.wflag
      /\ y.f = [w.f EXCEPT !.modified = TRUE]
  BY <1>5 DEF Works, Stands, IsFs, Fields
<1> HIDE DEF y
<1>8. DOMAIN w.f = FileFields
  BY <1>5 DEF Works, FileIn
<1>9. /\ DOMAIN y.f = FileFields /\ y.f.dirty = w.f.dirty /\ y.f.sect = w.f.sect
      /\ y.f.open = w.f.open /\ y.f.dir = w.f.dir /\ y.f.size = w.f.size /\ y.f.fptr = w.f.fptr
      /\ y.f.sclust = w.f.sclust /\ y.f.clust = w.f.clust
  BY <1>7, <1>8 DEF FileFields
<1>10. FileIn(k, Seen(w), y.f)
  BY <1>5, <1>9 DEF Works, FileIn
<1>11. Works(k, y)
  BY <1>5, <1>7, <1>10, WorksRest
<1> QED
  BY <1>5, <1>6, <1>11

\* f_lseek()
LEMMA SeekWorks ==
  ASSUME NEW k \in 1 .. NFat - 2, NEW v, Works(k, v), NEW ofs \in 0 .. v.f.size
  PROVE  Works(k, Seek(v, ofs))
<1> DEFINE r(o) == (o - 1) \div SS
           near == v.f.fptr > 0 /\ r(ofs) >= r(v.f.fptr)
           w == IF near THEN Follow(v, v.f.clust, r(ofs) - r(v.f.fptr)) ELSE Follow(v, v.f.sclust, r(ofs))
           m == [w EXCEPT !.f.fptr = ofs, !.f.clust = w.val]
           s == IF ofs % SS = 0 THEN m ELSE LoadBuffer(m, Clu(m.f.clust))
           zero == [v EXCEPT !.f.fptr = 0]
<1>1. v.f.fptr \in Nat /\ v.f.size \in Nat /\ ofs \in Nat /\ (ofs # 0 => v.f.sclust # 0)
  BY DEF Works, FileIn
<1>2. Seek(v, ofs) = IF ofs = 0 THEN zero ELSE OrAbort(IF Ok(w) THEN s ELSE w)
  BY DEF Seek, Then
<1>3. ASSUME ofs = 0
      PROVE  Works(k, zero)
  BY <1>1, SetPlace
<1>4. ASSUME ofs # 0
      PROVE  Follows(k, v, w)
  <2>1. SS \in Nat /\ SS > 0
    BY ParamAssumption
  <2>2. r(ofs) \in Nat
    BY <1>1, <1>4, <2>1
  <2>3. near => r(ofs) - r(v.f.fptr) \in Nat
    BY <1>1, <1>4, <2>1
  <2> HIDE DEF r
  <2>4. v.f.clust \notin Directory(k) /\ v.f.sclust \notin Directory(k) /\ Stands(k, v)
    BY FileOutside DEF Works
  <2>5. CASE near
    <3>1. w = Follow(v, v.f.clust, r(ofs) - r(v.f.fptr))
      BY <2>5
    <3> DEFINE n == r(ofs) - r(v.f.fptr)
    <3>2. n \in Nat /\ w = Follow(v, v.f.clust, n)
      BY <2>3, <2>5, <3>1
    <3> HIDE DEF n, w
    <3> QED
      BY <2>4, <3>2, FollowFollows
  <2>6. CASE ~ near
    <3>1. w = Follow(v, v.f.sclust, r(ofs))
      BY <2>6
    <3> HIDE DEF w
    <3> QED
      BY <2>2, <2>4, <3>1, FollowFollows
  <2> QED
    BY <2>5, <2>6
<1> HIDE DEF r, near, w, zero
<1>5. CASE ofs = 0
  BY <1>2, <1>3, <1>5
<1>6. CASE ofs # 0
  <2>1. Works(k, w) /\ w.f = v.f /\ w.val \notin Directory(k)
    BY <1>4, <1>6, WorksKeeps DEF Follows
  <2>2. Works(k, m)
    <3>1. /\ IsFs(m) /\ m.disk = w.disk /\ m.win = w.win /\ m.at = w.at /\ m.wflag = w.wflag
          /\ m.f = [w.f EXCEPT !.fptr = ofs, !.clust = w.val]
      BY <2>1 DEF Works, Stands, IsFs, Fields
    <3> HIDE DEF m
    <3>2. DOMAIN w.f = FileFields
      BY <2>1 DEF Works, FileIn
    <3>3. /\ DOMAIN m.f = FileFields /\ m.f.dirty = w.f.dirty /\ m.f.sect = w.f.sect
          /\ m.f.open = w.f.open /\ m.f.dir = w.f.dir /\ m.f.size = w.f.size /\ m.f.fptr = ofs
          /\ m.f.sclust = w.f.sclust /\ m.f.clust = w.val
      BY <3>1, <3>2 DEF FileFields
    <3>4. FileIn(k, Seen(w), m.f)
      BY <1>1, <2>1, <3>3 DEF Works, FileIn
    <3> QED
      BY <2>1, <3>1, <3>4, WorksRest
  <2> HIDE DEF m
  <2>3. Works(k, LoadBuffer(m, Clu(m.f.clust)))
    BY <2>2, FileOutside, OutsideTables, LoadBufferBuffers DEF Buffers
  <2>4. Works(k, s)
    BY <2>2, <2>3
  <2> HIDE DEF s
  <2> QED
    BY <1>2, <1>6, <2>1, <2>4, OrAbortWorks
<1> QED
  BY <1>5, <1>6

\* The entry of the open file is brought up to date.
LEMMA RecordedWorks ==
  ASSUME NEW k \in 1 .. NFat - 2, NEW v, Works(k, v), v.at = Clu(v.f.dir[1])
  PROVE  Works(k, Recorded(v)) /\ Recorded(v).f = v.f
<1> DEFINE w == Recorded(v)
           p == v.f.dir
           D == Seen(v)
           old == EntryAt(D, p)
           e == [old EXCEPT !.clu = v.f.sclust, !.size = v.f.size]
<1>1. /\ Stands(k, v) /\ FileIn(k, D, v.f) /\ p \in Places(k) /\ old.name \in Names
      /\ DOMAIN old = {"name", "clu", "size"}
  BY DEF Works, Stands, Sound, Entered, FileIn
<1>2. p[1] \in Directory(k) /\ p[2] \in 1 .. PerDir /\ v.at \in Tables(k)
  BY <1>1, PlaceIs
<1>3. v.win = [i \in 1 .. PerDir |-> v.win[i]] /\ v.win[p[2]] = old
  <2>1. v.win = D[Clu(p[1])]
    BY <1>1, <1>2 DEF Stands, InWindow
  <2>2. D[Clu(p[1])] = [i \in 1 .. PerDir |-> D[Clu(p[1])][i]]
    BY <1>1, <1>2 DEF Stands, Sound, Shaped
  <2> QED
    BY <2>1, <2>2 DEF EntryAt
<1>4. /\ IsFs(w) /\ w.disk = v.disk /\ w.at = v.at /\ w.wflag = TRUE
      /\ w.win = [v.win EXCEPT ![p[2]].clu = v.f.sclust, ![p[2]].size = v.f.size]
      /\ w.f = v.f
  BY <1>1 DEF Recorded, Stands, IsFs, Fields
<1>5. [v.win EXCEPT ![p[2]].clu = v.f.sclust, ![p[2]].size = v.f.size] = [v.win EXCEPT ![p[2]] = e]
  BY <1>2, <1>3
<1>6. /\ DOMAIN e = {"name", "clu", "size"} /\ e.name = old.name /\ e.clu = v.f.sclust
      /\ e.size = v.f.size
  BY <1>1
<1> HIDE DEF w, e, D, old
<1>7. ASSUME NEW E, Shaped(k, E), Sets(k, D, E, p, e)
      PROVE  Sound(k, E)
  <2>1. Sound(k, D)
    BY <1>1 DEF Stands, D
  <2>2. \A q \in Places(k) : /\ q # p => EntryAt(D, q).name # e.name
                             /\ Before(q, p) => EntryAt(D, q).name # Free
    BY <1>1, <1>6, <2>1, ParamAssumption DEF Sound, Entered, Free, old
  <2>3. /\ e.name \in Names /\ e.size \in Nat /\ (e.size # 0 => e.clu # 0)
        /\ e.clu # 0 => Loose(k, D, e.clu, p) /\ Link(D, e.clu) # 0
    BY <1>1, <1>6 DEF FileIn
  <2> QED
    BY <1>1, <1>6, <1>7, <2>1, <2>2, <2>3, EntrySound
<1>8. Stands(k, w) /\ Sets(k, D, Seen(w), p, e)
  BY <1>1, <1>4, <1>5, <1>7, PutEntry DEF D
<1>9. FileIn(k, Seen(w), v.f)
  <2>1. EntryAt(Seen(w), p).name \in Names
    BY <1>1, <1>6, <1>8 DEF Sets
  <2>2. ASSUME v.f.sclust # 0
        PROVE  Loose(k, Seen(w), v.f.sclust, p) /\ Link(Seen(w), v.f.sclust) # 0
    <3>1. Loose(k, D, v.f.sclust, p) /\ Link(D, v.f.sclust) # 0 /\ v.f.sclust \in Clusters
      BY <1>1, <2>2 DEF FileIn, Loose
    <3>2. \A q \in Places(k) : q # p => EntryAt(Seen(w), q) = EntryAt(D, q)
      BY <1>8 DEF Sets
    <3>3. \A d \in Clusters : Link(Seen(w), d) = Link(D, d)
      BY <1>8 DEF Sets
    <3> QED
      BY <3>1, <3>2, <3>3 DEF Loose, Owns
  <2> QED
    BY <1>1, <2>1, <2>2 DEF FileIn
<1> QED
  BY <1>4, <1>8, <1>9 DEF Works, w

\* f_sync()
LEMMA SyncWorks ==
  ASSUME NEW k \in 1 .. NFat - 2, NEW v, Works(k, v)
  PROVE  Works(k, Sync(v))
<1> DEFINE b == FlushBuffer(v)
           m == MoveWindow(b, Clu(b.f.dir[1]))
           y == SyncFs(Recorded(m))
           x == [y EXCEPT !.f.modified = FALSE]
<1>1. Sync(v) \in {v, b, m} \/ (Ok(m) /\ Sync(v) = x)
  BY DEF Sync, Then
<1>2. Works(k, b)
  BY FlushBufferBuffers DEF Buffers
<1> HIDE DEF b
<1>3. Works(k, m) /\ m.f = b.f /\ (Ok(m) => m.at = Clu(b.f.dir[1]))
  <2>1. Clu(b.f.dir[1]) \in Tables(k)
    BY <1>2, PlaceIs DEF Works, FileIn
  <2>2. Keeps(k, b, m) /\ (Ok(m) => m.at = Clu(b.f.dir[1]))
    BY <1>2, <2>1, MoveWindowKeeps DEF Works
  <2> QED
    BY <1>2, <2>2, WorksKeeps
<1> HIDE DEF m
<1>4. ASSUME Ok(m)
      PROVE  Works(k, x)
  <2>1. Works(k, Recorded(m))
    BY <1>3, <1>4, RecordedWorks
  <2>2. Works(k, y)
    BY <2>1, SyncFsKeeps, WorksKeeps DEF Works
  <2> HIDE DEF y
  <2>3. /\ IsFs(x) /\ x.disk = y.disk /\ x.win = y.win /\ x.at = y.at /\ x.wflag = y.wflag
        /\ x.f = [y.f EXCEPT !.modified = FALSE]
    BY <2>2 DEF Works, Stands, IsFs, Fields
  <2> HIDE DEF x
  <2>4. DOMAIN y.f = FileFields
    BY <2>2 DEF Works, FileIn
  <2>5. /\ DOMAIN x.f = FileFields /\ x.f.dirty = y.f.dirty /\ x.f.sect = y.f.sect
        /\ x.f.open = y.f.open /\ x.f.dir = y.f.dir /\ x.f.size = y.f.size /\ x.f.fptr = y.f.fptr
        /\ x.f.sclust = y.f.sclust /\ x.f.clust = y.f.clust
    BY <2>3, <2>4 DEF FileFields
  <2>6. FileIn(k, Seen(y), x.f)
    BY <2>2, <2>5 DEF Works, FileIn
  <2> QED
    BY <2>2, <2>3, <2>6, WorksRest
<1> HIDE DEF x
<1> QED
  BY <1>1, <1>2, <1>3, <1>4

\* A file is given up.
LEMMA GivenUp ==
  ASSUME NEW k \in 1 .. NFat - 2, NEW v, Stands(k, v)
  PROVE  Stands(k, [v EXCEPT !.f = Closed]) /\ FileStands(k, [v EXCEPT !.f = Closed])
<1> DEFINE w == [v EXCEPT !.f = Closed]
<1>1. /\ IsFs(w) /\ w.disk = v.disk /\ w.win = v.win /\ w.at = v.at /\ w.wflag = v.wflag
      /\ w.f = Closed
  BY DEF Stands, IsFs, Fields
<1> HIDE DEF w
<1>2. Stands(k, w) /\ FileStands(k, w)
  BY <1>1, KeepsRest DEF FileStands
<1> QED
  BY <1>2 DEF w

-----------------------------------------------------------------------------
(* The volume on the card *)

\* A chain with the cluster behind its last one.
Longer(ch) == LET d == OnCard(ch[Len(ch)]) IN IF d \in Clusters THEN Append(ch, d) ELSE ch

\* The root directory has a first cluster.
LEMMA SectorRoot ==
  Root \in Clusters
BY ParamAssumption DEF Clusters, Root

\* The chain of the root directory is followed in rounds,
LEMMA ChainRounds ==
  \E g : /\ g[0] = <<Root>>
         /\ Chain(Root) = g[NFat]
         /\ \A j \in 1 .. NFat : g[j] = Longer(g[j - 1])
<1> DEFINE n == NFat
           start == <<Root>>
<1>1. n \in Nat
  BY ParamAssumption
<1>2. Chain(Root) = LET after[j \in 0 .. n] == IF j = 0 THEN start ELSE Longer(after[j - 1])
      IN after[n]
  BY SectorRoot DEF Chain, Longer, OnCard, Repeat
<1> HIDE DEF n, start
<1> USE <1>1
<1> DEFINE Is(m, g) == g[0] = start /\ \A j \in 1 .. m : g[j] = Longer(g[j - 1])
           S == {m \in 0 .. n : \E g : Is(m, g)}
           Full(g) == g = [j \in 0 .. n |-> IF j = 0 THEN start ELSE Longer(g[j - 1])]
<1>3. 0 \in S
  <2>1. Is(0, [j \in 0 .. 0 |-> start])
    OBVIOUS
  <2> HIDE DEF Is
  <2> QED
    BY <2>1
<1>4. ASSUME NEW j \in 1 .. n, j - 1 \in S
      PROVE  j \in S
  <2>1. PICK g : Is(j - 1, g)
    BY <1>4
  <2> DEFINE h == [i \in 0 .. j |-> IF i = j THEN Longer(g[j - 1]) ELSE g[i]]
  <2>2. Is(j, h)
    BY <2>1
  <2> HIDE DEF h, Is
  <2> QED
    BY <2>2
<1>5. \E g : Is(n, g)
  <2> HIDE DEF S
  <2>1. n \in S
    BY <1>3, <1>4, Induction
  <2> QED
    BY <2>1 DEF S
<1>6. PICK g : Is(n, g)
  BY <1>5
<1>7. Full([j \in 0 .. n |-> g[j]])
  BY <1>6
<1> DEFINE after == CHOOSE h : Full(h)
<1>8. Full(after)
  <2> HIDE DEF Full
  <2> QED
    BY <1>7
<1>9. Chain(Root) = after[n]
  BY <1>2
<1> HIDE DEF after
<1>10. Is(n, after)
  BY <1>8
<1> QED
  BY <1>9, <1>10 DEF n, start

\* The first n clusters of the directory.
Table(n) == [i \in 1 .. n |-> i + 1]

\* ... each of which finds the next cluster that the directory was formatted with,
LEMMA TableLonger ==
  ASSUME NEW k \in 1 .. NFat - 2, Sound(k, fs.disk), NEW n \in 1 .. k
  PROVE  Longer(Table(n)) = Table(IF n < k THEN n + 1 ELSE k)
<1>1. Len(Table(n)) = n /\ Table(n)[n] = n + 1 /\ Table(n) \in Seq(Nat)
  BY DEF Table
<1>2. OnCard(n + 1) = Link(fs.disk, n + 1)
  BY DEF OnCard, Link
<1>3. CASE n < k
  <2>1. OnCard(n + 1) = n + 2 /\ n + 2 \in Clusters
    <3>1. n + 1 \in Root .. k /\ n + 2 \in Clusters /\ (n + 1) + 1 = n + 2
      BY <1>3, ParamAssumption DEF Root, Clusters
    <3> QED
      BY <1>2, <3>1 DEF Sound, Rooted
  <2>2. Longer(Table(n)) = Append(Table(n), n + 2)
    BY <1>1, <2>1 DEF Longer
  <2>3. Append(Table(n), n + 2) = Table(n + 1)
    BY <1>1 DEF Table
  <2> QED
    BY <1>3, <2>2, <2>3
<1>4. CASE ~ (n < k)
  <2>1. n = k
    BY <1>4
  <2>2. OnCard(n + 1) = EOC
    BY <1>2, <2>1 DEF Sound, Rooted
  <2> QED
    BY <1>1, <2>1, <2>2, SectorFacts DEF Longer
<1> QED
  BY <1>3, <1>4

\* ... so they find all of them, and no other.
LEMMA ChainOfRoot ==
  ASSUME NEW k \in 1 .. NFat - 2, Sound(k, fs.disk)
  PROVE  Chain(Root) = Table(k)
<1> DEFINE size(j) == IF j < k THEN j + 1 ELSE k
<1>1. PICK g : /\ g[0] = <<Root>>
               /\ Chain(Root) = g[NFat]
               /\ \A j \in 1 .. NFat : g[j] = Longer(g[j - 1])
  BY ChainRounds
<1>2. NFat \in Nat /\ k \in Nat /\ k < NFat /\ 1 <= k
  BY ParamAssumption
<1> DEFINE S == {j \in 0 .. NFat : g[j] = Table(size(j))}
<1>3. 0 \in S
  <2>1. size(0) = 1
    BY <1>2
  <2>2. Table(1) = <<Root>>
    BY DEF Table, Root
  <2> HIDE DEF size
  <2> QED
    BY <1>1, <1>2, <2>1, <2>2
<1>4. ASSUME NEW j \in 1 .. NFat, j - 1 \in S
      PROVE  j \in S
  <2>1. g[j] = Longer(Table(size(j - 1)))
    BY <1>1, <1>4
  <2>2. size(j - 1) \in 1 .. k /\ size(j) = IF size(j - 1) < k THEN size(j - 1) + 1 ELSE k
    BY <1>2
  <2> HIDE DEF size
  <2>3. Longer(Table(size(j - 1))) = Table(size(j))
    BY <2>2, TableLonger
  <2> QED
    BY <2>1, <2>3
<1>5. NFat \in S
  <2> HIDE DEF S
  <2> QED
    BY <1>2, <1>3, <1>4, Induction
<1>6. size(NFat) = k
  BY <1>2
<1> HIDE DEF size
<1> QED
  BY <1>1, <1>5, <1>6

\* The place of the j-th entry.
PlaceOf(j) == <<((j - 1) \div PerDir) + 2, ((j - 1) % PerDir) + 1>>

\* The j-th entry of the directory is at a place,
LEMMA PlaceOfIs ==
  ASSUME NEW k \in 1 .. NFat - 2, NEW j \in 1 .. k * PerDir
  PROVE  /\ PlaceOf(j) \in Places(k)
         /\ ((j - 1) \div PerDir) + 1 \in 1 .. k
         /\ (j - 1) = PerDir * ((j - 1) \div PerDir) + ((j - 1) % PerDir)
<1> DEFINE q == (j - 1) \div PerDir
           r == (j - 1) % PerDir
<1>1. PerDir \in Nat /\ PerDir > 0 /\ k \in Nat /\ k * PerDir \in Nat
  BY ParamAssumption
<1>2. j - 1 \in Nat /\ j - 1 < k * PerDir
  BY <1>1
<1>3. q \in Int /\ r \in 0 .. PerDir - 1 /\ j - 1 = PerDir * q + r
  BY <1>1, <1>2
<1> HIDE DEF q, r
<1>4. 0 <= q
  <2> SUFFICES ASSUME q <= -1
               PROVE  FALSE
    BY <1>3
  <2>1. PerDir * q <= PerDir * (-1)
    BY <1>1, <1>3
  <2> QED
    BY <1>1, <1>2, <1>3, <2>1
<1>5. q < k
  <2> SUFFICES ASSUME q >= k
               PROVE  FALSE
    BY <1>1, <1>3
  <2>1. PerDir * q >= PerDir * k /\ PerDir * k = k * PerDir /\ PerDir * q \in Int
    BY <1>1, <1>3
  <2> QED
    BY <1>1, <1>2, <1>3, <2>1
<1>6. q + 2 \in Directory(k) /\ r + 1 \in 1 .. PerDir /\ q + 1 \in 1 .. k
  BY <1>1, <1>3, <1>4, <1>5 DEF Directory, Root
<1>7. <<q + 2, r + 1>> \in Places(k)
  BY <1>6 DEF Places
<1> QED
  BY <1>3, <1>6, <1>7 DEF q, r, PlaceOf

\* ... two of them at different ones.
LEMMA PlaceOfDiffers ==
  ASSUME NEW k \in 1 .. NFat - 2, NEW i \in 1 .. k * PerDir, NEW j \in 1 .. k * PerDir,
         PlaceOf(i) = PlaceOf(j)
  PROVE  i = j
<1> DEFINE q(n) == (n - 1) \div PerDir
           r(n) == (n - 1) % PerDir
<1>1. PerDir \in Nat /\ PerDir > 0 /\ k * PerDir \in Nat
  BY ParamAssumption
<1>2. i - 1 = PerDir * q(i) + r(i) /\ j - 1 = PerDir * q(j) + r(j)
  BY PlaceOfIs
<1>3. q(i) \in Int /\ q(j) \in Int /\ r(i) \in Int /\ r(j) \in Int /\ i \in Int /\ j \in Int
  BY <1>1
<1>4. q(i) + 2 = q(j) + 2 /\ r(i) + 1 = r(j) + 1
  BY DEF PlaceOf
<1> HIDE DEF q, r
<1>5. q(i) = q(j) /\ r(i) = r(j)
  BY <1>3, <1>4
<1> QED
  BY <1>2, <1>3, <1>5

\* The entries that a reader of the card finds are those of files.
LEMMA DirEntriesAre ==
  ASSUME NEW k \in 1 .. NFat - 2, Sound(k, fs.disk), NEW e \in DirEntries
  PROVE  \E j \in 1 .. k * PerDir :
            /\ e = <<j, EntryAt(fs.disk, PlaceOf(j))>>
            /\ EntryAt(fs.disk, PlaceOf(j)).name \in Names
<1> DEFINE D == fs.disk
           at(j) == D[Clu(Chain(Root)[((j - 1) \div PerDir) + 1])][((j - 1) % PerDir) + 1]
           n == Len(Chain(Root)) * PerDir
           ends == {j \in 1 .. n : at(j).name = Free}
           end == IF ends = {} THEN n + 1 ELSE CHOOSE j \in ends : \A m \in ends : j <= m
<1>2. Chain(Root) = Table(k) /\ Len(Chain(Root)) = k
  <2>1. k \in Nat /\ Len(Table(k)) = k
    BY ParamAssumption DEF Table
  <2> QED
    BY <2>1, ChainOfRoot
<1>3. n = k * PerDir /\ n \in Nat
  <2>1. k * PerDir \in Nat
    BY ParamAssumption
  <2> QED
    BY <1>2, <2>1
<1>4. ASSUME NEW i \in 1 .. n
      PROVE  at(i) = EntryAt(D, PlaceOf(i))
  <2>1. Table(k)[((i - 1) \div PerDir) + 1] = ((i - 1) \div PerDir) + 2
    <3> DEFINE q == (i - 1) \div PerDir
    <3>1. q + 1 \in 1 .. k
      BY <1>3, PlaceOfIs
    <3>a. q \in Int
      BY <1>3, ParamAssumption
    <3> HIDE DEF q
    <3>2. Table(k)[q + 1] = q + 2
      BY <3>1, <3>a DEF Table
    <3> QED
      BY <3>2 DEF q
  <2> QED
    BY <1>2, <2>1, Zenon DEF EntryAt, PlaceOf
<1>1. PICK j \in 1 .. end - 1 : e = <<j, at(j)>> /\ at(j).name # Deleted
  BY DEF DirEntries
<1> HIDE DEF at, n, end
<1>5. end \in 1 .. n + 1 /\ \A m \in ends : end <= m
  <2>1. ends \subseteq Nat /\ ends \subseteq 1 .. n
    BY <1>3
  <2>2. CASE ends = {}
    BY <1>3, <2>2 DEF end
  <2>3. CASE ends # {}
    <3> HIDE DEF ends
    <3>1. \E i \in ends : \A m \in ends : i <= m
      BY <2>1, <2>3, LeastOf
    <3>2. end \in ends /\ \A m \in ends : end <= m
      BY <2>3, <3>1 DEF end
    <3> QED
      BY <1>3, <2>1, <3>2
  <2> QED
    BY <2>2, <2>3
<1>6. j \in 1 .. n /\ j < end
  BY <1>1, <1>3, <1>5
<1>7. at(j).name # Free
  BY <1>3, <1>5, <1>6
<1>8. at(j) = EntryAt(D, PlaceOf(j)) /\ PlaceOf(j) \in Places(k) /\ j \in 1 .. k * PerDir
  BY <1>3, <1>4, <1>6, PlaceOfIs
<1>9. at(j).name \in Names
  BY <1>1, <1>7, <1>8 DEF Sound, Entered
<1> QED
  BY <1>1, <1>8, <1>9

\* A sound card is what VolumeIsSound says: what the entries and the directory reach
\* is in use, and no cluster is reached twice.
LEMMA SoundVolume ==
  ASSUME NEW k \in 1 .. NFat - 2, Sound(k, fs.disk)
  PROVE  VolumeIsSound
<1> DEFINE D == fs.disk
           links == {<<"fat", c>> : c \in {c \in Clusters : OnCard(c) \in Clusters}}
           files == {<<"dir", e>> : e \in {e \in DirEntries : e[2].clu # 0}}
           target(l) == IF l[1] = "fat" THEN OnCard(l[2]) ELSE l[2][2].clu
<1>1. \A c : OnCard(c) = Link(D, c)
  BY DEF OnCard, Link
<1>2. \A i \in DOMAIN Chain(Root) : Len(D[Clu(Chain(Root)[i])]) = PerDir
  <2> SUFFICES ASSUME NEW i \in DOMAIN Chain(Root)
               PROVE  Len(D[Clu(Chain(Root)[i])]) = PerDir
    OBVIOUS
  <2> DEFINE c == Chain(Root)[i]
  <2>1. c \in Directory(k)
    BY ChainOfRoot, ParamAssumption DEF Table, Directory, Root
  <2> HIDE DEF c
  <2>2. D[Clu(c)] = [m \in 1 .. PerDir |-> D[Clu(c)][m]]
    BY <2>1 DEF Sound, Shaped
  <2> DEFINE s == D[Clu(c)]
  <2>3. s = [m \in 1 .. PerDir |-> s[m]]
    BY <2>2
  <2> HIDE DEF s
  <2>4. Len(s) = PerDir
    BY <2>3, ParamAssumption
  <2> QED
    BY <2>4 DEF s, c
<1>3. ASSUME NEW l \in links
      PROVE  \E c \in Clusters : l = <<"fat", c>> /\ target(l) = Link(D, c) /\ Link(D, c) \in Clusters
  BY <1>1
<1>4. ASSUME NEW l \in files
      PROVE  \E j \in 1 .. k * PerDir :
                /\ l = <<"dir", <<j, EntryAt(D, PlaceOf(j))>>>> /\ target(l) = EntryAt(D, PlaceOf(j)).clu
                /\ PlaceOf(j) \in Places(k) /\ Owns(D, PlaceOf(j))
  <2>1. PICK e \in DirEntries : l = <<"dir", e>> /\ e[2].clu # 0
    OBVIOUS
  <2>2. PICK j \in 1 .. k * PerDir : /\ e = <<j, EntryAt(D, PlaceOf(j))>>
                                     /\ EntryAt(D, PlaceOf(j)).name \in Names
    BY <2>1, DirEntriesAre
  <2> QED
    BY <2>1, <2>2, PlaceOfIs DEF Owns
<1> HIDE DEF links, files, target, D
<1>5. Linked(D) /\ Owned(k, D)
  BY DEF Sound, D
<1>6. ASSUME NEW l \in links \cup files
      PROVE  target(l) # Root /\ OnCard(target(l)) # 0
  <2>1. CASE l \in links
    BY <1>1, <1>3, <1>5, <2>1 DEF Linked
  <2>2. CASE l \in files
    BY <1>1, <1>4, <1>5, <2>2 DEF Owned, Loose
  <2> QED
    BY <2>1, <2>2
<1>7. ASSUME NEW l \in links \cup files, NEW m \in links \cup files, target(l) = target(m)
      PROVE  l = m
  <2>1. CASE l \in links /\ m \in links
    BY <1>3, <1>5, <1>7, <2>1 DEF Linked
  <2>2. CASE l \in files /\ m \in files
    <3>1. PICK i \in 1 .. k * PerDir :
             /\ l = <<"dir", <<i, EntryAt(D, PlaceOf(i))>>>> /\ target(l) = EntryAt(D, PlaceOf(i)).clu
             /\ PlaceOf(i) \in Places(k) /\ Owns(D, PlaceOf(i))
      BY <1>4, <2>2
    <3>2. PICK j \in 1 .. k * PerDir :
             /\ m = <<"dir", <<j, EntryAt(D, PlaceOf(j))>>>> /\ target(m) = EntryAt(D, PlaceOf(j)).clu
             /\ PlaceOf(j) \in Places(k) /\ Owns(D, PlaceOf(j))
      BY <1>4, <2>2
    <3>3. PlaceOf(i) = PlaceOf(j)
      BY <1>5, <1>7, <3>1, <3>2 DEF Owned, Loose
    <3>4. i = j
      BY <3>3, PlaceOfDiffers
    <3> QED
      BY <3>1, <3>2, <3>4
  <2>3. ASSUME NEW x \in links, NEW y \in files, target(x) = target(y)
        PROVE  FALSE
    <3>1. PICK c \in Clusters : target(x) = Link(D, c) /\ Link(D, c) \in Clusters
      BY <1>3, <2>3
    <3>2. PICK j \in 1 .. k * PerDir : /\ target(y) = EntryAt(D, PlaceOf(j)).clu
                                       /\ PlaceOf(j) \in Places(k) /\ Owns(D, PlaceOf(j))
      BY <1>4, <2>3
    <3> QED
      BY <1>5, <2>3, <3>1, <3>2 DEF Owned, Loose
  <2> QED
    BY <1>7, <2>1, <2>2, <2>3
<1> QED
  BY <1>2, <1>6, <1>7 DEF VolumeIsSound, links, files, target, D

-----------------------------------------------------------------------------
(* The volume that has been formatted *)

\* What the formatted card holds,
LEMMA FormattedIs ==
  ASSUME NEW k \in 1 .. NFat - 2
  PROVE  LET D == Formatted(k)
         IN /\ DOMAIN D = Sectors
            /\ \A c \in Clusters : /\ c \in DOMAIN D[Fat(c)]
                                   /\ Link(D, c) = IF c > k + 1 THEN 0 ELSE IF c = k + 1 THEN EOC ELSE c + 1
            /\ \A c \in Directory(k) : D[Clu(c)] = Blank
<1> USE SectorFacts
<1> DEFINE A(s) == [c \in {c \in Clusters : Fat(c) = s} |->
                      IF c > k + 1 THEN 0 ELSE IF c = k + 1 THEN EOC ELSE c + 1]
           B(s) == IF s[2] <= k + 1 THEN Blank ELSE [i \in 1 .. SS |-> 0]
           C == [free |-> NFat - 2 - k, last |-> k + 1]
           D == Formatted(k)
<1>1. D = [s \in Sectors |-> IF s = Info THEN C ELSE IF s[1] = "clu" THEN B(s) ELSE A(s)]
  BY DEF Formatted, Sectors
<1>2. \A c \in Clusters : /\ Fat(c) \in Sectors /\ Fat(c) # Info
                          /\ Clu(c) \in Sectors /\ Clu(c) # Info
  BY DEF Sectors
<1>3. \A c : Fat(c)[1] = "fat" /\ Clu(c)[1] = "clu" /\ Clu(c)[2] = c
  BY DEF Fat, Clu
<1>4. ASSUME NEW c \in Clusters
      PROVE  /\ c \in DOMAIN A(Fat(c))
             /\ A(Fat(c))[c] = IF c > k + 1 THEN 0 ELSE IF c = k + 1 THEN EOC ELSE c + 1
  OBVIOUS
<1>5. ASSUME NEW c \in Directory(k)
      PROVE  c \in Clusters /\ B(Clu(c)) = Blank
  <2>1. c \in Clusters /\ c <= k + 1
    BY DEF Directory, Root
  <2> QED
    BY <1>3, <2>1
<1> HIDE DEF A, B, C, D
<1>6. ASSUME NEW c \in Clusters
      PROVE  D[Fat(c)] = A(Fat(c)) /\ D[Clu(c)] = B(Clu(c))
  BY <1>1, <1>2, <1>3
<1>7. DOMAIN D = Sectors
  BY <1>1
<1>8. ASSUME NEW c \in Clusters
      PROVE  /\ c \in DOMAIN D[Fat(c)]
             /\ Link(D, c) = IF c > k + 1 THEN 0 ELSE IF c = k + 1 THEN EOC ELSE c + 1
  BY <1>4, <1>6 DEF Link
<1>9. ASSUME NEW c \in Directory(k)
      PROVE  D[Clu(c)] = Blank
  BY <1>5, <1>6
<1> QED
  BY <1>7, <1>8, <1>9 DEF D

\* ... which is sound.
LEMMA FormattedSound ==
  ASSUME NEW k \in 1 .. NFat - 2
  PROVE  Sound(k, Formatted(k))
<1> DEFINE D == Formatted(k)
<1>1. /\ DOMAIN D = Sectors
      /\ \A c \in Clusters : /\ c \in DOMAIN D[Fat(c)]
                             /\ Link(D, c) = IF c > k + 1 THEN 0 ELSE IF c = k + 1 THEN EOC ELSE c + 1
      /\ \A c \in Directory(k) : D[Clu(c)] = Blank
  BY FormattedIs
<1> HIDE DEF D
<1> USE ParamAssumption, SectorFacts
<1>2. Shaped(k, D)
  <2>1. \A c \in Clusters : Link(D, c) \in {0, EOC} \cup Clusters
    BY <1>1 DEF Clusters
  <2>2. Blank = [i \in 1 .. PerDir |-> Blank[i]]
    BY DEF Blank
  <2> QED
    BY <1>1, <2>1, <2>2 DEF Shaped
<1>3. Rooted(k, D)
  BY <1>1 DEF Rooted, Clusters, Root
<1>4. Linked(D)
  BY <1>1 DEF Linked, Clusters, Root, EOC
<1>5. \A p \in Places(k) : EntryAt(D, p) = Entry(Free, 0, 0)
  BY <1>1, PlaceIs DEF EntryAt, Blank
<1>6. /\ Entry(Free, 0, 0).name = Free /\ Entry(Free, 0, 0).size = 0
      /\ DOMAIN Entry(Free, 0, 0) = {"name", "clu", "size"} /\ Free \notin Names
  BY DEF Entry, Free
<1>7. Owned(k, D)
  BY <1>5, <1>6 DEF Owned, Owns
<1>8. Entered(k, D)
  BY <1>5, <1>6 DEF Entered
<1> QED
  BY <1>2, <1>3, <1>4, <1>7, <1>8 DEF Sound, D

-----------------------------------------------------------------------------
(* Every call preserves the invariant *)

\* The inductive invariant: between calls there is no error, and no failure without
\* one more to come has been seen.
Inv(k) == VolumeInv(k) /\ Ok(fs) /\ (clean => faults > 0)

\* A call returns, with its error or without, or the power goes off in it.
LEMMA ReturnPreserves ==
  ASSUME NEW k \in 1 .. NFat - 2, Inv(k), NEW v, Stands(k, v), FileStands(k, v), Return(v)
  PROVE  Inv(k)'
<1>1. v.fuel \in Int
  BY DEF Stands, IsFs
<1>2. (clean => faults > 0)'
  <2>1. CASE v.fuel >= 100
    <3>1. clean' = (clean /\ v.fuel >= 100)
      BY DEF Return
    <3>2. clean' => clean
      BY <3>1, Zenon
    <3>3. faults' = faults
      BY <1>1, <2>1 DEF Return
    <3> QED
      BY <3>2, <3>3 DEF Inv
  <2>2. CASE ~ (v.fuel >= 100)
    <3>1. clean' = (clean /\ v.fuel >= 100)
      BY DEF Return
    <3>2. ~ clean'
      BY <2>2, <3>1, Zenon
    <3> QED
      BY <3>2
  <2> QED
    BY <2>1, <2>2
<1>3. fs' = Settled(v) \/ fs' = Settled(Lost(v))
  BY DEF Return
<1>4. Stands(k, Lost(v)) /\ FileStands(k, Lost(v))
  BY LostStands DEF FileStands
<1>5. \A w : Stands(k, w) /\ FileStands(k, w) =>
                Stands(k, Settled(w)) /\ FileStands(k, Settled(w)) /\ Ok(Settled(w))
  <2> SUFFICES ASSUME NEW w, Stands(k, w), FileStands(k, w)
               PROVE  Stands(k, Settled(w)) /\ FileStands(k, Settled(w)) /\ Ok(Settled(w))
    OBVIOUS
  <2>1. Settled(w).res = "ok"
    BY DEF Settled, Stands, IsFs, Fields
  <2> QED
    BY <2>1, SettledStands DEF Ok
<1>6. Stands(k, fs') /\ FileStands(k, fs') /\ Ok(fs')
  BY <1>3, <1>4, <1>5
<1> QED
  BY <1>2, <1>6 DEF Inv, VolumeInv

\* The fuel is a number.
LEMMA FuelIs ==
  ASSUME NEW n \in Fuels
  PROVE  n \in Int
BY ParamAssumption DEF Fuels, Plenty

\* What every call begins with.
LEMMA BeginsOf ==
  ASSUME NEW k \in 1 .. NFat - 2, Inv(k), NEW n \in Fuels
  PROVE  /\ Stands(k, Fueled(n)) /\ FileStands(k, Fueled(n)) /\ Ok(Fueled(n))
         /\ Fueled(n).f = fs.f
         /\ Fueled(n).f.open => Works(k, Fueled(n))
<1>1. /\ Stands(k, Fueled(n)) /\ FileStands(k, Fueled(n)) /\ Ok(Fueled(n))
      /\ Fueled(n).f = fs.f
  BY FuelIs, FueledStands DEF Inv
<1>2. Fueled(n).f.open => Fueled(n).f # Closed
  BY DEF Closed
<1> QED
  BY <1>1, <1>2 DEF FileStands, Works

\* A volume with an open file is one of the volumes of the invariant.
LEMMA WorksStands ==
  ASSUME NEW k, NEW v, Works(k, v)
  PROVE  Stands(k, v) /\ FileStands(k, v)
BY DEF Works, FileStands

\* f_mount()
LEMMA MountPreserves ==
  ASSUME NEW k \in 1 .. NFat - 2, Inv(k), DoMount
  PROVE  Inv(k)'
<1>1. PICK n \in Fuels : Return(Mount(Fueled(n)))
  BY DEF DoMount
<1>2. Stands(k, Mount(Fueled(n))) /\ FileStands(k, Mount(Fueled(n)))
  BY BeginsOf, MountStands DEF FileStands
<1> QED
  BY <1>1, <1>2, ReturnPreserves

\* The power goes off between two calls.
LEMMA UnmountPreserves ==
  ASSUME NEW k \in 1 .. NFat - 2, Inv(k), DoUnmount
  PROVE  Inv(k)'
<1>1. Stands(k, Lost(fs)) /\ FileStands(k, Lost(fs))
  BY LostStands DEF Inv, VolumeInv, FileStands
<1>2. Settled(Lost(fs)).res = "ok"
  BY <1>1 DEF Settled, Stands, IsFs, Fields
<1>3. Stands(k, fs') /\ FileStands(k, fs') /\ Ok(fs')
  BY <1>1, <1>2, SettledStands DEF DoUnmount, Ok
<1> QED
  BY <1>3 DEF DoUnmount, Inv, VolumeInv

\* f_open()
LEMMA OpenPreserves ==
  ASSUME NEW k \in 1 .. NFat - 2, Room(k), Inv(k), DoOpen
  PROVE  Inv(k)'
<1>1. PICK n \in Fuels, m \in Names, create \in BOOLEAN : Return(Open(Fueled(n), m, create))
  BY DEF DoOpen
<1>2. Fueled(n).f = Closed
  BY BeginsOf DEF DoOpen, Idle
<1>3. Stands(k, Open(Fueled(n), m, create)) /\ FileStands(k, Open(Fueled(n), m, create))
  BY <1>2, BeginsOf, OpenStands
<1> QED
  BY <1>1, <1>3, ReturnPreserves

\* f_write()
LEMMA WritePreserves ==
  ASSUME NEW k \in 1 .. NFat - 2, Inv(k), DoWrite
  PROVE  Inv(k)'
<1>1. PICK n \in Fuels, m \in 1 .. MaxSize - fs.f.fptr :
         Return(OrAbort(Write(Fueled(n), m, fs.f.name)))
  BY DEF DoWrite
<1>2. Works(k, Fueled(n)) /\ m \in Nat
  BY BeginsOf DEF DoWrite, Usable
<1>3. Works(k, OrAbort(Write(Fueled(n), m, fs.f.name)))
  BY <1>2, WriteWorks, OrAbortWorks
<1> QED
  BY <1>1, <1>3, WorksStands, ReturnPreserves

\* f_read()
LEMMA ReadPreserves ==
  ASSUME NEW k \in 1 .. NFat - 2, Inv(k), DoRead
  PROVE  Inv(k)'
<1>1. PICK n \in Fuels, m \in 1 .. fs.f.size - fs.f.fptr : Return(OrAbort(Read(Fueled(n), m)))
  BY DEF DoRead
<1>2. Works(k, Fueled(n)) /\ m \in Nat
  BY BeginsOf DEF DoRead, Usable
<1>3. Works(k, OrAbort(Read(Fueled(n), m)))
  BY <1>2, ReadWorks, OrAbortWorks
<1> QED
  BY <1>1, <1>3, WorksStands, ReturnPreserves

\* f_lseek()
LEMMA SeekPreserves ==
  ASSUME NEW k \in 1 .. NFat - 2, Inv(k), DoSeek
  PROVE  Inv(k)'
<1>1. PICK n \in Fuels, ofs \in 0 .. fs.f.size : Return(Seek(Fueled(n), ofs))
  BY DEF DoSeek
<1>2. Works(k, Fueled(n)) /\ Fueled(n).f = fs.f
  BY BeginsOf DEF DoSeek, Usable
<1>3. Works(k, Seek(Fueled(n), ofs))
  BY <1>2, SeekWorks
<1> QED
  BY <1>1, <1>3, WorksStands, ReturnPreserves

\* f_sync() and f_close()
LEMMA SyncPreserves ==
  ASSUME NEW k \in 1 .. NFat - 2, Inv(k), DoSync
  PROVE  Inv(k)'
<1>1. PICK n \in Fuels, close \in BOOLEAN :
         LET v == IF close THEN Close(Fueled(n)) ELSE Sync(Fueled(n))
         IN Return(v) \/ Return([v EXCEPT !.f = Closed])
  BY DEF DoSync
<1> DEFINE s == Sync(Fueled(n))
           v == IF close THEN Close(Fueled(n)) ELSE s
<1>2. Works(k, s)
  BY BeginsOf, SyncWorks DEF DoSync
<1>3. Stands(k, v) /\ FileStands(k, v)
  <2>1. Close(Fueled(n)) \in {s, [s EXCEPT !.f = Closed]}
    BY DEF Close, Then
  <2>2. v \in {s, [s EXCEPT !.f = Closed]}
    BY <2>1
  <2> HIDE DEF s, v
  <2> QED
    BY <1>2, <2>2, WorksStands, GivenUp
<1> HIDE DEF v
<1>4. Stands(k, [v EXCEPT !.f = Closed]) /\ FileStands(k, [v EXCEPT !.f = Closed])
  BY <1>3, GivenUp
<1>5. Return(v) \/ Return([v EXCEPT !.f = Closed])
  BY <1>1 DEF v
<1> QED
  BY <1>3, <1>4, <1>5, ReturnPreserves

\* f_unlink()
LEMMA UnlinkPreserves ==
  ASSUME NEW k \in 1 .. NFat - 2, Inv(k), DoUnlink
  PROVE  Inv(k)'
<1>1. PICK n \in Fuels, m \in Names : Return(Unlink(Fueled(n), m))
  BY DEF DoUnlink
<1>2. Fueled(n).f = Closed
  BY BeginsOf DEF DoUnlink, Idle
<1>3. Stands(k, Unlink(Fueled(n), m)) /\ FileStands(k, Unlink(Fueled(n), m))
  BY <1>2, BeginsOf, UnlinkStands DEF FileStands
<1> QED
  BY <1>1, <1>3, ReturnPreserves

\* f_getfree()
LEMMA GetFreePreserves ==
  ASSUME NEW k \in 1 .. NFat - 2, Inv(k), DoGetFree
  PROVE  Inv(k)'
<1>1. PICK n \in Fuels : Return(GetFree(Fueled(n)))
  BY DEF DoGetFree
<1>2. Stands(k, GetFree(Fueled(n))) /\ FileStands(k, GetFree(Fueled(n)))
  BY BeginsOf, GetFreeKeeps, KeepsFile DEF Keeps
<1> QED
  BY <1>1, <1>2, ReturnPreserves

\* f_truncate() and f_rename() are not called where the card may fail.
LEMMA NextPreserves ==
  ASSUME Calls \cap {"truncate", "rename"} = {}, NEW k \in 1 .. NFat - 2, Room(k), Inv(k),
         [Next]_vars
  PROVE  Inv(k)'
<1>1. CASE UNCHANGED vars
  BY <1>1 DEF vars, Inv, VolumeInv
<1>2. ~ Unfailing
  BY DEF Unfailing, Inv
<1>3. ~ DoTruncate /\ ~ DoRename
  BY <1>2 DEF DoTruncate, DoRename
<1> QED
  BY <1>1, <1>3, MountPreserves, UnmountPreserves, OpenPreserves, WritePreserves, ReadPreserves,
     SeekPreserves, SyncPreserves, UnlinkPreserves, GetFreePreserves DEF Next

\* The directory has room for all the names, so that it is never stretched, and
\* the card may fail.
RoomAtFirst ==
    faults > 0 /\ \E k \in 1 .. NFat - 2 : Room(k) /\ fs.disk = Formatted(k)

\* The volume is formatted at first, and nothing is open.
LEMMA InitInv ==
  ASSUME Init, RoomAtFirst
  PROVE  \E k \in 1 .. NFat - 2 : Room(k) /\ Inv(k)
<1>1. PICK k \in 1 .. NFat - 2 : Room(k) /\ fs.disk = Formatted(k)
  BY DEF RoomAtFirst
<1>2. /\ DOMAIN fs = Fields /\ fs.fuel = Plenty /\ fs.res = "ok" /\ fs.at = Nowhere
      /\ fs.wflag = FALSE /\ fs.f = Closed
  BY DEF Init, Fields
<1>3. IsFs(fs)
  <2>1. fs.fuel \in Int
    BY <1>2 DEF Plenty
  <2>2. fs.wflag \in BOOLEAN
    BY <1>2
  <2> QED
    BY <1>2, <2>1, <2>2 DEF IsFs
<1>4. Seen(fs) = fs.disk
  BY <1>2 DEF Seen
<1>5. InWindow(k, fs)
  BY <1>2, SectorFacts DEF InWindow
<1>6. Stands(k, fs) /\ FileStands(k, fs)
  BY <1>1, <1>2, <1>3, <1>4, <1>5, FormattedSound DEF Stands, FileStands
<1> QED
  BY <1>1, <1>2, <1>6 DEF RoomAtFirst, Inv, VolumeInv, Ok

\* ff.c, whatever the calls f_mount(), f_open(), f_read(), f_write(), f_lseek(),
\* f_sync(), f_close(), f_unlink() and f_getfree() write to the card, in any order, and
\* wherever the card or the power fails in the middle of one of them: every cluster an
\* entry or a link refers to is in use, none belongs to two files or to a file and the
\* directory, and the directory holds entries.  For volumes, sectors and sets of names of
\* any size, if the directory need not be stretched for the names and no
\* f_truncate() or f_rename() is called where the card may fail.
THEOREM VolumeStaysSound ==
  ASSUME Calls \cap {"truncate", "rename"} = {}
  PROVE  Spec /\ RoomAtFirst => []VolumeIsSound
<1> DEFINE I == \E k \in 1 .. NFat - 2 : Room(k) /\ Inv(k)
<1>1. Init /\ RoomAtFirst => I
  BY InitInv
<1>2. I /\ [Next]_vars => I'
  <2> SUFFICES ASSUME I, [Next]_vars
               PROVE  I'
    OBVIOUS
  <2>1. PICK k \in 1 .. NFat - 2 : Room(k) /\ Inv(k)
    OBVIOUS
  <2>2. Inv(k)'
    BY <2>1, NextPreserves
  <2>3. Room(k)'
    BY <2>1 DEF Room
  <2> QED
    BY <2>2, <2>3
<1>3. I => VolumeIsSound
  BY SoundVolume DEF Inv, VolumeInv, Stands
<1> HIDE DEF I
<1> QED
  BY <1>1, <1>2, <1>3, PTL DEF Spec

=============================================================================
