------------------------------- MODULE FatFs -------------------------------
(***************************************************************************)
(* The file system of lib/fatfs/ff.c as sd-card-demo configures it, on a   *)
(* FAT32 volume: the sector window with its delayed write, the FAT, the    *)
(* root directory, and the calls on a file with its private sector buffer. *)
(*                                                                         *)
(* A call is a function of the record fs.  Every access to the card uses   *)
(* up one of fs.fuel; when none is left the card fails, in the middle of   *)
(* the call, and the code's error path follows.  Either the call returns   *)
(* the error and the card recovers, or that was the power going off: the   *)
(* memory is lost and the card keeps the sectors written so far.           *)
(*                                                                         *)
(* A cluster is one sector, a name one directory entry (long names and     *)
(* sub-directories are left out), the second FAT is never read.            *)
(***************************************************************************)
EXTENDS Integers, Sequences, FiniteSets, TLC

CONSTANTS
    Names,      \* names of files; the data of a file is its own name
    NFat,       \* fs->n_fatent: the clusters are 2 .. NFat - 1
    PerFat,     \* FAT entries in a sector
    PerDir,     \* directory entries in a sector
    SS,         \* units of data in a sector
    MaxSize,    \* bound: size of a file
    MaxFuel,    \* bound: a call fails within its first MaxFuel accesses
    Volumes,    \* <<clusters of the root directory at first, bound: number of failures,
                \* bound: number of calls>>
    Calls       \* f_truncate(), f_rename() although the card may fail, and "retry": a
                \* failed f_sync() or f_close() is tried again

ASSUME ParamAssumption ==
    /\ Names \cap {-1, 0} = {}
    /\ NFat \in Nat /\ NFat > 3
    /\ {PerFat, PerDir, SS, MaxSize} \subseteq Nat \ {0}
    /\ PerDir # SS     \* so that a sector of data is told from one of the directory
    /\ MaxFuel \in Nat /\ Volumes \subseteq (1 .. NFat - 2) \X Nat \X Nat
    /\ Calls \subseteq {"truncate", "rename", "retry"}

Root == 2           \* fs->dirbase
Clusters == 2 .. NFat - 1
EOC == NFat         \* end of a chain: any value from fs->n_fatent up
Bad == -1           \* 0xFFFFFFFF of get_fat() and create_chain(): disk error
Unknown == 2 * NFat \* 0xFFFFFFFF in free_clst
Plenty == 1000      \* fuel of a call that does not fail

Fat(c) == <<"fat", c \div PerFat>>
Clu(c) == <<"clu", c>>
Info == <<"info", 0>>
Nowhere == <<"none", 0>>    \* the window is invalid

Free == 0           \* DIR_Name[0]: never used, so are all the entries behind it
Deleted == -1       \* DDEM
Entry(n, c, s) == [name |-> n, clu |-> c, size |-> s]
Blank == [i \in 1 .. PerDir |-> Entry(Free, 0, 0)]
Closed == [open |-> FALSE]

\* In place of the content of a file.
NoFile == <<-1>>
TooShort == <<-2>>
Anything == <<-3>>

VARIABLES
    fs,         \* the card, the file system object, the file object
    saved,      \* per name: the content the calls have promised, Anything or NoFile
    live, wrote,    \* the content of the open file as its user sees it, and has changed it
    exact,      \* the last f_read() has returned what it should have
    calls,      \* calls left
    faults, clean   \* failures left; none so far has upset the free count

vars == <<fs, saved, live, wrote, exact, calls, faults, clean>>

\* A volume without files, whose directory has k clusters.
Formatted(k) ==
    [s \in {Fat(c) : c \in Clusters} \cup {Clu(c) : c \in Clusters} \cup {Info} |->
        IF s = Info THEN [free |-> NFat - 2 - k, last |-> k + 1]
        ELSE IF s[1] = "clu" THEN IF s[2] <= k + 1 THEN Blank ELSE [i \in 1 .. SS |-> 0]
        ELSE [c \in {c \in Clusters : Fat(c) = s} |->
                 IF c > k + 1 THEN 0 ELSE IF c = k + 1 THEN EOC ELSE c + 1]]

Init ==
    /\ \E v \in Volumes :
          /\ faults = v[2] /\ calls = v[3]
          /\ fs = [disk |-> Formatted(v[1]), fuel |-> Plenty, res |-> "ok", val |-> 0,
                   pos |-> <<Root, 1>>, type |-> FALSE, win |-> <<>>, at |-> Nowhere,
                   wflag |-> FALSE, free |-> Unknown, last |-> Unknown, fsi |-> FALSE,
                   nofsi |-> FALSE, f |-> Closed]
    /\ saved = [n \in Names |-> NoFile]
    /\ live = <<>> /\ wrote = FALSE /\ exact = TRUE /\ clean = TRUE
-----------------------------------------------------------------------------
(* The card and the window *)

Ok(v) == v.res = "ok"
Fail(v, r) == [v EXCEPT !.res = r]

\* The next step of a call is taken if the one before has succeeded.
Then(v, F(_)) == IF Ok(v) THEN F(v) ELSE v
Either(v, F(_), G(_)) == IF Ok(v) THEN F(v) ELSE G(v)
With(v, F(_)) == F(v)

\* A loop of at most n rounds; a round changes nothing once the loop is done.
Repeat(n, v, Round(_)) ==
    LET after[k \in 0 .. n] == IF k = 0 THEN v ELSE Round(after[k - 1])
    IN after[n]

Access(v) == IF v.fuel = 0 THEN Fail(v, "disk") ELSE [v EXCEPT !.fuel = @ - 1]
DiskWrite(v, s, data) == Then(Access(v), LAMBDA w : [w EXCEPT !.disk[s] = data])

\* sync_window()
SyncWindow(v) ==
    IF v.wflag THEN Then(DiskWrite(v, v.at, v.win), LAMBDA w : [w EXCEPT !.wflag = FALSE]) ELSE v

\* The sector s is read into the window.
LoadWindow(v, s) ==
    Either(Access(v), LAMBDA r : [r EXCEPT !.win = r.disk[s], !.at = s],
                      LAMBDA r : [r EXCEPT !.at = Nowhere])

\* move_window()
MoveWindow(v, s) ==
    IF s = v.at THEN v ELSE Then(SyncWindow(v), LAMBDA w : LoadWindow(w, s))

\* Mutant: the free count on the card is not brought up to date.
SyncFs_NoInfo(v) == Then(SyncWindow(v), Access)

\* The FSInfo sector is written; that this fails goes unnoticed.
WriteInfo(v) ==
    [DiskWrite(v, Info, [free |-> v.free, last |-> v.last]) EXCEPT
        !.res = "ok", !.win = [free |-> v.free, last |-> v.last], !.at = Info, !.fsi = FALSE]

\* sync_fs(); the last access is CTRL_SYNC.
SyncFs(v) ==
    Then(SyncWindow(v), LAMBDA w : Access(IF w.fsi /\ ~ w.nofsi THEN WriteInfo(w) ELSE w))
-----------------------------------------------------------------------------
(* The FAT *)

\* get_fat(); the value is in val.
GetFat(v, c) ==
    IF c \notin Clusters THEN [v EXCEPT !.val = 1]
    ELSE Either(MoveWindow(v, Fat(c)), LAMBDA w : [w EXCEPT !.val = w.win[c]],
                                       LAMBDA w : [w EXCEPT !.val = Bad, !.res = "ok"])

\* put_fat()
PutFat(v, c, x) ==
    IF c \notin Clusters THEN Fail(v, "int")
    ELSE Then(MoveWindow(v, Fat(c)), LAMBDA w : [w EXCEPT !.win[c] = x, !.wflag = TRUE])

\* What a caller makes of an error value of get_fat() or create_chain().
Checked(v) == Fail(v, IF v.val = Bad THEN "disk" ELSE IF v.val = 1 THEN "int" ELSE "ok")

OneMoreFree(v) == IF v.free < NFat - 2 THEN [v EXCEPT !.free = @ + 1, !.fsi = TRUE] ELSE v

\* A round of remove_chain(): cluster val, if it is one, is freed; the one
\* behind it is in val then.
FreeNext(v) ==
    IF ~ Ok(v) \/ v.val \notin Clusters THEN v
    ELSE Then(Checked(GetFat(v, v.val)),
              LAMBDA w : IF w.val = 0 THEN w ELSE Then(PutFat(w, v.val, 0), OneMoreFree))

FreeFrom(v, c) == Repeat(NFat, [v EXCEPT !.val = c], FreeNext)

\* remove_chain(): p, if not 0, becomes the end of the chain.
RemoveChain(v, c, p) ==
    IF c \notin Clusters THEN Fail(v, "int")
    ELSE Then(IF p = 0 THEN v ELSE PutFat(v, p, EOC), LAMBDA w : FreeFrom(w, c))

Behind(c) == IF c + 1 >= NFat THEN 2 ELSE c + 1

\* A round of the scan of create_chain(), which is to end at cluster scl: the
\* cluster behind n is looked at, and is in val if it is free.
ScanNext(s, scl) ==
    LET n == Behind(s.n)
        Found(g, x) == [s EXCEPT !.fs = [g EXCEPT !.val = x], !.on = FALSE]
        Looked(g) == IF g.val = 0 THEN Found(g, n)
                     ELSE IF g.val \in {1, Bad} THEN Found(g, g.val)
                     ELSE IF n = scl THEN Found(g, 0)
                     ELSE [s EXCEPT !.fs = g, !.n = n]
    IN IF ~ s.on THEN s
       ELSE IF s.n + 1 >= NFat /\ n > scl THEN [s EXCEPT !.fs.val = 0, !.on = FALSE]
       ELSE Looked(GetFat(s.fs, n))

\* The first free cluster behind scl, 0 if there is none.
Scan(v, scl) ==
    LET Round(s) == ScanNext(s, scl)
        Ended(e) == IF e.on THEN [e.fs EXCEPT !.val = 0] ELSE e.fs
    IN Ended(Repeat(NFat, [fs |-> v, n |-> scl, on |-> TRUE], Round))

\* Mutant: the cluster is linked to the chain before it is marked in use.
Allocate_LinkFirst(v, n, c) ==
    Then(IF c # 0 THEN PutFat(v, c, n) ELSE v, LAMBDA a : PutFat(a, n, EOC))

\* Cluster n is marked in use, and then linked behind c.
Allocate(v, n, c) ==
    Then(PutFat(v, n, EOC), LAMBDA a : IF c # 0 THEN PutFat(a, c, n) ELSE a)

\* A free cluster for the chain that ends in c, or for a new one if c is 0.
FindFree(v, c) ==
    LET hint(none) == IF v.last \in Clusters THEN v.last ELSE none
    IN IF c = 0 THEN Scan(v, hint(1))
       ELSE With(GetFat(v, Behind(c)),
                 LAMBDA p : IF p.val = 0 THEN [p EXCEPT !.val = Behind(c)]
                            ELSE IF p.val \in {1, Bad} THEN p ELSE Scan(p, hint(c)))

\* The cluster found is taken, and the hint and the count follow.
TakeFree(v, c) ==
    IF v.val < 2 THEN v
    ELSE Either(Allocate(v, v.val, c),
                LAMBDA a : [a EXCEPT !.last = a.val, !.fsi = TRUE,
                                     !.free = IF @ <= NFat - 2 THEN @ - 1 ELSE @],
                LAMBDA a : [a EXCEPT !.val = IF a.res = "disk" THEN Bad ELSE 1, !.res = "ok"])

\* create_chain(): the cluster behind c, or a new chain if c is 0, in val;
\* 0 if the volume is full.
CreateChain(v, c) ==
    LET Grown(g) == IF g.free = 0 THEN [g EXCEPT !.val = 0] ELSE TakeFree(FindFree(g, c), c)
    IN IF c = 0 THEN Grown(v)
       ELSE With(GetFat(v, c),
                 LAMBDA g : IF g.val \in {0, 1} THEN [g EXCEPT !.val = 1]
                            ELSE IF g.val < EOC THEN g ELSE Grown(g))
-----------------------------------------------------------------------------
(* The root directory *)

\* dir_clear()
DirClear(v, c) ==
    Then(SyncWindow(v),
         LAMBDA w : DiskWrite([w EXCEPT !.at = Clu(c), !.win = Blank], Clu(c), Blank))

Here(v) == v.win[v.pos[2]]
SetHere(v, e) == [v EXCEPT !.win[v.pos[2]] = e, !.wflag = TRUE]

\* dir_next(): the place behind pos; a table that ends is stretched, or "nofile".
DirNext(v, stretch) ==
    LET c == v.pos[1]
        Start(g) == [g EXCEPT !.pos = <<g.val, 1>>]
        Stretched(n) == IF n.val = 0 THEN Fail(n, "denied")
                        ELSE Then(Checked(n), LAMBDA w : Then(DirClear(w, w.val), Start))
        Entered(g) == IF g.val = 0 THEN Fail(g, "int")
                      ELSE IF g.val \in Clusters THEN Start(g)
                      ELSE IF stretch THEN Stretched(CreateChain(g, c)) ELSE Fail(g, "nofile")
    IN IF v.pos[2] < PerDir THEN [v EXCEPT !.pos[2] = @ + 1]
       ELSE Then(Checked(GetFat(v, c)), Entered)

\* A round of dir_find() or dir_alloc(): pos is the place of an entry whose name
\* is in hits, or moves on.
WalkNext(v, hits, stretch) ==
    LET At(w) == IF Here(w).name \in hits THEN w
                 ELSE IF Here(w).name = Free THEN Fail(w, "nofile")
                 ELSE DirNext(w, stretch)
    IN IF Ok(v) THEN Then(MoveWindow(v, Clu(v.pos[1])), At) ELSE v

Walk(v, hits, stretch) ==
    LET Round(w) == WalkNext(w, hits, stretch)
    IN Repeat(NFat * PerDir, [v EXCEPT !.pos = <<Root, 1>>], Round)

\* dir_find() by way of follow_path(), and dir_alloc()
DirFind(v, n) == Walk(v, {n}, FALSE)
DirAlloc(v) == Walk(v, {Free, Deleted}, TRUE)

\* dir_register()
DirRegister(v, n) ==
    Then(DirAlloc(v), LAMBDA w : Then(MoveWindow(w, Clu(w.pos[1])),
                                      LAMBDA x : SetHere(x, Entry(n, 0, 0))))

\* dir_remove()
DirRemove(v, pos) ==
    Then(MoveWindow([v EXCEPT !.pos = pos], Clu(pos[1])),
         LAMBDA w : SetHere(w, [Here(w) EXCEPT !.name = Deleted]))
-----------------------------------------------------------------------------
(* The calls: functions of fs; a result is in res, data in val *)

\* f_mount(), mount_volume(), find_volume() and check_fs(): the card is
\* initialised, the boot sector and the FSInfo sector are read.
Mount(v) ==
    LET info(b) == Either(MoveWindow(b, Info),
                          LAMBDA i : [i EXCEPT !.type = TRUE, !.nofsi = FALSE,
                                               !.free = i.win.free, !.last = i.win.last],
                          LAMBDA i : [i EXCEPT !.res = "ok", !.type = TRUE])
    IN Then(Access(Access([v EXCEPT !.type = FALSE, !.f = Closed, !.wflag = FALSE,
                                    !.at = Nowhere, !.free = Unknown, !.last = Unknown,
                                    !.fsi = FALSE, !.nofsi = TRUE])), info)

\* f_open() with FA_CREATE_ALWAYS on a file that exists: its entry is reset,
\* then its chain is removed.
Overwrite(v) ==
    LET old == Here(v)
        e == SetHere(v, Entry(old.name, 0, 0))
    IN IF old.clu = 0 THEN e
       ELSE Then(RemoveChain(e, old.clu, 0),
                 LAMBDA r : [MoveWindow(r, Clu(v.pos[1])) EXCEPT !.last = old.clu - 1])

FileObject(v, create) ==
    [open |-> TRUE, name |-> Here(v).name, read |-> ~ create, sclust |-> Here(v).clu,
     size |-> Here(v).size, modified |-> create, dirty |-> FALSE, err |-> "ok",
     sect |-> Nowhere, buf |-> [i \in 1 .. SS |-> 0], fptr |-> 0, clust |-> 0, dir |-> v.pos]

\* f_open(): FA_WRITE | FA_CREATE_ALWAYS, or FA_READ | FA_WRITE of a file that exists.
Open(v, n, create) ==
    LET Found(d) == IF ~ create THEN d
                    ELSE IF d.res = "nofile" THEN DirRegister(Fail(d, "ok"), n) ELSE Then(d, Overwrite)
    IN Then(Found(DirFind(v, n)), LAMBDA c : [c EXCEPT !.f = FileObject(c, create)])

\* Following the chain of the open file over k clusters; create_chain(), which the
\* code calls for this, does not stretch it, as within the file it does not end.
FollowNext(v) ==
    Then(v, LAMBDA u : Then(Checked(GetFat(u, u.val)),
                            LAMBDA w : IF w.val = 0 THEN Fail(w, "int") ELSE w))
Follow(v, c, k) == Repeat(k, [v EXCEPT !.val = c], FollowNext)

\* ABORT(): an error sticks to the file object.
OrAbort(v) == IF Ok(v) THEN v ELSE [v EXCEPT !.f.err = v.res]

\* The dirty sector buffer is written back.
FlushBuffer(v) ==
    IF v.f.dirty THEN Then(DiskWrite(v, v.f.sect, v.f.buf), LAMBDA w : [w EXCEPT !.f.dirty = FALSE])
    ELSE v

ReadBuffer(v, s) == Then(Access(v), LAMBDA l : [l EXCEPT !.f.buf = l.disk[s], !.f.sect = s])

\* The sector buffer holds the sector s.
LoadBuffer(v, s) ==
    IF v.f.sect = s THEN v ELSE Then(FlushBuffer(v), LAMBDA b : ReadBuffer(b, s))

Limit(a, b) == IF a < b THEN a ELSE b

\* Mutant: the card's version is returned although the buffer's is newer.
Newest_OnCard(v, sect) == v.disk[sect]

\* What f_read() returns of a sector it reads past the buffer.
Newest(v, sect) == IF v.f.dirty /\ v.f.sect = sect THEN v.f.buf ELSE v.disk[sect]

\* A round of f_read(): left units remain to be read, to follow data.
ReadNext(s) ==
    LET v == s.fs
        off == v.f.fptr % SS
        k == Limit(SS - off, s.left)
        Part(w) == IF k = SS THEN Newest(w, Clu(w.f.clust))
                   ELSE SubSeq(w.f.buf, off + 1, off + k)
        At(c) == IF c.f.clust \notin Clusters THEN Fail(c, "int")
                 ELSE IF k = SS THEN Access(c) ELSE LoadBuffer(c, Clu(c.f.clust))
        Found == IF off # 0 THEN v
                 ELSE IF v.f.fptr = 0 THEN At([v EXCEPT !.f.clust = v.f.sclust])
                 ELSE Then(Checked(GetFat(v, v.f.clust)), LAMBDA g : At([g EXCEPT !.f.clust = g.val]))
    IN IF s.left = 0 \/ ~ Ok(v) THEN s
       ELSE IF ~ Ok(Found) THEN [s EXCEPT !.fs = Found]
       ELSE [fs |-> [Found EXCEPT !.f.fptr = @ + k], left |-> s.left - k,
             data |-> s.data \o Part(Found)]

\* f_read() of n units, which are not more than remain.
Read(v, n) ==
    LET end == Repeat(n, [fs |-> v, left |-> n, data |-> <<>>], ReadNext)
    IN Then(end.fs, LAMBDA w : [w EXCEPT !.val = end.data])

\* Units a .. b of the buffer are written over.
Fill(buf, a, b, x) == [i \in DOMAIN buf |-> IF i \in a .. b THEN x ELSE buf[i]]

\* The file pointer moves on, the file's size with it.
Moved(v, k) ==
    [v EXCEPT !.f.fptr = @ + k,
              !.f.size = IF v.f.fptr + k > @ THEN v.f.fptr + k ELSE @]

\* A round of f_write() of units x, of which left remain; none do when the
\* volume is full.
WriteNext(s, x) ==
    LET v == s.fs
        off == v.f.fptr % SS
        k == Limit(SS - off, s.left)
        Replaced(w) == IF w.f.sect # Clu(w.f.clust) THEN w
                       ELSE [w EXCEPT !.f.buf = Fill(@, 1, SS, x), !.f.dirty = FALSE]
        Copied(w) == [w EXCEPT !.f.buf = Fill(@, off + 1, off + k, x), !.f.dirty = TRUE]
        Fetched(b) == IF b.f.sect = Clu(b.f.clust) \/ b.f.fptr >= b.f.size
                      THEN [b EXCEPT !.f.sect = Clu(b.f.clust)] ELSE ReadBuffer(b, Clu(b.f.clust))
        At(b) == IF k = SS THEN Then(DiskWrite(b, Clu(b.f.clust), [i \in 1 .. SS |-> x]), Replaced)
                 ELSE Then(Fetched(b), Copied)
        Entered(g) == Then(FlushBuffer([g EXCEPT !.f.clust = g.val,
                                                 !.f.sclust = IF @ = 0 THEN g.val ELSE @]), At)
        cluster == IF v.f.fptr = 0 /\ v.f.sclust # 0 THEN [v EXCEPT !.val = v.f.sclust]
                   ELSE Checked(CreateChain(v, IF v.f.fptr = 0 THEN 0 ELSE v.f.clust))
        Done(w) == IF ~ Ok(w) THEN [s EXCEPT !.fs = w]
                   ELSE [fs |-> Moved(w, k), left |-> s.left - k]
        Taken(c) == IF Ok(c) /\ c.val = 0 THEN [fs |-> c, left |-> 0] ELSE Done(Then(c, Entered))
    IN IF s.left = 0 \/ ~ Ok(v) THEN s
       ELSE IF off # 0 THEN Done(Copied(v)) ELSE Taken(cluster)

\* f_write() of n units x; what has been written is told by fptr.
Write(v, n, x) ==
    LET Round(s) == WriteNext(s, x)
    IN Then(Repeat(n, [fs |-> v, left |-> n], Round).fs, LAMBDA w : [w EXCEPT !.f.modified = TRUE])

\* The directory entry of the open file is brought up to date in the window.
Recorded(v) ==
    [v EXCEPT !.win[v.f.dir[2]].clu = v.f.sclust, !.win[v.f.dir[2]].size = v.f.size, !.wflag = TRUE]

\* Mutant: the sector buffer is forgotten.
Sync_NoFlush(v) ==
    IF v.f.modified
    THEN Then(MoveWindow(v, Clu(v.f.dir[1])),
              LAMBDA m : [SyncFs(Recorded(m)) EXCEPT !.f.modified = FALSE])
    ELSE v

\* f_sync()
Sync(v) ==
    IF v.f.modified
    THEN Then(FlushBuffer(v),
              LAMBDA b : Then(MoveWindow(b, Clu(b.f.dir[1])),
                              LAMBDA m : [SyncFs(Recorded(m)) EXCEPT !.f.modified = FALSE]))
    ELSE v

\* f_close()
Close(v) == Then(Sync(v), LAMBDA w : [w EXCEPT !.f = Closed])

\* f_lseek() within the file.
Seek(v, ofs) ==
    LET k(o) == (o - 1) \div SS
        near == v.f.fptr > 0 /\ k(ofs) >= k(v.f.fptr)
        Set(m) == IF ofs % SS = 0 THEN m ELSE LoadBuffer(m, Clu(m.f.clust))
    IN IF ofs = 0 THEN [v EXCEPT !.f.fptr = 0]
       ELSE OrAbort(Then(IF near THEN Follow(v, v.f.clust, k(ofs) - k(v.f.fptr))
                         ELSE Follow(v, v.f.sclust, k(ofs)),
                         LAMBDA w : Set([w EXCEPT !.f.fptr = ofs, !.f.clust = w.val])))

\* f_truncate() at the file pointer.
Truncate(v) ==
    LET Cut(g) == IF Ok(g) /\ g.val < EOC THEN RemoveChain(g, g.val, v.f.clust) ELSE g
        Removed == IF v.f.fptr = 0 THEN [RemoveChain(v, v.f.sclust, 0) EXCEPT !.f.sclust = 0]
                   ELSE Cut(Checked(GetFat(v, v.f.clust)))
    IN IF v.f.fptr >= v.f.size THEN v
       ELSE OrAbort(Then([Removed EXCEPT !.f.size = v.f.fptr, !.f.modified = TRUE], FlushBuffer))

\* f_unlink()
Unlink(v, n) ==
    Then(DirFind(v, n),
         LAMBDA d : Then(DirRemove(d, d.pos),
                         LAMBDA r : Then(IF Here(d).clu = 0 THEN r ELSE RemoveChain(r, Here(d).clu, 0),
                                         SyncFs)))

\* f_rename()
Rename(v, n, m) ==
    LET Renamed(o, q) ==
            IF Ok(q) THEN Fail(q, "exist")
            ELSE IF q.res # "nofile" THEN q
            ELSE Then(DirRegister(Fail(q, "ok"), m),
                      LAMBDA g : Then(DirRemove(SetHere(g, [Here(o) EXCEPT !.name = m]), o.pos),
                                      SyncFs))
    IN Then(DirFind(v, n), LAMBDA o : Renamed(o, DirFind(o, m)))

\* f_getfree(): cluster c is counted if it is free.
CountNext(s) ==
    LET w == MoveWindow(s.fs, Fat(s.c))
    IN IF ~ Ok(s.fs) THEN s
       ELSE [fs |-> w, c |-> s.c + 1,
             free |-> IF Ok(w) /\ w.win[s.c] = 0 THEN s.free + 1 ELSE s.free]

GetFree(v) ==
    LET end == Repeat(NFat - 2, [fs |-> v, c |-> Root, free |-> 0], CountNext)
    IN IF v.free <= NFat - 2 THEN v
       ELSE Then(end.fs, LAMBDA w : [w EXCEPT !.free = end.free, !.fsi = TRUE])
-----------------------------------------------------------------------------
(* The user of the file system, and the faults of the card *)

\* How a call may end; p(v) is what it made of fs, and whether it lost power.
Lost(v) == [v EXCEPT !.type = FALSE, !.f = Closed, !.wflag = FALSE, !.at = Nowhere,
                     !.win = <<>>, !.free = Unknown, !.last = Unknown, !.fsi = FALSE,
                     !.nofsi = FALSE]
Settled(v) == [v EXCEPT !.fuel = Plenty, !.res = "ok", !.val = 0, !.pos = <<Root, 1>>]

\* The amounts of fuel a call may have.
Fuels == {Plenty} \cup IF faults > 0 THEN 0 .. MaxFuel ELSE {}
Fueled(k) == [fs EXCEPT !.fuel = k]

\* A call that has taken fs to v returns, or the power went off in it; fuel it
\* has not used up makes no failure.
Return(v) ==
    /\ calls > 0 /\ calls' = calls - 1
    /\ v.fuel = 0 \/ v.fuel >= 100
    /\ \/ fs' = Settled(v)
       \/ v.fuel = 0 /\ fs' = Settled(Lost(v))
    /\ faults' = IF v.fuel < 100 THEN faults - 1 ELSE faults
    /\ clean' = (clean /\ v.fuel >= 100)

\* Nothing has failed, and nothing will.
Unfailing == clean /\ faults = 0

Idle == fs.type /\ fs.f = Closed

\* The open file's content is now x, if there is still an open file.
Shows(x, w) ==
    /\ live' = IF fs'.f.open THEN x ELSE <<>>
    /\ wrote' = (fs'.f.open /\ w)

Usable == fs.type /\ fs.f.open /\ (fs.f.err = "ok" \/ "retry" \in Calls)

DoMount ==
    /\ ~ fs.type
    /\ \E k \in Fuels : Return(Mount(Fueled(k)))
    /\ Shows(<<>>, FALSE) /\ UNCHANGED <<saved, exact>>

\* f_mount(NULL); with a file open it would lose what a power failure loses.
DoUnmount ==
    /\ Idle
    /\ fs' = Settled(Lost(fs))
    /\ UNCHANGED <<saved, live, wrote, exact, calls, faults, clean>>

\* A file that is created anew has no promised content; one that was left
\* half written holds its own data as far as it goes.
DoOpen ==
    /\ Idle
    /\ \E k \in Fuels, n \in Names, create \in BOOLEAN :
          LET Ends(v) ==
                  /\ Return(v)
                  /\ saved' = IF create THEN [saved EXCEPT ![n] = Anything] ELSE saved
                  /\ Shows(IF create THEN <<>>
                           ELSE IF saved[n] # Anything THEN saved[n]
                           ELSE [i \in 1 .. IF Ok(v) THEN v.f.size ELSE 0 |-> n], create)
          IN Ends(Open(Fueled(k), n, create))
    /\ UNCHANGED exact

DoWrite ==
    /\ Usable
    /\ \E k \in Fuels, n \in 1 .. MaxSize - fs.f.fptr :
          LET v == OrAbort(Write(Fueled(k), n, fs.f.name))
          IN /\ Return(v)
             /\ Shows([i \in 1 .. v.f.size |->
                         IF i \in fs.f.fptr + 1 .. v.f.fptr THEN fs.f.name ELSE live[i]], TRUE)
    /\ saved' = [saved EXCEPT ![fs.f.name] = Anything]
    /\ UNCHANGED exact

DoRead ==
    /\ Usable /\ fs.f.read
    /\ \E k \in Fuels, n \in 1 .. fs.f.size - fs.f.fptr :
          LET v == OrAbort(Read(Fueled(k), n))
          IN /\ Return(v)
             /\ exact' = (Ok(v) => v.val = SubSeq(live, fs.f.fptr + 1, fs.f.fptr + n))
    /\ Shows(live, wrote) /\ UNCHANGED saved

DoSeek ==
    /\ Usable
    /\ \E k \in Fuels, ofs \in 0 .. fs.f.size : Return(Seek(Fueled(k), ofs))
    /\ Shows(live, wrote) /\ UNCHANGED <<saved, exact>>

DoTruncate ==
    /\ Unfailing \/ "truncate" \in Calls
    /\ Usable
    /\ \E k \in Fuels : Return(Truncate(Fueled(k)))
    /\ saved' = [saved EXCEPT ![fs.f.name] = Anything]
    /\ Shows(SubSeq(live, 1, fs.f.fptr), TRUE) /\ UNCHANGED exact

\* f_sync(), or f_close(); the user gives the file up if it fails, or tries again.
DoSync ==
    /\ fs.type /\ fs.f.open
    /\ \E k \in Fuels, close \in BOOLEAN :
          LET v == IF close THEN Close(Fueled(k)) ELSE Sync(Fueled(k))
          IN /\ Return(IF ~ Ok(v) /\ "retry" \notin Calls THEN [v EXCEPT !.f = Closed] ELSE v)
             /\ saved' = IF Ok(v) /\ fs.f.err = "ok" /\ wrote
                         THEN [saved EXCEPT ![fs.f.name] = live] ELSE saved
    /\ Shows(live, wrote) /\ UNCHANGED exact

DoUnlink ==
    /\ Idle
    /\ \E k \in Fuels, n \in Names :
          LET v == Unlink(Fueled(k), n)
          IN /\ Return(v)
             /\ saved' = [saved EXCEPT ![n] = IF v.res \in {"ok", "nofile"} THEN NoFile ELSE Anything]
    /\ UNCHANGED <<live, wrote, exact>>

DoRename ==
    /\ Unfailing \/ "rename" \in Calls
    /\ Idle
    /\ \E k \in Fuels, n, m \in Names :
          LET Ends(v) ==
                  /\ Return(v)
                  /\ saved' = IF Ok(v) THEN [saved EXCEPT ![m] = saved[n], ![n] = NoFile]
                              ELSE IF v.res = "disk"
                              THEN [saved EXCEPT ![m] = Anything, ![n] = Anything]
                              ELSE saved
          IN n # m /\ Ends(Rename(Fueled(k), n, m))
    /\ UNCHANGED <<live, wrote, exact>>

DoGetFree ==
    /\ Idle
    /\ \E k \in Fuels : Return(GetFree(Fueled(k)))
    /\ UNCHANGED <<saved, live, wrote, exact>>

Next ==
    \/ DoMount \/ DoUnmount \/ DoOpen \/ DoWrite \/ DoRead \/ DoSeek \/ DoTruncate
    \/ DoSync \/ DoUnlink \/ DoRename \/ DoGetFree

Spec == Init /\ [][Next]_vars
-----------------------------------------------------------------------------
(* What is on the card: after a power failure there is nothing else *)

OnCard(c) == fs.disk[Fat(c)][c]

\* The clusters of a chain, from c on.
Chain(c) ==
    LET Longer(ch) == LET d == OnCard(ch[Len(ch)]) IN IF d \in Clusters THEN Append(ch, d) ELSE ch
    IN IF c \in Clusters THEN Repeat(NFat, <<c>>, Longer) ELSE <<>>

\* The directory entries of files, as <<cluster, index>>, up to the first free one.
DirEntries ==
    LET table == Chain(Root)
        at(j) == fs.disk[Clu(table[((j - 1) \div PerDir) + 1])][((j - 1) % PerDir) + 1]
        ends == {j \in 1 .. Len(table) * PerDir : at(j).name = Free}
        end == IF ends = {} THEN Len(table) * PerDir + 1
               ELSE CHOOSE j \in ends : \A m \in ends : j <= m
    IN {<<j, at(j)>> : j \in {j \in 1 .. end - 1 : at(j).name # Deleted}}

\* Every cluster has at most one place that refers to it, and none that is
\* free is referred to: a file never shares a cluster with another one, nor
\* will it with one written later; and the directory holds entries, no data.
\* This holds whenever the power goes off, because the order of the writes
\* leaves at worst clusters that nobody uses (f_open(), f_unlink() and
\* create_chain() of ff.c); where it cannot go off, when no file is open.
VolumeIsSound ==
    LET links == {<<"fat", c>> : c \in {c \in Clusters : OnCard(c) \in Clusters}}
        files == {<<"dir", e>> : e \in {e \in DirEntries : e[2].clu # 0}}
        target(l) == IF l[1] = "fat" THEN OnCard(l[2]) ELSE l[2][2].clu
    IN ~ Unfailing \/ fs.f = Closed =>
       /\ \A i \in DOMAIN Chain(Root) : Len(fs.disk[Clu(Chain(Root)[i])]) = PerDir
       /\ \A l, m \in links \cup files : target(l) = target(m) => l = m
       /\ \A l \in links \cup files : target(l) # Root /\ OnCard(target(l)) # 0

\* The content of the file n on the card, NoFile if there is no such file.
Content(n) ==
    LET es == {e[2] : e \in {e \in DirEntries : e[2].name = n}}
        e == CHOOSE e \in es : TRUE
        ch == Chain(e.clu)
    IN IF es = {} THEN NoFile
       ELSE IF Len(ch) * SS < e.size THEN TooShort
       ELSE [i \in 1 .. e.size |-> fs.disk[Clu(ch[((i - 1) \div SS) + 1])][((i - 1) % SS) + 1]]

\* What f_close(), f_sync() or f_unlink() have reported as done is on the card
\* from then on, and stays when other files are written, or the power or the
\* card fails in the middle of that, until the file itself is changed.
PromisesAreKept ==
    \A n \in Names : saved[n] = Anything \/ saved[n] = Content(n)

\* f_read() returns what was written, whatever part of it is still in the
\* file's sector buffer.
ReadsAreExact == exact

\* Without a failure, free_clst is the number of free clusters, those in the
\* window included, so that the volume is never taken for full when it is not.
FreeCountIsExact ==
    clean /\ fs.type =>
       fs.free = Cardinality({c \in Clusters :
                                (IF fs.at = Fat(c) THEN fs.win[c] ELSE OnCard(c)) = 0})
=============================================================================
