----------------------------- MODULE FileSystem -----------------------------
(***************************************************************************)
(* The file system of src/src/filesystem.c over the block layer of         *)
(* BlockCache: superblock in block 0, allocation bitmap in block 1, inode  *)
(* table from block 2, then data.  A block has CELLS cells.  An inode, a   *)
(* directory entry and a unit of file data each take one cell.  A call is  *)
(* one step, made by one task at a time.  PowerFailure cuts a call after   *)
(* any of its device writes, loses the memory and boots again.             *)
(*                                                                         *)
(* Times and the two free counters of the superblock are left out.         *)
(***************************************************************************)
EXTENDS BlockCache, Integers, FiniteSets, SequencesExt

CONSTANTS
    CELLS,          \* cells of a block (FS_BLOCK_SIZE)
    TotalInodes,    \* sb.total_inodes
    DIRECT,         \* block pointers of an inode (6)
    MaxFiles,       \* FS_MAX_OPEN_FILES
    Names,          \* file names in the root directory
    Values,         \* data a cell can hold
    Zero,           \* a zeroed cell
    None,           \* no file recorded
    Sizes,          \* bound: sizes passed to fs_truncate
    MaxCreates,     \* bound: entries ever added to the root directory
    MaxSize,        \* bound: size and position of a file
    MaxCalls        \* bound: calls other than format, mount, unmount and close

\* FS_TYPE_REGULAR and FS_TYPE_DIRECTORY, and 0 for a free inode.
REGULAR   == 1
DIRECTORY == 2

INODE_TABLE == 2
FirstData   == INODE_TABLE + (TotalInodes + CELLS - 1) \div CELLS
Cell        == 0 .. CELLS - 1
Inodes      == 0 .. TotalInodes - 1
Root        == 0
NOINODE     == TotalInodes
Direct      == 0 .. DIRECT - 1
ZeroBlock   == [c \in Cell |-> Zero]

fs_inode_t == [type : 0 .. 2, size : Nat, blocks : [Direct -> 0 .. NOBLK]]
fs_dentry_t == [name : Names, inode : Inodes]
fs_file_handle_t == [in_use : BOOLEAN, inode : Inodes, r : BOOLEAN, w : BOOLEAN,
                     position : 0 .. MaxSize, size : 0 .. MaxSize]
struct_fs_dir_s == [in_use : BOOLEAN, inode : Inodes, position : Nat]

VARIABLES
    fs,         \* fs_state, block_bitmap and the device
    settled,    \* history: what each name held at the last clean fs_unmount
    damaged,    \* history: a power failure or a format left memory and disk apart
    calls       \* calls made so far

vars == <<fs, settled, damaged, calls>>

FreeInode == [type |-> 0, size |-> 0, blocks |-> [i \in Direct |-> 0]]
Closed    == [in_use |-> FALSE, inode |-> Root, r |-> FALSE, w |-> FALSE,
              position |-> 0, size |-> 0]
ClosedDir == [in_use |-> FALSE, inode |-> Root, position |-> 0]

\* fs_init after a reset: memory is cleared, the device keeps image d.
fs_init(d) ==
    [disk |-> d, cached |-> NOBLK, cache |-> ZeroBlock, dirty |-> FALSE,
     mounted |-> FALSE, bitmap |-> {}, files |-> [i \in 1 .. MaxFiles |-> Closed],
     dir |-> ClosedDir, trail |-> {}]

ErasedDisk == [b \in Blocks |-> CASE b = 0 -> FALSE [] b = 1 -> {} [] OTHER -> ZeroBlock]

\* The device writes of fs_format go past the cache.
fs_format(f) ==
    LET root   == [FreeInode EXCEPT !.type = DIRECTORY]
        erased == [f EXCEPT !.disk = ErasedDisk, !.trail = @ \cup {ErasedDisk}]
        used   == 0 .. FirstData - 1
    IN  [dev_write(dev_write(dev_write(erased, 0, TRUE), 1, used),
                   INODE_TABLE, [ZeroBlock EXCEPT ![0] = root]) EXCEPT !.bitmap = used]

\* Mutant: the bitmap starts with the reserved blocks only.
fs_mount_fresh_bitmap(f) == [f EXCEPT !.mounted = TRUE, !.bitmap = 0 .. FirstData - 1]

fs_mount(f) == [f EXCEPT !.mounted = TRUE, !.bitmap = f.disk[1]]

\* Mutant: the cache is not written back.
fs_unmount_no_sync(f) == [dev_write(f, 1, f.bitmap) EXCEPT !.mounted = FALSE]

\* Mutant: fs_unmount keeps the bitmap in memory only.
fs_unmount_no_bitmap(f) == [fs_sync_cache(f) EXCEPT !.mounted = FALSE]

fs_unmount(f) == [dev_write(fs_sync_cache(f), 1, f.bitmap) EXCEPT !.mounted = FALSE]

---------------------------------------------------------------------------
\* Blocks and inodes.  An operator that returns a value r besides the new
\* state returns the record [r, f].

\* Mutant: the bit of the allocated block is not set.
fs_alloc_block_unmarked(f) ==
    LET free == (FirstData .. TotalBlocks - 1) \ f.bitmap
    IN  [r |-> IF free = {} THEN NOBLK ELSE Min(free), f |-> f]

fs_alloc_block(f) ==
    LET free == (FirstData .. TotalBlocks - 1) \ f.bitmap
        b    == Min(free)
    IN  IF free = {} THEN [r |-> NOBLK, f |-> f]
        ELSE [r |-> b, f |-> [f EXCEPT !.bitmap = @ \cup {b}]]

\* fs_free_block for a set of pointers; 0 is no block, NOBLK is refused.
fs_free_block(f, bs) == [f EXCEPT !.bitmap = @ \ (bs \cap (Blocks \ {0}))]

InodeBlock(i) == INODE_TABLE + i \div CELLS

\* The all-zero inode is a zeroed cell.
Inode(f, i) ==
    LET c == Content(f, InodeBlock(i))[i % CELLS]
    IN  IF c = Zero THEN FreeInode ELSE c

fs_read_inode(f, i) == fs_read_block(f, InodeBlock(i))

fs_write_inode(f, i, inode) ==
    LET b == InodeBlock(i)
        g == fs_read_block(f, b)
        c == IF inode = FreeInode THEN Zero ELSE inode
    IN  fs_write_block(g, b, [Content(g, b) EXCEPT ![i % CELLS] = c])

fs_alloc_inode(f) ==
    LET free == {i \in Inodes : Inode(f, i).type = 0}
        last == IF free = {} THEN TotalInodes - 1 ELSE Min(free)
    IN  [r |-> IF free = {} THEN NOINODE ELSE Min(free),
         f |-> FoldLeft(fs_read_inode, f, [j \in 1 .. last + 1 |-> j - 1])]

fs_free_inode(f, i) ==
    LET old == Inode(f, i)
        g   == fs_free_block(fs_read_inode(f, i), {old.blocks[k] : k \in Direct})
    IN  fs_write_inode(g, i, FreeInode)

---------------------------------------------------------------------------
\* Directories.

\* The entries of a directory: its blocks up to the first null pointer.
Slots(inode) ==
    {s \in 0 .. DIRECT * CELLS - 1 : \A k \in 0 .. s \div CELLS : inode.blocks[k] # 0}

SlotCell(f, inode, s) ==
    LET b == inode.blocks[s \div CELLS]
    IN  IF b = NOBLK THEN Zero ELSE Content(f, b)[s % CELLS]

\* entries[i].inode != 0 for a cell that was written as an entry.
IsEntry(c) == c \notin Values \cup {Zero} /\ c.inode # 0

\* The slots of a directory that hold an entry.
Used(f, inode) == {s \in Slots(inode) : IsEntry(SlotCell(f, inode, s))}

\* Reads the directory's blocks in order up to the first of the slots found.
ScanDir(f, inode, found) ==
    LET seen  == IF found = {} THEN Slots(inode) ELSE 0 .. Min(found)
        read  == [k \in 1 .. Cardinality({s \div CELLS : s \in seen}) |-> inode.blocks[k - 1]]
    IN  [r |-> IF found = {} THEN -1 ELSE Min(found), f |-> FoldLeft(fs_read_block, f, read)]

fs_find_in_dir(f, n) ==
    LET root == Inode(f, Root)
        g    == fs_read_inode(f, Root)
        s    == ScanDir(g, root, {x \in Used(g, root) : SlotCell(g, root, x).name = n})
    IN  CASE root.type # DIRECTORY -> [r |-> -1, f |-> g]
          [] root.type = DIRECTORY /\ s.r = -1 -> s
          [] OTHER -> [r |-> SlotCell(g, root, s.r).inode, f |-> s.f]

\* The root directory with its first block allocated and zeroed if it had none.
RootWithBlock(f) ==
    LET root == Inode(f, Root)
        new  == fs_alloc_block(f)
    IN  IF root.blocks[0] # 0 THEN [r |-> root, f |-> f]
        ELSE [r |-> [root EXCEPT !.blocks[0] = new.r], f |-> fs_write_block(new.f, new.r, ZeroBlock)]

\* The first free entry of block b of the root directory becomes n: added.
PutEntry(f, root, b, n, i) ==
    LET buf  == IF b = NOBLK THEN ZeroBlock ELSE Content(f, b)
        free == {c \in Cell : buf[c] \notin Values /\ ~IsEntry(buf[c])}
        ent  == IF free = {} THEN buf ELSE [buf EXCEPT ![Min(free)] = [name |-> n, inode |-> i]]
    IN  [full |-> free = {}, f |-> f, added |-> fs_write_block(f, b, ent),
         root |-> [root EXCEPT !.size = @ + 1]]

EnterIn(made, n, i) ==
    PutEntry(fs_read_block(made.f, made.r.blocks[0]), made.r, made.r.blocks[0], n, i)

\* Inode i is written with its type, then entered in the root directory.
AddEntry(f, n, i, type) ==
    EnterIn(RootWithBlock(fs_read_inode(
        fs_write_inode(f, i, [FreeInode EXCEPT !.type = type]), Root)), n, i)

SaveRoot(new) == fs_write_inode(new.added, Root, new.root)

\* The first entry with inode number i is replaced by cell.
EditEntry(f, i, cell) ==
    LET root == Inode(f, Root)
        g    == fs_read_inode(f, Root)
        s    == ScanDir(g, root, {x \in Used(g, root) : SlotCell(g, root, x).inode = i})
        b    == root.blocks[s.r \div CELLS]
    IN  IF s.r = -1 THEN s.f
        ELSE fs_write_block(s.f, b, [Content(s.f, b) EXCEPT ![s.r % CELLS] = cell])

---------------------------------------------------------------------------
\* Files.  fd is the handle the call uses or, in fs_open, the first free one.

OpenInode(f, fd, i, inode, fl) ==
    LET cut  == fl.trunc /\ inode.size > 0
        size == IF cut THEN 0 ELSE inode.size
        g    == IF cut
                THEN fs_write_inode(fs_free_block(f, {inode.blocks[k] : k \in Direct}), i,
                                    [FreeInode EXCEPT !.type = inode.type])
                ELSE f
    IN  [g EXCEPT !.files[fd] =
            [in_use |-> TRUE, inode |-> i, r |-> fl.r, w |-> fl.w, size |-> size,
             position |-> IF fl.append THEN size ELSE 0]]

OpenRead(f, fd, i, fl) == OpenInode(fs_read_inode(f, i), fd, i, Inode(f, i), fl)

OpenFound(look, alloc, fd, n, fl) ==
    CASE look.r # -1 -> OpenRead(look.f, fd, look.r, fl)
      [] look.r = -1 /\ ~fl.creat -> look.f
      [] look.r = -1 /\ fl.creat /\ alloc.r = NOINODE -> alloc.f
      [] OTHER -> OpenRead(SaveRoot(AddEntry(alloc.f, n, alloc.r, REGULAR)), fd, alloc.r, fl)

fs_open(f, fd, n, fl) ==
    LET look == fs_find_in_dir(f, n)
    IN  OpenFound(look, fs_alloc_inode(look.f), fd, n, fl)

fs_close(f, fd) == [fs_sync_cache(f) EXCEPT !.files[fd] = Closed]

\* One pass of the loop of fs_read: the part of the request in block k.
ReadChunk(a, k) ==
    LET b == a.inode.blocks[k]
        n == Min({CELLS - (a.pos % CELLS), a.left})
    IN  IF a.left = 0 \/ a.pos \div CELLS # k \/ b = 0 THEN a
        ELSE [a EXCEPT !.f = fs_read_block(@, b), !.pos = @ + n, !.left = @ - n]

fs_read(f, fd, n) ==
    LET h     == f.files[fd]
        inode == Inode(f, h.inode)
        left  == IF inode.size > h.position THEN Min({n, inode.size - h.position}) ELSE 0
        a     == FoldLeft(ReadChunk, [f |-> fs_read_inode(f, h.inode), inode |-> inode,
                                      pos |-> h.position, left |-> left],
                          [k \in 1 .. DIRECT |-> k - 1])
    IN  [a.f EXCEPT !.files[fd].position = a.pos]

\* One pass of the loop of fs_write: block k is allocated and zeroed if the file
\* has none there, then read, changed and written.
WriteChunk(a, k, v) ==
    LET new  == a.inode.blocks[k] = 0
        al   == fs_alloc_block(a.f)
        b    == IF new THEN al.r ELSE a.inode.blocks[k]
        n    == Min({CELLS - (a.pos % CELLS), a.left})
        f1   == IF new THEN fs_write_block(al.f, b, ZeroBlock) ELSE a.f
        f2   == fs_read_block(f1, b)
        at   == (a.pos % CELLS) .. (a.pos % CELLS) + n - 1
        buf  == IF b = NOBLK THEN ZeroBlock ELSE Content(f2, b)
        c    == [x \in Cell |-> IF x \in at THEN v ELSE buf[x]]
        a1   == [a EXCEPT !.inode.blocks[k] = b]
    IN  CASE a.left = 0 \/ a.pos \div CELLS # k -> a
          [] a.left > 0 /\ a.pos \div CELLS = k /\ new /\ b = NOBLK -> a1
          [] OTHER -> [a1 EXCEPT !.f = fs_write_block(f2, b, c), !.pos = @ + n, !.left = @ - n]

fs_write(f, fd, v, n) ==
    LET h == f.files[fd]
        a == FoldLeft(LAMBDA x, k : WriteChunk(x, k, v),
                      [f |-> fs_read_inode(f, h.inode), inode |-> Inode(f, h.inode),
                       pos |-> h.position, left |-> n],
                      [k \in 1 .. DIRECT |-> k - 1])
        grown == a.pos > a.inode.size
        g == IF grown THEN fs_write_inode(a.f, h.inode, [a.inode EXCEPT !.size = a.pos]) ELSE a.f
    IN  [g EXCEPT !.files[fd].position = a.pos,
                  !.files[fd].size = IF grown THEN a.pos ELSE @]

\* base is 0, the position or the handle's own copy of the size.
fs_seek(f, fd, base, offset) ==
    [f EXCEPT !.files[fd].position = IF base + offset < 0 THEN 0 ELSE base + offset]

fs_truncate(f, fd, size) ==
    LET i     == f.files[fd].inode
        inode == Inode(f, i)
        g     == fs_read_inode(f, i)
        gone  == IF size < inode.size
                 THEN {k \in Direct : k >= (size + CELLS - 1) \div CELLS} ELSE {}
        new   == [inode EXCEPT !.size = size,
                     !.blocks = [k \in Direct |-> IF k \in gone THEN 0 ELSE @[k]]]
    IN  [fs_write_inode(fs_free_block(g, {inode.blocks[k] : k \in gone}), i, new)
            EXCEPT !.files[fd].size = size]

fs_remove(f, n) ==
    LET look == fs_find_in_dir(f, n)
    IN  IF look.r = -1 THEN look.f
        ELSE EditEntry(fs_free_inode(look.f, look.r), look.r, Zero)

fs_stat(f, n) ==
    LET look == fs_find_in_dir(f, n)
    IN  IF look.r = -1 THEN look.f ELSE fs_read_inode(look.f, look.r)

fs_rename(f, old, n) ==
    LET look == fs_find_in_dir(f, old)
        dup  == fs_find_in_dir(look.f, n)
    IN  CASE look.r = -1 -> look.f
          [] look.r # -1 /\ dup.r # -1 -> dup.f
          [] OTHER -> EditEntry(dup.f, look.r, [name |-> n, inode |-> look.r])

\* An entry that finds no room gives the inode back.
MkdirAdded(new, i) == IF new.full THEN fs_free_inode(new.f, i) ELSE SaveRoot(new)

MkdirFound(look, alloc, n) ==
    CASE look.r # -1 -> look.f
      [] look.r = -1 /\ alloc.r = NOINODE -> alloc.f
      [] OTHER -> MkdirAdded(AddEntry(alloc.f, n, alloc.r, DIRECTORY), alloc.r)

fs_mkdir(f, n) ==
    LET look == fs_find_in_dir(f, n)
    IN  MkdirFound(look, fs_alloc_inode(look.f), n)

fs_rmdir(f, n) ==
    LET look  == fs_find_in_dir(f, n)
        inode == Inode(look.f, look.r)
        g     == fs_read_inode(look.f, look.r)
    IN  CASE look.r = -1 -> look.f
          [] look.r # -1 /\ (inode.type # DIRECTORY \/ inode.size > 0) -> g
          [] OTHER -> EditEntry(fs_free_inode(g, look.r), look.r, Zero)

\* i is the root or what fs_find_in_dir returned.
OpenDirInode(f, i) ==
    LET g == fs_read_inode(f, i)
    IN  IF i # Root /\ Inode(f, i).type # DIRECTORY THEN g
        ELSE [(IF i = Root THEN f ELSE g) EXCEPT
                !.dir = [in_use |-> TRUE, inode |-> i, position |-> 0]]

fs_opendir(f, n) ==
    LET look == fs_find_in_dir(f, n)
    IN  IF look.r = -1 THEN look.f ELSE OpenDirInode(look.f, look.r)

\* Returns the entry number dir->position of those in use.
fs_readdir(f) ==
    LET inode == Inode(f, f.dir.inode)
        g     == fs_read_inode(f, f.dir.inode)
        used  == Used(f, inode)
        nth   == {s \in used : Cardinality({t \in used : t < s}) = f.dir.position}
        s     == ScanDir(g, inode, nth)
    IN  CASE inode.type # DIRECTORY -> g
          [] inode.type = DIRECTORY /\ nth = {} -> s.f
          [] OTHER -> [fs_read_inode(s.f, SlotCell(f, inode, Min(nth)).inode)
                        EXCEPT !.dir.position = @ + 1]

---------------------------------------------------------------------------

\* The file a name stands for, and the data a reader of it gets.
Lookup(f, n) == fs_find_in_dir(f, n).r

Data(f, i) ==
    LET inode == Inode(f, i)
    IN  [p \in 0 .. inode.size - 1 |->
            LET k == p \div CELLS
            IN  IF k \in Direct /\ inode.blocks[k] \notin {0, NOBLK}
                THEN Content(f, inode.blocks[k])[p % CELLS] ELSE Zero]

Snapshot(f) ==
    [n \in Names |-> LET i == Lookup(f, n)
                     IN  IF i = -1 \/ Inode(f, i).type # REGULAR THEN None
                         ELSE [inode |-> i, data |-> Data(f, i)]]

\* A call that changes the named files, or the files with these inodes, gives up
\* what was settled about them.
Forget(names, inodes) ==
    [n \in Names |-> IF n \in names \/ (settled[n] # None /\ settled[n].inode \in inodes)
                     THEN None ELSE settled[n]]

\* A call that turns fs into g either ends or is cut short by a power failure,
\* which finds one of the disk images the call left behind.
Call(g, keep, done, dmg) ==
    \/ fs' = [g EXCEPT !.trail = {}] /\ settled' = done /\ damaged' = dmg
    \/ \E d \in g.trail : fs' = fs_init(d) /\ settled' = keep /\ damaged' = TRUE

\* A call that never writes to the device.
Quiet(g) == fs' = g /\ UNCHANGED <<settled, damaged>>

Count == calls < MaxCalls /\ calls' = calls + 1

Step(g, names, inodes) ==
    /\ Count
    /\ Call(g, Forget(names, inodes), Forget(names, inodes), damaged)

FreeFd == {i \in 1 .. MaxFiles : ~fs.files[i].in_use}
OpenFd == {i \in 1 .. MaxFiles : fs.files[i].in_use}

\* The flag combinations in use; r and w are the two bits of FS_O_RDWR.
Flags ==
    LET F(r, w, c, t, a) == [r |-> r, w |-> w, creat |-> c, trunc |-> t, append |-> a]
    IN  {F(TRUE, FALSE, FALSE, FALSE, FALSE), F(TRUE, TRUE, TRUE, FALSE, FALSE),
         F(TRUE, TRUE, TRUE, TRUE, FALSE), F(FALSE, TRUE, FALSE, FALSE, TRUE)}

\* On a device that is not mounted, as every caller in the repository does.
Format ==
    /\ ~fs.mounted /\ UNCHANGED calls
    /\ Call(fs_format(fs), Forget(Names, {}), Forget(Names, {}), fs.cached # NOBLK)

\* Between two calls.
PowerFailure ==
    /\ fs' = fs_init(fs.disk)
    /\ damaged' = (damaged \/ fs.mounted)
    /\ UNCHANGED <<settled, calls>>

Mount ==
    ~fs.mounted /\ fs.disk[0] /\ Quiet(fs_mount(fs)) /\ UNCHANGED calls

Unmount ==
    /\ fs.mounted /\ UNCHANGED calls
    /\ LET g == fs_unmount(fs)
       IN  Call(g, settled, IF damaged THEN settled ELSE Snapshot(g), damaged)

Open(n, fl) ==
    /\ fs.mounted /\ FreeFd # {} /\ ~fs.dir.in_use
    /\ fl.creat /\ Lookup(fs, n) = -1 => Inode(fs, Root).size < MaxCreates
    /\ Step(fs_open(fs, Min(FreeFd), n, fl),
            IF fl.trunc \/ Lookup(fs, n) = -1 THEN {n} ELSE {}, {})

Close(fd) == UNCHANGED calls /\ Call(fs_close(fs, fd), settled, settled, damaged)

Read(fd, n) == fs.mounted /\ fs.files[fd].r /\ Step(fs_read(fs, fd, n), {}, {})

Write(fd, v, n) ==
    /\ fs.mounted /\ fs.files[fd].w
    /\ fs.files[fd].position + n <= MaxSize
    /\ Step(fs_write(fs, fd, v, n), {}, {fs.files[fd].inode})

Seek(fd) ==
    \E base \in {0, fs.files[fd].position, fs.files[fd].size}, offset \in {-1, CELLS} :
        base + offset <= MaxSize /\ Count /\ Quiet(fs_seek(fs, fd, base, offset))

Sync(fd) == Step(fs_sync_cache(fs), {}, {})

Truncate(fd, size) ==
    fs.mounted /\ Step(fs_truncate(fs, fd, size), {}, {fs.files[fd].inode})

Unlink(n) == fs.mounted /\ Step(fs_remove(fs, n), {n}, {})

Rename(old, n) == fs.mounted /\ Step(fs_rename(fs, old, n), {old}, {})

Mkdir(n) ==
    /\ fs.mounted /\ Inode(fs, Root).size < MaxCreates
    /\ Step(fs_mkdir(fs, n), {}, {})

Rmdir(n) == fs.mounted /\ Step(fs_rmdir(fs, n), {}, {})

Stat(n) == fs.mounted /\ Step(fs_stat(fs, n), {}, {})

Opendir(n) == fs.mounted /\ ~fs.dir.in_use /\ OpenFd = {} /\ Step(fs_opendir(fs, n), {}, {})

OpendirRoot == fs.mounted /\ ~fs.dir.in_use /\ OpenFd = {} /\ Count /\ Quiet(OpenDirInode(fs, Root))

Readdir == fs.mounted /\ fs.dir.in_use /\ Step(fs_readdir(fs), {}, {})

Closedir == fs.dir.in_use /\ Count /\ Quiet([fs EXCEPT !.dir = ClosedDir])

Init ==
    /\ fs = fs_init(ErasedDisk)
    /\ settled = [n \in Names |-> None]
    /\ damaged = FALSE
    /\ calls = 0

Next ==
    \/ PowerFailure \/ Format \/ Mount \/ Unmount
    \/ \E n \in Names : Unlink(n) \/ Mkdir(n) \/ Rmdir(n) \/ Stat(n) \/ Opendir(n)
    \/ \E n \in Names, fl \in Flags : Open(n, fl)
    \/ \E old, n \in Names : Rename(old, n)
    \/ \E fd \in OpenFd :
          \/ Close(fd) \/ Seek(fd) \/ Sync(fd)
          \/ \E n \in 1 .. CELLS : Read(fd, n) \/ \E v \in Values : Write(fd, v, n)
          \/ \E size \in Sizes : Truncate(fd, size)
    \/ OpendirRoot \/ Readdir \/ Closedir

Spec == Init /\ [][Next]_vars

---------------------------------------------------------------------------
\* The cache, the handles and the bitmap have their types, and a cache that is
\* to be written back belongs to a mounted device.
TypeOK ==
    /\ fs.cached \in 0 .. NOBLK /\ fs.bitmap \subseteq Blocks
    /\ fs.dirty => fs.mounted
    /\ fs.files \in [1 .. MaxFiles -> fs_file_handle_t]
    /\ fs.dir \in struct_fs_dir_s
    /\ \A i \in Inodes : Inode(fs, i) \in fs_inode_t

\* Until memory and disk come apart, no block belongs to two files or twice to
\* one, and every block of a file is a data block that fs_alloc_block will not
\* hand out again: allocation, truncation, removal, remounting and the bitmap
\* that is only saved by fs_unmount agree.
NoSharedBlocks ==
    fs.mounted /\ ~damaged =>
        LET Refs == {r \in Inodes \X Direct : Inode(fs, r[1]).blocks[r[2]] \notin {0, NOBLK}}
            B(r) == Inode(fs, r[1]).blocks[r[2]]
        IN  \A r \in Refs : /\ B(r) \in FirstData .. TotalBlocks - 1 /\ B(r) \in fs.bitmap
                            /\ \A q \in Refs : B(q) = B(r) => q = r

\* A file that was there at a clean fs_unmount, and that no call has touched
\* since, can be read whatever happens to other files and wherever the power
\* fails: in the middle of a call, with the cache unwritten, or after several
\* dirty mounts in a row.
SettledDataSurvives ==
    \A n \in Names : settled[n] # None =>
        Lookup(fs, n) = settled[n].inode /\ Data(fs, settled[n].inode) = settled[n].data

\* As long as memory and disk agree, the contents of a regular file that exists
\* before and after a call change only if a handle is open on it: no call writes
\* into another file's blocks, whatever it allocates, frees or evicts.
OnlyOpenFilesChange ==
    [][~damaged /\ fs.mounted /\ fs'.mounted /\ calls' # calls =>
        \A i \in Inodes :
            /\ Inode(fs, i).type = REGULAR /\ Inode(fs', i).type = REGULAR
            /\ Data(fs', i) # Data(fs, i)
            => \E fd \in OpenFd \cup OpenFd' : fs'.files[fd].inode = i]_vars
=============================================================================
