-------------------------------- MODULE Uhfs --------------------------------
(***************************************************************************)
(* The file system fs/uhfs.c on a block device (drivers/block/ramdisk.c    *)
(* through drivers/device/device.c), used by one task.  A disk has a super *)
(* block 0 and storage regions; the first block of a region is its cluster *)
(* map block, which holds one entry for each block of the region.          *)
(*                                                                         *)
(* Every write to the disk is a step, and the machine may stop between two *)
(* steps.  Reads are part of the step that uses them.  Of a directory      *)
(* entry the name, the attributes that steer the code and the first block  *)
(* are kept; files have one block, since hf_fwrite() is not written yet.   *)
(***************************************************************************)
EXTENDS Integers, Sequences, FiniteSets, SequencesExt, TLC

CONSTANTS
    n_blocks,       \* blocks of the disk
    MapEntries,     \* entries of a cluster map block, block_size / 4
    DirEntries,     \* entries of a directory block, block_size / 64
    DirNewPaths,    \* the paths given to hf_mkdir()
    FileNewPaths,   \* the paths given to hf_create()
    DirPaths,       \* the paths given to hf_rmdir()
    OpenPaths,      \* the paths given to hf_opendir()
    FilePaths,      \* the paths given to hf_unlink() and hf_chmod()
    Renames,        \* the paths given to hf_rename(), each with a new name
    Modes,          \* the attributes given to hf_chmod()
    Careful,        \* whether the caller avoids what the calls do not check
    MaxVolumes,     \* how often hf_mkfs() is called
    MaxCrashes      \* how often the machine stops

ASSUME UhfsAssumption == /\ n_blocks > 3 /\ MapEntries > 2 /\ DirEntries > 1
                         /\ Careful \in BOOLEAN /\ MaxVolumes \in Nat /\ MaxCrashes \in Nat

UHFS_FIXDBLK == -4
UHFS_EOCHBLK == -2
UHFS_FREEBLK == -1
first_cmb == 1
root_dir_block == 2

Blocks == 1..(n_blocks - 1)

(* The cluster map block of a block, and the place of its entry there.     *)
cmb(b) == ((b - 1) \div MapEntries) * MapEntries + 1
index(b) == (b - 1) % MapEntries

(* The cluster map blocks, and the blocks that can be allocated. *)
Maps == {b \in Blocks : index(b) = 0}
DataBlocks == Blocks \ Maps
MapSlots == 1..(MapEntries * (((n_blocks - 2) \div MapEntries) + 1))

VARIABLES
    super,      \* the super block has been written
    cmap,       \* the cluster map blocks: entry index(b) of cmb(b) is cmap[b]
    dirs,       \* the other blocks, read as directory entries
    mounted,    \* dev->ptr is set
    op,         \* the call in progress, NoOp if none
    desc,       \* the open directory
    volumes, crashes,
    intact      \* no state of the code: hf_mkfs() has completed, and
                \* hf_rename() has hidden no entry since (see rename_entry)

vars == <<super, cmap, dirs, mounted, op, desc, volumes, crashes, intact>>

Paths == DirNewPaths \cup FileNewPaths \cup DirPaths \cup OpenPaths \cup FilePaths \cup {r[1] : r \in Renames}
Names == UNION {Range(p) : p \in Paths} \cup {r[2] : r \in Renames} \cup {""}
Entry == [name : Names, dir : BOOLEAN, free : BOOLEAN, first : 0..(n_blocks - 1)]

(* Directory blocks are cleaned to free entries, others to zeroes, which   *)
(* are entries in use without a name when read as a directory.             *)
FreeEntry == [name |-> "", dir |-> FALSE, free |-> TRUE, first |-> 0]
Zeroes == [i \in 1..DirEntries |-> [FreeEntry EXCEPT !.free = FALSE]]
EmptyDir == [i \in 1..DirEntries |-> FreeEntry]

NoOp == [call |-> "none"]
Halted == [call |-> "halted"]
Closed == [open |-> FALSE, block |-> 0, offset |-> 0, eof |-> FALSE, buffer |-> 0, first |-> 0, listed |-> << >>]

(* A fresh disk, filled with zeroes. *)
Init ==
    /\ super = FALSE
    /\ cmap = [b \in MapSlots |-> 0]
    /\ dirs = [b \in 0..(n_blocks - 1) |-> Zeroes]
    /\ intact = FALSE
    /\ mounted = FALSE
    /\ op = NoOp
    /\ desc = Closed
    /\ volumes = 0
    /\ crashes = 0

(* The only block buffer in memory now holds block b; this matters to an   *)
(* open directory.                                                         *)
Buffered(b) == desc' = IF desc.open THEN [desc EXCEPT !.buffer = b] ELSE desc

WriteMap(b, value) == cmap' = [cmap EXCEPT ![b] = value] /\ UNCHANGED dirs /\ Buffered(cmb(b))
WriteDir(b, entries) == dirs' = [dirs EXCEPT ![b] = entries] /\ UNCHANGED cmap /\ Buffered(b)
Returns == op' = NoOp
Ready == mounted /\ op = NoOp /\ (Careful => ~desc.open)

-----------------------------------------------------------------------------
(* Searching. *)

(* Mutant: only the first block of a directory is searched. *)
Visited_first(dir_blk, chain_blk) == <<[blk |-> dir_blk, chain |-> chain_blk]>>

(* The blocks of a directory as searchdirectory() visits them, with the    *)
(* cluster map block it looks in for the next one.  A next block beyond    *)
(* the disk ends the search; a next block 0, in a map block that was not   *)
(* written yet, sends it out of the disk, where the driver halts, and a    *)
(* chain that comes back to itself has no end.                             *)
Visited(dir_blk, chain_blk) ==
    LET onward(w, next) == IF next \in Blocks THEN Append(w, [blk |-> next, chain |-> cmb(next)]) ELSE w
        step(w, last) == onward(w, cmap[last.chain + index(last.blk)])
        visit(w, n) == IF Len(w) < n THEN w ELSE step(w, Last(w))
        walk[n \in 0..n_blocks] == IF n = 0 THEN <<[blk |-> dir_blk, chain |-> chain_blk]>> ELSE visit(walk[n - 1], n)
    IN walk[n_blocks]

(* One name of the path: it is a directory to go on with, a file, or       *)
(* missing.  Going on keeps the cluster map block of the parent.           *)
Descend(st, name) ==
    LET hits(w) == {<<j, i>> \in (1..Len(w)) \X (1..DirEntries) :
                       ~dirs[w[j].blk][i].free /\ dirs[w[j].blk][i].name = name}
        first(H) == CHOOSE h \in H : \A g \in H : h[1] < g[1] \/ (h[1] = g[1] /\ h[2] <= g[2])
        enter(v, e) == [st EXCEPT !.pblock = v.blk, !.ppath = name, !.dir = e.first, !.buffer = v.blk,
                                  !.chain = IF e.dir THEN v.chain ELSE @, !.ret = IF e.dir THEN 0 ELSE 1]
        found(w, h) == enter(w[h[1]], dirs[w[h[1]].blk][h[2]])
        lost(w) == Len(w) > n_blocks \/ cmap[Last(w).chain + index(Last(w).blk)] = 0
        look(w, H) == IF H # {} THEN found(w, first(H))
                      ELSE [st EXCEPT !.missing = TRUE, !.buffer = Last(w).blk, !.ret = IF lost(w) THEN 2 ELSE 0]
        search(w) == look(w, hits(w))
    IN IF st.ret # 0 THEN st
       ELSE IF st.missing THEN [st EXCEPT !.ret = -1]
       ELSE search(Visited(st.dir, st.chain))

(* 0: the last name is missing, pblock holds the entry ppath of the        *)
(* directory dir it would be in; 1: the path leads to the file at dir;     *)
(* -1: the path exists or is wrong; 2: the search never returns.           *)
searchdirectory(path) ==
    LET result(st) == IF st.ret = 0 /\ ~st.missing THEN [st EXCEPT !.ret = -1] ELSE st
    IN result(FoldLeft(Descend, [ret |-> 0, missing |-> FALSE, chain |-> first_cmb, dir |-> root_dir_block,
                                 pblock |-> 0, ppath |-> "", buffer |-> 0], path))

(* The blocks of a chain, followed through the right cluster map blocks.   *)
(* From one that has no end of chain a call does not return.               *)
Chain(b) ==
    LET onward(w, next) == IF next \in Blocks THEN Append(w, next) ELSE w
        visit(w, n) == IF Len(w) < n THEN w ELSE onward(w, cmap[Last(w)])
        walk[n \in 0..n_blocks] == IF n = 0 THEN <<b>> ELSE visit(walk[n - 1], n)
    IN walk[n_blocks]
Ends(chain) == cmap[Last(chain)] = UHFS_EOCHBLK

FreeSlots(b) == {i \in 1..DirEntries : dirs[b][i].free}
Least(S) == CHOOSE x \in S : \A y \in S : x <= y

(* A call that begins by searching its path: it goes on with next(r) if    *)
(* the search returned what it wants, and fails otherwise.                 *)
Search(path, wanted, next(_)) ==
    /\ \E r \in {searchdirectory(path)} :
          CASE r.ret = wanted -> op' = next(r) /\ (IF next(r) = NoOp THEN Buffered(r.buffer) ELSE UNCHANGED desc)
            [] r.ret = 2 -> op' = Halted /\ UNCHANGED desc
            [] OTHER -> UNCHANGED op /\ Buffered(r.buffer)
    /\ UNCHANGED <<super, cmap, dirs, mounted, volumes, crashes, intact>>

-----------------------------------------------------------------------------
(* Volumes. *)

(* The super block is written first. *)
hf_mkfs ==
    /\ ~mounted
    /\ op = NoOp
    /\ volumes < MaxVolumes
    /\ volumes' = volumes + 1
    /\ super' = TRUE
    /\ op' = [call |-> "mkfs", k |-> first_cmb]
    /\ intact' = FALSE
    /\ UNCHANGED <<cmap, dirs, mounted, desc, crashes>>

(* Then the blocks of each region in order, its cluster map block and its  *)
(* data blocks, each by a write of its own.                                *)
mkfs_map(k) ==
    /\ cmap' = [b \in MapSlots |->
                   IF cmb(b) # k THEN cmap[b]
                   ELSE IF b = k THEN (IF k + MapEntries < n_blocks THEN k + MapEntries ELSE UHFS_EOCHBLK)
                   ELSE IF b < n_blocks THEN UHFS_FREEBLK ELSE UHFS_FIXDBLK]
    /\ UNCHANGED dirs

mkfs_block ==
    /\ op.call = "mkfs"
    /\ op.k < n_blocks
    /\ IF op.k \in Maps THEN mkfs_map(op.k) ELSE dirs' = [dirs EXCEPT ![op.k] = Zeroes] /\ UNCHANGED cmap
    /\ op' = [op EXCEPT !.k = @ + 1]
    /\ UNCHANGED <<super, mounted, desc, volumes, crashes, intact>>

mkfs_root ==
    /\ op.call = "mkfs"
    /\ op.k >= n_blocks
    /\ WriteDir(root_dir_block, EmptyDir)
    /\ op' = [call |-> "mkfs_mark"]
    /\ UNCHANGED <<super, mounted, volumes, crashes, intact>>

mkfs_mark ==
    /\ op.call = "mkfs_mark"
    /\ WriteMap(first_cmb + first_cmb, UHFS_EOCHBLK)
    /\ intact' = TRUE
    /\ Returns
    /\ UNCHANGED <<super, mounted, volumes, crashes>>

(* All that is looked at is the super block: the disk of an hf_mkfs() that *)
(* did not complete can be mounted.                                        *)
hf_mount ==
    /\ ~mounted
    /\ super
    /\ op = NoOp
    /\ mounted' = TRUE
    /\ UNCHANGED <<super, cmap, dirs, op, desc, volumes, crashes, intact>>

hf_umount ==
    /\ Ready
    /\ mounted' = FALSE
    /\ UNCHANGED <<super, cmap, dirs, op, desc, volumes, crashes, intact>>

-----------------------------------------------------------------------------
(* hf_mkdir() and hf_create() *)

make(call, path) ==
    /\ Ready
    /\ Search(path, 0, LAMBDA r : [call |-> call, pc |-> "find", name |-> Last(path), at |-> r.dir])

hf_mkdir(path) == make("mkdir", path)
hf_create(path) == make("create", path)

Making == op.call \in {"mkdir", "create"}

(* getfreeblock(): the first free block of the cluster map blocks, as they *)
(* are chained, is marked as the end of a chain; without one the call      *)
(* fails.                                                                  *)
MapChain == Chain(first_cmb)
FreeBlocks == {b \in MapSlots : index(b) # 0 /\ cmb(b) \in Range(MapChain) /\ cmap[b] = UHFS_FREEBLK}

(* Mutant: the cluster map block is not written back. *)
getfreeblock_unwritten(next) ==
    /\ UNCHANGED <<cmap, dirs>>
    /\ Buffered(first_cmb)
    /\ op' = IF FreeBlocks = {} THEN NoOp ELSE [next EXCEPT !.k = Least(FreeBlocks)]

getfreeblock(next) ==
    IF FreeBlocks # {} THEN WriteMap(Least(FreeBlocks), UHFS_EOCHBLK) /\ op' = [next EXCEPT !.k = Least(FreeBlocks)]
    ELSE /\ op' = IF Ends(MapChain) THEN NoOp ELSE Halted
         /\ UNCHANGED <<cmap, dirs>>
         /\ Buffered(Last(MapChain))

(* A block for the first free entry of the directory; if there is none, a  *)
(* block that extends the directory.                                       *)
make_alloc ==
    /\ Making
    /\ op.pc = "find"
    /\ LET goal == [call |-> op.call, name |-> op.name, k |-> 0]
       IN \E chain \in {Chain(op.at)} : \E with_room \in {SelectSeq(chain, LAMBDA b : FreeSlots(b) # {})} :
             CASE with_room # << >> ->
                     getfreeblock([pc |-> "clean", blk |-> Head(with_room),
                                   slot |-> Least(FreeSlots(Head(with_room)))] @@ goal)
               [] with_room = << >> /\ Ends(chain) -> getfreeblock([pc |-> "ext_clean", last |-> Last(chain)] @@ goal)
               [] OTHER -> op' = Halted /\ UNCHANGED <<cmap, dirs, desc>>
    /\ UNCHANGED <<super, mounted, volumes, crashes, intact>>

make_clean ==
    /\ Making
    /\ op.pc \in {"clean", "ext_clean"}
    /\ WriteDir(op.k, IF op.pc = "clean" /\ op.call = "create" THEN Zeroes ELSE EmptyDir)
    /\ op' = [op EXCEPT !.pc = IF @ = "clean" THEN "entry" ELSE "ext_link"]
    /\ UNCHANGED <<super, mounted, volumes, crashes, intact>>

make_entry ==
    /\ Making
    /\ op.pc = "entry"
    /\ WriteDir(op.blk, [dirs[op.blk] EXCEPT ![op.slot] = [name |-> op.name, dir |-> op.call = "mkdir",
                                                          free |-> FALSE, first |-> op.k]])
    /\ Returns
    /\ UNCHANGED <<super, mounted, volumes, crashes, intact>>

make_link ==
    /\ Making
    /\ op.pc = "ext_link"
    /\ WriteMap(op.last, op.k)
    /\ op' = [call |-> op.call, pc |-> "find", name |-> op.name, at |-> op.k]
    /\ UNCHANGED <<super, mounted, volumes, crashes, intact>>

-----------------------------------------------------------------------------
(* hf_rmdir() and hf_unlink(): the entry in the parent first, then the     *)
(* blocks.  hf_rmdir() wants an empty directory, and takes the one that    *)
(* would hold the last name of the path, "." by convention.                *)

Removal(r) == [call |-> "remove", pc |-> "entry", blk |-> r.pblock, name |-> r.ppath, at |-> r.dir]

(* The first block with an entry in use ends the search for one. *)
Empty(b) == FreeSlots(b) = 1..DirEntries
rmdir_empty(r) ==
    LET chain == Chain(r.dir)
    IN IF \E b \in Range(chain) : ~Empty(b) THEN NoOp ELSE IF Ends(chain) THEN Removal(r) ELSE Halted

hf_rmdir(path) ==
    /\ Ready
    /\ Careful => Len(path) > 1
    /\ Search(path, 0, rmdir_empty)

hf_unlink(path) ==
    /\ Ready
    /\ Search(path, 1, Removal)

(* The first entry of the parent block with that name, in use or not. *)
Named(b, name) == {i \in 1..DirEntries : dirs[b][i].name = name}
Update(b, name, change(_)) ==
    IF Named(b, name) = {} THEN UNCHANGED <<cmap, dirs>> /\ Buffered(b)
    ELSE WriteDir(b, [dirs[b] EXCEPT ![Least(Named(b, name))] = change(@)])

remove_entry ==
    /\ op.call = "remove"
    /\ op.pc = "entry"
    /\ Update(op.blk, op.name, LAMBDA e : [e EXCEPT !.free = TRUE])
    /\ op' = [op EXCEPT !.pc = "blocks"]
    /\ UNCHANGED <<super, mounted, volumes, crashes, intact>>

(* Mutant: only the first block of a chain is freed. *)
remove_block_first ==
    /\ op.call = "remove"
    /\ op.pc = "blocks"
    /\ WriteMap(op.at, UHFS_FREEBLK)
    /\ Returns
    /\ UNCHANGED <<super, mounted, volumes, crashes, intact>>

(* A chain that leads to no block sends the driver out of the disk. *)
remove_block ==
    /\ op.call = "remove"
    /\ op.pc = "blocks"
    /\ WriteMap(op.at, UHFS_FREEBLK)
    /\ op' = CASE cmap[op.at] = UHFS_EOCHBLK -> NoOp
               [] cmap[op.at] \in Blocks -> [op EXCEPT !.at = cmap[op.at]]
               [] OTHER -> Halted
    /\ UNCHANGED <<super, mounted, volumes, crashes, intact>>

-----------------------------------------------------------------------------
(* hf_rename() and hf_chmod() *)

(* A careful caller knows that there is no entry of the new name, which is *)
(* all that it can find out.                                               *)
hf_rename(path, new) ==
    /\ Ready
    /\ Careful => searchdirectory(Append(Front(path), new)).ret \in {0, 2}
    /\ Search(path, 1, LAMBDA r : [call |-> "rename", blk |-> r.pblock, name |-> r.ppath, new |-> new])

hf_chmod(path, mode) ==
    /\ Ready
    /\ Search(path, 1, LAMBDA r : [call |-> "chmod", blk |-> r.pblock, name |-> r.ppath, mode |-> mode])

(* The entry is hidden if a freed one before it in the block has the new   *)
(* name: the next removal or renaming finds that one.                      *)
rename_entry ==
    /\ op.call = "rename"
    /\ Update(op.blk, op.name, LAMBDA e : [e EXCEPT !.name = op.new])
    /\ intact' = (intact /\ \A i \in Named(op.blk, op.new) : i >= Least(Named(op.blk, op.name)))
    /\ Returns
    /\ UNCHANGED <<super, mounted, volumes, crashes>>

(* The permissions are replaced; the mode is added to the other attributes. *)
chmod_entry ==
    /\ op.call = "chmod"
    /\ Update(op.blk, op.name, LAMBDA e : [e EXCEPT !.dir = @ \/ "dir" \in op.mode,
                                                    !.free = @ \/ "free" \in op.mode])
    /\ Returns
    /\ UNCHANGED <<super, mounted, volumes, crashes, intact>>

-----------------------------------------------------------------------------
(* Reading a directory. *)

hf_opendir(path) ==
    /\ mounted
    /\ op = NoOp
    /\ ~desc.open
    /\ \E r \in {searchdirectory(path)} :
          /\ r.ret \in {0, 2}
          /\ IF r.ret = 2 THEN op' = Halted /\ UNCHANGED desc
             ELSE desc' = [Closed EXCEPT !.open = TRUE, !.block = r.dir, !.first = r.dir] /\ UNCHANGED op
    /\ UNCHANGED <<super, cmap, dirs, mounted, volumes, crashes, intact>>

(* Mutant: the end is reached with the first entry of the last block. *)
hf_readdir_short ==
    /\ mounted
    /\ op = NoOp
    /\ desc.open
    /\ ~desc.eof
    /\ LET d == IF desc.offset = 0 THEN [desc EXCEPT !.buffer = desc.block, !.block = cmap[desc.block]] ELSE desc
       IN IF desc.offset = 0 /\ desc.block \notin Blocks THEN op' = Halted /\ UNCHANGED desc
          ELSE /\ desc' = [d EXCEPT !.eof = d.block = UHFS_EOCHBLK,
                                    !.listed = Append(@, <<d.buffer, d.offset + 1>>),
                                    !.offset = (@ + 1) % DirEntries]
               /\ UNCHANGED op
    /\ UNCHANGED <<super, cmap, dirs, mounted, volumes, crashes, intact>>

(* A block is read when its first entry is asked for; the other entries    *)
(* are taken from whatever is in the buffer.                               *)
hf_readdir ==
    /\ mounted
    /\ op = NoOp
    /\ desc.open
    /\ ~desc.eof
    /\ LET d == IF desc.offset = 0 THEN [desc EXCEPT !.buffer = desc.block, !.block = cmap[desc.block]] ELSE desc
       IN IF desc.offset = 0 /\ desc.block \notin Blocks THEN op' = Halted /\ UNCHANGED desc
          ELSE /\ desc' = [d EXCEPT !.eof = d.block = UHFS_EOCHBLK /\ d.offset = DirEntries - 1,
                                    !.listed = Append(@, <<d.buffer, d.offset + 1>>),
                                    !.offset = (@ + 1) % DirEntries]
               /\ UNCHANGED op
    /\ UNCHANGED <<super, cmap, dirs, mounted, volumes, crashes, intact>>

hf_closedir ==
    /\ op = NoOp
    /\ desc.open
    /\ desc' = Closed
    /\ UNCHANGED <<super, cmap, dirs, mounted, op, volumes, crashes, intact>>

-----------------------------------------------------------------------------
(* The machine stops and is started again. *)
Crash ==
    /\ crashes < MaxCrashes
    /\ crashes' = crashes + 1
    /\ op' = NoOp
    /\ desc' = Closed
    /\ mounted' = FALSE
    /\ UNCHANGED <<super, cmap, dirs, volumes, intact>>

Next ==
    \/ hf_mkfs \/ mkfs_block \/ mkfs_root \/ mkfs_mark \/ hf_mount \/ hf_umount
    \/ \E path \in DirNewPaths : hf_mkdir(path)
    \/ \E path \in FileNewPaths : hf_create(path)
    \/ make_alloc \/ make_clean \/ make_entry \/ make_link
    \/ \E path \in DirPaths : hf_rmdir(path)
    \/ \E path \in OpenPaths : hf_opendir(path)
    \/ \E path \in FilePaths : \/ hf_unlink(path)
                               \/ \E mode \in Modes : hf_chmod(path, mode)
    \/ \E renaming \in Renames : hf_rename(renaming[1], renaming[2])
    \/ remove_entry \/ remove_block \/ rename_entry \/ chmod_entry
    \/ hf_readdir \/ hf_closedir
    \/ Crash

Spec == Init /\ [][Next]_vars

-----------------------------------------------------------------------------
(* Properties. *)

TypeOK ==
    /\ cmap \in [MapSlots -> Blocks \cup {0, UHFS_FREEBLK, UHFS_EOCHBLK, UHFS_FIXDBLK}]
    /\ \A b \in DOMAIN dirs : \A i \in 1..DirEntries : dirs[b][i] \in Entry
    /\ Making /\ op.pc # "find" => op.k \in DataBlocks
    /\ desc.offset \in 0..(DirEntries - 1)

(* The blocks of the directories that can be reached from the root, and of *)
(* the files in them.                                                      *)
Firsts(b, dir) == {dirs[b][i].first : i \in {i \in 1..DirEntries : ~dirs[b][i].free /\ dirs[b][i].dir = dir}}
Nexts(S) == {cmap[b] : b \in S} \cap Blocks
DirectoryBlocks ==
    LET more(D) == D \cup Nexts(D) \cup UNION {Firsts(b, TRUE) : b \in D}
        grow[n \in 0..n_blocks] == IF n = 0 THEN {root_dir_block} ELSE more(grow[n - 1])
    IN grow[n_blocks]
FileBlocks(D) == UNION {UNION {Range(Chain(f)) : f \in Firsts(b, FALSE)} : b \in D}

(* How often a block is the next one of another block, the first one of an *)
(* entry, or the root.                                                     *)
References(b, D, U) ==
    Cardinality({x \in U : cmap[x] = b})
    + Cardinality({<<x, i>> \in D \X (1..DirEntries) : ~dirs[x][i].free /\ dirs[x][i].first = b})
    + (IF b = root_dir_block THEN 1 ELSE 0)

(* Once hf_mkfs() has completed, wherever the machine stops afterwards, no *)
(* entry of the disk refers to a block that is free, is not there or       *)
(* belongs to another entry: every block that can be reached is allocated  *)
(* and is reached in one way only, and so no call runs out of the disk.    *)
(* What happens when hf_rename() hides an entry behind a freed one of the  *)
(* same name is EntriesAllocated, when hf_mkfs() did not complete RootKept.*)
ChainsSound ==
    /\ TypeOK
    /\ intact =>
        /\ op # Halted
        /\ \A D \in {DirectoryBlocks} : \A U \in {D \cup FileBlocks(D)} : \A b \in U :
              /\ b \in DataBlocks
              /\ cmap[b] \in U \cup {UHFS_EOCHBLK}
              /\ References(b, D, U) = 1

(* "using starting block value found in the directory entry, set all       *)
(* cluster map entries in file's cluster chain to empty blocks",           *)
(* "deallocate the directory entry": when blocks are freed their entry is, *)
(* so no entry in use has a first block that is free.                      *)
EntriesAllocated ==
    mounted => \A b \in DirectoryBlocks : \A first \in Firsts(b, TRUE) \cup Firsts(b, FALSE) :
                   cmap[first] # UHFS_FREEBLK

(* "remove file blocks in the chain on the cluster map THEN the dir entry":*)
(* an entry is freed only when its first block is free.                    *)
BlocksThenEntry ==
    [][\A b \in DirectoryBlocks, i \in 1..DirEntries :
          mounted /\ ~dirs[b][i].free /\ dirs'[b][i].free => cmap[dirs[b][i].first] = UHFS_FREEBLK]_vars

(* Unless the machine stopped in the middle of a call, every block that is *)
(* not free can be reached: calls that fail half way, for want of a block, *)
(* and removals of directories of several blocks lose none.                *)
NoSpaceLost ==
    intact /\ op = NoOp /\ crashes = 0 =>
        \A D \in {DirectoryBlocks} : \A b \in DataBlocks \ (D \cup FileBlocks(D)) : cmap[b] = UHFS_FREEBLK

NamesUnique(first) ==
    \A live \in {{<<b, i>> \in Range(Chain(first)) \X (1..DirEntries) : ~dirs[b][i].free}} :
        \A x, y \in live : dirs[x[1]][x[2]].name = dirs[y[1]][y[2]].name => x = y

(* "check the current directory for a repeated name before creating a      *)
(* sub-directory or file, and abort if this is the case": no two entries   *)
(* of a directory have the same name, in whichever of its blocks they are. *)
UniqueNames ==
    intact => \A first \in {root_dir_block} \cup UNION {Firsts(b, TRUE) : b \in DirectoryBlocks} : NamesUnique(first)

(* The directories with the cluster map block that searchdirectory() has   *)
(* at hand when it comes to them.                                          *)
Searched ==
    LET below(d) == UNION {{<<f, v.chain>> : f \in Firsts(v.blk, TRUE)} : v \in Range(Visited(d[1], d[2]))}
        more(S) == S \cup UNION {below(d) : d \in S}
        grow[n \in 0..n_blocks] == IF n = 0 THEN {<<root_dir_block, first_cmb>>} ELSE more(grow[n - 1])
    IN grow[n_blocks]

(* What the code guarantees of that: no two entries of a directory have    *)
(* the same name if the search comes to it with the cluster map block of   *)
(* its region, however many blocks in other regions it was extended by.    *)
UniqueNamesInRegion ==
    intact => \A d \in Searched : d[2] = cmb(d[1]) => NamesUnique(d[1])

(* "there should always be a root directory!": its block is not free on a  *)
(* mounted volume.                                                         *)
RootKept == mounted => cmap[root_dir_block] # UHFS_FREEBLK

(* A directory that is read to its end has been listed entry by entry,     *)
(* through all of its blocks.                                              *)
ListingComplete ==
    desc.eof => \A chain \in {Chain(desc.first)} :
                    desc.listed = [n \in 1..(Len(chain) * DirEntries) |->
                                      <<chain[((n - 1) \div DirEntries) + 1], ((n - 1) % DirEntries) + 1>>]
=============================================================================
