------------------------------ MODULE FileOps ------------------------------
(***************************************************************************)
(* op_read, op_write, op_truncate and op_ftruncate on one file, with the   *)
(* transfers of disk.c and the copy of the inode that each operation works *)
(* on.  The places of blocks come from ExtentTree, which this module       *)
(* extends: a write that needs a block calls ext4_ext_get_blocks, truncate *)
(* calls ext4_ext_remove_space, and both go on when it has returned.       *)
(*                                                                         *)
(* The kernel lets one worker at a time change a file, and the file has    *)
(* one name, so operations do not overlap.  Blocks of data are read and    *)
(* written through the buffer cache, whose promise is CachedDisk.          *)
(*                                                                         *)
(* A byte is the number of the write that it comes from.                   *)
(***************************************************************************)
EXTENDS ExtentTree

CONSTANTS BS,          \* bytes in a block, super_block_size()
          Requests,    \* offset and size of the reads and writes
          Lengths,     \* lengths to truncate to
          MaxCalls     \* bound: number of operations

ASSUME FileConstants ==
    /\ BS \in Nat \ {0} /\ MaxCalls \in Nat
    /\ Requests \subseteq Nat \X Nat /\ Lengths \subseteq Nat
    /\ \A r \in Requests : r[2] > 0 /\ r[1] \div BS .. (r[1] + r[2] - 1) \div BS \subseteq LBlocks

\* Bytes that no write of this file has put anywhere.
Zero  == 0
Stale == MaxCalls + 1      \* what an earlier owner of a block has left in it
Super == MaxCalls + 2      \* block 0: boot sector and superblock
Junk  == MaxCalls + 3      \* memory behind a block buffer

VARIABLES
    disk,     \* the bytes of each block
    inode,    \* the inode in the inode table
    isize,    \* i_size of the operation's copy; its extents are node[Root]
    idirty,   \* i_data_dirty
    fpc, req, \* where the operation is, and what it was asked (want: a size
              \* before truncate_size)
    ret, head, lblock, buf,     \* locals; head: what first_write has done
    met,      \* history: what the read has met
    calls,    \* number of operations so far
    file,     \* history: the bytes that the file ought to have
    harm      \* history: the damages below that have happened

opVars   == <<fpc, req, ret, head, lblock, buf, met>>
fileVars == <<disk, inode, isize, idirty, calls, file, harm>>
allVars  == <<vars, opVars, fileVars>>

NoReq == [off |-> 0, size |-> 0, want |-> 0]

-----------------------------------------------------------------------------
(* Transfers.                                                                *)

\* The three sections of pread_buffered and pwrite_buffered, for n bytes from
\* offset o of block p: up to a block boundary, whole blocks, the rest.  The
\* whole blocks all go through the buffer of the first one.
First(o, n)  == IF o = 0 THEN 0 ELSE Min({n, BS - o})
Middle(o, n) == ((n - First(o, n)) \div BS) * BS
Overruns(o, n) == Middle(o, n) > BS

\* Seeded fault: the rest is read from the block of the middle section.
PRead_rest(p, o, n) ==
    LET b == IF o = 0 THEN p ELSE p + 1
    IN  [k \in 1 .. n |->
            LET x == k - 1 - First(o, n)
            IN  IF x < 0 THEN disk[p][o + k - 1]
                ELSE IF x >= Middle(o, n) THEN disk[b][x - Middle(o, n)]
                ELSE IF x < BS THEN disk[b][x] ELSE Junk]

PRead(p, o, n) ==
    LET b == IF o = 0 THEN p ELSE p + 1
    IN  [k \in 1 .. n |->
            LET x == k - 1 - First(o, n)
            IN  IF x < 0 THEN disk[p][o + k - 1]
                ELSE IF x >= Middle(o, n) THEN disk[b + x \div BS][x % BS]
                ELSE IF x < BS THEN disk[b][x] ELSE Junk]

\* Whether pwrite_buffered changes byte j of block b.
Reaches(p, o, n, b, j) ==
    LET c == IF o = 0 THEN p ELSE p + 1
        x == (b - c) * BS + j          \* distance from the middle section
    IN  \/ b = p /\ o # 0 /\ o <= j /\ j < o + First(o, n)
        \/ b >= c /\ x >= Middle(o, n) /\ x < n - First(o, n)
        \/ b = c /\ x < Middle(o, n)

PWrite(p, o, n, byte) ==
    [b \in DOMAIN disk |-> [j \in 0 .. BS - 1 |->
        IF Reaches(p, o, n, b, j) THEN byte ELSE disk[b][j]]]

-----------------------------------------------------------------------------
(* The inode.                                                                *)

\* Seeded fault: the length of the extent, wherever in it the block is.
Run_whole(l) == Ext(FindExtent(node, l)).len

\* What extent_get_pblock_new says of a block that has a place: the number of
\* blocks that follow in its extent, itself included.
Run(l) == LET ex == Ext(FindExtent(node, l)) IN ex.len - (l - ex.key)

\* i_blocks of the copy, which every allocation and every release changes.
Blocks == Cardinality(Space \ free)

\* An operation begins: inode_get_by_number and inode_get.
Begin(off, size, want) ==
    /\ fpc = "idle" /\ intact /\ "overrun" \notin harm
    /\ req' = [off |-> off, size |-> size, want |-> want]
    /\ isize' = inode.size
    /\ node' = [node EXCEPT ![Root] = inode.root]
    /\ idirty' = FALSE
    /\ UNCHANGED <<free, dirty, pc, path, i, new, spt, from, ops, map, intact>>

\* Seeded fault: the inode is not written when only its extents have changed.
PutInode_size(size) ==
    /\ isize' = size
    /\ idirty' = FALSE
    /\ inode' = IF size # isize
                THEN [size |-> size, root |-> node[Root], blocks |-> Blocks]
                ELSE inode

\* inode_set_size, if size is new, and inode_put.
PutInode(size) ==
    /\ isize' = size
    /\ idirty' = FALSE
    /\ inode' = IF idirty \/ size # isize
                THEN [size |-> size, root |-> node[Root], blocks |-> Blocks]
                ELSE inode

\* An operation ends; its assertion that it has done what it was asked to.
Finish(good) ==
    /\ fpc' = IF good THEN "idle" ELSE "aborted"
    /\ met' = IF good THEN {} ELSE met
    /\ req' = NoReq /\ ret' = 0 /\ head' = 0 /\ lblock' = 0 /\ buf' = <<>>

-----------------------------------------------------------------------------
(* op_read                                                                   *)

\* truncate_size, with the size of the file n
TruncateSize(size, off, n) ==
    IF off >= n THEN 0 ELSE IF off + size >= n THEN n - off ELSE size

Read(off, size) ==
    /\ Begin(off, TruncateSize(size, off, inode.size), size)
    /\ fpc' = "read"
    /\ lblock' = off \div BS
    /\ UNCHANGED <<ret, head, buf, met, disk, inode, calls, file, harm>>

Left == req.size - ret
Offset == (req.off + ret) % BS       \* not 0 only before first_read, first_write

\* first_read: up to a block boundary.  A block without a place is read from
\* block 0.
FirstRead ==
    /\ fpc = "read" /\ Left > 0 /\ Offset # 0
    /\ LET n == Min({Left, BS - Offset})
       IN  /\ buf' = PRead(Lookup(lblock), Offset, n)
           /\ ret' = n
           /\ lblock' = (req.off + n) \div BS
    /\ met' = met \cup (IF Lookup(lblock) = 0 THEN {"hole"} ELSE {})
    /\ UNCHANGED <<vars, fileVars, fpc, req, head>>

\* A round of the loop: the blocks of one extent.
ReadBlocks ==
    /\ fpc = "read" /\ Left > 0 /\ Offset = 0
    /\ Lookup(lblock) # 0
    /\ LET n == Min({Left, BS * Run(lblock)})
       IN  /\ buf' = buf \o PRead(Lookup(lblock), 0, n)
           /\ ret' = ret + n
           /\ met' = met \cup (IF Overruns(0, n) THEN {"overrun"} ELSE {})
    /\ lblock' = lblock + Run(lblock)
    /\ UNCHANGED <<vars, fileVars, fpc, req, head>>

\* Seeded fault: the step is extent_len blocks.
ReadHole_len ==
    /\ fpc = "read" /\ Left > 0 /\ Offset = 0
    /\ Lookup(lblock) = 0
    /\ met' = met \cup {"hole"}
    /\ UNCHANGED <<vars, fileVars, fpc, req, head, lblock, buf, ret>>

\* A round in a hole: a whole block of zeros, and extent_len is 0.
ReadHole ==
    /\ fpc = "read" /\ Left > 0 /\ Offset = 0
    /\ Lookup(lblock) = 0
    /\ buf' = buf \o [k \in 1 .. BS |-> Zero]
    /\ ret' = ret + BS
    /\ met' = met \cup {"hole"}
    /\ UNCHANGED <<vars, fileVars, fpc, req, head, lblock>>

ReadEnd ==
    /\ fpc = "read" /\ Left <= 0
    /\ Finish(Left = 0)
    /\ UNCHANGED <<vars, fileVars>>

-----------------------------------------------------------------------------
(* op_write                                                                  *)

Write(off, size) ==
    /\ Begin(off, size, size)
    /\ fpc' = "write"
    /\ calls < MaxCalls /\ calls' = calls + 1
    /\ lblock' = off \div BS
    /\ UNCHANGED <<ret, head, buf, met, disk, inode, file, harm>>

\* Bytes go to block p and, in the loop, to the blocks that follow it in its
\* extent; first_write goes up to a block boundary.
Transfer(p, run) ==
    LET o == Offset
        n == Min({Left, IF o # 0 THEN BS - o ELSE BS * run})
    IN  /\ disk' = PWrite(p, o, n, calls)
        /\ ret' = ret + n
        /\ head' = IF o # 0 THEN n ELSE head
        /\ lblock' = IF o # 0 THEN (req.off + n) \div BS ELSE lblock + run
        /\ harm' = harm \cup (IF p = 0 THEN {"block0"} ELSE {})
                        \cup (IF Overruns(o, n) THEN {"overrun"} ELSE {})

\* The block has a place.
WriteFound ==
    /\ fpc = "write" /\ Left > 0
    /\ Lookup(lblock) # 0
    /\ Transfer(Lookup(lblock), Min({Run(lblock), (Left + BS - 1) \div BS}))
    /\ UNCHANGED <<vars, fpc, req, buf, met, inode, isize, idirty, calls, file>>

\* It has none, and ext4_ext_get_blocks is called.
WriteAllocate ==
    /\ fpc = "write" /\ Left > 0
    /\ StartWrite(lblock)
    /\ fpc' = "allocate"
    /\ UNCHANGED <<req, ret, head, lblock, buf, met, fileVars>>

\* No block: the loop is left, but first_write goes on with block 0.
WriteFails ==
    \/ /\ Offset = 0
       /\ fpc' = "write_end"
       /\ UNCHANGED <<ret, head, lblock, disk, harm>>
    \/ /\ Offset # 0
       /\ fpc' = "write"
       /\ Transfer(0, 1)

\* It has returned.
WriteAllocated ==
    /\ fpc = "allocate" /\ pc = "idle"
    /\ idirty' = TRUE
    /\ \/ map[lblock] # 0 /\ Transfer(map[lblock], 1) /\ fpc' = "write"
       \/ map[lblock] = 0 /\ WriteFails
    /\ UNCHANGED <<vars, req, buf, met, inode, isize, calls, file>>

\* The device is full.
WriteRefused ==
    /\ fpc = "write" /\ Left > 0
    /\ RefuseWrite(lblock)
    /\ WriteFails
    /\ UNCHANGED <<req, buf, met, inode, isize, idirty, calls, file>>

\* What POSIX makes of a file when n bytes are written to it, and when it is
\* truncated.
Overwritten(f, off, n, byte) ==
    [k \in 1 .. Max({Len(f), IF n = 0 THEN 0 ELSE off + n}) |->
        IF off < k /\ k <= off + n THEN byte ELSE IF k <= Len(f) THEN f[k] ELSE Zero]
Resized(f, n) == [k \in 1 .. n |-> IF k <= Len(f) THEN f[k] ELSE Zero]

\* The end of the last byte written, where offset has already been advanced
\* by what first_write did, and ret counts it again.
End == req.off + head + ret

WriteEnd ==
    /\ fpc = "write_end" \/ (fpc = "write" /\ Left = 0)
    /\ PutInode(IF isize < End THEN End ELSE isize)
    /\ file' = Overwritten(file, req.off, ret, calls)
    /\ harm' = harm \cup (IF head > 0 /\ isize < End THEN {"size"} ELSE {})
    /\ Finish(Left = 0)
    /\ UNCHANGED <<vars, disk, calls>>

-----------------------------------------------------------------------------
(* op_truncate and op_ftruncate                                              *)

\* Seeded fault: the block of the last bytes goes, too.
FromBlock_floor(length) == length \div BS

\* The first block to be removed.
FromBlock(length) == (length + BS - 1) \div BS

Truncate(length) ==
    /\ Begin(length, 0, 0)
    /\ fpc' = "truncate"
    /\ calls < MaxCalls /\ calls' = calls + 1
    /\ lblock' = FromBlock(length)
    /\ UNCHANGED <<ret, head, buf, met, disk, inode, file, harm>>

\* inode_remove_data_pblock
TruncateTree ==
    /\ fpc = "truncate"
    /\ StartTruncate(lblock) \/ SkipTruncate(lblock)
    /\ fpc' = "truncate_end"
    /\ UNCHANGED <<req, ret, head, lblock, buf, met, fileVars>>

TruncateEnd ==
    /\ fpc = "truncate_end" /\ pc = "idle"
    /\ isize' = req.off /\ idirty' = FALSE
    /\ inode' = [size |-> req.off, root |-> node[Root], blocks |-> Blocks]
    /\ file' = Resized(file, req.off)
    /\ harm' = harm \ {"size"}
    /\ Finish(TRUE)
    /\ UNCHANGED <<vars, disk, calls>>

-----------------------------------------------------------------------------
FileInit ==
    /\ Init
    /\ disk = [b \in Phys \cup {0} |-> [j \in 0 .. BS - 1 |-> IF b = 0 THEN Super ELSE Stale]]
    /\ inode = [size |-> 0, root |-> node[Root], blocks |-> 0]
    /\ isize = 0 /\ idirty = FALSE
    /\ fpc = "idle" /\ req = NoReq
    /\ ret = 0 /\ head = 0 /\ lblock = 0 /\ buf = <<>> /\ met = {}
    /\ calls = 0 /\ file = <<>> /\ harm = {}

FileStep ==
    \/ FirstRead \/ ReadBlocks \/ ReadHole \/ ReadEnd
    \/ WriteFound \/ WriteAllocate \/ WriteAllocated \/ WriteRefused \/ WriteEnd
    \/ TruncateTree \/ TruncateEnd

TreeStep == OpStep /\ UNCHANGED <<opVars, fileVars>>

\* The bound is reached, the process has ended, or the damage is such that
\* what happens later is not followed.
FileTerminated ==
    /\ \/ fpc = "aborted" \/ (~intact /\ pc = "idle")
       \/ fpc = "idle" /\ ("overrun" \in harm \/ calls = MaxCalls)
    /\ UNCHANGED allVars

FileNext ==
    \/ \E r \in Requests : Read(r[1], r[2]) \/ Write(r[1], r[2])
    \/ \E n \in Lengths : Truncate(n)
    \/ FileStep \/ TreeStep
    \/ FileTerminated

\* An operation that has begun goes on.
FileSpec == FileInit /\ [][FileNext]_allVars /\ WF_allVars(FileStep \/ TreeStep)

-----------------------------------------------------------------------------
(* Properties.  They are about a file whose tree is intact (see ExtentTree)  *)
(* and a process whose memory is; harm and met say what else went wrong:     *)
(*   overrun  several whole blocks went through one block buffer             *)
(*   block0   a head that got no block was written to block 0                *)
(*   size     an unaligned head was counted twice in the size                *)
(*   hole     the read came to a block that has no place                     *)

Followed == intact /\ "overrun" \notin harm
Content(k) ==
    LET p == Lookup(k \div BS) IN IF p = 0 THEN Zero ELSE disk[p][k % BS]

\* Every byte written is in the file, where it was written, until it is written
\* again or cut off, whatever blocks were allocated, split and freed since.
WrittenStays ==
    fpc = "idle" /\ Followed /\ "block0" \notin harm =>
        \A k \in 1 .. Len(file) : file[k] # Zero => Content(k - 1) = file[k]

\* A read that meets no hole and stays within block buffers returns as many
\* bytes as there are, and those that were written as they were written.
ReadsWritten ==
    fpc = "read" /\ Left <= 0 /\ met = {} /\ "block0" \notin harm =>
        /\ Left = 0 /\ Len(buf) = ret
        /\ "size" \notin harm =>
              ret = IF req.off >= Len(file) THEN 0 ELSE Min({req.want, Len(file) - req.off})
        /\ \A k \in 1 .. Min({ret, Len(file) - req.off}) :
              file[req.off + k] # Zero => buf[k] = file[req.off + k]

\* A read returns the bytes of the file.
ReadsExact ==
    fpc = "read" /\ Left <= 0 =>
        buf = SubSeq(file, req.off + 1, Min({req.off + req.want, Len(file)}))

\* Between operations the inode table has what the operations have made of
\* their copies: extents, number of blocks, and the length of the file.
InodeSaved ==
    fpc = "idle" /\ Followed =>
        /\ inode.root = node[Root]
        /\ inode.blocks = Blocks
        /\ "size" \notin harm => inode.size = Len(file)

\* A write changes blocks of this file only: no free block, no node of its
\* tree, nothing of another file.
OthersUntouched ==
    [][\A b \in DOMAIN disk :
          disk'[b] # disk[b] /\ intact' /\ "block0" \notin harm' =>
              \E l \in LBlocks : Lookup(l) = b]_allVars

\* Every operation ends, and by its own assertion only after a hole or for
\* want of blocks for the tree.
FileOpsReturn ==
    fpc # "idle" ~> \/ fpc = "idle" \/ ~intact
                    \/ fpc = "aborted" /\ ("hole" \in met \/ Cardinality(free) <= Depth + 1)
=============================================================================
