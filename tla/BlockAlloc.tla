----------------------------- MODULE BlockAlloc -----------------------------
(***************************************************************************)
(* The block allocator: alloc.c, the bitmap search of bitmap.c, and the    *)
(* part of super.c that it uses (lazy initialisation of block bitmaps, the *)
(* free-block counters of the groups and of the superblock, and their      *)
(* writeback at unmount).                                                  *)
(*                                                                         *)
(* Threads are the FUSE workers.  Nothing in alloc.c or super.c takes a    *)
(* lock, so a step is one access to memory that other workers share: one   *)
(* read or write of a bitmap, of a counter or of a flag.  All bits of a    *)
(* bitmap are taken to be in the word that set_bit and clear_bit read and  *)
(* write.  The kernel lets one worker at a time change a file.  Bitmaps    *)
(* are read and written through the buffer cache, whose promise is         *)
(* CachedDisk: here a bitmap is simply its contents.                       *)
(***************************************************************************)
EXTENDS Integers, FiniteSets

CONSTANTS Threads,        \* FUSE workers
          Files, NoFile,
          FirstBlock,     \* s_first_data_block
          PerGroup,       \* s_blocks_per_group
          BlocksCount,    \* s_blocks_count
          BitmapBits,     \* bits in a bitmap block, super_block_size() * 8
          SparseSuper,    \* EXT4_FEATURE_RO_COMPAT_SPARSE_SUPER
          MetaBg,         \* EXT4_FEATURE_INCOMPAT_META_BG
          FirstMetaBg,    \* s_first_meta_bg
          DescPerBlock,   \* EXT4_DESC_PER_BLOCK
          ReservedGdt,    \* s_reserved_gdt_blocks
          AtFront,        \* blocks of superblock and descriptors at the
                          \* front of each group, as the image was made
          BitmapBlk,      \* bg_block_bitmap of each group
          InodeBitmapBlk, \* bg_inode_bitmap
          InodeTable,     \* bg_inode_table
          ItbPerGroup,    \* blocks of an inode table
          FlexBg,         \* EXT4_FEATURE_INCOMPAT_FLEX_BG
          UninitGroups,   \* groups with EXT4_BG_BLOCK_UNINIT at first
          Used,           \* data blocks of files that are left alone
          Goals,          \* what ext4_ext_find_goal may answer
          MaxWanted,      \* bound: blocks asked for in one call
          MaxCalls,       \* bound: number of calls
          MaxMounts,      \* bound: number of times the device is mounted again
          GroupRange,     \* 2^16, or 2^32 with big descriptors
          TotalRange      \* range of s_free_blocks_count

-----------------------------------------------------------------------------
(* Geometry. *)

\* super_n_block_groups
NGroups == (BlocksCount + PerGroup - 1) \div PerGroup
Groups  == 0 .. NGroups - 1
Bits    == 0 .. BitmapBits - 1

GroupFirstBlock(g) == g * PerGroup + FirstBlock

\* The number of blocks of a group, as ext4_init_block_bitmap computes it ...
GroupBlocks(g) ==
    IF g = NGroups - 1
    THEN BlocksCount - FirstBlock - PerGroup * (NGroups - 1)
    ELSE PerGroup

\* ... and the number of bits ext4_new_meta_blocks looks at.
BitmapLen(g) ==
    IF g = NGroups - 1 /\ BlocksCount % PerGroup # 0
    THEN BlocksCount % PerGroup
    ELSE PerGroup

\* The group of a goal or of a block to be freed.
GroupOf(b) == (b - FirstBlock) \div PerGroup
GoalGroup(goal) == IF goal = 0 THEN 0 ELSE GroupOf(goal)

\* ext4_block_in_group: ext4_get_group_no_and_offset gives the distance from
\* the first data block for a group number.
BlockInGroup(b, g) == b - FirstBlock = g

Table(g) == InodeTable[g] .. InodeTable[g] + ItbPerGroup - 1

\* Which groups have a copy of the superblock: test_root, ext4_group_sparse and
\* ext4_bg_has_super.
TestRoot(a, b)  == \E n \in 1 .. a : b ^ n = a
GroupSparse(g)  == g <= 1 \/ (g % 2 = 1 /\ \E b \in {3, 5, 7} : TestRoot(g, b))
BgHasSuper(g)   == ~SparseSuper \/ GroupSparse(g)

\* super_n_gdb, and the blocks of descriptors in a group
NGdb == (NGroups + DescPerBlock - 1) \div DescPerBlock

BgNumGdbMeta(g) ==
    LET first == (g \div DescPerBlock) * DescPerBlock
    IN  IF g \in {first, first + 1, first + DescPerBlock - 1} THEN 1 ELSE 0

\* Seeded fault: descriptors are taken to be where superblocks are.
BgNumGdb_nometa(g) == IF BgHasSuper(g) THEN NGdb ELSE 0

BgNumGdb(g) ==
    IF ~MetaBg \/ g \div DescPerBlock < FirstMetaBg
    THEN IF BgHasSuper(g) THEN NGdb ELSE 0
    ELSE BgNumGdbMeta(g)

\* bit_max of ext4_init_block_bitmap
BitMax(g) ==
    IF ~MetaBg \/ g < FirstMetaBg * DescPerBlock
    THEN IF BgHasSuper(g) THEN 1 + BgNumGdb(g) + ReservedGdt ELSE 0
    ELSE (IF BgHasSuper(g) THEN 1 ELSE 0) + BgNumGdb(g)

\* Metadata of group g, wherever it lies, and the bits of what lies in group g.
Own(g)      == {BitmapBlk[g], InodeBitmapBlk[g]} \cup Table(g)
MetaBits(g) == (0 .. AtFront[g] - 1) \cup
    {b - GroupFirstBlock(g) : b \in {c \in UNION {Own(h) : h \in Groups} :
                                        GroupOf(c) = g}}
Padding(g)  == GroupBlocks(g) .. BitmapBits - 1
UsedBits(g) == {b - GroupFirstBlock(g) : b \in {c \in Used : GroupOf(c) = g}}
FreeAtFirst(g) == (0 .. GroupBlocks(g) - 1) \ (MetaBits(g) \cup UsedBits(g))

\* The blocks that may be given to the files.
Data == UNION {{GroupFirstBlock(g) + i : i \in FreeAtFirst(g)} : g \in Groups}

ASSUME AllocConstants ==
    /\ NoFile \notin Files
    /\ PerGroup \in Nat \ {0} /\ BlocksCount \in Nat \ {0}
    /\ FirstBlock \in {0, 1}
    /\ FirstBlock + PerGroup * (NGroups - 1) < BlocksCount
    /\ BitmapBits \in Nat /\ PerGroup <= BitmapBits
    /\ SparseSuper \in BOOLEAN /\ MetaBg \in BOOLEAN
    /\ FirstMetaBg \in Nat /\ DescPerBlock \in Nat \ {0} /\ ReservedGdt \in Nat
    /\ AtFront \in [Groups -> Nat] /\ ItbPerGroup \in Nat
    /\ BitmapBlk \in [Groups -> Nat] /\ InodeBitmapBlk \in [Groups -> Nat]
    /\ InodeTable \in [Groups -> Nat]
    /\ FlexBg \in BOOLEAN /\ UninitGroups \subseteq Groups
    /\ \A g \in Groups : FlexBg \/ \A b \in Own(g) : GroupOf(b) = g
    /\ Used \subseteq Nat /\ \A b \in Used : GroupOf(b) \in Groups \ UninitGroups
    /\ Goals \subseteq Nat /\ \A b \in Goals : GoalGroup(b) \in Groups
    /\ MaxWanted \in Nat \ {0} /\ MaxCalls \in Nat /\ MaxMounts \in Nat
    /\ GroupRange \in Nat \ {0} /\ TotalRange \in Nat \ {0}

VARIABLES
    bitmap,   \* contents of the block bitmaps, as sets of bits
    uninit,   \* EXT4_BG_BLOCK_UNINIT of bg_flags
    gfree,    \* bg_free_blocks_count
    sfree,    \* s_free_blocks_count
    gdirty,   \* group_desc_info.dirty
    sdirty,   \* super_block_dirty
    savedUninit, savedFree,  \* the group descriptors on the device
    savedTotal,              \* the superblock on the device
    mounted, mounts,         \* is it mounted, and how often was it before
    calls,    \* number of calls so far
    serial,   \* history: no two calls have overlapped so far
    iblocks,  \* i_blocks of each file
    held,     \* history: the blocks of each file
    refused,  \* history: did the file's last request end in ENOSPC?
    pc, loc   \* where each worker is, and its local variables

groupVars == <<bitmap, uninit, gfree, sfree, gdirty, sdirty>>
fileVars  == <<iblocks, held, refused, calls, serial>>
mountVars == <<savedUninit, savedFree, savedTotal, mounted, mounts>>
vars == <<bitmap, uninit, gfree, sfree, gdirty, sdirty, savedUninit,
          savedFree, savedTotal, mounted, mounts, calls, serial, iblocks, held, refused, pc, loc>>

\* group: block_group; goal: group_goal; free: the number of blocks that the
\* call makes free, -len in ext4_new_meta_blocks and count in
\* ext4_ext_free_blocks; word, num: a value read that is about to be written.
NoCall == [op |-> "none", file |-> NoFile, goal |-> 0, group |-> 0,
           wanted |-> 0, index |-> 0, free |-> 0, word |-> {}, num |-> 0]

Goto(t, l) == pc' = [pc EXCEPT ![t] = l]
Group(t)   == loc[t].group

\* No call is in progress.
Quiet == \A t \in Threads : pc[t] = "idle"

\* The kernel locks a file that is being changed.
Unlocked(f) == \A u \in Threads : pc[u] # "idle" => loc[u].file # f

Least(s) == CHOOSE i \in s : \A j \in s : i <= j

\* mb_find_next_zero_bit: max when there is none.
FindNextZeroBit(bm, max, start) ==
    LET zero == (start .. max - 1) \ bm
    IN  IF zero = {} THEN max ELSE Least(zero)

\* mb_find_zero_run_len: 1 when start is still zero, or when it is max.
FindZeroRunLen(bm, max, start) ==
    start + 1 - FindNextZeroBit(bm, max, start)

-----------------------------------------------------------------------------
(* ext4_new_meta_blocks. *)

StartAlloc(t) ==
    /\ pc[t] = "idle" /\ mounted /\ calls < MaxCalls
    /\ calls' = calls + 1
    /\ serial' = (serial /\ Quiet)
    /\ \E f \in Files, b \in Goals, n \in 1 .. MaxWanted :
          /\ Unlocked(f)
          /\ loc' = [loc EXCEPT ![t] =
                [NoCall EXCEPT !.op = "alloc", !.file = f, !.wanted = n,
                               !.goal = GoalGroup(b), !.group = GoalGroup(b)]]
    /\ Goto(t, "try")
    /\ UNCHANGED <<groupVars, iblocks, held, refused, mountVars>>

\* Seeded fault: a bitmap is never initialised.
TryToInit_never(t) ==
    /\ pc[t] = "try"
    /\ Goto(t, "test")
    /\ UNCHANGED <<groupVars, fileVars, mountVars, loc>>

\* ext4_try_to_init_block_bitmap, then fs_bread of the bitmap.
TryToInit(t) ==
    /\ pc[t] = "try"
    /\ Goto(t, IF uninit[Group(t)] THEN "wipe" ELSE "test")
    /\ UNCHANGED <<groupVars, fileVars, mountVars, loc>>

\* ext4_init_block_bitmap: memset to zero ...
Wipe(t) ==
    /\ pc[t] = "wipe"
    /\ bitmap' = [bitmap EXCEPT ![Group(t)] = {}]
    /\ Goto(t, "mark")
    /\ UNCHANGED <<uninit, gfree, sfree, gdirty, sdirty, fileVars, mountVars, loc>>

\* Seeded fault: mark_bitmap_end is missing.
InitBits_open(g) ==
    (0 .. BitMax(g) - 1) \cup
        {b - GroupFirstBlock(g) :
            b \in {c \in Own(g) : ~FlexBg \/ BlockInGroup(c, g)}}

\* ... the bits of the metadata and of the blocks behind the end ...
InitBits(g) ==
    (0 .. BitMax(g) - 1) \cup
        {b - GroupFirstBlock(g) :
            b \in {c \in Own(g) : ~FlexBg \/ BlockInGroup(c, g)}}
        \cup Padding(g)

MarkBits(t) ==
    /\ pc[t] = "mark"
    /\ bitmap' = [bitmap EXCEPT ![Group(t)] = @ \cup InitBits(Group(t))]
    /\ Goto(t, "flag")
    /\ UNCHANGED <<uninit, gfree, sfree, gdirty, sdirty, fileVars, mountVars, loc>>

\* ... and the flag; the number of free blocks it returns is not used.
ClearUninit(t) ==
    /\ pc[t] = "flag"
    /\ uninit' = [uninit EXCEPT ![Group(t)] = FALSE]
    /\ gdirty' = [gdirty EXCEPT ![Group(t)] = TRUE]
    /\ Goto(t, "test")
    /\ UNCHANGED <<bitmap, gfree, sfree, sdirty, fileVars, mountVars, loc>>

\* Seeded fault: the scan gives up in the last group.
NextGroup_end(g, goal) == IF g + 1 < NGroups THEN g + 1 ELSE goal

\* Seeded fault: the scan stays in the last group.
NextGroup_clamp(g, goal) == IF g + 1 < NGroups THEN g + 1 ELSE g

\* The group after g in a scan that began at goal; goal again: no space.
NextGroup(g, goal) == (g + 1) % NGroups

\* The branch at no_space.
NoSpace(t) ==
    LET g == NextGroup(Group(t), loc[t].goal)
    IN  /\ loc' = [loc EXCEPT ![t].group = g]
        /\ Goto(t, IF g # loc[t].goal THEN "try" ELSE "enospc")

TestFree(t) ==
    /\ pc[t] = "test"
    /\ \/ gfree[Group(t)] # 0 /\ Goto(t, "find") /\ UNCHANGED loc
       \/ gfree[Group(t)] = 0 /\ NoSpace(t)
    /\ UNCHANGED <<groupVars, fileVars, mountVars>>

Find(t) ==
    /\ pc[t] = "find"
    /\ loc' = [loc EXCEPT ![t].index =
                  FindNextZeroBit(bitmap[Group(t)], BitmapLen(Group(t)), 0)]
    /\ Goto(t, "run")
    /\ UNCHANGED <<groupVars, fileVars, mountVars>>

\* len may be negative here if the bit was taken meanwhile.
RunLen(t) ==
    /\ pc[t] = "run"
    /\ LET n == FindZeroRunLen(bitmap[Group(t)], BitmapLen(Group(t)), loc[t].index)
       IN  /\ loc' = [loc EXCEPT ![t].free =
                          -(IF n > loc[t].wanted THEN loc[t].wanted ELSE n)]
           /\ Goto(t, IF n = 0 THEN "none" ELSE "load")
    /\ UNCHANGED <<groupVars, fileVars, mountVars>>

\* "no blocks found: set bg_free_blocks_count to 0"
NoneFound(t) ==
    /\ pc[t] = "none"
    /\ gfree' = [gfree EXCEPT ![Group(t)] = 0]
    /\ gdirty' = [gdirty EXCEPT ![Group(t)] = TRUE]
    /\ NoSpace(t)
    /\ UNCHANGED <<bitmap, uninit, sfree, sdirty, fileVars, mountVars>>

Enospc(t) ==
    /\ pc[t] = "enospc"
    /\ refused' = [refused EXCEPT ![loc[t].file] = TRUE]
    /\ loc' = [loc EXCEPT ![t] = NoCall]
    /\ Goto(t, "idle")
    /\ UNCHANGED <<groupVars, iblocks, held, calls, serial, mountVars>>

-----------------------------------------------------------------------------
(* ext4_ext_free_blocks.  The blocks are those of one extent of the file, or *)
(* a part of it.  A block behind the last group would be looked up behind    *)
(* the end of gdesc_table, which is undefined and not followed.              *)

StartFree(t) ==
    /\ pc[t] = "idle" /\ mounted /\ calls < MaxCalls
    /\ calls' = calls + 1
    /\ serial' = (serial /\ Quiet)
    /\ \E f \in Files : \E b \in held[f] :
       \E n \in 1 .. Cardinality(held[f]) :
          /\ Unlocked(f) /\ GroupOf(b) \in Groups
          /\ b .. b + n - 1 \subseteq held[f]
          /\ held' = [held EXCEPT ![f] = @ \ (b .. b + n - 1)]
          /\ loc' = [loc EXCEPT ![t] =
                [NoCall EXCEPT !.op = "free", !.file = f, !.free = n,
                               !.group = GroupOf(b),
                               !.index = b - GroupFirstBlock(GroupOf(b))]]
    /\ Goto(t, "inited")
    /\ UNCHANGED <<groupVars, iblocks, refused, mountVars>>

\* Nothing is done to a group whose bitmap is not initialised.
TestInited(t) ==
    /\ pc[t] = "inited"
    /\ \/ ~uninit[Group(t)] /\ Goto(t, "load") /\ UNCHANGED loc
       \/ /\ uninit[Group(t)]
          /\ Goto(t, "idle")
          /\ loc' = [loc EXCEPT ![t] = NoCall]
    /\ UNCHANGED <<groupVars, fileVars, mountVars>>

-----------------------------------------------------------------------------
(* The end of both: the bits, the two counters, and i_blocks.                *)

LoadWord(t) ==
    /\ pc[t] = "load"
    /\ loc' = [loc EXCEPT ![t].word = bitmap[Group(t)]]
    /\ Goto(t, "store")
    /\ UNCHANGED <<groupVars, fileVars, mountVars>>

\* mb_set_bits and mb_clear_bits; what lies behind the buffer is not modelled.
NewWord(l) ==
    IF l.op = "alloc"
    THEN l.word \cup ((l.index .. l.index - l.free - 1) \cap Bits)
    ELSE l.word \ (l.index .. l.index + l.free - 1)

StoreWord(t) ==
    /\ pc[t] = "store"
    /\ bitmap' = [bitmap EXCEPT ![Group(t)] = NewWord(loc[t])]
    /\ loc' = [loc EXCEPT ![t].word = {}]
    /\ Goto(t, "gload")
    /\ UNCHANGED <<uninit, gfree, sfree, gdirty, sdirty, fileVars, mountVars>>

LoadGroupFree(t) ==
    /\ pc[t] = "gload"
    /\ loc' = [loc EXCEPT ![t].num = gfree[Group(t)]]
    /\ Goto(t, "gstore")
    /\ UNCHANGED <<groupVars, fileVars, mountVars>>

\* ext4_free_blks_set
StoreGroupFree(t) ==
    /\ pc[t] = "gstore"
    /\ gfree' = [gfree EXCEPT ![Group(t)] = (loc[t].num + loc[t].free) % GroupRange]
    /\ gdirty' = [gdirty EXCEPT ![Group(t)] = TRUE]
    /\ Goto(t, "sload")
    /\ UNCHANGED <<bitmap, uninit, sfree, sdirty, fileVars, mountVars, loc>>

LoadTotalFree(t) ==
    /\ pc[t] = "sload"
    /\ loc' = [loc EXCEPT ![t].num = sfree]
    /\ Goto(t, "sstore")
    /\ UNCHANGED <<groupVars, fileVars, mountVars>>

\* Seeded fault: the superblock's counter follows allocations only.
StoreTotalFree_alloc(t) ==
    /\ pc[t] = "sstore"
    /\ sfree' = IF loc[t].op = "alloc"
                THEN (loc[t].num + loc[t].free) % TotalRange ELSE sfree
    /\ sdirty' = TRUE
    /\ Goto(t, "end")
    /\ UNCHANGED <<bitmap, uninit, gfree, gdirty, fileVars, mountVars, loc>>

\* ext4_free_blocks_count_set
StoreTotalFree(t) ==
    /\ pc[t] = "sstore"
    /\ sfree' = (loc[t].num + loc[t].free) % TotalRange
    /\ sdirty' = TRUE
    /\ Goto(t, "end")
    /\ UNCHANGED <<bitmap, uninit, gfree, gdirty, fileVars, mountVars, loc>>

\* ext4_set_inode_blocks; the file gets the block that was found.
End(t) ==
    /\ pc[t] = "end"
    /\ LET f == loc[t].file
           b == GroupFirstBlock(Group(t)) + loc[t].index
       IN  /\ iblocks' = [iblocks EXCEPT ![f] = @ - loc[t].free]
           /\ \/ /\ loc[t].op = "alloc"
                 /\ held' = [held EXCEPT ![f] = @ \cup {b}]
                 /\ refused' = [refused EXCEPT ![f] = FALSE]
              \/ /\ loc[t].op = "free"
                 /\ UNCHANGED <<held, refused>>
    /\ loc' = [loc EXCEPT ![t] = NoCall]
    /\ Goto(t, "idle")
    /\ UNCHANGED <<groupVars, calls, serial, mountVars>>

-----------------------------------------------------------------------------
(* Unmount: super_group_uninit and super_uninit, when no worker is left; and *)
(* super_fill and super_group_fill of the next mount.                        *)

\* Seeded fault: bg_flags is not part of what is written back.
Unmount_flags ==
    /\ mounted /\ mounts < MaxMounts /\ Quiet
    /\ savedFree' = [g \in Groups |-> IF gdirty[g] THEN gfree[g] ELSE savedFree[g]]
    /\ savedTotal' = IF sdirty THEN sfree ELSE savedTotal
    /\ gdirty' = [g \in Groups |-> FALSE]
    /\ sdirty' = FALSE
    /\ mounted' = FALSE
    /\ UNCHANGED <<bitmap, uninit, gfree, sfree, savedUninit, mounts, fileVars, pc, loc>>

Unmount ==
    /\ mounted /\ mounts < MaxMounts /\ Quiet
    /\ savedUninit' = [g \in Groups |-> IF gdirty[g] THEN uninit[g] ELSE savedUninit[g]]
    /\ savedFree' = [g \in Groups |-> IF gdirty[g] THEN gfree[g] ELSE savedFree[g]]
    /\ savedTotal' = IF sdirty THEN sfree ELSE savedTotal
    /\ gdirty' = [g \in Groups |-> FALSE]
    /\ sdirty' = FALSE
    /\ mounted' = FALSE
    /\ UNCHANGED <<bitmap, uninit, gfree, sfree, mounts, fileVars, pc, loc>>

Mount ==
    /\ ~mounted
    /\ uninit' = savedUninit /\ gfree' = savedFree /\ sfree' = savedTotal
    /\ mounted' = TRUE /\ mounts' = mounts + 1
    /\ UNCHANGED <<bitmap, gdirty, sdirty, fileVars, savedUninit, savedFree, savedTotal, pc, loc>>

-----------------------------------------------------------------------------
\* The image is consistent.  What an uninitialised bitmap holds is arbitrary.
Init ==
    /\ uninit = [g \in Groups |-> g \in UninitGroups]
    /\ \E junk \in {{}, Bits} :
          bitmap = [g \in Groups |->
                      IF g \in UninitGroups THEN junk
                      ELSE MetaBits(g) \cup UsedBits(g) \cup Padding(g)]
    /\ gfree = [g \in Groups |-> Cardinality(FreeAtFirst(g))]
    /\ sfree = Cardinality(Data)
    /\ gdirty = [g \in Groups |-> FALSE]
    /\ sdirty = FALSE
    /\ savedUninit = uninit /\ savedFree = gfree /\ savedTotal = sfree
    /\ mounted = TRUE /\ mounts = 0
    /\ calls = 0 /\ serial = TRUE
    /\ iblocks = [f \in Files |-> 0]
    /\ held = [f \in Files |-> {}]
    /\ refused = [f \in Files |-> FALSE]
    /\ pc = [t \in Threads |-> "idle"]
    /\ loc = [t \in Threads |-> NoCall]

\* What a worker does between StartAlloc or StartFree and its next "idle".
CallStep(t) ==
    \/ TryToInit(t) \/ Wipe(t) \/ MarkBits(t) \/ ClearUninit(t)
    \/ TestFree(t) \/ Find(t) \/ RunLen(t) \/ NoneFound(t) \/ Enospc(t)
    \/ TestInited(t) \/ LoadWord(t) \/ StoreWord(t)
    \/ LoadGroupFree(t) \/ StoreGroupFree(t)
    \/ LoadTotalFree(t) \/ StoreTotalFree(t) \/ End(t)

\* All calls that the bound allows have returned.
Terminated ==
    /\ calls = MaxCalls /\ Quiet
    /\ UNCHANGED vars

Next ==
    \/ \E t \in Threads : StartAlloc(t) \/ StartFree(t) \/ CallStep(t)
    \/ Unmount \/ Mount
    \/ Terminated

Spec == Init /\ [][Next]_vars

\* Every worker that can run does run.
FairSpec == Spec /\ \A t \in Threads : WF_vars(CallStep(t))

-----------------------------------------------------------------------------
(* Properties. *)

Labels == {"idle", "try", "wipe", "mark", "flag", "test", "find", "run",
           "none", "enospc", "inited", "load", "store", "gload", "gstore",
           "sload", "sstore", "end"}

\* Types of the bitmaps, the counters and the workers' locals: the counters
\* stay in the range of their fields, whatever the workers do to them.
TypeOK ==
    /\ bitmap \in [Groups -> SUBSET Bits]
    /\ uninit \in [Groups -> BOOLEAN] /\ savedUninit \in [Groups -> BOOLEAN]
    /\ gfree \in [Groups -> 0 .. GroupRange - 1]
    /\ savedFree \in [Groups -> 0 .. GroupRange - 1]
    /\ sfree \in 0 .. TotalRange - 1 /\ savedTotal \in 0 .. TotalRange - 1
    /\ gdirty \in [Groups -> BOOLEAN] /\ sdirty \in BOOLEAN
    /\ mounted \in BOOLEAN /\ mounts \in Nat
    /\ calls \in 0 .. MaxCalls /\ iblocks \in [Files -> Int]
    /\ held \in [Files -> SUBSET Int] /\ refused \in [Files -> BOOLEAN]
    /\ pc \in [Threads -> Labels]
    /\ \A t \in Threads : Group(t) \in Groups /\ loc[t].goal \in Groups

HeldBits(g) ==
    {b - GroupFirstBlock(g) : b \in {c \in UNION {held[f] : f \in Files} :
                                        GroupOf(c) = g}}

\* As long as calls do not overlap, between two of them a bitmap has exactly
\* the bits of the metadata, of the blocks of files, and of the blocks behind
\* the end of the device, and no block is two of these: ext4_init_block_bitmap
\* finds the metadata where the image has it.
BitsAgree ==
    Quiet /\ serial => \A g \in Groups : ~uninit[g] =>
        LET others == MetaBits(g) \cup UsedBits(g) \cup Padding(g)
        IN  bitmap[g] = others \cup HeldBits(g) /\ others \cap HeldBits(g) = {}

\* As long as calls do not overlap, between two of them bg_free_blocks_count is
\* the number of clear bits of an initialised group, s_free_blocks_count that of
\* the blocks that no file has, and i_blocks that of the file's own.
CountsAgree ==
    Quiet /\ serial =>
        /\ \A g \in Groups : ~uninit[g] =>
              gfree[g] = Cardinality((0 .. GroupBlocks(g) - 1) \ bitmap[g])
        /\ sfree = Cardinality(Data \ UNION {held[f] : f \in Files})
        /\ \A f \in Files : iblocks[f] = Cardinality(held[f])

\* "we got free blocks": what ext4_new_meta_blocks returns belongs to no other
\* file and is not metadata.
Exclusive ==
    /\ \A f, h \in Files : f # h => held[f] \cap held[h] = {}
    /\ \A f \in Files : held[f] \subseteq Data

\* The search of a group ends inside the bitmap, or finds nothing.
InsideBitmap ==
    \A t \in Threads : pc[t] = "load" /\ loc[t].op = "alloc" =>
        loc[t].index < BitmapLen(Group(t))

\* ext4_init_block_bitmap sets the bits for block and inode bitmaps and inode
\* tables that lie in the group.
MetaMarked ==
    \A t \in Threads : pc[t] = "flag" =>
        MetaBits(Group(t)) \subseteq bitmap[Group(t)]

\* "there are no other users" of a bitmap while ext4_init_block_bitmap fills it.
NoOtherUsers ==
    \A t, u \in Threads :
        /\ t # u
        /\ pc[t] \in {"mark", "flag"}
        /\ pc[u] \in {"wipe", "mark", "find", "run", "load", "store"}
        => Group(t) # Group(u)

\* After unmount the device has the counters and flags of the last moment, so
\* that no bitmap is initialised again over the blocks of files.
SavedAtUnmount ==
    ~mounted => savedUninit = uninit /\ savedFree = gfree /\ savedTotal = sfree

\* As long as calls do not overlap the allocator implements BlockPool: a block
\* has one owner, and a request is refused only when no group has one left.
BP == INSTANCE BlockPool
Implements == BP!Init /\ [][BP!Next \/ ~serial']_<<held, refused>>

\* Every call returns: the scan over the groups comes to an end.
CallsReturn == \A t \in Threads : pc[t] # "idle" ~> pc[t] = "idle"
=============================================================================
