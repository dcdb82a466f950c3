-------------------------- MODULE BlockAllocProofs --------------------------
(***************************************************************************)
(* What the block allocator keeps true, proved for any number of groups,   *)
(* blocks, files and calls.  Unmount saves everything, whatever the        *)
(* workers do.  As long as calls do not overlap, bitmaps, counters and     *)
(* i_blocks agree with what the files hold, and the allocator implements   *)
(* BlockPool, on an image laid out plainly (PlainImage); the other layouts *)
(* are the subject of counterexamples.                                     *)
(***************************************************************************)
EXTENDS BlockAlloc, FiniteSetTheorems, WellFoundedInduction, TLAPS

\* No flex_bg; where a bitmap is still to be initialised, superblock and
\* descriptors are where ext4_init_block_bitmap expects them; groups begin with
\* metadata, so that no extent crosses into the next one; and the counters have
\* room for their values.
PlainImage ==
    /\ ~FlexBg
    /\ \A g \in UninitGroups : AtFront[g] = BitMax(g)
    /\ \A g \in Groups \ {0} : 0 \notin FreeAtFirst(g)
    /\ PerGroup < GroupRange /\ BlocksCount < TotalRange

-----------------------------------------------------------------------------
(* The invariants. *)

\* The values of a worker's local variables.
Calls == [op : {"none", "alloc", "free"}, file : Files \cup {NoFile},
          goal : Groups, group : Groups, wanted : Nat, index : Nat, free : Int,
          word : SUBSET Int, num : Int]

\* The types that hold on every image.
TypeInv ==
    /\ bitmap \in [Groups -> SUBSET Int]
    /\ uninit \in [Groups -> BOOLEAN] /\ savedUninit \in [Groups -> BOOLEAN]
    /\ gfree \in [Groups -> Int] /\ savedFree \in [Groups -> Int]
    /\ sfree \in Int /\ savedTotal \in Int
    /\ gdirty \in [Groups -> BOOLEAN] /\ sdirty \in BOOLEAN
    /\ serial \in BOOLEAN /\ mounted \in BOOLEAN
    /\ iblocks \in [Files -> Int] /\ held \in [Files -> SUBSET Int]
    /\ refused \in [Files -> BOOLEAN]
    /\ pc \in [Threads -> Labels] /\ loc \in [Threads -> Calls]
    /\ \A t \in Threads : pc[t] # "idle" =>
          loc[t].op # "none" /\ loc[t].file \in Files

\* What is not marked dirty is on the device as it is in memory.
SaveInv ==
    /\ \A g \in Groups :
          ~gdirty[g] => savedUninit[g] = uninit[g] /\ savedFree[g] = gfree[g]
    /\ ~sdirty => savedTotal = sfree
    /\ ~mounted => Quiet /\ (\A g \in Groups : ~gdirty[g]) /\ ~sdirty

\* The bits that are set whatever files have, the blocks that files have, and the
\* bits that are left for them.
Others(g)   == MetaBits(g) \cup UsedBits(g) \cup Padding(g)
Taken       == UNION {held[f] : f \in Files}
FreeBits(g) == FreeAtFirst(g) \ HeldBits(g)

\* Blocks of files have one owner, and none is in a group whose bitmap is not
\* initialised.
PoolInv ==
    /\ \A f, h \in Files : f # h => held[f] \cap held[h] = {}
    /\ \A f \in Files : held[f] \subseteq Data
    /\ \A g \in Groups : uninit[g] => g \in UninitGroups /\ HeldBits(g) = {}

\* The books: the bits of group g that are set and that no file has, and how far
\* the counters of g, of the superblock and of file f are from what they should
\* be.
Books(g, extra, dg, ds, f, df) ==
    /\ \A h \in Groups : ~uninit[h] =>
          bitmap[h] = Others(h) \cup HeldBits(h) \cup IF h = g THEN extra ELSE {}
    /\ \A h \in Groups :
          gfree[h] = Cardinality(FreeBits(h)) + IF h = g THEN dg ELSE 0
    /\ sfree = Cardinality(Data \ Taken) + ds
    /\ \A e \in Files :
          iblocks[e] = Cardinality(held[e]) + IF e = f THEN df ELSE 0

\* What they say in the middle of a call of t.
Extent(l)  == l.index .. l.index + l.free - 1
BitsLeft   == {"inited", "load", "store"}
GroupLeft  == BitsLeft \cup {"gload", "gstore"}
TotalLeft  == GroupLeft \cup {"sload", "sstore"}
AllocEnd   == {"gload", "gstore", "sload", "sstore", "end"}
AllocBooks(t) ==
    Books(Group(t),
          IF pc[t] \in AllocEnd THEN {loc[t].index} ELSE {},
          IF pc[t] \in AllocEnd \ {"gload", "gstore"} THEN -1 ELSE 0,
          IF pc[t] = "end" THEN -1 ELSE 0,
          loc[t].file, 0)
FreeBooks(t) ==
    Books(Group(t),
          IF pc[t] \in BitsLeft THEN Extent(loc[t]) ELSE {},
          IF pc[t] \in GroupLeft THEN -loc[t].free ELSE 0,
          IF pc[t] \in TotalLeft THEN -loc[t].free ELSE 0,
          loc[t].file, loc[t].free)

\* The groups that a scan from goal has left behind when it is at g.
Scanned(goal, g) ==
    IF goal <= g THEN goal .. g - 1 ELSE (goal .. NGroups - 1) \cup (0 .. g - 1)

\* The labels of the two calls.
AllocLabels == Labels \ {"idle", "inited", "none"}
FreeLabels  == TotalLeft \cup {"end"}

\* ext4_new_meta_blocks knows of a clear bit before it looks for one.
AllocInv(t) ==
    /\ pc[t] \in AllocLabels /\ loc[t].wanted > 0
    /\ AllocBooks(t)
    /\ pc[t] \in {"wipe", "mark", "flag"} => uninit[Group(t)]
    /\ pc[t] = "mark" => bitmap[Group(t)] = {}
    /\ pc[t] = "flag" => bitmap[Group(t)] = InitBits(Group(t))
    /\ pc[t] \in {"test", "find", "run", "load", "store"} \cup AllocEnd => ~uninit[Group(t)]
    /\ pc[t] = "find" => gfree[Group(t)] # 0
    /\ pc[t] \in {"run", "load", "store"} \cup AllocEnd => loc[t].index \in FreeBits(Group(t))
    /\ pc[t] \in {"load", "store"} \cup AllocEnd => loc[t].free = -1
    /\ pc[t] # "enospc" => \A h \in Scanned(loc[t].goal, Group(t)) : FreeBits(h) = {}
    /\ pc[t] = "enospc" => \A h \in Groups : FreeBits(h) = {}

\* The extent that ext4_ext_free_blocks is given lies in one group.
FreeInv(t) ==
    /\ pc[t] \in FreeLabels
    /\ FreeBooks(t)
    /\ loc[t].free > 0 /\ Extent(loc[t]) \subseteq FreeBits(Group(t))
    /\ ~uninit[Group(t)]

\* The values read are still right when they are written.
ReadInv(t) ==
    /\ pc[t] = "store" => loc[t].word = bitmap[Group(t)]
    /\ pc[t] = "gstore" => loc[t].num = gfree[Group(t)]
    /\ pc[t] = "sstore" => loc[t].num = sfree

\* What holds of the one call in progress.
CallInv(t) ==
    /\ loc[t].op = "alloc" => AllocInv(t)
    /\ loc[t].op = "free" => FreeInv(t)
    /\ ReadInv(t)

\* Calls do not overlap.
OneCall == \A t, u \in Threads : pc[t] # "idle" /\ pc[u] # "idle" => t = u

\* The invariant as long as calls have not overlapped: between calls the books
\* are right, and in the middle of one they are off by what is still to be done.
SerialInv ==
    serial =>
        /\ OneCall /\ PoolInv
        /\ Quiet => Books(0, {}, 0, 0, NoFile, 0)
        /\ \A t \in Threads : pc[t] # "idle" => CallInv(t)

-----------------------------------------------------------------------------
(* Numbers. *)

\* A set of numbers that is not empty has a least element.
LEMMA LeastExists ==
    ASSUME NEW S \in SUBSET Nat, S # {}
    PROVE  Least(S) \in S /\ \A j \in S : Least(S) <= j
<1>1. PICK x \in S : \A y \in S : ~(<<y, x>> \in OpToRel(<, Nat))
  BY NatLessThanWellFounded, WFMin
<1>2. \A y \in S : ~(y < x)
  BY <1>1 DEF OpToRel
<1>3. \A y \in S : x <= y
  BY <1>2
<1> QED BY <1>3 DEF Least

\* mb_find_next_zero_bit finds the first clear bit.
LEMMA FirstZero ==
    ASSUME NEW bm, NEW max \in Nat, NEW start \in Nat,
           (start .. max - 1) \ bm # {}
    PROVE  LET i == FindNextZeroBit(bm, max, start)
           IN  /\ i \in (start .. max - 1) \ bm
               /\ start \notin bm => i = start
<1> DEFINE zero == (start .. max - 1) \ bm
<1>1. zero \in SUBSET Nat /\ zero # {}
  OBVIOUS
<1>2. Least(zero) \in zero /\ \A j \in zero : Least(zero) <= j
  BY <1>1, LeastExists
<1> HIDE DEF zero
<1>3. FindNextZeroBit(bm, max, start) = Least(zero)
  BY <1>1 DEF FindNextZeroBit, zero
<1> QED BY <1>2, <1>3 DEF zero

\* A counter that is in range is not changed by its width.
LEMMA Remainder ==
    ASSUME NEW n \in Nat \ {0}, NEW a \in 0 .. n - 1
    PROVE  a % n = a
OBVIOUS

\* What \div and % are.
LEMMA Quotient ==
    ASSUME NEW n \in Nat \ {0}, NEW a \in Int
    PROVE  /\ a \div n \in Int
           /\ n * (a \div n) <= a /\ a < n * (a \div n) + n
           /\ a % n = a - n * (a \div n)
OBVIOUS

\* The group and the bit of a block number that is composed of them.
LEMMA QuotientOf ==
    ASSUME NEW n \in Nat \ {0}, NEW g \in Int, NEW i \in 0 .. n - 1
    PROVE  (g * n + i) \div n = g /\ (g * n + i) % n = i
<1>1. (g * n + i) \div n = g
  OBVIOUS
<1> DEFINE a == g * n + i
<1>2. a \in Int /\ a \div n = g
  BY <1>1
<1> HIDE DEF a
<1>3. a % n = a - n * g
  BY <1>2, Quotient
<1> QED BY <1>1, <1>3 DEF a

-----------------------------------------------------------------------------
(* Geometry. *)

\* There is a group, and the groups cover the device.
LEMMA GroupCount ==
    /\ NGroups \in Nat \ {0}
    /\ BlocksCount <= PerGroup * NGroups
    /\ FirstBlock + PerGroup * (NGroups - 1) < BlocksCount
<1> DEFINE a == BlocksCount + PerGroup - 1
<1>0. PerGroup \in Nat \ {0} /\ BlocksCount \in Nat \ {0} /\ a \in Int /\ a >= PerGroup
  BY AllocConstants
<1>1. NGroups \in Int /\ PerGroup * NGroups <= a /\ a < PerGroup * NGroups + PerGroup
  BY <1>0, Quotient DEF NGroups
<1>2. NGroups > 0
  <2>1. CASE NGroups <= 0
    <3>1. PerGroup * NGroups <= 0
      BY <1>0, <1>1, <2>1
    <3> QED BY <1>0, <1>1, <3>1
  <2> QED BY <1>1, <2>1
<1>3. BlocksCount <= PerGroup * NGroups
  <2>1. PerGroup * NGroups \in Int
    BY <1>0, <1>1
  <2> QED BY <1>0, <1>1, <2>1
<1> QED BY <1>1, <1>2, <1>3, AllocConstants

\* Group g begins at a block of the device, and the bits that are searched take
\* in all of its blocks.
LEMMA GroupSize ==
    ASSUME NEW g \in Groups
    PROVE  /\ g \in Nat /\ GroupFirstBlock(g) \in Nat
           /\ GroupBlocks(g) \in 1 .. PerGroup
           /\ BitmapLen(g) \in GroupBlocks(g) .. PerGroup
           /\ GroupFirstBlock(g) + GroupBlocks(g) <= BlocksCount
<1> DEFINE N == NGroups
           last == PerGroup * (N - 1)
<1>0. /\ PerGroup \in Nat \ {0} /\ BlocksCount \in Nat \ {0}
      /\ FirstBlock \in {0, 1} /\ N \in Nat \ {0} /\ g \in 0 .. N - 1
  BY AllocConstants, GroupCount DEF Groups
<1>1. /\ last \in Nat /\ PerGroup * N = last + PerGroup
      /\ FirstBlock + last < BlocksCount /\ BlocksCount <= last + PerGroup
  BY <1>0, GroupCount
<1>2. GroupFirstBlock(g) \in Nat
  BY <1>0 DEF GroupFirstBlock
<1>3. CASE g = N - 1
  <2>1. GroupBlocks(g) = BlocksCount - FirstBlock - last
    BY <1>3 DEF GroupBlocks
  <2>2. GroupFirstBlock(g) = last + FirstBlock
    BY <1>0, <1>3 DEF GroupFirstBlock
  <2> HIDE DEF last
  <2>3. BitmapLen(g) \in GroupBlocks(g) .. PerGroup
    <3>1. CASE BlocksCount % PerGroup = 0
      <4>1. BitmapLen(g) = PerGroup
        BY <3>1 DEF BitmapLen
      <4> QED BY <4>1, <2>1, <1>0, <1>1
    <3>2. CASE BlocksCount % PerGroup # 0
      <4>1. BitmapLen(g) = BlocksCount % PerGroup
        BY <1>3, <3>2 DEF BitmapLen
      <4>2. BlocksCount # last + PerGroup
        <5> SUFFICES ASSUME BlocksCount = N * PerGroup + 0 PROVE FALSE
          BY <1>0, <1>1
        <5> HIDE DEF N
        <5> QED BY <3>2, <1>0, QuotientOf
      <4>3. BlocksCount - last \in 0 .. PerGroup - 1
        BY <1>0, <1>1, <4>2
      <4>4. BlocksCount = (N - 1) * PerGroup + (BlocksCount - last)
        BY <1>0 DEF last
      <4>5. N - 1 \in Int
        BY <1>0
      <4>6. BlocksCount % PerGroup = BlocksCount - last
        BY <1>0, <4>3, <4>4, <4>5, QuotientOf
      <4> QED BY <4>1, <4>3, <4>6, <2>1, <1>0, <1>1
    <3> QED BY <3>1, <3>2
  <2> QED BY <1>0, <1>1, <1>2, <2>1, <2>2, <2>3
<1>4. CASE g # N - 1
  <2>1. GroupBlocks(g) = PerGroup /\ BitmapLen(g) = PerGroup
    BY <1>4 DEF GroupBlocks, BitmapLen
  <2>2. g * PerGroup + PerGroup <= last
    <3>1. N - 2 - g \in Nat
      BY <1>0, <1>4
    <3>2. PerGroup * (N - 2 - g) \in Nat
      BY <3>1, <1>0
    <3>3. last = g * PerGroup + PerGroup + PerGroup * (N - 2 - g)
      BY <1>0
    <3> QED BY <3>2, <3>3, <1>0
  <2>3. GroupFirstBlock(g) + PerGroup <= last + FirstBlock
    BY <1>0, <1>1, <2>2 DEF GroupFirstBlock
  <2> QED BY <1>0, <1>1, <1>2, <2>1, <2>3
<1> QED BY <1>3, <1>4

\* The block of a bit is in the bit's group.
LEMMA GroupOfBit ==
    ASSUME NEW g \in Groups, NEW i \in 0 .. PerGroup - 1
    PROVE  GroupOf(GroupFirstBlock(g) + i) = g
<1>0. PerGroup \in Nat \ {0} /\ FirstBlock \in {0, 1} /\ g \in Int /\ i \in Int
  BY AllocConstants, GroupSize
<1>1. (GroupFirstBlock(g) + i) - FirstBlock = g * PerGroup + i
  BY <1>0 DEF GroupFirstBlock
<1>2. (g * PerGroup + i) \div PerGroup = g
  BY <1>0, QuotientOf
<1> DEFINE b == (GroupFirstBlock(g) + i) - FirstBlock
<1>3. b \div PerGroup = g
  BY <1>1, <1>2
<1> QED BY <1>3 DEF GroupOf

\* The bits that were free at first are bits of blocks of the group.
LEMMA FreeBitsInGroup ==
    ASSUME NEW g \in Groups
    PROVE  /\ FreeAtFirst(g) \subseteq 0 .. GroupBlocks(g) - 1
           /\ FreeAtFirst(g) \subseteq 0 .. PerGroup - 1
           /\ FreeAtFirst(g) \subseteq Bits
           /\ IsFiniteSet(FreeAtFirst(g))
           /\ Cardinality(FreeAtFirst(g)) \in 0 .. PerGroup
<1> DEFINE S == 0 .. PerGroup - 1
<1>0. PerGroup \in Nat \ {0} /\ BitmapBits \in Nat /\ PerGroup <= BitmapBits
  BY AllocConstants
<1>1. FreeAtFirst(g) \subseteq 0 .. GroupBlocks(g) - 1
  BY DEF FreeAtFirst
<1>2. FreeAtFirst(g) \subseteq S /\ FreeAtFirst(g) \subseteq Bits
  BY <1>0, <1>1, GroupSize DEF Bits
<1>3. IsFiniteSet(S) /\ Cardinality(S) = PerGroup
  BY <1>0, FS_Interval
<1> HIDE DEF S
<1>4. /\ IsFiniteSet(FreeAtFirst(g))
      /\ Cardinality(FreeAtFirst(g)) <= PerGroup
  BY <1>2, <1>3, FS_Subset
<1>5. Cardinality(FreeAtFirst(g)) \in Nat
  BY <1>4, FS_CardinalityType
<1> QED BY <1>0, <1>1, <1>2, <1>4, <1>5 DEF S

\* A block of the data area has a group and a bit that was free.
LEMMA DataBlock ==
    ASSUME NEW b \in Data
    PROVE  /\ b \in 0 .. BlocksCount - 1
           /\ GroupOf(b) \in Groups
           /\ b - GroupFirstBlock(GroupOf(b)) \in FreeAtFirst(GroupOf(b))
<1>1. PICK g \in Groups : \E i \in FreeAtFirst(g) : b = GroupFirstBlock(g) + i
  BY DEF Data
<1>2. PICK i \in FreeAtFirst(g) : b = GroupFirstBlock(g) + i
  BY <1>1
<1>3. i \in 0 .. PerGroup - 1 /\ i \in 0 .. GroupBlocks(g) - 1
  BY FreeBitsInGroup
<1>4. GroupOf(b) = g
  BY <1>2, <1>3, GroupOfBit
<1>5. /\ BlocksCount \in Nat /\ GroupFirstBlock(g) \in Nat /\ GroupBlocks(g) \in Nat
      /\ GroupFirstBlock(g) + GroupBlocks(g) <= BlocksCount
  BY GroupSize, AllocConstants
<1>6. b - GroupFirstBlock(g) = i /\ b \in 0 .. BlocksCount - 1
  BY <1>2, <1>3, <1>5
<1> QED BY <1>4, <1>6

\* A block has a bit of its group.
LEMMA BitOfBlock ==
    ASSUME NEW b \in Int, GroupOf(b) \in Groups
    PROVE  b - GroupFirstBlock(GroupOf(b)) \in Nat
<1> DEFINE g == GroupOf(b)
<1>0. /\ PerGroup \in Nat \ {0} /\ FirstBlock \in {0, 1} /\ g \in Nat
      /\ b - FirstBlock \in Int
  BY AllocConstants, GroupSize
<1>1. PerGroup * g <= b - FirstBlock
  BY <1>0, Quotient DEF GroupOf
<1> HIDE DEF g
<1> QED BY <1>0, <1>1 DEF GroupFirstBlock, g

\* A bit that was free is that of a data block.
LEMMA BlockOfBit ==
    ASSUME NEW g \in Groups, NEW i \in FreeAtFirst(g)
    PROVE  GroupFirstBlock(g) + i \in Data
BY DEF Data

\* There are at most as many data blocks as blocks.
LEMMA DataFinite == IsFiniteSet(Data) /\ Cardinality(Data) \in 0 .. BlocksCount
<1> DEFINE S == 0 .. BlocksCount - 1
<1>0. BlocksCount \in Nat \ {0}
  BY AllocConstants
<1>1. IsFiniteSet(S) /\ Cardinality(S) = BlocksCount
  BY <1>0, FS_Interval
<1>2. Data \subseteq S
  BY DataBlock
<1> HIDE DEF S
<1>3. IsFiniteSet(Data) /\ Cardinality(Data) <= BlocksCount
  BY <1>1, <1>2, FS_Subset
<1>4. Cardinality(Data) \in Nat
  BY <1>3, FS_CardinalityType
<1> QED BY <1>0, <1>3, <1>4

\* The bits of the blocks that files have.
LEMMA HeldBit ==
    ASSUME held \in [Files -> SUBSET Int], NEW g \in Groups,
           NEW i \in 0 .. PerGroup - 1
    PROVE  i \in HeldBits(g) <=> GroupFirstBlock(g) + i \in Taken
<1> DEFINE F == GroupFirstBlock(g)
<1>1. F \in Int /\ GroupOf(F + i) = g /\ Taken \subseteq Int
  BY GroupSize, GroupOfBit DEF Taken
<1>2. HeldBits(g) = {b - F : b \in {c \in Taken : GroupOf(c) = g}}
  BY DEF HeldBits, Taken
<1> HIDE DEF F
<1>3. ASSUME F + i \in Taken PROVE i \in HeldBits(g)
  <2>1. i = (F + i) - F
    BY <1>1
  <2> QED BY <1>1, <1>2, <1>3, <2>1
<1>4. ASSUME i \in HeldBits(g) PROVE F + i \in Taken
  <2>1. PICK b \in Taken : i = b - F
    BY <1>2, <1>4
  <2>2. b = F + i
    BY <1>1, <2>1
  <2> QED BY <2>2
<1> QED BY <1>3, <1>4 DEF F

\* Files have what was free at first.
LEMMA HeldWasFree ==
    ASSUME held \in [Files -> SUBSET Int], \A f \in Files : held[f] \subseteq Data,
           NEW g \in Groups
    PROVE  HeldBits(g) \subseteq FreeAtFirst(g)
<1> SUFFICES ASSUME NEW i \in HeldBits(g) PROVE i \in FreeAtFirst(g)
  OBVIOUS
<1>1. PICK b \in Taken : GroupOf(b) = g /\ i = b - GroupFirstBlock(g)
  BY DEF HeldBits, Taken
<1>2. b \in Data
  BY DEF Taken
<1> QED BY <1>1, <1>2, DataBlock

\* The clear bits of a bitmap that is right are the bits that are free, whether
\* one looks at the blocks of the group or at what ext4_new_meta_blocks searches.
LEMMA ClearBits ==
    ASSUME NEW g \in Groups, NEW H, H \subseteq FreeAtFirst(g)
    PROVE  /\ (0 .. BitmapLen(g) - 1) \ (Others(g) \cup H) = FreeAtFirst(g) \ H
           /\ (0 .. GroupBlocks(g) - 1) \ (Others(g) \cup H) = FreeAtFirst(g) \ H
           /\ Others(g) \cap FreeAtFirst(g) = {}
<1>1. /\ GroupBlocks(g) \in Nat /\ BitmapLen(g) \in Nat /\ PerGroup \in Nat
      /\ GroupBlocks(g) <= BitmapLen(g) /\ BitmapLen(g) <= PerGroup
      /\ BitmapBits \in Nat /\ PerGroup <= BitmapBits
  BY GroupSize, AllocConstants
<1>2. FreeAtFirst(g) \subseteq 0 .. GroupBlocks(g) - 1
  BY FreeBitsInGroup
<1>3. Others(g) \cap FreeAtFirst(g) = {}
  BY <1>1, <1>2 DEF Others, FreeAtFirst, Padding
<1>4. \A i \in 0 .. BitmapLen(g) - 1 : i \in Others(g) \/ i \in FreeAtFirst(g)
  BY <1>1 DEF Others, FreeAtFirst, Padding
<1>5. 0 .. GroupBlocks(g) - 1 \subseteq 0 .. BitmapLen(g) - 1
  BY <1>1
<1> QED BY <1>2, <1>3, <1>4, <1>5

\* ext4_init_block_bitmap marks what is there.
LEMMA InitOthers ==
    ASSUME PlainImage, NEW g \in UninitGroups
    PROVE  InitBits(g) = Others(g)
<1>0. g \in Groups /\ ~FlexBg /\ AtFront[g] = BitMax(g)
  BY AllocConstants DEF PlainImage
<1>1. UsedBits(g) = {}
  BY AllocConstants DEF UsedBits
<1>2. {c \in UNION {Own(h) : h \in Groups} : GroupOf(c) = g} = Own(g)
  BY <1>0, AllocConstants
<1>3. {c \in Own(g) : ~FlexBg \/ BlockInGroup(c, g)} = Own(g)
  BY <1>0
<1> QED BY <1>0, <1>1, <1>2, <1>3 DEF InitBits, Others, MetaBits

\* An extent of data blocks lies in one group, because every group but the
\* first begins with a block that is none.
LEMMA OneGroup ==
    ASSUME PlainImage, NEW b \in Int, NEW n \in Nat \ {0},
           b .. b + n - 1 \subseteq Data
    PROVE  LET g == GroupOf(b)
               i == b - GroupFirstBlock(g)
           IN  /\ g \in Groups /\ i \in Nat
               /\ i .. i + n - 1 \subseteq FreeAtFirst(g)
<1> DEFINE g == GroupOf(b)
           F == GroupFirstBlock(g)
           i == b - F
<1>0. b \in Data
  OBVIOUS
<1>1. g \in Groups /\ i \in FreeAtFirst(g)
  BY <1>0, DataBlock
<1>2. i \in 0 .. PerGroup - 1 /\ F \in Nat /\ PerGroup \in Nat \ {0}
  BY <1>1, FreeBitsInGroup, GroupSize, AllocConstants
<1>3. ASSUME NEW k \in i .. i + n - 1 PROVE k \in FreeAtFirst(g)
  <2>1. F + k \in Data
    BY <1>2, <1>3
  <2>2. CASE k < PerGroup
    <3>1. k \in 0 .. PerGroup - 1
      BY <1>2, <2>2
    <3>2. GroupOf(F + k) = g
      BY <1>1, <3>1, GroupOfBit
    <3>3. (F + k) - F = k
      BY <1>2, <3>1
    <3> QED BY <2>1, <3>2, <3>3, DataBlock
  <2>3. CASE k >= PerGroup
    <3>1. F + PerGroup \in Data
      BY <1>2, <2>3
    <3>2. F + PerGroup = (g + 1) * PerGroup + FirstBlock
      BY <1>1, GroupSize, AllocConstants DEF GroupFirstBlock
    <3>3. (F + PerGroup) - FirstBlock = (g + 1) * PerGroup + 0
      BY <3>2, <1>1, GroupSize, AllocConstants
    <3>4. ((g + 1) * PerGroup + 0) \div PerGroup = g + 1
      <4>1. g + 1 \in Int /\ 0 \in 0 .. PerGroup - 1
        BY <1>1, <1>2, GroupSize
      <4> HIDE DEF g
      <4> QED BY <1>2, <4>1, QuotientOf
    <3>5. GroupOf(F + PerGroup) = g + 1
      BY <3>3, <3>4 DEF GroupOf
    <3>6. (F + PerGroup) - GroupFirstBlock(g + 1) = 0
      BY <3>2, <1>1, <1>2, GroupSize, AllocConstants DEF GroupFirstBlock
    <3>7. g + 1 \in Groups /\ 0 \in FreeAtFirst(g + 1)
      BY <3>1, <3>5, <3>6, DataBlock
    <3>8. g + 1 # 0
      BY <1>1, GroupSize
    <3> QED BY <3>7, <3>8 DEF PlainImage
  <2> QED BY <1>2, <2>2, <2>3
<1> QED BY <1>1, <1>2, <1>3

\* The scan of the groups.
LEMMA ScanNext ==
    ASSUME NEW goal \in Groups, NEW g \in Groups
    PROVE  LET h == NextGroup(g, goal)
           IN  /\ h \in Groups
               /\ h # goal => Scanned(goal, h) \subseteq Scanned(goal, g) \cup {g}
               /\ h = goal => Groups \subseteq Scanned(goal, g) \cup {g}
<1>0. NGroups \in Nat \ {0} /\ goal \in 0 .. NGroups - 1 /\ g \in 0 .. NGroups - 1
  BY GroupCount DEF Groups
<1>1. CASE g + 1 < NGroups
  <2>1. NextGroup(g, goal) = g + 1
    BY <1>0, <1>1, Remainder DEF NextGroup
  <2> QED BY <1>0, <1>1, <2>1 DEF Scanned, Groups
<1>2. CASE g = NGroups - 1
  <2>1. (1 * NGroups + 0) % NGroups = 0
    BY <1>0, QuotientOf
  <2>2. NextGroup(g, goal) = 0
    BY <1>0, <1>2, <2>1 DEF NextGroup
  <2> QED BY <1>0, <1>2, <2>2 DEF Scanned, Groups
<1> QED BY <1>0, <1>1, <1>2

-----------------------------------------------------------------------------
(* Unmount. *)

\* The types hold at first.
LEMMA InitType == Init => TypeInv
<1> SUFFICES ASSUME Init PROVE TypeInv
  OBVIOUS
<1>1. \A g \in Groups : Cardinality(FreeAtFirst(g)) \in Int
  BY FreeBitsInGroup
<1>2. Cardinality(Data) \in Int
  BY DataFinite, AllocConstants
<1>3. NoCall \in Calls
  BY GroupCount DEF NoCall, Calls, Groups
<1>4. \A g \in Groups : MetaBits(g) \cup UsedBits(g) \cup Padding(g) \subseteq Int
  <2> SUFFICES ASSUME NEW g \in Groups
               PROVE  MetaBits(g) \cup UsedBits(g) \cup Padding(g) \subseteq Int
    OBVIOUS
  <2>1. GroupFirstBlock(g) \in Int
    BY GroupSize
  <2>2. \A h \in Groups : Own(h) \subseteq Int
    BY AllocConstants DEF Own, Table
  <2>3. MetaBits(g) \subseteq Int
    BY <2>1, <2>2 DEF MetaBits
  <2> QED BY <2>1, <2>3, AllocConstants DEF UsedBits, Padding
<1>5. Bits \subseteq Int
  BY DEF Bits
<1>6. bitmap \in [Groups -> SUBSET Int]
  BY <1>4, <1>5 DEF Init
<1>7. pc \in [Threads -> Labels] /\ loc \in [Threads -> Calls] /\ \A t \in Threads : pc[t] = "idle"
  BY <1>3 DEF Init, Labels
<1>8. /\ gfree \in [Groups -> Int] /\ savedFree \in [Groups -> Int]
      /\ sfree \in Int /\ savedTotal \in Int
  BY <1>1, <1>2 DEF Init
<1>u. uninit \in [Groups -> BOOLEAN]
  <2>1. \A g : (g \in UninitGroups) \in BOOLEAN
    OBVIOUS
  <2>2. \A g \in Groups : uninit[g] \in BOOLEAN
    BY <2>1 DEF Init
  <2>3. uninit = [g \in Groups |-> uninit[g]]
    BY DEF Init
  <2> QED BY <2>2, <2>3
<1>9. /\ uninit \in [Groups -> BOOLEAN] /\ savedUninit \in [Groups -> BOOLEAN]
      /\ gdirty \in [Groups -> BOOLEAN] /\ sdirty \in BOOLEAN
      /\ serial \in BOOLEAN /\ mounted \in BOOLEAN
  BY <1>u DEF Init
<1>10. /\ iblocks \in [Files -> Int] /\ held \in [Files -> SUBSET Int]
       /\ refused \in [Files -> BOOLEAN]
  BY DEF Init
<1> QED BY <1>6, <1>7, <1>8, <1>9, <1>10 DEF TypeInv

\* What the fields of a call are.
LEMMA CallType ==
    ASSUME NEW l \in Calls
    PROVE  /\ l.op \in {"none", "alloc", "free"} /\ l.file \in Files \cup {NoFile}
           /\ l.goal \in Groups /\ l.group \in Groups /\ l.wanted \in Nat
           /\ l.index \in Nat /\ l.free \in Int /\ l.word \subseteq Int /\ l.num \in Int
BY DEF Calls

\* A call with one field changed is a call.
LEMMA CallUpdate ==
    ASSUME NEW l \in Calls
    PROVE  /\ \A g \in Groups :
                 LET r == [l EXCEPT !.group = g]
                 IN  r \in Calls /\ r.op = l.op /\ r.file = l.file
           /\ \A i \in Nat :
                 LET r == [l EXCEPT !.index = i]
                 IN  r \in Calls /\ r.op = l.op /\ r.file = l.file
           /\ \A i \in Int :
                 LET r == [l EXCEPT !.free = i]
                 IN  r \in Calls /\ r.op = l.op /\ r.file = l.file
           /\ \A i \in Int :
                 LET r == [l EXCEPT !.num = i]
                 IN  r \in Calls /\ r.op = l.op /\ r.file = l.file
           /\ \A w \in SUBSET Int :
                 LET r == [l EXCEPT !.word = w]
                 IN  r \in Calls /\ r.op = l.op /\ r.file = l.file
BY DEF Calls

\* The search of a bitmap ends at a bit or at its end.
LEMMA FindType ==
    ASSUME NEW g \in Groups, NEW bm, NEW start \in Nat
    PROVE  FindNextZeroBit(bm, BitmapLen(g), start) \in Nat
<1>1. BitmapLen(g) \in Nat
  BY GroupSize, AllocConstants
<1>2. CASE (start .. BitmapLen(g) - 1) \ bm = {}
  BY <1>1, <1>2 DEF FindNextZeroBit
<1>3. CASE (start .. BitmapLen(g) - 1) \ bm # {}
  BY <1>1, <1>3, FirstZero
<1> QED BY <1>2, <1>3

\* The bits that ext4_init_block_bitmap sets are numbers.
LEMMA InitBitsType == ASSUME NEW g \in Groups PROVE InitBits(g) \subseteq Int
<1>1. GroupFirstBlock(g) \in Int
  BY GroupSize
<1>2. Own(g) \subseteq Int
  BY AllocConstants DEF Own, Table
<1> QED BY <1>1, <1>2 DEF InitBits, Padding

\* Every step keeps the types.
LEMMA TypeStep == TypeInv /\ [Next]_vars => TypeInv'
<1> SUFFICES ASSUME TypeInv, [Next]_vars PROVE TypeInv'
  OBVIOUS
<1>t. /\ bitmap \in [Groups -> SUBSET Int]
      /\ uninit \in [Groups -> BOOLEAN] /\ savedUninit \in [Groups -> BOOLEAN]
      /\ gfree \in [Groups -> Int] /\ savedFree \in [Groups -> Int]
      /\ sfree \in Int /\ savedTotal \in Int
      /\ gdirty \in [Groups -> BOOLEAN] /\ sdirty \in BOOLEAN
      /\ serial \in BOOLEAN /\ mounted \in BOOLEAN
      /\ iblocks \in [Files -> Int] /\ held \in [Files -> SUBSET Int]
      /\ refused \in [Files -> BOOLEAN]
  BY DEF TypeInv
<1>p. /\ pc \in [Threads -> Labels] /\ loc \in [Threads -> Calls]
      /\ \A t \in Threads : pc[t] # "idle" => loc[t].op # "none" /\ loc[t].file \in Files
  BY DEF TypeInv
<1>c. \A t \in Threads : /\ loc[t] \in Calls /\ Group(t) \in Groups /\ loc[t].index \in Nat
                         /\ loc[t].free \in Int /\ loc[t].num \in Int
                         /\ loc[t].word \subseteq Int
  BY <1>p, CallType DEF Group
<1>n. NoCall \in Calls
  BY GroupCount DEF NoCall, Calls, Groups
\* What a step does to one worker
<1>1. ASSUME NEW t \in Threads, NEW l \in Labels, NEW r \in Calls, Goto(t, l),
             loc' = [loc EXCEPT ![t] = r],
             l # "idle" => r.op # "none" /\ r.file \in Files
      PROVE  /\ pc' \in [Threads -> Labels] /\ loc' \in [Threads -> Calls]
             /\ \A u \in Threads : pc'[u] # "idle" => loc'[u].op # "none" /\ loc'[u].file \in Files
  BY <1>1, <1>p DEF Goto
<1>2. ASSUME NEW t \in Threads, pc[t] # "idle",
             NEW l \in Labels, Goto(t, l), loc' = loc
      PROVE  /\ pc' \in [Threads -> Labels] /\ loc' \in [Threads -> Calls]
             /\ \A u \in Threads : pc'[u] # "idle" => loc'[u].op # "none" /\ loc'[u].file \in Files
  BY <1>2, <1>p DEF Goto
<1>3. ASSUME NEW t \in Threads, pc[t] # "idle", NEW l \in Labels, Goto(t, l),
             \/ \E g \in Groups : loc' = [loc EXCEPT ![t].group = g]
             \/ \E i \in Nat : loc' = [loc EXCEPT ![t].index = i]
             \/ \E i \in Int : \/ loc' = [loc EXCEPT ![t].free = i]
                               \/ loc' = [loc EXCEPT ![t].num = i]
             \/ \E w \in SUBSET Int : loc' = [loc EXCEPT ![t].word = w]
      PROVE  /\ pc' \in [Threads -> Labels] /\ loc' \in [Threads -> Calls]
             /\ \A u \in Threads : pc'[u] # "idle" => loc'[u].op # "none" /\ loc'[u].file \in Files
  <2>1. loc[t].op # "none" /\ loc[t].file \in Files
    BY <1>3, <1>p
  <2>2. \E r \in Calls : /\ loc' = [loc EXCEPT ![t] = r]
                         /\ r.op = loc[t].op /\ r.file = loc[t].file
    <3> DEFINE A(r) == /\ r \in Calls /\ loc' = [loc EXCEPT ![t] = r]
                       /\ r.op = loc[t].op /\ r.file = loc[t].file
    <3>1. ASSUME NEW g \in Groups, loc' = [loc EXCEPT ![t].group = g]
          PROVE  A([loc[t] EXCEPT !.group = g])
      BY <3>1, <1>c, <1>p, CallUpdate
    <3>2. ASSUME NEW i \in Nat, loc' = [loc EXCEPT ![t].index = i]
          PROVE  A([loc[t] EXCEPT !.index = i])
      BY <3>2, <1>c, <1>p, CallUpdate
    <3>3. ASSUME NEW i \in Int, loc' = [loc EXCEPT ![t].free = i]
          PROVE  A([loc[t] EXCEPT !.free = i])
      BY <3>3, <1>c, <1>p, CallUpdate
    <3>4. ASSUME NEW i \in Int, loc' = [loc EXCEPT ![t].num = i]
          PROVE  A([loc[t] EXCEPT !.num = i])
      BY <3>4, <1>c, <1>p, CallUpdate
    <3>5. ASSUME NEW w \in SUBSET Int, loc' = [loc EXCEPT ![t].word = w]
          PROVE  A([loc[t] EXCEPT !.word = w])
      BY <3>5, <1>c, <1>p, CallUpdate
    <3> QED BY <1>3, <3>1, <3>2, <3>3, <3>4, <3>5
  <2> QED BY <1>1, <1>3, <2>1, <2>2
<1> DEFINE Locals == /\ pc' \in [Threads -> Labels] /\ loc' \in [Threads -> Calls]
                     /\ \A u \in Threads : pc'[u] # "idle" =>
                           loc'[u].op # "none" /\ loc'[u].file \in Files
<1>4. ASSUME NEW t \in Threads, StartAlloc(t) PROVE TypeInv'
  <2>1. PICK f \in Files, b \in Goals, n \in 1 .. MaxWanted :
           loc' = [loc EXCEPT ![t] =
                [NoCall EXCEPT !.op = "alloc", !.file = f, !.wanted = n,
                               !.goal = GoalGroup(b), !.group = GoalGroup(b)]]
    BY <1>4 DEF StartAlloc
  <2> DEFINE r == [NoCall EXCEPT !.op = "alloc", !.file = f, !.wanted = n,
                               !.goal = GoalGroup(b), !.group = GoalGroup(b)]
  <2>2. r \in Calls /\ r.op # "none" /\ r.file \in Files
    <3>1. n \in Nat /\ GoalGroup(b) \in Groups
      BY AllocConstants
    <3>2. r \in Calls /\ r.op = "alloc" /\ r.file = f
      BY <3>1, <1>n DEF Calls
    <3> QED BY <3>2
  <2> HIDE DEF r
  <2>3. Locals
    BY <1>1, <1>4, <2>1, <2>2 DEF StartAlloc, Labels, r
  <2> HIDE DEF Locals
  <2>4. serial' \in BOOLEAN
    BY <1>4 DEF StartAlloc
  <2> QED BY <1>4, <1>t, <2>3, <2>4 DEF StartAlloc, TypeInv, groupVars, mountVars, Locals
<1>5. ASSUME NEW t \in Threads, StartFree(t) PROVE TypeInv'
  <2>a. PICK f \in Files : \E b \in held[f] : \E n \in 1 .. Cardinality(held[f]) :
           /\ GroupOf(b) \in Groups
           /\ held' = [held EXCEPT ![f] = @ \ (b .. b + n - 1)]
           /\ loc' = [loc EXCEPT ![t] =
                [NoCall EXCEPT !.op = "free", !.file = f, !.free = n,
                               !.group = GroupOf(b),
                               !.index = b - GroupFirstBlock(GroupOf(b))]]
    BY <1>5 DEF StartFree
  <2>1. PICK b \in held[f], n \in 1 .. Cardinality(held[f]) :
           /\ GroupOf(b) \in Groups
           /\ held' = [held EXCEPT ![f] = @ \ (b .. b + n - 1)]
           /\ loc' = [loc EXCEPT ![t] =
                [NoCall EXCEPT !.op = "free", !.file = f, !.free = n,
                               !.group = GroupOf(b),
                               !.index = b - GroupFirstBlock(GroupOf(b))]]
    BY <2>a
  <2> DEFINE r == [NoCall EXCEPT !.op = "free", !.file = f, !.free = n,
                               !.group = GroupOf(b),
                               !.index = b - GroupFirstBlock(GroupOf(b))]
  <2>2. b - GroupFirstBlock(GroupOf(b)) \in Nat
    BY <2>1, <1>t, BitOfBlock
  <2>3. r \in Calls /\ r.op # "none" /\ r.file \in Files
    <3>1. n \in Int
      OBVIOUS
    <3>2. r \in Calls /\ r.op = "free" /\ r.file = f
      BY <1>n, <2>1, <2>2, <3>1 DEF Calls
    <3> QED BY <3>2
  <2> HIDE DEF r
  <2>4. Locals
    BY <1>1, <1>5, <2>1, <2>3 DEF StartFree, Labels, r
  <2> HIDE DEF Locals
  <2>5. serial' \in BOOLEAN /\ held' \in [Files -> SUBSET Int]
    BY <1>5, <1>t, <2>1 DEF StartFree
  <2> QED BY <1>5, <1>t, <2>4, <2>5 DEF StartFree, TypeInv, groupVars, mountVars, Locals
\* Steps that change only the worker itself
<1>6. ASSUME Locals, UNCHANGED <<groupVars, fileVars, mountVars>> PROVE TypeInv'
  BY <1>6, <1>t DEF TypeInv, groupVars, fileVars, mountVars
<1>7. ASSUME NEW t \in Threads, TryToInit(t) PROVE TypeInv'
  BY <1>2, <1>6, <1>7 DEF TryToInit, Labels
<1>8. ASSUME NEW t \in Threads, TestFree(t) PROVE TypeInv'
  <2>1. CASE Goto(t, "find") /\ UNCHANGED loc
    BY <1>2, <1>6, <1>8, <2>1 DEF TestFree, Labels
  <2>2. CASE NoSpace(t)
    <3>1. NextGroup(Group(t), loc[t].goal) \in Groups
      BY <1>p, <1>c, CallType, ScanNext
    <3>2. \E l \in Labels : Goto(t, l)
      BY <2>2 DEF NoSpace, Labels
    <3>3. Locals
      BY <1>3, <1>8, <2>2, <3>1, <3>2 DEF NoSpace, TestFree
    <3> QED BY <1>6, <1>8, <3>3 DEF TestFree
  <2> QED BY <1>8, <2>1, <2>2 DEF TestFree
<1>9. ASSUME NEW t \in Threads, Find(t) PROVE TypeInv'
  <2>1. FindNextZeroBit(bitmap[Group(t)], BitmapLen(Group(t)), 0) \in Nat
    BY <1>c, FindType
  <2>2. Locals
    BY <1>3, <1>9, <2>1 DEF Find, Labels
  <2> QED BY <1>6, <1>9, <2>2 DEF Find
<1>10. ASSUME NEW t \in Threads, RunLen(t) PROVE TypeInv'
  <2> DEFINE n == FindZeroRunLen(bitmap[Group(t)], BitmapLen(Group(t)), loc[t].index)
             k == -(IF n > loc[t].wanted THEN loc[t].wanted ELSE n)
  <2>1. n \in Int
    BY <1>c, FindType DEF FindZeroRunLen
  <2>2. k \in Int
    BY <2>1, <1>p, CallType
  <2>3. pc[t] # "idle" /\ loc' = [loc EXCEPT ![t].free = k]
        /\ \E l \in Labels : Goto(t, l)
    BY <1>10 DEF RunLen, Labels
  <2> HIDE DEF k, n
  <2>4. Locals
    BY <1>3, <2>2, <2>3
  <2> QED BY <1>6, <1>10, <2>4 DEF RunLen
<1>11. ASSUME NEW t \in Threads, LoadWord(t) \/ LoadGroupFree(t) \/ LoadTotalFree(t)
       PROVE  TypeInv'
  <2>1. bitmap[Group(t)] \in SUBSET Int /\ gfree[Group(t)] \in Int /\ sfree \in Int
    BY <1>c, <1>t
  <2>2. Locals
    BY <1>3, <1>11, <2>1 DEF LoadWord, LoadGroupFree, LoadTotalFree, Labels
  <2> QED BY <1>6, <1>11, <2>2 DEF LoadWord, LoadGroupFree, LoadTotalFree
<1>12. ASSUME NEW t \in Threads, TestInited(t) PROVE TypeInv'
  <2>1. Locals
    BY <1>1, <1>2, <1>n, <1>12 DEF TestInited, Labels
  <2> QED BY <1>6, <1>12, <2>1 DEF TestInited
\* Steps that change the bitmap or the counters
<1>13. ASSUME Locals, UNCHANGED <<fileVars, mountVars>>,
              bitmap' \in [Groups -> SUBSET Int], uninit' \in [Groups -> BOOLEAN],
              gfree' \in [Groups -> Int], sfree' \in Int,
              gdirty' \in [Groups -> BOOLEAN], sdirty' \in BOOLEAN
       PROVE  TypeInv'
  BY <1>13, <1>t DEF TypeInv, fileVars, mountVars
<1>14. ASSUME NEW t \in Threads, Wipe(t) \/ MarkBits(t) \/ ClearUninit(t) PROVE TypeInv'
  <2>1. InitBits(Group(t)) \subseteq Int
    BY <1>c, InitBitsType
  <2>2. Locals
    BY <1>2, <1>14 DEF Wipe, MarkBits, ClearUninit, Labels
  <2>3. /\ bitmap' \in [Groups -> SUBSET Int] /\ uninit' \in [Groups -> BOOLEAN]
        /\ gdirty' \in [Groups -> BOOLEAN] /\ UNCHANGED <<gfree, sfree, sdirty>>
    BY <1>14, <1>c, <1>t, <2>1 DEF Wipe, MarkBits, ClearUninit
  <2> HIDE DEF Locals
  <2> QED BY <1>13, <1>14, <1>t, <2>2, <2>3 DEF Wipe, MarkBits, ClearUninit
<1>15. ASSUME NEW t \in Threads, NoneFound(t) PROVE TypeInv'
  <2>1. NextGroup(Group(t), loc[t].goal) \in Groups
    BY <1>p, <1>c, CallType, ScanNext
  <2>2. \E l \in Labels : Goto(t, l)
    BY <1>15 DEF NoneFound, NoSpace, Labels
  <2>3. Locals
    BY <1>3, <1>15, <2>1, <2>2 DEF NoneFound, NoSpace
  <2>4. /\ gfree' \in [Groups -> Int] /\ gdirty' \in [Groups -> BOOLEAN]
        /\ UNCHANGED <<bitmap, uninit, sfree, sdirty>>
    BY <1>15, <1>c, <1>t DEF NoneFound
  <2> HIDE DEF Locals
  <2> QED BY <1>13, <1>15, <1>t, <2>3, <2>4 DEF NoneFound
<1>16. ASSUME NEW t \in Threads, StoreWord(t) PROVE TypeInv'
  <2>1. NewWord(loc[t]) \subseteq Int
    BY <1>c DEF NewWord, Bits
  <2>2. Locals
    BY <1>3, <1>16 DEF StoreWord, Labels
  <2>3. /\ bitmap' \in [Groups -> SUBSET Int]
        /\ UNCHANGED <<uninit, gfree, sfree, gdirty, sdirty>>
    BY <1>16, <1>c, <1>t, <2>1 DEF StoreWord
  <2> HIDE DEF Locals
  <2> QED BY <1>13, <1>16, <1>t, <2>2, <2>3 DEF StoreWord
<1>17. ASSUME NEW t \in Threads, StoreGroupFree(t) \/ StoreTotalFree(t) PROVE TypeInv'
  <2>1. loc[t].num + loc[t].free \in Int
    BY <1>c
  <2>2. /\ (loc[t].num + loc[t].free) % GroupRange \in Int
        /\ (loc[t].num + loc[t].free) % TotalRange \in Int
    BY <2>1, AllocConstants
  <2>3. Locals
    BY <1>2, <1>17 DEF StoreGroupFree, StoreTotalFree, Labels
  <2>4. /\ gfree' \in [Groups -> Int] /\ sfree' \in Int
        /\ gdirty' \in [Groups -> BOOLEAN] /\ sdirty' \in BOOLEAN
        /\ UNCHANGED <<bitmap, uninit>>
    BY <1>17, <1>c, <1>t, <2>2 DEF StoreGroupFree, StoreTotalFree
  <2> HIDE DEF Locals
  <2> QED BY <1>13, <1>17, <1>t, <2>3, <2>4 DEF StoreGroupFree, StoreTotalFree
\* The end of a call
<1>18. ASSUME NEW t \in Threads, Enospc(t) PROVE TypeInv'
  <2>1. Locals
    BY <1>1, <1>n, <1>18 DEF Enospc, Labels
  <2>2. refused' \in [Files -> BOOLEAN]
    BY <1>18, <1>t DEF Enospc
  <2> HIDE DEF Locals
  <2> QED BY <1>18, <1>t, <2>1, <2>2 DEF Enospc, TypeInv, groupVars, mountVars, Locals
<1>19. ASSUME NEW t \in Threads, End(t) PROVE TypeInv'
  <2>1. Locals
    BY <1>1, <1>n, <1>19 DEF End, Labels
  <2>2. GroupFirstBlock(Group(t)) + loc[t].index \in Int
    BY <1>c, GroupSize
  <2>3. /\ iblocks' \in [Files -> Int] /\ held' \in [Files -> SUBSET Int]
        /\ refused' \in [Files -> BOOLEAN]
    <3>1. loc[t].file \in Files
      BY <1>19, <1>p DEF End
    <3>2. iblocks[loc[t].file] - loc[t].free \in Int
      BY <3>1, <1>c, <1>t
    <3>3. iblocks' = [iblocks EXCEPT ![loc[t].file] = iblocks[loc[t].file] - loc[t].free]
      BY <1>19 DEF End
    <3>4. iblocks' \in [Files -> Int]
      BY <3>2, <3>3, <1>t
    <3>5. held' \in [Files -> SUBSET Int] /\ refused' \in [Files -> BOOLEAN]
      <4> DEFINE b == GroupFirstBlock(Group(t)) + loc[t].index
      <4>1. \/ /\ held' = [held EXCEPT ![loc[t].file] = @ \cup {b}]
               /\ refused' = [refused EXCEPT ![loc[t].file] = FALSE]
            \/ UNCHANGED <<held, refused>>
        BY <1>19 DEF End
      <4>2. b \in Int
        BY <2>2
      <4> HIDE DEF b
      <4>3. ASSUME held' = [held EXCEPT ![loc[t].file] = @ \cup {b}]
            PROVE  held' \in [Files -> SUBSET Int]
        <5>1. held[loc[t].file] \cup {b} \in SUBSET Int
          BY <3>1, <4>2, <1>t
        <5> QED BY <4>3, <5>1, <1>t
      <4> QED BY <4>1, <4>3, <1>t
    <3> QED BY <3>4, <3>5
  <2> HIDE DEF Locals
  <2> QED BY <1>19, <1>t, <2>1, <2>3 DEF End, TypeInv, groupVars, mountVars, Locals
<1>20. CASE Unmount \/ Mount \/ UNCHANGED vars
  <2>1. pc' = pc /\ loc' = loc
    BY <1>20 DEF Unmount, Mount, vars
  <2> QED BY <1>20, <1>t, <1>p, <2>1 DEF Unmount, Mount, vars, TypeInv, fileVars
<1>21. ASSUME NEW t \in Threads, CallStep(t) PROVE TypeInv'
  BY <1>21, <1>7, <1>8, <1>9, <1>10, <1>11, <1>12, <1>14, <1>15, <1>16, <1>17,
     <1>18, <1>19 DEF CallStep
<1> QED BY <1>4, <1>5, <1>20, <1>21 DEF Next, Terminated

\* The types hold on every image, whatever the workers do.
LEMMA TypeInvariance == Spec => []TypeInv
BY InitType, TypeStep, PTL DEF Spec

\* Whoever changes a counter or a flag marks it dirty, and Unmount writes back
\* what is dirty.
LEMMA SaveStep == TypeInv /\ SaveInv /\ [Next]_vars => SaveInv'
<1> SUFFICES ASSUME TypeInv, SaveInv, [Next]_vars PROVE SaveInv'
  OBVIOUS
<1>t. /\ uninit \in [Groups -> BOOLEAN] /\ savedUninit \in [Groups -> BOOLEAN]
      /\ gfree \in [Groups -> Int] /\ savedFree \in [Groups -> Int]
      /\ gdirty \in [Groups -> BOOLEAN] /\ sdirty \in BOOLEAN
      /\ mounted \in BOOLEAN /\ pc \in [Threads -> Labels]
  BY DEF TypeInv
<1>1. ASSUME mounted' = TRUE, UNCHANGED <<savedUninit, savedFree, savedTotal>>,
             \A g \in Groups :
                ~gdirty'[g] => ~gdirty[g] /\ uninit'[g] = uninit[g] /\ gfree'[g] = gfree[g],
             ~sdirty' => ~sdirty /\ sfree' = sfree
      PROVE  SaveInv'
  BY <1>1 DEF SaveInv
<1>2. ASSUME NEW t \in Threads, StartAlloc(t) \/ StartFree(t) PROVE SaveInv'
  BY <1>1, <1>2, <1>t DEF StartAlloc, StartFree, groupVars, mountVars
<1>3. ASSUME NEW t \in Threads, CallStep(t) PROVE SaveInv'
  <2>1. pc[t] # "idle" /\ UNCHANGED mountVars
    BY <1>3 DEF CallStep, TryToInit, Wipe, MarkBits, ClearUninit, TestFree, Find,
         RunLen, NoneFound, Enospc, TestInited, LoadWord, StoreWord,
         LoadGroupFree, StoreGroupFree, LoadTotalFree, StoreTotalFree, End
  <2>2. mounted' = TRUE /\ UNCHANGED <<savedUninit, savedFree, savedTotal>>
    BY <2>1, <1>t DEF SaveInv, Quiet, mountVars
  <2>3. \A g \in Groups :
           ~gdirty'[g] => ~gdirty[g] /\ uninit'[g] = uninit[g] /\ gfree'[g] = gfree[g]
    BY <1>3, <1>t DEF CallStep, TryToInit, Wipe, MarkBits, ClearUninit, TestFree,
         Find, RunLen, NoneFound, Enospc, TestInited, LoadWord, StoreWord,
         LoadGroupFree, StoreGroupFree, LoadTotalFree, StoreTotalFree, End, groupVars
  <2>4. ~sdirty' => ~sdirty /\ sfree' = sfree
    BY <1>3 DEF CallStep, TryToInit, Wipe, MarkBits, ClearUninit, TestFree, Find,
         RunLen, NoneFound, Enospc, TestInited, LoadWord, StoreWord,
         LoadGroupFree, StoreGroupFree, LoadTotalFree, StoreTotalFree, End, groupVars
  <2> QED BY <1>1, <2>2, <2>3, <2>4
<1>4. CASE Unmount
  BY <1>4, <1>t DEF Unmount, SaveInv, Quiet
<1>5. CASE Mount
  BY <1>5, <1>t DEF Mount, SaveInv
<1>6. CASE UNCHANGED vars
  BY <1>6 DEF vars, SaveInv, Quiet
<1> QED BY <1>2, <1>3, <1>4, <1>5, <1>6 DEF Next, Terminated

\* So do the rules of what is dirty.
LEMMA SaveInvariance == Spec => []SaveInv
<1>1. Init => SaveInv
  BY DEF Init, SaveInv
<1> QED BY TypeInvariance, SaveStep, <1>1, PTL DEF Spec

\* What is on the device is what was in memory, once it is unmounted.
LEMMA SavedWhenDown == TypeInv /\ SaveInv => SavedAtUnmount
<1> SUFFICES ASSUME TypeInv, SaveInv, ~mounted
             PROVE  savedUninit = uninit /\ savedFree = gfree /\ savedTotal = sfree
  BY DEF SavedAtUnmount
<1>1. /\ uninit \in [Groups -> BOOLEAN] /\ savedUninit \in [Groups -> BOOLEAN]
      /\ gfree \in [Groups -> Int] /\ savedFree \in [Groups -> Int]
  BY DEF TypeInv
<1>2. /\ \A g \in Groups : savedUninit[g] = uninit[g] /\ savedFree[g] = gfree[g]
      /\ savedTotal = sfree
  BY DEF SaveInv
<1> QED BY <1>1, <1>2

\* After super_group_uninit and super_uninit the device has every counter and
\* every flag as it was last in memory, on any image, however many workers
\* there were and however their calls interleaved.
THEOREM UnmountSaves == Spec => []SavedAtUnmount
BY TypeInvariance, SaveInvariance, SavedWhenDown, PTL

-----------------------------------------------------------------------------
(* Calls that do not overlap. *)

\* The number of free blocks of a group and of all.
LEMMA FreeCount ==
    /\ \A g \in Groups : /\ IsFiniteSet(FreeBits(g))
                         /\ Cardinality(FreeBits(g)) \in 0 .. PerGroup
    /\ IsFiniteSet(Data \ Taken) /\ Cardinality(Data \ Taken) \in 0 .. BlocksCount
<1>1. ASSUME NEW g \in Groups
      PROVE  IsFiniteSet(FreeBits(g)) /\ Cardinality(FreeBits(g)) \in 0 .. PerGroup
  <2>1. FreeBits(g) \in SUBSET FreeAtFirst(g)
    BY DEF FreeBits
  <2>2. /\ IsFiniteSet(FreeBits(g))
        /\ Cardinality(FreeBits(g)) <= Cardinality(FreeAtFirst(g))
    BY <2>1, FreeBitsInGroup, FS_Subset
  <2>3. Cardinality(FreeBits(g)) \in Nat
    BY <2>2, FS_CardinalityType
  <2> QED BY <2>2, <2>3, FreeBitsInGroup, AllocConstants
<1>2. /\ IsFiniteSet(Data \ Taken)
      /\ Cardinality(Data \ Taken) <= Cardinality(Data)
  BY DataFinite, FS_Subset
<1>3. Cardinality(Data \ Taken) \in Nat
  BY <1>2, FS_CardinalityType
<1> QED BY <1>1, <1>2, <1>3, DataFinite, AllocConstants

\* Nothing changes for who has what.
LEMMA HeldFrame ==
    ASSUME held' = held
    PROVE  /\ \A g \in Groups : HeldBits(g)' = HeldBits(g) /\ FreeBits(g)' = FreeBits(g)
           /\ Taken' = Taken
BY DEF HeldBits, FreeBits, Taken

\* Steps that touch none of it leave the books as they are.
LEMMA BooksFrame ==
    ASSUME UNCHANGED <<bitmap, uninit, gfree, sfree, iblocks, held>>,
           NEW g, NEW x, NEW dg, NEW ds, NEW f, NEW df, Books(g, x, dg, ds, f, df)
    PROVE  Books(g, x, dg, ds, f, df)'
BY HeldFrame DEF Books

\* Nor does the pool change when nothing is given or taken.
LEMMA PoolFrame == PoolInv /\ UNCHANGED <<held, uninit>> => PoolInv'
BY HeldFrame DEF PoolInv

\* A scan goes over groups.
LEMMA ScanIn ==
    ASSUME NEW goal \in Groups, NEW g \in Groups
    PROVE  Scanned(goal, g) \subseteq Groups
BY GroupCount DEF Scanned, Groups

\* The search for a group with a free block.
LEMMA SearchStep ==
    ASSUME PlainImage, TypeInv, PoolInv, NEW t \in Threads, pc[t] # "idle", CallInv(t),
           \/ TryToInit(t) \/ Wipe(t) \/ MarkBits(t) \/ ClearUninit(t)
           \/ TestFree(t) \/ Find(t) \/ RunLen(t) \/ NoneFound(t)
    PROVE  PoolInv' /\ pc'[t] # "idle" /\ CallInv(t)'
<1>t. /\ bitmap \in [Groups -> SUBSET Int] /\ uninit \in [Groups -> BOOLEAN]
      /\ gfree \in [Groups -> Int] /\ held \in [Files -> SUBSET Int]
      /\ pc \in [Threads -> Labels] /\ loc \in [Threads -> Calls]
  BY DEF TypeInv
<1>0. PICK g, f, goal : g = Group(t) /\ f = loc[t].file /\ goal = loc[t].goal
  OBVIOUS
<1>1. pc[t] \in {"try", "wipe", "mark", "flag", "test", "find", "run", "none"}
  BY DEF TryToInit, Wipe, MarkBits, ClearUninit, TestFree, Find, RunLen, NoneFound
<1>2. loc[t].op = "alloc"
  <2>1. loc[t].op \in {"alloc", "free"}
    BY <1>t, CallType DEF TypeInv
  <2>2. loc[t].op # "free"
    BY <1>1 DEF CallInv, FreeInv, FreeLabels, TotalLeft, GroupLeft, BitsLeft
  <2> QED BY <2>1, <2>2
<1>3. AllocInv(t)
  BY <1>2 DEF CallInv
<1>4. pc[t] # "none"
  BY <1>3 DEF AllocInv, AllocLabels
<1>5. g \in Groups /\ f \in Files /\ goal \in Groups /\ loc[t] \in Calls
  BY <1>0, <1>t, CallType DEF TypeInv, Group
<1>6. Books(g, {}, 0, 0, f, 0)
  BY <1>0, <1>1, <1>3 DEF AllocInv, AllocBooks, AllocEnd
\* What is to be shown of a step that stays in the search
<1>7. ASSUME NEW h \in Groups, pc'[t] \in {"try", "wipe", "mark", "flag", "test", "find", "enospc"},
             loc'[t].op = "alloc", loc'[t].file = f, loc'[t].goal = goal,
             loc'[t].group = h, loc'[t].wanted = loc[t].wanted,
             Books(h, {}, 0, 0, f, 0)',
             pc'[t] \in {"wipe", "mark", "flag"} => uninit'[h],
             pc'[t] = "mark" => bitmap'[h] = {},
             pc'[t] = "flag" => bitmap'[h] = InitBits(h),
             pc'[t] \in {"test", "find"} => ~uninit'[h],
             pc'[t] = "find" => gfree'[h] # 0,
             pc'[t] # "enospc" => \A k \in Scanned(goal, h) : FreeBits(k)' = {},
             pc'[t] = "enospc" => \A k \in Groups : FreeBits(k)' = {}
      PROVE  pc'[t] # "idle" /\ CallInv(t)'
  <2>1. AllocBooks(t)'
    BY <1>7 DEF AllocBooks, AllocEnd, Group
  <2>2. AllocInv(t)'
    BY <1>0, <1>3, <1>7, <2>1 DEF AllocInv, AllocLabels, Labels, AllocEnd, Group
  <2>3. ReadInv(t)'
    BY <1>7 DEF ReadInv
  <2> QED BY <1>7, <2>2, <2>3 DEF CallInv
\* Steps that change the label only
<1>8. ASSUME NEW l \in {"wipe", "test", "find"}, Goto(t, l), UNCHANGED <<loc, groupVars, fileVars>>,
             l = "wipe" => uninit[g],
             l \in {"test", "find"} => ~uninit[g],
             l = "find" => gfree[g] # 0
      PROVE  PoolInv' /\ pc'[t] # "idle" /\ CallInv(t)'
  <2>1. UNCHANGED <<bitmap, uninit, gfree, sfree, iblocks, held>>
    BY <1>8 DEF groupVars, fileVars
  <2>2. PoolInv' /\ Books(g, {}, 0, 0, f, 0)'
    BY <1>6, <2>1, BooksFrame, PoolFrame
  <2>3. pc'[t] = l
    BY <1>8, <1>t DEF Goto
  <2>4. \A k \in Groups : FreeBits(k)' = FreeBits(k)
    BY <2>1, HeldFrame
  <2>5. \A k \in Scanned(goal, g) : k \in Groups /\ FreeBits(k) = {}
    BY <1>0, <1>1, <1>3, <1>5, ScanIn DEF AllocInv, Group
  <2>6. loc' = loc
    BY <1>8
  <2> QED BY <1>0, <1>2, <1>5, <1>7, <1>8, <2>1, <2>2, <2>3, <2>4, <2>5, <2>6 DEF Group
<1>9. CASE TryToInit(t)
  BY <1>0, <1>8, <1>9 DEF TryToInit
\* Steps that fill the bitmap of a group that is still to be initialised
<1>10. ASSUME NEW l \in {"mark", "flag"}, NEW w, Goto(t, l), loc' = loc, uninit[g],
              bitmap' = [bitmap EXCEPT ![g] = w],
              UNCHANGED <<uninit, gfree, sfree, iblocks, held>>,
              l = "mark" => w = {}, l = "flag" => w = InitBits(g)
       PROVE  PoolInv' /\ pc'[t] # "idle" /\ CallInv(t)'
  <2>1. PoolInv' /\ pc'[t] = l /\ bitmap'[g] = w
    BY <1>5, <1>10, <1>t, PoolFrame DEF Goto
  <2>2. \A k \in Groups : HeldBits(k)' = HeldBits(k) /\ FreeBits(k)' = FreeBits(k)
    BY <1>10, HeldFrame
  <2>3. \A h \in Groups : ~uninit[h] => bitmap'[h] = bitmap[h]
    BY <1>10, <1>t
  <2>4. Taken' = Taken
    BY <1>10, HeldFrame
  <2>5. Books(g, {}, 0, 0, f, 0)'
    BY <1>6, <1>10, <2>2, <2>3, <2>4 DEF Books
  <2>6. \A k \in Scanned(goal, g) : k \in Groups /\ FreeBits(k) = {}
    BY <1>0, <1>1, <1>3, <1>5, ScanIn DEF AllocInv, Group
  <2> QED BY <1>0, <1>2, <1>5, <1>7, <1>10, <2>1, <2>2, <2>5, <2>6 DEF Group
<1>11. CASE Wipe(t)
  <2>1. uninit[g] /\ Goto(t, "mark") /\ bitmap' = [bitmap EXCEPT ![g] = {}]
    BY <1>0, <1>3, <1>11 DEF Wipe, AllocInv
  <2>2. loc' = loc /\ UNCHANGED <<uninit, gfree, sfree, iblocks, held>>
    BY <1>11 DEF Wipe, fileVars
  <2> QED BY <1>10, <2>1, <2>2
<1>12. CASE MarkBits(t)
  <2>1. uninit[g] /\ Goto(t, "flag") /\ bitmap[g] = {}
    BY <1>0, <1>3, <1>12 DEF MarkBits, AllocInv
  <2>2. bitmap' = [bitmap EXCEPT ![g] = InitBits(g)]
    BY <1>0, <1>12, <2>1 DEF MarkBits
  <2>3. loc' = loc /\ UNCHANGED <<uninit, gfree, sfree, iblocks, held>>
    BY <1>12 DEF MarkBits, fileVars
  <2> QED BY <1>10, <2>1, <2>2, <2>3
\* The bitmap is right when the flag is cleared
<1>13. CASE ClearUninit(t)
  <2>1. /\ uninit[g] /\ pc'[t] = "test" /\ bitmap[g] = InitBits(g) /\ loc' = loc
        /\ uninit' = [uninit EXCEPT ![g] = FALSE]
        /\ UNCHANGED <<bitmap, gfree, sfree, iblocks, held>>
    BY <1>0, <1>3, <1>13, <1>t DEF ClearUninit, AllocInv, Goto, fileVars
  <2>2. g \in UninitGroups /\ HeldBits(g) = {}
    BY <1>5, <2>1 DEF PoolInv
  <2>3. bitmap[g] = Others(g)
    BY <2>1, <2>2, InitOthers
  <2>4. \A k \in Groups : HeldBits(k)' = HeldBits(k) /\ FreeBits(k)' = FreeBits(k)
    BY <2>1, HeldFrame
  <2>5. ~uninit'[g] /\ \A h \in Groups : h # g => uninit'[h] = uninit[h]
    BY <1>5, <2>1, <1>t
  <2>6. PoolInv'
    BY <2>1, <2>4, <2>5 DEF PoolInv
  <2>7. Taken' = Taken
    BY <2>1, HeldFrame
  <2>8. \A h \in Groups : ~uninit'[h] => bitmap[h] = Others(h) \cup HeldBits(h)
    <3> SUFFICES ASSUME NEW h \in Groups, ~uninit'[h]
                 PROVE  bitmap[h] = Others(h) \cup HeldBits(h)
      OBVIOUS
    <3>1. CASE h = g
      BY <3>1, <2>2, <2>3
    <3>2. CASE h # g
      BY <3>2, <2>5, <1>6 DEF Books
    <3> QED BY <3>1, <3>2
  <2>9. Books(g, {}, 0, 0, f, 0)'
    BY <1>6, <2>1, <2>4, <2>7, <2>8 DEF Books
  <2>10. \A k \in Scanned(goal, g) : k \in Groups /\ FreeBits(k) = {}
    BY <1>0, <1>1, <1>3, <1>5, ScanIn DEF AllocInv, Group
  <2> QED BY <1>0, <1>2, <1>5, <1>7, <2>1, <2>4, <2>5, <2>6, <2>9, <2>10 DEF Group
\* A group whose counter is 0 has no free block
<1>14. CASE TestFree(t)
  <2>1. CASE Goto(t, "find") /\ UNCHANGED loc /\ gfree[g] # 0
    <3>1. ~uninit[g] /\ UNCHANGED <<groupVars, fileVars>>
      BY <1>0, <1>3, <1>14 DEF TestFree, AllocInv
    <3> QED BY <1>8, <2>1, <3>1
  <2>2. CASE gfree[g] = 0 /\ NoSpace(t)
    <3>1. PICK h : h = NextGroup(g, goal)
      OBVIOUS
    <3>2. /\ h \in Groups
          /\ h # goal => Scanned(goal, h) \subseteq Scanned(goal, g) \cup {g}
          /\ h = goal => Groups \subseteq Scanned(goal, g) \cup {g}
      BY <1>5, <3>1, ScanNext
    <3>3. /\ pc'[t] = IF h # goal THEN "try" ELSE "enospc"
          /\ loc' = [loc EXCEPT ![t].group = h]
      BY <1>0, <1>t, <2>2, <3>1 DEF NoSpace, Goto
    <3>4. /\ loc'[t].op = "alloc" /\ loc'[t].file = f /\ loc'[t].goal = goal
          /\ loc'[t].group = h /\ loc'[t].wanted = loc[t].wanted
      BY <1>0, <1>2, <1>5, <1>t, <3>3 DEF Calls
    <3>5. UNCHANGED <<bitmap, uninit, gfree, sfree, iblocks, held>>
      BY <1>14 DEF TestFree, groupVars, fileVars
    <3>6. FreeBits(g) = {}
      <4>1. Cardinality(FreeBits(g)) = 0
        BY <1>5, <1>6, <2>2, FreeCount DEF Books
      <4> QED BY <1>5, <4>1, FreeCount, FS_EmptySet
    <3>7. \A k \in Scanned(goal, g) \cup {g} : k \in Groups /\ FreeBits(k) = {}
      BY <1>0, <1>1, <1>3, <1>5, <1>14, <3>6, ScanIn DEF AllocInv, Group, TestFree
    <3>8. \A k \in Groups : FreeBits(k)' = FreeBits(k)
      BY <3>5, HeldFrame
    <3>9. Books(h, {}, 0, 0, f, 0)
      BY <1>6 DEF Books
    <3>10. PoolInv' /\ Books(h, {}, 0, 0, f, 0)'
      BY <3>5, <3>9, BooksFrame, PoolFrame
    <3> QED BY <1>7, <3>2, <3>3, <3>4, <3>7, <3>8, <3>10
  <2> QED BY <1>0, <1>14, <2>1, <2>2 DEF TestFree
\* The first clear bit is a free block
<1>15. ASSUME pc[t] \in {"find", "run"}
       PROVE  /\ ~uninit[g]
              /\ (0 .. BitmapLen(g) - 1) \ bitmap[g] = FreeBits(g)
              /\ pc[t] = "find" => FreeBits(g) # {}
  <2>1. ~uninit[g] /\ (pc[t] = "find" => gfree[g] # 0)
    BY <1>0, <1>3, <1>15 DEF AllocInv
  <2>2. bitmap[g] = Others(g) \cup HeldBits(g)
    BY <1>5, <1>6, <2>1 DEF Books
  <2>3. HeldBits(g) \subseteq FreeAtFirst(g)
    BY <1>5, <1>t, HeldWasFree DEF PoolInv
  <2>4. (0 .. BitmapLen(g) - 1) \ bitmap[g] = FreeBits(g)
    BY <1>5, <2>2, <2>3, ClearBits DEF FreeBits
  <2>5. gfree[g] = Cardinality(FreeBits(g))
    BY <1>5, <1>6, FreeCount DEF Books
  <2> QED BY <2>1, <2>4, <2>5, FS_EmptySet
<1>16. BitmapLen(g) \in Nat
  BY <1>5, GroupSize, AllocConstants
<1>17. ASSUME NEW l \in {"run", "load"}, Goto(t, l), ~uninit[g],
              UNCHANGED <<groupVars, fileVars>>,
              loc'[t].op = "alloc", loc'[t].file = f, loc'[t].goal = goal,
              loc'[t].group = g, loc'[t].wanted = loc[t].wanted,
              loc'[t].index \in FreeBits(g), l = "load" => loc'[t].free = -1
       PROVE  PoolInv' /\ pc'[t] # "idle" /\ CallInv(t)'
  <2>1. UNCHANGED <<bitmap, uninit, gfree, sfree, iblocks, held>>
    BY <1>17 DEF groupVars, fileVars
  <2>2. PoolInv' /\ Books(g, {}, 0, 0, f, 0)'
    BY <1>6, <2>1, BooksFrame, PoolFrame
  <2>3. pc'[t] = l
    BY <1>17, <1>t DEF Goto
  <2>4. \A k \in Groups : FreeBits(k)' = FreeBits(k)
    BY <2>1, HeldFrame
  <2>5. \A k \in Scanned(goal, g) : k \in Groups /\ FreeBits(k) = {}
    BY <1>0, <1>1, <1>3, <1>5, ScanIn DEF AllocInv, Group
  <2>6. AllocBooks(t)'
    BY <1>17, <2>2, <2>3 DEF AllocBooks, AllocEnd, Group
  <2>7. AllocInv(t)'
    BY <1>0, <1>3, <1>5, <1>17, <2>1, <2>3, <2>4, <2>5, <2>6
       DEF AllocInv, AllocLabels, Labels, AllocEnd, Group
  <2>8. ReadInv(t)'
    BY <2>3 DEF ReadInv
  <2> QED BY <1>17, <2>2, <2>3, <2>7, <2>8 DEF CallInv
<1>18. CASE Find(t)
  <2>1. PICK i : i = FindNextZeroBit(bitmap[g], BitmapLen(g), 0)
    OBVIOUS
  <2>2. i \in FreeBits(g) /\ ~uninit[g]
    BY <1>15, <1>16, <1>18, <2>1, FirstZero DEF Find
  <2>3. i \in Nat /\ loc' = [loc EXCEPT ![t].index = i] /\ Goto(t, "run")
    BY <1>0, <1>5, <1>18, <2>1, FindType DEF Find
  <2>4. /\ loc'[t].op = "alloc" /\ loc'[t].file = f /\ loc'[t].goal = goal
        /\ loc'[t].group = g /\ loc'[t].wanted = loc[t].wanted
        /\ loc'[t].index = i
    BY <1>0, <1>2, <1>5, <1>t, <2>3 DEF Calls, Group
  <2> QED BY <1>17, <1>18, <2>2, <2>3, <2>4 DEF Find
\* Nobody has taken it, so the run is one bit long, whatever is wanted
<1>19. CASE RunLen(t)
  <2>1. PICK i : i = loc[t].index
    OBVIOUS
  <2>2. i \in FreeBits(g) /\ i \in Nat /\ loc[t].wanted \in Nat /\ loc[t].wanted > 0
    BY <1>0, <1>3, <1>5, <1>19, <2>1, CallType DEF RunLen, AllocInv
  <2>3. i \in (0 .. BitmapLen(g) - 1) \ bitmap[g] /\ ~uninit[g]
    BY <1>15, <1>19, <2>2 DEF RunLen
  <2>4. i \in (i .. BitmapLen(g) - 1) \ bitmap[g]
    BY <1>16, <2>3
  <2>5. FindNextZeroBit(bitmap[g], BitmapLen(g), i) = i
    BY <1>16, <2>2, <2>4, FirstZero
  <2>6. FindZeroRunLen(bitmap[g], BitmapLen(g), i) = 1
    BY <2>2, <2>5 DEF FindZeroRunLen
  <2>7. Goto(t, "load") /\ loc' = [loc EXCEPT ![t].free = -1]
    <3>1. PICK n : n = FindZeroRunLen(bitmap[Group(t)], BitmapLen(Group(t)), loc[t].index)
      OBVIOUS
    <3>2. n = 1
      BY <1>0, <2>1, <2>6, <3>1
    <3>3. /\ loc' = [loc EXCEPT ![t].free =
                          -(IF n > loc[t].wanted THEN loc[t].wanted ELSE n)]
          /\ Goto(t, IF n = 0 THEN "none" ELSE "load")
      BY <1>19, <3>1 DEF RunLen
    <3>4. (IF n > loc[t].wanted THEN loc[t].wanted ELSE n) = 1
      BY <2>2, <3>2
    <3>5. (IF n = 0 THEN "none" ELSE "load") = "load"
      BY <3>2
    <3> QED BY <3>3, <3>4, <3>5
  <2>8. /\ loc'[t].op = "alloc" /\ loc'[t].file = f /\ loc'[t].goal = goal
        /\ loc'[t].group = g /\ loc'[t].wanted = loc[t].wanted
        /\ loc'[t].index = i /\ loc'[t].free = -1
    BY <1>0, <1>2, <1>5, <1>t, <2>1, <2>7 DEF Calls, Group
  <2> QED BY <1>17, <1>19, <2>2, <2>3, <2>7, <2>8 DEF RunLen
<1>20. CASE NoneFound(t)
  BY <1>4, <1>20 DEF NoneFound
<1> QED BY <1>9, <1>11, <1>12, <1>13, <1>14, <1>18, <1>19, <1>20

\* A block that ext4_new_meta_blocks has found is one that nobody has.
LEMMA FreeBlock ==
    ASSUME held \in [Files -> SUBSET Int], NEW g \in Groups, NEW i \in FreeBits(g)
    PROVE  /\ i \in 0 .. PerGroup - 1 /\ i \in Bits
           /\ GroupFirstBlock(g) + i \in Data \ Taken
           /\ Cardinality(FreeBits(g)) > 0 /\ Cardinality(Data \ Taken) > 0
<1>1. i \in FreeAtFirst(g) /\ i \notin HeldBits(g)
  BY DEF FreeBits
<1>2. i \in 0 .. PerGroup - 1 /\ i \in Bits
  BY <1>1, FreeBitsInGroup
<1>3. GroupFirstBlock(g) + i \in Data
  BY <1>1, BlockOfBit
<1>4. GroupFirstBlock(g) + i \notin Taken
  BY <1>1, <1>2, HeldBit
<1>5. Cardinality(FreeBits(g)) # 0 /\ Cardinality(Data \ Taken) # 0
  BY <1>3, <1>4, FreeCount, FS_EmptySet
<1>6. Cardinality(FreeBits(g)) \in Nat /\ Cardinality(Data \ Taken) \in Nat
  BY FreeCount, AllocConstants
<1> QED BY <1>2, <1>3, <1>4, <1>5, <1>6

\* The end of both calls: the word and the counters that are written are the
\* ones that were read, changed by what the call is about.
LEMMA UpdateStep ==
    ASSUME PlainImage, TypeInv, PoolInv, NEW t \in Threads, pc[t] # "idle", CallInv(t),
           \/ TestInited(t) \/ LoadWord(t) \/ StoreWord(t)
           \/ LoadGroupFree(t) \/ StoreGroupFree(t)
           \/ LoadTotalFree(t) \/ StoreTotalFree(t)
    PROVE  PoolInv' /\ pc'[t] # "idle" /\ CallInv(t)'
<1>t. /\ bitmap \in [Groups -> SUBSET Int] /\ uninit \in [Groups -> BOOLEAN]
      /\ gfree \in [Groups -> Int] /\ held \in [Files -> SUBSET Int]
      /\ pc \in [Threads -> Labels] /\ loc \in [Threads -> Calls]
  BY DEF TypeInv
<1>0. PICK g, f, i, n, op, at : /\ g = Group(t) /\ f = loc[t].file /\ i = loc[t].index
                                /\ n = loc[t].free /\ op = loc[t].op /\ at = pc[t]
  OBVIOUS
<1>1. at \in {"inited", "load", "store", "gload", "gstore", "sload", "sstore"}
  BY <1>0 DEF TestInited, LoadWord, StoreWord, LoadGroupFree, StoreGroupFree,
       LoadTotalFree, StoreTotalFree
<1>2. /\ g \in Groups /\ f \in Files /\ i \in Nat /\ n \in Int
      /\ op \in {"alloc", "free"} /\ loc[t] \in Calls
  BY <1>0, <1>t, CallType DEF TypeInv, Group
<1>3. ~uninit[g] /\ i \in FreeBits(g)
  <2>1. CASE op = "alloc"
    BY <1>0, <1>1, <2>1 DEF CallInv, AllocInv, AllocEnd, AllocLabels, Labels
  <2>2. CASE op = "free"
    <3>1. ~uninit[g] /\ n > 0 /\ i .. i + n - 1 \subseteq FreeBits(g)
      BY <1>0, <2>2 DEF CallInv, FreeInv, Extent
    <3> QED BY <1>2, <3>1
  <2> QED BY <1>2, <2>1, <2>2
<1> DEFINE X(l)  == IF op = "alloc" THEN IF l \in AllocEnd THEN {i} ELSE {}
                    ELSE IF l \in BitsLeft THEN i .. i + n - 1 ELSE {}
           DG(l) == IF op = "alloc"
                    THEN IF l \in AllocEnd \ {"gload", "gstore"} THEN -1 ELSE 0
                    ELSE IF l \in GroupLeft THEN -n ELSE 0
           DS(l) == IF op = "alloc" THEN IF l = "end" THEN -1 ELSE 0
                    ELSE IF l \in TotalLeft THEN -n ELSE 0
           DF    == IF op = "alloc" THEN 0 ELSE n
<1>4. Books(g, X(at), DG(at), DS(at), f, DF)
  <2>1. CASE op = "alloc"
    BY <1>0, <2>1 DEF CallInv, AllocInv, AllocBooks
  <2>2. CASE op = "free"
    BY <1>0, <2>2 DEF CallInv, FreeInv, FreeBooks, Extent
  <2> QED BY <1>2, <2>1, <2>2
<1>5. op = "alloc" => n = -1 /\ at # "inited"
  BY <1>0, <1>1 DEF CallInv, AllocInv, AllocEnd, AllocLabels
<1>6. op = "free" => n > 0 /\ i .. i + n - 1 \subseteq FreeBits(g)
  BY <1>0 DEF CallInv, FreeInv, Extent
\* What is to be shown of a step
<1>7. ASSUME NEW l \in {"load", "store", "gload", "gstore", "sload", "sstore", "end"},
             Goto(t, l), op = "alloc" => l # "load",
             UNCHANGED <<held, uninit>>,
             loc'[t].op = op, loc'[t].file = f, loc'[t].group = g, loc'[t].index = i,
             loc'[t].free = n, loc'[t].goal = loc[t].goal, loc'[t].wanted = loc[t].wanted,
             Books(g, X(l), DG(l), DS(l), f, DF)',
             l = "store" => loc'[t].word = bitmap'[g],
             l = "gstore" => loc'[t].num = gfree'[g],
             l = "sstore" => loc'[t].num = sfree'
      PROVE  PoolInv' /\ pc'[t] # "idle" /\ CallInv(t)'
  <2>1. PoolInv' /\ pc'[t] = l
    BY <1>7, <1>t, PoolFrame DEF Goto
  <2>2. \A k \in Groups : FreeBits(k)' = FreeBits(k)
    BY <1>7, HeldFrame
  <2>3. ReadInv(t)'
    BY <1>7, <2>1 DEF ReadInv, Group
  <2>4. ASSUME op = "alloc" PROVE AllocInv(t)'
    <3>1. AllocBooks(t)'
      BY <1>7, <2>1, <2>4 DEF AllocBooks, Group
    <3>2. \A k \in Scanned(loc[t].goal, g) : k \in Groups /\ FreeBits(k) = {}
      BY <1>0, <1>1, <1>2, <2>4, ScanIn, CallType DEF CallInv, AllocInv, Group
    <3>3. loc[t].wanted > 0
      BY <1>0, <2>4 DEF CallInv, AllocInv
    <3> QED BY <1>2, <1>3, <1>5, <1>7, <2>1, <2>2, <2>4, <3>1, <3>2, <3>3
            DEF AllocInv, AllocLabels, Labels, AllocEnd, Group
  <2>5. ASSUME op = "free" PROVE FreeInv(t)'
    <3>1. FreeBooks(t)'
      BY <1>7, <2>1, <2>5 DEF FreeBooks, Group, Extent
    <3>2. pc'[t] \in FreeLabels
      BY <2>1 DEF FreeLabels, TotalLeft, GroupLeft, BitsLeft
    <3> QED BY <1>2, <1>3, <1>6, <1>7, <2>2, <2>5, <3>1, <3>2 DEF FreeInv, Group, Extent
  <2> QED BY <1>2, <1>7, <2>1, <2>3, <2>4, <2>5 DEF CallInv
\* Steps that read
<1>8. ASSUME NEW l \in {"load", "store", "gstore", "sstore"}, Goto(t, l),
             UNCHANGED <<groupVars, fileVars>>,
             <<at, l>> \in {<<"inited", "load">>, <<"load", "store">>,
                            <<"gload", "gstore">>, <<"sload", "sstore">>},
             loc'[t].op = op, loc'[t].file = f, loc'[t].group = g, loc'[t].index = i,
             loc'[t].free = n, loc'[t].goal = loc[t].goal, loc'[t].wanted = loc[t].wanted,
             l = "store" => loc'[t].word = bitmap[g],
             l = "gstore" => loc'[t].num = gfree[g],
             l = "sstore" => loc'[t].num = sfree
      PROVE  PoolInv' /\ pc'[t] # "idle" /\ CallInv(t)'
  <2>1. UNCHANGED <<bitmap, uninit, gfree, sfree, iblocks, held>>
    BY <1>8 DEF groupVars, fileVars
  <2>2. op = "alloc" => l # "load"
    BY <1>5, <1>8
  <2>3. X(l) = X(at) /\ DG(l) = DG(at) /\ DS(l) = DS(at)
    BY <1>5, <1>8 DEF AllocEnd, BitsLeft, GroupLeft, TotalLeft
  <2> HIDE DEF X, DG, DS, DF
  <2>4. Books(g, X(l), DG(l), DS(l), f, DF)
    BY <1>4, <2>3
  <2>5. PICK x, dg, ds, df : x = X(l) /\ dg = DG(l) /\ ds = DS(l) /\ df = DF
    OBVIOUS
  <2>6. Books(g, x, dg, ds, f, df)'
    BY <2>1, <2>4, <2>5, BooksFrame
  <2>7. Books(g, X(l), DG(l), DS(l), f, DF)'
    BY <2>5, <2>6
  <2> QED BY <1>7, <1>8, <2>1, <2>2, <2>7
<1>9. CASE TestInited(t)
  <2>1. at = "inited" /\ Goto(t, "load") /\ UNCHANGED <<loc, groupVars, fileVars>>
    BY <1>0, <1>3, <1>9 DEF TestInited
  <2> QED BY <1>0, <1>8, <2>1 DEF Group
<1>10. CASE LoadWord(t)
  <2>1. /\ at = "load" /\ Goto(t, "store") /\ UNCHANGED <<groupVars, fileVars>>
        /\ loc' = [loc EXCEPT ![t].word = bitmap[g]]
    BY <1>0, <1>10 DEF LoadWord
  <2>2. /\ loc'[t].op = op /\ loc'[t].file = f /\ loc'[t].group = g /\ loc'[t].index = i
        /\ loc'[t].free = n /\ loc'[t].goal = loc[t].goal /\ loc'[t].wanted = loc[t].wanted
        /\ loc'[t].word = bitmap[g]
    BY <1>0, <1>2, <1>t, <2>1 DEF Calls, Group
  <2> QED BY <1>8, <2>1, <2>2
<1>11. CASE LoadGroupFree(t)
  <2>1. /\ at = "gload" /\ Goto(t, "gstore") /\ UNCHANGED <<groupVars, fileVars>>
        /\ loc' = [loc EXCEPT ![t].num = gfree[g]]
    BY <1>0, <1>11 DEF LoadGroupFree
  <2>2. /\ loc'[t].op = op /\ loc'[t].file = f /\ loc'[t].group = g /\ loc'[t].index = i
        /\ loc'[t].free = n /\ loc'[t].goal = loc[t].goal /\ loc'[t].wanted = loc[t].wanted
        /\ loc'[t].num = gfree[g]
    BY <1>0, <1>2, <1>t, <2>1 DEF Calls, Group
  <2> QED BY <1>8, <2>1, <2>2
<1>12. CASE LoadTotalFree(t)
  <2>1. /\ at = "sload" /\ Goto(t, "sstore") /\ UNCHANGED <<groupVars, fileVars>>
        /\ loc' = [loc EXCEPT ![t].num = sfree]
    BY <1>0, <1>12 DEF LoadTotalFree
  <2>2. /\ loc'[t].op = op /\ loc'[t].file = f /\ loc'[t].group = g /\ loc'[t].index = i
        /\ loc'[t].free = n /\ loc'[t].goal = loc[t].goal /\ loc'[t].wanted = loc[t].wanted
        /\ loc'[t].num = sfree
    BY <1>0, <1>2, <1>t, <2>1 DEF Calls, Group
  <2> QED BY <1>8, <2>1, <2>2
\* mb_set_bits sets the one bit, mb_clear_bits clears the bits of the extent
<1>13. CASE StoreWord(t)
  <2>1. /\ at = "store" /\ Goto(t, "gload")
        /\ bitmap' = [bitmap EXCEPT ![g] = NewWord(loc[t])]
        /\ loc' = [loc EXCEPT ![t].word = {}]
        /\ UNCHANGED <<uninit, gfree, sfree, iblocks, held>>
    BY <1>0, <1>13 DEF StoreWord, fileVars
  <2>2. /\ loc'[t].op = op /\ loc'[t].file = f /\ loc'[t].group = g /\ loc'[t].index = i
        /\ loc'[t].free = n /\ loc'[t].goal = loc[t].goal /\ loc'[t].wanted = loc[t].wanted
    BY <1>0, <1>2, <1>t, <2>1 DEF Calls, Group
  <2>3. loc[t].word = bitmap[g]
    BY <1>0, <2>1 DEF CallInv, ReadInv
  <2>4. bitmap[g] = Others(g) \cup HeldBits(g) \cup X("store")
    BY <1>2, <1>3, <1>4, <2>1 DEF Books
  <2>5. NewWord(loc[t]) = Others(g) \cup HeldBits(g) \cup X("gload")
    <3>1. CASE op = "alloc"
      <4>1. X("store") = {} /\ X("gload") = {i}
        BY <3>1 DEF AllocEnd
      <4>2. i \in Bits /\ n = -1
        BY <1>2, <1>3, <1>5, <1>t, <3>1, FreeBlock
      <4>3. (i .. i - n - 1) \cap Bits = {i}
        BY <1>2, <4>2
      <4>4. NewWord(loc[t]) = bitmap[g] \cup {i}
        BY <1>0, <2>3, <3>1, <4>3 DEF NewWord
      <4> HIDE DEF X
      <4> QED BY <2>4, <4>1, <4>4
    <3>2. CASE op = "free"
      <4>1. X("store") = i .. i + n - 1 /\ X("gload") = {}
        BY <3>2 DEF BitsLeft
      <4>2. NewWord(loc[t]) = bitmap[g] \ (i .. i + n - 1)
        BY <1>0, <2>3, <3>2 DEF NewWord
      <4>3. (i .. i + n - 1) \cap (Others(g) \cup HeldBits(g)) = {}
        <5>1. Others(g) \cap FreeAtFirst(g) = {}
          BY <1>2, ClearBits
        <5> QED BY <1>6, <3>2, <5>1 DEF FreeBits
      <4> HIDE DEF X
      <4> QED BY <2>4, <4>1, <4>2, <4>3
    <3> QED BY <1>2, <3>1, <3>2
  <2>6. DG("gload") = DG("store") /\ DS("gload") = DS("store")
    BY DEF AllocEnd, GroupLeft, TotalLeft, BitsLeft
  <2> HIDE DEF X, DG, DS, DF
  <2>7. bitmap'[g] = Others(g) \cup HeldBits(g) \cup X("gload")
    BY <1>2, <1>t, <2>1, <2>5
  <2>8. \A h \in Groups : h # g => bitmap'[h] = bitmap[h]
    BY <1>t, <2>1
  <2>9. \A h \in Groups : ~uninit[h] =>
           bitmap'[h] = Others(h) \cup HeldBits(h) \cup IF h = g THEN X("gload") ELSE {}
    <3> SUFFICES ASSUME NEW h \in Groups, ~uninit[h]
                 PROVE  bitmap'[h] = Others(h) \cup HeldBits(h) \cup IF h = g THEN X("gload") ELSE {}
      OBVIOUS
    <3>1. CASE h = g
      BY <2>7, <3>1
    <3>2. CASE h # g
      BY <1>4, <2>8, <3>2 DEF Books
    <3> QED BY <3>1, <3>2
  <2>10. PICK x, dg, ds, df : x = X("gload") /\ dg = DG("gload") /\ ds = DS("gload") /\ df = DF
    OBVIOUS
  <2>11. Books(g, x, dg, ds, f, df)'
    <3>1. /\ \A h \in Groups :
                gfree[h] = Cardinality(FreeBits(h)) + IF h = g THEN dg ELSE 0
          /\ sfree = Cardinality(Data \ Taken) + ds
          /\ \A e \in Files :
                iblocks[e] = Cardinality(held[e]) + IF e = f THEN df ELSE 0
      BY <1>4, <2>1, <2>6, <2>10 DEF Books
    <3> QED BY <2>1, <2>9, <2>10, <3>1, HeldFrame DEF Books
  <2>12. Books(g, X("gload"), DG("gload"), DS("gload"), f, DF)'
    BY <2>10, <2>11
  <2> QED BY <1>7, <2>1, <2>2, <2>12
\* ext4_free_blks_set: the counter of the group does not wrap
<1>14. CASE StoreGroupFree(t)
  <2>1. /\ at = "gstore" /\ Goto(t, "sload") /\ loc' = loc
        /\ gfree' = [gfree EXCEPT ![g] = (loc[t].num + n) % GroupRange]
        /\ UNCHANGED <<bitmap, uninit, sfree, iblocks, held>>
    BY <1>0, <1>14 DEF StoreGroupFree, fileVars
  <2>2. PICK c \in 0 .. PerGroup : c = Cardinality(FreeBits(g))
    BY <1>2, FreeCount
  <2>3. loc[t].num = c + DG("gstore")
    BY <1>0, <1>2, <1>4, <2>1, <2>2 DEF CallInv, ReadInv, Books
  <2>4. c > 0
    BY <1>2, <1>3, <1>t, <2>2, FreeBlock
  <2>5. PerGroup \in Nat /\ GroupRange \in Nat \ {0} /\ PerGroup < GroupRange
    BY AllocConstants DEF PlainImage
  <2>6. loc[t].num + n = c + DG("sload") /\ c + DG("sload") \in 0 .. GroupRange - 1
    <3>1. CASE op = "alloc"
      <4>1. DG("gstore") = 0 /\ DG("sload") = -1 /\ n = -1
        BY <1>5, <3>1 DEF AllocEnd
      <4> HIDE DEF DG
      <4> QED BY <2>3, <2>4, <2>5, <4>1
    <3>2. CASE op = "free"
      <4>1. DG("gstore") = -n /\ DG("sload") = 0
        BY <3>2 DEF GroupLeft, BitsLeft
      <4> HIDE DEF DG
      <4> QED BY <1>2, <2>3, <2>5, <4>1
    <3> QED BY <1>2, <3>1, <3>2
  <2>7. X("sload") = X("gstore") /\ DS("sload") = DS("gstore")
    BY DEF AllocEnd, TotalLeft, GroupLeft, BitsLeft
  <2> HIDE DEF X, DG, DS, DF
  <2>8. gfree'[g] = c + DG("sload")
    <3>1. (c + DG("sload")) % GroupRange = c + DG("sload")
      BY <2>5, <2>6, Remainder
    <3> QED BY <1>2, <1>t, <2>1, <2>6, <3>1
  <2>9. \A h \in Groups : h # g => gfree'[h] = gfree[h]
    BY <1>t, <2>1
  <2>10. \A h \in Groups :
            gfree'[h] = Cardinality(FreeBits(h)) + IF h = g THEN DG("sload") ELSE 0
    <3> SUFFICES ASSUME NEW h \in Groups
                 PROVE  gfree'[h] = Cardinality(FreeBits(h)) + IF h = g THEN DG("sload") ELSE 0
      OBVIOUS
    <3>1. CASE h = g
      BY <2>2, <2>8, <3>1
    <3>2. CASE h # g
      BY <1>4, <2>9, <3>2 DEF Books
    <3> QED BY <3>1, <3>2
  <2>11. PICK x, dg, ds, df : x = X("sload") /\ dg = DG("sload") /\ ds = DS("sload") /\ df = DF
    OBVIOUS
  <2>12. Books(g, x, dg, ds, f, df)'
    <3>1. /\ \A h \in Groups : ~uninit[h] =>
                bitmap[h] = Others(h) \cup HeldBits(h) \cup IF h = g THEN x ELSE {}
          /\ sfree = Cardinality(Data \ Taken) + ds
          /\ \A e \in Files :
                iblocks[e] = Cardinality(held[e]) + IF e = f THEN df ELSE 0
      BY <1>4, <2>1, <2>7, <2>11 DEF Books
    <3> QED BY <2>1, <2>10, <2>11, <3>1, HeldFrame DEF Books
  <2>13. Books(g, X("sload"), DG("sload"), DS("sload"), f, DF)'
    BY <2>11, <2>12
  <2> QED BY <1>0, <1>7, <2>1, <2>13 DEF Group
\* ext4_free_blocks_count_set: nor does that of the superblock
<1>15. CASE StoreTotalFree(t)
  <2>1. /\ at = "sstore" /\ Goto(t, "end") /\ loc' = loc
        /\ sfree' = (loc[t].num + n) % TotalRange
        /\ UNCHANGED <<bitmap, uninit, gfree, iblocks, held>>
    BY <1>0, <1>15 DEF StoreTotalFree, fileVars
  <2>2. PICK c \in 0 .. BlocksCount : c = Cardinality(Data \ Taken)
    BY FreeCount
  <2>3. loc[t].num = c + DS("sstore")
    BY <1>0, <1>4, <2>1, <2>2 DEF CallInv, ReadInv, Books
  <2>4. c > 0
    BY <1>2, <1>3, <1>t, <2>2, FreeBlock
  <2>5. BlocksCount \in Nat /\ TotalRange \in Nat \ {0} /\ BlocksCount < TotalRange
    BY AllocConstants DEF PlainImage
  <2>6. loc[t].num + n = c + DS("end") /\ c + DS("end") \in 0 .. TotalRange - 1
    <3>1. CASE op = "alloc"
      <4>1. DS("sstore") = 0 /\ DS("end") = -1 /\ n = -1
        BY <1>5, <3>1
      <4> HIDE DEF DS
      <4> QED BY <2>3, <2>4, <2>5, <4>1
    <3>2. CASE op = "free"
      <4>1. DS("sstore") = -n /\ DS("end") = 0
        BY <3>2 DEF TotalLeft, GroupLeft, BitsLeft
      <4> HIDE DEF DS
      <4> QED BY <1>2, <2>3, <2>5, <4>1
    <3> QED BY <1>2, <3>1, <3>2
  <2>7. X("end") = X("sstore") /\ DG("end") = DG("sstore")
    BY DEF AllocEnd, GroupLeft, BitsLeft
  <2> HIDE DEF X, DG, DS, DF
  <2>8. sfree' = c + DS("end")
    <3>1. (c + DS("end")) % TotalRange = c + DS("end")
      BY <2>5, <2>6, Remainder
    <3> QED BY <2>1, <2>6, <3>1
  <2>9. PICK x, dg, ds, df : x = X("end") /\ dg = DG("end") /\ ds = DS("end") /\ df = DF
    OBVIOUS
  <2>10. Books(g, x, dg, ds, f, df)'
    <3>1. /\ \A h \in Groups : ~uninit[h] =>
                bitmap[h] = Others(h) \cup HeldBits(h) \cup IF h = g THEN x ELSE {}
          /\ \A h \in Groups :
                gfree[h] = Cardinality(FreeBits(h)) + IF h = g THEN dg ELSE 0
          /\ \A e \in Files :
                iblocks[e] = Cardinality(held[e]) + IF e = f THEN df ELSE 0
      BY <1>4, <2>1, <2>7, <2>9 DEF Books
    <3> QED BY <2>1, <2>2, <2>8, <2>9, <3>1, HeldFrame DEF Books
  <2>11. Books(g, X("end"), DG("end"), DS("end"), f, DF)'
    BY <2>9, <2>10
  <2> QED BY <1>0, <1>7, <2>1, <2>11 DEF Group
<1> QED BY <1>9, <1>10, <1>11, <1>12, <1>13, <1>14, <1>15

\* The bits of group g that belong to the blocks of T.
BitsOf(T, g) == {b - GroupFirstBlock(g) : b \in {c \in T : GroupOf(c) = g}}

\* Bits held and bits free, by the blocks that are taken, before and after a step.
LEMMA HeldBitsOf ==
    /\ \A g \in Groups : HeldBits(g) = BitsOf(Taken, g)
    /\ \A g \in Groups : HeldBits(g)' = BitsOf(Taken', g)
    /\ \A g \in Groups : FreeBits(g) = FreeAtFirst(g) \ BitsOf(Taken, g)
    /\ \A g \in Groups : FreeBits(g)' = FreeAtFirst(g) \ BitsOf(Taken', g)
BY DEF HeldBits, BitsOf, Taken, FreeBits

\* Which bits these are.
LEMMA BitIn ==
    ASSUME NEW T \in SUBSET Data, NEW g \in Groups
    PROVE  /\ BitsOf(T, g) \subseteq FreeAtFirst(g)
           /\ \A i \in 0 .. PerGroup - 1 :
                 i \in BitsOf(T, g) <=> GroupFirstBlock(g) + i \in T
<1> DEFINE F == GroupFirstBlock(g)
<1>0. F \in Int /\ T \subseteq Int
  BY GroupSize, DataBlock
<1>1. ASSUME NEW i \in BitsOf(T, g) PROVE i \in FreeAtFirst(g)
  <2>1. PICK b \in T : GroupOf(b) = g /\ i = b - F
    BY DEF BitsOf
  <2> QED BY <2>1, DataBlock
<1>2. ASSUME NEW i \in 0 .. PerGroup - 1, F + i \in T PROVE i \in BitsOf(T, g)
  <2>1. GroupOf(F + i) = g
    BY GroupOfBit
  <2> HIDE DEF F
  <2>2. i = (F + i) - F
    BY <1>0
  <2> QED BY <1>2, <2>1, <2>2 DEF BitsOf, F
<1>3. ASSUME NEW i \in BitsOf(T, g) PROVE F + i \in T
  <2>1. PICK b \in T : i = b - F
    BY DEF BitsOf
  <2> HIDE DEF F
  <2>2. b = F + i
    BY <1>0, <2>1
  <2> QED BY <2>2
<1> QED BY <1>1, <1>2, <1>3

\* The n blocks from bit i of group g on change hands: what U has and T has not.
Moved(g, i, n, T, U) ==
    /\ U \subseteq Data
    /\ BitsOf(U, g) = BitsOf(T, g) \cup (i .. i + n - 1)
    /\ BitsOf(T, g) \cap (i .. i + n - 1) = {}
    /\ \A h \in Groups : h # g => BitsOf(U, h) = BitsOf(T, h)
    /\ Cardinality(FreeAtFirst(g) \ BitsOf(T, g)) =
          Cardinality(FreeAtFirst(g) \ BitsOf(U, g)) + n
    /\ Cardinality(Data \ T) = Cardinality(Data \ U) + n

\* An extent of free blocks of one group moves as many bits as it has blocks.
LEMMA MoveBits ==
    ASSUME NEW g \in Groups, NEW i \in Nat, NEW n \in Nat \ {0}, NEW T \in SUBSET Data,
           NEW S, S = GroupFirstBlock(g) + i .. GroupFirstBlock(g) + i + n - 1,
           i .. i + n - 1 \subseteq FreeAtFirst(g), T \cap S = {}
    PROVE  Moved(g, i, n, T, T \cup S)
<1>e. PICK E : E = i .. i + n - 1
  OBVIOUS
<1>s. E \subseteq FreeAtFirst(g)
  BY <1>e
<1> DEFINE F == GroupFirstBlock(g)
<1>0. F \in Nat /\ T \subseteq Int
  BY GroupSize, DataBlock
<1>1. /\ FreeAtFirst(g) \subseteq 0 .. PerGroup - 1 /\ IsFiniteSet(FreeAtFirst(g))
      /\ IsFiniteSet(Data) /\ PerGroup \in Nat
  BY FreeBitsInGroup, DataFinite, AllocConstants
<1>2. \A b \in S : b - F \in E /\ b = F + (b - F)
  BY <1>0, <1>e
<1>3. \A k \in E : F + k \in S
  BY <1>0, <1>e
<1>4. ASSUME NEW b \in S PROVE b \in Data /\ GroupOf(b) = g
  <2>1. b - F \in FreeAtFirst(g) /\ b - F \in 0 .. PerGroup - 1
    BY <1>1, <1>2, <1>s
  <2>2. b = F + (b - F)
    BY <1>2
  <2>3. F + (b - F) \in Data
    BY <2>1, BlockOfBit
  <2>4. GroupOf(F + (b - F)) = g
    BY <2>1, GroupOfBit
  <2> QED BY <2>2, <2>3, <2>4
<1>5. BitsOf(T \cup S, g) = BitsOf(T, g) \cup E /\ BitsOf(T, g) \cap E = {}
  <2>1. T \cup S \in SUBSET Data
    BY <1>4
  <2>2. BitsOf(T \cup S, g) \subseteq 0 .. PerGroup - 1 /\ BitsOf(T, g) \subseteq 0 .. PerGroup - 1
    BY <1>1, <2>1, BitIn
  <2>3. \A k \in 0 .. PerGroup - 1 : k \in BitsOf(T, g) <=> F + k \in T
    BY BitIn
  <2>4. \A k \in 0 .. PerGroup - 1 : k \in BitsOf(T \cup S, g) <=> F + k \in T \cup S
    BY <2>1, BitIn
  <2>5. \A k \in 0 .. PerGroup - 1 : F + k \in S <=> k \in E
    <3> SUFFICES ASSUME NEW k \in 0 .. PerGroup - 1, F + k \in S PROVE k \in E
      BY <1>3
    <3> HIDE DEF F
    <3>1. (F + k) - F = k
      BY <1>0
    <3> QED BY <1>2, <3>1
  <2>6. E \subseteq 0 .. PerGroup - 1
    BY <1>1, <1>s
  <2> HIDE DEF F
  <2> QED BY <2>2, <2>3, <2>4, <2>5, <2>6
<1>6. ASSUME NEW h \in Groups, h # g PROVE BitsOf(T \cup S, h) = BitsOf(T, h)
  <2>1. {c \in T \cup S : GroupOf(c) = h} = {c \in T : GroupOf(c) = h}
    BY <1>4, <1>6
  <2> QED BY <2>1 DEF BitsOf
<1>7. IsFiniteSet(E) /\ Cardinality(E) = n
  <2>1. i + n - 1 \in Int /\ i + n - 1 >= i
    OBVIOUS
  <2>2. IsFiniteSet(i .. i + n - 1) /\ Cardinality(i .. i + n - 1) = (i + n - 1) - i + 1
    BY <2>1, FS_Interval
  <2> QED BY <1>e, <2>2
<1>8. IsFiniteSet(S) /\ Cardinality(S) = n
  <2>1. F + i \in Int /\ F + i + n - 1 \in Int /\ F + i + n - 1 >= F + i
    BY <1>0
  <2>2. /\ IsFiniteSet(F + i .. F + i + n - 1)
        /\ Cardinality(F + i .. F + i + n - 1) = (F + i + n - 1) - (F + i) + 1
    BY <2>1, FS_Interval
  <2>3. (F + i + n - 1) - (F + i) + 1 = n
    BY <1>0
  <2> QED BY <2>2, <2>3
\* A finite set without one of its parts
<1>9. ASSUME NEW A, NEW B, IsFiniteSet(A), B \subseteq A, Cardinality(B) = n
      PROVE  Cardinality(A) = Cardinality(A \ B) + n
  <2>1. /\ IsFiniteSet(A \ B)
        /\ Cardinality(A \ B) = Cardinality(A) - Cardinality(A \cap B)
    BY <1>9, FS_Difference
  <2>2. A \cap B = B
    BY <1>9
  <2>3. Cardinality(A) \in Nat
    BY <1>9, FS_CardinalityType
  <2>4. Cardinality(A \ B) = Cardinality(A) - n
    BY <1>9, <2>1, <2>2
  <2>5. n \in Int
    OBVIOUS
  <2> QED BY <2>3, <2>4, <2>5
<1>10. Cardinality(FreeAtFirst(g) \ BitsOf(T, g)) =
          Cardinality(FreeAtFirst(g) \ BitsOf(T \cup S, g)) + n
  <2> DEFINE A == FreeAtFirst(g) \ BitsOf(T, g)
  <2>1. IsFiniteSet(A) /\ E \subseteq A
    BY <1>1, <1>5, <1>s, FS_Subset
  <2>2. FreeAtFirst(g) \ BitsOf(T \cup S, g) = A \ E
    BY <1>5
  <2> HIDE DEF A
  <2>3. Cardinality(A) = Cardinality(A \ E) + n
    BY <1>7, <1>9, <2>1
  <2> QED BY <2>2, <2>3 DEF A
<1>11. Cardinality(Data \ T) = Cardinality(Data \ (T \cup S)) + n
  <2> DEFINE A == Data \ T
  <2>1. IsFiniteSet(A) /\ S \subseteq A
    BY <1>1, <1>4, FS_Subset
  <2>2. Data \ (T \cup S) = A \ S
    OBVIOUS
  <2> HIDE DEF A
  <2>3. Cardinality(A) = Cardinality(A \ S) + n
    BY <1>8, <1>9, <2>1
  <2> QED BY <2>2, <2>3 DEF A
<1>12. T \cup S \subseteq Data
  BY <1>4
<1> QED BY <1>e, <1>5, <1>6, <1>10, <1>11, <1>12 DEF Moved

\* ENOSPC is the answer only when files have everything.
LEMMA NothingLeft ==
    ASSUME \A f \in Files : held[f] \subseteq Data, \A g \in Groups : FreeBits(g) = {}
    PROVE  Taken = Data
<1>1. Taken \in SUBSET Data
  BY DEF Taken
<1>2. ASSUME NEW b \in Data PROVE b \in Taken
  <2>1. PICK g, i : g = GroupOf(b) /\ i = b - GroupFirstBlock(g)
    OBVIOUS
  <2>2. g \in Groups /\ i \in FreeAtFirst(g) /\ b \in Int
    BY <2>1, DataBlock
  <2>3. i \in BitsOf(Taken, g) /\ i \in 0 .. PerGroup - 1
    BY <2>2, HeldBitsOf, FreeBitsInGroup
  <2>4. GroupFirstBlock(g) + i \in Taken
    BY <1>1, <2>2, <2>3, BitIn
  <2>5. GroupFirstBlock(g) + i = b
    BY <2>1, <2>2, GroupSize
  <2> QED BY <2>4, <2>5
<1> QED BY <1>1, <1>2

\* A call that ends leaves the books right.
LEMMA ReturnStep ==
    ASSUME PlainImage, TypeInv, PoolInv, NEW t \in Threads, pc[t] # "idle", CallInv(t),
           Enospc(t) \/ End(t)
    PROVE  PoolInv' /\ pc'[t] = "idle" /\ Books(0, {}, 0, 0, NoFile, 0)'
<1>t. /\ uninit \in [Groups -> BOOLEAN] /\ held \in [Files -> SUBSET Int]
      /\ iblocks \in [Files -> Int]
      /\ pc \in [Threads -> Labels] /\ loc \in [Threads -> Calls]
  BY DEF TypeInv
<1>0. PICK g, f, i, n : /\ g = Group(t) /\ f = loc[t].file /\ i = loc[t].index
                        /\ n = loc[t].free
  OBVIOUS
<1>1. g \in Groups /\ f \in Files /\ i \in Nat /\ n \in Int /\ loc[t].op \in {"alloc", "free"}
  BY <1>0, <1>t, CallType DEF TypeInv, Group
<1>2. /\ pc'[t] = "idle" /\ UNCHANGED <<bitmap, uninit, gfree, sfree>>
  BY <1>t DEF Enospc, End, Goto, groupVars
<1>n. NoFile \notin Files
  BY AllocConstants
<1>3. CASE Enospc(t)
  <2>1. pc[t] = "enospc" /\ UNCHANGED <<iblocks, held>>
    BY <1>3 DEF Enospc
  <2>2. loc[t].op = "alloc"
    BY <1>1, <2>1 DEF CallInv, FreeInv, FreeLabels, TotalLeft, GroupLeft, BitsLeft
  <2>3. Books(g, {}, 0, 0, f, 0)
    BY <1>0, <2>1, <2>2 DEF CallInv, AllocInv, AllocBooks, AllocEnd
  <2>4. Books(0, {}, 0, 0, NoFile, 0)
    BY <2>3 DEF Books
  <2> QED BY <1>2, <2>1, <2>4, BooksFrame, PoolFrame
<1>4. CASE End(t) /\ loc[t].op = "free"
  <2>1. pc[t] = "end" /\ held' = held /\ iblocks' = [iblocks EXCEPT ![f] = @ - n]
    BY <1>0, <1>4 DEF End
  <2>2. Books(g, {}, 0, 0, f, n)
    BY <1>0, <1>4, <2>1 DEF CallInv, FreeInv, FreeBooks, TotalLeft, GroupLeft, BitsLeft
  <2>3. \A e \in Files : Cardinality(held[e]) \in Int
    BY DataFinite, FS_Subset, FS_CardinalityType DEF PoolInv
  <2>4. \A e \in Files : iblocks'[e] = Cardinality(held[e]) + 0
    BY <1>1, <1>t, <2>1, <2>2, <2>3 DEF Books
  <2>5. /\ \A h \in Groups : ~uninit[h] => bitmap[h] = Others(h) \cup HeldBits(h) \cup {}
        /\ \A h \in Groups : gfree[h] = Cardinality(FreeBits(h)) + 0
        /\ sfree = Cardinality(Data \ Taken) + 0
    BY <2>2 DEF Books
  <2>6. Books(0, {}, 0, 0, NoFile, 0)'
    BY <1>2, <2>1, <2>4, <2>5, HeldFrame DEF Books
  <2> QED BY <1>2, <2>1, <2>6, PoolFrame
<1>5. CASE End(t) /\ loc[t].op = "alloc"
  <2>1. PICK b : b = GroupFirstBlock(g) + i
    OBVIOUS
  <2>2. /\ pc[t] = "end" /\ held' = [held EXCEPT ![f] = @ \cup {b}]
        /\ iblocks' = [iblocks EXCEPT ![f] = @ - n]
    BY <1>0, <1>5, <2>1 DEF End
  <2>3. n = -1 /\ i \in FreeBits(g) /\ ~uninit[g] /\ Books(g, {i}, -1, -1, f, 0)
    BY <1>0, <1>5, <2>2 DEF CallInv, AllocInv, AllocBooks, AllocEnd
  <2>4. b \in Data \ Taken /\ i \in FreeAtFirst(g)
    BY <1>1, <1>t, <2>1, <2>3, FreeBlock DEF FreeBits
  <2>5. /\ Taken' = Taken \cup {b} /\ Taken \in SUBSET Data
        /\ \A e \in Files : held'[e] = IF e = f THEN held[f] \cup {b} ELSE held[e]
    <3>1. \A e \in Files : held'[e] = IF e = f THEN held[f] \cup {b} ELSE held[e]
      BY <1>1, <1>t, <2>2
    <3>2. Taken \in SUBSET Data
      BY DEF PoolInv, Taken
    <3>3. Taken' = UNION {held'[e] : e \in Files}
      BY DEF Taken
    <3> QED BY <1>1, <3>1, <3>2, <3>3 DEF Taken
  <2>6. {i} = i .. i + 1 - 1 /\ {b} = GroupFirstBlock(g) + i .. GroupFirstBlock(g) + i + 1 - 1
    BY <1>1, <2>1, GroupSize
  <2>7. /\ BitsOf(Taken', g) = BitsOf(Taken, g) \cup {i}
        /\ \A h \in Groups : h # g => BitsOf(Taken', h) = BitsOf(Taken, h)
        /\ Cardinality(FreeAtFirst(g) \ BitsOf(Taken, g)) =
              Cardinality(FreeAtFirst(g) \ BitsOf(Taken', g)) + 1
        /\ Cardinality(Data \ Taken) = Cardinality(Data \ Taken') + 1
    <3>1. Taken \cap {b} = {} /\ {i} \subseteq FreeAtFirst(g) /\ 1 \in Nat \ {0}
      BY <2>4
    <3>2. Moved(g, i, 1, Taken, Taken \cup {b})
      BY <1>1, <2>5, <2>6, <3>1, MoveBits
    <3>3. Moved(g, i, 1, Taken, Taken')
      BY <2>5, <3>2
    <3> QED BY <2>6, <3>3 DEF Moved
  <2>8. PoolInv'
    <3>1. b \notin Taken /\ \A e \in Files : held[e] \subseteq Taken
      BY <2>4 DEF Taken
    <3>2. \A e, h \in Files : e # h => held'[e] \cap held'[h] = {}
      <4> SUFFICES ASSUME NEW e \in Files, NEW h \in Files, e # h
                   PROVE  held'[e] \cap held'[h] = {}
        OBVIOUS
      <4>1. held[e] \cap held[h] = {}
        BY DEF PoolInv
      <4> QED BY <2>5, <3>1, <4>1
    <3>3. \A e \in Files : held'[e] \subseteq Data
      BY <2>4, <2>5 DEF PoolInv
    <3>4. \A h \in Groups : uninit[h] => h \in UninitGroups /\ HeldBits(h)' = {}
      BY <2>3, <2>7, HeldBitsOf DEF PoolInv
    <3> QED BY <1>2, <3>2, <3>3, <3>4 DEF PoolInv
  <2>9. \A h \in Groups : ~uninit[h] => bitmap[h] = Others(h) \cup HeldBits(h)'
    <3> SUFFICES ASSUME NEW h \in Groups, ~uninit[h]
                 PROVE  bitmap[h] = Others(h) \cup HeldBits(h)'
      OBVIOUS
    <3>1. HeldBits(h) = BitsOf(Taken, h) /\ HeldBits(h)' = BitsOf(Taken', h)
      BY HeldBitsOf
    <3>2. bitmap[h] = Others(h) \cup HeldBits(h) \cup IF h = g THEN {i} ELSE {}
      BY <2>3 DEF Books
    <3>3. CASE h = g
      BY <2>7, <3>1, <3>2, <3>3
    <3>4. CASE h # g
      BY <2>7, <3>1, <3>2, <3>4
    <3> QED BY <3>3, <3>4
  <2>10. \A h \in Groups : gfree[h] = Cardinality(FreeBits(h)')
    <3> SUFFICES ASSUME NEW h \in Groups PROVE gfree[h] = Cardinality(FreeBits(h)')
      OBVIOUS
    <3>1. /\ FreeBits(h) = FreeAtFirst(h) \ BitsOf(Taken, h)
          /\ FreeBits(h)' = FreeAtFirst(h) \ BitsOf(Taken', h)
      BY HeldBitsOf
    <3>2. gfree[h] = Cardinality(FreeBits(h)) + IF h = g THEN -1 ELSE 0
      BY <2>3 DEF Books
    <3>3. Cardinality(FreeBits(h)) \in Nat
      BY FreeCount, AllocConstants
    <3>4. CASE h = g
      <4>1. IsFiniteSet(FreeAtFirst(g) \ BitsOf(Taken', g))
        BY <1>1, FreeBitsInGroup, FS_Subset
      <4>2. Cardinality(FreeAtFirst(g) \ BitsOf(Taken', g)) \in Nat
        BY <4>1, FS_CardinalityType
      <4>3. PICK c \in Nat : c = Cardinality(FreeAtFirst(g) \ BitsOf(Taken', g))
        BY <4>2
      <4>4. gfree[h] = Cardinality(FreeBits(h)) - 1 /\ Cardinality(FreeBits(h)) = c + 1
        BY <2>7, <3>1, <3>2, <3>3, <3>4, <4>3
      <4>5. gfree[h] = c
        BY <4>3, <4>4
      <4> QED BY <3>1, <3>4, <4>3, <4>5
    <3>5. CASE h # g
      <4>1. FreeBits(h)' = FreeBits(h)
        BY <2>7, <3>1, <3>5
      <4> QED BY <3>2, <3>3, <3>5, <4>1
    <3> QED BY <3>4, <3>5
  <2>11. sfree = Cardinality(Data \ Taken')
    <3>1. sfree = Cardinality(Data \ Taken) - 1
      BY <2>3, FreeCount, AllocConstants DEF Books
    <3>2. IsFiniteSet(Data \ Taken')
      BY DataFinite, FS_Subset
    <3>3. Cardinality(Data \ Taken') \in Nat
      BY <3>2, FS_CardinalityType
    <3> QED BY <2>7, <3>1, <3>3
  <2>12. \A e \in Files : iblocks'[e] = Cardinality(held'[e])
    <3> SUFFICES ASSUME NEW e \in Files PROVE iblocks'[e] = Cardinality(held'[e])
      OBVIOUS
    <3>1. IsFiniteSet(held[e])
      BY DataFinite, FS_Subset DEF PoolInv
    <3>2. Cardinality(held[e]) \in Nat
      BY <3>1, FS_CardinalityType
    <3>3. iblocks[e] = Cardinality(held[e])
      BY <2>3, <3>2 DEF Books
    <3>4. CASE e = f
      <4>1. b \notin held[f]
        BY <1>1, <2>4 DEF Taken
      <4>2. Cardinality(held[f] \cup {b}) = Cardinality(held[f]) + 1
        BY <3>1, <3>4, <4>1, FS_AddElement
      <4>3. iblocks'[f] = iblocks[f] - (-1)
        BY <1>1, <1>t, <2>2, <2>3
      <4> QED BY <2>5, <3>2, <3>3, <3>4, <4>2, <4>3
    <3>5. CASE e # f
      BY <1>t, <2>2, <2>5, <3>3, <3>5
    <3> QED BY <3>4, <3>5
  <2>13. Books(0, {}, 0, 0, NoFile, 0)'
    <3>1. \A h \in Groups : Cardinality(FreeBits(h)') \in Int
      BY <1>t, <2>10 DEF TypeInv
    <3>2. \A e \in Files : Cardinality(held'[e]) \in Int
      <4>1. \A e \in Files : held'[e] \subseteq Data
        BY <2>8 DEF PoolInv
      <4> QED BY <4>1, DataFinite, FS_Subset, FS_CardinalityType
    <3>3. sfree \in Int
      BY DEF TypeInv
    <3>4. \A h \in Groups : gfree'[h] = Cardinality(FreeBits(h)') + IF h = 0 THEN 0 ELSE 0
      BY <1>2, <2>10, <3>1
    <3>5. sfree' = Cardinality(Data \ Taken') + 0
      BY <1>2, <2>11, <3>3
    <3>6. \A e \in Files : iblocks'[e] = Cardinality(held'[e]) + IF e = NoFile THEN 0 ELSE 0
      BY <2>12, <3>2
    <3>7. \A h \in Groups : ~uninit'[h] =>
             bitmap'[h] = Others(h) \cup HeldBits(h)' \cup IF h = 0 THEN {} ELSE {}
      BY <1>2, <2>9
    <3> QED BY <3>4, <3>5, <3>6, <3>7 DEF Books
  <2> QED BY <1>2, <2>8, <2>13
<1> QED BY <1>1, <1>3, <1>4, <1>5

\* ext4_new_meta_blocks begins at the group of its goal.
LEMMA StartAllocStep ==
    ASSUME TypeInv, PoolInv, Books(0, {}, 0, 0, NoFile, 0), NEW t \in Threads, StartAlloc(t)
    PROVE  PoolInv' /\ pc'[t] # "idle" /\ CallInv(t)'
<1>t. pc \in [Threads -> Labels] /\ loc \in [Threads -> Calls]
  BY DEF TypeInv
<1>1. PICK f \in Files, b \in Goals, k \in 1 .. MaxWanted :
         loc' = [loc EXCEPT ![t] =
              [NoCall EXCEPT !.op = "alloc", !.file = f, !.wanted = k,
                             !.goal = GoalGroup(b), !.group = GoalGroup(b)]]
  BY DEF StartAlloc
<1>2. PICK g \in Groups : g = GoalGroup(b)
  BY AllocConstants
<1>3. NoCall \in Calls /\ k \in Nat /\ k > 0
  <2>1. NoCall \in Calls
    BY GroupCount DEF NoCall, Calls, Groups
  <2> QED BY <2>1, AllocConstants
<1>4. /\ loc'[t].op = "alloc" /\ loc'[t].file = f /\ loc'[t].wanted = k
      /\ loc'[t].goal = g /\ loc'[t].group = g
  <2>1. PICK r : r = [NoCall EXCEPT !.op = "alloc", !.file = f, !.wanted = k,
                                    !.goal = g, !.group = g]
    OBVIOUS
  <2>2. r.op = "alloc" /\ r.file = f /\ r.wanted = k /\ r.goal = g /\ r.group = g
    BY <1>3, <2>1 DEF Calls
  <2>3. loc' = [loc EXCEPT ![t] = r]
    BY <1>1, <1>2, <2>1
  <2> QED BY <1>t, <2>2, <2>3
<1>5. pc'[t] = "try" /\ UNCHANGED <<bitmap, uninit, gfree, sfree, iblocks, held>>
  BY <1>t DEF StartAlloc, Goto, groupVars
<1>6. Books(g, {}, 0, 0, f, 0)
  BY DEF Books
<1>7. PoolInv' /\ Books(g, {}, 0, 0, f, 0)'
  BY <1>5, <1>6, BooksFrame, PoolFrame
<1>8. AllocBooks(t)'
  BY <1>4, <1>5, <1>7 DEF AllocBooks, AllocEnd, Group
<1>9. Scanned(g, g) = {}
  BY GroupSize DEF Scanned
<1>10. AllocInv(t)'
  BY <1>3, <1>4, <1>5, <1>8, <1>9 DEF AllocInv, AllocLabels, Labels, AllocEnd, Group
<1> QED BY <1>4, <1>5, <1>7, <1>10 DEF CallInv, ReadInv

\* ext4_ext_free_blocks is given blocks of a file, so their group is initialised.
LEMMA StartFreeStep ==
    ASSUME PlainImage, TypeInv, PoolInv, Books(0, {}, 0, 0, NoFile, 0),
           NEW t \in Threads, StartFree(t)
    PROVE  PoolInv' /\ pc'[t] # "idle" /\ CallInv(t)'
<1>t. /\ pc \in [Threads -> Labels] /\ loc \in [Threads -> Calls]
      /\ held \in [Files -> SUBSET Int] /\ uninit \in [Groups -> BOOLEAN]
  BY DEF TypeInv
<1>1. PICK f \in Files : \E b \in held[f] : \E n \in 1 .. Cardinality(held[f]) :
          /\ GroupOf(b) \in Groups
          /\ b .. b + n - 1 \subseteq held[f]
          /\ held' = [held EXCEPT ![f] = @ \ (b .. b + n - 1)]
          /\ loc' = [loc EXCEPT ![t] =
                [NoCall EXCEPT !.op = "free", !.file = f, !.free = n,
                               !.group = GroupOf(b),
                               !.index = b - GroupFirstBlock(GroupOf(b))]]
  BY DEF StartFree
<1>2. PICK b \in held[f] : \E n \in 1 .. Cardinality(held[f]) :
          /\ b .. b + n - 1 \subseteq held[f]
          /\ held' = [held EXCEPT ![f] = @ \ (b .. b + n - 1)]
          /\ loc' = [loc EXCEPT ![t] =
                [NoCall EXCEPT !.op = "free", !.file = f, !.free = n,
                               !.group = GroupOf(b),
                               !.index = b - GroupFirstBlock(GroupOf(b))]]
  BY <1>1
<1>3. PICK n \in 1 .. Cardinality(held[f]) :
          /\ b .. b + n - 1 \subseteq held[f]
          /\ held' = [held EXCEPT ![f] = @ \ (b .. b + n - 1)]
          /\ loc' = [loc EXCEPT ![t] =
                [NoCall EXCEPT !.op = "free", !.file = f, !.free = n,
                               !.group = GroupOf(b),
                               !.index = b - GroupFirstBlock(GroupOf(b))]]
  BY <1>2
<1>4. PICK g, i, S, E : /\ g = GroupOf(b) /\ i = b - GroupFirstBlock(g)
                        /\ S = b .. b + n - 1 /\ E = i .. i + n - 1
  OBVIOUS
<1>5. IsFiniteSet(held[f]) /\ held[f] \subseteq Data
  BY DataFinite, FS_Subset DEF PoolInv
<1>6. n \in Nat \ {0} /\ b \in Int
  BY <1>5, <1>t, FS_CardinalityType
<1>7. g \in Groups /\ i \in Nat /\ E \subseteq FreeAtFirst(g)
  <2>1. b .. b + n - 1 \subseteq Data
    BY <1>3, <1>5
  <2> QED BY <1>4, <1>6, <2>1, OneGroup
<1>8. S = GroupFirstBlock(g) + i .. GroupFirstBlock(g) + i + n - 1
  <2>1. GroupFirstBlock(g) \in Int
    BY <1>7, GroupSize
  <2>2. GroupFirstBlock(g) + i = b
    BY <1>4, <1>6, <2>1
  <2> QED BY <1>4, <2>2
\* The other side of the call: what is held without the extent
<1>9. PICK T, U : T = Taken' /\ U = Taken
  OBVIOUS
<1>10. /\ U = T \cup S /\ T \cap S = {} /\ T \in SUBSET Data
       /\ \A e \in Files : held'[e] = IF e = f THEN held[f] \ S ELSE held[e]
  <2>1. \A e \in Files : held'[e] = IF e = f THEN held[f] \ S ELSE held[e]
    BY <1>3, <1>4, <1>t
  <2>2. U \in SUBSET Data /\ S \subseteq held[f] /\ U = UNION {held[e] : e \in Files}
    BY <1>3, <1>4, <1>9 DEF PoolInv, Taken
  <2>3. T = UNION {held'[e] : e \in Files}
    BY <1>9 DEF Taken
  <2>4. T \subseteq U /\ U \subseteq T \cup S /\ S \subseteq U
    BY <2>1, <2>2, <2>3
  <2>5. \A e \in Files : e # f => held[e] \cap held[f] = {}
    BY DEF PoolInv
  <2>6. \A e \in Files : held'[e] \cap S = {}
    BY <2>1, <2>2, <2>5
  <2>7. T \cap S = {}
    BY <2>3, <2>6
  <2> QED BY <2>1, <2>2, <2>4, <2>7
<1>11. Moved(g, i, n, T, U)
  <2>1. i .. i + n - 1 \subseteq FreeAtFirst(g)
    BY <1>4, <1>7
  <2>2. Moved(g, i, n, T, T \cup S)
    BY <1>6, <1>7, <1>8, <1>10, <2>1, MoveBits
  <2> QED BY <1>10, <2>2
<1>12. /\ BitsOf(U, g) = BitsOf(T, g) \cup E /\ BitsOf(T, g) \cap E = {}
       /\ \A h \in Groups : h # g => BitsOf(U, h) = BitsOf(T, h)
  BY <1>4, <1>11 DEF Moved
<1>13. /\ Cardinality(FreeAtFirst(g) \ BitsOf(T, g)) =
             Cardinality(FreeAtFirst(g) \ BitsOf(U, g)) + n
       /\ Cardinality(Data \ T) = Cardinality(Data \ U) + n
  BY <1>11 DEF Moved
<1>14. \A h \in Groups : /\ HeldBits(h) = BitsOf(U, h) /\ HeldBits(h)' = BitsOf(T, h)
                         /\ FreeBits(h) = FreeAtFirst(h) \ BitsOf(U, h)
                         /\ FreeBits(h)' = FreeAtFirst(h) \ BitsOf(T, h)
  BY <1>9, HeldBitsOf
<1>15. i \in E /\ ~uninit[g]
  <2>1. i \in E
    BY <1>4, <1>6, <1>7
  <2>2. HeldBits(g) # {}
    BY <1>7, <1>12, <1>14, <2>1
  <2> QED BY <1>7, <2>1, <2>2 DEF PoolInv
<1>16. pc'[t] = "inited" /\ UNCHANGED <<bitmap, uninit, gfree, sfree, iblocks>>
  BY <1>t DEF StartFree, Goto, groupVars
<1>17. PoolInv'
  <2>1. \A e, h \in Files : e # h => held'[e] \cap held'[h] = {}
    <3> SUFFICES ASSUME NEW e \in Files, NEW h \in Files, e # h
                 PROVE  held'[e] \cap held'[h] = {}
      OBVIOUS
    <3>1. held[e] \cap held[h] = {}
      BY DEF PoolInv
    <3> QED BY <1>10, <3>1
  <2>2. \A e \in Files : held'[e] \subseteq Data
    BY <1>10 DEF PoolInv
  <2>3. \A h \in Groups : uninit[h] => h \in UninitGroups /\ HeldBits(h)' = {}
    <3> SUFFICES ASSUME NEW h \in Groups, uninit[h]
                 PROVE  h \in UninitGroups /\ HeldBits(h)' = {}
      OBVIOUS
    <3>1. h # g /\ h \in UninitGroups /\ HeldBits(h) = {}
      BY <1>15 DEF PoolInv
    <3> QED BY <1>12, <1>14, <3>1
  <2> QED BY <1>16, <2>1, <2>2, <2>3 DEF PoolInv
<1>18. Books(g, E, -n, -n, f, n)'
  <2>1. \A h \in Groups : ~uninit[h] =>
           bitmap[h] = Others(h) \cup HeldBits(h)' \cup IF h = g THEN E ELSE {}
    <3> SUFFICES ASSUME NEW h \in Groups, ~uninit[h]
                 PROVE  bitmap[h] = Others(h) \cup HeldBits(h)' \cup IF h = g THEN E ELSE {}
      OBVIOUS
    <3>1. bitmap[h] = Others(h) \cup HeldBits(h)
      BY DEF Books
    <3>2. CASE h = g
      BY <1>12, <1>14, <3>1, <3>2
    <3>3. CASE h # g
      BY <1>12, <1>14, <3>1, <3>3
    <3> QED BY <3>2, <3>3
  <2>2. \A h \in Groups :
           gfree[h] = Cardinality(FreeBits(h)') + IF h = g THEN -n ELSE 0
    <3> SUFFICES ASSUME NEW h \in Groups
                 PROVE  gfree[h] = Cardinality(FreeBits(h)') + IF h = g THEN -n ELSE 0
      OBVIOUS
    <3>1. PICK c \in Nat : c = Cardinality(FreeBits(h))
      BY FreeCount, AllocConstants
    <3>2. gfree[h] = c
      BY <3>1 DEF Books
    <3>3. CASE h = g
      <4>1. Cardinality(FreeBits(h)') = c + n
        BY <1>13, <1>14, <3>1, <3>3
      <4> QED BY <1>6, <3>2, <3>3, <4>1
    <3>4. CASE h # g
      <4>1. FreeBits(h)' = FreeBits(h)
        BY <1>12, <1>14, <3>4
      <4> QED BY <3>1, <3>2, <3>4, <4>1
    <3> QED BY <3>3, <3>4
  <2>3. sfree = Cardinality(Data \ Taken') + (-n)
    <3>1. PICK c \in Nat : c = Cardinality(Data \ Taken)
      BY FreeCount, AllocConstants
    <3>2. sfree = c
      BY <3>1 DEF Books
    <3>3. Cardinality(Data \ Taken') = c + n
      BY <1>9, <1>13, <3>1
    <3> QED BY <1>6, <3>2, <3>3
  <2>4. \A e \in Files :
           iblocks[e] = Cardinality(held'[e]) + IF e = f THEN n ELSE 0
    <3> SUFFICES ASSUME NEW e \in Files
                 PROVE  iblocks[e] = Cardinality(held'[e]) + IF e = f THEN n ELSE 0
      OBVIOUS
    <3>0. IsFiniteSet(held[e])
      BY DataFinite, FS_Subset DEF PoolInv
    <3>1. PICK c \in Nat : c = Cardinality(held[e])
      BY <3>0, FS_CardinalityType
    <3>2. iblocks[e] = c
      BY <3>1 DEF Books
    <3>3. CASE e = f
      <4>1. held[f] \cap S = S
        BY <1>3, <1>4
      <4>2. Cardinality(S) = n
        <5>1. b + n - 1 \in Int /\ b + n - 1 >= b
          BY <1>6
        <5>2. Cardinality(b .. b + n - 1) = (b + n - 1) - b + 1
          BY <1>6, <5>1, FS_Interval
        <5> QED BY <1>4, <1>6, <5>2
      <4>3. Cardinality(held[f] \ S) = Cardinality(held[f]) - Cardinality(held[f] \cap S)
        BY <1>5, FS_Difference
      <4>4. Cardinality(held'[e]) = c - n
        BY <1>10, <3>1, <3>3, <4>1, <4>2, <4>3
      <4> QED BY <1>6, <3>2, <3>3, <4>4
    <3>4. CASE e # f
      <4>1. held'[e] = held[e]
        BY <1>10, <3>4
      <4> QED BY <3>1, <3>2, <3>4, <4>1
    <3> QED BY <3>3, <3>4
  <2> QED BY <1>16, <2>1, <2>2, <2>3, <2>4 DEF Books
<1>19. /\ loc'[t].op = "free" /\ loc'[t].file = f /\ loc'[t].free = n
       /\ loc'[t].group = g /\ loc'[t].index = i
  <2>1. NoCall \in Calls
    BY GroupCount DEF NoCall, Calls, Groups
  <2>2. PICK r : r = [NoCall EXCEPT !.op = "free", !.file = f, !.free = n,
                                    !.group = g, !.index = i]
    OBVIOUS
  <2>3. r.op = "free" /\ r.file = f /\ r.free = n /\ r.group = g /\ r.index = i
    BY <2>1, <2>2 DEF Calls
  <2>4. loc' = [loc EXCEPT ![t] = r]
    BY <1>3, <1>4, <2>2
  <2> QED BY <1>t, <2>3, <2>4
<1>20. FreeBooks(t)'
  BY <1>4, <1>16, <1>18, <1>19 DEF FreeBooks, Extent, TotalLeft, GroupLeft, BitsLeft, Group
<1>21. E \subseteq FreeBits(g)'
  BY <1>7, <1>12, <1>14
<1>22. FreeInv(t)'
  BY <1>4, <1>6, <1>15, <1>16, <1>19, <1>20, <1>21
     DEF FreeInv, FreeLabels, TotalLeft, GroupLeft, BitsLeft, Extent, Group
<1> QED BY <1>16, <1>17, <1>19, <1>22 DEF CallInv, ReadInv

\* What a step of a call does to the workers and to what they share.
LEMMA CallFrame ==
    ASSUME TypeInv, NEW t \in Threads, CallStep(t)
    PROVE  /\ pc[t] # "idle" /\ \A u \in Threads : u # t => pc'[u] = pc[u]
           /\ serial' = serial
<1>1. \E l : Goto(t, l)
  BY DEF CallStep, TryToInit, Wipe, MarkBits, ClearUninit, TestFree, Find,
     RunLen, NoneFound, NoSpace, Enospc, TestInited, LoadWord, StoreWord,
     LoadGroupFree, StoreGroupFree, LoadTotalFree, StoreTotalFree, End
<1>2. pc[t] # "idle" /\ serial' = serial
  BY DEF CallStep, TryToInit, Wipe, MarkBits, ClearUninit, TestFree, Find,
     RunLen, NoneFound, Enospc, TestInited, LoadWord, StoreWord,
     LoadGroupFree, StoreGroupFree, LoadTotalFree, StoreTotalFree, End, fileVars
<1>3. pc \in [Threads -> Labels]
  BY DEF TypeInv
<1>4. \A u \in Threads : u # t => pc'[u] = pc[u]
  BY <1>1, <1>3 DEF Goto
<1> QED BY <1>2, <1>4

\* In a fresh image nothing is held, and the books are right.
LEMMA InitSerial == Init => SerialInv
<1> SUFFICES ASSUME Init PROVE SerialInv
  OBVIOUS
<1>1. Taken = {} /\ \A f \in Files : held[f] = {}
  BY DEF Init, Taken
<1>2. \A g \in Groups : HeldBits(g) = {} /\ FreeBits(g) = FreeAtFirst(g)
  <2>1. \A g \in Groups : HeldBits(g) = {b - GroupFirstBlock(g) :
                                           b \in {c \in Taken : GroupOf(c) = g}}
    BY DEF HeldBits, Taken
  <2>2. \A g \in Groups : HeldBits(g) = {}
    BY <1>1, <2>1
  <2> QED BY <2>2 DEF FreeBits
<1>3. Quiet /\ OneCall /\ \A t \in Threads : pc[t] = "idle"
  BY DEF Init, Quiet, OneCall
<1>4. \A g \in Groups : uninit[g] <=> g \in UninitGroups
  BY DEF Init
<1>5. PoolInv
  BY <1>1, <1>2, <1>4 DEF PoolInv
<1>6. \A g \in Groups : ~uninit[g] => bitmap[g] = Others(g)
  BY <1>4 DEF Init, Others
<1>7. \A g \in Groups : gfree[g] = Cardinality(FreeBits(g)) + 0
  <2>1. \A g \in Groups : Cardinality(FreeAtFirst(g)) \in Int
    BY FreeBitsInGroup
  <2> QED BY <1>2, <2>1 DEF Init
<1>8. sfree = Cardinality(Data \ Taken) + 0
  <2>1. Data \ Taken = Data /\ Cardinality(Data) \in Int
    BY <1>1, DataFinite, AllocConstants
  <2>2. sfree = Cardinality(Data)
    BY DEF Init
  <2> QED BY <2>1, <2>2
<1>9. \A f \in Files : iblocks[f] = Cardinality(held[f]) + 0
  <2>1. Cardinality({}) = 0
    BY FS_EmptySet
  <2> QED BY <1>1, <2>1 DEF Init
<1>10. Books(0, {}, 0, 0, NoFile, 0)
  BY <1>2, <1>6, <1>7, <1>8, <1>9 DEF Books
<1> QED BY <1>3, <1>5, <1>10 DEF SerialInv

\* Calls that do not overlap keep the books.
LEMMA SerialStep ==
    ASSUME PlainImage
    PROVE  TypeInv /\ SaveInv /\ SerialInv /\ [Next]_vars => SerialInv'
<1> SUFFICES ASSUME TypeInv, SaveInv, SerialInv, [Next]_vars, serial'
             PROVE  /\ OneCall' /\ PoolInv'
                    /\ Quiet' => Books(0, {}, 0, 0, NoFile, 0)'
                    /\ \A t \in Threads : pc'[t] # "idle" => CallInv(t)'
  BY DEF SerialInv
<1> DEFINE Goal == /\ OneCall' /\ PoolInv'
                   /\ Quiet' => Books(0, {}, 0, 0, NoFile, 0)'
                   /\ \A t \in Threads : pc'[t] # "idle" => CallInv(t)'
<1>p. pc \in [Threads -> Labels]
  BY DEF TypeInv
<1>1. ASSUME NEW t \in Threads, StartAlloc(t) \/ StartFree(t) PROVE Goal
  <2>1. serial /\ Quiet
    BY <1>1 DEF StartAlloc, StartFree
  <2>2. PoolInv /\ Books(0, {}, 0, 0, NoFile, 0)
    BY <2>1 DEF SerialInv
  <2>3. PoolInv' /\ pc'[t] # "idle" /\ CallInv(t)'
    BY <1>1, <2>2, StartAllocStep, StartFreeStep
  <2>4. \A u \in Threads : u # t => pc'[u] = "idle"
    BY <1>1, <1>p, <2>1 DEF StartAlloc, StartFree, Goto, Quiet
  <2>5. OneCall' /\ ~Quiet'
    BY <2>3, <2>4 DEF OneCall, Quiet
  <2> QED BY <2>3, <2>4, <2>5
<1>2. ASSUME NEW t \in Threads, CallStep(t) PROVE Goal
  <2>1. pc[t] # "idle" /\ serial /\ \A u \in Threads : u # t => pc'[u] = pc[u]
    BY <1>2, CallFrame
  <2>2. PoolInv /\ CallInv(t) /\ \A u \in Threads : u # t => pc'[u] = "idle"
    BY <2>1 DEF SerialInv, OneCall
  <2>3. /\ PoolInv'
        /\ \/ pc'[t] # "idle" /\ CallInv(t)'
           \/ pc'[t] = "idle" /\ Books(0, {}, 0, 0, NoFile, 0)'
    <3>1. \/ TryToInit(t) \/ Wipe(t) \/ MarkBits(t) \/ ClearUninit(t)
          \/ TestFree(t) \/ Find(t) \/ RunLen(t) \/ NoneFound(t)
          => PoolInv' /\ pc'[t] # "idle" /\ CallInv(t)'
      BY <2>1, <2>2, SearchStep
    <3>2. \/ TestInited(t) \/ LoadWord(t) \/ StoreWord(t)
          \/ LoadGroupFree(t) \/ StoreGroupFree(t)
          \/ LoadTotalFree(t) \/ StoreTotalFree(t)
          => PoolInv' /\ pc'[t] # "idle" /\ CallInv(t)'
      BY <2>1, <2>2, UpdateStep
    <3>3. Enospc(t) \/ End(t) =>
             PoolInv' /\ pc'[t] = "idle" /\ Books(0, {}, 0, 0, NoFile, 0)'
      BY <2>1, <2>2, ReturnStep
    <3> QED BY <1>2, <3>1, <3>2, <3>3 DEF CallStep
  <2>4. OneCall' /\ (Quiet' => pc'[t] = "idle")
    BY <2>2 DEF OneCall, Quiet
  <2> QED BY <2>2, <2>3, <2>4
\* Steps that leave everything as it is
<1>3. ASSUME UNCHANGED <<bitmap, uninit, gfree, sfree, serial, iblocks, held, pc, loc>>, Quiet
      PROVE  Goal
  <2>1. PoolInv /\ Books(0, {}, 0, 0, NoFile, 0) /\ OneCall
    BY <1>3 DEF SerialInv
  <2>2. PoolInv' /\ Books(0, {}, 0, 0, NoFile, 0)'
    BY <1>3, <2>1, BooksFrame, PoolFrame
  <2>3. OneCall' /\ Quiet'
    BY <1>3, <2>1 DEF OneCall, Quiet
  <2> QED BY <2>2, <2>3 DEF Quiet
<1>4. ASSUME Unmount PROVE Goal
  BY <1>3, <1>4 DEF Unmount, fileVars
<1>5. ASSUME Mount PROVE Goal
  <2>1. Quiet /\ savedUninit = uninit /\ savedFree = gfree /\ savedTotal = sfree
    BY <1>5, SavedWhenDown DEF Mount, SaveInv, SavedAtUnmount
  <2> QED BY <1>3, <1>5, <2>1 DEF Mount, fileVars
<1>6. ASSUME UNCHANGED vars PROVE Goal
  <2>1. /\ UNCHANGED <<bitmap, uninit, gfree, sfree, iblocks, held>>
        /\ pc' = pc /\ loc' = loc /\ serial' = serial
    BY <1>6 DEF vars
  <2>2. PoolInv /\ OneCall /\ (Quiet => Books(0, {}, 0, 0, NoFile, 0))
    BY <2>1 DEF SerialInv
  <2>3. PoolInv' /\ OneCall' /\ (Quiet' => Books(0, {}, 0, 0, NoFile, 0)')
    BY <2>1, <2>2, BooksFrame, PoolFrame DEF OneCall, Quiet
  <2>4. ASSUME NEW t \in Threads, pc'[t] # "idle" PROVE CallInv(t)'
    <3>1. CallInv(t) /\ loc[t] \in Calls
      BY <2>1, <2>4 DEF SerialInv, TypeInv
    <3>2. AllocBooks(t) => AllocBooks(t)'
      BY <2>1, HeldFrame DEF AllocBooks, Books, Group
    <3>3. FreeBooks(t) => FreeBooks(t)'
      BY <2>1, HeldFrame DEF FreeBooks, Books, Group, Extent
    <3>4. \A k \in Groups : FreeBits(k)' = FreeBits(k)
      BY <2>1, HeldFrame
    <3>5. Group(t)' = Group(t) /\ Group(t) \in Groups /\ ReadInv(t)'
      BY <2>1, <3>1, CallType DEF Group, CallInv, ReadInv
    <3>6. Scanned(loc[t].goal, Group(t)) \subseteq Groups
      BY <3>1, <3>5, CallType, ScanIn
    <3>7. AllocInv(t) => AllocInv(t)'
      BY <2>1, <3>2, <3>4, <3>5, <3>6 DEF AllocInv
    <3>8. FreeInv(t) => FreeInv(t)'
      BY <2>1, <3>3, <3>4, <3>5 DEF FreeInv
    <3> QED BY <2>1, <3>1, <3>5, <3>7, <3>8 DEF CallInv
  <2> QED BY <2>3, <2>4
<1>7. \/ \E t \in Threads : StartAlloc(t) \/ StartFree(t) \/ CallStep(t)
      \/ Unmount \/ Mount \/ UNCHANGED vars
  BY DEF Next, Terminated
<1> HIDE DEF Goal
<1>8. Goal
  BY <1>1, <1>2, <1>4, <1>5, <1>6, <1>7
<1> QED BY <1>8 DEF Goal

\* The books are right as long as calls do not overlap.
LEMMA SerialInvariance == ASSUME PlainImage PROVE Spec => []SerialInv
BY InitSerial, SerialStep, TypeInvariance, SaveInvariance, PTL DEF Spec

\* Between calls that do not overlap, the bitmap of a group has the bits of
\* metadata, of files and of what is behind the end of the device, and a block
\* is only one of these, on a plain image of any size.
THEOREM BitmapsRight == ASSUME PlainImage PROVE Spec => []BitsAgree
<1>1. TypeInv /\ SerialInv => BitsAgree
  <2> SUFFICES ASSUME TypeInv, SerialInv, Quiet, serial, NEW g \in Groups, ~uninit[g]
               PROVE  /\ bitmap[g] = Others(g) \cup HeldBits(g)
                      /\ Others(g) \cap HeldBits(g) = {}
    BY DEF BitsAgree, Others
  <2>1. PoolInv /\ Books(0, {}, 0, 0, NoFile, 0)
    BY DEF SerialInv
  <2>2. bitmap[g] = Others(g) \cup HeldBits(g)
    BY <2>1 DEF Books
  <2>3. HeldBits(g) \subseteq FreeAtFirst(g) /\ Others(g) \cap FreeAtFirst(g) = {}
    BY <2>1, HeldWasFree, ClearBits DEF PoolInv, TypeInv
  <2> QED BY <2>2, <2>3
<1> QED BY TypeInvariance, SerialInvariance, <1>1, PTL

\* Between calls that do not overlap, the two counters of free blocks and
\* i_blocks are what one would count, on a plain image of any size.
THEOREM CountersRight == ASSUME PlainImage PROVE Spec => []CountsAgree
<1>1. TypeInv /\ SerialInv => CountsAgree
  <2> SUFFICES ASSUME TypeInv, SerialInv, Quiet, serial
               PROVE  /\ \A g \in Groups : ~uninit[g] =>
                            gfree[g] = Cardinality((0 .. GroupBlocks(g) - 1) \ bitmap[g])
                      /\ sfree = Cardinality(Data \ Taken)
                      /\ \A f \in Files : iblocks[f] = Cardinality(held[f])
    BY DEF CountsAgree, Taken
  <2>1. PoolInv /\ Books(0, {}, 0, 0, NoFile, 0)
    BY DEF SerialInv
  <2>2. ASSUME NEW g \in Groups, ~uninit[g]
        PROVE  gfree[g] = Cardinality((0 .. GroupBlocks(g) - 1) \ bitmap[g])
    <3>1. bitmap[g] = Others(g) \cup HeldBits(g) /\ gfree[g] = Cardinality(FreeBits(g)) + 0
      BY <2>1, <2>2 DEF Books
    <3>2. HeldBits(g) \subseteq FreeAtFirst(g)
      BY <2>1, HeldWasFree DEF PoolInv, TypeInv
    <3>3. (0 .. GroupBlocks(g) - 1) \ bitmap[g] = FreeBits(g)
      BY <3>1, <3>2, ClearBits DEF FreeBits
    <3>4. PICK c \in Int : c = Cardinality(FreeBits(g))
      BY FreeCount
    <3>5. gfree[g] = c
      BY <3>1, <3>4
    <3> QED BY <3>3, <3>4, <3>5
  <2>3. sfree = Cardinality(Data \ Taken)
    BY <2>1, FreeCount, AllocConstants DEF Books
  <2>4. ASSUME NEW f \in Files PROVE iblocks[f] = Cardinality(held[f])
    <3>1. IsFiniteSet(held[f])
      BY <2>1, DataFinite, FS_Subset DEF PoolInv
    <3>2. Cardinality(held[f]) \in Int
      BY <3>1, FS_CardinalityType
    <3> QED BY <2>1, <3>2 DEF Books
  <2> QED BY <2>2, <2>3, <2>4
<1> QED BY TypeInvariance, SerialInvariance, <1>1, PTL

\* Calls that do not overlap implement BlockPool: what ext4_new_meta_blocks
\* returns is a data block that no file has, ENOSPC is its answer only when
\* files have them all, and ext4_ext_free_blocks takes blocks from one file.
THEOREM PoolRefined == ASSUME PlainImage PROVE Spec => Implements
<1>1. Init => BP!Init
  BY DEF Init, BP!Init
<1>2. TypeInv /\ SerialInv /\ [Next]_vars => [BP!Next \/ ~serial']_<<held, refused>>
  <2> SUFFICES ASSUME TypeInv, SerialInv, [Next]_vars, serial'
               PROVE  BP!Next \/ UNCHANGED <<held, refused>>
    OBVIOUS
  <2>1. ASSUME NEW t \in Threads, StartAlloc(t) PROVE UNCHANGED <<held, refused>>
    BY <2>1 DEF StartAlloc
  <2>2. ASSUME NEW t \in Threads, StartFree(t) PROVE BP!Next
    <3>1. \E f \in Files : \E b \in held[f] : \E n \in 1 .. Cardinality(held[f]) :
             /\ b .. b + n - 1 \subseteq held[f]
             /\ held' = [held EXCEPT ![f] = @ \ (b .. b + n - 1)]
      BY <2>2 DEF StartFree
    <3>2. refused' = refused
      BY <2>2 DEF StartFree
    <3>3. \E f \in Files : \E s \in SUBSET held[f] : held' = [held EXCEPT ![f] = @ \ s]
      BY <3>1
    <3> QED BY <3>2, <3>3 DEF BP!Next, BP!GiveBack
  <2>3. ASSUME NEW t \in Threads, CallStep(t)
        PROVE  BP!Next \/ UNCHANGED <<held, refused>>
    <3>1. pc[t] # "idle" /\ serial
      BY <2>3, CallFrame
    <3>2. PoolInv /\ CallInv(t) /\ loc[t].file \in Files /\ loc[t] \in Calls
      BY <3>1 DEF SerialInv, TypeInv
    <3>3. CASE Enospc(t)
      <4>1. pc[t] = "enospc" /\ held' = held
        BY <3>3 DEF Enospc
      <4>2. loc[t].op = "alloc"
        <5>1. loc[t].op \in {"alloc", "free"}
          BY <3>1, <3>2, CallType DEF TypeInv
        <5>2. loc[t].op # "free"
          BY <3>2, <4>1 DEF CallInv, FreeInv, FreeLabels, TotalLeft, GroupLeft, BitsLeft
        <5> QED BY <5>1, <5>2
      <4>3. \A g \in Groups : FreeBits(g) = {}
        BY <3>2, <4>1, <4>2 DEF CallInv, AllocInv
      <4>4. Taken = Data
        BY <3>2, <4>3, NothingLeft DEF PoolInv
      <4>5. BP!Taken = Data
        BY <4>4 DEF BP!Taken, Taken
      <4>6. BP!Refuse(loc[t].file)
        BY <3>3, <4>1, <4>5 DEF Enospc, BP!Refuse
      <4> QED BY <3>2, <4>6 DEF BP!Next
    <3>4. CASE End(t)
      <4>1. CASE loc[t].op = "free"
        BY <3>4, <4>1 DEF End
      <4>2. CASE loc[t].op = "alloc"
        <5>1. pc[t] = "end" /\ Group(t) \in Groups
          BY <3>2, <3>4, CallType DEF End, Group
        <5>2. loc[t].index \in FreeBits(Group(t))
          BY <3>2, <4>2, <5>1 DEF CallInv, AllocInv, AllocEnd
        <5>3. PICK b : b = GroupFirstBlock(Group(t)) + loc[t].index
          OBVIOUS
        <5>4. b \in Data \ Taken
          BY <5>1, <5>2, <5>3, FreeBlock DEF TypeInv
        <5>5. b \in Data \ BP!Taken
          BY <5>4 DEF BP!Taken, Taken
        <5>6. /\ held' = [held EXCEPT ![loc[t].file] = @ \cup {b}]
              /\ refused' = [refused EXCEPT ![loc[t].file] = FALSE]
          BY <3>4, <4>2, <5>3 DEF End
        <5>7. BP!Grant(loc[t].file)
          BY <5>5, <5>6 DEF BP!Grant
        <5> QED BY <3>2, <5>7 DEF BP!Next
      <4> QED BY <3>4, <4>1, <4>2 DEF End
    <3>5. CASE ~Enospc(t) /\ ~End(t)
      BY <2>3, <3>5 DEF CallStep, TryToInit, Wipe, MarkBits, ClearUninit, TestFree, Find,
         RunLen, NoneFound, TestInited, LoadWord, StoreWord, LoadGroupFree,
         StoreGroupFree, LoadTotalFree, StoreTotalFree, fileVars
    <3> QED BY <3>3, <3>4, <3>5
  <2>4. CASE Unmount \/ Mount \/ UNCHANGED vars
    BY <2>4 DEF Unmount, Mount, fileVars, vars
  <2> QED BY <2>1, <2>2, <2>3, <2>4 DEF Next, Terminated
<1> QED BY TypeInvariance, SerialInvariance, <1>1, <1>2, PTL DEF Spec, Implements
=============================================================================
