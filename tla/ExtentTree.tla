----------------------------- MODULE ExtentTree -----------------------------
(***************************************************************************)
(* The extent tree of one file: extents.c.  A write of a block that has no *)
(* place yet allocates one and inserts an extent (ext4_ext_get_blocks);    *)
(* truncate removes extents (ext4_ext_remove_space).                       *)
(*                                                                         *)
(* The kernel lets one worker at a time change a file, so operations do    *)
(* not overlap.  A step is one call of a helper of ext4_ext_insert_extent  *)
(* or one round of the loop of ext4_ext_remove_space, because at each the  *)
(* device can be full, and what was done before stays done.                *)
(*                                                                         *)
(* A node is the contents of a block, read and written through the buffer  *)
(* cache.  ext4_new_meta_blocks gives the first free block of the goal's   *)
(* group, one block at a time.  No operation makes unwritten extents.      *)
(***************************************************************************)
EXTENDS Integers, SequencesExt

CONSTANTS LBlocks,     \* logical blocks of the file
          Groups,      \* the block groups, as sets of block numbers
          Held,        \* sets of blocks that other files may hold
          RootMax,     \* entries in the inode, ext4_ext_space_root
          BlockMax,    \* entries in a block, ext4_ext_space_block
          MaxLen,      \* EXT_INIT_MAX_LEN
          MaxBlocks,   \* EXT_MAX_BLOCKS
          MaxOps       \* bound: number of operations

Phys == UNION Groups
Root == 0              \* i_data of the inode

ASSUME ExtentConstants ==
    /\ LBlocks \subseteq Nat /\ Phys \subseteq Nat \ {Root}
    /\ Held \subseteq SUBSET Phys
    /\ MaxBlocks \in Nat /\ \A l \in LBlocks : l < MaxBlocks
    /\ RootMax \in Nat \ {0} /\ BlockMax \in Nat /\ BlockMax > RootMax
    /\ MaxLen \in Nat \ {0} /\ MaxOps \in Nat

VARIABLES
    node,    \* for each block that no other file holds: the header and the
             \* entries in it, if it is a node
    free,    \* blocks that are not allocated
    dirty,   \* nodes that the operation has marked dirty
    pc,
    path,    \* ext4_ext_path: block and position at each level, root first
    i,       \* i of ext4_ext_insert_extent and of ext4_ext_remove_space
    new,     \* newext
    spt,     \* the siblings made by splits that are not yet in an index
    from,    \* first block to be removed
    ops,     \* number of operations so far
    map,     \* history: where callers were told that each block is, or 0
    intact   \* history: none of the damages below has happened

vars == <<node, free, dirty, pc, path, i, new, spt, from, ops, map, intact>>

\* An extent or, with len 0, an index entry.
Entry(key, ptr, len) == [key |-> key, ptr |-> ptr, len |-> len]
NoNode   == [depth |-> 0, max |-> 0, ents |-> <<>>]
NoExtent == Entry(0, 0, 0)

Depth == node[Root].depth
Space == DOMAIN node \ {Root}     \* what other files leave to this one

\* ext4_ext_binsearch and ext4_ext_binsearch_idx; 0 in an empty leaf.
BinSearch(ents, l) ==
    LET n == Len(ents)
        search[lo \in 2 .. n + 1, hi \in 1 .. n] ==
            LET m == lo + (hi - lo) \div 2
            IN  IF lo > hi THEN lo - 1
                ELSE IF l < ents[m].key THEN search[lo, m - 1]
                ELSE search[m + 1, hi]
    IN  IF n = 0 THEN 0 ELSE search[2, n]

\* ext4_find_extent, in the nodes nd.  That ext4_ext_check finds no fault
\* with them is part of TreeShape.
FindExtent(nd, l) ==
    LET p[k \in 0 .. nd[Root].depth] ==
            LET b == IF k = 0 THEN Root
                     ELSE nd[p[k-1].blk].ents[p[k-1].pos].ptr
            IN  [blk |-> b, pos |-> BinSearch(nd[b].ents, l)]
    IN  p

Ents(k)  == node[path[k].blk].ents
Full(k)  == Len(Ents(k)) = node[path[k].blk].max
Ext(p)   == node[p[Depth].blk].ents[p[Depth].pos]
InRange(l, ex) == ex.key <= l /\ l <= ex.key + ex.len - 1
Covered(p, l)  == p[Depth].pos # 0 /\ InRange(l, Ext(p))

\* ext4_ext_get_blocks without create.
Lookup(l) ==
    LET p == FindExtent(node, l)
    IN  IF Covered(p, l) THEN Ext(p).ptr + (l - Ext(p).key) ELSE 0

\* ext4_ext_next_allocated_block
NextAllocated(p) ==
    LET more == {k \in 0 .. Depth : p[k].pos < Len(node[p[k].blk].ents)}
    IN  IF more = {} THEN MaxBlocks
        ELSE node[p[Max(more)].blk].ents[p[Max(more)].pos + 1].key

\* The blocks ext4_new_meta_blocks may give, for one goal or another.
Candidates == {Min(free \cap g) : g \in {h \in Groups : free \cap h # {}}}

-----------------------------------------------------------------------------
(* ext4_ext_get_blocks and ext4_ext_insert_extent. *)

\* A block that has no place is written: a data block is allocated.
StartWrite(l) ==
    /\ pc = "idle" /\ intact /\ ops < MaxOps
    /\ ops' = ops + 1
    /\ LET p == FindExtent(node, l)
       IN  /\ ~Covered(p, l)
           /\ path' = p
           /\ \E b \in Candidates :
                 /\ new' = Entry(l, b, Min({1, NextAllocated(p) - l}))
                 /\ free' = free \ {b}
                 /\ node' = [node EXCEPT ![b] = NoNode]
    /\ i' = 0 /\ spt' = <<>>
    /\ dirty' = {}
    /\ pc' = "leaf"
    /\ UNCHANGED <<from, map, intact>>

\* The device is full, and nothing happens.
RefuseWrite(l) ==
    /\ pc = "idle" /\ intact
    /\ free = {} /\ Lookup(l) = 0
    /\ UNCHANGED vars

CanAppend(ex1, ex2) ==
    /\ ex1.ptr + ex1.len = ex2.ptr
    /\ ex1.len + ex2.len <= MaxLen
    /\ ex1.key + ex1.len = ex2.key

CanPrepend(ex1, ex2) == CanAppend(ex2, ex1)

\* Seeded fault: no index is corrected.
LeftEdge_none(p, d) == {}

\* The levels above the leaf whose key is the first key of the leaf: all the
\* way up as long as the path goes through first entries.
LeftEdge(p, d) == {k \in 0 .. d - 1 : \A j \in k + 1 .. d - 1 : p[j].pos = 1}

\* The nodes nd with key as the key of the path's entries at the levels ks.
WithKeys(nd, ks, key) ==
    [b \in DOMAIN nd |->
        IF \E k \in ks : path[k].blk = b
        THEN [nd[b] EXCEPT !.ents[path[CHOOSE k \in ks : path[k].blk = b].pos].key = key]
        ELSE nd[b]]

\* ext4_ext_correct_indexes, and what it marks dirty.
Corrected == IF path[Depth].pos = 1 THEN LeftEdge(path, Depth) ELSE {}
CorrectIndexes(nd, ks) == WithKeys(nd, ks, nd[path[Depth].blk].ents[1].key)
Marked(ks) == {path[k].blk : k \in ks}

\* An operation returns, and its locals are gone ...
Forget ==
    /\ pc' = "idle" /\ path' = <<>> /\ i' = 0
    /\ new' = NoExtent /\ spt' = <<>> /\ from' = 0

\* ... a write with the place of its block.
Return == Forget /\ map' = [map EXCEPT ![new.key] = new.ptr]

\* The leaf's part of ext4_ext_insert_leaf: the new extent is joined to the
\* one that was found ...
Lengthened(nd) == [nd EXCEPT ![path[Depth].blk].ents[path[Depth].pos].len = @ + new.len]

AppendExtent ==
    /\ pc = "leaf"
    /\ path[Depth].pos # 0 /\ CanAppend(Ext(path), new)
    /\ node' = Lengthened(node)
    /\ dirty' = dirty \cup Marked({Depth})
    /\ Return
    /\ UNCHANGED <<free, ops, intact>>

\* ... or the one that was found to it, but its physical start stays ...
PrependExtent ==
    /\ pc = "leaf"
    /\ path[Depth].pos # 0 /\ ~CanAppend(Ext(path), new) /\ CanPrepend(Ext(path), new)
    /\ node' = [Lengthened(node) EXCEPT ![path[Depth].blk].ents[path[Depth].pos].key = new.key]
    /\ dirty' = dirty \cup Marked({Depth})
    /\ intact' = FALSE
    /\ Return
    /\ UNCHANGED <<free, ops>>

Joins == path[Depth].pos # 0 /\ (CanAppend(Ext(path), new) \/ CanPrepend(Ext(path), new))

\* Where an entry with this key goes, next to the one at level k of the path.
Place(k, key) ==
    IF path[k].pos # 0 /\ key > Ents(k)[path[k].pos].key THEN path[k].pos + 1
    ELSE Max({1, path[k].pos})

\* ... or it gets an entry of its own.
PutExtent ==
    /\ pc = "leaf" /\ ~Joins /\ ~Full(Depth)
    /\ node' = CorrectIndexes([node EXCEPT ![path[Depth].blk].ents =
                                  InsertAt(@, Place(Depth, new.key), new)], Corrected)
    /\ dirty' = dirty \cup Marked(Corrected \cup {Depth})
    /\ Return
    /\ UNCHANGED <<free, ops, intact>>

\* ext4_ext_split_node moves what is behind the path's position to a sibling;
\* ext4_ext_insert_leaf and ext4_ext_insert_index choose where entry e goes.
StaysLeft(k, e) ==
    \/ e.key < Ents(k)[path[k].pos].key
    \/ Len(Ents(k)) - path[k].pos > path[k].pos

Halves(k, e) ==
    LET pos   == path[k].pos
        left  == SubSeq(Ents(k), 1, pos)
        right == SubSeq(Ents(k), pos + 1, Len(Ents(k)))
    IN  IF ~StaysLeft(k, e) THEN <<left, <<e>> \o right>>
        ELSE <<InsertAt(left, IF e.key < left[pos].key THEN pos ELSE pos + 1, e), right>>

\* Seeded fault: the old half is marked only if it got the new entry.
SplitMarked_entry(k, e) == IF StaysLeft(k, e) THEN {k} ELSE {}

\* The old half is marked dirty if it lost or got an entry.
SplitMarked(k, e) == IF StaysLeft(k, e) \/ path[k].pos < Len(Ents(k)) THEN {k} ELSE {}

\* Level k of the path is split: half of it goes to block b, and an entry for
\* b has to go into the index above.
SplitNode(k, e, b) ==
    LET h == Halves(k, e)
    IN  [node EXCEPT ![path[k].blk].ents = h[1],
                     ![b] = [depth |-> Depth - k, max |-> BlockMax, ents |-> h[2]]]

Split(nd, b) ==
    /\ node' = nd
    /\ spt' = Append(spt, [index |-> nd[b].ents[1].key, ptr |-> b])
    /\ free' = free \ {b}
    /\ i' = i + 1
    /\ pc' = "index"

\* A full leaf below an index.
SplitLeaf ==
    /\ pc = "leaf" /\ ~Joins /\ Full(Depth) /\ Depth > 0
    /\ LET ks == IF StaysLeft(Depth, new) THEN Corrected ELSE {}
       IN  \E b \in Candidates :
              /\ Split(CorrectIndexes(SplitNode(Depth, new, b), ks), b)
              /\ dirty' = dirty \cup {b} \cup Marked(ks \cup SplitMarked(Depth, new))
    /\ UNCHANGED <<path, new, from, ops, map, intact>>

\* ext4_ext_insert_index: the entry for the last sibling.
Link == Entry(spt[i].index, spt[i].ptr, 0)

\* Seeded fault: the entry goes in front of the one for the old half.
PutIndex_front ==
    /\ pc = "index" /\ ~Full(Depth - i)
    /\ node' = [node EXCEPT ![path[Depth - i].blk].ents =
                   InsertAt(@, path[Depth - i].pos, Link)]
    /\ dirty' = dirty \cup Marked({Depth - i})
    /\ Return
    /\ UNCHANGED <<free, ops, intact>>

PutIndex ==
    /\ pc = "index" /\ ~Full(Depth - i)
    /\ node' = [node EXCEPT ![path[Depth - i].blk].ents =
                   InsertAt(@, Place(Depth - i, Link.key), Link)]
    /\ dirty' = dirty \cup Marked({Depth - i})
    /\ Return
    /\ UNCHANGED <<free, ops, intact>>

SplitIndex ==
    /\ pc = "index" /\ Full(Depth - i) /\ i < Depth
    /\ \E b \in Candidates :
          /\ Split(SplitNode(Depth - i, Link, b), b)
          /\ dirty' = dirty \cup {b} \cup Marked(SplitMarked(Depth - i, Link))
    /\ UNCHANGED <<path, new, from, ops, map, intact>>

\* EXT_INODE_HDR_NEED_GROW and ext4_ext_grow_indepth: the root moves to a
\* block of its own; then the path is looked up again.
Grow ==
    /\ \/ pc = "leaf" /\ ~Joins /\ Full(Depth)
       \/ pc = "index" /\ Full(Depth - i)
    /\ i = Depth
    /\ \E b \in Candidates :
          /\ node' = [node EXCEPT
                ![b] = [node[Root] EXCEPT !.max = BlockMax],
                ![Root] = [depth |-> Depth + 1, max |-> RootMax,
                           ents |-> <<Entry(node[Root].ents[1].key, b, 0)>>]]
          /\ free' = free \ {b}
          /\ dirty' = dirty \cup {b, Root}
          /\ path' = FindExtent(node', new.key)
    /\ UNCHANGED <<pc, i, new, spt, from, ops, map, intact>>

\* Seeded fault: the data block stays allocated.
NoBlock_leak ==
    /\ \/ pc = "leaf" /\ ~Joins /\ Full(Depth)
       \/ pc = "index" /\ Full(Depth - i)
    /\ free = {}
    /\ free' = {spt[k].ptr : k \in DOMAIN spt}
    /\ intact' = (spt = <<>>)
    /\ Forget
    /\ UNCHANGED <<node, dirty, ops, map>>

\* One of these needs a block and there is none: the clean-up of
\* ext4_ext_insert_extent and of ext4_ext_get_blocks.  The entries that a
\* split has moved to a sibling are lost with it.
NoBlock ==
    /\ \/ pc = "leaf" /\ ~Joins /\ Full(Depth)
       \/ pc = "index" /\ Full(Depth - i)
    /\ free = {}
    /\ free' = {spt[k].ptr : k \in DOMAIN spt} \cup {new.ptr}
    /\ intact' = (spt = <<>>)
    /\ Forget
    /\ UNCHANGED <<node, dirty, ops, map>>

-----------------------------------------------------------------------------
(* ext4_ext_remove_space, called with the largest block number as its end.   *)

Truncated(l) == [b \in LBlocks |-> IF b >= l THEN 0 ELSE map[b]]

\* What the code handles: the removal begins with the first extent below an
\* entry of the root, or with any extent when the inode holds them all.
\* Below that, a node that keeps entries is entered again from its start.
WholeSubtree(p, l) ==
    /\ Covered(p, l) /\ Ext(p).key = l
    /\ \A k \in 1 .. Depth : p[k].pos = 1

StartTruncate(l) ==
    /\ pc = "idle" /\ intact /\ ops < MaxOps
    /\ ops' = ops + 1
    /\ LET p == FindExtent(node, l)
       IN  /\ Covered(p, l)
           /\ path' = p
           /\ intact' = WholeSubtree(p, l)
    /\ i' = Depth /\ from' = l
    /\ dirty' = {}
    /\ pc' = "remove"
    /\ UNCHANGED <<node, free, new, spt, map>>

\* The first block to be removed is in no extent: nothing is removed.
SkipTruncate(l) ==
    /\ pc = "idle" /\ intact /\ ops < MaxOps
    /\ ops' = ops + 1
    /\ ~Covered(FindExtent(node, l), l)
    /\ intact' = \A b \in LBlocks : b >= l => map[b] = 0
    /\ map' = Truncated(l)
    /\ UNCHANGED <<node, free, dirty, pc, path, i, new, spt, from>>

\* ext4_ext_remove_blocks of one extent: len is not reduced by what lies in
\* front of first, only by what then lies behind last.
RemovedBlocks(ex, first, last) ==
    LET start == Max({ex.key, first})
        len   == IF start + ex.len - 1 > last THEN last - start + 1 ELSE ex.len
    IN  ex.ptr + (start - ex.key) .. ex.ptr + (start - ex.key) + len - 1

\* ext4_ext_remove_idx at level k, in the nodes nd: the entry of the path is
\* taken out, and its successor's key goes up along the left edge.
RemoveIdx(nd, k) ==
    LET b   == path[k].blk
        n   == path[k].pos
        e   == RemoveAt(nd[b].ents, n)
        key == IF n <= Len(e) THEN e[n].key ELSE nd[b].ents[n].key
    IN  WithKeys([nd EXCEPT ![b].ents = e],
                 {j \in 0 .. k - 1 : \A m \in j + 1 .. k : path[m].pos = 1}, key)

\* The levels it marks dirty.
IdxMarked(k) == {k} \cup {j \in 0 .. k - 1 : \A m \in j + 1 .. k : path[m].pos = 1}

\* ext4_ext_remove_leaf.  new_len is always 0, so every extent from the
\* path's position on leaves the leaf, whole.
RemoveLeaf ==
    /\ pc = "remove" /\ i = Depth
    /\ LET e     == Ents(Depth)
           n     == path[Depth].pos
           first == Max({e[1].key, from})
           last  == e[Len(e)].key + e[Len(e)].len - 1
           nd    == [node EXCEPT ![path[Depth].blk].ents = SubSeq(e, 1, n - 1)]
           gone  == UNION {RemovedBlocks(e[k], first, last) : k \in n .. Len(e)}
           empty == n = 1 /\ Depth > 0
       IN  /\ node' = IF empty THEN RemoveIdx(nd, Depth - 1) ELSE nd
           /\ free' = free \cup (gone \cap Phys)
                           \cup (IF empty THEN {path[Depth].blk} ELSE {})
           /\ dirty' = dirty \cup Marked({Depth} \cup
                                 (IF empty THEN IdxMarked(Depth - 1) ELSE {}))
    /\ i' = i - 1
    /\ UNCHANGED <<pc, path, new, spt, from, ops, map, intact>>

\* ext4_ext_more_to_rm
MoreToRemove(k) == path[k].pos <= Len(Ents(k))

\* The next child of an index node.
Descend ==
    /\ pc = "remove" /\ 0 <= i /\ i < Depth /\ MoreToRemove(i)
    /\ path' = [path EXCEPT ![i + 1] = [blk |-> Ents(i)[path[i].pos].ptr, pos |-> 1]]
    /\ i' = i + 1
    /\ UNCHANGED <<node, free, dirty, pc, new, spt, from, ops, map, intact>>

\* Seeded fault: the loop stays at the level.
Ascend_stay ==
    /\ pc = "remove" /\ 0 <= i /\ i < Depth /\ ~MoreToRemove(i)
    /\ UNCHANGED vars

\* Nothing left below: a node that has become empty goes, too.
Ascend ==
    /\ pc = "remove" /\ 0 <= i /\ i < Depth /\ ~MoreToRemove(i)
    /\ \/ /\ Ents(i) = <<>> /\ i > 0
          /\ node' = RemoveIdx(node, i - 1)
          /\ free' = free \cup {path[i].blk}
          /\ dirty' = dirty \cup Marked(IdxMarked(i - 1))
       \/ /\ Ents(i) # <<>> \/ i = 0
          /\ UNCHANGED <<node, free, dirty>>
    /\ i' = i - 1
    /\ UNCHANGED <<pc, path, new, spt, from, ops, map, intact>>

\* The end of ext4_ext_remove_space: an empty root becomes a leaf again.
EndTruncate ==
    /\ pc = "remove" /\ i = -1
    /\ \/ /\ node[Root].ents = <<>>
          /\ node' = [node EXCEPT ![Root] = [depth |-> 0, max |-> RootMax, ents |-> <<>>]]
          /\ dirty' = dirty \cup {Root}
       \/ /\ node[Root].ents # <<>>
          /\ UNCHANGED <<node, dirty>>
    /\ map' = Truncated(from)
    /\ Forget
    /\ UNCHANGED <<free, ops, intact>>

-----------------------------------------------------------------------------
\* ext4_ext_tree_init.  Other files may have some of the blocks.
Init ==
    /\ \E h \in Held :
          /\ node = [b \in (Phys \ h) \cup {Root} |->
                       [NoNode EXCEPT !.max = IF b = Root THEN RootMax ELSE 0]]
          /\ free = Phys \ h
    /\ dirty = {}
    /\ pc = "idle" /\ path = <<>> /\ i = 0
    /\ new = NoExtent /\ spt = <<>> /\ from = 0
    /\ ops = 0
    /\ map = [l \in LBlocks |-> 0]
    /\ intact = TRUE

\* What an operation does after its start.
OpStep ==
    \/ AppendExtent \/ PrependExtent \/ PutExtent \/ SplitLeaf
    \/ PutIndex \/ SplitIndex \/ Grow \/ NoBlock
    \/ RemoveLeaf \/ Descend \/ Ascend \/ EndTruncate

\* All operations that the bound allows are over, or the tree is damaged;
\* what happens to a damaged tree later is not followed.
Terminated ==
    /\ pc = "idle" /\ (ops = MaxOps \/ ~intact)
    /\ UNCHANGED vars

Next ==
    \/ \E l \in LBlocks :
          StartWrite(l) \/ RefuseWrite(l) \/ StartTruncate(l) \/ SkipTruncate(l)
    \/ OpStep
    \/ Terminated

Spec == Init /\ [][Next]_vars

\* An operation that has begun goes on.
FairSpec == Spec /\ WF_vars(OpStep)

-----------------------------------------------------------------------------
(* Properties.  intact becomes FALSE when an extent is put in front of       *)
(* another, when space runs out after a split, or when a truncate begins in  *)
(* an extent, in a hole before the last extent, or at an extent that is not  *)
(* the first below an entry of the root.                                     *)

Sound == pc = "idle" /\ intact

\* Types of the tree and of the locals.
TypeOK ==
    /\ \A b \in DOMAIN node : node[b].ents \in Seq([key : Nat, ptr : Phys, len : Nat])
    /\ free \subseteq Phys /\ dirty \subseteq Phys \cup {Root}
    /\ pc \in {"idle", "leaf", "index", "remove"}
    /\ pc \in {"leaf", "index"} => new \in [key : LBlocks, ptr : Phys, len : {1}]
    /\ spt \in Seq([index : LBlocks, ptr : Phys])
    /\ i \in -1 .. Depth + 1 /\ ops \in 0 .. MaxOps
    /\ map \in [LBlocks -> Phys \cup {0}] /\ intact \in BOOLEAN

\* After any sequence of writes, refused writes and truncates, a block is
\* found where its writer was told it is, and no other block is found.  For a
\* block behind the first extent that is not found,
\* ext4_ext_next_allocated_block gives the next one that is ("index entries
\* have to be consistent with leaves"): a new extent does not run into it.
LookupAgrees ==
    Sound => \A l \in LBlocks :
        /\ Lookup(l) = map[l]
        /\ map[l] = 0 /\ (\E b \in LBlocks : b < l /\ map[b] # 0) =>
              NextAllocated(FindExtent(node, l)) =
                  Min({b \in LBlocks : b > l /\ map[b] # 0} \cup {MaxBlocks})

\* The same without the provision that the tree is intact.
LookupExact == pc = "idle" => \A l \in LBlocks : Lookup(l) = map[l]

Nodes ==
    LET below[d \in 0 .. Depth] ==
            IF d = 0 THEN {Root}
            ELSE {node[b].ents[k].ptr :
                    <<b, k>> \in {x \in below[d-1] \X (1 .. BlockMax) :
                                    x[2] <= Len(node[x[1]].ents)}}
    IN  UNION {below[d] : d \in 0 .. Depth}

\* The nodes are those of a balanced search tree: ordered, within capacity,
\* none empty but the root, of the depth ext4_ext_check asks for, and the key
\* of an index entry is the first key below it.
TreeShape ==
    Sound => \A b \in Nodes :
        LET nd == node[b]
        IN  /\ Len(nd.ents) <= nd.max
            /\ nd.ents = <<>> => b = Root /\ nd.depth = 0
            /\ \A k \in 1 .. Len(nd.ents) - 1 :
                  nd.ents[k].key + nd.ents[k].len <= nd.ents[k+1].key
            /\ nd.depth > 0 => \A k \in 1 .. Len(nd.ents) :
                  LET c == node[nd.ents[k].ptr]
                  IN  c.depth = nd.depth - 1 /\ c.ents[1].key = nd.ents[k].key

\* Between two operations a block is free, or a node, or has data of the file,
\* and only one of these.
BlocksAccounted ==
    Sound => LET data == {map[l] : l \in {b \in LBlocks : map[b] # 0}}
             IN  /\ free = Space \ (data \cup Nodes)
                 /\ data \cap Nodes = {}

\* A node in the tree is never changed without being marked dirty: everything
\* the operation has done is written back.
ChangesMarked ==
    [][\A b \in DOMAIN node :
          node'[b] # node[b] /\ node'[b] # NoNode => b \in dirty']_vars

\* Every operation ends.
OpsReturn == pc # "idle" ~> pc = "idle"
=============================================================================
