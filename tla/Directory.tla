----------------------------- MODULE Directory -----------------------------
(***************************************************************************)
(* Reading a directory: op_readdir, the search of inode_get_idx_by_path in *)
(* one directory, inode_dentry_get with the block that it keeps, and the   *)
(* ext2 block map of inode_get_data_pblock, with which the directory's     *)
(* blocks are found.                                                       *)
(*                                                                         *)
(* The program never changes a directory.  A listing is a sequence of      *)
(* calls of op_readdir: the kernel's buffer takes some entries and then no *)
(* more, and the next call starts at the offset that came with the last    *)
(* entry taken.  A search is one scan from the start.  Each call has its   *)
(* own inode_dir_ctx.                                                      *)
(***************************************************************************)
EXTENDS Integers, Sequences

CONSTANTS BS,          \* bytes in a block
          NDir,        \* EXT4_NDIR_BLOCKS
          Addrs,       \* ADDRESSES_IN_IND_BLOCK
          IBlock,      \* i_block: NDir blocks, then one for each indirection
          Index,       \* the addresses in each index block
          Dirs,        \* directories: the entries in each block of data
          Names,
          MaxRoom      \* bound: entries that a buffer of the kernel takes

ASSUME DirConstants ==
    /\ BS \in Nat \ {0} /\ NDir \in Nat /\ Addrs \in Nat \ {0} /\ MaxRoom \in Nat \ {0}
    /\ IBlock \in [0 .. NDir + 2 -> Nat]
    /\ \A b \in DOMAIN Index : Index[b] \in [0 .. Addrs - 1 -> Nat]

VARIABLES
    dir,      \* the directory: its blocks of data, each a function from
              \* offsets in the block to entries
    nblocks,  \* its length in blocks
    pc,
    offset,
    ctx,      \* inode_dir_ctx: the block that is buffered
    room,     \* what the kernel's buffer takes in this call
    taken,    \* what it has taken
    cookie,   \* the offset that came with the last entry taken
    listed,   \* history: names taken, in all calls of this listing
    name, found   \* the search: what for, and the inode found

vars == <<dir, nblocks, pc, offset, ctx, room, taken, cookie, listed, name, found>>

\* An entry: inode 0 if it is not in use, length of the record, name.
Entry(ino, len, nm) == [inode |-> ino, rec_len |-> len, name |-> nm]

-----------------------------------------------------------------------------
(* inode_get_data_pblock of an inode without extents.                        *)

MaxInd  == NDir + Addrs
MaxDind == MaxInd + Addrs * Addrs
MaxTind == MaxDind + Addrs * Addrs * Addrs

\* __inode_get_data_pblock_ind, _dind and _tind
Ind(l, b)  == Index[b][l]

\* Seeded fault: the rest is not taken.
Dind_quotient(l, b) == Ind(l \div Addrs, Index[b][l \div Addrs])

Dind(l, b) == Ind(l % Addrs, Index[b][l \div Addrs])
Tind(l, b) == Dind(l % (Addrs * Addrs), Index[b][l \div (Addrs * Addrs)])

GetDataPblock(l) ==
    IF l < NDir THEN IBlock[l]
    ELSE IF l < MaxInd THEN Ind(l - NDir, IBlock[NDir])
    ELSE IF l < MaxDind THEN Dind(l - MaxInd, IBlock[NDir + 1])
    ELSE Tind(l - MaxDind, IBlock[NDir + 2])

-----------------------------------------------------------------------------
(* What is on the disk.                                                      *)

\* Sequences, one after the other.
Joined(s) ==
    LET upto[k \in 0 .. Len(s)] == IF k = 0 THEN <<>> ELSE upto[k - 1] \o s[k]
    IN  upto[Len(s)]

\* The blocks below index block b with one, two and three levels of indexes, in
\* order, and with them the layout of an ext2 file: without the arithmetic on
\* block numbers.
Leaves1(b) == [k \in 1 .. Addrs |-> Index[b][k - 1]]
Leaves2(b) == Joined([k \in 1 .. Addrs |-> Leaves1(Index[b][k - 1])])
Leaves3(b) == Joined([k \in 1 .. Addrs |-> Leaves2(Index[b][k - 1])])

Leaves == [k \in 1 .. NDir |-> IBlock[k - 1]] \o Leaves1(IBlock[NDir])
              \o Leaves2(IBlock[NDir + 1]) \o Leaves3(IBlock[NDir + 2])

\* The format of a block: from each entry to the next, up to the end of it.
Chained(data) ==
    /\ DOMAIN data \subseteq 0 .. BS - 1 /\ 0 \in DOMAIN data
    /\ \A o \in DOMAIN data : /\ data[o].rec_len \in Nat \ {0}
                              /\ o + data[o].rec_len \in DOMAIN data \cup {BS}

ASSUME DirFormat ==
    \A d \in Dirs :
        /\ d.blocks \in 0 .. Len(Leaves)
        /\ \A k \in 1 .. d.blocks : Leaves[k] \in DOMAIN d.data /\ Chained(d.data[Leaves[k]])

-----------------------------------------------------------------------------
(* inode_dentry_get.                                                         *)

Size == nblocks * BS

\* dir_ctx_update
Buffered(l) == [lblock |-> l, data |-> dir[GetDataPblock(l)]]
NoCtx == [lblock |-> -1, data |-> <<>>]

\* Another block is buffered, and the same offset is tried again.
Refill ==
    /\ pc \in {"readdir", "search"}
    /\ offset # Size /\ offset \div BS # ctx.lblock
    /\ ctx' = Buffered(offset \div BS)
    /\ UNCHANGED <<dir, nblocks, pc, offset, room, taken, cookie, listed, name, found>>

\* The entry at offset is there.
AtEntry == offset # Size /\ offset \div BS = ctx.lblock
Dentry  == ctx.data[offset % BS]

-----------------------------------------------------------------------------
(* op_readdir                                                                *)

\* A call of the kernel, for a listing that begins or goes on; its buffer
\* takes n entries.
Readdir(n) ==
    /\ pc \in {"idle", "listing"}
    /\ pc' = "readdir"
    /\ offset' = cookie
    /\ ctx' = Buffered(0)
    /\ room' = n /\ taken' = 0
    /\ UNCHANGED <<dir, nblocks, cookie, listed, name, found>>

\* Seeded fault: the offset that goes with an entry is its own.
Fill_own ==
    /\ pc = "readdir" /\ AtEntry
    /\ Dentry.inode # 0 /\ taken < room
    /\ offset' = offset + Dentry.rec_len
    /\ taken' = taken + 1
    /\ cookie' = offset /\ listed' = Append(listed, Dentry.name)
    /\ UNCHANGED <<dir, nblocks, pc, ctx, room, name, found>>

\* An entry goes to the buffer of the kernel (one in use has a name).
Fill ==
    /\ pc = "readdir" /\ AtEntry
    /\ Dentry.inode # 0 /\ taken < room
    /\ offset' = offset + Dentry.rec_len
    /\ taken' = taken + 1
    /\ cookie' = offset' /\ listed' = Append(listed, Dentry.name)
    /\ UNCHANGED <<dir, nblocks, pc, ctx, room, name, found>>

\* The buffer does not take it: the call ends.
FillRefused ==
    /\ pc = "readdir" /\ AtEntry
    /\ Dentry.inode # 0 /\ taken = room
    /\ pc' = "listing" /\ offset' = 0 /\ ctx' = NoCtx
    /\ UNCHANGED <<dir, nblocks, room, taken, cookie, listed, name, found>>

\* An entry that is not in use.
SkipDead ==
    /\ pc \in {"readdir", "search"} /\ AtEntry
    /\ Dentry.inode = 0
    /\ offset' = offset + Dentry.rec_len
    /\ UNCHANGED <<dir, nblocks, pc, ctx, room, taken, cookie, listed, name, found>>

\* The end of the directory; a call that has taken nothing ends the listing.
ReaddirEnd ==
    /\ pc = "readdir" /\ offset = Size
    /\ pc' = (IF taken = 0 THEN "listed" ELSE "listing")
    /\ offset' = 0 /\ ctx' = NoCtx
    /\ UNCHANGED <<dir, nblocks, room, taken, cookie, listed, name, found>>

-----------------------------------------------------------------------------
(* The search in inode_get_idx_by_path.                                      *)

Search(nm) ==
    /\ pc = "idle"
    /\ pc' = "search" /\ name' = nm
    /\ offset' = 0 /\ ctx' = Buffered(0)
    /\ UNCHANGED <<dir, nblocks, room, taken, cookie, listed, found>>

SkipOther ==
    /\ pc = "search" /\ AtEntry
    /\ Dentry.inode # 0 /\ Dentry.name # name
    /\ offset' = offset + Dentry.rec_len
    /\ UNCHANGED <<dir, nblocks, pc, ctx, room, taken, cookie, listed, name, found>>

SearchEnd ==
    /\ pc = "search"
    /\ \/ offset = Size /\ found' = 0
       \/ AtEntry /\ Dentry.name = name /\ Dentry.inode # 0 /\ found' = Dentry.inode
    /\ pc' = "found" /\ offset' = 0 /\ ctx' = NoCtx
    /\ UNCHANGED <<dir, nblocks, room, taken, cookie, listed, name>>

-----------------------------------------------------------------------------
Init ==
    /\ \E d \in Dirs : dir = d.data /\ nblocks = d.blocks
    /\ pc = "idle" /\ offset = 0 /\ ctx = NoCtx
    /\ room = 0 /\ taken = 0 /\ cookie = 0 /\ listed = <<>>
    /\ name = 0 /\ found = 0

Step ==
    \/ Refill \/ Fill \/ FillRefused \/ SkipDead \/ ReaddirEnd
    \/ SkipOther \/ SearchEnd

\* The listing or the search is over.
Terminated == pc \in {"listed", "found"} /\ UNCHANGED vars

Next ==
    \/ \E n \in 1 .. MaxRoom : Readdir(n)
    \/ \E nm \in Names : Search(nm)
    \/ Step
    \/ Terminated

\* A call goes on, and a listing that has begun is continued by the kernel.
Spec ==
    /\ Init /\ [][Next]_vars
    /\ WF_vars(Step)
    /\ WF_vars(pc = "listing" /\ \E n \in 1 .. MaxRoom : Readdir(n))

-----------------------------------------------------------------------------
(* Properties.                                                               *)

\* The entries of a block that are in use, from each offset at which one is.
From(data) ==
    LET from[o \in DOMAIN data \cup {BS}] ==
            IF o = BS THEN <<>>
            ELSE (IF data[o].inode = 0 THEN <<>> ELSE <<data[o]>>) \o from[o + data[o].rec_len]
    IN  from

InUse(data) == From(data)[0]

\* Those of the first n blocks, and of the directory.
Before(n) == Joined([k \in 1 .. n |-> InUse(dir[Leaves[k]])])
Entries   == Before(nblocks)

\* A listing has every entry once, in order, however many calls it takes and
\* wherever they end: at a block boundary, before an entry not in use, ...
ListsOnce ==
    /\ \A k \in 1 .. Len(listed) : k <= Len(Entries) /\ listed[k] = Entries[k].name
    /\ pc = "listed" => Len(listed) = Len(Entries)

\* The search finds the entry with the name, in whichever block it is, and an
\* entry that is not in use is not found: DCache takes a directory for a map.
SearchExact ==
    pc = "found" =>
        IF \E k \in 1 .. Len(Entries) : Entries[k].name = name
        THEN \E k \in 1 .. Len(Entries) : Entries[k].name = name /\ Entries[k].inode = found
        ELSE found = 0

\* Every listing and every search ends.
ScanEnds == pc # "idle" ~> pc \in {"listed", "found"}
=============================================================================
