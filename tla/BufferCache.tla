---------------------------- MODULE BufferCache ----------------------------
(***************************************************************************)
(* The block cache of ext4fuse: buffer.c and bufops.c, as built (buffer.h  *)
(* defines USE_AIO).  Client threads are the FUSE workers, which reach the *)
(* cache through fs_bread, fs_bwrite, fs_mark_buffer_dirty and fs_brelse.  *)
(* WB is buffer_writeback_thread.  Every buffer has one struct aiocb: its  *)
(* transfer and the completion callback that follows it (run by a thread   *)
(* of the C library) are the steps of io[x].  Main is the thread that runs *)
(* bdev_free after fuse_main has returned.                                 *)
(*                                                                         *)
(* A step is one critical section of a mutex, one atomic builtin, or one   *)
(* unprotected access to shared memory.  Buffers are numbered in the order *)
(* in which malloc hands them out and a number is never used again, so a   *)
(* pointer to freed memory stays recognisable (NoUseAfterFree); what a     *)
(* thread does with such a pointer is undefined and is not meant to be     *)
(* meaningful here.                                                        *)
(***************************************************************************)
EXTENDS Integers, Sequences, FiniteSets

CONSTANTS Threads,        \* FUSE worker threads
          WB,             \* buffer_writeback_thread
          Blocks,         \* block numbers of the device
          Ops,            \* what the callers of the cache do, subset of OpKinds
          MaxOps,         \* bound: number of operations started
          FreeThreshold,  \* buffer_free_threshold
          DirtyThreshold, \* buffer_dirty_threshold
          FaultyDevice    \* may a transfer fail?

\* "read": fs_bread, look, fs_brelse.  "update": fs_bread, change the data,
\* fs_mark_buffer_dirty, fs_brelse.  "overwrite": the same after fs_bwrite.
OpKinds == {"read", "update", "overwrite"}

ASSUME CacheConstants ==
    /\ WB \notin Threads
    /\ IsFiniteSet(Threads)
    /\ Blocks \subseteq Nat
    /\ Ops \subseteq OpKinds
    /\ MaxOps \in Nat
    /\ FreeThreshold \in Nat
    /\ DirtyThreshold \in Nat
    /\ FaultyDevice \in BOOLEAN

Bufs    == 1 .. MaxOps      \* an operation allocates at most one buffer
NULL    == 0
Nodes   == Bufs \cup {0}    \* list nodes: the buffers and the list head, 0
Procs   == Threads \cup {WB}
Garbage == -1               \* the contents of b_data after malloc
Content == Nat \cup {Garbage}

VARIABLES
    disk,       \* contents of the device
    latest,     \* history: the contents the callers last gave each block
    tree,       \* bd_bh_root: the buffer linked under each block number
    nalloc,     \* number of buffers allocated so far
    freed,      \* buffers given back with free()
    blk,        \* b_blocknr
    data,       \* b_data
    count,      \* b_count
    uptodate,   \* BH_Uptodate
    dirty,      \* BH_Dirty
    locked,     \* b_lock
    event,      \* b_event, a semaphore
    io,         \* progress of the transfer and of its callback
    fnext,      \* b_freelist.next (bd_bh_free is node 0)
    fprev,      \* b_freelist.prev
    nrFree,     \* bd_nr_free
    dirtyList,  \* bd_bh_dirty
    dirtyCount, \* buffer_dirty_count
    pipe,       \* bd_bh_writeback_wakeup_fd
    command,    \* the byte the writeback thread read last
    pc,         \* where each thread is
    bh,         \* the buffer_head each thread works on
    op,         \* the operation each client runs
    arg,        \* its block number
    victim,     \* the buffer a client is dropping
    ops,        \* number of operations started
    phase       \* bdev_free: up, joining, freeing, done

storeVars == <<disk, latest, data, tree, nalloc, freed, blk>>
bufVars   == <<count, uptodate, dirty>>
syncVars  == <<locked, event, io>>
listVars  == <<fnext, fprev, nrFree, dirtyList, dirtyCount>>
freeVars  == <<fnext, fprev, nrFree>>
dirtyVars == <<dirtyList, dirtyCount>>
otherVars == <<pipe, command, op, arg, victim, ops, phase>>

vars == <<disk, latest, tree, nalloc, freed, blk, data, count, uptodate,
          dirty, locked, event, io, fnext, fprev, nrFree, dirtyList,
          dirtyCount, pipe, command, pc, bh, op, arg, victim, ops, phase>>

Goto(a, l) == pc' = [pc EXCEPT ![a] = l]

-----------------------------------------------------------------------------
(* The lists. *)

\* list_empty: on a member it says that the member is on no list.
ListEmpty(n) == fnext[n] = n

\* Seeded fault: list_del, which leaves the pointers of the entry alone.
ListDelInit_noinit(x) ==
    /\ fnext' = [fnext EXCEPT ![fprev[x]] = fnext[x]]
    /\ fprev' = [fprev EXCEPT ![fnext[x]] = fprev[x]]

ListDelInit(x) ==
    /\ fnext' = [fnext EXCEPT ![fprev[x]] = fnext[x], ![x] = x]
    /\ fprev' = [fprev EXCEPT ![fnext[x]] = fprev[x], ![x] = x]

ListAddTail(x) ==
    /\ fprev' = [fprev EXCEPT ![0] = x, ![x] = fprev[0]]
    /\ fnext' = [fnext EXCEPT ![x] = 0, ![fprev[0]] = x]

\* The locked halves of detach_bh_from_freelist and attach_bh_to_freelist.
FreelistDel(x) == ListDelInit(x) /\ nrFree' = nrFree - 1

FreelistAdd(x) == ListAddTail(x) /\ nrFree' = nrFree + 1

OnDirtyList(x) == \E i \in DOMAIN dirtyList : dirtyList[i] = x

RemoveFromWriteback(x) ==
    IF OnDirtyList(x)
    THEN LET i == CHOOSE j \in DOMAIN dirtyList : dirtyList[j] = x
         IN  /\ dirtyList' = SubSeq(dirtyList, 1, i - 1)
                                \o SubSeq(dirtyList, i + 1, Len(dirtyList))
             /\ dirtyCount' = dirtyCount - 1
    ELSE UNCHANGED dirtyVars

\* Seeded fault: the list_empty test is missing.
MoveToWriteback_again(x) ==
    dirtyList' = Append(dirtyList, x) /\ dirtyCount' = dirtyCount + 1

MoveToWriteback(x) ==
    IF OnDirtyList(x)
    THEN UNCHANGED dirtyVars
    ELSE dirtyList' = Append(dirtyList, x) /\ dirtyCount' = dirtyCount + 1

-----------------------------------------------------------------------------
(* The tree, b_count, b_lock and b_event. *)

\* Seeded fault: the buffer stays in the tree.
RbErase_forgotten(x) == UNCHANGED tree

\* rb_erase of a node that buffer_insert never linked has no parent, so the
\* root itself is overwritten with the node's child, NULL.
RbErase(x) ==
    tree' = IF tree[blk[x]] = x THEN [tree EXCEPT ![blk[x]] = NULL]
                                ELSE [b \in Blocks |-> NULL]

GetBh(x) == count' = [count EXCEPT ![x] = @ + 1]

\* Seeded fault: the reference is not given back.
PutBh_none(x) == UNCHANGED count

PutBh(x) == count' = [count EXCEPT ![x] = @ - 1]

\* Seeded fault: a failed trylock is taken for the lock.
Lock_try(x) == locked' = [locked EXCEPT ![x] = TRUE]

Lock(x) == ~locked[x] /\ locked' = [locked EXCEPT ![x] = TRUE]

\* Seeded fault: unlock_buffer is missing.
Unlock_none(x) == UNCHANGED locked

Unlock(x) == locked' = [locked EXCEPT ![x] = FALSE]

\* Seeded fault: nobody waits for the semaphore.
SemTake_none(x) == UNCHANGED event

\* Seeded fault: the count is taken down without a look at it.
SemTake_blind(x) == event' = [event EXCEPT ![x] = @ - 1]

SemTake(x) == event[x] > 0 /\ event' = [event EXCEPT ![x] = @ - 1]

\* Seeded fault: the token is posted twice.
SemGive_twice(x) == event' = [event EXCEPT ![x] = @ + 2]

SemGive(x) == event' = [event EXCEPT ![x] = @ + 1]

\* Seeded fault: refcount >= 0 instead of refcount >= 1 in brelse.
LastUser_never(x) == count[x] - 1 < 0

\* brelse goes on when put_bh_and_read leaves less than one reference.
LastUser(x) == count[x] - 1 < 1

\* Seeded fault: brelse reclaims without a look at BH_Dirty.
Reclaimable_dirty(x) == TRUE

Reclaimable(x) == ~dirty[x]

\* Seeded fault: the test of BH_Dirty is inverted.
Syncable_inverted(x) == count[x] < 1 /\ ~dirty[x]

\* The test of sync_dirty_buffer.
Syncable(x) == count[x] < 1 /\ dirty[x]

\* Seeded fault: the exit byte is not recognised.
Exiting_never == FALSE

\* bdev_is_notify_exiting.
Exiting == command < 0

-----------------------------------------------------------------------------
(* __getblk, shared by fs_bread and fs_bwrite. *)

Start(t) ==
    /\ pc[t] = "idle" /\ phase = "up" /\ ops < MaxOps
    /\ \E o \in Ops, b \in Blocks :
          /\ op' = [op EXCEPT ![t] = o]
          /\ arg' = [arg EXCEPT ![t] = b]
    /\ ops' = ops + 1
    /\ Goto(t, "search")
    /\ UNCHANGED <<storeVars, bufVars, syncVars, listVars, pipe, command, bh, victim, phase>>

Search(t) ==
    /\ pc[t] = "search"
    /\ bh' = [bh EXCEPT ![t] = tree[arg[t]]]
    /\ Goto(t, IF tree[arg[t]] # NULL THEN "detach" ELSE "alloc")
    /\ UNCHANGED <<storeVars, bufVars, syncVars, listVars, otherVars>>

\* detach_bh_from_freelist looks before it takes bd_bh_free_lock ...
Detach(t) ==
    /\ pc[t] = "detach"
    /\ Goto(t, IF ListEmpty(bh[t]) THEN "unlist" ELSE "detach_locked")
    /\ UNCHANGED <<storeVars, bufVars, syncVars, listVars, otherVars, bh>>

\* ... and does not look again when it has it.
DetachLocked(t) ==
    /\ pc[t] = "detach_locked"
    /\ FreelistDel(bh[t])
    /\ Goto(t, "unlist")
    /\ UNCHANGED <<storeVars, bufVars, syncVars, dirtyVars, otherVars, bh>>

Unlist(t) ==
    /\ pc[t] = "unlist"
    /\ RemoveFromWriteback(bh[t])
    /\ Goto(t, "get")
    /\ UNCHANGED <<storeVars, bufVars, syncVars, freeVars, otherVars, bh>>

\* buffer_alloc; it ends in sync_writeback_buffers.
Alloc(t) ==
    /\ pc[t] = "alloc" /\ nalloc < MaxOps
    /\ nalloc' = nalloc + 1
    /\ bh' = [bh EXCEPT ![t] = nalloc + 1]
    /\ blk' = [blk EXCEPT ![nalloc + 1] = arg[t]]
    /\ pipe' = IF dirtyCount > DirtyThreshold THEN Append(pipe, 1) ELSE pipe
    /\ Goto(t, "insert")
    /\ UNCHANGED <<bufVars, syncVars, listVars, disk, latest, tree, freed, data, command, op, arg, victim, ops, phase>>

\* rb_insert returns without a word when the key is there already.
Insert(t) ==
    /\ pc[t] = "insert"
    /\ tree' = IF tree[arg[t]] = NULL THEN [tree EXCEPT ![arg[t]] = bh[t]]
                                      ELSE tree
    /\ Goto(t, "get")
    /\ UNCHANGED <<bufVars, syncVars, listVars, otherVars, disk, latest, nalloc, freed, blk, data, bh>>

\* get_bh; fs_bwrite is done, fs_bread goes on to bh_submit_read.
Get(t) ==
    /\ pc[t] = "get"
    /\ GetBh(bh[t])
    /\ Goto(t, IF op[t] = "overwrite" THEN "modify" ELSE "lock")
    /\ UNCHANGED <<storeVars, syncVars, listVars, otherVars, uptodate, dirty, bh>>

-----------------------------------------------------------------------------
(* bh_submit_read and wait_on_buffer. *)

LockBuffer(t) ==
    /\ pc[t] = "lock"
    /\ Lock(bh[t])
    /\ Goto(t, "test")
    /\ UNCHANGED <<storeVars, bufVars, listVars, otherVars, event, io, bh>>

TestUptodate(t) ==
    /\ pc[t] = "test"
    /\ \/ /\ uptodate[bh[t]]
          /\ Unlock(bh[t])
          /\ Goto(t, "wait")
          /\ UNCHANGED count
       \/ /\ ~uptodate[bh[t]]
          /\ GetBh(bh[t])
          /\ Goto(t, "clear")
          /\ UNCHANGED locked
    /\ UNCHANGED <<storeVars, listVars, otherVars, uptodate, dirty, event, io, bh>>

ClearDirty(t) ==
    /\ pc[t] = "clear"
    /\ dirty' = [dirty EXCEPT ![bh[t]] = FALSE]
    /\ Goto(t, "unlist_read")
    /\ UNCHANGED <<storeVars, syncVars, listVars, otherVars, count, uptodate, bh>>

UnlistRead(t) ==
    /\ pc[t] = "unlist_read"
    /\ RemoveFromWriteback(bh[t])
    /\ Goto(t, "submit_read")
    /\ UNCHANGED <<storeVars, bufVars, syncVars, freeVars, otherVars, bh>>

\* __submit_bh: take the semaphore, hand the aiocb to the C library.
SubmitRead(t) ==
    /\ pc[t] = "submit_read"
    /\ SemTake(bh[t])
    /\ io' = [io EXCEPT ![bh[t]] = "read"]
    /\ Goto(t, "wait")
    /\ UNCHANGED <<storeVars, bufVars, listVars, otherVars, locked, bh>>

\* wait_on_buffer: sem_wait, then sem_post.  Clients and WB call it.
SemWait(a) ==
    /\ pc[a] = "wait"
    /\ SemTake(bh[a])
    /\ Goto(a, "post")
    /\ UNCHANGED <<storeVars, bufVars, listVars, otherVars, locked, io, bh>>

SemPost(a) ==
    /\ pc[a] = "post"
    /\ SemGive(bh[a])
    /\ Goto(a, CASE a = WB                      -> "first"
                 [] a # WB /\ op[a] = "read"    -> "put"
                 [] OTHER                       -> "modify")
    /\ UNCHANGED <<storeVars, bufVars, listVars, otherVars, locked, io, bh>>

-----------------------------------------------------------------------------
(* What the caller does with the buffer, and fs_mark_buffer_dirty. *)

\* New contents for the block: they are numbered.
Modify(t) ==
    /\ pc[t] = "modify"
    /\ LET v == latest[arg[t]] + 1
       IN  /\ latest' = [latest EXCEPT ![arg[t]] = v]
           /\ data' = [data EXCEPT ![bh[t]] = v]
    /\ Goto(t, "set_uptodate")
    /\ UNCHANGED <<bufVars, syncVars, listVars, otherVars, disk, tree, nalloc, freed, blk, bh>>

SetUptodate(t) ==
    /\ pc[t] = "set_uptodate"
    /\ uptodate' = [uptodate EXCEPT ![bh[t]] = TRUE]
    /\ Goto(t, "set_dirty")
    /\ UNCHANGED <<storeVars, syncVars, listVars, otherVars, count, dirty, bh>>

SetDirty(t) ==
    /\ pc[t] = "set_dirty"
    /\ dirty' = [dirty EXCEPT ![bh[t]] = TRUE]
    /\ Goto(t, "put")
    /\ UNCHANGED <<storeVars, syncVars, listVars, otherVars, count, uptodate, bh>>

-----------------------------------------------------------------------------
(* brelse. *)

\* put_bh_and_read: the last user goes on to put the buffer on a list.
Put(t) ==
    /\ pc[t] = "put"
    /\ PutBh(bh[t])
    /\ Goto(t, IF LastUser(bh[t]) THEN "release" ELSE "idle")
    /\ UNCHANGED <<storeVars, syncVars, listVars, otherVars, uptodate, dirty, bh>>

Release(t) ==
    /\ pc[t] = "release"
    /\ Goto(t, IF Reclaimable(bh[t]) THEN "drop" ELSE "move")
    /\ UNCHANGED <<storeVars, bufVars, syncVars, listVars, otherVars, bh>>

Move(t) ==
    /\ pc[t] = "move"
    /\ MoveToWriteback(bh[t])
    /\ Goto(t, "idle")
    /\ UNCHANGED <<storeVars, bufVars, syncVars, freeVars, otherVars, bh>>

\* reclaim_buffer: try_to_drop_buffers ...
Drop(t) ==
    /\ pc[t] = "drop"
    /\ Goto(t, IF nrFree > FreeThreshold THEN "pop" ELSE "attach")
    /\ UNCHANGED <<storeVars, bufVars, syncVars, listVars, otherVars, bh>>

\* ... remove_first_bh_from_freelist, in three critical sections ...
Pop(t) ==
    /\ pc[t] = "pop"
    /\ \/ /\ ListEmpty(0)
          /\ Goto(t, "drop")
          /\ UNCHANGED <<freeVars, victim>>
       \/ /\ ~ListEmpty(0)
          /\ victim' = [victim EXCEPT ![t] = fnext[0]]
          /\ FreelistDel(fnext[0])
          /\ Goto(t, "erase")
    /\ UNCHANGED <<storeVars, bufVars, syncVars, dirtyVars, pipe, command, bh, op, arg, ops, phase>>

Erase(t) ==
    /\ pc[t] = "erase"
    /\ RbErase(victim[t])
    /\ Goto(t, "free")
    /\ UNCHANGED <<bufVars, syncVars, listVars, otherVars, disk, latest, nalloc, freed, blk, data, bh>>

Free(t) ==
    /\ pc[t] = "free"
    /\ freed' = freed \cup {victim[t]}
    /\ Goto(t, "drop")
    /\ UNCHANGED <<bufVars, syncVars, listVars, otherVars, disk, latest, tree, nalloc, blk, data, bh>>

\* ... and then attach_bh_to_freelist, which looks before it takes the lock.
Attach(t) ==
    /\ pc[t] = "attach"
    /\ Goto(t, IF ListEmpty(bh[t]) THEN "attach_locked" ELSE "idle")
    /\ UNCHANGED <<storeVars, bufVars, syncVars, listVars, otherVars, bh>>

AttachLocked(t) ==
    /\ pc[t] = "attach_locked"
    /\ FreelistAdd(bh[t])
    /\ Goto(t, "idle")
    /\ UNCHANGED <<storeVars, bufVars, syncVars, dirtyVars, otherVars, bh>>

-----------------------------------------------------------------------------
(* buffer_writeback_thread. *)

\* epoll_wait: a byte is there, or the interval has passed without one.
Wake ==
    /\ pc[WB] = "epoll"
    /\ \/ /\ pipe # <<>>
          /\ command' = Head(pipe)
          /\ pipe' = Tail(pipe)
       \/ /\ pipe = <<>>
          /\ command' = 0
          /\ UNCHANGED pipe
    /\ Goto(WB, "first")
    /\ UNCHANGED <<storeVars, bufVars, syncVars, listVars, bh, op, arg, victim, ops, phase>>

\* remove_first_buffer_from_writeback; with nothing left, back to epoll_wait,
\* or out when the byte was the exit request.
First ==
    /\ pc[WB] = "first"
    /\ \/ /\ dirtyList # <<>>
          /\ bh' = [bh EXCEPT ![WB] = Head(dirtyList)]
          /\ dirtyList' = Tail(dirtyList)
          /\ dirtyCount' = dirtyCount - 1
          /\ Goto(WB, "trylock")
       \/ /\ dirtyList = <<>>
          /\ Goto(WB, IF Exiting THEN "exited" ELSE "epoll")
          /\ UNCHANGED <<dirtyVars, bh>>
    /\ UNCHANGED <<storeVars, bufVars, syncVars, freeVars, otherVars>>

\* sync_dirty_buffer: a buffer locked by somebody else is skipped ...
TryLock ==
    /\ pc[WB] = "trylock"
    /\ \/ Lock(bh[WB]) /\ Goto(WB, "check")
       \/ locked[bh[WB]] /\ Goto(WB, "wait") /\ UNCHANGED locked
    /\ UNCHANGED <<storeVars, bufVars, listVars, otherVars, event, io, bh>>

\* ... and so is one that has users or is clean.
Check ==
    /\ pc[WB] = "check"
    /\ \/ /\ Syncable(bh[WB])
          /\ Goto(WB, "get_write")
          /\ UNCHANGED locked
       \/ /\ ~Syncable(bh[WB])
          /\ Unlock(bh[WB])
          /\ Goto(WB, "wait")
    /\ UNCHANGED <<storeVars, bufVars, listVars, otherVars, event, io, bh>>

GetWrite ==
    /\ pc[WB] = "get_write"
    /\ GetBh(bh[WB])
    /\ Goto(WB, "submit_write")
    /\ UNCHANGED <<storeVars, syncVars, listVars, otherVars, uptodate, dirty, bh>>

SubmitWrite ==
    /\ pc[WB] = "submit_write"
    /\ SemTake(bh[WB])
    /\ io' = [io EXCEPT ![bh[WB]] = "write"]
    /\ Goto(WB, "wait")
    /\ UNCHANGED <<storeVars, bufVars, listVars, otherVars, locked, bh>>

-----------------------------------------------------------------------------
(* The transfer, and iocb_dispatch with after_submit_read (r_...) or         *)
(* after_buffer_sync (w_...).                                                *)

IoGoto(x, l) == io' = [io EXCEPT ![x] = l]

\* iocb_dispatch tests aio_error() < 0; a failed transfer makes it return a
\* positive errno, so both end_io functions are called with uptodate = 1.
TransferRead(x) ==
    /\ io[x] = "read"
    /\ \/ data' = [data EXCEPT ![x] = disk[blk[x]]]
       \/ FaultyDevice /\ UNCHANGED data
    /\ IoGoto(x, "r_uptodate")
    /\ UNCHANGED <<bufVars, listVars, otherVars, disk, latest, tree, nalloc, freed, blk, locked, event, pc, bh>>

TransferWrite(x) ==
    /\ io[x] = "write"
    /\ \/ disk' = [disk EXCEPT ![blk[x]] = data[x]]
       \/ FaultyDevice /\ UNCHANGED disk
    /\ IoGoto(x, "w_uptodate")
    /\ UNCHANGED <<bufVars, listVars, otherVars, latest, tree, nalloc, freed, blk, data, locked, event, pc, bh>>

EndUptodate(x) ==
    /\ \/ io[x] = "r_uptodate" /\ IoGoto(x, "r_put")
       \/ io[x] = "w_uptodate" /\ IoGoto(x, "w_put")
    /\ uptodate' = [uptodate EXCEPT ![x] = TRUE]
    /\ UNCHANGED <<storeVars, listVars, otherVars, count, dirty, locked, event, pc, bh>>

EndPut(x) ==
    /\ \/ io[x] = "r_put" /\ IoGoto(x, "unlock")
       \/ io[x] = "w_put" /\ IoGoto(x, "w_unlist")
    /\ PutBh(x)
    /\ UNCHANGED <<storeVars, listVars, otherVars, uptodate, dirty, locked, event, pc, bh>>

EndUnlist(x) ==
    /\ io[x] = "w_unlist"
    /\ RemoveFromWriteback(x)
    /\ IoGoto(x, "w_clear")
    /\ UNCHANGED <<storeVars, bufVars, freeVars, otherVars, locked, event, pc, bh>>

EndClear(x) ==
    /\ io[x] = "w_clear"
    /\ dirty' = [dirty EXCEPT ![x] = FALSE]
    /\ IoGoto(x, "w_attach")
    /\ UNCHANGED <<storeVars, listVars, otherVars, count, uptodate, locked, event, pc, bh>>

EndAttach(x) ==
    /\ io[x] = "w_attach"
    /\ IoGoto(x, IF ListEmpty(x) THEN "w_attach_locked" ELSE "unlock")
    /\ UNCHANGED <<storeVars, bufVars, listVars, otherVars, locked, event, pc, bh>>

EndAttachLocked(x) ==
    /\ io[x] = "w_attach_locked"
    /\ FreelistAdd(x)
    /\ IoGoto(x, "unlock")
    /\ UNCHANGED <<storeVars, bufVars, dirtyVars, otherVars, locked, event, pc, bh>>

EndUnlock(x) ==
    /\ io[x] = "unlock"
    /\ Unlock(x)
    /\ IoGoto(x, "end_post")
    /\ UNCHANGED <<storeVars, bufVars, listVars, otherVars, event, pc, bh>>

EndPost(x) ==
    /\ io[x] = "end_post"
    /\ SemGive(x)
    /\ IoGoto(x, "none")
    /\ UNCHANGED <<storeVars, bufVars, listVars, otherVars, locked, pc, bh>>

-----------------------------------------------------------------------------
(* bdev_free, when fuse_main has returned and no worker is left. *)

NotifyExit ==
    /\ phase = "up" /\ \A t \in Threads : pc[t] = "idle"
    /\ pipe' = Append(pipe, -1)
    /\ phase' = "joining"
    /\ UNCHANGED <<storeVars, bufVars, syncVars, listVars, command, pc, bh, op, arg, victim, ops>>

Join ==
    /\ phase = "joining" /\ pc[WB] = "exited"
    /\ phase' = "freeing"
    /\ UNCHANGED <<storeVars, bufVars, syncVars, listVars, pipe, command, pc, bh, op, arg, victim, ops>>

\* One round of the loop over rb_first, which holds bd_bh_root_lock: wait_on_
\* buffer, detach_bh_from_freelist, __buffer_remove, buffer_free.
FreeFirst ==
    /\ phase = "freeing"
    /\ \E b \in Blocks :
          LET x == tree[b] IN
          /\ x # NULL
          /\ \A c \in Blocks : c < b => tree[c] = NULL
          /\ event[x] > 0
          /\ IF ListEmpty(x) THEN UNCHANGED freeVars ELSE FreelistDel(x)
          /\ RbErase(x)
          /\ freed' = freed \cup {x}
    /\ UNCHANGED <<bufVars, syncVars, dirtyVars, otherVars, disk, latest, nalloc, blk, data, pc, bh>>

FreeDone ==
    /\ phase = "freeing" /\ \A b \in Blocks : tree[b] = NULL
    /\ phase' = "done"
    /\ UNCHANGED <<storeVars, bufVars, syncVars, listVars, pipe, command, pc, bh, op, arg, victim, ops>>

\* The process ends.
Terminated == phase = "done" /\ UNCHANGED vars

-----------------------------------------------------------------------------
Init ==
    /\ disk = [b \in Blocks |-> 0]
    /\ latest = [b \in Blocks |-> 0]
    /\ tree = [b \in Blocks |-> NULL]
    /\ nalloc = 0
    /\ freed = {}
    /\ blk = [x \in Bufs |-> NULL]
    /\ data = [x \in Bufs |-> Garbage]
    /\ count = [x \in Bufs |-> 0]
    /\ uptodate = [x \in Bufs |-> FALSE]
    /\ dirty = [x \in Bufs |-> FALSE]
    /\ locked = [x \in Bufs |-> FALSE]
    /\ event = [x \in Bufs |-> 1]
    /\ io = [x \in Bufs |-> "none"]
    /\ fnext = [n \in Nodes |-> n]
    /\ fprev = [n \in Nodes |-> n]
    /\ nrFree = 0
    /\ dirtyList = <<>>
    /\ dirtyCount = 0
    /\ pipe = <<>>
    /\ command = 0
    /\ pc = [a \in Procs |-> IF a = WB THEN "epoll" ELSE "idle"]
    /\ bh = [a \in Procs |-> NULL]
    /\ op = [t \in Threads |-> "read"]
    /\ arg = [t \in Threads |-> 0]
    /\ victim = [t \in Threads |-> NULL]
    /\ ops = 0
    /\ phase = "up"

\* What a client does between Start and its next "idle".
ClientStep(t) ==
    \/ Search(t) \/ Detach(t) \/ DetachLocked(t) \/ Unlist(t) \/ Alloc(t)
    \/ Insert(t) \/ Get(t)
    \/ LockBuffer(t) \/ TestUptodate(t) \/ ClearDirty(t) \/ UnlistRead(t)
    \/ SubmitRead(t) \/ SemWait(t) \/ SemPost(t)
    \/ Modify(t) \/ SetUptodate(t) \/ SetDirty(t)
    \/ Put(t) \/ Release(t) \/ Move(t) \/ Drop(t) \/ Pop(t) \/ Erase(t)
    \/ Free(t) \/ Attach(t) \/ AttachLocked(t)

WritebackStep ==
    \/ Wake \/ First \/ TryLock \/ Check \/ GetWrite \/ SubmitWrite
    \/ SemWait(WB) \/ SemPost(WB)

IoStep(x) ==
    \/ TransferRead(x) \/ TransferWrite(x) \/ EndUptodate(x) \/ EndPut(x)
    \/ EndUnlist(x) \/ EndClear(x) \/ EndAttach(x) \/ EndAttachLocked(x)
    \/ EndUnlock(x) \/ EndPost(x)

FreeStep == Join \/ FreeFirst \/ FreeDone

Next ==
    \/ \E t \in Threads : Start(t) \/ ClientStep(t)
    \/ WritebackStep
    \/ \E x \in Bufs : IoStep(x)
    \/ NotifyExit
    \/ FreeStep
    \/ Terminated

Spec == Init /\ [][Next]_vars

\* Every thread that can run does run, and the C library completes every
\* transfer.  Nothing forces a caller to start an operation or the file
\* system to be unmounted.
Fairness ==
    /\ \A t \in Threads : WF_vars(ClientStep(t))
    /\ WF_vars(WritebackStep)
    /\ \A x \in Bufs : WF_vars(IoStep(x))
    /\ WF_vars(FreeStep)

FairSpec == Spec /\ Fairness

-----------------------------------------------------------------------------
(* Who holds what. *)

\* Labels at which a client owns a reference to its buffer.
UserLabels == {"lock", "test", "clear", "unlist_read", "submit_read", "wait",
               "post", "modify", "set_uptodate", "set_dirty", "put"}

\* Labels at which a thread owns b_lock.
LockLabels == {"test", "clear", "unlist_read", "submit_read",
               "check", "get_write", "submit_write"}

\* Labels at which a thread has taken a reference for the transfer it is
\* about to submit, and states of the transfer in which it still has it.
PrepareLabels == {"clear", "unlist_read", "submit_read", "submit_write"}
IoRefStates   == {"read", "r_uptodate", "r_put", "write", "w_uptodate", "w_put"}

Users(x)        == {t \in Threads : bh[t] = x /\ pc[t] \in UserLabels}
LockHolders(x)  == {a \in Procs : bh[a] = x /\ pc[a] \in LockLabels}
EventHolders(x) == {a \in Procs : bh[a] = x /\ pc[a] = "post"}
IoRef(x)        == \/ io[x] \in IoRefStates
                   \/ \E a \in Procs : bh[a] = x /\ pc[a] \in PrepareLabels
IoLock(x)       == io[x] \notin {"none", "end_post"}

\* Labels at which a thread is about to dereference its buffer pointer.
PointerLabels == UserLabels \cup LockLabels \cup
    {"detach", "detach_locked", "unlist", "get", "insert", "release", "move",
     "drop", "pop", "erase", "free", "attach", "attach_locked", "trylock"}

OnFreelist == {x \in Bufs : ~ListEmpty(x)}

-----------------------------------------------------------------------------
(* Properties. *)

PcLabels == PointerLabels \cup
    {"idle", "search", "alloc", "epoll", "first", "exited"}
IoStates == IoRefStates \cup
    {"none", "w_unlist", "w_clear", "w_attach", "w_attach_locked", "unlock",
     "end_post"}

StoreType ==
    /\ disk \in [Blocks -> Content] /\ latest \in [Blocks -> Nat]
    /\ data \in [Bufs -> Content]
    /\ tree \in [Blocks -> Nodes] /\ nalloc \in 0 .. MaxOps
    /\ freed \subseteq Nodes /\ blk \in [Bufs -> Blocks \cup {NULL}]

BufType ==
    /\ count \in [Bufs -> Int]
    /\ uptodate \in [Bufs -> BOOLEAN] /\ dirty \in [Bufs -> BOOLEAN]

SyncType ==
    /\ locked \in [Bufs -> BOOLEAN] /\ event \in [Bufs -> Nat]
    /\ io \in [Bufs -> IoStates]

ListType ==
    /\ fnext \in [Nodes -> Nodes] /\ fprev \in [Nodes -> Nodes]
    /\ nrFree \in Int /\ dirtyCount \in Int
    /\ dirtyList \in Seq(Bufs)

ThreadType ==
    /\ pc \in [Procs -> PcLabels] /\ bh \in [Procs -> Nodes]
    /\ op \in [Threads -> OpKinds] /\ arg \in [Threads -> Blocks \cup {0}]
    /\ victim \in [Threads -> Nodes] /\ ops \in 0 .. MaxOps
    /\ pipe \in Seq({1, -1}) /\ command \in {-1, 0, 1}
    /\ phase \in {"up", "joining", "freeing", "done"}

\* Types of the cache's state (struct buffer_head, struct block_device).
TypeOK == StoreType /\ BufType /\ SyncType /\ ListType /\ ThreadType

\* b_lock excludes: one thread, or the transfer it was handed to, holds it, and
\* it is locked exactly then (lock_buffer .. submit_bh .. unlock_buffer).
BufferLock ==
    \A x \in Bufs :
        /\ \A a, b \in LockHolders(x) : a = b
        /\ IoLock(x) => LockHolders(x) = {}
        /\ locked[x] <=> IoLock(x) \/ LockHolders(x) # {}

\* b_event is a binary semaphore: its token is with the transfer, with one
\* caller of wait_on_buffer, or in the semaphore.  submit_bh, which waits for it
\* with b_lock held, always finds it: nobody can be transferring the buffer or
\* waiting for it.
EventToken ==
    /\ \A x \in Bufs :
          /\ \A a, b \in EventHolders(x) : a = b
          /\ io[x] # "none" => EventHolders(x) = {}
          /\ event[x] = IF io[x] # "none" \/ EventHolders(x) # {} THEN 0 ELSE 1
    /\ \A a \in Procs :
          pc[a] \in {"submit_read", "submit_write"} => event[bh[a]] > 0

\* b_count is the number of users and of transfers in hand, so that the
\* assert(refcount == 0) of brelse holds and put_bh never goes below zero.
RefCount ==
    \A x \in Bufs :
        count[x] = Cardinality(Users(x)) + IF IoRef(x) THEN 1 ELSE 0

\* buffer_dirty_count is the length of bd_bh_dirty, and no buffer is on the
\* list twice.
DirtyCounted ==
    /\ dirtyCount = Len(dirtyList)
    /\ \A i, j \in DOMAIN dirtyList : dirtyList[i] = dirtyList[j] => i = j

\* A reader that fs_bread has let through sees what was last written.
ReadsLatest ==
    \A t \in Threads :
        pc[t] = "put" /\ op[t] = "read" => data[bh[t]] = latest[arg[t]]

\* Contents that the device does not have yet are in the buffer that the tree
\* finds, and that buffer is queued for writeback, being written, or in the
\* hands of a thread that will queue or write it.
Unflushed ==
    \A b \in Blocks : disk[b] # latest[b] =>
        LET x == tree[b] IN
        /\ x # NULL /\ data[x] = latest[b]
        /\ \/ OnDirtyList(x)
           \/ io[x] = "write"
           \/ \E a \in Procs : bh[a] = x /\ pc[a] \in PointerLabels

\* A buffer that nobody uses and that is not BH_Dirty holds what the device
\* holds.
CleanMeansFlushed ==
    \A x \in Bufs :
        /\ uptodate[x] /\ ~dirty[x] /\ io[x] = "none"
        /\ \A a \in Procs : ~(bh[a] = x /\ pc[a] \in PointerLabels)
        => data[x] = disk[blk[x]]

\* BH_Uptodate says that the data was read or written, never what malloc left.
UptodateValid == \A x \in Bufs : uptodate[x] => data[x] # Garbage

\* set_bit and clear_bit are not atomic: no two threads are about to change
\* the b_state of one buffer.
FlagUpdatesExclusive ==
    \A x \in Bufs :
        LET threads == {t \in Threads : /\ bh[t] = x
                            /\ pc[t] \in {"clear", "set_uptodate", "set_dirty"}}
            callback == io[x] \in {"r_uptodate", "w_uptodate", "w_clear"}
        IN  /\ \A t, u \in threads : t = u
            /\ callback => threads = {}

\* bdev_free warns when buffers are left on the free list.
NoneLeft == phase = "done" => nrFree = 0

\* The free list is a ring through its head, bd_nr_free is its length, and
\* bdev_free leaves nothing on it.
FreelistSound ==
    /\ NoneLeft
    /\ \A n \in Nodes : fprev[fnext[n]] = n /\ fnext[fprev[n]] = n
    /\ nrFree = Cardinality(OnFreelist)

\* No thread, transfer, dirty list or tree refers to a buffer that buffer_free has
\* given back.
NoUseAfterFree ==
    /\ \A a \in Procs : pc[a] \in PointerLabels => bh[a] \notin freed
    /\ \A t \in Threads : pc[t] \in {"erase", "free"} => victim[t] \notin freed
    /\ \A x \in freed : io[x] = "none" /\ ~OnDirtyList(x)
    /\ \A b \in Blocks : tree[b] \notin freed

\* buffer_free warns when the buffer still has users.
FreedUnused ==
    \A t \in Threads : pc[t] = "free" => count[victim[t]] = 0

\* The cache implements CachedDisk: only the newest contents go to the device,
\* and bdev_free ends only when the device has all of them.
CD == INSTANCE CachedDisk
        WITH cur <- latest, dev <- disk, open <- (phase # "done")
Implements == CD!Spec

\* Every operation on the cache returns: nobody waits for a buffer for ever.
OpsReturn == \A t \in Threads : pc[t] # "idle" ~> pc[t] = "idle"

\* What was written reaches the device, without an unmount.
WritesReachDevice ==
    \A b \in Blocks : disk[b] # latest[b] ~> disk[b] = latest[b]

\* bdev_free terminates: the writeback thread takes the exit byte, flushes
\* and ends, and every buffer of the tree can be waited for.
UnmountEnds == phase = "joining" ~> phase = "done"
=============================================================================
