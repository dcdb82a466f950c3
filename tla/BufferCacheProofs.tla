------------------------- MODULE BufferCacheProofs -------------------------
(***************************************************************************)
(* Proofs about BufferCache for any number of workers, whatever they do,   *)
(* also when transfers fail: its types, b_lock, the dirty list with its    *)
(* counter, and the reference counts.  Each group of variables has a frame *)
(* lemma that names the actions that change it; the invariance proofs then *)
(* have one step for each of those actions.                                *)
(***************************************************************************)
EXTENDS BufferCache, TLAPS, SequenceTheorems, FiniteSetTheorems

\* A pointer that a thread is about to dereference is not NULL: it is a buffer
\* that buffer_alloc returned, and such a buffer has a block of the device.
PointersOK ==
    /\ \A a \in Procs : pc[a] \in PointerLabels => bh[a] \in 1 .. nalloc
    /\ \A b \in Blocks : tree[b] \in 0 .. nalloc
    /\ \A i \in DOMAIN dirtyList : dirtyList[i] \in 1 .. nalloc
    /\ \A x \in Bufs : io[x] # "none" => x \in 1 .. nalloc
    /\ \A x \in 1 .. nalloc : blk[x] \in Blocks
    /\ \A t \in Threads : pc[t] # "idle" => arg[t] \in Blocks

TypeInv == TypeOK /\ PointersOK

-----------------------------------------------------------------------------
(* Sequences: what is left when one element is cut out. *)

\* The expression of RemoveFromWriteback, the list without its i-th element.
LEMMA CutSeq ==
    ASSUME NEW S, NEW s \in Seq(S), NEW i \in 1 .. Len(s)
    PROVE  LET r == SubSeq(s, 1, i - 1) \o SubSeq(s, i + 1, Len(s))
           IN  /\ r \in Seq(S)
               /\ Len(r) = Len(s) - 1
               /\ \A j \in 1 .. Len(r) : r[j] = IF j < i THEN s[j] ELSE s[j + 1]
<1> DEFINE u == SubSeq(s, 1, i - 1)
           v == SubSeq(s, i + 1, Len(s))
<1>1. u \in Seq(S) /\ Len(u) = i - 1 /\ \A j \in 1 .. i - 1 : u[j] = s[j]
  OBVIOUS
<1>2. /\ v \in Seq(S) /\ Len(v) = Len(s) - i
      /\ \A j \in 1 .. Len(s) - i : v[j] = s[i + j]
  OBVIOUS
<1> HIDE DEF u, v
<1>3. /\ u \o v \in Seq(S) /\ Len(u \o v) = Len(u) + Len(v)
      /\ \A j \in 1 .. Len(u) + Len(v) :
            (u \o v)[j] = IF j <= Len(u) THEN u[j] ELSE v[j - Len(u)]
  BY <1>1, <1>2, ConcatProperties
<1>4. Len(u \o v) = Len(s) - 1
  BY <1>1, <1>2, <1>3
<1>5. ASSUME NEW j \in 1 .. Len(u \o v)
      PROVE  (u \o v)[j] = IF j < i THEN s[j] ELSE s[j + 1]
  <2>1. CASE j < i
    BY <2>1, <1>1, <1>2, <1>3
  <2>2. CASE j >= i
    <3>1. /\ j - Len(u) \in 1 .. Len(s) - i
          /\ ~(j <= Len(u))
          /\ j \in 1 .. Len(u) + Len(v)
      BY <2>2, <1>1, <1>2, <1>4
    <3>2. (u \o v)[j] = v[j - Len(u)]
      BY <3>1, <1>3
    <3>3. v[j - Len(u)] = s[i + (j - Len(u))]
      BY <3>1, <1>2
    <3>4. i + (j - Len(u)) = j + 1
      BY <1>1
    <3> QED BY <3>2, <3>3, <3>4, <2>2
  <2> QED BY <2>1, <2>2
<1> QED BY <1>3, <1>4, <1>5 DEF u, v

\* remove_buffer_from_writeback keeps a list a list of the same elements, the
\* counter its length and the elements distinct.
LEMMA Unlisted ==
    ASSUME NEW S, dirtyList \in Seq(S), dirtyCount \in Int, NEW x,
           RemoveFromWriteback(x)
    PROVE  /\ dirtyList' \in Seq(S) /\ dirtyCount' \in Int
           /\ DirtyCounted => DirtyCounted'
<1>1. CASE ~OnDirtyList(x)
  BY <1>1 DEF RemoveFromWriteback, dirtyVars, DirtyCounted
<1>2. CASE OnDirtyList(x)
  <2> DEFINE k == CHOOSE j \in DOMAIN dirtyList : dirtyList[j] = x
             r == SubSeq(dirtyList, 1, k - 1)
                    \o SubSeq(dirtyList, k + 1, Len(dirtyList))
             f(j) == IF j < k THEN j ELSE j + 1
  <2>1. k \in 1 .. Len(dirtyList)
    BY <1>2 DEF OnDirtyList
  <2>2. dirtyList' = r /\ dirtyCount' = dirtyCount - 1
    BY <1>2 DEF RemoveFromWriteback
  <2> HIDE DEF k
  <2>3. /\ r \in Seq(S) /\ Len(r) = Len(dirtyList) - 1
        /\ \A j \in 1 .. Len(r) :
              r[j] = IF j < k THEN dirtyList[j] ELSE dirtyList[j + 1]
    BY <2>1, CutSeq, Zenon
  <2> HIDE DEF r
  <2>4. ASSUME NEW i \in 1 .. Len(r)
        PROVE  r[i] = dirtyList[f(i)] /\ f(i) \in 1 .. Len(dirtyList)
    BY <2>1, <2>3
  <2>5. ASSUME NEW i \in 1 .. Len(r), NEW j \in 1 .. Len(r), f(i) = f(j)
        PROVE  i = j
    BY <2>1, <2>3, <2>5
  <2> HIDE DEF f
  <2> QED BY <2>2, <2>3, <2>4, <2>5 DEF DirtyCounted
<1> QED BY <1>1, <1>2

-----------------------------------------------------------------------------
(* Frames: which actions change which variables. *)

\* The contents, the tree and the memory change only here.
LEMMA StoreFrame ==
    [Next]_vars =>
        \/ UNCHANGED storeVars
        \/ \E t \in Threads : \/ Alloc(t) \/ Insert(t) \/ Modify(t)
                              \/ Erase(t) \/ Free(t)
        \/ \E x \in Bufs : \/ TransferRead(x) \/ TransferWrite(x)
        \/ FreeFirst
BY DEF Next, ClientStep, WritebackStep, IoStep, FreeStep, Terminated, vars,
       storeVars, Start, Search, Detach, DetachLocked, Unlist, Get,
       LockBuffer, TestUptodate, ClearDirty, UnlistRead, SubmitRead,
       SemWait, SemPost, SetUptodate, SetDirty, Put, Release, Move, Drop,
       Pop, Attach, AttachLocked, Wake, First, TryLock, Check, GetWrite,
       SubmitWrite, EndUptodate, EndPut, EndUnlist, EndClear, EndAttach,
       EndAttachLocked, EndUnlock, EndPost, NotifyExit, Join, FreeDone

\* Reference counts and flags change only here.
LEMMA BufFrame ==
    [Next]_vars =>
        \/ UNCHANGED bufVars
        \/ \E t \in Threads : \/ Get(t) \/ TestUptodate(t) \/ ClearDirty(t)
                              \/ SetUptodate(t) \/ SetDirty(t) \/ Put(t)
        \/ \E x \in Bufs : \/ EndUptodate(x) \/ EndPut(x) \/ EndClear(x)
        \/ GetWrite
BY DEF Next, ClientStep, WritebackStep, IoStep, FreeStep, Terminated, vars,
       bufVars, Start, Search, Detach, DetachLocked, Unlist, Alloc, Insert,
       LockBuffer, UnlistRead, SubmitRead, SemWait, SemPost, Modify,
       Release, Move, Drop, Pop, Erase, Free, Attach, AttachLocked, Wake,
       First, TryLock, Check, SubmitWrite, TransferRead, TransferWrite,
       EndUnlist, EndAttach, EndAttachLocked, EndUnlock, EndPost,
       NotifyExit, Join, FreeFirst, FreeDone

\* Locks, semaphores and transfers change only here.
LEMMA SyncFrame ==
    [Next]_vars =>
        \/ UNCHANGED syncVars
        \/ \E t \in Threads : \/ LockBuffer(t) \/ TestUptodate(t)
                              \/ SubmitRead(t)
        \/ \E a \in Procs : \/ SemWait(a) \/ SemPost(a)
        \/ \E x \in Bufs : \/ TransferRead(x) \/ TransferWrite(x)
                           \/ EndUptodate(x) \/ EndPut(x) \/ EndUnlist(x)
                           \/ EndClear(x) \/ EndAttach(x)
                           \/ EndAttachLocked(x) \/ EndUnlock(x)
                           \/ EndPost(x)
        \/ TryLock
        \/ Check
        \/ SubmitWrite
BY DEF Next, ClientStep, WritebackStep, IoStep, FreeStep, Terminated, vars,
       syncVars, Procs, Start, Search, Detach, DetachLocked, Unlist, Alloc,
       Insert, Get, ClearDirty, UnlistRead, Modify, SetUptodate, SetDirty,
       Put, Release, Move, Drop, Pop, Erase, Free, Attach, AttachLocked,
       Wake, First, GetWrite, NotifyExit, Join, FreeFirst, FreeDone

\* The lists change only here.
LEMMA ListFrame ==
    [Next]_vars =>
        \/ UNCHANGED listVars
        \/ \E t \in Threads : \/ DetachLocked(t) \/ Unlist(t)
                              \/ UnlistRead(t) \/ Move(t) \/ Pop(t)
                              \/ AttachLocked(t)
        \/ \E x \in Bufs : \/ EndUnlist(x) \/ EndAttachLocked(x)
        \/ First
        \/ FreeFirst
BY DEF Next, ClientStep, WritebackStep, IoStep, FreeStep, Terminated, vars,
       listVars, Start, Search, Detach, Alloc, Insert, Get, LockBuffer,
       TestUptodate, ClearDirty, SubmitRead, SemWait, SemPost, Modify,
       SetUptodate, SetDirty, Put, Release, Drop, Erase, Free, Attach, Wake,
       TryLock, Check, GetWrite, SubmitWrite, TransferRead, TransferWrite,
       EndUptodate, EndPut, EndClear, EndAttach, EndUnlock, EndPost,
       NotifyExit, Join, FreeDone


\* The operations, the pipe and the phase change only here.
LEMMA OtherFrame ==
    [Next]_vars =>
        \/ UNCHANGED otherVars
        \/ \E t \in Threads : \/ Start(t) \/ Alloc(t) \/ Pop(t)
        \/ Wake
        \/ NotifyExit
        \/ Join
        \/ FreeDone
BY DEF Next, ClientStep, WritebackStep, IoStep, FreeStep, Terminated, vars,
       otherVars, Search, Detach, DetachLocked, Unlist, Insert, Get,
       LockBuffer, TestUptodate, ClearDirty, UnlistRead, SubmitRead,
       SemWait, SemPost, Modify, SetUptodate, SetDirty, Put, Release, Move,
       Drop, Erase, Free, Attach, AttachLocked, First, TryLock, Check,
       GetWrite, SubmitWrite, TransferRead, TransferWrite, EndUptodate,
       EndPut, EndUnlist, EndClear, EndAttach, EndAttachLocked, EndUnlock,
       EndPost, FreeFirst

\* The local pointer bh changes only here.
LEMMA BhFrame ==
    [Next]_vars =>
        \/ bh' = bh
        \/ \E t \in Threads : Search(t) \/ Alloc(t)
        \/ First
BY DEF Next, ClientStep, WritebackStep, IoStep, FreeStep, Terminated, vars,
       Start, Detach, DetachLocked, Unlist, Insert, Get, LockBuffer,
       TestUptodate, ClearDirty, UnlistRead, SubmitRead, SemWait, SemPost,
       Modify, SetUptodate, SetDirty, Put, Release, Move, Drop, Pop, Erase,
       Free, Attach, AttachLocked, Wake, TryLock, Check, GetWrite,
       SubmitWrite, TransferRead, TransferWrite, EndUptodate, EndPut,
       EndUnlist, EndClear, EndAttach, EndAttachLocked, EndUnlock, EndPost,
       NotifyExit, Join, FreeFirst, FreeDone

\* A step moves one thread to one label, or none.
LEMMA PcFrame ==
    [Next]_vars => \/ pc' = pc
                   \/ \E a \in Procs, l \in PcLabels : Goto(a, l)
BY DEF Next, ClientStep, WritebackStep, IoStep, FreeStep, Terminated, vars,
       Procs, PcLabels, PointerLabels, UserLabels, LockLabels, Start,
       Search, Detach, DetachLocked, Unlist, Alloc, Insert, Get, LockBuffer,
       TestUptodate, ClearDirty, UnlistRead, SubmitRead, SemWait, SemPost,
       Modify, SetUptodate, SetDirty, Put, Release, Move, Drop, Pop, Erase,
       Free, Attach, AttachLocked, Wake, First, TryLock, Check, GetWrite,
       SubmitWrite, TransferRead, TransferWrite, EndUptodate, EndPut,
       EndUnlist, EndClear, EndAttach, EndAttachLocked, EndUnlock, EndPost,
       NotifyExit, Join, FreeFirst, FreeDone

-----------------------------------------------------------------------------
(* Type correctness. *)

LEMMA InitType == Init => TypeInv
BY CacheConstants
   DEF Init, TypeInv, TypeOK, StoreType, BufType, SyncType, ListType,
       ThreadType, PointersOK, PcLabels, PointerLabels, UserLabels,
       LockLabels, IoStates, IoRefStates, Bufs, Nodes, NULL, Procs, Content,
       Garbage, OpKinds

\* A thread at one of the PointerLabels has a buffer.
LEMMA Deref ==
    ASSUME TypeInv, NEW a \in Procs, pc[a] \in PointerLabels
    PROVE  bh[a] \in Bufs
BY CacheConstants DEF TypeInv, TypeOK, StoreType, PointersOK, Bufs

LEMMA StoreTypeStep == TypeInv /\ [Next]_vars => StoreType'
<1> SUFFICES ASSUME TypeInv, [Next]_vars PROVE StoreType'
  OBVIOUS
<1> USE CacheConstants DEF StoreType, TypeInv, TypeOK, Nodes, NULL
<1>1. CASE UNCHANGED storeVars
  BY <1>1 DEF storeVars
<1>2. ASSUME NEW t \in Threads, Alloc(t) PROVE StoreType'
  <2>1. nalloc + 1 \in Bufs /\ arg[t] \in Blocks
    BY <1>2 DEF Alloc, PointersOK, Bufs
  <2> QED BY <1>2, <2>1 DEF Alloc, Bufs
<1>3. ASSUME NEW t \in Threads, Insert(t) PROVE StoreType'
  BY <1>3 DEF Insert, ThreadType, Procs
<1>4. ASSUME NEW t \in Threads, Modify(t) PROVE StoreType'
  <2>1. arg[t] \in Blocks /\ bh[t] \in Bufs
    BY <1>4, Deref DEF Modify, PointersOK, Procs, PointerLabels, UserLabels
  <2>2. latest[arg[t]] \in Nat
    BY <2>1
  <2>3. latest[arg[t]] + 1 \in Nat
    BY <2>2
  <2> QED BY <1>4, <2>1, <2>3 DEF Modify, Content
<1>5. ASSUME NEW t \in Threads, Erase(t) PROVE StoreType'
  BY <1>5 DEF Erase, RbErase
<1>6. ASSUME NEW t \in Threads, Free(t) PROVE StoreType'
  BY <1>6 DEF Free, ThreadType
<1>7. ASSUME NEW x \in Bufs, TransferRead(x) PROVE StoreType'
  <2>1. blk[x] \in Blocks
    BY <1>7 DEF TransferRead, PointersOK
  <2> QED BY <1>7, <2>1 DEF TransferRead
<1>8. ASSUME NEW x \in Bufs, TransferWrite(x) PROVE StoreType'
  BY <1>8 DEF TransferWrite
<1>9. CASE FreeFirst
  BY <1>9 DEF FreeFirst, RbErase
<1> QED BY StoreFrame, <1>1, <1>2, <1>3, <1>4, <1>5, <1>6, <1>7, <1>8, <1>9

LEMMA BufTypeStep == TypeInv /\ [Next]_vars => BufType'
<1> SUFFICES ASSUME TypeInv, [Next]_vars PROVE BufType'
  OBVIOUS
<1> USE DEF BufType, TypeInv, TypeOK, GetBh, PutBh
<1>1. CASE UNCHANGED bufVars
  BY <1>1 DEF bufVars
<1>2. ASSUME NEW t \in Threads,
             \/ Get(t) \/ TestUptodate(t) \/ ClearDirty(t)
             \/ SetUptodate(t) \/ SetDirty(t) \/ Put(t)
      PROVE  BufType'
  <2>1. bh[t] \in Bufs
    BY <1>2, Deref DEF Get, TestUptodate, ClearDirty, SetUptodate, SetDirty,
                       Put, Procs, PointerLabels, UserLabels
  <2>2. CASE Get(t) \/ Put(t)
    BY <2>1, <2>2 DEF Get, Put
  <2>3. CASE TestUptodate(t)
    BY <2>1, <2>3 DEF TestUptodate
  <2>4. CASE ClearDirty(t) \/ SetUptodate(t) \/ SetDirty(t)
    BY <2>4 DEF ClearDirty, SetUptodate, SetDirty
  <2> QED BY <1>2, <2>2, <2>3, <2>4
<1>3. ASSUME NEW x \in Bufs, EndUptodate(x) \/ EndPut(x) \/ EndClear(x)
      PROVE  BufType'
  <2>1. CASE EndPut(x)
    BY <2>1 DEF EndPut
  <2>2. CASE EndUptodate(x) \/ EndClear(x)
    BY <2>2 DEF EndUptodate, EndClear
  <2> QED BY <1>3, <2>1, <2>2
<1>4. CASE GetWrite
  <2>1. bh[WB] \in Bufs
    BY <1>4, Deref DEF GetWrite, Procs, PointerLabels, LockLabels
  <2> QED BY <1>4, <2>1 DEF GetWrite
<1> QED BY BufFrame, <1>1, <1>2, <1>3, <1>4

LEMMA SyncTypeStep == TypeInv /\ [Next]_vars => SyncType'
<1> SUFFICES ASSUME TypeInv, [Next]_vars PROVE SyncType'
  OBVIOUS
<1> USE DEF SyncType, TypeInv, TypeOK, Lock, Unlock, SemTake, SemGive, IoGoto
<1>1. CASE UNCHANGED syncVars
  BY <1>1 DEF syncVars
<1>2. ASSUME NEW t \in Threads, LockBuffer(t) \/ TestUptodate(t) PROVE SyncType'
  BY <1>2 DEF LockBuffer, TestUptodate, syncVars
<1>3. ASSUME NEW t \in Threads, SubmitRead(t) PROVE SyncType'
  <2>1. bh[t] \in Bufs
    BY <1>3, Deref DEF SubmitRead, Procs, PointerLabels, UserLabels
  <2> QED BY <1>3, <2>1 DEF SubmitRead, IoStates, IoRefStates
<1>4. ASSUME NEW a \in Procs, SemWait(a) \/ SemPost(a) PROVE SyncType'
  <2>1. bh[a] \in Bufs
    BY <1>4, Deref DEF SemWait, SemPost, PointerLabels, UserLabels
  <2> QED BY <1>4, <2>1 DEF SemWait, SemPost
<1>5. ASSUME NEW x \in Bufs,
             \/ TransferRead(x) \/ TransferWrite(x) \/ EndUptodate(x)
             \/ EndPut(x) \/ EndUnlist(x) \/ EndClear(x) \/ EndAttach(x)
             \/ EndAttachLocked(x) \/ EndUnlock(x)
      PROVE  SyncType'
  BY <1>5 DEF TransferRead, TransferWrite, EndUptodate, EndPut, EndUnlist,
              EndClear, EndAttach, EndAttachLocked, EndUnlock, IoStates,
              IoRefStates
<1>6. ASSUME NEW x \in Bufs, EndPost(x) PROVE SyncType'
  BY <1>6 DEF EndPost, IoStates
<1>7. CASE TryLock \/ Check
  BY <1>7 DEF TryLock, Check
<1>8. CASE SubmitWrite
  <2>1. bh[WB] \in Bufs
    BY <1>8, Deref DEF SubmitWrite, Procs, PointerLabels, LockLabels
  <2> QED BY <1>8, <2>1 DEF SubmitWrite, IoStates, IoRefStates
<1> QED BY SyncFrame, <1>1, <1>2, <1>3, <1>4, <1>5, <1>6, <1>7, <1>8

\* The free list's pointers stay pointers.
LEMMA FreelistType ==
    ASSUME fnext \in [Nodes -> Nodes], fprev \in [Nodes -> Nodes],
           nrFree \in Int, NEW x \in Nodes, FreelistDel(x) \/ FreelistAdd(x)
    PROVE  /\ fnext' \in [Nodes -> Nodes] /\ fprev' \in [Nodes -> Nodes]
           /\ nrFree' \in Int
BY DEF FreelistDel, FreelistAdd, ListDelInit, ListAddTail, Nodes

LEMMA ListTypeStep == TypeInv /\ [Next]_vars => ListType'
<1> SUFFICES ASSUME TypeInv, [Next]_vars PROVE ListType'
  OBVIOUS
<1> USE DEF ListType, TypeInv, TypeOK
<1>1. CASE UNCHANGED listVars
  BY <1>1 DEF listVars
<1>2. ASSUME NEW x \in Nodes, FreelistDel(x) \/ FreelistAdd(x),
             UNCHANGED dirtyVars
      PROVE  ListType'
  BY <1>2, FreelistType DEF dirtyVars
<1>3. ASSUME NEW x, RemoveFromWriteback(x), UNCHANGED freeVars
      PROVE  ListType'
  BY <1>3, Unlisted DEF freeVars
<1>4. ASSUME NEW t \in Threads, DetachLocked(t) \/ AttachLocked(t)
      PROVE  ListType'
  BY <1>2, <1>4 DEF DetachLocked, AttachLocked, ThreadType, Procs
<1>5. ASSUME NEW t \in Threads, Pop(t) PROVE ListType'
  BY <1>1, <1>2, <1>5 DEF Pop, listVars, freeVars, dirtyVars, Nodes
<1>6. ASSUME NEW t \in Threads, Unlist(t) \/ UnlistRead(t) PROVE ListType'
  BY <1>3, <1>6 DEF Unlist, UnlistRead
<1>7. ASSUME NEW t \in Threads, Move(t) PROVE ListType'
  <2>1. bh[t] \in Bufs
    BY <1>7, Deref DEF Move, Procs, PointerLabels
  <2>2. Append(dirtyList, bh[t]) \in Seq(Bufs)
    BY <2>1
  <2>3. dirtyCount + 1 \in Int
    OBVIOUS
  <2> QED BY <1>7, <2>2, <2>3 DEF Move, MoveToWriteback, dirtyVars, freeVars
<1>8. CASE First
  BY <1>8 DEF First, dirtyVars, freeVars
<1>9. ASSUME NEW x \in Bufs, EndUnlist(x) PROVE ListType'
  BY <1>3, <1>9 DEF EndUnlist
<1>10. ASSUME NEW x \in Bufs, EndAttachLocked(x) PROVE ListType'
  BY <1>2, <1>10 DEF EndAttachLocked, Nodes
<1>11. CASE FreeFirst
  BY <1>1, <1>2, <1>11 DEF FreeFirst, StoreType, listVars, freeVars, dirtyVars
<1> QED BY ListFrame, <1>1, <1>4, <1>5, <1>6, <1>7, <1>8, <1>9, <1>10, <1>11

LEMMA ThreadTypeStep == TypeInv /\ [Next]_vars => ThreadType'
<1> SUFFICES ASSUME TypeInv, [Next]_vars PROVE ThreadType'
  OBVIOUS
<1> USE DEF TypeInv, TypeOK, ThreadType
<1>1. pc' \in [Procs -> PcLabels]
  BY PcFrame DEF Goto
<1>2. bh' \in [Procs -> Nodes]
  <2>1. ASSUME NEW t \in Threads, Search(t) PROVE bh' \in [Procs -> Nodes]
    <3>1. tree[arg[t]] \in Nodes
      BY <2>1 DEF Search, PointersOK, StoreType
    <3> QED BY <2>1, <3>1 DEF Search
  <2>2. ASSUME NEW t \in Threads, Alloc(t) PROVE bh' \in [Procs -> Nodes]
    <3>1. nalloc + 1 \in Nodes
      BY <2>2, CacheConstants DEF Alloc, StoreType, Nodes, Bufs
    <3> QED BY <2>2, <3>1 DEF Alloc
  <2>3. CASE First
    BY <2>3 DEF First, ListType, Nodes
  <2> QED BY BhFrame, <2>1, <2>2, <2>3
<1> DEFINE Rest == /\ op' \in [Threads -> OpKinds]
                   /\ arg' \in [Threads -> Blocks \cup {0}]
                   /\ victim' \in [Threads -> Nodes] /\ ops' \in 0 .. MaxOps
                   /\ pipe' \in Seq({1, -1}) /\ command' \in {-1, 0, 1}
                   /\ phase' \in {"up", "joining", "freeing", "done"}
<1>3. Rest
  <2>1. CASE UNCHANGED otherVars
    BY <2>1 DEF otherVars
  <2>2. ASSUME NEW t \in Threads, Start(t) PROVE Rest
    BY <2>2, CacheConstants DEF Start
  <2>3. ASSUME NEW t \in Threads, Alloc(t) PROVE Rest
    BY <2>3 DEF Alloc
  <2>4. ASSUME NEW t \in Threads, Pop(t) PROVE Rest
    BY <2>4 DEF Pop, ListType, Nodes
  <2>5. CASE Wake
    <3>1. pipe # <<>> => Head(pipe) \in {1, -1} /\ Tail(pipe) \in Seq({1, -1})
      OBVIOUS
    <3> QED BY <2>5, <3>1 DEF Wake
  <2>6. CASE NotifyExit
    BY <2>6 DEF NotifyExit
  <2>7. CASE Join \/ FreeDone
    BY <2>7 DEF Join, FreeDone
  <2> QED BY OtherFrame, <2>1, <2>2, <2>3, <2>4, <2>5, <2>6, <2>7
<1> QED BY <1>1, <1>2, <1>3

\* Between two labels a thread keeps its pointer; it enters PointerLabels only
\* from inside, from a search that found something, from an allocation or from
\* the dirty list.
LEMMA PointerFrame ==
    [Next]_vars =>
        \/ \E t \in Threads : Start(t) \/ Search(t) \/ Alloc(t)
        \/ First
        \/ /\ UNCHANGED <<bh, arg, nalloc, blk>>
           /\ \/ pc' = pc
              \/ \E a \in Procs, l \in PcLabels :
                    /\ Goto(a, l)
                    /\ l \in PointerLabels => pc[a] \in PointerLabels
                    /\ pc[a] # "idle"
BY DEF Next, ClientStep, WritebackStep, IoStep, FreeStep, Terminated, vars,
       storeVars, otherVars, Procs, PcLabels, PointerLabels, UserLabels,
       LockLabels, Detach, DetachLocked, Unlist, Insert, Get, LockBuffer,
       TestUptodate, ClearDirty, UnlistRead, SubmitRead, SemWait, SemPost,
       Modify, SetUptodate, SetDirty, Put, Release, Move, Drop, Pop, Erase,
       Free, Attach, AttachLocked, Wake, TryLock, Check, GetWrite,
       SubmitWrite, TransferRead, TransferWrite, EndUptodate, EndPut,
       EndUnlist, EndClear, EndAttach, EndAttachLocked, EndUnlock, EndPost,
       NotifyExit, Join, FreeFirst, FreeDone

LEMMA PointersStep == TypeInv /\ [Next]_vars => PointersOK'
<1> SUFFICES ASSUME TypeInv, [Next]_vars PROVE PointersOK'
  OBVIOUS
<1> USE DEF TypeInv, TypeOK
<1>0. nalloc' \in Nat /\ nalloc \in Nat /\ nalloc <= nalloc'
  <2>1. ASSUME NEW t \in Threads, Alloc(t) PROVE nalloc' = nalloc + 1
    BY <2>1 DEF Alloc
  <2>2. nalloc \in Nat
    BY CacheConstants DEF StoreType
  <2>3. nalloc' = nalloc \/ nalloc' = nalloc + 1
    BY <2>1, StoreFrame DEF storeVars, Insert, Modify, Erase, Free,
                            TransferRead, TransferWrite, FreeFirst
  <2> QED BY <2>2, <2>3
<1>1. \A a \in Procs : pc'[a] \in PointerLabels => bh'[a] \in 1 .. nalloc'
  <2>1. ASSUME NEW t \in Threads, Start(t)
        PROVE  \A a \in Procs : pc'[a] \in PointerLabels => bh'[a] \in 1 .. nalloc'
    BY <2>1, <1>0 DEF Start, Goto, PointersOK, ThreadType, PointerLabels,
                      UserLabels, LockLabels
  <2>2. ASSUME NEW t \in Threads, Search(t)
        PROVE  \A a \in Procs : pc'[a] \in PointerLabels => bh'[a] \in 1 .. nalloc'
    <3>1. tree[arg[t]] \in 0 .. nalloc
      BY <2>2 DEF Search, PointersOK
    <3>2. /\ pc' = [pc EXCEPT ![t] = IF tree[arg[t]] # 0 THEN "detach" ELSE "alloc"]
          /\ bh' = [bh EXCEPT ![t] = tree[arg[t]]] /\ nalloc' = nalloc
      BY <2>2 DEF Search, Goto, NULL, storeVars
    <3>3. "alloc" \notin PointerLabels
      BY DEF PointerLabels, UserLabels, LockLabels
    <3> QED BY <3>1, <3>2, <3>3, <1>0 DEF PointersOK, ThreadType
  <2>3. ASSUME NEW t \in Threads, Alloc(t)
        PROVE  \A a \in Procs : pc'[a] \in PointerLabels => bh'[a] \in 1 .. nalloc'
    BY <2>3, <1>0 DEF Alloc, Goto, PointersOK, ThreadType
  <2>4. CASE First
    <3>1. dirtyList # <<>> => Head(dirtyList) \in 1 .. nalloc
      BY DEF ListType, PointersOK
    <3>2. "exited" \notin PointerLabels /\ "epoll" \notin PointerLabels
      BY DEF PointerLabels, UserLabels, LockLabels
    <3> QED BY <2>4, <3>1, <3>2, <1>0 DEF First, Goto, PointersOK, ThreadType, storeVars
  <2>5. CASE /\ UNCHANGED <<bh, arg, nalloc, blk>>
             /\ \/ pc' = pc
                \/ \E a \in Procs, l \in PcLabels :
                      /\ Goto(a, l)
                      /\ l \in PointerLabels => pc[a] \in PointerLabels
                      /\ pc[a] # "idle"
    BY <2>5 DEF Goto, PointersOK, ThreadType
  <2> QED BY PointerFrame, <2>1, <2>2, <2>3, <2>4, <2>5
<1>2. \A b \in Blocks : tree'[b] \in 0 .. nalloc'
  <2>1. ASSUME NEW t \in Threads, Insert(t)
        PROVE  \A b \in Blocks : tree'[b] \in 0 .. nalloc'
    <3>1. bh[t] \in 1 .. nalloc
      BY <2>1 DEF Insert, PointersOK, PointerLabels, Procs
    <3> QED BY <2>1, <3>1, <1>0 DEF Insert, PointersOK, StoreType
  <2>2. ASSUME NEW x, RbErase(x) PROVE \A b \in Blocks : tree'[b] \in 0 .. nalloc'
    BY <2>2, <1>0 DEF RbErase, PointersOK, StoreType, NULL
  <2>3. CASE tree' = tree
    BY <2>3, <1>0 DEF PointersOK
  <2> QED BY <2>1, <2>2, <2>3, StoreFrame
          DEF storeVars, Alloc, Modify, Erase, Free, TransferRead,
              TransferWrite, FreeFirst
<1>3. \A i \in DOMAIN dirtyList' : dirtyList'[i] \in 1 .. nalloc'
  <2>0. dirtyList \in Seq(1 .. nalloc) /\ dirtyCount \in Int
    <3>1. dirtyList \in Seq(Bufs) /\ dirtyCount \in Int
      BY DEF ListType
    <3>2. \A i \in 1 .. Len(dirtyList) : dirtyList[i] \in 1 .. nalloc
      BY <3>1 DEF PointersOK
    <3>3. dirtyList \in [1 .. Len(dirtyList) -> 1 .. nalloc]
      BY <3>1, <3>2
    <3>4. Len(dirtyList) \in Nat
      BY <3>1
    <3>5. dirtyList \in UNION {[1 .. n -> 1 .. nalloc] : n \in Nat}
      BY <3>3, <3>4
    <3> HIDE DEF TypeInv, TypeOK
    <3> QED BY <3>1, <3>5, SeqDef, Zenon
  <2>1. dirtyList' \in Seq(1 .. nalloc)
    <3>1. CASE dirtyList' = dirtyList
      BY <3>1, <2>0
    <3>2. ASSUME NEW x, RemoveFromWriteback(x) PROVE dirtyList' \in Seq(1 .. nalloc)
      BY <3>2, <2>0, Unlisted
    <3>3. ASSUME NEW t \in Threads, Move(t) PROVE dirtyList' \in Seq(1 .. nalloc)
      <4>1. bh[t] \in 1 .. nalloc
        BY <3>3 DEF Move, PointersOK, PointerLabels, Procs
      <4>2. Append(dirtyList, bh[t]) \in Seq(1 .. nalloc)
        BY <4>1, <2>0
      <4> QED BY <3>3, <4>2, <2>0 DEF Move, MoveToWriteback, dirtyVars
    <3>4. CASE First
      BY <3>4, <2>0 DEF First, dirtyVars
    <3> QED BY <3>1, <3>2, <3>3, <3>4, ListFrame
            DEF listVars, dirtyVars, DetachLocked, Unlist, UnlistRead, Pop,
                AttachLocked, EndUnlist, EndAttachLocked, FreeFirst
  <2> QED BY <2>1, <1>0
<1>4. \A x \in Bufs : io'[x] # "none" => x \in 1 .. nalloc'
  <2>1. ASSUME NEW a \in Procs, pc[a] \in {"submit_read", "submit_write"}
        PROVE  bh[a] \in 1 .. nalloc
    BY <2>1 DEF PointersOK, PointerLabels, UserLabels, LockLabels
  <2>2. \/ io' = io
        \/ \E x \in Bufs, l \in IoStates : IoGoto(x, l) /\ io[x] # "none"
        \/ \E a \in Procs, l \in IoStates :
              /\ io' = [io EXCEPT ![bh[a]] = l]
              /\ pc[a] \in {"submit_read", "submit_write"}
    BY SyncFrame
    DEF syncVars, LockBuffer, TestUptodate, SubmitRead, SemWait, SemPost,
        TransferRead, TransferWrite, EndUptodate, EndPut, EndUnlist, EndClear,
        EndAttach, EndAttachLocked, EndUnlock, EndPost, TryLock, Check,
        SubmitWrite, IoStates, IoRefStates, Procs
  <2> QED BY <2>1, <2>2, <1>0 DEF IoGoto, PointersOK, SyncType
<1>5. \A x \in 1 .. nalloc' : blk'[x] \in Blocks
  <2>1. ASSUME NEW t \in Threads, Alloc(t)
        PROVE  \A x \in 1 .. nalloc' : blk'[x] \in Blocks
    <3>1. arg[t] \in Blocks
      BY <2>1 DEF Alloc, PointersOK
    <3> QED BY <2>1, <3>1, <1>0, CacheConstants DEF Alloc, PointersOK, StoreType, Bufs
  <2>2. CASE UNCHANGED <<nalloc, blk>>
    BY <2>2 DEF PointersOK
  <2> QED BY <2>1, <2>2, StoreFrame
          DEF storeVars, Insert, Modify, Erase, Free, TransferRead,
              TransferWrite, FreeFirst
<1>6. \A t \in Threads : pc'[t] # "idle" => arg'[t] \in Blocks
  <2>1. ASSUME NEW t \in Threads, Start(t)
        PROVE  \A u \in Threads : pc'[u] # "idle" => arg'[u] \in Blocks
    BY <2>1 DEF Start, Goto, PointersOK, ThreadType, Procs
  <2>2. ASSUME NEW t \in Threads, Search(t) \/ Alloc(t)
        PROVE  \A u \in Threads : pc'[u] # "idle" => arg'[u] \in Blocks
    BY <2>2 DEF Search, Alloc, Goto, PointersOK, ThreadType, Procs, otherVars
  <2>3. CASE First
    BY <2>3, CacheConstants DEF First, Goto, PointersOK, ThreadType, Procs, otherVars
  <2>4. CASE /\ UNCHANGED <<bh, arg, nalloc, blk>>
             /\ \/ pc' = pc
                \/ \E a \in Procs, l \in PcLabels :
                      /\ Goto(a, l)
                      /\ l \in PointerLabels => pc[a] \in PointerLabels
                      /\ pc[a] # "idle"
    BY <2>4 DEF Goto, PointersOK, ThreadType, Procs
  <2> QED BY PointerFrame, <2>1, <2>2, <2>3, <2>4
<1> QED BY <1>1, <1>2, <1>3, <1>4, <1>5, <1>6 DEF PointersOK

LEMMA TypeInvariance == Spec => []TypeInv
<1>1. TypeInv /\ [Next]_vars => TypeInv'
  BY StoreTypeStep, BufTypeStep, SyncTypeStep, ListTypeStep, ThreadTypeStep,
     PointersStep DEF TypeInv, TypeOK
<1> QED BY InitType, <1>1, PTL DEF Spec

\* The cache's variables keep their types, and every buffer_head that __getblk
\* hands to bh_submit_read, brelse or the writeback thread is one that
\* buffer_alloc returned.
THEOREM TypeCorrect == Spec => []TypeOK
<1>1. TypeInv => TypeOK
  BY DEF TypeInv
<1> QED BY TypeInvariance, <1>1, PTL

-----------------------------------------------------------------------------
(* b_lock. *)

Holds(a, x) == bh[a] = x /\ pc[a] \in LockLabels

\* BufferLock, one thread at a time.
LockInv ==
    \A x \in Bufs :
        /\ \A a, b \in Procs : Holds(a, x) /\ Holds(b, x) => a = b
        /\ IoLock(x) => \A a \in Procs : ~Holds(a, x)
        /\ locked[x] <=> IoLock(x) \/ \E a \in Procs : Holds(a, x)

LEMMA LockInvBufferLock == LockInv <=> BufferLock
BY DEF LockInv, BufferLock, LockHolders, Holds

\* Who holds b_lock changes only in lock_buffer, trylock_buffer, unlock_buffer
\* and when the transfer is submitted.
LEMMA HolderFrame ==
    ASSUME TypeInv, [Next]_vars
    PROVE  \/ \A a \in Procs, x \in Bufs : Holds(a, x)' <=> Holds(a, x)
           \/ \E t \in Threads : LockBuffer(t) \/ TestUptodate(t) \/ SubmitRead(t)
           \/ TryLock \/ Check \/ SubmitWrite
<1> DEFINE Quiet ==
        \/ UNCHANGED <<pc, bh>>
        \/ \E a \in Procs, l \in PcLabels :
              /\ Goto(a, l) /\ bh' = bh
              /\ l \in LockLabels <=> pc[a] \in LockLabels
<1>1. \/ Quiet
      \/ \E t \in Threads : \/ LockBuffer(t) \/ TestUptodate(t) \/ SubmitRead(t)
                            \/ Search(t) \/ Alloc(t)
      \/ TryLock \/ Check \/ SubmitWrite \/ First
  BY DEF Next, ClientStep, WritebackStep, IoStep, FreeStep, Terminated,
         vars, Procs, PcLabels, PointerLabels, UserLabels, LockLabels,
         Start, Detach, DetachLocked, Unlist, Insert, Get, otherVars,
         ClearDirty, UnlistRead, SemWait, SemPost, Modify, SetUptodate,
         SetDirty, Put, Release, Move, Drop, Pop, Erase, Free, Attach,
         AttachLocked, Wake, GetWrite, TransferRead, TransferWrite,
         EndUptodate, EndPut, EndUnlist, EndClear, EndAttach,
         EndAttachLocked, EndUnlock, EndPost, NotifyExit, Join, FreeFirst,
         FreeDone
<1> USE DEF TypeInv, TypeOK, ThreadType
<1>2. ASSUME Quiet, NEW b \in Procs, NEW x \in Bufs
      PROVE  Holds(b, x)' <=> Holds(b, x)
  BY <1>2 DEF Goto, Holds
<1>3. ASSUME NEW a \in Procs, NEW l, NEW y, pc' = [pc EXCEPT ![a] = l],
             bh' = [bh EXCEPT ![a] = y], l \notin LockLabels,
             pc[a] \notin LockLabels, NEW b \in Procs, NEW x \in Bufs
      PROVE  Holds(b, x)' <=> Holds(b, x)
  BY <1>3 DEF Holds
<1>4. ASSUME NEW t \in Threads, Search(t), NEW b \in Procs, NEW x \in Bufs
      PROVE  Holds(b, x)' <=> Holds(b, x)
  <2> DEFINE l == IF tree[arg[t]] # NULL THEN "detach" ELSE "alloc"
  <2>1. pc' = [pc EXCEPT ![t] = l] /\ bh' = [bh EXCEPT ![t] = tree[arg[t]]]
    BY <1>4 DEF Search, Goto
  <2>2. t \in Procs /\ pc[t] \notin LockLabels /\ l \notin LockLabels
    BY <1>4 DEF Search, Procs, LockLabels
  <2> HIDE DEF l
  <2> QED BY <1>3, <2>1, <2>2
<1>5. ASSUME NEW t \in Threads, Alloc(t), NEW b \in Procs, NEW x \in Bufs
      PROVE  Holds(b, x)' <=> Holds(b, x)
  <2>1. /\ pc' = [pc EXCEPT ![t] = "insert"]
        /\ bh' = [bh EXCEPT ![t] = nalloc + 1]
    BY <1>5 DEF Alloc, Goto
  <2>2. t \in Procs /\ pc[t] \notin LockLabels /\ "insert" \notin LockLabels
    BY <1>5 DEF Alloc, Procs, LockLabels
  <2> QED BY <1>3, <2>1, <2>2
<1>6. ASSUME First, NEW b \in Procs, NEW x \in Bufs
      PROVE  Holds(b, x)' <=> Holds(b, x)
  <2>1. /\ pc[WB] = "first"
        /\ \/ Goto(WB, "trylock") /\ bh' = [bh EXCEPT ![WB] = Head(dirtyList)]
           \/ Goto(WB, IF Exiting THEN "exited" ELSE "epoll") /\ bh' = bh
    BY <1>6 DEF First
  <2>2. CASE Goto(WB, "trylock") /\ bh' = [bh EXCEPT ![WB] = Head(dirtyList)]
    <3>1. /\ WB \in Procs /\ pc[WB] \notin LockLabels
          /\ "trylock" \notin LockLabels
      BY <2>1 DEF Procs, LockLabels
    <3> QED BY <1>3, <2>2, <3>1 DEF Goto
  <2>3. CASE Goto(WB, IF Exiting THEN "exited" ELSE "epoll") /\ bh' = bh
    BY <2>1, <2>3 DEF Goto, Holds, LockLabels, Procs
  <2> QED BY <2>1, <2>2, <2>3
<1> QED BY <1>1, <1>2, <1>4, <1>5, <1>6

LEMMA LockStep == TypeInv /\ LockInv /\ [Next]_vars => LockInv'
<1> SUFFICES ASSUME TypeInv, LockInv, [Next]_vars PROVE LockInv'
  OBVIOUS
<1> USE DEF TypeInv, TypeOK
<1>1. ASSUME NEW t \in Threads, LockBuffer(t) PROVE LockInv'
  <2>1. bh[t] \in Bufs /\ t \in Procs
    BY <1>1, Deref DEF LockBuffer, Procs, PointerLabels, UserLabels
  <2>2. /\ bh' = bh /\ io' = io /\ pc' = [pc EXCEPT ![t] = "test"]
        /\ ~locked[bh[t]] /\ locked' = [locked EXCEPT ![bh[t]] = TRUE]
        /\ pc[t] = "lock"
    BY <1>1 DEF LockBuffer, Goto, Lock
  <2> QED BY <2>1, <2>2 DEF LockInv, Holds, IoLock, LockLabels, ThreadType, SyncType
<1>2. ASSUME NEW t \in Threads, TestUptodate(t) PROVE LockInv'
  <2>1. bh[t] \in Bufs /\ t \in Procs
    BY <1>2, Deref DEF TestUptodate, Procs, PointerLabels, UserLabels
  <2>2. Holds(t, bh[t]) /\ bh' = bh /\ io' = io
    BY <1>2 DEF TestUptodate, Holds, LockLabels
  <2>3. CASE locked' = locked /\ pc' = [pc EXCEPT ![t] = "clear"]
    BY <2>1, <2>2, <2>3 DEF LockInv, Holds, IoLock, LockLabels, ThreadType
  <2>4. CASE /\ locked' = [locked EXCEPT ![bh[t]] = FALSE]
             /\ pc' = [pc EXCEPT ![t] = "wait"]
    BY <2>1, <2>2, <2>4 DEF LockInv, Holds, IoLock, LockLabels, ThreadType, SyncType
  <2> QED BY <1>2, <2>3, <2>4 DEF TestUptodate, Goto, Unlock
<1>3. ASSUME NEW t \in Threads, SubmitRead(t) PROVE LockInv'
  <2>1. bh[t] \in Bufs /\ t \in Procs
    BY <1>3, Deref DEF SubmitRead, Procs, PointerLabels, UserLabels
  <2>2. /\ Holds(t, bh[t]) /\ bh' = bh /\ locked' = locked
        /\ io' = [io EXCEPT ![bh[t]] = "read"] /\ pc' = [pc EXCEPT ![t] = "wait"]
    BY <1>3 DEF SubmitRead, Goto, Holds, LockLabels
  <2> QED BY <2>1, <2>2 DEF LockInv, Holds, IoLock, LockLabels, ThreadType, SyncType
<1>4. CASE TryLock
  <2>1. bh[WB] \in Bufs /\ WB \in Procs
    BY <1>4, Deref DEF TryLock, Procs, PointerLabels
  <2>2. bh' = bh /\ io' = io /\ pc[WB] = "trylock"
    BY <1>4 DEF TryLock
  <2>3. CASE /\ ~locked[bh[WB]] /\ locked' = [locked EXCEPT ![bh[WB]] = TRUE]
             /\ pc' = [pc EXCEPT ![WB] = "check"]
    BY <2>1, <2>2, <2>3 DEF LockInv, Holds, IoLock, LockLabels, ThreadType, SyncType
  <2>4. CASE locked' = locked /\ pc' = [pc EXCEPT ![WB] = "wait"]
    BY <2>1, <2>2, <2>4 DEF LockInv, Holds, IoLock, LockLabels, ThreadType
  <2> QED BY <1>4, <2>3, <2>4 DEF TryLock, Goto, Lock
<1>5. CASE Check
  <2>1. bh[WB] \in Bufs /\ WB \in Procs
    BY <1>5, Deref DEF Check, Procs, PointerLabels, LockLabels
  <2>2. bh' = bh /\ io' = io /\ Holds(WB, bh[WB])
    BY <1>5 DEF Check, Holds, LockLabels
  <2>3. CASE locked' = locked /\ pc' = [pc EXCEPT ![WB] = "get_write"]
    BY <2>1, <2>2, <2>3 DEF LockInv, Holds, IoLock, LockLabels, ThreadType
  <2>4. CASE /\ locked' = [locked EXCEPT ![bh[WB]] = FALSE]
             /\ pc' = [pc EXCEPT ![WB] = "wait"]
    BY <2>1, <2>2, <2>4 DEF LockInv, Holds, IoLock, LockLabels, ThreadType, SyncType
  <2> QED BY <1>5, <2>3, <2>4 DEF Check, Goto, Unlock
<1>6. CASE SubmitWrite
  <2>1. bh[WB] \in Bufs /\ WB \in Procs
    BY <1>6, Deref DEF SubmitWrite, Procs, PointerLabels, LockLabels
  <2>2. /\ Holds(WB, bh[WB]) /\ bh' = bh /\ locked' = locked
        /\ io' = [io EXCEPT ![bh[WB]] = "write"]
        /\ pc' = [pc EXCEPT ![WB] = "wait"]
    BY <1>6 DEF SubmitWrite, Goto, Holds, LockLabels
  <2> QED BY <2>1, <2>2 DEF LockInv, Holds, IoLock, LockLabels, ThreadType, SyncType
<1>7. ASSUME \A a \in Procs, x \in Bufs : Holds(a, x)' <=> Holds(a, x),
             NEW x \in Bufs, EndUnlock(x)
      PROVE  LockInv'
  BY <1>7 DEF EndUnlock, Unlock, IoGoto, LockInv, IoLock, SyncType
<1>8. ASSUME \A a \in Procs, x \in Bufs : Holds(a, x)' <=> Holds(a, x),
             locked' = locked, \A x \in Bufs : IoLock(x)' <=> IoLock(x)
      PROVE  LockInv'
  BY <1>8 DEF LockInv
<1>9. \/ locked' = locked /\ \A x \in Bufs : IoLock(x)' <=> IoLock(x)
      \/ \E x \in Bufs : EndUnlock(x)
      \/ \E t \in Threads : LockBuffer(t) \/ TestUptodate(t) \/ SubmitRead(t)
      \/ TryLock \/ Check \/ SubmitWrite
  <2>1. ASSUME NEW y \in Bufs, NEW l, IoGoto(y, l), locked' = locked,
               l \in {"none", "end_post"} <=> io[y] \in {"none", "end_post"}
        PROVE  \A x \in Bufs : IoLock(x)' <=> IoLock(x)
    BY <2>1 DEF IoGoto, IoLock, SyncType
  <2>2. ASSUME NEW y \in Bufs,
               \/ TransferRead(y) \/ TransferWrite(y) \/ EndUptodate(y)
               \/ EndPut(y) \/ EndUnlist(y) \/ EndClear(y) \/ EndAttach(y)
               \/ EndAttachLocked(y) \/ EndPost(y)
        PROVE  /\ locked' = locked
               /\ \E l : IoGoto(y, l) /\ (l \in {"none", "end_post"}
                                            <=> io[y] \in {"none", "end_post"})
    BY <2>2 DEF TransferRead, TransferWrite, EndUptodate, EndPut, EndUnlist,
                EndClear, EndAttach, EndAttachLocked, EndPost
  <2>3. CASE UNCHANGED <<locked, io>>
    BY <2>3 DEF IoLock
  <2> QED BY <2>1, <2>2, <2>3, SyncFrame DEF syncVars, SemWait, SemPost
<1> QED BY HolderFrame, <1>1, <1>2, <1>3, <1>4, <1>5, <1>6, <1>7, <1>8, <1>9

\* In every reachable state b_lock is held by at most one thread, or by the
\* transfer that a thread handed it to, and it is locked exactly then.
THEOREM LockExclusion == Spec => []BufferLock
<1>1. Init => LockInv
  BY CacheConstants DEF Init, LockInv, Holds, IoLock, LockLabels, Procs
<1>2. TypeInv /\ LockInv /\ [Next]_vars => LockInv'
  BY LockStep
<1> QED BY TypeInvariance, <1>1, <1>2, LockInvBufferLock, PTL DEF Spec

-----------------------------------------------------------------------------
(* The dirty list. *)

\* buffer_dirty_count is adjusted together with the list, under one mutex.
LEMMA DirtyStep == TypeInv /\ DirtyCounted /\ [Next]_vars => DirtyCounted'
<1> SUFFICES ASSUME TypeInv, DirtyCounted, [Next]_vars PROVE DirtyCounted'
  OBVIOUS
<1>0. dirtyList \in Seq(Bufs) /\ dirtyCount \in Int
  BY DEF TypeInv, TypeOK, ListType
<1>1. CASE UNCHANGED dirtyVars
  BY <1>1 DEF dirtyVars, DirtyCounted
<1>2. ASSUME NEW x, RemoveFromWriteback(x) PROVE DirtyCounted'
  BY <1>0, <1>2, Unlisted
<1>3. ASSUME NEW t \in Threads, Move(t) PROVE DirtyCounted'
  <2>1. CASE OnDirtyList(bh[t])
    BY <1>1, <1>3, <2>1 DEF Move, MoveToWriteback
  <2>2. CASE ~OnDirtyList(bh[t])
    <3>1. /\ dirtyList' = Append(dirtyList, bh[t])
          /\ dirtyCount' = dirtyCount + 1
      BY <1>3, <2>2 DEF Move, MoveToWriteback
    <3>2. \A i \in 1 .. Len(dirtyList) : dirtyList[i] # bh[t]
      BY <2>2, <1>0 DEF OnDirtyList
    <3>3. bh[t] \in Bufs
      BY <1>3, Deref DEF Move, Procs, PointerLabels
    <3> HIDE DEF TypeInv
    <3>4. /\ Len(dirtyList') = Len(dirtyList) + 1
          /\ DOMAIN dirtyList' = 1 .. Len(dirtyList) + 1
          /\ \A i \in 1 .. Len(dirtyList) : dirtyList'[i] = dirtyList[i]
          /\ dirtyList'[Len(dirtyList) + 1] = bh[t]
      BY <3>1, <3>3, <1>0
    <3> QED BY <3>1, <3>2, <3>4, <1>0 DEF DirtyCounted
  <2> QED BY <2>1, <2>2
<1>4. CASE First
  <2>1. CASE dirtyList = <<>>
    BY <1>1, <1>4, <2>1 DEF First
  <2>2. CASE dirtyList # <<>>
    <3>1. dirtyList' = Tail(dirtyList) /\ dirtyCount' = dirtyCount - 1
      BY <1>4, <2>2 DEF First
    <3>2. /\ Len(dirtyList') = Len(dirtyList) - 1
          /\ DOMAIN dirtyList' = 1 .. Len(dirtyList) - 1
          /\ \A i \in 1 .. Len(dirtyList) - 1 : dirtyList'[i] = dirtyList[i + 1]
      BY <3>1, <2>2, <1>0
    <3> QED BY <3>1, <3>2, <1>0 DEF DirtyCounted
  <2> QED BY <2>1, <2>2
<1> QED BY ListFrame, <1>1, <1>2, <1>3, <1>4
        DEF listVars, dirtyVars, DetachLocked, Unlist, UnlistRead, Pop,
            AttachLocked, EndUnlist, EndAttachLocked, FreeFirst

\* buffer_dirty_count, which decides when the writeback thread is woken up, is
\* the length of bd_bh_dirty, and no buffer is on that list twice, however
\* brelse, __getblk, the callbacks and the writeback thread interleave.
THEOREM DirtyListCounted == Spec => []DirtyCounted
<1>1. Init => DirtyCounted
  BY DEF Init, DirtyCounted
<1> QED BY TypeInvariance, <1>1, DirtyStep, PTL DEF Spec

-----------------------------------------------------------------------------
(* b_count. *)

\* A client becomes a user in get_bh and is one until put_bh_and_read.
LEMMA UserFrame ==
    ASSUME TypeInv, [Next]_vars
    PROVE  \/ \A x \in Bufs : Users(x)' = Users(x)
           \/ \E t \in Threads : Get(t) \/ Put(t)
<1> DEFINE Same == \A t \in Threads : /\ pc'[t] \in UserLabels <=> pc[t] \in UserLabels
                                      /\ pc[t] \in UserLabels => bh'[t] = bh[t]
<1> USE DEF TypeInv, TypeOK, ThreadType
<1>1. ASSUME Same PROVE \A x \in Bufs : Users(x)' = Users(x)
  BY <1>1 DEF Users
<1>2. ASSUME NEW a \in Procs, NEW l, pc' = [pc EXCEPT ![a] = l],
             a \in Threads => (l \in UserLabels <=> pc[a] \in UserLabels),
             bh' = bh
      PROVE  Same
  BY <1>2 DEF Procs
<1>3. ASSUME NEW t \in Threads, Search(t) \/ Alloc(t) PROVE Same
  BY <1>3 DEF Search, Alloc, Goto, Procs, UserLabels
<1>4. ASSUME First PROVE Same
  <2>1. \A t \in Threads : pc'[t] = pc[t] /\ bh'[t] = bh[t]
    BY <1>4, CacheConstants DEF First, Goto, Procs
  <2> QED BY <2>1
<1>5. ASSUME UNCHANGED <<pc, bh>> PROVE Same
  BY <1>5
<1>0. WB \notin Threads
  BY CacheConstants
<1>6. \/ UNCHANGED <<pc, bh>> \/ First
      \/ \E t \in Threads : Search(t) \/ Alloc(t) \/ Get(t) \/ Put(t)
      \/ \E a \in Procs, l \in PcLabels :
            /\ Goto(a, l) /\ bh' = bh
            /\ a \in Threads => (l \in UserLabels <=> pc[a] \in UserLabels)
  BY <1>0
     DEF Next, ClientStep, WritebackStep, IoStep, FreeStep, Terminated, vars,
         Procs, PcLabels, PointerLabels, UserLabels, LockLabels, Start,
         Detach, DetachLocked, Unlist, Insert, LockBuffer, otherVars,
         TestUptodate, ClearDirty, UnlistRead, SubmitRead, SemWait, SemPost,
         Modify, SetUptodate, SetDirty, Release, Move, Drop, Pop, Erase,
         Free, Attach, AttachLocked, Wake, TryLock, Check, GetWrite,
         SubmitWrite, TransferRead, TransferWrite, EndUptodate, EndPut,
         EndUnlist, EndClear, EndAttach, EndAttachLocked, EndUnlock, EndPost,
         NotifyExit, Join, FreeFirst, FreeDone
<1> HIDE DEF Same
<1> QED BY <1>1, <1>2, <1>3, <1>4, <1>5, <1>6 DEF Goto

Prepares(a, x) == bh[a] = x /\ pc[a] \in PrepareLabels

\* The reference for a transfer is taken in bh_submit_read and
\* sync_dirty_buffer, handed over by submit_bh and given back by the callback.
LEMMA IoRefFrame ==
    ASSUME TypeInv, [Next]_vars
    PROVE  \/ \A x \in Bufs : IoRef(x)' <=> IoRef(x)
           \/ \E t \in Threads : TestUptodate(t) \/ SubmitRead(t)
           \/ GetWrite \/ SubmitWrite
           \/ \E x \in Bufs : EndPut(x)
<1> DEFINE Named == \/ \E t \in Threads : TestUptodate(t) \/ SubmitRead(t)
                    \/ GetWrite \/ SubmitWrite
                    \/ \E x \in Bufs : EndPut(x)
<1>0. \/ UNCHANGED <<pc, bh>> \/ First \/ Named
      \/ \E t \in Threads : Search(t) \/ Alloc(t)
      \/ \E a \in Procs, l \in PcLabels :
            /\ Goto(a, l) /\ bh' = bh
            /\ l \in PrepareLabels <=> pc[a] \in PrepareLabels
  BY DEF Next, ClientStep, WritebackStep, IoStep, FreeStep, Terminated, vars,
       Procs, PcLabels, PointerLabels, UserLabels, LockLabels, Start,
       Detach, DetachLocked, Unlist, Insert, LockBuffer, otherVars, Get, Put,
       ClearDirty, UnlistRead, SemWait, SemPost, PrepareLabels,
       Modify, SetUptodate, SetDirty, Release, Move, Drop, Pop, Erase,
       Free, Attach, AttachLocked, Wake, TryLock, Check,
       TransferRead, TransferWrite, EndUptodate,
       EndUnlist, EndClear, EndAttach, EndAttachLocked, EndUnlock, EndPost,
       NotifyExit, Join, FreeFirst, FreeDone
<1> USE DEF TypeInv, TypeOK, ThreadType, SyncType
<1>1. Named \/ \A a \in Procs : /\ pc'[a] \in PrepareLabels <=> pc[a] \in PrepareLabels
                                /\ pc[a] \in PrepareLabels => bh'[a] = bh[a]
  <2> DEFINE Same == \A a \in Procs :
                        /\ pc'[a] \in PrepareLabels <=> pc[a] \in PrepareLabels
                        /\ pc[a] \in PrepareLabels => bh'[a] = bh[a]
  <2>2. ASSUME NEW a \in Procs, NEW l, pc' = [pc EXCEPT ![a] = l],
               l \in PrepareLabels <=> pc[a] \in PrepareLabels, bh' = bh
        PROVE  Same
    BY <2>2
  <2>3. ASSUME NEW t \in Threads, Search(t) \/ Alloc(t) PROVE Same
    BY <2>3 DEF Search, Alloc, Goto, Procs, PrepareLabels
  <2>4. ASSUME First PROVE Same
    BY <2>4 DEF First, Goto, Procs, PrepareLabels
  <2>5. ASSUME UNCHANGED <<pc, bh>> PROVE Same
    BY <2>5
  <2> HIDE DEF Named, Same
  <2>6. Named \/ Same
    BY <1>0, <2>2, <2>3, <2>4, <2>5 DEF Goto
  <2> QED BY <2>6 DEF Same
<1>2. Named \/ \A x \in Bufs : io'[x] \in IoRefStates <=> io[x] \in IoRefStates
  <2>1. ASSUME NEW y \in Bufs, NEW l, IoGoto(y, l),
               l \in IoRefStates <=> io[y] \in IoRefStates
        PROVE  \A x \in Bufs : io'[x] \in IoRefStates <=> io[x] \in IoRefStates
    BY <2>1 DEF IoGoto
  <2>2. \/ Named \/ io' = io
        \/ \E y \in Bufs, l \in IoStates :
              IoGoto(y, l) /\ (l \in IoRefStates <=> io[y] \in IoRefStates)
    BY SyncFrame
       DEF syncVars, LockBuffer, SemWait, SemPost, TransferRead, TransferWrite,
           EndUptodate, EndUnlist, EndClear, EndAttach, EndAttachLocked,
           EndUnlock, EndPost, TryLock, Check, IoStates, IoRefStates
  <2> HIDE DEF Named
  <2> QED BY <2>1, <2>2
<1> HIDE DEF Named
<1>3. Named \/ \A x \in Bufs : IoRef(x)' <=> IoRef(x)
  BY <1>1, <1>2 DEF IoRef
<1> QED BY <1>3 DEF Named

\* There are finitely many users of a buffer, so that they can be counted.
LEMMA UsersFinite ==
    ASSUME NEW x PROVE IsFiniteSet(Users(x)) /\ Cardinality(Users(x)) \in Nat
<1>1. Users(x) \subseteq Threads
  BY DEF Users
<1> QED BY <1>1, CacheConstants, FS_Subset, FS_CardinalityType

\* A thread that has b_lock is the only one that could have a reference for a
\* transfer: there is none in flight, and nobody else prepares one.
LEMMA HolderPrepares ==
    ASSUME TypeInv, LockInv, NEW a \in Procs, NEW x \in Bufs, Holds(a, x)
    PROVE  /\ io[x] \notin IoRefStates
           /\ \A b \in Procs : Prepares(b, x) => b = a
<1>1. ASSUME NEW b \in Procs, Prepares(b, x) PROVE Holds(b, x)
  BY <1>1 DEF Prepares, Holds, PrepareLabels, LockLabels
<1> QED BY <1>1 DEF LockInv, IoLock, IoRefStates

\* get_bh and put_bh change b_count exactly when a user or a transfer comes or
\* goes.
LEMMA CountStep == TypeInv /\ LockInv /\ RefCount /\ [Next]_vars => RefCount'
<1> SUFFICES ASSUME TypeInv, LockInv, RefCount, [Next]_vars PROVE RefCount'
  OBVIOUS
<1> DEFINE N(x) == Cardinality(Users(x))
           R(x) == IF IoRef(x) THEN 1 ELSE 0
<1>0. \A x \in Bufs : N(x) \in Nat /\ count[x] = N(x) + R(x)
  BY UsersFinite DEF RefCount
<1>t. count \in [Bufs -> Int] /\ pc \in [Procs -> PcLabels] /\ io \in [Bufs -> IoStates]
  BY DEF TypeInv, TypeOK, BufType, ThreadType, SyncType
\* get_bh of a client: a user more
<1>1. ASSUME NEW t \in Threads, Get(t) PROVE RefCount'
  <2>1. bh[t] \in Bufs /\ t \in Procs
    BY <1>1, Deref DEF Get, Procs, PointerLabels
  <2>2. PICK l \in {"modify", "lock"} : pc' = [pc EXCEPT ![t] = l]
    BY <1>1 DEF Get, Goto
  <2>3. pc[t] = "get" /\ bh' = bh /\ io' = io
    BY <1>1 DEF Get, syncVars
  <2>4. \A x \in Bufs : IoRef(x)' <=> IoRef(x)
    BY <2>1, <2>2, <2>3, <1>t DEF IoRef, PrepareLabels
  <2>5. Users(bh[t])' = Users(bh[t]) \cup {t} /\ t \notin Users(bh[t])
    BY <2>1, <2>2, <2>3, <1>t DEF Users, UserLabels, Procs
  <2>6. \A x \in Bufs : x # bh[t] => Users(x)' = Users(x)
    BY <2>1, <2>2, <2>3, <1>t DEF Users, UserLabels, Procs
  <2>7. N(bh[t])' = N(bh[t]) + 1
    BY <2>5, UsersFinite, FS_AddElement
  <2>8. count' = [count EXCEPT ![bh[t]] = @ + 1]
    BY <1>1 DEF Get, GetBh
  <2>9. \A x \in Bufs : x # bh[t] => N(x)' = N(x)
    BY <2>6
  <2> HIDE DEF N
  <2>10. ASSUME NEW x \in Bufs PROVE count'[x] = N(x)' + R(x)'
    BY <2>1, <2>3, <2>4, <2>7, <2>8, <2>9, <1>0, <1>t
  <2> QED BY <2>10 DEF RefCount, N
\* put_bh_and_read: a user less
<1>2. ASSUME NEW t \in Threads, Put(t) PROVE RefCount'
  <2>1. bh[t] \in Bufs /\ t \in Procs
    BY <1>2, Deref DEF Put, Procs, PointerLabels, UserLabels
  <2>2. PICK l \in {"release", "idle"} : pc' = [pc EXCEPT ![t] = l]
    BY <1>2 DEF Put, Goto
  <2>3. pc[t] = "put" /\ bh' = bh /\ io' = io
    BY <1>2 DEF Put, syncVars
  <2>4. \A x \in Bufs : IoRef(x)' <=> IoRef(x)
    BY <2>1, <2>2, <2>3, <1>t DEF IoRef, PrepareLabels
  <2>5. Users(bh[t])' = Users(bh[t]) \ {t} /\ t \in Users(bh[t])
    BY <2>1, <2>2, <2>3, <1>t DEF Users, UserLabels, Procs
  <2>6. \A x \in Bufs : x # bh[t] => Users(x)' = Users(x)
    BY <2>1, <2>2, <2>3, <1>t DEF Users, UserLabels, Procs
  <2>7. N(bh[t])' = N(bh[t]) - 1
    BY <2>5, UsersFinite, FS_RemoveElement
  <2>8. count' = [count EXCEPT ![bh[t]] = @ - 1]
    BY <1>2 DEF Put, PutBh
  <2>9. \A x \in Bufs : x # bh[t] => N(x)' = N(x)
    BY <2>6
  <2> HIDE DEF N
  <2>10. ASSUME NEW x \in Bufs PROVE count'[x] = N(x)' + R(x)'
    BY <2>1, <2>3, <2>4, <2>7, <2>8, <2>9, <1>0, <1>t
  <2> QED BY <2>10 DEF RefCount, N
\* The same users, and the references for transfers change at x only.
<1>3. ASSUME NEW x \in Bufs, \A y \in Bufs : Users(y)' = Users(y),
             \A y \in Bufs \ {x} : IoRef(y)' <=> IoRef(y),
             \/ /\ ~IoRef(x) /\ IoRef(x)'
                /\ count' = [count EXCEPT ![x] = @ + 1]
             \/ /\ IoRef(x) /\ ~IoRef(x)'
                /\ count' = [count EXCEPT ![x] = @ - 1]
             \/ (IoRef(x)' <=> IoRef(x)) /\ count' = count
      PROVE  RefCount'
  <2>1. \A y \in Bufs : N(y)' = N(y)
    BY <1>3
  <2> QED BY <2>1, <1>3, <1>0, <1>t DEF RefCount
<1>4. ASSUME NEW t \in Threads, TestUptodate(t),
             \A y \in Bufs : Users(y)' = Users(y)
      PROVE  RefCount'
  <2>1. bh[t] \in Bufs /\ t \in Procs
    BY <1>4, Deref DEF TestUptodate, Procs, PointerLabels, UserLabels
  <2>2. /\ Holds(t, bh[t]) /\ pc[t] = "test"
        /\ bh' = bh /\ io' = io
    BY <1>4 DEF TestUptodate, Holds, LockLabels
  <2>3. \A b \in Procs : ~Prepares(b, bh[t])
    BY <2>1, <2>2, HolderPrepares DEF Prepares, PrepareLabels
  <2>4. ~IoRef(bh[t])
    BY <2>1, <2>2, <2>3, HolderPrepares DEF IoRef, Prepares
  <2>5. CASE pc' = [pc EXCEPT ![t] = "wait"] /\ count' = count
    <3>1. \A y \in Bufs : IoRef(y)' <=> IoRef(y)
      BY <2>1, <2>2, <2>5, <1>t DEF IoRef, PrepareLabels
    <3> QED BY <1>3, <1>4, <2>1, <2>5, <3>1
  <2>6. CASE pc' = [pc EXCEPT ![t] = "clear"] /\ count' = [count EXCEPT ![bh[t]] = @ + 1]
    <3>1. IoRef(bh[t])' /\ \A y \in Bufs \ {bh[t]} : IoRef(y)' <=> IoRef(y)
      BY <2>1, <2>2, <2>6, <1>t DEF IoRef, PrepareLabels
    <3> QED BY <1>3, <1>4, <2>1, <2>2, <2>4, <2>6, <3>1
  <2>7. \/ pc' = [pc EXCEPT ![t] = "wait"] /\ count' = count
        \/ /\ pc' = [pc EXCEPT ![t] = "clear"]
           /\ count' = [count EXCEPT ![bh[t]] = @ + 1]
    BY <1>4 DEF TestUptodate, Goto, GetBh
  <2> QED BY <2>5, <2>6, <2>7
<1>5. ASSUME GetWrite, \A y \in Bufs : Users(y)' = Users(y) PROVE RefCount'
  <2>1. bh[WB] \in Bufs /\ WB \in Procs
    BY <1>5, Deref DEF GetWrite, Procs, PointerLabels, LockLabels
  <2>2. /\ Holds(WB, bh[WB]) /\ pc[WB] = "get_write"
        /\ bh' = bh /\ io' = io /\ pc' = [pc EXCEPT ![WB] = "submit_write"]
        /\ count' = [count EXCEPT ![bh[WB]] = @ + 1]
    BY <1>5 DEF GetWrite, Holds, LockLabels, Goto, GetBh, syncVars
  <2>3. \A b \in Procs : ~Prepares(b, bh[WB])
    BY <2>1, <2>2, HolderPrepares DEF Prepares, PrepareLabels
  <2>4. ~IoRef(bh[WB])
    BY <2>1, <2>2, <2>3, HolderPrepares DEF IoRef, Prepares
  <2>5. IoRef(bh[WB])' /\ \A y \in Bufs \ {bh[WB]} : IoRef(y)' <=> IoRef(y)
    BY <2>1, <2>2, <1>t DEF IoRef, PrepareLabels
  <2> QED BY <1>3, <1>5, <2>1, <2>2, <2>4, <2>5
<1>6. ASSUME NEW a \in Procs, NEW l \in {"read", "write"},
             pc[a] \in {"submit_read", "submit_write"},
             pc' = [pc EXCEPT ![a] = "wait"], io' = [io EXCEPT ![bh[a]] = l],
             UNCHANGED <<bh, count>>, \A y \in Bufs : Users(y)' = Users(y)
      PROVE  RefCount'
  <2>1. bh[a] \in Bufs
    BY <1>6, Deref DEF PointerLabels, UserLabels, LockLabels
  <2>2. IoRef(bh[a]) /\ IoRef(bh[a])'
    BY <1>6, <2>1, <1>t DEF IoRef, IoRefStates, PrepareLabels
  <2>3. \A y \in Bufs \ {bh[a]} : IoRef(y)' <=> IoRef(y)
    BY <1>6, <2>1, <1>t DEF IoRef, PrepareLabels
  <2> QED BY <1>3, <1>6, <2>1, <2>2, <2>3
\* put_bh of a callback
<1>7. ASSUME NEW x \in Bufs, EndPut(x), \A y \in Bufs : Users(y)' = Users(y)
      PROVE  RefCount'
  <2>1. /\ io[x] \in {"r_put", "w_put"} /\ UNCHANGED <<pc, bh>>
        /\ count' = [count EXCEPT ![x] = @ - 1]
    BY <1>7 DEF EndPut, PutBh
  <2>2. PICK l \in {"unlock", "w_unlist"} : io' = [io EXCEPT ![x] = l]
    BY <1>7 DEF EndPut, IoGoto
  <2>3. \A b \in Procs : ~Prepares(b, x)
    <3>1. IoLock(x)
      BY <2>1 DEF IoLock
    <3> QED BY <3>1 DEF LockInv, Holds, Prepares, PrepareLabels, LockLabels
  <2>4. IoRef(x) /\ ~IoRef(x)'
    BY <2>1, <2>2, <2>3, <1>t DEF IoRef, IoRefStates, Prepares
  <2>5. \A y \in Bufs \ {x} : IoRef(y)' <=> IoRef(y)
    BY <2>1, <2>2, <1>t DEF IoRef
  <2> QED BY <1>3, <1>7, <2>1, <2>4, <2>5
<1>8. ASSUME \A y \in Bufs : Users(y)' = Users(y),
             \A y \in Bufs : IoRef(y)' <=> IoRef(y), count' = count
      PROVE  RefCount'
  <2>1. \A y \in Bufs : N(y)' = N(y)
    BY <1>8
  <2> QED BY <2>1, <1>8, <1>0 DEF RefCount
<1>9. \/ count' = count
      \/ \E t \in Threads : Get(t) \/ TestUptodate(t) \/ Put(t)
      \/ GetWrite \/ \E x \in Bufs : EndPut(x)
  BY BufFrame DEF bufVars, ClearDirty, SetUptodate, SetDirty, EndUptodate, EndClear
<1>10. ASSUME NEW t \in Threads, SubmitRead(t), \A y \in Bufs : Users(y)' = Users(y)
       PROVE  RefCount'
  BY <1>6, <1>10 DEF SubmitRead, Goto, Procs, bufVars
<1>11. ASSUME SubmitWrite, \A y \in Bufs : Users(y)' = Users(y) PROVE RefCount'
  BY <1>6, <1>11 DEF SubmitWrite, Goto, Procs, bufVars
<1> HIDE DEF N, R
<1> QED BY UserFrame, IoRefFrame, <1>1, <1>2, <1>4, <1>5, <1>7, <1>8, <1>9, <1>10, <1>11

\* The invariant of LockExclusion, for use in later proofs.
LEMMA LockInvariance == Spec => []LockInv
BY LockExclusion, LockInvBufferLock, PTL

\* b_count is the number of clients between get_bh and brelse, and one more
\* while a transfer is prepared or in flight: no put_bh takes it below zero, and
\* a buffer whose count is 0 has no user, however the threads interleave.
THEOREM CountsReferences == Spec => []RefCount
<1>1. Init => RefCount
  <2> SUFFICES ASSUME Init, NEW x \in Bufs
               PROVE  count[x] = Cardinality(Users(x)) + IF IoRef(x) THEN 1 ELSE 0
    BY DEF RefCount
  <2>1. Users(x) = {}
    BY CacheConstants DEF Init, Users, UserLabels, Procs
  <2>2. ~IoRef(x) /\ count[x] = 0
    BY DEF Init, IoRef, IoRefStates, PrepareLabels
  <2> QED BY <2>1, <2>2, FS_EmptySet
<1> QED BY TypeInvariance, LockInvariance, <1>1, CountStep, PTL DEF Spec
=============================================================================
