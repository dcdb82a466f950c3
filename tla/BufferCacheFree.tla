-------------------------- MODULE BufferCacheFree --------------------------
(***************************************************************************)
(* The free list with one worker that only reads, for any number of blocks *)
(* and operations and any limit: it stays a ring, bd_nr_free counts it,    *)
(* dropping buffers takes only those that nobody uses, and bdev_free frees *)
(* all that are left.  With writes, or with two workers, the code does not *)
(* keep all of this: see the table in section 4 of the README.             *)
(***************************************************************************)
EXTENDS BufferCacheData

\* One worker, and nobody writes.
Reader == (\A t, u \in Threads : t = u) /\ Ops \subseteq {"read"}

-----------------------------------------------------------------------------
(* The inductive invariant: CleanInv and FreeInv. *)

\* There is nothing to write back.
CleanInv ==
    /\ \A x \in Bufs : ~dirty[x] /\ io[x] \in ReadStates \cup {"none", "unlock", "end_post"}
    /\ dirtyList = <<>>
    /\ pc[WB] \in {"epoll", "first", "exited"}
    /\ \A t \in Threads : /\ op[t] = "read"
                          /\ pc[t] \notin {"modify", "set_uptodate", "set_dirty", "move"}

\* The links of the free list are inverse to each other, and there is no ring
\* of buffers beside the one through the head.
RingInv ==
    /\ \A n \in Nodes : fprev[fnext[n]] = n /\ fnext[fprev[n]] = n
    /\ \A X \in SUBSET OnFreelist : X # {} => \E x \in X : fnext[x] \notin X
    /\ nrFree = Cardinality(OnFreelist)

\* Where the buffers are: in the tree, unless they are being inserted or freed.
PlaceInv ==
    /\ freed \subseteq 1 .. nalloc
    /\ \A b \in Blocks : tree[b] # NULL => blk[tree[b]] = b /\ tree[b] \notin freed
    /\ \A x \in OnFreelist : x \in 1 .. nalloc /\ tree[blk[x]] = x
    /\ phase = "done" => \A b \in Blocks : tree[b] = NULL

\* The buffer of a client is in the tree, and on the free list only until
\* detach_bh_from_freelist.  The victim of remove_first_bh_from_freelist is
\* another one, taken off the free list and then out of the tree.
VictimInv(t) ==
    /\ victim[t] \in 1 .. nalloc \ freed /\ victim[t] # bh[t]
    /\ victim[t] \notin OnFreelist
    /\ IF pc[t] = "erase" THEN tree[blk[victim[t]]] = victim[t]
                          ELSE \A b \in Blocks : tree[b] # victim[t]

ClientInv(t) ==
    /\ pc[t] \in PointerLabels => bh[t] \notin freed /\ blk[bh[t]] = arg[t]
    /\ pc[t] \in PointerLabels \ {"insert"} => tree[arg[t]] = bh[t]
    /\ pc[t] \in {"alloc", "insert"} => tree[arg[t]] = NULL
    /\ pc[t] \in PointerLabels \ {"detach", "detach_locked"} => bh[t] \notin OnFreelist
    /\ pc[t] = "detach_locked" => bh[t] \in OnFreelist
    /\ pc[t] \in {"erase", "free"} => VictimInv(t)

FreeInv == RingInv /\ PlaceInv /\ \A t \in Threads : ClientInv(t)

-----------------------------------------------------------------------------
(* The list operations. *)

\* The types of the free list's links.
LEMMA LinkType ==
    ASSUME TypeInv
    PROVE  /\ fnext \in [Nodes -> Nodes] /\ fprev \in [Nodes -> Nodes] /\ nrFree \in Int
           /\ Bufs \subseteq Nodes /\ 0 \in Nodes /\ 0 \notin Bufs /\ Nodes = Bufs \cup {0}
           /\ IsFiniteSet(OnFreelist) /\ OnFreelist = {x \in Bufs : fnext[x] # x}
<1>1. IsFiniteSet(Bufs)
  BY CacheConstants, FS_Interval DEF Bufs
<1>2. OnFreelist = {x \in Bufs : fnext[x] # x}
  BY DEF OnFreelist, ListEmpty
<1>3. IsFiniteSet(OnFreelist)
  BY <1>1, <1>2, FS_Subset
<1> QED BY <1>2, <1>3 DEF TypeInv, TypeOK, ListType, Nodes, Bufs

\* list_del_init of an entry that is on the list.
LEMMA DelRing ==
    ASSUME TypeInv, RingInv, NEW x \in OnFreelist, FreelistDel(x)
    PROVE  RingInv' /\ OnFreelist' = OnFreelist \ {x}
<1>0. /\ fnext \in [Nodes -> Nodes] /\ fprev \in [Nodes -> Nodes] /\ nrFree \in Int
      /\ Bufs \subseteq Nodes /\ 0 \in Nodes /\ 0 \notin Bufs /\ Nodes = Bufs \cup {0}
      /\ IsFiniteSet(OnFreelist) /\ OnFreelist = {y \in Bufs : fnext[y] # y}
  BY LinkType
<1>1. PICK p \in Nodes, n \in Nodes : p = fprev[x] /\ n = fnext[x]
  BY <1>0
<1>2. /\ \A m \in Nodes : fprev[fnext[m]] = m /\ fnext[fprev[m]] = m
      /\ nrFree = Cardinality(OnFreelist)
  BY DEF RingInv
<1>3. \A X \in SUBSET OnFreelist : X # {} => \E y \in X : fnext[y] \notin X
  BY DEF RingInv
<1>4. /\ x \in Bufs /\ x \in Nodes /\ p # x /\ n # x /\ fnext[p] = x /\ fprev[n] = x
  BY <1>0, <1>1, <1>2
<1>5. /\ fnext' = [fnext EXCEPT ![p] = n, ![x] = x]
      /\ fprev' = [fprev EXCEPT ![n] = p, ![x] = x] /\ nrFree' = nrFree - 1
  BY <1>1 DEF FreelistDel, ListDelInit
<1>6. \A m \in Nodes : /\ fnext'[m] = IF m = x THEN x ELSE IF m = p THEN n ELSE fnext[m]
                       /\ fprev'[m] = IF m = x THEN x ELSE IF m = n THEN p ELSE fprev[m]
  BY <1>0, <1>4, <1>5
<1>7. \A m \in Nodes : fprev'[fnext'[m]] = m /\ fnext'[fprev'[m]] = m
  BY <1>0, <1>1, <1>2, <1>4, <1>6
\* x and p alone were no ring
<1>8. p \in Bufs => p \in OnFreelist /\ n # p
  <2> SUFFICES ASSUME p \in Bufs, n = p PROVE FALSE
    BY <1>0, <1>4
  <2>1. PICK X : X = {x, p}
    OBVIOUS
  <2>2. X \in SUBSET OnFreelist /\ X # {} /\ \A y \in X : fnext[y] \in X
    BY <1>0, <1>1, <1>4, <2>1
  <2> QED BY <1>3, <2>2
<1>9. OnFreelist' = OnFreelist \ {x}
  <2>1. OnFreelist' = {y \in Bufs : fnext'[y] # y}
    BY DEF OnFreelist, ListEmpty
  <2>2. \A y \in Bufs : fnext'[y] # y <=> fnext[y] # y /\ y # x
    BY <1>0, <1>4, <1>6, <1>8
  <2> QED BY <1>0, <2>1, <2>2
<1>10. ASSUME NEW X \in SUBSET (OnFreelist \ {x}), X # {}, \A y \in X : fnext'[y] \in X
       PROVE  FALSE
  <2>0. x \notin X /\ \A y \in X : y \in Nodes
    BY <1>0
  <2>1. CASE p \in X
    <3>1. PICK Y : Y = X \cup {x}
      OBVIOUS
    <3>2. n \in X
      BY <1>4, <1>6, <1>10, <2>1
    <3>3. \A y \in Y : fnext[y] \in Y
      BY <1>1, <1>4, <1>6, <1>10, <2>0, <3>1, <3>2
    <3>4. Y \in SUBSET OnFreelist /\ Y # {}
      BY <3>1
    <3> QED BY <1>3, <3>3, <3>4
  <2>2. CASE p \notin X
    <3>1. \A y \in X : fnext[y] \in X
      BY <1>6, <1>10, <2>0, <2>2
    <3> QED BY <1>3, <1>10, <3>1
  <2> QED BY <2>1, <2>2
<1>11. nrFree' = Cardinality(OnFreelist \ {x})
  BY <1>0, <1>2, <1>5, FS_RemoveElement, FS_CardinalityType
<1> QED BY <1>7, <1>9, <1>10, <1>11 DEF RingInv

\* list_add_tail of an entry that is on no list.
LEMMA AddRing ==
    ASSUME TypeInv, RingInv, NEW x \in Bufs, x \notin OnFreelist, FreelistAdd(x)
    PROVE  RingInv' /\ OnFreelist' = OnFreelist \cup {x}
<1>0. /\ fnext \in [Nodes -> Nodes] /\ fprev \in [Nodes -> Nodes] /\ nrFree \in Int
      /\ Bufs \subseteq Nodes /\ 0 \in Nodes /\ 0 \notin Bufs /\ Nodes = Bufs \cup {0}
      /\ IsFiniteSet(OnFreelist) /\ OnFreelist = {y \in Bufs : fnext[y] # y}
  BY LinkType
<1>1. PICK p \in Nodes : p = fprev[0]
  BY <1>0
<1>2. /\ \A m \in Nodes : fprev[fnext[m]] = m /\ fnext[fprev[m]] = m
      /\ nrFree = Cardinality(OnFreelist)
  BY DEF RingInv
<1>3. \A X \in SUBSET OnFreelist : X # {} => \E y \in X : fnext[y] \notin X
  BY DEF RingInv
<1>4. x \in Nodes /\ x # 0 /\ fnext[x] = x /\ fprev[x] = x /\ fnext[p] = 0 /\ p # x
  BY <1>0, <1>1, <1>2
<1>5. /\ fprev' = [fprev EXCEPT ![0] = x, ![x] = p]
      /\ fnext' = [fnext EXCEPT ![x] = 0, ![p] = x] /\ nrFree' = nrFree + 1
  BY <1>1 DEF FreelistAdd, ListAddTail
<1>6. \A m \in Nodes : /\ fnext'[m] = IF m = x THEN 0 ELSE IF m = p THEN x ELSE fnext[m]
                       /\ fprev'[m] = IF m = x THEN p ELSE IF m = 0 THEN x ELSE fprev[m]
  BY <1>0, <1>4, <1>5
<1>7. \A m \in Nodes : fprev'[fnext'[m]] = m /\ fnext'[fprev'[m]] = m
  BY <1>0, <1>1, <1>2, <1>4, <1>6
<1>8. OnFreelist' = OnFreelist \cup {x}
  <2>1. OnFreelist' = {y \in Bufs : fnext'[y] # y}
    BY DEF OnFreelist, ListEmpty
  <2>2. \A y \in Bufs : fnext'[y] # y <=> fnext[y] # y \/ y = x
    BY <1>0, <1>4, <1>6
  <2> QED BY <1>0, <2>1, <2>2
<1>9. ASSUME NEW X \in SUBSET (OnFreelist \cup {x}), X # {}, \A y \in X : fnext'[y] \in X
      PROVE  FALSE
  <2>0. 0 \notin X /\ \A y \in X : y \in Nodes
    BY <1>0
  <2>1. x \notin X
    BY <1>4, <1>6, <1>9, <2>0
  <2>2. p \notin X
    BY <1>4, <1>6, <1>9, <2>0, <2>1
  <2>3. \A y \in X : fnext[y] \in X
    BY <1>6, <1>9, <2>0, <2>1, <2>2
  <2> QED BY <1>3, <1>9, <2>1, <2>3
<1>10. nrFree' = Cardinality(OnFreelist \cup {x})
  BY <1>0, <1>2, <1>5, FS_AddElement, FS_CardinalityType
<1> QED BY <1>7, <1>8, <1>9, <1>10 DEF RingInv

-----------------------------------------------------------------------------
(* The invariant holds at first, and nothing ever gets dirty. *)

LEMMA InitFree == Init => CleanInv /\ FreeInv
<1> SUFFICES ASSUME Init PROVE CleanInv /\ FreeInv
  OBVIOUS
<1>1. WB \notin Threads /\ WB \in Procs /\ Threads \subseteq Procs
  BY CacheConstants DEF Procs
<1>2. CleanInv
  BY <1>1 DEF Init, CleanInv
<1>3. OnFreelist = {} /\ nrFree = 0
  BY DEF Init, OnFreelist, ListEmpty, Nodes
<1>4. RingInv
  BY <1>3, FS_EmptySet DEF Init, RingInv
<1>5. PlaceInv
  BY <1>3 DEF Init, PlaceInv
<1>6. \A t \in Threads : pc[t] = "idle"
  BY <1>1 DEF Init
<1>7. \A t \in Threads : ClientInv(t)
  BY <1>6 DEF ClientInv, PointerLabels, UserLabels, LockLabels
<1> QED BY <1>2, <1>4, <1>5, <1>7 DEF FreeInv

\* Readers call neither fs_mark_buffer_dirty nor fs_bwrite, so that the
\* writeback thread never has anything to do.
LEMMA CleanStep ==
    ASSUME Reader, TypeInv, CleanInv, [Next]_vars
    PROVE  CleanInv'
<1>t. /\ pc \in [Procs -> PcLabels] /\ io \in [Bufs -> IoStates]
      /\ dirty \in [Bufs -> BOOLEAN] /\ op \in [Threads -> OpKinds]
  BY DEF TypeInv, TypeOK, BufType, SyncType, ThreadType
<1>0. Threads \subseteq Procs /\ WB \in Procs /\ WB \notin Threads
  BY CacheConstants DEF Procs
<1>1. \A x : RemoveFromWriteback(x) => UNCHANGED dirtyVars
  BY DEF CleanInv, RemoveFromWriteback, OnDirtyList
\* No step of a client gets at the buffer's data.
<1>2. ASSUME NEW t \in Threads, NEW l, Goto(t, l),
             l \notin {"modify", "set_uptodate", "set_dirty", "move"},
             UNCHANGED <<op, dirtyList>>,
             \A x \in Bufs : dirty'[x] => dirty[x],
             \A x \in Bufs : io'[x] = io[x] \/ io'[x] = "read"
      PROVE  CleanInv'
  BY <1>2, <1>0, <1>t DEF CleanInv, Goto, ReadStates
<1>3. ASSUME NEW t \in Threads,
             \/ Search(t) \/ Detach(t) \/ DetachLocked(t) \/ Alloc(t)
             \/ Insert(t) \/ LockBuffer(t) \/ TestUptodate(t)
             \/ SemWait(t) \/ Put(t) \/ Drop(t)
             \/ Pop(t) \/ Erase(t) \/ Free(t) \/ Attach(t) \/ AttachLocked(t)
      PROVE  CleanInv'
  BY <1>2, <1>3
     DEF Search, Detach, DetachLocked, Alloc, Insert, LockBuffer,
         TestUptodate, SemWait, Put, Drop, Pop, Erase, Free,
         Attach, AttachLocked, otherVars, listVars, dirtyVars, bufVars,
         syncVars
<1>4. ASSUME NEW t \in Threads, Unlist(t) \/ UnlistRead(t) PROVE CleanInv'
  <2>1. UNCHANGED dirtyVars
    BY <1>1, <1>4 DEF Unlist, UnlistRead
  <2> QED BY <1>2, <1>4, <2>1
          DEF Unlist, UnlistRead, otherVars, dirtyVars, bufVars, syncVars
<1>5. ASSUME NEW t \in Threads, ClearDirty(t) \/ SubmitRead(t) PROVE CleanInv'
  <2>1. \A x \in Bufs : dirty'[x] => dirty[x]
    BY <1>5, <1>t DEF ClearDirty, SubmitRead, bufVars
  <2>2. \A x \in Bufs : io'[x] = io[x] \/ io'[x] = "read"
    BY <1>5, <1>t DEF ClearDirty, SubmitRead, syncVars
  <2> QED BY <1>2, <1>5, <2>1, <2>2
          DEF ClearDirty, SubmitRead, otherVars, listVars
<1>6. ASSUME NEW t \in Threads, Get(t) \/ SemPost(t) \/ Release(t) PROVE CleanInv'
  <2>1. op[t] = "read" /\ t # WB
    BY <1>0 DEF CleanInv
  <2>2. Release(t) => Goto(t, "drop")
    <3> SUFFICES ASSUME Release(t) PROVE Goto(t, "drop")
      OBVIOUS
    <3>1. bh[t] \in Bufs
      BY <1>0, Deref DEF Release, PointerLabels
    <3> QED BY <3>1 DEF Release, Reclaimable, CleanInv
  <2>3. SemPost(t) => Goto(t, "put")
    BY <2>1 DEF SemPost
  <2>4. Get(t) => Goto(t, "lock")
    BY <2>1 DEF Get
  <2>5. UNCHANGED <<op, dirtyList, dirty, io>>
    BY <1>6 DEF Get, SemPost, Release, otherVars, listVars, bufVars, syncVars
  <2> QED BY <1>2, <1>6, <2>2, <2>3, <2>4, <2>5
<1>7. ASSUME NEW t \in Threads, Modify(t) \/ SetUptodate(t) \/ SetDirty(t) \/ Move(t)
      PROVE  FALSE
  BY <1>7 DEF CleanInv, Modify, SetUptodate, SetDirty, Move
<1>8. ASSUME NEW t \in Threads, Start(t) PROVE CleanInv'
  <2>1. PICK o \in Ops : op' = [op EXCEPT ![t] = o]
    BY <1>8 DEF Start
  <2>2. Goto(t, "search") /\ UNCHANGED <<dirty, io, dirtyList>>
    BY <1>8 DEF Start, bufVars, syncVars, listVars
  <2>3. o = "read"
    BY DEF Reader
  <2> QED BY <2>1, <2>2, <2>3, <1>0, <1>t DEF CleanInv, Goto
<1>9. CASE WritebackStep
  <2>1. Wake \/ First
    BY <1>9 DEF CleanInv, WritebackStep, TryLock, Check, GetWrite, SubmitWrite,
                SemWait, SemPost
  <2>2. \E l \in {"epoll", "first", "exited"} : Goto(WB, l)
    BY <2>1 DEF Wake, First, CleanInv
  <2>3. UNCHANGED <<dirty, io, dirtyList, op>>
    BY <2>1 DEF Wake, First, CleanInv, bufVars, syncVars, listVars, otherVars,
                dirtyVars
  <2> QED BY <2>2, <2>3, <1>0, <1>t DEF CleanInv, Goto
<1>10. ASSUME NEW x \in Bufs, IoStep(x) PROVE CleanInv'
  <2>1. \/ TransferRead(x) \/ EndUptodate(x) \/ EndPut(x) \/ EndUnlock(x) \/ EndPost(x)
    BY <1>10 DEF IoStep, CleanInv, ReadStates, TransferWrite, EndUnlist,
                 EndClear, EndAttach, EndAttachLocked
  <2>2. \E l \in ReadStates \cup {"none", "unlock", "end_post"} : IoGoto(x, l)
    BY <2>1 DEF TransferRead, EndUptodate, EndPut, EndUnlock, EndPost,
                CleanInv, ReadStates
  <2>3. UNCHANGED <<dirty, dirtyList, pc, op>>
    BY <2>1 DEF TransferRead, EndUptodate, EndPut, EndUnlock, EndPost,
                bufVars, listVars, otherVars
  <2> QED BY <2>2, <2>3, <1>t DEF CleanInv, IoGoto
<1>11. CASE NotifyExit \/ FreeStep \/ UNCHANGED vars
  BY <1>11 DEF CleanInv, NotifyExit, FreeStep, Join, FreeFirst, FreeDone,
               bufVars, syncVars, listVars, dirtyVars, otherVars, vars
<1>12. ASSUME NEW t \in Threads, ClientStep(t) PROVE CleanInv'
  BY <1>12, <1>3, <1>4, <1>5, <1>6, <1>7 DEF ClientStep
<1> QED BY <1>8, <1>9, <1>10, <1>11, <1>12 DEF Next, Terminated

-----------------------------------------------------------------------------
(* The free list, the tree and free(). *)

LEMMA FreelistStep ==
    ASSUME Reader, TypeInv, ExitInv, CleanInv, FreeInv, [Next]_vars
    PROVE  FreeInv'
<1>t. /\ pc \in [Procs -> PcLabels] /\ bh \in [Procs -> Nodes]
      /\ tree \in [Blocks -> Nodes] /\ blk \in [Bufs -> Blocks \cup {NULL}]
      /\ nalloc \in 0 .. MaxOps /\ arg \in [Threads -> Blocks \cup {0}]
      /\ victim \in [Threads -> Nodes] /\ MaxOps \in Nat
  BY CacheConstants DEF TypeInv, TypeOK, StoreType, ThreadType
<1>0. Threads \subseteq Procs /\ WB \in Procs /\ WB \notin Threads
  BY CacheConstants DEF Procs
<1>p. /\ \A t \in Threads : pc[t] \in PointerLabels => bh[t] \in 1 .. nalloc /\ bh[t] \in Bufs
      /\ \A b \in Blocks : tree[b] \in 0 .. nalloc
      /\ \A x \in 1 .. nalloc : blk[x] \in Blocks /\ x \in Bufs /\ x # NULL
      /\ \A t \in Threads : pc[t] # "idle" => arg[t] \in Blocks
  BY <1>0, <1>t DEF TypeInv, PointersOK, Bufs, NULL
<1>a. \A t, u \in Threads : t = u
  BY DEF Reader
<1>f. RingInv /\ PlaceInv /\ \A t \in Threads : ClientInv(t)
  BY DEF FreeInv
<1>r. UNCHANGED freeVars => RingInv' /\ OnFreelist' = OnFreelist
  BY <1>f DEF RingInv, freeVars, OnFreelist, ListEmpty
<1>u. \A t \in Threads : pc[t] # "idle" => phase # "done"
  BY DEF ExitInv
<1> DEFINE placeVars == <<tree, nalloc, freed, blk, bh, arg, victim, phase>>
\* The step of a client that leaves the lists, the tree and the buffers alone.
<1>1. ASSUME NEW t \in Threads, NEW l, Goto(t, l), UNCHANGED freeVars,
             UNCHANGED placeVars, ClientInv(t)'
      PROVE  FreeInv'
  <2>1. PlaceInv'
    BY <1>1, <1>r, <1>f DEF PlaceInv
  <2>2. \A u \in Threads : ClientInv(u)'
    BY <1>1, <1>a
  <2> QED BY <1>1, <1>r, <2>1, <2>2 DEF FreeInv
<1> DEFINE Later == PointerLabels \ {"detach", "detach_locked", "insert", "erase", "free"}
<1>2. ASSUME NEW t \in Threads, NEW l, Goto(t, l), UNCHANGED freeVars,
             UNCHANGED placeVars, pc[t] \in Later, l \in Later \cup {"idle"}
      PROVE  FreeInv'
  <2>1. pc'[t] = l
    BY <1>2, <1>0, <1>t DEF Goto
  <2>2. ClientInv(t)
    BY <1>f
  <2>3. l \notin {"alloc", "insert", "detach", "detach_locked", "erase", "free"}
    BY <1>2 DEF PointerLabels, UserLabels, LockLabels
  <2>4. "idle" \notin PointerLabels
    BY DEF PointerLabels, UserLabels, LockLabels
  <2>5. ClientInv(t)'
    BY <1>2, <1>r, <2>1, <2>2, <2>3, <2>4 DEF ClientInv
  <2> QED BY <1>1, <1>2, <2>5
<1>3. ASSUME NEW t \in Threads,
             \/ Unlist(t) \/ Get(t) \/ LockBuffer(t) \/ TestUptodate(t)
             \/ ClearDirty(t) \/ UnlistRead(t) \/ SubmitRead(t) \/ SemWait(t)
      PROVE  FreeInv'
  BY <1>2, <1>3
     DEF Unlist, Get, LockBuffer, TestUptodate, ClearDirty, UnlistRead,
         SubmitRead, SemWait, storeVars, otherVars, listVars, freeVars,
         PointerLabels, UserLabels, LockLabels
<1>4. ASSUME NEW t \in Threads,
             \/ Modify(t) \/ SetUptodate(t) \/ SetDirty(t) \/ Put(t)
             \/ Release(t) \/ Move(t) \/ Drop(t) \/ Attach(t)
      PROVE  FreeInv'
  BY <1>2, <1>4
     DEF Modify, SetUptodate, SetDirty, Put, Release, Move, Drop, Attach,
         storeVars, otherVars, listVars, freeVars, PointerLabels, UserLabels
<1>5. ASSUME NEW t \in Threads, SemPost(t) PROVE FreeInv'
  <2>1. Goto(t, "put") \/ Goto(t, "modify")
    BY <1>0, <1>5 DEF SemPost
  <2> QED BY <1>2, <1>5, <2>1
          DEF SemPost, storeVars, otherVars, listVars, freeVars, PointerLabels, UserLabels
<1>6. ASSUME NEW t \in Threads, Start(t) PROVE FreeInv'
  <2>1. /\ pc[t] = "idle" /\ Goto(t, "search") /\ UNCHANGED freeVars
        /\ UNCHANGED <<tree, nalloc, freed, blk, bh, victim, phase>>
    BY <1>6 DEF Start, storeVars, listVars, freeVars
  <2>2. pc'[t] = "search"
    BY <2>1, <1>0, <1>t DEF Goto
  <2>3. ClientInv(t)'
    BY <2>2 DEF ClientInv, PointerLabels, UserLabels, LockLabels
  <2>4. PlaceInv'
    BY <2>1, <1>r, <1>f DEF PlaceInv
  <2> QED BY <2>1, <2>3, <2>4, <1>a, <1>r DEF FreeInv
<1>7. ASSUME NEW t \in Threads, Search(t) PROVE FreeInv'
  <2>1. /\ pc[t] = "search" /\ UNCHANGED freeVars
        /\ UNCHANGED <<tree, nalloc, freed, blk, arg, victim, phase>>
        /\ bh' = [bh EXCEPT ![t] = tree[arg[t]]]
        /\ pc' = [pc EXCEPT ![t] = IF tree[arg[t]] # NULL THEN "detach" ELSE "alloc"]
    BY <1>7 DEF Search, Goto, storeVars, listVars, freeVars, otherVars
  <2>2. arg[t] \in Blocks
    BY <2>1, <1>p
  <2>3. bh'[t] = tree[arg[t]] /\ pc'[t] = IF tree[arg[t]] # NULL THEN "detach" ELSE "alloc"
    BY <2>1, <1>0, <1>t
  <2>4. ClientInv(t)'
    BY <2>1, <2>2, <2>3, <1>f
       DEF ClientInv, PlaceInv, PointerLabels, UserLabels, LockLabels
  <2>5. PlaceInv'
    BY <2>1, <1>r, <1>f DEF PlaceInv
  <2> QED BY <2>1, <2>4, <2>5, <1>a, <1>r DEF FreeInv
<1>8. ASSUME NEW t \in Threads, Detach(t) PROVE FreeInv'
  <2>1. PICK l : /\ l = IF ListEmpty(bh[t]) THEN "unlist" ELSE "detach_locked"
                 /\ pc[t] = "detach" /\ Goto(t, l)
                 /\ UNCHANGED freeVars /\ UNCHANGED placeVars
    BY <1>8 DEF Detach, storeVars, listVars, freeVars, otherVars
  <2>2. pc'[t] = l
    BY <2>1, <1>0, <1>t DEF Goto
  <2>3. bh[t] \in Bufs
    BY <2>1, <1>p DEF PointerLabels
  <2>4. l = IF bh[t] \in OnFreelist THEN "detach_locked" ELSE "unlist"
    BY <2>1, <2>3 DEF OnFreelist
  <2>5. ClientInv(t)'
    BY <2>1, <2>2, <2>4, <1>f, <1>r
       DEF ClientInv, PointerLabels, UserLabels, LockLabels
  <2> QED BY <1>1, <2>1, <2>5
<1>9. ASSUME NEW t \in Threads, DetachLocked(t) PROVE FreeInv'
  <2>1. /\ pc[t] = "detach_locked" /\ Goto(t, "unlist") /\ FreelistDel(bh[t])
        /\ UNCHANGED placeVars
    BY <1>9 DEF DetachLocked, storeVars, otherVars
  <2>2. pc'[t] = "unlist"
    BY <2>1, <1>0, <1>t DEF Goto
  <2>3. PICK x \in OnFreelist : x = bh[t]
    BY <2>1, <1>f DEF ClientInv
  <2>4. RingInv' /\ OnFreelist' = OnFreelist \ {x}
    BY <2>1, <2>3, <1>f, DelRing
  <2>5. ClientInv(t)'
    BY <2>1, <2>2, <2>3, <2>4, <1>f
       DEF ClientInv, PointerLabels, UserLabels, LockLabels
  <2>6. PlaceInv'
    BY <2>1, <2>4, <1>f DEF PlaceInv
  <2> QED BY <2>4, <2>5, <2>6, <1>a DEF FreeInv
<1>10. ASSUME NEW t \in Threads, AttachLocked(t) PROVE FreeInv'
  <2>1. /\ pc[t] = "attach_locked" /\ Goto(t, "idle") /\ FreelistAdd(bh[t])
        /\ UNCHANGED placeVars
    BY <1>10 DEF AttachLocked, storeVars, otherVars
  <2>2. pc'[t] = "idle"
    BY <2>1, <1>0, <1>t DEF Goto
  <2>3. ClientInv(t) /\ pc[t] \in PointerLabels
    BY <2>1, <1>f DEF PointerLabels
  <2>4. PICK x \in Bufs : /\ x = bh[t] /\ x \notin OnFreelist
                          /\ x \in 1 .. nalloc /\ tree[blk[x]] = x
    BY <2>1, <2>3, <1>p DEF ClientInv
  <2>5. RingInv' /\ OnFreelist' = OnFreelist \cup {x}
    BY <2>1, <2>4, <1>f, AddRing
  <2>6. ClientInv(t)'
    BY <2>2 DEF ClientInv, PointerLabels, UserLabels, LockLabels
  <2>7. PICK f : f = OnFreelist'
    OBVIOUS
  <2>8. \A y \in f : y \in 1 .. nalloc /\ tree[blk[y]] = y
    BY <2>4, <2>5, <2>7, <1>f DEF PlaceInv
  <2>9. PlaceInv'
    BY <2>1, <2>7, <2>8, <1>f DEF PlaceInv
  <2> QED BY <2>5, <2>6, <2>9, <1>a DEF FreeInv
<1>11. ASSUME NEW t \in Threads, Alloc(t) PROVE FreeInv'
  <2>1. /\ pc[t] = "alloc" /\ Goto(t, "insert") /\ UNCHANGED freeVars
        /\ UNCHANGED <<tree, freed, arg, victim, phase>>
        /\ nalloc' = nalloc + 1 /\ nalloc < MaxOps
        /\ bh' = [bh EXCEPT ![t] = nalloc + 1]
        /\ blk' = [blk EXCEPT ![nalloc + 1] = arg[t]]
    BY <1>11 DEF Alloc, listVars, freeVars
  <2>2. arg[t] \in Blocks /\ tree[arg[t]] = NULL
    BY <2>1, <1>p, <1>f DEF ClientInv
  <2>3. nalloc + 1 \in Bufs /\ nalloc \in Nat /\ nalloc + 1 \notin 1 .. nalloc
    BY <2>1, <1>t DEF Bufs
  <2>4. pc'[t] = "insert" /\ bh'[t] = nalloc + 1 /\ blk'[nalloc + 1] = arg[t]
    BY <2>1, <2>3, <1>0, <1>t DEF Goto
  <2>5. \A x \in 1 .. nalloc : blk'[x] = blk[x] /\ x \in 1 .. nalloc'
    BY <2>1, <2>3, <1>t DEF Bufs
  <2>6. OnFreelist' = OnFreelist /\ OnFreelist \subseteq 1 .. nalloc /\ freed \subseteq 1 .. nalloc
    BY <2>1, <1>r, <1>f DEF PlaceInv
  <2>7. \A b \in Blocks : tree[b] # NULL => tree[b] \in 1 .. nalloc
    BY <1>p, <2>3 DEF NULL
  <2>8. PlaceInv'
    BY <2>1, <2>5, <2>6, <2>7, <1>f DEF PlaceInv
  <2>9. ClientInv(t)'
    BY <2>1, <2>2, <2>3, <2>4, <2>6 DEF ClientInv
  <2> QED BY <2>1, <2>8, <2>9, <1>a, <1>r DEF FreeInv
<1>12. ASSUME NEW t \in Threads, Insert(t) PROVE FreeInv'
  <2>1. /\ pc[t] = "insert" /\ Goto(t, "get") /\ UNCHANGED freeVars
        /\ UNCHANGED <<nalloc, freed, blk, bh, arg, victim, phase>>
    BY <1>12 DEF Insert, listVars, freeVars, otherVars
  <2>2. ClientInv(t) /\ pc[t] \in PointerLabels /\ phase # "done"
    BY <2>1, <1>f, <1>u DEF PointerLabels
  <2>3. /\ arg[t] \in Blocks /\ tree[arg[t]] = NULL /\ blk[bh[t]] = arg[t]
        /\ bh[t] \in 1 .. nalloc /\ bh[t] \notin freed
    BY <2>1, <2>2, <1>p DEF ClientInv
  <2>4. tree' = [tree EXCEPT ![arg[t]] = bh[t]]
    BY <1>12, <2>3 DEF Insert
  <2>5. tree'[arg[t]] = bh[t] /\ \A b \in Blocks : b # arg[t] => tree'[b] = tree[b]
    BY <2>3, <2>4, <1>t
  <2>6. pc'[t] = "get"
    BY <2>1, <1>0, <1>t DEF Goto
  <2>7. \A x \in OnFreelist : blk[x] \in Blocks /\ blk[x] # arg[t]
    BY <2>3, <1>f, <1>p DEF PlaceInv
  <2>8. PlaceInv'
    BY <2>1, <2>2, <2>3, <2>5, <2>7, <1>f, <1>r DEF PlaceInv
  <2>9. bh[t] \notin OnFreelist
    BY <2>1, <2>2 DEF ClientInv
  <2>10. ClientInv(t)'
    BY <2>1, <2>3, <2>5, <2>6, <2>9, <1>r DEF ClientInv
  <2> QED BY <2>1, <2>8, <2>10, <1>a, <1>r DEF FreeInv
<1>13. ASSUME NEW t \in Threads, Pop(t) PROVE FreeInv'
  <2>1. /\ pc[t] = "pop" /\ pc[t] \in PointerLabels
        /\ UNCHANGED <<tree, nalloc, freed, blk, bh, arg, phase>>
    BY <1>13 DEF Pop, storeVars, PointerLabels
  <2>2. CASE ListEmpty(0) /\ Goto(t, "drop") /\ UNCHANGED <<freeVars, victim>>
    BY <2>1, <2>2, <1>2 DEF PointerLabels
  <2>3. CASE /\ ~ListEmpty(0) /\ victim' = [victim EXCEPT ![t] = fnext[0]]
             /\ FreelistDel(fnext[0]) /\ Goto(t, "erase")
    <3>1. PICK x \in OnFreelist : x = fnext[0]
      BY <2>3, <1>f, LinkType DEF RingInv, ListEmpty
    <3>2. /\ x \in 1 .. nalloc /\ tree[blk[x]] = x /\ x \notin freed
      BY <1>f, <1>p DEF PlaceInv
    <3>3. RingInv' /\ OnFreelist' = OnFreelist \ {x}
      BY <2>3, <3>1, <1>f, DelRing
    <3>4. pc'[t] = "erase" /\ victim'[t] = x
      BY <2>3, <3>1, <1>0, <1>t DEF Goto
    <3>5. ClientInv(t)
      BY <1>f
    <3>6. bh[t] # x /\ bh[t] \notin OnFreelist
      BY <2>1, <3>5 DEF ClientInv
    <3>7. VictimInv(t)'
      BY <2>1, <3>2, <3>3, <3>4, <3>6 DEF VictimInv
    <3>8. ClientInv(t)'
      BY <2>1, <3>3, <3>4, <3>5, <3>6, <3>7 DEF ClientInv
    <3>9. PlaceInv'
      BY <2>1, <3>3, <1>f DEF PlaceInv
    <3> QED BY <3>3, <3>8, <3>9, <1>a DEF FreeInv
  <2> QED BY <1>13, <2>2, <2>3 DEF Pop
<1>14. ASSUME NEW t \in Threads, Erase(t) PROVE FreeInv'
  <2>1. /\ pc[t] = "erase" /\ pc[t] \in PointerLabels /\ Goto(t, "free")
        /\ UNCHANGED freeVars
        /\ UNCHANGED <<nalloc, freed, blk, bh, arg, victim, phase>>
    BY <1>14 DEF Erase, listVars, freeVars, otherVars, PointerLabels
  <2>2. ClientInv(t) /\ VictimInv(t) /\ arg[t] \in Blocks
    BY <2>1, <1>f, <1>p DEF ClientInv
  <2>3. PICK v : /\ v = victim[t] /\ v \in 1 .. nalloc \ freed /\ v # bh[t]
                 /\ v \notin OnFreelist /\ tree[blk[v]] = v /\ blk[v] \in Blocks /\ v # NULL
    BY <2>1, <2>2, <1>p DEF VictimInv
  <2>4. tree' = [tree EXCEPT ![blk[v]] = NULL]
    BY <1>14, <2>3 DEF Erase, RbErase
  <2>5. tree'[blk[v]] = NULL /\ \A b \in Blocks : b # blk[v] => tree'[b] = tree[b]
    BY <2>3, <2>4, <1>t
  <2>6. pc'[t] = "free"
    BY <2>1, <1>0, <1>t DEF Goto
  <2>7. \A b \in Blocks : tree'[b] # v
    BY <2>3, <2>5, <1>f DEF PlaceInv
  <2>8. OnFreelist' = OnFreelist /\ RingInv'
    BY <2>1, <1>r
  <2>9. \A x \in OnFreelist : blk[x] \in Blocks /\ blk[x] # blk[v]
    BY <2>3, <1>f, <1>p DEF PlaceInv
  <2>10. PlaceInv'
    BY <2>1, <2>5, <2>8, <2>9, <1>f DEF PlaceInv
  <2>11. tree[arg[t]] = bh[t] /\ arg[t] # blk[v] /\ bh[t] \notin OnFreelist
    BY <2>1, <2>2, <2>3 DEF ClientInv
  <2>12. VictimInv(t)'
    BY <2>1, <2>3, <2>6, <2>7, <2>8 DEF VictimInv
  <2>13. ClientInv(t)'
    BY <2>1, <2>2, <2>5, <2>6, <2>8, <2>11, <2>12 DEF ClientInv
  <2> QED BY <2>8, <2>10, <2>13, <1>a DEF FreeInv
<1>15. ASSUME NEW t \in Threads, Free(t) PROVE FreeInv'
  <2>1. /\ pc[t] = "free" /\ pc[t] \in PointerLabels /\ Goto(t, "drop")
        /\ UNCHANGED freeVars /\ freed' = freed \cup {victim[t]}
        /\ UNCHANGED <<tree, nalloc, blk, bh, arg, victim, phase>>
    BY <1>15 DEF Free, listVars, freeVars, otherVars, PointerLabels
  <2>2. ClientInv(t) /\ VictimInv(t)
    BY <2>1, <1>f DEF ClientInv
  <2>3. PICK v : /\ v = victim[t] /\ v \in 1 .. nalloc /\ v # bh[t]
                 /\ \A b \in Blocks : tree[b] # v
    BY <2>1, <2>2 DEF VictimInv
  <2>4. pc'[t] = "drop"
    BY <2>1, <1>0, <1>t DEF Goto
  <2>5. OnFreelist' = OnFreelist /\ RingInv'
    BY <2>1, <1>r
  <2>6. PlaceInv'
    BY <2>1, <2>3, <2>5, <1>f DEF PlaceInv
  <2>7. ClientInv(t)'
    BY <2>1, <2>2, <2>3, <2>4, <2>5 DEF ClientInv
  <2> QED BY <2>5, <2>6, <2>7, <1>a DEF FreeInv
\* The writeback thread and the callbacks touch neither the free list nor the tree.
<1>16. ASSUME \A t \in Threads : pc'[t] = pc[t] /\ bh'[t] = bh[t], UNCHANGED freeVars,
              UNCHANGED <<tree, nalloc, freed, blk, arg, victim>>,
              phase' = phase \/ phase' # "done"
       PROVE  FreeInv'
  <2>1. \A t \in Threads : ClientInv(t)'
    BY <1>16, <1>f, <1>r DEF ClientInv, VictimInv
  <2>2. PlaceInv'
    BY <1>16, <1>f, <1>r DEF PlaceInv
  <2> QED BY <1>16, <2>1, <2>2, <1>r DEF FreeInv
<1>17. CASE WritebackStep
  <2>1. UNCHANGED freeVars /\ UNCHANGED <<tree, nalloc, freed, blk, arg, victim, phase>>
    BY <1>17 DEF WritebackStep, Wake, First, TryLock, Check, GetWrite,
                 SubmitWrite, SemWait, SemPost, storeVars, otherVars, listVars, freeVars
  <2>2. /\ \E l : pc' = [pc EXCEPT ![WB] = l]
        /\ bh' = bh \/ \E y : bh' = [bh EXCEPT ![WB] = y]
    BY <1>17 DEF WritebackStep, Wake, First, TryLock, Check, GetWrite,
                 SubmitWrite, SemWait, SemPost, Goto
  <2>3. \A t \in Threads : pc'[t] = pc[t] /\ bh'[t] = bh[t]
    BY <2>2, <1>0, <1>t
  <2> QED BY <2>1, <2>3, <1>16
<1>18. ASSUME NEW x \in Bufs, IoStep(x) PROVE FreeInv'
  <2>1. ~EndAttachLocked(x)
    BY DEF CleanInv, EndAttachLocked, ReadStates
  <2> QED BY <1>16, <1>18, <2>1
          DEF IoStep, TransferRead, TransferWrite, EndUptodate, EndPut,
              EndUnlist, EndClear, EndAttach, EndUnlock, EndPost,
              otherVars, storeVars, listVars, freeVars
<1>19. CASE NotifyExit \/ Join \/ UNCHANGED vars
  BY <1>16, <1>19 DEF NotifyExit, Join, vars, storeVars, listVars, freeVars
<1>20. CASE FreeDone
  <2>1. \A t \in Threads : ClientInv(t)'
    BY <1>20, <1>f, <1>r
       DEF FreeDone, ClientInv, VictimInv, storeVars, listVars, freeVars
  <2>2. PlaceInv'
    BY <1>20, <1>f, <1>r DEF FreeDone, PlaceInv, storeVars, listVars, freeVars
  <2> QED BY <1>20, <2>1, <2>2, <1>r DEF FreeInv, FreeDone, listVars, freeVars
<1>21. CASE FreeFirst
  <2>1. PICK b \in Blocks :
          /\ tree[b] # NULL
          /\ IF ListEmpty(tree[b]) THEN UNCHANGED freeVars ELSE FreelistDel(tree[b])
          /\ RbErase(tree[b])
          /\ freed' = freed \cup {tree[b]}
    BY <1>21 DEF FreeFirst
  <2>2. PICK x : /\ x = tree[b] /\ x \in 1 .. nalloc /\ x \in Bufs /\ blk[x] = b
                 /\ x # NULL
    BY <2>1, <1>f, <1>p, <1>t DEF PlaceInv, NULL, Bufs
  <2>3. /\ phase = "freeing" /\ UNCHANGED <<nalloc, blk, bh, arg, victim, phase, pc>>
    BY <1>21 DEF FreeFirst, otherVars
  <2>4. RingInv' /\ OnFreelist' = OnFreelist \ {x}
    <3>1. CASE x \in OnFreelist
      BY <2>1, <2>2, <3>1, <1>f, DelRing DEF OnFreelist
    <3>2. CASE x \notin OnFreelist
      BY <2>1, <2>2, <3>2, <1>r DEF OnFreelist
    <3> QED BY <3>1, <3>2
  <2>5. tree' = [tree EXCEPT ![b] = NULL]
    BY <2>1, <2>2 DEF RbErase
  <2>6. tree'[b] = NULL /\ \A c \in Blocks : c # b => tree'[c] = tree[c]
    BY <2>5, <1>t
  <2>7. \A c \in Blocks : tree'[c] # x
    BY <2>2, <2>6, <1>f DEF PlaceInv
  <2>8. \A y \in OnFreelist \ {x} : blk[y] \in Blocks /\ blk[y] # b
    BY <2>2, <1>f, <1>p DEF PlaceInv
  <2>9. PlaceInv'
    <3>1. freed' = freed \cup {x}
      BY <2>1, <2>2
    <3>2. freed' \subseteq 1 .. nalloc
      BY <2>2, <3>1, <1>f DEF PlaceInv
    <3>3. \A c \in Blocks : tree'[c] # NULL => blk[tree'[c]] = c /\ tree'[c] \notin freed'
      BY <2>6, <2>7, <3>1, <1>f DEF PlaceInv
    <3>4. PICK f : f = OnFreelist'
      OBVIOUS
    <3>5. \A y \in f : y \in 1 .. nalloc /\ tree'[blk[y]] = y
      BY <2>4, <2>6, <2>8, <3>4, <1>f DEF PlaceInv
    <3> QED BY <2>3, <3>2, <3>3, <3>4, <3>5 DEF PlaceInv
  <2>10. \A t \in Threads : pc'[t] = "idle"
    BY <2>3 DEF ExitInv
  <2>11. \A t \in Threads : ClientInv(t)'
    BY <2>10 DEF ClientInv, PointerLabels, UserLabels, LockLabels
  <2> QED BY <2>4, <2>9, <2>11 DEF FreeInv
<1>22. ASSUME NEW t \in Threads, ClientStep(t) PROVE FreeInv'
  BY <1>22, <1>3, <1>4, <1>5, <1>7, <1>8, <1>9, <1>10, <1>11, <1>12, <1>13,
     <1>14, <1>15 DEF ClientStep
<1> QED BY <1>6, <1>17, <1>18, <1>19, <1>20, <1>21, <1>22
        DEF Next, FreeStep, Terminated

-----------------------------------------------------------------------------
LEMMA FreeInvariance ==
    ASSUME Reader PROVE Spec => [](TypeInv /\ SemInv /\ ExitInv /\ CleanInv /\ FreeInv)
<1>0. Alone
  BY DEF Reader, Alone, OpKinds
<1>1. TypeInv /\ CleanInv /\ [Next]_vars => CleanInv'
  BY CleanStep
<1>2. TypeInv /\ ExitInv /\ CleanInv /\ FreeInv /\ [Next]_vars => FreeInv'
  BY FreelistStep
<1>3. Spec => [](ExitInv /\ TransferInv /\ QueueInv)
  BY <1>0, TransferInvariance
<1> QED BY TypeInvariance, SemInvariance, <1>1, <1>2, <1>3, InitFree, PTL DEF Spec

\* With one worker that reads, the free list is a ring through bd_bh_free,
\* bd_nr_free is its length, and bdev_free leaves nothing on it:
\* attach_bh_to_freelist, detach_bh_from_freelist and
\* remove_first_bh_from_freelist agree on what is listed.
THEOREM FreelistKept == ASSUME Reader PROVE Spec => []FreelistSound
<1>1. TypeInv /\ FreeInv => FreelistSound
  <2> SUFFICES ASSUME TypeInv, FreeInv PROVE FreelistSound
    OBVIOUS
  <2>1. RingInv /\ PlaceInv
    BY DEF FreeInv
  <2>2. phase = "done" => OnFreelist = {}
    BY <2>1 DEF PlaceInv, TypeInv, PointersOK, NULL
  <2>3. phase = "done" => nrFree = 0
    BY <2>1, <2>2, FS_EmptySet DEF RingInv
  <2> QED BY <2>1, <2>3 DEF RingInv, FreelistSound, NoneLeft
<1> QED BY FreeInvariance, <1>1, PTL

\* With one worker that reads, buffer_free gives back only what nothing refers
\* to any more: no thread, no transfer, no dirty list and no tree.
THEOREM NothingFreedUsed == ASSUME Reader PROVE Spec => []NoUseAfterFree
<1>1. TypeInv /\ SemInv /\ CleanInv /\ FreeInv => NoUseAfterFree
  <2> SUFFICES ASSUME TypeInv, SemInv, CleanInv, FreeInv PROVE NoUseAfterFree
    OBVIOUS
  <2>1. PlaceInv /\ \A t \in Threads : ClientInv(t)
    BY DEF FreeInv
  <2>2. \A a \in Procs : pc[a] \in PointerLabels => a \in Threads
    BY DEF Procs, CleanInv, PointerLabels, UserLabels, LockLabels
  <2>3. \A a \in Procs : pc[a] \in PointerLabels => bh[a] \notin freed
    BY <2>1, <2>2 DEF ClientInv
  <2>4. \A t \in Threads : pc[t] \in {"erase", "free"} => victim[t] \notin freed
    BY <2>1 DEF ClientInv, VictimInv
  <2>5. ASSUME NEW x \in freed PROVE io[x] = "none" /\ ~OnDirtyList(x)
    <3>1. x \in Bufs
      BY <2>1, CacheConstants DEF PlaceInv, TypeInv, TypeOK, StoreType, Bufs
    <3>2. io[x] # "none" => \E a \in Procs : bh[a] = x /\ pc[a] = "wait"
      BY <3>1 DEF SemInv, WaitInv
    <3>3. io[x] = "none"
      BY <2>3, <3>2 DEF PointerLabels, UserLabels
    <3> QED BY <3>3 DEF CleanInv, OnDirtyList
  <2>6. \A b \in Blocks : tree[b] \notin freed
    BY <2>1, CacheConstants DEF PlaceInv, TypeInv, TypeOK, StoreType, NULL
  <2> QED BY <2>3, <2>4, <2>5, <2>6 DEF NoUseAfterFree
<1> QED BY FreeInvariance, <1>1, PTL
=============================================================================
