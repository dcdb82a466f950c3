-------------------------- MODULE BufferCacheData --------------------------
(***************************************************************************)
(* What a single client (the -s mount) that reads and updates blocks is    *)
(* promised, proved for any number of blocks and operations: it reads what *)
(* it last wrote, nothing that the device does not have yet is forgotten,  *)
(* and the cache implements CachedDisk.  Two hypotheses are needed, as     *)
(* the counterexamples without them show: the free list never exceeds its  *)
(* limit (WithinLimit), so that no buffer is dropped, and the device       *)
(* transfers what it is asked to.                                          *)
(***************************************************************************)
EXTENDS BufferCacheEvents

\* One worker, and nobody calls fs_bwrite.
Alone == (\A t, u \in Threads : t = u) /\ "overwrite" \notin Ops

\* try_to_drop_buffers finds nothing to do.
WithinLimit == nrFree <= FreeThreshold

-----------------------------------------------------------------------------
(* The inductive invariant. *)

\* bdev_free: the workers are gone when it begins, and the writeback thread
\* ends only when it was told to and has nothing left to do.
ExitInv ==
    /\ phase # "up" => \A t \in Threads : pc[t] = "idle"
    /\ \A i \in DOMAIN pipe : pipe[i] = -1 => phase # "up"
    /\ command = -1 => phase # "up"
    /\ pc[WB] = "exited" => dirtyList = <<>> /\ phase # "up"
    /\ phase \in {"freeing", "done"} => pc[WB] = "exited"

\* A block has one buffer, the one that the tree finds, and it is the one that
\* the client works on.
TreeInv ==
    /\ \A b \in Blocks : tree[b] # NULL => blk[tree[b]] = b
    /\ \A x \in 1 .. nalloc :
          \/ tree[blk[x]] = x
          \/ \E t \in Threads : pc[t] = "insert" /\ bh[t] = x
          \/ phase \in {"freeing", "done"}
    /\ \A t \in Threads : pc[t] \in PointerLabels => blk[bh[t]] = arg[t]
    /\ \A t \in Threads : pc[t] \in {"alloc", "insert"} => tree[arg[t]] = NULL
    /\ \A t \in Threads : pc[t] \notin {"pop", "erase", "free"}
    /\ \A x \in Bufs : uptodate[x] => x <= nalloc

\* While a buffer is written no client is past lock_buffer with it, and while
\* it is read, the client waits for it.
WriteStates == {"write", "w_uptodate", "w_put", "w_unlist", "w_clear"}
ReadStates  == {"read", "r_uptodate", "r_put"}
Writes(x) == \/ io[x] \in WriteStates
             \/ bh[WB] = x /\ pc[WB] \in {"get_write", "submit_write"}

TransferInv ==
    /\ \A t \in Threads : op[t] # "overwrite"
    /\ \A t \in Threads : pc[t] \in {"modify", "set_uptodate"} => uptodate[bh[t]]
    /\ \A t \in Threads : pc[t] \in ReadLabels => ~uptodate[bh[t]]
    /\ \A x \in Bufs : io[x] \in {"read", "r_uptodate"} => ~uptodate[x]
    /\ \A x \in Bufs : io[x] \in WriteStates => uptodate[x]
    /\ \A x \in Bufs : Writes(x) =>
          \A t \in Threads : bh[t] = x => pc[t] \notin UserLabels \ {"lock"}
    /\ \A x \in Bufs : io[x] \in ReadStates =>
          \E t \in Threads : bh[t] = x /\ pc[t] = "wait"

\* A buffer that is BH_Dirty is queued, or somebody has it who will write or
\* queue it.
KeepLabels == UserLabels \cup {"get", "release", "move"}
Keeps(x) == \/ io[x] \in WriteStates
            \/ bh[WB] = x /\ pc[WB] \in {"trylock", "check", "get_write", "submit_write"}
            \/ \E t \in Threads : bh[t] = x /\ pc[t] \in KeepLabels

QueueInv == \A x \in Bufs : dirty[x] => OnDirtyList(x) \/ Keeps(x)

\* Where the newest contents of a block are.
Changing(x) == \E t \in Threads : bh[t] = x /\ pc[t] \in {"set_uptodate", "set_dirty"}

ContentInv ==
    /\ \A x \in 1 .. nalloc :
          uptodate[x] \/ io[x] = "r_uptodate" => data[x] = latest[blk[x]]
    /\ \A x \in 1 .. nalloc :
          \/ dirty[x] /\ io[x] \notin WriteStates \ {"write"}
          \/ Changing(x)
          \/ disk[blk[x]] = latest[blk[x]]
    /\ \A b \in Blocks : tree[b] = NULL => disk[b] = latest[b]

-----------------------------------------------------------------------------
(* bdev_free. *)

\* NotifyExit needs idle workers, First lets the writeback thread end only with
\* the exit byte and an empty list, and Join waits for it.
LEMMA ExitStep == TypeInv /\ LabelInv /\ ExitInv /\ [Next]_vars => ExitInv'
<1> SUFFICES ASSUME TypeInv, LabelInv, ExitInv, [Next]_vars PROVE ExitInv'
  OBVIOUS
<1>t. /\ pc \in [Procs -> PcLabels] /\ pipe \in Seq({1, -1})
      /\ command \in {-1, 0, 1} /\ dirtyList \in Seq(Bufs)
      /\ phase \in {"up", "joining", "freeing", "done"}
  BY DEF TypeInv, TypeOK, ThreadType, ListType
<1>0. Threads \subseteq Procs /\ WB \in Procs /\ WB \notin Threads
  BY CacheConstants DEF Procs
<1>1. ASSUME NEW t \in Threads, Start(t) \/ ClientStep(t) PROVE ExitInv'
  <2>1. phase = "up" /\ phase' = phase
    <3>1. CASE Start(t)
      BY <3>1 DEF Start
    <3>2. CASE ClientStep(t)
      <4>1. pc[t] # "idle" /\ phase' = phase
        BY <3>2 DEF ClientStep, Search, Detach, DetachLocked, Unlist, Alloc,
             Insert, Get, LockBuffer, TestUptodate, ClearDirty, UnlistRead,
             SubmitRead, SemWait, SemPost, Modify, SetUptodate, SetDirty, Put,
             Release, Move, Drop, Pop, Erase, Free, Attach, AttachLocked,
             otherVars
      <4> QED BY <4>1 DEF ExitInv
    <3> QED BY <1>1, <3>1, <3>2
  <2>2. command' = command /\ (pipe' = pipe \/ pipe' = Append(pipe, 1))
    BY <1>1 DEF Start, ClientStep, Search, Detach, DetachLocked, Unlist, Alloc,
         Insert, Get, LockBuffer, TestUptodate, ClearDirty, UnlistRead,
         SubmitRead, SemWait, SemPost, Modify, SetUptodate, SetDirty, Put,
         Release, Move, Drop, Pop, Erase, Free, Attach, AttachLocked, otherVars
  <2>3. \A i \in DOMAIN pipe' : pipe'[i] # -1
    BY <2>1, <2>2, <1>t DEF ExitInv
  <2>4. pc'[WB] = pc[WB]
    <3>1. \E l : pc' = [pc EXCEPT ![t] = l]
      BY <1>1 DEF Start, ClientStep, Search, Detach, DetachLocked, Unlist,
           Alloc, Insert, Get, LockBuffer, TestUptodate, ClearDirty,
           UnlistRead, SubmitRead, SemWait, SemPost, Modify, SetUptodate,
           SetDirty, Put, Release, Move, Drop, Pop, Erase, Free, Attach,
           AttachLocked, Goto
    <3> QED BY <3>1, <1>0, <1>t
  <2> QED BY <2>1, <2>2, <2>3, <2>4 DEF ExitInv
<1>2. ASSUME UNCHANGED <<phase, pipe, command>>, pc'[WB] = pc[WB],
             \A t \in Threads : pc'[t] = pc[t],
             dirtyList' = dirtyList \/ \E x : RemoveFromWriteback(x)
      PROVE  ExitInv'
  <2>1. dirtyList = <<>> => dirtyList' = <<>>
    BY <1>2 DEF RemoveFromWriteback, OnDirtyList, dirtyVars
  <2> QED BY <1>2, <2>1 DEF ExitInv
<1>3. ASSUME NEW x \in Bufs, IoStep(x) PROVE ExitInv'
  BY <1>2, <1>3 DEF IoStep, TransferRead, TransferWrite, EndUptodate, EndPut,
       EndUnlist, EndClear, EndAttach, EndAttachLocked, EndUnlock, EndPost,
       otherVars, listVars, dirtyVars
<1>4. CASE Wake
  <2>1. /\ \A t \in Threads : pc'[t] = pc[t]
        /\ pc[WB] = "epoll" /\ pc'[WB] = "first" /\ UNCHANGED <<phase, dirtyList>>
    BY <1>4, <1>0, <1>t DEF Wake, Goto, listVars
  <2>2. /\ command' = -1 => phase # "up"
        /\ \A i \in DOMAIN pipe' : pipe'[i] = -1 => phase # "up"
    <3>1. CASE pipe = <<>>
      BY <1>4, <3>1 DEF Wake, ExitInv
    <3>2. CASE pipe # <<>>
      <4>1. command' = Head(pipe) /\ pipe' = Tail(pipe)
        BY <1>4, <3>2 DEF Wake
      <4>2. /\ 1 \in DOMAIN pipe /\ command' = pipe[1]
            /\ \A i \in DOMAIN pipe' : i + 1 \in DOMAIN pipe /\ pipe'[i] = pipe[i + 1]
        BY <4>1, <3>2, <1>t
      <4> QED BY <4>2 DEF ExitInv
    <3> QED BY <3>1, <3>2
  <2> QED BY <2>1, <2>2 DEF ExitInv
<1>5. CASE First
  <2>1. /\ \A t \in Threads : pc'[t] = pc[t]
        /\ pc[WB] = "first" /\ UNCHANGED <<phase, pipe, command>>
        /\ pc'[WB] = "exited" => dirtyList' = <<>> /\ command < 0
    BY <1>5, <1>0, <1>t DEF First, Goto, otherVars, dirtyVars, Exiting
  <2> QED BY <2>1, <1>t DEF ExitInv
<1>6. CASE TryLock \/ Check \/ GetWrite \/ SubmitWrite \/ SemWait(WB) \/ SemPost(WB)
  <2>1. UNCHANGED <<phase, pipe, command, dirtyList>> /\ pc[WB] # "exited"
    BY <1>6 DEF TryLock, Check, GetWrite, SubmitWrite, SemWait, SemPost,
                otherVars, listVars
  <2>2. \E l \in {"wait", "check", "get_write", "submit_write", "post", "first",
                  "put", "modify"} : pc' = [pc EXCEPT ![WB] = l]
    BY <1>6, PostLabel DEF TryLock, Check, GetWrite, SubmitWrite, SemWait, Goto
  <2>3. pc'[WB] # "exited" /\ \A t \in Threads : pc'[t] = pc[t]
    BY <2>2, <1>0, <1>t
  <2> QED BY <2>1, <2>3 DEF ExitInv
<1>7. CASE NotifyExit \/ FreeStep
  BY <1>7 DEF ExitInv, NotifyExit, FreeStep, Join, FreeFirst, FreeDone,
              otherVars, listVars, dirtyVars
<1>8. CASE UNCHANGED vars
  BY <1>8 DEF ExitInv, vars
<1> QED BY <1>1, <1>3, <1>4, <1>5, <1>6, <1>7, <1>8
        DEF Next, WritebackStep, Terminated

-----------------------------------------------------------------------------
(* The tree. *)

\* buffer_search and buffer_insert give the client the only buffer of its
\* block: a lone client finds the tree as it left it.
LEMMA TreeStep ==
    ASSUME Alone, WithinLimit, TypeInv, ExitInv, TreeInv, [Next]_vars
    PROVE  TreeInv'
<1>t. /\ pc \in [Procs -> PcLabels] /\ bh \in [Procs -> Nodes]
      /\ tree \in [Blocks -> Nodes] /\ blk \in [Bufs -> Blocks \cup {NULL}]
      /\ uptodate \in [Bufs -> BOOLEAN] /\ nalloc \in 0 .. MaxOps
      /\ arg \in [Threads -> Blocks \cup {0}] /\ MaxOps \in Nat
  BY CacheConstants DEF TypeInv, TypeOK, StoreType, BufType, ThreadType
<1>0. Threads \subseteq Procs /\ WB \in Procs /\ WB \notin Threads
  BY CacheConstants DEF Procs
<1>p. /\ \A t \in Threads : pc[t] \in PointerLabels => bh[t] \in 1 .. nalloc
      /\ \A b \in Blocks : tree[b] \in 0 .. nalloc
      /\ \A x \in 1 .. nalloc : blk[x] \in Blocks
      /\ \A t \in Threads : pc[t] # "idle" => arg[t] \in Blocks
      /\ \A x \in Bufs : io[x] # "none" => x \in 1 .. nalloc
  BY <1>0 DEF TypeInv, PointersOK
<1>a. \A t, u \in Threads : t = u
  BY DEF Alone
<1>1. CASE UNCHANGED <<pc, bh, tree, blk, nalloc, arg, phase, uptodate>>
  BY <1>1 DEF TreeInv
\* A client goes on with the same buffer.
<1>2. ASSUME NEW t \in Threads, NEW l, Goto(t, l),
             UNCHANGED <<bh, tree, blk, nalloc, arg, phase>>,
             \A x \in Bufs : uptodate'[x] => x <= nalloc,
             pc[t] # "insert", l \notin {"alloc", "insert", "pop", "erase", "free"},
             l \in PointerLabels => pc[t] \in PointerLabels
      PROVE  TreeInv'
  BY <1>2, <1>0, <1>t DEF TreeInv, Goto
<1>3. ASSUME NEW t \in Threads,
             \/ Detach(t) \/ DetachLocked(t) \/ Unlist(t) \/ Get(t)
             \/ LockBuffer(t) \/ TestUptodate(t) \/ ClearDirty(t)
             \/ UnlistRead(t) \/ SubmitRead(t) \/ SemWait(t)
      PROVE  TreeInv'
  BY <1>2, <1>3
     DEF TreeInv, Detach, DetachLocked, Unlist, Get, LockBuffer, TestUptodate,
         ClearDirty, UnlistRead, SubmitRead, SemWait, storeVars, otherVars,
         bufVars, PointerLabels, UserLabels, LockLabels
<1>4. ASSUME NEW t \in Threads, SemPost(t) PROVE TreeInv'
  BY <1>2, <1>4, PostLabel
     DEF TreeInv, SemPost, storeVars, otherVars, bufVars, PointerLabels, UserLabels
<1>5. ASSUME NEW t \in Threads,
             \/ Modify(t) \/ SetDirty(t) \/ Put(t) \/ Release(t) \/ Move(t)
             \/ Attach(t) \/ AttachLocked(t)
      PROVE  TreeInv'
  BY <1>2, <1>5
     DEF TreeInv, Modify, SetDirty, Put, Release, Move, Attach, AttachLocked,
         storeVars, otherVars, bufVars, PointerLabels, UserLabels, LockLabels
<1>6. ASSUME NEW t \in Threads, SetUptodate(t) PROVE TreeInv'
  <2>1. /\ pc[t] = "set_uptodate" /\ Goto(t, "set_dirty")
        /\ UNCHANGED <<bh, tree, blk, nalloc, arg, phase>>
        /\ uptodate' = [uptodate EXCEPT ![bh[t]] = TRUE]
    BY <1>6 DEF SetUptodate, storeVars, otherVars
  <2>2. bh[t] <= nalloc
    BY <2>1, <1>p, <1>t DEF PointerLabels, UserLabels
  <2>3. \A x \in Bufs : uptodate'[x] => x <= nalloc
    BY <2>1, <2>2, <1>t DEF TreeInv
  <2> QED BY <1>2, <2>1, <2>3 DEF PointerLabels, UserLabels
\* try_to_drop_buffers has nothing to do
<1>7. ASSUME NEW t \in Threads, Drop(t) PROVE TreeInv'
  <2>1. /\ pc[t] = "drop" /\ Goto(t, "attach")
        /\ UNCHANGED <<bh, tree, blk, nalloc, arg, phase, uptodate>>
    <3>1. ~(nrFree > FreeThreshold)
      BY CacheConstants DEF WithinLimit, TypeInv, TypeOK, ListType
    <3> QED BY <1>7, <3>1 DEF Drop, storeVars, otherVars, bufVars
  <2> QED BY <1>2, <2>1 DEF TreeInv, PointerLabels
<1>8. ASSUME NEW t \in Threads, Pop(t) \/ Erase(t) \/ Free(t) PROVE FALSE
  BY <1>8 DEF TreeInv, Pop, Erase, Free
<1>9. ASSUME NEW t \in Threads, Start(t) PROVE TreeInv'
  <2>1. /\ pc[t] = "idle" /\ Goto(t, "search")
        /\ UNCHANGED <<bh, tree, blk, nalloc, phase, uptodate>>
        /\ \A u \in Threads : u # t => arg'[u] = arg[u]
    BY <1>9, <1>t DEF Start, storeVars, bufVars
  <2> QED BY <2>1, <1>0, <1>t, <1>a DEF TreeInv, Goto, PointerLabels, UserLabels, LockLabels
<1>10. ASSUME NEW t \in Threads, Search(t) PROVE TreeInv'
  <2>1. /\ pc[t] = "search" /\ UNCHANGED <<tree, blk, nalloc, arg, phase, uptodate>>
        /\ bh' = [bh EXCEPT ![t] = tree[arg[t]]]
        /\ pc' = [pc EXCEPT ![t] = IF tree[arg[t]] # NULL THEN "detach" ELSE "alloc"]
    BY <1>10 DEF Search, Goto, storeVars, otherVars, bufVars
  <2>2. arg[t] \in Blocks
    BY <2>1, <1>p
  <2>3. bh'[t] = tree[arg[t]] /\ pc'[t] = IF tree[arg[t]] # NULL THEN "detach" ELSE "alloc"
    BY <2>1, <1>0, <1>t
  <2>4. \A u \in Threads : u = t
    BY <1>a
  <2> HIDE DEF TypeInv
  <2> QED BY <2>1, <2>2, <2>3, <2>4, <1>a
          DEF TreeInv, PointerLabels, UserLabels, LockLabels
<1>11. ASSUME NEW t \in Threads, Alloc(t) PROVE TreeInv'
  <2>1. /\ pc[t] = "alloc" /\ UNCHANGED <<tree, arg, phase, uptodate>>
        /\ nalloc' = nalloc + 1 /\ nalloc < MaxOps
        /\ bh' = [bh EXCEPT ![t] = nalloc + 1]
        /\ blk' = [blk EXCEPT ![nalloc + 1] = arg[t]]
        /\ pc' = [pc EXCEPT ![t] = "insert"]
    BY <1>11 DEF Alloc, Goto, bufVars
  <2>2. arg[t] \in Blocks /\ tree[arg[t]] = NULL
    BY <2>1, <1>p DEF TreeInv
  <2>3. nalloc + 1 \in Bufs /\ nalloc \in Nat /\ nalloc + 1 \notin 1 .. nalloc
    BY <2>1, <1>t DEF Bufs
  <2>4. pc'[t] = "insert" /\ bh'[t] = nalloc + 1 /\ blk'[nalloc + 1] = arg[t]
    BY <2>1, <2>3, <1>0, <1>t
  <2>5. \A x \in 1 .. nalloc : blk'[x] = blk[x]
    BY <2>1, <2>3, <1>t DEF Bufs
  <2>6. \A b \in Blocks : tree'[b] # NULL => blk'[tree'[b]] = b
    BY <2>1, <2>5, <1>p, <1>t DEF TreeInv, NULL
  <2>7. ASSUME NEW x \in 1 .. nalloc'
        PROVE  \/ tree'[blk'[x]] = x
               \/ \E u \in Threads : pc'[u] = "insert" /\ bh'[u] = x
               \/ phase' \in {"freeing", "done"}
    <3>1. CASE x = nalloc + 1
      BY <3>1, <2>4
    <3>2. CASE x \in 1 .. nalloc
      BY <3>2, <2>1, <2>5, <1>a DEF TreeInv
    <3> QED BY <3>1, <3>2, <2>1, <2>3
  <2>8. \A u \in Threads : u = t
    BY <1>a
  <2>9. \A x \in Bufs : uptodate'[x] => x <= nalloc'
    BY <2>1, <1>t DEF TreeInv, Bufs
  <2> QED BY <2>1, <2>2, <2>4, <2>6, <2>7, <2>8, <2>9 DEF TreeInv
<1>12. ASSUME NEW t \in Threads, Insert(t) PROVE TreeInv'
  <2>1. /\ pc[t] = "insert" /\ UNCHANGED <<bh, blk, nalloc, arg, phase, uptodate>>
        /\ pc' = [pc EXCEPT ![t] = "get"]
    BY <1>12 DEF Insert, Goto, bufVars, otherVars
  <2>2. arg[t] \in Blocks /\ tree[arg[t]] = NULL /\ blk[bh[t]] = arg[t] /\ bh[t] \in 1 .. nalloc
    BY <2>1, <1>p DEF TreeInv, PointerLabels
  <2>3. tree' = [tree EXCEPT ![arg[t]] = bh[t]]
    BY <1>12, <2>2 DEF Insert
  <2>4. tree'[arg[t]] = bh[t] /\ \A b \in Blocks : b # arg[t] => tree'[b] = tree[b]
    BY <2>2, <2>3, <1>t
  <2>5. pc'[t] = "get" /\ \A u \in Threads : u = t
    BY <2>1, <1>0, <1>t, <1>a
  <2>6. ASSUME NEW x \in 1 .. nalloc'
        PROVE  tree'[blk'[x]] = x \/ phase' \in {"freeing", "done"}
    <3>1. tree[blk[x]] = x \/ bh[t] = x \/ phase \in {"freeing", "done"}
      BY <2>1, <2>5, <2>6 DEF TreeInv
    <3>2. tree[blk[x]] = x => blk[x] # arg[t] /\ blk[x] \in Blocks
      BY <2>1, <2>2, <2>6, <1>p DEF NULL
    <3> QED BY <3>1, <3>2, <2>1, <2>2, <2>4
  <2>7. \A b \in Blocks : tree'[b] # NULL => blk'[tree'[b]] = b
    BY <2>1, <2>2, <2>4 DEF TreeInv
  <2> QED BY <2>1, <2>2, <2>5, <2>6, <2>7 DEF TreeInv
<1>13. CASE WritebackStep
  <2>1. UNCHANGED <<tree, blk, nalloc, arg, phase, uptodate>>
    BY <1>13 DEF WritebackStep, Wake, First, TryLock, Check, GetWrite,
                 SubmitWrite, SemWait, SemPost, storeVars, otherVars, bufVars
  <2>2. /\ \E l : pc' = [pc EXCEPT ![WB] = l]
        /\ bh' = bh \/ \E y : bh' = [bh EXCEPT ![WB] = y]
    BY <1>13 DEF WritebackStep, Wake, First, TryLock, Check, GetWrite,
                 SubmitWrite, SemWait, SemPost, Goto
  <2>3. \A t \in Threads : pc'[t] = pc[t] /\ bh'[t] = bh[t]
    BY <2>2, <1>0, <1>t
  <2> QED BY <2>1, <2>3 DEF TreeInv
<1>14. ASSUME NEW x \in Bufs, IoStep(x) PROVE TreeInv'
  <2>1. /\ UNCHANGED <<pc, bh, tree, blk, nalloc, arg, phase>> /\ io[x] # "none"
        /\ uptodate' = uptodate \/ uptodate' = [uptodate EXCEPT ![x] = TRUE]
    BY <1>14 DEF IoStep, TransferRead, TransferWrite, EndUptodate, EndPut,
         EndUnlist, EndClear, EndAttach, EndAttachLocked, EndUnlock, EndPost,
         otherVars, storeVars, bufVars
  <2>2. \A y \in Bufs : uptodate'[y] => y <= nalloc
    BY <2>1, <1>p, <1>t DEF TreeInv
  <2> QED BY <2>1, <2>2 DEF TreeInv
<1>15. CASE NotifyExit \/ Join \/ FreeDone
  BY <1>15 DEF TreeInv, NotifyExit, Join, FreeDone, storeVars, bufVars
<1>16. CASE FreeFirst
  <2>1. /\ UNCHANGED <<pc, bh, blk, nalloc, arg, phase, uptodate>>
        /\ phase = "freeing"
    BY <1>16 DEF FreeFirst, bufVars, otherVars
  <2>2. \A b \in Blocks : tree'[b] = NULL \/ tree'[b] = tree[b]
    BY <1>16, <1>t DEF FreeFirst, RbErase
  <2>3. \A t \in Threads : pc[t] = "idle"
    BY <2>1 DEF ExitInv
  <2> QED BY <2>1, <2>2, <2>3 DEF TreeInv, PointerLabels, UserLabels, LockLabels
<1>17. CASE UNCHANGED vars
  BY <1>1, <1>17 DEF vars
<1>18. ASSUME NEW t \in Threads, ClientStep(t) PROVE TreeInv'
  BY <1>18, <1>3, <1>4, <1>5, <1>6, <1>7, <1>8, <1>10, <1>11, <1>12 DEF ClientStep
<1> QED BY <1>9, <1>13, <1>14, <1>15, <1>16, <1>17, <1>18
        DEF Next, FreeStep, Terminated

-----------------------------------------------------------------------------
(* Transfers. *)

\* bh_submit_read reads only what is not BH_Uptodate and waits for it, and the
\* writeback thread writes only what has no users.
LEMMA TransferStep ==
    ASSUME Alone, TypeInv, LockInv, RefCount, SemInv, TransferInv, [Next]_vars
    PROVE  TransferInv'
<1>t. /\ pc \in [Procs -> PcLabels] /\ bh \in [Procs -> Nodes]
      /\ uptodate \in [Bufs -> BOOLEAN] /\ io \in [Bufs -> IoStates]
      /\ op \in [Threads -> OpKinds] /\ locked \in [Bufs -> BOOLEAN]
      /\ event \in [Bufs -> Nat]
  BY DEF TypeInv, TypeOK, BufType, SyncType, ThreadType
<1>0. Threads \subseteq Procs /\ WB \in Procs /\ WB \notin Threads
  BY CacheConstants DEF Procs
<1>p. \A a \in Procs : pc[a] \in PointerLabels => bh[a] \in Bufs
  BY Deref
<1>a. \A t, u \in Threads : t = u
  BY DEF Alone
<1>o. \A t \in Threads : op[t] # "overwrite"
  BY DEF TransferInv
\* The locked part of a write: whoever is past lock_buffer had the lock.
<1>w. \A x \in Bufs : Writes(x) => locked[x]
  BY <1>0 DEF Writes, LockInv, IoLock, Holds, WriteStates, LockLabels
<1>1. ASSUME UNCHANGED <<bh, io, op, uptodate>>, pc'[WB] = pc[WB],
             \A t \in Threads : pc'[t] = pc[t]
      PROVE  TransferInv'
  BY <1>1 DEF TransferInv, Writes
<1>2. ASSUME NEW t \in Threads, NEW l, Goto(t, l),
             UNCHANGED <<bh, io, op, uptodate>>, pc[t] # "wait",
             l \in {"modify", "set_uptodate"} => uptodate[bh[t]],
             l \in ReadLabels => ~uptodate[bh[t]],
             l \in UserLabels \ {"lock"} => pc[t] \in UserLabels \ {"lock"}
      PROVE  TransferInv'
  <2>1. pc'[t] = l /\ \A a \in Procs : a # t => pc'[a] = pc[a]
    BY <1>2, <1>0, <1>t DEF Goto
  <2>2. \A x \in Bufs : Writes(x)' <=> Writes(x)
    BY <1>2, <2>1, <1>0 DEF Writes
  <2> QED BY <1>2, <2>1, <2>2, <1>0 DEF TransferInv
<1>3. ASSUME NEW l, Goto(WB, l), UNCHANGED <<io, op, uptodate>>,
             \A t \in Threads : bh'[t] = bh[t],
             l \in {"get_write", "submit_write"} => bh'[WB] = bh[WB] /\ pc[WB] = "get_write"
      PROVE  TransferInv'
  <2>1. pc'[WB] = l /\ \A t \in Threads : pc'[t] = pc[t]
    BY <1>3, <1>0, <1>t DEF Goto
  <2>2. \A x \in Bufs : Writes(x)' => Writes(x)
    BY <1>3, <2>1 DEF Writes
  <2> QED BY <1>3, <2>1, <2>2 DEF TransferInv
<1>4. ASSUME NEW t \in Threads,
             \/ Detach(t) \/ DetachLocked(t) \/ Unlist(t) \/ Insert(t)
             \/ Put(t) \/ Release(t) \/ Move(t) \/ Drop(t) \/ Pop(t)
             \/ Erase(t) \/ Free(t) \/ Attach(t) \/ AttachLocked(t)
      PROVE  TransferInv'
  BY <1>2, <1>4
     DEF Detach, DetachLocked, Unlist, Insert, Put, Release, Move, Drop, Pop,
         Erase, Free, Attach, AttachLocked, bufVars, syncVars, otherVars,
         UserLabels, ReadLabels
<1>5. ASSUME NEW t \in Threads, Get(t) PROVE TransferInv'
  BY <1>2, <1>5, <1>o DEF Get, syncVars, otherVars, UserLabels, ReadLabels
<1>6. ASSUME NEW t \in Threads, TestUptodate(t) PROVE TransferInv'
  BY <1>2, <1>6 DEF TestUptodate, otherVars, UserLabels, ReadLabels
<1>7. ASSUME NEW t \in Threads, ClearDirty(t) \/ UnlistRead(t) PROVE TransferInv'
  <2>1. /\ UNCHANGED <<bh, io, op, uptodate>> /\ pc[t] \in ReadLabels
        /\ \E l \in {"unlist_read", "submit_read"} : Goto(t, l)
    BY <1>7 DEF ClearDirty, UnlistRead, bufVars, syncVars, otherVars, ReadLabels
  <2>2. ~uptodate[bh[t]]
    BY <2>1 DEF TransferInv
  <2> QED BY <1>2, <2>1, <2>2 DEF ReadLabels, UserLabels
<1>8. ASSUME NEW t \in Threads, SemPost(t) PROVE TransferInv'
  <2>1. uptodate[bh[t]]
    BY <1>0, <1>8 DEF SemPost, SemInv, UptodateInv, UptodateLabels
  <2> QED BY <1>2, <1>8, <2>1, PostLabel
          DEF SemPost, bufVars, otherVars, ReadLabels, UserLabels
<1>9. ASSUME NEW t \in Threads, Modify(t) \/ SetUptodate(t) \/ SetDirty(t)
      PROVE  TransferInv'
  <2>1. /\ UNCHANGED <<bh, io, op>> /\ pc[t] \in {"modify", "set_uptodate", "set_dirty"}
        /\ \E l \in {"set_uptodate", "set_dirty", "put"} : Goto(t, l)
        /\ uptodate' = uptodate \/ uptodate' = [uptodate EXCEPT ![bh[t]] = TRUE]
    BY <1>9 DEF Modify, SetUptodate, SetDirty, bufVars, syncVars, otherVars
  <2>2. uptodate[bh[t]]
    BY <1>0, <2>1 DEF TransferInv, SemInv, UptodateInv, UptodateLabels
  <2>3. uptodate' = uptodate
    BY <2>1, <2>2, <1>t
  <2> QED BY <1>2, <2>1, <2>2, <2>3 DEF ReadLabels, UserLabels
<1>10. ASSUME NEW t \in Threads, Start(t) \/ Search(t) \/ Alloc(t) PROVE TransferInv'
  <2>1. /\ UNCHANGED <<io, uptodate>> /\ pc[t] \in {"idle", "search", "alloc"}
        /\ \E l \in {"search", "detach", "alloc", "insert"} : pc' = [pc EXCEPT ![t] = l]
        /\ bh' = bh \/ \E y : bh' = [bh EXCEPT ![t] = y]
        /\ op' = op \/ \E o \in Ops : op' = [op EXCEPT ![t] = o]
    BY <1>10 DEF Start, Search, Alloc, Goto, bufVars, syncVars, otherVars
  <2>2. /\ pc'[t] \in {"search", "detach", "alloc", "insert"}
        /\ \A a \in Procs : a # t => pc'[a] = pc[a] /\ bh'[a] = bh[a]
    BY <2>1, <1>0, <1>t
  <2>3. \A u \in Threads : op'[u] # "overwrite"
    BY <2>1, <1>o, <1>t DEF Alone
  <2>4. \A x \in Bufs : Writes(x)' <=> Writes(x)
    BY <2>1, <2>2, <1>0 DEF Writes
  <2> QED BY <2>1, <2>2, <2>3, <2>4, <1>0 DEF TransferInv, UserLabels, ReadLabels
\* lock_buffer does not get past a write
<1>11. ASSUME NEW t \in Threads, LockBuffer(t) PROVE TransferInv'
  <2>1. /\ UNCHANGED <<bh, io, op, uptodate>> /\ pc[t] = "lock"
        /\ pc' = [pc EXCEPT ![t] = "test"] /\ ~locked[bh[t]]
    BY <1>11 DEF LockBuffer, Lock, Goto, bufVars, otherVars
  <2>2. pc'[t] = "test" /\ \A a \in Procs : a # t => pc'[a] = pc[a]
    BY <2>1, <1>0, <1>t
  <2>3. \A x \in Bufs : (Writes(x)' <=> Writes(x)) /\ (Writes(x) => bh[t] # x)
    BY <2>1, <2>2, <1>0, <1>w DEF Writes
  <2> QED BY <2>1, <2>2, <2>3, <1>0 DEF TransferInv, ReadLabels
<1>12. ASSUME NEW t \in Threads, SubmitRead(t) PROVE TransferInv'
  <2>1. /\ UNCHANGED <<bh, op, uptodate>> /\ pc[t] = "submit_read"
        /\ pc' = [pc EXCEPT ![t] = "wait"] /\ io' = [io EXCEPT ![bh[t]] = "read"]
    BY <1>12 DEF SubmitRead, Goto, bufVars, otherVars
  <2>2. /\ pc'[t] = "wait" /\ bh[t] \in Bufs /\ ~uptodate[bh[t]]
        /\ \A a \in Procs : a # t => pc'[a] = pc[a]
    BY <2>1, <1>0, <1>p, <1>t DEF TransferInv, PointerLabels, UserLabels, ReadLabels
  <2>3. io'[bh[t]] = "read" /\ \A x \in Bufs : x # bh[t] => io'[x] = io[x]
    BY <2>1, <2>2, <1>t
  <2>4. \A x \in Bufs : Writes(x)' => Writes(x)
    BY <2>1, <2>2, <2>3, <1>0 DEF Writes, WriteStates
  <2> QED BY <2>1, <2>2, <2>3, <2>4, <1>0
          DEF TransferInv, ReadLabels, UserLabels, WriteStates
\* wait_on_buffer returns only when no transfer is in hand
<1>13. ASSUME NEW a \in Procs, SemWait(a) PROVE TransferInv'
  <2>1. /\ UNCHANGED <<bh, io, op, uptodate>> /\ pc[a] = "wait"
        /\ pc' = [pc EXCEPT ![a] = "post"] /\ event[bh[a]] > 0
    BY <1>13 DEF SemWait, SemTake, Goto, bufVars, otherVars
  <2>2. bh[a] \in Bufs
    BY <2>1, <1>p DEF PointerLabels, UserLabels
  <2>3. io[bh[a]] = "none"
    BY <2>1, <2>2, <1>t DEF SemInv, TokenInv
  <2>4. pc'[a] = "post" /\ \A b \in Procs : b # a => pc'[b] = pc[b]
    BY <2>1, <1>t
  <2>5. \A x \in Bufs : Writes(x)' => Writes(x)
    BY <2>1, <2>4, <1>0 DEF Writes
  <2>6. \A x \in Bufs : io[x] \in ReadStates => x # bh[a]
    BY <2>3 DEF ReadStates
  <2> QED BY <2>1, <2>4, <2>5, <2>6, <1>0 DEF TransferInv, ReadLabels, UserLabels
<1>14. CASE Wake \/ First \/ TryLock \/ GetWrite \/ SemPost(WB)
  <2>1. UNCHANGED <<io, op, uptodate>>
    BY <1>14 DEF Wake, First, TryLock, GetWrite, SemPost, bufVars, syncVars, otherVars
  <2>2. \A t \in Threads : bh'[t] = bh[t]
    BY <1>14, <1>0, <1>t DEF Wake, First, TryLock, GetWrite, SemPost
  <2>3. \E l : /\ Goto(WB, l)
               /\ l \in {"get_write", "submit_write"} => bh'[WB] = bh[WB] /\ pc[WB] = "get_write"
    BY <1>14, PostLabel DEF Wake, First, TryLock, GetWrite
  <2> QED BY <1>3, <2>1, <2>2, <2>3
\* sync_dirty_buffer: the buffer has no users
<1>15. CASE Check
  <2>1. UNCHANGED <<bh, io, op, uptodate>> /\ pc[WB] = "check"
    BY <1>15 DEF Check, bufVars, otherVars
  <2>2. CASE Goto(WB, "wait")
    BY <1>3, <2>1, <2>2
  <2>3. CASE Goto(WB, "get_write") /\ Syncable(bh[WB])
    <3>1. bh[WB] \in Bufs
      BY <2>1, <1>0, <1>p DEF PointerLabels, LockLabels
    <3>2. Cardinality(Users(bh[WB])) = 0
      BY <2>3, <3>1, UsersFinite DEF Syncable, RefCount
    <3>3. Users(bh[WB]) = {}
      BY <3>2, UsersFinite, FS_EmptySet
    <3>4. \A t \in Threads : bh[t] = bh[WB] => pc[t] \notin UserLabels
      BY <3>3 DEF Users
    <3>5. pc'[WB] = "get_write" /\ \A t \in Threads : pc'[t] = pc[t]
      BY <2>3, <1>0, <1>t DEF Goto
    <3>6. \A x \in Bufs : Writes(x)' => Writes(x) \/ x = bh[WB]
      BY <2>1, <3>5 DEF Writes
    <3> QED BY <2>1, <3>4, <3>5, <3>6 DEF TransferInv
  <2> QED BY <1>15, <2>2, <2>3 DEF Check
<1>16. CASE SubmitWrite
  <2>1. /\ UNCHANGED <<bh, op, uptodate>> /\ pc[WB] = "submit_write"
        /\ pc' = [pc EXCEPT ![WB] = "wait"] /\ io' = [io EXCEPT ![bh[WB]] = "write"]
    BY <1>16 DEF SubmitWrite, Goto, bufVars, otherVars
  <2>2. /\ bh[WB] \in Bufs /\ uptodate[bh[WB]] /\ Writes(bh[WB])
        /\ \A t \in Threads : pc'[t] = pc[t]
    BY <2>1, <1>0, <1>p, <1>t
       DEF PointerLabels, LockLabels, SemInv, UptodateInv, UptodateLabels, Writes
  <2>3. io'[bh[WB]] = "write" /\ \A x \in Bufs : x # bh[WB] => io'[x] = io[x]
    BY <2>1, <2>2, <1>t
  <2>4. \A x \in Bufs : Writes(x)' => Writes(x)
    BY <2>1, <2>2, <2>3, <1>0, <1>t DEF Writes
  <2> QED BY <2>1, <2>2, <2>3, <2>4 DEF TransferInv, ReadStates
<1>17. ASSUME NEW x \in Bufs, EndUptodate(x) PROVE TransferInv'
  <2>1. /\ UNCHANGED <<pc, bh, op>> /\ uptodate' = [uptodate EXCEPT ![x] = TRUE]
        /\ \/ io[x] = "r_uptodate" /\ io' = [io EXCEPT ![x] = "r_put"]
           \/ io[x] = "w_uptodate" /\ io' = [io EXCEPT ![x] = "w_put"]
    BY <1>17 DEF EndUptodate, IoGoto, otherVars
  <2>2. /\ uptodate'[x] /\ io'[x] \in {"r_put", "w_put"}
        /\ \A y \in Bufs : y # x => uptodate'[y] = uptodate[y] /\ io'[y] = io[y]
        /\ io'[x] \in WriteStates <=> io[x] \in WriteStates
        /\ io'[x] \in ReadStates <=> io[x] \in ReadStates
    BY <2>1, <1>t DEF WriteStates, ReadStates
  <2>3. \A y \in Bufs : Writes(y)' => Writes(y)
    BY <2>1, <2>2 DEF Writes
  <2>4. \A t \in Threads : bh[t] = x => pc[t] \notin ReadLabels
    <3>1. CASE io[x] = "r_uptodate"
      BY <3>1, <1>a DEF TransferInv, ReadStates, ReadLabels
    <3>2. CASE io[x] = "w_uptodate"
      BY <3>2 DEF TransferInv, Writes, WriteStates, ReadLabels, UserLabels
    <3> QED BY <2>1, <3>1, <3>2
  <2>5. /\ \A t \in Threads : pc'[t] \in {"modify", "set_uptodate"} => uptodate'[bh'[t]]
        /\ \A t \in Threads : pc'[t] \in ReadLabels => ~uptodate'[bh'[t]]
    BY <2>1, <2>2, <2>4, <1>0, <1>p DEF TransferInv, PointerLabels, UserLabels, ReadLabels
  <2> QED BY <2>1, <2>2, <2>3, <2>5 DEF TransferInv
<1>18. ASSUME NEW x \in Bufs, IoStep(x), ~EndUptodate(x) PROVE TransferInv'
  <2>1. /\ UNCHANGED <<pc, bh, op, uptodate>>
        /\ \E l : /\ io' = [io EXCEPT ![x] = l]
                  /\ l \in WriteStates => io[x] \in WriteStates
                  /\ l \in ReadStates => io[x] \in ReadStates
                  /\ l \in {"read", "r_uptodate"} => io[x] = "read"
    BY <1>18 DEF IoStep, TransferRead, TransferWrite, EndPut, EndUnlist,
         EndClear, EndAttach, EndAttachLocked, EndUnlock, EndPost, otherVars,
         bufVars, IoGoto, WriteStates, ReadStates
  <2>2. /\ \A y \in Bufs : io'[y] \in WriteStates => io[y] \in WriteStates
        /\ \A y \in Bufs : io'[y] \in ReadStates => io[y] \in ReadStates
        /\ \A y \in Bufs : io'[y] \in {"read", "r_uptodate"} => io[y] \in {"read", "r_uptodate"}
    BY <2>1, <1>t
  <2>3. \A y \in Bufs : Writes(y)' => Writes(y)
    BY <2>1, <2>2 DEF Writes
  <2> QED BY <2>1, <2>2, <2>3 DEF TransferInv
<1>19. CASE NotifyExit \/ FreeStep \/ UNCHANGED vars
  BY <1>1, <1>19 DEF NotifyExit, FreeStep, Join, FreeFirst, FreeDone, vars,
                     bufVars, syncVars, otherVars
<1>20. ASSUME NEW t \in Threads, ClientStep(t) PROVE TransferInv'
  BY <1>20, <1>0, <1>4, <1>5, <1>6, <1>7, <1>8, <1>9, <1>10, <1>11, <1>12, <1>13
     DEF ClientStep
<1>21. CASE WritebackStep
  BY <1>21, <1>0, <1>13, <1>14, <1>15, <1>16 DEF WritebackStep
<1> QED BY <1>10, <1>17, <1>18, <1>19, <1>20, <1>21 DEF Next, Terminated

-----------------------------------------------------------------------------
(* Who has a buffer that is BH_Dirty. *)

\* The reference of a lone client is the only one when it gives it back: no
\* transfer of its buffer is in hand.
LEMMA LoneUser ==
    ASSUME Alone, TypeInv, LockInv, RefCount, SemInv, TransferInv,
           NEW t \in Threads, pc[t] = "put"
    PROVE  LastUser(bh[t])
<1>0. t \in Procs /\ WB \notin Threads
  BY CacheConstants DEF Procs
<1>1. bh[t] \in Bufs
  BY <1>0, Deref DEF PointerLabels, UserLabels
<1>2. Users(bh[t]) = {t}
  BY DEF Users, Alone, UserLabels
<1>3. Cardinality(Users(bh[t])) = 1
  BY <1>2, FS_Singleton
<1>4. ~Writes(bh[t])
  BY <1>1 DEF TransferInv, UserLabels
<1>5. io[bh[t]] \notin ReadStates
  BY <1>1 DEF TransferInv, Alone
<1>6. io[bh[t]] \notin IoRefStates
  BY <1>4, <1>5 DEF Writes, WriteStates, ReadStates, IoRefStates
<1>7. ASSUME NEW a \in Procs, bh[a] = bh[t], pc[a] \in PrepareLabels PROVE FALSE
  <2>1. CASE a = WB
    BY <1>4, <1>7, <2>1
       DEF Writes, PrepareLabels, SemInv, LabelInv, WritebackLabels
  <2>2. CASE a \in Threads
    BY <1>7, <2>2 DEF Alone, PrepareLabels
  <2> QED BY <2>1, <2>2 DEF Procs
<1>8. ~IoRef(bh[t])
  BY <1>6, <1>7 DEF IoRef
<1>9. count[bh[t]] = 1
  BY <1>1, <1>3, <1>8 DEF RefCount
<1> QED BY <1>9 DEF LastUser

\* A BH_Dirty buffer is handed from the list to the writeback thread, to the
\* transfer or to the client, and brelse puts it back.
LEMMA QueueStep ==
    ASSUME Alone, TypeInv, LockInv, RefCount, SemInv, TransferInv, QueueInv,
           [Next]_vars
    PROVE  QueueInv'
<1>t. /\ pc \in [Procs -> PcLabels] /\ bh \in [Procs -> Nodes]
      /\ dirty \in [Bufs -> BOOLEAN] /\ io \in [Bufs -> IoStates]
      /\ dirtyList \in Seq(Bufs) /\ locked \in [Bufs -> BOOLEAN]
      /\ count \in [Bufs -> Int]
  BY DEF TypeInv, TypeOK, BufType, SyncType, ThreadType, ListType
<1>0. Threads \subseteq Procs /\ WB \in Procs /\ WB \notin Threads
  BY CacheConstants DEF Procs
<1>p. \A a \in Procs : pc[a] \in PointerLabels => bh[a] \in Bufs
  BY Deref
<1>1. ASSUME \A x \in Bufs : dirty'[x] => OnDirtyList(x)' \/ Keeps(x)' \/ dirty[x],
             \A x \in Bufs : OnDirtyList(x) => OnDirtyList(x)' \/ Keeps(x)' \/ ~dirty'[x],
             \A x \in Bufs : Keeps(x) => OnDirtyList(x)' \/ Keeps(x)' \/ ~dirty'[x]
      PROVE  QueueInv'
  BY <1>1 DEF QueueInv
\* A client moves and keeps what it has.
<1>2. ASSUME NEW t \in Threads, NEW l, Goto(t, l), UNCHANGED <<bh, io>>,
             pc[t] \in KeepLabels => l \in KeepLabels \/ ~dirty'[bh[t]],
             \A x \in Bufs : dirty'[x] => dirty[x] \/ (x = bh[t] /\ l \in KeepLabels),
             \A x \in Bufs : OnDirtyList(x) =>
                OnDirtyList(x)' \/ (x = bh[t] /\ l \in KeepLabels)
      PROVE  QueueInv'
  <2>1. pc'[t] = l /\ \A a \in Procs : a # t => pc'[a] = pc[a]
    BY <1>2, <1>0, <1>t DEF Goto
  <2>2. \A x \in Bufs : Keeps(x) => Keeps(x)' \/ ~dirty'[x]
    BY <1>2, <2>1, <1>0 DEF Keeps
  <2>3. l \in KeepLabels => \A x \in Bufs : x = bh[t] => Keeps(x)'
    BY <1>2, <2>1 DEF Keeps
  <2> QED BY <1>1, <1>2, <2>2, <2>3
<1>3. ASSUME NEW t \in Threads,
             \/ Detach(t) \/ DetachLocked(t) \/ Insert(t) \/ Get(t)
             \/ LockBuffer(t) \/ TestUptodate(t) \/ SemWait(t)
             \/ Modify(t) \/ SetUptodate(t) \/ Drop(t) \/ Pop(t)
             \/ Erase(t) \/ Free(t) \/ Attach(t) \/ AttachLocked(t)
      PROVE  QueueInv'
  <2>1. UNCHANGED <<bh, io, dirty, dirtyList>>
    BY <1>3 DEF Detach, DetachLocked, Insert, Get, LockBuffer, TestUptodate,
         SemWait, Modify, SetUptodate, Drop, Pop, Erase, Free, Attach,
         AttachLocked, bufVars, syncVars, listVars, dirtyVars
  <2>2. \E l : Goto(t, l) /\ (pc[t] \in KeepLabels => l \in KeepLabels)
    BY <1>3 DEF Detach, DetachLocked, Insert, Get, LockBuffer, TestUptodate,
         SemWait, Modify, SetUptodate, Drop, Pop, Erase, Free, Attach,
         AttachLocked, KeepLabels, UserLabels
  <2> QED BY <1>2, <2>1, <2>2 DEF OnDirtyList
<1>4. ASSUME NEW t \in Threads, SemPost(t) PROVE QueueInv'
  <2>1. UNCHANGED <<bh, io, dirty, dirtyList>>
    BY <1>4 DEF SemPost, bufVars, listVars
  <2>2. \E l : Goto(t, l) /\ l \in KeepLabels
    <3>1. CASE op[t] = "read"
      BY <1>0, <1>4, <3>1 DEF SemPost, KeepLabels, UserLabels
    <3>2. CASE op[t] # "read"
      BY <1>0, <1>4, <3>2 DEF SemPost, KeepLabels, UserLabels
    <3> QED BY <3>1, <3>2
  <2> QED BY <1>2, <2>1, <2>2 DEF OnDirtyList
\* The buffer leaves the list for a client that has it.
<1>5. ASSUME NEW t \in Threads, Unlist(t) \/ UnlistRead(t) PROVE QueueInv'
  <2>1. /\ UNCHANGED <<bh, io, dirty>> /\ RemoveFromWriteback(bh[t])
        /\ \E l : Goto(t, l) /\ l \in KeepLabels
    BY <1>5 DEF Unlist, UnlistRead, bufVars, syncVars, KeepLabels, UserLabels
  <2>2. \A x \in Bufs : OnDirtyList(x) => OnDirtyList(x)' \/ x = bh[t]
    BY <2>1, <1>t, UnlistedContents
  <2> QED BY <1>2, <2>1, <2>2
<1>6. ASSUME NEW t \in Threads, ClearDirty(t) \/ SetDirty(t) PROVE QueueInv'
  <2>1. /\ UNCHANGED <<bh, io, dirtyList>>
        /\ \E v : dirty' = [dirty EXCEPT ![bh[t]] = v]
        /\ \E l : Goto(t, l) /\ l \in KeepLabels
    BY <1>6 DEF ClearDirty, SetDirty, syncVars, listVars, KeepLabels, UserLabels
  <2>2. \A x \in Bufs : dirty'[x] => dirty[x] \/ x = bh[t]
    BY <2>1, <1>t
  <2> QED BY <1>2, <2>1, <2>2 DEF OnDirtyList
\* brelse: the last user sees BH_Dirty and queues the buffer
<1>7. ASSUME NEW t \in Threads, Put(t) PROVE QueueInv'
  <2>1. UNCHANGED <<bh, io, dirty, dirtyList>> /\ pc[t] = "put"
    BY <1>7 DEF Put, syncVars, listVars
  <2>2. Goto(t, "release")
    BY <1>7, <2>1, LoneUser DEF Put
  <2> QED BY <1>2, <2>1, <2>2 DEF OnDirtyList, KeepLabels
<1>8. ASSUME NEW t \in Threads, Release(t) PROVE QueueInv'
  <2>1. /\ UNCHANGED <<bh, io, dirty, dirtyList>>
        /\ Goto(t, IF ~dirty[bh[t]] THEN "drop" ELSE "move")
    BY <1>8 DEF Release, Reclaimable, bufVars, syncVars, listVars
  <2>2. CASE dirty[bh[t]]
    BY <1>2, <2>1, <2>2 DEF OnDirtyList, KeepLabels
  <2>3. CASE ~dirty[bh[t]]
    BY <1>2, <2>1, <2>3 DEF OnDirtyList, KeepLabels
  <2> QED BY <2>2, <2>3
<1>9. ASSUME NEW t \in Threads, Move(t) PROVE QueueInv'
  <2>1. /\ UNCHANGED <<bh, io, dirty>> /\ MoveToWriteback(bh[t])
        /\ pc' = [pc EXCEPT ![t] = "idle"] /\ pc[t] = "move"
    BY <1>9 DEF Move, Goto, bufVars, syncVars
  <2>2. bh[t] \in Bufs
    BY <2>1, <1>0, <1>p DEF PointerLabels
  <2>3. \A x : OnDirtyList(x)' <=> OnDirtyList(x) \/ x = bh[t]
    BY <2>1, <2>2, <1>t, ListedContents
  <2>4. \A a \in Procs : a # t => pc'[a] = pc[a]
    BY <2>1, <1>t
  <2>5. \A x \in Bufs : Keeps(x) => Keeps(x)' \/ x = bh[t]
    BY <2>1, <2>4, <1>0 DEF Keeps
  <2> QED BY <1>1, <2>1, <2>3, <2>5
<1>10. ASSUME NEW t \in Threads, Start(t) \/ Search(t) \/ Alloc(t) PROVE QueueInv'
  <2>1. /\ UNCHANGED <<io, dirty, dirtyList>> /\ pc[t] \notin KeepLabels
        /\ \E l : pc' = [pc EXCEPT ![t] = l]
        /\ bh' = bh \/ \E y : bh' = [bh EXCEPT ![t] = y]
    BY <1>10 DEF Start, Search, Alloc, Goto, bufVars, syncVars, listVars,
                 KeepLabels, UserLabels
  <2>2. \A a \in Procs : a # t => pc'[a] = pc[a] /\ bh'[a] = bh[a]
    BY <2>1, <1>t
  <2>3. \A x \in Bufs : Keeps(x) => Keeps(x)'
    BY <2>1, <2>2, <1>0 DEF Keeps
  <2> QED BY <1>1, <2>1, <2>3 DEF OnDirtyList
<1>11. ASSUME NEW t \in Threads, SubmitRead(t) PROVE QueueInv'
  <2>1. /\ UNCHANGED <<bh, dirty, dirtyList>> /\ pc[t] = "submit_read"
        /\ pc' = [pc EXCEPT ![t] = "wait"] /\ io' = [io EXCEPT ![bh[t]] = "read"]
    BY <1>11 DEF SubmitRead, Goto, bufVars, listVars
  <2>2. pc'[t] = "wait" /\ \A a \in Procs : a # t => pc'[a] = pc[a]
    BY <2>1, <1>0, <1>t
  <2>3. \A x \in Bufs : x # bh[t] => io'[x] = io[x]
    BY <2>1, <1>t
  <2>4. \A x \in Bufs : Keeps(x) => Keeps(x)'
    BY <2>1, <2>2, <2>3, <1>0 DEF Keeps, KeepLabels, UserLabels
  <2> QED BY <1>1, <2>1, <2>4 DEF OnDirtyList
\* The writeback thread: it has the buffer until it writes it, or finds that
\* somebody else has it or that it is clean.
<1>12. ASSUME NEW l, Goto(WB, l), UNCHANGED <<bh, io, dirty, dirtyList>>,
              \/ l \in {"check", "get_write", "submit_write"}
              \/ pc[WB] \notin {"trylock", "check", "get_write", "submit_write"}
              \/ bh[WB] \in Bufs /\ dirty[bh[WB]] =>
                    \E t \in Threads : bh[t] = bh[WB] /\ pc[t] \in KeepLabels
       PROVE  QueueInv'
  <2>1. pc'[WB] = l /\ \A t \in Threads : pc'[t] = pc[t]
    BY <1>12, <1>0, <1>t DEF Goto
  <2>2. \A x \in Bufs : Keeps(x) => Keeps(x)' \/ ~dirty'[x]
    BY <1>12, <2>1 DEF Keeps
  <2> QED BY <1>1, <1>12, <2>2 DEF OnDirtyList
<1>13. CASE Wake \/ GetWrite \/ SemWait(WB) \/ SemPost(WB)
  <2>1. UNCHANGED <<bh, io, dirty, dirtyList>>
    BY <1>13 DEF Wake, GetWrite, SemWait, SemPost, bufVars, syncVars, listVars
  <2>2. \E l : /\ Goto(WB, l)
               /\ \/ l \in {"check", "get_write", "submit_write"}
                  \/ pc[WB] \notin {"trylock", "check", "get_write", "submit_write"}
    BY <1>13 DEF Wake, GetWrite, SemWait, SemPost
  <2> QED BY <1>12, <2>1, <2>2
<1>14. CASE First
  <2>1. CASE dirtyList = <<>>
    <3>1. /\ UNCHANGED <<bh, io, dirty, dirtyList>> /\ pc[WB] = "first"
          /\ \E l : Goto(WB, l)
      BY <1>14, <2>1 DEF First, bufVars, syncVars, dirtyVars
    <3> QED BY <1>12, <3>1
  <2>2. CASE dirtyList # <<>>
    <3>1. /\ UNCHANGED <<io, dirty>> /\ pc[WB] = "first"
          /\ pc' = [pc EXCEPT ![WB] = "trylock"]
          /\ bh' = [bh EXCEPT ![WB] = Head(dirtyList)]
          /\ dirtyList' = Tail(dirtyList)
      BY <1>14, <2>2 DEF First, Goto, bufVars, syncVars
    <3>2. /\ pc'[WB] = "trylock" /\ bh'[WB] = Head(dirtyList)
          /\ \A t \in Threads : pc'[t] = pc[t] /\ bh'[t] = bh[t]
      BY <3>1, <1>0, <1>t
    <3>3. \A x : OnDirtyList(x) => OnDirtyList(x)' \/ x = Head(dirtyList)
      BY <2>2, <3>1, <1>t, TailContents
    <3>4. \A x \in Bufs : Keeps(x) => Keeps(x)'
      BY <3>1, <3>2 DEF Keeps
    <3>5. \A x \in Bufs : x = Head(dirtyList) => Keeps(x)'
      BY <3>2 DEF Keeps
    <3> QED BY <1>1, <3>1, <3>3, <3>4, <3>5
  <2> QED BY <2>1, <2>2
\* trylock_buffer fails: the client has the lock, or waits for a transfer
<1>15. CASE TryLock
  <2>1. UNCHANGED <<bh, io, dirty, dirtyList>> /\ pc[WB] = "trylock"
    BY <1>15 DEF TryLock, bufVars, listVars
  <2>2. CASE Goto(WB, "check")
    BY <1>12, <2>1, <2>2
  <2>3. CASE Goto(WB, "wait") /\ locked[bh[WB]]
    <3>1. bh[WB] \in Bufs
      BY <2>1, <1>0, <1>p DEF PointerLabels
    <3>2. \E t \in Threads : bh[t] = bh[WB] /\ pc[t] \in KeepLabels
      <4>1. CASE IoLock(bh[WB])
        BY <3>1, <4>1, <2>1
           DEF SemInv, WaitInv, IoLock, Procs, KeepLabels, UserLabels
      <4>2. CASE \E a \in Procs : Holds(a, bh[WB])
        <5>1. PICK a \in Procs : Holds(a, bh[WB])
          BY <4>2
        <5>2. a \in Threads
          BY <5>1, <2>1 DEF Holds, LockLabels, Procs
        <5>3. pc[a] \in KeepLabels
          BY <5>1, <5>2 DEF SemInv, LabelInv, ClientLabels, WritebackLabels,
                            Holds, LockLabels, KeepLabels, UserLabels
        <5> QED BY <5>1, <5>2, <5>3 DEF Holds
      <4> QED BY <2>3, <3>1, <4>1, <4>2 DEF LockInv
    <3> QED BY <1>12, <2>1, <2>3, <3>2
  <2> QED BY <1>15, <2>2, <2>3 DEF TryLock
\* sync_dirty_buffer skips the buffer: it is clean, or a client has it
<1>16. CASE Check
  <2>1. UNCHANGED <<bh, io, dirty, dirtyList>> /\ pc[WB] = "check"
    BY <1>16 DEF Check, bufVars, listVars
  <2>2. CASE Goto(WB, "get_write")
    BY <1>12, <2>1, <2>2
  <2>3. CASE Goto(WB, "wait") /\ ~Syncable(bh[WB])
    <3>1. bh[WB] \in Bufs /\ Holds(WB, bh[WB])
      BY <2>1, <1>0, <1>p DEF PointerLabels, LockLabels, Holds
    <3>2. ASSUME dirty[bh[WB]]
          PROVE  \E t \in Threads : bh[t] = bh[WB] /\ pc[t] \in KeepLabels
      <4>1. count[bh[WB]] >= 1
        BY <2>3, <3>1, <3>2, <1>t DEF Syncable
      <4>2. ~IoRef(bh[WB])
        BY <2>1, <3>1, <1>0, HolderPrepares DEF IoRef, Prepares, PrepareLabels
      <4>3. Cardinality(Users(bh[WB])) # 0
        BY <3>1, <4>1, <4>2 DEF RefCount
      <4>4. Users(bh[WB]) # {}
        BY <4>3, FS_EmptySet
      <4> QED BY <4>4 DEF Users, KeepLabels
    <3> QED BY <1>12, <2>1, <2>3, <3>2
  <2> QED BY <1>16, <2>2, <2>3 DEF Check
<1>17. CASE SubmitWrite
  <2>1. /\ UNCHANGED <<bh, dirty, dirtyList>> /\ pc[WB] = "submit_write"
        /\ pc' = [pc EXCEPT ![WB] = "wait"] /\ io' = [io EXCEPT ![bh[WB]] = "write"]
    BY <1>17 DEF SubmitWrite, Goto, bufVars, listVars
  <2>2. bh[WB] \in Bufs /\ \A t \in Threads : pc'[t] = pc[t]
    BY <2>1, <1>0, <1>p, <1>t DEF PointerLabels, LockLabels
  <2>3. io'[bh[WB]] = "write" /\ \A x \in Bufs : x # bh[WB] => io'[x] = io[x]
    BY <2>1, <2>2, <1>t
  <2>4. \A x \in Bufs : Keeps(x) => Keeps(x)'
    BY <2>1, <2>2, <2>3 DEF Keeps, WriteStates
  <2> QED BY <1>1, <2>1, <2>4 DEF OnDirtyList
\* after_buffer_sync clears BH_Dirty while it still has the buffer
<1>18. ASSUME NEW x \in Bufs, IoStep(x) PROVE QueueInv'
  <2>1. /\ UNCHANGED <<pc, bh>>
        /\ \E l : /\ io' = [io EXCEPT ![x] = l]
                  /\ io[x] \in WriteStates => l \in WriteStates \/ dirty' = [dirty EXCEPT ![x] = FALSE]
        /\ dirty' = dirty \/ dirty' = [dirty EXCEPT ![x] = FALSE]
        /\ \/ dirtyList' = dirtyList
           \/ RemoveFromWriteback(x) /\ io' = [io EXCEPT ![x] = "w_clear"]
    BY <1>18 DEF IoStep, TransferRead, TransferWrite, EndUptodate, EndPut,
         EndUnlist, EndClear, EndAttach, EndAttachLocked, EndUnlock, EndPost,
         bufVars, listVars, dirtyVars, IoGoto, WriteStates
  <2>2. \A y \in Bufs : dirty'[y] => dirty[y]
    BY <2>1, <1>t
  <2>3. \A y \in Bufs : io[y] \in WriteStates => io'[y] \in WriteStates \/ ~dirty'[y]
    BY <2>1, <1>t
  <2>4. \A y \in Bufs : Keeps(y) => Keeps(y)' \/ ~dirty'[y]
    BY <2>1, <2>3 DEF Keeps
  <2>5. ASSUME NEW y \in Bufs, OnDirtyList(y) PROVE OnDirtyList(y)' \/ Keeps(y)'
    <3>1. CASE dirtyList' = dirtyList
      BY <2>5, <3>1 DEF OnDirtyList
    <3>2. CASE RemoveFromWriteback(x) /\ io' = [io EXCEPT ![x] = "w_clear"]
      <4>1. y # x => OnDirtyList(y)'
        BY <2>5, <3>2, <1>t, UnlistedContents
      <4>2. io'[x] \in WriteStates
        BY <3>2, <1>t DEF WriteStates
      <4> QED BY <4>1, <4>2 DEF Keeps
    <3> QED BY <2>1, <3>1, <3>2
  <2> QED BY <1>1, <2>2, <2>4, <2>5
<1>19. CASE NotifyExit \/ FreeStep \/ UNCHANGED vars
  <2>1. UNCHANGED <<pc, bh, io, dirty, dirtyList>>
    BY <1>19 DEF NotifyExit, FreeStep, Join, FreeFirst, FreeDone, vars, bufVars,
                 syncVars, listVars, dirtyVars
  <2> QED BY <2>1 DEF QueueInv, Keeps, OnDirtyList
<1>20. ASSUME NEW t \in Threads, ClientStep(t) PROVE QueueInv'
  BY <1>20, <1>3, <1>4, <1>5, <1>6, <1>7, <1>8, <1>9, <1>10, <1>11 DEF ClientStep
<1>21. CASE WritebackStep
  BY <1>21, <1>13, <1>14, <1>15, <1>16, <1>17 DEF WritebackStep
<1> QED BY <1>10, <1>18, <1>19, <1>20, <1>21 DEF Next, Terminated

-----------------------------------------------------------------------------
(* Contents. *)

\* When bdev_free begins to free buffers, none of them is BH_Dirty.
LEMMA Quiescent ==
    ASSUME TypeInv, SemInv, ExitInv, QueueInv, phase \in {"freeing", "done"}
    PROVE  \A x \in Bufs : ~dirty[x] /\ ~Changing(x) /\ io[x] = "none"
<1>1. pc[WB] = "exited" /\ \A t \in Threads : pc[t] = "idle"
  BY DEF ExitInv, TypeInv, TypeOK, ThreadType
<1>2. dirtyList = <<>>
  BY <1>1 DEF ExitInv
<1>3. \A x \in Bufs : io[x] = "none"
  BY <1>1 DEF SemInv, WaitInv, Procs
<1> QED BY <1>1, <1>2, <1>3
        DEF QueueInv, OnDirtyList, Keeps, WriteStates, KeepLabels, UserLabels, Changing

\* A block has one buffer while a client has it.
LEMMA OneBuffer ==
    ASSUME Alone, TypeInv, ExitInv, TreeInv, NEW t \in Threads,
           pc[t] \in PointerLabels \ {"insert"}
    PROVE  /\ bh[t] \in 1 .. nalloc /\ arg[t] \in Blocks
           /\ blk[bh[t]] = arg[t] /\ tree[arg[t]] = bh[t] /\ bh[t] # NULL
           /\ \A x \in 1 .. nalloc : blk[x] = arg[t] => x = bh[t]
<1>0. t \in Procs
  BY DEF Procs
<1>1. bh[t] \in 1 .. nalloc /\ arg[t] \in Blocks
  BY <1>0 DEF TypeInv, PointersOK, PointerLabels, UserLabels, LockLabels
<1>2. phase \notin {"freeing", "done"}
  BY DEF ExitInv, PointerLabels, UserLabels, LockLabels
<1>3. \A x \in 1 .. nalloc : tree[blk[x]] = x
  BY <1>2 DEF TreeInv, Alone
<1>4. blk[bh[t]] = arg[t]
  BY DEF TreeInv
<1>5. bh[t] # NULL
  BY <1>1 DEF NULL, TypeInv, TypeOK, StoreType
<1> QED BY <1>1, <1>3, <1>4, <1>5

\* Modify changes the contents of the one buffer of the block, a read brings in
\* what is newest, and BH_Dirty is cleared only after the write.
LEMMA ContentStep ==
    ASSUME Alone, ~FaultyDevice, TypeInv, SemInv, ExitInv, TreeInv,
           TransferInv, QueueInv, ContentInv, [Next]_vars
    PROVE  ContentInv'
<1>t. /\ pc \in [Procs -> PcLabels] /\ bh \in [Procs -> Nodes]
      /\ uptodate \in [Bufs -> BOOLEAN] /\ dirty \in [Bufs -> BOOLEAN]
      /\ io \in [Bufs -> IoStates] /\ data \in [Bufs -> Content]
      /\ disk \in [Blocks -> Content] /\ latest \in [Blocks -> Nat]
      /\ tree \in [Blocks -> Nodes] /\ blk \in [Bufs -> Blocks \cup {NULL}]
      /\ nalloc \in 0 .. MaxOps /\ MaxOps \in Nat
  BY CacheConstants DEF TypeInv, TypeOK, BufType, SyncType, ThreadType, StoreType
<1>0. Threads \subseteq Procs /\ WB \in Procs /\ WB \notin Threads
  BY CacheConstants DEF Procs
<1>n. 1 .. nalloc \subseteq Bufs
  BY <1>t DEF Bufs
<1>b. /\ \A x \in 1 .. nalloc : blk[x] \in Blocks
      /\ \A x \in Bufs : io[x] # "none" => x \in 1 .. nalloc
  BY DEF TypeInv, PointersOK
<1>1. ASSUME UNCHANGED <<disk, latest, data, blk, nalloc>>,
             \A b \in Blocks : tree'[b] = NULL => tree[b] = NULL,
             \A x \in Bufs : uptodate'[x] \/ io'[x] = "r_uptodate" =>
                                uptodate[x] \/ io[x] = "r_uptodate",
             \A x \in Bufs :
                \/ dirty[x] /\ io[x] \notin WriteStates \ {"write"} =>
                      dirty'[x] /\ io'[x] \notin WriteStates \ {"write"}
                \/ disk[blk[x]] = latest[blk[x]],
             \A x \in Bufs : Changing(x) =>
                \/ Changing(x)'
                \/ dirty'[x] /\ io'[x] \notin WriteStates \ {"write"}
      PROVE  ContentInv'
  BY <1>1, <1>n DEF ContentInv
\* Steps that leave flags and contents alone.
<1>2. ASSUME UNCHANGED <<disk, latest, data, blk, nalloc, uptodate, dirty>>,
             \A b \in Blocks : tree'[b] = NULL => tree[b] = NULL,
             \A x \in Bufs : io'[x] \in {"r_uptodate"} \cup (WriteStates \ {"write"}) =>
                                io'[x] = io[x],
             \A x \in Bufs : Changing(x) => Changing(x)'
      PROVE  ContentInv'
  BY <1>1, <1>2
<1>3. ASSUME NEW a \in Procs, NEW l, Goto(a, l), UNCHANGED io,
             \A b \in Procs : b = a \/ bh'[b] = bh[b],
             UNCHANGED <<disk, latest, data, blk, nalloc, uptodate, dirty>>,
             \A b \in Blocks : tree'[b] = NULL => tree[b] = NULL,
             a \in Threads => pc[a] \notin {"set_uptodate", "set_dirty"}
      PROVE  ContentInv'
  <2>1. \A b \in Procs : b # a => pc'[b] = pc[b]
    BY <1>3, <1>t DEF Goto
  <2>2. \A x \in Bufs : Changing(x) => Changing(x)'
    BY <1>3, <2>1, <1>0 DEF Changing
  <2> QED BY <1>2, <1>3, <2>2
<1>4. ASSUME NEW t \in Threads,
             \/ Start(t) \/ Detach(t) \/ DetachLocked(t) \/ Unlist(t)
             \/ Get(t) \/ LockBuffer(t) \/ TestUptodate(t)
             \/ UnlistRead(t) \/ Put(t) \/ Release(t) \/ Move(t) \/ Drop(t)
             \/ Pop(t) \/ Attach(t) \/ AttachLocked(t)
      PROVE  ContentInv'
  BY <1>0, <1>3, <1>4
     DEF Start, Detach, DetachLocked, Unlist, Get, LockBuffer,
         TestUptodate, UnlistRead, Put, Release, Move, Drop, Pop, Attach,
         AttachLocked, storeVars, bufVars, syncVars
<1>5. ASSUME NEW a \in Procs, SemWait(a) \/ SemPost(a) PROVE ContentInv'
  BY <1>3, <1>5, PostLabel DEF SemWait, SemPost, storeVars, bufVars
<1>6. ASSUME NEW t \in Threads, Search(t) PROVE ContentInv'
  <2>1. /\ \E l : Goto(t, l)
        /\ UNCHANGED <<io, tree, disk, latest, data, blk, nalloc, uptodate, dirty>>
        /\ \A b \in Procs : b = t \/ bh'[b] = bh[b]
        /\ pc[t] = "search"
    BY <1>6, <1>0, <1>t DEF Search, storeVars, bufVars, syncVars
  <2> QED BY <1>0, <1>3, <2>1
<1>7. ASSUME NEW t \in Threads, Insert(t) PROVE ContentInv'
  <2>1. /\ \E l : Goto(t, l) /\ UNCHANGED <<io, bh>>
        /\ UNCHANGED <<disk, latest, data, blk, nalloc, uptodate, dirty>>
        /\ pc[t] = "insert" /\ \E b, y : tree' = tree \/ tree' = [tree EXCEPT ![b] = bh[t]]
    BY <1>7 DEF Insert, bufVars, syncVars
  <2>2. bh[t] # NULL
    BY <2>1, <1>0, <1>t DEF TypeInv, PointersOK, PointerLabels, NULL
  <2>3. \A b \in Blocks : tree'[b] = NULL => tree[b] = NULL
    BY <2>1, <2>2, <1>t
  <2> QED BY <1>0, <1>3, <2>1, <2>3
<1>8. ASSUME NEW t \in Threads, Erase(t) \/ Free(t) PROVE FALSE
  BY <1>8 DEF TreeInv, Erase, Free
\* buffer_alloc: the device has the newest contents of a block that has no buffer
<1>9. ASSUME NEW t \in Threads, Alloc(t) PROVE ContentInv'
  <2>1. /\ UNCHANGED <<io, tree, disk, latest, data, uptodate, dirty>>
        /\ pc' = [pc EXCEPT ![t] = "insert"] /\ bh' = [bh EXCEPT ![t] = nalloc + 1]
        /\ blk' = [blk EXCEPT ![nalloc + 1] = arg[t]]
        /\ pc[t] = "alloc" /\ nalloc' = nalloc + 1 /\ nalloc < MaxOps
    BY <1>9 DEF Alloc, Goto, bufVars, syncVars
  <2>2. arg[t] \in Blocks /\ disk[arg[t]] = latest[arg[t]]
    BY <2>1 DEF TypeInv, PointersOK, TreeInv, ContentInv
  <2>3. nalloc + 1 \in Bufs /\ nalloc + 1 \notin 1 .. nalloc
    BY <2>1, <1>t DEF Bufs
  <2>4. ~uptodate[nalloc + 1] /\ io[nalloc + 1] = "none"
    BY <2>3, <1>b, <1>t DEF TreeInv
  <2>5. blk'[nalloc + 1] = arg[t] /\ \A x \in 1 .. nalloc : blk'[x] = blk[x]
    BY <2>1, <2>3, <1>t, <1>n
  <2>6. \A x \in 1 .. nalloc : Changing(x) => Changing(x)'
    BY <2>1, <1>0, <1>t DEF Changing
  <2>7. \A x \in 1 .. nalloc' : x \in 1 .. nalloc \/ x = nalloc + 1
    BY <2>1, <1>t
  <2> QED BY <2>1, <2>2, <2>4, <2>5, <2>6, <2>7 DEF ContentInv
\* bh_submit_read clears the flag of a buffer that is not BH_Uptodate
<1>10. ASSUME NEW t \in Threads, ClearDirty(t) PROVE ContentInv'
  <2>1. /\ UNCHANGED <<io, tree, disk, latest, data, uptodate, blk, nalloc, bh>>
        /\ Goto(t, "unlist_read") /\ pc[t] = "clear"
        /\ dirty' = [dirty EXCEPT ![bh[t]] = FALSE]
    BY <1>10 DEF ClearDirty, storeVars, syncVars
  <2>2. bh[t] \in Bufs /\ ~dirty[bh[t]]
    BY <2>1, <1>0, Deref DEF PointerLabels, UserLabels, TransferInv, ReadLabels, SemInv, UptodateInv
  <2>3. dirty' = dirty
    BY <2>1, <2>2, <1>t
  <2> QED BY <1>0, <1>3, <2>1, <2>3
<1>11. ASSUME NEW t \in Threads, Modify(t) PROVE ContentInv'
  <2>1. /\ UNCHANGED <<io, tree, disk, uptodate, dirty, blk, nalloc, bh>>
        /\ pc' = [pc EXCEPT ![t] = "set_uptodate"] /\ pc[t] = "modify"
        /\ latest' = [latest EXCEPT ![arg[t]] = latest[arg[t]] + 1]
        /\ data' = [data EXCEPT ![bh[t]] = latest[arg[t]] + 1]
    BY <1>11 DEF Modify, Goto, syncVars, bufVars
  <2>2. pc[t] \in PointerLabels \ {"insert"}
    BY <2>1 DEF PointerLabels, UserLabels
  <2>3. /\ bh[t] \in 1 .. nalloc /\ arg[t] \in Blocks
        /\ blk[bh[t]] = arg[t] /\ tree[arg[t]] = bh[t] /\ bh[t] # NULL
        /\ \A x \in 1 .. nalloc : blk[x] = arg[t] => x = bh[t]
    BY <2>2, OneBuffer
  <2>4. /\ latest'[arg[t]] = data'[bh[t]]
        /\ \A b \in Blocks : b # arg[t] => latest'[b] = latest[b]
        /\ \A x \in Bufs : x # bh[t] => data'[x] = data[x]
    BY <2>1, <2>3, <1>t, <1>n
  <2>5. \A x \in Bufs : Changing(x) \/ x = bh[t] => Changing(x)'
    BY <2>1, <1>0, <1>t DEF Changing
  <2>6. ASSUME NEW x \in 1 .. nalloc
        PROVE  /\ uptodate[x] \/ io[x] = "r_uptodate" => data'[x] = latest'[blk[x]]
               /\ \/ dirty[x] /\ io[x] \notin WriteStates \ {"write"}
                  \/ Changing(x)'
                  \/ disk[blk[x]] = latest'[blk[x]]
    <3>1. CASE x = bh[t]
      BY <3>1, <2>3, <2>4, <2>5, <1>n
    <3>2. CASE x # bh[t]
      <4>1. blk[x] \in Blocks /\ blk[x] # arg[t] /\ x \in Bufs
        BY <3>2, <2>3, <1>b, <1>n
      <4>2. data'[x] = data[x] /\ latest'[blk[x]] = latest[blk[x]]
        BY <4>1, <3>2, <2>4
      <4> QED BY <4>1, <4>2, <2>5 DEF ContentInv
    <3> QED BY <3>1, <3>2
  <2>7. \A b \in Blocks : tree[b] = NULL => disk[b] = latest'[b]
    BY <2>3, <2>4 DEF ContentInv
  <2> QED BY <2>1, <2>6, <2>7 DEF ContentInv
<1>12. ASSUME NEW t \in Threads, SetUptodate(t) PROVE ContentInv'
  <2>1. /\ UNCHANGED <<io, tree, disk, latest, data, dirty, blk, nalloc, bh>>
        /\ pc' = [pc EXCEPT ![t] = "set_dirty"] /\ pc[t] = "set_uptodate"
        /\ uptodate' = [uptodate EXCEPT ![bh[t]] = TRUE]
    BY <1>12 DEF SetUptodate, Goto, storeVars, syncVars
  <2>2. uptodate' = uptodate
    BY <2>1, <1>t DEF TransferInv
  <2>3. \A x \in Bufs : Changing(x) => Changing(x)'
    BY <2>1, <1>0, <1>t DEF Changing
  <2> QED BY <1>2, <2>1, <2>2, <2>3
<1>13. ASSUME NEW t \in Threads, SetDirty(t) PROVE ContentInv'
  <2>1. /\ UNCHANGED <<io, tree, disk, latest, data, uptodate, blk, nalloc, bh>>
        /\ pc' = [pc EXCEPT ![t] = "put"] /\ pc[t] = "set_dirty"
        /\ dirty' = [dirty EXCEPT ![bh[t]] = TRUE]
    BY <1>13 DEF SetDirty, Goto, storeVars, syncVars
  <2>2. bh[t] \in Bufs
    BY <2>1, <1>0, Deref DEF PointerLabels, UserLabels
  <2>3. dirty'[bh[t]] /\ \A x \in Bufs : dirty[x] => dirty'[x]
    BY <2>1, <2>2, <1>t
  <2>4. io[bh[t]] \notin WriteStates
    BY <2>1, <2>2 DEF TransferInv, Writes, UserLabels
  <2>5. \A x \in Bufs : Changing(x) => x = bh[t]
    BY DEF Changing, Alone
  <2> QED BY <1>1, <2>1, <2>3, <2>4, <2>5
\* The writeback thread
<1>14. CASE Wake \/ TryLock \/ Check \/ GetWrite
  BY <1>0, <1>3, <1>14
     DEF Wake, TryLock, Check, GetWrite, storeVars, bufVars, syncVars
<1>15. CASE First
  <2>1. /\ \E l : Goto(WB, l)
        /\ UNCHANGED <<io, tree, disk, latest, data, blk, nalloc, uptodate, dirty>>
        /\ \A b \in Procs : b = WB \/ bh'[b] = bh[b]
    BY <1>15, <1>0, <1>t DEF First, storeVars, bufVars, syncVars
  <2> QED BY <1>0, <1>3, <2>1
<1>16. ASSUME NEW a \in Procs, NEW l \in {"read", "write"}, Goto(a, "wait"),
              io' = [io EXCEPT ![bh[a]] = l], bh' = bh,
              UNCHANGED <<tree, disk, latest, data, blk, nalloc, uptodate, dirty>>,
              pc[a] \in {"submit_read", "submit_write"}
       PROVE  ContentInv'
  <2>1. \A b \in Procs : b # a => pc'[b] = pc[b]
    BY <1>16, <1>t DEF Goto
  <2>2. \A x \in Bufs : Changing(x) => Changing(x)'
    BY <1>16, <2>1, <1>0 DEF Changing
  <2>3. \A x \in Bufs : io'[x] = io[x] \/ io'[x] = l
    BY <1>16, <1>t
  <2>4. l \notin {"r_uptodate"} \cup (WriteStates \ {"write"})
    BY <1>16 DEF WriteStates
  <2> QED BY <1>2, <1>16, <2>2, <2>3, <2>4
<1>17. ASSUME NEW t \in Threads, SubmitRead(t) PROVE ContentInv'
  BY <1>0, <1>16, <1>17 DEF SubmitRead, storeVars, bufVars
<1>18. CASE SubmitWrite
  BY <1>0, <1>16, <1>18 DEF SubmitWrite, storeVars, bufVars
\* aio_read: the device has the newest contents of a buffer that is read
<1>19. ASSUME NEW x \in Bufs, TransferRead(x) PROVE ContentInv'
  <2>1. /\ UNCHANGED <<pc, bh, tree, disk, latest, blk, nalloc, uptodate, dirty>>
        /\ io[x] = "read" /\ io' = [io EXCEPT ![x] = "r_uptodate"]
        /\ data' = [data EXCEPT ![x] = disk[blk[x]]]
    BY <1>19 DEF TransferRead, IoGoto, bufVars
  <2>2. ~dirty[x]
    BY <2>1 DEF TransferInv, SemInv, UptodateInv
  <2>3. ~Changing(x)
    BY <2>1 DEF TransferInv, ReadStates, Changing, Alone
  <2>4. x \in 1 .. nalloc
    BY <2>1, <1>b
  <2>5. disk[blk[x]] = latest[blk[x]]
    BY <2>2, <2>3, <2>4 DEF ContentInv
  <2>6. data'[x] = latest[blk[x]] /\ \A y \in Bufs : y # x => data'[y] = data[y]
    BY <2>1, <2>5, <1>t
  <2>7. \A y \in Bufs : y # x => io'[y] = io[y]
    BY <2>1, <1>t
  <2>8. \A y \in Bufs : Changing(y)' <=> Changing(y)
    BY <2>1 DEF Changing
  <2> QED BY <2>1, <2>5, <2>6, <2>7, <2>8, <1>n DEF ContentInv
\* aio_write: the buffer has the newest contents of the block
<1>20. ASSUME NEW x \in Bufs, TransferWrite(x) PROVE ContentInv'
  <2>1. /\ UNCHANGED <<pc, bh, tree, data, latest, blk, nalloc, uptodate, dirty>>
        /\ io[x] = "write" /\ io' = [io EXCEPT ![x] = "w_uptodate"]
        /\ disk' = [disk EXCEPT ![blk[x]] = data[x]]
    BY <1>20 DEF TransferWrite, IoGoto, bufVars
  <2>2. x \in 1 .. nalloc /\ uptodate[x]
    BY <2>1, <1>b DEF TransferInv, WriteStates
  <2>3. data[x] = latest[blk[x]] /\ blk[x] \in Blocks
    BY <2>2, <1>b DEF ContentInv
  <2>4. /\ disk'[blk[x]] = latest[blk[x]]
        /\ \A b \in Blocks : disk'[b] = disk[b] \/ disk'[b] = latest[b]
    BY <2>1, <2>3, <1>t
  <2>5. \A y \in Bufs : y # x => io'[y] = io[y]
    BY <2>1, <1>t
  <2>6. \A y \in Bufs : Changing(y)' <=> Changing(y)
    BY <2>1 DEF Changing
  <2>7. io'[x] # "r_uptodate"
    BY <2>1, <1>t
  <2>8. \A b \in Blocks : disk[b] = latest[b] => disk'[b] = latest[b]
    BY <2>4
  <2>9. ASSUME NEW y \in 1 .. nalloc
        PROVE  /\ uptodate[y] \/ io'[y] = "r_uptodate" => data[y] = latest[blk[y]]
               /\ \/ dirty[y] /\ io'[y] \notin WriteStates \ {"write"}
                  \/ Changing(y)
                  \/ disk'[blk[y]] = latest[blk[y]]
    <3>1. CASE y = x
      BY <3>1, <2>3, <2>4
    <3>2. CASE y # x
      <4>1. io'[y] = io[y] /\ blk[y] \in Blocks
        BY <3>2, <2>5, <1>n, <1>b
      <4> QED BY <4>1, <2>8 DEF ContentInv
    <3> QED BY <3>1, <3>2
  <2> QED BY <2>1, <2>6, <2>8, <2>9, <1>n DEF ContentInv
<1>21. ASSUME NEW x \in Bufs, EndUptodate(x) PROVE ContentInv'
  <2>1. /\ UNCHANGED <<pc, bh, tree, disk, data, latest, blk, nalloc, dirty>>
        /\ uptodate' = [uptodate EXCEPT ![x] = TRUE]
        /\ \/ io[x] = "r_uptodate" /\ io' = [io EXCEPT ![x] = "r_put"]
           \/ io[x] = "w_uptodate" /\ io' = [io EXCEPT ![x] = "w_put"]
    BY <1>21 DEF EndUptodate, IoGoto, storeVars
  <2>2. uptodate[x] \/ io[x] = "r_uptodate"
    BY <2>1 DEF TransferInv, WriteStates
  <2>3. \A y \in Bufs : uptodate'[y] \/ io'[y] = "r_uptodate" =>
                           uptodate[y] \/ io[y] = "r_uptodate"
    BY <2>1, <2>2, <1>t
  <2>4. \A y \in Bufs : io[y] \notin WriteStates \ {"write"} =>
                           io'[y] \notin WriteStates \ {"write"}
    BY <2>1, <1>t DEF WriteStates
  <2>5. \A y \in Bufs : Changing(y)' <=> Changing(y)
    BY <2>1 DEF Changing
  <2> QED BY <1>1, <2>1, <2>3, <2>4, <2>5
\* after_buffer_sync clears BH_Dirty of a buffer that was written
<1>22. ASSUME NEW x \in Bufs, EndClear(x) PROVE ContentInv'
  <2>1. /\ UNCHANGED <<pc, bh, tree, disk, data, latest, blk, nalloc, uptodate>>
        /\ dirty' = [dirty EXCEPT ![x] = FALSE]
        /\ io[x] = "w_clear" /\ io' = [io EXCEPT ![x] = "w_attach"]
    BY <1>22 DEF EndClear, IoGoto, storeVars
  <2>2. x \in 1 .. nalloc
    BY <2>1, <1>b
  <2>3. ~Changing(x)
    BY <2>1 DEF TransferInv, Writes, WriteStates, UserLabels, Changing
  <2>4. disk[blk[x]] = latest[blk[x]]
    BY <2>1, <2>2, <2>3 DEF ContentInv, WriteStates
  <2>5. /\ io'[x] # "r_uptodate"
        /\ \A y \in Bufs : y # x => io'[y] = io[y] /\ dirty'[y] = dirty[y]
    BY <2>1, <1>t
  <2>6. \A y \in Bufs : Changing(y)' <=> Changing(y)
    BY <2>1 DEF Changing
  <2> QED BY <1>1, <2>1, <2>3, <2>4, <2>5, <2>6
<1>23. ASSUME NEW x \in Bufs,
              \/ EndPut(x) \/ EndUnlist(x) \/ EndAttach(x)
              \/ EndAttachLocked(x) \/ EndUnlock(x) \/ EndPost(x)
       PROVE  ContentInv'
  <2>1. UNCHANGED <<pc, bh, tree, disk, data, latest, blk, nalloc, uptodate, dirty>>
    BY <1>23 DEF EndPut, EndUnlist, EndAttach, EndAttachLocked, EndUnlock,
                 EndPost, storeVars, bufVars
  <2>2. \E l : /\ io' = [io EXCEPT ![x] = l] /\ l # "r_uptodate"
               /\ io[x] \in WriteStates \ {"write"} \/ l \notin WriteStates \ {"write"}
    BY <1>23 DEF EndPut, EndUnlist, EndAttach, EndAttachLocked, EndUnlock,
                 EndPost, IoGoto, WriteStates
  <2>3. \A y \in Bufs : /\ io'[y] = "r_uptodate" => io[y] = "r_uptodate"
                        /\ io[y] \notin WriteStates \ {"write"} =>
                              io'[y] \notin WriteStates \ {"write"}
    BY <2>2, <1>t
  <2>4. \A y \in Bufs : Changing(y)' <=> Changing(y)
    BY <2>1 DEF Changing
  <2> QED BY <1>1, <2>1, <2>3, <2>4
<1>24. CASE NotifyExit \/ Join \/ FreeDone \/ UNCHANGED vars
  <2>1. UNCHANGED <<pc, bh, io, tree, disk, data, latest, blk, nalloc, uptodate, dirty>>
    BY <1>24 DEF NotifyExit, Join, FreeDone, vars, storeVars, bufVars, syncVars
  <2> QED BY <2>1 DEF ContentInv, Changing
\* bdev_free frees buffers only when all of them are written
<1>25. CASE FreeFirst
  <2>1. /\ UNCHANGED <<pc, bh, io, disk, data, latest, blk, nalloc, uptodate, dirty>>
        /\ phase = "freeing"
    BY <1>25 DEF FreeFirst, bufVars, syncVars
  <2>2. PICK c \in Blocks : tree[c] # NULL /\ RbErase(tree[c])
    BY <1>25 DEF FreeFirst
  <2>3. blk[tree[c]] = c /\ tree[c] \in 1 .. nalloc
    BY <2>2, <1>t DEF TreeInv, TypeInv, PointersOK, NULL
  <2>4. tree' = [tree EXCEPT ![c] = NULL]
    BY <2>2, <2>3 DEF RbErase
  <2>5. disk[c] = latest[c]
    BY <2>1, <2>3, <1>n, Quiescent DEF ContentInv
  <2>6. \A b \in Blocks : tree'[b] = NULL => disk[b] = latest[b]
    BY <2>4, <2>5, <1>t DEF ContentInv
  <2> QED BY <2>1, <2>6 DEF ContentInv, Changing
<1>26. ASSUME NEW t \in Threads, ClientStep(t) PROVE ContentInv'
  BY <1>26, <1>0, <1>4, <1>5, <1>6, <1>7, <1>8, <1>9, <1>10, <1>11, <1>12,
     <1>13, <1>17 DEF ClientStep
<1>27. CASE WritebackStep
  BY <1>27, <1>0, <1>5, <1>14, <1>15, <1>18 DEF WritebackStep
<1>28. ASSUME NEW x \in Bufs, IoStep(x) PROVE ContentInv'
  BY <1>28, <1>19, <1>20, <1>21, <1>22, <1>23 DEF IoStep
<1> QED BY <1>4, <1>24, <1>25, <1>26, <1>27, <1>28 DEF Next, FreeStep, Terminated

-----------------------------------------------------------------------------
(* The theorems. *)

\* The initial state: no buffer, nothing queued.
LEMMA InitData == Init => ExitInv /\ TreeInv /\ TransferInv /\ QueueInv /\ ContentInv
<1> SUFFICES ASSUME Init
             PROVE  ExitInv /\ TreeInv /\ TransferInv /\ QueueInv /\ ContentInv
  OBVIOUS
<1>0. WB \notin Threads /\ Threads \subseteq Procs /\ WB \in Procs
  BY CacheConstants DEF Procs
<1>1. /\ \A t \in Threads : pc[t] = "idle" /\ op[t] = "read"
      /\ pc[WB] = "epoll" /\ phase = "up" /\ pipe = <<>> /\ command = 0
      /\ \A x \in Bufs : io[x] = "none" /\ ~dirty[x] /\ ~uptodate[x]
      /\ nalloc = 0 /\ \A b \in Blocks : tree[b] = NULL /\ disk[b] = latest[b]
  BY <1>0 DEF Init
<1>2. ExitInv
  BY <1>1 DEF ExitInv
<1>3. TreeInv
  BY <1>1 DEF TreeInv, PointerLabels, UserLabels, LockLabels
<1>4. TransferInv
  BY <1>1 DEF TransferInv, ReadLabels, WriteStates, ReadStates, Writes, UserLabels
<1>5. QueueInv
  BY <1>1 DEF QueueInv
<1>6. ContentInv
  BY <1>1 DEF ContentInv
<1> QED BY <1>2, <1>3, <1>4, <1>5, <1>6

\* What holds for one client whatever the device does.
LEMMA TransferInvariance ==
    ASSUME Alone PROVE Spec => [](ExitInv /\ TransferInv /\ QueueInv)
<1>1. TypeInv /\ LockInv /\ RefCount /\ SemInv /\ TransferInv /\ [Next]_vars
         => TransferInv'
  BY TransferStep
<1>2. TypeInv /\ LockInv /\ RefCount /\ SemInv /\ TransferInv /\ QueueInv /\ [Next]_vars
         => QueueInv'
  BY QueueStep
<1>3. TypeInv /\ SemInv /\ ExitInv /\ [Next]_vars => ExitInv'
  BY ExitStep DEF SemInv
<1> QED BY TypeInvariance, LockInvariance, CountsReferences, SemInvariance,
           InitData, <1>1, <1>2, <1>3, PTL DEF Spec

\* What holds as long as no buffer is dropped.
LEMMA DataInvariance ==
    ASSUME Alone, ~FaultyDevice
    PROVE  Spec /\ []WithinLimit => [](TreeInv /\ ContentInv)
<1>1. WithinLimit /\ TypeInv /\ ExitInv /\ TreeInv /\ [Next]_vars => TreeInv'
  BY TreeStep
<1>2. TypeInv /\ SemInv /\ ExitInv /\ TransferInv /\ QueueInv /\ TreeInv /\ ContentInv
         /\ [Next]_vars => ContentInv'
  BY ContentStep
<1> QED BY TypeInvariance, SemInvariance, TransferInvariance, InitData, <1>1,
           <1>2, PTL DEF Spec

\* set_bit and clear_bit of buffer.h are plain reads and writes of b_state.
\* With one client that only reads and updates, the client and the callback
\* of a transfer never do this to a buffer at the same time, however many
\* buffers are dropped and also when transfers fail.
THEOREM FlagsExclusive == ASSUME Alone PROVE Spec => []FlagUpdatesExclusive
<1>1. TransferInv => FlagUpdatesExclusive
  <2> SUFFICES ASSUME TransferInv, NEW x \in Bufs,
                      io[x] \in {"r_uptodate", "w_uptodate", "w_clear"},
                      NEW t \in Threads, bh[t] = x,
                      pc[t] \in {"clear", "set_uptodate", "set_dirty"}
               PROVE  FALSE
    BY DEF FlagUpdatesExclusive, Alone
  <2>1. CASE io[x] = "r_uptodate"
    BY <2>1 DEF TransferInv, ReadStates, Alone
  <2>2. CASE io[x] \in {"w_uptodate", "w_clear"}
    BY <2>2 DEF TransferInv, Writes, WriteStates, UserLabels
  <2> QED BY <2>1, <2>2
<1> QED BY TransferInvariance, <1>1, PTL

\* fs_bread returns the contents that the client last gave the block, also
\* when they were written back and read in again in the meantime.
THEOREM ReadsSeeWrites ==
    ASSUME Alone, ~FaultyDevice
    PROVE  Spec /\ []WithinLimit => []ReadsLatest
<1>1. TypeInv /\ SemInv /\ ExitInv /\ TreeInv /\ ContentInv => ReadsLatest
  <2> SUFFICES ASSUME TypeInv, SemInv, ExitInv, TreeInv, ContentInv,
                      NEW t \in Threads, pc[t] = "put"
               PROVE  data[bh[t]] = latest[arg[t]]
    BY DEF ReadsLatest
  <2>1. bh[t] \in 1 .. nalloc /\ blk[bh[t]] = arg[t]
    BY OneBuffer DEF PointerLabels, UserLabels
  <2>2. uptodate[bh[t]]
    BY DEF SemInv, UptodateInv, UptodateLabels, Procs
  <2> QED BY <2>1, <2>2 DEF ContentInv
<1> QED BY TypeInvariance, SemInvariance, TransferInvariance, DataInvariance,
           <1>1, PTL

\* What the device does not have yet is in the buffer that buffer_search finds,
\* and that buffer is queued, being written or in the hands of a thread: brelse
\* and the writeback thread forget no block.
THEOREM NothingForgotten ==
    ASSUME Alone, ~FaultyDevice
    PROVE  Spec /\ []WithinLimit => []Unflushed
<1>1. TypeInv /\ SemInv /\ TransferInv /\ TreeInv /\ QueueInv /\ ContentInv => Unflushed
  <2> SUFFICES ASSUME TypeInv, SemInv, TransferInv, TreeInv, QueueInv, ContentInv,
                      NEW b \in Blocks, disk[b] # latest[b]
               PROVE  /\ tree[b] # NULL /\ data[tree[b]] = latest[b]
                      /\ \/ OnDirtyList(tree[b])
                         \/ io[tree[b]] = "write"
                         \/ \E a \in Procs : bh[a] = tree[b] /\ pc[a] \in PointerLabels
    BY DEF Unflushed
  <2> DEFINE x == tree[b]
  <2>0. Threads \subseteq Procs /\ WB \in Procs
    BY DEF Procs
  <2>1. x # NULL /\ blk[x] = b
    BY DEF ContentInv, TreeInv
  <2>2. x \in 1 .. nalloc /\ x \in Bufs
    BY <2>1, CacheConstants DEF TypeInv, TypeOK, StoreType, PointersOK, Bufs, Nodes, NULL
  <2>3. \/ dirty[x] /\ io[x] \notin WriteStates \ {"write"}
        \/ Changing(x)
    BY <2>1, <2>2 DEF ContentInv
  <2> HIDE DEF x
  <2>4. CASE Changing(x)
    <3>1. PICK t \in Threads : bh[t] = x /\ pc[t] \in {"set_uptodate", "set_dirty"}
      BY <2>4 DEF Changing
    <3>2. uptodate[x]
      BY <2>0, <3>1 DEF SemInv, UptodateInv, UptodateLabels, TransferInv
    <3> QED BY <2>0, <2>1, <2>2, <3>1, <3>2 DEF ContentInv, PointerLabels, UserLabels, x
  <2>5. CASE dirty[x] /\ io[x] \notin WriteStates \ {"write"}
    <3>1. uptodate[x]
      BY <2>2, <2>5 DEF SemInv, UptodateInv
    <3>2. data[x] = latest[b]
      BY <2>1, <2>2, <3>1 DEF ContentInv
    <3>3. OnDirtyList(x) \/ Keeps(x)
      BY <2>2, <2>5 DEF QueueInv
    <3>4. \/ OnDirtyList(x) \/ io[x] = "write"
          \/ \E a \in Procs : bh[a] = x /\ pc[a] \in PointerLabels
      BY <2>0, <2>5, <3>3 DEF Keeps, KeepLabels, PointerLabels, UserLabels, LockLabels
    <3> QED BY <2>1, <3>2, <3>4 DEF x
  <2> QED BY <2>3, <2>4, <2>5
<1> QED BY TypeInvariance, SemInvariance, TransferInvariance, DataInvariance,
           <1>1, PTL

\* A step of the cache is a step of CachedDisk or leaves its variables alone:
\* the caller's change is a Write, the transfer of a buffer to the device a
\* Flush, and the end of bdev_free the Close.
LEMMA DiskStep ==
    ASSUME Alone, ~FaultyDevice, TypeInv, SemInv, ExitInv, TreeInv,
           TransferInv, QueueInv, ContentInv, [Next]_vars
    PROVE  [CD!Next]_(CD!vars)
<1>t. /\ disk \in [Blocks -> Content] /\ latest \in [Blocks -> Nat]
      /\ blk \in [Bufs -> Blocks \cup {NULL}]
      /\ phase \in {"up", "joining", "freeing", "done"}
  BY DEF TypeInv, TypeOK, StoreType, ThreadType
<1>1. ASSUME UNCHANGED <<disk, latest, phase>> PROVE UNCHANGED CD!vars
  BY <1>1 DEF CD!vars
<1>2. ASSUME NEW t \in Threads, Modify(t) PROVE CD!Next
  <2>1. /\ pc[t] = "modify" /\ UNCHANGED <<disk, phase>>
        /\ latest' = [latest EXCEPT ![arg[t]] = latest[arg[t]] + 1]
    BY <1>2 DEF Modify, otherVars
  <2>2. arg[t] \in Blocks
    BY <2>1 DEF TypeInv, PointersOK
  <2>3. phase # "done"
    BY <2>1 DEF ExitInv
  <2>4. CD!Write(arg[t])
    BY <2>1, <2>2, <2>3 DEF CD!Write
  <2> QED BY <2>2, <2>4 DEF CD!Next
<1>3. ASSUME NEW x \in Bufs, TransferWrite(x) PROVE CD!Next
  <2>1. /\ io[x] = "write" /\ UNCHANGED <<latest, phase>>
        /\ disk' = [disk EXCEPT ![blk[x]] = data[x]]
    BY <1>3 DEF TransferWrite, otherVars
  <2>2. x \in 1 .. nalloc /\ blk[x] \in Blocks
    BY <2>1 DEF TypeInv, PointersOK
  <2>3. uptodate[x]
    BY <2>1 DEF TransferInv, WriteStates
  <2>4. data[x] = latest[blk[x]]
    BY <2>2, <2>3 DEF ContentInv
  <2>5. phase # "done"
    BY <2>1, Quiescent
  <2>6. CD!Flush(blk[x])
    BY <2>1, <2>4, <2>5 DEF CD!Flush
  <2> QED BY <2>2, <2>6 DEF CD!Next
<1>4. CASE FreeDone
  <2>1. /\ phase = "freeing" /\ phase' = "done" /\ UNCHANGED <<disk, latest>>
        /\ \A b \in Blocks : tree[b] = NULL
    BY <1>4 DEF FreeDone, storeVars
  <2>2. disk = latest
    BY <2>1, <1>t DEF ContentInv
  <2>3. CD!Close
    BY <2>1, <2>2 DEF CD!Close
  <2> QED BY <2>3 DEF CD!Next
<1>5. CASE NotifyExit \/ Join
  <2>1. /\ UNCHANGED <<disk, latest>> /\ phase # "done" /\ phase' # "done"
    BY <1>5 DEF NotifyExit, Join, storeVars
  <2> QED BY <2>1 DEF CD!vars
<1>6. CASE UNCHANGED <<disk, latest>> /\ UNCHANGED phase
  BY <1>6, <1>1
<1>7. \/ UNCHANGED <<disk, latest>> /\ UNCHANGED phase
      \/ \E t \in Threads : Modify(t)
      \/ \E x \in Bufs : TransferWrite(x)
      \/ NotifyExit \/ Join \/ FreeDone
  <2>1. \/ UNCHANGED <<disk, latest>>
        \/ \E t \in Threads : Modify(t)
        \/ \E x \in Bufs : TransferWrite(x)
    BY StoreFrame DEF storeVars, Alloc, Insert, Erase, Free, TransferRead, FreeFirst
  <2>2. UNCHANGED phase \/ NotifyExit \/ Join \/ FreeDone
    BY OtherFrame DEF otherVars, Start, Alloc, Pop, Wake
  <2> QED BY <2>1, <2>2
<1> QED BY <1>2, <1>3, <1>4, <1>5, <1>6, <1>7

\* The cache implements CachedDisk: only the newest contents of a block are
\* ever written to the device, and bdev_free ends only when the device has
\* the newest contents of every block.
THEOREM CacheRefined ==
    ASSUME Alone, ~FaultyDevice
    PROVE  Spec /\ []WithinLimit => Implements
<1>1. Init => CD!Init
  BY DEF Init, CD!Init
<1>2. TypeInv /\ SemInv /\ ExitInv /\ TransferInv /\ QueueInv /\ TreeInv /\ ContentInv
         /\ [Next]_vars => [CD!Next]_(CD!vars)
  BY DiskStep
<1> QED BY TypeInvariance, SemInvariance, TransferInvariance, DataInvariance,
           <1>1, <1>2, PTL DEF Spec, Implements, CD!Spec
=============================================================================
