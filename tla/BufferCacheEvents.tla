------------------------- MODULE BufferCacheEvents -------------------------
(***************************************************************************)
(* Proofs about b_event, the semaphore of a buffer, for any number of      *)
(* clients, whatever they do, and also when transfers fail.                *)
(*                                                                         *)
(* The token of a buffer is never missing when submit_bh wants it, for two *)
(* reasons: a buffer that anybody can wait for or write is uptodate, so    *)
(* that a read is submitted only when nobody can; and a write is submitted *)
(* only when the buffer had no users.                                      *)
(***************************************************************************)
EXTENDS BufferCacheProofs

-----------------------------------------------------------------------------
(* The inductive invariant. *)

\* Labels at which the buffer of a thread is BH_Uptodate, and the states of a
\* transfer in which it need not be.
UptodateLabels == {"post", "set_dirty", "put", "release", "move", "trylock",
                   "check", "get_write", "submit_write"}
EarlyIo == {"none", "read", "r_uptodate", "write", "w_uptodate"}

UptodateInv ==
    /\ \A x \in Bufs : dirty[x] => uptodate[x]
    /\ \A x \in Bufs : io[x] \notin EarlyIo => uptodate[x]
    /\ \A x \in Bufs : OnDirtyList(x) => uptodate[x]
    /\ \A a \in Procs : pc[a] \in UptodateLabels => uptodate[bh[a]]
    /\ \A a \in Procs : pc[a] = "wait" =>
          uptodate[bh[a]] \/ io[bh[a]] \in {"read", "r_uptodate"}

\* EventToken without its last conjunct.
Posts(a, x) == bh[a] = x /\ pc[a] = "post"

TokenInv ==
    \A x \in Bufs :
        /\ \A a, b \in Procs : Posts(a, x) /\ Posts(b, x) => a = b
        /\ io[x] # "none" => \A a \in Procs : ~Posts(a, x)
        /\ event[x] = IF io[x] # "none" \/ \E a \in Procs : Posts(a, x)
                      THEN 0 ELSE 1

\* Whoever submitted a transfer waits for it.
WaitInv ==
    \A x \in Bufs : io[x] # "none" => \E a \in Procs : bh[a] = x /\ pc[a] = "wait"

\* While a client prepares a read, no other thread is on its way to the
\* semaphore or to the dirty list.
ReadLabels == {"clear", "unlist_read", "submit_read"}
BusyLabels == {"wait", "post", "release", "move", "trylock", "check",
               "get_write", "submit_write"}

ReadInv ==
    \A t \in Threads : pc[t] \in ReadLabels =>
        /\ io[bh[t]] = "none" /\ ~OnDirtyList(bh[t])
        /\ \A a \in Procs : bh[a] = bh[t] => pc[a] \notin BusyLabels

\* While the writeback thread prepares a write, every client of the buffer is
\* still before lock_buffer, or does not wait at all (fs_bwrite).
ReaderLabels == {"test", "clear", "unlist_read", "submit_read", "wait", "post"}

WriteInv ==
    pc[WB] \in {"get_write", "submit_write"} =>
        /\ io[bh[WB]] = "none"
        /\ \A t \in Threads : bh[t] = bh[WB] => pc[t] \notin ReaderLabels

\* The clients and the writeback thread run different code.
WritebackLabels == {"epoll", "first", "trylock", "check", "get_write",
                    "submit_write", "wait", "post", "exited"}
ClientLabels == (PcLabels \ WritebackLabels) \cup {"wait", "post"}

LabelInv == pc[WB] \in WritebackLabels /\ \A t \in Threads : pc[t] \in ClientLabels

SemInv == LabelInv /\ UptodateInv /\ TokenInv /\ WaitInv /\ ReadInv /\ WriteInv

-----------------------------------------------------------------------------
(* Frames. *)

\* remove_buffer_from_writeback adds nothing to the list, and takes off the
\* buffer it is called with and no other.
LEMMA UnlistedContents ==
    ASSUME dirtyList \in Seq(Bufs), NEW x, RemoveFromWriteback(x)
    PROVE  /\ \A y : OnDirtyList(y)' => OnDirtyList(y)
           /\ \A y : y # x /\ OnDirtyList(y) => OnDirtyList(y)'
           /\ DirtyCounted => ~OnDirtyList(x)'
<1>1. CASE ~OnDirtyList(x)
  BY <1>1 DEF RemoveFromWriteback, dirtyVars, OnDirtyList
<1>2. CASE OnDirtyList(x)
  <2> DEFINE k == CHOOSE j \in DOMAIN dirtyList : dirtyList[j] = x
             r == SubSeq(dirtyList, 1, k - 1)
                    \o SubSeq(dirtyList, k + 1, Len(dirtyList))
  <2>1. k \in 1 .. Len(dirtyList) /\ dirtyList[k] = x
    BY <1>2 DEF OnDirtyList
  <2>2. dirtyList' = r
    BY <1>2 DEF RemoveFromWriteback
  <2> HIDE DEF k
  <2>3. /\ r \in Seq(Bufs) /\ Len(r) = Len(dirtyList) - 1
        /\ \A j \in 1 .. Len(r) :
              r[j] = IF j < k THEN dirtyList[j] ELSE dirtyList[j + 1]
    BY <2>1, CutSeq, Zenon
  <2> HIDE DEF r
  <2>4. ASSUME NEW i \in 1 .. Len(r)
        PROVE  \E j \in 1 .. Len(dirtyList) : j # k /\ r[i] = dirtyList[j]
    <3>1. CASE i < k
      BY <3>1, <2>1, <2>3
    <3>2. CASE i >= k
      BY <3>2, <2>1, <2>3
    <3> QED BY <3>1, <3>2, <2>1
  <2>5. ASSUME NEW j \in 1 .. Len(dirtyList), j # k
        PROVE  \E i \in 1 .. Len(r) : r[i] = dirtyList[j]
    <3>1. CASE j < k
      BY <3>1, <2>1, <2>3
    <3>2. CASE j > k
      <4>1. j - 1 \in 1 .. Len(r) /\ ~(j - 1 < k) /\ (j - 1) + 1 = j
        BY <3>2, <2>1, <2>3
      <4> QED BY <4>1, <2>3
    <3> QED BY <3>1, <3>2, <2>1, <2>5
  <2>6. DOMAIN dirtyList = 1 .. Len(dirtyList) /\ DOMAIN r = 1 .. Len(r)
    BY <2>3
  <2>7. ASSUME NEW y, OnDirtyList(y)' PROVE OnDirtyList(y)
    BY <2>2, <2>4, <2>6, <2>7 DEF OnDirtyList
  <2>8. ASSUME NEW y, y # x, OnDirtyList(y) PROVE OnDirtyList(y)'
    BY <2>1, <2>2, <2>5, <2>6, <2>8 DEF OnDirtyList
  <2>9. ASSUME DirtyCounted PROVE ~OnDirtyList(x)'
    BY <2>1, <2>2, <2>4, <2>6, <2>9 DEF OnDirtyList, DirtyCounted
  <2> QED BY <2>7, <2>8, <2>9
<1> QED BY <1>1, <1>2

\* move_buffer_to_writeback adds its buffer and no other.
LEMMA ListedContents ==
    ASSUME dirtyList \in Seq(Bufs), NEW x \in Bufs, MoveToWriteback(x)
    PROVE  \A y : OnDirtyList(y)' <=> OnDirtyList(y) \/ y = x
<1>1. CASE OnDirtyList(x)
  BY <1>1 DEF MoveToWriteback, dirtyVars, OnDirtyList
<1>2. CASE ~OnDirtyList(x)
  <2>1. dirtyList' = Append(dirtyList, x)
    BY <1>2 DEF MoveToWriteback
  <2>2. /\ DOMAIN dirtyList = 1 .. Len(dirtyList) /\ Len(dirtyList) \in Nat
        /\ DOMAIN dirtyList' = 1 .. Len(dirtyList) + 1
        /\ \A i \in 1 .. Len(dirtyList) : dirtyList'[i] = dirtyList[i]
        /\ dirtyList'[Len(dirtyList) + 1] = x
    BY <2>1
  <2> QED BY <2>2 DEF OnDirtyList
<1> QED BY <1>1, <1>2

\* remove_first_buffer_from_writeback takes off the head.
LEMMA TailContents ==
    ASSUME dirtyList \in Seq(Bufs), dirtyList # <<>>, dirtyList' = Tail(dirtyList)
    PROVE  /\ OnDirtyList(Head(dirtyList)) /\ Head(dirtyList) \in Bufs
           /\ \A y : OnDirtyList(y)' => OnDirtyList(y)
           /\ \A y : OnDirtyList(y) => OnDirtyList(y)' \/ y = Head(dirtyList)
           /\ DirtyCounted => \A i \in DOMAIN dirtyList' : dirtyList'[i] # Head(dirtyList)
<1>1. /\ DOMAIN dirtyList = 1 .. Len(dirtyList) /\ Len(dirtyList) \in Nat \ {0}
      /\ Head(dirtyList) = dirtyList[1]
      /\ DOMAIN dirtyList' = 1 .. Len(dirtyList) - 1
      /\ \A i \in 1 .. Len(dirtyList) - 1 : dirtyList'[i] = dirtyList[i + 1]
  OBVIOUS
<1>2. ASSUME NEW y, OnDirtyList(y)' PROVE OnDirtyList(y)
  BY <1>1, <1>2 DEF OnDirtyList
<1>3. ASSUME NEW i \in DOMAIN dirtyList
      PROVE  dirtyList[i] = Head(dirtyList) \/ \E j \in DOMAIN dirtyList' : dirtyList'[j] = dirtyList[i]
  <2>1. CASE i = 1
    BY <1>1, <2>1
  <2>2. CASE i # 1
    <3>1. i - 1 \in DOMAIN dirtyList' /\ dirtyList'[i - 1] = dirtyList[i]
      BY <1>1, <2>2
    <3> QED BY <3>1
  <2> QED BY <2>1, <2>2
<1>4. ASSUME DirtyCounted, NEW i \in DOMAIN dirtyList'
      PROVE  dirtyList'[i] # Head(dirtyList)
  BY <1>1, <1>4 DEF DirtyCounted
<1> QED BY <1>1, <1>2, <1>3, <1>4 DEF OnDirtyList

\* Labels that the invariant speaks of.
SemLabels == UptodateLabels \cup ReadLabels \cup {"test", "wait"}

\* A step of no consequence here.
Quiet ==
    /\ UNCHANGED <<uptodate, dirty, event, io>>
    /\ \A x \in Bufs : OnDirtyList(x)' => OnDirtyList(x)
    /\ \A a \in Procs : \/ pc'[a] = pc[a] /\ bh'[a] = bh[a]
                        \/ pc[a] \notin SemLabels /\ pc'[a] \notin SemLabels

\* The actions that change what the invariants below are about.
LEMMA SemFrame ==
    ASSUME TypeInv, [Next]_vars
    PROVE  \/ Quiet
           \/ \E t \in Threads : \/ LockBuffer(t) \/ TestUptodate(t)
                                 \/ ClearDirty(t) \/ UnlistRead(t)
                                 \/ SubmitRead(t) \/ SetUptodate(t)
                                 \/ SetDirty(t) \/ Put(t) \/ Release(t)
                                 \/ Move(t)
           \/ \E a \in Procs : SemWait(a) \/ SemPost(a)
           \/ First \/ TryLock \/ Check \/ GetWrite \/ SubmitWrite
           \/ \E x \in Bufs : IoStep(x)
<1> DEFINE Moves == \/ UNCHANGED <<pc, bh>>
                    \/ \E a \in Procs, l \in PcLabels \ SemLabels :
                          /\ Goto(a, l) /\ bh' = bh
                          /\ pc[a] \notin SemLabels
                    \/ \E t \in Threads, l \in PcLabels \ SemLabels :
                          /\ Goto(t, l) /\ \E y : bh' = [bh EXCEPT ![t] = y]
                          /\ pc[t] \notin SemLabels
           Plain == /\ UNCHANGED <<uptodate, dirty, event, io>>
                    /\ dirtyList' = dirtyList \/ \E x : RemoveFromWriteback(x)
                    /\ Moves
           Named == \/ \E t \in Threads : \/ LockBuffer(t) \/ TestUptodate(t)
                                          \/ ClearDirty(t) \/ UnlistRead(t)
                                          \/ SubmitRead(t) \/ SetUptodate(t)
                                          \/ SetDirty(t) \/ Put(t) \/ Release(t)
                                          \/ Move(t)
                    \/ \E a \in Procs : SemWait(a) \/ SemPost(a)
                    \/ First \/ TryLock \/ Check \/ GetWrite \/ SubmitWrite
                    \/ \E x \in Bufs : IoStep(x)
<1>1. Plain \/ Named
  <2> USE DEF SemLabels, UptodateLabels, ReadLabels, PcLabels, PointerLabels,
              UserLabels, LockLabels, Procs, otherVars, listVars, freeVars,
              dirtyVars, syncVars, bufVars
  <2>1. ASSUME NEW t \in Threads, Start(t) \/ Search(t) \/ Alloc(t)
        PROVE  Plain
    BY <2>1 DEF Start, Search, Alloc
  <2>2. ASSUME NEW t \in Threads,
               \/ Detach(t) \/ DetachLocked(t) \/ Unlist(t) \/ Insert(t)
               \/ Get(t) \/ Modify(t)
        PROVE  Plain
    BY <2>2 DEF Detach, DetachLocked, Unlist, Insert, Get, Modify
  <2>3. ASSUME NEW t \in Threads,
               \/ Drop(t) \/ Pop(t) \/ Erase(t) \/ Free(t) \/ Attach(t)
               \/ AttachLocked(t)
        PROVE  Plain
    BY <2>3 DEF Drop, Pop, Erase, Free, Attach, AttachLocked
  <2>4. CASE Wake \/ NotifyExit \/ FreeStep \/ UNCHANGED vars
    BY <2>4 DEF Wake, NotifyExit, FreeStep, Join, FreeFirst, FreeDone, vars
  <2> HIDE DEF Plain, SemLabels, PcLabels, listVars
  <2> QED BY <2>1, <2>2, <2>3, <2>4
          DEF Next, ClientStep, WritebackStep, Terminated
<1>2. ASSUME Plain PROVE Quiet
  <2>1. dirtyList \in Seq(Bufs) /\ pc \in [Procs -> PcLabels] /\ bh \in [Procs -> Nodes]
    BY DEF TypeInv, TypeOK, ListType, ThreadType
  <2>2. \A x \in Bufs : OnDirtyList(x)' => OnDirtyList(x)
    <3>1. CASE dirtyList' = dirtyList
      BY <3>1 DEF OnDirtyList
    <3>2. CASE \E x : RemoveFromWriteback(x)
      BY <3>2, <2>1, UnlistedContents
    <3> QED BY <1>2, <3>1, <3>2
  <2>3. \A a \in Procs : \/ pc'[a] = pc[a] /\ bh'[a] = bh[a]
                         \/ pc[a] \notin SemLabels /\ pc'[a] \notin SemLabels
    BY <1>2, <2>1 DEF Goto, Procs
  <2> QED BY <1>2, <2>2, <2>3 DEF Quiet
<1> QED BY <1>1, <1>2 DEF Named

\* What a step of a transfer and of its callback does.
LEMMA IoFrame ==
    ASSUME TypeInv, NEW x \in Bufs, IoStep(x)
    PROVE  /\ UNCHANGED <<pc, bh>>
           /\ \A y \in Bufs \ {x} : io'[y] = io[y] /\ event'[y] = event[y]
           /\ io[x] # "none"
           /\ io[x] = "end_post" => io'[x] = "none" /\ event'[x] = event[x] + 1
           /\ io[x] # "end_post" => io'[x] # "none" /\ event'[x] = event[x]
           /\ \A y \in Bufs : OnDirtyList(y)' => OnDirtyList(y)
           /\ \A y \in Bufs : uptodate[y] => uptodate'[y]
           /\ \A y \in Bufs : dirty'[y] => dirty[y]
           /\ io[x] \in {"r_uptodate", "w_uptodate"} => uptodate'[x]
           /\ io'[x] \notin EarlyIo =>
                 io[x] \in {"r_uptodate", "w_uptodate"} \/ io[x] \notin EarlyIo
           /\ io[x] = "read" => io'[x] = "r_uptodate"
<1> USE DEF TypeInv, TypeOK, SyncType, BufType, ListType
<1>1. \/ dirtyList' = dirtyList \/ RemoveFromWriteback(x)
  BY DEF IoStep, TransferRead, TransferWrite, EndUptodate, EndPut, EndUnlist,
         EndClear, EndAttach, EndAttachLocked, EndUnlock, EndPost, listVars,
         dirtyVars
<1>2. \A y \in Bufs : OnDirtyList(y)' => OnDirtyList(y)
  BY <1>1, UnlistedContents DEF OnDirtyList
<1>3. CASE EndPost(x)
  BY <1>2, <1>3 DEF EndPost, SemGive, IoGoto, bufVars, listVars, EarlyIo
<1>4. CASE EndUptodate(x)
  BY <1>2, <1>4 DEF EndUptodate, IoGoto, EarlyIo
<1>5. CASE EndPut(x) \/ EndClear(x)
  BY <1>2, <1>5 DEF EndPut, EndClear, IoGoto, EarlyIo
<1>6. CASE \/ TransferRead(x) \/ TransferWrite(x) \/ EndUnlist(x)
           \/ EndAttach(x) \/ EndAttachLocked(x) \/ EndUnlock(x)
  BY <1>2, <1>6 DEF TransferRead, TransferWrite, EndUnlist, EndAttach,
                    EndAttachLocked, EndUnlock, IoGoto, bufVars, EarlyIo
<1> QED BY <1>3, <1>4, <1>5, <1>6 DEF IoStep

-----------------------------------------------------------------------------
(* The parts of the invariant, one after the other. *)

\* Where wait_on_buffer returns to.
LEMMA PostLabel ==
    ASSUME NEW a, SemPost(a) PROVE \E l \in {"first", "put", "modify"} : Goto(a, l)
<1>1. CASE a = WB
  BY <1>1 DEF SemPost
<1>2. CASE a # WB /\ op[a] = "read"
  BY <1>2 DEF SemPost
<1>3. CASE a # WB /\ op[a] # "read"
  BY <1>3 DEF SemPost
<1> QED BY <1>1, <1>2, <1>3

\* The writeback thread and the clients keep to their own code.
LEMMA LabelStep == TypeInv /\ LabelInv /\ [Next]_vars => LabelInv'
<1> SUFFICES ASSUME TypeInv, LabelInv, [Next]_vars PROVE LabelInv'
  OBVIOUS
<1>0. WB \notin Threads
  BY CacheConstants
<1>1. ASSUME NEW t \in Threads, SemPost(t) PROVE Goto(t, "put") \/ Goto(t, "modify")
  <2>1. CASE op[t] = "read"
    BY <1>0, <1>1, <2>1 DEF SemPost
  <2>2. CASE op[t] # "read"
    BY <1>0, <1>1, <2>2 DEF SemPost
  <2> QED BY <2>1, <2>2
<1>2. SemPost(WB) => Goto(WB, "first")
  BY DEF SemPost
<1>3. \/ pc' = pc
      \/ \E t \in Threads, l \in ClientLabels : Goto(t, l)
      \/ \E l \in WritebackLabels : Goto(WB, l)
  BY <1>1, <1>2
     DEF Next, ClientStep, WritebackStep, IoStep, FreeStep, Terminated, vars,
       PcLabels, PointerLabels, UserLabels, LockLabels, WritebackLabels,
       ClientLabels, Start, Search, Detach, DetachLocked, Unlist, Alloc,
       Insert, Get, LockBuffer, TestUptodate, ClearDirty, UnlistRead,
       SubmitRead, SemWait, Modify, SetUptodate, SetDirty, Put, Release, Move,
       Drop, Pop, Erase, Free, Attach, AttachLocked, Wake, First, TryLock,
       Check, GetWrite, SubmitWrite, TransferRead, TransferWrite, EndUptodate,
       EndPut, EndUnlist, EndClear, EndAttach, EndAttachLocked, EndUnlock,
       EndPost, NotifyExit, Join, FreeFirst, FreeDone
<1> QED BY <1>0, <1>3 DEF LabelInv, Goto, TypeInv, TypeOK, ThreadType, Procs

\* Steps that leave the semaphores and the callers of sem_post alone.
LEMMA TokenFrame ==
    ASSUME TypeInv, TokenInv, UNCHANGED <<event, io>>,
           \A a \in Procs, x \in Bufs : Posts(a, x)' <=> Posts(a, x)
    PROVE  TokenInv'
BY DEF TokenInv

\* sem_wait takes the token from the semaphore, and whoever has it posts it.
LEMMA TokenStep == TypeInv /\ TokenInv /\ [Next]_vars => TokenInv'
<1> SUFFICES ASSUME TypeInv, TokenInv, [Next]_vars PROVE TokenInv'
  OBVIOUS
<1>t. /\ pc \in [Procs -> PcLabels] /\ bh \in [Procs -> Nodes]
      /\ event \in [Bufs -> Nat] /\ io \in [Bufs -> IoStates]
  BY DEF TypeInv, TypeOK, ThreadType, SyncType
<1>0. Threads \subseteq Procs /\ WB \in Procs
  BY DEF Procs
<1>1. CASE Quiet
  BY <1>1, TokenFrame DEF Quiet, Posts, SemLabels, UptodateLabels
\* A thread moves, and is not at "post" before or after.
<1>2. ASSUME NEW a \in Procs, NEW l, Goto(a, l), UNCHANGED <<bh, event, io>>,
             l # "post", pc[a] # "post"
      PROVE  TokenInv'
  BY <1>2, <1>t, TokenFrame DEF Goto, Posts
<1>3. ASSUME NEW t \in Threads,
             \/ LockBuffer(t) \/ TestUptodate(t) \/ ClearDirty(t)
             \/ UnlistRead(t) \/ SetUptodate(t) \/ SetDirty(t) \/ Put(t)
             \/ Release(t) \/ Move(t)
      PROVE  TokenInv'
  BY <1>0, <1>2, <1>3
     DEF LockBuffer, TestUptodate, ClearDirty, UnlistRead, SetUptodate,
         SetDirty, Put, Release, Move, syncVars
<1>4. CASE TryLock \/ Check \/ GetWrite
  BY <1>0, <1>2, <1>4 DEF TryLock, Check, GetWrite, syncVars
<1>5. CASE First
  <2>1. /\ \A a \in Procs \ {WB} : pc'[a] = pc[a] /\ bh'[a] = bh[a]
        /\ pc[WB] # "post" /\ pc'[WB] # "post" /\ UNCHANGED <<event, io>>
    BY <1>0, <1>5, <1>t DEF First, Goto, syncVars
  <2> QED BY <2>1, TokenFrame DEF Posts
\* The token is taken: by submit_bh for the transfer, by wait_on_buffer.
<1>6. ASSUME NEW a \in Procs, NEW l \in {"read", "write"}, bh[a] \in Bufs,
             SemTake(bh[a]), io' = [io EXCEPT ![bh[a]] = l],
             Goto(a, "wait"), pc[a] # "post", bh' = bh
      PROVE  TokenInv'
  BY <1>6, <1>t DEF TokenInv, SemTake, Goto, Posts
<1>7. ASSUME NEW a \in Procs, SemWait(a) PROVE TokenInv'
  <2>1. bh[a] \in Bufs
    BY <1>7, Deref DEF SemWait, PointerLabels, UserLabels
  <2> QED BY <1>7, <2>1, <1>t DEF TokenInv, SemWait, SemTake, Goto, Posts
\* The token is given back.
<1>8. ASSUME NEW a \in Procs, SemPost(a) PROVE TokenInv'
  <2>1. bh[a] \in Bufs
    BY <1>8, Deref DEF SemPost, PointerLabels, UserLabels
  <2>2. PICK l \in {"first", "put", "modify"} : pc' = [pc EXCEPT ![a] = l]
    BY <1>8, PostLabel DEF Goto
  <2>3. /\ UNCHANGED <<bh, io>> /\ Posts(a, bh[a])
        /\ event' = [event EXCEPT ![bh[a]] = @ + 1]
    BY <1>8 DEF SemPost, SemGive, Posts
  <2> QED BY <2>1, <2>2, <2>3, <1>t DEF TokenInv, Posts
<1>9. ASSUME NEW x \in Bufs, IoStep(x) PROVE TokenInv'
  BY <1>9, <1>t, IoFrame DEF TokenInv, Posts
<1>10. ASSUME NEW t \in Threads, SubmitRead(t) PROVE TokenInv'
  <2>1. bh[t] \in Bufs
    BY <1>0, <1>10, Deref DEF SubmitRead, PointerLabels, UserLabels
  <2> QED BY <1>0, <1>6, <1>10, <2>1 DEF SubmitRead
<1>11. CASE SubmitWrite
  <2>1. bh[WB] \in Bufs
    BY <1>0, <1>11, Deref DEF SubmitWrite, PointerLabels, LockLabels
  <2> QED BY <1>0, <1>6, <1>11, <2>1 DEF SubmitWrite
<1> QED BY SemFrame, <1>1, <1>3, <1>4, <1>5, <1>7, <1>8, <1>9, <1>10, <1>11

\* The transfer's owner waits at b_event, which is 0 until the callback is done.
LEMMA WaitStep == TypeInv /\ TokenInv /\ WaitInv /\ [Next]_vars => WaitInv'
<1> SUFFICES ASSUME TypeInv, TokenInv, WaitInv, [Next]_vars PROVE WaitInv'
  OBVIOUS
<1>t. /\ pc \in [Procs -> PcLabels] /\ bh \in [Procs -> Nodes]
      /\ event \in [Bufs -> Nat] /\ io \in [Bufs -> IoStates]
  BY DEF TypeInv, TypeOK, ThreadType, SyncType
<1>0. Threads \subseteq Procs /\ WB \in Procs
  BY DEF Procs
<1>1. CASE Quiet
  BY <1>1 DEF Quiet, WaitInv, SemLabels
<1>2. ASSUME NEW a \in Procs, NEW l, Goto(a, l), UNCHANGED <<bh, io>>,
             pc[a] # "wait"
      PROVE  WaitInv'
  BY <1>2, <1>t DEF Goto, WaitInv
<1>3. ASSUME NEW t \in Threads,
             \/ LockBuffer(t) \/ TestUptodate(t) \/ ClearDirty(t)
             \/ UnlistRead(t) \/ SetUptodate(t) \/ SetDirty(t) \/ Put(t)
             \/ Release(t) \/ Move(t)
      PROVE  WaitInv'
  BY <1>0, <1>2, <1>3
     DEF LockBuffer, TestUptodate, ClearDirty, UnlistRead, SetUptodate,
         SetDirty, Put, Release, Move, syncVars
<1>4. CASE TryLock \/ Check \/ GetWrite
  BY <1>0, <1>2, <1>4 DEF TryLock, Check, GetWrite, syncVars
<1>5. CASE First
  <2>1. /\ \A a \in Procs \ {WB} : pc'[a] = pc[a] /\ bh'[a] = bh[a]
        /\ pc[WB] # "wait" /\ io' = io
    BY <1>0, <1>5, <1>t DEF First, Goto, syncVars
  <2> QED BY <2>1 DEF WaitInv
<1>6. ASSUME NEW a \in Procs, NEW l \in {"read", "write"},
             io' = [io EXCEPT ![bh[a]] = l], Goto(a, "wait"), bh' = bh
      PROVE  WaitInv'
  BY <1>6, <1>t DEF WaitInv, Goto
\* sem_wait succeeds only when no transfer is in hand
<1>7. ASSUME NEW a \in Procs, SemWait(a) PROVE WaitInv'
  <2>1. bh[a] \in Bufs
    BY <1>7, Deref DEF SemWait, PointerLabels, UserLabels
  <2>2. io[bh[a]] = "none" /\ UNCHANGED <<io, bh>>
    BY <1>7, <2>1, <1>t DEF TokenInv, SemWait, SemTake
  <2> QED BY <1>7, <2>1, <2>2, <1>t DEF WaitInv, SemWait, Goto
<1>8. ASSUME NEW a \in Procs, SemPost(a) PROVE WaitInv'
  BY <1>2, <1>8 DEF SemPost
<1>9. ASSUME NEW x \in Bufs, IoStep(x) PROVE WaitInv'
  BY <1>9, IoFrame DEF WaitInv
<1> QED BY SemFrame, <1>0, <1>1, <1>3, <1>4, <1>5, <1>6, <1>7, <1>8, <1>9
        DEF SubmitRead, SubmitWrite

\* A buffer is BH_Uptodate before anybody can queue it or be through waiting.
LEMMA UptodateStep ==
    TypeInv /\ TokenInv /\ UptodateInv /\ [Next]_vars => UptodateInv'
<1> SUFFICES ASSUME TypeInv, TokenInv, UptodateInv, [Next]_vars
             PROVE  UptodateInv'
  OBVIOUS
<1>t. /\ pc \in [Procs -> PcLabels] /\ bh \in [Procs -> Nodes]
      /\ event \in [Bufs -> Nat] /\ io \in [Bufs -> IoStates]
      /\ uptodate \in [Bufs -> BOOLEAN] /\ dirty \in [Bufs -> BOOLEAN]
      /\ dirtyList \in Seq(Bufs)
  BY DEF TypeInv, TypeOK, ThreadType, SyncType, BufType, ListType
<1>0. Threads \subseteq Procs /\ WB \in Procs
  BY DEF Procs
<1>p. \A a \in Procs : pc[a] \in UptodateLabels \cup {"wait"} => bh[a] \in Bufs
  BY Deref DEF PointerLabels, UserLabels, LockLabels, UptodateLabels
<1>1. CASE Quiet
  BY <1>1 DEF Quiet, UptodateInv, SemLabels
\* A thread moves; its buffer is uptodate if the new label asks for it.
<1>2. ASSUME NEW a \in Procs, NEW l, Goto(a, l), bh' = bh,
             l \in UptodateLabels \cup {"wait"} => uptodate'[bh[a]],
             \A x \in Bufs : uptodate[x] => uptodate'[x],
             \A x \in Bufs : dirty'[x] => uptodate'[x],
             \A x \in Bufs : OnDirtyList(x)' => uptodate'[x],
             io' = io
      PROVE  UptodateInv'
  <2>1. \A x \in Bufs : io'[x] \notin EarlyIo => uptodate'[x]
    BY <1>2 DEF UptodateInv
  <2>2. \A b \in Procs : pc'[b] \in UptodateLabels => uptodate'[bh'[b]]
    BY <1>2, <1>t, <1>p DEF UptodateInv, Goto
  <2>3. \A b \in Procs : pc'[b] = "wait" =>
           uptodate'[bh'[b]] \/ io'[bh'[b]] \in {"read", "r_uptodate"}
    BY <1>2, <1>t, <1>p DEF UptodateInv, Goto
  <2> QED BY <1>2, <2>1, <2>2, <2>3 DEF UptodateInv
<1>3. ASSUME NEW a \in Procs, NEW l, Goto(a, l),
             UNCHANGED <<bh, uptodate, dirty, dirtyList, io>>,
             l \in UptodateLabels \cup {"wait"} => pc[a] \in UptodateLabels
      PROVE  UptodateInv'
  BY <1>2, <1>3 DEF UptodateInv, OnDirtyList
<1>4. ASSUME NEW t \in Threads, LockBuffer(t) \/ Put(t) \/ Release(t)
      PROVE  UptodateInv'
  BY <1>0, <1>3, <1>4
     DEF LockBuffer, Put, Release, bufVars, syncVars, listVars, UptodateLabels
<1>5. CASE TryLock \/ Check \/ GetWrite
  BY <1>0, <1>3, <1>5
     DEF TryLock, Check, GetWrite, bufVars, syncVars, listVars, UptodateLabels
<1>6. ASSUME NEW a \in Procs, SemPost(a) PROVE UptodateInv'
  BY <1>3, <1>6, PostLabel DEF SemPost, bufVars, listVars, UptodateLabels
<1>7. ASSUME NEW t \in Threads, TestUptodate(t) PROVE UptodateInv'
  <2>1. PICK l \in {"wait", "clear"} :
           Goto(t, l) /\ (l = "wait" => uptodate[bh[t]])
    BY <1>7 DEF TestUptodate
  <2>2. UNCHANGED <<bh, uptodate, dirty, dirtyList, io>>
    BY <1>7 DEF TestUptodate, listVars
  <2> QED BY <1>0, <1>2, <2>1, <2>2 DEF UptodateInv, OnDirtyList, UptodateLabels
<1>8. ASSUME NEW t \in Threads, ClearDirty(t) PROVE UptodateInv'
  <2>1. /\ Goto(t, "unlist_read") /\ UNCHANGED <<bh, uptodate, dirtyList, io>>
        /\ dirty' = [dirty EXCEPT ![bh[t]] = FALSE]
    BY <1>8 DEF ClearDirty, listVars, syncVars
  <2>2. \A x \in Bufs : dirty'[x] => uptodate'[x]
    BY <2>1, <1>t DEF UptodateInv
  <2> QED BY <1>0, <1>2, <2>1, <2>2 DEF UptodateInv, OnDirtyList, UptodateLabels
<1>9. ASSUME NEW t \in Threads, UnlistRead(t) PROVE UptodateInv'
  <2>1. /\ Goto(t, "submit_read") /\ UNCHANGED <<bh, uptodate, dirty, io>>
        /\ RemoveFromWriteback(bh[t])
    BY <1>9 DEF UnlistRead, bufVars, syncVars
  <2>2. \A x \in Bufs : OnDirtyList(x)' => uptodate'[x]
    BY <2>1, <1>t, UnlistedContents DEF UptodateInv
  <2> QED BY <1>0, <1>2, <2>1, <2>2 DEF UptodateInv, UptodateLabels
<1>10. ASSUME NEW t \in Threads, SetUptodate(t) PROVE UptodateInv'
  <2>0. bh[t] \in Bufs
    BY <1>0, <1>10, Deref DEF SetUptodate, PointerLabels, UserLabels
  <2>1. /\ Goto(t, "set_dirty") /\ UNCHANGED <<bh, dirty, dirtyList, io>>
        /\ uptodate' = [uptodate EXCEPT ![bh[t]] = TRUE]
    BY <1>10 DEF SetUptodate, listVars, syncVars
  <2>2. uptodate'[bh[t]] /\ \A x \in Bufs : uptodate[x] => uptodate'[x]
    BY <2>0, <2>1, <1>t
  <2> QED BY <1>0, <1>2, <2>1, <2>2 DEF UptodateInv, OnDirtyList
<1>11. ASSUME NEW t \in Threads, SetDirty(t) PROVE UptodateInv'
  <2>1. /\ Goto(t, "put") /\ UNCHANGED <<bh, uptodate, dirtyList, io>>
        /\ dirty' = [dirty EXCEPT ![bh[t]] = TRUE] /\ pc[t] = "set_dirty"
    BY <1>11 DEF SetDirty, listVars, syncVars
  <2>2. uptodate[bh[t]]
    BY <1>0, <2>1 DEF UptodateInv, UptodateLabels
  <2>3. \A x \in Bufs : dirty'[x] => uptodate'[x]
    BY <2>1, <2>2, <1>t DEF UptodateInv
  <2> QED BY <1>0, <1>2, <2>1, <2>2, <2>3 DEF UptodateInv, OnDirtyList
<1>12. ASSUME NEW t \in Threads, Move(t) PROVE UptodateInv'
  <2>1. /\ Goto(t, "idle") /\ UNCHANGED <<bh, uptodate, dirty, io>>
        /\ pc[t] = "move" /\ MoveToWriteback(bh[t])
    BY <1>12 DEF Move, bufVars, syncVars
  <2>2. uptodate[bh[t]] /\ bh[t] \in Bufs
    BY <1>0, <1>p, <2>1 DEF UptodateInv, UptodateLabels
  <2>3. \A x \in Bufs : OnDirtyList(x)' => OnDirtyList(x) \/ x = bh[t]
    BY <2>1, <2>2, <1>t, ListedContents
  <2> QED BY <1>0, <1>2, <2>1, <2>2, <2>3 DEF UptodateInv, UptodateLabels
<1>13. CASE First
  <2>1. CASE dirtyList = <<>>
    <3>1. /\ UNCHANGED <<bh, uptodate, dirty, dirtyList, io>>
          /\ \E l \in {"exited", "epoll"} : Goto(WB, l)
      BY <1>13, <2>1 DEF First, bufVars, syncVars, dirtyVars
    <3> QED BY <3>1, <1>0, <1>3 DEF UptodateLabels
  <2>2. CASE dirtyList # <<>>
    <3>1. /\ bh' = [bh EXCEPT ![WB] = Head(dirtyList)]
          /\ pc' = [pc EXCEPT ![WB] = "trylock"]
          /\ dirtyList' = Tail(dirtyList) /\ UNCHANGED <<uptodate, dirty, io>>
      BY <1>13, <2>2 DEF First, bufVars, syncVars, Goto
    <3>2. OnDirtyList(Head(dirtyList)) /\ Head(dirtyList) \in Bufs
      BY <2>2, <1>t DEF OnDirtyList
    <3>3. \A x \in Bufs : OnDirtyList(x)' => OnDirtyList(x)
      BY <2>2, <3>1, <1>t DEF OnDirtyList
    <3>4. \A x \in Bufs : OnDirtyList(x)' => uptodate'[x]
      BY <3>1, <3>3 DEF UptodateInv
    <3>5. \A b \in Procs : pc'[b] \in UptodateLabels => uptodate'[bh'[b]]
      BY <3>1, <3>2, <1>0, <1>t DEF UptodateInv
    <3>6. \A b \in Procs : pc'[b] = "wait" =>
             uptodate'[bh'[b]] \/ io'[bh'[b]] \in {"read", "r_uptodate"}
      BY <3>1, <1>0, <1>t DEF UptodateInv
    <3> QED BY <3>1, <3>4, <3>5, <3>6 DEF UptodateInv
  <2> QED BY <2>1, <2>2
\* wait_on_buffer returns when the transfer, if there was one, is over.
<1>14. ASSUME NEW a \in Procs, SemWait(a) PROVE UptodateInv'
  <2>1. /\ Goto(a, "post") /\ UNCHANGED <<bh, uptodate, dirty, dirtyList, io>>
        /\ pc[a] = "wait" /\ event[bh[a]] > 0
    BY <1>14 DEF SemWait, SemTake, bufVars, listVars
  <2>2. bh[a] \in Bufs
    BY <2>1, <1>p
  <2>3. io[bh[a]] = "none"
    BY <2>1, <2>2, <1>t DEF TokenInv
  <2>4. uptodate[bh[a]]
    BY <2>1, <2>3 DEF UptodateInv
  <2> QED BY <1>2, <2>1, <2>4 DEF UptodateInv, OnDirtyList
<1>15. ASSUME NEW a \in Procs, NEW l \in {"read", "write"},
              io' = [io EXCEPT ![bh[a]] = l], Goto(a, "wait"),
              UNCHANGED <<bh, uptodate, dirty, dirtyList>>, bh[a] \in Bufs,
              l = "read" \/ uptodate[bh[a]]
       PROVE  UptodateInv'
  <2>1. \A x \in Bufs : io'[x] \notin EarlyIo => uptodate'[x]
    BY <1>15, <1>t DEF UptodateInv, EarlyIo
  <2>2. \A b \in Procs : pc'[b] \in UptodateLabels => uptodate'[bh'[b]]
    BY <1>15, <1>t DEF UptodateInv, Goto, UptodateLabels
  <2>3. ASSUME NEW b \in Procs, pc'[b] = "wait"
        PROVE  uptodate'[bh'[b]] \/ io'[bh'[b]] \in {"read", "r_uptodate"}
    <3>1. b = a \/ pc[b] = "wait"
      BY <1>15, <2>3, <1>t DEF Goto
    <3>2. CASE bh[b] = bh[a]
      BY <1>15, <3>2, <1>t
    <3>3. CASE bh[b] # bh[a]
      <4>1. io'[bh[b]] = io[bh[b]] /\ pc[b] = "wait"
        BY <1>15, <3>1, <3>3, <1>p, <1>t
      <4> QED BY <4>1, <1>15 DEF UptodateInv
    <3> QED BY <3>2, <3>3
  <2> QED BY <1>15, <2>1, <2>2, <2>3 DEF UptodateInv, OnDirtyList
<1>16. ASSUME NEW t \in Threads, SubmitRead(t) PROVE UptodateInv'
  <2>1. bh[t] \in Bufs
    BY <1>0, <1>16, Deref DEF SubmitRead, PointerLabels, UserLabels
  <2> QED BY <1>0, <1>15, <1>16, <2>1 DEF SubmitRead, bufVars, listVars
<1>17. CASE SubmitWrite
  <2>1. pc[WB] = "submit_write"
    BY <1>17 DEF SubmitWrite
  <2>2. bh[WB] \in Bufs /\ uptodate[bh[WB]]
    BY <1>0, <1>p, <2>1 DEF UptodateLabels, UptodateInv
  <2> QED BY <1>0, <1>15, <1>17, <2>2 DEF SubmitWrite, bufVars, listVars
<1>18. ASSUME NEW x \in Bufs, IoStep(x) PROVE UptodateInv'
  <2>1. /\ \A y \in Bufs : dirty'[y] => uptodate'[y]
        /\ \A y \in Bufs : OnDirtyList(y)' => uptodate'[y]
    BY <1>18, IoFrame DEF UptodateInv
  <2>2. \A y \in Bufs : io'[y] \notin EarlyIo => uptodate'[y]
    BY <1>18, IoFrame DEF UptodateInv
  <2>3. \A b \in Procs : pc'[b] \in UptodateLabels => uptodate'[bh'[b]]
    BY <1>18, <1>p, IoFrame DEF UptodateInv
  <2>4. \A b \in Procs : pc'[b] = "wait" =>
           uptodate'[bh'[b]] \/ io'[bh'[b]] \in {"read", "r_uptodate"}
    BY <1>18, <1>p, IoFrame DEF UptodateInv
  <2> QED BY <2>1, <2>2, <2>3, <2>4 DEF UptodateInv
<1> QED BY SemFrame, <1>1, <1>4, <1>5, <1>6, <1>7, <1>8, <1>9, <1>10, <1>11,
           <1>12, <1>13, <1>14, <1>16, <1>17, <1>18

\* A client that prepares a read has a reference and b_lock, so that another
\* client's brelse is not the last; and the buffer was not BH_Uptodate when it
\* had a look, so that nobody else was past that point.
LEMMA ReadStep ==
    TypeInv /\ LockInv /\ RefCount /\ UptodateInv /\ ReadInv /\ [Next]_vars
        => ReadInv'
<1> SUFFICES ASSUME TypeInv, LockInv, RefCount, UptodateInv, ReadInv,
                    [Next]_vars
             PROVE  ReadInv'
  OBVIOUS
<1>t. /\ pc \in [Procs -> PcLabels] /\ bh \in [Procs -> Nodes]
      /\ io \in [Bufs -> IoStates] /\ count \in [Bufs -> Int]
      /\ dirtyList \in Seq(Bufs)
  BY DEF TypeInv, TypeOK, ThreadType, SyncType, BufType, ListType
<1>0. Threads \subseteq Procs /\ WB \in Procs /\ WB \notin Threads
  BY CacheConstants DEF Procs
<1>p. \A a \in Procs : pc[a] \in ReadLabels \cup BusyLabels => bh[a] \in Bufs
  BY Deref DEF PointerLabels, UserLabels, LockLabels, ReadLabels, BusyLabels
<1>l. ASSUME NEW t \in Threads, pc[t] \in ReadLabels, NEW a \in Procs,
             bh[a] = bh[t], a # t
      PROVE  pc[a] \notin LockLabels
  BY <1>l, <1>0, <1>p DEF LockInv, Holds, ReadLabels, LockLabels
<1>1. CASE Quiet
  BY <1>1, <1>0, <1>p DEF Quiet, ReadInv, SemLabels, ReadLabels, BusyLabels, UptodateLabels
\* A thread moves, and neither prepares a read then nor comes to bother one
\* who does.
<1>2. ASSUME NEW a \in Procs, NEW l, Goto(a, l), UNCHANGED <<bh, io>>,
             \A x \in Bufs : OnDirtyList(x)' => OnDirtyList(x),
             l \in ReadLabels => a \in Threads /\ pc[a] \in ReadLabels,
             \/ l \notin BusyLabels
             \/ pc[a] \in BusyLabels
             \/ \A t \in Threads : pc[t] \in ReadLabels /\ t # a => bh[t] # bh[a]
      PROVE  ReadInv'
  <2> SUFFICES ASSUME NEW t \in Threads, pc'[t] \in ReadLabels
               PROVE  /\ io'[bh'[t]] = "none" /\ ~OnDirtyList(bh[t])'
                      /\ \A b \in Procs : bh'[b] = bh'[t] => pc'[b] \notin BusyLabels
    BY DEF ReadInv
  <2>1. pc[t] \in ReadLabels /\ bh[t] \in Bufs
    BY <1>2, <1>0, <1>t, <1>p DEF Goto
  <2>2. ASSUME NEW b \in Procs, bh[b] = bh[t] PROVE pc'[b] \notin BusyLabels
    <3>1. CASE b # a \/ l \notin BusyLabels
      BY <1>2, <1>t, <2>1, <2>2, <3>1 DEF ReadInv, Goto
    <3>2. CASE b = a /\ l \in BusyLabels /\ b # t
      BY <1>2, <1>t, <2>1, <2>2, <3>2 DEF ReadInv, Goto
    <3>3. CASE b = a /\ l \in BusyLabels /\ b = t
      BY <1>2, <1>t, <3>3 DEF Goto, ReadLabels, BusyLabels
    <3> QED BY <3>1, <3>2, <3>3
  <2> QED BY <1>2, <2>1, <2>2 DEF ReadInv
<1>3. ASSUME NEW t \in Threads,
             LockBuffer(t) \/ ClearDirty(t) \/ SetUptodate(t) \/ SetDirty(t) \/ Release(t)
      PROVE  ReadInv'
  BY <1>0, <1>2, <1>3
     DEF LockBuffer, ClearDirty, SetUptodate, SetDirty, Release, syncVars,
         listVars, OnDirtyList, ReadLabels, BusyLabels
<1>4. CASE TryLock \/ Check \/ GetWrite
  BY <1>0, <1>2, <1>4
     DEF TryLock, Check, GetWrite, syncVars, listVars, OnDirtyList,
         ReadLabels, BusyLabels
<1>5. ASSUME NEW a \in Procs, SemWait(a) \/ SemPost(a) PROVE ReadInv'
  <2>1. /\ UNCHANGED <<bh, io, dirtyList>> /\ pc[a] \in BusyLabels
        /\ \E l \in {"post", "first", "put", "modify"} : Goto(a, l)
    BY <1>5, PostLabel DEF SemWait, SemPost, listVars, BusyLabels
  <2> QED BY <1>2, <2>1 DEF OnDirtyList, ReadLabels
<1>6. ASSUME NEW t \in Threads, UnlistRead(t) PROVE ReadInv'
  <2>1. /\ Goto(t, "submit_read") /\ UNCHANGED <<bh, io>>
        /\ RemoveFromWriteback(bh[t]) /\ pc[t] = "unlist_read"
    BY <1>6 DEF UnlistRead, syncVars
  <2>2. \A x \in Bufs : OnDirtyList(x)' => OnDirtyList(x)
    BY <2>1, <1>t, UnlistedContents
  <2> QED BY <1>0, <1>2, <2>1, <2>2 DEF ReadLabels, BusyLabels
\* brelse of another client: the reader's two references are counted
<1>7. ASSUME NEW t \in Threads, Put(t) PROVE ReadInv'
  <2>1. /\ UNCHANGED <<bh, io, dirtyList>> /\ pc[t] = "put"
        /\ Goto(t, IF LastUser(bh[t]) THEN "release" ELSE "idle")
    BY <1>7 DEF Put, syncVars, listVars
  <2>2. ASSUME NEW u \in Threads, pc[u] \in ReadLabels, bh[u] = bh[t], u # t
        PROVE  ~LastUser(bh[t])
    <3>1. bh[t] \in Bufs /\ u \in Users(bh[t]) /\ IoRef(bh[t])
      BY <1>0, <1>p, <2>2 DEF Users, UserLabels, ReadLabels, IoRef, PrepareLabels
    <3>2. Cardinality(Users(bh[t])) \in Nat /\ Cardinality(Users(bh[t])) # 0
      BY <3>1, UsersFinite, FS_EmptySet
    <3> QED BY <3>1, <3>2, <1>t DEF RefCount, LastUser
  <2>3. CASE LastUser(bh[t])
    BY <1>0, <1>2, <2>1, <2>2, <2>3 DEF OnDirtyList, ReadLabels, BusyLabels
  <2>4. CASE ~LastUser(bh[t])
    BY <1>0, <1>2, <2>1, <2>4 DEF OnDirtyList, ReadLabels, BusyLabels
  <2> QED BY <2>3, <2>4
\* brelse queues no buffer that a reader prepares
<1>8. ASSUME NEW t \in Threads, Move(t) PROVE ReadInv'
  <2>1. /\ pc' = [pc EXCEPT ![t] = "idle"] /\ UNCHANGED <<bh, io>>
        /\ MoveToWriteback(bh[t]) /\ pc[t] = "move" /\ t \in Procs
    BY <1>0, <1>8 DEF Move, syncVars, Goto
  <2>2. bh[t] \in Bufs
    BY <2>1, <1>p DEF BusyLabels
  <2>3. \A y : OnDirtyList(y)' <=> OnDirtyList(y) \/ y = bh[t]
    BY <2>1, <2>2, <1>t, ListedContents
  <2>4. ASSUME NEW u \in Threads, pc'[u] \in ReadLabels
        PROVE  /\ pc[u] \in ReadLabels /\ bh[u] # bh[t]
    BY <2>1, <2>4, <1>0, <1>t DEF ReadInv, ReadLabels, BusyLabels
  <2>5. \A b \in Procs : pc'[b] \in BusyLabels => pc[b] \in BusyLabels
    BY <2>1, <1>t DEF BusyLabels
  <2> QED BY <2>1, <2>3, <2>4, <2>5 DEF ReadInv
\* the writeback thread takes a buffer from the list, on which none of these is
<1>9. CASE First
  <2>1. CASE dirtyList = <<>>
    <3>1. /\ UNCHANGED <<bh, dirtyList, io>>
          /\ \E l \in {"exited", "epoll"} : Goto(WB, l)
      BY <1>9, <2>1 DEF First, syncVars, dirtyVars
    <3> QED BY <3>1, <1>0, <1>2 DEF OnDirtyList, ReadLabels, BusyLabels
  <2>2. CASE dirtyList # <<>>
    <3>1. /\ bh' = [bh EXCEPT ![WB] = Head(dirtyList)]
          /\ pc' = [pc EXCEPT ![WB] = "trylock"]
          /\ dirtyList' = Tail(dirtyList) /\ io' = io
      BY <1>9, <2>2 DEF First, syncVars, Goto
    <3>2. OnDirtyList(Head(dirtyList)) /\ \A y : OnDirtyList(y)' => OnDirtyList(y)
      BY <2>2, <3>1, <1>t, TailContents
    <3>3. \A b \in Procs \ {WB} : pc'[b] = pc[b] /\ bh'[b] = bh[b]
      BY <3>1, <1>t
    <3>4. bh'[WB] = Head(dirtyList)
      BY <3>1, <1>0, <1>t
    <3> QED BY <3>1, <3>2, <3>3, <3>4, <1>0 DEF ReadInv
  <2> QED BY <2>1, <2>2
\* A transfer is submitted by the owner of b_lock.
<1>10. ASSUME NEW a \in Procs, NEW l, io' = [io EXCEPT ![bh[a]] = l],
              Goto(a, "wait"), UNCHANGED <<bh, dirtyList>>, bh[a] \in Bufs,
              pc[a] \in LockLabels
       PROVE  ReadInv'
  <2> SUFFICES ASSUME NEW t \in Threads, pc'[t] \in ReadLabels
               PROVE  /\ io'[bh'[t]] = "none" /\ ~OnDirtyList(bh[t])'
                      /\ \A b \in Procs : bh'[b] = bh'[t] => pc'[b] \notin BusyLabels
    BY DEF ReadInv
  <2>1. pc[t] \in ReadLabels /\ bh[t] \in Bufs /\ t # a
    BY <1>0, <1>10, <1>t, <1>p DEF Goto, ReadLabels
  <2>2. bh[a] # bh[t]
    BY <1>l, <1>10, <2>1
  <2> QED BY <1>10, <1>t, <2>1, <2>2 DEF ReadInv, Goto, OnDirtyList
<1>11. ASSUME NEW t \in Threads, SubmitRead(t) PROVE ReadInv'
  <2>1. bh[t] \in Bufs
    BY <1>0, <1>11, <1>p DEF SubmitRead, ReadLabels
  <2> QED BY <1>0, <1>10, <1>11, <2>1 DEF SubmitRead, LockLabels, listVars
<1>12. CASE SubmitWrite
  <2>1. bh[WB] \in Bufs
    BY <1>0, <1>12, <1>p DEF SubmitWrite, BusyLabels
  <2> QED BY <1>0, <1>10, <1>12, <2>1 DEF SubmitWrite, LockLabels, listVars
<1>13. ASSUME NEW x \in Bufs, IoStep(x) PROVE ReadInv'
  BY <1>13, <1>0, <1>p, IoFrame DEF ReadInv
<1>14. ASSUME NEW t \in Threads, TestUptodate(t) PROVE ReadInv'
  <2>0. bh[t] \in Bufs /\ t \in Procs
    BY <1>0, <1>14, Deref DEF TestUptodate, PointerLabels, UserLabels
  <2>1. UNCHANGED <<bh, io, dirtyList>> /\ pc[t] = "test"
    BY <1>14 DEF TestUptodate, listVars
  <2>2. CASE Goto(t, "wait")
    <3>1. \A u \in Threads : pc[u] \in ReadLabels /\ u # t => bh[u] # bh[t]
      BY <1>l, <2>0, <2>1 DEF LockLabels
    <3> QED BY <1>2, <2>0, <2>1, <2>2, <3>1 DEF OnDirtyList, ReadLabels
  <2>3. CASE Goto(t, "clear") /\ ~uptodate[bh[t]]
    <3>1. io[bh[t]] = "none"
      <4>1. Holds(t, bh[t])
        BY <2>1 DEF Holds, LockLabels
      <4>2. io[bh[t]] \in {"none", "end_post"}
        BY <4>1, <2>0 DEF LockInv, IoLock
      <4> QED BY <4>2, <2>0, <2>3 DEF UptodateInv, EarlyIo
    <3>2. ~OnDirtyList(bh[t])
      BY <2>0, <2>3 DEF UptodateInv
    <3>3. \A a \in Procs : bh[a] = bh[t] => pc[a] \notin BusyLabels
      BY <2>3, <3>1 DEF UptodateInv, BusyLabels, UptodateLabels
    <3>4. \A u \in Procs \ {t} : pc'[u] = pc[u]
      BY <2>3, <1>t DEF Goto
    <3>5. pc'[t] \notin BusyLabels
      BY <2>0, <2>3, <1>t DEF Goto, BusyLabels
    <3>6. \A u \in Threads : pc'[u] \in ReadLabels =>
             u = t \/ pc[u] \in ReadLabels
      BY <3>4, <1>0
    <3> QED BY <2>1, <3>1, <3>2, <3>3, <3>4, <3>5, <3>6 DEF ReadInv, OnDirtyList
  <2> QED BY <1>14, <2>2, <2>3 DEF TestUptodate
<1> QED BY SemFrame, <1>1, <1>3, <1>4, <1>5, <1>6, <1>7, <1>8, <1>9, <1>11,
           <1>12, <1>13, <1>14

\* sync_dirty_buffer saw no references with b_lock held: until it submits the
\* write, nobody gets past lock_buffer.
LEMMA WriteStep ==
    TypeInv /\ LockInv /\ RefCount /\ WaitInv /\ WriteInv /\ [Next]_vars
        => WriteInv'
<1> SUFFICES ASSUME TypeInv, LockInv, RefCount, WaitInv, WriteInv, [Next]_vars,
                    pc'[WB] \in {"get_write", "submit_write"}
             PROVE  /\ io'[bh'[WB]] = "none"
                    /\ \A t \in Threads : bh'[t] = bh'[WB] => pc'[t] \notin ReaderLabels
  BY DEF WriteInv
<1> DEFINE Goal == /\ io'[bh'[WB]] = "none"
                   /\ \A t \in Threads : bh'[t] = bh'[WB] => pc'[t] \notin ReaderLabels
<1>t. /\ pc \in [Procs -> PcLabels] /\ bh \in [Procs -> Nodes]
      /\ io \in [Bufs -> IoStates] /\ count \in [Bufs -> Int]
      /\ locked \in [Bufs -> BOOLEAN]
  BY DEF TypeInv, TypeOK, ThreadType, SyncType, BufType
<1>0. Threads \subseteq Procs /\ WB \in Procs /\ WB \notin Threads
  BY CacheConstants DEF Procs
<1>p. pc[WB] \in {"check", "get_write", "submit_write"} => bh[WB] \in Bufs
  BY <1>0, Deref DEF PointerLabels, LockLabels
<1>1. CASE Quiet
  BY <1>1, <1>0 DEF Quiet, WriteInv, SemLabels, ReaderLabels, UptodateLabels, ReadLabels
\* A client moves, and if it comes to one of the ReaderLabels it was at one
\* before, or has another buffer.
<1>2. ASSUME NEW t \in Threads, NEW l, Goto(t, l), bh' = bh,
             io'[bh[WB]] = io[bh[WB]],
             l \in ReaderLabels /\ pc[t] \notin ReaderLabels => bh[t] # bh[WB]
      PROVE  Goal
  <2>1. pc'[WB] = pc[WB]
    BY <1>2, <1>0, <1>t DEF Goto
  <2> QED BY <1>2, <2>1, <1>0, <1>t DEF WriteInv, Goto
<1>3. ASSUME NEW t \in Threads,
             \/ TestUptodate(t) \/ ClearDirty(t) \/ UnlistRead(t)
             \/ SetUptodate(t) \/ SetDirty(t) \/ Put(t) \/ Release(t)
             \/ Move(t)
      PROVE  Goal
  BY <1>0, <1>2, <1>3
     DEF TestUptodate, ClearDirty, UnlistRead, SetUptodate, SetDirty, Put,
         Release, Move, syncVars, ReaderLabels
\* lock_buffer: the writeback thread has the lock
<1>4. ASSUME NEW t \in Threads, LockBuffer(t) PROVE Goal
  <2>1. Goto(t, "test") /\ ~locked[bh[t]] /\ UNCHANGED <<bh, io>>
    BY <1>4 DEF LockBuffer, Lock
  <2>2. pc[WB] \in {"get_write", "submit_write"}
    BY <2>1, <1>0, <1>t DEF Goto
  <2>3. locked[bh[WB]]
    BY <2>2, <1>0, <1>p DEF LockInv, Holds, LockLabels
  <2> QED BY <1>2, <2>1, <2>3
<1>5. ASSUME NEW t \in Threads, SubmitRead(t) PROVE Goal
  <2>1. /\ Goto(t, "wait") /\ bh' = bh /\ pc[t] = "submit_read"
        /\ io' = [io EXCEPT ![bh[t]] = "read"]
    BY <1>5 DEF SubmitRead
  <2>2. pc[WB] \in {"get_write", "submit_write"}
    BY <2>1, <1>0, <1>t DEF Goto
  <2>3. bh[t] # bh[WB]
    BY <2>1, <2>2 DEF WriteInv, ReaderLabels
  <2> QED BY <1>2, <1>p, <1>t, <2>1, <2>2, <2>3
<1>6. ASSUME NEW a \in Procs, SemWait(a) \/ SemPost(a) PROVE Goal
  <2>1. /\ UNCHANGED <<bh, io>> /\ pc[a] \in {"wait", "post"}
        /\ \E l \in {"post", "first", "put", "modify"} : Goto(a, l)
    BY <1>6, PostLabel DEF SemWait, SemPost
  <2>2. a # WB
    BY <2>1, <1>0, <1>t DEF Goto
  <2>3. a \in Threads
    BY <2>2 DEF Procs
  <2> QED BY <1>2, <2>1, <2>3 DEF ReaderLabels
<1>7. CASE First \/ TryLock \/ SubmitWrite
  <2>1. \E l \in {"trylock", "exited", "epoll", "check", "wait"} : Goto(WB, l)
    BY <1>7 DEF First, TryLock, SubmitWrite
  <2> QED BY <2>1, <1>0, <1>t DEF Goto
\* b_count is 0: no client has the buffer, so none waits for a transfer
<1>8. CASE Check
  <2>1. UNCHANGED <<bh, io>> /\ pc[WB] = "check"
    BY <1>8 DEF Check
  <2>2. Syncable(bh[WB]) /\ Goto(WB, "get_write")
    BY <1>8, <1>0, <1>t DEF Check, Goto
  <2>3. bh[WB] \in Bufs
    BY <2>1, <1>p
  <2>4. Cardinality(Users(bh[WB])) = 0
    BY <2>2, <2>3, UsersFinite DEF Syncable, RefCount
  <2>5. Users(bh[WB]) = {}
    BY <2>4, UsersFinite, FS_EmptySet
  <2>6. \A t \in Threads : bh[t] = bh[WB] => pc[t] \notin UserLabels
    BY <2>5 DEF Users
  <2>7. io[bh[WB]] = "none"
    BY <2>1, <2>3, <2>6 DEF WaitInv, Procs, UserLabels
  <2> QED BY <2>1, <2>2, <2>6, <2>7, <1>0, <1>t DEF Goto, ReaderLabels, UserLabels
<1>9. CASE GetWrite
  <2>1. UNCHANGED <<bh, io>> /\ pc[WB] = "get_write" /\ Goto(WB, "submit_write")
    BY <1>9 DEF GetWrite, syncVars
  <2> QED BY <2>1, <1>0, <1>t DEF WriteInv, Goto
<1>10. ASSUME NEW x \in Bufs, IoStep(x) PROVE Goal
  BY <1>10, <1>p, IoFrame DEF WriteInv
<1> QED BY SemFrame, <1>1, <1>3, <1>4, <1>5, <1>6, <1>7, <1>8, <1>9, <1>10

-----------------------------------------------------------------------------

\* The initial state: every semaphore is 1 and nobody has a buffer.
LEMMA InitSem == Init => SemInv
<1> SUFFICES ASSUME Init PROVE SemInv
  OBVIOUS
<1>1. /\ \A a \in Procs : pc[a] \in {"idle", "epoll"}
      /\ \A x \in Bufs : io[x] = "none" /\ ~dirty[x] /\ event[x] = 1
      /\ dirtyList = <<>>
  BY DEF Init
<1>2. Threads \subseteq Procs /\ WB \in Procs
  BY DEF Procs
<1>3. UptodateInv
  BY <1>1 DEF UptodateInv, UptodateLabels, EarlyIo, OnDirtyList
<1>4. TokenInv /\ WaitInv
  BY <1>1 DEF TokenInv, WaitInv, Posts
<1>5. ReadInv /\ WriteInv
  BY <1>1, <1>2 DEF ReadInv, WriteInv, ReadLabels
<1>6. LabelInv
  BY CacheConstants DEF Init, LabelInv, WritebackLabels, ClientLabels, PcLabels, Procs
<1> QED BY <1>3, <1>4, <1>5, <1>6 DEF SemInv

\* submit_bh finds the token.
LEMMA SubmitReady ==
    ASSUME TypeInv, SemInv, NEW a \in Procs,
           pc[a] \in {"submit_read", "submit_write"}
    PROVE  event[bh[a]] > 0
<1>1. bh[a] \in Bufs
  BY Deref DEF PointerLabels, UserLabels, LockLabels
<1>2. CASE a \in Threads /\ pc[a] = "submit_read"
  <2>1. io[bh[a]] = "none" /\ \A b \in Procs : ~Posts(b, bh[a])
    BY <1>2 DEF SemInv, ReadInv, ReadLabels, BusyLabels, Posts
  <2> QED BY <1>1, <2>1 DEF SemInv, TokenInv
<1>3. CASE a = WB /\ pc[a] = "submit_write"
  <2>1. io[bh[a]] = "none" /\ \A b \in Procs : ~Posts(b, bh[a])
    BY <1>3 DEF SemInv, WriteInv, ReaderLabels, Posts, Procs
  <2> QED BY <1>1, <2>1 DEF SemInv, TokenInv
<1> QED BY <1>2, <1>3 DEF SemInv, LabelInv, WritebackLabels, ClientLabels, Procs

\* The invariant holds in every state that the cache reaches.
LEMMA SemInvariance == Spec => []SemInv
<1>1. TypeInv /\ LockInv /\ RefCount /\ SemInv /\ [Next]_vars => SemInv'
  BY LabelStep, TokenStep, WaitStep, UptodateStep, ReadStep, WriteStep DEF SemInv
<1> QED BY TypeInvariance, LockInvariance, CountsReferences, InitSem, <1>1, PTL
        DEF Spec

\* b_event is a binary semaphore, its token is in one place at a time, and
\* submit_bh, which takes it with b_lock held, never has to wait for it: no
\* client and no callback can be caught in a deadlock between the two, whatever
\* the number of clients and also when transfers fail.
THEOREM TokenInOnePlace == Spec => []EventToken
<1>1. TypeInv /\ SemInv => EventToken
  <2> SUFFICES ASSUME TypeInv, SemInv PROVE EventToken
    OBVIOUS
  <2>1. \A x \in Bufs :
           /\ \A a, b \in EventHolders(x) : a = b
           /\ io[x] # "none" => EventHolders(x) = {}
           /\ event[x] = IF io[x] # "none" \/ EventHolders(x) # {} THEN 0 ELSE 1
    BY DEF SemInv, TokenInv, EventHolders, Posts
  <2> QED BY <2>1, SubmitReady DEF EventToken
<1> QED BY TypeInvariance, SemInvariance, <1>1, PTL
=============================================================================
