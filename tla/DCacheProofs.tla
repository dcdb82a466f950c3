---------------------------- MODULE DCacheProofs ----------------------------
(***************************************************************************)
(* Proofs about DCache, for any name space, any number of workers and any  *)
(* interleaving of their accesses to the ring of siblings.  The ring may   *)
(* lose entries or stop being a ring; what the proofs rest on is that the  *)
(* pointers of an entry lead only to entries of the same directory         *)
(* (Pointers), and that an entry agrees with the disk (Agree).  The last   *)
(* part is about one worker, with which it stays a ring.                   *)
(***************************************************************************)
EXTENDS DCache, SequenceTheorems, FiniteSetTheorems, WellFoundedInduction, TLAPS

Used == 1 .. nalloc

\* An entry that a worker can meet when it goes through the children of n.
ChildOf(e, n) == e \in Used /\ owner[e] = n /\ siblings[e] # NULL

\* childs and siblings lead from one child to another of the same entry.
Pointers ==
    /\ \A n \in Nodes : childs[n] # NULL => ChildOf(childs[n], n)
    /\ \A e \in Entries : siblings[e] # NULL =>
                            e \in Used /\ ChildOf(siblings[e], owner[e])
    /\ \A e \in Used : owner[e] \in 0 .. nalloc

LinkLabels == InsertLabels \ {"insert"}

\* What a worker's locals are at each of its steps.
ThreadShape(t) ==
    /\ entry[t] \in 0 .. nalloc
    /\ pc[t] \in {"compare", "again"} \cup InsertLabels => path[t] # <<>>
    /\ pc[t] \in {"compare", "again", "copy", "link"} => ChildOf(iter[t], entry[t])
    /\ pc[t] \in {"walk"} \cup InsertLabels => ino[t] # 0
    /\ pc[t] = "missing" => ino[t] = 0
    /\ pc[t] \in LinkLabels => new[t] \in Used /\ owner[new[t]] = entry[t]
    /\ pc[t] \in {"load", "copy", "reload", "link"} => childs[entry[t]] # NULL
    /\ pc[t] \in {"reload", "link", "front"} => siblings[new[t]] # NULL

Shape == TypeOK /\ Pointers /\ \A t \in Threads : ThreadShape(t)

\* A cached entry says what its directory on the disk says.
Agree == \A e \in Used : Dir[GetInode(owner[e])][name[e]] = inode[e]

\* A name that does not fit is the last one of the path.
LongLast(p) == \A i \in 1 .. Len(p) : p[i] \in LongNames => i = Len(p)

\* The entry a worker is at is the one of the directory it reads.
ThreadAgree(t) ==
    /\ LongLast(path[t])
    /\ pc[t] = "walk" /\ path[t] # <<>> => ino[t] = GetInode(entry[t])
    /\ pc[t] \in InsertLabels => Dir[GetInode(entry[t])][Head(path[t])] = ino[t]
    /\ pc[t] \in LinkLabels => inode[new[t]] = ino[t]

Sound == Agree /\ \A t \in Threads : ThreadAgree(t)

\* Nothing is looked up below a directory whose name does not fit.
LongNamesLast == \A p \in Paths : LongLast(p)
-----------------------------------------------------------------------------
LEMMA HeadTail ==
    ASSUME NEW p \in Seq(Names), p # <<>>, LongLast(p)
    PROVE  /\ Head(p) \in Names /\ Tail(p) \in Seq(Names) /\ LongLast(Tail(p))
           /\ Head(p) \in LongNames => Tail(p) = <<>>
<1>1. Head(p) \in Names /\ Tail(p) \in Seq(Names) /\ Len(p) \in Nat \ {0}
  OBVIOUS
<1>2. Len(Tail(p)) = Len(p) - 1 /\ \A i \in 1 .. Len(p) - 1 : Tail(p)[i] = p[i + 1]
  BY <1>1
<1>3. LongLast(Tail(p))
  <2> SUFFICES ASSUME NEW i \in 1 .. Len(p) - 1, p[i + 1] \in LongNames
               PROVE  i = Len(p) - 1
    BY <1>1, <1>2 DEF LongLast
  <2> QED BY <1>1 DEF LongLast
<1>4. ASSUME Head(p) \in LongNames PROVE Tail(p) = <<>>
  <2>1. p[1] = Head(p) /\ 1 \in 1 .. Len(p)
    BY <1>1
  <2>2. Len(p) = 1
    BY <1>4, <2>1 DEF LongLast
  <2>3. Len(Tail(p)) = 0
    BY <1>1, <1>2, <2>2
  <2> QED BY <1>1, <2>3, EmptySeq
<1> QED BY <1>1, <1>3, <1>4

LEMMA DirType ==
    ASSUME NEW i \in Inodes, NEW n \in Names
    PROVE  Dir[i][n] \in Inodes \cup {0}
  BY DCacheConstants

LEMMA GetInodeType ==
    ASSUME TypeOK, NEW n \in 0 .. nalloc
    PROVE  GetInode(n) \in Inodes
  BY DCacheConstants DEF TypeOK, GetInode, NULL, Nodes, Entries

LEMMA InitShape == Init => Shape
  BY DCacheConstants
     DEF Init, Shape, TypeOK, Pointers, ThreadShape, ChildOf, Used, PcLabels,
         CacheLabels, InsertLabels, LinkLabels, Nodes, Entries, NULL

\* A step of one worker leaves the locals of the others alone.
LEMMA LocalFrame ==
    ASSUME TypeOK, NEW t \in Threads, Start(t) \/ LookupStep(t),
           NEW u \in Threads, u # t
    PROVE  /\ pc'[u] = pc[u] /\ path'[u] = path[u] /\ entry'[u] = entry[u]
           /\ iter'[u] = iter[u] /\ new'[u] = new[u] /\ ino'[u] = ino[u]
  BY DEF TypeOK, LookupStep, Goto, threadVars, Start, Lookup, Hit, Advance, Again,
         Walk, Return, Refuse, Create, Only, Load, Copy, Reload, Link, Front

\* The entries in use stay, with their name, inode and owner, and a pointer
\* that has been set stays set.
Grows ==
    /\ nalloc' \in 0 .. MaxEntries /\ nalloc <= nalloc'
    /\ \A e \in Used : /\ owner'[e] = owner[e] /\ inode'[e] = inode[e]
                       /\ name'[e] = name[e]
                       /\ siblings[e] # NULL => siblings'[e] # NULL
    /\ \A n \in Nodes : childs[n] # NULL => childs'[n] # NULL

LEMMA Growing == ASSUME Shape, NEW t \in Threads, Start(t) \/ LookupStep(t)
                 PROVE  Grows
<1> USE DCacheConstants DEF Shape, TypeOK, Grows, Used, Entries, Nodes, NULL
<1> DEFINE Same == UNCHANGED <<siblings, name, inode, owner, nalloc, childs>>
<1>1. \/ Same \/ Hit(t) \/ Front(t) \/ Create(t) \/ Only(t) \/ Copy(t) \/ Link(t)
  BY DEF LookupStep, treeVars, Start, Lookup, Advance, Again, Walk, Return,
         Refuse, Load, Reload
<1>2. CASE Same
  BY <1>2
<1>3. CASE Hit(t) \/ Front(t)
  <2>1. PICK e \in Used : childs' = [childs EXCEPT ![entry[t]] = e]
    BY <1>3 DEF Hit, Front, ThreadShape, ChildOf, LinkLabels, InsertLabels
  <2>2. UNCHANGED <<siblings, name, inode, owner, nalloc>> /\ e # NULL
    BY <1>3, <2>1 DEF Hit, Front
  <2> QED BY <2>1, <2>2
<1>4. CASE Create(t)
  BY <1>4 DEF Create
<1>5. CASE Only(t) \/ Copy(t) \/ Link(t)
  <2>1. new[t] \in Used /\ (Copy(t) \/ Link(t) => ChildOf(iter[t], entry[t]))
    BY <1>5 DEF Only, Copy, Link, ThreadShape, LinkLabels, InsertLabels
  <2>2. Copy(t) => siblings[iter[t]] \in Used
    BY <2>1 DEF Pointers, ChildOf
  <2>3. PICK e \in Used, f \in Used : siblings' = [siblings EXCEPT ![f] = e]
    BY <1>5, <2>1, <2>2 DEF Only, Copy, Link, ChildOf
  <2>4. UNCHANGED <<childs, name, inode, owner, nalloc>> /\ e # NULL
    BY <1>5, <2>3 DEF Only, Copy, Link
  <2> QED BY <2>3, <2>4
<1> QED BY <1>1, <1>2, <1>3, <1>4, <1>5

LEMMA ChildStays ==
    ASSUME Shape, Grows, NEW e, NEW n, ChildOf(e, n)
    PROVE  ChildOf(e, n)'
  BY DEF ChildOf, Grows, Used, Shape, TypeOK, Entries, Nodes, NULL

\* So what another worker knows stays true.
LEMMA OthersShape ==
    ASSUME Shape, NEW t \in Threads, Start(t) \/ LookupStep(t),
           NEW u \in Threads, u # t
    PROVE  ThreadShape(u)'
<1>1. Grows
  BY Growing
<1>2. /\ pc'[u] = pc[u] /\ path'[u] = path[u] /\ entry'[u] = entry[u]
      /\ iter'[u] = iter[u] /\ new'[u] = new[u] /\ ino'[u] = ino[u]
  BY LocalFrame DEF Shape
<1>3. ChildOf(iter[u], entry[u]) => ChildOf(iter[u], entry[u])'
  BY <1>1, <1>2, ChildStays DEF ChildOf
<1>4. 0 .. nalloc \subseteq 0 .. nalloc' /\ Used \subseteq Used'
  BY <1>1 DEF Grows, Used, Shape, TypeOK, Nodes, Entries, NULL
<1> QED
  BY <1>1, <1>2, <1>3, <1>4
     DEF Shape, TypeOK, ThreadShape, Grows, Used, LinkLabels, InsertLabels, ChildOf

LEMMA ShapeStep == Shape /\ [Next]_vars => Shape'
<1> SUFFICES ASSUME Shape, [Next]_vars PROVE Shape'
  OBVIOUS
<1>1. ASSUME NEW t \in Threads, Start(t) \/ LookupStep(t),
             TypeOK', Pointers', ThreadShape(t)'
      PROVE  Shape'
  BY <1>1, OthersShape DEF Shape
<1> USE DCacheConstants
    DEF Shape, TypeOK, Pointers, ThreadShape, ChildOf, Used, PcLabels,
        CacheLabels, InsertLabels, LinkLabels, Nodes, Entries, NULL, Goto,
        treeVars, threadVars
<1>2. ASSUME NEW t \in Threads, Start(t) PROVE Shape'
  <2>1. TypeOK'
    BY <1>2 DEF Start
  <2>2. Pointers'
    BY <1>2 DEF Start
  <2>3. ThreadShape(t)'
    BY <1>2 DEF Start
  <2> QED BY <1>1, <1>2, <2>1, <2>2, <2>3 DEF LookupStep
<1>3. ASSUME NEW t \in Threads, Lookup(t) PROVE Shape'
  <2>0. GetInode(entry[t]) \in Inodes /\ childs[entry[t]] \in Nodes
    BY GetInodeType
  <2>1. CASE childs[entry[t]] = NULL \/ path[t] = <<>>
    <3>1. /\ pc' = [pc EXCEPT ![t] = "walk"]
          /\ ino' = [ino EXCEPT ![t] = GetInode(entry[t])]
          /\ UNCHANGED <<treeVars, path, entry, iter, new, lookups>>
      BY <1>3, <2>1 DEF Lookup
    <3>2. TypeOK'
      BY <3>1, <2>0
    <3>3. Pointers' /\ ThreadShape(t)'
      BY <3>1, <2>0
    <3> QED BY <1>1, <1>3, <3>2, <3>3 DEF LookupStep
  <2>2. CASE childs[entry[t]] # NULL /\ path[t] # <<>>
    <3>1. /\ pc' = [pc EXCEPT ![t] = "compare"]
          /\ iter' = [iter EXCEPT ![t] = childs[entry[t]]]
          /\ UNCHANGED <<treeVars, path, entry, new, ino, lookups>>
      BY <1>3, <2>2 DEF Lookup
    <3>2. TypeOK'
      BY <3>1, <2>0
    <3>3. Pointers' /\ ThreadShape(t)'
      BY <3>1, <2>0, <2>2
    <3> QED BY <1>1, <1>3, <3>2, <3>3 DEF LookupStep
  <2> QED BY <2>1, <2>2
<1>4. ASSUME NEW t \in Threads, Hit(t) PROVE Shape'
  <2>0. Tail(path[t]) \in Seq(Names) /\ iter[t] \in Nodes
    <3>1. path[t] \in Seq(Names) /\ path[t] # <<>>
      BY <1>4 DEF Hit
    <3> QED BY <3>1
  <2>1. TypeOK'
    BY <1>4, <2>0 DEF Hit
  <2>2. Pointers'
    BY <1>4 DEF Hit
  <2>3. ThreadShape(t)'
    BY <1>4 DEF Hit
  <2> QED BY <1>1, <1>4, <2>1, <2>2, <2>3 DEF LookupStep
<1>5. ASSUME NEW t \in Threads, Advance(t) PROVE Shape'
  <2>0. siblings[iter[t]] \in Nodes
    BY <1>5 DEF Advance
  <2>1. TypeOK'
    BY <1>5, <2>0 DEF Advance
  <2>2. Pointers'
    BY <1>5 DEF Advance
  <2>3. ThreadShape(t)'
    BY <1>5 DEF Advance
  <2> QED BY <1>1, <1>5, <2>1, <2>2, <2>3 DEF LookupStep
<1>6. ASSUME NEW t \in Threads, Again(t) PROVE Shape'
  <2>0. GetInode(entry[t]) \in Inodes
    BY GetInodeType
  <2>1. CASE iter[t] # childs[entry[t]]
    <3>1. /\ pc' = [pc EXCEPT ![t] = "compare"] /\ pc[t] = "again"
          /\ UNCHANGED <<treeVars, path, entry, iter, new, ino, lookups>>
      BY <1>6, <2>1 DEF Again
    <3>2. TypeOK'
      BY <3>1
    <3>3. Pointers' /\ ThreadShape(t)'
      BY <3>1
    <3> QED BY <1>1, <1>6, <3>2, <3>3 DEF LookupStep
  <2>2. CASE iter[t] = childs[entry[t]]
    <3>1. /\ pc' = [pc EXCEPT ![t] = "walk"]
          /\ ino' = [ino EXCEPT ![t] = GetInode(entry[t])]
          /\ UNCHANGED <<treeVars, path, entry, iter, new, lookups>>
      BY <1>6, <2>2 DEF Again
    <3>2. TypeOK'
      BY <3>1, <2>0
    <3>3. Pointers' /\ ThreadShape(t)'
      BY <3>1, <2>0
    <3> QED BY <1>1, <1>6, <3>2, <3>3 DEF LookupStep
  <2> QED BY <2>1, <2>2
<1>7. ASSUME NEW t \in Threads, Walk(t) PROVE Shape'
  <2>0. Dir[ino[t]][Head(path[t])] \in Inodes \cup {0}
    <3>1. path[t] \in Seq(Names) /\ path[t] # <<>>
      BY <1>7 DEF Walk
    <3>2. Head(path[t]) \in Names
      BY <3>1
    <3>3. ino[t] \in Inodes
      BY <1>7 DEF Walk
    <3> QED BY <3>2, <3>3, DirType
  <2>1. TypeOK'
    BY <1>7, <2>0 DEF Walk
  <2>2. Pointers'
    BY <1>7 DEF Walk
  <2>3. ThreadShape(t)'
    BY <1>7 DEF Walk
  <2> QED BY <1>1, <1>7, <2>1, <2>2, <2>3 DEF LookupStep
<1>8. ASSUME NEW t \in Threads, Return(t) PROVE Shape'
  <2>1. TypeOK'
    BY <1>8 DEF Return
  <2>2. Pointers'
    BY <1>8 DEF Return
  <2>3. ThreadShape(t)'
    BY <1>8 DEF Return
  <2> QED BY <1>1, <1>8, <2>1, <2>2, <2>3 DEF LookupStep
<1>9. ASSUME NEW t \in Threads, Refuse(t) PROVE Shape'
  <2>1. TypeOK'
    BY <1>9 DEF Refuse
  <2>2. Pointers'
    BY <1>9 DEF Refuse
  <2>3. ThreadShape(t)'
    BY <1>9 DEF Refuse
  <2> QED BY <1>1, <1>9, <2>1, <2>2, <2>3 DEF LookupStep
<1>10. ASSUME NEW t \in Threads, Create(t) PROVE Shape'
  <2>1. TypeOK'
    BY <1>10 DEF Create
  <2>0. /\ nalloc \in Nat /\ nalloc' = nalloc + 1 /\ Used' = Used \cup {nalloc + 1}
        /\ owner' = [owner EXCEPT ![nalloc + 1] = entry[t]]
        /\ UNCHANGED <<childs, siblings>> /\ nalloc + 1 \in Entries
    BY <1>10 DEF Create
  <2>4. siblings[nalloc + 1] = NULL
    BY <2>0
  <2>2. Pointers'
    BY <2>0, <2>4
  <2>3. ThreadShape(t)'
    BY <1>10 DEF Create
  <2> QED BY <1>1, <1>10, <2>1, <2>2, <2>3 DEF LookupStep
<1>11. ASSUME NEW t \in Threads, Only(t) PROVE Shape'
  <2>1. TypeOK'
    BY <1>11 DEF Only
  <2>2. Pointers'
    BY <1>11 DEF Only
  <2>3. ThreadShape(t)'
    BY <1>11 DEF Only
  <2> QED BY <1>1, <1>11, <2>1, <2>2, <2>3 DEF LookupStep
<1>12. ASSUME NEW t \in Threads, Load(t) PROVE Shape'
  <2>1. TypeOK'
    BY <1>12 DEF Load
  <2>2. Pointers'
    BY <1>12 DEF Load
  <2>3. ThreadShape(t)'
    BY <1>12 DEF Load
  <2> QED BY <1>1, <1>12, <2>1, <2>2, <2>3 DEF LookupStep
<1>13. ASSUME NEW t \in Threads, Copy(t) PROVE Shape'
  <2>1. TypeOK'
    <3>1. iter[t] \in Nodes /\ iter[t] # NULL /\ iter[t] \in Entries
      BY <1>13 DEF Copy
    <3>2. siblings' \in [Entries -> Nodes]
      BY <1>13, <3>1 DEF Copy
    <3> QED BY <1>13, <3>2 DEF Copy
  <2>0. /\ ChildOf(iter[t], entry[t]) /\ new[t] \in Used /\ owner[new[t]] = entry[t]
        /\ siblings' = [siblings EXCEPT ![new[t]] = siblings[iter[t]]]
        /\ UNCHANGED <<childs, owner, nalloc>>
    BY <1>13 DEF Copy
  <2>4. ChildOf(siblings[iter[t]], entry[t])
    BY <2>0
  <2>2. Pointers'
    BY <2>0, <2>4
  <2>3. ThreadShape(t)'
    BY <1>13 DEF Copy
  <2> QED BY <1>1, <1>13, <2>1, <2>2, <2>3 DEF LookupStep
<1>14. ASSUME NEW t \in Threads, Reload(t) PROVE Shape'
  <2>1. TypeOK'
    BY <1>14 DEF Reload
  <2>2. Pointers'
    BY <1>14 DEF Reload
  <2>3. ThreadShape(t)'
    BY <1>14 DEF Reload
  <2> QED BY <1>1, <1>14, <2>1, <2>2, <2>3 DEF LookupStep
<1>15. ASSUME NEW t \in Threads, Link(t) PROVE Shape'
  <2>1. TypeOK'
    BY <1>15 DEF Link
  <2>0. /\ ChildOf(iter[t], entry[t]) /\ ChildOf(new[t], entry[t])
        /\ siblings' = [siblings EXCEPT ![iter[t]] = new[t]]
        /\ UNCHANGED <<childs, owner, nalloc>>
    BY <1>15 DEF Link
  <2>4. \A e \in Entries : siblings'[e] = IF e = iter[t] THEN new[t] ELSE siblings[e]
    BY <2>0
  <2>5. \A e, n : ChildOf(e, n) => ChildOf(e, n)'
    BY <2>0, <2>4
  <2>6. ASSUME NEW e \in Entries, siblings'[e] # NULL
        PROVE  e \in Used' /\ ChildOf(siblings[e], owner[e])'
    <3>1. CASE e = iter[t]
      BY <2>0, <2>4, <3>1
    <3>2. CASE e # iter[t]
      <4>1. siblings'[e] = siblings[e] /\ siblings[e] # NULL
        BY <2>4, <2>6, <3>2
      <4>2. e \in Used /\ ChildOf(siblings[e], owner[e])
        BY <4>1
      <4> QED BY <2>0, <2>5, <4>1, <4>2
    <3> QED BY <3>1, <3>2
  <2>7. ASSUME NEW n \in Nodes, childs'[n] # NULL PROVE ChildOf(childs[n], n)'
    BY <2>0, <2>5, <2>7
  <2>8. \A e \in Used' : owner'[e] \in 0 .. nalloc'
    BY <2>0
  <2>2. Pointers'
    BY <2>6, <2>7, <2>8
  <2>3. ThreadShape(t)'
    BY <1>15 DEF Link
  <2> QED BY <1>1, <1>15, <2>1, <2>2, <2>3 DEF LookupStep
<1>16. ASSUME NEW t \in Threads, Front(t) PROVE Shape'
  <2>0. Tail(path[t]) \in Seq(Names)
    <3>1. path[t] \in Seq(Names) /\ path[t] # <<>>
      BY <1>16 DEF Front
    <3> QED BY <3>1
  <2>1. TypeOK'
    BY <1>16, <2>0 DEF Front
  <2>2. Pointers'
    BY <1>16 DEF Front
  <2>3. ThreadShape(t)'
    BY <1>16 DEF Front
  <2> QED BY <1>1, <1>16, <2>1, <2>2, <2>3 DEF LookupStep
<1>17. CASE UNCHANGED vars
  BY <1>17 DEF vars
<1> QED
  BY <1>2, <1>3, <1>4, <1>5, <1>6, <1>7, <1>8, <1>9, <1>10, <1>11, <1>12, <1>13, <1>14, <1>15, <1>16, <1>17 DEF Next, LookupStep, Terminated

LEMMA ShapeInvariance == Spec => []Shape
<1>1. Init => Shape
  BY InitShape
<1>2. Shape /\ [Next]_vars => Shape'
  BY ShapeStep
<1> QED BY <1>1, <1>2, PTL DEF Spec

\* In every reachable state the entries and the locals of the workers are well
\* typed: no entry is cached for inode 0.
THEOREM TypeCorrect == Spec => []TypeOK
<1>1. Shape => TypeOK
  BY DEF Shape
<1> QED BY <1>1, ShapeInvariance, PTL

\* dcache_lookup and dcache_insert follow no NULL pointer, for any number of
\* workers: the unlocked updates may lose entries but never leave a hole.
THEOREM NeverNull == Spec => []NoNullEntry
<1>1. Shape => NoNullEntry
  BY DCacheConstants DEF Shape, TypeOK, ThreadShape, ChildOf, Used, NoNullEntry, NULL,
         Nodes, Entries
<1> QED BY <1>1, ShapeInvariance, PTL

-----------------------------------------------------------------------------
(* The cache agrees with the disk. *)

LEMMA InodeStays ==
    ASSUME Shape, Grows, NEW n \in 0 .. nalloc
    PROVE  GetInode(n)' = GetInode(n)
  BY DEF Grows, GetInode, Used, Shape, TypeOK, Entries, Nodes, NULL

LEMMA OthersAgree ==
    ASSUME Shape, NEW t \in Threads, Start(t) \/ LookupStep(t),
           NEW u \in Threads, u # t, ThreadAgree(u)
    PROVE  ThreadAgree(u)'
<1>1. /\ pc'[u] = pc[u] /\ path'[u] = path[u] /\ entry'[u] = entry[u]
      /\ new'[u] = new[u] /\ ino'[u] = ino[u]
  BY LocalFrame DEF Shape
<1>2. Grows
  BY Growing
<1>3. GetInode(entry[u])' = GetInode(entry[u])
  <2>1. entry[u] \in 0 .. nalloc
    BY DEF Shape, ThreadShape
  <2>2. GetInode(entry[u])' = IF entry'[u] = NULL THEN RootInode ELSE inode'[entry'[u]]
    BY DEF GetInode
  <2> QED BY <1>1, <1>2, <2>1, <2>2
          DEF Grows, GetInode, Used, Shape, TypeOK, Entries, Nodes, NULL
<1>4. pc[u] \in LinkLabels => inode'[new[u]] = inode[new[u]]
  BY <1>2 DEF Grows, Shape, ThreadShape
<1> QED BY <1>1, <1>3, <1>4 DEF ThreadAgree, LongLast

LEMMA AgreeStep ==
    ASSUME Shape, Sound, NEW t \in Threads, Start(t) \/ LookupStep(t)
    PROVE  Agree'
<1>1. Grows
  BY Growing
<1>2. ASSUME NEW e \in Used
      PROVE  Dir[GetInode(owner[e])'][name'[e]] = inode'[e]
  <2>1. owner'[e] = owner[e] /\ name'[e] = name[e] /\ inode'[e] = inode[e]
    BY <1>1 DEF Grows
  <2>2. owner[e] \in 0 .. nalloc
    BY DEF Shape, Pointers
  <2>3. GetInode(owner[e])' = GetInode(owner[e])
    BY <1>1, <2>1, <2>2
       DEF Grows, GetInode, Used, Shape, TypeOK, Entries, Nodes, NULL
  <2> QED BY <2>1, <2>3 DEF Sound, Agree
<1>3. CASE nalloc' = nalloc
  BY <1>2, <1>3 DEF Agree, Used
<1>4. CASE Create(t)
  <2>0. nalloc \in Nat /\ MaxEntries \in Nat /\ nalloc < MaxEntries
    BY <1>4, DCacheConstants DEF Create, Shape, TypeOK, Nodes, Entries, NULL
  <2>6. PICK e \in Entries : e = nalloc + 1
    BY <2>0 DEF Entries
  <2>1. /\ e \notin 0 .. nalloc /\ nalloc' = e
        /\ Used' = Used \cup {e}
    BY <1>4, <2>0, <2>6 DEF Create, Used, Entries
  <2>4. owner'[e] = entry[t] /\ name'[e] = Head(path[t]) /\ inode'[e] = ino[t]
    BY <1>4, <2>6 DEF Create, Shape, TypeOK
  <2>5. /\ entry[t] \in 0 .. nalloc
        /\ \A f \in Entries : f # e => inode'[f] = inode[f]
    BY <1>4, <2>6 DEF Create, Shape, TypeOK, ThreadShape
  <2>2. GetInode(owner[e])' = GetInode(entry[t])
    <3>1. GetInode(owner[e])' = IF entry[t] = NULL THEN RootInode ELSE inode'[entry[t]]
      BY <2>4 DEF GetInode
    <3> QED BY <3>1, <2>0, <2>1, <2>5 DEF GetInode, Entries, NULL
  <2>3. Dir[GetInode(entry[t])][Head(path[t])] = ino[t]
    BY <1>4 DEF Sound, ThreadAgree, Create, InsertLabels
  <2> QED BY <1>2, <2>1, <2>2, <2>3, <2>4 DEF Agree
<1> QED
  BY <1>3, <1>4 DEF LookupStep, treeVars, Start, Lookup, Hit, Advance, Again, Walk,
     Return, Refuse, Only, Load, Copy, Reload, Link, Front

LEMMA SoundStep ==
    ASSUME LongNamesLast PROVE Shape /\ Sound /\ [Next]_vars => Sound'
<1> SUFFICES ASSUME Shape, Sound, [Next]_vars PROVE Sound'
  OBVIOUS
<1>1. ASSUME NEW t \in Threads, Start(t) \/ LookupStep(t), ThreadAgree(t)'
      PROVE  Sound'
  BY <1>1, AgreeStep, OthersAgree DEF Sound
<1> USE DEF Shape, TypeOK, ThreadShape, ThreadAgree, Sound, Goto, treeVars,
            threadVars, LinkLabels, InsertLabels, GetInode, NULL
<1>2. ASSUME NEW t \in Threads, Start(t) PROVE Sound'
  <2>2. LongLast(path[t])'
    BY <1>2 DEF Start, LongNamesLast, LongLast
  <2>1. ThreadAgree(t)'
    BY <1>2, <2>2 DEF Start
  <2> QED BY <1>1, <1>2, <2>1 DEF LookupStep
<1>3. ASSUME NEW t \in Threads, Lookup(t) PROVE Sound'
  <2>2. LongLast(path[t])'
    BY <1>3 DEF Lookup, LongLast
  <2>1. ThreadAgree(t)'
    BY <1>3, <2>2 DEF Lookup
  <2> QED BY <1>1, <1>3, <2>1 DEF LookupStep
<1>4. ASSUME NEW t \in Threads, Hit(t) PROVE Sound'
  <2>0. path[t] \in Seq(Names) /\ path[t] # <<>> /\ LongLast(path[t])
    BY <1>4 DEF Hit
  <2>3. /\ LongLast(Tail(path[t]))
        /\ Head(path[t]) \in LongNames => Tail(path[t]) = <<>>
    BY <2>0, HeadTail
  <2>2. LongLast(path[t])'
    BY <1>4, <2>3 DEF Hit, LongLast
  <2>1. ThreadAgree(t)'
    BY <1>4, <2>2, <2>3 DEF Hit
  <2> QED BY <1>1, <1>4, <2>1 DEF LookupStep
<1>5. ASSUME NEW t \in Threads, Advance(t) PROVE Sound'
  <2>2. LongLast(path[t])'
    BY <1>5 DEF Advance, LongLast
  <2>1. ThreadAgree(t)'
    BY <1>5, <2>2 DEF Advance
  <2> QED BY <1>1, <1>5, <2>1 DEF LookupStep
<1>6. ASSUME NEW t \in Threads, Again(t) PROVE Sound'
  <2>2. LongLast(path[t])'
    BY <1>6 DEF Again, LongLast
  <2>1. ThreadAgree(t)'
    BY <1>6, <2>2 DEF Again
  <2> QED BY <1>1, <1>6, <2>1 DEF LookupStep
<1>7. ASSUME NEW t \in Threads, Walk(t) PROVE Sound'
  <2>2. LongLast(path[t])'
    BY <1>7 DEF Walk, LongLast
  <2>1. ThreadAgree(t)'
    BY <1>7, <2>2 DEF Walk
  <2> QED BY <1>1, <1>7, <2>1 DEF LookupStep
<1>8. ASSUME NEW t \in Threads, Return(t) PROVE Sound'
  <2>2. LongLast(path[t])'
    BY <1>8 DEF Return, LongLast
  <2>1. ThreadAgree(t)'
    BY <1>8, <2>2 DEF Return
  <2> QED BY <1>1, <1>8, <2>1 DEF LookupStep
<1>9. ASSUME NEW t \in Threads, Refuse(t) PROVE Sound'
  <2>0. path[t] \in Seq(Names) /\ path[t] # <<>> /\ LongLast(path[t])
    BY <1>9 DEF Refuse
  <2>3. /\ LongLast(Tail(path[t]))
        /\ Head(path[t]) \in LongNames => Tail(path[t]) = <<>>
    BY <2>0, HeadTail
  <2>2. LongLast(path[t])'
    BY <1>9, <2>3 DEF Refuse, LongLast
  <2>1. ThreadAgree(t)'
    BY <1>9, <2>2, <2>3 DEF Refuse, Fits
  <2> QED BY <1>1, <1>9, <2>1 DEF LookupStep
<1>10. ASSUME NEW t \in Threads, Create(t) PROVE Sound'
  <2>2. LongLast(path[t])'
    BY <1>10 DEF Create, LongLast
  <2>3. /\ nalloc + 1 \in Entries /\ nalloc + 1 # entry[t]
        /\ entry[t] # NULL => entry[t] \in Entries
    BY <1>10, DCacheConstants DEF Create, Entries, Nodes
  <2>4. /\ pc'[t] \in {"only", "load"} /\ path' = path /\ entry' = entry /\ ino' = ino
        /\ new'[t] = nalloc + 1 /\ inode' = [inode EXCEPT ![nalloc + 1] = ino[t]]
        /\ pc[t] = "insert"
    BY <1>10 DEF Create
  <2>1. ThreadAgree(t)'
    BY <2>2, <2>3, <2>4
  <2> QED BY <1>1, <1>10, <2>1 DEF LookupStep
<1>11. ASSUME NEW t \in Threads, Only(t) PROVE Sound'
  <2>2. LongLast(path[t])'
    BY <1>11 DEF Only, LongLast
  <2>1. ThreadAgree(t)'
    BY <1>11, <2>2 DEF Only
  <2> QED BY <1>1, <1>11, <2>1 DEF LookupStep
<1>12. ASSUME NEW t \in Threads, Load(t) PROVE Sound'
  <2>2. LongLast(path[t])'
    BY <1>12 DEF Load, LongLast
  <2>1. ThreadAgree(t)'
    BY <1>12, <2>2 DEF Load
  <2> QED BY <1>1, <1>12, <2>1 DEF LookupStep
<1>13. ASSUME NEW t \in Threads, Copy(t) PROVE Sound'
  <2>2. LongLast(path[t])'
    BY <1>13 DEF Copy, LongLast
  <2>1. ThreadAgree(t)'
    BY <1>13, <2>2 DEF Copy
  <2> QED BY <1>1, <1>13, <2>1 DEF LookupStep
<1>14. ASSUME NEW t \in Threads, Reload(t) PROVE Sound'
  <2>2. LongLast(path[t])'
    BY <1>14 DEF Reload, LongLast
  <2>1. ThreadAgree(t)'
    BY <1>14, <2>2 DEF Reload
  <2> QED BY <1>1, <1>14, <2>1 DEF LookupStep
<1>15. ASSUME NEW t \in Threads, Link(t) PROVE Sound'
  <2>2. LongLast(path[t])'
    BY <1>15 DEF Link, LongLast
  <2>1. ThreadAgree(t)'
    BY <1>15, <2>2 DEF Link
  <2> QED BY <1>1, <1>15, <2>1 DEF LookupStep
<1>16. ASSUME NEW t \in Threads, Front(t) PROVE Sound'
  <2>0. path[t] \in Seq(Names) /\ path[t] # <<>> /\ LongLast(path[t])
    BY <1>16 DEF Front
  <2>3. /\ LongLast(Tail(path[t]))
        /\ Head(path[t]) \in LongNames => Tail(path[t]) = <<>>
    BY <2>0, HeadTail
  <2>2. LongLast(path[t])'
    BY <1>16, <2>3 DEF Front, LongLast
  <2>1. ThreadAgree(t)'
    BY <1>16, <2>2, <2>3 DEF Front, Used
  <2> QED BY <1>1, <1>16, <2>1 DEF LookupStep
<1>17. CASE UNCHANGED vars
  BY <1>17 DEF vars, Agree, Used, GetInode, LongLast
<1> QED
  BY <1>2, <1>3, <1>4, <1>5, <1>6, <1>7, <1>8, <1>9, <1>10, <1>11, <1>12, <1>13, <1>14, <1>15, <1>16, <1>17 DEF Next, LookupStep, Terminated

-----------------------------------------------------------------------------
(* The refinement. *)

\* What PathWalk sees of a worker is not changed by the others.
LEMMA OthersWalk ==
    ASSUME Shape, NEW t \in Threads, Start(t) \/ LookupStep(t),
           NEW u \in Threads, u # t
    PROVE  Todo(u)' = Todo(u) /\ At(u)' = At(u) /\ pc'[u] = pc[u]
<1>1. pc'[u] = pc[u] /\ path'[u] = path[u] /\ entry'[u] = entry[u] /\ ino'[u] = ino[u]
  BY LocalFrame DEF Shape
<1>2. GetInode(entry[u])' = GetInode(entry[u])
  <2>1. entry[u] \in 0 .. nalloc
    BY DEF Shape, ThreadShape
  <2>2. Grows
    BY Growing
  <2> QED BY <1>1, <2>1, <2>2 DEF Grows, GetInode, Used, Shape, TypeOK, Entries, Nodes, NULL
<1> QED BY <1>1, <1>2 DEF Todo, At

LEMMA WalkChange ==
    ASSUME NEW t \in Threads, NEW p, NEW i, Todo(t)' = p, At(t)' = i,
           \A u \in Threads \ {t} : Todo(u)' = Todo(u) /\ At(u)' = At(u)
    PROVE  /\ [u \in Threads |-> Todo(u)]'
                 = [[u \in Threads |-> Todo(u)] EXCEPT ![t] = p]
           /\ [u \in Threads |-> At(u)]' = [[u \in Threads |-> At(u)] EXCEPT ![t] = i]
  OBVIOUS

LEMMA BusyChange ==
    ASSUME NEW t \in Threads, NEW b \in BOOLEAN, pc'[t] # "idle" <=> b,
           \A u \in Threads \ {t} : pc'[u] = pc[u]
    PROVE  [u \in Threads |-> pc[u] # "idle"]'
              = [[u \in Threads |-> pc[u] # "idle"] EXCEPT ![t] = b]
  OBVIOUS

LEMMA WalkStep == Shape /\ Sound /\ [Next]_vars => [PW!Next]_(PW!vars)
<1> SUFFICES ASSUME Shape, Sound, [Next]_vars PROVE [PW!Next]_(PW!vars)
  OBVIOUS
<1>1. ASSUME NEW t \in Threads, Start(t) \/ LookupStep(t),
             Todo(t)' = Todo(t), At(t)' = At(t), pc'[t] # "idle" <=> pc[t] # "idle"
      PROVE  UNCHANGED PW!vars
  <2>1. \A u \in Threads : /\ Todo(u)' = Todo(u) /\ At(u)' = At(u)
                           /\ pc'[u] # "idle" <=> pc[u] # "idle"
    BY <1>1, OthersWalk
  <2> QED BY <2>1 DEF PW!vars
<1> USE DEF Shape, TypeOK, ThreadShape, Sound, ThreadAgree, Goto, treeVars, threadVars,
            LinkLabels, InsertLabels, CacheLabels, NULL
<1>2. ASSUME NEW t \in Threads, Lookup(t) \/ Advance(t) \/ Again(t) \/ Load(t) \/ Only(t)
                                \/ Copy(t) \/ Reload(t) \/ Link(t) \/ Create(t)
      PROVE  UNCHANGED PW!vars
  <2>1. Todo(t)' = Todo(t) /\ At(t)' = At(t) /\ (pc'[t] # "idle" <=> pc[t] # "idle")
    BY <1>2 DEF Todo, At, Lookup, Advance, Again, Load, Only, Copy, Reload, Link, Create,
                GetInode
  <2> QED BY <1>1, <1>2, <2>1 DEF LookupStep
<1>3. ASSUME NEW t \in Threads, Refuse(t) \/ Front(t) PROVE UNCHANGED PW!vars
  <2>1. Todo(t)' = Todo(t) /\ At(t)' = At(t) /\ (pc'[t] # "idle" <=> pc[t] # "idle")
    BY <1>3 DEF Todo, At, Refuse, Front
  <2> QED BY <1>1, <1>3, <2>1 DEF LookupStep
<1>4. ASSUME NEW t \in Threads, Start(t) PROVE PW!Start(t)
  <2>1. \A u \in Threads \ {t} : /\ Todo(u)' = Todo(u) /\ At(u)' = At(u)
                                 /\ pc'[u] = pc[u]
    BY <1>4, OthersWalk
  <2>2. PICK p \in Paths : Todo(t)' = p
    BY <1>4 DEF Start, Todo
  <2>3. At(t)' = RootInode /\ pc[t] = "idle" /\ pc'[t] = "lookup"
    BY <1>4 DEF Start, At, GetInode
  <2> HIDE DEF Shape, TypeOK, ThreadShape, Sound, ThreadAgree
  <2>4. /\ [u \in Threads |-> Todo(u)]'
              = [[u \in Threads |-> Todo(u)] EXCEPT ![t] = p]
        /\ [u \in Threads |-> At(u)]'
              = [[u \in Threads |-> At(u)] EXCEPT ![t] = RootInode]
    BY <2>1, <2>2, <2>3, WalkChange
  <2>5. [u \in Threads |-> pc[u] # "idle"]'
           = [[u \in Threads |-> pc[u] # "idle"] EXCEPT ![t] = TRUE]
    BY <2>1, <2>3, BusyChange
  <2> QED BY <2>3, <2>4, <2>5 DEF PW!Start
<1>5. ASSUME NEW t \in Threads, Hit(t) PROVE PW!Step(t)
  <2>1. \A u \in Threads \ {t} : /\ Todo(u)' = Todo(u) /\ At(u)' = At(u)
                                 /\ pc'[u] = pc[u]
    BY <1>5, OthersWalk DEF LookupStep
  <2>2. /\ pc[t] = "compare" /\ pc'[t] = "lookup"
        /\ Todo(t) = path[t] /\ path[t] # <<>> /\ Todo(t)' = Tail(path[t])
    BY <1>5 DEF Hit, Todo
  <2>3. At(t) \in Inodes /\ At(t) = GetInode(entry[t])
    BY <2>2, GetInodeType DEF At
  <2>4. iter[t] \in Used /\ owner[iter[t]] = entry[t] /\ name[iter[t]] = Head(path[t])
    BY <1>5 DEF Hit, ChildOf, Matches
  <2>5. At(t)' = inode[iter[t]] /\ inode[iter[t]] \in Inodes
    BY <1>5, <2>4 DEF Hit, At, GetInode, Used
  <2>6. Dir[At(t)][Head(path[t])] = inode[iter[t]] /\ At(t) # 0 /\ inode[iter[t]] # 0
    BY <2>3, <2>4, <2>5, DCacheConstants DEF Agree
  <2>7. /\ [u \in Threads |-> Todo(u)]'
              = [[u \in Threads |-> Todo(u)] EXCEPT ![t] = Tail(path[t])]
        /\ [u \in Threads |-> At(u)]'
              = [[u \in Threads |-> At(u)] EXCEPT ![t] = inode[iter[t]]]
    BY <2>1, <2>2, <2>5, WalkChange
  <2>8. [u \in Threads |-> pc[u] # "idle"]' = [u \in Threads |-> pc[u] # "idle"]
    BY <2>1, <2>2
  <2> HIDE DEF Shape, TypeOK, ThreadShape, Sound, ThreadAgree
  <2> QED BY <2>2, <2>6, <2>7, <2>8 DEF PW!Step
<1>6. ASSUME NEW t \in Threads, Walk(t) PROVE PW!Step(t)
  <2>1. \A u \in Threads \ {t} : /\ Todo(u)' = Todo(u) /\ At(u)' = At(u)
                                 /\ pc'[u] = pc[u]
    BY <1>6, OthersWalk DEF LookupStep
  <2>2. /\ pc[t] = "walk" /\ pc'[t] # "idle" /\ At(t)' = Dir[ino[t]][Head(path[t])]
        /\ Todo(t) = path[t] /\ path[t] # <<>> /\ At(t) = ino[t] /\ ino[t] # 0
        /\ Todo(t)' = IF At(t)' = 0 THEN path[t] ELSE Tail(path[t])
    BY <1>6 DEF Walk, Todo, At
  <2>3. /\ [u \in Threads |-> Todo(u)]'
              = [[u \in Threads |-> Todo(u)] EXCEPT
                   ![t] = IF At(t)' = 0 THEN path[t] ELSE Tail(path[t])]
        /\ [u \in Threads |-> At(u)]'
              = [[u \in Threads |-> At(u)] EXCEPT ![t] = Dir[ino[t]][Head(path[t])]]
    BY <2>1, <2>2, WalkChange
  <2>4. [u \in Threads |-> pc[u] # "idle"]' = [u \in Threads |-> pc[u] # "idle"]
    BY <2>1, <2>2
  <2> HIDE DEF Shape, TypeOK, ThreadShape, Sound, ThreadAgree
  <2> QED BY <2>2, <2>3, <2>4 DEF PW!Step
<1>7. ASSUME NEW t \in Threads, Return(t) PROVE PW!Return(t)
  <2>1. \A u \in Threads \ {t} : /\ Todo(u)' = Todo(u) /\ At(u)' = At(u)
                                 /\ pc'[u] = pc[u]
    BY <1>7, OthersWalk DEF LookupStep
  <2>2. /\ Todo(t)' = Todo(t) /\ At(t)' = At(t) /\ pc[t] # "idle" /\ pc'[t] = "idle"
        /\ At(t) = 0 \/ Todo(t) = <<>>
    BY <1>7 DEF Return, Todo, At
  <2>3. /\ [u \in Threads |-> Todo(u)]' = [u \in Threads |-> Todo(u)]
        /\ [u \in Threads |-> At(u)]' = [u \in Threads |-> At(u)]
    BY <2>1, <2>2
  <2>4. [u \in Threads |-> pc[u] # "idle"]'
           = [[u \in Threads |-> pc[u] # "idle"] EXCEPT ![t] = FALSE]
    BY <2>1, <2>2, BusyChange
  <2> HIDE DEF Shape, TypeOK, ThreadShape, Sound, ThreadAgree
  <2> QED BY <2>2, <2>3, <2>4 DEF PW!Return
<1>8. CASE UNCHANGED vars
  BY <1>8 DEF vars, PW!vars, Todo, At, GetInode
<1> QED
  BY <1>2, <1>3, <1>4, <1>5, <1>6, <1>7, <1>8 DEF Next, LookupStep, Terminated, PW!Next

\* When nothing is looked up below a directory whose name does not fit, every
\* lookup through the shared cache gives what a walk through the directories of
\* the disk gives, however the workers' unlocked updates interleave.
THEOREM WalkRefined == ASSUME LongNamesLast PROVE Spec => Implements
<1>1. Init => PW!Init
  BY DEF Init, PW!Init, Todo, At, InsertLabels, CacheLabels
<1>2. Init => Sound
  BY DEF Init, Sound, Agree, ThreadAgree, Used, LongLast, InsertLabels, LinkLabels
<1>3. Shape /\ Sound /\ [Next]_vars => Sound'
  BY SoundStep
<1>4. Shape /\ Sound /\ [Next]_vars => [PW!Next]_(PW!vars)
  BY WalkStep
<1> QED BY <1>1, <1>2, <1>3, <1>4, ShapeInvariance, PTL DEF Spec, Implements, PW!Spec
-----------------------------------------------------------------------------
(* The ring of siblings with one worker: dcache_insert keeps it a ring,      *)
(* moving an entry to the front does not disturb it, and dcache_lookup has   *)
(* seen all of it before a name is inserted.                                 *)

\* There is one worker.
Alone == \A t, u \in Threads : t = u

\* R is one cycle of sib: whoever starts in it and follows sib meets all of it.
Cycle(R, sib) ==
    /\ \A e \in R : sib[e] \in R
    /\ \A X \in SUBSET R : X # {} /\ (\A e \in X : sib[e] \in X) => X = R

\* r goes k steps along sib, from h.
Follows(r, sib, h, k) == r = [i \in 0 .. k |-> IF i = 0 THEN h ELSE sib[r[i - 1]]]

\* The children of n that the ring goes through: all but a new one whose
\* neighbour does not point to it yet.
Unlinked  == {"only", "load", "copy", "reload", "link"}
Linked(n) == {e \in Kids(n) : \A t \in Threads : pc[t] \in Unlinked => e # new[t]}

\* The rings, and where the directories' pointers into them lead.
RingInv ==
    \A n \in 0 .. nalloc :
        /\ Cycle(Linked(n), siblings)
        /\ Linked(n) = {} => childs[n] = NULL
        /\ \/ Linked(n) = {} \/ childs[n] \in Linked(n)
           \/ \E t \in Threads : pc[t] = "front" /\ entry[t] = n
        /\ \A e, f \in Kids(n) : name[e] = name[f] => e = f

\* The entries V that a search has passed.
Passed(t, V) ==
    /\ \A e \in V : name[e] # Head(path[t])
    /\ \/ V = {} /\ iter[t] = childs[entry[t]] /\ pc[t] = "compare"
       \/ childs[entry[t]] \in V /\ \A e \in V : siblings[e] \in V \cup {iter[t]}

\* Where the worker is, in relation to the ring.
WorkerInv(t) ==
    /\ pc[t] \in {"compare", "again"} => \E V \in SUBSET Linked(entry[t]) : Passed(t, V)
    /\ pc[t] \in {"walk", "insert"} /\ path[t] # <<>> =>
          \A e \in Kids(entry[t]) : name[e] # Head(path[t])
    /\ pc[t] \in LinkLabels => Kids(new[t]) = {}
    /\ pc[t] = "only" => childs[entry[t]] = NULL
    /\ pc[t] \in {"copy", "link"} => iter[t] = childs[entry[t]]
    /\ pc[t] \in {"reload", "link"} => siblings[new[t]] = siblings[childs[entry[t]]]

RingShape == RingInv /\ \A t \in Threads : WorkerInv(t)

-----------------------------------------------------------------------------
(* Cycles. *)

\* A set of numbers has a least one.
LEMMA Smallest ==
    ASSUME NEW S \in SUBSET Nat, S # {}
    PROVE  \E m \in S : \A j \in S : m <= j
<1>1. PICK m \in S : \A y \in S : ~(<<y, m>> \in OpToRel(<, Nat))
  BY NatLessThanWellFounded, WFMin
<1>2. \A y \in S : ~(y < m)
  BY <1>1 DEF OpToRel
<1> QED BY <1>2

\* One can follow sib from h as far as one likes.
LEMMA Follow ==
    ASSUME NEW sib, NEW h, NEW k \in Nat
    PROVE  \E r : Follows(r, sib, h, k)
<1> USE DEF Follows
<1> DEFINE Ok(m) == \E r : Follows(r, sib, h, m)
           Bad   == {m \in Nat : ~Ok(m)}
<1>1. SUFFICES ASSUME ~Ok(k) PROVE FALSE
  OBVIOUS
<1>2. PICK m \in Bad : \A j \in Bad : m <= j
  <2>1. k \in Bad
    BY <1>1
  <2> HIDE DEF Bad
  <2>2. Bad \in SUBSET Nat
    BY DEF Bad
  <2> QED BY <2>1, <2>2, Smallest
<1>3. m # 0
  <2>1. PICK r : r = [i \in 0 .. 0 |-> h]
    OBVIOUS
  <2>2. r = [i \in 0 .. 0 |-> IF i = 0 THEN h ELSE sib[r[i - 1]]]
    BY <2>1
  <2>3. Ok(0)
    BY <2>2
  <2> QED BY <1>2, <2>3
<1>4. m - 1 \in Nat /\ Ok(m - 1)
  BY <1>2, <1>3
<1>5. PICK r : r = [i \in 0 .. m - 1 |-> IF i = 0 THEN h ELSE sib[r[i - 1]]]
  BY <1>4
<1>6. PICK s : s = [i \in 0 .. m |-> IF i = m THEN sib[r[m - 1]] ELSE r[i]]
  OBVIOUS
<1>7. s = [i \in 0 .. m |-> IF i = 0 THEN h ELSE sib[s[i - 1]]]
  <2>1. s[0] = h
    BY <1>3, <1>4, <1>5, <1>6
  <2>2. \A i \in 1 .. m : s[i] = sib[s[i - 1]]
    <3> SUFFICES ASSUME NEW i \in 1 .. m PROVE s[i] = sib[s[i - 1]]
      OBVIOUS
    <3>1. CASE i = m
      BY <1>4, <1>6, <3>1
    <3>2. CASE i # m
      <4>1. i \in 0 .. m - 1 /\ i - 1 \in 0 .. m - 1 /\ i # 0
        BY <1>4, <3>2
      <4>2. r[i] = sib[r[i - 1]]
        BY <1>5, <4>1
      <4> QED BY <1>6, <3>2, <4>1, <4>2
    <3> QED BY <3>1, <3>2
  <2>3. \A i \in 0 .. m : s[i] = IF i = 0 THEN h ELSE sib[s[i - 1]]
    <3>1. \A i \in 0 .. m : i = 0 \/ i \in 1 .. m
      BY <1>2
    <3> QED BY <2>1, <2>2, <3>1
  <2>4. s = [i \in 0 .. m |-> s[i]]
    BY <1>6
  <2> QED BY <2>3, <2>4
<1>8. Ok(m)
  BY <1>7
<1> QED BY <1>2, <1>8

\* Whoever goes round a cycle of k entries has seen them all, and is back.
LEMMA RoundTrip ==
    ASSUME NEW R, IsFiniteSet(R), NEW sib, Cycle(R, sib), NEW h \in R,
           NEW k, k = Cardinality(R),
           NEW r, Follows(r, sib, h, k)
    PROVE  r[k] = r[0] /\ {r[i] : i \in 1 .. k} = R
<1>0. k \in Nat \ {0}
  BY FS_CardinalityType, FS_EmptySet
<1>1. r[0] = h /\ \A i \in 1 .. k : r[i] = sib[r[i - 1]]
  BY <1>0 DEF Follows
<1>2. \A i \in 0 .. k : r[i] \in R
  <2> DEFINE Bad == {i \in 0 .. k : r[i] \notin R}
  <2>1. SUFFICES ASSUME Bad # {} PROVE FALSE
    OBVIOUS
  <2>2. Bad \in SUBSET Nat
    BY <1>0
  <2> HIDE DEF Bad
  <2>3. PICK i \in Bad : \A j \in Bad : i <= j
    BY <2>1, <2>2, Smallest
  <2>4. i \in 0 .. k /\ r[i] \notin R /\ i # 0
    BY <1>1, <2>3 DEF Bad
  <2>5. i - 1 \in 0 .. k /\ ~(i <= i - 1)
    BY <1>0, <2>4
  <2>6. r[i - 1] \in R
    BY <2>3, <2>5 DEF Bad
  <2>7. r[i] = sib[r[i - 1]]
    BY <1>0, <1>1, <2>4
  <2> QED BY <2>4, <2>6, <2>7 DEF Cycle
<1> DEFINE S(p) == {r[i] : i \in 0 .. p - 1}
\* As long as it is not all of R, the entries seen lead to one not seen yet
<1>3. ASSUME NEW p \in 1 .. k, r[p] \in S(p) PROVE S(p) = R
  <2>1. \A x \in S(p) : sib[x] \in S(p)
    <3> SUFFICES ASSUME NEW i \in 0 .. p - 1 PROVE sib[r[i]] \in S(p)
      OBVIOUS
    <3>1. i + 1 \in 1 .. k /\ (i + 1) - 1 = i
      BY <1>0
    <3>2. r[i + 1] = sib[r[i]]
      BY <1>1, <3>1
    <3>3. i + 1 = p \/ i + 1 \in 0 .. p - 1
      BY <1>0
    <3> QED BY <1>3, <3>2, <3>3
  <2>2. S(p) \in SUBSET R
    BY <1>0, <1>2
  <2>3. r[0] \in S(p)
    BY <1>0
  <2> HIDE DEF S
  <2> QED BY <2>1, <2>2, <2>3 DEF Cycle
<1>4. \A p \in 1 .. k : IsFiniteSet(S(p)) /\ Cardinality(S(p)) = p
  <2> DEFINE Bad == {p \in 1 .. k : ~(IsFiniteSet(S(p)) /\ Cardinality(S(p)) = p)}
  <2>1. SUFFICES ASSUME Bad # {} PROVE FALSE
    OBVIOUS
  <2>2. Bad \in SUBSET Nat
    BY <1>0
  <2> HIDE DEF Bad
  <2>3. PICK p \in Bad : \A j \in Bad : p <= j
    BY <2>1, <2>2, Smallest
  <2>4. p \in 1 .. k /\ ~(IsFiniteSet(S(p)) /\ Cardinality(S(p)) = p)
    BY <2>3 DEF Bad
  <2>5. CASE p = 1
    <3>1. S(1) = {r[0]}
      OBVIOUS
    <3>2. IsFiniteSet({r[0]}) /\ Cardinality({r[0]}) = 1
      BY FS_Singleton
    <3> HIDE DEF S
    <3> QED BY <2>4, <2>5, <3>1, <3>2
  <2>6. CASE p # 1
    <3>1. p - 1 \in 1 .. k /\ ~(p <= p - 1) /\ p - 1 # k
      BY <1>0, <2>4, <2>6
    <3>2. IsFiniteSet(S(p - 1)) /\ Cardinality(S(p - 1)) = p - 1
      BY <2>3, <3>1 DEF Bad
    <3>3. r[p - 1] \notin S(p - 1)
      BY <1>3, <3>1, <3>2
    <3>4. S(p) = S(p - 1) \cup {r[p - 1]}
      <4>1. \A i \in 0 .. p - 1 : i = p - 1 \/ i \in 0 .. (p - 1) - 1
        BY <2>4, <3>1
      <4>2. p - 1 \in 0 .. p - 1 /\ \A i \in 0 .. (p - 1) - 1 : i \in 0 .. p - 1
        BY <2>4, <3>1
      <4>3. S(p) \subseteq S(p - 1) \cup {r[p - 1]}
        BY <4>1
      <4>4. S(p - 1) \subseteq S(p) /\ r[p - 1] \in S(p)
        BY <4>2
      <4> HIDE DEF S
      <4> QED BY <4>3, <4>4
    <3> HIDE DEF S
    <3>5. IsFiniteSet(S(p)) /\ Cardinality(S(p)) = (p - 1) + 1
      <4>1. PICK A, x : A = S(p - 1) /\ x = r[p - 1]
        OBVIOUS
      <4>2. IsFiniteSet(A) /\ Cardinality(A) = p - 1 /\ x \notin A /\ S(p) = A \cup {x}
        BY <3>2, <3>3, <3>4, <4>1
      <4>3. IsFiniteSet(A \cup {x}) /\ Cardinality(A \cup {x}) = Cardinality(A) + 1
        BY <4>2, FS_AddElement
      <4> QED BY <4>2, <4>3
    <3>6. (p - 1) + 1 = p
      BY <2>4
    <3> QED BY <2>4, <3>5, <3>6
  <2> QED BY <2>5, <2>6
<1>5. S(k) = R
  <2>1. S(k) \subseteq R
    BY <1>0, <1>2
  <2> HIDE DEF S
  <2>2. Cardinality(S(k)) = Cardinality(R)
    <3>1. k \in 1 .. k
      BY <1>0
    <3> QED BY <1>4, <3>1
  <2> QED BY <2>1, <2>2, FS_Subset
\* So the next one is one of them, and none but the first
<1>6. PICK j \in 0 .. k - 1 : r[k] = r[j]
  BY <1>0, <1>2, <1>5
<1>7. j = 0
  <2> SUFFICES ASSUME j # 0 PROVE FALSE
    OBVIOUS
  <2> DEFINE X == {r[i] : i \in j .. k - 1}
  <2>1. \A x \in X : sib[x] \in X
    <3> SUFFICES ASSUME NEW i \in j .. k - 1 PROVE sib[r[i]] \in X
      OBVIOUS
    <3>1. i + 1 \in 1 .. k /\ (i + 1) - 1 = i
      BY <1>0
    <3>2. r[i + 1] = sib[r[i]]
      BY <1>1, <3>1
    <3>3. i + 1 = k \/ i + 1 \in j .. k - 1
      BY <1>0
    <3>4. r[j] \in X
      BY <1>0
    <3> QED BY <1>6, <3>2, <3>3, <3>4
  <2>2. X \in SUBSET R
    BY <1>0, <1>2
  <2>3. r[j] \in X
    BY <1>0
  <2>4. X = R
    <3> HIDE DEF X
    <3> QED BY <2>1, <2>2, <2>3 DEF Cycle
  <2>5. PICK i \in j .. k - 1 : r[0] = r[i]
    BY <1>0, <1>2, <2>4
  \* r[i] was new when it was met
  <2>6. i \in 1 .. k /\ i < k /\ 0 \in 0 .. i - 1
    BY <1>0
  <2>7. r[i] \in S(i)
    BY <2>5, <2>6
  <2>8. S(i) = R
    BY <1>3, <2>6, <2>7
  <2>9. Cardinality(S(i)) = i
    BY <1>4, <2>6
  <2> HIDE DEF S
  <2> QED BY <2>6, <2>8, <2>9
<1>8. {r[i] : i \in 1 .. k} = R
  <2>1. \A x \in R : \E i \in 1 .. k : x = r[i]
    <3> SUFFICES ASSUME NEW x \in R PROVE \E i \in 1 .. k : x = r[i]
      OBVIOUS
    <3>1. PICK i \in 0 .. k - 1 : x = r[i]
      BY <1>5
    <3>2. CASE i = 0
      BY <1>0, <1>6, <1>7, <3>1, <3>2
    <3>3. CASE i # 0
      BY <1>0, <3>1, <3>3
    <3> QED BY <3>2, <3>3
  <2>2. \A i \in 1 .. k : r[i] \in R
    BY <1>0, <1>2
  <2> QED BY <2>1, <2>2
<1> QED BY <1>6, <1>7, <1>8

\* An entry that points to itself.
LEMMA CycleSingle ==
    ASSUME NEW sib, NEW x, sib[x] = x
    PROVE  Cycle({x}, sib)
  BY DEF Cycle

\* Only the pointers of the ring itself matter.
LEMMA CycleFrame ==
    ASSUME NEW R, NEW sib, NEW sib2, Cycle(R, sib), \A e \in R : sib2[e] = sib[e]
    PROVE  Cycle(R, sib2)
<1>1. \A e \in R : sib2[e] \in R
  BY DEF Cycle
<1>2. ASSUME NEW X \in SUBSET R, X # {}, \A e \in X : sib2[e] \in X PROVE X = R
  <2>1. \A e \in X : sib[e] \in X
    BY <1>2
  <2> QED BY <1>2, <2>1 DEF Cycle
<1> QED BY <1>1, <1>2 DEF Cycle

\* x comes after h: what followed h now follows x.
LEMMA CycleInsert ==
    ASSUME NEW R, NEW sib, NEW sib2, NEW h \in R, NEW x, x \notin R,
           Cycle(R, sib), sib2[h] = x, sib2[x] = sib[h],
           \A e \in R \ {h} : sib2[e] = sib[e]
    PROVE  Cycle(R \cup {x}, sib2)
<1>1. \A e \in R \cup {x} : sib2[e] \in R \cup {x}
  BY DEF Cycle
<1>2. ASSUME NEW X \in SUBSET (R \cup {x}), X # {}, \A e \in X : sib2[e] \in X
      PROVE  X = R \cup {x}
  <2> DEFINE Y == X \ {x}
  <2>1. Y \in SUBSET R
    OBVIOUS
  <2>2. \A e \in Y : sib[e] \in Y
    <3> SUFFICES ASSUME NEW e \in Y PROVE sib[e] \in Y
      OBVIOUS
    <3>1. e \in R /\ sib[e] \in R
      BY DEF Cycle
    <3>2. CASE e = h
      <4>1. x \in X
        BY <1>2, <3>2
      <4> QED BY <1>2, <3>1, <3>2, <4>1
    <3>3. CASE e # h
      BY <1>2, <3>1, <3>3
    <3> QED BY <3>2, <3>3
  <2>3. Y # {}
    <3>1. CASE x \in X
      <4>1. sib[h] \in X /\ sib[h] \in R
        BY <1>2, <3>1 DEF Cycle
      <4> QED BY <4>1
    <3>2. CASE x \notin X
      BY <1>2, <3>2
    <3> QED BY <3>1, <3>2
  <2> HIDE DEF Y
  <2>4. Y = R
    BY <2>1, <2>2, <2>3 DEF Cycle
  <2>5. h \in X /\ R \subseteq X
    BY <2>4 DEF Y
  <2>6. x \in X
    BY <1>2, <2>5
  <2> QED BY <2>5, <2>6
<1> QED BY <1>1, <1>2 DEF Cycle

\* A search that has come back to where it began has passed the whole ring.
LEMMA CycleSearch ==
    ASSUME NEW R, NEW sib, Cycle(R, sib), NEW V \in SUBSET R, NEW h \in V,
           \A e \in V : sib[e] \in V \cup {h}
    PROVE  V = R
  BY DEF Cycle

-----------------------------------------------------------------------------
(* The steps of the one worker. *)

\* What is linked, and what is to be shown of a step, when t is the worker.
LEMMA OneWorker ==
    ASSUME Alone, NEW t \in Threads
    PROVE  /\ \A n : Linked(n) = IF pc[t] \in Unlinked THEN Kids(n) \ {new[t]} ELSE Kids(n)
           /\ \A n : Linked(n)' = IF pc'[t] \in Unlinked THEN Kids(n)' \ {new'[t]} ELSE Kids(n)'
           /\ RingInv' /\ WorkerInv(t)' => RingShape'
<1>1. \A u \in Threads : u = t
  BY DEF Alone
<1>2. \A n : Linked(n) = IF pc[t] \in Unlinked THEN Kids(n) \ {new[t]} ELSE Kids(n)
  BY <1>1 DEF Linked
<1>3. \A n : Linked(n)' = IF pc'[t] \in Unlinked THEN Kids(n)' \ {new'[t]} ELSE Kids(n)'
  BY <1>1 DEF Linked
<1>4. RingInv' /\ WorkerInv(t)' => RingShape'
  BY <1>1 DEF RingShape
<1> QED BY <1>2, <1>3, <1>4

\* A step that changes no entry, nor what is linked, leaves the rings alone.
LEMMA RingFrame ==
    ASSUME Alone, Shape, RingShape, NEW t \in Threads, UNCHANGED treeVars,
           pc[t] # "front", UNCHANGED new,
           pc[t] \in Unlinked <=> pc'[t] \in Unlinked
    PROVE  RingInv' /\ \A n : Kids(n)' = Kids(n) /\ Linked(n)' = Linked(n)
<1>1. \A n : Kids(n)' = Kids(n)
  BY DEF Kids, treeVars
<1>2. \A n : Linked(n)' = Linked(n)
  <2> SUFFICES ASSUME NEW n PROVE Linked(n)' = Linked(n)
    OBVIOUS
  <2>1. Linked(n) = IF pc[t] \in Unlinked THEN Kids(n) \ {new[t]} ELSE Kids(n)
    BY OneWorker
  <2>2. Linked(n)' = IF pc'[t] \in Unlinked THEN Kids(n)' \ {new'[t]} ELSE Kids(n)'
    BY OneWorker
  <2> QED BY <1>1, <2>1, <2>2
<1>3. ~ \E u \in Threads : pc[u] = "front"
  BY DEF Alone
<1>4. UNCHANGED <<childs, siblings, name, nalloc>>
  BY DEF treeVars
<1>5. RingInv'
  BY <1>1, <1>2, <1>3, <1>4 DEF RingShape, RingInv
<1> QED BY <1>1, <1>2, <1>5

\* At first there are no entries.
LEMMA InitRing == Init => RingShape
<1> SUFFICES ASSUME Init PROVE RingShape
  OBVIOUS
<1>1. \A n : Kids(n) = {} /\ Linked(n) = {}
  BY DEF Init, Kids, Linked
<1>2. RingInv
  BY <1>1 DEF RingInv, Cycle, Init, Nodes, NULL
<1>3. ASSUME NEW t \in Threads PROVE WorkerInv(t)
  BY DEF Init, WorkerInv, LinkLabels, InsertLabels
<1> QED BY <1>2, <1>3 DEF RingShape

\* The pointers of a directory's entry, and a search, stay among its children.
LEMMA RingFacts ==
    ASSUME Alone, Shape, RingShape, NEW t \in Threads
    PROVE  /\ WorkerInv(t) /\ entry[t] \in 0 .. nalloc
           /\ \A e, n : ChildOf(e, n) => e \in Kids(n)
           /\ \A n \in 0 .. nalloc :
                 /\ Cycle(Linked(n), siblings)
                 /\ Linked(n) = {} => childs[n] = NULL
                 /\ pc[t] # "front" \/ entry[t] # n =>
                       Linked(n) = {} \/ (childs[n] \in Linked(n) /\ childs[n] # NULL)
                 /\ \A e, f \in Kids(n) : name[e] = name[f] => e = f
<1>1. WorkerInv(t) /\ entry[t] \in 0 .. nalloc
  BY DEF RingShape, Shape, ThreadShape
<1>2. \A e, n : ChildOf(e, n) => e \in Kids(n)
  BY DEF ChildOf, Kids, Used
<1>3. \A n : NULL \notin Linked(n)
  BY DEF Linked, Kids, NULL
<1>4. \A n \in 0 .. nalloc : pc[t] # "front" \/ entry[t] # n =>
                                Linked(n) = {} \/ childs[n] \in Linked(n)
  BY DEF RingShape, RingInv, Alone
<1>5. \A n \in 0 .. nalloc : Linked(n) = {} => childs[n] = NULL
  BY DEF RingShape, RingInv
<1>6. \A n \in 0 .. nalloc : /\ Cycle(Linked(n), siblings)
                            /\ \A e, f \in Kids(n) : name[e] = name[f] => e = f
  BY DEF RingShape, RingInv
<1> QED BY <1>1, <1>2, <1>3, <1>4, <1>5, <1>6

\* The worker's part of RingShape after a step that leaves it at d, with x.
LEMMA WorkerNext ==
    ASSUME NEW t \in Threads, NEW d, d = entry'[t], NEW x, x = new'[t],
           pc'[t] \in {"compare", "again"} => \E V \in SUBSET (Linked(d)') : Passed(t, V)',
           pc'[t] \in {"walk", "insert"} /\ path'[t] # <<>> =>
              \A e \in Kids(d)' : name'[e] # Head(path'[t]),
           pc'[t] \in LinkLabels => Kids(x)' = {},
           pc'[t] = "only" => childs'[d] = NULL,
           pc'[t] \in {"copy", "link"} => iter'[t] = childs'[d],
           pc'[t] \in {"reload", "link"} => siblings'[x] = siblings'[childs'[d]]
    PROVE  WorkerInv(t)'
<1>1. Kids(entry[t])' = Kids(d)' /\ Kids(new[t])' = Kids(x)'
  BY DEF Kids
<1>2. Linked(entry[t])' = Linked(d)'
  BY DEF Linked, Kids
<1> QED BY <1>1, <1>2 DEF WorkerInv

\* The search: it passes over entries that have another name.
LEMMA SearchStep ==
    ASSUME Alone, Shape, RingShape, NEW t \in Threads,
           Start(t) \/ Lookup(t) \/ Advance(t) \/ Again(t)
    PROVE  RingShape'
<1>0. UNCHANGED <<treeVars, new>> /\ pc[t] \notin Unlinked /\ pc'[t] \notin Unlinked
  BY DEF Start, Lookup, Advance, Again, Goto, Unlinked, Shape, TypeOK
<1>1. pc[t] # "front" /\ pc'[t] \notin LinkLabels
  BY DEF Start, Lookup, Advance, Again, Goto, LinkLabels, InsertLabels, Shape, TypeOK
<1>2. RingInv' /\ \A n : Kids(n)' = Kids(n) /\ Linked(n)' = Linked(n)
  BY <1>0, <1>1, RingFrame
<1>3. UNCHANGED <<childs, siblings, name>>
  BY <1>0 DEF treeVars
<1>4. \A n : Linked(n) = Kids(n)
  BY <1>0, OneWorker
<1>5. WorkerInv(t) /\ entry[t] \in 0 .. nalloc
  BY RingFacts
<1>6. Cycle(Linked(entry[t]), siblings)
  BY <1>5, RingFacts
\* Where the search is after the step, and with which set V
<1>d. PICK d, x : d = entry'[t] /\ x = new'[t]
  OBVIOUS
<1>7. /\ pc'[t] \in {"compare", "again"} => \E V \in SUBSET Linked(d) : Passed(t, V)'
      /\ pc'[t] \in {"walk", "insert"} /\ path'[t] # <<>> =>
            \A e \in Kids(d) : name[e] # Head(path'[t])
      /\ pc'[t] \in {"lookup", "compare", "again", "walk"}
  <2>1. CASE Start(t)
    BY <2>1 DEF Start, Goto, Shape, TypeOK
  <2>2. CASE Lookup(t)
    <3>1. UNCHANGED <<path, entry>>
      BY <2>2 DEF Lookup
    <3>2. CASE pc'[t] = "walk"
      <4>1. path[t] = <<>> \/ childs[entry[t]] = NULL
        BY <2>2, <3>2 DEF Lookup, Goto, Shape, TypeOK
      <4>2. childs[entry[t]] = NULL => Kids(entry[t]) = {}
        BY <1>1, <1>4, <1>5, RingFacts
      <4> QED BY <1>d, <3>1, <3>2, <4>1, <4>2
    <3>3. CASE pc'[t] = "compare"
      <4>1. iter'[t] = childs[entry[t]]
        BY <2>2, <3>3 DEF Lookup, Goto, Shape, TypeOK
      <4>2. Passed(t, {})'
        BY <1>3, <3>1, <3>3, <4>1 DEF Passed
      <4>3. {} \in SUBSET Linked(d)
        OBVIOUS
      <4> QED BY <3>3, <4>2, <4>3
    <3>4. pc'[t] \in {"walk", "compare"}
      BY <2>2 DEF Lookup, Goto, Shape, TypeOK
    <3> QED BY <3>2, <3>3, <3>4
  <2>3. CASE Advance(t)
    <3>1. /\ UNCHANGED <<path, entry>> /\ iter'[t] = siblings[iter[t]] /\ pc'[t] = "again"
          /\ pc[t] = "compare" /\ name[iter[t]] # Head(path[t])
      BY <2>3 DEF Advance, Goto, Shape, TypeOK, Matches
    <3>2. PICK V \in SUBSET Linked(entry[t]) : Passed(t, V)
      BY <1>5, <3>1 DEF WorkerInv
    <3>3. iter[t] \in Linked(entry[t])
      <4>1. ChildOf(iter[t], entry[t])
        BY <3>1 DEF Shape, ThreadShape
      <4> QED BY <1>4, <4>1, RingFacts
    <3>4. PICK W : W = V \cup {iter[t]}
      OBVIOUS
    <3>5. Passed(t, W)'
      <4>1. childs[entry[t]] \in W
        BY <3>2, <3>4 DEF Passed
      <4>2. \A e \in W : siblings[e] \in W \cup {iter'[t]}
        BY <3>1, <3>2, <3>4 DEF Passed
      <4>3. \A e \in W : name[e] # Head(path[t])
        BY <3>1, <3>2, <3>4 DEF Passed
      <4> QED BY <1>3, <3>1, <4>1, <4>2, <4>3 DEF Passed
    <3>6. W \in SUBSET Linked(d)
      BY <1>d, <3>1, <3>3, <3>4
    <3> QED BY <3>1, <3>5, <3>6
  <2>4. CASE Again(t)
    <3>1. UNCHANGED <<path, entry, iter>> /\ pc[t] = "again"
      BY <2>4 DEF Again
    <3>2. PICK V \in SUBSET Linked(entry[t]) : Passed(t, V)
      BY <1>5, <3>1 DEF WorkerInv
    <3>3. childs[entry[t]] \in V /\ \A e \in V : siblings[e] \in V \cup {iter[t]}
      BY <3>1, <3>2 DEF Passed
    <3>4. CASE pc'[t] = "compare"
      <4>1. Passed(t, V)'
        BY <1>3, <3>1, <3>2, <3>3 DEF Passed
      <4>2. V \in SUBSET Linked(d)
        BY <1>d, <3>1
      <4> QED BY <3>4, <4>1, <4>2
    <3>5. CASE pc'[t] = "walk"
      <4>1. iter[t] = childs[entry[t]]
        BY <2>4, <3>5 DEF Again, Goto, Shape, TypeOK
      <4>2. V = Linked(entry[t])
        BY <1>6, <3>3, <4>1, CycleSearch
      <4>3. \A e \in Kids(entry[t]) : name[e] # Head(path[t])
        BY <1>4, <3>2, <4>2 DEF Passed
      <4> QED BY <1>d, <3>1, <3>5, <4>3
    <3>6. pc'[t] \in {"walk", "compare"}
      BY <2>4 DEF Again, Goto, Shape, TypeOK
    <3> QED BY <3>4, <3>5, <3>6
  <2> QED BY <2>1, <2>2, <2>3, <2>4
<1>8. WorkerInv(t)'
  BY <1>1, <1>2, <1>3, <1>d, <1>7, WorkerNext
<1> QED BY <1>2, <1>8, OneWorker

\* The first child is another one of the ring.
LEMMA HitStep ==
    ASSUME Alone, Shape, RingShape, NEW t \in Threads, Hit(t)
    PROVE  RingShape'
<1>1. /\ UNCHANGED <<siblings, name, owner, nalloc, new>> /\ pc[t] = "compare"
      /\ pc'[t] = "lookup" /\ childs' = [childs EXCEPT ![entry[t]] = iter[t]]
  BY DEF Hit, Goto, Shape, TypeOK
<1>2. \A n : Kids(n)' = Kids(n) /\ Linked(n) = Kids(n) /\ Linked(n)' = Kids(n)
  BY <1>1, OneWorker DEF Kids, Unlinked
<1>3. iter[t] \in Kids(entry[t])
  <2>1. ChildOf(iter[t], entry[t])
    BY <1>1 DEF Shape, ThreadShape
  <2> QED BY <2>1, RingFacts
<1>4. entry[t] \in 0 .. nalloc /\ \A n \in 0 .. nalloc : n \in Nodes
  BY DCacheConstants, RingFacts DEF Shape, TypeOK, Nodes, Entries, NULL
<1>5. \A n \in Nodes : childs'[n] = IF n = entry[t] THEN iter[t] ELSE childs[n]
  BY <1>1 DEF Shape, TypeOK
<1>6. ASSUME NEW n \in 0 .. nalloc
      PROVE  /\ Cycle(Linked(n)', siblings')
             /\ Linked(n)' = {} => childs'[n] = NULL
             /\ Linked(n)' = {} \/ childs'[n] \in Linked(n)'
             /\ \A e, f \in Kids(n)' : name'[e] = name'[f] => e = f
  <2>1. /\ Cycle(Linked(n), siblings)
        /\ Linked(n) = {} \/ childs[n] \in Linked(n)
        /\ Linked(n) = {} => childs[n] = NULL
        /\ \A e, f \in Kids(n) : name[e] = name[f] => e = f
    BY <1>1, RingFacts
  <2>2. Kids(n)' = Kids(n) /\ Linked(n) = Kids(n) /\ Linked(n)' = Kids(n)
    BY <1>2
  <2>3. Kids(n) = {} \/ childs'[n] \in Kids(n)
    BY <1>3, <1>4, <1>5, <2>1, <2>2
  <2>4. Kids(n) = {} => childs'[n] = NULL
    BY <1>3, <1>4, <1>5, <2>1, <2>2
  <2> QED BY <1>1, <2>1, <2>2, <2>3, <2>4
<1>7. RingInv'
  BY <1>1, <1>6 DEF RingInv
<1>8. WorkerInv(t)'
  BY <1>1 DEF WorkerInv, LinkLabels, InsertLabels
<1> QED BY <1>7, <1>8, OneWorker

\* The walk on the disk, and a name that is not cached.
LEMMA DiskStep ==
    ASSUME Alone, LongNamesLast, Shape, Sound, RingShape, NEW t \in Threads,
           Walk(t) \/ Return(t) \/ Refuse(t)
    PROVE  RingShape'
<1>0. /\ UNCHANGED <<treeVars, new>> /\ pc[t] \in {"walk", "missing", "insert"}
      /\ pc'[t] \in {"insert", "missing", "idle", "walk"}
  BY DEF Walk, Return, Refuse, Goto, threadVars, Shape, TypeOK
<1>1. /\ pc[t] \notin Unlinked /\ pc'[t] \notin Unlinked /\ pc[t] # "front"
      /\ pc'[t] \notin LinkLabels
  BY <1>0 DEF Unlinked, LinkLabels, InsertLabels
<1>2. RingInv' /\ \A n : Kids(n)' = Kids(n) /\ Linked(n)' = Linked(n)
  BY <1>0, <1>1, RingFrame
<1>3. UNCHANGED name
  BY <1>0 DEF treeVars
<1>4. PICK d, x : d = entry'[t] /\ x = new'[t]
  OBVIOUS
<1>5. pc'[t] \in {"walk", "insert"} /\ path'[t] # <<>> =>
        \A e \in Kids(d) : name[e] # Head(path'[t])
  <2>1. CASE Walk(t) \/ Return(t)
    <3>1. /\ UNCHANGED <<path, entry>>
          /\ pc'[t] = "insert" => pc[t] = "walk"
      BY <1>0, <2>1 DEF Walk, Return, Goto, threadVars, Shape, TypeOK
    <3>2. pc'[t] # "walk"
      BY <2>1 DEF Walk, Return, Goto, Shape, TypeOK
    <3>3. WorkerInv(t)
      BY RingFacts
    <3> QED BY <1>4, <3>1, <3>2, <3>3 DEF WorkerInv
  \* What does not fit is the last name of its path
  <2>2. CASE Refuse(t)
    <3>1. /\ pc[t] = "insert" /\ Head(path[t]) \in LongNames
          /\ path' = [path EXCEPT ![t] = Tail(path[t])]
      BY <2>2 DEF Refuse, Fits
    <3>2. path[t] \in Seq(Names) /\ path[t] # <<>> /\ LongLast(path[t])
      BY <3>1 DEF Shape, TypeOK, ThreadShape, Sound, ThreadAgree, InsertLabels
    <3>3. Tail(path[t]) = <<>>
      BY <3>1, <3>2, HeadTail
    <3>4. path'[t] = <<>>
      BY <3>1, <3>3 DEF Shape, TypeOK
    <3> QED BY <3>4
  <2> QED BY <2>1, <2>2
<1>6. WorkerInv(t)'
  BY <1>0, <1>1, <1>2, <1>3, <1>4, <1>5, WorkerNext
<1> QED BY <1>2, <1>6, OneWorker

\* A new entry: not linked yet, and without children.
LEMMA CreateStep ==
    ASSUME Alone, Shape, RingShape, NEW t \in Threads, Create(t)
    PROVE  RingShape'
<1>0. nalloc \in Nat /\ nalloc < MaxEntries /\ entry[t] \in 0 .. nalloc
  BY DCacheConstants DEF Create, Shape, TypeOK, ThreadShape, Nodes, Entries, NULL
<1>1. PICK x \in Entries : x = nalloc + 1
  BY <1>0, DCacheConstants DEF Entries
<1>2. PICK d : d = entry[t]
  OBVIOUS
<1>3. /\ x \notin 0 .. nalloc /\ nalloc' = x /\ 1 .. x = (1 .. nalloc) \cup {x}
      /\ 0 .. x = (0 .. nalloc) \cup {x} /\ x # d /\ d \in 0 .. nalloc
  BY <1>0, <1>1, <1>2 DEF Create
<1>4. /\ new'[t] = x /\ UNCHANGED <<childs, siblings, path, entry, iter>>
      /\ pc[t] = "insert"
      /\ pc'[t] \in {"only", "load"}
      /\ pc'[t] = "only" => childs[d] = NULL
      /\ owner' = [owner EXCEPT ![x] = d] /\ name' = [name EXCEPT ![x] = Head(path[t])]
  BY <1>1, <1>2 DEF Create, Goto, Shape, TypeOK
<1>5. \A e \in 1 .. nalloc : owner'[e] = owner[e] /\ name'[e] = name[e] /\ e \in Entries
  BY <1>0, <1>3, <1>4, DCacheConstants DEF Shape, TypeOK, Entries
<1>6. owner'[x] = d /\ name'[x] = Head(path[t])
  BY <1>4 DEF Shape, TypeOK
<1>7. \A n : Kids(n)' = IF n = d THEN Kids(n) \cup {x} ELSE Kids(n)
  <2> SUFFICES ASSUME NEW n PROVE Kids(n)' = IF n = d THEN Kids(n) \cup {x} ELSE Kids(n)
    OBVIOUS
  <2>1. Kids(n)' = {e \in 1 .. x : owner'[e] = n}
    BY <1>3 DEF Kids
  <2> QED BY <1>3, <1>5, <1>6, <2>1 DEF Kids
<1>8. \A n : Linked(n) = Kids(n) /\ Linked(n)' = Kids(n)' \ {x}
  <2>1. pc[t] \notin Unlinked /\ pc'[t] \in Unlinked
    BY <1>4 DEF Unlinked
  <2> QED BY <1>4, <2>1, OneWorker
<1>9. \A n : Linked(n)' = Kids(n) /\ x \notin Kids(n)
  <2>1. \A n : x \notin Kids(n)
    BY <1>3 DEF Kids
  <2> QED BY <1>7, <1>8, <2>1
<1>10. Kids(x) = {} /\ childs[x] = NULL
  <2>1. \A e \in 1 .. nalloc : owner[e] \in 0 .. nalloc
    BY DEF Shape, Pointers, Used
  <2>2. Kids(x) = {}
    BY <1>3, <2>1 DEF Kids
  <2>3. childs[x] # NULL => childs[x] \in 1 .. nalloc /\ owner[childs[x]] = x
    BY DEF Shape, Pointers, ChildOf, Used, Nodes
  <2> QED BY <1>3, <2>1, <2>2, <2>3
<1>11. WorkerInv(t) /\ path[t] # <<>>
  BY <1>4, RingFacts DEF Shape, ThreadShape, InsertLabels
<1>12. \A e \in Kids(d) : name[e] # Head(path[t])
  BY <1>2, <1>4, <1>11 DEF WorkerInv
<1>13. ASSUME NEW n \in 0 .. x
       PROVE  /\ Cycle(Linked(n)', siblings')
              /\ Linked(n)' = {} => childs'[n] = NULL
              /\ Linked(n)' = {} \/ childs'[n] \in Linked(n)'
              /\ \A e, f \in Kids(n)' : name'[e] = name'[f] => e = f
  <2>1. CASE n = x
    <3>1. Kids(n)' = {} /\ Linked(n)' = {} /\ Cycle({}, siblings')
      BY <1>3, <1>7, <1>9, <1>10, <2>1 DEF Cycle
    <3> QED BY <1>4, <1>10, <2>1, <3>1
  <2>2. CASE n \in 0 .. nalloc
    <3>1. /\ Cycle(Linked(n), siblings)
          /\ Linked(n) = {} \/ childs[n] \in Linked(n)
          /\ Linked(n) = {} => childs[n] = NULL
          /\ \A e, f \in Kids(n) : name[e] = name[f] => e = f
      BY <1>4, <2>2, RingFacts
    <3>2. \A e, f \in Kids(n)' : name'[e] = name'[f] => e = f
      <4>1. \A e \in Kids(n) : name'[e] = name[e]
        BY <1>5 DEF Kids
      <4> QED BY <1>6, <1>7, <1>12, <3>1, <4>1
    <3> QED BY <1>4, <1>8, <1>9, <3>1, <3>2
  <2> QED BY <1>3, <2>1, <2>2
<1>14. RingInv'
  BY <1>3, <1>13 DEF RingInv
<1>15. WorkerInv(t)'
  BY <1>2, <1>3, <1>4, <1>7, <1>10, WorkerNext
<1> QED BY <1>14, <1>15, OneWorker

\* The reads of dcache_insert.
LEMMA LoadStep ==
    ASSUME Alone, Shape, RingShape, NEW t \in Threads, Load(t) \/ Reload(t)
    PROVE  RingShape'
<1>0. /\ UNCHANGED <<treeVars, new, entry, path>> /\ pc[t] \in {"load", "reload"}
      /\ pc'[t] = IF pc[t] = "load" THEN "copy" ELSE "link"
      /\ iter'[t] = childs[entry[t]]
  BY DEF Load, Reload, Goto, Shape, TypeOK
<1>1. pc[t] \in Unlinked /\ pc'[t] \in Unlinked /\ pc[t] # "front" /\ pc[t] \in LinkLabels
  BY <1>0 DEF Unlinked, LinkLabels, InsertLabels
<1>2. RingInv' /\ \A n : Kids(n)' = Kids(n)
  BY <1>0, <1>1, RingFrame
<1>3. UNCHANGED <<childs, siblings, name>>
  BY <1>0 DEF treeVars
<1>4. PICK d, x : d = entry[t] /\ x = new[t]
  OBVIOUS
<1>5. Kids(x) = {} /\ (pc[t] = "reload" => siblings[x] = siblings[childs[d]])
  BY <1>1, <1>4, RingFacts DEF WorkerInv
<1>6. WorkerInv(t)'
  BY <1>0, <1>2, <1>3, <1>4, <1>5, WorkerNext
<1> QED BY <1>2, <1>6, OneWorker

\* The writes of dcache_insert: the new entry comes after the first child, or
\* is the only one, and then it becomes the first.
LEMMA LinkStep ==
    ASSUME Alone, Shape, RingShape, NEW t \in Threads,
           Only(t) \/ Copy(t) \/ Link(t) \/ Front(t)
    PROVE  RingShape'
<1>0. PICK d, x : d = entry[t] /\ x = new[t]
  OBVIOUS
<1>1. /\ d \in 0 .. nalloc /\ x \in Kids(d) /\ d \in Nodes /\ x \in Entries
      /\ pc[t] \in LinkLabels /\ Kids(x) = {}
  <2>1. pc[t] \in LinkLabels
    BY DEF Only, Copy, Link, Front, LinkLabels, InsertLabels
  <2>2. /\ d \in 0 .. nalloc /\ x \in 1 .. nalloc /\ owner[x] = d
    BY <1>0, <2>1 DEF Shape, ThreadShape, Used
  <2>3. d \in Nodes /\ x \in Entries
    BY <2>2, DCacheConstants DEF Shape, TypeOK, Nodes, Entries, NULL
  <2>4. Kids(x) = {}
    BY <1>0, <2>1, RingFacts DEF WorkerInv
  <2> QED BY <2>1, <2>2, <2>3, <2>4 DEF Kids
<1>2. UNCHANGED <<name, owner, nalloc, new>> /\ \A n : Kids(n)' = Kids(n)
  BY DEF Only, Copy, Link, Front, Kids, threadVars
<1>3. \A n : Linked(n) = IF pc[t] \in Unlinked THEN Kids(n) \ {x} ELSE Kids(n)
  BY <1>0, OneWorker
<1>4. \A n : Linked(n)' = IF pc'[t] \in Unlinked THEN Kids(n) \ {x} ELSE Kids(n)
  BY <1>0, <1>2, OneWorker
<1>5. WorkerInv(t)
  BY RingFacts
<1>6. \A n : n # d => x \notin Kids(n)
  BY <1>1 DEF Kids
\* The other directories' rings
<1>7. ASSUME NEW n \in 0 .. nalloc, n # d,
             childs'[n] = childs[n], \A e \in Kids(n) : siblings'[e] = siblings[e]
      PROVE  /\ Cycle(Linked(n)', siblings')
             /\ Linked(n)' = {} => childs'[n] = NULL
             /\ Linked(n)' = {} \/ childs'[n] \in Linked(n)'
  <2>1. Linked(n) = Kids(n) /\ Linked(n)' = Kids(n)
    BY <1>3, <1>4, <1>6, <1>7
  <2>2. /\ Cycle(Kids(n), siblings)
        /\ Linked(n) = {} => childs[n] = NULL
        /\ Linked(n) = {} \/ childs[n] \in Linked(n)
    BY <1>0, <1>7, <2>1, RingFacts
  <2>3. Cycle(Kids(n), siblings')
    BY <1>7, <2>2, CycleFrame
  <2> QED BY <1>7, <2>1, <2>2, <2>3
<1>8. ASSUME \A n \in 0 .. nalloc : n # d =>
                /\ childs'[n] = childs[n] /\ \A e \in Kids(n) : siblings'[e] = siblings[e],
             Cycle(Linked(d)', siblings'), Linked(d)' = {} => childs'[d] = NULL,
             \/ Linked(d)' = {} \/ childs'[d] \in Linked(d)'
             \/ pc'[t] = "front" /\ entry'[t] = d
      PROVE  RingInv'
  <2>1. \A n \in 0 .. nalloc : \A e, f \in Kids(n)' : name'[e] = name'[f] => e = f
    BY <1>2, RingFacts
  <2>2. \A n \in 0 .. nalloc :
           /\ Cycle(Linked(n)', siblings')
           /\ Linked(n)' = {} => childs'[n] = NULL
           /\ \/ Linked(n)' = {} \/ childs'[n] \in Linked(n)'
              \/ pc'[t] = "front" /\ entry'[t] = n
    BY <1>7, <1>8
  <2> QED BY <1>2, <2>1, <2>2 DEF RingInv
<1>9. CASE Only(t)
  <2>1. /\ pc[t] = "only" /\ pc'[t] = "front" /\ UNCHANGED <<childs, entry, path>>
        /\ siblings' = [siblings EXCEPT ![x] = x]
    BY <1>0, <1>9 DEF Only, Goto, threadVars, Shape, TypeOK
  <2>2. siblings'[x] = x /\ \A e \in Entries : e # x => siblings'[e] = siblings[e]
    BY <1>1, <2>1 DEF Shape, TypeOK
  <2>3. pc[t] \in Unlinked /\ pc'[t] \notin Unlinked
    BY <2>1 DEF Unlinked
  <2>4. Linked(d) = {}
    <3>1. childs[d] = NULL
      BY <1>0, <1>5, <2>1 DEF WorkerInv
    <3> QED BY <1>1, <2>1, <3>1, RingFacts
  <2>5. Linked(d)' = {x}
    BY <1>1, <1>3, <1>4, <2>3, <2>4
  <2>6. Cycle(Linked(d)', siblings')
    BY <2>2, <2>5, CycleSingle
  <2>7. \A n \in 0 .. nalloc : n # d => \A e \in Kids(n) : siblings'[e] = siblings[e]
    <3>1. \A n, e : e \in Kids(n) => e \in Entries
      BY DCacheConstants DEF Kids, Shape, TypeOK, Nodes, Entries, NULL
    <3> QED BY <1>6, <2>2, <3>1
  <2>8. RingInv'
    BY <1>0, <1>8, <2>1, <2>5, <2>6, <2>7
  <2>9. WorkerInv(t)'
    BY <1>0, <1>1, <1>2, <2>1, WorkerNext
  <2> QED BY <2>8, <2>9, OneWorker
<1>10. CASE Copy(t)
  <2>1. /\ pc[t] = "copy" /\ pc'[t] = "reload" /\ UNCHANGED <<childs, entry, path>>
        /\ siblings' = [siblings EXCEPT ![x] = siblings[iter[t]]]
        /\ iter[t] = childs[d]
    BY <1>0, <1>5, <1>10 DEF Copy, Goto, threadVars, Shape, TypeOK, WorkerInv
  <2>2. /\ siblings'[x] = siblings[childs[d]]
        /\ \A e \in Entries : e # x => siblings'[e] = siblings[e]
    BY <1>1, <2>1 DEF Shape, TypeOK
  <2>3. pc[t] \in Unlinked /\ pc'[t] \in Unlinked
    BY <2>1 DEF Unlinked
  <2>4. /\ Cycle(Linked(d), siblings)
        /\ Linked(d) = {} => childs[d] = NULL
        /\ Linked(d) = {} \/ childs[d] \in Linked(d)
    BY <1>1, <2>1, RingFacts
  <2>5. Linked(d)' = Linked(d) /\ x \notin Linked(d)
    BY <1>3, <1>4, <2>3
  <2>6. \A n, e : e \in Kids(n) => e \in Entries
    BY DCacheConstants DEF Kids, Shape, TypeOK, Nodes, Entries, NULL
  <2>7. \A e \in Linked(d) : siblings'[e] = siblings[e]
    BY <2>2, <2>5, <2>6 DEF Linked
  <2>8. Cycle(Linked(d)', siblings')
    BY <2>4, <2>5, <2>7, CycleFrame
  <2>9. \A n \in 0 .. nalloc : n # d => \A e \in Kids(n) : siblings'[e] = siblings[e]
    BY <1>6, <2>2, <2>6
  <2>10. RingInv'
    BY <1>8, <2>1, <2>4, <2>5, <2>8, <2>9
  <2>11. siblings'[x] = siblings'[childs'[d]]
    <3>1. childs[d] # NULL
      BY <1>0, <2>1 DEF Shape, ThreadShape
    <3>2. childs[d] \in Linked(d)
      BY <2>4, <3>1
    <3> QED BY <2>1, <2>2, <2>7, <3>2
  <2>12. WorkerInv(t)'
    BY <1>0, <1>1, <1>2, <2>1, <2>11, WorkerNext
  <2> QED BY <2>10, <2>12, OneWorker
<1>11. CASE Link(t)
  <2>1. /\ pc[t] = "link" /\ pc'[t] = "front" /\ UNCHANGED <<childs, entry, path>>
        /\ siblings' = [siblings EXCEPT ![iter[t]] = x]
        /\ iter[t] = childs[d] /\ siblings[x] = siblings[childs[d]]
    BY <1>0, <1>5, <1>11 DEF Link, Goto, threadVars, Shape, TypeOK, WorkerInv
  <2>2. pc[t] \in Unlinked /\ pc'[t] \notin Unlinked
    BY <2>1 DEF Unlinked
  <2>3. /\ Cycle(Linked(d), siblings)
        /\ Linked(d) = {} \/ childs[d] \in Linked(d)
        /\ Linked(d) = {} => childs[d] = NULL
    BY <1>1, <2>1, RingFacts
  <2>4. childs[d] # NULL
    BY <1>0, <2>1 DEF Shape, ThreadShape
  <2>5. Linked(d)' = Linked(d) \cup {x} /\ x \notin Linked(d)
    BY <1>1, <1>3, <1>4, <2>2
  <2>6. PICK h \in Linked(d) : h = childs[d]
    BY <2>3, <2>4
  <2>7. \A n, e : e \in Kids(n) => e \in Entries
    BY DCacheConstants DEF Kids, Shape, TypeOK, Nodes, Entries, NULL
  <2>8. h \in Kids(d) /\ \A n : n # d => h \notin Kids(n)
    BY <2>6 DEF Linked, Kids
  <2>9. siblings'[h] = x /\ \A e \in Entries : e # h => siblings'[e] = siblings[e]
    BY <2>1, <2>6, <2>7, <2>8 DEF Shape, TypeOK
  <2>10. siblings'[x] = siblings[h] /\ \A e \in Linked(d) \ {h} : siblings'[e] = siblings[e]
    <3>1. Linked(d) \subseteq Kids(d) /\ x # h
      BY <1>1, <1>3, <2>5, <2>6
    <3> QED BY <1>1, <2>1, <2>6, <2>7, <2>9, <3>1
  <2>11. Cycle(Linked(d)', siblings')
    BY <2>3, <2>5, <2>9, <2>10, CycleInsert
  <2>12. \A n \in 0 .. nalloc : n # d => \A e \in Kids(n) : siblings'[e] = siblings[e]
    BY <2>7, <2>8, <2>9
  <2>13. RingInv'
    BY <1>0, <1>8, <2>1, <2>5, <2>11, <2>12
  <2>14. WorkerInv(t)'
    BY <1>0, <1>1, <1>2, <2>1, WorkerNext
  <2> QED BY <2>13, <2>14, OneWorker
<1>12. CASE Front(t)
  <2>1. /\ pc[t] = "front" /\ pc'[t] = "walk" /\ UNCHANGED siblings
        /\ childs' = [childs EXCEPT ![d] = x] /\ entry'[t] = x
    BY <1>0, <1>12 DEF Front, Goto, Shape, TypeOK
  <2>2. childs'[d] = x /\ \A n \in Nodes : n # d => childs'[n] = childs[n]
    BY <1>1, <2>1 DEF Shape, TypeOK
  <2>3. pc[t] \notin Unlinked /\ pc'[t] \notin Unlinked
    BY <2>1 DEF Unlinked
  <2>4. Linked(d)' = Linked(d) /\ Linked(d) = Kids(d) /\ Cycle(Linked(d), siblings)
    BY <1>1, <1>3, <1>4, <2>3, RingFacts
  <2>5. \A n \in 0 .. nalloc : n \in Nodes
    BY DCacheConstants DEF Shape, TypeOK, Nodes, Entries, NULL
  <2>6. RingInv'
    BY <1>1, <1>8, <2>1, <2>2, <2>4, <2>5
  <2>7. WorkerInv(t)'
    BY <1>0, <1>1, <1>2, <2>1, WorkerNext DEF LinkLabels, InsertLabels
  <2> QED BY <2>6, <2>7, OneWorker
<1> QED BY <1>9, <1>10, <1>11, <1>12

\* Every step of the one worker.
LEMMA RingStep ==
    ASSUME Alone, LongNamesLast
    PROVE  Shape /\ Sound /\ RingShape /\ [Next]_vars => RingShape'
<1> SUFFICES ASSUME Shape, Sound, RingShape, [Next]_vars PROVE RingShape'
  OBVIOUS
<1>1. ASSUME NEW t \in Threads, Start(t) \/ LookupStep(t) PROVE RingShape'
  BY <1>1, SearchStep, HitStep, DiskStep, CreateStep, LoadStep, LinkStep DEF LookupStep
<1>2. CASE UNCHANGED vars
  <2>1. \A n : Kids(n)' = Kids(n)
    BY <1>2 DEF vars, Kids
  <2>2. \A n : Linked(n)' = Linked(n)
    BY <1>2, <2>1 DEF vars, Linked
  <2>3. RingInv'
    BY <1>2, <2>1, <2>2 DEF vars, RingShape, RingInv
  <2>4. ASSUME NEW t \in Threads PROVE WorkerInv(t)'
    <3>1. PICK d, x : d = entry[t] /\ x = new[t]
      OBVIOUS
    <3>2. WorkerInv(t)
      BY DEF RingShape
    <3>3. \A V : Passed(t, V)' <=> Passed(t, V)
      BY <1>2 DEF vars, Passed
    <3> QED BY <1>2, <2>1, <2>2, <3>1, <3>2, <3>3, WorkerNext DEF vars, WorkerInv
  <2> QED BY <2>3, <2>4 DEF RingShape
<1> QED BY <1>1, <1>2 DEF Next, Terminated

-----------------------------------------------------------------------------
(* What is found between two lookups. *)

\* Cycle is what RingSound says by going round.
LEMMA RingRound == ASSUME Shape, RingInv PROVE RingSound
<1> SUFFICES ASSUME Idle, NEW n \in 0 .. nalloc
             PROVE  LET k == Cardinality(Kids(n))
                        ring[i \in 0 .. k] ==
                            IF i = 0 THEN childs[n] ELSE siblings[ring[i - 1]]
                    IN  IF k = 0 THEN childs[n] = NULL
                        ELSE /\ ring[k] = ring[0] /\ {ring[i] : i \in 1 .. k} = Kids(n)
                             /\ \A e, f \in Kids(n) : name[e] = name[f] => e = f
  BY DEF RingSound
<1> DEFINE k == Cardinality(Kids(n))
           ring[i \in 0 .. k] == IF i = 0 THEN childs[n] ELSE siblings[ring[i - 1]]
<1>1. Linked(n) = Kids(n)
  BY DEF Linked, Idle, Unlinked
<1>2. IsFiniteSet(Kids(n)) /\ k \in Nat
  <2>1. nalloc \in Nat
    BY DCacheConstants DEF Shape, TypeOK, Nodes, Entries, NULL
  <2>2. IsFiniteSet(1 .. nalloc)
    BY <2>1, FS_Interval
  <2>3. Kids(n) \subseteq 1 .. nalloc
    BY DEF Kids
  <2> QED BY <2>2, <2>3, FS_Subset, FS_CardinalityType
<1>3. /\ Cycle(Kids(n), siblings)
      /\ Kids(n) = {} => childs[n] = NULL
      /\ Kids(n) = {} \/ childs[n] \in Kids(n)
      /\ \A e, f \in Kids(n) : name[e] = name[f] => e = f
  BY <1>1 DEF RingInv, Idle
<1>4. CASE k = 0
  <2>1. Kids(n) = {}
    BY <1>2, <1>4, FS_EmptySet
  <2> QED BY <1>3, <1>4, <2>1
<1>5. CASE k # 0
  <2>1. PICK h \in Kids(n) : h = childs[n]
    BY <1>3, <1>5, FS_EmptySet
  <2>2. Follows(ring, siblings, childs[n], k)
    <3> HIDE DEF k
    <3>1. \E r : Follows(r, siblings, childs[n], k)
      BY <1>2, Follow
    <3> QED BY <3>1 DEF Follows
  <2> HIDE DEF ring
  <2>3. ring[k] = ring[0] /\ {ring[i] : i \in 1 .. k} = Kids(n)
    <3>1. PICK K, c, r : K = Kids(n) /\ c = k /\ r = ring
      OBVIOUS
    <3>2. r[c] = r[0] /\ {r[i] : i \in 1 .. c} = K
      BY <1>2, <1>3, <2>1, <2>2, <3>1, RoundTrip
    <3> QED BY <3>1, <3>2
  <2> QED BY <1>3, <1>5, <2>3 DEF ring
<1> QED BY <1>4, <1>5

\* With one worker, and with no name looked up below a directory whose own name
\* does not fit, what dcache_insert and dcache_lookup leave behind is, for every
\* entry, one ring through all its children that comes back to childs, without
\* a name twice: the search of the next lookup ends, and finds what is there.
THEOREM RingKept == ASSUME Alone, LongNamesLast PROVE Spec => []RingSound
<1>1. Init => Sound
  BY DEF Init, Sound, Agree, ThreadAgree, Used, LongLast, InsertLabels, LinkLabels
<1>2. Shape /\ Sound /\ [Next]_vars => Sound'
  BY SoundStep
<1>3. Shape /\ Sound /\ RingShape /\ [Next]_vars => RingShape'
  BY RingStep
<1>4. Shape /\ RingShape => RingSound
  BY RingRound DEF RingShape
<1> QED BY <1>1, <1>2, <1>3, <1>4, InitRing, ShapeInvariance, PTL DEF Spec
=============================================================================
