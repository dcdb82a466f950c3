------------------------------- MODULE DCache -------------------------------
(***************************************************************************)
(* Path lookup with the directory cache: dcache.c and the path half of     *)
(* inode.c (get_cached_inode_num, inode_get_idx_by_path).  The FUSE        *)
(* workers share the tree of dcache entries without a lock; a step is one  *)
(* access to memory that another worker may write.                         *)
(*                                                                         *)
(* Entries are numbered in the order in which calloc hands them out; they  *)
(* are never freed.  0 is the NULL pointer, and also the root entry,       *)
(* because that is what dcache_lookup, dcache_insert and dcache_get_inode  *)
(* take a NULL entry for.  The directories on the disk are a constant: no  *)
(* operation of ext4fuse changes them.                                     *)
(***************************************************************************)
EXTENDS Naturals, Sequences, FiniteSets

CONSTANTS Threads,      \* FUSE workers
          Names,        \* path components
          LongNames,    \* those with namelen + 1 > DCACHE_ENTRY_NAME_LEN
          Paths,        \* the paths that FUSE asks for
          Inodes,
          Dir,          \* Dir[i][n]: the inode of name n in i, 0 if none
          RootInode,    \* ROOT_INODE_N
          MaxLookups,   \* bound: number of lookups started
          MaxEntries    \* bound: number of entries, enough for MaxLookups

NoName == ""    \* the name calloc leaves in an entry

ASSUME DCacheConstants ==
    /\ NoName \notin Names
    /\ LongNames \subseteq Names
    /\ Paths \subseteq Seq(Names)
    /\ Inodes \subseteq Nat \ {0}
    /\ RootInode \in Inodes
    /\ Dir \in [Inodes -> [Names -> Inodes \cup {0}]]
    /\ MaxLookups \in Nat
    /\ MaxEntries \in Nat

NULL    == 0
Entries == 1 .. MaxEntries
Nodes   == Entries \cup {NULL}

VARIABLES
    childs,     \* dcache_entry.childs (of the root entry: childs[0])
    siblings,   \* dcache_entry.siblings
    name,       \* dcache_entry.name
    inode,      \* dcache_entry.inode
    owner,      \* history: the parent each entry was inserted under
    nalloc,     \* number of entries allocated so far
    pc,         \* where each worker is
    path,       \* what is left of its path
    entry,      \* the entry of the directory it is in (ret, dc_entry, parent)
    iter,       \* iter in dcache_lookup, parent->childs in dcache_insert
    new,        \* new_entry
    ino,        \* inode_idx
    lookups     \* number of lookups started

treeVars   == <<childs, siblings, name, inode, owner, nalloc>>
threadVars == <<path, entry, iter, new, ino, lookups>>
vars == <<childs, siblings, name, inode, owner, nalloc, pc, path, entry, iter,
          new, ino, lookups>>

Goto(t, l) == pc' = [pc EXCEPT ![t] = l]

\* dcache_get_inode.
GetInode(e) == IF e = NULL THEN RootInode ELSE inode[e]

\* The strncmp of dcache_lookup: a name that does not fit is in no entry.
Matches(e, n) == name[e] = n

\* The test of namelen in dcache_insert.
Fits(n) == n \notin LongNames

-----------------------------------------------------------------------------
(* get_cached_inode_num and dcache_lookup. *)

Start(t) ==
    /\ pc[t] = "idle" /\ lookups < MaxLookups
    /\ lookups' = lookups + 1
    /\ \E p \in Paths : path' = [path EXCEPT ![t] = p]
    /\ entry' = [entry EXCEPT ![t] = NULL]
    /\ Goto(t, "lookup")
    /\ UNCHANGED <<treeVars, iter, new, ino>>

\* The path is used up, the directory has no cached children, or the search
\* begins at parent->childs.  childs never becomes NULL again, so the two
\* reads of it are one step.
Lookup(t) ==
    /\ pc[t] = "lookup"
    /\ \/ /\ path[t] = <<>> \/ childs[entry[t]] = NULL
          /\ ino' = [ino EXCEPT ![t] = GetInode(entry[t])]
          /\ Goto(t, "walk")
          /\ UNCHANGED iter
       \/ /\ path[t] # <<>> /\ childs[entry[t]] # NULL
          /\ iter' = [iter EXCEPT ![t] = childs[entry[t]]]
          /\ Goto(t, "compare")
          /\ UNCHANGED ino
    /\ UNCHANGED <<treeVars, path, entry, new, lookups>>

\* A match becomes the first child and the next directory.
Hit(t) ==
    /\ pc[t] = "compare" /\ Matches(iter[t], Head(path[t]))
    /\ childs' = [childs EXCEPT ![entry[t]] = iter[t]]
    /\ entry' = [entry EXCEPT ![t] = iter[t]]
    /\ path' = [path EXCEPT ![t] = Tail(@)]
    /\ Goto(t, "lookup")
    /\ UNCHANGED <<siblings, name, inode, owner, nalloc, iter, new, ino, lookups>>

\* iter = iter->siblings
Advance(t) ==
    /\ pc[t] = "compare" /\ ~Matches(iter[t], Head(path[t]))
    /\ iter' = [iter EXCEPT ![t] = siblings[iter[t]]]
    /\ Goto(t, "again")
    /\ UNCHANGED <<treeVars, path, entry, new, ino, lookups>>

\* while (iter != parent->childs), and the miss.
Again(t) ==
    /\ pc[t] = "again"
    /\ \/ /\ iter[t] # childs[entry[t]]
          /\ Goto(t, "compare")
          /\ UNCHANGED ino
       \/ /\ iter[t] = childs[entry[t]]
          /\ ino' = [ino EXCEPT ![t] = GetInode(entry[t])]
          /\ Goto(t, "walk")
    /\ UNCHANGED <<treeVars, path, entry, iter, new, lookups>>

-----------------------------------------------------------------------------
(* The loop of inode_get_idx_by_path over the directories on the disk.  The  *)
(* kernel asks for a path only below directories it has already been told    *)
(* of, so inode is one and S_ISDIR holds.                                    *)

\* Seeded fault: a name that was not found is cached with inode 0.
Walk_unchecked(t) ==
    /\ pc[t] = "walk" /\ path[t] # <<>> /\ ino[t] # 0
    /\ ino' = [ino EXCEPT ![t] = Dir[ino[t]][Head(path[t])]]
    /\ Goto(t, "insert")
    /\ UNCHANGED <<treeVars, path, entry, iter, new, lookups>>

Walk(t) ==
    /\ pc[t] = "walk" /\ path[t] # <<>>
    /\ LET i == Dir[ino[t]][Head(path[t])]
       IN  /\ ino' = [ino EXCEPT ![t] = i]
           /\ Goto(t, IF i = 0 THEN "missing" ELSE "insert")
    /\ UNCHANGED <<treeVars, path, entry, iter, new, lookups>>

Return(t) ==
    /\ \/ pc[t] = "walk" /\ path[t] = <<>>
       \/ pc[t] = "missing"
    /\ Goto(t, "idle")
    /\ UNCHANGED <<treeVars, threadVars>>

-----------------------------------------------------------------------------
(* dcache_insert. *)

\* The name does not fit: NULL is returned, and becomes dc_entry.
Refuse(t) ==
    /\ pc[t] = "insert" /\ ~Fits(Head(path[t]))
    /\ entry' = [entry EXCEPT ![t] = NULL]
    /\ path' = [path EXCEPT ![t] = Tail(@)]
    /\ Goto(t, "walk")
    /\ UNCHANGED <<treeVars, iter, new, ino, lookups>>

\* calloc, the name and the inode, and the test of parent->childs.
Create(t) ==
    /\ pc[t] = "insert" /\ Fits(Head(path[t])) /\ nalloc < MaxEntries
    /\ LET e == nalloc + 1
       IN  /\ nalloc' = e
           /\ new' = [new EXCEPT ![t] = e]
           /\ name' = [name EXCEPT ![e] = Head(path[t])]
           /\ inode' = [inode EXCEPT ![e] = ino[t]]
           /\ owner' = [owner EXCEPT ![e] = entry[t]]
    /\ Goto(t, IF childs[entry[t]] = NULL THEN "only" ELSE "load")
    /\ UNCHANGED <<childs, siblings, path, entry, iter, ino, lookups>>

\* Seeded fault: the only child is not linked to itself.
Only_unlinked(t) ==
    /\ pc[t] = "only"
    /\ Goto(t, "front")
    /\ UNCHANGED <<treeVars, threadVars>>

\* new_entry->siblings = new_entry
Only(t) ==
    /\ pc[t] = "only"
    /\ siblings' = [siblings EXCEPT ![new[t]] = new[t]]
    /\ Goto(t, "front")
    /\ UNCHANGED <<childs, name, inode, owner, nalloc, threadVars>>

\* new_entry->siblings = parent->childs->siblings, in two reads ...
Load(t) ==
    /\ pc[t] = "load"
    /\ iter' = [iter EXCEPT ![t] = childs[entry[t]]]
    /\ Goto(t, "copy")
    /\ UNCHANGED <<treeVars, path, entry, new, ino, lookups>>

Copy(t) ==
    /\ pc[t] = "copy"
    /\ siblings' = [siblings EXCEPT ![new[t]] = siblings[iter[t]]]
    /\ Goto(t, "reload")
    /\ UNCHANGED <<childs, name, inode, owner, nalloc, threadVars>>

\* ... parent->childs->siblings = new_entry, a read and a write ...
Reload(t) ==
    /\ pc[t] = "reload"
    /\ iter' = [iter EXCEPT ![t] = childs[entry[t]]]
    /\ Goto(t, "link")
    /\ UNCHANGED <<treeVars, path, entry, new, ino, lookups>>

\* Seeded fault: the old first child is not linked to the new one.
Link_missing(t) ==
    /\ pc[t] = "link"
    /\ Goto(t, "front")
    /\ UNCHANGED <<treeVars, threadVars>>

Link(t) ==
    /\ pc[t] = "link"
    /\ siblings' = [siblings EXCEPT ![iter[t]] = new[t]]
    /\ Goto(t, "front")
    /\ UNCHANGED <<childs, name, inode, owner, nalloc, threadVars>>

\* Seeded fault: dc_entry stays where it was.
Front_stay(t) ==
    /\ pc[t] = "front"
    /\ childs' = [childs EXCEPT ![entry[t]] = new[t]]
    /\ path' = [path EXCEPT ![t] = Tail(@)]
    /\ Goto(t, "walk")
    /\ UNCHANGED <<siblings, name, inode, owner, nalloc, entry, iter, new, ino, lookups>>

\* ... parent->childs = new_entry, and on to the next name.
Front(t) ==
    /\ pc[t] = "front"
    /\ childs' = [childs EXCEPT ![entry[t]] = new[t]]
    /\ entry' = [entry EXCEPT ![t] = new[t]]
    /\ path' = [path EXCEPT ![t] = Tail(@)]
    /\ Goto(t, "walk")
    /\ UNCHANGED <<siblings, name, inode, owner, nalloc, iter, new, ino, lookups>>

-----------------------------------------------------------------------------
Init ==
    /\ childs = [n \in Nodes |-> NULL]
    /\ siblings = [e \in Entries |-> NULL]
    /\ name = [e \in Entries |-> NoName]
    /\ inode = [e \in Entries |-> 0]
    /\ owner = [e \in Entries |-> NULL]
    /\ nalloc = 0
    /\ pc = [t \in Threads |-> "idle"]
    /\ path = [t \in Threads |-> <<>>]
    /\ entry = [t \in Threads |-> NULL]
    /\ iter = [t \in Threads |-> NULL]
    /\ new = [t \in Threads |-> NULL]
    /\ ino = [t \in Threads |-> RootInode]
    /\ lookups = 0

LookupStep(t) ==
    \/ Lookup(t) \/ Hit(t) \/ Advance(t) \/ Again(t)
    \/ Walk(t) \/ Return(t)
    \/ Refuse(t) \/ Create(t) \/ Only(t) \/ Load(t) \/ Copy(t) \/ Reload(t)
    \/ Link(t) \/ Front(t)

\* All lookups that the bound allows have returned.
Terminated ==
    /\ lookups = MaxLookups /\ \A t \in Threads : pc[t] = "idle"
    /\ UNCHANGED vars

Next == (\E t \in Threads : Start(t) \/ LookupStep(t)) \/ Terminated

Spec == Init /\ [][Next]_vars

\* Every worker that can run does run.
FairSpec == Spec /\ \A t \in Threads : WF_vars(LookupStep(t))

-----------------------------------------------------------------------------
(* Properties. *)

\* Labels of the cached half of a lookup, and of dcache_insert.
CacheLabels  == {"lookup", "compare", "again"}
InsertLabels == {"insert", "only", "load", "copy", "reload", "link", "front"}
PcLabels     == CacheLabels \cup InsertLabels \cup {"idle", "walk", "missing"}

\* Types of the entries and of the locals of a lookup.
TypeOK ==
    /\ childs \in [Nodes -> Nodes] /\ siblings \in [Entries -> Nodes]
    /\ name \in [Entries -> Names \cup {NoName}]
    /\ inode \in [Entries -> Inodes \cup {0}]
    /\ owner \in [Entries -> Nodes] /\ nalloc \in Nodes
    /\ pc \in [Threads -> PcLabels] /\ path \in [Threads -> Seq(Names)]
    /\ entry \in [Threads -> Nodes] /\ iter \in [Threads -> Nodes]
    /\ new \in [Threads -> Nodes] /\ ino \in [Threads -> Inodes \cup {0}]
    /\ lookups \in 0 .. MaxLookups
    /\ \A e \in 1 .. nalloc : name[e] \in Names /\ inode[e] \in Inodes

\* The do-while of dcache_lookup and the links of dcache_insert never follow a
\* NULL pointer, whatever other workers are doing to the ring of siblings.
NoNullEntry ==
    \A t \in Threads :
        pc[t] \in {"compare", "copy", "link"} => iter[t] # NULL

\* The names a worker has still to resolve, and the inode it has reached.
Todo(t) == IF pc[t] \in InsertLabels THEN Tail(path[t]) ELSE path[t]
At(t)   == IF pc[t] \in CacheLabels THEN GetInode(entry[t]) ELSE ino[t]

\* A lookup through the cache, with any number of workers changing it, is a
\* walk through the directories of the disk.
PW == INSTANCE PathWalk
        WITH todo <- [t \in Threads |-> Todo(t)],
             at <- [t \in Threads |-> At(t)],
             busy <- [t \in Threads |-> pc[t] # "idle"]
Implements == PW!Spec

Kids(n) == {e \in 1 .. nalloc : owner[e] = n}

Idle == \A t \in Threads : pc[t] = "idle"

\* Between two lookups the children of an entry form one ring through
\* childs: following siblings passes all of them and comes back.  No name is in
\* it twice: what was inserted is found.
RingSound ==
    Idle => \A n \in 0 .. nalloc :
        LET k == Cardinality(Kids(n))
            ring[i \in 0 .. k] == IF i = 0 THEN childs[n] ELSE siblings[ring[i - 1]]
        IN  IF k = 0 THEN childs[n] = NULL
            ELSE /\ ring[k] = ring[0] /\ {ring[i] : i \in 1 .. k} = Kids(n)
                 /\ \A e, f \in Kids(n) : name[e] = name[f] => e = f

\* Every lookup returns: the search through the siblings comes to an end.
LookupReturns == \A t \in Threads : pc[t] # "idle" ~> pc[t] = "idle"
=============================================================================
