------------------------------ MODULE PathWalk ------------------------------
(***************************************************************************)
(* What inode_get_idx_by_path promises: the inode that one gets by walking *)
(* the directories of the disk from the root, one name at a time, or 0 if  *)
(* a name is not there.  The name space of a mounted ext4fuse never        *)
(* changes: there is no operation that creates, renames or removes.        *)
(***************************************************************************)
EXTENDS Naturals, Sequences

CONSTANTS Threads,
          Paths,      \* the paths that are looked up, sequences of names
          Dir,        \* Dir[i][n]: the inode of name n in directory i, or 0
          RootInode

VARIABLES todo,       \* the names that are left of each thread's path
          at,         \* the inode reached so far, 0 when a name was missing
          busy        \* threads that are looking up a path

vars == <<todo, at, busy>>

Init ==
    /\ todo = [t \in Threads |-> <<>>]
    /\ at = [t \in Threads |-> RootInode]
    /\ busy = [t \in Threads |-> FALSE]

Start(t) ==
    /\ ~busy[t]
    /\ \E p \in Paths : todo' = [todo EXCEPT ![t] = p]
    /\ at' = [at EXCEPT ![t] = RootInode]
    /\ busy' = [busy EXCEPT ![t] = TRUE]

Step(t) ==
    /\ busy[t] /\ at[t] # 0 /\ todo[t] # <<>>
    /\ LET i == Dir[at[t]][Head(todo[t])]
       IN  /\ at' = [at EXCEPT ![t] = i]
           /\ todo' = [todo EXCEPT ![t] = IF i = 0 THEN @ ELSE Tail(@)]
    /\ UNCHANGED busy

Return(t) ==
    /\ busy[t] /\ (at[t] = 0 \/ todo[t] = <<>>)
    /\ busy' = [busy EXCEPT ![t] = FALSE]
    /\ UNCHANGED <<todo, at>>

Next == \E t \in Threads : Start(t) \/ Step(t) \/ Return(t)

Spec == Init /\ [][Next]_vars
=============================================================================
