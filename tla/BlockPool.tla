----------------------------- MODULE BlockPool -----------------------------
(***************************************************************************)
(* What the block allocator promises to the files: a request gets a block  *)
(* of the data area that no file holds, it is refused only when there is   *)
(* none, and a file may give back blocks it holds.                         *)
(***************************************************************************)
CONSTANTS Files,
          Data      \* the blocks that are not metadata

VARIABLES held,     \* the blocks of each file
          refused   \* was the last request of the file refused?

vars == <<held, refused>>

Taken == UNION {held[f] : f \in Files}

Init ==
    /\ held = [f \in Files |-> {}]
    /\ refused = [f \in Files |-> FALSE]

Grant(f) ==
    /\ \E b \in Data \ Taken : held' = [held EXCEPT ![f] = @ \cup {b}]
    /\ refused' = [refused EXCEPT ![f] = FALSE]

Refuse(f) ==
    /\ Taken = Data
    /\ refused' = [refused EXCEPT ![f] = TRUE]
    /\ UNCHANGED held

GiveBack(f) ==
    /\ \E s \in SUBSET held[f] : held' = [held EXCEPT ![f] = @ \ s]
    /\ UNCHANGED refused

Next == \E f \in Files : Grant(f) \/ Refuse(f) \/ GiveBack(f)

Spec == Init /\ [][Next]_vars
=============================================================================
