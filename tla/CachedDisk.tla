---------------------------- MODULE CachedDisk ----------------------------
(***************************************************************************)
(* What a write-back block cache promises: callers give blocks new         *)
(* contents, the cache copies the newest contents to the device whenever   *)
(* it likes, and it closes only when the device has everything.            *)
(***************************************************************************)
EXTENDS Naturals

CONSTANT Blocks

VARIABLES cur,   \* the newest contents of each block
          dev,   \* what the device holds
          open   \* the cache is in use

vars == <<cur, dev, open>>

Init ==
    /\ cur = [b \in Blocks |-> 0]
    /\ dev = [b \in Blocks |-> 0]
    /\ open = TRUE

Write(b) ==
    /\ open
    /\ cur' = [cur EXCEPT ![b] = @ + 1]
    /\ UNCHANGED <<dev, open>>

Flush(b) ==
    /\ open
    /\ dev' = [dev EXCEPT ![b] = cur[b]]
    /\ UNCHANGED <<cur, open>>

Close ==
    /\ open /\ dev = cur
    /\ open' = FALSE
    /\ UNCHANGED <<cur, dev>>

Next == (\E b \in Blocks : Write(b) \/ Flush(b)) \/ Close

Spec == Init /\ [][Next]_vars
=============================================================================
