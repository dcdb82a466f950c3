----------------------------- MODULE BlockIndex -----------------------------
(***************************************************************************)
(* What the red-black tree of a block device promises the buffer cache:    *)
(* the buffers it holds, in the order of their block numbers, at most one  *)
(* for a block.                                                            *)
(***************************************************************************)
EXTENDS Naturals, Sequences

CONSTANTS Nodes, Key

VARIABLE order     \* the nodes in the index, from the lowest key to the highest

Held == {order[k] : k \in 1 .. Len(order)}
Sorted(s) == \A j, k \in 1 .. Len(s) : j < k => Key[s[j]] < Key[s[k]]

Init == order = <<>>

\* A node whose key is there already is not taken.
Insert(n) ==
    /\ \A m \in Held : Key[m] # Key[n]
    /\ \E k \in 0 .. Len(order) :
          /\ order' = SubSeq(order, 1, k) \o <<n>> \o SubSeq(order, k + 1, Len(order))
          /\ Sorted(order')

Erase(n) ==
    \E k \in 1 .. Len(order) :
        /\ order[k] = n
        /\ order' = SubSeq(order, 1, k - 1) \o SubSeq(order, k + 1, Len(order))

Next == \E n \in Nodes : Insert(n) \/ Erase(n)

Spec == Init /\ [][Next]_order
=============================================================================
