---------------------------- MODULE MCDirectory ----------------------------
(***************************************************************************)
(* Instances of Directory for TLC: blocks of two bytes, one direct block   *)
(* and index blocks of two addresses, so that eight blocks reach the third *)
(* indirection, and every arrangement of used and dead entries in the      *)
(* first three blocks.                                                     *)
(***************************************************************************)
EXTENDS Directory, TLC

MCIBlock == 0 :> 10 @@ 1 :> 20 @@ 2 :> 30 @@ 3 :> 40

Two(a, b) == 0 :> a @@ 1 :> b

MCIndex ==
    20 :> Two(11, 12) @@
    30 :> Two(31, 32) @@ 31 :> Two(13, 14) @@ 32 :> Two(15, 16) @@
    40 :> Two(41, 42) @@
    41 :> Two(43, 44) @@ 43 :> Two(17, 18) @@ 44 :> Two(19, 21) @@
    42 :> Two(45, 46) @@ 45 :> Two(22, 23) @@ 46 :> Two(24, 25)

\* The blocks of data, and what may be in one: a free block of the directory,
\* one entry, two, or one with a dead entry before or behind it.
Data == <<10, 11, 12, 13, 14, 15, 16, 17, 18>>

Shapes == {"free", "one", "two", "dead_live", "live_dead"}

Block(k, shape) ==
    CASE shape = "free"      -> 0 :> Entry(0, 2, 2 * k)
      [] shape = "one"       -> 0 :> Entry(2 * k, 2, 2 * k)
      [] shape = "two"       -> Two(Entry(2 * k, 1, 2 * k), Entry(2 * k + 1, 1, 2 * k + 1))
      [] shape = "dead_live" -> Two(Entry(0, 1, 2 * k), Entry(2 * k + 1, 1, 2 * k + 1))
      [] shape = "live_dead" -> Two(Entry(2 * k, 1, 2 * k), Entry(0, 1, 2 * k + 1))

Arranged(shapes) ==
    [blocks |-> Len(shapes),
     data |-> [p \in {Data[k] : k \in 1 .. Len(shapes)} |->
                  LET k == CHOOSE i \in 1 .. Len(shapes) : Data[i] = p
                  IN  Block(k, shapes[k])]]

\* Any three blocks, and long directories with two different shapes.
MCDirs ==
    {Arranged(<<x>>) : x \in {"one", "two"}}
        \cup {Arranged(<<x, y, z>>) : x \in Shapes, y \in Shapes, z \in Shapes}
        \cup {Arranged([k \in 1 .. 9 |-> IF k % 2 = 0 THEN x ELSE y]) :
                 x \in {"one", "live_dead"}, y \in {"free", "two"}}

MCNames == 2 .. 20
=============================================================================
