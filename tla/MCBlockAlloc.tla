---------------------------- MODULE MCBlockAlloc ----------------------------
EXTENDS BlockAlloc, TLC

(* Four groups of eight blocks, block 0 unused (1 KiB blocks), the last one  *)
(* a block short.  All but the third begin with a superblock, a block of     *)
(* descriptors and a reserved one; each has its bitmaps and its inode table. *)
(* Data blocks of the first group and all of the third belong to old files.  *)
OwnAtFront        == (0 :> 3) @@ (1 :> 3) @@ (2 :> 0) @@ (3 :> 3)
OwnBitmapBlk      == (0 :> 4) @@ (1 :> 12) @@ (2 :> 17) @@ (3 :> 28)
OwnInodeBitmapBlk == (0 :> 5) @@ (1 :> 13) @@ (2 :> 18) @@ (3 :> 29)
OwnInodeTable     == (0 :> 6) @@ (1 :> 14) @@ (2 :> 19) @@ (3 :> 30)
OwnUsed           == {8} \cup (20 .. 24)
OwnGoals          == {0, 15}

(* Four groups of seven blocks with meta_bg, two of them a meta group: the   *)
(* third group has descriptors and no superblock, the last one no room.     *)
MetaAtFront        == (0 :> 2) @@ (1 :> 2) @@ (2 :> 1) @@ (3 :> 2)
MetaBitmapBlk      == (0 :> 3) @@ (1 :> 10) @@ (2 :> 16) @@ (3 :> 24)
MetaInodeBitmapBlk == (0 :> 4) @@ (1 :> 11) @@ (2 :> 17) @@ (3 :> 25)
MetaInodeTable     == (0 :> 5) @@ (1 :> 12) @@ (2 :> 18) @@ (3 :> 26)
MetaUsed           == {14}
MetaGoals          == {20}

(* Three groups of twelve blocks with flex_bg: all bitmaps and inode tables  *)
(* lie in the first, which is full.  The third begins with a data block.     *)
FlexAtFront        == (0 :> 2) @@ (1 :> 2) @@ (2 :> 0)
FlexBitmapBlk      == (0 :> 2) @@ (1 :> 3) @@ (2 :> 4)
FlexInodeBitmapBlk == (0 :> 5) @@ (1 :> 6) @@ (2 :> 7)
FlexInodeTable     == (0 :> 8) @@ (1 :> 9) @@ (2 :> 10)
FlexUsed           == {11} \cup (14 .. 22) \cup (26 .. 35)
FlexGoals          == {23, 24}
=============================================================================
