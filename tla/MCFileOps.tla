----------------------------- MODULE MCFileOps -----------------------------
(* Instances of FileOps for TLC.                                             *)
EXTENDS FileOps

OneGroup == {1 .. 5}
Crowded  == {{}, 3 .. 5}
Alone    == {{}}

\* Within three blocks of two bytes: one block and two, with and without an
\* unaligned head, with and without a rest, and single bytes of the last block.
SomeRequests == {<<0, 2>>, <<0, 3>>, <<0, 4>>, <<1, 2>>, <<1, 4>>, <<2, 2>>, <<4, 1>>, <<5, 1>>}
SomeLengths  == {0, 2, 3, 6}

\* Whole blocks from the start of the file.
WholeBlocks == {<<0, 2>>, <<0, 4>>}
=============================================================================
