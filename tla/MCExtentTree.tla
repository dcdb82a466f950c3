---------------------------- MODULE MCExtentTree ----------------------------
(* Instances of ExtentTree for TLC.                                          *)
EXTENDS ExtentTree

\* One group: the place of a new block follows from the history of the file.
OneGroup == {1 .. 12}

\* An empty device, one with nine free blocks and one with five.
Crowded == {{}, 10 .. 12, 6 .. 12}
Alone   == {{}}
=============================================================================
