--------------------------- MODULE MCBufferCache ---------------------------
(* Instances of BufferCache for TLC; the values are in the .cfg files. *)
EXTENDS BufferCache
=============================================================================
