---------------------------- MODULE MCChunkFile ----------------------------
(* Instances of ChunkFile for TLC.                                         *)
EXTENDS ChunkFile
=============================================================================
