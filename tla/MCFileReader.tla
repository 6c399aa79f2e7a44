---------------------------- MODULE MCFileReader ----------------------------
(* Instances of FileReader for TLC. *)
EXTENDS FileReader

\* Smaller than a chunk, as large, larger, and larger than two chunks.
MCBlockSizes == {2, 3, 4, 7}
=============================================================================
