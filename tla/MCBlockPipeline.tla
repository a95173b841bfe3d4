--------------------------- MODULE MCBlockPipeline ---------------------------
(***************************************************************************)
(* Instances of BlockPipeline: files longer than the queue, an empty one,  *)
(* one whose last block is full, and blocks of two units.                  *)
(***************************************************************************)
EXTENDS BlockPipeline

MCsizes == <<13, 0, 4, 3>>

\* It has them, or it lost the end of the last one.
MCserved == {MCsizes, <<13, 0, 4, 2>>}
==============================================================================
