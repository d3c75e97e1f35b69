---------------------------- MODULE MCSvReliable ----------------------------
(* Instances of SvReliable: the blocks that are written.                   *)
EXTENDS SvReliable

(* A short block, one a byte longer than announced, one that fills most of *)
(* a buffer and one that fills it.                                         *)
SomeBlocks  == {<<1, 1>>, <<1, 2>>, <<3, 3>>, <<4, 4>>}
=============================================================================
