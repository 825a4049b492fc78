--------------------------- MODULE MCSparseFlash ---------------------------
(* A partition of ten units in five device blocks, for TLC.  The blocks of *)
(* sparse images are one or two device blocks; one image fills the         *)
(* partition, one leaves its last device block, one is too large, one has  *)
(* a block size the device cannot write, and two have a wrong header.      *)
EXTENDS SparseFlash

Img(n, blk, total, kinds) ==
  [name |-> n, blk |-> blk, total_blks |-> total, kinds |-> kinds]

MCSparseImages ==
  {Img(1, 4, 2, <<"fill", "raw">>),
   Img(2, 2, 5, <<"raw", "none", "fill", "fill", "raw">>),
   Img(3, 4, 3, <<"raw", "none", "raw">>),
   Img(4, 3, 2, <<"raw", "raw">>),
   Img(5, 4, 2, <<"raw", "fill", "raw">>),
   Img(6, 4, 2, <<"fill">>)}

MCRawImages == {[name |-> n, len |-> n] : n \in {7, 10, 11}}
=============================================================================
