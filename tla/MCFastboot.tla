----------------------------- MODULE MCFastboot -----------------------------
(* A fastboot session with a sparse and a raw image, for TLC.              *)
EXTENDS FastbootSession

CONSTANTS sparse1, raw1

SparseImages == {sparse1}
SparseAndRaw == {sparse1, raw1}

\* Partitions by size.
AllSizes == [boot |-> "small", cache |-> "exact", system |-> "big", lost |-> "absent"]
=============================================================================
