------------------------- MODULE MCBlobRecordStore -------------------------
(* TLC instances of BlobRecordStore.                                       *)
EXTENDS BlobRecordStore, TLC
RequestSymmetry == Permutations(Requests)
=============================================================================
