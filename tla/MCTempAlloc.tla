---------------------------- MODULE MCTempAlloc -----------------------------
(***************************************************************************)
(* Three buckets of 1, 2 and 4 bytes in place of ten that begin at 100.    *)
(* The sizes fill the buffers of the first two buckets, alone or together, *)
(* and exceed the last bucket.                                             *)
(***************************************************************************)
EXTENDS TempAlloc
=============================================================================
