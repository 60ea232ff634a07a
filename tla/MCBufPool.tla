----------------------------- MODULE MCBufPool -----------------------------
(* Values for TLC.  The buffers and the threads are model values; buffers are *)
(* interchangeable, so symmetry in them is sound for the safety properties.   *)
EXTENDS BufPool, TLC

CONSTANTS b1, b2, b3, b4, b5, b6, request, response, regroup

Six == {b1, b2, b3, b4, b5, b6}
Services == {request, response, regroup}
TwoAllocate == {request, regroup}
TwoFree == {response, regroup}
BufferSymmetry == Permutations(Buffer)
=============================================================================
