----------------------------- MODULE MCStreams -----------------------------
(* Values for the constants of WasiStart: vectors over one to three bytes   *)
(* of the guest's memory with empty buffers in every place, a vector of no  *)
(* buffers, and for the runs of liveness properties one buffer of one byte. *)
EXTENDS WasiStart

Buf(a, n) == [buf |-> a, len |-> n]

MCInput == <<1, 2, 3, 4>>
MCReads == {<<>>, <<Buf(1, 0), Buf(1, 2)>>, <<Buf(3, 1), Buf(2, 0), Buf(1, 2)>>, <<Buf(2, 1)>>}
MCWrites == {<<>>, <<Buf(1, 1)>>, <<Buf(1, 1), Buf(2, 0), Buf(2, 1)>>, <<Buf(1, 2), Buf(1, 1)>>}
OneByte == <<1>>
OneBuffer == {<<Buf(1, 1)>>}
NoVector == {}
NoInput == <<>>
=============================================================================
