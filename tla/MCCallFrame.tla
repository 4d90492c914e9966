---------------------------- MODULE MCCallFrame ----------------------------
(* Values for the constants of CallFrame: a memory and a frame of a few     *)
(* bytes, buffers that fill the frame, that are larger than it, and of      *)
(* nearly a word, pointers such that results and buffers overlap, and a     *)
(* vector of one element more than a word can count.                        *)
EXTENDS CallFrame

Iov(ptr, size) == [ptr |-> ptr, size |-> size]

MCVectors == {<<>>, <<Iov(0, 2)>>, <<Iov(2, 1), Iov(0, 2)>>, <<Iov(0, 1), Iov(1, 14)>>,
              [i \in 1 .. 17 |-> Iov(0, 1)]}
=============================================================================
