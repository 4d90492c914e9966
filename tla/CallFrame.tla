----------------------------- MODULE CallFrame -----------------------------
(***************************************************************************)
(* How a call of memfs.wasm works on the memory of the guest, which is     *)
(* another module's: the exported wrapper (src/memfs.cc) copies what the   *)
(* method will look at into a frame on its stack (src/util.h,              *)
(* src/util.cc), the method works there, and the views of what it may have *)
(* changed are copied back as they are destroyed (copy_in and copy_out,    *)
(* src/memfs.ts).                                                          *)
(*                                                                         *)
(* A wrapper is the sequence of its requests for a piece of the frame.     *)
(* Sizes and the offset are integers modulo Word, and so is the length in  *)
(* bytes of a vector, while its span has as many elements as the guest     *)
(* said: what the wrappers then do is followed up to the first use of such *)
(* a span (GoBeyond).                                                      *)
(*                                                                         *)
(* An operator whose name is that of the next one and a word more          *)
(* (alloc_late, Destroyed_first, ...) is a wrong version of it.            *)
(***************************************************************************)
EXTENDS Integers, Sequences, FiniteSets, SequencesExt

CONSTANTS
  FrameSize,  (* sizeof(tmp_buffer), 40960.                                 *)
  Word,       (* 2^32.                                                      *)
  MemSize,    (* Bytes of guest memory.                                     *)
  Byte,       (* Values of a byte.                                          *)
  ResultSize, (* Sizes of the results: __wasi_size_t, __wasi_fdstat_t ...   *)
  IovSize,    (* sizeof(__wasi_iovec_t)                                     *)
  DirLen,     (* Lengths of the paths of the descriptors.                   *)
  (* Arguments the guest passes:                                            *)
  PtrArg, SizeArg, VecArg

Address == 0 .. MemSize - 1
Place == 0 .. FrameSize - 1

(* The path of a directory and one of the guest's are far from a word long. *)
ASSUME CallFrameAssumption ==
  /\ FrameSize \in Nat \ {0} /\ MemSize \in Nat
  /\ Word \in Nat /\ Word % 2 = 0 /\ 2 * FrameSize <= Word
  /\ \A d \in DirLen : d + 2 * FrameSize + 2 < Word
  /\ IovSize \in Nat /\ ResultSize \subseteq Nat /\ DirLen \subseteq Nat
  /\ PtrArg \subseteq 0 .. Word - 1 /\ SizeArg \subseteq 0 .. Word - 1
  /\ VecArg \subseteq Seq([ptr : 0 .. Word - 1, size : 0 .. Word - 1])

VARIABLES
  guest,       (* The guest's memory.                                       *)
  frame,       (* tmp_buffer                                                *)
  tmp_offset,  (* tmp_offset                                                *)
  todo,        (* What the wrapper still has to ask for.                    *)
  views,       (* The pieces it got, in this order,                         *)
  live,        (* and those whose destructors have not run (by index).      *)
  status,      (* "guest", "entering", "leaving", or what was thrown.       *)
  direct       (* For the properties: the guest's memory as the method      *)
               (* would have left it had it worked there.                   *)

vars == <<guest, frame, tmp_offset, todo, views, live, status, direct>>

-----------------------------------------------------------------------------
(* Requests: a result (MutableView), a buffer of a vector (MutableView in   *)
(* rw_buffers), an input (ref_array), or room (alloc_uninitialized).        *)

Request(kind, ptr, size) == [kind |-> kind, ptr |-> ptr, size |-> size]
Result(ptr, size) == Request("result", ptr, size)
In(ptr, size) == Request("input", ptr, size)

(* with_external_iovs and with_external_ciovs: the vector, then its buffers.*)
(* If the length in bytes is cut down, so is the piece, but not the span:   *)
(* the one wrapper cannot reserve as many views as the span has elements,   *)
(* the other walks through them all.                                        *)
Beyond == {"length_error", "overrun"}
Buffers(kind, vec) == [i \in DOMAIN vec |-> Request(kind, vec[i].ptr, vec[i].size)]

External(kind, beyond, ptr, vec) ==
  LET bytes == Len(vec) * IovSize
  IN  <<In(ptr, bytes % Word)>> \o
        (IF bytes < Word THEN Buffers(kind, vec) ELSE <<Request(beyond, 0, bytes)>>)

with_external_iovs(ptr, vec) == External("buffer", "length_error", ptr, vec)
with_external_ciovs(ptr, vec) == External("input", "overrun", ptr, vec)

(* resolve_path: the path of the directory, a "/", the path and a NUL.      *)
Resolved(dir, path) == Request("room", 0, (dir + path.size + 2) % Word)

-----------------------------------------------------------------------------
(* The wrappers.  Those of other calls ask for nothing.  A method that does *)
(* not get as far as resolve_path leaves out its piece.                     *)

Paths == [ptr : PtrArg, size : SizeArg]
Opt(request) == {<<>>, <<request>>}

fd_stat(out, size) == {<<Result(out, size)>>}        \* and seek, tell, prestat_get
fd_read(out, ptr, vec) == {<<Result(out, 1)>> \o with_external_iovs(ptr, vec)}
fd_write(out, ptr, vec) == {<<Result(out, 1)>> \o with_external_ciovs(ptr, vec)}
fd_prestat_dir_name(buf) == {<<Result(buf.ptr, buf.size)>>}
fd_readdir(buf, out) == {<<Result(buf.ptr, buf.size), Result(out, 1)>>}
path_unary(path, dir) == {<<In(path.ptr, path.size)>> \o o : o \in Opt(Resolved(dir, path))}
path_open(out, size, path, dir) == {<<Result(out, size)>> \o c : c \in path_unary(path, dir)}
path_link(old, new) == {<<In(old.ptr, old.size), In(new.ptr, new.size)>>}
path_rename(old, new, dir) ==
  {<<In(old.ptr, old.size), In(new.ptr, new.size)>> \o o \o n :
     o \in Opt(Resolved(dir, old)), n \in Opt(Resolved(dir, new))}
path_readlink(path, buf, out) ==
  {<<Result(buf.ptr, buf.size), Result(out, 1), In(path.ptr, path.size)>>}

Wrapped == UNION (
  {fd_stat(out, size) : out \in PtrArg, size \in ResultSize} \cup
  {fd_read(out, ptr, vec) : out, ptr \in PtrArg, vec \in VecArg} \cup
  {fd_write(out, ptr, vec) : out, ptr \in PtrArg, vec \in VecArg} \cup
  {fd_prestat_dir_name(buf) : buf \in Paths} \cup
  {fd_readdir(buf, out) : buf \in Paths, out \in PtrArg} \cup
  {path_unary(path, dir) : path \in Paths, dir \in DirLen} \cup
  {path_open(out, size, path, dir) :
     out \in PtrArg, size \in ResultSize, path \in Paths, dir \in DirLen} \cup
  {path_link(old, new) : old, new \in Paths} \cup
  {path_rename(old, new, dir) : old, new \in Paths, dir \in DirLen} \cup
  {path_readlink(path, buf, out) : path, buf \in Paths, out \in PtrArg})

-----------------------------------------------------------------------------
(* What is in a frame that no call uses is of no meaning.                   *)
Garbage == \E garbage \in Byte : frame' = [o \in Place |-> garbage]

GuestCalls ==
  /\ status = "guest" /\ status' = "entering"
  /\ todo' \in Wrapped
  /\ UNCHANGED <<guest, frame, tmp_offset, views, live, direct>>

(* CallFrame::alloc.  The comparison with sizeof is one of unsigned         *)
(* numbers, and a size of nearly a word brings the offset back.             *)
alloc_wide(size) == [at |-> tmp_offset, next |-> tmp_offset + size, ok |-> tmp_offset + size <= FrameSize]

alloc_late(size) == [at |-> tmp_offset, next |-> (tmp_offset + size) % Word,
                     ok |-> tmp_offset <= FrameSize]

alloc(size) == [at |-> tmp_offset, next |-> (tmp_offset + size) % Word,
                ok |-> (tmp_offset + size) % Word <= FrameSize]

(* copy_in and copy_out take address and size as an int32_t; a typed array  *)
(* that begins at, or has, a negative number of bytes, or that goes beyond  *)
(* the end of the memory, throws a RangeError.                              *)
InRange(ptr, size) == 2 * ptr < Word /\ 2 * size < Word /\ ptr + size <= MemSize

CopyIn_nothing(at, request) == frame

CopyIn(at, request) ==
  IF request.kind = "room" THEN frame
  ELSE [o \in Place |-> IF o \in at .. at + request.size - 1
                        THEN guest[request.ptr + o - at] ELSE frame[o]]

Throw(what) == status' = what /\ UNCHANGED <<guest, frame, todo, views, live, direct>>

(* The wrapper's next request.  A failed REQUIRE throws through the import  *)
(* "trace"; no destructor runs then, and the guest is at its end.           *)
Enter ==
  LET request == Head(todo)
      piece == alloc(request.size)
  IN /\ status = "entering" /\ todo # <<>> /\ request.kind \notin Beyond
     /\ tmp_offset' = piece.next
     /\ \/ ~piece.ok /\ Throw("REQUIRE")
        \/ /\ piece.ok /\ request.kind # "room" /\ ~InRange(request.ptr, request.size)
           /\ Throw("RangeError")
        \/ /\ piece.ok /\ (request.kind = "room" \/ InRange(request.ptr, request.size))
           /\ frame' = CopyIn(piece.at, request)
           /\ todo' = Tail(todo)
           /\ views' = Append(views, [kind |-> request.kind, at |-> piece.at,
                                      ptr |-> request.ptr, size |-> request.size])
           /\ live' = live \cup {Len(views) + 1}
           /\ UNCHANGED <<guest, status, direct>>

(* A vector with fewer bytes than its elements need.  A guest that reads    *)
(* into it is ended (length_error).  One that writes from it has a span     *)
(* that is longer than its piece, and what its elements beyond the piece    *)
(* are, and become, is not defined: the call is not followed any further.   *)
GoBeyond ==
  LET request == Head(todo)
  IN /\ status = "entering" /\ todo # <<>> /\ request.kind \in Beyond
     /\ status' = request.kind
     /\ views' = IF request.kind = "overrun"
                 THEN [views EXCEPT ![Len(views)].size = request.size] ELSE views
     /\ UNCHANGED <<guest, frame, tmp_offset, todo, live, direct>>

Mutable(view) == view.kind \in {"result", "buffer"}
Places(view) == view.at .. view.at + view.size - 1
Targets(view) == view.ptr .. view.ptr + view.size - 1

(* The method writes what it likes into the views it was given, nothing if  *)
(* it fails.                                                                *)
MutablePlaces == UNION {Places(views[i]) : i \in {j \in DOMAIN views : Mutable(views[j])}}

Written(byte, written) ==
  [a \in Address |->
     IF \E i \in DOMAIN views : /\ Mutable(views[i]) /\ a \in Targets(views[i])
                                /\ views[i].at + a - views[i].ptr \in written
     THEN byte ELSE guest[a]]

Method ==
  /\ status = "entering" /\ todo = <<>> /\ status' = "leaving"
  /\ \E byte \in Byte, written \in SUBSET MutablePlaces :
       /\ frame' = [o \in Place |-> IF o \in written THEN byte ELSE frame[o]]
       /\ direct' = Written(byte, written)
  /\ UNCHANGED <<guest, tmp_offset, todo, views, live>>

(* Destructors: the buffers of a vector, in any order, as                   *)
(* with_external_iovs returns, then the results, the last one first.        *)
Destroyed_first(i) == \A j \in live : i <= j

Destroyed(i) ==
  \/ views[i].kind = "buffer"
  \/ \A j \in live : views[j].kind # "buffer" /\ j <= i

CopyOut(view) ==
  [a \in Address |-> IF a \in Targets(view) THEN frame[view.at + a - view.ptr] ELSE guest[a]]

Leave ==
  /\ status = "leaving"
  /\ \E i \in live :
       /\ Destroyed(i)
       /\ guest' = IF Mutable(views[i]) THEN CopyOut(views[i]) ELSE guest
       /\ live' = live \ {i}
  /\ UNCHANGED <<frame, tmp_offset, todo, views, status, direct>>

Left == status = "leaving" /\ live = {}

Return ==
  /\ Left /\ status' = "guest"
  /\ tmp_offset' = 0 /\ views' = <<>> /\ Garbage
  /\ UNCHANGED <<guest, todo, live, direct>>

Next == GuestCalls \/ Enter \/ GoBeyond \/ Method \/ Leave \/ Return

Init ==
  /\ guest \in [Address -> Byte] /\ direct = guest
  /\ \E garbage \in Byte : frame = [o \in Place |-> garbage]
  /\ tmp_offset = 0 /\ todo = <<>> /\ views = <<>> /\ live = {} /\ status = "guest"

Spec == Init /\ [][Next]_vars

-----------------------------------------------------------------------------
(* Properties.                                                              *)

Kind == {"result", "buffer", "input", "room"}

TypeOK ==
  /\ guest \in [Address -> Byte] /\ direct \in [Address -> Byte]
  /\ frame \in [Place -> Byte] /\ tmp_offset \in 0 .. Word - 1
  /\ todo \in Seq([kind : Kind \cup Beyond, ptr : 0 .. Word - 1, size : Nat])
  /\ views \in Seq([kind : Kind, at : 0 .. Word - 1, ptr : 0 .. Word - 1, size : Nat])
  /\ live \subseteq DOMAIN views
  /\ status \in {"guest", "entering", "leaving", "REQUIRE", "RangeError"} \cup Beyond

(* What a call works on lies within the frame and does not overlap, also    *)
(* for sizes that bring the 32-bit offset around to a small number          *)
(* (CallFrame::alloc), and for a vector to read into that is longer than    *)
(* its bytes.  It is not so for a vector of fd_write or fd_pwrite whose     *)
(* count times the size of an element does not fit in a word                *)
(* (alloc_uninitialized): its span leaves the frame, which is "overrun".    *)
ViewsApart ==
  status # "overrun" =>
    /\ \A i \in DOMAIN views : Places(views[i]) \subseteq Place
    /\ \A i, j \in DOMAIN views : i # j => Places(views[i]) \cap Places(views[j]) = {}

Apart(i, j) == i = j \/ Targets(views[i]) \cap Targets(views[j]) = {}
OfKind(kinds) == {i \in DOMAIN views : views[i].kind \in kinds}

(* To a guest whose buffers do not overlap the copies cannot be seen: when  *)
(* a call is over, its memory is what the method would have made of it had  *)
(* it worked there, although every view is copied back, written or not      *)
(* (ref_array and ~MutableView).                                            *)
Transparent ==
  Left /\ (\A i, j \in OfKind({"result", "buffer"}) : Apart(i, j)) => guest = direct

(* Results are not undone by the copies of the buffers they may overlap     *)
(* with: "out" is declared before with_external_iovs is called, and is      *)
(* therefore destroyed after its buffers.                                   *)
ResultsArrive ==
  Left /\ (\A i, j \in OfKind({"result"}) : Apart(i, j)) =>
    \A i \in OfKind({"result"}) : \A a \in Targets(views[i]) :
      guest[a] = frame[views[i].at + a - views[i].ptr]
=============================================================================
