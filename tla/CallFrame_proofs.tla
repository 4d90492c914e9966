-------------------------- MODULE CallFrame_proofs --------------------------
(***************************************************************************)
(* Proofs for CallFrame, for all sizes, pointers and vectors, also for one *)
(* whose length in bytes does not fit in a word: the pieces of a call lie  *)
(* apart in the frame, but for the calls that such a vector is written     *)
(* from (status "overrun"); when a call has returned, a guest whose buffers*)
(* do not overlap cannot see the copies, and results have arrived.         *)
(*                                                                         *)
(* The offset could only come back to a small number with a piece of       *)
(* nearly a word.  An input or a result of that size is refused by copy_in *)
(* before the next piece is asked for; the room for a path is not copied   *)
(* from anywhere, but its size is that of an input that was (Guarded).     *)
(***************************************************************************)
EXTENDS CallFrame, SequenceTheorems, TLAPS

(* Every room for a path follows the path, whose size bounds it.            *)
Requests == [kind : Kind \cup Beyond, ptr : 0 .. Word - 1, size : Nat]
Fits(room) == room.size + FrameSize < Word
For(room, request) ==
  request.kind = "input" /\ \E d \in DirLen : room.size = (d + request.size + 2) % Word
Guarded(requests) ==
  \A k \in DOMAIN requests : requests[k].kind = "room" =>
    Fits(requests[k]) \/ \E j \in 1 .. k - 1 : For(requests[k], requests[j])

(* The pieces of the frame lie one after the other, up to tmp_offset.       *)
InCall == status \in {"entering", "leaving"}
End(view) == view.at + view.size

Laid ==
  /\ \A i \in DOMAIN views : End(views[i]) <= FrameSize
  /\ \A i, j \in DOMAIN views : i < j => End(views[i]) <= views[j].at
  /\ InCall => tmp_offset <= FrameSize /\ \A i \in DOMAIN views : End(views[i]) <= tmp_offset
  /\ status = "guest" => tmp_offset = 0 /\ views = <<>> /\ live = {}
  /\ status = "entering" => Guarded(todo) /\ live = DOMAIN views

(* Views are of the guest's memory.                                         *)
Aimed == \A i \in DOMAIN views : views[i].kind # "room" => Targets(views[i]) \subseteq Address

(* The place in a view for an address.                                      *)
PlaceOf(view, a) == view.at + a - view.ptr

(* Until the method begins, a view has what is in the guest's memory.       *)
Fresh ==
  status = "entering" => \A i \in DOMAIN views : views[i].kind # "room" =>
    \A a \in Targets(views[i]) : frame[PlaceOf(views[i], a)] = guest[a]

(* When it has run: what it made of the memory is in the views, and where   *)
(* no view is left, in the memory.                                          *)
Muts == OfKind({"result", "buffer"})
Results == OfKind({"result"})

Copied ==
  status = "leaving" /\ (\A i, j \in Muts : Apart(i, j)) =>
    /\ \A i \in Muts : \A a \in Targets(views[i]) : direct[a] = frame[PlaceOf(views[i], a)]
    /\ \A a \in Address :
         (\A i \in live \cap Muts : a \notin Targets(views[i])) => guest[a] = direct[a]

(* Results that were copied out are followed by results only.               *)
Arrived ==
  status = "leaving" /\ (\A i, j \in Results : Apart(i, j)) =>
    \A i \in Results \ live :
      /\ \A j \in live : views[j].kind # "buffer"
      /\ \A a \in Targets(views[i]) : guest[a] = frame[PlaceOf(views[i], a)]

Sound == TypeOK /\ Laid /\ Aimed /\ Fresh /\ Copied /\ Arrived

(* All of it is lost with the first span that is longer than its piece, and *)
(* the call is followed no further then.                                    *)
IInv == TypeOK /\ (status = "overrun" \/ Sound)

-----------------------------------------------------------------------------
(* Arithmetic of words.                                                     *)
LEMMA Words ==
  ASSUME NEW n \in Nat
  PROVE  n % Word \in 0 .. Word - 1 /\ (n < Word => n % Word = n)
BY CallFrameAssumption

(* What is assumed, one by one.                                             *)
LEMMA Constants ==
  /\ Word \in Nat /\ FrameSize \in Nat \ {0} /\ MemSize \in Nat /\ 0 < Word
  /\ 2 * FrameSize <= Word /\ IovSize \in Nat
BY CallFrameAssumption

(* And of the arguments.                                                    *)
LEMMA Arguments ==
  /\ \A d \in DirLen : d \in Nat /\ d + 2 * FrameSize + 2 < Word
  /\ \A size \in ResultSize : size \in Nat
  /\ \A ptr \in PtrArg : ptr \in 0 .. Word - 1
  /\ \A path \in Paths : path.ptr \in 0 .. Word - 1 /\ path.size \in Nat
<1>1. \A d \in DirLen : d \in Nat /\ d + 2 * FrameSize + 2 < Word
  BY CallFrameAssumption
<1>2. (\A size \in ResultSize : size \in Nat) /\ \A ptr \in PtrArg : ptr \in 0 .. Word - 1
  BY CallFrameAssumption
<1>3. \A size \in SizeArg : size \in 0 .. Word - 1
  BY CallFrameAssumption
<1>4. \A size \in SizeArg : size \in Nat
  BY <1>3, Constants
<1> QED
  BY <1>1, <1>2, <1>4 DEF Paths

(* A product of sizes is a size.                                            *)
LEMMA Product == \A m, n \in Nat : m * n \in Nat
OBVIOUS

-----------------------------------------------------------------------------
(* What a wrapper asks for.                                                 *)

Fine(requests) == requests \in Seq(Requests) /\ Guarded(requests)

(* Requests for no room are guarded.                                        *)
LEMMA RoomFree ==
  ASSUME NEW s \in Seq(Requests), \A i \in DOMAIN s : s[i].kind # "room"
  PROVE  Fine(s)
BY DEF Fine, Guarded

(* Requests after others are still guarded.                                 *)
LEMMA FineConcat ==
  ASSUME NEW s, NEW t, Fine(s), Fine(t)
  PROVE  Fine(s \o t)
<1>1. /\ s \in Seq(Requests) /\ t \in Seq(Requests) /\ s \o t \in Seq(Requests)
      /\ Len(s) \in Nat /\ Len(t) \in Nat /\ Len(s \o t) = Len(s) + Len(t)
      /\ \A i \in 1 .. Len(s) + Len(t) :
           (s \o t)[i] = IF i <= Len(s) THEN s[i] ELSE t[i - Len(s)]
  BY ConcatProperties, LenProperties DEF Fine
<1>2. DOMAIN s = 1 .. Len(s) /\ DOMAIN t = 1 .. Len(t) /\ DOMAIN (s \o t) = 1 .. Len(s) + Len(t)
  BY <1>1, LenProperties
<1>3. ASSUME NEW k \in DOMAIN (s \o t), (s \o t)[k].kind = "room"
      PROVE  Fits((s \o t)[k]) \/ \E j \in 1 .. k - 1 : For((s \o t)[k], (s \o t)[j])
  <2>1. CASE k <= Len(s)
    <3>1. k \in DOMAIN s /\ (s \o t)[k] = s[k] /\ \A j \in 1 .. k - 1 : (s \o t)[j] = s[j]
      BY <1>1, <1>2, <2>1
    <3> QED
      BY <1>3, <3>1 DEF Fine, Guarded
  <2>2. CASE k > Len(s)
    <3>1. k - Len(s) \in DOMAIN t /\ (s \o t)[k] = t[k - Len(s)]
      BY <1>1, <1>2, <2>2
    <3>2. CASE Fits(t[k - Len(s)])
      BY <3>1, <3>2
    <3>3. CASE \E j \in 1 .. k - Len(s) - 1 : For(t[k - Len(s)], t[j])
      <4>1. PICK j \in 1 .. k - Len(s) - 1 : For(t[k - Len(s)], t[j])
        BY <3>3
      <4>2. j + Len(s) \in 1 .. k - 1 /\ (s \o t)[j + Len(s)] = t[j]
        BY <1>1, <1>2, <2>2, <4>1
      <4> QED
        BY <3>1, <4>1, <4>2
    <3> QED
      BY <1>3, <3>1, <3>2, <3>3 DEF Fine, Guarded
  <2> QED
    BY <1>1, <1>2, <2>1, <2>2
<1> QED
  BY <1>1, <1>3 DEF Fine, Guarded

(* A room after its path.                                                   *)
LEMMA FineRoom ==
  ASSUME NEW s, Fine(s), NEW path \in Paths, NEW d \in DirLen,
         NEW j \in DOMAIN s, s[j] = In(path.ptr, path.size)
  PROVE  Fine(s \o <<Resolved(d, path)>>)
<1> DEFINE room == Resolved(d, path)
           all == s \o <<room>>
<1>1. path.size \in Nat /\ d + path.size + 2 \in Nat
  BY Arguments
<1>2. room \in Requests /\ For(room, s[j])
  BY <1>1, Words, Constants DEF Resolved, Request, Requests, Kind, For, In
<1>3. s \in Seq(Requests) /\ <<room>> \in Seq(Requests)
  BY <1>2 DEF Fine
<1> HIDE DEF room
<1>4. /\ all \in Seq(Requests) /\ Len(s) \in Nat /\ Len(all) = Len(s) + 1
      /\ \A i \in 1 .. Len(s) : all[i] = s[i]
      /\ all[Len(s) + 1] = room
  <2>1. Len(<<room>>) = 1 /\ <<room>>[1] = room
    OBVIOUS
  <2> QED
    BY <1>3, <2>1, ConcatProperties, LenProperties
<1>5. DOMAIN s = 1 .. Len(s) /\ DOMAIN all = 1 .. Len(s) + 1
  BY <1>3, <1>4, LenProperties
<1> HIDE DEF all
<1>6. ASSUME NEW k \in DOMAIN all, all[k].kind = "room"
      PROVE  Fits(all[k]) \/ \E i \in 1 .. k - 1 : For(all[k], all[i])
  <2>1. CASE k \in DOMAIN s
    <3>1. all[k] = s[k] /\ \A i \in 1 .. k - 1 : all[i] = s[i]
      BY <1>4, <1>5, <2>1
    <3> QED
      BY <1>6, <2>1, <3>1 DEF Fine, Guarded
  <2>2. CASE k = Len(s) + 1
    BY <1>2, <1>4, <1>5, <2>2
  <2> QED
    BY <1>4, <1>5, <2>1, <2>2
<1> QED
  BY <1>4, <1>6 DEF Fine, Guarded, all, room

(* One request.                                                             *)
LEMMA FineOne ==
  ASSUME NEW r \in Requests, r.kind # "room"
  PROVE  Fine(<<r>>)
<1>1. <<r>> \in Seq(Requests) /\ \A i \in DOMAIN <<r>> : <<r>>[i] = r
  OBVIOUS
<1> QED
  BY <1>1, RoomFree

(* Two requests.                                                            *)
LEMMA FineTwo ==
  ASSUME NEW r \in Requests, r.kind # "room", NEW q \in Requests, q.kind # "room"
  PROVE  Fine(<<r, q>>)
<1>1. <<r, q>> \in Seq(Requests) /\ \A i \in DOMAIN <<r, q>> : <<r, q>>[i] \in {r, q}
  OBVIOUS
<1> QED
  BY <1>1, RoomFree

(* Arguments make results and inputs.                                       *)
LEMMA ArgTypes ==
  /\ \A path \in Paths : path.ptr \in 0 .. Word - 1 /\ path.size \in Nat
  /\ \A ptr \in PtrArg : ptr \in 0 .. Word - 1
  /\ \A ptr \in 0 .. Word - 1, size \in Nat :
       Result(ptr, size) \in Requests /\ Result(ptr, size).kind = "result"
       /\ In(ptr, size) \in Requests /\ In(ptr, size).kind = "input"
BY Arguments DEF Result, In, Request, Requests, Kind

(* A vector and its buffers.                                                *)
LEMMA BuffersFine ==
  ASSUME NEW kind \in {"buffer", "input"}, NEW beyond \in Beyond,
         NEW ptr \in PtrArg, NEW vec \in VecArg
  PROVE  Fine(External(kind, beyond, ptr, vec))
<1> DEFINE bytes == Len(vec) * IovSize
<1>1. vec \in Seq([ptr : 0 .. Word - 1, size : 0 .. Word - 1]) /\ IovSize \in Nat
  BY CallFrameAssumption
<1>2. /\ Len(vec) \in Nat /\ DOMAIN vec = 1 .. Len(vec)
      /\ \A i \in 1 .. Len(vec) : vec[i] \in [ptr : 0 .. Word - 1, size : 0 .. Word - 1]
  BY <1>1, LenProperties, ElementOfSeq
<1>3. \A i \in 1 .. Len(vec) : /\ Request(kind, vec[i].ptr, vec[i].size) \in Requests
                               /\ Request(kind, vec[i].ptr, vec[i].size).kind # "room"
  BY <1>2 DEF Request, Requests, Kind
<1>4. Buffers(kind, vec) \in Seq(Requests)
  BY <1>2, <1>3 DEF Buffers
<1>5. \A i \in DOMAIN Buffers(kind, vec) : Buffers(kind, vec)[i].kind # "room"
  BY <1>2, <1>3 DEF Buffers
<1>6. bytes \in Nat
  BY <1>1, <1>2, Product
<1> HIDE DEF bytes
<1>7. bytes % Word \in Nat
  BY <1>6, Words, Constants
<1>8. Fine(<<In(ptr, bytes % Word)>>)
  BY <1>7, ArgTypes, FineOne
<1>9. Fine(Buffers(kind, vec))
  BY <1>4, <1>5, RoomFree
<1>10. Fine(<<Request(beyond, 0, bytes)>>)
  <2>1. Request(beyond, 0, bytes) \in Requests /\ Request(beyond, 0, bytes).kind # "room"
    BY <1>6, Constants DEF Request, Requests, Beyond
  <2> QED
    BY <2>1, FineOne
<1> QED
  BY <1>8, <1>9, <1>10, FineConcat DEF External, bytes

(* A path that may have been resolved.                                      *)
LEMMA FineOpt ==
  ASSUME NEW s, Fine(s), NEW path \in Paths, NEW d \in DirLen,
         NEW j \in DOMAIN s, s[j] = In(path.ptr, path.size), NEW o \in Opt(Resolved(d, path))
  PROVE  Fine(s \o o) /\ DOMAIN s \subseteq DOMAIN (s \o o) /\ \A i \in DOMAIN s : (s \o o)[i] = s[i]
<1>1. s \in Seq(Requests)
  BY DEF Fine
<1>2. CASE o = <<>>
  <2>1. s \o o = s
    BY <1>1, <1>2, ConcatEmptySeq
  <2> QED
    BY <2>1
<1>3. CASE o = <<Resolved(d, path)>>
  <2>1. Fine(s \o o)
    BY <1>3, FineRoom
  <2>2. Resolved(d, path) \in Requests
    <3>1. d + path.size + 2 \in Nat
      BY Arguments
    <3> QED
      BY <3>1, Words, Constants DEF Resolved, Request, Requests, Kind
  <2>3. o \in Seq(Requests)
    BY <1>3, <2>2
  <2>4. /\ s \o o \in Seq(Requests) /\ Len(s \o o) = Len(s) + Len(o) /\ Len(s) \in Nat /\ Len(o) \in Nat
        /\ \A i \in 1 .. Len(s) + Len(o) : (s \o o)[i] = IF i <= Len(s) THEN s[i] ELSE o[i - Len(s)]
    BY <1>1, <2>3, ConcatProperties, LenProperties
  <2>5. DOMAIN s = 1 .. Len(s) /\ DOMAIN (s \o o) = 1 .. Len(s) + Len(o)
    BY <1>1, <2>4, LenProperties
  <2> QED
    BY <2>1, <2>4, <2>5
<1> QED
  BY <1>2, <1>3 DEF Opt

(* The wrappers of one path.                                                *)
LEMMA PathUnaryFine ==
  ASSUME NEW path \in Paths, NEW d \in DirLen, NEW requests \in path_unary(path, d)
  PROVE  Fine(requests)
<1>1. PICK o \in Opt(Resolved(d, path)) : requests = <<In(path.ptr, path.size)>> \o o
  BY DEF path_unary
<1>2. Fine(<<In(path.ptr, path.size)>>)
  BY ArgTypes, FineOne
<1>3. 1 \in DOMAIN <<In(path.ptr, path.size)>> /\ <<In(path.ptr, path.size)>>[1] = In(path.ptr, path.size)
  OBVIOUS
<1> QED
  BY <1>1, <1>2, <1>3, FineOpt

(* The wrapper of two paths.                                                *)
LEMMA PathRenameFine ==
  ASSUME NEW old \in Paths, NEW new \in Paths, NEW d \in DirLen,
         NEW requests \in path_rename(old, new, d)
  PROVE  Fine(requests)
<1> DEFINE both == <<In(old.ptr, old.size), In(new.ptr, new.size)>>
<1>1. PICK o \in Opt(Resolved(d, old)), n \in Opt(Resolved(d, new)) : requests = both \o o \o n
  BY DEF path_rename
<1>2. Fine(both)
  BY ArgTypes, FineTwo
<1>3. /\ {1, 2} \subseteq DOMAIN both
      /\ both[1] = In(old.ptr, old.size) /\ both[2] = In(new.ptr, new.size)
  OBVIOUS
<1> HIDE DEF both
<1>4. /\ Fine(both \o o) /\ 2 \in DOMAIN (both \o o)
      /\ (both \o o)[2] = In(new.ptr, new.size)
  BY <1>2, <1>3, FineOpt
<1>5. Fine((both \o o) \o n)
  BY <1>4, FineOpt
<1> QED
  BY <1>1, <1>5

(* What a wrapper asks for is of the type and guarded.                      *)
LEMMA WrappedFine ==
  ASSUME NEW requests \in Wrapped
  PROVE  Fine(requests)
<1>1. 1 \in Nat /\ \A size \in ResultSize : size \in Nat
  BY CallFrameAssumption
<1>2. \A out \in PtrArg, size \in Nat : Fine(<<Result(out, size)>>)
  BY ArgTypes, FineOne
<1>3. \A out \in PtrArg, size \in ResultSize : requests \in fd_stat(out, size) => Fine(requests)
  BY <1>1, <1>2 DEF fd_stat
<1>4. \A out, ptr \in PtrArg, vec \in VecArg :
        requests \in fd_read(out, ptr, vec) \cup fd_write(out, ptr, vec) => Fine(requests)
  <2> SUFFICES ASSUME NEW out \in PtrArg, NEW ptr \in PtrArg, NEW vec \in VecArg,
                      requests \in fd_read(out, ptr, vec) \cup fd_write(out, ptr, vec)
               PROVE  Fine(requests)
    OBVIOUS
  <2>1. PICK kind \in {"buffer", "input"}, beyond \in Beyond :
          requests = <<Result(out, 1)>> \o External(kind, beyond, ptr, vec)
    BY DEF fd_read, fd_write, with_external_iovs, with_external_ciovs, Beyond
  <2> QED
    BY <1>1, <1>2, <2>1, BuffersFine, FineConcat
<1>5. \A buf \in Paths : requests \in fd_prestat_dir_name(buf) => Fine(requests)
  BY ArgTypes, FineOne DEF fd_prestat_dir_name
<1>6. \A buf \in Paths, out \in PtrArg : requests \in fd_readdir(buf, out) => Fine(requests)
  BY ArgTypes, <1>1, FineTwo DEF fd_readdir
<1>7. \A path \in Paths, d \in DirLen : requests \in path_unary(path, d) => Fine(requests)
  BY PathUnaryFine
<1>8. \A out \in PtrArg, size \in ResultSize, path \in Paths, d \in DirLen :
        requests \in path_open(out, size, path, d) => Fine(requests)
  BY <1>1, <1>2, PathUnaryFine, FineConcat DEF path_open
<1>9. \A old, new \in Paths : requests \in path_link(old, new) => Fine(requests)
  BY ArgTypes, FineTwo DEF path_link
<1>10. \A old, new \in Paths, d \in DirLen : requests \in path_rename(old, new, d) => Fine(requests)
  BY PathRenameFine
<1>11. \A path, buf \in Paths, out \in PtrArg :
         requests \in path_readlink(path, buf, out) => Fine(requests)
  <2> SUFFICES ASSUME NEW path \in Paths, NEW buf \in Paths, NEW out \in PtrArg
               PROVE  Fine(<<Result(buf.ptr, buf.size), Result(out, 1), In(path.ptr, path.size)>>)
    BY DEF path_readlink
  <2> DEFINE all == <<Result(buf.ptr, buf.size), Result(out, 1), In(path.ptr, path.size)>>
  <2>1. \A i \in 1 .. 3 : all[i] \in Requests /\ all[i].kind # "room"
    BY ArgTypes, <1>1
  <2>2. all \in Seq(Requests) /\ DOMAIN all = 1 .. 3
    BY <2>1
  <2> QED
    BY <2>1, <2>2, RoomFree
<1> QED
  BY <1>3, <1>4, <1>5, <1>6, <1>7, <1>8, <1>9, <1>10, <1>11 DEF Wrapped

-----------------------------------------------------------------------------
(* The steps of a call.                                                     *)

View == [kind : Kind, at : 0 .. Word - 1, ptr : 0 .. Word - 1, size : Nat]

(* A view is a view, with numbers.                                          *)
LEMMA ViewTypes ==
  ASSUME TypeOK, NEW i \in DOMAIN views
  PROVE  /\ views[i] \in View /\ views[i].at \in Nat /\ views[i].ptr \in Nat /\ views[i].size \in Nat
         /\ DOMAIN views = 1 .. Len(views) /\ Len(views) \in Nat
<1>1. views \in Seq(View)
  BY DEF TypeOK, View
<1>2. DOMAIN views = 1 .. Len(views) /\ Len(views) \in Nat /\ views[i] \in View
  BY <1>1, LenProperties, ElementOfSeq
<1> QED
  BY <1>2, Constants DEF View

(* The place of an address of a view is one of its pieces.                  *)
LEMMA PlaceOfView ==
  ASSUME TypeOK, Laid, NEW i \in DOMAIN views, NEW a \in Targets(views[i])
  PROVE  PlaceOf(views[i], a) \in Places(views[i]) /\ PlaceOf(views[i], a) \in Place
<1>1. End(views[i]) <= FrameSize
  BY DEF Laid
<1>2. views[i].at \in Nat /\ views[i].ptr \in Nat /\ views[i].size \in Nat /\ FrameSize \in Nat
  BY ViewTypes, Constants
<1>3. a \in views[i].ptr .. views[i].ptr + views[i].size - 1
  BY DEF Targets
<1>4. PlaceOf(views[i], a) \in views[i].at .. views[i].at + views[i].size - 1
  BY <1>2, <1>3 DEF PlaceOf
<1> QED
  BY <1>1, <1>2, <1>4 DEF Places, Place, End

(* Pieces of different views have no place in common.                       *)
LEMMA PiecesApart ==
  ASSUME TypeOK, Laid
  PROVE  ViewsApart
<1>1. ASSUME NEW i \in DOMAIN views PROVE Places(views[i]) \subseteq Place
  <2>1. End(views[i]) <= FrameSize
    BY DEF Laid
  <2> QED
    BY <2>1, ViewTypes, Constants DEF Places, Place, End
<1>2. ASSUME NEW i \in DOMAIN views, NEW j \in DOMAIN views, i < j
      PROVE  Places(views[i]) \cap Places(views[j]) = {}
  <2>1. End(views[i]) <= views[j].at
    BY <1>2 DEF Laid
  <2>2. /\ views[i].at \in Nat /\ views[i].size \in Nat
        /\ views[j].at \in Nat /\ views[j].size \in Nat
    BY ViewTypes
  <2> QED
    BY <2>1, <2>2 DEF Places, End
<1>3. ASSUME NEW i \in DOMAIN views, NEW j \in DOMAIN views, i # j
      PROVE  Places(views[i]) \cap Places(views[j]) = {}
  <2>1. i < j \/ j < i
    BY <1>3, ViewTypes
  <2> QED
    BY <1>2, <2>1
<1> QED
  BY <1>1, <1>3 DEF ViewsApart

(* The frame is empty when a call begins.                                   *)
LEMMA GuestCallsStep ==
  ASSUME Sound, GuestCalls
  PROVE  Sound'
<1>1. /\ status = "guest" /\ status' = "entering" /\ todo' \in Wrapped
      /\ UNCHANGED <<guest, frame, tmp_offset, views, live, direct>>
  BY DEF GuestCalls
<1>2. tmp_offset = 0 /\ views = <<>> /\ live = {}
  BY <1>1 DEF Sound, Laid
<1>3. todo' \in Seq(Requests) /\ Guarded(todo')
  BY <1>1, WrappedFine DEF Fine
<1>4. TypeOK'
  BY <1>1, <1>3 DEF Sound, TypeOK, Requests
<1>5. DOMAIN views = {}
  BY <1>2
<1>6. Laid'
  BY <1>1, <1>2, <1>3, <1>5, Constants DEF Laid, InCall, Guarded
<1>7. Aimed' /\ Fresh' /\ Copied' /\ Arrived'
  BY <1>1, <1>5 DEF Aimed, Fresh, Copied, Arrived
<1> QED
  BY <1>4, <1>6, <1>7 DEF Sound

(* A wrapper that throws leaves everything behind.                          *)
LEMMA ThrowStep ==
  ASSUME Sound, status = "entering", NEW what \in {"REQUIRE", "RangeError", "length_error"},
         Throw(what), tmp_offset' \in 0 .. Word - 1
  PROVE  Sound'
<1>1. status' = what /\ UNCHANGED <<guest, frame, todo, views, live, direct>>
  BY DEF Throw
<1>2. TypeOK'
  BY <1>1 DEF Sound, TypeOK, Beyond
<1>3. Laid'
  BY <1>1 DEF Sound, Laid, InCall, End
<1>4. Aimed' /\ Fresh' /\ Copied' /\ Arrived'
  BY <1>1 DEF Sound, Aimed, Fresh, Copied, Arrived
<1> QED
  BY <1>2, <1>3, <1>4 DEF Sound

(* A piece that is granted begins at the offset and ends within the frame:  *)
(* the offset has not come around.                                          *)
LEMMA Granted ==
  ASSUME Sound, status = "entering", todo # <<>>, alloc(Head(todo).size).ok,
         Head(todo).kind = "room" \/ InRange(Head(todo).ptr, Head(todo).size)
  PROVE  /\ alloc(Head(todo).size).next = tmp_offset + Head(todo).size
         /\ alloc(Head(todo).size).at = tmp_offset
         /\ tmp_offset + Head(todo).size <= FrameSize
<1> PICK size : size = Head(todo).size
  OBVIOUS
<1>1. /\ todo \in Seq(Requests) /\ Guarded(todo) /\ tmp_offset <= FrameSize
      /\ tmp_offset \in 0 .. Word - 1
  BY DEF Sound, TypeOK, Requests, Laid, InCall
<1>2. /\ Head(todo) \in Requests /\ Head(todo) = todo[1] /\ 1 \in DOMAIN todo
  BY <1>1
<1>3. size \in Nat /\ tmp_offset \in Nat
  BY <1>1, <1>2, Constants DEF Requests
<1>4. CASE Head(todo).kind = "room"
  <2>1. Fits(todo[1])
    BY <1>1, <1>2, <1>4 DEF Guarded
  <2>2. tmp_offset + size < Word
    BY <1>1, <1>2, <1>3, <2>1, Constants DEF Fits
  <2>3. tmp_offset + size \in Nat /\ (tmp_offset + size) % Word = tmp_offset + size
    BY <1>3, <2>2, Words
  <2>4. (tmp_offset + size) % Word <= FrameSize
    BY DEF alloc
  <2> QED
    BY <2>3, <2>4 DEF alloc
<1>5. CASE InRange(Head(todo).ptr, Head(todo).size)
  <2>1. tmp_offset + size < Word
    BY <1>1, <1>3, <1>5, Constants DEF InRange
  <2>2. tmp_offset + size \in Nat /\ (tmp_offset + size) % Word = tmp_offset + size
    BY <1>3, <2>1, Words
  <2>3. (tmp_offset + size) % Word <= FrameSize
    BY DEF alloc
  <2> QED
    BY <2>2, <2>3 DEF alloc
<1> QED
  BY <1>4, <1>5

(* What is left to ask for is still guarded when the first piece of it is   *)
(* granted: if it was a path, its size is now known to be that of a piece.  *)
LEMMA TailGuarded ==
  ASSUME todo \in Seq(Requests), todo # <<>>, Guarded(todo), Head(todo).size <= FrameSize
  PROVE  Tail(todo) \in Seq(Requests) /\ Guarded(Tail(todo))
<1> DEFINE rest == Tail(todo)
<1>1. /\ rest \in Seq(Requests) /\ Len(rest) = Len(todo) - 1 /\ Len(todo) \in Nat
      /\ Head(todo) = todo[1] /\ Head(todo) \in Requests
      /\ \A i \in 1 .. Len(rest) : rest[i] = todo[i + 1]
  BY HeadTailProperties, LenProperties
<1>2. DOMAIN rest = 1 .. Len(todo) - 1 /\ DOMAIN todo = 1 .. Len(todo)
  BY <1>1, LenProperties
<1> HIDE DEF rest
<1>3. ASSUME NEW k \in DOMAIN rest, rest[k].kind = "room"
      PROVE  Fits(rest[k]) \/ \E j \in 1 .. k - 1 : For(rest[k], rest[j])
  <2>1. k + 1 \in DOMAIN todo /\ rest[k] = todo[k + 1] /\ k \in Nat
    BY <1>1, <1>2
  <2>2. CASE Fits(todo[k + 1])
    BY <2>1, <2>2
  <2>3. CASE \E j \in 1 .. k : For(todo[k + 1], todo[j])
    <3>1. PICK j \in 1 .. k : For(todo[k + 1], todo[j])
      BY <2>3
    <3>2. CASE j = 1
      <4>1. PICK d \in DirLen : todo[k + 1].size = (d + todo[1].size + 2) % Word
        BY <3>1, <3>2 DEF For
      <4>2. todo[1].size \in Nat /\ todo[1].size <= FrameSize
        BY <1>1 DEF Requests
      <4>3. d + todo[1].size + 2 \in Nat /\ d + todo[1].size + 2 + FrameSize < Word
        <5>1. d \in Nat /\ d + 2 * FrameSize + 2 < Word /\ FrameSize \in Nat /\ Word \in Nat
          BY Arguments, Constants
        <5> DEFINE size == todo[1].size
        <5>2. size \in Nat /\ size <= FrameSize
          BY <4>2
        <5> HIDE DEF size
        <5>3. d + size + 2 \in Nat /\ d + size + 2 + FrameSize < Word
          BY <5>1, <5>2
        <5> QED
          BY <5>3 DEF size
      <4>4. (d + todo[1].size + 2) % Word = d + todo[1].size + 2
        <5> DEFINE n == d + todo[1].size + 2
        <5>1. n \in Nat /\ n < Word
          BY <4>3, Constants
        <5> HIDE DEF n
        <5>2. n % Word = n
          BY <5>1, Words
        <5> QED
          BY <5>2 DEF n
      <4> QED
        BY <2>1, <4>1, <4>3, <4>4 DEF Fits
    <3>3. CASE j # 1
      <4>1. j - 1 \in 1 .. k - 1 /\ rest[j - 1] = todo[j]
        BY <1>1, <1>2, <2>1, <3>1, <3>3
      <4> QED
        BY <2>1, <3>1, <4>1
    <3> QED
      BY <3>2, <3>3
  <2> QED
    BY <1>3, <2>1, <2>2, <2>3 DEF Guarded
<1> QED
  BY <1>1, <1>3 DEF Guarded, rest

(* A piece is granted: it lies after the others.                            *)
LEMMA GrantedStep ==
  ASSUME Sound, status = "entering", todo # <<>>,
         NEW request, request = Head(todo), request.kind \notin Beyond,
         alloc(request.size).ok, request.kind = "room" \/ InRange(request.ptr, request.size),
         tmp_offset' = alloc(request.size).next,
         frame' = CopyIn(tmp_offset, request), todo' = Tail(todo),
         views' = Append(views, [kind |-> request.kind, at |-> tmp_offset,
                                 ptr |-> request.ptr, size |-> request.size]),
         live' = live \cup {Len(views) + 1},
         UNCHANGED <<guest, status, direct>>
  PROVE  Sound'
<1> PICK view, at : /\ view = [kind |-> request.kind, at |-> tmp_offset,
                              ptr |-> request.ptr, size |-> request.size]
                    /\ at = tmp_offset
  OBVIOUS
<1>1. /\ at \in Nat /\ tmp_offset' = at + request.size /\ at + request.size <= FrameSize
      /\ request \in Requests /\ request.size \in Nat /\ request.ptr \in Nat
      /\ todo \in Seq(Requests) /\ Guarded(todo) /\ live = DOMAIN views
  <2>1. /\ todo \in Seq(Requests) /\ Guarded(todo) /\ live = DOMAIN views
        /\ tmp_offset \in Nat
    BY Constants DEF Sound, TypeOK, Requests, Laid
  <2>2. request \in Requests
    BY <2>1, HeadTailProperties
  <2>3. request.size \in Nat /\ request.ptr \in Nat
    BY <2>2, Constants DEF Requests
  <2> QED
    BY <2>1, <2>2, <2>3, Granted
<1> DEFINE ptr == request.ptr
           size == request.size
<1>n. at \in Nat /\ ptr \in Nat /\ size \in Nat /\ at + size <= FrameSize
  BY <1>1
<1>2. view \in View /\ at < Word
  <2>1. at < Word /\ FrameSize \in Nat /\ Word \in Nat
    BY <1>1, Constants
  <2>2. request.kind \in Kind /\ request.ptr \in 0 .. Word - 1 /\ at \in 0 .. Word - 1
    <3>1. request.kind \in Kind \cup Beyond /\ request.ptr \in 0 .. Word - 1
      BY <1>1 DEF Requests
    <3>2. request.kind \in Kind
      BY <3>1
    <3>3. at \in 0 .. Word - 1
      BY <1>n, <2>1
    <3> QED
      BY <3>1, <3>2, <3>3
  <2> QED
    BY <1>1, <2>1, <2>2 DEF View
<1>3. views \in Seq(View) /\ Len(views) \in Nat /\ DOMAIN views = 1 .. Len(views)
  BY LenProperties DEF Sound, TypeOK, View
<1>4. /\ views' \in Seq(View) /\ DOMAIN views' = 1 .. Len(views) + 1
      /\ views'[Len(views) + 1] = view
      /\ \A i \in DOMAIN views : views'[i] = views[i]
  <2>1. views' \in Seq(View) /\ Len(views') = Len(views) + 1
    BY <1>2, <1>3
  <2>2. DOMAIN views' = 1 .. Len(views) + 1
    BY <2>1, LenProperties
  <2>3. views'[Len(views) + 1] = view /\ \A i \in DOMAIN views : views'[i] = views[i]
    BY <1>2, <1>3
  <2> QED
    BY <2>1, <2>2, <2>3
<1>5. ASSUME request.kind # "room"
      PROVE  Targets(view) \subseteq Address /\ Targets(view) = request.ptr .. request.ptr + request.size - 1
  <2>1. Targets(view) = request.ptr .. request.ptr + request.size - 1
    BY DEF Targets
  <2>2. request.ptr + request.size <= MemSize /\ MemSize \in Nat
    BY <1>5, Constants DEF InRange
  <2>3. ptr + size <= MemSize /\ MemSize \in Nat
    BY <2>2
  <2> HIDE DEF ptr, size
  <2>4. ptr .. ptr + size - 1 \subseteq 0 .. MemSize - 1
    BY <1>n, <2>3
  <2> QED
    BY <2>1, <2>4 DEF Address, ptr, size
<1>6. /\ frame' \in [Place -> Byte]
      /\ \A p \in Place : p < at => frame'[p] = frame[p]
      /\ request.kind # "room" => \A p \in at .. at + request.size - 1 :
           frame'[p] = guest[request.ptr + p - at]
  <2>1. CASE request.kind = "room"
    BY <2>1 DEF CopyIn, Sound, TypeOK
  <2>2. CASE request.kind # "room"
    <3>1. frame' = [o \in Place |-> IF o \in at .. at + request.size - 1
                                    THEN guest[request.ptr + o - at] ELSE frame[o]]
      BY <2>2 DEF CopyIn
    <3>2. \A o \in at .. at + request.size - 1 : o \in Place /\ request.ptr + o - at \in Address
      <4>1. request.ptr + request.size <= MemSize /\ MemSize \in Nat /\ FrameSize \in Nat
        BY <2>2, Constants DEF InRange
      <4> SUFFICES ASSUME NEW o \in at .. at + size - 1
                   PROVE  o \in 0 .. FrameSize - 1 /\ ptr + o - at \in 0 .. MemSize - 1
        BY DEF Place, Address
      <4> HIDE DEF ptr, size
      <4>2. ptr + size <= MemSize
        BY <4>1 DEF ptr, size
      <4> QED
        BY <1>n, <4>1, <4>2
    <3>3. \A o \in at .. at + request.size - 1 : guest[request.ptr + o - at] \in Byte
      BY <3>2 DEF Sound, TypeOK
    <3>4. frame' \in [Place -> Byte]
      BY <3>1, <3>3 DEF Sound, TypeOK
    <3>5. \A p \in Place : p < at => p \notin at .. at + request.size - 1
      BY <1>1 DEF Place
    <3> QED
      BY <2>2, <3>1, <3>2, <3>4, <3>5
  <2> QED
    BY <2>1, <2>2
<1>7. Tail(todo) \in Seq(Requests) /\ Guarded(Tail(todo))
  <2>1. request.size <= FrameSize
    BY <1>1, Constants
  <2> QED
    BY <1>1, <2>1, TailGuarded
<1>8. TypeOK'
  <2>1. tmp_offset' \in 0 .. Word - 1
    BY <1>1, Constants
  <2>2. live' \subseteq DOMAIN views'
    BY <1>1, <1>3, <1>4
  <2> QED
    BY <1>4, <1>6, <1>7, <2>1, <2>2 DEF Sound, TypeOK, View, Requests
<1>9. ASSUME NEW i \in DOMAIN views PROVE End(views[i]) <= at
  BY DEF Sound, Laid, InCall
<1>10. Laid'
  <2>1. End(view) = at + request.size /\ view.at = at
    BY DEF End
  <2>2. \A i \in DOMAIN views' : End(views'[i]) <= FrameSize /\ End(views'[i]) <= at + request.size
    <3> SUFFICES ASSUME NEW i \in DOMAIN views'
                 PROVE  End(views'[i]) <= FrameSize /\ End(views'[i]) <= at + request.size
      OBVIOUS
    <3>1. CASE i \in DOMAIN views
      <4>1. views[i].at \in Nat /\ views[i].size \in Nat
        BY <3>1, ViewTypes DEF Sound
      <4>2. End(views[i]) <= at /\ End(views[i]) \in Nat
        BY <1>9, <3>1, <4>1 DEF End
      <4> QED
        BY <1>1, <1>4, <3>1, <4>2, Constants
    <3>2. CASE i = Len(views) + 1
      BY <1>1, <1>4, <2>1, <3>2
    <3> QED
      BY <1>3, <1>4, <3>1, <3>2
  <2>3. \A i, j \in DOMAIN views' : i < j => End(views'[i]) <= views'[j].at
    <3> SUFFICES ASSUME NEW i \in DOMAIN views', NEW j \in DOMAIN views', i < j
                 PROVE  End(views'[i]) <= views'[j].at
      OBVIOUS
    <3>1. i \in DOMAIN views /\ (j \in DOMAIN views \/ j = Len(views) + 1)
      BY <1>3, <1>4
    <3>2. CASE j \in DOMAIN views
      BY <1>4, <3>1, <3>2 DEF Sound, Laid
    <3>3. CASE j = Len(views) + 1
      BY <1>4, <1>9, <2>1, <3>1, <3>3
    <3> QED
      BY <3>1, <3>2, <3>3
  <2>4. live' = DOMAIN views'
    BY <1>1, <1>3, <1>4
  <2> QED
    <3>1. status' = "entering" /\ tmp_offset' = at + request.size /\ todo' = Tail(todo)
      BY <1>1
    <3>2. Guarded(todo')
      BY <1>7, <3>1
    <3>3. (status = "entering" => Guarded(todo) /\ live = DOMAIN views)'
      BY <2>4, <3>2 DEF Guarded
    <3>4. (\A i \in DOMAIN views : End(views[i]) <= FrameSize)'
      BY <2>2 DEF End
    <3>5. (\A i, j \in DOMAIN views : i < j => End(views[i]) <= views[j].at)'
      BY <2>3 DEF End
    <3>6. tmp_offset' <= FrameSize /\ (\A i \in DOMAIN views : End(views[i]) <= tmp_offset)'
      BY <1>1, <2>2, <3>1 DEF End
    <3>7. status' # "guest"
      BY <3>1
    <3> QED
      BY <3>3, <3>4, <3>5, <3>6, <3>7 DEF Laid
<1>11. Aimed'
  <2> SUFFICES ASSUME NEW i \in DOMAIN views', views'[i].kind # "room"
               PROVE  Targets(views'[i]) \subseteq Address
    BY DEF Aimed, Targets
  <2>1. CASE i \in DOMAIN views
    BY <1>4, <2>1 DEF Sound, Aimed
  <2>2. CASE i = Len(views) + 1
    BY <1>4, <1>5, <2>2
  <2> QED
    BY <1>3, <1>4, <2>1, <2>2
<1>12. Fresh'
  <2> SUFFICES ASSUME NEW i \in DOMAIN views', views'[i].kind # "room", NEW a \in Targets(views'[i])
               PROVE  frame'[PlaceOf(views'[i], a)] = guest[a]
    BY DEF Fresh, Targets, PlaceOf
  <2>1. CASE i \in DOMAIN views
    <3>1. views'[i] = views[i] /\ a \in Targets(views[i]) /\ views[i].kind # "room"
      BY <1>4, <2>1
    <3>2. /\ PlaceOf(views[i], a) \in Place /\ PlaceOf(views[i], a) \in Places(views[i])
          /\ views[i].at \in Nat /\ views[i].size \in Nat
      BY <2>1, <3>1, PlaceOfView, ViewTypes DEF Sound
    <3>3. PlaceOf(views[i], a) < at
      BY <1>1, <1>9, <2>1, <3>2 DEF Places, End
    <3>4. frame[PlaceOf(views[i], a)] = guest[a]
      BY <2>1, <3>1 DEF Sound, Fresh
    <3> QED
      BY <1>6, <3>1, <3>2, <3>3, <3>4
  <2>2. CASE i = Len(views) + 1
    <3>1. views'[i] = view /\ a \in request.ptr .. request.ptr + request.size - 1
          /\ request.kind # "room"
      <4>1. views'[i] = view
        BY <1>4, <2>2
      <4>2. request.kind # "room"
        BY <4>1
      <4> QED
        BY <1>5, <4>1, <4>2
    <3>2. PlaceOf(view, a) = at + a - request.ptr
      BY DEF PlaceOf
    <3>3. /\ at + a - request.ptr \in at .. at + request.size - 1
          /\ request.ptr + (at + a - request.ptr) - at = a
      <4>1. a \in Int /\ request.ptr <= a /\ a <= request.ptr + request.size - 1
        BY <1>1, <3>1
      <4> HIDE DEF ptr, size
      <4>2. ptr <= a /\ a <= ptr + size - 1
        BY <4>1 DEF ptr, size
      <4>3. at + a - ptr \in at .. at + size - 1 /\ ptr + (at + a - ptr) - at = a
        BY <1>n, <4>1, <4>2
      <4> QED
        BY <4>3 DEF ptr, size
    <3> QED
      BY <1>6, <3>1, <3>2, <3>3
  <2> QED
    BY <1>3, <1>4, <2>1, <2>2
<1>13. Copied' /\ Arrived'
  BY DEF Copied, Arrived
<1> QED
  BY <1>8, <1>10, <1>11, <1>12, <1>13 DEF Sound

(* A request is granted, or refused.                                        *)
LEMMA EnterStep ==
  ASSUME Sound, Enter
  PROVE  Sound'
<1> PICK request, piece : request = Head(todo) /\ piece = alloc(request.size)
  OBVIOUS
<1>1. /\ status = "entering" /\ todo # <<>> /\ request.kind \notin Beyond
      /\ tmp_offset' = piece.next
  BY DEF Enter
<1>2. piece.next \in 0 .. Word - 1
  <2>1. todo \in Seq(Requests) /\ tmp_offset \in 0 .. Word - 1
    BY DEF Sound, TypeOK, Requests
  <2>2. request \in Requests
    BY <1>1, <2>1, HeadTailProperties
  <2>3. tmp_offset + request.size \in Nat
    BY <2>1, <2>2, Constants DEF Requests
  <2> QED
    BY <2>3, Words DEF alloc
<1>3. CASE Throw("REQUIRE") \/ Throw("RangeError")
  BY <1>1, <1>2, <1>3, ThrowStep
<1>4. CASE /\ piece.ok /\ (request.kind = "room" \/ InRange(request.ptr, request.size))
           /\ frame' = CopyIn(piece.at, request)
           /\ todo' = Tail(todo)
           /\ views' = Append(views, [kind |-> request.kind, at |-> piece.at,
                                      ptr |-> request.ptr, size |-> request.size])
           /\ live' = live \cup {Len(views) + 1}
           /\ UNCHANGED <<guest, status, direct>>
  <2>1. piece.at = tmp_offset
    BY DEF alloc
  <2> QED
    BY <1>1, <1>4, <2>1, GrantedStep
<1> QED
  BY <1>3, <1>4 DEF Enter

(* A vector that is longer than its bytes: the guest is ended, or only the  *)
(* types are left to say anything of.                                       *)
LEMMA GoBeyondStep ==
  ASSUME Sound, GoBeyond
  PROVE  IInv'
<1> PICK request : request = Head(todo)
  OBVIOUS
<1>1. /\ status = "entering" /\ todo # <<>> /\ request.kind \in Beyond /\ status' = request.kind
      /\ views' = IF request.kind = "overrun"
                  THEN [views EXCEPT ![Len(views)].size = request.size] ELSE views
      /\ UNCHANGED <<guest, frame, tmp_offset, todo, live, direct>>
  BY DEF GoBeyond
<1>2. CASE request.kind = "length_error"
  <2>1. tmp_offset' \in 0 .. Word - 1 /\ Throw("length_error")
    BY <1>1, <1>2 DEF Throw, Sound, TypeOK
  <2>2. Sound'
    BY <1>1, <2>1, ThrowStep
  <2> QED
    BY <2>2 DEF IInv, Sound
<1>3. CASE request.kind = "overrun"
  <2>1. request.size \in Nat
    <3>1. todo \in Seq(Requests)
      BY DEF Sound, TypeOK, Requests
    <3>2. request \in Requests
      BY <1>1, <3>1, HeadTailProperties
    <3> QED
      BY <3>2 DEF Requests
  <2>2. views \in Seq(View) /\ Len(views) \in Nat /\ DOMAIN views = 1 .. Len(views)
    BY LenProperties DEF Sound, TypeOK, View
  <2>3. views' \in Seq(View) /\ DOMAIN views' = DOMAIN views
    <3>1. views' = [i \in 1 .. Len(views) |->
                      IF i = Len(views) THEN [views[i] EXCEPT !.size = request.size] ELSE views[i]]
      BY <1>1, <1>3, <2>2
    <3>2. ASSUME NEW i \in 1 .. Len(views)
          PROVE  views[i] \in View /\ [views[i] EXCEPT !.size = request.size] \in View
      <4>1. views[i] \in View
        BY <2>2, <3>2, ElementOfSeq
      <4> QED
        BY <2>1, <4>1 DEF View
    <3> QED
      BY <2>2, <3>1, <3>2
  <2>4. TypeOK'
    BY <1>1, <2>3 DEF Sound, TypeOK, View
  <2> QED
    BY <1>1, <1>3, <2>4 DEF IInv
<1> QED
  BY <1>1, <1>2, <1>3 DEF Beyond

(* The method works on the pieces.                                          *)
LEMMA MethodStep ==
  ASSUME Sound, Method
  PROVE  Sound'
<1>1. PICK byte \in Byte, written \in SUBSET MutablePlaces :
        /\ frame' = [o \in Place |-> IF o \in written THEN byte ELSE frame[o]]
        /\ direct' = Written(byte, written)
  BY DEF Method
<1>2. /\ status = "entering" /\ status' = "leaving"
      /\ UNCHANGED <<guest, tmp_offset, todo, views, live>>
  BY DEF Method
<1>3. live = DOMAIN views
  BY <1>2 DEF Sound, Laid
<1>4. TypeOK'
  <2>1. frame' \in [Place -> Byte]
    BY <1>1 DEF Sound, TypeOK
  <2>2. direct' \in [Address -> Byte]
    BY <1>1 DEF Sound, TypeOK, Written
  <2> QED
    BY <1>2, <2>1, <2>2 DEF Sound, TypeOK
<1>5. Laid' /\ Aimed' /\ Fresh' /\ Arrived'
  <2>1. Laid'
    BY <1>2 DEF Sound, Laid, InCall, End
  <2>2. Aimed' /\ Fresh'
    BY <1>2 DEF Sound, Aimed, Fresh, Targets
  <2>3. Arrived'
    BY <1>2, <1>3 DEF Arrived, Results, OfKind
  <2> QED
    BY <2>1, <2>2, <2>3
<1>6. ASSUME \A i, j \in Muts : Apart(i, j), NEW i \in Muts, NEW a \in Targets(views[i])
      PROVE  direct'[a] = frame'[PlaceOf(views[i], a)]
  <2> DEFINE p == PlaceOf(views[i], a)
  <2>1. /\ i \in DOMAIN views /\ Mutable(views[i]) /\ views[i].kind # "room"
    BY DEF Muts, OfKind, Mutable
  <2>2. a \in Address /\ p \in Place
    BY <2>1, PlaceOfView DEF Sound, Aimed
  <2>3. frame[p] = guest[a]
    BY <1>2, <2>1 DEF Sound, Fresh
  <2>4. direct'[a] = IF \E j \in DOMAIN views : /\ Mutable(views[j]) /\ a \in Targets(views[j])
                                                /\ PlaceOf(views[j], a) \in written
                     THEN byte ELSE guest[a]
    BY <1>1, <2>2 DEF Written, PlaceOf
  <2>5. \A j \in DOMAIN views : Mutable(views[j]) /\ a \in Targets(views[j]) => j = i
    BY <1>6 DEF Muts, OfKind, Mutable, Apart
  <2>6. frame'[p] = IF p \in written THEN byte ELSE frame[p]
    BY <1>1, <2>2
  <2> HIDE DEF p
  <2>7. (\E j \in DOMAIN views : /\ Mutable(views[j]) /\ a \in Targets(views[j])
                                 /\ PlaceOf(views[j], a) \in written) <=> p \in written
    BY <2>1, <2>5 DEF p
  <2> QED
    BY <2>3, <2>4, <2>6, <2>7 DEF p
<1>7. ASSUME NEW a \in Address, \A i \in Muts : a \notin Targets(views[i])
      PROVE  direct'[a] = guest[a]
  BY <1>1, <1>7 DEF Written, Muts, OfKind, Mutable
<1>8. Copied'
  <2> SUFFICES ASSUME \A i, j \in Muts : Apart(i, j)
               PROVE  /\ \A i \in Muts : \A a \in Targets(views[i]) :
                           direct'[a] = frame'[PlaceOf(views[i], a)]
                      /\ \A a \in Address :
                           (\A i \in live \cap Muts : a \notin Targets(views[i])) => guest[a] = direct'[a]
    BY <1>2 DEF Copied, Muts, OfKind, Apart, Targets, PlaceOf
  <2>1. live \cap Muts = Muts
    BY <1>3 DEF Muts, OfKind
  <2> QED
    BY <1>6, <1>7, <2>1
<1> QED
  BY <1>4, <1>5, <1>8 DEF Sound

(* A view is copied out.                                                    *)
LEMMA LeaveStep ==
  ASSUME Sound, Leave
  PROVE  Sound'
<1>1. PICK i \in live : /\ Destroyed(i) /\ live' = live \ {i}
                        /\ guest' = IF Mutable(views[i]) THEN CopyOut(views[i]) ELSE guest
  BY DEF Leave
<1>2. /\ status = "leaving" /\ i \in DOMAIN views /\ live \subseteq DOMAIN views
      /\ UNCHANGED <<frame, tmp_offset, todo, views, status, direct>>
  BY DEF Leave, Sound, TypeOK
<1>3. ASSUME NEW a \in Targets(views[i]) PROVE PlaceOf(views[i], a) \in Place
  BY <1>2, PlaceOfView DEF Sound
<1>4. \A a \in Address : guest'[a] = IF i \in Muts /\ a \in Targets(views[i])
                                     THEN frame[PlaceOf(views[i], a)] ELSE guest[a]
  BY <1>1, <1>2 DEF CopyOut, Mutable, Muts, OfKind, PlaceOf
<1>5. TypeOK'
  <2>1. \A a \in Targets(views[i]) : frame[views[i].at + a - views[i].ptr] \in Byte
    BY <1>3 DEF Sound, TypeOK, PlaceOf
  <2>2. guest' \in [Address -> Byte]
    BY <1>1, <2>1 DEF Sound, TypeOK, CopyOut
  <2> QED
    BY <1>1, <1>2, <2>2 DEF Sound, TypeOK
<1>6. Laid'
  BY <1>2 DEF Sound, Laid, InCall, End
<1>7. Aimed' /\ Fresh'
  BY <1>2 DEF Sound, Aimed, Fresh, Targets
<1>8. Copied'
  <2> SUFFICES ASSUME \A j, k \in Muts : Apart(j, k)
               PROVE  /\ \A j \in Muts : \A a \in Targets(views[j]) :
                           direct[a] = frame[PlaceOf(views[j], a)]
                      /\ \A a \in Address :
                           (\A j \in live' \cap Muts : a \notin Targets(views[j])) => guest'[a] = direct[a]
    BY <1>2 DEF Copied, Muts, OfKind, Apart, Targets, PlaceOf
  <2>1. /\ \A j \in Muts : \A a \in Targets(views[j]) : direct[a] = frame[PlaceOf(views[j], a)]
        /\ \A a \in Address :
             (\A j \in live \cap Muts : a \notin Targets(views[j])) => guest[a] = direct[a]
    BY <1>2 DEF Sound, Copied
  <2>2. ASSUME NEW a \in Address, \A j \in live' \cap Muts : a \notin Targets(views[j])
        PROVE  guest'[a] = direct[a]
    <3>1. CASE i \in Muts /\ a \in Targets(views[i])
      BY <1>4, <2>1, <3>1
    <3>2. CASE ~(i \in Muts /\ a \in Targets(views[i]))
      <4>1. \A j \in live \cap Muts : a \notin Targets(views[j])
        BY <1>1, <2>2, <3>2
      <4> QED
        BY <1>4, <2>1, <3>2, <4>1
    <3> QED
      BY <3>1, <3>2
  <2> QED
    BY <2>1, <2>2
<1>9. Arrived'
  <2> SUFFICES ASSUME \A j, k \in Results : Apart(j, k), NEW r \in Results \ live'
               PROVE  /\ \A j \in live' : views[j].kind # "buffer"
                      /\ \A a \in Targets(views[r]) : guest'[a] = frame[PlaceOf(views[r], a)]
    BY <1>2 DEF Arrived, Results, OfKind, Apart, Targets, PlaceOf
  <2>1. r \in DOMAIN views /\ views[r].kind = "result" /\ Targets(views[r]) \subseteq Address /\ r \in Muts
    BY DEF Results, Muts, OfKind, Sound, Aimed
  <2>2. CASE r = i
    <3>1. \A j \in live : views[j].kind # "buffer"
      BY <1>1, <2>1, <2>2 DEF Destroyed
    <3> QED
      BY <1>1, <1>4, <2>1, <2>2, <3>1
  <2>3. CASE r # i
    <3>1. r \in Results \ live
      BY <1>1, <2>3
    <3>2. /\ \A j \in live : views[j].kind # "buffer"
          /\ \A a \in Targets(views[r]) : guest[a] = frame[PlaceOf(views[r], a)]
      BY <1>2, <3>1 DEF Sound, Arrived
    <3>3. \A a \in Targets(views[r]) : ~(i \in Muts /\ a \in Targets(views[i]))
      <4>1. i \in Muts => i \in Results
        BY <1>2, <3>2 DEF Muts, Results, OfKind
      <4> QED
        BY <2>3, <4>1 DEF Apart
    <3> QED
      BY <1>1, <1>4, <2>1, <3>2, <3>3
  <2> QED
    BY <2>2, <2>3
<1> QED
  BY <1>5, <1>6, <1>7, <1>8, <1>9 DEF Sound

(* The call is over.                                                        *)
LEMMA ReturnStep ==
  ASSUME Sound, Return
  PROVE  Sound'
<1>1. /\ live = {} /\ status' = "guest" /\ tmp_offset' = 0 /\ views' = <<>>
      /\ UNCHANGED <<guest, todo, live, direct>>
      /\ \E garbage \in Byte : frame' = [o \in Place |-> garbage]
  BY DEF Return, Left, Garbage
<1>2. DOMAIN views' = {}
  BY <1>1
<1>3. TypeOK'
  BY <1>1, <1>2, Constants DEF Sound, TypeOK
<1>4. Laid' /\ Aimed' /\ Fresh' /\ Copied' /\ Arrived'
  BY <1>1, <1>2 DEF Laid, InCall, Aimed, Fresh, Copied, Arrived
<1> QED
  BY <1>3, <1>4 DEF Sound

-----------------------------------------------------------------------------
(* The invariant, and what it implies.                                      *)

(* No call is under way at first.                                           *)
LEMMA IInvInit == Init => IInv
<1> SUFFICES ASSUME Init PROVE IInv
  OBVIOUS
<1>1. /\ status = "guest" /\ views = <<>> /\ live = {} /\ tmp_offset = 0 /\ todo = <<>>
      /\ guest \in [Address -> Byte] /\ direct = guest
      /\ \E garbage \in Byte : frame = [o \in Place |-> garbage]
  BY DEF Init
<1>2. DOMAIN views = {}
  BY <1>1
<1>3. TypeOK
  BY <1>1, <1>2, Constants DEF TypeOK
<1>4. Laid /\ Aimed /\ Fresh /\ Copied /\ Arrived
  BY <1>1, <1>2 DEF Laid, InCall, Aimed, Fresh, Copied, Arrived
<1> QED
  BY <1>3, <1>4 DEF IInv, Sound

(* Every step preserves the invariant.                                      *)
LEMMA IInvStep == IInv /\ [Next]_vars => IInv'
<1> SUFFICES ASSUME IInv, [Next]_vars PROVE IInv'
  OBVIOUS
<1>1. CASE UNCHANGED vars
  <2>1. UNCHANGED <<guest, frame, tmp_offset, todo, views, live, status, direct>>
    BY <1>1 DEF vars
  <2>2. TypeOK'
    BY <2>1 DEF IInv, TypeOK
  <2>3. Sound => Laid' /\ Aimed' /\ Fresh'
    BY <2>1 DEF Sound, Laid, InCall, Aimed, Fresh
  <2>4. Sound => Copied' /\ Arrived'
    BY <2>1 DEF Sound, Copied, Arrived, Muts, Results, OfKind, Apart
  <2> QED
    BY <2>1, <2>2, <2>3, <2>4 DEF IInv, Sound
<1>2. CASE Next
  <2>1. status \in {"guest", "entering", "leaving"}
    BY <1>2 DEF Next, GuestCalls, Enter, GoBeyond, Method, Leave, Return, Left
  <2>2. Sound
    BY <2>1 DEF IInv
  <2>3. Sound' \/ GoBeyond
    BY <1>2, <2>2, GuestCallsStep, EnterStep, MethodStep, LeaveStep, ReturnStep DEF Next
  <2>4. GoBeyond => IInv'
    BY <2>2, GoBeyondStep
  <2> QED
    BY <2>3, <2>4 DEF IInv, Sound
<1> QED
  BY <1>1, <1>2

(* With no view left, memory is what the method made of it.                 *)
LEMMA IInvTransparent == IInv => Transparent
<1> SUFFICES ASSUME IInv, Left, \A i, j \in Muts : Apart(i, j) PROVE guest = direct
  BY DEF Transparent, Muts
<1>1. status = "leaving" /\ live = {}
  BY DEF Left
<1>2. \A a \in Address : guest[a] = direct[a]
  BY <1>1 DEF IInv, Sound, Copied
<1> QED
  BY <1>2 DEF IInv, TypeOK

(* With no view left, all results have arrived.                             *)
LEMMA IInvResults == IInv => ResultsArrive
<1> SUFFICES ASSUME IInv, Left, \A i, j \in Results : Apart(i, j),
                    NEW i \in Results, NEW a \in Targets(views[i])
             PROVE  guest[a] = frame[views[i].at + a - views[i].ptr]
  BY DEF ResultsArrive, Results
<1>1. status = "leaving" /\ i \in Results \ live
  BY DEF Left
<1> QED
  BY <1>1 DEF IInv, Sound, Arrived, PlaceOf

(* Types, pieces and copies, at every step of every call.                   *)
THEOREM Invariance == Spec => []IInv
BY IInvInit, IInvStep, PTL DEF Spec

(* Type correctness.                                                        *)
THEOREM ThmTypeOK == Spec => []TypeOK
<1>1. IInv => TypeOK
  BY DEF IInv
<1> QED
  BY <1>1, Invariance, PTL

(* CallFrame::alloc grants pieces that lie in the frame and apart, although *)
(* it adds before it checks and the sum is one of 32 bits; of the spans     *)
(* over them only that of a vector to write from can be longer than its     *)
(* piece (alloc_uninitialized).                                             *)
THEOREM ThmViewsApart == Spec => []ViewsApart
<1>1. IInv => ViewsApart
  BY PiecesApart DEF IInv, Sound, ViewsApart
<1> QED
  BY <1>1, Invariance, PTL

(* When a call has returned, a success or an errno, ref_array and           *)
(* ~MutableView together have left in the guest's memory what the method    *)
(* would have made of it, unless the results and buffers of the call        *)
(* overlap.  Nothing is said of a call that ends the guest.                 *)
THEOREM ThmTransparent == Spec => []Transparent
BY Invariance, IInvTransparent, PTL

(* The results of a call are copied out after the buffers.                  *)
THEOREM ThmResultsArrive == Spec => []ResultsArrive
BY Invariance, IInvResults, PTL
=============================================================================
