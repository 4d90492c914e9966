-------------------------- MODULE WasiStart_proofs --------------------------
(***************************************************************************)
(* Proofs for WasiStart, for all vectors, buffers, inputs and sinks: what  *)
(* arrives at the outputs, what fd_write tells the guest and what the      *)
(* answer of start means; and that the outputs implement ByteStream.       *)
(*                                                                         *)
(* The argument is conservation: at any time the bytes that fd_write has   *)
(* passed on to a sink are, in this order, those that have arrived there,  *)
(* those of the chunk on the way to it (Flying) and those that the         *)
(* synchronous adapter holds back until postRun (Held).  The chunk on the  *)
(* way is a view of the guest's memory only while the guest waits for it   *)
(* (Queued), and it is then that memory does not change.                   *)
(***************************************************************************)
EXTENDS WasiStart, SequenceTheorems, TLAPS

(* A buffer, or what is left of one; a byte of a chunk.                     *)
Window == {iov \in [buf : Int, len : Nat] : Cells(iov) \subseteq Address}
Piece == {byte \in Cell : byte.at = 0 => byte.val \in Byte}
Copies == {byte \in Piece : byte.at = 0}

Underway == [op : {"read", "write"}, fd : Stream, vec : Seq(Iov),
             iovs : Seq(Window), count : Nat, waiting : BOOLEAN]
Calls == {NoCall, Threw} \cup Underway

Before == {"new", "preRun", "guest"}
After == {"postRun", "settled"}

(* What the argument needs of the types.                                    *)
Typed ==
  /\ phase \in Before \cup After \cup {"close"}
  /\ asyncify \in StreamStdio
  /\ mem \in [Address -> Byte] /\ call \in Calls
  /\ buffer \in Seq(Byte) /\ offset \in 0 .. Len(Input)
  /\ output \in Sinks(Seq(Byte)) /\ sent \in Sinks(Seq(Byte)) /\ told \in Sinks(Nat)
  /\ received \in Sinks(Seq(Copies))
  /\ queue \in [Sink -> {<<>>} \cup {<<chunk>> : chunk \in Seq(Piece)}]
  /\ sink \in Sinks({"open", "closing", "closed", "errored"})
  /\ task \in [Stream -> {"idle", "reading", "writing", "closing", "failed"}]

(* The guest is in a call only while it runs; it waits only in a write that *)
(* has passed on the first buffer left to a sink.                           *)
InCall ==
  /\ call # NoCall => phase = "guest"
  /\ InWrite => call.fd \in Sink
  /\ InRead \/ InWrite => (call.waiting =>
       asyncify /\ InWrite /\ call.iovs # <<>> /\ Head(call.iovs).len > 0)

(* Who has a chunk with a sink: the call that waits for it, or postRun.     *)
Queued(s) ==
  queue[s] # <<>> =>
    /\ sink[s] \in {"open", "closing"}
    /\ IF asyncify THEN InWrite /\ call.fd = s /\ call.waiting
       ELSE phase \in After /\ Head(queue[s]) \in Seq(Copies)

(* How far the jobs of the finally block are.                               *)
Ending(s) ==
  /\ phase \in Before => task[s] = "idle"
  /\ sink[s] \in {"closing", "closed"} =>
       phase \in After \/ (asyncify /\ phase = "close")
  /\ task[s] = "writing" => ~asyncify /\ phase \in After /\ sink[s] \in {"open", "errored"}
  /\ task[s] = "closing" => sink[s] # "open"
  /\ phase = "postRun" \/ (asyncify /\ phase = "close") =>
       (task[s] = "idle" => sink[s] = "closed")
  /\ phase = "settled" /\ result # Throws("stream") => sink[s] = "closed"

(* Without streamStdio close has nothing to wait for.                       *)
Closing == phase = "close" /\ ~asyncify => AllDone

(* Where the bytes of the guest are that have not arrived.                  *)
Values(chunk) == [i \in 1 .. Len(chunk) |-> chunk[i].val]
Flying(s) == IF queue[s] = <<>> THEN <<>> ELSE Bytes(Head(queue[s]))
Held(s) == IF asyncify \/ phase \in After THEN <<>> ELSE output[s]

Conserved(s) ==
  /\ IsPrefix(Values(received[s]), sent[s])
  /\ sink[s] # "errored" => sent[s] = Values(received[s]) \o (Flying(s) \o Held(s))

(* What a call has passed on and not told yet.                              *)
Untold(s) ==
  IF InWrite /\ call.fd = s
  THEN call.count + (IF call.waiting THEN Head(call.iovs).len ELSE 0) ELSE 0

Accounted(s) == phase \in Before /\ call # Threw => told[s] + Untold(s) = Len(sent[s])

IInv ==
  /\ Typed /\ InCall /\ Closing
  /\ \A s \in Sink : Queued(s) /\ Ending(s) /\ Conserved(s) /\ Accounted(s)

-----------------------------------------------------------------------------
(* Sequences of bytes and of the pieces that chunks are made of.            *)

(* What is part of a longer sequence.                                       *)
LEMMA PrefixOfConcat ==
  ASSUME NEW S, NEW s \in Seq(S), NEW t \in Seq(S), NEW u \in Seq(S), IsPrefix(s, t)
  PROVE  IsPrefix(s, t \o u)
<1>1. t \o u \in Seq(S) /\ Len(t \o u) = Len(t) + Len(u) /\ Len(u) \in Nat
      /\ \A i \in 1 .. Len(t) : (t \o u)[i] = t[i]
  BY ConcatProperties, LenProperties
<1>2. Len(s) \in Nat /\ Len(t) \in Nat /\ Len(s) <= Len(t)
  BY LenProperties DEF IsPrefix
<1>3. SubSeq(t \o u, 1, Len(s)) = SubSeq(t, 1, Len(s))
  BY <1>1, <1>2, SMTT(30)
<1> QED
  BY <1>1, <1>2, <1>3 DEF IsPrefix

(* A sequence is a prefix of itself, and of what begins with it.             *)
LEMMA PrefixRefl ==
  ASSUME NEW S, NEW s \in Seq(S)
  PROVE  IsPrefix(s, s)
BY LenProperties DEF IsPrefix

(* What comes first is a prefix.                                            *)
LEMMA PrefixConcat ==
  ASSUME NEW S, NEW s \in Seq(S), NEW t \in Seq(S)
  PROVE  IsPrefix(s, s \o t)
BY PrefixRefl, PrefixOfConcat

(* A concatenation with something is longer.                                *)
LEMMA ConcatLonger ==
  ASSUME NEW S, NEW s \in Seq(S), NEW t \in Seq(S), t # <<>>
  PROVE  Out!Longer(s, s \o t)
<1>1. s # s \o t
  BY ConcatEqualIffEmpty
<1> QED
  BY <1>1, PrefixConcat DEF Out!Longer, Out!IsPrefix, IsPrefix

(* Facts of the library, for bytes.                                         *)
LEMMA Associative ==
  ASSUME NEW s \in Seq(Byte), NEW t \in Seq(Byte), NEW u \in Seq(Byte)
  PROVE  (s \o t) \o u = s \o (t \o u)
BY ConcatAssociative

(* The length of two strings of bytes together.                             *)
LEMMA ConcatLen ==
  ASSUME NEW s \in Seq(Byte), NEW t \in Seq(Byte)
  PROVE  Len(s \o t) = Len(s) + Len(t)
BY ConcatProperties

(* The pieces of a chunk of values are values.                              *)
LEMMA ValuesType ==
  ASSUME NEW chunk \in Seq(Copies)
  PROVE  /\ Values(chunk) \in Seq(Byte)
         /\ Len(Values(chunk)) = Len(chunk)
         /\ \A i \in 1 .. Len(chunk) : chunk[i] \in Copies /\ Values(chunk)[i] = chunk[i].val
<1>1. Len(chunk) \in Nat /\ \A i \in 1 .. Len(chunk) : chunk[i] \in Copies
  BY LenProperties, ElementOfSeq
<1>2. \A i \in 1 .. Len(chunk) : chunk[i].val \in Byte
  BY <1>1 DEF Copies, Piece
<1> QED
  BY <1>1, <1>2 DEF Values

(* So are those of two chunks together.                                     *)
LEMMA ValuesConcat ==
  ASSUME NEW c \in Seq(Copies), NEW d \in Seq(Copies)
  PROVE  c \o d \in Seq(Copies) /\ Values(c \o d) = Values(c) \o Values(d)
<1> DEFINE whole == Values(c) \o Values(d)
<1>1. c \o d \in Seq(Copies) /\ Len(c \o d) = Len(c) + Len(d) /\ Len(c) \in Nat /\ Len(d) \in Nat
  BY ConcatProperties, LenProperties
<1>2. /\ Values(c) \in Seq(Byte) /\ Values(d) \in Seq(Byte) /\ Values(c \o d) \in Seq(Byte)
      /\ Len(Values(c)) = Len(c) /\ Len(Values(d)) = Len(d) /\ Len(Values(c \o d)) = Len(c \o d)
  BY <1>1, ValuesType
<1>3. whole \in Seq(Byte) /\ Len(whole) = Len(c) + Len(d)
  BY <1>2, ConcatProperties
<1>4. ASSUME NEW i \in 1 .. Len(c \o d)
      PROVE  Values(c \o d)[i] = whole[i]
  <2>1. Values(c \o d)[i] = (c \o d)[i].val
    BY <1>1, ValuesType
  <2>2. (c \o d)[i] = IF i <= Len(c) THEN c[i] ELSE d[i - Len(c)]
    BY <1>1, ConcatProperties
  <2>3. whole[i] = IF i <= Len(c) THEN Values(c)[i] ELSE Values(d)[i - Len(c)]
    BY <1>1, ValuesType, ConcatProperties
  <2> QED
    BY <1>1, <2>1, <2>2, <2>3, ValuesType
<1> QED
  BY <1>1, <1>2, <1>3, <1>4, SeqEqual

(* Values do not change with the guest's memory.                            *)
LEMMA CopiesStay ==
  ASSUME NEW chunk \in Seq(Copies)
  PROVE  Bytes(chunk) = Values(chunk) /\ Bytes(chunk)' = Values(chunk)
<1>1. Len(chunk) \in Nat /\ \A i \in 1 .. Len(chunk) : chunk[i].at = 0
  BY LenProperties, ElementOfSeq DEF Copies
<1> QED
  BY <1>1 DEF Bytes, Current, Values

(* The bytes of a chunk are those that its pieces have in memory.           *)
LEMMA BytesType ==
  ASSUME mem \in [Address -> Byte], NEW chunk \in Seq(Piece)
  PROVE  Bytes(chunk) \in Seq(Byte) /\ Len(Bytes(chunk)) = Len(chunk)
<1>1. Len(chunk) \in Nat /\ \A i \in 1 .. Len(chunk) : chunk[i] \in Piece
  BY LenProperties, ElementOfSeq
<1>2. \A byte \in Piece : Current(byte) \in Byte
  BY StreamsAssumption DEF Piece, Cell, Current, Address
<1> QED
  BY <1>1, <1>2 DEF Bytes

(* A slice is a chunk of values.                                            *)
LEMMA SliceValues ==
  ASSUME NEW bytes \in Seq(Byte)
  PROVE  Slice(bytes) \in Seq(Copies) /\ Values(Slice(bytes)) = bytes
<1>1. Len(bytes) \in Nat /\ \A i \in 1 .. Len(bytes) : bytes[i] \in Byte
  BY LenProperties, ElementOfSeq
<1>2. \A b \in Byte : Copied(b) \in Copies /\ Copied(b).val = b
  BY StreamsAssumption DEF Copied, Copies, Piece, Cell
<1>3. Slice(bytes) \in Seq(Copies) /\ Len(Slice(bytes)) = Len(bytes)
  BY <1>1, <1>2 DEF Slice
<1>4. \A i \in 1 .. Len(bytes) : Values(Slice(bytes))[i] = bytes[i]
  BY <1>1, <1>2, <1>3 DEF Slice, Values
<1> QED
  BY <1>1, <1>3, <1>4, ValuesType, SeqEqual

(* A view of a buffer is a chunk of its places.                             *)
LEMMA ViewType ==
  ASSUME NEW iov \in Window
  PROVE  View(iov) \in Seq(Piece) /\ Len(View(iov)) = iov.len /\ iov.len \in Nat
<1>1. iov.len \in Nat /\ iov.buf \in Int
  BY DEF Window
<1>2. \A i \in 1 .. iov.len : iov.buf + i - 1 \in Address
  BY <1>1 DEF Window, Cells
<1>3. \A i \in 1 .. iov.len : [at |-> iov.buf + i - 1, val |-> 0] \in Piece
  BY <1>1, <1>2, StreamsAssumption DEF Piece, Cell, Address
<1> QED
  BY <1>1, <1>3 DEF View

(* What a guest's call passes on has the length of the buffer.              *)
LEMMA PassedType ==
  ASSUME mem \in [Address -> Byte], NEW iov \in Window
  PROVE  Bytes(View(iov)) \in Seq(Byte) /\ Len(Bytes(View(iov))) = iov.len
BY ViewType, BytesType

(* Outputs whose bytes stay where they are.                                 *)
LEMMA OutputStays ==
  ASSUME IInv, UNCHANGED <<asyncify, output, queue, received, sent>>,
         asyncify \/ (phase \in After <=> phase' \in After),
         mem' = mem \/ \A s \in Sink : queue[s] # <<>> => Head(queue[s]) \in Seq(Copies),
         \A s \in Sink : sink'[s] = sink[s] \/ {sink[s], sink'[s]} \subseteq {"open", "closing"}
  PROVE  (\A s \in Sink : Conserved(s)') /\ [Out!Next]_Out!vars
<1> USE DEF IInv
<1>1. \A s \in Sink : received[s] \in Seq(Copies)
  BY DEF Typed, Sinks
<1>2. \A s \in Sink : Bytes(received[s])' = Bytes(received[s])
  BY <1>1, CopiesStay
<1>3. ASSUME NEW s \in Sink PROVE Flying(s)' = Flying(s) /\ Held(s)' = Held(s)
  <2>1. CASE mem' = mem
    BY <2>1 DEF Flying, Held, Bytes, Current
  <2>2. CASE queue[s] # <<>> => Head(queue[s]) \in Seq(Copies)
    BY <2>2, CopiesStay DEF Flying, Held
  <2> QED
    BY <2>1, <2>2
<1>4. ASSUME NEW s \in Sink PROVE Conserved(s)'
  BY <1>3 DEF Conserved, Values
<1>5. UNCHANGED Out!vars
  BY <1>2 DEF Out!vars
<1> QED
  BY <1>4, <1>5

(* The call of a guest, and the buffers it has left.                        *)
LEMMA CallType ==
  ASSUME Typed, InRead \/ InWrite
  PROVE  call \in Underway
BY DEF Typed, Calls, InRead, InWrite, NoCall, Threw

(* The buffers that a call has left.                                        *)
LEMMA IovsType ==
  ASSUME Typed, InRead \/ InWrite, call.iovs # <<>>
  PROVE  /\ call.iovs \in Seq(Window)
         /\ Head(call.iovs) \in Window /\ Tail(call.iovs) \in Seq(Window)
         /\ Head(call.iovs).len \in Nat /\ Head(call.iovs).buf \in Int
<1>1. call.iovs \in Seq(Window)
  BY CallType DEF Underway
<1> QED
  BY <1>1, HeadTailProperties DEF Window

(* A sink holds a chunk of the guest only in a write that waits for it.     *)
LEMMA NothingQueued ==
  ASSUME IInv, phase \in Before, ~(InWrite /\ call.waiting)
  PROVE  \A s \in Sink : queue[s] = <<>>
BY DEF IInv, Queued, Before, After

(* A step of the guest, or of a call that passes nothing on.                *)
LEMMA CallStep ==
  ASSUME IInv, UNCHANGED <<start, asyncify, stdout, task>>, phase = "guest",
         ~(InWrite /\ call.waiting) \/ \A s \in Sink : queue[s] = <<>>,
         mem' \in [Address -> Byte], buffer' \in Seq(Byte), offset' \in 0 .. Len(Input),
         call' \in Calls, InCall', \A s \in Sink : Accounted(s)'
  PROVE  IInv' /\ [Out!Next]_Out!vars
<1>1. phase' = phase /\ result' = result /\ UNCHANGED <<output, queue, sink, received, sent, told>>
  BY DEF start, stdout
<1>2. \A s \in Sink : queue[s] = <<>>
  BY NothingQueued DEF Before
<1>3. Typed' /\ Closing'
  BY <1>1 DEF IInv, Typed, Closing
<1>4. \A s \in Sink : Queued(s)' /\ Ending(s)'
  BY <1>1, <1>2 DEF IInv, Queued, Ending
<1>5. (\A s \in Sink : Conserved(s)') /\ [Out!Next]_Out!vars
  BY <1>1, <1>2, OutputStays
<1> QED
  BY <1>3, <1>4, <1>5 DEF IInv

-----------------------------------------------------------------------------
(* The guest and its calls.                                                 *)

(* The guest stores while it is in no call: no view is out.                 *)
LEMMA GuestStoresStep ==
  ASSUME IInv, GuestStores
  PROVE  IInv' /\ [Out!Next]_Out!vars
<1>1. call = NoCall /\ UNCHANGED <<start, call, stdin, stdout, task>> /\ phase = "guest"
  BY DEF GuestStores
<1>2. mem' \in [Address -> Byte]
  BY DEF GuestStores, IInv, Typed
<1>3. ~InWrite /\ ~InRead /\ ~InWrite' /\ ~InRead'
  BY <1>1 DEF InWrite, InRead, NoCall
<1>4. buffer' \in Seq(Byte) /\ offset' \in 0 .. Len(Input) /\ call' \in Calls
  BY <1>1 DEF IInv, Typed, stdin
<1>5. InCall' /\ \A s \in Sink : Accounted(s)'
  BY <1>1, <1>3 DEF IInv, InCall, Accounted, Untold, start, stdout
<1> QED
  BY <1>1, <1>2, <1>3, <1>4, <1>5, CallStep DEF stdin

(* The vectors of a guest lie in its memory.                                *)
LEMMA CalledType ==
  ASSUME NEW op \in {"read", "write"}, NEW fd \in Stream, NEW vec \in ReadArg \cup WriteArg
  PROVE  Called(op, fd, vec) \in Underway
<1>1. vec \in Seq(Iov) /\ \A i \in DOMAIN vec : Cells(vec[i]) \subseteq Address
  BY StreamsAssumption
<1>2. Len(vec) \in Nat /\ DOMAIN vec = 1 .. Len(vec) /\ \A i \in 1 .. Len(vec) : vec[i] \in Iov
  BY <1>1, LenProperties, ElementOfSeq
<1>3. \A iov \in Iov : iov \in [buf : Int, len : Nat]
  BY StreamsAssumption DEF Iov, Address
<1>4. \A i \in 1 .. Len(vec) : vec[i] \in Window
  BY <1>1, <1>2, <1>3 DEF Window
<1>5. vec \in Seq(Window)
  BY <1>1, <1>2, <1>4
<1> QED
  BY <1>1, <1>5 DEF Called, Underway

(* The guest calls: nothing is passed on yet.                               *)
LEMMA GuestCallsStep ==
  ASSUME IInv, GuestCalls
  PROVE  IInv' /\ [Out!Next]_Out!vars
<1>1. /\ call = NoCall /\ phase = "guest" /\ UNCHANGED <<start, mem, stdin, stdout, task>>
      /\ \/ call' = Threw
         \/ \E fd \in Stream, vec \in ReadArg : call' = Called("read", fd, vec)
         \/ \E fd \in Stream, vec \in WriteArg :
              call' = Called("write", fd, vec) /\ ~(fd = 0 /\ 0 \in Present)
  BY DEF GuestCalls, fd_read, fd_write
<1>2. call' \in Calls
  BY <1>1, CalledType DEF Calls
<1>3. ~InWrite /\ ~InRead /\ asyncify' = asyncify
  BY <1>1 DEF InWrite, InRead, NoCall, stdin
<1>4. InWrite' => call'.fd \in Sink
  BY <1>1 DEF InWrite, Called, Threw, Sink, Stream
<1>5. (InRead \/ InWrite)' => call'.count = 0 /\ call'.waiting = FALSE
  BY <1>1 DEF InWrite, InRead, Called, Threw
<1>6. InCall'
  BY <1>1, <1>4, <1>5 DEF InCall, start
<1>7. \A s \in Sink : Untold(s) = 0 /\ Untold(s)' = 0
  BY <1>3, <1>5 DEF Untold
<1>8. \A s \in Sink : Accounted(s)'
  BY <1>1, <1>7 DEF IInv, Accounted, start, stdout, NoCall, Threw
<1>9. mem' \in [Address -> Byte] /\ buffer' \in Seq(Byte) /\ offset' \in 0 .. Len(Input)
  BY <1>1 DEF IInv, Typed, stdin
<1> QED
  BY <1>1, <1>2, <1>3, <1>6, <1>8, <1>9, CallStep

(* Bytes taken from the pending ones.                                       *)
LEMMA Taken ==
  ASSUME NEW bytes \in 0 .. Len(buffer), buffer \in Seq(Byte)
  PROVE  /\ SubSeq(buffer, 1, bytes) \in Seq(Byte) /\ Len(SubSeq(buffer, 1, bytes)) = bytes
         /\ SubSeq(buffer, bytes + 1, Len(buffer)) \in Seq(Byte)
<1>1. Len(buffer) \in Nat /\ \A i \in 1 .. Len(buffer) : buffer[i] \in Byte
  BY LenProperties, ElementOfSeq
<1> QED
  BY <1>1, SubSeqProperties

(* Memory after iov.set.                                                    *)
LEMMA StoredType ==
  ASSUME mem \in [Address -> Byte], NEW iov \in Window, NEW bytes \in Seq(Byte)
  PROVE  Stored(iov, bytes) \in [Address -> Byte]
<1>1. Len(bytes) \in Nat /\ \A i \in 1 .. Len(bytes) : bytes[i] \in Byte
  BY LenProperties, ElementOfSeq
<1>2. ASSUME NEW a \in Address, a \in iov.buf .. iov.buf + Len(bytes) - 1
      PROVE  bytes[a - iov.buf + 1] \in Byte
  BY <1>1, <1>2, StreamsAssumption DEF Window, Address
<1> QED
  BY <1>2 DEF Stored

(* A loop over the buffers of a call goes on.                               *)
LEMMA GoesOn ==
  ASSUME call \in Underway, NEW iovs \in Seq(Window), NEW count \in Nat
  PROVE  LET next == [call EXCEPT !.iovs = iovs, !.count = call.count + count]
         IN next \in Underway /\ next.op = call.op /\ next.fd = call.fd /\ next.iovs = iovs
            /\ next.count = call.count + count /\ next.waiting = call.waiting
<1>1. call.count + count \in Nat
  BY DEF Underway
<1> QED
  BY <1>1 DEF Underway

(* A call that reads: its bytes go to the guest's memory.                   *)
LEMMA CopyToStep ==
  ASSUME IInv, InRead, UNCHANGED start, call.iovs # <<>>,
         NEW bytes \in 0 .. Len(buffer), NEW iovs \in Seq(Window), CopyTo(bytes, iovs)
  PROVE  IInv' /\ [Out!Next]_Out!vars
<1>1. /\ call' = [call EXCEPT !.iovs = iovs, !.count = call.count + bytes]
      /\ mem' = Stored(Head(call.iovs), SubSeq(buffer, 1, bytes))
      /\ buffer' = SubSeq(buffer, bytes + 1, Len(buffer))
      /\ UNCHANGED <<asyncify, offset, stdout, task>>
  BY DEF CopyTo, Counted
<1>2. call \in Underway /\ call.waiting = FALSE /\ phase = "guest" /\ ~InWrite
  BY CallType DEF IInv, InCall, InRead, InWrite, Underway, NoCall
<1>3. bytes \in Nat
  BY LenProperties DEF IInv, Typed
<1>4. call' \in Underway /\ call'.op = "read" /\ call'.waiting = FALSE
  BY <1>1, <1>2, <1>3, GoesOn DEF InRead
<1>5. InCall'
  BY <1>2, <1>4 DEF InCall, InWrite, start
<1>6. \A s \in Sink : Accounted(s)'
  BY <1>1, <1>2, <1>4 DEF IInv, Accounted, Untold, InWrite, Underway, Threw, start, stdout
<1>7. mem' \in [Address -> Byte] /\ buffer' \in Seq(Byte) /\ offset' \in 0 .. Len(Input)
  BY <1>1, Taken, StoredType, IovsType DEF IInv, Typed
<1> QED
  BY <1>1, <1>2, <1>4, <1>5, <1>6, <1>7, CallStep DEF Calls

(* A call that ends.                                                        *)
LEMMA CallEnds ==
  ASSUME IInv, call \in Underway, UNCHANGED <<start, asyncify, mem, offset, buffer, stdout, task>>,
         call' \in {NoCall, Threw},
         InWrite => call' = Threw /\ \A s \in Sink : queue[s] = <<>>
  PROVE  IInv' /\ [Out!Next]_Out!vars
<1>1. phase = "guest" /\ phase' = phase /\ call # Threw
  BY DEF IInv, InCall, start, Underway, NoCall, Threw
<1>2. ~InWrite' /\ ~InRead' /\ call' \in Calls
  BY DEF InWrite, InRead, NoCall, Threw, Calls
<1>3. InCall'
  BY <1>1, <1>2 DEF InCall
<1>4. \A s \in Sink : Accounted(s)'
  BY <1>1, <1>2 DEF IInv, Accounted, Untold, start, stdout
<1>5. mem' \in [Address -> Byte] /\ buffer' \in Seq(Byte) /\ offset' \in 0 .. Len(Input)
  BY DEF IInv, Typed
<1> QED
  BY <1>1, <1>2, <1>3, <1>4, <1>5, CallStep

(* readv returns.                                                           *)
LEMMA ReadReturnStep ==
  ASSUME IInv, InRead, UNCHANGED start, ReadReturn
  PROVE  IInv' /\ [Out!Next]_Out!vars
<1>1. call' = NoCall /\ UNCHANGED <<asyncify, mem, buffer, offset, stdout, task>>
  BY DEF ReadReturn
<1>2. call \in Underway /\ ~InWrite
  BY CallType DEF IInv, InRead, InWrite
<1> QED
  BY <1>1, <1>2, CallEnds

(* readv of the synchronous adapter.                                        *)
LEMMA SyncReadStep ==
  ASSUME IInv, UNCHANGED start, SyncReadIov
  PROVE  IInv' /\ [Out!Next]_Out!vars
<1>1. InRead
  BY DEF SyncReadIov
<1>2. CASE call.iovs = <<>> \/ Head(call.iovs).len = 0 \/ buffer = <<>>
  BY <1>1, <1>2, ReadReturnStep DEF SyncReadIov
<1>3. CASE ~(call.iovs = <<>> \/ Head(call.iovs).len = 0 \/ buffer = <<>>)
  <2> DEFINE bytes == Smaller(Head(call.iovs).len, Len(buffer))
  <2>1. CopyTo(bytes, Tail(call.iovs)) /\ call.iovs # <<>>
    BY <1>3 DEF SyncReadIov
  <2>2. Head(call.iovs).len \in Nat /\ Tail(call.iovs) \in Seq(Window)
    BY <1>1, <2>1, IovsType DEF IInv
  <2>3. bytes \in 0 .. Len(buffer)
    BY <2>2, LenProperties DEF IInv, Typed, Smaller
  <2> HIDE DEF bytes
  <2> QED
    BY <1>1, <2>1, <2>2, <2>3, CopyToStep
<1> QED
  BY <1>2, <1>3

(* An empty buffer is passed over.                                          *)
LEMMA SkipIovStep ==
  ASSUME IInv, UNCHANGED start, InRead \/ InWrite, call.iovs # <<>>, Head(call.iovs).len = 0, SkipIov
  PROVE  IInv' /\ [Out!Next]_Out!vars
<1>1. call' = [call EXCEPT !.iovs = Tail(call.iovs)] /\ UNCHANGED <<mem, stdin, stdout, task>>
  BY DEF SkipIov
<1>2. call \in Underway /\ Tail(call.iovs) \in Seq(Window)
  BY CallType, IovsType DEF IInv
<1>3. call.waiting = FALSE /\ phase = "guest"
  BY <1>2 DEF IInv, InCall, Underway, NoCall
<1>4. /\ call' \in Underway /\ call'.op = call.op /\ call'.fd = call.fd
      /\ call'.count = call.count /\ call'.waiting = FALSE
  BY <1>1, <1>2, <1>3 DEF Underway
<1>5. InCall'
  BY <1>3, <1>4 DEF IInv, InCall, InRead, InWrite, start
<1>6. \A s \in Sink : Untold(s)' = Untold(s) /\ call # Threw
  BY <1>2, <1>3, <1>4 DEF Untold, InWrite, Underway, Threw
<1>7. \A s \in Sink : Accounted(s)'
  BY <1>1, <1>6 DEF IInv, Accounted, start, stdout
<1>8. mem' \in [Address -> Byte] /\ buffer' \in Seq(Byte) /\ offset' \in 0 .. Len(Input)
      /\ asyncify' = asyncify
  BY <1>1 DEF IInv, Typed, stdin
<1> QED
  BY <1>1, <1>3, <1>4, <1>5, <1>7, <1>8, CallStep DEF Calls

(* A chunk of the source is bytes of the input.                             *)
LEMMA ChunkType ==
  ASSUME offset \in 0 .. Len(Input), NEW n \in ChunkLen
  PROVE  Chunk(n) \in Seq(Byte) /\ offset + n \in 0 .. Len(Input)
<1>1. Len(Input) \in Nat /\ \A i \in 1 .. Len(Input) : Input[i] \in Byte
  BY StreamsAssumption, LenProperties, ElementOfSeq
<1>2. offset + n \in 0 .. Len(Input) /\ offset \in Nat /\ n \in Nat
  BY <1>1 DEF ChunkLen
<1>3. \A i \in offset + 1 .. offset + n : Input[i] \in Byte
  BY <1>1, <1>2
<1> QED
  BY <1>2, <1>3, SubSeqProperties DEF Chunk

(* readv waits for the source.                                              *)
LEMMA AsyncPullStep ==
  ASSUME IInv, UNCHANGED start, InRead, AsyncPull
  PROVE  IInv' /\ [Out!Next]_Out!vars
<1>1. call \in Underway /\ ~InWrite /\ call.waiting = FALSE /\ phase = "guest"
  BY CallType DEF IInv, InCall, InRead, InWrite, Underway, NoCall
<1>2. CASE ReadReturn
  BY <1>2, ReadReturnStep
<1>3. CASE call' = Threw /\ UNCHANGED <<mem, stdin, stdout, task>>
  <2>1. UNCHANGED <<asyncify, buffer, offset, mem, stdout, task>>
    BY <1>3 DEF stdin
  <2> QED
    BY <1>1, <1>3, <2>1, CallEnds
<1>4. CASE /\ \E n \in ChunkLen : Deliver(n) /\ buffer' = Chunk(n)
           /\ UNCHANGED <<asyncify, memory, source, got, stdout, task>>
  <2>1. buffer' \in Seq(Byte) /\ offset' \in 0 .. Len(Input)
    BY <1>4, ChunkType DEF IInv, Typed, Deliver
  <2>2. UNCHANGED <<mem, call, asyncify, stdout, task>>
    BY <1>4 DEF memory
  <2>3. mem' \in [Address -> Byte] /\ call' \in Calls
    BY <2>2 DEF IInv, Typed
  <2>4. InCall' /\ \A s \in Sink : Accounted(s)'
    BY <2>2 DEF IInv, InCall, InRead, InWrite, Accounted, Untold, start, stdout
  <2> QED
    BY <1>1, <2>1, <2>2, <2>3, <2>4, CallStep
<1> QED
  BY <1>2, <1>3, <1>4 DEF AsyncPull

(* readv copies pending bytes to the first buffer.                          *)
LEMMA AsyncCopyStep ==
  ASSUME IInv, UNCHANGED start, InRead, call.iovs # <<>>, AsyncCopy
  PROVE  IInv' /\ [Out!Next]_Out!vars
<1> DEFINE iov == Head(call.iovs)
           bytes == Smaller(iov.len, Len(buffer))
           iovs == IF bytes = iov.len THEN Tail(call.iovs)
                   ELSE <<Rest(iov, bytes)>> \o Tail(call.iovs)
<1>1. iov \in Window /\ iov.len \in Nat /\ iov.buf \in Int /\ Tail(call.iovs) \in Seq(Window)
  BY IovsType DEF IInv
<1>2. bytes \in 0 .. Len(buffer) /\ bytes \in Nat /\ bytes <= iov.len
  BY <1>1, LenProperties DEF IInv, Typed, Smaller
<1> HIDE DEF iov, bytes
<1>3. Rest(iov, bytes) \in Window
  <2>1. iov.buf + bytes \in Int /\ iov.len - bytes \in Nat
    BY <1>1, <1>2
  <2>2. Cells(Rest(iov, bytes)) \subseteq Cells(iov)
    BY <1>1, <1>2 DEF Rest, Cells
  <2> QED
    BY <1>1, <2>1, <2>2 DEF Rest, Window
<1>4. <<Rest(iov, bytes)>> \in Seq(Window)
  BY <1>3
<1>5. <<Rest(iov, bytes)>> \o Tail(call.iovs) \in Seq(Window)
  BY <1>1, <1>4, ConcatProperties
<1>6. CopyTo(bytes, iovs)
  BY DEF AsyncCopy, iov, bytes
<1>7. iovs \in Seq(Window)
  BY <1>1, <1>5 DEF iov
<1> HIDE DEF iovs
<1> QED
  BY <1>2, <1>6, <1>7, CopyToStep

(* readv of the asynchronous adapter.                                       *)
LEMMA AsyncReadStep ==
  ASSUME IInv, UNCHANGED start, AsyncReadIov
  PROVE  IInv' /\ [Out!Next]_Out!vars
<1>1. InRead
  BY DEF AsyncReadIov
<1>2. CASE call.iovs = <<>>
  BY <1>1, <1>2, ReadReturnStep DEF AsyncReadIov
<1>3. CASE call.iovs # <<>> /\ Head(call.iovs).len = 0
  BY <1>1, <1>3, SkipIovStep DEF AsyncReadIov
<1>4. CASE call.iovs # <<>> /\ Head(call.iovs).len # 0 /\ buffer = <<>>
  BY <1>1, <1>4, AsyncPullStep DEF AsyncReadIov
<1>5. CASE call.iovs # <<>> /\ Head(call.iovs).len # 0 /\ buffer # <<>>
  BY <1>1, <1>5, AsyncCopyStep DEF AsyncReadIov
<1> QED
  BY <1>2, <1>3, <1>4, <1>5

(* A stream that was not given.                                             *)
LEMMA DevNullStep ==
  ASSUME IInv, UNCHANGED start, DevNullRead \/ DevNullWrite
  PROVE  IInv' /\ [Out!Next]_Out!vars
<1>1. /\ call.op \in {"read", "write"} /\ call.fd \notin Present
      /\ call' = NoCall /\ UNCHANGED <<mem, stdin, stdout, task>>
  BY DEF DevNullRead, DevNullWrite
<1>2. call \in Underway /\ ~InWrite
  BY <1>1 DEF IInv, Typed, Calls, NoCall, Threw, InWrite
<1>3. UNCHANGED <<asyncify, buffer, offset, stdout, task>>
  BY <1>1 DEF stdin
<1> QED
  BY <1>1, <1>2, <1>3, CallEnds

(* All steps of fd_read.                                                    *)
LEMMA ReadSteps ==
  ASSUME IInv, UNCHANGED start, ReadStep
  PROVE  IInv' /\ [Out!Next]_Out!vars
BY DevNullStep, SyncReadStep, AsyncReadStep DEF ReadStep

-----------------------------------------------------------------------------
(* Writing.                                                                 *)

(* A call that writes.                                                      *)
LEMMA InWriteType ==
  ASSUME IInv, InWrite
  PROVE  /\ call \in Underway /\ call.fd \in Sink /\ call.count \in Nat
         /\ phase = "guest" /\ call # Threw /\ call # NoCall
BY CallType DEF IInv, InCall, Underway, NoCall, Threw

(* writev returns: the guest is told the count.                             *)
LEMMA WriteReturnStep ==
  ASSUME IInv, UNCHANGED start, WriteReturn
  PROVE  IInv' /\ [Out!Next]_Out!vars
<1>1. /\ InWrite /\ call.iovs = <<>> /\ call' = NoCall
      /\ told' = [told EXCEPT ![call.fd] = told[call.fd] + call.count]
      /\ UNCHANGED <<mem, stdin, output, capacity, queue, sink, received, sent, task>>
  BY DEF WriteReturn
<1>2. /\ call.fd \in Sink /\ call.count \in Nat /\ call.waiting = FALSE
      /\ phase = "guest" /\ call # Threw /\ phase' = phase /\ result' = result
  BY <1>1, InWriteType DEF IInv, InCall, Underway, start
<1>3. ~InWrite' /\ ~InRead'
  BY <1>1 DEF InWrite, InRead, NoCall
<1>4. \A s \in Sink : queue[s] = <<>>
  BY <1>2, NothingQueued DEF Before
<1>5. Typed'
  <2>1. told' \in Sinks(Nat)
    BY <1>1, <1>2 DEF IInv, Typed, Sinks
  <2> QED
    BY <1>1, <1>2, <2>1 DEF IInv, Typed, stdin, Calls
<1>6. InCall' /\ Closing'
  BY <1>1, <1>2, <1>3 DEF InCall, Closing
<1>7. \A s \in Sink : Queued(s)' /\ Ending(s)'
  BY <1>1, <1>2, <1>4 DEF IInv, Queued, Ending, stdin
<1>8. \A s \in Sink : Accounted(s)'
  <2> SUFFICES ASSUME NEW s \in Sink PROVE told'[s] + 0 = Len(sent[s])
    BY <1>1, <1>3 DEF Accounted, Untold
  <2>1. told[s] \in Nat /\ told[s] + Untold(s) = Len(sent[s])
    BY <1>2 DEF IInv, Typed, Sinks, Accounted, Before
  <2>2. told'[s] = told[s] + (IF s = call.fd THEN call.count ELSE 0)
    BY <1>1, <1>2, <2>1 DEF IInv, Typed, Sinks
  <2>3. Untold(s) = IF s = call.fd THEN call.count ELSE 0
    BY <1>1, <1>2 DEF Untold
  <2> QED
    BY <1>2, <2>1, <2>2, <2>3
<1>9. (\A s \in Sink : Conserved(s)') /\ [Out!Next]_Out!vars
  BY <1>1, <1>2, OutputStays DEF stdin
<1> QED
  BY <1>5, <1>6, <1>7, <1>8, <1>9 DEF IInv

(* The write of a buffer is settled: the sink has its bytes, or failed.     *)
LEMMA AsyncWrittenStep ==
  ASSUME IInv, UNCHANGED start, AsyncWritten
  PROVE  IInv' /\ [Out!Next]_Out!vars
<1>1. InWrite /\ call.waiting /\ UNCHANGED <<mem, stdin, stdout, task>>
  BY DEF AsyncWritten
<1>2. /\ call \in Underway /\ call.fd \in Sink /\ phase = "guest" /\ call # Threw
      /\ call.iovs # <<>> /\ Head(call.iovs) \in Window /\ Tail(call.iovs) \in Seq(Window)
      /\ Head(call.iovs).len \in Nat /\ asyncify
  BY <1>1, InWriteType, IovsType DEF IInv, InCall
<1>3. \A s \in Sink : queue[s] = <<>>
  BY <1>1, <1>2 DEF AsyncWritten, IInv, Queued
<1>4. UNCHANGED <<asyncify, buffer, offset, stdout>>
  BY <1>1 DEF stdin
<1>5. CASE call' = Threw
  BY <1>1, <1>2, <1>3, <1>4, <1>5, CallEnds
<1>6. CASE call' = [call EXCEPT !.iovs = Tail(call.iovs), !.waiting = FALSE,
                                !.count = call.count + Head(call.iovs).len]
  <2>1. call.count \in Nat /\ call.count + Head(call.iovs).len \in Nat
    BY <1>2 DEF Underway
  <2>2. /\ call' \in Underway /\ call'.op = "write" /\ call'.fd = call.fd /\ call'.waiting = FALSE
        /\ call'.count = call.count + Head(call.iovs).len
    BY <1>1, <1>2, <1>6, <2>1 DEF Underway, InWrite
  <2>3. InCall'
    BY <1>2, <2>2 DEF InCall, InRead, InWrite, start
  <2>4. \A s \in Sink : Untold(s)' = Untold(s)
    BY <1>1, <1>2, <2>1, <2>2 DEF Untold, InWrite
  <2>5. \A s \in Sink : Accounted(s)'
    BY <1>1, <1>2, <2>4 DEF IInv, Accounted, start, stdout
  <2>6. mem' \in [Address -> Byte] /\ buffer' \in Seq(Byte) /\ offset' \in 0 .. Len(Input)
    BY <1>1, <1>4 DEF IInv, Typed
  <2> QED
    BY <1>1, <1>2, <1>3, <1>4, <2>2, <2>3, <2>5, <2>6, CallStep DEF Calls
<1> QED
  BY <1>5, <1>6 DEF AsyncWritten, Counted

(* Bytes passed on are a write of the stream.                               *)
LEMMA PassedOn ==
  ASSUME IInv, phase = "guest", NEW s \in Sink, NEW iov \in Window, iov.len > 0,
         sent' = Passed(s, iov), received' = received, sink' = sink, asyncify' = asyncify, mem' = mem
  PROVE  Out!Write(s)
<1>1. Bytes(View(iov)) \in Seq(Byte) /\ Len(Bytes(View(iov))) = iov.len
  BY PassedType DEF IInv, Typed
<1>2. sent[s] \in Seq(Byte) /\ sent'[s] = sent[s] \o Bytes(View(iov))
      /\ sent' = [sent EXCEPT ![s] = sent'[s]]
  BY <1>1 DEF IInv, Typed, Sinks, Passed
<1>3. Bytes(View(iov)) # <<>>
  BY <1>1 DEF Window
<1>4. Out!Longer(sent[s], sent'[s])
  BY <1>1, <1>2, <1>3, ConcatLonger
<1>5. sink[s] # "closed"
  BY DEF IInv, Ending, After
<1>6. \A t \in Sink : Bytes(received[t])' = Bytes(received[t])
  BY CopiesStay DEF IInv, Typed, Sinks
<1> QED
  BY <1>2, <1>4, <1>5, <1>6 DEF Out!Write

(* What is conserved when the call passes on its first buffer.              *)
LEMMA PassedConserved ==
  ASSUME IInv, phase = "guest", NEW s \in Sink, NEW iov \in Window,
         sent' = Passed(s, iov), received' = received, sink' = sink, asyncify' = asyncify,
         phase' = phase, mem' = mem,
         \A t \in Sink : queue[t] = <<>>,
         \A t \in Sink \ {s} : queue'[t] = <<>> /\ output'[t] = output[t],
         sink[s] # "errored" => (Flying(s) \o Held(s))' = Held(s) \o Bytes(View(iov))
  PROVE  \A t \in Sink : Conserved(t)'
<1>1. Bytes(View(iov)) \in Seq(Byte)
  BY PassedType DEF IInv, Typed
<1>2. \A t \in Sink : /\ received[t] \in Seq(Copies) /\ Values(received[t]) \in Seq(Byte)
                      /\ sent[t] \in Seq(Byte) /\ output[t] \in Seq(Byte)
  BY ValuesType DEF IInv, Typed, Sinks
<1>3. \A t \in Sink : sent'[t] = IF t = s THEN sent[t] \o Bytes(View(iov)) ELSE sent[t]
  BY DEF Passed, IInv, Typed, Sinks
<1>4. \A t \in Sink : IsPrefix(Values(received[t]), sent[t])
  BY DEF IInv, Conserved
<1>5. \A t \in Sink : IsPrefix(Values(received[t]), sent[t])'
  <2> SUFFICES ASSUME NEW t \in Sink PROVE IsPrefix(Values(received[t]), sent'[t])
    BY DEF Values
  <2>1. CASE t = s
    BY <2>1, <1>1, <1>2, <1>3, <1>4, PrefixOfConcat
  <2>2. CASE t # s
    BY <2>2, <1>3, <1>4
  <2> QED
    BY <2>1, <2>2
<1>6. ASSUME NEW t \in Sink \ {s}, sink[t] # "errored"
      PROVE  sent'[t] = Values(received[t]) \o (Flying(t) \o Held(t))'
  <2>1. Flying(t)' = Flying(t) /\ Held(t)' = Held(t)
    BY DEF Flying, Held
  <2> QED
    BY <1>3, <1>6, <2>1 DEF IInv, Conserved
<1>7. ASSUME sink[s] # "errored"
      PROVE  sent'[s] = Values(received[s]) \o (Flying(s) \o Held(s))'
  <2>1. Held(s) \in Seq(Byte) /\ Flying(s) = <<>>
    BY <1>2 DEF Held, Flying
  <2>2. Flying(s) \o Held(s) = Held(s)
    BY <2>1, ConcatEmptySeq
  <2>3. sent[s] = Values(received[s]) \o Held(s)
    BY <1>7, <2>2 DEF IInv, Conserved
  <2>4. (Values(received[s]) \o Held(s)) \o Bytes(View(iov))
          = Values(received[s]) \o (Held(s) \o Bytes(View(iov)))
    <3>1. Values(received[s]) \in Seq(Byte)
      BY <1>2
    <3> QED
      BY <1>1, <2>1, <3>1, Associative
  <2> QED
    BY <1>3, <1>7, <2>3, <2>4
<1> QED
  BY <1>5, <1>6, <1>7 DEF Conserved, Values

(* The sum that a call has passed on.                                       *)
LEMMA PassedAccounted ==
  ASSUME IInv, InWrite, NEW iov \in Window, iov = Head(call.iovs), ~call.waiting,
         sent' = Passed(call.fd, iov), told' = told,
         InWrite', call'.fd = call.fd,
         call'.count + (IF call'.waiting THEN Head(call'.iovs).len ELSE 0) = call.count + iov.len
  PROVE  \A s \in Sink : Accounted(s)'
<1>1. /\ call.fd \in Sink /\ call.count \in Nat /\ iov.len \in Nat
      /\ phase \in Before /\ call # Threw
  BY InWriteType DEF Before, Window
<1>2. Bytes(View(iov)) \in Seq(Byte) /\ Len(Bytes(View(iov))) = iov.len
  BY PassedType DEF IInv, Typed
<1> SUFFICES ASSUME NEW s \in Sink PROVE told[s] + Untold(s)' = Len(sent'[s])
  BY DEF Accounted
<1>3. told[s] \in Nat /\ told[s] + Untold(s) = Len(sent[s]) /\ sent[s] \in Seq(Byte)
  BY <1>1 DEF IInv, Typed, Sinks, Accounted
<1>4. sent'[s] = IF s = call.fd THEN sent[s] \o Bytes(View(iov)) ELSE sent[s]
  BY <1>1 DEF Passed, IInv, Typed, Sinks
<1>5. Len(sent'[s]) = Len(sent[s]) + (IF s = call.fd THEN iov.len ELSE 0)
  <2>1. Len(sent[s] \o Bytes(View(iov))) = Len(sent[s]) + iov.len
    BY <1>2, <1>3, ConcatLen
  <2>2. Len(sent[s]) \in Nat
    BY <1>3, LenProperties
  <2>3. CASE s = call.fd
    BY <1>4, <2>1, <2>3
  <2>4. CASE s # call.fd
    BY <1>4, <2>2, <2>4
  <2> QED
    BY <2>3, <2>4
<1>6. Untold(s)' = Untold(s) + (IF s = call.fd THEN iov.len ELSE 0)
  BY <1>1 DEF Untold
<1>7. Untold(s) \in Nat
  BY <1>1 DEF Untold
<1> QED
  BY <1>1, <1>3, <1>5, <1>6, <1>7

(* writev of the synchronous adapter holds the bytes back.                  *)
LEMMA SyncWriteStep ==
  ASSUME IInv, UNCHANGED start, SyncWriteIov
  PROVE  IInv' /\ [Out!Next]_Out!vars
<1> PICK s, iov : s = call.fd /\ iov = Head(call.iovs)
  OBVIOUS
<1>1. /\ InWrite /\ call.iovs # <<>> /\ iov.len > 0 /\ ~asyncify
      /\ UNCHANGED <<mem, stdin, queue, sink, received, told, task>>
      /\ \/ call' = Threw /\ UNCHANGED <<output, sent>>
         \/ /\ output' = Buffered(s, Bytes(View(iov))) /\ sent' = Passed(s, iov)
            /\ call' = [call EXCEPT !.iovs = Tail(call.iovs), !.count = call.count + iov.len]
  BY DEF SyncWriteIov, Writing, Counted
<1>2. /\ call \in Underway /\ s \in Sink /\ phase = "guest" /\ call # Threw
      /\ iov \in Window /\ Tail(call.iovs) \in Seq(Window) /\ iov.len \in Nat
      /\ call.waiting = FALSE
  BY <1>1, InWriteType, IovsType DEF IInv, InCall, Underway
<1>3. UNCHANGED <<phase, result, asyncify, buffer, offset>>
  BY <1>1 DEF start, stdin
<1>4. \A t \in Sink : queue[t] = <<>>
  BY <1>2, NothingQueued DEF Before
<1>5. \A t \in Sink : Queued(t)' /\ Ending(t)'
  BY <1>1, <1>3, <1>4 DEF IInv, Queued, Ending
<1>6. CASE call' = Threw /\ UNCHANGED <<output, sent>>
  <2>1. ~InWrite' /\ ~InRead' /\ call' # NoCall
    BY <1>6 DEF InWrite, InRead, Threw, NoCall
  <2>2. Typed' /\ InCall' /\ Closing'
    BY <1>1, <1>2, <1>3, <1>6, <2>1 DEF IInv, Typed, InCall, Closing, Calls
  <2>3. \A t \in Sink : Accounted(t)'
    BY <1>6 DEF Accounted, Threw
  <2>4. (\A t \in Sink : Conserved(t)') /\ [Out!Next]_Out!vars
    BY <1>1, <1>3, <1>6, OutputStays
  <2> QED
    BY <1>5, <2>2, <2>3, <2>4 DEF IInv
<1>7. CASE /\ output' = Buffered(s, Bytes(View(iov))) /\ sent' = Passed(s, iov)
           /\ call' = [call EXCEPT !.iovs = Tail(call.iovs), !.count = call.count + iov.len]
  <2>1. /\ call' \in Underway /\ call'.op = "write" /\ call'.fd = s
        /\ call'.count = call.count + iov.len /\ call'.waiting = FALSE
    BY <1>1, <1>2, <1>7, GoesOn DEF InWrite
  <2>2. Bytes(View(iov)) \in Seq(Byte)
    BY <1>2, PassedType DEF IInv, Typed
  <2>3. \A t \in Sink : output[t] \in Seq(Byte) /\ sent[t] \in Seq(Byte)
    BY DEF IInv, Typed, Sinks
  <2>4. output[s] \o Bytes(View(iov)) \in Seq(Byte) /\ sent[s] \o Bytes(View(iov)) \in Seq(Byte)
    BY <1>2, <2>2, <2>3, ConcatProperties
  <2>5. output' \in Sinks(Seq(Byte)) /\ sent' \in Sinks(Seq(Byte))
    BY <1>7, <2>4 DEF Buffered, Passed, IInv, Typed, Sinks
  <2>6. Typed'
    BY <1>1, <1>3, <2>1, <2>5 DEF IInv, Typed, Calls
  <2>7. InWrite' /\ ~InRead'
    BY <1>1, <2>1 DEF InWrite, InRead
  <2>8. InCall' /\ Closing'
    BY <1>2, <1>3, <2>1, <2>7 DEF InCall, Closing
  <2>9. \A t \in Sink : Accounted(t)'
    <3>1. call'.count + (IF call'.waiting THEN Head(call'.iovs).len ELSE 0) = call.count + iov.len
      BY <1>1, <1>2, <2>1 DEF Underway
    <3> QED
      BY <1>1, <1>2, <1>7, <2>1, <2>7, <3>1, PassedAccounted
  <2>10. (Flying(s) \o Held(s))' = Held(s) \o Bytes(View(iov))
    <3>1. Flying(s)' = <<>>
      BY <1>1, <1>2, <1>4 DEF Flying
    <3>2. Held(s)' = output[s] \o Bytes(View(iov)) /\ Held(s) = output[s]
      BY <1>1, <1>2, <1>3, <1>7 DEF Held, Buffered, After, IInv, Typed, Sinks
    <3> QED
      BY <2>4, <3>1, <3>2, ConcatEmptySeq
  <2>11. \A t \in Sink \ {s} : queue'[t] = <<>> /\ output'[t] = output[t]
    BY <1>1, <1>4, <1>7 DEF Buffered, IInv, Typed, Sinks
  <2>12. \A t \in Sink : Conserved(t)'
    BY <1>1, <1>2, <1>3, <1>4, <1>7, <2>10, <2>11, PassedConserved
  <2>13. Out!Write(s)
    BY <1>1, <1>2, <1>3, <1>7, PassedOn
  <2> QED
    BY <1>2, <1>5, <2>6, <2>8, <2>9, <2>12, <2>13 DEF IInv, Out!Next
<1> QED
  BY <1>1, <1>6, <1>7

(* writev of the asynchronous adapter passes a view on and waits.           *)
LEMMA AsyncWriteStep ==
  ASSUME IInv, UNCHANGED start, AsyncWriteIov
  PROVE  IInv' /\ [Out!Next]_Out!vars
<1> PICK s, iov : s = call.fd /\ iov = Head(call.iovs)
  OBVIOUS
<1>1. /\ InWrite /\ call.iovs # <<>> /\ iov.len > 0 /\ asyncify /\ ~call.waiting
      /\ sent' = Passed(s, iov) /\ call' = [call EXCEPT !.waiting = TRUE]
      /\ queue' = IF sink[s] = "errored" THEN queue
                  ELSE [queue EXCEPT ![s] = Append(queue[s], View(iov))]
      /\ UNCHANGED <<mem, stdin, output, capacity, sink, received, told, task>>
  BY DEF AsyncWriteIov, Writing
<1>2. /\ call \in Underway /\ s \in Sink /\ phase = "guest" /\ call # Threw
      /\ iov \in Window /\ iov.len \in Nat
  BY <1>1, InWriteType, IovsType DEF IInv
<1>3. UNCHANGED <<phase, result, asyncify, buffer, offset>>
  BY <1>1 DEF start, stdin
<1>4. \A t \in Sink : queue[t] = <<>>
  BY <1>1, <1>2, NothingQueued DEF Before
<1>5. /\ call' \in Underway /\ call'.op = "write" /\ call'.fd = s /\ call'.iovs = call.iovs
      /\ call'.count = call.count /\ call'.waiting = TRUE
  BY <1>1, <1>2 DEF Underway, InWrite
<1>6. InWrite' /\ ~InRead'
  BY <1>1, <1>5 DEF InWrite, InRead
<1>7. Bytes(View(iov)) \in Seq(Byte) /\ View(iov) \in Seq(Piece)
  BY <1>2, PassedType, ViewType DEF IInv, Typed
<1>8. Append(<<>>, View(iov)) = <<View(iov)>>
  BY <1>7
<1>9. \A t \in Sink : queue'[t] = IF t = s /\ sink[s] # "errored" THEN <<View(iov)>> ELSE <<>>
  BY <1>1, <1>2, <1>4, <1>8 DEF IInv, Typed
<1>10. sent[s] \o Bytes(View(iov)) \in Seq(Byte)
  BY <1>2, <1>7, ConcatProperties DEF IInv, Typed, Sinks
<1>11. Typed'
  <2>1. sent' \in Sinks(Seq(Byte))
    BY <1>1, <1>10 DEF Passed, IInv, Typed, Sinks
  <2>2. queue' \in [Sink -> {<<>>} \cup {<<chunk>> : chunk \in Seq(Piece)}]
    BY <1>1, <1>2, <1>4, <1>7, <1>8 DEF IInv, Typed
  <2> QED
    BY <1>1, <1>3, <1>5, <2>1, <2>2 DEF IInv, Typed, Calls
<1>12. InCall' /\ Closing'
  BY <1>1, <1>2, <1>3, <1>5, <1>6 DEF InCall, Closing
<1>13. sink[s] \in {"open", "errored"}
  BY <1>2 DEF IInv, Typed, Sinks, Ending, After
<1>14. \A t \in Sink : Queued(t)' /\ Ending(t)'
  BY <1>1, <1>3, <1>5, <1>6, <1>9, <1>13 DEF IInv, Queued, Ending
<1>15. \A t \in Sink : Accounted(t)'
  BY <1>1, <1>2, <1>5, <1>6, PassedAccounted
<1>16. sink[s] # "errored" => (Flying(s) \o Held(s))' = Held(s) \o Bytes(View(iov))
  <2> SUFFICES ASSUME sink[s] # "errored"
               PROVE  (Flying(s) \o Held(s))' = Held(s) \o Bytes(View(iov))
    OBVIOUS
  <2>1. Flying(s)' = Bytes(View(iov)) /\ Held(s)' = <<>> /\ Held(s) = <<>>
    <3>1. Bytes(View(iov))' = Bytes(View(iov))
      BY <1>1 DEF Bytes, Current, View
    <3>2. queue'[s] = <<View(iov)>> /\ Head(queue'[s]) = View(iov) /\ queue'[s] # <<>>
      BY <1>2, <1>9
    <3>3. Flying(s)' = Bytes(View(iov))'
      BY <3>2 DEF Flying
    <3> QED
      BY <1>1, <1>3, <3>1, <3>3 DEF Held
  <2> QED
    BY <1>7, <2>1, ConcatEmptySeq
<1>17. \A t \in Sink : Conserved(t)'
  <2>1. \A t \in Sink \ {s} : queue'[t] = <<>> /\ output'[t] = output[t]
    BY <1>1, <1>9
  <2> QED
    BY <1>1, <1>2, <1>3, <1>4, <1>16, <2>1, PassedConserved
<1>18. Out!Write(s)
  BY <1>1, <1>2, <1>3, PassedOn
<1> QED
  BY <1>2, <1>11, <1>12, <1>14, <1>15, <1>17, <1>18 DEF IInv, Out!Next

(* All steps of fd_write.                                                   *)
LEMMA WriteSteps ==
  ASSUME IInv, UNCHANGED start, WriteStep
  PROVE  IInv' /\ [Out!Next]_Out!vars
BY DevNullStep, WriteReturnStep, SkipIovStep, SyncWriteStep, AsyncWriteStep, AsyncWrittenStep
   DEF WriteStep, WriteSkip

-----------------------------------------------------------------------------
(* The host.                                                                *)

(* The parts of the invariant that look at the guest's call.                *)
LEMMA CallStays ==
  ASSUME IInv, UNCHANGED <<phase, asyncify, call, told, sent>>
  PROVE  InCall' /\ \A s \in Sink : Accounted(s)'
BY DEF IInv, InCall, InRead, InWrite, Accounted, Untold

(* The source fails: no output is concerned.                                *)
LEMMA SourceFailStep ==
  ASSUME IInv, UNCHANGED start, SourceFail
  PROVE  IInv' /\ [Out!Next]_Out!vars
<1>1. /\ UNCHANGED <<phase, result, asyncify, mem, call, buffer, offset, task>>
      /\ UNCHANGED <<output, queue, sink, received, sent, told>>
  BY DEF SourceFail, start, memory, stdout
<1>2. Typed' /\ Closing'
  BY <1>1 DEF IInv, Typed, Closing, AllDone
<1>3. \A s \in Sink : Queued(s)' /\ Ending(s)'
  BY <1>1 DEF IInv, Queued, Ending, InWrite
<1>4. (\A s \in Sink : Conserved(s)') /\ [Out!Next]_Out!vars
  BY <1>1, OutputStays
<1> QED
  BY <1>1, <1>2, <1>3, <1>4, CallStays DEF IInv

(* The bytes of an output, wherever they are.                               *)
LEMMA OutputTypes ==
  ASSUME IInv, NEW s \in Sink
  PROVE  /\ received[s] \in Seq(Copies) /\ Values(received[s]) \in Seq(Byte)
         /\ Bytes(received[s]) = Values(received[s])
         /\ sent[s] \in Seq(Byte) /\ output[s] \in Seq(Byte)
         /\ Flying(s) \in Seq(Byte) /\ Held(s) \in Seq(Byte)
<1>1. received[s] \in Seq(Copies) /\ sent[s] \in Seq(Byte) /\ output[s] \in Seq(Byte)
  BY DEF IInv, Typed, Sinks
<1>2. Values(received[s]) \in Seq(Byte) /\ Bytes(received[s]) = Values(received[s])
  BY <1>1, ValuesType, CopiesStay
<1>3. queue[s] # <<>> => Head(queue[s]) \in Seq(Piece)
  BY DEF IInv, Typed
<1>4. Flying(s) \in Seq(Byte)
  BY <1>3, BytesType DEF IInv, Typed, Flying
<1>5. Held(s) \in Seq(Byte)
  BY <1>1 DEF Held
<1> QED
  BY <1>1, <1>2, <1>4, <1>5

(* A sink accepts a chunk: what was flying has arrived.                     *)
LEMMA SinkAcceptStep ==
  ASSUME IInv, UNCHANGED start, NEW s \in Sink, SinkAccept(s)
  PROVE  IInv' /\ [Out!Next]_Out!vars
<1> PICK more : more = IF SinkCopies THEN Slice(Bytes(Head(queue[s]))) ELSE Head(queue[s])
  OBVIOUS
<1>1. /\ queue[s] # <<>> /\ sink[s] \in {"open", "closing"}
      /\ queue' = [queue EXCEPT ![s] = Tail(queue[s])]
      /\ received' = [received EXCEPT ![s] = received[s] \o more]
      /\ UNCHANGED <<phase, result, mem, call, asyncify, buffer, offset, output, sink, sent, told, task>>
  BY DEF SinkAccept, start, memory, stdin
<1>2. Tail(queue[s]) = <<>> /\ Head(queue[s]) \in Seq(Piece)
  <2>1. PICK chunk \in Seq(Piece) : queue[s] = <<chunk>>
    BY <1>1 DEF IInv, Typed
  <2> QED
    BY <2>1
<1>3. more \in Seq(Copies) /\ Values(more) = Flying(s)
  <2>1. Flying(s) = Bytes(Head(queue[s])) /\ Flying(s) \in Seq(Byte)
    BY <1>1, OutputTypes DEF Flying
  <2>2. CASE SinkCopies
    BY <2>1, <2>2, SliceValues
  <2>3. CASE ~SinkCopies
    <3>1. ~asyncify
      BY <2>3, SinksCopy DEF IInv, Typed
    <3>2. Head(queue[s]) \in Seq(Copies)
      BY <1>1, <3>1 DEF IInv, Queued
    <3> QED
      BY <2>1, <2>3, <3>2, CopiesStay
  <2> QED
    BY <2>2, <2>3
<1>4. /\ received[s] \o more \in Seq(Copies)
      /\ Values(received[s] \o more) = Values(received[s]) \o Flying(s)
  <2>1. received[s] \in Seq(Copies)
    BY OutputTypes
  <2> QED
    BY <1>3, <2>1, ValuesConcat
<1>5. Typed'
  <2>1. received' \in Sinks(Seq(Copies))
    BY <1>1, <1>4 DEF IInv, Typed, Sinks
  <2>2. queue' \in [Sink -> {<<>>} \cup {<<chunk>> : chunk \in Seq(Piece)}]
    BY <1>1, <1>2 DEF IInv, Typed
  <2> QED
    BY <1>1, <2>1, <2>2 DEF IInv, Typed
<1>6. \A t \in Sink : /\ queue'[t] = IF t = s THEN <<>> ELSE queue[t]
                      /\ received'[t] = IF t = s THEN received[s] \o more ELSE received[t]
  BY <1>1, <1>2 DEF IInv, Typed, Sinks
<1>7. \A t \in Sink : Queued(t)' /\ Ending(t)' /\ Closing'
  BY <1>1, <1>6 DEF IInv, Queued, Ending, Closing, AllDone, InWrite
<1>8. sent[s] = Values(received'[s]) \o Held(s)
  <2>1. sent[s] = Values(received[s]) \o (Flying(s) \o Held(s))
    BY <1>1 DEF IInv, Conserved
  <2>2. (Values(received[s]) \o Flying(s)) \o Held(s) = Values(received[s]) \o (Flying(s) \o Held(s))
    <3>1. Values(received[s]) \in Seq(Byte) /\ Flying(s) \in Seq(Byte) /\ Held(s) \in Seq(Byte)
      BY OutputTypes
    <3> QED
      BY <3>1, Associative
  <2> QED
    BY <1>4, <1>6, <2>1, <2>2
<1>9. Values(received'[s]) \in Seq(Byte) /\ IsPrefix(Values(received'[s]), sent[s])
  <2>1. Values(received'[s]) \in Seq(Byte) /\ Held(s) \in Seq(Byte)
    BY <1>4, <1>6, OutputTypes, ValuesType
  <2> QED
    BY <1>8, <2>1, PrefixConcat
<1>10. ASSUME NEW t \in Sink PROVE Conserved(t)'
  <2>1. CASE t = s
    <3>1. Flying(s)' = <<>> /\ Held(s)' = Held(s)
      BY <1>1, <1>6 DEF Flying, Held
    <3>2. <<>> \o Held(s) = Held(s)
      BY OutputTypes, ConcatEmptySeq
    <3>3. Values(received[s])' = Values(received'[s])
      BY DEF Values
    <3>4. IsPrefix(Values(received[s]), sent[s])'
      BY <1>1, <1>9 DEF Values, IsPrefix
    <3>5. sent'[s] = Values(received[s])' \o (Flying(s) \o Held(s))'
      BY <1>1, <1>8, <3>1, <3>2, <3>3
    <3> QED
      BY <2>1, <3>4, <3>5 DEF Conserved
  <2>2. CASE t # s
    <3>1. Flying(t)' = Flying(t) /\ Held(t)' = Held(t)
      BY <1>1, <1>6, <2>2 DEF Flying, Held, Bytes, Current
    <3> QED
      BY <1>1, <1>6, <2>2, <3>1 DEF IInv, Conserved, Values
  <2> QED
    BY <2>1, <2>2
<1>11. \A t \in Sink : Bytes(received[t])' = IF t = s THEN Values(received[s]) \o Flying(s)
                                             ELSE Bytes(received[t])
  <2>1. ASSUME NEW t \in Sink PROVE Bytes(received[t])' = Bytes(received'[t])
    BY <1>1 DEF Bytes, Current
  <2>2. Bytes(received'[s]) = Values(received[s]) \o Flying(s)
    BY <1>4, <1>6, CopiesStay
  <2> QED
    BY <1>6, <2>1, <2>2
<1>12. [Out!Next]_Out!vars
  <2>1. CASE Flying(s) = <<>>
    <3>1. Values(received[s]) \o <<>> = Values(received[s])
      BY OutputTypes, ConcatEmptySeq
    <3>2. \A t \in Sink : Bytes(received[t])' = Bytes(received[t])
      BY <1>11, <2>1, <3>1, OutputTypes
    <3> QED
      BY <1>1, <3>2 DEF Out!vars
  <2>2. CASE Flying(s) # <<>>
    <3>1. Values(received[s]) \in Seq(Byte) /\ Flying(s) \in Seq(Byte)
      BY OutputTypes
    <3>2. Out!Longer(Values(received[s]), Values(received[s]) \o Flying(s))
      BY <2>2, <3>1, ConcatLonger
    <3>3. Out!Longer(Bytes(received[s]), Bytes(received[s])')
      BY <1>11, <3>2, OutputTypes
    <3>4. Out!IsPrefix(Bytes(received[s])', sent[s])
      BY <1>4, <1>6, <1>9, <1>11 DEF Out!IsPrefix, IsPrefix
    <3>5. Out!Arrive(s)
      BY <1>1, <1>11, <3>3, <3>4 DEF Out!Arrive
    <3> QED
      BY <3>5 DEF Out!Next
  <2> QED
    BY <2>1, <2>2
<1>13. InCall' /\ \A t \in Sink : Accounted(t)'
  BY <1>1, CallStays
<1>14. Closing'
  BY <1>1 DEF IInv, Closing, AllDone
<1> QED
  BY <1>5, <1>7, <1>10, <1>12, <1>13, <1>14 DEF IInv

(* A sink ends when nothing is flying or held back any more.                *)
LEMMA SinkCloseStep ==
  ASSUME IInv, UNCHANGED start, NEW s \in Sink, SinkClose(s)
  PROVE  IInv' /\ [Out!Next]_Out!vars
<1>1. /\ sink[s] = "closing" /\ queue[s] = <<>> /\ sink' = [sink EXCEPT ![s] = "closed"]
      /\ UNCHANGED <<phase, result, mem, call, asyncify, buffer, offset, output, queue,
                     received, sent, told, task>>
  BY DEF SinkClose, start, memory, stdin
<1>2. \A t \in Sink : sink'[t] = IF t = s THEN "closed" ELSE sink[t]
  BY <1>1 DEF IInv, Typed, Sinks
<1>3. Typed' /\ Closing'
  BY <1>1 DEF IInv, Typed, Sinks, Closing, AllDone
<1>4. InCall' /\ \A t \in Sink : Accounted(t)'
  BY <1>1, CallStays
<1>5. \A t \in Sink : Queued(t)' /\ Ending(t)'
  BY <1>1, <1>2 DEF IInv, Queued, Ending, InWrite
<1>6. ASSUME NEW t \in Sink PROVE Flying(t)' = Flying(t) /\ Held(t)' = Held(t)
  BY <1>1 DEF Flying, Held, Bytes, Current
<1>7. \A t \in Sink : Conserved(t)'
  BY <1>1, <1>2, <1>6 DEF IInv, Conserved, Values
<1>8. sent[s] = Bytes(received[s])
  <2>1. Flying(s) = <<>> /\ Held(s) = <<>>
    BY <1>1 DEF IInv, Ending, Flying, Held
  <2>2. sent[s] = Values(received[s]) \o (<<>> \o <<>>)
    BY <1>1, <2>1 DEF IInv, Conserved
  <2> QED
    BY <2>2, OutputTypes, ConcatEmptySeq
<1>9. \A t \in Sink : Bytes(received[t])' = Bytes(received[t])
  BY <1>1 DEF Bytes, Current
<1>10. Out!Close(s)
  <2> DEFINE seen == [t \in Sink |-> IF sink[t] = "closing" THEN "open" ELSE sink[t]]
  <2>1. seen' = [seen EXCEPT ![s] = "closed"]
    BY <1>2
  <2>2. seen[s] = "open"
    BY <1>1
  <2>3. [t \in Sink |-> Bytes(received[t])]' = [t \in Sink |-> Bytes(received[t])]
    BY <1>9
  <2> QED
    BY <1>1, <1>8, <2>1, <2>2, <2>3 DEF Out!Close
<1> QED
  BY <1>3, <1>4, <1>5, <1>7, <1>10 DEF IInv, Out!Next

(* A sink fails: what it has is still a prefix.                             *)
LEMMA SinkFailStep ==
  ASSUME IInv, UNCHANGED start, NEW s \in Sink, SinkFail(s)
  PROVE  IInv' /\ [Out!Next]_Out!vars
<1>1. /\ sink[s] \in {"open", "closing"} /\ sink' = [sink EXCEPT ![s] = "errored"]
      /\ queue' = [queue EXCEPT ![s] = <<>>]
      /\ UNCHANGED <<phase, result, mem, call, asyncify, buffer, offset, output,
                     received, sent, told, task>>
  BY DEF SinkFail, start, memory, stdin
<1>2. \A t \in Sink : /\ sink'[t] = IF t = s THEN "errored" ELSE sink[t]
                      /\ queue'[t] = IF t = s THEN <<>> ELSE queue[t]
  BY <1>1 DEF IInv, Typed, Sinks
<1>3. Typed' /\ Closing'
  BY <1>1 DEF IInv, Typed, Sinks, Closing, AllDone
<1>4. InCall' /\ \A t \in Sink : Accounted(t)'
  BY <1>1, CallStays
<1>5. \A t \in Sink : Queued(t)' /\ Ending(t)'
  BY <1>1, <1>2 DEF IInv, Queued, Ending, InWrite
<1>6. ASSUME NEW t \in Sink \ {s} PROVE Flying(t)' = Flying(t) /\ Held(t)' = Held(t)
  BY <1>1, <1>2 DEF Flying, Held, Bytes, Current
<1>7. \A t \in Sink : Conserved(t)'
  BY <1>1, <1>2, <1>6 DEF IInv, Conserved, Values
<1>8. \A t \in Sink : Bytes(received[t])' = Bytes(received[t])
  BY <1>1 DEF Bytes, Current
<1>9. Out!Abandon(s)
  <2> DEFINE seen == [t \in Sink |-> IF sink[t] = "closing" THEN "open" ELSE sink[t]]
  <2>1. seen' = [seen EXCEPT ![s] = "errored"]
    BY <1>2
  <2>2. seen[s] = "open"
    BY <1>1
  <2>3. [t \in Sink |-> Bytes(received[t])]' = [t \in Sink |-> Bytes(received[t])]
    BY <1>8
  <2> QED
    BY <1>1, <2>1, <2>2, <2>3 DEF Out!Abandon
<1> QED
  BY <1>3, <1>4, <1>5, <1>7, <1>9 DEF IInv, Out!Next

(* All steps of the host.                                                   *)
LEMMA HostSteps ==
  ASSUME IInv, UNCHANGED start, HostStep
  PROVE  IInv' /\ [Out!Next]_Out!vars
BY SourceFailStep, SinkAcceptStep, SinkCloseStep, SinkFailStep DEF HostStep

-----------------------------------------------------------------------------
(* The jobs of preRun, close and postRun.                                   *)

(* stdin is no sink.                                                        *)
LEMMA SinksAreStreams == \A s \in Sink : s \in Stream /\ s # 0
BY StreamsAssumption DEF Sink

(* A chunk alone in a queue is its head.                                    *)
LEMMA OneChunk == \A chunk : Head(<<chunk>>) = chunk
OBVIOUS

(* preRun collects the input.                                               *)
LEMMA PreRunStep ==
  ASSUME IInv, UNCHANGED start, PreRunRead \/ PreRunEnd
  PROVE  IInv' /\ [Out!Next]_Out!vars
<1>1. /\ task[0] = "reading"
      /\ UNCHANGED <<phase, result, asyncify, mem, call, output, queue, sink, received, sent, told>>
      /\ \/ /\ \E n \in ChunkLen : Deliver(n) /\ buffer' = buffer \o Chunk(n)
            /\ UNCHANGED task
         \/ UNCHANGED <<buffer, offset>> /\ \E how \in {"idle", "failed"} :
                                              task' = [task EXCEPT ![0] = how]
  BY DEF PreRunRead, PreRunEnd, Done, Failed, start, memory, stdin, stdout
<1>2. buffer' \in Seq(Byte) /\ offset' \in 0 .. Len(Input)
  <2>1. CASE UNCHANGED <<buffer, offset>>
    BY <2>1 DEF IInv, Typed
  <2>2. ASSUME NEW n \in ChunkLen, Deliver(n), buffer' = buffer \o Chunk(n)
        PROVE  buffer' \in Seq(Byte) /\ offset' \in 0 .. Len(Input)
    <3>1. Chunk(n) \in Seq(Byte) /\ offset + n \in 0 .. Len(Input) /\ buffer \in Seq(Byte)
      BY ChunkType DEF IInv, Typed
    <3> QED
      BY <2>2, <3>1, ConcatProperties DEF Deliver
  <2> QED
    BY <1>1, <2>1, <2>2
<1>3. /\ task' \in [Stream -> {"idle", "reading", "writing", "closing", "failed"}]
      /\ \A s \in Sink : task'[s] = task[s]
  BY <1>1, SinksAreStreams DEF IInv, Typed, Stream
<1>4. Typed'
  BY <1>1, <1>2, <1>3 DEF IInv, Typed
<1>5. Closing'
  BY <1>1 DEF IInv, Closing, AllDone, Stream
<1>6. \A s \in Sink : Queued(s)' /\ Ending(s)'
  BY <1>1, <1>3 DEF IInv, Queued, Ending, InWrite
<1>7. InCall' /\ \A s \in Sink : Accounted(s)'
  BY <1>1, CallStays
<1>8. (\A s \in Sink : Conserved(s)') /\ [Out!Next]_Out!vars
  BY <1>1, OutputStays
<1> QED
  BY <1>4, <1>5, <1>6, <1>7, <1>8 DEF IInv

(* The write of postRun is settled, and the close begins.                   *)
LEMMA PostRunWrittenStep ==
  ASSUME IInv, UNCHANGED start, NEW s \in Sink, PostRunWritten(s)
  PROVE  IInv' /\ [Out!Next]_Out!vars
<1>1. /\ task[s] = "writing" /\ s \in Stream
      /\ UNCHANGED <<phase, result, asyncify, mem, call, buffer, offset,
                     output, queue, received, sent, told>>
      /\ \/ sink[s] = "errored" /\ task' = [task EXCEPT ![s] = "failed"] /\ sink' = sink
         \/ /\ sink[s] # "errored" /\ queue[s] = <<>>
            /\ task' = [task EXCEPT ![s] = "closing"] /\ sink' = [sink EXCEPT ![s] = "closing"]
  BY SinksAreStreams DEF PostRunWritten, Failed, start, memory, stdin
<1>2. sink[s] \in {"open", "errored"} /\ phase \in After /\ ~asyncify
  BY <1>1 DEF IInv, Ending
<1>3. \A t \in Sink \ {s} : task'[t] = task[t] /\ sink'[t] = sink[t]
  BY <1>1, SinksAreStreams DEF IInv, Typed, Sinks
<1>4. \/ sink[s] = "errored" /\ sink'[s] = "errored" /\ task'[s] = "failed"
      \/ sink[s] = "open" /\ sink'[s] = "closing" /\ task'[s] = "closing" /\ queue[s] = <<>>
  BY <1>1, <1>2 DEF IInv, Typed, Sinks
<1>5. Typed'
  BY <1>1 DEF IInv, Typed, Sinks
<1>6. Closing'
  BY <1>1, <1>2 DEF Closing, After
<1>7. \A t \in Sink : Queued(t)'
  BY <1>1, <1>3, <1>4 DEF IInv, Queued, InWrite
<1>8. Ending(s)'
  BY <1>1, <1>2, <1>4 DEF IInv, Ending, After, Before
<1>9. \A t \in Sink \ {s} : Ending(t)'
  BY <1>1, <1>3 DEF IInv, Ending
<1>10. InCall' /\ \A t \in Sink : Accounted(t)'
  BY <1>1, CallStays
<1>11. \A t \in Sink : sink'[t] = sink[t] \/ {sink[t], sink'[t]} \subseteq {"open", "closing"}
  BY <1>3, <1>4
<1>12. (\A t \in Sink : Conserved(t)') /\ [Out!Next]_Out!vars
  BY <1>1, <1>11, OutputStays
<1> QED
  BY <1>5, <1>6, <1>7, <1>8, <1>9, <1>10, <1>12 DEF IInv

(* A close is settled.                                                      *)
LEMMA ClosedStep ==
  ASSUME IInv, UNCHANGED start, NEW s \in Sink, Closed(s)
  PROVE  IInv' /\ [Out!Next]_Out!vars
<1>1. /\ task[s] = "closing" /\ s \in Stream
      /\ UNCHANGED <<phase, result, asyncify, mem, call, buffer, offset,
                     output, queue, sink, received, sent, told>>
      /\ \/ sink[s] = "closed" /\ task' = [task EXCEPT ![s] = "idle"]
         \/ task' = [task EXCEPT ![s] = "failed"]
  BY SinksAreStreams DEF Closed, Failed, Done, start, memory, stdin, stdout
<1>2. \A t \in Sink \ {s} : task'[t] = task[t]
  BY <1>1, SinksAreStreams DEF IInv, Typed
<1>3. (sink[s] = "closed" /\ task'[s] = "idle") \/ task'[s] = "failed"
  BY <1>1 DEF IInv, Typed
<1>4. Typed'
  BY <1>1 DEF IInv, Typed
<1>5. Closing'
  BY <1>1 DEF IInv, Closing, AllDone
<1>6. \A t \in Sink : Queued(t)'
  BY <1>1 DEF IInv, Queued, InWrite
<1>7. Ending(s)'
  BY <1>1, <1>3 DEF IInv, Ending
<1>8. \A t \in Sink \ {s} : Ending(t)'
  BY <1>1, <1>2 DEF IInv, Ending
<1>9. InCall' /\ \A t \in Sink : Accounted(t)'
  BY <1>1, CallStays
<1>10. (\A t \in Sink : Conserved(t)') /\ [Out!Next]_Out!vars
  BY <1>1, OutputStays
<1> QED
  BY <1>4, <1>5, <1>6, <1>7, <1>8, <1>9, <1>10 DEF IInv

-----------------------------------------------------------------------------
(* The phases of start.                                                     *)

(* The finally block begins outside of any call.                            *)
LEMMA FinallyStep ==
  ASSUME IInv, phase \in Before, call \in {NoCall, Threw}, NEW how, Finally(how), call' = NoCall
  PROVE  IInv' /\ [Out!Next]_Out!vars
<1>1. /\ phase' = "close"
      /\ task' = [s \in Stream |-> IF s \in Sink /\ asyncify THEN "closing" ELSE "idle"]
      /\ sink' = [s \in Sink |-> IF asyncify /\ sink[s] = "open" THEN "closing" ELSE sink[s]]
      /\ UNCHANGED <<mem, asyncify, buffer, offset, output, queue, received, sent, told>>
  BY DEF Finally, CloseAll, stdin
<1>2. ~InWrite' /\ ~InRead' /\ ~InWrite
  BY DEF InWrite, InRead, NoCall, Threw
<1>3. \A s \in Sink : queue[s] = <<>>
  BY <1>2, NothingQueued
<1>4. \A s \in Sink : s \in Stream
  BY SinksAreStreams
<1>5. Typed'
  BY <1>1 DEF IInv, Typed, Sinks, Calls
<1>6. InCall' /\ Closing' /\ \A s \in Sink : Queued(s)' /\ Accounted(s)'
  BY <1>1, <1>2, <1>3 DEF InCall, Closing, AllDone, Queued, Accounted, Before
<1>7. ASSUME NEW s \in Sink PROVE Ending(s)'
  BY <1>1, <1>4 DEF IInv, Ending, Before, After
<1>8. \A s \in Sink : sink'[s] = sink[s] \/ {sink[s], sink'[s]} \subseteq {"open", "closing"}
  BY <1>1
<1>9. phase \in After <=> phase' \in After
  BY <1>1 DEF Before, After
<1>10. (\A s \in Sink : Conserved(s)') /\ [Out!Next]_Out!vars
  BY <1>1, <1>8, <1>9, OutputStays
<1> QED
  BY <1>5, <1>6, <1>7, <1>10 DEF IInv

(* The guest is about to be started, or starts.                             *)
LEMMA BeforeStep ==
  ASSUME IInv, phase \in {"new", "preRun"}, phase' \in Before, result' = result,
         UNCHANGED <<memory, stdin, stdout>>, task' = task \/ task' = PreRunAll
  PROVE  IInv' /\ [Out!Next]_Out!vars
<1>1. UNCHANGED <<asyncify, mem, call, buffer, offset, output, queue, sink, received, sent, told>>
  BY DEF memory, stdin, stdout
<1>2. call = NoCall /\ ~InWrite /\ ~InRead /\ ~InWrite' /\ ~InRead'
  BY <1>1 DEF IInv, InCall, InWrite, InRead, NoCall
<1>3. phase \in Before /\ (phase \in After <=> phase' \in After) /\ phase' # "close"
  BY DEF Before, After
<1>4. \A s \in Sink : s \in Stream /\ s # 0
  BY SinksAreStreams
<1>5. \A s \in Sink : task'[s] = "idle"
  BY <1>3, <1>4 DEF IInv, Ending, PreRunAll
<1>6. Typed'
  BY <1>1 DEF IInv, Typed, PreRunAll
<1>7. InCall' /\ Closing'
  BY <1>1, <1>2, <1>3 DEF InCall, Closing
<1>8. \A s \in Sink : Queued(s)' /\ Ending(s)' /\ Accounted(s)'
  BY <1>1, <1>2, <1>3, <1>5 DEF IInv, Queued, Ending, Accounted, Untold, Before, After, NoCall, Threw
<1>9. (\A s \in Sink : Conserved(s)') /\ [Out!Next]_Out!vars
  BY <1>1, <1>3, OutputStays
<1> QED
  BY <1>6, <1>7, <1>8, <1>9 DEF IInv

(* start is called.                                                         *)
LEMMA StartStep ==
  ASSUME IInv, Start
  PROVE  IInv' /\ [Out!Next]_Out!vars
<1>1. phase = "new" /\ phase \in Before /\ call = NoCall
  BY DEF Start, IInv, InCall, Before
<1>2. CASE Finally("error") /\ UNCHANGED call
  BY <1>1, <1>2, FinallyStep
<1>3. CASE /\ phase' = "preRun" /\ task' = PreRunAll
           /\ UNCHANGED <<outcome, result, memory, stdin, stdout>>
  BY <1>1, <1>3, BeforeStep DEF Before
<1> QED
  BY <1>2, <1>3 DEF Start

(* preRun is settled: the guest starts, or the finally block.               *)
LEMMA PreRunSettledStep ==
  ASSUME IInv, PreRunSettled
  PROVE  IInv' /\ [Out!Next]_Out!vars
<1>1. phase = "preRun" /\ phase \in Before /\ call = NoCall
  BY DEF PreRunSettled, IInv, InCall, Before
<1>2. CASE Finally("error") /\ UNCHANGED call
  BY <1>1, <1>2, FinallyStep
<1>3. CASE phase' = "guest" /\ UNCHANGED <<outcome, result, streams>>
  <2>1. UNCHANGED <<memory, stdin, stdout, task, result>>
    BY <1>3 DEF streams
  <2> QED
    BY <1>1, <1>3, <2>1, BeforeStep DEF Before
<1> QED
  BY <1>2, <1>3 DEF PreRunSettled

(* The guest ends.                                                          *)
LEMMA GuestEndsStep ==
  ASSUME IInv, GuestEnds
  PROVE  IInv' /\ [Out!Next]_Out!vars
<1>1. phase \in Before /\ call \in {NoCall, Threw} /\ call' = NoCall
  BY DEF GuestEnds, Before
<1>2. PICK how : Finally(how)
  BY DEF GuestEnds
<1> QED
  BY <1>1, <1>2, FinallyStep

(* start is settled.                                                        *)
LEMMA SettleStep ==
  ASSUME IInv, phase \in {"close", "postRun"}, NEW value, Settle(value),
         phase = "close" => AnyFailed /\ value = Throws("stream"),
         (AnyFailed /\ value = Throws("stream")) \/ AllDone
  PROVE  IInv' /\ [Out!Next]_Out!vars
<1>1. phase' = "settled" /\ result' = value
      /\ UNCHANGED <<asyncify, mem, call, buffer, offset, output, queue, sink, received, sent, told, task>>
  BY DEF Settle, streams, memory, stdin, stdout
<1>2. call = NoCall /\ ~InWrite /\ ~InRead /\ ~InWrite' /\ ~InRead'
  BY <1>1 DEF IInv, InCall, InWrite, InRead, NoCall
<1>3. phase = "close" => asyncify
  BY DEF IInv, Closing, AllDone, AnyFailed
<1>4. \A s \in Sink : s \in Stream
  BY SinksAreStreams
<1>5. Typed' /\ InCall' /\ Closing'
  BY <1>1, <1>2 DEF IInv, Typed, InCall, Closing, After
<1>6. \A s \in Sink : Queued(s)' /\ Accounted(s)'
  BY <1>1, <1>2, <1>3 DEF IInv, Queued, Accounted, Before, After
<1>7. ASSUME NEW s \in Sink PROVE Ending(s)'
  BY <1>1, <1>3, <1>4 DEF IInv, Ending, Before, After, AllDone
<1>8. asyncify \/ (phase \in After <=> phase' \in After)
  BY <1>1, <1>3 DEF After
<1>9. (\A s \in Sink : Conserved(s)') /\ [Out!Next]_Out!vars
  BY <1>1, <1>8, OutputStays
<1> QED
  BY <1>5, <1>6, <1>7, <1>9 DEF IInv

(* postRun passes on what was held back.                                    *)
LEMMA PostRunStep ==
  ASSUME IInv, phase = "close", AllDone, phase' = "postRun", PostRunAll,
         UNCHANGED <<outcome, result, memory, stdin, output, capacity, sink, received, sent, told>>
  PROVE  IInv' /\ [Out!Next]_Out!vars
<1>1. /\ task' = [s \in Stream |-> IF s \in Sink /\ ~asyncify THEN "writing" ELSE "idle"]
      /\ queue' = [s \in Sink |-> IF asyncify \/ sink[s] = "errored" THEN queue[s]
                                  ELSE Append(queue[s], Slice(output[s]))]
      /\ UNCHANGED <<mem, call, asyncify, buffer, offset>>
  BY DEF PostRunAll, memory, stdin
<1>2. call = NoCall /\ ~InWrite /\ ~InRead /\ ~InWrite' /\ ~InRead'
  BY <1>1 DEF IInv, InCall, InWrite, InRead, NoCall
<1>3. \A s \in Sink : queue[s] = <<>>
  BY <1>2 DEF IInv, Queued, After
<1>4. \A s \in Sink : s \in Stream
  BY SinksAreStreams
<1>5. \A s \in Sink : /\ output[s] \in Seq(Byte) /\ sent[s] \in Seq(Byte)
                      /\ Slice(output[s]) \in Seq(Copies) /\ Values(Slice(output[s])) = output[s]
  BY OutputTypes, SliceValues
<1>6. \A s \in Sink : Append(<<>>, Slice(output[s])) = <<Slice(output[s])>>
  BY <1>5
<1>7. \A s \in Sink : queue'[s] = IF asyncify \/ sink[s] = "errored" THEN <<>>
                                  ELSE <<Slice(output[s])>>
  BY <1>1, <1>3, <1>6
<1>8. Typed'
  <2>1. \A s \in Sink : Slice(output[s]) \in Seq(Piece)
    <3> SUFFICES ASSUME NEW s \in Sink PROVE Slice(output[s]) \in Seq(Piece)
      OBVIOUS
    <3>1. Slice(output[s]) \in Seq(Copies)
      BY <1>5
    <3>2. \A i \in 1 .. Len(Slice(output[s])) : Slice(output[s])[i] \in Piece
      BY <3>1, ElementOfSeq DEF Copies
    <3> QED
      BY <3>1, <3>2, LenProperties
  <2>2. queue' \in [Sink -> {<<>>} \cup {<<chunk>> : chunk \in Seq(Piece)}]
    BY <1>1, <1>3, <1>6, <2>1
  <2> QED
    BY <1>1, <2>2 DEF IInv, Typed, After
<1>9. InCall' /\ Closing'
  BY <1>1, <1>2 DEF InCall, Closing
<1>10. \A s \in Sink : sink[s] \in {"closing", "closed"} => asyncify
  BY DEF IInv, Ending, After
<1>11. \A s \in Sink : sink[s] \in {"open", "closing", "closed", "errored"}
  BY DEF IInv, Typed, Sinks
<1>12. ASSUME NEW s \in Sink PROVE Queued(s)' /\ Accounted(s)'
  <2>1. Accounted(s)'
    BY DEF Accounted, Before
  <2>2. CASE asyncify \/ sink[s] = "errored"
    BY <1>7, <2>1, <2>2 DEF Queued
  <2>3. CASE ~(asyncify \/ sink[s] = "errored")
    <3>1. queue'[s] = <<Slice(output[s])>> /\ Head(queue'[s]) = Slice(output[s])
      BY <1>7, <2>3, OneChunk
    <3> QED
      BY <1>1, <1>5, <1>10, <1>11, <2>1, <2>3, <3>1 DEF Queued, After
  <2> QED
    BY <2>2, <2>3
<1>13. ASSUME NEW s \in Sink PROVE Ending(s)'
  BY <1>1, <1>4, <1>10, <1>11 DEF IInv, Ending, Before, After, AllDone
<1>14. ASSUME NEW s \in Sink PROVE Conserved(s)'
  <2>1. IsPrefix(Values(received[s]), sent[s])'
    BY DEF IInv, Conserved, Values, IsPrefix
  <2>2. ASSUME sink[s] # "errored"
        PROVE  sent'[s] = Values(received[s])' \o (Flying(s) \o Held(s))'
    <3>1. sent[s] = Values(received[s]) \o (<<>> \o Held(s))
      BY <1>3, <2>2 DEF IInv, Conserved, Flying
    <3>2. Values(received[s])' = Values(received[s]) /\ Held(s)' = <<>>
      BY DEF Values, Held, After
    <3>3. CASE asyncify
      BY <1>7, <3>1, <3>2, <3>3 DEF Flying, Held
    <3>4. CASE ~asyncify
      <4>1. queue'[s] = <<Slice(output[s])>> /\ Head(queue'[s]) = Slice(output[s])
        BY <1>7, <2>2, <3>4, OneChunk
      <4>2. Flying(s)' = Bytes(Slice(output[s]))' /\ Slice(output[s])' = Slice(output[s])
        BY <4>1 DEF Flying, Slice
      <4>3. Flying(s)' = output[s] /\ Held(s) = output[s]
        BY <1>5, <3>4, <4>2, CopiesStay DEF Held, After
      <4>4. output[s] \o <<>> = <<>> \o output[s]
        BY <1>5, ConcatEmptySeq
      <4> QED
        BY <3>1, <3>2, <4>3, <4>4
    <3> QED
      BY <3>3, <3>4
  <2> QED
    BY <2>1, <2>2 DEF Conserved
<1>15. \A s \in Sink : Bytes(received[s])' = Bytes(received[s])
  BY <1>1 DEF Bytes, Current
<1>16. UNCHANGED Out!vars
  BY <1>15 DEF Out!vars
<1> QED
  BY <1>8, <1>9, <1>12, <1>13, <1>14, <1>16 DEF IInv

(* All steps of start's promises.                                           *)
LEMMA AwaitSteps ==
  ASSUME IInv, Await
  PROVE  IInv' /\ [Out!Next]_Out!vars
<1>1. CASE CloseSettled
  <2>1. CASE AnyFailed /\ Settle(Throws("stream"))
    BY <1>1, <2>1, SettleStep DEF CloseSettled
  <2> QED
    BY <1>1, <2>1, PostRunStep DEF CloseSettled
<1>2. CASE PostRunSettled
  <2>1. CASE AnyFailed /\ Settle(Throws("stream"))
    BY <1>2, <2>1, SettleStep DEF PostRunSettled
  <2>2. CASE AllDone /\ Settle(Answer)
    BY <1>2, <2>2, SettleStep DEF PostRunSettled
  <2> QED
    BY <1>2, <2>1, <2>2 DEF PostRunSettled
<1> QED
  BY <1>1, <1>2, PreRunSettledStep DEF Await

-----------------------------------------------------------------------------
(* The invariant of start, and what it implies.                             *)

(* A new WASI object has passed nothing on.                                 *)
LEMMA IInvInit == Init => IInv /\ Out!Init
<1> SUFFICES ASSUME Init PROVE IInv /\ Out!Init
  OBVIOUS
<1>1. PICK byte \in Byte : StreamsInit(byte)
  BY DEF Init
<1>2. /\ phase = "new" /\ call = NoCall /\ task = [s \in Stream |-> "idle"]
      /\ asyncify \in StreamStdio /\ mem = [a \in Address |-> byte] /\ buffer = <<>> /\ offset = 0
      /\ output = [s \in Sink |-> <<>>] /\ queue = [s \in Sink |-> <<>>]
      /\ sink = [s \in Sink |-> "open"] /\ received = [s \in Sink |-> <<>>]
      /\ sent = [s \in Sink |-> <<>>] /\ told = [s \in Sink |-> 0]
  BY <1>1 DEF Init, StreamsInit
<1>3. ~InWrite /\ ~InRead
  BY <1>2 DEF InWrite, InRead, NoCall
<1>4. <<>> \in Seq(Byte) /\ <<>> \in Seq(Copies) /\ Len(Input) \in Nat
  BY StreamsAssumption, LenProperties
<1>5. Typed
  BY <1>2, <1>4 DEF Typed, Sinks, Before, Calls
<1>6. InCall /\ Closing
  BY <1>2, <1>3 DEF InCall, Closing
<1>7. Values(<<>>) = <<>> /\ Bytes(<<>>) = <<>> /\ <<>> \o <<>> = <<>> /\ IsPrefix(<<>>, <<>>)
  <2>1. Values(<<>>) \in Seq(Byte) /\ Len(Values(<<>>)) = 0 /\ Bytes(<<>>) = Values(<<>>)
    BY <1>4, ValuesType, CopiesStay
  <2>2. Values(<<>>) = <<>>
    BY <2>1
  <2>3. <<>> \o <<>> = <<>>
    BY <1>4, ConcatEmptySeq
  <2>4. IsPrefix(<<>>, <<>>)
    BY <1>4, PrefixRefl
  <2> QED
    BY <2>1, <2>2, <2>3, <2>4
<1>8. ASSUME NEW s \in Sink
      PROVE  Queued(s) /\ Ending(s) /\ Conserved(s) /\ Accounted(s)
  <2>1. /\ queue[s] = <<>> /\ sink[s] = "open" /\ received[s] = <<>> /\ sent[s] = <<>>
        /\ output[s] = <<>> /\ told[s] = 0 /\ task[s] = "idle"
    BY <1>2, SinksAreStreams
  <2>2. Queued(s) /\ Ending(s)
    BY <1>2, <2>1 DEF Queued, Ending
  <2>3. Flying(s) = <<>> /\ Held(s) = <<>> /\ Untold(s) = 0
    BY <1>3, <2>1 DEF Flying, Held, Untold
  <2>4. Conserved(s)
    BY <1>7, <2>1, <2>3 DEF Conserved
  <2>5. Accounted(s)
    BY <2>1, <2>3 DEF Accounted
  <2> QED
    BY <2>2, <2>4, <2>5
<1>9. Out!Init
  BY <1>2, <1>7 DEF Out!Init
<1> QED
  BY <1>5, <1>6, <1>8, <1>9 DEF IInv

(* Every step preserves the invariant and is one of a byte stream, or none. *)
LEMMA IInvStep == IInv /\ [Next]_vars => IInv' /\ [Out!Next]_Out!vars
<1> SUFFICES ASSUME IInv, [Next]_vars PROVE IInv' /\ [Out!Next]_Out!vars
  OBVIOUS
<1>1. CASE Start
  BY <1>1, StartStep
<1>2. CASE Guest
  BY <1>2, GuestStoresStep, GuestCallsStep, GuestEndsStep DEF Guest
<1>3. CASE Import
  BY <1>3, ReadSteps, WriteSteps DEF Import
<1>4. CASE Task
  BY <1>4, PreRunStep, PostRunWrittenStep, ClosedStep DEF Task, TaskStep
<1>5. CASE Host
  BY <1>5, HostSteps DEF Host
<1>6. CASE Await
  BY <1>6, AwaitSteps
<1>7. CASE UNCHANGED vars
  <2>1. UNCHANGED <<phase, result, mem, call, asyncify, buffer, offset, source, got, output, queue,
                    sink, received, sent, told, task>>
    BY <1>7 DEF vars, start, streams, memory, stdin, stdout
  <2>2. Typed' /\ Closing' /\ InCall'
    BY <2>1, CallStays DEF IInv, Typed, Closing, AllDone
  <2>3. \A s \in Sink : Queued(s)' /\ Ending(s)' /\ Accounted(s)'
    BY <2>1, CallStays DEF IInv, Queued, Ending, InWrite
  <2>4. (\A s \in Sink : Conserved(s)') /\ [Out!Next]_Out!vars
    BY <2>1, OutputStays
  <2> QED
    BY <2>2, <2>3, <2>4 DEF IInv
<1> QED
  BY <1>1, <1>2, <1>3, <1>4, <1>5, <1>6, <1>7 DEF Next

(* Every byte that fd_write has passed on is in one of the places that IInv *)
(* names, in order, and the counts of writev agree with it.                 *)
THEOREM Invariance == Spec => []IInv
<1> QED
  BY IInvInit, IInvStep, PTL DEF Spec

(* What has arrived is a prefix: a part of Conserved.                       *)
LEMMA IInvOutput == IInv => OutputIntact
<1> SUFFICES ASSUME IInv, NEW s \in Sink PROVE IsPrefix(Bytes(received[s]), sent[s])
  BY DEF OutputIntact
<1>1. Bytes(received[s]) = Values(received[s])
  BY OutputTypes
<1> QED
  BY <1>1 DEF IInv, Conserved

(* Between calls nothing is untold.                                         *)
LEMMA IInvCounted == IInv => WritesCounted
<1> SUFFICES ASSUME IInv, phase = "guest", call = NoCall, NEW s \in Sink
             PROVE  told[s] = Len(sent[s])
  BY DEF WritesCounted
<1>1. Untold(s) = 0 /\ call # Threw
  BY DEF Untold, InWrite, NoCall, Threw
<1>2. told[s] \in Nat /\ told[s] + Untold(s) = Len(sent[s])
  BY <1>1 DEF IInv, Typed, Sinks, Accounted, Before
<1> QED
  BY <1>1, <1>2

(* An ended sink has nothing flying or held back.                           *)
LEMMA IInvFlushed == IInv => AnswerMeansFlushed
<1> SUFFICES ASSUME IInv, phase = "settled", result # Throws("stream"), NEW s \in Sink
             PROVE  sink[s] = "closed" /\ Bytes(received[s]) = sent[s]
  BY DEF AnswerMeansFlushed
<1>1. sink[s] = "closed"
  BY DEF IInv, Ending
<1>2. Flying(s) = <<>> /\ Held(s) = <<>>
  BY <1>1 DEF IInv, Queued, Flying, Held, After
<1>3. sent[s] = Values(received[s]) \o (<<>> \o <<>>)
  BY <1>1, <1>2 DEF IInv, Conserved
<1> QED
  BY <1>1, <1>3, OutputTypes, ConcatEmptySeq

(* What has arrived at a sink is always the beginning of what the guest     *)
(* wrote, whatever the guest does with its memory, in both adapters and for *)
(* all vectors, buffers and inputs (writev, postRun of src/streams.ts).     *)
THEOREM ThmOutputIntact == Spec => []OutputIntact
BY Invariance, IInvOutput, PTL

(* The answers of fd_write add up to what was passed on (writev of both     *)
(* adapters in src/streams.ts).                                             *)
THEOREM ThmWritesCounted == Spec => []WritesCounted
BY Invariance, IInvCounted, PTL

(* start answers for the guest only when all outputs are complete and ended *)
(* (start in src/index.ts, close and postRun in src/streams.ts).            *)
THEOREM ThmAnswerMeansFlushed == Spec => []AnswerMeansFlushed
BY Invariance, IInvFlushed, PTL

(* The outputs of a run are byte streams: every step of start, the guest,   *)
(* the adapters and the host is one step of one stream, or of none.         *)
THEOREM ThmByteStreams == Spec => ByteStreams
<1>1. IInv /\ [Next]_vars => [Out!Next]_Out!vars
  BY IInvStep
<1>2. Init => Out!Init
  BY IInvInit
<1> QED
  BY <1>1, <1>2, Invariance, PTL DEF Spec, ByteStreams, Out!Spec
=============================================================================
