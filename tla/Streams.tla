------------------------------ MODULE Streams ------------------------------
(***************************************************************************)
(* The stdio streams of workers-wasi: the adapters of src/streams.ts       *)
(* between the host's web streams and the calls fd_read and fd_write that  *)
(* src/index.ts routes to them, and the part of the guest's memory that    *)
(* these calls touch.                                                      *)
(*                                                                         *)
(* An iteration of an adapter's loop over the buffers of a call is a step. *)
(* With streamStdio the asynchronous adapters wait in it for the host      *)
(* (asyncify suspends the guest meanwhile); without, the input is read     *)
(* before the guest starts and its output is handed over after its end.    *)
(*                                                                         *)
(* The host's streams are external: a source that delivers its bytes in    *)
(* chunks of any length, sinks that accept one write at a time, and        *)
(* either may fail.  WasiStart composes all this with the run of a guest.  *)
(*                                                                         *)
(* An operator whose name is that of the next one and a word more          *)
(* (AsyncCopy_dropped, Grown_once, ...) is a wrong version of it, to show  *)
(* that a property tells the two apart; nothing uses it.                   *)
(***************************************************************************)
EXTENDS Integers, Sequences, FiniteSets, SequencesExt

CONSTANTS
  StreamStdio, (* Values of the "streamStdio" option.                       *)
  Present,     (* The streams given: stdin is 0, stdout 1 and stderr 2.     *)
  Input,       (* What stdin delivers before it ends.                       *)
  MayFail,     (* The streams that may fail on the host's side.             *)
  SinkCopies,  (* Whether a sink copies a chunk when it accepts it.         *)
  BufferSize,  (* Initial size of the synchronous adapter's buffer, 4096.   *)
  Byte,        (* Values of a byte.                                         *)
  MemSize,     (* Bytes of guest memory.                                    *)
  ReadArg, WriteArg,  (* Vectors the guest passes to fd_read and fd_write.  *)
  MaxSent      (* Bytes the guest writes to a stream at most.               *)

Stream == {0, 1, 2}
Sink == Present \ {0}
Address == 1 .. MemSize

(* A Uint8Array over the guest's memory, and the arguments of a call.       *)
Iov == [buf : Address, len : 0 .. MemSize]
Cells(iov) == iov.buf .. iov.buf + iov.len - 1

ASSUME StreamsAssumption ==
  /\ StreamStdio \subseteq BOOLEAN /\ SinkCopies \in BOOLEAN
  /\ Present \subseteq Stream /\ MayFail \subseteq Present
  /\ Input \in Seq(Byte)
  /\ BufferSize \in Nat \ {0}
  /\ MemSize \in Nat /\ MaxSent \in Nat
  /\ ReadArg \subseteq Seq(Iov) /\ WriteArg \subseteq Seq(Iov)
  /\ \A vec \in ReadArg \cup WriteArg : \A i \in DOMAIN vec : Cells(vec[i]) \subseteq Address
  /\ \A vec \in ReadArg : \A i, j \in DOMAIN vec :
       i # j => Cells(vec[i]) \cap Cells(vec[j]) = {}

(* A sink that keeps a chunk would with streamStdio hold on to the guest's  *)
(* memory: the writer gets a view of it (writev of the asynchronous one).   *)
ASSUME SinksCopy == SinkCopies \/ StreamStdio \subseteq {FALSE}

VARIABLES
  asyncify,  (* #asyncify: which adapters the streams have.                 *)
  mem,       (* The guest's memory.                                         *)
  call,      (* The import the guest is in, and how far its loop has come.  *)
  buffer,    (* #buffer of the synchronous readable adapter, #pending of    *)
             (* the asynchronous one.                                       *)
  offset,    (* Bytes of Input the source has delivered.                    *)
  source,    (* The source: "open" or "errored".                            *)
  output,    (* #buffer of a synchronous writable adapter, as far as        *)
             (* #bytesWritten ...                                           *)
  capacity,  (* ... and the length of that #buffer.                         *)
  queue,     (* Chunks written to a sink that it has not accepted.          *)
  sink,      (* A sink: "open", "closing", "closed" or "errored".           *)
  task,      (* What the promise of preRun, close or postRun waits for.     *)
  (* What went through, for the properties:                                 *)
  received,  (* what a sink has accepted,                                   *)
  sent,      (* the bytes of the guest that fd_write has passed on,         *)
  told,      (* how many it was told were written,                          *)
  got        (* the bytes the guest found in its buffers after fd_read.     *)

memory == <<mem, call>>
stdin == <<asyncify, buffer, offset, source, got>>
stdout == <<output, capacity, queue, sink, received, sent, told>>

-----------------------------------------------------------------------------
(* Chunks.  A byte of a chunk is a value, or a place in the guest's memory  *)
(* when the chunk is a view of it.                                          *)

Copied(b) == [at |-> 0, val |-> b]
Current(byte) == IF byte.at = 0 THEN byte.val ELSE mem[byte.at]
Bytes(chunk) == [i \in 1 .. Len(chunk) |-> Current(chunk[i])]

View(iov) == [i \in 1 .. iov.len |-> [at |-> iov.buf + i - 1, val |-> 0]]
Slice(bytes) == [i \in 1 .. Len(bytes) |-> Copied(bytes[i])]

Smaller(m, n) == IF m < n THEN m ELSE n

(* iov.set(bytes) *)
Stored(iov, bytes) ==
  [a \in Address |-> IF a \in iov.buf .. iov.buf + Len(bytes) - 1
                     THEN bytes[a - iov.buf + 1] ELSE mem[a]]

(* The first "count" bytes of the buffers of a vector.                      *)
Contents(vec, count) ==
  SubSeq(FlattenSeq([i \in DOMAIN vec |-> Bytes(View(vec[i]))]), 1, count)

-----------------------------------------------------------------------------
(* The host.                                                                *)

(* A read of the source answers with n more bytes.  Chunks of no bytes      *)
(* change nothing for either adapter.                                       *)
Deliver(n) == offset' = offset + n
Chunk(n) == SubSeq(Input, offset + 1, offset + n)
ChunkLen == 1 .. Len(Input) - offset
SourceDone == source = "open" /\ offset = Len(Input)

SourceFail ==
  /\ 0 \in MayFail /\ source = "open" /\ source' = "errored"
  /\ UNCHANGED <<asyncify, memory, buffer, offset, got, stdout, task>>

SinkAccept(s) ==
  /\ queue[s] # <<>> /\ sink[s] \in {"open", "closing"}
  /\ queue' = [queue EXCEPT ![s] = Tail(@)]
  /\ received' = [received EXCEPT ![s] =
       @ \o (IF SinkCopies THEN Slice(Bytes(Head(queue[s]))) ELSE Head(queue[s]))]
  /\ UNCHANGED <<memory, stdin, output, capacity, sink, sent, told, task>>

SinkClose(s) ==
  /\ sink[s] = "closing" /\ queue[s] = <<>>
  /\ sink' = [sink EXCEPT ![s] = "closed"]
  /\ UNCHANGED <<memory, stdin, output, capacity, queue, received, sent, told, task>>

SinkFail(s) ==
  /\ s \in MayFail /\ sink[s] \in {"open", "closing"}
  /\ sink' = [sink EXCEPT ![s] = "errored"]
  /\ queue' = [queue EXCEPT ![s] = <<>>]
  /\ UNCHANGED <<memory, stdin, output, capacity, received, sent, told, task>>

-----------------------------------------------------------------------------
(* The guest's calls.  "threw" is an exception of the import: it ends the   *)
(* guest.                                                                   *)

NoCall == [op |-> "none"]
Threw == [op |-> "threw"]

Called(op, fd, vec) ==
  [op |-> op, fd |-> fd, vec |-> vec, iovs |-> vec, count |-> 0, waiting |-> FALSE]

Room(fd, vec) ==
  fd \in Sink => Len(sent[fd]) + Len(FlattenSeq([i \in DOMAIN vec |-> View(vec[i])])) <= MaxSent

(* fd_read(fd, vec): a writable stream throws.                              *)
fd_read(fd, vec) ==
  /\ call = NoCall
  /\ call' = IF fd \in Sink THEN Threw ELSE Called("read", fd, vec)
  /\ UNCHANGED <<mem, stdin, stdout, task>>

(* fd_write(fd, vec): a readable stream throws, and so does DevNull, which  *)
(* reduces without an initial value, on a vector of no buffers.             *)
fd_write(fd, vec) ==
  /\ call = NoCall /\ Room(fd, vec)
  /\ call' = IF fd = 0 /\ 0 \in Present THEN Threw
             ELSE IF fd \notin Present /\ vec = <<>>
             THEN Threw ELSE Called("write", fd, vec)
  /\ UNCHANGED <<mem, stdin, stdout, task>>

InRead == call.op = "read" /\ call.fd \in Present
InWrite == call.op = "write" /\ call.fd \in Present

(* What an iteration adds to "read" or "written".                           *)
Counted_last(bytes) == bytes

Counted(bytes) == call.count + bytes

ReadReturn ==
  /\ got' = got \o Contents(call.vec, call.count)
  /\ call' = NoCall
  /\ UNCHANGED <<asyncify, mem, buffer, offset, source, stdout, task>>

(* "bytes" of the pending input go to the first buffer; then "iovs" is what *)
(* the loop has left to do.                                                 *)
CopyTo(bytes, iovs) ==
  /\ mem' = Stored(Head(call.iovs), SubSeq(buffer, 1, bytes))
  /\ buffer' = SubSeq(buffer, bytes + 1, Len(buffer))
  /\ call' = [call EXCEPT !.iovs = iovs, !.count = Counted(bytes)]
  /\ UNCHANGED <<asyncify, offset, source, got, stdout, task>>

SkipIov ==
  /\ call' = [call EXCEPT !.iovs = Tail(@)]
  /\ UNCHANGED <<mem, stdin, stdout, task>>

(* DevNull.readv and DevNull.writev                                         *)
DevNullRead ==
  /\ call.op = "read" /\ call.fd \notin Present
  /\ call' = NoCall /\ UNCHANGED <<mem, stdin, stdout, task>>

DevNullWrite ==
  /\ call.op = "write" /\ call.fd \notin Present
  /\ call' = NoCall /\ UNCHANGED <<mem, stdin, stdout, task>>

(* The promise of a job is rejected; the jobs of the other streams go on.   *)
Failed_inOrder(s) ==
  [t \in Stream |-> IF t = s THEN "failed" ELSE IF t > s THEN "idle" ELSE task[t]]

Failed(s) == [task EXCEPT ![s] = "failed"]
Done(s) == [task EXCEPT ![s] = "idle"]

-----------------------------------------------------------------------------
(* SyncReadableStreamAdapter                                                *)

SyncReadIov ==
  /\ InRead /\ ~asyncify
  /\ IF call.iovs = <<>> \/ Head(call.iovs).len = 0 \/ buffer = <<>>
     THEN ReadReturn
     ELSE CopyTo(Smaller(Head(call.iovs).len, Len(buffer)), Tail(call.iovs))

(* preRun: chunks are collected until the source ends.                      *)
PreRunRead ==
  /\ task[0] = "reading" /\ source = "open"
  /\ \E n \in ChunkLen : Deliver(n) /\ buffer' = buffer \o Chunk(n)
  /\ UNCHANGED <<asyncify, memory, source, got, stdout, task>>

PreRunEnd_hanging ==
  /\ task[0] = "reading" /\ SourceDone
  /\ task' = Done(0)
  /\ UNCHANGED <<memory, stdin, stdout>>

PreRunEnd ==
  /\ task[0] = "reading" /\ (SourceDone \/ source = "errored")
  /\ task' = IF SourceDone THEN Done(0) ELSE Failed(0)
  /\ UNCHANGED <<memory, stdin, stdout>>

-----------------------------------------------------------------------------
(* AsyncReadableStreamAdapter                                               *)

Rest(iov, bytes) == [buf |-> iov.buf + bytes, len |-> iov.len - bytes]

AsyncCopy_dropped ==
  LET bytes == Smaller(Head(call.iovs).len, Len(buffer)) IN
  /\ mem' = Stored(Head(call.iovs), SubSeq(buffer, 1, bytes))
  /\ buffer' = <<>>
  /\ call' = [call EXCEPT !.iovs = Tail(@), !.count = Counted(bytes)]
  /\ UNCHANGED <<asyncify, offset, source, got, stdout, task>>

AsyncCopy_again ==
  LET iov == Head(call.iovs)
      bytes == Smaller(iov.len, Len(buffer))
  IN CopyTo(bytes, IF bytes = iov.len THEN Tail(call.iovs) ELSE call.iovs)

AsyncCopy ==
  LET iov == Head(call.iovs)
      bytes == Smaller(iov.len, Len(buffer))
  IN CopyTo(bytes, IF bytes = iov.len THEN Tail(call.iovs)
                   ELSE <<Rest(iov, bytes)>> \o Tail(call.iovs))

(* await this.#reader.read(): what was read into earlier buffers is         *)
(* returned at the end of the input, and lost if the source fails.          *)
AsyncPull ==
  \/ /\ source = "open" /\ \E n \in ChunkLen : Deliver(n) /\ buffer' = Chunk(n)
     /\ UNCHANGED <<asyncify, memory, source, got, stdout, task>>
  \/ SourceDone /\ ReadReturn
  \/ source = "errored" /\ call' = Threw /\ UNCHANGED <<mem, stdin, stdout, task>>

AsyncReadIov_ending ==
  /\ InRead /\ asyncify
  /\ IF call.iovs = <<>> \/ Head(call.iovs).len = 0 THEN ReadReturn
     ELSE IF buffer = <<>> THEN AsyncPull
     ELSE AsyncCopy

AsyncReadIov ==
  /\ InRead /\ asyncify
  /\ IF call.iovs = <<>> THEN ReadReturn
     ELSE IF Head(call.iovs).len = 0 THEN SkipIov
     ELSE IF buffer = <<>> THEN AsyncPull
     ELSE AsyncCopy

-----------------------------------------------------------------------------
(* Both writable adapters: the end of writev.                               *)

WriteReturn ==
  /\ InWrite /\ call.iovs = <<>>
  /\ told' = [told EXCEPT ![call.fd] = @ + call.count]
  /\ call' = NoCall
  /\ UNCHANGED <<mem, stdin, output, capacity, queue, sink, received, sent, task>>

WriteSkip == InWrite /\ call.iovs # <<>> /\ Head(call.iovs).len = 0 /\ SkipIov

Writing == InWrite /\ call.iovs # <<>> /\ Head(call.iovs).len > 0

Passed(s, iov) == [sent EXCEPT ![s] = @ \o Bytes(View(iov))]

-----------------------------------------------------------------------------
(* SyncWritableStreamAdapter                                                *)

(* desiredCapacity, a fraction: times 1.5 while it is not enough (each time *)
(* adds half a byte at least); new Uint8Array drops the part of a byte.     *)
Grown_once(size, required) == (size * 3) \div 2

Grown(size, required) ==
  LET desired[n \in 0 .. 2 * required] ==
        IF n = 0 THEN [num |-> size, den |-> 1]
        ELSE LET last == desired[n - 1] IN
             IF last.num < required * last.den
             THEN [num |-> 3 * last.num, den |-> 2 * last.den] ELSE last
      enough == desired[2 * required]
  IN enough.num \div enough.den

(* this.#buffer.set(iov, this.#bytesWritten)                                *)
Buffered(s, bytes) == [output EXCEPT ![s] = @ \o bytes]

(* A Uint8Array cannot be set beyond its end.                               *)
SyncWriteIov ==
  LET s == call.fd
      iov == Head(call.iovs)
      required == Len(output[s]) + iov.len
      size == IF required > capacity[s] THEN Grown(capacity[s], required) ELSE capacity[s]
  IN /\ Writing /\ ~asyncify
     /\ capacity' = [capacity EXCEPT ![s] = size]
     /\ IF required > size
        THEN call' = Threw /\ UNCHANGED <<output, sent>>
        ELSE /\ output' = Buffered(s, Bytes(View(iov)))
             /\ sent' = Passed(s, iov)
             /\ call' = [call EXCEPT !.iovs = Tail(@), !.count = Counted(iov.len)]
     /\ UNCHANGED <<mem, stdin, queue, sink, received, told, task>>

(* postRun, with the write it begins with under way: then the close.        *)
PostRunWritten_unclosed(s) ==
  /\ task[s] = "writing" /\ (queue[s] = <<>> \/ sink[s] = "errored")
  /\ task' = IF sink[s] = "errored" THEN Failed(s) ELSE Done(s)
  /\ UNCHANGED <<memory, stdin, stdout>>

PostRunWritten(s) ==
  /\ task[s] = "writing" /\ (queue[s] = <<>> \/ sink[s] = "errored")
  /\ IF sink[s] = "errored"
     THEN task' = Failed(s) /\ UNCHANGED sink
     ELSE task' = [task EXCEPT ![s] = "closing"] /\ sink' = [sink EXCEPT ![s] = "closing"]
  /\ UNCHANGED <<memory, stdin, output, capacity, queue, received, sent, told>>

-----------------------------------------------------------------------------
(* AsyncWritableStreamAdapter                                               *)

AsyncWriteIov_unawaited ==
  LET s == call.fd IN
  /\ Writing /\ asyncify
  /\ sent' = Passed(s, Head(call.iovs))
  /\ queue' = IF sink[s] = "errored" THEN queue
              ELSE [queue EXCEPT ![s] = Append(@, View(Head(call.iovs)))]
  /\ call' = [call EXCEPT !.iovs = Tail(@), !.count = Counted(Head(call.iovs).len)]
  /\ UNCHANGED <<mem, stdin, output, capacity, sink, received, told, task>>

AsyncWriteIov ==
  LET s == call.fd IN
  /\ Writing /\ asyncify /\ ~call.waiting
  /\ sent' = Passed(s, Head(call.iovs))
  /\ queue' = IF sink[s] = "errored" THEN queue
              ELSE [queue EXCEPT ![s] = Append(@, View(Head(call.iovs)))]
  /\ call' = [call EXCEPT !.waiting = TRUE]
  /\ UNCHANGED <<mem, stdin, output, capacity, sink, received, told, task>>

(* The promise of the write is settled.                                     *)
AsyncWritten_hanging ==
  /\ InWrite /\ call.waiting /\ queue[call.fd] = <<>> /\ sink[call.fd] # "errored"
  /\ call' = [call EXCEPT !.iovs = Tail(@), !.waiting = FALSE,
                          !.count = Counted(Head(call.iovs).len)]
  /\ UNCHANGED <<mem, stdin, stdout, task>>

AsyncWritten_again ==
  /\ InWrite /\ call.waiting
  /\ \/ /\ queue[call.fd] = <<>> /\ sink[call.fd] # "errored"
        /\ call' = [call EXCEPT !.waiting = FALSE, !.count = Counted(Head(call.iovs).len)]
     \/ sink[call.fd] = "errored" /\ call' = Threw
  /\ UNCHANGED <<mem, stdin, stdout, task>>

AsyncWritten ==
  /\ InWrite /\ call.waiting
  /\ \/ /\ queue[call.fd] = <<>> /\ sink[call.fd] # "errored"
        /\ call' = [call EXCEPT !.iovs = Tail(@), !.waiting = FALSE,
                                !.count = Counted(Head(call.iovs).len)]
     \/ sink[call.fd] = "errored" /\ call' = Threw
  /\ UNCHANGED <<mem, stdin, stdout, task>>

(* The promise of the close is settled, here and at the end of postRun.     *)
Closed_hanging(s) ==
  /\ task[s] = "closing" /\ sink[s] = "closed"
  /\ task' = Done(s)
  /\ UNCHANGED <<memory, stdin, stdout>>

Closed(s) ==
  /\ task[s] = "closing" /\ sink[s] \in {"closed", "errored"}
  /\ task' = IF sink[s] = "closed" THEN Done(s) ELSE Failed(s)
  /\ UNCHANGED <<memory, stdin, stdout>>

-----------------------------------------------------------------------------
(* What the calls of preRun, close and postRun do at once, on all streams.  *)

PreRunAll == [s \in Stream |-> IF s = 0 /\ 0 \in Present /\ ~asyncify THEN "reading" ELSE "idle"]

CloseAll_both ==
  /\ task' = [s \in Stream |-> IF s \in Sink THEN "closing" ELSE "idle"]
  /\ sink' = [s \in Sink |-> IF sink[s] = "open" THEN "closing" ELSE sink[s]]

CloseAll ==
  /\ task' = [s \in Stream |-> IF s \in Sink /\ asyncify THEN "closing" ELSE "idle"]
  /\ sink' = [s \in Sink |-> IF asyncify /\ sink[s] = "open" THEN "closing" ELSE sink[s]]

PostRunAll ==
  /\ task' = [s \in Stream |-> IF s \in Sink /\ ~asyncify THEN "writing" ELSE "idle"]
  /\ queue' = [s \in Sink |-> IF asyncify \/ sink[s] = "errored" THEN queue[s]
                              ELSE Append(queue[s], Slice(output[s]))]

-----------------------------------------------------------------------------
HostStep == SourceFail \/ \E s \in Sink : SinkAccept(s) \/ SinkClose(s) \/ SinkFail(s)

ReadStep == DevNullRead \/ SyncReadIov \/ AsyncReadIov

WriteStep == DevNullWrite \/ WriteReturn \/ WriteSkip \/ SyncWriteIov \/ AsyncWriteIov \/ AsyncWritten

TaskStep == PreRunRead \/ PreRunEnd \/ \E s \in Sink : PostRunWritten(s) \/ Closed(s)

(* The constructors, in a memory full of some byte.                         *)
StreamsInit(byte) ==
  /\ asyncify \in StreamStdio
  /\ mem = [a \in Address |-> byte] /\ call = NoCall
  /\ buffer = <<>> /\ offset = 0 /\ source = "open" /\ got = <<>>
  /\ output = [s \in Sink |-> <<>>] /\ capacity = [s \in Sink |-> BufferSize]
  /\ queue = [s \in Sink |-> <<>>] /\ sink = [s \in Sink |-> "open"]
  /\ received = [s \in Sink |-> <<>>] /\ sent = [s \in Sink |-> <<>>]
  /\ told = [s \in Sink |-> 0]
=============================================================================
