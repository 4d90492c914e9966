----------------------------- MODULE WasiStart -----------------------------
(***************************************************************************)
(* WASI.start of src/index.ts: a guest runs between preRun of all streams  *)
(* and, however it ends, close and then postRun of all streams.  start is  *)
(* a promise: it waits for the host's streams (Promise.all: until all jobs *)
(* are done or one has failed, while the others go on).                    *)
(***************************************************************************)
EXTENDS Streams

CONSTANTS
  ReturnOnExit,  (* The "returnOnExit" option.                              *)
  Asyncified     (* Whether the guest may or may not have been built with   *)
                 (* asyncify: a set of BOOLEANs.                            *)

ASSUME WasiStartAssumption == ReturnOnExit \in BOOLEAN /\ Asyncified \subseteq BOOLEAN

VARIABLES
  phase,    (* Where start is: "new", "preRun", "guest", "close", "postRun" *)
            (* or "settled".                                                *)
  outcome,  (* How the try block ended: "none" as long as it has not.       *)
  result    (* What the promise of start was settled with.                  *)

start == <<phase, outcome, result>>
streams == <<memory, stdin, stdout, task>>
vars == <<start, streams>>

Unsettled == [how |-> "pending", what |-> "none"]
Returns(what) == [how |-> "returns", what |-> what]
Throws(what) == [how |-> "throws", what |-> what]

(* The catch block.                                                         *)
Answer_throwing == IF ReturnOnExit /\ outcome = "exit" THEN Returns("code") ELSE Throws(outcome)

Answer ==
  CASE outcome = "return" -> Returns("undefined")
    [] outcome = "unreachable" /\ ReturnOnExit -> Returns("134")
    [] outcome = "exit" /\ ReturnOnExit -> Returns("code")
    [] OTHER -> Throws(outcome)

AnyFailed == \E s \in Stream : task[s] = "failed"
AllDone == \A s \in Stream : task[s] = "idle"

(* The try block ends and the finally block begins: close of all streams.   *)
Finally(how) ==
  /\ outcome' = how /\ phase' = "close"
  /\ CloseAll
  /\ UNCHANGED <<result, mem, stdin, output, capacity, queue, received, sent, told>>

Settle(value) == phase' = "settled" /\ result' = value /\ UNCHANGED <<outcome, streams>>

Start ==
  /\ phase = "new"
  /\ \E asyncified \in Asyncified :
       IF asyncify /\ ~asyncified
       THEN Finally("error") /\ UNCHANGED call
       ELSE /\ phase' = "preRun" /\ task' = PreRunAll
            /\ UNCHANGED <<outcome, result, memory, stdin, stdout>>

PreRunSettled ==
  /\ phase = "preRun"
  /\ \/ AnyFailed /\ Finally("error") /\ UNCHANGED call
     \/ AllDone /\ phase' = "guest" /\ UNCHANGED <<outcome, result, streams>>

(* _start returns, traps or calls proc_exit, or an import throws.           *)
GuestEnds ==
  /\ phase = "guest"
  /\ \/ call = NoCall /\ \E how \in {"return", "unreachable", "exit", "error"} : Finally(how)
     \/ call = Threw /\ Finally("error")
  /\ call' = NoCall

(* The guest's own code: it changes its memory.                             *)
GuestStores ==
  /\ phase = "guest" /\ call = NoCall
  /\ \E a \in Address, b \in Byte : mem' = [mem EXCEPT ![a] = b]
  /\ UNCHANGED <<start, call, stdin, stdout, task>>

GuestCalls ==
  /\ phase = "guest"
  /\ \/ \E fd \in Stream, vec \in ReadArg : fd_read(fd, vec)
     \/ \E fd \in Stream, vec \in WriteArg : fd_write(fd, vec)
  /\ UNCHANGED start

CloseSettled ==
  /\ phase = "close"
  /\ \/ AnyFailed /\ Settle(Throws("stream"))
     \/ /\ AllDone /\ phase' = "postRun" /\ PostRunAll
        /\ UNCHANGED <<outcome, result, memory, stdin, output, capacity, sink,
                       received, sent, told>>

PostRunSettled ==
  /\ phase = "postRun"
  /\ \/ AnyFailed /\ Settle(Throws("stream"))
     \/ AllDone /\ Settle(Answer)

Guest == GuestStores \/ GuestCalls \/ GuestEnds
Import == (ReadStep \/ WriteStep) /\ UNCHANGED start
Task == TaskStep /\ UNCHANGED start
Host == HostStep /\ UNCHANGED start
Await == PreRunSettled \/ CloseSettled \/ PostRunSettled

Next == Start \/ Guest \/ Import \/ Task \/ Host \/ Await

Init ==
  /\ phase = "new" /\ outcome = "none" /\ result = Unsettled
  /\ \E byte \in Byte : StreamsInit(byte)
  /\ task = [s \in Stream |-> "idle"]

Spec == Init /\ [][Next]_vars

-----------------------------------------------------------------------------
(* Fairness: the event loop runs the jobs whose promises are settled, the   *)
(* source delivers or ends or fails, and a sink accepts or fails.  Nothing  *)
(* makes the guest call, or end; an exception of an import does end it.     *)

GuestThrown == call = Threw /\ GuestEnds

Fairness ==
  /\ WF_vars(Start) /\ WF_vars(Await) /\ WF_vars(GuestThrown)
  /\ WF_vars(ReadStep /\ UNCHANGED start) /\ WF_vars(WriteStep /\ UNCHANGED start)
  /\ WF_vars((PreRunRead \/ PreRunEnd) /\ UNCHANGED start)
  /\ \A s \in Sink :
       /\ WF_vars((PostRunWritten(s) \/ Closed(s)) /\ UNCHANGED start)
       /\ WF_vars((SinkAccept(s) \/ SinkClose(s)) /\ UNCHANGED start)

FairSpec == Spec /\ Fairness

-----------------------------------------------------------------------------
(* Properties.                                                              *)

Sinks(S) == [Sink -> S]
Cell == [at : 0 .. MemSize, val : Byte \cup {0}]

TypeOK ==
  /\ phase \in {"new", "preRun", "guest", "close", "postRun", "settled"}
  /\ outcome \in {"none", "return", "unreachable", "exit", "error"}
  /\ result \in [how : {"pending", "returns", "throws"},
                 what : {"none", "undefined", "134", "code", "stream",
                         "unreachable", "exit", "error"}]
  /\ asyncify \in StreamStdio /\ mem \in [Address -> Byte]
  /\ call \in {NoCall, Threw} \cup
       [op : {"read", "write"}, fd : Stream, vec : Seq(Iov),
        iovs : Seq([buf : Int, len : Nat]), count : Nat, waiting : BOOLEAN]
  /\ buffer \in Seq(Byte) /\ got \in Seq(Byte)
  /\ offset \in 0 .. Len(Input) /\ source \in {"open", "errored"}
  /\ output \in Sinks(Seq(Byte)) /\ capacity \in Sinks(Nat \ {0})
  /\ queue \in Sinks(Seq(Seq(Cell))) /\ received \in Sinks(Seq(Cell))
  /\ sink \in Sinks({"open", "closing", "closed", "errored"})
  /\ sent \in Sinks(Seq(Byte)) /\ told \in Sinks(Nat)
  /\ task \in [Stream -> {"idle", "reading", "writing", "closing", "failed"}]

(* What the sinks of fd 1 and 2 hold is what the guest wrote, byte for byte *)
(* and in order, as far as it has arrived, also after the guest has used    *)
(* its memory for something else (writev of both adapters, postRun).        *)
OutputIntact == \A s \in Sink : IsPrefix(Bytes(received[s]), sent[s])

(* Between calls, every byte the guest has read and every byte still with   *)
(* the adapter are the source's bytes in order, none left out or repeated:  *)
(* over chunk boundaries, empty buffers and reads of part of a vector.      *)
ReadsInOrder ==
  phase = "guest" /\ call = NoCall =>
    got \o buffer = SubSeq(Input, 1, offset)

(* A call that has answered told the guest the number of bytes that were    *)
(* passed on: no byte is written twice by a guest that goes on after a      *)
(* short write, none is left out.                                           *)
WritesCounted ==
  phase = "guest" /\ call = NoCall => \A s \in Sink : told[s] = Len(sent[s])

(* The growing buffer of the synchronous adapter always holds what is       *)
(* written: no vector makes it throw, which would end the guest.            *)
SyncWritesSucceed == [][InWrite /\ ~asyncify => call' # Threw]_vars

(* A read that answers 0 means the end of the input, as the guest takes it, *)
(* unless it asked for no bytes, or, without streamStdio, its first buffer  *)
(* was empty: the loop of the synchronous adapter ends there.               *)
ZeroMeansEnd ==
  [][InRead /\ call' = NoCall /\ call.count = 0 =>
       \/ buffer = <<>> /\ offset = Len(Input)
       \/ \A i \in DOMAIN call.vec : call.vec[i].len = 0
       \/ ~asyncify /\ call.vec[1].len = 0]_vars

(* start answers for the guest (with the value, or the exception, that the  *)
(* catch block chose) only when every stream given has got everything the   *)
(* guest wrote and was closed.                                              *)
AnswerMeansFlushed ==
  phase = "settled" /\ result # Throws("stream") =>
    \A s \in Sink : sink[s] = "closed" /\ Bytes(received[s]) = sent[s]

(* The documentation of ProcessExit and returnOnExit: a guest that calls    *)
(* proc_exit makes start return the code, or throw ProcessExit.             *)
ExitIsReported ==
  phase = "settled" /\ outcome = "exit" =>
    result = IF ReturnOnExit THEN Returns("code") ELSE Throws("exit")

(* However the guest ends, and although host streams fail, start settles.   *)
Settles == outcome # "none" ~> phase = "settled"

(* A sink that does not fail gets all its output and its end, even if the   *)
(* other one fails and start was settled long before.                       *)
EachFlushed ==
  \A s \in Sink : outcome # "none" ~>
    \/ sink[s] = "errored"
    \/ sink[s] = "closed" /\ Bytes(received[s]) = sent[s]

(* Every iteration of the loop over the buffers of a call brings it nearer  *)
(* to its end: it uses a buffer up or a part of it, pulls a chunk where     *)
(* none is pending, or waits for one write and goes on.  No vector makes a  *)
(* call go around for ever, whatever the chunks, as long as they have bytes *)
(* (readv and writev of all adapters).                                      *)
Wanted(iovs) == Len(FlattenSeq([i \in DOMAIN iovs |-> View(iovs[i])]))

Ahead ==
  2 * Len(call.iovs) +
    IF call.op = "read" THEN 2 * Wanted(call.iovs) + IF buffer = <<>> THEN 1 ELSE 0
    ELSE IF call.waiting THEN 0 ELSE 1

CallsAdvance ==
  [][(InRead \/ InWrite) /\ (InRead \/ InWrite)' =>
       Ahead' < Ahead \/ UNCHANGED <<call, buffer>>]_vars

(* A call on a stream answers or throws.                                    *)
CallsEnd == call.op \in {"read", "write"} ~> call.op \in {"none", "threw"}

(* The guest is started, or start fails before it.                          *)
GuestStarts == <>(phase = "guest" \/ outcome # "none")

(* The outputs implement byte streams.                                      *)
Out == INSTANCE ByteStream WITH
  Stream <- Sink, sent <- sent,
  received <- [s \in Sink |-> Bytes(received[s])],
  state <- [s \in Sink |-> IF sink[s] = "closing" THEN "open" ELSE sink[s]]

ByteStreams == Out!Spec
=============================================================================
