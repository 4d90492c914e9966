----------------------------- MODULE ByteStream -----------------------------
(***************************************************************************)
(* What output streams promise their readers: the bytes that arrive on a   *)
(* stream are those that were written to it, in that order, and it ends    *)
(* only when all of them have arrived.  A reader may give up; it then gets *)
(* no more, and the other streams go on.                                   *)
(***************************************************************************)
EXTENDS Sequences, SequencesExt

CONSTANT Stream

VARIABLES
  sent,      (* The bytes written to a stream,                              *)
  received,  (* those that have arrived,                                    *)
  state      (* and whether it is "open", "closed" or "errored".            *)

vars == <<sent, received, state>>

Init ==
  /\ sent = [s \in Stream |-> <<>>] /\ received = [s \in Stream |-> <<>>]
  /\ state = [s \in Stream |-> "open"]

Longer(older, newer) == IsPrefix(older, newer) /\ older # newer

Write(s) ==
  /\ state[s] # "closed" /\ Longer(sent[s], sent'[s])
  /\ sent' = [sent EXCEPT ![s] = sent'[s]]
  /\ UNCHANGED <<received, state>>

Arrive(s) ==
  /\ state[s] = "open"
  /\ Longer(received[s], received'[s]) /\ IsPrefix(received'[s], sent[s])
  /\ received' = [received EXCEPT ![s] = received'[s]]
  /\ UNCHANGED <<sent, state>>

Close(s) ==
  /\ state[s] = "open" /\ received[s] = sent[s]
  /\ state' = [state EXCEPT ![s] = "closed"]
  /\ UNCHANGED <<sent, received>>

Abandon(s) ==
  /\ state[s] = "open"
  /\ state' = [state EXCEPT ![s] = "errored"]
  /\ UNCHANGED <<sent, received>>

Next == \E s \in Stream : Write(s) \/ Arrive(s) \/ Close(s) \/ Abandon(s)

Spec == Init /\ [][Next]_vars
=============================================================================
