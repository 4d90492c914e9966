-------------------------- MODULE DescriptorTable --------------------------
(***************************************************************************)
(* What a table of descriptors promises: a number leads to one object and  *)
(* an object has one number; opening takes a number and an address that    *)
(* are free, closing gives both back, moving a descriptor changes its      *)
(* number only and closes what was there.  The library that the objects    *)
(* belong to has open exactly the objects of the table that were opened.   *)
(***************************************************************************)
EXTENDS Naturals

CONSTANTS
  Fd,      (* Descriptor numbers.                                           *)
  Addr,    (* Objects that can be opened.                                   *)
  Pinned,  (* The numbers that are never closed, moved or replaced.         *)
  Boot     (* The table at the start, of objects that were not opened.      *)

VARIABLES table, open

Init == table = Boot /\ open = {}

Keep(fd) == [other \in DOMAIN table \ {fd} |-> table[other]]

Enter(entries, fd, id) ==
  [other \in DOMAIN entries \cup {fd} |-> IF other = fd THEN id ELSE entries[other]]

(* What closing the object at fd, if there is one, does to the library.     *)
Drop(fd) ==
  IF fd \in DOMAIN table
  THEN table[fd] \in open /\ open' = open \ {table[fd]}
  ELSE UNCHANGED open

Open(fd, id) ==
  /\ fd \notin DOMAIN table
  /\ id \notin open
  /\ table' = Enter(table, fd, id)
  /\ open' = open \cup {id}

Close(fd) ==
  /\ fd \in DOMAIN table \ Pinned
  /\ Drop(fd)
  /\ table' = Keep(fd)

Move(fd, to) ==
  /\ fd \in DOMAIN table \ Pinned
  /\ to \notin Pinned \cup {fd}
  /\ Drop(to)
  /\ table' = Enter(Keep(fd), to, table[fd])

Next ==
  \/ \E fd \in Fd, id \in Addr : Open(fd, id)
  \/ \E fd \in Fd : Close(fd)
  \/ \E fd, to \in Fd : Move(fd, to)

Spec == Init /\ [][Next]_<<table, open>>
=============================================================================
