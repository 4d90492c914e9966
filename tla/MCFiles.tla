------------------------------ MODULE MCFiles ------------------------------
(***************************************************************************)
(* Contents of files: two descriptors of one file "a" of at most two       *)
(* bytes, which is read, written, resized and opened to be emptied through *)
(* either of them while the other keeps its own copy; a descriptor may be  *)
(* moved to another number, which closes the one that was there.           *)
(***************************************************************************)
EXTENDS MemFS, TLC

CONSTANTS a, x, y

MCName == {a}
MCPreopens == <<[comps |-> <<>>, slash |-> TRUE]>>
MCFs == (<<a>> :> <<1>>)
MCPathArg == {[comps |-> <<a>>, slash |-> FALSE]}
MCOflagsArg == {{}, {"CREAT", "TRUNC"}}
MCRightsArg == {[base |-> Right, inheriting |-> Right]}
MCIovsArg == {<<>>, << <<1>> >>}
MCOffsetArg == {-1, 2, 6}
MCAddr == {x, y}
Symmetric == Permutations(MCAddr)

(* What follows depends on the last answer only in whether it is an errno.  *)
View == <<fds, next_fd, mlist, tree, IF ret \in Errno THEN "errno" ELSE ret>>
=============================================================================
