--------------------------- MODULE MCDescriptors ---------------------------
(***************************************************************************)
(* Descriptors and their rights: one preopened directory "/" with an empty *)
(* file "a" in it, two descriptors that the guest can open, and few        *)
(* numbers, so that allocate_fd goes around the end of its range and meets *)
(* the numbers of moved streams.                                           *)
(***************************************************************************)
EXTENDS MemFS, TLC

CONSTANTS a, x, y

MCName == {a}
MCPreopens == <<[comps |-> <<>>, slash |-> TRUE]>>
MCFs == (<<a>> :> <<>>)
MCPathArg == {[comps |-> <<a>>, slash |-> FALSE], Dot}
MCOflagsArg == {{}, {"DIRECTORY"}}
MCAllRights == {[base |-> Right, inheriting |-> Right]}
MCSomeRights ==
  MCAllRights \cup
  {[base |-> {"PATH_OPEN", "FD_READ"}, inheriting |-> {"PATH_OPEN", "FD_WRITE"}],
   [base |-> {"PATH_OPEN"}, inheriting |-> Right]}
MCFstArg == {{"MTIM"}, {"ATIM_NOW"}, {"MTIM", "MTIM_NOW"}}
MCIovsArg == {<< <<>> >>}
MCAddr == {x, y}
Symmetric == Permutations(MCAddr)

(* What follows depends on the last answer only in whether it is an errno.  *)
View == <<fds, next_fd, mlist, tree, IF ret \in Errno THEN "errno" ELSE ret>>
=============================================================================
