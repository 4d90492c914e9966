------------------------------- MODULE MCTree -------------------------------
(***************************************************************************)
(* The tree of directories: a file "/a", made, opened, renamed and removed *)
(* through the preopened directory and through directories opened below    *)
(* it, while it is open itself.  Names may end in "/", one is too long,    *)
(* and the volume holds one entry more than the root, "a" and "b".         *)
(***************************************************************************)
EXTENDS MemFS, TLC

CONSTANTS a, b, long, x

MCName == {a, b, long}
MCLongName == {long}
MCPreopens == <<[comps |-> <<>>, slash |-> TRUE]>>
MCFs == (<<a>> :> <<1>>)
File(comps) == [comps |-> comps, slash |-> FALSE]
MCPathArg == {File(<<a>>), File(<<b>>)}
MCEntryArg == {File(<<a>>), File(<<b>>), [comps |-> <<b>>, slash |-> TRUE],
               File(<<a, b>>), File(<<long>>)}
MCOflagsArg == {{"CREAT", "EXCL"}, {"TRUNC"}, {"DIRECTORY"}}
MCRightsArg == {[base |-> Right, inheriting |-> Right]}
MCFstArg == {{"MTIM_NOW"}}
MCIovsArg == {<< <<1>> >>}

(* What follows depends on the last answer only in whether it is an errno.  *)
View == <<fds, next_fd, mlist, tree, IF ret \in Errno THEN "errno" ELSE ret>>
=============================================================================
