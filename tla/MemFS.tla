------------------------------- MODULE MemFS -------------------------------
(***************************************************************************)
(* The in-memory file system of workers-wasi (src/memfs.cc): the table of  *)
(* file descriptors, their capability bits, and the littlefs volume and    *)
(* open handles behind them, under the calls of wasi_snapshot_preview1     *)
(* that a guest makes.  A call is one step: the guest is single-threaded   *)
(* and no call of memfs.cc waits for anything.                             *)
(*                                                                         *)
(* A call answers with an errno, in "ret".  A failed REQUIRE throws out of *)
(* the import and ends the guest: "ret" then names what failed, the rest   *)
(* of the state stays as it was when the call began, and nothing follows.  *)
(*                                                                         *)
(* An operator whose name is that of the next one and a word more          *)
(* (Closed_leaked, fd_allocate_unsynced, ...) is a wrong version of it, to *)
(* show that a property tells the two apart; nothing uses it.              *)
(***************************************************************************)
EXTENDS LittleFS, WasiRights

CONSTANTS
  Preopens,   (* The "preopens" option: a sequence of paths.                *)
  Fs,         (* The "fs" option: contents by path.                         *)
  MaxFd,      (* INT32_MAX, the first number allocate_fd hands out.         *)
  Addr,       (* Addresses of the FileDescriptors that path_open makes: as  *)
              (* many as descriptors opened by the guest at one time.       *)
  Stamp,      (* Timestamps.                                                *)
  (* Arguments the guest passes:                                            *)
  FdArg,      (* descriptors,                                               *)
  PathArg,    (* paths to open and to look at,                              *)
  EntryArg,   (* paths to create, remove and rename,                        *)
  OflagsArg, RightsArg, AppendArg, ToArg, FstArg, IovsArg, OffsetArg

P == Len(Preopens)
Fd == 0 .. MaxFd
BootFd == 0 .. P + 2

LfsPath == [comps : Path, slash : BOOLEAN]    \* slash: it ends with a "/"
FileMetadata == [mtim : Stamp, atim : Stamp]
DefaultMetadata == [mtim |-> 100, atim |-> 100]

ASSUME MemFSAssumption ==
  /\ Preopens \in Seq(LfsPath)
  /\ MaxFd \in Nat /\ MaxFd > P + 2
  /\ Addr \cap Nat = {}
  /\ 100 \in Stamp
  /\ FdArg \subseteq Fd
  /\ PathArg \subseteq LfsPath /\ EntryArg \subseteq LfsPath
  /\ OflagsArg \subseteq SUBSET {"CREAT", "DIRECTORY", "EXCL", "TRUNC"}
  /\ RightsArg \subseteq [base : SUBSET Right, inheriting : SUBSET Right]
  /\ AppendArg \subseteq BOOLEAN
  /\ ToArg \subseteq Fd
  /\ FstArg \subseteq SUBSET {"ATIM", "ATIM_NOW", "MTIM", "MTIM_NOW"}
  /\ IovsArg \subseteq Seq(Data) /\ \A iovs \in IovsArg : Len(iovs) <= 1
  /\ OffsetArg \subseteq Int

ASSUME FsAssumption ==
  /\ DOMAIN Fs \subseteq Path \ {Root}
  /\ \A p \in DOMAIN Fs : Fs[p] \in Data
  /\ \A p, q \in DOMAIN Fs : ~IsStrictPrefix(p, q)

VARIABLES
  fds,      (* Context::fds                                                 *)
  next_fd,  (* Context::next_fd                                             *)
  mlist,    (* lfs_t::mlist: the descriptors whose handle littlefs has open *)
  tree,     (* the volume                                                   *)
  ret       (* what the last call answered, or why the guest was ended      *)

vars == <<fds, next_fd, mlist, tree, ret>>

-----------------------------------------------------------------------------
(* Descriptors.  "append" stands for fd_flags, whose other bits are only    *)
(* reported; "id" is the address of the FileDescriptor, for those made at   *)
(* the start the number they were made under.                               *)

FileDescriptor ==
  [id : Addr \cup BootFd, path : LfsPath, rights_base : SUBSET Right,
   rights_inheriting : SUBSET Right, append : BOOLEAN,
   type : {"dir", "reg"}, stream : BOOLEAN, file : Handle]

NoPath == [comps |-> <<>>, slash |-> FALSE]

make_preopen_fd(fd) ==
  [id |-> fd, path |-> Preopens[fd - 2], rights_base |-> WASI_PATH_RIGHTS,
   rights_inheriting |-> Right, append |-> FALSE, type |-> "dir",
   stream |-> FALSE, file |-> NoHandle]

make_stream_fd(fd, right) ==
  [id |-> fd, path |-> NoPath, rights_base |-> {"POLL_FD_READWRITE", right},
   rights_inheriting |-> Right, append |-> FALSE, type |-> "reg",
   stream |-> TRUE, file |-> NoHandle]

InitialFds ==
  [fd \in BootFd |-> IF fd > 2 THEN make_preopen_fd(fd)
                     ELSE make_stream_fd(fd, IF fd = 0 THEN "FD_READ" ELSE "FD_WRITE")]

(* mkdirp makes the directories above a file; a preopened directory exists  *)
(* only when there are files below it.                                      *)
InitialTree ==
  LET paths == {Root} \cup UNION {{SubSeq(f, 1, n) : n \in 1 .. Len(f)} : f \in DOMAIN Fs}
  IN  [p \in paths |-> IF p \in DOMAIN Fs
                       THEN [NewEntry("reg") EXCEPT !.data = Fs[p]]
                       ELSE NewEntry("dir")]

Init ==
  /\ fds = InitialFds
  /\ next_fd = MaxFd
  /\ mlist = {}
  /\ tree = InitialTree
  /\ ret = "SUCCESS"

-----------------------------------------------------------------------------
(* Answers.                                                                 *)

Errno == {"SUCCESS", "BADF", "NOTSUP", "NOTDIR", "NOTCAPABLE", "INVAL", "SPIPE",
          "NOSYS", "NOENT", "EXIST", "ISDIR", "NOTEMPTY"}

(* Failed REQUIREs: of the accessors file() and dir(), of littlefs when it  *)
(* is given a handle that is not open or not open for the purpose, of       *)
(* from_lfs_error, fd_prestat_dir_name and fd_renumber; and a use of a      *)
(* descriptor after it was freed, from which anything may follow.           *)
Halt == {"require_file", "require_dir", "assert_open", "assert_read",
         "assert_write", "assert_truncate", "require_lfs_error",
         "require_size", "require_emplace", "use_after_free"}

Check(holds, code) == IF holds THEN "SUCCESS" ELSE code

(* RETURN_IF_WASI_ERR: the code of the first step that does not succeed.    *)
OrElse(code, next) == IF code = "SUCCESS" THEN next ELSE code

from_lfs_error(error) ==
  CASE error = "OK" -> "SUCCESS"
    [] error \in {"NOENT", "EXIST", "ISDIR", "NOTEMPTY", "NOTDIR", "INVAL"} -> error
    [] OTHER -> "require_lfs_error"

(* A call that leaves everything as it is.                                  *)
Reply(code) == ret' = code /\ UNCHANGED <<fds, next_fd, mlist, tree>>

(* A call whose steps all succeed.                                          *)
Succeed == ret' = "SUCCESS"

-----------------------------------------------------------------------------
(* The descriptor table.                                                    *)

lookup_fd(fd, type, rights, allow_streams) ==
  OrElse(Check(fd \in DOMAIN fds, "BADF"),
  OrElse(Check(fds[fd].stream => allow_streams, "NOTSUP"),
  OrElse(Check(type \in {"any", fds[fd].type}, IF type = "dir" THEN "NOTDIR" ELSE "BADF"),
         Check(rights \subseteq fds[fd].rights_base, "NOTCAPABLE"))))

require_not_preopen_short(fd) == Check(fd < 3 \/ fd - 3 >= P - 1, "NOTSUP")
require_not_preopen(fd) == Check(fd < 3 \/ fd - 3 >= P, "NOTSUP")

(* REQUIRE_FD, the accessor file() and the handle's check by littlefs.      *)
FileError(fd, rights) ==
  OrElse(lookup_fd(fd, "any", rights, FALSE),
  OrElse(Check(fds[fd].type = "reg" /\ ~fds[fd].stream, "require_file"),
         Check(fds[fd].id \in mlist, "assert_open")))

(* What is left of the way down from next_fd to fd, around the end.         *)
Distance(fd) == (next_fd - fd) % (MaxFd - P + 1)

allocate_fd_endless(fd) ==
  /\ fd \in (P .. MaxFd) \ DOMAIN fds
  /\ \A other \in (P .. MaxFd) \ DOMAIN fds : Distance(fd) <= Distance(other)
  /\ next_fd' = fd - 1

(* allocate_fd hands out the first number on the way that is free; with     *)
(* none free it does not return.  (With no preopened directory, P = 0, the  *)
(* comparison of unsigned numbers in the code would never go around, but    *)
(* there is then no directory to open anything from.)                       *)
allocate_fd(fd) ==
  LET free == (P .. MaxFd) \ DOMAIN fds
  IN  /\ fd \in free
      /\ \A other \in free : Distance(fd) <= Distance(other)
      /\ next_fd' = IF fd - 1 < P THEN MaxFd ELSE fd - 1

Without_kept(fd) == fds
Without(fd) == [other \in DOMAIN fds \ {fd} |-> fds[other]]

fd_close_error(fd) ==
  OrElse(require_not_preopen(fd),
  IF fd < 3 THEN "SUCCESS"
  ELSE OrElse(lookup_fd(fd, "any", {}, FALSE),
       IF fds[fd].type = "dir" THEN Check(~fds[fd].stream, "require_dir")
       ELSE FileError(fd, {})))

Closed_leaked(fd) == UNCHANGED <<mlist, tree>>
Closed_bypath(fd) ==
  /\ mlist' = mlist \ {fds[fd].id}
  /\ LET h == [fds[fd].file EXCEPT !.at = fds[fd].path.comps]
     IN  tree' = IF IsReg(tree, h.at) THEN Synced(tree, h) ELSE tree

(* Closing reaches littlefs, which syncs a file, and frees the descriptor.  *)
Closes(fd) == fd >= 3 /\ fd_close_error(fd) = "SUCCESS"
Closed(fd) ==
  /\ mlist' = mlist \ {fds[fd].id}
  /\ tree' = IF fds[fd].type = "reg" THEN Synced(tree, fds[fd].file) ELSE tree

fd_close(fd) ==
  \/ ~Closes(fd) /\ Reply(fd_close_error(fd))
  \/ /\ Closes(fd)
     /\ fds' = Without(fd)
     /\ Closed(fd)
     /\ UNCHANGED next_fd
     /\ Succeed

fd_renumber_error(fd, to) ==
  OrElse(require_not_preopen(fd),
  OrElse(Check(fd \in DOMAIN fds, "BADF"),
         IF to \in DOMAIN fds THEN OrElse(fd_close_error(to), Check(to >= 3, "require_emplace"))
         ELSE "SUCCESS"))

(* The descriptor keeps its address.  When to = fd the entry that is about  *)
(* to be moved has just been freed with the descriptor it owned: at best    *)
(* the number ends up closed.                                               *)
fd_renumber(fd, to) ==
  LET err == fd_renumber_error(fd, to)
  IN  \/ err # "SUCCESS" /\ Reply(err)
      \/ err = "SUCCESS" /\ to = fd /\ Reply("use_after_free")
      \/ /\ err = "SUCCESS"
         /\ fds' = IF to = fd THEN Without(fd) ELSE Put(Without(fd), to, fds[fd])
         /\ IF to \in DOMAIN fds THEN Closed(to) ELSE UNCHANGED <<mlist, tree>>
         /\ UNCHANGED next_fd
         /\ Succeed

fd_fdstat_set_flags(fd, append) ==
  LET err == lookup_fd(fd, "any", {"FD_FDSTAT_SET_FLAGS"}, TRUE)
  IN  \/ err # "SUCCESS" /\ Reply(err)
      \/ /\ err = "SUCCESS"
         /\ fds' = [fds EXCEPT ![fd].append = append]
         /\ UNCHANGED <<next_fd, mlist, tree>>
         /\ Succeed

set_rights_unchecked(fd, base, inheriting) ==
  OrElse(lookup_fd(fd, "any", {}, TRUE),
         Check(base \subseteq fds[fd].rights_base, "NOTCAPABLE"))

set_rights_error(fd, base, inheriting) ==
  OrElse(lookup_fd(fd, "any", {}, TRUE),
         Check(/\ base \subseteq fds[fd].rights_base
               /\ inheriting \subseteq fds[fd].rights_inheriting,
               "NOTCAPABLE"))

fd_fdstat_set_rights(fd, base, inheriting) ==
  LET err == set_rights_error(fd, base, inheriting)
  IN  \/ err # "SUCCESS" /\ Reply(err)
      \/ /\ err = "SUCCESS"
         /\ fds' = [fds EXCEPT ![fd].rights_base = base,
                               ![fd].rights_inheriting = inheriting]
         /\ UNCHANGED <<next_fd, mlist, tree>>
         /\ Succeed

(* Calls that only look, or do nothing.                                     *)
fd_advise(fd)     == Reply(lookup_fd(fd, "any", {"FD_ADVISE"}, FALSE))
fd_datasync(fd)   == Reply(lookup_fd(fd, "any", {"FD_DATASYNC"}, FALSE))
fd_sync(fd)       == Reply(lookup_fd(fd, "any", {"FD_SYNC"}, FALSE))
fd_fdstat_get(fd) == Reply(lookup_fd(fd, "any", {}, TRUE))

filestat_get(path) == from_lfs_error(Find(tree, path.comps))

fd_filestat_get(fd) ==
  Reply(OrElse(lookup_fd(fd, "any", {"FD_FILESTAT_GET"}, TRUE),
               IF fds[fd].stream THEN "SUCCESS" ELSE filestat_get(fds[fd].path)))

fd_prestat_get_error(fd) ==
  OrElse(Check(fd >= 3, "NOTSUP"), Check(fd - 3 < P, "BADF"))

fd_prestat_get(fd) == Reply(fd_prestat_get_error(fd))

(* fits: the guest's buffer has the length of the name.                     *)
fd_prestat_dir_name(fd, fits) ==
  Reply(OrElse(fd_prestat_get_error(fd), Check(fits, "require_size")))

fd_readdir    == Reply("NOSYS")
path_link     == Reply("NOSYS")
path_readlink == Reply("NOSYS")
path_symlink  == Reply("NOSYS")

-----------------------------------------------------------------------------
(* Open files.  A vector of buffers is read or written one buffer after the *)
(* other, which is one buffer with all their bytes: a vector holds none or  *)
(* one.  Without any littlefs is not asked to read or write.                *)

Synchronise_lazily(fd, h) ==
  /\ fds' = [fds EXCEPT ![fd].file = h]
  /\ UNCHANGED <<next_fd, mlist, tree>>
  /\ Succeed

Synchronise_early(fd, h) ==
  /\ fds' = [fds EXCEPT ![fd].file = h]
  /\ tree' = Synced(tree, fds[fd].file)
  /\ UNCHANGED <<next_fd, mlist>>
  /\ Succeed

(* The handle of fd becomes h and is synced.                                *)
Synchronise(fd, h) ==
  /\ fds' = [fds EXCEPT ![fd].file = Clean(h)]
  /\ tree' = Synced(tree, h)
  /\ UNCHANGED <<next_fd, mlist>>
  /\ Succeed

SeekError(fd, offset, whence) ==
  from_lfs_error(FileSeekError(fds[fd].file, lfs_soff_t(offset), whence))

ReadError(fd, iovs) ==
  Check(iovs = <<>> \/ "RD" \in fds[fd].file.flags, "assert_read")

WriteError(fd, h, iovs) ==
  IF iovs = <<>> THEN "SUCCESS"
  ELSE OrElse(Check("WR" \in h.flags, "assert_write"),
              from_lfs_error(FileWriteError(tree, h, iovs[1])))

TruncateError(fd, size) ==
  OrElse(Check("WR" \in fds[fd].file.flags, "assert_truncate"),
         from_lfs_error(FileTruncateError(tree, fds[fd].file, size)))

AfterRead(h, iovs)  == IF iovs = <<>> THEN h ELSE FileRead(h, Len(iovs[1]))
AfterWrite(h, iovs) == IF iovs = <<>> THEN h ELSE FileWritten(h, iovs[1])

fd_allocate_unsynced(fd, offset, len) ==
  LET required_size == (offset + len) % (Word * Word)
      size == lfs_off_t(required_size)
      enough == Len(fds[fd].file.data) >= required_size
      err == OrElse(FileError(fd, {"FD_ALLOCATE"}),
                    IF enough THEN "SUCCESS" ELSE TruncateError(fd, size))
  IN  \/ err # "SUCCESS" /\ Reply(err)
      \/ err = "SUCCESS" /\ enough /\ Reply(err)
      \/ /\ err = "SUCCESS" /\ ~enough
         /\ fds' = [fds EXCEPT ![fd].file = FileTruncated(@, size)]
         /\ UNCHANGED <<next_fd, mlist, tree>>
         /\ Succeed

fd_allocate(fd, offset, len) ==
  LET required_size == (offset + len) % (Word * Word)
      size == lfs_off_t(required_size)
      enough == Len(fds[fd].file.data) >= required_size
      err == OrElse(FileError(fd, {"FD_ALLOCATE"}),
                    IF enough THEN "SUCCESS" ELSE TruncateError(fd, size))
  IN  \/ err # "SUCCESS" /\ Reply(err)
      \/ err = "SUCCESS" /\ enough /\ Reply(err)
      \/ /\ err = "SUCCESS" /\ ~enough
         /\ Synchronise(fd, FileTruncated(fds[fd].file, size))

fd_filestat_set_size(fd, size) ==
  LET err == OrElse(FileError(fd, {"FD_FILESTAT_SET_SIZE"}),
                    TruncateError(fd, lfs_off_t(size)))
  IN  \/ err # "SUCCESS" /\ Reply(err)
      \/ /\ err = "SUCCESS"
         /\ Synchronise(fd, FileTruncated(fds[fd].file, lfs_off_t(size)))

fd_read(fd, iovs) ==
  LET err == OrElse(FileError(fd, {"FD_READ"}), ReadError(fd, iovs))
  IN  \/ err # "SUCCESS" /\ Reply(err)
      \/ err = "SUCCESS" /\ Synchronise(fd, AfterRead(fds[fd].file, iovs))

(* The position is put back at the end.                                     *)
fd_pread(fd, iovs, offset) ==
  LET err == OrElse(FileError(fd, {"FD_READ"}),
             OrElse(SeekError(fd, offset, "SET"), ReadError(fd, iovs)))
      moved == FileSought(fds[fd].file, lfs_soff_t(offset), "SET")
  IN  \/ err # "SUCCESS" /\ Reply(err)
      \/ /\ err = "SUCCESS"
         /\ Synchronise(fd, [AfterRead(moved, iovs) EXCEPT !.pos = fds[fd].file.pos])

fd_pwrite(fd, iovs, offset) ==
  LET moved == FileSought(fds[fd].file, lfs_soff_t(offset), "SET")
      err == OrElse(FileError(fd, {"FD_WRITE"}),
             OrElse(SeekError(fd, offset, "SET"), WriteError(fd, moved, iovs)))
  IN  \/ err # "SUCCESS" /\ Reply(err)
      \/ /\ err = "SUCCESS"
         /\ Synchronise(fd, [AfterWrite(moved, iovs) EXCEPT !.pos = fds[fd].file.pos])

(* An appending write goes to the end and puts the position back.           *)
fd_write(fd, iovs) ==
  LET desc == fds[fd]
      file == desc.file
      from == IF desc.append
              THEN [file EXCEPT !.pos = Larger(@, Len(file.data))] ELSE file
      err == OrElse(FileError(fd, {"FD_WRITE"}), WriteError(fd, from, iovs))
      written == AfterWrite(from, iovs)
  IN  \/ err # "SUCCESS" /\ Reply(err)
      \/ /\ err = "SUCCESS"
         /\ Synchronise(fd, IF desc.append THEN [written EXCEPT !.pos = file.pos]
                            ELSE written)

fd_seek(fd, offset, whence) ==
  LET is_read_only == whence = "CUR" /\ offset = 0
      rights == {"FD_SEEK"} \cup IF is_read_only THEN {"FD_TELL"} ELSE {}
      err == OrElse(lookup_fd(fd, "reg", rights, TRUE),
             OrElse(Check(~fds[fd].stream, "SPIPE"),
             OrElse(FileError(fd, {}),
             OrElse(Check(whence \in {"SET", "CUR", "END"}, "INVAL"),
                    SeekError(fd, offset, whence)))))
  IN  \/ err # "SUCCESS" /\ Reply(err)
      \/ /\ err = "SUCCESS"
         /\ fds' = [fds EXCEPT ![fd].file = FileSought(@, lfs_soff_t(offset), whence)]
         /\ UNCHANGED <<next_fd, mlist, tree>>
         /\ Succeed

fd_tell(fd) == fd_seek(fd, 0, "CUR")

-----------------------------------------------------------------------------
(* Paths.                                                                   *)

Dot == [comps |-> <<>>, slash |-> FALSE]      \* "."; the empty path ends with "/"

(* resolve_path: the directory's path, as it was when it was opened, then   *)
(* the argument.                                                            *)
resolve_path(fd, path) ==
  [comps |-> fds[fd].path.comps \o path.comps,
   slash |-> IF path = Dot THEN fds[fd].path.slash ELSE path.slash]

is_regular_file(path) == IsReg(tree, path.comps)
verify_is_valid_file_path(path) == Check(~path.slash, "NOTDIR")

get_metadata(vol, p) == IF vol[p].attr = <<>> THEN DefaultMetadata ELSE vol[p].attr[1]
set_metadata(vol, p, m) == [vol EXCEPT ![p].attr = <<m>>]

required_rights(oflags) ==
  {"PATH_OPEN"}
    \cup {right \in {"PATH_CREATE_FILE"} : "CREAT" \in oflags}
    \cup {right \in {"PATH_FILESTAT_SET_SIZE"} : "TRUNC" \in oflags}

to_lfs_open_flags_swapped(oflags, rights) ==
  (oflags \cap {"CREAT", "EXCL", "TRUNC"})
    \cup {flag \in {"WR"} : "FD_READ" \in rights}
    \cup {flag \in {"RD"} : "FD_WRITE" \in rights}

to_lfs_open_flags(oflags, rights) ==
  (oflags \cap {"CREAT", "EXCL", "TRUNC"})
    \cup {flag \in {"RD"} : "FD_READ" \in rights}
    \cup {flag \in {"WR"} : "FD_WRITE" \in rights}

rights_unmasked(fd, oflags, base) == base \cap fds[fd].rights_inheriting

(* The rights of what path_open opens: those asked for that the directory   *)
(* passes on, without the ones that make no sense for the type.             *)
rights_granted(fd, oflags, base) ==
  (base \cap fds[fd].rights_inheriting)
    \ IF "DIRECTORY" \in oflags THEN WASI_FD_RIGHTS ELSE WASI_PATH_RIGHTS

(* The descriptor that path_open makes.                                     *)
NewDescriptor(id, fd, path, oflags, base, inheriting, append) ==
  LET to     == resolve_path(fd, path)
      isdir  == "DIRECTORY" \in oflags
      rights == rights_granted(fd, oflags, base)
  IN  [id |-> id, path |-> to, rights_base |-> rights,
       rights_inheriting |-> inheriting, append |-> append, stream |-> FALSE,
       type |-> IF isdir THEN "dir" ELSE "reg",
       file |-> IF isdir THEN NoHandle
                ELSE FileOpened(tree, to.comps, to_lfs_open_flags(oflags, rights))]

path_open_error(fd, path, oflags, base) ==
  OrElse(lookup_fd(fd, "dir", required_rights(oflags), FALSE),
  LET to == resolve_path(fd, path)
  IN  from_lfs_error(IF "DIRECTORY" \in oflags THEN DirOpenError(tree, to.comps)
                     ELSE FileOpenError(tree, to.comps, to.slash, oflags)))

(* The file is made, and what path_open writes back as its times: its own,  *)
(* or the default ones.                                                     *)
path_open_stamping(fd, path, oflags, base, inheriting, append) ==
  LET err == path_open_error(fd, path, oflags, base)
  IN  \/ err # "SUCCESS" /\ Reply(err)
      \/ /\ err = "SUCCESS"
         /\ \E id \in Addr \ {fds[other].id : other \in DOMAIN fds}, new_fd \in Fd :
              LET desc == NewDescriptor(id, fd, path, oflags, base, inheriting, append)
                  p    == desc.path.comps
                  made == IF p \in DOMAIN tree THEN tree ELSE Put(tree, p, NewEntry("reg"))
              IN  /\ allocate_fd(new_fd)
                  /\ fds' = Put(fds, new_fd, desc)
                  /\ mlist' = mlist \cup {id}
                  /\ tree' = set_metadata(made, p, DefaultMetadata)
         /\ Succeed

path_open(fd, path, oflags, base, inheriting, append) ==
  LET err == path_open_error(fd, path, oflags, base)
  IN  \/ err # "SUCCESS" /\ Reply(err)
      \/ /\ err = "SUCCESS"
         /\ \E id \in Addr \ {fds[other].id : other \in DOMAIN fds}, new_fd \in Fd :
              LET desc == NewDescriptor(id, fd, path, oflags, base, inheriting, append)
                  p    == desc.path.comps
                  made == IF p \in DOMAIN tree THEN tree ELSE Put(tree, p, NewEntry("reg"))
              IN  /\ allocate_fd(new_fd)
                  /\ fds' = Put(fds, new_fd, desc)
                  /\ mlist' = mlist \cup {id}
                  /\ tree' = set_metadata(made, p, get_metadata(made, p))
         /\ Succeed

path_create_directory(fd, path) ==
  LET to  == resolve_path(fd, path)
      err == OrElse(lookup_fd(fd, "dir", {"PATH_CREATE_DIRECTORY"}, FALSE),
                    from_lfs_error(MkdirError(tree, to.comps, to.slash)))
  IN  \/ err # "SUCCESS" /\ Reply(err)
      \/ /\ err = "SUCCESS"
         /\ tree' = Put(tree, to.comps, NewEntry("dir"))
         /\ UNCHANGED <<fds, next_fd, mlist>>
         /\ Succeed

path_filestat_get(fd, path) ==
  Reply(OrElse(lookup_fd(fd, "dir", {"PATH_FILESTAT_GET"}, FALSE),
               filestat_get(resolve_path(fd, path))))

RemoveEntry_untold(fd, path, err) ==
  \/ err # "SUCCESS" /\ Reply(err)
  \/ /\ err = "SUCCESS"
     /\ tree' = Removed(tree, resolve_path(fd, path).comps)
     /\ UNCHANGED <<fds, next_fd, mlist>>
     /\ Succeed

(* Every open handle learns of a change of the directory: lfs_remove goes   *)
(* through the list of open handles, not memfs.cc.                          *)
RemoveEntry(fd, path, err) ==
  \/ err # "SUCCESS" /\ Reply(err)
  \/ /\ err = "SUCCESS"
     /\ LET p == resolve_path(fd, path).comps
        IN  /\ tree' = Removed(tree, p)
            /\ fds' = [other \in DOMAIN fds |->
                         [fds[other] EXCEPT !.file = Unlinked(@, p)]]
     /\ UNCHANGED <<next_fd, mlist>>
     /\ Succeed

path_remove_directory(fd, path) ==
  LET p == resolve_path(fd, path).comps
  IN  RemoveEntry(fd, path,
        OrElse(lookup_fd(fd, "dir", {"PATH_REMOVE_DIRECTORY"}, FALSE),
        OrElse(Check(p \in DOMAIN tree => IsDir(tree, p), "NOTDIR"),
               from_lfs_error(RemoveError(tree, p)))))

path_unlink_file(fd, path) ==
  LET to == resolve_path(fd, path)
  IN  RemoveEntry(fd, path,
        OrElse(lookup_fd(fd, "dir", {"PATH_UNLINK_FILE"}, FALSE),
        OrElse(Check(~IsDir(tree, to.comps), "ISDIR"),
        OrElse(verify_is_valid_file_path(to),
               from_lfs_error(RemoveError(tree, to.comps))))))

(* A mismatch of types is reported by the type of the destination.          *)
rename_error(old, new) ==
  LET result == RenameError(tree, old, new)
  IN  IF result = "ISDIR" THEN IF IsReg(tree, new) THEN "NOTDIR" ELSE "ISDIR"
      ELSE from_lfs_error(result)

path_rename(old_fd, old_path, new_fd, new_path) ==
  LET old == resolve_path(old_fd, old_path)
      new == resolve_path(new_fd, new_path)
      valid(path) == IF is_regular_file(old) THEN verify_is_valid_file_path(path)
                     ELSE "SUCCESS"
      err == OrElse(lookup_fd(old_fd, "dir", {"PATH_RENAME_SOURCE"}, FALSE),
             OrElse(valid(old),
             OrElse(lookup_fd(new_fd, "dir", {"PATH_RENAME_TARGET"}, FALSE),
             OrElse(valid(new), rename_error(old.comps, new.comps)))))
  IN  \/ err # "SUCCESS" /\ Reply(err)
      \/ /\ err = "SUCCESS"
         /\ tree' = Renamed(tree, old.comps, new.comps)
         /\ fds' = [fd \in DOMAIN fds |->
                      [fds[fd] EXCEPT !.file = Relinked(@, old.comps, new.comps)]]
         /\ UNCHANGED <<next_fd, mlist>>
         /\ Succeed

(* The times a call asks for; now is what now_ms() * 10000000 gives.        *)
times_error(fst) ==
  Check(~({"ATIM", "ATIM_NOW"} \subseteq fst) /\ ~({"MTIM", "MTIM_NOW"} \subseteq fst),
        "INVAL")

Times(m, atim, mtim, fst, now) ==
  [atim |-> CASE "ATIM" \in fst -> atim [] "ATIM_NOW" \in fst -> now.atim [] OTHER -> m.atim,
   mtim |-> CASE "MTIM" \in fst -> mtim [] "MTIM_NOW" \in fst -> now.mtim [] OTHER -> m.mtim]

(* Nobody looks at what lfs_setattr answers: a path that leads nowhere any  *)
(* more is a success.                                                       *)
set_file_times(found, path, atim, mtim, fst) ==
  LET err == OrElse(found, times_error(fst))
      p   == path.comps
  IN  \/ err # "SUCCESS" /\ Reply(err)
      \/ /\ err = "SUCCESS"
         /\ \E now \in FileMetadata :     \* now_ms() is called for each
              tree' = IF p \notin DOMAIN tree THEN tree
                      ELSE set_metadata(tree, p,
                             Times(get_metadata(tree, p), atim, mtim, fst, now))
         /\ UNCHANGED <<fds, next_fd, mlist>>
         /\ Succeed

fd_filestat_set_times(fd, atim, mtim, fst) ==
  set_file_times(lookup_fd(fd, "any", {"FD_FILESTAT_SET_TIMES"}, FALSE),
                 fds[fd].path, atim, mtim, fst)

path_filestat_set_times(fd, path, atim, mtim, fst) ==
  set_file_times(lookup_fd(fd, "dir", {"PATH_FILESTAT_SET_TIMES"}, FALSE),
                 resolve_path(fd, path), atim, mtim, fst)

-----------------------------------------------------------------------------
DescriptorCall(fd) ==
  \/ fd_close(fd)
  \/ \E to \in ToArg : fd_renumber(fd, to)
  \/ \E append \in AppendArg : fd_fdstat_set_flags(fd, append)
  \/ \E rights \in RightsArg : fd_fdstat_set_rights(fd, rights.base, rights.inheriting)
  \/ fd_advise(fd)
  \/ fd_datasync(fd)
  \/ fd_sync(fd)
  \/ fd_fdstat_get(fd)
  \/ fd_filestat_get(fd)
  \/ fd_prestat_get(fd)
  \/ \E fits \in BOOLEAN : fd_prestat_dir_name(fd, fits)

FileCall(fd) ==
  \/ \E offset, len \in OffsetArg : fd_allocate(fd, offset, len)
  \/ \E size \in OffsetArg : fd_filestat_set_size(fd, size)
  \/ \E iovs \in IovsArg : fd_read(fd, iovs)
  \/ \E iovs \in IovsArg : fd_write(fd, iovs)
  \/ \E iovs \in IovsArg, offset \in OffsetArg : fd_pread(fd, iovs, offset)
  \/ \E iovs \in IovsArg, offset \in OffsetArg : fd_pwrite(fd, iovs, offset)
  \/ \E offset \in OffsetArg, whence \in {"SET", "CUR", "END", "?"} :
       fd_seek(fd, offset, whence)
  \/ fd_tell(fd)
  \/ \E atim, mtim \in Stamp, fst \in FstArg : fd_filestat_set_times(fd, atim, mtim, fst)

PathCall(fd, path) ==
  \/ \E oflags \in OflagsArg, rights \in RightsArg, append \in AppendArg :
       path_open(fd, path, oflags, rights.base, rights.inheriting, append)
  \/ path_filestat_get(fd, path)
  \/ \E atim, mtim \in Stamp, fst \in FstArg :
       path_filestat_set_times(fd, path, atim, mtim, fst)

EntryCall(fd, path) ==
  \/ path_create_directory(fd, path)
  \/ path_remove_directory(fd, path)
  \/ path_unlink_file(fd, path)
  \/ \E new_fd \in FdArg, new_path \in EntryArg : path_rename(fd, path, new_fd, new_path)

UnsupportedCall == fd_readdir \/ path_link \/ path_readlink \/ path_symlink

Running == ret \in Errno

Next ==
  /\ Running
  /\ \/ \E fd \in FdArg : DescriptorCall(fd)
     \/ \E fd \in FdArg : FileCall(fd)
     \/ \E fd \in FdArg, path \in PathArg : PathCall(fd, path)
     \/ \E fd \in FdArg, path \in EntryArg : EntryCall(fd, path)
     \/ UnsupportedCall

Spec == Init /\ [][Next]_vars

-----------------------------------------------------------------------------
(* Every variable has its type: the type invariant of the module.           *)
TypeOK ==
  /\ DOMAIN fds \subseteq Fd /\ fds \in [DOMAIN fds -> FileDescriptor]
  /\ next_fd \in P .. MaxFd
  /\ mlist \subseteq Addr
  /\ IsVolume(tree, FileMetadata)
  /\ ret \in Errno \cup Halt

(* No descriptor is owned by two numbers, and littlefs has open exactly the *)
(* descriptors of the table that path_open made: none is leaked and none is *)
(* closed, or freed, while littlefs still has it in its list.               *)
OwnershipInv ==
  /\ \A fd, other \in DOMAIN fds : fds[fd].id = fds[other].id => fd = other
  /\ mlist = {fds[fd].id : fd \in DOMAIN fds} \cap Addr

(* The rights of a descriptor protect it from the REQUIREs of file() and    *)
(* dir() and from the assertions of littlefs on reads and writes: no call   *)
(* ends the guest there, whatever was opened, closed and renumbered before. *)
AccessorsSafe ==
  ret \notin {"require_file", "require_dir", "assert_open", "assert_read", "assert_write"}

(* The numbers 3, 4, ... always are the preopened directories, unopened and *)
(* with their paths, as fd_prestat_get and fd_prestat_dir_name report them  *)
(* from another table: they cannot be closed, replaced or moved.            *)
PreopensPinned ==
  \A fd \in BootFd \ 0 .. 2 :
    /\ fd \in DOMAIN fds
    /\ fds[fd].id = fd /\ fds[fd].type = "dir" /\ ~fds[fd].stream
    /\ fds[fd].path = Preopens[fd - 2]

(* What is not written to the volume yet is at most that a file was opened  *)
(* to be emptied: all other changes are flushed by the call that makes them.*)
PendingOnlyTruncation ==
  \A fd \in DOMAIN fds :
    LET h == fds[fd].file IN h.dirty /\ h.at # Detached => h.data = <<>>

(* Whatever changes the contents that a handle sees (writes, truncations    *)
(* and allocations do) has changed them in the volume as well when the call *)
(* returns, "we currenty flush on all writes": not if the file was removed  *)
(* or replaced, and not if it has been renamed since it was opened (see     *)
(* RenamedFilesAreFlushed), when the handle no longer writes to its entry.  *)
WritesAreFlushed ==
  [][\A fd \in DOMAIN fds \cap DOMAIN fds' :
       LET h == fds'[fd].file
       IN  fds'[fd].id = fds[fd].id /\ h.data # fds[fd].file.data =>
             h.name = Detached \/ h.at # h.name \/ tree'[h.name].data = h.data]_vars

(* A handle that can still be synced belongs to a regular file of the tree: *)
(* removals and renames detach the handles whose entry they take away.      *)
AttachedHandles ==
  \A fd \in DOMAIN fds :
    LET h == fds[fd].file IN h.at # Detached => IsReg(tree, h.at)

(* What reads and writes rely on: a directory has no right to them, and a   *)
(* file that has the right has a handle opened for it by path_open, even    *)
(* after the rights were cut down and the descriptor renumbered.            *)
RightsInv ==
  \A fd \in DOMAIN fds :
    LET desc == fds[fd]
    IN  /\ desc.type = "dir" => desc.rights_base \cap WASI_FD_RIGHTS = {}
        /\ desc.type = "reg" /\ ~desc.stream =>
             /\ "FD_READ" \in desc.rights_base => "RD" \in desc.file.flags
             /\ "FD_WRITE" \in desc.rights_base => "WR" \in desc.file.flags

(* A descriptor never gains rights while it lives, whatever number it has,  *)
(* and a new one has only rights that some open directory passes on.        *)
RightsAttenuate ==
  [][\A new \in DOMAIN fds' :
       LET desc == fds'[new]
       IN  IF \E fd \in DOMAIN fds : fds[fd].id = desc.id
           THEN \A fd \in DOMAIN fds : fds[fd].id = desc.id =>
                  /\ desc.rights_base \subseteq fds[fd].rights_base
                  /\ desc.rights_inheriting \subseteq fds[fd].rights_inheriting
           ELSE \E fd \in DOMAIN fds :
                  /\ fds[fd].type = "dir" /\ "PATH_OPEN" \in fds[fd].rights_base
                  /\ desc.rights_base \subseteq fds[fd].rights_inheriting]_vars

(* The contents of a file change in the volume in two ways.  A handle that  *)
(* is attached to it stores its whole copy, as the handle has it after the  *)
(* step, under whatever number, or had it before when the step frees it; or *)
(* another file is renamed over it.  No removal, rename, renumbering, or    *)
(* closing of a handle whose file is gone writes to a file that took its    *)
(* path.                                                                    *)
CommitsOwnCopy ==
  [][\A p \in DOMAIN tree \cap DOMAIN tree' :
       tree'[p].data # tree[p].data =>
         \/ \E fd \in DOMAIN fds :
              /\ fds[fd].file.at = p
              /\ \/ \E new \in DOMAIN fds' :
                      fds'[new].id = fds[fd].id /\ tree'[p].data = fds'[new].file.data
                 \/ /\ \A new \in DOMAIN fds' : fds'[new].id # fds[fd].id
                    /\ tree'[p].data = fds[fd].file.data
         \/ \E old \in DOMAIN tree \ DOMAIN tree' : tree'[p].data = tree[old].data]_vars

(* The times that were set for an entry change only when they are set       *)
(* again, by a call that changes nothing else, or because another entry was *)
(* renamed over it: path_open writes back what it read, littlefs keeps them *)
(* under writes, truncations and renames of the entry.                      *)
TimesKept ==
  [][\A p \in DOMAIN tree \cap DOMAIN tree' :
       tree[p].attr # <<>> /\ tree'[p].attr # tree[p].attr =>
         \/ tree' = [tree EXCEPT ![p].attr = tree'[p].attr] /\ fds' = fds
         \/ \E old \in DOMAIN tree \ DOMAIN tree' : tree'[p] = tree[old]]_vars

-----------------------------------------------------------------------------
(* What the comments and assertions of memfs.cc say and the code does not   *)
(* keep.                                                                    *)

(* fd_sync and fd_datasync: "we currenty flush on all writes so this is a   *)
(* noop".  It is not: a file opened with O_TRUNC has something to flush.    *)
SyncIsNoop == \A fd \in DOMAIN fds : Synced(tree, fds[fd].file) = tree

(* The same comment, of a file that is renamed while it is open.  Its       *)
(* descriptor still writes, and answers SUCCESS, but the bytes are stored   *)
(* nowhere: littlefs has detached the handle.                               *)
RenamedFilesAreFlushed ==
  [][\A fd \in DOMAIN fds \cap DOMAIN fds' :
       LET h == fds'[fd].file
       IN  fds'[fd].id = fds[fd].id /\ h.data # fds[fd].file.data =>
             h.name = Detached \/ tree'[h.name].data = h.data]_vars

(* from_lfs_error has a REQUIRE(false) for the errors it does not know.     *)
LfsErrorsKnown == ret # "require_lfs_error"

-----------------------------------------------------------------------------
(* The table of descriptors and the list of littlefs, by themselves.        *)
Table == INSTANCE DescriptorTable
           WITH Pinned <- BootFd \ 0 .. 2, Boot <- [fd \in BootFd |-> fd],
                table <- [fd \in DOMAIN fds |-> fds[fd].id], open <- mlist

(* Under every call the table behaves as DescriptorTable says.              *)
TableSpec == Table!Spec
=============================================================================
